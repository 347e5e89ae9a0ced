-------------------------- MODULE JobSequencerProofs --------------------------
(***************************************************************************)
(* Proofs about JobSequencer, for every set of sequences and describe      *)
(* jobs, every dependency between them, every set of other callers of      *)
(* scheduleAnalyticsJob and every bound.                                   *)
(***************************************************************************)
EXTENDS JobSequencer, AnalyticsJobProofs

(* Where a pass is.  What has been looked at of the current sequence's     *)
(* describe jobs was ready then; scheduleAnalyticsJob is called only when  *)
(* all of it was, and is under way exactly while the pass waits for it.    *)
LoopInv ==
    /\ lpc = "idle" => todo = {}
    /\ lpc # "idle" => cur \in todo
    /\ (lpc = "call") <=> (pc["sequencer"] # "idle")
    /\ lpc \in {"look", "search"} => SeqDeps[cur] \subseteq left \cup ready
    /\ lpc = "search" => dep \in over
    /\ lpc = "call" => SeqDeps[cur] \subseteq ready

(* This pass has not created the next job of s. *)
Fresh(s) == \/ lpc = "idle" \/ cur # s
            \/ lpc \in {"look", "search"}
            \/ lpc = "call" /\ pc["sequencer"] \in {"read", "insert"}

(* A sequence whose next job was created, and which is not FINISHED, is    *)
(* the current one, or owes it to a failure.                               *)
CreatedOnce(s) ==
    /\ started[s] <= 1 + faults
    /\ sstatus[s] = "WaitingForDependencies" /\ Fresh(s) => started[s] <= faults

StatusInv(s) ==
    /\ sstatus[s] = "NONE" => started[s] = 0 /\ runners[s] = "NONE" /\ s \notin todo
    /\ s \in todo /\ s # cur => sstatus[s] = "WaitingForDependencies"
    /\ (s = cur /\ (\/ lpc \in {"look", "search", "call", "finish"}
                    \/ lpc = "fail" /\ faults = 0)) => sstatus[s] = "WaitingForDependencies"
    /\ s = cur /\ lpc = "name" => sstatus[s] = "FINISHED"
    /\ CreatedOnce(s)

(* Where a sequence can be once it has runners, if nothing failed. *)
Told(s) ==
    (runners[s] # "NONE" /\ faults = 0) =>
        \/ cur = s /\ lpc = "finish"
        \/ sstatus[s] = "FINISHED" /\ (s \in named \/ (cur = s /\ lpc = "name"))

SeqInv == LoopInv /\ \A s \in Seqs : StatusInv(s) /\ Told(s)

(* The inductive invariant; that of the analytics jobs is a part of it. *)
IInv == AnalyticsInv /\ TypeOK /\ SeqInv

USE DEF seqVars, depVars, loopVars, tableVars, callVars, queueVars, cancVars, Fault

-----------------------------------------------------------------------------
(* The analytics jobs. *)

(* A step of the sequencer is one of AnalyticsJob, or leaves its variables *)
(* alone.                                                                  *)
LEMMA AnalyticsMoves == Step => [AnalyticsNext]_analyticsVars
<1> SUFFICES ASSUME Step PROVE AnalyticsNext \/ UNCHANGED analyticsVars
  OBVIOUS
<1>1. CASE (\E s \in Seqs : Submit(s) \/ RunnersMove(s))
           \/ \E d \in Deps : DepMoves(d) \/ DepSinks(d) \/ DepAges(d) \/ CleanUp(d)
  BY <1>1 DEF Submit, RunnersMove, DepMoves, DepSinks, DepAges, CleanUp
<1>2. CASE Pass
  <2>1. CASE StartAnalytics \/ Called
    BY <2>1, SequencerAssumption DEF StartAnalytics, Called, AnalyticsNext
  <2>2. CASE \/ List \/ (\E d \in left : LookAt(d)) \/ Search \/ StartRunners
             \/ Finish \/ Name \/ FailSequence
    BY <2>2 DEF List, LookAt, Search, StartRunners, Finish, Name, FailSequence
  <2> QED  BY <1>2, <2>1, <2>2 DEF Pass
<1>3. CASE PassFails
  BY <1>3 DEF PassFails, TickFails, AnalyticsWork, AnalyticsStep, AnalyticsNext
<1>4. CASE Restart
  BY <1>4 DEF Restart, AnalyticsNext
<1>5. CASE Analytics
  BY <1>5 DEF Analytics, AnalyticsNext
<1> QED  BY <1>1, <1>2, <1>3, <1>4, <1>5 DEF Step

LEMMA AnalyticsMovesNext == [Next]_vars => [AnalyticsNext]_analyticsVars
BY AnalyticsMoves DEF Next, vars

(* What the other steps of AnalyticsJob do to the sequencer's call: they   *)
(* neither begin nor end it.                                               *)
LEMMA SequencerCall ==
    ASSUME AnalyticsTypeOK, Analytics
    PROVE  /\ (pc'["sequencer"] = "idle") <=> (pc["sequencer"] = "idle")
           /\ pc'["sequencer"] \in {"read", "insert"} => pc["sequencer"] \in {"read", "insert"}
           /\ faults' \in {faults, faults + 1}
<1> USE SequencerAssumption
<1>1. CASE AnalyticsWork
  <2>1. ASSUME NEW j \in Rows, \/ WorkerTake(j) \/ WorkerFinish(j) \/ WorkerLost(j)
                                \/ CancelRead(j) \/ Age(j)
        PROVE  UNCHANGED pc /\ faults' \in {faults, faults + 1}
    BY <2>1 DEF WorkerTake, WorkerFinish, WorkerLost, CancelRead, Age
  <2>2. ASSUME NEW a \in results, Consume(a) \/ ConsumeFails(a)
        PROVE  UNCHANGED pc /\ faults' \in {faults, faults + 1}
    BY <2>2 DEF Consume, ConsumeFails
  <2>3. ASSUME Expire \/ CancelWrite \/ TickFails
        PROVE  UNCHANGED pc /\ faults' \in {faults, faults + 1}
    BY <2>3 DEF Expire, CancelWrite, TickFails
  <2>4. UNCHANGED pc /\ faults' \in {faults, faults + 1}
    BY <1>1, <2>1, <2>2, <2>3 DEF AnalyticsWork
  <2> QED  BY <2>4
<1>2. ASSUME NEW c \in Callers,
             Schedule(c) \/ ScheduleFails(c) \/ (c # "sequencer" /\ (Call(c) \/ Returned(c)))
      PROVE  /\ (pc'["sequencer"] = "idle") <=> (pc["sequencer"] = "idle")
             /\ pc'["sequencer"] \in {"read", "insert"} => pc["sequencer"] \in {"read", "insert"}
             /\ faults' \in {faults, faults + 1}
  <2>1. PICK l \in {"idle", "read", "insert", "produce", "reject", "done"} :
            /\ pc' = [pc EXCEPT ![c] = l]
            /\ c = "sequencer" => pc[c] # "idle" /\ l \notin {"idle", "read"}
            /\ l = "insert" => pc[c] = "read"
    BY <1>2 DEF Schedule, ScheduleFails, ReadLast, Insert, Enqueue, Reject, EnqueueFails, CallFails,
                Call, Returned, Goto, Return
  <2>2. faults' \in {faults, faults + 1}
    BY <1>2 DEF Schedule, ScheduleFails, ReadLast, Insert, Enqueue, Reject, EnqueueFails, CallFails,
                Call, Returned
  <2>3. CASE c = "sequencer"
    BY <2>1, <2>2, <2>3 DEF AnalyticsTypeOK
  <2>4. CASE c # "sequencer"
    BY <2>1, <2>2, <2>4 DEF AnalyticsTypeOK
  <2> QED  BY <2>3, <2>4
<1> QED  BY <1>1, <1>2 DEF Analytics, AnalyticsStep

-----------------------------------------------------------------------------
(* TypeOK without the variables of AnalyticsJob, and those that Observe    *)
(* and the passes write.                                                   *)
LoopTypes == /\ lpc \in {"idle", "look", "search", "call", "finish", "name", "fail"}
             /\ todo \subseteq Seqs /\ cur \in Seqs \cup {Nil} /\ left \subseteq Deps
             /\ dep \in Deps \cup {Nil}

LEMMA ObserveTypes ==
    ASSUME TypeOK, Observe
    PROVE  over' \subseteq Deps /\ ready' \subseteq Deps /\ over \subseteq over' /\ ready \subseteq ready'
BY DEF TypeOK, Observe

(* Going on with a set of sequences that wait, none of which owes its next *)
(* job to this pass.                                                       *)
LEMMA GoOnInv ==
    ASSUME TypeOK, NEW S \in SUBSET Seqs, GoOn(S), pc'["sequencer"] = "idle",
           \A s \in S : sstatus'[s] = "WaitingForDependencies",
           \A s \in Seqs :
              /\ sstatus'[s] = "NONE" => started'[s] = 0 /\ runners'[s] = "NONE"
              /\ sstatus'[s] = "WaitingForDependencies" => started'[s] <= faults'
              /\ started'[s] <= 1 + faults'
              /\ runners'[s] # "NONE" /\ faults' = 0 => sstatus'[s] = "FINISHED" /\ s \in named'
    PROVE  LoopTypes' /\ SeqInv'
<1>1. CASE S = {} /\ lpc' = "idle" /\ todo' = {} /\ cur' = Nil /\ left' = {} /\ dep' = Nil
  <2>1. LoopTypes' /\ LoopInv'
    BY <1>1 DEF LoopTypes, LoopInv
  <2>2. \A s \in Seqs : StatusInv(s)' /\ Told(s)'
    BY <1>1 DEF StatusInv, CreatedOnce, Fresh, Told
  <2> QED  BY <2>1, <2>2 DEF SeqInv
<1>2. ASSUME NEW t \in S, lpc' = "look", todo' = S, cur' = t, left' = SeqDeps[t], dep' = Nil
      PROVE  LoopTypes' /\ SeqInv'
  <2>1. LoopTypes' /\ LoopInv'
    BY <1>2, SequencerAssumption DEF LoopTypes, LoopInv
  <2>2. \A s \in Seqs : StatusInv(s)' /\ Told(s)'
    BY <1>2 DEF StatusInv, CreatedOnce, Fresh, Told
  <2> QED  BY <2>1, <2>2 DEF SeqInv
<1> QED  BY <1>1, <1>2 DEF GoOn

(* The rest of TypeOK. *)
SeqTypes ==
    /\ sstatus \in [Seqs -> SequencerStatus] /\ named \subseteq Seqs
    /\ dstatus \in [Deps -> Life!RowStatus \cup {"DELETED"}]
    /\ sunk \subseteq Deps /\ dayold \subseteq Deps
    /\ runners \in [Seqs -> RunnerStatus]
    /\ started \in [Seqs -> Nat] /\ over \subseteq Deps /\ ready \subseteq Deps
    /\ LoopTypes

LEMMA LoopKept ==
    ASSUME LoopInv, UNCHANGED loopVars, over \subseteq over', ready \subseteq ready',
           (pc'["sequencer"] = "idle") <=> (pc["sequencer"] = "idle")
    PROVE  LoopInv'
BY DEF LoopInv

-----------------------------------------------------------------------------
(* What is no step of a pass: the describe jobs, the runners and requests. *)

LEMMA DependencyInv ==
    ASSUME IInv, Observe, NEW d \in Deps, DepMoves(d) \/ DepSinks(d) \/ DepAges(d) \/ CleanUp(d)
    PROVE  SeqTypes' /\ SeqInv'
<1> USE DEF IInv
<1>1. over' \subseteq Deps /\ ready' \subseteq Deps /\ over \subseteq over' /\ ready \subseteq ready'
  BY ObserveTypes
<1>2. UNCHANGED <<analyticsVars, seqVars, runners, loopVars, started>>
  BY DEF DepMoves, DepSinks, DepAges, CleanUp
<1>3. dstatus' \in [Deps -> Life!RowStatus \cup {"DELETED"}]
  BY SequencerAssumption DEF DepMoves, DepSinks, DepAges, CleanUp, TypeOK
<1>4. sunk' \subseteq Deps /\ dayold' \subseteq Deps
  BY DEF DepMoves, DepSinks, DepAges, CleanUp, TypeOK
<1>5. SeqTypes'
  BY <1>1, <1>2, <1>3, <1>4 DEF SeqTypes, LoopTypes, TypeOK
<1>6. LoopInv'
  BY <1>1, <1>2, LoopKept DEF SeqInv, analyticsVars, callVars
<1>7. \A s \in Seqs : StatusInv(s)' /\ Told(s)'
  BY <1>2 DEF SeqInv, StatusInv, CreatedOnce, Fresh, Told, analyticsVars, callVars
<1> QED  BY <1>5, <1>6, <1>7 DEF SeqInv

LEMMA RunnersInv ==
    ASSUME IInv, Observe, NEW t \in Seqs, Submit(t) \/ RunnersMove(t)
    PROVE  SeqTypes' /\ SeqInv'
<1> USE DEF IInv
<1>1. over' \subseteq Deps /\ ready' \subseteq Deps /\ over \subseteq over' /\ ready \subseteq ready'
  BY ObserveTypes
<1>2. UNCHANGED <<analyticsVars, named, depVars, loopVars, started>>
  BY DEF Submit, RunnersMove
<1>3. \/ /\ sstatus[t] = "NONE" /\ sstatus' = [sstatus EXCEPT ![t] = "WaitingForDependencies"]
         /\ runners' = runners
      \/ /\ sstatus' = sstatus /\ runners[t] # "NONE"
         /\ \E st \in RunnerStatus \ {"NONE"} : runners' = [runners EXCEPT ![t] = st]
  BY DEF Submit, RunnersMove, RunnerStatus
<1>4. SeqTypes'
  <2>1. sstatus' \in [Seqs -> SequencerStatus] /\ runners' \in [Seqs -> RunnerStatus]
    BY <1>3 DEF TypeOK, SequencerStatus
  <2> QED  BY <1>1, <1>2, <2>1 DEF SeqTypes, LoopTypes, TypeOK
<1>5. LoopInv'
  BY <1>1, <1>2, LoopKept DEF SeqInv, analyticsVars, callVars
<1>6. ASSUME NEW s \in Seqs PROVE StatusInv(s)' /\ Told(s)'
  <2>1. UNCHANGED <<faults, pc>> /\ faults \in Nat
    BY <1>2, AnalyticsBounds DEF analyticsVars, callVars, TypeOK, AnalyticsTypeOK
  <2>2. (runners'[s] = "NONE") <=> (runners[s] = "NONE")
    BY <1>3 DEF TypeOK
  <2>3. sstatus'[s] = sstatus[s] \/ (sstatus[s] = "NONE" /\ sstatus'[s] = "WaitingForDependencies")
    BY <1>3 DEF TypeOK
  <2>4. StatusInv(s)'
    BY <1>2, <2>1, <2>2, <2>3 DEF SeqInv, StatusInv, CreatedOnce, Fresh
  <2>5. Told(s)'
    BY <1>2, <2>1, <2>2, <2>3 DEF SeqInv, StatusInv, Told
  <2> QED  BY <2>4, <2>5
<1> QED  BY <1>4, <1>5, <1>6 DEF SeqInv

(* The steps of the analytics jobs: the one that inserts the sequencer's   *)
(* row counts for the current sequence.                                    *)
LEMMA AnalyticsSeqInv ==
    ASSUME IInv, Observe, Analytics
    PROVE  SeqTypes' /\ SeqInv'
<1> USE DEF IInv
<1>1. over' \subseteq Deps /\ ready' \subseteq Deps /\ over \subseteq over' /\ ready \subseteq ready'
  BY ObserveTypes
<1>2. UNCHANGED <<seqVars, depVars, runners, loopVars>>
  BY DEF Analytics
<1>3. /\ (pc'["sequencer"] = "idle") <=> (pc["sequencer"] = "idle")
      /\ pc'["sequencer"] \in {"read", "insert"} => pc["sequencer"] \in {"read", "insert"}
      /\ faults' \in {faults, faults + 1}
  BY SequencerCall DEF TypeOK
<1>4. faults \in Nat
  BY AnalyticsBounds DEF TypeOK, AnalyticsTypeOK
<1>5. LoopInv'
  BY <1>1, <1>2, <1>3, LoopKept DEF SeqInv
<1>6. SeqTypes'
  <2>1. started' \in [Seqs -> Nat]
    BY DEF Analytics, TypeOK
  <2> QED  BY <1>1, <1>2, <2>1 DEF SeqTypes, LoopTypes, TypeOK
<1>7. ASSUME NEW s \in Seqs PROVE StatusInv(s)' /\ Told(s)'
  <2>1. \/ started'[s] = started[s]
        \/ /\ s = cur /\ pc["sequencer"] = "insert" /\ pc'["sequencer"] = "produce"
           /\ started'[s] = started[s] + 1
    BY DEF Analytics, TypeOK
  <2>2. started[s] \in Nat
    BY DEF TypeOK
  <2>3. Told(s)'
    BY <1>2, <1>3, <1>4 DEF SeqInv, Told
  <2>4. CASE started'[s] = started[s]
    <3>1. Fresh(s)' => Fresh(s)
      BY <1>2, <1>3 DEF Fresh
    <3> QED  BY <1>2, <1>3, <1>4, <2>2, <2>3, <2>4, <3>1 DEF SeqInv, StatusInv, CreatedOnce
  <2>5. CASE s = cur /\ pc["sequencer"] = "insert" /\ pc'["sequencer"] = "produce"
             /\ started'[s] = started[s] + 1
    <3>1. lpc = "call" /\ sstatus[s] = "WaitingForDependencies"
      BY <2>5 DEF SeqInv, LoopInv, StatusInv
    <3>2. started[s] <= faults
      BY <2>5, <3>1 DEF SeqInv, StatusInv, CreatedOnce, Fresh
    <3>3. ~Fresh(s)'
      BY <1>2, <2>5, <3>1 DEF Fresh
    <3> QED  BY <1>2, <1>3, <1>4, <2>2, <2>3, <2>5, <3>1, <3>2, <3>3 DEF SeqInv, StatusInv, CreatedOnce
  <2> QED  BY <2>1, <2>4, <2>5
<1> QED  BY <1>5, <1>6, <1>7 DEF SeqInv

-----------------------------------------------------------------------------
(* A pass. *)

(* One that goes on with the sequences in S. *)
LEMMA GoOnStep ==
    ASSUME IInv, Observe, NEW S \in SUBSET Seqs, GoOn(S),
           UNCHANGED <<depVars, runners, started>>, pc'["sequencer"] = "idle",
           sstatus' \in [Seqs -> SequencerStatus], named' \subseteq Seqs,
           \A s \in S : sstatus'[s] = "WaitingForDependencies",
           \A s \in Seqs :
              /\ sstatus'[s] = "NONE" => started[s] = 0 /\ runners[s] = "NONE"
              /\ sstatus'[s] = "WaitingForDependencies" => started[s] <= faults'
              /\ started[s] <= 1 + faults'
              /\ runners[s] # "NONE" /\ faults' = 0 => sstatus'[s] = "FINISHED" /\ s \in named'
    PROVE  SeqTypes' /\ SeqInv'
<1>1. over' \subseteq Deps /\ ready' \subseteq Deps
  BY ObserveTypes DEF IInv
<1>2. LoopTypes' /\ SeqInv'
  BY GoOnInv DEF IInv
<1>3. SeqTypes'
  BY <1>1, <1>2 DEF SeqTypes, IInv, TypeOK
<1> QED  BY <1>2, <1>3

(* Going on after a sequence that is left to the next pass. *)
LEMMA ListInv ==
    ASSUME IInv, Observe, NEW S \in SUBSET Seqs, GoOn(S),
           UNCHANGED <<analyticsVars, seqVars, depVars, runners, started>>,
           lpc \in {"idle", "look", "search"},
           \A s \in S : sstatus[s] = "WaitingForDependencies"
    PROVE  SeqTypes' /\ SeqInv'
<1>1. pc'["sequencer"] = "idle" /\ UNCHANGED faults /\ faults \in Nat
  BY AnalyticsBounds DEF IInv, analyticsVars, SeqInv, LoopInv, TypeOK, AnalyticsTypeOK
<1>2. ASSUME NEW s \in Seqs
      PROVE  /\ sstatus'[s] = "NONE" => started[s] = 0 /\ runners[s] = "NONE"
             /\ sstatus'[s] = "WaitingForDependencies" => started[s] <= faults'
             /\ started[s] <= 1 + faults'
             /\ runners[s] # "NONE" /\ faults' = 0 => sstatus'[s] = "FINISHED" /\ s \in named'
  BY <1>1 DEF IInv, SeqInv, StatusInv, CreatedOnce, Fresh, Told
<1>3. sstatus' \in [Seqs -> SequencerStatus] /\ named' \subseteq Seqs
  BY DEF IInv, TypeOK
<1> QED  BY <1>1, <1>2, <1>3, GoOnStep

LEMMA LookInv ==
    ASSUME IInv, Observe, (\E d \in left : LookAt(d)) \/ Search
    PROVE  SeqTypes' /\ SeqInv'
<1> USE DEF IInv
<1>1. over' \subseteq Deps /\ ready' \subseteq Deps /\ over \subseteq over' /\ ready \subseteq ready'
  BY ObserveTypes
<1>2. /\ UNCHANGED <<analyticsVars, seqVars, depVars, runners, started>>
      /\ lpc \in {"look", "search"}
  BY DEF LookAt, Search
<1>3. UNCHANGED <<pc, faults>> /\ pc["sequencer"] = "idle" /\ cur \in todo /\ cur \in Seqs
      /\ SeqDeps[cur] \subseteq left \cup ready
  BY <1>2 DEF analyticsVars, SeqInv, LoopInv, TypeOK
<1>4. CASE NextSequence
  <2>1. \A s \in todo \ {cur} : sstatus[s] = "WaitingForDependencies"
    BY DEF SeqInv, StatusInv, TypeOK
  <2>2. todo \ {cur} \in SUBSET Seqs
    BY DEF TypeOK
  <2> QED  BY <1>2, <1>4, <2>1, <2>2, ListInv DEF NextSequence
<1>5. CASE \/ lpc' = "fail" /\ UNCHANGED <<todo, cur, left, dep>>
           \/ lpc' = "search" /\ dep' \in left /\ dep' \in over' /\ UNCHANGED <<todo, cur, left>>
           \/ /\ lpc' = "look" /\ dep' \in {dep, Nil} /\ UNCHANGED <<todo, cur>>
              /\ left' \subseteq left /\ left \subseteq left' \cup ready'
  <2>1. LoopTypes'
    BY <1>5 DEF LoopTypes, TypeOK
  <2>2. LoopInv'
    BY <1>1, <1>3, <1>5 DEF LoopInv
  <2>3. \A s \in Seqs : StatusInv(s)' /\ Told(s)'
    BY <1>2, <1>3, <1>5 DEF SeqInv, StatusInv, CreatedOnce, Fresh, Told
  <2> QED  BY <1>1, <1>2, <2>1, <2>2, <2>3 DEF SeqTypes, SeqInv, TypeOK
<1>6. ASSUME NEW d \in left, LookAt(d) PROVE SeqTypes' /\ SeqInv'
  <2>1. d \in Deps
    BY DEF TypeOK
  <2>2. Resolved(d) => d \in over'
    BY <2>1 DEF Resolved, Observe, Ended
  <2>3. Resolved(d) /\ d \in dayold => d \in ready'
    BY <2>2 DEF Observe
  <2> QED  BY <1>4, <1>5, <1>6, <2>2, <2>3 DEF LookAt
<1>7. ASSUME Search PROVE SeqTypes' /\ SeqInv'
  <2>1. dep \in over'
    BY <1>1, <1>7 DEF Search, SeqInv, LoopInv
  <2>2. dep \in sunk => dep \in ready'
    BY <2>1 DEF Observe
  <2> QED  BY <1>4, <1>5, <1>7, <2>2 DEF Search
<1> QED  BY <1>6, <1>7

(* The call of scheduleAnalyticsJob begins, and ends. *)
LEMMA NextJobInv ==
    ASSUME IInv, Observe, StartAnalytics \/ Called \/ StartRunners
    PROVE  SeqTypes' /\ SeqInv'
<1> USE DEF IInv
<1>1. over' \subseteq Deps /\ ready' \subseteq Deps /\ over \subseteq over' /\ ready \subseteq ready'
  BY ObserveTypes
<1>2. /\ UNCHANGED <<seqVars, depVars, todo, cur, left, dep, faults>> /\ faults \in Nat
      /\ pc \in [Callers -> {"idle", "read", "insert", "produce", "reject", "done"}]
  BY AnalyticsBounds
  DEF StartAnalytics, Called, StartRunners, Call, Returned, TypeOK, AnalyticsTypeOK, analyticsVars
<1>3. lpc \in {"look", "call"} /\ cur \in todo /\ cur \in Seqs
  BY DEF StartAnalytics, Called, StartRunners, SeqInv, LoopInv, TypeOK
<1>4. CASE StartAnalytics
  <2>1. /\ UNCHANGED <<runners, started>> /\ lpc = "look" /\ lpc' = "call"
        /\ left = {} /\ pc'["sequencer"] = "read"
    BY <1>2, <1>4, SequencerAssumption DEF StartAnalytics, Call, Goto
  <2>2. LoopTypes'
    BY <1>2, <2>1 DEF LoopTypes, TypeOK
  <2>3. LoopInv'
    BY <1>1, <1>2, <1>3, <2>1 DEF SeqInv, LoopInv
  <2>4. \A s \in Seqs : StatusInv(s)' /\ Told(s)'
    BY <1>2, <1>3, <2>1 DEF SeqInv, StatusInv, CreatedOnce, Fresh, Told
  <2> QED  BY <1>1, <1>2, <2>1, <2>2, <2>3, <2>4 DEF SeqTypes, SeqInv, TypeOK
<1>5. CASE Called
  <2>1. /\ UNCHANGED <<runners, started>> /\ lpc = "call" /\ lpc' \in {"fail", "finish"}
        /\ pc'["sequencer"] = "idle" /\ pc["sequencer"] = "done"
    BY <1>2, <1>5, SequencerAssumption DEF Called, Returned, Goto
  <2>2. LoopTypes'
    BY <1>2, <2>1 DEF LoopTypes, TypeOK
  <2>3. LoopInv'
    BY <1>1, <1>2, <1>3, <2>1 DEF SeqInv, LoopInv
  <2>4. \A s \in Seqs : StatusInv(s)' /\ Told(s)'
    BY <1>2, <1>3, <2>1 DEF SeqInv, StatusInv, CreatedOnce, Fresh, Told
  <2> QED  BY <1>1, <1>2, <2>1, <2>2, <2>3, <2>4 DEF SeqTypes, SeqInv, TypeOK
<1>6. CASE StartRunners
  <2>1. /\ lpc = "look" /\ lpc' = "finish" /\ UNCHANGED pc
        /\ \/ UNCHANGED <<runners, started>>
           \/ /\ runners' = [runners EXCEPT ![cur] = "CREATED"]
              /\ started' = [started EXCEPT ![cur] = @ + 1]
    BY <1>6 DEF StartRunners, analyticsVars
  <2>2. LoopTypes' /\ runners' \in [Seqs -> RunnerStatus] /\ started' \in [Seqs -> Nat]
    BY <1>2, <2>1 DEF LoopTypes, TypeOK, RunnerStatus
  <2>3. LoopInv'
    BY <1>1, <1>2, <1>3, <2>1 DEF SeqInv, LoopInv
  <2>4. ASSUME NEW s \in Seqs PROVE StatusInv(s)' /\ Told(s)'
    <3>1. CASE s = cur
      <4>1. sstatus[s] = "WaitingForDependencies" /\ started[s] <= faults /\ started[s] \in Nat
        BY <2>1, <3>1 DEF SeqInv, StatusInv, CreatedOnce, Fresh, TypeOK
      <4>2. started'[s] <= 1 + faults
        BY <1>2, <2>1, <3>1, <4>1 DEF TypeOK
      <4> QED  BY <1>2, <2>1, <3>1, <4>1, <4>2 DEF StatusInv, CreatedOnce, Fresh, Told
    <3>2. CASE s # cur
      <4>1. runners'[s] = runners[s] /\ started'[s] = started[s]
        BY <2>1, <3>2 DEF TypeOK
      <4> QED  BY <1>2, <2>1, <3>2, <4>1 DEF SeqInv, StatusInv, CreatedOnce, Fresh, Told
    <3> QED  BY <3>1, <3>2
  <2> QED  BY <1>1, <1>2, <2>2, <2>3, <2>4 DEF SeqTypes, SeqInv, TypeOK
<1> QED  BY <1>4, <1>5, <1>6

(* The current sequence is FINISHED, with its next_job_ids, or Failed. *)
LEMMA FinishInv ==
    ASSUME IInv, Observe, Finish
    PROVE  SeqTypes' /\ SeqInv'
<1> USE DEF IInv
<1>1. over' \subseteq Deps /\ ready' \subseteq Deps /\ over \subseteq over' /\ ready \subseteq ready'
  BY ObserveTypes
<1>2. /\ UNCHANGED <<pc, faults, named, depVars, runners, todo, cur, left, dep, started>>
      /\ lpc = "finish" /\ lpc' = "name"
      /\ sstatus' = [sstatus EXCEPT ![cur] = "FINISHED"]
  BY DEF Finish, analyticsVars
<1>3. cur \in todo /\ cur \in Seqs
  BY <1>2 DEF SeqInv, LoopInv, TypeOK
<1>4. LoopTypes' /\ sstatus' \in [Seqs -> SequencerStatus]
  BY <1>2 DEF LoopTypes, TypeOK, SequencerStatus
<1>5. LoopInv'
  BY <1>1, <1>2, <1>3 DEF SeqInv, LoopInv
<1>6. ASSUME NEW s \in Seqs PROVE StatusInv(s)' /\ Told(s)'
  <2>1. CASE s = cur
    <3>1. sstatus'[s] = "FINISHED"
      BY <1>2, <2>1 DEF TypeOK
    <3> QED  BY <1>2, <2>1, <3>1 DEF SeqInv, StatusInv, CreatedOnce, Fresh, Told
  <2>2. CASE s # cur
    <3>1. sstatus'[s] = sstatus[s]
      BY <1>2, <2>2 DEF TypeOK
    <3> QED  BY <1>2, <2>2, <3>1 DEF SeqInv, StatusInv, CreatedOnce, Fresh, Told
  <2> QED  BY <2>1, <2>2
<1> QED  BY <1>1, <1>2, <1>4, <1>5, <1>6 DEF SeqTypes, SeqInv, TypeOK

LEMMA EndInv ==
    ASSUME IInv, Observe, Name \/ FailSequence
    PROVE  SeqTypes' /\ SeqInv'
<1> USE DEF IInv
<1>1. /\ UNCHANGED <<analyticsVars, depVars, runners, started>>
      /\ lpc \in {"name", "fail"} /\ GoOn(todo \ {cur})
      /\ \/ /\ lpc = "name" /\ named' = named \cup {cur} /\ sstatus' = sstatus
         \/ /\ lpc = "fail" /\ named' = named /\ sstatus' = [sstatus EXCEPT ![cur] = "Failed"]
  BY DEF Name, FailSequence, NextSequence
<1>2. cur \in todo /\ cur \in Seqs /\ pc'["sequencer"] = "idle" /\ UNCHANGED faults /\ faults \in Nat
  BY <1>1, AnalyticsBounds DEF SeqInv, LoopInv, TypeOK, analyticsVars, AnalyticsTypeOK
<1>3. sstatus' \in [Seqs -> SequencerStatus] /\ named' \subseteq Seqs
  BY <1>1, <1>2 DEF TypeOK, SequencerStatus
<1>4. \A s \in Seqs \ {cur} : sstatus'[s] = sstatus[s]
  BY <1>1 DEF TypeOK
<1>5. sstatus'[cur] = IF lpc = "name" THEN "FINISHED" ELSE "Failed"
  BY <1>1, <1>2 DEF SeqInv, StatusInv, TypeOK
<1>6. todo \ {cur} \in SUBSET Seqs /\ \A s \in todo \ {cur} : sstatus'[s] = "WaitingForDependencies"
  BY <1>4 DEF SeqInv, StatusInv, TypeOK
<1>7. ASSUME NEW s \in Seqs
      PROVE  /\ sstatus'[s] = "NONE" => started[s] = 0 /\ runners[s] = "NONE"
             /\ sstatus'[s] = "WaitingForDependencies" => started[s] <= faults'
             /\ started[s] <= 1 + faults'
             /\ runners[s] # "NONE" /\ faults' = 0 => sstatus'[s] = "FINISHED" /\ s \in named'
  <2>1. CASE s = cur
    BY <1>1, <1>2, <1>5, <2>1 DEF SeqInv, StatusInv, CreatedOnce, Told
  <2>2. CASE s # cur
    BY <1>1, <1>2, <1>4, <2>2 DEF SeqInv, StatusInv, CreatedOnce, Fresh, Told
  <2> QED  BY <2>1, <2>2
<1> QED  BY <1>1, <1>2, <1>3, <1>6, <1>7, GoOnStep

(* A failure or a restart: what was created is no longer owed to the pass. *)
LEMMA FailureInv ==
    ASSUME IInv, Observe, PassFails \/ Restart
    PROVE  SeqTypes' /\ SeqInv'
<1> USE DEF IInv
<1>1. over' \subseteq Deps /\ ready' \subseteq Deps /\ over \subseteq over' /\ ready \subseteq ready'
  BY ObserveTypes
<1>2. UNCHANGED <<seqVars, depVars, runners, started>> /\ faults' = faults + 1 /\ faults \in Nat
  BY AnalyticsBounds DEF PassFails, Restart, TypeOK, AnalyticsTypeOK
<1>3. CASE GoOn({}) /\ pc'["sequencer"] = "idle"
  <2>1. ASSUME NEW s \in Seqs
        PROVE  /\ sstatus'[s] = "NONE" => started[s] = 0 /\ runners[s] = "NONE"
               /\ sstatus'[s] = "WaitingForDependencies" => started[s] <= faults'
               /\ started[s] <= 1 + faults'
               /\ runners[s] # "NONE" /\ faults' = 0 => sstatus'[s] = "FINISHED" /\ s \in named'
    BY <1>2 DEF SeqInv, StatusInv, CreatedOnce, TypeOK
  <2>2. sstatus' \in [Seqs -> SequencerStatus] /\ named' \subseteq Seqs
    BY <1>2 DEF TypeOK
  <2> QED  BY <1>2, <1>3, <2>1, <2>2, GoOnStep
<1>4. CASE Restart
  <2>1. pc'["sequencer"] = "idle"
    BY <1>4, SequencerAssumption DEF Restart, AnalyticsRestart
  <2> QED  BY <1>3, <1>4, <2>1 DEF Restart
<1>5. CASE PassFails
  <2>1. lpc \in {"look", "finish", "name", "fail"} /\ UNCHANGED pc /\ pc["sequencer"] = "idle"
    BY <1>5 DEF PassFails, SeqInv, LoopInv
  <2>2. CASE lpc' = "fail" /\ UNCHANGED <<todo, cur, left, dep>>
    <3>1. LoopTypes'
      BY <2>2 DEF LoopTypes, TypeOK
    <3>2. LoopInv'
      BY <2>1, <2>2 DEF SeqInv, LoopInv
    <3>3. ASSUME NEW s \in Seqs PROVE StatusInv(s)' /\ Told(s)'
      <4>1. started[s] \in Nat /\ started[s] <= 1 + faults
        BY DEF SeqInv, StatusInv, CreatedOnce, TypeOK
      <4>2. Told(s)'
        BY <1>2 DEF Told
      <4>3. StatusInv(s)'
        BY <1>2, <2>2, <4>1 DEF SeqInv, StatusInv, CreatedOnce
      <4> QED  BY <4>2, <4>3
    <3> QED  BY <1>1, <1>2, <3>1, <3>2, <3>3 DEF SeqTypes, SeqInv, TypeOK
  <2> QED  BY <1>3, <1>5, <2>1, <2>2 DEF PassFails
<1> QED  BY <1>4, <1>5

-----------------------------------------------------------------------------
LEMMA InitInv == Init => IInv
<1> SUFFICES ASSUME Init PROVE IInv
  OBVIOUS
<1>1. AnalyticsInv
  BY AnalyticsInitInv DEF Init
<1>2. AnalyticsTypeOK /\ faults = 0 /\ pc["sequencer"] = "idle"
  BY <1>1, SequencerAssumption DEF AnalyticsInv, Init, AnalyticsInit
<1>3. TypeOK
  <2>1. "CREATED" \in Life!RowStatus
    BY DEF Life!RowStatus, Life!AtWork
  <2> QED  BY <1>2, <2>1 DEF Init, TypeOK, SequencerStatus, RunnerStatus
<1>4. LoopInv
  BY <1>2 DEF Init, LoopInv
<1>5. \A s \in Seqs : StatusInv(s) /\ Told(s)
  BY <1>2 DEF Init, StatusInv, CreatedOnce, Fresh, Told
<1> QED  BY <1>1, <1>3, <1>4, <1>5 DEF IInv, SeqInv

LEMMA StepInv == IInv /\ [Next]_vars => IInv'
<1> SUFFICES ASSUME IInv, [Next]_vars PROVE IInv'
  OBVIOUS
<1>1. AnalyticsInv'
  BY AnalyticsMovesNext, AnalyticsStepInv DEF IInv
<1>2. CASE UNCHANGED vars
  <2>1. TypeOK'
    BY <1>1, <1>2 DEF IInv, vars, TypeOK, AnalyticsInv
  <2>2. SeqInv'
    BY <1>2 DEF IInv, vars, analyticsVars, SeqInv, LoopInv, StatusInv, CreatedOnce, Fresh, Told
  <2> QED  BY <1>1, <2>1, <2>2 DEF IInv
<1>3. ASSUME Step, Observe PROVE SeqTypes' /\ SeqInv'
  <2>1. CASE Pass
    <3>1. CASE List
      BY <1>3, <3>1, ListInv DEF List, Waiting
    <3> QED  BY <1>3, <2>1, <3>1, LookInv, NextJobInv, FinishInv, EndInv DEF Pass
  <2> QED  BY <1>3, <2>1, DependencyInv, RunnersInv, AnalyticsSeqInv, FailureInv DEF Step
<1>4. CASE Next
  <2>1. SeqTypes' /\ SeqInv' /\ AnalyticsTypeOK'
    BY <1>1, <1>3, <1>4 DEF Next, AnalyticsInv
  <2>2. TypeOK'
    BY <2>1 DEF TypeOK, SeqTypes, LoopTypes
  <2> QED  BY <1>1, <2>1, <2>2 DEF IInv
<1> QED  BY <1>2, <1>4

(* Every variable keeps its type: the pass takes the steps of its loop and *)
(* nobody writes a status that is none of the table's.                     *)
THEOREM TypeCorrect == Spec => []TypeOK
<1>1. IInv => TypeOK
  BY DEF IInv
<1> QED  BY <1>1, InitInv, StepInv, PTL DEF Spec

(* The next job of a sequence is created once, and once more at most for   *)
(* each failure or restart, for every number of sequences and however the  *)
(* analytics jobs of other callers come between.                           *)
THEOREM NextJobCreatedOnce == Spec => []NextJobOnce
<1>1. IInv => NextJobOnce
  BY DEF IInv, SeqInv, StatusInv, CreatedOnce, NextJobOnce
<1> QED  BY <1>1, InitInv, StepInv, PTL DEF Spec

(* While nothing has failed, runners that are waiting or at work are told  *)
(* to be running, but between the two writes of UpdateJobSequencerFinished. *)
THEOREM RunningTold == Spec => []RunningIsTold
<1>1. IInv => RunningIsTold
  <2> SUFFICES ASSUME IInv, NEW s \in Seqs, runners[s] \in {"CREATED", "IN_PROGRESS"}, faults = 0
               PROVE  IsRunning(s) \/ (cur = s /\ lpc = "name")
    BY DEF RunningIsTold
  <2>1. \/ cur = s /\ lpc = "finish"
        \/ sstatus[s] = "FINISHED" /\ (s \in named \/ (cur = s /\ lpc = "name"))
    BY DEF IInv, SeqInv, Told
  <2>2. cur = s /\ lpc = "finish" => sstatus[s] = "WaitingForDependencies"
    BY DEF IInv, SeqInv, StatusInv
  <2> QED  BY <2>1, <2>2 DEF IsRunning, Ended
<1> QED  BY <1>1, InitInv, StepInv, PTL DEF Spec

(* No step creates the next job of a sequence before each of its describe  *)
(* jobs had ended and was in the index, or a day old.                      *)
THEOREM DependenciesFirst == Spec => NextAfterDependencies
<1> DEFINE First == \A s \in Seqs : started'[s] # started[s] => SeqDeps[s] \subseteq ready
<1>1. IInv /\ [Next]_vars => [First]_vars
  <2> SUFFICES ASSUME IInv, Next, NEW s \in Seqs, started'[s] # started[s]
               PROVE  SeqDeps[s] \subseteq ready
    OBVIOUS
  <2>1. CASE StartRunners
    <3>1. s = cur /\ lpc = "look" /\ left = {}
      BY <2>1 DEF StartRunners, IInv, TypeOK
    <3> QED  BY <3>1 DEF IInv, SeqInv, LoopInv
  <2>2. CASE Analytics
    <3>1. s = cur /\ pc["sequencer"] = "insert"
      BY <2>2 DEF Analytics, IInv, TypeOK
    <3> QED  BY <3>1 DEF IInv, SeqInv, LoopInv
  <2>3. CASE ~StartRunners /\ ~Analytics
    <3>1. UNCHANGED started
      BY <2>3 DEF Next, Step, Pass, Submit, RunnersMove, List, LookAt, Search, StartAnalytics, Called,
                  Finish, Name, FailSequence, PassFails, Restart, DepMoves, DepSinks, DepAges, CleanUp
    <3> QED  BY <3>1
  <2> QED  BY <2>1, <2>2, <2>3
<1> QED  BY <1>1, InitInv, StepInv, PTL DEF Spec, NextAfterDependencies

(* The sequencer's jobs are jobs of AnalyticsJob: whatever it and the      *)
(* describe jobs do is a step of AnalyticsJob or leaves its state alone,   *)
(* so that what is proved of the analytics jobs holds beside it.           *)
THEOREM AnalyticsImplemented == Spec => ImplementsAnalytics
<1>1. Init => AnalyticsInit
  BY DEF Init
<1> QED  BY <1>1, AnalyticsMovesNext, PTL DEF Spec, ImplementsAnalytics, AnalyticsSpec

(* Beside the sequencer, whose calls of scheduleAnalyticsJob are never the *)
(* ticker's, the ticker keeps its interval.                                *)
THEOREM IntervalKeptBesideSequencer == Spec => []TickerKeepsInterval
BY AnalyticsImplemented, IntervalKeptByTicker DEF ImplementsAnalytics

(* And an analytics job that has ended, the sequencer's next job or not,   *)
(* is at work no more.                                                     *)
THEOREM EndsStayBesideSequencer == Spec => EndedStaysEnded
BY AnalyticsImplemented, EndsStay DEF ImplementsAnalytics

(* A sequence whose next job was created, by whatever pass and however     *)
(* many restarts ago, has no describe job that had not ended and then been *)
(* in the index, or a day old.                                             *)
THEOREM CreatedWhenReady == Spec => [](\A s \in Seqs : started[s] > 0 => SeqDeps[s] \subseteq ready)
<1> DEFINE First == \A s \in Seqs : started'[s] # started[s] => SeqDeps[s] \subseteq ready
           WasReady == \A s \in Seqs : started[s] > 0 => SeqDeps[s] \subseteq ready
<1>1. Init => WasReady
  BY DEF Init
<1>2. WasReady /\ [Next]_vars /\ [First]_vars => WasReady'
  <2> SUFFICES ASSUME WasReady, Next, [First]_vars, NEW s \in Seqs, started'[s] > 0
               PROVE  SeqDeps[s] \subseteq ready'
    BY DEF vars
  <2>1. ready \subseteq ready'
    BY DEF Next, Observe
  <2>2. CASE started'[s] = started[s]
    BY <2>1, <2>2
  <2>3. CASE started'[s] # started[s]
    BY <2>1, <2>3 DEF vars
  <2> QED  BY <2>2, <2>3
<1>3. NextAfterDependencies => [][First]_vars
  BY PTL DEF NextAfterDependencies
<1> QED  BY <1>1, <1>2, <1>3, DependenciesFirst, PTL DEF Spec
=============================================================================
