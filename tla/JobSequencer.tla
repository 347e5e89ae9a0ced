---------------------------- MODULE JobSequencer -----------------------------
(***************************************************************************)
(* The job sequencer: rows of job_sequencers, each a list of describe jobs *)
(* and a job that is to follow them, an analytics job or the runners of a  *)
(* benchmark.  The describe jobs take the steps of DescribeLifecycle, and  *)
(* the analytics jobs are those of AnalyticsJob, where the sequencer is    *)
(* one more caller of scheduleAnalyticsJob.                                *)
(***************************************************************************)
EXTENDS AnalyticsJob

CONSTANTS Seqs,      \* sequences
          Deps,      \* describe jobs
          SeqDeps,   \* SeqDeps[s]: dependency_list
          SeqNext,   \* SeqNext[s]: next_job
          DepKind,   \* DepKind[d]: a request's job, or its job for the cost
          DepStatus  \* bound on the statuses a describe job takes

VARIABLES
    sstatus, named,   \* columns of a sequence: status, and whether next_job_ids is set
    dstatus,          \* status of a describe job
    sunk, dayold,     \* jobs with 90% of their resources in the index; whose updated_at
                      \* is more than 24 hours ago
    runners,          \* the runners created last for a sequence, as one row
    lpc, todo, cur, left, dep,   \* locals of checkJobSequences and resolveDescribeDependency
    started,          \* history: how often the next job was created
    over, ready       \* history: jobs that had once ended; and had sunk or grown old after it

seqVars  == <<sstatus, named>>
depVars  == <<dstatus, sunk, dayold>>
loopVars == <<lpc, todo, cur, left, dep>>
vars == <<analyticsVars, seqVars, depVars, runners, loopVars, started, over, ready>>

Life == INSTANCE DescribeLifecycle WITH Jobs <- Deps, status <- dstatus, kind <- DepKind

ASSUME SequencerAssumption ==
    /\ "sequencer" \in Callers
    /\ SeqDeps \in [Seqs -> SUBSET Deps]
    /\ SeqNext \in [Seqs -> {"Analytics", "BenchmarkRunner"}]
    /\ DepKind \in [Deps -> {"manual", "cost"}]
    /\ DepStatus \subseteq Life!RowStatus

SequencerStatus == {"NONE", "WaitingForDependencies", "FINISHED", "Failed"}
RunnerStatus == {"NONE", "CREATED", "IN_PROGRESS", "SUCCEEDED", "FAILED", "TIMEOUT"}

TypeOK ==
    /\ AnalyticsTypeOK
    /\ sstatus \in [Seqs -> SequencerStatus] /\ named \subseteq Seqs
    /\ dstatus \in [Deps -> Life!RowStatus \cup {"DELETED"}]
    /\ sunk \subseteq Deps /\ dayold \subseteq Deps
    /\ runners \in [Seqs -> RunnerStatus]
    /\ lpc \in {"idle", "look", "search", "call", "finish", "name", "fail"}
    /\ todo \subseteq Seqs /\ cur \in Seqs \cup {Nil} /\ left \subseteq Deps
    /\ dep \in Deps \cup {Nil}
    /\ started \in [Seqs -> Nat] /\ over \subseteq Deps /\ ready \subseteq Deps

(* The describe jobs of a request are created before its sequence is. *)
Init ==
    /\ AnalyticsInit
    /\ sstatus = [s \in Seqs |-> "NONE"] /\ named = {}
    /\ dstatus = [d \in Deps |-> "CREATED"] /\ sunk = {} /\ dayold = {}
    /\ runners = [s \in Seqs |-> "NONE"]
    /\ lpc = "idle" /\ todo = {} /\ cur = Nil /\ left = {} /\ dep = Nil
    /\ started = [s \in Seqs |-> 0] /\ over = {} /\ ready = {}

-----------------------------------------------------------------------------
(* TriggerPerConnectionDescribeJob and ReEvaluateComplianceJob end with    *)
(* CreateJobSequencer.                                                     *)
Submit(s) ==
    /\ sstatus[s] = "NONE"
    /\ sstatus' = [sstatus EXCEPT ![s] = "WaitingForDependencies"]
    /\ UNCHANGED <<analyticsVars, named, depVars, runners, loopVars, started>>

(* checkJobSequences goes on with one of the sequences in S, or is over.   *)
GoOn(S) ==
    /\ dep' = Nil
    /\ \/ /\ S = {}
          /\ lpc' = "idle" /\ todo' = {} /\ cur' = Nil /\ left' = {}
       \/ \E s \in S :
             /\ lpc' = "look" /\ todo' = S /\ cur' = s /\ left' = SeqDeps[s]

NextSequence == GoOn(todo \ {cur})

(* Mutant: every sequence that has not failed is listed *)
WaitingOrFinished == {s \in Seqs : sstatus[s] \in {"WaitingForDependencies", "FINISHED"}}

(* ListWaitingJobSequencers *)
Waiting == {s \in Seqs : sstatus[s] = "WaitingForDependencies"}

List ==
    /\ lpc = "idle" /\ Waiting # {}
    /\ GoOn(Waiting)
    /\ UNCHANGED <<analyticsVars, seqVars, depVars, runners, started>>

(* Mutants: a job that failed is waited for; a job at work is not *)
ResolvedSucceeded(d) == dstatus[d] = "SUCCEEDED"
ResolvedOnceQueued(d) == dstatus[d] \notin {"CREATED", "QUEUED"}

(* For a job in any other status, CANCELED included, the sequence is left  *)
(* to the next pass.                                                       *)
Resolved(d) == dstatus[d] \in {"SUCCEEDED", "FAILED", "TIMEOUT"}

(* The row of one describe job is read: a job that is a day old needs no   *)
(* look at the index.                                                      *)
LookAt(d) ==
    /\ lpc = "look" /\ d \in left
    /\ \/ /\ dstatus[d] = "DELETED"           \* "job not found"
          /\ lpc' = "fail" /\ UNCHANGED <<todo, cur, left, dep>>
       \/ /\ Resolved(d) /\ d \in dayold
          /\ left' = left \ {d} /\ UNCHANGED <<lpc, todo, cur, dep>>
       \/ /\ Resolved(d) /\ d \notin dayold
          /\ lpc' = "search" /\ dep' = d /\ UNCHANGED <<todo, cur, left>>
       \/ /\ dstatus[d] # "DELETED" /\ ~Resolved(d)
          /\ NextSequence
    /\ UNCHANGED <<analyticsVars, seqVars, depVars, runners, started>>

(* The resources of the job that the index has: fewer than 90% of them, or *)
(* an error of the search, which counts as none, and the sequence is left  *)
(* to the next pass.                                                       *)
Search ==
    /\ lpc = "search"
    /\ \/ /\ dep \in sunk
          /\ lpc' = "look" /\ left' = left \ {dep} /\ dep' = Nil
          /\ UNCHANGED <<todo, cur>>
       \/ NextSequence
    /\ UNCHANGED <<analyticsVars, seqVars, depVars, runners, started>>

(* runNextJob, once every dependency is resolved: scheduleAnalyticsJob ... *)
StartAnalytics ==
    /\ lpc = "look" /\ left = {} /\ SeqNext[cur] = "Analytics"
    /\ Call("sequencer")
    /\ lpc' = "call"
    /\ UNCHANGED <<seqVars, depVars, runners, todo, cur, left, dep, started>>

Called ==
    /\ lpc = "call" /\ pc["sequencer"] = "done"
    /\ lpc' = IF row["sequencer"] = Nil THEN "fail" ELSE "finish"
    /\ Returned("sequencer")
    /\ UNCHANGED <<seqVars, depVars, runners, todo, cur, left, dep, started>>

(* ... or CreateRunnerJobs, one transaction for all runners.  There are    *)
(* none when the controls cannot be listed or are in no benchmark: then    *)
(* the sequence is finished all the same (twice, to the same effect).      *)
StartRunners ==
    /\ lpc = "look" /\ left = {} /\ SeqNext[cur] = "BenchmarkRunner"
    /\ \/ /\ runners' = [runners EXCEPT ![cur] = "CREATED"]
          /\ started' = [started EXCEPT ![cur] = @ + 1]
       \/ UNCHANGED <<runners, started>>
    /\ lpc' = "finish"
    /\ UNCHANGED <<analyticsVars, seqVars, depVars, todo, cur, left, dep>>

(* Mutant: the ids are written by no second statement *)
FinishOnly ==
    /\ lpc = "finish"
    /\ sstatus' = [sstatus EXCEPT ![cur] = "FINISHED"]
    /\ NextSequence
    /\ UNCHANGED <<analyticsVars, named, depVars, runners, started>>

(* UpdateJobSequencerFinished: the status, and then next_job_ids *)
Finish ==
    /\ lpc = "finish"
    /\ sstatus' = [sstatus EXCEPT ![cur] = "FINISHED"]
    /\ lpc' = "name"
    /\ UNCHANGED <<analyticsVars, named, depVars, runners, todo, cur, left, dep, started>>

Name ==
    /\ lpc = "name"
    /\ named' = named \cup {cur}
    /\ NextSequence
    /\ UNCHANGED <<analyticsVars, sstatus, depVars, runners, started>>

(* UpdateJobSequencerFailed, after any error *)
FailSequence ==
    /\ lpc = "fail"
    /\ sstatus' = [sstatus EXCEPT ![cur] = "Failed"]
    /\ NextSequence
    /\ UNCHANGED <<analyticsVars, named, depVars, runners, started>>

(* A statement or a call fails: the sequence is to fail; and when that     *)
(* cannot be written, the pass is over.                                    *)
PassFails ==
    /\ Fault
    /\ \/ /\ lpc \in {"look", "finish", "name"}
          /\ lpc' = "fail" /\ UNCHANGED <<todo, cur, left, dep>>
       \/ /\ lpc = "fail"
          /\ GoOn({})
    /\ UNCHANGED <<tableVars, callVars, queueVars, cancVars, seqVars, depVars, runners, started>>

-----------------------------------------------------------------------------
(* The rest of the system. *)

(* updated_at is set when a job begins or times out, never after its end.  *)
DepMoves(d) ==
    /\ \E st \in DepStatus : dstatus' = [dstatus EXCEPT ![d] = st]
    /\ \/ Life!Retry(DepKind[d], dstatus[d], dstatus'[d])
       \/ Life!Write(dstatus[d], dstatus'[d])
       \/ Life!Begin(dstatus[d], dstatus'[d])
       \/ Life!Expire(dstatus[d], dstatus'[d])
    /\ dstatus[d] # "DELETED"
    /\ \/ UNCHANGED dayold
       \/ dstatus[d] \in Life!AtWork /\ dayold' = dayold \ {d}
    /\ UNCHANGED <<analyticsVars, seqVars, sunk, runners, loopVars, started>>

(* Resources reach the index, and a later job for the same connection and  *)
(* resource type writes them anew under its own id.                        *)
DepSinks(d) ==
    /\ sunk' \in {sunk \cup {d}, sunk \ {d}}
    /\ UNCHANGED <<analyticsVars, seqVars, dstatus, dayold, runners, loopVars, started>>

DepAges(d) ==
    /\ dayold' = dayold \cup {d}
    /\ UNCHANGED <<analyticsVars, seqVars, dstatus, sunk, runners, loopVars, started>>

(* The clean-up of describe jobs created 7 days ago, or 30 if by a request *)
CleanUp(d) ==
    /\ dstatus' = [dstatus EXCEPT ![d] = "DELETED"]
    /\ UNCHANGED <<analyticsVars, seqVars, sunk, dayold, runners, loopVars, started>>

(* The runners, taken for one row *)
RunnersMove(s) ==
    /\ \/ runners[s] = "CREATED" /\ runners' = [runners EXCEPT ![s] = "IN_PROGRESS"]
       \/ /\ runners[s] = "IN_PROGRESS"
          /\ \E st \in {"SUCCEEDED", "FAILED", "TIMEOUT"} : runners' = [runners EXCEPT ![s] = st]
       \/ runners[s] = "FAILED" /\ runners' = [runners EXCEPT ![s] = "CREATED"]
    /\ UNCHANGED <<analyticsVars, seqVars, depVars, loopVars, started>>

Restart ==
    /\ Fault
    /\ AnalyticsRestart
    /\ GoOn({})
    /\ UNCHANGED <<seqVars, depVars, runners, started>>

(* The steps of AnalyticsJob; a row the sequencer inserts is its current   *)
(* sequence's.                                                             *)
Analytics ==
    /\ \/ AnalyticsStep
       \/ \E c \in Callers \ {"sequencer"} : Call(c) \/ Returned(c)
    /\ started' = [s \in Seqs |-> IF s = cur /\ pc["sequencer"] = "insert" /\ pc'["sequencer"] = "produce"
                                  THEN started[s] + 1 ELSE started[s]]
    /\ UNCHANGED <<seqVars, depVars, runners, loopVars>>

Ended == {"SUCCEEDED", "FAILED", "TIMEOUT"}

Observe == /\ over' = over \cup {d \in Deps : dstatus[d] \in Ended}
           /\ ready' = ready \cup (over' \cap (sunk \cup dayold))

Pass == \/ List \/ (\E d \in left : LookAt(d)) \/ Search \/ StartAnalytics \/ Called \/ StartRunners
        \/ Finish \/ Name \/ FailSequence

Step == \/ \E s \in Seqs : Submit(s) \/ RunnersMove(s)
        \/ Pass \/ PassFails \/ Restart
        \/ \E d \in Deps : DepMoves(d) \/ DepSinks(d) \/ DepAges(d) \/ CleanUp(d)
        \/ Analytics

Next == Step /\ Observe

Spec == Init /\ [][Next]_vars

(* The sequencer runs on a ticker, its call of scheduleAnalyticsJob comes  *)
(* back, and time passes.  Nothing is assumed of the describe jobs, of the *)
(* index or of the analytics jobs.                                         *)
Fairness == /\ WF_vars(Pass /\ Observe)
            /\ WF_vars(Schedule("sequencer") /\ Analytics /\ Observe)
            /\ \A d \in Deps : WF_vars(DepAges(d) /\ Observe)

FairSpec == Spec /\ Fairness

-----------------------------------------------------------------------------
(* Properties. *)

(* The next job of a sequence is created once, and once more at most for   *)
(* each failure or restart: what is created is not remembered before the   *)
(* sequence is FINISHED.                                                   *)
NextJobOnce == \A s \in Seqs : started[s] <= 1 + faults

(* The next job is created only after each of the describe jobs had ended  *)
(* and was in the index, or a day old: each at some time, for one that was *)
(* looked at first may have been retried since.                            *)
NextAfterDependencies ==
    [][\A s \in Seqs : started'[s] # started[s] => SeqDeps[s] \subseteq ready]_vars

(* What CheckReEvaluateComplianceJob tells of a sequence.  An empty        *)
(* next_job_ids is no runner at all.                                       *)
IsRunning(s) ==
    \/ sstatus[s] = "WaitingForDependencies"
    \/ sstatus[s] = "FINISHED" /\ s \in named /\ runners[s] \notin {"NONE"} \cup Ended

(* While runners of the sequence are waiting or at work the answer is that *)
(* it is running, but for the moment between the two writes.               *)
RunningIsTold ==
    \A s \in Seqs : runners[s] \in {"CREATED", "IN_PROGRESS"} /\ faults = 0 =>
        IsRunning(s) \/ (cur = s /\ lpc = "name")

(* A sequence comes to its end when its describe jobs end: it is blocked   *)
(* by one that was CANCELED, or that goes on for ever, and by nothing      *)
(* else; not by resources that never reach the index, nor by analytics     *)
(* jobs that are under way.                                                *)
SequencesEnd ==
    \A s \in Seqs :
        (\A d \in SeqDeps[s] : <>[](dstatus[d] \in Ended \cup {"DELETED"})) =>
            [](sstatus[s] # "NONE" => <>(sstatus[s] \in {"FINISHED", "Failed"}))

(* The analytics jobs of the sequencer are AnalyticsJob's. *)
ImplementsAnalytics == AnalyticsSpec
=============================================================================
