-------------------------- MODULE QueryRunnerProofs ---------------------------
(***************************************************************************)
(* Proofs about QueryRunner, for every set of runs, every fate of their    *)
(* queries and every bound on requests and faults.                         *)
(***************************************************************************)
EXTENDS QueryRunner, TLAPS

(* Where the publisher is, and what it holds then. *)
PublisherInv ==
    /\ pc \in {"produce", "stamp", "mark", "fail"} => cur \in batch
    /\ pc \in {"idle", "running", "fetch"} => batch = {}
    /\ pc \in {"stamp", "mark"} => stored[cur] > 0
    /\ \A r \in batch : status[r] # "NONE"

(* What can still be sent: a run that is CREATED or in the publisher's     *)
(* batch.  Such a run was sent before only by an attempt that failed, but  *)
(* for the one that has just been sent.                                    *)
Pending(r) == r \in batch \/ status[r] \in {"NONE", "CREATED"}
JustSent(r) == pc \in {"stamp", "mark"} /\ cur = r

SentInv ==
    /\ PublisherInv
    /\ SentOnce
    /\ \A r \in Runs : Pending(r) /\ ~JustSent(r) => stored[r] <= faults

(* SentOnce bounds the sequence numbers TypeOK speaks of. *)
IInv == TypeOK /\ SentInv

USE DEF rowVars, pubVars, natVars, resVars, reqVars, Fault

RowsTyped == /\ status' \in [Runs -> RunStatus \cup {"NONE", "DELETED"}]
             /\ rested' \in SUBSET Runs /\ halfday' \in SUBSET Runs

(* No row is created, and none becomes one that is still to be sent. *)
NoneCreated == \A r \in Runs : /\ status'[r] \in {"NONE", "CREATED"} => status'[r] = status[r]
                               /\ status[r] = "NONE" => status'[r] = "NONE"
                               /\ status[r] # "NONE" => status'[r] # "NONE"

(* Put writes existing rows, and creates none. *)
LEMMA PutType ==
    ASSUME TypeOK, NEW S \in SUBSET Runs, NEW st \in RunStatus \ {"CREATED"}, Put(S, st)
    PROVE  RowsTyped /\ NoneCreated
BY DEF TypeOK, Put, Touch, Exists, RowsTyped, NoneCreated, RunStatus

LEMMA TouchType ==
    ASSUME TypeOK, NEW S, Touch(S), status' = status
    PROVE  RowsTyped /\ NoneCreated
BY DEF TypeOK, Touch, RowsTyped, NoneCreated

(* A step that leaves the publisher and the stream alone keeps SentInv. *)
LEMMA SentKept ==
    ASSUME IInv, UNCHANGED <<pubVars, stored>>, faults' \in {faults, faults + 1}, NoneCreated
    PROVE  SentInv'
<1> USE DEF IInv
<1>1. PublisherInv'
  BY DEF SentInv, PublisherInv, NoneCreated, TypeOK
<1>2. SentOnce'
  BY BoundsAssumption DEF SentInv, SentOnce, TypeOK
<1>3. \A r \in Runs : Pending(r)' /\ ~JustSent(r)' => stored'[r] <= faults'
  BY BoundsAssumption DEF SentInv, Pending, JustSent, NoneCreated, TypeOK
<1> QED  BY <1>1, <1>2, <1>3 DEF SentInv

(* So does every step after which the publisher has fewer rows in hand and *)
(* is about to send none.                                                  *)
LEMMA GoOnInv ==
    ASSUME IInv, NEW B \in SUBSET Runs, GoOn(B), NoneCreated, stored' = stored,
           faults' \in {faults, faults + 1},
           \A r \in B : status[r] # "NONE",
           \A r \in Runs : r \in B \/ status'[r] \in {"NONE", "CREATED"} =>
                              stored[r] <= faults'
    PROVE  /\ pc' \in {"idle", "next"} /\ batch' \subseteq Runs
           /\ cur' = Nil /\ after' = "next"
           /\ SentInv'
<1> USE DEF IInv, GoOn
<1>1. PublisherInv'
  BY DEF PublisherInv, NoneCreated
<1>2. SentOnce'
  BY BoundsAssumption DEF SentInv, SentOnce, TypeOK
<1>3. \A r \in Runs : Pending(r)' /\ ~JustSent(r)' => stored'[r] <= faults'
  BY DEF Pending
<1> QED  BY <1>1, <1>2, <1>3 DEF SentInv

(* Store adds one copy, or drops it as a duplicate. *)
LEMMA StoreType ==
    ASSUME TypeOK, NEW r \in Runs, Store(r)
    PROVE  /\ queue' \subseteq Copy
           /\ stored' \in [Runs -> Nat]
           /\ stored'[r] > 0 /\ stored'[r] <= stored[r] + 1
           /\ \A i \in Runs : i # r => stored'[i] = stored[i]
<1>1. CASE stored[r] > 0 /\ UNCHANGED <<queue, stored>>
  BY <1>1 DEF TypeOK
<1>2. CASE /\ stored[r] + 1 \in Copies
           /\ queue' = queue \cup {<<r, stored[r] + 1>>}
           /\ stored' = [stored EXCEPT ![r] = @ + 1]
  <2>1. queue' \subseteq Copy
    BY <1>2 DEF TypeOK, Copy
  <2>2. stored' \in [Runs -> Nat] /\ stored'[r] = stored[r] + 1 /\ stored[r] \in Nat
    BY <1>2 DEF TypeOK
  <2>3. \A i \in Runs : i # r => stored'[i] = stored[i]
    BY <1>2 DEF TypeOK
  <2> QED  BY <2>1, <2>2, <2>3
<1> QED  BY <1>1, <1>2 DEF Store

-----------------------------------------------------------------------------
(* Requests, workers, consumer and time: they leave the publisher alone.   *)

LEMMA RequestInv ==
    ASSUME IInv, Request
    PROVE  IInv'
<1> USE DEF IInv
<1>1. CASE \E r \in Runs : RunQuery(r)
  <2>1. PICK r \in Runs : RunQuery(r)
    BY <1>1
  <2>2. TypeOK'
    BY <2>1 DEF RunQuery, TypeOK, RunStatus
  <2>3. status' = [status EXCEPT ![r] = "CREATED"] /\ status[r] = "NONE" /\ UNCHANGED <<pubVars, stored, faults>>
    BY <2>1 DEF RunQuery
  <2>4. PublisherInv'
    BY <2>3 DEF SentInv, PublisherInv, TypeOK
  <2>5. SentOnce'
    BY <2>3 DEF SentInv, SentOnce
  <2>6. \A i \in Runs : Pending(i)' /\ ~JustSent(i)' => stored'[i] <= faults'
    BY <2>3 DEF SentInv, Pending, JustSent, TypeOK
  <2> QED  BY <2>2, <2>4, <2>5, <2>6 DEF SentInv
<1>2. CASE (\E r \in Runs : CancelRead(r)) \/ CancelDrop \/ CancelDropFails \/ Purge
  <2>1. TypeOK'
    BY <1>2, BoundsAssumption DEF CancelRead, CancelDrop, CancelDropFails, Purge, TypeOK
  <2>2. NoneCreated
    BY <1>2 DEF CancelRead, CancelDrop, CancelDropFails, Purge, NoneCreated, TypeOK
  <2>3. UNCHANGED <<pubVars, stored, faults>>
    BY <1>2 DEF CancelRead, CancelDrop, CancelDropFails, Purge
  <2> QED  BY <2>1, <2>2, <2>3, SentKept
<1>3. CASE CancelWrite
  <2>1. Put({view.run}, "CANCELED") /\ {view.run} \in SUBSET Runs
    BY <1>3 DEF CancelWrite, TypeOK
  <2>2. RowsTyped /\ NoneCreated
    BY <2>1, PutType DEF RunStatus
  <2>3. TypeOK'
    BY <1>3, <2>2 DEF CancelWrite, TypeOK, RowsTyped
  <2>4. UNCHANGED <<pubVars, stored, faults>>
    BY <1>3 DEF CancelWrite
  <2> QED  BY <2>2, <2>3, <2>4, SentKept
<1> QED  BY <1>1, <1>2, <1>3 DEF Request

LEMMA AnswerType ==
    ASSUME TypeOK, NEW r \in Runs, NEW st \in {"IN_PROGRESS", "SUCCEEDED", "FAILED"}, Answer(r, st)
    PROVE  results' \in Seq(Result)
<1>1. [run |-> r, status |-> st] \in Result
  BY DEF Result
<1>2. results \in Seq(Result)
  BY DEF TypeOK
<1> QED  BY <1>1, <1>2 DEF Answer

LEMMA WorkerInv ==
    ASSUME IInv, NEW m \in queue \cup working, WorkerTake(m) \/ WorkerFinish(m) \/ WorkerLost(m)
    PROVE  IInv'
<1> USE DEF IInv
<1>1. m \in Copy /\ m[1] \in Runs
  BY DEF TypeOK, Copy
<1>2. /\ UNCHANGED <<rowVars, pubVars, stored, hand, reqVars>>
      /\ queue' \subseteq queue /\ working' \subseteq working \cup {m}
      /\ faults' \in 0..MaxFaults /\ faults' \in {faults, faults + 1}
  BY BoundsAssumption DEF WorkerTake, WorkerFinish, WorkerLost, TypeOK
<1>3. results' \in Seq(Result)
  <2>1. CASE WorkerLost(m)
    BY <2>1 DEF WorkerLost, TypeOK
  <2>2. CASE WorkerTake(m)
    BY <2>2, <1>1, AnswerType DEF WorkerTake
  <2>3. CASE WorkerFinish(m)
    BY <2>3, <1>1, AnswerType DEF WorkerFinish
  <2> QED  BY <2>1, <2>2, <2>3
<1>4. TypeOK'
  BY <1>1, <1>2, <1>3 DEF TypeOK
<1>5. NoneCreated
  BY <1>2 DEF NoneCreated
<1> QED  BY <1>2, <1>4, <1>5, SentKept

LEMMA ConsumeInv ==
    ASSUME IInv, Consume
    PROVE  IInv'
<1> USE DEF IInv
<1>1. CASE ConsumerTake
  <2>1. TypeOK'
    BY <1>1 DEF ConsumerTake, TypeOK
  <2>2. UNCHANGED <<pubVars, stored, faults>> /\ NoneCreated
    BY <1>1 DEF ConsumerTake, NoneCreated
  <2> QED  BY <2>1, <2>2, SentKept
<1>2. CASE ConsumerWrite
  <2>1. hand.run \in Runs /\ hand.status \in RunStatus \ {"CREATED"}
    BY <1>2 DEF ConsumerWrite, TypeOK, Result, RunStatus
  <2>2. RowsTyped /\ NoneCreated
    <3>1. CASE Put({hand.run}, hand.status)
      BY <3>1, <2>1, PutType
    <3>2. CASE UNCHANGED <<status, rested, halfday>>
      BY <3>2 DEF RowsTyped, NoneCreated, TypeOK
    <3> QED  BY <1>2, <3>1, <3>2 DEF ConsumerWrite
  <2>3. UNCHANGED <<pubVars, stored>> /\ faults' \in {faults, faults + 1} /\ faults' \in 0..MaxFaults
    BY <1>2, BoundsAssumption DEF ConsumerWrite, TypeOK
  <2>4. TypeOK'
    BY <1>2, <2>2, <2>3 DEF ConsumerWrite, TypeOK, RowsTyped
  <2> QED  BY <2>2, <2>3, <2>4, SentKept
<1> QED  BY <1>1, <1>2 DEF Consume

LEMMA RestInv ==
    ASSUME IInv, NEW r \in Runs, Rest(r)
    PROVE  IInv'
<1> USE DEF IInv
<1>1. TypeOK'
  BY DEF Rest, TypeOK
<1>2. UNCHANGED <<pubVars, stored, faults>> /\ NoneCreated
  BY DEF Rest, NoneCreated
<1> QED  BY <1>1, <1>2, SentKept

-----------------------------------------------------------------------------
(* The publisher. *)

(* The timeouts, and the fetching of the rows that are CREATED. *)
LEMMA RoundInv ==
    ASSUME IInv, PubExpireQueued \/ PubExpireRunning \/ PubFetch
    PROVE  IInv'
<1> USE DEF IInv
<1>1. CASE PubExpireQueued \/ PubExpireRunning
  <2>1. /\ pc \in {"idle", "running"} /\ pc' \in {"running", "fetch"}
        /\ UNCHANGED <<seq, batch, cur, after, natVars, resVars, reqVars>>
        /\ faults' \in 0..MaxFaults /\ faults' \in {faults, faults + 1}
    BY <1>1, BoundsAssumption DEF PubExpireQueued, PubExpireRunning, TypeOK
  <2>2. RowsTyped /\ NoneCreated
    <3>1. CASE Put(Overdue("QUEUED"), "TIMEOUT") \/ Put(Overdue("IN_PROGRESS"), "TIMEOUT")
      <4>1. Overdue("QUEUED") \in SUBSET Runs /\ Overdue("IN_PROGRESS") \in SUBSET Runs
        BY DEF Overdue, TypeOK
      <4> QED  BY <3>1, <4>1, PutType DEF RunStatus
    <3>2. CASE UNCHANGED <<status, rested, halfday>>
      BY <3>2 DEF RowsTyped, NoneCreated, TypeOK
    <3> QED  BY <1>1, <3>1, <3>2 DEF PubExpireQueued, PubExpireRunning
  <2>3. TypeOK'
    BY <2>1, <2>2 DEF TypeOK, RowsTyped
  <2>4. PublisherInv'
    BY <2>1 DEF SentInv, PublisherInv
  <2>5. SentOnce'
    BY <2>1, BoundsAssumption DEF SentInv, SentOnce, TypeOK
  <2>6. \A r \in Runs : Pending(r)' /\ ~JustSent(r)' => stored'[r] <= faults'
    BY <2>1, <2>2, BoundsAssumption DEF SentInv, Pending, JustSent, NoneCreated, TypeOK
  <2> QED  BY <2>3, <2>4, <2>5, <2>6 DEF SentInv
<1>2. CASE PubFetch
  <2>1. PICK B \in {Fetched, {}} : GoOn(B)
    BY <1>2 DEF PubFetch, Leave
  <2>2. /\ UNCHANGED <<rowVars, natVars, resVars, reqVars>>
        /\ faults' \in 0..MaxFaults /\ faults' \in {faults, faults + 1}
    BY <1>2, BoundsAssumption DEF PubFetch, TypeOK
  <2>3. B \in SUBSET Runs /\ (\A r \in B : status[r] = "CREATED") /\ NoneCreated
    BY <2>1, <2>2 DEF Fetched, NoneCreated
  <2>4. \A r \in Runs : status[r] \in {"NONE", "CREATED"} => stored[r] <= faults
    BY <1>2 DEF PubFetch, SentInv, Pending, JustSent
  <2>5. \A r \in Runs : r \in B \/ status'[r] \in {"NONE", "CREATED"} => stored[r] <= faults'
    BY <2>2, <2>3, <2>4, BoundsAssumption DEF TypeOK
  <2>6. /\ pc' \in {"idle", "next"} /\ batch' \subseteq Runs
        /\ cur' = Nil /\ after' = "next" /\ SentInv'
    BY <2>1, <2>2, <2>3, <2>5, GoOnInv
  <2>7. TypeOK'
    BY <2>2, <2>6 DEF TypeOK
  <2> QED  BY <2>6, <2>7
<1> QED  BY <1>1, <1>2

(* Looking at the next row, which may end the round. *)
LEMMA TakeInv ==
    ASSUME IInv, NEW r \in batch, PubTake(r) \/ PubTakeFails(r)
    PROVE  IInv'
<1> USE DEF IInv
<1>1. r \in Runs /\ pc = "next"
  BY DEF TypeOK, PubTake, PubTakeFails
<1>2. /\ UNCHANGED <<rowVars, natVars, resVars, reqVars>>
      /\ faults' \in 0..MaxFaults /\ faults' \in {faults, faults + 1}
  BY BoundsAssumption DEF PubTake, PubTakeFails, TypeOK
<1>3. NoneCreated
  BY <1>2 DEF NoneCreated
<1>4. \A i \in Runs : Pending(i) => stored[i] <= faults
  BY <1>1 DEF SentInv, JustSent
<1>5. CASE cur' = r /\ pc' \in {"produce", "fail"} /\ after' \in {"next", "idle"} /\ batch' = batch
  <2>1. TypeOK'
    BY <1>1, <1>2, <1>5 DEF TypeOK
  <2>2. PublisherInv'
    BY <1>2, <1>5 DEF SentInv, PublisherInv
  <2>3. SentOnce'
    BY <1>2, BoundsAssumption DEF SentInv, SentOnce, TypeOK
  <2>4. \A i \in Runs : Pending(i)' /\ ~JustSent(i)' => stored'[i] <= faults'
    BY <1>2, <1>4, <1>5, BoundsAssumption DEF Pending, TypeOK
  <2> QED  BY <2>1, <2>2, <2>3, <2>4 DEF SentInv
<1>6. CASE GoOn({})
  <2>1. \A i \in Runs : i \in {} \/ status'[i] \in {"NONE", "CREATED"} => stored[i] <= faults'
    BY <1>2, <1>4, BoundsAssumption DEF TypeOK, Pending
  <2>2. /\ pc' \in {"idle", "next"} /\ batch' \subseteq Runs
        /\ cur' = Nil /\ after' = "next" /\ SentInv'
    BY <1>2, <1>3, <1>6, <2>1, GoOnInv
  <2>3. TypeOK'
    BY <1>2, <2>2 DEF TypeOK
  <2> QED  BY <2>2, <2>3
<1>7. after \in {"next", "idle"}
  BY DEF TypeOK
<1> QED  BY <1>5, <1>6, <1>7 DEF PubTake, PubTakeFails, Leave

(* Writing FAILED, and writing QUEUED: a write that fails costs a fault,   *)
(* which pays for sending the run once more.                               *)
LEMMA WriteInv ==
    ASSUME IInv, PubFail \/ PubMark
    PROVE  IInv'
<1> USE DEF IInv
<1>1. /\ pc \in {"fail", "mark"} /\ cur \in batch /\ cur \in Runs
      /\ status[cur] # "NONE"
  BY DEF PubFail, PubMark, SentInv, PublisherInv, TypeOK
<1>2. /\ UNCHANGED <<seq, natVars, resVars, reqVars>>
      /\ faults' \in 0..MaxFaults /\ faults' \in {faults, faults + 1}
  BY BoundsAssumption DEF PubFail, PubMark, TypeOK
<1>3. PICK B \in SUBSET Runs : GoOn(B) /\ B \subseteq batch \ {cur}
  BY DEF PubFail, PubMark, TypeOK
<1>4. \/ UNCHANGED <<status, rested, halfday>> /\ faults' = faults + 1
      \/ Put({cur}, "FAILED") \/ Put({cur}, "QUEUED")
  BY DEF PubFail, PubMark
<1>5. RowsTyped /\ NoneCreated
  <2>1. CASE UNCHANGED <<status, rested, halfday>>
    BY <2>1 DEF RowsTyped, NoneCreated, TypeOK
  <2> QED  BY <1>1, <1>4, <2>1, PutType DEF RunStatus
<1>6. \A i \in Runs : i \in B \/ status'[i] \in {"NONE", "CREATED"} => stored[i] <= faults'
  <2> SUFFICES ASSUME NEW i \in Runs, i \in B \/ status'[i] \in {"NONE", "CREATED"}
               PROVE  stored[i] <= faults'
    OBVIOUS
  <2>1. CASE i # cur
    <3>1. Pending(i) /\ ~JustSent(i)
      BY <1>3, <1>5, <2>1 DEF Pending, JustSent, NoneCreated
    <3> QED  BY <1>2, <3>1, BoundsAssumption DEF SentInv, TypeOK
  <2>2. CASE i = cur /\ faults' = faults + 1
    BY <2>2, BoundsAssumption DEF SentInv, SentOnce, TypeOK
  <2>3. CASE i = cur /\ (Put({cur}, "FAILED") \/ Put({cur}, "QUEUED"))
    <3>1. status'[cur] \notin {"NONE", "CREATED"}
      BY <1>1, <2>3 DEF Put, Exists, TypeOK
    <3> QED  BY <1>3, <2>3, <3>1
  <2> QED  BY <1>4, <2>1, <2>2, <2>3
<1>7. /\ pc' \in {"idle", "next"} /\ batch' \subseteq Runs
      /\ cur' = Nil /\ after' = "next" /\ SentInv'
  <2>1. \A i \in B : status[i] # "NONE"
    BY <1>3 DEF SentInv, PublisherInv
  <2> QED  BY <1>2, <1>3, <1>5, <1>6, <2>1, GoOnInv
<1>8. TypeOK'
  BY <1>2, <1>5, <1>7 DEF TypeOK, RowsTyped
<1> QED  BY <1>7, <1>8

(* The call that sends. *)
LEMMA ProduceInv ==
    ASSUME IInv, PubProduce \/ PubProduceFails
    PROVE  IInv'
<1> USE DEF IInv
<1>1. pc = "produce" /\ cur \in batch /\ cur \in Runs /\ stored[cur] <= faults
  BY DEF PubProduce, PubProduceFails, SentInv, PublisherInv, TypeOK, Pending, JustSent
<1>2. \A i \in Runs : Pending(i) => stored[i] <= faults
  BY <1>1 DEF SentInv, JustSent
<1>3. UNCHANGED <<rowVars, working, resVars, reqVars>>
  BY DEF PubProduce, PubProduceFails
<1>4. /\ queue' \subseteq Copy /\ stored' \in [Runs -> Nat]
      /\ stored'[cur] <= stored[cur] + 1
      /\ \A i \in Runs : i # cur => stored'[i] = stored[i]
      /\ PubProduce => stored'[cur] > 0
  <2>1. CASE Store(cur)
    BY <1>1, <2>1, StoreType
  <2>2. CASE UNCHANGED <<queue, stored>> /\ PubProduceFails
    BY <1>1, <2>2 DEF TypeOK, PubProduce, PubProduceFails
  <2> QED  BY <2>1, <2>2 DEF PubProduce, PubProduceFails
<1>5. \A i \in Runs : stored'[i] <= 1 + faults
  <2> SUFFICES ASSUME NEW i \in Runs PROVE stored'[i] <= 1 + faults
    OBVIOUS
  <2>1. stored[i] <= 1 + faults /\ stored[i] \in Nat /\ stored'[i] \in Nat /\ faults \in Nat
    BY <1>4, BoundsAssumption DEF SentInv, SentOnce, TypeOK
  <2> QED  BY <1>1, <1>4, <2>1
<1>6. CASE PubProduce
  <2>1. pc' = "stamp" /\ UNCHANGED <<batch, cur, after, faults>>
    BY <1>6 DEF PubProduce
  <2>2. TypeOK'
    BY <1>3, <1>4, <2>1 DEF TypeOK
  <2>3. PublisherInv'
    BY <1>1, <1>3, <1>4, <1>6, <2>1 DEF SentInv, PublisherInv
  <2>4. SentOnce'
    BY <1>5, <2>1 DEF SentOnce
  <2>5. \A i \in Runs : Pending(i)' /\ ~JustSent(i)' => stored'[i] <= faults'
    BY <1>2, <1>3, <1>4, <2>1 DEF Pending, JustSent
  <2> QED  BY <2>2, <2>3, <2>4, <2>5 DEF SentInv
<1>7. CASE PubProduceFails
  <2>1. /\ pc' \in {"fail", "idle"} /\ faults' = faults + 1 /\ faults' \in 0..MaxFaults
        /\ pc' = "fail" => UNCHANGED <<batch, cur, after>>
        /\ pc' = "idle" => batch' = {} /\ cur' = Nil /\ after' = "next"
    BY <1>7, BoundsAssumption DEF PubProduceFails, Leave, GoOn, TypeOK
  <2>2. TypeOK'
    BY <1>3, <1>4, <2>1 DEF TypeOK
  <2>3. PublisherInv'
    BY <1>1, <1>3, <2>1 DEF SentInv, PublisherInv
  <2>5. SentOnce'
    BY <1>5, <2>1, <1>4, BoundsAssumption DEF SentOnce, TypeOK
  <2>6. \A i \in Runs : Pending(i)' /\ ~JustSent(i)' => stored'[i] <= faults'
    BY <1>5, <2>1, BoundsAssumption DEF TypeOK
  <2> QED  BY <2>2, <2>3, <2>5, <2>6 DEF SentInv
<1> QED  BY <1>6, <1>7

(* The sequence number: the copy that was stored last. *)
LEMMA StampInv ==
    ASSUME IInv, PubStamp
    PROVE  IInv'
<1> USE DEF IInv
<1>1. pc = "stamp" /\ cur \in batch /\ cur \in Runs /\ stored[cur] \in Copies
  <2>1. pc = "stamp" /\ cur \in batch /\ cur \in Runs /\ stored[cur] > 0 /\ stored[cur] <= 1 + faults
    BY DEF PubStamp, SentInv, PublisherInv, SentOnce, TypeOK
  <2> QED  BY <2>1, BoundsAssumption DEF TypeOK, Copies
<1>2. /\ pc' = "mark" /\ UNCHANGED <<batch, cur, after, status, natVars, resVars, reqVars>>
      /\ faults' \in 0..MaxFaults /\ faults' \in {faults, faults + 1}
  BY BoundsAssumption DEF PubStamp, TypeOK
<1>3. seq' \in [Runs -> Copies \cup {Nil}] /\ rested' \subseteq Runs /\ halfday' \subseteq Runs
  BY <1>1 DEF PubStamp, Touch, TypeOK
<1>4. TypeOK'
  BY <1>2, <1>3 DEF TypeOK
<1>5. PublisherInv'
  BY <1>1, <1>2 DEF SentInv, PublisherInv
<1>6. SentOnce'
  BY <1>2, BoundsAssumption DEF SentInv, SentOnce, TypeOK
<1>7. \A i \in Runs : Pending(i)' /\ ~JustSent(i)' => stored'[i] <= faults'
  BY <1>1, <1>2, BoundsAssumption DEF SentInv, Pending, JustSent, TypeOK
<1> QED  BY <1>4, <1>5, <1>6, <1>7 DEF SentInv

(* A restart forgets the row that was just sent, and is itself a fault. *)
LEMMA CrashInv ==
    ASSUME IInv, Crash
    PROVE  IInv'
<1> USE DEF IInv
<1>1. /\ pc' = "idle" /\ batch' = {} /\ cur' = Nil
      /\ UNCHANGED <<rowVars, natVars>>
      /\ faults' = faults + 1 /\ faults' \in 0..MaxFaults
  BY BoundsAssumption DEF Crash, TypeOK
<1>2. TypeOK'
  BY <1>1 DEF Crash, TypeOK
<1>3. PublisherInv'
  BY <1>1 DEF PublisherInv
<1>4. SentOnce' /\ \A i \in Runs : stored'[i] <= faults'
  BY <1>1, BoundsAssumption DEF SentInv, SentOnce, TypeOK
<1> QED  BY <1>2, <1>3, <1>4 DEF SentInv

-----------------------------------------------------------------------------
LEMMA InitInv == Init => IInv
<1> SUFFICES ASSUME Init PROVE IInv
  OBVIOUS
<1>1. TypeOK
  BY BoundsAssumption DEF Init, TypeOK
<1>2. SentInv
  BY DEF Init, SentInv, PublisherInv, SentOnce
<1> QED  BY <1>1, <1>2 DEF IInv

LEMMA StepInv == IInv /\ [Next]_vars => IInv'
<1> SUFFICES ASSUME IInv, [Next]_vars PROVE IInv'
  OBVIOUS
<1>1. CASE UNCHANGED vars
  <2>1. TypeOK'
    BY <1>1 DEF IInv, TypeOK, vars
  <2>2. SentInv'
    BY <1>1 DEF IInv, SentInv, PublisherInv, SentOnce, Pending, JustSent, vars
  <2> QED  BY <2>1, <2>2 DEF IInv
<1>2. CASE Next
  BY <1>2, RequestInv, WorkerInv, ConsumeInv, RestInv, RoundInv, TakeInv, WriteInv, ProduceInv,
     StampInv, CrashInv DEF Next, Publish
<1> QED  BY <1>1, <1>2

(* Every variable of the query runner keeps its type; there are no more    *)
(* sequence numbers than one for each fault, and one.                      *)
THEOREM TypeCorrect == Spec => []TypeOK
<1>1. IInv => TypeOK
  BY DEF IInv
<1> QED  BY <1>1, InitInv, StepInv, PTL DEF Spec

(* A run of a query is sent once, and once more at most for each failed    *)
(* statement, failed call or restart.                                      *)
THEOREM RunSentOnce == Spec => []SentOnce
<1>1. IInv => SentOnce
  BY DEF IInv, SentInv
<1> QED  BY <1>1, InitInv, StepInv, PTL DEF Spec

-----------------------------------------------------------------------------
(* The end of a run. *)

Kept(r) == status'[r] \in {status[r], "DELETED"}

(* Where nobody is given the run, and only others are written, it keeps    *)
(* its end.                                                                *)
LEMMA PutKept ==
    ASSUME TypeOK, NEW r \in Runs, NEW S, r \notin S, NEW st, Put(S, st)
    PROVE  Kept(r)
BY DEF Put, Kept, TypeOK

(* No step writes a run that has ended, or takes it up, when nobody holds  *)
(* it.                                                                     *)
LEMMA StepKept ==
    ASSUME IInv, [Next]_vars, NEW r \in Runs, status[r] \in Ended, Unreferenced(r)
    PROVE  Kept(r) /\ Unreferenced(r)'
<1> USE DEF IInv
<1>0. r # Nil /\ status[r] \notin {"NONE", "CREATED", "QUEUED", "IN_PROGRESS"}
  BY NilAssumption DEF Ended
<1>1. CASE \/ UNCHANGED vars
           \/ \E i \in Runs : Rest(i)
  BY <1>1 DEF Rest, vars, Kept, Unreferenced
<1>2. CASE Request
  <2>1. CASE \E i \in Runs : RunQuery(i)
    BY <1>0, <2>1 DEF RunQuery, Kept, Unreferenced, TypeOK
  <2>2. CASE \E i \in Runs : CancelRead(i)
    BY <1>0, <2>2 DEF CancelRead, Kept, Unreferenced
  <2>3. CASE CancelDrop \/ CancelDropFails
    BY <2>3 DEF CancelDrop, CancelDropFails, Kept, Unreferenced, TypeOK
  <2>4. CASE CancelWrite
    BY <2>4, PutKept DEF CancelWrite, Unreferenced
  <2>5. CASE Purge
    BY <1>0, <2>5 DEF Purge, Kept, Unreferenced
  <2> QED  BY <1>2, <2>1, <2>2, <2>3, <2>4, <2>5 DEF Request
<1>3. ASSUME NEW m \in queue \cup working, WorkerTake(m) \/ WorkerFinish(m) \/ WorkerLost(m)
      PROVE  Kept(r) /\ Unreferenced(r)'
  <2>1. m[1] \in Runs /\ m[1] # r
    BY <1>3 DEF Unreferenced, TypeOK, Copy
  <2>2. /\ UNCHANGED <<rowVars, pubVars, hand, reqVars>>
        /\ queue' \cup working' \subseteq queue \cup working
    BY <1>3 DEF WorkerTake, WorkerFinish, WorkerLost
  <2>3. \A i \in DOMAIN results' : results'[i].run # r
    <3>1. ASSUME NEW st \in {"IN_PROGRESS", "SUCCEEDED", "FAILED"}, Answer(m[1], st)
          PROVE  \A i \in DOMAIN results' : results'[i].run # r
      <4>1. results \in Seq(Result) /\ \A i \in DOMAIN results : results[i].run # r
        BY DEF TypeOK, Unreferenced
      <4>2. [run |-> m[1], status |-> st] \in Result
        BY <2>1 DEF Result
      <4>3. results' \in {results, Append(results, [run |-> m[1], status |-> st])}
        BY <3>1 DEF Answer
      <4> QED  BY <2>1, <4>1, <4>2, <4>3
    <3>2. CASE WorkerLost(m)
      BY <3>2 DEF WorkerLost, Unreferenced
    <3> QED  BY <1>3, <3>1, <3>2 DEF WorkerTake, WorkerFinish
  <2> QED  BY <2>2, <2>3 DEF Kept, Unreferenced
<1>4. CASE ConsumerTake
  <2>1. results \in Seq(Result) /\ results # <<>> /\ \A i \in DOMAIN results : results[i].run # r
    BY <1>4 DEF ConsumerTake, TypeOK, Unreferenced
  <2>2. Head(results).run # r /\ \A i \in DOMAIN Tail(results) : Tail(results)[i].run # r
    BY <2>1
  <2> QED  BY <1>4, <2>2 DEF ConsumerTake, Kept, Unreferenced
<1>5. CASE ConsumerWrite
  BY <1>5, PutKept DEF ConsumerWrite, Kept, Unreferenced
<1>6. CASE PubExpireQueued \/ PubExpireRunning
  <2>1. r \notin Overdue("QUEUED") /\ r \notin Overdue("IN_PROGRESS")
    BY <1>0 DEF Overdue
  <2>2. Kept(r)
    BY <1>6, <2>1, PutKept DEF PubExpireQueued, PubExpireRunning, Kept
  <2> QED  BY <1>6, <2>2 DEF PubExpireQueued, PubExpireRunning, Unreferenced
<1>7. CASE PubFetch \/ \E i \in batch : PubTake(i) \/ PubTakeFails(i)
  <2>1. cur' # r /\ r \notin batch'
    BY <1>0, <1>7 DEF PubFetch, PubTake, PubTakeFails, Leave, GoOn, Fetched, Unreferenced
  <2>2. UNCHANGED <<rowVars, natVars, resVars, reqVars>>
    BY <1>7 DEF PubFetch, PubTake, PubTakeFails
  <2> QED  BY <2>1, <2>2 DEF Kept, Unreferenced
<1>8. CASE PubFail \/ PubMark
  <2>1. cur' # r /\ r \notin batch' /\ UNCHANGED <<natVars, resVars, reqVars>>
    BY <1>0, <1>8 DEF PubFail, PubMark, GoOn, Unreferenced
  <2>2. Kept(r)
    BY <1>8, PutKept DEF PubFail, PubMark, Kept, Unreferenced
  <2> QED  BY <2>1, <2>2 DEF Unreferenced
<1>9. CASE PubProduce \/ PubProduceFails
  <2>1. queue' \subseteq queue \cup {<<cur, stored[cur] + 1>>} /\ cur # r
    BY <1>9 DEF PubProduce, PubProduceFails, Store, Unreferenced
  <2>2. cur' # r /\ r \notin batch' /\ UNCHANGED <<rowVars, working, resVars, reqVars>>
    BY <1>0, <1>9 DEF PubProduce, PubProduceFails, Leave, GoOn, Unreferenced
  <2>3. \A m \in queue' \cup working' : m[1] # r
    BY <2>1, <2>2 DEF Unreferenced
  <2> QED  BY <2>2, <2>3 DEF Kept, Unreferenced
<1>10. CASE PubStamp
  BY <1>10 DEF PubStamp, Kept, Unreferenced
<1>11. CASE Crash
  BY <1>0, <1>11 DEF Crash, Kept, Unreferenced
<1> QED  BY <1>1, <1>2, <1>3, <1>4, <1>5, <1>6, <1>7, <1>8, <1>9, <1>10, <1>11 DEF Next, Publish, Consume

(* How a run ended stays so, and it is not run again, unless somebody held *)
(* it when it ended.                                                       *)
THEOREM EndStays == Spec => EndKept
<1>1. IInv /\ [Next]_vars =>
        [\A r \in Runs : status[r] \in Ended /\ Unreferenced(r) =>
            status'[r] \in {status[r], "DELETED"} /\ Unreferenced(r)']_vars
  BY StepKept DEF Kept
<1> QED  BY <1>1, InitInv, StepInv, PTL DEF Spec, EndKept

-----------------------------------------------------------------------------
(* What a run says of itself was earned: the stream had taken a copy. *)

CopyEarned   == \A m \in queue \cup working : m[2] <= stored[m[1]]
AnswerEarned == /\ \A i \in 1..Len(results) : stored[results[i].run] > 0
                /\ hand # Nil => stored[hand.run] > 0
NumberEarned == /\ \A r \in Runs : seq[r] # Nil => seq[r] <= stored[r]
                /\ view # Nil => (view.seq # Nil => view.seq <= stored[view.run])
StatusEarned == \A r \in Runs : status[r] \in {"QUEUED", "IN_PROGRESS", "SUCCEEDED"} => stored[r] > 0

EarnedInv == CopyEarned /\ AnswerEarned /\ NumberEarned /\ StatusEarned

(* What is stored stays counted, and PubProduce alone adds to it, or       *)
(* PubProduceFails.                                                        *)
Grown == \A r \in Runs : stored[r] \in Nat /\ stored'[r] \in Nat /\ stored[r] <= stored'[r]

LEMMA StoreGrown ==
    ASSUME TypeOK, NEW r \in Runs, Store(r)
    PROVE  /\ Grown
           /\ queue' = queue \/ queue' = queue \cup {<<r, stored'[r]>>}
<1>1. CASE stored[r] > 0 /\ UNCHANGED <<queue, stored>>
  BY <1>1 DEF Grown, TypeOK
<1>2. CASE /\ stored[r] + 1 \in Copies
           /\ queue' = queue \cup {<<r, stored[r] + 1>>}
           /\ stored' = [stored EXCEPT ![r] = @ + 1]
  <2>1. stored'[r] = stored[r] + 1 /\ stored \in [Runs -> Nat]
    BY <1>2 DEF TypeOK
  <2> QED  BY <1>2, <2>1 DEF Grown
<1> QED  BY <1>1, <1>2 DEF Store

LEMMA StepGrown ==
    ASSUME IInv, [Next]_vars
    PROVE  Grown
<1>1. stored \in [Runs -> Nat]
  BY DEF IInv, TypeOK
<1>2. CASE PubProduce \/ PubProduceFails
  <2>1. cur \in Runs
    BY <1>2 DEF PubProduce, PubProduceFails, IInv, SentInv, PublisherInv, TypeOK
  <2>2. Store(cur) \/ UNCHANGED stored
    BY <1>2 DEF PubProduce, PubProduceFails
  <2> QED  BY <1>1, <2>1, <2>2, StoreGrown DEF IInv, Grown
<1>3. CASE ~(PubProduce \/ PubProduceFails)
  <2>1. UNCHANGED stored
    BY <1>3 DEF Next, Publish, PubExpireQueued, PubExpireRunning, PubFetch, PubTake, PubFail, PubStamp,
                PubMark, PubTakeFails, Request, RunQuery, CancelRead, CancelDrop, CancelDropFails,
                CancelWrite, Purge, Consume, ConsumerTake, ConsumerWrite, Crash, WorkerTake,
                WorkerFinish, WorkerLost, Rest, vars
  <2> QED  BY <1>1, <2>1 DEF Grown
<1> QED  BY <1>2, <1>3

LEMMA StepCopy ==
    ASSUME IInv, EarnedInv, [Next]_vars
    PROVE  CopyEarned'
<1>0. Grown /\ \A m \in queue \cup working : m = <<m[1], m[2]>> /\ m[1] \in Runs /\ m[2] \in Nat
  BY StepGrown DEF IInv, TypeOK, Copy, Copies
<1>1. \A m \in queue \cup working : m[2] <= stored'[m[1]]
  BY <1>0 DEF EarnedInv, CopyEarned, Grown
<1>2. ASSUME queue' \cup working' \subseteq queue \cup working
      PROVE  CopyEarned'
  BY <1>1, <1>2 DEF CopyEarned
<1>3. CASE PubProduce \/ PubProduceFails
  <2>1. cur \in Runs
    BY <1>3 DEF PubProduce, PubProduceFails, IInv, SentInv, PublisherInv, TypeOK
  <2>2. working' = working /\ (queue' = queue \/ queue' = queue \cup {<<cur, stored'[cur]>>})
    BY <1>3, <2>1, StoreGrown DEF PubProduce, PubProduceFails, IInv
  <2>3. stored'[cur] \in Nat
    BY <1>0, <2>1 DEF Grown
  <2> QED  BY <1>1, <2>2, <2>3 DEF CopyEarned
<1>4. CASE ~(PubProduce \/ PubProduceFails)
  <2>1. queue' \cup working' \subseteq queue \cup working
    BY <1>4 DEF Next, Publish, PubExpireQueued, PubExpireRunning, PubFetch, PubTake, PubFail, PubStamp,
                PubMark, PubTakeFails, Request, RunQuery, CancelRead, CancelDrop, CancelDropFails,
                CancelWrite, Purge, Consume, ConsumerTake, ConsumerWrite, Crash, WorkerTake,
                WorkerFinish, WorkerLost, Rest, vars
  <2> QED  BY <1>2, <2>1
<1> QED  BY <1>3, <1>4

LEMMA StepAnswer ==
    ASSUME IInv, EarnedInv, [Next]_vars
    PROVE  AnswerEarned'
<1>0. Grown /\ results \in Seq(Result) /\ hand \in Result \cup {Nil}
  BY StepGrown DEF IInv, TypeOK
<1>1. \A e \in Result : e.run \in Runs
  BY DEF Result
<1>2. /\ \A i \in 1..Len(results) : results[i] \in Result /\ stored'[results[i].run] > 0
      /\ hand # Nil => stored'[hand.run] > 0
  <2>1. \A i \in 1..Len(results) : results[i] \in Result
    BY <1>0
  <2>2. \A r \in Runs : stored[r] > 0 => stored'[r] > 0
    BY <1>0 DEF Grown
  <2> QED  BY <1>0, <1>1, <2>1, <2>2 DEF EarnedInv, AnswerEarned
<1>3. ASSUME results' = results, hand' \in {hand, Nil}
      PROVE  AnswerEarned'
  BY <1>2, <1>3 DEF AnswerEarned
<1>4. ASSUME NEW m \in queue \cup working, WorkerTake(m) \/ WorkerFinish(m) \/ WorkerLost(m)
      PROVE  AnswerEarned'
  <2>1. m[1] \in Runs /\ m[2] \in 1..(1 + MaxFaults)
    BY DEF IInv, TypeOK, Copy, Copies
  <2>2. stored'[m[1]] > 0
    BY <1>0, <2>1, BoundsAssumption DEF EarnedInv, CopyEarned, Grown
  <2>3. ASSUME NEW st \in {"IN_PROGRESS", "SUCCEEDED", "FAILED"},
               results' = Append(results, [run |-> m[1], status |-> st]), hand' = hand
        PROVE  AnswerEarned'
    <3> DEFINE e == [run |-> m[1], status |-> st]
    <3>1. e \in Result /\ e.run = m[1]
      BY <2>1 DEF Result
    <3> HIDE DEF e
    <3>2. \A i \in 1..Len(results') : results'[i] = e \/
                                       (i \in 1..Len(results) /\ results'[i] = results[i])
      BY <1>0, <2>3, <3>1 DEF e
    <3> QED  BY <1>2, <2>2, <2>3, <3>1, <3>2 DEF AnswerEarned
  <2>4. \/ UNCHANGED <<results, hand>>
        \/ /\ hand' = hand
           /\ \E st \in {"IN_PROGRESS", "SUCCEEDED", "FAILED"} :
                 results' = Append(results, [run |-> m[1], status |-> st])
    BY <1>4 DEF WorkerTake, WorkerFinish, WorkerLost, Answer
  <2> QED  BY <1>3, <2>3, <2>4
<1>5. CASE ConsumerTake
  <2>1. /\ Head(results) = results[1] /\ Len(results) \in Nat \ {0}
        /\ Len(results') = Len(results) - 1
        /\ \A i \in 1..Len(results') : results'[i] = results[i + 1]
    BY <1>0, <1>5 DEF ConsumerTake
  <2> QED  BY <1>2, <1>5, <2>1 DEF ConsumerTake, AnswerEarned
<1>6. CASE ConsumerWrite \/ Crash
  BY <1>3, <1>6 DEF ConsumerWrite, Crash
<1>7. \/ UNCHANGED <<results, hand>>
      \/ \E m \in queue \cup working : WorkerTake(m) \/ WorkerFinish(m) \/ WorkerLost(m)
      \/ ConsumerTake \/ ConsumerWrite \/ Crash
  BY DEF Next, Publish, PubExpireQueued, PubExpireRunning, PubFetch, PubTake, PubFail, PubProduce,
         PubStamp, PubMark, PubProduceFails, PubTakeFails, Request, RunQuery, CancelRead, CancelDrop,
         CancelDropFails, CancelWrite, Purge, Consume, Rest, vars
<1> QED  BY <1>3, <1>4, <1>5, <1>6, <1>7
LEMMA StepNumber ==
    ASSUME IInv, EarnedInv, [Next]_vars
    PROVE  NumberEarned'
<1>0. Grown /\ TypeOK
  BY StepGrown DEF IInv
<1>1. \A r \in Runs : seq'[r] # Nil => seq'[r] <= stored'[r]
  <2>1. \A r \in Runs : seq[r] # Nil => seq[r] \in Nat /\ seq[r] <= stored[r]
    BY <1>0 DEF EarnedInv, NumberEarned, TypeOK, Copies
  <2>2. CASE seq' = seq
    BY <1>0, <2>1, <2>2 DEF Grown
  <2>3. CASE PubStamp
    <3>1. UNCHANGED stored /\ \A r \in Runs : seq'[r] \in {seq[r], stored[r]}
      BY <1>0, <2>3 DEF PubStamp, TypeOK
    <3> QED  BY <1>0, <2>1, <3>1 DEF Grown
  <2>4. seq' = seq \/ PubStamp
    BY DEF Next, Publish, PubExpireQueued, PubExpireRunning, PubFetch, PubTake, PubFail, PubProduce,
           PubMark, PubProduceFails, PubTakeFails, Request, RunQuery, CancelRead, CancelDrop,
           CancelDropFails, CancelWrite, Purge, Consume, ConsumerTake, ConsumerWrite, Crash,
           WorkerTake, WorkerFinish, WorkerLost, Rest, vars
  <2> QED  BY <2>2, <2>3, <2>4
<1>2. view' # Nil => (view'.seq # Nil => view'.seq <= stored'[view'.run])
  <2>0. ASSUME NEW r \in Runs, NEW n \in Copies \cup {Nil}, n # Nil => n <= stored[r]
        PROVE  n # Nil => n <= stored'[r]
    BY <1>0, <2>0 DEF Grown, Copies
  <2>1. view # Nil => /\ view.run \in Runs /\ view.seq \in Copies \cup {Nil}
                      /\ view.seq # Nil => view.seq <= stored[view.run]
    BY <1>0 DEF TypeOK, EarnedInv, NumberEarned
  <2>2. CASE view' \in {view, Nil}
    BY <2>0, <2>1, <2>2
  <2>3. ASSUME NEW r \in Runs, CancelRead(r)
        PROVE  view' # Nil => (view'.seq # Nil => view'.seq <= stored'[view'.run])
    <3>1. view'.run = r /\ view'.seq = seq[r] /\ seq[r] \in Copies \cup {Nil}
      BY <1>0, <2>3 DEF CancelRead, TypeOK
    <3>2. seq[r] # Nil => seq[r] <= stored[r]
      BY DEF EarnedInv, NumberEarned
    <3> QED  BY <2>0, <3>1, <3>2
  <2>4. CASE CancelDrop
    <3>1. view # Nil /\ view'.run = view.run /\ view'.seq = view.seq
      BY <1>0, <2>4 DEF CancelDrop, TypeOK
    <3> QED  BY <2>0, <2>1, <3>1
  <2>5. view' \in {view, Nil} \/ CancelDrop \/ \E r \in Runs : CancelRead(r)
    BY DEF Next, Publish, PubExpireQueued, PubExpireRunning, PubFetch, PubTake, PubFail, PubProduce,
           PubStamp, PubMark, PubProduceFails, PubTakeFails, Request, RunQuery,
           CancelDropFails, CancelWrite, Purge, Consume, ConsumerTake, ConsumerWrite, Crash,
           WorkerTake, WorkerFinish, WorkerLost, Rest, vars
  <2> QED  BY <2>2, <2>3, <2>4, <2>5
<1> QED  BY <1>1, <1>2 DEF NumberEarned

LEMMA StepStatus ==
    ASSUME IInv, EarnedInv, [Next]_vars
    PROVE  StatusEarned'
<1>0. Grown /\ TypeOK
  BY StepGrown DEF IInv
<1> DEFINE Earned == {"QUEUED", "IN_PROGRESS", "SUCCEEDED"}
<1>1. ASSUME \A r \in Runs : status'[r] \in Earned => status[r] \in Earned
      PROVE  StatusEarned'
  BY <1>0, <1>1 DEF EarnedInv, StatusEarned, Grown
<1>2. ASSUME NEW S, NEW st, Put(S, st), st \in Earned => \A r \in S : stored[r] > 0
      PROVE  StatusEarned'
  <2>1. \A r \in Runs : status'[r] \in Earned => stored[r] > 0
    BY <1>2 DEF Put, EarnedInv, StatusEarned
  <2> QED  BY <1>0, <2>1 DEF StatusEarned, Grown
<1>3. CASE PubMark
  BY <1>1, <1>2, <1>3 DEF PubMark, IInv, SentInv, PublisherInv
<1>4. CASE ConsumerWrite
  BY <1>1, <1>2, <1>4 DEF ConsumerWrite, EarnedInv, AnswerEarned
<1>5. CASE PubExpireQueued \/ PubExpireRunning \/ PubFail \/ CancelWrite
  BY <1>1, <1>2, <1>5 DEF PubExpireQueued, PubExpireRunning, PubFail, CancelWrite
<1>6. CASE Purge \/ \E r \in Runs : RunQuery(r)
  BY <1>0, <1>1, <1>6 DEF Purge, RunQuery, TypeOK
<1>7. \/ UNCHANGED status \/ PubMark \/ ConsumerWrite
      \/ PubExpireQueued \/ PubExpireRunning \/ PubFail \/ CancelWrite
      \/ Purge \/ \E r \in Runs : RunQuery(r)
  BY DEF Next, Publish, PubFetch, PubTake, PubProduce, PubStamp, PubProduceFails, PubTakeFails,
         Request, CancelRead, CancelDrop, CancelDropFails, Consume, ConsumerTake, Crash,
         WorkerTake, WorkerFinish, WorkerLost, Rest, vars
<1> QED  BY <1>1, <1>3, <1>4, <1>5, <1>6, <1>7

LEMMA EarnedInit == Init => EarnedInv
BY DEF Init, EarnedInv, CopyEarned, AnswerEarned, NumberEarned, StatusEarned

LEMMA EarnedStep == IInv /\ EarnedInv /\ [Next]_vars => EarnedInv'
BY StepCopy, StepAnswer, StepNumber, StepStatus DEF EarnedInv

(* No run is QUEUED, IN_PROGRESS or SUCCEEDED unless the stream has taken  *)
(* its message: whichever calls, statements and answers were lost, and     *)
(* whatever was purged and canceled.                                       *)
THEOREM StatusIsEarned == Spec => []StatusEarned
<1>1. EarnedInv => StatusEarned
  BY DEF EarnedInv
<1> QED  BY <1>1, InitInv, StepInv, EarnedInit, EarnedStep, PTL DEF Spec

(* The sequence number in a row, and the one a cancel request has read     *)
(* there, is that of a copy the stream has taken.                          *)
THEOREM NumberIsStored == Spec => []NumberEarned
<1>1. EarnedInv => NumberEarned
  BY DEF EarnedInv
<1> QED  BY <1>1, InitInv, StepInv, EarnedInit, EarnedStep, PTL DEF Spec
=============================================================================
