------------------------ MODULE ComplianceRunnerProofs ------------------------
(***************************************************************************)
(* Proofs about ComplianceRunner, for every set of rows and workers and    *)
(* every bound.                                                            *)
(***************************************************************************)
EXTENDS ComplianceRunner, NaturalSets, FiniteSetTheorems, TLAPS

(* The row a publisher is handling is one of its batch. *)
LEMMA CurrentInBatch ==
    ASSUME TypeOK, NEW p \in Publishers, batch[p] # {}
    PROVE  Current(p) \in batch[p]
<1> DEFINE Ids == {x.id : x \in batch[p]}
<1>1. batch[p] \subseteq Item
  BY DEF TypeOK
<1>2. Ids \in SUBSET Nat /\ Ids # {}
  BY <1>1, RunnersAssumption DEF Item
<1>3. PICK m \in Ids : \A n \in Ids : m <= n
  BY <1>2, LeastNatural
<1>4. PICK x \in batch[p] : x.id = m
  OBVIOUS
<1>5. \A y \in batch[p] : x.id <= y.id
  BY <1>3, <1>4
<1> QED  BY <1>5 DEF Current

-----------------------------------------------------------------------------
(* Type correctness. *)

LEMMA WriteType ==
    ASSUME TypeOK, NEW S \in SUBSET Runners, NEW st \in RunnerStatus, Write(S, st)
    PROVE  /\ status' \in [Runners -> RunnerStatus]
           /\ quiet' \subseteq Runners
           /\ succeeded' \subseteq Runners
BY DEF TypeOK, Write

(* Only RetryFailedRunners writes CREATED. *)
LEMMA WriteCreated ==
    ASSUME TypeOK, NEW S, NEW st, Write(S, st), st # "CREATED"
    PROVE  \A r \in Runners : status'[r] = "CREATED" => status[r] = "CREATED"
BY DEF TypeOK, Write

LEMMA AdvanceType ==
    ASSUME TypeOK, BatchInv, NEW p \in Publishers,
           pc[p] \in {"publish", "reject", "mark"}, Advance(p)
    PROVE  /\ pc' \in [Publishers -> PublisherPc]
           /\ round' \in [Publishers -> 0..Rounds]
           /\ batch' \in [Publishers -> SUBSET Item]
           /\ ticket' \in [Publishers -> Message \cup {Nil}]
           /\ \A q \in Publishers :
                 /\ pc'[q] \in {"idle", "expire", "fetch", "retry"} => batch'[q] = {}
                 /\ pc'[q] \in {"publish", "produce", "stamp", "mark", "reject"} => batch'[q] # {}
                 /\ pc'[q] # "retry" => round'[q] < Rounds
                 /\ batch'[q] \subseteq batch[q]
<1>1. batch[p] # {} /\ round[p] < Rounds
  BY DEF BatchInv
<1>2. Current(p) \in batch[p]
  BY <1>1, CurrentInBatch
<1>3. /\ round' \in [Publishers -> 0..Rounds]
      /\ ticket' \in [Publishers -> Message \cup {Nil}]
      /\ batch' \in [Publishers -> SUBSET Item]
  BY <1>1, BoundAssumption DEF TypeOK, Advance
<1>4. /\ pc' \in [Publishers -> PublisherPc]
      /\ pc'[p] \in {"publish", "retry", "idle"}
      /\ pc'[p] = "publish" <=> batch'[p] # {}
      /\ pc'[p] # "retry" => round'[p] < Rounds
  BY <1>1, BoundAssumption DEF TypeOK, Advance, Goto, PublisherPc
<1>5. \A q \in Publishers \ {p} : pc'[q] = pc[q] /\ batch'[q] = batch[q] /\ round'[q] = round[q]
  BY DEF TypeOK, Advance, Goto
<1>6. batch'[p] \subseteq batch[p]
  BY DEF TypeOK, Advance
<1> QED  BY <1>3, <1>4, <1>5, <1>6 DEF BatchInv

(* A fetched item is a CREATED row of the publisher's trigger type, with   *)
(* the retry_count the row has now.                                        *)
LEMMA FetchedItems ==
    ASSUME NEW p \in Publishers, NEW x \in Fetched(p)
    PROVE  /\ x.id \in Runners /\ status[x.id] = "CREATED" /\ Trigger(x.id) = p
           /\ x = [id |-> x.id, attempt |-> retry[x.id]]
<1>1. PICK r \in Runners : /\ status[r] = "CREATED" /\ Trigger(r) = p
                           /\ x = [id |-> r, attempt |-> retry[r]]
  BY Zenon DEF Fetched
<1> QED  BY <1>1

(* Storing an attempt adds one launch of it at most. *)
LEMMA StoreType ==
    ASSUME TypeOK, NEW x \in Item, NEW c \in Copies, Store(x, c)
    PROVE  /\ queue' \subseteq Message
           /\ launches' \in [Runners -> [Attempts -> Nat]]
           /\ \A y \in Item :
                 \/ launches'[y.id][y.attempt] = launches[y.id][y.attempt]
                 \/ y = x /\ launches'[y.id][y.attempt] = launches[y.id][y.attempt] + 1
<1> DEFINE n == launches[x.id][x.attempt]
<1>1. /\ x.id \in Runners /\ x.attempt \in Attempts /\ n \in Nat
      /\ launches \in [Runners -> [Attempts -> Nat]] /\ queue \subseteq Message
  BY DEF TypeOK, Item
<1>2. CASE UNCHANGED <<queue, launches>>
  BY <1>1, <1>2
<1>3. CASE /\ queue' = queue \cup {[id |-> x.id, attempt |-> x.attempt, copy |-> c]}
           /\ launches' = [launches EXCEPT ![x.id][x.attempt] = n + 1]
  <2>1. queue' \subseteq Message
    BY <1>1, <1>3 DEF Message
  <2>2. launches' \in [Runners -> [Attempts -> Nat]]
    BY <1>1, <1>3
  <2>3. ASSUME NEW y \in Item, y # x
        PROVE  launches'[y.id][y.attempt] = launches[y.id][y.attempt]
    <3>1. y.id # x.id \/ y.attempt # x.attempt
      BY <2>3 DEF Item
    <3> QED  BY <1>1, <1>3, <3>1 DEF Item
  <2>4. launches'[x.id][x.attempt] = n + 1
    BY <1>1, <1>3
  <2> QED  BY <2>1, <2>2, <2>3, <2>4
<1> QED  BY <1>2, <1>3 DEF Store

LEMMA InitInv == Init => TypeOK /\ BatchInv
BY RunnersAssumption, BoundAssumption
   DEF Init, TypeOK, BatchInv, RunnerStatus, Life!RunnerStatus, Life!Absent, Life!Live,
       Life!Waiting, Attempts, PublisherPc, Publishers

LEMMA PublishInv ==
    ASSUME TypeOK, BatchInv, NEW p \in Publishers, Publish(p) \/ PubFaults(p)
    PROVE  TypeOK' /\ BatchInv'
<1> USE DEF rowVars, pubVars, workVars, canVars, histVars, Fault
<1> DEFINE cur == Current(p)
<1>0. ASSUME pc[p] \in {"publish", "produce", "stamp", "mark", "reject"}
      PROVE  /\ cur \in batch[p] /\ cur \in Item /\ cur.id \in Runners
             /\ cur.attempt \in Attempts
  <2>1. cur \in batch[p]
    BY <1>0, CurrentInBatch DEF BatchInv
  <2> QED  BY <2>1 DEF TypeOK, Item
<1>1. CASE PubExpireQueued(p)
  <2>1. /\ status' \in [Runners -> RunnerStatus]
        /\ quiet' \subseteq Runners
        /\ succeeded' \subseteq Runners
    BY <1>1, WriteType DEF PubExpireQueued, RunnerStatus, Life!RunnerStatus, Life!Absent, TypeOK
  <2>2. TypeOK'
    BY <1>1, <2>1 DEF PubExpireQueued, Goto, PublisherPc, TypeOK
  <2>3. BatchInv'
    BY <1>1 DEF PubExpireQueued, Goto, BatchInv, TypeOK
  <2> QED  BY <2>2, <2>3
<1>2. CASE PubExpireRunning(p)
  <2>1. /\ status' \in [Runners -> RunnerStatus]
        /\ quiet' \subseteq Runners
        /\ succeeded' \subseteq Runners
    BY <1>2, WriteType DEF PubExpireRunning, RunnerStatus, Life!RunnerStatus, Life!Absent, TypeOK
  <2>2. TypeOK'
    BY <1>2, <2>1 DEF PubExpireRunning, Goto, PublisherPc, TypeOK
  <2>3. BatchInv'
    BY <1>2 DEF PubExpireRunning, Goto, BatchInv, TypeOK
  <2> QED  BY <2>2, <2>3
<1>3. CASE PubFetch(p)
  <2>1. /\ Fetched(p) \subseteq Item
        /\ \A x \in Fetched(p) : Trigger(x.id) = p /\ x.attempt = retry[x.id]
        /\ \A x, y \in Fetched(p) : x.id = y.id => x = y
    <3>1. ASSUME NEW x \in Fetched(p)
          PROVE  /\ x \in Item /\ Trigger(x.id) = p /\ x.attempt = retry[x.id]
                 /\ x = [id |-> x.id, attempt |-> retry[x.id]]
      <4>1. /\ x.id \in Runners /\ Trigger(x.id) = p
            /\ x = [id |-> x.id, attempt |-> retry[x.id]]
        BY FetchedItems
      <4>2. retry[x.id] \in Attempts
        BY <4>1 DEF TypeOK
      <4>3. [id |-> x.id, attempt |-> retry[x.id]] \in Item
        BY <4>1, <4>2 DEF Item
      <4>4. x.attempt = retry[x.id]
        BY <4>1
      <4> QED  BY <4>1, <4>3, <4>4
    <3>2. ASSUME NEW x \in Fetched(p), NEW y \in Fetched(p), x.id = y.id
          PROVE  x = y
      BY <3>1, <3>2
    <3> QED  BY <3>1, <3>2
  <2>2. TypeOK'
    BY <1>3, <2>1 DEF PubFetch, Goto, PublisherPc, TypeOK
  <2>3. BatchInv'
    <3>1. /\ \A q \in Publishers \ {p} : pc'[q] = pc[q] /\ batch'[q] = batch[q]
          /\ batch'[p] = Fetched(p) /\ round' = round /\ retry' = retry
          /\ pc'[p] = IF Fetched(p) = {} THEN "retry" ELSE "publish"
      BY <1>3 DEF PubFetch, Goto, TypeOK
    <3>2. \A x \in Fetched(p) : x.attempt <= retry[x.id]
      BY <2>1 DEF TypeOK, Attempts, Item
    <3>3. round[p] < Rounds
      BY <1>3 DEF BatchInv, PubFetch
    <3> QED  BY <2>1, <3>1, <3>2, <3>3 DEF BatchInv
  <2> QED  BY <2>2, <2>3
<1>4. CASE PubSkip(p)
  <2> USE <1>4 DEF PubSkip
  <2>1. TypeOK'
    BY AdvanceType DEF TypeOK
  <2>2. BatchInv'
    BY AdvanceType DEF BatchInv
  <2> QED  BY <2>1, <2>2
<1>5. CASE PubDetached(p)
  <2>1. /\ status' \in [Runners -> RunnerStatus]
        /\ quiet' \subseteq Runners
        /\ succeeded' \subseteq Runners
    BY <1>0, <1>5, WriteType DEF PubDetached, RunnerStatus, Life!RunnerStatus, Life!Absent
  <2>2. TypeOK'
    BY <1>5, <2>1 DEF PubDetached, Goto, PublisherPc, TypeOK
  <2>3. BatchInv'
    BY <1>5 DEF PubDetached, Goto, BatchInv, TypeOK
  <2> QED  BY <2>2, <2>3
<1>6. CASE PubProduce(p)
  <2>1. PICK c \in Copies : /\ Store(cur, c)
                            /\ ticket' = [ticket EXCEPT ![p] =
                                  [id |-> cur.id, attempt |-> cur.attempt, copy |-> c]]
    BY <1>6 DEF PubProduce
  <2>2. cur \in Item
    BY <1>0, <1>6 DEF PubProduce, Publishing
  <2>3. /\ queue' \subseteq Message
        /\ launches' \in [Runners -> [Attempts -> Nat]]
    BY <2>1, <2>2, StoreType
  <2>4. ticket' \in [Publishers -> Message \cup {Nil}]
    BY <2>1, <2>2 DEF TypeOK, Message, Item
  <2>5. TypeOK'
    BY <1>6, <2>3, <2>4 DEF PubProduce, Goto, PublisherPc, TypeOK
  <2>6. BatchInv'
    BY <1>6 DEF PubProduce, Publishing, Goto, BatchInv, TypeOK
  <2> QED  BY <2>5, <2>6
<1>7. CASE PubReject(p)
  <2>1. /\ status' \in [Runners -> RunnerStatus]
        /\ quiet' \subseteq Runners
        /\ succeeded' \subseteq Runners
    BY <1>0, <1>7, WriteType DEF PubReject, RunnerStatus, Life!RunnerStatus, Life!Absent
  <2>2. TypeOK'
    BY <1>7, <2>1, AdvanceType DEF PubReject, TypeOK
  <2>3. BatchInv'
    BY <1>7, AdvanceType DEF PubReject, BatchInv
  <2> QED  BY <2>2, <2>3
<1>8. CASE PubStamp(p)
  <2>1. cur.id \in Runners
    BY <1>0, <1>8 DEF PubStamp
  <2>2. seq' \in [Runners -> Message \cup {Nil}] /\ quiet' \subseteq Runners
    BY <1>8, <2>1 DEF PubStamp, TypeOK
  <2>3. TypeOK'
    BY <1>8, <2>2 DEF PubStamp, Goto, PublisherPc, TypeOK
  <2>4. BatchInv'
    BY <1>8 DEF PubStamp, Goto, BatchInv, TypeOK
  <2> QED  BY <2>3, <2>4
<1>9. CASE PubMark(p)
  <2>1. /\ status' \in [Runners -> RunnerStatus]
        /\ quiet' \subseteq Runners
        /\ succeeded' \subseteq Runners
    BY <1>0, <1>9, WriteType
       DEF PubMark, RunnerStatus, Life!RunnerStatus, Life!Absent, Life!Live, Life!Waiting
  <2>2. TypeOK'
    BY <1>9, <2>1, AdvanceType DEF PubMark, TypeOK
  <2>3. BatchInv'
    BY <1>9, AdvanceType DEF PubMark, BatchInv
  <2> QED  BY <2>2, <2>3
<1>10. CASE PubRetry(p)
  <2>1. Retryable \subseteq Runners
    BY DEF Retryable, TypeOK
  <2>2. /\ status' \in [Runners -> RunnerStatus]
        /\ quiet' \subseteq Runners
        /\ succeeded' \subseteq Runners
    BY <1>10, <2>1, WriteType
       DEF PubRetry, RunnerStatus, Life!RunnerStatus, Life!Absent, Life!Live, Life!Waiting
  <2>3. /\ retry' \in [Runners -> Attempts]
        /\ \A r \in Runners : retry[r] <= retry'[r]
    BY <1>10, BoundAssumption DEF PubRetry, Retryable, TypeOK, Attempts
  <2>4. TypeOK'
    BY <1>10, <2>2, <2>3, BoundAssumption DEF PubRetry, Goto, PublisherPc, TypeOK
  <2>5. BatchInv'
    <3>1. ASSUME NEW q \in Publishers, NEW x \in batch[q]
          PROVE  x.attempt <= retry'[x.id]
      BY <2>3 DEF BatchInv, TypeOK, Item, Attempts
    <3> QED  BY <1>10, <3>1, BoundAssumption DEF PubRetry, Goto, BatchInv, TypeOK
  <2> QED  BY <2>4, <2>5
<1>11. CASE PubProduceFails(p)
  <2>1. cur \in Item
    BY <1>0, <1>11 DEF PubProduceFails, Publishing
  <2>2. /\ queue' \subseteq Message
        /\ launches' \in [Runners -> [Attempts -> Nat]]
    BY <1>11, <2>1, StoreType DEF PubProduceFails, TypeOK
  <2>3. TypeOK'
    BY <1>11, <2>2, BoundAssumption DEF PubProduceFails, Goto, PublisherPc, TypeOK
  <2>4. BatchInv'
    BY <1>11 DEF PubProduceFails, Publishing, Goto, BatchInv, TypeOK
  <2> QED  BY <2>3, <2>4
<1>12. CASE PubAbort(p)
  <2>1. TypeOK'
    BY <1>12, BoundAssumption DEF PubAbort, Goto, PublisherPc, TypeOK
  <2>2. BatchInv'
    BY <1>12, BoundAssumption DEF PubAbort, Goto, BatchInv, TypeOK
  <2> QED  BY <2>1, <2>2
<1>13. CASE PubStatementFails(p)
  <2>1. CASE UNCHANGED <<round, batch, ticket>> /\ pc[p] \notin {"fetch", "retry", "mark", "reject"}
    <3>1. \E l \in {"expire", "fetch", "mark", "produce"} : Goto(p, l)
      BY <1>13, <2>1 DEF PubStatementFails
    <3>2. TypeOK'
      BY <1>13, <2>1, <3>1, BoundAssumption DEF PubStatementFails, Goto, PublisherPc, TypeOK
    <3>3. BatchInv'
      BY <1>13, <2>1 DEF PubStatementFails, Goto, BatchInv, TypeOK
    <3> QED  BY <3>2, <3>3
  <2>2. CASE pc[p] = "fetch"
    <3>1. /\ round' = [round EXCEPT ![p] = round[p] + 1]
          /\ pc' = [pc EXCEPT ![p] = IF round[p] + 1 >= Rounds THEN "retry" ELSE "idle"]
          /\ UNCHANGED <<batch, ticket, retry>>
      BY <1>13, <2>2 DEF PubStatementFails, Goto
    <3>2. (round[p] \in 0..Rounds /\ round[p] < Rounds) \/ pc[p] = "retry"
      BY DEF TypeOK, BatchInv
    <3>3. round' \in [Publishers -> 0..Rounds] /\ pc' \in [Publishers -> PublisherPc]
      BY <2>2, <3>1, <3>2, BoundAssumption DEF TypeOK, PublisherPc
    <3>4. TypeOK'
      BY <1>13, <3>1, <3>3, BoundAssumption DEF PubStatementFails, TypeOK
    <3>5. BatchInv'
      BY <2>2, <3>1, <3>2, BoundAssumption DEF TypeOK, BatchInv
    <3> QED  BY <3>4, <3>5
  <2>3. CASE pc[p] = "retry"
    <3>1. /\ round' = [round EXCEPT ![p] = 0]
          /\ pc' = [pc EXCEPT ![p] = "idle"]
          /\ UNCHANGED <<batch, ticket, retry>>
      BY <1>13, <2>3 DEF PubStatementFails, Goto
    <3>2. (round[p] \in 0..Rounds /\ round[p] < Rounds) \/ pc[p] = "retry"
      BY DEF TypeOK, BatchInv
    <3>3. round' \in [Publishers -> 0..Rounds] /\ pc' \in [Publishers -> PublisherPc]
      BY <2>3, <3>1, <3>2, BoundAssumption DEF TypeOK, PublisherPc
    <3>4. TypeOK'
      BY <1>13, <3>1, <3>3, BoundAssumption DEF PubStatementFails, TypeOK
    <3>5. BatchInv'
      BY <2>3, <3>1, <3>2, BoundAssumption DEF TypeOK, BatchInv
    <3> QED  BY <3>4, <3>5
  <2>4. CASE pc[p] \in {"mark", "reject"} /\ Advance(p)
    <3>1. TypeOK'
      BY <1>13, <2>4, AdvanceType, BoundAssumption DEF PubStatementFails, TypeOK
    <3>2. BatchInv'
      BY <1>13, <2>4, AdvanceType DEF PubStatementFails, BatchInv
    <3> QED  BY <3>1, <3>2
  <2> QED  BY <1>13, <2>1, <2>2, <2>3, <2>4 DEF PubStatementFails
<1> QED  BY <1>1, <1>2, <1>3, <1>4, <1>5, <1>6, <1>7, <1>8, <1>9, <1>10, <1>11, <1>12,
            <1>13 DEF Publish, PubFaults

(* A worker's answer is a result, or nothing. *)
LEMMA AnswerType ==
    ASSUME results \in Seq(Result), NEW m \in Message,
           NEW st \in {"IN_PROGRESS", "SUCCEEDED", "FAILED"}, Answer(m, st)
    PROVE  results' \in Seq(Result)
<1>1. Reported(m, st) \in Result
  BY DEF Reported, Message, Result
<1>2. Append(results, Reported(m, st)) \in Seq(Result)
  BY <1>1
<1> QED  BY <1>2 DEF Answer

(* The rest of the system does not touch the publishers' locals. *)
LEMMA RestType ==
    ASSUME TypeOK,
           \/ \E w \in Workers : Work(w) \/ WorkerLost(w)
           \/ Consume \/ ConsumerFails
           \/ CancelRead \/ CancelStep
           \/ Purge
           \/ \E r \in Runners : Age(r) \/ Rest(r)
    PROVE  /\ TypeOK'
           /\ UNCHANGED <<pubVars, retry, launches>>
           /\ faults <= faults'
           /\ \A r \in Runners : status'[r] = "CREATED" => status[r] = "CREATED"
<1> DEFINE RestGoal == /\ TypeOK'
                       /\ UNCHANGED <<pubVars, retry, launches>>
                       /\ faults <= faults'
                       /\ \A r \in Runners : status'[r] = "CREATED" => status[r] = "CREATED"
<1> USE DEF rowVars, pubVars, workVars, canVars, histVars, Fault
<1>1. ASSUME NEW w \in Workers, WorkerTake(w)
      PROVE  RestGoal
  <2>1. PICK m \in queue : /\ queue' = queue \ {m}
                           /\ wk' = [wk EXCEPT ![w] = m]
                           /\ Answer(m, "IN_PROGRESS")
    BY <1>1 DEF WorkerTake
  <2>2. results' \in Seq(Result) /\ wk' \in [Workers -> Message \cup {Nil}]
    BY <2>1, AnswerType DEF TypeOK
  <2> QED  BY <1>1, <2>1, <2>2 DEF WorkerTake, TypeOK
<1>2. ASSUME NEW w \in Workers, WorkerFinish(w)
      PROVE  RestGoal
  <2>1. wk[w] \in Message
    BY <1>2 DEF WorkerFinish, TypeOK
  <2>2. results' \in Seq(Result) /\ wk' \in [Workers -> Message \cup {Nil}]
    BY <1>2, <2>1, AnswerType DEF WorkerFinish, TypeOK
  <2> QED  BY <1>2, <2>2 DEF WorkerFinish, TypeOK
<1>3. ASSUME NEW w \in Workers, WorkerLost(w)
      PROVE  RestGoal
  BY <1>3, BoundAssumption DEF WorkerLost, TypeOK
<1>4. ASSUME ConsumerTake
      PROVE  RestGoal
  BY <1>4 DEF ConsumerTake, TypeOK
<1>5. ASSUME ConsumerWrite
      PROVE  RestGoal
  <2>1. hand.id \in Runners /\ hand.status \in {"IN_PROGRESS", "SUCCEEDED", "FAILED"}
    BY <1>5 DEF ConsumerWrite, TypeOK, Result
  <2>2. hand.status \in RunnerStatus
    BY <2>1 DEF RunnerStatus, Life!RunnerStatus, Life!Absent, Life!Live
  <2>3. /\ status' \in [Runners -> RunnerStatus]
        /\ quiet' \subseteq Runners /\ succeeded' \subseteq Runners
        /\ \A r \in Runners : status'[r] = "CREATED" => status[r] = "CREATED"
    BY <1>5, <2>1, <2>2, WriteType, WriteCreated DEF ConsumerWrite
  <2> QED  BY <1>5, <2>3 DEF ConsumerWrite, TypeOK
<1>6. ASSUME ConsumerFails
      PROVE  RestGoal
  BY <1>6, BoundAssumption DEF ConsumerFails, TypeOK
<1>7. ASSUME CancelRead
      PROVE  RestGoal
  <2>1. view' \subseteq ViewItem
    BY <1>7 DEF CancelRead, TypeOK, ViewItem
  <2> QED  BY <1>7, <2>1, BoundAssumption DEF CancelRead, TypeOK
<1>8. ASSUME NEW x \in view, CancelDrop(x)
      PROVE  RestGoal
  <2>1. [x EXCEPT !.status = "DROPPED"] \in ViewItem
    BY DEF TypeOK, ViewItem
  <2>2. view' \subseteq ViewItem
    BY <1>8, <2>1, Zenon DEF CancelDrop, TypeOK
  <2>3. queue' \subseteq Message /\ UNCHANGED <<rowVars, pubVars, wk, results, hand,
                                                cancels, faults, histVars>>
    BY <1>8, Zenon DEF CancelDrop, TypeOK
  <2> QED  BY <2>2, <2>3, BoundAssumption DEF TypeOK
<1>9. ASSUME NEW x \in view, CancelDropFails(x)
      PROVE  RestGoal
  BY <1>9 DEF CancelDropFails, TypeOK
<1>10. ASSUME NEW x \in view, CancelWrite(x)
       PROVE  RestGoal
  <2>1. x.id \in Runners /\ "CANCELED" \in RunnerStatus
    BY DEF TypeOK, ViewItem, RunnerStatus, Life!RunnerStatus, Life!Absent
  <2>2. /\ status' \in [Runners -> RunnerStatus]
        /\ quiet' \subseteq Runners /\ succeeded' \subseteq Runners
        /\ \A r \in Runners : status'[r] = "CREATED" => status[r] = "CREATED"
    BY <1>10, <2>1, WriteType, WriteCreated DEF CancelWrite
  <2> QED  BY <1>10, <2>2 DEF CancelWrite, TypeOK
<1>11. ASSUME Purge
       PROVE  RestGoal
  <2>1. "DELETED" \in RunnerStatus
    BY DEF RunnerStatus, Life!RunnerStatus, Life!Absent
  <2>2. /\ status' \in [Runners -> RunnerStatus]
        /\ quiet' \subseteq Runners /\ succeeded' \subseteq Runners
        /\ \A r \in Runners : status'[r] = "CREATED" => status[r] = "CREATED"
    BY <1>11, <2>1, WriteType, WriteCreated DEF Purge
  <2> QED  BY <1>11, <2>2 DEF Purge, TypeOK
<1>12. ASSUME NEW r \in Runners, Age(r) \/ Rest(r)
       PROVE  RestGoal
  BY <1>12 DEF Age, Rest, TypeOK
<1>13. CASE \E w \in Workers : Work(w) \/ WorkerLost(w)
  BY <1>1, <1>2, <1>3, <1>13, Zenon DEF Work
<1>14. CASE Consume \/ ConsumerFails
  BY <1>4, <1>5, <1>6, <1>14, Zenon DEF Consume
<1>15. CASE CancelRead \/ CancelStep
  BY <1>7, <1>8, <1>9, <1>10, <1>15, Zenon DEF CancelStep
<1> QED  BY <1>11, <1>12, <1>13, <1>14, <1>15, Zenon

LEMMA CrashInv ==
    ASSUME TypeOK, BatchInv, Crash
    PROVE  TypeOK' /\ BatchInv'
<1> USE DEF rowVars, pubVars, workVars, canVars, histVars, Fault
<1>1. TypeOK'
  BY BoundAssumption DEF Crash, TypeOK, PublisherPc
<1>2. BatchInv'
  BY BoundAssumption DEF Crash, BatchInv
<1> QED  BY <1>1, <1>2

LEMMA StepInv ==
    ASSUME TypeOK, BatchInv, [Next]_vars
    PROVE  TypeOK' /\ BatchInv'
<1> USE DEF rowVars, pubVars, workVars, canVars, histVars
<1>1. ASSUME \/ \E w \in Workers : Work(w) \/ WorkerLost(w)
             \/ Consume \/ ConsumerFails
             \/ CancelRead \/ CancelStep
             \/ Purge
             \/ \E r \in Runners : Age(r) \/ Rest(r)
      PROVE  TypeOK' /\ BatchInv'
  <2>1. TypeOK' /\ UNCHANGED <<pubVars, retry, launches>>
    BY <1>1, RestType
  <2>2. BatchInv'
    BY <2>1 DEF BatchInv
  <2> QED  BY <2>1, <2>2
<1>2. CASE UNCHANGED vars
  BY <1>2 DEF vars, TypeOK, BatchInv
<1> QED  BY <1>1, <1>2, PublishInv, CrashInv DEF Next

(* The variables keep their types; a publisher that handles a row has one, *)
(* and its counter of rounds stays within the loop's bound.                *)
THEOREM TypeCorrect == Spec => [](TypeOK /\ BatchInv)
<1>1. Init => TypeOK /\ BatchInv
  BY InitInv
<1>2. (TypeOK /\ BatchInv) /\ [Next]_vars => (TypeOK /\ BatchInv)'
  BY StepInv
<1> QED  BY <1>1, <1>2, PTL DEF Spec

-----------------------------------------------------------------------------
(* How often an attempt is stored in the queue. *)

(* What LaunchInv says of one attempt. *)
ItemInv(x) ==
    /\ launches[x.id][x.attempt] <= 1 + faults
    /\ Due(x) => launches[x.id][x.attempt] <= faults
    /\ retry[x.id] < x.attempt => launches[x.id][x.attempt] = 0

LEMMA LaunchInvItems ==
    ASSUME TypeOK, BatchInv
    PROVE  LaunchInv <=> \A x \in Item : ItemInv(x)
<1>1. ASSUME \A x \in Item : ItemInv(x)
      PROVE  LaunchBound
  <2>1. ASSUME NEW r \in Runners, NEW a \in Attempts
        PROVE  launches[r][a] <= 1 + faults
    <3>1. [id |-> r, attempt |-> a] \in Item
      BY DEF Item
    <3> QED  BY <1>1, <3>1 DEF ItemInv
  <2> QED  BY <2>1 DEF LaunchBound
<1>2. ASSUME LaunchInv, NEW x \in Item
      PROVE  ItemInv(x)
  BY <1>2 DEF LaunchInv, LaunchBound, ItemInv, Item
<1>3. ASSUME \A x \in Item : ItemInv(x)
      PROVE  LaunchInv
  BY <1>1, <1>3 DEF LaunchInv, ItemInv
<1> QED  BY <1>2, <1>3

LEMMA CurrentSame ==
    ASSUME NEW p, batch'[p] = batch[p]
    PROVE  Current(p)' = Current(p)
BY DEF Current

(* A step that stores nothing keeps what is said of an attempt that it     *)
(* does not make due; a fault may make any attempt due.                    *)
LEMMA NothingStored ==
    ASSUME TypeOK, TypeOK', NEW x \in Item, ItemInv(x),
           launches' = launches, retry' = retry, faults <= faults',
           Due(x)' => Due(x) \/ faults < faults'
    PROVE  ItemInv(x)'
<1>1. /\ launches[x.id][x.attempt] \in Nat /\ faults \in Nat /\ faults' \in Nat
      /\ retry[x.id] \in Nat /\ x.attempt \in Nat
  BY BoundAssumption DEF TypeOK, Item, Attempts
<1> QED  BY <1>1 DEF ItemInv

(* The publisher that puts the row behind it has written its status, or    *)
(* the row was skipped.                                                    *)
LEMMA AdvanceDue ==
    ASSUME TypeOK, NEW p \in Publishers, NEW x \in Item, Advance(p),
           \A r \in Runners : status'[r] = "CREATED" => status[r] = "CREATED",
           retry' = retry,
           \/ pc[p] = "publish"
           \/ Current(p).id \in Runners /\ status'[Current(p).id] # "CREATED",
           Due(x)'
    PROVE  Due(x)
<1> DEFINE q == Trigger(x.id)
<1>0. q \in Publishers /\ q' = q /\ x.id \in Runners
  BY DEF Trigger, Publishers, Item
<1>1. CASE q # p
  <2>1. pc'[q] = pc[q] /\ batch'[q] = batch[q]
    BY <1>0, <1>1 DEF Advance, Goto, TypeOK
  <2>2. Sent(x)' <=> Sent(x)
    BY <2>1, CurrentSame DEF Sent, Trigger
  <2> QED  BY <1>0, <2>1, <2>2 DEF Due, Trigger
<1>2. CASE q = p
  <2>1. batch'[p] = batch[p] \ {Current(p)}
    BY DEF Advance, TypeOK
  <2>2. \/ x \in batch[p] /\ x # Current(p)
        \/ status'[x.id] = "CREATED" /\ retry[x.id] = x.attempt
    BY <1>2, <2>1 DEF Due, Trigger
  <2>3. ~Sent(x)
    BY <1>2, <2>2 DEF Sent, Trigger
  <2> QED  BY <1>0, <1>2, <2>2, <2>3 DEF Due, Trigger
<1> QED  BY <1>1, <1>2

LEMMA PublishItems ==
    ASSUME TypeOK, BatchInv, TypeOK', NEW p \in Publishers, Publish(p) \/ PubFaults(p),
           NEW x \in Item, ItemInv(x)
    PROVE  ItemInv(x)'
<1> USE DEF rowVars, pubVars, workVars, canVars, histVars
<1> DEFINE cur == Current(p)
           q == Trigger(x.id)
<1>0. /\ q \in Publishers /\ x.id \in Runners /\ x.attempt \in Nat
      /\ launches[x.id][x.attempt] \in Nat /\ faults \in Nat /\ retry[x.id] \in Nat
  <2>1. q \in Publishers
    BY DEF Trigger, Publishers
  <2>2. x.id \in Runners /\ x.attempt \in Attempts
    BY DEF Item
  <2>3. launches[x.id] \in [Attempts -> Nat] /\ retry[x.id] \in Attempts
    BY <2>2 DEF TypeOK
  <2>4. launches[x.id][x.attempt] \in Nat
    BY <2>2, <2>3
  <2>5. faults \in Nat
    BY BoundAssumption DEF TypeOK
  <2> QED  BY <2>1, <2>2, <2>3, <2>4, <2>5, BoundAssumption DEF Attempts
<1>cur. ASSUME pc[p] \in {"publish", "produce", "stamp", "mark", "reject"}
       PROVE  /\ cur \in batch[p] /\ cur \in Item /\ cur.id \in Runners
              /\ Trigger(cur.id) = p /\ cur.attempt <= retry[cur.id]
  <2>1. cur \in batch[p]
    BY <1>cur, CurrentInBatch DEF BatchInv
  <2> QED  BY <2>1 DEF TypeOK, Item, BatchInv
<1>1. ASSUME launches' = launches, retry' = retry, faults' = faults, batch' = batch,
             NEW l \in PublisherPc, Goto(p, l),
             pc[p] \in {"stamp", "mark", "reject"} <=> l \in {"stamp", "mark", "reject"},
             \A r \in Runners : status'[r] = "CREATED" => status[r] = "CREATED"
      PROVE  ItemInv(x)'
  <2>1. Sent(x)' <=> Sent(x)
    BY <1>0, <1>1, CurrentSame DEF Sent, Trigger, Goto, TypeOK
  <2>2. Due(x)' => Due(x)
    BY <1>0, <1>1, <2>1 DEF Due, Trigger
  <2> QED  BY <1>1, <2>2, NothingStored, <1>0
<1>2. ASSUME PubExpireQueued(p) \/ PubExpireRunning(p)
      PROVE  ItemInv(x)'
  <2>1. \A r \in Runners : status'[r] = "CREATED" => status[r] = "CREATED"
    BY <1>2, WriteCreated DEF PubExpireQueued, PubExpireRunning
  <2>2. CASE PubExpireQueued(p)
    BY <1>1, <2>1, <2>2 DEF PubExpireQueued, PublisherPc
  <2>3. CASE PubExpireRunning(p)
    BY <1>1, <2>1, <2>3 DEF PubExpireRunning, PublisherPc
  <2> QED  BY <1>2, <2>2, <2>3
<1>3. ASSUME PubFetch(p)
      PROVE  ItemInv(x)'
  <2>1. CASE q = p
    <3>1. x \in Fetched(p) => status[x.id] = "CREATED" /\ retry[x.id] = x.attempt
      BY FetchedItems
    <3>2. ~Sent(x)
      BY <1>3, <2>1 DEF PubFetch, Sent, Trigger
    <3>3. batch'[q] = Fetched(p)
      BY <1>3, <2>1 DEF PubFetch, TypeOK
    <3>4. Due(x)' => Due(x)
      BY <1>3, <3>1, <3>2, <3>3 DEF PubFetch, Due, Trigger
    <3> QED  BY <1>3, <3>4, NothingStored, <1>0 DEF PubFetch
  <2>2. CASE q # p
    <3>1. pc'[q] = pc[q] /\ batch'[q] = batch[q]
      BY <1>0, <1>3, <2>2 DEF PubFetch, Goto, TypeOK
    <3>2. Sent(x)' <=> Sent(x)
      BY <3>1, CurrentSame DEF Sent, Trigger
    <3>3. Due(x)' => Due(x)
      BY <1>3, <3>1, <3>2 DEF PubFetch, Due, Trigger
    <3> QED  BY <1>3, <3>3, NothingStored, <1>0 DEF PubFetch
  <2> QED  BY <2>1, <2>2
<1>4. ASSUME PubSkip(p)
      PROVE  ItemInv(x)'
  <2>1. Due(x)' => Due(x)
    BY <1>4, AdvanceDue DEF PubSkip
  <2> QED  BY <1>4, <2>1, NothingStored, <1>0 DEF PubSkip
<1>5. ASSUME PubDetached(p)
      PROVE  ItemInv(x)'
  <2>1. \A r \in Runners : status'[r] = "CREATED" => status[r] = "CREATED"
    BY <1>5, WriteCreated DEF PubDetached
  <2> QED  BY <1>1, <1>5, <2>1 DEF PubDetached, PublisherPc
<1>6. ASSUME pc[p] \in {"publish", "produce"}, Goto(p, "stamp") \/ Goto(p, "reject"),
             NEW c \in Copies, Store(cur, c),
             UNCHANGED <<rowVars, batch, faults>>
      PROVE  ItemInv(x)'
  <2>1. cur \in Item /\ cur \in batch[p] /\ Trigger(cur.id) = p /\ cur.attempt <= retry[cur.id]
    BY <1>6, <1>cur
  <2>2. \/ launches'[x.id][x.attempt] = launches[x.id][x.attempt]
        \/ x = cur /\ launches'[x.id][x.attempt] = launches[x.id][x.attempt] + 1
    BY <1>6, <2>1, StoreType
  <2>3. CASE x = cur
    <3>1. Due(x)
      BY <1>6, <2>1, <2>3 DEF Due, Sent, Trigger
    <3>2. Sent(x)'
      <4>1. Current(p)' = cur /\ pc'[p] \in {"stamp", "reject"}
        BY <1>6, CurrentSame DEF Goto, TypeOK
      <4> QED  BY <2>1, <2>3, <4>1 DEF Sent, Trigger
    <3>3. ~(retry[x.id] < x.attempt) /\ retry' = retry
      BY <1>0, <1>6, <2>1, <2>3
    <3> QED  BY <1>0, <1>6, <2>2, <3>1, <3>2, <3>3 DEF ItemInv, Due
  <2>4. CASE x # cur
    <3>1. q # p => pc'[q] = pc[q]
      BY <1>0, <1>6 DEF Goto, TypeOK
    <3>2. ~Sent(x)' => ~Sent(x)
      <4>1. CASE q = p
        BY <1>6, <2>4, <4>1 DEF Sent, Trigger
      <4>2. CASE q # p
        BY <1>6, <3>1, <4>2, CurrentSame DEF Sent, Trigger
      <4> QED  BY <4>1, <4>2
    <3>3. Due(x)' => Due(x)
      BY <1>6, <3>2 DEF Due, Trigger
    <3> QED  BY <1>0, <1>6, <2>2, <2>4, <3>3 DEF ItemInv
  <2> QED  BY <2>3, <2>4
<1>7. ASSUME PubProduce(p)
      PROVE  ItemInv(x)'
  <2>1. pc[p] \in {"publish", "produce"}
    BY <1>7 DEF PubProduce, Publishing
  <2> QED  BY <1>6, <1>7, <2>1 DEF PubProduce
<1>8. ASSUME PubReject(p) \/ PubMark(p)
      PROVE  ItemInv(x)'
  <2>1. cur.id \in Runners
    BY <1>cur, <1>8 DEF PubReject, PubMark
  <2>2. PICK st \in {"FAILED", "QUEUED"} : Write({cur.id}, st)
    BY <1>8 DEF PubReject, PubMark
  <2>3. /\ \A r \in Runners : status'[r] = "CREATED" => status[r] = "CREATED"
        /\ status'[cur.id] # "CREATED"
    BY <2>1, <2>2 DEF Write, TypeOK
  <2>4. Advance(p) /\ retry' = retry /\ launches' = launches /\ faults' = faults
    BY <1>8 DEF PubReject, PubMark
  <2>5. Due(x)' => Due(x)
    BY <2>1, <2>3, <2>4, AdvanceDue
  <2> QED  BY <2>4, <2>5, NothingStored, <1>0
<1>9. ASSUME PubStamp(p)
      PROVE  ItemInv(x)'
  BY <1>1, <1>9 DEF PubStamp, PublisherPc
<1>10. ASSUME PubRetry(p)
       PROVE  ItemInv(x)'
  <2>1. /\ launches' = launches /\ faults' = faults /\ batch' = batch
        /\ retry'[x.id] = IF x.id \in Retryable THEN retry[x.id] + 1 ELSE retry[x.id]
    BY <1>0, <1>10 DEF PubRetry
  <2>2. Sent(x)' <=> Sent(x)
    BY <1>0, <1>10, <2>1, CurrentSame DEF PubRetry, Sent, Trigger, Goto, TypeOK
  <2>3. CASE x.id \in Retryable
    <3>1. Due(x)' => Due(x) \/ retry[x.id] < x.attempt
      BY <1>0, <2>1, <2>2, <2>3 DEF Due, Trigger
    <3>2. retry'[x.id] < x.attempt => retry[x.id] < x.attempt
      BY <1>0, <2>1, <2>3
    <3> QED  BY <1>0, <2>1, <3>1, <3>2 DEF ItemInv
  <2>4. CASE x.id \notin Retryable
    <3>1. status'[x.id] = status[x.id] /\ retry'[x.id] = retry[x.id]
      BY <1>0, <1>10, <2>1, <2>4 DEF PubRetry, Write
    <3>2. Due(x)' => Due(x)
      BY <2>1, <2>2, <3>1 DEF Due, Trigger
    <3> QED  BY <1>0, <2>1, <3>1, <3>2 DEF ItemInv
  <2> QED  BY <2>3, <2>4
<1>11. ASSUME faults' = faults + 1, retry' = retry, launches' = launches
       PROVE  ItemInv(x)'
  BY <1>0, <1>11, NothingStored
<1>12. ASSUME PubProduceFails(p)
       PROVE  ItemInv(x)'
  <2>1. CASE UNCHANGED <<queue, launches>>
    BY <1>11, <1>12, <2>1 DEF PubProduceFails, Fault
  <2>2. ASSUME NEW c \in Copies, Store(cur, c)
        PROVE  ItemInv(x)'
    <3>1. pc[p] \in {"publish", "produce"}
      BY <1>12 DEF PubProduceFails, Publishing
    <3>2. cur \in Item /\ Trigger(cur.id) = p /\ cur \in batch[p] /\ cur.attempt <= retry[cur.id]
      BY <1>cur, <3>1
    <3>3. \/ launches'[x.id][x.attempt] = launches[x.id][x.attempt]
          \/ x = cur /\ launches'[x.id][x.attempt] = launches[x.id][x.attempt] + 1
      BY <2>2, <3>2, StoreType
    <3>4. x = cur => Due(x) /\ ~(retry[x.id] < x.attempt)
      BY <1>0, <3>1, <3>2 DEF Due, Sent, Trigger
    <3>5. faults' = faults + 1 /\ retry' = retry
      BY <1>12 DEF PubProduceFails, Fault
    <3> QED  BY <1>0, <3>3, <3>4, <3>5 DEF ItemInv
  <2> QED  BY <1>12, <2>1, <2>2 DEF PubProduceFails
<1>13. ASSUME PubAbort(p) \/ PubStatementFails(p)
       PROVE  ItemInv(x)'
  BY <1>11, <1>13 DEF PubAbort, PubStatementFails, Fault
<1> QED  BY <1>2, <1>3, <1>4, <1>5, <1>7, <1>8, <1>9, <1>10, <1>12, <1>13, Zenon
         DEF Publish, PubFaults

LEMMA StepItems ==
    ASSUME TypeOK, BatchInv, [Next]_vars, NEW x \in Item, ItemInv(x)
    PROVE  ItemInv(x)'
<1> USE DEF rowVars, pubVars, workVars, canVars, histVars
<1>0. TypeOK'
  BY StepInv
<1>1. ASSUME NEW p \in Publishers, Publish(p) \/ PubFaults(p)
      PROVE  ItemInv(x)'
  BY <1>0, <1>1, PublishItems
<1>2. ASSUME \/ \E w \in Workers : Work(w) \/ WorkerLost(w)
             \/ Consume \/ ConsumerFails
             \/ CancelRead \/ CancelStep
             \/ Purge
             \/ \E r \in Runners : Age(r) \/ Rest(r)
      PROVE  ItemInv(x)'
  <2>1. /\ UNCHANGED <<pubVars, retry, launches>> /\ faults <= faults'
        /\ \A r \in Runners : status'[r] = "CREATED" => status[r] = "CREATED"
    BY <1>2, RestType
  <2>2. Sent(x)' <=> Sent(x)
    BY <2>1, CurrentSame DEF Sent, Trigger
  <2>3. x.id \in Runners
    BY DEF Item
  <2>4. Due(x)' => Due(x)
    BY <2>1, <2>2, <2>3 DEF Due, Trigger
  <2> QED  BY <1>0, <2>1, <2>4, NothingStored
<1>3. CASE Crash
  <2>1. /\ launches' = launches /\ retry' = retry
        /\ faults \in Nat /\ faults' = faults + 1
    BY <1>3, BoundAssumption DEF Crash, Fault, TypeOK
  <2> QED  BY <1>0, <2>1, NothingStored
<1>4. CASE UNCHANGED vars
  <2>1. UNCHANGED <<rowVars, pubVars, launches>> /\ faults' = faults
    BY <1>4 DEF vars
  <2>2. Sent(x)' <=> Sent(x)
    BY <2>1, CurrentSame DEF Sent, Trigger
  <2>3. Due(x)' => Due(x)
    BY <2>1, <2>2 DEF Due, Trigger
  <2> QED  BY <2>1, <2>3 DEF ItemInv
<1> QED  BY <1>1, <1>2, <1>3, <1>4, Zenon DEF Next

(* Attempts are launched as LaunchInv counts them: one that is due for     *)
(* each fault at most, one that is later than its row not at all.          *)
THEOREM LaunchesCounted == Spec => []LaunchInv
<1> DEFINE IInv == TypeOK /\ BatchInv /\ LaunchInv
<1>1. Init => IInv
  <2> SUFFICES ASSUME Init PROVE IInv
    OBVIOUS
  <2>1. TypeOK /\ BatchInv
    BY InitInv
  <2>2. ASSUME NEW x \in Item
        PROVE  ItemInv(x)
    BY DEF Init, Item, ItemInv
  <2> QED  BY <2>1, <2>2, LaunchInvItems
<1>2. IInv /\ [Next]_vars => IInv'
  <2> SUFFICES ASSUME IInv, [Next]_vars PROVE IInv'
    OBVIOUS
  <2>1. TypeOK' /\ BatchInv'
    BY StepInv
  <2>2. \A x \in Item : ItemInv(x)
    BY LaunchInvItems
  <2>3. ASSUME NEW x \in Item
        PROVE  ItemInv(x)'
    BY <2>2, StepItems
  <2>4. ASSUME NEW r \in Runners, NEW a \in Attempts
        PROVE  launches'[r][a] <= 1 + faults'
    <3>1. [id |-> r, attempt |-> a] \in Item
      BY DEF Item
    <3> QED  BY <2>3, <3>1 DEF ItemInv
  <2>5. LaunchInv'
    BY <2>1, <2>3, <2>4 DEF LaunchInv, LaunchBound, ItemInv
  <2> QED  BY <2>1, <2>5
<1>3. IInv => LaunchInv
  OBVIOUS
<1> QED  BY <1>1, <1>2, <1>3, PTL DEF Spec

(* The publisher stores each attempt of a runner once, and once more at    *)
(* most for each fault.                                                    *)
THEOREM LaunchBounded == Spec => []LaunchBound
<1>1. LaunchInv => LaunchBound
  BY DEF LaunchInv
<1> QED  BY <1>1, LaunchesCounted, PTL

-----------------------------------------------------------------------------
(* The rows take only the steps of RunnerLifecycle. *)

RowMoves(r) == \/ Life!RowStep(r)
               \/ status'[r] = status[r] /\ retry'[r] = retry[r]

LEMMA MarkMoves ==
    ASSUME TypeOK, NEW S, NEW r \in Runners,
           NEW st \in {"QUEUED", "IN_PROGRESS", "SUCCEEDED", "FAILED", "CANCELED"},
           Write(S, st), retry' = retry
    PROVE  RowMoves(r)
<1>1. status[r] \in RunnerStatus
  BY DEF TypeOK
<1> QED  BY <1>1 DEF Write, RowMoves, Life!RowStep, Life!Mark, Life!Absent, RunnerStatus

LEMMA ExpireMoves ==
    ASSUME TypeOK, NEW S, Write(S, "TIMEOUT"), retry' = retry,
           \A r \in S : status[r] \in {"CREATED", "QUEUED", "IN_PROGRESS"},
           NEW r \in Runners
    PROVE  RowMoves(r)
BY DEF Write, RowMoves, Life!RowStep, Life!Expire, Life!Live, Life!Waiting

LEMMA StepMoves ==
    ASSUME TypeOK, BatchInv, [Next]_vars, NEW r \in Runners
    PROVE  RowMoves(r)
<1> USE DEF rowVars, pubVars, workVars, canVars, histVars
<1>1. ASSUME UNCHANGED <<status, retry>>
      PROVE  RowMoves(r)
  BY <1>1 DEF RowMoves
<1>2. ASSUME NEW p \in Publishers, Publish(p)
      PROVE  RowMoves(r)
  <2>1. CASE PubExpireQueued(p) \/ PubExpireRunning(p)
    BY <2>1, ExpireMoves DEF PubExpireQueued, PubExpireRunning
  <2>2. CASE PubFetch(p) \/ PubSkip(p) \/ PubProduce(p) \/ PubStamp(p)
    BY <1>1, <2>2 DEF PubFetch, PubSkip, PubProduce, PubStamp
  <2>3. CASE PubDetached(p) \/ PubReject(p) \/ PubMark(p)
    BY <2>3, MarkMoves DEF PubDetached, PubReject, PubMark
  <2>4. CASE PubRetry(p)
    <3>1. CASE r \in Retryable
      BY <2>4, <3>1 DEF PubRetry, Retryable, Write, RowMoves, Life!RowStep, Life!Requeue
    <3>2. CASE r \notin Retryable
      BY <2>4, <3>2 DEF PubRetry, Write, RowMoves
    <3> QED  BY <3>1, <3>2
  <2> QED  BY <1>2, <2>1, <2>2, <2>3, <2>4 DEF Publish
<1>3. ASSUME NEW p \in Publishers, PubFaults(p)
      PROVE  RowMoves(r)
  BY <1>1, <1>3 DEF PubFaults, PubProduceFails, PubAbort, PubStatementFails
<1>4. ASSUME NEW w \in Workers, Work(w) \/ WorkerLost(w)
      PROVE  RowMoves(r)
  BY <1>1, <1>4 DEF Work, WorkerTake, WorkerFinish, WorkerLost
<1>5. CASE ConsumerTake \/ ConsumerFails
  BY <1>1, <1>5 DEF ConsumerTake, ConsumerFails
<1>6. CASE ConsumerWrite
  <2>1. hand.status \in {"IN_PROGRESS", "SUCCEEDED", "FAILED"}
    BY <1>6 DEF ConsumerWrite, TypeOK, Result
  <2> QED  BY <1>6, <2>1, MarkMoves DEF ConsumerWrite
<1>7. CASE CancelRead
  BY <1>1, <1>7 DEF CancelRead
<1>8. ASSUME NEW x \in view, CancelDrop(x) \/ CancelDropFails(x)
      PROVE  RowMoves(r)
  BY <1>1, <1>8 DEF CancelDrop, CancelDropFails
<1>9. ASSUME NEW x \in view, CancelWrite(x)
      PROVE  RowMoves(r)
  BY <1>9, MarkMoves DEF CancelWrite
<1>10. CASE Purge
  BY <1>10 DEF Purge, Write, RowMoves, TypeOK, RunnerStatus, Life!RunnerStatus,
               Life!RowStep, Life!Delete, Life!Absent
<1>11. CASE Crash
  BY <1>1, <1>11 DEF Crash
<1>12. ASSUME NEW q \in Runners, Age(q) \/ Rest(q)
       PROVE  RowMoves(r)
  BY <1>1, <1>12 DEF Age, Rest
<1>13. CASE UNCHANGED vars
  BY <1>1, <1>13 DEF vars
<1> QED  BY <1>2, <1>3, <1>4, <1>5, <1>6, <1>7, <1>8, <1>9, <1>10, <1>11, <1>12, <1>13, Zenon
         DEF Next, Consume, CancelStep

(* Whatever publishers, workers, consumer and requests do to them, the     *)
(* rows take only the steps that RunnerLifecycle allows.                   *)
THEOREM LifecycleImplemented == Spec => ImplementsLifecycle
<1>1. Init => Life!LifecycleInit
  BY DEF Init, Life!LifecycleInit
<1>2. ASSUME TypeOK, BatchInv, [Next]_vars
      PROVE  [Life!LifecycleNext]_(Life!rvars)
  <2>1. TypeOK'
    BY <1>2, StepInv
  <2>2. /\ status' \in [Runners -> Life!RunnerStatus]
        /\ retry' \in [Runners -> Nat]
    BY <2>1, BoundAssumption DEF TypeOK, RunnerStatus, Attempts
  <2>3. \A r \in Runners : RowMoves(r)
    BY <1>2, StepMoves
  <2> QED  BY <2>2, <2>3 DEF Life!LifecycleNext, RowMoves
<1> QED  BY <1>1, <1>2, TypeCorrect, PTL DEF Spec, ImplementsLifecycle, Life!LifecycleSpec
-----------------------------------------------------------------------------
(* One attempt at a time. *)

(* Nobody works at the row, and no answer about it is under way. *)
AtRest(r) == Pending(r) = {} /\ Working(r) = {}
Silent(r) == /\ \A i \in 1..Len(results) : results[i].id # r
             /\ hand = Nil \/ hand.id # r
Clean(r)  == AtRest(r) /\ Silent(r)

(* The publisher has just sent the row, or has it still to send. *)
JustSent(r) == pc[Trigger(r)] \in {"stamp", "mark"} /\ Current(Trigger(r)).id = r
Unsent(r)   == ~JustSent(r) /\ \E x \in batch[Trigger(r)] : x.id = r

(* The last word on an attempt is the last to arrive: then nobody works at *)
(* the row, and nothing that was said of it is still under way.            *)
LastWord(r) ==
    /\ \A i, j \in 1..Len(results) : results[i].id = r /\ results[j].id = r /\ i < j =>
                                         results[i].status = "IN_PROGRESS"
    /\ \A i \in 1..Len(results) : results[i].id = r /\ results[i].status # "IN_PROGRESS" => AtRest(r)
    /\ hand # Nil /\ hand.id = r /\ hand.status # "IN_PROGRESS" =>
          AtRest(r) /\ \A i \in 1..Len(results) : results[i].id # r

(* There is one attempt of the row at most in the queue or at a worker.    *)
OneAttempt(r) ==
    /\ \A m, n \in Pending(r) : m = n
    /\ \A v, w \in Working(r) : v = w
    /\ Pending(r) = {} \/ Working(r) = {}

(* A row is sent only when it is clean: it is so while it is CREATED,      *)
(* FAILED or still to be sent, and once it has succeeded.                  *)
RowInv(r) ==
    /\ Unsent(r) => status[r] \in {"CREATED", "TIMEOUT", "CANCELED", "DELETED"}
    /\ Unsent(r) \/ status[r] = "FAILED" \/ (status[r] = "CREATED" /\ ~JustSent(r)) => Clean(r)
    /\ r \in succeeded => Clean(r) /\ ~Unsent(r) /\ status[r] \notin {"CREATED", "FAILED"}
    /\ status[r] = "SUCCEEDED" => r \in succeeded

FlightInv(r) == OneAttempt(r) /\ LastWord(r) /\ RowInv(r)

NoRejects == \A p \in Publishers : pc[p] # "reject"

(* As long as nothing fails. *)
AllFlights == faults = 0 => NoRejects /\ \A r \in Runners \ Detached : FlightInv(r)

(* A step that sends nothing and answers nothing, and that writes no more  *)
(* than an end which is not a worker's.                                    *)
LEMMA FlightKept ==
    ASSUME NEW r \in Runners, FlightInv(r),
           \/ status'[r] = status[r]
           \/ status'[r] \in {"TIMEOUT", "CANCELED", "DELETED"},
           r \in succeeded' <=> r \in succeeded,
           JustSent(r)' <=> JustSent(r), Unsent(r)' => Unsent(r),
           queue' \subseteq queue, wk' = wk, results' = results, hand' = hand
    PROVE  FlightInv(r)'
<1>1. Pending(r)' \subseteq Pending(r) /\ Working(r)' = Working(r) /\ (AtRest(r) => AtRest(r)')
  BY DEF Pending, Working, AtRest
<1>2. Silent(r)' <=> Silent(r)
  BY DEF Silent
<1>3. OneAttempt(r)' /\ LastWord(r)'
  BY <1>1 DEF FlightInv, OneAttempt, LastWord
<1>4. RowInv(r)'
  BY <1>1, <1>2 DEF FlightInv, RowInv, Clean
<1> QED  BY <1>3, <1>4 DEF FlightInv

(* Another row of the same publisher, or a row of the other one, is sent   *)
(* or not as before.                                                       *)
LEMMA SentSame ==
    ASSUME NEW r, UNCHANGED <<pc, batch>>
    PROVE  (JustSent(r)' <=> JustSent(r)) /\ (Unsent(r)' <=> Unsent(r))
BY CurrentSame DEF JustSent, Unsent

LEMMA SentOther ==
    ASSUME TypeOK, NEW r \in Runners, NEW p \in Publishers, Trigger(r) # p,
           \A q \in Publishers : q # p => pc'[q] = pc[q] /\ batch'[q] = batch[q]
    PROVE  (JustSent(r)' <=> JustSent(r)) /\ (Unsent(r)' <=> Unsent(r))
<1>1. Trigger(r) \in Publishers
  BY DEF Trigger, Publishers
<1>2. Current(Trigger(r))' = Current(Trigger(r)) /\ pc'[Trigger(r)] = pc[Trigger(r)]
      /\ batch'[Trigger(r)] = batch[Trigger(r)]
  BY <1>1, CurrentSame
<1>3. Trigger(r)' = Trigger(r)
  BY DEF Trigger
<1> QED  BY <1>2, <1>3 DEF JustSent, Unsent

(* Going from one row to the next. *)
LEMMA AdvanceFlight ==
    ASSUME TypeOK, BatchInv, NEW p \in Publishers, NEW r \in Runners,
           pc[p] \in {"publish", "mark"}, Advance(p), r # Current(p).id
    PROVE  (JustSent(r)' <=> JustSent(r)) /\ (Unsent(r)' <=> Unsent(r))
<1>1. /\ batch' = [batch EXCEPT ![p] = batch[p] \ {Current(p)}]
      /\ \A q \in Publishers : q # p => pc'[q] = pc[q] /\ batch'[q] = batch[q]
      /\ pc'[p] \in {"publish", "retry", "idle"}
  BY DEF Advance, Goto, TypeOK
<1>2. CASE Trigger(r) = p
  <2>1. ~JustSent(r) /\ ~JustSent(r)'
    BY <1>1, <1>2 DEF JustSent, Trigger
  <2>2. (\E x \in batch'[p] : x.id = r) <=> (\E x \in batch[p] : x.id = r)
    BY <1>1 DEF TypeOK
  <2> QED  BY <1>2, <2>1, <2>2 DEF Unsent, Trigger
<1>3. CASE Trigger(r) # p
  BY <1>1, <1>3, SentOther
<1> QED  BY <1>2, <1>3

LEMMA AdvanceGone ==
    ASSUME TypeOK, BatchInv, NEW p \in Publishers, NEW r,
           pc[p] \in {"publish", "mark"}, Advance(p), r = Current(p).id
    PROVE  ~JustSent(r)' /\ ~Unsent(r)'
<1>1. Current(p) \in batch[p] /\ Trigger(r) = p
  BY CurrentInBatch DEF BatchInv
<1>2. pc'[p] \in {"publish", "retry", "idle"} /\ batch'[p] = batch[p] \ {Current(p)}
  BY DEF Advance, Goto, TypeOK
<1>3. \A x \in batch'[p] : x.id # r
  BY <1>1, <1>2 DEF BatchInv
<1> QED  BY <1>1, <1>2, <1>3 DEF JustSent, Unsent, Trigger

(* The publisher fetches rows that are CREATED, and therefore clean. *)
LEMMA FetchFlight ==
    ASSUME TypeOK, BatchInv, NEW p \in Publishers, PubFetch(p), NEW r \in Runners, FlightInv(r)
    PROVE  FlightInv(r)'
<1>0. UNCHANGED <<rowVars, workVars, histVars>>
  BY DEF PubFetch
<1>1. CASE Trigger(r) # p
  <2>1. \A q \in Publishers : q # p => pc'[q] = pc[q] /\ batch'[q] = batch[q]
    BY DEF PubFetch, Goto, TypeOK
  <2> QED  BY <1>0, <1>1, <2>1, SentOther, FlightKept DEF rowVars, workVars, histVars
<1>2. CASE Trigger(r) = p
  <2>1. pc[p] = "fetch" /\ pc'[p] \in {"publish", "retry"} /\ batch'[p] = Fetched(p)
    BY DEF PubFetch, Goto, TypeOK
  <2>2. ~JustSent(r) /\ ~JustSent(r)'
    BY <1>2, <2>1 DEF JustSent, Trigger
  <2>3. Unsent(r)' => status[r] = "CREATED" /\ r \notin succeeded /\ Clean(r)
    <3>1. \A x \in Fetched(p) : status[x.id] = "CREATED"
      BY FetchedItems
    <3> QED  BY <1>2, <2>1, <2>2, <3>1 DEF Unsent, Trigger, FlightInv, RowInv
  <2>4. /\ OneAttempt(r)' /\ LastWord(r)' /\ (Clean(r) <=> Clean(r)')
        /\ status' = status /\ succeeded' = succeeded
    BY <1>0 DEF rowVars, workVars, histVars, FlightInv, OneAttempt, LastWord, Clean, AtRest,
                Silent, Pending, Working
  <2> QED  BY <2>2, <2>3, <2>4 DEF FlightInv, RowInv
<1> QED  BY <1>1, <1>2

(* A row that is sent was clean before. *)
LEMMA ProduceFlight ==
    ASSUME TypeOK, BatchInv, NEW p \in Publishers, PubProduce(p), NEW r \in Runners, FlightInv(r)
    PROVE  FlightInv(r)'
<1> DEFINE cur == Current(p)
<1>1. /\ pc[p] \in {"publish", "produce"} /\ pc'[p] = "stamp" /\ batch' = batch
      /\ \A q \in Publishers : q # p => pc'[q] = pc[q]
      /\ UNCHANGED <<rowVars, wk, results, hand, succeeded>>
  BY DEF PubProduce, Publishing, Goto, TypeOK
<1>2. cur \in batch[p] /\ Trigger(cur.id) = p
  BY <1>1, CurrentInBatch DEF BatchInv
<1>3. PICK n : queue' = queue \/ queue' = queue \cup {[id |-> cur.id, attempt |-> cur.attempt, copy |-> n]}
  BY DEF PubProduce, Store
<1>4. CASE r # cur.id
  <2>1. (JustSent(r)' <=> JustSent(r)) /\ (Unsent(r)' <=> Unsent(r))
    <3>1. CASE Trigger(r) = p
      <4>1. ~JustSent(r) /\ ~JustSent(r)'
        BY <1>1, <1>4, <3>1, CurrentSame DEF JustSent, Trigger
      <4> QED  BY <1>1, <4>1 DEF Unsent, Trigger
    <3>2. CASE Trigger(r) # p
      BY <1>1, <3>2, SentOther
    <3> QED  BY <3>1, <3>2
  <2>2. Pending(r)' = Pending(r) /\ Working(r)' = Working(r)
    BY <1>1, <1>3, <1>4 DEF Pending, Working
  <2>3. OneAttempt(r)' /\ LastWord(r)' /\ (Clean(r)' <=> Clean(r))
    BY <1>1, <2>2 DEF FlightInv, OneAttempt, LastWord, Clean, AtRest, Silent
  <2> QED  BY <1>1, <2>1, <2>3 DEF FlightInv, RowInv, rowVars
<1>5. CASE r = cur.id
  <2>1. Unsent(r)
    BY <1>1, <1>2, <1>5 DEF JustSent, Unsent
  <2>2. Clean(r) /\ r \notin succeeded /\ status[r] \notin {"FAILED", "SUCCEEDED"}
    BY <2>1 DEF FlightInv, RowInv
  <2>3. JustSent(r)' /\ ~Unsent(r)'
    BY <1>1, <1>2, <1>5, CurrentSame DEF JustSent, Unsent, Trigger
  <2>4. Pending(r) = {} /\ Working(r) = {} /\ Silent(r)
    BY <2>2 DEF Clean, AtRest
  <2>5. Working(r)' = {} /\ \A m, n_1 \in Pending(r)' : m = n_1
    BY <1>1, <1>3, <2>4 DEF Pending, Working
  <2>6. OneAttempt(r)' /\ LastWord(r)'
    BY <1>1, <2>4, <2>5 DEF OneAttempt, LastWord, Silent
  <2> QED  BY <1>1, <2>2, <2>3, <2>6 DEF FlightInv, RowInv, rowVars
<1> QED  BY <1>4, <1>5

(* QUEUED, late as it may be, is neither CREATED nor FAILED. *)
LEMMA MarkFlight ==
    ASSUME TypeOK, BatchInv, NEW p \in Publishers, PubMark(p), NEW r \in Runners, FlightInv(r)
    PROVE  FlightInv(r)'
<1>1. /\ pc[p] = "mark" /\ Advance(p) /\ Write({Current(p).id}, "QUEUED")
      /\ UNCHANGED workVars
  BY DEF PubMark
<1>2. succeeded' = succeeded
  BY <1>1 DEF Write
<1>3. CASE r # Current(p).id
  <2>1. (JustSent(r)' <=> JustSent(r)) /\ (Unsent(r)' <=> Unsent(r))
    BY <1>1, <1>3, AdvanceFlight
  <2>2. status'[r] = status[r]
    BY <1>1, <1>3 DEF Write
  <2> QED  BY <1>1, <1>2, <2>1, <2>2, FlightKept DEF workVars
<1>4. CASE r = Current(p).id
  <2>1. ~JustSent(r)' /\ ~Unsent(r)'
    BY <1>1, <1>4, AdvanceGone
  <2>2. status'[r] \in {"QUEUED", "DELETED"}
    BY <1>1, <1>4 DEF Write, TypeOK
  <2>3. OneAttempt(r)' /\ LastWord(r)' /\ (Clean(r) <=> Clean(r)')
    BY <1>1 DEF workVars, FlightInv, OneAttempt, LastWord, Clean, AtRest, Silent, Pending, Working
  <2> QED  BY <1>2, <2>1, <2>2, <2>3 DEF FlightInv, RowInv
<1> QED  BY <1>3, <1>4

(* A row that failed is clean, and so it is when it is CREATED again. *)
LEMMA RetryFlight ==
    ASSUME TypeOK, BatchInv, NEW p \in Publishers, PubRetry(p), NEW r \in Runners, FlightInv(r)
    PROVE  FlightInv(r)'
<1>1. /\ pc[p] = "retry" /\ pc'[p] = "idle" /\ batch' = batch /\ Write(Retryable, "CREATED")
      /\ UNCHANGED workVars /\ \A q \in Publishers : q # p => pc'[q] = pc[q]
  BY DEF PubRetry, Goto, TypeOK
<1>2. (JustSent(r)' <=> JustSent(r)) /\ (Unsent(r)' <=> Unsent(r))
  <2>1. CASE Trigger(r) = p
    <3>1. ~JustSent(r) /\ ~JustSent(r)'
      BY <1>1, <2>1 DEF JustSent, Trigger
    <3> QED  BY <1>1, <3>1 DEF Unsent, Trigger
  <2>2. CASE Trigger(r) # p
    BY <1>1, <2>2, SentOther
  <2> QED  BY <2>1, <2>2
<1>3. succeeded' = succeeded
  BY <1>1 DEF Write
<1>4. CASE r \in Retryable
  <2>1. Clean(r) /\ r \notin succeeded /\ ~Unsent(r) /\ status'[r] = "CREATED"
    BY <1>1, <1>4 DEF Retryable, FlightInv, RowInv, Write
  <2>2. OneAttempt(r)' /\ LastWord(r)' /\ Clean(r)'
    BY <1>1, <2>1 DEF workVars, FlightInv, OneAttempt, LastWord, Clean, AtRest, Silent, Pending, Working
  <2> QED  BY <1>2, <1>3, <2>1, <2>2 DEF FlightInv, RowInv
<1>5. CASE r \notin Retryable
  <2>1. status'[r] = status[r]
    BY <1>1, <1>5 DEF Write, TypeOK
  <2> QED  BY <1>1, <1>2, <1>3, <2>1, FlightKept DEF workVars
<1> QED  BY <1>4, <1>5

(* The publisher goes on, sending nothing. *)
LEMMA GoOnSame ==
    ASSUME TypeOK, NEW p \in Publishers, NEW l, Goto(p, l), batch' = batch,
           \/ pc[p] \notin {"stamp", "mark"} /\ l \notin {"stamp", "mark"}
           \/ pc[p] \in {"stamp", "mark"} /\ l \in {"stamp", "mark"},
           NEW r \in Runners
    PROVE  (JustSent(r)' <=> JustSent(r)) /\ (Unsent(r)' <=> Unsent(r))
<1>1. Current(Trigger(r))' = Current(Trigger(r))
  BY CurrentSame DEF Trigger
<1>2. pc'[Trigger(r)] \in {"stamp", "mark"} <=> pc[Trigger(r)] \in {"stamp", "mark"}
  BY DEF Goto, TypeOK, Trigger, Publishers
<1>3. Trigger(r)' = Trigger(r)
  BY DEF Trigger
<1>4. JustSent(r)' <=> JustSent(r)
  BY <1>1, <1>2, <1>3 DEF JustSent
<1> QED  BY <1>3, <1>4 DEF Unsent

LEMMA PublishFlight ==
    ASSUME TypeOK, BatchInv, NoRejects, NEW p \in Publishers, Publish(p)
    PROVE  /\ NoRejects'
           /\ \A r \in Runners \ Detached : FlightInv(r) => FlightInv(r)'
<1>1. NoRejects'
  <2>1. \A q \in Publishers : pc'[q] = pc[q] \/ pc'[q] # "reject"
    BY DEF Publish, PubExpireQueued, PubExpireRunning, PubFetch, PubSkip, PubDetached, PubProduce,
           PubReject, PubStamp, PubMark, PubRetry, Advance, Goto, TypeOK
  <2> QED  BY <2>1 DEF NoRejects
<1> SUFFICES ASSUME NEW r \in Runners \ Detached, FlightInv(r)
             PROVE  FlightInv(r)'
  BY <1>1
<1>2. CASE PubExpireQueued(p) \/ PubExpireRunning(p)
  <2>1. (JustSent(r)' <=> JustSent(r)) /\ (Unsent(r)' <=> Unsent(r))
    BY <1>2, GoOnSame DEF PubExpireQueued, PubExpireRunning
  <2>2. PICK S : Write(S, "TIMEOUT") /\ UNCHANGED workVars
    BY <1>2 DEF PubExpireQueued, PubExpireRunning
  <2>3. (status'[r] = status[r] \/ status'[r] = "TIMEOUT") /\ succeeded' = succeeded
    BY <2>2 DEF Write
  <2> QED  BY <2>1, <2>2, <2>3, FlightKept DEF workVars
<1>3. CASE PubFetch(p)
  BY <1>3, FetchFlight
<1>4. CASE PubSkip(p)
  <2>1. pc[p] = "publish" /\ Advance(p) /\ UNCHANGED <<rowVars, workVars, histVars>>
    BY <1>4 DEF PubSkip
  <2>2. CASE r # Current(p).id
    BY <2>1, <2>2, AdvanceFlight, FlightKept DEF rowVars, workVars, histVars
  <2>3. CASE r = Current(p).id
    <3>1. ~JustSent(r)' /\ ~Unsent(r)'
      BY <2>1, <2>3, AdvanceGone
    <3>2. Unsent(r) /\ ~JustSent(r)
      <4>1. Current(p) \in batch[p] /\ Trigger(r) = p
        BY <2>1, <2>3, CurrentInBatch DEF BatchInv
      <4> QED  BY <2>1, <2>3, <4>1 DEF Unsent, JustSent
    <3> QED  BY <2>1, <3>1, <3>2, FlightKept DEF rowVars, workVars, histVars
  <2> QED  BY <2>2, <2>3
<1>5. CASE PubDetached(p)
  <2>1. Write({Current(p).id}, "FAILED") /\ Current(p).id \in Detached /\ UNCHANGED workVars
    BY <1>5 DEF PubDetached
  <2>2. status'[r] = status[r] /\ succeeded' = succeeded
    BY <2>1 DEF Write
  <2>3. (JustSent(r)' <=> JustSent(r)) /\ (Unsent(r)' <=> Unsent(r))
    BY <1>5, GoOnSame DEF PubDetached
  <2> QED  BY <2>1, <2>2, <2>3, FlightKept DEF workVars
<1>6. CASE PubProduce(p)
  BY <1>6, ProduceFlight
<1>7. CASE PubReject(p)
  BY <1>7 DEF PubReject, NoRejects
<1>8. CASE PubStamp(p)
  <2>1. (JustSent(r)' <=> JustSent(r)) /\ (Unsent(r)' <=> Unsent(r))
    BY <1>8, GoOnSame DEF PubStamp
  <2> QED  BY <1>8, <2>1, FlightKept DEF PubStamp, workVars, histVars
<1>9. CASE PubMark(p)
  BY <1>9, MarkFlight
<1>10. CASE PubRetry(p)
  BY <1>10, RetryFlight
<1> QED  BY <1>2, <1>3, <1>4, <1>5, <1>6, <1>7, <1>8, <1>9, <1>10 DEF Publish

LEMMA Appended ==
    ASSUME results \in Seq(Result), NEW e \in Result, results' = Append(results, e)
    PROVE  /\ Len(results) \in Nat /\ Len(results') = Len(results) + 1
           /\ \A i \in 1..Len(results) : results'[i] = results[i]
           /\ results'[Len(results) + 1] = e
OBVIOUS

(* A worker takes the one message of a row, or answers to it and is done:  *)
(* no answer to an earlier attempt is under way then.                      *)
LEMMA WorkFlight ==
    ASSUME TypeOK, NEW w \in Workers, Work(w), NEW r \in Runners, FlightInv(r)
    PROVE  FlightInv(r)'
<1> DEFINE k == Len(results)
<1>0. UNCHANGED <<rowVars, pubVars, hand, histVars>>
  BY DEF Work, WorkerTake, WorkerFinish
<1>1. (JustSent(r)' <=> JustSent(r)) /\ (Unsent(r)' <=> Unsent(r))
  BY <1>0, SentSame DEF pubVars
<1>2. ASSUME NEW m, m.id # r, NEW st \in {"IN_PROGRESS", "SUCCEEDED", "FAILED"}, Answer(m, st),
             m \in Message, Pending(r)' = Pending(r), Working(r)' = Working(r)
      PROVE  FlightInv(r)'
  <2>1. Reported(m, st) \in Result /\ Reported(m, st).id # r /\ results \in Seq(Result)
    BY <1>2 DEF Reported, Message, Result, TypeOK
  <2>2. CASE results' = results
    <3>1. OneAttempt(r)' /\ LastWord(r)' /\ (Clean(r)' <=> Clean(r))
      BY <1>0, <1>2, <2>2 DEF FlightInv, OneAttempt, LastWord, Clean, AtRest, Silent
    <3> QED  BY <1>0, <1>1, <3>1 DEF FlightInv, RowInv, rowVars, histVars
  <2>3. CASE results' = Append(results, Reported(m, st))
    <3>1. /\ k \in Nat /\ Len(results') = k + 1
          /\ \A i \in 1..k : results'[i] = results[i]
          /\ results'[k + 1].id # r
      BY <2>1, <2>3, Appended
    <3>2. \A i \in 1..Len(results') : results'[i].id = r => i \in 1..k /\ results'[i] = results[i]
      BY <3>1
    <3>3. AtRest(r)' <=> AtRest(r)
      BY <1>2 DEF AtRest
    <3>4. LastWord(r)'
      BY <1>0, <3>1, <3>2, <3>3 DEF FlightInv, LastWord
    <3>5. OneAttempt(r)' /\ (Clean(r) => Clean(r)')
      BY <1>0, <1>2, <3>2, <3>3 DEF FlightInv, OneAttempt, Clean, Silent
    <3> QED  BY <1>0, <1>1, <3>4, <3>5 DEF FlightInv, RowInv, rowVars, histVars
  <2> QED  BY <1>2, <2>2, <2>3 DEF Answer
<1>3. ASSUME NEW m \in Message, m.id = r, ~AtRest(r), NEW st \in {"IN_PROGRESS", "SUCCEEDED", "FAILED"},
             Answer(m, st), OneAttempt(r)', st # "IN_PROGRESS" => AtRest(r)'
      PROVE  FlightInv(r)'
  <2>1. /\ ~Clean(r)
        /\ \A i \in 1..k : results[i].id = r => results[i].status = "IN_PROGRESS"
        /\ ~(hand # Nil /\ hand.id = r /\ hand.status # "IN_PROGRESS")
    BY <1>3 DEF FlightInv, LastWord, Clean
  <2>2. RowInv(r)'
    BY <1>0, <1>1, <2>1 DEF FlightInv, RowInv, rowVars, histVars
  <2>3. CASE results' = results
    BY <1>0, <1>3, <2>1, <2>2, <2>3 DEF FlightInv, LastWord
  <2>4. CASE results' = Append(results, Reported(m, st))
    <3>1. Reported(m, st) \in Result /\ Reported(m, st).status = st /\ results \in Seq(Result)
      BY <1>3 DEF Reported, Message, Result, TypeOK
    <3>2. /\ k \in Nat /\ Len(results') = k + 1
          /\ \A i \in 1..k : results'[i] = results[i]
          /\ results'[k + 1].status = st
      BY <2>4, <3>1, Appended
    <3>3. \A i \in 1..Len(results') : results'[i].id = r /\ results'[i].status # "IN_PROGRESS" =>
                                         i = k + 1 /\ AtRest(r)'
      BY <1>3, <2>1, <3>2
    <3>4. LastWord(r)'
      BY <1>0, <2>1, <3>2, <3>3 DEF LastWord
    <3> QED  BY <1>3, <2>2, <3>4 DEF FlightInv
  <2> QED  BY <1>3, <2>3, <2>4 DEF Answer
<1>4. CASE WorkerTake(w)
  <2>1. PICK m \in queue : /\ queue' = queue \ {m} /\ wk' = [wk EXCEPT ![w] = m]
                           /\ Answer(m, "IN_PROGRESS")
    BY <1>4 DEF WorkerTake
  <2>2. m \in Message /\ wk[w] = Nil
    BY <1>4 DEF WorkerTake, TypeOK
  <2>3. CASE m.id # r
    <3>1. Pending(r)' = Pending(r) /\ Working(r)' = Working(r)
      BY <2>1, <2>2, <2>3 DEF Pending, Working, TypeOK
    <3> QED  BY <1>2, <2>1, <2>2, <2>3, <3>1
  <2>4. CASE m.id = r
    <3>1. m \in Pending(r) /\ Working(r) = {} /\ \A n \in Pending(r) : n = m
      BY <2>4 DEF FlightInv, OneAttempt, Pending
    <3>2. Pending(r)' = {} /\ Working(r)' \subseteq {w}
      BY <2>1, <3>1 DEF Pending, Working, TypeOK
    <3>3. ~AtRest(r) /\ OneAttempt(r)'
      BY <3>1, <3>2 DEF AtRest, OneAttempt
    <3> QED  BY <1>3, <2>1, <2>2, <2>4, <3>3
  <2> QED  BY <2>3, <2>4
<1>5. CASE WorkerFinish(w)
  <2>1. PICK st \in {"SUCCEEDED", "FAILED"} : Answer(wk[w], st)
    BY <1>5 DEF WorkerFinish
  <2>2. wk[w] \in Message /\ wk[w] # Nil /\ queue' = queue /\ wk' = [wk EXCEPT ![w] = Nil]
    BY <1>5 DEF WorkerFinish, TypeOK
  <2>3. CASE wk[w].id # r
    <3>1. Pending(r)' = Pending(r) /\ Working(r)' = Working(r)
      BY <2>2, <2>3 DEF Pending, Working, TypeOK
    <3> QED  BY <1>2, <2>1, <2>2, <2>3, <3>1
  <2>4. CASE wk[w].id = r
    <3>1. w \in Working(r) /\ Pending(r) = {} /\ \A v \in Working(r) : v = w
      BY <2>2, <2>4 DEF FlightInv, OneAttempt, Working
    <3>2. Pending(r)' = {} /\ Working(r)' = {}
      BY <2>2, <3>1 DEF Pending, Working, TypeOK
    <3>3. ~AtRest(r) /\ AtRest(r)' /\ OneAttempt(r)'
      BY <3>1, <3>2 DEF AtRest, OneAttempt
    <3> QED  BY <1>3, <2>1, <2>2, <2>4, <3>3
  <2> QED  BY <2>3, <2>4
<1> QED  BY <1>4, <1>5 DEF Work

(* The consumer takes the answers in their order, and writes them. *)
LEMMA ConsumeFlight ==
    ASSUME TypeOK, Consume, NEW r \in Runners, FlightInv(r)
    PROVE  FlightInv(r)'
<1>0. UNCHANGED <<pubVars, queue, wk>>
  BY DEF Consume, ConsumerTake, ConsumerWrite
<1>1. /\ (JustSent(r)' <=> JustSent(r)) /\ (Unsent(r)' <=> Unsent(r))
      /\ Pending(r)' = Pending(r) /\ Working(r)' = Working(r)
      /\ (AtRest(r)' <=> AtRest(r)) /\ OneAttempt(r)'
  BY <1>0, SentSame DEF pubVars, Pending, Working, AtRest, FlightInv, OneAttempt
<1>2. CASE ConsumerTake
  <2>1. /\ results \in Seq(Result) /\ results # <<>>
        /\ hand' = Head(results) /\ results' = Tail(results)
    BY <1>2 DEF ConsumerTake, TypeOK
  <2>2. /\ Len(results) \in Nat /\ Len(results) > 0
        /\ hand' = results[1] /\ Len(results') = Len(results) - 1
        /\ \A i \in 1..Len(results') : results'[i] = results[i + 1]
    BY <2>1
  <2>3. LastWord(r)'
    <3>1. \A i \in 1..Len(results') : i + 1 \in 1..Len(results) /\ 1 < i + 1
      BY <2>2
    <3>2. ASSUME NEW i \in 1..Len(results'), NEW j \in 1..Len(results'),
                 results'[i].id = r, results'[j].id = r, i < j
          PROVE  results'[i].status = "IN_PROGRESS"
      <4>1. /\ i + 1 \in 1..Len(results) /\ j + 1 \in 1..Len(results) /\ i + 1 < j + 1
            /\ results'[i] = results[i + 1] /\ results'[j] = results[j + 1]
        BY <2>2, <3>1, <3>2
      <4> QED  BY <3>2, <4>1 DEF FlightInv, LastWord
    <3>3. ASSUME NEW i \in 1..Len(results'), results'[i].id = r, results'[i].status # "IN_PROGRESS"
          PROVE  AtRest(r)'
      BY <1>1, <2>2, <3>1, <3>3 DEF FlightInv, LastWord
    <3>4. ASSUME hand'.id = r, hand'.status # "IN_PROGRESS"
          PROVE  AtRest(r)' /\ \A i \in 1..Len(results') : results'[i].id # r
      BY <1>1, <2>2, <3>1, <3>4 DEF FlightInv, LastWord
    <3> QED  BY <3>2, <3>3, <3>4 DEF LastWord
  <2>4. Clean(r) => Clean(r)'
    BY <1>1, <2>2 DEF Clean, Silent
  <2>5. UNCHANGED <<rowVars, histVars>>
    BY <1>2 DEF ConsumerTake
  <2> QED  BY <1>1, <2>3, <2>4, <2>5 DEF FlightInv, RowInv, rowVars, histVars
<1>3. CASE ConsumerWrite
  <2>1. /\ hand # Nil /\ hand' = Nil /\ results' = results /\ Write({hand.id}, hand.status)
        /\ hand.status \in {"IN_PROGRESS", "SUCCEEDED", "FAILED"}
    BY <1>3 DEF ConsumerWrite, TypeOK, Result
  <2>2. LastWord(r)'
    BY <1>1, <2>1 DEF FlightInv, LastWord
  <2>3. CASE hand.id # r
    <3>1. /\ status'[r] = status[r] /\ (r \in succeeded' <=> r \in succeeded)
          /\ (Clean(r) => Clean(r)')
      BY <1>1, <2>1, <2>3 DEF Write, Clean, Silent
    <3> QED  BY <1>1, <2>2, <3>1 DEF FlightInv, RowInv
  <2>4. CASE hand.id = r
    <3>1. ~Clean(r)
      BY <2>1, <2>4 DEF Clean, Silent
    <3>2. ~Unsent(r) /\ r \notin succeeded
      BY <3>1 DEF FlightInv, RowInv
    <3>3. /\ status'[r] = IF status[r] # "DELETED" THEN hand.status ELSE status[r]
          /\ r \in succeeded' => hand.status = "SUCCEEDED" /\ status[r] # "DELETED"
          /\ hand.status = "SUCCEEDED" /\ status[r] # "DELETED" => r \in succeeded'
      BY <2>1, <2>4, <3>2 DEF Write
    <3>4. hand.status # "IN_PROGRESS" => Clean(r)'
      BY <1>1, <2>1, <2>4 DEF FlightInv, LastWord, Clean, Silent
    <3> QED  BY <1>1, <2>1, <2>2, <3>2, <3>3, <3>4 DEF FlightInv, RowInv
  <2> QED  BY <2>3, <2>4
<1> QED  BY <1>2, <1>3 DEF Consume

(* Cancel requests, the deletion of old rows, and time. *)
LEMMA OtherFlight ==
    ASSUME TypeOK, NEW r \in Runners, FlightInv(r),
           \/ CancelRead \/ CancelStep \/ Purge
           \/ \E s \in Runners : Age(s) \/ Rest(s)
           \/ UNCHANGED vars
    PROVE  FlightInv(r)'
<1>1. UNCHANGED <<pubVars, wk, results, hand>> /\ queue' \subseteq queue
  BY DEF CancelRead, CancelStep, CancelDrop, CancelDropFails, CancelWrite, Purge, Age, Rest, vars,
         workVars, pubVars
<1>2. /\ status'[r] = status[r] \/ status'[r] \in {"TIMEOUT", "CANCELED", "DELETED"}
      /\ succeeded' = succeeded
  BY DEF CancelRead, CancelStep, CancelDrop, CancelDropFails, CancelWrite, Purge, Age, Rest, vars,
         rowVars, histVars, Write
<1> QED  BY <1>1, <1>2, SentSame, FlightKept DEF pubVars

(* Faults are counted: as long as there is none, no step was one. *)
LEMMA NothingFailed ==
    ASSUME TypeOK, [Next]_vars, faults' = 0
    PROVE  faults = 0 /\ ~Fault
<1>1. faults \in Nat /\ faults' # faults + 1
  BY BoundAssumption DEF TypeOK
<1>2. ~Fault
  BY <1>1 DEF Fault
<1>3. ASSUME NEW p \in Publishers, Publish(p)
      PROVE  faults' = faults
  BY <1>3 DEF Publish, PubExpireQueued, PubExpireRunning, PubFetch, PubSkip, PubDetached,
              PubProduce, PubReject, PubStamp, PubMark, PubRetry
<1>4. \/ faults' = faults
      \/ \E p \in Publishers : PubFaults(p)
      \/ (\E w \in Workers : WorkerLost(w)) \/ ConsumerFails \/ Crash
  BY <1>3 DEF Next, Work, WorkerTake, WorkerFinish, Consume, ConsumerTake, ConsumerWrite, CancelRead,
              CancelStep, CancelDrop, CancelDropFails, CancelWrite, Purge, Age, Rest, vars
<1> QED  BY <1>2, <1>4 DEF PubFaults, PubProduceFails, PubAbort, PubStatementFails, WorkerLost,
                           ConsumerFails, Crash

LEMMA StepFlight ==
    ASSUME TypeOK, BatchInv, AllFlights, [Next]_vars
    PROVE  AllFlights'
<1> SUFFICES ASSUME faults' = 0
             PROVE  NoRejects' /\ \A r \in Runners \ Detached : FlightInv(r)'
  BY DEF AllFlights
<1>1. faults = 0 /\ ~Fault
  BY NothingFailed
<1>5. NoRejects /\ \A r \in Runners \ Detached : FlightInv(r)
  BY <1>1 DEF AllFlights
<1>6. ASSUME NEW p \in Publishers, Publish(p)
      PROVE  NoRejects' /\ \A r \in Runners \ Detached : FlightInv(r)'
  BY <1>5, <1>6, PublishFlight
<1>7. ASSUME pc' = pc, \A r \in Runners \ Detached : FlightInv(r)'
      PROVE  NoRejects' /\ \A r \in Runners \ Detached : FlightInv(r)'
  BY <1>5, <1>7 DEF NoRejects
<1>8. ASSUME NEW w \in Workers, Work(w)
      PROVE  NoRejects' /\ \A r \in Runners \ Detached : FlightInv(r)'
  <2>1. pc' = pc
    BY <1>8 DEF Work, WorkerTake, WorkerFinish, pubVars
  <2> QED  BY <1>5, <1>7, <1>8, <2>1, WorkFlight
<1>9. CASE Consume
  <2>1. pc' = pc
    BY <1>9 DEF Consume, ConsumerTake, ConsumerWrite, pubVars
  <2> QED  BY <1>5, <1>7, <1>9, <2>1, ConsumeFlight
<1>10. CASE \/ CancelRead \/ CancelStep \/ Purge
            \/ \E s \in Runners : Age(s) \/ Rest(s)
            \/ UNCHANGED vars
  <2>1. pc' = pc
    BY <1>10 DEF CancelRead, CancelStep, CancelDrop, CancelDropFails, CancelWrite, Purge, Age, Rest,
                 vars, pubVars
  <2> QED  BY <1>5, <1>7, <1>10, <2>1, OtherFlight
<1>11. CASE \/ \E p \in Publishers : PubFaults(p)
            \/ (\E w \in Workers : WorkerLost(w)) \/ ConsumerFails \/ Crash
  BY <1>1, <1>11 DEF PubFaults, PubProduceFails, PubAbort, PubStatementFails, WorkerLost,
                     ConsumerFails, Crash
<1> QED  BY <1>6, <1>8, <1>9, <1>10, <1>11 DEF Next

(* All that is known of a reachable state. *)
RunnerInv == TypeOK /\ BatchInv /\ AllFlights

LEMMA RunnerInitInv == Init => RunnerInv
<1> SUFFICES ASSUME Init PROVE RunnerInv
  OBVIOUS
<1>1. ASSUME NEW r \in Runners
      PROVE  FlightInv(r)
  BY <1>1 DEF Init, FlightInv, OneAttempt, LastWord, RowInv, Clean, AtRest, Silent, Pending, Working,
              Unsent, JustSent, Trigger, Publishers
<1>2. NoRejects
  BY DEF Init, NoRejects
<1> QED  BY <1>1, <1>2, InitInv DEF RunnerInv, AllFlights

LEMMA RunnerStepInv == RunnerInv /\ [Next]_vars => RunnerInv'
BY StepInv, StepFlight DEF RunnerInv

LEMMA AtMostOne ==
    ASSUME NEW S, \A x, y \in S : x = y
    PROVE  Cardinality(S) \in {0, 1} /\ (Cardinality(S) = 1 => S # {})
<1>1. CASE S = {}
  BY <1>1, FS_EmptySet
<1>2. ASSUME NEW x \in S
      PROVE  Cardinality(S) = 1
  <2>1. S = {x}
    BY <1>2
  <2> QED  BY <2>1, FS_Singleton
<1> QED  BY <1>1, <1>2

(* As long as nothing fails, one attempt of a runner at most is in the     *)
(* queue or with a worker.                                                 *)
THEOREM OneFlight == Spec => []SingleFlight
<1>1. RunnerInv => SingleFlight
  <2> SUFFICES ASSUME RunnerInv, NEW r \in Runners \ Detached, faults = 0
               PROVE  Cardinality(Pending(r)) + Cardinality(Working(r)) <= 1
    BY DEF SingleFlight
  <2>1. OneAttempt(r)
    BY DEF RunnerInv, AllFlights, FlightInv
  <2>2. /\ Cardinality(Pending(r)) \in {0, 1} /\ Cardinality(Working(r)) \in {0, 1}
        /\ Cardinality(Pending(r)) = 1 => Pending(r) # {}
        /\ Cardinality(Working(r)) = 1 => Working(r) # {}
    BY <2>1, AtMostOne DEF OneAttempt
  <2> QED  BY <2>1, <2>2 DEF OneAttempt
<1> QED  BY <1>1, RunnerInitInv, RunnerStepInv, PTL DEF Spec

(* A row that has succeeded is not the one that is being sent. *)
LEMMA StepLaunches ==
    ASSUME RunnerInv, [Next]_vars, NEW r \in succeeded \ Detached, faults = 0
    PROVE  launches'[r] = launches[r]
<1> USE DEF RunnerInv
<1>1. r \in Runners /\ ~Unsent(r)
  BY DEF AllFlights, FlightInv, RowInv, TypeOK
<1>2. ASSUME NEW p \in Publishers, NEW c, Publishing(p), Store(Current(p), c)
      PROVE  launches'[r] = launches[r]
  <2>1. pc[p] \in {"publish", "produce"}
    BY <1>2 DEF Publishing
  <2>2. Current(p) \in batch[p] /\ Trigger(Current(p).id) = p
    BY <2>1, CurrentInBatch DEF BatchInv
  <2>3. Current(p).id # r
    BY <1>1, <2>1, <2>2 DEF Unsent, JustSent
  <2> QED  BY <1>1, <1>2, <2>3 DEF Store, TypeOK
<1>3. ASSUME NEW p \in Publishers, Publish(p) \/ PubFaults(p)
      PROVE  launches'[r] = launches[r]
  BY <1>2, <1>3 DEF Publish, PubExpireQueued, PubExpireRunning, PubFetch, PubSkip, PubDetached,
                    PubProduce, PubReject, PubStamp, PubMark, PubRetry, PubFaults, PubProduceFails,
                    PubAbort, PubStatementFails, histVars
<1>4. \/ launches' = launches
      \/ \E p \in Publishers : Publish(p) \/ PubFaults(p)
  BY DEF Next, Work, WorkerTake, WorkerFinish, WorkerLost, Consume, ConsumerTake, ConsumerWrite,
         ConsumerFails, CancelRead, CancelStep, CancelDrop, CancelDropFails, CancelWrite, Purge, Crash,
         Age, Rest, vars, histVars
<1> QED  BY <1>3, <1>4

(* As long as nothing fails, a runner that succeeded is not run again. *)
THEOREM SuccessIsLast == Spec => NoLaunchAfterSuccess
<1>1. RunnerInv /\ [Next]_vars =>
        [\A r \in succeeded \ Detached : faults = 0 => launches'[r] = launches[r]]_vars
  BY StepLaunches
<1> QED  BY <1>1, RunnerInitInv, RunnerStepInv, PTL DEF Spec, NoLaunchAfterSuccess

(* Who may write to a row. *)
LEMMA StepWrites ==
    ASSUME TypeOK, BatchInv, [Next]_vars, NEW r \in Runners, status'[r] # status[r]
    PROVE  \/ status[r] \in {"CREATED", "QUEUED", "IN_PROGRESS", "FAILED"}
           \/ status'[r] = "DELETED"
           \/ \E p \in Publishers :
                 /\ Current(p) \in batch[p] /\ Current(p).id = r
                 /\ \/ PubMark(p) /\ status'[r] = "QUEUED"
                    \/ pc[p] = "reject" \/ r \in Detached
           \/ ConsumerWrite /\ hand # Nil /\ hand.id = r
           \/ status'[r] = "CANCELED" /\ \E x \in view : x.id = r
<1>1. ASSUME NEW p \in Publishers, Publish(p) \/ PubFaults(p), status' # status
      PROVE  \/ PubExpireQueued(p) \/ PubExpireRunning(p) \/ PubRetry(p)
             \/ PubDetached(p) \/ PubReject(p) \/ PubMark(p)
  BY <1>1 DEF Publish, PubFetch, PubSkip, PubProduce, PubStamp, PubFaults, PubProduceFails, PubAbort,
              PubStatementFails, rowVars
<1>2. ASSUME NEW p \in Publishers, PubExpireQueued(p) \/ PubExpireRunning(p) \/ PubRetry(p)
      PROVE  status[r] \in {"CREATED", "QUEUED", "IN_PROGRESS", "FAILED"}
  BY <1>2 DEF PubExpireQueued, PubExpireRunning, PubRetry, Retryable, Write
<1>3. ASSUME NEW p \in Publishers, PubDetached(p) \/ PubReject(p) \/ PubMark(p)
      PROVE  /\ Current(p) \in batch[p] /\ Current(p).id = r
             /\ \/ PubMark(p) /\ status'[r] \in {"QUEUED", "DELETED"}
                \/ pc[p] = "reject" \/ r \in Detached
  <2>1. Current(p) \in batch[p]
    BY <1>3, CurrentInBatch DEF PubDetached, PubReject, PubMark, BatchInv
  <2>2. Current(p).id = r
    BY <1>3 DEF PubDetached, PubReject, PubMark, Write
  <2>3. PubMark(p) => status'[r] \in {"QUEUED", "DELETED"}
    BY <2>2 DEF PubMark, Write
  <2> QED  BY <1>3, <2>1, <2>2, <2>3 DEF PubDetached, PubReject
<1>4. CASE ConsumerWrite
  BY <1>4 DEF ConsumerWrite, Write
<1>5. ASSUME NEW x \in view, CancelWrite(x)
      PROVE  status'[r] = "CANCELED" /\ x.id = r
  BY <1>5 DEF CancelWrite, Write
<1>6. CASE Purge
  BY <1>6 DEF Purge, Write
<1>7. \/ status' = status
      \/ \E p \in Publishers : Publish(p) \/ PubFaults(p)
      \/ ConsumerWrite \/ Purge
      \/ \E x \in view : CancelWrite(x)
  BY DEF Next, Work, WorkerTake, WorkerFinish, WorkerLost, Consume, ConsumerTake,
         ConsumerFails, CancelRead, CancelStep, CancelDrop, CancelDropFails, Crash,
         Age, Rest, vars, rowVars
<1>8. CASE \E p \in Publishers : Publish(p) \/ PubFaults(p)
  BY <1>1, <1>2, <1>3, <1>8
<1> QED  BY <1>4, <1>5, <1>6, <1>7, <1>8

(* As long as nothing fails, SUCCEEDED is overwritten only by the          *)
(* publisher's late QUEUED, by a cancel request and by the deletion.       *)
THEOREM SuccessRaces == Spec => SuccessOverwrittenOnlyByRace
<1>1. ASSUME RunnerInv, [Next]_vars, NEW r \in Runners \ Detached,
             status[r] = "SUCCEEDED", status'[r] # "SUCCEEDED", faults' = 0
      PROVE  \/ status'[r] = "DELETED"
             \/ status'[r] = "QUEUED"   /\ \E p \in Publishers : \E x \in batch[p] : x.id = r
             \/ status'[r] = "CANCELED" /\ \E x \in view : x.id = r
  <2>1. faults = 0
    BY <1>1, NothingFailed DEF RunnerInv
  <2>2. NoRejects /\ Silent(r)
    BY <1>1, <2>1 DEF RunnerInv, AllFlights, FlightInv, RowInv, Clean
  <2>3. ~(ConsumerWrite /\ hand # Nil /\ hand.id = r)
    BY <2>2 DEF Silent
  <2> QED  BY <1>1, <2>2, <2>3, StepWrites DEF RunnerInv, NoRejects
<1>2. RunnerInv /\ [Next]_vars =>
        [\A r \in Runners \ Detached :
          (status[r] = "SUCCEEDED" /\ status'[r] # "SUCCEEDED" /\ faults' = 0) =>
              \/ status'[r] = "DELETED"
              \/ status'[r] = "QUEUED"   /\ \E p \in Publishers : \E x \in batch[p] : x.id = r
              \/ status'[r] = "CANCELED" /\ \E x \in view : x.id = r]_vars
  BY <1>1
<1> QED  BY <1>2, RunnerInitInv, RunnerStepInv, PTL DEF Spec, SuccessOverwrittenOnlyByRace

(* A canceled row that nobody refers to is not taken up. *)
LEMMA StepUnreferenced ==
    ASSUME TypeOK, BatchInv, [Next]_vars, NEW r \in Runners,
           status[r] = "CANCELED", Unreferenced(r)
    PROVE  Unreferenced(r)'
<1>1. \A p \in Publishers : \A x \in batch'[p] : x.id # r
  <2>1. ASSUME NEW p \in Publishers, Publish(p) \/ PubFaults(p)
        PROVE  \A q \in Publishers : batch'[q] \subseteq batch[q] \/ (PubFetch(p) /\ batch'[q] = Fetched(q))
    BY <2>1 DEF Publish, PubExpireQueued, PubExpireRunning, PubFetch, PubSkip, PubDetached,
                PubProduce, PubReject, PubStamp, PubMark, PubRetry, PubFaults, PubProduceFails,
                PubAbort, PubStatementFails, Advance, TypeOK
  <2>2. ASSUME NEW q \in Publishers, NEW x \in Fetched(q)
        PROVE  x.id # r
    BY FetchedItems
  <2>3. \/ \E p \in Publishers : Publish(p) \/ PubFaults(p)
        \/ batch' = batch \/ Crash
    BY DEF Next, Work, WorkerTake, WorkerFinish, WorkerLost, Consume, ConsumerTake, ConsumerWrite,
           ConsumerFails, CancelRead, CancelStep, CancelDrop, CancelDropFails, CancelWrite, Purge,
           Age, Rest, vars, pubVars
  <2>4. CASE Crash
    BY <2>4 DEF Crash
  <2> QED  BY <2>1, <2>2, <2>3, <2>4 DEF Unreferenced
<1>2. Pending(r)' = {}
  <2>1. ASSUME NEW p \in Publishers, NEW c, Publishing(p), Store(Current(p), c)
        PROVE  \A m \in queue' : m.id = r => m \in queue
    <3>1. Current(p).id # r
      BY <2>1, CurrentInBatch DEF Publishing, BatchInv, Unreferenced
    <3> QED  BY <2>1, <3>1 DEF Store
  <2>2. \A m \in queue' : m.id = r => m \in queue
    BY <2>1 DEF Next, Publish, PubExpireQueued, PubExpireRunning, PubFetch, PubSkip, PubDetached,
                PubProduce, PubReject, PubStamp, PubMark, PubRetry, PubFaults, PubProduceFails,
                PubAbort, PubStatementFails, Work, WorkerTake, WorkerFinish, WorkerLost, Consume,
                ConsumerTake, ConsumerWrite, ConsumerFails, CancelRead, CancelStep, CancelDrop,
                CancelDropFails, CancelWrite, Purge, Crash, Age, Rest, vars, workVars
  <2> QED  BY <2>2 DEF Pending, Unreferenced
<1>3. ASSUME NEW w \in Workers, Work(w) \/ WorkerLost(w)
      PROVE  Unreferenced(r)'
  <2>1. ASSUME NEW m \in Message, m.id # r, NEW st \in {"IN_PROGRESS", "SUCCEEDED", "FAILED"},
               Answer(m, st)
        PROVE  \A i \in 1..Len(results') : results'[i].id # r
    <3>1. Reported(m, st) \in Result /\ Reported(m, st).id # r /\ results \in Seq(Result)
      BY <2>1 DEF Reported, Message, Result, TypeOK
    <3>2. CASE results' = Append(results, Reported(m, st))
      <4>1. /\ Len(results) \in Nat /\ Len(results') = Len(results) + 1
            /\ \A i \in 1..Len(results) : results'[i] = results[i]
            /\ results'[Len(results) + 1].id # r
        BY <3>1, <3>2, Appended
      <4> QED  BY <4>1 DEF Unreferenced
    <3> QED  BY <2>1, <3>2 DEF Answer, Unreferenced
  <2>2. hand' = hand
    BY <1>3 DEF Work, WorkerTake, WorkerFinish, WorkerLost
  <2>3. CASE WorkerTake(w)
    <3>1. PICK m \in queue : wk' = [wk EXCEPT ![w] = m] /\ Answer(m, "IN_PROGRESS")
      BY <2>3 DEF WorkerTake
    <3>2. m \in Message /\ m.id # r
      BY <3>1 DEF TypeOK, Unreferenced, Pending
    <3>3. \A i \in 1..Len(results') : results'[i].id # r
      BY <2>1, <3>1, <3>2
    <3>4. Working(r)' = {}
      BY <3>1, <3>2 DEF Working, Unreferenced, TypeOK
    <3> QED  BY <1>1, <1>2, <2>2, <3>3, <3>4 DEF Unreferenced
  <2>4. CASE WorkerFinish(w) \/ WorkerLost(w)
    <3>1. wk[w] \in Message /\ wk[w].id # r /\ wk' = [wk EXCEPT ![w] = Nil]
      BY <2>4 DEF WorkerFinish, WorkerLost, TypeOK, Unreferenced, Working
    <3>2. \A i \in 1..Len(results') : results'[i].id # r
      BY <2>1, <2>4, <3>1 DEF WorkerFinish, WorkerLost, Unreferenced
    <3>3. Working(r)' = {}
      BY <3>1 DEF Working, Unreferenced, TypeOK
    <3> QED  BY <1>1, <1>2, <2>2, <3>2, <3>3 DEF Unreferenced
  <2> QED  BY <1>3, <2>3, <2>4 DEF Work
<1>4. CASE ConsumerTake
  <2>1. /\ results \in Seq(Result) /\ results # <<>> /\ hand' = Head(results)
        /\ results' = Tail(results) /\ \A i \in 1..Len(results) : results[i].id # r
    BY <1>4 DEF ConsumerTake, TypeOK, Unreferenced
  <2>2. hand'.id # r /\ \A i \in 1..Len(results') : results'[i].id # r
    BY <2>1
  <2> QED  BY <1>1, <1>2, <1>4, <2>2 DEF ConsumerTake, Unreferenced, Working
<1>5. CASE UNCHANGED <<wk, results>> /\ (hand' = hand \/ hand' = Nil)
  BY <1>1, <1>2, <1>5 DEF Unreferenced, Working
<1>6. \/ UNCHANGED <<wk, results>> /\ (hand' = hand \/ hand' = Nil)
      \/ \E w \in Workers : Work(w) \/ WorkerLost(w)
      \/ ConsumerTake
  BY DEF Next, Publish, PubExpireQueued, PubExpireRunning, PubFetch, PubSkip, PubDetached,
         PubProduce, PubReject, PubStamp, PubMark, PubRetry, PubFaults, PubProduceFails,
         PubAbort, PubStatementFails, Consume, ConsumerWrite, ConsumerFails, CancelRead,
         CancelStep, CancelDrop, CancelDropFails, CancelWrite, Purge, Crash, Age, Rest, vars, workVars
<1> QED  BY <1>3, <1>4, <1>5, <1>6

(* A canceled runner stays canceled, and is not taken up again, unless     *)
(* something under way referred to it when it was canceled.                *)
THEOREM CancelKept == Spec => CancelSticks
<1>1. ASSUME RunnerInv, [Next]_vars, NEW r \in Runners, status[r] = "CANCELED", Unreferenced(r)
      PROVE  status'[r] \in {"CANCELED", "DELETED"} /\ Unreferenced(r)'
  <2>1. status'[r] \in {"CANCELED", "DELETED"}
    BY <1>1, StepWrites DEF RunnerInv, Unreferenced
  <2> QED  BY <1>1, <2>1, StepUnreferenced DEF RunnerInv
<1>2. RunnerInv /\ [Next]_vars =>
        [\A r \in Runners :
          status[r] = "CANCELED" /\ Unreferenced(r) =>
              status'[r] \in {"CANCELED", "DELETED"} /\ Unreferenced(r)']_vars
  BY <1>1
<1> QED  BY <1>2, RunnerInitInv, RunnerStepInv, PTL DEF Spec, CancelSticks

-----------------------------------------------------------------------------
(* What a row says was earned. *)

(* A message the stream has taken; a row one of whose attempts it has.     *)
Stored(m)   == m.copy < launches[m.id][m.attempt]
Launched(r) == \E a \in Attempts : launches[r][a] > 0

QueueEarned  == \A m \in queue : Stored(m)
WorkEarned   == \A w \in Workers : wk[w] # Nil => Stored(wk[w])
AnswerEarned == /\ \A i \in 1..Len(results) : Launched(results[i].id)
                /\ hand # Nil => Launched(hand.id)

(* Between sending and marking, the publisher holds the number of what it  *)
(* has just sent.                                                          *)
TicketEarned ==
    \A p \in Publishers : pc[p] \in {"stamp", "mark"} =>
        ticket[p] \in Message /\ ticket[p].id = Current(p).id /\ Stored(ticket[p])

(* The number in a row, and the one a cancel request has read there, are   *)
(* those of one of the row's own messages.                                 *)
NumberEarned == \A r \in Runners : seq[r] # Nil => seq[r].id = r /\ Stored(seq[r])
ViewEarned   == \A x \in view : x.seq # Nil => x.seq.id = x.id

StatusEarned == /\ \A r \in Runners : status[r] \in {"QUEUED", "IN_PROGRESS", "SUCCEEDED"} => Launched(r)
                /\ \A r \in succeeded : Launched(r)

EarnedInv == /\ QueueEarned /\ WorkEarned /\ AnswerEarned /\ TicketEarned
             /\ NumberEarned /\ ViewEarned /\ StatusEarned

(* What is stored stays counted. *)
Grown == \A r \in Runners, a \in Attempts :
            /\ launches[r][a] \in Nat /\ launches'[r][a] \in Nat
            /\ launches[r][a] <= launches'[r][a]

LEMMA StepGrown ==
    ASSUME TypeOK, BatchInv, [Next]_vars
    PROVE  Grown
<1>0. TypeOK'
  BY StepInv
<1>1. \A r \in Runners, a \in Attempts : launches[r][a] \in Nat /\ launches'[r][a] \in Nat
  BY <1>0 DEF TypeOK
<1>2. ASSUME NEW p \in Publishers, NEW c \in Copies, Publishing(p), Store(Current(p), c)
      PROVE  Grown
  <2>1. pc[p] \in {"publish", "produce"}
    BY <1>2 DEF Publishing
  <2>2. Current(p) \in Item
    BY <2>1, CurrentInBatch DEF BatchInv, TypeOK
  <2>3. ASSUME NEW r \in Runners, NEW a \in Attempts
        PROVE  launches[r][a] <= launches'[r][a]
    <3> DEFINE y == [id |-> r, attempt |-> a]
    <3>1. y \in Item
      BY DEF Item
    <3>2. \/ launches'[y.id][y.attempt] = launches[y.id][y.attempt]
          \/ launches'[y.id][y.attempt] = launches[y.id][y.attempt] + 1
      BY <1>2, <2>2, <3>1, StoreType
    <3> QED  BY <1>1, <3>2
  <2> QED  BY <1>1, <2>3 DEF Grown
<1>3. ASSUME launches' = launches
      PROVE  Grown
  BY <1>1, <1>3 DEF Grown
<1>4. ASSUME NEW p \in Publishers, Publish(p) \/ PubFaults(p)
      PROVE  Grown
  BY <1>2, <1>3, <1>4 DEF Publish, PubExpireQueued, PubExpireRunning, PubFetch, PubSkip, PubDetached,
                          PubProduce, PubReject, PubStamp, PubMark, PubRetry, PubFaults, PubProduceFails,
                          PubAbort, PubStatementFails, histVars
<1>5. \/ launches' = launches
      \/ \E p \in Publishers : Publish(p) \/ PubFaults(p)
  BY DEF Next, Work, WorkerTake, WorkerFinish, WorkerLost, Consume, ConsumerTake, ConsumerWrite,
         ConsumerFails, CancelRead, CancelStep, CancelDrop, CancelDropFails, CancelWrite, Purge, Crash,
         Age, Rest, vars, histVars
<1> QED  BY <1>3, <1>4, <1>5

LEMMA StoredStays ==
    ASSUME Grown, NEW m \in Message, m.copy < launches[m.id][m.attempt]
    PROVE  m.copy < launches'[m.id][m.attempt]
<1>1. m.id \in Runners /\ m.attempt \in Attempts /\ m.copy \in Nat
  BY DEF Message, Copies
<1> QED  BY <1>1 DEF Grown

LEMMA LaunchedStays ==
    ASSUME Grown, NEW r \in Runners, Launched(r)
    PROVE  \E a \in Attempts : launches'[r][a] > 0
BY DEF Grown, Launched, Attempts

(* A message that is stored is one of its row. *)
LEMMA StoredLaunched ==
    ASSUME TypeOK, NEW m \in Message, Stored(m)
    PROVE  m.id \in Runners /\ Launched(m.id)
<1>1. m.id \in Runners /\ m.attempt \in Attempts /\ m.copy \in Nat
  BY DEF Message, Copies
<1>2. launches[m.id][m.attempt] \in Nat
  BY <1>1 DEF TypeOK
<1> QED  BY <1>1, <1>2 DEF Stored, Launched

(* A call that sends leaves the message it says it has sent. *)
LEMMA StoreEarned ==
    ASSUME TypeOK, NEW x \in Item, NEW c \in Copies, Store(x, c)
    PROVE  LET m == [id |-> x.id, attempt |-> x.attempt, copy |-> c]
           IN  /\ m \in Message /\ m.copy < launches'[m.id][m.attempt]
               /\ queue' \subseteq queue \cup {m}
<1> DEFINE n == launches[x.id][x.attempt]
           m == [id |-> x.id, attempt |-> x.attempt, copy |-> c]
<1>1. /\ x.id \in Runners /\ x.attempt \in Attempts /\ n \in Nat
      /\ launches \in [Runners -> [Attempts -> Nat]]
  BY DEF TypeOK, Item
<1>2. m \in Message
  BY <1>1 DEF Message
<1>3. CASE n > 0 /\ c = n - 1 /\ UNCHANGED <<queue, launches>>
  BY <1>1, <1>2, <1>3
<1>4. CASE /\ c = n /\ queue' = queue \cup {m}
           /\ launches' = [launches EXCEPT ![x.id][x.attempt] = n + 1]
  <2>1. launches'[x.id][x.attempt] = n + 1
    BY <1>1, <1>4
  <2> QED  BY <1>1, <1>2, <1>4, <2>1
<1> QED  BY <1>3, <1>4 DEF Store
(* Who does what to the queue, and to the answers. *)
LEMMA StepQueue ==
    ASSUME TypeOK, BatchInv, EarnedInv, [Next]_vars
    PROVE  QueueEarned'
<1>0. Grown /\ queue \subseteq Message
  BY StepGrown DEF TypeOK
<1>1. \A m \in queue : m \in Message /\ m.copy < launches'[m.id][m.attempt]
  BY <1>0, StoredStays DEF EarnedInv, QueueEarned, Stored
<1>2. ASSUME queue' \subseteq queue
      PROVE  QueueEarned'
  BY <1>1, <1>2 DEF QueueEarned, Stored
<1>3. ASSUME NEW p \in Publishers, NEW c \in Copies, Publishing(p), Store(Current(p), c)
      PROVE  QueueEarned'
  <2>1. pc[p] \in {"publish", "produce"}
    BY <1>3 DEF Publishing
  <2>2. Current(p) \in Item
    BY <2>1, CurrentInBatch DEF BatchInv, TypeOK
  <2> DEFINE m == [id |-> Current(p).id, attempt |-> Current(p).attempt, copy |-> c]
  <2>3. m.copy < launches'[m.id][m.attempt] /\ queue' \subseteq queue \cup {m}
    BY <1>3, <2>2, StoreEarned
  <2> HIDE DEF m
  <2> QED  BY <1>1, <2>3 DEF QueueEarned, Stored
<1>4. ASSUME NEW p \in Publishers, Publish(p) \/ PubFaults(p)
      PROVE  QueueEarned'
  BY <1>2, <1>3, <1>4 DEF Publish, PubExpireQueued, PubExpireRunning, PubFetch, PubSkip, PubDetached,
                          PubProduce, PubReject, PubStamp, PubMark, PubRetry, PubFaults, PubProduceFails,
                          PubAbort, PubStatementFails, workVars
<1>5. \/ queue' \subseteq queue
      \/ \E p \in Publishers : Publish(p) \/ PubFaults(p)
  BY DEF Next, Work, WorkerTake, WorkerFinish, WorkerLost, Consume, ConsumerTake, ConsumerWrite,
         ConsumerFails, CancelRead, CancelStep, CancelDrop, CancelDropFails, CancelWrite, Purge, Crash,
         Age, Rest, vars, workVars
<1> QED  BY <1>2, <1>4, <1>5

LEMMA StepWork ==
    ASSUME TypeOK, BatchInv, EarnedInv, [Next]_vars
    PROVE  WorkEarned'
<1>1. \A w \in Workers : wk'[w] # Nil => wk'[w] = wk[w] \/ wk'[w] \in queue
  <2>1. ASSUME NEW w \in Workers, Work(w) \/ WorkerLost(w)
        PROVE  \A v \in Workers : wk'[v] # Nil => wk'[v] = wk[v] \/ wk'[v] \in queue
    BY <2>1 DEF Work, WorkerTake, WorkerFinish, WorkerLost, TypeOK
  <2>2. wk' = wk \/ \E w \in Workers : Work(w) \/ WorkerLost(w)
    BY DEF Next, Publish, PubExpireQueued, PubExpireRunning, PubFetch, PubSkip, PubDetached,
           PubProduce, PubReject, PubStamp, PubMark, PubRetry, PubFaults, PubProduceFails,
           PubAbort, PubStatementFails, Consume, ConsumerTake, ConsumerWrite,
           ConsumerFails, CancelRead, CancelStep, CancelDrop, CancelDropFails, CancelWrite, Purge, Crash,
           Age, Rest, vars, workVars
  <2> QED  BY <2>1, <2>2
<1>2. \A w \in Workers : wk'[w] # Nil => wk'[w] \in Message /\ Stored(wk'[w])
  BY <1>1 DEF EarnedInv, QueueEarned, WorkEarned, TypeOK
<1> QED  BY <1>2, StepGrown, StoredStays DEF WorkEarned, Stored

LEMMA StepAnswer ==
    ASSUME TypeOK, BatchInv, EarnedInv, [Next]_vars
    PROVE  AnswerEarned'
<1>0. Grown /\ results \in Seq(Result) /\ hand \in Result \cup {Nil}
  BY StepGrown DEF TypeOK
<1>1. /\ \A i \in 1..Len(results) : results[i] \in Result /\ results[i].id \in Runners
      /\ hand # Nil => hand.id \in Runners
  <2>1. \A e \in Result : e.id \in Runners
    BY DEF Result
  <2>2. \A i \in 1..Len(results) : results[i] \in Result
    BY <1>0
  <2> QED  BY <1>0, <2>1, <2>2
<1>2. /\ \A i \in 1..Len(results) : \E a \in Attempts : launches'[results[i].id][a] > 0
      /\ hand # Nil => \E a \in Attempts : launches'[hand.id][a] > 0
  <2>1. \A r \in Runners : Launched(r) => \E a \in Attempts : launches'[r][a] > 0
    BY <1>0, LaunchedStays
  <2>2. \A i \in 1..Len(results) : Launched(results[i].id)
    BY DEF EarnedInv, AnswerEarned
  <2>3. hand # Nil => Launched(hand.id)
    BY DEF EarnedInv, AnswerEarned
  <2> QED  BY <1>1, <2>1, <2>2, <2>3
<1>3. ASSUME results' = results, hand' \in {hand, Nil}
      PROVE  AnswerEarned'
  BY <1>2, <1>3 DEF AnswerEarned, Launched
<1>4. ASSUME NEW m \in Message, Stored(m), NEW st \in {"IN_PROGRESS", "SUCCEEDED", "FAILED"},
             Answer(m, st), hand' = hand
      PROVE  AnswerEarned'
  <2>1. \E a \in Attempts : launches'[m.id][a] > 0
    BY <1>0, <1>4, StoredLaunched, LaunchedStays
  <2>2. Reported(m, st) \in Result /\ Reported(m, st).id = m.id
    BY DEF Reported, Result, Message
  <2>3. CASE results' = Append(results, Reported(m, st))
    <3>1. \A i \in 1..Len(results') : results'[i] = Reported(m, st) \/
                                       (i \in 1..Len(results) /\ results'[i] = results[i])
      BY <1>0, <2>2, <2>3, Appended
    <3> QED  BY <1>2, <1>4, <2>1, <2>2, <3>1 DEF AnswerEarned, Launched
  <2> QED  BY <1>3, <1>4, <2>3 DEF Answer
<1>5. ASSUME NEW w \in Workers, Work(w) \/ WorkerLost(w)
      PROVE  AnswerEarned'
  <2>1. CASE WorkerTake(w)
    <3>1. PICK m \in queue : Answer(m, "IN_PROGRESS")
      BY <2>1 DEF WorkerTake
    <3> QED  BY <1>4, <2>1, <3>1 DEF WorkerTake, EarnedInv, QueueEarned, TypeOK
  <2>2. CASE WorkerFinish(w)
    <3>1. wk[w] \in Message /\ Stored(wk[w])
      BY <2>2 DEF WorkerFinish, EarnedInv, WorkEarned, TypeOK
    <3> QED  BY <1>4, <2>2, <3>1 DEF WorkerFinish
  <2>3. CASE WorkerLost(w)
    BY <1>3, <2>3 DEF WorkerLost
  <2> QED  BY <1>5, <2>1, <2>2, <2>3 DEF Work
<1>6. CASE ConsumerTake
  <2>1. /\ Head(results) = results[1] /\ Len(results) \in Nat \ {0}
        /\ Len(results') = Len(results) - 1
        /\ \A i \in 1..Len(results') : results'[i] = results[i + 1]
    BY <1>0, <1>6 DEF ConsumerTake
  <2> QED  BY <1>2, <1>6, <2>1 DEF ConsumerTake, AnswerEarned, Launched
<1>7. CASE ConsumerWrite \/ ConsumerFails \/ Crash
  BY <1>3, <1>7 DEF ConsumerWrite, ConsumerFails, Crash
<1>8. \/ UNCHANGED <<results, hand>>
      \/ \E w \in Workers : Work(w) \/ WorkerLost(w)
      \/ ConsumerTake \/ ConsumerWrite \/ ConsumerFails \/ Crash
  BY DEF Next, Publish, PubExpireQueued, PubExpireRunning, PubFetch, PubSkip, PubDetached,
         PubProduce, PubReject, PubStamp, PubMark, PubRetry, PubFaults, PubProduceFails,
         PubAbort, PubStatementFails, Consume, CancelRead, CancelStep, CancelDrop, CancelDropFails,
         CancelWrite, Purge, Age, Rest, vars, workVars
<1> QED  BY <1>3, <1>5, <1>6, <1>7, <1>8

(* The publisher's number, and the numbers in the rows. *)
LEMMA StepTicket ==
    ASSUME TypeOK, BatchInv, EarnedInv, [Next]_vars
    PROVE  TicketEarned'
<1> SUFFICES ASSUME NEW p \in Publishers, pc'[p] \in {"stamp", "mark"}
             PROVE  ticket'[p] \in Message /\ ticket'[p].id = Current(p)'.id
                    /\ ticket'[p].copy < launches'[ticket'[p].id][ticket'[p].attempt]
  BY DEF TicketEarned, Stored
<1>0. Grown
  BY StepGrown
<1>1. CASE pc[p] \in {"stamp", "mark"} /\ batch'[p] = batch[p] /\ ticket'[p] = ticket[p]
  <2>1. ticket[p] \in Message /\ ticket[p].id = Current(p).id /\ Stored(ticket[p])
    BY <1>1 DEF EarnedInv, TicketEarned
  <2>2. Current(p)' = Current(p)
    BY <1>1, CurrentSame
  <2> QED  BY <1>0, <1>1, <2>1, <2>2, StoredStays DEF Stored
<1>2. CASE PubProduce(p)
  <2>1. pc[p] \in {"publish", "produce"} /\ batch'[p] = batch[p]
    BY <1>2 DEF PubProduce, Publishing
  <2>2. Current(p) \in Item /\ Current(p)' = Current(p)
    BY <2>1, CurrentInBatch, CurrentSame DEF BatchInv, TypeOK
  <2>3. PICK c \in Copies :
           /\ Store(Current(p), c)
           /\ ticket' = [ticket EXCEPT ![p] =
                [id |-> Current(p).id, attempt |-> Current(p).attempt, copy |-> c]]
    BY <1>2 DEF PubProduce
  <2> DEFINE m == [id |-> Current(p).id, attempt |-> Current(p).attempt, copy |-> c]
  <2>4. m \in Message /\ m.copy < launches'[m.id][m.attempt]
    BY <2>2, <2>3, StoreEarned
  <2>5. ticket'[p] = m /\ m.id = Current(p).id
    BY <2>3 DEF TypeOK
  <2> HIDE DEF m
  <2> QED  BY <2>2, <2>4, <2>5
<1>3. ASSUME NEW q \in Publishers, Publish(q) \/ PubFaults(q), ~PubProduce(p)
      PROVE  pc[p] \in {"stamp", "mark"} /\ batch'[p] = batch[p] /\ ticket'[p] = ticket[p]
  BY <1>3 DEF Publish, PubExpireQueued, PubExpireRunning, PubFetch, PubSkip, PubDetached,
              PubProduce, PubReject, PubStamp, PubMark, PubRetry, PubFaults, PubProduceFails,
              PubAbort, PubStatementFails, Advance, Goto, TypeOK
<1>4. \/ UNCHANGED pubVars
      \/ \E q \in Publishers : Publish(q) \/ PubFaults(q)
      \/ Crash
  BY DEF Next, Work, WorkerTake, WorkerFinish, WorkerLost, Consume, ConsumerTake, ConsumerWrite,
         ConsumerFails, CancelRead, CancelStep, CancelDrop, CancelDropFails, CancelWrite, Purge,
         Age, Rest, vars, pubVars
<1>5. ~Crash
  BY DEF Crash
<1> QED  BY <1>1, <1>2, <1>3, <1>4, <1>5 DEF pubVars
LEMMA StepNumber ==
    ASSUME TypeOK, BatchInv, EarnedInv, [Next]_vars
    PROVE  NumberEarned'
<1>1. \A r \in Runners : seq'[r] # Nil =>
         /\ seq'[r] \in Message /\ seq'[r].id = r
         /\ seq'[r].copy < launches[seq'[r].id][seq'[r].attempt]
  <2>1. \A r \in Runners : seq[r] # Nil =>
           /\ seq[r] \in Message /\ seq[r].id = r
           /\ seq[r].copy < launches[seq[r].id][seq[r].attempt]
    BY DEF EarnedInv, NumberEarned, Stored, TypeOK
  <2>2. ASSUME NEW p \in Publishers, PubStamp(p)
        PROVE  \A r \in Runners : seq'[r] = seq[r] \/ (r = Current(p).id /\ seq'[r] = ticket[p])
    BY <2>2 DEF PubStamp, TypeOK
  <2>3. ASSUME NEW p \in Publishers, PubStamp(p)
        PROVE  /\ ticket[p] \in Message /\ ticket[p].id = Current(p).id
               /\ ticket[p].copy < launches[ticket[p].id][ticket[p].attempt]
    BY <2>3 DEF PubStamp, EarnedInv, TicketEarned, Stored
  <2>4. seq' = seq \/ \E p \in Publishers : PubStamp(p)
    BY DEF Next, Publish, PubExpireQueued, PubExpireRunning, PubFetch, PubSkip, PubDetached,
           PubProduce, PubReject, PubMark, PubRetry, PubFaults, PubProduceFails,
           PubAbort, PubStatementFails, Work, WorkerTake, WorkerFinish, WorkerLost, Consume,
           ConsumerTake, ConsumerWrite, ConsumerFails, CancelRead, CancelStep, CancelDrop,
           CancelDropFails, CancelWrite, Purge, Crash, Age, Rest, vars, rowVars
  <2> QED  BY <2>1, <2>2, <2>3, <2>4
<1> QED  BY <1>1, StepGrown, StoredStays DEF NumberEarned, Stored

LEMMA StepView ==
    ASSUME TypeOK, BatchInv, EarnedInv, [Next]_vars
    PROVE  ViewEarned'
<1>1. ASSUME view' \subseteq view
      PROVE  ViewEarned'
  BY <1>1 DEF EarnedInv, ViewEarned
<1>2. CASE CancelRead
  BY <1>2 DEF CancelRead, EarnedInv, NumberEarned, ViewEarned
<1>3. ASSUME NEW x \in view, CancelDrop(x)
      PROVE  ViewEarned'
  <2>1. x \in ViewItem
    BY DEF TypeOK
  <2>2. [x EXCEPT !.status = "DROPPED"].id = x.id /\ [x EXCEPT !.status = "DROPPED"].seq = x.seq
    BY <2>1 DEF ViewItem
  <2> QED  BY <1>3, <2>2 DEF CancelDrop, EarnedInv, ViewEarned
<1>4. \/ view' \subseteq view \/ CancelRead
      \/ \E x \in view : CancelDrop(x)
  BY DEF Next, Publish, PubExpireQueued, PubExpireRunning, PubFetch, PubSkip, PubDetached,
         PubProduce, PubReject, PubStamp, PubMark, PubRetry, PubFaults, PubProduceFails,
         PubAbort, PubStatementFails, Work, WorkerTake, WorkerFinish, WorkerLost, Consume,
         ConsumerTake, ConsumerWrite, ConsumerFails, CancelStep, CancelDropFails, CancelWrite,
         Purge, Crash, Age, Rest, vars, canVars
<1> QED  BY <1>1, <1>2, <1>3, <1>4

(* A write of a status that is to be earned, to rows that have earned it. *)
LEMMA WriteEarned ==
    ASSUME TypeOK, EarnedInv, Grown, NEW S \in SUBSET Runners, NEW st, Write(S, st),
           st \in {"QUEUED", "IN_PROGRESS", "SUCCEEDED"} => \A r \in S : Launched(r)
    PROVE  StatusEarned'
<1>1. \A r \in Runners : Launched(r) => \E a \in Attempts : launches'[r][a] > 0
  BY LaunchedStays
<1>2. ASSUME NEW r \in Runners,
             status'[r] \in {"QUEUED", "IN_PROGRESS", "SUCCEEDED"} \/ r \in succeeded'
      PROVE  Launched(r)
  BY <1>2 DEF Write, EarnedInv, StatusEarned
<1>3. succeeded' \subseteq Runners
  BY DEF Write, TypeOK
<1> QED  BY <1>1, <1>2, <1>3 DEF StatusEarned, Launched

LEMMA StepStatus ==
    ASSUME TypeOK, BatchInv, EarnedInv, [Next]_vars
    PROVE  StatusEarned'
<1>0. Grown
  BY StepGrown
<1>1. ASSUME UNCHANGED <<status, succeeded>>
      PROVE  StatusEarned'
  <2>1. \A r \in Runners : Launched(r) => \E a \in Attempts : launches'[r][a] > 0
    BY <1>0, LaunchedStays
  <2>2. succeeded \subseteq Runners
    BY DEF TypeOK
  <2>3. /\ \A r \in Runners : status[r] \in {"QUEUED", "IN_PROGRESS", "SUCCEEDED"} => Launched(r)
        /\ \A r \in succeeded : Launched(r)
    BY DEF EarnedInv, StatusEarned
  <2>4. /\ \A r \in Runners : status[r] \in {"QUEUED", "IN_PROGRESS", "SUCCEEDED"} =>
                \E a \in Attempts : launches'[r][a] > 0
        /\ \A r \in succeeded : \E a \in Attempts : launches'[r][a] > 0
    BY <2>1, <2>2, <2>3
  <2> QED  BY <1>1, <2>4 DEF StatusEarned, Launched
<1>2. ASSUME NEW p \in Publishers, PubExpireQueued(p) \/ PubExpireRunning(p) \/ PubRetry(p)
      PROVE  StatusEarned'
  <2>1. PICK S \in SUBSET Runners, st \in {"TIMEOUT", "CREATED"} : Write(S, st)
    BY <1>2 DEF PubExpireQueued, PubExpireRunning, PubRetry, Retryable, TypeOK
  <2> QED  BY <1>0, <2>1, WriteEarned
<1>3. ASSUME NEW p \in Publishers, PubDetached(p) \/ PubReject(p) \/ PubMark(p)
      PROVE  StatusEarned'
  <2>1. Current(p) \in Item
    BY <1>3, CurrentInBatch DEF PubDetached, PubReject, PubMark, BatchInv, TypeOK
  <2>2. {Current(p).id} \in SUBSET Runners
    BY <2>1 DEF Item
  <2>3. CASE PubMark(p)
    <3>1. ticket[p] \in Message /\ ticket[p].id = Current(p).id /\ Stored(ticket[p])
      BY <2>3 DEF PubMark, EarnedInv, TicketEarned
    <3>2. Launched(Current(p).id)
      BY <3>1, StoredLaunched
    <3> QED  BY <1>0, <2>2, <2>3, <3>2, WriteEarned DEF PubMark
  <2>4. CASE PubDetached(p) \/ PubReject(p)
    BY <1>0, <2>2, <2>4, WriteEarned DEF PubDetached, PubReject
  <2> QED  BY <1>3, <2>3, <2>4
<1>4. CASE ConsumerWrite
  <2>1. hand \in Result /\ Launched(hand.id)
    BY <1>4 DEF ConsumerWrite, EarnedInv, AnswerEarned, TypeOK
  <2>2. {hand.id} \in SUBSET Runners
    BY <2>1 DEF Result
  <2> QED  BY <1>0, <1>4, <2>1, <2>2, WriteEarned DEF ConsumerWrite
<1>5. ASSUME NEW x \in view, CancelWrite(x)
      PROVE  StatusEarned'
  <2>1. {x.id} \in SUBSET Runners
    BY DEF TypeOK, ViewItem
  <2> QED  BY <1>0, <1>5, <2>1, WriteEarned DEF CancelWrite
<1>6. CASE Purge
  BY <1>0, <1>6, WriteEarned DEF Purge
<1>7. \/ UNCHANGED <<status, succeeded>>
      \/ \E p \in Publishers : PubExpireQueued(p) \/ PubExpireRunning(p) \/ PubRetry(p)
      \/ \E p \in Publishers : PubDetached(p) \/ PubReject(p) \/ PubMark(p)
      \/ ConsumerWrite \/ Purge
      \/ \E x \in view : CancelWrite(x)
  BY DEF Next, Publish, PubFetch, PubSkip, PubProduce, PubStamp, PubFaults, PubProduceFails,
         PubAbort, PubStatementFails, Work, WorkerTake, WorkerFinish, WorkerLost, Consume,
         ConsumerTake, ConsumerFails, CancelRead, CancelStep, CancelDrop, CancelDropFails, Crash,
         Age, Rest, vars, rowVars, histVars
<1> QED  BY <1>1, <1>2, <1>3, <1>4, <1>5, <1>6, <1>7

LEMMA EarnedStep == TypeOK /\ BatchInv /\ EarnedInv /\ [Next]_vars => EarnedInv'
BY StepQueue, StepWork, StepAnswer, StepTicket, StepNumber, StepView, StepStatus, Zenon DEF EarnedInv

LEMMA EarnedInit == Init => EarnedInv
BY DEF Init, EarnedInv, QueueEarned, WorkEarned, AnswerEarned, TicketEarned, NumberEarned,
       ViewEarned, StatusEarned

(* No row is QUEUED, IN_PROGRESS or SUCCEEDED, and none has ever been      *)
(* SUCCEEDED, unless the queue had taken one of its attempts: whichever of *)
(* the calls, statements and answers were lost.                            *)
THEOREM StatusIsEarned == Spec => []StatusEarned
<1>1. EarnedInv => StatusEarned
  BY DEF EarnedInv
<1> QED  BY <1>1, EarnedInit, EarnedStep, TypeCorrect, PTL DEF Spec

(* A message leaves the queue to a worker, or is deleted by a cancel       *)
(* request that has read its own row as QUEUED: the number in a row, which *)
(* is written after the message is sent and may be that of an earlier      *)
(* attempt, is never that of another row's message.                        *)
TakenOrDeleted == \A m \in queue \ queue' :
                      \/ \E w \in Workers : wk'[w] = m
                      \/ \E x \in view : x.id = m.id /\ x.status = "QUEUED"

THEOREM OwnMessageDeleted == Spec => [][TakenOrDeleted]_vars
<1>1. TypeOK /\ BatchInv /\ EarnedInv /\ [Next]_vars => [TakenOrDeleted]_vars
  <2> SUFFICES ASSUME TypeOK, BatchInv, EarnedInv, Next, NEW m \in queue \ queue'
               PROVE  \/ \E w \in Workers : wk'[w] = m
                      \/ \E x \in view : x.id = m.id /\ x.status = "QUEUED"
    BY DEF TakenOrDeleted
  <2>1. ASSUME NEW w \in Workers, WorkerTake(w)
        PROVE  wk'[w] = m
    BY <2>1 DEF WorkerTake, TypeOK
  <2>2. ASSUME NEW x \in view, CancelDrop(x)
        PROVE  x.id = m.id /\ x.status = "QUEUED"
    BY <2>2 DEF CancelDrop, EarnedInv, ViewEarned
  <2>3. ASSUME NEW p \in Publishers, NEW c \in Copies, Publishing(p), Store(Current(p), c)
        PROVE  FALSE
    BY <2>3 DEF Store
  <2>4. ASSUME NEW p \in Publishers, Publish(p) \/ PubFaults(p)
        PROVE  FALSE
    BY <2>3, <2>4 DEF Publish, PubExpireQueued, PubExpireRunning, PubFetch, PubSkip, PubDetached,
                      PubProduce, PubReject, PubStamp, PubMark, PubRetry, PubFaults, PubProduceFails,
                      PubAbort, PubStatementFails, workVars
  <2>5. \/ \E w \in Workers : WorkerTake(w)
        \/ \E x \in view : CancelDrop(x)
        \/ \E p \in Publishers : Publish(p) \/ PubFaults(p)
    BY DEF Next, Work, WorkerFinish, WorkerLost, Consume, ConsumerTake, ConsumerWrite,
           ConsumerFails, CancelRead, CancelStep, CancelDropFails, CancelWrite, Purge, Crash,
           Age, Rest, workVars
  <2> QED  BY <2>1, <2>2, <2>4, <2>5
<1> QED  BY <1>1, EarnedInit, EarnedStep, TypeCorrect, PTL DEF Spec
=============================================================================
