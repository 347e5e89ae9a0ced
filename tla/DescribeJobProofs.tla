------------------------- MODULE DescribeJobProofs --------------------------
(***************************************************************************)
(* Proofs about DescribeJob, for every number of jobs, tries, pages,       *)
(* requests, cancel requests and faults.                                   *)
(***************************************************************************)
EXTENDS DescribeJob, TLAPS

(* The inductive invariant.  TypeOK needs AttemptInv: the sequence numbers *)
(* and copies of a job's message are bounded by how often it was sent.     *)
IInv == TypeOK /\ AttemptInv

USE DEF rowVars, makeVars, workVars, ansVars, delVars, canVars, Fault

(* What the statements that write a status leave of the types.             *)
RowsTyped == /\ status' \in [Jobs -> JobStatus \cup {"NONE"}]
             /\ since' \in [Jobs -> 0..Interval]
             /\ last' \in Jobs \cup {Nil}

(* No status becomes one from which a job is sent, or created. *)
NotSent == \A i \in Jobs : status'[i] # status[i] => status'[i] \notin {"CREATED", "NONE"}

(* Put writes one row, and keeps the types.                                *)
LEMMA PutType ==
    ASSUME TypeOK, NEW j \in Jobs, NEW st \in JobStatus, Put(j, st)
    PROVE  /\ RowsTyped
           /\ \A i \in Jobs : status'[i] = IF i = j THEN st ELSE status[i]
BY DEF TypeOK, Put, RowsTyped

(* PutStatus writes one row, and a status other than CREATED sends nothing. *)
LEMMA PutStatusType ==
    ASSUME TypeOK, NEW j \in Jobs, NEW st \in JobStatus \ {"CREATED"}, NEW code,
           PutStatus(j, st, code)
    PROVE  RowsTyped /\ denied' \subseteq Jobs /\ NotSent
<1>1. Put(j, st) /\ denied' \in {denied \cup {j}, denied \ {j}}
  BY DEF PutStatus
<1>2. RowsTyped /\ \A i \in Jobs : status'[i] = IF i = j THEN st ELSE status[i]
  BY <1>1, PutType
<1>3. denied \subseteq Jobs
  BY DEF TypeOK
<1> QED  BY <1>1, <1>2, <1>3 DEF NotSent, JobStatus

(* So does a write to many rows at once.                                   *)
LEMMA TouchType ==
    ASSUME TypeOK, NEW S \in SUBSET Jobs, NEW st \in JobStatus \ {"CREATED"}, Touch(S, st)
    PROVE  RowsTyped /\ NotSent
BY DEF TypeOK, Touch, Interval, RowsTyped, NotSent, JobStatus

(* What AttemptInv says of a job depends on these fields only, and a new   *)
(* status other than CREATED keeps it.                                     *)
AttemptSame ==
    /\ tries' = tries /\ stored' = stored /\ kind' = kind /\ faults' \in {faults, faults + 1}
    /\ NotSent
    /\ \A j \in Jobs : call'[j] \in {call[j], "idle"}
    /\ tretry' \subseteq tretry

LEMMA AttemptKept ==
    ASSUME TypeOK, AttemptInv, AttemptSame
    PROVE  AttemptInv'
<1> SUFFICES ASSUME NEW j \in Jobs
             PROVE  AttemptInv!(j)'
  BY DEF AttemptInv
<1> QED  BY DEF TypeOK, AttemptInv, AttemptSame, NotSent, Group

(* Steps that write no row. *)
LEMMA QuietSteps ==
    ASSUME TypeOK, AttemptInv, late' \subseteq Jobs,
           NEW m, NEW a, NEW x,
           \/ TickCheck
           \/ RequestCheck
           \/ TickFails
           \/ DescriberTake(m)
           \/ DeliverResult(m)
           \/ MessageLost
           \/ ConsumerTake(a)
           \/ ConsumerFails
           \/ DeleterList
           \/ DeleterRead(x)
           \/ DeleterErase
           \/ DeleterTask
           \/ DeleterFails
           \/ CancelDrop
           \/ CancelDropFails
    PROVE  TypeOK' /\ AttemptInv'
<1>1. CASE TickCheck
  <2>1. TypeOK'
    BY <1>1 DEF TypeOK, TickCheck
  <2>2. AttemptSame
    BY <1>1 DEF TypeOK, AttemptSame, NotSent, TickCheck
  <2> QED  BY <2>1, <2>2, AttemptKept
<1>2. CASE RequestCheck
  <2>1. TypeOK'
    BY <1>2, BoundAssumption DEF TypeOK, RequestCheck, Kinds
  <2>2. AttemptSame
    BY <1>2 DEF TypeOK, AttemptSame, NotSent, RequestCheck, Kinds
  <2> QED  BY <2>1, <2>2, AttemptKept
<1>3. CASE TickFails
  <2>1. TypeOK'
    BY <1>3, BoundAssumption DEF TypeOK, TickFails
  <2>2. AttemptSame
    BY <1>3 DEF TypeOK, AttemptSame, NotSent, TickFails
  <2> QED  BY <2>1, <2>2, AttemptKept
<1>4. CASE DescriberTake(m)
  <2>1. TypeOK'
    BY <1>4 DEF TypeOK, DescriberTake
  <2>2. AttemptSame
    BY <1>4 DEF TypeOK, AttemptSame, NotSent, DescriberTake
  <2> QED  BY <2>1, <2>2, AttemptKept
<1>5. CASE DeliverResult(m)
  <2>1. TypeOK'
    BY <1>5 DEF TypeOK, DeliverResult, Answer, Copy
  <2>2. AttemptSame
    BY <1>5 DEF TypeOK, AttemptSame, NotSent, DeliverResult, Answer, Copy
  <2> QED  BY <2>1, <2>2, AttemptKept
<1>6. CASE MessageLost
  <2>1. TypeOK'
    BY <1>6, BoundAssumption DEF TypeOK, MessageLost
  <2>2. AttemptSame
    BY <1>6 DEF TypeOK, AttemptSame, NotSent, MessageLost
  <2> QED  BY <2>1, <2>2, AttemptKept
<1>7. CASE ConsumerTake(a)
  <2>1. TypeOK'
    BY <1>7 DEF TypeOK, ConsumerTake, Cleanup, Answer, JobStatus
  <2>2. AttemptSame
    BY <1>7 DEF TypeOK, AttemptSame, NotSent, ConsumerTake, Cleanup, Answer, JobStatus
  <2> QED  BY <2>1, <2>2, AttemptKept
<1>8. CASE ConsumerFails
  <2>1. TypeOK'
    BY <1>8, BoundAssumption DEF TypeOK, ConsumerFails
  <2>2. AttemptSame
    BY <1>8 DEF TypeOK, AttemptSame, NotSent, ConsumerFails
  <2> QED  BY <2>1, <2>2, AttemptKept
<1>9. CASE DeleterList
  <2>1. TypeOK'
    BY <1>9 DEF TypeOK, DeleterList
  <2>2. AttemptSame
    BY <1>9 DEF TypeOK, AttemptSame, NotSent, DeleterList
  <2> QED  BY <2>1, <2>2, AttemptKept
<1>10. CASE DeleterRead(x)
  <2>1. TypeOK'
    BY <1>10 DEF TypeOK, DeleterRead
  <2>2. AttemptSame
    BY <1>10 DEF TypeOK, AttemptSame, NotSent, DeleterRead
  <2> QED  BY <2>1, <2>2, AttemptKept
<1>11. CASE DeleterErase
  <2>1. TypeOK'
    BY <1>11 DEF TypeOK, DeleterErase
  <2>2. AttemptSame
    BY <1>11 DEF TypeOK, AttemptSame, NotSent, DeleterErase
  <2> QED  BY <2>1, <2>2, AttemptKept
<1>12. CASE DeleterTask
  <2>1. TypeOK'
    BY <1>12 DEF TypeOK, DeleterTask
  <2>2. AttemptSame
    BY <1>12 DEF TypeOK, AttemptSame, NotSent, DeleterTask
  <2> QED  BY <2>1, <2>2, AttemptKept
<1>13. CASE DeleterFails
  <2>1. TypeOK'
    BY <1>13, BoundAssumption DEF TypeOK, DeleterFails
  <2>2. AttemptSame
    BY <1>13 DEF TypeOK, AttemptSame, NotSent, DeleterFails
  <2> QED  BY <2>1, <2>2, AttemptKept
<1>14. CASE CancelDrop
  <2>1. TypeOK'
    BY <1>14 DEF TypeOK, CancelDrop
  <2>2. AttemptSame
    BY <1>14 DEF TypeOK, AttemptSame, NotSent, CancelDrop
  <2> QED  BY <2>1, <2>2, AttemptKept
<1>15. CASE CancelDropFails
  <2>1. TypeOK'
    BY <1>15 DEF TypeOK, CancelDropFails
  <2>2. AttemptSame
    BY <1>15 DEF TypeOK, AttemptSame, NotSent, CancelDropFails
  <2> QED  BY <2>1, <2>2, AttemptKept
<1> QED  BY <1>1, <1>2, <1>3, <1>4, <1>5, <1>6, <1>7, <1>8, <1>9, <1>10,
            <1>11, <1>12, <1>13, <1>14, <1>15

(* Steps of one job that write no row.                                     *)
LEMMA QuietJobSteps ==
    ASSUME TypeOK, AttemptInv, late' \subseteq Jobs,
           NEW j \in Jobs,
           \/ CallLost(j)
           \/ CancelRead(j)
           \/ Age(j)
           \/ Tick(j)
    PROVE  TypeOK' /\ AttemptInv'
<1>1. CASE CallLost(j)
  <2>1. TypeOK'
    BY <1>1, BoundAssumption DEF TypeOK, CallLost, Goto
  <2>2. AttemptSame
    BY <1>1 DEF TypeOK, AttemptSame, NotSent, CallLost, Goto
  <2> QED  BY <2>1, <2>2, AttemptKept
<1>2. CASE CancelRead(j)
  <2>1. TypeOK'
    BY <1>2, BoundAssumption DEF TypeOK, CancelRead, JobStatus
  <2>2. AttemptSame
    BY <1>2 DEF TypeOK, AttemptSame, NotSent, CancelRead, JobStatus
  <2> QED  BY <2>1, <2>2, AttemptKept
<1>3. CASE Age(j)
  <2>1. TypeOK'
    BY <1>3 DEF TypeOK, Age, Created
  <2>2. AttemptSame
    BY <1>3 DEF TypeOK, AttemptSame, NotSent, Age, Created
  <2> QED  BY <2>1, <2>2, AttemptKept
<1>4. CASE Tick(j)
  <2>1. TypeOK'
    BY <1>4 DEF TypeOK, Tick, Created, Interval
  <2>2. AttemptSame
    BY <1>4 DEF TypeOK, AttemptSame, NotSent, Tick, Created, Interval
  <2> QED  BY <2>1, <2>2, AttemptKept
<1> QED  BY <1>1, <1>2, <1>3, <1>4

(* A row that gets a status by a plain write, whoever decided on it. *)
LEMMA StatusSteps ==
    ASSUME TypeOK, AttemptInv, late' \subseteq Jobs, NEW m,
           SetInProgress(m) \/ ConsumerWrite \/ DeleterWrite \/ CancelWrite
    PROVE  TypeOK' /\ AttemptInv'
<1>1. CASE SetInProgress(m)
  <2>1. /\ {m[1]} \in SUBSET Jobs /\ "IN_PROGRESS" \in JobStatus \ {"CREATED"}
        /\ Touch({m[1]}, "IN_PROGRESS")
    BY <1>1 DEF TypeOK, SetInProgress, JobStatus, Copy
  <2>2. RowsTyped /\ NotSent
    BY <2>1, TouchType
  <2>3. TypeOK'
    BY <1>1, <2>2 DEF TypeOK, RowsTyped, SetInProgress
  <2>4. AttemptSame
    BY <1>1, <2>2 DEF TypeOK, AttemptSame, SetInProgress
  <2> QED  BY <2>3, <2>4, AttemptKept
<1>2. CASE ConsumerWrite
  <2>1. /\ hand.answer.job \in Jobs /\ hand.status \in JobStatus \ {"CREATED"}
        /\ PutStatus(hand.answer.job, hand.status, hand.answer.outcome)
    BY <1>2 DEF TypeOK, ConsumerWrite, JobStatus, Answer
  <2>2. RowsTyped /\ denied' \subseteq Jobs /\ NotSent
    BY <2>1, PutStatusType
  <2>3. TypeOK'
    BY <1>2, <2>2 DEF TypeOK, RowsTyped, ConsumerWrite
  <2>4. AttemptSame
    BY <1>2, <2>2 DEF TypeOK, AttemptSame, ConsumerWrite
  <2> QED  BY <2>3, <2>4, AttemptKept
<1>3. CASE DeleterWrite
  <2>1. /\ dcur.job \in Jobs /\ "SUCCEEDED" \in JobStatus \ {"CREATED"}
        /\ PutStatus(dcur.job, "SUCCEEDED", "")
    BY <1>3 DEF TypeOK, DeleterWrite, JobStatus
  <2>2. RowsTyped /\ denied' \subseteq Jobs /\ NotSent
    BY <2>1, PutStatusType
  <2>3. TypeOK'
    BY <1>3, <2>2 DEF TypeOK, RowsTyped, DeleterWrite
  <2>4. AttemptSame
    BY <1>3, <2>2 DEF TypeOK, AttemptSame, DeleterWrite
  <2> QED  BY <2>3, <2>4, AttemptKept
<1>4. CASE CancelWrite
  <2>1. /\ cview.job \in Jobs /\ "CANCELED" \in JobStatus \ {"CREATED"}
        /\ PutStatus(cview.job, "CANCELED", "")
    BY <1>4 DEF TypeOK, CancelWrite, JobStatus
  <2>2. RowsTyped /\ denied' \subseteq Jobs /\ NotSent
    BY <2>1, PutStatusType
  <2>3. TypeOK'
    BY <1>4, <2>2 DEF TypeOK, RowsTyped, CancelWrite
  <2>4. AttemptSame
    BY <1>4, <2>2 DEF TypeOK, AttemptSame, CancelWrite
  <2> QED  BY <2>3, <2>4, AttemptKept
<1> QED  BY <1>1, <1>2, <1>3, <1>4

(* The same for a call that gives up and for the removal of resources.     *)
LEMMA StatusJobSteps ==
    ASSUME TypeOK, AttemptInv, late' \subseteq Jobs, NEW j \in Jobs,
           CallFail(j) \/ RemoveResources(j)
    PROVE  TypeOK' /\ AttemptInv'
<1>1. CASE CallFail(j)
  <2>1. "FAILED" \in JobStatus \ {"CREATED"} /\ PutStatus(j, "FAILED", "")
    BY <1>1 DEF TypeOK, CallFail, JobStatus
  <2>2. RowsTyped /\ denied' \subseteq Jobs /\ NotSent
    BY <2>1, PutStatusType
  <2>3. TypeOK'
    BY <1>1, <2>2 DEF TypeOK, RowsTyped, CallFail, Goto
  <2>4. AttemptSame
    BY <1>1, <2>2 DEF TypeOK, AttemptSame, CallFail, Goto
  <2> QED  BY <2>3, <2>4, AttemptKept
<1>2. CASE RemoveResources(j)
  <2>1. "SUCCEEDED" \in JobStatus \ {"CREATED"} /\ PutStatus(j, "SUCCEEDED", "")
    BY <1>2 DEF TypeOK, RemoveResources, JobStatus
  <2>2. RowsTyped /\ denied' \subseteq Jobs /\ NotSent
    BY <2>1, PutStatusType
  <2>3. TypeOK'
    BY <1>2, <2>2 DEF TypeOK, RowsTyped, RemoveResources
  <2>4. AttemptSame
    BY <1>2, <2>2 DEF TypeOK, AttemptSame, RemoveResources
  <2> QED  BY <2>3, <2>4, AttemptKept
<1> QED  BY <1>1, <1>2

(* A timeout makes rows FAILED or TIMEOUT, from where nothing is sent.      *)
LEMMA ExpireStep ==
    ASSUME TypeOK, AttemptInv, late' \subseteq Jobs, NEW st \in InProgress,
           Expire(st)
    PROVE  TypeOK' /\ AttemptInv'
<1>1. CASE Expire(st)
  <2> DEFINE ended == IF st \in {"QUEUED", "CREATED"} THEN "FAILED" ELSE "TIMEOUT"
  <2>1. /\ Overdue(st) \in SUBSET Jobs /\ ended \in JobStatus \ {"CREATED"}
        /\ Touch(Overdue(st), ended)
    BY <1>1 DEF TypeOK, Expire, JobStatus, Overdue
  <2>2. RowsTyped /\ NotSent
    BY <2>1, TouchType
  <2>3. TypeOK'
    BY <1>1, <2>2 DEF TypeOK, RowsTyped, Expire
  <2>4. AttemptSame
    BY <1>1, <2>2 DEF TypeOK, AttemptSame, Expire
  <2> QED  BY <2>3, <2>4, AttemptKept
<1> QED  BY <1>1

(* A job is created in a row that nothing was done with. *)
LEMMA CreateSteps ==
    ASSUME TypeOK, AttemptInv, late' \subseteq Jobs, TickCreate \/ RequestCreate
    PROVE  TypeOK' /\ AttemptInv'
<1>1. ASSUME NEW k \in Kinds, NEW st \in {"CREATED", "REMOVING_RESOURCES"}, CreateJob(k, st),
             UNCHANGED <<workVars, faults, tretry>>
      PROVE  /\ status' \in [Jobs -> JobStatus \cup {"NONE"}]
             /\ kind' \in [Jobs -> Kinds] /\ last' \in Jobs \cup {Nil}
             /\ UNCHANGED <<tries, seq, denied, since, old>>
             /\ AttemptInv'
  <2>1. PICK j \in Jobs \ Created : /\ status' = [status EXCEPT ![j] = st]
                                    /\ kind' = [kind EXCEPT ![j] = k]
                                    /\ last' = j
                                    /\ UNCHANGED <<tries, seq, denied, since, old>>
    BY <1>1 DEF CreateJob
  <2>2. status[j] = "NONE"
    BY <2>1 DEF Created
  <2>3. ASSUME NEW i \in Jobs
        PROVE  AttemptInv!(i)'
    BY <1>1, <2>1, <2>2, <2>3, BoundAssumption DEF TypeOK, AttemptInv, Group
  <2>4. AttemptInv'
    BY <2>3 DEF AttemptInv
  <2> QED  BY <1>1, <2>1, <2>4 DEF TypeOK, JobStatus
<1>2. CASE TickCreate
  <2>1. CASE \E st \in {"CREATED", "REMOVING_RESOURCES"} : CreateJob("scheduled", st)
    BY <1>1, <1>2, <2>1 DEF TypeOK, TickCreate, Kinds
  <2>2. CASE UNCHANGED rowVars
    <3>1. TypeOK'
      BY <1>2, <2>2 DEF TypeOK, TickCreate
    <3>2. AttemptSame
      BY <1>2, <2>2 DEF TypeOK, AttemptSame, NotSent, TickCreate
    <3> QED  BY <3>1, <3>2, AttemptKept
  <2> QED  BY <1>2, <2>1, <2>2 DEF TickCreate
<1>3. CASE RequestCreate
  <2>1. CASE CreateJob(request, "CREATED")
    <3>1. request \in Kinds
      BY <1>3 DEF TypeOK, RequestCreate
    <3> QED  BY <1>1, <1>3, <2>1, <3>1 DEF TypeOK, RequestCreate
  <2>2. CASE UNCHANGED rowVars
    <3>1. TypeOK'
      BY <1>3, <2>2 DEF TypeOK, RequestCreate
    <3>2. AttemptSame
      BY <1>3, <2>2 DEF TypeOK, AttemptSame, NotSent, RequestCreate
    <3> QED  BY <3>1, <3>2, AttemptKept
  <2> QED  BY <1>3, <2>1, <2>2 DEF RequestCreate
<1> QED  BY <1>2, <1>3

(* Only a job that failed within the limit is listed for a retry, and the  *)
(* retry makes it CREATED.                                                 *)
LEMMA RetrySteps ==
    ASSUME TypeOK, AttemptInv, late' \subseteq Jobs,
           RetryList \/ \E j \in Jobs : RetryWrite(j)
    PROVE  TypeOK' /\ AttemptInv'
<1>1. CASE RetryList
  <2>1. TypeOK'
    BY <1>1 DEF TypeOK, RetryList
  <2>2. ASSUME NEW i \in Jobs
        PROVE  AttemptInv!(i)'
    BY <1>1, BoundAssumption DEF TypeOK, AttemptInv, RetryList, Retryable, Group
  <2> QED  BY <2>1, <2>2 DEF AttemptInv
<1>2. ASSUME NEW j \in Jobs, RetryWrite(j)
      PROVE  TypeOK' /\ AttemptInv'
  <2>1. RowsTyped /\ \A i \in Jobs : status'[i] = IF i = j THEN "CREATED" ELSE status[i]
    BY <1>2, PutType DEF RetryWrite, JobStatus
  <2>2. TypeOK'
    BY <1>2, <2>1 DEF TypeOK, RowsTyped, RetryWrite
  <2>3. ASSUME NEW i \in Jobs
        PROVE  AttemptInv!(i)'
    BY <1>2, <2>1 DEF TypeOK, AttemptInv, RetryWrite, Group
  <2> QED  BY <2>2, <2>3 DEF AttemptInv
<1> QED  BY <1>1, <1>2

(* The cycle fetches jobs that are CREATED only.                           *)
LEMMA FetchStep ==
    ASSUME TypeOK, AttemptInv, late' \subseteq Jobs, NEW g \in Groups, CycleFetch(g)
    PROVE  TypeOK' /\ AttemptInv'
<1>1. PICK S \in SUBSET {j \in Jobs : status[j] = "CREATED" /\ Group(j) = g} :
         call' = [j \in Jobs |-> IF j \in S THEN "queue" ELSE call[j]]
  BY DEF CycleFetch
<1>2. TypeOK'
  BY <1>1 DEF TypeOK, CycleFetch
<1>3. ASSUME NEW i \in Jobs
      PROVE  AttemptInv!(i)'
  BY <1>1 DEF TypeOK, AttemptInv, CycleFetch, Group
<1> QED  BY <1>2, <1>3 DEF AttemptInv

(* Queueing counts an attempt, and its failure ends the call.              *)
LEMMA QueueSteps ==
    ASSUME TypeOK, AttemptInv, late' \subseteq Jobs, NEW j \in Jobs,
           CallQueue(j) \/ CallQueueFails(j)
    PROVE  TypeOK' /\ AttemptInv'
<1>1. CASE CallQueue(j)
  <2>1. RowsTyped /\ \A i \in Jobs : status'[i] = IF i = j THEN "QUEUED" ELSE status[i]
    BY <1>1, PutType DEF CallQueue, JobStatus
  <2>2. tries' \in [Jobs -> Nat]
    BY <1>1 DEF TypeOK, CallQueue
  <2>3. call' \in [Jobs -> {"idle", "queue", "produce", "stamp", "fail"}]
    BY <1>1 DEF TypeOK, CallQueue, Goto
  <2>4. TypeOK'
    BY <1>1, <2>1, <2>2, <2>3 DEF TypeOK, RowsTyped, CallQueue
  <2>5. ASSUME NEW i \in Jobs
        PROVE  AttemptInv!(i)'
    BY <1>1, <2>1, BoundAssumption DEF TypeOK, AttemptInv, CallQueue, Goto, Group
  <2> QED  BY <2>4, <2>5 DEF AttemptInv
<1>2. CASE CallQueueFails(j)
  <2>1. TypeOK'
    BY <1>2, BoundAssumption DEF TypeOK, CallQueueFails, Goto
  <2>2. ASSUME NEW i \in Jobs
        PROVE  AttemptInv!(i)'
    BY <1>2 DEF TypeOK, AttemptInv, CallQueueFails, Goto, Group
  <2> QED  BY <2>1, <2>2 DEF AttemptInv
<1> QED  BY <1>1, <1>2

(* The stream has room for another copy, as AttemptInv bounds them. *)
LEMMA StoreType ==
    ASSUME TypeOK, NEW j \in Jobs, Store(j)
    PROVE  /\ queue' \subseteq Copy /\ stored' \in [Jobs -> Nat]
           /\ stored'[j] > 0 /\ stored'[j] <= stored[j] + 1
           /\ \A i \in Jobs \ {j} : stored'[i] = stored[i]
BY DEF TypeOK, Store, Copy

(* A call stores one copy for the attempt that was counted, or for a fault. *)
LEMMA CallSteps ==
    ASSUME TypeOK, AttemptInv, late' \subseteq Jobs, NEW j \in Jobs,
           CallProduce(j) \/ CallProduceFails(j) \/ CallStamp(j)
    PROVE  TypeOK' /\ AttemptInv'
<1>1. CASE CallProduce(j)
  <2>1. /\ queue' \subseteq Copy /\ stored' \in [Jobs -> Nat]
        /\ stored'[j] > 0 /\ stored'[j] <= stored[j] + 1
        /\ \A i \in Jobs \ {j} : stored'[i] = stored[i]
    BY <1>1, StoreType DEF CallProduce
  <2>2. call' = [call EXCEPT ![j] = "stamp"]
    BY <1>1 DEF CallProduce, Goto
  <2>3. TypeOK'
    BY <1>1, <2>1, <2>2 DEF TypeOK, CallProduce
  <2>4. ASSUME NEW i \in Jobs
        PROVE  AttemptInv!(i)'
    BY <1>1, <2>1, <2>2 DEF TypeOK, AttemptInv, CallProduce, Group
  <2> QED  BY <2>3, <2>4 DEF AttemptInv
<1>2. CASE CallProduceFails(j)
  <2>1. /\ queue' \subseteq Copy /\ stored' \in [Jobs -> Nat]
        /\ stored'[j] <= stored[j] + 1
        /\ \A i \in Jobs \ {j} : stored'[i] = stored[i]
    <3>1. CASE UNCHANGED <<queue, stored>>
      BY <3>1 DEF TypeOK
    <3>2. CASE Store(j)
      BY <3>2, StoreType
    <3> QED  BY <1>2, <3>1, <3>2 DEF CallProduceFails
  <2>2. call' \in {[call EXCEPT ![j] = "fail"], [call EXCEPT ![j] = "idle"]}
    BY <1>2 DEF CallProduceFails, Goto
  <2>3. TypeOK'
    BY <1>2, <2>1, <2>2, BoundAssumption DEF TypeOK, CallProduceFails
  <2>4. ASSUME NEW i \in Jobs
        PROVE  AttemptInv!(i)'
    BY <1>2, <2>1, <2>2 DEF TypeOK, AttemptInv, CallProduceFails, Group
  <2> QED  BY <2>3, <2>4 DEF AttemptInv
<1>3. CASE CallStamp(j)
  <2>1. stored[j] > 0 /\ stored[j] <= MaxTries + MaxFaults + 1
    <3>1. /\ Group(j) = "manual" => tries[j] <= 1
          /\ Group(j) = "scheduled" => tries[j] <= MaxTries + 1
          /\ stored[j] <= tries[j] + faults
          /\ call[j] = "stamp" => stored[j] > 0
      BY DEF AttemptInv
    <3> QED  BY <1>3, <3>1, BoundAssumption DEF TypeOK, CallStamp, Group
  <2>2. stored[j] - 1 \in Copies
    BY <2>1, BoundAssumption DEF TypeOK, Copies
  <2>3. TypeOK'
    BY <1>3, <2>2 DEF TypeOK, CallStamp, Goto
  <2>4. ASSUME NEW i \in Jobs
        PROVE  AttemptInv!(i)'
    BY <1>3 DEF TypeOK, AttemptInv, CallStamp, Goto, Group
  <2> QED  BY <2>3, <2>4 DEF AttemptInv
<1> QED  BY <1>1, <1>2, <1>3

(* The invariant is inductive: every step keeps it.                        *)
LEMMA StepInv == IInv /\ [Next]_vars => IInv'
<1> SUFFICES ASSUME IInv, [Next]_vars PROVE IInv'
  OBVIOUS
<1> USE DEF IInv
<1>1. CASE UNCHANGED vars
  <2>1. TypeOK'
    BY <1>1 DEF TypeOK, vars
  <2>2. AttemptInv'
    BY <1>1 DEF AttemptInv, vars, Group
  <2> QED  BY <2>1, <2>2
<1>2. CASE Next
  <2>1. late' \subseteq Jobs
    BY <1>2 DEF TypeOK, Next, Observe
  <2>2. Step
    BY <1>2 DEF Next
  <2>3. CASE Tickers \/ Requests
    <3>1. \A j \in tretry : j \in Jobs
      BY DEF TypeOK
    <3> QED  BY <2>1, <2>3, <3>1, QuietSteps, CreateSteps, RetrySteps DEF Tickers, Requests
  <2>4. CASE Calls
    BY <2>1, <2>4, QueueSteps, CallSteps, StatusJobSteps DEF Calls
  <2>5. CASE Describe
    BY <2>1, <2>5, QuietSteps, StatusSteps DEF Describe
  <2>6. CASE Consume \/ Delete
    BY <2>1, <2>6, QuietSteps, StatusSteps DEF Consume, Delete
  <2>7. CASE Cancel
    BY <2>1, <2>7, QuietSteps, QuietJobSteps, StatusSteps DEF Cancel
  <2>8. CASE Faults
    BY <2>1, <2>8, QuietSteps, QuietJobSteps, QueueSteps, CallSteps DEF Faults
  <2>9. CASE \E g \in Groups : CycleFetch(g)
    BY <2>1, <2>9, FetchStep
  <2>10. CASE \/ \E st \in InProgress : Expire(st)
              \/ \E j \in Jobs : RemoveResources(j) \/ Tick(j) \/ Age(j)
    BY <2>1, <2>10, ExpireStep, StatusJobSteps, QuietJobSteps
  <2> QED  BY <2>2, <2>3, <2>4, <2>5, <2>6, <2>7, <2>8, <2>9, <2>10 DEF Step
<1> QED  BY <1>1, <1>2

(* It holds when there are no jobs yet.                                    *)
LEMMA InitInv == Init => IInv
<1> SUFFICES ASSUME Init PROVE IInv
  OBVIOUS
<1>1. TypeOK
  BY BoundAssumption DEF Init, TypeOK, Kinds, Interval
<1>2. AttemptInv
  BY BoundAssumption DEF Init, AttemptInv, Group
<1> QED  BY <1>1, <1>2 DEF IInv

(* Every variable keeps its type: in particular a job's row, the stream    *)
(* and the cancel requests agree on the copies of a message there can be.  *)
THEOREM TypeCorrect == Spec => []TypeOK
<1>1. IInv => TypeOK
  BY DEF IInv
<1> QED  BY <1>1, InitInv, StepInv, PTL DEF Spec

(* A job is sent once more at most than the limit on retries allows, a     *)
(* manual one once, and the stream holds no more copies of its message     *)
(* than it was sent, but for failures.                                     *)
THEOREM AttemptsBounded == Spec => []AttemptBound
<1>1. IInv => AttemptBound
  <2> SUFFICES ASSUME IInv, NEW j \in Jobs
               PROVE  /\ tries[j] <= IF Group(j) = "manual" THEN 1 ELSE MaxTries + 1
                      /\ stored[j] <= tries[j] + faults
    BY DEF AttemptBound
  <2>1. Group(j) \in Groups
    BY DEF Group, Groups
  <2> QED  BY <2>1 DEF IInv, AttemptInv, Groups
<1> QED  BY <1>1, InitInv, StepInv, PTL DEF Spec

-----------------------------------------------------------------------------
(* The steps of one row, and what success tells. *)

(* Nobody refers to a row before it is created. *)
Referred ==
    /\ described \subseteq Created
    /\ \A m \in queue \cup running : m[1] \in Created
    /\ \A a \in results : a.job \in Created
    /\ hand # Nil => hand.answer.job \in Created
    /\ cview # Nil => cview.job \in Created

(* Success, and the resources to delete on account of it, go back to a     *)
(* describer; but a job that only removes resources succeeds by itself,    *)
(* and such a job is not sent.                                             *)
DescribedInv ==
    /\ \A j \in Jobs \ described :
          /\ status[j] # "OLD_RESOURCE_DELETION"
          /\ status[j] \in {"SUCCEEDED", "REMOVING_RESOURCES"} => tries[j] = 0
    /\ \A p \in Pages : tasks[p] \in described \cup {Nil}
    /\ \A x \in dlist : x[2] \in described
    /\ dcur # Nil => dcur.job \in described
    /\ \A a \in results : a.outcome = "SUCCEEDED" => a.job \in described
    /\ hand # Nil /\ hand.status # "FAILED" => hand.answer.job \in described

RInv == IInv /\ Referred /\ DescribedInv

RowKept(j) == status'[j] = status[j] /\ kind'[j] = kind[j]
RowsMove == \A j \in Jobs : Life!RowStep(j) \/ RowKept(j)

USE DEF Life!RowStep, Life!Create, Life!Retry, Life!Write, Life!Begin, Life!Expire

(* A plain write to a row that is created. *)
LEMMA PutMoves ==
    ASSUME TypeOK, NEW j \in Created, UNCHANGED kind,
           NEW st \in {"QUEUED", "FAILED", "SUCCEEDED", "OLD_RESOURCE_DELETION", "CANCELED"},
           Put(j, st)
    PROVE  RowsMove
BY DEF TypeOK, Put, RowsMove, RowKept, Created

LEMMA StepMoves == RInv /\ Step => RowsMove
<1> SUFFICES ASSUME RInv, Step PROVE RowsMove
  OBVIOUS
<1> USE DEF RInv, IInv
<1>1. CASE Tickers \/ Requests
  <2>1. ASSUME NEW k \in Kinds, NEW st \in {"CREATED", "REMOVING_RESOURCES"}, CreateJob(k, st),
               st = "REMOVING_RESOURCES" => k = "scheduled"
        PROVE  RowsMove
    BY <2>1 DEF CreateJob, Created, TypeOK, RowsMove, RowKept
  <2>2. CASE TickCreate \/ RequestCreate
    BY <2>1, <2>2 DEF TickCreate, RequestCreate, TypeOK, Kinds, RowsMove, RowKept
  <2>3. ASSUME NEW j \in tretry, RetryWrite(j) PROVE RowsMove
    <3>1. j \in Jobs /\ status[j] # "NONE" /\ kind[j] # "manual"
      BY DEF TypeOK, AttemptInv, Group
    <3> QED  BY <2>3, <3>1 DEF RetryWrite, Put, TypeOK, RowsMove, RowKept
  <2>4. CASE TickCheck \/ RequestCheck \/ RetryList
    BY <2>4 DEF TickCheck, RequestCheck, RetryList, RowsMove, RowKept
  <2> QED  BY <1>1, <2>2, <2>3, <2>4 DEF Tickers, Requests
<1>2. ASSUME NEW j \in Jobs, call[j] # "idle",
             CallQueue(j) \/ CallProduce(j) \/ CallStamp(j) \/ CallFail(j)
      PROVE  RowsMove
  <2>1. j \in Created
    BY <1>2 DEF AttemptInv, Created
  <2>2. CASE CallQueue(j) \/ CallFail(j)
    BY <2>1, <2>2, PutMoves DEF CallQueue, CallFail, PutStatus
  <2>3. CASE CallProduce(j) \/ CallStamp(j)
    BY <2>3 DEF CallProduce, CallStamp, RowsMove, RowKept
  <2> QED  BY <1>2, <2>2, <2>3
<1>3. CASE Describe
  <2>1. ASSUME NEW m \in running, SetInProgress(m) PROVE RowsMove
    BY <2>1 DEF SetInProgress, Touch, TypeOK, RowsMove, RowKept
  <2>2. CASE \/ \E m \in queue : DescriberTake(m)
             \/ \E m \in running : DeliverResult(m)
    BY <2>2 DEF DescriberTake, DeliverResult, RowsMove, RowKept
  <2> QED  BY <1>3, <2>1, <2>2 DEF Describe
<1>4. CASE Consume
  <2>1. CASE ConsumerWrite
    <3>1. hand.answer.job \in Created /\ hand.status \in {"SUCCEEDED", "FAILED", "OLD_RESOURCE_DELETION"}
      BY <2>1 DEF ConsumerWrite, Referred, TypeOK
    <3> QED  BY <2>1, <3>1, PutMoves DEF ConsumerWrite, PutStatus
  <2>2. CASE \E a \in results : ConsumerTake(a)
    BY <2>2 DEF ConsumerTake, RowsMove, RowKept
  <2> QED  BY <1>4, <2>1, <2>2 DEF Consume
<1>5. CASE Delete
  <2>1. CASE DeleterWrite
    <3>1. dcur.job \in Created
      BY <2>1 DEF DeleterWrite, DescribedInv, Referred
    <3> QED  BY <2>1, <3>1, PutMoves DEF DeleterWrite, PutStatus
  <2>2. CASE DeleterList \/ (\E x \in dlist : DeleterRead(x)) \/ DeleterErase \/ DeleterTask
    BY <2>2 DEF DeleterList, DeleterRead, DeleterErase, DeleterTask, RowsMove, RowKept
  <2> QED  BY <1>5, <2>1, <2>2 DEF Delete
<1>6. CASE Cancel
  <2>1. CASE CancelWrite
    <3>1. cview.job \in Created
      BY <2>1 DEF CancelWrite, Referred
    <3> QED  BY <2>1, <3>1, PutMoves DEF CancelWrite, PutStatus
  <2>2. CASE (\E j \in Jobs : CancelRead(j)) \/ CancelDrop \/ CancelDropFails
    BY <2>2 DEF CancelRead, CancelDrop, CancelDropFails, RowsMove, RowKept
  <2> QED  BY <1>6, <2>1, <2>2 DEF Cancel
<1>7. CASE Faults \/ \E g \in Groups : CycleFetch(g)
  BY <1>7 DEF Faults, TickFails, MessageLost, ConsumerFails, DeleterFails, CallQueueFails,
              CallProduceFails, CallLost, CycleFetch, RowsMove, RowKept
<1>8. ASSUME NEW st \in InProgress, Expire(st) PROVE RowsMove
  BY <1>8 DEF Expire, Overdue, Touch, TypeOK, InProgress, RowsMove, RowKept
<1>9. ASSUME NEW j \in Jobs, RemoveResources(j) \/ Tick(j) \/ Age(j) PROVE RowsMove
  <2>1. CASE RemoveResources(j)
    <3>1. j \in Created
      BY <2>1 DEF RemoveResources, Created
    <3> QED  BY <2>1, <3>1, PutMoves DEF RemoveResources, PutStatus
  <2>2. CASE Tick(j) \/ Age(j)
    BY <2>2 DEF Tick, Age, RowsMove, RowKept
  <2> QED  BY <1>9, <2>1, <2>2
<1>10. CASE Calls
  BY <1>2, <1>10 DEF Calls, CallQueue, CallProduce, CallStamp, CallFail
<1> QED  BY <1>1, <1>3, <1>4, <1>5, <1>6, <1>7, <1>8, <1>9, <1>10 DEF Step

LEMMA CreatedGrows == ASSUME RowsMove PROVE Created \subseteq Created'
BY DEF RowsMove, RowKept, Created

(* Most steps take nothing new into anybody's hands. *)
LEMMA ReferredKept ==
    ASSUME Referred, Created \subseteq Created', described' = described,
           queue' \cup running' \subseteq queue \cup running,
           results' \subseteq results, hand' \in {hand, Nil},
           cview' # Nil => cview' # Nil /\ cview # Nil /\ cview'.job = cview.job
    PROVE  Referred'
BY DEF Referred

(* Nor do they add to the resources to delete, or end a job with success. *)
LEMMA DescribedKept ==
    ASSUME DescribedInv, described' = described,
           \A p \in Pages : tasks'[p] \in {tasks[p], Nil},
           dlist' \subseteq dlist, results' \subseteq results, hand' \in {hand, Nil},
           dcur' # Nil => dcur # Nil /\ dcur'.job = dcur.job,
           \A j \in Jobs \ described :
              \/ status'[j] \notin {"OLD_RESOURCE_DELETION", "SUCCEEDED", "REMOVING_RESOURCES"}
              \/ status'[j] = status[j] /\ tries'[j] = tries[j]
              \/ tries'[j] = 0 /\ status'[j] # "OLD_RESOURCE_DELETION"
    PROVE  DescribedInv'
BY DEF DescribedInv

LEMMA TickerReferred ==
    ASSUME RInv, Tickers \/ Requests
    PROVE  Referred' /\ DescribedInv'
<1> USE DEF RInv, IInv
<1>1. Created \subseteq Created'
  BY StepMoves, CreatedGrows DEF Step
<1>2. UNCHANGED <<workVars, ansVars, delVars, canVars, tries>>
  BY DEF Tickers, Requests, TickCheck, TickCreate, RetryList, RetryWrite, RequestCheck, RequestCreate, CreateJob
<1>3. Referred'
  BY <1>1, <1>2, ReferredKept
<1>4. ASSUME NEW j \in Jobs
      PROVE  status'[j] \in {status[j], "CREATED"} \/ (tries[j] = 0 /\ status'[j] = "REMOVING_RESOURCES")
  <2>1. ASSUME NEW k, NEW st \in {"CREATED", "REMOVING_RESOURCES"}, CreateJob(k, st)
        PROVE  status'[j] \in {status[j], "CREATED"} \/ (tries[j] = 0 /\ status'[j] = "REMOVING_RESOURCES")
    BY <2>1 DEF CreateJob, Created, TypeOK, AttemptInv
  <2>2. CASE TickCreate \/ RequestCreate
    BY <2>1, <2>2 DEF TickCreate, RequestCreate
  <2>3. CASE \E i \in tretry : RetryWrite(i)
    BY <2>3 DEF RetryWrite, Put, TypeOK
  <2>4. CASE TickCheck \/ RequestCheck \/ RetryList
    BY <2>4 DEF TickCheck, RequestCheck, RetryList
  <2> QED  BY <2>2, <2>3, <2>4 DEF Tickers, Requests
<1>5. DescribedInv'
  BY <1>2, <1>4, DescribedKept
<1> QED  BY <1>3, <1>5

LEMMA CallReferred ==
    ASSUME RInv, NEW j \in Jobs,
           \/ CallQueue(j) \/ CallProduce(j) \/ CallStamp(j) \/ CallFail(j)
           \/ CallQueueFails(j) \/ CallProduceFails(j) \/ CallLost(j)
    PROVE  Referred' /\ DescribedInv'
<1> USE DEF RInv, IInv
<1>1. Created \subseteq Created'
  BY StepMoves, CreatedGrows DEF Step, Calls, Faults
<1>2. UNCHANGED <<running, ansVars, delVars, canVars>> /\ call[j] # "idle"
  BY DEF CallQueue, CallProduce, CallStamp, CallFail, CallQueueFails, CallProduceFails, CallLost
<1>3. j \in Created
  BY <1>2 DEF AttemptInv, Created
<1>4. queue' \subseteq queue \cup {<<j, stored[j]>>}
  BY DEF CallQueue, CallProduce, CallStamp, CallFail, CallQueueFails, CallProduceFails, CallLost, Store
<1>5. Referred'
  BY <1>1, <1>2, <1>3, <1>4 DEF Referred
<1>6. ASSUME NEW i \in Jobs
      PROVE  \/ status'[i] \in {"QUEUED", "FAILED"}
             \/ status'[i] = status[i] /\ tries'[i] = tries[i]
  BY DEF CallQueue, CallProduce, CallStamp, CallFail, CallQueueFails, CallProduceFails, CallLost,
         Put, PutStatus, TypeOK
<1>7. DescribedInv'
  BY <1>2, <1>6, DescribedKept
<1> QED  BY <1>5, <1>7

LEMMA DescriberReferred ==
    ASSUME RInv, Describe \/ MessageLost
    PROVE  Referred' /\ DescribedInv'
<1> USE DEF RInv, IInv
<1>1. Created \subseteq Created'
  BY StepMoves, CreatedGrows DEF Step, Faults
<1>2. CASE MessageLost \/ (\E m \in queue : DescriberTake(m)) \/ (\E m \in running : SetInProgress(m))
  <2>1. /\ UNCHANGED <<ansVars, delVars, canVars, tries>>
        /\ queue' \cup running' \subseteq queue \cup running
        /\ \A i \in Jobs : status'[i] \in {status[i], "IN_PROGRESS"}
    BY <1>2 DEF MessageLost, DescriberTake, SetInProgress, Touch, TypeOK
  <2> QED  BY <1>1, <2>1, ReferredKept, DescribedKept
<1>3. ASSUME NEW m \in running, DeliverResult(m) PROVE Referred' /\ DescribedInv'
  <2>1. PICK o \in Outcomes :
          /\ results' \subseteq results \cup {[job |-> m[1], nth |-> answers[m[1]], outcome |-> o]}
          /\ described' = IF o = "SUCCEEDED" THEN described \cup {m[1]} ELSE described
    BY <1>3 DEF DeliverResult
  <2>2. /\ UNCHANGED <<rowVars, queue, hand, delVars, canVars>> /\ running' \subseteq running
        /\ m[1] \in Created
    BY <1>3 DEF DeliverResult, Referred
  <2>3. Referred'
    BY <1>1, <2>1, <2>2 DEF Referred
  <2>4. DescribedInv'
    BY <2>1, <2>2 DEF DescribedInv
  <2> QED  BY <2>3, <2>4
<1> QED  BY <1>2, <1>3 DEF Describe

LEMMA ConsumerReferred ==
    ASSUME RInv, Consume \/ ConsumerFails
    PROVE  Referred' /\ DescribedInv'
<1> USE DEF RInv, IInv
<1>1. Created \subseteq Created'
  BY StepMoves, CreatedGrows DEF Step, Faults
<1>2. ASSUME NEW a \in results, ConsumerTake(a) PROVE Referred' /\ DescribedInv'
  <2>1. /\ UNCHANGED <<rowVars, workVars, results, described, dlist, dcur, canVars>>
        /\ hand' \in [answer : {a}, status : {"SUCCEEDED", "FAILED", "OLD_RESOURCE_DELETION"}]
        /\ hand'.status # "FAILED" => a.outcome = "SUCCEEDED"
        /\ \A p \in Pages : tasks'[p] = tasks[p] \/ (tasks'[p] = a.job /\ a.outcome = "SUCCEEDED")
    BY <1>2 DEF ConsumerTake, Cleanup
  <2>2. a.job \in Created /\ (a.outcome = "SUCCEEDED" => a.job \in described)
    BY DEF Referred, DescribedInv
  <2>3. Referred'
    BY <1>1, <2>1, <2>2 DEF Referred
  <2>4. DescribedInv'
    BY <2>1, <2>2 DEF DescribedInv
  <2> QED  BY <2>3, <2>4
<1>3. CASE ConsumerWrite
  <2>1. /\ UNCHANGED <<tries, workVars, described, delVars, canVars>>
        /\ results' \subseteq results /\ hand' = Nil
        /\ hand # Nil /\ hand.status \in {"SUCCEEDED", "FAILED", "OLD_RESOURCE_DELETION"}
        /\ \A i \in Jobs : status'[i] = IF i = hand.answer.job THEN hand.status ELSE status[i]
    BY <1>3 DEF ConsumerWrite, PutStatus, Put, TypeOK
  <2>2. \A j \in Jobs \ described : status'[j] \in {status[j], "FAILED"}
    BY <2>1 DEF DescribedInv
  <2> QED  BY <1>1, <2>1, <2>2, ReferredKept, DescribedKept
<1>4. CASE ConsumerFails
  BY <1>1, <1>4, ReferredKept, DescribedKept DEF ConsumerFails
<1> QED  BY <1>2, <1>3, <1>4 DEF Consume

LEMMA DeleterReferred ==
    ASSUME RInv, Delete \/ DeleterFails
    PROVE  Referred' /\ DescribedInv'
<1> USE DEF RInv, IInv
<1>1. Created \subseteq Created'
  BY StepMoves, CreatedGrows DEF Step, Faults
<1>2. UNCHANGED <<tries, workVars, ansVars, canVars>>
  BY DEF Delete, DeleterFails, DeleterList, DeleterRead, DeleterErase, DeleterWrite, DeleterTask
<1>3. Referred'
  BY <1>1, <1>2, ReferredKept
<1>4. CASE DeleterList
  <2>1. UNCHANGED <<rowVars, tasks, dcur>> /\ \A x \in dlist' : x[2] \in described
    BY <1>4 DEF DeleterList, DescribedInv
  <2> QED  BY <1>2, <1>3, <2>1 DEF DescribedInv
<1>5. ASSUME NEW x \in dlist, DeleterRead(x) PROVE DescribedInv'
  <2>1. /\ UNCHANGED <<rowVars, tasks>> /\ dlist' \subseteq dlist
        /\ dcur' # Nil => dcur'.job = x[2]
    BY <1>5 DEF DeleterRead
  <2> QED  BY <1>2, <2>1 DEF DescribedInv
<1>6. CASE DeleterErase \/ DeleterTask \/ DeleterFails
  <2>1. dcur' # Nil => dcur # Nil /\ dcur'.job = dcur.job
    BY <1>6 DEF DeleterErase, DeleterTask, DeleterFails, TypeOK
  <2>2. UNCHANGED rowVars /\ dlist' \subseteq dlist /\ \A p \in Pages : tasks'[p] \in {tasks[p], Nil}
    BY <1>6 DEF DeleterErase, DeleterTask, DeleterFails, TypeOK
  <2> QED  BY <1>2, <1>3, <2>1, <2>2, DescribedKept
<1>7. CASE DeleterWrite
  <2>1. dcur # Nil /\ dcur.job \in described /\ UNCHANGED <<tasks, dlist>>
        /\ (dcur' # Nil => dcur'.job = dcur.job)
    BY <1>7 DEF DeleterWrite, DescribedInv, TypeOK
  <2>2. \A j \in Jobs \ described : status'[j] = status[j]
    BY <1>7, <2>1 DEF DeleterWrite, PutStatus, Put, TypeOK
  <2> QED  BY <1>2, <1>3, <2>1, <2>2, DescribedKept
<1> QED  BY <1>3, <1>4, <1>5, <1>6, <1>7 DEF Delete

(* Cancel requests, cycles, timeouts, time and the removal of resources. *)
LEMMA OtherReferred ==
    ASSUME RInv,
           \/ Cancel \/ TickFails
           \/ \E g \in Groups : CycleFetch(g)
           \/ \E st \in InProgress : Expire(st)
           \/ \E j \in Jobs : RemoveResources(j) \/ Tick(j) \/ Age(j)
    PROVE  Referred' /\ DescribedInv'
<1> USE DEF RInv, IInv
<1>1. Created \subseteq Created'
  BY StepMoves, CreatedGrows DEF Step, Faults
<1>2. CASE Cancel
  <2>1. ASSUME NEW j \in Jobs, CancelRead(j) PROVE Referred'
    <3>1. j \in Created /\ (cview' # Nil => cview'.job = j) /\ UNCHANGED <<rowVars, workVars, ansVars>>
      BY <2>1 DEF CancelRead, Created
    <3> QED  BY <1>1, <3>1 DEF Referred
  <2>2. ASSUME CancelDrop \/ CancelDropFails \/ CancelWrite PROVE Referred'
    <3>1. /\ UNCHANGED <<running, ansVars>> /\ queue' \subseteq queue
          /\ cview' # Nil => cview # Nil /\ cview'.job = cview.job
      BY <2>2 DEF CancelDrop, CancelDropFails, CancelWrite, TypeOK
    <3> QED  BY <1>1, <3>1, ReferredKept
  <2>3. /\ UNCHANGED <<ansVars, delVars, tries>>
        /\ \A i \in Jobs : status'[i] \in {status[i], "CANCELED"}
    BY <1>2 DEF Cancel, CancelRead, CancelDrop, CancelDropFails, CancelWrite, PutStatus, Put, TypeOK
  <2>4. DescribedInv'
    BY <2>3, DescribedKept
  <2> QED  BY <1>2, <2>1, <2>2, <2>4 DEF Cancel
<1>3. CASE \/ TickFails
           \/ \E g \in Groups : CycleFetch(g)
           \/ \E j \in Jobs : Tick(j) \/ Age(j)
  <2>1. UNCHANGED <<status, tries, queue, running, ansVars, delVars, canVars>>
    BY <1>3 DEF TickFails, CycleFetch, Tick, Age
  <2> QED  BY <1>1, <2>1, ReferredKept, DescribedKept
<1>4. ASSUME NEW st \in InProgress, Expire(st) PROVE Referred' /\ DescribedInv'
  <2>1. /\ UNCHANGED <<tries, workVars, ansVars, delVars, canVars>>
        /\ \A i \in Jobs : status'[i] \in {status[i], "FAILED", "TIMEOUT"}
    BY <1>4 DEF Expire, Touch, TypeOK
  <2> QED  BY <1>1, <2>1, ReferredKept, DescribedKept
<1>5. ASSUME NEW j \in Jobs, RemoveResources(j) PROVE Referred' /\ DescribedInv'
  <2>1. /\ UNCHANGED <<tries, workVars, ansVars, delVars, canVars>>
        /\ status[j] = "REMOVING_RESOURCES"
        /\ \A i \in Jobs : status'[i] = IF i = j THEN "SUCCEEDED" ELSE status[i]
    BY <1>5 DEF RemoveResources, PutStatus, Put, TypeOK
  <2>2. j \in described \/ tries[j] = 0
    BY <2>1 DEF DescribedInv
  <2> QED  BY <1>1, <2>1, <2>2, ReferredKept, DescribedKept
<1> QED  BY <1>2, <1>3, <1>4, <1>5

LEMMA RInitInv == Init => RInv
<1> SUFFICES ASSUME Init PROVE RInv
  OBVIOUS
<1>1. Referred /\ DescribedInv
  BY DEF Init, Referred, DescribedInv
<1> QED  BY <1>1, InitInv DEF RInv

LEMMA RStepInv == RInv /\ [Next]_vars => RInv'
<1> SUFFICES ASSUME RInv, [Next]_vars PROVE RInv'
  OBVIOUS
<1>1. IInv'
  BY StepInv DEF RInv
<1>2. CASE UNCHANGED vars
  <2>1. Referred' /\ DescribedInv'
    BY <1>2 DEF RInv, Referred, DescribedInv, vars, Created
  <2> QED  BY <1>1, <2>1 DEF RInv
<1>3. CASE Step
  <2>1. Referred' /\ DescribedInv'
    BY <1>3, TickerReferred, CallReferred, DescriberReferred, ConsumerReferred, DeleterReferred, OtherReferred
    DEF Step, Calls, Faults
  <2> QED  BY <1>1, <2>1 DEF RInv
<1> QED  BY <1>2, <1>3 DEF Next

(* What AttemptBound rests on: which attempts of a job are still to come.  *)
THEOREM AttemptsCounted == Spec => []AttemptInv
<1>1. IInv => AttemptInv
  BY DEF IInv
<1> QED  BY <1>1, InitInv, StepInv, PTL DEF Spec

(* A job that was sent succeeds, and has old resources deleted, only after *)
(* a describer succeeded at it; whatever is retried, lost, answered twice  *)
(* or replaced in the deletion tasks.                                      *)
THEOREM SuccessDescribed == Spec => []SuccessIsDescribed
<1>1. RInv => SuccessIsDescribed
  BY DEF RInv, DescribedInv, SuccessIsDescribed
<1> QED  BY <1>1, RInitInv, RStepInv, PTL DEF Spec

(* The rows take only the steps of DescribeLifecycle, whoever writes them. *)
THEOREM LifecycleImplemented == Spec => ImplementsLifecycle
<1>1. Init => Life!LifecycleInit
  <2> SUFFICES ASSUME Init PROVE Life!LifecycleInit
    OBVIOUS
  <2>1. "scheduled" \in Life!JobKinds
    BY DEF Life!JobKinds
  <2> QED  BY <2>1 DEF Init, Life!LifecycleInit
<1>2. RInv /\ RInv' /\ [Next]_vars => [Life!LifecycleNext]_(Life!lvars)
  <2> SUFFICES ASSUME RInv, RInv', [Next]_vars PROVE [Life!LifecycleNext]_(Life!lvars)
    OBVIOUS
  <2>1. CASE UNCHANGED vars
    BY <2>1 DEF vars, Life!lvars
  <2>2. CASE Step
    <3>1. RowsMove
      BY <2>2, StepMoves
    <3>2. status' \in [Jobs -> Life!RowStatus] /\ kind' \in [Jobs -> Life!JobKinds]
      BY DEF RInv, IInv, TypeOK, JobStatus, Kinds, Life!RowStatus, Life!AtWork, Life!JobKinds
    <3> QED  BY <3>1, <3>2 DEF RowsMove, RowKept, Life!LifecycleNext
  <2> QED  BY <2>1, <2>2 DEF Next
<1> QED  BY <1>1, <1>2, RInitInv, RStepInv, PTL DEF Spec, ImplementsLifecycle, Life!LifecycleSpec
-----------------------------------------------------------------------------
(* The end of a job. *)

Sticky(j) == status[j] \in {"SUCCEEDED", "CANCELED", "REMOVING_RESOURCES"} /\ Unreferenced(j)

Stuck(j) == /\ status'[j] = status[j] \/ (status[j] = "REMOVING_RESOURCES" /\ status'[j] = "SUCCEEDED")
            /\ Unreferenced(j)'

(* No step writes a job that succeeded or was canceled, or takes it up,    *)
(* when nobody holds it; nor one whose resources are being removed, but    *)
(* for the end of that.                                                    *)
LEMMA StepSticks ==
    ASSUME IInv, Step, NEW j \in Jobs, Sticky(j)
    PROVE  Stuck(j)
<1> USE DEF IInv, Sticky, Stuck
<1>0. /\ status[j] \notin {"NONE", "FAILED", "TIMEOUT"} \cup InProgress
      /\ call[j] = "idle"
  BY DEF InProgress, Unreferenced
<1>1. CASE Tickers \/ Requests
  <2>1. CASE TickCheck \/ RequestCheck
    BY <2>1 DEF TickCheck, RequestCheck, Unreferenced
  <2>2. CASE TickCreate \/ RequestCreate
    <3>1. ASSUME NEW k, NEW st, CreateJob(k, st)
          PROVE  status'[j] = status[j]
      BY <1>0, <3>1 DEF CreateJob, Created, TypeOK
    <3>2. status'[j] = status[j]
      BY <2>2, <3>1 DEF TickCreate, RequestCreate
    <3> QED  BY <2>2, <3>2 DEF TickCreate, RequestCreate, Unreferenced
  <2>3. CASE RetryList
    BY <1>0, <2>3 DEF RetryList, Retryable, Unreferenced
  <2>4. ASSUME NEW i \in tretry, RetryWrite(i)
        PROVE  Stuck(j)
    BY <2>4 DEF RetryWrite, Put, Unreferenced, TypeOK
  <2> QED  BY <1>1, <2>1, <2>2, <2>3, <2>4 DEF Tickers, Requests
<1>2. ASSUME NEW i \in Jobs,
             \/ CallQueue(i) \/ CallProduce(i) \/ CallStamp(i) \/ CallFail(i)
             \/ CallQueueFails(i) \/ CallProduceFails(i) \/ CallLost(i)
      PROVE  Stuck(j)
  <2>1. i # j
    BY <1>0, <1>2 DEF CallQueue, CallProduce, CallStamp, CallFail, CallQueueFails,
                      CallProduceFails, CallLost
  <2>2. call'[j] = "idle" /\ UNCHANGED <<makeVars, running, ansVars, delVars, canVars>>
    BY <1>0, <1>2, <2>1 DEF CallQueue, CallProduce, CallStamp, CallFail, CallQueueFails,
                            CallProduceFails, CallLost, Goto, TypeOK
  <2>3. status'[j] = status[j]
    BY <1>2, <2>1 DEF CallQueue, CallProduce, CallStamp, CallFail, CallQueueFails,
                      CallProduceFails, CallLost, Put, PutStatus, TypeOK
  <2>4. queue' \subseteq queue \cup {<<i, stored[i]>>}
    BY <1>2 DEF CallQueue, CallProduce, CallStamp, CallFail, CallQueueFails,
                CallProduceFails, CallLost, Store
  <2> QED  BY <2>1, <2>2, <2>3, <2>4 DEF Unreferenced
<1>3. CASE Describe \/ MessageLost
  <2>1. ASSUME NEW m \in queue, DescriberTake(m)
        PROVE  Stuck(j)
    BY <2>1 DEF DescriberTake, Unreferenced
  <2>2. ASSUME NEW m \in running, SetInProgress(m)
        PROVE  Stuck(j)
    BY <1>0, <2>2 DEF SetInProgress, Touch, Unreferenced
  <2>3. ASSUME NEW m \in running, DeliverResult(m)
        PROVE  Stuck(j)
    <3>1. m[1] # j
      BY <2>3 DEF Unreferenced
    <3>2. \A a \in results' : a.job # j
      BY <2>3, <3>1 DEF DeliverResult, Unreferenced
    <3> QED  BY <2>3, <3>2 DEF DeliverResult, Unreferenced
  <2>4. CASE MessageLost
    BY <2>4 DEF MessageLost, Unreferenced
  <2> QED  BY <1>3, <2>1, <2>2, <2>3, <2>4 DEF Describe
<1>4. CASE Consume \/ ConsumerFails
  <2>1. ASSUME NEW a \in results, ConsumerTake(a)
        PROVE  Stuck(j)
    <3>1. hand'.answer = a
      BY <2>1 DEF ConsumerTake
    <3> QED  BY <2>1, <3>1 DEF ConsumerTake, Unreferenced
  <2>2. CASE ConsumerWrite
    BY <2>2 DEF ConsumerWrite, PutStatus, Put, Unreferenced, TypeOK
  <2>3. CASE ConsumerFails
    BY <2>3 DEF ConsumerFails, Unreferenced
  <2> QED  BY <1>4, <2>1, <2>2, <2>3 DEF Consume
<1>5. CASE Delete \/ DeleterFails
  <2>1. CASE DeleterList \/ DeleterTask \/ DeleterFails
    BY <2>1 DEF DeleterList, DeleterTask, DeleterFails, Unreferenced
  <2>2. ASSUME NEW x \in dlist, DeleterRead(x)
        PROVE  Stuck(j)
    BY <1>0, <2>2 DEF DeleterRead, Unreferenced, InProgress
  <2>3. CASE DeleterErase
    BY <2>3 DEF DeleterErase, Unreferenced, TypeOK
  <2>4. CASE DeleterWrite
    BY <2>4 DEF DeleterWrite, PutStatus, Put, Unreferenced, TypeOK
  <2> QED  BY <1>5, <2>1, <2>2, <2>3, <2>4 DEF Delete
<1>6. CASE Cancel
  <2>1. ASSUME NEW i \in Jobs, CancelRead(i)
        PROVE  Stuck(j)
    BY <1>0, <2>1 DEF CancelRead, Unreferenced, InProgress
  <2>2. CASE CancelDrop \/ CancelDropFails
    BY <2>2 DEF CancelDrop, CancelDropFails, Unreferenced, TypeOK
  <2>3. CASE CancelWrite
    BY <2>3 DEF CancelWrite, PutStatus, Put, Unreferenced, TypeOK
  <2> QED  BY <1>6, <2>1, <2>2, <2>3 DEF Cancel
<1>7. CASE TickFails
  BY <1>7 DEF TickFails, Unreferenced
<1>8. ASSUME NEW g \in Groups, CycleFetch(g)
      PROVE  Stuck(j)
  BY <1>0, <1>8 DEF CycleFetch, Unreferenced, InProgress
<1>9. ASSUME NEW st \in InProgress, Expire(st)
      PROVE  Stuck(j)
  <2>1. j \notin Overdue(st)
    BY <1>0 DEF Overdue
  <2> QED  BY <1>9, <2>1 DEF Expire, Touch, Unreferenced
<1>10. ASSUME NEW i \in Jobs, RemoveResources(i) \/ Tick(i) \/ Age(i)
       PROVE  Stuck(j)
  BY <1>0, <1>10 DEF RemoveResources, Tick, Age, PutStatus, Put, Unreferenced, TypeOK, InProgress
<1> QED  BY <1>1, <1>2, <1>3, <1>4, <1>5, <1>6, <1>7, <1>8, <1>9, <1>10, Zenon
         DEF Step, Calls, Faults

(* A job that succeeded or was canceled stays so, and is not taken up      *)
(* again, unless it was in somebody's hands at that moment.                *)
THEOREM EndsStick == Spec => EndedSticks
<1>1. IInv /\ [Next]_vars =>
        [\A j \in Jobs :
            status[j] \in {"SUCCEEDED", "CANCELED"} /\ Unreferenced(j) =>
                status'[j] = status[j] /\ Unreferenced(j)']_vars
  BY StepSticks DEF Next, Sticky, Stuck
<1> QED  BY <1>1, InitInv, StepInv, PTL DEF Spec, EndedSticks
-----------------------------------------------------------------------------
(* One job at work. *)

AllScheduled == \A j \in Created : kind[j] = "scheduled"

(* No job up to j was brought back late. *)
Undisturbed(j) == (1..j) \cap late = {}

Numbered == \A j \in Created : 1..j \subseteq Created

(* A row's age is at most its job's, and the elder jobs are older. *)
Aged == /\ old \subseteq Created
        /\ \A j \in Jobs : since[j] = Interval => j \in old
        /\ \A j \in old : Elder(j) \subseteq old

Unsent == \A j \in Jobs : status[j] = "REMOVING_RESOURCES" => Unreferenced(j)

(* A job followed by another is past its interval, so that it is not      *)
(* retried, and is not at work.  For the next job to keep this, the ticker *)
(* has to look at the latest job, and what it finds has to stay so until   *)
(* it creates the next.                                                    *)
Followed == \A i, j \in Created :
               i < j /\ Undisturbed(j) => i \in old \ tretry /\ status[i] \notin InProgress
LastIsLatest == late = {} /\ Created # {} => last \in Created /\ \A i \in Created : i <= last
NextIsDue == late = {} /\ tpc = "create" => \A i \in Created : i \in old /\ status[i] \notin InProgress

InTurn == /\ Numbered /\ Aged
          /\ (tpc # "retry" => tretry = {}) /\ (request # Nil => request # "scheduled")
          /\ AllScheduled => Followed /\ LastIsLatest /\ NextIsDue

OneInv == RInv /\ Unsent /\ late \subseteq Created /\ InTurn

(* A job is created only in the two statements that do it. *)
Making == TickCreate \/ RequestCreate

(* What all the other steps leave of the rows, unless time passes. *)
Ordinary ==
    /\ UNCHANGED <<kind, old>>
    /\ \A j \in Jobs : since'[j] \in {since[j], 0}
    /\ \A j \in Jobs : \/ status'[j] = status[j]
                       \/ status'[j] \notin {"CREATED", "REMOVING_RESOURCES", "NONE"}
                       \/ status'[j] = "CREATED" /\ j \in tretry
    /\ last' = last \/ (last' \in Jobs /\ status[last'] \in InProgress)
    /\ tpc' = "create" => tpc = "create"
    /\ tretry' \subseteq tretry /\ request' \in {request, "manual", "cost"}
    /\ tpc' # "retry" /\ tpc' # tpc => tretry' = {}

(* A plain write is ordinary, whoever does it, if it does not create the   *)
(* job again.                                                              *)
LEMMA PutOrdinary ==
    ASSUME TypeOK, NEW j \in Jobs, NEW st \in JobStatus \ {"CREATED", "REMOVING_RESOURCES"}, Put(j, st),
           UNCHANGED <<kind, old, makeVars>>
    PROVE  Ordinary
BY DEF TypeOK, Put, Ordinary, JobStatus

LEMMA TouchOrdinary ==
    ASSUME TypeOK, NEW S \in SUBSET {j \in Jobs : status[j] \in InProgress},
           NEW st \in JobStatus \ {"CREATED", "REMOVING_RESOURCES"}, Touch(S, st),
           UNCHANGED <<kind, old, makeVars>>
    PROVE  Ordinary
BY DEF TypeOK, Touch, Ordinary, JobStatus

LEMMA StepKinds ==
    ASSUME RInv, Step
    PROVE  Making \/ TickCheck \/ RetryList \/ (\E j \in Jobs : Tick(j) \/ Age(j)) \/ Ordinary
<1> USE DEF RInv, IInv
<1>1. CASE Tickers \/ Requests
  <2>1. CASE RequestCheck
    BY <2>1 DEF RequestCheck, Ordinary
  <2>2. ASSUME NEW j \in tretry, RetryWrite(j) PROVE Ordinary
    BY <2>2 DEF RetryWrite, Put, TypeOK, Ordinary
  <2> QED  BY <1>1, <2>1, <2>2 DEF Tickers, Requests, Making
<1>2. ASSUME NEW j \in Jobs,
             \/ CallQueue(j) \/ CallProduce(j) \/ CallStamp(j) \/ CallFail(j)
             \/ CallQueueFails(j) \/ CallProduceFails(j) \/ CallLost(j)
      PROVE  Ordinary
  <2>1. CASE CallQueue(j) \/ CallFail(j)
    BY <2>1, PutOrdinary DEF CallQueue, CallFail, PutStatus, JobStatus
  <2>2. CASE CallProduce(j) \/ CallStamp(j) \/ CallQueueFails(j) \/ CallProduceFails(j) \/ CallLost(j)
    BY <2>2 DEF CallProduce, CallStamp, CallQueueFails, CallProduceFails, CallLost, Ordinary
  <2> QED  BY <1>2, <2>1, <2>2
<1>3. CASE Describe \/ MessageLost
  <2>1. ASSUME NEW m \in running, SetInProgress(m) PROVE Ordinary
    <3>1. m[1] \in Jobs /\ status[m[1]] \in InProgress
      BY <2>1 DEF SetInProgress, InProgress, TypeOK, Copy
    <3> QED  BY <2>1, <3>1, TouchOrdinary DEF SetInProgress, JobStatus
  <2>2. CASE \/ \E m \in queue : DescriberTake(m)
             \/ \E m \in running : DeliverResult(m)
             \/ MessageLost
    BY <2>2 DEF DescriberTake, DeliverResult, MessageLost, Ordinary
  <2> QED  BY <1>3, <2>1, <2>2 DEF Describe
<1>4. CASE Consume \/ ConsumerFails
  <2>1. CASE ConsumerWrite
    <3>1. hand.answer.job \in Jobs /\ hand.status \in {"SUCCEEDED", "FAILED", "OLD_RESOURCE_DELETION"}
      BY <2>1 DEF ConsumerWrite, TypeOK, Answer
    <3> QED  BY <2>1, <3>1, PutOrdinary DEF ConsumerWrite, PutStatus, JobStatus
  <2>2. CASE (\E a \in results : ConsumerTake(a)) \/ ConsumerFails
    BY <2>2 DEF ConsumerTake, ConsumerFails, Ordinary
  <2> QED  BY <1>4, <2>1, <2>2 DEF Consume
<1>5. CASE Delete \/ DeleterFails
  <2>1. CASE DeleterWrite
    <3>1. dcur.job \in Jobs
      BY <2>1 DEF DeleterWrite, TypeOK
    <3> QED  BY <2>1, <3>1, PutOrdinary DEF DeleterWrite, PutStatus, JobStatus
  <2>2. CASE DeleterList \/ (\E x \in dlist : DeleterRead(x)) \/ DeleterErase \/ DeleterTask \/ DeleterFails
    BY <2>2 DEF DeleterList, DeleterRead, DeleterErase, DeleterTask, DeleterFails, Ordinary
  <2> QED  BY <1>5, <2>1, <2>2 DEF Delete
<1>6. CASE Cancel
  <2>1. CASE CancelWrite
    <3>1. cview.job \in Jobs
      BY <2>1 DEF CancelWrite, TypeOK
    <3> QED  BY <2>1, <3>1, PutOrdinary DEF CancelWrite, PutStatus, JobStatus
  <2>2. CASE (\E j \in Jobs : CancelRead(j)) \/ CancelDrop \/ CancelDropFails
    BY <2>2 DEF CancelRead, CancelDrop, CancelDropFails, Ordinary
  <2> QED  BY <1>6, <2>1, <2>2 DEF Cancel
<1>7. CASE TickFails \/ \E g \in Groups : CycleFetch(g)
  BY <1>7 DEF TickFails, CycleFetch, Ordinary
<1>8. ASSUME NEW st \in InProgress, Expire(st) PROVE Ordinary
  <2>1. Overdue(st) \in SUBSET {j \in Jobs : status[j] \in InProgress}
    BY <1>8 DEF Overdue
  <2> QED  BY <1>8, <2>1, TouchOrdinary DEF Expire, JobStatus
<1>9. ASSUME NEW j \in Jobs, RemoveResources(j) PROVE Ordinary
  BY <1>9, PutOrdinary DEF RemoveResources, PutStatus, JobStatus
<1> QED  BY <1>1, <1>2, <1>3, <1>4, <1>5, <1>6, <1>7, <1>8, <1>9, Zenon DEF Step, Calls, Faults

(* A row goes to work when it is created, when it is retried, and late. *)
LEMMA Woken ==
    ASSUME RInv, Unsent, Step, Observe, Making \/ Ordinary,
           NEW j \in Created, status[j] \notin InProgress, status'[j] \in InProgress
    PROVE  j \in late' \/ j \in tretry
<1> USE DEF RInv, IInv
<1>1. j \in Jobs /\ status[j] \in Ended \cup {"REMOVING_RESOURCES"}
  BY DEF Created, TypeOK, JobStatus, Ended, InProgress
<1>2. CASE status[j] = "REMOVING_RESOURCES"
  BY <1>1, <1>2, StepSticks DEF Unsent, Sticky, Stuck, InProgress
<1>3. CASE status[j] \in Ended /\ status'[j] # "CREATED"
  BY <1>1, <1>3 DEF Observe
<1>4. CASE status[j] \in Ended /\ status'[j] = "CREATED"
  <2>1. CASE Making
    <3>1. ASSUME NEW k, NEW st, CreateJob(k, st) PROVE status'[j] = status[j]
      BY <1>1, <3>1 DEF CreateJob, TypeOK
    <3> QED  BY <1>4, <2>1, <3>1 DEF Making, TickCreate, RequestCreate
  <2>2. CASE Ordinary
    BY <1>1, <1>4, <2>2 DEF Ordinary, Ended
  <2> QED  BY <2>1, <2>2
<1> QED  BY <1>1, <1>2, <1>3, <1>4

(* Late jobs, and those whose resources are removed. *)
LEMMA UnsentKept ==
    ASSUME RInv, Unsent, Step, Observe, late \subseteq Created
    PROVE  Unsent' /\ late' \subseteq Created'
<1> USE DEF RInv, IInv
<1>1. RowsMove
  BY StepMoves
<1>2. late' \subseteq Created'
  BY <1>1, CreatedGrows DEF Observe, Ended, Created
<1>3. ASSUME NEW j \in Jobs, status'[j] = "REMOVING_RESOURCES" PROVE Unreferenced(j)'
  <2>1. CASE status[j] = "REMOVING_RESOURCES"
    BY <2>1, StepSticks DEF Unsent, Sticky, Stuck
  <2>2. CASE status[j] # "REMOVING_RESOURCES"
    <3>1. status[j] = "NONE"
      BY <1>1, <1>3, <2>2 DEF RowsMove, RowKept
    <3>2. j \notin Created /\ j \notin described
      BY <3>1 DEF Created, Referred
    <3>3. Unreferenced(j)
      BY <3>1, <3>2 DEF Unreferenced, Referred, DescribedInv, AttemptInv
    <3>4. Making
      BY <1>3, <2>2, <3>1, StepKinds DEF TickCheck, RetryList, Tick, Age, Ordinary
    <3>5. UNCHANGED <<tretry, call, queue, running, results, hand, dcur, cview>>
      BY <3>4 DEF Making, TickCreate, RequestCreate
    <3> QED  BY <3>3, <3>5 DEF Unreferenced
  <2> QED  BY <2>1, <2>2
<1> QED  BY <1>2, <1>3 DEF Unsent

(* Time passes for one row: a job gets old after all elder ones. *)
LEMMA TimeInTurn ==
    ASSUME OneInv, Observe, NEW j \in Jobs, Tick(j) \/ Age(j)
    PROVE  InTurn'
<1> USE DEF OneInv, RInv, IInv, InTurn
<1>1. UNCHANGED <<status, kind, last, makeVars>> /\ j \in Created /\ old \subseteq old'
  BY DEF Tick, Age
<1>2. late' = late
  BY <1>1 DEF Observe, Ended, InProgress
<1>3. /\ old' \subseteq old \cup {j} /\ (j \in old' => Elder(j) \subseteq old)
      /\ \A i \in Jobs : since'[i] = since[i] \/ (i = j /\ (since'[i] = Interval => j \in old'))
  <2>1. CASE Age(j)
    BY <2>1 DEF Age
  <2>2. CASE Tick(j)
    BY <2>2 DEF Tick, TypeOK, Aged
  <2> QED  BY <2>1, <2>2
<1>4. UNCHANGED <<Created, AllScheduled>> /\ \A i \in Jobs : Elder(i)' = Elder(i)
  BY <1>1 DEF Created, AllScheduled, Elder
<1>5. Aged'
  BY <1>1, <1>3, <1>4 DEF Aged, Created
<1>6. Numbered'
  BY <1>4 DEF Numbered
<1>7. Followed => Followed'
  BY <1>1, <1>2, <1>4 DEF Followed, Undisturbed
<1>8. (LastIsLatest => LastIsLatest') /\ (NextIsDue => NextIsDue')
  BY <1>1, <1>2, <1>4 DEF LastIsLatest, NextIsDue
<1> QED  BY <1>1, <1>4, <1>5, <1>6, <1>7, <1>8

(* The ticker looks at the latest job: when that is due, all are. *)
LEMMA CheckInTurn ==
    ASSUME OneInv, Observe, TickCheck
    PROVE  InTurn'
<1> USE DEF OneInv, RInv, IInv, InTurn
<1>1. UNCHANGED <<rowVars, tretry, request>> /\ tpc = "idle"
  BY DEF TickCheck
<1>2. late' = late
  BY <1>1 DEF Observe, Ended, InProgress
<1>3. UNCHANGED <<Created, AllScheduled, Numbered, Aged>>
  BY <1>1 DEF Created, AllScheduled, Numbered, Aged, Elder
<1>4. (Followed => Followed') /\ (LastIsLatest => LastIsLatest')
  BY <1>1, <1>2, <1>3 DEF Followed, Undisturbed, LastIsLatest
<1>5. ASSUME Followed, LastIsLatest PROVE NextIsDue'
  <2> SUFFICES ASSUME late = {}, tpc' = "create", NEW i \in Created
               PROVE  i \in old /\ status[i] \notin InProgress
    BY <1>1, <1>2, <1>3 DEF NextIsDue
  <2>1. last \in Created /\ i <= last /\ last \in Jobs /\ i \in Jobs
    BY <1>5 DEF LastIsLatest, Created
  <2>2. last # Nil
    BY <2>1, NilAssumption DEF Jobs
  <2>3. since[last] = Interval /\ status[last] \notin InProgress
    BY <2>2 DEF TickCheck, MayCreate
  <2>4. CASE i = last
    BY <2>1, <2>3, <2>4 DEF Aged
  <2>5. CASE i < last
    BY <1>5, <2>1, <2>5 DEF Followed, Undisturbed
  <2>6. i < last \/ i = last
    BY <2>1 DEF Jobs
  <2> QED  BY <2>4, <2>5, <2>6
<1> QED  BY <1>1, <1>3, <1>4, <1>5

(* A job within its interval has none after it. *)
LEMMA ListInTurn ==
    ASSUME OneInv, Observe, RetryList
    PROVE  InTurn'
<1> USE DEF OneInv, RInv, IInv, InTurn
<1>1. /\ UNCHANGED <<rowVars, request>> /\ tpc' # "create" /\ (tpc' # "retry" => tretry' = {})
      /\ \A i \in tretry' : i \notin old
  BY DEF RetryList, Retryable
<1>2. late' = late
  BY <1>1 DEF Observe, Ended, InProgress
<1>3. UNCHANGED <<Created, AllScheduled, Numbered, Aged>>
  BY <1>1 DEF Created, AllScheduled, Numbered, Aged, Elder
<1>4. (Followed => Followed') /\ (LastIsLatest => LastIsLatest') /\ NextIsDue'
  BY <1>1, <1>2, <1>3 DEF Followed, Undisturbed, LastIsLatest, NextIsDue
<1> QED  BY <1>1, <1>3, <1>4

(* The new job is the latest, and the ticker has seen that no other is at  *)
(* work. *)
LEMMA MakeInTurn ==
    ASSUME OneInv, Step, Observe, Making
    PROVE  InTurn'
<1> USE DEF OneInv, RInv, IInv, InTurn
<1>1. /\ UNCHANGED tretry /\ request' \in {request, Nil}
      /\ tpc' = tpc \/ (tpc = "create" /\ tpc' = "list")
  BY DEF Making, TickCreate, RequestCreate
<1>2. CASE UNCHANGED rowVars
  <2>1. late' = late
    BY <1>2 DEF Observe, Ended, InProgress
  <2>2. UNCHANGED <<Created, AllScheduled, Numbered, Aged>>
    BY <1>2 DEF Created, AllScheduled, Numbered, Aged, Elder
  <2>3. (Followed => Followed') /\ (LastIsLatest => LastIsLatest') /\ (NextIsDue => NextIsDue')
    BY <1>1, <1>2, <2>1, <2>2 DEF Followed, Undisturbed, LastIsLatest, NextIsDue
  <2> QED  BY <1>1, <2>2, <2>3
<1>3. ASSUME NEW k \in Kinds, NEW st \in {"CREATED", "REMOVING_RESOURCES"}, CreateJob(k, st),
             k = "scheduled" => tpc = "create" /\ tpc' = "list"
      PROVE  InTurn'
  <2>1. PICK j \in Jobs \ Created : /\ 1..(j - 1) \subseteq Created
                                    /\ status' = [status EXCEPT ![j] = st]
                                    /\ kind' = [kind EXCEPT ![j] = k]
                                    /\ last' = j
                                    /\ UNCHANGED <<since, old>>
    BY <1>3 DEF CreateJob
  <2>2. Created' = Created \cup {j} /\ Created \subseteq Jobs
    BY <2>1 DEF Created, TypeOK
  <2>3. \A i \in Created : i \in Nat /\ i < j /\ status'[i] = status[i] /\ kind'[i] = kind[i]
    BY <2>1, <2>2 DEF Numbered, Jobs, TypeOK
  <2>4. late' = late
    <3>1. \A i \in Jobs : i # j => status'[i] = status[i]
      BY <2>1 DEF TypeOK
    <3> QED  BY <2>1, <3>1 DEF Observe, Ended, InProgress, Created
  <2>5. Numbered'
    BY <2>1, <2>2 DEF Numbered, Jobs
  <2>6. Aged'
    <3>1. \A i \in Created : Elder(i)' = Elder(i)
      BY <2>1, <2>2, <2>3 DEF Elder, Jobs
    <3> QED  BY <2>1, <2>2, <3>1 DEF Aged
  <2>7. ASSUME AllScheduled' PROVE (Followed /\ LastIsLatest /\ NextIsDue)'
    <3>1. k = "scheduled"
      BY <2>1, <2>2, <2>7 DEF AllScheduled, TypeOK
    <3>2. Followed /\ LastIsLatest /\ NextIsDue /\ tretry = {} /\ tpc = "create" /\ tpc' = "list"
      BY <1>3, <2>2, <2>3, <2>7, <3>1 DEF AllScheduled
    <3>3. ASSUME NEW i \in Created', NEW m \in Created', i < m, Undisturbed(m)'
          PROVE  i \in old \ tretry /\ status'[i] \notin InProgress
      <4>1. i \in Created
        BY <2>2, <2>3, <3>3 DEF Jobs
      <4>2. CASE m \in Created
        BY <2>3, <2>4, <3>2, <3>3, <4>1, <4>2 DEF Followed, Undisturbed
      <4>3. CASE m = j
        <5>1. late = {}
          BY <2>2, <2>3, <2>4, <3>3, <4>3 DEF Undisturbed, Jobs
        <5> QED  BY <2>3, <3>2, <4>1, <5>1 DEF NextIsDue
      <4> QED  BY <2>2, <4>2, <4>3
    <3>4. Followed'
      BY <1>1, <2>1, <3>3 DEF Followed
    <3>5. LastIsLatest'
      BY <2>1, <2>2, <2>3 DEF LastIsLatest, Jobs
    <3>6. NextIsDue'
      BY <3>2 DEF NextIsDue
    <3> QED  BY <3>4, <3>5, <3>6
  <2> QED  BY <1>1, <1>3, <2>5, <2>6, <2>7
<1>4. CASE TickCreate
  BY <1>2, <1>3, <1>4 DEF TickCreate, Kinds
<1>5. CASE RequestCreate
  BY <1>2, <1>3, <1>5 DEF RequestCreate, TypeOK
<1> QED  BY <1>4, <1>5 DEF Making

(* No other step brings a job back that is followed by another, unless it  *)
(* is late, nor touches one. *)
LEMMA OrdinaryInTurn ==
    ASSUME OneInv, Step, Observe, Ordinary
    PROVE  InTurn'
<1> USE DEF OneInv, RInv, IInv, InTurn
<1>1. late \subseteq late'
  BY DEF Observe
<1>2. UNCHANGED Created
  <2>1. RowsMove /\ \A j \in tretry : j \in Created
    BY StepMoves DEF AttemptInv, Created, TypeOK
  <2>2. Created \subseteq Created'
    BY <2>1, CreatedGrows
  <2>3. ASSUME NEW j \in Created' PROVE j \in Created
    <3>1. j \in Jobs /\ status'[j] # "NONE"
      BY <2>3 DEF Created
    <3>2. CASE status[j] = "NONE"
      BY <2>1, <3>1, <3>2 DEF Ordinary, RowsMove, RowKept, Created
    <3> QED  BY <3>1, <3>2 DEF Created
  <2> QED  BY <2>2, <2>3
<1>3. UNCHANGED <<AllScheduled, Numbered>>
  BY <1>2 DEF AllScheduled, Numbered, Ordinary
<1>4. Aged'
  BY <1>2 DEF Aged, Elder, Ordinary, Interval, TypeOK
<1>5. ASSUME Followed, LastIsLatest, NextIsDue PROVE (Followed /\ LastIsLatest /\ NextIsDue)'
  <2>1. ASSUME NEW i \in Created, status[i] \notin InProgress, i \notin late', i \notin tretry
        PROVE  status'[i] \notin InProgress
    BY <2>1, Woken
  <2>2. Followed'
    <3> SUFFICES ASSUME NEW i \in Created, NEW j \in Created, i < j, Undisturbed(j)'
                 PROVE  i \in old' \ tretry' /\ status'[i] \notin InProgress
      BY <1>2 DEF Followed
    <3>1. i \in old \ tretry /\ status[i] \notin InProgress
      BY <1>1, <1>5 DEF Followed, Undisturbed
    <3>2. i \in 1..j
      BY DEF Created, Jobs
    <3>3. i \notin late'
      BY <3>2 DEF Undisturbed
    <3> QED  BY <2>1, <3>1, <3>3 DEF Ordinary
  <2>3. LastIsLatest'
    <3> SUFFICES ASSUME late' = {}, Created # {}
                 PROVE  last' \in Created /\ \A i \in Created : i <= last'
      BY <1>2 DEF LastIsLatest
    <3>1. late = {} /\ last \in Created /\ \A i \in Created : i <= last
      BY <1>1, <1>5 DEF LastIsLatest
    <3>2. CASE last' \in Jobs /\ status[last'] \in InProgress
      <4>1. last' \in Created
        BY <3>2 DEF Created, InProgress
      <4>2. ~(last' < last)
        BY <1>5, <3>1, <3>2, <4>1 DEF Followed, Undisturbed
      <4> QED  BY <3>1, <4>1, <4>2 DEF Created, Jobs
    <3> QED  BY <3>1, <3>2 DEF Ordinary
  <2>4. NextIsDue'
    <3> SUFFICES ASSUME late' = {}, tpc' = "create", NEW i \in Created
                 PROVE  i \in old' /\ status'[i] \notin InProgress
      BY <1>2 DEF NextIsDue
    <3>1. late = {} /\ tpc = "create" /\ tretry = {}
      BY <1>1 DEF Ordinary
    <3>2. i \in old /\ status[i] \notin InProgress
      BY <1>5, <3>1 DEF NextIsDue
    <3> QED  BY <2>1, <3>1, <3>2 DEF Ordinary
  <2> QED  BY <2>2, <2>3, <2>4
<1>6. (tpc' # "retry" => tretry' = {}) /\ (request' # Nil => request' # "scheduled")
  BY DEF Ordinary
<1> QED  BY <1>3, <1>4, <1>5, <1>6

LEMMA OneInitInv == Init => OneInv
<1> SUFFICES ASSUME Init PROVE OneInv
  OBVIOUS
<1>1. Created = {} /\ old = {} /\ late = {} /\ tpc = "idle" /\ tretry = {} /\ request = Nil
  BY DEF Init, Created
<1>2. \A j \in Jobs : since[j] = 0 /\ status[j] = "NONE"
  BY DEF Init
<1>3. Unsent /\ Aged /\ Numbered
  BY <1>1, <1>2 DEF Unsent, Aged, Numbered, Interval
<1>4. Followed /\ LastIsLatest /\ NextIsDue
  BY <1>1 DEF Followed, LastIsLatest, NextIsDue
<1> QED  BY <1>1, <1>3, <1>4, RInitInv DEF OneInv, InTurn

LEMMA OneStepInv == OneInv /\ [Next]_vars => OneInv'
<1> SUFFICES ASSUME OneInv, [Next]_vars PROVE OneInv'
  OBVIOUS
<1>1. RInv'
  BY RStepInv DEF OneInv
<1>2. CASE UNCHANGED vars
  BY <1>1, <1>2 DEF vars, OneInv, Unsent, Unreferenced, InTurn, Numbered, Aged, Elder, Created,
                    AllScheduled, Followed, Undisturbed, LastIsLatest, NextIsDue
<1>3. CASE Next
  <2>1. Step /\ Observe /\ RInv
    BY <1>3 DEF Next, OneInv
  <2>2. Unsent' /\ late' \subseteq Created'
    BY <2>1, UnsentKept DEF OneInv
  <2>3. InTurn'
    BY <2>1, StepKinds, TimeInTurn, CheckInTurn, ListInTurn, MakeInTurn, OrdinaryInTurn
  <2> QED  BY <1>1, <2>2, <2>3 DEF OneInv
<1> QED  BY <1>2, <1>3

(* The ticker gives a connection and resource type one job at a time:      *)
(* however its pass, the cycles, the results, the timeouts and the cancel  *)
(* requests interleave, two of its jobs are at work only when a job has    *)
(* been brought back after its end.                                        *)
THEOREM OneAtATime == Spec => []OneAtWork
<1>1. OneInv => OneAtWork
  <2> SUFFICES ASSUME OneInv, AllScheduled, NEW i \in Created, NEW j \in Created, i < j,
                      status[i] \in InProgress
               PROVE  (1..j) \cap late # {}
    BY DEF OneAtWork, AllScheduled
  <2> QED  BY DEF OneInv, InTurn, Followed, Undisturbed
<1> QED  BY <1>1, OneInitInv, OneStepInv, PTL DEF Spec
=============================================================================
