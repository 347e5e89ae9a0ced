-------------------------- MODULE AnalyticsJobProofs --------------------------
(***************************************************************************)
(* Proofs about AnalyticsJob, for every set of callers of                  *)
(* scheduleAnalyticsJob, every number of rows and workers and every bound. *)
(***************************************************************************)
EXTENDS AnalyticsJob, NaturalSets

(* Nothing refers to a row before it is made: what is written later writes *)
(* to a row that exists.                                                   *)
Referred ==
    /\ queue \subseteq Made /\ working \subseteq Made
    /\ \A a \in results : a.job \in Made
    /\ view \in Made \cup {Nil}
    /\ \A c \in Callers : pc[c] \in {"produce", "reject"} => row[c] \in Made

(* Rows are made, and grow old, in their order.                            *)
InOrder ==
    /\ aged \subseteq Made
    /\ \A j \in Made : \A i \in Rows : i < j => i \in Made
    /\ \A j \in aged : \A i \in Rows : i < j => i \in aged

(* While the ticker is about to insert a row, its other rows are aged.     *)
TickerDue ==
    pc["ticker"] \in {"read", "insert"} =>
        \A i \in Made : maker[i] = "ticker" => i \in aged

IntervalInv == InOrder /\ TickerDue /\ TickerKeepsInterval

(* The inductive invariant. *)
AnalyticsInv == AnalyticsTypeOK /\ Referred /\ IntervalInv

USE DEF tableVars, callVars, queueVars, cancVars, Fault

(* The next row is the least that is not made, and the last the greatest   *)
(* that is.                                                                *)
LEMMA NewRow ==
    ASSUME Made # Rows
    PROVE  New \in Rows \ Made /\ \A i \in Rows \ Made : New <= i
<1>1. Rows \ Made \in SUBSET Nat /\ Rows \ Made # {}
  BY DEF Made, Rows
<1>2. \E j \in Rows \ Made : \A i \in Rows \ Made : j <= i
  <2> HIDE DEF Made, Rows
  <2> QED  BY <1>1, LeastNatural
<1> QED  BY <1>2 DEF New

LEMMA LastRow ==
    ASSUME Made # {}
    PROVE  Last \in Made /\ \A i \in Made : i <= Last
<1>1. Made \in SUBSET Nat /\ MaxJobs \in Nat /\ \A i \in Made : i <= MaxJobs
  BY AnalyticsBounds DEF Made, Rows
<1>2. \E j \in Made : \A i \in Made : i <= j
  BY <1>1, GreatestNatural
<1> QED  BY <1>2 DEF Last

(* A write to rows that are made leaves the same rows made. *)
LEMMA PutRows ==
    ASSUME AnalyticsTypeOK, NEW S, S \cap Rows \subseteq Made, NEW st \in AnalyticsStatus, Put(S, st)
    PROVE  /\ status' \in [Rows -> AnalyticsStatus \cup {"NONE"}]
           /\ Made' = Made
BY DEF AnalyticsTypeOK, Put, Made, AnalyticsStatus

(* Rows that stay as old and as many keep the interval, unless the ticker  *)
(* goes on to create one.                                                  *)
LEMMA IntervalKept ==
    ASSUME IntervalInv, Made' = Made, maker' = maker, aged' = aged,
           pc'["ticker"] \in {"read", "insert"} => pc["ticker"] \in {"read", "insert"}
    PROVE  IntervalInv'
BY DEF IntervalInv, InOrder, TickerDue, TickerKeepsInterval

-----------------------------------------------------------------------------
(* The callers. *)

LEMMA CallInv ==
    ASSUME AnalyticsInv, NEW c \in Callers, Call(c)
    PROVE  AnalyticsInv'
<1> USE DEF AnalyticsInv
<1>1. /\ UNCHANGED <<tableVars, row, queueVars, cancVars, faults>> /\ Made' = Made
      /\ pc' = [pc EXCEPT ![c] = "read"]
  BY DEF Call, Goto, Made
<1>2. AnalyticsTypeOK'
  BY <1>1 DEF AnalyticsTypeOK
<1>3. Referred'
  BY <1>1 DEF Referred, AnalyticsTypeOK
<1>4. TickerDue'
  <2>1. CASE c = "ticker"
    <3>1. Made # {} => Last \in aged
      BY <2>1 DEF Call, Due
    <3>2. \A i \in Made : i \in aged
      <4> SUFFICES ASSUME NEW i \in Made PROVE i \in aged
        OBVIOUS
      <4>1. Last \in aged /\ i <= Last /\ i \in Rows /\ Last \in Rows
        BY <3>1, LastRow DEF Made
      <4>2. i < Last \/ i = Last
        BY <4>1 DEF Rows
      <4> QED  BY <4>1, <4>2 DEF IntervalInv, InOrder
    <3> QED  BY <1>1, <3>2 DEF TickerDue
  <2>2. CASE c # "ticker"
    BY <1>1, <2>2 DEF TickerDue, IntervalInv, AnalyticsTypeOK
  <2> QED  BY <2>1, <2>2
<1>5. InOrder' /\ TickerKeepsInterval'
  BY <1>1 DEF IntervalInv, InOrder, TickerKeepsInterval
<1> QED  BY <1>2, <1>3, <1>4, <1>5 DEF IntervalInv

LEMMA InsertInv ==
    ASSUME AnalyticsInv, NEW c \in Callers, Insert(c)
    PROVE  AnalyticsInv'
<1> USE DEF AnalyticsInv
<1>1. New \in Rows /\ New \notin Made /\ \A i \in Rows \ Made : New <= i
  BY NewRow DEF Insert
<1>2. /\ status' = [status EXCEPT ![New] = "CREATED"]
      /\ maker' = [maker EXCEPT ![New] = c]
      /\ row' = [row EXCEPT ![c] = New]
      /\ pc' = [pc EXCEPT ![c] = "produce"] /\ pc[c] = "insert"
      /\ UNCHANGED <<aged, overtime, queueVars, cancVars, faults>>
  BY DEF Insert, Goto
<1> HIDE DEF New
<1>3. Made' = Made \cup {New}
  BY <1>1, <1>2 DEF Made, AnalyticsTypeOK
<1>4. AnalyticsTypeOK'
  BY <1>1, <1>2 DEF AnalyticsTypeOK, AnalyticsStatus
<1>5. Referred'
  BY <1>1, <1>2, <1>3 DEF Referred, AnalyticsTypeOK
<1>6. InOrder'
  <2>1. \A i \in Rows : i < New => i \in Made
    BY <1>1 DEF Rows
  <2> QED  BY <1>2, <1>3, <2>1 DEF IntervalInv, InOrder
<1>7. \A i \in Made : maker'[i] = maker[i] /\ i # New
  BY <1>1, <1>2 DEF AnalyticsTypeOK, Made
<1>8. TickerDue'
  BY <1>1, <1>2, <1>3, <1>7 DEF IntervalInv, TickerDue, AnalyticsTypeOK
<1>9. TickerKeepsInterval'
  <2> SUFFICES ASSUME NEW i \in Made', NEW j \in Made',
                      maker'[i] = "ticker", maker'[j] = "ticker", i < j
               PROVE  i \in aged
    BY <1>2 DEF TickerKeepsInterval
  <2>1. CASE i \in Made /\ j \in Made
    BY <1>7, <2>1 DEF IntervalInv, TickerKeepsInterval
  <2>2. CASE i = New
    <3>1. j \in Made /\ New \in Rows /\ New < j
      BY <1>3, <2>2, <1>1 DEF Rows
    <3> QED  BY <1>1, <3>1 DEF IntervalInv, InOrder
  <2>3. CASE i \in Made /\ j = New
    <3>1. c = "ticker" /\ maker[i] = "ticker"
      BY <1>1, <1>2, <1>7, <2>3 DEF AnalyticsTypeOK
    <3> QED  BY <1>2, <2>3, <3>1 DEF IntervalInv, TickerDue
  <2> QED  BY <1>3, <2>1, <2>2, <2>3
<1> QED  BY <1>4, <1>5, <1>6, <1>8, <1>9 DEF IntervalInv

(* The other steps of a call: none of them makes a row. *)
LEMMA ScheduleInv ==
    ASSUME AnalyticsInv, NEW c \in Callers,
           \/ ReadLast(c) \/ Enqueue(c) \/ Reject(c) \/ Returned(c) \/ ScheduleFails(c)
    PROVE  AnalyticsInv'
<1> USE DEF AnalyticsInv
<1>1. /\ maker' = maker /\ aged' = aged /\ overtime' = overtime
      /\ UNCHANGED <<working, results, answered, cancVars>>
      /\ faults' \in 0..MaxFaults
  BY AnalyticsBounds DEF AnalyticsTypeOK, ReadLast, Enqueue, Reject, Returned, ScheduleFails, EnqueueFails, CallFails
<1>2. /\ status' \in [Rows -> AnalyticsStatus \cup {"NONE"}] /\ Made' = Made
  <2>1. CASE Reject(c)
    <3>1. {row[c]} \cap Rows \subseteq Made
      BY <2>1 DEF Reject, Referred
    <3> QED  BY <2>1, <3>1, PutRows DEF Reject, AnalyticsStatus
  <2>2. CASE status' = status
    BY <2>2 DEF AnalyticsTypeOK, Made
  <2> QED  BY <2>1, <2>2 DEF ReadLast, Enqueue, Returned, ScheduleFails, EnqueueFails, CallFails
<1>3. PICK l \in {"idle", "insert", "reject", "done"} :
        /\ pc' = [pc EXCEPT ![c] = l]
        /\ l = "insert" => pc[c] = "read"
        /\ l = "reject" => pc[c] = "produce" /\ row' = row
        /\ l \in {"idle", "insert"} => row' \in {row, [row EXCEPT ![c] = Nil]}
  BY DEF ReadLast, Enqueue, Reject, Returned, ScheduleFails, EnqueueFails, CallFails, Goto, Return
<1>4. \/ row' = row
      \/ \E x \in Made \cup {0, Nil} : row' = [row EXCEPT ![c] = x]
  BY DEF ReadLast, Enqueue, Reject, Returned, ScheduleFails, EnqueueFails, CallFails, Goto, Return, Referred
<1>5. queue' \subseteq Made
  BY DEF ReadLast, Enqueue, Reject, Returned, ScheduleFails, EnqueueFails, CallFails, Goto, Return, Referred
<1>6. Made \subseteq Rows
  BY DEF Made
<1>7. AnalyticsTypeOK'
  <2>1. row' \in [Callers -> Rows \cup {0, Nil}]
    BY <1>4, <1>6 DEF AnalyticsTypeOK
  <2>2. pc' \in [Callers -> {"idle", "read", "insert", "produce", "reject", "done"}]
    BY <1>3 DEF AnalyticsTypeOK
  <2> QED  BY <1>1, <1>2, <1>5, <1>6, <2>1, <2>2 DEF AnalyticsTypeOK
<1>8. Referred'
  <2>1. ASSUME NEW d \in Callers, pc'[d] \in {"produce", "reject"} PROVE row'[d] \in Made
    <3>1. CASE d = c
      BY <1>3, <2>1, <3>1 DEF Referred, AnalyticsTypeOK
    <3>2. CASE d # c
      BY <1>3, <1>4, <2>1, <3>2 DEF Referred, AnalyticsTypeOK
    <3> QED  BY <3>1, <3>2
  <2> QED  BY <1>1, <1>2, <1>5, <2>1 DEF Referred
<1>9. IntervalInv'
  <2>1. pc'["ticker"] \in {"read", "insert"} => pc["ticker"] \in {"read", "insert"}
    BY <1>3 DEF AnalyticsTypeOK
  <2> QED  BY <1>1, <1>2, <2>1, IntervalKept
<1> QED  BY <1>7, <1>8, <1>9

-----------------------------------------------------------------------------
(* Workers, consumer, timeout, cancel requests and time. *)

LEMMA ReplyType ==
    ASSUME AnalyticsTypeOK, Referred, NEW j \in Made, Reply(j) \/ UNCHANGED results
    PROVE  results' \subseteq Answer /\ \A a \in results' : a.job \in Made
<1>1. CASE UNCHANGED results
  BY <1>1 DEF AnalyticsTypeOK, Referred
<1>2. ASSUME NEW st \in {"COMPLETED", "COMPLETED_WITH_FAILURE"},
             results' = results \cup {[job |-> j, status |-> st]}
      PROVE  results' \subseteq Answer /\ \A a \in results' : a.job \in Made
  <2>1. [job |-> j, status |-> st] \in Answer /\ [job |-> j, status |-> st].job = j
    BY DEF Answer, Made
  <2> QED  BY <1>2, <2>1 DEF AnalyticsTypeOK, Referred
<1> QED  BY <1>1, <1>2 DEF Reply

LEMMA WorkerInv ==
    ASSUME AnalyticsInv, NEW j \in Rows, WorkerTake(j) \/ WorkerFinish(j) \/ WorkerLost(j)
    PROVE  AnalyticsInv'
<1> USE DEF AnalyticsInv
<1>1. /\ UNCHANGED <<tableVars, callVars, cancVars, answered>> /\ Made' = Made
      /\ queue' \subseteq Made /\ working' \subseteq Made
      /\ faults' \in 0..MaxFaults
  BY AnalyticsBounds DEF WorkerTake, WorkerFinish, WorkerLost, Referred, AnalyticsTypeOK, Made
<1>2. results' \subseteq Answer /\ \A a \in results' : a.job \in Made
  <2>1. CASE UNCHANGED results
    BY <2>1 DEF AnalyticsTypeOK, Referred
  <2>2. CASE j \in Made /\ Reply(j)
    BY <2>2, ReplyType
  <2> QED  BY <2>1, <2>2 DEF WorkerTake, WorkerFinish, WorkerLost, Referred
<1>3. AnalyticsTypeOK'
  BY <1>1, <1>2 DEF AnalyticsTypeOK, Made
<1>4. Referred'
  BY <1>1, <1>2 DEF Referred
<1> QED  BY <1>1, <1>3, <1>4, IntervalKept

LEMMA ConsumeInv ==
    ASSUME AnalyticsInv, NEW a \in results, Consume(a) \/ ConsumeFails(a)
    PROVE  AnalyticsInv'
<1> USE DEF AnalyticsInv
<1>1. /\ UNCHANGED <<maker, aged, overtime, callVars, queue, working, cancVars>>
      /\ faults' \in 0..MaxFaults
      /\ results' \subseteq results
      /\ answered' \in {answered, answered \cup {a.job}}
  BY AnalyticsBounds DEF Consume, ConsumeFails, AnalyticsTypeOK
<1>2. a.job \in Made /\ a.status \in AnalyticsStatus
  BY DEF Referred, AnalyticsTypeOK, Answer, AnalyticsStatus
<1>3. status' \in [Rows -> AnalyticsStatus \cup {"NONE"}] /\ Made' = Made
  <2>1. CASE Put({a.job}, a.status)
    BY <1>2, <2>1, PutRows
  <2>2. CASE UNCHANGED status
    BY <2>2 DEF AnalyticsTypeOK, Made
  <2> QED  BY <2>1, <2>2 DEF Consume, ConsumeFails
<1>4. AnalyticsTypeOK'
  BY <1>1, <1>2, <1>3 DEF AnalyticsTypeOK, Made
<1>5. Referred'
  BY <1>1, <1>3 DEF Referred
<1> QED  BY <1>1, <1>3, <1>4, <1>5, IntervalKept

LEMMA WriteInv ==
    ASSUME AnalyticsInv, Expire \/ (\E j \in Rows : CancelRead(j)) \/ CancelWrite
    PROVE  AnalyticsInv'
<1> USE DEF AnalyticsInv
<1>1. /\ UNCHANGED <<maker, aged, overtime, callVars, queueVars, faults>>
      /\ view' \in Made \cup {Nil} /\ cancels' \in 0..MaxCancels
  BY AnalyticsBounds DEF Expire, CancelRead, CancelWrite, AnalyticsTypeOK, Referred, Made
<1>2. status' \in [Rows -> AnalyticsStatus \cup {"NONE"}] /\ Made' = Made
  <2>1. CASE Expire
    <3>1. Overdue \cap Rows \subseteq Made
      BY DEF Overdue, Open, Made
    <3> QED  BY <2>1, <3>1, PutRows DEF Expire, AnalyticsStatus
  <2>2. CASE CancelWrite
    <3>1. {view} \cap Rows \subseteq Made
      BY <2>2 DEF CancelWrite, Referred
    <3> QED  BY <2>2, <3>1, PutRows DEF CancelWrite, AnalyticsStatus
  <2>3. CASE UNCHANGED status
    BY <2>3 DEF AnalyticsTypeOK, Made
  <2> QED  BY <2>1, <2>2, <2>3 DEF CancelRead
<1>3. AnalyticsTypeOK'
  BY <1>1, <1>2 DEF AnalyticsTypeOK, Made
<1>4. Referred'
  BY <1>1, <1>2 DEF Referred
<1> QED  BY <1>1, <1>2, <1>3, <1>4, IntervalKept

LEMMA AgeInv ==
    ASSUME AnalyticsInv, NEW j \in Rows, Age(j)
    PROVE  AnalyticsInv'
<1> USE DEF AnalyticsInv
<1>1. /\ UNCHANGED <<status, maker, callVars, queueVars, cancVars, faults>> /\ Made' = Made
      /\ aged \subseteq aged' /\ aged' \subseteq aged \cup {j}
      /\ j \in aged' => j \in aged \/ Elder(j) \subseteq aged
      /\ overtime' \subseteq overtime \cup {j}
      /\ j \in Made
  BY DEF Age, Made
<1>2. AnalyticsTypeOK'
  BY <1>1 DEF AnalyticsTypeOK
<1>3. Referred'
  BY <1>1 DEF Referred
<1>4. InOrder'
  <2>1. \A i \in Rows : j \in aged' /\ i < j => i \in aged
    BY <1>1 DEF Elder, IntervalInv, InOrder
  <2> QED  BY <1>1, <2>1 DEF IntervalInv, InOrder
<1>5. TickerDue' /\ TickerKeepsInterval'
  BY <1>1 DEF IntervalInv, TickerDue, TickerKeepsInterval
<1> QED  BY <1>2, <1>3, <1>4, <1>5 DEF IntervalInv

LEMMA TickFailsInv ==
    ASSUME AnalyticsInv, TickFails
    PROVE  AnalyticsInv'
<1> USE DEF AnalyticsInv
<1>1. UNCHANGED <<tableVars, callVars, queueVars, cancVars>> /\ Made' = Made
  BY DEF TickFails, Made
<1>2. AnalyticsTypeOK'
  BY <1>1, AnalyticsBounds DEF TickFails, AnalyticsTypeOK
<1>3. Referred'
  BY <1>1 DEF Referred
<1> QED  BY <1>1, <1>2, <1>3, IntervalKept

LEMMA RestartInv ==
    ASSUME AnalyticsInv, AnalyticsRestart, faults' \in 0..MaxFaults
    PROVE  AnalyticsInv'
<1> USE DEF AnalyticsInv
<1>1. /\ pc' = [c \in Callers |-> "idle"] /\ row' = [c \in Callers |-> Nil] /\ view' = Nil
      /\ UNCHANGED <<tableVars, queueVars, cancels>> /\ Made' = Made
  BY DEF AnalyticsRestart, Made
<1>2. AnalyticsTypeOK'
  BY <1>1 DEF AnalyticsTypeOK
<1>3. Referred'
  BY <1>1 DEF Referred
<1>4. pc'["ticker"] = "idle"
  BY <1>1, CallersAssumption
<1> QED  BY <1>1, <1>2, <1>3, <1>4, IntervalKept

-----------------------------------------------------------------------------
LEMMA AnalyticsInitInv == AnalyticsInit => AnalyticsInv
<1> SUFFICES ASSUME AnalyticsInit PROVE AnalyticsInv
  OBVIOUS
<1>1. Made = {}
  BY DEF AnalyticsInit, Made
<1>2. AnalyticsTypeOK
  BY AnalyticsBounds, CallersAssumption DEF AnalyticsInit, AnalyticsTypeOK
<1>3. Referred /\ IntervalInv
  BY <1>1, CallersAssumption DEF AnalyticsInit, Referred, IntervalInv, InOrder, TickerDue, TickerKeepsInterval
<1> QED  BY <1>2, <1>3 DEF AnalyticsInv

LEMMA AnalyticsStepInv == AnalyticsInv /\ [AnalyticsNext]_analyticsVars => AnalyticsInv'
<1> SUFFICES ASSUME AnalyticsInv, [AnalyticsNext]_analyticsVars PROVE AnalyticsInv'
  OBVIOUS
<1>1. CASE UNCHANGED analyticsVars
  <2>1. AnalyticsTypeOK' /\ Made' = Made
    BY <1>1 DEF AnalyticsInv, AnalyticsTypeOK, analyticsVars, Made
  <2>2. Referred'
    BY <1>1, <2>1 DEF AnalyticsInv, Referred, analyticsVars
  <2>3. IntervalInv'
    BY <1>1, <2>1, IntervalKept DEF AnalyticsInv, analyticsVars
  <2> QED  BY <2>1, <2>2, <2>3 DEF AnalyticsInv
<1>2. CASE AnalyticsWork
  BY <1>2, WorkerInv, ConsumeInv, WriteInv, TickFailsInv, AgeInv DEF AnalyticsWork
<1>3. CASE \E c \in Callers : Schedule(c) \/ ScheduleFails(c) \/ Call(c) \/ Returned(c)
  BY <1>3, CallInv, InsertInv, ScheduleInv DEF Schedule
<1>4. CASE AnalyticsRestart /\ Fault
  <2>1. faults' \in 0..MaxFaults
    BY <1>4, AnalyticsBounds DEF AnalyticsInv, AnalyticsTypeOK
  <2> QED  BY <1>4, <2>1, RestartInv
<1> QED  BY <1>1, <1>2, <1>3, <1>4 DEF AnalyticsNext, AnalyticsStep

(* Every variable keeps its type: whoever writes the table writes one of   *)
(* its statuses, to rows that were made.                                   *)
THEOREM AnalyticsTypeCorrect == AnalyticsSpec => []AnalyticsTypeOK
<1>1. AnalyticsInv => AnalyticsTypeOK
  BY DEF AnalyticsInv
<1> QED  BY <1>1, AnalyticsInitInv, AnalyticsStepInv, PTL DEF AnalyticsSpec

(* The ticker creates at most one job in an interval, for every number of  *)
(* other callers that create jobs beside it.                               *)
THEOREM IntervalKeptByTicker == AnalyticsSpec => []TickerKeepsInterval
<1>1. AnalyticsInv => TickerKeepsInterval
  BY DEF AnalyticsInv, IntervalInv
<1> QED  BY <1>1, AnalyticsInitInv, AnalyticsStepInv, PTL DEF AnalyticsSpec
-----------------------------------------------------------------------------
(* The end of a row. *)

HasEnded(j) == status[j] \notin Open \cup {"NONE"}

(* A row that was answered has ended. *)
AnsweredInv == \A j \in answered : HasEnded(j)

(* What may write a row that was answered. *)
Rewritten(j) == \/ view = j
                \/ \E c \in Callers : pc[c] = "reject" /\ row[c] = j
                \/ \E a \in results : a.job = j /\ a.status = status'[j]

EndsKept == \A j \in Rows : /\ HasEnded(j) => HasEnded(j)'
                            /\ (j \in answered /\ status'[j] # status[j]) => Rewritten(j)

AnsweredEnd == AnalyticsInv /\ AnsweredInv

(* A row that has ended stays so, and is written again only by who held it *)
(* before; a row is answered when it ends.                                 *)
LEMMA StepEnds ==
    ASSUME AnsweredEnd, [AnalyticsNext]_analyticsVars
    PROVE  EndsKept /\ AnsweredInv'
<1> USE DEF AnsweredEnd, AnalyticsInv
<1>0. answered \subseteq Rows /\ status \in [Rows -> AnalyticsStatus \cup {"NONE"}]
  BY DEF AnalyticsTypeOK
<1>1. ASSUME status' = status, answered' = answered
      PROVE  EndsKept /\ AnsweredInv'
  BY <1>1 DEF EndsKept, AnsweredInv, HasEnded
<1>2. ASSUME NEW c \in Callers, Insert(c)
      PROVE  EndsKept /\ AnsweredInv'
  <2>1. New \in Rows /\ status[New] = "NONE" /\ status' = [status EXCEPT ![New] = "CREATED"]
    BY <1>2, NewRow DEF Insert, Made
  <2>2. answered' = answered
    BY <1>2 DEF Insert
  <2> QED  BY <1>0, <2>1, <2>2 DEF EndsKept, AnsweredInv, HasEnded
<1>3. ASSUME NEW c \in Callers, Reject(c)
      PROVE  EndsKept /\ AnsweredInv'
  BY <1>0, <1>3 DEF Reject, Put, EndsKept, AnsweredInv, HasEnded, Rewritten, Open
<1>4. ASSUME NEW a \in results, Consume(a) \/ ConsumeFails(a)
      PROVE  EndsKept /\ AnsweredInv'
  <2>1. a.job \in Rows /\ a.status \notin Open \cup {"NONE"}
    BY DEF AnalyticsTypeOK, Answer, Open
  <2>2. CASE Put({a.job}, a.status) /\ answered' = answered \cup {a.job}
    BY <1>0, <2>1, <2>2 DEF Put, EndsKept, AnsweredInv, HasEnded, Rewritten
  <2> QED  BY <1>1, <1>4, <2>2 DEF Consume, ConsumeFails
<1>5. CASE Expire
  <2>1. \A j \in Overdue : status[j] \in Open
    BY DEF Overdue
  <2> QED  BY <1>0, <1>5, <2>1 DEF Expire, Put, EndsKept, AnsweredInv, HasEnded, Open
<1>6. CASE CancelWrite
  BY <1>0, <1>6 DEF CancelWrite, Put, EndsKept, AnsweredInv, HasEnded, Rewritten, Open
<1>7. ASSUME NEW c \in Callers, ReadLast(c) \/ Enqueue(c) \/ ScheduleFails(c) \/ Call(c) \/ Returned(c)
      PROVE  EndsKept /\ AnsweredInv'
  BY <1>1, <1>7 DEF ReadLast, Enqueue, ScheduleFails, EnqueueFails, CallFails, Call, Returned
<1>8. ASSUME NEW j \in Rows, WorkerTake(j) \/ WorkerFinish(j) \/ WorkerLost(j) \/ CancelRead(j) \/ Age(j)
      PROVE  EndsKept /\ AnsweredInv'
  BY <1>1, <1>8 DEF WorkerTake, WorkerFinish, WorkerLost, CancelRead, Age
<1>9. CASE TickFails \/ AnalyticsRestart \/ UNCHANGED analyticsVars
  BY <1>1, <1>9 DEF TickFails, AnalyticsRestart, analyticsVars
<1> QED  BY <1>2, <1>3, <1>4, <1>5, <1>6, <1>7, <1>8, <1>9, Zenon
         DEF AnalyticsNext, AnalyticsStep, AnalyticsWork, Schedule

(* A row that has ended stays ended, and one that was answered is written  *)
(* again only by a cancel request, a failed publication or another answer. *)
THEOREM EndsStay == AnalyticsSpec => EndedStaysEnded
<1>1. AnalyticsInit => AnsweredEnd
  BY AnalyticsInitInv DEF AnalyticsInit, AnsweredEnd, AnsweredInv
<1>2. AnsweredEnd /\ [AnalyticsNext]_analyticsVars => AnsweredEnd'
  BY AnalyticsStepInv, StepEnds DEF AnsweredEnd
<1>3. AnsweredEnd /\ [AnalyticsNext]_analyticsVars =>
        [\A j \in Rows :
          /\ status[j] \notin Open \cup {"NONE"} => status'[j] \notin Open \cup {"NONE"}
          /\ (j \in answered /\ status'[j] # status[j]) =>
                \/ view = j
                \/ \E c \in Callers : pc[c] = "reject" /\ row[c] = j
                \/ \E a \in results : a.job = j /\ a.status = status'[j]]_analyticsVars
  BY StepEnds DEF EndsKept, HasEnded, Rewritten
<1> QED  BY <1>1, <1>2, <1>3, PTL DEF AnalyticsSpec, EndedStaysEnded
=============================================================================
