---------------------------- MODULE AnalyticsJob -----------------------------
(***************************************************************************)
(* The analytics jobs: the rows of analytics_jobs of one type, those who   *)
(* create and publish them (the ticker, a request and, in JobSequencer,    *)
(* the sequencer, all through scheduleAnalyticsJob), the analytics         *)
(* workers, the consumer of their results, the timeout and the cancel      *)
(* requests.  Each action is one statement to the database or one call.    *)
(***************************************************************************)
EXTENDS Naturals, FiniteSets

CONSTANTS Callers,      \* who calls scheduleAnalyticsJob: "ticker" and others
          MaxJobs,      \* bound on the rows created
          Quota,        \* Quota[c]: bound on the rows one of them creates
          NWorkers,     \* jobs the workers can be at, at one time
          MaxCancels,   \* bound on cancel requests
          MaxFaults,    \* bound on failed statements, failed calls, lost messages
          Nil           \* none

ASSUME CallersAssumption == "ticker" \in Callers
ASSUME AnalyticsBounds == /\ MaxJobs \in Nat /\ NWorkers \in Nat
                          /\ MaxCancels \in Nat /\ MaxFaults \in Nat
                          /\ Quota \in [Callers -> Nat]
ASSUME NilAssumption == Nil \notin Nat

Rows == 1..MaxJobs

AnalyticsStatus == {"CREATED", "IN_PROGRESS", "COMPLETED", "COMPLETED_WITH_FAILURE", "CANCELED"}
Open == {"CREATED", "IN_PROGRESS"}

VARIABLES
    status, maker,     \* columns of a row; maker: history, who created it
    aged, overtime,    \* rows created longer ago than the interval, and than 2 hours
    pc, row,           \* locals of scheduleAnalyticsJob, one for each caller
    queue, working,    \* rows with a message in the job queue, and at a worker
    results,           \* answers in the result queue
    view, cancels,     \* the row a cancel request has found CREATED
    faults,
    answered           \* history: rows one of whose answers was written

tableVars == <<status, maker, aged, overtime>>
callVars  == <<pc, row>>
queueVars == <<queue, working, results, answered>>
cancVars  == <<view, cancels>>
analyticsVars == <<tableVars, callVars, queueVars, cancVars, faults>>

Made == {j \in Rows : status[j] # "NONE"}
Answer == [job : Rows, status : {"COMPLETED", "COMPLETED_WITH_FAILURE"}]

AnalyticsTypeOK ==
    /\ status \in [Rows -> AnalyticsStatus \cup {"NONE"}]
    /\ maker \in [Rows -> Callers]
    /\ aged \subseteq Rows /\ overtime \subseteq Rows
    /\ pc \in [Callers -> {"idle", "read", "insert", "produce", "reject", "done"}]
    /\ row \in [Callers -> Rows \cup {0, Nil}]
    /\ queue \subseteq Rows /\ working \subseteq Rows
    /\ results \subseteq Answer
    /\ view \in Rows \cup {Nil} /\ cancels \in 0..MaxCancels
    /\ faults \in 0..MaxFaults
    /\ answered \subseteq Rows

AnalyticsInit ==
    /\ status = [j \in Rows |-> "NONE"] /\ maker = [j \in Rows |-> "ticker"]
    /\ aged = {} /\ overtime = {}
    /\ pc = [c \in Callers |-> "idle"] /\ row = [c \in Callers |-> Nil]
    /\ queue = {} /\ working = {} /\ results = {}
    /\ view = Nil /\ cancels = 0 /\ faults = 0 /\ answered = {}

Fault == faults < MaxFaults /\ faults' = faults + 1

(* UpdateAnalyticsJobStatus, UpdateAnalyticsJob: whatever the old status *)
Put(S, st) == status' = [j \in Rows |-> IF j \in S THEN st ELSE status[j]]

-----------------------------------------------------------------------------
(* scheduleAnalyticsJob.  A call that is over is "done": it has returned   *)
(* the id of the new row or 0, or Nil for an error.                        *)

Goto(c, l) == pc' = [pc EXCEPT ![c] = l]
Return(c, j) == Goto(c, "done") /\ row' = [row EXCEPT ![c] = j]

(* The rows are numbered in the order of created_at. *)
Last == CHOOSE j \in Made : \A i \in Made : i <= j
New  == CHOOSE j \in Rows \ Made : \A i \in Rows \ Made : j <= i

(* Mutant: the ticker does not look at the age of the last job *)
DueAlways == TRUE

(* RunAnalyticsJobScheduler: FetchLastAnalyticsJobForJobType, the ticker's *)
(* own look at the last job                                                *)
Due == Made # {} => Last \in aged

(* A tick with an enabled connection, or a request at any time *)
Call(c) ==
    /\ pc[c] = "idle"
    /\ Cardinality({j \in Made : maker[j] = c}) < Quota[c]
    /\ c = "ticker" => Due
    /\ Goto(c, "read")
    /\ UNCHANGED <<tableVars, row, queueVars, cancVars, faults>>

(* The last job is read again, and nothing is created beside one that is   *)
(* IN_PROGRESS.                                                            *)
ReadLast(c) ==
    /\ pc[c] = "read"
    /\ IF Made # {} /\ status[Last] = "IN_PROGRESS"
       THEN Return(c, Nil)
       ELSE Goto(c, "insert") /\ UNCHANGED row
    /\ UNCHANGED <<tableVars, queueVars, cancVars, faults>>

(* AddAnalyticsJob *)
Insert(c) ==
    /\ pc[c] = "insert" /\ Made # Rows
    /\ status' = [status EXCEPT ![New] = "CREATED"]
    /\ maker' = [maker EXCEPT ![New] = c]
    /\ row' = [row EXCEPT ![c] = New]
    /\ Goto(c, "produce")
    /\ UNCHANGED <<aged, overtime, queueVars, cancVars, faults>>

(* enqueueAnalyticsJobs: the message id is the row's, and each row is      *)
(* published once.                                                         *)
Enqueue(c) ==
    /\ pc[c] = "produce"
    /\ queue' = queue \cup {row[c]}
    /\ Return(c, row[c])
    /\ UNCHANGED <<tableVars, working, results, answered, cancVars, faults>>

(* A call fails, though the message may have been stored. *)
EnqueueFails(c) ==
    /\ pc[c] = "produce" /\ Fault
    /\ queue' \in {queue, queue \cup {row[c]}}
    /\ Goto(c, "reject")
    /\ UNCHANGED <<tableVars, row, working, results, answered, cancVars>>

(* Mutant: a status of another table *)
RejectAsFailed(c) ==
    /\ pc[c] = "reject"
    /\ Put({row[c]}, "FAILED")
    /\ Return(c, 0)
    /\ UNCHANGED <<maker, aged, overtime, queueVars, cancVars, faults>>

(* The error of the publication is overwritten by that of the update: when *)
(* the failure was written, 0 and no error are returned.                   *)
Reject(c) ==
    /\ pc[c] = "reject"
    /\ Put({row[c]}, "COMPLETED_WITH_FAILURE")
    /\ Return(c, 0)
    /\ UNCHANGED <<maker, aged, overtime, queueVars, cancVars, faults>>

(* Reading, inserting or the write of the failure fails. *)
CallFails(c) ==
    /\ pc[c] \in {"read", "insert", "reject"} /\ Fault
    /\ Return(c, Nil)
    /\ UNCHANGED <<tableVars, queueVars, cancVars>>

(* The ticker and the request do nothing with what is returned. *)
Returned(c) ==
    /\ pc[c] = "done"
    /\ Goto(c, "idle")
    /\ row' = [row EXCEPT ![c] = Nil]
    /\ UNCHANGED <<tableVars, queueVars, cancVars, faults>>

Schedule(c) == ReadLast(c) \/ Insert(c) \/ Enqueue(c) \/ Reject(c)
ScheduleFails(c) == EnqueueFails(c) \/ CallFails(c)

-----------------------------------------------------------------------------
(* The workers, and the consumer of their results. *)

WorkerTake(j) ==
    /\ j \in queue /\ Cardinality(working) < NWorkers
    /\ queue' = queue \ {j}
    /\ working' = working \cup {j}
    /\ UNCHANGED <<tableVars, callVars, results, answered, cancVars, faults>>

(* Mutant: the worker tells that it has begun, too, and the answers may    *)
(* overtake each other *)
WorkerFinishTwice(j) ==
    /\ j \in working
    /\ \E st \in {"COMPLETED", "COMPLETED_WITH_FAILURE"} :
          results' = results \cup {[job |-> j, status |-> st], [job |-> j, status |-> "IN_PROGRESS"]}
    /\ working' = working \ {j}
    /\ UNCHANGED <<tableVars, callVars, queue, answered, cancVars, faults>>

(* The message id of the answer is made of the row: a second answer may be *)
(* dropped as a duplicate.                                                 *)
Reply(j) == \/ \E st \in {"COMPLETED", "COMPLETED_WITH_FAILURE"} :
                  results' = results \cup {[job |-> j, status |-> st]}
            \/ j \in answered \cup {a.job : a \in results} /\ UNCHANGED results

(* The worker says nothing before it is done: no row is ever IN_PROGRESS.  *)
WorkerFinish(j) ==
    /\ j \in working
    /\ Reply(j)
    /\ working' = working \ {j}
    /\ UNCHANGED <<tableVars, callVars, queue, answered, cancVars, faults>>

(* The worker dies or cannot answer, or answers and cannot acknowledge:    *)
(* its message may be delivered again.                                     *)
WorkerLost(j) ==
    /\ j \in working /\ Fault
    /\ working' = working \ {j}
    /\ queue' \in {queue, queue \cup {j}}
    /\ Reply(j) \/ UNCHANGED results
    /\ UNCHANGED <<tableVars, callVars, answered, cancVars>>

(* RunAnalyticsJobResultsConsumer writes, and then acknowledges. *)
Consume(a) ==
    /\ a \in results
    /\ Put({a.job}, a.status)
    /\ results' = results \ {a}
    /\ answered' = answered \cup {a.job}
    /\ UNCHANGED <<maker, aged, overtime, callVars, queue, working, cancVars, faults>>

(* The write fails, and the answer may be delivered again; or it is        *)
(* written and delivered again.                                            *)
ConsumeFails(a) ==
    /\ a \in results /\ Fault
    /\ \/ UNCHANGED <<tableVars, answered>> /\ results' \in {results, results \ {a}}
       \/ /\ Put({a.job}, a.status)
          /\ answered' = answered \cup {a.job}
          /\ UNCHANGED <<maker, aged, overtime, results>>
    /\ UNCHANGED <<callVars, queue, working, cancVars>>

(* Mutants: a row that has ended is timed out too; rows that were never    *)
(* picked up are not                                                       *)
OverdueAny == {j \in overtime : status[j] # "CANCELED"}
OverdueRunning == {j \in overtime : status[j] = "IN_PROGRESS"}

(* UpdateAnalyticsJobsTimedOut *)
Overdue == {j \in overtime : status[j] \in Open}

Expire ==
    /\ Overdue # {}
    /\ Put(Overdue, "COMPLETED_WITH_FAILURE")
    /\ UNCHANGED <<maker, aged, overtime, callVars, queueVars, cancVars, faults>>

-----------------------------------------------------------------------------
(* CancelJobById and CancelJob for an analytics job: its message stays. *)

CancelRead(j) ==
    /\ view = Nil /\ cancels < MaxCancels
    /\ status[j] = "CREATED"
    /\ view' = j /\ cancels' = cancels + 1
    /\ UNCHANGED <<tableVars, callVars, queueVars, faults>>

CancelWrite ==
    /\ view # Nil
    /\ Put({view}, "CANCELED")
    /\ view' = Nil
    /\ UNCHANGED <<maker, aged, overtime, callVars, queueVars, cancels, faults>>

(* A statement of a ticker or of a request fails, to no effect: the next   *)
(* tick, or another request, tries again.                                  *)
TickFails ==
    /\ Fault
    /\ UNCHANGED <<tableVars, callVars, queueVars, cancVars>>

(* Time: a row is never older than one created before it. *)
Elder(j) == {i \in Made : i < j}

Age(j) ==
    /\ j \in Made
    /\ \/ j \notin aged /\ Elder(j) \subseteq aged
          /\ aged' = aged \cup {j} /\ UNCHANGED overtime
       \/ j \notin overtime /\ Elder(j) \subseteq overtime
          /\ overtime' = overtime \cup {j} /\ UNCHANGED aged
    /\ UNCHANGED <<status, maker, callVars, queueVars, cancVars, faults>>

(* The scheduler restarts: the callers lose their locals. *)
AnalyticsRestart ==
    /\ pc' = [c \in Callers |-> "idle"]
    /\ row' = [c \in Callers |-> Nil]
    /\ view' = Nil
    /\ UNCHANGED <<tableVars, queueVars, cancels>>

AnalyticsWork == \/ \E j \in Rows : WorkerTake(j) \/ WorkerFinish(j) \/ WorkerLost(j)
                 \/ \E a \in results : Consume(a) \/ ConsumeFails(a)
                 \/ Expire
                 \/ (\E j \in Rows : CancelRead(j)) \/ CancelWrite
                 \/ TickFails
                 \/ \E j \in Rows : Age(j)

AnalyticsStep == \/ \E c \in Callers : Schedule(c) \/ ScheduleFails(c)
                 \/ AnalyticsWork

AnalyticsNext == \/ AnalyticsStep
                 \/ \E c \in Callers : Call(c) \/ Returned(c)
                 \/ AnalyticsRestart /\ Fault

AnalyticsSpec == AnalyticsInit /\ [][AnalyticsNext]_analyticsVars

(* The result consumer's loop times jobs out, and time passes.  Nothing is *)
(* assumed of the workers, or of the queues.                               *)
AnalyticsFairness == /\ WF_analyticsVars(Expire) /\ WF_analyticsVars(CancelWrite)
                     /\ \A j \in Rows : WF_analyticsVars(Age(j))

AnalyticsFairSpec == AnalyticsSpec /\ AnalyticsFairness

-----------------------------------------------------------------------------
(* Properties. *)

(* The ticker creates a job at most once in an interval, whatever requests *)
(* and the sequencer create between, and across restarts: of its jobs one  *)
(* at most is younger than the interval.                                   *)
TickerKeepsInterval ==
    \A i, j \in Made : (maker[i] = "ticker" /\ maker[j] = "ticker" /\ i < j) => i \in aged

(* A row has ended for good.  What a late answer, a timeout, a cancel      *)
(* request or a failed publication may still do is change how it ended;    *)
(* a job that was answered is never timed out.                             *)
EndedStaysEnded ==
    [][\A j \in Rows :
          /\ status[j] \notin Open \cup {"NONE"} => status'[j] \notin Open \cup {"NONE"}
          /\ (j \in answered /\ status'[j] # status[j]) =>
                \/ view = j
                \/ \E c \in Callers : pc[c] = "reject" /\ row[c] = j
                \/ \E a \in results : a.job = j /\ a.status = status'[j]]_analyticsVars

(* Each row ends, whatever is lost. *)
AnalyticsSettle == \A j \in Rows : <>[](status[j] \notin Open)
=============================================================================
