----------------------------- MODULE QueryRunner -----------------------------
(***************************************************************************)
(* Runs of named queries: the rows of query_runner_jobs, the requests that *)
(* create, cancel and purge them, the publisher that sends them, the       *)
(* workers, and the consumer of their results.  Each action is one         *)
(* statement to the database or one call.                                  *)
(***************************************************************************)
EXTENDS Naturals, Sequences

CONSTANTS Runs,        \* runs of queries
          Fate,        \* Fate[r]: what the publisher can make of the query of r, at some time
          MaxCancels,  \* bound on requests to cancel a run or to purge them all
          MaxFaults,   \* bound on failed statements, failed calls, crashes
          Nil          \* none

ASSUME FateAssumption ==
    Fate \in [Runs -> SUBSET {"good", "unknown", "unparsable", "unexecutable"}]
ASSUME BoundsAssumption == /\ MaxCancels \in Nat /\ MaxFaults \in Nat
ASSUME NilAssumption == Nil \notin Runs

RunStatus == {"CREATED", "QUEUED", "IN_PROGRESS", "SUCCEEDED", "FAILED", "TIMEOUT", "CANCELED"}
Ended     == {"SUCCEEDED", "FAILED", "TIMEOUT", "CANCELED"}

VARIABLES
    status, seq,      \* columns of a row; nats_sequence_number, as the copy it numbers
    rested, halfday,  \* rows with an updated_at of more than 5 minutes, 12 hours ago
    pc, batch, cur, after,   \* locals of runPublisher; after: where a failure leads
    queue, working,   \* copies of messages in the queue, and at a worker
    results, hand,    \* the result queue; the result that was acknowledged
    stored,           \* how many copies of a run's message the stream has taken
    view, cancels,    \* what a cancel request does next; how many requests there were
    faults

rowVars == <<status, seq, rested, halfday>>
pubVars == <<pc, batch, cur, after>>
natVars == <<queue, working, stored>>
resVars == <<results, hand>>
reqVars == <<view, cancels>>
vars == <<rowVars, pubVars, natVars, resVars, reqVars, faults>>

Result == [run : Runs, status : {"IN_PROGRESS", "SUCCEEDED", "FAILED"}]
Copies == 1..(1 + MaxFaults)
Copy   == Runs \X Copies

TypeOK ==
    /\ status \in [Runs -> RunStatus \cup {"NONE", "DELETED"}]
    /\ seq \in [Runs -> Copies \cup {Nil}]
    /\ rested \subseteq Runs /\ halfday \subseteq Runs
    /\ pc \in {"idle", "running", "fetch", "next", "produce", "stamp", "mark", "fail"}
    /\ batch \subseteq Runs /\ cur \in Runs \cup {Nil} /\ after \in {"next", "idle"}
    /\ queue \subseteq Copy /\ working \subseteq Copy
    /\ results \in Seq(Result) /\ hand \in Result \cup {Nil}
    /\ stored \in [Runs -> Nat]
    /\ view \in [run : Runs, step : {"drop", "write"}, seq : Copies \cup {Nil}] \cup {Nil}
    /\ cancels \in 0..MaxCancels /\ faults \in 0..MaxFaults

Init ==
    /\ status = [r \in Runs |-> "NONE"] /\ seq = [r \in Runs |-> Nil]
    /\ rested = {} /\ halfday = {}
    /\ pc = "idle" /\ batch = {} /\ cur = Nil /\ after = "next"
    /\ queue = {} /\ working = {} /\ results = <<>> /\ hand = Nil
    /\ stored = [r \in Runs |-> 0]
    /\ view = Nil /\ cancels = 0 /\ faults = 0

Fault == faults < MaxFaults /\ faults' = faults + 1

(* An UPDATE of rows S that sets updated_at, too; there may be no such row. *)
Exists(r) == status[r] \notin {"NONE", "DELETED"}
Touch(S) == rested' = rested \ S /\ halfday' = halfday \ S
Put(S, st) ==
    /\ status' = [r \in Runs |-> IF r \in S /\ Exists(r) THEN st ELSE status[r]]
    /\ Touch(S)

-----------------------------------------------------------------------------
(* Requests. *)

RunQuery(r) ==
    /\ status[r] = "NONE"
    /\ status' = [status EXCEPT ![r] = "CREATED"]
    /\ UNCHANGED <<seq, rested, halfday, pubVars, natVars, resVars, reqVars, faults>>

(* PurgeSampleData deletes all rows, whatever is under way for them. *)
Purge ==
    /\ cancels < MaxCancels
    /\ cancels' = cancels + 1
    /\ status' = [r \in Runs |-> IF status[r] = "NONE" THEN "NONE" ELSE "DELETED"]
    /\ UNCHANGED <<seq, rested, halfday, pubVars, natVars, resVars, view, faults>>

(* CancelJob for a query: a row that is CREATED is written at once, the    *)
(* message of one that is QUEUED is deleted first.                         *)
CancelRead(r) ==
    /\ view = Nil /\ cancels < MaxCancels
    /\ status[r] \in {"CREATED", "QUEUED"}
    /\ cancels' = cancels + 1
    /\ view' = [run |-> r, step |-> IF status[r] = "CREATED" THEN "write" ELSE "drop",
                seq |-> seq[r]]
    /\ UNCHANGED <<rowVars, pubVars, natVars, resVars, faults>>

(* DeleteMessage: a message that a worker has is still in the stream. *)
CancelDrop ==
    /\ view # Nil /\ view.step = "drop"
    /\ <<view.run, view.seq>> \in queue \cup working
    /\ queue' = queue \ {<<view.run, view.seq>>}
    /\ view' = [view EXCEPT !.step = "write"]
    /\ UNCHANGED <<rowVars, pubVars, working, stored, resVars, cancels, faults>>

CancelDropFails ==
    /\ view # Nil /\ view.step = "drop"
    /\ <<view.run, view.seq>> \notin queue
    /\ view' = Nil
    /\ UNCHANGED <<rowVars, pubVars, natVars, resVars, cancels, faults>>

CancelWrite ==
    /\ view # Nil /\ view.step = "write"
    /\ Put({view.run}, "CANCELED")
    /\ view' = Nil
    /\ UNCHANGED <<seq, pubVars, natVars, resVars, cancels, faults>>

-----------------------------------------------------------------------------
(* runPublisher, on a ticker: two timeouts, and a loop over the rows that  *)
(* are CREATED, in no stated order.                                        *)

(* Mutant: a run that has ended is timed out, too *)
OverdueAny(st) == {r \in (IF st = "QUEUED" THEN halfday ELSE rested) :
                      status[r] \notin {"CREATED", "CANCELED"}}

Overdue(st) == {r \in (IF st = "QUEUED" THEN halfday ELSE rested) : status[r] = st}

(* UpdateTimedOutQueuedQueryRunners; an error is logged only *)
PubExpireQueued ==
    /\ pc = "idle"
    /\ \/ Put(Overdue("QUEUED"), "TIMEOUT") /\ UNCHANGED faults
       \/ Fault /\ UNCHANGED <<status, rested, halfday>>
    /\ pc' = "running"
    /\ UNCHANGED <<seq, batch, cur, after, natVars, resVars, reqVars>>

(* UpdateTimedOutInProgressQueryRunners *)
PubExpireRunning ==
    /\ pc = "running"
    /\ \/ Put(Overdue("IN_PROGRESS"), "TIMEOUT") /\ UNCHANGED faults
       \/ Fault /\ UNCHANGED <<status, rested, halfday>>
    /\ pc' = "fetch"
    /\ UNCHANGED <<seq, batch, cur, after, natVars, resVars, reqVars>>

(* Go on with the rows left in B; the round ends with the last of them,    *)
(* and at once with any error that is returned.                            *)
GoOn(B) == /\ pc' = IF B = {} THEN "idle" ELSE "next"
           /\ batch' = B /\ cur' = Nil /\ after' = "next"
Leave == GoOn({})

(* Mutant: runs that wait in the queue are fetched, too *)
FetchedQueuedToo == {r \in Runs : status[r] \in {"CREATED", "QUEUED"}}

(* FetchCreatedQueryRunnerJobs *)
Fetched == {r \in Runs : status[r] = "CREATED"}

PubFetch ==
    /\ pc = "fetch"
    /\ \/ GoOn(Fetched) /\ UNCHANGED faults
       \/ Leave /\ Fault
    /\ UNCHANGED <<rowVars, natVars, resVars, reqVars>>

(* Mutant: the row is left as it is when there is no such query *)
PubTakeKnown(r) ==
    /\ pc = "next" /\ r \in batch
    /\ \/ "good" \in Fate[r] /\ cur' = r /\ pc' = "produce" /\ UNCHANGED <<batch, after>>
       \/ "unknown" \in Fate[r] /\ GoOn(batch \ {r})
       \/ "unparsable" \in Fate[r] /\ Leave
       \/ "unexecutable" \in Fate[r] /\ cur' = r /\ pc' = "fail" /\ after' = "idle" /\ UNCHANGED batch
    /\ UNCHANGED <<rowVars, natVars, resVars, reqVars, faults>>

(* The query is looked up, and its template filled in.  One that does not  *)
(* parse ends the round and leaves the row as it is.                       *)
PubTake(r) ==
    /\ pc = "next" /\ r \in batch
    /\ \/ "good" \in Fate[r] /\ cur' = r /\ pc' = "produce" /\ UNCHANGED <<batch, after>>
       \/ "unknown" \in Fate[r] /\ cur' = r /\ pc' = "fail" /\ after' = "next" /\ UNCHANGED batch
       \/ "unparsable" \in Fate[r] /\ Leave
       \/ "unexecutable" \in Fate[r] /\ cur' = r /\ pc' = "fail" /\ after' = "idle" /\ UNCHANGED batch
    /\ UNCHANGED <<rowVars, natVars, resVars, reqVars, faults>>

(* No service knows the query because both calls failed; or the parameters *)
(* cannot be listed, which ends the round.                                 *)
PubTakeFails(r) ==
    /\ pc = "next" /\ r \in batch /\ Fault
    /\ cur' = r /\ pc' = "fail" /\ after' \in {"next", "idle"}
    /\ UNCHANGED <<batch, rowVars, natVars, resVars, reqVars>>

PubFail ==
    /\ pc = "fail"
    /\ \/ Put({cur}, "FAILED") /\ UNCHANGED faults
       \/ Fault /\ UNCHANGED <<status, rested, halfday>>
    /\ GoOn(IF after = "next" THEN batch \ {cur} ELSE {})
    /\ UNCHANGED <<seq, natVars, resVars, reqVars>>

(* RetryCount is 0 for ever, so that all copies have one message id: the   *)
(* stream takes it again only when its window of duplicates is over.       *)
Store(r) == \/ /\ stored[r] + 1 \in Copies
               /\ queue' = queue \cup {<<r, stored[r] + 1>>}
               /\ stored' = [stored EXCEPT ![r] = @ + 1]
            \/ stored[r] > 0 /\ UNCHANGED <<queue, stored>>

PubProduce ==
    /\ pc = "produce"
    /\ Store(cur)
    /\ pc' = "stamp"
    /\ UNCHANGED <<batch, cur, after, rowVars, working, resVars, reqVars, faults>>

(* The call fails, though the message may have been stored; or the streams *)
(* cannot be set up again, and the round ends with the row as it is.       *)
PubProduceFails ==
    /\ pc = "produce" /\ Fault
    /\ UNCHANGED <<queue, stored>> \/ Store(cur)
    /\ \/ pc' = "fail" /\ UNCHANGED <<batch, cur, after>>
       \/ Leave
    /\ UNCHANGED <<rowVars, working, resVars, reqVars>>

(* Mutant: the number of the message after it *)
PubStampNext ==
    /\ pc = "stamp"
    /\ \/ /\ seq' = [seq EXCEPT ![cur] = IF Exists(cur) THEN stored[cur] + 1 ELSE @]
          /\ Touch({cur}) /\ UNCHANGED faults
       \/ Fault /\ UNCHANGED <<seq, rested, halfday>>
    /\ pc' = "mark"
    /\ UNCHANGED <<batch, cur, after, status, natVars, resVars, reqVars>>

(* UpdateQueryRunnerJobNatsSeqNum; an error is ignored *)
PubStamp ==
    /\ pc = "stamp"
    /\ \/ /\ seq' = [seq EXCEPT ![cur] = IF Exists(cur) THEN stored[cur] ELSE @]
          /\ Touch({cur}) /\ UNCHANGED faults
       \/ Fault /\ UNCHANGED <<seq, rested, halfday>>
    /\ pc' = "mark"
    /\ UNCHANGED <<batch, cur, after, status, natVars, resVars, reqVars>>

(* QUEUED, whatever has become of the row meanwhile; an error is ignored *)
PubMark ==
    /\ pc = "mark"
    /\ \/ Put({cur}, "QUEUED") /\ UNCHANGED faults
       \/ Fault /\ UNCHANGED <<status, rested, halfday>>
    /\ GoOn(batch \ {cur})
    /\ UNCHANGED <<seq, natVars, resVars, reqVars>>

(* The scheduler restarts. *)
Crash ==
    /\ Fault
    /\ pc' = "idle" /\ batch' = {} /\ cur' = Nil /\ after' = "next"
    /\ hand' = Nil /\ view' = Nil
    /\ UNCHANGED <<rowVars, natVars, results, cancels>>

-----------------------------------------------------------------------------
(* The workers.  A message is delivered once.  The ids of both answers are *)
(* made of the run: the answers to a second copy may be dropped.           *)

Answer(r, st) == \/ results' = Append(results, [run |-> r, status |-> st])
                 \/ stored[r] > 1 /\ UNCHANGED results

WorkerTake(m) ==
    /\ m \in queue
    /\ queue' = queue \ {m} /\ working' = working \cup {m}
    /\ Answer(m[1], "IN_PROGRESS")
    /\ UNCHANGED <<rowVars, pubVars, stored, hand, reqVars, faults>>

WorkerFinish(m) ==
    /\ m \in working
    /\ working' = working \ {m}
    /\ \E st \in {"SUCCEEDED", "FAILED"} : Answer(m[1], st)
    /\ UNCHANGED <<rowVars, pubVars, queue, stored, hand, reqVars, faults>>

(* The worker dies, or cannot answer; or it cannot answer that it began. *)
WorkerLost(m) ==
    /\ m \in queue \cup working /\ Fault
    /\ queue' = queue \ {m}
    /\ working' \in {working \ {m}, working \cup {m}}
    /\ UNCHANGED <<rowVars, pubVars, stored, resVars, reqVars>>

(* RunQueryRunnerReportJobResultsConsumer acknowledges, and then writes. *)
ConsumerTake ==
    /\ hand = Nil /\ results # <<>>
    /\ hand' = Head(results) /\ results' = Tail(results)
    /\ UNCHANGED <<rowVars, pubVars, natVars, reqVars, faults>>

ConsumerWrite ==
    /\ hand # Nil
    /\ \/ Put({hand.run}, hand.status) /\ UNCHANGED faults
       \/ Fault /\ UNCHANGED <<status, rested, halfday>>
    /\ hand' = Nil
    /\ UNCHANGED <<seq, pubVars, natVars, results, reqVars>>

(* Time *)
Rest(r) ==
    /\ Exists(r)
    /\ \/ r \notin rested /\ rested' = rested \cup {r} /\ UNCHANGED halfday
       \/ r \in rested \ halfday /\ halfday' = halfday \cup {r} /\ UNCHANGED rested
    /\ UNCHANGED <<status, seq, pubVars, natVars, resVars, reqVars, faults>>

-----------------------------------------------------------------------------
Publish == \/ PubExpireQueued \/ PubExpireRunning \/ PubFetch
           \/ (\E r \in batch : PubTake(r)) \/ PubFail \/ PubProduce \/ PubStamp \/ PubMark

Request == \/ \E r \in Runs : RunQuery(r) \/ CancelRead(r)
           \/ CancelDrop \/ CancelDropFails \/ CancelWrite \/ Purge

Consume == ConsumerTake \/ ConsumerWrite

Next == \/ Publish \/ PubProduceFails \/ (\E r \in batch : PubTakeFails(r))
        \/ Request \/ Consume \/ Crash
        \/ \E m \in queue \cup working : WorkerTake(m) \/ WorkerFinish(m) \/ WorkerLost(m)
        \/ \E r \in Runs : Rest(r)

Spec == Init /\ [][Next]_vars

(* The publisher runs on a ticker, results are consumed, time passes.      *)
(* Nothing is assumed of the workers.                                      *)
Fairness == /\ WF_vars(Publish) /\ WF_vars(Consume)
            /\ \A r \in Runs : WF_vars(Rest(r))

FairSpec == Spec /\ Fairness

-----------------------------------------------------------------------------
(* Properties. *)

(* A run is sent once, and once more at most for each failure: though the  *)
(* row says QUEUED only after the message is out, no other round can fetch *)
(* it in between.                                                          *)
SentOnce == \A r \in Runs : stored[r] <= 1 + faults

(* Nobody who writes without looking again refers to the run. *)
Unreferenced(r) ==
    /\ cur # r /\ r \notin batch
    /\ \A m \in queue \cup working : m[1] # r
    /\ \A i \in DOMAIN results : results[i].run # r
    /\ hand = Nil \/ hand.run # r
    /\ view = Nil \/ view.run # r

(* How a run ended stays so, and it is not run again, unless it was in the *)
(* publisher's batch, under way or being canceled at that moment: then     *)
(* QUEUED may follow SUCCEEDED, and any result CANCELED.                   *)
EndKept ==
    [][\A r \in Runs : status[r] \in Ended /\ Unreferenced(r) =>
          status'[r] \in {status[r], "DELETED"} /\ Unreferenced(r)']_vars

(* Each run comes to its end, whatever the workers do, unless there is one *)
(* with a query that does not parse: such a run stays CREATED for ever,    *)
(* and can end every round before the others are reached.                  *)
OnlyUnparsableBlocks ==
    \A r \in Runs :
        \/ <>[](status[r] \in Ended \cup {"NONE", "DELETED"})
        \/ <>[](\E p \in Runs : "unparsable" \in Fate[p] /\ status[p] = "CREATED")
=============================================================================
