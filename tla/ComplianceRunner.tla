--------------------------- MODULE ComplianceRunner --------------------------
(***************************************************************************)
(* The runners of one compliance job: the rows of compliance_runners, the  *)
(* two publishers that push them to the NATS job queue, the workers that   *)
(* execute them, the consumer of their results and a cancel request.  Each *)
(* action is what the code does between two points where another goroutine,*)
(* process or request can get in: one statement to the database or one     *)
(* call to the queue.                                                      *)
(***************************************************************************)
EXTENDS Naturals, Sequences, FiniteSets

CONSTANTS Runners,     \* rows of one job, numbered in the order of created_at
          Manual,      \* the rows whose trigger_type is manual
          Orphans,     \* rows whose query ListQueries does not return, or whose
                       \* callers cannot be parsed
          Detached,    \* rows whose connection ListSources does not return
          Workers,     \* worker processes
          MaxRetries,  \* 3 in RetryFailedRunners
          Rounds,      \* 10 in runPublisher
          FetchLimit,  \* 1000 in FetchCreatedRunners
          MaxFaults,   \* bound on lost writes, failed calls and crashes
          MaxCancels,  \* bound on cancel requests
          Nil          \* no message, no result

ASSUME RunnersAssumption == Runners \subseteq Nat /\ IsFiniteSet(Runners)
ASSUME SubsetAssumption == /\ Manual \subseteq Runners
                           /\ Orphans \subseteq Runners
                           /\ Detached \subseteq Runners
ASSUME BoundAssumption == /\ MaxRetries \in Nat
                          /\ Rounds \in Nat \ {0}
                          /\ FetchLimit \in Nat \ {0}
                          /\ MaxFaults \in Nat
                          /\ MaxCancels \in Nat

VARIABLES
    status, retry,   \* columns of a row
    seq,             \* seq[r]: nats_sequence_number, as the message it numbers
    old,             \* rows created more than 12 hours ago
    quiet,           \* rows not updated for the time their status is tested for
    pc, round, batch, ticket,   \* the locals of runPublisher, one for each publisher
    queue,           \* messages of the job queue not yet delivered
    wk,              \* wk[w]: the message worker w is processing
    results,         \* the result queue
    hand,            \* the result the consumer has acknowledged and not written
    view, cancels,   \* the rows a cancel request has read and not handled
    faults,          \* lost writes, failed calls and crashes so far
    launches,        \* history: how often an attempt of a row was stored in the queue
    succeeded        \* history: rows whose success was once written

rowVars  == <<status, retry, seq, old, quiet>>
pubVars  == <<pc, round, batch, ticket>>
workVars == <<queue, wk, results, hand>>
canVars  == <<view, cancels>>
histVars == <<launches, succeeded>>
vars == <<rowVars, pubVars, workVars, canVars, faults, histVars>>

Publishers == {"scheduled", "manual"}
Attempts   == 0..MaxRetries
Copies     == 0..(MaxFaults + 1)

Message  == [id : Runners, attempt : Attempts, copy : Copies]
Item     == [id : Runners, attempt : Attempts]
Result   == [id : Runners, attempt : Attempts,
             status : {"IN_PROGRESS", "SUCCEEDED", "FAILED"}]
ViewItem == [id : Runners, status : {"CREATED", "QUEUED", "DROPPED"},
             seq : Message \cup {Nil}]

Life == INSTANCE RunnerLifecycle

RunnerStatus == Life!RunnerStatus \ {"NONE"}

PublisherPc == {"idle", "expire", "fetch", "publish",
                "produce", "stamp", "mark", "reject", "retry"}

TypeOK ==
    /\ status \in [Runners -> RunnerStatus]
    /\ retry \in [Runners -> Attempts]
    /\ seq \in [Runners -> Message \cup {Nil}]
    /\ old \subseteq Runners /\ quiet \subseteq Runners
    /\ pc \in [Publishers -> PublisherPc]
    /\ round \in [Publishers -> 0..Rounds]
    /\ batch \in [Publishers -> SUBSET Item]
    /\ ticket \in [Publishers -> Message \cup {Nil}]
    /\ queue \subseteq Message
    /\ wk \in [Workers -> Message \cup {Nil}]
    /\ results \in Seq(Result)
    /\ hand \in Result \cup {Nil}
    /\ view \subseteq ViewItem
    /\ cancels \in 0..MaxCancels
    /\ faults \in 0..MaxFaults
    /\ launches \in [Runners -> [Attempts -> Nat]]
    /\ succeeded \subseteq Runners

-----------------------------------------------------------------------------
(* A job's runners have just been created by enqueueRunnersCycle. *)

Init ==
    /\ status = [r \in Runners |-> "CREATED"]
    /\ retry = [r \in Runners |-> 0]
    /\ seq = [r \in Runners |-> Nil]
    /\ old = {} /\ quiet = {}
    /\ pc = [p \in Publishers |-> "idle"]
    /\ round = [p \in Publishers |-> 0]
    /\ batch = [p \in Publishers |-> {}]
    /\ ticket = [p \in Publishers |-> Nil]
    /\ queue = {}
    /\ wk = [w \in Workers |-> Nil]
    /\ results = <<>>
    /\ hand = Nil
    /\ view = {} /\ cancels = 0
    /\ faults = 0
    /\ launches = [r \in Runners |-> [a \in Attempts |-> 0]]
    /\ succeeded = {}

(* UPDATE ... SET status = st, updated_at = NOW() WHERE id IN S: no        *)
(* condition on the old status, and nothing happens to a deleted row.      *)
Write(S, st) ==
    /\ status' = [r \in Runners |->
                    IF r \in S /\ status[r] # "DELETED" THEN st ELSE status[r]]
    /\ quiet' = quiet \ S
    /\ succeeded' = IF st = "SUCCEEDED"
                    THEN succeeded \cup {r \in S : status[r] # "DELETED"}
                    ELSE succeeded

Fault == faults < MaxFaults /\ faults' = faults + 1

Goto(p, l) == pc' = [pc EXCEPT ![p] = l]

-----------------------------------------------------------------------------
(* runPublisher(manuals), one goroutine for each trigger type. *)

Trigger(r) == IF r \in Manual THEN "manual" ELSE "scheduled"

(* Mutant: every row older than 12 hours, whatever its status *)
PubExpireEveryOld(p) ==
    /\ pc[p] = "idle"
    /\ Write({r \in old : status[r] # "CANCELED"}, "TIMEOUT")
    /\ Goto(p, "expire")
    /\ UNCHANGED <<retry, seq, old, round, batch, ticket, workVars, canVars, faults, launches>>

(* Mutant: QUEUED is forgotten *)
PubExpireCreatedOnly(p) ==
    /\ pc[p] = "idle"
    /\ Write({r \in old : status[r] = "CREATED"}, "TIMEOUT")
    /\ Goto(p, "expire")
    /\ UNCHANGED <<retry, seq, old, round, batch, ticket, workVars, canVars, faults, launches>>

(* The tick, with ListSources and ListQueries answered, or the next round: *)
(* UpdateTimeoutQueuedRunnerJobs                                           *)
PubExpireQueued(p) ==
    /\ pc[p] = "idle"
    /\ Write({r \in old : status[r] \in {"CREATED", "QUEUED"}}, "TIMEOUT")
    /\ Goto(p, "expire")
    /\ UNCHANGED <<retry, seq, old, round, batch, ticket, workVars, canVars, faults, launches>>

(* UpdateTimedOutInProgressRunners *)
PubExpireRunning(p) ==
    /\ pc[p] = "expire"
    /\ Write({r \in quiet : status[r] = "IN_PROGRESS"}, "TIMEOUT")
    /\ Goto(p, "fetch")
    /\ UNCHANGED <<retry, seq, old, round, batch, ticket, workVars, canVars, faults, launches>>

(* Mutants: no condition on the trigger type; rows that are QUEUED; rows   *)
(* that are CANCELED                                                       *)
FetchedOfBothKinds(p) ==
    {[id |-> r, attempt |-> retry[r]] : r \in {q \in Runners : status[q] = "CREATED"}}

FetchedQueuedToo(p) ==
    {[id |-> r, attempt |-> retry[r]] :
        r \in {q \in Runners : status[q] \in {"CREATED", "QUEUED"} /\ Trigger(q) = p}}

FetchedCanceledToo(p) ==
    {[id |-> r, attempt |-> retry[r]] :
        r \in {q \in Runners : status[q] \in {"CREATED", "CANCELED"} /\ Trigger(q) = p}}

(* FetchCreatedRunners: the oldest FetchLimit rows of the publisher's      *)
(* trigger type, as they are now.                                          *)
Fetched(p) ==
    LET created == {r \in Runners : status[r] = "CREATED" /\ Trigger(r) = p}
    IN  {[id |-> r, attempt |-> retry[r]] :
            r \in {q \in created : Cardinality({o \in created : o < q}) < FetchLimit}}

PubFetch(p) ==
    /\ pc[p] = "fetch"
    /\ batch' = [batch EXCEPT ![p] = Fetched(p)]
    /\ Goto(p, IF Fetched(p) = {} THEN "retry" ELSE "publish")
    /\ UNCHANGED <<rowVars, round, ticket, workVars, canVars, faults, histVars>>

Current(p) == CHOOSE x \in batch[p] : \A y \in batch[p] : x.id <= y.id

(* The next row of the batch, the next of the ten rounds, or the end. *)
Advance(p) ==
    LET rest == batch[p] \ {Current(p)}
        last == round[p] + 1 >= Rounds
    IN  /\ batch' = [batch EXCEPT ![p] = rest]
        /\ round' = IF rest = {} THEN [round EXCEPT ![p] = @ + 1] ELSE round
        /\ ticket' = [ticket EXCEPT ![p] = Nil]
        /\ Goto(p, CASE rest # {}           -> "publish"
                     [] rest = {} /\ last   -> "retry"
                     [] rest = {} /\ ~last  -> "idle")

(* "query not found", "failed to get callers": the row stays CREATED *)
PubSkip(p) ==
    /\ pc[p] = "publish"
    /\ Current(p).id \in Orphans
    /\ Advance(p)
    /\ UNCHANGED <<rowVars, workVars, canVars, faults, histVars>>

(* "connection does not exist": the row is failed, and published all the same *)
PubDetached(p) ==
    /\ pc[p] = "publish"
    /\ Current(p).id \in Detached \ Orphans
    /\ Write({Current(p).id}, "FAILED")
    /\ Goto(p, "produce")
    /\ UNCHANGED <<retry, seq, old, round, batch, ticket, workVars, canVars, faults, launches>>

Publishing(p) == \/ pc[p] = "produce"
                 \/ pc[p] = "publish" /\ Current(p).id \notin Orphans \cup Detached

(* JetStream keeps one message for each message id ("job-<id>-<retry>")    *)
(* for as long as its window of duplicates lasts; after that the same id   *)
(* is stored again.                                                        *)
Store(x, c) ==
    LET n == launches[x.id][x.attempt]
    IN  \/ /\ n > 0 /\ c = n - 1
           /\ UNCHANGED <<queue, launches>>
        \/ /\ c = n /\ c \in Copies
           /\ queue' = queue \cup {[id |-> x.id, attempt |-> x.attempt, copy |-> c]}
           /\ launches' = [launches EXCEPT ![x.id][x.attempt] = n + 1]

PubProduce(p) ==
    /\ Publishing(p)
    /\ \E c \in Copies :
          /\ Store(Current(p), c)
          /\ ticket' = [ticket EXCEPT ![p] =
                [id |-> Current(p).id, attempt |-> Current(p).attempt, copy |-> c]]
    /\ Goto(p, "stamp")
    /\ UNCHANGED <<rowVars, round, batch, wk, results, hand, canVars, faults, succeeded>>

(* The call fails; the message may have been stored nevertheless. *)
PubProduceFails(p) ==
    /\ Publishing(p)
    /\ Fault
    /\ \/ UNCHANGED <<queue, launches>>
       \/ \E c \in Copies : Store(Current(p), c)
    /\ Goto(p, "reject")
    /\ UNCHANGED <<rowVars, round, batch, ticket, wk, results, hand, canVars, succeeded>>

PubReject(p) ==
    /\ pc[p] = "reject"
    /\ Write({Current(p).id}, "FAILED")
    /\ Advance(p)
    /\ UNCHANGED <<retry, seq, old, workVars, canVars, faults, launches>>

(* "no response from stream", and setting the stream up fails: the pass is over *)
PubAbort(p) ==
    /\ Publishing(p)
    /\ Fault
    /\ Goto(p, "idle")
    /\ batch' = [batch EXCEPT ![p] = {}]
    /\ round' = [round EXCEPT ![p] = 0]
    /\ UNCHANGED <<rowVars, ticket, workVars, canVars, histVars>>

(* UpdateRunnerJobNatsSeqNum *)
PubStamp(p) ==
    /\ pc[p] = "stamp"
    /\ LET r == Current(p).id
       IN  seq' = IF status[r] = "DELETED" THEN seq ELSE [seq EXCEPT ![r] = ticket[p]]
    /\ quiet' = quiet \ {Current(p).id}
    /\ Goto(p, "mark")
    /\ UNCHANGED <<status, retry, old, round, batch, ticket, workVars, canVars, faults, histVars>>

(* UpdateRunnerJob(QUEUED), after the message is out *)
PubMark(p) ==
    /\ pc[p] = "mark"
    /\ Write({Current(p).id}, "QUEUED")
    /\ Advance(p)
    /\ UNCHANGED <<retry, seq, old, workVars, canVars, faults, launches>>

(* A statement fails and the pass goes on as if it had not: the errors are *)
(* logged or dropped ("_ = s.db...").  A fetch that fails costs a round,   *)
(* and a retry that fails ends the pass.                                   *)
PubStatementFails(p) ==
    /\ Fault
    /\ \/ /\ \/ pc[p] = "idle"   /\ Goto(p, "expire")
             \/ pc[p] = "expire" /\ Goto(p, "fetch")
             \/ pc[p] = "stamp"  /\ Goto(p, "mark")
             \/ /\ pc[p] = "publish" /\ Current(p).id \in Detached \ Orphans
                /\ Goto(p, "produce")
          /\ UNCHANGED <<round, batch, ticket>>
       \/ /\ pc[p] = "fetch"
          /\ round' = [round EXCEPT ![p] = @ + 1]
          /\ Goto(p, IF round[p] + 1 >= Rounds THEN "retry" ELSE "idle")
          /\ UNCHANGED <<batch, ticket>>
       \/ /\ pc[p] = "retry"
          /\ round' = [round EXCEPT ![p] = 0]
          /\ Goto(p, "idle")
          /\ UNCHANGED <<batch, ticket>>
       \/ pc[p] \in {"mark", "reject"} /\ Advance(p)
    /\ UNCHANGED <<rowVars, workVars, canVars, histVars>>

(* Mutants: <= for <; rows that are quiet IN_PROGRESS are retried too *)
RetryableOnceMore == {r \in quiet : status[r] = "FAILED" /\ retry[r] <= MaxRetries}

RetryableRunning ==
    {r \in quiet : status[r] \in {"FAILED", "IN_PROGRESS"} /\ retry[r] < MaxRetries}

(* RetryFailedRunners *)
Retryable == {r \in quiet : status[r] = "FAILED" /\ retry[r] < MaxRetries}

(* Mutant: retry_count is not incremented *)
PubRetryUncounted(p) ==
    /\ pc[p] = "retry"
    /\ Write(Retryable, "CREATED")
    /\ Goto(p, "idle")
    /\ round' = [round EXCEPT ![p] = 0]
    /\ UNCHANGED <<retry, seq, old, batch, ticket, workVars, canVars, faults, launches>>

PubRetry(p) ==
    /\ pc[p] = "retry"
    /\ retry' = [r \in Runners |-> IF r \in Retryable THEN retry[r] + 1 ELSE retry[r]]
    /\ Write(Retryable, "CREATED")
    /\ Goto(p, "idle")
    /\ round' = [round EXCEPT ![p] = 0]
    /\ UNCHANGED <<seq, old, batch, ticket, workVars, canVars, faults, launches>>

-----------------------------------------------------------------------------
(* Worker.Run and ProcessMessage.  MaxDeliver is 1: a message that was     *)
(* delivered is not delivered again, whatever happens to the worker.       *)

Reported(m, st) == [id |-> m.id, attempt |-> m.attempt, status |-> st]

(* The message id of an answer is made of row, attempt and kind of answer: *)
(* the answer of a second copy of an attempt may be dropped as a duplicate.*)
Answer(m, st) == \/ results' = Append(results, Reported(m, st))
                 \/ m.copy > 0 /\ UNCHANGED results

WorkerTake(w) ==
    /\ wk[w] = Nil
    /\ \E m \in queue :
          /\ queue' = queue \ {m}
          /\ wk' = [wk EXCEPT ![w] = m]
          /\ Answer(m, "IN_PROGRESS")
    /\ UNCHANGED <<rowVars, pubVars, hand, canVars, faults, histVars>>

WorkerFinish(w) ==
    /\ wk[w] # Nil
    /\ \E st \in {"SUCCEEDED", "FAILED"} : Answer(wk[w], st)
    /\ wk' = [wk EXCEPT ![w] = Nil]
    /\ UNCHANGED <<rowVars, pubVars, queue, hand, canVars, faults, histVars>>

(* The worker dies, or publishing the result fails and is only logged. *)
WorkerLost(w) ==
    /\ wk[w] # Nil
    /\ Fault
    /\ wk' = [wk EXCEPT ![w] = Nil]
    /\ UNCHANGED <<rowVars, pubVars, queue, results, hand, canVars, histVars>>

-----------------------------------------------------------------------------
(* RunComplianceReportJobResultsConsumer: the message is acknowledged      *)
(* before the row is written, and the row is written unconditionally.      *)

ConsumerTake ==
    /\ hand = Nil /\ results # <<>>
    /\ hand' = Head(results)
    /\ results' = Tail(results)
    /\ UNCHANGED <<rowVars, pubVars, queue, wk, canVars, faults, histVars>>

ConsumerWrite ==
    /\ hand # Nil
    /\ Write({hand.id}, hand.status)
    /\ hand' = Nil
    /\ UNCHANGED <<retry, seq, old, pubVars, queue, wk, results, canVars, faults, launches>>

ConsumerFails ==
    /\ hand # Nil
    /\ Fault
    /\ hand' = Nil
    /\ UNCHANGED <<rowVars, pubVars, queue, wk, results, canVars, histVars>>

-----------------------------------------------------------------------------
(* The loop over the runners of CancelJobById and CancelJob. *)

CancelRead ==
    /\ view = {} /\ cancels < MaxCancels
    /\ cancels' = cancels + 1
    /\ view' = {[id |-> r, status |-> status[r], seq |-> seq[r]] :
                  r \in {q \in Runners : status[q] \in {"CREATED", "QUEUED"}}}
    /\ UNCHANGED <<rowVars, pubVars, workVars, faults, histVars>>

Dropped == {x \in view : x.status = "DROPPED"}

(* DeleteMessage of a queued row: it succeeds while the stream holds the   *)
(* message, which is until a worker acknowledges it.                       *)
CancelDrop(x) ==
    /\ Dropped = {} /\ x.status = "QUEUED"
    /\ x.seq \in queue \cup {wk[w] : w \in Workers}
    /\ x.seq # Nil
    /\ queue' = queue \ {x.seq}
    /\ view' = (view \ {x}) \cup {[x EXCEPT !.status = "DROPPED"]}
    /\ UNCHANGED <<rowVars, pubVars, wk, results, hand, cancels, faults, histVars>>

(* ... otherwise it fails, and the loop over the runners is left. *)
CancelDropFails(x) ==
    /\ Dropped = {} /\ x.status = "QUEUED"
    /\ x.seq \notin queue \cup {wk[w] : w \in Workers}
    /\ view' = {}
    /\ UNCHANGED <<rowVars, pubVars, workVars, cancels, faults, histVars>>

CancelWrite(x) ==
    /\ x.status = "DROPPED" \/ (Dropped = {} /\ x.status = "CREATED")
    /\ Write({x.id}, "CANCELED")
    /\ view' = view \ {x}
    /\ UNCHANGED <<retry, seq, old, pubVars, workVars, cancels, faults, launches>>

-----------------------------------------------------------------------------
(* The rest of the system, and time. *)

(* DeleteOldRunnerJob, when the benchmark's next job is created *)
Purge ==
    /\ \E r \in Runners : status[r] # "DELETED"
    /\ Write(Runners, "DELETED")
    /\ UNCHANGED <<retry, seq, old, pubVars, workVars, canVars, faults, launches>>

(* The scheduler process is restarted: its goroutines start over. *)
Crash ==
    /\ Fault
    /\ pc' = [p \in Publishers |-> "idle"]
    /\ batch' = [p \in Publishers |-> {}]
    /\ round' = [p \in Publishers |-> 0]
    /\ ticket' = [p \in Publishers |-> Nil]
    /\ hand' = Nil /\ view' = {}
    /\ UNCHANGED <<rowVars, queue, wk, results, cancels, histVars>>

(* 12 hours after created_at *)
Age(r) ==
    /\ r \notin old /\ status[r] \in {"CREATED", "QUEUED"}
    /\ old' = old \cup {r}
    /\ UNCHANGED <<status, retry, seq, quiet, pubVars, workVars, canVars, faults, histVars>>

(* 5 minutes (FAILED) or an hour (IN_PROGRESS) after updated_at *)
Rest(r) ==
    /\ r \notin quiet /\ status[r] \in {"FAILED", "IN_PROGRESS"}
    /\ quiet' = quiet \cup {r}
    /\ UNCHANGED <<status, retry, seq, old, pubVars, workVars, canVars, faults, histVars>>

Publish(p) == \/ PubExpireQueued(p) \/ PubExpireRunning(p) \/ PubFetch(p)
              \/ PubSkip(p) \/ PubDetached(p) \/ PubProduce(p) \/ PubReject(p)
              \/ PubStamp(p) \/ PubMark(p) \/ PubRetry(p)

PubFaults(p) == PubProduceFails(p) \/ PubAbort(p) \/ PubStatementFails(p)

Work(w) == WorkerTake(w) \/ WorkerFinish(w)

Consume == ConsumerTake \/ ConsumerWrite

CancelStep == \E x \in view : CancelDrop(x) \/ CancelDropFails(x) \/ CancelWrite(x)

Next == \/ \E p \in Publishers : Publish(p) \/ PubFaults(p)
        \/ \E w \in Workers : Work(w) \/ WorkerLost(w)
        \/ Consume \/ ConsumerFails
        \/ CancelRead \/ CancelStep
        \/ Purge \/ Crash
        \/ \E r \in Runners : Age(r) \/ Rest(r)

Spec == Init /\ [][Next]_vars

(* The scheduler's goroutines run on tickers or block on their queue, and  *)
(* time passes.  Nothing is assumed of the workers.                        *)
Fairness == /\ \A p \in Publishers : WF_vars(Publish(p))
            /\ WF_vars(Consume)
            /\ WF_vars(CancelStep)
            /\ \A r \in Runners : WF_vars(Age(r)) /\ WF_vars(Rest(r))

FairSpec == Spec /\ Fairness

-----------------------------------------------------------------------------
(* Properties. *)

Working(r) == {w \in Workers : wk[w] # Nil /\ wk[w].id = r}
Pending(r) == {m \in queue : m.id = r}

(* At most one attempt of a runner is in the queue or with a worker: a     *)
(* retry is started only after the attempt before it has reported, and a   *)
(* row that timed out, whose worker may still be running, is not retried.  *)
(* It needs that no call failed and that the row was not failed by         *)
(* "connection does not exist" and then published all the same.            *)
SingleFlight ==
    \A r \in Runners \ Detached :
        faults = 0 => Cardinality(Pending(r)) + Cardinality(Working(r)) <= 1

(* An attempt is stored in the queue once, and once more at most for each  *)
(* lost write, failed call or restart: the message id is made of the row   *)
(* and its retry_count, and each row belongs to one of the publishers.     *)
LaunchBound ==
    \A r \in Runners, a \in Attempts : launches[r][a] <= 1 + faults

(* The publisher has the attempt behind it, and its row not yet.           *)
Sent(x) == /\ pc[Trigger(x.id)] \in {"stamp", "mark", "reject"}
           /\ Current(Trigger(x.id)) = x

(* An attempt the publisher may still send: it has fetched it, or it will, *)
(* because the row is CREATED with this retry_count.                       *)
Due(x) == /\ ~Sent(x)
          /\ \/ x \in batch[Trigger(x.id)]
             \/ status[x.id] = "CREATED" /\ retry[x.id] = x.attempt

(* Why LaunchBound holds.  An attempt that is due has used up none of the  *)
(* copies it is allowed, a later attempt has not been sent at all, and a   *)
(* row is in the batch of the one publisher it belongs to, once.           *)
BatchInv ==
    \A p \in Publishers :
        /\ pc[p] \in {"idle", "expire", "fetch", "retry"} => batch[p] = {}
        /\ pc[p] \in {"publish", "produce", "stamp", "mark", "reject"} => batch[p] # {}
        /\ pc[p] # "retry" => round[p] < Rounds
        /\ \A x \in batch[p] : Trigger(x.id) = p /\ x.attempt <= retry[x.id]
        /\ \A x, y \in batch[p] : x.id = y.id => x = y

LaunchInv ==
    /\ BatchInv
    /\ LaunchBound
    /\ \A x \in Item :
          /\ Due(x) => launches[x.id][x.attempt] <= faults
          /\ retry[x.id] < x.attempt => launches[x.id][x.attempt] = 0

(* A runner that succeeded is not run again, although its row may be       *)
(* overwritten by the publisher's late QUEUED.                             *)
NoLaunchAfterSuccess ==
    [][\A r \in succeeded \ Detached : faults = 0 => launches'[r] = launches[r]]_vars

(* What may overwrite SUCCEEDED when nothing fails: the publisher that     *)
(* writes QUEUED after the worker has already answered, a cancel request   *)
(* that read the row before, and the deletion of the row.  The timeouts    *)
(* and the retry never do.                                                 *)
SuccessOverwrittenOnlyByRace ==
    [][\A r \in Runners \ Detached :
          (status[r] = "SUCCEEDED" /\ status'[r] # "SUCCEEDED" /\ faults' = 0) =>
              \/ status'[r] = "DELETED"
              \/ status'[r] = "QUEUED"   /\ \E p \in Publishers : \E x \in batch[p] : x.id = r
              \/ status'[r] = "CANCELED" /\ \E x \in view : x.id = r]_vars

(* Nothing that was started before still refers to the row. *)
Unreferenced(r) ==
    /\ \A p \in Publishers : \A x \in batch[p] : x.id # r
    /\ Pending(r) = {} /\ Working(r) = {}
    /\ \A i \in 1..Len(results) : results[i].id # r
    /\ hand = Nil \/ hand.id # r

(* A canceled runner stays canceled, and is not taken up again, unless a   *)
(* publisher had fetched it, or one of its messages or results was under   *)
(* way, when it was canceled.                                              *)
CancelSticks ==
    [][\A r \in Runners :
          status[r] = "CANCELED" /\ Unreferenced(r) =>
              status'[r] \in {"CANCELED", "DELETED"} /\ Unreferenced(r)']_vars

(* Each row comes to rest in the end, even when its QUEUED overwrote the   *)
(* result, its worker died or its result was lost: the timeouts see to it. *)
RunnersSettle ==
    \A r \in Runners : <>[]Life!Settled(status[r], retry[r])

(* The rows take no step RunnerLifecycle does not allow. *)
ImplementsLifecycle == Life!LifecycleSpec
==============================================================================
