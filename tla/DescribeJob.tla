----------------------------- MODULE DescribeJob -----------------------------
(***************************************************************************)
(* The describe jobs of one connection and resource type: the rows of      *)
(* describe_connection_jobs, the scheduler and the requests that create    *)
(* them, the two cycles that send them to the describers, the describers   *)
(* as the gRPC server sees them, the consumer of their results, the        *)
(* deleter of old resources, the timeouts and the cancel requests.  Each   *)
(* action is one statement to the database or one call.                    *)
(***************************************************************************)
EXTENDS Naturals

CONSTANTS NJobs,        \* bound on the jobs created
          MaxTries,     \* 5 in GetFailedDescribeConnectionJobs
          Pages,        \* pages of resource ids, one deletion task for each
          Azure,        \* the connection's connector is Azure, not AWS
          MaxRequests,  \* bound on requests that create a job
          MaxCancels,   \* bound on cancel requests
          Outcomes,     \* how an attempt ends; FAILED and DENIED differ in the error code
          MaxFaults,    \* bound on failed statements, failed calls, lost messages
          Nil           \* none

ASSUME BoundAssumption == /\ NJobs \in Nat /\ MaxTries \in Nat
                          /\ MaxRequests \in Nat /\ MaxCancels \in Nat
                          /\ MaxFaults \in Nat
ASSUME OutcomeAssumption == Outcomes \subseteq {"SUCCEEDED", "FAILED", "DENIED"}
ASSUME AzureAssumption == Azure \in BOOLEAN
ASSUME NilAssumption == Nil \notin Nat

Jobs == 1..NJobs

(* Who creates a job: the ticker, a request, or a request for a full cost  *)
(* discovery, whose jobs are sent with the ticker's.                       *)
Kinds  == {"scheduled", "manual", "cost"}
Groups == {"scheduled", "manual"}

JobStatus == {"CREATED", "QUEUED", "IN_PROGRESS", "OLD_RESOURCE_DELETION", "TIMEOUT",
              "FAILED", "SUCCEEDED", "REMOVING_RESOURCES", "CANCELED"}

(* The statuses in which describe() refuses to create another job. *)
InProgress == {"CREATED", "QUEUED", "IN_PROGRESS", "OLD_RESOURCE_DELETION"}
Ended      == {"TIMEOUT", "FAILED", "SUCCEEDED", "CANCELED"}

(* How long ago updated_at is, as the number of limits it has passed:      *)
(* 5 minutes, 20 minutes, 30 minutes, an hour, the discovery interval.     *)
FiveMinutes == 1
TwentyMinutes == 2
ThirtyMinutes == 3
Hour == 4
Interval == 5

VARIABLES
    status, kind, tries,  \* columns of a row: status, trigger_type, retry_count
    seq,                  \* nats_sequence_number, as the copy it numbers
    denied,               \* jobs with an error_code that is not retried
    since, last,          \* updated_at: its age, and the row where it is the latest
    old,                  \* jobs created longer ago than the interval (or 2 days)
    tpc, tretry,          \* locals of scheduleDescribeJob
    request, requests,    \* the kind of job a request is about to create
    call,                 \* call[j]: what the work pool does next for job j
    queue, running,       \* copies of the job's message in the queue, and at a describer
    results, hand,        \* answers in the result queue; the one being consumed
    tasks,                \* tasks[p]: the job in the deletion task of page p
    dlist, dcur,          \* locals of runDeleter
    cview, cancels,       \* the row a cancel request has read
    faults,
    stored, answers,      \* how many copies, and answers, a stream has accepted
    described,            \* history: jobs a describer succeeded at
    late                  \* history: ended jobs put to work again without a retry

rowVars  == <<status, kind, tries, seq, denied, since, last, old>>
makeVars == <<tpc, tretry, request, requests>>
workVars == <<call, queue, running, stored>>
ansVars  == <<results, hand, answers, described>>
delVars  == <<tasks, dlist, dcur>>
canVars  == <<cview, cancels>>
vars == <<rowVars, makeVars, workVars, ansVars, delVars, canVars, faults, late>>

Created == {j \in Jobs : status[j] # "NONE"}
Group(j) == IF kind[j] = "manual" THEN "manual" ELSE "scheduled"

(* What the rows promise to the rest of the scheduler *)
Life == INSTANCE DescribeLifecycle

Copies == 0..(MaxTries + MaxFaults)
Copy   == Jobs \X Copies
Answer == [job : Jobs, nth : Nat, outcome : Outcomes]

TypeOK ==
    /\ status \in [Jobs -> JobStatus \cup {"NONE"}]
    /\ kind \in [Jobs -> Kinds]
    /\ tries \in [Jobs -> Nat]
    /\ seq \in [Jobs -> Copies \cup {Nil}]
    /\ denied \subseteq Jobs /\ old \subseteq Jobs
    /\ since \in [Jobs -> 0..Interval]
    /\ last \in Jobs \cup {Nil}
    /\ tpc \in {"idle", "create", "list", "retry"} /\ tretry \subseteq Jobs
    /\ request \in Kinds \cup {Nil} /\ requests \in 0..MaxRequests
    /\ call \in [Jobs -> {"idle", "queue", "produce", "stamp", "fail"}]
    /\ queue \subseteq Copy /\ running \subseteq Copy
    /\ results \subseteq Answer
    /\ hand \in [answer : Answer,
                 status : {"SUCCEEDED", "FAILED", "OLD_RESOURCE_DELETION"}] \cup {Nil}
    /\ tasks \in [Pages -> Jobs \cup {Nil}]
    /\ dlist \subseteq Pages \X Jobs
    /\ dcur \in [page : Pages, job : Jobs, step : {"erase", "write", "task"}] \cup {Nil}
    /\ cview \in [job : Jobs, step : {"drop", "write"}, seq : Copies \cup {Nil}] \cup {Nil}
    /\ cancels \in 0..MaxCancels /\ faults \in 0..MaxFaults
    /\ stored \in [Jobs -> Nat] /\ answers \in [Jobs -> Nat]
    /\ described \subseteq Jobs /\ late \subseteq Jobs

Init ==
    /\ status = [j \in Jobs |-> "NONE"]
    /\ kind = [j \in Jobs |-> "scheduled"]
    /\ tries = [j \in Jobs |-> 0] /\ seq = [j \in Jobs |-> Nil]
    /\ denied = {} /\ old = {}
    /\ since = [j \in Jobs |-> 0] /\ last = Nil
    /\ tpc = "idle" /\ tretry = {} /\ request = Nil /\ requests = 0
    /\ call = [j \in Jobs |-> "idle"] /\ queue = {} /\ running = {}
    /\ results = {} /\ hand = Nil
    /\ tasks = [p \in Pages |-> Nil] /\ dlist = {} /\ dcur = Nil
    /\ cview = Nil /\ cancels = 0 /\ faults = 0
    /\ stored = [j \in Jobs |-> 0] /\ answers = [j \in Jobs |-> 0]
    /\ described = {} /\ late = {}

Fault == faults < MaxFaults /\ faults' = faults + 1

(* An UPDATE in plain SQL: no condition on the status, and updated_at is   *)
(* left as it is.                                                          *)
Put(j, st) == /\ status' = [status EXCEPT ![j] = st]
              /\ UNCHANGED <<since, last>>

(* UpdateDescribeConnectionJobStatus, which writes error_code too *)
PutStatus(j, st, code) == /\ Put(j, st)
                          /\ denied' = IF code = "DENIED" THEN denied \cup {j} ELSE denied \ {j}

(* An update through the mapper, which sets updated_at: S is not empty. *)
Touch(S, st) == /\ status' = [j \in Jobs |-> IF j \in S THEN st ELSE status[j]]
                /\ since' = [j \in Jobs |-> IF j \in S THEN 0 ELSE since[j]]
                /\ last' \in S

-----------------------------------------------------------------------------
(* describe(): the last job is looked at, and another created, with calls  *)
(* to the onboard service between.  scheduleDescribeJob, the ticker's      *)
(* goroutine, goes on to retryFailedJobs.                                  *)

MayCreate(scheduled) ==
    last # Nil => /\ scheduled => since[last] = Interval
                  /\ status[last] \notin InProgress

(* The ticker's goroutine goes on without a job when there is one, when    *)
(* the connection is not to be described, and when a call fails.           *)
TickCheck ==
    /\ tpc = "idle"
    /\ \/ MayCreate(TRUE) /\ Created # Jobs /\ tpc' = "create"
       \/ tpc' = "list"
    /\ UNCHANGED <<rowVars, tretry, request, requests, workVars, ansVars, delVars, canVars, faults>>

RequestCheck ==
    /\ request = Nil /\ requests < MaxRequests
    /\ MayCreate(FALSE) /\ Created # Jobs
    /\ request' \in {"manual", "cost"}
    /\ requests' = requests + 1
    /\ UNCHANGED <<rowVars, tpc, tretry, workVars, ansVars, delVars, canVars, faults>>

CreateJob(k, st) ==
    \E j \in Jobs \ Created :
        /\ 1..(j - 1) \subseteq Created
        /\ status' = [status EXCEPT ![j] = st]
        /\ kind' = [kind EXCEPT ![j] = k]
        /\ last' = j
        /\ UNCHANGED <<tries, seq, denied, since, old>>

(* A resource type that another connection of the tenant or organization   *)
(* describes has its resources removed.                                    *)
TickCreate ==
    /\ tpc = "create"
    /\ \/ \E st \in {"CREATED", "REMOVING_RESOURCES"} : CreateJob("scheduled", st)
       \/ Created = Jobs /\ UNCHANGED rowVars
    /\ tpc' = "list"
    /\ UNCHANGED <<tretry, request, requests, workVars, ansVars, delVars, canVars, faults>>

RequestCreate ==
    /\ request # Nil
    /\ \/ CreateJob(request, "CREATED")
       \/ Created = Jobs /\ UNCHANGED rowVars
    /\ request' = Nil
    /\ UNCHANGED <<tpc, tretry, requests, workVars, ansVars, delVars, canVars, faults>>

(* Mutants: the age of the job is not looked at; <= for <; the jobs of     *)
(* requests are retried, too; a canceled job counts as failed              *)
RetryableAnyAge(j) ==
    /\ Group(j) = "scheduled" /\ status[j] \in {"FAILED", "TIMEOUT"}
    /\ since[j] >= FiveMinutes /\ j \notin denied /\ tries[j] < MaxTries

RetryableOnceMore(j) ==
    /\ Group(j) = "scheduled" /\ status[j] \in {"FAILED", "TIMEOUT"}
    /\ since[j] >= FiveMinutes /\ j \notin denied \cup old /\ tries[j] <= MaxTries

RetryableOfRequests(j) ==
    /\ status[j] \in {"FAILED", "TIMEOUT"}
    /\ since[j] >= FiveMinutes /\ j \notin denied \cup old /\ tries[j] < MaxTries

RetryableCanceled(j) ==
    /\ Group(j) = "scheduled" /\ status[j] \in Ended \ {"SUCCEEDED"}
    /\ since[j] >= FiveMinutes /\ j \notin denied \cup old /\ tries[j] < MaxTries

(* GetFailedDescribeConnectionJobs, with the test of retryFailedJobs that  *)
(* the job was created within its interval                                 *)
Retryable(j) ==
    /\ Group(j) = "scheduled" /\ status[j] \in {"FAILED", "TIMEOUT"}
    /\ since[j] >= FiveMinutes /\ j \notin denied \cup old /\ tries[j] < MaxTries

RetryList ==
    /\ tpc = "list"
    /\ tretry' = {j \in Jobs : Retryable(j)}
    /\ tpc' = IF tretry' = {} THEN "idle" ELSE "retry"
    /\ UNCHANGED <<rowVars, request, requests, workVars, ansVars, delVars, canVars, faults>>

(* RetryDescribeConnectionJob *)
RetryWrite(j) ==
    /\ tpc = "retry" /\ j \in tretry
    /\ Put(j, "CREATED")
    /\ tretry' = tretry \ {j}
    /\ tpc' = IF tretry' = {} THEN "idle" ELSE "retry"
    /\ UNCHANGED <<kind, tries, seq, denied, old, request, requests, workVars, ansVars, delVars, canVars, faults>>

(* Creating, listing or a retry fails, or the scheduler restarts. *)
TickFails ==
    /\ tpc # "idle" /\ Fault
    /\ tpc' = IF tpc = "create" THEN "list" ELSE "idle"
    /\ tretry' = {}
    /\ UNCHANGED <<rowVars, request, requests, workVars, ansVars, delVars, canVars>>

-----------------------------------------------------------------------------
(* RunDescribeResourceJobCycle, one goroutine for each group, and          *)
(* enqueueCloudNativeDescribeJob, which its work pool runs for all jobs of *)
(* the cycle at once and waits for.                                        *)

(* Some of the created jobs: a random choice, within the limits on jobs    *)
(* queued, run in ten minutes and running for one resource type, of        *)
(* connections that are enabled.                                           *)
CycleFetch(g) ==
    /\ \A j \in Jobs : Group(j) = g => call[j] = "idle"
    /\ \E S \in SUBSET {j \in Jobs : status[j] = "CREATED" /\ Group(j) = g} \ {{}} :
          call' = [j \in Jobs |-> IF j \in S THEN "queue" ELSE call[j]]
    /\ UNCHANGED <<rowVars, makeVars, queue, running, stored, ansVars, delVars, canVars, faults>>

Goto(j, l) == call' = [call EXCEPT ![j] = l]

(* QueueDescribeConnectionJob, before the job is sent; an error is logged. *)
CallQueue(j) ==
    /\ call[j] = "queue"
    /\ Put(j, "QUEUED")
    /\ tries' = [tries EXCEPT ![j] = @ + 1]
    /\ Goto(j, "produce")
    /\ UNCHANGED <<kind, seq, denied, old, makeVars, queue, running, stored, ansVars, delVars, canVars, faults>>

CallQueueFails(j) ==
    /\ call[j] = "queue" /\ Fault
    /\ Goto(j, "produce")
    /\ UNCHANGED <<rowVars, makeVars, queue, running, stored, ansVars, delVars, canVars>>

(* RetryCounter is 0 in every attempt, so that all of them have one        *)
(* message id: JetStream stores it again only when its window of           *)
(* duplicates is over.                                                     *)
Store(j) == \/ /\ stored[j] \in Copies
               /\ queue' = queue \cup {<<j, stored[j]>>}
               /\ stored' = [stored EXCEPT ![j] = @ + 1]
            \/ stored[j] > 0 /\ UNCHANGED <<queue, stored>>

CallProduce(j) ==
    /\ call[j] = "produce"
    /\ Store(j)
    /\ Goto(j, "stamp")
    /\ UNCHANGED <<rowVars, makeVars, running, ansVars, delVars, canVars, faults>>

(* The call fails, though the message may have been stored; or the streams *)
(* cannot be set up again, and nothing more is written.                    *)
CallProduceFails(j) ==
    /\ call[j] = "produce" /\ Fault
    /\ \/ UNCHANGED <<queue, stored>>
       \/ Store(j)
    /\ \/ Goto(j, "fail")
       \/ Goto(j, "idle")
    /\ UNCHANGED <<rowVars, makeVars, running, ansVars, delVars, canVars>>

CallFail(j) ==
    /\ call[j] = "fail"
    /\ PutStatus(j, "FAILED", "")
    /\ Goto(j, "idle")
    /\ UNCHANGED <<kind, tries, seq, old, makeVars, queue, running, stored, ansVars, delVars, canVars, faults>>

(* Mutant: the number of the next message *)
CallStampNext(j) ==
    /\ call[j] = "stamp"
    /\ seq' = [seq EXCEPT ![j] = stored[j]]
    /\ Goto(j, "idle")
    /\ UNCHANGED <<status, kind, tries, denied, since, last, old, makeVars, queue, running, stored,
                   ansVars, delVars, canVars, faults>>

(* UpdateDescribeConnectionJobNatsSeqNum: the number of the copy that was  *)
(* stored, or of the one that this is a duplicate of                       *)
CallStamp(j) ==
    /\ call[j] = "stamp"
    /\ seq' = [seq EXCEPT ![j] = stored[j] - 1]
    /\ Goto(j, "idle")
    /\ UNCHANGED <<status, kind, tries, denied, since, last, old, makeVars, queue, running, stored,
                   ansVars, delVars, canVars, faults>>

(* The write of the end of a call fails, or the scheduler restarts. *)
CallLost(j) ==
    /\ call[j] # "idle" /\ Fault
    /\ Goto(j, "idle")
    /\ UNCHANGED <<rowVars, makeVars, queue, running, stored, ansVars, delVars, canVars>>

-----------------------------------------------------------------------------
(* The describers, as far as SetInProgress and DeliverResult show them. *)

DescriberTake(m) ==
    /\ m \in queue
    /\ queue' = queue \ {m}
    /\ running' = running \cup {m}
    /\ UNCHANGED <<rowVars, makeVars, call, stored, ansVars, delVars, canVars, faults>>

(* "called too much": any number of times while the job is described *)
SetInProgress(m) ==
    /\ m \in running
    /\ status[m[1]] \in {"CREATED", "QUEUED"}
    /\ Touch({m[1]}, "IN_PROGRESS")
    /\ UNCHANGED <<kind, tries, seq, denied, old, makeVars, workVars, ansVars, delVars, canVars, faults>>

(* DeliverResult; the answers to all attempts have one message id, too *)
DeliverResult(m) ==
    /\ m \in running
    /\ running' = running \ {m}
    /\ LET j == m[1]
       IN  \E o \in Outcomes :
              /\ \/ /\ results' = results \cup {[job |-> j, nth |-> answers[j], outcome |-> o]}
                    /\ answers' = [answers EXCEPT ![j] = @ + 1]
                 \/ answers[j] > 0 /\ UNCHANGED <<results, answers>>
              /\ described' = IF o = "SUCCEEDED" THEN described \cup {j} ELSE described
    /\ UNCHANGED <<rowVars, makeVars, call, queue, stored, hand, delVars, canVars, faults>>

(* A describer dies with its job, or a message is deleted by the cancel    *)
(* request for a job of the other connector (see CancelDrop).              *)
MessageLost ==
    /\ Fault
    /\ \E m \in queue \cup running : queue' = queue \ {m} /\ running' = running \ {m}
    /\ UNCHANGED <<rowVars, makeVars, call, stored, ansVars, delVars, canVars>>

-----------------------------------------------------------------------------
(* RunDescribeJobResultsConsumer: a success with resources to delete has   *)
(* its deletion tasks ingested, then the status is written, then the       *)
(* answer acknowledged.  A task's id is made of its resources: a task of   *)
(* another job for the same page is replaced.                              *)

Cleanup(j, P) == tasks' = [p \in Pages |-> IF p \in P THEN j ELSE tasks[p]]

(* Mutant: every answer is taken for a success *)
ConsumerTakeAny(a) ==
    /\ hand = Nil /\ a \in results
    /\ \E P \in SUBSET Pages :
          /\ Cleanup(a.job, P)
          /\ hand' = [answer |-> a,
                      status |-> IF P = {} THEN "SUCCEEDED" ELSE "OLD_RESOURCE_DELETION"]
    /\ UNCHANGED <<rowVars, makeVars, workVars, results, answers, described, dlist, dcur, canVars, faults>>

ConsumerTake(a) ==
    /\ hand = Nil /\ a \in results
    /\ \/ /\ a.outcome = "SUCCEEDED"
          /\ \E P \in SUBSET Pages :
                /\ Cleanup(a.job, P)
                /\ hand' = [answer |-> a,
                            status |-> IF P = {} THEN "SUCCEEDED" ELSE "OLD_RESOURCE_DELETION"]
       \/ /\ a.outcome # "SUCCEEDED"
          /\ hand' = [answer |-> a, status |-> "FAILED"]
          /\ UNCHANGED tasks
    /\ UNCHANGED <<rowVars, makeVars, workVars, results, answers, described, dlist, dcur, canVars, faults>>

ConsumerWrite ==
    /\ hand # Nil
    /\ PutStatus(hand.answer.job, hand.status, hand.answer.outcome)
    /\ results' = results \ {hand.answer}
    /\ hand' = Nil
    /\ UNCHANGED <<kind, tries, seq, old, makeVars, workVars, answers, described, delVars, canVars, faults>>

(* Ingesting or writing fails, or the consumer dies: the answer comes back. *)
ConsumerFails ==
    /\ hand # Nil /\ Fault
    /\ hand' = Nil
    /\ UNCHANGED <<rowVars, makeVars, workVars, results, answers, described, delVars, canVars>>

-----------------------------------------------------------------------------
(* OldResourceDeleter: runDeleter on its ticker.  A task whose job is not  *)
(* in OLD_RESOURCE_DELETION is passed over and kept.                       *)

DeleterList ==
    /\ dlist = {} /\ dcur = Nil
    /\ dlist' = {<<p, tasks[p]>> : p \in {q \in Pages : tasks[q] # Nil}}
    /\ dlist' # {}
    /\ UNCHANGED <<rowVars, makeVars, workVars, ansVars, tasks, dcur, canVars, faults>>

DeleterRead(x) ==
    /\ dcur = Nil /\ x \in dlist
    /\ dlist' = dlist \ {x}
    /\ dcur' = IF status[x[2]] = "OLD_RESOURCE_DELETION"
               THEN [page |-> x[1], job |-> x[2], step |-> "erase"] ELSE Nil
    /\ UNCHANGED <<rowVars, makeVars, workVars, ansVars, tasks, canVars, faults>>

DeleterErase ==
    /\ dcur # Nil /\ dcur.step = "erase"
    /\ dcur' = [dcur EXCEPT !.step = "write"]
    /\ UNCHANGED <<rowVars, makeVars, workVars, ansVars, tasks, dlist, canVars, faults>>

(* SUCCEEDED, with the error code that was read: none in this status *)
DeleterWrite ==
    /\ dcur # Nil /\ dcur.step = "write"
    /\ PutStatus(dcur.job, "SUCCEEDED", "")
    /\ dcur' = [dcur EXCEPT !.step = "task"]
    /\ UNCHANGED <<kind, tries, seq, old, makeVars, workVars, ansVars, tasks, dlist, canVars, faults>>

(* The task is deleted by its id, whatever job is in it by now. *)
DeleterTask ==
    /\ dcur # Nil /\ dcur.step = "task"
    /\ tasks' = [tasks EXCEPT ![dcur.page] = Nil]
    /\ dcur' = Nil
    /\ UNCHANGED <<rowVars, makeVars, workVars, ansVars, dlist, canVars, faults>>

(* A failed write goes on to the next task, other errors end the pass. *)
DeleterFails ==
    /\ dcur # Nil /\ Fault
    /\ dlist' = IF dcur.step = "write" THEN dlist ELSE {}
    /\ dcur' = Nil
    /\ UNCHANGED <<rowVars, makeVars, workVars, ansVars, tasks, canVars>>

(* RunRemoveResourcesConnectionJobsCleanup, in the status nothing else leaves *)
RemoveResources(j) ==
    /\ status[j] = "REMOVING_RESOURCES"
    /\ PutStatus(j, "SUCCEEDED", "")
    /\ UNCHANGED <<kind, tries, seq, old, makeVars, workVars, ansVars, delVars, canVars, faults>>

-----------------------------------------------------------------------------
(* UpdateResourceTypeDescribeConnectionJobsTimedOut: four statements.  A   *)
(* row that one of them changes is new to the next ones.                   *)

Limit(st) == CASE st = "IN_PROGRESS"           -> TwentyMinutes
               [] st = "OLD_RESOURCE_DELETION" -> ThirtyMinutes
               [] st = "QUEUED"                -> Hour
               [] st = "CREATED"               -> Interval

(* Mutant: the deletion of old resources has no limit *)
OverdueNotDeleting(st) == {j \in Jobs : /\ status[j] = st /\ since[j] >= Limit(st)
                                        /\ st # "OLD_RESOURCE_DELETION"}

Overdue(st) == {j \in Jobs : status[j] = st /\ since[j] >= Limit(st)}

Expire(st) ==
    /\ Overdue(st) # {}
    /\ Touch(Overdue(st), IF st \in {"QUEUED", "CREATED"} THEN "FAILED" ELSE "TIMEOUT")
    /\ denied' = denied \ Overdue(st)
    /\ UNCHANGED <<kind, tries, seq, old, makeVars, workVars, ansVars, delVars, canVars, faults>>

-----------------------------------------------------------------------------
(* CancelJobById and CancelJob for a describe job. *)

CancelRead(j) ==
    /\ cview = Nil /\ cancels < MaxCancels
    /\ status[j] \in {"CREATED", "QUEUED"}
    /\ cancels' = cancels + 1
    /\ cview' = [job |-> j, step |-> IF status[j] = "CREATED" THEN "write" ELSE "drop",
                 seq |-> seq[j]]
    /\ UNCHANGED <<rowVars, makeVars, workVars, ansVars, delVars, faults>>

(* DeleteMessage from the stream of the AWS describer, also for Azure's    *)
(* jobs: their own message stays where it is, and the call fails or takes  *)
(* the message of some other job.                                          *)
CancelDrop ==
    /\ cview # Nil /\ cview.step = "drop" /\ cview.seq # Nil
    /\ \/ ~Azure /\ <<cview.job, cview.seq>> \in queue /\ queue' = queue \ {<<cview.job, cview.seq>>}
       \/ (Azure \/ <<cview.job, cview.seq>> \in running) /\ UNCHANGED queue
    /\ cview' = [cview EXCEPT !.step = "write"]
    /\ UNCHANGED <<rowVars, makeVars, call, running, stored, ansVars, delVars, cancels, faults>>

CancelDropFails ==
    /\ cview # Nil /\ cview.step = "drop"
    /\ Azure \/ <<cview.job, cview.seq>> \notin queue
    /\ cview' = Nil
    /\ UNCHANGED <<rowVars, makeVars, workVars, ansVars, delVars, cancels, faults>>

CancelWrite ==
    /\ cview # Nil /\ cview.step = "write"
    /\ PutStatus(cview.job, "CANCELED", "")
    /\ cview' = Nil
    /\ UNCHANGED <<kind, tries, seq, old, makeVars, workVars, ansVars, delVars, cancels, faults>>

-----------------------------------------------------------------------------
(* Time.  A job created before another one is past the interval before it, *)
(* and the row that was updated last has the youngest updated_at.          *)

Elder(j) == {i \in Created : i < j}

Tick(j) ==
    /\ j \in Created /\ since[j] < Interval
    /\ j = last => \A i \in Created \ {j} : since[i] > since[j]
    /\ since[j] + 1 = Interval => Elder(j) \subseteq old
    /\ since' = [since EXCEPT ![j] = @ + 1]
    /\ old' = IF since[j] + 1 = Interval THEN old \cup {j} ELSE old
    /\ UNCHANGED <<status, kind, tries, seq, denied, last, makeVars, workVars, ansVars, delVars, canVars, faults>>

Age(j) ==
    /\ j \in Created \ old /\ Elder(j) \subseteq old
    /\ old' = old \cup {j}
    /\ UNCHANGED <<status, kind, tries, seq, denied, since, last, makeVars, workVars, ansVars, delVars, canVars, faults>>
-----------------------------------------------------------------------------
Tickers  == TickCheck \/ TickCreate \/ RetryList \/ (\E j \in tretry : RetryWrite(j))
Requests == RequestCheck \/ RequestCreate
Calls    == \E j \in Jobs : CallQueue(j) \/ CallProduce(j) \/ CallStamp(j) \/ CallFail(j)
Describe == \/ \E m \in queue : DescriberTake(m)
            \/ \E m \in running : SetInProgress(m) \/ DeliverResult(m)
Consume  == (\E a \in results : ConsumerTake(a)) \/ ConsumerWrite
Delete   == \/ DeleterList \/ (\E x \in dlist : DeleterRead(x))
            \/ DeleterErase \/ DeleterWrite \/ DeleterTask
Cancel   == (\E j \in Jobs : CancelRead(j)) \/ CancelDrop \/ CancelDropFails \/ CancelWrite
Faults   == \/ TickFails \/ MessageLost \/ ConsumerFails \/ DeleterFails
            \/ \E j \in Jobs : CallQueueFails(j) \/ CallProduceFails(j) \/ CallLost(j)

(* What the history variable late records of a step: only a retry writes   *)
(* CREATED to a job that has ended.                                        *)
Observe == late' = late \cup {j \in Jobs : /\ status[j] \in Ended
                                          /\ status'[j] \in InProgress \ {"CREATED"}}

Step == \/ Tickers \/ Requests \/ Calls \/ Describe \/ Consume \/ Delete \/ Cancel \/ Faults
        \/ \E g \in Groups : CycleFetch(g)
        \/ \E st \in InProgress : Expire(st)
        \/ \E j \in Jobs : RemoveResources(j) \/ Tick(j) \/ Age(j)

Next == Step /\ Observe

Spec == Init /\ [][Next]_vars

(* The calls of a cycle end, the result queue is consumed, the timeouts    *)
(* and the removal of resources run on tickers, and time passes.  Nothing  *)
(* is assumed of the describers, the deleter and the cycles themselves.    *)
Fairness == /\ \A j \in Jobs : /\ WF_vars((CallQueue(j) \/ CallProduce(j) \/ CallStamp(j) \/ CallFail(j)) /\ Observe)
                              /\ WF_vars(RemoveResources(j) /\ Observe)
                              /\ WF_vars(Tick(j) /\ Observe) /\ WF_vars(Age(j) /\ Observe)
            /\ WF_vars(Consume /\ Observe)
            /\ \A st \in InProgress : WF_vars(Expire(st) /\ Observe)

FairSpec == Spec /\ Fairness

-----------------------------------------------------------------------------
(* Properties. *)

(* How often a job is put in the queue.  retry_count is tested when the    *)
(* failed jobs are listed and counted when a cycle sends the job, so that  *)
(* a job which the cycle had fetched, and a late answer failed meanwhile,  *)
(* gets one attempt more than the limit; a manual job gets one attempt.    *)
(* A copy of the message is stored for each attempt at most, and for each  *)
(* failure.                                                                *)
AttemptBound ==
    \A j \in Jobs : /\ tries[j] <= IF Group(j) = "manual" THEN 1 ELSE MaxTries + 1
                    /\ stored[j] <= tries[j] + faults

(* Why AttemptBound holds.  An attempt is still to come for a job that is  *)
(* CREATED (CreateJob, RetryWrite), that a cycle has fetched, or that      *)
(* retryFailedJobs has listed: a listed job is not CREATED, and it has     *)
(* reached the limit only when the call that counts the last attempt came  *)
(* between the list and the retry.  A manual job is never listed.          *)
AttemptInv ==
    \A j \in Jobs :
        /\ status[j] = "NONE" => tries[j] = 0 /\ call[j] = "idle" /\ j \notin tretry
        /\ call[j] = "stamp" => stored[j] > 0
        /\ stored[j] <= tries[j] + faults
        /\ call[j] = "produce" => stored[j] < tries[j] + faults
        /\ Group(j) = "manual" => /\ tries[j] <= 1 /\ j \notin tretry
                                  /\ call[j] = "queue" \/ status[j] = "CREATED" => tries[j] = 0
        /\ Group(j) = "scheduled" =>
              /\ tries[j] <= MaxTries + 1
              /\ call[j] = "queue" \/ status[j] = "CREATED" => tries[j] <= MaxTries
              /\ j \in tretry => /\ status[j] # "CREATED" /\ tries[j] <= MaxTries
                                 /\ call[j] = "queue" => tries[j] < MaxTries

(* A job that was sent is SUCCEEDED, or deletes old resources, only after  *)
(* a describer succeeded at it, and resources are listed for deletion only *)
(* on account of such a job.                                               *)
SuccessIsDescribed ==
    /\ \A j \in Jobs \ described :
          /\ status[j] # "OLD_RESOURCE_DELETION"
          /\ status[j] = "SUCCEEDED" => tries[j] = 0
    /\ \A p \in Pages : tasks[p] \in described \cup {Nil}

(* The ticker gives a connection and resource type one job at a time, as   *)
(* long as no request creates one beside it.  The test in describe() looks *)
(* at the last job only; that the jobs before it are not at work follows   *)
(* from the limits: a job is retried only within the interval from its     *)
(* creation, and another is created only when the interval has passed      *)
(* since any job was updated.  An answer or a call that comes after all    *)
(* limits may still bring a job back; it is then the one updated last, and *)
(* what the ticker finds in it says nothing of the jobs created after it.  *)
OneAtWork ==
    (\A j \in Created : kind[j] = "scheduled") =>
        \A i, j \in Created :
            i < j /\ status[i] \in InProgress /\ status[j] \in InProgress => (1..j) \cap late # {}

(* Nobody who acts without looking at the status again refers to the job. *)
Unreferenced(j) ==
    /\ call[j] = "idle" /\ j \notin tretry
    /\ \A m \in queue \cup running : m[1] # j
    /\ \A a \in results : a.job # j
    /\ hand = Nil \/ hand.answer.job # j
    /\ dcur = Nil \/ dcur.job # j
    /\ cview = Nil \/ cview.job # j

(* A job that succeeded or was canceled stays so, and is not taken up      *)
(* again, unless it was in somebody's hands at that moment.                *)
EndedSticks ==
    [][\A j \in Jobs :
          status[j] \in {"SUCCEEDED", "CANCELED"} /\ Unreferenced(j) =>
              status'[j] = status[j] /\ Unreferenced(j)']_vars

(* Each job ends, whatever the describers, the deleter and the cycles do:  *)
(* messages and answers that are dropped as duplicates of an earlier       *)
(* attempt's included.                                                     *)
JobsSettle == \A j \in Jobs : <>[](status[j] \in Ended \cup {"NONE"})

(* A job takes only the steps of DescribeLifecycle, which JobSequencer     *)
(* builds its dependencies on: nothing is written to a row before it is    *)
(* created, a manual job is never CREATED again, and only a job that is    *)
(* CREATED or QUEUED begins.                                               *)
ImplementsLifecycle == Life!LifecycleSpec
=============================================================================
