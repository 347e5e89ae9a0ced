# Verification of open-governance: jobs of the scheduler, and the sink

open-governance discovers the resources of cloud accounts, checks them against
compliance benchmarks and aggregates the findings. What is hard to get right in
it is the life of its jobs: a row in Postgres, a message in NATS JetStream and a
worker in some other process have to agree on what has been done, and nothing
but polling loops, timeouts and retries makes them. The scheduler service
(`src/pkg/describe`) runs more than a dozen goroutines that share nothing but the
database and write to it one statement at a time, without transactions and
mostly without a condition on the row's old state. All job tables of the
scheduler but the check-ups are modelled here, and the sink that takes what the
jobs find to OpenSearch.

## The system

| Component | State | Operations | Interacts by |
|---|---|---|---|
| Compliance scheduler, `schedulers/compliance/{scheduler,trigger}.go` | `compliance_jobs`, `compliance_runners` | `runScheduler` creates a job per benchmark and deletes the runners of the last one; `enqueueRunnersCycle` creates the runners | Postgres |
| Compliance publisher, `schedulers/compliance/publisher.go` | `compliance_runners` | `runPublisher`, one loop per trigger type: timeouts, up to ten rounds of fetch and publish, retry | Postgres, NATS job queue |
| Runner worker, `src/pkg/compliance/runner` | the message it holds | takes a job, answers IN_PROGRESS and the end | NATS queues, OpenSearch |
| Result consumers, `schedulers/compliance/consumer.go` | - | acknowledge an answer, write it to the row | NATS, Postgres |
| Summarizer cycle, `schedulers/compliance/summarizer.go` | `compliance_jobs`, `compliance_summarizers` | `runSummarizer`, one loop per trigger type: timeouts, sink check, summarizer creation, publication, end of the job, retry | Postgres, OpenSearch, NATS |
| Summarizer worker, `src/pkg/compliance/summarizer` | the message it holds | aggregates findings, answers | NATS, OpenSearch |
| Discovery, `scheduler_describe.go`, `scheduler_describe_result.go`, `db/describe.go` | `describe_connection_jobs` | creation by ticker or request, `retryFailedJobs`, two job cycles, result consumer, timeouts | Postgres, NATS / Lambda / Service Bus, gRPC |
| Describers and `grpc_server.go` | the message a describer holds | `SetInProgress`, `DeliverResult` | gRPC to the scheduler, NATS result queue |
| `schedulers/discovery/old_resource_deleter.go` | deletion tasks in OpenSearch | `runDeleter` | OpenSearch, Postgres |
| Cancel requests, `server.go` | - | `CancelJobById`, `CancelJob` | Postgres, deletion of messages by sequence number |
| Analytics, `scheduler_analytics.go` | `analytics_jobs` | `RunAnalyticsJobScheduler` and `scheduleAnalyticsJob`, called by the ticker, by requests and by the sequencer; results, timeout | Postgres, NATS |
| Job sequencer, `scheduler_job_sequencer.go` | `job_sequencers` | `checkJobSequences` waits for the describe jobs of a sequence, then creates an analytics job or runners | Postgres, `scheduleAnalyticsJob` |
| Query runner, `schedulers/query-runner` | `query_runner_jobs` | as the compliance publisher, without retries; purge | Postgres, NATS |
| OpenSearch sink, `services/es-sink` | a stream, two channels, a bulk indexer | `Ingest`, `ConsumeCycle`, `Start`, `handleFailure` | HTTP and gRPC from all workers, NATS, OpenSearch |
| Check-up, clean-ups (`scheduler.go`) | rows by age | create, delete | Postgres |
| Compliance API, inventory, metadata, auth, onboard, wastage, workspace manager, migrator, importer, information | tables and indices of their own | request handlers and one-shot jobs | HTTP |

What is hard in it:

* **Interleavings.** Each loop reads rows, works on what it read for minutes and
  writes the result without looking again. Two loops (scheduled and manual) run
  the same statements over the same table.
* **Order.** Publish first and write QUEUED after (runners, summarizers,
  queries), or write QUEUED first and send after (discovery): either way there is
  a message without its status or a status without its message.
* **Delivery.** A job message is delivered once; a worker that dies takes it
  along. JetStream drops a message whose id it has seen within its window.
* **Failure of one step of several,** restarts included: every statement and call
  has an early return of its own, and what was done before it stays.
* **Timeouts that race late answers,** and retries of what is still running.
* **Liveness:** nothing tells a loop that something was lost. That each job ends
  depends on a web of limits: 20 minutes, 1 hour, 2 hours, 12 hours, 24 hours, 7
  and 10 minutes, the discovery interval.
* **Bounded channels:** each stage of the sink waits for the next, and the last
  one, when OpenSearch answers 429, for an earlier one.

What makes the components correct, in short: a runner's attempt is run once, a
success is not run again and is what its job reports; a job is summarized after
its runners; what has ended or was canceled stays so; one discovery works on a
resource type at a time; a next job is created once, after what it waits for; no
document is lost silently; every row of every table comes to an end. PROJECT.json
lists the hazards at their lines with the properties that are about them.

## The modules

`RunnerLifecycle` is the abstract specification of a row of
`compliance_runners`: the steps a row may take, as a relation between its old and
new `status` and `retry_count`, whoever takes them. `ComplianceRunner` implements
it, and `ComplianceJob`, which looks at the runners' rows and does not care who
moves them, is built on it:

    ComplianceRunner --implements--> RunnerLifecycle   <--built on-- ComplianceJob
    DescribeJob      --implements--> DescribeLifecycle <--built on-- JobSequencer
                                     AnalyticsJob      <--extends--- JobSequencer
    QueryRunner, EsSink              stand alone

`DescribeLifecycle` is the same for a row of `describe_connection_jobs`: the job
sequencer looks at such rows and does not care who moves them. `JobSequencer`
extends `AnalyticsJob` and is one of the callers of its `scheduleAnalyticsJob`.
`QueryRunner` has a table and queues of its own, and so has `EsSink`.

Each of the modules with actions has a module `...Proofs` with the theorems about
it; `NaturalSets` has two lemmas on least and greatest elements that several of
them use. The `MC` modules hold the instances for TLC.

### ComplianceRunner

The runners of one job. State: the columns `status`, `retry` (`retry_count`),
`seq` (`nats_sequence_number`); the locals of the two publishers (`pc`, `round`,
`batch`, and `ticket`, the message `Produce` has just returned); the job queue,
the workers' hands `wk`, the result queue, the answer the consumer has
acknowledged and not yet written (`hand`); what a cancel request has read
(`view`). Time is the two sets `old` (created more than 12 hours ago, the QUEUED
timeout) and `quiet` (not updated for as long as the row's status is tested for).

| Action | Code |
|---|---|
| `PubExpireQueued`, `PubExpireRunning` | `UpdateTimeoutQueuedRunnerJobs`, `UpdateTimedOutInProgressRunners` |
| `PubFetch`, `PubSkip`, `PubDetached`, `PubProduce`, `PubProduceFails`, `PubReject`, `PubAbort`, `PubStamp`, `PubMark` | the loop of `runPublisher`, statement by statement |
| `PubRetry` | `RetryFailedRunners` |
| `WorkerTake`, `WorkerFinish`, `WorkerLost` | the worker's message handler, as seen from its queues |
| `ConsumerTake`, `ConsumerWrite`, `ConsumerFails` | `RunComplianceReportJobResultsConsumer` |
| `CancelRead`, `CancelDrop`, `CancelDropFails`, `CancelWrite` | compliance branch of the cancel requests |
| `Purge` | `DeleteOldRunnerJob`, called for a newer job |
| `Crash` | restart of the scheduler: its goroutines lose their locals |
| `Age`, `Rest` | time |

A row is `Orphan` when its query is not in `ListQueries` (it is skipped and stays
CREATED), and `Detached` when its connection is gone (the code writes FAILED
*and goes on to publish it*).

### ComplianceJob

The jobs of one benchmark with their runners' rows and summarizers:
`Trigger*` (`CreateComplianceReportJobs`), `Enqueue*` (`enqueueRunnersCycle`),
`Expire*`, `ListCompleted`, `Sink*`, `*Summariz*`, `ListEnded`, `Finish*`
(`runSummarizer`, once for each trigger type, both of which work on all jobs),
`SummarizerWork`, `SummarizerResult` and `SummarizerLost` for the worker and the
consumer, `Cancel*` for the requests, `Restart`. The rows move by
`RunnerLifecycle` steps. Whether all findings are in the index is a choice at
each look (`SinkBegin`, `SinkWait`, `SinkEnd`): nothing else depends on it.

### DescribeJob

The describe jobs of one connection and resource type. `Tick*` and `Request*`
are `describe()`, split at the calls between its test and its `INSERT`; `Retry*`
is `retryFailedJobs`; `CycleFetch` and `Call*` are `RunDescribeResourceJobCycle`
and `enqueueCloudNativeDescribeJob` (the NATS provider); `DescriberTake`,
`SetInProgress`, `DeliverResult` are the describers as the gRPC server sees them;
`Consumer*` is the result consumer, `Deleter*` is `runDeleter`, `RemoveResources`
the removal ticker, `Expire` the four statements of
`UpdateResourceTypeDescribeConnectionJobsTimedOut`, `Cancel*` the requests.
Time is, for each row, the number of limits its `updated_at` has passed
(`since`), and the rows created too long ago to be retried (`old`): a write
through the mapper resets `since`, one in plain SQL does not, and this is where
the limits get their meaning. A message id holds a retry counter that is
constantly 0, so `Store` and `DeliverResult` may drop a copy as a duplicate.

### AnalyticsJob

The analytics jobs of one type; the two types share no row and no test. `Call`,
`ReadLast`, `Insert`, `Enqueue`, `EnqueueFails`, `Reject`, `CallFails` and
`Returned` are `RunAnalyticsJobScheduler` and `scheduleAnalyticsJob`, a step for
each statement and call, with locals for each caller; `WorkerTake`,
`WorkerFinish`, `WorkerLost` the worker as its queue sees it; `Consume` and
`ConsumeFails` the result consumer, `Expire` its timeout; `CancelRead` and
`CancelWrite` a request; `AnalyticsRestart` a restart. Time is the rows older than
the interval (`aged`) and than the two hours of the timeout (`overtime`). No
worker reports IN_PROGRESS, so the test for a job in progress (`ReadLast`) stops
nobody.

### JobSequencer

`Submit` is both requests that create a sequence (`server.go`). One pass of
`checkJobSequences` is `List`, then for each sequence `LookAt` and `Search` for
each describe job (its status, and the share of its resources in the index),
`StartAnalytics` and `Called` or `StartRunners`, `Finish` and `Name` (two
updates), or `FailSequence`; `PassFails` is each early return. `DepMoves`
(by `DescribeLifecycle`), `DepSinks`, `DepAges`, `CleanUp` and `RunnersMove` are
what the rest of the system does to the rows the sequencer looks at. `started`
counts the next jobs created, `over` and `ready` remember which describe jobs
have ended, and were then in the index or a day old.

### QueryRunner

`RunQuery`, `Purge` and `Cancel*` are requests; `Pub*` is `runPublisher`, statement
by statement (`PubTake` looks the query up and fills its template in);
`WorkerTake`, `WorkerFinish`, `WorkerLost`, `ConsumerTake` and `ConsumerWrite` are
as in `ComplianceRunner`; `Crash` and `Rest` are restarts and time. What the
publisher can make of a run's query is the constant `Fate`: it is good, is not
found (the row fails), cannot be executed (the row fails and the round ends), or
does not parse (the round ends and the row stays CREATED).

### EsSink

`Ingest` and `IngestFails` produce a document into the stream, or what could not be
marshalled; `Deliver`, `Unmarshal`, `QueueDoc`, `AckWait` and `AckFails` are
`ConsumeCycle`, the channel `inputChan` at its end, and `Expire` is the stream's
`MaxAge`; `TakeInput`, `TakeFails`, `TakeRetry` and `Add` are the loop of `Start`;
`Buffer`, `Flush`, `FlushFails` and `Handled` are the bulk indexer and its
workers, a library, as the code configures it; `HandleFailure` sends a document
answered by 429 to `retryChan`; `Crash` loses the memory of the process.

Documents are numbered in the order they come; `index` is the version OpenSearch
has of each id. The histories say what became of a document: `told` (not reported
as failed to its sender), `unreadable` (its message does not unmarshal), `late`
(delivered again, or answered by 429), `overtaken` (one worker had it when another
sent a newer version), `indexed`, `refused`, and `lost`, by its four causes: its
message was 48 hours in the stream (`service.go:53`), its index could not be
created although its message was acknowledged (`es.go:80-93`), its request failed
as a whole (`es.go:37`), it was in the memory of a process that died.

`pool`, the workers the bulk indexer has, is a variable that takes one of `Pools` at
the start and keeps it, so that one run covers several numbers of workers. The code
has four. A worker may send what it has at any time, which stands for the flush
interval. The stream keeps its order but for redelivery, without which nothing at
all could be said of the versions in the index; a message of any age may expire,
which is more than the stream does. A message that does not unmarshal is never
acknowledged, and comes back until it expires.

## What is checked

| Run | Instance | States | Shows |
|---|---|---|---|
| `runner_races` | 1 runner, 2 workers, 2 retries, 1 cancel request, no fault | 85 000 | `SingleFlight`, `NoLaunchAfterSuccess`, `SuccessOverwrittenOnlyByRace`, `CancelSticks`, `ImplementsLifecycle`, `TypeOK` |
| `runner_faults` | an orphan and a detached runner, 1 at a time, 1 worker, 1 retry, 1 fault | 82 000 | `LaunchBound`, `RunnersSettle` |
| `job_cancel` | 1 job, both summarizer cycles, 1 cancel request | 94 000 | `SuccessIsReported`, `EndIsFinal`, `OnlyCancelBlocks`, `TypeOK` |
| `job_live` | 1 job, 1 retry of runner and summarizer, 1 fault | 137 000 | `OneSummarizer`, `JobsEnd`, `RowsFollowLifecycle` |
| `job_next` | 2 jobs with 2 runners each | 231 000 | `SummaryAfterRunners` |
| `describe_one` | 1 job of ticker or request, sent 3 times at most, 1 cancel request | 1.85 million | `AttemptBound`, `EndedSticks`, `ImplementsLifecycle`, `TypeOK` |
| `describe_live` | 1 job of the ticker sent twice at most, 1 deletion task, 1 fault | 412 000 | `SuccessIsDescribed`, `JobsSettle` |
| `describe_two` | 2 jobs of the ticker, 1 retry | 440 000 | `OneAtWork` |
| `analytics` | 2 jobs, ticker and request, 2 workers, 1 cancel request, 1 fault | 406 000 | `TickerKeepsInterval`, `EndedStaysEnded`, `AnalyticsSettle`, `AnalyticsTypeOK` |
| `sequencer` | 2 sequences, one for analytics and one for runners, behind one describe job, 1 fault | 152 000 | `NextJobOnce`, `RunningIsTold`, `NextAfterDependencies`, `SequencesEnd`, `TypeOK` |
| `query` | 2 runs, one of which does not parse, 1 request, 1 fault | 418 000 | `SentOnce`, `EndKept`, `OnlyUnparsableBlocks`, `TypeOK` |
| `sink` | 4 documents, versions of two, channels of one, 1 bulk worker or 2, 2 documents answered 429, 1 fault | 611 000 | `NoneLost`, `OldVersionsOvertaken`, `OnlyFullChannelsBlock`, `TypeOK` |

`CHECK_DEADLOCK FALSE` everywhere: with bounded jobs, cancels and faults and with
time that passes once, a run of the system does end.

### The properties

* `LaunchBound`: an attempt of a runner is put in the queue once, and once more at
  most for each lost write, failed call or restart. `SingleFlight`: without
  faults, one attempt at most is in the queue or with a worker. Both hold although
  QUEUED is written late, because a retry starts only from FAILED and a row that
  timed out is never retried.
* `SuccessOverwrittenOnlyByRace`: a success *is* overwritten, by the publisher's
  late QUEUED; the property says by what and nothing else. `NoLaunchAfterSuccess`
  says it is not run again for it.
* `CancelSticks`: a canceled runner is taken up again only by what was under way
  when it was canceled.
* `RunnersSettle`, `JobsEnd`, `JobsSettle`, `AnalyticsSettle`, `SequencesEnd`: everything
  ends. A sequence may be blocked by a describe job that was CANCELED or never
  ends, and the property says by nothing else.
* `OnlyCancelBlocks`: with cancel requests a job may stay in SINK_IN_PROGRESS for
  ever, behind a runner that is CANCELED: such a runner does not count as
  completed, and the 24 hours do not apply to SINK_IN_PROGRESS. The property says
  this is the only way.
* `SummaryAfterRunners`, `OneSummarizer`, `SuccessIsReported`, `EndIsFinal`:
  what a job's end means.
* `AttemptBound`: a describe job is sent `MaxTries + 1` times at most: the limit is
  tested by one goroutine and counted by another, and one attempt can slip
  between. `MaxTries` itself is not the bound.
* `EndedSticks`: the discovery counterpart of `CancelSticks`, for success as well.
* `OneAtWork`: the ticker's jobs for a resource type work one at a time. `describe()`
  looks at the job updated last only; that the ones before it are over follows
  from the relation of the limits. It holds as long as no request creates a job:
  the test and the creation of a request and of the ticker are not one step, two
  jobs can be created at once, and with three jobs TLC finds the ticker adding
  another beside the two. It also holds only up to the first job brought back by an
  answer or a call that comes after every limit (`late`). Such a job is the one
  updated last from then on, whether or not it is at work, so that it hides the
  jobs created after it: a first job that timed out is queued again by a late call
  and times out once more, and the ticker, which looks at nothing else, creates a
  third job while the second is waiting. TLC finds this with three jobs; for that
  reason the property speaks of a late job *up to* the two, and not of one of them.
* `SuccessIsDescribed`: a job succeeds, or lists resources for deletion, only after
  a describer succeeded at it.
* `TickerKeepsInterval`: of the ticker's analytics jobs one at most is younger than
  the interval. A job a request creates between the ticker's look and its insert
  does not count: the two are not one step, and the code has nothing against it.
* `EndedStaysEnded`: an analytics job that has ended may still change *how* it ended,
  as result, timeout and cancel request write without a look at the row; it never
  comes back, and once answered is never timed out.
* `NextJobOnce`: the next job of a sequence is created once, and once more at most
  for each failure or restart, because what was created is remembered only by the
  status that is written last. `NextAfterDependencies`: not before each describe job had ended
  and was in the index or a day old, each *at some time*: the one looked at first
  may have been retried by the time the last one is.
* `RunningIsTold`: while the runners of a sequence wait or work, a request is told
  that it is running, but for the moment between the two updates and after a
  failure there.
* `SentOnce`, `EndKept`: `LaunchBound` and `CancelSticks` for query runs.
* `OnlyUnparsableBlocks`: a query that does not parse stays CREATED for ever and
  ends each round when its turn comes; the order of a round is not stated, so it
  may keep all the others from being sent. Nothing else does.
* `NoneLost`: a document whose sender was not told of a failure is under way, or
  OpenSearch took or refused it, or it was lost by one of the four causes above, each
  of which is the doing of one action. The channels, the retries, redelivery and what
  cannot be read lose none.
* `OldVersionsOvertaken`: the index has no version of its own, and an older version *may*
  replace a newer one. It does so only if it was answered by 429 or delivered twice,
  or if it was in the hands of one worker while another sent the newer one, which with
  the four workers of the code needs no failure at all. Within the consumer, the
  channels, the loop and one worker's requests the order of the stream is kept.
* `OnlyFullChannelsBlock`: nothing keeps a document from being processed but `Stuck`,
  where each worker waits for a place in `retryChan` and the loop that empties it waits
  for a worker. Nothing else does, a message that does not unmarshal included. `Stuck` is
  reachable, in the run as in the code: it takes as many 429 answers as `retryChan` has
  places, 1000 in the code, and one more for each worker.

### The bounds

What the properties tell apart is small: one row races itself (two workers, two
retries show a late answer against the next attempt and its timeout); rows
influence each other through a publisher's batch (two rows, one of them skipped
ahead of one that is not); jobs through the
deletion of the last one's runners (two jobs, two runners). `MaxRetries` is 3 in
the code and 1 or 2 in the runs, `MaxTries` 5 there and 1 or 2 here: the models
compare the counters with the bound and use them in no other way. One fault, at any
statement or call that the models let fail, covers its failure alone; two at once
are covered by the proofs only. Not every failure is modelled: the failed
acknowledgements are listed under Abstractions. `Rounds` is 10 in the code and 1 in
the runs: a second round differs from the publisher's next turn in that no timeout
and no retry lie between, and the safety proofs hold for any number of rounds.
`FetchLimit` is 1000 in the code. The discovery
interval and the two days of the retry query are one threshold of age each; `Age`
lets the latter come at any time, as the interval may be shorter or longer.

In `describe_one` a describer succeeds or does not answer; `describe_live` and
`describe_two` have errors, one of which stops a retry.

`analytics` has two rows and two workers, so that a late answer of one job meets the
next. In `sequencer` the two sequences wait for one describe job, so that
it may change between the looks of one and of the other; the call of
`scheduleAnalyticsJob` fails or comes back at each of its statements.

`sink` has both pools of one worker and of two. With one, four documents are what the
stuck sink takes: one at the worker and one in `retryChan`, both answered by 429, one
in the worker's channel and one with the loop; it is reached there. With two, one
worker overtakes the other with a newer version of the same id, which two versions of
each of two ids show. More workers, longer channels and more faults are covered by
the proofs of `NoneLost` and `OldVersionsOvertaken`, and for the blocking by those of
its safety half.

### Fairness

Weak fairness of a goroutine's step stands for its ticker: `RunPublisher`,
`RunSummarizer` and the others loop for ever
(`schedulers/compliance/service.go:83-140`) and the consumers block on their
queues. Time passes. Nothing is assumed of the runners' workers, the summarizers,
the describers, the deleter of old resources, the analytics workers and the cycles
that send describe jobs: the limits alone must end a job, and do. `JobsEnd` and
`OnlyCancelBlocks` assume that the runners' rows settle, which is `RunnersSettle` of
`ComplianceRunner`.

* `AnalyticsJob`: the timeout (part of the result consumer's loop), time, and the
  second statement of a cancel request.
* `JobSequencer`: the pass of its ticker, the sequencer's own call of
  `scheduleAnalyticsJob`, and the day after which a describe job counts as resolved. Not
  that describe jobs end: `SequencesEnd` has this as its premise.
* `QueryRunner`: publisher, consumer, time.
* `EsSink`: consumer, loop, and each worker's steps separately, each of which waits
  for its channel and nothing else; and OpenSearch answers. Not that a message that
  does not unmarshal expires: the consumer must get past it.

### Where code and comments disagree

* `schedulers/compliance/summarizer.go:112-113` says that a job with less than 90% of
  its findings sunk, or updated less than an hour ago, is not summarized; the code
  has no test of 90%, and summarizes whatever has sunk after ten minutes
  (line 127).
* `db/describe.go:617-619` gives CREATED and QUEUED jobs the interval of their
  resource type; line 642 fails a QUEUED one an hour after `updated_at`.

Seen while modelling, contradicting no comment:

* The request that cancels a describe job deletes from the AWS stream whatever the
  connector is (`Azure` in `DescribeJob`).
* Only the first deletion task of a describe job is carried out; the others find
  the job SUCCEEDED and stay in the index.
* `CancelJob` leaves its loop at the first message that cannot be deleted and
  cancels the job all the same.
* `scheduler_analytics.go:86` looks for an analytics job IN_PROGRESS before it creates
  one, but no worker ever reports that status.
* `db/describe.go:760` and `773` look for the status `QUEDED`, which no row has.
* `es-sink/grpcApi/api.go:66` drops the list of documents that could not be produced
  and answers OK, so that `NoneLost` speaks of the senders over HTTP only.
* `db/job_sequencer.go:70`: FINISHED and `next_job_ids` are two updates.

## What is proved

`ComplianceRunnerProofs` holds for every finite set of rows, every set of workers,
and every bound on retries, rounds, batches, faults and cancels, from the named
assumptions of `ComplianceRunner` (rows are a finite set of naturals, the other
sets are subsets of it, bounds are naturals, rounds and batches at least one).

* `TypeCorrect`: `Spec => [](TypeOK /\ BatchInv)`. `TypeOK` is not inductive alone:
  a publisher that writes takes the row from its batch, so the batch must not be
  empty; an item's attempt must not be later than the row's, or a message of it
  would have no type; the round must be within its loop's bound. `BatchInv` says
  this, and that a row is in the batch of its own publisher only, once.
* `LaunchBounded`: `Spec => []LaunchBound`. Inductive with `LaunchInv`: an attempt
  that is still *due* (in a batch, or CREATED with this `retry_count`) and that the
  publisher has not put behind it was launched once for each fault at most, and an
  attempt later than the row's counter was not launched at all. A step that makes an
  attempt due without a fault is the retry, which raises the counter to an attempt
  never launched; every other step that stores needs the attempt to have been due.
  `LaunchesCounted` states this invariant by itself.
* `LifecycleImplemented`: `Spec => ImplementsLifecycle`. The initial states map to
  initial states, and each step is, row by row, a `RunnerLifecycle` step or none. With
  it the steps `ComplianceJob` gives its rows are justified by the runners' code.

* `OneFlight` (`SingleFlight`), `SuccessIsLast` (`NoLaunchAfterSuccess`) and
  `SuccessRaces` (`SuccessOverwrittenOnlyByRace`) come from `AllFlights`: as long as
  no fault has occurred, for each runner that has its connection, there is one
  attempt (`OneAttempt`: what is in a batch, the queue or with a worker excludes
  the rest), its last word is still to come or has been written (`LastWord`), and
  the row says no more than the attempt has done (`RowInv`).
* `CancelKept` (`CancelSticks`): a step proof over the statements that write a row;
  what nothing refers to is not written.
* `StatusIsEarned`, with `EarnedInv`: a row that is QUEUED, IN_PROGRESS or SUCCEEDED
  had an attempt stored in the queue. A message in the queue or at a worker has been
  counted by `launches`, an answer goes back to one, and the publisher's `ticket` is
  the message it has just sent. `OwnMessageDeleted` comes from the same invariant: the
  number in a row, and the one a cancel request has read, is that of a message of
  the row, so that the request deletes no other's. Both hold with any number of
  faults and cancel requests. No run lists them; `EarnedInv` was checked by TLC, before
  it was proved, in every state of `runner_faults`.

`ComplianceJobProofs` holds for every number of jobs and retries, every set of
queries and trigger types, and every bound on faults and cancel requests.

* `TypeCorrect`, with `LocalsInv`: what a goroutine keeps in a local is there where
  it uses it.
* `EndKept` (`EndIsFinal`), with `OwnInv`: jobs are numbered in the order of their
  creation, only jobs that exist are held, and each by the goroutines entitled to.
* `OneSummarizerMade` (`OneSummarizer`), with `SummInv`: a job still *owed* a summarizer,
  and not just given one, has none but for the faults.
* `SuccessReported` (`SuccessIsReported`), with `ReportInv`: a summarizer that has ended,
  a result in the queue and a job listed for its end each go back to a report.
* `RunnersFirst` (`SummaryAfterRunners`), with `RowsInv`: the rows of a job are there all
  or none, unless it was purged or is being filled, and are all done once it is
  listed as completed.
* `LifecycleFollowed` (`RowsFollowLifecycle`): the runners' rows take only
  `RunnerLifecycle` steps. With `LifecycleImplemented` both sides of the interface
  are proved.

`DescribeJobProofs` holds for every number of jobs, tries, pages, requests, cancel
requests and faults, from `BoundAssumption` and `NilAssumption` of `DescribeJob`.

* `TypeCorrect`: `Spec => []TypeOK`, and `AttemptsBounded`: `Spec => []AttemptBound`. Both
  from the invariant `TypeOK /\ AttemptInv` (`AttemptsCounted`). `TypeOK` is not inductive
  alone, as the sequence number a call writes is one of the copies stored so far,
  and how many there can be is `AttemptBound`. That is not inductive either: the
  next attempt may be on its way, as a CREATED row, as a row a cycle has fetched,
  or as a row `retryFailedJobs` has listed and will make CREATED. `AttemptInv` bounds
  the counter for each of these. The steps fall into those that write no row,
  those that write a status from which nothing is sent (both keep `AttemptInv` by
  one lemma, `AttemptKept`), and creation, retry, fetch, queueing and sending,
  which are treated one by one.
* `SuccessDescribed` (`SuccessIsDescribed`), with `Referred` (whatever refers to a job
  refers to one that was created) and `DescribedInv` (an answer, a task, a local that
  says success goes back to a describer's).
* `LifecycleImplemented`: each step is, row by row, a step of `DescribeLifecycle` or none,
  which is what `JobSequencer` is built on.
* `EndsStick` (`EndedSticks`).
* `OneAtATime` (`OneAtWork`), with `OneInv`. Each job that another one follows is past
  its interval, not in the list of the retry loop, and not at work (`Followed`): then
  nothing but a late answer or call takes it up again, since only a row that is CREATED
  is fetched and only a young one is made CREATED again. To keep this when the next
  job is created, the ticker must have looked at the latest job (`LastIsLatest`: while
  no job was late, the row updated last is the one created last) and what it has
  found must still be so at its `INSERT` (`NextIsDue`). The rest is arithmetic of ages:
  elder rows are older, and a row untouched for an interval was created an interval
  ago (`Aged`). A job whose old resources are being removed has left every queue
  (`Unsent`, `Sticky`). It needs `NilAssumption`, that the mark for "no job" is not a
  number.

`AnalyticsJobProofs` holds for every set of callers with `"ticker"` in it, every
number of rows and workers, every quota.

* `AnalyticsTypeCorrect`; `IntervalKeptByTicker` (`TickerKeepsInterval`), with
  `Referred`, `InOrder` (rows of age come before younger ones) and `TickerDue` (a ticker
  that is about to insert has none of its own younger than the interval, though
  others may have inserted since it looked); `EndsStay` (`EndedStaysEnded`), with
  `AnsweredInv` (a job that was answered has ended).

`JobSequencerProofs` holds for every set of sequences and describe jobs, every
list of dependencies, every set of callers.

* `TypeCorrect`; `NextJobCreatedOnce`, `RunningTold` and `DependenciesFirst` with
  `LoopInv` (what the pass holds is what it has listed), `StatusInv`, `Told` and `CreatedOnce`
  (a sequence that still waits has had no next job but for the faults and the one
  just created).
* `CreatedWhenReady`: `DependenciesFirst` as an invariant, of every next job that was
  ever created.
* `AnalyticsImplemented`: every behaviour is one of `AnalyticsJob`, whose theorems
  therefore hold beside the sequencer: `IntervalKeptBesideSequencer` and
  `EndsStayBesideSequencer`.

`QueryRunnerProofs` holds for every set of runs with any fates.

* `TypeCorrect` and `RunSentOnce` (`SentOnce`), with `PublisherInv` and `SentInv`: a row that is
  pending and not just sent has been stored for each fault at most.
* `EndStays` (`EndKept`), a step proof.
* `StatusIsEarned` and `NumberIsStored`, with `EarnedInv`, as for the runners: a run that
  says it was queued, begun or done was sent, and a sequence number is that of a copy
  the stream has taken. TLC has checked `EarnedInv` in every state of `query`.

`EsSinkProofs` holds for every number of documents and workers and all capacities.

* `TypeCorrect` bounds every channel. `NothingIsLost` (`NoneLost`): each step only moves
  a document between the places where it may be, or puts it among the `lost` with a
  cause. The bulk request is the one that needs work: the versions of an id in it
  leave the last in the index, which takes the greatest element of a set of positions
  (`GreatestNatural`).
* `OldVersionsAreOvertaken` (`OldVersionsOvertaken`). `Ordered` says of each place, from the
  index back to the stream, that what is there comes after what is in all places
  before it, but for the documents in `late`: those delivered twice or sent back by a
  429, which are the ones in `retryChan`. The workers' requests are one place side by
  side: of each alone it says that it is in order, and that a document in it is newer
  than what the index has, or is `late`, or `overtaken` (`RequestOrdered`, `Current`). Each
  action moves a document from one place to the next and keeps the chain; the bulk
  request, which leaves the last version of each id, is where the order turns into the
  property, and where the documents of other workers become overtaken.
* `OnlyStuckBlocks`, for channels of at least one place: if a document is in memory, or
  readable in the stream, the consumer, the loop or a worker can go on, or all are in
  `Stuck`. `ConsumerMoves`, `LoopMoves` and `BulkMoves` are the guards written out, as ENABLED
  cannot be proved about; TLC has compared them with it in every state of `sink`:
  `LoopMoves` and `BulkMoves` are ENABLED of the steps they stand for, `ConsumerMoves`
  implies it. `StuckStays`: from there nothing reaches the index before a restart, and
  all that happens to a document is that it expires. They are the safety half of
  `OnlyFullChannelsBlock`.

Only model-checked is what is liveness, which is out of the prover's reach:
`RunnersSettle`, `JobsEnd`, `OnlyCancelBlocks`, `JobsSettle`, `AnalyticsSettle`, `SequencesEnd`,
`OnlyUnparsableBlocks` and `OnlyFullChannelsBlock`. The models have no recursive operators.

## Abstractions

* One action is one database statement or one call; Postgres runs a statement
  atomically. In `ComplianceJob` a cancel request deletes a runner's message and
  writes its row in one step (`ComplianceRunner` splits them).
* JetStream, OpenSearch and the describers' binaries are not part of the repository
  and are modelled from how the code uses them (`external` in the map): a queue
  gives each message to one consumer, unordered; a stored message id is not stored
  again within the window of duplicates.
* Queues are sets; the runners' results are a sequence, as one consumer reads one
  stream.
* Logging, tracing, metrics, payloads, names and the text of error messages are
  left out, as are the clean-ups that delete rows by age; deletion of a describe
  job by age is in `JobSequencer` (`CleanUp`), where it matters.
* `DescribeJob` has the NATS provider; Lambda and Service Bus differ in having no
  sequence number. One request at a time creates a job. The limits on queued jobs
  and on jobs per resource type are the freedom of `CycleFetch` to take any of the
  created jobs.

* A failed `msg.Ack` is logged and the message may come back
  (`schedulers/compliance/consumer.go:18-20`, `schedulers/query-runner/consumer.go:13-15`):
  not modelled for these two consumers, nor for the summarizers' results; `EsSink` has it
  (`AckFails`). In `DescribeJob` the write of a status and the acknowledgement after it
  (`scheduler_describe_result.go:138-154`) are one step, so that a result that was
  written is not handled again for an acknowledgement lost; a write that fails is
  redelivered there.
* `ComplianceJob` reads a job's failed runners and failed summarizers in one step
  (`FinishRead`); the code has a SELECT for each (`summarizer.go:173` and `204`).
* `EsSink` leaves out documents without an id, the creation of indices but for its
  failure, and the gRPC endpoint, which differs in what it tells the sender. The
  stream's limits on size and on messages not yet acknowledged (15 million and 1000)
  are not reached. A message that expires is a fault, bounded by `MaxFaults`. A document
  that a worker of the bulk indexer has taken while its last request is under way
  counts as in the channel still.

## Not modelled, and the plan

The models cover the goroutines that decide what becomes of a job. In lines this
is a small part of the repository: most of its code is request handlers that read
a table or an index and shape the answer, generated API documentation
(`src/pkg/docs`), queries for OpenSearch and their result types, tables of prices
and limits, and calls of cloud providers. None of these keeps a state from one step
to the next, and a model of them would say no more than the code does.

Candidates, in this order:

1. The workspace manager (`src/pkg/workspace/statemanager`): a reconciliation loop over
   a workspace's row (`handleTransition`), whose requirements and rollbacks are
   transactions that may need more time, and the unsealing of Vault. Properties: a
   state is left only when its transactions are applied, a deleted workspace has
   rolled back all of them.
2. Demo data (`SyncDemo` and `PurgeSampleData` of `src/pkg/workspace/server.go` and the
   importer's `migrations` row): the status is read and written later, and "Started" is written
   after the jobs were created, so that it may come after their end. Property: a
   later request is not refused for ever.
3. `OldResources`: the resources themselves under `DescribeJob` and the deleter.
   Property: no resource that the last successful discovery saw is deleted. The one
   hazard in PROJECT.json without a property, that only the first deletion task of a
   job is carried out, belongs here.
4. Algorithms against reference definitions: the comparison of findings with the
   last job's (`runner/job.go`), the aggregation of the summarizer.
5. Describe jobs of two connections: a connection that cannot be fetched ends the
   cycle for all jobs of its batch (`scheduler_describe.go:154`).
6. Check-up jobs, a ticker and one row.

The branch of the sequencer for benchmarks as dependencies
(`resolveBenchmarkDependency`) is left out: no code creates such a sequence.

Left out for good: the request handlers of inventory, compliance, metadata, auth
and onboard (reads, and single-statement writes), cost estimation (arithmetic over
price tables), migrators and dashboards (one-shot I/O).
