---------------------------- MODULE ComplianceJob ----------------------------
(***************************************************************************)
(* The compliance jobs of one benchmark: they are triggered, their runners *)
(* are enqueued, they are summarized when the runners are done, they are   *)
(* finished, timed out or canceled, and a new job deletes the runners of   *)
(* the last one.  All of it is done by goroutines of the scheduler and by  *)
(* HTTP requests that share nothing but the database; each action here is  *)
(* one statement to it.  The rows of the runners take the steps that       *)
(* RunnerLifecycle allows, which ComplianceRunner implements.              *)
(***************************************************************************)
EXTENDS Naturals, Sequences, FiniteSets

CONSTANTS Kinds,       \* the trigger types: "scheduled" and "manual"
          NJobs,       \* jobs are numbered 1..NJobs in the order of created_at
          Queries,     \* the queries of the benchmark's controls
          MaxRetries,  \* 3 in RetryFailedRunners and RetryFailedSummarizers
          MaxFaults,   \* bound on failed calls and restarts of the scheduler
          MaxCancels,  \* bound on cancel requests
          RunnerEnds,  \* statuses that publisher, worker and consumer write here
          Nil          \* no job

ASSUME KindsAssumption == "scheduled" \in Kinds
ASSUME RunnerEndsAssumption ==
    RunnerEnds \subseteq {"QUEUED", "IN_PROGRESS", "SUCCEEDED", "FAILED", "TIMEOUT"}
ASSUME NJobsAssumption == NJobs \in Nat
ASSUME JobBounds == MaxRetries \in Nat /\ MaxFaults \in Nat /\ MaxCancels \in Nat

Jobs == 1..NJobs
Rows == Jobs \X Queries      \* <<j, q>>: the runner of query q for job j

VARIABLES
    jstatus,    \* compliance_jobs.status, "NONE" before the job is created
    trig,       \* compliance_jobs.trigger_type
    allQueued,  \* jobs whose are_all_runners_queued is true
    jold,       \* jobs created more than 24 hours ago
    jquiet,     \* jobs not updated for 10 minutes
    status, retry,             \* the rows of compliance_runners
    summ,       \* summ[j]: the rows of compliance_summarizers for job j
    squiet,     \* summarizers not updated for 7 minutes
    smsgs, sresults,           \* the summarizer's job and result queues
    tpc, tlast, \* CreateComplianceReportJobs, for each trigger type
    epc, etodo, ecur, emissing,   \* enqueueRunnersCycle
    spc, slisted, screated, sending, sjob, skey, \* runSummarizer, for each trigger type
    cpc, cjob, cview, cancels, \* a cancel request
    faults,     \* failed calls and restarts so far
    done,       \* history: rows that were completed since they were created
    purged,     \* history: jobs whose runners were deleted
    reported    \* history: jobs a summarizer of which reported its end

jobVars == <<jstatus, trig, allQueued, jold, jquiet>>
rowVars == <<status, retry>>
sumVars == <<summ, squiet, smsgs, sresults>>
trgVars == <<tpc, tlast>>
enqVars == <<epc, etodo, ecur, emissing>>
cycVars == <<spc, slisted, screated, sending, sjob, skey>>
canVars == <<cpc, cjob, cview, cancels>>
obsVars == <<done, purged>>
vars == <<jobVars, rowVars, sumVars, trgVars, enqVars, cycVars, canVars,
          faults, obsVars, reported>>

Row == INSTANCE RunnerLifecycle WITH Runners <- Rows

Running  == {"CREATED", "RUNNERS_IN_PROGRESS", "SINK_IN_PROGRESS", "SUMMARIZER_IN_PROGRESS"}
Terminal == {"SUCCEEDED", "FAILED", "TIMEOUT", "CANCELED"}
JobStatus  == {"NONE"} \cup Running \cup Terminal
SummStatus == {"CREATED", "IN_PROGRESS", "SUCCEEDED", "FAILED"}

Summarizer == [status : SummStatus, retry : 0..MaxRetries]
SummKey == Jobs \X (1..(1 + MaxFaults))
SummMsg == [key : SummKey, attempt : 0..MaxRetries]
SummRes == [key : SummKey, attempt : 0..MaxRetries, status : {"SUCCEEDED", "FAILED"}]
Listed  == [job : Jobs, status : {"RUNNERS_IN_PROGRESS", "SINK_IN_PROGRESS"}, quiet : BOOLEAN]
CyclePc == {"idle", "expire", "list", "sink", "create", "summarizing", "fetch", "produce",
            "mark", "listEnded", "finish", "succeed", "fail", "retry"}

TypeOK ==
    /\ jstatus \in [Jobs -> JobStatus] /\ trig \in [Jobs -> Kinds]
    /\ allQueued \subseteq Jobs /\ jold \subseteq Jobs /\ jquiet \subseteq Jobs
    /\ status \in [Rows -> Row!RunnerStatus] /\ retry \in [Rows -> 0..MaxRetries]
    /\ summ \in [Jobs -> Seq(Summarizer)]
    /\ squiet \subseteq SummKey /\ smsgs \subseteq SummMsg /\ sresults \subseteq SummRes
    /\ tpc \in [Kinds -> {"idle", "purge", "create"}] /\ tlast \in [Kinds -> 0..NJobs]
    /\ epc \in {"idle", "read", "write"} /\ etodo \subseteq Jobs
    /\ ecur \in Jobs \cup {Nil} /\ emissing \subseteq Queries
    /\ spc \in [Kinds -> CyclePc]
    /\ slisted \in [Kinds -> SUBSET Listed] /\ screated \in [Kinds -> SUBSET SummKey]
    /\ sending \in [Kinds -> SUBSET Jobs]
    /\ sjob \in [Kinds -> Jobs \cup {Nil}]
    /\ skey \in [Kinds -> SummKey \cup {Nil}]
    /\ cpc \in {"idle", "rows", "scan", "job"} /\ cjob \in Jobs \cup {Nil}
    /\ cview \subseteq Queries \X Row!Waiting /\ cancels \in 0..MaxCancels
    /\ faults \in 0..MaxFaults
    /\ done \subseteq Rows /\ purged \subseteq Jobs /\ reported \subseteq Jobs

Init ==
    /\ jstatus = [j \in Jobs |-> "NONE"] /\ trig = [j \in Jobs |-> "scheduled"]
    /\ allQueued = {} /\ jold = {} /\ jquiet = {}
    /\ status = [r \in Rows |-> "NONE"] /\ retry = [r \in Rows |-> 0]
    /\ summ = [j \in Jobs |-> <<>>] /\ squiet = {} /\ smsgs = {} /\ sresults = {}
    /\ tpc = [k \in Kinds |-> "idle"] /\ tlast = [k \in Kinds |-> 0]
    /\ epc = "idle" /\ etodo = {} /\ ecur = Nil /\ emissing = {}
    /\ spc = [k \in Kinds |-> "idle"]
    /\ slisted = [k \in Kinds |-> {}] /\ screated = [k \in Kinds |-> {}]
    /\ sending = [k \in Kinds |-> {}]
    /\ sjob = [k \in Kinds |-> Nil]
    /\ skey = [k \in Kinds |-> Nil]
    /\ cpc = "idle" /\ cjob = Nil /\ cview = {} /\ cancels = 0
    /\ faults = 0
    /\ done = {} /\ purged = {} /\ reported = {}

Fault == faults < MaxFaults /\ faults' = faults + 1

RowsOf(j) == {r \in Rows : r[1] = j /\ status[r] \notin Row!Absent}

(* UpdateComplianceJob: the status of one job, whatever it was. *)
SetJob(j, st) == /\ jstatus' = [jstatus EXCEPT ![j] = st]
                 /\ jquiet' = jquiet \ {j}

SetRows(S, st) == status' = [r \in Rows |-> IF r \in S THEN st ELSE status[r]]

-----------------------------------------------------------------------------
(* CreateComplianceReportJobs, called by runScheduler ("scheduled") and by *)
(* RunBenchmarkById and RunBenchmark ("manual").  The scheduler waits for  *)
(* the interval to pass since the last job, a request does not wait.  The  *)
(* two other requests, which refuse while a job is running, are allowed    *)
(* less than these.                                                        *)

Created == {j \in Jobs : jstatus[j] # "NONE"}

(* GetLastComplianceJob; a job is triggered while the bound allows one *)
TriggerRead(k) ==
    /\ tpc[k] = "idle"
    /\ Cardinality(Created) + Cardinality({m \in Kinds : tpc[m] # "idle"}) < NJobs
    /\ tlast' = [tlast EXCEPT ![k] = Cardinality(Created)]
    /\ tpc' = [tpc EXCEPT ![k] = "purge"]
    /\ UNCHANGED <<jobVars, rowVars, sumVars, enqVars, cycVars, canVars, faults, reported>>

(* DeleteOldRunnerJob: every runner of the last job, done or not, and      *)
(* those older than 7 days, which only old jobs can have.                  *)
TriggerPurge(k) ==
    /\ tpc[k] = "purge"
    /\ \E ancient \in SUBSET jold :
          SetRows(UNION {RowsOf(j) : j \in (ancient \cup {tlast[k]}) \cap Jobs}, "DELETED")
    /\ tpc' = [tpc EXCEPT ![k] = "create"]
    /\ UNCHANGED <<jobVars, retry, sumVars, tlast, enqVars, cycVars, canVars,
                   faults, reported>>

(* CreateComplianceJob.  There is a job for each connection, and the       *)
(* runners of the same last job are deleted before each of them.           *)
TriggerCreate(k) ==
    /\ tpc[k] = "create"
    /\ LET j == Cardinality(Created) + 1
       IN  /\ jstatus' = [jstatus EXCEPT ![j] = "CREATED"]
           /\ trig' = [trig EXCEPT ![j] = k]
    /\ \/ /\ tpc' = [tpc EXCEPT ![k] = "idle"]
          /\ tlast' = [tlast EXCEPT ![k] = 0]
       \/ /\ Cardinality(Created) + Cardinality({m \in Kinds : tpc[m] # "idle"}) < NJobs
          /\ tpc' = [tpc EXCEPT ![k] = "purge"]
          /\ UNCHANGED tlast
    /\ UNCHANGED <<allQueued, jold, jquiet, rowVars, sumVars, enqVars, cycVars, canVars,
                   faults, reported>>

(* Either statement fails: the runners may be gone and no job be there. *)
TriggerFails(k) ==
    /\ tpc[k] # "idle" /\ Fault
    /\ tpc' = [tpc EXCEPT ![k] = "idle"]
    /\ tlast' = [tlast EXCEPT ![k] = 0]
    /\ UNCHANGED <<jobVars, rowVars, sumVars, enqVars, cycVars, canVars, reported>>

-----------------------------------------------------------------------------
(* enqueueRunnersCycle *)

(* ListComplianceJobsWithUnqueuedRunners *)
EnqueueList ==
    /\ epc = "idle"
    /\ etodo' = {j \in Jobs \ allQueued : jstatus[j] \in {"CREATED", "RUNNERS_IN_PROGRESS"}}
    /\ etodo' # {}
    /\ epc' = "read"
    /\ UNCHANGED <<jobVars, rowVars, sumVars, trgVars, ecur, emissing, cycVars, canVars,
                   faults, reported>>

(* Mutant: runners that exist are built again *)
EnqueueReadAll(j) ==
    /\ epc = "read" /\ j \in etodo
    /\ ecur' = j
    /\ etodo' = etodo \ {j}
    /\ emissing' \in {{}, Queries}
    /\ epc' = "write"
    /\ UNCHANGED <<jobVars, rowVars, sumVars, trgVars, cycVars, canVars, faults, reported>>

(* GetSources and buildRunners for the next job: which queries have no     *)
(* runner.  No source, no runner to build.                                 *)
EnqueueRead(j) ==
    /\ epc = "read" /\ j \in etodo
    /\ ecur' = j
    /\ etodo' = etodo \ {j}
    /\ emissing' \in {{}, {q \in Queries : status[<<j, q>>] \in Row!Absent}}
    /\ epc' = "write"
    /\ UNCHANGED <<jobVars, rowVars, sumVars, trgVars, cycVars, canVars, faults, reported>>

EnqueueNext == epc' = IF etodo = {} THEN "idle" ELSE "read"

(* CreateRunnerJobs, in one transaction, or else                           *)
(* UpdateComplianceJobAreAllRunnersQueued; the job's status is not read    *)
(* again.                                                                  *)
EnqueueWrite ==
    /\ epc = "write"
    /\ LET new == {<<ecur, q>> : q \in emissing}
       IN  \/ /\ emissing # {}
              /\ SetRows(new, "CREATED")
              /\ retry' = [r \in Rows |-> IF r \in new THEN 0 ELSE retry[r]]
              /\ UNCHANGED <<allQueued, jquiet>>
           \/ /\ emissing = {}
              /\ allQueued' = allQueued \cup {ecur}
              /\ jquiet' = jquiet \ {ecur}
              /\ UNCHANGED rowVars
    /\ EnqueueNext
    /\ ecur' = Nil /\ emissing' = {}
    /\ UNCHANGED <<jstatus, trig, jold, sumVars, trgVars, etodo, cycVars, canVars,
                   faults, reported>>

(* An error of GetSources leaves the job for the next cycle, any other     *)
(* error ends this one.                                                    *)
EnqueueFails ==
    /\ epc \in {"read", "write"} /\ Fault
    /\ ecur' = Nil /\ emissing' = {}
    /\ \/ epc = "read" /\ \E j \in etodo : etodo' = etodo \ {j}
       \/ etodo' = {}
    /\ epc' = IF etodo' = {} THEN "idle" ELSE "read"
    /\ UNCHANGED <<jobVars, rowVars, sumVars, trgVars, cycVars, canVars, reported>>

-----------------------------------------------------------------------------
(* runSummarizer(manuals), one goroutine for each trigger type.  The rows  *)
(* it lists are those of its own trigger type, except that both goroutines *)
(* promote, expire, finish and retry the jobs of either.                   *)

Goto(g, l) == spc' = [spc EXCEPT ![g] = l]

(* CREATED jobs that have runners; this statement does not touch updated_at *)
SetJobToRunnersInProgress(g) ==
    /\ spc[g] = "idle"
    /\ jstatus' = [j \in Jobs |-> IF jstatus[j] = "CREATED" /\ RowsOf(j) # {}
                                  THEN "RUNNERS_IN_PROGRESS" ELSE jstatus[j]]
    /\ Goto(g, "expire")
    /\ UNCHANGED <<trig, allQueued, jold, jquiet, rowVars, sumVars, trgVars, enqVars,
                   slisted, screated, sending, sjob, skey, canVars, faults, reported>>

(* Mutant: the status is not tested *)
ExpirableInAnyStatus == {j \in jold : jstatus[j] # "NONE"}

(* UpdateComplianceJobsTimedOut(24): not the jobs whose findings are sinking *)
Expirable == {j \in jold : jstatus[j] \in Running \ {"SINK_IN_PROGRESS"}}

ExpireJobs(g) ==
    /\ spc[g] = "expire"
    /\ jstatus' = [j \in Jobs |-> IF j \in Expirable THEN "TIMEOUT" ELSE jstatus[j]]
    /\ jquiet' = jquiet \ Expirable
    /\ Goto(g, "list")
    /\ UNCHANGED <<trig, allQueued, jold, rowVars, sumVars, trgVars, enqVars,
                   slisted, screated, sending, sjob, skey, canVars, faults, reported>>

(* Mutant: one completed runner is enough *)
SomeRunnerCompleted(j) == \E r \in RowsOf(j) : Row!Completed(status[r], retry[r])

(* ListJobsWithRunnersCompleted: every runner the job has now *)
RunnersCompleted(j) == \A r \in RowsOf(j) : Row!Completed(status[r], retry[r])

ListCompleted(g) ==
    /\ spc[g] = "list"
    /\ slisted' = [slisted EXCEPT ![g] =
          {[job |-> j, status |-> jstatus[j], quiet |-> j \in jquiet] :
             j \in {i \in allQueued : /\ jstatus[i] \in {"RUNNERS_IN_PROGRESS", "SINK_IN_PROGRESS"}
                                     /\ trig[i] = g
                                     /\ RunnersCompleted(i)}}]
    /\ Goto(g, IF slisted'[g] = {} THEN "fetch" ELSE "sink")
    /\ UNCHANGED <<jobVars, rowVars, sumVars, trgVars, enqVars, screated, sending, sjob, skey,
                   canVars, faults, reported>>

Unlist(g, x) == slisted' = [slisted EXCEPT ![g] = @ \ {x}]

NextListed(g, x) == Goto(g, IF slisted[g] = {x} THEN "fetch" ELSE "sink")

(* Not all findings are in the index, and the job was not sinking yet. *)
SinkBegin(g, x) ==
    /\ spc[g] = "sink" /\ x.status # "SINK_IN_PROGRESS"
    /\ SetJob(x.job, "SINK_IN_PROGRESS")
    /\ Unlist(g, x) /\ NextListed(g, x)
    /\ UNCHANGED <<trig, allQueued, jold, rowVars, sumVars, trgVars, enqVars,
                   screated, sending, sjob, skey, canVars, faults, reported>>

(* Mutant: a job whose findings do not sink waits for ever *)
SinkWaitForever(g, x) ==
    /\ spc[g] = "sink" /\ x.status = "SINK_IN_PROGRESS"
    /\ Unlist(g, x) /\ NextListed(g, x)
    /\ UNCHANGED <<jobVars, rowVars, sumVars, trgVars, enqVars, screated, sending, sjob, skey,
                   canVars, faults, reported>>

(* ... or it was, for less than 10 minutes. *)
SinkWait(g, x) ==
    /\ spc[g] = "sink" /\ x.status = "SINK_IN_PROGRESS" /\ ~x.quiet
    /\ Unlist(g, x) /\ NextListed(g, x)
    /\ UNCHANGED <<jobVars, rowVars, sumVars, trgVars, enqVars, screated, sending, sjob, skey,
                   canVars, faults, reported>>

(* All findings are in the index, or 10 minutes have passed. *)
SinkEnd(g, x) ==
    /\ spc[g] = "sink"
    /\ Unlist(g, x)
    /\ sjob' = [sjob EXCEPT ![g] = x.job]
    /\ Goto(g, "create")
    /\ UNCHANGED <<jobVars, rowVars, sumVars, trgVars, enqVars, screated, sending, skey,
                   canVars, faults, reported>>

(* CreateSummarizer: CreateSummarizerJob, and then UpdateComplianceJob *)
CreateSummarizer(g) ==
    /\ spc[g] = "create"
    /\ summ' = [summ EXCEPT ![sjob[g]] = Append(@, [status |-> "CREATED", retry |-> 0])]
    /\ Goto(g, "summarizing")
    /\ UNCHANGED <<jobVars, rowVars, squiet, smsgs, sresults, trgVars, enqVars,
                   slisted, screated, sending, sjob, skey, canVars, faults, reported>>

(* Mutant: the status of the job is not written *)
SetSummarizingForgotten(g) ==
    /\ spc[g] = "summarizing"
    /\ sjob' = [sjob EXCEPT ![g] = Nil]
    /\ Goto(g, IF slisted[g] = {} THEN "fetch" ELSE "sink")
    /\ UNCHANGED <<jobVars, rowVars, sumVars, trgVars, enqVars, slisted, screated,
                   sending, skey, canVars, faults, reported>>

SetSummarizing(g) ==
    /\ spc[g] = "summarizing"
    /\ SetJob(sjob[g], "SUMMARIZER_IN_PROGRESS")
    /\ sjob' = [sjob EXCEPT ![g] = Nil]
    /\ Goto(g, IF slisted[g] = {} THEN "fetch" ELSE "sink")
    /\ UNCHANGED <<trig, allQueued, jold, rowVars, sumVars, trgVars, enqVars,
                   slisted, screated, sending, skey, canVars, faults, reported>>

Keys == {x \in SummKey : x[2] <= Len(summ[x[1]])}
SummOf(x) == summ[x[1]][x[2]]

SetSumm(x, st) == /\ summ' = [summ EXCEPT ![x[1]][x[2]].status = st]
                  /\ squiet' = squiet \ {x}

(* FetchCreatedSummarizers *)
FetchSummarizers(g) ==
    /\ spc[g] = "fetch"
    /\ screated' = [screated EXCEPT ![g] =
          {x \in Keys : SummOf(x).status = "CREATED" /\ trig[x[1]] = g}]
    /\ Goto(g, IF screated'[g] = {} THEN "listEnded" ELSE "produce")
    /\ UNCHANGED <<jobVars, rowVars, sumVars, trgVars, enqVars, slisted, sending, sjob, skey,
                   canVars, faults, reported>>

(* An attempt is sent, and answered, a second time only after a fault, and *)
(* JetStream drops a message id it still remembers.                        *)
Duplicate == faults > 0

(* triggerSummarizer: the message first, IN_PROGRESS after it *)
ProduceSummarizer(g, x) ==
    /\ spc[g] = "produce"
    /\ \/ smsgs' = smsgs \cup {[key |-> x, attempt |-> SummOf(x).retry]}
       \/ Duplicate /\ UNCHANGED smsgs
    /\ screated' = [screated EXCEPT ![g] = @ \ {x}]
    /\ skey' = [skey EXCEPT ![g] = x]
    /\ Goto(g, "mark")
    /\ UNCHANGED <<jobVars, rowVars, summ, squiet, sresults, trgVars, enqVars,
                   slisted, sending, sjob, canVars, faults, reported>>

(* The call fails; the message may have been stored nevertheless. *)
ProduceFails(g, x) ==
    /\ spc[g] = "produce" /\ Fault
    /\ smsgs' \in {smsgs, smsgs \cup {[key |-> x, attempt |-> SummOf(x).retry]}}
    /\ SetSumm(x, "FAILED")
    /\ screated' = [screated EXCEPT ![g] = {}]
    /\ Goto(g, "idle")
    /\ UNCHANGED <<jobVars, rowVars, sresults, trgVars, enqVars,
                   slisted, sending, sjob, skey, canVars, reported>>

MarkSummarizer(g) ==
    /\ spc[g] = "mark"
    /\ SetSumm(skey[g], "IN_PROGRESS")
    /\ skey' = [skey EXCEPT ![g] = Nil]
    /\ Goto(g, IF screated[g] = {} THEN "listEnded" ELSE "produce")
    /\ UNCHANGED <<jobVars, rowVars, smsgs, sresults, trgVars, enqVars,
                   slisted, screated, sending, sjob, canVars, faults, reported>>

(* Mutant: a summarizer that is running counts as ended *)
SummEndedOrRunning(x) == SummOf(x).status \in {"IN_PROGRESS", "SUCCEEDED"}

(* ListJobsToFinish *)
SummEnded(x) == \/ SummOf(x).status = "SUCCEEDED"
                \/ SummOf(x).status = "FAILED" /\ SummOf(x).retry >= MaxRetries

ListEnded(g) ==
    /\ spc[g] = "listEnded"
    /\ sending' = [sending EXCEPT ![g] =
          {j \in Jobs : /\ jstatus[j] = "SUMMARIZER_IN_PROGRESS"
                        /\ \E x \in Keys : x[1] = j /\ SummEnded(x)}]
    /\ Goto(g, IF sending'[g] = {} THEN "retry" ELSE "finish")
    /\ UNCHANGED <<jobVars, rowVars, sumVars, trgVars, enqVars, slisted, screated, sjob, skey,
                   canVars, faults, reported>>

(* finishComplianceJob: a failed runner or summarizer fails the job *)
Verdict(j) == IF \/ \E r \in RowsOf(j) : status[r] = "FAILED"
                 \/ \E x \in Keys : x[1] = j /\ SummOf(x).status = "FAILED"
              THEN "fail" ELSE "succeed"

FinishRead(g, j) ==
    /\ spc[g] = "finish"
    /\ sjob' = [sjob EXCEPT ![g] = j]
    /\ sending' = [sending EXCEPT ![g] = @ \ {j}]
    /\ Goto(g, Verdict(j))
    /\ UNCHANGED <<jobVars, rowVars, sumVars, trgVars, enqVars, slisted, screated, skey,
                   canVars, faults, reported>>

FinishWrite(g) ==
    /\ spc[g] \in {"succeed", "fail"}
    /\ SetJob(sjob[g], IF spc[g] = "succeed" THEN "SUCCEEDED" ELSE "FAILED")
    /\ sjob' = [sjob EXCEPT ![g] = Nil]
    /\ Goto(g, IF sending[g] = {} THEN "retry" ELSE "finish")
    /\ UNCHANGED <<trig, allQueued, jold, rowVars, sumVars, trgVars, enqVars,
                   slisted, screated, sending, skey, canVars, faults, reported>>

(* Mutant: <= for < *)
RetryableOnceMore ==
    {x \in squiet \cap Keys : SummOf(x).status = "FAILED" /\ SummOf(x).retry <= MaxRetries}

(* RetryFailedSummarizers; this statement does not touch updated_at *)
Retryable == {x \in squiet \cap Keys : SummOf(x).status = "FAILED" /\ SummOf(x).retry < MaxRetries}

RetrySummarizers(g) ==
    /\ spc[g] = "retry"
    /\ summ' = [j \in Jobs |-> [k \in 1..Len(summ[j]) |->
                   IF <<j, k>> \in Retryable
                   THEN [status |-> "CREATED", retry |-> summ[j][k].retry + 1]
                   ELSE summ[j][k]]]
    /\ Goto(g, "idle")
    /\ UNCHANGED <<jobVars, rowVars, squiet, smsgs, sresults, trgVars, enqVars,
                   slisted, screated, sending, sjob, skey, canVars, faults, reported>>

(* A statement of the cycle, or the count of the findings in the index,    *)
(* returns an error: the cycle is over, unless it was ListJobsToFinish.    *)
CycleFails(g) ==
    /\ spc[g] # "idle" /\ Fault
    /\ Goto(g, IF spc[g] = "listEnded" THEN "retry" ELSE "idle")
    /\ slisted' = [slisted EXCEPT ![g] = {}] /\ screated' = [screated EXCEPT ![g] = {}]
    /\ sending' = [sending EXCEPT ![g] = {}]
    /\ sjob' = [sjob EXCEPT ![g] = Nil]
    /\ skey' = [skey EXCEPT ![g] = Nil]
    /\ UNCHANGED <<jobVars, rowVars, sumVars, trgVars, enqVars, canVars, reported>>

-----------------------------------------------------------------------------
(* The summarizer's worker, which acknowledges a message when it is done   *)
(* with it, and the consumer of its results.                               *)

SummarizerWork(m) ==
    /\ \/ \E st \in {"SUCCEEDED", "FAILED"} :
             sresults' = sresults \cup {[key |-> m.key, attempt |-> m.attempt, status |-> st]}
       \/ Duplicate /\ UNCHANGED sresults
    /\ smsgs' = smsgs \ {m}
    /\ UNCHANGED <<jobVars, rowVars, summ, squiet, trgVars, enqVars, cycVars, canVars,
                   faults, reported>>

(* RunComplianceSummarizerResultsConsumer, which writes and then acknowledges *)
SummarizerResult(m) ==
    /\ SetSumm(m.key, m.status)
    /\ sresults' = sresults \ {m}
    /\ reported' = reported \cup {m.key[1]}
    /\ UNCHANGED <<jobVars, rowVars, smsgs, trgVars, enqVars, cycVars, canVars, faults>>

(* A message or a result is lost, or the worker cannot publish its result. *)
SummarizerLost ==
    /\ Fault
    /\ \/ \E m \in smsgs : smsgs' = smsgs \ {m} /\ UNCHANGED sresults
       \/ \E m \in sresults : sresults' = sresults \ {m} /\ UNCHANGED smsgs
    /\ UNCHANGED <<jobVars, rowVars, summ, squiet, trgVars, enqVars, cycVars, canVars,
                   reported>>

-----------------------------------------------------------------------------
(* CancelJobById and CancelJob.  Deleting a runner's message and writing   *)
(* CANCELED to its row, two steps in ComplianceRunner, are one step here.  *)

CancelRead(j) ==
    /\ cpc = "idle" /\ cancels < MaxCancels
    /\ cancels' = cancels + 1
    /\ cpc' = CASE jstatus[j] = "CREATED"             -> "job"
                 [] jstatus[j] = "RUNNERS_IN_PROGRESS" -> "rows"
    /\ cjob' = j
    /\ UNCHANGED <<jobVars, rowVars, sumVars, trgVars, enqVars, cycVars, cview, faults,
                   reported>>

Cancelable(j) == jstatus[j] \in {"CREATED", "RUNNERS_IN_PROGRESS"}

CancelEnd == cpc' = "idle" /\ cjob' = Nil

(* A job that has no runners is canceled, one none of whose runners is     *)
(* waiting is not.                                                         *)
CancelRows ==
    /\ cpc = "rows"
    /\ cview' = {<<r[2], status[r]>> : r \in {x \in RowsOf(cjob) : status[x] \in Row!Waiting}}
    /\ \/ RowsOf(cjob) = {} /\ cpc' = "job" /\ UNCHANGED cjob
       \/ RowsOf(cjob) # {} /\ cview' # {} /\ cpc' = "scan" /\ UNCHANGED cjob
       \/ RowsOf(cjob) # {} /\ cview' = {} /\ CancelEnd
    /\ UNCHANGED <<jobVars, rowVars, sumVars, trgVars, enqVars, cycVars, cancels, faults,
                   reported>>

CancelRow(x) ==
    /\ cpc = "scan"
    /\ SetRows({<<cjob, x[1]>>} \cap RowsOf(cjob), "CANCELED")
    /\ cview' = cview \ {x}
    /\ cpc' = IF cview = {x} THEN "job" ELSE "scan"
    /\ UNCHANGED <<jobVars, retry, sumVars, trgVars, enqVars, cycVars, cjob, cancels,
                   faults, reported>>

(* The message of a queued runner is gone: CancelJobById answers with the  *)
(* error, CancelJob only leaves the loop and cancels the job.              *)
CancelRowFails(x) ==
    /\ cpc = "scan" /\ x[2] = "QUEUED"
    /\ cview' = {}
    /\ \/ CancelEnd
       \/ cpc' = "job" /\ UNCHANGED cjob
    /\ UNCHANGED <<jobVars, rowVars, sumVars, trgVars, enqVars, cycVars, cancels, faults,
                   reported>>

CancelJob ==
    /\ cpc = "job"
    /\ SetJob(cjob, "CANCELED")
    /\ CancelEnd
    /\ UNCHANGED <<trig, allQueued, jold, rowVars, sumVars, trgVars, enqVars, cycVars,
                   cview, cancels, faults, reported>>

-----------------------------------------------------------------------------
(* The rest of the system, and time. *)

(* Publisher, worker and consumer: any step of RunnerLifecycle but the     *)
(* ones that are taken above.                                              *)
RunnerMoves(r) ==
    /\ \E st \in RunnerEnds \cup {"CREATED"}, n \in {retry[r], retry[r] + 1} :
          /\ \/ Row!Requeue(status[r], retry[r], st, n)
             \/ Row!Expire(status[r], retry[r], st, n)
             \/ Row!Mark(status[r], retry[r], st, n)
          /\ status' = [status EXCEPT ![r] = st]
          /\ retry' = [retry EXCEPT ![r] = n]
    /\ UNCHANGED <<jobVars, sumVars, trgVars, enqVars, cycVars, canVars, faults,
                   reported>>

(* The scheduler restarts: its goroutines and its requests start over. *)
Restart ==
    /\ Fault
    /\ tpc' = [k \in Kinds |-> "idle"] /\ tlast' = [k \in Kinds |-> 0]
    /\ epc' = "idle" /\ etodo' = {} /\ ecur' = Nil /\ emissing' = {}
    /\ spc' = [k \in Kinds |-> "idle"]
    /\ slisted' = [k \in Kinds |-> {}] /\ screated' = [k \in Kinds |-> {}]
    /\ sending' = [k \in Kinds |-> {}]
    /\ sjob' = [k \in Kinds |-> Nil]
    /\ skey' = [k \in Kinds |-> Nil]
    /\ CancelEnd /\ cview' = {}
    /\ UNCHANGED <<jobVars, rowVars, sumVars, cancels, reported>>

JobAges(j) ==
    /\ j \notin jold /\ jstatus[j] \in Running
    /\ jold' = jold \cup {j}
    /\ UNCHANGED <<jstatus, trig, allQueued, jquiet, rowVars, sumVars, trgVars, enqVars,
                   cycVars, canVars, faults, reported>>

JobRests(j) ==
    /\ j \notin jquiet /\ jstatus[j] = "SINK_IN_PROGRESS"
    /\ jquiet' = jquiet \cup {j}
    /\ UNCHANGED <<jstatus, trig, allQueued, jold, rowVars, sumVars, trgVars, enqVars,
                   cycVars, canVars, faults, reported>>

SummarizerRests(x) ==
    /\ x \notin squiet /\ SummOf(x).status = "FAILED"
    /\ squiet' = squiet \cup {x}
    /\ UNCHANGED <<jobVars, rowVars, summ, smsgs, sresults, trgVars, enqVars, cycVars, canVars,
                   faults, reported>>

Time == \/ \E j \in Jobs : JobAges(j) \/ JobRests(j)
        \/ \E x \in Keys : SummarizerRests(x)

TriggerJob(k) == TriggerRead(k) \/ TriggerPurge(k) \/ TriggerCreate(k)

Enqueue == EnqueueList \/ (\E j \in etodo : EnqueueRead(j)) \/ EnqueueWrite

Sink(g) == \E x \in slisted[g] : SinkBegin(g, x) \/ SinkWait(g, x) \/ SinkEnd(g, x)

Summarize(g) ==
    \/ SetJobToRunnersInProgress(g) \/ ExpireJobs(g) \/ ListCompleted(g) \/ Sink(g)
    \/ CreateSummarizer(g) \/ SetSummarizing(g)
    \/ FetchSummarizers(g) \/ (\E x \in screated[g] : ProduceSummarizer(g, x))
    \/ MarkSummarizer(g)
    \/ ListEnded(g) \/ (\E j \in sending[g] : FinishRead(g, j)) \/ FinishWrite(g)
    \/ RetrySummarizers(g)

Summarizers == \/ \E m \in smsgs : SummarizerWork(m)
               \/ \E m \in sresults : SummarizerResult(m)

Cancel == \/ \E j \in Jobs : Cancelable(j) /\ CancelRead(j)
          \/ CancelRows
          \/ \E x \in cview : CancelRow(x) \/ CancelRowFails(x)
          \/ CancelJob

(* What the history variables done and purged record of a step. *)
Observe ==
    /\ done' = {r \in Rows : \/ Row!Completed(status'[r], retry'[r])
                             \/ r \in done /\ ~(status[r] \in Row!Absent /\ status'[r] = "CREATED")}
    /\ purged' = purged \cup {r[1] : r \in {x \in Rows : status[x] # "DELETED" /\ status'[x] = "DELETED"}}

Step == \/ \E k \in Kinds : TriggerJob(k) \/ Summarize(k)
        \/ \E g \in Kinds : TriggerFails(g) \/ CycleFails(g) \/ \E x \in screated[g] : ProduceFails(g, x)
        \/ Enqueue \/ EnqueueFails
        \/ Summarizers \/ SummarizerLost
        \/ Cancel
        \/ \E r \in Rows : RunnerMoves(r)
        \/ Restart \/ Time

Next == Step /\ Observe

Spec == Init /\ [][Next]_vars

(* The scheduler's goroutines run on tickers, results are consumed, time   *)
(* passes.  Nothing is assumed of the summarizer's workers.                *)
Fairness == /\ WF_vars(Enqueue /\ Observe)
            /\ \A g \in Kinds : WF_vars(Summarize(g) /\ Observe)
            /\ WF_vars((\E m \in sresults : SummarizerResult(m)) /\ Observe)
            /\ WF_vars((\E k \in Kinds : TriggerPurge(k) \/ TriggerCreate(k)) /\ Observe)
            /\ WF_vars((CancelRows \/ (\E x \in cview : CancelRow(x)) \/ CancelJob) /\ Observe)
            /\ \A j \in Jobs : WF_vars(JobAges(j) /\ Observe) /\ WF_vars(JobRests(j) /\ Observe)
            /\ \A x \in SummKey : WF_vars(x \in Keys /\ SummarizerRests(x) /\ Observe)

FairSpec == Spec /\ Fairness

-----------------------------------------------------------------------------
(* Properties. *)

(* A job is summarized only when each of its queries has had a runner that *)
(* was done - succeeded, timed out, or failed for the last time - unless a *)
(* newer job deleted its runners.                                          *)
SummaryAfterRunners ==
    \A j \in Jobs \ purged :
        summ[j] # <<>> => \A q \in Queries : <<j, q>> \in done

(* A job gets one summarizer, and one more at most for each restart or     *)
(* failed statement between creating it and writing the job's status.      *)
OneSummarizer == \A j \in Jobs : Len(summ[j]) <= 1 + faults

(* A job succeeds only after a summarizer of it has reported its end. *)
SuccessIsReported ==
    \A j \in Jobs : jstatus[j] = "SUCCEEDED" => j \in reported

(* A goroutine or request that read job j and will write its status. *)
HoldsJob(j) == \/ \E g \in Kinds : sjob[g] = j \/ \E x \in slisted[g] : x.job = j
               \/ cjob = j

(* A job that has ended changes its status only by the write of someone    *)
(* who read it before it ended: no statement that looks at the status      *)
(* takes an ended job up again.                                            *)
EndIsFinal ==
    [][\A j \in Jobs :
          jstatus[j] \in Terminal /\ jstatus'[j] # jstatus[j] => HoldsJob(j)]_vars

(* Every job ends, if its runners come to rest (RunnersSettle of           *)
(* ComplianceRunner): a job without runners, one whose findings never sink *)
(* and one whose summarizer is lost included.                              *)
JobsEnd ==
    (\A r \in Rows : <>[]Row!Settled(status[r], retry[r])) =>
        \A j \in Jobs : <>[](jstatus[j] \in Terminal \cup {"NONE"})

(* With cancel requests there is one way left for a job not to end: it     *)
(* keeps sinking behind a runner that was canceled.  ListJobsWithRunners-  *)
(* Completed does not count that runner as completed, and the 24 hours of  *)
(* UpdateComplianceJobsTimedOut do not apply to SINK_IN_PROGRESS.          *)
StuckBehindCancel(j) == /\ jstatus[j] = "SINK_IN_PROGRESS"
                        /\ \E r \in RowsOf(j) : status[r] = "CANCELED"

OnlyCancelBlocks ==
    (\A r \in Rows : <>[]Row!Settled(status[r], retry[r])) =>
        \A j \in Jobs : \/ <>[](jstatus[j] \in Terminal \cup {"NONE"})
                        \/ <>[]StuckBehindCancel(j)

(* The rows of the runners take no step RunnerLifecycle does not allow. *)
RowsFollowLifecycle == Row!LifecycleSpec
=============================================================================
