------------------------- MODULE ComplianceJobProofs --------------------------
(***************************************************************************)
(* Proofs about ComplianceJob, for every number of jobs, queries, trigger  *)
(* types, retries, cancel requests and faults.                             *)
(***************************************************************************)
EXTENDS ComplianceJob, FiniteSetTheorems, SequenceTheorems, TLAPS

USE DEF jobVars, rowVars, sumVars, trgVars, enqVars, cycVars, canVars, Fault

(* What the goroutines hold in local variables, where they use it. *)
LocalsInv ==
    /\ epc = "write" => ecur \in Jobs
    /\ cpc # "idle" => cjob \in Jobs
    /\ \A g \in Kinds :
          /\ spc[g] \in {"create", "summarizing", "succeed", "fail"} => sjob[g] \in Jobs
          /\ spc[g] = "mark" => skey[g] \in Keys
          /\ screated[g] \subseteq Keys
    /\ \A m \in smsgs \cup sresults : m.key \in Keys

(* There are never more jobs than the bound. *)
LEMMA CreatedBound == Cardinality(Created) \in 0..NJobs
<1>1. IsFiniteSet(Jobs) /\ Cardinality(Jobs) = NJobs
  BY FS_Interval, NJobsAssumption DEF Jobs
<1>2. IsFiniteSet(Created) /\ Cardinality(Created) <= Cardinality(Jobs)
  BY <1>1, FS_Subset DEF Created
<1>3. Cardinality(Created) \in Nat
  BY <1>2, FS_CardinalityType
<1> QED  BY <1>1, <1>2, <1>3, NJobsAssumption

(* SetSumm writes the status of one row and leaves the number of rows. *)
LEMMA SetSummFacts ==
    ASSUME TypeOK, NEW x \in Keys, NEW st \in SummStatus, SetSumm(x, st)
    PROVE  /\ summ' \in [Jobs -> Seq(Summarizer)]
           /\ \A j \in Jobs : Len(summ'[j]) = Len(summ[j])
           /\ Keys' = Keys
           /\ \A y \in Keys : /\ SummOf(y)'.retry = SummOf(y).retry
                              /\ SummOf(y)'.status = IF y = x THEN st ELSE SummOf(y).status
           /\ squiet' \subseteq SummKey
<1> DEFINE j == x[1]
           k == x[2]
           new == [summ[j] EXCEPT ![k].status = st]
<1>1. /\ x \in SummKey /\ j \in Jobs /\ k \in 1..Len(summ[j])
      /\ summ \in [Jobs -> Seq(Summarizer)] /\ summ[j] \in Seq(Summarizer)
  <2>1. x \in SummKey /\ x[2] <= Len(summ[x[1]])
    BY DEF Keys
  <2>2. x[1] \in Jobs /\ x[2] \in 1..(1 + MaxFaults)
    BY <2>1 DEF SummKey
  <2>3. x[2] \in Nat /\ x[2] >= 1
    BY <2>2, JobBounds
  <2>4. summ \in [Jobs -> Seq(Summarizer)]
    BY DEF TypeOK
  <2>5. Len(summ[x[1]]) \in Nat
    BY <2>2, <2>4, LenProperties
  <2> QED  BY <2>1, <2>2, <2>3, <2>4, <2>5
<1>2. [summ[j][k] EXCEPT !.status = st] \in Summarizer
  <2>1. summ[j][k] \in Summarizer
    BY <1>1, ElementOfSeq
  <2> QED  BY <2>1 DEF Summarizer
<1>3. new \in Seq(Summarizer) /\ Len(new) = Len(summ[j])
      /\ \A i \in 1..Len(new) : new[i] = IF i = k THEN [summ[j][k] EXCEPT !.status = st] ELSE summ[j][i]
  BY <1>1, <1>2, ExceptSeq
<1>4. summ' = [summ EXCEPT ![j] = new]
  BY DEF SetSumm
<1> HIDE DEF new
<1>5. summ' \in [Jobs -> Seq(Summarizer)] /\ \A i \in Jobs : Len(summ'[i]) = Len(summ[i])
  BY <1>1, <1>3, <1>4
<1>6. Keys' = Keys
  BY <1>5 DEF Keys, SummKey
<1>7. ASSUME NEW y \in Keys
      PROVE  /\ SummOf(y)'.retry = SummOf(y).retry
             /\ SummOf(y)'.status = IF y = x THEN st ELSE SummOf(y).status
  <2>1. y[1] \in Jobs /\ y[2] \in 1..Len(summ[y[1]])
    <3>1. y \in SummKey /\ y[2] <= Len(summ[y[1]])
      BY DEF Keys
    <3>2. y[1] \in Jobs /\ y[2] \in Nat /\ y[2] >= 1
      BY <3>1, JobBounds DEF SummKey
    <3>3. Len(summ[y[1]]) \in Nat
      BY <1>1, <3>2, LenProperties
    <3> QED  BY <3>1, <3>2, <3>3
  <2>2. y = x <=> y[1] = j /\ y[2] = k
    BY <1>1 DEF Keys, SummKey
  <2>3. summ[y[1]][y[2]] \in Summarizer
    BY <1>1, <2>1, ElementOfSeq
  <2>4. CASE y = x
    <3>1. summ'[j][k] = [summ[j][k] EXCEPT !.status = st]
      BY <1>1, <1>3, <1>4
    <3> QED  BY <2>3, <2>4, <3>1 DEF SummOf, Summarizer
  <2>5. CASE y # x
    <3>1. summ'[y[1]][y[2]] = summ[y[1]][y[2]]
      BY <1>1, <1>3, <1>4, <2>1, <2>2, <2>5
    <3> QED  BY <2>5, <3>1 DEF SummOf
  <2> QED  BY <2>4, <2>5
<1>8. squiet' \subseteq SummKey
  BY DEF TypeOK, SetSumm
<1> QED  BY <1>5, <1>6, <1>7, <1>8

(* A new summarizer is one more row of its job, and the other rows stay.   *)
LEMMA CreateFacts ==
    ASSUME TypeOK, LocalsInv, NEW g \in Kinds, CreateSummarizer(g)
    PROVE  /\ summ' \in [Jobs -> Seq(Summarizer)]
           /\ \A j \in Jobs : Len(summ'[j]) = IF j = sjob[g] THEN Len(summ[j]) + 1 ELSE Len(summ[j])
           /\ Keys \subseteq Keys'
           /\ \A y \in Keys : SummOf(y)' = SummOf(y)
           /\ \A y \in Keys' \ Keys : y[1] = sjob[g] /\ SummOf(y)'.status = "CREATED"
<1> DEFINE j == sjob[g]
           row == [status |-> "CREATED", retry |-> 0]
           new == Append(summ[j], row)
<1>1. j \in Jobs /\ summ \in [Jobs -> Seq(Summarizer)] /\ row \in Summarizer
  <2>1. j \in Jobs
    BY DEF LocalsInv, CreateSummarizer
  <2>2. row \in Summarizer
    BY JobBounds DEF Summarizer, SummStatus
  <2> QED  BY <2>1, <2>2 DEF TypeOK
<1>2. /\ new \in Seq(Summarizer) /\ Len(new) = Len(summ[j]) + 1
      /\ \A i \in 1..Len(summ[j]) : new[i] = summ[j][i]
      /\ new[Len(summ[j]) + 1] = row
  BY <1>1, AppendProperties
<1>3. summ' = [summ EXCEPT ![j] = new]
  BY DEF CreateSummarizer
<1>4. \A i \in Jobs : Len(summ[i]) \in Nat
  BY <1>1, LenProperties
<1> HIDE DEF new, row
<1>5. /\ summ' \in [Jobs -> Seq(Summarizer)]
      /\ \A i \in Jobs : Len(summ'[i]) = IF i = j THEN Len(summ[i]) + 1 ELSE Len(summ[i])
  BY <1>1, <1>2, <1>3
<1>6. Keys \subseteq Keys'
  BY <1>4, <1>5, JobBounds DEF Keys, SummKey
<1>7. ASSUME NEW y \in Keys
      PROVE  SummOf(y)' = SummOf(y)
  <2>1. y[1] \in Jobs /\ y[2] \in 1..Len(summ[y[1]])
    BY <1>4, JobBounds DEF Keys, SummKey
  <2> QED  BY <1>1, <1>2, <1>3, <2>1 DEF SummOf
<1>8. ASSUME NEW y \in Keys' \ Keys
      PROVE  y[1] = j /\ SummOf(y)'.status = "CREATED"
  <2>1. y \in SummKey /\ y[2] <= Len(summ'[y[1]]) /\ ~(y[2] <= Len(summ[y[1]]))
    BY DEF Keys, SummKey
  <2>2. y[1] \in Jobs /\ y[2] \in Nat
    BY <2>1, JobBounds DEF SummKey
  <2>3. y[1] = j /\ y[2] = Len(summ[j]) + 1
    BY <1>1, <1>4, <1>5, <2>1, <2>2
  <2>4. SummOf(y)' = row
    BY <1>1, <1>2, <1>3, <2>3 DEF SummOf
  <2> QED  BY <2>3, <2>4 DEF row
<1> QED  BY <1>5, <1>6, <1>7, <1>8

(* A retry writes the failed rows that have tries left. *)
LEMMA RetryFacts ==
    ASSUME TypeOK, NEW g \in Kinds, RetrySummarizers(g)
    PROVE  /\ summ' \in [Jobs -> Seq(Summarizer)]
           /\ \A j \in Jobs : Len(summ'[j]) = Len(summ[j])
           /\ Keys' = Keys
           /\ \A y \in Keys : \/ SummOf(y)' = SummOf(y)
                              \/ /\ SummOf(y).status = "FAILED" /\ SummOf(y).retry < MaxRetries
                                 /\ SummOf(y)'.status = "CREATED"
<1> DEFINE row(j, k) == IF <<j, k>> \in Retryable
                        THEN [status |-> "CREATED", retry |-> summ[j][k].retry + 1]
                        ELSE summ[j][k]
           new(j) == [k \in 1..Len(summ[j]) |-> row(j, k)]
<1>1. summ \in [Jobs -> Seq(Summarizer)] /\ \A j \in Jobs : Len(summ[j]) \in Nat
  <2>1. summ \in [Jobs -> Seq(Summarizer)]
    BY DEF TypeOK
  <2> QED  BY <2>1, LenProperties
<1>2. ASSUME NEW j \in Jobs, NEW k \in 1..Len(summ[j])
      PROVE  row(j, k) \in Summarizer
  <2>1. summ[j][k] \in Summarizer
    BY <1>1, ElementOfSeq
  <2>2. <<j, k>> \in Retryable =>
           summ[j][k].status = "FAILED" /\ summ[j][k].retry < MaxRetries
    BY DEF Retryable, SummOf
  <2> QED  BY <2>1, <2>2, JobBounds DEF Summarizer, SummStatus
<1>3. summ' = [j \in Jobs |-> new(j)]
  BY DEF RetrySummarizers
<1>4. ASSUME NEW j \in Jobs
      PROVE  new(j) \in Seq(Summarizer) /\ Len(new(j)) = Len(summ[j])
  <2> HIDE DEF row
  <2>1. new(j) \in [1..Len(summ[j]) -> Summarizer]
    BY <1>2
  <2>2. new(j) \in Seq(Summarizer)
    BY <1>1, <2>1, SeqDef
  <2>3. DOMAIN new(j) = 1..Len(summ[j]) /\ DOMAIN new(j) = 1..Len(new(j)) /\ Len(new(j)) \in Nat
    BY <2>1, <2>2, LenProperties
  <2> QED  BY <1>1, <2>2, <2>3
<1>5. /\ summ' \in [Jobs -> Seq(Summarizer)]
      /\ \A j \in Jobs : Len(summ'[j]) = Len(summ[j])
  <2> HIDE DEF new
  <2> QED  BY <1>3, <1>4
<1>6. Keys' = Keys
  BY <1>5 DEF Keys, SummKey
<1>7. ASSUME NEW y \in Keys
      PROVE  \/ SummOf(y)' = SummOf(y)
             \/ /\ SummOf(y).status = "FAILED" /\ SummOf(y).retry < MaxRetries
                /\ SummOf(y)'.status = "CREATED"
  <2>1. y[1] \in Jobs /\ y[2] \in 1..Len(summ[y[1]]) /\ y = <<y[1], y[2]>>
    BY <1>1, JobBounds DEF Keys, SummKey
  <2>2. SummOf(y)' = row(y[1], y[2])
    <3> HIDE DEF row
    <3> QED  BY <1>3, <2>1 DEF SummOf
  <2> QED  BY <2>1, <2>2 DEF Retryable, SummOf
<1> QED  BY <1>5, <1>6, <1>7

(* The types and the locals, action by action. *)
IInv == TypeOK /\ LocalsInv

(* CreateComplianceReportJobs *)
TriggerAct(k) ==
    \/ TriggerRead(k)
    \/ TriggerPurge(k)
    \/ TriggerCreate(k)
    \/ TriggerFails(k)

(* enqueueRunnersCycle *)
EnqueueAct(j) ==
    \/ EnqueueList
    \/ EnqueueRead(j)
    \/ EnqueueWrite
    \/ EnqueueFails

(* CancelJobById and CancelJob *)
CancelAct(j, x) ==
    \/ j \in Jobs /\ Cancelable(j) /\ CancelRead(j)
    \/ CancelRows
    \/ x \in cview /\ CancelRow(x)
    \/ CancelRowFails(x)
    \/ CancelJob

(* The runners, a restart of the scheduler, and time. *)
OtherAct(r, j, x) ==
    \/ r \in Rows /\ RunnerMoves(r)
    \/ Restart
    \/ j \in Jobs /\ JobAges(j)
    \/ j \in Jobs /\ JobRests(j)
    \/ x \in Keys /\ SummarizerRests(x)

(* The summarizer's worker, and the consumer of its results. *)
SummarizerAct(m) ==
    \/ m \in smsgs /\ SummarizerWork(m)
    \/ m \in sresults /\ SummarizerResult(m)
    \/ SummarizerLost

(* runSummarizer: the jobs whose runners are completed *)
ListAct(g, x) ==
    \/ SetJobToRunnersInProgress(g)
    \/ ExpireJobs(g)
    \/ ListCompleted(g)
    \/ x \in slisted[g] /\ SinkBegin(g, x)
    \/ x \in slisted[g] /\ SinkWait(g, x)
    \/ x \in slisted[g] /\ SinkEnd(g, x)
    \/ CreateSummarizer(g)
    \/ SetSummarizing(g)

(* runSummarizer: the summarizers that are to be sent *)
SendAct(g, x) ==
    \/ FetchSummarizers(g)
    \/ x \in screated[g] /\ ProduceSummarizer(g, x)
    \/ x \in screated[g] /\ ProduceFails(g, x)
    \/ MarkSummarizer(g)

(* runSummarizer: the jobs whose summarizers have ended *)
FinishAct(g, j) ==
    \/ ListEnded(g)
    \/ j \in sending[g] /\ FinishRead(g, j)
    \/ FinishWrite(g)
    \/ RetrySummarizers(g)
    \/ CycleFails(g)

(* Observe only writes the history. *)
LEMMA ObserveType ==
    ASSUME TypeOK, Observe
    PROVE  done' \subseteq Rows /\ purged' \subseteq Jobs
BY DEF TypeOK, Observe, Rows

(* Statements that write no summarizer leave the keys. *)
LEMMA KeysSame ==
    ASSUME summ' = summ
    PROVE  Keys' = Keys /\ \A y \in Keys : SummOf(y)' = SummOf(y)
BY DEF Keys, SummOf

(* The local variables of the two cycles are functions. *)
LEMMA CycleTyped ==
    ASSUME IInv
    PROVE  /\ spc \in [Kinds -> CyclePc] /\ slisted \in [Kinds -> SUBSET Listed]
           /\ screated \in [Kinds -> SUBSET SummKey] /\ sending \in [Kinds -> SUBSET Jobs]
           /\ sjob \in [Kinds -> Jobs \cup {Nil}] /\ skey \in [Kinds -> SummKey \cup {Nil}]
BY DEF IInv, TypeOK

(* What a key refers to is a row. *)
LEMMA KeyType ==
    ASSUME TypeOK, NEW x \in Keys
    PROVE  SummOf(x) \in Summarizer /\ SummOf(x).retry \in 0..MaxRetries
<1>1. x[1] \in Jobs /\ x[2] \in 1..(1 + MaxFaults) /\ x[2] <= Len(summ[x[1]])
  BY DEF Keys, SummKey
<1>2. summ[x[1]] \in Seq(Summarizer)
  BY <1>1 DEF TypeOK
<1>3. x[2] \in 1..Len(summ[x[1]])
  BY <1>1, <1>2, LenProperties, JobBounds
<1>4. SummOf(x) \in Summarizer
  BY <1>2, <1>3, ElementOfSeq DEF SummOf
<1> QED  BY <1>4 DEF Summarizer

(* CreateComplianceReportJobs *)
LEMMA TriggerType ==
    ASSUME IInv, done' \subseteq Rows, purged' \subseteq Jobs, NEW k \in Kinds, TriggerAct(k)
    PROVE  IInv'
<1>1. CASE TriggerRead(k)
  <2>1. TypeOK'
    BY <1>1, CreatedBound DEF IInv, TypeOK, TriggerRead
  <2>2. LocalsInv'
    BY <1>1, KeysSame DEF IInv, LocalsInv, TriggerRead
  <2> QED  BY <2>1, <2>2 DEF IInv
<1>2. CASE TriggerPurge(k)
  <2>1. TypeOK'
    BY <1>2 DEF IInv, TypeOK, TriggerPurge, SetRows, RowsOf, Row!RunnerStatus, Row!Absent, Row!Live, Row!Waiting
  <2>2. LocalsInv'
    BY <1>2, KeysSame DEF IInv, LocalsInv, TriggerPurge
  <2> QED  BY <2>1, <2>2 DEF IInv
<1>3. CASE TriggerCreate(k)
  <2>0. jstatus' \in [Jobs -> JobStatus] /\ trig' \in [Jobs -> Kinds]
    <3>1. PICK i : /\ jstatus' = [jstatus EXCEPT ![i] = "CREATED"]
                   /\ trig' = [trig EXCEPT ![i] = k]
      BY <1>3 DEF TriggerCreate
    <3> QED  BY <3>1 DEF IInv, TypeOK, JobStatus, Running
  <2>3. /\ tpc' \in [Kinds -> {"idle", "purge", "create"}] /\ tlast' \in [Kinds -> 0..NJobs]
        /\ UNCHANGED <<allQueued, jold, jquiet, rowVars, sumVars, enqVars, cycVars, canVars,
                       faults, reported>>
    <3>1. tlast' \in {tlast, [tlast EXCEPT ![k] = 0]}
          /\ tpc' \in {[tpc EXCEPT ![k] = "idle"], [tpc EXCEPT ![k] = "purge"]}
      BY <1>3 DEF TriggerCreate
    <3>2. tlast' \in [Kinds -> 0..NJobs]
      <4>1. tlast \in [Kinds -> 0..NJobs] /\ 0 \in 0..NJobs
        BY NJobsAssumption DEF IInv, TypeOK
      <4> QED  BY <3>1, <4>1
    <3>3. tpc' \in [Kinds -> {"idle", "purge", "create"}]
      BY <3>1 DEF IInv, TypeOK
    <3> QED  BY <1>3, <3>2, <3>3 DEF TriggerCreate
  <2>1. TypeOK'
    BY <1>3, <2>0, <2>3 DEF IInv, TypeOK
  <2>2. LocalsInv'
    BY <1>3, KeysSame DEF IInv, LocalsInv, TriggerCreate
  <2> QED  BY <2>1, <2>2 DEF IInv
<1>4. CASE TriggerFails(k)
  <2>1. TypeOK'
    BY <1>4, NJobsAssumption, JobBounds DEF IInv, TypeOK, TriggerFails
  <2>2. LocalsInv'
    BY <1>4, KeysSame DEF IInv, LocalsInv, TriggerFails
  <2> QED  BY <2>1, <2>2 DEF IInv
<1> QED  BY <1>1, <1>2, <1>3, <1>4 DEF TriggerAct

(* enqueueRunnersCycle *)
LEMMA EnqueueType ==
    ASSUME IInv, done' \subseteq Rows, purged' \subseteq Jobs, NEW j, EnqueueAct(j)
    PROVE  IInv'
<1>1. CASE EnqueueList
  <2>1. TypeOK'
    BY <1>1 DEF IInv, TypeOK, EnqueueList
  <2>2. LocalsInv'
    BY <1>1, KeysSame DEF IInv, LocalsInv, EnqueueList
  <2> QED  BY <2>1, <2>2 DEF IInv
<1>2. CASE EnqueueRead(j)
  <2>1. TypeOK'
    BY <1>2 DEF IInv, TypeOK, EnqueueRead
  <2>2. LocalsInv'
    BY <1>2, KeysSame DEF IInv, LocalsInv, EnqueueRead, TypeOK
  <2> QED  BY <2>1, <2>2 DEF IInv
<1>3. CASE EnqueueWrite
  <2>0. status' \in [Rows -> Row!RunnerStatus] /\ retry' \in [Rows -> 0..MaxRetries]
    <3>1. "CREATED" \in Row!RunnerStatus /\ 0 \in 0..MaxRetries
      BY JobBounds DEF Row!RunnerStatus, Row!Live, Row!Waiting
    <3>2. status \in [Rows -> Row!RunnerStatus] /\ retry \in [Rows -> 0..MaxRetries]
      BY DEF IInv, TypeOK
    <3> QED  BY <1>3, <3>1, <3>2 DEF EnqueueWrite, SetRows
  <2>1. TypeOK'
    BY <1>3, <2>0 DEF IInv, TypeOK, EnqueueWrite, EnqueueNext, LocalsInv
  <2>2. LocalsInv'
    BY <1>3, KeysSame DEF IInv, LocalsInv, EnqueueWrite, EnqueueNext
  <2> QED  BY <2>1, <2>2 DEF IInv
<1>4. CASE EnqueueFails
  <2>1. TypeOK'
    BY <1>4, JobBounds DEF IInv, TypeOK, EnqueueFails
  <2>2. LocalsInv'
    BY <1>4, KeysSame DEF IInv, LocalsInv, EnqueueFails
  <2> QED  BY <2>1, <2>2 DEF IInv
<1> QED  BY <1>1, <1>2, <1>3, <1>4 DEF EnqueueAct

(* CancelJobById and CancelJob *)
LEMMA CancelType ==
    ASSUME IInv, done' \subseteq Rows, purged' \subseteq Jobs, NEW j, NEW x, CancelAct(j, x)
    PROVE  IInv'
<1>1. CASE j \in Jobs /\ Cancelable(j) /\ CancelRead(j)
  <2>0. cpc' \in {"job", "rows"}
    BY <1>1 DEF Cancelable, CancelRead
  <2>3. /\ cancels' \in 0..MaxCancels /\ cjob' = j
        /\ UNCHANGED <<jobVars, rowVars, sumVars, trgVars, enqVars, cycVars, cview, faults,
                       reported>>
    BY <1>1, JobBounds DEF CancelRead, IInv, TypeOK
  <2>1. TypeOK'
    BY <1>1, <2>0, <2>3 DEF IInv, TypeOK
  <2>2. LocalsInv'
    BY <1>1, KeysSame DEF IInv, LocalsInv, CancelRead, CancelRead
  <2> QED  BY <2>1, <2>2 DEF IInv
<1>2. CASE CancelRows
  <2>0. cview' \subseteq Queries \X Row!Waiting
    <3>1. \A r \in RowsOf(cjob) : r[2] \in Queries
      BY DEF RowsOf, Rows
    <3> QED  BY <1>2, <3>1 DEF CancelRows
  <2>1. TypeOK'
    BY <1>2, <2>0 DEF IInv, TypeOK, CancelRows, CancelEnd
  <2>2. LocalsInv'
    BY <1>2, KeysSame DEF IInv, LocalsInv, CancelRows, CancelEnd
  <2> QED  BY <2>1, <2>2 DEF IInv
<1>3. CASE x \in cview /\ CancelRow(x)
  <2>1. TypeOK'
    BY <1>3 DEF IInv, TypeOK, CancelRow, SetRows, Row!RunnerStatus
  <2>2. LocalsInv'
    BY <1>3, KeysSame DEF IInv, LocalsInv, CancelRow
  <2> QED  BY <2>1, <2>2 DEF IInv
<1>4. CASE CancelRowFails(x)
  <2>1. TypeOK'
    BY <1>4 DEF IInv, TypeOK, CancelRowFails, CancelEnd
  <2>2. LocalsInv'
    BY <1>4, KeysSame DEF IInv, LocalsInv, CancelRowFails, CancelEnd
  <2> QED  BY <2>1, <2>2 DEF IInv
<1>5. CASE CancelJob
  <2>1. TypeOK'
    BY <1>5 DEF IInv, TypeOK, CancelJob, LocalsInv, CancelEnd, SetJob, JobStatus, Terminal
  <2>2. LocalsInv'
    BY <1>5, KeysSame DEF IInv, LocalsInv, CancelJob, CancelEnd
  <2> QED  BY <2>1, <2>2 DEF IInv
<1> QED  BY <1>1, <1>2, <1>3, <1>4, <1>5 DEF CancelAct

(* The runners, a restart of the scheduler, and time. *)
LEMMA OtherType ==
    ASSUME IInv, done' \subseteq Rows, purged' \subseteq Jobs, NEW r, NEW j, NEW x, OtherAct(r, j, x)
    PROVE  IInv'
<1>1. CASE r \in Rows /\ RunnerMoves(r)
  <2>1. TypeOK'
    BY <1>1, JobBounds, RunnerEndsAssumption DEF IInv, TypeOK, RunnerMoves, Row!Requeue, Row!Expire, Row!Mark, Row!RunnerStatus, Row!Live, Row!Waiting
  <2>2. LocalsInv'
    BY <1>1, KeysSame DEF IInv, LocalsInv, RunnerMoves
  <2> QED  BY <2>1, <2>2 DEF IInv
<1>2. CASE Restart
  <2>1. TypeOK'
    BY <1>2, JobBounds, NJobsAssumption DEF IInv, TypeOK, Restart, CancelEnd, CyclePc
  <2>2. LocalsInv'
    BY <1>2, KeysSame DEF IInv, LocalsInv, Restart, CancelEnd
  <2> QED  BY <2>1, <2>2 DEF IInv
<1>3. CASE j \in Jobs /\ JobAges(j)
  <2>1. TypeOK'
    BY <1>3 DEF IInv, TypeOK, JobAges
  <2>2. LocalsInv'
    BY <1>3, KeysSame DEF IInv, LocalsInv, JobAges
  <2> QED  BY <2>1, <2>2 DEF IInv
<1>4. CASE j \in Jobs /\ JobRests(j)
  <2>1. TypeOK'
    BY <1>4 DEF IInv, TypeOK, JobRests
  <2>2. LocalsInv'
    BY <1>4, KeysSame DEF IInv, LocalsInv, JobRests
  <2> QED  BY <2>1, <2>2 DEF IInv
<1>5. CASE x \in Keys /\ SummarizerRests(x)
  <2>1. TypeOK'
    BY <1>5 DEF IInv, TypeOK, SummarizerRests, Keys
  <2>2. LocalsInv'
    BY <1>5, KeysSame DEF IInv, LocalsInv, SummarizerRests
  <2> QED  BY <2>1, <2>2 DEF IInv
<1> QED  BY <1>1, <1>2, <1>3, <1>4, <1>5 DEF OtherAct

(* The summarizer's worker, and the consumer of its results. *)
LEMMA SummarizerType ==
    ASSUME IInv, done' \subseteq Rows, purged' \subseteq Jobs, NEW m, SummarizerAct(m)
    PROVE  IInv'
<1>1. CASE m \in smsgs /\ SummarizerWork(m)
  <2>1. TypeOK'
    BY <1>1 DEF IInv, TypeOK, SummarizerWork, SummMsg, SummRes, Duplicate
  <2>2. LocalsInv'
    BY <1>1, KeysSame DEF IInv, LocalsInv, SummarizerWork
  <2> QED  BY <2>1, <2>2 DEF IInv
<1>2. CASE m \in sresults /\ SummarizerResult(m)
  <2>0. /\ summ' \in [Jobs -> Seq(Summarizer)] /\ squiet' \subseteq SummKey /\ Keys' = Keys
        /\ m.key[1] \in Jobs
    <3>1. m.key \in Keys /\ m.status \in SummStatus /\ SetSumm(m.key, m.status)
      BY <1>2 DEF IInv, TypeOK, LocalsInv, SummarizerResult, SummRes, SummStatus
    <3> QED  BY <3>1, SetSummFacts DEF IInv, Keys, SummKey
  <2>1. TypeOK'
    BY <1>2, <2>0 DEF IInv, TypeOK, SummarizerResult, SummRes, SetSumm
  <2>2. LocalsInv'
    BY <1>2, KeysSame, <2>0 DEF IInv, LocalsInv, SummarizerResult, SetSumm
  <2> QED  BY <2>1, <2>2 DEF IInv
<1>3. CASE SummarizerLost
  <2>1. TypeOK'
    BY <1>3, JobBounds DEF IInv, TypeOK, SummarizerLost
  <2>2. LocalsInv'
    BY <1>3, KeysSame DEF IInv, LocalsInv, SummarizerLost
  <2> QED  BY <2>1, <2>2 DEF IInv
<1> QED  BY <1>1, <1>2, <1>3 DEF SummarizerAct

(* runSummarizer: the jobs whose runners are completed *)
LEMMA ListType ==
    ASSUME IInv, done' \subseteq Rows, purged' \subseteq Jobs, NEW g \in Kinds, NEW x, ListAct(g, x)
    PROVE  IInv'
<1>1. CASE SetJobToRunnersInProgress(g)
  <2>1. TypeOK'
    BY <1>1 DEF IInv, TypeOK, SetJobToRunnersInProgress, Goto, CyclePc, JobStatus, Running
  <2>2. LocalsInv'
    BY <1>1, KeysSame DEF IInv, LocalsInv, SetJobToRunnersInProgress, Goto
  <2> QED  BY <2>1, <2>2 DEF IInv
<1>2. CASE ExpireJobs(g)
  <2>1. TypeOK'
    BY <1>2 DEF IInv, TypeOK, ExpireJobs, Goto, CyclePc, JobStatus, Terminal
  <2>2. LocalsInv'
    BY <1>2, KeysSame DEF IInv, LocalsInv, ExpireJobs, Goto
  <2> QED  BY <2>1, <2>2 DEF IInv
<1>3. CASE ListCompleted(g)
  <2>0. slisted' \in [Kinds -> SUBSET Listed]
    <3>1. \A i \in allQueued : jstatus[i] \in {"RUNNERS_IN_PROGRESS", "SINK_IN_PROGRESS"} =>
             [job |-> i, status |-> jstatus[i], quiet |-> i \in jquiet] \in Listed
      BY DEF IInv, TypeOK, Listed
    <3>2. PICK S \in SUBSET Listed : slisted' = [slisted EXCEPT ![g] = S]
      BY <1>3, <3>1 DEF ListCompleted
    <3> QED  BY <3>2 DEF IInv, TypeOK
  <2>1. TypeOK'
    BY <1>3, <2>0 DEF IInv, TypeOK, ListCompleted, Goto, CyclePc, Listed
  <2>2. LocalsInv'
    BY <1>3, KeysSame DEF IInv, LocalsInv, ListCompleted, Goto
  <2> QED  BY <2>1, <2>2 DEF IInv
<1>4. CASE x \in slisted[g] /\ SinkBegin(g, x)
  <2>1. TypeOK'
    BY <1>4 DEF IInv, TypeOK, SinkBegin, Goto, CyclePc, NextListed, Unlist, SetJob, Listed, JobStatus, Running
  <2>2. LocalsInv'
    BY <1>4, KeysSame DEF IInv, LocalsInv, SinkBegin, Goto, NextListed
  <2> QED  BY <2>1, <2>2 DEF IInv
<1>5. CASE x \in slisted[g] /\ SinkWait(g, x)
  <2>1. TypeOK'
    BY <1>5 DEF IInv, TypeOK, SinkWait, Goto, CyclePc, NextListed, Unlist
  <2>2. LocalsInv'
    BY <1>5, KeysSame DEF IInv, LocalsInv, SinkWait, Goto, NextListed
  <2> QED  BY <2>1, <2>2 DEF IInv
<1>6. CASE x \in slisted[g] /\ SinkEnd(g, x)
  <2>1. TypeOK'
    BY <1>6 DEF IInv, TypeOK, SinkEnd, Goto, CyclePc, Unlist, Listed
  <2>2. LocalsInv'
    BY <1>6, KeysSame, <2>1 DEF IInv, LocalsInv, SinkEnd, Goto, TypeOK, Listed
  <2> QED  BY <2>1, <2>2 DEF IInv
<1>7. CASE CreateSummarizer(g)
  <2>0. summ' \in [Jobs -> Seq(Summarizer)] /\ Keys \subseteq Keys'
    BY <1>7, CreateFacts DEF IInv
  <2>1. TypeOK'
    BY <1>7, <2>0 DEF IInv, TypeOK, CreateSummarizer, Goto, CyclePc
  <2>2. LocalsInv'
    BY <1>7, KeysSame, <2>0 DEF IInv, LocalsInv, CreateSummarizer, Goto
  <2> QED  BY <2>1, <2>2 DEF IInv
<1>8. CASE SetSummarizing(g)
  <2>1. TypeOK'
    BY <1>8 DEF IInv, TypeOK, SetSummarizing, Goto, CyclePc, SetJob, JobStatus, Running
  <2>2. LocalsInv'
    BY <1>8, KeysSame, CycleTyped DEF IInv, LocalsInv, SetSummarizing, Goto
  <2> QED  BY <2>1, <2>2 DEF IInv
<1> QED  BY <1>1, <1>2, <1>3, <1>4, <1>5, <1>6, <1>7, <1>8 DEF ListAct

(* runSummarizer: the summarizers that are to be sent *)
LEMMA SendType ==
    ASSUME IInv, done' \subseteq Rows, purged' \subseteq Jobs, NEW g \in Kinds, NEW x, SendAct(g, x)
    PROVE  IInv'
<1>1. CASE FetchSummarizers(g)
  <2>1. TypeOK'
    BY <1>1 DEF IInv, TypeOK, FetchSummarizers, Goto, CyclePc, Keys
  <2>2. LocalsInv'
    BY <1>1, KeysSame DEF IInv, LocalsInv, FetchSummarizers, Goto
  <2> QED  BY <2>1, <2>2 DEF IInv
<1>2. CASE x \in screated[g] /\ ProduceSummarizer(g, x)
  <2>0. x \in Keys /\ x \in SummKey /\ SummOf(x).retry \in 0..MaxRetries
    <3>1. x \in Keys
      BY <1>2 DEF IInv, LocalsInv
    <3> QED  BY <3>1, KeyType DEF IInv, Keys
  <2>3. [key |-> x, attempt |-> SummOf(x).retry] \in SummMsg
    BY <2>0 DEF SummMsg
  <2>1. TypeOK'
    BY <1>2, <2>0, <2>3, JobBounds DEF IInv, TypeOK, ProduceSummarizer, Goto, CyclePc, Duplicate
  <2>2. LocalsInv'
    BY <1>2, KeysSame, <2>0 DEF IInv, LocalsInv, ProduceSummarizer, Goto, Duplicate, TypeOK
  <2> QED  BY <2>1, <2>2 DEF IInv
<1>3. CASE x \in screated[g] /\ ProduceFails(g, x)
  <2>0. /\ x \in Keys /\ x \in SummKey /\ SummOf(x).retry \in 0..MaxRetries
        /\ summ' \in [Jobs -> Seq(Summarizer)] /\ squiet' \subseteq SummKey /\ Keys' = Keys
    <3>1. x \in Keys /\ "FAILED" \in SummStatus /\ SetSumm(x, "FAILED")
      BY <1>3 DEF IInv, LocalsInv, ProduceFails, SummStatus
    <3> QED  BY <3>1, KeyType, SetSummFacts DEF IInv, Keys
  <2>3. [key |-> x, attempt |-> SummOf(x).retry] \in SummMsg
    BY <2>0 DEF SummMsg
  <2>4. smsgs' \subseteq SummMsg
    BY <1>3, <2>3 DEF ProduceFails, IInv, TypeOK
  <2>1. TypeOK'
    BY <1>3, <2>0, <2>4, JobBounds DEF IInv, TypeOK, ProduceFails, Goto, CyclePc
  <2>2. LocalsInv'
    <3>1. /\ epc' = epc /\ ecur' = ecur /\ cpc' = cpc /\ cjob' = cjob
          /\ sjob' = sjob /\ skey' = skey /\ sresults' = sresults
      BY <1>3 DEF ProduceFails
    <3>2. /\ spc' = [spc EXCEPT ![g] = "idle"] /\ screated' = [screated EXCEPT ![g] = {}]
          /\ smsgs' \subseteq smsgs \cup {[key |-> x, attempt |-> SummOf(x).retry]}
      BY <1>3 DEF ProduceFails, Goto
    <3>3. spc \in [Kinds -> CyclePc] /\ screated \in [Kinds -> SUBSET SummKey]
      BY DEF IInv, TypeOK
    <3>4. \A m \in smsgs' \cup sresults' : m.key \in Keys
      BY <3>1, <3>2, <2>0 DEF IInv, LocalsInv
    <3>5. \A k \in Kinds :
             /\ spc'[k] \in {"create", "summarizing", "succeed", "fail"} => sjob[k] \in Jobs
             /\ spc'[k] = "mark" => skey[k] \in Keys
             /\ screated'[k] \subseteq Keys
      BY <3>2, <3>3 DEF IInv, LocalsInv
    <3> QED  BY <3>1, <3>4, <3>5, <2>0 DEF IInv, LocalsInv
  <2> QED  BY <2>1, <2>2 DEF IInv
<1>4. CASE MarkSummarizer(g)
  <2>0. summ' \in [Jobs -> Seq(Summarizer)] /\ squiet' \subseteq SummKey /\ Keys' = Keys
    <3>1. skey[g] \in Keys /\ "IN_PROGRESS" \in SummStatus /\ SetSumm(skey[g], "IN_PROGRESS")
      BY <1>4 DEF IInv, LocalsInv, MarkSummarizer, SummStatus
    <3> QED  BY <3>1, SetSummFacts DEF IInv
  <2>1. TypeOK'
    BY <1>4, <2>0 DEF IInv, TypeOK, MarkSummarizer, Goto, CyclePc, SetSumm
  <2>2. LocalsInv'
    BY <1>4, KeysSame, CycleTyped, <2>0 DEF IInv, LocalsInv, MarkSummarizer, Goto, SetSumm
  <2> QED  BY <2>1, <2>2 DEF IInv
<1> QED  BY <1>1, <1>2, <1>3, <1>4 DEF SendAct

(* runSummarizer: the jobs whose summarizers have ended *)
LEMMA FinishType ==
    ASSUME IInv, done' \subseteq Rows, purged' \subseteq Jobs, NEW g \in Kinds, NEW j, FinishAct(g, j)
    PROVE  IInv'
<1>1. CASE ListEnded(g)
  <2>1. TypeOK'
    BY <1>1 DEF IInv, TypeOK, ListEnded, Goto, CyclePc
  <2>2. LocalsInv'
    BY <1>1, KeysSame DEF IInv, LocalsInv, ListEnded, Goto
  <2> QED  BY <2>1, <2>2 DEF IInv
<1>2. CASE j \in sending[g] /\ FinishRead(g, j)
  <2>1. TypeOK'
    BY <1>2 DEF IInv, TypeOK, FinishRead, Goto, CyclePc, Verdict
  <2>2. LocalsInv'
    BY <1>2, KeysSame DEF IInv, LocalsInv, FinishRead, Goto, Verdict, TypeOK
  <2> QED  BY <2>1, <2>2 DEF IInv
<1>3. CASE FinishWrite(g)
  <2>1. TypeOK'
    BY <1>3 DEF IInv, TypeOK, FinishWrite, Goto, CyclePc, SetJob, JobStatus, Terminal
  <2>2. LocalsInv'
    BY <1>3, KeysSame, CycleTyped DEF IInv, LocalsInv, FinishWrite, Goto
  <2> QED  BY <2>1, <2>2 DEF IInv
<1>4. CASE RetrySummarizers(g)
  <2>0. summ' \in [Jobs -> Seq(Summarizer)] /\ Keys' = Keys
    BY <1>4, RetryFacts DEF IInv
  <2>1. TypeOK'
    BY <1>4, <2>0 DEF IInv, TypeOK, RetrySummarizers, Goto, CyclePc
  <2>2. LocalsInv'
    BY <1>4, KeysSame, <2>0 DEF IInv, LocalsInv, RetrySummarizers, Goto
  <2> QED  BY <2>1, <2>2 DEF IInv
<1>5. CASE CycleFails(g)
  <2>1. TypeOK'
    BY <1>5, JobBounds DEF IInv, TypeOK, CycleFails, Goto, CyclePc
  <2>2. LocalsInv'
    BY <1>5, KeysSame, CycleTyped DEF IInv, LocalsInv, CycleFails, Goto
  <2> QED  BY <2>1, <2>2 DEF IInv
<1> QED  BY <1>1, <1>2, <1>3, <1>4, <1>5 DEF FinishAct

(* Every step is a step of one of the groups. *)
LEMMA StepCases ==
    ASSUME Step
    PROVE  \/ \E k \in Kinds : TriggerAct(k)
           \/ \E j : EnqueueAct(j)
           \/ \E j, x : CancelAct(j, x)
           \/ \E r, j, x : OtherAct(r, j, x)
           \/ \E m : SummarizerAct(m)
           \/ \E g \in Kinds : \E x : ListAct(g, x)
           \/ \E g \in Kinds : \E x : SendAct(g, x)
           \/ \E g \in Kinds : \E j : FinishAct(g, j)
<1>1. CASE \E k \in Kinds : TriggerJob(k) \/ TriggerFails(k)
  BY <1>1 DEF TriggerJob, TriggerAct
<1>2. CASE Enqueue \/ EnqueueFails
  BY <1>2 DEF Enqueue, EnqueueAct
<1>3. CASE Cancel
  BY <1>3 DEF Cancel, CancelAct
<1>4. CASE (\E r \in Rows : RunnerMoves(r)) \/ Restart \/ Time
  BY <1>4 DEF Time, OtherAct
<1>5. CASE Summarizers \/ SummarizerLost
  BY <1>5 DEF Summarizers, SummarizerAct
<1>6. CASE \E g \in Kinds : CycleFails(g)
  BY <1>6 DEF FinishAct
<1>7. CASE \E g \in Kinds : \E x \in screated[g] : ProduceFails(g, x)
  BY <1>7 DEF SendAct
<1>8. ASSUME NEW g \in Kinds, Summarize(g)
      PROVE  (\E x : ListAct(g, x)) \/ (\E x : SendAct(g, x)) \/ (\E j : FinishAct(g, j))
  <2>1. CASE Sink(g)
    BY <2>1 DEF Sink, ListAct
  <2>2. CASE SetJobToRunnersInProgress(g) \/ ExpireJobs(g) \/ ListCompleted(g)
             \/ CreateSummarizer(g) \/ SetSummarizing(g)
    BY <2>2 DEF ListAct
  <2>3. CASE FetchSummarizers(g) \/ (\E x \in screated[g] : ProduceSummarizer(g, x))
             \/ MarkSummarizer(g)
    BY <2>3 DEF SendAct
  <2>4. CASE ListEnded(g) \/ (\E j \in sending[g] : FinishRead(g, j)) \/ FinishWrite(g)
             \/ RetrySummarizers(g)
    BY <2>4 DEF FinishAct
  <2> QED  BY <1>8, <2>1, <2>2, <2>3, <2>4 DEF Summarize
<1> QED  BY <1>1, <1>2, <1>3, <1>4, <1>5, <1>6, <1>7, <1>8 DEF Step

(* A step of the system, an initial state, and a stutter. *)
LEMMA StepTyped ==
    ASSUME IInv, Next
    PROVE  IInv'
<1>1. done' \subseteq Rows /\ purged' \subseteq Jobs
  BY ObserveType DEF IInv, Next
<1>2. Step
  BY DEF Next
<1> QED  BY <1>1, <1>2, StepCases, TriggerType, EnqueueType, CancelType, OtherType,
            SummarizerType, ListType, SendType, FinishType

LEMMA InitTyped == Init => IInv
<1> SUFFICES ASSUME Init PROVE IInv
  OBVIOUS
<1>1. TypeOK
  <2>1. "scheduled" \in Kinds /\ <<>> \in Seq(Summarizer)
    BY KindsAssumption, EmptySeq
  <2> QED  BY <2>1, NJobsAssumption, JobBounds
           DEF Init, TypeOK, JobStatus, CyclePc, Row!RunnerStatus, Row!Absent
<1>2. LocalsInv
  BY DEF Init, LocalsInv
<1> QED  BY <1>1, <1>2 DEF IInv

LEMMA StutterTyped ==
    ASSUME IInv, UNCHANGED vars
    PROVE  IInv'
<1>1. TypeOK'
  BY DEF IInv, TypeOK, vars, obsVars
<1>2. LocalsInv'
  BY KeysSame DEF IInv, LocalsInv, vars, obsVars
<1> QED  BY <1>1, <1>2 DEF IInv

(* In every reachable state the rows of the four tables, the messages and  *)
(* what the goroutines hold are of their types: a list of jobs holds jobs, *)
(* a retry count stays within its limit.                                   *)
THEOREM TypeCorrect == Spec => []TypeOK
<1>1. IInv /\ [Next]_vars => IInv'
  BY StepTyped, StutterTyped
<1>2. IInv => TypeOK
  BY DEF IInv
<1> QED  BY InitTyped, <1>1, <1>2, PTL DEF Spec

-----------------------------------------------------------------------------
(* How the status of a job moves. *)

(* The jobs that exist are the first ones. *)
Numbered == \E n \in 0..NJobs : Created = 1..n

Exists(j) == jstatus[j] # "NONE"
HeldBy(g, j) == Exists(j) /\ trig[j] = g

(* Summarizers a cycle is about to send or to mark. *)
Working(g, x) == x \in screated[g] \/ (spc[g] = "mark" /\ skey[g] = x)

(* What a cycle lists, summarizes or sends are jobs of its trigger type.   *)
HeldInv ==
    /\ \A g \in Kinds :
          /\ \A x \in slisted[g] : HeldBy(g, x.job)
          /\ spc[g] \in {"create", "summarizing"} => HeldBy(g, sjob[g])
          /\ \A x \in Keys : Working(g, x) => HeldBy(g, x[1])
    /\ \A j \in Jobs : Len(summ[j]) > 0 => Exists(j)

(* What is finished or canceled exists: either cycle finishes any job.     *)
ExistInv ==
    /\ cpc # "idle" => Exists(cjob)
    /\ \A g \in Kinds : /\ \A j \in sending[g] : Exists(j)
                        /\ spc[g] \in {"succeed", "fail"} => Exists(sjob[g])

OwnInv == Numbered /\ HeldInv /\ ExistInv

(* The steps of one job's status, and who takes them. *)
JobMove(j) ==
    \/ jstatus'[j] = jstatus[j]
    \/ jstatus[j] = "NONE" /\ jstatus'[j] = "CREATED"
    \/ jstatus[j] = "CREATED" /\ jstatus'[j] = "RUNNERS_IN_PROGRESS" /\ RowsOf(j) # {}
    \/ jstatus[j] \in Running /\ jstatus'[j] = "TIMEOUT"
    \/ cpc = "job" /\ cjob = j /\ jstatus'[j] = "CANCELED"
    \/ \E g \in Kinds :
          \/ (\E x \in slisted[g] : x.job = j) /\ jstatus'[j] = "SINK_IN_PROGRESS"
          \/ spc[g] = "summarizing" /\ sjob[g] = j /\ jstatus'[j] = "SUMMARIZER_IN_PROGRESS"
          \/ spc[g] = "succeed" /\ sjob[g] = j /\ jstatus'[j] = "SUCCEEDED"
          \/ spc[g] = "fail" /\ sjob[g] = j /\ jstatus'[j] = "FAILED"

(* A job keeps its trigger type from its creation on. *)
JobMoves == \A j \in Jobs : JobMove(j) /\ (jstatus[j] # "NONE" => trig'[j] = trig[j])

(* The number TriggerCreate takes is that of no job. *)
LEMMA NextNumber ==
    ASSUME Numbered, NEW j, j = Cardinality(Created) + 1
    PROVE  /\ j \in Nat /\ j \notin Created
           /\ j \in Jobs => Created \cup {j} = 1..j
<1>1. PICK n \in 0..NJobs : Created = 1..n
  BY DEF Numbered
<1>2. Cardinality(Created) = n
  BY <1>1, FS_Interval, NJobsAssumption
<1> QED  BY <1>1, <1>2, NJobsAssumption DEF Jobs

(* Statements that write no job. *)
LEMMA JobsSame ==
    ASSUME Numbered, jstatus' = jstatus, trig' = trig
    PROVE  JobMoves /\ Numbered'
BY DEF JobMoves, JobMove, Numbered, Created

(* A move that makes no job leaves the numbers. *)
LEMMA NumberedKept ==
    ASSUME Numbered, \A j \in Jobs : jstatus'[j] = "NONE" <=> jstatus[j] = "NONE"
    PROVE  Numbered'
BY DEF Numbered, Created

(* A new job is the next one, and the others stay as they are. *)
LEMMA TriggerJobs ==
    ASSUME IInv, Numbered, NEW k \in Kinds, TriggerCreate(k)
    PROVE  JobMoves /\ Numbered'
<1>1. PICK j : /\ j = Cardinality(Created) + 1
               /\ jstatus' = [jstatus EXCEPT ![j] = "CREATED"]
               /\ trig' = [trig EXCEPT ![j] = k]
  BY DEF TriggerCreate
<1>2. jstatus \in [Jobs -> JobStatus] /\ trig \in [Jobs -> Kinds]
  BY DEF IInv, TypeOK
<1>3. j \in Nat /\ j \notin Created /\ (j \in Jobs => Created \cup {j} = 1..j)
  BY <1>1, NextNumber
<1>4. JobMoves
  BY <1>1, <1>2, <1>3 DEF JobMoves, JobMove, Created
<1>5. CASE j \in Jobs
  <2>1. Created' = Created \cup {j}
    BY <1>1, <1>2, <1>5 DEF Created
  <2> QED  BY <1>3, <1>4, <1>5, <2>1, NJobsAssumption DEF Numbered, Jobs
<1>6. CASE j \notin Jobs
  BY <1>1, <1>2, <1>4, <1>6, JobsSame
<1> QED  BY <1>5, <1>6

(* The statements that write the status of one job, or of many. *)
LEMMA WriteJobs ==
    ASSUME IInv, OwnInv, NEW g \in Kinds, NEW x,
           \/ SetJobToRunnersInProgress(g)
           \/ ExpireJobs(g)
           \/ x \in slisted[g] /\ SinkBegin(g, x)
           \/ SetSummarizing(g)
           \/ FinishWrite(g)
           \/ CancelJob
    PROVE  JobMoves /\ Numbered'
<1>1. jstatus \in [Jobs -> JobStatus] /\ trig' = trig
  BY DEF IInv, TypeOK, SetJobToRunnersInProgress, ExpireJobs, SinkBegin, SetSummarizing,
         FinishWrite, CancelJob
<1>2. CASE SetJobToRunnersInProgress(g)
  <2>1. JobMoves
    BY <1>1, <1>2 DEF JobMoves, JobMove, SetJobToRunnersInProgress
  <2>2. \A j \in Jobs : jstatus'[j] = "NONE" <=> jstatus[j] = "NONE"
    BY <1>1, <1>2 DEF SetJobToRunnersInProgress
  <2> QED  BY <2>1, <2>2, NumberedKept DEF OwnInv
<1>3. CASE ExpireJobs(g)
  <2>1. JobMoves
    BY <1>1, <1>3 DEF JobMoves, JobMove, ExpireJobs, Expirable
  <2>2. \A j \in Jobs : jstatus'[j] = "NONE" <=> jstatus[j] = "NONE"
    BY <1>1, <1>3 DEF ExpireJobs, Expirable, Running
  <2> QED  BY <2>1, <2>2, NumberedKept DEF OwnInv
<1>4. CASE x \in slisted[g] /\ SinkBegin(g, x)
  <2>1. JobMoves
    BY <1>1, <1>4 DEF JobMoves, JobMove, SinkBegin, SetJob
  <2>2. Exists(x.job)
    BY <1>4 DEF OwnInv, HeldInv, HeldBy, SinkBegin
  <2>3. \A i \in Jobs : jstatus'[i] = "NONE" <=> jstatus[i] = "NONE"
    BY <1>1, <1>4, <2>2 DEF Exists, SinkBegin, SetJob
  <2> QED  BY <2>1, <2>3, NumberedKept DEF OwnInv
<1>5. CASE SetSummarizing(g)
  <2>1. JobMoves
    BY <1>1, <1>5 DEF JobMoves, JobMove, SetSummarizing, SetJob
  <2>2. Exists(sjob[g])
    BY <1>5 DEF OwnInv, HeldInv, HeldBy, SetSummarizing
  <2>3. \A i \in Jobs : jstatus'[i] = "NONE" <=> jstatus[i] = "NONE"
    BY <1>1, <1>5, <2>2 DEF Exists, SetSummarizing, SetJob
  <2> QED  BY <2>1, <2>3, NumberedKept DEF OwnInv
<1>6. CASE FinishWrite(g)
  <2>1. JobMoves
    BY <1>1, <1>6 DEF JobMoves, JobMove, FinishWrite, SetJob
  <2>2. Exists(sjob[g])
    <3>1. spc[g] \in {"succeed", "fail"}
      BY <1>6 DEF FinishWrite
    <3> QED  BY <3>1 DEF OwnInv, ExistInv
  <2>3. \A i \in Jobs : jstatus'[i] = "NONE" <=> jstatus[i] = "NONE"
    BY <1>1, <1>6, <2>2 DEF Exists, FinishWrite, SetJob
  <2> QED  BY <2>1, <2>3, NumberedKept DEF OwnInv
<1>7. CASE CancelJob
  <2>1. JobMoves
    BY <1>1, <1>7 DEF JobMoves, JobMove, CancelJob, SetJob
  <2>2. Exists(cjob)
    BY <1>7 DEF OwnInv, ExistInv, CancelJob
  <2>3. \A i \in Jobs : jstatus'[i] = "NONE" <=> jstatus[i] = "NONE"
    BY <1>1, <1>7, <2>2 DEF Exists, CancelJob, SetJob
  <2> QED  BY <2>1, <2>3, NumberedKept DEF OwnInv
<1> QED  BY <1>2, <1>3, <1>4, <1>5, <1>6, <1>7

(* Every step moves each job as JobMove says. *)
LEMMA StepJobs ==
    ASSUME IInv, OwnInv, Step
    PROVE  JobMoves /\ Numbered'
<1>1. \/ jstatus' = jstatus /\ trig' = trig
      \/ \E k \in Kinds : TriggerCreate(k)
      \/ \E g \in Kinds : \E x :
            \/ SetJobToRunnersInProgress(g)
            \/ ExpireJobs(g)
            \/ x \in slisted[g] /\ SinkBegin(g, x)
            \/ SetSummarizing(g)
            \/ FinishWrite(g)
            \/ CancelJob
  <2>1. ASSUME NEW k \in Kinds, TriggerAct(k)
        PROVE  TriggerCreate(k) \/ (jstatus' = jstatus /\ trig' = trig)
    BY <2>1 DEF TriggerAct, TriggerRead, TriggerPurge, TriggerFails
  <2>2. ASSUME NEW j, EnqueueAct(j)
        PROVE  jstatus' = jstatus /\ trig' = trig
    BY <2>2 DEF EnqueueAct, EnqueueList, EnqueueRead, EnqueueWrite, EnqueueFails
  <2>3. ASSUME NEW j, NEW x, CancelAct(j, x)
        PROVE  CancelJob \/ (jstatus' = jstatus /\ trig' = trig)
    BY <2>3 DEF CancelAct, CancelRead, CancelRows, CancelRow, CancelRowFails
  <2>4. ASSUME NEW r, NEW j, NEW x, OtherAct(r, j, x)
        PROVE  jstatus' = jstatus /\ trig' = trig
    BY <2>4 DEF OtherAct, RunnerMoves, Restart, JobAges, JobRests, SummarizerRests
  <2>5. ASSUME NEW m, SummarizerAct(m)
        PROVE  jstatus' = jstatus /\ trig' = trig
    BY <2>5 DEF SummarizerAct, SummarizerWork, SummarizerResult, SummarizerLost
  <2>6. ASSUME NEW g \in Kinds, NEW x, ListAct(g, x)
        PROVE  \/ jstatus' = jstatus /\ trig' = trig
               \/ SetJobToRunnersInProgress(g)
               \/ ExpireJobs(g)
               \/ x \in slisted[g] /\ SinkBegin(g, x)
               \/ SetSummarizing(g)
    BY <2>6 DEF ListAct, ListCompleted, SinkWait, SinkEnd, CreateSummarizer
  <2>7. ASSUME NEW g \in Kinds, NEW x, SendAct(g, x)
        PROVE  jstatus' = jstatus /\ trig' = trig
    BY <2>7 DEF SendAct, FetchSummarizers, ProduceSummarizer, ProduceFails, MarkSummarizer
  <2>8. ASSUME NEW g \in Kinds, NEW j, FinishAct(g, j)
        PROVE  FinishWrite(g) \/ (jstatus' = jstatus /\ trig' = trig)
    BY <2>8 DEF FinishAct, ListEnded, FinishRead, RetrySummarizers, CycleFails
  <2> QED  BY <2>1, <2>2, <2>3, <2>4, <2>5, <2>6, <2>7, <2>8, StepCases, KindsAssumption
<1>2. Numbered
  BY DEF OwnInv
<1> QED  BY <1>1, <1>2, JobsSame, TriggerJobs, WriteJobs

-----------------------------------------------------------------------------
(* Who works on which job. *)

(* No cycle lists, summarizes or sends anything it did not before. *)
NothingTaken ==
    /\ \A j \in Jobs : Len(summ'[j]) = Len(summ[j])
    /\ Keys' = Keys
    /\ \A g \in Kinds :
          /\ slisted'[g] \subseteq slisted[g]
          /\ spc'[g] \in {"create", "summarizing"} => spc'[g] = spc[g] /\ sjob'[g] = sjob[g]
          /\ \A x \in Keys : Working(g, x)' => Working(g, x)

(* Nothing more is finished or canceled. *)
NothingEnded ==
    /\ cpc' # "idle" => cpc # "idle" /\ cjob' = cjob
    /\ \A g \in Kinds :
          /\ sending'[g] \subseteq sending[g]
          /\ spc'[g] \in {"succeed", "fail"} => spc'[g] = spc[g] /\ sjob'[g] = sjob[g]

(* Steps of the others take nothing for a cycle. *)
LEMMA CycleSame ==
    ASSUME UNCHANGED <<cycVars, summ>>
    PROVE  NothingTaken
BY KeysSame DEF NothingTaken, Working

(* Four statements take something, the others do not. *)
LEMMA StepTaken ==
    ASSUME IInv, Step
    PROVE  \/ NothingTaken
           \/ \E g \in Kinds : \/ ListCompleted(g)
                               \/ \E x \in slisted[g] : SinkEnd(g, x)
                               \/ CreateSummarizer(g)
                               \/ FetchSummarizers(g)
<1> DEFINE Takes(g) == \/ ListCompleted(g)
                       \/ \E x \in slisted[g] : SinkEnd(g, x)
                       \/ CreateSummarizer(g)
                       \/ FetchSummarizers(g)
<1>1. ASSUME NEW k \in Kinds, TriggerAct(k)
      PROVE  NothingTaken
  BY <1>1, CycleSame DEF TriggerAct, TriggerRead, TriggerPurge, TriggerCreate, TriggerFails
<1>2. ASSUME NEW j, EnqueueAct(j)
      PROVE  NothingTaken
  BY <1>2, CycleSame DEF EnqueueAct, EnqueueList, EnqueueRead, EnqueueWrite, EnqueueFails
<1>3. ASSUME NEW j, NEW x, CancelAct(j, x)
      PROVE  NothingTaken
  BY <1>3, CycleSame DEF CancelAct, CancelRead, CancelRows, CancelRow, CancelRowFails, CancelJob
<1>4. ASSUME NEW r, NEW j, NEW x, OtherAct(r, j, x)
      PROVE  NothingTaken
  <2>1. CASE Restart
    BY <2>1, KeysSame DEF Restart, NothingTaken, Working
  <2> QED  BY <1>4, <2>1, CycleSame DEF OtherAct, RunnerMoves, JobAges, JobRests, SummarizerRests
<1>5. ASSUME NEW m, SummarizerAct(m)
      PROVE  NothingTaken
  <2>1. CASE m \in sresults /\ SummarizerResult(m)
    <3>1. m.key \in Keys /\ m.status \in SummStatus /\ SetSumm(m.key, m.status)
      BY <2>1 DEF IInv, TypeOK, LocalsInv, SummarizerResult, SummRes, SummStatus
    <3>2. (\A j \in Jobs : Len(summ'[j]) = Len(summ[j])) /\ Keys' = Keys
      BY <3>1, SetSummFacts DEF IInv
    <3> QED  BY <2>1, <3>2 DEF SummarizerResult, NothingTaken, Working
  <2> QED  BY <1>5, <2>1, CycleSame DEF SummarizerAct, SummarizerWork, SummarizerLost
<1>6. ASSUME NEW g \in Kinds, NEW x,
             \/ SetJobToRunnersInProgress(g)
             \/ ExpireJobs(g)
             \/ SinkBegin(g, x)
             \/ SinkWait(g, x)
             \/ SetSummarizing(g)
      PROVE  NothingTaken
  BY <1>6, KeysSame, CycleTyped
     DEF SetJobToRunnersInProgress, ExpireJobs, SinkBegin, SinkWait, SetSummarizing, Goto,
         Unlist, NextListed, NothingTaken, Working
<1>7. ASSUME NEW g \in Kinds, NEW x \in screated[g], ProduceSummarizer(g, x)
      PROVE  NothingTaken
  BY <1>7, KeysSame, CycleTyped DEF ProduceSummarizer, Goto, NothingTaken, Working
<1>8. ASSUME NEW g \in Kinds, NEW x \in screated[g], ProduceFails(g, x)
      PROVE  NothingTaken
  <2>1. x \in Keys /\ "FAILED" \in SummStatus /\ SetSumm(x, "FAILED")
    BY <1>8 DEF IInv, LocalsInv, ProduceFails, SummStatus
  <2>2. (\A j \in Jobs : Len(summ'[j]) = Len(summ[j])) /\ Keys' = Keys
    BY <2>1, SetSummFacts DEF IInv
  <2> QED  BY <1>8, <2>2, CycleTyped DEF ProduceFails, Goto, NothingTaken, Working
<1>9. ASSUME NEW g \in Kinds, MarkSummarizer(g)
      PROVE  NothingTaken
  <2>1. skey[g] \in Keys /\ "IN_PROGRESS" \in SummStatus /\ SetSumm(skey[g], "IN_PROGRESS")
    BY <1>9 DEF IInv, LocalsInv, MarkSummarizer, SummStatus
  <2>2. (\A j \in Jobs : Len(summ'[j]) = Len(summ[j])) /\ Keys' = Keys
    BY <2>1, SetSummFacts DEF IInv
  <2> QED  BY <1>9, <2>2, CycleTyped DEF MarkSummarizer, Goto, NothingTaken, Working
<1>10. ASSUME NEW g \in Kinds, NEW j, FinishAct(g, j)
       PROVE  NothingTaken
  <2>1. CASE RetrySummarizers(g)
    <3>1. (\A i \in Jobs : Len(summ'[i]) = Len(summ[i])) /\ Keys' = Keys
      BY <2>1, RetryFacts DEF IInv
    <3> QED  BY <2>1, <3>1, CycleTyped DEF RetrySummarizers, Goto, NothingTaken, Working
  <2>2. CASE ListEnded(g) \/ FinishWrite(g) \/ CycleFails(g)
    BY <2>2, KeysSame, CycleTyped DEF ListEnded, FinishWrite, CycleFails, Goto, NothingTaken, Working
  <2>3. CASE FinishRead(g, j)
    BY <2>3, KeysSame, CycleTyped DEF FinishRead, Verdict, Goto, NothingTaken, Working
  <2> QED  BY <1>10, <2>1, <2>2, <2>3 DEF FinishAct
<1>11. ASSUME NEW g \in Kinds, NEW x, ListAct(g, x)
       PROVE  NothingTaken \/ Takes(g)
  BY <1>6, <1>11 DEF ListAct
<1>12. ASSUME NEW g \in Kinds, NEW x, SendAct(g, x)
       PROVE  NothingTaken \/ Takes(g)
  BY <1>7, <1>8, <1>9, <1>12 DEF SendAct
<1>13. CASE \E g \in Kinds : \E x : ListAct(g, x)
  <2>1. PICK g \in Kinds : \E x : ListAct(g, x)
    BY <1>13
  <2>2. NothingTaken \/ Takes(g)
    BY <1>11, <2>1
  <2> QED  BY <2>2
<1>14. CASE \E g \in Kinds : \E x : SendAct(g, x)
  <2>1. PICK g \in Kinds : \E x : SendAct(g, x)
    BY <1>14
  <2>2. NothingTaken \/ Takes(g)
    BY <1>12, <2>1
  <2> QED  BY <2>2
<1> QED  BY <1>1, <1>2, <1>3, <1>4, <1>5, <1>10, <1>13, <1>14, StepCases

(* A cancel request starts, a job is listed or read to be finished. *)
LEMMA StepEnded ==
    ASSUME IInv, Step
    PROVE  \/ NothingEnded
           \/ \E j \in Jobs : Cancelable(j) /\ CancelRead(j)
           \/ \E g \in Kinds : ListEnded(g) \/ \E j \in sending[g] : FinishRead(g, j)
<1>1. ASSUME NEW k \in Kinds, TriggerAct(k)
      PROVE  NothingEnded
  BY <1>1 DEF TriggerAct, TriggerRead, TriggerPurge, TriggerCreate, TriggerFails, NothingEnded
<1>2. ASSUME NEW j, EnqueueAct(j)
      PROVE  NothingEnded
  BY <1>2 DEF EnqueueAct, EnqueueList, EnqueueRead, EnqueueWrite, EnqueueFails, NothingEnded
<1>3. ASSUME NEW j, NEW x, CancelAct(j, x)
      PROVE  NothingEnded \/ (j \in Jobs /\ Cancelable(j) /\ CancelRead(j))
  BY <1>3 DEF CancelAct, CancelRows, CancelRow, CancelRowFails, CancelJob, CancelEnd, NothingEnded
<1>4. ASSUME NEW r, NEW j, NEW x, OtherAct(r, j, x)
      PROVE  NothingEnded
  BY <1>4 DEF OtherAct, Restart, RunnerMoves, JobAges, JobRests, SummarizerRests, CancelEnd,
              NothingEnded
<1>5. ASSUME NEW m, SummarizerAct(m)
      PROVE  NothingEnded
  BY <1>5 DEF SummarizerAct, SummarizerResult, SummarizerWork, SummarizerLost, NothingEnded
<1>6. ASSUME NEW g \in Kinds, NEW x, ListAct(g, x)
      PROVE  NothingEnded
  BY <1>6, CycleTyped
     DEF ListAct, SetJobToRunnersInProgress, ExpireJobs, ListCompleted, SinkBegin, SinkWait,
         SinkEnd, CreateSummarizer, SetSummarizing, Goto, NextListed, NothingEnded
<1>7. ASSUME NEW g \in Kinds, NEW x, SendAct(g, x)
      PROVE  NothingEnded
  BY <1>7, CycleTyped
     DEF SendAct, FetchSummarizers, ProduceSummarizer, ProduceFails, MarkSummarizer, Goto,
         NothingEnded
<1>8. ASSUME NEW g \in Kinds, NEW j, FinishAct(g, j)
      PROVE  NothingEnded \/ ListEnded(g) \/ (j \in sending[g] /\ FinishRead(g, j))
  BY <1>8, CycleTyped DEF FinishAct, FinishWrite, RetrySummarizers, CycleFails, Goto, NothingEnded
<1> QED  BY <1>1, <1>2, <1>3, <1>4, <1>5, <1>6, <1>7, <1>8, StepCases

(* A job that exists goes on to exist, and belongs to the same cycle. *)
LEMMA JobsStay ==
    ASSUME JobMoves
    PROVE  \A j \in Jobs : /\ Exists(j) => Exists(j)'
                           /\ \A g \in Kinds : HeldBy(g, j) => HeldBy(g, j)'
BY DEF JobMoves, JobMove, Exists, HeldBy

(* Where nothing is taken, what is held is held by its cycle. *)
LEMMA HeldKept ==
    ASSUME IInv, HeldInv, JobMoves, NothingTaken
    PROVE  HeldInv'
<1>1. ASSUME NEW g \in Kinds, NEW x \in slisted'[g]
      PROVE  HeldBy(g, x.job)'
  <2>1. x \in slisted[g] /\ x.job \in Jobs
    BY <1>1, CycleTyped DEF NothingTaken, Listed
  <2> QED  BY <2>1, JobsStay DEF HeldInv
<1>2. ASSUME NEW g \in Kinds, spc'[g] \in {"create", "summarizing"}
      PROVE  HeldBy(g, sjob[g])'
  <2>1. spc[g] \in {"create", "summarizing"} /\ sjob'[g] = sjob[g] /\ sjob[g] \in Jobs
    BY <1>2 DEF NothingTaken, IInv, LocalsInv
  <2>2. HeldBy(g, sjob[g])
    BY <2>1 DEF HeldInv
  <2>3. jstatus'[sjob[g]] # "NONE" /\ trig'[sjob[g]] = g
    BY <2>1, <2>2, JobsStay DEF HeldBy, Exists
  <2> QED  BY <2>1, <2>3 DEF HeldBy, Exists
<1>3. ASSUME NEW g \in Kinds, NEW x \in Keys', Working(g, x)'
      PROVE  HeldBy(g, x[1])'
  <2>1. x \in Keys /\ x[1] \in Jobs /\ Working(g, x)
    BY <1>3 DEF NothingTaken, Keys, SummKey
  <2> QED  BY <2>1, JobsStay DEF HeldInv
<1>4. ASSUME NEW j \in Jobs, Len(summ'[j]) > 0
      PROVE  Exists(j)'
  BY <1>4, JobsStay DEF NothingTaken, HeldInv
<1> QED  BY <1>1, <1>2, <1>3, <1>4 DEF HeldInv

(* The four statements that take something. *)
LEMMA HeldTaken ==
    ASSUME IInv, HeldInv, NEW g \in Kinds, NEW x,
           \/ ListCompleted(g)
           \/ x \in slisted[g] /\ SinkEnd(g, x)
           \/ CreateSummarizer(g)
           \/ FetchSummarizers(g)
    PROVE  HeldInv'
<1>1. \A h \in Kinds, j \in Jobs : /\ HeldBy(h, j)' <=> HeldBy(h, j)
                                   /\ Exists(j)' <=> Exists(j)
  BY DEF ListCompleted, SinkEnd, CreateSummarizer, FetchSummarizers, HeldBy, Exists
<1>2. CASE ListCompleted(g)
  <2>1. ASSUME NEW h \in Kinds, NEW y \in slisted'[h]
        PROVE  HeldBy(h, y.job)'
    <3>1. CASE y \in slisted[h]
      BY <1>1, <3>1, CycleTyped DEF HeldInv, Listed
    <3>2. CASE y \notin slisted[h]
      <4>1. h = g /\ y.job \in allQueued /\ HeldBy(g, y.job)
        BY <1>2, <3>2, CycleTyped DEF ListCompleted, HeldBy, Exists
      <4> QED  BY <1>1, <4>1 DEF IInv, TypeOK
    <3> QED  BY <3>1, <3>2
  <2>2. /\ \A h \in Kinds : spc'[h] \in {"create", "summarizing"} => spc'[h] = spc[h]
        /\ UNCHANGED <<screated, skey, sjob, summ>>
        /\ \A h \in Kinds : spc'[h] = "mark" => spc[h] = "mark"
    BY <1>2, CycleTyped DEF ListCompleted, Goto
  <2>3. \A h \in Kinds : spc'[h] \in {"create", "summarizing"} => HeldBy(h, sjob[h])'
    BY <1>1, <2>2 DEF HeldInv, IInv, LocalsInv, HeldBy, Exists
  <2>4. \A h \in Kinds : \A y \in Keys' : Working(h, y)' => HeldBy(h, y[1])'
    BY <1>1, <2>2, KeysSame DEF HeldInv, Working, Keys, SummKey
  <2> QED  BY <1>1, <2>1, <2>2, <2>3, <2>4 DEF HeldInv
<1>3. CASE x \in slisted[g] /\ SinkEnd(g, x)
  <2>1. x.job \in Jobs /\ HeldBy(g, x.job)
    BY <1>3, CycleTyped DEF HeldInv, Listed
  <2>2. /\ \A h \in Kinds : /\ slisted'[h] \subseteq slisted[h]
                            /\ spc'[h] \in {"create", "summarizing"} =>
                                  \/ h = g /\ sjob'[h] = x.job
                                  \/ spc'[h] = spc[h] /\ sjob'[h] = sjob[h]
                            /\ spc'[h] = "mark" => spc[h] = "mark"
        /\ UNCHANGED <<screated, skey, summ>>
    BY <1>3, CycleTyped DEF SinkEnd, Goto, Unlist
  <2>3. \A h \in Kinds : spc'[h] \in {"create", "summarizing"} => HeldBy(h, sjob[h])'
    BY <1>1, <2>1, <2>2 DEF HeldInv, IInv, LocalsInv, HeldBy, Exists
  <2>4. \A h \in Kinds : \A y \in Keys' : Working(h, y)' => HeldBy(h, y[1])'
    BY <1>1, <2>2, KeysSame DEF HeldInv, Working, Keys, SummKey
  <2>5. \A h \in Kinds : \A y \in slisted'[h] : HeldBy(h, y.job)'
    BY <1>1, <2>2, CycleTyped DEF HeldInv, Listed
  <2> QED  BY <1>1, <2>2, <2>3, <2>4, <2>5 DEF HeldInv
<1>4. CASE CreateSummarizer(g)
  <2>1. /\ \A h \in Kinds : /\ spc'[h] \in {"create", "summarizing"} =>
                                  spc[h] \in {"create", "summarizing"}
                            /\ spc'[h] = "mark" => spc[h] = "mark"
        /\ UNCHANGED <<slisted, screated, skey, sjob>>
        /\ spc[g] = "create"
    BY <1>4, CycleTyped DEF CreateSummarizer, Goto
  <2>2. /\ \A y \in Keys' \ Keys : y[1] = sjob[g]
        /\ \A j \in Jobs : Len(summ'[j]) = Len(summ[j]) \/ j = sjob[g]
    BY <1>4, CreateFacts DEF IInv
  <2>3. sjob[g] \in Jobs /\ HeldBy(g, sjob[g]) /\ screated[g] \subseteq Keys
    BY <2>1 DEF HeldInv, IInv, LocalsInv
  <2>4. \A h \in Kinds : \A y \in Keys' : Working(h, y)' => HeldBy(h, y[1])'
    <3>1. ASSUME NEW h \in Kinds, NEW y \in Keys', Working(h, y)'
          PROVE  y \in Keys /\ Working(h, y)
      BY <2>1, <3>1 DEF Working, IInv, LocalsInv
    <3> QED  BY <1>1, <3>1 DEF HeldInv, Keys, SummKey
  <2>5. \A h \in Kinds : spc'[h] \in {"create", "summarizing"} => HeldBy(h, sjob[h])'
    BY <1>1, <2>1 DEF HeldInv, IInv, LocalsInv, HeldBy, Exists
  <2>6. \A h \in Kinds : \A y \in slisted'[h] : HeldBy(h, y.job)'
    BY <1>1, <2>1, CycleTyped DEF HeldInv, Listed
  <2>7. \A j \in Jobs : Len(summ'[j]) > 0 => Exists(j)'
    BY <1>1, <2>2, <2>3 DEF HeldInv, HeldBy
  <2> QED  BY <2>4, <2>5, <2>6, <2>7 DEF HeldInv
<1>5. CASE FetchSummarizers(g)
  <2>1. /\ \A h \in Kinds : /\ spc'[h] \in {"create", "summarizing"} => spc'[h] = spc[h]
                            /\ spc'[h] = "mark" => spc[h] = "mark"
                            /\ \A y \in screated'[h] : y \in screated[h] \/ (h = g /\ y \in Keys /\ trig[y[1]] = g)
        /\ UNCHANGED <<slisted, skey, sjob, summ>>
    BY <1>5, CycleTyped DEF FetchSummarizers, Goto
  <2>2. \A y \in Keys : y[1] \in Jobs /\ Exists(y[1])
    <3> SUFFICES ASSUME NEW y \in Keys
                 PROVE  y[1] \in Jobs /\ Exists(y[1])
      OBVIOUS
    <3>1. y[1] \in Jobs /\ y[2] \in 1..(1 + MaxFaults) /\ y[2] <= Len(summ[y[1]])
      BY DEF Keys, SummKey
    <3>2. Len(summ[y[1]]) \in Nat
      BY <3>1, LenProperties DEF IInv, TypeOK
    <3> QED  BY <3>1, <3>2, JobBounds DEF HeldInv
  <2>3. \A h \in Kinds : \A y \in Keys' : Working(h, y)' => HeldBy(h, y[1])'
    <3> SUFFICES ASSUME NEW h \in Kinds, NEW y \in Keys, Working(h, y)'
                 PROVE  HeldBy(h, y[1])
      BY <1>1, <2>1, KeysSame DEF Keys, SummKey
    <3>1. Working(h, y) \/ (h = g /\ trig[y[1]] = g)
      BY <2>1 DEF Working
    <3> QED  BY <2>2, <3>1 DEF HeldInv, HeldBy
  <2>4. \A h \in Kinds : spc'[h] \in {"create", "summarizing"} => HeldBy(h, sjob[h])'
    BY <1>1, <2>1 DEF HeldInv, IInv, LocalsInv, HeldBy, Exists
  <2>5. \A h \in Kinds : \A y \in slisted'[h] : HeldBy(h, y.job)'
    BY <1>1, <2>1, CycleTyped DEF HeldInv, Listed
  <2> QED  BY <1>1, <2>1, <2>3, <2>4, <2>5 DEF HeldInv
<1> QED  BY <1>2, <1>3, <1>4, <1>5

(* What is finished or canceled exists. *)
LEMMA ExistStep ==
    ASSUME IInv, ExistInv, JobMoves, Step
    PROVE  ExistInv'
<1>1. CASE NothingEnded
  <2>1. cpc' # "idle" => Exists(cjob)'
    <3>1. cpc' # "idle" => cjob' = cjob /\ cjob \in Jobs /\ Exists(cjob)
      BY <1>1 DEF NothingEnded, ExistInv, IInv, LocalsInv
    <3> QED  BY <3>1, JobsStay DEF Exists
  <2>2. ASSUME NEW g \in Kinds, NEW j \in sending'[g]
        PROVE  Exists(j)'
    BY <1>1, <2>2, CycleTyped, JobsStay DEF NothingEnded, ExistInv
  <2>3. ASSUME NEW g \in Kinds, spc'[g] \in {"succeed", "fail"}
        PROVE  Exists(sjob[g])'
    <3>1. sjob'[g] = sjob[g] /\ sjob[g] \in Jobs /\ Exists(sjob[g])
      BY <1>1, <2>3 DEF NothingEnded, ExistInv, IInv, LocalsInv
    <3> QED  BY <3>1, JobsStay DEF Exists
  <2> QED  BY <2>1, <2>2, <2>3 DEF ExistInv
<1>2. ASSUME NEW j \in Jobs, Cancelable(j), CancelRead(j)
      PROVE  ExistInv'
  <2>1. jstatus' = jstatus /\ cjob' = j /\ Exists(j) /\ UNCHANGED <<sending, spc, sjob>>
    BY <1>2 DEF CancelRead, Cancelable, Exists
  <2> QED  BY <2>1 DEF ExistInv, Exists
<1>3. ASSUME NEW g \in Kinds, ListEnded(g)
      PROVE  ExistInv'
  <2>1. /\ UNCHANGED <<jstatus, cpc, cjob, sjob>>
        /\ \A h \in Kinds : spc'[h] \in {"succeed", "fail"} => spc'[h] = spc[h]
    BY <1>3, CycleTyped DEF ListEnded, Goto
  <2>2. \A h \in Kinds : \A j \in sending'[h] :
           j \in sending[h] \/ jstatus[j] = "SUMMARIZER_IN_PROGRESS"
    BY <1>3, CycleTyped DEF ListEnded
  <2> QED  BY <2>1, <2>2 DEF ExistInv, Exists
<1>4. ASSUME NEW g \in Kinds, NEW j \in sending[g], FinishRead(g, j)
      PROVE  ExistInv'
  <2>1. /\ UNCHANGED <<jstatus, cpc, cjob>>
        /\ \A h \in Kinds : /\ sending'[h] \subseteq sending[h]
                            /\ spc'[h] \in {"succeed", "fail"} =>
                                  \/ h = g /\ sjob'[h] = j
                                  \/ spc'[h] = spc[h] /\ sjob'[h] = sjob[h]
    BY <1>4, CycleTyped DEF FinishRead, Goto
  <2> QED  BY <1>4, <2>1 DEF ExistInv, Exists
<1> QED  BY <1>1, <1>2, <1>3, <1>4, StepEnded

(* The three parts together, for a step, a start and a stutter. *)
LEMMA OwnStep ==
    ASSUME IInv, OwnInv, Step
    PROVE  OwnInv'
<1>1. JobMoves /\ Numbered'
  BY StepJobs
<1>2. HeldInv /\ ExistInv
  BY DEF OwnInv
<1>3. HeldInv'
  BY <1>1, <1>2, StepTaken, HeldKept, HeldTaken
<1>4. ExistInv'
  BY <1>1, <1>2, ExistStep
<1> QED  BY <1>1, <1>3, <1>4 DEF OwnInv

LEMMA InitOwn == Init => OwnInv
<1> SUFFICES ASSUME Init PROVE OwnInv
  OBVIOUS
<1>1. Numbered
  <2>1. Created = 1..0
    BY DEF Init, Created
  <2> QED  BY <2>1, NJobsAssumption DEF Numbered
<1>2. HeldInv /\ ExistInv
  BY EmptySeq DEF Init, HeldInv, ExistInv, Working
<1> QED  BY <1>1, <1>2 DEF OwnInv

LEMMA StutterOwn ==
    ASSUME OwnInv, UNCHANGED vars
    PROVE  OwnInv'
<1>1. Numbered'
  BY DEF OwnInv, Numbered, Created, vars
<1>2. HeldInv'
  BY KeysSame DEF OwnInv, HeldInv, HeldBy, Exists, Working, vars
<1>3. ExistInv'
  BY DEF OwnInv, ExistInv, Exists, vars
<1> QED  BY <1>1, <1>2, <1>3 DEF OwnInv

(* A job that has ended changes its status only by the write of a cycle or *)
(* of a request that read it before: every statement that looks at the     *)
(* status - the interval, the time-out, the enqueuer's - leaves it alone.  *)
THEOREM EndKept == Spec => EndIsFinal
<1>1. ASSUME IInv, OwnInv, Step, NEW j \in Jobs, jstatus[j] \in Terminal, jstatus'[j] # jstatus[j]
      PROVE  HoldsJob(j)
  <2>1. JobMove(j)
    BY <1>1, StepJobs DEF JobMoves
  <2> QED  BY <1>1, <2>1 DEF JobMove, HoldsJob, Terminal, Running
<1>2. IInv /\ OwnInv /\ [Next]_vars => (IInv /\ OwnInv)'
  BY StepTyped, StutterTyped, OwnStep, StutterOwn DEF Next
<1>3. IInv /\ OwnInv /\ [Next]_vars
         => [\A j \in Jobs : jstatus[j] \in Terminal /\ jstatus'[j] # jstatus[j] => HoldsJob(j)]_vars
  BY <1>1 DEF Next
<1> QED  BY InitTyped, InitOwn, <1>2, <1>3, PTL DEF Spec, EndIsFinal

-----------------------------------------------------------------------------
(* One summarizer for a job. *)

(* A job that may still get a summarizer, and one that just got it and     *)
(* whose status is not written yet.                                        *)
Owed(j) == \/ jstatus[j] \in {"NONE", "CREATED", "RUNNERS_IN_PROGRESS", "SINK_IN_PROGRESS"}
           \/ \E g \in Kinds : \/ \E x \in slisted[g] : x.job = j
                               \/ spc[g] = "create" /\ sjob[g] = j
JustMade(j) == \E g \in Kinds : spc[g] = "summarizing" /\ sjob[g] = j

(* As long as a job may get a summarizer, a fault was the end of each      *)
(* cycle that made one before.                                             *)
SummInv ==
    /\ \A j \in Jobs : /\ Len(summ[j]) <= 1 + faults
                       /\ Owed(j) /\ ~JustMade(j) => Len(summ[j]) <= faults
    /\ \A g \in Kinds :
          /\ \A x, y \in slisted[g] : x.job = y.job => x = y
          /\ spc[g] \in {"create", "summarizing"} => \A x \in slisted[g] : x.job # sjob[g]

(* A cycle leaves the place between the two statements by the second one,  *)
(* or by a fault.                                                          *)
MadeKept(g) == spc[g] = "summarizing" => \/ spc'[g] = "summarizing" /\ sjob'[g] = sjob[g]
                                         \/ faults' = faults + 1

(* No other step ends the time between the two statements. *)
LEMMA StepFaults ==
    ASSUME IInv, Step
    PROVE  /\ faults' \in {faults, faults + 1}
           /\ \A g \in Kinds : SetSummarizing(g) \/ MadeKept(g)
<1>1. ASSUME NEW k \in Kinds, TriggerAct(k)
      PROVE  faults' \in {faults, faults + 1} /\ \A g \in Kinds : MadeKept(g)
  BY <1>1 DEF TriggerAct, TriggerRead, TriggerPurge, TriggerCreate, TriggerFails, MadeKept
<1>2. ASSUME NEW j, EnqueueAct(j)
      PROVE  faults' \in {faults, faults + 1} /\ \A g \in Kinds : MadeKept(g)
  BY <1>2 DEF EnqueueAct, EnqueueList, EnqueueRead, EnqueueWrite, EnqueueFails, MadeKept
<1>3. ASSUME NEW j, NEW x, CancelAct(j, x)
      PROVE  faults' \in {faults, faults + 1} /\ \A g \in Kinds : MadeKept(g)
  BY <1>3 DEF CancelAct, CancelRead, CancelRows, CancelRow, CancelRowFails, CancelJob, MadeKept
<1>4. ASSUME NEW r, NEW j, NEW x, OtherAct(r, j, x)
      PROVE  faults' \in {faults, faults + 1} /\ \A g \in Kinds : MadeKept(g)
  BY <1>4 DEF OtherAct, Restart, RunnerMoves, JobAges, JobRests, SummarizerRests, MadeKept
<1>5. ASSUME NEW m, SummarizerAct(m)
      PROVE  faults' \in {faults, faults + 1} /\ \A g \in Kinds : MadeKept(g)
  BY <1>5 DEF SummarizerAct, SummarizerResult, SummarizerWork, SummarizerLost, MadeKept
<1>6. ASSUME NEW h \in Kinds, NEW x, ListAct(h, x)
      PROVE  /\ faults' \in {faults, faults + 1}
             /\ \A g \in Kinds : SetSummarizing(g) \/ MadeKept(g)
  <2>1. CASE SetSummarizing(h)
    BY <2>1, CycleTyped DEF SetSummarizing, Goto, MadeKept
  <2> QED  BY <1>6, <2>1, CycleTyped
           DEF ListAct, SetJobToRunnersInProgress, ExpireJobs, ListCompleted, SinkBegin,
               SinkWait, SinkEnd, CreateSummarizer, Goto, NextListed, MadeKept
<1>7. ASSUME NEW h \in Kinds, NEW x, SendAct(h, x)
      PROVE  faults' \in {faults, faults + 1} /\ \A g \in Kinds : MadeKept(g)
  BY <1>7, CycleTyped
     DEF SendAct, FetchSummarizers, ProduceSummarizer, ProduceFails, MarkSummarizer, Goto, MadeKept
<1>8. ASSUME NEW h \in Kinds, NEW j, FinishAct(h, j)
      PROVE  faults' \in {faults, faults + 1} /\ \A g \in Kinds : MadeKept(g)
  BY <1>8, CycleTyped
     DEF FinishAct, ListEnded, FinishRead, Verdict, FinishWrite, RetrySummarizers, CycleFails,
         Goto, MadeKept
<1> QED  BY <1>1, <1>2, <1>3, <1>4, <1>5, <1>6, <1>7, <1>8, StepCases

(* The number of summarizers, and of faults, is a number. *)
LEMMA SummTyped ==
    ASSUME IInv
    PROVE  faults \in Nat /\ \A j \in Jobs : Len(summ[j]) \in Nat
BY LenProperties, JobBounds DEF IInv, TypeOK

(* Nothing taken, and nothing finished being made. *)
LEMMA SummKept ==
    ASSUME IInv, SummInv, JobMoves, NothingTaken, faults' \in {faults, faults + 1},
           \A g \in Kinds : MadeKept(g)
    PROVE  SummInv'
<1>1. ASSUME NEW j \in Jobs
      PROVE  Len(summ'[j]) <= 1 + faults'
  BY SummTyped DEF NothingTaken, SummInv
<1>2. ASSUME NEW j \in Jobs, Owed(j)', ~JustMade(j)'
      PROVE  Len(summ'[j]) <= faults'
  <2>1. Owed(j)
    BY <1>2 DEF Owed, NothingTaken, JobMoves, JobMove
  <2>2. CASE JustMade(j)
    <3>1. faults' = faults + 1
      BY <1>2, <2>2 DEF JustMade, MadeKept
    <3> QED  BY <3>1, SummTyped DEF NothingTaken, SummInv
  <2>3. CASE ~JustMade(j)
    BY <2>1, <2>3, SummTyped DEF NothingTaken, SummInv
  <2> QED  BY <2>2, <2>3
<1>3. ASSUME NEW g \in Kinds
      PROVE  /\ \A x, y \in slisted'[g] : x.job = y.job => x = y
             /\ spc'[g] \in {"create", "summarizing"} => \A x \in slisted'[g] : x.job # sjob'[g]
  BY DEF NothingTaken, SummInv
<1> QED  BY <1>1, <1>2, <1>3 DEF SummInv

(* The write of the status, after which the job is not owed one any more.  *)
LEMMA SummWritten ==
    ASSUME IInv, OwnInv, SummInv, NEW g \in Kinds, SetSummarizing(g)
    PROVE  SummInv'
<1>1. sjob[g] \in Jobs /\ HeldBy(g, sjob[g]) /\ spc[g] = "summarizing"
  BY DEF SetSummarizing, IInv, LocalsInv, OwnInv, HeldInv
<1>2. /\ jstatus' = [jstatus EXCEPT ![sjob[g]] = "SUMMARIZER_IN_PROGRESS"]
      /\ UNCHANGED <<summ, faults, slisted>>
      /\ \A h \in Kinds : IF h = g THEN spc'[h] \notin {"create", "summarizing"}
                          ELSE spc'[h] = spc[h] /\ sjob'[h] = sjob[h]
  BY CycleTyped DEF SetSummarizing, SetJob, Goto
<1>3. jstatus \in [Jobs -> JobStatus]
  BY DEF IInv, TypeOK
<1>4. ASSUME NEW j \in Jobs, j = sjob[g]
      PROVE  ~Owed(j)'
  <2>1. jstatus'[sjob[g]] = "SUMMARIZER_IN_PROGRESS"
    BY <1>1, <1>2, <1>3
  <2>2. ASSUME NEW h \in Kinds, NEW x \in slisted[h], x.job = sjob[g]
        PROVE  FALSE
    <3>1. HeldBy(h, sjob[g])
      BY <2>2 DEF OwnInv, HeldInv
    <3>2. h = g
      BY <1>1, <3>1 DEF HeldBy
    <3> QED  BY <1>1, <2>2, <3>2 DEF SummInv
  <2>3. ASSUME NEW h \in Kinds, spc'[h] = "create", sjob'[h] = sjob[g]
        PROVE  FALSE
    <3>1. h # g /\ spc[h] = "create" /\ sjob[h] = sjob[g]
      BY <1>2, <2>3
    <3>2. HeldBy(h, sjob[g])
      BY <3>1 DEF OwnInv, HeldInv
    <3> QED  BY <1>1, <3>1, <3>2 DEF HeldBy
  <2>4. ~\E h \in Kinds : \/ \E x \in slisted'[h] : x.job = sjob[g]
                          \/ spc'[h] = "create" /\ sjob'[h] = sjob[g]
    BY <1>2, <2>2, <2>3
  <2> QED  BY <1>4, <2>1, <2>4 DEF Owed
<1>5. ASSUME NEW j \in Jobs, Owed(j)', ~JustMade(j)'
      PROVE  Len(summ'[j]) <= faults'
  <2>1. j # sjob[g]
    BY <1>4, <1>5
  <2>2. Owed(j) /\ ~JustMade(j)
    BY <1>1, <1>2, <1>3, <1>5, <2>1 DEF Owed, JustMade
  <2> QED  BY <1>2, <2>2 DEF SummInv
<1>6. \A h \in Kinds :
         spc'[h] \in {"create", "summarizing"} => \A x \in slisted'[h] : x.job # sjob'[h]
  BY <1>2 DEF SummInv
<1> QED  BY <1>2, <1>5, <1>6 DEF SummInv

(* The statements that list jobs, make summarizers and fetch them. *)
LEMMA SummTaken ==
    ASSUME IInv, OwnInv, SummInv, NEW g \in Kinds, NEW x,
           \/ ListCompleted(g)
           \/ x \in slisted[g] /\ SinkEnd(g, x)
           \/ CreateSummarizer(g)
           \/ FetchSummarizers(g)
    PROVE  SummInv'
<1>1. jstatus' = jstatus /\ faults' = faults
  BY DEF ListCompleted, SinkEnd, CreateSummarizer, FetchSummarizers
<1>2. CASE ListCompleted(g)
  <2>1. /\ \A h \in Kinds : /\ h # g => slisted'[h] = slisted[h]
                            /\ h = g => spc'[h] \notin {"create", "summarizing"}
                                        /\ spc[h] \notin {"create", "summarizing"}
                            /\ h # g => spc'[h] = spc[h]
        /\ UNCHANGED <<summ, sjob>>
    BY <1>2, CycleTyped DEF ListCompleted, Goto
  <2>2. /\ \A y \in slisted'[g] : jstatus[y.job] \in {"RUNNERS_IN_PROGRESS", "SINK_IN_PROGRESS"}
        /\ \A y, z \in slisted'[g] : y.job = z.job => y = z
    BY <1>2, CycleTyped DEF ListCompleted
  <2>3. ASSUME NEW j \in Jobs, Owed(j)', ~JustMade(j)'
        PROVE  Len(summ'[j]) <= faults'
    <3>1. Owed(j)
      BY <1>1, <2>1, <2>2, <2>3 DEF Owed
    <3>2. ~JustMade(j)
      BY <2>1, <2>3 DEF JustMade
    <3> QED  BY <1>1, <2>1, <3>1, <3>2 DEF SummInv
  <2>4. ASSUME NEW h \in Kinds
        PROVE  /\ \A y, z \in slisted'[h] : y.job = z.job => y = z
               /\ spc'[h] \in {"create", "summarizing"} => \A y \in slisted'[h] : y.job # sjob'[h]
    BY <2>1, <2>2 DEF SummInv
  <2> QED  BY <1>1, <2>1, <2>3, <2>4 DEF SummInv
<1>3. CASE x \in slisted[g] /\ SinkEnd(g, x)
  <2>1. /\ \A h \in Kinds : IF h = g
                            THEN /\ slisted'[h] = slisted[h] \ {x} /\ sjob'[h] = x.job
                                 /\ spc'[h] = "create" /\ spc[h] = "sink"
                            ELSE slisted'[h] = slisted[h] /\ sjob'[h] = sjob[h] /\ spc'[h] = spc[h]
        /\ summ' = summ
    BY <1>3, CycleTyped DEF SinkEnd, Goto, Unlist
  <2>2. ASSUME NEW j \in Jobs, Owed(j)', ~JustMade(j)'
        PROVE  Len(summ'[j]) <= faults'
    <3>1. Owed(j)
      BY <1>1, <1>3, <2>1, <2>2 DEF Owed
    <3>2. ~JustMade(j)
      BY <2>1, <2>2 DEF JustMade
    <3> QED  BY <1>1, <2>1, <3>1, <3>2 DEF SummInv
  <2>3. ASSUME NEW h \in Kinds
        PROVE  /\ \A y, z \in slisted'[h] : y.job = z.job => y = z
               /\ spc'[h] \in {"create", "summarizing"} => \A y \in slisted'[h] : y.job # sjob'[h]
    BY <1>3, <2>1 DEF SummInv
  <2> QED  BY <1>1, <2>1, <2>2, <2>3 DEF SummInv
<1>4. CASE CreateSummarizer(g)
  <2>1. /\ \A h \in Kinds : IF h = g THEN spc'[h] = "summarizing" ELSE spc'[h] = spc[h]
        /\ spc[g] = "create" /\ UNCHANGED <<slisted, sjob>>
    BY <1>4, CycleTyped DEF CreateSummarizer, Goto
  <2>2. \A j \in Jobs : Len(summ'[j]) = IF j = sjob[g] THEN Len(summ[j]) + 1 ELSE Len(summ[j])
    BY <1>4, CreateFacts DEF IInv
  <2>3. Len(summ[sjob[g]]) <= faults
    <3>1. sjob[g] \in Jobs /\ HeldBy(g, sjob[g]) /\ Owed(sjob[g])
      BY <2>1 DEF IInv, LocalsInv, OwnInv, HeldInv, Owed
    <3>2. ~JustMade(sjob[g])
      <4> SUFFICES ASSUME NEW h \in Kinds, spc[h] = "summarizing", sjob[h] = sjob[g]
                   PROVE  FALSE
        BY DEF JustMade
      <4>1. HeldBy(h, sjob[g])
        BY DEF OwnInv, HeldInv
      <4> QED  BY <2>1, <3>1, <4>1 DEF HeldBy
    <3> QED  BY <3>1, <3>2 DEF SummInv
  <2>4. ASSUME NEW j \in Jobs
        PROVE  Len(summ'[j]) <= 1 + faults'
    BY <1>1, <2>2, <2>3, SummTyped DEF SummInv
  <2>5. ASSUME NEW j \in Jobs, Owed(j)', ~JustMade(j)'
        PROVE  Len(summ'[j]) <= faults'
    <3>1. j # sjob[g]
      BY <2>1, <2>5 DEF JustMade
    <3>2. Owed(j) /\ ~JustMade(j)
      BY <1>1, <2>1, <2>5 DEF Owed, JustMade
    <3> QED  BY <1>1, <2>2, <3>1, <3>2 DEF SummInv
  <2>6. ASSUME NEW h \in Kinds
        PROVE  /\ \A y, z \in slisted'[h] : y.job = z.job => y = z
               /\ spc'[h] \in {"create", "summarizing"} => \A y \in slisted'[h] : y.job # sjob'[h]
    BY <2>1 DEF SummInv
  <2> QED  BY <2>4, <2>5, <2>6 DEF SummInv
<1>5. CASE FetchSummarizers(g)
  <2>1. /\ \A h \in Kinds : /\ spc'[h] = "create" <=> spc[h] = "create"
                            /\ spc'[h] = "summarizing" <=> spc[h] = "summarizing"
        /\ UNCHANGED <<slisted, sjob, summ>>
    BY <1>5, CycleTyped DEF FetchSummarizers, Goto
  <2>2. ASSUME NEW j \in Jobs
        PROVE  (Owed(j)' => Owed(j)) /\ (JustMade(j) => JustMade(j)')
    BY <1>1, <2>1 DEF Owed, JustMade
  <2> QED  BY <1>1, <2>1, <2>2 DEF SummInv
<1> QED  BY <1>2, <1>3, <1>4, <1>5

(* All the steps, a start and a stutter. *)
LEMMA SummStep ==
    ASSUME IInv, OwnInv, SummInv, Step
    PROVE  SummInv'
<1>1. JobMoves /\ faults' \in {faults, faults + 1}
  BY StepJobs, StepFaults
<1>2. CASE \E g \in Kinds : SetSummarizing(g)
  BY <1>2, SummWritten
<1>3. CASE \A g \in Kinds : MadeKept(g)
  BY <1>1, <1>3, StepTaken, SummKept, SummTaken
<1> QED  BY <1>2, <1>3, StepFaults

LEMMA InitSumm == Init => SummInv
BY EmptySeq DEF Init, SummInv

LEMMA StutterSumm ==
    ASSUME SummInv, UNCHANGED vars
    PROVE  SummInv'
BY DEF SummInv, Owed, JustMade, vars

(* However the two cycles, cancel requests and restarts interleave, a job  *)
(* gets at most one summarizer, and one more for each fault that came      *)
(* between CreateSummarizerJob and the update of the job.                  *)
THEOREM OneSummarizerMade == Spec => []OneSummarizer
<1>1. IInv /\ OwnInv /\ SummInv /\ [Next]_vars => (IInv /\ OwnInv /\ SummInv)'
  BY StepTyped, StutterTyped, OwnStep, StutterOwn, SummStep, StutterSumm DEF Next
<1>2. SummInv => OneSummarizer
  BY DEF SummInv, OneSummarizer
<1> QED  BY InitTyped, InitOwn, InitSumm, <1>1, <1>2, PTL DEF Spec

-----------------------------------------------------------------------------
(* Success is reported. *)

(* Where a job has no report yet, it is not SUCCEEDED, none of its         *)
(* summarizers is, one that a cycle is sending has not failed, and a job   *)
(* that is to be finished has a summarizer that failed for the last time   *)
(* and will therefore fail.                                                *)
ReportInv ==
    /\ \A j \in Jobs : jstatus[j] = "SUCCEEDED" => j \in reported
    /\ \A x \in Keys : SummOf(x).status = "SUCCEEDED" => x[1] \in reported
    /\ \A g \in Kinds :
          /\ spc[g] = "succeed" => sjob[g] \in reported
          /\ \A x \in Keys : Working(g, x) /\ SummOf(x).status = "FAILED" => x[1] \in reported
          /\ \A j \in sending[g] :
                \/ j \in reported
                \/ \E x \in Keys : /\ x[1] = j /\ SummOf(x).status = "FAILED"
                                   /\ SummOf(x).retry >= MaxRetries

(* No summarizer more is sent, no job more is to be finished. *)
ReportQuiet ==
    \A g \in Kinds : /\ \A x \in Keys : Working(g, x)' => Working(g, x)
                     /\ sending'[g] \subseteq sending[g]
                     /\ spc'[g] = "succeed" => spc[g] = "succeed" /\ sjob'[g] = sjob[g]

(* Steps that write and send no summarizer. *)
LEMMA ReportKept ==
    ASSUME IInv, ReportInv, JobMoves, ReportQuiet, summ' = summ, reported' = reported
    PROVE  ReportInv'
<1>1. Keys' = Keys /\ \A y \in Keys : SummOf(y)' = SummOf(y)
  BY KeysSame
<1>2. \A j \in Jobs : jstatus'[j] = "SUCCEEDED" => j \in reported
  BY DEF JobMoves, JobMove, ReportInv
<1>3. ASSUME NEW g \in Kinds
      PROVE  /\ spc'[g] = "succeed" => sjob'[g] \in reported
             /\ \A x \in Keys : Working(g, x)' /\ SummOf(x).status = "FAILED" => x[1] \in reported
             /\ \A j \in sending'[g] :
                   \/ j \in reported
                   \/ \E x \in Keys : /\ x[1] = j /\ SummOf(x).status = "FAILED"
                                      /\ SummOf(x).retry >= MaxRetries
  BY DEF ReportQuiet, ReportInv
<1> QED  BY <1>1, <1>2, <1>3 DEF ReportInv

(* What the statements that write no summarizer do here. *)
LEMMA StepQuiet ==
    ASSUME IInv, Step
    PROVE  \/ ReportQuiet /\ summ' = summ /\ reported' = reported
           \/ \E m \in sresults : SummarizerResult(m)
           \/ \E g \in Kinds :
                 \/ CreateSummarizer(g) \/ FetchSummarizers(g)
                 \/ \E x \in screated[g] : ProduceFails(g, x)
                 \/ MarkSummarizer(g) \/ ListEnded(g) \/ RetrySummarizers(g)
                 \/ \E j \in sending[g] : FinishRead(g, j)
<1> DEFINE Quiet == ReportQuiet /\ summ' = summ /\ reported' = reported
<1>1. ASSUME NEW k \in Kinds, TriggerAct(k)
      PROVE  Quiet
  BY <1>1 DEF TriggerAct, TriggerRead, TriggerPurge, TriggerCreate, TriggerFails, ReportQuiet, Working
<1>2. ASSUME NEW j, EnqueueAct(j)
      PROVE  Quiet
  BY <1>2 DEF EnqueueAct, EnqueueList, EnqueueRead, EnqueueWrite, EnqueueFails, ReportQuiet, Working
<1>3. ASSUME NEW j, NEW x, CancelAct(j, x)
      PROVE  Quiet
  BY <1>3 DEF CancelAct, CancelRead, CancelRows, CancelRow, CancelRowFails, CancelJob,
              ReportQuiet, Working
<1>4. ASSUME NEW r, NEW j, NEW x, OtherAct(r, j, x)
      PROVE  Quiet
  BY <1>4 DEF OtherAct, Restart, RunnerMoves, JobAges, JobRests, SummarizerRests, ReportQuiet, Working
<1>5. ASSUME NEW m, SummarizerAct(m)
      PROVE  Quiet \/ (m \in sresults /\ SummarizerResult(m))
  BY <1>5 DEF SummarizerAct, SummarizerWork, SummarizerLost, ReportQuiet, Working
<1>6. ASSUME NEW h \in Kinds, NEW x, ListAct(h, x)
      PROVE  Quiet \/ CreateSummarizer(h)
  BY <1>6, CycleTyped
     DEF ListAct, SetJobToRunnersInProgress, ExpireJobs, ListCompleted, SinkBegin, SinkWait,
         SinkEnd, SetSummarizing, Goto, NextListed, ReportQuiet, Working
<1>7. ASSUME NEW h \in Kinds, NEW x, SendAct(h, x)
      PROVE  \/ Quiet \/ FetchSummarizers(h) \/ MarkSummarizer(h)
             \/ x \in screated[h] /\ ProduceFails(h, x)
  <2>1. CASE x \in screated[h] /\ ProduceSummarizer(h, x)
    BY <2>1, CycleTyped DEF ProduceSummarizer, Goto, ReportQuiet, Working
  <2> QED  BY <1>7, <2>1 DEF SendAct
<1>8. ASSUME NEW h \in Kinds, NEW j, FinishAct(h, j)
      PROVE  \/ Quiet \/ ListEnded(h) \/ RetrySummarizers(h)
             \/ j \in sending[h] /\ FinishRead(h, j)
  BY <1>8, CycleTyped DEF FinishAct, FinishWrite, CycleFails, Goto, ReportQuiet, Working
<1> HIDE DEF Quiet
<1>9. CASE \E h \in Kinds : \E x : ListAct(h, x)
  BY <1>6, <1>9 DEF Quiet
<1>10. CASE \E h \in Kinds : \E x : SendAct(h, x)
  BY <1>7, <1>10 DEF Quiet
<1>11. CASE \E h \in Kinds : \E j : FinishAct(h, j)
  BY <1>8, <1>11 DEF Quiet
<1>12. CASE \E m : SummarizerAct(m)
  BY <1>5, <1>12 DEF Quiet
<1>13. CASE \/ \E k \in Kinds : TriggerAct(k)
            \/ \E j : EnqueueAct(j)
            \/ \E j, x : CancelAct(j, x)
            \/ \E r, j, x : OtherAct(r, j, x)
  BY <1>1, <1>2, <1>3, <1>4, <1>13 DEF Quiet
<1> QED  BY <1>9, <1>10, <1>11, <1>12, <1>13, StepCases

(* The statements that write summarizers, one by one. *)
LEMMA ReportResult ==
    ASSUME IInv, ReportInv, NEW m \in sresults, SummarizerResult(m)
    PROVE  ReportInv'
<1> DEFINE k == m.key
<1>1. k \in Keys /\ m.status \in SummStatus /\ SetSumm(k, m.status)
  BY DEF IInv, TypeOK, LocalsInv, SummarizerResult, SummRes, SummStatus
<1>2. /\ Keys' = Keys
      /\ \A y \in Keys : /\ SummOf(y)'.retry = SummOf(y).retry
                         /\ y # k => SummOf(y)'.status = SummOf(y).status
  BY <1>1, SetSummFacts DEF IInv
<1>3. reported' = reported \cup {k[1]} /\ UNCHANGED <<jstatus, cycVars>>
  BY DEF SummarizerResult
<1> HIDE DEF k
<1>4. ASSUME NEW g \in Kinds, NEW j \in sending[g]
      PROVE  \/ j \in reported'
             \/ \E x \in Keys : /\ x[1] = j /\ SummOf(x)'.status = "FAILED"
                                /\ SummOf(x)'.retry >= MaxRetries
  <2>1. CASE j \in reported
    BY <1>3, <2>1
  <2>2. CASE j \notin reported
    <3>1. PICK x \in Keys : x[1] = j /\ SummOf(x).status = "FAILED" /\ SummOf(x).retry >= MaxRetries
      BY <2>2 DEF ReportInv
    <3>2. CASE x = k
      BY <1>3, <3>1, <3>2
    <3>3. CASE x # k
      BY <1>2, <3>1, <3>3
    <3> QED  BY <3>2, <3>3
  <2> QED  BY <2>1, <2>2
<1>5. \A x \in Keys : SummOf(x)'.status = "SUCCEEDED" => x[1] \in reported'
  BY <1>2, <1>3 DEF ReportInv
<1>6. \A g \in Kinds : \A x \in Keys :
         Working(g, x)' /\ SummOf(x)'.status = "FAILED" => x[1] \in reported'
  BY <1>2, <1>3 DEF ReportInv, Working
<1> QED  BY <1>2, <1>3, <1>4, <1>5, <1>6 DEF ReportInv

(* The summarizer that could not be sent is nobody's any more. *)
LEMMA ReportProduceFails ==
    ASSUME IInv, OwnInv, ReportInv, NEW g \in Kinds, NEW k \in screated[g], ProduceFails(g, k)
    PROVE  ReportInv'
<1>1. k \in Keys /\ "FAILED" \in SummStatus /\ SetSumm(k, "FAILED")
  BY DEF IInv, LocalsInv, ProduceFails, SummStatus
<1>2. /\ Keys' = Keys
      /\ \A y \in Keys : /\ SummOf(y)'.retry = SummOf(y).retry
                         /\ SummOf(y)'.status = IF y = k THEN "FAILED" ELSE SummOf(y).status
  BY <1>1, SetSummFacts DEF IInv
<1>3. /\ UNCHANGED <<jstatus, reported, sending, sjob, skey>>
      /\ spc'[g] = "idle" /\ screated'[g] = {}
      /\ \A h \in Kinds \ {g} : spc'[h] = spc[h] /\ screated'[h] = screated[h]
  BY CycleTyped DEF ProduceFails, Goto
<1>4. ASSUME NEW h \in Kinds, NEW x \in Keys, Working(h, x)', SummOf(x)'.status = "FAILED"
      PROVE  x[1] \in reported
  <2>1. h # g /\ Working(h, x)
    BY <1>3, <1>4 DEF Working
  <2>2. HeldBy(h, x[1]) /\ HeldBy(g, k[1])
    BY <1>1, <2>1 DEF OwnInv, HeldInv, Working
  <2>3. x # k
    BY <2>1, <2>2 DEF HeldBy
  <2> QED  BY <1>2, <1>4, <2>1, <2>3 DEF ReportInv
<1>5. \A x \in Keys : SummOf(x)'.status = "SUCCEEDED" => x[1] \in reported
  BY <1>2 DEF ReportInv
<1>6. ASSUME NEW h \in Kinds, NEW j \in sending[h]
      PROVE  \/ j \in reported
             \/ \E x \in Keys : /\ x[1] = j /\ SummOf(x)'.status = "FAILED"
                                /\ SummOf(x)'.retry >= MaxRetries
  BY <1>2 DEF ReportInv
<1>7. \A h \in Kinds : spc'[h] = "succeed" => sjob[h] \in reported
  BY <1>3 DEF ReportInv
<1> QED  BY <1>2, <1>3, <1>4, <1>5, <1>6, <1>7 DEF ReportInv

(* A failed summarizer is overwritten only if its job is reported. *)
LEMMA ReportMark ==
    ASSUME IInv, ReportInv, NEW g \in Kinds, MarkSummarizer(g)
    PROVE  ReportInv'
<1> DEFINE k == skey[g]
<1>1. k \in Keys /\ "IN_PROGRESS" \in SummStatus /\ SetSumm(k, "IN_PROGRESS") /\ Working(g, k)
  BY DEF IInv, LocalsInv, MarkSummarizer, SummStatus, Working
<1>2. /\ Keys' = Keys
      /\ \A y \in Keys : /\ SummOf(y)'.retry = SummOf(y).retry
                         /\ SummOf(y)'.status = IF y = k THEN "IN_PROGRESS" ELSE SummOf(y).status
  BY <1>1, SetSummFacts DEF IInv
<1>3. /\ UNCHANGED <<jstatus, reported, sending, sjob, screated>>
      /\ spc'[g] \in {"listEnded", "produce"}
      /\ \A h \in Kinds \ {g} : spc'[h] = spc[h] /\ skey'[h] = skey[h]
  BY CycleTyped DEF MarkSummarizer, Goto
<1> HIDE DEF k
<1>4. ASSUME NEW h \in Kinds, NEW x \in Keys, Working(h, x)', SummOf(x)'.status = "FAILED"
      PROVE  x[1] \in reported
  <2>1. Working(h, x)
    BY <1>3, <1>4 DEF Working
  <2> QED  BY <1>2, <1>4, <2>1 DEF ReportInv
<1>5. \A x \in Keys : SummOf(x)'.status = "SUCCEEDED" => x[1] \in reported
  BY <1>2 DEF ReportInv
<1>6. ASSUME NEW h \in Kinds, NEW j \in sending[h], j \notin reported
      PROVE  \E x \in Keys : /\ x[1] = j /\ SummOf(x)'.status = "FAILED"
                             /\ SummOf(x)'.retry >= MaxRetries
  <2>1. PICK x \in Keys : x[1] = j /\ SummOf(x).status = "FAILED" /\ SummOf(x).retry >= MaxRetries
    BY <1>6 DEF ReportInv
  <2>2. x # k
    BY <1>1, <1>6, <2>1 DEF ReportInv
  <2> QED  BY <1>2, <2>1, <2>2
<1>7. \A h \in Kinds : spc'[h] = "succeed" => sjob[h] \in reported
  BY <1>3 DEF ReportInv
<1> QED  BY <1>2, <1>3, <1>4, <1>5, <1>6, <1>7 DEF ReportInv

(* One that failed for the last time is not retried. *)
LEMMA ReportRetry ==
    ASSUME IInv, ReportInv, NEW g \in Kinds, RetrySummarizers(g)
    PROVE  ReportInv'
<1>1. /\ Keys' = Keys
      /\ \A y \in Keys : \/ SummOf(y)' = SummOf(y)
                         \/ /\ SummOf(y).status = "FAILED" /\ SummOf(y).retry < MaxRetries
                            /\ SummOf(y)'.status = "CREATED"
  BY RetryFacts DEF IInv
<1>2. /\ UNCHANGED <<jstatus, reported, sending, sjob, screated, skey>>
      /\ \A h \in Kinds : /\ spc'[h] = "succeed" => spc[h] = "succeed"
                          /\ spc'[h] = "mark" => spc[h] = "mark"
  BY CycleTyped DEF RetrySummarizers, Goto
<1>3. ASSUME NEW h \in Kinds, NEW j \in sending[h], j \notin reported
      PROVE  \E x \in Keys : /\ x[1] = j /\ SummOf(x)'.status = "FAILED"
                             /\ SummOf(x)'.retry >= MaxRetries
  <2>1. PICK x \in Keys : x[1] = j /\ SummOf(x).status = "FAILED" /\ SummOf(x).retry >= MaxRetries
    BY <1>3 DEF ReportInv
  <2>2. SummOf(x).retry \in 0..MaxRetries
    BY KeyType DEF IInv
  <2>3. SummOf(x)' = SummOf(x)
    BY <1>1, <2>1, <2>2, JobBounds
  <2> QED  BY <2>1, <2>3
<1>4. \A x \in Keys : SummOf(x)'.status = "SUCCEEDED" => x[1] \in reported
  BY <1>1 DEF ReportInv
<1>5. ASSUME NEW h \in Kinds, NEW x \in Keys, Working(h, x)', SummOf(x)'.status = "FAILED"
      PROVE  x[1] \in reported
  <2>1. Working(h, x) /\ SummOf(x).status = "FAILED"
    BY <1>1, <1>2, <1>5 DEF Working
  <2> QED  BY <2>1 DEF ReportInv
<1> QED  BY <1>1, <1>2, <1>3, <1>4, <1>5 DEF ReportInv

(* A new summarizer has not ended, and nobody sends it yet. *)
LEMMA ReportCreate ==
    ASSUME IInv, ReportInv, NEW g \in Kinds, CreateSummarizer(g)
    PROVE  ReportInv'
<1>1. /\ Keys \subseteq Keys'
      /\ \A y \in Keys : SummOf(y)' = SummOf(y)
      /\ \A y \in Keys' \ Keys : SummOf(y)'.status = "CREATED"
  BY CreateFacts DEF IInv
<1>2. /\ UNCHANGED <<jstatus, reported, sending, sjob, screated, skey>>
      /\ \A h \in Kinds : /\ spc'[h] = "succeed" => spc[h] = "succeed"
                          /\ spc'[h] = "mark" => spc[h] = "mark"
  BY CycleTyped DEF CreateSummarizer, Goto
<1>3. ASSUME NEW h \in Kinds, NEW x \in Keys', Working(h, x)', SummOf(x)'.status = "FAILED"
      PROVE  x[1] \in reported
  <2>1. x \in Keys /\ Working(h, x) /\ SummOf(x).status = "FAILED"
    BY <1>1, <1>2, <1>3 DEF Working
  <2> QED  BY <2>1 DEF ReportInv
<1>4. \A x \in Keys' : SummOf(x)'.status = "SUCCEEDED" => x[1] \in reported
  BY <1>1 DEF ReportInv
<1>5. ASSUME NEW h \in Kinds, NEW j \in sending[h], j \notin reported
      PROVE  \E x \in Keys' : /\ x[1] = j /\ SummOf(x)'.status = "FAILED"
                              /\ SummOf(x)'.retry >= MaxRetries
  BY <1>1, <1>5 DEF ReportInv
<1> QED  BY <1>2, <1>3, <1>4, <1>5 DEF ReportInv

(* What the cycle lists has not failed, or has ended. *)
LEMMA ReportLists ==
    ASSUME IInv, ReportInv, NEW g \in Kinds, FetchSummarizers(g) \/ ListEnded(g)
    PROVE  ReportInv'
<1>1. Keys' = Keys /\ \A y \in Keys : SummOf(y)' = SummOf(y)
  BY KeysSame DEF FetchSummarizers, ListEnded
<1>2. CASE FetchSummarizers(g)
  <2>1. /\ UNCHANGED <<jstatus, reported, sending, sjob, skey>>
        /\ \A h \in Kinds : /\ spc'[h] = "succeed" => spc[h] = "succeed"
                            /\ spc'[h] = "mark" => spc[h] = "mark"
                            /\ \A x \in screated'[h] : x \in screated[h] \/ SummOf(x).status = "CREATED"
    BY <1>2, CycleTyped DEF FetchSummarizers, Goto
  <2>2. ASSUME NEW h \in Kinds, NEW x \in Keys, Working(h, x)', SummOf(x).status = "FAILED"
        PROVE  x[1] \in reported
    <3>1. Working(h, x)
      BY <2>1, <2>2 DEF Working
    <3> QED  BY <2>2, <3>1 DEF ReportInv
  <2> QED  BY <1>1, <2>1, <2>2 DEF ReportInv
<1>3. CASE ListEnded(g)
  <2>1. /\ UNCHANGED <<jstatus, reported, sjob, screated, skey>>
        /\ \A h \in Kinds : /\ spc'[h] = "succeed" => spc[h] = "succeed"
                            /\ spc'[h] = "mark" => spc[h] = "mark"
        /\ \A h \in Kinds : \A j \in sending'[h] :
              j \in sending[h] \/ \E x \in Keys : x[1] = j /\ SummEnded(x)
    BY <1>3, CycleTyped DEF ListEnded, Goto
  <2>2. ASSUME NEW h \in Kinds, NEW j \in sending'[h], j \notin reported
        PROVE  \E x \in Keys : /\ x[1] = j /\ SummOf(x).status = "FAILED"
                               /\ SummOf(x).retry >= MaxRetries
    BY <2>1, <2>2 DEF ReportInv, SummEnded
  <2>3. ASSUME NEW h \in Kinds, NEW x \in Keys, Working(h, x)', SummOf(x).status = "FAILED"
        PROVE  x[1] \in reported
    <3>1. Working(h, x)
      BY <2>1, <2>3 DEF Working
    <3> QED  BY <2>3, <3>1 DEF ReportInv
  <2> QED  BY <1>1, <2>1, <2>2, <2>3 DEF ReportInv
<1> QED  BY <1>2, <1>3

(* A job succeeds if none of its summarizers has failed. *)
LEMMA ReportFinish ==
    ASSUME IInv, ReportInv, NEW g \in Kinds, NEW j \in sending[g], FinishRead(g, j)
    PROVE  ReportInv'
<1>1. Keys' = Keys /\ \A y \in Keys : SummOf(y)' = SummOf(y)
  BY KeysSame DEF FinishRead
<1>2. /\ UNCHANGED <<jstatus, reported, screated, skey>>
      /\ spc'[g] = Verdict(j) /\ sjob'[g] = j
      /\ \A h \in Kinds : sending'[h] \subseteq sending[h]
      /\ \A h \in Kinds \ {g} : spc'[h] = spc[h] /\ sjob'[h] = sjob[h]
  BY CycleTyped DEF FinishRead, Goto
<1>3. ASSUME NEW h \in Kinds, spc'[h] = "succeed"
      PROVE  sjob'[h] \in reported
  <2>1. CASE h = g
    <3>1. ~\E x \in Keys : x[1] = j /\ SummOf(x).status = "FAILED"
      BY <1>2, <1>3, <2>1 DEF Verdict
    <3>2. j \in reported
      BY <3>1 DEF ReportInv
    <3> QED  BY <1>2, <2>1, <3>2
  <2>2. CASE h # g
    BY <1>2, <1>3, <2>2 DEF ReportInv
  <2> QED  BY <2>1, <2>2
<1>4. ASSUME NEW h \in Kinds, NEW x \in Keys, Working(h, x)', SummOf(x).status = "FAILED"
      PROVE  x[1] \in reported
  <2>1. spc'[g] # "mark"
    BY <1>2 DEF Verdict
  <2>2. Working(h, x)
    BY <1>2, <1>4, <2>1 DEF Working
  <2> QED  BY <1>4, <2>2 DEF ReportInv
<1> QED  BY <1>1, <1>2, <1>3, <1>4 DEF ReportInv

(* All the steps, a start and a stutter. *)
LEMMA ReportStep ==
    ASSUME IInv, OwnInv, ReportInv, Step
    PROVE  ReportInv'
<1>1. JobMoves
  BY StepJobs
<1> QED  BY <1>1, StepQuiet, ReportKept, ReportResult, ReportProduceFails, ReportMark,
            ReportRetry, ReportCreate, ReportLists, ReportFinish

LEMMA InitReport == Init => ReportInv
<1> SUFFICES ASSUME Init PROVE ReportInv
  OBVIOUS
<1>1. Keys = {}
  BY EmptySeq, JobBounds DEF Init, Keys, SummKey
<1> QED  BY <1>1 DEF Init, ReportInv

LEMMA StutterReport ==
    ASSUME ReportInv, UNCHANGED vars
    PROVE  ReportInv'
BY KeysSame DEF ReportInv, Working, vars

(* A compliance job is SUCCEEDED only after a summarizer of it has         *)
(* reported, whatever fails or is sent twice on the way: a summarizer that *)
(* could not be sent, for example, never makes its job succeed.            *)
THEOREM SuccessReported == Spec => []SuccessIsReported
<1>1. IInv /\ OwnInv /\ ReportInv /\ [Next]_vars => (IInv /\ OwnInv /\ ReportInv)'
  BY StepTyped, StutterTyped, OwnStep, StutterOwn, ReportStep, StutterReport DEF Next
<1>2. ReportInv => SuccessIsReported
  BY DEF ReportInv, SuccessIsReported
<1> QED  BY InitTyped, InitOwn, InitReport, <1>1, <1>2, PTL DEF Spec

-----------------------------------------------------------------------------
(* The runners come first. *)

Present(j) == \A q \in Queries : status[<<j, q>>] \notin Row!Absent
Blank(j)   == \A q \in Queries : status[<<j, q>>] = "NONE"
AllDone(j) == \A q \in Queries : <<j, q>> \in done

(* A job on its way to a summarizer, or that has one. *)
Taken(j) == \/ Len(summ[j]) > 0
            \/ \E g \in Kinds : \/ \E x \in slisted[g] : x.job = j
                                \/ spc[g] \in {"create", "summarizing"} /\ sjob[g] = j

(* The runners of a job are made together and, until a newer job deletes   *)
(* them, stay together; a job on its way to a summarizer has them all, and *)
(* each of them was completed.                                             *)
RowsInv ==
    /\ epc = "write" => /\ \A q \in emissing : status[<<ecur, q>>] \in Row!Absent
                        /\ ecur \notin purged /\ emissing # {} => emissing = Queries
    /\ \A r \in Rows : Row!Completed(status[r], retry[r]) => r \in done
    /\ \A j \in Jobs \ purged :
          /\ Present(j) \/ Blank(j)
          /\ jstatus[j] \in {"RUNNERS_IN_PROGRESS", "SINK_IN_PROGRESS"} => Present(j)
          /\ Taken(j) => Present(j) /\ AllDone(j)

(* What a step may do to a row that it does not make. *)
RowKept(r) ==
    \/ status'[r] = status[r] /\ retry'[r] = retry[r]
    \/ Row!Delete(status[r], retry[r], status'[r], retry'[r])
    \/ /\ status[r] \notin Row!Absent /\ status'[r] \notin Row!Absent
       /\ \/ Row!Requeue(status[r], retry[r], status'[r], retry'[r])
          \/ Row!Expire(status[r], retry[r], status'[r], retry'[r])
          \/ Row!Mark(status[r], retry[r], status'[r], retry'[r])

RowsKept == \A r \in Rows : RowKept(r)

(* The enqueuer's view of one job, between reading its rows and writing.   *)
ViewKept == epc' = "write" => epc = "write" /\ UNCHANGED <<ecur, emissing>>

(* Statements that write no row. *)
LEMMA RowsSame ==
    ASSUME UNCHANGED rowVars
    PROVE  RowsKept
BY DEF RowsKept, RowKept

(* DeleteOldRunnerJob deletes rows that exist. *)
LEMMA PurgeRows ==
    ASSUME IInv, NEW k \in Kinds, TriggerPurge(k)
    PROVE  RowsKept
<1>1. PICK S \in SUBSET Rows : /\ \A r \in S : status[r] \notin Row!Absent
                               /\ SetRows(S, "DELETED") /\ retry' = retry
  <2>1. \A J : UNION {RowsOf(j) : j \in J} \in SUBSET {r \in Rows : status[r] \notin Row!Absent}
    BY DEF RowsOf
  <2> QED  BY <2>1 DEF TriggerPurge
<1> QED  BY <1>1 DEF SetRows, RowsKept, RowKept, Row!Delete

(* A cancel request overwrites a row that exists. *)
LEMMA CancelRowKept ==
    ASSUME IInv, NEW x \in cview, CancelRow(x)
    PROVE  RowsKept
<1>1. PICK S \in SUBSET Rows : /\ \A r \in S : status[r] \notin Row!Absent
                               /\ SetRows(S, "CANCELED") /\ retry' = retry
  <2>1. RowsOf(cjob) \subseteq Rows /\ \A r \in RowsOf(cjob) : status[r] \notin Row!Absent
    BY DEF RowsOf
  <2> QED  BY <2>1 DEF CancelRow
<1> QED  BY <1>1 DEF SetRows, RowsKept, RowKept, Row!Mark, Row!Absent

(* Publisher, worker and consumer move one row, and make none. *)
LEMMA RunnerMovesKept ==
    ASSUME IInv, NEW x \in Rows, RunnerMoves(x)
    PROVE  RowsKept
<1>1. PICK st, n : /\ \/ Row!Requeue(status[x], retry[x], st, n)
                      \/ Row!Expire(status[x], retry[x], st, n)
                      \/ Row!Mark(status[x], retry[x], st, n)
                   /\ status' = [status EXCEPT ![x] = st]
                   /\ retry' = [retry EXCEPT ![x] = n]
  BY DEF RunnerMoves
<1>2. status \in [Rows -> Row!RunnerStatus] /\ DOMAIN retry = Rows
  BY DEF IInv, TypeOK
<1>3. status[x] \notin Row!Absent /\ st \notin Row!Absent
  BY <1>1, <1>2 DEF Row!Requeue, Row!Expire, Row!Mark, Row!Absent, Row!Live, Row!Waiting
<1>4. RowKept(x)
  BY <1>1, <1>2, <1>3 DEF RowKept
<1>5. \A r \in Rows \ {x} : RowKept(r)
  BY <1>1, <1>2 DEF RowKept
<1> QED  BY <1>4, <1>5 DEF RowsKept

(* Only EnqueueWrite makes rows, only EnqueueRead looks for missing ones. *)
LEMMA StepRows ==
    ASSUME IInv, Step
    PROVE  \/ RowsKept /\ ViewKept
           \/ \E j \in etodo : EnqueueRead(j)
           \/ EnqueueWrite
<1>1. ASSUME NEW k \in Kinds, TriggerAct(k)
      PROVE  RowsKept /\ ViewKept
  <2>1. ViewKept
    BY <1>1 DEF TriggerAct, TriggerRead, TriggerPurge, TriggerCreate, TriggerFails, ViewKept
  <2>2. RowsKept
    BY <1>1, PurgeRows, RowsSame DEF TriggerAct, TriggerRead, TriggerCreate, TriggerFails
  <2> QED  BY <2>1, <2>2
<1>2. ASSUME NEW j, EnqueueAct(j)
      PROVE  (RowsKept /\ ViewKept) \/ (j \in etodo /\ EnqueueRead(j)) \/ EnqueueWrite
  BY <1>2, RowsSame DEF EnqueueAct, EnqueueList, EnqueueRead, EnqueueFails, ViewKept
<1>3. ASSUME NEW j, NEW x, CancelAct(j, x)
      PROVE  RowsKept /\ ViewKept
  <2>1. ViewKept
    BY <1>3 DEF CancelAct, CancelRead, CancelRows, CancelRow, CancelRowFails, CancelJob, ViewKept
  <2>2. RowsKept
    BY <1>3, CancelRowKept, RowsSame DEF CancelAct, CancelRead, CancelRows, CancelRowFails, CancelJob
  <2> QED  BY <2>1, <2>2
<1>4. ASSUME NEW r, NEW j, NEW x, OtherAct(r, j, x)
      PROVE  RowsKept /\ ViewKept
  <2>1. ViewKept
    BY <1>4 DEF OtherAct, Restart, RunnerMoves, JobAges, JobRests, SummarizerRests, ViewKept
  <2>2. RowsKept
    BY <1>4, RunnerMovesKept, RowsSame DEF OtherAct, Restart, JobAges, JobRests, SummarizerRests
  <2> QED  BY <2>1, <2>2
<1>5. ASSUME NEW m, SummarizerAct(m)
      PROVE  RowsKept /\ ViewKept
  BY <1>5, RowsSame DEF SummarizerAct, SummarizerResult, SummarizerWork, SummarizerLost, ViewKept
<1>6. ASSUME NEW g \in Kinds, NEW x, ListAct(g, x)
      PROVE  RowsKept /\ ViewKept
  BY <1>6, RowsSame
     DEF ListAct, SetJobToRunnersInProgress, ExpireJobs, ListCompleted, SinkBegin, SinkWait,
         SinkEnd, CreateSummarizer, SetSummarizing, ViewKept
<1>7. ASSUME NEW g \in Kinds, NEW x, SendAct(g, x)
      PROVE  RowsKept /\ ViewKept
  BY <1>7, RowsSame
     DEF SendAct, FetchSummarizers, ProduceSummarizer, ProduceFails, MarkSummarizer, ViewKept
<1>8. ASSUME NEW g \in Kinds, NEW j, FinishAct(g, j)
      PROVE  RowsKept /\ ViewKept
  BY <1>8, RowsSame
     DEF FinishAct, ListEnded, FinishRead, FinishWrite, RetrySummarizers, CycleFails, ViewKept
<1> QED  BY <1>1, <1>2, <1>3, <1>4, <1>5, <1>6, <1>7, <1>8, StepCases

(* The rows EnqueueWrite makes, and it makes them out of none.             *)
Make(r) == epc = "write" /\ r[1] = ecur /\ r[2] \in emissing

(* It makes them where there was none. *)
LEMMA WriteRows ==
    ASSUME IInv, RowsInv, EnqueueWrite
    PROVE  \A r \in Rows : IF Make(r) THEN Row!Create(status[r], retry[r], status'[r], retry'[r])
                           ELSE status'[r] = status[r] /\ retry'[r] = retry[r]
<1> SUFFICES ASSUME NEW r \in Rows
             PROVE  IF Make(r) THEN Row!Create(status[r], retry[r], status'[r], retry'[r])
                    ELSE status'[r] = status[r] /\ retry'[r] = retry[r]
  OBVIOUS
<1>1. r = <<r[1], r[2]>>
  BY DEF Rows
<1>2. Make(r) <=> r \in {<<ecur, q>> : q \in emissing}
  BY <1>1 DEF EnqueueWrite, Make
<1>3. Make(r) => status[r] \in Row!Absent
  BY <1>1 DEF Make, RowsInv
<1> QED  BY <1>2, <1>3 DEF EnqueueWrite, SetRows, Row!Create

(* Deleting a row is recorded, and what was done stays so until the row is *)
(* made again.                                                             *)
LEMMA ObserveRows ==
    ASSUME Observe, NEW r \in Rows
    PROVE  /\ Row!Completed(status'[r], retry'[r]) => r \in done'
           /\ r \in done /\ status[r] \notin Row!Absent => r \in done'
           /\ purged \subseteq purged'
           /\ status[r] # "DELETED" /\ status'[r] = "DELETED" => r[1] \in purged'
BY DEF Observe

(* The runners of a job stay together, and stay done. *)
LEMMA PresentStays ==
    ASSUME IInv, RowsInv, Step, Observe, NEW j \in Jobs, j \notin purged'
    PROVE  /\ j \notin purged
           /\ Present(j) => Present(j)'
           /\ Present(j) /\ AllDone(j) => AllDone(j)'
           /\ Present(j)' \/ Blank(j)'
<1>1. \A q \in Queries : <<j, q>> \in Rows
  BY DEF Rows
<1>2. j \notin purged
  <2>1. purged \subseteq purged'
    BY DEF Observe
  <2> QED  BY <2>1
<1>3. \A q \in Queries : \/ RowKept(<<j, q>>)
                         \/ /\ status'[<<j, q>>] = "CREATED" /\ status[<<j, q>>] \in Row!Absent
                            /\ Make(<<j, q>>) /\ EnqueueWrite
  <2>1. CASE EnqueueWrite
    BY <1>1, <2>1, WriteRows DEF RowKept, Row!Create
  <2>2. CASE \E i \in etodo : EnqueueRead(i)
    BY <1>1, <2>2 DEF EnqueueRead, RowKept
  <2>3. CASE RowsKept
    BY <1>1, <2>3 DEF RowsKept
  <2> QED  BY <2>1, <2>2, <2>3, StepRows
<1>4. \A q \in Queries : status'[<<j, q>>] = "DELETED" => status[<<j, q>>] = "DELETED"
  BY <1>1, ObserveRows
<1>5. Present(j) => Present(j)'
  <2> SUFFICES ASSUME NEW q \in Queries, status[<<j, q>>] \notin Row!Absent
               PROVE  status'[<<j, q>>] \notin Row!Absent
    BY DEF Present
  <2> QED  BY <1>3, <1>4 DEF RowKept, Row!Delete, Row!Absent
<1>6. Present(j) /\ AllDone(j) => AllDone(j)'
  BY <1>1, ObserveRows DEF Present, AllDone
<1>7. CASE Present(j)
  BY <1>2, <1>5, <1>6, <1>7
<1>8. CASE Blank(j)
  <2>1. CASE \E q \in Queries : Make(<<j, q>>) /\ EnqueueWrite
    <3>1. emissing = Queries /\ ecur = j /\ epc = "write"
      BY <1>2, <2>1 DEF Make, RowsInv
    <3>2. \A q \in Queries : Make(<<j, q>>)
      BY <3>1 DEF Make
    <3>3. \A q \in Queries : status'[<<j, q>>] = "CREATED"
      BY <1>1, <2>1, <3>2, WriteRows DEF Row!Create
    <3>4. Present(j)'
      BY <3>3 DEF Present, Row!Absent
    <3> QED  BY <1>2, <1>5, <1>6, <3>4
  <2>2. CASE \A q \in Queries : ~(Make(<<j, q>>) /\ EnqueueWrite)
    <3>1. \A q \in Queries : RowKept(<<j, q>>) /\ status[<<j, q>>] = "NONE"
      BY <1>3, <1>8, <2>2 DEF Blank
    <3>2. Blank(j)'
      BY <3>1 DEF Blank, RowKept, Row!Delete, Row!Absent
    <3> QED  BY <1>2, <1>5, <1>6, <3>2
  <2> QED  BY <2>1, <2>2
<1> QED  BY <1>2, <1>7, <1>8 DEF RowsInv

(* What the enqueuer read stays true until it writes: nobody else makes    *)
(* runners.                                                                *)
LEMMA ViewStep ==
    ASSUME IInv, IInv', RowsInv, Step, Observe
    PROVE  epc' = "write" => /\ \A q \in emissing' : status'[<<ecur', q>>] \in Row!Absent
                             /\ ecur' \notin purged' /\ emissing' # {} => emissing' = Queries
<1> SUFFICES ASSUME epc' = "write"
             PROVE  /\ \A q \in emissing' : status'[<<ecur', q>>] \in Row!Absent
                    /\ ecur' \notin purged' /\ emissing' # {} => emissing' = Queries
  OBVIOUS
<1>1. CASE RowsKept /\ ViewKept
  <2>1. epc = "write" /\ ecur' = ecur /\ emissing' = emissing /\ ecur \in Jobs /\ emissing \subseteq Queries
    BY <1>1 DEF ViewKept, IInv, TypeOK, LocalsInv
  <2>2. ASSUME NEW q \in emissing
        PROVE  status'[<<ecur, q>>] \in Row!Absent
    <3>1. <<ecur, q>> \in Rows /\ status[<<ecur, q>>] \in Row!Absent
      BY <2>1 DEF Rows, RowsInv
    <3> QED  BY <1>1, <3>1 DEF RowsKept, RowKept, Row!Delete
  <2>3. purged \subseteq purged'
    BY DEF Observe
  <2> QED  BY <2>1, <2>2, <2>3 DEF RowsInv
<1>2. ASSUME NEW j \in etodo, EnqueueRead(j)
      PROVE  /\ \A q \in emissing' : status'[<<ecur', q>>] \in Row!Absent
             /\ ecur' \notin purged' /\ emissing' # {} => emissing' = Queries
  <2>1. /\ ecur' = j /\ j \in Jobs /\ UNCHANGED rowVars
        /\ emissing' \in {{}, {q \in Queries : status[<<j, q>>] \in Row!Absent}}
    BY <1>2 DEF EnqueueRead, IInv, TypeOK
  <2>2. purged \subseteq purged'
    BY DEF Observe
  <2>3. j \notin purged => Present(j) \/ Blank(j)
    BY <2>1 DEF RowsInv
  <2> QED  BY <2>1, <2>2, <2>3 DEF Present, Blank, Row!Absent
<1>3. ~EnqueueWrite
  BY DEF EnqueueWrite, EnqueueNext
<1> QED  BY <1>1, <1>2, <1>3, StepRows

(* Who is on the way to a summarizer was so, or is listed by this step     *)
(* with all its runners completed.                                         *)
LEMMA TakenStep ==
    ASSUME IInv, RowsInv, Step, NEW j \in Jobs, j \notin purged, Taken(j)'
    PROVE  Present(j) /\ AllDone(j)
<1>1. CASE Taken(j)
  BY <1>1 DEF RowsInv
<1>2. CASE NothingTaken
  <2>1. Taken(j)
    BY <1>2 DEF NothingTaken, Taken
  <2> QED  BY <1>1, <2>1
<1>3. ASSUME NEW g \in Kinds, ListCompleted(g)
      PROVE  Present(j) /\ AllDone(j)
  <2>1. /\ summ' = summ /\ sjob' = sjob
        /\ \A h \in Kinds : /\ spc'[h] \in {"create", "summarizing"} => spc'[h] = spc[h]
                            /\ \A x \in slisted'[h] : x \in slisted[h] \/
                                  /\ jstatus[x.job] \in {"RUNNERS_IN_PROGRESS", "SINK_IN_PROGRESS"}
                                  /\ RunnersCompleted(x.job)
    BY <1>3, CycleTyped DEF ListCompleted, Goto
  <2>2. Taken(j) \/ (jstatus[j] \in {"RUNNERS_IN_PROGRESS", "SINK_IN_PROGRESS"} /\ RunnersCompleted(j))
    BY <2>1 DEF Taken
  <2>3. ASSUME jstatus[j] \in {"RUNNERS_IN_PROGRESS", "SINK_IN_PROGRESS"}, RunnersCompleted(j)
        PROVE  Present(j) /\ AllDone(j)
    <3>1. Present(j)
      BY <2>3 DEF RowsInv
    <3>2. \A q \in Queries : <<j, q>> \in Rows /\ <<j, q>> \in RowsOf(j)
      BY <3>1 DEF Present, RowsOf, Rows
    <3>3. \A q \in Queries : <<j, q>> \in done
      BY <2>3, <3>2 DEF RunnersCompleted, RowsInv
    <3> QED  BY <3>1, <3>3 DEF AllDone
  <2> QED  BY <1>1, <2>2, <2>3
<1>4. ASSUME NEW g \in Kinds, NEW x \in slisted[g], SinkEnd(g, x)
      PROVE  Taken(j)
  <2>1. /\ summ' = summ
        /\ \A h \in Kinds : /\ slisted'[h] \subseteq slisted[h]
                            /\ spc'[h] \in {"create", "summarizing"} =>
                                  \/ h = g /\ sjob'[h] = x.job
                                  \/ spc'[h] = spc[h] /\ sjob'[h] = sjob[h]
    BY <1>4, CycleTyped DEF SinkEnd, Goto, Unlist
  <2> QED  BY <1>4, <2>1 DEF Taken
<1>5. ASSUME NEW g \in Kinds, CreateSummarizer(g)
      PROVE  Taken(j)
  <2>1. /\ spc[g] = "create" /\ UNCHANGED <<slisted, sjob>>
        /\ \A h \in Kinds : spc'[h] \in {"create", "summarizing"} => spc[h] \in {"create", "summarizing"}
    BY <1>5, CycleTyped DEF CreateSummarizer, Goto
  <2>2. Len(summ'[j]) = Len(summ[j]) \/ j = sjob[g]
    BY <1>5, CreateFacts DEF IInv
  <2> QED  BY <2>1, <2>2 DEF Taken
<1>6. ASSUME NEW g \in Kinds, FetchSummarizers(g)
      PROVE  Taken(j)
  <2>1. /\ UNCHANGED <<slisted, sjob, summ>>
        /\ \A h \in Kinds : spc'[h] \in {"create", "summarizing"} => spc'[h] = spc[h]
    BY <1>6, CycleTyped DEF FetchSummarizers, Goto
  <2> QED  BY <2>1 DEF Taken
<1> QED  BY <1>1, <1>2, <1>3, <1>4, <1>5, <1>6, StepTaken

(* All the steps, a start and a stutter. *)
LEMMA RowsStep ==
    ASSUME IInv, IInv', OwnInv, RowsInv, Step, Observe
    PROVE  RowsInv'
<1>1. \A r \in Rows : Row!Completed(status'[r], retry'[r]) => r \in done'
  BY ObserveRows
<1>2. ASSUME NEW j \in Jobs, j \notin purged'
      PROVE  /\ Present(j)' \/ Blank(j)'
             /\ jstatus'[j] \in {"RUNNERS_IN_PROGRESS", "SINK_IN_PROGRESS"} => Present(j)'
             /\ Taken(j)' => Present(j)' /\ AllDone(j)'
  <2>1. /\ j \notin purged
        /\ Present(j) => Present(j)'
        /\ Present(j) /\ AllDone(j) => AllDone(j)'
        /\ Present(j)' \/ Blank(j)'
    BY <1>2, PresentStays
  <2>2. Taken(j)' => Present(j)' /\ AllDone(j)'
    BY <2>1, TakenStep
  <2>3. ASSUME jstatus'[j] \in {"RUNNERS_IN_PROGRESS", "SINK_IN_PROGRESS"}
        PROVE  Present(j)
    <3>1. JobMove(j)
      BY StepJobs DEF JobMoves
    <3>2. \/ jstatus[j] \in {"RUNNERS_IN_PROGRESS", "SINK_IN_PROGRESS"}
          \/ RowsOf(j) # {}
          \/ Taken(j)
      BY <2>3, <3>1 DEF JobMove, Taken
    <3>3. RowsOf(j) # {} => ~Blank(j)
      <4> SUFFICES ASSUME NEW r \in RowsOf(j), Blank(j)
                   PROVE  FALSE
        OBVIOUS
      <4>1. r[2] \in Queries /\ r = <<j, r[2]>> /\ status[r] \notin Row!Absent
        BY DEF RowsOf, Rows
      <4> QED  BY <4>1 DEF Blank, Row!Absent
    <3> QED  BY <2>1, <3>2, <3>3 DEF RowsInv
  <2> QED  BY <2>1, <2>2, <2>3
<1>3. epc' = "write" => /\ \A q \in emissing' : status'[<<ecur', q>>] \in Row!Absent
                        /\ ecur' \notin purged' /\ emissing' # {} => emissing' = Queries
  BY ViewStep
<1> QED  BY <1>1, <1>2, <1>3 DEF RowsInv

LEMMA InitRows == Init => RowsInv
<1> SUFFICES ASSUME Init PROVE RowsInv
  OBVIOUS
<1>1. \A j \in Jobs : Blank(j) /\ ~Taken(j)
  BY EmptySeq DEF Init, Blank, Taken, Rows
<1> QED  BY <1>1 DEF Init, RowsInv, Row!Completed

LEMMA StutterRows ==
    ASSUME RowsInv, UNCHANGED vars
    PROVE  RowsInv'
BY DEF RowsInv, Present, Blank, AllDone, Taken, vars, obsVars

AllInv == IInv /\ OwnInv /\ RowsInv

(* The inductive invariant that RunnersFirst and LifecycleFollowed need. *)
LEMMA AllStep == AllInv /\ [Next]_vars => AllInv'
BY StepTyped, StutterTyped, OwnStep, StutterOwn, RowsStep, StutterRows DEF Next, AllInv

LEMMA InitAll == Init => AllInv
BY InitTyped, InitOwn, InitRows DEF AllInv

(* A job is summarized only after each of its queries has had a runner     *)
(* that was done, for any interleaving of the enqueuer, the two cycles,    *)
(* cancel requests and restarts, as long as no newer job deleted them.     *)
THEOREM RunnersFirst == Spec => []SummaryAfterRunners
<1>1. ASSUME AllInv PROVE SummaryAfterRunners
  <2> SUFFICES ASSUME NEW j \in Jobs \ purged, summ[j] # <<>>
               PROVE  AllDone(j)
    BY DEF SummaryAfterRunners, AllDone
  <2>1. Len(summ[j]) > 0
    BY <1>1, EmptySeq DEF AllInv, IInv, TypeOK
  <2> QED  BY <1>1, <2>1 DEF AllInv, RowsInv, Taken
<1> QED  BY <1>1, InitAll, AllStep, PTL DEF Spec

(* The rows of the runners take only the steps of RunnerLifecycle, which   *)
(* the publisher, the workers and the consumer of ComplianceRunner are     *)
(* shown to take: the two models agree about the table they share.         *)
THEOREM LifecycleFollowed == Spec => RowsFollowLifecycle
<1>1. Init => Row!LifecycleInit
  BY DEF Init, Row!LifecycleInit
<1>2. ASSUME AllInv, AllInv', Next
      PROVE  Row!LifecycleNext
  <2>1. status' \in [Rows -> Row!RunnerStatus] /\ retry' \in [Rows -> Nat]
    <3>1. status' \in [Rows -> Row!RunnerStatus] /\ retry' \in [Rows -> 0..MaxRetries]
      BY <1>2 DEF AllInv, IInv, TypeOK
    <3> QED  BY <3>1, JobBounds
  <2>2. ASSUME NEW r \in Rows
        PROVE  Row!RowStep(r) \/ (status'[r] = status[r] /\ retry'[r] = retry[r])
    <3>1. CASE RowsKept
      BY <3>1 DEF RowsKept, RowKept, Row!RowStep
    <3>2. CASE EnqueueWrite
      <4>1. IF Make(r) THEN Row!Create(status[r], retry[r], status'[r], retry'[r])
            ELSE status'[r] = status[r] /\ retry'[r] = retry[r]
        BY <1>2, <3>2, WriteRows DEF AllInv
      <4> QED  BY <4>1 DEF Row!RowStep
    <3>3. CASE \E j \in etodo : EnqueueRead(j)
      BY <3>3 DEF EnqueueRead
    <3> QED  BY <1>2, <3>1, <3>2, <3>3, StepRows DEF AllInv, Next
  <2> QED  BY <2>1, <2>2 DEF Row!LifecycleNext
<1>3. AllInv /\ [Next]_vars => [Row!LifecycleNext]_(Row!rvars)
  BY <1>2, AllStep DEF vars, Row!rvars
<1> QED  BY <1>1, <1>3, InitAll, AllStep, PTL DEF Spec, RowsFollowLifecycle, Row!LifecycleSpec
=============================================================================
