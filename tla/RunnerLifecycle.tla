--------------------------- MODULE RunnerLifecycle ---------------------------
(***************************************************************************)
(* What the rows of the table compliance_runners promise to the rest of    *)
(* the scheduler: the steps one row can take, whoever takes them.  The     *)
(* module ComplianceRunner, which has the publisher, the queue, the        *)
(* workers and the consumer, implements it; the module ComplianceJob,      *)
(* which only looks at the rows, is built on it.                           *)
(***************************************************************************)
EXTENDS Naturals

CONSTANTS Runners,     \* rows of compliance_runners
          MaxRetries   \* a failed runner is retried while retry_count < 3

VARIABLES status,      \* status[r]: compliance_runners.status
          retry        \* retry[r]: compliance_runners.retry_count

rvars == <<status, retry>>

Absent  == {"NONE", "DELETED"}
Waiting == {"CREATED", "QUEUED"}
Live    == Waiting \cup {"IN_PROGRESS"}
RunnerStatus == Absent \cup Live \cup {"SUCCEEDED", "FAILED", "TIMEOUT", "CANCELED"}

(* The condition of ListJobsWithRunnersCompleted on one row. *)
Completed(st, n) == \/ st \in {"SUCCEEDED", "TIMEOUT"}
                    \/ st = "FAILED" /\ n >= MaxRetries

(* Nothing in the scheduler takes a row that is settled any further. *)
Settled(st, n) == st \in Absent \cup {"CANCELED"} \/ Completed(st, n)

-----------------------------------------------------------------------------
(* One step of one row, as a relation between its old and its new fields.  *)

Create(st, n, st2, n2) == st \in Absent /\ st2 = "CREATED" /\ n2 = 0

Delete(st, n, st2, n2) == st \notin Absent /\ st2 = "DELETED" /\ n2 = n

Requeue(st, n, st2, n2) == /\ st = "FAILED" /\ n < MaxRetries
                           /\ st2 = "CREATED" /\ n2 = n + 1

Expire(st, n, st2, n2) == st \in Live /\ st2 = "TIMEOUT" /\ n2 = n

(* UpdateRunnerJob has no condition on the old status: any of these may    *)
(* overwrite any row that exists.                                          *)
Mark(st, n, st2, n2) ==
    /\ st \notin Absent
    /\ st2 \in {"QUEUED", "IN_PROGRESS", "SUCCEEDED", "FAILED", "CANCELED"}
    /\ n2 = n

RowStep(r) ==
    LET st == status[r]   n == retry[r]   st2 == status'[r]   n2 == retry'[r]
    IN  \/ Create(st, n, st2, n2)
        \/ Delete(st, n, st2, n2)
        \/ Requeue(st, n, st2, n2)
        \/ Expire(st, n, st2, n2)
        \/ Mark(st, n, st2, n2)

LifecycleInit == /\ status \in [Runners -> {"NONE", "CREATED"}]
                 /\ retry = [r \in Runners |-> 0]

LifecycleNext == /\ status' \in [Runners -> RunnerStatus]
                 /\ retry' \in [Runners -> Nat]
                 /\ \A r \in Runners :
                        \/ RowStep(r)
                        \/ status'[r] = status[r] /\ retry'[r] = retry[r]

LifecycleSpec == LifecycleInit /\ [][LifecycleNext]_rvars
=============================================================================
