-------------------------- MODULE DescribeLifecycle --------------------------
(***************************************************************************)
(* What the rows of describe_connection_jobs promise to the rest of the    *)
(* scheduler: the steps one row can take, whoever takes them.  DescribeJob *)
(* implements it; JobSequencer, which waits for such rows, is built on it. *)
(***************************************************************************)
CONSTANTS Jobs       \* rows of describe_connection_jobs

VARIABLES status,    \* status[j], "NONE" before the row is created
          kind       \* kind[j]: who created it

lvars == <<status, kind>>

JobKinds  == {"scheduled", "manual", "cost"}
AtWork    == {"CREATED", "QUEUED", "IN_PROGRESS", "OLD_RESOURCE_DELETION"}
RowStatus == AtWork \cup
             {"NONE", "TIMEOUT", "FAILED", "SUCCEEDED", "REMOVING_RESOURCES", "CANCELED"}

-----------------------------------------------------------------------------
(* One step of one row, as a relation between its old and new status.      *)

(* Resources are removed for the ticker's jobs only. *)
Create(k, st, st2) == /\ st = "NONE"
                      /\ st2 = "CREATED" \/ (st2 = "REMOVING_RESOURCES" /\ k = "scheduled")

(* What retryFailedJobs has listed is written CREATED without another      *)
(* look; a job of a request is not listed, unless it is one for the cost.  *)
Retry(k, st, st2) == st # "NONE" /\ st2 = "CREATED" /\ k # "manual"

(* UPDATE without a condition on the status *)
Write(st, st2) == /\ st # "NONE"
                  /\ st2 \in {"QUEUED", "FAILED", "SUCCEEDED", "OLD_RESOURCE_DELETION", "CANCELED"}

Begin(st, st2) == st \in {"CREATED", "QUEUED"} /\ st2 = "IN_PROGRESS"

Expire(st, st2) == st \in {"IN_PROGRESS", "OLD_RESOURCE_DELETION"} /\ st2 = "TIMEOUT"

RowStep(j) == \/ Create(kind'[j], status[j], status'[j])
              \/ /\ kind'[j] = kind[j]
                 /\ \/ Retry(kind[j], status[j], status'[j])
                    \/ Write(status[j], status'[j])
                    \/ Begin(status[j], status'[j])
                    \/ Expire(status[j], status'[j])

LifecycleInit == /\ status = [j \in Jobs |-> "NONE"]
                 /\ kind \in [Jobs -> JobKinds]

LifecycleNext == /\ status' \in [Jobs -> RowStatus]
                 /\ kind' \in [Jobs -> JobKinds]
                 /\ \A j \in Jobs :
                       \/ RowStep(j)
                       \/ status'[j] = status[j] /\ kind'[j] = kind[j]

LifecycleSpec == LifecycleInit /\ [][LifecycleNext]_lvars
==============================================================================
