---------------------------- MODULE MCComplianceJob ----------------------------
(* Instances of ComplianceJob for TLC.                                        *)
EXTENDS ComplianceJob, TLC

(* Everything that publisher, worker and consumer may write to a row, a row   *)
(* that may wait in the queue, and one that only succeeds.                    *)
AnyEnd  == {"QUEUED", "IN_PROGRESS", "SUCCEEDED", "FAILED", "TIMEOUT"}
GoodEnd == {"QUEUED", "SUCCEEDED"}
SuccessEnd == {"SUCCEEDED"}

(* The queries of a benchmark have no order and no other use.                 *)
QuerySymmetry == Permutations(Queries)
=============================================================================
