-------------------------- MODULE MCComplianceRunner --------------------------
(* Instances of ComplianceRunner for TLC.                                      *)
EXTENDS ComplianceRunner, TLC

(* Workers take messages from one queue and keep no state of their own: in a   *)
(* run that checks no liveness they may be permuted.                           *)
WorkerSymmetry == Permutations(Workers)
=============================================================================
