---------------------------- MODULE MCJobSequencer ----------------------------
(* Instances of AnalyticsJob and JobSequencer for TLC.                         *)
EXTENDS JobSequencer, TLC

CONSTANTS s1, s2, d1

(* A sequence of an analytics job and one of runners behind one describe job.  *)
TwoSeqDeps == [s \in Seqs |-> {d1}]
TwoSeqNext == s1 :> "Analytics" @@ s2 :> "BenchmarkRunner"
TwoDepKind == d1 :> "cost"

SequencerQuota == [c \in Callers |-> IF c = "sequencer" THEN 1 + MaxFaults ELSE 0]
=============================================================================
