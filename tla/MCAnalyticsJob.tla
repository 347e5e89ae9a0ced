---------------------------- MODULE MCAnalyticsJob ----------------------------
(* Instances of AnalyticsJob for TLC.                                          *)
EXTENDS AnalyticsJob

TwoEach == [c \in Callers |-> IF c = "ticker" THEN 2 ELSE 1]
=============================================================================
