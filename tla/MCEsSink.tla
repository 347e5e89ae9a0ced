------------------------------ MODULE MCEsSink -------------------------------
(* The odd documents are versions of one, the even ones of another. *)
EXTENDS EsSink

Alternating == [d \in Docs |-> IF d % 2 = 1 THEN "odd" ELSE "even"]
=============================================================================
