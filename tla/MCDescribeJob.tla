---------------------------- MODULE MCDescribeJob -----------------------------
(* Instances of DescribeJob for TLC.                                           *)
EXTENDS DescribeJob
=============================================================================
