----------------------------- MODULE MCQueryRunner -----------------------------
(* Instances of QueryRunner for TLC.                                           *)
EXTENDS QueryRunner, TLC

CONSTANTS r1, r2

(* One run whose query is good, or is deleted or changed before it is sent,    *)
(* and one whose query does not parse.                                         *)
GoodAndUnparsable == r1 :> {"good", "unknown", "unexecutable"} @@ r2 :> {"unparsable"}
=============================================================================
