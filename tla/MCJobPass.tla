------------------------------ MODULE MCJobPass ------------------------------
(* One job with two invocations alive at once. *)
EXTENDS JobPass

CONSTANTS i1, i2
=============================================================================
