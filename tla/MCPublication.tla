---------------------------- MODULE MCPublication ----------------------------
(* One publication, two publishers, events carried by one message or by two.  *)
EXTENDS Publication, TLC
=============================================================================
