---------------------------- MODULE MCWorkerQueue ----------------------------
(* Single: each event has one message, one of them a recovery, and one      *)
(* message belongs to another consumer.                                     *)
(* Twice: a queue without recoveries, whose batches may hold one event twice.*)
EXTENDS WorkerQueue

CONSTANTS e1, r1, f1, m1, m2, m3, m4

Single == (m1 :> e1) @@ (m2 :> r1) @@ (m4 :> f1)
Twice == (m1 :> e1) @@ (m2 :> e1) @@ (m3 :> e1)
OneOfTwo == {Single, Twice}
=============================================================================
