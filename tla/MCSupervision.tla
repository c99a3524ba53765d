---- MODULE MCSupervision ----
(* TLC instances of Supervision. *)
EXTENDS Supervision
====
