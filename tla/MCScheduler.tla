---- MODULE MCScheduler ----
(* TLC instances of Scheduler. *)
EXTENDS Scheduler
====
