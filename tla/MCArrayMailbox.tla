---- MODULE MCArrayMailbox ----
(* TLC instances of ArrayMailbox. *)
EXTENDS ArrayMailbox
====
