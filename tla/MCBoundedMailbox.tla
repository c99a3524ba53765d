---- MODULE MCBoundedMailbox ----
(* TLC instances of BoundedMailbox. *)
EXTENDS BoundedMailbox
====
