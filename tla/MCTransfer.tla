---- MODULE MCTransfer ----
(* TLC instance of Transfer. *)
EXTENDS Transfer

CONSTANTS acc1, acc2
MCOpening == [x \in {acc1, acc2} |-> IF x = acc1 THEN 1 ELSE 0]
MCRequests == {[kind |-> "transfer", from |-> acc1, to |-> acc2, amount |-> 1],
   [kind |-> "transfer", from |-> acc2, to |-> acc1, amount |-> 1],
   [kind |-> "withdraw", from |-> acc1, to |-> acc1, amount |-> 1],
   [kind |-> "deposit", from |-> acc2, to |-> acc2, amount |-> 1],
   [kind |-> "transfer", from |-> acc1, to |-> acc1, amount |-> 1]}
====
