---------------------------- MODULE MailboxRecord ----------------------------
(***************************************************************************)
(* An ArrayMailbox as a value, for the modules in which several actors     *)
(* interact: each operator returns the mailbox b after one synchronous     *)
(* call, or after one of the awaits of deliver() and dispatch().  Module   *)
(* ArrayMailbox models the same code on its own, with its promises.        *)
(***************************************************************************)
EXTENDS Naturals, Sequences

EmptyMailbox ==
  [closed |-> FALSE, suspended |-> FALSE, queue |-> << >>, running |-> {}, settling |-> {}]

MailboxOf(M) ==
  [closed : BOOLEAN, suspended : BOOLEAN, queue : Seq(M), running : SUBSET M, settling : SUBSET M]

Queue(b) == {b.queue[i] : i \in 1..Len(b.queue)}

isReceivable(b) == ~b.closed /\ ~b.suspended /\ b.queue # << >>

\* dispatch() up to its await, when the mailbox is receivable.
Dispatched(b) ==
  IF isReceivable(b)
  THEN [b EXCEPT !.queue = Tail(@), !.running = @ \cup {Head(b.queue)}]
  ELSE b

\* send(); a closed mailbox makes a dead letter of m.
Sent(b, m) ==
  IF b.closed THEN b ELSE Dispatched([b EXCEPT !.queue = Append(@, m)])

\* Mutant of Resumed: the dispatch loop is not started again.
ResumedQuietly(b) == [b EXCEPT !.suspended = FALSE]

Resumed(b) == Dispatched([b EXCEPT !.suspended = FALSE])

Closed(b) == [b EXCEPT !.closed = TRUE]

\* deliver() when the handler of m returns, and when it throws.
Ended(b, m) == [b EXCEPT !.running = @ \ {m}, !.settling = @ \cup {m}]
Failed(b, m) == [Ended(b, m) EXCEPT !.suspended = TRUE]

\* dispatch() after "await message.deliver()".
Continued(b, m) == Dispatched([b EXCEPT !.settling = @ \ {m}])
=============================================================================
