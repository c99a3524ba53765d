----------------------------- MODULE ArrayMailbox -----------------------------
(***************************************************************************)
(* ArrayMailbox: the unbounded FIFO mailbox an actor gets by default.  Its *)
(* type invariant is MailboxTypeOK, for it has no state of its own.        *)
(***************************************************************************)
EXTENDS Mailbox

ArrayInit == MailboxInit

\* send() while suspended: the message only joins the queue.
SendSuspended(m) ==
  /\ IsNextSend(m)
  /\ ~closed
  /\ suspended
  /\ outcome' = [outcome EXCEPT ![m] = "pending"]
  /\ queue' = Append(queue, m)
  /\ UNCHANGED <<closed, suspended, running, settling, deadLetters>>

\* Mutant of SendAndDispatch: the new message jumps the queue.
SendAndStart(m) ==
  /\ IsNextSend(m)
  /\ ~closed
  /\ ~suspended
  /\ outcome' = [outcome EXCEPT ![m] = "pending"]
  /\ running' = running \cup {m}
  /\ UNCHANGED <<closed, suspended, queue, settling, deadLetters>>

\* send() otherwise: push, then dispatch the head, whatever loops exist.
SendAndDispatch(m) ==
  /\ IsNextSend(m)
  /\ ~closed
  /\ ~suspended
  /\ outcome' = [outcome EXCEPT ![m] = "pending"]
  /\ Dispatch(Append(queue, m))
  /\ UNCHANGED <<closed, suspended, settling, deadLetters>>

ArrayNext ==
  \/ \E m \in Message : SendSuspended(m) \/ SendAndDispatch(m)
  \/ Operate

ArraySpec == ArrayInit /\ [][ArrayNext]_mailboxVars
ArrayLiveSpec == ArraySpec /\ LoopFairness /\ SupervisorFairness
=============================================================================
