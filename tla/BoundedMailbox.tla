---------------------------- MODULE BoundedMailbox ----------------------------
(***************************************************************************)
(* BoundedMailbox: a mailbox with a capacity and a policy for the messages *)
(* that exceed it.                                                         *)
(***************************************************************************)
EXTENDS Mailbox

CONSTANTS
  Capacities,       \* the capacities a mailbox may be built with
  Policies          \* the overflow policies a mailbox may be built with

\* The constructor throws unless the capacity is positive.
ASSUME CapacitiesAssumption == Capacities \subseteq Nat \ {0}
ASSUME PoliciesAssumption == Policies \subseteq {"DropOldest", "DropNewest", "Reject"}

VARIABLES
  capacity,         \* BoundedMailbox.capacity (readonly)
  overflowPolicy,   \* BoundedMailbox.overflowPolicy (readonly)
  dropped           \* BoundedMailbox._droppedMessageCount

vars == <<mailboxVars, capacity, overflowPolicy, dropped>>

Init ==
  /\ MailboxInit
  /\ capacity \in Capacities
  /\ overflowPolicy \in Policies
  /\ dropped = 0

\* Mutant of isFull: off by one.
isOverfull == Len(queue) > capacity

isFull == Len(queue) >= capacity

-----------------------------------------------------------------------------
(* send(), one action for each way through it.                             *)

\* A message that fits joins the queue; unless suspended, the head starts.
SendFits(m) ==
  /\ IsNextSend(m)
  /\ ~closed
  /\ ~isFull
  /\ outcome' = [outcome EXCEPT ![m] = "pending"]
  /\ \/ suspended /\ queue' = Append(queue, m) /\ UNCHANGED running
     \/ ~suspended /\ Dispatch(Append(queue, m))
  /\ UNCHANGED <<closed, suspended, settling, deadLetters, dropped>>

\* Mutant of OverflowDropOldest: the message that goes is the newest one queued.
OverflowDropLast(m) ==
  /\ IsNextSend(m)
  /\ ~closed
  /\ isFull
  /\ overflowPolicy = "DropOldest"
  /\ outcome' = [outcome EXCEPT ![queue[Len(queue)]] = "message dropped", ![m] = "pending"]
  /\ queue' = [queue EXCEPT ![Len(queue)] = m]
  /\ dropped' = dropped + 1
  /\ UNCHANGED <<closed, suspended, running, settling, deadLetters>>

\* The oldest message makes room and its sender is told.
OverflowDropOldest(m) ==
  /\ IsNextSend(m)
  /\ ~closed
  /\ isFull
  /\ overflowPolicy = "DropOldest"
  /\ outcome' = [outcome EXCEPT ![Head(queue)] = "message dropped", ![m] = "pending"]
  /\ LET queued == Append(Tail(queue), m)
     IN  IF suspended THEN queue' = queued /\ UNCHANGED running ELSE Dispatch(queued)
  /\ dropped' = dropped + 1
  /\ UNCHANGED <<closed, suspended, settling, deadLetters>>

\* Mutant of OverflowDropNewest: an accepted message is dropped instead.
OverflowDropAccepted(m) ==
  /\ IsNextSend(m)
  /\ ~closed
  /\ isFull
  /\ overflowPolicy = "DropNewest"
  /\ outcome' = [outcome EXCEPT ![Head(queue)] = "message dropped", ![m] = "pending"]
  /\ queue' = Append(Tail(queue), m)
  /\ dropped' = dropped + 1
  /\ UNCHANGED <<closed, suspended, running, settling, deadLetters>>

\* The incoming message is dropped and its sender told.
OverflowDropNewest(m) ==
  /\ IsNextSend(m)
  /\ ~closed
  /\ isFull
  /\ overflowPolicy = "DropNewest"
  /\ outcome' = [outcome EXCEPT ![m] = "message dropped"]
  /\ dropped' = dropped + 1
  /\ UNCHANGED <<closed, suspended, queue, running, settling, deadLetters>>

\* Mutants of OverflowReject: no dead letter; the promise resolves with no value.
OverflowRejectSilent(m) ==
  /\ IsNextSend(m)
  /\ ~closed
  /\ isFull
  /\ overflowPolicy = "Reject"
  /\ outcome' = [outcome EXCEPT ![m] = "mailbox full"]
  /\ dropped' = dropped + 1
  /\ UNCHANGED <<closed, suspended, queue, running, settling, deadLetters>>

OverflowRejectBlank(m) ==
  /\ IsNextSend(m)
  /\ ~closed
  /\ isFull
  /\ overflowPolicy = "Reject"
  /\ outcome' = [outcome EXCEPT ![m] = "undefined"]
  /\ dropped' = dropped + 1
  /\ UNCHANGED <<closed, suspended, queue, running, settling, deadLetters>>

\* The incoming message becomes a dead letter and its sender is told.
OverflowReject(m) ==
  /\ IsNextSend(m)
  /\ ~closed
  /\ isFull
  /\ overflowPolicy = "Reject"
  /\ outcome' = [outcome EXCEPT ![m] = "mailbox full"]
  /\ deadLetters' = deadLetters \cup {m}
  /\ dropped' = dropped + 1
  /\ UNCHANGED <<closed, suspended, queue, running, settling>>

Overflow(m) == OverflowDropOldest(m) \/ OverflowDropNewest(m) \/ OverflowReject(m)

Next ==
  /\ \/ \E m \in Message : SendFits(m) \/ Overflow(m)
     \/ Operate /\ UNCHANGED dropped
  /\ UNCHANGED <<capacity, overflowPolicy>>

Spec == Init /\ [][Next]_vars

-----------------------------------------------------------------------------
TypeOK ==
  /\ MailboxTypeOK
  /\ capacity \in Nat \ {0}
  /\ overflowPolicy \in {"DropOldest", "DropNewest", "Reject"}
  /\ dropped \in Nat

(***************************************************************************)
(* The queue never exceeds the capacity, and one slot is free whenever the *)
(* mailbox delivers: a message can overflow only while the mailbox is      *)
(* suspended, however fast the senders are and however slow the handlers.  *)
(***************************************************************************)
HasRoom ==
  /\ Len(queue) <= capacity
  /\ ~closed /\ ~suspended => Len(queue) < capacity

(***************************************************************************)
(* OverflowPolicy.ts: DropNewest is "useful when preserving message order  *)
(* is critical" and Reject for "strict message delivery guarantees".  Under*)
(* both, a message that was accepted is never taken back.                  *)
(***************************************************************************)
AcceptedIsKept ==
  [][overflowPolicy # "DropOldest" =>
       \A m \in Message : outcome[m] = "pending" =>
         outcome'[m] \in {"pending", "resolved", "rejected"}]_vars
=============================================================================
