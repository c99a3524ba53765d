------------------------------- MODULE Mailbox -------------------------------
(***************************************************************************)
(* The part ArrayMailbox and BoundedMailbox share: one actor's queue, its  *)
(* dispatch loops and LocalMessage.deliver.  The two mailboxes EXTEND this *)
(* module and add their own send.                                          *)
(*                                                                         *)
(* The code runs on one JavaScript thread, so an action is the code that   *)
(* runs between two awaits.  dispatch() has two of those boundaries:       *)
(*   - it shifts the head of the queue and calls deliver(), which starts   *)
(*     the handler at once (Dispatch below) and suspends in               *)
(*     "await this.function()(actor)";                                     *)
(*   - when the handler ends, deliver() settles the caller's promise       *)
(*     (Complete, Fail);                                                   *)
(*   - some microtasks later dispatch() goes on after                      *)
(*     "await message.deliver()" and looks for more work (Continue).       *)
(* Nothing in send, resume or dispatch asks whether a dispatch loop is     *)
(* already under way, so several loops may run; a loop is identified with  *)
(* the message it holds, in running or in settling.                        *)
(*                                                                         *)
(* A handler that sends to, suspends, resumes or closes its own mailbox    *)
(* before its first await is the sequential composition of two actions.    *)
(***************************************************************************)
EXTENDS Naturals, Sequences, FiniteSets, Functions

CONSTANT
  MaxSends          \* bound on the messages sent to this mailbox

ASSUME MaxSendsAssumption == MaxSends \in Nat

VARIABLES
  closed,           \* Mailbox.closed
  suspended,        \* Mailbox.suspended
  queue,            \* Mailbox.queue: numbers of the messages, head first
  running,          \* messages whose handler has started and not ended
  settling,         \* messages that ended, whose dispatch loop has not resumed
  outcome,          \* how the promise returned to the sender stands
  deadLetters       \* messages handed to DeadLetters.failedDelivery

mailboxVars == <<closed, suspended, queue, running, settling, outcome, deadLetters>>

\* Message m is the m-th message sent to the mailbox.
Message == 1..MaxSends

Answers == {"resolved", "rejected", "actor stopped", "mailbox full", "message dropped"}

MailboxTypeOK ==
  /\ closed \in BOOLEAN
  /\ suspended \in BOOLEAN
  /\ queue \in Seq(Message)
  /\ running \subseteq Message
  /\ settling \subseteq Message
  /\ outcome \in [Message -> Answers \cup {"unsent", "pending"}]
  /\ deadLetters \subseteq Message

MailboxInit ==
  /\ closed = FALSE
  /\ suspended = FALSE
  /\ queue = << >>
  /\ running = {}
  /\ settling = {}
  /\ outcome = [m \in Message |-> "unsent"]
  /\ deadLetters = {}

-----------------------------------------------------------------------------
Queued == Range(queue)

\* m is the next message some client sends.
IsNextSend(m) ==
  /\ outcome[m] = "unsent"
  /\ \A k \in Message : k < m => outcome[k] # "unsent"

isReceivable == ~closed /\ ~suspended /\ queue # << >>

\* Mutants of Dispatch: the head is not removed; the tail is taken instead.
DispatchPeek(q) ==
  /\ queue' = q
  /\ running' = running \cup {Head(q)}

DispatchLast(q) ==
  /\ queue' = SubSeq(q, 1, Len(q) - 1)
  /\ running' = running \cup {q[Len(q)]}

(***************************************************************************)
(* dispatch() up to its first await, on a mailbox whose queue is q: the    *)
(* head is shifted and its handler starts.  q is never empty here (send    *)
(* has just pushed, resume and Continue have tested isReceivable), so the  *)
(* EmptyMessage return is never taken, and the mailbox is open, so neither *)
(* is the isStopped() branch of deliver().                                 *)
(***************************************************************************)
Dispatch(q) ==
  /\ queue' = Tail(q)
  /\ running' = running \cup {Head(q)}

\* Mutant of SendToClosed: the promise resolves with no value; no dead letter.
SendToClosedBlank(m) ==
  /\ IsNextSend(m)
  /\ closed
  /\ outcome' = [outcome EXCEPT ![m] = "undefined"]
  /\ UNCHANGED <<closed, suspended, queue, running, settling, deadLetters>>

\* send() on a closed mailbox: a dead letter, and the promise resolves.
SendToClosed(m) ==
  /\ IsNextSend(m)
  /\ closed
  /\ outcome' = [outcome EXCEPT ![m] = "actor stopped"]
  /\ deadLetters' = deadLetters \cup {m}
  /\ UNCHANGED <<closed, suspended, queue, running, settling>>

\* The handler of m returns: deliver() resolves the promise.
Complete(m) ==
  /\ m \in running
  /\ running' = running \ {m}
  /\ settling' = settling \cup {m}
  /\ outcome' = [outcome EXCEPT ![m] = "resolved"]
  /\ UNCHANGED <<closed, suspended, queue, deadLetters>>

(***************************************************************************)
(* The handler of m throws: deliver() rejects the promise, suspends the    *)
(* mailbox and informs the supervisor.  What the supervisor then does to   *)
(* this mailbox is Resume, Suspend or Close, at any later step.            *)
(***************************************************************************)
Fail(m) ==
  /\ m \in running
  /\ running' = running \ {m}
  /\ settling' = settling \cup {m}
  /\ outcome' = [outcome EXCEPT ![m] = "rejected"]
  /\ suspended' = TRUE
  /\ UNCHANGED <<closed, queue, deadLetters>>

\* Mutant of Continue: the loop never goes round.
ContinueOnce(m) ==
  /\ m \in settling
  /\ settling' = settling \ {m}
  /\ UNCHANGED <<closed, suspended, queue, running, outcome, deadLetters>>

\* The loop that delivered m goes on: the next message, or the loop ends.
Continue(m) ==
  /\ m \in settling
  /\ settling' = settling \ {m}
  /\ \/ isReceivable /\ Dispatch(queue)
     \/ ~isReceivable /\ UNCHANGED <<queue, running>>
  /\ UNCHANGED <<closed, suspended, outcome, deadLetters>>

Suspend ==
  /\ ~suspended
  /\ suspended' = TRUE
  /\ UNCHANGED <<closed, queue, running, settling, outcome, deadLetters>>

\* Mutant of Resume: the backlog is not dispatched.
ResumeQuietly ==
  /\ suspended' = FALSE
  /\ UNCHANGED <<closed, queue, running, settling, outcome, deadLetters>>

\* resume() clears the flag and starts a loop of its own.
Resume ==
  /\ suspended' = FALSE
  /\ \/ ~closed /\ queue # << >> /\ Dispatch(queue)
     \/ (closed \/ queue = << >>) /\ UNCHANGED <<queue, running>>
  /\ UNCHANGED <<closed, settling, outcome, deadLetters>>

Close ==
  /\ ~closed
  /\ closed' = TRUE
  /\ UNCHANGED <<suspended, queue, running, settling, outcome, deadLetters>>

\* Every step that send does not take.
Operate ==
  \/ \E m \in Message : SendToClosed(m) \/ Complete(m) \/ Fail(m) \/ Continue(m)
  \/ Suspend
  \/ Resume
  \/ Close

(***************************************************************************)
(* Fairness.  A pending microtask is run by the JavaScript event loop; a   *)
(* handler ends (an assumption on the actors); a supervisor answers the    *)
(* failure it is informed of by resuming or closing the mailbox (what      *)
(* restartWithin, resume and stop do; the cases in which the code breaks   *)
(* this promise are in module Supervision).                                *)
(***************************************************************************)
LoopFairness ==
  \A m \in Message : WF_mailboxVars(Complete(m) \/ Fail(m)) /\ WF_mailboxVars(Continue(m))
SupervisorFairness == WF_mailboxVars(suspended /\ (Resume \/ Close))

-----------------------------------------------------------------------------
(***************************************************************************)
(* The promise given to a sender is pending exactly while its message is   *)
(* queued or its handler runs, never both, and each message has one place  *)
(* in the queue: no message is delivered twice and none disappears.        *)
(***************************************************************************)
PromiseAccounting ==
  /\ Queued \cap running = {}
  /\ \A m \in Message : (outcome[m] = "pending") <=> (m \in Queued \cup running)
  /\ \A i, j \in 1..Len(queue) : i < j => queue[i] < queue[j]

(***************************************************************************)
(* First in, first out: whatever was started before, by whichever loop,    *)
(* was sent before everything still queued.                                *)
(***************************************************************************)
StartedBeforeQueued ==
  \A m \in Message, q \in Queued :
    (m \in running \/ outcome[m] \in {"resolved", "rejected"}) => m < q

(***************************************************************************)
(* No lost wake-up: an open, unsuspended mailbox with a backlog always has *)
(* a dispatch loop that will come back to look at the queue.               *)
(***************************************************************************)
NoLostWakeup == isReceivable => running \cup settling # {}

(***************************************************************************)
(* The dead letter office received exactly the messages whose senders were *)
(* told so.                                                                *)
(***************************************************************************)
DeadLettersTold ==
  deadLetters = {m \in Message : outcome[m] \in {"actor stopped", "mailbox full"}}

(***************************************************************************)
(* A step that starts a handler leaves the mailbox open and unsuspended:   *)
(* neither a loop that was under way when the mailbox was suspended or     *)
(* closed, nor a send, delivers past the suspension.                       *)
(***************************************************************************)
StartsOnlyWhenOpen ==
  [][running' \subseteq running \/ (~closed' /\ ~suspended')]_mailboxVars

(***************************************************************************)
(* A message as its sender sees it, when the handlers r run and the        *)
(* promises are o, and the contract that view has to follow: whatever is   *)
(* suspended, resumed, overlapped or closed, the clients of the actor see  *)
(* the messages begin in the order sent, once, and answered at most once.  *)
(***************************************************************************)
StatusOf(r, o) ==
  [m \in Message |->
     IF m \in r THEN "handling" ELSE IF o[m] = "pending" THEN "waiting" ELSE o[m]]

status == StatusOf(running, outcome)

Contract == INSTANCE Delivery WITH MaxSends <- MaxSends, status <- status
ImplementsDelivery == Contract!Spec

(***************************************************************************)
(* Every sender is answered unless the mailbox is closed under it.         *)
(***************************************************************************)
EverySendAnswered ==
  \A m \in Message : outcome[m] = "pending" ~> (outcome[m] # "pending" \/ closed)

(***************************************************************************)
(* Mailbox.ts: "Messages are delivered one at a time (no concurrent        *)
(* processing)".                                                           *)
(***************************************************************************)
OneAtATime == \A m, n \in running : m = n

=============================================================================
