--------------------------- MODULE MessageContext ---------------------------
(***************************************************************************)
(* The execution context of a message: set on an actor by its client,      *)
(* copied into each message by the proxy, made the current one of the      *)
(* actor while the message is delivered, propagated to the collaborators   *)
(* of the actor, and read by the supervisor when the handler fails.        *)
(*                                                                         *)
(* Handlers overlap at their awaits, and calls nest: a call of an actor    *)
(* that is free starts its handler inside the call.  `turn' is the stack   *)
(* of handlers that are between two awaits, the innermost first; only the  *)
(* innermost acts, and the rest of the system when the stack is empty.     *)
(***************************************************************************)
EXTENDS Naturals, Sequences

CONSTANTS
  Actors,
  Served,          \* actors that clients call
  Collaborators,   \* <<a, b>>: b is a collaborator of a
  Failing,         \* bound: actors whose handlers may throw
  Contexts,        \* key-value pairs a client may set
  Empty,           \* no key-value pairs
  MaxSends         \* bound on the messages sent

Client == 0
Message == 1..MaxSends
Context == Contexts \cup {Empty}

\* Collaborators form a forest, as the teller, the bank and the accounts do: no
\* actor is a collaborator of two others, and none is above itself.
ASSUME CollaboratorsAssumption ==
  /\ Collaborators \subseteq Actors \X Actors
  /\ \A p, q \in Collaborators : p[2] = q[2] => p = q
  /\ \A p \in Collaborators : p[2] \notin Served
  /\ \E above \in SUBSET (Actors \X Actors) :
       /\ Collaborators \subseteq above
       /\ \A p, q \in above : p[2] = q[1] => <<p[1], q[2]>> \in above
       /\ \A a \in Actors : <<a, a>> \notin above
ASSUME ContextsAssumption == Empty \notin Contexts
ASSUME BoundAssumption == Served \cup Failing \subseteq Actors /\ MaxSends \in Nat

VARIABLES
  own,         \* _executionContext of each Environment
  current,     \* _currentMessageExecutionContext of each Environment
  messages,    \* the messages sent, in order
  queue,       \* the mailbox of each actor
  suspended,   \* actors whose mailbox is suspended
  turn,        \* handlers between two awaits, the innermost first
  awaiting,    \* handlers that await
  fresh,       \* handlers that have not awaited yet
  busy,        \* the supervisor's mailbox is suspended
  informs,     \* failures that wait in it, the oldest first
  deciding,    \* failures whose inform() awaits the strategy, and what
               \* getCurrentMessageExecutionContext() returned to it before
  overlapped   \* history: messages whose handler ran along with another

actorVars == <<own, current, messages, queue, suspended>>
handlerVars == <<turn, awaiting, fresh, overlapped>>
supervisorVars == <<busy, informs, deciding>>
vars == <<actorVars, handlerVars, supervisorVars>>

MessageRecord ==
  [to : Actors, context : Context, caller : Message \cup {Client}, early : BOOLEAN]

running == {turn[i] : i \in 1..Len(turn)} \cup awaiting
Running(a) == {m \in running : messages[m].to = a}

TypeOK ==
  /\ own \in [Actors -> Context]
  /\ current \in [Actors -> Context]
  /\ messages \in Seq(MessageRecord) /\ Len(messages) <= MaxSends
  /\ queue \in [Actors -> Seq(Message)]
  /\ suspended \subseteq Actors
  /\ turn \in Seq(Message)
  /\ awaiting \subseteq Message
  /\ fresh \subseteq running
  /\ busy \in BOOLEAN
  /\ informs \in Seq(Message)
  /\ deciding \subseteq Message \X Context
  /\ overlapped \subseteq Message

Init ==
  /\ own = [a \in Actors |-> Empty]
  /\ current = [a \in Actors |-> Empty]
  /\ messages = << >>
  /\ queue = [a \in Actors |-> << >>]
  /\ suspended = {}
  /\ turn = << >> /\ awaiting = {} /\ fresh = {} /\ overlapped = {}
  /\ busy = FALSE /\ informs = << >> /\ deciding = {}

-----------------------------------------------------------------------------
(* Delivery *)

\* propagate(): a context with pairs replaces those of the collaborators.
Propagated(a, c) ==
  [b \in Actors |-> IF c # Empty /\ <<a, b>> \in Collaborators THEN c ELSE own[b]]

\* Mutant of Begin: the collaborators are not told.
BeginUnpropagated(a, q) ==
  LET m == Head(q) IN
    /\ queue' = [queue EXCEPT ![a] = Tail(q)]
    /\ current' = [current EXCEPT ![a] = messages'[m].context]
    /\ UNCHANGED own
    /\ turn' = <<m>> \o turn
    /\ fresh' = fresh \cup {m}
    /\ overlapped' = IF Running(a) = {} THEN overlapped ELSE overlapped \cup {m} \cup Running(a)

\* deliver() of the head of q, the queue of a, up to the first await of its
\* handler.
Begin(a, q) ==
  LET m == Head(q) IN
    /\ queue' = [queue EXCEPT ![a] = Tail(q)]
    /\ current' = [current EXCEPT ![a] = messages'[m].context]
    /\ own' = Propagated(a, messages'[m].context)
    /\ turn' = <<m>> \o turn
    /\ fresh' = fresh \cup {m}
    /\ overlapped' = IF Running(a) = {} THEN overlapped ELSE overlapped \cup {m} \cup Running(a)

\* A call through the proxy of a: the message takes a copy of the context of
\* a, if it has pairs, and is sent.
Post(a, from) ==
  LET q == Append(queue[a], Len(messages) + 1) IN
    /\ Len(messages) < MaxSends
    /\ messages' = Append(messages,
         [to |-> a, context |-> own[a], caller |-> from, early |-> from \in fresh])
    /\ \/ a \notin suspended /\ Begin(a, q)
       \/ /\ a \in suspended
          /\ queue' = [queue EXCEPT ![a] = q]
          /\ UNCHANGED <<own, current, turn, fresh, overlapped>>
    /\ UNCHANGED <<suspended, awaiting, supervisorVars>>

\* executionContext().reset() of a client, with values set or not, while
\* there are messages left to carry them.
ClientSets(a, c) ==
  /\ turn = << >>
  /\ Len(messages) < MaxSends
  /\ own' = [own EXCEPT ![a] = c]
  /\ UNCHANGED <<current, messages, queue, suspended, handlerVars, supervisorVars>>

ClientCalls(a) ==
  /\ turn = << >>
  /\ Post(a, Client)

\* A handler calls a collaborator, or its own actor through its mailbox.
HandlerCalls(b) ==
  /\ turn # << >>
  /\ LET a == messages[Head(turn)].to IN b = a \/ <<a, b>> \in Collaborators
  /\ Post(b, Head(turn))

\* The innermost handler awaits or returns; either way deliver() still awaits.
HandlerAwaits ==
  /\ turn # << >>
  /\ turn' = Tail(turn)
  /\ awaiting' = awaiting \cup {Head(turn)}
  /\ fresh' = fresh \ {Head(turn)}
  /\ UNCHANGED <<actorVars, overlapped, supervisorVars>>

HandlerGoesOn(m) ==
  /\ turn = << >>
  /\ m \in awaiting
  /\ turn' = <<m>>
  /\ awaiting' = awaiting \ {m}
  /\ UNCHANGED <<actorVars, fresh, overlapped, supervisorVars>>

\* Mutant of Complete: the reset leaves no context at all.
CompleteUndefined(m) ==
  /\ turn = << >>
  /\ m \in awaiting
  /\ awaiting' = awaiting \ {m}
  /\ current' = [current EXCEPT ![messages[m].to] = "undefined"]
  /\ UNCHANGED <<own, messages, queue, suspended, turn, fresh, overlapped, supervisorVars>>

\* deliver() after the handler of m returned: finally resets the context.
Complete(m) ==
  /\ turn = << >>
  /\ m \in awaiting
  /\ awaiting' = awaiting \ {m}
  /\ current' = [current EXCEPT ![messages[m].to] = Empty]
  /\ UNCHANGED <<own, messages, queue, suspended, turn, fresh, overlapped, supervisorVars>>

\* A dispatch loop of a goes on to the next message.
Continue(a) ==
  /\ turn = << >>
  /\ a \notin suspended
  /\ queue[a] # << >>
  /\ UNCHANGED messages
  /\ Begin(a, queue[a])
  /\ UNCHANGED <<suspended, awaiting, supervisorVars>>

-----------------------------------------------------------------------------
(* Failures and the supervisor *)

\* The supervisor's mailbox takes the oldest of the failures q: inform() reads
\* the context of the failed actor and awaits the strategy.
Inform(q) ==
  /\ informs' = Tail(q)
  /\ deciding' = deciding \cup {<<Head(q), current[messages[Head(q)].to]>>}

\* handleFailureOf() sends inform() for m.
Report(m) ==
  LET q == Append(informs, m) IN
    \/ ~busy /\ Inform(q)
    \/ busy /\ informs' = q /\ UNCHANGED deciding

\* Mutant of Fail: the context is reset only when a handler returns.
FailUnreset(m) ==
  LET a == messages[m].to IN
    /\ turn = << >>
    /\ m \in awaiting
    /\ a \in Failing
    /\ awaiting' = awaiting \ {m}
    /\ suspended' = suspended \cup {a}
    /\ Report(m)
    /\ UNCHANGED <<own, current, messages, queue, turn, fresh, overlapped, busy>>

\* Mutant of Fail: the context is reset before the supervisor is informed.
FailReset(m) ==
  LET a == messages[m].to IN
    /\ turn = << >>
    /\ m \in awaiting
    /\ a \in Failing
    /\ awaiting' = awaiting \ {m}
    /\ suspended' = suspended \cup {a}
    /\ current' = [current EXCEPT ![a] = Empty]
    /\ \/ ~busy /\ informs' = informs /\ deciding' = deciding \cup {<<m, Empty>>}
       \/ busy /\ informs' = Append(informs, m) /\ UNCHANGED deciding
    /\ UNCHANGED <<own, messages, queue, turn, fresh, overlapped, busy>>

\* deliver() after the handler of m threw: the actor is suspended, its
\* supervisor informed, and finally the context reset.
Fail(m) ==
  LET a == messages[m].to IN
    /\ turn = << >>
    /\ m \in awaiting
    /\ a \in Failing
    /\ awaiting' = awaiting \ {m}
    /\ suspended' = suspended \cup {a}
    /\ Report(m)
    /\ current' = [current EXCEPT ![a] = Empty]
    /\ UNCHANGED <<own, messages, queue, turn, fresh, overlapped, busy>>

\* The supervisor fails itself, which suspends its mailbox, and is resumed.
SupervisorSuspends ==
  /\ turn = << >>
  /\ ~busy /\ busy' = TRUE
  /\ UNCHANGED <<actorVars, handlerVars, informs, deciding>>

SupervisorResumes ==
  /\ turn = << >>
  /\ busy /\ busy' = FALSE
  /\ \/ informs # << >> /\ Inform(informs)
     \/ informs = << >> /\ UNCHANGED <<informs, deciding>>
  /\ UNCHANGED <<actorVars, handlerVars>>

\* A dispatch loop of the supervisor goes on to the next failure.
SupervisorContinues ==
  /\ turn = << >>
  /\ ~busy /\ informs # << >>
  /\ Inform(informs)
  /\ UNCHANGED <<actorVars, handlerVars, busy>>

\* inform() after its await, with the directive Resume.
Decide(m, c) ==
  LET a == messages[m].to IN
    /\ turn = << >>
    /\ <<m, c>> \in deciding
    /\ deciding' = deciding \ {<<m, c>>}
    /\ suspended' = suspended \ {a}
    /\ UNCHANGED messages
    /\ \/ queue[a] # << >> /\ Begin(a, queue[a])
       \/ queue[a] = << >> /\ UNCHANGED <<own, current, queue, turn, fresh, overlapped>>
    /\ UNCHANGED <<awaiting, busy, informs>>

Next ==
  \/ \E a \in Served : ClientCalls(a) \/ \E c \in Context : ClientSets(a, c)
  \/ \E a \in Actors : HandlerCalls(a) \/ Continue(a)
  \/ HandlerAwaits
  \/ \E m \in Message : HandlerGoesOn(m) \/ Complete(m) \/ Fail(m)
  \/ \E m \in Message, c \in Context : Decide(m, c)
  \/ SupervisorSuspends \/ SupervisorResumes \/ SupervisorContinues

Spec == Init /\ [][Next]_vars

-----------------------------------------------------------------------------
(***************************************************************************)
(* The current context of an actor is that of a message whose handler is   *)
(* running: a supervisor may be shown none, or that of a handler which     *)
(* overlaps the failed one, but never that of a message long done.         *)
(***************************************************************************)
CurrentIsRunning ==
  \A a \in Actors :
    current[a] # Empty => \E m \in Running(a) : messages[m].context = current[a]

(***************************************************************************)
(* A handler's calls of collaborators before its first await carry the     *)
(* context of its own message, whatever the other clients of the actors    *)
(* set meanwhile and however the calls nest, unless the handler called its *)
(* own actor before, where another context may have been set by then.      *)
(***************************************************************************)
CallsInContext ==
  \A k \in 1..Len(messages) :
    LET m == messages[k].caller IN
      messages[k].early /\ messages[m].context # Empty /\ messages[k].to # messages[m].to =>
        \/ messages[k].context = messages[m].context
        \/ \E j \in 1..k : messages[j].caller = m /\ messages[j].to = messages[m].to

(***************************************************************************)
(* A failure is explained to a free supervisor in the context of its own   *)
(* message if no other handler of the actor ran along with the failed one. *)
(***************************************************************************)
ExplainedInContext ==
  [][\A m \in running \ overlapped, c \in Context :
       <<m, c>> \in deciding' => c = messages[m].context]_vars
=============================================================================
