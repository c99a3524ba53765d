---------------------------- MODULE TransferProofs ----------------------------
(***************************************************************************)
(* Theorems about Transfer, for every set of accounts and requests, every  *)
(* number of orders and attempts, and whichever accounts may refuse or be  *)
(* stopped.                                                                *)
(*                                                                         *)
(* The proofs look at a state in two ways.  MailInv is about mailboxes and *)
(* the turn of the event loop, and says where a call may be; the lemmas of *)
(* the first part reduce what a step does there to a few sets of calls.    *)
(* CallInv and TransferInv are about those sets: what the calls in line,   *)
(* the awaits, the timers, the answers and the histories of accounts have  *)
(* to do with each other, and how far a transfer has got.                  *)
(***************************************************************************)
EXTENDS Transfer, MailboxRecordProofs, FiniteSetTheorems, TLAPS

-----------------------------------------------------------------------------
(* Where calls are                                                          *)

\* The order that m belongs to was placed.
Known(m) == m.kind = "registerAccount" \/ order[m.id] # None

CallsOf(a) == {m \in Calls : Known(m) /\ Target(m) = a}

\* Sent to an open mailbox, and not begun.
Lined == {m \in Calls : m \in Begun \/ \E a \in Actors : m \in Queue(mailbox[a])}

\* Begun by an account, and not answered.
Busy == {m \in Calls \ Begun : \E a \in Accounts : m \in mailbox[a].running}

Stopped == {a \in Accounts : mailbox[a].closed}

\* What accounts carried out.
Done == {m \in Calls : \E a \in Accounts : m \in history[a]}

LineOf(a) == begun \o mailbox[a].queue

\* The coordinator gets to x before y.
Ahead(x, y) == Precedes(LineOf(Coordinator), x, y)

(***************************************************************************)
(* Calls are in the mailbox of the actor that handles them, each once, and *)
(* none begins on an account that was stopped.                             *)
(***************************************************************************)
MailInv ==
  /\ mailbox \in [Actors -> MailboxOf(Calls)]
  /\ begun \in Seq(Calls)
  /\ \A a \in Actors : mailbox[a] \in MailboxOf(CallsOf(a))
  /\ \A m \in Begun : Known(m) /\ ~mailbox[Target(m)].closed
  /\ \A a \in Actors : \A x \in Calls : ~Precedes(LineOf(a), x, x)
  /\ ~mailbox[Coordinator].closed

-----------------------------------------------------------------------------
(* The invariant of the calls                                               *)

Everywhere == Lined \cup awaiting \cup timers \cup Done

CallTypes ==
  /\ awaiting \subseteq Calls /\ threw \subseteq Calls /\ failures \subseteq Calls
  /\ timers \subseteq Calls /\ answers \subseteq Calls \X BOOLEAN
  /\ \A m \in awaiting \cup threw \cup failures \cup timers \cup Done : Known(m)
  /\ \A p \in answers : Known(p[1])
  /\ \A m \in awaiting : m.kind \in DOMAIN OperationOf
  /\ \A m \in timers : m.kind = "attemptDeposit"
  /\ \A m \in Done : m.kind \in Operations
  /\ \A m \in threw : m.kind \in Operations \cup {"initiateTransfer"}
  /\ \A m \in Lined : m.kind = "registerAccount" => m.id \in opened

\* A call in line has had no effect yet; one that an account is busy with has.
EffectsFollow ==
  /\ Lined \cap (awaiting \cup timers \cup threw \cup Done) = {}
  /\ timers \cap awaiting = {}
  /\ Busy \subseteq Done \cup threw
  /\ threw \cap Done = {}

\* An answer tells what the account did, or that it was stopped.
AnswersTold ==
  /\ \A p \in answers :
       /\ Awaited(p[1])
       /\ p[1] \notin Lined \cup Busy \cup threw
       /\ IF p[2] THEN p[1] \in Done \/ Target(p[1]) \in Stopped ELSE p[1] \notin Done
  /\ \A p, q \in answers : p[1] = q[1] => p = q

\* An account is asked for a transfer only by a step that awaits it.
AskedIsAwaited ==
  \A c \in Lined \cup Busy \cup threw :
    c.kind \in Operations /\ order[c.id].kind = "transfer" => Awaited(c)

\* A deposit or a withdrawal of a client is one call.
ClientsCallOnce ==
  \A c \in Everywhere :
    c.kind # "registerAccount" /\ order[c.id].kind # "transfer" =>
      c.kind = order[c.id].kind /\ c.n = 0

CallInv == CallTypes /\ EffectsFollow /\ AnswersTold /\ AskedIsAwaited /\ ClientsCallOnce

-----------------------------------------------------------------------------
(* The invariant of a transfer                                              *)

DoneFor(o, k) == \E c \in Done : c.id = o /\ c.kind = k
Record(o) == Call("recordPendingTransfer", o, 0)

\* The steps that have to do with o, wherever they are.
StepsFor(o) == {m \in Lined \cup awaiting \cup timers : m.id = o /\ m.kind \in Steps}

\* The amount was taken, or the account that was asked for it is stopped.
Paid(o) == DoneFor(o, "withdraw") \/ order[o].from \in Stopped
MayEnd(o) ==
  \/ DoneFor(o, "deposit") \/ DoneFor(o, "refund")
  \/ order[o].from \in Stopped \/ order[o].to \in Stopped

\* What step m has asked for is all that was done of its kind.
OnlyAsked(m) ==
  \A c \in Done : c.id = m.id /\ c.kind = OperationOf[m.kind] =>
    m \in awaiting /\ c = AskedBy(m)

(***************************************************************************)
(* Step m carries o on: it is the only step there is for o, but for the    *)
(* record that has to be handled before it, and the record of the transfer *)
(* and the histories of the accounts are as m expects.                     *)
(***************************************************************************)
Carries(m, o) ==
  /\ m \in StepsFor(o) /\ m.kind # "recordPendingTransfer"
  /\ StepsFor(o) \subseteq {m, Record(o)}
  /\ Record(o) \in Lined =>
       m = Call("attemptDeposit", o, 0) /\ m \in Lined /\ ~Ahead(m, Record(o))
  /\ m.kind \in {"initiateTransfer", "processRefund", "completeTransfer"} => m.n = 0
  /\ m.kind \in DOMAIN OperationOf => OnlyAsked(m)
  /\ m.kind = "initiateTransfer" =>
       /\ pendingTransfers[o] = None
       /\ ~DoneFor(o, "deposit") /\ ~DoneFor(o, "refund")
       /\ m \in awaiting => order[o].from # order[o].to
  /\ m.kind \in {"attemptDeposit", "handleDepositFailure"} =>
       /\ Paid(o) /\ ~DoneFor(o, "refund")
       /\ m.n < MAX_RETRY_ATTEMPTS
       /\ pendingTransfers[o] =
            IF Record(o) \in Lined THEN None ELSE [status |-> "withdrawn", attempts |-> m.n]
  /\ m.kind = "handleDepositFailure" => ~DoneFor(o, "deposit")
  /\ m.kind = "processRefund" =>
       /\ Paid(o) /\ ~DoneFor(o, "deposit")
       /\ pendingTransfers[o] = [status |-> "failed-deposit", attempts |-> MAX_RETRY_ATTEMPTS]
  /\ m.kind = "completeTransfer" => pendingTransfers[o] # None /\ MayEnd(o)

\* No step carries o on any more.
Over(o) ==
  /\ StepsFor(o) = {}
  /\ pendingTransfers[o] = None
  /\ DoneFor(o, "withdraw") => MayEnd(o)

TransferInv ==
  \A o \in Orders :
    IF IsTransfer(o) THEN Over(o) \/ \E m \in Calls : Carries(m, o)
    ELSE pendingTransfers[o] = None

StateTypes ==
  /\ order \in [Orders -> Requests \cup {None}]
  /\ accounts \subseteq opened /\ opened \subseteq Accounts
  /\ pendingTransfers \in [Orders -> PendingTransfer \cup {None}]
  /\ balance \in [Accounts -> Nat]
  /\ history \in [Accounts -> SUBSET Calls]

IInv == StateTypes /\ MailInv /\ CallInv /\ TransferInv

-----------------------------------------------------------------------------
(* Calls and their targets                                                  *)

OrderTypes == order \in [Orders -> Requests \cup {None}]
OrderKept == \A o \in Orders : order[o] # None => order'[o] = order[o]

LEMMA CallParts ==
  ASSUME NEW m \in Calls
  PROVE  /\ m.kind \in {"registerAccount"} \cup Steps \cup Operations
         /\ m.kind = "registerAccount" => m.id \in Accounts /\ m.n = 0
         /\ m.kind # "registerAccount" => m.id \in Orders /\ m.n \in 0..MAX_RETRY_ATTEMPTS
         /\ m = Call(m.kind, m.id, m.n)
<1>1. CASE m \in [kind : {"registerAccount"}, id : Accounts, n : {0}]
  BY <1>1 DEF Call
<1>2. CASE m \in [kind : Steps \cup Operations, id : Orders, n : 0..MAX_RETRY_ATTEMPTS]
  <2>1. m.kind # "registerAccount"
    BY <1>2 DEF Steps, Operations
  <2> QED BY <1>2, <2>1 DEF Call
<1> QED BY <1>1, <1>2 DEF Calls

LEMMA KindsApart ==
  /\ Steps \cap Operations = {}
  /\ "registerAccount" \notin Steps \cup Operations
  /\ DOMAIN OperationOf \subseteq Steps
  /\ \A k \in DOMAIN OperationOf : OperationOf[k] \in Operations
  /\ DOMAIN OperationOf = {"initiateTransfer", "attemptDeposit", "processRefund"}
  /\ OperationOf["initiateTransfer"] = "withdraw"
  /\ OperationOf["attemptDeposit"] = "deposit"
  /\ OperationOf["processRefund"] = "refund"
BY DEF Steps, Operations, OperationOf

LEMMA CallIsCall ==
  ASSUME NEW k \in Steps \cup Operations, NEW o \in Orders, NEW n \in 0..MAX_RETRY_ATTEMPTS
  PROVE  /\ Call(k, o, n) \in Calls
         /\ Call(k, o, n).kind = k /\ Call(k, o, n).id = o /\ Call(k, o, n).n = n
BY DEF Calls, Call

LEMMA OrderParts ==
  ASSUME OrderTypes, NEW o \in Orders, order[o] # None
  PROVE  /\ order[o] \in Requests
         /\ order[o].kind \in {"deposit", "withdraw", "transfer"}
         /\ order[o].from \in Accounts /\ order[o].to \in Accounts
         /\ order[o].amount \in Nat
         /\ order[o].kind # "transfer" => order[o].from = order[o].to
<1>1. order[o] \in Requests
  BY DEF OrderTypes
<1> QED BY <1>1, RequestsAssumption

LEMMA Targets ==
  ASSUME OrderTypes, NEW m \in Calls, Known(m)
  PROVE  /\ Target(m) \in Actors
         /\ m.kind \in Operations => Target(m) \in Accounts
         /\ m.kind \notin Operations => Target(m) = Coordinator
         /\ Target(m) = Coordinator => m.kind \notin Operations
<1>1. CASE m.kind \in Operations
  <2>1. m.id \in Orders /\ order[m.id] # None
    BY <1>1, CallParts, KindsApart DEF Known
  <2>2. Target(m) \in Accounts
    BY <1>1, <2>1, OrderParts DEF Target, Operations
  <2> QED BY <1>1, <2>2, NamesAssumption DEF Actors
<1>2. CASE m.kind \notin Operations
  BY <1>2 DEF Target, Operations, Actors
<1> QED BY <1>1, <1>2

LEMMA TargetKept ==
  ASSUME OrderKept, NEW m \in Calls, Known(m)
  PROVE  Known(m)' /\ Target(m)' = Target(m)
<1>1. CASE m.kind = "registerAccount"
  BY <1>1 DEF Known, Target
<1>2. CASE m.kind # "registerAccount"
  <2>1. m.id \in Orders /\ order[m.id] # None /\ order'[m.id] = order[m.id]
    BY <1>2, CallParts DEF Known, OrderKept
  <2> QED BY <2>1 DEF Known, Target
<1> QED BY <1>1, <1>2

LEMMA CallsOfKept ==
  ASSUME OrderKept, NEW a
  PROVE  CallsOf(a) \subseteq CallsOf(a)' /\ MailboxOf(CallsOf(a)) \subseteq MailboxOf(CallsOf(a)')
<1>1. CallsOf(a) \subseteq CallsOf(a)'
  BY TargetKept DEF CallsOf
<1> QED BY <1>1, LargerMailbox

LEMMA MailParts ==
  ASSUME MailInv, NEW a \in Actors
  PROVE  /\ mailbox[a] \in MailboxOf(Calls)
         /\ mailbox[a].queue \in Seq(Calls)
         /\ Queue(mailbox[a]) = Members(mailbox[a].queue)
         /\ Queue(mailbox[a]) \cup mailbox[a].running \cup mailbox[a].settling \subseteq CallsOf(a)
         /\ CallsOf(a) \subseteq Calls
<1>1. mailbox[a] \in MailboxOf(CallsOf(a)) /\ mailbox[a] \in MailboxOf(Calls)
  BY DEF MailInv
<1>2. mailbox[a].queue \in Seq(CallsOf(a)) /\ mailbox[a].queue \in Seq(Calls)
  BY <1>1 DEF MailboxOf
<1>3. \A i \in 1..Len(mailbox[a].queue) : mailbox[a].queue[i] \in CallsOf(a)
  BY <1>2
<1> QED BY <1>1, <1>2, <1>3 DEF MailboxOf, Queue, Members, CallsOf

-----------------------------------------------------------------------------
(* The line                                                                 *)

\* The call whose handler runs in this step.
Gone == IF begun = << >> THEN {} ELSE {Head(begun)}

\* The step takes the head of the turn and puts the calls new in line.
LineStep(new) ==
  /\ MailInv'
  /\ Lined' = (Lined \ Gone) \cup new
  /\ \A x, y \in Calls :
       x.kind \in Steps /\ y.kind \in Steps => (Ahead(x, y)' => Ahead(x, y) \/ y \in new)
  /\ Busy' \subseteq Busy \cup {m \in Gone : m.kind \in Operations}
  /\ Stopped' = Stopped

LEMMA RestOfTurn ==
  ASSUME MailInv
  PROVE  /\ Rest \in Seq(Calls)
         /\ Begun = Gone \cup Members(Rest) /\ Begun \subseteq Calls
         /\ \A x, y : Precedes(Rest, x, y) => Precedes(begun, x, y)
         /\ Gone \cap Members(Rest) = {}
         /\ \A a \in Actors : Gone \cap Queue(mailbox[a]) = {}
<1>1. begun \in Seq(Calls) /\ Begun = Members(begun)
  BY DEF MailInv, Begun, Members
<1>2. \A m \in Begun : m \in Calls
  BY <1>1 DEF Members
<1>3. CASE begun = << >>
  <2>1. Len(begun) = 0 /\ 1..0 = {}
    BY <1>3
  <2>2. Begun = {} /\ Members(begun) = {} /\ Rest = begun /\ Gone = {}
    BY <1>3, <2>1 DEF Begun, Members, Rest, Gone
  <2> QED BY <1>1, <2>2
<1>4. CASE begun # << >>
  <2>1. Rest = Tail(begun) /\ Gone = {Head(begun)}
    BY <1>4 DEF Rest, Gone
  <2>2. /\ Tail(begun) \in Seq(Calls) /\ Head(begun) \in Calls
        /\ Members(begun) = {Head(begun)} \cup Members(Tail(begun))
        /\ \A x, y : Precedes(Tail(begun), x, y) => Precedes(begun, x, y)
        /\ \A y \in Members(Tail(begun)) : Precedes(begun, Head(begun), y)
    BY <1>1, <1>4, HeadFirst
  <2>3. ASSUME NEW a \in Actors
        PROVE  /\ ~Precedes(begun, Head(begun), Head(begun))
               /\ Head(begun) \notin Queue(mailbox[a])
    <3>1. /\ mailbox[a].queue \in Seq(Calls)
          /\ Queue(mailbox[a]) = Members(mailbox[a].queue)
      BY MailParts
    <3>2. ~Precedes(LineOf(a), Head(begun), Head(begun))
      BY <2>2 DEF MailInv
    <3> QED BY <1>1, <2>2, <3>1, <3>2, PrecedesInConcat DEF LineOf
  <2>4. Coordinator \in Actors
    BY DEF Actors
  <2> QED BY <1>1, <1>2, <2>1, <2>2, <2>3, <2>4
<1> QED BY <1>3, <1>4

\* The mailbox of a becomes c, with q queued first and the calls new in q.
LEMMA BecomesLines ==
  ASSUME MailInv, OrderTypes, OrderKept, OrderTypes',
         NEW a \in Actors, NEW q \in Seq(CallsOf(a)'), NEW c \in MailboxOf(CallsOf(a)'),
         NEW new, new \cap Lined = {},
         Starts(Calls, mailbox[a], q, c),
         Members(q) = Queue(mailbox[a]) \cup new,
         \A x, y : Precedes(q, x, y) =>
                     Precedes(mailbox[a].queue, x, y) \/ (y \in new /\ x # y),
         c.closed = mailbox[a].closed, mailbox[a].closed => c.queue = q,
         Becomes(a, q, c)
  PROVE  LineStep(new) /\ LineOf(a)' = Rest \o q
<1>1. q \in Seq(Calls) /\ c \in MailboxOf(Calls) /\ \A m \in Members(q) : m \in CallsOf(a)'
  <2>1. CallsOf(a)' \subseteq Calls
    BY DEF CallsOf
  <2>2. Seq(CallsOf(a)') \subseteq Seq(Calls)
    BY <2>1
  <2>3. \A i \in 1..Len(q) : q[i] \in CallsOf(a)'
    OBVIOUS
  <2> QED BY <2>1, <2>2, <2>3, LargerMailbox DEF Members
<1>2. /\ Rest \in Seq(Calls) /\ Begun = Gone \cup Members(Rest) /\ Begun \subseteq Calls
      /\ \A x, y : Precedes(Rest, x, y) => Precedes(begun, x, y)
      /\ Gone \cap Members(Rest) = {}
      /\ \A b \in Actors : Gone \cap Queue(mailbox[b]) = {}
  BY RestOfTurn
<1>3. PICK f \in Seq(Calls) :
        /\ Rest \o SubSeq(q, 1, Len(q) - Len(c.queue)) = Rest \o f
        /\ q = f \o c.queue
        /\ c.running = mailbox[a].running \cup Members(f)
        /\ (Rest \o f) \o c.queue = Rest \o q
  <2>1. Moves(Calls, Rest, q, mailbox[a], c)
    BY <1>1, <1>2, LineMoves
  <2> QED BY <2>1 DEF Moves
<1>4. /\ mailbox' = [mailbox EXCEPT ![a] = c] /\ begun' = Rest \o f
      /\ mailbox \in [Actors -> MailboxOf(Calls)] /\ mailbox'[a] = c
      /\ \A b \in Actors : b # a => mailbox'[b] = mailbox[b]
      /\ \A b \in Actors : mailbox'[b].closed = mailbox[b].closed
  BY <1>3 DEF Becomes, MailInv
<1>5. c.queue \in Seq(Calls) /\ Queue(c) = Members(c.queue)
  BY <1>1 DEF MailboxOf, Queue, Members
<1>6. Members(q) = Members(f) \cup Queue(c)
  <2> DEFINE r == c.queue
  <2> HIDE DEF r
  <2>1. r \in Seq(Calls) /\ q = f \o r /\ Queue(c) = Members(r)
    BY <1>3, <1>5 DEF r
  <2>2. Members(f \o r) = Members(f) \cup Members(r)
    BY <2>1, MembersOfConcat
  <2> QED BY <2>1, <2>2
<1>7. Begun' = Members(Rest) \cup Members(f) /\ begun' \in Seq(Calls)
  <2>1. Begun' = Members(begun')
    BY DEF Begun, Members
  <2>2. Members(Rest \o f) = Members(Rest) \cup Members(f) /\ Rest \o f \in Seq(Calls)
    BY <1>2, MembersOfConcat, ConcatElements
  <2> QED BY <1>4, <2>1, <2>2
<1>8. Lined' = (Lined \ Gone) \cup new
  <2>1. /\ new \subseteq Calls /\ Gone \subseteq Calls /\ Members(Rest) \subseteq Calls
        /\ Members(f) \subseteq Calls
    BY <1>1, <1>2, <1>6 DEF CallsOf
  <2>2. \A x : x \in Lined <=> /\ x \in Calls
                               /\ x \in Gone \cup Members(Rest) \/ \E b \in Actors : x \in Queue(mailbox[b])
    BY <1>2 DEF Lined
  <2>3. \A x : x \in Lined' <=> /\ x \in Calls
                                /\ \/ x \in Members(Rest) \cup Members(f)
                                   \/ \E b \in Actors : x \in Queue(mailbox'[b])
    BY <1>7 DEF Lined
  <2>4. Queue(mailbox'[a]) \cup Members(f) = Queue(mailbox[a]) \cup new
    BY <1>4, <1>6
  <2>5. \A b \in Actors : b # a => Queue(mailbox'[b]) = Queue(mailbox[b])
    BY <1>4
  <2>6. \A x : (x \in Members(f) \/ \E b \in Actors : x \in Queue(mailbox'[b]))
                 <=> (x \in new \/ \E b \in Actors : x \in Queue(mailbox[b]))
    BY <2>4, <2>5
  <2>7. new \cap Gone = {}
    BY <2>1, <2>2
  <2> QED BY <1>2, <2>1, <2>2, <2>3, <2>6, <2>7
<1>9. Stopped' = Stopped
  BY <1>4 DEF Stopped, Actors
<1>10. Busy' \subseteq Busy \cup {m \in Gone : m.kind \in Operations}
  <2> SUFFICES ASSUME NEW b \in Accounts, NEW x \in Calls,
                      x \in mailbox'[b].running, x \notin Begun'
               PROVE  x \in Busy \/ (x \in Gone /\ x.kind \in Operations)
    BY DEF Busy
  <2>1. x \in mailbox[b].running
    <3>1. CASE b = a
      BY <1>3, <1>4, <1>7, <3>1
    <3>2. CASE b # a
      BY <1>4, <3>2 DEF Actors
    <3> QED BY <3>1, <3>2
  <2>2. x \in Begun => x \in Gone
    BY <1>2, <1>7
  <2>3. x.kind \in Operations
    <3>1. b \in Actors /\ b # Coordinator
      BY NamesAssumption DEF Actors
    <3>2. Known(x) /\ Target(x) = b
      BY <2>1, <3>1, MailParts DEF CallsOf
    <3> QED BY <3>1, <3>2, Targets
  <2> QED BY <2>1, <2>2, <2>3 DEF Busy
<1>11. ASSUME NEW m \in Begun' PROVE Known(m)' /\ ~mailbox'[Target(m)'].closed
  <2>1. CASE m \in Members(Rest)
    <3>1. m \in Calls /\ Known(m) /\ ~mailbox[Target(m)].closed
      BY <1>2, <2>1 DEF MailInv
    <3>2. Known(m)' /\ Target(m)' = Target(m) /\ Target(m) \in Actors
      BY <3>1, TargetKept, Targets
    <3> QED BY <1>4, <3>1, <3>2
  <2>2. CASE m \in Members(f)
    <3>1. Known(m)' /\ Target(m)' = a
      BY <1>1, <1>6, <2>2 DEF CallsOf
    <3>2. CASE mailbox[a].closed
      <4>1. Len(q) = Len(f) + Len(q) /\ Len(f) \in Nat /\ Len(q) \in Nat
        BY <1>1, <1>3, <3>2, ConcatElements
      <4>2. Len(f) = 0
        BY <4>1
      <4> QED BY <2>2, <4>2 DEF Members
    <3> QED BY <1>4, <3>1, <3>2
  <2> QED BY <1>7, <2>1, <2>2
<1>12. ASSUME NEW b \in Actors PROVE mailbox'[b] \in MailboxOf(CallsOf(b)')
  BY <1>4, CallsOfKept DEF MailInv
<1>13. mailbox' \in [Actors -> MailboxOf(Calls)] /\ ~mailbox'[Coordinator].closed
  BY <1>1, <1>4 DEF MailInv, Actors
<1>14. LineOf(a)' = Rest \o q
  BY <1>3, <1>4 DEF LineOf
<1>15. ASSUME NEW b \in Actors
       PROVE  /\ mailbox[b].queue \in Seq(Calls) /\ Queue(mailbox[b]) = Members(mailbox[b].queue)
              /\ \A x \in Calls : /\ ~Precedes(begun, x, x) /\ ~Precedes(mailbox[b].queue, x, x)
                                  /\ x \in Begun => x \notin Queue(mailbox[b])
              /\ \A x, y : x \in Begun /\ y \in Queue(mailbox[b]) => Precedes(LineOf(b), x, y)
              /\ \A x, y : \/ Precedes(begun, x, y) \/ Precedes(mailbox[b].queue, x, y)
                           => Precedes(LineOf(b), x, y)
  <2> DEFINE r == mailbox[b].queue
  <2> HIDE DEF r
  <2>1. r \in Seq(Calls) /\ Queue(mailbox[b]) = Members(r)
    BY MailParts DEF r
  <2>2. begun \in Seq(Calls) /\ Begun = Members(begun) /\ LineOf(b) = begun \o r
    BY DEF MailInv, Begun, Members, LineOf, r
  <2>3. \A x, y : Precedes(begun \o r, x, y) <=>
            \/ Precedes(begun, x, y) \/ Precedes(r, x, y)
            \/ x \in Members(begun) /\ y \in Members(r)
    BY <2>1, <2>2, PrecedesInConcat
  <2>4. \A x \in Calls : ~Precedes(LineOf(b), x, x)
    BY DEF MailInv
  <2> QED BY <2>1, <2>2, <2>3, <2>4 DEF r
<1>16. /\ \A x, y : Precedes(Rest \o q, x, y) <=>
            Precedes(Rest, x, y) \/ Precedes(q, x, y) \/ (x \in Members(Rest) /\ y \in Members(q))
       /\ \A x \in Calls : ~Precedes(Rest \o q, x, x)
       /\ \A x, y : Precedes(Rest \o q, x, y) => Precedes(LineOf(a), x, y) \/ y \in new
  <2>1. \A x, y : Precedes(Rest \o q, x, y) <=>
            Precedes(Rest, x, y) \/ Precedes(q, x, y) \/ (x \in Members(Rest) /\ y \in Members(q))
    BY <1>1, <1>2, PrecedesInConcat
  <2>2. Members(Rest) \subseteq Begun /\ Begun \subseteq Lined
    BY <1>2 DEF Lined
  <2> QED BY <1>2, <1>15, <2>1, <2>2
<1>17. ASSUME NEW b \in Actors, b # a
       PROVE  /\ \A x \in Calls : ~Precedes(LineOf(b)', x, x)
              /\ \A x, y : Precedes(LineOf(b)', x, y) /\ x \notin Members(f) /\ y \notin Members(f)
                             => Precedes(LineOf(b), x, y)
  <2> DEFINE r == mailbox[b].queue
             g == Rest \o f
  <2> HIDE DEF r
  <2>1. r \in Seq(Calls) /\ Queue(mailbox[b]) = Members(r) /\ LineOf(b)' = g \o r
    <3>1. begun' = g /\ mailbox'[b].queue = r
      BY <1>4, <1>17 DEF r
    <3> QED BY <1>15, <3>1 DEF LineOf, r
  <2>2. \A x, y : Precedes(g, x, y) <=>
            Precedes(Rest, x, y) \/ Precedes(f, x, y) \/ (x \in Members(Rest) /\ y \in Members(f))
    BY <1>2, PrecedesInConcat
  <2>3. Members(g) = Members(Rest) \cup Members(f) /\ g \in Seq(Calls)
    BY <1>2, MembersOfConcat, ConcatElements
  <2> HIDE DEF g
  <2>4. \A x, y : Precedes(g \o r, x, y) <=>
            Precedes(g, x, y) \/ Precedes(r, x, y) \/ (x \in Members(g) /\ y \in Members(r))
    BY <2>1, <2>3, PrecedesInConcat
  <2>5. \A x \in Members(f) : x \notin Members(r) /\ ~Precedes(f, x, x)
    <3> SUFFICES ASSUME NEW x \in Members(f) PROVE x \notin Members(r) /\ ~Precedes(f, x, x)
      OBVIOUS
    <3>1. Known(x)' /\ Target(x)' = a /\ x \in Calls
      BY <1>1, <1>6 DEF CallsOf
    <3>2. \A y \in Members(r) : Target(y)' = b
      <4>1. \A y \in Members(r) : y \in Calls /\ Known(y) /\ Target(y) = b
        BY <2>1, MailParts DEF CallsOf
      <4> QED BY <4>1, TargetKept
    <3>3. Precedes(f, x, x) => Precedes(q, x, x)
      <4> DEFINE u == c.queue
      <4> HIDE DEF u
      <4>1. u \in Seq(Calls) /\ q = f \o u
        BY <1>3, <1>5 DEF u
      <4>2. Precedes(f, x, x) => Precedes(f \o u, x, x)
        BY <4>1, PrecedesInConcat
      <4> QED BY <4>1, <4>2
    <3>4. ~Precedes(q, x, x)
      BY <1>15, <3>1
    <3> QED BY <1>17, <3>1, <3>2, <3>3, <3>4
  <2>6. \A x \in Members(f) : x \notin Members(Rest)
    BY <1>1, <1>2, <1>6, <1>15 DEF Lined
  <2>7. \A x, y : Precedes(f, x, y) => x \in Members(f) /\ y \in Members(f)
    BY DEF Precedes, Members
  <2> HIDE DEF r
  <2>8. \A x \in Calls : ~Precedes(LineOf(b)', x, x)
    BY <1>2, <1>15, <2>1, <2>2, <2>3, <2>4, <2>5, <2>6, <2>7 DEF r
  <2>9. \A x, y : Precedes(LineOf(b)', x, y) /\ x \notin Members(f) /\ y \notin Members(f)
                     => Precedes(LineOf(b), x, y)
    BY <1>2, <1>15, <2>1, <2>2, <2>3, <2>4, <2>7 DEF r
  <2> QED BY <2>8, <2>9
<1>18. MailInv'
  <2>1. \A b \in Actors : \A x \in Calls : ~Precedes(LineOf(b)', x, x)
    BY <1>14, <1>16, <1>17
  <2> QED BY <1>7, <1>11, <1>12, <1>13, <2>1 DEF MailInv
<1>19. ASSUME NEW x \in Calls, NEW y \in Calls, x.kind \in Steps, y.kind \in Steps, Ahead(x, y)'
       PROVE  Ahead(x, y) \/ y \in new
  <2>1. CASE a = Coordinator
    BY <1>14, <1>16, <1>19, <2>1 DEF Ahead
  <2>2. CASE a # Coordinator
    <3>1. \A z \in Members(f) : z.kind \notin Steps
      <4> SUFFICES ASSUME NEW z \in Members(f), z.kind \in Steps PROVE FALSE
        OBVIOUS
      <4>1. Target(z)' = a
        BY <1>1, <1>6 DEF CallsOf
      <4>2. Target(z)' = Coordinator
        BY DEF Target, Steps
      <4> QED BY <2>2, <4>1, <4>2
    <3>2. Precedes(LineOf(Coordinator)', x, y) /\ Coordinator \in Actors
      BY <1>19 DEF Ahead, Actors
    <3> QED BY <1>17, <1>19, <2>2, <3>1, <3>2 DEF Ahead
  <2> QED BY <2>1, <2>2
<1> QED BY <1>8, <1>9, <1>10, <1>14, <1>18, <1>19 DEF LineStep

LEMMA QuietTurn ==
  ASSUME Quiet
  PROVE  begun = << >> /\ Begun = {} /\ Gone = {} /\ Rest = << >>
<1>1. begun = << >> /\ Len(begun) = 0 /\ 1..0 = {}
  BY DEF Quiet
<1> QED BY <1>1 DEF Begun, Gone, Rest

\* A call waits for the actor that handles it, and a handler that runs is its actor's.
LEMMA WhereCallsAre ==
  ASSUME MailInv, OrderTypes
  PROVE  /\ \A m \in Lined : Known(m) /\ Target(m) \in Actors
         /\ \A m \in Lined : m \in Begun \/ m \in Queue(mailbox[Target(m)])
         /\ \A m \in Busy : Known(m) /\ m.kind \in Operations
         /\ Begun \subseteq Lined
         /\ \A a \in Actors : Queue(mailbox[a]) \subseteq Lined
<1>1. \A m \in Begun : m \in Calls /\ Known(m)
  BY RestOfTurn DEF MailInv
<1>2. \A a \in Actors : /\ \A m \in Queue(mailbox[a]) : m \in Calls /\ Known(m) /\ Target(m) = a
                        /\ \A m \in mailbox[a].running : m \in Calls /\ Known(m) /\ Target(m) = a
  BY MailParts DEF CallsOf
<1>3. \A a \in Accounts : a \in Actors /\ a # Coordinator
  BY NamesAssumption DEF Actors
<1>4. \A m \in Busy : Known(m) /\ m.kind \in Operations
  BY <1>2, <1>3, Targets DEF Busy
<1> QED BY <1>1, <1>2, <1>4, Targets DEF Lined

LEMMA QueueStep ==
  ASSUME MailInv, OrderTypes, OrderKept, OrderTypes', NEW a \in Actors,
         NEW c \in MailboxOf(CallsOf(a)),
         Starts(Calls, mailbox[a], mailbox[a].queue, c),
         c.closed = mailbox[a].closed, mailbox[a].closed => c.queue = mailbox[a].queue,
         Becomes(a, mailbox[a].queue, c)
  PROVE  LineStep({})
<1> DEFINE q == mailbox[a].queue
           new == {}
<1>1. c \in MailboxOf(CallsOf(a)') /\ mailbox[a] \in MailboxOf(CallsOf(a)')
  BY CallsOfKept DEF MailInv
<1>2. q \in Seq(CallsOf(a)') /\ Members(q) = Queue(mailbox[a])
  BY <1>1, MailParts DEF MailboxOf
<1> HIDE DEF q
<1>3. /\ Starts(Calls, mailbox[a], q, c)
      /\ mailbox[a].closed => c.queue = q
      /\ Becomes(a, q, c)
      /\ \A x, y : Precedes(q, x, y) =>
                     Precedes(mailbox[a].queue, x, y) \/ (y \in new /\ x # y)
      /\ Members(q) = Queue(mailbox[a]) \cup new /\ new \cap Lined = {}
  BY <1>2 DEF q
<1> HIDE DEF new
<1>4. LineStep(new)
  BY <1>1, <1>2, <1>3, BecomesLines
<1> QED BY <1>4 DEF new

LEMMA SendNothingStep ==
  ASSUME MailInv, OrderTypes, OrderKept, OrderTypes', SendNothing
  PROVE  LineStep({})
<1> DEFINE c == mailbox[Coordinator]
           q == c.queue
<1>1. Coordinator \in Actors
  BY DEF Actors
<1>2. c \in MailboxOf(CallsOf(Coordinator)) /\ c \in MailboxOf(Calls) /\ q \in Seq(Calls)
  BY <1>1, MailParts DEF MailInv
<1>3. Starts(Calls, c, q, c)
  BY <1>2, StartsNothing
<1>4. Becomes(Coordinator, q, c)
  <2>1. mailbox' = [mailbox EXCEPT ![Coordinator] = c]
    BY <1>1 DEF SendNothing, MailInv
  <2>2. begun' = Rest \o SubSeq(q, 1, Len(q) - Len(q))
    <3>1. Rest \in Seq(Calls) /\ begun' = Rest
      BY RestOfTurn DEF SendNothing
    <3> HIDE DEF q
    <3>2. Len(q) - Len(q) = 0 /\ SubSeq(q, 1, 0) = << >>
      BY <1>2
    <3>3. Rest \o << >> = Rest
      BY <3>1
    <3> QED BY <3>1, <3>2, <3>3
  <2> QED BY <2>1, <2>2 DEF Becomes
<1> QED BY <1>1, <1>2, <1>3, <1>4, QueueStep

LEMMA ContinueStep ==
  ASSUME MailInv, OrderTypes, OrderKept, OrderTypes', NEW a \in Actors, NEW m,
         Becomes(a, mailbox[a].queue, Continued(mailbox[a], m))
  PROVE  LineStep({})
<1> DEFINE b == mailbox[a]
           c == Continued(b, m)
<1>1. b \in MailboxOf(CallsOf(a)) /\ b \in MailboxOf(Calls)
  BY DEF MailInv
<1>2. b.closed => c.queue = b.queue
  <2> HIDE DEF b
  <2> QED BY <1>1 DEF Continued, Dispatched, isReceivable, MailboxOf
<1> HIDE DEF c
<1>3. c \in MailboxOf(CallsOf(a)) /\ c.closed = b.closed /\ Starts(Calls, b, b.queue, c)
  <2> HIDE DEF b
  <2> QED BY <1>1, ContinuedMoves, ContinuedStarts DEF c
<1> QED BY <1>2, <1>3, QueueStep DEF c

LEMMA ResumeStep ==
  ASSUME MailInv, OrderTypes, OrderKept, OrderTypes', NEW a \in Actors,
         Becomes(a, mailbox[a].queue, Resumed(mailbox[a]))
  PROVE  LineStep({})
<1> DEFINE b == mailbox[a]
           c == Resumed(b)
<1>1. b \in MailboxOf(CallsOf(a)) /\ b \in MailboxOf(Calls)
  BY DEF MailInv
<1>2. b.closed => c.queue = b.queue
  <2> HIDE DEF b
  <2> QED BY <1>1 DEF Resumed, Dispatched, isReceivable, MailboxOf
<1> HIDE DEF c
<1>3. c \in MailboxOf(CallsOf(a)) /\ c.closed = b.closed /\ Starts(Calls, b, b.queue, c)
  <2> HIDE DEF b
  <2> QED BY <1>1, ResumedMoves, ResumedStarts DEF c
<1> QED BY <1>2, <1>3, QueueStep DEF c

LEMMA SendStep ==
  ASSUME MailInv, OrderTypes, OrderKept, OrderTypes', NEW a \in Actors,
         NEW m \in CallsOf(a)', m \notin Lined, Send(a, m)
  PROVE  LineStep(IF mailbox[a].closed THEN {} ELSE {m})
<1>1. CASE mailbox[a].closed
  BY <1>1, SendNothingStep DEF Send
<1>2. CASE ~mailbox[a].closed
  <2> DEFINE b == mailbox[a]
             q == Append(b.queue, m)
             c == Sent(b, m)
  <2>1. b \in MailboxOf(CallsOf(a)') /\ b \in MailboxOf(Calls) /\ m \in Calls
    BY CallsOfKept DEF MailInv, CallsOf
  <2>2. /\ b.queue \in Seq(CallsOf(a)') /\ b.queue \in Seq(Calls)
        /\ Queue(b) = Members(b.queue) /\ Queue(b) \subseteq Lined
    BY <2>1, MailParts, WhereCallsAre DEF MailboxOf
  <2>3. Becomes(a, q, c)
    BY <1>2 DEF Send
  <2>4. /\ c \in MailboxOf(CallsOf(a)') /\ c.closed = b.closed /\ Starts(Calls, b, q, c)
    <3> HIDE DEF b
    <3> QED BY <1>2, <2>1, SentAdds, SentStarts DEF b
  <2>5. /\ q \in Seq(CallsOf(a)') /\ Members(q) = Queue(b) \cup {m}
        /\ \A x, y : Precedes(q, x, y) =>
                       Precedes(b.queue, x, y) \/ (x \in Members(b.queue) /\ y = m)
    <3> DEFINE r == b.queue
    <3> HIDE DEF r
    <3>1. r \in Seq(CallsOf(a)') /\ Queue(b) = Members(r) /\ q = Append(r, m)
      BY <2>2 DEF r
    <3> HIDE DEF q
    <3> QED BY <3>1, AppendedLast DEF r
  <2> HIDE DEF q, c
  <2>6. \A x, y : Precedes(q, x, y) => Precedes(b.queue, x, y) \/ (y \in {m} /\ x # y)
    BY <2>2, <2>5
  <2>7. {m} \cap Lined = {}
    OBVIOUS
  <2>8. LineStep({m})
    BY <1>2, <2>3, <2>4, <2>5, <2>6, <2>7, BecomesLines
  <2> QED BY <1>2, <2>8
<1> QED BY <1>1, <1>2

LEMMA SendBothStep ==
  ASSUME MailInv, OrderTypes, OrderKept, OrderTypes',
         NEW m \in CallsOf(Coordinator)', NEW n \in CallsOf(Coordinator)', m # n,
         m \notin Lined, n \notin Lined, SendBoth(m, n)
  PROVE  LineStep({m, n}) /\ ~Ahead(n, m)'
<1> DEFINE a == Coordinator
           b == mailbox[a]
           p == Append(b.queue, m)
           q == Append(p, n)
           c == Sent(Sent(b, m), n)
<1>1. a \in Actors
  BY DEF Actors
<1>2. /\ b \in MailboxOf(CallsOf(a)') /\ b \in MailboxOf(Calls) /\ m \in Calls /\ n \in Calls /\ ~b.closed
      /\ m \in CallsOf(a)' /\ n \in CallsOf(a)'
  BY <1>1, CallsOfKept DEF MailInv, CallsOf
<1>3. /\ b.queue \in Seq(CallsOf(a)') /\ b.queue \in Seq(Calls)
      /\ Queue(b) = Members(b.queue) /\ Queue(b) \subseteq Lined
  BY <1>1, <1>2, MailParts, WhereCallsAre DEF MailboxOf
<1>4. Becomes(a, q, c)
  BY DEF SendBoth
<1>5. c \in MailboxOf(CallsOf(a)') /\ c.closed = b.closed /\ Starts(Calls, b, q, c)
  <2> HIDE DEF a, b
  <2>1. Sent(b, m) \in MailboxOf(CallsOf(a)') /\ Sent(b, m).closed = b.closed
    BY <1>2, SentAdds
  <2>2. Sent(Sent(b, m), n) \in MailboxOf(CallsOf(a)') /\ Sent(Sent(b, m), n).closed = b.closed
    BY <1>2, <2>1, SentAdds
  <2> QED BY <1>2, <2>2, SentTwiceStarts
<1> DEFINE r == b.queue
<1>6. r \in Seq(CallsOf(a)') /\ p = Append(r, m) /\ q = Append(p, n)
  BY <1>3
<1> HIDE DEF r, p, q, c, b, a
<1>7. /\ p \in Seq(CallsOf(a)') /\ Members(p) = Members(r) \cup {m}
      /\ \A x, y : Precedes(p, x, y) <=> Precedes(r, x, y) \/ (x \in Members(r) /\ y = m)
  BY <1>2, <1>6, AppendedLast
<1>8. /\ q \in Seq(CallsOf(a)') /\ Members(q) = Members(p) \cup {n}
      /\ \A x, y : Precedes(q, x, y) <=> Precedes(p, x, y) \/ (x \in Members(p) /\ y = n)
  <2>1. n \in CallsOf(a)' /\ p \in Seq(CallsOf(a)')
    BY <1>2, <1>7
  <2>2. q = Append(p, n)
    BY <1>6
  <2> QED BY ONLY <2>1, <2>2, AppendedLast
<1>9. Members(r) = Queue(b) /\ Members(r) \subseteq Lined
  BY <1>3 DEF r
<1>10. \A x, y : Precedes(q, x, y) => Precedes(b.queue, x, y) \/ (y \in {m, n} /\ x # y)
  BY <1>7, <1>8, <1>9 DEF r
<1>11. LineStep({m, n}) /\ LineOf(a)' = Rest \o q
  <2>1. {m, n} \cap Lined = {} /\ Members(q) = Queue(b) \cup {m, n}
    BY <1>7, <1>8, <1>9
  <2>2. Starts(Calls, mailbox[a], q, c) /\ c.closed = mailbox[a].closed /\ ~mailbox[a].closed
    BY <1>2, <1>5 DEF b
  <2>3. Members(q) = Queue(mailbox[a]) \cup {m, n}
    BY <2>1 DEF b
  <2>4. \A x, y : Precedes(q, x, y) => Precedes(mailbox[a].queue, x, y) \/ (y \in {m, n} /\ x # y)
    BY <1>10 DEF b
  <2> QED BY <1>1, <1>4, <1>5, <1>8, <2>1, <2>2, <2>3, <2>4, BecomesLines
<1>12. ~Precedes(Rest \o q, n, m)
  <2>1. Rest \in Seq(Calls) /\ q \in Seq(Calls)
    <3>1. CallsOf(a)' \subseteq Calls
      BY DEF CallsOf
    <3> QED BY <1>8, <3>1, RestOfTurn
  <2>2. Precedes(Rest \o q, n, m) =>
          Precedes(Rest, n, m) \/ Precedes(q, n, m) \/ (n \in Members(Rest) /\ m \in Members(q))
    BY <2>1, PrecedesInConcat
  <2>3. Members(Rest) \subseteq Lined
    BY RestOfTurn, WhereCallsAre
  <2>4. \A s, x, y : Precedes(s, x, y) => x \in Members(s)
    BY DEF Precedes, Members
  <2> QED BY <1>7, <1>8, <1>9, <2>2, <2>3, <2>4
<1> QED BY <1>11, <1>12 DEF Ahead, a

\* Nothing stands before the call whose handler runs.
LEMMA HeadAhead ==
  ASSUME MailInv, OrderTypes, begun # << >>, NEW y \in Lined, y.kind \in Steps, y # Head(begun)
  PROVE  Ahead(Head(begun), y)
<1> DEFINE r == mailbox[Coordinator].queue
<1>1. begun \in Seq(Calls) /\ Begun = Members(begun)
  BY DEF MailInv, Begun, Members
<1>2. r \in Seq(Calls) /\ Queue(mailbox[Coordinator]) = Members(r)
  BY MailParts DEF Actors
<1>3. y \in Begun \/ y \in Queue(mailbox[Coordinator])
  BY WhereCallsAre DEF Target, Steps
<1>4. /\ Head(begun) \in Members(begun)
      /\ y \in Members(begun) => Precedes(begun, Head(begun), y)
  BY <1>1, HeadFirst
<1> HIDE DEF r
<1>5. Precedes(begun \o r, Head(begun), y)
  BY <1>1, <1>2, <1>3, <1>4, PrecedesInConcat
<1> QED BY <1>5 DEF Ahead, LineOf, r

\* Nothing is sent and nothing begins.
LEMMA TurnKept ==
  ASSUME MailInv, OrderTypes, order' = order, Quiet,
         NEW a \in Actors, NEW c \in MailboxOf(CallsOf(a)),
         c.queue = mailbox[a].queue, c.running \subseteq mailbox[a].running,
         a = Coordinator => ~c.closed,
         mailbox' = [mailbox EXCEPT ![a] = c], begun' = begun
  PROVE  /\ MailInv' /\ Lined' = Lined
         /\ \A x, y : Ahead(x, y)' <=> Ahead(x, y)
         /\ Busy' \subseteq Busy \ (mailbox[a].running \ c.running)
         /\ c.closed = mailbox[a].closed => Stopped' = Stopped
         /\ a \in Accounts /\ c.closed => Stopped' = Stopped \cup {a}
<1>1. /\ mailbox \in [Actors -> MailboxOf(Calls)] /\ mailbox'[a] = c
      /\ \A b \in Actors : b # a => mailbox'[b] = mailbox[b]
      /\ \A b \in Actors : mailbox'[b].queue = mailbox[b].queue
      /\ \A b \in Accounts : b \in Actors
  BY DEF MailInv, Actors
<1>2. Begun = {} /\ Begun' = {}
  <2>1. Begun = {}
    BY QuietTurn
  <2> QED BY <2>1 DEF Begun
<1>3. \A m \in Calls : Known(m)' = Known(m) /\ Target(m)' = Target(m)
  BY DEF Known, Target
<1>4. \A b : CallsOf(b)' = CallsOf(b)
  BY <1>3 DEF CallsOf
<1>5. \A b \in Actors : LineOf(b)' = LineOf(b) /\ Queue(mailbox'[b]) = Queue(mailbox[b])
  BY <1>1 DEF LineOf, Queue
<1>6. MailInv'
  <2>1. mailbox' \in [Actors -> MailboxOf(Calls)]
    <3>1. CallsOf(a) \subseteq Calls
      BY DEF CallsOf
    <3>2. c \in MailboxOf(Calls)
      BY <3>1, LargerMailbox
    <3> QED BY <1>1, <3>2
  <2>2. \A b \in Actors : mailbox'[b] \in MailboxOf(CallsOf(b)')
    BY <1>1, <1>4 DEF MailInv
  <2>3. ~mailbox'[Coordinator].closed
    BY <1>1 DEF MailInv, Actors
  <2> QED BY <1>2, <1>5, <2>1, <2>2, <2>3 DEF MailInv
<1>7. Lined' = Lined
  BY <1>2, <1>5 DEF Lined
<1>8. \A x, y : Ahead(x, y)' <=> Ahead(x, y)
  BY <1>5 DEF Ahead, Actors
<1>9. Busy' \subseteq Busy \ (mailbox[a].running \ c.running)
  <2> SUFFICES ASSUME NEW b \in Accounts, NEW x \in Calls, x \in mailbox'[b].running
               PROVE  x \in mailbox[b].running /\ (x \in mailbox[a].running => x \in c.running)
    BY <1>2 DEF Busy
  <2>1. CASE b = a
    BY <1>1, <2>1
  <2>2. CASE b # a
    <3>1. x \in mailbox[b].running
      BY <1>1, <2>2
    <3>2. \A d \in Actors : \A y \in mailbox[d].running : Target(y) = d
      BY MailParts DEF CallsOf
    <3> QED BY <1>1, <2>2, <3>1, <3>2
  <2> QED BY <2>1, <2>2
<1>10. /\ c.closed = mailbox[a].closed => Stopped' = Stopped
       /\ a \in Accounts /\ c.closed => Stopped' = Stopped \cup {a}
  BY <1>1 DEF Stopped
<1> QED BY <1>6, <1>7, <1>8, <1>9, <1>10

LEMMA EndStep ==
  ASSUME MailInv, OrderTypes, order' = order, Quiet,
         NEW a \in Actors, NEW m \in mailbox[a].running,
         NEW c \in {Ended(mailbox[a], m), Failed(mailbox[a], m)},
         mailbox' = [mailbox EXCEPT ![a] = c], begun' = begun
  PROVE  /\ LineStep({}) /\ Lined' = Lined /\ Busy' \subseteq Busy \ {m}
         /\ m \in Calls /\ Target(m) = a /\ Known(m) /\ (a \in Accounts => m \in Busy)
<1> DEFINE b == mailbox[a]
<1>1. b \in MailboxOf(CallsOf(a)) /\ m \in CallsOf(a) /\ m \in Calls /\ m \in b.running
  BY MailParts DEF MailInv
<1> HIDE DEF b
<1>2. /\ c \in MailboxOf(CallsOf(a)) /\ c.closed = b.closed
      /\ c.queue = b.queue /\ c.running = b.running \ {m}
  <2>1. /\ Ended(b, m) \in MailboxOf(CallsOf(a)) /\ Ended(b, m).closed = b.closed
        /\ Ended(b, m).queue = b.queue /\ Ended(b, m).running = b.running \ {m}
    BY <1>1, EndedRemoves
  <2>2. /\ Failed(b, m) \in MailboxOf(CallsOf(a)) /\ Failed(b, m).closed = b.closed
        /\ Failed(b, m).queue = b.queue /\ Failed(b, m).running = b.running \ {m}
    <3> DEFINE d == Ended(b, m)
    <3>1. Failed(b, m) = [d EXCEPT !.suspended = TRUE]
      BY DEF Failed
    <3> HIDE DEF d
    <3>2. /\ Failed(b, m).closed = d.closed /\ Failed(b, m).queue = d.queue
          /\ Failed(b, m).running = d.running
      BY <2>1, <3>1 DEF MailboxOf, d
    <3> QED BY <1>1, <2>1, <3>2, FailedRemoves DEF d
  <2> QED BY <2>1, <2>2 DEF b
<1>3. ~mailbox[Coordinator].closed /\ c.running \subseteq b.running /\ b.running \ c.running = {m}
  BY <1>1, <1>2 DEF MailInv
<1>4. /\ MailInv' /\ Lined' = Lined
      /\ \A x, y : Ahead(x, y)' <=> Ahead(x, y)
      /\ Busy' \subseteq Busy \ {m} /\ Stopped' = Stopped
  BY <1>2, <1>3, TurnKept DEF b
<1>5. a \in Accounts => m \in Busy
  BY <1>1, QuietTurn DEF Busy, b
<1>6. Gone = {}
  BY QuietTurn
<1>7. Lined' = (Lined \ Gone) \cup {} /\ Busy' \subseteq Busy \cup {x \in Gone : x.kind \in Operations}
  BY <1>4, <1>6
<1>8. LineStep({})
  BY <1>4, <1>7 DEF LineStep
<1> QED BY <1>1, <1>4, <1>5, <1>8 DEF CallsOf

LEMMA StopStep ==
  ASSUME MailInv, OrderTypes, order' = order, Quiet, NEW a \in Accounts,
         mailbox' = [mailbox EXCEPT ![a] = Closed(@)], begun' = begun
  PROVE  /\ MailInv' /\ Lined' = Lined /\ Busy' \subseteq Busy
         /\ \A x, y : Ahead(x, y)' <=> Ahead(x, y)
         /\ Stopped' = Stopped \cup {a}
<1> DEFINE b == mailbox[a]
           c == Closed(b)
<1>1. a \in Actors /\ a # Coordinator /\ mailbox' = [mailbox EXCEPT ![a] = c]
  BY NamesAssumption DEF Actors
<1>2. b \in MailboxOf(CallsOf(a))
  BY <1>1 DEF MailInv
<1>3. c \in MailboxOf(CallsOf(a)) /\ c.closed /\ c.queue = b.queue /\ c.running = b.running
  <2> HIDE DEF b
  <2> QED BY <1>2 DEF Closed, MailboxOf
<1> HIDE DEF c
<1>4. c.running \subseteq mailbox[a].running /\ c.queue = mailbox[a].queue
  BY <1>3
<1> QED BY <1>1, <1>3, <1>4, TurnKept

-----------------------------------------------------------------------------
(* What a step does to the calls                                            *)

LEMMA AskedParts ==
  ASSUME NEW m \in Calls, m.kind \in DOMAIN OperationOf
  PROVE  /\ AskedBy(m) = Call(OperationOf[m.kind], m.id, m.n)
         /\ AskedBy(m) \in Calls /\ AskedBy(m).kind = OperationOf[m.kind]
         /\ AskedBy(m).kind \in Operations
         /\ AskedBy(m).id = m.id /\ AskedBy(m).n = m.n /\ m.id \in Orders
         /\ Known(m) <=> Known(AskedBy(m))
<1>1. m.kind \in Steps /\ OperationOf[m.kind] \in Operations
  BY KindsApart
<1>2. m.id \in Orders /\ m.n \in 0..MAX_RETRY_ATTEMPTS /\ m = Call(m.kind, m.id, m.n)
  BY <1>1, CallParts, KindsApart
<1>3. AskedBy(m) = Call(OperationOf[m.kind], m.id, m.n)
  BY <1>2 DEF AskedBy, Call
<1>4. /\ AskedBy(m) \in Calls /\ AskedBy(m).kind = OperationOf[m.kind]
      /\ AskedBy(m).id = m.id /\ AskedBy(m).n = m.n
  BY <1>1, <1>2, <1>3, CallIsCall
<1> QED BY <1>1, <1>2, <1>3, <1>4, KindsApart DEF Known

\* An operation is awaited by one step.
LEMMA AskedOnce ==
  ASSUME NEW m \in Calls, m.kind \in DOMAIN OperationOf,
         NEW x \in Calls, x.kind \in DOMAIN OperationOf, AskedBy(m) = AskedBy(x)
  PROVE  m = x
<1>1. OperationOf[m.kind] = OperationOf[x.kind] /\ m.id = x.id /\ m.n = x.n
  BY AskedParts
<1>2. m.kind = x.kind
  BY <1>1, KindsApart
<1> QED BY <1>1, <1>2, CallParts

LEMMA AwaitedParts ==
  ASSUME CallTypes, NEW c, Awaited(c)
  PROVE  \E m \in awaiting : /\ m \in Calls /\ m.kind \in DOMAIN OperationOf
                             /\ AskedBy(m) = c /\ c \in Calls /\ c.kind \in Operations
                             /\ c.id = m.id /\ c.n = m.n /\ Known(c)
<1>1. PICK m \in awaiting : AskedBy(m) = c
  BY DEF Awaited
<1>2. m \in Calls /\ m.kind \in DOMAIN OperationOf /\ Known(m)
  BY DEF CallTypes
<1> QED BY <1>1, <1>2, AskedParts

LEMMA SameOrders ==
  ASSUME order' = order
  PROVE  /\ OrderKept /\ (OrderTypes => OrderTypes')
         /\ \A m : (Known(m)' <=> Known(m)) /\ Target(m)' = Target(m)
BY DEF OrderKept, OrderTypes, Known, Target

LEMMA SameHistory ==
  ASSUME history' = history
  PROVE  Done' = Done
BY DEF Done

\* The coordinator moves a transfer on: it asks no account.
LEMMA CoordinatorCalls ==
  ASSUME IInv, order' = order, opened' = opened, history' = history, failures' \subseteq failures,
         NEW new, LineStep(new), \A c \in Gone : c.kind \notin Operations,
         \A c \in new : /\ c \in Calls /\ c.kind \in Steps /\ IsTransfer(c.id)
                        /\ c \notin awaiting' \cup timers' \cup threw' \cup Done,
         \A t \in timers' : t \in timers \/ /\ t \in Calls /\ t.kind = "attemptDeposit" /\ IsTransfer(t.id)
                                            /\ t \notin Lined \cup new \cup awaiting',
         awaiting' \subseteq awaiting, answers' \subseteq answers, threw \subseteq threw',
         \A c \in threw' : c \in threw \/ /\ c \in Calls /\ c.kind = "initiateTransfer" /\ Known(c)
                                          /\ c \notin Lined \ Gone,
         \A p \in answers' : Awaited(p[1])',
         \A x \in awaiting \ awaiting' : AskedBy(x) \notin Lined \cup Busy \cup threw
  PROVE  CallInv'
<1>1. CallTypes /\ EffectsFollow /\ AnswersTold /\ AskedIsAwaited /\ ClientsCallOnce /\ MailInv /\ OrderTypes
  BY DEF IInv, CallInv, StateTypes, OrderTypes
<1>2. /\ Lined' = (Lined \ Gone) \cup new /\ Stopped' = Stopped /\ Done' = Done
      /\ Busy' \subseteq Busy
  BY SameHistory DEF LineStep
<1>3. \A m : (Known(m)' <=> Known(m)) /\ Target(m)' = Target(m)
  BY SameOrders
<1>0. "initiateTransfer" \in Steps
  BY DEF Steps
<1>4. \A c \in new : Known(c) /\ order[c.id].kind = "transfer" /\ c.kind \notin Operations
                     /\ c.kind # "registerAccount"
  BY KindsApart DEF IsTransfer, Known
<1>5. \A t \in timers' : Known(t) /\ t \in Calls /\ t.kind = "attemptDeposit"
  BY <1>1 DEF CallTypes, IsTransfer, Known
<1>6. CallTypes'
  <2>1. threw' \subseteq Calls /\ \A c \in threw' : Known(c) /\ c.kind \in Operations \cup {"initiateTransfer"}
    BY <1>1 DEF CallTypes
  <2> QED BY <1>1, <1>2, <1>3, <1>4, <1>5, <2>1 DEF CallTypes
<1>7. EffectsFollow'
  <2>1. Lined' \cap (awaiting' \cup timers' \cup threw' \cup Done) = {}
    BY <1>1, <1>2 DEF EffectsFollow
  <2>2. timers' \cap awaiting' = {}
    BY <1>1 DEF EffectsFollow
  <2>3. threw' \cap Done = {}
    BY <1>0, <1>1, KindsApart DEF EffectsFollow, CallTypes
  <2>4. Busy' \subseteq Done \cup threw'
    BY <1>1, <1>2 DEF EffectsFollow
  <2> QED BY <1>2, <2>1, <2>2, <2>3, <2>4 DEF EffectsFollow
<1>8. AnswersTold'
  <2>1. ASSUME NEW p \in answers'
        PROVE  p \in answers /\ Awaited(p[1])' /\ p[1] \notin Lined' \cup Busy' \cup threw'
    <3>1. Awaited(p[1]) /\ p[1] \notin Lined \cup Busy \cup threw
      BY <1>1, <2>1 DEF AnswersTold
    <3>2. p[1].kind \in Operations
      BY <1>1, <3>1, AwaitedParts
    <3> QED BY <1>0, <1>2, <1>4, <2>1, <3>1, <3>2, KindsApart
  <2> QED BY <1>1, <1>2, <1>3, <2>1 DEF AnswersTold
<1>9. AskedIsAwaited'
  <2> SUFFICES ASSUME NEW c \in Lined' \cup Busy' \cup threw',
                      c.kind \in Operations, order'[c.id].kind = "transfer"
               PROVE  Awaited(c)'
    BY DEF AskedIsAwaited
  <2>1. c \in Lined \cup Busy \cup threw
    BY <1>0, <1>2, <1>4, KindsApart
  <2>2. Awaited(c)
    BY <1>1, <2>1 DEF AskedIsAwaited
  <2>3. PICK x \in awaiting : AskedBy(x) = c
    BY <2>2 DEF Awaited
  <2>4. x \in awaiting'
    BY <2>1, <2>3
  <2> QED BY <2>3, <2>4 DEF Awaited
<1>10. ClientsCallOnce'
  <2>1. \A t \in timers' : t \in timers \/ order[t.id].kind = "transfer"
    BY DEF IsTransfer
  <2> QED BY <1>1, <1>2, <1>4, <2>1 DEF ClientsCallOnce, Everywhere
<1> QED BY <1>6, <1>7, <1>8, <1>9, <1>10 DEF CallInv

\* A step of the coordinator asks an account.
LEMMA AskCalls ==
  ASSUME IInv, order' = order, opened' = opened, history' = history, failures' = failures,
         timers' = timers, threw' = threw,
         begun # << >>, NEW m, m = Current, NEW op, op = AskedBy(m), NEW a, a = Target(op),
         m.kind \in DOMAIN OperationOf, IsTransfer(m.id), OnlyAsked(m), Ask(m)
  PROVE  /\ CallInv' /\ op \in Calls /\ op.kind \in Operations /\ m \in Lined
         /\ LineStep(IF mailbox[a].closed THEN {} ELSE {op})
<1> DEFINE new == IF mailbox[a].closed THEN {} ELSE {op}
<1>1. CallTypes /\ EffectsFollow /\ AnswersTold /\ AskedIsAwaited /\ ClientsCallOnce /\ MailInv /\ OrderTypes
  BY DEF IInv, CallInv, StateTypes, OrderTypes
<1>2. OrderKept /\ OrderTypes' /\ \A x : (Known(x)' <=> Known(x)) /\ Target(x)' = Target(x)
  BY <1>1, SameOrders
<1>3. m \in Begun /\ m \in Lined /\ m \in Calls /\ Known(m) /\ Gone = {m}
  <2>1. Gone = {m}
    BY DEF Gone, Current
  <2>2. m \in Begun /\ m \in Calls
    BY <1>1, <2>1, RestOfTurn
  <2> QED BY <1>1, <2>1, <2>2, WhereCallsAre
<1>4. /\ op \in Calls /\ op.kind = OperationOf[m.kind] /\ op.kind \in Operations
      /\ op.id = m.id /\ op.n = m.n /\ Known(op)
  BY <1>3, AskedParts
<1>5. a \in Accounts /\ a \in Actors /\ op \in CallsOf(a)'
  <2>1. a \in Accounts
    BY <1>1, <1>4, Targets
  <2> QED BY <1>2, <1>4, <2>1 DEF Actors, CallsOf
<1>6. op \notin Lined \cup Busy \cup threw \cup Done /\ op \notin awaiting \cup timers
      /\ op # m /\ ~Awaited(op) /\ m \notin awaiting \cup timers
  <2>1. m \notin awaiting \cup timers \cup threw \cup Done
    BY <1>1, <1>3 DEF EffectsFollow
  <2>2. ~Awaited(op)
    <3> SUFFICES ASSUME NEW x \in awaiting, AskedBy(x) = op PROVE FALSE
      BY DEF Awaited
    <3>1. x \in Calls /\ x.kind \in DOMAIN OperationOf
      BY <1>1 DEF CallTypes
    <3> QED BY <1>3, <2>1, <3>1, AskedOnce
  <2>3. op \notin Lined \cup Busy \cup threw
    BY <1>1, <1>4, <2>2 DEF AskedIsAwaited, IsTransfer
  <2>4. op \notin Done
    BY <1>4, <2>1 DEF OnlyAsked
  <2>5. op \notin awaiting \cup timers /\ op # m
    <3>1. op.kind \notin Steps /\ m.kind \in Steps
      BY <1>4, KindsApart
    <3>2. \A x \in awaiting \cup timers : x.kind \in Steps
      BY <1>1, KindsApart DEF CallTypes, Steps
    <3> QED BY <3>1, <3>2
  <2> QED BY <2>1, <2>2, <2>3, <2>4, <2>5
<1> DEFINE told == <<op, TRUE>>
<1>7. /\ awaiting' = awaiting \cup {m} /\ Send(a, op)
      /\ answers' = IF mailbox[a].closed THEN answers \cup {told} ELSE answers
      /\ told \in Calls \X BOOLEAN /\ told[1] = op /\ told[2]
  BY <1>4 DEF Ask
<1> HIDE DEF told
<1>8. LineStep(new)
  BY <1>1, <1>2, <1>5, <1>6, <1>7, SendStep
<1>9. m.kind \in Steps /\ m.kind # "registerAccount" /\ m.kind \notin Operations
      /\ op.kind # "registerAccount" /\ order[m.id].kind = "transfer" /\ m.kind \in DOMAIN OperationOf
  BY <1>4, KindsApart DEF IsTransfer
<1>10. /\ Lined' = (Lined \ {m}) \cup new /\ Stopped' = Stopped /\ Done' = Done
       /\ Busy' \subseteq Busy
  BY <1>3, <1>8, <1>9, SameHistory DEF LineStep
<1>11. Awaited(op)' /\ \A c : Awaited(c) => Awaited(c)'
  BY <1>7 DEF Awaited
<1>12. CallTypes'
  <2>1. answers' \subseteq Calls \X BOOLEAN /\ \A p \in answers' : Known(p[1])
    BY <1>1, <1>4, <1>7 DEF CallTypes
  <2>2. \A c \in Lined' : c.kind = "registerAccount" => c.id \in opened
    BY <1>1, <1>9, <1>10 DEF CallTypes
  <2> QED BY <1>1, <1>2, <1>3, <1>7, <1>9, <1>10, <2>1, <2>2 DEF CallTypes
<1>13. EffectsFollow'
  BY <1>1, <1>6, <1>7, <1>10 DEF EffectsFollow
<1>14. AnswersTold'
  <2>1. ASSUME NEW p \in answers
        PROVE  /\ Awaited(p[1])' /\ p[1] # op
               /\ p[1] \notin Lined' \cup Busy' \cup threw'
               /\ IF p[2] THEN p[1] \in Done' \/ Target(p[1])' \in Stopped' ELSE p[1] \notin Done'
    <3>1. /\ Awaited(p[1]) /\ p[1] \notin Lined \cup Busy \cup threw
          /\ IF p[2] THEN p[1] \in Done \/ Target(p[1]) \in Stopped ELSE p[1] \notin Done
      BY <1>1 DEF AnswersTold
    <3> QED BY <1>2, <1>6, <1>10, <1>11, <3>1
  <2>2. CASE mailbox[a].closed
    <3>1. /\ op \notin Lined' \cup Busy' \cup threw' /\ Target(op)' \in Stopped'
      <4>1. a \in Stopped /\ Target(op)' = a
        BY <1>2, <1>5, <2>2 DEF Stopped
      <4> QED BY <1>6, <1>10, <2>2, <4>1
    <3>2. answers' = answers \cup {told} /\ told[1] = op /\ told[2]
      BY <1>7, <2>2
    <3>3. \A p, q \in answers' : p[1] = q[1] => p = q
      BY <1>1, <2>1, <3>2 DEF AnswersTold
    <3> QED BY <1>11, <2>1, <3>1, <3>2, <3>3 DEF AnswersTold
  <2>3. CASE ~mailbox[a].closed
    BY <1>1, <1>7, <2>1, <2>3 DEF AnswersTold
  <2> QED BY <2>2, <2>3
<1>15. AskedIsAwaited'
  BY <1>1, <1>10, <1>11 DEF AskedIsAwaited
<1>16. ClientsCallOnce'
  <2>1. \A c \in Everywhere' : c \in Everywhere \/ c = op
    BY <1>3, <1>7, <1>10 DEF Everywhere
  <2> QED BY <1>1, <1>4, <1>9, <2>1 DEF ClientsCallOnce
<1> QED BY <1>3, <1>4, <1>8, <1>12, <1>13, <1>14, <1>15, <1>16 DEF CallInv

\* The handler of an account runs: it carries m out or throws.
LEMMA AccountCalls ==
  ASSUME IInv, order' = order, opened' = opened, failures' = failures, timers' = timers,
         awaiting' = awaiting, answers' = answers,
         begun # << >>, Current.kind \in Operations, SendNothing,
         \/ Done' = Done /\ threw' = threw \cup {Current}
         \/ Done' = Done \cup {Current} /\ threw' = threw
  PROVE  CallInv' /\ LineStep({}) /\ Current \in Lined /\ Current \notin Done
<1> DEFINE m == Current
<1>1. CallTypes /\ EffectsFollow /\ AnswersTold /\ AskedIsAwaited /\ ClientsCallOnce /\ MailInv /\ OrderTypes
  BY DEF IInv, CallInv, StateTypes, OrderTypes
<1>2. OrderKept /\ OrderTypes' /\ \A x : (Known(x)' <=> Known(x)) /\ Target(x)' = Target(x)
  BY <1>1, SameOrders
<1>3. m \in Begun /\ m \in Lined /\ m \in Calls /\ Known(m) /\ Gone = {m}
  <2>1. Gone = {m}
    BY DEF Gone, Current
  <2>2. m \in Begun /\ m \in Calls
    BY <1>1, <2>1, RestOfTurn
  <2> QED BY <1>1, <2>1, <2>2, WhereCallsAre
<1>4. LineStep({})
  BY <1>1, <1>2, SendNothingStep
<1>5. /\ Lined' = Lined \ {m} /\ Stopped' = Stopped /\ Busy' \subseteq Busy \cup {m}
      /\ m \notin threw /\ m \notin Done
  BY <1>1, <1>3, <1>4 DEF LineStep, EffectsFollow
<1>6. \A c : Awaited(c)' <=> Awaited(c)
  BY DEF Awaited
<1>7. m.kind \in Operations /\ (\/ Done' = Done /\ threw' = threw \cup {m}
                                \/ Done' = Done \cup {m} /\ threw' = threw)
  OBVIOUS
<1> HIDE DEF m
<1>8. CallTypes'
  BY <1>1, <1>2, <1>3, <1>5, <1>7 DEF CallTypes
<1>9. EffectsFollow'
  BY <1>1, <1>5, <1>7 DEF EffectsFollow
<1>10. AnswersTold'
  <2>1. ASSUME NEW p \in answers
        PROVE  /\ Awaited(p[1])'
               /\ p[1] \notin Lined' \cup Busy' \cup threw'
               /\ IF p[2] THEN p[1] \in Done' \/ Target(p[1])' \in Stopped' ELSE p[1] \notin Done'
    <3>1. /\ Awaited(p[1]) /\ p[1] \notin Lined \cup Busy \cup threw
          /\ IF p[2] THEN p[1] \in Done \/ Target(p[1]) \in Stopped ELSE p[1] \notin Done
      BY <1>1 DEF AnswersTold
    <3>2. p[1] # m
      BY <1>3, <3>1
    <3> QED BY <1>2, <1>5, <1>6, <1>7, <3>1, <3>2
  <2> QED BY <1>1, <2>1 DEF AnswersTold
<1>11. AskedIsAwaited'
  BY <1>1, <1>3, <1>5, <1>6, <1>7 DEF AskedIsAwaited
<1>12. ClientsCallOnce'
  <2>1. \A c \in Everywhere' : c \in Everywhere
    BY <1>3, <1>5, <1>7 DEF Everywhere
  <2> QED BY <1>1, <2>1 DEF ClientsCallOnce
<1> QED BY <1>3, <1>4, <1>5, <1>8, <1>9, <1>10, <1>11, <1>12 DEF CallInv, m

\* The handler of m ended: an operation that was awaited is answered.
LEMMA EndCalls ==
  ASSUME IInv, order' = order, opened' = opened, history' = history, timers' = timers,
         awaiting' = awaiting, NEW a \in Actors, NEW m \in Calls, Known(m), Target(m) = a,
         a \in Accounts => m \in Busy,
         LineStep({}), Lined' = Lined, Busy' \subseteq Busy \ {m},
         NEW ok \in BOOLEAN, Reply(m, ok), ok <=> m \notin threw,
         threw' = threw \ {m}, failures' \subseteq failures \cup {m}
  PROVE  CallInv'
<1>1. CallTypes /\ EffectsFollow /\ AnswersTold /\ AskedIsAwaited /\ ClientsCallOnce /\ MailInv /\ OrderTypes
  BY DEF IInv, CallInv, StateTypes, OrderTypes
<1>2. OrderKept /\ OrderTypes' /\ \A x : (Known(x)' <=> Known(x)) /\ Target(x)' = Target(x)
  BY <1>1, SameOrders
<1>3. Stopped' = Stopped /\ Done' = Done /\ \A c : Awaited(c)' <=> Awaited(c)
  BY SameHistory DEF LineStep, Awaited
<1>4. ASSUME Awaited(m)
      PROVE  m \in Busy /\ m \notin Lined /\ (IF ok THEN m \in Done ELSE m \notin Done)
  <2>1. m \in Busy
    <3>1. m.kind \in Operations
      BY <1>1, <1>4, AwaitedParts
    <3> QED BY <1>1, <3>1, Targets
  <2> QED BY <1>1, <2>1 DEF EffectsFollow
<1>5. answers' = IF Awaited(m) THEN answers \cup {<<m, ok>>} ELSE answers
  BY DEF Reply
<1>6. CallTypes'
  <2>1. answers' \subseteq Calls \X BOOLEAN /\ \A p \in answers' : Known(p[1])
    BY <1>1, <1>5 DEF CallTypes
  <2> QED BY <1>1, <1>2, <1>3, <2>1 DEF CallTypes
<1>7. EffectsFollow'
  BY <1>1, <1>3 DEF EffectsFollow
<1>8. AnswersTold'
  <2>1. ASSUME NEW p \in answers
        PROVE  /\ Awaited(p[1])' /\ p[1] \notin Lined' \cup Busy' \cup threw'
               /\ p[1] \notin Busy
               /\ IF p[2] THEN p[1] \in Done' \/ Target(p[1])' \in Stopped' ELSE p[1] \notin Done'
    <3>1. /\ Awaited(p[1]) /\ p[1] \notin Lined \cup Busy \cup threw
          /\ IF p[2] THEN p[1] \in Done \/ Target(p[1]) \in Stopped ELSE p[1] \notin Done
      BY <1>1 DEF AnswersTold
    <3> QED BY <1>2, <1>3, <3>1
  <2>2. CASE Awaited(m)
    <3>1. answers' = answers \cup {<<m, ok>>}
      BY <1>5, <2>2
    <3>2. \A p, q \in answers' : p[1] = q[1] => p = q
      BY <1>1, <1>4, <2>1, <2>2, <3>1 DEF AnswersTold
    <3>3. /\ Awaited(m)' /\ m \notin Lined' \cup Busy' \cup threw'
          /\ IF ok THEN m \in Done' ELSE m \notin Done'
      BY <1>3, <1>4, <2>2
    <3> QED BY <2>1, <3>1, <3>2, <3>3 DEF AnswersTold
  <2>3. CASE ~Awaited(m)
    BY <1>1, <1>5, <2>1, <2>3 DEF AnswersTold
  <2> QED BY <2>2, <2>3
<1>9. AskedIsAwaited'
  BY <1>1, <1>3 DEF AskedIsAwaited
<1>10. ClientsCallOnce'
  BY <1>1, <1>3 DEF ClientsCallOnce, Everywhere
<1> QED BY <1>6, <1>7, <1>8, <1>9, <1>10 DEF CallInv

\* A mailbox goes on, is resumed or is closed: the calls stay where they are.
LEMMA QuietCalls ==
  ASSUME IInv, order' = order, opened' = opened, history' = history, timers' = timers,
         awaiting' = awaiting, answers' = answers, threw' = threw, failures' \subseteq failures,
         Lined' = Lined, Busy' \subseteq Busy, Stopped \subseteq Stopped'
  PROVE  CallInv'
<1>1. CallTypes /\ EffectsFollow /\ AnswersTold /\ AskedIsAwaited /\ ClientsCallOnce
  BY DEF IInv, CallInv
<1>2. \A x : (Known(x)' <=> Known(x)) /\ Target(x)' = Target(x)
  BY SameOrders
<1>3. Done' = Done /\ \A c : Awaited(c)' <=> Awaited(c)
  BY SameHistory DEF Awaited
<1>4. CallTypes'
  BY <1>1, <1>2, <1>3 DEF CallTypes
<1>5. EffectsFollow'
  BY <1>1, <1>3 DEF EffectsFollow
<1>6. AnswersTold'
  BY <1>1, <1>2, <1>3 DEF AnswersTold
<1>7. AskedIsAwaited'
  BY <1>1, <1>3 DEF AskedIsAwaited
<1>8. ClientsCallOnce'
  BY <1>1, <1>3 DEF ClientsCallOnce, Everywhere
<1> QED BY <1>4, <1>5, <1>6, <1>7, <1>8 DEF CallInv

LEMMA StepsAreOfTransfers ==
  ASSUME OrderTypes, ClientsCallOnce, NEW x \in Calls, x \in Everywhere, Known(x), x.kind \in Steps
  PROVE  x.id \in Orders /\ IsTransfer(x.id)
<1>1. x.id \in Orders /\ order[x.id] # None /\ x.kind # "registerAccount"
  BY CallParts, KindsApart DEF Known
<1>2. order[x.id].kind \in {"deposit", "withdraw", "transfer"}
  BY <1>1, OrderParts
<1>3. x.kind \notin {"deposit", "withdraw"}
  BY DEF Steps
<1> QED BY <1>1, <1>2, <1>3 DEF ClientsCallOnce, IsTransfer

\* A client asks: the calls new are for an order that was placed in this step.
LEMMA ClientCalls ==
  ASSUME IInv, OrderKept, OrderTypes', UNCHANGED callVars, opened \subseteq opened',
         history' = history, NEW new, LineStep(new), Gone = {},
         \A c \in new : /\ c \in Calls /\ Known(c)'
                        /\ c \notin awaiting \cup timers \cup threw \cup Done
                        /\ c.kind = "registerAccount" => c.id \in opened'
                        /\ c.kind # "registerAccount" =>
                             IF order'[c.id].kind = "transfer" THEN c.kind \in Steps
                             ELSE c.kind = order'[c.id].kind /\ c.n = 0
  PROVE  CallInv'
<1>1. CallTypes /\ EffectsFollow /\ AnswersTold /\ AskedIsAwaited /\ ClientsCallOnce /\ MailInv /\ OrderTypes
  BY DEF IInv, CallInv, StateTypes, OrderTypes
<1>2. /\ Lined' = Lined \cup new /\ Stopped' = Stopped /\ Done' = Done /\ Busy' \subseteq Busy
      /\ \A c : Awaited(c)' <=> Awaited(c)
  BY SameHistory DEF LineStep, Awaited, callVars
<1>3. ASSUME NEW c \in Calls, Known(c)
      PROVE  /\ Known(c)' /\ Target(c)' = Target(c)
             /\ c.kind # "registerAccount" => order'[c.id] = order[c.id]
  <2>1. c.kind # "registerAccount" => c.id \in Orders
    BY CallParts
  <2> QED BY <1>3, <2>1, TargetKept DEF Known, OrderKept
<1>4. /\ Lined \cup Busy \cup Done \subseteq Calls
      /\ \A c \in Lined \cup Busy : Known(c)
  BY <1>1, WhereCallsAre DEF Lined, Busy, Done
<1>5. CallTypes'
  <2>1. \A p \in answers : p[1] \in Calls
    BY <1>1 DEF CallTypes
  <2>2. \A m \in awaiting \cup threw \cup failures \cup timers \cup Done : Known(m)'
    BY <1>1, <1>3, <1>4 DEF CallTypes
  <2>3. \A p \in answers : Known(p[1])'
    BY <1>1, <1>3, <2>1 DEF CallTypes
  <2> QED BY <1>1, <1>2, <2>2, <2>3 DEF CallTypes, callVars
<1>6. EffectsFollow'
  BY <1>1, <1>2 DEF EffectsFollow, callVars
<1>7. AnswersTold'
  <2>1. ASSUME NEW p \in answers
        PROVE  /\ Awaited(p[1]) /\ p[1] \notin Lined' \cup Busy \cup threw
               /\ Target(p[1])' = Target(p[1])
               /\ IF p[2] THEN p[1] \in Done \/ Target(p[1]) \in Stopped ELSE p[1] \notin Done
    <3>1. /\ Awaited(p[1]) /\ p[1] \notin Lined \cup Busy \cup threw
          /\ IF p[2] THEN p[1] \in Done \/ Target(p[1]) \in Stopped ELSE p[1] \notin Done
      BY <1>1 DEF AnswersTold
    <3>2. PICK x \in awaiting :
            /\ p[1] \in Calls /\ p[1].kind \in Operations /\ p[1].id = x.id /\ Known(p[1])
            /\ x \in Calls /\ x.kind \in DOMAIN OperationOf
      BY <1>1, <3>1, AwaitedParts
    <3>3. p[1] \notin new
      <4>1. x.kind \in Steps /\ Known(x) /\ x.kind # "registerAccount" /\ p[1].kind # "registerAccount"
        BY <1>1, <3>2, KindsApart DEF CallTypes
      <4>2. order'[p[1].id] = order[p[1].id]
        BY <1>3, <3>2, <4>1
      <4>3. order[x.id].kind = "transfer"
        BY <1>1, <3>2, <4>1, StepsAreOfTransfers DEF Everywhere, IsTransfer
      <4> QED BY <3>2, <4>1, <4>2, <4>3, KindsApart
    <3> QED BY <1>2, <1>3, <3>1, <3>2, <3>3
  <2> QED BY <1>1, <1>2, <2>1 DEF AnswersTold, callVars
<1>8. AskedIsAwaited'
  <2> SUFFICES ASSUME NEW c \in Lined' \cup Busy' \cup threw',
                      c.kind \in Operations, order'[c.id].kind = "transfer"
               PROVE  Awaited(c)'
    BY DEF AskedIsAwaited
  <2>1. c.kind # "registerAccount" /\ c.kind \notin Steps
    BY KindsApart
  <2>2. c \in Lined \cup Busy \cup threw
    BY <1>2, <2>1 DEF callVars
  <2>3. order'[c.id] = order[c.id]
    BY <1>1, <1>3, <1>4, <2>1, <2>2 DEF CallTypes
  <2> QED BY <1>1, <1>2, <2>2, <2>3 DEF AskedIsAwaited
<1>9. ClientsCallOnce'
  <2> SUFFICES ASSUME NEW c \in Everywhere', c.kind # "registerAccount", order'[c.id].kind # "transfer"
               PROVE  c.kind = order'[c.id].kind /\ c.n = 0
    BY DEF ClientsCallOnce
  <2>1. CASE c \in new
    BY <2>1
  <2>2. CASE c \notin new
    <3>1. c \in Everywhere
      BY <1>2, <2>2 DEF Everywhere, callVars
    <3>2. c \in Calls /\ Known(c)
      BY <1>1, <1>4, <3>1 DEF Everywhere, CallTypes
    <3> QED BY <1>1, <1>3, <3>1, <3>2 DEF ClientsCallOnce
  <2> QED BY <2>1, <2>2
<1> QED BY <1>5, <1>6, <1>7, <1>8, <1>9 DEF CallInv

-----------------------------------------------------------------------------
(* What a step does to a transfer                                           *)

Carried(o) == Over(o) \/ \E m \in Calls : Carries(m, o)

\* The step has nothing to do with o.
SameFor(o) ==
  /\ \A m \in Calls : m.id = o /\ m.kind \in Steps =>
       /\ (m \in Lined' <=> m \in Lined) /\ (m \in awaiting' <=> m \in awaiting)
       /\ (m \in timers' <=> m \in timers)
  /\ \A m \in Calls : m.id = o => (m \in Done' <=> m \in Done)
  /\ \A m \in Calls : Ahead(m, Record(o))' /\ m.id = o /\ m.kind \in Steps => Ahead(m, Record(o))
  /\ pendingTransfers'[o] = pendingTransfers[o]
  /\ order'[o] = order[o]
  /\ Stopped \subseteq Stopped'

LEMMA RecordIsCall ==
  ASSUME NEW o \in Orders
  PROVE  /\ Record(o) \in Calls /\ Record(o).kind = "recordPendingTransfer"
         /\ Record(o).id = o /\ Record(o).n = 0 /\ Record(o).kind \in Steps
         /\ Record(o).kind \notin DOMAIN OperationOf /\ Record(o).kind # "attemptDeposit"
<1>1. 0 \in 0..MAX_RETRY_ATTEMPTS
  BY AttemptsAssumption
<1>2. "recordPendingTransfer" \in Steps
  BY DEF Steps
<1> QED BY <1>1, <1>2, CallIsCall, KindsApart DEF Record

LEMMA SameDone ==
  ASSUME NEW o \in Orders, SameFor(o)
  PROVE  /\ \A k : DoneFor(o, k)' <=> DoneFor(o, k)
         /\ Paid(o) => Paid(o)'
         /\ MayEnd(o) => MayEnd(o)'
<1>1. Done' \subseteq Calls /\ Done \subseteq Calls
  BY DEF Done
<1>2. \A k : DoneFor(o, k)' <=> DoneFor(o, k)
  BY <1>1 DEF SameFor, DoneFor
<1> QED BY <1>2 DEF SameFor, Paid, MayEnd

LEMMA SameKept ==
  ASSUME NEW o \in Orders, CallTypes, CallTypes', SameFor(o), Carried(o)
  PROVE  Carried(o)'
<1>1. \A k : DoneFor(o, k)' <=> DoneFor(o, k)
  BY SameDone
<1>2. (Paid(o) => Paid(o)') /\ (MayEnd(o) => MayEnd(o)')
  BY SameDone
<1>3. StepsFor(o)' = StepsFor(o)
  <2>1. /\ Lined \cup awaiting \cup timers \subseteq Calls
        /\ Lined' \cup awaiting' \cup timers' \subseteq Calls
    BY DEF CallTypes, Lined
  <2> QED BY <2>1 DEF SameFor, StepsFor
<1>4. pendingTransfers'[o] = pendingTransfers[o] /\ order'[o] = order[o]
  BY DEF SameFor
<1>5. CASE Over(o)
  BY <1>1, <1>2, <1>3, <1>4, <1>5 DEF Over, Carried
<1>6. ASSUME NEW m \in Calls, Carries(m, o) PROVE Carries(m, o)'
  <2>1. m.id = o /\ m.kind \in Steps
    BY <1>6 DEF Carries, StepsFor
  <2>2. (m \in Lined' <=> m \in Lined) /\ (m \in awaiting' <=> m \in awaiting)
    BY <2>1 DEF SameFor
  <2>3. Record(o) \in Lined' <=> Record(o) \in Lined
    BY RecordIsCall DEF SameFor
  <2>4. Ahead(m, Record(o))' => Ahead(m, Record(o))
    BY <2>1 DEF SameFor
  <2>5. OnlyAsked(m) => OnlyAsked(m)'
    <3>1. Done' \subseteq Calls
      BY DEF Done
    <3> QED BY <2>1, <2>2, <3>1 DEF OnlyAsked, SameFor
  <2> QED BY <1>1, <1>2, <1>3, <1>4, <1>6, <2>2, <2>3, <2>4, <2>5 DEF Carries
<1> QED BY <1>5, <1>6 DEF Carried

\* A step of the turn that is about order o at most.
LEMMA OthersKept ==
  ASSUME IInv, CallInv', OrderKept, Stopped \subseteq Stopped', NEW o, NEW new,
         \A c \in Calls : c.id # o /\ c.kind \in Steps =>
           /\ (c \in Lined' <=> c \in Lined) /\ (c \in awaiting' <=> c \in awaiting)
           /\ (c \in timers' <=> c \in timers),
         \A c \in Calls : c.id # o => (c \in Done' <=> c \in Done),
         \A x, y \in Calls :
           x.kind \in Steps /\ y.kind \in Steps /\ y.id # o /\ Ahead(x, y)' => Ahead(x, y),
         \A p \in Orders : p # o => pendingTransfers'[p] = pendingTransfers[p] /\ order'[p] = order[p],
         o \in Orders => IF IsTransfer(o)' THEN Carried(o)' ELSE pendingTransfers'[o] = None
  PROVE  TransferInv'
<1> SUFFICES ASSUME NEW p \in Orders, p # o
             PROVE  IF IsTransfer(p)' THEN Carried(p)' ELSE pendingTransfers'[p] = None
  BY DEF TransferInv, Carried
<1>1. IsTransfer(p)' <=> IsTransfer(p)
  BY DEF IsTransfer
<1>2. IF IsTransfer(p) THEN Carried(p) ELSE pendingTransfers[p] = None
  BY <1>1 DEF IInv, TransferInv, Carried
<1>3. SameFor(p)
  BY RecordIsCall DEF SameFor
<1>4. IsTransfer(p) => Carried(p)'
  BY <1>2, <1>3, SameKept DEF IInv, CallInv
<1> QED BY <1>1, <1>2, <1>4

\* A step that is somewhere is a transfer's, and carries it on or is its record.
LEMMA StepCarries ==
  ASSUME IInv, NEW m \in Lined \cup awaiting \cup timers, m.kind \in Steps
  PROVE  /\ m \in Calls /\ Known(m) /\ m.id \in Orders /\ IsTransfer(m.id)
         /\ m.n \in 0..MAX_RETRY_ATTEMPTS
         /\ IF m.kind = "recordPendingTransfer"
            THEN m = Record(m.id) /\ m \in Lined /\ \E x \in Calls : Carries(x, m.id)
            ELSE Carries(m, m.id)
<1>1. CallTypes /\ ClientsCallOnce /\ MailInv /\ OrderTypes /\ TransferInv
  BY DEF IInv, CallInv, StateTypes, OrderTypes
<1>2. m \in Calls /\ Known(m)
  BY <1>1, WhereCallsAre DEF Lined, CallTypes
<1>3. m.id \in Orders /\ IsTransfer(m.id)
  BY <1>1, <1>2, StepsAreOfTransfers DEF Everywhere
<1>4. m \in StepsFor(m.id)
  BY DEF StepsFor
<1>5. PICK x \in Calls : Carries(x, m.id)
  BY <1>1, <1>3, <1>4 DEF TransferInv, Over
<1>6. x.kind # "recordPendingTransfer" /\ (m = x \/ m = Record(m.id))
  BY <1>4, <1>5 DEF Carries
<1>7. Record(m.id).kind = "recordPendingTransfer"
  BY <1>3, RecordIsCall
<1>8. m.n \in 0..MAX_RETRY_ATTEMPTS
  BY <1>2, CallParts, KindsApart
<1>9. m.kind = "recordPendingTransfer" => m \in Lined
  BY <1>1, KindsApart DEF CallTypes
<1> QED BY <1>2, <1>3, <1>5, <1>6, <1>7, <1>8, <1>9

LEMMA CarriesAlone ==
  ASSUME IInv, NEW o \in Orders, NEW m, Carries(m, o)
  PROVE  /\ Record(o) \notin awaiting \cup timers
         /\ m \in awaiting \cup timers \/ m.kind # "attemptDeposit" \/ m.n # 0 => Record(o) \notin Lined
         /\ Record(o) \notin Lined => StepsFor(o) = {m}
         /\ m.id = o /\ m.kind \in Steps /\ m.kind # "recordPendingTransfer"
<1>1. CallTypes /\ EffectsFollow
  BY DEF IInv, CallInv
<1>2. Record(o) \notin awaiting \cup timers
  BY <1>1, RecordIsCall DEF CallTypes
<1>3. m \in StepsFor(o) /\ StepsFor(o) \subseteq {m, Record(o)} /\ m.kind # "recordPendingTransfer"
  BY DEF Carries
<1>4. Record(o) \in Lined => m = Call("attemptDeposit", o, 0) /\ m \in Lined
  BY DEF Carries
<1>5. m \in awaiting \cup timers => m \notin Lined
  BY <1>1 DEF EffectsFollow
<1> QED BY <1>2, <1>3, <1>4, <1>5 DEF StepsFor, Call

\* The handler that runs in this step.
LEMMA HandlerRuns ==
  ASSUME IInv, begun # << >>, NEW m, m = Current
  PROVE  /\ m \in Calls /\ m \in Lined /\ m \in Begun /\ Known(m) /\ Gone = {m}
         /\ m \notin awaiting \cup timers \cup threw \cup Done
         /\ ~mailbox[Target(m)].closed
<1>1. MailInv /\ OrderTypes /\ EffectsFollow
  BY DEF IInv, CallInv, StateTypes, OrderTypes
<1>2. Gone = {m}
  BY DEF Gone, Current
<1>3. m \in Begun /\ m \in Calls
  BY <1>1, <1>2, RestOfTurn
<1> QED BY <1>1, <1>2, <1>3, WhereCallsAre DEF EffectsFollow, MailInv

-----------------------------------------------------------------------------
(* The handlers of the coordinator, up to their first await                 *)

LEMMA HandlerMoves ==
  ASSUME IInv, begun # << >>, NEW m, m = Current, m.kind \notin Operations,
         order' = order, opened' = opened, history' = history, failures' = failures,
         awaiting' = awaiting, answers' = answers, StateTypes',
         threw' = threw \/ (threw' = threw \cup {m} /\ m.kind = "initiateTransfer"),
         NEW new, LineStep(new),
         \A c \in new : /\ c \in Calls /\ c.kind \in Steps /\ c.id = m.id /\ IsTransfer(c.id)
                        /\ c \notin awaiting \cup timers' \cup threw' \cup Done,
         timers \subseteq timers',
         \A t \in timers' : t \in timers \/ /\ t \in Calls /\ t.kind = "attemptDeposit" /\ IsTransfer(t.id)
                                            /\ t.id = m.id /\ t \notin Lined \cup new \cup awaiting,
         \A p \in Orders : p # m.id => pendingTransfers'[p] = pendingTransfers[p],
         m.id \in Orders => Carried(m.id)'
  PROVE  IInv'
<1>1. /\ m \in Calls /\ m \in Lined /\ Known(m) /\ Gone = {m}
      /\ m \notin awaiting \cup timers \cup threw \cup Done
  BY HandlerRuns
<1>2. /\ Lined' = (Lined \ {m}) \cup new /\ Stopped' = Stopped /\ MailInv'
      /\ \A x, y \in Calls : x.kind \in Steps /\ y.kind \in Steps => (Ahead(x, y)' => Ahead(x, y) \/ y \in new)
  BY <1>1 DEF LineStep
<1>3. CallInv'
  <2>1. \A p \in answers : Awaited(p[1])'
    BY DEF IInv, CallInv, AnswersTold, Awaited
  <2>2. \A c \in threw' : c \in threw \/ (c \in Calls /\ c.kind = "initiateTransfer" /\ Known(c) /\ c \notin Lined \ Gone)
    BY <1>1
  <2> QED BY <1>1, <2>1, <2>2, CoordinatorCalls
<1>4. TransferInv'
  <2>1. OrderKept /\ Done' = Done /\ (m.id \in Orders => IsTransfer(m.id)')
    <3>1. m.id \in Orders => m.kind \in Steps
      BY <1>1, CallParts, NamesAssumption DEF Orders
    <3>2. m.id \in Orders => IsTransfer(m.id)
      BY <1>1, <3>1, StepCarries
    <3> QED BY <3>2, SameHistory DEF OrderKept, IsTransfer
  <2>2. \A c \in Calls : c.id # m.id /\ c.kind \in Steps =>
           /\ (c \in Lined' <=> c \in Lined) /\ (c \in awaiting' <=> c \in awaiting)
           /\ (c \in timers' <=> c \in timers)
    BY <1>2
  <2>3. \A x, y \in Calls :
           x.kind \in Steps /\ y.kind \in Steps /\ y.id # m.id /\ Ahead(x, y)' => Ahead(x, y)
    BY <1>2
  <2> QED BY <1>2, <1>3, <2>1, <2>2, <2>3, OthersKept
<1> QED BY <1>2, <1>3, <1>4 DEF IInv

LEMMA QuietHandler ==
  ASSUME IInv, SendNothing, order' = order, begun # << >>
  PROVE  LineStep({})
BY SendNothingStep, SameOrders DEF IInv, StateTypes, OrderTypes

LEMMA KeptTypes ==
  ASSUME IInv, order' = order, opened' = opened, accounts' = accounts, balance' = balance,
         history' = history, pendingTransfers' \in [Orders -> PendingTransfer \cup {None}]
  PROVE  StateTypes'
BY DEF IInv, StateTypes

LEMMA RegisterKeeps ==
  ASSUME IInv, registerAccount
  PROVE  IInv'
<1>0. PICK m : m = Current
  OBVIOUS
<1>1. begun # << >> /\ m.kind = "registerAccount" /\ SendNothing /\ accounts' = accounts \cup {m.id}
  BY <1>0 DEF registerAccount, Runs, Current
<1>2. /\ order' = order /\ opened' = opened /\ history' = history /\ failures' = failures
      /\ awaiting' = awaiting /\ answers' = answers /\ threw' = threw /\ timers' = timers
      /\ pendingTransfers' = pendingTransfers /\ balance' = balance
  BY DEF registerAccount, callVars, accountVars
<1>3. m \in Lined /\ m \in Calls /\ m.id \in Accounts /\ m.id \in opened
  BY <1>0, <1>1, HandlerRuns, CallParts DEF IInv, CallInv, CallTypes
<1>4. m.id \notin Orders /\ m.kind \notin Operations
  BY <1>1, <1>3, NamesAssumption, KindsApart DEF Orders
<1>5. StateTypes'
  BY <1>1, <1>2, <1>3 DEF IInv, StateTypes
<1>6. LineStep({})
  BY <1>1, <1>2, QuietHandler
<1> QED BY <1>0, <1>1, <1>2, <1>4, <1>5, <1>6, HandlerMoves

LEMMA RefusalKeeps ==
  ASSUME IInv, InitiateRefused
  PROVE  IInv'
<1>0. PICK m : m = Current
  OBVIOUS
<1>1. begun # << >> /\ m.kind = "initiateTransfer" /\ SendNothing /\ threw' = threw \cup {m}
  BY <1>0 DEF InitiateRefused, Runs, Current
<1>2. /\ order' = order /\ opened' = opened /\ history' = history /\ failures' = failures
      /\ awaiting' = awaiting /\ answers' = answers /\ accounts' = accounts /\ timers' = timers
      /\ pendingTransfers' = pendingTransfers /\ balance' = balance
  BY DEF InitiateRefused, bankVars, accountVars
<1>3. m \in Lined /\ m \in Calls /\ Gone = {m} /\ m \notin awaiting \cup timers
  BY <1>0, <1>1, HandlerRuns
<1>4. m.kind \in Steps /\ m.kind \notin Operations /\ m.kind \in DOMAIN OperationOf
  BY <1>1, KindsApart
<1>5. Carries(m, m.id) /\ m.id \in Orders
  BY <1>1, <1>3, <1>4, StepCarries
<1>6. StateTypes'
  BY <1>2, KeptTypes DEF IInv, StateTypes
<1>7. LineStep({})
  BY <1>1, <1>2, QuietHandler
<1>8. Carried(m.id)'
  <2>1. StepsFor(m.id) = {m}
    BY <1>1, <1>5, CarriesAlone
  <2>2. StepsFor(m.id)' = {}
    BY <1>2, <1>3, <1>7, <2>1 DEF StepsFor, LineStep
  <2>3. ~DoneFor(m.id, "withdraw")
    BY <1>1, <1>3, <1>4, <1>5, KindsApart DEF Carries, OnlyAsked, DoneFor
  <2>4. Done' = Done
    BY <1>2, SameHistory
  <2> QED BY <1>1, <1>2, <1>5, <2>2, <2>3, <2>4 DEF Carries, Over, Carried, DoneFor
<1> QED BY <1>0, <1>1, <1>2, <1>4, <1>6, <1>7, <1>8, HandlerMoves

LEMMA RecordKeeps ==
  ASSUME IInv, recordPendingTransfer
  PROVE  IInv'
<1>0. PICK m : m = Current
  OBVIOUS
<1> DEFINE o == m.id
           pt == [status |-> "withdrawn", attempts |-> 0]
<1>1. /\ begun # << >> /\ m.kind = "recordPendingTransfer" /\ SendNothing
      /\ pendingTransfers' = [pendingTransfers EXCEPT ![o] = pt]
  BY <1>0 DEF recordPendingTransfer, Runs, Current
<1>2. /\ order' = order /\ opened' = opened /\ history' = history /\ failures' = failures
      /\ awaiting' = awaiting /\ answers' = answers /\ accounts' = accounts /\ timers' = timers
      /\ threw' = threw /\ balance' = balance
  BY DEF recordPendingTransfer, callVars, accountVars
<1>3. m \in Lined /\ m \in Calls /\ Gone = {m} /\ m \notin awaiting \cup timers
  BY <1>0, <1>1, HandlerRuns
<1>4. m.kind \in Steps /\ m.kind \notin Operations
  BY <1>1, KindsApart DEF Steps
<1>5. o \in Orders /\ m = Record(o) /\ \E x \in Calls : Carries(x, o)
  BY <1>1, <1>3, <1>4, StepCarries
<1>6. StateTypes' /\ pendingTransfers'[o] = pt /\ \A p \in Orders : p # o => pendingTransfers'[p] = pendingTransfers[p]
  <2>1. pt \in PendingTransfer /\ pendingTransfers \in [Orders -> PendingTransfer \cup {None}]
    BY AttemptsAssumption DEF PendingTransfer, IInv, StateTypes
  <2> HIDE DEF pt
  <2>2. pendingTransfers' \in [Orders -> PendingTransfer \cup {None}]
    BY <1>1, <1>5, <2>1
  <2> QED BY <1>1, <1>2, <1>5, <2>1, <2>2, KeptTypes
<1>7. LineStep({})
  BY <1>1, <1>2, QuietHandler
<1>8. PICK x \in Calls : Carries(x, o)
  BY <1>5
<1>9. /\ x = Call("attemptDeposit", o, 0) /\ x \in Lined /\ x.kind = "attemptDeposit" /\ x.n = 0
      /\ x \in StepsFor(o) /\ StepsFor(o) \subseteq {x, Record(o)} /\ x # m
  BY <1>1, <1>3, <1>5, <1>8 DEF Carries, Call
<1>10. Carries(x, o)'
  <2>1. Lined' = Lined \ {m} /\ Done' = Done /\ Stopped' = Stopped
    BY <1>2, <1>3, <1>7, SameHistory DEF LineStep
  <2>2. StepsFor(o)' = StepsFor(o) \ {m}
    BY <1>2, <1>3, <2>1 DEF StepsFor
  <2>3. Record(o) \notin Lined' /\ Paid(o)' = Paid(o) /\ (OnlyAsked(x) => OnlyAsked(x)')
        /\ \A k : DoneFor(o, k)' = DoneFor(o, k)
    BY <1>2, <1>5, <2>1 DEF Paid, DoneFor, OnlyAsked
  <2> QED BY <1>2, <1>6, <1>8, <1>9, <2>1, <2>2, <2>3 DEF Carries
<1>11. Carried(o)'
  BY <1>10 DEF Carried
<1> QED BY <1>0, <1>1, <1>2, <1>4, <1>6, <1>7, <1>11, HandlerMoves

LEMMA CompletionKeeps ==
  ASSUME IInv, completeTransfer
  PROVE  IInv'
<1>0. PICK m : m = Current
  OBVIOUS
<1> DEFINE o == m.id
<1>1. /\ begun # << >> /\ m.kind = "completeTransfer" /\ SendNothing
      /\ pendingTransfers' = [pendingTransfers EXCEPT ![o] = None]
  BY <1>0 DEF completeTransfer, Runs, Current
<1>2. /\ order' = order /\ opened' = opened /\ history' = history /\ failures' = failures
      /\ awaiting' = awaiting /\ answers' = answers /\ accounts' = accounts /\ timers' = timers
      /\ threw' = threw /\ balance' = balance
  BY DEF completeTransfer, callVars, accountVars
<1>3. m \in Lined /\ m \in Calls /\ Gone = {m} /\ m \notin awaiting \cup timers
  BY <1>0, <1>1, HandlerRuns
<1>4. m.kind \in Steps /\ m.kind \notin Operations
  BY <1>1, KindsApart DEF Steps
<1>5. o \in Orders /\ Carries(m, o)
  BY <1>1, <1>3, <1>4, StepCarries
<1>6. StateTypes' /\ pendingTransfers'[o] = None /\ \A p \in Orders : p # o => pendingTransfers'[p] = pendingTransfers[p]
  <2>1. pendingTransfers \in [Orders -> PendingTransfer \cup {None}]
    BY DEF IInv, StateTypes
  <2>2. pendingTransfers' \in [Orders -> PendingTransfer \cup {None}]
    BY <1>1, <1>5, <2>1
  <2> QED BY <1>1, <1>2, <1>5, <2>1, <2>2, KeptTypes
<1>7. LineStep({})
  BY <1>1, <1>2, QuietHandler
<1>8. Carried(o)'
  <2>1. StepsFor(o) = {m}
    BY <1>1, <1>5, CarriesAlone
  <2>2. StepsFor(o)' = {}
    BY <1>2, <1>3, <1>7, <2>1 DEF StepsFor, LineStep
  <2>3. Done' = Done /\ Stopped' = Stopped /\ MayEnd(o)
    BY <1>1, <1>2, <1>5, <1>7, SameHistory DEF LineStep, Carries
  <2>4. MayEnd(o)'
    BY <1>2, <2>3 DEF MayEnd, DoneFor
  <2> QED BY <1>6, <2>2, <2>4 DEF Over, Carried
<1> QED BY <1>0, <1>1, <1>2, <1>4, <1>6, <1>7, <1>8, HandlerMoves

\* The transfer of a step that goes on after its record was made.
LEMMA RecordedParts ==
  ASSUME IInv, NEW o \in Orders, NEW m \in Calls, Carries(m, o),
         m.kind \in {"attemptDeposit", "handleDepositFailure"}, Record(o) \notin Lined
  PROVE  /\ pendingTransfers[o] = [status |-> "withdrawn", attempts |-> m.n]
         /\ pendingTransfers[o] \in PendingTransfer /\ pendingTransfers[o] # None
         /\ m.n \in 0..MAX_RETRY_ATTEMPTS /\ m.n < MAX_RETRY_ATTEMPTS
         /\ Paid(o) /\ ~DoneFor(o, "refund")
<1>1. m.kind \in Steps
  BY CarriesAlone
<1>2. m.n \in 0..MAX_RETRY_ATTEMPTS
  BY <1>1, CallParts, KindsApart
<1>3. /\ pendingTransfers[o] = [status |-> "withdrawn", attempts |-> m.n] /\ m.n < MAX_RETRY_ATTEMPTS
      /\ Paid(o) /\ ~DoneFor(o, "refund")
  BY DEF Carries
<1>4. pendingTransfers[o] \in PendingTransfer
  BY <1>2, <1>3 DEF PendingTransfer
<1> QED BY <1>2, <1>3, <1>4, NoneAssumption

\* A call of the coordinator to itself joins the line.
LEMMA SelfSendStep ==
  ASSUME IInv, order' = order, NEW c \in Calls, c.kind \in Steps, IsTransfer(c.id), c \notin Lined,
         Send(Coordinator, c)
  PROVE  LineStep({c})
<1>1. MailInv /\ OrderTypes /\ OrderKept /\ OrderTypes' /\ ~mailbox[Coordinator].closed
  BY SameOrders DEF IInv, StateTypes, OrderTypes, MailInv
<1>2. Coordinator \in Actors
  BY DEF Actors
<1>3. Known(c)' /\ Target(c)' = Coordinator
  BY DEF IsTransfer, Known, Target, Steps
<1>4. c \in CallsOf(Coordinator)'
  BY <1>3 DEF CallsOf
<1> QED BY <1>1, <1>2, <1>4, SendStep

LEMMA FailureKeeps ==
  ASSUME IInv, handleDepositFailure
  PROVE  IInv'
<1>0. PICK m : m = Current
  OBVIOUS
<1> DEFINE o == m.id
           pt == pendingTransfers[o]
           n == m.n + 1
<1>1. begun # << >> /\ m.kind = "handleDepositFailure"
  BY <1>0 DEF handleDepositFailure, Runs, Current
<1>2. /\ order' = order /\ opened' = opened /\ history' = history /\ failures' = failures
      /\ awaiting' = awaiting /\ answers' = answers /\ accounts' = accounts
      /\ threw' = threw /\ balance' = balance
  BY DEF handleDepositFailure, accountVars
<1>3. m \in Lined /\ m \in Calls /\ Gone = {m} /\ m \notin awaiting \cup timers
  BY <1>0, <1>1, HandlerRuns
<1>4. m.kind \in Steps /\ m.kind \notin Operations
  BY <1>1, KindsApart DEF Steps
<1>5. o \in Orders /\ Carries(m, o) /\ IsTransfer(o)
  BY <1>1, <1>3, <1>4, StepCarries
<1>6. Record(o) \notin Lined /\ StepsFor(o) = {m}
  BY <1>1, <1>5, CarriesAlone
<1>7. /\ pendingTransfers[o] = [status |-> "withdrawn", attempts |-> m.n]
      /\ pendingTransfers[o] # None /\ pendingTransfers[o] \in PendingTransfer
      /\ m.n \in 0..MAX_RETRY_ATTEMPTS /\ m.n < MAX_RETRY_ATTEMPTS
      /\ Paid(o) /\ ~DoneFor(o, "refund")
  BY <1>1, <1>3, <1>5, <1>6, RecordedParts
<1>8. n \in 0..MAX_RETRY_ATTEMPTS /\ pendingTransfers[o].attempts + 1 = n
  BY <1>7, AttemptsAssumption
<1>9. pendingTransfers \in [Orders -> PendingTransfer \cup {None}] /\ ~DoneFor(o, "deposit")
  BY <1>1, <1>5 DEF IInv, StateTypes, Carries
<1>10. Done' = Done
  BY <1>2, SameHistory
<1>11. CASE n < MAX_RETRY_ATTEMPTS
  <2> DEFINE t == Call("attemptDeposit", o, n)
  <2>1. Retry(o, n)
    BY <1>0, <1>7, <1>8, <1>11 DEF handleDepositFailure, Transferred, Current
  <2>2. pendingTransfers' = [pendingTransfers EXCEPT ![o].attempts = n] /\ SendNothing /\ timers' = timers \cup {t}
    BY <2>1 DEF Retry
  <2>3. t \in Calls /\ t.kind = "attemptDeposit" /\ t.id = o /\ t.n = n /\ t.kind \in Steps
        /\ t.kind \in DOMAIN OperationOf
    BY <1>5, <1>8, CallIsCall, KindsApart DEF Steps
  <2>4. pendingTransfers'[o] = [status |-> "withdrawn", attempts |-> n]
        /\ \A p \in Orders : p # o => pendingTransfers'[p] = pendingTransfers[p]
    BY <1>5, <1>7, <1>9, <2>2
  <2>5. StateTypes'
    <3>1. [status |-> "withdrawn", attempts |-> n] \in PendingTransfer
      BY <1>8 DEF PendingTransfer
    <3>2. pendingTransfers' \in [Orders -> PendingTransfer \cup {None}]
      BY <1>5, <1>9, <2>2, <2>4, <3>1
    <3> QED BY <1>2, <3>2, KeptTypes
  <2>6. LineStep({})
    BY <1>1, <1>2, <2>2, QuietHandler
  <2> HIDE DEF t
  <2>7. t # m /\ t \notin Lined \cup awaiting \cup timers
    BY <1>1, <1>6, <2>3 DEF StepsFor
  <2>8. Carries(t, o)'
    <3>1. Lined' = Lined \ {m} /\ Stopped' = Stopped
      BY <1>3, <2>6 DEF LineStep
    <3>2. StepsFor(o)' = {t}
      BY <1>2, <1>3, <1>6, <2>2, <2>3, <3>1 DEF StepsFor
    <3>3. Record(o) \notin Lined' /\ Paid(o)' = Paid(o)
          /\ \A k : DoneFor(o, k)' = DoneFor(o, k)
      BY <1>2, <1>6, <1>10, <3>1 DEF Paid, DoneFor
    <3>4. OnlyAsked(t)'
      BY <1>9, <1>10, <2>3, KindsApart DEF OnlyAsked, DoneFor
    <3> QED BY <1>7, <1>11, <2>3, <2>4, <3>2, <3>3, <3>4 DEF Carries
  <2>9. Carried(o)'
    BY <2>3, <2>8 DEF Carried
  <2>10. timers \subseteq timers' /\ \A x \in timers' : x \in timers \/
           /\ x \in Calls /\ x.kind = "attemptDeposit" /\ IsTransfer(x.id)
           /\ x.id = m.id /\ x \notin Lined \cup {} \cup awaiting
    BY <1>5, <2>2, <2>3, <2>7
  <2> QED BY <1>0, <1>1, <1>2, <1>4, <2>4, <2>5, <2>6, <2>9, <2>10, HandlerMoves
<1>12. CASE ~(n < MAX_RETRY_ATTEMPTS)
  <2> DEFINE c == Call("processRefund", o, 0)
  <2>1. GiveUp(o, n) /\ n = MAX_RETRY_ATTEMPTS
    <3>1. GiveUp(o, n)
      BY <1>0, <1>7, <1>8, <1>12 DEF handleDepositFailure, Transferred, Current
    <3>2. n = MAX_RETRY_ATTEMPTS
      BY <1>7, <1>12, AttemptsAssumption
    <3> QED BY <3>1, <3>2
  <2>2. /\ pendingTransfers' = [pendingTransfers EXCEPT ![o] = [status |-> "failed-deposit", attempts |-> n]]
        /\ Send(Coordinator, c) /\ timers' = timers
    BY <2>1 DEF GiveUp
  <2>3. c \in Calls /\ c.kind = "processRefund" /\ c.id = o /\ c.n = 0 /\ c.kind \in Steps
        /\ c.kind \in DOMAIN OperationOf
    BY <1>5, AttemptsAssumption, CallIsCall, KindsApart DEF Steps
  <2>4. pendingTransfers'[o] = [status |-> "failed-deposit", attempts |-> n]
        /\ \A p \in Orders : p # o => pendingTransfers'[p] = pendingTransfers[p]
    BY <1>5, <1>9, <2>2
  <2>5. StateTypes'
    <3>1. [status |-> "failed-deposit", attempts |-> n] \in PendingTransfer
      BY <1>8 DEF PendingTransfer
    <3>2. pendingTransfers' \in [Orders -> PendingTransfer \cup {None}]
      BY <1>5, <1>9, <2>2, <3>1
    <3> QED BY <1>2, <3>2, KeptTypes
  <2> HIDE DEF c
  <2>6. c # m /\ c \notin Lined \cup awaiting \cup timers
    BY <1>1, <1>6, <2>3 DEF StepsFor
  <2>7. c \notin threw \cup Done
    BY <2>3, KindsApart DEF IInv, CallInv, CallTypes
  <2>8. LineStep({c})
    BY <1>2, <1>5, <2>2, <2>3, <2>6, SelfSendStep
  <2>9. Carries(c, o)'
    <3>1. Lined' = (Lined \ {m}) \cup {c} /\ Stopped' = Stopped
      BY <1>3, <2>8 DEF LineStep
    <3>2. StepsFor(o)' = {c}
      BY <1>2, <1>3, <1>6, <2>2, <2>3, <3>1 DEF StepsFor
    <3>3. Record(o) \notin Lined' /\ Paid(o)' = Paid(o)
          /\ \A k : DoneFor(o, k)' = DoneFor(o, k)
      BY <1>2, <1>5, <1>6, <1>10, <2>3, <3>1, RecordIsCall DEF Paid, DoneFor
    <3>4. OnlyAsked(c)'
      BY <1>7, <1>10, <2>3, KindsApart DEF OnlyAsked, DoneFor
    <3> QED BY <1>7, <1>9, <2>1, <2>3, <2>4, <3>2, <3>3, <3>4 DEF Carries
  <2>10. Carried(o)'
    BY <2>3, <2>9 DEF Carried
  <2> QED BY <1>0, <1>1, <1>2, <1>4, <1>5, <2>2, <2>3, <2>4, <2>5, <2>6, <2>7, <2>8, <2>10, HandlerMoves
<1> QED BY <1>11, <1>12

LEMMA AskKeeps ==
  ASSUME IInv, begun # << >>, NEW m, m = Current, m.kind \in DOMAIN OperationOf,
         Carries(m, m.id), Record(m.id) \notin Lined,
         m.kind = "initiateTransfer" => order[m.id].from # order[m.id].to,
         Ask(m), UNCHANGED <<threw, failures, timers, bankVars, accountVars>>
  PROVE  IInv'
<1> DEFINE o == m.id
<1>1. /\ order' = order /\ opened' = opened /\ history' = history /\ failures' = failures
      /\ timers' = timers /\ accounts' = accounts /\ threw' = threw /\ balance' = balance
      /\ pendingTransfers' = pendingTransfers /\ awaiting' = awaiting \cup {m}
  BY DEF bankVars, accountVars, Ask
<1>2. m \in Lined /\ m \in Calls /\ Gone = {m} /\ m \notin awaiting \cup timers
  BY HandlerRuns
<1>3. m.kind \in Steps /\ m.kind # "recordPendingTransfer"
  BY KindsApart
<1>4. o \in Orders /\ IsTransfer(o) /\ OnlyAsked(m)
  BY <1>2, <1>3, StepCarries DEF Carries
<1>5. PICK op : op = AskedBy(m)
  OBVIOUS
<1>6. PICK a : a = Target(op)
  OBVIOUS
<1> DEFINE new == IF mailbox[a].closed THEN {} ELSE {op}
<1>7. CallInv' /\ op.kind \in Operations /\ LineStep(new)
  BY <1>1, <1>4, <1>5, <1>6, AskCalls
<1>8. \A c \in new : c.kind \notin Steps
  BY <1>7, KindsApart
<1> HIDE DEF new
<1>9. /\ Lined' = (Lined \ {m}) \cup new /\ MailInv' /\ Stopped' = Stopped
      /\ \A x, y \in Calls : x.kind \in Steps /\ y.kind \in Steps => (Ahead(x, y)' => Ahead(x, y))
  BY <1>2, <1>7, <1>8 DEF LineStep
<1>10. Done' = Done /\ StateTypes' /\ OrderKept
  BY <1>1, SameHistory, SameOrders DEF IInv, StateTypes
<1>11. Carries(m, o)'
  <2>1. StepsFor(o) = {m}
    BY <1>4, CarriesAlone
  <2>2. StepsFor(o)' = {m}
    BY <1>1, <1>2, <1>3, <1>8, <1>9, <2>1 DEF StepsFor
  <2>3. Record(o) \notin Lined'
    BY <1>4, <1>8, <1>9, RecordIsCall
  <2>4. Paid(o)' = Paid(o) /\ \A k : DoneFor(o, k)' = DoneFor(o, k)
    BY <1>1, <1>9, <1>10 DEF Paid, DoneFor
  <2>5. OnlyAsked(m)'
    BY <1>1, <1>4, <1>10 DEF OnlyAsked
  <2> QED BY <1>1, <1>3, KindsApart, <2>2, <2>3, <2>4, <2>5 DEF Carries
<1>12. TransferInv'
  <2>1. \A c \in Calls : c.id # o /\ c.kind \in Steps =>
           /\ (c \in Lined' <=> c \in Lined) /\ (c \in awaiting' <=> c \in awaiting)
           /\ (c \in timers' <=> c \in timers)
    BY <1>1, <1>8, <1>9
  <2>2. Carried(o)' /\ IsTransfer(o)'
    BY <1>1, <1>2, <1>4, <1>11 DEF Carried, IsTransfer
  <2> QED BY <1>1, <1>7, <1>9, <1>10, <2>1, <2>2, OthersKept
<1> QED BY <1>7, <1>9, <1>10, <1>12 DEF IInv

LEMMA InitiateKeeps ==
  ASSUME IInv, initiateTransfer
  PROVE  IInv'
<1>0. PICK m : m = Current
  OBVIOUS
<1>1. /\ begun # << >> /\ m.kind = "initiateTransfer" /\ Valid(order[m.id]) /\ Ask(m)
      /\ UNCHANGED <<threw, failures, timers, bankVars, accountVars>>
  BY <1>0 DEF initiateTransfer, Runs, Current
<1>2. m.kind \in Steps /\ m.kind \in DOMAIN OperationOf
  BY <1>1, KindsApart
<1>3. m.id \in Orders /\ Carries(m, m.id)
  BY <1>0, <1>1, <1>2, HandlerRuns, StepCarries
<1>4. Record(m.id) \notin Lined
  BY <1>1, <1>3, CarriesAlone
<1> QED BY <1>0, <1>1, <1>2, <1>3, <1>4, AskKeeps DEF Valid

LEMMA AttemptKeeps ==
  ASSUME IInv, attemptDeposit
  PROVE  IInv'
<1>0. PICK m : m = Current
  OBVIOUS
<1>1. /\ begun # << >> /\ m.kind = "attemptDeposit"
      /\ pendingTransfers[m.id] # None => Ask(m)
      /\ UNCHANGED <<threw, failures, timers, bankVars, accountVars>>
  BY <1>0 DEF attemptDeposit, Runs, Current, Transferred
<1>2. m.kind \in Steps /\ m.kind \in DOMAIN OperationOf
  BY <1>1, KindsApart
<1>3. m.id \in Orders /\ m \in Calls /\ Carries(m, m.id)
  BY <1>0, <1>1, <1>2, HandlerRuns, StepCarries
<1>4. Record(m.id) \notin Lined
  <2> SUFFICES ASSUME Record(m.id) \in Lined PROVE FALSE
    OBVIOUS
  <2>1. Record(m.id) # m /\ Record(m.id).kind \in Steps
    BY <1>1, <1>3, RecordIsCall
  <2>2. Ahead(m, Record(m.id))
    BY <1>0, <1>1, <2>1, HeadAhead DEF IInv, StateTypes, OrderTypes, Current
  <2> QED BY <1>3, <2>2 DEF Carries
<1>5. Ask(m)
  BY <1>1, <1>3, <1>4, RecordedParts
<1> QED BY <1>0, <1>1, <1>2, <1>3, <1>4, <1>5, AskKeeps

LEMMA RefundKeeps ==
  ASSUME IInv, processRefund
  PROVE  IInv'
<1>0. PICK m : m = Current
  OBVIOUS
<1>1. /\ begun # << >> /\ m.kind = "processRefund"
      /\ pendingTransfers[m.id] # None => Ask(m)
      /\ UNCHANGED <<threw, failures, timers, bankVars, accountVars>>
  BY <1>0 DEF processRefund, Runs, Current, Transferred
<1>2. m.kind \in Steps /\ m.kind \in DOMAIN OperationOf
  BY <1>1, KindsApart
<1>3. m.id \in Orders /\ m \in Calls /\ Carries(m, m.id)
  BY <1>0, <1>1, <1>2, HandlerRuns, StepCarries
<1>4. Record(m.id) \notin Lined
  BY <1>1, <1>3, CarriesAlone
<1>5. pendingTransfers[m.id] # None
  <2>1. pendingTransfers[m.id] = [status |-> "failed-deposit", attempts |-> MAX_RETRY_ATTEMPTS]
    BY <1>1, <1>3 DEF Carries
  <2>2. pendingTransfers[m.id] \in PendingTransfer
    BY <2>1, AttemptsAssumption DEF PendingTransfer
  <2> QED BY <2>2, NoneAssumption
<1> QED BY <1>0, <1>1, <1>2, <1>3, <1>4, <1>5, AskKeeps

-----------------------------------------------------------------------------
(* The handlers of the coordinator, after their await                       *)

LEMMA AnswerParts ==
  ASSUME IInv, NEW m, NEW ok \in BOOLEAN, GoesOn(m, ok)
  PROVE  /\ m \in awaiting /\ m \in Calls /\ m.kind \in DOMAIN OperationOf /\ Known(m)
         /\ m.id \in Orders /\ IsTransfer(m.id) /\ Carries(m, m.id)
         /\ m.n \in 0..MAX_RETRY_ATTEMPTS
         /\ Record(m.id) \notin Lined /\ StepsFor(m.id) = {m} /\ m \notin Lined \cup timers
         /\ Gone = {} /\ awaiting' = awaiting \ {m} /\ answers' \subseteq answers
         /\ AskedBy(m) \notin Lined \cup Busy \cup threw
         /\ \A p \in answers' : Awaited(p[1])'
         /\ order' = order /\ opened' = opened /\ accounts' = accounts /\ failures' = failures
         /\ balance' = balance /\ history' = history
         /\ IF ok THEN DoneFor(m.id, OperationOf[m.kind]) \/ Target(AskedBy(m)) \in Stopped
            ELSE ~DoneFor(m.id, OperationOf[m.kind])
<1> DEFINE told == <<AskedBy(m), ok>>
<1>1. /\ m \in awaiting /\ told \in answers /\ Quiet /\ awaiting' = awaiting \ {m}
      /\ answers' = answers \ {told}
      /\ order' = order /\ opened' = opened /\ accounts' = accounts /\ failures' = failures
      /\ balance' = balance /\ history' = history
  BY DEF GoesOn, Answered, accountVars
<1>2. CallTypes /\ EffectsFollow /\ AnswersTold
  BY DEF IInv, CallInv
<1>3. m.kind \in DOMAIN OperationOf /\ m.kind \in Steps /\ m.kind # "recordPendingTransfer"
  BY <1>1, <1>2, KindsApart DEF CallTypes
<1>4. /\ m \in Calls /\ m.id \in Orders /\ IsTransfer(m.id) /\ Carries(m, m.id) /\ Known(m)
      /\ m.n \in 0..MAX_RETRY_ATTEMPTS
  BY <1>1, <1>3, StepCarries
<1>5. Record(m.id) \notin Lined /\ StepsFor(m.id) = {m}
  BY <1>1, <1>4, CarriesAlone
<1>6. m \notin Lined \cup timers
  BY <1>1, <1>2 DEF EffectsFollow
<1>7. told[1] = AskedBy(m) /\ told[2] = ok
  OBVIOUS
<1> HIDE DEF told
<1>8. /\ AskedBy(m) \notin Lined \cup Busy \cup threw
      /\ IF ok THEN AskedBy(m) \in Done \/ Target(AskedBy(m)) \in Stopped ELSE AskedBy(m) \notin Done
  BY <1>1, <1>2, <1>7 DEF AnswersTold
<1>9. ASSUME NEW p \in answers' PROVE Awaited(p[1])'
  <2>1. p \in answers /\ p # told /\ Awaited(p[1])
    BY <1>1, <1>2, <1>9 DEF AnswersTold
  <2>2. PICK x \in awaiting : AskedBy(x) = p[1]
    BY <2>1 DEF Awaited
  <2>3. x # m
    BY <1>1, <1>2, <1>7, <2>1, <2>2 DEF AnswersTold
  <2> QED BY <1>1, <2>2, <2>3 DEF Awaited
<1>10. IF ok THEN DoneFor(m.id, OperationOf[m.kind]) \/ Target(AskedBy(m)) \in Stopped
       ELSE ~DoneFor(m.id, OperationOf[m.kind])
  <2>1. AskedBy(m).id = m.id /\ AskedBy(m).kind = OperationOf[m.kind]
    BY <1>3, <1>4, AskedParts
  <2>2. OnlyAsked(m)
    BY <1>3, <1>4 DEF Carries
  <2> QED BY <1>8, <2>1, <2>2 DEF DoneFor, OnlyAsked
<1>11. Gone = {}
  BY <1>1, QuietTurn
<1> QED BY <1>1, <1>3, <1>4, <1>5, <1>6, <1>8, <1>9, <1>10, <1>11

LEMMA GoesOnMoves ==
  ASSUME IInv, NEW m, NEW ok \in BOOLEAN, GoesOn(m, ok), StateTypes', timers' = timers,
         threw' = threw \/ (threw' = threw \cup {m} /\ m.kind = "initiateTransfer"),
         NEW new, LineStep(new),
         \A c \in new : /\ c \in Calls /\ c.kind \in Steps /\ c.kind # "initiateTransfer"
                        /\ c.id = m.id /\ c # m /\ c \notin Lined,
         \A p \in Orders : p # m.id => pendingTransfers'[p] = pendingTransfers[p],
         Carried(m.id)'
  PROVE  IInv'
<1>1. /\ m \in awaiting /\ m \in Calls /\ Known(m) /\ m.id \in Orders /\ IsTransfer(m.id)
      /\ StepsFor(m.id) = {m} /\ m \notin Lined \cup timers
      /\ Gone = {} /\ awaiting' = awaiting \ {m} /\ answers' \subseteq answers
      /\ AskedBy(m) \notin Lined \cup Busy \cup threw
      /\ \A p \in answers' : Awaited(p[1])'
      /\ order' = order /\ opened' = opened /\ accounts' = accounts /\ failures' = failures
      /\ balance' = balance /\ history' = history
  BY AnswerParts
<1>2. /\ Lined' = Lined \cup new /\ Stopped' = Stopped /\ MailInv'
      /\ \A x, y \in Calls : x.kind \in Steps /\ y.kind \in Steps => (Ahead(x, y)' => Ahead(x, y) \/ y \in new)
  BY <1>1 DEF LineStep
<1>3. CallInv'
  <2>1. \A c \in new : c \notin awaiting' \cup timers' \cup threw' \cup Done
    <3>1. \A c \in new : c \notin awaiting \cup timers
      BY <1>1 DEF StepsFor
    <3>2. \A c \in new : c \notin threw \cup Done
      BY KindsApart DEF IInv, CallInv, CallTypes
    <3> QED BY <1>1, <3>1, <3>2
  <2>2. \A c \in threw' : c \in threw \/ (c \in Calls /\ c.kind = "initiateTransfer" /\ Known(c) /\ c \notin Lined \ Gone)
    BY <1>1
  <2>3. \A c \in new : IsTransfer(c.id)
    BY <1>1
  <2> QED BY <1>1, <2>1, <2>2, <2>3, CoordinatorCalls
<1>4. TransferInv'
  <2>1. OrderKept /\ Done' = Done /\ IsTransfer(m.id)'
    BY <1>1, SameHistory DEF OrderKept, IsTransfer
  <2>2. \A c \in Calls : c.id # m.id /\ c.kind \in Steps =>
           /\ (c \in Lined' <=> c \in Lined) /\ (c \in awaiting' <=> c \in awaiting)
           /\ (c \in timers' <=> c \in timers)
    BY <1>1, <1>2
  <2>3. \A x, y \in Calls :
           x.kind \in Steps /\ y.kind \in Steps /\ y.id # m.id /\ Ahead(x, y)' => Ahead(x, y)
    BY <1>2
  <2> QED BY <1>1, <1>2, <1>3, <2>1, <2>2, <2>3, OthersKept
<1> QED BY <1>2, <1>3, <1>4 DEF IInv

LEMMA WithdrawnKeeps ==
  ASSUME IInv, NEW m, Withdrawn(m)
  PROVE  IInv'
<1> DEFINE o == m.id
           r == Record(o)
           d == Call("attemptDeposit", o, 0)
<1>1. /\ m.kind = "initiateTransfer" /\ GoesOn(m, TRUE) /\ SendBoth(r, d)
      /\ threw' = threw /\ timers' = timers /\ pendingTransfers' = pendingTransfers
  BY DEF Withdrawn, Record
<1>2. /\ m \in awaiting /\ m \in Calls /\ o \in Orders /\ IsTransfer(o) /\ Carries(m, o)
      /\ r \notin Lined /\ StepsFor(o) = {m} /\ m \notin Lined \cup timers
      /\ Gone = {} /\ awaiting' = awaiting \ {m}
      /\ order' = order /\ opened' = opened /\ accounts' = accounts
      /\ balance' = balance /\ history' = history
      /\ DoneFor(o, OperationOf[m.kind]) \/ Target(AskedBy(m)) \in Stopped
  BY <1>1, AnswerParts
<1>3. Paid(o)
  <2>1. OperationOf[m.kind] = "withdraw" /\ m.kind \in DOMAIN OperationOf
    BY <1>1, KindsApart
  <2>2. AskedBy(m).kind = "withdraw" /\ AskedBy(m).id = o
    BY <1>2, <2>1, AskedParts
  <2>3. Target(AskedBy(m)) = order[o].from
    BY <2>2 DEF Target
  <2> QED BY <1>2, <2>1, <2>3 DEF Paid
<1>4. /\ pendingTransfers[o] = None /\ ~DoneFor(o, "deposit") /\ ~DoneFor(o, "refund")
  BY <1>1, <1>2 DEF Carries
<1>5. /\ r \in Calls /\ r.kind = "recordPendingTransfer" /\ r.id = o /\ r.kind \in Steps
      /\ d \in Calls /\ d.kind = "attemptDeposit" /\ d.id = o /\ d.n = 0 /\ d.kind \in Steps
  BY <1>2, RecordIsCall, AttemptsAssumption, CallIsCall DEF Steps
<1> HIDE DEF d, r, o
<1>6. r # d /\ r # m /\ d # m /\ d \notin Lined \cup awaiting \cup timers
  BY <1>1, <1>2, <1>5 DEF StepsFor
<1>7. LineStep({r, d}) /\ ~Ahead(d, r)'
  <2>1. MailInv /\ OrderTypes /\ OrderKept /\ OrderTypes'
    BY <1>2, SameOrders DEF IInv, StateTypes, OrderTypes
  <2>2. r \in CallsOf(Coordinator)' /\ d \in CallsOf(Coordinator)'
    BY <1>2, <1>5 DEF IsTransfer, CallsOf, Known, Target
  <2> QED BY <1>1, <1>2, <1>6, <2>1, <2>2, SendBothStep
<1>8. StateTypes'
  BY <1>1, <1>2, KeptTypes DEF IInv, StateTypes
<1>9. Carries(d, o)'
  <2>1. Lined' = Lined \cup {r, d} /\ Stopped' = Stopped /\ Done' = Done
    BY <1>2, <1>7, SameHistory DEF LineStep
  <2>2. StepsFor(o)' = {r, d}
    BY <1>1, <1>2, <1>5, <2>1 DEF StepsFor
  <2>3. Paid(o)' /\ (\A k : DoneFor(o, k)' = DoneFor(o, k))
    BY <1>2, <1>3, <2>1 DEF Paid, DoneFor
  <2>4. OnlyAsked(d)'
    BY <1>4, <1>5, <2>1, KindsApart DEF OnlyAsked, DoneFor
  <2>5. d = Call("attemptDeposit", o, 0) /\ r = Record(o) /\ d.n < MAX_RETRY_ATTEMPTS
    BY <1>5, AttemptsAssumption DEF d, r
  <2> QED BY <1>1, <1>4, <1>5, <1>7, <2>1, <2>2, <2>3, <2>4, <2>5 DEF Carries
<1>10. Carried(o)'
  BY <1>5, <1>9 DEF Carried
<1>11. \A c \in {r, d} : /\ c \in Calls /\ c.kind \in Steps /\ c.kind # "initiateTransfer"
                         /\ c.id = m.id /\ c # m /\ c \notin Lined
  BY <1>2, <1>5, <1>6 DEF o
<1>12. /\ \A p \in Orders : p # m.id => pendingTransfers'[p] = pendingTransfers[p]
       /\ GoesOn(m, TRUE) /\ timers' = timers /\ threw' = threw
  BY <1>1
<1> QED BY <1>7, <1>8, <1>10, <1>11, <1>12, GoesOnMoves DEF o

LEMMA NotWithdrawnKeeps ==
  ASSUME IInv, NEW m, NotWithdrawn(m)
  PROVE  IInv'
<1> DEFINE o == m.id
<1>1. /\ m.kind = "initiateTransfer" /\ GoesOn(m, FALSE) /\ threw' = threw \cup {m}
      /\ mailbox' = mailbox /\ begun' = begun
      /\ timers' = timers /\ pendingTransfers' = pendingTransfers
  BY DEF NotWithdrawn, turnVars
<1>2. /\ m \in awaiting /\ m \in Calls /\ o \in Orders /\ IsTransfer(o) /\ Carries(m, o)
      /\ StepsFor(o) = {m} /\ m \notin Lined \cup timers
      /\ Gone = {} /\ awaiting' = awaiting \ {m}
      /\ order' = order /\ opened' = opened /\ accounts' = accounts
      /\ balance' = balance /\ history' = history
      /\ ~DoneFor(o, OperationOf[m.kind])
  BY <1>1, AnswerParts
<1>3. pendingTransfers[o] = None
  BY <1>1, <1>2 DEF Carries
<1>4. LineStep({})
  <2>1. begun = << >> /\ Rest = << >>
    BY <1>1, QuietTurn DEF GoesOn
  <2>2. SendNothing
    BY <1>1, <2>1 DEF SendNothing
  <2> QED BY <1>2, <2>2, SendNothingStep, SameOrders DEF IInv, StateTypes, OrderTypes
<1>5. StateTypes'
  BY <1>1, <1>2, KeptTypes DEF IInv, StateTypes
<1>6. Carried(o)'
  <2>1. Lined' = Lined /\ Done' = Done
    BY <1>2, <1>4, SameHistory DEF LineStep
  <2>2. StepsFor(o)' = {}
    BY <1>1, <1>2, <2>1 DEF StepsFor
  <2>3. ~DoneFor(o, "withdraw")'
    BY <1>1, <1>2, <2>1, KindsApart DEF DoneFor
  <2> QED BY <1>1, <1>3, <2>2, <2>3 DEF Over, Carried
<1>7. /\ \A p \in Orders : p # m.id => pendingTransfers'[p] = pendingTransfers[p]
      /\ GoesOn(m, FALSE) /\ timers' = timers /\ threw' = threw \cup {m}
      /\ m.kind = "initiateTransfer"
  BY <1>1
<1> QED BY <1>4, <1>5, <1>6, <1>7, GoesOnMoves

LEMMA DepositedKeeps ==
  ASSUME IInv, NEW m, Deposited(m)
  PROVE  IInv'
<1> DEFINE o == m.id
           c == Call("completeTransfer", o, 0)
<1>1. /\ m.kind = "attemptDeposit" /\ GoesOn(m, TRUE) /\ Send(Coordinator, c)
      /\ threw' = threw /\ timers' = timers /\ pendingTransfers' = pendingTransfers
  BY DEF Deposited
<1>2. /\ m \in awaiting /\ m \in Calls /\ o \in Orders /\ IsTransfer(o) /\ Carries(m, o)
      /\ Record(o) \notin Lined /\ StepsFor(o) = {m} /\ m \notin Lined \cup timers
      /\ Gone = {} /\ awaiting' = awaiting \ {m}
      /\ order' = order /\ opened' = opened /\ accounts' = accounts
      /\ balance' = balance /\ history' = history
      /\ DoneFor(o, OperationOf[m.kind]) \/ Target(AskedBy(m)) \in Stopped
  BY <1>1, AnswerParts
<1>3. MayEnd(o)
  <2>1. OperationOf[m.kind] = "deposit" /\ m.kind \in DOMAIN OperationOf
    BY <1>1, KindsApart
  <2>2. AskedBy(m).kind = "deposit" /\ AskedBy(m).id = o
    BY <1>2, <2>1, AskedParts
  <2>3. Target(AskedBy(m)) = order[o].to
    BY <2>2 DEF Target
  <2> QED BY <1>2, <2>1, <2>3 DEF MayEnd
<1>4. pendingTransfers[o] # None
  BY <1>1, <1>2, RecordedParts
<1>5. c \in Calls /\ c.kind = "completeTransfer" /\ c.id = o /\ c.n = 0 /\ c.kind \in Steps
  BY <1>2, AttemptsAssumption, CallIsCall DEF Steps
<1> HIDE DEF c, o
<1>6. c # m /\ c \notin Lined
  BY <1>1, <1>2, <1>5 DEF StepsFor
<1>7. LineStep({c})
  BY <1>1, <1>2, <1>5, <1>6, SelfSendStep
<1>8. StateTypes'
  BY <1>1, <1>2, KeptTypes DEF IInv, StateTypes
<1>9. Carries(c, o)'
  <2>1. Lined' = Lined \cup {c} /\ Stopped' = Stopped /\ Done' = Done
    BY <1>2, <1>7, SameHistory DEF LineStep
  <2>2. StepsFor(o)' = {c}
    BY <1>1, <1>2, <1>5, <2>1 DEF StepsFor
  <2>3. MayEnd(o)' /\ Record(o) \notin Lined'
    BY <1>2, <1>3, <1>5, <2>1, RecordIsCall DEF MayEnd, DoneFor
  <2> QED BY <1>1, <1>4, <1>5, <2>2, <2>3, KindsApart DEF Carries
<1>10. Carried(o)'
  BY <1>5, <1>9 DEF Carried
<1>11. /\ \A p \in Orders : p # m.id => pendingTransfers'[p] = pendingTransfers[p]
       /\ GoesOn(m, TRUE) /\ timers' = timers /\ threw' = threw /\ m.kind = "attemptDeposit"
  BY <1>1
<1> QED BY <1>5, <1>6, <1>7, <1>8, <1>10, <1>11, GoesOnMoves DEF o

LEMMA NotDepositedKeeps ==
  ASSUME IInv, NEW m, NotDeposited(m)
  PROVE  IInv'
<1> DEFINE o == m.id
           c == Call("handleDepositFailure", o, m.n)
<1>1. /\ m.kind = "attemptDeposit" /\ GoesOn(m, FALSE) /\ Send(Coordinator, c)
      /\ threw' = threw /\ timers' = timers /\ pendingTransfers' = pendingTransfers
  BY DEF NotDeposited
<1>2. /\ m \in awaiting /\ m \in Calls /\ o \in Orders /\ IsTransfer(o) /\ Carries(m, o)
      /\ Record(o) \notin Lined /\ StepsFor(o) = {m} /\ m \notin Lined \cup timers
      /\ Gone = {} /\ awaiting' = awaiting \ {m} /\ m.n \in 0..MAX_RETRY_ATTEMPTS
      /\ order' = order /\ opened' = opened /\ accounts' = accounts
      /\ balance' = balance /\ history' = history
      /\ ~DoneFor(o, OperationOf[m.kind])
  BY <1>1, AnswerParts
<1>3. ~DoneFor(o, "deposit")
  BY <1>1, <1>2, KindsApart
<1>4. /\ pendingTransfers[o] = [status |-> "withdrawn", attempts |-> m.n]
      /\ m.n < MAX_RETRY_ATTEMPTS /\ Paid(o) /\ ~DoneFor(o, "refund")
  BY <1>1, <1>2, RecordedParts
<1>5. c \in Calls /\ c.kind = "handleDepositFailure" /\ c.id = o /\ c.n = m.n /\ c.kind \in Steps
  BY <1>2, CallIsCall DEF Steps
<1> HIDE DEF c, o
<1>6. c # m /\ c \notin Lined
  BY <1>1, <1>2, <1>5 DEF StepsFor
<1>7. LineStep({c})
  BY <1>1, <1>2, <1>5, <1>6, SelfSendStep
<1>8. StateTypes'
  BY <1>1, <1>2, KeptTypes DEF IInv, StateTypes
<1>9. Carries(c, o)'
  <2>1. Lined' = Lined \cup {c} /\ Stopped' = Stopped /\ Done' = Done
    BY <1>2, <1>7, SameHistory DEF LineStep
  <2>2. StepsFor(o)' = {c}
    BY <1>1, <1>2, <1>5, <2>1 DEF StepsFor
  <2>3. Paid(o)' /\ Record(o) \notin Lined' /\ (\A k : DoneFor(o, k)' = DoneFor(o, k))
    BY <1>2, <1>4, <1>5, <2>1, RecordIsCall DEF Paid, DoneFor
  <2> QED BY <1>1, <1>3, <1>4, <1>5, <2>2, <2>3, KindsApart DEF Carries
<1>10. Carried(o)'
  BY <1>5, <1>9 DEF Carried
<1>11. /\ \A p \in Orders : p # m.id => pendingTransfers'[p] = pendingTransfers[p]
       /\ GoesOn(m, FALSE) /\ timers' = timers /\ threw' = threw /\ m.kind = "attemptDeposit"
  BY <1>1
<1> QED BY <1>5, <1>6, <1>7, <1>8, <1>10, <1>11, GoesOnMoves DEF o

LEMMA RefundedKeeps ==
  ASSUME IInv, NEW m, Refunded(m)
  PROVE  IInv'
<1> DEFINE o == m.id
           c == Call("completeTransfer", o, 0)
           pt == [status |-> "refunded", attempts |-> MAX_RETRY_ATTEMPTS]
<1>1. /\ m.kind = "processRefund" /\ GoesOn(m, TRUE) /\ Send(Coordinator, c)
      /\ threw' = threw /\ timers' = timers
      /\ pendingTransfers' = [pendingTransfers EXCEPT ![o].status = "refunded"]
  BY DEF Refunded
<1>2. /\ m \in awaiting /\ m \in Calls /\ o \in Orders /\ IsTransfer(o) /\ Carries(m, o)
      /\ Record(o) \notin Lined /\ StepsFor(o) = {m} /\ m \notin Lined \cup timers
      /\ Gone = {} /\ awaiting' = awaiting \ {m}
      /\ order' = order /\ opened' = opened /\ accounts' = accounts
      /\ balance' = balance /\ history' = history
      /\ DoneFor(o, OperationOf[m.kind]) \/ Target(AskedBy(m)) \in Stopped
  BY <1>1, AnswerParts
<1>3. MayEnd(o)
  <2>1. OperationOf[m.kind] = "refund" /\ m.kind \in DOMAIN OperationOf
    BY <1>1, KindsApart
  <2>2. AskedBy(m).kind = "refund" /\ AskedBy(m).id = o
    BY <1>2, <2>1, AskedParts
  <2>3. Target(AskedBy(m)) = order[o].from
    BY <2>2 DEF Target
  <2> QED BY <1>2, <2>1, <2>3 DEF MayEnd
<1>4. /\ pendingTransfers \in [Orders -> PendingTransfer \cup {None}]
      /\ pendingTransfers[o] = [status |-> "failed-deposit", attempts |-> MAX_RETRY_ATTEMPTS]
  BY <1>1, <1>2 DEF Carries, IInv, StateTypes
<1>5. /\ pendingTransfers'[o] = pt
      /\ \A p \in Orders : p # o => pendingTransfers'[p] = pendingTransfers[p]
      /\ pt \in PendingTransfer /\ pt # None
  <2>1. pt \in PendingTransfer
    BY AttemptsAssumption DEF PendingTransfer
  <2> QED BY <1>1, <1>2, <1>4, <2>1, NoneAssumption
<1>6. c \in Calls /\ c.kind = "completeTransfer" /\ c.id = o /\ c.n = 0 /\ c.kind \in Steps
  BY <1>2, AttemptsAssumption, CallIsCall DEF Steps
<1>7. StateTypes'
  <2>1. pendingTransfers' \in [Orders -> PendingTransfer \cup {None}]
    BY <1>1, <1>2, <1>4, <1>5
  <2> QED BY <1>2, <2>1, KeptTypes
<1> HIDE DEF c, o, pt
<1>8. c # m /\ c \notin Lined
  BY <1>1, <1>2, <1>6 DEF StepsFor
<1>9. LineStep({c})
  BY <1>1, <1>2, <1>6, <1>8, SelfSendStep
<1>10. Carries(c, o)'
  <2>1. Lined' = Lined \cup {c} /\ Stopped' = Stopped /\ Done' = Done
    BY <1>2, <1>9, SameHistory DEF LineStep
  <2>2. StepsFor(o)' = {c}
    BY <1>1, <1>2, <1>6, <2>1 DEF StepsFor
  <2>3. MayEnd(o)' /\ Record(o) \notin Lined'
    BY <1>2, <1>3, <1>6, <2>1, RecordIsCall DEF MayEnd, DoneFor
  <2> QED BY <1>5, <1>6, <2>2, <2>3, KindsApart DEF Carries
<1>11. Carried(o)'
  BY <1>6, <1>10 DEF Carried
<1> QED BY <1>1, <1>5, <1>6, <1>7, <1>8, <1>9, <1>11, GoesOnMoves DEF o

LEMMA RetryKeeps ==
  ASSUME IInv, NEW m, RetryFires(m)
  PROVE  IInv'
<1> DEFINE o == m.id
<1>1. /\ m \in timers /\ timers' = timers \ {m} /\ Send(Coordinator, m) /\ Quiet
      /\ awaiting' = awaiting /\ threw' = threw /\ answers' = answers /\ failures' = failures
      /\ order' = order /\ opened' = opened /\ accounts' = accounts
      /\ pendingTransfers' = pendingTransfers /\ balance' = balance /\ history' = history
  BY DEF RetryFires, Idle, bankVars, accountVars
<1>2. m.kind = "attemptDeposit" /\ m.kind \in Steps /\ m.kind \in DOMAIN OperationOf
  BY <1>1, KindsApart DEF IInv, CallInv, CallTypes
<1>3. m \in Calls /\ o \in Orders /\ IsTransfer(o) /\ Carries(m, o)
  BY <1>1, <1>2, StepCarries
<1>4. Record(o) \notin Lined /\ StepsFor(o) = {m}
  BY <1>1, <1>3, CarriesAlone
<1>5. m \notin Lined \cup awaiting \cup threw \cup Done /\ Gone = {}
  BY <1>1, <1>2, KindsApart, QuietTurn DEF IInv, CallInv, CallTypes, EffectsFollow
<1>6. LineStep({m})
  BY <1>1, <1>2, <1>3, <1>5, SelfSendStep
<1>7. /\ Lined' = Lined \cup {m} /\ Stopped' = Stopped /\ MailInv' /\ Done' = Done
      /\ \A x, y \in Calls : x.kind \in Steps /\ y.kind \in Steps => (Ahead(x, y)' => Ahead(x, y) \/ y = m)
  BY <1>1, <1>5, <1>6, SameHistory DEF LineStep
<1>8. CallInv'
  <2>1. \A p \in answers : Awaited(p[1])'
    BY <1>1 DEF IInv, CallInv, AnswersTold, Awaited
  <2> QED BY <1>1, <1>2, <1>3, <1>5, <1>6, <2>1, CoordinatorCalls
<1>9. Carries(m, o)'
  <2>1. StepsFor(o)' = {m}
    BY <1>1, <1>2, <1>3, <1>4, <1>7 DEF StepsFor
  <2>2. Record(o) \notin Lined' /\ Paid(o)' = Paid(o) /\ (\A k : DoneFor(o, k)' = DoneFor(o, k))
    BY <1>1, <1>2, <1>3, <1>4, <1>7, RecordIsCall DEF Paid, DoneFor
  <2>3. OnlyAsked(m)'
    BY <1>1, <1>2, <1>3, <1>7 DEF Carries, OnlyAsked
  <2> QED BY <1>1, <1>2, <1>3, <1>4, <2>1, <2>2, <2>3 DEF Carries
<1>10. TransferInv'
  <2>1. Carried(o)' /\ OrderKept /\ IsTransfer(o)'
    BY <1>1, <1>3, <1>9 DEF Carried, OrderKept, IsTransfer
  <2>2. \A c \in Calls : c.id # o /\ c.kind \in Steps =>
           /\ (c \in Lined' <=> c \in Lined) /\ (c \in awaiting' <=> c \in awaiting)
           /\ (c \in timers' <=> c \in timers)
    BY <1>1, <1>7
  <2>3. \A x, y \in Calls :
           x.kind \in Steps /\ y.kind \in Steps /\ y.id # o /\ Ahead(x, y)' => Ahead(x, y)
    BY <1>7
  <2> QED BY <1>1, <1>7, <1>8, <2>1, <2>2, <2>3, OthersKept
<1>11. StateTypes'
  BY <1>1, KeptTypes DEF IInv, StateTypes
<1> QED BY <1>7, <1>8, <1>10, <1>11 DEF IInv

-----------------------------------------------------------------------------
(* The accounts                                                             *)

LEMMA AccountKeeps ==
  ASSUME IInv, begun # << >>, NEW m, m = Current, m.kind \in Operations, SendNothing, StateTypes',
         \/ Done' = Done /\ threw' = threw \cup {m}
         \/ Done' = Done \cup {m} /\ threw' = threw,
         UNCHANGED <<awaiting, answers, failures, timers, bankVars>>
  PROVE  IInv'
<1> DEFINE o == m.id
<1>1. /\ order' = order /\ opened' = opened /\ failures' = failures /\ timers' = timers
      /\ awaiting' = awaiting /\ answers' = answers /\ pendingTransfers' = pendingTransfers
  BY DEF bankVars
<1>2. m \in Lined /\ m \in Calls /\ Gone = {m} /\ m \notin Done /\ Known(m)
  BY HandlerRuns
<1>3. m.kind \notin Steps /\ m.kind # "registerAccount" /\ o \in Orders
  BY <1>2, KindsApart, CallParts
<1>4. CallInv' /\ LineStep({})
  BY <1>1, AccountCalls
<1>5. /\ Lined' = Lined \ {m} /\ MailInv' /\ Stopped' = Stopped
      /\ \A x, y \in Calls : x.kind \in Steps /\ y.kind \in Steps => (Ahead(x, y)' => Ahead(x, y))
  BY <1>2, <1>4 DEF LineStep
<1>6. CallInv /\ CallTypes /\ CallTypes' /\ TransferInv
  BY <1>4 DEF IInv, CallInv
<1>7. ASSUME IsTransfer(o) PROVE Carried(o)'
  <2>1. PICK x \in awaiting : AskedBy(x) = m /\ x \in Calls /\ x.kind \in DOMAIN OperationOf /\ x.id = o
    <3>1. Awaited(m)
      BY <1>2, <1>6, <1>7 DEF CallInv, AskedIsAwaited, IsTransfer
    <3> QED BY <1>6, <3>1, AwaitedParts
  <2>2. x.kind \in Steps /\ Carries(x, o)
    <3>1. x.kind \in Steps /\ x.kind # "recordPendingTransfer"
      BY <2>1, KindsApart
    <3> QED BY <2>1, <3>1, StepCarries
  <2>3. m.kind = OperationOf[x.kind]
    BY <2>1, AskedParts
  <2>4. Record(o) \notin Lined
    BY <1>3, <2>1, <2>2, CarriesAlone
  <2>5. StepsFor(o)' = StepsFor(o) /\ Record(o) \notin Lined'
    BY <1>1, <1>3, <1>5, <2>4 DEF StepsFor
  <2>6. /\ Paid(o) => Paid(o)'
        /\ \A k : k # m.kind => (DoneFor(o, k)' <=> DoneFor(o, k))
    BY <1>1, <1>5 DEF Paid, DoneFor
  <2>7. OnlyAsked(x)'
    <3>1. OnlyAsked(x)
      BY <2>1, <2>2 DEF Carries
    <3> QED BY <1>1, <2>1, <3>1 DEF OnlyAsked
  <2>8. Carries(x, o)'
    <3>1. /\ x.kind \in {"initiateTransfer", "attemptDeposit", "processRefund"}
          /\ x.kind = "initiateTransfer" => m.kind = "withdraw"
          /\ x.kind = "attemptDeposit" => m.kind = "deposit"
          /\ x.kind = "processRefund" => m.kind = "refund"
      BY <2>1, <2>3, KindsApart
    <3> QED BY <1>1, <2>2, <2>4, <2>5, <2>6, <2>7, <3>1 DEF Carries
  <2> QED BY <2>1, <2>8 DEF Carried
<1>8. TransferInv'
  <2>1. /\ OrderKept /\ (IsTransfer(o)' <=> IsTransfer(o)) /\ Stopped \subseteq Stopped'
        /\ ~IsTransfer(o) => pendingTransfers'[o] = None
    BY <1>1, <1>3, <1>5, <1>6 DEF OrderKept, IsTransfer, TransferInv
  <2>2. \A c \in Calls : c.id # o /\ c.kind \in Steps =>
           /\ (c \in Lined' <=> c \in Lined) /\ (c \in awaiting' <=> c \in awaiting)
           /\ (c \in timers' <=> c \in timers)
    BY <1>1, <1>3, <1>5
  <2>3. \A c \in Calls : c.id # o => (c \in Done' <=> c \in Done)
    OBVIOUS
  <2>4. \A q \in Orders : q # o => pendingTransfers'[q] = pendingTransfers[q] /\ order'[q] = order[q]
    BY <1>1
  <2> HIDE DEF o
  <2> QED BY <1>4, <1>5, <1>7, <2>1, <2>2, <2>3, <2>4, OthersKept
<1> QED BY <1>4, <1>5, <1>8 DEF IInv

\* An operation is carried out on its account, which is open.
LEMMA CarriedOut ==
  ASSUME IInv, begun # << >>, NEW m, m = Current, m.kind \in Operations, NEW a, a = Target(m),
         NEW amount \in Nat, CarryOut(a, amount)
  PROVE  /\ Done' = Done \cup {m} /\ a \in Accounts /\ a \notin Stopped
         /\ balance' = [balance EXCEPT ![a] = amount] /\ balance' \in [Accounts -> Nat]
         /\ history' \in [Accounts -> SUBSET Calls]
         /\ \A b \in Accounts : history'[b] = IF b = a THEN history[b] \cup {m} ELSE history[b]
<1>1. m \in Calls /\ Known(m) /\ ~mailbox[Target(m)].closed
  BY HandlerRuns
<1>2. a \in Accounts /\ a \notin Stopped
  BY <1>1, Targets DEF IInv, StateTypes, OrderTypes, Stopped
<1>3. /\ balance \in [Accounts -> Nat] /\ history \in [Accounts -> SUBSET Calls]
      /\ balance' = [balance EXCEPT ![a] = amount]
      /\ history' = [history EXCEPT ![a] = history[a] \cup {m}]
  BY DEF IInv, StateTypes, CarryOut
<1>4. /\ history' \in [Accounts -> SUBSET Calls]
      /\ \A b \in Accounts : history'[b] = IF b = a THEN history[b] \cup {m} ELSE history[b]
  BY <1>1, <1>2, <1>3
<1>5. Done' = Done \cup {m}
  BY <1>1, <1>2, <1>4 DEF Done
<1> QED BY <1>2, <1>3, <1>4, <1>5

LEMMA AmountOf ==
  ASSUME IInv, NEW m \in Calls, Known(m), m.kind \in Operations
  PROVE  /\ order[m.id].amount \in Nat /\ balance[Target(m)] \in Nat
         /\ m.id \in Orders /\ order[m.id] # None
<1>1. m.id \in Orders /\ order[m.id] # None
  BY CallParts, KindsApart DEF Known
<1>2. OrderTypes /\ balance \in [Accounts -> Nat]
  BY DEF IInv, StateTypes, OrderTypes
<1> QED BY <1>1, <1>2, OrderParts, Targets

LEMMA WithdrawKeeps ==
  ASSUME IInv, withdraw
  PROVE  IInv'
<1>0. PICK m : m = Current
  OBVIOUS
<1>1. PICK a : a = Target(m)
  OBVIOUS
<1> DEFINE amount == order[m.id].amount
<1>2. /\ begun # << >> /\ m.kind = "withdraw" /\ SendNothing
      /\ UNCHANGED <<awaiting, answers, failures, timers, bankVars>>
      /\ IF amount > balance[a] THEN threw' = threw \cup {m} /\ UNCHANGED accountVars
         ELSE CarryOut(a, balance[a] - amount) /\ UNCHANGED threw
  BY <1>0, <1>1 DEF withdraw, Runs, Current
<1>3. m.kind \in Operations
  BY <1>2 DEF Operations
<1>4. amount \in Nat /\ balance[a] \in Nat
  BY <1>0, <1>1, <1>2, <1>3, HandlerRuns, AmountOf
<1> HIDE DEF amount
<1>5. CASE amount > balance[a]
  <2>1. threw' = threw \cup {m} /\ balance' = balance /\ history' = history
    BY <1>2, <1>5 DEF accountVars
  <2>2. Done' = Done
    BY <2>1, SameHistory
  <2>3. StateTypes'
    BY <1>2, <2>1, KeptTypes DEF IInv, StateTypes, bankVars
  <2> QED BY <1>0, <1>2, <1>3, <2>1, <2>2, <2>3, AccountKeeps
<1>6. CASE ~(amount > balance[a])
  <2>1. balance[a] - amount \in Nat /\ CarryOut(a, balance[a] - amount) /\ threw' = threw
    BY <1>2, <1>4, <1>6
  <2>2. /\ Done' = Done \cup {m} /\ balance' \in [Accounts -> Nat]
        /\ history' \in [Accounts -> SUBSET Calls]
    BY <1>0, <1>1, <1>2, <1>3, <2>1, CarriedOut
  <2>3. StateTypes'
    BY <1>2, <2>2 DEF IInv, StateTypes, bankVars
  <2> QED BY <1>0, <1>2, <1>3, <2>1, <2>2, <2>3, AccountKeeps
<1> QED BY <1>5, <1>6

LEMMA RefusedKeeps ==
  ASSUME IInv, DepositRefused
  PROVE  IInv'
<1>0. PICK m : m = Current
  OBVIOUS
<1>1. /\ begun # << >> /\ m.kind = "deposit" /\ SendNothing /\ threw' = threw \cup {m}
      /\ UNCHANGED <<awaiting, answers, failures, timers, bankVars>>
      /\ balance' = balance /\ history' = history
  BY <1>0 DEF DepositRefused, Runs, Current, accountVars
<1>2. m.kind \in Operations
  BY <1>1 DEF Operations
<1>3. Done' = Done
  BY <1>1, SameHistory
<1>4. StateTypes'
  BY <1>1, KeptTypes DEF IInv, StateTypes, bankVars
<1> QED BY <1>0, <1>1, <1>2, <1>3, <1>4, AccountKeeps

LEMMA CreditKeeps ==
  ASSUME IInv, Credit
  PROVE  IInv'
<1>0. PICK m : m = Current
  OBVIOUS
<1>1. PICK a : a = Target(m)
  OBVIOUS
<1> DEFINE amount == balance[a] + order[m.id].amount
<1>2. /\ begun # << >> /\ m.kind \in {"deposit", "refund"} /\ SendNothing
      /\ UNCHANGED <<awaiting, answers, failures, timers, bankVars>> /\ threw' = threw
      /\ CarryOut(a, amount)
  BY <1>0, <1>1 DEF Credit, Runs, Current, callVars
<1>3. m.kind \in Operations
  BY <1>2 DEF Operations
<1>4. amount \in Nat
  BY <1>0, <1>1, <1>2, <1>3, HandlerRuns, AmountOf
<1> HIDE DEF amount
<1>5. /\ Done' = Done \cup {m} /\ balance' \in [Accounts -> Nat]
      /\ history' \in [Accounts -> SUBSET Calls]
  BY <1>0, <1>1, <1>2, <1>3, <1>4, CarriedOut
<1>6. StateTypes'
  BY <1>2, <1>5 DEF IInv, StateTypes, bankVars
<1> QED BY <1>0, <1>2, <1>3, <1>5, <1>6, AccountKeeps

-----------------------------------------------------------------------------
(* deliver(), dispatch(), the supervisors and the clients                   *)

\* Nothing about any transfer changes.
LEMMA AllKept ==
  ASSUME IInv, CallInv', OrderKept, order' = order, history' = history, awaiting' = awaiting,
         timers' = timers, pendingTransfers' = pendingTransfers, Lined' = Lined,
         Stopped \subseteq Stopped',
         \A x, y \in Calls : x.kind \in Steps /\ y.kind \in Steps => (Ahead(x, y)' => Ahead(x, y))
  PROVE  TransferInv'
<1> SUFFICES ASSUME NEW o \in Orders
             PROVE  IF IsTransfer(o)' THEN Carried(o)' ELSE pendingTransfers'[o] = None
  BY DEF TransferInv, Carried
<1>1. IsTransfer(o)' <=> IsTransfer(o)
  BY DEF IsTransfer
<1>2. IF IsTransfer(o) THEN Carried(o) ELSE pendingTransfers[o] = None
  BY DEF IInv, TransferInv, Carried
<1>3. SameFor(o)
  BY SameHistory, RecordIsCall DEF SameFor
<1>4. IsTransfer(o) => Carried(o)'
  BY <1>2, <1>3, SameKept DEF IInv, CallInv
<1> QED BY <1>1, <1>2, <1>4

LEMMA EndKeeps ==
  ASSUME IInv, NEW a \in Actors, NEW m, HandlerReturns(a, m) \/ HandlerThrows(a, m)
  PROVE  IInv'
<1> DEFINE ok == ~(m \in threw)
<1>1. /\ Quiet /\ m \in mailbox[a].running /\ begun' = begun
      /\ order' = order /\ opened' = opened /\ accounts' = accounts /\ balance' = balance
      /\ history' = history /\ pendingTransfers' = pendingTransfers
      /\ awaiting' = awaiting /\ timers' = timers
      /\ Reply(m, ok) /\ threw' = threw \ {m} /\ failures' \subseteq failures \cup {m}
      /\ \E c \in {Ended(mailbox[a], m), Failed(mailbox[a], m)} : mailbox' = [mailbox EXCEPT ![a] = c]
  <2>1. CASE HandlerReturns(a, m)
    <3>1. ok = TRUE /\ m \notin threw
      BY <2>1 DEF HandlerReturns
    <3>2. threw' = threw \ {m} /\ failures' = failures
      BY <2>1, <3>1 DEF HandlerReturns
    <3> QED BY <2>1, <3>1, <3>2 DEF HandlerReturns, bankVars, accountVars
  <2>2. CASE HandlerThrows(a, m)
    <3>1. ok = FALSE
      BY <2>2 DEF HandlerThrows
    <3> QED BY <2>2, <3>1 DEF HandlerThrows, bankVars, accountVars
  <2> QED BY <2>1, <2>2
<1>2. MailInv /\ OrderTypes
  BY DEF IInv, StateTypes, OrderTypes
<1>3. PICK c \in {Ended(mailbox[a], m), Failed(mailbox[a], m)} : mailbox' = [mailbox EXCEPT ![a] = c]
  BY <1>1
<1>4. /\ LineStep({}) /\ Lined' = Lined /\ Busy' \subseteq Busy \ {m}
      /\ m \in Calls /\ Target(m) = a /\ Known(m) /\ (a \in Accounts => m \in Busy)
  BY <1>1, <1>2, <1>3, EndStep
<1>5. ok \in BOOLEAN /\ (ok <=> m \notin threw)
  OBVIOUS
<1> HIDE DEF ok
<1>6. CallInv'
  BY <1>1, <1>4, <1>5, EndCalls
<1>7. TransferInv'
  BY <1>1, <1>4, <1>6, AllKept, SameOrders DEF LineStep
<1>8. StateTypes'
  BY <1>1, KeptTypes DEF IInv, StateTypes
<1> QED BY <1>4, <1>6, <1>7, <1>8 DEF IInv, LineStep

LEMMA GoOnKeeps ==
  ASSUME IInv, LineStep({}), Gone = {}, UNCHANGED <<awaiting, threw, answers, timers, bankVars, accountVars>>,
         failures' \subseteq failures
  PROVE  IInv'
<1>1. /\ order' = order /\ opened' = opened /\ accounts' = accounts /\ balance' = balance
      /\ history' = history /\ pendingTransfers' = pendingTransfers
      /\ awaiting' = awaiting /\ timers' = timers /\ threw' = threw /\ answers' = answers
  BY DEF bankVars, accountVars
<1>2. Lined' = Lined /\ Busy' \subseteq Busy /\ Stopped' = Stopped /\ MailInv'
  BY DEF LineStep
<1>3. CallInv'
  BY <1>1, <1>2, QuietCalls
<1>4. TransferInv'
  BY <1>1, <1>2, <1>3, AllKept, SameOrders DEF LineStep
<1>5. StateTypes'
  BY <1>1, KeptTypes DEF IInv, StateTypes
<1> QED BY <1>2, <1>3, <1>4, <1>5 DEF IInv

LEMMA ContinueKeeps ==
  ASSUME IInv, NEW a \in Actors, NEW m, Continue(a, m)
  PROVE  IInv'
<1>1. begun = << >> /\ Becomes(a, mailbox[a].queue, Continued(mailbox[a], m)) /\ order' = order
      /\ failures' = failures
      /\ UNCHANGED <<awaiting, threw, answers, timers, bankVars, accountVars>>
  BY DEF Continue, callVars, bankVars
<1>2. LineStep({})
  BY <1>1, ContinueStep, SameOrders DEF IInv, StateTypes, OrderTypes
<1>3. Gone = {}
  BY <1>1 DEF Gone
<1> QED BY <1>1, <1>2, <1>3, GoOnKeeps

LEMMA ResumeKeeps ==
  ASSUME IInv, NEW m, SupervisorResumes(m)
  PROVE  IInv'
<1>0. PICK a : a = Target(m)
  OBVIOUS
<1>1. Quiet /\ m \in failures /\ Becomes(a, mailbox[a].queue, Resumed(mailbox[a])) /\ order' = order
      /\ failures' \subseteq failures
      /\ UNCHANGED <<awaiting, threw, answers, timers, bankVars, accountVars>>
  BY <1>0 DEF SupervisorResumes, bankVars
<1>2. a \in Actors
  BY <1>0, <1>1, Targets DEF IInv, CallInv, CallTypes, StateTypes, OrderTypes
<1>3. LineStep({})
  BY <1>1, <1>2, ResumeStep, SameOrders DEF IInv, StateTypes, OrderTypes
<1> QED BY <1>1, <1>3, QuietTurn, GoOnKeeps

LEMMA StopKeeps ==
  ASSUME IInv, NEW a \in Accounts, StopAccount(a)
  PROVE  IInv'
<1>1. /\ Quiet /\ mailbox' = [mailbox EXCEPT ![a] = Closed(@)] /\ begun' = begun
      /\ order' = order /\ opened' = opened /\ accounts' = accounts /\ balance' = balance
      /\ history' = history /\ pendingTransfers' = pendingTransfers
      /\ awaiting' = awaiting /\ timers' = timers /\ threw' = threw /\ answers' = answers
      /\ failures' = failures
  BY DEF StopAccount, callVars, bankVars, accountVars
<1>2. /\ MailInv' /\ Lined' = Lined /\ Busy' \subseteq Busy
      /\ \A x, y : Ahead(x, y)' <=> Ahead(x, y)
      /\ Stopped' = Stopped \cup {a}
  BY <1>1, StopStep DEF IInv, StateTypes, OrderTypes
<1>3. CallInv'
  BY <1>1, <1>2, QuietCalls
<1>4. TransferInv'
  BY <1>1, <1>2, <1>3, AllKept, SameOrders
<1>5. StateTypes'
  BY <1>1, KeptTypes DEF IInv, StateTypes
<1> QED BY <1>2, <1>3, <1>4, <1>5 DEF IInv

LEMMA OpenKeeps ==
  ASSUME IInv, NEW a \in Accounts, openAccount(a)
  PROVE  IInv'
<1> DEFINE c == Call("registerAccount", a, 0)
<1>1. /\ Quiet /\ a \notin opened /\ opened' = opened \cup {a} /\ Send(Coordinator, c)
      /\ UNCHANGED callVars
      /\ awaiting' = awaiting /\ timers' = timers
      /\ order' = order /\ accounts' = accounts /\ balance' = balance
      /\ history' = history /\ pendingTransfers' = pendingTransfers
  BY DEF openAccount, accountVars, callVars
<1>2. c \in Calls /\ c.kind = "registerAccount" /\ c.id = a /\ Known(c)' /\ Target(c)' = Coordinator
  BY DEF Calls, Call, Known, Target
<1> HIDE DEF c
<1>3. c.kind \notin Steps /\ a \notin Orders /\ c.kind \notin Operations
  BY <1>2, KindsApart, NamesAssumption DEF Orders
<1>4. c \notin Lined \cup awaiting \cup timers \cup threw \cup Done
  <2>1. CallTypes
    BY DEF IInv, CallInv
  <2>2. "registerAccount" \notin DOMAIN OperationOf /\ "initiateTransfer" # "registerAccount"
    BY KindsApart
  <2> QED BY <1>1, <1>2, <1>3, <2>1, <2>2 DEF CallTypes
<1>5. LineStep({c}) /\ Gone = {}
  <2>1. MailInv /\ OrderTypes /\ OrderKept /\ OrderTypes' /\ ~mailbox[Coordinator].closed
    BY <1>1, SameOrders DEF IInv, StateTypes, OrderTypes, MailInv
  <2>2. Coordinator \in Actors /\ c \in CallsOf(Coordinator)'
    BY <1>2 DEF Actors, CallsOf
  <2> QED BY <1>1, <1>4, <2>1, <2>2, SendStep, QuietTurn
<1>6. CallInv'
  <2>1. OrderKept /\ OrderTypes' /\ opened \subseteq opened'
    BY <1>1, SameOrders DEF IInv, StateTypes, OrderTypes
  <2> QED BY <1>1, <1>2, <1>4, <1>5, <2>1, ClientCalls
<1>7. TransferInv'
  <2>1. OrderKept /\ Done' = Done /\ Stopped' = Stopped /\ Lined' = Lined \cup {c}
    BY <1>1, <1>5, SameHistory DEF OrderKept, LineStep
  <2>2. \A x \in Calls : x.id # a /\ x.kind \in Steps =>
           /\ (x \in Lined' <=> x \in Lined) /\ (x \in awaiting' <=> x \in awaiting)
           /\ (x \in timers' <=> x \in timers)
    BY <1>1, <1>2, <2>1
  <2>3. \A x, y \in Calls :
           x.kind \in Steps /\ y.kind \in Steps /\ y.id # a /\ Ahead(x, y)' => Ahead(x, y)
    BY <1>2, <1>5 DEF LineStep
  <2> QED BY <1>1, <1>3, <1>6, <2>1, <2>2, <2>3, OthersKept
<1>8. StateTypes'
  BY <1>1 DEF IInv, StateTypes
<1> QED BY <1>5, <1>6, <1>7, <1>8 DEF IInv, LineStep

\* No call is for an order that was not placed.
LEMMA Unplaced ==
  ASSUME IInv, NEW o \in Orders, order[o] = None, NEW c \in Calls,
         c \in Lined \cup Busy \cup awaiting \cup timers \cup threw \cup Done
  PROVE  c.id # o
<1>1. Known(c)
  BY WhereCallsAre DEF IInv, CallInv, CallTypes, StateTypes, OrderTypes
<1>2. c.kind = "registerAccount" => c.id \in Accounts
  BY CallParts
<1> QED BY <1>1, <1>2, NamesAssumption DEF Known, Orders

LEMMA PlaceKeeps ==
  ASSUME IInv, NEW o \in Orders, transfer(o) \/ depositOrWithdraw(o)
  PROVE  IInv'
<1>1. PICK r \in Requests :
        /\ Quiet /\ order[o] = None /\ order' = [order EXCEPT ![o] = r]
        /\ \/ r.kind = "transfer" /\ Send(Coordinator, Call("initiateTransfer", o, 0))
           \/ r.kind # "transfer" /\ Send(r.to, Call(r.kind, o, 0))
        /\ UNCHANGED callVars
        /\ awaiting' = awaiting /\ timers' = timers
        /\ opened' = opened /\ accounts' = accounts /\ balance' = balance
        /\ history' = history /\ pendingTransfers' = pendingTransfers
  BY DEF transfer, depositOrWithdraw, IsNext, accountVars, callVars
<1>2. /\ r.kind \in {"deposit", "withdraw", "transfer"} /\ r.from \in Accounts /\ r.to \in Accounts
      /\ r.kind # "transfer" => r.from = r.to
      /\ r # None
  BY RequestsAssumption, NoneAssumption
<1>3. MailInv /\ OrderTypes /\ order \in [Orders -> Requests \cup {None}]
  BY DEF IInv, StateTypes, OrderTypes
<1>4. /\ order'[o] = r /\ \A p \in Orders : p # o => order'[p] = order[p]
      /\ OrderTypes' /\ OrderKept
  BY <1>1, <1>3 DEF OrderTypes, OrderKept
<1> DEFINE k == IF r.kind = "transfer" THEN "initiateTransfer" ELSE r.kind
           c == Call(k, o, 0)
           a == IF r.kind = "transfer" THEN Coordinator ELSE r.to
           new == IF mailbox[a].closed THEN {} ELSE {c}
<1>5. c \in Calls /\ c.kind = k /\ c.id = o /\ c.n = 0 /\ k # "registerAccount"
  <2>1. k \in Steps \cup Operations /\ k # "registerAccount"
    BY <1>2 DEF Steps, Operations
  <2> QED BY <2>1, AttemptsAssumption, CallIsCall
<1>6. Known(c)' /\ Target(c)' = a /\ a \in Actors /\ Send(a, c)
  <2>1. CASE r.kind = "transfer"
    BY <1>1, <1>2, <1>4, <1>5, <2>1 DEF Known, Target, Actors
  <2>2. CASE r.kind # "transfer"
    BY <1>1, <1>2, <1>4, <1>5, <2>2 DEF Known, Target, Actors
  <2> QED BY <2>1, <2>2
<1>7. IF r.kind = "transfer" THEN k = "initiateTransfer" /\ a = Coordinator ELSE k = r.kind
  OBVIOUS
<1> HIDE DEF k, c, a
<1>8. c \notin Lined \cup awaiting \cup timers \cup threw \cup Done
  BY <1>1, <1>5, Unplaced
<1>9. LineStep(new) /\ Gone = {}
  <2>1. c \in CallsOf(a)'
    BY <1>5, <1>6 DEF CallsOf
  <2> QED BY <1>1, <1>3, <1>4, <1>6, <1>8, <2>1, SendStep, QuietTurn
<1>10. new \subseteq {c} /\ (a = Coordinator => new = {c})
  BY <1>3 DEF MailInv
<1> HIDE DEF new
<1>11. CallInv'
  <2>1. IF order'[c.id].kind = "transfer" THEN c.kind \in Steps
        ELSE c.kind = order'[c.id].kind /\ c.n = 0
    BY <1>4, <1>5, <1>7 DEF Steps
  <2> QED BY <1>1, <1>4, <1>5, <1>6, <1>8, <1>9, <1>10, <2>1, ClientCalls
<1>12. /\ Done' = Done /\ Stopped' = Stopped /\ Lined' = Lined \cup new /\ MailInv'
       /\ \A x, y \in Calls : x.kind \in Steps /\ y.kind \in Steps => (Ahead(x, y)' => Ahead(x, y) \/ y \in new)
  BY <1>1, <1>9, SameHistory DEF LineStep
<1>13. pendingTransfers[o] = None
  BY <1>1 DEF IInv, TransferInv, IsTransfer
<1>14. ASSUME r.kind = "transfer" PROVE Carried(o)'
  <2>1. c.kind = "initiateTransfer" /\ new = {c} /\ c.kind \in Steps
    BY <1>5, <1>7, <1>10, <1>14 DEF Steps
  <2>2. \A x \in Calls : x \in Lined \cup awaiting \cup timers \cup Done => x.id # o
    BY <1>1, Unplaced
  <2>3. \A x \in Lined \cup awaiting \cup timers \cup Done : x.id # o
    <3>1. Lined \cup awaiting \cup timers \cup Done \subseteq Calls
      BY DEF Lined, Done, IInv, CallInv, CallTypes
    <3> QED BY <2>2, <3>1
  <2>4. StepsFor(o)' = {c}
    BY <1>1, <1>5, <1>12, <2>1, <2>3 DEF StepsFor
  <2>5. Record(o) \notin Lined' /\ (\A j : ~DoneFor(o, j)')
    BY <1>12, <2>1, <2>3, RecordIsCall DEF DoneFor
  <2>6. OnlyAsked(c)'
    BY <1>5, <1>12, <2>3 DEF OnlyAsked
  <2>7. c \notin awaiting'
    BY <1>1, <1>8
  <2>8. Carries(c, o)'
    BY <1>1, <1>5, <1>13, <2>1, <2>4, <2>5, <2>6, <2>7 DEF Carries
  <2> QED BY <1>5, <2>8 DEF Carried
<1>15. TransferInv'
  <2>1. \A x \in Calls : x.id # o /\ x.kind \in Steps =>
           /\ (x \in Lined' <=> x \in Lined) /\ (x \in awaiting' <=> x \in awaiting)
           /\ (x \in timers' <=> x \in timers)
    BY <1>1, <1>5, <1>10, <1>12
  <2>2. \A x, y \in Calls :
           x.kind \in Steps /\ y.kind \in Steps /\ y.id # o /\ Ahead(x, y)' => Ahead(x, y)
    BY <1>5, <1>10, <1>12
  <2>3. IF IsTransfer(o)' THEN Carried(o)' ELSE pendingTransfers'[o] = None
    BY <1>1, <1>4, <1>13, <1>14 DEF IsTransfer
  <2>4. \A p \in Orders : p # o => pendingTransfers'[p] = pendingTransfers[p] /\ order'[p] = order[p]
    BY <1>1, <1>4
  <2> QED BY <1>4, <1>11, <1>12, <2>1, <2>2, <2>3, <2>4, OthersKept
<1>16. StateTypes'
  BY <1>1, <1>4 DEF IInv, StateTypes, OrderTypes
<1> QED BY <1>11, <1>12, <1>15, <1>16 DEF IInv

-----------------------------------------------------------------------------
(* The invariant                                                            *)

LEMMA EmptyLines ==
  ASSUME Init
  PROVE  /\ begun = << >> /\ Begun = {} /\ Lined = {} /\ Busy = {} /\ Done = {} /\ Stopped = {}
         /\ \A a \in Actors : mailbox[a] = EmptyMailbox /\ LineOf(a) = << >>
<1>1. begun = << >> /\ \A a \in Actors : mailbox[a] = EmptyMailbox
  BY DEF Init
<1>2. Begun = {} /\ Queue(EmptyMailbox) = {}
  BY <1>1 DEF Begun, Queue, EmptyMailbox
<1>3. EmptyMailbox.running = {} /\ EmptyMailbox.queue = << >> /\ EmptyMailbox.closed = FALSE
  BY DEF EmptyMailbox
<1>4. Accounts \subseteq Actors
  BY DEF Actors
<1>5. \A a \in Accounts : history[a] = {}
  BY DEF Init
<1>6. Lined = {} /\ Busy = {} /\ Done = {} /\ Stopped = {}
  BY <1>1, <1>2, <1>3, <1>4, <1>5 DEF Lined, Busy, Done, Stopped
<1>7. \A a \in Actors : LineOf(a) = << >>
  BY <1>1, <1>3 DEF LineOf
<1> QED BY <1>1, <1>2, <1>6, <1>7

LEMMA InitHolds == Init => IInv
<1> SUFFICES ASSUME Init PROVE IInv
  OBVIOUS
<1>1. StateTypes
  BY BalanceAssumption DEF Init, StateTypes
<1>2. MailInv
  <2>1. \A M : EmptyMailbox \in MailboxOf(M)
    BY DEF EmptyMailbox, MailboxOf
  <2>2. mailbox \in [Actors -> MailboxOf(Calls)]
    BY <2>1 DEF Init
  <2>3. \A x : ~Precedes(<< >>, x, x)
    BY DEF Precedes
  <2>4. ~mailbox[Coordinator].closed
    BY EmptyLines DEF Actors, EmptyMailbox
  <2> QED BY <2>1, <2>2, <2>3, <2>4, EmptyLines DEF MailInv
<1>3. CallInv
  BY EmptyLines DEF Init, CallInv, CallTypes, EffectsFollow, AnswersTold, AskedIsAwaited,
                    ClientsCallOnce, Everywhere
<1>4. TransferInv
  BY DEF Init, TransferInv, IsTransfer
<1> QED BY <1>1, <1>2, <1>3, <1>4 DEF IInv

LEMMA StutterKeeps ==
  ASSUME IInv, UNCHANGED vars
  PROVE  IInv'
<1>1. /\ UNCHANGED <<mailbox, begun, history, order, awaiting, threw, answers, failures, timers>>
      /\ UNCHANGED <<opened, accounts, pendingTransfers, balance>>
  BY DEF vars, turnVars, callVars, bankVars, accountVars
<1>2. /\ Begun' = Begun /\ Lined' = Lined /\ Busy' = Busy /\ Done' = Done /\ Stopped' = Stopped
      /\ \A a : LineOf(a)' = LineOf(a)
  BY <1>1 DEF Begun, Lined, Busy, Done, Stopped, LineOf
<1>3. StateTypes'
  BY <1>1 DEF IInv, StateTypes
<1>4. OrderKept /\ \A m : (Known(m)' <=> Known(m)) /\ Target(m)' = Target(m)
  BY <1>1, SameOrders
<1>5. MailInv'
  <2>1. \A a : CallsOf(a)' = CallsOf(a)
    BY <1>4 DEF CallsOf
  <2> QED BY <1>1, <1>2, <1>4, <2>1 DEF IInv, MailInv
<1>6. CallInv'
  BY <1>1, <1>2, QuietCalls
<1>7. TransferInv'
  <2>1. \A x, y : Ahead(x, y)' <=> Ahead(x, y)
    BY <1>2 DEF Ahead
  <2> QED BY <1>1, <1>2, <1>4, <1>6, <2>1, AllKept
<1> QED BY <1>3, <1>5, <1>6, <1>7 DEF IInv

LEMMA NextKeeps ==
  ASSUME IInv, Next
  PROVE  IInv'
<1>1. CASE CoordinatorRuns
  BY <1>1, RegisterKeeps, RefusalKeeps, InitiateKeeps, RecordKeeps, AttemptKeeps, FailureKeeps,
     RefundKeeps, CompletionKeeps DEF CoordinatorRuns
<1>2. CASE AccountRuns
  BY <1>2, WithdrawKeeps, RefusedKeeps, CreditKeeps DEF AccountRuns
<1>3. ASSUME NEW m \in awaiting, CoordinatorGoesOn(m) PROVE IInv'
  BY <1>3, WithdrawnKeeps, NotWithdrawnKeeps, DepositedKeeps, NotDepositedKeeps, RefundedKeeps
     DEF CoordinatorGoesOn
<1>4. ASSUME NEW m \in timers, RetryFires(m) PROVE IInv'
  BY <1>4, RetryKeeps
<1>5. ASSUME NEW a \in Actors, NEW m \in mailbox[a].running,
             HandlerReturns(a, m) \/ HandlerThrows(a, m)
      PROVE  IInv'
  BY <1>5, EndKeeps
<1>6. ASSUME NEW a \in Actors, NEW m \in mailbox[a].settling, Continue(a, m) PROVE IInv'
  BY <1>6, ContinueKeeps
<1>7. ASSUME NEW m \in failures, SupervisorResumes(m) PROVE IInv'
  BY <1>7, ResumeKeeps
<1>8. ASSUME NEW a \in Accounts, openAccount(a) \/ StopAccount(a) PROVE IInv'
  BY <1>8, OpenKeeps, StopKeeps
<1>9. ASSUME NEW o \in Orders, transfer(o) \/ depositOrWithdraw(o) PROVE IInv'
  BY <1>9, PlaceKeeps
<1> QED BY <1>1, <1>2, <1>3, <1>4, <1>5, <1>6, <1>7, <1>8, <1>9 DEF Next, EventLoop, Clients

(***************************************************************************)
(* The state of the bank, where its calls are, what they have done, and    *)
(* how far each transfer has got fit together in every state.              *)
(***************************************************************************)
THEOREM Invariance == Spec => []IInv
<1>1. IInv /\ [Next]_vars => IInv'
  BY NextKeeps, StutterKeeps
<1> QED BY InitHolds, <1>1, PTL DEF Spec

(***************************************************************************)
(* Every variable has its type: no account has a negative balance, and no  *)
(* record of a transfer counts more attempts than there may be.            *)
(***************************************************************************)
THEOREM TypeCorrect == Spec => []TypeOK
<1>1. IInv => TypeOK
  BY DEF IInv, StateTypes, MailInv, CallInv, CallTypes, TypeOK
<1> QED BY Invariance, <1>1, PTL

-----------------------------------------------------------------------------
(* One carrier                                                              *)

LEMMA DidIsDone ==
  ASSUME history \in [Accounts -> SUBSET Calls], NEW o, NEW k
  PROVE  Did(o, k) <=> DoneFor(o, k)
BY DEF Did, DoneFor, Done

LEMMA CarriersAreSteps ==
  ASSUME IInv, NEW o \in Orders
  PROVE  Carriers(o) = {m \in StepsFor(o) : m.kind # "recordPendingTransfer"}
<1>1. MailInv /\ OrderTypes /\ Coordinator \in Actors
  BY DEF IInv, StateTypes, OrderTypes, Actors
<1>2. ASSUME NEW m \in Lined, m.kind \in Steps
      PROVE  m \in Begun \cup Queue(mailbox[Coordinator])
  <2>1. m \in Calls /\ Known(m)
    BY <1>1, WhereCallsAre DEF Lined
  <2>2. Target(m) = Coordinator
    BY <1>1, <1>2, <2>1, Targets, KindsApart
  <2> QED BY <1>1, <2>2, WhereCallsAre
<1>3. Begun \cup Queue(mailbox[Coordinator]) \subseteq Lined
  BY <1>1, WhereCallsAre
<1> QED BY <1>2, <1>3 DEF Carriers, StepsFor

(***************************************************************************)
(* A transfer that took its amount is carried on by exactly one call or    *)
(* timer of the coordinator, until it is over; when it is over there is no *)
(* record of it, and the amount was given or returned, or met an account   *)
(* that was stopped.                                                       *)
(***************************************************************************)
THEOREM NeverForgottenNorDoubled == Spec => []OneCarrier
<1>1. ASSUME IInv, NEW o \in Orders, Taken(o)
      PROVE  \/ Cardinality(Carriers(o)) = 1
             \/ /\ Carriers(o) = {}
                /\ pendingTransfers[o] = None
                /\ Settled(o) \/ HasStoppedAccount(o)
  <2>1. /\ IsTransfer(o) /\ DoneFor(o, "withdraw")
        /\ Settled(o) <=> DoneFor(o, "deposit") \/ DoneFor(o, "refund")
    BY <1>1, DidIsDone DEF Taken, Settled, IInv, StateTypes
  <2>2. Carriers(o) = {m \in StepsFor(o) : m.kind # "recordPendingTransfer"}
    BY <1>1, CarriersAreSteps
  <2>3. CASE Over(o)
    <3>1. StepsFor(o) = {} /\ pendingTransfers[o] = None /\ MayEnd(o)
      BY <2>1, <2>3 DEF Over
    <3>2. CASE order[o].from \in Stopped \/ order[o].to \in Stopped
      BY <2>1, <2>2, <3>1, <3>2 DEF HasStoppedAccount, Stopped, IsTransfer
    <3>3. CASE DoneFor(o, "deposit") \/ DoneFor(o, "refund")
      BY <2>1, <2>2, <3>1, <3>3
    <3> QED BY <3>1, <3>2, <3>3 DEF MayEnd
  <2>4. ASSUME NEW m \in Calls, Carries(m, o) PROVE Cardinality(Carriers(o)) = 1
    <3>1. Carriers(o) = {m}
      BY <2>2, <2>4, RecordIsCall DEF Carries
    <3> QED BY <3>1, FS_Singleton
  <2> QED BY <1>1, <2>1, <2>3, <2>4 DEF IInv, TransferInv
<1>2. IInv => OneCarrier
  BY <1>1 DEF OneCarrier
<1> QED BY Invariance, <1>2, PTL

-----------------------------------------------------------------------------
(* The ledger                                                               *)

Histories == history \in [Accounts -> SUBSET Calls]

LEMMA PhaseIs ==
  ASSUME Histories, Histories', NEW o
  PROVE  /\ Phase(o) = IF DoneFor(o, "refund") THEN "returned"
                       ELSE IF DoneFor(o, "deposit") THEN "given"
                       ELSE IF DoneFor(o, "withdraw") THEN "taken" ELSE "new"
         /\ Phase(o)' = IF DoneFor(o, "refund")' THEN "returned"
                        ELSE IF DoneFor(o, "deposit")' THEN "given"
                        ELSE IF DoneFor(o, "withdraw")' THEN "taken" ELSE "new"
<1>1. \A k : (Did(o, k) <=> DoneFor(o, k)) /\ (Did(o, k)' <=> DoneFor(o, k)')
  BY DEF Histories, Did, DoneFor, Done
<1> QED BY <1>1 DEF Phase

\* A step that leaves money and orders alone is none of the ledger's.
LEMMA NothingForLedger ==
  ASSUME order' = order, balance' = balance, history' = history, Stopped' = Stopped
  PROVE  UNCHANGED Promise!vars
<1>1. \A o : Phase(o)' = Phase(o)
  BY DEF Phase, Did
<1>2. [o \in Orders |-> Phase(o)]' = [o \in Orders |-> Phase(o)]
  BY <1>1
<1> QED BY <1>2 DEF Promise!vars, Stopped

LEMMA NothingStops ==
  ASSUME MailInv, NEW a, NEW c, a \in Actors => c.closed = mailbox[a].closed,
         mailbox' = [mailbox EXCEPT ![a] = c]
  PROVE  Stopped' = Stopped
<1>1. \A b \in Actors : mailbox'[b].closed = mailbox[b].closed
  BY DEF MailInv
<1> QED BY <1>1 DEF Stopped, Actors

LEMMA SendsStopNothing ==
  ASSUME MailInv
  PROVE  /\ SendNothing => Stopped' = Stopped
         /\ \A a, m : Send(a, m) => Stopped' = Stopped
         /\ \A m, n : SendBoth(m, n) => Stopped' = Stopped
<1>1. ASSUME NEW m, NEW n, NEW b \in Actors
      PROVE  /\ Sent(mailbox[b], m).closed = mailbox[b].closed
             /\ Sent(Sent(mailbox[b], m), n).closed = mailbox[b].closed
  <2> DEFINE M == Calls \cup {m, n}
  <2>1. mailbox[b] \in MailboxOf(M)
    BY MailParts, LargerMailbox
  <2>2. /\ Sent(mailbox[b], m) \in MailboxOf(M)
        /\ Sent(mailbox[b], m).closed = mailbox[b].closed
    BY <2>1, SentAdds
  <2> QED BY <2>2, SentAdds
<1>2. SendNothing => Stopped' = Stopped
  BY DEF SendNothing, Stopped
<1>3. ASSUME NEW a, NEW m, Send(a, m), ~mailbox[a].closed PROVE Stopped' = Stopped
  <2>1. a \in Actors => Sent(mailbox[a], m).closed = mailbox[a].closed
    BY <1>1
  <2>2. mailbox' = [mailbox EXCEPT ![a] = Sent(mailbox[a], m)]
    BY <1>3 DEF Send, Becomes
  <2> QED BY <2>1, <2>2, NothingStops
<1>4. ASSUME NEW m, NEW n, SendBoth(m, n) PROVE Stopped' = Stopped
  <2> DEFINE b == Sent(Sent(mailbox[Coordinator], m), n)
  <2>1. Coordinator \in Actors => b.closed = mailbox[Coordinator].closed
    BY <1>1
  <2>2. mailbox' = [mailbox EXCEPT ![Coordinator] = b]
    BY <1>4 DEF SendBoth, Becomes
  <2> HIDE DEF b
  <2> QED BY <2>1, <2>2, NothingStops
<1> QED BY <1>2, <1>3, <1>4 DEF Send

LEMMA CoordinatorForLedger ==
  ASSUME MailInv,
         CoordinatorRuns \/ \E m \in awaiting : CoordinatorGoesOn(m)
  PROVE  UNCHANGED Promise!vars
<1>1. UNCHANGED <<order, balance, history>>
  BY DEF CoordinatorRuns, registerAccount, InitiateRefused, initiateTransfer,
         recordPendingTransfer, attemptDeposit, handleDepositFailure, processRefund,
         completeTransfer, CoordinatorGoesOn, Withdrawn, NotWithdrawn, Deposited, NotDeposited,
         Refunded, GoesOn, bankVars, accountVars
<1>2. ASSUME CoordinatorRuns PROVE Stopped' = Stopped
  <2>1. SendNothing \/ \E a, m : Send(a, m)
    <3>1. CASE handleDepositFailure
      BY <3>1, Zenon DEF handleDepositFailure, Retry, GiveUp
    <3>2. CASE initiateTransfer \/ attemptDeposit \/ processRefund
      BY <3>2, Zenon DEF initiateTransfer, attemptDeposit, processRefund, Ask
    <3> QED BY <1>2, <3>1, <3>2, Zenon
            DEF CoordinatorRuns, registerAccount, InitiateRefused, recordPendingTransfer,
                completeTransfer
  <2> QED BY <2>1, SendsStopNothing
<1>3. ASSUME NEW m \in awaiting, CoordinatorGoesOn(m) PROVE Stopped' = Stopped
  <2>1. CASE NotWithdrawn(m)
    BY <2>1 DEF NotWithdrawn, turnVars, Stopped
  <2> QED BY <1>3, <2>1, SendsStopNothing
          DEF CoordinatorGoesOn, Withdrawn, Deposited, NotDeposited, Refunded
<1> QED BY <1>1, <1>2, <1>3, NothingForLedger

LEMMA DeliveryForLedger ==
  ASSUME MailInv, OrderTypes,
         \/ \E m \in timers : RetryFires(m)
         \/ \E a \in Actors : \E m \in mailbox[a].running : HandlerReturns(a, m) \/ HandlerThrows(a, m)
         \/ \E a \in Actors : \E m \in mailbox[a].settling : Continue(a, m)
         \/ \E m \in failures : SupervisorResumes(m)
         \/ \E a \in Accounts : openAccount(a)
  PROVE  UNCHANGED Promise!vars
<1>1. UNCHANGED <<order, balance, history>>
  BY DEF RetryFires, HandlerReturns, HandlerThrows, Continue, SupervisorResumes, openAccount,
         bankVars, accountVars
<1>2. ASSUME NEW m, RetryFires(m) PROVE Stopped' = Stopped
  BY <1>2, SendsStopNothing DEF RetryFires
<1>3. ASSUME NEW a \in Actors, NEW m \in mailbox[a].running,
             HandlerReturns(a, m) \/ HandlerThrows(a, m)
      PROVE  Stopped' = Stopped
  <2>1. /\ Ended(mailbox[a], m).closed = mailbox[a].closed
        /\ Failed(mailbox[a], m).closed = mailbox[a].closed
    <3>1. mailbox[a] \in MailboxOf(Calls) /\ m \in Calls
      BY MailParts
    <3>2. Ended(mailbox[a], m).closed = mailbox[a].closed
      BY <3>1, EndedRemoves
    <3>3. Failed(mailbox[a], m).closed = mailbox[a].closed
      BY <3>1, FailedRemoves
    <3> QED BY <3>2, <3>3
  <2> QED BY <1>3, <2>1, NothingStops DEF HandlerReturns, HandlerThrows
<1>4. ASSUME NEW a \in Actors, NEW m, Continue(a, m) PROVE Stopped' = Stopped
  <2>1. Continued(mailbox[a], m).closed = mailbox[a].closed
    BY MailParts, ContinuedMoves
  <2> QED BY <1>4, <2>1, NothingStops DEF Continue, Becomes
<1>5. ASSUME NEW m, SupervisorResumes(m) PROVE Stopped' = Stopped
  BY <1>5, MailParts, ResumedMoves, NothingStops DEF SupervisorResumes, Becomes
<1>6. ASSUME NEW a, openAccount(a) PROVE Stopped' = Stopped
  BY <1>6, SendsStopNothing DEF openAccount
<1> QED BY <1>1, <1>2, <1>3, <1>4, <1>5, <1>6, NothingForLedger

LEMMA PlaceForLedger ==
  ASSUME IInv, NEW o \in Orders, transfer(o) \/ depositOrWithdraw(o)
  PROVE  Promise!Place(o)
<1>1. /\ order[o] = None /\ \A p \in Orders \ {o} : order'[p] = order[p]
      /\ balance' = balance /\ history' = history
  BY DEF transfer, depositOrWithdraw, IsNext, accountVars, IInv, StateTypes
<1>2. Stopped' = Stopped
  BY SendsStopNothing DEF transfer, depositOrWithdraw, IInv
<1>3. [p \in Orders |-> Phase(p)]' = [p \in Orders |-> Phase(p)]
  BY <1>1 DEF Phase, Did
<1> QED BY <1>1, <1>2, <1>3 DEF Promise!Place, Stopped

LEMMA StopForLedger ==
  ASSUME IInv, NEW a \in Accounts, StopAccount(a)
  PROVE  Promise!Stop(a)
<1>1. /\ Stopped' = Stopped \cup {a}
      /\ UNCHANGED <<order, balance, history>>
  BY StopStep DEF StopAccount, bankVars, accountVars, IInv, StateTypes, OrderTypes
<1>2. [p \in Orders |-> Phase(p)]' = [p \in Orders |-> Phase(p)]
  BY <1>1 DEF Phase, Did
<1> QED BY <1>1, <1>2 DEF Promise!Stop, Stopped

\* What an account is asked to do for an order was not done before.
LEMMA FirstOfItsKind ==
  ASSUME IInv, begun # << >>, NEW m, m = Current, m.kind \in Operations
  PROVE  /\ m.id \in Orders /\ order[m.id] # None
         /\ ~DoneFor(m.id, m.kind)
         /\ IF order[m.id].kind = "transfer"
            THEN \E x \in awaiting : /\ x.kind \in DOMAIN OperationOf
                                     /\ OperationOf[x.kind] = m.kind
                                     /\ Carries(x, m.id)
            ELSE m.kind = order[m.id].kind /\ \A k : ~DoneFor(m.id, k)
<1>1. /\ m \in Calls /\ m \in Lined /\ Known(m) /\ m \notin Done
  BY HandlerRuns
<1>2. m.id \in Orders /\ order[m.id] # None /\ m.kind # "registerAccount"
  BY <1>1, AmountOf, KindsApart
<1>3. CASE order[m.id].kind = "transfer"
  <2>1. Awaited(m)
    BY <1>1, <1>3 DEF IInv, CallInv, AskedIsAwaited
  <2>2. PICK x \in awaiting : x \in Calls /\ x.kind \in DOMAIN OperationOf /\ AskedBy(x) = m
    BY <2>1, AwaitedParts DEF IInv, CallInv
  <2>3. m.kind = OperationOf[x.kind] /\ m.id = x.id
    BY <2>2, AskedParts
  <2>4. x.kind \in Steps /\ x.kind # "recordPendingTransfer"
    BY <2>2, KindsApart
  <2>5. Carries(x, m.id)
    BY <2>3, <2>4, StepCarries
  <2>6. OnlyAsked(x)
    BY <2>2, <2>5 DEF Carries
  <2>7. ~DoneFor(m.id, m.kind)
    BY <1>1, <2>2, <2>3, <2>6 DEF OnlyAsked, DoneFor
  <2> QED BY <1>2, <1>3, <2>2, <2>3, <2>5, <2>7
<1>4. CASE order[m.id].kind # "transfer"
  <2>1. m.kind = order[m.id].kind /\ m.n = 0
    BY <1>1, <1>2, <1>4 DEF IInv, CallInv, ClientsCallOnce, Everywhere
  <2>2. ASSUME NEW c \in Done, c.id = m.id PROVE FALSE
    <3>1. c \in Calls /\ c.kind # "registerAccount"
      BY KindsApart DEF Done, IInv, CallInv, CallTypes
    <3>2. c.kind = m.kind /\ c.n = m.n
      BY <1>4, <2>1, <2>2, <3>1 DEF IInv, CallInv, ClientsCallOnce, Everywhere
    <3>3. c = m
      BY <1>1, <2>2, <3>1, <3>2, CallParts
    <3> QED BY <1>1, <3>3
  <2>3. \A k : ~DoneFor(m.id, k)
    BY <2>2 DEF DoneFor
  <2> QED BY <1>2, <1>4, <2>1, <2>3
<1> QED BY <1>3, <1>4

\* Carrying m out moves the phase of its order and no other.
LEMMA PhaseMoves ==
  ASSUME Histories, Histories', NEW m \in Calls, m.kind \in Operations, m.id \in Orders,
         Done' = Done \cup {m},
         m.kind = "withdraw" => ~DoneFor(m.id, "deposit") /\ ~DoneFor(m.id, "refund"),
         m.kind = "deposit" => ~DoneFor(m.id, "refund"),
         NEW ph, ph = [withdraw |-> "taken", deposit |-> "given", refund |-> "returned"][m.kind]
  PROVE  [p \in Orders |-> Phase(p)]' = [[p \in Orders |-> Phase(p)] EXCEPT ![m.id] = ph]
<1>1. \A p, k : DoneFor(p, k)' <=> DoneFor(p, k) \/ (m.id = p /\ m.kind = k)
  BY DEF DoneFor
<1>2. m.kind \in {"withdraw", "deposit", "refund"}
  BY DEF Operations
<1>3. Phase(m.id)' = ph
  BY <1>1, <1>2, PhaseIs
<1>4. \A p \in Orders : p # m.id => Phase(p)' = Phase(p)
  BY <1>1, PhaseIs
<1> QED BY <1>3, <1>4

LEMMA WithdrawForLedger ==
  ASSUME IInv, IInv', withdraw
  PROVE  (\E o \in Orders : Promise!Take(o)) \/ UNCHANGED Promise!vars
<1>0. PICK m : m = Current
  OBVIOUS
<1>1. PICK a : a = Target(m)
  OBVIOUS
<1>2. PICK o : o = m.id
  OBVIOUS
<1>3. /\ begun # << >> /\ m.kind = "withdraw" /\ SendNothing /\ order' = order
      /\ IF order[o].amount > balance[a] THEN UNCHANGED accountVars
         ELSE CarryOut(a, balance[a] - order[o].amount)
  BY <1>0, <1>1, <1>2 DEF withdraw, Runs, Current, bankVars
<1>4. Stopped' = Stopped
  BY <1>3, SendsStopNothing DEF IInv
<1>5. CASE order[o].amount > balance[a]
  BY <1>3, <1>4, <1>5, NothingForLedger DEF accountVars
<1>6. CASE ~(order[o].amount > balance[a])
  <2>1. m \in Calls /\ Known(m) /\ m.kind \in Operations /\ a = order[o].from
    BY <1>0, <1>1, <1>2, <1>3, HandlerRuns DEF Operations, Target
  <2>2. /\ order[o].amount \in Nat /\ balance[a] \in Nat /\ o \in Orders /\ order[o] # None
    BY <1>1, <1>2, <2>1, AmountOf
  <2> DEFINE amount == balance[a] - order[o].amount
  <2>3. amount \in Nat /\ CarryOut(a, amount)
    BY <1>3, <1>6, <2>2
  <2> HIDE DEF amount
  <2>4. /\ Done' = Done \cup {m} /\ balance' = [balance EXCEPT ![a] = amount]
    BY <1>0, <1>1, <1>3, <2>1, <2>3, CarriedOut
  <2>5. /\ ~DoneFor(o, "withdraw") /\ ~DoneFor(o, "deposit") /\ ~DoneFor(o, "refund")
        /\ order[o].kind \in {"withdraw", "transfer"}
        /\ order[o].kind = "transfer" => order[o].from # order[o].to
    <3>1. ~DoneFor(o, "withdraw")
      BY <1>0, <1>2, <1>3, <2>1, FirstOfItsKind
    <3>2. CASE order[o].kind = "transfer"
      <4>1. PICK x \in awaiting : /\ x.kind \in DOMAIN OperationOf
                                  /\ OperationOf[x.kind] = "withdraw" /\ Carries(x, o)
        BY <1>0, <1>2, <1>3, <2>1, <3>2, FirstOfItsKind
      <4>2. x.kind = "initiateTransfer"
        BY <4>1, KindsApart
      <4> QED BY <3>1, <3>2, <4>1, <4>2 DEF Carries
    <3>3. CASE order[o].kind # "transfer"
      BY <1>0, <1>2, <1>3, <2>1, <3>3, FirstOfItsKind
    <3> QED BY <3>2, <3>3
  <2>6. Histories /\ Histories'
    BY DEF IInv, StateTypes, Histories
  <2>7. Phase(o) = "new"
    BY <2>5, <2>6, PhaseIs
  <2>8. [p \in Orders |-> Phase(p)]' = [[p \in Orders |-> Phase(p)] EXCEPT ![o] = "taken"]
    BY <1>2, <1>3, <2>1, <2>2, <2>4, <2>5, <2>6, PhaseMoves
  <2>9. balance' = [balance EXCEPT ![a] = @ - order[o].amount]
    BY <2>4 DEF amount
  <2>10. order[o].amount <= balance[order[o].from]
    BY <1>6, <2>1, <2>2
  <2>11. Promise!Take(o)
    BY <1>3, <1>4, <2>1, <2>2, <2>5, <2>7, <2>8, <2>9, <2>10
       DEF Promise!Take, Promise!IsFor, Stopped
  <2> QED BY <2>2, <2>11
<1> QED BY <1>5, <1>6

LEMMA CreditForLedger ==
  ASSUME IInv, IInv', Credit
  PROVE  \E o \in Orders : Promise!Give(o) \/ Promise!Return(o)
<1>0. PICK m : m = Current
  OBVIOUS
<1>1. PICK a : a = Target(m)
  OBVIOUS
<1>2. PICK o : o = m.id
  OBVIOUS
<1> DEFINE amount == balance[a] + order[o].amount
<1>3. /\ begun # << >> /\ m.kind \in {"deposit", "refund"} /\ SendNothing /\ order' = order
      /\ CarryOut(a, amount)
  BY <1>0, <1>1, <1>2 DEF Credit, Runs, Current, bankVars
<1>4. Stopped' = Stopped
  BY <1>3, SendsStopNothing DEF IInv
<1>5. /\ m \in Calls /\ Known(m) /\ m.kind \in Operations /\ ~mailbox[a].closed
      /\ m.kind = "deposit" => a = order[o].to
      /\ m.kind = "refund" => a = order[o].from
  BY <1>0, <1>1, <1>2, <1>3, HandlerRuns DEF Operations, Target
<1>6. /\ order[o].amount \in Nat /\ balance[a] \in Nat /\ o \in Orders /\ order[o] # None
  BY <1>1, <1>2, <1>5, AmountOf
<1>7. amount \in Nat
  BY <1>6
<1> HIDE DEF amount
<1>8. Done' = Done \cup {m} /\ balance' = [balance EXCEPT ![a] = amount] /\ a \notin Stopped
  BY <1>0, <1>1, <1>3, <1>5, <1>7, CarriedOut
<1>9. Histories /\ Histories'
  BY DEF IInv, StateTypes, Histories
<1>10. balance' = [balance EXCEPT ![a] = @ + order[o].amount]
  BY <1>8 DEF amount
<1>11. ~DoneFor(o, m.kind)
  BY <1>0, <1>2, <1>3, <1>5, FirstOfItsKind
<1>12. CASE m.kind = "deposit"
  <2>1. /\ ~DoneFor(o, "refund")
        /\ IF order[o].kind = "transfer" THEN Paid(o)
           ELSE order[o].kind = "deposit" /\ ~DoneFor(o, "withdraw")
    <3>1. CASE order[o].kind = "transfer"
      <4>1. PICK x \in awaiting : /\ x.kind \in DOMAIN OperationOf
                                  /\ OperationOf[x.kind] = "deposit" /\ Carries(x, o)
        BY <1>0, <1>2, <1>3, <1>5, <1>12, <3>1, FirstOfItsKind
      <4>2. x.kind = "attemptDeposit"
        BY <4>1, KindsApart
      <4> QED BY <3>1, <4>1, <4>2 DEF Carries
    <3>2. CASE order[o].kind # "transfer"
      BY <1>0, <1>2, <1>3, <1>5, <1>12, <3>2, FirstOfItsKind
    <3> QED BY <3>1, <3>2
  <2>2. /\ Phase(o) = IF DoneFor(o, "withdraw") THEN "taken" ELSE "new"
    BY <1>9, <1>11, <1>12, <2>1, PhaseIs
  <2>3. [p \in Orders |-> Phase(p)]' = [[p \in Orders |-> Phase(p)] EXCEPT ![o] = "given"]
    BY <1>2, <1>5, <1>6, <1>8, <1>9, <1>12, <2>1, PhaseMoves
  <2>4. Promise!Give(o)
    BY <1>3, <1>4, <1>5, <1>6, <1>10, <1>12, <2>1, <2>2, <2>3
       DEF Promise!Give, Promise!IsFor, Stopped, Paid
  <2> QED BY <1>6, <2>4
<1>13. CASE m.kind = "refund"
  <2>1. order[o].kind = "transfer" /\ ~DoneFor(o, "deposit") /\ Paid(o)
    <3>1. CASE order[o].kind = "transfer"
      <4>1. PICK x \in awaiting : /\ x.kind \in DOMAIN OperationOf
                                  /\ OperationOf[x.kind] = "refund" /\ Carries(x, o)
        BY <1>0, <1>2, <1>3, <1>5, <1>13, <3>1, FirstOfItsKind
      <4>2. x.kind = "processRefund"
        BY <4>1, KindsApart
      <4> QED BY <3>1, <4>1, <4>2 DEF Carries
    <3>2. CASE order[o].kind # "transfer"
      <4>1. order[o].kind = "refund"
        BY <1>0, <1>2, <1>3, <1>5, <1>13, <3>2, FirstOfItsKind
      <4> QED BY <1>6, <4>1, OrderParts DEF IInv, StateTypes, OrderTypes
    <3> QED BY <3>1, <3>2
  <2>2. DoneFor(o, "withdraw")
    BY <1>5, <1>8, <1>13, <2>1 DEF Paid
  <2>3. Phase(o) = "taken"
    BY <1>9, <1>11, <1>13, <2>1, <2>2, PhaseIs
  <2>4. [p \in Orders |-> Phase(p)]' = [[p \in Orders |-> Phase(p)] EXCEPT ![o] = "returned"]
    BY <1>2, <1>5, <1>6, <1>8, <1>9, <1>13, PhaseMoves
  <2>5. Promise!Return(o)
    BY <1>3, <1>4, <1>5, <1>6, <1>10, <1>13, <2>1, <2>3, <2>4
       DEF Promise!Return, Promise!IsFor, Stopped
  <2> QED BY <1>6, <2>5
<1> QED BY <1>3, <1>12, <1>13

(***************************************************************************)
(* The bank implements the ledger: whatever is delayed, retried, refused,  *)
(* resumed or stopped, no account is overdrawn, a transfer takes its       *)
(* amount once and then gives it or returns it once, never both, and gives *)
(* what was not taken only when the account it should come from is         *)
(* stopped.                                                                *)
(***************************************************************************)
THEOREM Refinement == Spec => ImplementsLedger
<1>1. Init => Promise!Init
  <2> SUFFICES ASSUME Init PROVE Promise!Init
    OBVIOUS
  <2>1. \A o \in Orders : Phase(o) = "new"
    BY DEF Init, Phase, Did
  <2>2. Stopped = {}
    BY EmptyLines
  <2> QED BY <2>1, <2>2, BalanceAssumption DEF Init, Promise!Init, Stopped
<1>2. ASSUME IInv, IInv', [Next]_vars
      PROVE  [Promise!Next]_(Promise!vars)
  <2>1. MailInv /\ OrderTypes
    BY <1>2 DEF IInv, StateTypes, OrderTypes
  <2>2. CASE CoordinatorRuns \/ \E m \in awaiting : CoordinatorGoesOn(m)
    BY <2>1, <2>2, CoordinatorForLedger
  <2>3. CASE AccountRuns
    <3>1. CASE DepositRefused
      <4>1. UNCHANGED <<order, balance, history>> /\ SendNothing
        BY <3>1 DEF DepositRefused, bankVars, accountVars
      <4> QED BY <2>1, <4>1, SendsStopNothing, NothingForLedger
    <3> QED BY <1>2, <2>3, <3>1, WithdrawForLedger, CreditForLedger DEF AccountRuns, Promise!Next
  <2>4. CASE \/ \E m \in timers : RetryFires(m)
             \/ \E a \in Actors : \E m \in mailbox[a].running : HandlerReturns(a, m) \/ HandlerThrows(a, m)
             \/ \E a \in Actors : \E m \in mailbox[a].settling : Continue(a, m)
             \/ \E m \in failures : SupervisorResumes(m)
             \/ \E a \in Accounts : openAccount(a)
    BY <2>1, <2>4, DeliveryForLedger
  <2>5. ASSUME NEW a \in Accounts, StopAccount(a) PROVE Promise!Next
    BY <1>2, <2>5, StopForLedger DEF Promise!Next
  <2>6. ASSUME NEW o \in Orders, transfer(o) \/ depositOrWithdraw(o) PROVE Promise!Next
    BY <1>2, <2>6, PlaceForLedger DEF Promise!Next
  <2>7. CASE UNCHANGED vars
    <3>1. UNCHANGED <<order, balance, history, mailbox>>
      BY <2>7 DEF vars, turnVars, bankVars, accountVars
    <3> QED BY <3>1, NothingForLedger DEF Stopped
  <2> QED BY <1>2, <2>2, <2>3, <2>4, <2>5, <2>6, <2>7 DEF Next, EventLoop, Clients
<1> QED BY <1>1, <1>2, Invariance, PTL DEF Spec, ImplementsLedger, Promise!Spec

-----------------------------------------------------------------------------
(* Once, and not both                                                       *)

\* No order has an operation carried out twice, nor is given and returned.
OnceInv ==
  /\ \A c, d \in Done : c.id = d.id /\ c.kind = d.kind => c = d
  /\ \A o \in Orders : ~(DoneFor(o, "deposit") /\ DoneFor(o, "refund"))

LEMMA NothingDone ==
  ASSUME OnceInv, history' = history
  PROVE  OnceInv'
<1>1. Done' = Done
  BY SameHistory
<1> QED BY <1>1 DEF OnceInv, DoneFor

LEMMA OneMoreDone ==
  ASSUME IInv, OnceInv, begun # << >>, NEW m, m = Current, m.kind \in Operations,
         Done' = Done \cup {m}
  PROVE  OnceInv'
<1>1. /\ m.id \in Orders /\ order[m.id] # None /\ ~DoneFor(m.id, m.kind)
  BY FirstOfItsKind
<1>2. CASE order[m.id].kind = "transfer"
  <2>1. PICK x \in awaiting : /\ x.kind \in DOMAIN OperationOf
                              /\ OperationOf[x.kind] = m.kind /\ Carries(x, m.id)
    BY <1>2, FirstOfItsKind
  <2>2. /\ m.kind = "deposit" => x.kind = "attemptDeposit"
        /\ m.kind = "refund" => x.kind = "processRefund"
    BY <2>1, KindsApart
  <2>3. /\ m.kind = "deposit" => ~DoneFor(m.id, "refund")
        /\ m.kind = "refund" => ~DoneFor(m.id, "deposit")
    BY <2>1, <2>2 DEF Carries
  <2> QED BY <1>1, <2>3 DEF OnceInv, DoneFor
<1>3. CASE order[m.id].kind # "transfer"
  <2>1. \A k : ~DoneFor(m.id, k)
    BY <1>3, FirstOfItsKind
  <2> QED BY <1>1, <2>1 DEF OnceInv, DoneFor
<1> QED BY <1>2, <1>3

(***************************************************************************)
(* Each account carries out an operation for an order once, over retries,  *)
(* timers and resumed mailboxes, and no order both deposits and refunds.   *)
(***************************************************************************)
THEOREM OnceAndNotBoth == Spec => []OnceInv
<1>1. Init => OnceInv
  BY EmptyLines DEF OnceInv, DoneFor
<1>2. ASSUME IInv, OnceInv, [Next]_vars
      PROVE  OnceInv'
  <2>1. CASE withdraw
    <3>0. PICK m : m = Current
      OBVIOUS
    <3>1. PICK a : a = Target(m)
      OBVIOUS
    <3>2. /\ begun # << >> /\ m.kind = "withdraw" /\ m.kind \in Operations
          /\ IF order[m.id].amount > balance[a] THEN UNCHANGED accountVars
             ELSE CarryOut(a, balance[a] - order[m.id].amount)
      BY <2>1, <3>0, <3>1 DEF withdraw, Runs, Current, Operations
    <3>3. CASE order[m.id].amount > balance[a]
      BY <1>2, <3>2, <3>3, NothingDone DEF accountVars
    <3>4. CASE ~(order[m.id].amount > balance[a])
      <4> DEFINE amount == balance[a] - order[m.id].amount
      <4>1. amount \in Nat /\ CarryOut(a, amount)
        BY <1>2, <3>0, <3>1, <3>2, <3>4, HandlerRuns, AmountOf
      <4> HIDE DEF amount
      <4> QED BY <1>2, <3>0, <3>1, <3>2, <4>1, CarriedOut, OneMoreDone
    <3> QED BY <3>3, <3>4
  <2>2. CASE Credit
    <3>0. PICK m : m = Current
      OBVIOUS
    <3>1. PICK a : a = Target(m)
      OBVIOUS
    <3> DEFINE amount == balance[a] + order[m.id].amount
    <3>2. /\ begun # << >> /\ m.kind \in {"deposit", "refund"} /\ m.kind \in Operations
          /\ CarryOut(a, amount)
      BY <2>2, <3>0, <3>1 DEF Credit, Runs, Current, Operations
    <3>3. amount \in Nat
      BY <1>2, <3>0, <3>1, <3>2, HandlerRuns, AmountOf
    <3> HIDE DEF amount
    <3> QED BY <1>2, <3>0, <3>1, <3>2, <3>3, CarriedOut, OneMoreDone
  <2>3. ASSUME ~withdraw, ~Credit PROVE history' = history
    <3>1. CASE CoordinatorRuns
      BY <3>1 DEF CoordinatorRuns, registerAccount, InitiateRefused, initiateTransfer,
           recordPendingTransfer, attemptDeposit, handleDepositFailure, processRefund,
           completeTransfer, accountVars
    <3>2. CASE AccountRuns
      BY <2>3, <3>2 DEF AccountRuns, DepositRefused, accountVars
    <3>3. CASE \E m \in awaiting : CoordinatorGoesOn(m)
      BY <3>3 DEF CoordinatorGoesOn, Withdrawn, NotWithdrawn, Deposited, NotDeposited, Refunded,
                  GoesOn, accountVars
    <3>4. CASE \/ \E m \in timers : RetryFires(m)
               \/ \E a \in Actors : \E m \in mailbox[a].running : HandlerReturns(a, m) \/ HandlerThrows(a, m)
               \/ \E a \in Actors : \E m \in mailbox[a].settling : Continue(a, m)
               \/ \E m \in failures : SupervisorResumes(m)
      BY <3>4 DEF RetryFires, HandlerReturns, HandlerThrows, Continue, SupervisorResumes, accountVars
    <3>5. CASE Clients
      BY <3>5 DEF Clients, openAccount, StopAccount, transfer, depositOrWithdraw, accountVars
    <3>6. CASE UNCHANGED vars
      BY <3>6 DEF vars, accountVars
    <3> QED BY <1>2, <3>1, <3>2, <3>3, <3>4, <3>5, <3>6 DEF Next, EventLoop
  <2> QED BY <1>2, <2>1, <2>2, <2>3, NothingDone
<1> QED BY <1>1, <1>2, Invariance, PTL DEF Spec

-----------------------------------------------------------------------------
(* A state at rest                                                          *)

HasAnswer(m) == \E ok \in BOOLEAN : <<AskedBy(m), ok>> \in answers

\* The operation that m awaits is in line or under way, or it was answered.
Pursued(m) == AskedBy(m) \in Contents(mailbox[Target(AskedBy(m))]) \/ HasAnswer(m)

NeverAsleep == \A a \in Actors : Awake(mailbox[a])
SuspendedByFailure == \A a \in Actors : mailbox[a].suspended => \E m \in failures : Target(m) = a

(***************************************************************************)
(* What may hold a call up: a message that could be handled has a dispatch *)
(* loop, a suspended actor a failure that its supervisor is about to       *)
(* handle, and a step that awaits an operation will hear of it, if the     *)
(* mailbox it is in goes on.                                               *)
(***************************************************************************)
RestInv == NeverAsleep /\ SuspendedByFailure /\ \A m \in awaiting : Pursued(m)

\* The event loop has nothing to do: no action of EventLoop is possible.
AtRest ==
  /\ Quiet /\ failures = {} /\ timers = {}
  /\ \A a \in Actors : mailbox[a].running \subseteq awaiting
  /\ \A m \in awaiting : ~HasAnswer(m)

\* Every mailbox gains at most, and none is suspended.
MailGrows ==
  \A a \in Actors :
    /\ Awake(mailbox'[a])
    /\ mailbox'[a].suspended => mailbox[a].suspended
    /\ Contents(mailbox[a]) \subseteq Contents(mailbox'[a])

LEMMA OneGrows ==
  ASSUME MailInv, NeverAsleep, NEW a \in Actors, NEW c,
         Awake(c), c.suspended => mailbox[a].suspended, Contents(mailbox[a]) \subseteq Contents(c),
         mailbox' = [mailbox EXCEPT ![a] = c]
  PROVE  MailGrows /\ mailbox'[a] = c
<1>1. mailbox'[a] = c /\ \A b \in Actors : b # a => mailbox'[b] = mailbox[b]
  BY DEF MailInv
<1> QED BY <1>1 DEF MailGrows, NeverAsleep

LEMMA NothingGrows ==
  ASSUME NeverAsleep, mailbox' = mailbox
  PROVE  MailGrows
BY DEF MailGrows, NeverAsleep

LEMMA SendGrows ==
  ASSUME MailInv, NeverAsleep, NEW a \in Actors, NEW m, Send(a, m)
  PROVE  MailGrows /\ (~mailbox[a].closed => m \in Contents(mailbox'[a]))
<1>1. CASE mailbox[a].closed
  BY <1>1, NothingGrows DEF Send, SendNothing
<1>2. CASE ~mailbox[a].closed
  <2> DEFINE b == mailbox[a]
             M == Calls \cup {m}
             c == Sent(b, m)
  <2>1. b \in MailboxOf(M) /\ m \in M /\ Awake(b) /\ ~b.closed
    BY <1>2, MailParts, LargerMailbox DEF NeverAsleep
  <2>2. mailbox' = [mailbox EXCEPT ![a] = c]
    BY <1>2 DEF Send, Becomes
  <2> HIDE DEF b, M
  <2>3. Awake(c) /\ c.suspended = b.suspended /\ Contents(c) = Contents(b) \cup {m}
    BY <2>1, SentAdds, StaysAwake
  <2> HIDE DEF c
  <2> QED BY <2>2, <2>3, OneGrows DEF b
<1> QED BY <1>1, <1>2

LEMMA SendBothGrows ==
  ASSUME MailInv, NeverAsleep, NEW m, NEW n, SendBoth(m, n)
  PROVE  MailGrows
<1> DEFINE b == mailbox[Coordinator]
           M == Calls \cup {m, n}
           c == Sent(b, m)
           d == Sent(c, n)
<1>1. Coordinator \in Actors
  BY DEF Actors
<1>2. b \in MailboxOf(M) /\ m \in M /\ n \in M /\ Awake(b) /\ ~b.closed
  BY <1>1, MailParts, LargerMailbox DEF NeverAsleep, MailInv
<1>3. mailbox' = [mailbox EXCEPT ![Coordinator] = d]
  BY DEF SendBoth, Becomes
<1> HIDE DEF b, M
<1>4. /\ Awake(c) /\ c.suspended = b.suspended /\ Contents(c) = Contents(b) \cup {m}
      /\ c \in MailboxOf(M) /\ ~c.closed
  BY <1>2, SentAdds, StaysAwake
<1> HIDE DEF c
<1>5. Awake(d) /\ d.suspended = c.suspended /\ Contents(d) = Contents(c) \cup {n}
  BY <1>2, <1>4, SentAdds, StaysAwake
<1> HIDE DEF d
<1> QED BY <1>1, <1>3, <1>4, <1>5, OneGrows DEF b

\* A dispatch loop goes on, or is started by resume().
LEMMA LoopGrows ==
  ASSUME MailInv, NeverAsleep, NEW a \in Actors, NEW q, NEW m,
         NEW c \in {Continued(mailbox[a], m), Resumed(mailbox[a])}, Becomes(a, q, c)
  PROVE  /\ MailGrows
         /\ c = Resumed(mailbox[a]) => ~mailbox'[a].suspended
<1> DEFINE b == mailbox[a]
<1>1. b \in MailboxOf(Calls) /\ Awake(b) /\ mailbox' = [mailbox EXCEPT ![a] = c]
  BY MailParts DEF NeverAsleep, Becomes
<1> HIDE DEF b
<1>2. Awake(Continued(b, m)) /\ Continued(b, m).suspended = b.suspended
      /\ Contents(Continued(b, m)) = Contents(b)
  BY <1>1, ContinuedMoves, StaysAwake
<1>3. Awake(Resumed(b)) /\ Resumed(b).suspended = FALSE /\ Contents(Resumed(b)) = Contents(b)
  BY <1>1, ResumedMoves, StaysAwake
<1>4. Awake(c) /\ (c.suspended => b.suspended) /\ Contents(b) \subseteq Contents(c)
  BY <1>2, <1>3 DEF b
<1>5. MailGrows /\ mailbox'[a] = c
  BY <1>1, <1>4, OneGrows DEF b
<1> QED BY <1>3, <1>5 DEF b

LEMMA RestKept ==
  ASSUME IInv, RestInv, MailGrows, OrderKept, failures \subseteq failures',
         \A m \in awaiting' : \/ m \in awaiting /\ (HasAnswer(m) => HasAnswer(m)')
                              \/ Pursued(m)'
  PROVE  RestInv'
<1>1. CallTypes /\ MailInv /\ OrderTypes
  BY DEF IInv, CallInv, StateTypes, OrderTypes
<1>2. SuspendedByFailure'
  <2> SUFFICES ASSUME NEW a \in Actors, mailbox'[a].suspended
               PROVE  \E m \in failures' : Target(m)' = a
    BY DEF SuspendedByFailure
  <2>1. PICK m \in failures : Target(m) = a
    BY DEF MailGrows, RestInv, SuspendedByFailure
  <2>2. m \in Calls /\ Known(m)
    BY <1>1 DEF CallTypes
  <2> QED BY <2>1, <2>2, TargetKept
<1>3. ASSUME NEW m \in awaiting', m \in awaiting, HasAnswer(m) => HasAnswer(m)'
      PROVE  Pursued(m)'
  <2> DEFINE op == AskedBy(m)
  <2>1. op \in Calls /\ Known(op) /\ op.kind \in Operations
    BY <1>1, <1>3, AskedParts DEF CallTypes
  <2>2. Target(op)' = Target(op) /\ Target(op) \in Actors
    BY <1>1, <2>1, TargetKept, Targets
  <2>3. op \in Contents(mailbox[Target(op)]) => op \in Contents(mailbox'[Target(op)'])
    BY <2>2 DEF MailGrows
  <2>4. Pursued(m)
    BY <1>3 DEF RestInv
  <2> QED BY <1>3, <2>3, <2>4 DEF Pursued
<1> QED BY <1>2, <1>3 DEF RestInv, MailGrows, NeverAsleep

LEMMA AskRests ==
  ASSUME IInv, RestInv, begun # << >>, NEW m, m = Current, m.kind \in DOMAIN OperationOf, Ask(m),
         order' = order, failures' = failures
  PROVE  RestInv'
<1> DEFINE op == AskedBy(m)
           a == Target(op)
<1>1. MailInv /\ OrderTypes /\ OrderKept /\ NeverAsleep
  BY SameOrders DEF IInv, StateTypes, OrderTypes, RestInv
<1>2. op \in Calls /\ Known(op) /\ op.kind \in Operations
  BY HandlerRuns, AskedParts
<1>3. a \in Actors /\ Target(op)' = a
  BY <1>1, <1>2, Targets, SameOrders
<1>4. Send(a, op) /\ awaiting' = awaiting \cup {m}
      /\ answers' = IF mailbox[a].closed THEN answers \cup {<<op, TRUE>>} ELSE answers
  BY DEF Ask
<1>5. MailGrows /\ (~mailbox[a].closed => op \in Contents(mailbox'[a]))
  BY <1>1, <1>3, <1>4, SendGrows
<1>6. Pursued(m)'
  <2>1. CASE mailbox[a].closed
    BY <1>4, <2>1 DEF Pursued, HasAnswer
  <2>2. CASE ~mailbox[a].closed
    BY <1>3, <1>5, <2>2 DEF Pursued
  <2> QED BY <2>1, <2>2
<1>7. \A x : HasAnswer(x) => HasAnswer(x)'
  BY <1>4 DEF HasAnswer
<1> QED BY <1>1, <1>4, <1>5, <1>6, <1>7, RestKept

\* A step that begins or answers no operation, and suspends nobody.
LEMMA QuietRests ==
  ASSUME IInv, RestInv, OrderKept, failures \subseteq failures', awaiting' \subseteq awaiting,
         answers' = answers,
         \/ mailbox' = mailbox
         \/ \E a \in Actors : \E m : Send(a, m)
         \/ \E m, n : SendBoth(m, n)
  PROVE  RestInv'
<1>1. MailInv /\ NeverAsleep
  BY DEF IInv, RestInv
<1>2. MailGrows
  BY <1>1, NothingGrows, SendGrows, SendBothGrows
<1>3. \A x : HasAnswer(x) => HasAnswer(x)'
  BY DEF HasAnswer
<1> QED BY <1>2, <1>3, RestKept

LEMMA CoordinatorRests ==
  ASSUME IInv, RestInv, CoordinatorRuns
  PROVE  RestInv'
<1>1. order' = order /\ failures' = failures
  BY DEF CoordinatorRuns, registerAccount, InitiateRefused, initiateTransfer,
         recordPendingTransfer, attemptDeposit, handleDepositFailure, processRefund,
         completeTransfer, bankVars, callVars
<1>2. OrderKept /\ Coordinator \in Actors
  BY <1>1, SameOrders DEF Actors
<1>3. CASE \/ begun # << >> /\ Current.kind \in DOMAIN OperationOf /\ Ask(Current)
  BY <1>1, <1>3, AskRests
<1>4. CASE /\ SendNothing \/ \E m : Send(Coordinator, m)
           /\ awaiting' = awaiting /\ answers' = answers
  BY <1>1, <1>2, <1>4, QuietRests DEF SendNothing
<1>5. CASE registerAccount \/ InitiateRefused \/ recordPendingTransfer \/ completeTransfer
  BY <1>4, <1>5, Zenon DEF registerAccount, InitiateRefused, recordPendingTransfer, completeTransfer,
                    callVars
<1>6. CASE handleDepositFailure
  BY <1>4, <1>6, Zenon DEF handleDepositFailure, Retry, GiveUp
<1>7. CASE initiateTransfer
  BY <1>3, <1>7, KindsApart DEF initiateTransfer, Runs, Current
<1>8. CASE attemptDeposit
  BY <1>3, <1>4, <1>8, KindsApart DEF attemptDeposit, Runs, Current
<1>9. CASE processRefund
  BY <1>3, <1>4, <1>9, KindsApart DEF processRefund, Runs, Current
<1> QED BY <1>5, <1>6, <1>7, <1>8, <1>9 DEF CoordinatorRuns

LEMMA GoesOnRests ==
  ASSUME IInv, RestInv, NEW m \in awaiting, CoordinatorGoesOn(m)
  PROVE  RestInv'
<1>1. PICK ok \in BOOLEAN : GoesOn(m, ok)
  BY DEF CoordinatorGoesOn, Withdrawn, NotWithdrawn, Deposited, NotDeposited, Refunded
<1>2. /\ awaiting' = awaiting \ {m} /\ answers' = answers \ {<<AskedBy(m), ok>>}
      /\ order' = order /\ failures' = failures
  BY <1>1 DEF GoesOn
<1>3. CallTypes /\ MailInv /\ NeverAsleep /\ OrderKept /\ Coordinator \in Actors
  BY <1>2, SameOrders DEF IInv, CallInv, RestInv, Actors
<1>4. mailbox' = mailbox \/ (\E c : Send(Coordinator, c)) \/ (\E c, d : SendBoth(c, d))
  <2>1. CASE NotWithdrawn(m)
    BY <2>1 DEF NotWithdrawn, turnVars
  <2> QED BY <2>1, Zenon DEF CoordinatorGoesOn, Withdrawn, Deposited, NotDeposited, Refunded
<1>5. MailGrows
  BY <1>3, <1>4, NothingGrows, SendGrows, SendBothGrows
<1>6. ASSUME NEW x \in awaiting', HasAnswer(x) PROVE HasAnswer(x)'
  <2>1. AskedBy(x) # AskedBy(m)
    BY <1>2, <1>3, <1>6, AskedOnce DEF CallTypes
  <2>2. PICK b \in BOOLEAN : <<AskedBy(x), b>> \in answers
    BY <1>6 DEF HasAnswer
  <2>3. <<AskedBy(x), b>> # <<AskedBy(m), ok>>
    BY <2>1
  <2> QED BY <1>2, <2>2, <2>3 DEF HasAnswer
<1>7. \A x \in awaiting' : x \in awaiting /\ (HasAnswer(x) => HasAnswer(x)')
  BY <1>2, <1>6
<1> QED BY <1>2, <1>3, <1>5, <1>7, RestKept

LEMMA EndRests ==
  ASSUME IInv, RestInv, NEW a \in Actors, NEW m \in mailbox[a].running,
         HandlerReturns(a, m) \/ HandlerThrows(a, m)
  PROVE  RestInv'
<1>1. PICK ok \in BOOLEAN :
        /\ Reply(m, ok)
        /\ mailbox' = [mailbox EXCEPT ![a] = IF ok THEN Ended(@, m) ELSE Failed(@, m)]
        /\ failures' = IF ok THEN failures ELSE failures \cup {m}
  <2>1. CASE HandlerReturns(a, m)
    BY <2>1 DEF HandlerReturns
  <2>2. CASE HandlerThrows(a, m)
    BY <2>2 DEF HandlerThrows
  <2> QED BY <2>1, <2>2
<1>2. awaiting' = awaiting /\ order' = order
  BY DEF HandlerReturns, HandlerThrows, bankVars
<1>3. CallTypes /\ MailInv /\ OrderTypes /\ NeverAsleep /\ SuspendedByFailure
  BY DEF IInv, CallInv, StateTypes, OrderTypes, RestInv
<1>4. \A x : Target(x)' = Target(x)
  BY <1>2, SameOrders
<1> DEFINE b == mailbox[a]
           c == IF ok THEN Ended(b, m) ELSE Failed(b, m)
<1>5. b \in MailboxOf(Calls) /\ m \in Calls /\ m \in b.running /\ Awake(b) /\ Target(m) = a
  BY <1>3, MailParts DEF NeverAsleep, CallsOf
<1>6. mailbox' = [mailbox EXCEPT ![a] = c]
  BY <1>1
<1>7. mailbox'[a] = c /\ \A x \in Actors : x # a => mailbox'[x] = mailbox[x]
  BY <1>3, <1>6 DEF MailInv
<1> HIDE DEF b
<1>8. /\ Awake(c) /\ Contents(b) \subseteq Contents(c) \cup {m}
      /\ ok => c.suspended = b.suspended
  <2>1. Awake(Ended(b, m)) /\ Awake(Failed(b, m))
    BY <1>5, StaysAwake
  <2>2. /\ Ended(b, m).queue = b.queue /\ Ended(b, m).running = b.running \ {m}
        /\ Ended(b, m).suspended = b.suspended
    BY <1>5, EndedRemoves
  <2>3. Contents(b) \subseteq Contents(Failed(b, m)) \cup {m}
    BY <1>5, FailedRemoves
  <2>4. Contents(b) \subseteq Contents(Ended(b, m)) \cup {m}
    BY <2>2 DEF Contents, Queue
  <2> QED BY <2>1, <2>2, <2>3, <2>4
<1> HIDE DEF c
<1>9. NeverAsleep'
  BY <1>3, <1>7, <1>8 DEF NeverAsleep
<1>10. SuspendedByFailure'
  <2> SUFFICES ASSUME NEW x \in Actors, mailbox'[x].suspended
               PROVE  \E y \in failures' : Target(y)' = x
    BY DEF SuspendedByFailure
  <2>1. CASE mailbox[x].suspended
    <3>1. PICK y \in failures : Target(y) = x
      BY <1>3, <2>1 DEF SuspendedByFailure
    <3> QED BY <1>1, <1>4, <3>1
  <2>2. CASE ~mailbox[x].suspended
    <3>1. x = a /\ ~ok
      BY <1>7, <1>8, <2>2 DEF b
    <3> QED BY <1>1, <1>4, <1>5, <3>1
  <2> QED BY <2>1, <2>2
<1>11. ASSUME NEW x \in awaiting' PROVE Pursued(x)'
  <2> DEFINE op == AskedBy(x)
  <2>1. x \in awaiting /\ Pursued(x)
    BY <1>2 DEF RestInv
  <2>2. op \in Calls /\ Known(op) /\ Target(op)' = Target(op) /\ Target(op) \in Actors
    BY <1>3, <1>4, <2>1, AskedParts, Targets DEF CallTypes
  <2>3. CASE op = m
    <3>1. <<op, ok>> \in answers'
      BY <1>1, <2>1, <2>3 DEF Reply, Awaited
    <3> QED BY <3>1 DEF Pursued, HasAnswer
  <2>4. CASE op # m
    <3>1. op \in Contents(mailbox[Target(op)]) => op \in Contents(mailbox'[Target(op)])
      BY <1>7, <1>8, <2>2, <2>4 DEF b
    <3>2. HasAnswer(x) => HasAnswer(x)'
      BY <1>1 DEF HasAnswer, Reply
    <3> QED BY <2>1, <2>2, <3>1, <3>2 DEF Pursued
  <2> QED BY <2>3, <2>4
<1> QED BY <1>9, <1>10, <1>11 DEF RestInv

LEMMA LoopRests ==
  ASSUME IInv, RestInv, NEW a \in Actors, NEW m, Continue(a, m)
  PROVE  RestInv'
<1>1. /\ Becomes(a, mailbox[a].queue, Continued(mailbox[a], m))
      /\ order' = order /\ awaiting' = awaiting /\ answers' = answers /\ failures' = failures
  BY DEF Continue, callVars, bankVars
<1>2. MailInv /\ NeverAsleep /\ OrderKept
  BY <1>1, SameOrders DEF IInv, RestInv
<1>3. MailGrows
  BY <1>1, <1>2, LoopGrows
<1>4. \A x : HasAnswer(x) => HasAnswer(x)'
  BY <1>1 DEF HasAnswer
<1> QED BY <1>1, <1>2, <1>3, <1>4, RestKept

\* The actor of the failure that leaves is no longer suspended.
LEMMA ResumeRests ==
  ASSUME IInv, RestInv, NEW m \in failures, SupervisorResumes(m)
  PROVE  RestInv'
<1> DEFINE a == Target(m)
<1>1. /\ Becomes(a, mailbox[a].queue, Resumed(mailbox[a])) /\ failures' = failures \ {m}
      /\ order' = order /\ awaiting' = awaiting /\ answers' = answers
  BY DEF SupervisorResumes, bankVars
<1>2. MailInv /\ NeverAsleep /\ SuspendedByFailure /\ CallTypes /\ OrderTypes
  BY DEF IInv, CallInv, StateTypes, OrderTypes, RestInv
<1>3. a \in Actors
  BY <1>2, Targets DEF CallTypes
<1>4. MailGrows /\ ~mailbox'[a].suspended
  BY <1>1, <1>2, <1>3, LoopGrows
<1>5. \A x : Target(x)' = Target(x)
  BY <1>1, SameOrders
<1>6. SuspendedByFailure'
  <2> SUFFICES ASSUME NEW x \in Actors, mailbox'[x].suspended
               PROVE  \E y \in failures' : Target(y)' = x
    BY DEF SuspendedByFailure
  <2>1. x # a /\ mailbox[x].suspended
    BY <1>4 DEF MailGrows
  <2>2. PICK y \in failures : Target(y) = x
    BY <1>2, <2>1 DEF SuspendedByFailure
  <2> QED BY <1>1, <1>5, <2>1, <2>2
<1>7. ASSUME NEW x \in awaiting' PROVE Pursued(x)'
  <2> DEFINE op == AskedBy(x)
  <2>1. x \in awaiting /\ Pursued(x)
    BY <1>1 DEF RestInv
  <2>2. Target(op)' = Target(op) /\ Target(op) \in Actors
    BY <1>2, <1>5, <2>1, AskedParts, Targets DEF CallTypes
  <2>3. HasAnswer(x) => HasAnswer(x)'
    BY <1>1 DEF HasAnswer
  <2> QED BY <1>4, <2>1, <2>2, <2>3 DEF Pursued, MailGrows
<1> QED BY <1>4, <1>6, <1>7 DEF RestInv, MailGrows, NeverAsleep

LEMMA StopRests ==
  ASSUME IInv, RestInv, NEW a \in Accounts, StopAccount(a)
  PROVE  RestInv'
<1> DEFINE b == mailbox[a]
           c == Closed(b)
<1>1. /\ a \in Actors /\ mailbox' = [mailbox EXCEPT ![a] = c]
      /\ order' = order /\ awaiting' = awaiting /\ answers' = answers /\ failures' = failures
  BY DEF StopAccount, bankVars, callVars, Actors
<1>2. MailInv /\ NeverAsleep /\ OrderKept
  BY <1>1, SameOrders DEF IInv, RestInv
<1>3. b \in MailboxOf(Calls) /\ Awake(b)
  BY <1>1, <1>2, MailParts DEF NeverAsleep
<1> HIDE DEF b
<1>4. Awake(c) /\ c.suspended = b.suspended /\ Contents(c) = Contents(b)
  BY <1>3, StaysAwake DEF Closed, MailboxOf, Contents, Queue
<1> HIDE DEF c
<1>5. MailGrows
  BY <1>1, <1>2, <1>4, OneGrows DEF b
<1>6. \A x : HasAnswer(x) => HasAnswer(x)'
  BY <1>1 DEF HasAnswer
<1> QED BY <1>1, <1>2, <1>5, <1>6, RestKept

LEMMA ClientRests ==
  ASSUME IInv, RestInv,
         \/ \E a \in Accounts : openAccount(a)
         \/ \E o \in Orders : transfer(o) \/ depositOrWithdraw(o)
  PROVE  RestInv'
<1>1. failures' = failures /\ awaiting' = awaiting /\ answers' = answers
  BY DEF openAccount, transfer, depositOrWithdraw, callVars
<1>2. Coordinator \in Actors /\ \A r \in Requests : r.to \in Actors
  BY RequestsAssumption DEF Actors
<1>3. (\E a \in Actors : \E m : Send(a, m)) /\ OrderKept
  <2>1. CASE \E a \in Accounts : openAccount(a)
    BY <1>2, <2>1, SameOrders DEF openAccount
  <2>2. ASSUME NEW o \in Orders, transfer(o) \/ depositOrWithdraw(o)
        PROVE  (\E a \in Actors : \E m : Send(a, m)) /\ OrderKept
    <3>1. PICK r \in Requests : order[o] = None /\ order' = [order EXCEPT ![o] = r]
      BY <2>2 DEF transfer, depositOrWithdraw, IsNext
    <3>2. OrderKept
      BY <3>1 DEF OrderKept, IInv, StateTypes
    <3>3. \E a \in Actors : \E m : Send(a, m)
      BY <1>2, <2>2 DEF transfer, depositOrWithdraw
    <3> QED BY <3>2, <3>3
  <2> QED BY <2>1, <2>2
<1> QED BY <1>1, <1>3, QuietRests

LEMMA RestInductive == Spec => [](IInv /\ RestInv)
<1>1. Init => RestInv
  <2> SUFFICES ASSUME Init PROVE RestInv
    OBVIOUS
  <2>1. /\ \A a \in Actors : mailbox[a] = EmptyMailbox
        /\ awaiting = {}
    BY DEF Init
  <2>2. EmptyMailbox.queue = << >> /\ EmptyMailbox.suspended = FALSE
    BY DEF EmptyMailbox
  <2> QED BY <2>1, <2>2 DEF RestInv, NeverAsleep, SuspendedByFailure, Awake, isReceivable
<1>2. ASSUME IInv, RestInv, [Next]_vars PROVE RestInv'
  <2>1. CASE CoordinatorRuns
    BY <1>2, <2>1, CoordinatorRests
  <2>2. CASE AccountRuns
    <3>1. /\ mailbox' = mailbox /\ order' = order /\ awaiting' = awaiting /\ answers' = answers
          /\ failures' = failures
      BY <2>2 DEF AccountRuns, withdraw, DepositRefused, Credit, SendNothing, callVars, bankVars
    <3> QED BY <1>2, <3>1, SameOrders, QuietRests
  <2>3. ASSUME NEW m \in awaiting, CoordinatorGoesOn(m) PROVE RestInv'
    BY <1>2, <2>3, GoesOnRests
  <2>4. ASSUME NEW m \in timers, RetryFires(m) PROVE RestInv'
    <3>1. /\ Send(Coordinator, m) /\ Coordinator \in Actors
          /\ order' = order /\ awaiting' = awaiting /\ answers' = answers /\ failures' = failures
      BY <2>4 DEF RetryFires, bankVars, Actors
    <3> QED BY <1>2, <3>1, SameOrders, QuietRests
  <2>5. ASSUME NEW a \in Actors, NEW m \in mailbox[a].running,
               HandlerReturns(a, m) \/ HandlerThrows(a, m)
        PROVE  RestInv'
    BY <1>2, <2>5, EndRests
  <2>6. ASSUME NEW a \in Actors, NEW m \in mailbox[a].settling, Continue(a, m) PROVE RestInv'
    BY <1>2, <2>6, LoopRests
  <2>7. ASSUME NEW m \in failures, SupervisorResumes(m) PROVE RestInv'
    BY <1>2, <2>7, ResumeRests
  <2>8. CASE Clients
    BY <1>2, <2>8, StopRests, ClientRests DEF Clients
  <2>9. CASE UNCHANGED vars
    <3>1. /\ mailbox' = mailbox /\ order' = order /\ awaiting' = awaiting /\ answers' = answers
          /\ failures' = failures
      BY <2>9 DEF vars, turnVars, callVars, bankVars
    <3> QED BY <1>2, <3>1, SameOrders, QuietRests
  <2> QED BY <1>2, <2>1, <2>2, <2>3, <2>4, <2>5, <2>6, <2>7, <2>8, <2>9 DEF Next, EventLoop
<1> QED BY <1>1, <1>2, Invariance, PTL DEF Spec

(***************************************************************************)
(* When the event loop has nothing left to do, no step awaits anything, no *)
(* call lies in the queue of an open actor, and every transfer is over,    *)
(* its amount given, returned or met by a stopped account: unless a step   *)
(* awaits an operation that was in the queue of an account when it was     *)
(* stopped.  This is the safety half of TransfersEnd: whatever a transfer  *)
(* waits for, short of that, is something the event loop can do.           *)
(***************************************************************************)
EndsAtRest ==
  AtRest =>
    \/ Stranded
    \/ /\ awaiting = {}
       /\ \A a \in Actors : mailbox[a].queue # << >> => mailbox[a].closed
       /\ \A o \in Orders : IsTransfer(o) =>
            pendingTransfers[o] = None /\ (Taken(o) => Settled(o) \/ HasStoppedAccount(o))

\* The bank never comes to rest early, for any orders, accounts and attempts.
THEOREM TransfersEndAtRest == Spec => []EndsAtRest
<1>1. ASSUME IInv, RestInv, AtRest, ~Stranded
      PROVE  /\ awaiting = {}
             /\ \A a \in Actors : mailbox[a].queue # << >> => mailbox[a].closed
             /\ \A o \in Orders : IsTransfer(o) =>
                  pendingTransfers[o] = None /\ (Taken(o) => Settled(o) \/ HasStoppedAccount(o))
  <2>1. MailInv /\ OrderTypes /\ CallTypes /\ history \in [Accounts -> SUBSET Calls]
    BY <1>1 DEF IInv, CallInv, StateTypes, OrderTypes
  <2>2. Begun = {} /\ timers = {} /\ failures = {} /\ \A a \in Actors : mailbox[a].settling = {}
    BY <1>1, QuietTurn DEF AtRest, Quiet
  <2>3. ASSUME NEW a \in Actors, ~mailbox[a].closed, mailbox[a].running = {}
        PROVE  mailbox[a].queue = << >>
    <3>1. ~mailbox[a].suspended
      BY <1>1, <2>2 DEF RestInv, SuspendedByFailure
    <3>2. Awake(mailbox[a])
      BY <1>1 DEF RestInv, NeverAsleep
    <3> QED BY <2>2, <2>3, <3>1, <3>2 DEF Awake, isReceivable
  <2>4. ASSUME NEW a \in Accounts PROVE a \in Actors /\ mailbox[a].running = {}
    <3>1. a \in Actors /\ a # Coordinator
      BY NamesAssumption DEF Actors
    <3>2. \A m \in mailbox[a].running : m \in awaiting /\ m.kind \in Operations
      <4>1. \A m \in mailbox[a].running : m \in Calls /\ Known(m) /\ Target(m) = a
        BY <2>1, <3>1, MailParts DEF CallsOf
      <4>2. \A m \in mailbox[a].running : m \in awaiting
        BY <1>1, <3>1 DEF AtRest
      <4> QED BY <2>1, <3>1, <4>1, <4>2, Targets
    <3> QED BY <2>1, <3>1, <3>2, KindsApart DEF CallTypes
  <2>5. awaiting = {}
    <3> SUFFICES ASSUME NEW m \in awaiting PROVE FALSE
      OBVIOUS
    <3> DEFINE op == AskedBy(m)
    <3>1. op \in Calls /\ Known(op) /\ op.kind \in Operations
      BY <2>1, AskedParts DEF CallTypes
    <3>2. PICK a \in Accounts : a = Target(op)
      BY <2>1, <3>1, Targets
    <3>3. op \in Contents(mailbox[a])
      BY <1>1, <3>2 DEF AtRest, RestInv, Pursued
    <3>4. op \in Queue(mailbox[a])
      BY <2>4, <3>3 DEF Contents
    <3>5. ~mailbox[a].closed
      BY <1>1, <3>2, <3>4 DEF Stranded
    <3>6. mailbox[a].queue = << >>
      BY <2>3, <2>4, <3>5
    <3>7. Len(<< >>) = 0 /\ 1..0 = {}
      OBVIOUS
    <3> QED BY <3>4, <3>6, <3>7 DEF Queue
  <2>6. ASSUME NEW a \in Actors, ~mailbox[a].closed PROVE mailbox[a].queue = << >>
    <3>1. mailbox[a].running = {}
      BY <1>1, <2>5 DEF AtRest
    <3> QED BY <2>3, <2>6, <3>1
  <2>7. ASSUME NEW o \in Orders PROVE StepsFor(o) = {}
    <3> SUFFICES ASSUME NEW m \in Lined, m.kind \in Steps PROVE FALSE
      BY <2>2, <2>5 DEF StepsFor
    <3>1. Target(m) = Coordinator
      BY DEF Target, Steps
    <3>2. m \in Queue(mailbox[Coordinator])
      BY <2>1, <2>2, <3>1, WhereCallsAre
    <3>3. mailbox[Coordinator].queue = << >>
      BY <2>1, <2>6 DEF MailInv, Actors
    <3>4. Len(<< >>) = 0 /\ 1..0 = {}
      OBVIOUS
    <3> QED BY <3>2, <3>3, <3>4 DEF Queue
  <2>8. ASSUME NEW o \in Orders, IsTransfer(o)
        PROVE  pendingTransfers[o] = None /\ (Taken(o) => Settled(o) \/ HasStoppedAccount(o))
    <3>1. Over(o)
      BY <1>1, <2>7, <2>8 DEF IInv, TransferInv, Carries
    <3>2. Taken(o) => MayEnd(o)
      BY <2>1, <3>1, DidIsDone DEF Over, Taken
    <3>3. MayEnd(o) => Settled(o) \/ HasStoppedAccount(o)
      BY <2>1, <2>8, DidIsDone DEF MayEnd, Settled, HasStoppedAccount, IsTransfer, Stopped
    <3> QED BY <3>1, <3>2, <3>3 DEF Over
  <2> QED BY <2>5, <2>6, <2>8
<1>2. IInv /\ RestInv => EndsAtRest
  BY <1>1 DEF EndsAtRest
<1> QED BY <1>2, RestInductive, PTL
=============================================================================
