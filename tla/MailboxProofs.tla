------------------------------ MODULE MailboxProofs ------------------------------
(***************************************************************************)
(* Theorems about ArrayMailbox and BoundedMailbox, for every number of     *)
(* messages sent, every set of capacities and every overflow policy, and   *)
(* the lemmas both rest on.  Sound(q, r, o) is what holds of a queue       *)
(* q, the handlers r that run and the promises o, at every point of the    *)
(* code between two of the steps a send, a dispatch or an answer consist   *)
(* of; each lemma of the first part is one of those steps.                 *)
(***************************************************************************)
EXTENDS ArrayMailbox, BoundedMailbox, SequenceTheorems, TLAPS

Promises == [Message -> Answers \cup {"unsent", "pending"}]

Ascending(q) == \A i, j \in 1..Len(q) : i < j => q[i] < q[j]

Sound(q, r, o) ==
  /\ q \in Seq(Message)
  /\ r \subseteq Message
  /\ o \in Promises
  /\ Ascending(q)
  /\ Range(q) \cap r = {}
  /\ \A m \in Message : (o[m] = "pending") <=> (m \in Range(q) \cup r)
  /\ \A m \in Message, k \in Range(q) :
       (m \in r \/ o[m] \in {"resolved", "rejected"}) => m < k

\* m is the lowest number not sent yet, and nothing above it is sent.
IsFresh(o, m) ==
  /\ m \in Message
  /\ \A k \in Message : (o[k] = "unsent") <=> (k >= m)

\* The messages not sent yet are the highest numbers.
UnsentAreLast ==
  \A j, k \in Message : j < k /\ outcome[j] = "unsent" => outcome[k] = "unsent"

(***************************************************************************)
(* The inductive invariant of the state both mailboxes share.  The named   *)
(* properties of Mailbox follow from it (InvImplies below); what it adds   *)
(* to them is UnsentAreLast, which makes a new message the highest one.    *)
(***************************************************************************)
MailboxInv ==
  /\ closed \in BOOLEAN
  /\ suspended \in BOOLEAN
  /\ settling \subseteq Message
  /\ deadLetters \subseteq Message
  /\ Sound(queue, running, outcome)
  /\ UnsentAreLast
  /\ NoLostWakeup
  /\ DeadLettersTold

-----------------------------------------------------------------------------
(* Sequences *)

\* Shifting the head of an ascending queue.
LEMMA ShiftHead ==
  ASSUME NEW q \in Seq(Message), q # << >>, Ascending(q)
  PROVE  /\ Head(q) \in Message
         /\ Tail(q) \in Seq(Message)
         /\ Ascending(Tail(q))
         /\ Range(q) = {Head(q)} \cup Range(Tail(q))
         /\ \A k \in Range(Tail(q)) : Head(q) < k
<1>1. /\ Head(q) \in Message
      /\ Tail(q) \in Seq(Message)
      /\ Len(Tail(q)) = Len(q) - 1
      /\ \A i \in 1..Len(Tail(q)) : Tail(q)[i] = q[i + 1]
  BY HeadTailProperties
<1>2. Len(q) \in Nat \ {0} /\ Head(q) = q[1]
  BY EmptySeq
<1>3. Range(q) = {q[i] : i \in 1..Len(q)}
  BY RangeEquality
<1>4. Range(Tail(q)) = {Tail(q)[i] : i \in 1..Len(Tail(q))}
  BY <1>1, RangeEquality
<1>5. Ascending(Tail(q))
  BY <1>1, <1>2 DEF Ascending
<1>6. Range(q) = {Head(q)} \cup Range(Tail(q))
  <2>1. ASSUME NEW i \in 1..Len(q)
        PROVE  q[i] \in {Head(q)} \cup Range(Tail(q))
    <3>1. CASE i = 1
      BY <3>1, <1>2
    <3>2. CASE i # 1
      <4>1. i - 1 \in 1..Len(Tail(q)) /\ Tail(q)[i - 1] = q[i]
        BY <3>2, <1>1, <1>2
      <4> QED BY <4>1, <1>4
    <3> QED BY <3>1, <3>2
  <2>2. ASSUME NEW i \in 1..Len(Tail(q))
        PROVE  Tail(q)[i] \in Range(q)
    BY <1>1, <1>2, <1>3
  <2>3. Head(q) \in Range(q)
    BY <1>2, <1>3
  <2> QED BY <2>1, <2>2, <2>3, <1>3, <1>4
<1>7. ASSUME NEW i \in 1..Len(Tail(q))
      PROVE  Head(q) < Tail(q)[i]
  BY <1>1, <1>2 DEF Ascending
<1> QED BY <1>1, <1>5, <1>6, <1>7, <1>4

\* Pushing a message sent after everything that is queued.
LEMMA PushLast ==
  ASSUME NEW q \in Seq(Message), Ascending(q),
         NEW m \in Message, \A k \in Range(q) : k < m
  PROVE  /\ Append(q, m) \in Seq(Message)
         /\ Append(q, m) # << >>
         /\ Ascending(Append(q, m))
         /\ Range(Append(q, m)) = Range(q) \cup {m}
<1> DEFINE p == Append(q, m)
<1>1. /\ p \in Seq(Message)
      /\ p # << >>
      /\ Len(p) = Len(q) + 1
      /\ \A i \in 1..Len(q) : p[i] = q[i]
      /\ p[Len(q) + 1] = m
  BY AppendProperties
<1>2. Len(q) \in Nat
  BY LenProperties
<1>3. Range(q) = {q[i] : i \in 1..Len(q)}
  BY RangeEquality
<1>4. Range(p) = {p[i] : i \in 1..Len(p)}
  BY <1>1, RangeEquality
<1> HIDE DEF p
<1>5. \A i \in 1..Len(q) : q[i] < m
  BY <1>3
<1>6. Ascending(p)
  BY <1>1, <1>2, <1>5 DEF Ascending
<1>7. Range(p) = Range(q) \cup {m}
  <2>1. ASSUME NEW i \in 1..Len(p)
        PROVE  p[i] \in Range(q) \cup {m}
    <3>1. CASE i \in 1..Len(q)
      BY <3>1, <1>1, <1>3
    <3>2. CASE i = Len(q) + 1
      BY <3>2, <1>1
    <3> QED BY <3>1, <3>2, <1>1, <1>2
  <2>2. ASSUME NEW i \in 1..Len(q)
        PROVE  q[i] \in Range(p)
    BY <1>1, <1>2, <1>4
  <2>3. m \in Range(p)
    BY <1>1, <1>2, <1>4
  <2> QED BY <2>1, <2>2, <2>3, <1>3, <1>4
<1> QED BY <1>1, <1>6, <1>7 DEF p

-----------------------------------------------------------------------------
(* The steps of send, dispatch and deliver *)

LEMMA MessageIsNat == Message \subseteq Nat
BY MaxSendsAssumption DEF Message

LEMMA NotBelowItself == \A m \in Message : ~(m < m)
BY MaxSendsAssumption DEF Message

\* dispatch(): the head of the queue starts.
LEMMA DispatchSound ==
  ASSUME NEW q, NEW r, NEW o, Sound(q, r, o), q # << >>
  PROVE  Sound(Tail(q), r \cup {Head(q)}, o)
<1>1. /\ Head(q) \in Message
      /\ Tail(q) \in Seq(Message)
      /\ Ascending(Tail(q))
      /\ Range(q) = {Head(q)} \cup Range(Tail(q))
      /\ \A k \in Range(Tail(q)) : Head(q) < k
  BY ShiftHead DEF Sound
<1>2. Head(q) \notin Range(Tail(q))
  BY <1>1, NotBelowItself
<1> QED BY <1>1, <1>2 DEF Sound

\* The push of send(): a new message becomes the last one queued.
LEMMA PushSound ==
  ASSUME NEW q, NEW r, NEW o, Sound(q, r, o), NEW m, IsFresh(o, m)
  PROVE  /\ Sound(Append(q, m), r, [o EXCEPT ![m] = "pending"])
         /\ Append(q, m) # << >>
<1> DEFINE p == [o EXCEPT ![m] = "pending"]
<1>1. Range(q) \subseteq Message
  BY RangeOfSeq DEF Sound
<1>2. /\ m \in Message
      /\ \A k \in Message : o[k] # "unsent" => k < m
      /\ o[m] = "unsent"
  BY MessageIsNat DEF IsFresh
<1>3. \A k \in Range(q) : k < m
  BY <1>1, <1>2 DEF Sound
<1>4. /\ Append(q, m) \in Seq(Message)
      /\ Append(q, m) # << >>
      /\ Ascending(Append(q, m))
      /\ Range(Append(q, m)) = Range(q) \cup {m}
  BY <1>2, <1>3, PushLast DEF Sound
<1>5. m \notin r
  BY <1>2 DEF Sound
<1>6. /\ p \in Promises
      /\ p[m] = "pending"
      /\ \A k \in Message : k # m => p[k] = o[k]
  BY <1>2 DEF Sound, Promises
<1> HIDE DEF p
<1>7. \A k \in Message : (k \in r \/ p[k] \in {"resolved", "rejected"}) => k < m
  BY <1>2, <1>5, <1>6 DEF Sound
<1>8. Sound(Append(q, m), r, p)
  BY <1>2, <1>4, <1>5, <1>6, <1>7 DEF Sound
<1> QED BY <1>4, <1>8 DEF p

\* deliver() settles the promise of a handler that ended.
LEMMA EndSound ==
  ASSUME NEW q, NEW r, NEW o, Sound(q, r, o),
         NEW m \in r, NEW a \in {"resolved", "rejected"}
  PROVE  Sound(q, r \ {m}, [o EXCEPT ![m] = a])
<1> DEFINE p == [o EXCEPT ![m] = a]
<1>1. m \in Message /\ m \notin Range(q)
  BY DEF Sound
<1>2. /\ p \in Promises
      /\ p[m] = a
      /\ \A k \in Message : k # m => p[k] = o[k]
  BY <1>1 DEF Sound, Promises, Answers
<1> HIDE DEF p
<1> QED BY <1>1, <1>2 DEF Sound, p

\* A send that is refused settles a promise and touches nothing else.
LEMMA RefuseSound ==
  ASSUME NEW q, NEW r, NEW o, Sound(q, r, o), NEW m, IsFresh(o, m),
         NEW a \in Answers \ {"resolved", "rejected"}
  PROVE  Sound(q, r, [o EXCEPT ![m] = a])
<1> DEFINE p == [o EXCEPT ![m] = a]
<1>1. m \in Message /\ o[m] = "unsent"
  BY MessageIsNat DEF IsFresh
<1>2. /\ p \in Promises
      /\ p[m] = a
      /\ \A k \in Message : k # m => p[k] = o[k]
  BY <1>1 DEF Sound, Promises, Answers
<1>3. a \notin {"pending", "unsent", "resolved", "rejected"}
  BY DEF Answers
<1>4. m \notin Range(q) \cup r
  BY <1>1 DEF Sound
<1> HIDE DEF p
<1> QED BY <1>1, <1>2, <1>3, <1>4 DEF Sound, p

\* DropOldest: the head leaves the queue and its sender is told.
LEMMA DropHeadSound ==
  ASSUME NEW q, NEW r, NEW o, Sound(q, r, o), q # << >>
  PROVE  /\ Head(q) \in Message
         /\ o[Head(q)] = "pending"
         /\ Sound(Tail(q), r, [o EXCEPT ![Head(q)] = "message dropped"])
<1> DEFINE h == Head(q)
           p == [o EXCEPT ![h] = "message dropped"]
<1>1. /\ h \in Message
      /\ Tail(q) \in Seq(Message)
      /\ Ascending(Tail(q))
      /\ Range(q) = {h} \cup Range(Tail(q))
      /\ \A k \in Range(Tail(q)) : h < k
  BY ShiftHead DEF Sound
<1>2. h \notin Range(Tail(q))
  BY <1>1, NotBelowItself
<1> HIDE DEF h
<1>3. /\ p \in Promises
      /\ p[h] = "message dropped"
      /\ \A k \in Message : k # h => p[k] = o[k]
  BY <1>1 DEF Sound, Promises, Answers
<1> HIDE DEF p
<1>4. h \notin r /\ o[h] = "pending"
  BY <1>1 DEF Sound
<1>5. Sound(Tail(q), r, p)
  BY <1>1, <1>2, <1>3, <1>4 DEF Sound
<1> QED BY <1>1, <1>4, <1>5 DEF h, p

-----------------------------------------------------------------------------
(* The shared actions *)

LEMMA InvImplies ==
  MailboxInv => MailboxTypeOK /\ PromiseAccounting /\ StartedBeforeQueued
BY DEF MailboxInv, MailboxTypeOK, PromiseAccounting, StartedBeforeQueued, Sound, Ascending,
       Promises, Queued

LEMMA InitInv == MailboxInit => MailboxInv
<1> SUFFICES ASSUME MailboxInit PROVE MailboxInv
  OBVIOUS
<1>1. queue \in Seq(Message) /\ Len(queue) = 0
  BY EmptySeq DEF MailboxInit
<1>2. Range(queue) = {}
  <2>1. Range(queue) = {queue[i] : i \in 1..Len(queue)}
    BY <1>1, RangeEquality
  <2>2. 1..Len(queue) = {}
    BY <1>1
  <2> QED BY <2>1, <2>2
<1>3. Sound(queue, running, outcome)
  BY <1>1, <1>2 DEF MailboxInit, Sound, Ascending, Promises
<1> QED BY <1>3 DEF MailboxInit, MailboxInv, UnsentAreLast, NoLostWakeup, isReceivable,
             DeadLettersTold

LEMMA NextSendIsFresh ==
  ASSUME UnsentAreLast, NEW m \in Message, IsNextSend(m)
  PROVE  IsFresh(outcome, m)
<1>1. ASSUME NEW k \in Message
      PROVE  (outcome[k] = "unsent") <=> (k >= m)
  <2>1. k < m \/ k = m \/ m < k
    BY MessageIsNat
  <2>2. CASE k < m
    BY <2>2, MessageIsNat DEF IsNextSend
  <2>3. CASE k = m
    BY <2>3, MessageIsNat DEF IsNextSend
  <2>4. CASE m < k
    BY <2>4, MessageIsNat DEF IsNextSend, UnsentAreLast
  <2> QED BY <2>1, <2>2, <2>3, <2>4
<1> QED BY <1>1 DEF IsFresh

\* Sending the next message keeps the unsent ones the last.
LEMMA SendKeepsUnsentLast ==
  ASSUME UnsentAreLast, NEW m \in Message, IsNextSend(m),
         outcome'[m] # "unsent",
         \A k \in Message : k # m => (outcome'[k] = "unsent" <=> outcome[k] = "unsent")
  PROVE  UnsentAreLast'
<1>1. \A k \in Message : (outcome[k] = "unsent") <=> (k >= m)
  BY NextSendIsFresh DEF IsFresh
<1>2. \A k \in Message : (outcome'[k] = "unsent") <=> (k > m)
  BY <1>1, MessageIsNat
<1> QED BY <1>2, MessageIsNat DEF UnsentAreLast

\* Settling a promise that was pending keeps them the last.
LEMMA AnswerKeepsUnsentLast ==
  ASSUME UnsentAreLast,
         \A k \in Message : outcome'[k] = "unsent" <=> outcome[k] = "unsent"
  PROVE  UnsentAreLast'
BY DEF UnsentAreLast

LEMMA SendToClosedInv ==
  ASSUME MailboxInv, NEW m \in Message, SendToClosed(m)
  PROVE  MailboxInv'
<1>1. IsFresh(outcome, m)
  BY NextSendIsFresh DEF MailboxInv, SendToClosed
<1>2. Sound(queue', running', outcome')
  BY <1>1, RefuseSound DEF MailboxInv, SendToClosed, Answers
<1>3. /\ outcome'[m] = "actor stopped"
      /\ \A k \in Message : k # m => outcome'[k] = outcome[k]
  BY DEF MailboxInv, Sound, Promises, SendToClosed
<1>4. UnsentAreLast'
  BY <1>3, SendKeepsUnsentLast DEF MailboxInv, SendToClosed
<1>5. DeadLettersTold'
  BY <1>3 DEF MailboxInv, DeadLettersTold, SendToClosed
<1> QED BY <1>2, <1>4, <1>5 DEF MailboxInv, SendToClosed, NoLostWakeup, isReceivable

\* The handler of m ends, the mailbox staying as it is or suspended.
LEMMA EndInv ==
  ASSUME MailboxInv, NEW m \in Message, Complete(m) \/ Fail(m)
  PROVE  MailboxInv'
<1>1. PICK a \in {"resolved", "rejected"} :
        /\ m \in running
        /\ running' = running \ {m}
        /\ settling' = settling \cup {m}
        /\ outcome' = [outcome EXCEPT ![m] = a]
        /\ queue' = queue /\ closed' = closed /\ deadLetters' = deadLetters
        /\ suspended' \in BOOLEAN /\ (suspended => suspended')
  BY DEF Complete, Fail, MailboxInv
<1>2. Sound(queue', running', outcome')
  BY <1>1, EndSound DEF MailboxInv
<1>3. /\ outcome'[m] = a
      /\ outcome[m] = "pending"
      /\ \A k \in Message : k # m => outcome'[k] = outcome[k]
  BY <1>1 DEF MailboxInv, Sound, Promises
<1>4. UnsentAreLast'
  BY <1>1, <1>3, AnswerKeepsUnsentLast DEF MailboxInv
<1>5. DeadLettersTold'
  BY <1>1, <1>3 DEF MailboxInv, DeadLettersTold
<1> QED BY <1>1, <1>2, <1>4, <1>5 DEF MailboxInv, NoLostWakeup, isReceivable

LEMMA ContinueInv ==
  ASSUME MailboxInv, NEW m \in Message, Continue(m)
  PROVE  MailboxInv'
<1>1. settling' \subseteq Message /\ UNCHANGED <<closed, suspended, outcome, deadLetters>>
  BY DEF MailboxInv, Continue
<1>2. UnsentAreLast' /\ DeadLettersTold'
  BY <1>1 DEF MailboxInv, UnsentAreLast, DeadLettersTold
<1>3. CASE isReceivable /\ Dispatch(queue)
  <2>1. Sound(queue', running', outcome')
    BY <1>1, <1>3, DispatchSound DEF MailboxInv, Dispatch, isReceivable
  <2>2. running' # {}
    BY <1>3 DEF Dispatch
  <2> QED BY <1>1, <1>2, <2>1, <2>2 DEF MailboxInv, NoLostWakeup
<1>4. CASE ~isReceivable /\ UNCHANGED <<queue, running>>
  BY <1>1, <1>2, <1>4 DEF MailboxInv, NoLostWakeup, isReceivable
<1> QED BY <1>3, <1>4 DEF Continue

LEMMA ResumeInv ==
  ASSUME MailboxInv, Resume
  PROVE  MailboxInv'
<1>1. suspended' = FALSE /\ UNCHANGED <<closed, settling, outcome, deadLetters>>
  BY DEF Resume
<1>2. UnsentAreLast' /\ DeadLettersTold'
  BY <1>1 DEF MailboxInv, UnsentAreLast, DeadLettersTold
<1>3. CASE ~closed /\ queue # << >> /\ Dispatch(queue)
  <2>1. Sound(queue', running', outcome')
    BY <1>1, <1>3, DispatchSound DEF MailboxInv, Dispatch
  <2>2. running' # {}
    BY <1>3 DEF Dispatch
  <2> QED BY <1>1, <1>2, <2>1, <2>2 DEF MailboxInv, NoLostWakeup
<1>4. CASE (closed \/ queue = << >>) /\ UNCHANGED <<queue, running>>
  BY <1>1, <1>2, <1>4 DEF MailboxInv, NoLostWakeup, isReceivable
<1> QED BY <1>3, <1>4 DEF Resume

LEMMA OperateInv ==
  ASSUME MailboxInv, Operate
  PROVE  MailboxInv'
<1>1. ASSUME NEW m \in Message, SendToClosed(m) PROVE MailboxInv'
  BY <1>1, SendToClosedInv
<1>2. ASSUME NEW m \in Message, Complete(m) \/ Fail(m) PROVE MailboxInv'
  BY <1>2, EndInv
<1>3. ASSUME NEW m \in Message, Continue(m) PROVE MailboxInv'
  BY <1>3, ContinueInv
<1>4. CASE Suspend
  BY <1>4 DEF Suspend, MailboxInv, UnsentAreLast, NoLostWakeup, isReceivable, DeadLettersTold
<1>5. CASE Resume
  BY <1>5, ResumeInv
<1>6. CASE Close
  BY <1>6 DEF Close, MailboxInv, UnsentAreLast, NoLostWakeup, isReceivable, DeadLettersTold
<1> QED BY <1>1, <1>2, <1>3, <1>4, <1>5, <1>6 DEF Operate

LEMMA StutterInv ==
  ASSUME MailboxInv, UNCHANGED mailboxVars
  PROVE  MailboxInv'
BY DEF mailboxVars, MailboxInv, UnsentAreLast, NoLostWakeup, isReceivable, DeadLettersTold

-----------------------------------------------------------------------------
(* The refinement of Delivery *)

\* The head of the queue is the oldest message waiting.
LEMMA HeadIsOldest ==
  ASSUME NEW q, NEW r, NEW o, Sound(q, r, o), q # << >>
  PROVE  /\ Head(q) \in Message
         /\ Contract!IsOldest(StatusOf(r, o), Head(q))
         /\ StatusOf(r \cup {Head(q)}, o)
              = [StatusOf(r, o) EXCEPT ![Head(q)] = "handling"]
<1> DEFINE h == Head(q)
           s == StatusOf(r, o)
<1>1. /\ h \in Message
      /\ Range(q) = {h} \cup Range(Tail(q))
      /\ \A k \in Range(Tail(q)) : h < k
  BY ShiftHead DEF Sound
<1> HIDE DEF h
<1>2. h \notin r /\ o[h] = "pending"
  BY <1>1 DEF Sound
<1>3. s[h] = "waiting"
  BY <1>1, <1>2 DEF StatusOf
<1>4. ASSUME NEW j \in Message, s[j] = "waiting"
      PROVE  h <= j
  <2>1. j \in Range(q)
    BY <1>4 DEF StatusOf, Sound, Promises, Answers
  <2> QED BY <2>1, <1>1, MessageIsNat
<1>5. Contract!IsOldest(s, h)
  BY <1>3, <1>4 DEF Contract!IsOldest, Contract!Message, Message
<1>6. StatusOf(r \cup {h}, o) = [s EXCEPT ![h] = "handling"]
  BY <1>1 DEF StatusOf
<1> QED BY <1>1, <1>5, <1>6 DEF h

\* The next message to send is the next one of the contract.
LEMMA NextSendMaps ==
  ASSUME MailboxInv, NEW m \in Message, IsNextSend(m)
  PROVE  /\ Contract!IsNextSend(m)
         /\ m \notin running
<1>1. \A k \in Message : status[k] = "unsent" <=> outcome[k] = "unsent"
  BY DEF MailboxInv, Sound, status, StatusOf
<1>2. m \notin running
  BY DEF MailboxInv, Sound, IsNextSend
<1> QED BY <1>1, <1>2 DEF Contract!IsNextSend, Contract!Message, Message, IsNextSend

LEMMA OperateMaps ==
  ASSUME MailboxInv, Operate
  PROVE  [Contract!Next]_status
<1>1. ASSUME NEW m \in Message, SendToClosed(m)
      PROVE  Contract!Refuse(m)
  <2>1. Contract!IsNextSend(m) /\ m \notin running
    BY <1>1, NextSendMaps DEF SendToClosed
  <2>2. status' = [status EXCEPT ![m] = "actor stopped"]
    BY <1>1, <2>1 DEF SendToClosed, status, StatusOf, MailboxInv, Sound, Promises
  <2> QED BY <2>1, <2>2 DEF Contract!Refuse, Contract!Refusals
<1>2. ASSUME NEW m \in Message, Complete(m) \/ Fail(m)
      PROVE  Contract!Finish(m)
  <2>1. PICK a \in {"resolved", "rejected"} :
          /\ m \in running
          /\ running' = running \ {m}
          /\ outcome' = [outcome EXCEPT ![m] = a]
    BY <1>2 DEF Complete, Fail
  <2>2. status[m] = "handling" /\ status' = [status EXCEPT ![m] = a]
    BY <2>1 DEF status, StatusOf, MailboxInv, Sound, Promises
  <2> QED BY <2>2 DEF Contract!Finish
<1>3. ASSUME queue # << >>, Dispatch(queue), outcome' = outcome
      PROVE  Contract!Begin
  <2>1. Sound(queue, running, outcome)
    BY DEF MailboxInv
  <2>2. /\ Head(queue) \in Message
        /\ Contract!IsOldest(status, Head(queue))
        /\ StatusOf(running \cup {Head(queue)}, outcome)
             = [status EXCEPT ![Head(queue)] = "handling"]
    BY <1>3, <2>1, HeadIsOldest DEF status
  <2>3. status' = StatusOf(running \cup {Head(queue)}, outcome)
    BY <1>3 DEF Dispatch, status
  <2> QED BY <2>2, <2>3 DEF Contract!Begin, Contract!Message, Message
<1>4. ASSUME NEW m \in Message, Continue(m)
      PROVE  Contract!Begin \/ UNCHANGED status
  BY <1>3, <1>4 DEF Continue, isReceivable, status
<1>5. CASE Resume
  BY <1>3, <1>5 DEF Resume, status, Contract!Next
<1>6. CASE Suspend \/ Close
  BY <1>6 DEF Suspend, Close, status
<1> QED BY <1>1, <1>2, <1>4, <1>5, <1>6 DEF Operate, Contract!Next, Contract!Message, Message

LEMMA InitMaps == MailboxInit => Contract!Init
BY DEF MailboxInit, Contract!Init, Contract!Message, Message, status, StatusOf

-----------------------------------------------------------------------------
(* ArrayMailbox                                                             *)

LEMMA SendSuspendedInv ==
  ASSUME MailboxInv, NEW m \in Message, SendSuspended(m)
  PROVE  MailboxInv'
<1>1. IsFresh(outcome, m)
  BY NextSendIsFresh DEF MailboxInv, SendSuspended
<1>2. Sound(queue', running', outcome')
  BY <1>1, PushSound DEF MailboxInv, SendSuspended
<1>3. /\ outcome[m] = "unsent"
      /\ outcome'[m] = "pending"
      /\ \A k \in Message : k # m => outcome'[k] = outcome[k]
  BY DEF MailboxInv, Sound, Promises, SendSuspended, IsNextSend
<1>4. UnsentAreLast'
  BY <1>3, SendKeepsUnsentLast DEF MailboxInv, SendSuspended
<1>5. DeadLettersTold'
  BY <1>3 DEF MailboxInv, DeadLettersTold, SendSuspended
<1> QED BY <1>2, <1>4, <1>5 DEF MailboxInv, SendSuspended, NoLostWakeup, isReceivable

LEMMA SendAndDispatchInv ==
  ASSUME MailboxInv, NEW m \in Message, SendAndDispatch(m)
  PROVE  MailboxInv'
<1>1. IsFresh(outcome, m)
  BY NextSendIsFresh DEF MailboxInv, SendAndDispatch
<1>2. /\ Sound(Append(queue, m), running, outcome')
      /\ Append(queue, m) # << >>
  BY <1>1, PushSound DEF MailboxInv, SendAndDispatch
<1>3. Sound(queue', running', outcome')
  BY <1>2, DispatchSound DEF SendAndDispatch, Dispatch
<1>4. /\ outcome[m] = "unsent"
      /\ outcome'[m] = "pending"
      /\ \A k \in Message : k # m => outcome'[k] = outcome[k]
  BY DEF MailboxInv, Sound, Promises, SendAndDispatch, IsNextSend
<1>5. UnsentAreLast'
  BY <1>4, SendKeepsUnsentLast DEF MailboxInv, SendAndDispatch
<1>6. DeadLettersTold'
  BY <1>4 DEF MailboxInv, DeadLettersTold, SendAndDispatch
<1>7. running' # {}
  BY DEF SendAndDispatch, Dispatch
<1> QED BY <1>3, <1>5, <1>6, <1>7 DEF MailboxInv, SendAndDispatch, NoLostWakeup

LEMMA ArrayInvInductive ==
  /\ ArrayInit => MailboxInv
  /\ MailboxInv /\ [ArrayNext]_mailboxVars => MailboxInv'
<1>1. ArrayInit => MailboxInv
  BY InitInv DEF ArrayInit
<1>2. ASSUME MailboxInv, [ArrayNext]_mailboxVars
      PROVE  MailboxInv'
  <2>1. ASSUME NEW m \in Message, SendSuspended(m) PROVE MailboxInv'
    BY <1>2, <2>1, SendSuspendedInv
  <2>2. ASSUME NEW m \in Message, SendAndDispatch(m) PROVE MailboxInv'
    BY <1>2, <2>2, SendAndDispatchInv
  <2>3. CASE Operate
    BY <1>2, <2>3, OperateInv
  <2>4. CASE UNCHANGED mailboxVars
    BY <1>2, <2>4, StutterInv DEF mailboxVars
  <2> QED BY <1>2, <2>1, <2>2, <2>3, <2>4 DEF ArrayNext
<1> QED BY <1>1, <1>2

THEOREM ArrayInvariance == ArraySpec => []MailboxInv
BY ArrayInvInductive, PTL DEF ArraySpec

(***************************************************************************)
(* Every variable keeps its type.                                          *)
(***************************************************************************)
THEOREM ArrayTypeCorrect == ArraySpec => []MailboxTypeOK
<1>1. MailboxInv => MailboxTypeOK
  BY InvImplies DEF MailboxTypeOK
<1> QED BY <1>1, ArrayInvariance, PTL

(***************************************************************************)
(* A promise is pending exactly while its message is queued or its handler *)
(* runs; no message is in two places.                                      *)
(***************************************************************************)
THEOREM ArrayPromisesAccounted == ArraySpec => []PromiseAccounting
<1>1. MailboxInv => PromiseAccounting
  BY InvImplies
<1> QED BY <1>1, ArrayInvariance, PTL

(***************************************************************************)
(* Handlers start in the order of the sends, though they may overlap.      *)
(***************************************************************************)
THEOREM ArrayStartsInOrder == ArraySpec => []StartedBeforeQueued
<1>1. MailboxInv => StartedBeforeQueued
  BY InvImplies
<1> QED BY <1>1, ArrayInvariance, PTL

(***************************************************************************)
(* An open, unsuspended mailbox with a backlog has a dispatch loop that    *)
(* will return to it.                                                      *)
(***************************************************************************)
THEOREM ArrayWakeupKept == ArraySpec => []NoLostWakeup
<1>1. MailboxInv => NoLostWakeup
  BY DEF MailboxInv
<1> QED BY <1>1, ArrayInvariance, PTL

-----------------------------------------------------------------------------
(***************************************************************************)
(* A handler starts only on an open mailbox that is not suspended.         *)
(***************************************************************************)
THEOREM NoStartPastSuspension == ArraySpec => StartsOnlyWhenOpen
<1>1. ASSUME [ArrayNext]_mailboxVars
      PROVE  [running' \subseteq running \/ (~closed' /\ ~suspended')]_mailboxVars
  <2>1. ASSUME NEW m \in Message, SendSuspended(m) PROVE running' = running
    BY <2>1 DEF SendSuspended
  <2>2. ASSUME NEW m \in Message, SendAndDispatch(m) PROVE ~closed' /\ ~suspended'
    BY <2>2 DEF SendAndDispatch
  <2>3. ASSUME Operate PROVE running' \subseteq running \/ (~closed' /\ ~suspended')
    BY <2>3 DEF Operate, SendToClosed, Complete, Fail, Continue, Suspend, Resume, Close, isReceivable
  <2> QED BY <1>1, <2>1, <2>2, <2>3 DEF ArrayNext, mailboxVars
<1> QED BY <1>1, PTL DEF ArraySpec, StartsOnlyWhenOpen

LEMMA ArraySendMaps ==
  ASSUME MailboxInv, NEW m \in Message, SendSuspended(m) \/ SendAndDispatch(m)
  PROVE  Contract!Accept(m)
<1> DEFINE o == [outcome EXCEPT ![m] = "pending"]
           s == [status EXCEPT ![m] = "waiting"]
<1>1. Contract!IsNextSend(m) /\ m \notin running /\ IsFresh(outcome, m)
  BY NextSendMaps, NextSendIsFresh DEF SendSuspended, SendAndDispatch, MailboxInv
<1>2. StatusOf(running, o) = s
  BY <1>1 DEF status, StatusOf, MailboxInv, Sound, Promises
<1>3. Sound(Append(queue, m), running, o) /\ Append(queue, m) # << >>
  BY <1>1, PushSound DEF MailboxInv
<1>4. CASE SendSuspended(m)
  <2>1. status' = s
    BY <1>2, <1>4 DEF SendSuspended, status
  <2> QED BY <1>1, <2>1 DEF Contract!Accept, Contract!MayBegin
<1>5. CASE SendAndDispatch(m)
  <2> DEFINE h == Head(Append(queue, m))
  <2> HIDE DEF o, s
  <2>1. /\ h \in Message
        /\ Contract!IsOldest(StatusOf(running, o), h)
        /\ StatusOf(running \cup {h}, o) = [StatusOf(running, o) EXCEPT ![h] = "handling"]
    BY <1>3, HeadIsOldest
  <2>2. status' = StatusOf(running \cup {h}, o)
    BY <1>5 DEF SendAndDispatch, Dispatch, status, o
  <2> HIDE DEF h
  <2>3. Contract!MayBegin(s)
    BY <1>2, <2>1, <2>2 DEF Contract!MayBegin, Contract!Message, Message
  <2> QED BY <1>1, <2>3 DEF Contract!Accept, s
<1> QED BY <1>4, <1>5

(***************************************************************************)
(* ArrayMailbox implements the messaging contract: whatever is suspended,  *)
(* overlapped or closed, messages begin once, in order, and are answered   *)
(* at most once.                                                           *)
(***************************************************************************)
THEOREM ArrayRefinement == ArraySpec => ImplementsDelivery
<1>1. ArrayInit => Contract!Init
  BY InitMaps DEF ArrayInit
<1>2. ASSUME MailboxInv, [ArrayNext]_mailboxVars
      PROVE  [Contract!Next]_status
  <2>1. ASSUME NEW m \in Message, SendSuspended(m) \/ SendAndDispatch(m)
        PROVE  Contract!Next
    BY <1>2, <2>1, ArraySendMaps DEF Contract!Next, Contract!Message, Message
  <2>2. CASE Operate
    BY <1>2, <2>2, OperateMaps
  <2>3. CASE UNCHANGED mailboxVars
    BY <2>3 DEF mailboxVars, status
  <2> QED BY <1>2, <2>1, <2>2, <2>3 DEF ArrayNext
<1> QED BY <1>1, <1>2, ArrayInvariance, PTL DEF ArraySpec, ImplementsDelivery, Contract!Spec

-----------------------------------------------------------------------------
(* BoundedMailbox                                                           *)

\* HasRoom needs nothing but the capacity; the rest is the shared invariant.
BoundedInv ==
  /\ MailboxInv
  /\ capacity \in Nat \ {0}
  /\ overflowPolicy \in {"DropOldest", "DropNewest", "Reject"}
  /\ dropped \in Nat
  /\ HasRoom

-----------------------------------------------------------------------------
(* send() *)

LEMMA SendFitsInv ==
  ASSUME BoundedInv, NEW m \in Message, SendFits(m)
  PROVE  MailboxInv'
<1> DEFINE o == [outcome EXCEPT ![m] = "pending"]
           q == Append(queue, m)
<1>1. IsFresh(outcome, m)
  BY NextSendIsFresh DEF BoundedInv, MailboxInv, SendFits
<1>2. Sound(q, running, o) /\ q # << >>
  BY <1>1, PushSound DEF BoundedInv, MailboxInv
<1>3. /\ outcome[m] = "unsent"
      /\ outcome' = o
      /\ o[m] = "pending"
      /\ \A k \in Message : k # m => o[k] = outcome[k]
  BY DEF BoundedInv, MailboxInv, Sound, Promises, SendFits, IsNextSend
<1> HIDE DEF o, q
<1>4. UnsentAreLast'
  BY <1>3, SendKeepsUnsentLast DEF BoundedInv, MailboxInv, SendFits
<1>5. DeadLettersTold'
  BY <1>3 DEF BoundedInv, MailboxInv, DeadLettersTold, SendFits
<1>6. CASE suspended /\ queue' = q /\ UNCHANGED running
  BY <1>2, <1>3, <1>4, <1>5, <1>6
     DEF BoundedInv, MailboxInv, SendFits, NoLostWakeup, isReceivable
<1>7. CASE ~suspended /\ Dispatch(q)
  <2>1. Sound(queue', running', outcome') /\ running' # {}
    BY <1>2, <1>3, <1>7, DispatchSound DEF Dispatch
  <2> QED BY <1>4, <1>5, <2>1 DEF BoundedInv, MailboxInv, SendFits, NoLostWakeup
<1> QED BY <1>6, <1>7 DEF SendFits, q

LEMMA OverflowDropOldestInv ==
  ASSUME BoundedInv, NEW m \in Message, OverflowDropOldest(m)
  PROVE  MailboxInv'
<1> DEFINE h == Head(queue)
           d == [outcome EXCEPT ![h] = "message dropped"]
           o == [d EXCEPT ![m] = "pending"]
           q == Append(Tail(queue), m)
<1>1. queue # << >>
  <2>1. Len(queue) >= capacity /\ capacity \in Nat \ {0}
    BY DEF OverflowDropOldest, isFull, BoundedInv
  <2>2. queue = << >> => Len(queue) = 0
    BY EmptySeq
  <2> QED BY <2>1, <2>2
<1>2. h \in Message /\ outcome[h] = "pending" /\ Sound(Tail(queue), running, d)
  BY <1>1, DropHeadSound DEF BoundedInv, MailboxInv
<1>3. IsFresh(outcome, m) /\ outcome[m] = "unsent"
  BY NextSendIsFresh DEF BoundedInv, MailboxInv, OverflowDropOldest, IsNextSend
<1>4. \A k \in Message : d[k] = "unsent" <=> outcome[k] = "unsent"
  BY <1>2 DEF BoundedInv, MailboxInv, Sound, Promises
<1>5. IsFresh(d, m)
  BY <1>3, <1>4 DEF IsFresh
<1>6. Sound(q, running, o) /\ q # << >>
  BY <1>2, <1>5, PushSound
<1>7. /\ outcome' = o
      /\ o[m] = "pending"
      /\ o[h] = "message dropped"
      /\ \A k \in Message : k # m /\ k # h => o[k] = outcome[k]
  BY <1>2, <1>3 DEF BoundedInv, MailboxInv, Sound, Promises, OverflowDropOldest
<1> HIDE DEF h, d, o, q
<1>8. UnsentAreLast'
  BY <1>2, <1>7, SendKeepsUnsentLast DEF BoundedInv, MailboxInv, OverflowDropOldest
<1>9. DeadLettersTold'
  BY <1>2, <1>3, <1>7 DEF BoundedInv, MailboxInv, DeadLettersTold, OverflowDropOldest
<1>10. IF suspended THEN queue' = q /\ UNCHANGED running ELSE Dispatch(q)
  BY DEF OverflowDropOldest, q
<1>11. CASE suspended
  BY <1>6, <1>7, <1>8, <1>9, <1>10, <1>11
     DEF BoundedInv, MailboxInv, OverflowDropOldest, NoLostWakeup, isReceivable
<1>12. CASE ~suspended
  <2>1. Sound(queue', running', outcome') /\ running' # {}
    BY <1>6, <1>7, <1>10, <1>12, DispatchSound DEF Dispatch
  <2> QED BY <1>8, <1>9, <2>1 DEF BoundedInv, MailboxInv, OverflowDropOldest, NoLostWakeup
<1> QED BY <1>11, <1>12

\* The two policies that turn the new message away.
LEMMA OverflowRefusedInv ==
  ASSUME BoundedInv, NEW m \in Message, OverflowDropNewest(m) \/ OverflowReject(m)
  PROVE  MailboxInv'
<1>1. IsFresh(outcome, m) /\ IsNextSend(m)
  BY NextSendIsFresh DEF BoundedInv, MailboxInv, OverflowDropNewest, OverflowReject
<1>2. PICK a \in {"message dropped", "mailbox full"} :
        /\ outcome' = [outcome EXCEPT ![m] = a]
        /\ deadLetters' = IF a = "mailbox full" THEN deadLetters \cup {m} ELSE deadLetters
        /\ UNCHANGED <<closed, suspended, queue, running, settling>>
  BY DEF OverflowDropNewest, OverflowReject
<1>3. Sound(queue', running', outcome')
  BY <1>1, <1>2, RefuseSound DEF BoundedInv, MailboxInv, Answers
<1>4. /\ outcome'[m] = a
      /\ outcome[m] = "unsent"
      /\ \A k \in Message : k # m => outcome'[k] = outcome[k]
  BY <1>1, <1>2 DEF BoundedInv, MailboxInv, Sound, Promises, IsNextSend
<1>5. UnsentAreLast'
  BY <1>1, <1>4, SendKeepsUnsentLast DEF BoundedInv, MailboxInv
<1>6. DeadLettersTold'
  BY <1>2, <1>4 DEF BoundedInv, MailboxInv, DeadLettersTold
<1> QED BY <1>2, <1>3, <1>5, <1>6 DEF BoundedInv, MailboxInv, NoLostWakeup, isReceivable

-----------------------------------------------------------------------------
(* The capacity *)

\* HasRoom, with the arithmetic apart from the flags.
LEMMA RoomByLength ==
  ASSUME BoundedInv, NEW l \in Nat, Len(queue') = l, capacity' = capacity,
         l <= capacity, l < capacity \/ closed' \/ suspended'
  PROVE  HasRoom'
BY DEF HasRoom, BoundedInv

LEMMA RoomKept ==
  ASSUME BoundedInv, Next
  PROVE  HasRoom'
<1> DEFINE n == Len(queue)
<1>1. /\ queue \in Seq(Message)
      /\ n \in Nat
      /\ queue # << >> => /\ Tail(queue) \in Seq(Message)
                          /\ Len(Tail(queue)) = n - 1
                          /\ n > 0
  BY LenProperties, HeadTailProperties, EmptySeq DEF BoundedInv, MailboxInv, Sound
<1>2. /\ capacity' = capacity
      /\ capacity \in Nat /\ capacity > 0
      /\ n <= capacity
      /\ n < capacity \/ closed \/ suspended
  BY DEF Next, BoundedInv, HasRoom
<1>3. ASSUME NEW m \in Message, SendFits(m)
      PROVE  HasRoom'
  <2>1. /\ Len(Append(queue, m)) = n + 1
        /\ Len(Tail(Append(queue, m))) = n
    BY <1>1, AppendProperties, HeadTailProperties
  <2>2. n < capacity
    BY <1>1, <1>2, <1>3 DEF SendFits, isFull
  <2>3. CASE suspended /\ queue' = Append(queue, m)
    <3>1. suspended' /\ Len(queue') = n + 1
      BY <1>3, <2>1, <2>3 DEF SendFits
    <3> HIDE DEF n
    <3> QED BY <1>1, <1>2, <2>2, <3>1, RoomByLength
  <2>4. CASE Dispatch(Append(queue, m))
    <3>1. Len(queue') = n
      BY <2>1, <2>4 DEF Dispatch
    <3> HIDE DEF n
    <3> QED BY <1>1, <1>2, <2>2, <3>1, RoomByLength
  <2> QED BY <1>3, <2>3, <2>4 DEF SendFits
<1>4. ASSUME NEW m \in Message, OverflowDropOldest(m)
      PROVE  HasRoom'
  <2>1. n >= capacity /\ ~closed
    BY <1>4 DEF OverflowDropOldest, isFull
  <2>2. suspended /\ n = capacity
    BY <1>1, <1>2, <2>1
  <2>3. queue # << >>
    BY <1>2, <2>2, EmptySeq
  <2>4. Len(Append(Tail(queue), m)) = n
    BY <1>1, <2>3, AppendProperties
  <2>5. suspended' /\ Len(queue') = n
    BY <1>4, <2>2, <2>4 DEF OverflowDropOldest
  <2> HIDE DEF n
  <2> QED BY <1>1, <1>2, <2>5, RoomByLength
<1>5. ASSUME UNCHANGED queue, closed' \/ suspended' \/ (closed' = closed /\ suspended' = suspended)
      PROVE  HasRoom'
  <2>1. Len(queue') = n
    BY <1>5
  <2> HIDE DEF n
  <2> QED BY <1>1, <1>2, <1>5, <2>1, RoomByLength
<1>6. ASSUME queue # << >>, Dispatch(queue)
      PROVE  HasRoom'
  <2>1. Len(queue') = n - 1 /\ n - 1 \in Nat
    BY <1>1, <1>6 DEF Dispatch
  <2>2. n - 1 <= capacity /\ n - 1 < capacity
    BY <1>1, <1>2
  <2> HIDE DEF n
  <2> QED BY <1>2, <2>1, <2>2, RoomByLength
<1>7. ASSUME queue = << >>, UNCHANGED queue
      PROVE  HasRoom'
  <2>1. Len(queue') = 0
    BY <1>7, EmptySeq
  <2> QED BY <1>2, <2>1, RoomByLength
<1>8. ASSUME NEW m \in Message, OverflowDropNewest(m) \/ OverflowReject(m)
      PROVE  HasRoom'
  BY <1>5, <1>8 DEF OverflowDropNewest, OverflowReject
<1>9. CASE Operate
  <2>1. ASSUME NEW m \in Message, SendToClosed(m) \/ Complete(m) \/ Fail(m)
        PROVE  HasRoom'
    BY <1>5, <2>1 DEF SendToClosed, Complete, Fail
  <2>2. ASSUME NEW m \in Message, Continue(m)
        PROVE  HasRoom'
    BY <1>5, <1>6, <2>2 DEF Continue, isReceivable
  <2>3. CASE Suspend \/ Close
    BY <1>5, <2>3 DEF Suspend, Close
  <2>4. CASE Resume
    <3>1. CASE closed /\ UNCHANGED queue
      BY <1>5, <2>4, <3>1 DEF Resume
    <3>2. CASE queue = << >> /\ UNCHANGED queue
      BY <1>7, <3>2
    <3>3. CASE queue # << >> /\ Dispatch(queue)
      BY <1>6, <3>3
    <3> QED BY <2>4, <3>1, <3>2, <3>3 DEF Resume
  <2> QED BY <1>9, <2>1, <2>2, <2>3, <2>4 DEF Operate
<1> QED BY <1>3, <1>4, <1>8, <1>9 DEF Next, Overflow

-----------------------------------------------------------------------------
LEMMA BoundedInvInductive ==
  /\ Init => BoundedInv
  /\ BoundedInv /\ [Next]_vars => BoundedInv'
<1>1. ASSUME Init
      PROVE  BoundedInv
  <2>1. MailboxInv /\ queue = << >>
    BY <1>1, InitInv DEF Init, MailboxInit
  <2>2. Len(queue) = 0
    BY <2>1, EmptySeq
  <2> QED BY <1>1, <2>1, <2>2, CapacitiesAssumption, PoliciesAssumption
          DEF Init, BoundedInv, HasRoom
<1>2. ASSUME BoundedInv, Next
      PROVE  BoundedInv'
  <2>1. MailboxInv'
    <3>1. ASSUME NEW m \in Message, SendFits(m) PROVE MailboxInv'
      BY <1>2, <3>1, SendFitsInv
    <3>2. ASSUME NEW m \in Message, Overflow(m) PROVE MailboxInv'
      BY <1>2, <3>2, OverflowDropOldestInv, OverflowRefusedInv DEF Overflow
    <3>3. ASSUME Operate PROVE MailboxInv'
      BY <1>2, <3>3, OperateInv DEF BoundedInv
    <3> QED BY <1>2, <3>1, <3>2, <3>3 DEF Next
  <2>2. HasRoom'
    BY <1>2, RoomKept
  <2>3. dropped' \in Nat
    <3>1. dropped' = dropped \/ dropped' = dropped + 1
      BY <1>2 DEF Next, SendFits, Overflow, OverflowDropOldest, OverflowDropNewest,
         OverflowReject
    <3> QED BY <1>2, <3>1 DEF BoundedInv
  <2> QED BY <1>2, <2>1, <2>2, <2>3 DEF BoundedInv, Next
<1>3. ASSUME BoundedInv, UNCHANGED vars
      PROVE  BoundedInv'
  <2>1. MailboxInv'
    BY <1>3, StutterInv DEF BoundedInv, vars
  <2> QED BY <1>3, <2>1 DEF BoundedInv, vars, mailboxVars, HasRoom
<1> QED BY <1>1, <1>2, <1>3

THEOREM BoundedInvariance == Spec => []BoundedInv
BY BoundedInvInductive, PTL DEF Spec

(***************************************************************************)
(* Every variable keeps its type.                                          *)
(***************************************************************************)
THEOREM BoundedTypeCorrect == Spec => []TypeOK
<1>1. BoundedInv => TypeOK
  BY InvImplies DEF TypeOK, BoundedInv
<1> QED BY <1>1, BoundedInvariance, PTL

(***************************************************************************)
(* The queue stays within its capacity, and overflows only while the       *)
(* mailbox is suspended.                                                   *)
(***************************************************************************)
THEOREM CapacityKept == Spec => []HasRoom
<1>1. BoundedInv => HasRoom
  BY DEF BoundedInv
<1> QED BY <1>1, BoundedInvariance, PTL

(***************************************************************************)
(* Dropping messages loses no promise and delivers none twice.             *)
(***************************************************************************)
THEOREM BoundedPromisesAccounted == Spec => []PromiseAccounting
<1>1. BoundedInv => PromiseAccounting
  BY InvImplies DEF BoundedInv
<1> QED BY <1>1, BoundedInvariance, PTL

(***************************************************************************)
(* Dropping messages keeps the order in which the others start.            *)
(***************************************************************************)
THEOREM BoundedStartsInOrder == Spec => []StartedBeforeQueued
<1>1. BoundedInv => StartedBeforeQueued
  BY InvImplies DEF BoundedInv
<1> QED BY <1>1, BoundedInvariance, PTL

(***************************************************************************)
(* An open, unsuspended mailbox with a backlog has a dispatch loop that    *)
(* will return to it; dead letters are the messages whose senders know.    *)
(***************************************************************************)
THEOREM BoundedWakeupKept == Spec => [](NoLostWakeup /\ DeadLettersTold)
<1>1. BoundedInv => NoLostWakeup /\ DeadLettersTold
  BY DEF BoundedInv, MailboxInv
<1> QED BY <1>1, BoundedInvariance, PTL

-----------------------------------------------------------------------------
(***************************************************************************)
(* Under DropNewest and Reject no message is taken back once its promise   *)
(* is pending: it can only be answered by its own handler.                 *)
(***************************************************************************)
THEOREM AcceptedKept == Spec => AcceptedIsKept
<1> DEFINE Kept == \A m \in Message : outcome[m] = "pending" =>
                     outcome'[m] \in {"pending", "resolved", "rejected"}
<1>1. ASSUME BoundedInv, Next, overflowPolicy # "DropOldest"
      PROVE  Kept
  <2>1. outcome \in Promises
    BY <1>1 DEF BoundedInv, MailboxInv, Sound
  <2>2. ASSUME NEW m \in Message, SendFits(m) PROVE Kept
    BY <2>1, <2>2 DEF SendFits, IsNextSend, Promises
  <2>3. ASSUME NEW m \in Message, OverflowDropNewest(m) \/ OverflowReject(m) PROVE Kept
    BY <2>1, <2>3 DEF OverflowDropNewest, OverflowReject, IsNextSend, Promises
  <2>4. ASSUME NEW m \in Message, SendToClosed(m) PROVE Kept
    BY <2>1, <2>4 DEF SendToClosed, IsNextSend, Promises
  <2>5. ASSUME NEW m \in Message, Complete(m) \/ Fail(m) PROVE Kept
    BY <2>1, <2>5 DEF Complete, Fail, Promises
  <2>6. ASSUME UNCHANGED outcome PROVE Kept
    BY <2>6
  <2>7. ASSUME NEW m \in Message, Continue(m) PROVE Kept
    BY <2>6, <2>7 DEF Continue
  <2>8. CASE Suspend \/ Resume \/ Close
    BY <2>6, <2>8 DEF Suspend, Resume, Close
  <2> HIDE DEF Kept
  <2> QED BY <1>1, <2>2, <2>3, <2>4, <2>5, <2>7, <2>8
          DEF Next, Overflow, OverflowDropOldest, Operate
<1>2. BoundedInv /\ [Next]_vars => [overflowPolicy # "DropOldest" => Kept]_vars
  BY <1>1
<1> QED BY <1>2, BoundedInvariance, PTL DEF Spec, AcceptedIsKept

-----------------------------------------------------------------------------
(* The refinement of Delivery *)

\* Once m waits last in the queue q, the mailbox may begin the head of q.
LEMMA BeginMaps ==
  ASSUME NEW q, NEW o, Sound(q, running, o), q # << >>, outcome' = o,
         UNCHANGED running \/ Dispatch(q)
  PROVE  Contract!MayBegin(StatusOf(running, o))
<1> DEFINE h == Head(q)
           s == StatusOf(running, o)
<1>1. CASE UNCHANGED running
  <2>1. status' = s
    BY <1>1 DEF status
  <2> QED BY <2>1 DEF Contract!MayBegin
<1>2. CASE Dispatch(q)
  <2>1. /\ h \in Message
        /\ Contract!IsOldest(s, h)
        /\ StatusOf(running \cup {h}, o) = [s EXCEPT ![h] = "handling"]
    BY HeadIsOldest
  <2>2. status' = StatusOf(running \cup {h}, o)
    BY <1>2 DEF Dispatch, status
  <2> HIDE DEF h, s
  <2>3. Contract!MayBegin(s)
    BY <2>1, <2>2 DEF Contract!MayBegin, Contract!Message, Message
  <2> QED BY <2>3 DEF s
<1> QED BY <1>1, <1>2

LEMMA SendFitsMaps ==
  ASSUME BoundedInv, NEW m \in Message, SendFits(m)
  PROVE  Contract!Accept(m)
<1> DEFINE o == [outcome EXCEPT ![m] = "pending"]
           q == Append(queue, m)
<1>1. Contract!IsNextSend(m) /\ m \notin running /\ IsFresh(outcome, m)
  BY NextSendMaps, NextSendIsFresh DEF SendFits, BoundedInv, MailboxInv
<1>2. StatusOf(running, o) = [status EXCEPT ![m] = "waiting"]
  BY <1>1 DEF status, StatusOf, BoundedInv, MailboxInv, Sound, Promises
<1>3. Sound(q, running, o) /\ q # << >>
  BY <1>1, PushSound DEF BoundedInv, MailboxInv
<1>4. outcome' = o /\ (UNCHANGED running \/ Dispatch(q))
  BY DEF SendFits
<1> HIDE DEF o, q
<1>5. Contract!MayBegin(StatusOf(running, o))
  BY <1>3, <1>4, BeginMaps
<1> QED BY <1>1, <1>2, <1>5 DEF Contract!Accept

LEMMA OverflowDropOldestMaps ==
  ASSUME BoundedInv, NEW m \in Message, OverflowDropOldest(m)
  PROVE  \E k \in Message : Contract!Displace(m, k)
<1> DEFINE h == Head(queue)
           d == [outcome EXCEPT ![h] = "message dropped"]
           o == [d EXCEPT ![m] = "pending"]
           q == Append(Tail(queue), m)
<1>1. queue # << >>
  <2>1. Len(queue) >= capacity /\ capacity \in Nat \ {0}
    BY DEF OverflowDropOldest, isFull, BoundedInv
  <2>2. queue = << >> => Len(queue) = 0
    BY EmptySeq
  <2> QED BY <2>1, <2>2
<1>2. Sound(queue, running, outcome)
  BY DEF BoundedInv, MailboxInv
<1>3. h \in Message /\ outcome[h] = "pending" /\ Sound(Tail(queue), running, d)
  BY <1>1, <1>2, DropHeadSound
<1>4. Contract!IsNextSend(m) /\ m \notin running /\ IsFresh(outcome, m) /\ outcome[m] = "unsent"
  BY NextSendMaps, NextSendIsFresh DEF OverflowDropOldest, BoundedInv, MailboxInv, IsNextSend
<1>5. Contract!IsOldest(status, h)
  BY <1>1, <1>2, HeadIsOldest DEF status
<1>6. h \notin running
  BY <1>3 DEF Sound, Promises
<1>7. StatusOf(running, o) = [status EXCEPT ![h] = "message dropped", ![m] = "waiting"]
  BY <1>2, <1>3, <1>4, <1>6 DEF status, StatusOf, Sound, Promises
<1>8. IsFresh(d, m)
  BY <1>2, <1>3, <1>4 DEF IsFresh, Sound, Promises
<1>9. Sound(q, running, o) /\ q # << >>
  BY <1>3, <1>8, PushSound
<1>10. outcome' = o /\ (UNCHANGED running \/ Dispatch(q))
  BY DEF OverflowDropOldest
<1> HIDE DEF h, d, o, q
<1>11. Contract!MayBegin(StatusOf(running, o))
  BY <1>9, <1>10, BeginMaps
<1> QED BY <1>3, <1>4, <1>5, <1>7, <1>11 DEF Contract!Displace

LEMMA OverflowRefusedMaps ==
  ASSUME BoundedInv, NEW m \in Message, OverflowDropNewest(m) \/ OverflowReject(m)
  PROVE  Contract!Refuse(m)
<1>1. Contract!IsNextSend(m) /\ m \notin running
  BY NextSendMaps DEF OverflowDropNewest, OverflowReject, BoundedInv
<1>2. PICK a \in {"message dropped", "mailbox full"} :
        outcome' = [outcome EXCEPT ![m] = a] /\ UNCHANGED running
  BY DEF OverflowDropNewest, OverflowReject
<1>3. status' = [status EXCEPT ![m] = a]
  BY <1>1, <1>2 DEF status, StatusOf, BoundedInv, MailboxInv, Sound, Promises
<1> QED BY <1>1, <1>3 DEF Contract!Refuse, Contract!Refusals

(***************************************************************************)
(* BoundedMailbox implements the messaging contract for every capacity and *)
(* policy: a message is begun once and in order, refused when it is sent,  *)
(* or displaced while it is the oldest that waits.                         *)
(***************************************************************************)
THEOREM BoundedRefinement == Spec => ImplementsDelivery
<1>1. Init => Contract!Init
  BY InitMaps DEF Init
<1>2. ASSUME BoundedInv, [Next]_vars
      PROVE  [Contract!Next]_status
  <2>1. ASSUME NEW m \in Message, SendFits(m) PROVE Contract!Next
    BY <1>2, <2>1, SendFitsMaps DEF Contract!Next, Contract!Message, Message
  <2>2. ASSUME NEW m \in Message, Overflow(m) PROVE Contract!Next
    BY <1>2, <2>2, OverflowDropOldestMaps, OverflowRefusedMaps
       DEF Overflow, Contract!Next, Contract!Message, Message
  <2>3. CASE Operate
    BY <1>2, <2>3, OperateMaps DEF BoundedInv
  <2>4. CASE UNCHANGED vars
    BY <2>4 DEF vars, mailboxVars, status
  <2> QED BY <1>2, <2>1, <2>2, <2>3, <2>4 DEF Next
<1> QED BY <1>1, <1>2, BoundedInvariance, PTL DEF Spec, ImplementsDelivery, Contract!Spec
=============================================================================
