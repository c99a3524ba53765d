------------------------- MODULE MailboxRecordProofs -------------------------
(***************************************************************************)
(* Lemmas about a mailbox as a value and about the line of calls that have *)
(* been sent and have not begun: what one synchronous call of a mailbox    *)
(* keeps, moves and starts.  The proofs about Supervision and Transfer     *)
(* rest on them.                                                           *)
(***************************************************************************)
EXTENDS MailboxRecord, TLAPS

\* What a mailbox has yet to do or is doing.
Contents(b) == Queue(b) \cup b.running

\* Each message of it is there once.
Distinct(b) ==
  /\ \A i, j \in 1..Len(b.queue) : b.queue[i] = b.queue[j] => i = j
  /\ Queue(b) \cap b.running = {}

\* A dispatch starts the head, and the rest are the other messages.
LEMMA TailOfDistinct ==
  ASSUME NEW M, NEW q \in Seq(M), q # << >>
  PROVE  /\ Tail(q) \in Seq(M) /\ Head(q) \in M
         /\ {q[i] : i \in 1..Len(q)} = {Head(q)} \cup {Tail(q)[i] : i \in 1..Len(Tail(q))}
         /\ (\A i, j \in 1..Len(q) : q[i] = q[j] => i = j) =>
              /\ \A i, j \in 1..Len(Tail(q)) : Tail(q)[i] = Tail(q)[j] => i = j
              /\ Head(q) \notin {Tail(q)[i] : i \in 1..Len(Tail(q))}
<1>1. /\ Len(q) \in Nat /\ Len(q) # 0
      /\ Len(Tail(q)) = Len(q) - 1
      /\ Head(q) = q[1]
      /\ \A i \in 1..Len(Tail(q)) : Tail(q)[i] = q[i + 1]
      /\ Tail(q) \in Seq(M) /\ Head(q) \in M
  OBVIOUS
<1>2. ASSUME NEW i \in 1..Len(q) PROVE q[i] \in {Head(q)} \cup {Tail(q)[j] : j \in 1..Len(Tail(q))}
  <2>1. CASE i = 1
    BY <1>1, <2>1
  <2>2. CASE i # 1
    <3>1. i - 1 \in 1..Len(Tail(q)) /\ Tail(q)[i - 1] = q[i]
      BY <1>1, <2>2
    <3> QED BY <3>1
  <2> QED BY <2>1, <2>2
<1>3. ASSUME NEW j \in 1..Len(Tail(q)) PROVE Tail(q)[j] \in {q[i] : i \in 1..Len(q)}
  <2>1. j + 1 \in 1..Len(q) /\ Tail(q)[j] = q[j + 1]
    BY <1>1
  <2> QED BY <2>1
<1>4. Head(q) \in {q[i] : i \in 1..Len(q)}
  BY <1>1
<1>5. ASSUME \A i, j \in 1..Len(q) : q[i] = q[j] => i = j
      PROVE  /\ \A i, j \in 1..Len(Tail(q)) : Tail(q)[i] = Tail(q)[j] => i = j
             /\ Head(q) \notin {Tail(q)[i] : i \in 1..Len(Tail(q))}
  <2>1. \A i \in 1..Len(Tail(q)) : i + 1 \in 1..Len(q) /\ i + 1 # 1
    BY <1>1
  <2>2. 1 \in 1..Len(q)
    BY <1>1
  <2> QED BY <1>1, <1>5, <2>1, <2>2
<1> QED BY <1>1, <1>2, <1>3, <1>4, <1>5

LEMMA DispatchedMoves ==
  ASSUME NEW M, NEW b \in MailboxOf(M)
  PROVE  LET c == Dispatched(b) IN
         /\ c \in MailboxOf(M)
         /\ c.closed = b.closed /\ c.suspended = b.suspended /\ c.settling = b.settling
         /\ Contents(c) = Contents(b)
         /\ Queue(c) \subseteq Queue(b) /\ b.running \subseteq c.running
         /\ b.closed => c = b
         /\ Distinct(b) => Distinct(c)
<1>1. CASE ~isReceivable(b)
  BY <1>1 DEF Dispatched
<1>2. CASE isReceivable(b)
  <2> DEFINE c == Dispatched(b)
  <2>1. b.queue \in Seq(M) /\ b.queue # << >> /\ ~b.closed
    BY <1>2 DEF isReceivable, MailboxOf
  <2>2. c = [b EXCEPT !.queue = Tail(b.queue), !.running = b.running \cup {Head(b.queue)}]
    BY <1>2 DEF Dispatched
  <2>3. /\ c.closed = b.closed /\ c.suspended = b.suspended /\ c.settling = b.settling
        /\ c.queue = Tail(b.queue) /\ c.running = b.running \cup {Head(b.queue)}
    BY <2>2 DEF MailboxOf
  <2>4. Queue(b) = {Head(b.queue)} \cup Queue(c)
    <3>1. Queue(b) = {Head(b.queue)} \cup {Tail(b.queue)[i] : i \in 1..Len(Tail(b.queue))}
      BY <2>1, TailOfDistinct DEF Queue
    <3> QED BY <2>3, <3>1 DEF Queue
  <2>5. c \in MailboxOf(M)
    <3>1. Tail(b.queue) \in Seq(M) /\ Head(b.queue) \in M
      BY <2>1, TailOfDistinct
    <3>2. b.running \cup {Head(b.queue)} \in SUBSET M
      BY <3>1 DEF MailboxOf
    <3> QED BY <2>2, <3>1, <3>2 DEF MailboxOf
  <2>6. Distinct(b) => Distinct(c)
    <3> SUFFICES ASSUME Distinct(b) PROVE Distinct(c)
      OBVIOUS
    <3>1. /\ \A i, j \in 1..Len(c.queue) : c.queue[i] = c.queue[j] => i = j
          /\ Head(b.queue) \notin Queue(c)
      BY <2>1, <2>3, TailOfDistinct DEF Distinct, Queue
    <3>2. Queue(c) \cap c.running = {}
      BY <2>3, <2>4, <3>1 DEF Distinct
    <3> QED BY <3>1, <3>2 DEF Distinct
  <2> HIDE DEF c
  <2>7. Contents(c) = Contents(b) /\ Queue(c) \subseteq Queue(b) /\ b.running \subseteq c.running
    BY <2>3, <2>4 DEF Contents
  <2> QED BY <2>1, <2>3, <2>5, <2>6, <2>7 DEF c
<1> QED BY <1>1, <1>2

\* A send adds one message, unless the mailbox is closed.
LEMMA SentAdds ==
  ASSUME NEW M, NEW b \in MailboxOf(M), NEW m \in M
  PROVE  LET c == Sent(b, m) IN
         /\ c \in MailboxOf(M)
         /\ c.closed = b.closed /\ c.suspended = b.suspended /\ c.settling = b.settling
         /\ b.closed => c = b
         /\ ~b.closed => Contents(c) = Contents(b) \cup {m}
         /\ Queue(c) \subseteq Queue(b) \cup {m} /\ b.running \subseteq c.running
         /\ Distinct(b) /\ m \notin Contents(b) => Distinct(c)
<1>1. CASE b.closed
  BY <1>1 DEF Sent
<1>2. CASE ~b.closed
  <2> DEFINE d == [b EXCEPT !.queue = Append(b.queue, m)]
  <2>1. b.queue \in Seq(M) /\ Append(b.queue, m) \in Seq(M)
    BY DEF MailboxOf
  <2>2. d \in MailboxOf(M)
    BY <2>1 DEF MailboxOf
  <2>3. /\ d.closed = b.closed /\ d.suspended = b.suspended /\ d.settling = b.settling
        /\ d.running = b.running /\ d.queue = Append(b.queue, m)
    BY DEF MailboxOf
  <2>4. Queue(d) = Queue(b) \cup {m}
    <3>1. /\ Len(d.queue) = Len(b.queue) + 1 /\ Len(b.queue) \in Nat
          /\ \A i \in 1..Len(b.queue) : d.queue[i] = b.queue[i]
          /\ d.queue[Len(b.queue) + 1] = m
      BY <2>1, <2>3
    <3>2. ASSUME NEW i \in 1..Len(d.queue) PROVE d.queue[i] \in Queue(b) \cup {m}
      BY <3>1 DEF Queue
    <3>3. ASSUME NEW i \in 1..Len(b.queue) PROVE b.queue[i] \in Queue(d)
      <4>1. i \in 1..Len(d.queue) /\ d.queue[i] = b.queue[i]
        BY <3>1
      <4> QED BY <4>1 DEF Queue
    <3>4. m \in Queue(d)
      BY <3>1 DEF Queue
    <3> QED BY <3>2, <3>3, <3>4 DEF Queue
  <2>5. Distinct(b) /\ m \notin Contents(b) => Distinct(d)
    <3> SUFFICES ASSUME Distinct(b), m \notin Contents(b) PROVE Distinct(d)
      OBVIOUS
    <3>1. ASSUME NEW i \in 1..Len(d.queue), NEW j \in 1..Len(d.queue), d.queue[i] = d.queue[j]
          PROVE  i = j
      <4>1. /\ Len(d.queue) = Len(b.queue) + 1 /\ Len(b.queue) \in Nat
            /\ \A k \in 1..Len(b.queue) : d.queue[k] = b.queue[k] /\ b.queue[k] # m
            /\ d.queue[Len(b.queue) + 1] = m
        BY <2>1, <2>3 DEF Contents, Queue
      <4>2. CASE i \in 1..Len(b.queue) /\ j \in 1..Len(b.queue)
        BY <3>1, <4>1, <4>2 DEF Distinct
      <4>3. CASE ~(i \in 1..Len(b.queue) /\ j \in 1..Len(b.queue))
        BY <3>1, <4>1, <4>3
      <4> QED BY <4>2, <4>3
    <3>2. Queue(d) \cap d.running = {}
      BY <2>3, <2>4 DEF Distinct, Contents
    <3> QED BY <3>1, <3>2 DEF Distinct
  <2>6. Sent(b, m) = Dispatched(d)
    BY <1>2 DEF Sent
  <2> HIDE DEF d
  <2> QED BY <1>2, <2>2, <2>3, <2>4, <2>5, <2>6, DispatchedMoves DEF Contents
<1> QED BY <1>1, <1>2

\* A handler leaves, and the other messages stay.
LEMMA EndedRemoves ==
  ASSUME NEW M, NEW b \in MailboxOf(M), NEW m \in M
  PROVE  LET c == Ended(b, m) IN
         /\ c \in MailboxOf(M)
         /\ c.closed = b.closed /\ c.suspended = b.suspended
         /\ c.queue = b.queue /\ c.running = b.running \ {m}
         /\ c.settling = b.settling \cup {m}
<1>1. /\ b.running \ {m} \in SUBSET M
      /\ b.settling \cup {m} \in SUBSET M
  BY DEF MailboxOf
<1> QED BY <1>1 DEF Ended, MailboxOf

LEMMA FailedRemoves ==
  ASSUME NEW M, NEW b \in MailboxOf(M), NEW m \in M
  PROVE  LET c == Failed(b, m) IN
         /\ c \in MailboxOf(M)
         /\ c.closed = b.closed /\ c.suspended = TRUE
         /\ c.running = b.running \ {m} /\ c.settling = b.settling \cup {m}
         /\ Queue(c) = Queue(b)
         /\ Contents(c) \subseteq Contents(b) /\ Contents(b) \subseteq Contents(c) \cup {m}
         /\ Distinct(b) => Distinct(c)
         /\ Distinct(b) /\ m \in b.running => m \notin Contents(c)
<1> DEFINE d == Ended(b, m)
<1>1. /\ d \in MailboxOf(M) /\ d.closed = b.closed
      /\ d.settling = b.settling \cup {m} /\ d.queue = b.queue /\ d.running = b.running \ {m}
  BY EndedRemoves
<1>2. Failed(b, m) = [d EXCEPT !.suspended = TRUE]
  BY DEF Failed
<1> HIDE DEF d
<1>3. /\ Failed(b, m) \in MailboxOf(M)
      /\ Failed(b, m).closed = b.closed /\ Failed(b, m).suspended = TRUE
      /\ Failed(b, m).running = b.running \ {m} /\ Failed(b, m).settling = b.settling \cup {m}
      /\ Failed(b, m).queue = b.queue
  BY <1>1, <1>2 DEF MailboxOf
<1> QED BY <1>3 DEF Contents, Queue, Distinct

\* The dispatch loop of m goes on.
LEMMA ContinuedMoves ==
  ASSUME NEW M, NEW b \in MailboxOf(M), NEW m
  PROVE  LET c == Continued(b, m) IN
         /\ c \in MailboxOf(M)
         /\ c.closed = b.closed /\ c.suspended = b.suspended /\ c.settling = b.settling \ {m}
         /\ Contents(c) = Contents(b)
         /\ Queue(c) \subseteq Queue(b) /\ b.running \subseteq c.running
         /\ b.closed => Queue(c) = Queue(b) /\ c.running = b.running
         /\ Distinct(b) => Distinct(c)
<1> DEFINE d == [b EXCEPT !.settling = @ \ {m}]
<1>1. /\ d \in MailboxOf(M) /\ d.closed = b.closed /\ d.suspended = b.suspended
      /\ d.settling = b.settling \ {m} /\ d.queue = b.queue /\ d.running = b.running
  BY DEF MailboxOf
<1>2. Contents(d) = Contents(b) /\ Queue(d) = Queue(b) /\ (Distinct(b) => Distinct(d))
  BY <1>1 DEF Contents, Queue, Distinct
<1>3. Continued(b, m) = Dispatched(d)
  BY DEF Continued
<1> HIDE DEF d
<1> QED BY <1>1, <1>2, <1>3, DispatchedMoves

LEMMA ResumedMoves ==
  ASSUME NEW M, NEW b \in MailboxOf(M)
  PROVE  LET c == Resumed(b) IN
         /\ c \in MailboxOf(M)
         /\ c.closed = b.closed /\ c.suspended = FALSE /\ c.settling = b.settling
         /\ Contents(c) = Contents(b)
         /\ Queue(c) \subseteq Queue(b) /\ b.running \subseteq c.running
         /\ b.closed => Queue(c) = Queue(b) /\ c.running = b.running
         /\ Distinct(b) => Distinct(c)
<1> DEFINE d == [b EXCEPT !.suspended = FALSE]
<1>1. /\ d \in MailboxOf(M) /\ d.closed = b.closed /\ d.suspended = FALSE
      /\ d.settling = b.settling /\ d.queue = b.queue /\ d.running = b.running
  BY DEF MailboxOf
<1>2. Contents(d) = Contents(b) /\ Queue(d) = Queue(b) /\ (Distinct(b) => Distinct(d))
  BY <1>1 DEF Contents, Queue, Distinct
<1>3. Resumed(b) = Dispatched(d)
  BY DEF Resumed
<1> HIDE DEF d
<1> QED BY <1>1, <1>2, <1>3, DispatchedMoves

LEMMA LargerMailbox ==
  ASSUME NEW M, NEW N, M \subseteq N
  PROVE  MailboxOf(M) \subseteq MailboxOf(N)
<1>1. Seq(M) \subseteq Seq(N)
  OBVIOUS
<1> QED BY <1>1 DEF MailboxOf

-----------------------------------------------------------------------------
(* Sequences of calls                                                       *)

Members(s) == {s[i] : i \in 1..Len(s)}

\* x stands before y in s; no call stands before itself where each is once.
Precedes(s, x, y) == \E i, j \in 1..Len(s) : i < j /\ s[i] = x /\ s[j] = y

LEMMA ConcatElements ==
  ASSUME NEW M, NEW s \in Seq(M), NEW t \in Seq(M)
  PROVE  /\ s \o t \in Seq(M)
         /\ Len(s) \in Nat /\ Len(t) \in Nat /\ Len(s \o t) = Len(s) + Len(t)
         /\ \A i \in 1..Len(s) : (s \o t)[i] = s[i]
         /\ \A i \in 1..Len(t) : (s \o t)[Len(s) + i] = t[i]
         /\ \A i \in 1..Len(s \o t) : i \in 1..Len(s) \/ i - Len(s) \in 1..Len(t)
OBVIOUS

LEMMA ConcatAssociates ==
  ASSUME NEW M, NEW f \in Seq(M), NEW g \in Seq(M), NEW h \in Seq(M)
  PROVE  f \o g \in Seq(M) /\ (f \o g) \o h = f \o (g \o h)
OBVIOUS

LEMMA MembersOfConcat ==
  ASSUME NEW M, NEW s \in Seq(M), NEW t \in Seq(M)
  PROVE  Members(s \o t) = Members(s) \cup Members(t)
<1> DEFINE u == s \o t
<1>1. /\ Len(s) \in Nat /\ Len(t) \in Nat /\ Len(u) = Len(s) + Len(t)
      /\ \A i \in 1..Len(s) : u[i] = s[i]
      /\ \A i \in 1..Len(t) : u[Len(s) + i] = t[i]
  BY ConcatElements
<1> HIDE DEF u
<1>2. ASSUME NEW i \in 1..Len(u) PROVE u[i] \in Members(s) \cup Members(t)
  <2>1. CASE i \in 1..Len(s)
    BY <1>1, <2>1 DEF Members
  <2>2. CASE i \notin 1..Len(s)
    <3>1. i - Len(s) \in 1..Len(t) /\ u[i] = t[i - Len(s)]
      <4>1. i - Len(s) \in 1..Len(t) /\ Len(s) + (i - Len(s)) = i
        BY <1>1, <2>2
      <4> QED BY <1>1, <4>1
    <3> QED BY <3>1 DEF Members
  <2> QED BY <2>1, <2>2
<1>3. ASSUME NEW i \in 1..Len(s) PROVE s[i] \in Members(u)
  <2>1. i \in 1..Len(u) /\ u[i] = s[i]
    BY <1>1
  <2> QED BY <2>1 DEF Members
<1>4. ASSUME NEW i \in 1..Len(t) PROVE t[i] \in Members(u)
  <2>1. Len(s) + i \in 1..Len(u) /\ u[Len(s) + i] = t[i]
    BY <1>1
  <2> QED BY <2>1 DEF Members
<1> QED BY <1>2, <1>3, <1>4 DEF Members, u

LEMMA PrecedesInConcat ==
  ASSUME NEW M, NEW s \in Seq(M), NEW t \in Seq(M), NEW x, NEW y
  PROVE  Precedes(s \o t, x, y) <=>
           \/ Precedes(s, x, y)
           \/ Precedes(t, x, y)
           \/ x \in Members(s) /\ y \in Members(t)
<1> DEFINE u == s \o t
<1>1. /\ Len(s) \in Nat /\ Len(t) \in Nat /\ Len(u) = Len(s) + Len(t)
      /\ \A i \in 1..Len(s) : u[i] = s[i]
      /\ \A i \in 1..Len(t) : u[Len(s) + i] = t[i]
  BY ConcatElements
<1> HIDE DEF u
<1>2. ASSUME NEW i \in 1..Len(u), NEW j \in 1..Len(u), i < j, u[i] = x, u[j] = y
      PROVE  Precedes(s, x, y) \/ Precedes(t, x, y) \/ (x \in Members(s) /\ y \in Members(t))
  <2>1. ASSUME NEW k \in 1..Len(u), k \notin 1..Len(s)
        PROVE  k - Len(s) \in 1..Len(t) /\ u[k] = t[k - Len(s)]
    <3>1. k - Len(s) \in 1..Len(t) /\ Len(s) + (k - Len(s)) = k
      BY <1>1, <2>1
    <3> QED BY <1>1, <3>1
  <2>2. CASE j \in 1..Len(s)
    <3>1. i \in 1..Len(s) /\ s[i] = x /\ s[j] = y
      BY <1>1, <1>2, <2>2
    <3> QED BY <1>2, <2>2, <3>1 DEF Precedes
  <2>3. CASE i \notin 1..Len(s)
    <3>1. j \notin 1..Len(s) /\ i - Len(s) < j - Len(s)
      BY <1>1, <1>2, <2>3
    <3>2. /\ i - Len(s) \in 1..Len(t) /\ t[i - Len(s)] = x
          /\ j - Len(s) \in 1..Len(t) /\ t[j - Len(s)] = y
      BY <1>2, <2>1, <2>3, <3>1
    <3> QED BY <3>1, <3>2 DEF Precedes
  <2>4. CASE i \in 1..Len(s) /\ j \notin 1..Len(s)
    BY <1>1, <1>2, <2>1, <2>4 DEF Members
  <2> QED BY <2>2, <2>3, <2>4
<1>3. ASSUME NEW i \in 1..Len(s), NEW j \in 1..Len(s), i < j, s[i] = x, s[j] = y
      PROVE  Precedes(u, x, y)
  <2>1. i \in 1..Len(u) /\ j \in 1..Len(u) /\ u[i] = x /\ u[j] = y
    BY <1>1, <1>3
  <2> QED BY <1>3, <2>1 DEF Precedes
<1>4. ASSUME NEW i \in 1..Len(t), NEW j \in 1..Len(t), i < j, t[i] = x, t[j] = y
      PROVE  Precedes(u, x, y)
  <2>1. /\ Len(s) + i \in 1..Len(u) /\ Len(s) + j \in 1..Len(u) /\ Len(s) + i < Len(s) + j
        /\ u[Len(s) + i] = x /\ u[Len(s) + j] = y
    BY <1>1, <1>4
  <2> QED BY <2>1 DEF Precedes
<1>5. ASSUME NEW i \in 1..Len(s), NEW j \in 1..Len(t), s[i] = x, t[j] = y
      PROVE  Precedes(u, x, y)
  <2>1. /\ i \in 1..Len(u) /\ Len(s) + j \in 1..Len(u) /\ i < Len(s) + j
        /\ u[i] = x /\ u[Len(s) + j] = y
    BY <1>1, <1>5
  <2> QED BY <2>1 DEF Precedes
<1>6. Precedes(s, x, y) => Precedes(u, x, y)
  BY <1>3 DEF Precedes
<1>7. Precedes(t, x, y) => Precedes(u, x, y)
  BY <1>4 DEF Precedes
<1>8. x \in Members(s) /\ y \in Members(t) => Precedes(u, x, y)
  BY <1>5 DEF Members
<1>9. Precedes(u, x, y) => Precedes(s, x, y) \/ Precedes(t, x, y) \/ (x \in Members(s) /\ y \in Members(t))
  BY <1>2 DEF Precedes
<1> QED BY <1>6, <1>7, <1>8, <1>9 DEF u

LEMMA AppendedLast ==
  ASSUME NEW M, NEW s \in Seq(M), NEW m \in M
  PROVE  /\ Append(s, m) \in Seq(M)
         /\ Members(Append(s, m)) = Members(s) \cup {m}
         /\ \A x, y : Precedes(Append(s, m), x, y) <=>
                        (Precedes(s, x, y) \/ (x \in Members(s) /\ y = m))
<1> DEFINE one == <<m>>
<1>1. Append(s, m) = s \o one /\ one \in Seq(M) /\ Append(s, m) \in Seq(M)
  OBVIOUS
<1>2. Members(one) = {m} /\ \A x, y : ~Precedes(one, x, y)
  <2>1. Len(one) = 1 /\ one[1] = m /\ 1..1 = {1}
    OBVIOUS
  <2> QED BY <2>1 DEF Members, Precedes
<1> HIDE DEF one
<1>3. Members(s \o one) = Members(s) \cup Members(one)
  BY <1>1, MembersOfConcat
<1>4. ASSUME NEW x, NEW y
      PROVE  Precedes(s \o one, x, y) <=>
               \/ Precedes(s, x, y) \/ Precedes(one, x, y)
               \/ (x \in Members(s) /\ y \in Members(one))
  BY <1>1, PrecedesInConcat
<1> QED BY <1>1, <1>2, <1>3, <1>4

LEMMA HeadFirst ==
  ASSUME NEW M, NEW s \in Seq(M), s # << >>
  PROVE  /\ Head(s) \in M /\ Tail(s) \in Seq(M)
         /\ Members(s) = {Head(s)} \cup Members(Tail(s))
         /\ \A x, y : Precedes(Tail(s), x, y) => Precedes(s, x, y)
         /\ \A y \in Members(Tail(s)) : Precedes(s, Head(s), y)
<1> DEFINE h == <<Head(s)>>
           r == Tail(s)
<1>1. Head(s) \in M /\ r \in Seq(M) /\ h \in Seq(M) /\ s = h \o r
  OBVIOUS
<1>2. Members(h) = {Head(s)}
  <2>1. Len(h) = 1 /\ h[1] = Head(s) /\ 1..1 = {1}
    OBVIOUS
  <2> QED BY <2>1 DEF Members
<1> HIDE DEF h
<1>3. Members(h \o r) = Members(h) \cup Members(r)
  <2> HIDE DEF r
  <2> QED BY <1>1, MembersOfConcat
<1>4. ASSUME NEW x, NEW y
      PROVE  Precedes(h \o r, x, y) <=>
               \/ Precedes(h, x, y) \/ Precedes(r, x, y)
               \/ (x \in Members(h) /\ y \in Members(r))
  <2> HIDE DEF r
  <2> QED BY <1>1, PrecedesInConcat
<1> QED BY <1>1, <1>2, <1>3, <1>4

-----------------------------------------------------------------------------
(* What a step starts                                                       *)

\* With q queued, b becomes c and the handlers of the first of q start.
Starts(M, b, q, c) ==
  \E f \in Seq(M) : q = f \o c.queue /\ c.running = b.running \cup Members(f)

\* The first of q, as Transfer computes them.
LEMMA ShiftedFirst ==
  ASSUME NEW M, NEW f \in Seq(M), NEW r \in Seq(M)
  PROVE  SubSeq(f \o r, 1, Len(f \o r) - Len(r)) = f
<1> DEFINE q == f \o r
           g == SubSeq(q, 1, Len(f))
<1>1. /\ q \in Seq(M) /\ Len(f) \in Nat /\ Len(r) \in Nat /\ Len(q) - Len(r) = Len(f)
      /\ Len(f) <= Len(q) /\ \A i \in 1..Len(f) : q[i] = f[i]
  BY ConcatElements
<1> HIDE DEF q
<1>2. g \in Seq(M) /\ Len(g) = Len(f) /\ \A i \in 1..Len(f) : g[i] = q[i]
  BY <1>1
<1> HIDE DEF g
<1>3. g = f
  BY <1>1, <1>2
<1> QED BY <1>1, <1>3 DEF q, g

LEMMA StartsNothing ==
  ASSUME NEW M, NEW b \in MailboxOf(M), NEW c, c.queue = b.queue, c.running = b.running
  PROVE  Starts(M, b, b.queue, c)
<1> DEFINE none == << >>
<1>1. none \in Seq(M) /\ b.queue \in Seq(M) /\ none \o b.queue = b.queue /\ Len(none) = 0
  BY DEF MailboxOf
<1>2. Members(none) = {}
  BY <1>1 DEF Members
<1> HIDE DEF none
<1> QED BY <1>1, <1>2 DEF Starts

LEMMA DispatchedStarts ==
  ASSUME NEW M, NEW b \in MailboxOf(M)
  PROVE  Starts(M, b, b.queue, Dispatched(b))
<1>1. CASE ~isReceivable(b)
  BY <1>1, StartsNothing DEF Dispatched
<1>2. CASE isReceivable(b)
  <2> DEFINE one == <<Head(b.queue)>>
             c == Dispatched(b)
  <2>1. b.queue \in Seq(M) /\ b.queue # << >>
    BY <1>2 DEF isReceivable, MailboxOf
  <2>2. one \in Seq(M) /\ b.queue = one \o Tail(b.queue)
    BY <2>1
  <2>3. Members(one) = {Head(b.queue)}
    <3>1. Len(one) = 1 /\ one[1] = Head(b.queue) /\ 1..1 = {1}
      OBVIOUS
    <3> QED BY <3>1 DEF Members
  <2>4. c.queue = Tail(b.queue) /\ c.running = b.running \cup {Head(b.queue)}
    BY <1>2 DEF Dispatched, MailboxOf
  <2> HIDE DEF one, c
  <2> QED BY <2>2, <2>3, <2>4 DEF Starts, c
<1> QED BY <1>1, <1>2

LEMMA SentStarts ==
  ASSUME NEW M, NEW b \in MailboxOf(M), NEW m \in M, ~b.closed
  PROVE  Starts(M, b, Append(b.queue, m), Sent(b, m))
<1> DEFINE d == [b EXCEPT !.queue = Append(b.queue, m)]
<1>1. Append(b.queue, m) \in Seq(M)
  BY DEF MailboxOf
<1>2. d \in MailboxOf(M) /\ d.queue = Append(b.queue, m) /\ d.running = b.running
  BY <1>1 DEF MailboxOf
<1>3. Sent(b, m) = Dispatched(d)
  BY DEF Sent
<1> HIDE DEF d
<1> QED BY <1>2, <1>3, DispatchedStarts DEF Starts

LEMMA ResumedStarts ==
  ASSUME NEW M, NEW b \in MailboxOf(M)
  PROVE  Starts(M, b, b.queue, Resumed(b))
<1> DEFINE d == [b EXCEPT !.suspended = FALSE]
<1>1. d \in MailboxOf(M) /\ d.queue = b.queue /\ d.running = b.running
  BY DEF MailboxOf
<1>2. Resumed(b) = Dispatched(d)
  BY DEF Resumed
<1> HIDE DEF d
<1> QED BY <1>1, <1>2, DispatchedStarts DEF Starts

LEMMA ContinuedStarts ==
  ASSUME NEW M, NEW b \in MailboxOf(M), NEW m
  PROVE  Starts(M, b, b.queue, Continued(b, m))
<1> DEFINE d == [b EXCEPT !.settling = @ \ {m}]
<1>1. d \in MailboxOf(M) /\ d.queue = b.queue /\ d.running = b.running
  BY DEF MailboxOf
<1>2. Continued(b, m) = Dispatched(d)
  BY DEF Continued
<1> HIDE DEF d
<1> QED BY <1>1, <1>2, DispatchedStarts DEF Starts

LEMMA SentTwiceStarts ==
  ASSUME NEW M, NEW b \in MailboxOf(M), NEW m \in M, NEW n \in M, ~b.closed
  PROVE  Starts(M, b, Append(Append(b.queue, m), n), Sent(Sent(b, m), n))
<1> DEFINE c == Sent(b, m)
           d == Sent(c, n)
           q == Append(b.queue, m)
<1>1. c \in MailboxOf(M) /\ ~c.closed /\ b.queue \in Seq(M) /\ q \in Seq(M) /\ c.queue \in Seq(M)
  BY SentAdds DEF MailboxOf
<1>2. d \in MailboxOf(M) /\ d.queue \in Seq(M)
  <2> HIDE DEF c
  <2> QED BY <1>1, SentAdds DEF MailboxOf
<1>3. PICK f \in Seq(M) : q = f \o c.queue /\ c.running = b.running \cup Members(f)
  BY SentStarts DEF Starts
<1>4. PICK g \in Seq(M) : Append(c.queue, n) = g \o d.queue /\ d.running = c.running \cup Members(g)
  <2> HIDE DEF c
  <2> QED BY <1>1, SentStarts DEF Starts
<1> DEFINE r == c.queue
           u == d.queue
<1>5. /\ q \in Seq(M) /\ r \in Seq(M) /\ u \in Seq(M) /\ n \in M
      /\ q = f \o r /\ Append(r, n) = g \o u
  BY <1>1, <1>2, <1>3, <1>4
<1> HIDE DEF c, d, q, r, u
<1>6. Append(q, n) = (f \o g) \o u /\ f \o g \in Seq(M)
  <2>1. Append(q, n) = f \o Append(r, n)
    <3> DEFINE one == <<n>>
    <3>1. q \in Seq(M) /\ r \in Seq(M) /\ n \in M
      BY <1>5
    <3>2. Append(q, n) = q \o one /\ one \in Seq(M)
      BY ONLY <3>1
    <3>3. Append(r, n) = r \o one
      BY ONLY <3>1
    <3> HIDE DEF one
    <3>4. (f \o r) \o one = f \o (r \o one)
      BY <1>5, <3>2, ConcatAssociates
    <3> QED BY <1>5, <3>2, <3>3, <3>4
  <2>2. f \o g \in Seq(M) /\ (f \o g) \o u = f \o (g \o u)
    BY <1>5, ConcatAssociates
  <2> QED BY <1>5, <2>1, <2>2
<1>7. d.running = b.running \cup Members(f \o g)
  BY <1>3, <1>4, MembersOfConcat
<1> QED BY <1>6, <1>7 DEF Starts, c, d, q, u

\* The line of an actor: s has begun, q is queued, and what starts joins s.
Moves(M, s, q, b, c) ==
  \E f \in Seq(M) :
    /\ s \o SubSeq(q, 1, Len(q) - Len(c.queue)) = s \o f
    /\ q = f \o c.queue
    /\ c.running = b.running \cup Members(f)
    /\ (s \o f) \o c.queue = s \o q

LEMMA LineMoves ==
  ASSUME NEW M, NEW s \in Seq(M), NEW q \in Seq(M), NEW b, NEW c \in MailboxOf(M),
         Starts(M, b, q, c)
  PROVE  Moves(M, s, q, b, c)
<1>1. PICK f \in Seq(M) : q = f \o c.queue /\ c.running = b.running \cup Members(f)
  BY DEF Starts
<1> DEFINE r == c.queue
<1>2. r \in Seq(M)
  BY DEF MailboxOf
<1> HIDE DEF r
<1>3. SubSeq(f \o r, 1, Len(f \o r) - Len(r)) = f
  BY <1>2, ShiftedFirst
<1>4. (s \o f) \o r = s \o (f \o r)
  BY <1>2
<1> QED BY <1>1, <1>3, <1>4 DEF r, Moves
-----------------------------------------------------------------------------
(* What is never asleep                                                     *)

\* A message that could be handled has a dispatch loop that will get to it.
Awake(b) == isReceivable(b) => b.running \cup b.settling # {}

LEMMA DispatchedAwake ==
  ASSUME NEW M, NEW b \in MailboxOf(M)
  PROVE  Awake(Dispatched(b))
<1>1. CASE ~isReceivable(b)
  BY <1>1 DEF Dispatched, Awake
<1>2. CASE isReceivable(b)
  <2>1. Dispatched(b).running = b.running \cup {Head(b.queue)}
    BY <1>2 DEF Dispatched, MailboxOf
  <2> QED BY <2>1 DEF Awake
<1> QED BY <1>1, <1>2

\* Every call of a mailbox leaves it awake: one that may leave a receivable
\* message behind dispatches, suspends or has a loop that is about to go on.
LEMMA StaysAwake ==
  ASSUME NEW M, NEW b \in MailboxOf(M), NEW m, Awake(b)
  PROVE  /\ m \in M => Awake(Sent(b, m))
         /\ Awake(Resumed(b)) /\ Awake(Continued(b, m)) /\ Awake(Closed(b))
         /\ m \in M => Awake(Ended(b, m)) /\ Awake(Failed(b, m))
<1>1. ASSUME m \in M PROVE Awake(Sent(b, m))
  <2>1. CASE b.closed
    BY <2>1 DEF Sent
  <2>2. CASE ~b.closed
    <3> DEFINE d == [b EXCEPT !.queue = Append(@, m)]
    <3>1. Append(b.queue, m) \in Seq(M)
      BY <1>1 DEF MailboxOf
    <3>2. d \in MailboxOf(M) /\ Sent(b, m) = Dispatched(d)
      BY <2>2, <3>1 DEF MailboxOf, Sent
    <3> HIDE DEF d
    <3> QED BY <3>2, DispatchedAwake
  <2> QED BY <2>1, <2>2
<1>2. Awake(Resumed(b))
  <2> DEFINE d == [b EXCEPT !.suspended = FALSE]
  <2>1. d \in MailboxOf(M) /\ Resumed(b) = Dispatched(d)
    BY DEF MailboxOf, Resumed
  <2> HIDE DEF d
  <2> QED BY <2>1, DispatchedAwake
<1>3. Awake(Continued(b, m))
  <2> DEFINE d == [b EXCEPT !.settling = @ \ {m}]
  <2>1. d \in MailboxOf(M) /\ Continued(b, m) = Dispatched(d)
    BY DEF MailboxOf, Continued
  <2> HIDE DEF d
  <2> QED BY <2>1, DispatchedAwake
<1>4. Awake(Closed(b))
  BY DEF Closed, MailboxOf, Awake, isReceivable
<1>5. ASSUME m \in M PROVE Awake(Ended(b, m)) /\ Awake(Failed(b, m))
  <2>1. m \in Ended(b, m).settling
    BY <1>5, EndedRemoves
  <2>2. Failed(b, m).suspended = TRUE
    BY <1>5, FailedRemoves
  <2> QED BY <2>1, <2>2 DEF Awake, isReceivable
<1> QED BY <1>1, <1>2, <1>3, <1>4, <1>5
=============================================================================
