------------------------ MODULE MessageContextProofs ------------------------
(***************************************************************************)
(* Theorems about MessageContext, for every set of actors, collaborators   *)
(* and contexts and every number of messages.                              *)
(***************************************************************************)
EXTENDS MessageContext, TLAPS

-----------------------------------------------------------------------------
(* Where a message is                                                       *)

\* The elements of a sequence.
Elements(s) == {s[i] : i \in 1..Len(s)}

Once(s) == \A i, j \in 1..Len(s) : s[i] = s[j] => i = j

Known == 1..Len(messages)

\* The messages that have left the mailbox of their actor.
Taken == running \cup Elements(informs) \cup {d[1] : d \in deciding}

\* q may be the queue of a: messages to a, each once and none of them taken.
Waiting(a, q) ==
  /\ \A m \in Elements(q) : m \in Known /\ messages[m].to = a /\ m \notin Taken
  /\ Once(q)

Inv ==
  /\ TypeOK
  /\ \A a \in Actors : Waiting(a, queue[a])
  /\ Taken \subseteq Known
  /\ fresh \subseteq Elements(turn) \ awaiting
  /\ running \cap (Elements(informs) \cup {d[1] : d \in deciding}) = {}

\* A handler that ran alone has set the current context, and nobody else did.
AloneIsCurrent ==
  \A a \in Actors : \A m \in Running(a) \ overlapped :
    Running(a) = {m} /\ current[a] = messages[m].context

-----------------------------------------------------------------------------
(* Sequences                                                                *)

LEMMA TailElements ==
  ASSUME NEW S, NEW s \in Seq(S), s # << >>
  PROVE  /\ Head(s) \in S /\ Head(s) \in Elements(s) /\ Tail(s) \in Seq(S)
         /\ Elements(s) = {Head(s)} \cup Elements(Tail(s))
         /\ Once(s) => Once(Tail(s)) /\ Head(s) \notin Elements(Tail(s))
<1>1. /\ Len(s) \in Nat /\ Len(s) # 0 /\ Len(Tail(s)) = Len(s) - 1
      /\ Head(s) = s[1] /\ Tail(s) \in Seq(S) /\ Head(s) \in S
      /\ \A i \in 1..Len(Tail(s)) : Tail(s)[i] = s[i + 1] /\ i + 1 \in 1..Len(s)
  OBVIOUS
<1>2. ASSUME NEW i \in 1..Len(s) PROVE s[i] \in {Head(s)} \cup Elements(Tail(s))
  <2>1. CASE i = 1
    BY <1>1, <2>1
  <2>2. CASE i # 1
    <3>1. i - 1 \in 1..Len(Tail(s)) /\ Tail(s)[i - 1] = s[i]
      BY <1>1, <2>2
    <3> QED BY <3>1 DEF Elements
  <2> QED BY <2>1, <2>2
<1>3. Head(s) \in Elements(s) /\ Elements(Tail(s)) \subseteq Elements(s)
  BY <1>1 DEF Elements
<1>4. ASSUME Once(s) PROVE Once(Tail(s)) /\ Head(s) \notin Elements(Tail(s))
  <2>1. Once(Tail(s))
    BY <1>1, <1>4 DEF Once
  <2>2. \A i \in 1..Len(Tail(s)) : Tail(s)[i] # Head(s)
    <3>1. \A i \in 1..Len(Tail(s)) : i + 1 # 1
      OBVIOUS
    <3> QED BY <1>1, <1>4, <3>1 DEF Once
  <2> QED BY <2>1, <2>2 DEF Elements
<1> QED BY <1>1, <1>2, <1>3, <1>4 DEF Elements

LEMMA AppendElements ==
  ASSUME NEW S, NEW s \in Seq(S), NEW m \in S
  PROVE  /\ Append(s, m) \in Seq(S) /\ Append(s, m) # << >>
         /\ Elements(Append(s, m)) = Elements(s) \cup {m}
         /\ Once(s) /\ m \notin Elements(s) => Once(Append(s, m))
<1> DEFINE t == Append(s, m)
<1>1. /\ t \in Seq(S) /\ t # << >> /\ Len(s) \in Nat /\ Len(t) = Len(s) + 1
      /\ t[Len(s) + 1] = m /\ \A i \in 1..Len(s) : t[i] = s[i]
  OBVIOUS
<1> HIDE DEF t
<1>2. \A i \in 1..Len(t) : i \in 1..Len(s) \/ i = Len(s) + 1
  BY <1>1
<1>3. 1..Len(s) \subseteq 1..Len(t) /\ Len(s) + 1 \in 1..Len(t)
  BY <1>1
<1>4. Elements(t) = Elements(s) \cup {m}
  BY <1>1, <1>2, <1>3 DEF Elements
<1>5. ASSUME Once(s), m \notin Elements(s) PROVE Once(t)
  BY <1>1, <1>2, <1>5 DEF Once, Elements
<1> QED BY <1>1, <1>4, <1>5 DEF t

LEMMA PushElements ==
  ASSUME NEW S, NEW s \in Seq(S), NEW m \in S
  PROVE  /\ <<m>> \o s \in Seq(S)
         /\ Elements(<<m>> \o s) = Elements(s) \cup {m}
<1> DEFINE t == <<m>> \o s
<1>1. /\ t \in Seq(S) /\ Len(s) \in Nat /\ Len(t) = Len(s) + 1
      /\ t[1] = m /\ \A i \in 1..Len(s) : t[i + 1] = s[i]
  OBVIOUS
<1> HIDE DEF t
<1>2. \A i \in 1..Len(t) : i = 1 \/ i - 1 \in 1..Len(s)
  BY <1>1
<1>3. ASSUME NEW i \in 1..Len(t) PROVE t[i] \in Elements(s) \cup {m}
  <2>1. CASE i = 1
    BY <1>1, <2>1
  <2>2. CASE i - 1 \in 1..Len(s)
    <3>1. t[(i - 1) + 1] = s[i - 1] /\ (i - 1) + 1 = i
      BY <1>1, <2>2
    <3> QED BY <2>2, <3>1 DEF Elements
  <2> QED BY <1>2, <2>1, <2>2
<1>4. ASSUME NEW i \in 1..Len(s) PROVE s[i] \in Elements(t)
  <2>1. i + 1 \in 1..Len(t) /\ t[i + 1] = s[i]
    BY <1>1
  <2> QED BY <2>1 DEF Elements
<1>5. m \in Elements(t)
  <2>1. 1 \in 1..Len(t)
    BY <1>1
  <2> QED BY <1>1, <2>1 DEF Elements
<1> QED BY <1>1, <1>3, <1>4, <1>5 DEF Elements, t
-----------------------------------------------------------------------------
(* The types and the places are kept                                        *)

LEMMA KnownTyped ==
  ASSUME Inv
  PROVE  /\ Known \subseteq Message /\ Len(messages) \in Nat
         /\ \A m \in Known : /\ messages[m] \in MessageRecord
                             /\ messages[m].to \in Actors
                             /\ messages[m].context \in Context
         /\ running = Elements(turn) \cup awaiting
<1>1. messages \in Seq(MessageRecord) /\ Len(messages) <= MaxSends
  BY DEF Inv, TypeOK
<1>2. Len(messages) \in Nat /\ \A m \in Known : messages[m] \in MessageRecord
  BY <1>1 DEF Known
<1>3. Known \subseteq Message
  BY <1>1, <1>2, BoundAssumption DEF Known, Message
<1> QED BY <1>2, <1>3 DEF MessageRecord, running, Elements

LEMMA EmptyElements == Elements(<< >>) = {} /\ Once(<< >>)
BY DEF Elements, Once

LEMMA TypeInit == Init => Inv /\ AloneIsCurrent /\ CurrentIsRunning
<1> SUFFICES ASSUME Init PROVE Inv /\ AloneIsCurrent /\ CurrentIsRunning
  OBVIOUS
<1>1. /\ turn = << >> /\ awaiting = {} /\ fresh = {} /\ deciding = {} /\ informs = << >>
      /\ messages = << >> /\ queue = [a \in Actors |-> << >>]
      /\ overlapped = {} /\ suspended = {} /\ busy = FALSE
      /\ own = [a \in Actors |-> Empty] /\ current = [a \in Actors |-> Empty]
  BY DEF Init
<1>2. running = {} /\ Taken = {}
  BY <1>1, EmptyElements DEF running, Taken, Elements
<1>3. Len(messages) <= MaxSends
  BY <1>1, BoundAssumption
<1>4. TypeOK
  <2>1. own \in [Actors -> Context] /\ current \in [Actors -> Context]
    BY <1>1 DEF Context
  <2>2. /\ queue \in [Actors -> Seq(Message)] /\ messages \in Seq(MessageRecord)
        /\ turn \in Seq(Message) /\ informs \in Seq(Message)
    BY <1>1
  <2> QED BY <1>1, <1>3, <2>1, <2>2 DEF TypeOK
<1>5. \A a \in Actors : Waiting(a, queue[a])
  BY <1>1, EmptyElements DEF Waiting
<1>6. Inv
  BY <1>1, <1>2, <1>4, <1>5, EmptyElements DEF Inv
<1>7. \A a \in Actors : Running(a) = {} /\ current[a] = Empty
  BY <1>1, <1>2 DEF Running
<1> QED BY <1>6, <1>7 DEF AloneIsCurrent, CurrentIsRunning

\* The messages known so far stay as they are.
Grows ==
  /\ messages' \in Seq(MessageRecord) /\ Len(messages') <= MaxSends
  /\ \A m \in Known : m \in Known' /\ messages'[m] = messages[m]

LEMMA SameMessages == Inv /\ messages' = messages => Grows
BY DEF Grows, Inv, TypeOK, Known

\* deliver() of the head of a queue keeps everything in place.
LEMMA BeginKeeps ==
  ASSUME Inv, AloneIsCurrent, CurrentIsRunning, Grows, NEW a \in Actors, NEW q \in Seq(Message),
         q # << >>, Once(q),
         \A m \in Elements(q) : m \in Known' /\ messages'[m].to = a /\ m \notin Taken,
         Begin(a, q), awaiting' = awaiting, suspended' \subseteq Actors,
         UNCHANGED <<busy, informs>>, deciding' \subseteq deciding
  PROVE  Inv' /\ AloneIsCurrent' /\ CurrentIsRunning'
<1> DEFINE m == Head(q)
           T == {d[1] : d \in deciding}
<1>1. /\ m \in Message /\ m \in Elements(q) /\ Tail(q) \in Seq(Message)
      /\ Elements(q) = {m} \cup Elements(Tail(q))
      /\ Once(Tail(q)) /\ m \notin Elements(Tail(q))
  BY TailElements
<1>2. m \in Known' /\ messages'[m].to = a /\ m \notin Taken
  BY <1>1
<1>3. /\ queue' = [queue EXCEPT ![a] = Tail(q)]
      /\ current' = [current EXCEPT ![a] = messages'[m].context]
      /\ own' = Propagated(a, messages'[m].context)
      /\ turn' = <<m>> \o turn
      /\ fresh' = fresh \cup {m}
      /\ overlapped' = IF Running(a) = {} THEN overlapped ELSE overlapped \cup {m} \cup Running(a)
  BY DEF Begin
<1> HIDE DEF m
<1>4. turn' \in Seq(Message) /\ Elements(turn') = Elements(turn) \cup {m}
  BY <1>1, <1>3, PushElements DEF Inv, TypeOK
<1>5. /\ running = Elements(turn) \cup awaiting /\ running' = running \cup {m}
      /\ Elements(turn)' = Elements(turn) \cup {m}
  BY <1>4 DEF running, Elements
<1>6. /\ Taken = running \cup Elements(informs) \cup T
      /\ Taken' \subseteq Taken \cup {m}
      /\ {d[1] : d \in deciding'} \subseteq T
      /\ Elements(informs)' = Elements(informs)
  BY <1>5 DEF Taken, Elements
<1>7. /\ Known' = 1..Len(messages') /\ Len(messages') \in Nat
      /\ Known' \subseteq Message
      /\ \A k \in Known' : messages'[k] \in MessageRecord
  BY BoundAssumption DEF Grows, Known, Message
<1>8. messages'[m].context \in Context
  BY <1>2, <1>7 DEF MessageRecord
<1>9. TypeOK'
  <2>1. own' \in [Actors -> Context] /\ current' \in [Actors -> Context]
    BY <1>3, <1>8 DEF Inv, TypeOK, Propagated
  <2>2. queue' \in [Actors -> Seq(Message)]
    BY <1>1, <1>3 DEF Inv, TypeOK
  <2>3. fresh' \subseteq running'
    BY <1>3, <1>5 DEF Inv, TypeOK
  <2>4. overlapped' \subseteq Message
    BY <1>1, <1>3, KnownTyped DEF Inv, TypeOK, Running, Taken
  <2>5. deciding' \subseteq Message \X Context /\ informs' \in Seq(Message)
        /\ awaiting' \subseteq Message /\ busy' \in BOOLEAN
    BY DEF Inv, TypeOK
  <2> QED BY <1>4, <2>1, <2>2, <2>3, <2>4, <2>5 DEF TypeOK, Grows
<1>10. ASSUME NEW b \in Actors PROVE Waiting(b, queue[b])'
  <2>1. CASE b = a
    <3>1. queue'[b] = Tail(q)
      BY <1>3, <2>1 DEF Inv, TypeOK
    <3>2. \A k \in Elements(queue'[b]) : k \in Known' /\ messages'[k].to = b /\ k \notin Taken'
      BY <1>1, <1>6, <2>1, <3>1
    <3>3. Once(queue'[b])
      BY <1>1, <3>1
    <3> QED BY <3>2, <3>3 DEF Waiting, Elements, Once
  <2>2. CASE b # a
    <3>1. queue'[b] = queue[b] /\ Waiting(b, queue[b])
      BY <1>3, <2>2 DEF Inv, TypeOK
    <3>2. \A k \in Elements(queue[b]) : k \in Known /\ messages[k].to = b /\ k \notin Taken
      BY <3>1 DEF Waiting
    <3>3. \A k \in Elements(queue'[b]) : k \in Known' /\ messages'[k].to = b /\ k \notin Taken'
      BY <1>2, <1>6, <2>2, <3>1, <3>2 DEF Grows
    <3>4. Once(queue'[b])
      BY <3>1 DEF Waiting
    <3> QED BY <3>3, <3>4 DEF Waiting, Elements, Once
  <2> QED BY <2>1, <2>2
<1>11. Taken' \subseteq Known'
  BY <1>2, <1>6 DEF Inv, Grows
<1>12. fresh' \subseteq Elements(turn') \ awaiting'
  BY <1>2, <1>3, <1>4, <1>5, <1>6 DEF Inv
<1>13. running' \cap (Elements(informs') \cup {d[1] : d \in deciding'}) = {}
  BY <1>2, <1>5, <1>6 DEF Inv
<1>14. Inv'
  BY <1>9, <1>10, <1>11, <1>12, <1>13 DEF Inv, Elements
<1>15. Running(a)' = Running(a) \cup {m} /\ \A b \in Actors \ {a} : Running(b)' = Running(b)
  BY <1>2, <1>5 DEF Running, Grows, Inv, Taken
<1>16. current'[a] = messages'[m].context /\ \A b \in Actors \ {a} : current'[b] = current[b]
  BY <1>3 DEF Inv, TypeOK
<1>17. \A b \in Actors : \A k \in Running(b) : k \in Known /\ messages'[k] = messages[k]
  BY DEF Running, Inv, Taken, Grows
<1>18. AloneIsCurrent'
  <2> SUFFICES ASSUME NEW b \in Actors, NEW k \in Running(b)' \ overlapped'
               PROVE  Running(b)' = {k} /\ current'[b] = messages'[k].context
    BY DEF AloneIsCurrent
  <2>1. CASE b = a
    BY <1>3, <1>15, <1>16, <2>1
  <2>2. CASE b # a
    <3>1. k \in Running(b) \ overlapped
      BY <1>3, <1>15, <2>2
    <3> QED BY <1>15, <1>16, <1>17, <2>2, <3>1 DEF AloneIsCurrent
  <2> QED BY <2>1, <2>2
<1>19. CurrentIsRunning'
  <2> SUFFICES ASSUME NEW b \in Actors, current'[b] # Empty
               PROVE  \E k \in Running(b)' : messages'[k].context = current'[b]
    BY DEF CurrentIsRunning
  <2>1. CASE b = a
    BY <1>15, <1>16, <2>1
  <2>2. CASE b # a
    BY <1>15, <1>16, <1>17, <2>2 DEF CurrentIsRunning
  <2> QED BY <2>1, <2>2
<1> QED BY <1>14, <1>18, <1>19

\* A step in which no handler begins and no queue changes.
LEMMA NobodyBegins ==
  ASSUME Inv, TypeOK', messages' = messages, queue' = queue,
         Taken' \subseteq Taken, fresh' \subseteq Elements(turn') \ awaiting',
         running' \cap (Elements(informs') \cup {d[1] : d \in deciding'}) = {}
  PROVE  Inv'
<1>1. \A a \in Actors : Waiting(a, queue[a])'
  BY DEF Inv, Waiting, Known, Elements, Once
<1>2. Taken' \subseteq Known'
  BY DEF Inv, Known
<1> QED BY <1>1, <1>2 DEF Inv, Elements

\* A step that leaves the handlers where they are.
LEMMA ContextsStay ==
  ASSUME AloneIsCurrent, CurrentIsRunning, running' = running,
         UNCHANGED <<current, messages, overlapped>>
  PROVE  AloneIsCurrent' /\ CurrentIsRunning'
<1>1. \A a \in Actors : Running(a)' = Running(a)
  BY DEF Running
<1> QED BY <1>1 DEF AloneIsCurrent, CurrentIsRunning

\* The supervisor takes the oldest of the failures q.
LEMMA InformTakes ==
  ASSUME Inv, NEW q \in Seq(Message), q # << >>, Elements(q) \subseteq Known, Inform(q)
  PROVE  /\ informs' \in Seq(Message) /\ deciding' \subseteq Message \X Context
         /\ Elements(informs') \cup {d[1] : d \in deciding'}
              = Elements(q) \cup {d[1] : d \in deciding}
<1>1. /\ Head(q) \in Elements(q) /\ Tail(q) \in Seq(Message)
      /\ Elements(q) = {Head(q)} \cup Elements(Tail(q))
  BY TailElements
<1>2. Head(q) \in Message /\ messages[Head(q)].to \in Actors
  BY <1>1, KnownTyped
<1>3. current[messages[Head(q)].to] \in Context
  BY <1>2 DEF Inv, TypeOK
<1>4. informs' = Tail(q) /\ deciding' = deciding \cup {<<Head(q), current[messages[Head(q)].to]>>}
  BY DEF Inform
<1>5. deciding' \subseteq Message \X Context
  BY <1>2, <1>3, <1>4 DEF Inv, TypeOK
<1>6. {d[1] : d \in deciding'} = {d[1] : d \in deciding} \cup {Head(q)}
  <2> DEFINE p == <<Head(q), current[messages[Head(q)].to]>>
  <2>1. p[1] = Head(q) /\ deciding' = deciding \cup {p}
    BY <1>4
  <2> HIDE DEF p
  <2> QED BY <2>1
<1> QED BY <1>1, <1>4, <1>5, <1>6

LEMMA Inductive ==
  Inv /\ AloneIsCurrent /\ CurrentIsRunning /\ [Next]_vars
    => Inv' /\ AloneIsCurrent' /\ CurrentIsRunning'
<1> SUFFICES ASSUME Inv, AloneIsCurrent, CurrentIsRunning, [Next]_vars
             PROVE  Inv' /\ AloneIsCurrent' /\ CurrentIsRunning'
  OBVIOUS
<1> DEFINE Told == Elements(informs) \cup {d[1] : d \in deciding}
<1>1. /\ Taken = running \cup Told /\ running \cap Told = {}
      /\ running = Elements(turn) \cup awaiting
      /\ fresh \subseteq Elements(turn) \ awaiting /\ Taken \subseteq Known
  BY KnownTyped DEF Inv, Taken
<1>2. ASSUME NEW a \in Actors, NEW from \in Message \cup {Client}, Post(a, from)
      PROVE  Inv' /\ AloneIsCurrent' /\ CurrentIsRunning'
  <2> DEFINE k == Len(messages) + 1
             r == [to |-> a, context |-> own[a], caller |-> from, early |-> from \in fresh]
             q == Append(queue[a], k)
  <2>1. /\ Len(messages) < MaxSends /\ messages' = Append(messages, r)
        /\ UNCHANGED <<suspended, awaiting, busy, informs, deciding>>
    BY <1>2 DEF Post, supervisorVars
  <2>2. r \in MessageRecord /\ r.to = a
    BY <1>2 DEF MessageRecord, Inv, TypeOK
  <2>3. /\ messages \in Seq(MessageRecord) /\ Len(messages) \in Nat
        /\ queue[a] \in Seq(Message) /\ k \in Message /\ k \notin Known
    BY <2>1, BoundAssumption DEF Inv, TypeOK, Message, Known
  <2> HIDE DEF r
  <2>4. /\ messages' \in Seq(MessageRecord) /\ Len(messages') = k
        /\ messages'[k] = r /\ \A m \in Known : messages'[m] = messages[m]
    BY <2>1, <2>2, <2>3 DEF Known
  <2>5. Known' = Known \cup {k}
    BY <2>3, <2>4 DEF Known
  <2>6. Grows
    <3>1. Len(messages') <= MaxSends
      BY <2>1, <2>3, <2>4, BoundAssumption
    <3> QED BY <2>4, <2>5, <3>1 DEF Grows
  <2>7. /\ \A m \in Elements(queue[a]) : m \in Known /\ messages[m].to = a /\ m \notin Taken
        /\ Once(queue[a])
    BY DEF Inv, Waiting
  <2>8. /\ q \in Seq(Message) /\ q # << >> /\ Elements(q) = Elements(queue[a]) \cup {k}
        /\ k \notin Elements(queue[a]) => Once(q)
    BY <2>3, <2>7, AppendElements
  <2>9. \A m \in Elements(q) : m \in Known' /\ messages'[m].to = a /\ m \notin Taken
    BY <1>1, <2>2, <2>3, <2>4, <2>5, <2>7, <2>8
  <2>10. Once(q)
    BY <2>3, <2>7, <2>8
  <2>11. CASE a \notin suspended /\ Begin(a, q)
    <3> HIDE DEF q
    <3> QED BY <2>1, <2>6, <2>8, <2>9, <2>10, <2>11, BeginKeeps DEF Inv, TypeOK
  <2>12. CASE /\ queue' = [queue EXCEPT ![a] = q]
              /\ UNCHANGED <<own, current, turn, fresh, overlapped>>
    <3> HIDE DEF q, k
    <3>1. running' = running /\ Taken' = Taken
      BY <2>1, <2>12 DEF running, Taken, Elements
    <3>2. TypeOK'
      BY <2>1, <2>4, <2>6, <2>8, <2>12, <3>1 DEF Inv, TypeOK, Grows
    <3>3. ASSUME NEW b \in Actors PROVE Waiting(b, queue[b])'
      <4>1. CASE b = a
        <5>1. queue'[b] = q
          BY <2>12, <4>1 DEF Inv, TypeOK
        <5> QED BY <2>9, <2>10, <3>1, <4>1, <5>1 DEF Waiting, Elements, Once
      <4>2. CASE b # a
        <5>1. queue'[b] = queue[b] /\ Waiting(b, queue[b])
          BY <2>12, <4>2 DEF Inv, TypeOK
        <5> QED BY <2>4, <2>5, <3>1, <5>1 DEF Waiting, Elements, Once
      <4> QED BY <4>1, <4>2
    <3>4. Inv'
      BY <1>1, <2>1, <2>5, <2>12, <3>1, <3>2, <3>3 DEF Inv, Elements
    <3>5. \A b \in Actors : Running(b)' = Running(b)
      BY <1>1, <2>4, <3>1 DEF Running
    <3>6. \A b \in Actors : \A m \in Running(b) : messages'[m] = messages[m]
      BY <1>1, <2>4 DEF Running
    <3> QED BY <2>12, <3>4, <3>5, <3>6 DEF AloneIsCurrent, CurrentIsRunning
  <2> QED BY <1>2, <2>11, <2>12 DEF Post
<1>3. ASSUME NEW a \in Actors, HandlerCalls(a)
      PROVE  Inv' /\ AloneIsCurrent' /\ CurrentIsRunning'
  <2>1. turn \in Seq(Message) /\ turn # << >>
    BY <1>3 DEF HandlerCalls, Inv, TypeOK
  <2>2. Head(turn) \in Message
    BY <2>1, TailElements
  <2> QED BY <1>2, <1>3, <2>2 DEF HandlerCalls
<1>4. ASSUME NEW a \in Served, NEW c \in Context, ClientSets(a, c)
      PROVE  Inv' /\ AloneIsCurrent' /\ CurrentIsRunning'
  <2>1. /\ own' = [own EXCEPT ![a] = c]
        /\ UNCHANGED <<current, messages, queue, suspended, turn, awaiting, fresh, overlapped,
                       busy, informs, deciding>>
    BY <1>4 DEF ClientSets, handlerVars, supervisorVars
  <2>2. running' = running /\ Taken' = Taken
    BY <2>1 DEF running, Taken, Elements
  <2>3. TypeOK'
    BY <2>1, <2>2 DEF Inv, TypeOK
  <2>4. Inv'
    BY <1>1, <2>1, <2>2, <2>3, NobodyBegins
  <2> QED BY <2>1, <2>2, <2>4, ContextsStay
<1>5. CASE HandlerAwaits
  <2>1. /\ turn # << >> /\ turn' = Tail(turn) /\ awaiting' = awaiting \cup {Head(turn)}
        /\ fresh' = fresh \ {Head(turn)}
        /\ UNCHANGED <<own, current, messages, queue, suspended, overlapped, busy, informs, deciding>>
    BY <1>5 DEF HandlerAwaits, actorVars, supervisorVars
  <2>2. /\ Head(turn) \in Message /\ Tail(turn) \in Seq(Message)
        /\ Elements(turn) = {Head(turn)} \cup Elements(Tail(turn))
    BY <2>1, TailElements DEF Inv, TypeOK
  <2>3. running' = Elements(turn') \cup awaiting'
    BY DEF running, Elements
  <2>4. running' = running /\ Taken' = Taken
    <3>1. running' = running
      BY <1>1, <2>1, <2>2, <2>3
    <3> QED BY <2>1, <3>1 DEF Taken, Elements
  <2>5. fresh' \subseteq Elements(turn') \ awaiting'
    BY <1>1, <2>1, <2>2
  <2>6. TypeOK'
    BY <2>1, <2>2, <2>4 DEF Inv, TypeOK
  <2>7. Inv'
    BY <1>1, <2>1, <2>4, <2>5, <2>6, NobodyBegins
  <2> QED BY <2>1, <2>4, <2>7, ContextsStay
<1>6. ASSUME NEW m \in Message, HandlerGoesOn(m)
      PROVE  Inv' /\ AloneIsCurrent' /\ CurrentIsRunning'
  <2>1. /\ turn = << >> /\ m \in awaiting /\ turn' = <<m>> /\ awaiting' = awaiting \ {m}
        /\ UNCHANGED <<own, current, messages, queue, suspended, fresh, overlapped, busy,
                       informs, deciding>>
    BY <1>6 DEF HandlerGoesOn, actorVars, supervisorVars
  <2>2. fresh = {} /\ running = awaiting
    BY <1>1, <2>1, EmptyElements
  <2>3. Elements(turn') = {m} /\ turn' \in Seq(Message)
    BY <2>1 DEF Elements
  <2>4. running' = Elements(turn') \cup awaiting'
    BY DEF running, Elements
  <2>5. running' = running /\ Taken' = Taken
    BY <2>1, <2>2, <2>3, <2>4 DEF Taken, Elements
  <2>6. TypeOK'
    BY <2>1, <2>2, <2>3 DEF Inv, TypeOK
  <2>7. Inv'
    BY <1>1, <2>1, <2>2, <2>5, <2>6, NobodyBegins
  <2> QED BY <2>1, <2>5, <2>7, ContextsStay
<1>7. ASSUME NEW m \in awaiting, turn = << >>, awaiting' = awaiting \ {m}, turn' = turn,
             current' = [current EXCEPT ![messages[m].to] = Empty],
             UNCHANGED <<messages, overlapped>>
      PROVE  /\ running = awaiting /\ running' = running \ {m} /\ fresh = {}
             /\ current' \in [Actors -> Context]
             /\ AloneIsCurrent' /\ CurrentIsRunning'
  <2> DEFINE a == messages[m].to
  <2>1. running = awaiting /\ running' = running \ {m} /\ fresh = {}
    BY <1>1, <1>7, EmptyElements DEF running, Elements
  <2>2. a \in Actors /\ m \in Running(a)
    BY <1>1, <1>7, <2>1, KnownTyped DEF Running
  <2>3. current'[a] = Empty /\ \A b \in Actors \ {a} : current'[b] = current[b]
    BY <1>7, <2>2 DEF Inv, TypeOK
  <2>4. current' \in [Actors -> Context]
    BY <1>7 DEF Inv, TypeOK, Context
  <2>5. Running(a)' = Running(a) \ {m} /\ \A b \in Actors \ {a} : Running(b)' = Running(b)
    BY <1>7, <2>1 DEF Running
  <2>6. AloneIsCurrent'
    <3> SUFFICES ASSUME NEW b \in Actors, NEW k \in Running(b)' \ overlapped'
                 PROVE  Running(b)' = {k} /\ current'[b] = messages'[k].context
      BY DEF AloneIsCurrent
    <3>1. CASE b = a
      BY <1>7, <2>2, <2>5, <3>1 DEF AloneIsCurrent
    <3>2. CASE b # a
      BY <1>7, <2>3, <2>5, <3>2 DEF AloneIsCurrent
    <3> QED BY <3>1, <3>2
  <2>7. CurrentIsRunning'
    BY <1>7, <2>3, <2>5 DEF CurrentIsRunning
  <2> QED BY <2>1, <2>4, <2>6, <2>7
<1>8. ASSUME NEW m \in Message, Complete(m)
      PROVE  Inv' /\ AloneIsCurrent' /\ CurrentIsRunning'
  <2>1. /\ turn = << >> /\ m \in awaiting /\ awaiting' = awaiting \ {m}
        /\ current' = [current EXCEPT ![messages[m].to] = Empty]
        /\ UNCHANGED <<own, messages, queue, suspended, turn, fresh, overlapped, busy, informs,
                       deciding>>
    BY <1>8 DEF Complete, supervisorVars
  <2>2. /\ running = awaiting /\ running' = running \ {m} /\ fresh = {}
        /\ current' \in [Actors -> Context]
        /\ AloneIsCurrent' /\ CurrentIsRunning'
    BY <1>7, <2>1
  <2>3. Taken' \subseteq Taken
    BY <2>1, <2>2 DEF Taken, Elements
  <2>4. TypeOK'
    BY <2>1, <2>2 DEF Inv, TypeOK
  <2>5. Inv'
    BY <1>1, <2>1, <2>2, <2>3, <2>4, NobodyBegins
  <2> QED BY <2>2, <2>5
<1>9. ASSUME NEW m \in Message, Fail(m)
      PROVE  Inv' /\ AloneIsCurrent' /\ CurrentIsRunning'
  <2> DEFINE q == Append(informs, m)
  <2>1. /\ turn = << >> /\ m \in awaiting /\ awaiting' = awaiting \ {m}
        /\ suspended' = suspended \cup {messages[m].to}
        /\ Report(m)
        /\ current' = [current EXCEPT ![messages[m].to] = Empty]
        /\ UNCHANGED <<own, messages, queue, turn, fresh, overlapped, busy>>
    BY <1>9 DEF Fail
  <2>2. /\ running = awaiting /\ running' = running \ {m} /\ fresh = {}
        /\ current' \in [Actors -> Context]
        /\ AloneIsCurrent' /\ CurrentIsRunning'
    BY <1>7, <2>1
  <2>3. /\ q \in Seq(Message) /\ q # << >> /\ Elements(q) = Elements(informs) \cup {m}
    BY AppendElements DEF Inv, TypeOK
  <2>4. Elements(q) \subseteq Known /\ messages[m].to \in Actors
    BY <1>1, <2>1, <2>2, <2>3, KnownTyped
  <2> HIDE DEF q
  <2>5. /\ informs' \in Seq(Message) /\ deciding' \subseteq Message \X Context
        /\ Elements(informs') \cup {d[1] : d \in deciding'} = Told \cup {m}
    <3>1. CASE Inform(q)
      BY <2>3, <2>4, <3>1, InformTakes
    <3>2. CASE informs' = q /\ UNCHANGED deciding
      BY <2>3, <3>2 DEF Inv, TypeOK
    <3> QED BY <2>1, <3>1, <3>2 DEF Report, q
  <2>6. Taken' = running' \cup (Elements(informs') \cup {d[1] : d \in deciding'})
    BY DEF Taken, Elements
  <2>7. Taken' \subseteq Taken /\ running' \cap (Elements(informs') \cup {d[1] : d \in deciding'}) = {}
    BY <1>1, <2>1, <2>2, <2>5, <2>6
  <2>8. TypeOK'
    BY <2>1, <2>2, <2>4, <2>5 DEF Inv, TypeOK
  <2>9. Inv'
    BY <2>1, <2>2, <2>7, <2>8, NobodyBegins
  <2> QED BY <2>2, <2>9
<1>10. ASSUME NEW a \in Actors, queue[a] # << >>, Begin(a, queue[a]), messages' = messages,
              awaiting' = awaiting, suspended' \subseteq Actors,
              UNCHANGED <<busy, informs>>, deciding' \subseteq deciding
       PROVE  Inv' /\ AloneIsCurrent' /\ CurrentIsRunning'
  <2>1. Grows /\ Known' = Known
    BY <1>10, SameMessages DEF Known
  <2>2. Waiting(a, queue[a]) /\ queue[a] \in Seq(Message)
    BY DEF Inv, TypeOK
  <2>3. /\ Once(queue[a])
        /\ \A m \in Elements(queue[a]) : m \in Known' /\ messages'[m].to = a /\ m \notin Taken
    BY <1>10, <2>1, <2>2 DEF Waiting
  <2> QED BY <1>10, <2>1, <2>2, <2>3, BeginKeeps
<1>11. ASSUME NEW a \in Actors, Continue(a)
       PROVE  Inv' /\ AloneIsCurrent' /\ CurrentIsRunning'
  BY <1>10, <1>11 DEF Continue, supervisorVars, Inv, TypeOK
<1>12. ASSUME UNCHANGED <<own, current, messages, queue, suspended, turn, awaiting, fresh, overlapped>>,
              informs' \in Seq(Message), deciding' \subseteq Message \X Context,
              Elements(informs') \cup {d[1] : d \in deciding'} \subseteq Told, busy' \in BOOLEAN
       PROVE  Inv' /\ AloneIsCurrent' /\ CurrentIsRunning'
  <2>1. running' = running
    BY <1>12 DEF running
  <2>2. Taken' = running' \cup (Elements(informs') \cup {d[1] : d \in deciding'})
    BY DEF Taken, Elements
  <2>3. Taken' \subseteq Taken /\ running' \cap (Elements(informs') \cup {d[1] : d \in deciding'}) = {}
    BY <1>1, <1>12, <2>1, <2>2
  <2>4. TypeOK'
    BY <1>12, <2>1 DEF Inv, TypeOK
  <2>5. Inv'
    BY <1>1, <1>12, <2>3, <2>4, NobodyBegins
  <2> QED BY <1>12, <2>1, <2>5, ContextsStay
<1>13. CASE SupervisorSuspends \/ SupervisorResumes \/ SupervisorContinues
  <2>1. /\ UNCHANGED <<own, current, messages, queue, suspended, turn, awaiting, fresh, overlapped>>
        /\ busy' \in BOOLEAN
        /\ (informs # << >> /\ Inform(informs)) \/ UNCHANGED <<informs, deciding>>
    BY <1>13 DEF SupervisorSuspends, SupervisorResumes, SupervisorContinues, actorVars,
                 handlerVars, Inv, TypeOK
  <2>2. informs \in Seq(Message) /\ deciding \subseteq Message \X Context
    BY DEF Inv, TypeOK
  <2>3. /\ informs' \in Seq(Message) /\ deciding' \subseteq Message \X Context
        /\ Elements(informs') \cup {d[1] : d \in deciding'} = Told
    <3>1. CASE informs # << >> /\ Inform(informs)
      BY <1>1, <2>2, <3>1, InformTakes
    <3>2. CASE UNCHANGED <<informs, deciding>>
      BY <2>2, <3>2
    <3> QED BY <2>1, <3>1, <3>2
  <2> QED BY <1>12, <2>1, <2>3
<1>14. ASSUME NEW m \in Message, NEW c \in Context, Decide(m, c)
       PROVE  Inv' /\ AloneIsCurrent' /\ CurrentIsRunning'
  <2> DEFINE a == messages[m].to
  <2>1. /\ <<m, c>> \in deciding /\ deciding' = deciding \ {<<m, c>>}
        /\ suspended' = suspended \ {a}
        /\ UNCHANGED <<messages, awaiting, busy, informs>>
        /\ \/ queue[a] # << >> /\ Begin(a, queue[a])
           \/ UNCHANGED <<own, current, queue, turn, fresh, overlapped>>
    BY <1>14 DEF Decide
  <2>2. a \in Actors
    <3>1. m \in {d[1] : d \in deciding}
      BY <2>1
    <3> QED BY <1>1, <3>1, KnownTyped
  <2>3. suspended' \subseteq Actors /\ deciding' \subseteq deciding
    BY <2>1 DEF Inv, TypeOK
  <2>4. CASE queue[a] # << >> /\ Begin(a, queue[a])
    BY <1>10, <2>1, <2>2, <2>3, <2>4
  <2>5. CASE UNCHANGED <<own, current, queue, turn, fresh, overlapped>>
    <3>1. running' = running
      BY <2>1, <2>5 DEF running
    <3>2. Taken' \subseteq Taken /\ Elements(informs') \cup {d[1] : d \in deciding'} \subseteq Told
      BY <2>1, <3>1 DEF Taken, Elements
    <3>3. TypeOK'
      BY <2>1, <2>3, <2>5, <3>1 DEF Inv, TypeOK
    <3>4. Inv'
      BY <1>1, <2>1, <2>5, <3>1, <3>2, <3>3, NobodyBegins
    <3> QED BY <2>1, <2>5, <3>1, <3>4, ContextsStay
  <2> QED BY <2>1, <2>4, <2>5
<1>15. CASE UNCHANGED vars
  <2>1. /\ UNCHANGED <<own, current, messages, queue, suspended, turn, awaiting, fresh, overlapped>>
        /\ UNCHANGED <<busy, informs, deciding>>
    BY <1>15 DEF vars, actorVars, handlerVars, supervisorVars
  <2> QED BY <1>12, <2>1 DEF Inv, TypeOK
<1>16. \A a \in Served : a \in Actors
  BY BoundAssumption
<1>17. ASSUME NEW a \in Served, ClientCalls(a)
       PROVE  Inv' /\ AloneIsCurrent' /\ CurrentIsRunning'
  BY <1>2, <1>16, <1>17 DEF ClientCalls
<1> QED
  BY <1>3, <1>4, <1>5, <1>6, <1>8, <1>9, <1>11, <1>13, <1>14, <1>15, <1>17 DEF Next

(***************************************************************************)
(* The variables keep their types; in particular a message is begun once,  *)
(* so a handler that has not awaited is never taken for one that has.      *)
(***************************************************************************)
THEOREM TypeCorrect == Spec => []TypeOK
<1>1. Inv => TypeOK
  BY DEF Inv
<1> QED BY TypeInit, Inductive, <1>1, PTL DEF Spec

(***************************************************************************)
(* The current context of an actor is that of one of its running handlers, *)
(* whatever calls nest and whichever handlers overlap.                     *)
(***************************************************************************)
THEOREM ContextOfRunning == Spec => []CurrentIsRunning
BY TypeInit, Inductive, PTL DEF Spec

(***************************************************************************)
(* A supervisor that is free is shown the context of the failed message,   *)
(* if no other handler of the actor ran along with the failed one.         *)
(***************************************************************************)
THEOREM FailureInContext == Spec => ExplainedInContext
<1> DEFINE Explained ==
      \A m \in running \ overlapped, c \in Context :
        <<m, c>> \in deciding' => c = messages[m].context
<1>1. Inv /\ AloneIsCurrent /\ [Next]_vars => Explained
  <2> SUFFICES ASSUME Inv, AloneIsCurrent, [Next]_vars,
                      NEW m \in running \ overlapped, NEW c \in Context, <<m, c>> \in deciding'
               PROVE  c = messages[m].context
    OBVIOUS
  <2>1. <<m, c>> \notin deciding
    <3>1. m \notin {d[1] : d \in deciding}
      BY DEF Inv
    <3> QED BY <3>1
  <2>2. PICK q : Inform(q) /\ (q = informs \/ \E k \in Message : q = Append(informs, k))
    <3>1. CASE \E a \in Actors : HandlerCalls(a) \/ Continue(a)
      BY <2>1, <3>1 DEF HandlerCalls, Continue, Post, supervisorVars
    <3>2. CASE \E a \in Served : ClientCalls(a) \/ \E d \in Context : ClientSets(a, d)
      BY <2>1, <3>2 DEF ClientCalls, Post, ClientSets, supervisorVars
    <3>3. CASE HandlerAwaits
      BY <2>1, <3>3 DEF HandlerAwaits, supervisorVars
    <3>4. ASSUME NEW k \in Message, HandlerGoesOn(k) \/ Complete(k)
          PROVE  FALSE
      BY <2>1, <3>4 DEF HandlerGoesOn, Complete, supervisorVars
    <3>5. ASSUME NEW k \in Message, Fail(k) PROVE Inform(Append(informs, k))
      BY <2>1, <3>5 DEF Fail, Report
    <3>6. ASSUME NEW k \in Message, NEW d \in Context, Decide(k, d) PROVE FALSE
      BY <2>1, <3>6 DEF Decide
    <3>7. CASE SupervisorSuspends \/ SupervisorResumes \/ SupervisorContinues
      BY <2>1, <3>7 DEF SupervisorSuspends, SupervisorResumes, SupervisorContinues
    <3>8. CASE UNCHANGED vars
      BY <2>1, <3>8 DEF vars, supervisorVars
    <3> QED BY <3>1, <3>2, <3>3, <3>4, <3>5, <3>6, <3>7, <3>8 DEF Next
  <2>3. m = Head(q) /\ c = current[messages[m].to]
    BY <2>1, <2>2 DEF Inform
  <2>4. messages[m].to \in Actors /\ m \in Running(messages[m].to)
    BY KnownTyped DEF Inv, Taken, Running
  <2> QED BY <2>3, <2>4 DEF AloneIsCurrent
<1> QED BY TypeInit, Inductive, <1>1, PTL DEF Spec, ExplainedInContext

-----------------------------------------------------------------------------
(* Calls                                                                    *)

Order(r) ==
  /\ Collaborators \subseteq r
  /\ \A p, q \in r : p[2] = q[1] => <<p[1], q[2]>> \in r
  /\ \A a \in Actors : <<a, a>> \notin r
Above == CHOOSE r \in SUBSET (Actors \X Actors) : Order(r)

LEMMA AboveOrders ==
  /\ \A a, b \in Actors : <<a, b>> \in Collaborators => <<a, b>> \in Above
  /\ \A a, b, c \in Actors : <<a, b>> \in Above /\ <<b, c>> \in Above => <<a, c>> \in Above
  /\ \A a \in Actors : <<a, a>> \notin Above
<1>1. Above \in SUBSET (Actors \X Actors) /\ Order(Above)
  BY CollaboratorsAssumption DEF Order, Above
<1>2. ASSUME NEW a \in Actors, NEW b \in Actors, NEW c \in Actors,
             <<a, b>> \in Above, <<b, c>> \in Above
      PROVE  <<a, c>> \in Above
  <2> DEFINE p == <<a, b>>
             q == <<b, c>>
  <2>1. p[2] = q[1] /\ p[1] = a /\ q[2] = c
    OBVIOUS
  <2> QED BY <1>1, <1>2, <2>1 DEF Order
<1> QED BY <1>1, <1>2 DEF Order

\* The handler of m has called its own actor.
SelfCalled(m) == \E j \in Known : messages[j].caller = m /\ messages[j].to = messages[m].to

\* The actor a may start a handler while the one of m goes on.
Within(a, m) ==
  LET b == messages[m].to IN
    /\ a = b \/ <<b, a>> \in Above
    /\ a = b /\ m \in fresh => SelfCalled(m)

\* Every handler of the turn lies within those that called.
Nested == \A i, j \in 1..Len(turn) : i < j => Within(messages[turn[i]].to, turn[j])

\* The collaborators keep what the handler of m told them.
ToldBy(m) ==
  \A b \in Actors :
    <<messages[m].to, b>> \in Collaborators /\ messages[m].context # Empty =>
      own[b] = messages[m].context \/ SelfCalled(m)

CallerKnown == \A k \in Known : messages[k].early => messages[k].caller \in Known

CallInv == Nested /\ (\A m \in fresh : ToldBy(m)) /\ CallerKnown /\ CallsInContext

LEMMA SelfCalledStays ==
  ASSUME Inv, Grows, NEW m \in Known, SelfCalled(m)
  PROVE  SelfCalled(m)'
<1>1. PICK j \in Known : messages[j].caller = m /\ messages[j].to = messages[m].to
  BY DEF SelfCalled
<1>2. j \in Known' /\ messages'[j] = messages[j] /\ messages'[m] = messages[m]
  BY DEF Grows
<1> QED BY <1>1, <1>2 DEF SelfCalled

LEMMA InTurn ==
  ASSUME Inv
  PROVE  /\ Elements(turn) \subseteq Known /\ Elements(turn) \subseteq Taken
         /\ fresh \subseteq Elements(turn) /\ fresh \subseteq Known
         /\ \A i \in 1..Len(turn) : turn[i] \in Elements(turn)
BY KnownTyped DEF Inv, Taken, Elements

\* A handler of a that begins within the turn.
LEMMA BeginNests ==
  ASSUME Inv, Nested, \A m \in fresh : ToldBy(m), Grows,
         NEW a \in Actors, NEW q \in Seq(Message), Begin(a, q),
         Head(q) \in Known', messages'[Head(q)].to = a, Head(q) \notin Taken,
         Head(q) \in Message,
         \A n \in Elements(turn) :
           LET b == messages[n].to IN
             /\ a = b \/ <<b, a>> \in Above
             /\ a = b /\ n \in fresh => SelfCalled(n)'
  PROVE  Nested' /\ (\A m \in fresh : ToldBy(m))'
<1> DEFINE m == Head(q)
<1>1. /\ own' = Propagated(a, messages'[m].context)
      /\ turn' = <<m>> \o turn
      /\ fresh' = fresh \cup {m}
  BY DEF Begin
<1> HIDE DEF m
<1>2. m \in Message /\ m \in Known' /\ messages'[m].to = a /\ m \notin Taken
  BY DEF m
<1>3. /\ Len(turn) \in Nat /\ Len(turn') = Len(turn) + 1
      /\ turn'[1] = m /\ \A i \in 1..Len(turn) : turn'[i + 1] = turn[i]
  BY <1>1, <1>2 DEF Inv, TypeOK
<1>4. \A i \in 1..Len(turn) :
        /\ turn[i] \in Known /\ turn[i] # m
        /\ messages'[turn[i]] = messages[turn[i]]
        /\ turn[i] \in fresh' <=> turn[i] \in fresh
  BY <1>1, <1>2, InTurn DEF Grows
<1>5. ASSUME NEW i \in 1..Len(turn'), NEW j \in 1..Len(turn'), i < j
      PROVE  Within(messages[turn[i]].to, turn[j])'
  <2>1. /\ j - 1 \in 1..Len(turn) /\ turn'[j] = turn[j - 1]
        /\ i = 1 \/ (i - 1 \in 1..Len(turn) /\ i - 1 < j - 1 /\ turn'[i] = turn[i - 1])
    <3>1. j - 1 \in 1..Len(turn) /\ (j - 1) + 1 = j
      BY <1>3, <1>5
    <3>2. i = 1 \/ (i - 1 \in 1..Len(turn) /\ i - 1 < j - 1 /\ (i - 1) + 1 = i)
      BY <1>3, <1>5
    <3>3. turn'[(j - 1) + 1] = turn[j - 1]
      BY <1>3, <3>1
    <3>4. i - 1 \in 1..Len(turn) => turn'[(i - 1) + 1] = turn[i - 1]
      BY <1>3
    <3> QED BY <3>1, <3>2, <3>3, <3>4
  <2>2. PICK n \in Elements(turn) : n = turn[j - 1] /\ n = turn'[j]
    BY <2>1 DEF Elements
  <2>3. n \in Known /\ messages'[n] = messages[n] /\ (n \in fresh' <=> n \in fresh)
    BY <1>4, <2>1, <2>2
  <2> SUFFICES LET b == messages[n].to
                   c == messages'[turn'[i]].to IN
                 /\ c = b \/ <<b, c>> \in Above
                 /\ c = b /\ n \in fresh => SelfCalled(n)'
    BY <2>2, <2>3 DEF Within, SelfCalled
  <2>4. CASE i = 1
    BY <1>2, <1>3, <2>3, <2>4
  <2>5. CASE i - 1 \in 1..Len(turn) /\ i - 1 < j - 1 /\ turn'[i] = turn[i - 1]
    <3>1. Within(messages[turn[i - 1]].to, n) /\ messages'[turn[i - 1]] = messages[turn[i - 1]]
      BY <1>4, <2>1, <2>2, <2>5 DEF Nested
    <3>2. SelfCalled(n) => SelfCalled(n)'
      BY <2>3, SelfCalledStays
    <3> QED BY <2>5, <3>1, <3>2 DEF Within
  <2> QED BY <2>1, <2>4, <2>5
<1>6. ASSUME NEW n \in fresh'
      PROVE  ToldBy(n)'
  <2> SUFFICES ASSUME NEW b \in Actors, <<messages'[n].to, b>> \in Collaborators,
                      messages'[n].context # Empty
               PROVE  own'[b] = messages'[n].context \/ SelfCalled(n)'
    BY DEF ToldBy
  <2>1. CASE n = m
    BY <1>1, <1>2, <2>1 DEF Propagated
  <2>2. CASE n \in fresh
    <3>1. n \in Elements(turn) /\ n \in Known /\ messages'[n] = messages[n]
      BY <2>2, InTurn DEF Grows
    <3>3. own[b] = messages[n].context \/ SelfCalled(n)'
      BY <2>2, <3>1, SelfCalledStays DEF ToldBy
    <3>4. CASE <<a, b>> \in Collaborators
      <4>1. a = messages[n].to
        <5> DEFINE p == <<a, b>>
                   r == <<messages[n].to, b>>
        <5>1. p \in Collaborators /\ r \in Collaborators /\ p[2] = r[2] /\ p[1] = a /\ r[1] = messages[n].to
          BY <3>1, <3>4
        <5> HIDE DEF p, r
        <5> QED BY <5>1, CollaboratorsAssumption
      <4> QED BY <2>2, <3>1, <4>1
    <3>5. CASE <<a, b>> \notin Collaborators
      <4>1. own'[b] = own[b]
        BY <1>1, <3>5 DEF Propagated
      <4> QED BY <3>1, <3>3, <4>1
    <3> QED BY <3>4, <3>5
  <2> QED BY <1>1, <2>1, <2>2
<1> QED BY <1>5, <1>6 DEF Nested

\* The turn ends or shrinks, and nobody begins.
LEMMA TurnShrinks ==
  ASSUME Inv, CallInv, messages' = messages, own' = own, fresh' \subseteq fresh,
         Nested'
  PROVE  CallInv'
<1>1. \A m : SelfCalled(m)' = SelfCalled(m)
  BY DEF SelfCalled, Known
<1> QED BY <1>1 DEF CallInv, ToldBy, CallerKnown, CallsInContext, Known

\* A call of a by a client or by the handler whose turn it is.
LEMMA PostCalls ==
  ASSUME Inv, CallInv, Inv', NEW a \in Actors, NEW from \in Message \cup {Client}, Post(a, from),
         from # Client =>
           /\ turn # << >> /\ from = Head(turn)
           /\ a = messages[from].to \/ <<messages[from].to, a>> \in Collaborators,
         from = Client => turn = << >>
  PROVE  CallInv'
<1> DEFINE k == Len(messages) + 1
           r == [to |-> a, context |-> own[a], caller |-> from, early |-> from \in fresh]
           q == Append(queue[a], k)
<1>1. /\ Len(messages) < MaxSends /\ messages' = Append(messages, r)
  BY DEF Post
<1>2. r \in MessageRecord /\ messages \in Seq(MessageRecord) /\ Len(messages) \in Nat
  BY DEF MessageRecord, Inv, TypeOK
<1>3. /\ r.to = a /\ r.context = own[a] /\ r.caller = from /\ r.early = (from \in fresh)
  OBVIOUS
<1> HIDE DEF r
<1>4. /\ Len(messages') = k /\ messages'[k] = r /\ \A m \in Known : messages'[m] = messages[m]
      /\ Known' = Known \cup {k} /\ k \notin Known /\ k \in Nat /\ Known = 1..(k - 1)
      /\ \A j \in Known : j \in 1..k /\ j <= k
  BY <1>1, <1>2 DEF Known
<1>5. Grows
  BY <1>4 DEF Grows, Inv, TypeOK
<1>6. from # Client => from \in Elements(turn) /\ from \in Known
  <2>1. turn # << >> => Head(turn) \in Elements(turn)
    BY TailElements DEF Inv, TypeOK
  <2> QED BY <2>1, InTurn
<1>7. Client \notin fresh
  BY InTurn DEF Known, Client
<1>8. CallerKnown'
  BY <1>3, <1>4, <1>6, <1>7 DEF CallerKnown, CallInv
<1>9. CallsInContext'
  <2> SUFFICES ASSUME NEW i \in Known', messages'[i].early,
                      messages'[messages'[i].caller].context # Empty,
                      messages'[i].to # messages'[messages'[i].caller].to
               PROVE  \/ messages'[i].context = messages'[messages'[i].caller].context
                      \/ \E j \in 1..i : /\ messages'[j].caller = messages'[i].caller
                                       /\ messages'[j].to = messages'[messages'[i].caller].to
    BY DEF CallsInContext, Known
  <2>1. CASE i \in Known
    <3>1. /\ messages'[i] = messages[i] /\ messages[i].caller \in Known
          /\ messages'[messages[i].caller] = messages[messages[i].caller]
      BY <1>4, <2>1 DEF CallInv, CallerKnown
    <3>2. \A j \in 1..i : messages'[j] = messages[j]
      BY <1>4, <2>1 DEF Known
    <3>3. \/ messages[i].context = messages[messages[i].caller].context
          \/ \E j \in 1..i : /\ messages[j].caller = messages[i].caller
                           /\ messages[j].to = messages[messages[i].caller].to
      BY <2>1, <3>1 DEF CallInv, CallsInContext, Known
    <3> QED BY <3>1, <3>2, <3>3
  <2>2. CASE i = k
    <3>1. from \in fresh /\ from \in Known /\ messages'[from] = messages[from]
      BY <1>3, <1>4, <1>6, <1>7, <2>2
    <3>2. <<messages[from].to, a>> \in Collaborators
      BY <1>3, <1>4, <1>7, <2>2, <3>1
    <3>3. own[a] = messages[from].context \/ SelfCalled(from)
      BY <1>3, <1>4, <2>2, <3>1, <3>2 DEF CallInv, ToldBy
    <3>4. SelfCalled(from) =>
            \E j \in 1..k : messages'[j].caller = from /\ messages'[j].to = messages[from].to
      BY <1>4 DEF SelfCalled
    <3> QED BY <1>3, <1>4, <2>2, <3>1, <3>3, <3>4
  <2> QED BY <1>4, <2>1, <2>2
<1>10. CASE a \notin suspended /\ Begin(a, q)
  <2>1. /\ \A m \in Elements(queue[a]) : m \in Known /\ messages[m].to = a /\ m \notin Taken
        /\ queue[a] \in Seq(Message)
    BY DEF Inv, Waiting, TypeOK
  <2>2. k \in Message /\ k \notin Taken
    BY <1>1, <1>2, <1>4, BoundAssumption DEF Message, Inv
  <2>3. q \in Seq(Message) /\ q # << >> /\ Elements(q) = Elements(queue[a]) \cup {k}
    BY <2>1, <2>2, AppendElements
  <2>4. Head(q) \in Elements(q) /\ Head(q) \in Message
    BY <2>3, TailElements
  <2>5. Head(q) \in Known' /\ messages'[Head(q)].to = a /\ Head(q) \notin Taken
    BY <1>3, <1>4, <2>1, <2>2, <2>3, <2>4
  <2>6. ASSUME NEW n \in Elements(turn)
        PROVE  LET b == messages[n].to IN
                 /\ a = b \/ <<b, a>> \in Above
                 /\ a = b /\ n \in fresh => SelfCalled(n)'
    <3> DEFINE b == messages[n].to
               x == messages[from].to
    <3>1. /\ from # Client /\ from = Head(turn) /\ from = turn[1] /\ from \in Known
          /\ 1 \in 1..Len(turn)
      <4>1. turn \in Seq(Message)
        BY DEF Inv, TypeOK
      <4>2. turn # << >> /\ 1 \in 1..Len(turn) /\ Head(turn) = turn[1]
        BY <2>6, <4>1 DEF Elements
      <4> QED BY <1>6, <4>2
    <3>2. PICK j \in 1..Len(turn) : n = turn[j]
      BY <2>6 DEF Elements
    <3>3. n \in Known /\ b \in Actors /\ x \in Actors
      BY <2>6, <3>1, InTurn, KnownTyped
    <3>4. a = x \/ <<x, a>> \in Above
      BY <3>1, <3>3, AboveOrders
    <3>5. CASE j = 1
      <4>1. n = from /\ b = x
        BY <3>1, <3>2, <3>5
      <4>2. a = b => SelfCalled(n)'
        BY <1>3, <1>4, <3>3, <4>1 DEF SelfCalled
      <4> QED BY <3>4, <4>1, <4>2
    <3>6. CASE 1 < j
      <4>1. Within(x, n)
        BY <3>1, <3>2, <3>6 DEF CallInv, Nested
      <4>2. /\ x = b \/ <<b, x>> \in Above
            /\ x = b /\ n \in fresh => SelfCalled(n)
        BY <4>1 DEF Within
      <4>3. a = b \/ <<b, a>> \in Above
        BY <3>3, <3>4, <4>2, AboveOrders
      <4>4. a = b => x = b
        BY <3>3, <3>4, <4>2, AboveOrders
      <4>5. SelfCalled(n) => SelfCalled(n)'
        BY <1>5, <3>3, SelfCalledStays
      <4> QED BY <4>2, <4>3, <4>4, <4>5
    <3>7. j = 1 \/ 1 < j
      OBVIOUS
    <3> QED BY <3>5, <3>6, <3>7
  <2> HIDE DEF q
  <2>7. Nested' /\ (\A m \in fresh : ToldBy(m))'
    BY <1>5, <1>10, <2>3, <2>4, <2>5, <2>6, BeginNests DEF CallInv
  <2> QED BY <1>8, <1>9, <2>7 DEF CallInv
<1>11. CASE UNCHANGED <<own, turn, fresh>>
  <2>1. \A n \in fresh : n \in Known /\ messages'[n] = messages[n] /\ (SelfCalled(n) => SelfCalled(n)')
    BY <1>4, <1>5, InTurn, SelfCalledStays
  <2>2. (\A m \in fresh : ToldBy(m))'
    BY <1>11, <2>1 DEF CallInv, ToldBy
  <2>3. ASSUME NEW i \in 1..Len(turn), NEW j \in 1..Len(turn), i < j
        PROVE  Within(messages[turn[i]].to, turn[j])'
    <3>1. PICK n \in Elements(turn) : n = turn[j] /\ n = turn'[j]
      BY <1>11 DEF Elements
    <3>2. PICK c \in Elements(turn) : c = turn[i] /\ c = turn'[i]
      BY <1>11 DEF Elements
    <3>3. /\ messages'[n] = messages[n] /\ messages'[c] = messages[c]
      BY <1>4, InTurn
    <3>4. Within(messages[c].to, n)
      BY <2>3, <3>1, <3>2 DEF CallInv, Nested
    <3>5. LET b == messages[n].to
              d == messages'[c].to IN
            /\ d = b \/ <<b, d>> \in Above
            /\ d = b /\ n \in fresh => SelfCalled(n)'
      BY <2>1, <3>3, <3>4 DEF Within
    <3> QED BY <1>11, <3>1, <3>2, <3>3, <3>5 DEF Within, SelfCalled
  <2>4. Nested'
    BY <1>11, <2>3 DEF Nested
  <2> QED BY <1>8, <1>9, <2>2, <2>4 DEF CallInv
<1> QED BY <1>10, <1>11 DEF Post

\* A dispatch loop begins a message: there is nothing in the turn then.
LEMMA LoopCalls ==
  ASSUME Inv, CallInv, Inv', NEW a \in Actors, queue[a] # << >>, Begin(a, queue[a]),
         turn = << >>, messages' = messages
  PROVE  CallInv'
<1>1. queue[a] \in Seq(Message)
  BY DEF Inv, TypeOK
<1>2. Head(queue[a]) \in Elements(queue[a]) /\ Head(queue[a]) \in Message
  BY <1>1, TailElements
<1>3. /\ Head(queue[a]) \in Known' /\ messages'[Head(queue[a])].to = a
      /\ Head(queue[a]) \notin Taken
  BY <1>2 DEF Inv, Waiting, Known
<1>4. Elements(turn) = {}
  BY EmptyElements
<1>5. Nested' /\ (\A m \in fresh : ToldBy(m))'
  BY <1>1, <1>2, <1>3, <1>4, SameMessages, BeginNests DEF CallInv
<1> QED BY <1>5 DEF CallInv, CallerKnown, CallsInContext, Known

LEMMA CallsInductive ==
  Inv /\ CallInv /\ Inv' /\ [Next]_vars => CallInv'
<1> SUFFICES ASSUME Inv, CallInv, Inv', [Next]_vars PROVE CallInv'
  OBVIOUS
<1>1. ASSUME messages' = messages, turn' = turn, fresh' = fresh, own' = own
      PROVE  CallInv'
  <2>1. Nested'
    BY <1>1 DEF CallInv, Nested, Within, SelfCalled, Known
  <2> QED BY <1>1, <2>1, TurnShrinks
<1>2. ASSUME NEW a \in Actors, HandlerCalls(a)
      PROVE  CallInv'
  <2>1. turn # << >> /\ turn \in Seq(Message)
    BY <1>2 DEF HandlerCalls, Inv, TypeOK
  <2>2. Head(turn) \in Message /\ Head(turn) # Client
    BY <2>1, TailElements, BoundAssumption DEF Message, Client
  <2> DEFINE from == Head(turn)
  <2>3. /\ Post(a, from)
        /\ a = messages[from].to \/ <<messages[from].to, a>> \in Collaborators
    BY <1>2 DEF HandlerCalls
  <2> QED BY <2>1, <2>2, <2>3, PostCalls
<1>3. ASSUME NEW a \in Served, ClientCalls(a)
      PROVE  CallInv'
  <2>1. a \in Actors /\ turn = << >> /\ Post(a, Client)
    BY <1>3, BoundAssumption DEF ClientCalls
  <2> QED BY <2>1, PostCalls
<1>4. ASSUME NEW a \in Served, NEW c \in Context, ClientSets(a, c)
      PROVE  CallInv'
  <2>1. turn = << >> /\ UNCHANGED <<messages, turn, fresh>>
    BY <1>4 DEF ClientSets, handlerVars
  <2>2. fresh = {}
    BY <2>1, InTurn, EmptyElements
  <2> QED BY <2>1, <2>2
          DEF CallInv, Nested, Within, SelfCalled, CallerKnown, CallsInContext, Known
<1>5. ASSUME NEW a \in Actors, Continue(a)
      PROVE  CallInv'
  BY <1>5, LoopCalls DEF Continue
<1>6. ASSUME NEW m \in Message, NEW c \in Context, Decide(m, c)
      PROVE  CallInv'
  <2> DEFINE a == messages[m].to
  <2>1. turn = << >> /\ messages' = messages /\ a \in Actors
    <3>1. m \in Known
      <4>1. <<m, c>> \in deciding
        BY <1>6 DEF Decide
      <4>2. m \in {d[1] : d \in deciding}
        BY <4>1
      <4> QED BY <4>2 DEF Inv, Taken
    <3> QED BY <1>6, <3>1, KnownTyped DEF Decide
  <2>2. CASE queue[a] # << >> /\ Begin(a, queue[a])
    BY <2>1, <2>2, LoopCalls
  <2>3. CASE UNCHANGED <<own, current, queue, turn, fresh, overlapped>>
    BY <1>1, <2>1, <2>3
  <2> QED BY <1>6, <2>2, <2>3 DEF Decide
<1>7. CASE HandlerAwaits
  <2>1. /\ turn # << >> /\ turn' = Tail(turn) /\ fresh' \subseteq fresh
        /\ UNCHANGED <<messages, own>> /\ turn \in Seq(Message)
    BY <1>7 DEF HandlerAwaits, actorVars, Inv, TypeOK
  <2>2. /\ Len(turn) \in Nat /\ Len(turn') = Len(turn) - 1
        /\ \A i \in 1..Len(turn') : turn'[i] = turn[i + 1]
    BY <2>1
  <2>3. ASSUME NEW i \in 1..Len(turn'), NEW j \in 1..Len(turn'), i < j
        PROVE  Within(messages[turn[i]].to, turn[j])'
    <3>1. i + 1 \in 1..Len(turn) /\ j + 1 \in 1..Len(turn) /\ i + 1 < j + 1
      BY <2>2, <2>3
    <3>2. Within(messages[turn[i + 1]].to, turn[j + 1])
      BY <3>1 DEF CallInv, Nested
    <3> QED BY <2>1, <2>2, <3>2 DEF Within, SelfCalled, Known
  <2>4. Nested'
    BY <2>3 DEF Nested
  <2> QED BY <2>1, <2>4, TurnShrinks
<1>8. ASSUME NEW m \in Message, HandlerGoesOn(m)
      PROVE  CallInv'
  <2>1. turn' = <<m>> /\ UNCHANGED <<messages, own, fresh>>
    BY <1>8 DEF HandlerGoesOn, actorVars
  <2>2. \A i, j \in 1..Len(turn') : ~(i < j)
    BY <2>1
  <2>3. Nested'
    BY <2>2 DEF Nested
  <2> QED BY <2>1, <2>3, TurnShrinks
<1>9. ASSUME NEW m \in Message, Complete(m) \/ Fail(m)
      PROVE  CallInv'
  BY <1>1, <1>9 DEF Complete, Fail
<1>10. CASE SupervisorSuspends \/ SupervisorResumes \/ SupervisorContinues
  BY <1>1, <1>10 DEF SupervisorSuspends, SupervisorResumes, SupervisorContinues, actorVars, handlerVars
<1>11. CASE UNCHANGED vars
  BY <1>1, <1>11 DEF vars, actorVars, handlerVars
<1> QED BY <1>2, <1>3, <1>4, <1>5, <1>6, <1>7, <1>8, <1>9, <1>10, <1>11 DEF Next

(***************************************************************************)
(* The calls a handler makes before its first await carry the context of   *)
(* its own message, unless it called its own actor before, however calls   *)
(* nest and whatever clients set.                                          *)
(***************************************************************************)
THEOREM CallsCarryContext == Spec => []CallsInContext
<1>1. Init => CallInv
  <2> SUFFICES ASSUME Init PROVE CallInv
    OBVIOUS
  <2>1. messages = << >> /\ turn = << >> /\ fresh = {}
    BY DEF Init
  <2>2. 1..Len(messages) = {} /\ 1..Len(turn) = {}
    BY <2>1
  <2> QED BY <2>1, <2>2 DEF CallInv, Nested, CallerKnown, CallsInContext, Known
<1>2. CallInv => CallsInContext
  BY DEF CallInv
<1> QED BY TypeInit, Inductive, CallsInductive, <1>1, <1>2, PTL DEF Spec
=============================================================================
