--------------------------- MODULE StoppingProofs ---------------------------
(***************************************************************************)
(* Theorems about Stopping, for every number of actors and requests, every *)
(* tree the actors form, and whichever of them fail or time out.  The      *)
(* invariants are proved in layers, each with the ones before it.          *)
(***************************************************************************)
EXTENDS Stopping, TLAPS

RootsExist == Roots \subseteq created
OpenIsFresh == closing = "open" => closeAwaits = None

KnownExist ==
  /\ suspended \subseteq created
  /\ \A r \in Ids, a \in All : call[r][a] # "none" => a \in created

TypeInv == TypeOK /\ RootsExist /\ OpenIsFresh /\ KnownExist

LEMMA SentIsPhase ==
  ASSUME NEW a
  PROVE  Sent(a) \in Phases
BY DEF Sent, Phases

\* Whoever makes an actor, it is made under one that exists or under none.
LEMMA CreateHasParent ==
  ASSUME TypeInv, NEW a \in Actors, Create(a)
  PROVE  \E p \in All \cup {None} : actorFor(p, a) /\ (p = None => PublicRoot \notin directory)
<1>1. PublicRoot \in All /\ created \subseteq All /\ None \notin All
  BY ActorsAssumption DEF All, Roots, TypeInv, TypeOK
<1>2. /\ defaultParent \in All \cup {None}
      /\ defaultParent = None => PublicRoot \notin directory
  BY <1>1 DEF defaultParent
<1>3. CASE actorFor(defaultParent, a)
  BY <1>2, <1>3
<1>4. CASE \E p \in created \ Roots : actorFor(p, a) \/ childActorFor(p, a)
  BY <1>1, <1>2, <1>4 DEF childActorFor
<1> QED BY <1>3, <1>4 DEF Create

LEMMA TypeInductive ==
  /\ Init => TypeInv
  /\ TypeInv /\ [Next]_vars => TypeInv'
<1> USE DEF TypeInv, RootsExist, OpenIsFresh, KnownExist
<1>1. Init => TypeInv
  BY ActorsAssumption DEF Init, TypeOK, Empty, Phases, Roots, All
<1>2. ASSUME TypeInv, [Next]_vars
      PROVE  TypeInv'
  <2> USE <1>2, ActorsAssumption, OptionsAssumption
  <2>1. ASSUME NEW p \in All \cup {None}, NEW a \in Actors, actorFor(p, a) PROVE TypeInv'
    <3>1. /\ created' \subseteq All
          /\ parent' \in [All -> All \cup {None}]
      BY <2>1 DEF actorFor, TypeOK, All
    <3>2. children' \in [All -> SUBSET created']
      BY <2>1 DEF actorFor, TypeOK, All
    <3>3. /\ todo' \in [Ids -> [All -> SUBSET created']]
          /\ snapshot' \in [Ids -> [All -> SUBSET created']]
          /\ awaits' \in [Ids -> [All -> created' \cup {None}]]
      <4>1. created \subseteq created'
        BY <2>1 DEF actorFor
      <4>2. ASSUME NEW f \in [Ids -> [All -> SUBSET created]]
            PROVE  f \in [Ids -> [All -> SUBSET created']]
        BY <4>1, <4>2
      <4>3. ASSUME NEW f \in [Ids -> [All -> created \cup {None}]]
            PROVE  f \in [Ids -> [All -> created' \cup {None}]]
        BY <4>1, <4>3
      <4> QED BY <2>1, <4>2, <4>3 DEF actorFor, callVars, TypeOK
    <3> QED BY <2>1, <3>1, <3>2, <3>3
        DEF actorFor, TypeOK, mailboxVars, callVars, closeVars
  <2>2. ASSUME NEW a \in Actors, Create(a) PROVE TypeInv'
    <3>1. PICK p \in All \cup {None} : actorFor(p, a)
      BY <2>2, CreateHasParent
    <3> QED BY <3>1, <2>1
  <2>3. ASSUME NEW a \in Actors, HandlerFails(a) PROVE TypeInv'
    BY <2>3 DEF HandlerFails, TypeOK, treeVars, callVars, closeVars
  <2>4. ASSUME NEW a \in Actors, Resume(a) PROVE TypeInv'
    <3>1. a \in All /\ a \in created
      BY <2>4 DEF Resume, All
    <3>2. \/ call' = call
          \/ \E r \in Ids : call' = [call EXCEPT ![r][a] = "before"]
      BY <2>4 DEF Resume
    <3>3. /\ call' \in [Ids -> [All -> Phases]]
          /\ \A q \in Ids, b \in All : call'[q][b] # "none" => b \in created
      <4>1. CASE call' = call
        BY <4>1 DEF TypeOK
      <4>2. ASSUME NEW r \in Ids, call' = [call EXCEPT ![r][a] = "before"]
            PROVE  /\ call' \in [Ids -> [All -> Phases]]
                   /\ \A q \in Ids, b \in All : call'[q][b] # "none" => b \in created
        BY <3>1, <4>2 DEF TypeOK, Phases
      <4> QED BY <3>2, <4>1, <4>2
    <3> QED BY <2>4, <3>3 DEF Resume, TypeOK, treeVars, closeVars
  <2>5. ASSUME NEW r \in Requests, NEW a \in Actors, RequestStop(r, a) PROVE TypeInv'
    BY <2>5, SentIsPhase DEF RequestStop, TypeOK, treeVars, mailboxVars, closeVars, Ids, All
  <2>6. ASSUME NEW r \in Requests, NEW a \in Actors, SupervisorStops(r, a) PROVE TypeInv'
    <3>1. r \in Ids /\ a \in All /\ a \in created
      BY <2>6 DEF SupervisorStops, Ids, All
    <3>2. \E phase \in {"skipped", "before"} : call' = [call EXCEPT ![r][a] = phase]
      BY <2>6 DEF SupervisorStops
    <3>3. /\ call' \in [Ids -> [All -> Phases]]
          /\ \A q \in Ids, b \in All : call'[q][b] # "none" => b \in created
      BY <3>1, <3>2 DEF TypeOK, Phases
    <3> QED BY <2>6, <3>3 DEF SupervisorStops, TypeOK, treeVars, mailboxVars, closeVars
  <2>7. ASSUME NEW r \in Ids, NEW a \in All, StopStarts(r, a) PROVE TypeInv'
    BY <2>7 DEF StopStarts, TypeOK, treeVars, mailboxVars, closeVars, Phases
  <2>8. ASSUME NEW r \in Ids, NEW a \in All, BeforeStopDone(r, a) PROVE TypeInv'
    BY <2>8 DEF BeforeStopDone, TypeOK, treeVars, mailboxVars, closeVars, Phases
  <2>9. ASSUME NEW r \in Ids, NEW a \in All, StopNextChild(r, a) PROVE TypeInv'
    BY <2>9, SentIsPhase DEF StopNextChild, TypeOK, treeVars, mailboxVars, closeVars
  <2>10. ASSUME NEW r \in Ids, NEW a \in All, Finish(r, a) PROVE TypeInv'
    BY <2>10 DEF Finish, TypeOK, closeVars, Phases
  <2>11. ASSUME NEW r \in Ids, NEW a \in All, StopExpires(r, a) PROVE TypeInv'
    BY <2>11 DEF StopExpires, TypeOK, treeVars, callVars, closeVars
  <2>12. CASE close
    BY <2>12 DEF close, TypeOK, treeVars, mailboxVars, callVars
  <2>13. ASSUME NEW a \in All, CloseNext(a) PROVE TypeInv'
    <3>1. a \in Ids /\ a \in created /\ a \in listed
      BY <2>13 DEF CloseNext, TypeOK, Ids
    <3> QED BY <2>13, <3>1, SentIsPhase DEF CloseNext, TypeOK, treeVars, mailboxVars
  <2>14. CASE CloseEnds
    BY <2>14 DEF CloseEnds, TypeOK, treeVars, mailboxVars, callVars
  <2>15. CASE UNCHANGED vars
    BY <2>15 DEF vars, TypeOK, treeVars, mailboxVars, callVars, closeVars
  <2> QED BY <2>2, <2>3, <2>4, <2>5, <2>6, <2>7, <2>8, <2>9, <2>10, <2>11, <2>12, <2>13,
             <2>14, <2>15 DEF Next, Proceed
<1> QED BY <1>1, <1>2

\* The type invariant of Stopping.
THEOREM TypeCorrect == Spec => []TypeOK
<1>1. TypeInv => TypeOK
  BY DEF TypeInv
<1> QED BY <1>1, TypeInductive, PTL DEF Spec

-----------------------------------------------------------------------------
(* Answers and children                                                     *)

\* What a sequence found and is done with, is stopped.
Progress ==
  \A r \in Ids, a \in All :
    call[r][a] = "children" => snapshot[r][a] \subseteq todo[r][a] \cup {awaits[r][a]} \cup closed

StopInv == AnsweredIsStopped /\ Progress /\ ChildrenStopFirst

\* Steps that touch no call keep it, as no mailbox is opened again.
LEMMA NoCallKeepsStopInv ==
  ASSUME StopInv, UNCHANGED callVars, closed \subseteq closed'
  PROVE  StopInv'
BY DEF StopInv, AnsweredIsStopped, Progress, ChildrenStopFirst, Answered, callVars

\* So do those that send a stop or let it start.
LEMMA SendKeepsStopInv ==
  ASSUME TypeInv, StopInv, NEW r \in Ids, NEW a \in All, NEW phase,
         phase \in {"queued", "before"} \/ (phase = "skipped" /\ a \in closed),
         call' = [call EXCEPT ![r][a] = phase],
         UNCHANGED <<todo, awaits, snapshot, closed>>
  PROVE  StopInv'
<1> USE DEF TypeInv, TypeOK
<1>1. \A q \in Ids, b \in All :
        call'[q][b] = IF q = r /\ b = a THEN phase ELSE call[q][b]
  OBVIOUS
<1>2. AnsweredIsStopped'
  BY <1>1 DEF StopInv, AnsweredIsStopped, Answered
<1>3. Progress'
  BY <1>1 DEF StopInv, Progress
<1>4. ChildrenStopFirst'
  BY <1>1 DEF StopInv, ChildrenStopFirst
<1> QED BY <1>2, <1>3, <1>4 DEF StopInv

LEMMA SentPhase ==
  ASSUME NEW a
  PROVE  Sent(a) \in {"queued", "before"} \/ (Sent(a) = "skipped" /\ a \in closed)
BY DEF Sent

LEMMA StopNextChildKeepsStopInv ==
  ASSUME TypeInv, StopInv, NEW r \in Ids, NEW a \in All, StopNextChild(r, a)
  PROVE  StopInv'
<1> USE DEF TypeInv, TypeOK
<1>1. PICK c \in todo[r][a] :
        /\ call' = [call EXCEPT ![r][c] = Sent(c)]
        /\ todo' = [todo EXCEPT ![r][a] = @ \ {c}]
        /\ awaits' = [awaits EXCEPT ![r][a] = c]
  BY DEF StopNextChild
<1>2. UNCHANGED <<snapshot, closed>>
  BY DEF StopNextChild, mailboxVars
<1>3. c \in All
  OBVIOUS
<1>4. \A q \in Ids, b \in All :
        call'[q][b] = IF q = r /\ b = c THEN Sent(c) ELSE call[q][b]
  BY <1>1, <1>3
<1>5. AnsweredIsStopped'
  BY <1>2, <1>4, SentPhase DEF StopInv, AnsweredIsStopped, Answered
<1>6. ChildrenStopFirst'
  BY <1>2, <1>4, SentPhase DEF StopInv, ChildrenStopFirst
<1>7. Progress'
  <2> SUFFICES ASSUME NEW q \in Ids, NEW b \in All, call'[q][b] = "children"
               PROVE  snapshot[q][b] \subseteq todo'[q][b] \cup {awaits'[q][b]} \cup closed
    BY <1>2 DEF Progress
  <2>1. call[q][b] = "children"
    BY <1>4, SentPhase
  <2>2. snapshot[q][b] \subseteq todo[q][b] \cup {awaits[q][b]} \cup closed
    BY <2>1 DEF StopInv, Progress
  <2>3. CASE q = r /\ b = a
    <3>1. awaits[r][a] # None => awaits[r][a] \in closed
      BY DEF StopNextChild, Settled, StopInv, AnsweredIsStopped
    <3>2. None \notin snapshot[r][a]
      BY ActorsAssumption
    <3> QED BY <1>1, <2>2, <2>3, <3>1, <3>2
  <2>4. CASE ~(q = r /\ b = a)
    <3>1. todo'[q][b] = todo[q][b] /\ awaits'[q][b] = awaits[q][b]
      BY <1>1, <2>4
    <3> QED BY <2>2, <3>1
  <2> QED BY <2>3, <2>4
<1> QED BY <1>5, <1>6, <1>7 DEF StopInv

LEMMA FinishKeepsStopInv ==
  ASSUME TypeInv, StopInv, NEW r \in Ids, NEW a \in All, Finish(r, a)
  PROVE  StopInv'
<1> USE DEF TypeInv, TypeOK
<1>1. /\ \A q \in Ids, b \in All :
            call'[q][b] = IF q = r /\ b = a THEN "stopped" ELSE call[q][b]
      /\ closed' = closed \cup {a}
      /\ UNCHANGED <<todo, awaits, snapshot>>
  BY DEF Finish
<1>2. AnsweredIsStopped'
  BY <1>1 DEF StopInv, AnsweredIsStopped, Answered
<1>3. Progress'
  BY <1>1 DEF StopInv, Progress
<1>4. snapshot[r][a] \subseteq closed
  <2>1. awaits[r][a] # None => awaits[r][a] \in closed
    BY DEF Finish, Settled, StopInv, AnsweredIsStopped
  <2>2. None \notin snapshot[r][a]
    BY ActorsAssumption
  <2>3. snapshot[r][a] \subseteq todo[r][a] \cup {awaits[r][a]} \cup closed
    BY DEF Finish, StopInv, Progress
  <2> QED BY <2>1, <2>2, <2>3 DEF Finish
<1>5. ChildrenStopFirst'
  BY <1>1, <1>4 DEF StopInv, ChildrenStopFirst
<1> QED BY <1>2, <1>3, <1>5 DEF StopInv

LEMMA BeforeStopDoneKeepsStopInv ==
  ASSUME TypeInv, StopInv, NEW r \in Ids, NEW a \in All, BeforeStopDone(r, a)
  PROVE  StopInv'
<1> USE DEF TypeInv, TypeOK
<1>1. /\ \A q \in Ids, b \in All :
            ~(q = r /\ b = a) => /\ call'[q][b] = call[q][b]
                                /\ todo'[q][b] = todo[q][b]
                                /\ snapshot'[q][b] = snapshot[q][b]
      /\ call'[r][a] = "children"
      /\ todo'[r][a] = snapshot'[r][a]
      /\ UNCHANGED <<closed, awaits>>
  BY DEF BeforeStopDone, mailboxVars
<1>2. AnsweredIsStopped'
  BY <1>1 DEF StopInv, AnsweredIsStopped, Answered
<1>3. Progress'
  <2> SUFFICES ASSUME NEW q \in Ids, NEW b \in All, call'[q][b] = "children"
               PROVE  snapshot'[q][b] \subseteq todo'[q][b] \cup {awaits'[q][b]} \cup closed'
    BY DEF Progress
  <2>1. CASE q = r /\ b = a
    BY <1>1, <2>1
  <2>2. CASE ~(q = r /\ b = a)
    BY <1>1, <2>2 DEF StopInv, Progress
  <2> QED BY <2>1, <2>2
<1>4. ChildrenStopFirst'
  BY <1>1 DEF StopInv, ChildrenStopFirst
<1> QED BY <1>2, <1>3, <1>4 DEF StopInv

LEMMA StopInvInductive ==
  /\ Init => StopInv
  /\ TypeInv /\ StopInv /\ [Next]_vars => StopInv'
<1>1. Init => StopInv
  BY DEF Init, Empty, StopInv, AnsweredIsStopped, Answered, Progress, ChildrenStopFirst
<1>2. ASSUME TypeInv, StopInv, [Next]_vars
      PROVE  StopInv'
  <2> USE <1>2
  <2>1. ASSUME NEW a \in Actors, Create(a) PROVE StopInv'
    BY <2>1, NoCallKeepsStopInv DEF Create, childActorFor, actorFor, mailboxVars
  <2>2. ASSUME NEW a \in Actors, HandlerFails(a) PROVE StopInv'
    BY <2>2, NoCallKeepsStopInv DEF HandlerFails
  <2>3. ASSUME NEW a \in Actors, Resume(a) PROVE StopInv'
    <3>1. UNCHANGED <<todo, awaits, snapshot, closed>> /\ a \in All
      BY <2>3 DEF Resume, All
    <3>2. CASE UNCHANGED call
      BY <3>1, <3>2, NoCallKeepsStopInv DEF callVars
    <3>3. ASSUME NEW r \in Ids, call' = [call EXCEPT ![r][a] = "before"] PROVE StopInv'
      BY <3>1, <3>3, SendKeepsStopInv
    <3> QED BY <2>3, <3>2, <3>3 DEF Resume
  <2>4. ASSUME NEW r \in Requests, NEW a \in Actors, RequestStop(r, a) PROVE StopInv'
    BY <2>4, SendKeepsStopInv, SentPhase DEF RequestStop, mailboxVars, Ids, All
  <2>5. ASSUME NEW r \in Requests, NEW a \in Actors, SupervisorStops(r, a) PROVE StopInv'
    <3>1. /\ r \in Ids /\ a \in All
          /\ UNCHANGED <<todo, awaits, snapshot, closed>>
      BY <2>5 DEF SupervisorStops, mailboxVars, Ids, All
    <3>2. CASE a \in closed
      BY <2>5, <3>1, <3>2, SendKeepsStopInv DEF SupervisorStops
    <3>3. CASE a \notin closed
      BY <2>5, <3>1, <3>3, SendKeepsStopInv DEF SupervisorStops
    <3> QED BY <3>2, <3>3
  <2>6. ASSUME NEW r \in Ids, NEW a \in All, StopStarts(r, a) PROVE StopInv'
    BY <2>6, SendKeepsStopInv DEF StopStarts, mailboxVars
  <2>7. ASSUME NEW r \in Ids, NEW a \in All, StopExpires(r, a) PROVE StopInv'
    BY <2>7, NoCallKeepsStopInv DEF StopExpires
  <2>8. CASE close
    BY <2>8, NoCallKeepsStopInv DEF close, mailboxVars
  <2>9. ASSUME NEW a \in All, CloseNext(a) PROVE StopInv'
    BY <2>9, SendKeepsStopInv, SentPhase DEF CloseNext, mailboxVars, Ids
  <2>10. CASE CloseEnds
    BY <2>10, NoCallKeepsStopInv DEF CloseEnds, mailboxVars
  <2>11. CASE UNCHANGED vars
    BY <2>11, NoCallKeepsStopInv DEF vars, mailboxVars
  <2> QED BY <2>1, <2>2, <2>3, <2>4, <2>5, <2>6, <2>7, <2>8, <2>9, <2>10, <2>11,
             BeforeStopDoneKeepsStopInv, StopNextChildKeepsStopInv, FinishKeepsStopInv
          DEF Next, Proceed
<1> QED BY <1>1, <1>2

\* The answer to a stop means that the actor is stopped.
THEOREM AnswerMeansStopped == Spec => []AnsweredIsStopped
<1>1. StopInv => AnsweredIsStopped
  BY DEF StopInv
<1> QED BY <1>1, TypeInductive, StopInvInductive, PTL DEF Spec

\* Depth first: an actor stops after the children that its stop found.
THEOREM DepthFirst == Spec => []ChildrenStopFirst
<1>1. StopInv => ChildrenStopFirst
  BY DEF StopInv
<1> QED BY <1>1, TypeInductive, StopInvInductive, PTL DEF Spec

-----------------------------------------------------------------------------
(* The tree and the directory                                               *)

\* Lists of children agree with the parents, and roots keep their places.
Links ==
  /\ \A p \in All : \A c \in children[p] : parent[c] = p
  /\ \A r \in Ids, a \in All : \A c \in todo[r][a] : parent[c] = a
  /\ parent[PublicRoot] = PrivateRoot
  /\ parent[PrivateRoot] = None

TreeInv == Links /\ StoppedIsDetached

LEMMA CreateKeepsTreeInv ==
  ASSUME TypeInv, TreeInv, NEW p \in All \cup {None}, NEW a \in Actors, actorFor(p, a)
  PROVE  TreeInv'
<1> USE DEF TypeInv, TypeOK
<1>1. /\ a \in All /\ a \notin Roots /\ a \notin created
      /\ parent' = [parent EXCEPT ![a] = p]
      /\ \A q \in All : children'[q] = IF q = p THEN children[q] \cup {a} ELSE children[q]
      /\ directory' = directory \cup {a}
      /\ created' = created \cup {a}
      /\ UNCHANGED <<closed, expired, todo>>
  BY ActorsAssumption DEF actorFor, mailboxVars, callVars, All
<1>2. \A b \in created : b \in All /\ parent'[b] = parent[b]
  BY <1>1
<1>3. Links'
  <2>1. ASSUME NEW q \in All, NEW c \in children'[q] PROVE parent'[c] = q
    <3>1. CASE c \in children[q]
      <4>1. c \in created /\ parent[c] = q
        BY <3>1 DEF TreeInv, Links
      <4> QED BY <1>2, <4>1
    <3>2. CASE c = a /\ q = p
      BY <1>1, <3>2
    <3> QED BY <1>1, <2>1, <3>1, <3>2
  <2>2. ASSUME NEW r \in Ids, NEW b \in All, NEW c \in todo'[r][b] PROVE parent'[c] = b
    BY <1>1, <1>2, <2>2 DEF TreeInv, Links
  <2>3. parent'[PublicRoot] = PrivateRoot /\ parent'[PrivateRoot] = None
    BY <1>1 DEF TreeInv, Links, Roots
  <2> QED BY <2>1, <2>2, <2>3 DEF Links
<1>4. StoppedIsDetached'
  BY <1>1 DEF TreeInv, StoppedIsDetached
<1> QED BY <1>3, <1>4 DEF TreeInv

LEMMA FinishKeepsTreeInv ==
  ASSUME TypeInv, TreeInv, NEW r \in Ids, NEW a \in All, Finish(r, a)
  PROVE  TreeInv'
<1> USE DEF TypeInv, TypeOK
<1>1. /\ closed' = closed \cup {a}
      /\ directory' = directory \ {a}
      /\ UNCHANGED <<created, parent, expired, todo>>
  BY DEF Finish
<1>2. \A p \in All : children'[p] \subseteq children[p]
  BY DEF Finish
<1>3. ASSUME NEW p \in All, a \in children'[p]
      PROVE  FALSE
  <2>1. parent[a] = p
    BY <1>2, <1>3 DEF TreeInv, Links
  <2>2. parent[a] # None
    BY <2>1, ActorsAssumption
  <2>3. children'[p] = children[p] \ {a}
    BY <2>1, <2>2 DEF Finish
  <2> QED BY <1>3, <2>3
<1>4. Links'
  BY <1>1, <1>2 DEF TreeInv, Links
<1>5. StoppedIsDetached'
  BY <1>1, <1>2, <1>3 DEF TreeInv, StoppedIsDetached
<1> QED BY <1>4, <1>5 DEF TreeInv

\* The other steps leave the tree alone, and may shorten what is to do.
LEMMA TreeKeepsTreeInv ==
  ASSUME TreeInv, UNCHANGED <<treeVars, directory, todo>>,
         closed' \ expired' = closed \ expired, closed \subseteq closed'
  PROVE  TreeInv'
<1>1. Links'
  BY DEF TreeInv, Links, treeVars
<1>2. StoppedIsDetached'
  <2>1. \A b \in closed' \ expired' : b \notin directory'
    BY DEF TreeInv, StoppedIsDetached
  <2>2. \A b \in created' \ directory' : b \in closed' /\ \A p \in All : b \notin children'[p]
    BY DEF TreeInv, StoppedIsDetached, treeVars
  <2> QED BY <2>1, <2>2 DEF StoppedIsDetached
<1> QED BY <1>1, <1>2 DEF TreeInv

LEMMA TreeInvInductive ==
  /\ Init => TreeInv
  /\ TypeInv /\ TreeInv /\ [Next]_vars => TreeInv'
<1>1. Init => TreeInv
  BY ActorsAssumption DEF Init, Empty, TreeInv, Links, StoppedIsDetached, All, Roots
<1>2. ASSUME TypeInv, TreeInv, [Next]_vars
      PROVE  TreeInv'
  <2> USE <1>2
  <2>1. ASSUME NEW a \in Actors, Create(a) PROVE TreeInv'
    <3>1. PICK p \in All \cup {None} : actorFor(p, a)
      BY <2>1, CreateHasParent
    <3> QED BY <3>1, CreateKeepsTreeInv
  <2>2. ASSUME NEW a \in Actors, HandlerFails(a) PROVE TreeInv'
    BY <2>2, TreeKeepsTreeInv DEF HandlerFails, callVars
  <2>3. ASSUME NEW a \in Actors, Resume(a) PROVE TreeInv'
    BY <2>3, TreeKeepsTreeInv DEF Resume
  <2>4. ASSUME NEW r \in Requests, NEW a \in Actors, RequestStop(r, a) PROVE TreeInv'
    BY <2>4, TreeKeepsTreeInv DEF RequestStop, mailboxVars
  <2>5. ASSUME NEW r \in Requests, NEW a \in Actors, SupervisorStops(r, a) PROVE TreeInv'
    BY <2>5, TreeKeepsTreeInv DEF SupervisorStops, mailboxVars
  <2>6. ASSUME NEW r \in Ids, NEW a \in All, StopStarts(r, a) PROVE TreeInv'
    BY <2>6, TreeKeepsTreeInv DEF StopStarts, mailboxVars
  <2>7. ASSUME NEW r \in Ids, NEW a \in All, BeforeStopDone(r, a) PROVE TreeInv'
    <3>1. /\ UNCHANGED <<treeVars, directory, closed, expired>>
          /\ \A q \in Ids, b \in All : todo'[q][b] = todo[q][b] \/ todo'[q][b] = children[b]
      BY <2>7 DEF BeforeStopDone, mailboxVars, TypeInv, TypeOK
    <3>2. Links'
      BY <3>1 DEF TreeInv, Links, treeVars
    <3> QED BY <3>1, <3>2 DEF TreeInv, StoppedIsDetached, treeVars
  <2>8. ASSUME NEW r \in Ids, NEW a \in All, StopNextChild(r, a) PROVE TreeInv'
    <3>1. /\ UNCHANGED <<treeVars, directory, closed, expired>>
          /\ \A q \in Ids, b \in All : todo'[q][b] \subseteq todo[q][b]
      BY <2>8 DEF StopNextChild, mailboxVars, TypeInv, TypeOK
    <3>2. Links'
      BY <3>1 DEF TreeInv, Links, treeVars
    <3> QED BY <3>1, <3>2 DEF TreeInv, StoppedIsDetached, treeVars
  <2>9. ASSUME NEW r \in Ids, NEW a \in All, StopExpires(r, a) PROVE TreeInv'
    BY <2>9, TreeKeepsTreeInv DEF StopExpires, callVars
  <2>10. CASE close
    BY <2>10, TreeKeepsTreeInv DEF close, mailboxVars, callVars
  <2>11. ASSUME NEW a \in All, CloseNext(a) PROVE TreeInv'
    BY <2>11, TreeKeepsTreeInv DEF CloseNext, mailboxVars
  <2>12. CASE CloseEnds
    BY <2>12, TreeKeepsTreeInv DEF CloseEnds, mailboxVars, callVars
  <2>13. CASE UNCHANGED vars
    BY <2>13, TreeKeepsTreeInv DEF vars, mailboxVars, callVars
  <2> QED BY <2>1, <2>2, <2>3, <2>4, <2>5, <2>6, <2>7, <2>8, <2>9, <2>10, <2>11, <2>12,
             <2>13, FinishKeepsTreeInv DEF Next, Proceed
<1> QED BY <1>1, <1>2

\* The mailbox, the directory and the lists of children agree on who stopped.
THEOREM Detachment == Spec => []StoppedIsDetached
<1>1. TreeInv => StoppedIsDetached
  BY DEF TreeInv
<1> QED BY <1>1, TypeInductive, TreeInvInductive, PTL DEF Spec

-----------------------------------------------------------------------------
(* close()                                                                  *)

\* Only close() stops a root, and the public root by a request of its own.
CloseCalls ==
  /\ \A r \in Ids : call[r][PrivateRoot] # "none" => r = PrivateRoot /\ closing # "open"
  /\ call[PublicRoot][PublicRoot] # "none" => closing # "open"

\* What close() listed and is done with, is stopped.
CloseProgress ==
  /\ closing # "open" => listed \subseteq closeTodo \cup {closeAwaits} \cup closed
  /\ closing # "open" => Roots \subseteq listed \cup closed

CloseInv == CloseCalls /\ CloseProgress /\ RootsStopLast

\* Steps that send no stop to a root, and leave close() alone.
LEMMA OtherKeepsCloseInv ==
  ASSUME CloseInv, UNCHANGED closeVars, closed \subseteq closed',
         \A r \in Ids : call'[r][PrivateRoot] # "none" => call[r][PrivateRoot] # "none",
         call'[PublicRoot][PublicRoot] # "none" => call[PublicRoot][PublicRoot] # "none"
  PROVE  CloseInv'
<1>1. PrivateRoot \in Ids
  BY DEF Ids, All, Roots
<1>2. CloseCalls'
  BY DEF CloseInv, CloseCalls, closeVars
<1>3. CloseProgress'
  BY DEF CloseInv, CloseProgress, closeVars
<1>4. RootsStopLast'
  BY <1>1 DEF CloseInv, RootsStopLast, closeVars
<1> QED BY <1>2, <1>3, <1>4 DEF CloseInv

\* A stop that goes on keeps its call, and one of a child is not of a root.
LEMMA ProceedKeepsCloseInv ==
  ASSUME TypeInv, TreeInv, CloseInv, NEW r \in Ids, NEW a \in All, Proceed(r, a)
  PROVE  CloseInv'
<1> USE DEF TypeInv, TypeOK
<1>1. UNCHANGED closeVars /\ closed \subseteq closed'
  BY DEF Proceed, StopStarts, BeforeStopDone, StopNextChild, Finish, mailboxVars
<1>2. PrivateRoot \in Ids /\ PublicRoot \in Ids /\ Roots \subseteq All
  BY DEF Ids, All, Roots
<1>3. CASE ~StopNextChild(r, a)
  <2>1. \E phase \in Phases : call' = [call EXCEPT ![r][a] = phase] /\ call[r][a] # "none"
    BY <1>3 DEF Proceed, StopStarts, BeforeStopDone, Finish, Phases
  <2>2. \A q \in Ids, b \in All : call'[q][b] # "none" => call[q][b] # "none"
    BY <2>1
  <2> QED BY <1>1, <1>2, <2>2, OtherKeepsCloseInv DEF Roots
<1>4. CASE StopNextChild(r, a)
  <2>1. PICK c \in todo[r][a] : call' = [call EXCEPT ![r][c] = Sent(c)]
    BY <1>4 DEF StopNextChild
  <2>2. parent[c] = a
    BY DEF TreeInv, Links
  <2>3. c # PrivateRoot
    BY <2>2, ActorsAssumption DEF TreeInv, Links
  <2>4. ~(r = PublicRoot /\ c = PublicRoot)
    <3> SUFFICES ASSUME r = PublicRoot, c = PublicRoot PROVE FALSE
      OBVIOUS
    <3>1. a = PrivateRoot
      BY <2>2 DEF TreeInv, Links
    <3>2. call[r][PrivateRoot] # "none"
      BY <1>4, <3>1 DEF StopNextChild
    <3> QED BY <3>2, ActorsAssumption DEF CloseInv, CloseCalls
  <2>5. /\ \A q \in Ids : call'[q][PrivateRoot] = call[q][PrivateRoot]
        /\ call'[PublicRoot][PublicRoot] = call[PublicRoot][PublicRoot]
    BY <1>2, <2>1, <2>3, <2>4 DEF Roots
  <2> QED BY <1>1, <2>5, OtherKeepsCloseInv
<1> QED BY <1>3, <1>4

LEMMA CloseNextKeepsCloseInv ==
  ASSUME TypeInv, StopInv, CloseInv, NEW a \in All, CloseNext(a)
  PROVE  CloseInv'
<1> USE DEF TypeInv, TypeOK
<1>1. /\ closing = "closing"
      /\ a \in closeTodo
      /\ Turn(a)
      /\ closeTodo' = closeTodo \ {a}
      /\ closeAwaits' = a
      /\ UNCHANGED <<closed, listed, closing>>
      /\ \A q \in Ids, b \in All :
            call'[q][b] = IF q = a /\ b = a THEN Sent(a) ELSE call[q][b]
  BY DEF CloseNext, mailboxVars, Ids
<1>2. PrivateRoot \in Ids /\ PublicRoot \in Ids /\ Roots \subseteq All
  BY DEF Ids, All, Roots
<1>3. CloseCalls'
  BY <1>1, <1>2 DEF CloseInv, CloseCalls, Roots
<1>4. listed \subseteq closeTodo \cup closed
  <2>1. closeAwaits # None => closeAwaits \in closed
    <3> SUFFICES ASSUME closeAwaits # None PROVE closeAwaits \in closed
      OBVIOUS
    <3>1. closeAwaits \in All /\ closeAwaits \in Ids
      BY DEF Ids
    <3>2. Answered(closeAwaits, closeAwaits)
      BY DEF CloseNext, CloseSettled
    <3> QED BY <3>1, <3>2 DEF StopInv, AnsweredIsStopped
  <2>2. None \notin listed
    BY ActorsAssumption
  <2> QED BY <1>1, <2>1, <2>2 DEF CloseInv, CloseProgress
<1>5. CloseProgress'
  BY <1>1, <1>4 DEF CloseInv, CloseProgress
<1>6. RootsStopLast'
  <2>1. CASE a = PrivateRoot
    <3>1. PublicRoot \in closed
      <4>1. closeTodo \subseteq {PrivateRoot}
        BY <1>1, <2>1, ActorsAssumption DEF Turn
      <4>2. PublicRoot \in listed \cup closed
        BY <1>1 DEF CloseInv, CloseProgress, Roots
      <4> QED BY <1>4, <4>1, <4>2, ActorsAssumption
    <3>2. call'[PublicRoot][PublicRoot] = call[PublicRoot][PublicRoot]
      BY <1>1, <1>2, <2>1, ActorsAssumption DEF Roots
    <3> QED BY <1>1, <3>1, <3>2 DEF CloseInv, RootsStopLast
  <2>2. CASE a = PublicRoot
    <3>1. listed \ Roots \subseteq closed
      <4>1. closeTodo \subseteq Roots
        BY <1>1, <2>2, ActorsAssumption DEF Turn
      <4> QED BY <1>4, <4>1
    <3>2. call'[PrivateRoot][PrivateRoot] = call[PrivateRoot][PrivateRoot]
      BY <1>1, <1>2, <2>2, ActorsAssumption DEF Roots
    <3> QED BY <1>1, <3>1, <3>2 DEF CloseInv, RootsStopLast
  <2>3. CASE a \notin Roots
    <3>1. /\ call'[PrivateRoot][PrivateRoot] = call[PrivateRoot][PrivateRoot]
          /\ call'[PublicRoot][PublicRoot] = call[PublicRoot][PublicRoot]
      BY <1>1, <1>2, <2>3 DEF Roots
    <3> QED BY <1>1, <3>1 DEF CloseInv, RootsStopLast
  <2> QED BY <2>1, <2>2, <2>3 DEF Roots
<1> QED BY <1>3, <1>5, <1>6 DEF CloseInv

LEMMA CloseInvInductive ==
  /\ Init => CloseInv
  /\ TypeInv /\ StopInv /\ TreeInv /\ CloseInv /\ [Next]_vars => CloseInv'
<1>1. Init => CloseInv
  BY DEF Init, Empty, CloseInv, CloseCalls, CloseProgress, RootsStopLast, Ids, All, Roots
<1>2. ASSUME TypeInv, StopInv, TreeInv, CloseInv, [Next]_vars
      PROVE  CloseInv'
  <2> USE <1>2
  <2>0. /\ PrivateRoot \in Ids /\ PublicRoot \in Ids
        /\ Roots \subseteq All /\ Actors \subseteq All /\ Actors \cap Roots = {}
        /\ Requests \subseteq Ids
    BY ActorsAssumption DEF Ids, All, Roots
  <2>1. ASSUME UNCHANGED call, UNCHANGED closeVars, closed \subseteq closed' PROVE CloseInv'
    BY <2>1, OtherKeepsCloseInv
  <2>2. ASSUME NEW r \in Ids, NEW a \in Actors, NEW phase,
               call' = [call EXCEPT ![r][a] = phase], UNCHANGED closeVars, UNCHANGED closed
        PROVE  CloseInv'
    <3>1. \A q \in Ids, b \in Roots : call'[q][b] = call[q][b]
      BY <2>0, <2>2 DEF TypeInv, TypeOK
    <3> QED BY <2>0, <2>2, <3>1, OtherKeepsCloseInv DEF Roots
  <2>3. ASSUME NEW a \in Actors, Create(a) PROVE CloseInv'
    BY <2>1, <2>3 DEF Create, childActorFor, actorFor, mailboxVars, callVars
  <2>4. ASSUME NEW a \in Actors, HandlerFails(a) PROVE CloseInv'
    BY <2>1, <2>4 DEF HandlerFails, callVars
  <2>5. ASSUME NEW a \in Actors, Resume(a) PROVE CloseInv'
    BY <2>1, <2>2, <2>5 DEF Resume
  <2>6. ASSUME NEW r \in Requests, NEW a \in Actors, RequestStop(r, a) PROVE CloseInv'
    BY <2>0, <2>2, <2>6 DEF RequestStop, mailboxVars
  <2>7. ASSUME NEW r \in Requests, NEW a \in Actors, SupervisorStops(r, a) PROVE CloseInv'
    BY <2>0, <2>2, <2>7 DEF SupervisorStops, mailboxVars
  <2>8. ASSUME NEW r \in Ids, NEW a \in All, StopExpires(r, a) PROVE CloseInv'
    BY <2>1, <2>8 DEF StopExpires, callVars
  <2>9. CASE close
    <3>1. /\ closing = "open" /\ closing' = "closing"
          /\ listed' = directory /\ closeTodo' = directory
          /\ UNCHANGED <<call, closed>>
      BY <2>9 DEF close, mailboxVars, callVars
    <3>2. Roots \subseteq directory \cup closed
      BY DEF TreeInv, StoppedIsDetached, TypeInv, RootsExist
    <3>3. CloseCalls'
      BY <3>1 DEF CloseInv, CloseCalls
    <3>4. CloseProgress'
      BY <3>1, <3>2 DEF CloseProgress
    <3>5. RootsStopLast'
      BY <2>0, <3>1 DEF CloseInv, CloseCalls, RootsStopLast
    <3> QED BY <3>3, <3>4, <3>5 DEF CloseInv
  <2>10. CASE CloseEnds
    BY <2>10 DEF CloseEnds, CloseInv, CloseCalls, CloseProgress, RootsStopLast, mailboxVars, callVars
  <2>11. CASE UNCHANGED vars
    BY <2>1, <2>11 DEF vars, mailboxVars, callVars
  <2> QED BY <2>3, <2>4, <2>5, <2>6, <2>7, <2>8, <2>9, <2>10, <2>11,
             ProceedKeepsCloseInv, CloseNextKeepsCloseInv DEF Next
<1> QED BY <1>1, <1>2

\* close() stops the roots when all it found below them is stopped.
THEOREM RootsLast == Spec => []RootsStopLast
<1>1. CloseInv => RootsStopLast
  BY DEF CloseInv
<1> QED BY <1>1, TypeInductive, StopInvInductive, TreeInvInductive, CloseInvInductive, PTL DEF Spec

-----------------------------------------------------------------------------
(* What close() does not find                                               *)

\* The public root is stopped after close() began, and not before.
LateInv ==
  /\ \A r \in Ids : call[r][PublicRoot] # "none" => closing # "open"
  /\ PublicRoot \in closed => closing # "open"
  /\ SurvivorsAreLate

\* Steps that make no actor, and stop the public root only for close().
LEMMA OtherKeepsLateInv ==
  ASSUME LateInv, UNCHANGED <<created, parent, closeVars>>, closed \subseteq closed',
         PublicRoot \in closed' => PublicRoot \in closed \/ closing # "open",
         \A r \in Ids : call'[r][PublicRoot] # "none" =>
           call[r][PublicRoot] # "none" \/ closing # "open"
  PROVE  LateInv'
BY DEF LateInv, SurvivorsAreLate, closeVars

LEMMA CreateKeepsLateInv ==
  ASSUME TypeInv, TreeInv, LateInv, NEW a \in Actors, Create(a)
  PROVE  LateInv'
<1> USE DEF TypeInv, TypeOK
<1>1. PICK p \in All \cup {None} : actorFor(p, a) /\ (p = None => PublicRoot \notin directory)
  BY CreateHasParent
<1>2. /\ a \in All /\ a \notin created
      /\ created' = created \cup {a}
      /\ parent' = [parent EXCEPT ![a] = p]
      /\ UNCHANGED <<call, closed, closeVars>>
  BY <1>1 DEF actorFor, mailboxVars, callVars, All
<1>3. p = None => PublicRoot \in closed
  BY <1>1 DEF TreeInv, StoppedIsDetached, RootsExist, Roots
<1>4. ASSUME NEW b \in created' \ Roots, parent'[b] = None
      PROVE  PublicRoot \in closed /\ b \notin listed
  <2>1. CASE b = a
    BY <1>2, <1>3, <1>4, <2>1
  <2>2. CASE b # a
    <3>1. b \in created \ Roots /\ b \in All /\ parent[b] = None
      BY <1>2, <1>4, <2>2
    <3> QED BY <3>1 DEF LateInv, SurvivorsAreLate
  <2> QED BY <2>1, <2>2
<1>5. SurvivorsAreLate'
  BY <1>2, <1>4 DEF LateInv, SurvivorsAreLate, closeVars
<1> QED BY <1>2, <1>5 DEF LateInv, closeVars

\* Only a stop of the private root reaches the public one from above.
LEMMA ProceedKeepsLateInv ==
  ASSUME TypeInv, TreeInv, CloseInv, LateInv, NEW r \in Ids, NEW a \in All, Proceed(r, a)
  PROVE  LateInv'
<1> USE DEF TypeInv, TypeOK
<1>1. UNCHANGED <<created, parent, closeVars>>
  BY DEF Proceed, StopStarts, BeforeStopDone, StopNextChild, Finish, treeVars
<1>2. PublicRoot \in All /\ PublicRoot # None
  BY ActorsAssumption DEF All, Roots
<1>3. CASE StopNextChild(r, a)
  <2>1. PICK c \in todo[r][a] : call' = [call EXCEPT ![r][c] = Sent(c)]
    BY <1>3 DEF StopNextChild
  <2>2. parent[c] = a
    BY DEF TreeInv, Links
  <2>3. c = PublicRoot => closing # "open"
    <3> SUFFICES ASSUME c = PublicRoot PROVE closing # "open"
      OBVIOUS
    <3>1. a = PrivateRoot
      BY <2>2 DEF TreeInv, Links
    <3>2. call[r][PrivateRoot] # "none"
      BY <1>3, <3>1 DEF StopNextChild
    <3> QED BY <3>2 DEF CloseInv, CloseCalls
  <2>4. closed' = closed
    BY <1>3 DEF StopNextChild, mailboxVars
  <2>5. ASSUME NEW q \in Ids, call'[q][PublicRoot] # "none"
        PROVE  call[q][PublicRoot] # "none" \/ closing # "open"
    BY <1>2, <2>1, <2>3, <2>5
  <2> QED BY <1>1, <2>4, <2>5, OtherKeepsLateInv
<1>4. CASE ~StopNextChild(r, a)
  <2>1. \E phase \in Phases : call' = [call EXCEPT ![r][a] = phase] /\ call[r][a] # "none"
    BY <1>4 DEF Proceed, StopStarts, BeforeStopDone, Finish, Phases
  <2>2. \A q \in Ids, b \in All : call'[q][b] # "none" => call[q][b] # "none"
    BY <2>1
  <2>3. closed' = closed \/ closed' = closed \cup {a}
    BY <1>4 DEF Proceed, StopStarts, BeforeStopDone, Finish, mailboxVars
  <2>4. PublicRoot \in closed' => PublicRoot \in closed \/ closing # "open"
    BY <2>1, <2>3 DEF LateInv
  <2> QED BY <1>1, <1>2, <2>2, <2>3, <2>4, OtherKeepsLateInv
<1> QED BY <1>3, <1>4

LEMMA LateInvInductive ==
  /\ Init => LateInv
  /\ TypeInv /\ StopInv /\ TreeInv /\ CloseInv /\ LateInv /\ [Next]_vars => LateInv'
<1>1. Init => LateInv
  BY DEF Init, Empty, LateInv, SurvivorsAreLate, Ids, All, Roots
<1>2. ASSUME TypeInv, StopInv, TreeInv, CloseInv, LateInv, [Next]_vars
      PROVE  LateInv'
  <2> USE <1>2
  <2>0. PublicRoot \in All /\ PublicRoot \notin Actors /\ Requests \subseteq Ids
    BY ActorsAssumption DEF All, Roots, Ids
  <2>1. ASSUME UNCHANGED <<created, parent, call, closeVars, closed>> PROVE LateInv'
    BY <2>1, OtherKeepsLateInv
  <2>2. ASSUME NEW r \in Ids, NEW a \in Actors, NEW phase,
               call' = [call EXCEPT ![r][a] = phase],
               UNCHANGED <<created, parent, closeVars, closed>>
        PROVE  LateInv'
    <3>1. \A q \in Ids : call'[q][PublicRoot] = call[q][PublicRoot]
      BY <2>0, <2>2 DEF TypeInv, TypeOK
    <3> QED BY <2>2, <3>1, OtherKeepsLateInv
  <2>3. ASSUME NEW a \in Actors, HandlerFails(a) PROVE LateInv'
    BY <2>1, <2>3 DEF HandlerFails, callVars, treeVars
  <2>4. ASSUME NEW a \in Actors, Resume(a) PROVE LateInv'
    BY <2>1, <2>2, <2>4 DEF Resume, treeVars
  <2>5. ASSUME NEW r \in Requests, NEW a \in Actors, RequestStop(r, a) PROVE LateInv'
    BY <2>0, <2>2, <2>5 DEF RequestStop, mailboxVars, treeVars
  <2>6. ASSUME NEW r \in Requests, NEW a \in Actors, SupervisorStops(r, a) PROVE LateInv'
    BY <2>0, <2>2, <2>6 DEF SupervisorStops, mailboxVars, treeVars
  <2>7. ASSUME NEW r \in Ids, NEW a \in All, StopExpires(r, a) PROVE LateInv'
    <3>1. /\ UNCHANGED <<created, parent, call, closeVars>>
          /\ closed' = closed \cup {a}
          /\ call[r][a] # "none"
      BY <2>7 DEF StopExpires, treeVars, callVars
    <3>2. PublicRoot \in closed' => PublicRoot \in closed \/ closing # "open"
      BY <3>1 DEF LateInv
    <3> QED BY <3>1, <3>2, OtherKeepsLateInv
  <2>8. CASE close
    <3>1. /\ closing = "open" /\ closing' = "closing"
          /\ listed' = directory
          /\ UNCHANGED <<created, parent, call, closed>>
      BY <2>8 DEF close, treeVars, mailboxVars, callVars
    <3>2. \A a \in created \ Roots : parent[a] # None
      BY <3>1 DEF LateInv, SurvivorsAreLate
    <3> QED BY <3>1, <3>2 DEF LateInv, SurvivorsAreLate
  <2>9. ASSUME NEW a \in All, CloseNext(a) PROVE LateInv'
    BY <2>9 DEF CloseNext, LateInv, SurvivorsAreLate, treeVars, mailboxVars
  <2>10. CASE CloseEnds
    <3>1. /\ closing = "closing" /\ closing' = "closed"
          /\ CloseSettled /\ closeTodo = {}
          /\ UNCHANGED <<created, parent, call, closed, listed>>
      BY <2>10 DEF CloseEnds, treeVars, mailboxVars, callVars
    <3>2. listed \subseteq closed
      <4>1. closeAwaits # None => closeAwaits \in closed
        <5> SUFFICES ASSUME closeAwaits # None PROVE closeAwaits \in closed
          OBVIOUS
        <5>1. closeAwaits \in All /\ closeAwaits \in Ids
          BY DEF Ids, TypeInv, TypeOK
        <5>2. Answered(closeAwaits, closeAwaits)
          BY <3>1 DEF CloseSettled
        <5> QED BY <5>1, <5>2 DEF StopInv, AnsweredIsStopped
      <4>2. None \notin listed
        BY ActorsAssumption DEF TypeInv, TypeOK
      <4> QED BY <3>1, <4>1, <4>2 DEF CloseInv, CloseProgress
    <3> QED BY <3>1, <3>2 DEF LateInv, SurvivorsAreLate
  <2>11. CASE UNCHANGED vars
    BY <2>1, <2>11 DEF vars, mailboxVars, callVars, treeVars
  <2> QED BY <2>3, <2>4, <2>5, <2>6, <2>7, <2>8, <2>9, <2>10, <2>11,
             CreateKeepsLateInv, ProceedKeepsLateInv DEF Next
<1> QED BY <1>1, <1>2

\* When close() completes it has stopped all it found, and an actor without a
\* parent was made when close() had stopped the default one.
THEOREM LateSurvivors == Spec => []SurvivorsAreLate
<1>1. LateInv => SurvivorsAreLate
  BY DEF LateInv
<1> QED BY <1>1, TypeInductive, StopInvInductive, TreeInvInductive, CloseInvInductive,
           LateInvInductive, PTL DEF Spec

-----------------------------------------------------------------------------
(* Waiting                                                                  *)

\* The guards of the steps of a stop: StopStarts, BeforeStopDone, and either
\* StopNextChild or Finish.
CanProceed(r, a) ==
  \/ call[r][a] = "queued" /\ a \notin closed \cup suspended
  \/ call[r][a] = "before"
  \/ call[r][a] = "children" /\ Settled(r, a)

HeldUp(r, a) == call[r][a] = "queued" /\ a \in closed \cup suspended

\* The guards of CloseEnds and of CloseNext.
CloseCanProceed == CloseSettled /\ (closeTodo = {} \/ \E a \in closeTodo : Turn(a))

\* Some stop of request r goes on, or waits in a mailbox that is suspended or closed.
Moving(r) == \E a \in All : CanProceed(r, a) \/ HeldUp(r, a)

(***************************************************************************)
(* Actors never wait for each other in a circle: a stop that is not        *)
(* answered leads to one that can go on, or to one that waits in a         *)
(* suspended or a closed mailbox, and so does close().                     *)
(***************************************************************************)
NoCircularWait ==
  /\ \A r \in Ids, a \in All : call[r][a] # "none" => Answered(r, a) \/ Moving(r)
  /\ closing = "closing" => CloseCanProceed \/ Moving(closeAwaits)

\* There is no cycle among the actors: some actor of each set has no child in it.
NoCycle == \A S \in SUBSET All : S # {} => \E a \in S : \A c \in S : parent[c] # a

ParentsExist == \A c \in All : parent[c] \in created \cup {None}

\* What is awaited was sent, to a child.
AwaitedSent ==
  \A r \in Ids, a \in All :
    awaits[r][a] # None => parent[awaits[r][a]] = a /\ call[r][awaits[r][a]] # "none"

CloseAwaitedSent == closeAwaits # None => call[closeAwaits][closeAwaits] # "none"

WaitInv == NoCycle /\ ParentsExist /\ AwaitedSent /\ CloseAwaitedSent

\* Steps that make no actor, and forget no call.
LEMMA CallsKeepWaitInv ==
  ASSUME TypeInv, WaitInv, UNCHANGED <<created, parent, awaits, closeAwaits>>,
         \A q \in Ids, b \in All : call[q][b] # "none" => call'[q][b] # "none"
  PROVE  WaitInv'
<1>1. NoCycle' /\ ParentsExist'
  BY DEF WaitInv, NoCycle, ParentsExist
<1>2. created \subseteq All /\ listed \subseteq All /\ All \subseteq Ids
  BY DEF TypeInv, TypeOK, Ids
<1>3. AwaitedSent'
  <2> SUFFICES ASSUME NEW q \in Ids, NEW b \in All, awaits[q][b] # None
               PROVE  parent[awaits[q][b]] = b /\ call'[q][awaits[q][b]] # "none"
    BY DEF AwaitedSent
  <2>1. awaits[q][b] \in All
    BY <1>2 DEF TypeInv, TypeOK
  <2> QED BY <2>1 DEF WaitInv, AwaitedSent
<1>4. CloseAwaitedSent'
  BY <1>2 DEF WaitInv, CloseAwaitedSent, TypeInv, TypeOK
<1> QED BY <1>1, <1>3, <1>4 DEF WaitInv

LEMMA CreateKeepsWaitInv ==
  ASSUME TypeInv, WaitInv, NEW a \in Actors, Create(a)
  PROVE  WaitInv'
<1>1. PublicRoot \in All /\ directory \subseteq created /\ created \subseteq All /\ None \notin All
  BY ActorsAssumption DEF All, Roots, TypeInv, TypeOK
<1>2. PICK p \in created \cup {None} : actorFor(p, a)
  <2>1. defaultParent \in created \cup {None}
    BY <1>1 DEF defaultParent
  <2> QED BY <1>1, <2>1 DEF Create, childActorFor
<1>3. /\ a \in All \ created /\ created' = created \cup {a} /\ p # a /\ a # None
      /\ parent' = [parent EXCEPT ![a] = p]
      /\ UNCHANGED <<call, awaits, closeAwaits>>
  BY <1>1, <1>2 DEF actorFor, All, callVars, closeVars
<1>4. \A c \in All : parent'[c] = IF c = a THEN p ELSE parent[c]
  BY <1>3 DEF TypeInv, TypeOK
<1>5. \A c \in All : parent'[c] # a
  BY <1>3, <1>4 DEF WaitInv, ParentsExist
<1>6. NoCycle'
  <2> SUFFICES ASSUME NEW S \in SUBSET All, S # {}
               PROVE  \E b \in S : \A c \in S : parent'[c] # b
    BY DEF NoCycle
  <2>1. CASE a \in S
    BY <1>5, <2>1
  <2>2. CASE a \notin S
    BY <1>4, <2>2 DEF WaitInv, NoCycle
  <2> QED BY <2>1, <2>2
<1>7. ParentsExist'
  BY <1>3, <1>4 DEF WaitInv, ParentsExist
<1>8. AwaitedSent'
  <2> SUFFICES ASSUME NEW q \in Ids, NEW b \in All, awaits[q][b] # None
               PROVE  parent'[awaits[q][b]] = b /\ call[q][awaits[q][b]] # "none"
    BY <1>3 DEF AwaitedSent
  <2>1. awaits[q][b] \in created
    BY DEF TypeInv, TypeOK
  <2> QED BY <1>1, <1>3, <1>4, <2>1 DEF WaitInv, AwaitedSent
<1>9. CloseAwaitedSent'
  BY <1>3 DEF WaitInv, CloseAwaitedSent
<1> QED BY <1>6, <1>7, <1>8, <1>9 DEF WaitInv

LEMMA StopNextChildKeepsWaitInv ==
  ASSUME TypeInv, TreeInv, WaitInv, NEW r \in Ids, NEW a \in All, StopNextChild(r, a)
  PROVE  WaitInv'
<1>1. PICK c \in todo[r][a] :
        /\ call' = [call EXCEPT ![r][c] = Sent(c)]
        /\ awaits' = [awaits EXCEPT ![r][a] = c]
  BY DEF StopNextChild
<1>2. UNCHANGED <<created, parent, closeAwaits>>
  BY DEF StopNextChild, treeVars, closeVars
<1>3. c \in created /\ created \subseteq All /\ parent[c] = a
  BY DEF TypeInv, TypeOK, TreeInv, Links
<1>4. \A q \in Ids, b \in All :
        /\ call'[q][b] = IF q = r /\ b = c THEN Sent(c) ELSE call[q][b]
        /\ awaits'[q][b] = IF q = r /\ b = a THEN c ELSE awaits[q][b]
        /\ awaits[q][b] \in All \cup {None}
  BY <1>1, <1>3 DEF TypeInv, TypeOK
<1>5. Sent(c) # "none"
  BY SentPhase
<1>6. AwaitedSent'
  <2> SUFFICES ASSUME NEW q \in Ids, NEW b \in All, awaits'[q][b] # None
               PROVE  parent[awaits'[q][b]] = b /\ call'[q][awaits'[q][b]] # "none"
    BY <1>2 DEF AwaitedSent
  <2>1. CASE q = r /\ b = a
    BY <1>3, <1>4, <1>5, <2>1
  <2>2. CASE ~(q = r /\ b = a)
    BY <1>4, <1>5, <2>2 DEF WaitInv, AwaitedSent
  <2> QED BY <2>1, <2>2
<1>7. CloseAwaitedSent'
  <2>1. closeAwaits # None => closeAwaits \in Ids /\ closeAwaits \in All
    BY DEF TypeInv, TypeOK, Ids
  <2> QED BY <1>2, <1>4, <1>5, <2>1 DEF WaitInv, CloseAwaitedSent
<1>8. NoCycle' /\ ParentsExist'
  BY <1>2 DEF WaitInv, NoCycle, ParentsExist
<1> QED BY <1>6, <1>7, <1>8 DEF WaitInv

LEMMA CloseNextKeepsWaitInv ==
  ASSUME TypeInv, WaitInv, NEW a \in All, CloseNext(a)
  PROVE  WaitInv'
<1>1. /\ closeAwaits' = a /\ call' = [call EXCEPT ![a][a] = Sent(a)]
      /\ UNCHANGED <<created, parent, awaits>> /\ a \in Ids
  BY DEF CloseNext, treeVars, Ids
<1>2. \A q \in Ids, b \in All :
        /\ call'[q][b] = IF q = a /\ b = a THEN Sent(a) ELSE call[q][b]
        /\ awaits[q][b] \in All \cup {None}
  BY <1>1 DEF TypeInv, TypeOK
<1>3. Sent(a) # "none"
  BY SentPhase
<1>4. AwaitedSent' /\ CloseAwaitedSent'
  BY <1>1, <1>2, <1>3 DEF WaitInv, AwaitedSent, CloseAwaitedSent
<1>5. NoCycle' /\ ParentsExist'
  BY <1>1 DEF WaitInv, NoCycle, ParentsExist
<1> QED BY <1>4, <1>5 DEF WaitInv

LEMMA WaitInvInductive ==
  /\ Init => WaitInv
  /\ TypeInv /\ TreeInv /\ WaitInv /\ [Next]_vars => WaitInv'
<1>1. Init => WaitInv
  <2> SUFFICES ASSUME Init PROVE WaitInv
    OBVIOUS
  <2>1. /\ \A c \in All : parent[c] = IF c = PublicRoot THEN PrivateRoot ELSE None
        /\ \A r \in Ids, a \in All : awaits[r][a] = None
        /\ created = Roots /\ closeAwaits = None
    BY DEF Init, Empty
  <2>2. NoCycle
    BY <2>1, ActorsAssumption DEF NoCycle, All, Roots
  <2> QED BY <2>1, <2>2, ActorsAssumption
          DEF WaitInv, ParentsExist, AwaitedSent, CloseAwaitedSent, Roots
<1>2. ASSUME TypeInv, TreeInv, WaitInv, [Next]_vars
      PROVE  WaitInv'
  <2>1. ASSUME NEW r \in Ids, NEW a \in All, NEW phase, phase # "none",
               call' = [call EXCEPT ![r][a] = phase],
               UNCHANGED <<created, parent, awaits, closeAwaits>>
        PROVE  WaitInv'
    <3>1. \A q \in Ids, b \in All : call[q][b] # "none" => call'[q][b] # "none"
      BY <1>2, <2>1 DEF TypeInv, TypeOK
    <3> QED BY <1>2, <2>1, <3>1, CallsKeepWaitInv
  <2>2. ASSUME UNCHANGED <<created, parent, awaits, closeAwaits, call>> PROVE WaitInv'
    BY <1>2, <2>2, CallsKeepWaitInv
  <2>3. ASSUME NEW a \in Actors, HandlerFails(a) PROVE WaitInv'
    BY <2>2, <2>3 DEF HandlerFails, treeVars, callVars, closeVars
  <2>4. ASSUME NEW a \in Actors, Resume(a) PROVE WaitInv'
    <3>1. UNCHANGED <<created, parent, awaits, closeAwaits>> /\ a \in All
      BY <2>4 DEF Resume, treeVars, closeVars, All
    <3>2. call' = call \/ \E r \in Ids : call' = [call EXCEPT ![r][a] = "before"]
      BY <2>4 DEF Resume
    <3> QED BY <2>1, <2>2, <3>1, <3>2
  <2>5. ASSUME NEW r \in Requests, NEW a \in Actors, RequestStop(r, a) PROVE WaitInv'
    <3>1. UNCHANGED <<created, parent, awaits, closeAwaits>> /\ a \in All /\ r \in Ids
      BY <2>5 DEF RequestStop, treeVars, closeVars, All, Ids
    <3>2. call' = [call EXCEPT ![r][a] = Sent(a)] /\ Sent(a) # "none"
      BY <2>5, SentPhase DEF RequestStop
    <3> QED BY <2>1, <3>1, <3>2
  <2>6. ASSUME NEW r \in Requests, NEW a \in Actors, SupervisorStops(r, a) PROVE WaitInv'
    <3>1. UNCHANGED <<created, parent, awaits, closeAwaits>> /\ a \in All /\ r \in Ids
      BY <2>6 DEF SupervisorStops, treeVars, closeVars, All, Ids
    <3>2. \E phase \in {"skipped", "before"} : call' = [call EXCEPT ![r][a] = phase]
      BY <2>6 DEF SupervisorStops
    <3> QED BY <2>1, <3>1, <3>2
  <2>7. ASSUME NEW r \in Ids, NEW a \in All, StopStarts(r, a) PROVE WaitInv'
    <3>1. UNCHANGED <<created, parent, awaits, closeAwaits>>
          /\ call' = [call EXCEPT ![r][a] = "before"]
      BY <2>7 DEF StopStarts, treeVars, closeVars
    <3> QED BY <2>1, <3>1
  <2>8. ASSUME NEW r \in Ids, NEW a \in All, BeforeStopDone(r, a) PROVE WaitInv'
    <3>1. UNCHANGED <<created, parent, awaits, closeAwaits>>
          /\ call' = [call EXCEPT ![r][a] = "children"]
      BY <2>8 DEF BeforeStopDone, treeVars, closeVars
    <3> QED BY <2>1, <3>1
  <2>9. ASSUME NEW r \in Ids, NEW a \in All, Finish(r, a) PROVE WaitInv'
    <3>1. UNCHANGED <<created, parent, awaits, closeAwaits>>
          /\ call' = [call EXCEPT ![r][a] = "stopped"]
      BY <2>9 DEF Finish, closeVars
    <3> QED BY <2>1, <3>1
  <2>10. ASSUME NEW r \in Ids, NEW a \in All, StopExpires(r, a) PROVE WaitInv'
    BY <2>2, <2>10 DEF StopExpires, treeVars, callVars, closeVars
  <2>11. CASE close
    BY <2>2, <2>11 DEF close, treeVars, callVars
  <2>12. CASE CloseEnds
    BY <2>2, <2>12 DEF CloseEnds, treeVars, callVars
  <2>13. CASE UNCHANGED vars
    BY <2>2, <2>13 DEF vars, treeVars, callVars, closeVars
  <2> QED BY <1>2, <2>3, <2>4, <2>5, <2>6, <2>7, <2>8, <2>9, <2>10, <2>11, <2>12, <2>13,
             CreateKeepsWaitInv, StopNextChildKeepsWaitInv, CloseNextKeepsWaitInv
          DEF Next, Proceed
<1> QED BY <1>1, <1>2

\* The actors of a request that await a child lead down the tree to one that
\* does not.
LEMMA WaitsEnd ==
  ASSUME TypeInv, WaitInv, NEW r \in Ids, NEW a \in All,
         call[r][a] # "none", ~Answered(r, a)
  PROVE  Moving(r)
<1>1. ASSUME NEW b \in All PROVE call[r][b] \in Phases
  BY DEF TypeInv, TypeOK
<1>2. CASE call[r][a] \in {"queued", "before"}
  BY <1>2 DEF Moving, CanProceed, HeldUp
<1>3. CASE call[r][a] = "children"
  <2> DEFINE S == {b \in All : call[r][b] = "children"}
  <2>1. PICK b \in S : \A c \in S : parent[c] # b
    BY <1>3 DEF WaitInv, NoCycle
  <2>2. CASE Settled(r, b)
    BY <2>2 DEF Moving, CanProceed
  <2>3. CASE ~Settled(r, b)
    <3>1. PICK c : c = awaits[r][b] /\ c # None /\ ~Answered(r, c)
      BY <2>3 DEF Settled
    <3>2. c \in All
      BY <3>1 DEF TypeInv, TypeOK
    <3>3. parent[c] = b /\ call[r][c] # "none"
      BY <3>1 DEF WaitInv, AwaitedSent
    <3>4. call[r][c] # "children"
      BY <2>1, <3>2, <3>3
    <3>5. call[r][c] \in {"queued", "before"}
      BY <1>1, <3>1, <3>2, <3>3, <3>4 DEF Answered, Phases
    <3> QED BY <3>2, <3>5 DEF Moving, CanProceed, HeldUp
  <2> QED BY <2>2, <2>3
<1> QED BY <1>1, <1>2, <1>3 DEF Answered, Phases

(***************************************************************************)
(* For every tree of actors and every set of requests, no stop and no      *)
(* close() waits in a circle: what holds them up is a mailbox that is      *)
(* suspended or closed, and nothing else.                                  *)
(***************************************************************************)
THEOREM NoDeadlock == Spec => []NoCircularWait
<1>1. ASSUME TypeInv, WaitInv, closing = "closing"
      PROVE  CloseCanProceed \/ Moving(closeAwaits)
  <2>1. CASE CloseSettled
    <3>1. closeTodo # {} => \E a \in closeTodo : Turn(a)
      <4>1. CASE closeTodo \subseteq {PrivateRoot}
        BY <4>1, ActorsAssumption, OptionsAssumption DEF Turn, Roots
      <4>2. CASE closeTodo \subseteq Roots /\ PublicRoot \in closeTodo
        BY <4>2, ActorsAssumption, OptionsAssumption DEF Turn, Roots
      <4>3. ASSUME closeTodo \subseteq StageSupervisors \cup Roots,
                   NEW a \in closeTodo \ Roots
            PROVE  Turn(a)
        BY <4>3 DEF Turn, Roots
      <4>4. ASSUME NEW a \in closeTodo \ (StageSupervisors \cup Roots)
            PROVE  Turn(a)
        BY <4>4 DEF Turn, Roots
      <4> QED BY <4>1, <4>2, <4>3, <4>4 DEF Roots
    <3> QED BY <2>1, <3>1 DEF CloseCanProceed
  <2>2. CASE ~CloseSettled
    <3>1. closeAwaits # None /\ ~Answered(closeAwaits, closeAwaits)
      BY <2>2 DEF CloseSettled
    <3>2. closeAwaits \in All /\ closeAwaits \in Ids
      BY <1>1, <3>1 DEF TypeInv, TypeOK, Ids
    <3>3. call[closeAwaits][closeAwaits] # "none"
      BY <1>1, <3>1 DEF WaitInv, CloseAwaitedSent
    <3> QED BY <1>1, <3>1, <3>2, <3>3, WaitsEnd
  <2> QED BY <2>1, <2>2
<1>2. TypeInv /\ WaitInv => NoCircularWait
  BY <1>1, WaitsEnd DEF NoCircularWait
<1> QED BY TypeInductive, TreeInvInductive, WaitInvInductive, <1>2, PTL DEF Spec
=============================================================================
