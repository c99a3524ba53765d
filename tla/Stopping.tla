------------------------------ MODULE Stopping ------------------------------
(***************************************************************************)
(* The shutdown of a tree of actors: LifeCycle.stop(), which stops the     *)
(* children of an actor before the actor, and LocalStage.close(), which    *)
(* stops every actor of the stage.  A stop is a message to the actor, save *)
(* for the one a supervisor orders, and like any message it waits while    *)
(* the mailbox is suspended, is handled beside other stops of the same     *)
(* actor, and awaits the answers of the stops it sends.                    *)
(*                                                                         *)
(* A request <<r, a>> is the stop of a that request r of a client, of the  *)
(* supervisor or of close() leads to.  An actor has one parent, so one     *)
(* request reaches it once.  Children are a set: siblings are stopped one  *)
(* after the other, here in any order.                                     *)
(***************************************************************************)
EXTENDS FiniteSets

CONSTANTS
  Actors,            \* the application's actors, created or not
  PrivateRoot,       \* the root of the tree
  PublicRoot,        \* its child, the default parent
  Requests,          \* bound on the stops that clients and supervisors ask for
  None,
  StageSupervisors,  \* actors whose type is in _supervisors
  Fallible,          \* actors whose handlers may fail
  Timed,             \* requests that come with a timeout
  LateChildren       \* whether an actor may be made under one that is stopping

Roots == {PrivateRoot, PublicRoot}
All == Actors \cup Roots

\* close() is one request for each actor it stops, named for the actor.
Ids == Requests \cup All

ASSUME ActorsAssumption ==
  /\ PrivateRoot # PublicRoot
  /\ None \notin All
  /\ Actors \cap Roots = {}
  /\ Requests \cap All = {}
ASSUME OptionsAssumption ==
  /\ StageSupervisors \subseteq Actors
  /\ Fallible \subseteq Actors
  /\ Timed \subseteq Requests
  /\ LateChildren \in BOOLEAN

VARIABLES
  created,     \* actors that exist or existed
  parent,      \* the parent of each
  children,    \* _children of each Environment
  directory,   \* actors in the Directory
  closed,      \* actors whose mailbox is closed
  suspended,   \* actors whose mailbox is suspended
  expired,     \* history: actors closed by a timeout
  call,        \* how far each stop has got
  todo,        \* the children it has not come to yet
  awaits,      \* the child whose stop it awaits
  snapshot,    \* history: the children it found
  closing,     \* how far close() has got
  closeTodo,   \* the actors it has not come to yet
  closeAwaits, \* the actor whose stop it awaits
  listed       \* history: the actors it found

treeVars == <<created, parent, children>>
mailboxVars == <<closed, suspended, expired>>
callVars == <<call, todo, awaits, snapshot>>
closeVars == <<closing, closeTodo, closeAwaits, listed>>
vars == <<treeVars, directory, mailboxVars, callVars, closeVars>>

(***************************************************************************)
(* A call is queued in a suspended mailbox, awaits beforeStop(), or awaits *)
(* the children.  It is answered when the sequence has run, or right away  *)
(* (skipped) when the actor was stopped already: the stop is a dead letter *)
(* then, or finds isStopped().                                             *)
(***************************************************************************)
Phases == {"none", "queued", "before", "children", "stopped", "skipped"}
Answered(r, a) == call[r][a] \in {"stopped", "skipped"}

TypeOK ==
  /\ created \subseteq All
  /\ parent \in [All -> All \cup {None}]
  /\ children \in [All -> SUBSET created]
  /\ directory \subseteq created
  /\ closed \subseteq created
  /\ suspended \subseteq Fallible
  /\ expired \subseteq closed
  /\ call \in [Ids -> [All -> Phases]]
  /\ todo \in [Ids -> [All -> SUBSET created]]
  /\ awaits \in [Ids -> [All -> created \cup {None}]]
  /\ snapshot \in [Ids -> [All -> SUBSET created]]
  /\ closing \in {"open", "closing", "closed"}
  /\ closeTodo \subseteq listed
  /\ closeAwaits \in listed \cup {None}
  /\ listed \subseteq created

Empty(v) == [r \in Ids |-> [a \in All |-> v]]

Init ==
  /\ created = Roots
  /\ parent = [a \in All |-> IF a = PublicRoot THEN PrivateRoot ELSE None]
  /\ children = [a \in All |-> IF a = PrivateRoot THEN {PublicRoot} ELSE {}]
  /\ directory = Roots
  /\ closed = {} /\ suspended = {} /\ expired = {}
  /\ call = Empty("none")
  /\ todo = Empty({})
  /\ awaits = Empty(None)
  /\ snapshot = Empty({})
  /\ closing = "open" /\ closeTodo = {} /\ closeAwaits = None /\ listed = {}

-----------------------------------------------------------------------------
(* The actors *)

Stopping(a) == a \in closed \/ \E r \in Ids : call[r][a] # "none"

\* Mutant of defaultParent: given up as soon as close() begins.
defaultParentUntilClose == IF closing = "open" THEN PublicRoot ELSE None

\* afterStop() of the public root takes it away, and as the roots are not
\* initialized twice there is none from then on.
defaultParent == IF PublicRoot \in directory THEN PublicRoot ELSE None

\* actorFor() under parent p, or under none.
actorFor(p, a) ==
  /\ a \in Actors \ created
  /\ created' = created \cup {a}
  /\ parent' = [parent EXCEPT ![a] = p]
  /\ children' = [q \in All |-> IF q = p THEN children[q] \cup {a} ELSE children[q]]
  /\ directory' = directory \cup {a}
  /\ LateChildren \/ (closing = "open" /\ \A b \in All : ~Stopping(b))
  /\ UNCHANGED <<mailboxVars, callVars, closeVars>>

\* A handler of p makes a child; once p has left the directory its proxy is
\* not found, and the child goes to the default parent.
childActorFor(p, a) ==
  actorFor(IF p \in directory THEN p ELSE defaultParent, a)

Create(a) ==
  \/ actorFor(defaultParent, a)
  \/ \E p \in created \ Roots : actorFor(p, a) \/ childActorFor(p, a)

\* On a closed mailbox a suspension has no effect.
HandlerFails(a) ==
  /\ a \in (created \cap Fallible) \ closed
  /\ suspended' = suspended \cup {a}
  /\ UNCHANGED <<treeVars, directory, closed, expired, callVars, closeVars>>

\* resume() starts one of the messages that waited, if the mailbox is open.
Resume(a) ==
  /\ a \in suspended
  /\ suspended' = suspended \ {a}
  /\ LET waiting == {r \in Ids : call[r][a] = "queued" /\ a \notin closed} IN
       \/ waiting = {} /\ UNCHANGED call
       \/ \E r \in waiting : call' = [call EXCEPT ![r][a] = "before"]
  /\ UNCHANGED <<treeVars, directory, closed, expired, todo, awaits, snapshot, closeVars>>

-----------------------------------------------------------------------------
(* LifeCycle.stop() *)

\* Where the stop of a that is sent now gets at once.
Sent(a) ==
  IF a \in closed THEN "skipped"
  ELSE IF a \in suspended \/ \E r \in Ids : call[r][a] = "queued" THEN "queued"
  ELSE "before"

RequestStop(r, a) ==
  /\ \A b \in All : call[r][b] = "none"
  /\ a \in created \ Roots
  /\ call' = [call EXCEPT ![r][a] = Sent(a)]
  /\ UNCHANGED <<treeVars, directory, mailboxVars, todo, awaits, snapshot, closeVars>>

\* StageSupervisedActor.stop(One), on the actor itself and not by a message.
SupervisorStops(r, a) ==
  /\ \A b \in All : call[r][b] = "none"
  /\ a \in suspended
  /\ call' = [call EXCEPT ![r][a] = IF a \in closed THEN "skipped" ELSE "before"]
  /\ UNCHANGED <<treeVars, directory, mailboxVars, todo, awaits, snapshot, closeVars>>

\* The dispatch loop goes on to a stop that waited behind another.
StopStarts(r, a) ==
  /\ call[r][a] = "queued"
  /\ a \notin closed \cup suspended
  /\ call' = [call EXCEPT ![r][a] = "before"]
  /\ UNCHANGED <<treeVars, directory, mailboxVars, todo, awaits, snapshot, closeVars>>

BeforeStopDone(r, a) ==
  /\ call[r][a] = "before"
  /\ call' = [call EXCEPT ![r][a] = "children"]
  /\ todo' = [todo EXCEPT ![r][a] = children[a]]
  /\ snapshot' = [snapshot EXCEPT ![r][a] = children[a]]
  /\ UNCHANGED <<treeVars, directory, mailboxVars, awaits, closeVars>>

\* Mutant of Settled: a stop that is a dead letter has no answer.
SettledIfStopped(r, a) == \A c \in {awaits[r][a]} \ {None} : call[r][c] = "stopped"

Settled(r, a) == \A c \in {awaits[r][a]} \ {None} : Answered(r, c)

\* Mutant of StopNextChild: the stops are sent and not awaited.
StopNextChildUnawaited(r, a) ==
  /\ call[r][a] = "children"
  /\ \E c \in todo[r][a] :
       /\ call' = [call EXCEPT ![r][c] = Sent(c)]
       /\ todo' = [todo EXCEPT ![r][a] = @ \ {c}]
  /\ UNCHANGED <<treeVars, directory, mailboxVars, awaits, snapshot, closeVars>>

StopNextChild(r, a) ==
  /\ call[r][a] = "children"
  /\ Settled(r, a)
  /\ \E c \in todo[r][a] :
       /\ call' = [call EXCEPT ![r][c] = Sent(c)]
       /\ todo' = [todo EXCEPT ![r][a] = @ \ {c}]
       /\ awaits' = [awaits EXCEPT ![r][a] = c]
  /\ UNCHANGED <<treeVars, directory, mailboxVars, snapshot, closeVars>>

\* Mutant of Finish: the actor closes and its parent keeps it.
FinishKept(r, a) ==
  /\ call[r][a] = "children"
  /\ Settled(r, a)
  /\ todo[r][a] = {}
  /\ call' = [call EXCEPT ![r][a] = "stopped"]
  /\ closed' = closed \cup {a}
  /\ directory' = directory \ {a}
  /\ UNCHANGED <<treeVars, suspended, expired, todo, awaits, snapshot, closeVars>>

\* Mutant of Finish: the mailbox is closed only if the actor has no parent.
FinishOpen(r, a) ==
  /\ call[r][a] = "children"
  /\ Settled(r, a)
  /\ todo[r][a] = {}
  /\ call' = [call EXCEPT ![r][a] = "stopped"]
  /\ closed' = IF parent[a] = None THEN closed \cup {a} ELSE closed
  /\ children' = IF parent[a] = None THEN children
                 ELSE [children EXCEPT ![parent[a]] = @ \ {a}]
  /\ directory' = directory \ {a}
  /\ UNCHANGED <<created, parent, suspended, expired, todo, awaits, snapshot, closeVars>>

\* The children are stopped: the actor leaves its parent and the directory.
Finish(r, a) ==
  /\ call[r][a] = "children"
  /\ Settled(r, a)
  /\ todo[r][a] = {}
  /\ call' = [call EXCEPT ![r][a] = "stopped"]
  /\ closed' = closed \cup {a}
  /\ children' = IF parent[a] = None THEN children
                 ELSE [children EXCEPT ![parent[a]] = @ \ {a}]
  /\ directory' = directory \ {a}
  /\ UNCHANGED <<created, parent, suspended, expired, todo, awaits, snapshot, closeVars>>

\* stopWithTimeout(), of the actor the request names and not of its children:
\* the mailbox is closed and the sequence goes on.
StopExpires(r, a) ==
  /\ r \in Timed
  /\ call[r][a] \in {"before", "children"}
  /\ \A b \in All : a \notin snapshot[r][b]
  /\ a \notin closed
  /\ closed' = closed \cup {a}
  /\ expired' = expired \cup {a}
  /\ UNCHANGED <<treeVars, directory, suspended, callVars, closeVars>>

-----------------------------------------------------------------------------
(* LocalStage.close() *)

close ==
  /\ closing = "open"
  /\ closing' = "closing"
  /\ listed' = directory
  /\ closeTodo' = directory
  /\ UNCHANGED <<treeVars, directory, mailboxVars, callVars, closeAwaits>>

\* Applications, supervisors, the public root, the private root.
Turn(a) ==
  /\ a = PrivateRoot => closeTodo \subseteq {PrivateRoot}
  /\ a = PublicRoot => closeTodo \subseteq Roots
  /\ a \in StageSupervisors => closeTodo \subseteq StageSupervisors \cup Roots

\* Mutant of CloseSettled: a stop that is a dead letter has no answer.
CloseSettledIfStopped == \A a \in {closeAwaits} \ {None} : call[a][a] = "stopped"

CloseSettled == \A a \in {closeAwaits} \ {None} : Answered(a, a)

\* Mutant of CloseNext: all actors in the order of the directory.
CloseNextInAnyOrder(a) ==
  /\ closing = "closing"
  /\ CloseSettled
  /\ a \in closeTodo
  /\ closeTodo' = closeTodo \ {a}
  /\ closeAwaits' = a
  /\ call' = [call EXCEPT ![a][a] = Sent(a)]
  /\ UNCHANGED <<treeVars, directory, mailboxVars, todo, awaits, snapshot, closing, listed>>

\* Mutant of CloseNext: goes through the directory as it is now.
CloseNextListed(a) ==
  /\ closing = "closing"
  /\ CloseSettled
  /\ a \in directory
  /\ Turn(a)
  /\ closeTodo' = closeTodo \ {a}
  /\ closeAwaits' = a
  /\ call' = [call EXCEPT ![a][a] = Sent(a)]
  /\ UNCHANGED <<treeVars, directory, mailboxVars, todo, awaits, snapshot, closing, listed>>

CloseNext(a) ==
  /\ closing = "closing"
  /\ CloseSettled
  /\ a \in closeTodo
  /\ Turn(a)
  /\ closeTodo' = closeTodo \ {a}
  /\ closeAwaits' = a
  /\ call' = [call EXCEPT ![a][a] = Sent(a)]
  /\ UNCHANGED <<treeVars, directory, mailboxVars, todo, awaits, snapshot, closing, listed>>

CloseEnds ==
  /\ closing = "closing"
  /\ CloseSettled
  /\ closeTodo = {}
  /\ closing' = "closed"
  /\ UNCHANGED <<treeVars, directory, mailboxVars, callVars, closeTodo, closeAwaits, listed>>

Proceed(r, a) ==
  StopStarts(r, a) \/ BeforeStopDone(r, a) \/ StopNextChild(r, a) \/ Finish(r, a)

Next ==
  \/ \E a \in Actors : Create(a) \/ HandlerFails(a) \/ Resume(a)
  \/ \E r \in Requests, a \in Actors : RequestStop(r, a) \/ SupervisorStops(r, a)
  \/ \E r \in Ids, a \in All : Proceed(r, a) \/ StopExpires(r, a)
  \/ close
  \/ \E a \in All : CloseNext(a)
  \/ CloseEnds

Spec == Init /\ [][Next]_vars

(***************************************************************************)
(* Fairness: beforeStop() settles and continuations run; a supervisor does *)
(* resume the actors that fail, if not at once.  Nothing makes a dispatch  *)
(* loop come to a stop that waits behind another: StopStarts is not fair.  *)
(***************************************************************************)
Fairness ==
  /\ \A r \in Ids, a \in All :
       WF_vars(BeforeStopDone(r, a) \/ StopNextChild(r, a) \/ Finish(r, a))
  /\ \A a \in All : WF_vars(Resume(a)) /\ WF_vars(CloseNext(a))
  /\ WF_vars(CloseEnds)

FairSpec == Spec /\ Fairness

-----------------------------------------------------------------------------
(***************************************************************************)
(* An answered stop means a stopped actor, whether the stop ran, came late *)
(* or was a dead letter: what "await child.stop()" and close() rely on.    *)
(***************************************************************************)
AnsweredIsStopped == \A r \in Ids, a \in All : Answered(r, a) => a \in closed

(***************************************************************************)
(* An actor stops after the children it found when its beforeStop() was    *)
(* done, though other stops of them, failures and timeouts interfere.      *)
(***************************************************************************)
ChildrenStopFirst ==
  \A r \in Ids, a \in All : call[r][a] = "stopped" => snapshot[r][a] \subseteq closed

(***************************************************************************)
(* The three records of an actor agree: one that stopped is in no list of  *)
(* children and not in the directory, and one that is not in the directory *)
(* is closed.  Between a timeout and the end of the sequence it cut short, *)
(* a closed actor is still listed.                                         *)
(***************************************************************************)
StoppedIsDetached ==
  /\ \A a \in closed \ expired : a \notin directory
  /\ \A a \in created \ directory : a \in closed /\ \A p \in All : a \notin children[p]

(***************************************************************************)
(* close() stops a root only when every application actor and supervisor   *)
(* it found is stopped, and the private root after the public one.         *)
(***************************************************************************)
RootsStopLast ==
  /\ call[PublicRoot][PublicRoot] # "none" => listed \ Roots \subseteq closed
  /\ call[PrivateRoot][PrivateRoot] # "none" => PublicRoot \in closed

(***************************************************************************)
(* When close() completes, every actor it found is stopped, also the ones  *)
(* that stopped, expired or moved on meanwhile.  An actor that was made    *)
(* without a parent came when the public root was gone, too late for       *)
(* close(): it has nobody to stop it.                                      *)
(***************************************************************************)
SurvivorsAreLate ==
  /\ closing = "closed" => listed \subseteq closed
  /\ \A a \in created \ Roots : parent[a] = None => PublicRoot \in closed /\ a \notin listed

\* A stop waits in a mailbox that was closed.
Stranded == \E r \in Ids, a \in closed : call[r][a] = "queued"

(***************************************************************************)
(* Every stop is answered, though stops overlap, run into suspensions and  *)
(* timeouts and children are made meanwhile, unless one is stranded: this  *)
(* is the only way in which actors end up waiting for each other.          *)
(***************************************************************************)
AnsweredUnlessStranded ==
  \A r \in Ids, a \in All : call[r][a] # "none" ~> (Answered(r, a) \/ Stranded)

(***************************************************************************)
(* close() completes unless a stop is stranded.                            *)
(***************************************************************************)
ClosesUnlessStranded == closing = "closing" ~> (closing = "closed" \/ Stranded)

(***************************************************************************)
(* LifeCycle.ts: "Promise that resolves when stop completes".              *)
(***************************************************************************)
StopsAreAnswered == \A r \in Ids, a \in All : call[r][a] # "none" ~> Answered(r, a)
=============================================================================
