----------------------------- MODULE Supervision -----------------------------
(***************************************************************************)
(* What happens from the moment a handler throws: LocalMessage.deliver     *)
(* suspends the mailbox, LocalStage.handleFailureOf informs the supervisor *)
(* of the actor by a message, DefaultSupervisor.inform decides, and        *)
(* StageSupervisedActor carries the decision out.  Each of the four runs   *)
(* at another turn of the event loop, and handlers of one actor overlap,   *)
(* so several failures of one actor may be under way at once.              *)
(*                                                                         *)
(* LocalStage.start() reports the failures of the start hooks the same     *)
(* way: beforeStart() before the actor has a message, and start(), whose   *)
(* message deliver() reports as any other, once more when its promise is   *)
(* rejected.                                                               *)
(*                                                                         *)
(* Workers are supervised by one custom supervisor (a DefaultSupervisor),  *)
(* whose own supervisor is the PublicRootActor.  The root's inform() only  *)
(* logs and calls restartWithin(..., One), which throws nothing, so its    *)
(* mailbox is never suspended and a message to it is handled in the step   *)
(* that sends it.                                                          *)
(***************************************************************************)
EXTENDS MailboxRecord, FiniteSets

CONSTANTS
  MaxWorkers,       \* bound on the supervised actors
  Supervisor,       \* the actor that supervises them
  MaxWork,          \* bound on the messages sent to the workers
  MaxReports,       \* bound on the reports of failures
  Directives,       \* what decideDirective may return
  Scopes,           \* what the scope() of the strategy may be
  StopsSupervisor   \* whether somebody may stop the supervisor

ASSUME BoundsAssumption == MaxWorkers \in Nat /\ MaxWork \in Nat /\ MaxReports \in Nat
ASSUME StrategyAssumption ==
  /\ Directives \subseteq {"Restart", "Resume", "Stop", "Escalate"}
  /\ Scopes \subseteq {"One", "All"}
  /\ StopsSupervisor \in BOOLEAN

\* The workers, as they are made.
Workers == 1..MaxWorkers
ASSUME WorkersAssumption == Supervisor \notin Workers

Actors == Workers \cup {Supervisor}

(***************************************************************************)
(* A message of kind "work" is the n-th one sent to the workers, or the    *)
(* start() message of its actor if n = 0.  With kind "inform" it tells the *)
(* supervisor of a failure, with kind "query" it is the supervisor()       *)
(* message escalate() sends for that.  A failure is named by the message   *)
(* whose handler failed and by who reported it: deliver(), or the stage    *)
(* when beforeStart() threw or the promise of start() was rejected.        *)
(***************************************************************************)
Reporters == {"deliver", "beforeStart", "rejection"}
Messages ==
  {m \in [kind : {"work", "inform", "query"}, actor : Workers, n : 0..MaxWork, by : Reporters] :
     m.n # 0 => m.by = "deliver"}
Failures == {m \in Messages : m.kind = "work"}
Work == {m \in Failures : m.by = "deliver"}
Inform == {m \in Messages : m.kind = "inform"}
Query == {m \in Messages : m.kind = "query"}

WorkFor(w, k) == [kind |-> "work", actor |-> w, n |-> k, by |-> "deliver"]
StartOf(w) == WorkFor(w, 0)
InformOf(f) == [f EXCEPT !.kind = "inform"]
QueryOf(f) == [f EXCEPT !.kind = "query"]
FailureOf(i) == [i EXCEPT !.kind = "work"]

\* The actor whose mailbox takes m.
Target(m) == IF m.kind = "work" THEN m.actor ELSE Supervisor

VARIABLES
  mailbox,          \* the mailbox of each actor
  created,          \* the workers that were made
  reported,         \* how many reports the failures so far make
  rejected,         \* start() messages whose rejection nobody has caught yet
  sent,             \* how many messages the workers were sent
  cached,           \* workers whose Environment has resolved _supervisor
  registered,       \* the supervisor is in the Directory
  restarting,       \* failures whose restart() has run and not resumed
  stopping,         \* failures whose stop() is under way
  lost              \* history: failures no supervisor will act upon

stageVars == <<created, reported, rejected>>
vars == <<mailbox, stageVars, sent, cached, registered, restarting, stopping, lost>>

TypeOK ==
  /\ mailbox \in [Actors -> MailboxOf(Messages)]
  /\ created \subseteq Workers
  /\ reported \in 0..MaxReports
  /\ rejected \subseteq Work
  /\ sent \in 0..MaxWork
  /\ cached \subseteq Workers
  /\ registered \in BOOLEAN
  /\ restarting \subseteq Messages
  /\ stopping \subseteq Failures
  /\ lost \subseteq Failures

Init ==
  /\ mailbox = [a \in Actors |-> EmptyMailbox]
  /\ created = {}
  /\ reported = 0
  /\ rejected = {}
  /\ sent = 0
  /\ cached = {}
  /\ registered = TRUE
  /\ restarting = {}
  /\ stopping = {}
  /\ lost = {}

-----------------------------------------------------------------------------
(* Failures *)

\* How often a failure of m's handler is reported.
ReportsOf(m) == IF m.n = 0 THEN 2 ELSE 1

\* A handler or a hook throws, which makes k reports.
Throws(k) == reported + k <= MaxReports /\ reported' = reported + k

\* Environment.supervisor() knows the supervisor of w, or finds it.
FindsSupervisor(w) == registered \/ w \in cached

\* handleFailureOf() sends the inform message, in vain if the supervisor is
\* stopped, and leaves the mailbox b to the worker.
Report(f, b) ==
  /\ FindsSupervisor(f.actor)
  /\ mailbox' = [mailbox EXCEPT ![f.actor] = b, ![Supervisor] = Sent(@, InformOf(f))]
  /\ cached' = cached \cup {f.actor}
  /\ lost' = IF mailbox[Supervisor].closed THEN lost \cup {f} ELSE lost

\* The lookup of the supervisor throws out of handleFailureOf().
ReportThrows(f, b) ==
  /\ ~FindsSupervisor(f.actor)
  /\ mailbox' = [mailbox EXCEPT ![f.actor] = b]
  /\ lost' = lost \cup {f}
  /\ UNCHANGED cached

-----------------------------------------------------------------------------
(* LocalStage.start(), at the end of actorFor() *)

IsNext(w) == w \notin created /\ \A v \in Workers : v < w => v \in created

\* beforeStart() returns and the start() message is sent.
actorFor(w) ==
  /\ IsNext(w)
  /\ created' = created \cup {w}
  /\ mailbox' = [mailbox EXCEPT ![w] = Sent(@, StartOf(w))]
  /\ UNCHANGED <<reported, rejected, sent, cached, registered, restarting, stopping, lost>>

\* beforeStart() throws.  The mailbox is not suspended for it, and the start()
\* message is sent all the same, unless the lookup of the supervisor throws:
\* then so does actorFor(), with the actor in the directory and not started.
BeforeStartFails(w) ==
  /\ IsNext(w)
  /\ Throws(1)
  /\ created' = created \cup {w}
  /\ LET f == [StartOf(w) EXCEPT !.by = "beforeStart"] IN
       Report(f, Sent(mailbox[w], StartOf(w))) \/ ReportThrows(f, mailbox[w])
  /\ UNCHANGED <<rejected, sent, registered, restarting, stopping>>

\* The promise of start() is rejected: its failure is reported once more,
\* unless the actor has stopped and left the directory meanwhile.
StartRejected(m) ==
  /\ m \in rejected
  /\ rejected' = rejected \ {m}
  /\ IF mailbox[m.actor].closed THEN UNCHANGED <<mailbox, cached, lost>>
     ELSE LET f == [m EXCEPT !.by = "rejection"] IN
            Report(f, mailbox[m.actor]) \/ ReportThrows(f, mailbox[m.actor])
  /\ UNCHANGED <<created, reported, sent, registered, restarting, stopping>>

-----------------------------------------------------------------------------
(* The workers *)

SendWork(w) ==
  /\ w \in created
  /\ sent < MaxWork
  /\ sent' = sent + 1
  /\ mailbox' = [mailbox EXCEPT ![w] = Sent(@, WorkFor(w, sent + 1))]
  /\ UNCHANGED <<stageVars, cached, registered, restarting, stopping, lost>>

\* The handler of m returns and its dispatch loop goes on, in microtasks that
\* nothing which matters to them comes between.
Returned(b, m) == Continued(Ended(b, m), m)

WorkEnds(m) ==
  /\ m \in mailbox[m.actor].running
  /\ mailbox' = [mailbox EXCEPT ![m.actor] = Returned(@, m)]
  /\ UNCHANGED <<stageVars, sent, cached, registered, restarting, stopping, lost>>

\* The caller of start() is the stage, which catches its rejection.
Rejects(m) == rejected' = IF m.n = 0 THEN rejected \cup {m} ELSE rejected

\* Mutant of WorkFails: the supervisor is not told.
WorkFailsUntold(m) ==
  /\ m \in mailbox[m.actor].running
  /\ Throws(ReportsOf(m))
  /\ FindsSupervisor(m.actor)
  /\ mailbox' = [mailbox EXCEPT ![m.actor] = Failed(@, m)]
  /\ cached' = cached \cup {m.actor}
  /\ UNCHANGED <<created, rejected, sent, registered, restarting, stopping, lost>>

\* The handler throws and the supervisor is told.
WorkFails(m) ==
  /\ m \in mailbox[m.actor].running
  /\ Throws(ReportsOf(m))
  /\ Report(m, Failed(mailbox[m.actor], m))
  /\ Rejects(m)
  /\ UNCHANGED <<created, sent, registered, restarting, stopping>>

\* The handler throws and the lookup of the supervisor throws too, out of
\* deliver(): the dispatch loop dies with it.
WorkFailsUnsupervised(m) ==
  /\ m \in mailbox[m.actor].running
  /\ Throws(ReportsOf(m))
  /\ ReportThrows(m, [mailbox[m.actor] EXCEPT !.suspended = TRUE, !.running = @ \ {m}])
  /\ Rejects(m)
  /\ UNCHANGED <<created, sent, registered, restarting, stopping>>

Continue(a, m) ==
  /\ m \in mailbox[a].settling
  /\ mailbox' = [mailbox EXCEPT ![a] = Continued(@, m)]
  /\ UNCHANGED <<stageVars, sent, cached, registered, restarting, stopping, lost>>

-----------------------------------------------------------------------------
(* DefaultSupervisor.inform(), after "await this.supervisionStrategy()".    *)
(* The end of the handler, or its failure, follows in the next microtasks   *)
(* and is part of the step: nothing looks at the message in between.        *)

Deciding(i) == i \in Inform \cap mailbox[Supervisor].running

\* inform() returns.
InformEnds(i) == mailbox' = [mailbox EXCEPT ![Supervisor] = Returned(@, i)]

DecideResume(i) ==
  /\ Deciding(i)
  /\ "Resume" \in Directives
  /\ mailbox' = [mailbox EXCEPT ![Supervisor] = Returned(@, i), ![i.actor] = Resumed(@)]
  /\ UNCHANGED <<stageVars, sent, cached, registered, restarting, stopping, lost>>

\* Mutant of DecideRestart: its case falls through to the one that stops.
DecideRestartAndStop(i) ==
  /\ Deciding(i)
  /\ "Restart" \in Directives
  /\ "One" \in Scopes
  /\ InformEnds(i)
  /\ restarting' = restarting \cup {FailureOf(i)}
  /\ stopping' = stopping \cup {FailureOf(i)}
  /\ UNCHANGED <<stageVars, sent, cached, registered, lost>>

\* restartWithin(): the hooks run, the mailbox is resumed by a later "then".
DecideRestart(i) ==
  /\ Deciding(i)
  /\ "Restart" \in Directives
  /\ "One" \in Scopes
  /\ InformEnds(i)
  /\ restarting' = restarting \cup {FailureOf(i)}
  /\ UNCHANGED <<stageVars, sent, cached, registered, stopping, lost>>

\* Mutant of DecideStop: it is the supervisor that is stopped.
DecideStopSelf(i) ==
  /\ Deciding(i)
  /\ "Stop" \in Directives
  /\ "One" \in Scopes
  /\ InformEnds(i)
  /\ stopping' = stopping \cup {i}
  /\ UNCHANGED <<stageVars, sent, cached, registered, restarting, lost>>

\* stop(One): nothing to do for an actor that is stopped already.
DecideStop(i) ==
  /\ Deciding(i)
  /\ "Stop" \in Directives
  /\ "One" \in Scopes
  /\ InformEnds(i)
  /\ stopping' = IF mailbox[i.actor].closed THEN stopping ELSE stopping \cup {FailureOf(i)}
  /\ UNCHANGED <<stageVars, sent, cached, registered, restarting, lost>>

\* inform() throws with the supervisor's mailbox at b, and fails like any other
\* handler: the mailbox is suspended and the root restarts the supervisor.
InformFails(i, b) ==
  /\ mailbox' = [mailbox EXCEPT ![Supervisor] = Failed(b, i)]
  /\ restarting' = restarting \cup {i}
  /\ lost' = lost \cup {FailureOf(i)}
  /\ UNCHANGED <<stageVars, sent, cached, registered, stopping>>

\* escalate(): supervisor() is a message to the supervisor, so what it
\* returns is a promise, and calling inform() on a promise throws.
DecideEscalate(i) ==
  /\ Deciding(i)
  /\ "Escalate" \in Directives
  /\ InformFails(i, Sent(mailbox[Supervisor], QueryOf(i)))

\* restartWithin and stop of all siblings: selfWithSiblings() asks the proxy
\* of the parent for its actor(), a promise again, and throws.
DecideForAll(i) ==
  /\ Deciding(i)
  /\ Directives \cap {"Restart", "Stop"} # {}
  /\ "All" \in Scopes
  /\ InformFails(i, mailbox[Supervisor])

QueryEnds(q) ==
  /\ q \in Query \cap mailbox[Supervisor].running
  /\ mailbox' = [mailbox EXCEPT ![Supervisor] = Returned(@, q)]
  /\ UNCHANGED <<stageVars, sent, cached, registered, restarting, stopping, lost>>

-----------------------------------------------------------------------------
(* The directives carried out *)

\* The promise of restart() settles, either way: the mailbox is resumed.
RestartDone(f) ==
  /\ f \in restarting
  /\ restarting' = restarting \ {f}
  /\ mailbox' = [mailbox EXCEPT ![Target(f)] = Resumed(@)]
  /\ UNCHANGED <<stageVars, sent, cached, registered, stopping, lost>>

\* Mutant of StopDone: the mailbox is left open.
StopDoneOpen(f) ==
  /\ f \in stopping
  /\ stopping' = stopping \ {f}
  /\ UNCHANGED <<mailbox, stageVars, sent, cached, registered, restarting, lost>>

\* stop() has awaited beforeStop() and closes the mailbox.
StopDone(f) ==
  /\ f \in stopping
  /\ stopping' = stopping \ {f}
  /\ mailbox' = [mailbox EXCEPT ![f.actor] = Closed(@)]
  /\ UNCHANGED <<stageVars, sent, cached, registered, restarting, lost>>

\* The supervisor is stopped by the application: its mailbox is closed, what
\* is queued in it stays there, and it leaves the directory.
SupervisorStops ==
  /\ StopsSupervisor
  /\ ~mailbox[Supervisor].closed
  /\ mailbox' = [mailbox EXCEPT ![Supervisor] = Closed(@)]
  /\ registered' = FALSE
  /\ lost' = lost \cup {FailureOf(i) : i \in Queue(mailbox[Supervisor]) \cap Inform}
  /\ UNCHANGED <<stageVars, sent, cached, restarting, stopping>>

Decide(i) ==
  DecideResume(i) \/ DecideRestart(i) \/ DecideStop(i) \/ DecideEscalate(i) \/ DecideForAll(i)

EventLoop ==
  \/ \E m \in rejected : StartRejected(m)
  \/ \E i \in mailbox[Supervisor].running : Decide(i) \/ QueryEnds(i)
  \/ \E a \in Actors : \E m \in mailbox[a].settling : Continue(a, m)
  \/ \E f \in restarting : RestartDone(f)
  \/ \E f \in stopping : StopDone(f)

Next ==
  \/ EventLoop
  \/ \E w \in Workers : actorFor(w) \/ BeforeStartFails(w) \/ SendWork(w)
  \/ \E w \in Workers : \E m \in mailbox[w].running :
       WorkEnds(m) \/ WorkFails(m) \/ WorkFailsUnsupervised(m)
  \/ SupervisorStops

Spec == Init /\ [][Next]_vars

(***************************************************************************)
(* Fairness: the event loop runs what is ready: continuations are run,     *)
(* decideDirective and supervisionStrategy return, restart() and           *)
(* beforeStop() settle.  A failure leads to finitely many of these steps,  *)
(* so all of them are taken.  Nothing is assumed of the workers or their   *)
(* clients.                                                                *)
(***************************************************************************)
FairSpec == Spec /\ WF_vars(EventLoop)

-----------------------------------------------------------------------------
\* The supervisor has yet to act on the failure f, or its action is under way.
Attended(f) ==
  \/ InformOf(f) \in Queue(mailbox[Supervisor]) /\ ~mailbox[Supervisor].closed
  \/ Deciding(InformOf(f))
  \/ f \in restarting
  \/ f \in stopping

(***************************************************************************)
(* No failure is forgotten: an actor that is suspended has a failure that  *)
(* is still attended to, or one that the history says was lost, however    *)
(* many of its failures overlap and in whatever order they are answered.   *)
(***************************************************************************)
NoFailureForgotten ==
  \A w \in Workers :
    mailbox[w].suspended /\ ~mailbox[w].closed =>
      \E f \in Failures : f.actor = w /\ (Attended(f) \/ f \in lost)

(***************************************************************************)
(* A failure is acted upon once: it is never in two stages of supervision. *)
(***************************************************************************)
AnsweredOnce ==
  \A f \in Failures :
    /\ ~(f \in restarting /\ f \in stopping)
    /\ InformOf(f) \in Queue(mailbox[Supervisor]) => f \notin restarting \cup stopping
    /\ f \in lost => f \notin restarting \cup stopping

(***************************************************************************)
(* An actor that fails is put back to work or stopped, however many of its *)
(* failures overlap, unless a failure of it was lost: informed to a        *)
(* supervisor that is gone, or answered by a directive that throws.        *)
(***************************************************************************)
ReturnsUnlessLost ==
  \A w \in Workers :
    mailbox[w].suspended ~>
      (~mailbox[w].suspended \/ mailbox[w].closed \/ \E f \in lost : f.actor = w)

(***************************************************************************)
(* docs/DomoActors.md on the directives: a failed actor is restarted,      *)
(* resumed or stopped in the end, by its supervisor or the one its failure *)
(* is escalated to.                                                        *)
(***************************************************************************)
FailedActorsReturn ==
  \A w \in Workers : mailbox[w].suspended ~> (~mailbox[w].suspended \/ mailbox[w].closed)

(***************************************************************************)
(* The failures that queue up while a supervisor is suspended, for its own *)
(* failures overlap too, are acted upon unless it is stopped.              *)
(***************************************************************************)
InformsHandled ==
  Queue(mailbox[Supervisor]) # {}
    ~> (Queue(mailbox[Supervisor]) = {} \/ mailbox[Supervisor].closed)

=============================================================================
