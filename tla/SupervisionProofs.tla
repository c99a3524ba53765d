-------------------------- MODULE SupervisionProofs --------------------------
(***************************************************************************)
(* Theorems about Supervision, for every number of workers, messages and   *)
(* reports, every set of directives and scopes, and whether or not the     *)
(* supervisor may be stopped.                                              *)
(***************************************************************************)
EXTENDS Supervision, MailboxRecordProofs, TLAPS

\* A handler leaves and its loop goes on.
LEMMA ReturnedMoves ==
  ASSUME NEW M, NEW b \in MailboxOf(M), NEW m \in M
  PROVE  LET c == Returned(b, m) IN
         /\ c \in MailboxOf(M)
         /\ c.closed = b.closed /\ c.suspended = b.suspended
         /\ c.settling \subseteq b.settling \cup {m}
         /\ Contents(c) \subseteq Contents(b) /\ Contents(b) \subseteq Contents(c) \cup {m}
         /\ Queue(c) \subseteq Queue(b) /\ b.running \ {m} \subseteq c.running
         /\ b.closed => Queue(c) = Queue(b) /\ c.running = b.running \ {m}
         /\ Distinct(b) => Distinct(c)
         /\ Distinct(b) /\ m \in b.running => m \notin Contents(c)
<1> DEFINE d == Ended(b, m)
<1>1. /\ d \in MailboxOf(M) /\ d.closed = b.closed /\ d.suspended = b.suspended
      /\ d.settling = b.settling \cup {m} /\ d.queue = b.queue /\ d.running = b.running \ {m}
  BY EndedRemoves
<1>2. /\ Queue(d) = Queue(b) /\ (Distinct(b) => Distinct(d))
      /\ Contents(d) \subseteq Contents(b) /\ Contents(b) \subseteq Contents(d) \cup {m}
  BY <1>1 DEF Contents, Queue, Distinct
<1>3. Distinct(b) /\ m \in b.running => m \notin Contents(d)
  BY <1>1, <1>2 DEF Contents, Distinct
<1>4. Returned(b, m) = Continued(d, m)
  BY DEF Returned
<1> HIDE DEF d
<1> QED BY <1>1, <1>2, <1>3, <1>4, ContinuedMoves

-----------------------------------------------------------------------------
(* Messages and types                                                       *)

LEMMA FailureNames ==
  ASSUME NEW f \in Failures
  PROVE  /\ InformOf(f) \in Inform /\ QueryOf(f) \in Query
         /\ FailureOf(InformOf(f)) = f /\ FailureOf(QueryOf(f)) = f
         /\ InformOf(f).actor = f.actor
         /\ f.actor \in Workers /\ f.n \in 0..MaxWork
BY DEF Failures, Messages, Inform, Query, InformOf, QueryOf, FailureOf

LEMMA InformNames ==
  ASSUME NEW i \in Inform
  PROVE  /\ FailureOf(i) \in Failures /\ InformOf(FailureOf(i)) = i
         /\ FailureOf(i).actor = i.actor /\ i.actor \in Workers
         /\ QueryOf(i) \in Query /\ QueryOf(FailureOf(i)) = QueryOf(i)
BY DEF Failures, Messages, Inform, Query, InformOf, QueryOf, FailureOf

LEMMA KindsApart ==
  /\ Failures \cap Inform = {} /\ Failures \cap Query = {} /\ Inform \cap Query = {}
  /\ Failures \cup Inform \cup Query \subseteq Messages
  /\ Work \subseteq Failures
BY DEF Failures, Messages, Inform, Query, Work

LEMMA StartNames ==
  ASSUME NEW w \in Workers
  PROVE  /\ StartOf(w) \in Work /\ StartOf(w).actor = w /\ StartOf(w).n = 0
         /\ [StartOf(w) EXCEPT !.by = "beforeStart"] \in Failures
         /\ [StartOf(w) EXCEPT !.by = "beforeStart"].actor = w
         /\ [StartOf(w) EXCEPT !.by = "beforeStart"].n = 0
         /\ [StartOf(w) EXCEPT !.by = "beforeStart"].by = "beforeStart"
<1>1. 0 \in 0..MaxWork
  BY BoundsAssumption
<1> QED BY <1>1 DEF StartOf, WorkFor, Work, Failures, Messages, Reporters

LEMMA WorkNames ==
  ASSUME NEW w \in Workers, NEW k \in 1..MaxWork
  PROVE  WorkFor(w, k) \in Work /\ WorkFor(w, k).actor = w /\ WorkFor(w, k).n = k
BY BoundsAssumption DEF WorkFor, Work, Failures, Messages, Reporters

\* The failure of start() that its rejected promise reports.
Rejection(m) == [m EXCEPT !.by = "rejection"]

LEMMA RejectionNames ==
  ASSUME NEW m \in Work, m.n = 0
  PROVE  /\ Rejection(m) \in Failures /\ Rejection(m).actor = m.actor /\ Rejection(m).n = 0
         /\ Rejection(m).by = "rejection" /\ m = StartOf(m.actor)
BY DEF Rejection, Work, Failures, Messages, Reporters, StartOf, WorkFor

\* What an actor is sent.
MailOf(a) == IF a = Supervisor THEN Inform \cup Query ELSE {m \in Work : m.actor = a}

OwnMail == \A a \in Actors : mailbox[a] \in MailboxOf(MailOf(a))

TypeInv ==
  /\ TypeOK
  /\ OwnMail
  /\ \A m \in rejected : m.n = 0
  /\ restarting \subseteq Failures \cup Inform

LEMMA OwnMailIsTyped ==
  ASSUME mailbox' = [a \in Actors |-> mailbox'[a]], OwnMail'
  PROVE  mailbox' \in [Actors -> MailboxOf(Messages)]
<1>1. ASSUME NEW a \in Actors PROVE mailbox'[a] \in MailboxOf(Messages)
  <2>1. MailOf(a) \subseteq Messages
    BY KindsApart DEF MailOf
  <2> QED BY <2>1, LargerMailbox DEF OwnMail
<1> QED BY <1>1

\* The mailboxes after a step: b of worker w, c of the supervisor.
Mailboxes(w, b, c) ==
  /\ mailbox' = [a \in Actors |-> mailbox'[a]]
  /\ mailbox'[w] = b
  /\ mailbox'[Supervisor] = c
  /\ \A v \in Workers \ {w} : mailbox'[v] = mailbox[v]

LEMMA TypedMailboxes ==
  ASSUME TypeInv, NEW w \in Workers, NEW b \in MailboxOf(MailOf(w)),
         NEW c \in MailboxOf(MailOf(Supervisor)), Mailboxes(w, b, c)
  PROVE  OwnMail' /\ mailbox' \in [Actors -> MailboxOf(Messages)]
<1>1. OwnMail'
  BY WorkersAssumption DEF Mailboxes, OwnMail, TypeInv, Actors
<1> QED BY <1>1, OwnMailIsTyped DEF Mailboxes

\* One worker's mailbox changes, or the supervisor's, or both.
LEMMA OneMailbox ==
  ASSUME TypeInv
  PROVE  /\ \A w \in Workers : \A b :
              mailbox' = [mailbox EXCEPT ![w] = b] => Mailboxes(w, b, mailbox[Supervisor])
         /\ \A w \in Workers : \A c :
              mailbox' = [mailbox EXCEPT ![Supervisor] = c] => Mailboxes(w, mailbox[w], c)
         /\ \A w \in Workers : \A b, c :
              mailbox' = [mailbox EXCEPT ![w] = b, ![Supervisor] = c] => Mailboxes(w, b, c)
         /\ \A w \in Workers : \A b, c :
              mailbox' = [mailbox EXCEPT ![Supervisor] = c, ![w] = b] => Mailboxes(w, b, c)
         /\ \A w \in Workers :
              mailbox' = mailbox => Mailboxes(w, mailbox[w], mailbox[Supervisor])
BY WorkersAssumption DEF TypeInv, TypeOK, Mailboxes, Actors

LEMMA MailKinds ==
  ASSUME TypeInv
  PROVE  /\ mailbox[Supervisor] \in MailboxOf(MailOf(Supervisor))
         /\ MailOf(Supervisor) = Inform \cup Query
         /\ mailbox[Supervisor].running \cup mailbox[Supervisor].settling \subseteq Inform \cup Query
         /\ \A w \in Workers :
              /\ mailbox[w] \in MailboxOf(MailOf(w))
              /\ MailOf(w) = {m \in Work : m.actor = w}
              /\ \A m \in mailbox[w].running \cup mailbox[w].settling :
                   m \in MailOf(w) /\ m \in Work /\ m \in Failures /\ m.actor = w
<1>1. \A a \in Actors : mailbox[a] \in MailboxOf(MailOf(a))
  BY DEF TypeInv, OwnMail
<1>2. \A a \in Actors : mailbox[a].running \cup mailbox[a].settling \subseteq MailOf(a)
  BY <1>1 DEF MailboxOf
<1>3. Supervisor \in Actors /\ MailOf(Supervisor) = Inform \cup Query
  BY DEF MailOf, Actors
<1>4. ASSUME NEW w \in Workers
      PROVE  /\ w \in Actors
             /\ MailOf(w) = {m \in Work : m.actor = w}
             /\ \A m \in MailOf(w) : m \in Work /\ m \in Failures /\ m.actor = w
  <2>1. w # Supervisor
    BY WorkersAssumption
  <2>2. MailOf(w) = {m \in Work : m.actor = w}
    BY <2>1 DEF MailOf
  <2> QED BY <2>2, KindsApart DEF Actors
<1>5. ASSUME NEW w \in Workers, NEW m \in mailbox[w].running \cup mailbox[w].settling
      PROVE  m \in MailOf(w) /\ m \in Work /\ m \in Failures /\ m.actor = w
  BY <1>2, <1>4
<1>6. \A w \in Workers : mailbox[w] \in MailboxOf(MailOf(w)) /\ MailOf(w) = {m \in Work : m.actor = w}
  BY <1>1, <1>4
<1>7. /\ mailbox[Supervisor] \in MailboxOf(MailOf(Supervisor))
      /\ mailbox[Supervisor].running \cup mailbox[Supervisor].settling \subseteq Inform \cup Query
  BY <1>1, <1>2, <1>3
<1> QED BY <1>3, <1>5, <1>6, <1>7

\* A report to the supervisor, and one that cannot be made.
LEMMA ReportSends ==
  ASSUME TypeInv, NEW f \in Failures, NEW b, Report(f, b)
  PROVE  /\ Mailboxes(f.actor, b, Sent(mailbox[Supervisor], InformOf(f)))
         /\ InformOf(f) \in MailOf(Supervisor) /\ f.actor \in Workers
         /\ Sent(mailbox[Supervisor], InformOf(f)) \in MailboxOf(MailOf(Supervisor))
<1>1. f.actor \in Workers /\ f.actor # Supervisor /\ InformOf(f) \in MailOf(Supervisor)
  BY FailureNames, WorkersAssumption, MailKinds
<1>2. mailbox' = [mailbox EXCEPT ![f.actor] = b,
                                 ![Supervisor] = Sent(mailbox[Supervisor], InformOf(f))]
  BY <1>1 DEF Report
<1>3. Sent(mailbox[Supervisor], InformOf(f)) \in MailboxOf(MailOf(Supervisor))
  BY <1>1, MailKinds, SentAdds
<1> QED BY <1>1, <1>2, <1>3, OneMailbox

LEMMA ReportThrown ==
  ASSUME TypeInv, NEW f \in Failures, NEW b, ReportThrows(f, b)
  PROVE  Mailboxes(f.actor, b, mailbox[Supervisor]) /\ f.actor \in Workers
BY FailureNames, OneMailbox DEF ReportThrows

\* The rest of the types when a failure is reported, or cannot be.
LEMMA ReportedTypes ==
  ASSUME TypeInv, NEW f \in Failures, NEW b \in MailboxOf(MailOf(f.actor)),
         Report(f, b) \/ ReportThrows(f, b)
  PROVE  /\ OwnMail' /\ mailbox' \in [Actors -> MailboxOf(Messages)]
         /\ cached' \subseteq Workers /\ lost' \subseteq Failures
<1>1. f.actor \in Workers
  BY FailureNames
<1>2. /\ cached' \subseteq Workers /\ lost' \subseteq Failures
  BY <1>1 DEF Report, ReportThrows, TypeInv, TypeOK
<1>3. CASE Report(f, b)
  BY <1>1, <1>2, <1>3, ReportSends, TypedMailboxes
<1>4. CASE ReportThrows(f, b)
  BY <1>1, <1>2, <1>4, ReportThrown, MailKinds, TypedMailboxes
<1> QED BY <1>3, <1>4

\* The mailbox of one actor changes.
LEMMA TypedMailbox ==
  ASSUME TypeInv, NEW a \in Actors, NEW b \in MailboxOf(MailOf(a)),
         mailbox' = [mailbox EXCEPT ![a] = b]
  PROVE  OwnMail' /\ mailbox' \in [Actors -> MailboxOf(Messages)]
<1>1. OwnMail'
  BY DEF OwnMail, TypeInv, TypeOK
<1> QED BY <1>1, OwnMailIsTyped DEF TypeInv, TypeOK

-----------------------------------------------------------------------------
(* The types are kept                                                       *)

LEMMA TypeInit == Init => TypeInv
<1> SUFFICES ASSUME Init PROVE TypeInv
  OBVIOUS
<1>1. EmptyMailbox \in MailboxOf({}) /\ {} \in SUBSET Messages
  BY DEF EmptyMailbox, MailboxOf
<1>2. \A a \in Actors : mailbox[a] \in MailboxOf(MailOf(a))
  BY <1>1, LargerMailbox DEF Init
<1>3. EmptyMailbox \in MailboxOf(Messages)
  BY <1>1, LargerMailbox
<1>4. TypeOK
  BY <1>3, BoundsAssumption DEF Init, TypeOK
<1> QED BY <1>2, <1>4 DEF TypeInv, OwnMail, Init

\* The decisions, which all have the same mailboxes to look at.
LEMMA TypeOfDecisions ==
  ASSUME TypeInv, NEW i \in mailbox[Supervisor].running, Decide(i) \/ QueryEnds(i)
  PROVE  TypeInv'
<1> DEFINE b == mailbox[Supervisor]
<1>1. /\ b \in MailboxOf(MailOf(Supervisor)) /\ Supervisor \in Actors
      /\ i \in MailOf(Supervisor) /\ MailOf(Supervisor) = Inform \cup Query
  BY MailKinds DEF Actors
<1>2. Returned(b, i) \in MailboxOf(MailOf(Supervisor))
  BY <1>1, ReturnedMoves
<1>3. ASSUME mailbox' = [mailbox EXCEPT ![Supervisor] = Returned(b, i)]
      PROVE  OwnMail' /\ mailbox' \in [Actors -> MailboxOf(Messages)]
  BY <1>1, <1>2, <1>3, TypedMailbox
<1>4. CASE DecideResume(i)
  <2>1. /\ i \in Inform /\ i.actor \in Workers /\ i.actor # Supervisor
    BY <1>4, InformNames, WorkersAssumption DEF DecideResume, Deciding
  <2>2. mailbox' = [mailbox EXCEPT ![Supervisor] = Returned(b, i),
                                   ![i.actor] = Resumed(mailbox[i.actor])]
    BY <1>4, <2>1 DEF DecideResume
  <2>3. Resumed(mailbox[i.actor]) \in MailboxOf(MailOf(i.actor))
    BY <2>1, MailKinds, ResumedMoves
  <2>4. OwnMail' /\ mailbox' \in [Actors -> MailboxOf(Messages)]
    BY <1>2, <2>1, <2>2, <2>3, OneMailbox, TypedMailboxes
  <2> QED BY <1>4, <2>4 DEF DecideResume, TypeInv, TypeOK, stageVars
<1>5. CASE DecideRestart(i)
  <2>1. /\ i \in Inform /\ FailureOf(i) \in Failures /\ FailureOf(i) \in Messages
    BY <1>5, InformNames, KindsApart DEF DecideRestart, Deciding
  <2>2. OwnMail' /\ mailbox' \in [Actors -> MailboxOf(Messages)]
    BY <1>3, <1>5 DEF DecideRestart, InformEnds
  <2> QED BY <1>5, <2>1, <2>2 DEF DecideRestart, TypeInv, TypeOK, stageVars
<1>6. CASE DecideStop(i)
  <2>1. /\ i \in Inform /\ FailureOf(i) \in Failures
    BY <1>6, InformNames DEF DecideStop, Deciding
  <2>2. OwnMail' /\ mailbox' \in [Actors -> MailboxOf(Messages)]
    BY <1>3, <1>6 DEF DecideStop, InformEnds
  <2> QED BY <1>6, <2>1, <2>2 DEF DecideStop, TypeInv, TypeOK, stageVars
<1>7. ASSUME NEW c \in MailboxOf(MailOf(Supervisor)), InformFails(i, c), i \in Inform
      PROVE  TypeInv'
  <2>1. Failed(c, i) \in MailboxOf(MailOf(Supervisor))
    BY <1>1, FailedRemoves
  <2>2. OwnMail' /\ mailbox' \in [Actors -> MailboxOf(Messages)]
    BY <1>1, <1>7, <2>1, TypedMailbox DEF InformFails
  <2>3. FailureOf(i) \in Failures /\ i \in Messages
    BY <1>7, InformNames, KindsApart
  <2> QED BY <1>7, <2>2, <2>3 DEF InformFails, TypeInv, TypeOK, stageVars
<1>8. CASE DecideEscalate(i)
  <2>1. i \in Inform /\ QueryOf(i) \in MailOf(Supervisor)
    BY <1>1, <1>8, InformNames DEF DecideEscalate, Deciding
  <2>2. Sent(b, QueryOf(i)) \in MailboxOf(MailOf(Supervisor))
    BY <1>1, <2>1, SentAdds
  <2> QED BY <1>7, <1>8, <2>1, <2>2 DEF DecideEscalate
<1>9. CASE DecideForAll(i)
  BY <1>1, <1>7, <1>9 DEF DecideForAll, Deciding
<1>10. CASE QueryEnds(i)
  <2>1. OwnMail' /\ mailbox' \in [Actors -> MailboxOf(Messages)]
    BY <1>3, <1>10 DEF QueryEnds
  <2> QED BY <1>10, <2>1 DEF QueryEnds, TypeInv, TypeOK, stageVars
<1> QED BY <1>4, <1>5, <1>6, <1>8, <1>9, <1>10 DEF Decide

LEMMA TypeInductive == TypeInv /\ [Next]_vars => TypeInv'
<1> SUFFICES ASSUME TypeInv, [Next]_vars PROVE TypeInv'
  OBVIOUS
<1>1. ASSUME NEW w \in Workers, actorFor(w) PROVE TypeInv'
  <2>1. StartOf(w) \in MailOf(w) /\ mailbox[w] \in MailboxOf(MailOf(w)) /\ w \in Actors
    BY StartNames, MailKinds DEF Actors
  <2>2. Sent(mailbox[w], StartOf(w)) \in MailboxOf(MailOf(w))
    BY <2>1, SentAdds
  <2>3. OwnMail' /\ mailbox' \in [Actors -> MailboxOf(Messages)]
    BY <1>1, <2>1, <2>2, TypedMailbox DEF actorFor
  <2> QED BY <1>1, <2>3 DEF actorFor, TypeInv, TypeOK
<1>2. ASSUME NEW w \in Workers, BeforeStartFails(w) PROVE TypeInv'
  <2> DEFINE f == [StartOf(w) EXCEPT !.by = "beforeStart"]
  <2>1. /\ StartOf(w) \in MailOf(w) /\ mailbox[w] \in MailboxOf(MailOf(w))
        /\ f \in Failures /\ f.actor = w
    BY StartNames, MailKinds
  <2>2. Sent(mailbox[w], StartOf(w)) \in MailboxOf(MailOf(w))
    BY <2>1, SentAdds
  <2>3. Report(f, Sent(mailbox[w], StartOf(w))) \/ ReportThrows(f, mailbox[w])
    BY <1>2 DEF BeforeStartFails
  <2> HIDE DEF f
  <2>4. /\ OwnMail' /\ mailbox' \in [Actors -> MailboxOf(Messages)]
        /\ cached' \subseteq Workers /\ lost' \subseteq Failures
    BY <2>1, <2>2, <2>3, ReportedTypes
  <2>5. reported' \in 0..MaxReports
    BY <1>2, BoundsAssumption DEF BeforeStartFails, Throws, TypeInv, TypeOK
  <2> QED BY <1>2, <2>4, <2>5 DEF BeforeStartFails, TypeInv, TypeOK
<1>3. ASSUME NEW m \in rejected, StartRejected(m) PROVE TypeInv'
  <2>1. m \in Work /\ m.n = 0
    BY DEF TypeInv, TypeOK
  <2>2. /\ Rejection(m) \in Failures /\ Rejection(m).actor = m.actor
        /\ mailbox[m.actor] \in MailboxOf(MailOf(m.actor))
    BY <2>1, RejectionNames, MailKinds, FailureNames
  <2>3. CASE mailbox[m.actor].closed
    BY <1>3, <2>3 DEF StartRejected, TypeInv, TypeOK, OwnMail
  <2>4. CASE ~mailbox[m.actor].closed
    <3>1. Report(Rejection(m), mailbox[m.actor]) \/ ReportThrows(Rejection(m), mailbox[m.actor])
      BY <1>3, <2>4 DEF StartRejected, Rejection
    <3>2. /\ OwnMail' /\ mailbox' \in [Actors -> MailboxOf(Messages)]
          /\ cached' \subseteq Workers /\ lost' \subseteq Failures
      BY <2>2, <3>1, ReportedTypes
    <3> QED BY <1>3, <3>2 DEF StartRejected, TypeInv, TypeOK
  <2> QED BY <2>3, <2>4
<1>4. ASSUME NEW w \in Workers, SendWork(w) PROVE TypeInv'
  <2>1. sent + 1 \in 1..MaxWork
    BY <1>4, BoundsAssumption DEF SendWork, TypeInv, TypeOK
  <2>2. /\ WorkFor(w, sent + 1) \in MailOf(w) /\ mailbox[w] \in MailboxOf(MailOf(w))
        /\ w \in Actors
    BY <2>1, WorkNames, MailKinds DEF Actors
  <2>3. Sent(mailbox[w], WorkFor(w, sent + 1)) \in MailboxOf(MailOf(w))
    BY <2>2, SentAdds
  <2>4. OwnMail' /\ mailbox' \in [Actors -> MailboxOf(Messages)]
    BY <1>4, <2>2, <2>3, TypedMailbox DEF SendWork
  <2> QED BY <1>4, <2>1, <2>4 DEF SendWork, TypeInv, TypeOK, stageVars
<1>5. ASSUME NEW w \in Workers, NEW m \in mailbox[w].running,
             WorkEnds(m) \/ WorkFails(m) \/ WorkFailsUnsupervised(m)
      PROVE  TypeInv'
  <2>1. /\ m.actor = w /\ m \in Work /\ m \in Failures /\ m \in MailOf(w)
        /\ mailbox[w] \in MailboxOf(MailOf(w)) /\ w \in Actors
    BY MailKinds DEF Actors
  <2>2. CASE WorkEnds(m)
    <3>1. Returned(mailbox[w], m) \in MailboxOf(MailOf(w))
      BY <2>1, ReturnedMoves
    <3>2. OwnMail' /\ mailbox' \in [Actors -> MailboxOf(Messages)]
      BY <2>1, <2>2, <3>1, TypedMailbox DEF WorkEnds
    <3> QED BY <2>2, <3>2 DEF WorkEnds, TypeInv, TypeOK, stageVars
  <2>3. ASSUME NEW b \in MailboxOf(MailOf(w)), Report(m, b) \/ ReportThrows(m, b),
               Throws(ReportsOf(m)), Rejects(m),
               UNCHANGED <<created, sent, registered, restarting, stopping>>
        PROVE  TypeInv'
    <3>1. /\ OwnMail' /\ mailbox' \in [Actors -> MailboxOf(Messages)]
          /\ cached' \subseteq Workers /\ lost' \subseteq Failures
      BY <2>1, <2>3, ReportedTypes
    <3>2. reported' \in 0..MaxReports
      BY <2>3, BoundsAssumption DEF Throws, ReportsOf, TypeInv, TypeOK
    <3>3. rejected' \subseteq Work /\ \A r \in rejected' : r.n = 0
      BY <2>1, <2>3 DEF Rejects, TypeInv, TypeOK
    <3> QED BY <2>3, <3>1, <3>2, <3>3 DEF TypeInv, TypeOK
  <2>4. CASE WorkFails(m)
    <3>1. Failed(mailbox[w], m) \in MailboxOf(MailOf(w))
      BY <2>1, FailedRemoves
    <3> QED BY <2>1, <2>3, <2>4, <3>1 DEF WorkFails
  <2>5. CASE WorkFailsUnsupervised(m)
    <3> DEFINE b == [mailbox[w] EXCEPT !.suspended = TRUE, !.running = @ \ {m}]
    <3>1. b \in MailboxOf(MailOf(w))
      BY <2>1 DEF MailboxOf
    <3>2. ReportThrows(m, b)
      BY <2>1, <2>5 DEF WorkFailsUnsupervised
    <3> HIDE DEF b
    <3> QED BY <2>3, <2>5, <3>1, <3>2 DEF WorkFailsUnsupervised
  <2> QED BY <1>5, <2>2, <2>4, <2>5
<1>6. ASSUME NEW a \in Actors, NEW m \in mailbox[a].settling, Continue(a, m) PROVE TypeInv'
  <2>1. mailbox[a] \in MailboxOf(MailOf(a))
    BY DEF TypeInv, OwnMail
  <2>2. OwnMail' /\ mailbox' \in [Actors -> MailboxOf(Messages)]
    BY <1>6, <2>1, ContinuedMoves, TypedMailbox DEF Continue
  <2> QED BY <1>6, <2>2 DEF Continue, TypeInv, TypeOK, stageVars
<1>7. ASSUME NEW f \in restarting, RestartDone(f) PROVE TypeInv'
  <2>1. Target(f) \in Actors
    BY FailureNames DEF TypeInv, Target, Actors, Inform, Messages
  <2>2. mailbox[Target(f)] \in MailboxOf(MailOf(Target(f)))
    BY <2>1 DEF TypeInv, OwnMail
  <2>3. OwnMail' /\ mailbox' \in [Actors -> MailboxOf(Messages)]
    BY <1>7, <2>1, <2>2, ResumedMoves, TypedMailbox DEF RestartDone
  <2> QED BY <1>7, <2>3 DEF RestartDone, TypeInv, TypeOK, stageVars
<1>8. ASSUME NEW a \in Actors, mailbox' = [mailbox EXCEPT ![a] = Closed(@)]
      PROVE  OwnMail' /\ mailbox' \in [Actors -> MailboxOf(Messages)]
  <2>1. mailbox[a] \in MailboxOf(MailOf(a))
    BY DEF TypeInv, OwnMail
  <2>2. Closed(mailbox[a]) \in MailboxOf(MailOf(a))
    BY <2>1 DEF Closed, MailboxOf
  <2> QED BY <1>8, <2>2, TypedMailbox
<1>9. ASSUME NEW f \in stopping, StopDone(f) PROVE TypeInv'
  <2>1. f.actor \in Actors
    BY FailureNames DEF TypeInv, TypeOK, Actors
  <2>2. OwnMail' /\ mailbox' \in [Actors -> MailboxOf(Messages)]
    BY <1>8, <1>9, <2>1 DEF StopDone
  <2> QED BY <1>9, <2>2 DEF StopDone, TypeInv, TypeOK, stageVars
<1>10. CASE SupervisorStops
  <2>1. OwnMail' /\ mailbox' \in [Actors -> MailboxOf(Messages)]
    BY <1>8, <1>10 DEF SupervisorStops, Actors
  <2>2. lost' \subseteq Failures
    BY <1>10, InformNames DEF SupervisorStops, TypeInv, TypeOK
  <2> QED BY <1>10, <2>1, <2>2 DEF SupervisorStops, TypeInv, TypeOK, stageVars
<1>11. CASE UNCHANGED vars
  BY <1>11 DEF vars, stageVars, TypeInv, TypeOK, OwnMail
<1> QED
  BY <1>1, <1>2, <1>3, <1>4, <1>5, <1>6, <1>7, <1>9, <1>10, <1>11, TypeOfDecisions
  DEF Next, EventLoop

(***************************************************************************)
(* The variables keep their types: every actor holds messages of its own,  *)
(* and what the stage and the supervisor remember are failures.            *)
(***************************************************************************)
THEOREM TypeCorrect == Spec => []TypeOK
<1>1. TypeInv => TypeOK
  BY DEF TypeInv
<1> QED BY TypeInit, TypeInductive, <1>1, PTL DEF Spec
-----------------------------------------------------------------------------
(* No failure is forgotten                                                  *)

\* The supervisor with mailbox b will act on i.
Held(b, i) == (i \in Queue(b) /\ ~b.closed) \/ i \in b.running

Watched(f) ==
  \/ Held(mailbox[Supervisor], InformOf(f))
  \/ f \in restarting
  \/ f \in stopping
  \/ f \in lost

\* The mailbox of w needs a failure that is watched.
Waits(w) == mailbox[w].suspended /\ ~mailbox[w].closed

LEMMA WatchedSuffices ==
  ASSUME NoFailureForgotten,
         \A f \in Failures : Watched(f) => Watched(f)' \/ ~Waits(f.actor)',
         \A w \in Workers :
           Waits(w)' => Waits(w) \/ \E f \in Failures : f.actor = w /\ Watched(f)'
  PROVE  NoFailureForgotten'
<1>1. \A f \in Failures : InformOf(f) \in Inform /\ f.actor \in Workers
  BY FailureNames
<1>2. \A f \in Failures : Watched(f) <=> Attended(f) \/ f \in lost
  BY <1>1 DEF Watched, Held, Attended, Deciding
<1>3. \A f \in Failures : Watched(f)' <=> Attended(f)' \/ f \in lost'
  BY <1>1 DEF Watched, Held, Attended, Deciding
<1>4. ASSUME NEW w \in Workers, Waits(w)' PROVE \E f \in Failures : f.actor = w /\ Watched(f)'
  <2>1. CASE Waits(w)
    <3>1. PICK f \in Failures : f.actor = w /\ Watched(f)
      BY <1>2, <2>1 DEF NoFailureForgotten, Waits
    <3> QED BY <1>4, <3>1
  <2> QED BY <1>4, <2>1
<1> QED BY <1>3, <1>4 DEF NoFailureForgotten, Waits

\* What is held stays so while the mailbox moves messages on.
LEMMA HeldMoves ==
  ASSUME NEW b, NEW c, NEW m, c.closed = b.closed, b.running \ {m} \subseteq c.running,
         Contents(b) \subseteq Contents(c) \cup {m}
  PROVE  \A i : Held(b, i) /\ i # m => Held(c, i)
BY DEF Held, Contents

\* The failures that were watched are, when nothing is taken from them.
LEMMA WatchKept ==
  ASSUME NEW f, Held(mailbox[Supervisor], InformOf(f)) => Held(mailbox'[Supervisor], InformOf(f)),
         restarting \subseteq restarting', stopping \subseteq stopping', lost \subseteq lost'
  PROVE  Watched(f) => Watched(f)'
BY DEF Watched

\* A worker's own mailbox changes and does not begin to wait.
LEMMA OwnStep ==
  ASSUME TypeInv, NoFailureForgotten, NEW w \in Workers, NEW b, Mailboxes(w, b, mailbox[Supervisor]),
         b.suspended = mailbox[w].suspended, mailbox[w].closed => b.closed,
         UNCHANGED <<restarting, stopping, lost>>
  PROVE  NoFailureForgotten'
<1>1. \A f \in Failures : Watched(f) => Watched(f)'
  BY DEF Watched, Mailboxes
<1>2. \A v \in Workers : Waits(v)' => Waits(v)
  BY DEF Waits, Mailboxes
<1> QED BY <1>1, <1>2, WatchedSuffices

\* A reported failure is watched, and so are those that were.
LEMMA ReportedIsWatched ==
  ASSUME TypeInv, NoFailureForgotten, NEW f \in Failures, NEW b \in MailboxOf(MailOf(f.actor)),
         Report(f, b) \/ ReportThrows(f, b), mailbox[f.actor].closed => b.closed,
         UNCHANGED <<restarting, stopping>>
  PROVE  NoFailureForgotten'
<1> DEFINE c == mailbox[Supervisor]
<1>1. f.actor \in Workers
  BY FailureNames
<1>2. \A v \in Workers \ {f.actor} : mailbox'[v] = mailbox[v]
  BY ReportSends, ReportThrown DEF Mailboxes
<1>3. \A v \in Workers \ {f.actor} : Waits(v)' => Waits(v)
  BY <1>2 DEF Waits
<1>4. CASE Report(f, b)
  <2>1. mailbox'[Supervisor] = Sent(c, InformOf(f)) /\ InformOf(f) \in MailOf(Supervisor)
    BY <1>4, ReportSends DEF Mailboxes
  <2>2. /\ Sent(c, InformOf(f)).closed = c.closed
        /\ c.running \subseteq Sent(c, InformOf(f)).running
        /\ c.closed => Sent(c, InformOf(f)) = c
        /\ ~c.closed => Contents(Sent(c, InformOf(f))) = Contents(c) \cup {InformOf(f)}
    BY <2>1, MailKinds, SentAdds
  <2>3. \A g \in Failures : Held(c, InformOf(g)) => Held(mailbox'[Supervisor], InformOf(g))
    BY <2>1, <2>2 DEF Held, Contents
  <2>4. lost \subseteq lost'
    BY <1>4 DEF Report
  <2>5. \A g \in Failures : Watched(g) => Watched(g)'
    BY <2>3, <2>4, WatchKept
  <2>6. Watched(f)'
    <3>1. CASE c.closed
      BY <1>4, <3>1 DEF Report, Watched
    <3>2. CASE ~c.closed
      BY <2>1, <2>2, <3>2 DEF Watched, Held, Contents
    <3> QED BY <3>1, <3>2
  <2> QED BY <1>1, <1>3, <2>5, <2>6, WatchedSuffices
<1>5. CASE ReportThrows(f, b)
  <2>1. mailbox'[Supervisor] = c /\ lost' = lost \cup {f}
    BY <1>5, ReportThrown DEF Mailboxes, ReportThrows
  <2>2. Watched(f)' /\ \A g \in Failures : Watched(g) => Watched(g)'
    BY <2>1 DEF Watched
  <2> QED BY <1>1, <1>3, <2>2, WatchedSuffices
<1> QED BY <1>4, <1>5
\* The decisions: each answers its failure or says that it is lost.
LEMMA DecisionsForgetNothing ==
  ASSUME TypeInv, NoFailureForgotten, NEW i \in mailbox[Supervisor].running,
         Decide(i) \/ QueryEnds(i)
  PROVE  NoFailureForgotten'
<1> DEFINE b == mailbox[Supervisor]
<1>1. /\ b \in MailboxOf(MailOf(Supervisor)) /\ Supervisor \in Actors
      /\ i \in MailOf(Supervisor) /\ MailOf(Supervisor) = Inform \cup Query
      /\ i.actor \in Workers /\ i.actor # Supervisor
  BY MailKinds, WorkersAssumption DEF Actors, Inform, Query, Messages
<1>2. \A j : Held(b, j) /\ j # i => Held(Returned(b, i), j)
  <2>1. /\ Returned(b, i).closed = b.closed
        /\ b.running \ {i} \subseteq Returned(b, i).running
        /\ Contents(b) \subseteq Contents(Returned(b, i)) \cup {i}
    BY <1>1, ReturnedMoves
  <2> QED BY <2>1, HeldMoves
<1>3. ASSUME mailbox' = [mailbox EXCEPT ![Supervisor] = Returned(b, i)],
             restarting \subseteq restarting', stopping \subseteq stopping', lost \subseteq lost',
             \A f \in Failures : InformOf(f) = i => Watched(f)' \/ ~Waits(f.actor)'
      PROVE  NoFailureForgotten'
  <2>1. Mailboxes(i.actor, mailbox[i.actor], Returned(b, i))
    BY <1>1, <1>3, OneMailbox
  <2>2. mailbox'[Supervisor] = Returned(b, i) /\ \A w \in Workers : mailbox'[w] = mailbox[w]
    BY <1>1, <2>1 DEF Mailboxes
  <2>3. \A w \in Workers : Waits(w)' => Waits(w)
    BY <2>2 DEF Waits
  <2>4. \A f \in Failures : Watched(f) => Watched(f)' \/ ~Waits(f.actor)'
    BY <1>2, <1>3, <2>2, WatchKept
  <2> QED BY <2>3, <2>4, WatchedSuffices
<1>4. CASE DecideResume(i)
  <2>1. mailbox' = [mailbox EXCEPT ![Supervisor] = Returned(b, i),
                                   ![i.actor] = Resumed(mailbox[i.actor])]
    BY <1>1, <1>4 DEF DecideResume
  <2>2. Mailboxes(i.actor, Resumed(mailbox[i.actor]), Returned(b, i))
    BY <1>1, <2>1, OneMailbox
  <2>3. Resumed(mailbox[i.actor]).suspended = FALSE
    BY <1>1, MailKinds, ResumedMoves
  <2>4. /\ mailbox'[Supervisor] = Returned(b, i) /\ ~Waits(i.actor)'
        /\ \A w \in Workers : Waits(w)' => Waits(w)
    BY <2>2, <2>3 DEF Mailboxes, Waits
  <2>5. \A f \in Failures : InformOf(f) = i => f.actor = i.actor
    BY FailureNames
  <2>6. \A f \in Failures : InformOf(f) # i => (Watched(f) => Watched(f)')
    BY <1>2, <1>4, <2>4 DEF DecideResume, Watched
  <2> QED BY <2>4, <2>5, <2>6, WatchedSuffices
<1>5. CASE DecideRestart(i)
  <2>1. \A f \in Failures : InformOf(f) = i => Watched(f)'
    BY <1>5, FailureNames DEF DecideRestart, Watched
  <2> QED BY <1>3, <1>5, <2>1 DEF DecideRestart, InformEnds
<1>6. CASE DecideStop(i)
  <2>1. mailbox'[i.actor] = mailbox[i.actor]
    BY <1>1, <1>6 DEF DecideStop, InformEnds, TypeInv, TypeOK
  <2>2. \A f \in Failures : InformOf(f) = i => Watched(f)' \/ ~Waits(f.actor)'
    BY <1>6, <2>1, FailureNames DEF DecideStop, Watched, Waits
  <2> QED BY <1>3, <1>6, <2>2 DEF DecideStop, InformEnds
<1>7. ASSUME NEW c \in MailboxOf(MailOf(Supervisor)), InformFails(i, c), i \in Inform,
             c.closed = b.closed, b.running \subseteq c.running,
             Contents(b) \subseteq Contents(c)
      PROVE  NoFailureForgotten'
  <2>1. /\ Failed(c, i).closed = c.closed
        /\ Failed(c, i).running = c.running \ {i}
        /\ Contents(c) \subseteq Contents(Failed(c, i)) \cup {i}
    BY <1>1, FailedRemoves
  <2>2. /\ Failed(c, i).closed = b.closed
        /\ b.running \ {i} \subseteq Failed(c, i).running
        /\ Contents(b) \subseteq Contents(Failed(c, i)) \cup {i}
    BY <1>7, <2>1
  <2>3. \A j : Held(b, j) /\ j # i => Held(Failed(c, i), j)
    BY <2>2, HeldMoves
  <2>4. mailbox' = [mailbox EXCEPT ![Supervisor] = Failed(c, i)]
    BY <1>7 DEF InformFails
  <2>5. Mailboxes(i.actor, mailbox[i.actor], Failed(c, i))
    BY <1>1, <2>4, OneMailbox
  <2>6. mailbox'[Supervisor] = Failed(c, i) /\ \A w \in Workers : Waits(w)' => Waits(w)
    BY <1>1, <2>5 DEF Mailboxes, Waits
  <2>7. \A f \in Failures : InformOf(f) = i => Watched(f)'
    BY <1>7, FailureNames DEF InformFails, Watched
  <2>8. restarting \subseteq restarting' /\ stopping \subseteq stopping' /\ lost \subseteq lost'
    BY <1>7 DEF InformFails
  <2>9. \A f \in Failures : Watched(f) => Watched(f)'
    BY <2>3, <2>6, <2>7, <2>8, WatchKept
  <2> QED BY <2>6, <2>9, WatchedSuffices
<1>8. CASE DecideEscalate(i)
  <2>1. i \in Inform /\ QueryOf(i) \in MailOf(Supervisor)
    BY <1>1, <1>8, InformNames DEF DecideEscalate, Deciding
  <2>2. /\ Sent(b, QueryOf(i)) \in MailboxOf(MailOf(Supervisor))
        /\ Sent(b, QueryOf(i)).closed = b.closed
        /\ b.closed => Sent(b, QueryOf(i)) = b
        /\ ~b.closed => Contents(Sent(b, QueryOf(i))) = Contents(b) \cup {QueryOf(i)}
        /\ b.running \subseteq Sent(b, QueryOf(i)).running
    BY <1>1, <2>1, SentAdds
  <2>3. Contents(b) \subseteq Contents(Sent(b, QueryOf(i)))
    BY <2>2
  <2> QED BY <1>7, <1>8, <2>1, <2>2, <2>3 DEF DecideEscalate
<1>9. CASE DecideForAll(i)
  BY <1>1, <1>7, <1>9 DEF DecideForAll, Deciding
<1>10. CASE QueryEnds(i)
  <2>1. \A f \in Failures : InformOf(f) # i
    BY <1>10, FailureNames, KindsApart DEF QueryEnds
  <2> QED BY <1>3, <1>10, <2>1 DEF QueryEnds
<1> QED BY <1>4, <1>5, <1>6, <1>8, <1>9, <1>10 DEF Decide

LEMMA NothingForgotten ==
  TypeInv /\ NoFailureForgotten /\ [Next]_vars => NoFailureForgotten'
<1> SUFFICES ASSUME TypeInv, NoFailureForgotten, [Next]_vars PROVE NoFailureForgotten'
  OBVIOUS
<1> DEFINE s == mailbox[Supervisor]
<1>1. ASSUME NEW w \in Workers, actorFor(w) PROVE NoFailureForgotten'
  <2>1. Mailboxes(w, Sent(mailbox[w], StartOf(w)), s)
    BY <1>1, OneMailbox DEF actorFor
  <2>2. StartOf(w) \in MailOf(w) /\ mailbox[w] \in MailboxOf(MailOf(w))
    BY StartNames, MailKinds
  <2>3. /\ Sent(mailbox[w], StartOf(w)).suspended = mailbox[w].suspended
        /\ Sent(mailbox[w], StartOf(w)).closed = mailbox[w].closed
    BY <2>2, SentAdds
  <2> QED BY <1>1, <2>1, <2>3, OwnStep DEF actorFor
<1>2. ASSUME NEW w \in Workers, BeforeStartFails(w) PROVE NoFailureForgotten'
  <2> DEFINE f == [StartOf(w) EXCEPT !.by = "beforeStart"]
  <2>1. /\ StartOf(w) \in MailOf(w) /\ mailbox[w] \in MailboxOf(MailOf(w))
        /\ f \in Failures /\ f.actor = w
    BY StartNames, MailKinds
  <2>2. /\ Sent(mailbox[w], StartOf(w)) \in MailboxOf(MailOf(w))
        /\ Sent(mailbox[w], StartOf(w)).closed = mailbox[w].closed
    BY <2>1, SentAdds
  <2>3. Report(f, Sent(mailbox[w], StartOf(w))) \/ ReportThrows(f, mailbox[w])
    BY <1>2 DEF BeforeStartFails
  <2> HIDE DEF f
  <2> QED BY <1>2, <2>1, <2>2, <2>3, ReportedIsWatched DEF BeforeStartFails
<1>3. ASSUME NEW m \in rejected, StartRejected(m) PROVE NoFailureForgotten'
  <2>1. m \in Work /\ m.n = 0
    BY DEF TypeInv, TypeOK
  <2>2. /\ Rejection(m) \in Failures /\ Rejection(m).actor = m.actor
        /\ mailbox[m.actor] \in MailboxOf(MailOf(m.actor))
    BY <2>1, RejectionNames, MailKinds, FailureNames
  <2>3. CASE mailbox[m.actor].closed
    <3>1. UNCHANGED <<mailbox, restarting, stopping, lost>>
      BY <1>3, <2>3 DEF StartRejected
    <3>2. \A f \in Failures : Watched(f) => Watched(f)'
      BY <3>1 DEF Watched
    <3>3. \A w \in Workers : Waits(w)' => Waits(w)
      BY <3>1 DEF Waits
    <3> QED BY <3>2, <3>3, WatchedSuffices
  <2>4. CASE ~mailbox[m.actor].closed
    <3>1. Report(Rejection(m), mailbox[m.actor]) \/ ReportThrows(Rejection(m), mailbox[m.actor])
      BY <1>3, <2>4 DEF StartRejected, Rejection
    <3> QED BY <1>3, <2>2, <3>1, ReportedIsWatched DEF StartRejected
  <2> QED BY <2>3, <2>4
<1>4. ASSUME NEW w \in Workers, SendWork(w) PROVE NoFailureForgotten'
  <2>1. sent + 1 \in 1..MaxWork
    BY <1>4, BoundsAssumption DEF SendWork, TypeInv, TypeOK
  <2> DEFINE b == Sent(mailbox[w], WorkFor(w, sent + 1))
  <2>2. Mailboxes(w, b, s)
    BY <1>4, OneMailbox DEF SendWork
  <2>3. b.suspended = mailbox[w].suspended /\ b.closed = mailbox[w].closed
    BY <2>1, WorkNames, MailKinds, SentAdds
  <2> HIDE DEF b
  <2> QED BY <1>4, <2>2, <2>3, OwnStep DEF SendWork
<1>5. ASSUME NEW w \in Workers, NEW m \in mailbox[w].running,
             WorkEnds(m) \/ WorkFails(m) \/ WorkFailsUnsupervised(m)
      PROVE  NoFailureForgotten'
  <2>1. /\ m.actor = w /\ m \in Failures /\ m \in MailOf(w)
        /\ mailbox[w] \in MailboxOf(MailOf(w))
    BY MailKinds
  <2>2. CASE WorkEnds(m)
    <3>1. Mailboxes(w, Returned(mailbox[w], m), s)
      BY <2>1, <2>2, OneMailbox DEF WorkEnds
    <3>2. /\ Returned(mailbox[w], m).suspended = mailbox[w].suspended
          /\ Returned(mailbox[w], m).closed = mailbox[w].closed
      BY <2>1, ReturnedMoves
    <3> QED BY <2>2, <3>1, <3>2, OwnStep DEF WorkEnds
  <2>3. CASE WorkFails(m)
    <3>1. Failed(mailbox[w], m) \in MailboxOf(MailOf(w)) /\ Failed(mailbox[w], m).closed = mailbox[w].closed
      BY <2>1, FailedRemoves
    <3> QED BY <2>1, <2>3, <3>1, ReportedIsWatched DEF WorkFails
  <2>4. CASE WorkFailsUnsupervised(m)
    <3> DEFINE b == [mailbox[w] EXCEPT !.suspended = TRUE, !.running = @ \ {m}]
    <3>1. b \in MailboxOf(MailOf(w)) /\ b.closed = mailbox[w].closed
      BY <2>1 DEF MailboxOf
    <3>2. ReportThrows(m, b)
      BY <2>1, <2>4 DEF WorkFailsUnsupervised
    <3> HIDE DEF b
    <3> QED BY <2>1, <2>4, <3>1, <3>2, ReportedIsWatched DEF WorkFailsUnsupervised
  <2> QED BY <1>5, <2>2, <2>3, <2>4
<1>6. ASSUME NEW a \in Actors, NEW m \in mailbox[a].settling, Continue(a, m)
      PROVE  NoFailureForgotten'
  <2> DEFINE c == Continued(mailbox[a], m)
  <2>1. mailbox[a] \in MailboxOf(MailOf(a))
    BY DEF TypeInv, OwnMail
  <2>2. /\ c.closed = mailbox[a].closed /\ c.suspended = mailbox[a].suspended
        /\ Contents(c) = Contents(mailbox[a]) /\ mailbox[a].running \subseteq c.running
    BY <2>1, ContinuedMoves
  <2>3. mailbox' = [mailbox EXCEPT ![a] = c] /\ UNCHANGED <<restarting, stopping, lost>>
    BY <1>6 DEF Continue
  <2> HIDE DEF c
  <2>4. CASE a \in Workers
    BY <2>2, <2>3, <2>4, OneMailbox, OwnStep
  <2>5. CASE a = Supervisor
    <3>1. mailbox'[Supervisor] = c /\ \A w \in Workers : mailbox'[w] = mailbox[w]
      BY <2>3, <2>5, WorkersAssumption DEF TypeInv, TypeOK, Actors
    <3>2. \A f \in Failures : Watched(f) => Watched(f)'
      BY <2>2, <2>3, <2>5, <3>1 DEF Watched, Held, Contents
    <3>3. \A w \in Workers : Waits(w)' => Waits(w)
      BY <3>1 DEF Waits
    <3> QED BY <3>2, <3>3, WatchedSuffices
  <2> QED BY <2>4, <2>5 DEF Actors
<1>7. ASSUME NEW f \in restarting, RestartDone(f) PROVE NoFailureForgotten'
  <2>1. CASE f \in Failures
    <3>1. Target(f) = f.actor /\ f.actor \in Workers
      BY <2>1, FailureNames DEF Target, Failures
    <3>2. Mailboxes(f.actor, Resumed(mailbox[f.actor]), s)
      BY <1>7, <3>1, OneMailbox DEF RestartDone
    <3>3. Resumed(mailbox[f.actor]).suspended = FALSE
      BY <3>1, MailKinds, ResumedMoves
    <3>4. /\ mailbox'[Supervisor] = s /\ ~Waits(f.actor)'
          /\ \A w \in Workers : Waits(w)' => Waits(w)
      BY <3>2, <3>3 DEF Mailboxes, Waits
    <3>5. \A g \in Failures : g # f => (Watched(g) => Watched(g)')
      BY <1>7, <3>4 DEF RestartDone, Watched
    <3> QED BY <3>4, <3>5, WatchedSuffices
  <2>2. CASE f \in Inform
    <3> DEFINE c == Resumed(s)
    <3>1. Target(f) = Supervisor
      BY <2>2 DEF Target, Inform
    <3>2. mailbox'[Supervisor] = c /\ \A w \in Workers : mailbox'[w] = mailbox[w]
      BY <1>7, <3>1, WorkersAssumption DEF RestartDone, TypeInv, TypeOK, Actors
    <3>3. c.closed = s.closed /\ Contents(c) = Contents(s) /\ s.running \subseteq c.running
      BY MailKinds, ResumedMoves
    <3>4. \A g \in Failures : Held(s, InformOf(g)) => Held(c, InformOf(g))
      BY <3>3 DEF Held, Contents
    <3> HIDE DEF c
    <3>5. \A g \in Failures : g # f
      BY <2>2, KindsApart
    <3>6. \A g \in Failures : Watched(g) => Watched(g)'
      BY <1>7, <3>2, <3>4, <3>5 DEF RestartDone, Watched
    <3>7. \A w \in Workers : Waits(w)' => Waits(w)
      BY <3>2 DEF Waits
    <3> QED BY <3>6, <3>7, WatchedSuffices
  <2> QED BY <2>1, <2>2 DEF TypeInv
<1>8. ASSUME NEW f \in stopping, StopDone(f) PROVE NoFailureForgotten'
  <2>1. f \in Failures /\ f.actor \in Workers
    BY FailureNames DEF TypeInv, TypeOK
  <2>2. Mailboxes(f.actor, Closed(mailbox[f.actor]), s)
    BY <1>8, <2>1, OneMailbox DEF StopDone
  <2>3. Closed(mailbox[f.actor]).closed
    BY <2>1, MailKinds DEF Closed, MailboxOf
  <2>4. /\ mailbox'[Supervisor] = s /\ ~Waits(f.actor)'
        /\ \A w \in Workers : Waits(w)' => Waits(w)
    BY <2>2, <2>3 DEF Mailboxes, Waits
  <2>5. \A g \in Failures : g # f => (Watched(g) => Watched(g)')
    BY <1>8, <2>4 DEF StopDone, Watched
  <2> QED BY <2>4, <2>5, WatchedSuffices
<1>9. CASE SupervisorStops
  <2>1. /\ mailbox'[Supervisor] = Closed(s)
        /\ \A w \in Workers : mailbox'[w] = mailbox[w]
    BY <1>9, WorkersAssumption DEF SupervisorStops, TypeInv, TypeOK, Actors
  <2>2. Closed(s).running = s.running
    BY MailKinds DEF Closed, MailboxOf
  <2>3. ASSUME NEW g \in Failures, Watched(g) PROVE Watched(g)'
    <3>1. CASE InformOf(g) \in Queue(s)
      <4>1. g = FailureOf(InformOf(g)) /\ InformOf(g) \in Inform
        BY FailureNames
      <4> QED BY <1>9, <3>1, <4>1 DEF SupervisorStops, Watched
    <3>2. CASE InformOf(g) \notin Queue(s)
      BY <1>9, <2>1, <2>2, <2>3, <3>2 DEF SupervisorStops, Watched, Held
    <3> QED BY <3>1, <3>2
  <2>4. \A w \in Workers : Waits(w)' => Waits(w)
    BY <2>1 DEF Waits
  <2> QED BY <2>3, <2>4, WatchedSuffices
<1>10. CASE UNCHANGED vars
  BY <1>10 DEF vars, stageVars, NoFailureForgotten, Attended, Deciding
<1> QED
  BY <1>1, <1>2, <1>3, <1>4, <1>5, <1>6, <1>7, <1>8, <1>9, <1>10, DecisionsForgetNothing
  DEF Next, EventLoop

(***************************************************************************)
(* No failure is forgotten: an actor whose mailbox is suspended has a      *)
(* failure the supervisor has queued or is deciding upon, or whose         *)
(* directive is under way, or which the history says was lost.             *)
(***************************************************************************)
THEOREM FailuresAttended == Spec => []NoFailureForgotten
<1>1. Init => NoFailureForgotten
  BY DEF Init, NoFailureForgotten, Actors, EmptyMailbox
<1> QED BY TypeInit, TypeInductive, NothingForgotten, <1>1, PTL DEF Spec
-----------------------------------------------------------------------------
(* A failure is acted upon once                                             *)

\* m is a message of a worker that has not been sent, or not been handled.
Unsent(m) == IF m.n = 0 THEN m.actor \notin created ELSE m.n > sent
ToCome(m) == Unsent(m) \/ m \in Contents(mailbox[m.actor])

\* The failure f may still be reported.
Pending(f) ==
  \/ f.by = "deliver" /\ ToCome(f)
  \/ f.by = "rejection" /\ (ToCome(StartOf(f.actor)) \/ StartOf(f.actor) \in rejected)
  \/ f.by = "beforeStart" /\ f.actor \notin created

\* The failure f was reported, and its trace has not gone yet.
Reported(f) ==
  \/ InformOf(f) \in Contents(mailbox[Supervisor])
  \/ f \in restarting \cup stopping \cup lost

WorkersOnce ==
  /\ \A w \in Workers : Distinct(mailbox[w])
  /\ \A m \in Work : Unsent(m) => m \notin Contents(mailbox[m.actor])
  /\ \A m \in rejected : ~ToCome(m)

OneStage(f) ==
  /\ InformOf(f) \in Contents(mailbox[Supervisor]) => f \notin restarting \cup stopping
  /\ f \in restarting => f \notin stopping
  /\ f \in lost => f \notin restarting \cup stopping
  /\ Held(mailbox[Supervisor], InformOf(f)) => f \notin lost
  /\ QueryOf(f) \in Contents(mailbox[Supervisor]) => f \in lost

SupervisorOnce ==
  /\ Distinct(mailbox[Supervisor])
  /\ \A f \in Failures : OneStage(f)
  /\ \A f \in Failures : Pending(f) => ~Reported(f)

\* What was reported or handled does not become possible again.
Shrinks == \A f \in Failures : Pending(f)' => Pending(f)

LEMMA WorkersAdvance ==
  ASSUME \A w \in Workers : Distinct(mailbox'[w]),
         \A m \in Work : ToCome(m)' => ToCome(m),
         \A m \in Work : Unsent(m)' => m \notin Contents(mailbox'[m.actor]),
         \A m \in rejected' : ~ToCome(m)' /\ (m \in rejected \/ ToCome(m)),
         created \subseteq created'
  PROVE  WorkersOnce' /\ Shrinks
<1>1. WorkersOnce'
  BY DEF WorkersOnce
<1>2. ASSUME NEW f \in Failures, Pending(f)' PROVE Pending(f)
  <2>1. StartOf(f.actor) \in Work /\ f.actor \in Workers
    BY FailureNames, StartNames
  <2>2. CASE f.by = "deliver" /\ ToCome(f)'
    BY <2>2 DEF Pending, Work
  <2>3. CASE f.by = "rejection" /\ (ToCome(StartOf(f.actor))' \/ StartOf(f.actor) \in rejected')
    BY <2>1, <2>3 DEF Pending
  <2>4. CASE f.by = "beforeStart" /\ f.actor \notin created'
    BY <2>4 DEF Pending
  <2>5. StartOf(f.actor)' = StartOf(f.actor)
    BY DEF StartOf, WorkFor
  <2> QED BY <1>2, <2>2, <2>3, <2>4, <2>5 DEF Pending
<1> QED BY <1>1, <1>2 DEF Shrinks

\* The messages of worker w move on, and none is added.
LEMMA WorkerMoves ==
  ASSUME WorkersOnce, NEW w \in Workers, NEW b, NEW c, Mailboxes(w, b, c),
         Contents(b) \subseteq Contents(mailbox[w]), Distinct(b),
         UNCHANGED <<created, sent>>,
         \A m \in rejected' : m \in Work /\ (m \in rejected \/ (ToCome(m) /\ ~ToCome(m)'))
  PROVE  WorkersOnce' /\ Shrinks
<1>1. \A v \in Workers : Contents(mailbox'[v]) \subseteq Contents(mailbox[v]) /\ Distinct(mailbox'[v])
  BY DEF Mailboxes, WorkersOnce
<1>2. \A m \in Work : m.actor \in Workers
  BY FailureNames DEF Work
<1>3. \A m \in Work : Unsent(m)' = Unsent(m)
  BY DEF Unsent
<1>4. \A m \in Work : ToCome(m)' => ToCome(m)
  BY <1>1, <1>2, <1>3 DEF ToCome
<1>5. \A m \in Work : Unsent(m)' => m \notin Contents(mailbox'[m.actor])
  BY <1>1, <1>2, <1>3 DEF WorkersOnce
<1>6. \A m \in rejected' : ~ToCome(m)' /\ (m \in rejected \/ ToCome(m))
  BY <1>4 DEF WorkersOnce
<1> QED BY <1>1, <1>4, <1>5, <1>6, WorkersAdvance

\* The worker w is sent m for the first time.
LEMMA WorkerIsSent ==
  ASSUME TypeInv, WorkersOnce, NEW w \in Workers, NEW m \in Work, m.actor = w, NEW c,
         Mailboxes(w, Sent(mailbox[w], m), c),
         Unsent(m), ~Unsent(m)', \A k \in Work : Unsent(k)' => Unsent(k),
         created \subseteq created', rejected' = rejected
  PROVE  WorkersOnce' /\ Shrinks
<1> DEFINE b == Sent(mailbox[w], m)
<1>1. m \in MailOf(w) /\ mailbox[w] \in MailboxOf(MailOf(w))
  BY MailKinds
<1>2. m \notin Contents(mailbox[w]) /\ Distinct(mailbox[w])
  BY DEF WorkersOnce
<1>3. /\ mailbox[w].closed => b = mailbox[w]
      /\ ~mailbox[w].closed => Contents(b) = Contents(mailbox[w]) \cup {m}
      /\ Distinct(mailbox[w]) /\ m \notin Contents(mailbox[w]) => Distinct(b)
  BY <1>1, SentAdds
<1>4. Distinct(b) /\ Contents(b) \subseteq Contents(mailbox[w]) \cup {m}
  BY <1>2, <1>3
<1> HIDE DEF b
<1>5. /\ \A v \in Workers : Distinct(mailbox'[v])
      /\ \A v \in Workers : Contents(mailbox'[v]) \subseteq Contents(mailbox[v]) \cup {m}
  BY <1>4 DEF Mailboxes, WorkersOnce, b
<1>6. \A k \in Work : k.actor \in Workers
  BY FailureNames DEF Work
<1>7. \A k \in Work : ToCome(k)' => ToCome(k)
  BY <1>5, <1>6 DEF ToCome
<1>8. \A k \in Work : Unsent(k)' => k \notin Contents(mailbox'[k.actor])
  BY <1>5, <1>6 DEF WorkersOnce
<1>9. \A k \in rejected' : ~ToCome(k)' /\ (k \in rejected \/ ToCome(k))
  BY <1>7 DEF WorkersOnce, TypeInv, TypeOK
<1> QED BY <1>5, <1>7, <1>8, <1>9, WorkersAdvance
LEMMA HeldShrinks ==
  ASSUME NEW b, NEW c, c.closed = b.closed, Contents(c) \subseteq Contents(b),
         b.closed => c.running \subseteq b.running
  PROVE  \A i : Held(c, i) => Held(b, i)
BY DEF Held, Contents

\* The supervisor is told nothing and decides nothing.
LEMMA SupervisorIdle ==
  ASSUME SupervisorOnce, Shrinks, NEW c, mailbox'[Supervisor] = c, Distinct(c),
         c.closed = mailbox[Supervisor].closed, Contents(c) \subseteq Contents(mailbox[Supervisor]),
         mailbox[Supervisor].closed => c.running \subseteq mailbox[Supervisor].running,
         Failures \cap restarting' \subseteq restarting, stopping' \subseteq stopping, lost' = lost
  PROVE  SupervisorOnce'
<1>1. \A i : Held(c, i) => Held(mailbox[Supervisor], i)
  BY HeldShrinks
<1>2. \A f \in Failures : OneStage(f) => OneStage(f)'
  BY <1>1 DEF OneStage
<1>3. \A f \in Failures : Reported(f)' => Reported(f)
  BY DEF Reported
<1> QED BY <1>2, <1>3 DEF SupervisorOnce, Shrinks

\* A report of f reaches the supervisor, or does not.
LEMMA ReportedOnce ==
  ASSUME TypeInv, SupervisorOnce, Shrinks, NEW f \in Failures, Pending(f), ~Pending(f)', NEW b,
         Report(f, b) \/ ReportThrows(f, b), UNCHANGED <<restarting, stopping>>
  PROVE  SupervisorOnce'
<1> DEFINE s == mailbox[Supervisor]
<1>1. ~Reported(f)
  BY DEF SupervisorOnce
<1>2. /\ \A g \in Failures : InformOf(g) = InformOf(f) => g = f
      /\ \A g \in Failures : InformOf(f) # QueryOf(g)
  BY FailureNames, KindsApart
<1>3. CASE Report(f, b) /\ ~s.closed
  <2> DEFINE c == Sent(s, InformOf(f))
  <2>1. mailbox'[Supervisor] = c /\ InformOf(f) \in MailOf(Supervisor) /\ lost' = lost
    BY <1>3, ReportSends DEF Mailboxes, Report
  <2>2. /\ c.closed = s.closed /\ Contents(c) = Contents(s) \cup {InformOf(f)}
        /\ Distinct(s) /\ InformOf(f) \notin Contents(s) => Distinct(c)
    BY <1>3, <2>1, MailKinds, SentAdds
  <2>3. Distinct(c)
    BY <1>1, <2>2 DEF Reported, SupervisorOnce
  <2> HIDE DEF c
  <2>4. \A g \in Failures : g # f => (InformOf(g) \in Contents(c) <=> InformOf(g) \in Contents(s))
    BY <1>2, <2>2
  <2>5. \A g \in Failures : Held(c, InformOf(g)) => InformOf(g) \in Contents(s) \/ g = f
    BY <2>2, <2>4 DEF Held, Contents
  <2>6. \A g \in Failures : QueryOf(g) \in Contents(c) => QueryOf(g) \in Contents(s)
    BY <1>2, <2>2
  <2>7. \A g \in Failures : InformOf(g) \in Contents(s) => Held(s, InformOf(g))
    BY <1>3 DEF Held, Contents
  <2>8. \A g \in Failures : OneStage(g)'
    BY <1>1, <2>1, <2>4, <2>5, <2>6, <2>7 DEF OneStage, Reported, SupervisorOnce
  <2>9. \A g \in Failures : Pending(g)' => ~Reported(g)'
    BY <2>1, <2>4 DEF Reported, SupervisorOnce, Shrinks
  <2> QED BY <2>1, <2>3, <2>8, <2>9 DEF SupervisorOnce
<1>4. CASE (Report(f, b) /\ s.closed) \/ ReportThrows(f, b)
  <2>1. mailbox'[Supervisor] = s /\ lost' = lost \cup {f}
    <3>1. CASE Report(f, b) /\ s.closed
      <4>1. mailbox'[Supervisor] = Sent(s, InformOf(f)) /\ lost' = lost \cup {f}
        BY <3>1, ReportSends DEF Mailboxes, Report
      <4> QED BY <3>1, <4>1 DEF Sent
    <3>2. CASE ReportThrows(f, b)
      BY <3>2, ReportThrown DEF Mailboxes, ReportThrows
    <3> QED BY <1>4, <3>1, <3>2
  <2>2. Held(s, InformOf(f)) => InformOf(f) \in Contents(s)
    BY DEF Held, Contents
  <2>3. \A g \in Failures : OneStage(g)'
    BY <1>1, <2>1, <2>2 DEF OneStage, Reported, SupervisorOnce
  <2>4. \A g \in Failures : Pending(g)' => ~Reported(g)'
    BY <2>1 DEF Reported, SupervisorOnce, Shrinks
  <2> QED BY <2>1, <2>3, <2>4 DEF SupervisorOnce
<1> QED BY <1>3, <1>4

\* inform() ends, and what becomes of its failure is in the other variables.
LEMMA DecidedOnce ==
  ASSUME SupervisorOnce, Shrinks, NEW i \in Inform, i \in mailbox[Supervisor].running,
         NEW c, mailbox'[Supervisor] = c, Distinct(c), i \notin Contents(c),
         c.closed = mailbox[Supervisor].closed,
         Contents(c) \subseteq Contents(mailbox[Supervisor]) \cup {QueryOf(i)},
         mailbox[Supervisor].closed => c.running \subseteq mailbox[Supervisor].running,
         \/ /\ Failures \cap restarting' \subseteq restarting \cup {FailureOf(i)}
            /\ stopping' = stopping /\ lost' = lost
            /\ Contents(c) \subseteq Contents(mailbox[Supervisor])
         \/ /\ Failures \cap restarting' \subseteq restarting
            /\ stopping' \subseteq stopping \cup {FailureOf(i)} /\ lost' = lost
            /\ Contents(c) \subseteq Contents(mailbox[Supervisor])
         \/ /\ Failures \cap restarting' \subseteq restarting
            /\ stopping' = stopping /\ lost' = lost \cup {FailureOf(i)}
  PROVE  SupervisorOnce'
<1> DEFINE s == mailbox[Supervisor]
           d == FailureOf(i)
<1>1. /\ d \in Failures /\ InformOf(d) = i /\ QueryOf(d) = QueryOf(i)
      /\ \A f \in Failures : InformOf(f) = i => f = d
      /\ \A f \in Failures : QueryOf(f) = QueryOf(d) => f = d
      /\ \A f \in Failures : InformOf(f) # QueryOf(i)
  BY InformNames, FailureNames, KindsApart
<1>2. /\ i \in Contents(s) /\ Held(s, i)
      /\ d \notin restarting \cup stopping \cup lost /\ Reported(d)
  <2>1. i \in Contents(s) /\ Held(s, i)
    BY DEF Contents, Held
  <2>2. OneStage(d)
    BY <1>1 DEF SupervisorOnce
  <2> QED BY <1>1, <2>1, <2>2 DEF OneStage, Reported
<1> HIDE DEF d
<1>3. \A f \in Failures : InformOf(f) \in Contents(c) => InformOf(f) \in Contents(s) /\ f # d
  BY <1>1
<1>4. ASSUME NEW f \in Failures PROVE Held(c, InformOf(f)) => Held(s, InformOf(f)) /\ f # d
  BY <1>1, <1>3 DEF Held, Contents
<1>5. \A f \in Failures : f # d => (QueryOf(f) \in Contents(c) => QueryOf(f) \in Contents(s))
  BY <1>1
<1>6. QueryOf(d) \in Contents(s) => d \in lost
  BY <1>1 DEF SupervisorOnce, OneStage
<1>7. ASSUME NEW f \in Failures, f # d PROVE OneStage(f)'
  <2>1. OneStage(f)
    BY DEF SupervisorOnce
  <2>2. /\ f \in restarting' => f \in restarting
        /\ f \in stopping' => f \in stopping
        /\ f \in lost' <=> f \in lost
    BY <1>7 DEF d
  <2> QED BY <1>3, <1>4, <1>5, <1>7, <2>1, <2>2 DEF OneStage
<1>8. OneStage(d)'
  BY <1>1, <1>2, <1>3, <1>4, <1>6 DEF OneStage, d
<1>9. \A f \in Failures : Reported(f)' => Reported(f)
  BY <1>1, <1>2, <1>3 DEF Reported, d
<1> QED BY <1>7, <1>8, <1>9 DEF SupervisorOnce, Shrinks
LEMMA WorkersStay ==
  ASSUME TypeInv, WorkersOnce, \A w \in Workers : mailbox'[w] = mailbox[w],
         UNCHANGED <<created, sent, rejected>>
  PROVE  WorkersOnce' /\ Shrinks
<1>1. \A m \in Work : m.actor \in Workers
  BY FailureNames DEF Work
<1>2. \A m \in Work : Unsent(m)' = Unsent(m) /\ ToCome(m)' = ToCome(m)
  BY <1>1 DEF Unsent, ToCome
<1>3. \A m \in rejected' : m \in Work /\ ~ToCome(m)' /\ m \in rejected
  BY <1>2 DEF WorkersOnce, TypeInv, TypeOK
<1>4. \A m \in Work : Unsent(m)' => m \notin Contents(mailbox'[m.actor])
  BY <1>1, <1>2 DEF WorkersOnce
<1>5. \A w \in Workers : Distinct(mailbox'[w])
  BY DEF WorkersOnce
<1> QED BY <1>2, <1>3, <1>4, <1>5, WorkersAdvance

OnceInv == WorkersOnce /\ SupervisorOnce

LEMMA OnceInit == Init => OnceInv
<1> SUFFICES ASSUME Init PROVE OnceInv
  OBVIOUS
<1>1. \A a \in Actors : Contents(mailbox[a]) = {} /\ Distinct(mailbox[a])
  BY DEF Init, EmptyMailbox, Contents, Queue, Distinct
<1>2. Supervisor \in Actors /\ \A w \in Workers : w \in Actors
  BY DEF Actors
<1>3. \A m \in Work : m.actor \in Workers
  BY FailureNames DEF Work
<1>4. WorkersOnce
  BY <1>1, <1>2, <1>3 DEF WorkersOnce, Init
<1>5. \A i : ~Held(mailbox[Supervisor], i)
  BY <1>1, <1>2 DEF Held, Contents
<1>6. SupervisorOnce
  BY <1>1, <1>2, <1>5 DEF SupervisorOnce, OneStage, Reported, Init
<1> QED BY <1>4, <1>6 DEF OnceInv

LEMMA DecisionsOnce ==
  ASSUME TypeInv, OnceInv, NEW i \in mailbox[Supervisor].running, Decide(i) \/ QueryEnds(i)
  PROVE  OnceInv'
<1> DEFINE s == mailbox[Supervisor]
<1>1. /\ s \in MailboxOf(MailOf(Supervisor)) /\ Supervisor \in Actors
      /\ i \in MailOf(Supervisor) /\ MailOf(Supervisor) = Inform \cup Query
      /\ i.actor \in Workers /\ i.actor # Supervisor
  BY MailKinds, WorkersAssumption DEF Actors, Inform, Query, Messages
<1>2. Distinct(s) /\ WorkersOnce /\ SupervisorOnce
  BY DEF OnceInv, SupervisorOnce
<1>3. /\ Returned(s, i).closed = s.closed /\ Distinct(Returned(s, i))
      /\ i \notin Contents(Returned(s, i)) /\ Contents(Returned(s, i)) \subseteq Contents(s)
      /\ s.closed => Returned(s, i).running \subseteq s.running
  BY <1>1, <1>2, ReturnedMoves
<1>4. ASSUME NEW c, mailbox' = [mailbox EXCEPT ![Supervisor] = c]
      PROVE  mailbox'[Supervisor] = c /\ \A w \in Workers : mailbox'[w] = mailbox[w]
  BY <1>1, <1>4, WorkersAssumption DEF TypeInv, TypeOK
<1>5. CASE DecideResume(i)
  <2> DEFINE b == Resumed(mailbox[i.actor])
  <2>1. i \in Inform
    BY <1>5 DEF DecideResume, Deciding
  <2>2. Mailboxes(i.actor, b, Returned(s, i))
    BY <1>1, <1>5, OneMailbox DEF DecideResume
  <2>3. Contents(b) \subseteq Contents(mailbox[i.actor]) /\ Distinct(b)
    <3>1. mailbox[i.actor] \in MailboxOf(MailOf(i.actor))
      BY <1>1, MailKinds
    <3>2. /\ Contents(b) = Contents(mailbox[i.actor])
          /\ Distinct(mailbox[i.actor]) => Distinct(b)
      BY <3>1, ResumedMoves
    <3> QED BY <1>1, <1>2, <3>2 DEF WorkersOnce
  <2>4. /\ mailbox'[Supervisor] = Returned(s, i)
        /\ UNCHANGED <<created, sent, rejected, restarting, stopping, lost>>
    BY <1>5, <2>2 DEF DecideResume, stageVars, Mailboxes
  <2>5. \A m \in rejected' : m \in Work /\ (m \in rejected \/ (ToCome(m) /\ ~ToCome(m)'))
    BY <2>4 DEF TypeInv, TypeOK
  <2> HIDE DEF b
  <2>6. WorkersOnce' /\ Shrinks
    BY <1>1, <1>2, <2>2, <2>3, <2>4, <2>5, WorkerMoves
  <2>7. SupervisorOnce'
    BY <1>2, <1>3, <2>4, <2>6, SupervisorIdle
  <2> QED BY <2>6, <2>7 DEF OnceInv
<1>6. CASE DecideRestart(i) \/ DecideStop(i)
  <2>1. /\ i \in Inform /\ mailbox' = [mailbox EXCEPT ![Supervisor] = Returned(s, i)]
        /\ UNCHANGED <<created, sent, rejected, lost>>
    BY <1>6 DEF DecideRestart, DecideStop, Deciding, InformEnds, stageVars
  <2>2. mailbox'[Supervisor] = Returned(s, i) /\ \A w \in Workers : mailbox'[w] = mailbox[w]
    BY <1>4, <2>1
  <2>3. WorkersOnce' /\ Shrinks
    BY <1>2, <2>1, <2>2, WorkersStay
  <2>4. \/ restarting' = restarting \cup {FailureOf(i)} /\ stopping' = stopping
        \/ restarting' = restarting /\ stopping' \subseteq stopping \cup {FailureOf(i)}
    BY <1>6 DEF DecideRestart, DecideStop
  <2>5. SupervisorOnce'
    BY <1>2, <1>3, <2>1, <2>2, <2>3, <2>4, DecidedOnce
  <2> QED BY <2>3, <2>5 DEF OnceInv
<1>7. ASSUME NEW c \in MailboxOf(MailOf(Supervisor)), InformFails(i, c), i \in Inform,
             c.closed = s.closed, Distinct(c), i \in c.running,
             s.closed => c = s, Contents(c) \subseteq Contents(s) \cup {QueryOf(i)}
      PROVE  OnceInv'
  <2> DEFINE d == Failed(c, i)
  <2>1. /\ d.closed = c.closed /\ d.running = c.running \ {i} /\ Distinct(d)
        /\ Contents(d) \subseteq Contents(c) /\ i \notin Contents(d)
    <3>1. /\ d.closed = c.closed /\ d.running = c.running \ {i}
          /\ Contents(d) \subseteq Contents(c)
          /\ Distinct(c) => Distinct(d)
          /\ Distinct(c) /\ i \in c.running => i \notin Contents(d)
      BY <1>1, FailedRemoves
    <3> HIDE DEF d
    <3> QED BY <1>7, <3>1
  <2>2. /\ mailbox' = [mailbox EXCEPT ![Supervisor] = d]
        /\ UNCHANGED <<created, sent, rejected, stopping>>
        /\ restarting' = restarting \cup {i} /\ lost' = lost \cup {FailureOf(i)}
    BY <1>7 DEF InformFails, stageVars
  <2> HIDE DEF d
  <2>3. mailbox'[Supervisor] = d /\ \A w \in Workers : mailbox'[w] = mailbox[w]
    BY <1>4, <2>2
  <2>4. WorkersOnce' /\ Shrinks
    BY <1>2, <2>2, <2>3, WorkersStay
  <2>5. Failures \cap restarting' \subseteq restarting
    BY <1>7, <2>2, KindsApart
  <2>6. /\ d.closed = s.closed /\ Contents(d) \subseteq Contents(s) \cup {QueryOf(i)}
        /\ s.closed => d.running \subseteq s.running
    BY <1>7, <2>1
  <2>7. SupervisorOnce'
    BY <1>2, <1>7, <2>1, <2>2, <2>3, <2>4, <2>5, <2>6, DecidedOnce
  <2> QED BY <2>4, <2>7 DEF OnceInv
<1>8. CASE DecideEscalate(i)
  <2> DEFINE c == Sent(s, QueryOf(i))
  <2>1. i \in Inform /\ InformFails(i, c) /\ QueryOf(i) \in MailOf(Supervisor)
    BY <1>1, <1>8, InformNames DEF DecideEscalate, Deciding
  <2>2. QueryOf(i) \notin Contents(s)
    <3>1. OneStage(FailureOf(i)) /\ InformOf(FailureOf(i)) = i /\ QueryOf(FailureOf(i)) = QueryOf(i)
      BY <1>2, <2>1, InformNames DEF SupervisorOnce
    <3> QED BY <3>1 DEF OneStage, Held
  <2>3. /\ c \in MailboxOf(MailOf(Supervisor)) /\ c.closed = s.closed
        /\ s.closed => c = s
        /\ ~s.closed => Contents(c) = Contents(s) \cup {QueryOf(i)}
        /\ s.running \subseteq c.running
        /\ Distinct(s) /\ QueryOf(i) \notin Contents(s) => Distinct(c)
    BY <1>1, <2>1, SentAdds
  <2> HIDE DEF c
  <2>4. Contents(c) \subseteq Contents(s) \cup {QueryOf(i)} /\ i \in c.running
    BY <2>3
  <2> QED BY <1>2, <1>7, <2>1, <2>2, <2>3, <2>4
<1>9. CASE DecideForAll(i)
  BY <1>1, <1>2, <1>7, <1>9 DEF DecideForAll, Deciding
<1>10. CASE QueryEnds(i)
  <2>1. /\ mailbox' = [mailbox EXCEPT ![Supervisor] = Returned(s, i)]
        /\ UNCHANGED <<created, sent, rejected, restarting, stopping, lost>>
    BY <1>10 DEF QueryEnds, stageVars
  <2>2. mailbox'[Supervisor] = Returned(s, i) /\ \A w \in Workers : mailbox'[w] = mailbox[w]
    BY <1>4, <2>1
  <2>3. WorkersOnce' /\ Shrinks
    BY <1>2, <2>1, <2>2, WorkersStay
  <2>4. SupervisorOnce'
    BY <1>2, <1>3, <2>1, <2>2, <2>3, SupervisorIdle
  <2> QED BY <2>3, <2>4 DEF OnceInv
<1> QED BY <1>5, <1>6, <1>8, <1>9, <1>10 DEF Decide
\* Only worker w's mailbox moves on; the supervisor's work shrinks, if it changes.
LEMMA OwnStepOnce ==
  ASSUME TypeInv, OnceInv, NEW w \in Workers, NEW b, Mailboxes(w, b, mailbox[Supervisor]),
         Contents(b) \subseteq Contents(mailbox[w]), Distinct(mailbox[w]) => Distinct(b),
         UNCHANGED <<created, sent, rejected, lost>>,
         restarting' \subseteq restarting, stopping' \subseteq stopping
  PROVE  OnceInv'
<1> DEFINE s == mailbox[Supervisor]
<1>1. Distinct(mailbox[w]) /\ Distinct(s) /\ WorkersOnce /\ SupervisorOnce
  BY DEF OnceInv, WorkersOnce, SupervisorOnce
<1>2. \A m \in rejected' : m \in Work /\ (m \in rejected \/ (ToCome(m) /\ ~ToCome(m)'))
  BY DEF TypeInv, TypeOK
<1>3. WorkersOnce' /\ Shrinks
  BY <1>1, <1>2, WorkerMoves
<1>4. mailbox'[Supervisor] = s
  BY DEF Mailboxes
<1>5. SupervisorOnce'
  BY <1>1, <1>3, <1>4, SupervisorIdle
<1> QED BY <1>3, <1>5 DEF OnceInv

\* A handler of worker w fails, its mailbox becomes b, and its failure is reported.
LEMMA FailsOnce ==
  ASSUME TypeInv, OnceInv, NEW w \in Workers, NEW m \in mailbox[w].running,
         NEW b \in MailboxOf(MailOf(w)), Report(m, b) \/ ReportThrows(m, b), Rejects(m),
         Contents(b) \subseteq Contents(mailbox[w]), Distinct(b), m \notin Contents(b),
         UNCHANGED <<created, sent, restarting, stopping>>
  PROVE  OnceInv'
<1>1. m.actor = w /\ m \in Work /\ m \in Failures /\ m.by = "deliver"
  BY MailKinds DEF Work
<1>2. PICK c : Mailboxes(w, b, c)
  BY <1>1, ReportSends, ReportThrown
<1>3. WorkersOnce /\ SupervisorOnce /\ ToCome(m) /\ ~Unsent(m)
  <2>1. m \in Contents(mailbox[w])
    BY DEF Contents
  <2> QED BY <1>1, <2>1 DEF OnceInv, WorkersOnce, ToCome
<1>4. ~ToCome(m)'
  <2>1. Unsent(m)' = Unsent(m)
    BY DEF Unsent
  <2>2. mailbox'[m.actor] = b
    BY <1>1, <1>2 DEF Mailboxes
  <2> QED BY <1>3, <2>1, <2>2 DEF ToCome
<1>5. \A k \in rejected' : k \in Work /\ (k \in rejected \/ (ToCome(k) /\ ~ToCome(k)'))
  BY <1>1, <1>3, <1>4 DEF Rejects, TypeInv, TypeOK
<1>6. WorkersOnce' /\ Shrinks
  BY <1>2, <1>3, <1>5, WorkerMoves
<1>7. Pending(m) /\ ~Pending(m)'
  BY <1>1, <1>3, <1>4 DEF Pending
<1>8. SupervisorOnce'
  BY <1>1, <1>3, <1>6, <1>7, ReportedOnce
<1> QED BY <1>6, <1>8 DEF OnceInv

LEMMA OnceInductive == TypeInv /\ OnceInv /\ [Next]_vars => OnceInv'
<1> SUFFICES ASSUME TypeInv, OnceInv, [Next]_vars PROVE OnceInv'
  OBVIOUS
<1> DEFINE s == mailbox[Supervisor]
<1>1. /\ WorkersOnce /\ SupervisorOnce /\ Distinct(s)
      /\ \A w \in Workers : Distinct(mailbox[w])
  BY DEF OnceInv, WorkersOnce, SupervisorOnce
<1>2. ASSUME NEW w \in Workers, NEW m \in Work, m.actor = w,
             Mailboxes(w, Sent(mailbox[w], m), s),
             Unsent(m), ~Unsent(m)', \A k \in Work : Unsent(k)' => Unsent(k),
             created \subseteq created',
             UNCHANGED <<rejected, restarting, stopping, lost>>
      PROVE  OnceInv'
  <2>1. WorkersOnce' /\ Shrinks
    BY <1>1, <1>2, WorkerIsSent
  <2>2. mailbox'[Supervisor] = s
    BY <1>2 DEF Mailboxes
  <2>3. SupervisorOnce'
    BY <1>1, <1>2, <2>1, <2>2, SupervisorIdle
  <2> QED BY <2>1, <2>3 DEF OnceInv
<1>3. ASSUME NEW w \in Workers, w \notin created, created' = created \cup {w}, sent' = sent
      PROVE  /\ StartOf(w) \in Work /\ StartOf(w).actor = w
             /\ Unsent(StartOf(w)) /\ ~Unsent(StartOf(w))'
             /\ \A k \in Work : Unsent(k)' => Unsent(k)
  BY <1>3, StartNames DEF Unsent
<1>4. ASSUME NEW w \in Workers, actorFor(w) PROVE OnceInv'
  <2>1. Mailboxes(w, Sent(mailbox[w], StartOf(w)), s)
    BY <1>4, OneMailbox DEF actorFor
  <2> QED BY <1>2, <1>3, <1>4, <2>1 DEF actorFor, IsNext
<1>5. ASSUME NEW w \in Workers, BeforeStartFails(w) PROVE OnceInv'
  <2> DEFINE f == [StartOf(w) EXCEPT !.by = "beforeStart"]
  <2>1. /\ w \notin created /\ created' = created \cup {w}
        /\ UNCHANGED <<rejected, sent, restarting, stopping>>
        /\ Report(f, Sent(mailbox[w], StartOf(w))) \/ ReportThrows(f, mailbox[w])
    BY <1>5 DEF BeforeStartFails, IsNext
  <2>2. f \in Failures /\ f.actor = w /\ f.by = "beforeStart"
    BY StartNames
  <2> HIDE DEF f
  <2>3. Pending(f) /\ ~Pending(f)'
    BY <2>1, <2>2 DEF Pending
  <2>4. /\ StartOf(w) \in Work /\ StartOf(w).actor = w
        /\ Unsent(StartOf(w)) /\ ~Unsent(StartOf(w))'
        /\ \A k \in Work : Unsent(k)' => Unsent(k)
    BY <1>3, <2>1
  <2>5. WorkersOnce' /\ Shrinks
    <3>1. CASE Report(f, Sent(mailbox[w], StartOf(w)))
      <4>1. Mailboxes(w, Sent(mailbox[w], StartOf(w)), Sent(s, InformOf(f)))
        BY <2>2, <3>1, ReportSends
      <4> QED BY <1>1, <2>1, <2>4, <4>1, WorkerIsSent
    <3>2. CASE ReportThrows(f, mailbox[w])
      <4>1. \A v \in Workers : mailbox'[v] = mailbox[v]
        BY <2>2, <3>2, ReportThrown DEF Mailboxes
      <4>2. \A k \in Work : k.actor \in Workers
        BY FailureNames DEF Work
      <4>3. \A k \in Work : ToCome(k)' => ToCome(k)
        BY <2>4, <4>1, <4>2 DEF ToCome
      <4>4. \A k \in Work : Unsent(k)' => k \notin Contents(mailbox'[k.actor])
        BY <1>1, <2>4, <4>1, <4>2 DEF WorkersOnce
      <4>5. \A k \in rejected' : ~ToCome(k)' /\ (k \in rejected \/ ToCome(k))
        BY <1>1, <2>1, <4>3 DEF WorkersOnce, TypeInv, TypeOK
      <4>6. \A v \in Workers : Distinct(mailbox'[v])
        BY <1>1, <4>1
      <4> QED BY <2>1, <4>3, <4>4, <4>5, <4>6, WorkersAdvance
    <3> QED BY <2>1, <3>1, <3>2
  <2>6. SupervisorOnce'
    BY <1>1, <2>1, <2>2, <2>3, <2>5, ReportedOnce
  <2> QED BY <2>5, <2>6 DEF OnceInv
<1>6. ASSUME NEW m \in rejected, StartRejected(m) PROVE OnceInv'
  <2> DEFINE f == Rejection(m)
  <2>1. /\ m \in Work /\ m.n = 0 /\ m = StartOf(m.actor) /\ m.actor \in Workers
        /\ f \in Failures /\ f.actor = m.actor /\ f.by = "rejection"
    BY RejectionNames, FailureNames DEF TypeInv, TypeOK
  <2>2. /\ rejected' = rejected \ {m}
        /\ UNCHANGED <<created, sent, restarting, stopping>>
    BY <1>6 DEF StartRejected
  <2>3. \A k \in rejected' : k \in Work /\ (k \in rejected \/ (ToCome(k) /\ ~ToCome(k)'))
    BY <2>2 DEF TypeInv, TypeOK
  <2>4. CASE mailbox[m.actor].closed
    <3>1. mailbox' = mailbox /\ lost' = lost
      BY <1>6, <2>4 DEF StartRejected
    <3>2. Mailboxes(m.actor, mailbox[m.actor], s)
      BY <2>1, <3>1, OneMailbox
    <3>3. WorkersOnce' /\ Shrinks
      BY <1>1, <2>1, <2>2, <2>3, <3>2, WorkerMoves
    <3>4. SupervisorOnce'
      BY <1>1, <2>2, <3>1, <3>3, SupervisorIdle
    <3> QED BY <3>3, <3>4 DEF OnceInv
  <2>5. CASE ~mailbox[m.actor].closed
    <3>1. Report(f, mailbox[m.actor]) \/ ReportThrows(f, mailbox[m.actor])
      BY <1>6, <2>5 DEF StartRejected, Rejection
    <3> HIDE DEF f
    <3>2. PICK c : Mailboxes(m.actor, mailbox[m.actor], c)
      BY <2>1, <3>1, ReportSends, ReportThrown
    <3>3. WorkersOnce' /\ Shrinks
      BY <1>1, <2>1, <2>2, <2>3, <3>2, WorkerMoves
    <3>4. ~ToCome(m)'
      <4>1. mailbox'[m.actor] = mailbox[m.actor] /\ Unsent(m)' = Unsent(m)
        BY <2>2, <3>2 DEF Mailboxes, Unsent
      <4> QED BY <1>1, <4>1 DEF ToCome, WorkersOnce
    <3>5. Pending(f) /\ ~Pending(f)'
      BY <2>1, <2>2, <3>4 DEF Pending
    <3>6. SupervisorOnce'
      BY <1>1, <2>1, <2>2, <3>1, <3>3, <3>5, ReportedOnce
    <3> QED BY <3>3, <3>6 DEF OnceInv
  <2> QED BY <2>4, <2>5
<1>7. ASSUME NEW w \in Workers, SendWork(w) PROVE OnceInv'
  <2>1. PICK n \in 1..MaxWork : n = sent + 1 /\ sent \in Nat
    BY <1>7, BoundsAssumption DEF SendWork, TypeInv, TypeOK
  <2> DEFINE m == WorkFor(w, n)
  <2>2. m \in Work /\ m.actor = w /\ m.n = n
    BY <2>1, WorkNames
  <2>3. Mailboxes(w, Sent(mailbox[w], m), s)
    BY <1>7, <2>1, OneMailbox DEF SendWork
  <2>4. sent' = sent + 1 /\ UNCHANGED <<created, rejected, restarting, stopping, lost>>
    BY <1>7 DEF SendWork, stageVars
  <2> HIDE DEF m
  <2>5. \A k \in Work : k.n \in Nat
    BY BoundsAssumption, FailureNames DEF Work
  <2>6. Unsent(m) /\ ~Unsent(m)' /\ \A k \in Work : Unsent(k)' => Unsent(k)
    BY <2>1, <2>2, <2>4, <2>5 DEF Unsent
  <2> QED BY <1>2, <2>2, <2>3, <2>4, <2>6
<1>8. ASSUME NEW w \in Workers, NEW m \in mailbox[w].running,
             WorkEnds(m) \/ WorkFails(m) \/ WorkFailsUnsupervised(m)
      PROVE  OnceInv'
  <2>1. /\ m.actor = w /\ m \in Work /\ m \in Failures /\ m \in MailOf(w)
        /\ mailbox[w] \in MailboxOf(MailOf(w)) /\ Distinct(mailbox[w])
    BY <1>1, MailKinds
  <2>2. CASE WorkEnds(m)
    <3> DEFINE b == Returned(mailbox[w], m)
    <3>1. Contents(b) \subseteq Contents(mailbox[w]) /\ (Distinct(mailbox[w]) => Distinct(b))
      BY <2>1, ReturnedMoves
    <3>2. Mailboxes(w, b, s)
      BY <2>1, <2>2, OneMailbox DEF WorkEnds
    <3> HIDE DEF b
    <3> QED BY <2>2, <3>1, <3>2, OwnStepOnce DEF WorkEnds, stageVars
  <2>3. CASE WorkFails(m)
    <3> DEFINE b == Failed(mailbox[w], m)
    <3>1. /\ b \in MailboxOf(MailOf(w)) /\ Contents(b) \subseteq Contents(mailbox[w])
          /\ Distinct(mailbox[w]) => Distinct(b)
          /\ Distinct(mailbox[w]) /\ m \in mailbox[w].running => m \notin Contents(b)
      BY <2>1, FailedRemoves
    <3>2. Report(m, b)
      BY <2>1, <2>3 DEF WorkFails
    <3> HIDE DEF b
    <3> QED BY <2>1, <2>3, <3>1, <3>2, FailsOnce DEF WorkFails
  <2>4. CASE WorkFailsUnsupervised(m)
    <3> DEFINE b == [mailbox[w] EXCEPT !.suspended = TRUE, !.running = @ \ {m}]
    <3>1. b \in MailboxOf(MailOf(w)) /\ b.running = mailbox[w].running \ {m} /\ b.queue = mailbox[w].queue
      BY <2>1 DEF MailboxOf
    <3>2. ReportThrows(m, b)
      BY <2>1, <2>4 DEF WorkFailsUnsupervised
    <3> HIDE DEF b
    <3>3. Contents(b) \subseteq Contents(mailbox[w]) /\ Distinct(b) /\ m \notin Contents(b)
      BY <2>1, <3>1 DEF Contents, Distinct, Queue
    <3> QED BY <2>1, <2>4, <3>1, <3>2, <3>3, FailsOnce DEF WorkFailsUnsupervised
  <2> QED BY <1>8, <2>2, <2>3, <2>4
<1>9. ASSUME NEW c, mailbox' = [mailbox EXCEPT ![Supervisor] = c], Distinct(c),
             c.closed = s.closed, Contents(c) \subseteq Contents(s),
             s.closed => c.running \subseteq s.running,
             UNCHANGED <<created, sent, rejected, lost>>,
             Failures \cap restarting' \subseteq restarting, stopping' \subseteq stopping
      PROVE  OnceInv'
  <2>1. mailbox'[Supervisor] = c /\ \A w \in Workers : mailbox'[w] = mailbox[w]
    BY <1>9, WorkersAssumption DEF TypeInv, TypeOK, Actors
  <2>2. WorkersOnce' /\ Shrinks
    BY <1>1, <1>9, <2>1, WorkersStay
  <2>3. SupervisorOnce'
    BY <1>1, <1>9, <2>1, <2>2, SupervisorIdle
  <2> QED BY <2>2, <2>3 DEF OnceInv
<1>10. ASSUME NEW a \in Actors, NEW m \in mailbox[a].settling, Continue(a, m) PROVE OnceInv'
  <2> DEFINE c == Continued(mailbox[a], m)
  <2>1. mailbox[a] \in MailboxOf(MailOf(a))
    BY DEF TypeInv, OwnMail
  <2>2. /\ c.closed = mailbox[a].closed /\ Contents(c) = Contents(mailbox[a])
        /\ mailbox[a].closed => Queue(c) = Queue(mailbox[a]) /\ c.running = mailbox[a].running
        /\ Distinct(mailbox[a]) => Distinct(c)
    BY <2>1, ContinuedMoves
  <2>3. /\ mailbox' = [mailbox EXCEPT ![a] = c]
        /\ UNCHANGED <<created, sent, rejected, restarting, stopping, lost>>
    BY <1>10 DEF Continue, stageVars
  <2> HIDE DEF c
  <2>4. CASE a \in Workers
    <3>1. Mailboxes(a, c, s)
      BY <2>3, <2>4, OneMailbox
    <3> QED BY <2>2, <2>3, <2>4, <3>1, OwnStepOnce
  <2>5. CASE a = Supervisor
    BY <1>1, <1>9, <2>2, <2>3, <2>5
  <2> QED BY <2>4, <2>5 DEF Actors
<1>11. ASSUME NEW f \in restarting, RestartDone(f) PROVE OnceInv'
  <2>1. UNCHANGED <<created, sent, rejected, stopping, lost>> /\ restarting' \subseteq restarting
    BY <1>11 DEF RestartDone, stageVars
  <2>2. CASE f \in Failures
    <3> DEFINE b == Resumed(mailbox[f.actor])
    <3>1. Target(f) = f.actor /\ f.actor \in Workers
      BY <2>2, FailureNames DEF Target, Failures
    <3>2. Mailboxes(f.actor, b, s)
      BY <1>11, <3>1, OneMailbox DEF RestartDone
    <3>3. mailbox[f.actor] \in MailboxOf(MailOf(f.actor))
      BY <3>1, MailKinds
    <3>4. /\ Contents(b) = Contents(mailbox[f.actor])
          /\ Distinct(mailbox[f.actor]) => Distinct(b)
      BY <3>3, ResumedMoves
    <3> HIDE DEF b
    <3> QED BY <2>1, <3>1, <3>2, <3>4, OwnStepOnce
  <2>3. CASE f \in Inform
    <3> DEFINE c == Resumed(s)
    <3>1. Target(f) = Supervisor
      BY <2>3 DEF Target, Inform
    <3>2. mailbox' = [mailbox EXCEPT ![Supervisor] = c]
      BY <1>11, <3>1 DEF RestartDone
    <3>3. /\ c.closed = s.closed /\ Contents(c) = Contents(s)
          /\ s.closed => Queue(c) = Queue(s) /\ c.running = s.running
          /\ Distinct(s) => Distinct(c)
      BY MailKinds, ResumedMoves
    <3> HIDE DEF c
    <3> QED BY <1>1, <1>9, <2>1, <3>2, <3>3
  <2> QED BY <2>2, <2>3 DEF TypeInv
<1>12. ASSUME NEW f \in stopping, StopDone(f) PROVE OnceInv'
  <2> DEFINE b == Closed(mailbox[f.actor])
  <2>1. f.actor \in Workers
    BY FailureNames DEF TypeInv, TypeOK
  <2>2. Mailboxes(f.actor, b, s)
    BY <1>12, <2>1, OneMailbox DEF StopDone
  <2>3. b.queue = mailbox[f.actor].queue /\ b.running = mailbox[f.actor].running
    BY <2>1, MailKinds DEF Closed, MailboxOf
  <2>4. UNCHANGED <<created, sent, rejected, restarting, lost>> /\ stopping' \subseteq stopping
    BY <1>12 DEF StopDone, stageVars
  <2> HIDE DEF b
  <2>5. Contents(b) = Contents(mailbox[f.actor]) /\ (Distinct(mailbox[f.actor]) => Distinct(b))
    BY <2>3 DEF Contents, Distinct, Queue
  <2> QED BY <2>1, <2>2, <2>4, <2>5, OwnStepOnce
<1>13. CASE SupervisorStops
  <2> DEFINE c == Closed(s)
  <2>1. /\ mailbox'[Supervisor] = c
        /\ \A w \in Workers : mailbox'[w] = mailbox[w]
        /\ UNCHANGED <<created, sent, rejected, restarting, stopping>>
        /\ lost' = lost \cup {FailureOf(i) : i \in Queue(s) \cap Inform}
    BY <1>13, WorkersAssumption DEF SupervisorStops, TypeInv, TypeOK, Actors, stageVars
  <2>2. c.closed /\ c.running = s.running /\ c.queue = s.queue /\ ~s.closed
    BY <1>13, MailKinds DEF SupervisorStops, Closed, MailboxOf
  <2> HIDE DEF c
  <2>3. /\ Contents(c) = Contents(s) /\ Distinct(c)
        /\ \A i : Held(c, i) => i \in s.running /\ i \notin Queue(s)
        /\ \A i \in Contents(s) : Held(s, i)
    BY <1>1, <2>2 DEF Contents, Distinct, Queue, Held
  <2>4. WorkersOnce' /\ Shrinks
    BY <1>1, <2>1, WorkersStay
  <2>5. \A f \in Failures :
          f \in lost' <=> f \in lost \/ InformOf(f) \in Queue(s)
    BY <2>1, InformNames, FailureNames
  <2>6. \A f \in Failures : OneStage(f) => OneStage(f)'
    BY <2>1, <2>3, <2>5 DEF OneStage, Held, Contents
  <2>7. \A f \in Failures : Reported(f)' => Reported(f)
    BY <2>1, <2>3, <2>5 DEF Reported, Contents
  <2>8. SupervisorOnce'
    BY <1>1, <2>1, <2>3, <2>4, <2>6, <2>7 DEF SupervisorOnce, Shrinks
  <2> QED BY <2>4, <2>8 DEF OnceInv
<1>14. CASE UNCHANGED vars
  BY <1>14 DEF vars, stageVars, OnceInv, WorkersOnce, SupervisorOnce, OneStage, Pending,
               Reported, ToCome, Unsent
<1> QED
  BY <1>4, <1>5, <1>6, <1>7, <1>8, <1>10, <1>11, <1>12, <1>13, <1>14, DecisionsOnce
  DEF Next, EventLoop

(***************************************************************************)
(* A failure is acted upon once: each message of a worker is handled once, *)
(* so each failure is reported once, and from then on it is queued, being  *)
(* decided upon, restarted, stopped or lost, and never two of these.       *)
(***************************************************************************)
THEOREM ActedUponOnce == Spec => []AnsweredOnce
<1>1. OnceInv => AnsweredOnce
  <2>1. \A f \in Failures : OneStage(f) => 
          /\ ~(f \in restarting /\ f \in stopping)
          /\ InformOf(f) \in Queue(mailbox[Supervisor]) => f \notin restarting \cup stopping
          /\ f \in lost => f \notin restarting \cup stopping
    BY DEF OneStage, Contents
  <2> QED BY <2>1 DEF OnceInv, SupervisorOnce, AnsweredOnce
<1> QED BY TypeInit, TypeInductive, OnceInit, OnceInductive, <1>1, PTL DEF Spec
-----------------------------------------------------------------------------
(* A state at rest                                                          *)

\* Nobody sleeps over a message, and the supervisor is suspended only while
\* the restart that will resume it is under way.
NeverAsleep == \A a \in Actors : Awake(mailbox[a])
SuspendedByRestart == mailbox[Supervisor].suspended => restarting \cap Inform # {}
RestInv == NeverAsleep /\ SuspendedByRestart

\* The mailbox of one actor changes, or those of a worker and the supervisor.
LEMMA RestOfOne ==
  ASSUME TypeInv, RestInv, NEW a \in Actors, NEW b, mailbox' = [mailbox EXCEPT ![a] = b],
         Awake(b), a = Supervisor /\ b.suspended => restarting' \cap Inform # {},
         a # Supervisor => restarting \cap Inform \subseteq restarting'
  PROVE  RestInv'
<1>1. mailbox'[a] = b /\ \A c \in Actors \ {a} : mailbox'[c] = mailbox[c]
  BY DEF TypeInv, TypeOK
<1>2. NeverAsleep'
  BY <1>1 DEF RestInv, NeverAsleep
<1>3. SuspendedByRestart'
  BY <1>1 DEF RestInv, SuspendedByRestart, Actors
<1> QED BY <1>2, <1>3 DEF RestInv

LEMMA RestOfTwo ==
  ASSUME RestInv, NEW w \in Workers, NEW b, NEW c, Mailboxes(w, b, c), Awake(b), Awake(c),
         c.suspended => restarting' \cap Inform # {}
  PROVE  RestInv'
BY DEF RestInv, NeverAsleep, SuspendedByRestart, Mailboxes, Actors

\* A failure is reported, or cannot be.
LEMMA RestOfReport ==
  ASSUME TypeInv, RestInv, NEW f \in Failures, NEW b, Awake(b),
         Report(f, b) \/ ReportThrows(f, b), UNCHANGED restarting
  PROVE  RestInv'
<1> DEFINE s == mailbox[Supervisor]
<1>1. Awake(s) /\ (s.suspended => restarting' \cap Inform # {})
  BY DEF RestInv, NeverAsleep, SuspendedByRestart, Actors
<1>2. CASE Report(f, b)
  <2>1. /\ Mailboxes(f.actor, b, Sent(s, InformOf(f))) /\ f.actor \in Workers
        /\ InformOf(f) \in MailOf(Supervisor) /\ s \in MailboxOf(MailOf(Supervisor))
    BY <1>2, ReportSends, MailKinds
  <2>2. Awake(Sent(s, InformOf(f))) /\ Sent(s, InformOf(f)).suspended = s.suspended
    BY <1>1, <2>1, StaysAwake, SentAdds
  <2> QED BY <1>1, <2>1, <2>2, RestOfTwo
<1>3. CASE ReportThrows(f, b)
  BY <1>1, <1>3, ReportThrown, RestOfTwo
<1> QED BY <1>2, <1>3

\* A handler that leaves lets its loop go on.
LEMMA ReturnedAwake ==
  ASSUME NEW M, NEW b \in MailboxOf(M), NEW m \in M, Awake(b)
  PROVE  Awake(Returned(b, m))
<1>1. Ended(b, m) \in MailboxOf(M) /\ Awake(Ended(b, m))
  BY EndedRemoves, StaysAwake
<1> QED BY <1>1, StaysAwake DEF Returned

LEMMA RestOfDecisions ==
  ASSUME TypeInv, RestInv, NEW i \in mailbox[Supervisor].running, Decide(i) \/ QueryEnds(i)
  PROVE  RestInv'
<1> DEFINE s == mailbox[Supervisor]
<1>1. /\ s \in MailboxOf(MailOf(Supervisor)) /\ Supervisor \in Actors
      /\ i \in MailOf(Supervisor) /\ MailOf(Supervisor) = Inform \cup Query
      /\ i.actor \in Workers /\ i.actor # Supervisor
  BY MailKinds, WorkersAssumption DEF Actors, Inform, Query, Messages
<1>2. Awake(s) /\ (s.suspended => restarting \cap Inform # {})
  BY <1>1 DEF RestInv, NeverAsleep, SuspendedByRestart
<1>3. Awake(Returned(s, i)) /\ Returned(s, i).suspended = s.suspended
  BY <1>1, <1>2, ReturnedAwake, ReturnedMoves
<1>4. CASE DecideResume(i)
  <2>1. mailbox' = [mailbox EXCEPT ![Supervisor] = Returned(s, i),
                                   ![i.actor] = Resumed(mailbox[i.actor])]
    BY <1>1, <1>4 DEF DecideResume
  <2>2. Mailboxes(i.actor, Resumed(mailbox[i.actor]), Returned(s, i))
    BY <1>1, <2>1, OneMailbox
  <2>3. Awake(Resumed(mailbox[i.actor]))
    BY <1>1, MailKinds, StaysAwake DEF RestInv, NeverAsleep, Actors
  <2> QED BY <1>1, <1>2, <1>3, <1>4, <2>2, <2>3, RestOfTwo DEF DecideResume
<1>5. ASSUME mailbox' = [mailbox EXCEPT ![Supervisor] = Returned(s, i)],
             restarting \subseteq restarting'
      PROVE  RestInv'
  BY <1>1, <1>2, <1>3, <1>5, RestOfOne
<1>6. CASE DecideRestart(i) \/ DecideStop(i) \/ QueryEnds(i)
  BY <1>5, <1>6 DEF DecideRestart, DecideStop, QueryEnds, InformEnds
<1>7. ASSUME NEW b \in MailboxOf(MailOf(Supervisor)), Awake(b), InformFails(i, b), i \in Inform
      PROVE  RestInv'
  <2>1. Awake(Failed(b, i))
    BY <1>1, <1>7, StaysAwake
  <2>2. i \in restarting' \cap Inform
    BY <1>7 DEF InformFails
  <2> QED BY <1>1, <1>7, <2>1, <2>2, RestOfOne DEF InformFails
<1>8. CASE DecideEscalate(i)
  <2>1. i \in Inform /\ QueryOf(i) \in MailOf(Supervisor)
    BY <1>1, <1>8, InformNames DEF DecideEscalate, Deciding
  <2>2. Sent(s, QueryOf(i)) \in MailboxOf(MailOf(Supervisor)) /\ Awake(Sent(s, QueryOf(i)))
    BY <1>1, <1>2, <2>1, SentAdds, StaysAwake
  <2> QED BY <1>7, <1>8, <2>1, <2>2 DEF DecideEscalate
<1>9. CASE DecideForAll(i)
  BY <1>1, <1>2, <1>7, <1>9 DEF DecideForAll, Deciding
<1> QED BY <1>4, <1>6, <1>8, <1>9 DEF Decide

LEMMA RestInit == Init => RestInv
<1> SUFFICES ASSUME Init PROVE RestInv
  OBVIOUS
<1>1. \A a \in Actors : mailbox[a] = EmptyMailbox
  BY DEF Init
<1> QED BY <1>1 DEF RestInv, NeverAsleep, SuspendedByRestart, Awake, isReceivable,
                    EmptyMailbox, Actors

LEMMA RestInductive == TypeInv /\ RestInv /\ [Next]_vars => RestInv'
<1> SUFFICES ASSUME TypeInv, RestInv, [Next]_vars PROVE RestInv'
  OBVIOUS
<1>1. /\ \A a \in Actors : Awake(mailbox[a]) /\ mailbox[a] \in MailboxOf(MailOf(a))
      /\ \A w \in Workers : w \in Actors /\ w # Supervisor
      /\ Supervisor \in Actors
  BY WorkersAssumption DEF RestInv, NeverAsleep, TypeInv, OwnMail, Actors
<1>2. ASSUME NEW w \in Workers, NEW b, Awake(b), mailbox' = [mailbox EXCEPT ![w] = b],
             UNCHANGED restarting
      PROVE  RestInv'
  BY <1>1, <1>2, RestOfOne
<1>3. ASSUME NEW w \in Workers, actorFor(w) PROVE RestInv'
  <2>1. Awake(Sent(mailbox[w], StartOf(w)))
    BY <1>1, StartNames, MailKinds, StaysAwake
  <2> QED BY <1>2, <1>3, <2>1 DEF actorFor
<1>4. ASSUME NEW w \in Workers, BeforeStartFails(w) PROVE RestInv'
  <2> DEFINE f == [StartOf(w) EXCEPT !.by = "beforeStart"]
  <2>1. f \in Failures /\ StartOf(w) \in MailOf(w)
    BY StartNames, MailKinds
  <2>2. Awake(mailbox[w]) /\ Awake(Sent(mailbox[w], StartOf(w)))
    BY <1>1, <2>1, StaysAwake
  <2>3. Report(f, Sent(mailbox[w], StartOf(w))) \/ ReportThrows(f, mailbox[w])
    BY <1>4 DEF BeforeStartFails
  <2> HIDE DEF f
  <2> QED BY <1>4, <2>1, <2>2, <2>3, RestOfReport DEF BeforeStartFails
<1>5. ASSUME NEW m \in rejected, StartRejected(m) PROVE RestInv'
  <2>1. m \in Work /\ m.n = 0
    BY DEF TypeInv, TypeOK
  <2>2. Rejection(m) \in Failures /\ Rejection(m).actor = m.actor /\ m.actor \in Workers
    BY <2>1, RejectionNames, FailureNames
  <2>3. CASE mailbox[m.actor].closed
    BY <1>5, <2>3 DEF StartRejected, RestInv, NeverAsleep, SuspendedByRestart
  <2>4. CASE ~mailbox[m.actor].closed
    <3>1. Report(Rejection(m), mailbox[m.actor]) \/ ReportThrows(Rejection(m), mailbox[m.actor])
      BY <1>5, <2>4 DEF StartRejected, Rejection
    <3> QED BY <1>1, <1>5, <2>2, <3>1, RestOfReport DEF StartRejected
  <2> QED BY <2>3, <2>4
<1>6. ASSUME NEW w \in Workers, SendWork(w) PROVE RestInv'
  <2>1. sent + 1 \in 1..MaxWork
    BY <1>6, BoundsAssumption DEF SendWork, TypeInv, TypeOK
  <2>2. Awake(Sent(mailbox[w], WorkFor(w, sent + 1)))
    BY <1>1, <2>1, WorkNames, MailKinds, StaysAwake
  <2> QED BY <1>2, <1>6, <2>2 DEF SendWork
<1>7. ASSUME NEW w \in Workers, NEW m \in mailbox[w].running,
             WorkEnds(m) \/ WorkFails(m) \/ WorkFailsUnsupervised(m)
      PROVE  RestInv'
  <2>1. /\ m.actor = w /\ m \in Failures /\ m \in MailOf(w)
        /\ mailbox[w] \in MailboxOf(MailOf(w)) /\ Awake(mailbox[w])
    BY <1>1, MailKinds
  <2>2. CASE WorkEnds(m)
    <3>1. Awake(Returned(mailbox[w], m))
      BY <2>1, ReturnedAwake
    <3> QED BY <1>2, <2>1, <2>2, <3>1 DEF WorkEnds
  <2>3. CASE WorkFails(m)
    <3>1. Awake(Failed(mailbox[w], m))
      BY <2>1, StaysAwake
    <3> QED BY <2>1, <2>3, <3>1, RestOfReport DEF WorkFails
  <2>4. CASE WorkFailsUnsupervised(m)
    <3> DEFINE b == [mailbox[w] EXCEPT !.suspended = TRUE, !.running = @ \ {m}]
    <3>1. b.suspended = TRUE
      BY <2>1 DEF MailboxOf
    <3>2. Awake(b)
      BY <3>1 DEF Awake, isReceivable
    <3>3. ReportThrows(m, b)
      BY <2>1, <2>4 DEF WorkFailsUnsupervised
    <3> HIDE DEF b
    <3> QED BY <2>1, <2>4, <3>2, <3>3, RestOfReport DEF WorkFailsUnsupervised
  <2> QED BY <1>7, <2>2, <2>3, <2>4
<1>8. ASSUME NEW a \in Actors, NEW m \in mailbox[a].settling, Continue(a, m) PROVE RestInv'
  <2>1. Awake(Continued(mailbox[a], m)) /\ Continued(mailbox[a], m).suspended = mailbox[a].suspended
    BY <1>1, StaysAwake, ContinuedMoves
  <2> QED BY <1>8, <2>1, RestOfOne DEF Continue, RestInv, SuspendedByRestart
<1>9. ASSUME NEW f \in restarting, RestartDone(f) PROVE RestInv'
  <2>1. CASE f \in Failures
    <3>1. Target(f) \in Workers /\ f \notin Inform
      BY <2>1, FailureNames, KindsApart DEF Target, Failures
    <3>2. Awake(Resumed(mailbox[Target(f)]))
      BY <1>1, <3>1, StaysAwake
    <3> QED BY <1>1, <1>9, <3>1, <3>2, RestOfOne DEF RestartDone
  <2>2. CASE f \in Inform
    <3>1. Target(f) = Supervisor
      BY <2>2 DEF Target, Inform
    <3>2. Awake(Resumed(mailbox[Supervisor])) /\ Resumed(mailbox[Supervisor]).suspended = FALSE
      BY <1>1, StaysAwake, ResumedMoves
    <3> QED BY <1>1, <1>9, <3>1, <3>2, RestOfOne DEF RestartDone
  <2> QED BY <2>1, <2>2 DEF TypeInv
<1>10. ASSUME NEW f \in stopping, StopDone(f) PROVE RestInv'
  <2>1. f.actor \in Workers
    BY FailureNames DEF TypeInv, TypeOK
  <2>2. Awake(Closed(mailbox[f.actor]))
    BY <1>1, <2>1, StaysAwake
  <2> QED BY <1>2, <1>10, <2>1, <2>2 DEF StopDone
<1>11. CASE SupervisorStops
  <2>1. /\ Awake(Closed(mailbox[Supervisor]))
        /\ Closed(mailbox[Supervisor]).suspended = mailbox[Supervisor].suspended
    BY <1>1, StaysAwake DEF Closed, MailboxOf
  <2> QED BY <1>1, <1>11, <2>1, RestOfOne DEF SupervisorStops, RestInv, SuspendedByRestart
<1>12. CASE UNCHANGED vars
  BY <1>12 DEF vars, RestInv, NeverAsleep, SuspendedByRestart
<1> QED
  BY <1>3, <1>4, <1>5, <1>6, <1>7, <1>8, <1>9, <1>10, <1>11, <1>12, RestOfDecisions
  DEF Next, EventLoop

\* No action of EventLoop is possible (where there is a directive to decide).
AtRest ==
  /\ rejected = {}
  /\ restarting = {} /\ stopping = {}
  /\ mailbox[Supervisor].running = {}
  /\ \A a \in Actors : mailbox[a].settling = {}

AllAnswered ==
  /\ Queue(mailbox[Supervisor]) # {} => mailbox[Supervisor].closed
  /\ \A w \in Workers :
       /\ mailbox[w].suspended /\ ~mailbox[w].closed => \E f \in lost : f.actor = w
       /\ isReceivable(mailbox[w]) => mailbox[w].running # {}

EndsAtRest == AtRest => AllAnswered

(***************************************************************************)
(* Supervision comes to an end only when it has answered everything: when  *)
(* the event loop has nothing left to do, no failure waits for an open     *)
(* supervisor, an open worker is suspended only by a failure that was      *)
(* lost, and one that has messages and is not suspended is at work on one. *)
(* These are the safety halves of InformsHandled and ReturnsUnlessLost.    *)
(***************************************************************************)
THEOREM SupervisionEndsAtRest == Spec => []EndsAtRest
<1>1. ASSUME TypeInv, RestInv, NoFailureForgotten PROVE EndsAtRest
  <2> SUFFICES ASSUME AtRest PROVE AllAnswered
    BY DEF EndsAtRest
  <2> DEFINE s == mailbox[Supervisor]
  <2>1. \A a \in Actors : isReceivable(mailbox[a]) => mailbox[a].running # {}
    BY <1>1 DEF RestInv, NeverAsleep, Awake, AtRest
  <2>2. ASSUME Queue(s) # {} PROVE s.closed
    <3>1. s.queue # << >>
      BY <2>2 DEF Queue
    <3>2. ~s.suspended
      BY <1>1 DEF RestInv, SuspendedByRestart, AtRest
    <3> QED BY <2>1, <3>1, <3>2 DEF isReceivable, AtRest, Actors
  <2>3. ASSUME NEW w \in Workers, mailbox[w].suspended, ~mailbox[w].closed
        PROVE  \E f \in lost : f.actor = w
    <3>1. PICK f \in Failures : f.actor = w /\ (Attended(f) \/ f \in lost)
      BY <1>1, <2>3 DEF NoFailureForgotten
    <3>2. ~Attended(f)
      BY <2>2 DEF Attended, Deciding, AtRest
    <3> QED BY <3>1, <3>2
  <2> QED BY <2>1, <2>2, <2>3 DEF AllAnswered, Actors
<1> QED
  BY TypeInit, TypeInductive, RestInit, RestInductive, FailuresAttended, <1>1, PTL DEF Spec
=============================================================================
