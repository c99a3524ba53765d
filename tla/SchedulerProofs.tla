-------------------------- MODULE SchedulerProofs --------------------------
(***************************************************************************)
(* Theorems about Scheduler, for every set of tasks.                       *)
(***************************************************************************)
EXTENDS Scheduler, TLAPS

\* A repeating task stays in _tasks until it is cancelled, and one that waits
\* for its timeout is there; a task that was called has no timeout left.
Tracked ==
  /\ \A t \in scheduled \ once : t \in tasks \cup cancelled
  /\ timeouts \subseteq tasks \cup cancelled
  /\ closed => \A t \in scheduled \ once : t \in cancelled
  /\ timeouts \cap (intervals \cup {current}) = {}
  /\ first => current # Idle /\ current \notin once

SchedulerInv == TypeOK /\ Tracked

LEMMA InvInductive ==
  /\ Init => SchedulerInv
  /\ SchedulerInv /\ [Next]_vars => SchedulerInv'
<1> USE TasksAssumption DEF SchedulerInv, TypeOK, Tracked
<1>1. Init => SchedulerInv
  BY DEF Init
<1>2. ASSUME SchedulerInv, [Next]_vars
      PROVE  SchedulerInv'
  <2> USE <1>2
  <2>1. ASSUME NEW t \in Tasks, scheduleDelayed(t) PROVE SchedulerInv'
    BY <2>1 DEF scheduleDelayed, New
  <2>2. ASSUME NEW t \in Tasks, scheduleAtOnce(t) PROVE SchedulerInv'
    BY <2>2 DEF scheduleAtOnce, New
  <2>3. ASSUME NEW t \in Tasks, scheduleOnce(t) PROVE SchedulerInv'
    BY <2>3 DEF scheduleOnce, New
  <2>4. ASSUME NEW t \in Tasks, cancel(t) PROVE SchedulerInv'
    BY <2>4 DEF cancel, CancelAll
  <2>5. CASE close
    BY <2>5 DEF close, CancelAll
  <2>6. ASSUME NEW t \in Tasks, TimeoutFires(t) PROVE SchedulerInv'
    BY <2>6 DEF TimeoutFires
  <2>7. ASSUME NEW t \in Tasks, IntervalFires(t) PROVE SchedulerInv'
    BY <2>7 DEF IntervalFires
  <2>8. CASE CallbackReturns
    BY <2>8 DEF CallbackReturns
  <2>9. CASE UNCHANGED vars
    BY <2>9 DEF vars
  <2> QED BY <2>1, <2>2, <2>3, <2>4, <2>5, <2>6, <2>7, <2>8, <2>9 DEF Next, Call
<1> QED BY <1>1, <1>2

\* The type invariant of Scheduler.
THEOREM TypeCorrect == Spec => []TypeOK
<1>1. SchedulerInv => TypeOK
  BY DEF SchedulerInv
<1> QED BY <1>1, InvInductive, PTL DEF Spec

\* close() finds in _tasks every task that could still be called.
THEOREM CloseIsComplete == Spec => []CloseReachesAll
<1>1. SchedulerInv => CloseReachesAll
  <2> SUFFICES ASSUME SchedulerInv
               PROVE  CloseReachesAll
    OBVIOUS
  <2>1. \A t \in intervals : t \in tasks \/ t \in cancelled
    BY DEF SchedulerInv, Tracked, TypeOK
  <2> QED BY <2>1 DEF SchedulerInv, Tracked, CloseReachesAll
<1> QED BY <1>1, InvInductive, PTL DEF Spec

\* No callback starts for a cancelled task or a closed scheduler.
THEOREM CancelledStaySilent == Spec => SilentOnceCancelled
<1> DEFINE Silent == \A t \in Tasks : current # t /\ current' = t => t \notin cancelled /\ ~closed
<1>1. [Next]_vars => [Silent]_vars
  <2> SUFFICES ASSUME Next, NEW t \in Tasks, current # t, current' = t
               PROVE  t \notin cancelled /\ ~closed
    OBVIOUS
  <2> USE TasksAssumption
  <2>1. ASSUME NEW u \in Tasks, TimeoutFires(u) PROVE t \notin cancelled /\ ~closed
    BY <2>1 DEF TimeoutFires, MayRun
  <2>2. ASSUME NEW u \in Tasks, IntervalFires(u) PROVE t \notin cancelled /\ ~closed
    BY <2>2 DEF IntervalFires, MayRun
  <2>3. ASSUME NEW u \in Tasks, Call(u) PROVE FALSE
    BY <2>3 DEF Call, scheduleDelayed, scheduleAtOnce, scheduleOnce, New, cancel
  <2>4. ~close /\ ~CallbackReturns
    BY DEF close, CallbackReturns
  <2> QED BY <2>1, <2>2, <2>3, <2>4 DEF Next
<1> QED BY <1>1, PTL DEF Spec, SilentOnceCancelled

-----------------------------------------------------------------------------
\* A callback that leaves the scheduler alone is not cancelled while it runs.
Uncancelled == CancelledIsCleared /\ current \notin cancelled

LEMMA UncancelledInductive ==
  ASSUME CallbacksCall = FALSE
  PROVE  /\ Init => Uncancelled
         /\ SchedulerInv /\ Uncancelled /\ [Next]_vars => Uncancelled'
<1> USE TasksAssumption DEF Uncancelled, CancelledIsCleared
<1>1. Init => Uncancelled
  BY DEF Init
<1>2. ASSUME SchedulerInv, Uncancelled, [Next]_vars
      PROVE  Uncancelled'
  <2> USE <1>2 DEF SchedulerInv, TypeOK
  <2>1. ASSUME NEW t \in Tasks, scheduleDelayed(t) PROVE Uncancelled'
    BY <2>1 DEF scheduleDelayed, New
  <2>2. ASSUME NEW t \in Tasks, scheduleAtOnce(t) PROVE Uncancelled'
    BY <2>2 DEF scheduleAtOnce, New
  <2>3. ASSUME NEW t \in Tasks, scheduleOnce(t) PROVE Uncancelled'
    BY <2>3 DEF scheduleOnce, New
  <2>4. ASSUME NEW t \in Tasks, cancel(t) PROVE Uncancelled'
    BY <2>4 DEF cancel, CancelAll, MayCall
  <2>5. CASE close
    BY <2>5 DEF close, CancelAll, MayCall
  <2>6. ASSUME NEW t \in Tasks, TimeoutFires(t) PROVE Uncancelled'
    BY <2>6 DEF TimeoutFires, MayRun
  <2>7. ASSUME NEW t \in Tasks, IntervalFires(t) PROVE Uncancelled'
    BY <2>7 DEF IntervalFires, MayRun
  <2>8. CASE CallbackReturns
    BY <2>8 DEF CallbackReturns
  <2>9. CASE UNCHANGED vars
    BY <2>9 DEF vars
  <2> QED BY <2>1, <2>2, <2>3, <2>4, <2>5, <2>6, <2>7, <2>8, <2>9 DEF Next, Call
<1> QED BY <1>1, <1>2

\* When callbacks leave the scheduler alone, cancelling a task clears its
\* timers: the interval that outlives a cancelled task needs a callback that
\* cancels it.
THEOREM CancellingClears == CallbacksCall = FALSE /\ Spec => []CancelledIsCleared
<1> SUFFICES ASSUME CallbacksCall = FALSE
             PROVE  Spec => []CancelledIsCleared
  OBVIOUS
<1>1. Uncancelled => CancelledIsCleared
  BY DEF Uncancelled
<1>2. Init => Uncancelled
  BY UncancelledInductive
<1>3. SchedulerInv /\ Uncancelled /\ [Next]_vars => Uncancelled'
  BY UncancelledInductive
<1> QED BY <1>1, <1>2, <1>3, InvInductive, PTL DEF Spec
=============================================================================
