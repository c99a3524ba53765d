----------------------------- MODULE Scheduler -----------------------------
(***************************************************************************)
(* DefaultScheduler over the timers of JavaScript.  A timer callback runs  *)
(* to its end before anything else does, so what happens while `current'   *)
(* is a task is what the callback of that task itself does: it may cancel  *)
(* tasks, its own among them, schedule others and close the scheduler.     *)
(***************************************************************************)
EXTENDS Naturals

CONSTANTS
  Tasks,          \* the tasks that may be scheduled
  Idle,           \* no callback is running
  CallbacksCall   \* whether callbacks may call the scheduler

ASSUME TasksAssumption == Idle \notin Tasks
ASSUME CallbacksAssumption == CallbacksCall \in BOOLEAN

VARIABLES
  closed,      \* _closed
  tasks,       \* _tasks, the tasks that close() cancels
  cancelled,   \* tasks whose _cancelled is set
  timeouts,    \* tasks with a pending setTimeout
  intervals,   \* tasks with a live setInterval
  once,        \* tasks made by scheduleOnce()
  scheduled,   \* history: tasks that were made
  current,     \* the task whose intervalSignal() runs, or Idle
  first        \* current was called by the timeout of schedule()

vars == <<closed, tasks, cancelled, timeouts, intervals, once, scheduled, current, first>>

TypeOK ==
  /\ closed \in BOOLEAN
  /\ scheduled \subseteq Tasks
  /\ tasks \subseteq scheduled
  /\ cancelled \subseteq scheduled
  /\ timeouts \subseteq scheduled
  /\ intervals \subseteq scheduled \ once
  /\ once \subseteq scheduled
  /\ current \in scheduled \cup {Idle}
  /\ first \in BOOLEAN

Init ==
  /\ closed = FALSE
  /\ tasks = {}
  /\ cancelled = {}
  /\ timeouts = {}
  /\ intervals = {}
  /\ once = {}
  /\ scheduled = {}
  /\ current = Idle
  /\ first = FALSE

\* A call of the scheduler, by a callback or between two of them.
MayCall == current = Idle \/ CallbacksCall

New(t) ==
  /\ MayCall
  /\ ~closed
  /\ t \notin scheduled
  /\ scheduled' = scheduled \cup {t}
  /\ tasks' = tasks \cup {t}
  /\ UNCHANGED <<closed, cancelled, current, first>>

scheduleDelayed(t) ==
  /\ New(t)
  /\ timeouts' = timeouts \cup {t}
  /\ UNCHANGED <<intervals, once>>

scheduleAtOnce(t) ==
  /\ New(t)
  /\ intervals' = intervals \cup {t}
  /\ UNCHANGED <<timeouts, once>>

scheduleOnce(t) ==
  /\ New(t)
  /\ timeouts' = timeouts \cup {t}
  /\ once' = once \cup {t}
  /\ UNCHANGED intervals

\* ScheduledTask.cancel() of each task in S that is not cancelled.
CancelAll(S) ==
  /\ cancelled' = cancelled \cup S
  /\ timeouts' = timeouts \ (S \ cancelled)
  /\ intervals' = intervals \ (S \ cancelled)

\* Mutant of cancel: clears the timeout and not the interval.
cancelTimeout(t) ==
  /\ MayCall
  /\ t \in scheduled \ cancelled
  /\ cancelled' = cancelled \cup {t}
  /\ timeouts' = timeouts \ {t}
  /\ UNCHANGED <<closed, tasks, intervals, once, scheduled, current, first>>

cancel(t) ==
  /\ MayCall
  /\ t \in scheduled \ cancelled
  /\ CancelAll({t})
  /\ UNCHANGED <<closed, tasks, once, scheduled, current, first>>

close ==
  /\ MayCall
  /\ ~closed
  /\ closed' = TRUE
  /\ CancelAll(tasks)
  /\ tasks' = {}
  /\ UNCHANGED <<once, scheduled, current, first>>

-----------------------------------------------------------------------------
(* The timers *)

MayRun(t) == t \notin cancelled /\ ~closed

\* Mutant of TimeoutFires: the task leaves _tasks, repeating or not.
TimeoutFiresAndForgets(t) ==
  /\ current = Idle
  /\ t \in timeouts
  /\ timeouts' = timeouts \ {t}
  /\ IF MayRun(t)
     THEN current' = t /\ first' = (t \notin once) /\ tasks' = tasks \ {t}
     ELSE UNCHANGED <<current, first, tasks>>
  /\ UNCHANGED <<closed, cancelled, intervals, once, scheduled>>

TimeoutFires(t) ==
  /\ current = Idle
  /\ t \in timeouts
  /\ timeouts' = timeouts \ {t}
  /\ IF MayRun(t)
     THEN current' = t /\ first' = (t \notin once)
     ELSE UNCHANGED <<current, first>>
  /\ UNCHANGED <<closed, tasks, cancelled, intervals, once, scheduled>>

\* Mutant of IntervalFires: execute() does not look at the task.
IntervalFiresAnyway(t) ==
  /\ current = Idle
  /\ t \in intervals
  /\ current' = t
  /\ first' = FALSE
  /\ UNCHANGED <<closed, tasks, cancelled, timeouts, intervals, once, scheduled>>

IntervalFires(t) ==
  /\ current = Idle
  /\ t \in intervals
  /\ IF MayRun(t)
     THEN current' = t /\ first' = FALSE
     ELSE UNCHANGED <<current, first>>
  /\ UNCHANGED <<closed, tasks, cancelled, timeouts, intervals, once, scheduled>>

\* Mutant of CallbackReturns: no interval follows the first call.
CallbackReturnsForGood ==
  /\ current # Idle
  /\ tasks' = IF current \in once THEN tasks \ {current} ELSE tasks
  /\ current' = Idle
  /\ first' = FALSE
  /\ UNCHANGED <<closed, cancelled, timeouts, intervals, once, scheduled>>

\* Mutant of CallbackReturns: every first call is followed by an interval.
CallbackReturnsForever ==
  /\ current # Idle
  /\ intervals' = intervals \cup {current}
  /\ tasks' = IF current \in once THEN tasks \ {current} ELSE tasks
  /\ current' = Idle
  /\ first' = FALSE
  /\ UNCHANGED <<closed, cancelled, timeouts, once, scheduled>>

\* intervalSignal() returns, or throws, which is logged.  The timeout of
\* schedule() then sets the interval, that of scheduleOnce() drops the task.
CallbackReturns ==
  /\ current # Idle
  /\ intervals' = IF first THEN intervals \cup {current} ELSE intervals
  /\ tasks' = IF current \in once THEN tasks \ {current} ELSE tasks
  /\ current' = Idle
  /\ first' = FALSE
  /\ UNCHANGED <<closed, cancelled, timeouts, once, scheduled>>

Call(t) == scheduleDelayed(t) \/ scheduleAtOnce(t) \/ scheduleOnce(t) \/ cancel(t)

Next ==
  \/ \E t \in Tasks : Call(t) \/ TimeoutFires(t) \/ IntervalFires(t)
  \/ close
  \/ CallbackReturns

Spec == Init /\ [][Next]_vars

(***************************************************************************)
(* Fairness: timers that are pending expire, and callbacks return.  Strong *)
(* for the timers, since one only fires when no callback runs.             *)
(***************************************************************************)
FairSpec ==
  /\ Spec
  /\ \A t \in Tasks : SF_vars(TimeoutFires(t)) /\ SF_vars(IntervalFires(t))
  /\ WF_vars(CallbackReturns)

-----------------------------------------------------------------------------
(***************************************************************************)
(* No task is called after it was cancelled or the scheduler was closed,   *)
(* though a timer of it may fire.                                          *)
(***************************************************************************)
SilentOnceCancelled ==
  [][\A t \in Tasks : current # t /\ current' = t => t \notin cancelled /\ ~closed]_vars

(***************************************************************************)
(* close() reaches every task that could still be called: a task is        *)
(* forgotten only when its timers are gone.                                *)
(***************************************************************************)
CloseReachesAll ==
  /\ \A t \in timeouts \cup intervals : t \in tasks \/ t \in cancelled
  /\ closed => \A t \in scheduled : t \in cancelled \/ t \in once

(***************************************************************************)
(* Scheduler.ts, "Cancels the scheduled task by clearing timeout/interval" *)
(* and "Closes the scheduler and cancels all pending tasks": a cancelled   *)
(* task has no timer left.                                                 *)
(***************************************************************************)
CancelledIsCleared ==
  \A t \in cancelled : t \notin timeouts \cup intervals

(***************************************************************************)
(* A task that waits is called unless it is cancelled first, and one that  *)
(* repeats is called again and again until it is, whatever its callback    *)
(* and those of the other tasks do.                                        *)
(***************************************************************************)
Due(t) == current = Idle /\ t \in timeouts \cup (scheduled \ once)
EveryTaskIsServed ==
  \A t \in Tasks : Due(t) ~> (current = t \/ t \in cancelled)
=============================================================================
