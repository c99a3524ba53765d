\* Callbacks that call the scheduler themselves, and fair timers.
CONSTANTS
  t1 = t1
  t2 = t2
  t3 = t3
  Idle = Idle
  Tasks = {t1, t2, t3}
  CallbacksCall = TRUE
SPECIFICATION FairSpec
INVARIANTS TypeOK CloseReachesAll
PROPERTIES SilentOnceCancelled EveryTaskIsServed
CHECK_DEADLOCK FALSE
