\* A callback that cancels its own task on the first call.
CONSTANTS
  t1 = t1
  t2 = t2
  t3 = t3
  Idle = Idle
  Tasks = {t1}
  CallbacksCall = TRUE
SPECIFICATION Spec
INVARIANT CancelledIsCleared
CHECK_DEADLOCK FALSE
