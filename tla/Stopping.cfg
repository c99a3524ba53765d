\* A failing tree of two actors, a timeout and children made at any time, while close() runs.
CONSTANTS
  a1 = a1
  a2 = a2
  a3 = a3
  r1 = r1
  r2 = r2
  privateRoot = privateRoot
  publicRoot = publicRoot
  PrivateRoot = privateRoot
  PublicRoot = publicRoot
  None = None
  Actors = {a1, a2}
  Requests = {r1}
  StageSupervisors = {a2}
  Fallible = {a1, a2}
  Timed = {r1}
  LateChildren = TRUE
SPECIFICATION FairSpec
INVARIANTS TypeOK AnsweredIsStopped ChildrenStopFirst StoppedIsDetached RootsStopLast
  SurvivorsAreLate
PROPERTIES AnsweredUnlessStranded ClosesUnlessStranded
CHECK_DEADLOCK FALSE
