\* A child fails before its parent stops it, and is stopped by its supervisor.
CONSTANTS
  a1 = a1
  a2 = a2
  a3 = a3
  r1 = r1
  r2 = r2
  privateRoot = privateRoot
  publicRoot = publicRoot
  PrivateRoot = privateRoot
  PublicRoot = publicRoot
  None = None
  Actors = {a1, a2}
  Requests = {r1}
  StageSupervisors = {}
  Fallible = {a2}
  Timed = {}
  LateChildren = FALSE
SPECIFICATION FairSpec
PROPERTY StopsAreAnswered
CHECK_DEADLOCK FALSE
