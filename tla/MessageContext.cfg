\* A client's actor with a collaborator, two contexts and four messages.
CONSTANTS
  teller = teller
  bank = bank
  c1 = c1
  c2 = c2
  Empty = Empty
  Actors = {teller, bank}
  Served = {teller}
  Failing = {teller}
  Collaborators <- MCCollaborators
  Contexts = {c1, c2}
  MaxSends = 4
SYMMETRY ContextSymmetry
SPECIFICATION Spec
INVARIANTS TypeOK CurrentIsRunning CallsInContext
PROPERTY ExplainedInContext
CHECK_DEADLOCK FALSE
