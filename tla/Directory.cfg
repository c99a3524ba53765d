\* Two types, three buckets, one of them shared and one hash code negative.
CONSTANTS
  a1 = a1
  a2 = a2
  a3 = a3
  a4 = a4
  supervisor = supervisor
  account = account
  Undefined = Undefined
  Actors = {a1, a2, a3, a4}
  TypeOf <- MCTypeOf
  HashOf <- MCHashOf
  Buckets = 3
SPECIFICATION Spec
INVARIANTS TypeOK FoundWhereListed IndexIsLive
PROPERTY IndexLostByRemoval
