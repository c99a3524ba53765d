----------------------------- MODULE Directory -----------------------------
(***************************************************************************)
(* The Directory of a stage: actors sharded over buckets by the hash of    *)
(* their address, and an index from type names to actors by which          *)
(* supervisors and root actors are looked up.  LocalStage.actorFor sets an *)
(* actor once, under a fresh address; LifeCycle.stop removes it, and does  *)
(* so again when stops of the same actor overlap.                          *)
(*                                                                         *)
(* A bucket maps address strings to actors; as an actor has one address,   *)
(* the bucket is the set of its actors and an actor stands for its         *)
(* address.                                                                *)
(***************************************************************************)
EXTENDS Integers, FiniteSets

CONSTANTS
  Actors,     \* the actors that may ever be created
  TypeOf,     \* the type name of each
  HashOf,     \* the hash code of the address of each, which may be negative
  Buckets,    \* the number of buckets
  Undefined   \* what a lookup that fails returns

Types == {TypeOf[a] : a \in Actors}
Indices == 0..(Buckets - 1)

ASSUME ActorsAssumption ==
  /\ IsFiniteSet(Actors)
  /\ TypeOf = [a \in Actors |-> TypeOf[a]]
  /\ HashOf \in [Actors -> Int]
  /\ Undefined \notin Actors
ASSUME BucketsAssumption == Buckets \in Nat \ {0}

VARIABLES
  buckets,    \* the actors in each bucket
  typeIndex,  \* the actor indexed under each type
  created     \* history: actors that were set

vars == <<buckets, typeIndex, created>>

bucketFor(a) == (IF HashOf[a] < 0 THEN -HashOf[a] ELSE HashOf[a]) % Buckets

get(a) == IF a \in buckets[bucketFor(a)] THEN a ELSE Undefined
findByType(t) == typeIndex[t]
all == UNION {buckets[i] : i \in Indices}

\* The sizes of the buckets, added up.
size == Cardinality({e \in Indices \X Actors : e[2] \in buckets[e[1]]})

TypeOK ==
  /\ buckets \in [Indices -> SUBSET Actors]
  /\ typeIndex \in [Types -> Actors \cup {Undefined}]
  /\ created \subseteq Actors

Init ==
  /\ buckets = [i \in Indices |-> {}]
  /\ typeIndex = [t \in Types |-> Undefined]
  /\ created = {}

\* Mutant of Set: indexes the type name in place of the actor.
SetTypeName(a) ==
  /\ a \notin created
  /\ created' = created \cup {a}
  /\ buckets' = [buckets EXCEPT ![bucketFor(a)] = @ \cup {a}]
  /\ typeIndex' = [typeIndex EXCEPT ![TypeOf[a]] = TypeOf[a]]

\* Mutant of Set: forgets that a hash code may be negative.
SetSigned(a) ==
  /\ a \notin created
  /\ created' = created \cup {a}
  /\ buckets' = [buckets EXCEPT ![HashOf[a] % Buckets] = @ \cup {a}]
  /\ typeIndex' = [typeIndex EXCEPT ![TypeOf[a]] = a]

Set(a) ==
  /\ a \notin created
  /\ created' = created \cup {a}
  /\ buckets' = [buckets EXCEPT ![bucketFor(a)] = @ \cup {a}]
  /\ typeIndex' = [typeIndex EXCEPT ![TypeOf[a]] = a]

\* Mutant of Remove: the type index keeps the actor.
RemoveUnindexed(a) ==
  /\ a \in created
  /\ buckets' = [buckets EXCEPT ![bucketFor(a)] = @ \ {a}]
  /\ UNCHANGED <<typeIndex, created>>

\* Mutant of Remove: does not look whether the actor is still there.
RemoveUnchecked(a) ==
  /\ a \in created
  /\ buckets' = [buckets EXCEPT ![bucketFor(a)] = @ \ {a}]
  /\ typeIndex' = [typeIndex EXCEPT ![TypeOf[a]] = Undefined]
  /\ UNCHANGED created

Remove(a) ==
  /\ a \in created
  /\ typeIndex' = IF get(a) = Undefined
                  THEN typeIndex
                  ELSE [typeIndex EXCEPT ![TypeOf[a]] = Undefined]
  /\ buckets' = [buckets EXCEPT ![bucketFor(a)] = @ \ {a}]
  /\ UNCHANGED created

Clear ==
  /\ buckets' = [i \in Indices |-> {}]
  /\ typeIndex' = [t \in Types |-> Undefined]
  /\ UNCHANGED created

Next == (\E a \in Actors : Set(a) \/ Remove(a)) \/ Clear

Spec == Init /\ [][Next]_vars

-----------------------------------------------------------------------------
(***************************************************************************)
(* The three ways to enumerate the directory agree: what all() lists is    *)
(* what get() finds, and size() counts each actor once, whatever the hash  *)
(* codes are.                                                              *)
(***************************************************************************)
FoundWhereListed ==
  /\ \A a \in Actors : a \in all <=> get(a) = a
  /\ size = Cardinality(all)

(***************************************************************************)
(* findByType() never returns an actor that is no longer registered, nor   *)
(* one of another type: no supervisor is resolved to an actor that stopped *)
(* before the lookup.                                                      *)
(***************************************************************************)
IndexIsLive ==
  \A t \in Types : findByType(t) # Undefined =>
    findByType(t) \in all /\ TypeOf[findByType(t)] = t

(***************************************************************************)
(* A type stays findable until an actor of that type that is registered    *)
(* leaves: a second removal of an actor that left before, as when two      *)
(* stops of it overlap, does not take its successor out of the index.      *)
(***************************************************************************)
IndexLostByRemoval ==
  [][\A t \in Types : findByType(t) # Undefined /\ typeIndex'[t] = Undefined =>
       \E a \in all : TypeOf[a] = t /\ a \notin all']_vars

=============================================================================
