-------------------------- MODULE DirectoryProofs --------------------------
(***************************************************************************)
(* Theorems about Directory, for every set of actors, assignment of types  *)
(* and hash codes, and number of buckets.                                  *)
(***************************************************************************)
EXTENDS Directory, FiniteSetTheorems, TLAPS

\* Every actor is in the bucket its hash code selects, and there alone.
InOwnBucket == \A i \in Indices, a \in Actors : a \in buckets[i] => i = bucketFor(a)

DirectoryInv == TypeOK /\ InOwnBucket /\ IndexIsLive

LEMMA BucketInRange ==
  ASSUME NEW a \in Actors
  PROVE  bucketFor(a) \in Indices
<1>1. /\ HashOf[a] \in Int
      /\ Buckets \in Nat \ {0}
  BY ActorsAssumption, BucketsAssumption
<1>2. (IF HashOf[a] < 0 THEN -HashOf[a] ELSE HashOf[a]) \in Nat
  BY <1>1
<1>3. ASSUME NEW n \in Nat, NEW b \in Nat \ {0}
      PROVE  n % b \in 0..(b - 1)
  BY <1>3
<1> QED BY <1>1, <1>2, <1>3 DEF bucketFor, Indices

\* In terms of the buckets, an actor is listed where it is looked for.
LEMMA ListedInOwnBucket ==
  ASSUME TypeOK, InOwnBucket, NEW a \in Actors
  PROVE  a \in all <=> a \in buckets[bucketFor(a)]
BY BucketInRange DEF TypeOK, InOwnBucket, all

LEMMA TypeOfActor ==
  ASSUME NEW a \in Actors
  PROVE  TypeOf[a] \in Types
BY DEF Types

LEMMA SetInv ==
  ASSUME DirectoryInv, NEW a \in Actors, Set(a)
  PROVE  DirectoryInv'
<1> USE DEF DirectoryInv
<1>1. TypeOK'
  BY BucketInRange, TypeOfActor DEF TypeOK, Set
<1>2. InOwnBucket'
  BY BucketInRange DEF TypeOK, InOwnBucket, Set, bucketFor
<1>3. all' = all \cup {a}
  BY BucketInRange DEF TypeOK, all, Set
<1>4. IndexIsLive'
  <2> SUFFICES ASSUME NEW t \in Types, typeIndex'[t] # Undefined
               PROVE  typeIndex'[t] \in all' /\ TypeOf[typeIndex'[t]] = t
    BY DEF IndexIsLive, findByType
  <2>1. CASE t = TypeOf[a]
    BY <2>1, <1>3 DEF Set, TypeOK
  <2>2. CASE t # TypeOf[a]
    BY <2>2, <1>3 DEF Set, TypeOK, IndexIsLive, findByType
  <2> QED BY <2>1, <2>2
<1> QED BY <1>1, <1>2, <1>4

LEMMA RemoveInv ==
  ASSUME DirectoryInv, NEW a \in Actors, Remove(a)
  PROVE  DirectoryInv'
<1> USE DEF DirectoryInv
<1>1. TypeOK'
  BY BucketInRange, TypeOfActor DEF TypeOK, Remove
<1>2. InOwnBucket'
  BY BucketInRange DEF TypeOK, InOwnBucket, Remove, bucketFor
<1>3. \A b \in Actors : b \in all /\ b # a => b \in all'
  BY BucketInRange DEF TypeOK, all, Remove
<1>4. IndexIsLive'
  <2> SUFFICES ASSUME NEW t \in Types, typeIndex'[t] # Undefined
               PROVE  typeIndex'[t] \in all' /\ TypeOf[typeIndex'[t]] = t
    BY DEF IndexIsLive, findByType
  <2>1. typeIndex'[t] = typeIndex[t]
    BY DEF Remove, TypeOK
  <2>2. typeIndex[t] \in all /\ TypeOf[typeIndex[t]] = t /\ typeIndex[t] \in Actors
    BY <2>1 DEF IndexIsLive, findByType, TypeOK
  <2>3. typeIndex[t] # a
    <3> SUFFICES ASSUME typeIndex[t] = a PROVE FALSE
      OBVIOUS
    <3>1. get(a) = a /\ a # Undefined
      BY <2>2, ListedInOwnBucket, ActorsAssumption DEF get
    <3>2. typeIndex'[t] = Undefined
      BY <3>1, <2>2 DEF Remove, TypeOK
    <3> QED BY <3>2
  <2> QED BY <2>1, <2>2, <2>3, <1>3
<1> QED BY <1>1, <1>2, <1>4

\* The invariant holds at the start and is kept by every operation.
THEOREM Invariance == Spec => []DirectoryInv
<1>1. Init => DirectoryInv
  BY DEF Init, DirectoryInv, TypeOK, InOwnBucket, IndexIsLive, findByType, Types
<1>2. DirectoryInv /\ [Next]_vars => DirectoryInv'
  <2> SUFFICES ASSUME DirectoryInv, [Next]_vars
               PROVE  DirectoryInv'
    OBVIOUS
  <2>1. ASSUME NEW a \in Actors, Set(a) PROVE DirectoryInv'
    BY <2>1, SetInv
  <2>2. ASSUME NEW a \in Actors, Remove(a) PROVE DirectoryInv'
    BY <2>2, RemoveInv
  <2>3. CASE Clear
    BY <2>3 DEF Clear, DirectoryInv, TypeOK, InOwnBucket, IndexIsLive, findByType
  <2>4. CASE UNCHANGED vars
    BY <2>4 DEF vars, DirectoryInv, TypeOK, InOwnBucket, IndexIsLive, findByType, bucketFor, all
  <2> QED BY <2>1, <2>2, <2>3, <2>4 DEF Next
<1> QED BY <1>1, <1>2, PTL DEF Spec

\* The type invariant of the Directory.
THEOREM TypeCorrect == Spec => []TypeOK
<1>1. DirectoryInv => TypeOK
  BY DEF DirectoryInv
<1> QED BY <1>1, Invariance, PTL

\* findByType() returns no actor that left: no supervisor is resolved to an
\* actor that had stopped.
THEOREM IndexStaysLive == Spec => []IndexIsLive
<1>1. DirectoryInv => IndexIsLive
  BY DEF DirectoryInv
<1> QED BY <1>1, Invariance, PTL

\* The pairs of a bucket and an actor in it correspond to the actors.
LEMMA SizeCountsActors ==
  ASSUME TypeOK, InOwnBucket
  PROVE  size = Cardinality(all)
<1> DEFINE E == {e \in Indices \X Actors : e[2] \in buckets[e[1]]}
           f == [a \in all |-> <<bucketFor(a), a>>]
<1>1. all \subseteq Actors
  BY DEF all, TypeOK
<1>2. IsFiniteSet(all)
  BY <1>1, FS_Subset, ActorsAssumption
<1>3. \A a \in all : f[a] \in E
  BY <1>1, ListedInOwnBucket, BucketInRange
<1>4. \A e \in E : e[2] \in all /\ f[e[2]] = e
  <2> TAKE e \in E
  <2>1. /\ e[1] \in Indices
        /\ e[2] \in Actors
        /\ e[2] \in buckets[e[1]]
        /\ e = <<e[1], e[2]>>
    OBVIOUS
  <2>2. /\ e[2] \in all
        /\ e[1] = bucketFor(e[2])
    BY <2>1 DEF all, InOwnBucket
  <2> QED BY <2>1, <2>2
<1>5. f \in Bijection(all, E)
  <2>1. f \in [all -> E]
    BY <1>3
  <2>2. \A a, b \in all : f[a] = f[b] => a = b
    OBVIOUS
  <2>3. \A e \in E : \E a \in all : f[a] = e
    BY <1>4
  <2> HIDE DEF f, E
  <2> QED BY <2>1, <2>2, <2>3 DEF Bijection, Injection, Surjection, IsInjective
<1>6. ExistsBijection(all, E)
  BY <1>5 DEF ExistsBijection
<1>7. Cardinality(E) = Cardinality(all)
  BY <1>2, <1>6, FS_Bijection
<1> QED BY <1>7 DEF size

\* Lookup, listing and size agree, whatever the hash codes.
THEOREM LookupsAgree == Spec => []FoundWhereListed
<1>1. DirectoryInv => FoundWhereListed
  <2> SUFFICES ASSUME DirectoryInv
               PROVE  FoundWhereListed
    OBVIOUS
  <2>1. ASSUME NEW a \in Actors PROVE a \in all <=> get(a) = a
    BY ListedInOwnBucket, ActorsAssumption DEF DirectoryInv, get
  <2> QED BY <2>1, SizeCountsActors DEF FoundWhereListed, DirectoryInv
<1> QED BY <1>1, Invariance, PTL

\* Only the removal of a registered actor takes its type out of the index; as
\* Clear empties the buckets as well, it does so too.
THEOREM IndexKept == Spec => IndexLostByRemoval
<1> DEFINE Lost(t) == findByType(t) # Undefined /\ typeIndex'[t] = Undefined
           Left(t) == \E a \in all : TypeOf[a] = t /\ a \notin all'
<1>1. DirectoryInv /\ DirectoryInv' /\ [Next]_vars => [\A t \in Types : Lost(t) => Left(t)]_vars
  <2> SUFFICES ASSUME DirectoryInv, DirectoryInv', Next, NEW t \in Types, Lost(t)
               PROVE  Left(t)
    OBVIOUS
  <2>1. /\ typeIndex[t] \in all
        /\ TypeOf[typeIndex[t]] = t
        /\ typeIndex[t] \in Actors
    BY DEF DirectoryInv, IndexIsLive, findByType, TypeOK
  <2>2. ASSUME NEW a \in Actors, Set(a) PROVE FALSE
    BY <2>2, ActorsAssumption DEF Set, DirectoryInv, TypeOK, findByType
  <2>3. ASSUME NEW a \in Actors, Remove(a) PROVE Left(t)
    <3>1. /\ get(a) # Undefined
          /\ TypeOf[a] = t
      BY <2>3 DEF Remove, DirectoryInv, TypeOK, findByType
    <3>2. a \in all
      BY <3>1, ListedInOwnBucket DEF get, DirectoryInv
    <3>3. a \notin buckets'[bucketFor(a)]
      BY <2>3, BucketInRange DEF Remove, DirectoryInv, TypeOK
    <3>4. a \notin all'
      <4>1. bucketFor(a)' = bucketFor(a)
        BY DEF bucketFor
      <4> QED BY <3>3, <4>1 DEF all, DirectoryInv, InOwnBucket
    <3> QED BY <3>1, <3>2, <3>4
  <2>4. CASE Clear
    BY <2>1, <2>4 DEF Clear, all
  <2> QED BY <2>2, <2>3, <2>4 DEF Next
<1> QED BY <1>1, Invariance, PTL DEF Spec, IndexLostByRemoval
=============================================================================
