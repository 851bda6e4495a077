---------------------------- MODULE OwnershipLemmas ----------------------------
(***************************************************************************)
(* What the filter k8s_inject_ownership does to a list of references, for  *)
(* every set of owners and every list.                                     *)
(***************************************************************************)
EXTENDS Ownership, SequenceTheorems, FiniteSetTheorems, TLAPS

LEMMA OwnerRefTyped ==
  ASSUME NEW u \in Uids
  PROVE  OwnerRef(u) \in Ref /\ OwnerRef(u).uid = u
BY OwnershipAssumption DEF OwnerRef, Ref

\* Lists, null and the missing key exclude each other.
LEMMA ListTyped ==
  ASSUME NEW refs \in References
  PROVE  /\ IsList(refs) <=> refs \in Seq(Ref)
         /\ Null \notin Seq(Ref) /\ NoKey \notin Seq(Ref) /\ Null # NoKey
BY OwnershipAssumption DEF References, IsList, Ref

\* The filter turns distinct references into distinct references, adds the CR's
\* uid to the owners, and keeps each reference to another owner at its place.
LEMMA InjectAdopts ==
  ASSUME NEW refs \in References, Injectable(refs), Distinct(refs), NEW u \in Uids
  PROVE  LET new == Inject(refs, u)
         IN  /\ new \in Seq(Ref)
             /\ IsList(new)
             /\ Distinct(new)
             /\ Owners(new) = Owners(refs) \cup {u}
             /\ IsList(refs) => \A k \in 1..Len(refs) :
                                  refs[k].uid # u => k \in 1..Len(new) /\ new[k] = refs[k]
<1> DEFINE new == Inject(refs, u)
           own == OwnerRef(u)
<1>1. own \in Ref /\ own.uid = u
  BY OwnerRefTyped
<1>2. CASE refs = Null
  <2>1. new = <<own>>
    BY <1>2 DEF Inject
  <2> HIDE DEF new, own
  <2>2. new \in Seq(Ref) /\ Len(new) = 1 /\ new[1] = own
    BY <1>1, <2>1
  <2>3. IsList(new) /\ ~IsList(refs)
    BY <1>2, <2>2, ListTyped DEF IsList, References
  <2>4. Distinct(new)
    BY <2>2 DEF Distinct
  <2>5. Owners(new) = {u} /\ Owners(refs) = {}
    BY <1>1, <2>2, <2>3 DEF Owners
  <2> QED
    BY <2>2, <2>3, <2>4, <2>5 DEF new
<1>3. CASE refs # Null
  <2>1. refs \in Seq(Ref) /\ IsList(refs)
    BY <1>3, ListTyped DEF Injectable, References, IsList
  <2>2. CASE OwnedBy(refs, u)
    <3> DEFINE i == FirstOf(refs, u)
    <3>1. PICK k \in 1..Len(refs) : refs[k].uid = u
      BY <2>1, <2>2 DEF OwnedBy, Owners
    <3>2. \A j \in 1..(k-1) : refs[j].uid # u
      BY <2>1, <3>1 DEF Distinct
    <3>3. i \in 1..Len(refs) /\ refs[i].uid = u
      BY <3>1, <3>2 DEF FirstOf
    <3>4. new = [refs EXCEPT ![i] = own]
      BY <1>3, <2>2 DEF Inject
    <3> HIDE DEF i, new, own
    <3>5. /\ new \in Seq(Ref)
          /\ Len(new) = Len(refs)
          /\ \A j \in 1..Len(refs) : new[j] = IF j = i THEN own ELSE refs[j]
      BY <1>1, <2>1, <3>3, <3>4
    <3>6. \A j \in 1..Len(refs) : new[j].uid = refs[j].uid
      BY <1>1, <3>3, <3>5
    <3>7. IsList(new)
      BY <3>5, ListTyped DEF References
    <3>8. Distinct(new)
      BY <2>1, <3>5, <3>6 DEF Distinct
    <3>9. Owners(new) = Owners(refs)
      BY <2>1, <3>5, <3>6, <3>7 DEF Owners
    <3>10. u \in Owners(refs)
      BY <2>2 DEF OwnedBy
    <3> QED
      BY <3>3, <3>5, <3>7, <3>8, <3>9, <3>10 DEF new
  <2>3. CASE ~OwnedBy(refs, u)
    <3>1. new = Append(refs, own)
      BY <1>3, <2>3 DEF Inject
    <3> HIDE DEF new, own
    <3>2. /\ new \in Seq(Ref)
          /\ Len(new) = Len(refs) + 1
          /\ \A j \in 1..Len(refs) : new[j] = refs[j]
          /\ new[Len(refs) + 1] = own
      BY <1>1, <2>1, <3>1
    <3>3. \A j \in 1..Len(refs) : refs[j].uid # u
      BY <2>1, <2>3 DEF OwnedBy, Owners
    <3>4. IsList(new)
      BY <3>2, ListTyped DEF References
    <3>5. Distinct(new)
      BY <1>1, <2>1, <3>2, <3>3 DEF Distinct
    <3>6. Owners(new) = {new[j].uid : j \in 1..(Len(refs) + 1)}
      BY <3>2, <3>4 DEF Owners
    <3>7. Len(refs) \in Nat
      BY <2>1
    <3>8. 1..(Len(refs) + 1) = 1..Len(refs) \cup {Len(refs) + 1}
      BY <3>7
    <3>9. Owners(new) = Owners(refs) \cup {u}
      <4>1. Owners(refs) = {refs[j].uid : j \in 1..Len(refs)}
        BY <2>1 DEF Owners
      <4>2. \A j \in 1..Len(refs) : new[j].uid = refs[j].uid
        BY <3>2
      <4>3. new[Len(refs) + 1].uid = u
        BY <1>1, <3>2
      <4>4. \A v : v \in Owners(new) <=> \E j \in 1..(Len(refs) + 1) : v = new[j].uid
        BY <3>6
      <4>5. \A v : v \in Owners(refs) <=> \E j \in 1..Len(refs) : v = refs[j].uid
        BY <4>1
      <4>6. \A v : v \in Owners(new) <=> v \in Owners(refs) \/ v = u
        BY <3>7, <3>8, <4>2, <4>3, <4>4, <4>5
      <4> QED
        BY <4>6
    <3>10. \A k \in 1..Len(refs) : k \in 1..Len(new)
      BY <3>2, <3>7
    <3> QED
      BY <3>2, <3>4, <3>5, <3>9, <3>10 DEF new
  <2> QED
    BY <2>2, <2>3
<1> QED
  BY <1>2, <1>3

\* How many of the places kept there are up to k.
UpTo(kept, k) == Cardinality({j \in kept : j <= k})

\* The places kept are counted: each number belongs to one of them.
LEMMA PlacesCounted ==
  ASSUME NEW n \in Nat, NEW kept \in SUBSET (1..n)
  PROVE  /\ Cardinality(kept) \in Nat
         /\ \A k \in kept : UpTo(kept, k) \in 1..Cardinality(kept)
         /\ \A k, l \in kept : UpTo(kept, k) = UpTo(kept, l) => k = l
         /\ \A i \in 1..Cardinality(kept) : \E k \in kept : UpTo(kept, k) = i
<1> DEFINE c == Cardinality(kept)
           Below(k) == {j \in kept : j <= k}
<1>1. IsFiniteSet(1..n)
  BY FS_Interval
<1>2. IsFiniteSet(kept)
  BY <1>1, FS_Subset
<1>3. c \in Nat
  BY <1>2, FS_CardinalityType
<1>4. ASSUME NEW k \in kept
      PROVE  IsFiniteSet(Below(k)) /\ Cardinality(Below(k)) \in 1..c
  <2>1. Below(k) \in SUBSET kept
    OBVIOUS
  <2>2. IsFiniteSet(Below(k)) /\ Cardinality(Below(k)) <= c
    BY <1>2, <2>1, FS_Subset
  <2>3. Cardinality(Below(k)) \in Nat
    BY <2>2, FS_CardinalityType
  <2>4. k \in Below(k)
    OBVIOUS
  <2>5. Cardinality(Below(k)) # 0
    BY <2>2, <2>4, FS_EmptySet
  <2> QED
    BY <1>3, <2>2, <2>3, <2>5
<1>5. ASSUME NEW k \in kept, NEW l \in kept, Cardinality(Below(k)) = Cardinality(Below(l)), k < l
      PROVE  FALSE
  <2>1. k \in Int /\ l \in Int
    OBVIOUS
  <2>2. Below(k) \in SUBSET Below(l) /\ l \in Below(l) /\ l \notin Below(k)
    <3>1. \A j \in kept : j \in Int
      OBVIOUS
    <3>2. k < l
      BY <1>5
    <3>3. \A j \in kept : j <= k => j <= l
      BY <2>1, <3>1, <3>2
    <3>4. l <= l /\ ~ (l <= k)
      BY <2>1, <3>2
    <3> QED
      BY <3>3, <3>4
  <2>3. Below(l) = Below(k)
    BY <1>4, <1>5, <2>2, FS_Subset
  <2> QED
    BY <2>2, <2>3
<1>6. \A k, l \in kept : Cardinality(Below(k)) = Cardinality(Below(l)) => k = l
  <2> SUFFICES ASSUME NEW k \in kept, NEW l \in kept,
                      Cardinality(Below(k)) = Cardinality(Below(l))
               PROVE  k = l
    OBVIOUS
  <2>1. k \in Int /\ l \in Int
    OBVIOUS
  <2>2. ~ (k < l) /\ ~ (l < k)
    BY <1>5
  <2> QED
    BY <2>1, <2>2
<1> DEFINE f == [k \in kept |-> Cardinality(Below(k))]
<1> HIDE DEF c, Below
<1>7. /\ f \in [kept -> 1..c] /\ \A k, l \in kept : f[k] = f[l] => k = l
      /\ \A k \in kept : f[k] = Cardinality(Below(k))
  BY <1>4, <1>6
<1> HIDE DEF f
<1>8. f \in Injection(kept, 1..c)
  BY <1>7 DEF Injection, IsInjective
<1>9. IsFiniteSet(1..c) /\ Cardinality(1..c) = c
  BY <1>3, FS_Interval
<1>10. f \in Surjection(kept, 1..c)
  BY <1>8, <1>9, FS_Injection DEF c
<1>11. \A i \in 1..c : \E k \in kept : f[k] = i
  BY <1>10 DEF Surjection
<1>12. \A k \in kept : UpTo(kept, k) = Cardinality(Below(k))
  BY DEF UpTo, Below
<1> QED
  BY <1>3, <1>4, <1>6, <1>7, <1>11, <1>12 DEF c

\* What is taken from a sequence at some places is what is there, each place once; at all
\* places it is the sequence.
LEMMA TakenFromPlaces ==
  ASSUME NEW S, NEW s \in Seq(S), NEW places \in SUBSET (1..Len(s))
  PROVE  /\ AtPlaces(s, places) \in Seq(S)
         /\ Len(AtPlaces(s, places)) = Cardinality(places)
         /\ {AtPlaces(s, places)[j] : j \in 1..Cardinality(places)} = {s[i] : i \in places}
         /\ places = 1..Len(s) => AtPlaces(s, places) = s
<1> DEFINE n == Cardinality(places)
           Place(i) == CHOOSE k \in places : UpTo(places, k) = i
           taken == AtPlaces(s, places)
<1>1. /\ n \in Nat
      /\ \A k \in places : UpTo(places, k) \in 1..n
      /\ \A k, l \in places : UpTo(places, k) = UpTo(places, l) => k = l
      /\ \A i \in 1..n : \E k \in places : UpTo(places, k) = i
  <2>1. Len(s) \in Nat
    OBVIOUS
  <2> QED
    BY <2>1, PlacesCounted
<1>2. taken = [i \in 1..n |-> s[Place(i)]]
  BY DEF AtPlaces, UpTo
<1>3. \A i \in 1..n : Place(i) \in places /\ UpTo(places, Place(i)) = i
  BY <1>1
<1>4. \A k \in places : k \in 1..Len(s) /\ s[k] \in S
  OBVIOUS
<1>5. places = 1..Len(s) => n = Len(s) /\ \A k \in places : UpTo(places, k) = k
  <2> SUFFICES ASSUME places = 1..Len(s)
               PROVE  n = Len(s) /\ \A k \in places : UpTo(places, k) = k
    OBVIOUS
  <2>1. n = Len(s)
    BY FS_Interval
  <2>2. ASSUME NEW k \in places PROVE UpTo(places, k) = k
    <3>1. {j \in places : j <= k} = 1..k
      OBVIOUS
    <3>2. k \in Int /\ k >= 1
      OBVIOUS
    <3> HIDE DEF n
    <3>3. Cardinality(1..k) = k
      BY <3>2, FS_Interval
    <3> QED
      BY <3>1, <3>3 DEF UpTo
  <2> QED
    BY <2>1, <2>2
<1> HIDE DEF n, taken, Place
<1>6. \A i \in 1..n : taken[i] = s[Place(i)]
  BY <1>2
<1>7. taken \in [1..n -> S]
  BY <1>2, <1>3, <1>4
<1>8. taken \in Seq(S) /\ Len(taken) = n
  BY <1>1, <1>7
<1>9. ASSUME NEW k \in places PROVE \E j \in 1..n : taken[j] = s[k]
  <2>1. UpTo(places, k) \in 1..n /\ Place(UpTo(places, k)) = k
    BY <1>1, <1>3
  <2> QED
    BY <1>6, <2>1
<1>10. {taken[j] : j \in 1..n} = {s[i] : i \in places}
  BY <1>3, <1>6, <1>9
<1>11. ASSUME places = 1..Len(s) PROVE taken = s
  <2>1. \A i \in 1..n : Place(i) = i
    BY <1>1, <1>3, <1>5, <1>11
  <2>2. n = Len(s) /\ \A i \in 1..n : taken[i] = s[i]
    BY <1>5, <1>6, <1>11, <2>1
  <2> QED
    BY <1>8, <2>2
<1> QED
  BY <1>8, <1>10, <1>11 DEF n, taken

\* Pruning leaves a list of references to exactly the owners that are alive, none of
\* them twice.
LEMMA PruneKeeps ==
  ASSUME NEW refs \in Seq(Ref), Distinct(refs), NEW alive
  PROVE  LET rest == Pruned(refs, alive)
         IN  /\ rest \in Seq(Ref)
             /\ IsList(rest)
             /\ Distinct(rest)
             /\ Owners(rest) = Owners(refs) \cap alive
<1> DEFINE kept == {k \in 1..Len(refs) : refs[k].uid \in alive}
           n == Cardinality(kept)
           Place(i) == CHOOSE k \in kept : UpTo(kept, k) = i
           rest == Pruned(refs, alive)
<1>1. IsList(refs) /\ Len(refs) \in Nat
  BY ListTyped DEF References
<1>2. /\ n \in Nat
      /\ \A k \in kept : UpTo(kept, k) \in 1..n
      /\ \A k, l \in kept : UpTo(kept, k) = UpTo(kept, l) => k = l
      /\ \A i \in 1..n : \E k \in kept : UpTo(kept, k) = i
  <2>1. kept \in SUBSET (1..Len(refs))
    OBVIOUS
  <2> HIDE DEF kept
  <2> QED
    BY <1>1, <2>1, PlacesCounted
<1>3. rest = [i \in 1..n |-> refs[Place(i)]]
  BY DEF Pruned, AtPlaces, UpTo
<1>4. \A k \in kept : k \in 1..Len(refs) /\ refs[k] \in Ref /\ refs[k].uid \in alive
  OBVIOUS
<1>5. \A k \in 1..Len(refs) : refs[k].uid \in alive => k \in kept
  OBVIOUS
<1> HIDE DEF kept, n, rest
<1>6. \A i \in 1..n : Place(i) \in kept /\ UpTo(kept, Place(i)) = i
  BY <1>2
<1> HIDE DEF Place
<1>7. \A i \in 1..n : rest[i] = refs[Place(i)]
  BY <1>3
<1>8. rest \in [1..n -> Ref]
  BY <1>3, <1>4, <1>6
<1>9. rest \in Seq(Ref) /\ Len(rest) = n
  BY <1>2, <1>8
<1>10. IsList(rest)
  BY <1>9, ListTyped DEF References
<1>11. Distinct(rest)
  <2> SUFFICES ASSUME NEW i \in 1..n, NEW j \in 1..n, rest[i].uid = rest[j].uid
               PROVE  i = j
    BY <1>9 DEF Distinct
  <2>1. Place(i) \in 1..Len(refs) /\ Place(j) \in 1..Len(refs)
    BY <1>4, <1>6
  <2>2. refs[Place(i)].uid = refs[Place(j)].uid
    BY <1>7
  <2>3. Place(i) = Place(j)
    BY <1>1, <2>1, <2>2 DEF Distinct
  <2> QED
    BY <1>6, <2>3
<1>12. Owners(rest) = {rest[i].uid : i \in 1..n}
  BY <1>9, <1>10 DEF Owners
<1>13. Owners(refs) = {refs[k].uid : k \in 1..Len(refs)}
  BY <1>1 DEF Owners
<1>14. ASSUME NEW u \in Owners(rest) PROVE u \in Owners(refs) /\ u \in alive
  <2>1. PICK i \in 1..n : u = rest[i].uid
    BY <1>12
  <2> QED
    BY <1>4, <1>6, <1>7, <1>13, <2>1
<1>15. ASSUME NEW u \in Owners(refs), u \in alive PROVE u \in Owners(rest)
  <2>1. PICK k \in 1..Len(refs) : u = refs[k].uid
    BY <1>13
  <2>2. k \in kept
    BY <1>5, <1>15, <2>1
  <2> DEFINE i == UpTo(kept, k)
  <2>3. i \in 1..n
    BY <1>2, <2>2
  <2>4. Place(i) = k
    BY <1>2, <1>6, <2>2, <2>3
  <2> QED
    BY <1>7, <1>12, <2>1, <2>3, <2>4
<1> QED
  BY <1>9, <1>10, <1>11, <1>14, <1>15 DEF rest

================================================================================
