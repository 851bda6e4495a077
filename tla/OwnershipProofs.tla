---------------------------- MODULE OwnershipProofs ----------------------------
(***************************************************************************)
(* The invariants of the repeated use of k8s_inject_ownership.             *)
(***************************************************************************)
EXTENDS OwnershipFilters, OwnershipLemmas

--------------------------------------------------------------------------------
(* k8s_owned_by returns the objects that are owned, and no others.             *)

LEMMA OwnedFound ==
  ASSUME NEW objs \in Seq(References), NEW u
  PROVE  LET mine == {i \in 1..Len(objs) : u \in Owners(objs[i])}
             found == k8s_owned_by(objs, u)
         IN  /\ Len(found) = Cardinality(mine)
             /\ {found[j] : j \in 1..Len(found)} = {objs[i] : i \in mine}
             /\ mine = 1..Len(objs) => found = objs
<1> DEFINE mine == {i \in 1..Len(objs) : u \in Owners(objs[i])}
           found == k8s_owned_by(objs, u)
<1>1. found = AtPlaces(objs, mine)
  BY DEF k8s_owned_by, OwnedBy
<1>2. mine \in SUBSET (1..Len(objs))
  OBVIOUS
<1> HIDE DEF mine, found
<1>3. /\ Len(found) = Cardinality(mine)
      /\ {found[j] : j \in 1..Cardinality(mine)} = {objs[i] : i \in mine}
      /\ mine = 1..Len(objs) => found = objs
  <2>1. /\ Len(AtPlaces(objs, mine)) = Cardinality(mine)
        /\ {AtPlaces(objs, mine)[j] : j \in 1..Cardinality(mine)} = {objs[i] : i \in mine}
        /\ mine = 1..Len(objs) => AtPlaces(objs, mine) = objs
    BY <1>2, TakenFromPlaces
  <2> QED
    BY <1>1, <2>1
<1> QED
  BY <1>3 DEF mine, found

--------------------------------------------------------------------------------

\* What was adopted is owned by the CR it was adopted for.
Adopted == outcome = "adopted" => \A i \in DOMAIN objects : OwnedBy(objects[i], owner)

IInv == TypeOK /\ OwnersDistinct /\ Adopted

LEMMA AdoptStep ==
  ASSUME TypeOK, OwnersDistinct, NEW u \in Uids, Adopt(u)
  PROVE  TypeOK' /\ OwnersDistinct' /\ Adopted' /\ OthersStay(u)
<1>1. /\ DOMAIN objects' = DOMAIN objects
      /\ \A i \in DOMAIN objects : objects'[i] = Inject(objects[i], u)
  BY DEF Adopt, k8s_inject_ownership
<1>2. ASSUME NEW i \in DOMAIN objects
      PROVE  /\ objects'[i] \in References
             /\ Distinct(objects'[i])
             /\ OwnedBy(objects'[i], u)
             /\ IsList(objects[i]) =>
                  \A k \in 1..Len(objects[i]) :
                    objects[i][k].uid # u => objects'[i][k] = objects[i][k]
  <2>1. /\ objects[i] \in References
        /\ Injectable(objects[i])
        /\ Distinct(objects[i])
    BY DEF TypeOK, OwnersDistinct, Adopt, AllInjectable
  <2> QED
    BY <1>1, <2>1, InjectAdopts DEF References, OwnedBy
<1>3. objects' \in Seq(References)
  <2>1. Len(objects) \in Nat /\ DOMAIN objects = 1..Len(objects)
    BY DEF TypeOK
  <2>2. objects' = [i \in 1..Len(objects) |-> Inject(objects[i], u)]
    BY <2>1 DEF Adopt, k8s_inject_ownership
  <2>3. \A i \in 1..Len(objects) : Inject(objects[i], u) \in References
    BY <1>1, <1>2, <2>1
  <2> QED
    BY <2>1, <2>2, <2>3
<1> QED
  BY <1>1, <1>2, <1>3 DEF TypeOK, OwnersDistinct, OthersStay, Adopt, Adopted

LEMMA FiltersInvariant == Spec => []IInv
<1>1. Init => IInv
  <2> SUFFICES ASSUME Init PROVE IInv
    OBVIOUS
  <2>1. objects \in [1..2 -> References]
    BY InitialAssumption DEF Init
  <2>2. objects \in Seq(References)
    BY <2>1, SeqDef
  <2>3. OwnersDistinct
    BY InitialAssumption DEF Init, OwnersDistinct
  <2> QED
    BY <2>2, <2>3 DEF Init, TypeOK, IInv, Adopted
<1>2. IInv /\ [Next]_vars => IInv'
  <2> SUFFICES ASSUME TypeOK, OwnersDistinct, Adopted, [Next]_vars
               PROVE  IInv'
    BY DEF IInv
  <2>1. ASSUME NEW u \in Uids, Adopt(u) PROVE IInv'
    BY <2>1, AdoptStep DEF IInv
  <2>2. ASSUME NEW u \in Uids, Raise(u) PROVE IInv'
    BY <2>2 DEF Raise, TypeOK, OwnersDistinct, Adopted, IInv
  <2>3. CASE UNCHANGED vars
    BY <2>3 DEF vars, TypeOK, OwnersDistinct, Adopted, IInv
  <2> QED
    BY <2>1, <2>2, <2>3 DEF Next
<1> QED
  BY <1>1, <1>2, PTL DEF Spec

\* However often and for however many CRs objects are adopted, none of them names an
\* owner twice.
THEOREM DistinctOwners == Spec => []OwnersDistinct
<1>1. IInv => OwnersDistinct
  BY DEF IInv
<1> QED
  BY <1>1, FiltersInvariant, PTL

\* Objects keep lists of references, whatever the filter does to them.
THEOREM FiltersTyped == Spec => []TypeOK
<1>1. IInv => TypeOK
  BY DEF IInv
<1> QED
  BY <1>1, FiltersInvariant, PTL

\* For every CR and every list of objects that was adopted for any CRs in any order,
\* k8s_owned_by returns the objects that name the CR and rejects the rest; what
\* k8s_inject_ownership just adopted for it is all returned.
THEOREM FiltersAgree == Spec => []AdoptedFound
<1>1. IInv => AdoptedFound
  <2> SUFFICES ASSUME IInv PROVE AdoptedFound
    OBVIOUS
  <2>1. objects \in Seq(References)
    BY DEF IInv, TypeOK
  <2>2. ASSUME outcome = "adopted" PROVE k8s_owned_by(objects, owner) = objects
    <3> DEFINE mine == {i \in 1..Len(objects) : owner \in Owners(objects[i])}
    <3>1. mine = 1..Len(objects)
      BY <2>1, <2>2 DEF IInv, Adopted, OwnedBy
    <3> QED
      BY <2>1, <3>1, OwnedFound
  <2> QED
    BY <2>1, <2>2, OwnedFound DEF AdoptedFound
<1> QED
  BY <1>1, FiltersInvariant, PTL

\* Adoption never drops or changes a reference to another owner.
THEOREM NobodyLoses == Spec => OthersKept
<1>1. IInv /\ [Next]_vars
        => [objects' # objects => OthersStay(owner')]_vars
  <2> SUFFICES ASSUME TypeOK, OwnersDistinct, Next, objects' # objects
               PROVE  OthersStay(owner')
    BY DEF vars, IInv
  <2>1. PICK u \in Uids : Adopt(u)
    BY DEF Next, Raise
  <2> QED
    BY <2>1, AdoptStep DEF Adopt
<1> QED
  BY <1>1, FiltersInvariant, PTL DEF Spec, OthersKept

================================================================================
