------------------------------- MODULE Ownership -------------------------------
(***************************************************************************)
(* The owner references of the objects a role creates, and the two filters *)
(* that handle them: k8s_inject_ownership, which adopts objects for a CR,  *)
(* and k8s_owned_by, which recognises the objects of a CR.                 *)
(*                                                                         *)
(* metadata.ownerReferences is a list, or an explicit null, or a key that  *)
(* is not there; the API server never returns an empty list, it leaves the *)
(* key out.  A reference names its owner by uid; everything else it says   *)
(* (name, kind, controller...) is `rest'.                                  *)
(***************************************************************************)
EXTENDS Integers, Sequences, FiniteSets

CONSTANTS
  Uids,        \* uids of the objects that may own others
  Rests,       \* what a reference says besides the uid
  Plain,       \* what it says when the filter builds it: apiVersion, kind, name
  NoKey,       \* metadata has no key ownerReferences
  Null         \* metadata.ownerReferences is null

ASSUME OwnershipAssumption ==
  /\ Plain \in Rests
  /\ NoKey \notin Seq([uid : Uids, rest : Rests])
  /\ Null \notin Seq([uid : Uids, rest : Rests])
  /\ NoKey # Null

Ref == [uid : Uids, rest : Rests]
References == Seq(Ref) \cup {NoKey, Null}

OwnerRef(u) == [uid |-> u, rest |-> Plain]

IsList(refs) == refs \notin {NoKey, Null}

\* The uids an object is owned by.
Owners(refs) == IF IsList(refs) THEN {refs[i].uid : i \in 1..Len(refs)} ELSE {}

\* No owner is named twice.
Distinct(refs) ==
  IsList(refs) => \A i, j \in 1..Len(refs) : refs[i].uid = refs[j].uid => i = j

\* Mutant: only the first reference is compared.
OwnedBy_first(refs, u) == IsList(refs) /\ Len(refs) > 0 /\ refs[1].uid = u

\* object_owned_by
OwnedBy(refs, u) == u \in Owners(refs)

\* obj['metadata']['ownerReferences'] raises a KeyError when there is no such key.
Injectable(refs) == refs # NoKey

FirstOf(refs, u) ==
  CHOOSE i \in 1..Len(refs) :
    refs[i].uid = u /\ \A j \in 1..(i-1) : refs[j].uid # u

\* Mutant: the reference is appended without looking for the uid.
Inject_appends(refs, u) ==
  IF refs = Null THEN <<OwnerRef(u)>> ELSE Append(refs, OwnerRef(u))

\* Mutant: the reference says nothing but the uid.
Inject_bare(refs, u) ==
  IF refs = Null THEN <<[uid |-> u]>> ELSE Append(refs, [uid |-> u])

\* Mutant: the object's references are replaced by the CR's.
Inject_replaces(refs, u) == <<OwnerRef(u)>>

\* k8s_inject_ownership, on one object that has the key.
Inject(refs, u) ==
  IF refs = Null THEN <<OwnerRef(u)>>
  ELSE IF OwnedBy(refs, u) THEN [refs EXCEPT ![FirstOf(refs, u)] = OwnerRef(u)]
       ELSE Append(refs, OwnerRef(u))

\* The filter maps a whole list, or raises and maps nothing.
AllInjectable(objects) == \A i \in DOMAIN objects : Injectable(objects[i])

k8s_inject_ownership(objects, u) == [i \in DOMAIN objects |-> Inject(objects[i], u)]

\* The elements of a sequence at some of its places, in their order: the i-th of them is
\* at the place up to which there are i.
AtPlaces(s, places) ==
  LET Place(i) == CHOOSE k \in places : Cardinality({j \in places : j <= k}) = i
  IN [i \in 1..Cardinality(places) |-> s[Place(i)]]

\* The objects owned by u, in their order.
k8s_owned_by(objects, u) ==
  AtPlaces(objects, {i \in 1..Len(objects) : OwnedBy(objects[i], u)})

\* The garbage collector's part: what refs says of the owners in `alive', in its order.
Pruned(refs, alive) == AtPlaces(refs, {k \in 1..Len(refs) : refs[k].uid \in alive})

================================================================================
