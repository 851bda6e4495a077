---------------------------- MODULE OwnershipFilters ----------------------------
(***************************************************************************)
(* The two ownership filters at work: a list of objects, as a task         *)
(* registered or looked it up, is adopted for one CR after the other.      *)
(***************************************************************************)
EXTENDS Ownership

CONSTANT Initial   \* the lists of references the objects may come with

VARIABLES
  objects,   \* the references of each object of the list
  owner,     \* the CR the filter was last called for
  outcome    \* how that call ended

vars == <<objects, owner, outcome>>

\* The API server does not let an object name an owner twice.
ASSUME InitialAssumption ==
  Initial \subseteq References /\ \A refs \in Initial : Distinct(refs)

TypeOK == /\ objects \in Seq(References)
          /\ owner \in Uids
          /\ outcome \in {"none", "adopted", "KeyError"}

Init == /\ objects \in [1..2 -> Initial]
        /\ owner \in Uids
        /\ outcome = "none"

Adopt(u) == /\ AllInjectable(objects)
            /\ objects' = k8s_inject_ownership(objects, u)
            /\ owner' = u
            /\ outcome' = "adopted"

Raise(u) == /\ ~AllInjectable(objects)
            /\ owner' = u
            /\ outcome' = "KeyError"
            /\ UNCHANGED objects

Next == \E u \in Uids : Adopt(u) \/ Raise(u)

Spec == Init /\ [][Next]_vars

--------------------------------------------------------------------------------

\* The API server refuses an object that names an owner twice: adopting an object
\* again, or for several CRs in turn, does not make it do so.
OwnersDistinct == \A i \in DOMAIN objects : Distinct(objects[i])

\* Adopting objects takes them away from nobody: each reference to another owner
\* stays where it is, as it is.
OthersStay(u) ==
  \A i \in DOMAIN objects : IsList(objects[i]) =>
    \A k \in 1..Len(objects[i]) :
      objects[i][k].uid # u => objects'[i][k] = objects[i][k]

OthersKept == [][objects' # objects => OthersStay(owner')]_vars

\* The two filters agree on what a reference is.  What k8s_owned_by finds for a CR is each
\* object that names it, at whatever place of its list, and none besides; and just after
\* k8s_inject_ownership adopted the list for a CR that is all of them, in their order.  That
\* is how the next operator tells what it takes over from what it leaves alone.
AdoptedFound ==
  /\ outcome = "adopted" => k8s_owned_by(objects, owner) = objects
  /\ \A u \in Uids :
       LET found == k8s_owned_by(objects, u)
           mine == {i \in 1..Len(objects) : u \in Owners(objects[i])}
       IN /\ Len(found) = Cardinality(mine)
          /\ {found[j] : j \in 1..Len(found)} = {objects[i] : i \in mine}

================================================================================
