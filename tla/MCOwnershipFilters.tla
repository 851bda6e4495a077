-------------------------- MODULE MCOwnershipFilters --------------------------
(* OwnershipFilters for TLC: objects with no key, null, and up to two owners,
   one of them a controller. *)
EXTENDS OwnershipFilters, TLC

CONSTANTS noKey, null, a, b, c

MCUids == {a, b, c}
MCInitial ==
  {noKey, null} \cup
  {<<[uid |-> u, rest |-> r]>> : u \in {a, b}, r \in {"plain", "controller"}} \cup
  {<<[uid |-> a, rest |-> "controller"], [uid |-> b, rest |-> r]>> :
     r \in {"plain", "controller"}}

================================================================================
