------------------------- MODULE MCTemplateValidator -------------------------
(* TemplateValidator for TLC.  Uid 0 is the CR of the old API group, 9 some
   other owner; references say nothing besides the uid. *)
EXTENDS TemplateValidator, TLC

CONSTANTS noKey, null

MCUids == CrUids \cup {0, 9}
MCRests == {"plain"}
MCPlain == "plain"

Planned(objects, replicas, kinds, left, failures) ==
  [objects |-> objects, replicas |-> replicas, faults |-> failures,
   edits |-> [kinds |-> kinds, left |-> left]]

\* An upgrade, a deletion and a failure; or three deletions, creations and foreign owners.
SafetyPlans ==
  {Planned(objects, {2}, {"delete", "upgrade"}, 1, 1) : objects \in {"none", "old"}}
  \cup {Planned("none", {2}, {"delete", "own"}, 3, 0)}

\* An edit of the spec, an upgrade and a failure; a pause and its end, or an edit of the
\* spec; pauses, deletions and creations; deletions after a takeover.
LivenessPlans ==
  {Planned("none", {1, 2}, {"spec", "upgrade"}, 1, 1),
   Planned("none", {2}, {"spec", "pause"}, 2, 0),
   Planned("none", {2}, {"pause", "delete"}, 2, 0),
   Planned("old", {2}, {"delete"}, 2, 0)}

\* Nothing happens but plays: a takeover, and objects without owners.
ObservedPlans == {Planned("old", {2}, {}, 0, 0)}
OrphansPlans == {Planned("orphan", {2}, {}, 0, 0)}
================================================================================
