----------------------------- MODULE CircuitBreaker -----------------------------
(***************************************************************************)
(* The role KubevirtCircuitBreaker, which every playbook runs before the   *)
(* role that does the work: it looks the CR up and ends the play when the  *)
(* annotation kubevirt.io/operator.paused says so.                         *)
(*                                                                         *)
(* The annotation is parsed as JSON after an absent or empty one has been  *)
(* replaced by 'false'.  "garbled" stands for text that is no JSON, such   *)
(* as True or yes: the task then fails, and the play with it.              *)
(***************************************************************************)

Annotations == {"absent", "empty", "false", "true", "garbled"}

\* default('false', true): the default replaces absent and empty values alike.
Effective(annotation) ==
  IF annotation \in {"absent", "empty"} THEN "false" ELSE annotation

\* from_json raises on it.
Unparsable(annotation) == Effective(annotation) = "garbled"

\* Mutant: the annotation is never looked at.
IsPaused_ignored(annotation) == FALSE

\* is_paused
IsPaused(annotation) == Effective(annotation) = "true"

\* The play goes on to the role.
MayRun(annotation) == ~Unparsable(annotation) /\ ~IsPaused(annotation)

================================================================================
