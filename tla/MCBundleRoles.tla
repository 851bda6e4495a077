----------------------------- MODULE MCBundleRoles -----------------------------
(* BundleRoles for TLC: two uids of the CR, at most one CR of the old API group. *)
EXTENDS BundleRoles, TLC

CONSTANTS noKey, null

MCUids == 0..MaxUid
MCInitialOld == {{}, {0}}
MCKinds == {"NodeLabeller", "MetricsAggregation", "CommonTemplates"}
================================================================================
