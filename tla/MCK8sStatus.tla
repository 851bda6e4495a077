----------------------------- MODULE MCK8sStatus -----------------------------
(* K8sStatus for TLC: the calls the roles make (one condition, or fields), calls
   with two conditions or with both, and forced ones; ansible-operator's Running. *)
EXTENDS K8sStatus, TLC

CONSTANTS w1, w2, t1, no

MCWriters == {w1, w2}
MCTypes == {"Progressing", "Available", "Running"}
MCPayloads == {"True", "False"}
MCTimes == {t1}
MCFields == {"observedVersion", "targetVersion"}
MCValues == {"v1"}

NoFields == [f \in MCFields |-> no]
Cond(t, p) == [type |-> t, payload |-> p, ltt |-> no]
Conds(cs) == [force |-> FALSE, status |-> [fields |-> NoFields, conds |-> cs]]

MCRequests ==
  { Conds(<<Cond("Available", "True")>>),
    Conds(<<Cond("Progressing", "False"), Cond("Available", "True")>>),
    [force |-> FALSE,
     status |-> [fields |-> [NoFields EXCEPT !["observedVersion"] = "v1"],
                 conds |-> <<>>]],
    [force |-> FALSE,
     status |-> [fields |-> [NoFields EXCEPT !["observedVersion"] = "v1"],
                 conds |-> <<Cond("Available", "True")>>]],
    [force |-> TRUE,
     status |-> [fields |-> NoFields,
                 conds |-> <<[Cond("Available", "True") EXCEPT !.ltt = t1]>>]],
    [force |-> TRUE,
     status |-> [fields |-> NoFields,
                 conds |-> <<Cond("Available", "True"), Cond("Progressing", "False")>>]] }

MCMarks == {[Cond("Running", p) EXCEPT !.ltt = t1] : p \in MCPayloads}

Symmetry == Permutations(MCWriters)
================================================================================
