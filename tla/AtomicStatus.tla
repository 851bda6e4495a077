------------------------------ MODULE AtomicStatus ------------------------------
(***************************************************************************)
(* What the k8s_status module promises to the tasks that call it: a call   *)
(* takes effect at one instant between its start and its end, on the       *)
(* status as it is at that instant, or it fails and has no effect.         *)
(*                                                                         *)
(* There are no versions, no snapshots and no lists here: a status maps    *)
(* each type to the condition of that type, and a call overwrites what it  *)
(* names.  K8sStatus implements this specification.                        *)
(***************************************************************************)
CONSTANTS Writers, Types, Fields, Absent, Calls, NoCall, Marks

VARIABLES
  exists,      \* the CR is there
  fields,      \* the fields of its status
  condition,   \* condition[t]: what it says of type t, or Absent
  call,        \* call[w]: the arguments of w's latest call
  phase        \* phase[w] : "idle", "pending", "unchanged", "changed", "failed"

vars == <<exists, fields, condition, call, phase>>

Cleared(c) == IF c = Absent THEN Absent ELSE [c EXCEPT !.ltt = Absent]

(* A call names the fields and conditions that are not Absent.             *)
Named(new, k) == new[k] # Absent

Overwritten(old, new) == [k \in DOMAIN old |-> IF Named(new, k) THEN new[k] ELSE old[k]]

(* The status says already what the call asks for.                         *)
Holds(r) ==
  IF r.force
  THEN fields = r.fields /\ condition = r.condition
  ELSE /\ \A f \in Fields : Named(r.fields, f) => fields[f] = r.fields[f]
       /\ \A t \in Types : Named(r.condition, t)
                             => Cleared(condition[t]) = r.condition[t]

Init ==
  /\ exists = TRUE
  /\ fields = [f \in Fields |-> Absent]
  /\ condition = [t \in Types |-> Absent]
  /\ call = [w \in Writers |-> NoCall]
  /\ phase = [w \in Writers |-> "idle"]

Begin(w, r) ==
  /\ phase[w] # "pending"
  /\ phase' = [phase EXCEPT ![w] = "pending"]
  /\ call' = [call EXCEPT ![w] = r]
  /\ UNCHANGED <<exists, fields, condition>>

Answer(w, answer) ==
  /\ phase[w] = "pending"
  /\ phase' = [phase EXCEPT ![w] = answer]
  /\ call' = [call EXCEPT ![w] = NoCall]

Unchanged(w) ==
  /\ Answer(w, "unchanged")
  /\ exists /\ Holds(call[w])
  /\ UNCHANGED <<exists, fields, condition>>

\* A forced call compares the list of conditions as a list: it may write what says
\* the same in another order.
Changed(w) ==
  /\ Answer(w, "changed")
  /\ exists /\ (call[w].force \/ ~Holds(call[w]))
  /\ IF call[w].force
     THEN fields' = call[w].fields /\ condition' = call[w].condition
     ELSE /\ fields' = Overwritten(fields, call[w].fields)
          /\ condition' = Overwritten(condition, call[w].condition)
  /\ UNCHANGED exists

Failed(w) ==
  /\ Answer(w, "failed")
  /\ UNCHANGED <<exists, fields, condition>>

Mark(m) ==
  /\ exists
  /\ condition' = [condition EXCEPT ![m.type] = m]
  /\ UNCHANGED <<exists, fields, call, phase>>

Delete ==
  /\ exists
  /\ exists' = FALSE
  /\ fields' = [f \in Fields |-> Absent]
  /\ condition' = [t \in Types |-> Absent]
  /\ UNCHANGED <<call, phase>>

Create ==
  /\ ~exists
  /\ exists' = TRUE
  /\ UNCHANGED <<fields, condition, call, phase>>

Next ==
  \/ \E w \in Writers : \/ \E r \in Calls : Begin(w, r)
                        \/ Unchanged(w) \/ Changed(w) \/ Failed(w)
  \/ \E m \in Marks : Mark(m)
  \/ Delete
  \/ Create

Spec == Init /\ [][Next]_vars

================================================================================
