------------------------------ MODULE MCTypedClient ------------------------------
(* TypedClient for TLC: two resources, two namespaces, two names. *)
EXTENDS TypedClient, TLC

Validators == newKubevirtTemplateValidators("ns")
Labellers == newKubevirtNodeLabellerBundles("ns")
AllValidators == newKubevirtTemplateValidators("")
Templates == newKubevirtCommonTemplatesBundles("ns")
Metrics == newKubevirtMetricsAggregations("ns")

Method(op, c, name) ==
  [op |-> op, client |-> c, name |-> name, body |-> NoBody, sel |-> Everything,
   sub |-> "", data |-> Nothing]
Sending(op, c, name, o) == [Method(op, c, name) EXCEPT !.body = Body(name, o)]
Selecting(op, c, sel) == [Method(op, c, "") EXCEPT !.sel = sel]
Patching(c, name, sub, datum) == [Method("Patch", c, name) EXCEPT !.sub = sub, !.data = datum]

New(label) == Object(label, "a", "s", 0)
Labelled == [Everything EXCEPT !.label = "x"]
NamedB == [Everything EXCEPT !.field = "b"]

\* A program in which each caller keeps to its part.
Shared(ps, qs) == [c \in Callers |-> IF c = "p" THEN ps ELSE qs]

Created == {Sending("Create", Validators, "a", New("x")), Sending("Create", Validators, "b", New("y"))}

\* Collections, other resources and empty names.
Collections ==
  Shared(Created \cup
         {Sending("Create", Labellers, "a", New("x")), Sending("Create", AllValidators, "a", New("x")),
          Method("Delete", Validators, "a"), Patching(Validators, "a", "", "b")},
         {Method("Delete", Validators, ""), Method("Delete", AllValidators, "a"),
          Method("Get", Validators, ""), Selecting("DeleteCollection", Validators, Labelled),
          Selecting("DeleteCollection", AllValidators, NamedB),
          Selecting("List", AllValidators, Labelled)})

\* One object read and written by two.
Updates == {Sending("Update", Templates, "a", Object("x", "b", "s", rv)) : rv \in 0..2}
StatusUpdates == {Sending("UpdateStatus", Templates, "a", Object("y", "b", "s", rv)) : rv \in 1..2}

Writes ==
  Shared({Sending("Create", Templates, "a", New("x")), Method("Delete", Templates, "a"),
          Method("Get", Metrics, "a")} \cup StatusUpdates,
         {Method("Get", Templates, "a"), Patching(Templates, "a", "", "b")} \cup Updates)

MCPrograms == {Collections, Writes}

Symmetry == Permutations(Slots)

================================================================================
