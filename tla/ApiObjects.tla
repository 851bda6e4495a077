------------------------------- MODULE ApiObjects -------------------------------
(***************************************************************************)
(* The objects the API server keeps for the four resources of the group,   *)
(* and what it does with one: external to the repository, as its generated *)
(* clients use it.                                                         *)
(*                                                                         *)
(* A key is <<resource, namespace, name>>.  An object has one label, a     *)
(* spec, a status and a resourceVersion; the state is a function from the  *)
(* keys that exist, and the revision of the last write.  The resources     *)
(* have the status subresource (deploy/crds).                              *)
(***************************************************************************)
EXTENDS Naturals

CONSTANTS NoStatus,  \* the status of an object that never got one
          Nothing    \* no object in an answer

Object(label, spec, status, rv) ==
  [label |-> label, spec |-> spec, status |-> status, rv |-> rv]
IsObject(o) == o = Object(o.label, o.spec, o.status, o.rv)

\* What a caller passes: an object with its name; rv 0 is a resourceVersion left out.
Body(name, o) == [name |-> name, object |-> o]
NoBody == Body("", Nothing)

\* A label selector and a field selector on metadata.name; "" leaves one out.
Everything == [label |-> "", field |-> ""]
Selects(sel, k, o) == sel.label \in {"", o.label} /\ sel.field \in {"", k[3]}

\* What a request leaves behind and is answered with.
Outcome(objs, rev, err, answer) ==
  [objects |-> objs, revision |-> rev, answer |-> [err |-> err, value |-> answer]]
Refused(objs, rev, err) == Outcome(objs, rev, err, Nothing)

With(objs, k, o) == [j \in DOMAIN objs \cup {k} |-> IF j = k THEN o ELSE objs[j]]

Stored(objs, rev, k, o) ==
  IF k \in DOMAIN objs /\ o = objs[k] THEN Outcome(objs, rev, "", o)
  ELSE LET new == [o EXCEPT !.rv = rev + 1] IN Outcome(With(objs, k, new), rev + 1, "", new)

Read(objs, rev, k) ==
  IF k \in DOMAIN objs THEN Outcome(objs, rev, "", objs[k]) ELSE Refused(objs, rev, "NotFound")

\* The objects of a resource in a namespace, or in all of them if it is "".
Selected(objs, resource, ns, sel) ==
  {k \in DOMAIN objs : k[1] = resource /\ ns \in {"", k[2]} /\ Selects(sel, k, objs[k])}

Listed(objs, rev, resource, ns, sel) ==
  Outcome(objs, rev, "", [k \in Selected(objs, resource, ns, sel) |-> objs[k]])

\* A status sent with a new object is not stored.
Inserted(objs, rev, k, o) ==
  IF k[3] = "" THEN Refused(objs, rev, "Invalid")
  ELSE IF k \in DOMAIN objs THEN Refused(objs, rev, "AlreadyExists")
  ELSE IF o.rv # 0 THEN Refused(objs, rev, "BadRequest")
  ELSE Stored(objs, rev, k, [o EXCEPT !.status = NoStatus])

\* A custom resource's update must name the version it replaces.  Each of the two
\* endpoints stores its part and keeps the other's.
Replaced(objs, rev, k, sub, o) ==
  IF k \notin DOMAIN objs THEN Refused(objs, rev, "NotFound")
  ELSE IF o.rv = 0 THEN Refused(objs, rev, "Invalid")
  ELSE IF o.rv # objs[k].rv THEN Refused(objs, rev, "Conflict")
  ELSE Stored(objs, rev, k, IF sub = "status" THEN [objs[k] EXCEPT !.status = o.status]
                            ELSE [o EXCEPT !.status = objs[k].status])

\* A merge patch of the spec, or of the status through its endpoint.
Patched(objs, rev, k, sub, datum) ==
  IF k \notin DOMAIN objs THEN Refused(objs, rev, "NotFound")
  ELSE Stored(objs, rev, k, IF sub = "status" THEN [objs[k] EXCEPT !.status = datum]
                            ELSE [objs[k] EXCEPT !.spec = datum])

Removed(objs, rev, k) ==
  IF k \notin DOMAIN objs THEN Refused(objs, rev, "NotFound")
  ELSE Outcome([j \in DOMAIN objs \ {k} |-> objs[j]], rev + 1, "", Nothing)

================================================================================
