-------------------------------- MODULE Requests --------------------------------
(***************************************************************************)
(* The typed clients: each method builds one request for the REST client.  *)
(* The files of the four kinds differ in the resource and in the type only. *)
(***************************************************************************)
EXTENDS ApiObjects

\* A client of one resource in one namespace.
Client(resource, ns) == [resource |-> resource, ns |-> ns]
newKubevirtCommonTemplatesBundles(ns) == Client("kubevirtcommontemplatesbundles", ns)
newKubevirtMetricsAggregations(ns) == Client("kubevirtmetricsaggregations", ns)
newKubevirtNodeLabellerBundles(ns) == Client("kubevirtnodelabellerbundles", ns)
newKubevirtTemplateValidators(ns) == Client("kubevirttemplatevalidators", ns)

\* client.Verb().Namespace(c.ns).Resource("..."), to which the methods add.
Request(c, verb) ==
  [verb |-> verb, resource |-> c.resource, ns |-> c.ns, named |-> FALSE, name |-> "",
   sub |-> "", sel |-> Everything, watch |-> FALSE, body |-> NoBody, data |-> Nothing]
Named(r, name) == [r EXCEPT !.named = TRUE, !.name = name]

Get(c, name) == Named(Request(c, "GET"), name)
List(c, sel) == [Request(c, "GET") EXCEPT !.sel = sel]
Watch(c, sel) == [List(c, sel) EXCEPT !.watch = TRUE]
Create(c, body) == [Request(c, "POST") EXCEPT !.body = body]
Update(c, body) == [Named(Request(c, "PUT"), body.name) EXCEPT !.body = body]
UpdateStatus_whole(c, body) == Update(c, body)
UpdateStatus(c, body) == [Update(c, body) EXCEPT !.sub = "status"]
Delete(c, name) == Named(Request(c, "DELETE"), name)
DeleteCollection_unselected(c, sel) == Request(c, "DELETE")
DeleteCollection(c, sel) == [Request(c, "DELETE") EXCEPT !.sel = sel]
Patch(c, name, datum, sub) ==
  [Named(Request(c, "PATCH"), name) EXCEPT !.sub = sub, !.data = datum]

\* The REST client's checks before it sends anything (vendor/k8s.io/client-go/rest):
\* without them an empty name would turn the Delete of one object into that of all.
Malformed(r) ==
  \/ r.named /\ r.name = ""
  \/ r.verb \in {"GET", "PUT", "DELETE"} /\ r.named /\ r.ns = ""
  \/ r.verb = "POST" /\ r.ns = ""

================================================================================
