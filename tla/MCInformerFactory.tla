--------------------------- MODULE MCInformerFactory ---------------------------
(* InformerFactory for TLC: programs with two goroutines p and q. *)
EXTENDS InformerFactory, TLC

Validators == "kubevirttemplatevalidators"
Labellers == "kubevirtnodelabellerbundles"

Program(options, pAsks, qAsks, stops) ==
  [options |-> options, asks |-> [g \in Procs |-> IF g = "p" THEN pAsks ELSE qAsks],
   stops |-> [g \in Procs |-> stops]]

Resync(periods) == [with |-> "resync", arg |-> periods]
Namespace(ns) == [with |-> "namespace", arg |-> ns]

\* Options that come through the deprecated constructor, that add to one another, that
\* override one another, and two periods for one kind.
Configuring ==
  {Program(options, Kinds \cup {OtherResource}, {}, {}) : options \in
    {NewFilteredSharedInformerFactory("ns", "selector"),
     <<Resync({<<Validators, "long">>}), Resync({<<Labellers, "short">>})>>,
     <<Namespace("other"), Resync({<<Validators, "long">>}), Namespace("ns"),
       Resync({<<Validators, r>> : r \in {"short", "long"}})>>}}

MCPrograms ==
  Configuring \cup {Program(<<>>, {Validators}, {Labellers}, {"ch"}),
                   Program(<<>>, {Validators}, {Validators}, {"ch", "other"})}

================================================================================
