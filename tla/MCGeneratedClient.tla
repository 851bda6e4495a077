---------------------------- MODULE MCGeneratedClient ----------------------------
(* GeneratedClient for TLC. *)
EXTENDS GeneratedClient, Integers

Selector(l) == [label |-> l, field |-> ""]

MCAllocations == 0..5

\* One informer of all namespaces for what has a label, one of a namespace.
MCInformers == {[namespace |-> "", tweak |-> Selector("x")], [namespace |-> "n", tweak |-> Selector("")]}

\* Everything, one label, one name.
MCSelectors == {Selector(""), Selector("x"), [label |-> "", field |-> "a"]}

\* Every constructor with a limiter given, and with rate and burst given, left out or, the
\* rate, switched off.
Config(rateLimiter, qps, burst) == [RateLimiter |-> rateLimiter, QPS |-> qps, Burst |-> burst]
MCCases ==
  {"NewForConfig", "NewForConfigOrDie", "New"} \X
    ({Config([name |-> "given", qps |-> 2, burst |-> 3], 1, 1)}
     \cup {Config(Nil, qps, burst) : qps \in {-1, 0, 2}, burst \in {0, 3}})

================================================================================
