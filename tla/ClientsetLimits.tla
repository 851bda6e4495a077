----------------------------- MODULE ClientsetLimits -----------------------------
(***************************************************************************)
(* How a clientset is made of a REST configuration, and when its two       *)
(* clients, that of the group and that of discovery, may then send: each   *)
(* request takes a token of the bucket its client was given, or none if it *)
(* was given none.                                                         *)
(***************************************************************************)
EXTENDS Integers

CONSTANTS
  Cases,                   \* pairs of a constructor and a configuration
  DefaultQPS, DefaultBurst, \* the REST client's
  Nil                      \* no RateLimiter, in the configuration or for a client

VARIABLES
  made,       \* the constructor and the configuration
  limiter,    \* limiter[c]: the bucket of client c, or Nil
  tokens,     \* tokens[b]: what bucket b holds
  waiting     \* the clients that have a request to send

vars == <<made, limiter, tokens, waiting>>

Clients == {"kubevirtV1", "discovery"}
Config(rateLimiter, qps, burst) == [RateLimiter |-> rateLimiter, QPS |-> qps, Burst |-> burst]
Bucket(name, qps, burst) == [name |-> name, qps |-> qps, burst |-> burst]

--------------------------------------------------------------------------------
(* Constructors: from a configuration to the clients' buckets.                *)

\* A REST client without a limiter makes one if it has a rate.
NewRESTClient(client, qps, burst, rateLimiter) ==
  CASE rateLimiter # Nil -> rateLimiter
    [] rateLimiter = Nil /\ qps > 0 -> Bucket(client, qps, burst)
    [] OTHER -> Nil

\* For a client of a group zero means the default; for that of discovery it does not.
RESTClientFor(c, client) ==
  NewRESTClient(client, IF c.QPS = 0 THEN DefaultQPS ELSE c.QPS,
                IF c.Burst = 0 THEN DefaultBurst ELSE c.Burst, c.RateLimiter)
UnversionedRESTClientFor(c, client) == NewRESTClient(client, c.QPS, c.Burst, c.RateLimiter)

\* Both fill in a group, a path and a serializer, of their copies.
kubevirtv1_NewForConfig(c) == RESTClientFor(c, "kubevirtV1")
kubevirtv1_NewForConfigOrDie(c) == kubevirtv1_NewForConfig(c)
kubevirtv1_New(client) == client
discovery_NewForConfig(c) == UnversionedRESTClientFor(c, "discovery")

Clientset(kubevirtV1, discovery) == [kubevirtV1 |-> kubevirtV1, discovery |-> discovery]

\* The shallow copy gets a bucket for both clients if none is given and a rate is.
NewForConfig_always(c) ==
  LET copy == IF c.RateLimiter = Nil
              THEN [c EXCEPT !.RateLimiter = Bucket("shared", c.QPS, c.Burst)] ELSE c
  IN Clientset(kubevirtv1_NewForConfig(copy), discovery_NewForConfig(copy))
NewForConfig(c) ==
  LET copy == IF c.RateLimiter = Nil /\ c.QPS > 0
              THEN [c EXCEPT !.RateLimiter = Bucket("shared", c.QPS, c.Burst)] ELSE c
  IN Clientset(kubevirtv1_NewForConfig(copy), discovery_NewForConfig(copy))

NewForConfigOrDie(c) ==
  Clientset(kubevirtv1_NewForConfigOrDie(c), discovery_NewForConfig(c))

\* New takes a REST client that was made before.
New(client) == Clientset(kubevirtv1_New(client), client)

Made(constructor, c) ==
  CASE constructor = "NewForConfig" -> NewForConfig(c)
    [] constructor = "NewForConfigOrDie" -> NewForConfigOrDie(c)
    [] constructor = "New" -> New(RESTClientFor(c, "rest"))

--------------------------------------------------------------------------------

AtMost(n, m) == IF n < m THEN n ELSE m

Buckets == {limiter[c] : c \in Clients} \ {Nil}

\* A client has a request to send, and waits in Accept for a token.
Request(c) ==
  /\ c \notin waiting /\ waiting' = waiting \cup {c}
  /\ UNCHANGED <<made, limiter, tokens>>

Send(c) ==
  /\ c \in waiting /\ waiting' = waiting \ {c}
  /\ \/ limiter[c] = Nil /\ UNCHANGED tokens
     \/ /\ limiter[c] # Nil /\ tokens[limiter[c]] > 0
        /\ tokens' = [tokens EXCEPT ![limiter[c]] = @ - 1]
  /\ UNCHANGED <<made, limiter>>

\* A second passes.
Tick ==
  /\ tokens' = [b \in Buckets |-> AtMost(b.burst, tokens[b] + b.qps)]
  /\ UNCHANGED <<made, limiter, waiting>>

Init ==
  /\ made \in Cases
  /\ limiter = Made(made[1], made[2])
  /\ tokens = [b \in Buckets |-> b.burst]
  /\ waiting = {}

Next == Tick \/ \E c \in Clients : Request(c) \/ Send(c)

Spec == Init /\ [][Next]_vars

\* Time passes; the limiter serves those who wait in turn.
LiveSpec == Spec /\ WF_vars(Tick) /\ \A c \in Clients : SF_vars(Send(c))

--------------------------------------------------------------------------------

\* No request waits for ever, whatever constructor made the clientset and whatever the
\* configuration leaves out: a burst of zero means the default (vendor/k8s.io/client-go,
\* rest/config.go).
RequestsSent == \A c \in Clients : c \in waiting ~> c \notin waiting

\* None does but for a rate that comes with no burst: all else that a configuration may
\* leave out, or make negative, makes a bucket that fills up, or none.
SentIfBurst ==
  made[2].RateLimiter # Nil \/ made[2].QPS <= 0 \/ made[2].Burst > 0
    => \A c \in Clients : c \in waiting ~> c \notin waiting

================================================================================
