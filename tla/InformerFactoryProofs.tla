------------------------- MODULE InformerFactoryProofs -------------------------
(***************************************************************************)
(* The factory's promises to the goroutines that use it, for any number of *)
(* goroutines, kinds, channels and programs.  They rest on the mutex: what *)
(* a call knows of the two maps while it holds it stays so.                *)
(***************************************************************************)
EXTENDS InformerFactory, TLAPS

Ops == {"InformerFor", "Start", "WaitForCacheSync"}
Inside == Ops \cup {"new", "unlock"}
Results == UNION {[some -> BOOLEAN] : some \in SUBSET Kinds}

Calls ==
  [at : Inside \cup {"idle", "lock", "wait", "synced"}, op : Ops \cup {None},
   kind : Kinds \cup {None}, stop : Channels \cup {None}, left : SUBSET Kinds,
   id : Ids \cup {None}, res : Results]

Typed ==
  /\ lock \in Procs \cup {None}
  /\ informers \in [Kinds -> Ids \cup {None}]
  /\ started \in SUBSET Kinds
  /\ mine \in [Procs -> SUBSET Kinds]
  /\ got \in [Procs -> [Kinds -> Ids \cup {None}]]
  /\ proc \in [Procs -> Calls]

\* The mutex is held by the goroutine that is inside, and by no other.
Mutex == \A p \in Procs : lock = p <=> proc[p].at \in Inside

\* An informer is kept under its own kind, and what is started is registered.
Kept ==
  /\ \A k \in Kinds : informers[k] # None => informers[k][1] = k
  /\ started \subseteq Registered

\* A call c is where its operation leads.
Sound(c) ==
  /\ c.at = "lock" => c.op \in Ops
  /\ c.at \in Ops => c.op = c.at
  /\ c.at = "new" => c.op = "InformerFor"
  /\ c.at = "unlock" => c.op \in Ops
  /\ c.at = "wait" => c.op = "WaitForCacheSync"
  /\ c.at \in {"lock"} \cup Inside =>
       DOMAIN c.res = {} /\ (c.op = "InformerFor" => c.kind \in Kinds)

\* What it knows of the maps while it holds the mutex.
Knows(c) ==
  /\ c.at = "new" => informers[c.kind] = None
  /\ c.at = "unlock" /\ c.op = "InformerFor" => c.id # None /\ c.id = informers[c.kind]
  /\ c.at = "WaitForCacheSync" => c.left = Registered
  /\ c.at = "Start" => c.left \subseteq Registered /\ Registered \subseteq started \cup c.left
  /\ c.at = "unlock" /\ c.op = "Start" => Registered \subseteq started

Waiting(c) ==
  (c.at = "unlock" /\ c.op = "WaitForCacheSync") \/ c.at \in {"wait", "synced"}

\* It waits for what is started, and for all that its goroutine had started.
Waits(p, c) ==
  Waiting(c) =>
    /\ c.left \subseteq started /\ DOMAIN c.res \subseteq started
    /\ mine[p] \subseteq c.left \cup DOMAIN c.res
    /\ c.at = "synced" => c.left = {}
    /\ \A k \in DOMAIN c.res : c.res[k] => instance[informers[k]].synced

CallsKnow == \A p \in Procs : Sound(proc[p]) /\ Knows(proc[p]) /\ Waits(p, proc[p])

MineStarted == \A p \in Procs : mine[p] \subseteq started

\* An informer's record keeps its shape.
IsInformer(x) ==
  x \in [made : {x.made}, runs : {x.runs}, state : {x.state}, stop : {x.stop}, synced : {x.synced}]

Shaped ==
  /\ instance = [i \in Ids |-> instance[i]]
  /\ \A k \in Registered : IsInformer(instance[informers[k]])

Shared == <<informers, started, instance, got, mine>>

IInv ==
  /\ Typed /\ Mutex /\ Kept /\ CallsKnow /\ MineStarted /\ Shaped
  /\ OneInformer /\ RunOnce

--------------------------------------------------------------------------------

\* How the mutex goes along with a call that becomes c.
Handed(p, c) ==
  \/ lock' = lock /\ (c.at \in Inside <=> proc[p].at \in Inside)
  \/ lock = None /\ lock' = p /\ c.at \in Inside
  \/ proc[p].at \in Inside /\ lock' = None /\ c.at \notin Inside

LEMMA MutexKept ==
  ASSUME IInv, NEW p \in Procs, NEW c \in Calls, proc' = [proc EXCEPT ![p] = c], Handed(p, c)
  PROVE  /\ lock' \in Procs \cup {None} /\ proc' \in [Procs -> Calls] /\ Mutex'
         /\ proc'[p] = c /\ \A q \in Procs : q # p => proc'[q] = proc[q]
<1>1. /\ proc' \in [Procs -> Calls]
      /\ proc'[p] = c /\ \A q \in Procs : q # p => proc'[q] = proc[q]
  BY DEF IInv, Typed
<1>2. lock' \in Procs \cup {None}
  BY DEF IInv, Typed, Handed
<1>3. Mutex'
  BY <1>1, FactoryAssumption DEF IInv, Mutex, Handed
<1> QED
  BY <1>1, <1>2, <1>3

\* A step of a call that changes nothing but the call and the mutex.
LEMMA CallStep ==
  ASSUME IInv, UNCHANGED Shared, NEW p \in Procs, NEW c \in Calls,
         proc' = [proc EXCEPT ![p] = c], Handed(p, c), Sound(c), Knows(c), Waits(p, c)
  PROVE  IInv'
<1>1. /\ lock' \in Procs \cup {None} /\ proc' \in [Procs -> Calls] /\ Mutex'
      /\ proc'[p] = c /\ \A q \in Procs : q # p => proc'[q] = proc[q]
  BY MutexKept
<1>2. /\ informers' = informers /\ started' = started /\ instance' = instance
      /\ got' = got /\ mine' = mine
  BY DEF Shared
<1>3. Typed' /\ Kept' /\ MineStarted' /\ Shaped' /\ OneInformer' /\ RunOnce'
  BY <1>1, <1>2 DEF IInv, Typed, Kept, MineStarted, Shaped, OneInformer, RunOnce, Registered
<1>4. CallsKnow'
  <2> SUFFICES ASSUME NEW q \in Procs
               PROVE  (Sound(proc[q]) /\ Knows(proc[q]) /\ Waits(q, proc[q]))'
    BY DEF CallsKnow
  <2>1. Sound(proc'[q]) /\ Knows(proc'[q]) /\ Waits(q, proc'[q])
    BY <1>1 DEF IInv, CallsKnow
  <2> QED
    BY <1>2, <2>1 DEF Knows, Waits, Registered
<1> QED
  BY <1>1, <1>3, <1>4 DEF IInv

--------------------------------------------------------------------------------
(* The steps that change nothing but the call and the mutex.                   *)

\* The record of a goroutine that is in no call.
LEMMA IdleCall ==
  ASSUME NEW p \in Procs
  PROVE  /\ Idle \in Calls /\ Idle.at = "idle" /\ DOMAIN Idle.res = {} /\ Idle.left = {}
         /\ Sound(Idle) /\ Knows(Idle) /\ Waits(p, Idle)
<1>1. [k \in {} |-> TRUE] \in Results /\ DOMAIN [k \in {} |-> TRUE] = {}
  <2>1. [k \in {} |-> TRUE] \in [{} -> BOOLEAN]
    OBVIOUS
  <2> QED
    BY <2>1 DEF Results
<1>2. Idle \in Calls
  BY <1>1 DEF Idle, Calls
<1>3. Idle.at = "idle" /\ Idle.left = {} /\ Idle.res = [k \in {} |-> TRUE]
  BY DEF Idle
<1>4. Sound(Idle) /\ Knows(Idle) /\ Waits(p, Idle)
  BY <1>3 DEF Sound, Knows, Waits, Waiting, Inside, Ops
<1> QED
  BY <1>1, <1>2, <1>3, <1>4

LEMMA CallKeeps ==
  ASSUME IInv, NEW p \in Procs, NEW op \in Ops, NEW kind \in Kinds \cup {None},
         NEW stop \in Channels \cup {None}, op = "InformerFor" => kind \in Kinds, Call(p, op, kind, stop)
  PROVE  IInv'
<1> DEFINE c == [Idle EXCEPT !.at = "lock", !.op = op, !.kind = kind, !.stop = stop]
<1>1. proc' = [proc EXCEPT ![p] = c] /\ UNCHANGED Shared /\ lock' = lock /\ proc[p].at = "idle"
  BY DEF Call, Shared
<1>3. /\ c \in Calls /\ c.at = "lock" /\ c.op = op /\ c.kind = kind /\ DOMAIN c.res = {}
  BY IdleCall DEF Calls
<1>5. Sound(c) /\ Knows(c) /\ Waits(p, c) /\ Handed(p, c)
  BY <1>1, <1>3 DEF Sound, Knows, Waits, Waiting, Handed, Inside, Ops
<1> HIDE DEF c
<1> QED
  BY <1>1, <1>3, <1>5, CallStep

\* The call in hand.
LEMMA CallTyped ==
  ASSUME IInv, NEW p \in Procs
  PROVE  /\ proc[p] \in Calls /\ Sound(proc[p]) /\ Knows(proc[p]) /\ Waits(p, proc[p])
         /\ Registered \in SUBSET Kinds /\ started \in SUBSET Kinds /\ started \subseteq Registered
BY DEF IInv, Typed, CallsKnow, Registered, Kept

LEMMA LockKeeps == ASSUME IInv, NEW p \in Procs, Lock(p) PROVE IInv'
<1> DEFINE c == [proc[p] EXCEPT !.at = proc[p].op, !.left = Registered]
<1>1. /\ proc' = [proc EXCEPT ![p] = c] /\ UNCHANGED Shared
      /\ lock = None /\ lock' = p /\ proc[p].at = "lock"
  BY DEF Lock, Shared
<1>2. /\ c.at = proc[p].op /\ c.op = proc[p].op /\ c.kind = proc[p].kind /\ c.left = Registered
      /\ c.res = proc[p].res /\ c \in Calls
  BY <1>1, CallTyped DEF Calls, Sound, Inside
<1> HIDE DEF c
<1>3. Sound(c) /\ Knows(c) /\ Waits(p, c) /\ Handed(p, c)
  BY <1>1, <1>2, CallTyped DEF Sound, Knows, Waits, Waiting, Handed, Inside, Ops
<1> QED
  BY <1>1, <1>2, <1>3, CallStep

LEMMA LookupKeeps == ASSUME IInv, NEW p \in Procs, Lookup(p) PROVE IInv'
<1> DEFINE c == [proc[p] EXCEPT !.at = IF informers[proc[p].kind] = None THEN "new" ELSE "unlock",
                                !.id = informers[proc[p].kind]]
<1>1. /\ proc' = [proc EXCEPT ![p] = c] /\ UNCHANGED Shared
      /\ lock' = lock /\ proc[p].at = "InformerFor"
  BY DEF Lookup, Shared
<1>2. proc[p].op = "InformerFor" /\ proc[p].kind \in Kinds
  BY <1>1, CallTyped DEF Sound, Inside, Ops
<1>3. /\ c.at = IF informers[proc[p].kind] = None THEN "new" ELSE "unlock"
      /\ c.id = informers[proc[p].kind] /\ c.op = "InformerFor" /\ c.kind = proc[p].kind
      /\ c.res = proc[p].res /\ c \in Calls
  BY <1>1, <1>2, CallTyped DEF Calls, Inside, IInv, Typed
<1> HIDE DEF c
<1>4. Sound(c) /\ Knows(c) /\ Waits(p, c) /\ Handed(p, c)
  BY <1>1, <1>2, <1>3, CallTyped DEF Sound, Knows, Waits, Waiting, Handed, Inside, Ops
<1> QED
  BY <1>1, <1>3, <1>4, CallStep

LEMMA StartDoneKeeps == ASSUME IInv, NEW p \in Procs, StartDone(p) PROVE IInv'
<1> DEFINE c == [proc[p] EXCEPT !.at = "unlock"]
<1>1. /\ proc' = [proc EXCEPT ![p] = c] /\ UNCHANGED Shared
      /\ lock' = lock /\ proc[p].at = "Start" /\ proc[p].left = {}
  BY DEF StartDone, Shared
<1>2. /\ c.at = "unlock" /\ c.op = "Start" /\ c.kind = proc[p].kind
      /\ c.res = proc[p].res /\ c \in Calls
  BY <1>1, CallTyped DEF Calls, Inside, Sound, Ops
<1> HIDE DEF c
<1>3. Sound(c) /\ Knows(c) /\ Waits(p, c) /\ Handed(p, c)
  BY <1>1, <1>2, CallTyped DEF Sound, Knows, Waits, Waiting, Handed, Inside, Ops
<1> QED
  BY <1>1, <1>2, <1>3, CallStep

LEMMA SnapshotKeeps == ASSUME IInv, NEW p \in Procs, Snapshot(p) PROVE IInv'
<1> DEFINE c == [proc[p] EXCEPT !.at = "unlock", !.left = @ \cap started]
<1>1. /\ proc' = [proc EXCEPT ![p] = c] /\ UNCHANGED Shared
      /\ lock' = lock /\ proc[p].at = "WaitForCacheSync"
  BY DEF Snapshot, Shared
<1>2. /\ c.at = "unlock" /\ c.op = "WaitForCacheSync" /\ c.kind = proc[p].kind
      /\ c.left = proc[p].left \cap started /\ c.res = proc[p].res /\ c \in Calls
  BY <1>1, CallTyped DEF Calls, Inside, Sound, Ops
<1> HIDE DEF c
<1>3. c.left = started /\ DOMAIN c.res = {} /\ mine[p] \subseteq started
  BY <1>1, <1>2, CallTyped DEF Knows, Sound, Inside, Ops, IInv, MineStarted
<1>4. Sound(c) /\ Knows(c) /\ Waits(p, c) /\ Handed(p, c)
  BY <1>1, <1>2, <1>3, CallTyped DEF Sound, Knows, Waits, Waiting, Handed, Inside, Ops
<1> QED
  BY <1>1, <1>2, <1>4, CallStep

LEMMA WaitOneKeeps == ASSUME IInv, NEW p \in Procs, WaitOne(p) PROVE IInv'
<1>1. PICK k \in proc[p].left, synced \in BOOLEAN :
        /\ IF synced THEN instance[informers[k]].synced ELSE proc[p].stop \in closed
        /\ proc' = [proc EXCEPT ![p].left = @ \ {k},
                                ![p].res = [j \in DOMAIN @ \cup {k} |-> IF j = k THEN synced ELSE @[j]]]
  BY DEF WaitOne
<1> DEFINE res == [j \in DOMAIN proc[p].res \cup {k} |-> IF j = k THEN synced ELSE proc[p].res[j]]
           c == [proc[p] EXCEPT !.left = @ \ {k}, !.res = res]
<1>2. /\ proc' = [proc EXCEPT ![p] = c] /\ UNCHANGED Shared /\ lock' = lock /\ proc[p].at = "wait"
  BY <1>1 DEF WaitOne, Shared
<1>3. k \in Kinds /\ proc[p].left \subseteq started /\ proc[p].op = "WaitForCacheSync"
  BY <1>2, CallTyped DEF Calls, Waits, Waiting, Sound
<1>4. res \in Results
  <2>1. PICK some \in SUBSET Kinds : proc[p].res \in [some -> BOOLEAN]
    BY CallTyped DEF Calls, Results
  <2>2. res \in [some \cup {k} -> BOOLEAN] /\ some \cup {k} \in SUBSET Kinds
    BY <1>3, <2>1
  <2> HIDE DEF res
  <2> QED
    BY <2>2 DEF Results
<1>5. /\ DOMAIN res = DOMAIN proc[p].res \cup {k} /\ res[k] = synced
      /\ \A j \in DOMAIN proc[p].res : j # k => res[j] = proc[p].res[j]
  OBVIOUS
<1> HIDE DEF res
<1>6. /\ c.at = "wait" /\ c.op = proc[p].op /\ c.kind = proc[p].kind
      /\ c.left = proc[p].left \ {k} /\ c.res = res /\ c \in Calls
  BY <1>2, <1>4, CallTyped DEF Calls
<1> HIDE DEF c
<1>7. Sound(c) /\ Knows(c) /\ Handed(p, c)
  BY <1>2, <1>3, <1>6 DEF Sound, Knows, Handed, Inside, Ops
<1>8. Waits(p, c)
  <2>1. /\ proc[p].left \subseteq started /\ DOMAIN proc[p].res \subseteq started
        /\ mine[p] \subseteq proc[p].left \cup DOMAIN proc[p].res
        /\ \A j \in DOMAIN proc[p].res : proc[p].res[j] => instance[informers[j]].synced
    BY <1>2, CallTyped DEF Waits, Waiting
  <2>2. \A j \in DOMAIN c.res : c.res[j] => instance[informers[j]].synced
    BY <1>1, <1>5, <1>6, <2>1
  <2>3. /\ c.left \subseteq started /\ DOMAIN c.res \subseteq started
        /\ mine[p] \subseteq c.left \cup DOMAIN c.res
    BY <1>5, <1>6, <2>1
  <2> QED
    BY <1>6, <2>2, <2>3 DEF Waits
<1> QED
  BY <1>2, <1>6, <1>7, <1>8, CallStep

LEMMA WaitDoneKeeps == ASSUME IInv, NEW p \in Procs, WaitDone(p) PROVE IInv'
<1> DEFINE c == [Idle EXCEPT !.at = "synced", !.res = proc[p].res]
<1>1. /\ proc' = [proc EXCEPT ![p] = c] /\ UNCHANGED Shared
      /\ lock' = lock /\ proc[p].at = "wait" /\ proc[p].left = {}
  BY DEF WaitDone, Shared
<1>2. c \in Calls /\ c.at = "synced" /\ c.left = {} /\ c.res = proc[p].res
  BY CallTyped, IdleCall DEF Calls
<1> HIDE DEF c
<1>4. Sound(c) /\ Knows(c) /\ Waits(p, c) /\ Handed(p, c)
  BY <1>1, <1>2, CallTyped DEF Sound, Knows, Waits, Waiting, Handed, Inside, Ops
<1> QED
  BY <1>1, <1>2, <1>4, CallStep

LEMMA ProceedKeeps == ASSUME IInv, NEW p \in Procs, Proceed(p) PROVE IInv'
<1>1. /\ proc' = [proc EXCEPT ![p] = Idle] /\ UNCHANGED Shared
      /\ lock' = lock /\ proc[p].at = "synced"
  BY DEF Proceed, Shared
<1>2. Handed(p, Idle)
  BY <1>1, IdleCall DEF Handed, Inside, Ops
<1> QED
  BY <1>1, <1>2, IdleCall, CallStep

LEMMA UnlockWaitKeeps ==
  ASSUME IInv, NEW p \in Procs, proc[p].at = "unlock", proc[p].op = "WaitForCacheSync",
         lock' = None, proc' = [proc EXCEPT ![p].at = "wait"], UNCHANGED Shared
  PROVE  IInv'
<1> DEFINE c == [proc[p] EXCEPT !.at = "wait"]
<1>1. proc' = [proc EXCEPT ![p] = c]
  OBVIOUS
<1>2. /\ c.at = "wait" /\ c.op = "WaitForCacheSync" /\ c.kind = proc[p].kind
      /\ c.left = proc[p].left /\ c.res = proc[p].res /\ c \in Calls
  BY CallTyped DEF Calls, Inside
<1> HIDE DEF c
<1>3. Sound(c) /\ Knows(c) /\ Waits(p, c) /\ Handed(p, c)
  BY <1>2, CallTyped DEF Sound, Knows, Waits, Waiting, Handed, Inside, Ops
<1> QED
  BY <1>1, <1>2, <1>3, CallStep

--------------------------------------------------------------------------------
(* The steps that change the maps, and what the calls of others rely on.       *)

\* Who is not inside knows nothing that a step inside could make untrue.
LEMMA OutsideKnows ==
  ASSUME IInv, NEW p \in Procs, proc[p].at \in Inside, NEW q \in Procs, q # p
  PROVE  proc[q].at \notin Inside
BY FactoryAssumption DEF IInv, Mutex

LEMMA UnlockInformerForKeeps ==
  ASSUME IInv, NEW p \in Procs, proc[p].at = "unlock", proc[p].op = "InformerFor",
         got' = [got EXCEPT ![p][proc[p].kind] = proc[p].id], lock' = None,
         proc' = [proc EXCEPT ![p] = Idle], UNCHANGED <<mine, informers, started, instance>>
  PROVE  IInv'
<1>1. Handed(p, Idle)
  BY IdleCall DEF Handed, Inside, Ops
<1>2. /\ lock' \in Procs \cup {None} /\ proc' \in [Procs -> Calls] /\ Mutex'
      /\ proc'[p] = Idle /\ \A q \in Procs : q # p => proc'[q] = proc[q]
  BY <1>1, IdleCall, MutexKept
<1>3. proc[p].kind \in Kinds /\ proc[p].id = informers[proc[p].kind]
  BY CallTyped DEF Sound, Knows, Inside, Ops
<1>4. Typed' /\ Kept' /\ MineStarted' /\ Shaped' /\ RunOnce'
  BY <1>2, <1>3 DEF IInv, Typed, Kept, MineStarted, Shaped, RunOnce, Registered
<1>5. OneInformer'
  <2>1. \A q \in Procs, k \in Kinds : got'[q][k] = got[q][k] \/ got'[q][k] = informers[k]
    BY <1>3 DEF IInv, Typed
  <2> QED
    BY <2>1 DEF IInv, OneInformer
<1>6. CallsKnow'
  <2> SUFFICES ASSUME NEW q \in Procs
               PROVE  (Sound(proc[q]) /\ Knows(proc[q]) /\ Waits(q, proc[q]))'
    BY DEF CallsKnow
  <2>1. Sound(proc'[q]) /\ Knows(proc'[q]) /\ Waits(q, proc'[q])
    BY <1>2, IdleCall DEF IInv, CallsKnow
  <2> QED
    BY <2>1 DEF Knows, Waits, Registered
<1> QED
  BY <1>2, <1>4, <1>5, <1>6 DEF IInv

LEMMA UnlockStartKeeps ==
  ASSUME IInv, NEW p \in Procs, proc[p].at = "unlock", proc[p].op = "Start",
         mine' = [mine EXCEPT ![p] = {k \in Kinds : got[p][k] # None}], lock' = None,
         proc' = [proc EXCEPT ![p] = Idle], UNCHANGED <<got, informers, started, instance>>
  PROVE  IInv'
<1>1. Handed(p, Idle)
  BY IdleCall DEF Handed, Inside, Ops
<1>2. /\ lock' \in Procs \cup {None} /\ proc' \in [Procs -> Calls] /\ Mutex'
      /\ proc'[p] = Idle /\ \A q \in Procs : q # p => proc'[q] = proc[q]
  BY <1>1, IdleCall, MutexKept
<1>3. {k \in Kinds : got[p][k] # None} \subseteq started
  <2>1. Knows(proc[p]) /\ OneInformer
    BY CallTyped DEF IInv
  <2> QED
    BY <2>1 DEF Knows, Registered, OneInformer
<1>4. /\ mine' \in [Procs -> SUBSET Kinds] /\ mine'[p] = {k \in Kinds : got[p][k] # None}
      /\ \A q \in Procs : q # p => mine'[q] = mine[q]
  BY DEF IInv, Typed
<1>5. Typed' /\ Kept' /\ MineStarted' /\ Shaped' /\ OneInformer' /\ RunOnce'
  <2>1. Typed'
    BY <1>2, <1>4 DEF IInv, Typed
  <2>2. MineStarted'
    BY <1>3, <1>4 DEF IInv, MineStarted
  <2>3. Kept' /\ Shaped' /\ OneInformer' /\ RunOnce'
    BY DEF IInv, Kept, Shaped, OneInformer, RunOnce, Registered
  <2> QED
    BY <2>1, <2>2, <2>3
<1>6. CallsKnow'
  <2> SUFFICES ASSUME NEW q \in Procs
               PROVE  (Sound(proc[q]) /\ Knows(proc[q]) /\ Waits(q, proc[q]))'
    BY DEF CallsKnow
  <2>1. CASE q = p
    BY <1>2, <2>1, IdleCall DEF Sound, Knows, Waits, Waiting, Inside, Ops
  <2>2. CASE q # p
    <3>1. Sound(proc'[q]) /\ Knows(proc'[q]) /\ Waits(q, proc'[q])
      BY <1>2, <2>2 DEF IInv, CallsKnow
    <3> QED
      BY <1>4, <2>2, <3>1 DEF Knows, Waits, Registered
  <2> QED
    BY <2>1, <2>2
<1> QED
  BY <1>2, <1>5, <1>6 DEF IInv

LEMMA UnlockKeeps == ASSUME IInv, NEW p \in Procs, Unlock(p) PROVE IInv'
BY UnlockWaitKeeps, UnlockInformerForKeeps, UnlockStartKeeps DEF Unlock, Shared

\* A new informer replaces none: its kind was not registered, so nobody has one of it.
LEMMA NewInformerKeeps == ASSUME IInv, NEW p \in Procs, NewInformer(p) PROVE IInv'
<1> DEFINE kind == proc[p].kind
           new == <<kind, p>>
           x == [made |-> defaultInformer(kind, factory.resync[kind]),
                 runs |-> 0, state |-> "new", stop |-> None, synced |-> FALSE]
           c == [proc[p] EXCEPT !.at = "unlock", !.id = new]
<1>1. /\ proc[p].at = "new" /\ instance' = [instance EXCEPT ![new] = x]
      /\ informers' = [informers EXCEPT ![kind] = new] /\ proc' = [proc EXCEPT ![p] = c]
      /\ UNCHANGED <<lock, started, got, mine>>
  BY DEF NewInformer
<1>2. kind \in Kinds /\ informers[kind] = None /\ proc[p].op = "InformerFor"
  BY <1>1, CallTyped DEF Sound, Knows, Inside, Ops
<1>3. new \in Ids /\ new[1] = kind /\ new # None
  BY <1>2, FactoryAssumption DEF Ids
<1>4. IsInformer(x) /\ x.runs = 0
  BY DEF IsInformer
<1>5. /\ c.at = "unlock" /\ c.op = "InformerFor" /\ c.kind = kind /\ c.id = new
      /\ c.res = proc[p].res /\ c \in Calls
  <2>1. proc[p] \in Calls
    BY CallTyped
  <2>2. "unlock" \in Inside
    BY DEF Inside
  <2> HIDE DEF new
  <2>3. c.at = "unlock" /\ c.op = proc[p].op /\ c.kind = kind /\ c.id = new /\ c.res = proc[p].res
    BY <2>1 DEF Calls
  <2>4. c \in Calls
    BY <1>3, <2>1, <2>2 DEF Calls
  <2> QED
    BY <1>2, <2>3, <2>4
<1> HIDE DEF x, new, c
<1>6. /\ informers'[kind] = new /\ instance'[new] = x
      /\ informers' \in [Kinds -> Ids \cup {None}]
      /\ \A k \in Kinds : k # kind => informers'[k] = informers[k]
      /\ \A i \in Ids : i # new => instance'[i] = instance[i]
      /\ instance' = [i \in Ids |-> instance'[i]]
  BY <1>1, <1>2, <1>3 DEF IInv, Typed, Shaped
<1>7. \A k \in Registered : /\ k \in Kinds /\ k # kind /\ informers[k] \in Ids /\ informers[k] # new
                            /\ informers'[k] = informers[k] /\ instance'[informers[k]] = instance[informers[k]]
  BY <1>2, <1>3, <1>6 DEF IInv, Kept, Typed, Registered
<1>8. Registered' = Registered \cup {kind} /\ started \subseteq Registered /\ started' = started
  BY <1>1, <1>2, <1>3, <1>6 DEF Registered, IInv, Kept
<1>9. Handed(p, c)
  BY <1>1, <1>5 DEF Handed, Inside
<1>10. /\ lock' \in Procs \cup {None} /\ proc' \in [Procs -> Calls] /\ Mutex'
       /\ proc'[p] = c /\ \A q \in Procs : q # p => proc'[q] = proc[q]
  BY <1>1, <1>5, <1>9, MutexKept
<1>11. Typed' /\ MineStarted'
  BY <1>1, <1>6, <1>10 DEF IInv, Typed, MineStarted
<1>12. Kept'
  BY <1>3, <1>6, <1>8 DEF IInv, Kept
<1>13. Shaped'
  BY <1>4, <1>6, <1>7, <1>8 DEF IInv, Shaped
<1>14. RunOnce'
  BY <1>4, <1>2, <1>6, <1>7, <1>8 DEF IInv, RunOnce, Registered
<1>15. OneInformer'
  <2> SUFFICES ASSUME NEW k \in Kinds
               PROVE  /\ \A q \in Procs : got[q][k] # None => got[q][k] = informers'[k]
                      /\ \A i \in Ids : i[1] = k /\ instance'[i] # None => informers'[k] = i
    BY <1>1 DEF OneInformer
  <2>1. /\ \A q \in Procs : got[q][k] # None => got[q][k] = informers[k]
        /\ \A i \in Ids : i[1] = k /\ instance[i] # None => informers[k] = i
    BY DEF IInv, OneInformer
  <2>2. CASE k = kind
    <3>1. \A i \in Ids : i[1] = k /\ i # new => instance'[i] = None
      BY <1>2, <1>6, <2>1, <2>2, FactoryAssumption
    <3> QED
      BY <1>2, <1>6, <2>1, <2>2, <3>1
  <2>3. CASE k # kind
    BY <1>3, <1>6, <2>1, <2>3
  <2> QED
    BY <2>2, <2>3
<1>16. CallsKnow'
  <2> SUFFICES ASSUME NEW q \in Procs
               PROVE  (Sound(proc[q]) /\ Knows(proc[q]) /\ Waits(q, proc[q]))'
    BY DEF CallsKnow
  <2>1. CASE q = p
    <3>1. Sound(c)
      BY <1>1, <1>2, <1>5, CallTyped DEF Sound, Inside, Ops
    <3>2. Knows(proc[q])'
      BY <1>3, <1>5, <1>6, <1>10, <2>1 DEF Knows
    <3>3. Waits(q, proc[q])'
      BY <1>5, <1>10, <2>1 DEF Waits, Waiting
    <3> QED
      BY <1>10, <2>1, <3>1, <3>2, <3>3
  <2>2. CASE q # p
    <3>1. proc'[q] = proc[q] /\ proc[q].at \notin Inside
      BY <1>1, <1>10, <2>2, OutsideKnows DEF Inside
    <3>2. Sound(proc[q]) /\ Waits(q, proc[q])
      BY DEF IInv, CallsKnow
    <3>3. Knows(proc[q])'
      BY <3>1 DEF Knows, Inside, Ops
    <3>4. Waits(q, proc[q])'
      BY <1>1, <1>7, <1>8, <3>1, <3>2 DEF Waits
    <3> QED
      BY <3>1, <3>2, <3>3, <3>4
  <2> QED
    BY <2>1, <2>2
<1> QED
  BY <1>10, <1>11, <1>12, <1>13, <1>14, <1>15, <1>16 DEF IInv

\* An informer's record changes, but for what the invariant reads of it.
LEMMA InformerChanges ==
  ASSUME IInv, UNCHANGED <<lock, informers, started, proc, got, mine>>,
         NEW i \in Ids, instance[i] # None, NEW x, instance' = [instance EXCEPT ![i] = x],
         IsInformer(instance[i]) => IsInformer(x) /\ x.runs = instance[i].runs
                                    /\ (instance[i].synced => x.synced)
  PROVE  IInv'
<1>1. i[1] \in Kinds /\ informers[i[1]] = i /\ i # None
  BY FactoryAssumption DEF IInv, OneInformer, Ids
<1>2. i[1] \in Registered /\ IsInformer(instance[i])
  BY <1>1 DEF Registered, IInv, Shaped
<1>3. /\ instance'[i] = x /\ \A j \in Ids : j # i => instance'[j] = instance[j]
      /\ instance' = [j \in Ids |-> instance'[j]]
  BY DEF IInv, Shaped
<1>4. \A k \in Registered : informers[k] \in Ids
  BY DEF Registered, IInv, Typed
<1>5. Typed' /\ Mutex' /\ Kept' /\ MineStarted' /\ Registered' = Registered
  BY DEF IInv, Typed, Mutex, Kept, MineStarted, Registered
<1>6. Shaped' /\ RunOnce'
  BY <1>2, <1>3, <1>4, <1>5 DEF IInv, Shaped, RunOnce
<1>7. OneInformer'
  BY <1>1, <1>3 DEF IInv, OneInformer
<1>8. CallsKnow'
  <2> SUFFICES ASSUME NEW q \in Procs
               PROVE  (Sound(proc[q]) /\ Knows(proc[q]) /\ Waits(q, proc[q]))'
    BY DEF CallsKnow
  <2>1. Sound(proc[q]) /\ Knows(proc[q]) /\ Waits(q, proc[q])
    BY DEF IInv, CallsKnow
  <2>2. Knows(proc[q])'
    BY <1>5, <2>1 DEF Knows
  <2>3. \A k \in started : instance[informers[k]].synced => instance'[informers[k]].synced
    BY <1>2, <1>3, <1>4 DEF IInv, Kept
  <2>4. Waits(q, proc[q])'
    BY <2>1, <2>3 DEF Waits
  <2> QED
    BY <2>1, <2>2, <2>4
<1> QED
  BY <1>5, <1>6, <1>7, <1>8 DEF IInv

LEMMA SyncedSet ==
  ASSUME NEW old, IsInformer(old)
  PROVE  LET x == [old EXCEPT !.synced = TRUE]
         IN IsInformer(x) /\ x.runs = old.runs /\ x.synced
BY DEF IsInformer

LEMMA SyncKeeps == ASSUME IInv, NEW i \in Ids, Sync(i) PROVE IInv'
<1> DEFINE x == [instance[i] EXCEPT !.synced = TRUE]
<1>1. /\ instance[i] # None /\ instance' = [instance EXCEPT ![i] = x]
      /\ UNCHANGED <<lock, informers, started, proc, got, mine>>
  BY DEF Sync
<1>2. ASSUME IsInformer(instance[i])
      PROVE  IsInformer(x) /\ x.runs = instance[i].runs /\ x.synced
  BY <1>2, SyncedSet
<1> HIDE DEF x
<1> QED
  BY <1>1, <1>2, InformerChanges

LEMMA RunEndsKeeps == ASSUME IInv, NEW i \in Ids, RunEnds(i) PROVE IInv'
<1> DEFINE x == [instance[i] EXCEPT !.state = "ended"]
<1>1. /\ instance[i] # None /\ instance' = [instance EXCEPT ![i] = x]
      /\ UNCHANGED <<lock, informers, started, proc, got, mine>>
  BY DEF RunEnds
<1>2. IsInformer(instance[i]) =>
        IsInformer(x) /\ x.runs = instance[i].runs /\ x.synced = instance[i].synced
  BY DEF IsInformer
<1> HIDE DEF x
<1> QED
  BY <1>1, <1>2, InformerChanges

LEMMA RunSet ==
  ASSUME NEW old, IsInformer(old), old.runs = 0, NEW stop
  PROVE  IsInformer(Run(old, stop)) /\ Run(old, stop).runs = 1 /\ Run(old, stop).synced = old.synced
<1>1. ASSUME NEW runs, NEW state
      PROVE  LET x == [old EXCEPT !.runs = runs, !.state = state, !.stop = stop]
             IN IsInformer(x) /\ x.runs = runs /\ x.synced = old.synced
  BY DEF IsInformer
<1>2. /\ IsInformer(Run(old, stop)) /\ Run(old, stop).runs = old.runs + 1
      /\ Run(old, stop).synced = old.synced
  BY <1>1, Zenon DEF Run
<1> QED
  BY <1>2

\* Start runs what nobody has run, and leaves the others alone.
LEMMA StartOneKeeps == ASSUME IInv, NEW p \in Procs, StartOne(p) PROVE IInv'
<1>1. PICK k \in proc[p].left :
        /\ proc' = [proc EXCEPT ![p].left = @ \ {k}]
        /\ IF k \in started THEN UNCHANGED <<started, instance>>
           ELSE /\ started' = started \cup {k}
                /\ instance' = [instance EXCEPT ![informers[k]] = Run(instance[informers[k]], proc[p].stop)]
  BY DEF StartOne
<1> DEFINE c == [proc[p] EXCEPT !.left = @ \ {k}]
<1>2. /\ proc' = [proc EXCEPT ![p] = c] /\ UNCHANGED <<lock, informers, got, mine>>
      /\ proc[p].at = "Start"
  BY <1>1 DEF StartOne
<1>3. /\ c.at = "Start" /\ c.op = "Start" /\ c.kind = proc[p].kind /\ c.left = proc[p].left \ {k}
      /\ c.res = proc[p].res /\ c \in Calls
  BY <1>2, CallTyped DEF Calls, Sound, Ops
<1> HIDE DEF c
<1>4. Sound(c) /\ Handed(p, c)
  BY <1>2, <1>3, CallTyped DEF Sound, Handed, Inside, Ops
<1>5. k \in Registered /\ k \in Kinds /\ Registered \subseteq started \cup proc[p].left
      /\ proc[p].left \subseteq Registered
  BY <1>2, CallTyped DEF Knows, Registered
<1>6. CASE k \in started
  <2>1. Knows(c) /\ Waits(p, c)
    BY <1>3, <1>5, <1>6 DEF Knows, Waits, Waiting
  <2> QED
    BY <1>1, <1>2, <1>3, <1>4, <1>6, <2>1, CallStep DEF Shared
<1>7. CASE k \notin started
  <2> DEFINE i == informers[k]
             x == Run(instance[i], proc[p].stop)
  <2>1. i \in Ids /\ IsInformer(instance[i]) /\ instance[i].runs = 0
    BY <1>5, <1>7 DEF IInv, Typed, Shaped, RunOnce, Registered
  <2>2. IsInformer(x) /\ x.runs = 1 /\ x.synced = instance[i].synced
    BY <2>1, RunSet
  <2>3. instance' = [instance EXCEPT ![i] = x] /\ started' = started \cup {k}
    BY <1>1, <1>7
  <2> HIDE DEF x
  <2>4. /\ instance'[i] = x /\ \A j \in Ids : j # i => instance'[j] = instance[j]
        /\ instance' = [j \in Ids |-> instance'[j]]
    BY <2>1, <2>3 DEF IInv, Shaped
  <2>5. Registered' = Registered
    BY <1>2 DEF Registered
  <2>6. \A j \in Registered : j # k => informers[j] \in Ids /\ informers[j] # i
    BY <1>5, <2>1 DEF Registered, IInv, Typed, Kept
  <2>7. /\ lock' \in Procs \cup {None} /\ proc' \in [Procs -> Calls] /\ Mutex'
        /\ proc'[p] = c /\ \A q \in Procs : q # p => proc'[q] = proc[q]
    BY <1>2, <1>3, <1>4, MutexKept
  <2>8. Typed' /\ Kept' /\ MineStarted'
    BY <1>2, <1>5, <2>3, <2>5, <2>7 DEF IInv, Typed, Kept, MineStarted
  <2>9. Shaped'
    BY <1>2, <2>2, <2>4, <2>5, <2>6 DEF IInv, Shaped
  <2>10. RunOnce'
    BY <1>2, <1>5, <2>2, <2>3, <2>4, <2>5, <2>6 DEF IInv, RunOnce
  <2>11. OneInformer'
    <3>1. i[1] = k
      BY <1>5 DEF IInv, Kept, Registered
    <3> QED
      BY <1>2, <2>4, <3>1 DEF IInv, OneInformer
  <2>12. \A j \in started : instance[informers[j]].synced => instance'[informers[j]].synced
    BY <2>2, <2>4, <2>6 DEF IInv, Kept
  <2>13. CallsKnow'
    <3> SUFFICES ASSUME NEW q \in Procs
                 PROVE  (Sound(proc[q]) /\ Knows(proc[q]) /\ Waits(q, proc[q]))'
      BY DEF CallsKnow
    <3>1. CASE q = p
      <4>1. Knows(proc[q])'
        BY <1>3, <1>5, <2>3, <2>5, <2>7, <3>1 DEF Knows
      <4>2. Waits(q, proc[q])'
        BY <1>3, <2>7, <3>1 DEF Waits, Waiting
      <4> QED
        BY <1>4, <2>7, <3>1, <4>1, <4>2
    <3>2. CASE q # p
      <4>1. proc'[q] = proc[q] /\ proc[q].at \notin Inside
        BY <1>2, <2>7, <3>2, OutsideKnows DEF Inside, Ops
      <4>2. Sound(proc[q]) /\ Waits(q, proc[q])
        BY DEF IInv, CallsKnow
      <4>3. Knows(proc[q])'
        BY <4>1 DEF Knows, Inside, Ops
      <4>4. Waits(q, proc[q])'
        BY <1>2, <2>3, <2>12, <4>1, <4>2 DEF Waits
      <4> QED
        BY <4>1, <4>2, <4>3, <4>4
    <3> QED
      BY <3>1, <3>2
  <2> QED
    BY <2>7, <2>8, <2>9, <2>10, <2>11, <2>13 DEF IInv
<1> QED
  BY <1>6, <1>7

LEMMA Unchanged ==
  ASSUME IInv, UNCHANGED <<lock, proc, informers, started, instance, got, mine>>
  PROVE  IInv'
<1>1. Typed' /\ Mutex' /\ Kept' /\ MineStarted' /\ Shaped' /\ OneInformer' /\ RunOnce'
  BY DEF IInv, Typed, Mutex, Kept, MineStarted, Shaped, OneInformer, RunOnce, Registered
<1>2. CallsKnow'
  BY DEF IInv, CallsKnow, Knows, Waits, Registered
<1> QED
  BY <1>1, <1>2 DEF IInv

--------------------------------------------------------------------------------

LEMMA InitHolds == Init => IInv
<1> SUFFICES ASSUME Init PROVE IInv
  OBVIOUS
<1>1. Registered = {} /\ \A k \in Kinds : informers[k] = None
  BY DEF Init, Registered
<1>2. Typed
  BY IdleCall DEF Init, Typed
<1>3. Mutex
  BY IdleCall, FactoryAssumption DEF Init, Mutex, Inside, Ops
<1>4. CallsKnow
  BY IdleCall DEF Init, CallsKnow
<1>5. Kept /\ Shaped /\ RunOnce /\ MineStarted
  BY <1>1 DEF Init, Kept, Shaped, RunOnce, MineStarted
<1>6. OneInformer
  BY DEF Init, OneInformer
<1> QED
  BY <1>2, <1>3, <1>4, <1>5, <1>6 DEF IInv

LEMMA StepKeeps == ASSUME IInv, [Next]_vars PROVE IInv'
<1>1. ASSUME NEW p \in Procs, NEW r \in Kinds \cup {OtherResource}, ForResource(p, r) PROVE IInv'
  <2>1. CASE r \in Kinds
    BY <1>1, <2>1, CallKeeps DEF ForResource, Informer, Ops
  <2>2. CASE r \notin Kinds
    BY <1>1, <2>2, Unchanged DEF ForResource, vars
  <2> QED
    BY <2>1, <2>2
<1>2. ASSUME NEW p \in Procs, NEW ch \in Channels, CallStart(p, ch) \/ CallWait(p, ch) PROVE IInv'
  BY <1>2, CallKeeps DEF CallStart, CallWait, Ops
<1>3. ASSUME NEW p \in Procs, Step(p) PROVE IInv'
  BY <1>3, LockKeeps, UnlockKeeps, LookupKeeps, NewInformerKeeps, StartOneKeeps, StartDoneKeeps,
     SnapshotKeeps, WaitOneKeeps, WaitDoneKeeps, ProceedKeeps DEF Step
<1>4. ASSUME NEW i \in Ids, Sync(i) \/ RunEnds(i) PROVE IInv'
  BY <1>4, SyncKeeps, RunEndsKeeps
<1>5. ASSUME NEW ch \in Channels, Close(ch) PROVE IInv'
  BY <1>5, Unchanged DEF Close
<1>6. CASE UNCHANGED vars
  BY <1>6, Unchanged DEF vars
<1>7. CASE NewSharedInformerFactoryWithOptions
  BY <1>7, Unchanged DEF NewSharedInformerFactoryWithOptions
<1> QED
  BY <1>1, <1>2, <1>3, <1>4, <1>5, <1>6, <1>7 DEF Next

LEMMA FactoryInvariant == Spec => []IInv
BY InitHolds, StepKeeps, PTL DEF Spec

\* However many goroutines ask for a kind at the same time, they get one informer, and
\* no second one was made: InformerFor's look and its write are under one lock.
THEOREM InformerShared == Spec => []OneInformer
<1>1. IInv => OneInformer
  BY DEF IInv
<1> QED
  BY <1>1, FactoryInvariant, PTL

\* Whoever calls Start, and however often, each informer is run once.
THEOREM InformerRunOnce == Spec => []RunOnce
<1>1. IInv => RunOnce
  BY DEF IInv
<1> QED
  BY <1>1, FactoryInvariant, PTL

\* When WaitForCacheSync has answered, without a FALSE, the caches of all that its caller
\* had asked for before a Start are filled, although it waits without the lock.
THEOREM WaitedFor == Spec => []WaitMeansFilled
<1>1. IInv => WaitMeansFilled
  <2> SUFFICES ASSUME IInv, NEW p \in Procs, proc[p].at = "synced"
               PROVE  /\ mine[p] \subseteq DOMAIN proc[p].res
                      /\ \A k \in DOMAIN proc[p].res : proc[p].res[k] => instance[informers[k]].synced
    BY DEF WaitMeansFilled
  <2> QED
    BY CallTyped DEF Waits, Waiting
<1> QED
  BY <1>1, FactoryInvariant, PTL

--------------------------------------------------------------------------------
(* What the factory was told to: an invariant of the constructor's loop, and *)
(* of what the informers take over from the factory.                         *)

IsFactory(f) == f \in [namespace : {f.namespace}, tweak : {f.tweak}, resync : {f.resync}]

\* The factory after its first n options.
AfterOptions(f, options, n) ==
  /\ IsFactory(f)
  /\ f.namespace = GivenLast(options, "namespace", AllNamespaces, n)
  /\ f.tweak = GivenLast(options, "tweak", None, n)
  /\ \A k \in Kinds : Period(options, k, f.resync[k], n)
  /\ f.resync = [k \in Kinds |-> f.resync[k]]

Calling(p) == proc[p].at # "idle"

CInv ==
  /\ program \in Programs
  /\ applied \in 0..Len(program.options)
  /\ AfterOptions(factory, program.options, applied)
  /\ \A p \in Procs : Calling(p) => Made
  /\ \A k \in Registered : instance[informers[k]].made = defaultInformer(k, factory.resync[k])
  /\ Registered # {} => Made

\* The latest of some places is the greatest.
LEMMA LatestOf ==
  ASSUME NEW options, NEW n \in Nat, NEW places \in SUBSET (1..(n + 1)), n + 1 \in places
  PROVE  Latest(options, places) = options[n + 1].arg
<1>1. \A l \in places : l <= n + 1
  OBVIOUS
<1>2. \A m \in places : (\A l \in places : l <= m) => m = n + 1
  OBVIOUS
<1>3. (CHOOSE m \in places : \A l \in places : l <= m) = n + 1
  BY <1>1, <1>2
<1> QED
  BY <1>3 DEF Latest

\* With one more option, the last one of its sort is that option, and the last one of
\* another sort is what it was.
LEMMA NextGiven ==
  ASSUME NEW options, NEW n \in Nat, NEW with
  PROVE  /\ options[n + 1].with = with =>
              /\ Given(options, with, n + 1) # {}
              /\ Latest(options, Given(options, with, n + 1)) = options[n + 1].arg
         /\ options[n + 1].with # with =>
              Given(options, with, n + 1) = Given(options, with, n)
<1>1. ASSUME options[n + 1].with = with
      PROVE  /\ n + 1 \in Given(options, with, n + 1)
             /\ Given(options, with, n + 1) \in SUBSET (1..(n + 1))
  BY <1>1 DEF Given
<1>2. options[n + 1].with # with => Given(options, with, n + 1) = Given(options, with, n)
  BY DEF Given
<1> QED
  BY <1>1, <1>2, LatestOf

\* The same of the options that give a kind a period.
LEMMA NextTiming ==
  ASSUME NEW options, NEW n \in Nat, NEW k
  PROVE  LET opt == options[n + 1]
             times == opt.with = "resync" /\ \E e \in opt.arg : e[1] = k
         IN /\ times => /\ Timing(options, k, n + 1) # {}
                        /\ Latest(options, Timing(options, k, n + 1)) = opt.arg
            /\ ~times => Timing(options, k, n + 1) = Timing(options, k, n)
<1> DEFINE opt == options[n + 1]
           times == opt.with = "resync" /\ \E e \in opt.arg : e[1] = k
<1>1. ASSUME times
      PROVE  /\ n + 1 \in Timing(options, k, n + 1)
             /\ Timing(options, k, n + 1) \in SUBSET (1..(n + 1))
  BY <1>1 DEF Given, Timing
<1>2. ~times => Timing(options, k, n + 1) = Timing(options, k, n)
  BY DEF Given, Timing
<1> QED
  BY <1>1, <1>2, LatestOf

LEMMA OptionApplied ==
  ASSUME CInv, NewSharedInformerFactoryWithOptions
  PROVE  AfterOptions(factory', program.options, applied + 1)
<1> DEFINE n == applied
           options == program.options
           opt == options[n + 1]
<1>1. /\ n \in Nat /\ n + 1 \in 1..Len(options)
      /\ factory' \in Applied(factory, opt)
      /\ AfterOptions(factory, options, n)
  <2>1. Len(options) \in Nat
    BY FactoryAssumption DEF CInv
  <2> QED
    BY <2>1 DEF CInv, NewSharedInformerFactoryWithOptions
<1>2. opt.with \in {"namespace", "tweak", "resync"}
  <2>1. options \in Seq(Entries(options))
    BY FactoryAssumption DEF CInv
  <2>2. opt \in Entries(options)
    BY <1>1, <2>1
  <2> QED
    BY <2>2, FactoryAssumption DEF CInv
<1> HIDE DEF n, opt, options
<1>3. CASE opt.with = "namespace"
  <2>1. /\ factory' = [factory EXCEPT !.namespace = opt.arg]
        /\ IsFactory(factory)
    BY <1>1, <1>3 DEF Applied, WithNamespace, AfterOptions
  <2>2. /\ factory'.namespace = opt.arg /\ factory'.tweak = factory.tweak
        /\ factory'.resync = factory.resync /\ IsFactory(factory')
    BY <2>1 DEF IsFactory
  <2>3. /\ GivenLast(options, "namespace", AllNamespaces, n + 1) = opt.arg
        /\ GivenLast(options, "tweak", None, n + 1) = GivenLast(options, "tweak", None, n)
    BY <1>1, <1>3, NextGiven DEF GivenLast, opt
  <2>4. \A k \in Kinds : Timing(options, k, n + 1) = Timing(options, k, n)
    BY <1>1, <1>3, NextTiming DEF opt
  <2> QED
    BY <1>1, <2>2, <2>3, <2>4 DEF AfterOptions, Period, n, options
<1>4. CASE opt.with = "tweak"
  <2>1. /\ factory' = [factory EXCEPT !.tweak = opt.arg]
        /\ IsFactory(factory)
    BY <1>1, <1>4 DEF Applied, WithTweakListOptions, AfterOptions
  <2>2. /\ factory'.tweak = opt.arg /\ factory'.namespace = factory.namespace
        /\ factory'.resync = factory.resync /\ IsFactory(factory')
    BY <2>1 DEF IsFactory
  <2>3. /\ GivenLast(options, "tweak", None, n + 1) = opt.arg
        /\ GivenLast(options, "namespace", AllNamespaces, n + 1) = GivenLast(options, "namespace", AllNamespaces, n)
    BY <1>1, <1>4, NextGiven DEF GivenLast, opt
  <2>4. \A k \in Kinds : Timing(options, k, n + 1) = Timing(options, k, n)
    BY <1>1, <1>4, NextTiming DEF opt
  <2> QED
    BY <1>1, <2>2, <2>3, <2>4 DEF AfterOptions, Period, n, options
<1>5. CASE opt.with = "resync"
  <2> DEFINE kinds == {e[1] : e \in opt.arg}
  <2>1. PICK chosen \in [kinds -> {e[2] : e \in opt.arg}] :
          /\ \A k \in kinds : <<k, chosen[k]>> \in opt.arg
          /\ factory' = [factory EXCEPT !.resync =
               [k \in Kinds |-> IF k \in kinds THEN chosen[k] ELSE factory.resync[k]]]
    BY <1>1, <1>5 DEF Applied, WithCustomResyncConfig
  <2>2. /\ factory'.tweak = factory.tweak /\ factory'.namespace = factory.namespace
        /\ factory'.resync = [k \in Kinds |-> IF k \in kinds THEN chosen[k] ELSE factory.resync[k]]
        /\ IsFactory(factory')
    <3>1. IsFactory(factory)
      BY <1>1 DEF AfterOptions
    <3> HIDE DEF kinds
    <3> QED
      BY <2>1, <3>1 DEF IsFactory
  <2>3. /\ GivenLast(options, "tweak", None, n + 1) = GivenLast(options, "tweak", None, n)
        /\ GivenLast(options, "namespace", AllNamespaces, n + 1) = GivenLast(options, "namespace", AllNamespaces, n)
    BY <1>1, <1>5, NextGiven DEF GivenLast, opt
  <2>4. ASSUME NEW k \in Kinds
        PROVE  Period(options, k, factory'.resync[k], n + 1)
    <3>1. CASE k \in kinds
      <4>1. Timing(options, k, n + 1) # {} /\ Latest(options, Timing(options, k, n + 1)) = opt.arg
        <5>1. \E e \in opt.arg : e[1] = k
          BY <3>1
        <5> QED
          BY <1>1, <1>5, <5>1, NextTiming DEF opt
      <4> QED
        BY <2>1, <2>2, <3>1, <4>1 DEF Period
    <3>2. CASE k \notin kinds
      <4>1. Timing(options, k, n + 1) = Timing(options, k, n)
        <5>1. ~ \E e \in opt.arg : e[1] = k
          BY <3>2
        <5> QED
          BY <1>1, <5>1, NextTiming DEF opt
      <4>2. Period(options, k, factory.resync[k], n)
        BY <1>1 DEF AfterOptions
      <4> QED
        BY <2>2, <3>2, <4>1, <4>2 DEF Period
    <3> QED
      BY <3>1, <3>2
  <2>5. factory'.resync = [k \in Kinds |-> factory'.resync[k]]
    <3> HIDE DEF kinds
    <3> QED
      BY <2>2
  <2> QED
    BY <1>1, <2>2, <2>3, <2>4, <2>5 DEF AfterOptions, n, options
<1> QED
  BY <1>2, <1>3, <1>4, <1>5

\* A step that leaves the factory, the maps and what the informers were made with alone.
LEMMA MadeKept ==
  ASSUME CInv, UNCHANGED <<config, informers>>,
         \A k \in Registered : instance'[informers[k]].made = instance[informers[k]].made,
         \A p \in Procs : Calling(p)' => Made
  PROVE  CInv'
<1>1. /\ program' = program /\ factory' = factory /\ applied' = applied
      /\ Registered' = Registered /\ Made' = Made
  BY DEF config, Registered, Made
<1>2. AfterOptions(factory, program.options, applied)'
  BY <1>1 DEF CInv, AfterOptions
<1>3. \A k \in Registered' :
        instance'[informers'[k]].made = defaultInformer(k, factory.resync[k])'
  BY <1>1 DEF CInv, defaultInformer
<1> QED
  BY <1>1, <1>2, <1>3 DEF CInv

LEMMA InitConfigured == Init => CInv
<1> SUFFICES ASSUME Init PROVE CInv
  OBVIOUS
<1>1. Registered = {}
  BY DEF Init, Registered
<1>2. /\ \A options, with : Given(options, with, 0) = {}
      /\ \A options, k : Timing(options, k, 0) = {}
  BY DEF Given, Timing
<1>3. AfterOptions(factory, program.options, 0)
  BY <1>2 DEF Init, NewFactory, AfterOptions, IsFactory, GivenLast, Period
<1>4. \A p \in Procs : ~Calling(p)
  BY IdleCall DEF Init, Calling
<1>5. Len(program.options) \in Nat
  BY FactoryAssumption DEF Init
<1> QED
  BY <1>1, <1>3, <1>4, <1>5 DEF Init, CInv

\* Who is in a call got there through Call, which waits for the constructor.
LEMMA CallsAfterMade ==
  ASSUME IInv, CInv, [Next]_vars, NEW p \in Procs, Calling(p)'
  PROVE  Calling(p) \/ Made
<1> SUFFICES ASSUME proc[p].at = "idle" PROVE Made
  BY DEF Calling
<1>1. proc' # proc
  BY DEF Calling
<1>2. ASSUME NEW q \in Procs, Step(q) PROVE FALSE
  <2>1. q # p
    BY <1>2
    DEF Step, Lock, Unlock, Lookup, NewInformer, StartOne, StartDone, Snapshot, WaitOne,
        WaitDone, Proceed
  <2>2. PICK c : proc' = [proc EXCEPT ![q] = c]
    BY <1>2
    DEF Step, Lock, Unlock, Lookup, NewInformer, StartOne, StartDone, Snapshot, WaitOne,
        WaitDone, Proceed
  <2>3. proc'[p] = proc[p]
    BY <2>1, <2>2 DEF IInv, Typed
  <2> QED
    BY <2>3 DEF Calling
<1>3. ASSUME NEW i \in Ids, Sync(i) \/ RunEnds(i) PROVE FALSE
  BY <1>1, <1>3 DEF Sync, RunEnds
<1> QED
  BY <1>1, <1>2, <1>3
  DEF Next, ForResource, Informer, CallStart, CallWait, Call, Close, vars,
      NewSharedInformerFactoryWithOptions

LEMMA NewInformerConfigured ==
  ASSUME IInv, CInv, NEW p \in Procs, NewInformer(p), \A q \in Procs : Calling(q)' => Made
  PROVE  CInv'
<1> DEFINE kind == proc[p].kind
           new == <<kind, p>>
           x == [made |-> defaultInformer(kind, factory.resync[kind]),
                 runs |-> 0, state |-> "new", stop |-> None, synced |-> FALSE]
<1>1. /\ instance' = [instance EXCEPT ![new] = x]
      /\ informers' = [informers EXCEPT ![kind] = new]
      /\ UNCHANGED config /\ proc[p].at = "new"
  BY DEF NewInformer
<1>2. kind \in Kinds
  BY <1>1, CallTyped DEF Sound, Knows, Inside, Ops
<1>3. new \in Ids /\ new[1] = kind /\ new # None
  BY <1>2, FactoryAssumption DEF Ids
<1>4. x.made = defaultInformer(kind, factory.resync[kind])
  OBVIOUS
<1> HIDE DEF x, new
<1>5. /\ informers'[kind] = new /\ instance'[new] = x
      /\ \A k \in Kinds : k # kind => informers'[k] = informers[k]
      /\ \A i \in Ids : i # new => instance'[i] = instance[i]
  BY <1>1, <1>2, <1>3 DEF IInv, Typed, Shaped
<1>6. program' = program /\ factory' = factory /\ applied' = applied /\ Made' = Made
  BY <1>1 DEF config, Made
<1>7. AfterOptions(factory, program.options, applied)'
  BY <1>6 DEF CInv, AfterOptions
<1>8. ASSUME NEW k \in Registered'
      PROVE  instance'[informers'[k]].made = defaultInformer(k, factory.resync[k])'
  <2>1. defaultInformer(k, factory.resync[k])' = defaultInformer(k, factory.resync[k])
    BY <1>6 DEF defaultInformer
  <2>2. CASE k = kind
    BY <1>4, <1>5, <2>1, <2>2
  <2>3. CASE k # kind
    <3>1. k \in Registered /\ informers'[k] = informers[k] /\ informers[k] \in Ids
      BY <1>5, <2>3 DEF Registered, IInv, Typed
    <3>2. informers[k] # new
      BY <1>3, <2>3, <3>1 DEF IInv, Kept, Registered
    <3>3. instance'[informers'[k]] = instance[informers[k]]
      BY <1>5, <3>1, <3>2
    <3> QED
      BY <2>1, <3>1, <3>3 DEF CInv
  <2> QED
    BY <2>2, <2>3
<1>9. Made
  BY <1>1 DEF CInv, Calling
<1> QED
  BY <1>6, <1>7, <1>8, <1>9 DEF CInv

LEMMA StepConfigured == ASSUME IInv, CInv, [Next]_vars PROVE CInv'
<1>1. \A p \in Procs : Calling(p)' => Made
  BY CallsAfterMade DEF CInv
<1>2. CASE NewSharedInformerFactoryWithOptions
  <2>1. /\ program' = program /\ applied' = applied + 1
        /\ UNCHANGED <<informers, instance, proc>> /\ ~Made /\ applied < Len(program.options)
    BY <1>2 DEF NewSharedInformerFactoryWithOptions, Made, CInv
  <2>2. Registered' = {} /\ \A p \in Procs : ~Calling(p)'
    BY <2>1 DEF CInv, Registered, Calling
  <2>3. AfterOptions(factory, program.options, applied)'
    <3>1. AfterOptions(factory', program.options, applied')
      BY <1>2, <2>1, OptionApplied
    <3> QED
      BY <2>1, <3>1 DEF AfterOptions
  <2>4. applied' \in 0..Len(program'.options)
    <3>1. Len(program.options) \in Nat
      BY FactoryAssumption DEF CInv
    <3> QED
      BY <2>1, <3>1 DEF CInv
  <2> QED
    BY <2>1, <2>2, <2>3, <2>4 DEF CInv
<1>3. ASSUME NEW p \in Procs, NewInformer(p) PROVE CInv'
  BY <1>1, <1>3, NewInformerConfigured
<1>4. ASSUME NEW p \in Procs, StartOne(p) PROVE CInv'
  <2>1. UNCHANGED <<config, informers>>
    BY <1>4 DEF StartOne
  <2>2. ASSUME NEW k \in Registered
        PROVE  instance'[informers[k]].made = instance[informers[k]].made
    <3>1. informers[k] \in Ids /\ IsInformer(instance[informers[k]])
      BY DEF Registered, IInv, Typed, Shaped
    <3>2. PICK j \in Kinds : \/ instance' = instance
                             \/ instance' = [instance EXCEPT ![informers[j]] =
                                               Run(instance[informers[j]], proc[p].stop)]
      <4>1. proc[p].left \subseteq Kinds
        BY CallTyped DEF Calls
      <4> QED
        BY <1>4, <4>1 DEF StartOne
    <3>3. instance'[informers[k]] \in {instance[informers[k]],
                                       Run(instance[informers[k]], proc[p].stop)}
      BY <3>1, <3>2 DEF IInv, Shaped
    <3>4. Run(instance[informers[k]], proc[p].stop).made = instance[informers[k]].made
      BY <3>1 DEF Run, IsInformer
    <3> QED
      BY <3>3, <3>4
  <2> QED
    BY <1>1, <2>1, <2>2, MadeKept
<1>5. ASSUME NEW i \in Ids, Sync(i) \/ RunEnds(i) PROVE CInv'
  <2>1. UNCHANGED <<config, informers>>
    BY <1>5 DEF Sync, RunEnds
  <2>2. ASSUME NEW k \in Registered
        PROVE  instance'[informers[k]].made = instance[informers[k]].made
    <3>1. informers[k] \in Ids /\ IsInformer(instance[informers[k]])
      BY DEF Registered, IInv, Typed, Shaped
    <3>2. CASE informers[k] = i
      BY <1>5, <3>1, <3>2 DEF Sync, RunEnds, IInv, Shaped, IsInformer
    <3>3. CASE informers[k] # i
      BY <1>5, <3>1, <3>3 DEF Sync, RunEnds, IInv, Shaped
    <3> QED
      BY <3>2, <3>3
  <2> QED
    BY <1>1, <2>1, <2>2, MadeKept
<1>6. CASE UNCHANGED <<config, informers, instance>>
  BY <1>1, <1>6, MadeKept
<1> QED
  BY <1>2, <1>3, <1>4, <1>5, <1>6
  DEF Next, Step, Lock, Unlock, Lookup, StartDone, Snapshot, WaitOne, WaitDone, Proceed,
      ForResource, Informer, CallStart, CallWait, Call, Close, vars, config

\* What an informer made from the factory lists, watches and is given as its period.
LEMMA MadeFromFactory ==
  ASSUME NEW k \in Kinds, NEW resync
  PROVE  /\ defaultInformer(k, resync).list = <<k, factory.namespace, factory.tweak>>
         /\ defaultInformer(k, resync).watch = <<k, factory.namespace, factory.tweak>>
         /\ defaultInformer(k, resync).resync = resync
<1> USE DEF V1, Kubevirt, v1_New, kubevirt_New, Access, ListWatch, defaultInformer
<1>1. CASE k = "kubevirtcommontemplatesbundles"
  BY <1>1 DEF KubevirtCommonTemplatesBundles, NewFilteredKubevirtCommonTemplatesBundleInformer
<1>2. CASE k = "kubevirtmetricsaggregations"
  BY <1>2 DEF KubevirtMetricsAggregations, NewFilteredKubevirtMetricsAggregationInformer
<1>3. CASE k = "kubevirtnodelabellerbundles"
  BY <1>3 DEF KubevirtNodeLabellerBundles, NewFilteredKubevirtNodeLabellerBundleInformer
<1>4. CASE k = "kubevirttemplatevalidators"
  BY <1>4 DEF KubevirtTemplateValidators, NewFilteredKubevirtTemplateValidatorInformer
<1> QED
  BY <1>1, <1>2, <1>3, <1>4, FactoryAssumption

\* Whatever options a factory is made with, in whatever order, all its informers list and
\* watch with the namespace and the tweak given last, and with the period given last for
\* their kind.
THEOREM InformersConfigured == Spec => []Configured
<1>1. IInv /\ CInv => Configured
  <2> SUFFICES ASSUME CInv, NEW k \in Registered
               PROVE  LET options == program.options
                          all == Len(options)
                          made == instance[informers[k]].made
                          expected == <<k, GivenLast(options, "namespace", AllNamespaces, all),
                                        GivenLast(options, "tweak", None, all)>>
                      IN  /\ made.list = expected /\ made.watch = expected
                          /\ Period(options, k, made.resync, all)
    BY DEF Configured
  <2>1. /\ applied = Len(program.options) /\ k \in Kinds
        /\ AfterOptions(factory, program.options, applied)
        /\ instance[informers[k]].made = defaultInformer(k, factory.resync[k])
    BY DEF CInv, Made, Registered
  <2> QED
    BY <2>1, MadeFromFactory DEF AfterOptions
<1>2. Spec => []CInv
  BY InitConfigured, StepConfigured, FactoryInvariant, PTL DEF Spec
<1> QED
  BY <1>1, <1>2, FactoryInvariant, PTL

================================================================================
