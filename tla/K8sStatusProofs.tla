---------------------------- MODULE K8sStatusProofs ----------------------------
(***************************************************************************)
(* For every set of writers, types, requests and every bound: the types of *)
(* conditions stay unique, no patch loses another writer's update or the   *)
(* time of a condition that did not change, and every call is atomic: the  *)
(* module implements AtomicStatus.                                         *)
(***************************************************************************)
EXTENDS K8sStatus, SequenceTheorems, TLAPS

--------------------------------------------------------------------------------
(* The merge of one condition.                                             *)

\* When the types are unique, the entry the module finds is the one there is.
LEMMA ConditionIdxFinds ==
  ASSUME NEW cs \in Seq(Condition), NEW t \in TypesOf(cs), Unique(cs)
  PROVE  /\ ConditionIdx(cs, t) \in 1..Len(cs)
         /\ cs[ConditionIdx(cs, t)].type = t
<1>1. PICK i \in 1..Len(cs) : cs[i].type = t
  BY DEF TypesOf
<1>2. \A j \in 1..(i-1) : cs[j].type # t
  BY <1>1 DEF Unique
<1> QED
  BY <1>1, <1>2 DEF ConditionIdx

\* Merging a condition leaves a list of conditions with unique types, in which all
\* conditions of other types are where they were.
LEMMA PutConditionMerges ==
  ASSUME NEW cs \in Seq(Condition), NEW c \in Condition, Unique(cs)
  PROVE  LET new == PutCondition(cs, c)
         IN  /\ new \in Seq(Condition)
             /\ Unique(new)
             /\ Len(cs) <= Len(new)
             /\ \A i \in 1..Len(cs) : cs[i].type # c.type => new[i] = cs[i]
<1> DEFINE new == PutCondition(cs, c)
<1>1. CASE c.type \in TypesOf(cs)
  <2> DEFINE k == ConditionIdx(cs, c.type)
  <2>1. k \in 1..Len(cs) /\ cs[k].type = c.type
    BY <1>1, ConditionIdxFinds
  <2>2. new = [cs EXCEPT ![k] = c]
    BY <1>1 DEF PutCondition
  <2> HIDE DEF k, new
  <2>3. new \in Seq(Condition) /\ Len(new) = Len(cs)
    BY <2>1, <2>2
  <2>4. \A i \in 1..Len(cs) : new[i] = IF i = k THEN c ELSE cs[i]
    BY <2>1, <2>2
  <2>5. \A i \in 1..Len(cs) : new[i].type = cs[i].type
    BY <2>1, <2>4
  <2>6. Unique(new)
    BY <2>3, <2>5 DEF Unique
  <2> QED
    BY <2>1, <2>3, <2>4, <2>6 DEF new
<1>2. CASE c.type \notin TypesOf(cs)
  <2>1. new = Append(cs, c)
    BY <1>2 DEF PutCondition
  <2> HIDE DEF new
  <2>2. /\ new \in Seq(Condition)
        /\ Len(new) = Len(cs) + 1
        /\ \A i \in 1..Len(cs) : new[i] = cs[i]
        /\ new[Len(cs) + 1] = c
    BY <2>1
  <2>3. \A i \in 1..Len(cs) : cs[i].type # c.type
    BY <1>2 DEF TypesOf
  <2>4. Unique(new)
    BY <2>2, <2>3 DEF Unique
  <2> QED
    BY <2>2, <2>4 DEF new
<1> QED
  BY <1>1, <1>2

--------------------------------------------------------------------------------
(* A list of conditions read as a function of the type.                    *)

\* The function has the entries of the list, and is Absent elsewhere.
LEMMA ConditionOfList ==
  ASSUME NEW cs \in Seq(Condition), Unique(cs)
  PROVE  /\ ConditionOf(cs) \in [Types -> Condition \cup {Absent}]
         /\ \A i \in 1..Len(cs) : /\ cs[i].type \in Types
                                  /\ ConditionOf(cs)[cs[i].type] = cs[i]
         /\ \A t \in Types : t \notin TypesOf(cs) => ConditionOf(cs)[t] = Absent
         /\ \A t \in Types : t \in TypesOf(cs) => /\ ConditionOf(cs)[t] \in Condition
                                                  /\ ConditionOf(cs)[t] # Absent
                                                  /\ ConditionOf(cs)[t].type = t
<1>1. ASSUME NEW t \in Types, t \in TypesOf(cs)
      PROVE  /\ ConditionOf(cs)[t] = cs[ConditionIdx(cs, t)]
             /\ ConditionIdx(cs, t) \in 1..Len(cs)
             /\ cs[ConditionIdx(cs, t)].type = t
             /\ cs[ConditionIdx(cs, t)] \in Condition
  <2>1. ConditionIdx(cs, t) \in 1..Len(cs) /\ cs[ConditionIdx(cs, t)].type = t
    BY <1>1, ConditionIdxFinds
  <2> HIDE DEF ConditionIdx
  <2> QED
    BY <1>1, <2>1 DEF ConditionOf
<1>2. ASSUME NEW t \in Types, t \notin TypesOf(cs)
      PROVE  ConditionOf(cs)[t] = Absent
  BY <1>2 DEF ConditionOf
<1>3. ConditionOf(cs) \in [Types -> Condition \cup {Absent}]
  <2>1. ConditionOf(cs) = [t \in Types |-> ConditionOf(cs)[t]]
    BY DEF ConditionOf
  <2> QED
    BY <1>1, <1>2, <2>1
<1>4. ASSUME NEW i \in 1..Len(cs)
      PROVE  cs[i].type \in Types /\ ConditionOf(cs)[cs[i].type] = cs[i]
  <2>1. cs[i] \in Condition
    OBVIOUS
  <2>2. cs[i].type \in Types /\ cs[i].type \in TypesOf(cs)
    BY <2>1 DEF Condition, TypesOf
  <2>3. ConditionIdx(cs, cs[i].type) = i
    BY <1>1, <2>2 DEF Unique
  <2> QED
    BY <1>1, <2>2, <2>3
<1> QED
  BY <1>1, <1>2, <1>3, <1>4, ConstantsAssumption

\* The list after the merge has the new condition, and otherwise entries of the old
\* list at their places.
LEMMA PutConditionEntries ==
  ASSUME NEW cs \in Seq(Condition), NEW c \in Condition, Unique(cs)
  PROVE  LET new == PutCondition(cs, c)
         IN  /\ \E k \in 1..Len(new) : new[k] = c
             /\ \A k \in 1..Len(new) : \/ new[k] = c
                                       \/ k \in 1..Len(cs) /\ new[k] = cs[k]
<1> DEFINE new == PutCondition(cs, c)
<1>1. CASE c.type \in TypesOf(cs)
  <2> DEFINE k == ConditionIdx(cs, c.type)
  <2>1. k \in 1..Len(cs)
    BY <1>1, ConditionIdxFinds
  <2>2. new = [cs EXCEPT ![k] = c]
    BY <1>1 DEF PutCondition
  <2> HIDE DEF k, new
  <2>3. Len(new) = Len(cs)
    BY <2>1, <2>2
  <2>4. \A i \in 1..Len(cs) : new[i] = IF i = k THEN c ELSE cs[i]
    BY <2>1, <2>2
  <2> QED
    BY <2>1, <2>3, <2>4 DEF new
<1>2. CASE c.type \notin TypesOf(cs)
  <2>1. new = Append(cs, c)
    BY <1>2 DEF PutCondition
  <2> HIDE DEF new
  <2>2. /\ Len(new) = Len(cs) + 1
        /\ \A i \in 1..Len(cs) : new[i] = cs[i]
        /\ new[Len(cs) + 1] = c
        /\ Len(cs) \in Nat
    BY <2>1
  <2>3. \E k \in 1..Len(new) : new[k] = c
    BY <2>2
  <2>4. \A k \in 1..Len(new) : \/ new[k] = c
                               \/ k \in 1..Len(cs) /\ new[k] = cs[k]
    BY <2>2
  <2> QED
    BY <2>3, <2>4 DEF new
<1> QED
  BY <1>1, <1>2

\* Merging a condition into the list overwrites what the function says of its type.
LEMMA ConditionOfPut ==
  ASSUME NEW cs \in Seq(Condition), NEW c \in Condition, Unique(cs)
  PROVE  ConditionOf(PutCondition(cs, c)) = [ConditionOf(cs) EXCEPT ![c.type] = c]
<1> DEFINE new == PutCondition(cs, c)
<1>1. /\ new \in Seq(Condition)
      /\ Unique(new)
      /\ Len(cs) <= Len(new)
      /\ \A i \in 1..Len(cs) : cs[i].type # c.type => new[i] = cs[i]
  BY PutConditionMerges
<1>2. /\ \E k \in 1..Len(new) : new[k] = c
      /\ \A k \in 1..Len(new) : \/ new[k] = c
                                \/ k \in 1..Len(cs) /\ new[k] = cs[k]
  BY PutConditionEntries
<1> HIDE DEF new
<1>3. ConditionOf(new)[c.type] = c
  BY <1>1, <1>2, ConditionOfList
<1>4. ASSUME NEW t \in Types, t # c.type
      PROVE  ConditionOf(new)[t] = ConditionOf(cs)[t]
  <2>1. CASE t \in TypesOf(cs)
    <3>1. PICK i \in 1..Len(cs) : cs[i].type = t
      BY <2>1 DEF TypesOf
    <3>2. i \in 1..Len(new) /\ new[i] = cs[i]
      BY <1>1, <1>4, <3>1
    <3> QED
      BY <1>1, <3>1, <3>2, ConditionOfList
  <2>2. CASE t \notin TypesOf(cs)
    <3>1. t \notin TypesOf(new)
      BY <1>2, <1>4, <2>2 DEF TypesOf
    <3> QED
      BY <1>1, <2>2, <3>1, ConditionOfList
  <2> QED
    BY <2>1, <2>2
<1>5. ConditionOf(new) \in [Types -> Condition \cup {Absent}]
      /\ ConditionOf(cs) \in [Types -> Condition \cup {Absent}]
  BY <1>1, ConditionOfList
<1>6. c.type \in Types
  BY DEF Condition
<1> QED
  BY <1>3, <1>4, <1>5, <1>6 DEF new

\* A status cleaned of its transition times contains the wanted conditions as a list
\* exactly when it does as a function of the type.
LEMMA ContainedConditions ==
  ASSUME NEW old \in Seq(Condition), NEW new \in Seq(Condition),
         Unique(old), Unique(new)
  PROVE  (\A i \in 1..Len(new) : \E j \in 1..Len(old) : Clean(old[j]) = new[i])
           <=> (\A t \in Types : ConditionOf(new)[t] # Absent =>
                  Atomic!Cleared(ConditionOf(old)[t]) = ConditionOf(new)[t])
<1>1. \A c \in Condition : Clean(c).type = c.type /\ Atomic!Cleared(c) = Clean(c)
  BY ConstantsAssumption DEF Clean, Condition, Atomic!Cleared
<1>2. Atomic!Cleared(Absent) = Absent
  BY DEF Atomic!Cleared
<1>3. ASSUME \A i \in 1..Len(new) : \E j \in 1..Len(old) : Clean(old[j]) = new[i],
             NEW t \in Types, ConditionOf(new)[t] # Absent
      PROVE  Atomic!Cleared(ConditionOf(old)[t]) = ConditionOf(new)[t]
  <2>1. t \in TypesOf(new)
    BY <1>3, ConditionOfList
  <2>2. PICK i \in 1..Len(new) : new[i].type = t
    BY <2>1 DEF TypesOf
  <2>3. PICK j \in 1..Len(old) : Clean(old[j]) = new[i]
    BY <1>3
  <2>4. old[j] \in Condition /\ old[j].type = t
    BY <1>1, <2>2, <2>3
  <2>5. ConditionOf(old)[t] = old[j] /\ ConditionOf(new)[t] = new[i]
    BY <2>2, <2>4, ConditionOfList
  <2> QED
    BY <1>1, <2>3, <2>4, <2>5
<1>4. ASSUME \A t \in Types : ConditionOf(new)[t] # Absent =>
               Atomic!Cleared(ConditionOf(old)[t]) = ConditionOf(new)[t],
             NEW i \in 1..Len(new)
      PROVE  \E j \in 1..Len(old) : Clean(old[j]) = new[i]
  <2> DEFINE t == new[i].type
  <2>1. t \in Types /\ ConditionOf(new)[t] = new[i] /\ new[i] # Absent
    <3>1. new[i] \in Condition
      OBVIOUS
    <3> QED
      BY <3>1, ConditionOfList, ConstantsAssumption
  <2> HIDE DEF t
  <2>2. Atomic!Cleared(ConditionOf(old)[t]) = new[i]
    BY <1>4, <2>1
  <2>3. t \in TypesOf(old)
    BY <1>2, <2>1, <2>2, ConditionOfList
  <2>4. PICK j \in 1..Len(old) : old[j].type = t
    BY <2>3 DEF TypesOf
  <2>5. ConditionOf(old)[t] = old[j] /\ old[j] \in Condition
    BY <2>4, ConditionOfList
  <2> QED
    BY <1>1, <2>2, <2>5
<1> QED
  BY <1>3, <1>4

--------------------------------------------------------------------------------
(* The inductive invariant.                                                *)

\* A call's arguments are one of the requests (or none).
RequestOK == \A w \in Writers : req[w] \in Requests \cup {NoCall}

\* What a call is about to write has unique types, and holds, at the same places,
\* the conditions it read and was not asked to set.
MergeOK(w) ==
  /\ Unique(merged[w])
  /\ (~req[w].force /\ req[w].status.conds # <<>>) =>
       \A i \in 1..Len(snap[w].status.conds) :
         snap[w].status.conds[i].type \notin TypesOf(req[w].status.conds)
           => /\ i \in 1..Len(merged[w])
              /\ merged[w][i] = snap[w].status.conds[i]

\* The versions only grow, so an old snapshot's version never comes back.
SnapOK(w) ==
  /\ snap[w].rv <= server.rv
  /\ (server.exists /\ snap[w].rv = server.rv) => server.status = snap[w].status

CallsOK ==
  \A w \in Writers : pc[w] \in {"merge", "write"} => MergeOK(w) /\ SnapOK(w)

IInv == TypeOK /\ RequestOK /\ UniqueTypes /\ CallsOK

LEMMA EmptyIsTyped ==
  /\ EmptyStatus \in Status
  /\ NoCall \in Request
  /\ \A rv \in 0..MaxRv : NewObject(rv) \in Object
  /\ Unique(EmptyStatus.conds)
BY EmptySeq, ConstantsAssumption
DEF EmptyStatus, Status, NoCall, Request, NewObject, Object, Unique

LEMMA RequestsUnique ==
  ASSUME NEW r \in Requests \cup {NoCall}
  PROVE  r \in Request /\ Unique(r.status.conds)
<1>1. CASE r \in Requests
  BY <1>1, ConstantsAssumption
<1>2. CASE r = NoCall
  BY <1>2, EmptyIsTyped DEF NoCall
<1> QED
  BY <1>1, <1>2

THEOREM InitIInv == Init => IInv
<1> SUFFICES ASSUME Init PROVE IInv
  OBVIOUS
<1> USE DEF Init
<1>1. TypeOK
  BY EmptyIsTyped, ConstantsAssumption, EmptySeq DEF TypeOK, Active, Ended
<1>2. RequestOK
  BY DEF RequestOK
<1>3. UniqueTypes
  BY EmptyIsTyped DEF UniqueTypes, NewObject
<1>4. CallsOK
  BY DEF CallsOK
<1> QED
  BY <1>1, <1>2, <1>3, <1>4 DEF IInv

\* Whatever a step does to the server, an old version does not come back with
\* another status.
ServerMoves ==
  /\ server.rv <= server'.rv
  /\ server'.exists /\ server'.rv = server.rv => server'.status = server.status
  /\ server'.exists /\ server'.rv = server.rv => server.exists

\* The calls that a step leaves alone stay sound.
LEMMA OtherCalls ==
  ASSUME TypeOK, TypeOK', CallsOK, ServerMoves, NEW v \in Writers,
         pc'[v] = pc[v], req'[v] = req[v], snap'[v] = snap[v], merged'[v] = merged[v],
         pc[v] \in {"merge", "write"}
  PROVE  (MergeOK(v) /\ SnapOK(v))'
<1>1. MergeOK(v) /\ SnapOK(v)
  BY DEF CallsOK
<1>2. MergeOK(v)'
  BY <1>1 DEF MergeOK
<1>3. snap[v].rv \in Nat /\ server.rv \in Nat /\ server'.rv \in Nat
  BY ConstantsAssumption DEF TypeOK, Object
<1>4. SnapOK(v)'
  BY <1>1, <1>3 DEF SnapOK, ServerMoves
<1> QED
  BY <1>2, <1>4

LEMMA ExitStep ==
  ASSUME IInv, NEW w \in Writers, NEW answer \in Ended, Exit(w, answer),
         ServerMoves, server' \in Object, UniqueTypes'
  PROVE  IInv'
<1> USE DEF Exit
<1>1. TypeOK'
  BY EmptyIsTyped, EmptySeq, ConstantsAssumption DEF IInv, TypeOK, Active, Ended
<1>2. RequestOK'
  BY DEF IInv, RequestOK, TypeOK
<1>3. CallsOK'
  <2> SUFFICES ASSUME NEW v \in Writers, pc'[v] \in {"merge", "write"}
               PROVE  (MergeOK(v) /\ SnapOK(v))'
    BY DEF CallsOK
  <2>1. v # w
    BY DEF IInv, TypeOK, Ended
  <2> QED
    BY <1>1, <2>1, OtherCalls DEF IInv, TypeOK
<1> QED
  BY <1>1, <1>2, <1>3 DEF IInv

LEMMA StartStep ==
  ASSUME IInv, NEW w \in Writers, NEW r \in Requests, Start(w, r)
  PROVE  IInv'
<1> USE DEF Start
<1>1. TypeOK'
  BY RequestsUnique DEF IInv, TypeOK, Active, Ended
<1>2. RequestOK'
  BY DEF IInv, RequestOK, TypeOK
<1>3. UniqueTypes'
  BY DEF IInv, UniqueTypes
<1>4. CallsOK'
  <2> SUFFICES ASSUME NEW v \in Writers, pc'[v] \in {"merge", "write"}
               PROVE  (MergeOK(v) /\ SnapOK(v))'
    BY DEF CallsOK
  <2>1. v # w
    BY DEF IInv, TypeOK
  <2>2. ServerMoves
    BY ConstantsAssumption DEF ServerMoves, IInv, TypeOK, Object
  <2> QED
    BY <1>1, <2>1, <2>2, OtherCalls DEF IInv, TypeOK
<1> QED
  BY <1>1, <1>2, <1>3, <1>4 DEF IInv

LEMMA GetInstanceStep ==
  ASSUME IInv, NEW w \in Writers, GetInstance(w)
  PROVE  IInv'
<1> USE DEF GetInstance
<1>0. req[w] \in Request /\ Unique(req[w].status.conds)
  BY RequestsUnique DEF IInv, RequestOK
<1>1. TypeOK'
  <2>1. /\ req[w].status.conds \in Seq(Condition)
        /\ server.status.conds \in Seq(Condition)
    BY <1>0 DEF IInv, TypeOK, Object, Status, Request
  <2>2. Len(req[w].status.conds) + 1 \in Nat \ {0}
    BY <2>1, LenProperties
  <2>3. merged' \in [Writers -> Seq(Condition)]
    BY <2>1 DEF IInv, TypeOK
  <2>4. idx' \in [Writers -> Nat \ {0}]
    BY <2>2 DEF IInv, TypeOK
  <2>5. pc' \in [Writers -> Active \cup Ended]
    BY DEF IInv, TypeOK, Active
  <2> QED
    BY <2>3, <2>4, <2>5 DEF IInv, TypeOK
<1>2. RequestOK'
  BY DEF IInv, RequestOK
<1>3. UniqueTypes'
  BY DEF IInv, UniqueTypes
<1>4. CallsOK'
  <2> SUFFICES ASSUME NEW v \in Writers, pc'[v] \in {"merge", "write"}
               PROVE  (MergeOK(v) /\ SnapOK(v))'
    BY DEF CallsOK
  <2>1. CASE v # w
    <3>1. ServerMoves
      BY ConstantsAssumption DEF ServerMoves, IInv, TypeOK, Object
    <3> QED
      BY <1>1, <2>1, <3>1, OtherCalls DEF IInv, TypeOK
  <2>2. CASE v = w
    <3>1. snap'[w] = server /\ server' = server /\ req' = req
      BY DEF IInv, TypeOK
    <3>2. SnapOK(w)'
      BY <3>1, ConstantsAssumption DEF SnapOK, IInv, TypeOK, Object
    <3>3. CASE server.status.conds = <<>> \/ req[w].status.conds = <<>>
      <4>1. merged'[w] = req[w].status.conds
        BY <3>3 DEF IInv, TypeOK
      <4> QED
        BY <1>0, <2>2, <3>1, <3>2, <3>3, <4>1 DEF MergeOK
    <3>4. CASE ~(server.status.conds = <<>> \/ req[w].status.conds = <<>>)
      <4>1. merged'[w] = server.status.conds
        BY <3>4 DEF IInv, TypeOK
      <4> QED
        BY <2>2, <3>1, <3>2, <4>1 DEF MergeOK, IInv, UniqueTypes
    <3> QED
      BY <3>3, <3>4
  <2> QED
    BY <2>1, <2>2
<1> QED
  BY <1>1, <1>2, <1>3, <1>4 DEF IInv

LEMMA MergeConditionStep ==
  ASSUME IInv, NEW w \in Writers, MergeCondition(w)
  PROVE  IInv'
<1> USE DEF MergeCondition
<1> DEFINE conds == req[w].status.conds
           c == conds[idx[w]]
<1>1. req[w] \in Request /\ conds \in Seq(Condition)
  BY RequestsUnique DEF IInv, RequestOK, Request, Status
<1>2. idx[w] \in 1..Len(conds) /\ c \in Condition /\ c.type \in TypesOf(conds)
  BY <1>1 DEF IInv, TypeOK, TypesOf
<1>3. /\ merged[w] \in Seq(Condition)
      /\ MergeOK(w)
      /\ merged'[w] = PutCondition(merged[w], c)
  BY DEF IInv, TypeOK, CallsOK
<1> HIDE DEF c
<1>9. Unique(merged[w])
  BY <1>3 DEF MergeOK
<1>4. /\ merged'[w] \in Seq(Condition)
      /\ Unique(merged'[w])
      /\ Len(merged[w]) <= Len(merged'[w])
      /\ \A i \in 1..Len(merged[w]) :
           merged[w][i].type # c.type => merged'[w][i] = merged[w][i]
  BY <1>2, <1>3, <1>9, PutConditionMerges
<1>5. TypeOK'
  BY <1>4 DEF IInv, TypeOK
<1>6. RequestOK'
  BY DEF IInv, RequestOK
<1>7. UniqueTypes'
  BY DEF IInv, UniqueTypes
<1>8. CallsOK'
  <2> SUFFICES ASSUME NEW v \in Writers, pc'[v] \in {"merge", "write"}
               PROVE  (MergeOK(v) /\ SnapOK(v))'
    BY DEF CallsOK
  <2>1. CASE v # w
    <3>1. ServerMoves
      BY ConstantsAssumption DEF ServerMoves, IInv, TypeOK, Object
    <3> QED
      BY <1>5, <2>1, <3>1, OtherCalls DEF IInv, TypeOK
  <2>2. CASE v = w
    <3>1. SnapOK(w)'
      BY DEF IInv, CallsOK, SnapOK
    <3>2. ASSUME ~req[w].force, conds # <<>>,
                 NEW i \in 1..Len(snap[w].status.conds),
                 snap[w].status.conds[i].type \notin TypesOf(conds)
          PROVE  i \in 1..Len(merged'[w]) /\ merged'[w][i] = snap[w].status.conds[i]
      <4>1. i \in 1..Len(merged[w]) /\ merged[w][i] = snap[w].status.conds[i]
        BY <1>3, <3>2 DEF MergeOK
      <4>2. merged[w][i].type # c.type
        BY <1>2, <3>2, <4>1
      <4>3. i \in Nat /\ 1 <= i /\ i <= Len(merged[w])
        BY <1>3, <4>1, LenProperties
      <4>4. Len(merged[w]) \in Nat /\ Len(merged'[w]) \in Nat
        BY <1>3, <1>4, LenProperties
      <4>5. i \in 1..Len(merged'[w])
        BY <1>4, <4>3, <4>4
      <4> QED
        BY <1>4, <4>1, <4>2, <4>5
    <3>3. MergeOK(w)'
      BY <1>4, <3>2 DEF MergeOK
    <3> QED
      BY <2>2, <3>1, <3>3
  <2> QED
    BY <2>1, <2>2
<1> QED
  BY <1>5, <1>6, <1>7, <1>8 DEF IInv

LEMMA MergeDoneStep ==
  ASSUME IInv, NEW w \in Writers, MergeDone(w)
  PROVE  IInv'
<1> USE DEF MergeDone
<1>1. TypeOK' /\ RequestOK' /\ UniqueTypes'
  BY DEF IInv, TypeOK, RequestOK, UniqueTypes, local, Active
<1>2. CallsOK'
  <2> SUFFICES ASSUME NEW v \in Writers, pc'[v] \in {"merge", "write"}
               PROVE  (MergeOK(v) /\ SnapOK(v))'
    BY DEF CallsOK
  <2>1. pc[v] \in {"merge", "write"}
    BY DEF IInv, TypeOK
  <2>2. MergeOK(v) /\ SnapOK(v)
    BY <2>1 DEF IInv, CallsOK
  <2> QED
    BY <2>2 DEF MergeOK, SnapOK, local
<1> QED
  BY <1>1, <1>2 DEF IInv

\* What the server stores is a status of its type with unique conditions.
LEMMA StoredStatus ==
  ASSUME IInv, NEW w \in Writers, pc[w] = "write"
  PROVE  LET new == PatchedStatus(server.status, req[w], merged[w])
         IN  new \in Status /\ Unique(new.conds)
<1> DEFINE old == server.status
           r == req[w]
           fs == [f \in Fields |-> IF r.status.fields[f] # Absent
                                    THEN r.status.fields[f] ELSE old.fields[f]]
           cs == IF r.status.conds = <<>> THEN old.conds ELSE merged[w]
<1>1. /\ r \in Request /\ Unique(r.status.conds)
      /\ old \in Status /\ Unique(old.conds)
      /\ merged[w] \in Seq(Condition) /\ Unique(merged[w])
  BY RequestsUnique
  DEF IInv, RequestOK, TypeOK, Object, UniqueTypes, CallsOK, MergeOK
<1>2. CASE r.force
  BY <1>1, <1>2 DEF PatchedStatus, Request
<1>3. CASE ~r.force
  <2>1. fs \in [Fields -> Values \cup {Absent}]
    BY <1>1 DEF Status, Request
  <2>2. cs \in Seq(Condition) /\ Unique(cs)
    BY <1>1 DEF Status
  <2>3. PatchedStatus(old, r, merged[w]) = [fields |-> fs, conds |-> cs]
    BY <1>3 DEF PatchedStatus
  <2> QED
    BY <2>1, <2>2, <2>3 DEF Status
<1> QED
  BY <1>2, <1>3

LEMMA WriteStatusStep ==
  ASSUME IInv, NEW w \in Writers, WriteStatus(w)
  PROVE  IInv'
<1> DEFINE new == PatchedStatus(server.status, req[w], merged[w])
<1>1. new \in Status /\ Unique(new.conds)
  BY StoredStatus DEF WriteStatus
<1>2. server' = Stored(server, new) /\ server.rv < MaxRv /\ server.exists
  BY DEF WriteStatus, ServerAccepts
<1> HIDE DEF new
<1>3. server' \in Object
  <2>1. server \in Object
    BY DEF IInv, TypeOK
  <2>2. server.rv + 1 \in 0..MaxRv
    BY <1>2, <2>1, ConstantsAssumption DEF Object
  <2> QED
    BY <1>1, <1>2, <2>1, <2>2 DEF Stored, Object
<1>4. ServerMoves
  BY <1>2, ConstantsAssumption DEF Stored, ServerMoves, Object, IInv, TypeOK
<1>5. UniqueTypes'
  BY <1>1, <1>2 DEF Stored, UniqueTypes, IInv, TypeOK, Object
<1> QED
  BY <1>3, <1>4, <1>5, ExitStep DEF WriteStatus, Ended

LEMMA OthersStep ==
  ASSUME IInv, Others
  PROVE  IInv'
<1>1. UNCHANGED <<pc, local>>
  BY DEF Others, EditCr, OperatorMarksCr, DeleteCr, CreateCr
<1>2. server \in Object /\ Unique(server.status.conds)
  BY DEF IInv, TypeOK, UniqueTypes
<1>3. /\ server' \in Object
      /\ ServerMoves
      /\ UniqueTypes'
  <2>1. CASE EditCr
    BY <1>2, <2>1, ConstantsAssumption
    DEF EditCr, Object, ServerMoves, UniqueTypes
  <2>2. ASSUME NEW c \in OperatorMarks, OperatorMarksCr(c)
        PROVE  /\ server' \in Object
               /\ ServerMoves
               /\ UniqueTypes'
    <3> DEFINE new == PutCondition(server.status.conds, c)
    <3>1. server.status.conds \in Seq(Condition) /\ c \in Condition
      BY <1>2, ConstantsAssumption DEF Object, Status
    <3>2. new \in Seq(Condition) /\ Unique(new)
      BY <1>2, <3>1, PutConditionMerges
    <3>3. server' = [server EXCEPT !.rv = server.rv + 1, !.status.conds = new]
      BY <2>2 DEF OperatorMarksCr
    <3> HIDE DEF new
    <3>4. server.rv + 1 \in 0..MaxRv
      BY <1>2, <2>2, ConstantsAssumption DEF OperatorMarksCr, Object
    <3> DEFINE status == [fields |-> server.status.fields, conds |-> new]
    <3>5. status \in Status
      BY <1>2, <3>2 DEF Object, Status
    <3>6. server' = [exists |-> server.exists, rv |-> server.rv + 1, status |-> status]
      BY <1>2, <3>3 DEF Object, Status
    <3>7. server' \in Object
      BY <1>2, <3>4, <3>5, <3>6 DEF Object
    <3>8. ServerMoves
      BY <1>2, <3>6, ConstantsAssumption DEF Object, ServerMoves
    <3>9. UniqueTypes'
      BY <3>2, <3>6 DEF UniqueTypes
    <3> QED
      BY <3>7, <3>8, <3>9
  <2>3. CASE DeleteCr
    <3>1. server' = [exists |-> FALSE, rv |-> server.rv, status |-> EmptyStatus]
      BY <1>2, <2>3 DEF DeleteCr, Object
    <3>2. server' \in Object
      BY <1>2, <3>1, EmptyIsTyped DEF Object
    <3>3. ServerMoves
      BY <1>2, <3>1, ConstantsAssumption DEF ServerMoves, Object
    <3>4. UniqueTypes'
      BY <3>1, EmptyIsTyped DEF UniqueTypes
    <3> QED
      BY <3>2, <3>3, <3>4
  <2>4. CASE CreateCr
    BY <1>2, <2>4, EmptyIsTyped, ConstantsAssumption
    DEF CreateCr, NewObject, Object, ServerMoves, UniqueTypes
  <2> QED
    BY <2>1, <2>2, <2>3, <2>4 DEF Others
<1>4. TypeOK' /\ RequestOK'
  BY <1>1, <1>3 DEF IInv, TypeOK, RequestOK, local
<1>5. CallsOK'
  <2> SUFFICES ASSUME NEW v \in Writers, pc'[v] \in {"merge", "write"}
               PROVE  (MergeOK(v) /\ SnapOK(v))'
    BY DEF CallsOK
  <2> QED
    BY <1>1, <1>3, <1>4, OtherCalls DEF IInv, local
<1> QED
  BY <1>3, <1>4, <1>5 DEF IInv

THEOREM NextIInv == IInv /\ [Next]_vars => IInv'
<1> SUFFICES ASSUME IInv, [Next]_vars PROVE IInv'
  OBVIOUS
<1>1. ASSUME NEW w \in Writers, NEW answer \in Ended, Exit(w, answer), UNCHANGED server
      PROVE  IInv'
  <2>1. ServerMoves /\ server' \in Object /\ UniqueTypes'
    BY <1>1, ConstantsAssumption DEF ServerMoves, IInv, TypeOK, Object, UniqueTypes
  <2> QED
    BY <1>1, <2>1, ExitStep
<1>2. ASSUME NEW w \in Writers, Call(w) PROVE IInv'
  <2>1. CASE \E r \in Requests : Start(w, r)
    BY <2>1, StartStep
  <2>2. CASE GetInstance(w)
    BY <2>2, GetInstanceStep
  <2>3. CASE GetUnchanged(w)
    BY <1>1, <2>3 DEF GetUnchanged, Ended
  <2>4. CASE GetFails(w)
    BY <1>1, <2>4 DEF GetFails, Ended
  <2>5. CASE MergeCondition(w)
    BY <2>5, MergeConditionStep
  <2>6. CASE MergeDone(w)
    BY <2>6, MergeDoneStep
  <2>7. CASE WriteStatus(w)
    BY <2>7, WriteStatusStep
  <2>8. CASE WriteFails(w)
    BY <1>1, <2>8 DEF WriteFails, Ended
  <2>9. CASE Killed(w)
    BY <1>1, <2>9 DEF Killed, Ended
  <2> QED
    BY <1>2, <2>1, <2>2, <2>3, <2>4, <2>5, <2>6, <2>7, <2>8, <2>9 DEF Call
<1>3. CASE Others
  BY <1>3, OthersStep
<1>4. CASE UNCHANGED vars
  <2>1. TypeOK' /\ RequestOK' /\ UniqueTypes'
    BY <1>4 DEF IInv, TypeOK, RequestOK, UniqueTypes, vars
  <2>2. CallsOK'
    BY <1>4 DEF IInv, CallsOK, MergeOK, SnapOK, vars
  <2> QED
    BY <2>1, <2>2 DEF IInv
<1> QED
  BY <1>2, <1>3, <1>4 DEF Next

THEOREM Invariance == Spec => []IInv
BY InitIInv, NextIInv, PTL DEF Spec

--------------------------------------------------------------------------------
(* What follows.                                                           *)

\* The variables of K8sStatus keep their types.
THEOREM TypeCorrect == Spec => []TypeOK
BY Invariance, PTL DEF IInv

\* However many calls and other clients interleave, the list of conditions in the
\* CR never holds a type twice.
THEOREM TypesStayUnique == Spec => []UniqueTypes
BY Invariance, PTL DEF IInv

\* A call's snapshot is stale only when the server would refuse the body made of it.
THEOREM SnapshotsFresh == Spec => []FreshIfAccepted
<1>1. IInv => FreshIfAccepted
  BY DEF IInv, CallsOK, SnapOK, FreshIfAccepted, ServerAccepts
<1> QED
  BY <1>1, Invariance, PTL

\* A step in which a call's write lands is that call's WriteStatus.
LEMMA LandedWrites ==
  ASSUME TypeOK, [Next]_vars, NEW w \in Writers, Landed(w)
  PROVE  WriteStatus(w)
<1>1. pc \in [Writers -> Active \cup Ended] /\ pc[w] = "write" /\ pc'[w] = "changed"
  BY DEF Landed, TypeOK
<1>2. PICK v \in Writers : Call(v)
  BY <1>1 DEF Next, Others, EditCr, OperatorMarksCr, DeleteCr, CreateCr, vars
<1>3. v = w
  BY <1>1, <1>2
  DEF Call, Start, GetInstance, GetUnchanged, GetFails, MergeCondition,
      MergeDone, WriteStatus, WriteFails, Killed, Exit
<1> QED
  BY <1>1, <1>2, <1>3
  DEF Call, Start, GetInstance, GetUnchanged, GetFails, MergeCondition,
      MergeDone, WriteStatus, WriteFails, Killed, Exit, Ended

\* A patch that lands leaves every condition and field it was not asked to set as
\* the server has it at that moment, not as the call read it.
THEOREM NothingLost == Spec => NoLostUpdate
<1>1. ASSUME IInv, [Next]_vars, NEW w \in Writers, Landed(w), ~req[w].force
      PROVE  PatchLosesNothing(w)
  <2>1. WriteStatus(w)
    BY <1>1, LandedWrites DEF IInv
  <2> DEFINE old == server.status
             r == req[w]
             new == PatchedStatus(old, r, merged[w])
  <2>2. server'.status = new
    BY <2>1 DEF WriteStatus, Stored, IInv, TypeOK, Object
  <2>3. new = [fields |-> [f \in Fields |-> IF r.status.fields[f] # Absent
                                            THEN r.status.fields[f] ELSE old.fields[f]],
               conds |-> IF r.status.conds = <<>> THEN old.conds ELSE merged[w]]
    BY <1>1 DEF PatchedStatus
  <2>4. MergeOK(w) /\ snap[w].status = old
    BY <1>1, <2>1 DEF IInv, CallsOK, SnapOK, WriteStatus, ServerAccepts
  <2>5. ASSUME NEW f \in Fields, r.status.fields[f] = Absent
        PROVE  server'.status.fields[f] = old.fields[f]
    BY <2>2, <2>3, <2>5
  <2>6. ASSUME NEW i \in 1..Len(old.conds),
               old.conds[i].type \notin TypesOf(r.status.conds)
        PROVE  /\ i \in 1..Len(server'.status.conds)
               /\ server'.status.conds[i] = old.conds[i]
    BY <1>1, <2>2, <2>3, <2>4, <2>6 DEF MergeOK
  <2> QED
    BY <2>5, <2>6 DEF PatchLosesNothing
<1>2. IInv /\ [Next]_vars => [\A w \in Writers : PatchLosesNothing(w)]_vars
  BY <1>1 DEF PatchLosesNothing
<1> QED
  BY <1>2, Invariance, PTL DEF Spec, NoLostUpdate

--------------------------------------------------------------------------------
(* What a call is about to write, as a function of the type.               *)

Merging(w) == pc[w] \in {"merge", "write"}

\* The conditions a call has merged so far overwrite the ones it read, type by type,
\* and none of those is dropped from the list.
OverwritesOn(w) ==
  LET wanted == req[w].status.conds
      read   == snap[w].status.conds
  IN  (~req[w].force /\ wanted # <<>>) =>
        /\ Len(read) <= Len(merged[w])
        /\ idx[w] \in 1..(Len(wanted) + 1)
        /\ pc[w] = "write" => idx[w] = Len(wanted) + 1
        /\ \A t \in Types :
             ConditionOf(merged[w])[t] =
               IF \E i \in 1..(idx[w] - 1) : wanted[i].type = t
               THEN ConditionOf(wanted)[t] ELSE ConditionOf(read)[t]

\* A call that got past its comparison has something to do.
SomethingToDo(w) == ~NothingToDo(snap[w].status, req[w])

\* A CR that is not there has no status.
GoneIsEmpty == server.exists \/ server.status = EmptyStatus

RInv ==
  /\ IInv
  /\ GoneIsEmpty
  /\ \A w \in Writers : Merging(w) => OverwritesOn(w) /\ SomethingToDo(w)

LEMMA InitRInv == Init => RInv
<1> SUFFICES ASSUME Init PROVE RInv
  OBVIOUS
<1>1. IInv
  BY InitIInv
<1>2. GoneIsEmpty
  BY DEF Init, GoneIsEmpty, NewObject
<1> QED
  BY <1>1, <1>2 DEF Init, RInv, Merging

\* A step that leaves a call alone keeps what is said of it.
LEMMA CallKept ==
  ASSUME NEW w \in Writers, Merging(w)',
         Merging(w) => OverwritesOn(w) /\ SomethingToDo(w),
         pc'[w] = pc[w], req'[w] = req[w], snap'[w] = snap[w], merged'[w] = merged[w],
         idx'[w] = idx[w]
  PROVE  (OverwritesOn(w) /\ SomethingToDo(w))'
BY DEF Merging, OverwritesOn, SomethingToDo

LEMMA GetInstanceMerges ==
  ASSUME RInv, NEW w \in Writers, GetInstance(w)
  PROVE  (OverwritesOn(w) /\ SomethingToDo(w))'
<1> DEFINE wanted == req[w].status.conds
           read == server.status.conds
<1>1. /\ req[w] \in Request /\ Unique(wanted) /\ wanted \in Seq(Condition)
      /\ server \in Object /\ Unique(read) /\ read \in Seq(Condition)
  BY RequestsUnique
  DEF RInv, IInv, RequestOK, TypeOK, Object, Status, Request, UniqueTypes
<1>2. req'[w] = req[w] /\ snap'[w] = server /\ pc'[w] \in {"merge", "write"}
  BY DEF GetInstance, RInv, IInv, TypeOK
<1>3. SomethingToDo(w)'
  BY <1>2 DEF GetInstance, SomethingToDo
<1>4. OverwritesOn(w)'
  <2> SUFFICES ASSUME ~req[w].force, wanted # <<>>
               PROVE  /\ Len(read) <= Len(merged'[w])
                      /\ idx'[w] \in 1..(Len(wanted) + 1)
                      /\ pc'[w] = "write" => idx'[w] = Len(wanted) + 1
                      /\ \A t \in Types :
                           ConditionOf(merged'[w])[t] =
                             IF \E i \in 1..(idx'[w] - 1) : wanted[i].type = t
                             THEN ConditionOf(wanted)[t] ELSE ConditionOf(read)[t]
    BY <1>2 DEF OverwritesOn
  <2>1. pc'[w] = "merge"
    BY DEF GetInstance, RInv, IInv, TypeOK
  <2>2. CASE read = <<>>
    <3>1. merged'[w] = wanted /\ idx'[w] = Len(wanted) + 1
      BY <2>2 DEF GetInstance, RInv, IInv, TypeOK
    <3>2. ASSUME NEW t \in Types, ~ \E i \in 1..Len(wanted) : wanted[i].type = t
          PROVE  ConditionOf(wanted)[t] = ConditionOf(read)[t]
      <4>1. t \notin TypesOf(wanted) /\ t \notin TypesOf(read)
        BY <2>2, <3>2 DEF TypesOf
      <4> QED
        BY <1>1, <4>1, ConditionOfList
    <3>3. (Len(wanted) + 1) - 1 = Len(wanted) /\ Len(read) = 0 /\ Len(wanted) \in Nat
      BY <1>1, <2>2
    <3> QED
      BY <2>1, <3>1, <3>2, <3>3
  <2>3. CASE read # <<>>
    <3>1. merged'[w] = read /\ idx'[w] = 1
      BY <2>3 DEF GetInstance, RInv, IInv, TypeOK
    <3>2. Len(wanted) \in Nat /\ Len(read) \in Nat
      BY <1>1
    <3> QED
      BY <2>1, <3>1, <3>2
  <2> QED
    BY <2>2, <2>3
<1> QED
  BY <1>3, <1>4

LEMMA MergeConditionOverwrites ==
  ASSUME RInv, NEW w \in Writers, MergeCondition(w)
  PROVE  (OverwritesOn(w) /\ SomethingToDo(w))'
<1> DEFINE wanted == req[w].status.conds
           read == snap[w].status.conds
           c == wanted[idx[w]]
<1>1. /\ wanted \in Seq(Condition) /\ Unique(wanted)
      /\ merged[w] \in Seq(Condition) /\ Unique(merged[w])
      /\ OverwritesOn(w) /\ SomethingToDo(w)
      /\ idx[w] \in Nat \ {0}
      /\ read \in Seq(Condition)
  BY RequestsUnique
  DEF MergeCondition, RInv, IInv, RequestOK, TypeOK, Request, Status, Object, CallsOK,
      MergeOK, Merging
<1>2. /\ pc'[w] = "merge" /\ pc[w] = "merge"
      /\ req'[w] = req[w] /\ snap'[w] = snap[w]
      /\ merged'[w] = PutCondition(merged[w], c) /\ idx'[w] = idx[w] + 1
      /\ idx[w] <= Len(wanted)
  BY DEF MergeCondition, RInv, IInv, TypeOK
<1>3. SomethingToDo(w)'
  BY <1>1, <1>2 DEF SomethingToDo
<1>4. idx[w] \in 1..Len(wanted) /\ c \in Condition /\ c.type \in Types
      /\ ConditionOf(wanted)[c.type] = c
  <2>1. idx[w] \in 1..Len(wanted)
    BY <1>1, <1>2, LenProperties
  <2> QED
    BY <1>1, <2>1, ConditionOfList
<1> HIDE DEF c
<1>5. /\ merged'[w] \in Seq(Condition)
      /\ Len(merged[w]) <= Len(merged'[w])
      /\ ConditionOf(merged'[w]) = [ConditionOf(merged[w]) EXCEPT ![c.type] = c]
      /\ ConditionOf(merged[w]) \in [Types -> Condition \cup {Absent}]
  <2>1. /\ PutCondition(merged[w], c) \in Seq(Condition)
        /\ Len(merged[w]) <= Len(PutCondition(merged[w], c))
    BY <1>1, <1>4, PutConditionMerges
  <2>2. ConditionOf(PutCondition(merged[w], c))
          = [ConditionOf(merged[w]) EXCEPT ![c.type] = c]
    BY <1>1, <1>4, ConditionOfPut
  <2>3. ConditionOf(merged[w]) \in [Types -> Condition \cup {Absent}]
    BY <1>1, ConditionOfList
  <2> QED
    BY <1>2, <2>1, <2>2, <2>3
<1>6. OverwritesOn(w)'
  <2> SUFFICES ASSUME ~req[w].force, wanted # <<>>
               PROVE  /\ Len(read) <= Len(merged'[w])
                      /\ idx'[w] \in 1..(Len(wanted) + 1)
                      /\ \A t \in Types :
                           ConditionOf(merged'[w])[t] =
                             IF \E i \in 1..(idx'[w] - 1) : wanted[i].type = t
                             THEN ConditionOf(wanted)[t] ELSE ConditionOf(read)[t]
    BY <1>2 DEF OverwritesOn
  <2>1. Len(read) <= Len(merged'[w])
    <3>1. Len(read) <= Len(merged[w])
      BY <1>1 DEF OverwritesOn
    <3>2. Len(read) \in Nat /\ Len(merged[w]) \in Nat /\ Len(merged'[w]) \in Nat
      BY <1>1, <1>5, LenProperties
    <3> QED
      BY <1>5, <3>1, <3>2
  <2>2. idx[w] + 1 \in 1..(Len(wanted) + 1)
    BY <1>1, <1>4, LenProperties
  <2>3. ASSUME NEW t \in Types
        PROVE  ConditionOf(merged'[w])[t] =
                 IF \E i \in 1..idx[w] : wanted[i].type = t
                 THEN ConditionOf(wanted)[t] ELSE ConditionOf(read)[t]
    <3>1. CASE t = c.type
      <4>1. \E i \in 1..idx[w] : wanted[i].type = t
        BY <1>4, <3>1 DEF c
      <4> QED
        BY <1>4, <1>5, <3>1, <4>1
    <3>2. CASE t # c.type
      <4>1. (\E i \in 1..idx[w] : wanted[i].type = t)
              <=> \E i \in 1..(idx[w] - 1) : wanted[i].type = t
        <5>1. wanted[idx[w]].type # t
          BY <3>2 DEF c
        <5> QED
          BY <1>1, <5>1
      <4>2. ConditionOf(merged'[w])[t] = ConditionOf(merged[w])[t]
        BY <1>5, <3>2
      <4> QED
        BY <1>1, <4>1, <4>2 DEF OverwritesOn
    <3> QED
      BY <3>1, <3>2
  <2>4. idx'[w] = idx[w] + 1 /\ idx'[w] - 1 = idx[w]
    BY <1>1, <1>2
  <2> QED
    BY <2>1, <2>2, <2>3, <2>4
<1> QED
  BY <1>3, <1>6

LEMMA MergeDoneOverwrites ==
  ASSUME RInv, NEW w \in Writers, MergeDone(w)
  PROVE  (OverwritesOn(w) /\ SomethingToDo(w))'
<1>1. /\ OverwritesOn(w) /\ SomethingToDo(w)
      /\ idx[w] > Len(req[w].status.conds)
      /\ UNCHANGED local
      /\ idx[w] \in Nat
      /\ req[w].status.conds \in Seq(Condition)
  BY DEF MergeDone, RInv, Merging, IInv, TypeOK, Request, Status
<1>2. Len(req[w].status.conds) \in Nat
  BY <1>1, LenProperties
<1>3. SomethingToDo(w)'
  BY <1>1 DEF SomethingToDo, local
<1>4. OverwritesOn(w)'
  BY <1>1, <1>2 DEF OverwritesOn, local
<1> QED
  BY <1>3, <1>4

LEMMA NextRInv == RInv /\ [Next]_vars => RInv'
<1> SUFFICES ASSUME RInv, [Next]_vars PROVE RInv'
  OBVIOUS
<1>1. IInv'
  BY NextIInv DEF RInv
<1>2. GoneIsEmpty'
  <2>1. CASE UNCHANGED server
    BY <2>1 DEF RInv, GoneIsEmpty
  <2>2. ASSUME NEW w \in Writers, WriteStatus(w)
        PROVE  GoneIsEmpty'
    <3>1. server \in Object /\ server.exists
      BY <2>2 DEF RInv, IInv, TypeOK, WriteStatus, ServerAccepts
    <3> QED
      BY <2>2, <3>1 DEF WriteStatus, Stored, GoneIsEmpty, Object
  <2>3. ASSUME NEW c \in OperatorMarks, OperatorMarksCr(c)
        PROVE  server'.exists = server.exists /\ server.exists
    BY <2>3 DEF OperatorMarksCr, RInv, IInv, TypeOK, Object
  <2>4. CASE EditCr
    BY <2>4 DEF EditCr, GoneIsEmpty, RInv, IInv, TypeOK, Object
  <2>5. CASE DeleteCr
    BY <2>5 DEF DeleteCr, GoneIsEmpty, RInv, IInv, TypeOK, Object
  <2>6. CASE CreateCr
    BY <2>6 DEF CreateCr, NewObject, GoneIsEmpty
  <2> QED
    BY <2>1, <2>2, <2>3, <2>4, <2>5, <2>6
    DEF Next, Call, Others, vars, Start, GetInstance, GetUnchanged, GetFails,
        MergeCondition, MergeDone, WriteFails, Killed, GoneIsEmpty
<1>3. ASSUME NEW v \in Writers, Merging(v)'
      PROVE  (OverwritesOn(v) /\ SomethingToDo(v))'
  <2>1. Merging(v) => OverwritesOn(v) /\ SomethingToDo(v)
    BY DEF RInv
  <2>2. CASE /\ pc'[v] = pc[v] /\ req'[v] = req[v] /\ snap'[v] = snap[v]
             /\ merged'[v] = merged[v] /\ idx'[v] = idx[v]
    BY <1>3, <2>1, <2>2, CallKept
  <2>3. CASE Others \/ UNCHANGED vars
    BY <2>2, <2>3
    DEF Others, EditCr, OperatorMarksCr, DeleteCr, CreateCr, vars, local
  <2>4. ASSUME NEW w \in Writers, Call(w), w # v
        PROVE  /\ pc'[v] = pc[v] /\ req'[v] = req[v] /\ snap'[v] = snap[v]
               /\ merged'[v] = merged[v] /\ idx'[v] = idx[v]
    BY <2>4
    DEF Call, Start, GetInstance, GetUnchanged, GetFails, MergeCondition, MergeDone,
        WriteStatus, WriteFails, Killed, Exit, RInv, IInv, TypeOK, local
  <2>5. CASE Call(v)
    <3>1. \/ GetInstance(v) \/ MergeCondition(v) \/ MergeDone(v)
      BY <1>3, <2>5
      DEF Call, Start, GetUnchanged, GetFails, WriteStatus, WriteFails, Killed, Exit,
          RInv, IInv, TypeOK, Merging
    <3> QED
      BY <3>1, GetInstanceMerges, MergeConditionOverwrites, MergeDoneOverwrites
  <2> QED
    BY <2>2, <2>3, <2>4, <2>5 DEF Next
<1> QED
  BY <1>1, <1>2, <1>3 DEF RInv

\* The merge, read as a function of the type, is the overwriting of what was read.
THEOREM RefinementInvariant == Spec => []RInv
BY InitRInv, NextRInv, PTL DEF Spec

--------------------------------------------------------------------------------
(* A condition set again to what it says already.                          *)

\* What the server holds after the write of a call, and what the call knows then.
LEMMA WrittenStatus ==
  ASSUME RInv, NEW w \in Writers, WriteStatus(w)
  PROVE  /\ server \in Object /\ server'.exists = server.exists
         /\ server'.status = PatchedStatus(server.status, req[w], merged[w])
         /\ snap[w].status = server.status
         /\ ~NothingToDo(server.status, req[w])
         /\ OverwritesOn(w)
         /\ MergeOK(w)
<1>1. server \in Object
  BY DEF RInv, IInv, TypeOK
<1>2. snap[w].status = server.status /\ MergeOK(w)
  BY DEF RInv, IInv, CallsOK, SnapOK, WriteStatus, ServerAccepts
<1>3. OverwritesOn(w) /\ ~NothingToDo(server.status, req[w])
  BY <1>2 DEF RInv, Merging, WriteStatus, SomethingToDo
<1>4. server'.exists = server.exists
  BY <1>1 DEF WriteStatus, Stored, Object
<1>5. server'.status = PatchedStatus(server.status, req[w], merged[w])
  BY <1>1 DEF WriteStatus, Stored, Object
<1> QED
  BY <1>1, <1>2, <1>3, <1>4, <1>5

\* A task that sets one condition to what it says already leaves the entry, with its
\* lastTransitionTime, as it was, even when other calls write in between.
THEOREM TransitionTimeKept == Spec => KeepsTransitionTime
<1>1. ASSUME RInv, [Next]_vars, NEW w \in Writers, Landed(w), ~req[w].force,
             \A f \in Fields : req[w].status.fields[f] = Absent,
             Len(req[w].status.conds) = 1,
             req[w].status.conds[1].ltt = Absent,
             NEW i \in 1..Len(server.status.conds),
             Clean(server.status.conds[i]) = Clean(server'.status.conds[i])
      PROVE  server'.status.conds[i] = server.status.conds[i]
  <2> DEFINE old == server.status.conds
             new == server'.status.conds
             c == req[w].status.conds[1]
  <2>1. WriteStatus(w)
    BY <1>1, LandedWrites DEF RInv, IInv
  <2>2. /\ new = merged[w]
        /\ snap[w].status = server.status
        /\ ~Contains(server.status, req[w].status)
        /\ OverwritesOn(w)
        /\ MergeOK(w)
    <3>1. req[w].status.conds # <<>>
      BY <1>1
    <3>2. /\ server'.status = PatchedStatus(server.status, req[w], merged[w])
          /\ snap[w].status = server.status
          /\ ~NothingToDo(server.status, req[w])
          /\ OverwritesOn(w)
          /\ MergeOK(w)
      BY <1>1, <2>1, WrittenStatus
    <3>3. PatchedStatus(server.status, req[w], merged[w]).conds = merged[w]
      BY <1>1, <3>1 DEF PatchedStatus
    <3>4. ~Contains(server.status, req[w].status)
      BY <1>1, <3>2 DEF NothingToDo
    <3> QED
      BY <3>2, <3>3, <3>4
  <2>3. /\ req[w].status.conds \in Seq(Condition)
        /\ old \in Seq(Condition)
        /\ new \in Seq(Condition) /\ Unique(new)
        /\ c \in Condition
        /\ idx[w] \in Nat
    BY <1>1, <2>2 DEF RInv, IInv, TypeOK, Object, Status, Request, MergeOK
  <2>4. i \in 1..Len(new)
    <3>1. Len(old) <= Len(new)
      BY <1>1, <2>2 DEF OverwritesOn
    <3> QED
      BY <2>3, <3>1, LenProperties
  <2> HIDE DEF new, old
  <2>5. old[i] \in Condition /\ new[i] \in Condition /\ old[i].type = new[i].type
    <3>1. old[i] \in Condition /\ new[i] \in Condition
      BY <1>1, <2>3, <2>4 DEF old
    <3>2. Clean(old[i]).type = old[i].type /\ Clean(new[i]).type = new[i].type
      BY <3>1 DEF Clean, Condition
    <3> QED
      BY <1>1, <3>1, <3>2 DEF old, new
  <2>6. CASE old[i].type = c.type
    <3>1. ConditionOf(new)[c.type] = c
      <4>1. ConditionOf(req[w].status.conds)[c.type] = c
        <5>1. 1 \in 1..Len(req[w].status.conds) /\ Unique(req[w].status.conds)
          BY <1>1 DEF Unique
        <5> QED
          BY <2>3, <5>1, ConditionOfList
      <4>2. idx[w] = 2
        BY <1>1, <2>1, <2>2 DEF OverwritesOn, WriteStatus
      <4>3. c.type \in Types
        BY <2>3 DEF Condition
      <4>4. \E k \in 1..(idx[w] - 1) : req[w].status.conds[k].type = c.type
        BY <4>2
      <4> QED
        BY <1>1, <2>2, <4>1, <4>3, <4>4 DEF OverwritesOn
    <3>2. new[i] = c
      <4>1. ConditionOf(new)[new[i].type] = new[i]
        BY <2>3, <2>4, ConditionOfList
      <4> QED
        BY <2>5, <2>6, <3>1, <4>1
    <3>3. Clean(old[i]) = c
      BY <1>1, <2>3, <3>2 DEF Clean, Condition, old, new
    <3>4. Contains(server.status, req[w].status)
      BY <1>1, <3>3 DEF Contains, old
    <3> QED
      BY <2>2, <3>4
  <2>7. CASE old[i].type # c.type
    <3>1. old[i].type \notin TypesOf(req[w].status.conds)
      BY <1>1, <2>7 DEF TypesOf
    <3> QED
      BY <1>1, <2>2, <3>1 DEF MergeOK, old, new
  <2> QED
    BY <2>6, <2>7 DEF old, new
<1>2. RInv /\ [Next]_vars => [\A w \in Writers : StampKept(w)]_vars
  BY <1>1 DEF StampKept
<1> QED
  BY <1>2, RefinementInvariant, PTL DEF Spec, KeepsTransitionTime

--------------------------------------------------------------------------------
(* The refinement.                                                         *)

\* A call that ends with `changed: False' finds that its status holds; one that is
\* not forced and goes on finds that it does not.
LEMMA NothingToDoHolds ==
  ASSUME TypeOK, UniqueTypes, NEW r \in Request, Unique(r.status.conds)
  PROVE  /\ NothingToDo(server.status, r) => Atomic!Holds(AbstractCall(r))
         /\ ~r.force => (Atomic!Holds(AbstractCall(r)) => NothingToDo(server.status, r))
<1> DEFINE old == server.status
           new == r.status
<1>1. /\ old.conds \in Seq(Condition) /\ Unique(old.conds)
      /\ new.conds \in Seq(Condition)
  BY DEF TypeOK, UniqueTypes, Object, Status, Request
<1>2. CASE r.force
  BY <1>2 DEF NothingToDo, Atomic!Holds, AbstractCall
<1>3. CASE ~r.force
  <2>1. (\A i \in 1..Len(new.conds) : \E j \in 1..Len(old.conds) :
           Clean(old.conds[j]) = new.conds[i])
        <=> (\A t \in Types : ConditionOf(new.conds)[t] # Absent =>
               Atomic!Cleared(ConditionOf(old.conds)[t]) = ConditionOf(new.conds)[t])
    BY <1>1, ContainedConditions
  <2>2. NothingToDo(old, r) <=> Contains(old, new)
    BY <1>3 DEF NothingToDo
  <2>3. /\ AbstractCall(r).fields = new.fields
        /\ AbstractCall(r).condition = ConditionOf(new.conds)
        /\ AbstractCall(r).force = FALSE
    BY <1>3 DEF AbstractCall, Request
  <2> HIDE DEF old, new
  <2>4. Atomic!Holds(AbstractCall(r))
        <=> /\ \A f \in Fields : new.fields[f] # Absent => old.fields[f] = new.fields[f]
            /\ \A t \in Types : ConditionOf(new.conds)[t] # Absent =>
                 Atomic!Cleared(ConditionOf(old.conds)[t]) = ConditionOf(new.conds)[t]
    BY <2>3 DEF Atomic!Holds, Atomic!Named, old
  <2> QED
    BY <2>1, <2>2, <2>4 DEF Contains, old, new
<1> QED
  BY <1>2, <1>3

\* The end of a call is its answer.
LEMMA ExitAnswers ==
  ASSUME TypeOK, NEW w \in Writers, NEW answer \in {"unchanged", "changed", "failed"},
         pc[w] \in Active, Exit(w, answer)
  PROVE  Atomic!Answer(w, answer)
BY DEF TypeOK, Exit, Atomic!Answer, Active

\* The write of a call is the instant at which it takes effect.
LEMMA WriteChanges ==
  ASSUME RInv, NEW w \in Writers, WriteStatus(w)
  PROVE  Atomic!Changed(w)
<1> DEFINE r == req[w]
           old == server.status
           new == PatchedStatus(old, r, merged[w])
<1>1. /\ server'.status = new /\ server'.exists = server.exists /\ server.exists
      /\ ~NothingToDo(old, r)
      /\ OverwritesOn(w)
      /\ snap[w].status = old
  BY WrittenStatus DEF WriteStatus, ServerAccepts
<1>2. /\ r \in Request /\ Unique(r.status.conds) /\ r.status.conds \in Seq(Condition)
      /\ old \in Status /\ Unique(old.conds) /\ old.conds \in Seq(Condition)
      /\ merged[w] \in Seq(Condition)
  BY RequestsUnique
  DEF RInv, IInv, TypeOK, UniqueTypes, RequestOK, Object, Status, Request
<1>3. Atomic!Answer(w, "changed")
  BY ExitAnswers DEF WriteStatus, Active, RInv, IInv
<1>4. ~r.force => ~Atomic!Holds(AbstractCall(r))
  BY <1>1, <1>2, NothingToDoHolds DEF RInv, IInv
<1>5. CASE r.force
  BY <1>1, <1>3, <1>5 DEF Atomic!Changed, AbstractCall, PatchedStatus
<1>6. CASE ~r.force
  <2>1. new.fields = Atomic!Overwritten(old.fields, r.status.fields)
    BY <1>2, <1>6 DEF PatchedStatus, Atomic!Overwritten, Atomic!Named, Status
  <2>2. new.conds = IF r.status.conds = <<>> THEN old.conds ELSE merged[w]
    BY <1>6 DEF PatchedStatus
  <2>3. DOMAIN ConditionOf(old.conds) = Types
    BY DEF ConditionOf
  <2>4. ConditionOf(new.conds)
          = Atomic!Overwritten(ConditionOf(old.conds), ConditionOf(r.status.conds))
    <3>1. CASE r.status.conds = <<>>
      <4>1. \A t \in Types : ConditionOf(r.status.conds)[t] = Absent
        BY <3>1 DEF ConditionOf, TypesOf
      <4>2. new.conds = old.conds
        BY <2>2, <3>1
      <4>3. Atomic!Overwritten(ConditionOf(old.conds), ConditionOf(r.status.conds))
              = [t \in Types |-> ConditionOf(old.conds)[t]]
        BY <2>3, <4>1 DEF Atomic!Overwritten, Atomic!Named
      <4>4. ConditionOf(old.conds) = [t \in Types |-> ConditionOf(old.conds)[t]]
        BY DEF ConditionOf
      <4> QED
        BY <4>2, <4>3, <4>4
    <3>2. CASE r.status.conds # <<>>
      <4>1. idx[w] - 1 = Len(r.status.conds)
        <5>1. Len(r.status.conds) \in Nat
          BY <1>2, LenProperties
        <5> QED
          BY <1>1, <1>6, <3>2, <5>1 DEF OverwritesOn, WriteStatus
      <4>2. ASSUME NEW t \in Types
            PROVE  ConditionOf(merged[w])[t] =
                     IF ConditionOf(r.status.conds)[t] # Absent
                     THEN ConditionOf(r.status.conds)[t] ELSE ConditionOf(old.conds)[t]
        <5>1. (\E i \in 1..(idx[w] - 1) : r.status.conds[i].type = t)
                <=> ConditionOf(r.status.conds)[t] # Absent
          BY <1>2, <4>1, ConditionOfList DEF TypesOf
        <5> QED
          BY <1>1, <1>6, <3>2, <5>1 DEF OverwritesOn
      <4>3. ConditionOf(merged[w]) = [t \in Types |-> ConditionOf(merged[w])[t]]
        BY DEF ConditionOf
      <4>4. new.conds = merged[w]
        BY <2>2, <3>2
      <4> HIDE DEF new
      <4> QED
        BY <2>3, <4>2, <4>3, <4>4 DEF Atomic!Overwritten, Atomic!Named
    <3> QED
      BY <3>1, <3>2
  <2> HIDE DEF new
  <2>5. AbstractCall(r).fields = r.status.fields
        /\ AbstractCall(r).condition = ConditionOf(r.status.conds)
        /\ ~AbstractCall(r).force
    BY <1>6 DEF AbstractCall
  <2>6. [v \in Writers |-> AbstractCall(req[v])][w] = AbstractCall(r)
    OBVIOUS
  <2>7. server'.status.fields = Atomic!Overwritten(old.fields, AbstractCall(r).fields)
    BY <1>1, <2>1, <2>5
  <2>8. ConditionOf(server'.status.conds)
          = Atomic!Overwritten(ConditionOf(old.conds), AbstractCall(r).condition)
    BY <1>1, <2>4, <2>5
  <2>9. ~Atomic!Holds(AbstractCall(r))
    BY <1>4, <1>6
  <2> HIDE DEF r, old
  <2> QED
    BY <1>1, <1>3, <2>5, <2>6, <2>7, <2>8, <2>9 DEF Atomic!Changed, old
<1> QED
  BY <1>5, <1>6

LEMMA InitRefines == Init => Atomic!Init
<1> SUFFICES ASSUME Init PROVE Atomic!Init
  OBVIOUS
<1>1. ConditionOf(<<>>) = [t \in Types |-> Absent]
  BY DEF ConditionOf, TypesOf
<1> QED
  BY <1>1 DEF Init, Atomic!Init, NewObject, EmptyStatus, Active

LEMMA CallRefines ==
  ASSUME RInv, NEW w \in Writers, Call(w)
  PROVE  Atomic!Next \/ UNCHANGED Atomic!vars
<1>0. TypeOK /\ UniqueTypes /\ req[w] \in Request /\ Unique(req[w].status.conds)
  BY RequestsUnique DEF RInv, IInv, RequestOK
<1>1. ASSUME NEW r \in Requests, Start(w, r)
      PROVE  Atomic!Next
  <2>1. Atomic!Begin(w, AbstractCall(r))
    BY <1>0, <1>1 DEF Start, Atomic!Begin, TypeOK, Active, Ended
  <2> QED
    BY <2>1 DEF Atomic!Next
<1>2. CASE GetInstance(w)
  BY <1>0, <1>2 DEF GetInstance, TypeOK, Active, Atomic!vars
<1>3. CASE GetUnchanged(w)
  <2>1. Atomic!Answer(w, "unchanged")
    BY <1>0, <1>3, ExitAnswers DEF GetUnchanged, Active
  <2>2. Atomic!Unchanged(w)
    BY <1>0, <1>3, <2>1, NothingToDoHolds DEF GetUnchanged, Atomic!Unchanged
  <2> QED
    BY <2>2 DEF Atomic!Next
<1>4. CASE GetFails(w) \/ WriteFails(w) \/ Killed(w)
  <2>1. Atomic!Answer(w, "failed")
    BY <1>0, <1>4, ExitAnswers DEF GetFails, WriteFails, Killed, Active
  <2>2. UNCHANGED server
    BY <1>4 DEF GetFails, WriteFails, Killed
  <2> QED
    BY <2>1, <2>2 DEF Atomic!Next, Atomic!Failed
<1>5. CASE MergeCondition(w)
  BY <1>5 DEF MergeCondition, Atomic!vars
<1>6. CASE MergeDone(w)
  BY <1>0, <1>6 DEF MergeDone, TypeOK, local, Active, Atomic!vars
<1>7. CASE WriteStatus(w)
  BY <1>7, WriteChanges DEF Atomic!Next
<1> QED
  BY <1>1, <1>2, <1>3, <1>4, <1>5, <1>6, <1>7 DEF Call

LEMMA OthersRefine ==
  ASSUME RInv, Others
  PROVE  Atomic!Next \/ UNCHANGED Atomic!vars
<1>1. server \in Object /\ server.status \in Status /\ Unique(server.status.conds)
      /\ server.status.conds \in Seq(Condition)
  BY DEF RInv, IInv, TypeOK, UniqueTypes, Object, Status
<1>2. UNCHANGED <<pc, req>>
  BY DEF Others, EditCr, OperatorMarksCr, DeleteCr, CreateCr, local
<1>3. CASE EditCr
  <2>1. server'.exists = server.exists /\ server'.status = server.status
    BY <1>1, <1>3 DEF EditCr, Object
  <2> QED
    BY <1>2, <2>1 DEF Atomic!vars
<1>4. ASSUME NEW c \in OperatorMarks, OperatorMarksCr(c)
      PROVE  Atomic!Next
  <2>1. /\ server'.exists = server.exists /\ server.exists
        /\ server'.status.fields = server.status.fields
        /\ server'.status.conds = PutCondition(server.status.conds, c)
    BY <1>1, <1>4 DEF OperatorMarksCr, Object, Status
  <2>2. ConditionOf(server'.status.conds)
          = [ConditionOf(server.status.conds) EXCEPT ![c.type] = c]
    BY <1>1, <2>1, ConstantsAssumption, ConditionOfPut
  <2>3. Atomic!Mark(c)
    BY <1>2, <2>1, <2>2 DEF Atomic!Mark
  <2> QED
    BY <2>3 DEF Atomic!Next
<1>5. CASE DeleteCr
  <2>1. /\ server.exists /\ server'.exists = FALSE
        /\ server'.status.fields = [f \in Fields |-> Absent]
        /\ server'.status.conds = <<>>
    BY <1>1, <1>5 DEF DeleteCr, Object, EmptyStatus
  <2>2. ConditionOf(<<>>) = [t \in Types |-> Absent]
    BY DEF ConditionOf, TypesOf
  <2>3. Atomic!Delete
    BY <1>2, <2>1, <2>2 DEF Atomic!Delete
  <2> QED
    BY <2>3 DEF Atomic!Next
<1>6. CASE CreateCr
  <2>1. ~server.exists /\ server'.exists = TRUE /\ server'.status = server.status
    BY <1>6 DEF CreateCr, NewObject, RInv, GoneIsEmpty
  <2>2. Atomic!Create
    BY <1>2, <2>1 DEF Atomic!Create
  <2> QED
    BY <2>2 DEF Atomic!Next
<1> QED
  BY <1>3, <1>4, <1>5, <1>6 DEF Others

\* Reads, merges and writes of several calls interleave, and yet every call takes
\* effect at one instant, on the status as it is then, or fails without effect: what
\* the module does is what AtomicStatus promises.
THEOREM CallsLinearizable == Spec => Linearizable
<1>1. RInv /\ [Next]_vars => [Atomic!Next]_(Atomic!vars)
  <2> SUFFICES ASSUME RInv, [Next]_vars PROVE Atomic!Next \/ UNCHANGED Atomic!vars
    OBVIOUS
  <2>1. CASE UNCHANGED vars
    BY <2>1 DEF vars, Atomic!vars
  <2> QED
    BY <2>1, CallRefines, OthersRefine DEF Next
<1> QED
  BY <1>1, InitRefines, RefinementInvariant, PTL DEF Spec, Linearizable, Atomic!Spec

================================================================================
