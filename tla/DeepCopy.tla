-------------------------------- MODULE DeepCopy --------------------------------
(***************************************************************************)
(* The API types and their generated deep copies.                          *)
(*                                                                         *)
(* A Go struct is a record: all it holds by value is one `scalar', and     *)
(* each field that is a map, a slice or a struct with pointers in it holds *)
(* a cell of the heap, or Nil.  Assigning a struct copies the cells' names *)
(* and not their contents, so that a copy is as deep as the fields to      *)
(* which its DeepCopyInto gives a cell of their own.                       *)
(*                                                                         *)
(* A program holds structs in variables, an informer's cache being one of  *)
(* them: it decodes them, copies them, and edits them in place.  A cell    *)
(* that no variable leads to is collected.                                 *)
(***************************************************************************)
EXTENDS Naturals, Sequences

CONSTANTS
  Variables,  \* the variables of the program
  Allocations, \* bound: numbers of allocations
  Sent,       \* what a scalar or a cell holds as it comes from the API server
  Changed,    \* what an edit makes of it
  Nil,        \* no cell
  MaxItems,   \* bound: a list has as many items, or none
  MaxEdits    \* bound: edits in place

VARIABLES
  type,       \* the type of the variables
  var,        \* var[v]: the struct variable v holds, or Nil
  heap,       \* heap[c]: a datum, or the items of a list
  edits       \* how many edits were made

vars == <<type, var, heap, edits>>

--------------------------------------------------------------------------------
(* The fields that hold cells: types.go.                                    *)

ObjectMeta == {"metadata"}
ConfigStatus == {"conditions", "containers"}
Container == {}
VersionSpec == {}
ComponentSpec == {"affinity", "nodeSelector", "tolerations"}
TemplateValidatorSpec == {"affinity", "nodeSelector", "tolerations"}
KubevirtCommonTemplatesBundle == ObjectMeta \cup VersionSpec \cup ConfigStatus
KubevirtNodeLabellerBundle == ObjectMeta \cup ComponentSpec \cup ConfigStatus
KubevirtTemplateValidator == ObjectMeta \cup TemplateValidatorSpec \cup ConfigStatus
KubevirtMetricsAggregation == ObjectMeta \cup VersionSpec \cup ConfigStatus
Items == {"items"}

Fields ==
  [ConfigStatus |-> ConfigStatus, Container |-> Container,
   VersionSpec |-> VersionSpec, ComponentSpec |-> ComponentSpec,
   TemplateValidatorSpec |-> TemplateValidatorSpec,
   KubevirtCommonTemplatesBundle |-> KubevirtCommonTemplatesBundle,
   KubevirtNodeLabellerBundle |-> KubevirtNodeLabellerBundle,
   KubevirtTemplateValidator |-> KubevirtTemplateValidator,
   KubevirtMetricsAggregation |-> KubevirtMetricsAggregation,
   KubevirtCommonTemplatesBundleList |-> Items, KubevirtNodeLabellerBundleList |-> Items,
   KubevirtTemplateValidatorList |-> Items, KubevirtMetricsAggregationList |-> Items]

ItemType ==
  [KubevirtCommonTemplatesBundleList |-> "KubevirtCommonTemplatesBundle",
   KubevirtNodeLabellerBundleList |-> "KubevirtNodeLabellerBundle",
   KubevirtTemplateValidatorList |-> "KubevirtTemplateValidator",
   KubevirtMetricsAggregationList |-> "KubevirtMetricsAggregation"]

--------------------------------------------------------------------------------
(* The generated DeepCopyInto functions (zz_generated.deepcopy.go): the      *)
(* fields that get cells of their own when they are not nil, the others      *)
(* being assigned.  `own' are fields of the struct itself, `item' those of   *)
(* the items of a list.                                                      *)

Deep(own) == [own |-> own, item |-> {}]
DeepItems(kind) == [own |-> Items, item |-> kind.own]

\* ObjectMeta has a DeepCopyInto of its own, and so do the conditions.
ObjectMeta_DeepCopyInto == Deep(ObjectMeta)

\* `*out = *in', and nothing else.
ComponentSpec_DeepCopyInto == Deep({})
TemplateValidatorSpec_DeepCopyInto == Deep({})
VersionSpec_DeepCopyInto == Deep({})
Container_DeepCopyInto == Deep({})

\* Both slices are made anew: the conditions are deep copied one by one, the
\* containers, which hold strings only, by copy().
ConfigStatus_DeepCopyInto_shallow == Deep({"containers"})
ConfigStatus_DeepCopyInto == Deep({"conditions", "containers"})

\* `out.Spec = in.Spec' is an assignment for all four kinds.
KubevirtCommonTemplatesBundle_DeepCopyInto ==
  Deep(ObjectMeta_DeepCopyInto.own \cup ConfigStatus_DeepCopyInto.own)
KubevirtMetricsAggregation_DeepCopyInto ==
  Deep(ObjectMeta_DeepCopyInto.own \cup ConfigStatus_DeepCopyInto.own)
KubevirtNodeLabellerBundle_DeepCopyInto ==
  Deep(ObjectMeta_DeepCopyInto.own \cup ConfigStatus_DeepCopyInto.own)
KubevirtTemplateValidator_DeepCopyInto ==
  Deep(ObjectMeta_DeepCopyInto.own \cup ConfigStatus_DeepCopyInto.own)

\* A list's items are a new slice, each element deep copied into its place.
KubevirtCommonTemplatesBundleList_DeepCopyInto ==
  DeepItems(KubevirtCommonTemplatesBundle_DeepCopyInto)
KubevirtMetricsAggregationList_DeepCopyInto ==
  DeepItems(KubevirtMetricsAggregation_DeepCopyInto)
KubevirtNodeLabellerBundleList_DeepCopyInto ==
  DeepItems(KubevirtNodeLabellerBundle_DeepCopyInto)
KubevirtTemplateValidatorList_DeepCopyInto ==
  DeepItems(KubevirtTemplateValidator_DeepCopyInto)

DeepCopyInto ==
  [ConfigStatus |-> ConfigStatus_DeepCopyInto, Container |-> Container_DeepCopyInto,
   VersionSpec |-> VersionSpec_DeepCopyInto, ComponentSpec |-> ComponentSpec_DeepCopyInto,
   TemplateValidatorSpec |-> TemplateValidatorSpec_DeepCopyInto,
   KubevirtCommonTemplatesBundle |-> KubevirtCommonTemplatesBundle_DeepCopyInto,
   KubevirtNodeLabellerBundle |-> KubevirtNodeLabellerBundle_DeepCopyInto,
   KubevirtTemplateValidator |-> KubevirtTemplateValidator_DeepCopyInto,
   KubevirtMetricsAggregation |-> KubevirtMetricsAggregation_DeepCopyInto,
   KubevirtCommonTemplatesBundleList |-> KubevirtCommonTemplatesBundleList_DeepCopyInto,
   KubevirtNodeLabellerBundleList |-> KubevirtNodeLabellerBundleList_DeepCopyInto,
   KubevirtTemplateValidatorList |-> KubevirtTemplateValidatorList_DeepCopyInto,
   KubevirtMetricsAggregationList |-> KubevirtMetricsAggregationList_DeepCopyInto]

--------------------------------------------------------------------------------
(* Structs in the heap.  A field's place in a struct is <<0, f>>, or <<i, f>> *)
(* in the i-th item of a list; a cell is named by the variable, the           *)
(* allocation and the place it was made for.                                  *)

Cells == Variables \X Allocations \X (Nat \X UNION {Fields[t] : t \in DOMAIN Fields})

Struct(t, scalar, cell) == [type |-> t, scalar |-> scalar, cell |-> cell]
Structs(t) == [type : {t}, scalar : {Sent} \cup Changed, cell : [Fields[t] -> Cells \cup {Nil}]]

ASSUME ItemsAssumption == MaxItems \in Nat
ASSUME NilAssumption == Nil \notin Cells /\ \A t \in DOMAIN Fields : Nil \notin Structs(t)

ItemsOf(s, h) ==
  IF s.type \in DOMAIN ItemType /\ s.cell["items"] # Nil THEN h[s.cell["items"]] ELSE <<>>

NotNil(s) == {f \in DOMAIN s.cell : s.cell[f] # Nil}

Places(s, h) ==
  IF s = Nil THEN {}
  ELSE {<<0, f>> : f \in NotNil(s)} \cup
       UNION {{<<i, f>> : f \in NotNil(ItemsOf(s, h)[i])} : i \in DOMAIN ItemsOf(s, h)}

CellAt(s, h, p) == IF p[1] = 0 THEN s.cell[p[2]] ELSE ItemsOf(s, h)[p[1]].cell[p[2]]

Live(vs, h) == UNION {{CellAt(vs[v], h, p) : p \in Places(vs[v], h)} : v \in Variables}

\* What a struct says, whatever cells it says it with.
Value(s, h) ==
  IF s = Nil THEN Nil
  ELSE [type |-> s.type, scalar |-> s.scalar,
        items |-> [i \in DOMAIN ItemsOf(s, h) |-> ItemsOf(s, h)[i].scalar],
        data |-> [p \in Places(s, h) |->
                    IF p[2] \in Items THEN Nil ELSE h[CellAt(s, h, p)]]]

\* The allocations of v that no live cell is of.
NewAllocations(v) == {g \in Allocations : \A c \in DOMAIN heap : c[1] = v => c[2] # g}
NewAllocation(v) == CHOOSE g \in NewAllocations(v) : TRUE

\* v gets a struct with new cells; what is not reachable any more is collected.
Assign(v, s, new) ==
  LET vs == [var EXCEPT ![v] = s]
      h == [c \in DOMAIN heap \cup DOMAIN new |-> IF c \in DOMAIN new THEN new[c] ELSE heap[c]]
  IN var' = vs /\ heap' = [c \in Live(vs, h) |-> h[c]]

--------------------------------------------------------------------------------
(* What a program does.                                                      *)

\* v's struct comes from a decoder: an answer of the API server, an event of a
\* watch.  Its fields are all there or all left out.
Decode(v, n, given) ==
  LET g == NewAllocation(v)
      At(i, kind) == [f \in Fields[kind] |-> IF given THEN <<v, g, <<i, f>>>> ELSE Nil]
      items == [i \in 1..n |-> Struct(ItemType[type], Sent, At(i, ItemType[type]))]
      places == IF ~given THEN {}
                ELSE {<<0, f>> : f \in Fields[type]} \cup
                     IF type \in DOMAIN ItemType
                     THEN {<<i, f>> : i \in 1..n, f \in Fields[ItemType[type]]} ELSE {}
  IN /\ NewAllocations(v) # {}
     /\ Assign(v, Struct(type, Sent, At(0, type)),
               [c \in {<<v, g, p>> : p \in places} |-> IF c[3][2] \in Items THEN items ELSE Sent])
     /\ UNCHANGED <<type, edits>>

\* What a new cell is filled with: the elements of the original, one by one.
Elements_unread(s, p) == Sent
Elements(s, p) == heap[CellAt(s, heap, p)]

\* w = v.DeepCopy(), and DeepCopyObject(): nil for nil.
Copy(v, w) ==
  LET s == var[v]
      g == NewAllocation(w)
      own == {p \in Places(s, heap) :
                p[2] \in IF p[1] = 0 THEN DeepCopyInto[s.type].own ELSE DeepCopyInto[s.type].item}
      To(i, x) == [x EXCEPT !.cell =
                     [f \in DOMAIN x.cell |->
                        IF <<i, f>> \in own THEN <<w, g, <<i, f>>>> ELSE x.cell[f]]]
      content(p) == IF p[2] \in Items
                    THEN [i \in DOMAIN ItemsOf(s, heap) |-> To(i, ItemsOf(s, heap)[i])]
                    ELSE Elements(s, p)
  IN /\ v # w /\ NewAllocations(w) # {}
     /\ IF s = Nil THEN Assign(w, Nil, <<>>)
        ELSE Assign(w, To(0, s), [c \in {<<w, g, p>> : p \in own} |-> content(c[3])])
     /\ UNCHANGED <<type, edits>>

\* An edit in place: of an element of a map or a slice, through a pointer, of a
\* scalar field, of a scalar field of an item.
EditCell(v, p, d) ==
  /\ edits < MaxEdits /\ edits' = edits + 1
  /\ p \in Places(var[v], heap) /\ p[2] \notin Items
  /\ heap' = [heap EXCEPT ![CellAt(var[v], heap, p)] = d]
  /\ UNCHANGED <<type, var>>

EditScalar(v, d) ==
  /\ edits < MaxEdits /\ edits' = edits + 1
  /\ var[v] # Nil
  /\ var' = [var EXCEPT ![v].scalar = d]
  /\ UNCHANGED <<type, heap>>

EditItem(v, i, d) ==
  /\ edits < MaxEdits /\ edits' = edits + 1
  /\ var[v] # Nil /\ i \in DOMAIN ItemsOf(var[v], heap)
  /\ heap' = [heap EXCEPT ![var[v].cell["items"]][i].scalar = d]
  /\ UNCHANGED <<type, var>>

Edit(v) == \E d \in Changed :
  \/ EditScalar(v, d)
  \/ \E i \in 1..MaxItems : EditItem(v, i, d)
  \/ \E p \in Places(var[v], heap) : EditCell(v, p, d)

Init == /\ type \in DOMAIN Fields
        /\ var = [v \in Variables |-> Nil]
        /\ heap = <<>>
        /\ edits = 0

Next == \E v \in Variables :
  \/ \E n \in IF type \in DOMAIN ItemType THEN {0, MaxItems} ELSE {0}, given \in BOOLEAN :
       Decode(v, n, given)
  \/ \E w \in Variables : Copy(v, w)
  \/ Edit(v)

Spec == Init /\ [][Next]_vars

--------------------------------------------------------------------------------

SpecFields == ComponentSpec \cup TemplateValidatorSpec

\* Whatever was copied from what, two structs share no memory but that of the spec's
\* fields: metadata, conditions, containers and a list's items are never shared.
SharesOnlySpec ==
  \A v, w \in Variables : v # w =>
    \A p \in Places(var[v], heap), q \in Places(var[w], heap) :
      CellAt(var[v], heap, p) = CellAt(var[w], heap, q) => p[2] \in SpecFields

\* A copy says what the original said: an absent map or slice stays absent, an item
\* stays in its place.
CopiesEqual ==
  [][\A v, w \in Variables :
       Copy(v, w) => Value(var[w], heap)' = Value(var[v], heap)]_vars

================================================================================
