------------------------ MODULE FlowDefinition_proofs ------------------------
(***************************************************************************)
(* Proofs about FlowDefinition for any definitions a client may send, any   *)
(* events and any edits.                                                    *)
(***************************************************************************)
EXTENDS FlowDefinition, FiniteSetTheorems, FunctionTheorems, WellFoundedInduction,
        NaturalsInduction, TLAPS

----------------------------------------------------------------------------
(* The places kept of a list: as many as there are, and in their order.     *)

Rank(S, i) == Cardinality(S \cap 1..i)

\* Every place kept has a number of its own, and every number a place.
LEMMA Ranks ==
  ASSUME NEW m \in Nat, NEW S, S \subseteq 1..m
  PROVE  /\ IsFiniteSet(S) /\ Cardinality(S) \in Nat
         /\ \A i, j \in S : i < j => Rank(S, i) < Rank(S, j)
         /\ \A i \in S : i \in Nat /\ Rank(S, i) \in Nat /\ Rank(S, i) \in 1..Cardinality(S)
         /\ \A n \in 1..Cardinality(S) : \E i \in S : Rank(S, i) = n
<1>1. IsFiniteSet(S) /\ Cardinality(S) \in Nat
  <2>1. IsFiniteSet(1..m)
    BY FS_Interval
  <2> QED BY <2>1, FS_Subset, FS_CardinalityType
<1>2. ASSUME NEW i \in S
      PROVE  /\ IsFiniteSet(S \cap 1..i) /\ Rank(S, i) \in 1..Cardinality(S)
             /\ Rank(S, i) \in Nat
  <2>1. S \cap 1..i \subseteq S /\ S \cap 1..i # {}
    <3>1. i \in S \cap 1..i
      OBVIOUS
    <3> QED BY <3>1
  <2>2. IsFiniteSet(S \cap 1..i) /\ Cardinality(S \cap 1..i) <= Cardinality(S)
    BY <1>1, <2>1, FS_Subset
  <2>3. Cardinality(S \cap 1..i) \in Nat /\ Cardinality(S \cap 1..i) # 0
    BY <2>1, <2>2, FS_CardinalityType, FS_EmptySet
  <2> QED BY <1>1, <2>2, <2>3 DEF Rank
<1>3. ASSUME NEW i \in S, NEW j \in S, i < j
      PROVE  Rank(S, i) < Rank(S, j)
  <2>1. S \cap 1..i \subseteq S \cap 1..j /\ j \in S \cap 1..j /\ j \notin S \cap 1..i
    BY <1>3
  <2>2. IsFiniteSet(S \cap 1..j)
    BY <1>2
  <2>3. S \cap 1..i \in SUBSET (S \cap 1..j) /\ S \cap 1..j # S \cap 1..i
    BY <2>1
  <2>4. /\ Cardinality(S \cap 1..i) <= Cardinality(S \cap 1..j)
        /\ Cardinality(S \cap 1..j) # Cardinality(S \cap 1..i)
    BY <2>2, <2>3, FS_Subset
  <2> QED BY <1>2, <2>4 DEF Rank
<1> DEFINE number == [i \in S |-> Rank(S, i)]
<1>4. number \in Injection(S, 1..Cardinality(S))
  <2>1. number \in [S -> 1..Cardinality(S)]
    BY <1>2
  <2>2. ASSUME NEW i \in S, NEW j \in S, Rank(S, i) = Rank(S, j)
        PROVE  i = j
    <3>1. Rank(S, i) \in Nat /\ Rank(S, j) \in Nat
      BY <1>2
    <3>2. CASE i < j
      <4>1. Rank(S, i) < Rank(S, j)
        BY <1>3, <3>2
      <4> QED BY <2>2, <3>1, <4>1
    <3>3. CASE j < i
      <4>1. Rank(S, j) < Rank(S, i)
        BY <1>3, <3>3
      <4> QED BY <2>2, <3>1, <4>1
    <3>4. i \in Nat /\ j \in Nat
      OBVIOUS
    <3> QED BY <3>2, <3>3, <3>4
  <2>3. \A i, j \in S : number[i] = number[j] => i = j
    BY <2>2
  <2> QED BY <2>1, <2>3, Fun_IsInj
<1>5. IsFiniteSet(1..Cardinality(S)) /\ Cardinality(1..Cardinality(S)) = Cardinality(S)
  <2>1. Cardinality(1..Cardinality(S)) = IF 1 > Cardinality(S) THEN 0 ELSE Cardinality(S) - 1 + 1
    BY <1>1, FS_Interval
  <2> QED BY <1>1, <2>1, FS_Interval
<1> HIDE DEF number
<1>6. number \in Surjection(S, 1..Cardinality(S))
  BY <1>4, <1>5, FS_Injection
<1>7. \A n \in 1..Cardinality(S) : \E i \in S : number[i] = n
  BY <1>6, Fun_SurjectionProperties
<1>8. \A n \in 1..Cardinality(S) : \E i \in S : Rank(S, i) = n
  BY <1>7 DEF number
<1>9. \A i \in S : i \in Nat
  OBVIOUS
<1> QED BY <1>1, <1>2, <1>3, <1>8, <1>9

LEMMA Earlier ==
  ASSUME NEW m \in Nat, NEW S, S \subseteq 1..m, NEW i \in S, NEW j \in S, Rank(S, i) < Rank(S, j)
  PROVE  i < j
<1>1. i \in Nat /\ j \in Nat /\ Rank(S, i) \in Nat /\ Rank(S, j) \in Nat
  BY Ranks
<1>2. CASE j < i
  <2>1. Rank(S, j) < Rank(S, i)
    BY <1>2, Ranks
  <2> QED BY <1>1, <2>1
<1>3. CASE i = j
  BY <1>1, <1>3
<1> QED BY <1>1, <1>2, <1>3

LEMMA Same ==
  ASSUME NEW m \in Nat, NEW S, S \subseteq 1..m, NEW i \in S, NEW j \in S, Rank(S, i) = Rank(S, j)
  PROVE  i = j
<1>1. i \in Nat /\ j \in Nat /\ Rank(S, i) \in Nat /\ Rank(S, j) \in Nat
  BY Ranks
<1>2. CASE i < j
  <2>1. Rank(S, i) < Rank(S, j)
    BY <1>2, Ranks
  <2> QED BY <1>1, <2>1
<1>3. CASE j < i
  <2>1. Rank(S, j) < Rank(S, i)
    BY <1>3, Ranks
  <2> QED BY <1>1, <2>1
<1> QED BY <1>1, <1>2, <1>3

\* At(S, n) is the n-th of the places.
LEMMA Places ==
  ASSUME NEW m \in Nat, NEW S, S \subseteq 1..m
  PROVE  /\ Cardinality(S) \in Nat
         /\ \A n \in 1..Cardinality(S) : At(S, n) \in S
         /\ \A i \in S : \E n \in 1..Cardinality(S) : At(S, n) = i
         /\ \A k, n \in 1..Cardinality(S) : k < n => At(S, k) < At(S, n)
<1>1. \A n \in 1..Cardinality(S) : At(S, n) \in S /\ Rank(S, At(S, n)) = n
  <2> TAKE n \in 1..Cardinality(S)
  <2>1. \E i \in S : Rank(S, i) = n
    BY Ranks
  <2> QED BY <2>1 DEF At, Rank
<1>2. ASSUME NEW i \in S PROVE \E n \in 1..Cardinality(S) : At(S, n) = i
  <2>1. Rank(S, i) \in 1..Cardinality(S)
    BY Ranks
  <2>2. At(S, Rank(S, i)) \in S /\ Rank(S, At(S, Rank(S, i))) = Rank(S, i)
    BY <1>1, <2>1
  <2>3. ASSUME NEW j \in S, Rank(S, j) = Rank(S, i) PROVE j = i
    BY <2>3, Same
  <2>4. At(S, Rank(S, i)) = i
    BY <2>2, <2>3
  <2> QED BY <2>1, <2>4
<1>3. ASSUME NEW k \in 1..Cardinality(S), NEW n \in 1..Cardinality(S), k < n
      PROVE  At(S, k) < At(S, n)
  <2>1. /\ At(S, k) \in S /\ Rank(S, At(S, k)) = k
        /\ At(S, n) \in S /\ Rank(S, At(S, n)) = n
    BY <1>1
  <2> QED BY <1>3, <2>1, Earlier
<1> QED BY <1>1, <1>2, <1>3, Ranks

\* A list, whatever its elements.
IsList(s) == s \in Seq({s[i] : i \in DOMAIN s})

\* filter keeps the elements at the places kept, and nothing else.
LEMMA Filtered ==
  ASSUME NEW seq, IsList(seq), NEW S, S \subseteq DOMAIN seq
  PROVE  /\ IsList(Kept(seq, S)) /\ DOMAIN Kept(seq, S) = 1..Cardinality(S)
         /\ \A n \in DOMAIN Kept(seq, S) : At(S, n) \in S /\ Kept(seq, S)[n] = seq[At(S, n)]
         /\ \A i \in S : \E n \in DOMAIN Kept(seq, S) : Kept(seq, S)[n] = seq[i]
<1>1. Len(seq) \in Nat /\ S \subseteq 1..Len(seq)
  BY DEF IsList
<1>2. /\ Cardinality(S) \in Nat
      /\ \A n \in 1..Cardinality(S) : At(S, n) \in S
      /\ \A i \in S : \E n \in 1..Cardinality(S) : At(S, n) = i
  BY <1>1, Places
<1>3. DOMAIN Kept(seq, S) = 1..Cardinality(S)
  BY DEF Kept
<1>4. \A n \in 1..Cardinality(S) : Kept(seq, S)[n] = seq[At(S, n)]
  BY DEF Kept
<1>5. IsList(Kept(seq, S))
  <2> DEFINE k == Kept(seq, S)  E == {k[i] : i \in DOMAIN k}
  <2>1. k = [n \in 1..Cardinality(S) |-> seq[At(S, n)]]
    BY DEF Kept
  <2>2. \A n \in 1..Cardinality(S) : seq[At(S, n)] \in E
    BY <1>3, <1>4
  <2> HIDE DEF E
  <2>3. k \in Seq(E)
    BY <1>2, <2>1, <2>2
  <2> QED BY <2>3 DEF E, IsList
<1> QED BY <1>2, <1>3, <1>4, <1>5

----------------------------------------------------------------------------
(* What is stored and what is shown                                         *)

\* A stored definition: lists of nodes and edges, without errors.
FlowOK(f) ==
  /\ IsList(f.nodes) /\ IsList(f.edges)
  /\ \A k \in DOMAIN f.edges : IsEdge(f.edges[k])
  /\ validate_flow(f)

IdsOf(nodes) == {nodes[i].id : i \in DOMAIN nodes}

ShownEdge(e, ids) ==
  /\ e = [source |-> e.source, target |-> e.target, condition |-> e.condition]
  /\ e.source \in ids /\ e.target \in ids
  /\ Get(e.condition, "type", "default") \in CONDITION_TYPES

\* The canvas: every edge joins two nodes and the entry, if any, is a node,
\* also while there is none to be the entry.
EditorOK(ed) ==
  /\ ed = [nodes |-> ed.nodes, edges |-> ed.edges, entry |-> ed.entry]
  /\ IsList(ed.nodes) /\ IsList(ed.edges)
  /\ \A i \in DOMAIN ed.nodes : ed.nodes[i].type \in NODE_TYPES
  /\ \A k \in DOMAIN ed.edges : ShownEdge(ed.edges[k], IdsOf(ed.nodes))
  /\ ed.entry # "" => ed.entry \in IdsOf(ed.nodes)

IInv == FlowOK(flow) /\ EditorOK(editor)

LEMMA ListsAreLists ==
  ASSUME NEW s
  PROVE  IsList(s) => Len(s) \in Nat /\ DOMAIN s = 1..Len(s) /\ s = [i \in 1..Len(s) |-> s[i]]
BY DEF IsList

LEMMA MadeList ==
  ASSUME NEW n \in Nat, NEW s, s = [i \in 1..n |-> s[i]]
  PROVE  IsList(s)
<1> DEFINE E == {s[i] : i \in DOMAIN s}
<1>1. \A i \in 1..n : s[i] \in E
  OBVIOUS
<1> HIDE DEF E
<1>2. [i \in 1..n |-> s[i]] \in Seq(E)
  BY <1>1
<1> QED BY <1>2 DEF E, IsList

LEMMA Appended ==
  ASSUME NEW s, IsList(s), NEW x
  PROVE  /\ Len(s) \in Nat /\ DOMAIN s = 1..Len(s)
         /\ IsList(Append(s, x)) /\ DOMAIN Append(s, x) = 1..(Len(s) + 1)
         /\ Append(s, x)[Len(s) + 1] = x
         /\ \A i \in 1..Len(s) : Append(s, x)[i] = s[i]
<1> DEFINE E == {s[i] : i \in DOMAIN s} \cup {x}
<1>1. Len(s) \in Nat /\ DOMAIN s = 1..Len(s) /\ s = [i \in 1..Len(s) |-> s[i]]
  BY ListsAreLists
<1>2. x \in E /\ \A i \in 1..Len(s) : s[i] \in E
  BY <1>1
<1> HIDE DEF E
<1>3. [i \in 1..Len(s) |-> s[i]] \in Seq(E)
  BY <1>1, <1>2
<1>4. s \in Seq(E)
  BY <1>1, <1>3
<1>5. /\ Append(s, x) \in Seq(E) /\ Len(Append(s, x)) = Len(s) + 1
      /\ Append(s, x)[Len(s) + 1] = x
      /\ \A i \in 1..Len(s) : Append(s, x)[i] = s[i]
  BY <1>2, <1>4
<1> DEFINE t == Append(s, x)
<1>6. t \in Seq(E) /\ Len(t) = Len(s) + 1
  BY <1>5
<1> HIDE DEF t
<1>7. /\ t = [i \in 1..(Len(s) + 1) |-> t[i]] /\ DOMAIN t = 1..(Len(s) + 1)
      /\ Len(s) + 1 \in Nat /\ IsList(t)
  <2>1. t = [i \in 1..Len(t) |-> t[i]] /\ DOMAIN t = 1..Len(t) /\ Len(t) \in Nat
    BY <1>6
  <2> QED BY <1>6, <2>1, MadeList
<1> QED BY <1>1, <1>5, <1>7 DEF t

\* A canvas with a node on it can be saved.
LEMMA ShownIsValid ==
  ASSUME NEW ed, EditorOK(ed), ed.nodes # <<>>
  PROVE  FlowOK(fromReactFlow(ed))
<1> DEFINE f == fromReactFlow(ed)
<1>1. f.nodes = ed.nodes /\ f.edges = ed.edges /\ f.entry_node_id = ed.entry
  BY DEF fromReactFlow
<1>2. NodeIds(f) = IdsOf(ed.nodes)
  BY <1>1 DEF NodeIds, IdsOf
<1> HIDE DEF f
<1>3. ASSUME NEW k \in DOMAIN ed.edges
      PROVE  /\ IsEdge(f.edges[k])
             /\ {f.edges[k].source, f.edges[k].target} \subseteq NodeIds(f)
             /\ Get(Condition(f, k), "type", "default") \in CONDITION_TYPES
  <2>1. ShownEdge(ed.edges[k], IdsOf(ed.nodes))
    BY DEF EditorOK
  <2>2. "condition" \in DOMAIN ed.edges[k]
    BY <2>1 DEF ShownEdge
  <2>3. Condition(f, k) = ed.edges[k].condition
    BY <1>1, <2>2 DEF Condition, Get
  <2> QED BY <1>1, <1>2, <2>1, <2>3 DEF ShownEdge, IsEdge
<1>4. validate_flow(f)
  BY <1>1, <1>2, <1>3 DEF validate_flow, EditorOK
<1>5. FlowOK(f)
  BY <1>1, <1>3, <1>4 DEF FlowOK, EditorOK
<1> QED BY <1>5 DEF f

\* The entry of a list of nodes: one of them, or none.
LEMMA FirstOfNodes ==
  ASSUME NEW nodes, IsList(nodes)
  PROVE  /\ nodes # <<>> => FirstId(nodes) \in IdsOf(nodes) /\ FirstId(nodes) = nodes[1].id
                            /\ 1 \in DOMAIN nodes
         /\ nodes = <<>> => FirstId(nodes) = ""
<1>1. CASE nodes # <<>>
  <2>1. 1 \in DOMAIN nodes /\ Head(nodes) = nodes[1]
    BY <1>1 DEF IsList
  <2> QED BY <1>1, <2>1 DEF FirstId, IdsOf
<1>2. CASE nodes = <<>>
  BY <1>2 DEF FirstId
<1> QED BY <1>1, <1>2

\* What is shown of a stored definition.
LEMMA OpenedFlow ==
  ASSUME NEW f, FlowOK(f)
  PROVE  /\ EditorOK(Opened(f)) /\ Opened(f).nodes = f.nodes
         /\ Opened(f).entry = IF f.entry_node_id = "" THEN FirstId(f.nodes) ELSE f.entry_node_id
         /\ DOMAIN Opened(f).edges = DOMAIN f.edges
         /\ \A k \in DOMAIN f.edges :
              Opened(f).edges[k] = [source |-> f.edges[k].source, target |-> f.edges[k].target,
                                    condition |-> Get(f.edges[k], "condition", Default)]
<1> DEFINE ed == Opened(f)
           edges == [k \in DOMAIN f.edges |->
                       [source |-> f.edges[k].source, target |-> f.edges[k].target,
                        condition |-> Get(f.edges[k], "condition", Default)]]
           entry == IF f.entry_node_id = "" THEN FirstId(f.nodes) ELSE f.entry_node_id
<1>1. ed = [nodes |-> f.nodes, edges |-> edges, entry |-> entry]
  <2>1. toReactFlow(f) = [nodes |-> f.nodes, edges |-> edges, entry |-> f.entry_node_id]
    BY DEF toReactFlow
  <2> HIDE DEF edges
  <2>2. toReactFlow(f).entry = f.entry_node_id /\ toReactFlow(f).nodes = f.nodes
    BY <2>1
  <2>3. ed = [toReactFlow(f) EXCEPT !.entry = entry]
    BY <2>2 DEF Opened
  <2> HIDE DEF entry, ed
  <2> QED BY <2>1, <2>3
<1> HIDE DEF ed
<1>2. ed.nodes = f.nodes /\ ed.edges = edges /\ ed.entry = entry
  BY <1>1
<1>3. IsList(f.nodes) /\ IsList(f.edges) /\ f.nodes # <<>>
  BY DEF FlowOK, validate_flow
<1>4. DOMAIN edges = DOMAIN f.edges /\ IsList(edges)
  <2>1. Len(f.edges) \in Nat /\ DOMAIN f.edges = 1..Len(f.edges)
    BY <1>3, ListsAreLists
  <2>2. edges = [k \in 1..Len(f.edges) |-> edges[k]]
    BY <2>1
  <2> HIDE DEF edges
  <2>3. IsList(edges)
    BY <2>1, <2>2, MadeList
  <2> QED BY <2>1, <2>2, <2>3
<1>5. NodeIds(f) = IdsOf(f.nodes)
  BY DEF NodeIds, IdsOf
<1>6. ASSUME NEW k \in DOMAIN f.edges PROVE ShownEdge(edges[k], IdsOf(f.nodes))
  <2> DEFINE c == Get(f.edges[k], "condition", Default)
  <2>1. edges[k] = [source |-> f.edges[k].source, target |-> f.edges[k].target, condition |-> c]
    OBVIOUS
  <2>2. Get(c, "type", "default") \in CONDITION_TYPES
    <3>1. CASE "condition" \in DOMAIN f.edges[k]
      <4>1. c = Condition(f, k)
        BY <3>1 DEF Condition, Get
      <4> QED BY <4>1 DEF FlowOK, validate_flow
    <3>2. CASE "condition" \notin DOMAIN f.edges[k]
      <4>1. c = Default
        BY <3>2 DEF Get
      <4>2. Get(Default, "type", "default") = "default"
        BY DEF Default, Get
      <4> QED BY <4>1, <4>2 DEF CONDITION_TYPES
    <3> QED BY <3>1, <3>2
  <2> HIDE DEF c, edges
  <2>3. f.edges[k].source \in IdsOf(f.nodes) /\ f.edges[k].target \in IdsOf(f.nodes)
    BY <1>5 DEF FlowOK, validate_flow
  <2> QED BY <2>1, <2>2, <2>3 DEF ShownEdge
<1>7. entry # "" => entry \in IdsOf(f.nodes)
  BY <1>3, <1>5, FirstOfNodes DEF FlowOK, validate_flow
<1>8. EditorOK(ed)
  <2>1. \A i \in DOMAIN f.nodes : f.nodes[i].type \in NODE_TYPES
    BY DEF FlowOK, validate_flow
  <2> HIDE DEF edges, entry
  <2> QED BY <1>1, <1>2, <1>3, <1>4, <1>6, <1>7, <2>1 DEF EditorOK
<1>9. \A k \in DOMAIN f.edges :
        ed.edges[k] = [source |-> f.edges[k].source, target |-> f.edges[k].target,
                       condition |-> Get(f.edges[k], "condition", Default)]
  BY <1>2
<1> QED BY <1>2, <1>4, <1>8, <1>9 DEF ed

----------------------------------------------------------------------------
(* The operations of the editor                                             *)

LEMMA AddNodeOK ==
  ASSUME EditorOK(editor), NEW id, NEW type \in NODE_TYPES, addNode(id, type)
  PROVE  EditorOK(editor')
<1> DEFINE n == [id |-> id, type |-> type, config |-> EmptyDict]
           nodes == Append(editor.nodes, n)
           entry == IF editor.nodes = <<>> THEN id ELSE editor.entry
<1>1. editor' = [nodes |-> nodes, edges |-> editor.edges, entry |-> entry]
  BY DEF EditorOK, addNode
<1>2. n.id = id /\ n.type = type
  OBVIOUS
<1> HIDE DEF n
<1>3. /\ Len(editor.nodes) \in Nat /\ DOMAIN editor.nodes = 1..Len(editor.nodes)
      /\ IsList(nodes) /\ DOMAIN nodes = 1..(Len(editor.nodes) + 1)
      /\ nodes[Len(editor.nodes) + 1] = n
      /\ \A i \in 1..Len(editor.nodes) : nodes[i] = editor.nodes[i]
  <2>1. IsList(editor.nodes)
    BY DEF EditorOK
  <2> QED BY <2>1, Appended
<1> HIDE DEF nodes
<1>4. Len(editor.nodes) + 1 \in DOMAIN nodes /\ \A i \in DOMAIN editor.nodes : i \in DOMAIN nodes
  BY <1>3
<1>5. IdsOf(editor.nodes) \subseteq IdsOf(nodes) /\ id \in IdsOf(nodes)
  BY <1>2, <1>3, <1>4 DEF IdsOf
<1>6. ASSUME NEW i \in DOMAIN nodes PROVE nodes[i].type \in NODE_TYPES
  <2>1. CASE i \in 1..Len(editor.nodes)
    BY <1>3, <2>1 DEF EditorOK
  <2>2. CASE i = Len(editor.nodes) + 1
    BY <1>2, <1>3, <2>2
  <2> QED BY <1>3, <2>1, <2>2
<1>7. \A k \in DOMAIN editor.edges : ShownEdge(editor.edges[k], IdsOf(nodes))
  BY <1>5 DEF EditorOK, ShownEdge
<1>8. entry # "" => entry \in IdsOf(nodes)
  BY <1>5 DEF EditorOK
<1> HIDE DEF entry
<1>9. /\ editor'.nodes = nodes /\ editor'.edges = editor.edges /\ editor'.entry = entry
      /\ IsList(editor.edges)
  BY <1>1 DEF EditorOK
<1> QED BY <1>1, <1>3, <1>6, <1>7, <1>8, <1>9 DEF EditorOK

\* The edges are replaced, the nodes and the entry stay.
LEMMA EdgesReplaced ==
  ASSUME EditorOK(editor), NEW edges, IsList(edges),
         editor' = [editor EXCEPT !.edges = edges],
         \A k \in DOMAIN edges : ShownEdge(edges[k], IdsOf(editor.nodes))
  PROVE  EditorOK(editor')
<1>1. editor' = [nodes |-> editor.nodes, edges |-> edges, entry |-> editor.entry]
  BY DEF EditorOK
<1>2. editor'.nodes = editor.nodes /\ editor'.edges = edges /\ editor'.entry = editor.entry
  BY <1>1
<1> QED BY <1>1, <1>2 DEF EditorOK

LEMMA ConnectOK ==
  ASSUME EditorOK(editor), NEW source, NEW target, onConnect(source, target)
  PROVE  EditorOK(editor')
<1> DEFINE e == [source |-> source, target |-> target, condition |-> Default]
           edges == Append(editor.edges, e)
<1>1. editor' = [editor EXCEPT !.edges = edges]
  BY DEF onConnect
<1>2. ShownEdge(e, IdsOf(editor.nodes))
  <2>1. Get(Default, "type", "default") \in CONDITION_TYPES
    BY DEF Default, Get, CONDITION_TYPES
  <2> QED BY <2>1 DEF onConnect, Ids, IdsOf, ShownEdge
<1> HIDE DEF e
<1>3. /\ Len(editor.edges) \in Nat /\ DOMAIN editor.edges = 1..Len(editor.edges)
      /\ IsList(edges) /\ DOMAIN edges = 1..(Len(editor.edges) + 1)
      /\ edges[Len(editor.edges) + 1] = e
      /\ \A i \in 1..Len(editor.edges) : edges[i] = editor.edges[i]
  <2>1. IsList(editor.edges)
    BY DEF EditorOK
  <2> QED BY <2>1, Appended
<1> HIDE DEF edges
<1>4. ASSUME NEW k \in DOMAIN edges PROVE ShownEdge(edges[k], IdsOf(editor.nodes))
  <2>1. CASE k \in 1..Len(editor.edges)
    BY <1>3, <2>1 DEF EditorOK
  <2>2. CASE k = Len(editor.edges) + 1
    BY <1>2, <1>3, <2>2
  <2> QED BY <1>3, <2>1, <2>2
<1> QED BY <1>1, <1>3, <1>4, EdgesReplaced

LEMMA EdgeDeleteOK ==
  ASSUME EditorOK(editor), NEW k, onEdgeDelete(k)
  PROVE  EditorOK(editor')
<1> DEFINE left == DOMAIN editor.edges \ {k}
           edges == Kept(editor.edges, left)
<1>1. editor' = [editor EXCEPT !.edges = edges]
  BY DEF onEdgeDelete, Without
<1>2. IsList(editor.edges) /\ left \subseteq DOMAIN editor.edges
  BY DEF EditorOK
<1>3. IsList(edges)
  BY <1>2, Filtered
<1>4. \A n \in DOMAIN edges : At(left, n) \in left /\ edges[n] = editor.edges[At(left, n)]
  BY <1>2, Filtered
<1> HIDE DEF edges
<1>5. \A n \in DOMAIN edges : ShownEdge(edges[n], IdsOf(editor.nodes))
  BY <1>4 DEF EditorOK
<1> QED BY <1>1, <1>3, <1>5, EdgesReplaced

LEMMA EdgeChangeOK ==
  ASSUME EditorOK(editor), NEW k, NEW type \in CONDITION_TYPES, onEdgeChange(k, type)
  PROVE  EditorOK(editor')
<1> DEFINE old == editor.edges[k]
           c == Put(old.condition, "type", type)
           e == [source |-> old.source, target |-> old.target, condition |-> c]
           edges == [editor.edges EXCEPT ![k] = e]
<1>1. k \in DOMAIN editor.edges /\ ShownEdge(old, IdsOf(editor.nodes))
  BY DEF onEdgeChange, EditorOK
<1>2. editor' = [editor EXCEPT !.edges[k].condition = c]
  BY DEF onEdgeChange
<1>3. [old EXCEPT !.condition = c] = e
  BY <1>1 DEF ShownEdge
<1>4. editor' = [editor EXCEPT !.edges = edges]
  BY <1>2, <1>3
<1>5. Get(c, "type", "default") = type
  BY DEF Put, Get
<1> HIDE DEF c
<1>6. ShownEdge(e, IdsOf(editor.nodes))
  BY <1>1, <1>5 DEF ShownEdge
<1> HIDE DEF e
<1>7. /\ Len(editor.edges) \in Nat /\ DOMAIN editor.edges = 1..Len(editor.edges)
      /\ DOMAIN edges = 1..Len(editor.edges)
      /\ \A i \in 1..Len(editor.edges) : edges[i] = IF i = k THEN e ELSE editor.edges[i]
      /\ edges = [i \in 1..Len(editor.edges) |-> edges[i]]
  BY ListsAreLists DEF EditorOK
<1> HIDE DEF edges
<1>8. IsList(edges)
  BY <1>7, MadeList
<1>9. \A i \in DOMAIN edges : ShownEdge(edges[i], IdsOf(editor.nodes))
  BY <1>6, <1>7 DEF EditorOK
<1> QED BY <1>4, <1>8, <1>9, EdgesReplaced

\* No edge that is left is one of the node, so both its ends are left too.
LEMMA NodeDeleteOK ==
  ASSUME EditorOK(editor), NEW id, onNodeDelete(id)
  PROVE  EditorOK(editor')
<1> DEFINE nodesLeft == DOMAIN editor.nodes \ NodesWith(id)
           edgesLeft == DOMAIN editor.edges \ EdgesAt(id)
           nodes == Kept(editor.nodes, nodesLeft)
           edges == Kept(editor.edges, edgesLeft)
           entry == IF editor.entry = id THEN FirstId(nodes) ELSE editor.entry
<1>1. editor' = [nodes |-> nodes, edges |-> edges, entry |-> entry]
  BY DEF onNodeDelete, Without
<1>2. /\ IsList(editor.edges) /\ edgesLeft \subseteq DOMAIN editor.edges
      /\ IsList(editor.nodes) /\ nodesLeft \subseteq DOMAIN editor.nodes
  BY DEF EditorOK
<1>3. \A i \in nodesLeft : editor.nodes[i].id # id
  BY DEF NodesWith
<1>4. \A i \in DOMAIN editor.nodes : editor.nodes[i].id # id => i \in nodesLeft
  BY DEF NodesWith
<1>5. \A k \in edgesLeft : editor.edges[k].source # id /\ editor.edges[k].target # id
  BY DEF EdgesAt
<1> HIDE DEF nodesLeft, edgesLeft
<1>6. /\ IsList(nodes)
      /\ \A n \in DOMAIN nodes : At(nodesLeft, n) \in nodesLeft /\ nodes[n] = editor.nodes[At(nodesLeft, n)]
      /\ \A i \in nodesLeft : \E n \in DOMAIN nodes : nodes[n] = editor.nodes[i]
  BY <1>2, Filtered
<1>7. /\ IsList(edges)
      /\ \A n \in DOMAIN edges : At(edgesLeft, n) \in edgesLeft /\ edges[n] = editor.edges[At(edgesLeft, n)]
  BY <1>2, Filtered
<1> HIDE DEF nodes, edges
<1>8. \A i \in DOMAIN nodes : nodes[i].type \in NODE_TYPES
  BY <1>2, <1>6 DEF EditorOK
<1>9. ASSUME NEW x \in IdsOf(editor.nodes), x # id PROVE x \in IdsOf(nodes)
  <2>1. PICK i \in DOMAIN editor.nodes : editor.nodes[i].id = x
    BY DEF IdsOf
  <2>2. i \in nodesLeft
    BY <1>4, <1>9, <2>1
  <2>3. PICK n \in DOMAIN nodes : nodes[n] = editor.nodes[i]
    BY <1>6, <2>2
  <2> QED BY <2>1, <2>3 DEF IdsOf
<1>10. ASSUME NEW n \in DOMAIN edges PROVE ShownEdge(edges[n], IdsOf(nodes))
  <2> DEFINE k == At(edgesLeft, n)
  <2>1. k \in edgesLeft /\ edges[n] = editor.edges[k] /\ k \in DOMAIN editor.edges
    BY <1>2, <1>7
  <2> HIDE DEF k
  <2>2. ShownEdge(editor.edges[k], IdsOf(editor.nodes))
    BY <2>1 DEF EditorOK
  <2>3. editor.edges[k].source \in IdsOf(nodes) /\ editor.edges[k].target \in IdsOf(nodes)
    BY <1>5, <1>9, <2>1, <2>2 DEF ShownEdge
  <2> QED BY <2>1, <2>2, <2>3 DEF ShownEdge
<1>11. entry # "" => entry \in IdsOf(nodes)
  <2>1. CASE editor.entry = id
    BY <1>6, <2>1, FirstOfNodes
  <2>2. CASE editor.entry # id
    BY <1>9, <2>2 DEF EditorOK
  <2> QED BY <2>1, <2>2
<1> HIDE DEF entry
<1>12. editor'.nodes = nodes /\ editor'.edges = edges /\ editor'.entry = entry
  BY <1>1
<1> QED BY <1>1, <1>6, <1>7, <1>8, <1>10, <1>11, <1>12 DEF EditorOK

LEMMA SetEntryOK ==
  ASSUME EditorOK(editor), NEW id, onSetEntry(id)
  PROVE  EditorOK(editor')
<1>1. editor' = [nodes |-> editor.nodes, edges |-> editor.edges, entry |-> id]
  BY DEF EditorOK, onSetEntry
<1>2. editor'.nodes = editor.nodes /\ editor'.edges = editor.edges /\ editor'.entry = id
  BY <1>1
<1>3. id \in IdsOf(editor.nodes)
  BY DEF onSetEntry, Ids, IdsOf
<1> QED BY <1>1, <1>2, <1>3 DEF EditorOK

LEMMA EditOK ==
  ASSUME IInv, Edit(NewIds, NewTypes, NewConditions)
  PROVE  IInv'
<1>1. EditorOK(editor) /\ UNCHANGED flow
  BY DEF IInv, Edit
<1>2. ASSUME NEW id \in NewIds, NEW type \in NewTypes, addNode(id, type) PROVE EditorOK(editor')
  BY <1>1, <1>2, AddNodeOK, DefinitionAssumption
<1>3. ASSUME NEW source \in Ids, NEW target \in Ids, onConnect(source, target)
      PROVE  EditorOK(editor')
  BY <1>1, <1>3, ConnectOK
<1>4. ASSUME NEW id \in Ids, onNodeDelete(id) \/ onSetEntry(id) PROVE EditorOK(editor')
  BY <1>1, <1>4, NodeDeleteOK, SetEntryOK
<1>5. ASSUME NEW k \in DOMAIN editor.edges, onEdgeDelete(k) PROVE EditorOK(editor')
  BY <1>1, <1>5, EdgeDeleteOK
<1>6. ASSUME NEW k \in DOMAIN editor.edges, NEW type \in NewConditions, onEdgeChange(k, type)
      PROVE  EditorOK(editor')
  <2>1. type \in CONDITION_TYPES
    BY DefinitionAssumption
  <2> QED BY <1>1, <1>6, <2>1, EdgeChangeOK
<1>7. EditorOK(editor')
  BY <1>2, <1>3, <1>4, <1>5, <1>6 DEF Edit
<1> QED BY <1>1, <1>7 DEF IInv

----------------------------------------------------------------------------
(* Opening and saving                                                       *)

LEMMA SavedIsFaithful ==
  ASSUME FlowOK(flow)
  PROVE  SavingIsFaithful
<1> DEFINE ed == Opened(flow)
           saved == fromReactFlow(ed)
<1>1. /\ EditorOK(ed) /\ ed.nodes = flow.nodes
      /\ ed.entry = IF flow.entry_node_id = "" THEN FirstId(flow.nodes) ELSE flow.entry_node_id
      /\ DOMAIN ed.edges = DOMAIN flow.edges
      /\ \A k \in DOMAIN flow.edges :
           ed.edges[k] = [source |-> flow.edges[k].source, target |-> flow.edges[k].target,
                          condition |-> Get(flow.edges[k], "condition", Default)]
  BY OpenedFlow
<1>2. saved.nodes = ed.nodes /\ saved.edges = ed.edges /\ saved.entry_node_id = ed.entry
  BY DEF fromReactFlow
<1>3. flow.nodes # <<>> /\ IsList(flow.nodes)
  BY DEF FlowOK, validate_flow
<1>4. validate_flow(saved)
  BY <1>1, <1>3, ShownIsValid DEF FlowOK
<1> HIDE DEF saved, ed
<1>5. get_entry_node(saved) = get_entry_node(flow)
  <2>1. NodeIds(saved) = NodeIds(flow) /\ \A id : get_node(saved, id) = get_node(flow, id)
    BY <1>1, <1>2 DEF NodeIds, get_node
  <2>2. CASE flow.entry_node_id # ""
    <3>1. saved.entry_node_id = flow.entry_node_id
      BY <1>1, <1>2, <2>2
    <3> QED BY <2>1, <2>2, <3>1 DEF get_entry_node
  <2>3. CASE flow.entry_node_id = ""
    <3>1. 1 \in DOMAIN flow.nodes /\ saved.entry_node_id = flow.nodes[1].id
      BY <1>1, <1>2, <1>3, <2>3, FirstOfNodes
    <3>2. get_entry_node(flow) = flow.nodes[1]
      BY <1>3, <2>3 DEF get_entry_node
    <3>3. CASE saved.entry_node_id = ""
      BY <1>1, <1>2, <1>3, <3>2, <3>3 DEF get_entry_node
    <3>4. CASE saved.entry_node_id # ""
      <4> DEFINE places == {i \in DOMAIN flow.nodes : flow.nodes[i].id = flow.nodes[1].id}
      <4>1. 1 \in places /\ \A j \in places : j \in Nat /\ 1 <= j
        BY <1>3, <3>1, ListsAreLists
      <4>2. Least(places) = 1
        <5> HIDE DEF places
        <5>1. Least(places) \in places /\ Least(places) <= 1
          BY <4>1 DEF Least
        <5> QED BY <4>1, <5>1
      <4>3. get_node(flow, flow.nodes[1].id) = flow.nodes[1]
        BY <3>1, <4>2 DEF get_node, NodeIds
      <4> QED BY <2>1, <3>1, <3>2, <3>4, <4>3 DEF get_entry_node
    <3> QED BY <3>3, <3>4
  <2> QED BY <2>2, <2>3
<1>6. ASSUME NEW k \in DOMAIN flow.edges
      PROVE  /\ saved.edges[k].source = flow.edges[k].source
             /\ saved.edges[k].target = flow.edges[k].target
             /\ "condition" \in DOMAIN flow.edges[k] => saved.edges[k] = flow.edges[k]
  <2> DEFINE e == flow.edges[k]
  <2>1. saved.edges[k] = [source |-> e.source, target |-> e.target,
                          condition |-> Get(e, "condition", Default)]
    BY <1>1, <1>2
  <2>2. IsEdge(e)
    BY DEF FlowOK
  <2> HIDE DEF e
  <2>3. ASSUME "condition" \in DOMAIN e PROVE saved.edges[k] = e
    <3>1. DOMAIN [source |-> e.source, target |-> e.target] = {"source", "target"}
      OBVIOUS
    <3>2. e = [source |-> e.source, target |-> e.target, condition |-> e.condition]
      BY <2>2, <2>3, <3>1 DEF IsEdge
    <3>3. Get(e, "condition", Default) = e.condition
      BY <2>3 DEF Get
    <3> QED BY <2>1, <3>2, <3>3
  <2>4. saved.edges[k].source = e.source /\ saved.edges[k].target = e.target
    BY <2>1
  <2> QED BY <2>3, <2>4 DEF e
<1> QED BY <1>1, <1>2, <1>4, <1>5, <1>6 DEF SavingIsFaithful, saved, ed

LEMMA StoredInit == Init => IInv
<1> SUFFICES ASSUME Init PROVE IInv
  OBVIOUS
<1>1. /\ flow \in Flows /\ validate_flow(flow) /\ lists(flow)
      /\ \A k \in DOMAIN flow.edges : IsEdge(flow.edges[k])
  BY DefinitionAssumption DEF Init
<1>2. FlowOK(flow)
  BY <1>1 DEF FlowOK, lists, NodesOf, EdgesOf, IsList
<1> QED BY <1>2, OpenedFlow DEF Init, IInv

LEMMA SaveOK ==
  ASSUME IInv, save_flow
  PROVE  IInv'
<1>1. editor' = editor /\ EditorOK(editor)
  BY DEF save_flow, IInv
<1>2. CASE validate_flow(fromReactFlow(editor))
  <2>1. flow' = fromReactFlow(editor)
    BY <1>2 DEF save_flow
  <2>2. editor.nodes # <<>>
    BY <1>2 DEF validate_flow, fromReactFlow
  <2>3. FlowOK(flow')
    BY <1>1, <2>1, <2>2, ShownIsValid
  <2> QED BY <1>1, <2>3 DEF IInv
<1>3. CASE ~validate_flow(fromReactFlow(editor))
  BY <1>1, <1>3 DEF save_flow, IInv
<1> QED BY <1>2, <1>3

LEMMA StoredNext == IInv /\ [Next]_vars => IInv'
<1> SUFFICES ASSUME IInv, [Next]_vars PROVE IInv'
  OBVIOUS
<1>1. CASE Editing
  BY <1>1, EditOK, SaveOK DEF Editing
<1>2. CASE Walking \/ UNCHANGED vars
  BY <1>2 DEF Walking, vars, IInv
<1> QED BY <1>1, <1>2 DEF Next

\* Whatever is done in the editor to whatever stored flow, the flow can be
\* saved while a node is left (App.jsx, convert.js).
THEOREM EditorValid == Spec => []EditorStaysValid
<1>1. IInv => EditorStaysValid
  BY ShownIsValid DEF IInv, EditorStaysValid, FlowOK
<1> QED BY <1>1, StoredInit, StoredNext, PTL DEF Spec

\* Every definition that is stored, and every one that editing makes of it,
\* survives being opened and saved (convert.js).
THEOREM SavingFaithful == Spec => []SavingIsFaithful
<1>1. IInv => SavingIsFaithful
  BY SavedIsFaithful DEF IInv
<1> QED BY <1>1, StoredInit, StoredNext, PTL DEF Spec

----------------------------------------------------------------------------
(* The scan                                                                 *)

\* Every nonempty set of naturals has a smallest element, and Least is it.
LEMMA LeastIsFirst ==
  ASSUME NEW S \in SUBSET Nat, S # {}
  PROVE  Least(S) \in S /\ \A j \in S : Least(S) <= j
<1> DEFINE Smaller == OpToRel(<, Nat)
<1>1. IsWellFoundedOn(Smaller, Nat)
  BY NatLessThanWellFounded
<1>2. PICK k \in S : \A j \in S : ~(<<j, k>> \in Smaller)
  BY <1>1, WFMin
<1>3. \A j \in S : ~(j < k)
  BY <1>2 DEF OpToRel
<1>4. k \in S /\ \A j \in S : k <= j
  BY <1>3
<1> QED BY <1>4 DEF Least

LEMMA Leasts ==
  ASSUME NEW S \in SUBSET Nat, NEW x \in S, \A j \in S : x <= j
  PROVE  x = Least(S)
<1>1. Least(S) \in S /\ Least(S) <= x
  BY LeastIsFirst
<1>2. x <= Least(S) /\ x \in Nat /\ Least(S) \in Nat
  BY <1>1
<1> QED BY <1>1, <1>2

\* The order of the two lists together: one group in order behind the other.
InGroups(order, a, b, A, B) ==
  /\ DOMAIN order = 1..(a + b)
  /\ \A i \in 1..a : order[i] \in A
  /\ \A i \in (a + 1)..(a + b) : order[i] \in B
  /\ \A x \in A : \E i \in 1..a : order[i] = x
  /\ \A x \in B : \E i \in (a + 1)..(a + b) : order[i] = x
  /\ \A i, j \in 1..a : i < j => order[i] < order[j]
  /\ \A i, j \in (a + 1)..(a + b) : i < j => order[i] < order[j]

LEMMA Groups ==
  ASSUME NEW def, IsList(def.edges), NEW A \in SUBSET DOMAIN def.edges, NEW B \in SUBSET DOMAIN def.edges
  PROVE  /\ Cardinality(A) \in Nat /\ Cardinality(B) \in Nat
         /\ InGroups(Listed(def, A) \o Listed(def, B), Cardinality(A), Cardinality(B), A, B)
<1>1. Len(def.edges) \in Nat /\ DOMAIN def.edges = 1..Len(def.edges)
  BY ListsAreLists
<1>2. ASSUME NEW S \in SUBSET DOMAIN def.edges
      PROVE  /\ Cardinality(S) \in Nat /\ Listed(def, S) \in Seq(S) /\ Len(Listed(def, S)) = Cardinality(S)
             /\ \A n \in 1..Cardinality(S) : Listed(def, S)[n] = At(S, n)
             /\ \A n \in 1..Cardinality(S) : At(S, n) \in S
             /\ \A i \in S : \E n \in 1..Cardinality(S) : At(S, n) = i
             /\ \A k, n \in 1..Cardinality(S) : k < n => At(S, k) < At(S, n)
  <2>1. /\ Cardinality(S) \in Nat
        /\ \A n \in 1..Cardinality(S) : At(S, n) \in S
        /\ \A i \in S : \E n \in 1..Cardinality(S) : At(S, n) = i
        /\ \A k, n \in 1..Cardinality(S) : k < n => At(S, k) < At(S, n)
    BY <1>1, Places
  <2>2. Listed(def, S) = [n \in 1..Cardinality(S) |-> At(S, n)]
    <3>1. \A n \in 1..Cardinality(S) : [k \in DOMAIN def.edges |-> k][At(S, n)] = At(S, n)
      BY <2>1
    <3> QED BY <3>1 DEF Listed, Kept
  <2>3. Listed(def, S) \in Seq(S) /\ Len(Listed(def, S)) = Cardinality(S)
    BY <2>1, <2>2
  <2> QED BY <2>1, <2>2, <2>3
<1> DEFINE a == Cardinality(A)  b == Cardinality(B)  p == Listed(def, A)  q == Listed(def, B)  order == p \o q
<1>3. /\ a \in Nat /\ p \in Seq(A) /\ Len(p) = a
      /\ \A n \in 1..a : p[n] \in A
      /\ \A x \in A : \E n \in 1..a : p[n] = x
      /\ \A k, n \in 1..a : k < n => p[k] < p[n]
  <2>1. /\ a \in Nat /\ p \in Seq(A) /\ Len(p) = a
        /\ \A n \in 1..a : p[n] = At(A, n)
        /\ \A n \in 1..a : At(A, n) \in A
        /\ \A i \in A : \E n \in 1..a : At(A, n) = i
        /\ \A k, n \in 1..a : k < n => At(A, k) < At(A, n)
    BY <1>2
  <2> HIDE DEF p, a
  <2> QED BY <2>1
<1>4. /\ b \in Nat /\ q \in Seq(B) /\ Len(q) = b
      /\ \A n \in 1..b : q[n] \in B
      /\ \A x \in B : \E n \in 1..b : q[n] = x
      /\ \A k, n \in 1..b : k < n => q[k] < q[n]
  <2>1. /\ b \in Nat /\ q \in Seq(B) /\ Len(q) = b
        /\ \A n \in 1..b : q[n] = At(B, n)
        /\ \A n \in 1..b : At(B, n) \in B
        /\ \A i \in B : \E n \in 1..b : At(B, n) = i
        /\ \A k, n \in 1..b : k < n => At(B, k) < At(B, n)
    BY <1>2
  <2> HIDE DEF q, b
  <2> QED BY <2>1
<1> HIDE DEF p, q, a, b
<1>5. /\ DOMAIN order = 1..(a + b)
      /\ \A i \in 1..a : order[i] = p[i]
      /\ \A i \in (a + 1)..(a + b) : order[i] = q[i - a] /\ i - a \in 1..b
      /\ \A n \in 1..b : order[n + a] = q[n] /\ n + a \in (a + 1)..(a + b)
  <2>1. p \in Seq(A \cup B) /\ q \in Seq(A \cup B)
    BY <1>3, <1>4
  <2>2. \A n \in 1..b : n + a \in (a + 1)..(a + b)
    BY <1>3, <1>4
  <2>3. \A i \in (a + 1)..(a + b) : i - a \in 1..b
    BY <1>3, <1>4
  <2>4. /\ Len(order) = a + b /\ DOMAIN order = 1..(a + b)
        /\ \A i \in 1..(a + b) : order[i] = IF i <= a THEN p[i] ELSE q[i - a]
    BY <1>3, <1>4, <2>1
  <2>5. \A i \in 1..a : i \in 1..(a + b) /\ i <= a
    BY <1>3, <1>4
  <2>6. \A i \in (a + 1)..(a + b) : i \in 1..(a + b) /\ ~(i <= a)
    BY <1>3, <1>4
  <2>7. \A n \in 1..b : (n + a) - a = n
    BY <1>3, <1>4
  <2> HIDE DEF order
  <2>8. \A i \in 1..a : order[i] = p[i]
    BY <2>4, <2>5
  <2>9. \A i \in (a + 1)..(a + b) : order[i] = q[i - a]
    BY <2>4, <2>6
  <2>10. \A n \in 1..b : order[n + a] = q[n]
    BY <2>2, <2>7, <2>9
  <2> QED BY <2>2, <2>3, <2>4, <2>8, <2>9, <2>10
<1> HIDE DEF order
<1>6. \A i \in 1..a : order[i] \in A
  BY <1>3, <1>5
<1>7. \A i \in (a + 1)..(a + b) : order[i] \in B
  BY <1>4, <1>5
<1>8. \A x \in A : \E i \in 1..a : order[i] = x
  BY <1>3, <1>5
<1>9. \A x \in B : \E i \in (a + 1)..(a + b) : order[i] = x
  <2> TAKE x \in B
  <2>1. PICK n \in 1..b : q[n] = x
    BY <1>4
  <2>2. order[n + a] = x /\ n + a \in (a + 1)..(a + b)
    BY <1>5, <2>1
  <2> QED BY <2>2
<1>10. \A i, j \in 1..a : i < j => order[i] < order[j]
  BY <1>3, <1>5
<1>11. ASSUME NEW i \in (a + 1)..(a + b), NEW j \in (a + 1)..(a + b), i < j
       PROVE  order[i] < order[j]
  <2>1. i - a \in 1..b /\ j - a \in 1..b /\ i - a < j - a
    BY <1>3, <1>4, <1>5, <1>11
  <2>2. q[i - a] < q[j - a]
    BY <1>4, <2>1
  <2> QED BY <1>5, <2>2
<1>12. InGroups(order, a, b, A, B)
  BY <1>5, <1>6, <1>7, <1>8, <1>9, <1>10, <1>11 DEF InGroups
<1> QED BY <1>3, <1>4, <1>12 DEF order, p, q, a, b

\* The edges of the two groups that stop the scan, the later group being the
\* defaults, and their places in its order.
Search(order, a, b, A, B, stops, later, found) ==
  /\ A \subseteq Nat /\ B \subseteq Nat /\ A \cap B = {}
  /\ a \in Nat /\ b \in Nat /\ InGroups(order, a, b, A, B)
  /\ stops \subseteq A \cup B /\ stops # {} /\ stops \cap later = stops \cap B
  /\ found = {i \in DOMAIN order : order[i] \in stops}

\* The first stop in the order of the groups is the least of the first group
\* that has one.
LEMMA FirstStop ==
  ASSUME NEW A, NEW B, NEW a, NEW b, NEW order, NEW stops, NEW later, NEW found,
         Search(order, a, b, A, B, stops, later, found)
  PROVE  found # {} /\ order[Least(found)] = first_stop(stops, later)
<1> DEFINE first == Least(found)
<1> USE DEF Search
<1>1. A \subseteq Nat /\ B \subseteq Nat
  OBVIOUS
<1>2. \A x \in A \cup B : \E i \in 1..(a + b) : order[i] = x
  <2>1. \A i \in 1..a : i \in 1..(a + b)
    OBVIOUS
  <2>2. \A i \in (a + 1)..(a + b) : i \in 1..(a + b)
    OBVIOUS
  <2> QED BY <2>1, <2>2 DEF InGroups
<1>3. found # {} /\ found \in SUBSET Nat
  <2>1. PICK x \in stops : x \in A \cup B
    OBVIOUS
  <2>2. PICK i \in 1..(a + b) : order[i] = x
    BY <1>2, <2>1
  <2>3. DOMAIN order = 1..(a + b)
    BY DEF InGroups
  <2> QED BY <2>1, <2>2, <2>3
<1>4. first \in found /\ \A i \in found : first <= i
  BY <1>3, LeastIsFirst
<1>5. first \in 1..(a + b) /\ order[first] \in stops
  BY <1>4 DEF InGroups
<1>6. \A i \in 1..(a + b) : order[i] \in stops => first <= i
  BY <1>4 DEF InGroups
<1> HIDE DEF first
<1> SUFFICES found # {} /\ order[first] = first_stop(stops, later)
  BY DEF first
<1>7. CASE stops \subseteq later
  <2>1. stops \subseteq B /\ first_stop(stops, later) = Least(stops)
    BY <1>7 DEF first_stop
  <2>2. first \in (a + 1)..(a + b)
    <3>1. first \notin 1..a
      BY <1>5, <2>1 DEF InGroups
    <3> QED BY <1>5, <3>1
  <2>3. ASSUME NEW x \in stops PROVE order[first] <= x
    <3>1. PICK i \in (a + 1)..(a + b) : order[i] = x
      BY <2>1 DEF InGroups
    <3>2. i \in 1..(a + b)
      OBVIOUS
    <3>3. first <= i
      BY <1>6, <3>1, <3>2
    <3>4. CASE first = i
      BY <1>5, <2>1, <3>1, <3>4
    <3>5. CASE first < i
      <4>1. order[first] < order[i]
        BY <2>2, <3>5 DEF InGroups
      <4>2. order[first] \in Nat /\ x \in Nat
        BY <1>1, <1>5, <2>1
      <4> QED BY <3>1, <4>1, <4>2
    <3> QED BY <2>2, <3>3, <3>4, <3>5
  <2>4. stops \in SUBSET Nat
    BY <1>1, <2>1
  <2>5. \A x \in stops : order[first] <= x
    BY <2>3
  <2>6. order[first] = Least(stops)
    BY <1>5, <2>4, <2>5, Leasts
  <2> QED BY <1>3, <2>1, <2>6
<1>8. CASE ~(stops \subseteq later)
  <2> DEFINE rest == stops \ later
  <2>1. rest \subseteq A /\ rest # {} /\ first_stop(stops, later) = Least(rest)
    BY <1>8 DEF first_stop
  <2>2. rest = stops \cap A
    OBVIOUS
  <2> HIDE DEF rest
  <2>3. first \in 1..a
    <3>1. PICK x \in rest : x \in A
      BY <2>1
    <3>2. PICK i \in 1..a : order[i] = x
      BY <3>1 DEF InGroups
    <3>3. i \in 1..(a + b) /\ order[i] \in stops
      BY <2>2, <3>1, <3>2
    <3>4. first <= i
      BY <1>6, <3>3
    <3> QED BY <1>5, <3>4
  <2>4. order[first] \in rest
    BY <1>5, <2>2, <2>3 DEF InGroups
  <2>5. ASSUME NEW x \in rest PROVE order[first] <= x
    <3>1. PICK i \in 1..a : order[i] = x
      BY <2>1 DEF InGroups
    <3>2. i \in 1..(a + b)
      OBVIOUS
    <3>3. first <= i
      BY <1>6, <2>2, <3>1, <3>2
    <3>4. order[first] \in Nat /\ x \in Nat
      BY <1>1, <2>1, <2>4
    <3>5. CASE first = i
      BY <3>1, <3>4, <3>5
    <3>6. CASE first < i
      <4>1. order[first] < order[i]
        BY <2>3, <3>6 DEF InGroups
      <4> QED BY <3>1, <3>4, <4>1
    <3> QED BY <2>3, <3>3, <3>5, <3>6
  <2>6. rest \in SUBSET Nat
    BY <1>1, <2>1
  <2>7. \A x \in rest : order[first] <= x
    BY <2>5
  <2>8. order[first] = Least(rest)
    BY <2>4, <2>6, <2>7, Leasts
  <2> QED BY <1>3, <2>1, <2>8
<1> QED BY <1>7, <1>8

\* find_matching_edge is the scan, on any flow, node, event and state.
LEMMA ScanFinds ==
  ASSUME NEW def, IsList(def.edges), NEW met
  PROVE  find_matching_edge(def, met.from, met.event, met.seen) = Scan(def, met)
<1> DEFINE here == {k \in DOMAIN def.edges : def.edges[k].source = met.from}
           B == {k \in here : Get(Condition(def, k), "type", "") = "default"}
           A == here \ B
           order == ScanOrder(def, met.from)
           stops == {k \in here : Stops(def, k, met)}
           found == {i \in DOMAIN order : order[i] \in stops}
<1>1. Len(def.edges) \in Nat /\ DOMAIN def.edges = 1..Len(def.edges)
  BY ListsAreLists
<1>2. order = Listed(def, A) \o Listed(def, B)
  BY DEF ScanOrder
<1>3. stops = stops_at(def, met.from, met.event, met.seen)
  BY DEF stops_at, get_edges_from, Stops
<1>4. stops \cap defaults(def) = stops \cap B
  BY DEF defaults
<1>5. A \subseteq 1..Len(def.edges) /\ B \subseteq 1..Len(def.edges) /\ A \cap B = {} /\ A \cup B = here
  BY <1>1
<1>6. \A k \in here : k \in stops <=> Stops(def, k, met)
  OBVIOUS
<1>7. stops \subseteq A \cup B
  OBVIOUS
<1> HIDE DEF stops, A, B, here, order
<1>8. /\ Cardinality(A) \in Nat /\ Cardinality(B) \in Nat
      /\ InGroups(order, Cardinality(A), Cardinality(B), A, B)
  BY <1>1, <1>2, <1>5, Groups
<1>9. \A i \in DOMAIN order : order[i] \in here
  <2> TAKE i \in DOMAIN order
  <2>1. i \in 1..Cardinality(A) \/ i \in (Cardinality(A) + 1)..(Cardinality(A) + Cardinality(B))
    BY <1>8 DEF InGroups
  <2> QED BY <1>5, <1>8, <2>1 DEF InGroups
<1>10. found = {i \in DOMAIN order : Stops(def, order[i], met)}
  BY <1>6, <1>9
<1>11. Scan(def, met) = IF found = {} THEN NoEdge ELSE order[Least(found)]
  BY <1>10 DEF Scan, order
<1>12. find_matching_edge(def, met.from, met.event, met.seen) = first_stop(stops, defaults(def))
  BY <1>3 DEF find_matching_edge
<1> SUFFICES Scan(def, met) = first_stop(stops, defaults(def))
  BY <1>12
<1>13. CASE stops = {}
  <2>1. found = {}
    BY <1>13
  <2>2. Scan(def, met) = NoEdge
    BY <1>11, <2>1
  <2>3. first_stop(stops, defaults(def)) = NoEdge
    BY <1>13 DEF first_stop
  <2> HIDE DEF found
  <2> QED BY <2>2, <2>3
<1>14. CASE stops # {}
  <2> DEFINE a == Cardinality(A)
             b == Cardinality(B)
             later == defaults(def)
  <2>1. Search(order, a, b, A, B, stops, later, found)
    BY <1>1, <1>4, <1>5, <1>7, <1>8, <1>14 DEF Search
  <2> HIDE DEF a, b, later, found
  <2>2. found # {} /\ order[Least(found)] = first_stop(stops, later)
    BY <2>1, FirstStop
  <2> QED BY <1>11, <2>2 DEF later
<1> QED BY <1>13, <1>14

\* The entry node is a node of its flow.
LEMMA EntryInFlow ==
  ASSUME NEW f, FlowOK(f)
  PROVE  get_entry_node(f).id \in NodeIds(f)
<1>1. f.nodes # <<>> /\ IsList(f.nodes)
  BY DEF FlowOK, validate_flow
<1>2. CASE f.entry_node_id = ""
  <2>1. 1 \in DOMAIN f.nodes
    BY <1>1, FirstOfNodes
  <2>2. get_entry_node(f) = f.nodes[1]
    BY <1>1, <1>2 DEF get_entry_node
  <2> QED BY <2>1, <2>2 DEF NodeIds
<1>3. CASE f.entry_node_id # ""
  <2> DEFINE id == f.entry_node_id
             places == {i \in DOMAIN f.nodes : f.nodes[i].id = id}
  <2>1. id \in NodeIds(f)
    BY <1>3 DEF FlowOK, validate_flow
  <2>2. places # {}
    BY <2>1 DEF NodeIds
  <2>3. places \in SUBSET Nat
    BY <1>1, ListsAreLists
  <2>4. Least(places) \in places
    BY <2>2, <2>3, LeastIsFirst
  <2>5. get_entry_node(f) = f.nodes[Least(places)]
    BY <1>3, <2>1 DEF get_entry_node, get_node
  <2> QED BY <2>4, <2>5 DEF NodeIds
<1> QED BY <1>2, <1>3

\* An edge found is an edge of the flow.
LEMMA MatchIsAnEdge ==
  ASSUME NEW f, IsList(f.edges), NEW id, NEW event, NEW found_in,
         find_matching_edge(f, id, event, found_in) # NoEdge
  PROVE  find_matching_edge(f, id, event, found_in) \in DOMAIN f.edges
<1> DEFINE stops == stops_at(f, id, event, found_in)
           later == defaults(f)
<1>1. stops \subseteq DOMAIN f.edges
  BY DEF stops_at, get_edges_from
<1>2. find_matching_edge(f, id, event, found_in) = first_stop(stops, later)
  BY DEF find_matching_edge
<1>3. DOMAIN f.edges \in SUBSET Nat
  BY ListsAreLists
<1> HIDE DEF stops, later
<1>4. stops # {} /\ first_stop(stops, later) =
        IF stops \subseteq later THEN Least(stops) ELSE Least(stops \ later)
  BY <1>2 DEF first_stop
<1>5. CASE stops \subseteq later
  <2>1. Least(stops) \in stops
    BY <1>1, <1>3, <1>4, LeastIsFirst
  <2> QED BY <1>1, <1>2, <1>4, <1>5, <2>1
<1>6. CASE ~(stops \subseteq later)
  <2>1. stops \ later # {} /\ stops \ later \in SUBSET Nat
    BY <1>1, <1>3, <1>6
  <2>2. Least(stops \ later) \in stops \ later
    BY <2>1, LeastIsFirst
  <2> QED BY <1>1, <1>2, <1>4, <1>6, <2>2
<1> QED BY <1>5, <1>6

LEMMA WalksMatch == IInv /\ FirstMatchWins /\ [Next]_vars => FirstMatchWins'
<1> SUFFICES ASSUME IInv, FirstMatchWins, [Next]_vars PROVE FirstMatchWins'
  OBVIOUS
<1>1. CASE Editing
  BY <1>1 DEF Editing, FirstMatchWins
<1>2. CASE UNCHANGED vars
  BY <1>2 DEF vars, FirstMatchWins
<1>3. CASE Walking
  <2>1. PICK event \in Events : Apply(event)
    BY <1>3 DEF Walking
  <2> DEFINE new == update_state(state, event)
             edge == find_matching_edge(flow, node, event, new)
  <2>2. flow' = flow /\ last' = [from |-> node, event |-> event, seen |-> new, edge |-> edge]
    BY <1>3, <2>1 DEF Walking, Apply
  <2> HIDE DEF new
  <2>3. last'.edge = find_matching_edge(flow', last'.from, last'.event, last'.seen)
    BY <2>2
  <2>4. IsList(flow'.edges)
    BY <2>2 DEF IInv, FlowOK
  <2>5. find_matching_edge(flow', last'.from, last'.event, last'.seen) = Scan(flow', last')
    BY <2>4, ScanFinds
  <2> QED BY <2>3, <2>5 DEF FirstMatchWins
<1> QED BY <1>1, <1>2, <1>3 DEF Next

LEMMA StaysNext == IInv /\ StaysInFlow /\ [Next]_vars => StaysInFlow'
<1> SUFFICES ASSUME IInv, StaysInFlow, [Next]_vars PROVE StaysInFlow'
  OBVIOUS
<1>1. CASE Editing
  <2>1. FlowOK(flow')
    BY StoredNext DEF IInv
  <2>2. node' = get_entry_node(flow').id
    BY <1>1 DEF Editing
  <2> QED BY <2>1, <2>2, EntryInFlow DEF StaysInFlow
<1>2. CASE UNCHANGED vars
  BY <1>2 DEF vars, StaysInFlow, NodeIds
<1>3. CASE Walking
  <2>1. PICK event \in Events : Apply(event)
    BY <1>3 DEF Walking
  <2> DEFINE new == update_state(state, event)
             edge == find_matching_edge(flow, node, event, new)
             taken == node' = IF edge = NoEdge THEN node ELSE flow.edges[edge].target
  <2>2. node' = node \/ taken
    BY <2>1 DEF Apply
  <2>3. flow' = flow
    BY <1>3 DEF Walking
  <2> HIDE DEF new
  <2>4. edge # NoEdge => edge \in DOMAIN flow.edges
    BY MatchIsAnEdge DEF IInv, FlowOK
  <2>5. \A k \in DOMAIN flow.edges : flow.edges[k].target \in NodeIds(flow)
    BY DEF IInv, FlowOK, validate_flow
  <2> HIDE DEF edge
  <2>6. node' \in NodeIds(flow)
    BY <2>2, <2>4, <2>5 DEF StaysInFlow
  <2> QED BY <2>3, <2>6 DEF StaysInFlow, NodeIds
<1> QED BY <1>1, <1>2, <1>3 DEF Next

\* Whatever flow is stored and whatever happens in the call, the engine takes
\* the edge that the scan of the two lists stops at (find_matching_edge).
THEOREM FirstMatch == Spec => []FirstMatchWins
<1>1. Init => FirstMatchWins
  BY DEF Init, FirstMatchWins
<1> QED BY <1>1, StoredInit, StoredNext, WalksMatch, PTL DEF Spec

\* A call is never led out of its flow, whatever was edited before it began and
\* whatever happens in it (apply_event, validate_flow).
THEOREM CallStaysInFlow == Spec => []StaysInFlow
<1>1. Init => StaysInFlow
  BY StoredInit, EntryInFlow DEF Init, IInv, StaysInFlow
<1> QED BY <1>1, StoredInit, StoredNext, StaysNext, PTL DEF Spec
=============================================================================
