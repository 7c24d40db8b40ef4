----------------------------- MODULE FlowEditor -----------------------------
(***************************************************************************)
(* How a flow definition comes to be stored: the browser's editor           *)
(* (config-api/flow-editor: App.jsx, convert.js and its panels) and the     *)
(* handlers that create and save flows (admin_ui.py, flows.py).             *)
(*                                                                          *)
(* The editor's state is a record of React Flow nodes and edges and the     *)
(* entry's id.  Positions, labels and node configs are left out, and whose  *)
(* flow it is.  The keyboard deletes nothing (deleteKeyCode is null).       *)
(***************************************************************************)
EXTENDS FlowEngine, FiniteSets

VARIABLES
  flow,    \* the stored definition
  editor   \* what the editor shows of it

Default == [type |-> "default"]

\* convert.js.  An edge without a condition is shown as a default edge.
toReactFlow(definition) ==
  [nodes |-> definition.nodes,
   edges |-> [k \in DOMAIN definition.edges |->
                [source    |-> definition.edges[k].source,
                 target    |-> definition.edges[k].target,
                 condition |-> Get(definition.edges[k], "condition", Default)]],
   entry |-> definition.entry_node_id]

\* Variant with a bug: the conditions stay behind in the edges' data.
fromReactFlow_bare(ed) ==
  [entry_node_id |-> ed.entry, nodes |-> ed.nodes,
   edges |-> [k \in DOMAIN ed.edges |-> [ed.edges[k] EXCEPT !.condition = Default]]]

fromReactFlow(ed) ==
  [entry_node_id |-> ed.entry, nodes |-> ed.nodes, edges |-> ed.edges]

\* The first node's id, "" when there is none.
FirstId(nodes) == IF nodes = <<>> THEN "" ELSE Head(nodes).id

\* App: without a stored entry the first node is the entry from now on.
Opened(definition) ==
  LET ed == toReactFlow(definition)
  IN  [ed EXCEPT !.entry = IF @ = "" THEN FirstId(ed.nodes) ELSE @]

\* filter: the elements at some positions, in their order.
At(S, n) == CHOOSE i \in S : Cardinality(S \cap 1..i) = n
Kept(seq, S) == [n \in 1..Cardinality(S) |-> seq[At(S, n)]]
Without(seq, gone) == Kept(seq, DOMAIN seq \ gone)

\* The positions of a node and of the edges at it.
NodesWith(id) == {i \in DOMAIN editor.nodes : editor.nodes[i].id = id}
EdgesAt(id) == {k \in DOMAIN editor.edges : id \in {editor.edges[k].source, editor.edges[k].target}}

Ids == {editor.nodes[i].id : i \in DOMAIN editor.nodes}

----------------------------------------------------------------------------
addNode(id, type) ==
  /\ id \notin Ids
  /\ editor' = [editor EXCEPT
       !.nodes = Append(@, [id |-> id, type |-> type, config |-> EmptyDict]),
       !.entry = IF editor.nodes = <<>> THEN id ELSE @]

\* React Flow's addEdge ignores a second edge between two nodes.
onConnect(source, target) ==
  /\ {source, target} \subseteq Ids
  /\ ~\E k \in DOMAIN editor.edges : editor.edges[k].source = source /\ editor.edges[k].target = target
  /\ editor' = [editor EXCEPT !.edges =
       Append(@, [source |-> source, target |-> target, condition |-> Default])]

\* Variant with a bug: the entry stays where it was.
onNodeDelete_entry(id) ==
  /\ id \in Ids
  /\ editor' = [editor EXCEPT
       !.nodes = Without(@, NodesWith(id)), !.edges = Without(@, EdgesAt(id))]

\* The node goes with its edges; the entry moves to the first that is left.
onNodeDelete(id) ==
  LET left == Without(editor.nodes, NodesWith(id)) IN
  /\ id \in Ids
  /\ editor' = [nodes |-> left,
                edges |-> Without(editor.edges, EdgesAt(id)),
                entry |-> IF editor.entry = id THEN FirstId(left) ELSE editor.entry]

\* EdgePanel's changeType: the other fields of the condition stay.
onEdgeChange(k, type) ==
  /\ k \in DOMAIN editor.edges
  /\ editor' = [editor EXCEPT !.edges[k].condition = Put(@, "type", type)]

onEdgeDelete(k) ==
  /\ k \in DOMAIN editor.edges
  /\ editor' = [editor EXCEPT !.edges = Without(@, {k})]

onSetEntry(id) == id \in Ids /\ editor' = [editor EXCEPT !.entry = id]

Edit(newIds, nodeTypes, conditionTypes) ==
  /\ \/ \E id \in newIds, type \in nodeTypes : addNode(id, type)
     \/ \E source, target \in Ids : onConnect(source, target)
     \/ \E id \in Ids : onNodeDelete(id) \/ onSetEntry(id)
     \/ \E k \in DOMAIN editor.edges :
          onEdgeDelete(k) \/ \E type \in conditionTypes : onEdgeChange(k, type)
  /\ UNCHANGED flow

\* create_flow_ui and save_flow_ui, and their API twins: a definition with
\* errors is shown again and not stored.
save_flow ==
  /\ flow' = IF validate_flow(fromReactFlow(editor)) THEN fromReactFlow(editor) ELSE flow
  /\ UNCHANGED editor

----------------------------------------------------------------------------
\* Whatever is done in the editor to a stored flow, it can be saved again, but
\* for a flow that has lost its last node: no edge is left hanging, no entry is
\* left pointing at a deleted node.
EditorStaysValid == editor.nodes # <<>> => validate_flow(fromReactFlow(editor))

\* To open a flow and save it changes nothing a call could notice: the same
\* entry, the same nodes, the same conditions on the same edges.  An edge that
\* has no condition is given one.
SavingIsFaithful ==
  LET saved == fromReactFlow(Opened(flow)) IN
  /\ validate_flow(saved)
  /\ get_entry_node(saved) = get_entry_node(flow)
  /\ saved.nodes = flow.nodes /\ DOMAIN saved.edges = DOMAIN flow.edges
  /\ \A k \in DOMAIN flow.edges :
       /\ saved.edges[k].source = flow.edges[k].source /\ saved.edges[k].target = flow.edges[k].target
       /\ "condition" \in DOMAIN flow.edges[k] => saved.edges[k] = flow.edges[k]
=============================================================================
