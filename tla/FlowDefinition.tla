--------------------------- MODULE FlowDefinition ---------------------------
(***************************************************************************)
(* The life of a flow definition: a client stores one that validate_flow    *)
(* accepts, it is opened, edited and saved, and calls walk it event by      *)
(* event (apply_event), one of them here.                                   *)
(***************************************************************************)
EXTENDS FlowEditor

CONSTANTS
  Flows,          \* the definitions a client may send
  Events,         \* the events of a call
  NewIds,         \* ids of nodes added in the editor (newId)
  NewTypes,       \* and their types
  NewConditions,  \* types an edge's condition is changed to
  MaxSteps        \* bound on the edits and the events of a walk

\* An edge of the JSON list: its ids and label are not looked at.
IsEdge(e) ==
  \/ e = [source |-> e.source, target |-> e.target]
  \/ e = [source |-> e.source, target |-> e.target, condition |-> e.condition]

ASSUME DefinitionAssumption ==
  /\ \A f \in Flows : lists(f) /\ \A k \in DOMAIN f.edges : IsEdge(f.edges[k])
  /\ NewTypes \subseteq NODE_TYPES /\ NewConditions \subseteq CONDITION_TYPES

VARIABLES
  node,   \* the node the call is at
  state,  \* the runtime state
  last,   \* the last event, where it arrived, what it found and the edge taken
  steps

vars == <<flow, editor, node, state, last, steps>>

NoEvent == [from |-> "", event |-> [type |-> ""], seen |-> EmptyState, edge |-> NoEdge]

Init ==
  /\ flow \in {f \in Flows : validate_flow(f)}
  /\ editor = Opened(flow)
  /\ node = get_entry_node(flow).id
  /\ state = EmptyState
  /\ last = NoEvent
  /\ steps = 0

\* apply_event, and a caller that drops the event when it raises.
Apply(event) ==
  \E new \in {update_state(state, event)} :
  \E edge \in {find_matching_edge(flow, node, event, new)} :
    /\ last' = [from |-> node, event |-> event, seen |-> new, edge |-> edge]
    /\ IF raises_at(flow, edge, new)
       THEN UNCHANGED <<node, state>>
       ELSE /\ state' = new
            /\ node' = IF edge = NoEdge THEN node ELSE flow.edges[edge].target

\* Editing comes before the call: a call keeps the definition it began with.
Editing ==
  /\ last = NoEvent
  /\ \/ Edit(NewIds, NewTypes, NewConditions)
     \/ save_flow /\ fromReactFlow(editor) # flow
  /\ node' = get_entry_node(flow').id
  /\ UNCHANGED <<state, last>>

\* Walks of the stored flow, as it was created or saved.
Walking ==
  /\ editor = Opened(flow)
  /\ UNCHANGED <<flow, editor>>
  /\ \E event \in Events : Apply(event)

Next ==
  /\ steps < MaxSteps
  /\ steps' = steps + 1
  /\ Editing \/ Walking

Spec == Init /\ [][Next]_vars

----------------------------------------------------------------------------
(* The scan of find_matching_edge, as the list program it is, over the edges  *)
(* of def for the event met.                                                 *)
Stops(def, k, met) ==
  \/ Raises(Condition(def, k), met.seen)
  \/ evaluate_condition(Condition(def, k), met.seen, met.event)

\* A list comprehension over the definition's edges.
Listed(def, S) == Kept([k \in DOMAIN def.edges |-> k], S)

ScanOrder(def, from) ==
  LET edges    == {k \in DOMAIN def.edges : def.edges[k].source = from}
      defaults_here == {k \in edges : Get(Condition(def, k), "type", "") = "default"}
  IN  Listed(def, edges \ defaults_here) \o Listed(def, defaults_here)

\* The loop over a list of edges ends at the first it stops at.
Scan(def, met) ==
  LET order == ScanOrder(def, met.from)
      found == {i \in DOMAIN order : Stops(def, order[i], met)}
  IN  IF found = {} THEN NoEdge ELSE order[Least(found)]

\* find_matching_edge returns the edge the scan over the two concatenated
\* lists stops at, or none, on whatever flow, state and event.
FirstMatchWins == last # NoEvent => last.edge = Scan(flow, last)

\* A call is always at a node of the flow it walks.
StaysInFlow == node \in NodeIds(flow)
=============================================================================
