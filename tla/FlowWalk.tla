------------------------------ MODULE FlowWalk ------------------------------
(***************************************************************************)
(* What a call flow promises, whatever events the caller, the webhooks and  *)
(* the pipeline produce: the call stands at one node of the flow, moves     *)
(* only along an edge of the flow that leaves that node, and stops for good *)
(* at the first end or transfer node it moves to.                           *)
(***************************************************************************)
EXTENDS FlowEngine

CONSTANT flow_def  \* a flow that validate_flow accepts

VARIABLES at, over

vars == <<at, over>>

TypeOK == at \in NodeIds(flow_def) /\ over \in BOOLEAN

Init ==
  /\ at = get_entry_node(flow_def).id
  /\ over = FALSE

Move(k) ==
  /\ ~over
  /\ flow_def.edges[k].source = at
  /\ at' = flow_def.edges[k].target
  /\ over' = (get_node(flow_def, at').type \in TERMINAL_TYPES)

Next == \E k \in DOMAIN flow_def.edges : Move(k)

Spec == Init /\ [][Next]_vars
=============================================================================
