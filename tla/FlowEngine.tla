----------------------------- MODULE FlowEngine -----------------------------
(***************************************************************************)
(* The stateless call-flow engine of packages/voiceai_common/flow_engine.py: *)
(* given a flow definition, the current node, the runtime state and an      *)
(* event, which edge fires and what the new state is.                       *)
(*                                                                          *)
(* A Python dict is a function whose DOMAIN is the set of keys present, and *)
(* Get is dict.get, so that an absent key and its default are told apart.   *)
(* A transcript is the set of a flow's keywords it contains as              *)
(* case-insensitive substrings; {} is the empty or absent text.  "" is the  *)
(* absent digit, intent or status.  An edge is named by its index in the    *)
(* definition, and 0 is "no edge".                                          *)
(***************************************************************************)
EXTENDS Integers, Sequences, TLC

Get(dict, key, default) == IF key \in DOMAIN dict THEN dict[key] ELSE default

Least(S) == CHOOSE k \in S : \A j \in S : k <= j

Put(dict, key, val) ==
  [k \in DOMAIN dict \cup {key} |-> IF k = key THEN val ELSE dict[k]]

EmptyDict == <<>>
NoEdge == 0

----------------------------------------------------------------------------
(* JSON values.  A number or a string is written as its own text; the JSON  *)
(* booleans and null are the tokens below, and a list stands for every      *)
(* reply that is valid JSON but no object.                                  *)
JTrue  == "json:true"
JFalse == "json:false"
JNull  == "json:null"
JList  == [json |-> "list"]
IsDict(value) == value # JList

\* Python's str() of a JSON scalar: True, False and None are capitalised.
str(value) ==
  CASE value = JTrue  -> "True"
    [] value = JFalse -> "False"
    [] value = JNull  -> "None"
    [] OTHER -> value

\* n of a turn_count_gte condition when int() rejects what the flow holds, as
\* it rejects the "" a cleared field of the flow editor stores.
MalformedN == -1

----------------------------------------------------------------------------
(* Node helpers.                                                            *)
NODE_TYPES == {"conversation", "say", "gather_dtmf", "transfer", "webhook",
               "set_variable", "condition", "end"}

CONDITION_TYPES == {"default", "keyword_matched", "turn_count_gte",
                    "dtmf_digit", "silence_timeout", "tool_result",
                    "intent_is", "variable_equals", "call_no_answer",
                    "webhook_field"}

TERMINAL_TYPES == {"end", "transfer"}

NoNode == [id |-> "", type |-> "", config |-> EmptyDict]

NodesOf(flow_def) == {flow_def.nodes[i] : i \in DOMAIN flow_def.nodes}
EdgesOf(flow_def) == {flow_def.edges[k] : k \in DOMAIN flow_def.edges}
NodeIds(flow_def) == {flow_def.nodes[i].id : i \in DOMAIN flow_def.nodes}

\* The first node with the id, NoNode when there is none.
get_node(flow_def, node_id) ==
  IF node_id \notin NodeIds(flow_def) THEN NoNode
  ELSE flow_def.nodes[Least({i \in DOMAIN flow_def.nodes : flow_def.nodes[i].id = node_id})]

\* Variant with a bug: the filter on the source is missing.
get_edges_of_any_node(flow_def, node_id) == DOMAIN flow_def.edges

get_edges_from(flow_def, node_id) ==
  {k \in DOMAIN flow_def.edges : flow_def.edges[k].source = node_id}

get_entry_node(flow_def) ==
  IF flow_def.entry_node_id # "" THEN get_node(flow_def, flow_def.entry_node_id)
  ELSE IF flow_def.nodes = <<>> THEN NoNode ELSE flow_def.nodes[1]

Condition(flow_def, k) == Get(flow_def.edges[k], "condition", EmptyDict)

----------------------------------------------------------------------------
(* Runtime state: the built-in keys, each at its default while absent, and  *)
(* the user's variables.                                                    *)
EmptyState ==
  [last_transcript     |-> {},
   last_dtmf           |-> "",
   turn_count          |-> 0,
   last_tool_results   |-> EmptyDict,
   last_intent         |-> "",
   last_webhook_result |-> EmptyDict,
   variables           |-> EmptyDict,
   call_status         |-> ""]

\* The text of a transcript or of an object, which no flow compares with.
LongText == "text"

\* str(merged.get(var, "")): a user variable shadows a built-in key, and a
\* built-in key the call has not set yet reads as "".
variable_value(state, var) ==
  IF var \in DOMAIN state.variables THEN str(state.variables[var])
  ELSE CASE var = "turn_count" /\ state.turn_count > 0 -> ToString(state.turn_count)
         [] var \in {"last_dtmf", "last_intent", "call_status"} -> state[var]
         [] /\ var \in {"last_transcript", "last_tool_results", "last_webhook_result", "variables"}
            /\ state[var] # EmptyState[var] -> LongText
         [] OTHER -> ""

tool_results(condition, state) ==
  Get(state.last_tool_results, Get(condition, "tool", ""), EmptyDict)

field_is(dict, condition) ==
  str(Get(dict, Get(condition, "field", ""), "")) = str(Get(condition, "value", ""))

\* Evaluating the condition raises: .get on a reply or a tool's result that is
\* no dict, or int() on a malformed n.
Raises(condition, state) ==
  \/ /\ Get(condition, "type", "default") = "webhook_field"
     /\ ~IsDict(state.last_webhook_result)
  \/ /\ Get(condition, "type", "default") = "tool_result"
     /\ Get(condition, "field", "") # ""
     /\ ~IsDict(tool_results(condition, state))
  \/ /\ Get(condition, "type", "default") = "turn_count_gte"
     /\ Get(condition, "n", 1) = MalformedN

keyword_matched(words, text) == words \cap text # {}

evaluate_condition(condition, state, event) ==
  LET text  == Get(event, "text", {})
      digit == Get(event, "digit", "")
  IN  CASE Get(condition, "type", "default") = "default" -> TRUE
        [] condition.type = "keyword_matched" ->
             keyword_matched(Get(condition, "words", {}),
                             IF text # {} THEN text ELSE state.last_transcript)
        [] condition.type = "turn_count_gte" -> state.turn_count >= Get(condition, "n", 1)
        [] condition.type = "dtmf_digit" ->
             (IF digit # "" THEN digit ELSE state.last_dtmf) = str(Get(condition, "digit", ""))
        [] condition.type = "silence_timeout" -> event.type = "silence_timeout"
        [] condition.type = "tool_result" ->
             IF Get(condition, "field", "") # ""
             THEN field_is(tool_results(condition, state), condition)
             ELSE Get(condition, "value", "") = LongText
        [] condition.type = "intent_is" -> state.last_intent = Get(condition, "intent", "")
        [] condition.type = "variable_equals" ->
             variable_value(state, Get(condition, "var", "")) = str(Get(condition, "value", ""))
        [] condition.type = "call_no_answer" -> state.call_status = "no_answer"
        [] condition.type = "webhook_field" -> field_is(state.last_webhook_result, condition)

----------------------------------------------------------------------------
(* Transition logic.                                                        *)

\* The edges that are tried last: those whose condition says "default".
defaults(flow_def) ==
  {k \in DOMAIN flow_def.edges : Get(Condition(flow_def, k), "type", "") = "default"}

\* The edges at which the scan stops: the condition raises or holds.
stops_at(flow_def, node_id, event, state) ==
  {k \in get_edges_from(flow_def, node_id) :
     \/ Raises(Condition(flow_def, k), state)
     \/ evaluate_condition(Condition(flow_def, k), state, event)}

\* Variant with a bug: one loop over the edges, defaults where they stand.
first_stop_in_one_group(stops, last) == IF stops = {} THEN NoEdge ELSE Least(stops)

\* The scan tries the edges of the last group after all others, and the edges
\* of a group in definition order.
first_stop(stops, last) ==
  IF stops = {} THEN NoEdge
  ELSE IF stops \subseteq last THEN Least(stops) ELSE Least(stops \ last)

find_matching_edge(flow_def, node_id, event, state) ==
  first_stop(stops_at(flow_def, node_id, event, state), defaults(flow_def))

\* What an event writes into the state, before any edge is looked at.
update_state(state, event) ==
  CASE event.type = "transcription" -> [state EXCEPT !.last_transcript = Get(event, "text", {})]
    [] event.type = "dtmf"          -> [state EXCEPT !.last_dtmf = Get(event, "digit", "")]
    [] event.type = "turn_end"      -> [state EXCEPT !.turn_count = @ + 1]
    [] event.type = "tool_result"   -> [state EXCEPT !.last_tool_results = Put(@, event.tool, event.result)]
    [] event.type = "intent"        -> [state EXCEPT !.last_intent = Get(event, "intent", "")]
    [] event.type = "webhook_result" -> [state EXCEPT !.last_webhook_result = event.result]
    [] event.type = "set_variable"  -> [state EXCEPT !.variables = Put(@, event.var, event.value)]
    [] OTHER -> state

\* The scan stopped at an edge whose condition raises: apply_event returns
\* nothing, neither a node nor a state.
raises_at(flow_def, edge, state) ==
  edge # NoEdge /\ Raises(Condition(flow_def, edge), state)

\* Nodes and edges are JSON lists.
lists(flow_def) ==
  /\ flow_def.nodes \in Seq(NodesOf(flow_def))
  /\ flow_def.edges \in Seq(EdgesOf(flow_def))

\* No error of validate_flow, which create_flow and update_flow require of
\* every stored definition.
validate_flow(flow_def) ==
  /\ flow_def.nodes # <<>>
  /\ flow_def.entry_node_id # "" => flow_def.entry_node_id \in NodeIds(flow_def)
  /\ \A k \in DOMAIN flow_def.edges :
       /\ {flow_def.edges[k].source, flow_def.edges[k].target} \subseteq NodeIds(flow_def)
       /\ Get(Condition(flow_def, k), "type", "default") \in CONDITION_TYPES
  /\ \A i \in DOMAIN flow_def.nodes : flow_def.nodes[i].type \in NODE_TYPES
=============================================================================
