---------------------------- MODULE MCFlowEngine ----------------------------
(***************************************************************************)
(* Small flows a client may store, for FlowDefinition: every list of a few  *)
(* conditions on the edges of a branching node.                             *)
(***************************************************************************)
EXTENDS FlowDefinition

CONSTANTS
  Conditions,  \* the conditions the edges of the first node draw from
  MaxEdges     \* bound on those edges

Edge(source, target, condition) ==
  [source |-> source, target |-> target, condition |-> condition]

\* Node a branches, node b leads back by an edge without a condition, and
\* "gone" is no node of the flow.
Flow(entry, conditions, target) ==
  [entry_node_id |-> entry,
   nodes |-> <<[id |-> "a", type |-> "conversation", config |-> EmptyDict],
               [id |-> "b", type |-> "conversation", config |-> EmptyDict]>>,
   edges |-> [i \in 1..Len(conditions) + 1 |->
                IF i <= Len(conditions) THEN Edge("a", target, conditions[i])
                ELSE [source |-> "b", target |-> "a"]]]

SmallFlows ==
  {Flow(entry, conditions, target) :
     entry \in {"a", ""}, conditions \in UNION {[1..n -> Conditions] : n \in 1..MaxEdges},
     target \in {"b", "gone"}}

EveryEvent ==
  {[type |-> "transcription", text |-> {"bye"}],
   [type |-> "dtmf", digit |-> "1"],
   [type |-> "dtmf", digit |-> "2"],
   [type |-> "turn_end"],
   [type |-> "silence_timeout"],
   [type |-> "intent", intent |-> "human"],
   [type |-> "tool_result", tool |-> "crm", result |-> [ok |-> "1"]],
   [type |-> "tool_result", tool |-> "crm", result |-> JList],
   [type |-> "webhook_result", result |-> [eligible |-> JFalse]],
   [type |-> "webhook_result", result |-> JList],
   [type |-> "set_variable", var |-> "last_dtmf", value |-> "2"]}

EveryCondition ==
  {[type |-> "default"],
   [words |-> {"bye"}],
   [type |-> "keyword_matched", words |-> {"bye"}],
   [type |-> "turn_count_gte", n |-> 2],
   [type |-> "turn_count_gte", n |-> MalformedN],
   [type |-> "dtmf_digit", digit |-> "1"],
   [type |-> "silence_timeout"],
   [type |-> "tool_result", tool |-> "crm", field |-> "ok", value |-> "1"],
   [type |-> "intent_is", intent |-> "human"],
   [type |-> "variable_equals", var |-> "last_dtmf", value |-> "1"],
   [type |-> "tool_result", tool |-> "crm", value |-> "1"],
   [type |-> "variable_equals", var |-> "turn_count", value |-> "2"],
   [type |-> "variable_equals", var |-> "last_webhook_result", value |-> "1"],
   [type |-> "call_no_answer"],
   [type |-> "webhook_field", field |-> "eligible", value |-> "False"]}
=============================================================================
