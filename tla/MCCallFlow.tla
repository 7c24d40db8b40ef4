----------------------------- MODULE MCCallFlow -----------------------------
(***************************************************************************)
(* Flows, callers and webhooks for model-checking CallFlow.                 *)
(***************************************************************************)
EXTENDS CallFlow

Node(id, type, config) == [id |-> id, type |-> type, config |-> config]
Edge(source, target, condition) ==
  [source |-> source, target |-> target, condition |-> condition]

On(word)   == [type |-> "keyword_matched", words |-> {word}]
Key(digit) == [type |-> "dtmf_digit", digit |-> digit]
Default    == [type |-> "default"]
FieldIs(field, val)  == [type |-> "webhook_field", field |-> field, value |-> val]
VarIs(var, val)      == [type |-> "variable_equals", var |-> var, value |-> val]

\* The order of the stages in create_pipeline_task.
PipelineStages ==
  <<"input", "stt", "flow_watcher", "user_aggregator", "llm", "tts",
    "metrics", "output", "assistant_aggregator">>

\* A support line with one node of every type.
SupportFlow ==
  [entry_node_id |-> "greet",
   nodes |-> <<Node("greet",  "conversation", [system_prompt |-> "p"]),
               Node("menu",   "gather_dtmf",  EmptyDict),
               Node("lookup", "webhook",      [url |-> "u"]),
               Node("tag",    "set_variable", [variable |-> "plan", value |-> "premium"]),
               Node("split",  "condition",    EmptyDict),
               Node("note",   "say",          [message |-> "m"]),
               Node("human",  "transfer",     [destination |-> "d"]),
               Node("bye",    "end",          EmptyDict)>>,
   edges |-> <<Edge("greet",  "bye",    On("bye")),
               Edge("greet",  "human",  On("human")),
               Edge("greet",  "menu",   Default),
               Edge("menu",   "lookup", Key("1")),
               Edge("menu",   "tag",    Key("2")),
               Edge("lookup", "note",   FieldIs("eligible", "yes")),
               Edge("lookup", "menu",   Default),
               Edge("tag",    "split",  Default),
               Edge("split",  "human",  FieldIs("eligible", "no")),
               Edge("split",  "note",   VarIs("plan", "premium")),
               Edge("split",  "greet",  Default),
               Edge("note",   "greet",  Default)>>]

Speech  == {{"bye"}, {"human"}, {"other"}}
Keys    == {"1", "2"}
Objects == {[eligible |-> "yes"], [eligible |-> "no"]}

\* A webhook that may also answer with JSON that is no object.
AnyJson == Objects \cup {JList}

\* A look-up that the caller may leave behind by a key while the webhook's reply
\* is out: the reply then meets the nodes entered since.
LookupFlow ==
  [entry_node_id |-> "greet",
   nodes |-> <<Node("greet",  "conversation", [system_prompt |-> "p"]),
               Node("lookup", "webhook",      [url |-> "u"]),
               Node("tag",    "set_variable", [variable |-> "plan", value |-> "premium"]),
               Node("split",  "condition",    EmptyDict),
               Node("note",   "say",          [message |-> "m"]),
               Node("human",  "transfer",     [destination |-> "d"]),
               Node("bye",    "end",          EmptyDict)>>,
   edges |-> <<Edge("greet",  "bye",    On("bye")),
               Edge("greet",  "lookup", Default),
               Edge("lookup", "note",   FieldIs("eligible", "yes")),
               Edge("lookup", "tag",    Key("1")),
               Edge("tag",    "split",  Default),
               Edge("split",  "human",  FieldIs("eligible", "no")),
               Edge("split",  "greet",  Default),
               Edge("note",   "bye",    On("bye")),
               Edge("note",   "greet",  Key("2"))>>]

\* Confirmations spoken by say nodes, the second before the call ends.
SayFlow ==
  [entry_node_id |-> "greet",
   nodes |-> <<Node("greet",  "conversation", [system_prompt |-> "p"]),
               Node("menu",   "gather_dtmf",  EmptyDict),
               Node("note",   "say",          [message |-> "m"]),
               Node("bye",    "end",          EmptyDict)>>,
   edges |-> <<Edge("greet",  "menu", Default),
               Edge("menu",   "note", Key("1")),
               Edge("note",   "bye",  Default)>>]

----------------------------------------------------------------------------
(* What the documentation says of a flow, and the code does not do.         *)

\* FLOWS.md on say: "Immediately follows the `default` edge after the message
\* finishes playing."
SayFollowsDefault ==
  \A node \in NodesOf(flow_def) :
    node.type = "say" => (current = node.id ~> current # node.id \/ runner # "running")
=============================================================================
