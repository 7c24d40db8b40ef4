--------------------------- MODULE CallFlow_proofs ---------------------------
(***************************************************************************)
(* Proofs about CallFlow for every validated flow, every set of utterances, *)
(* keys and webhook replies, every order of the pipeline's stages and every *)
(* bound: what a call does to the controller's state, its event log and the *)
(* frames it hands over.                                                    *)
(***************************************************************************)
EXTENDS CallFlow, FiniteSetTheorems, WellFoundedInduction, NaturalsInduction, TLAPS

----------------------------------------------------------------------------
(* The engine's operators, for every definition validate_flow accepts.      *)

\* Every nonempty set of naturals has a smallest element.
LEMMA Smallest ==
  ASSUME NEW S \in SUBSET Nat, S # {}
  PROVE  \E k \in S : \A j \in S : k <= j
<1> DEFINE Smaller == OpToRel(<, Nat)
<1>1. IsWellFoundedOn(Smaller, Nat)
  BY NatLessThanWellFounded
<1>2. PICK k \in S : \A j \in S : ~(<<j, k>> \in Smaller)
  BY <1>1, WFMin
<1>3. \A j \in S : ~(j < k)
  BY <1>2 DEF OpToRel
<1> QED BY <1>3

\* Least, the "first in the list" of the engine's loops, is a member and
\* comes before every other one.
LEMMA LeastIsFirst ==
  ASSUME NEW S \in SUBSET Nat, S # {}
  PROVE  Least(S) \in S /\ \A j \in S : Least(S) <= j
BY Smallest DEF Least

\* The lists of a stored definition are sequences over their elements.
LEMMA Lists ==
  ASSUME NEW definition, lists(definition)
  PROVE  /\ DOMAIN definition.nodes \in SUBSET Nat
         /\ DOMAIN definition.edges \in SUBSET Nat
         /\ NoEdge \notin DOMAIN definition.edges
BY DEF lists, NoEdge

\* get_node finds the node it is asked for when the flow has one.
LEMMA GetNode ==
  ASSUME NEW definition, lists(definition), NEW node_id \in NodeIds(definition)
  PROVE  /\ get_node(definition, node_id) \in NodesOf(definition)
         /\ get_node(definition, node_id).id = node_id
<1> DEFINE places == {i \in DOMAIN definition.nodes : definition.nodes[i].id = node_id}
<1>1. places \in SUBSET Nat /\ places # {}
  BY Lists DEF NodeIds
<1>2. Least(places) \in places
  BY <1>1, LeastIsFirst
<1>3. get_node(definition, node_id) = definition.nodes[Least(places)]
  BY DEF get_node
<1> QED BY <1>2, <1>3 DEF NodesOf

\* The entry node is a node of the flow, with or without an entry_node_id.
LEMMA EntryNode ==
  ASSUME NEW definition, lists(definition), validate_flow(definition)
  PROVE  /\ get_entry_node(definition) \in NodesOf(definition)
         /\ get_entry_node(definition).id \in NodeIds(definition)
<1>1. CASE definition.entry_node_id # ""
  <2>1. definition.entry_node_id \in NodeIds(definition)
    BY <1>1 DEF validate_flow
  <2> QED BY <1>1, <2>1, GetNode DEF get_entry_node
<1>2. CASE definition.entry_node_id = ""
  <2>1. definition.nodes # <<>> /\ definition.nodes \in Seq(NodesOf(definition))
    BY DEF validate_flow, lists
  <2>2. 1 \in DOMAIN definition.nodes
    BY <2>1
  <2> QED BY <1>2, <2>1, <2>2 DEF get_entry_node, NodesOf, NodeIds
<1> QED BY <1>1, <1>2

\* The entry node is the one its id finds.
LEMMA EntryIsFound ==
  ASSUME NEW definition, lists(definition), validate_flow(definition)
  PROVE  get_node(definition, get_entry_node(definition).id) = get_entry_node(definition)
<1>1. CASE definition.entry_node_id # ""
  <2>1. definition.entry_node_id \in NodeIds(definition)
    BY <1>1 DEF validate_flow
  <2>2. get_entry_node(definition).id = definition.entry_node_id
    BY <1>1, <2>1, GetNode DEF get_entry_node
  <2> QED BY <1>1, <2>2 DEF get_entry_node
<1>2. CASE definition.entry_node_id = ""
  <2> DEFINE first  == definition.nodes[1]
             places == {i \in DOMAIN definition.nodes : definition.nodes[i].id = first.id}
  <2>0. definition.nodes # <<>> /\ definition.nodes \in Seq(NodesOf(definition))
    BY DEF validate_flow, lists
  <2>1. /\ 1 \in DOMAIN definition.nodes
        /\ \A i \in DOMAIN definition.nodes : i \in Nat /\ i >= 1
    BY <2>0
  <2>2. 1 \in places /\ places \in SUBSET Nat /\ \A i \in places : i >= 1
    BY <2>1
  <2>3. Least(places) = 1
    <3> HIDE DEF places
    <3>1. places # {} /\ places \in SUBSET Nat
      BY <2>2
    <3>2. Least(places) \in places /\ \A i \in places : Least(places) <= i
      BY <3>1, LeastIsFirst
    <3>3. Least(places) <= 1 /\ Least(places) >= 1 /\ Least(places) \in Nat
      BY <2>2, <3>2
    <3> QED BY <3>3
  <2>4. get_entry_node(definition) = first /\ first.id \in NodeIds(definition)
    BY <1>2, <2>0, <2>1 DEF get_entry_node, NodeIds
  <2> QED BY <2>3, <2>4 DEF get_node
<1> QED BY <1>1, <1>2

\* find_matching_edge answers with an edge that leaves the node, or with none.
LEMMA MatchingEdge ==
  ASSUME NEW definition, lists(definition), NEW node_id, NEW event, NEW dict
  PROVE  find_matching_edge(definition, node_id, event, dict)
           \in get_edges_from(definition, node_id) \cup {NoEdge}
<1> DEFINE stops == stops_at(definition, node_id, event, dict)
           last  == defaults(definition)
<1>1. stops \in SUBSET get_edges_from(definition, node_id)
  BY DEF stops_at
<1>2. stops \in SUBSET Nat
  BY <1>1, Lists DEF get_edges_from
<1>3. first_stop(stops, last) \in stops \cup {NoEdge}
  <2>1. CASE stops = {}
    BY <2>1 DEF first_stop
  <2>2. CASE stops # {} /\ stops \subseteq last
    BY <1>2, <2>2, LeastIsFirst DEF first_stop
  <2>3. CASE stops # {} /\ ~(stops \subseteq last)
    <3>1. stops \ last \in SUBSET Nat /\ stops \ last # {}
      BY <1>2, <2>3
    <3>2. Least(stops \ last) \in stops \ last
      BY <3>1, LeastIsFirst
    <3> QED BY <2>3, <3>2 DEF first_stop
  <2> QED BY <2>1, <2>2, <2>3
<1> QED BY <1>1, <1>3 DEF find_matching_edge

\* The target of an edge is a node of the flow.
LEMMA EdgeEnds ==
  ASSUME NEW definition, validate_flow(definition),
         NEW node_id, NEW edge \in get_edges_from(definition, node_id)
  PROVE  /\ edge \in DOMAIN definition.edges
         /\ definition.edges[edge].source = node_id
         /\ definition.edges[edge].target \in NodeIds(definition)
BY DEF get_edges_from, validate_flow

\* A state dict: the built-in keys, and a turn count.
StateDict(dict) ==
  /\ DOMAIN dict = DOMAIN EmptyState
  /\ dict.turn_count \in Nat

\* Events only overwrite keys of the state dict.
LEMMA UpdateState ==
  ASSUME NEW dict, StateDict(dict), NEW event
  PROVE  StateDict(update_state(dict, event))
<1> DEFINE new == update_state(dict, event)
<1>1. "turn_count" \in DOMAIN dict
  BY DEF StateDict, EmptyState
<1>2. CASE event.type = "transcription"
  <2>1. new = [dict EXCEPT !.last_transcript = Get(event, "text", {})]
    BY <1>2 DEF update_state
  <2> QED BY <2>1, <1>1 DEF StateDict
<1>3. CASE event.type = "dtmf"
  <2>1. new = [dict EXCEPT !.last_dtmf = Get(event, "digit", "")]
    BY <1>3 DEF update_state
  <2> QED BY <2>1, <1>1 DEF StateDict
<1>4. CASE event.type = "turn_end"
  <2>1. new = [dict EXCEPT !.turn_count = @ + 1]
    BY <1>4 DEF update_state
  <2> QED BY <2>1, <1>1 DEF StateDict
<1>5. CASE event.type = "tool_result"
  <2>1. new = [dict EXCEPT !.last_tool_results = Put(@, event.tool, event.result)]
    BY <1>5 DEF update_state
  <2> QED BY <2>1, <1>1 DEF StateDict
<1>6. CASE event.type = "intent"
  <2>1. new = [dict EXCEPT !.last_intent = Get(event, "intent", "")]
    BY <1>6 DEF update_state
  <2> QED BY <2>1, <1>1 DEF StateDict
<1>7. CASE event.type = "webhook_result"
  <2>1. new = [dict EXCEPT !.last_webhook_result = event.result]
    BY <1>7 DEF update_state
  <2> QED BY <2>1, <1>1 DEF StateDict
<1>8. CASE event.type = "set_variable"
  <2>1. new = [dict EXCEPT !.variables = Put(@, event.var, event.value)]
    BY <1>8 DEF update_state
  <2> QED BY <2>1, <1>1 DEF StateDict
<1>9. CASE event.type \notin {"transcription", "dtmf", "turn_end", "tool_result",
                              "intent", "webhook_result", "set_variable"}
  <2>1. new = dict
    BY <1>9 DEF update_state
  <2> QED BY <2>1
<1> QED BY <1>2, <1>3, <1>4, <1>5, <1>6, <1>7, <1>8, <1>9

----------------------------------------------------------------------------
(* The flow of the call.                                                    *)

LEMMA FlowFacts ==
  /\ lists(flow_def) /\ validate_flow(flow_def)
  /\ Entry \in NodeIds(flow_def)
  /\ get_entry_node(flow_def) \in NodesOf(flow_def)
BY FlowAssumption, EntryNode DEF Entry

----------------------------------------------------------------------------
(* The event log.                                                           *)

\* A log whose entries continue one another from the entry node on.
Chain(log) ==
  /\ log \in Seq(LogRecord)
  /\ Len(log) > 0
  /\ log[1] = NodeEntered(Entry)
  /\ \A i \in 2..Len(log) : Continues(log[i - 1], log[i])

LEMMA ChainAppend ==
  ASSUME NEW log, Chain(log), NEW entry \in LogRecord, Continues(log[Len(log)], entry)
  PROVE  /\ Chain(Append(log, entry))
         /\ Len(Append(log, entry)) = Len(log) + 1
         /\ Append(log, entry)[Len(log) + 1] = entry
<1> DEFINE longer == Append(log, entry)
<1>1. /\ log \in Seq(LogRecord) /\ Len(log) \in Nat /\ Len(log) > 0
      /\ longer \in Seq(LogRecord) /\ Len(longer) = Len(log) + 1
      /\ \A i \in 1..Len(log) : longer[i] = log[i]
      /\ longer[Len(log) + 1] = entry
  BY DEF Chain
<1> HIDE DEF longer
<1>2. ASSUME NEW i \in 2..Len(longer)
      PROVE  Continues(longer[i - 1], longer[i])
  <2>1. CASE i = Len(log) + 1
    <3>1. longer[i - 1] = log[Len(log)] /\ longer[i] = entry
      BY <1>1, <2>1
    <3> QED BY <3>1
  <2>2. CASE i # Len(log) + 1
    <3>1. i \in 2..Len(log) /\ longer[i - 1] = log[i - 1] /\ longer[i] = log[i]
      BY <1>1, <2>2
    <3> QED BY <3>1 DEF Chain
  <2> QED BY <2>1, <2>2
<1>3. longer[1] = NodeEntered(Entry)
  BY <1>1 DEF Chain
<1> QED BY <1>1, <1>2, <1>3 DEF Chain, longer

\* The first entry is the entry node's.
LEMMA FirstEntry ==
  /\ <<NodeEntered(Entry)>> \in Seq(LogRecord)
  /\ Replays(<<NodeEntered(Entry)>>, Entry)
<1>1. NodeEntered(Entry) \in LogRecord
  BY FlowFacts DEF NodeEntered, Record, LogRecord
<1> DEFINE entry == NodeEntered(Entry)
           log   == <<entry>>
<1>2. entry.event_type = "node_entered" /\ entry.node_id = Entry
  BY DEF NodeEntered, Record
<1> HIDE DEF entry
<1>3. Len(log) = 1 /\ log[1] = entry /\ 2..Len(log) = {}
  OBVIOUS
<1>4. Replays(log, Entry)
  BY <1>2, <1>3 DEF Replays, entry
<1> QED BY <1>1, <1>4 DEF entry

\* Logging a received event leaves the replay where it was.
LEMMA LogReceived ==
  ASSUME NEW node_id \in NodeIds(flow_def),
         NEW log \in Seq(LogRecord), Replays(log, node_id),
         NEW event, event.type \in EVENT_TYPES
  PROVE  /\ Append(log, Received(node_id, event)) \in Seq(LogRecord)
         /\ Replays(Append(log, Received(node_id, event)), node_id)
<1> DEFINE entry == Received(node_id, event)
<1>1. entry \in LogRecord
  BY DEF Received, Record, LogRecord
<1>2. Chain(log)
  BY DEF Chain, Replays
<1>3. Continues(log[Len(log)], entry)
  BY DEF Continues, Replays, Received, Record
<1>4. /\ Chain(Append(log, entry))
      /\ Len(Append(log, entry)) = Len(log) + 1
      /\ Append(log, entry)[Len(log) + 1] = entry
  BY <1>1, <1>2, <1>3, ChainAppend
<1>5. entry.event_type # "edge_taken" /\ entry.node_id = node_id
  BY DEF Received, Record
<1> QED BY <1>4, <1>5 DEF Chain, Replays

\* Logging a received event, the edge taken and the node entered moves the
\* replay along that edge.
LEMMA LogMove ==
  ASSUME NEW node_id \in NodeIds(flow_def),
         NEW log \in Seq(LogRecord), Replays(log, node_id),
         NEW event, event.type \in EVENT_TYPES,
         NEW edge \in get_edges_from(flow_def, node_id)
  PROVE  LET target == flow_def.edges[edge].target
             longer == log \o <<Received(node_id, event), EdgeTaken(node_id, edge),
                                NodeEntered(target)>>
         IN  longer \in Seq(LogRecord) /\ Replays(longer, target)
<1> DEFINE target == flow_def.edges[edge].target
           heard  == Received(node_id, event)
           taking == EdgeTaken(node_id, edge)
           coming == NodeEntered(target)
           log1   == Append(log, heard)
           log2   == Append(log1, taking)
           log3   == Append(log2, coming)
<1>1. edge \in DOMAIN flow_def.edges /\ target \in NodeIds(flow_def)
  BY FlowFacts, EdgeEnds
<1>2. /\ heard \in LogRecord /\ taking \in LogRecord /\ coming \in LogRecord
      /\ heard.event_type = "event_received" /\ heard.node_id = node_id
      /\ taking.event_type = "edge_taken" /\ taking.node_id = node_id
      /\ taking.edge_id = edge
      /\ coming.event_type = "node_entered" /\ coming.node_id = target
  BY <1>1 DEF Received, EdgeTaken, NodeEntered, Record, LogRecord
<1>3. log \o <<heard, taking, coming>> = log3
  BY <1>2
<1> HIDE DEF heard, taking, coming, target
<1>4. Chain(log) /\ Continues(log[Len(log)], heard)
  BY <1>2 DEF Chain, Replays, Continues
<1>5. Chain(log1) /\ log1[Len(log1)] = heard
  BY <1>2, <1>4, ChainAppend
<1> HIDE DEF log1
<1>6. Continues(heard, taking)
  BY <1>2 DEF Continues
<1>7. Chain(log2) /\ log2[Len(log2)] = taking
  BY <1>2, <1>5, <1>6, ChainAppend
<1> HIDE DEF log2
<1>8. Continues(taking, coming)
  BY <1>2 DEF Continues, target
<1>9. Chain(log3) /\ log3[Len(log3)] = coming
  BY <1>2, <1>7, <1>8, ChainAppend
<1> HIDE DEF log3
<1>10. log3 \in Seq(LogRecord) /\ Replays(log3, target)
  BY <1>2, <1>9 DEF Chain, Replays
<1> QED BY <1>3, <1>10 DEF heard, taking, coming, target

----------------------------------------------------------------------------
(* Log and frames.                                                          *)

LEMMA MovesCount ==
  ASSUME NEW log \in Seq(LogRecord), NEW k \in Nat
  PROVE  /\ IsFiniteSet(Moves(log)) /\ Cardinality(Moves(log)) \in Nat
         /\ IsFiniteSet(Moves(log) \cap 1..k)
<1>1. Moves(log) \subseteq 2..Len(log) /\ IsFiniteSet(2..Len(log))
  BY FS_Interval DEF Moves
<1>2. IsFiniteSet(Moves(log))
  BY <1>1, FS_Subset
<1>3. Moves(log) \cap 1..k \subseteq Moves(log)
  OBVIOUS
<1> QED BY <1>2, <1>3, FS_Subset, FS_CardinalityType

\* An entry of another kind is no move.
LEMMA OtherEntry ==
  ASSUME NEW log \in Seq(LogRecord), NEW entry \in LogRecord, entry.event_type # "node_entered",
         NEW frames, OneFramePerMove(log, frames)
  PROVE  OneFramePerMove(Append(log, entry), frames)
<1> DEFINE longer == Append(log, entry)
<1>1. /\ Len(log) \in Nat /\ Len(longer) = Len(log) + 1
      /\ \A i \in 1..Len(log) : longer[i] = log[i]
      /\ longer[Len(log) + 1] = entry
  OBVIOUS
<1> HIDE DEF longer
<1>2. Moves(longer) = Moves(log)
  BY <1>1 DEF Moves
<1>3. \A k \in Moves(log) : longer[k] = log[k]
  BY <1>1 DEF Moves
<1>4. OneFramePerMove(longer, frames)
  BY <1>2, <1>3 DEF OneFramePerMove
<1> QED BY <1>4 DEF longer

\* A node entered goes with its frame.
LEMMA NodeEntry ==
  ASSUME NEW log \in Seq(LogRecord), Len(log) > 0,
         NEW entry \in LogRecord, entry.event_type = "node_entered",
         NEW frames, NEW longerFrames, OneFramePerMove(log, frames),
         Len(longerFrames) = Len(frames) + 1,
         \A i \in 1..Len(frames) : longerFrames[i] = frames[i],
         longerFrames[Len(frames) + 1].id = entry.node_id
  PROVE  OneFramePerMove(Append(log, entry), longerFrames)
<1> DEFINE longer == Append(log, entry)
           n == Len(log) + 1
<1>1. /\ Len(log) \in Nat /\ Len(longer) = n
      /\ \A i \in 1..Len(log) : longer[i] = log[i]
      /\ longer[n] = entry
  OBVIOUS
<1> HIDE DEF longer
<1>2. Moves(longer) = Moves(log) \cup {n} /\ n \notin Moves(log)
  BY <1>1 DEF Moves
<1>3. /\ Cardinality(Moves(log)) = Len(frames) /\ Len(frames) \in Nat
      /\ Cardinality(Moves(longer)) = Len(frames) + 1
  BY <1>2, MovesCount, FS_AddElement DEF OneFramePerMove
<1>4. ASSUME NEW k \in Moves(longer)
      PROVE  longerFrames[Cardinality(Moves(longer) \cap 1..k)].id = longer[k].node_id
  <2>1. CASE k = n
    <3>1. Moves(longer) \cap 1..k = Moves(longer)
      BY <1>1, <2>1 DEF Moves
    <3> QED BY <1>1, <1>3, <2>1, <3>1
  <2>2. CASE k # n
    <3>1. k \in Moves(log) /\ k \in 1..Len(log)
      BY <1>2, <2>2 DEF Moves
    <3>2. Moves(longer) \cap 1..k = Moves(log) \cap 1..k
      BY <1>2, <3>1
    <3>3. Cardinality(Moves(log) \cap 1..k) \in 1..Len(frames)
      <4>1. Moves(log) \cap 1..k \subseteq Moves(log) /\ k \in Moves(log) \cap 1..k
        BY <3>1
      <4>2. Cardinality(Moves(log) \cap 1..k) <= Cardinality(Moves(log))
        BY <4>1, MovesCount, FS_Subset
      <4>3. Cardinality(Moves(log) \cap 1..k) \in Nat /\ Cardinality(Moves(log) \cap 1..k) # 0
        <5> DEFINE upto == Moves(log) \cap 1..k
        <5>1. IsFiniteSet(upto) /\ upto # {}
          BY <3>1, <4>1, MovesCount
        <5> HIDE DEF upto
        <5>2. Cardinality(upto) \in Nat /\ Cardinality(upto) # 0
          BY <5>1, FS_CardinalityType, FS_EmptySet
        <5> QED BY <5>2 DEF upto
      <4> QED BY <1>3, <4>2, <4>3
    <3>4. longerFrames[Cardinality(Moves(log) \cap 1..k)] = frames[Cardinality(Moves(log) \cap 1..k)]
      BY <3>3
    <3>5. frames[Cardinality(Moves(log) \cap 1..k)].id = log[k].node_id
      BY <3>1 DEF OneFramePerMove
    <3> QED BY <1>1, <3>1, <3>2, <3>4, <3>5
  <2> QED BY <2>1, <2>2
<1>5. OneFramePerMove(longer, longerFrames)
  BY <1>3, <1>4 DEF OneFramePerMove
<1> QED BY <1>5 DEF longer

LEMMA FirstFrames == OneFramePerMove(<<NodeEntered(Entry)>>, <<>>)
<1> DEFINE log == <<NodeEntered(Entry)>>
<1>1. Len(log) = 1 /\ 2..1 = {}
  OBVIOUS
<1> HIDE DEF log
<1>2. Moves(log) = {}
  BY <1>1 DEF Moves
<1>3. Cardinality(Moves(log)) = 0
  BY <1>2, FS_EmptySet
<1> QED BY <1>2, <1>3 DEF OneFramePerMove, log

LEMMA FramesReceived ==
  ASSUME NEW node_id \in NodeIds(flow_def), NEW log \in Seq(LogRecord),
         NEW event, event.type \in EVENT_TYPES, NEW frames, OneFramePerMove(log, frames)
  PROVE  OneFramePerMove(Append(log, Received(node_id, event)), frames)
<1>1. /\ Received(node_id, event) \in LogRecord
      /\ Received(node_id, event).event_type # "node_entered"
  BY DEF Received, Record, LogRecord
<1> QED BY <1>1, OtherEntry

\* The three entries of a transition go with one frame, its target's.
LEMMA FramesMove ==
  ASSUME NEW node_id \in NodeIds(flow_def), NEW log \in Seq(LogRecord),
         NEW event, event.type \in EVENT_TYPES,
         NEW edge \in get_edges_from(flow_def, node_id),
         NEW frames, NEW longerFrames, OneFramePerMove(log, frames),
         Len(longerFrames) = Len(frames) + 1,
         \A i \in 1..Len(frames) : longerFrames[i] = frames[i],
         longerFrames[Len(frames) + 1].id = flow_def.edges[edge].target,
         NEW longer, longer = log \o <<Received(node_id, event), EdgeTaken(node_id, edge),
                                       NodeEntered(flow_def.edges[edge].target)>>
  PROVE  OneFramePerMove(longer, longerFrames)
<1> DEFINE target == flow_def.edges[edge].target
           heard  == Received(node_id, event)
           taking == EdgeTaken(node_id, edge)
           coming == NodeEntered(target)
           log1   == Append(log, heard)
           log2   == Append(log1, taking)
           log3   == Append(log2, coming)
<1>1. edge \in DOMAIN flow_def.edges /\ target \in NodeIds(flow_def)
  BY FlowFacts, EdgeEnds
<1>2. /\ heard \in LogRecord /\ taking \in LogRecord /\ coming \in LogRecord
      /\ heard.event_type # "node_entered" /\ taking.event_type # "node_entered"
      /\ coming.event_type = "node_entered" /\ coming.node_id = target
  BY <1>1 DEF Received, EdgeTaken, NodeEntered, Record, LogRecord
<1>3. log \o <<heard, taking, coming>> = log3
  BY <1>2
<1> HIDE DEF heard, taking, coming
<1>4. log1 \in Seq(LogRecord) /\ OneFramePerMove(log1, frames)
  BY <1>2, OtherEntry
<1> HIDE DEF log1
<1>5. log2 \in Seq(LogRecord) /\ Len(log2) > 0 /\ OneFramePerMove(log2, frames)
  <2>1. log2 \in Seq(LogRecord) /\ Len(log2) = Len(log1) + 1 /\ Len(log1) \in Nat
    BY <1>2, <1>4
  <2>2. OneFramePerMove(log2, frames)
    BY <1>2, <1>4, OtherEntry
  <2> QED BY <2>1, <2>2
<1> HIDE DEF log2
<1>6. longerFrames[Len(frames) + 1].id = coming.node_id
  BY <1>2
<1> HIDE DEF target
<1>7. OneFramePerMove(log3, longerFrames)
  BY <1>2, <1>5, <1>6, NodeEntry
<1> QED BY <1>3, <1>7 DEF heard, taking, coming, target

----------------------------------------------------------------------------
(* The controller.                                                          *)

LastIs(node) == emitted # <<>> /\ emitted[Len(emitted)] = node

\* What holds of the controller's own state: the log replays the call and
\* agrees with the frames, the last frame is the node the call is at (none was emitted for the entry
\* node), and only the last frame can be terminal.
ControllerInv ==
  /\ current \in NodeIds(flow_def)
  /\ StateDict(state)
  /\ finished \in BOOLEAN
  /\ events \in Seq(LogRecord)
  /\ emitted \in Seq(NodesOf(flow_def))
  /\ LogReplaysCall
  /\ FramesMatchLog
  /\ TerminalFrameIsLast
  /\ emitted = <<>> => current = Entry
  /\ emitted # <<>> => LastIs(get_node(flow_def, current))

\* Frames are only ever added behind the others, and only while the flow has
\* not finished.
Grows ==
  /\ Len(emitted) <= Len(emitted')
  /\ \A i \in 1..Len(emitted) : emitted'[i] = emitted[i]
  /\ finished => UNCHANGED controllerVars

LEMMA SameNodes ==
  /\ Walk!TERMINAL_TYPES = TERMINAL_TYPES
  /\ \A node_id : Walk!get_node(flow_def, node_id) = get_node(flow_def, node_id)
  /\ Walk!get_entry_node(flow_def) = get_entry_node(flow_def)
BY DEF Walk!TERMINAL_TYPES, TERMINAL_TYPES, Walk!get_node, get_node, Walk!NodeIds, NodeIds,
       Walk!NoNode, NoNode, Walk!EmptyDict, EmptyDict, Walk!Least, Least,
       Walk!get_entry_node, get_entry_node

\* One step of the walk, or none.
WalkStep == [Walk!Next]_(Walk!vars)

LEMMA ControllerRests ==
  ASSUME ControllerInv, UNCHANGED controllerVars
  PROVE  ControllerInv' /\ Grows /\ WalkStep
<1>1. current' = current /\ state' = state /\ finished' = finished /\ events' = events
      /\ emitted' = emitted
  BY DEF controllerVars
<1>2. ControllerInv'
  BY <1>1 DEF ControllerInv, LogReplaysCall, FramesMatchLog, TerminalFrameIsLast, LastIs
<1>3. Grows
  BY <1>1 DEF Grows, controllerVars, ControllerInv
<1>4. WalkStep
  BY <1>1 DEF WalkStep, Walk!vars
<1> QED BY <1>2, <1>3, <1>4

\* emit_transition keeps the last frame at the node the call moves to.
LEMMA EmitTransition ==
  ASSUME ControllerInv, ~finished, current' \in NodeIds(flow_def),
         emit_transition(get_node(flow_def, current'))
  PROVE  /\ finished' \in BOOLEAN
         /\ emitted' \in Seq(NodesOf(flow_def))
         /\ Len(emitted') = Len(emitted) + 1
         /\ \A i \in 1..Len(emitted) : emitted'[i] = emitted[i]
         /\ emitted'[Len(emitted')] = get_node(flow_def, current')
         /\ finished' = (get_node(flow_def, current').type \in TERMINAL_TYPES)
         /\ TerminalFrameIsLast'
<1> DEFINE node == get_node(flow_def, current')
<1>1. node \in NodesOf(flow_def) /\ node.id = current'
  BY FlowFacts, GetNode
<1>2. node # NoNode
  <2>1. node.type \in NODE_TYPES
    BY <1>1, FlowFacts DEF validate_flow, NodesOf
  <2>2. NoNode.type \notin NODE_TYPES
    BY DEF NoNode, NODE_TYPES
  <2> QED BY <2>1, <2>2
<1>3. emitted' = Append(emitted, node) /\ finished' = (node.type \in TERMINAL_TYPES)
  BY <1>2 DEF emit_transition
<1> HIDE DEF node
<1>4. emitted \in Seq(NodesOf(flow_def)) /\ Len(emitted) \in Nat
  BY DEF ControllerInv
<1>5. /\ emitted' \in Seq(NodesOf(flow_def)) /\ Len(emitted') = Len(emitted) + 1
      /\ \A i \in 1..Len(emitted) : emitted'[i] = emitted[i]
      /\ emitted'[Len(emitted')] = node
  BY <1>1, <1>3, <1>4
<1>6. \A i \in 1..Len(emitted) : emitted[i].type \notin TERMINAL_TYPES
  BY <1>4 DEF ControllerInv, TerminalFrameIsLast
<1>7. TerminalFrameIsLast'
  <2>1. emitted' # <<>> /\ DOMAIN emitted' = 1..Len(emitted) + 1
    BY <1>4, <1>5
  <2>2. finished' <=> emitted' # <<>> /\ emitted'[Len(emitted')].type \in TERMINAL_TYPES
    BY <1>3, <1>5, <2>1
  <2>3. ASSUME NEW i \in DOMAIN emitted', emitted'[i].type \in TERMINAL_TYPES
        PROVE  i = Len(emitted')
    BY <1>4, <1>5, <1>6, <2>1, <2>3
  <2> QED BY <2>2, <2>3 DEF TerminalFrameIsLast
<1> QED BY <1>3, <1>5, <1>7 DEF node

\* _process_event, on a log that extends the call's own by received events.
LEMMA ProcessEvent ==
  ASSUME ControllerInv, ~finished,
         NEW log \in Seq(LogRecord), Replays(log, current), OneFramePerMove(log, emitted),
         NEW event, event.type \in EVENT_TYPES,
         process_event(log, event)
  PROVE  ControllerInv' /\ Grows /\ WalkStep
<1> DEFINE new  == update_state(state, event)
           edge == find_matching_edge(flow_def, current, event, new)
           longer == Append(log, Received(current, event))
<1>1. current \in NodeIds(flow_def) /\ StateDict(new)
  BY UpdateState DEF ControllerInv
<1>2. edge \in get_edges_from(flow_def, current) \cup {NoEdge}
  BY FlowFacts, MatchingEdge
<1>3. /\ longer \in Seq(LogRecord) /\ Replays(longer, current)
      /\ OneFramePerMove(longer, emitted)
  BY <1>1, LogReceived, FramesReceived
<1>4. \/ /\ events' = longer
         /\ state' = state \/ state' = new
         /\ UNCHANGED <<current, finished, emitted>>
      \/ /\ edge # NoEdge
         /\ events' = log \o <<Received(current, event), EdgeTaken(current, edge),
                               NodeEntered(flow_def.edges[edge].target)>>
         /\ current' = flow_def.edges[edge].target
         /\ state' = new
         /\ emit_transition(get_node(flow_def, current'))
  BY DEF process_event
<1> HIDE DEF new, edge, longer
<1>5. CASE /\ events' = longer
           /\ state' = state \/ state' = new
           /\ UNCHANGED <<current, finished, emitted>>
  <2>1. StateDict(state')
    BY <1>1, <1>5 DEF ControllerInv
  <2>2. ControllerInv'
    BY <1>3, <1>5, <2>1
       DEF ControllerInv, StateDict, LogReplaysCall, FramesMatchLog, TerminalFrameIsLast, LastIs
  <2>3. Grows
    BY <1>5 DEF Grows, ControllerInv
  <2>4. WalkStep
    BY <1>5 DEF WalkStep, Walk!vars
  <2> QED BY <2>2, <2>3, <2>4
<1>6. CASE /\ edge # NoEdge
           /\ events' = log \o <<Received(current, event), EdgeTaken(current, edge),
                                 NodeEntered(flow_def.edges[edge].target)>>
           /\ current' = flow_def.edges[edge].target
           /\ state' = new
           /\ emit_transition(get_node(flow_def, current'))
  <2>1. edge \in get_edges_from(flow_def, current)
    BY <1>2, <1>6
  <2>2. /\ edge \in DOMAIN flow_def.edges
        /\ flow_def.edges[edge].source = current
        /\ current' \in NodeIds(flow_def)
    BY <1>6, <2>1, FlowFacts, EdgeEnds
  <2>3. events' \in Seq(LogRecord) /\ Replays(events', current')
    BY <1>1, <1>6, <2>1, LogMove
  <2>4. /\ finished' \in BOOLEAN
        /\ emitted' \in Seq(NodesOf(flow_def))
        /\ Len(emitted') = Len(emitted) + 1
        /\ \A i \in 1..Len(emitted) : emitted'[i] = emitted[i]
        /\ emitted'[Len(emitted')] = get_node(flow_def, current')
        /\ finished' = (get_node(flow_def, current').type \in TERMINAL_TYPES)
        /\ TerminalFrameIsLast'
    BY <1>6, <2>2, EmitTransition
  <2>5. emitted \in Seq(NodesOf(flow_def)) /\ Len(emitted) \in Nat
    BY DEF ControllerInv
  <2>6. StateDict(state)'
    BY <1>1, <1>6 DEF StateDict
  <2>7. emitted' # <<>>
    BY <2>4, <2>5
  <2>8. get_node(flow_def, current').id = current'
    BY <2>2, FlowFacts, GetNode
  <2>9. OneFramePerMove(events', emitted')
    <3>1. emitted'[Len(emitted) + 1].id = flow_def.edges[edge].target
      BY <1>6, <2>4, <2>8
    <3>2. /\ Len(emitted') = Len(emitted) + 1
          /\ \A i \in 1..Len(emitted) : emitted'[i] = emitted[i]
      BY <2>4
    <3>3. events' = log \o <<Received(current, event), EdgeTaken(current, edge),
                             NodeEntered(flow_def.edges[edge].target)>>
      BY <1>6
    <3> QED BY <1>1, <2>1, <3>1, <3>2, <3>3, FramesMove
  <2>10. ControllerInv'
    BY <2>2, <2>3, <2>4, <2>6, <2>7, <2>9 DEF ControllerInv, LogReplaysCall, FramesMatchLog, LastIs
  <2>11. Grows
    BY <2>4, <2>5 DEF Grows
  <2>12. Walk!Move(edge)
    BY <1>6, <2>2, <2>4, SameNodes DEF Walk!Move
  <2>13. WalkStep
    BY <2>2, <2>12 DEF WalkStep, Walk!Next
  <2> QED BY <2>10, <2>11, <2>13
<1> QED BY <1>4, <1>5, <1>6

LEMMA Notify ==
  ASSUME ControllerInv, NEW event, event.type \in EVENT_TYPES, notify(event)
  PROVE  ControllerInv' /\ Grows /\ WalkStep
<1>1. CASE finished
  BY <1>1, ControllerRests DEF notify
<1>2. CASE ~finished
  <2>1. process_event(events, event)
    BY <1>2 DEF notify
  <2>2. /\ events \in Seq(LogRecord) /\ Replays(events, current)
        /\ OneFramePerMove(events, emitted)
    BY DEF ControllerInv, LogReplaysCall, FramesMatchLog
  <2> QED BY <1>2, <2>1, <2>2, ProcessEvent
<1> QED BY <1>1, <1>2

\* A webhook's reply, processed a second time as an error when it raises.
LEMMA OnWebhookResult ==
  ASSUME ControllerInv, NEW result, on_webhook_result(result)
  PROVE  ControllerInv' /\ Grows /\ WalkStep
<1> DEFINE event == WebhookResult(result)
<1>1. event.type \in EVENT_TYPES /\ WebhookResult(ErrorResult).type \in EVENT_TYPES
  BY DEF WebhookResult, EVENT_TYPES
<1> HIDE DEF event
<1>2. CASE raises(event)
  <2>1. ~finished
    BY <1>2 DEF raises
  <2>2. process_event(Append(events, Received(current, event)), WebhookResult(ErrorResult))
    BY <1>2 DEF on_webhook_result, event
  <2>3. /\ Append(events, Received(current, event)) \in Seq(LogRecord)
        /\ Replays(Append(events, Received(current, event)), current)
        /\ OneFramePerMove(Append(events, Received(current, event)), emitted)
    BY <1>1, LogReceived, FramesReceived DEF ControllerInv, LogReplaysCall, FramesMatchLog
  <2> QED BY <1>1, <2>1, <2>2, <2>3, ProcessEvent
<1>3. CASE ~raises(event)
  <2>1. notify(event)
    BY <1>3 DEF on_webhook_result, event
  <2> QED BY <1>1, <2>1, Notify
<1> QED BY <1>2, <1>3

LEMMA InstantEvent ==
  ASSUME NEW node
  PROVE  instant_event(node).type \in EVENT_TYPES
BY DEF instant_event, EVENT_TYPES

----------------------------------------------------------------------------
(* The call.                                                                *)

HANDLER_STATES == {"waiting", "posting", "redirecting", "done", "failed", "cancelled"}

\* What holds of the handler's state: it has taken a prefix of the frames,
\* and it redirects or has cancelled only with the terminal frame taken.
HandlerInv ==
  /\ taken \in 0..Len(emitted)
  /\ handler \in HANDLER_STATES
  /\ prompt \in NodeIds(flow_def) \cup {AgentPrompt}
  /\ redirected \in BOOLEAN /\ cancelled \in BOOLEAN
  /\ handler = "redirecting" => /\ finished /\ taken = Len(emitted) /\ taken > 0
                               /\ emitted[taken].type = "transfer"
  /\ CancelledAtTheEnd

CallInv ==
  /\ llm_runs \in Nat
  /\ hungup \in BOOLEAN
  /\ runner \in {"running", "done", "error"}
  /\ status \in {"none", "completed", "transferred", "error"}

IInv == ControllerInv /\ HandlerInv /\ CallInv

LEMMA InitInv == Init => IInv
<1> SUFFICES ASSUME Init PROVE IInv
  OBVIOUS
<1>1. current = Entry /\ emitted = <<>> /\ finished = FALSE /\ Len(emitted) = 0
      /\ emitted \in Seq(NodesOf(flow_def)) /\ current \in NodeIds(flow_def)
  BY FlowFacts DEF Init
<1>2. StateDict(state)
  BY DEF Init, StateDict, EmptyState
<1>3. events \in Seq(LogRecord) /\ LogReplaysCall /\ FramesMatchLog
  BY FirstEntry, FirstFrames DEF Init, LogReplaysCall, FramesMatchLog
<1>4. TerminalFrameIsLast
  BY <1>1 DEF TerminalFrameIsLast
<1>5. ControllerInv
  BY <1>1, <1>2, <1>3, <1>4 DEF ControllerInv
<1>6. HandlerInv
  <2>1. prompt \in NodeIds(flow_def) \cup {AgentPrompt}
    BY FlowFacts DEF Init, InitialPrompt
  <2>2. handler = "waiting" /\ redirected = FALSE /\ cancelled = FALSE /\ taken = 0
    BY DEF Init
  <2>3. taken \in 0..Len(emitted)
    BY <1>1, <2>2
  <2> QED BY <2>1, <2>2, <2>3 DEF HandlerInv, HANDLER_STATES, CancelledAtTheEnd
<1>7. CallInv
  BY DEF Init, CallInv
<1> QED BY <1>5, <1>6, <1>7 DEF IInv

\* A step of the controller that leaves the handler alone, or takes it back
\* to a place where it holds no terminal frame.
LEMMA HandlerKept ==
  ASSUME IInv, ControllerInv', Grows,
         handler' = handler \/ (~cancelled /\ handler' \in HANDLER_STATES \ {"redirecting"}),
         taken' = taken \/ (taken < Len(emitted) /\ taken' = taken + 1 /\ ~cancelled
                            /\ handler' # "redirecting"),
         prompt' = prompt, redirected' = redirected, cancelled' = cancelled
  PROVE  HandlerInv'
<1>1. /\ taken \in Nat /\ Len(emitted) \in Nat /\ Len(emitted') \in Nat
      /\ taken <= Len(emitted)
  BY DEF IInv, ControllerInv, HandlerInv
<1>2. taken' \in 0..Len(emitted')
  BY <1>1 DEF Grows
<1>3. finished => emitted' = emitted /\ finished' = finished /\ current' = current
  BY DEF Grows, controllerVars
<1>4. handler' = "redirecting" => /\ finished' /\ taken' = Len(emitted') /\ taken' > 0
                                  /\ emitted'[taken'].type = "transfer"
  BY <1>3 DEF IInv, HandlerInv
<1>5. CancelledAtTheEnd'
  BY <1>1, <1>3 DEF IInv, HandlerInv, CancelledAtTheEnd
<1> QED BY <1>2, <1>4, <1>5 DEF IInv, HandlerInv

\* What Take leaves: the frame is in the queue and the handler was waiting.
LEMMA TakeFacts ==
  ASSUME IInv, NEW types, Take(types)
  PROVE  /\ ~cancelled /\ ~redirected /\ handler = "waiting"
         /\ taken < Len(emitted) /\ taken' = taken + 1
         /\ emitted[taken + 1] \in NodesOf(flow_def)
         /\ emitted[taken + 1].type \in types
<1>1. ~cancelled /\ ~redirected
  BY DEF Take, IInv, HandlerInv, CancelledAtTheEnd
<1>2. emitted[taken + 1] \in NodesOf(flow_def)
  BY DEF Take, IInv, HandlerInv, ControllerInv
<1> QED BY <1>1, <1>2 DEF Take

\* A terminal frame at the head of the queue is the last: the flow has
\* finished and the handler has taken every frame.
LEMMA TakesTheLast ==
  ASSUME IInv, NEW types, Take(types), types \subseteq TERMINAL_TYPES
  PROVE  /\ finished /\ taken' = Len(emitted)
         /\ emitted[Len(emitted)] = get_node(flow_def, current)
         /\ emitted[Len(emitted)].type \in types
<1>1. taken + 1 \in DOMAIN emitted /\ emitted[taken + 1].type \in types /\ taken' = taken + 1
  BY DEF Take, IInv, ControllerInv, HandlerInv
<1>2. taken + 1 = Len(emitted)
  BY <1>1 DEF IInv, ControllerInv, TerminalFrameIsLast
<1>3. emitted # <<>>
  BY <1>1
<1>4. finished
  BY <1>1, <1>2, <1>3 DEF IInv, ControllerInv, TerminalFrameIsLast
<1> QED BY <1>1, <1>2, <1>3, <1>4 DEF IInv, ControllerInv, LastIs

LEMMA NextInv == IInv /\ [Next]_vars => IInv' /\ Grows /\ WalkStep
<1> SUFFICES ASSUME IInv, [Next]_vars
             PROVE  IInv' /\ Grows /\ WalkStep
  OBVIOUS
<1> DEFINE Goal == IInv' /\ Grows /\ WalkStep
<1>0. ControllerInv /\ HandlerInv /\ CallInv
  BY DEF IInv
<1>1. ASSUME UNCHANGED handlerVars, ControllerInv', Grows
      PROVE  HandlerInv'
  BY <1>1, HandlerKept DEF handlerVars
<1>2. ASSUME UNCHANGED callVars, llm_runs' \in Nat
      PROVE  CallInv'
  BY <1>0, <1>2 DEF callVars, CallInv
<1>3. ASSUME NEW text \in Texts, Transcription(text)
      PROVE  Goal
  <2>1. ControllerInv' /\ Grows /\ WalkStep
    BY <1>0, <1>3, Notify, ControllerRests DEF Transcription, EVENT_TYPES
  <2>2. HandlerInv'
    BY <1>1, <1>3, <2>1 DEF Transcription
  <2>3. CallInv'
    BY <1>0, <1>2, <1>3 DEF Transcription, CallInv
  <2> QED BY <2>1, <2>2, <2>3 DEF IInv
<1>4. ASSUME NEW digit \in Digits, Dtmf(digit)
      PROVE  Goal
  <2>1. ControllerInv' /\ Grows /\ WalkStep
    BY <1>0, <1>4, Notify, ControllerRests DEF Dtmf, EVENT_TYPES
  <2>2. HandlerInv'
    BY <1>1, <1>4, <2>1 DEF Dtmf
  <2>3. CallInv'
    BY <1>0, <1>2, <1>4 DEF Dtmf, CallInv
  <2> QED BY <2>1, <2>2, <2>3 DEF IInv
<1>5. CASE LLMResponseEnds
  <2>1. ControllerInv' /\ Grows /\ WalkStep
    BY <1>0, <1>5, Notify, ControllerRests DEF LLMResponseEnds, EVENT_TYPES
  <2>2. HandlerInv'
    BY <1>1, <1>5, <2>1 DEF LLMResponseEnds
  <2>3. CallInv'
    BY <1>0, <1>2, <1>5 DEF LLMResponseEnds, CallInv
  <2> QED BY <2>1, <2>2, <2>3 DEF IInv
<1>6. CASE HandleEnd
  <2>1. ControllerInv' /\ Grows /\ WalkStep
    BY <1>0, <1>6, ControllerRests DEF HandleEnd
  <2>2. finished /\ taken' = Len(emitted) /\ ~redirected /\ taken' \in 0..Len(emitted)
    BY <1>0, <1>6, TakeFacts, TakesTheLast DEF HandleEnd, TERMINAL_TYPES, HandlerInv
  <2>3. HandlerInv'
    BY <1>0, <1>6, <2>2 DEF HandleEnd, HandlerInv, HANDLER_STATES, CancelledAtTheEnd, controllerVars
  <2>4. CallInv'
    BY <1>0, <1>2, <1>6 DEF HandleEnd, CallInv
  <2> QED BY <2>1, <2>3, <2>4 DEF IInv
<1>7. CASE HandleTransfer
  <2>1. ControllerInv' /\ Grows /\ WalkStep
    BY <1>0, <1>7, ControllerRests DEF HandleTransfer
  <2>2. /\ finished /\ taken' = Len(emitted) /\ ~redirected /\ ~cancelled
        /\ taken' \in 0..Len(emitted) /\ taken' > 0
        /\ emitted[Len(emitted)].type = "transfer"
    BY <1>0, <1>7, TakeFacts, TakesTheLast DEF HandleTransfer, TERMINAL_TYPES, HandlerInv
  <2>3. HandlerInv'
    BY <1>0, <1>7, <2>2 DEF HandleTransfer, HandlerInv, HANDLER_STATES, CancelledAtTheEnd, controllerVars
  <2>4. CallInv'
    BY <1>0, <1>2, <1>7 DEF HandleTransfer, CallInv
  <2> QED BY <2>1, <2>3, <2>4 DEF IInv
<1>8. ASSUME NEW accepted \in BOOLEAN, RedirectAnswered(accepted)
      PROVE  Goal
  <2>1. ControllerInv' /\ Grows /\ WalkStep
    BY <1>0, <1>8, ControllerRests DEF RedirectAnswered
  <2>2. /\ finished /\ taken = Len(emitted) /\ emitted # <<>>
        /\ emitted[Len(emitted)].type = "transfer"
    BY <1>0, <1>8 DEF RedirectAnswered, HandlerInv
  <2>3. get_node(flow_def, current).type = "transfer"
    BY <1>0, <2>2 DEF ControllerInv, LastIs
  <2>4. HandlerInv'
    BY <1>0, <1>8, <2>2, <2>3
       DEF RedirectAnswered, HandlerInv, HANDLER_STATES, CancelledAtTheEnd, controllerVars
  <2>5. CallInv'
    BY <1>0, <1>2, <1>8 DEF RedirectAnswered, CallInv
  <2> QED BY <2>1, <2>4, <2>5 DEF IInv
<1>9. CASE HandleSpoken
  <2>1. ControllerInv' /\ Grows /\ WalkStep
    BY <1>0, <1>9, ControllerRests DEF HandleSpoken
  <2>2. /\ ~cancelled /\ ~redirected /\ taken < Len(emitted) /\ taken' = taken + 1
        /\ emitted[taken + 1] \in NodesOf(flow_def)
    BY <1>9, TakeFacts DEF HandleSpoken
  <2>3. prompt' \in NodeIds(flow_def) \cup {AgentPrompt} /\ llm_runs' \in Nat
    <3>1. emitted[taken + 1].id \in NodeIds(flow_def)
      BY <2>2 DEF NodesOf, NodeIds
    <3>2. prompt' \in {emitted[taken + 1].id, prompt}
      BY <1>9 DEF HandleSpoken
    <3>3. llm_runs' \in {llm_runs + 1, llm_runs}
      BY <1>9 DEF HandleSpoken
    <3>4. prompt \in NodeIds(flow_def) \cup {AgentPrompt} /\ llm_runs \in Nat
      BY <1>0 DEF HandlerInv, CallInv
    <3> QED BY <3>1, <3>2, <3>3, <3>4
  <2>4. handler' \in {"waiting", "done"} /\ UNCHANGED <<controllerVars, redirected, cancelled>>
    BY <1>9 DEF HandleSpoken, NextIteration
  <2>5. taken' \in 0..Len(emitted)
    BY <1>0, <2>2 DEF ControllerInv, HandlerInv
  <2>6. HandlerInv'
    BY <1>0, <2>2, <2>3, <2>4, <2>5
       DEF HandlerInv, HANDLER_STATES, CancelledAtTheEnd, controllerVars
  <2>7. CallInv'
    BY <1>2, <1>9, <2>3 DEF HandleSpoken
  <2> QED BY <2>1, <2>6, <2>7 DEF IInv
<1>10. CASE HandleWebhook
  <2>1. ControllerInv' /\ Grows /\ WalkStep
    BY <1>0, <1>10, ControllerRests DEF HandleWebhook
  <2>2. ~cancelled /\ taken < Len(emitted) /\ taken' = taken + 1
    BY <1>10, TakeFacts DEF HandleWebhook
  <2>3. handler' \in {"posting", "waiting", "done"} /\ UNCHANGED <<prompt, redirected, cancelled>>
    BY <1>10 DEF HandleWebhook, NextIteration
  <2>4. HandlerInv'
    BY <2>1, <2>2, <2>3, HandlerKept DEF HANDLER_STATES
  <2>5. CallInv'
    BY <1>0, <1>2, <1>10 DEF HandleWebhook, CallInv
  <2> QED BY <2>1, <2>4, <2>5 DEF IInv
<1>11. ASSUME NEW result, WebhookAnswered(result)
       PROVE  Goal
  <2>1. ControllerInv' /\ Grows /\ WalkStep
    BY <1>0, <1>11, OnWebhookResult DEF WebhookAnswered
  <2>2. ~cancelled
    BY <1>0, <1>11 DEF WebhookAnswered, HandlerInv, CancelledAtTheEnd
  <2>3. /\ handler' \in {"failed", "waiting", "done"}
        /\ UNCHANGED <<taken, prompt, redirected, cancelled>>
    BY <1>11 DEF WebhookAnswered, NextIteration
  <2>4. HandlerInv'
    BY <2>1, <2>2, <2>3, HandlerKept DEF HANDLER_STATES
  <2>5. CallInv'
    BY <1>0, <1>2, <1>11 DEF WebhookAnswered, CallInv
  <2> QED BY <2>1, <2>4, <2>5 DEF IInv
<1>12. CASE HandleInstant
  <2>1. PICK event \in {instant_event(emitted[taken + 1])} :
          /\ notify(event)
          /\ handler' = IF raises(event) THEN "failed" ELSE NextIteration
    BY <1>12 DEF HandleInstant
  <2>2. ControllerInv' /\ Grows /\ WalkStep
    BY <1>0, <2>1, InstantEvent, Notify
  <2>3. ~cancelled /\ taken < Len(emitted) /\ taken' = taken + 1
    BY <1>12, TakeFacts DEF HandleInstant
  <2>4. handler' \in {"failed", "waiting", "done"} /\ UNCHANGED <<prompt, redirected, cancelled>>
    BY <1>12, <2>1 DEF HandleInstant, NextIteration
  <2>5. HandlerInv'
    BY <2>2, <2>3, <2>4, HandlerKept DEF HANDLER_STATES
  <2>6. CallInv'
    BY <1>0, <1>2, <1>12 DEF HandleInstant, CallInv
  <2> QED BY <2>2, <2>5, <2>6 DEF IInv
<1>13. CASE HandleGather
  <2>1. ControllerInv' /\ Grows /\ WalkStep
    BY <1>0, <1>13, ControllerRests DEF HandleGather
  <2>2. ~cancelled /\ taken < Len(emitted) /\ taken' = taken + 1
    BY <1>13, TakeFacts DEF HandleGather
  <2>3. handler' \in {"waiting", "done"} /\ UNCHANGED <<prompt, redirected, cancelled>>
    BY <1>13 DEF HandleGather, NextIteration
  <2>4. HandlerInv'
    BY <2>1, <2>2, <2>3, HandlerKept DEF HANDLER_STATES
  <2>5. CallInv'
    BY <1>0, <1>2, <1>13 DEF HandleGather, CallInv
  <2> QED BY <2>1, <2>4, <2>5 DEF IInv
<1>14. CASE HandlerNoticesEnd
  <2>1. ControllerInv' /\ Grows /\ WalkStep
    BY <1>0, <1>14, ControllerRests DEF HandlerNoticesEnd
  <2>2. ~cancelled
    BY <1>0, <1>14 DEF HandlerNoticesEnd, HandlerInv, CancelledAtTheEnd
  <2>3. HandlerInv'
    BY <1>14, <2>1, <2>2, HandlerKept DEF HandlerNoticesEnd, HANDLER_STATES
  <2>4. CallInv'
    BY <1>0, <1>2, <1>14 DEF HandlerNoticesEnd, CallInv
  <2> QED BY <2>1, <2>3, <2>4 DEF IInv
<1>15. CASE CallerHangsUp
  <2>1. ControllerInv' /\ Grows /\ WalkStep
    BY <1>0, <1>15, ControllerRests DEF CallerHangsUp
  <2>2. HandlerInv'
    BY <1>1, <1>15, <2>1 DEF CallerHangsUp
  <2>3. CallInv'
    BY <1>0, <1>15 DEF CallerHangsUp, CallInv
  <2> QED BY <2>1, <2>2, <2>3 DEF IInv
<1>16. CASE RunnerEnds
  <2>1. ControllerInv' /\ Grows /\ WalkStep
    BY <1>0, <1>16, ControllerRests DEF RunnerEnds
  <2>2. HandlerInv'
    BY <1>1, <1>16, <2>1 DEF RunnerEnds
  <2>3. CallInv'
    BY <1>0, <1>16 DEF RunnerEnds, CallInv
  <2> QED BY <2>1, <2>2, <2>3 DEF IInv
<1>17. CASE CancelHandler
  <2>1. ControllerInv' /\ Grows /\ WalkStep
    BY <1>0, <1>17, ControllerRests DEF CancelHandler
  <2>2. ~cancelled
    BY <1>0, <1>17 DEF CancelHandler, HandlerLive, HandlerInv, CancelledAtTheEnd
  <2>3. HandlerInv'
    BY <1>17, <2>1, <2>2, HandlerKept DEF CancelHandler, HANDLER_STATES
  <2>4. CallInv'
    BY <1>0, <1>2, <1>17 DEF CancelHandler, CallInv
  <2> QED BY <2>1, <2>3, <2>4 DEF IInv
<1>18. CASE Finalize
  <2>1. ControllerInv' /\ Grows /\ WalkStep
    BY <1>0, <1>18, ControllerRests DEF Finalize
  <2>2. HandlerInv'
    BY <1>1, <1>18, <2>1 DEF Finalize
  <2>3. flow_status \in {"completed", "transferred", "error"}
    BY DEF flow_status
  <2>4. CallInv'
    BY <1>0, <1>18, <2>3 DEF Finalize, CallInv
  <2> QED BY <2>1, <2>2, <2>4 DEF IInv
<1>19. CASE UNCHANGED vars
  <2>1. UNCHANGED controllerVars /\ UNCHANGED handlerVars /\ UNCHANGED callVars
        /\ UNCHANGED llm_runs
    BY <1>19 DEF vars
  <2>2. ControllerInv' /\ Grows /\ WalkStep
    BY <1>0, <2>1, ControllerRests
  <2>3. HandlerInv' /\ CallInv'
    BY <1>0, <1>1, <1>2, <2>1, <2>2 DEF CallInv
  <2> QED BY <2>2, <2>3 DEF IInv
<1>20. CASE Controller
  BY <1>3, <1>4, <1>5, <1>20 DEF Controller
<1>21. CASE Handler
  BY <1>6, <1>7, <1>8, <1>9, <1>10, <1>11, <1>12, <1>13, <1>14, <1>21 DEF Handler
<1>22. CASE Teardown
  BY <1>15, <1>16, <1>17, <1>18, <1>22 DEF Teardown
<1>23. CASE Over
  BY <1>19, <1>23 DEF Over
<1> QED BY <1>19, <1>20, <1>21, <1>22, <1>23 DEF Next

LEMMA Invariance == Spec => []IInv
BY InitInv, NextInv, PTL DEF Spec

----------------------------------------------------------------------------
(* The LLM's system message.                                                *)

\* Before it takes a frame the pipeline's own prompt is there; after that the
\* one of the frame taken last, if that brings one.
PromptInv ==
  /\ taken = 0 => prompt = InitialPrompt
  /\ taken > 0 /\ HasText(emitted[taken]) => prompt = emitted[taken].id

\* Only HandleSpoken writes the prompt, and what the others take has no text.
LEMMA TakesNoText ==
  ASSUME [Next]_vars, ~HandleSpoken
  PROVE  /\ prompt' = prompt
         /\ \/ taken' = taken
            \/ /\ taken' = taken + 1 /\ taken < Len(emitted)
               /\ emitted[taken + 1].type \notin {"say", "conversation"}
<1>1. CASE HandleEnd
  BY <1>1 DEF HandleEnd, Take
<1>2. CASE HandleTransfer
  BY <1>2 DEF HandleTransfer, Take
<1>3. CASE HandleWebhook
  BY <1>3 DEF HandleWebhook, Take
<1>4. CASE HandleInstant
  BY <1>4 DEF HandleInstant, Take
<1>5. CASE HandleGather
  BY <1>5 DEF HandleGather, Take
<1>6. CASE \/ Controller \/ Teardown \/ HandlerNoticesEnd
           \/ \E accepted \in BOOLEAN : RedirectAnswered(accepted)
           \/ \E result \in Replies \cup {ErrorResult} : WebhookAnswered(result)
           \/ UNCHANGED vars
  BY <1>6 DEF Controller, Transcription, Dtmf, LLMResponseEnds, Teardown, CallerHangsUp, RunnerEnds,
              CancelHandler, Finalize, HandlerNoticesEnd, RedirectAnswered, WebhookAnswered,
              vars, handlerVars
<1> QED BY <1>1, <1>2, <1>3, <1>4, <1>5, <1>6 DEF Next, Handler, Over

LEMMA PromptStep ==
  ASSUME IInv, PromptInv, [Next]_vars
  PROVE  PromptInv'
<1>1. /\ Len(emitted) \in Nat /\ taken \in 0..Len(emitted)
      /\ \A i \in 1..Len(emitted) : emitted'[i] = emitted[i]
  BY NextInv DEF Grows, IInv, ControllerInv, HandlerInv
<1>2. CASE HandleSpoken
  <2>1. /\ taken' = taken + 1 /\ emitted'[taken + 1] = emitted[taken + 1]
        /\ emitted[taken + 1].type \in {"say", "conversation"}
    <3>1. Take({"say", "conversation"})
      BY <1>2 DEF HandleSpoken
    <3> QED BY <1>1, <3>1, TakeFacts
  <2>2. HasText(emitted[taken + 1]) => prompt' = emitted[taken + 1].id
    <3>1. CASE emitted[taken + 1].type = "say"
      BY <1>2, <3>1 DEF HandleSpoken, HasText
    <3>2. CASE emitted[taken + 1].type = "conversation"
      BY <1>2, <3>2 DEF HandleSpoken, HasText
    <3> QED BY <2>1, <3>1, <3>2
  <2> QED BY <1>1, <2>1, <2>2 DEF PromptInv
<1>3. CASE ~HandleSpoken
  <2>1. prompt' = prompt
    BY <1>3, TakesNoText
  <2>2. CASE taken' = taken
    <3>1. taken > 0 => emitted'[taken'] = emitted[taken]
      BY <1>1, <2>2
    <3> QED BY <2>1, <2>2, <3>1 DEF PromptInv, InitialPrompt
  <2>3. CASE /\ taken' = taken + 1 /\ taken < Len(emitted)
             /\ emitted[taken + 1].type \notin {"say", "conversation"}
    <3>1. emitted'[taken'] = emitted[taken + 1] /\ taken' # 0
      BY <1>1, <2>3
    <3>2. ~HasText(emitted[taken + 1])
      BY <2>3 DEF HasText
    <3> QED BY <3>1, <3>2 DEF PromptInv
  <2> QED BY <1>3, <2>2, <2>3, TakesNoText
<1> QED BY <1>2, <1>3

----------------------------------------------------------------------------
(* What every call keeps to.                                                *)

\* Type correctness: the variables of the controller, of its handler and of
\* the call keep their types.
THEOREM TypeCorrect == Spec => []TypeOK
<1>1. IInv => TypeOK
  BY DEF IInv, ControllerInv, HandlerInv, CallInv, HANDLER_STATES, StateDict, TypeOK
<1> QED BY <1>1, Invariance, PTL

\* The event log replays the call: from the entry node along edges of the
\* flow to the current node, whichever task logged which entry.
THEOREM LogReplays == Spec => []LogReplaysCall
<1>1. IInv => LogReplaysCall
  BY DEF IInv, ControllerInv
<1> QED BY <1>1, Invariance, PTL

\* Frames and log agree: one frame for each node entered after the entry node,
\* in that order (_emit_transition and _log_event).
THEOREM FramesAreTheLogs == Spec => []FramesMatchLog
<1>1. IInv => FramesMatchLog
  BY DEF IInv, ControllerInv
<1> QED BY <1>1, Invariance, PTL

\* With every frame acted on the LLM has the current node's text, if that node
\* has one, in every flow (_flow_transition_handler, create_pipeline_task).
THEOREM PromptIsCurrent == Spec => []PromptOfCurrentNode
<1>1. Init => PromptInv
  BY DEF Init, PromptInv
<1>2. IInv /\ PromptInv => PromptOfCurrentNode
  <2> SUFFICES ASSUME IInv, PromptInv, Queue = <<>>, HasText(get_node(flow_def, current)),
                      emitted = <<>> => get_node(flow_def, current).type = "conversation"
               PROVE  prompt = current
    BY DEF PromptOfCurrentNode
  <2>1. current \in NodeIds(flow_def) /\ get_node(flow_def, current).id = current
    BY FlowFacts, GetNode DEF IInv, ControllerInv
  <2>2. taken = Len(emitted) /\ Len(emitted) \in Nat
    <3>1. Len(emitted) \in Nat /\ taken \in 0..Len(emitted) /\ emitted \in Seq(NodesOf(flow_def))
      BY DEF IInv, ControllerInv, HandlerInv
    <3>2. Len(Queue) = Len(emitted) - taken
      BY <3>1 DEF Queue
    <3>3. Len(Queue) = 0
      OBVIOUS
    <3> QED BY <3>1, <3>2, <3>3
  <2>3. CASE emitted = <<>>
    <3>1. taken = 0 /\ current = Entry /\ prompt = InitialPrompt
      BY <2>2, <2>3 DEF IInv, ControllerInv, PromptInv
    <3>2. get_node(flow_def, current) = get_entry_node(flow_def)
      BY <3>1, FlowFacts, EntryIsFound DEF Entry
    <3> QED BY <3>1, <3>2, <2>3 DEF HasText, InitialPrompt
  <2>4. CASE emitted # <<>>
    <3>1. emitted[taken] = get_node(flow_def, current) /\ taken > 0
      BY <2>2, <2>4 DEF IInv, ControllerInv, LastIs
    <3> QED BY <2>1, <3>1 DEF PromptInv
  <2> QED BY <2>3, <2>4
<1> QED BY <1>1, <1>2, PromptStep, Invariance, PTL DEF Spec

\* At most one end or transfer frame is ever emitted, behind all others; the
\* controller is finished exactly when it has been, and the handler stops the
\* pipeline or redirects the call for it alone.
THEOREM FlowEndsOnce == Spec => []EndIsOrderly
<1>1. IInv => EndIsOrderly
  BY DEF IInv, ControllerInv, HandlerInv, EndIsOrderly
<1> QED BY <1>1, Invariance, PTL

\* Nothing that arrives after the end of the flow moves it, writes its state
\* or reaches its log.
THEOREM EndIsFinal == Spec => NothingAfterTheEnd
<1>1. IInv /\ [Next]_vars => [finished => UNCHANGED controllerVars]_vars
  BY NextInv DEF Grows
<1> QED BY <1>1, Invariance, PTL DEF Spec, NothingAfterTheEnd

\* The controller, its handler and the pipeline together implement the walk
\* of FlowWalk: every step is a stutter or follows one edge out of the node
\* the call is at, and none follows an end or transfer node.
THEOREM ImplementsWalk == Spec => WalksTheFlow
<1>1. Init => Walk!Init
  BY SameNodes DEF Init, Walk!Init, Entry
<1>2. IInv /\ [Next]_vars => WalkStep
  BY NextInv
<1> QED BY <1>1, <1>2, Invariance, PTL DEF Spec, WalksTheFlow, Walk!Spec, WalkStep
=============================================================================
