------------------------------ MODULE CallFlow ------------------------------
(***************************************************************************)
(* One call that runs a flow: the FlowController                            *)
(* (agent/flow_controller.py), the FlowWatcherProcessor that feeds it from  *)
(* the pipeline, and the transition handler of agent/server.py that acts on *)
(* the frames the controller queues, up to the end of the pipeline and the  *)
(* status the execution is finalized with.                                  *)
(*                                                                          *)
(* All of it runs on one asyncio loop, so code between two suspending       *)
(* awaits is one step.  _process_event suspends nowhere (the transition     *)
(* queue is unbounded); the handler suspends waiting for a frame, for the   *)
(* webhook's reply and for Asterisk's answer to a redirect.                 *)
(***************************************************************************)
EXTENDS FlowEngine, FiniteSets

CONSTANTS
  flow_def,    \* the validated flow definition the call runs
  Texts,       \* what the caller may say: nonempty sets of keywords
  Digits,      \* the keys the caller may press
  Replies,     \* the JSON a webhook may answer with
  Stages,      \* the pipeline's stages, upstream first
  MaxEvents,   \* bound: the caller acts while the log is shorter than this
  MaxRuns      \* bound: the caller speaks while fewer LLM runs are pending

ASSUME FlowAssumption == lists(flow_def) /\ validate_flow(flow_def)

VARIABLES
  current,     \* FlowController._current_node_id
  state,       \* FlowController._state
  finished,    \* FlowController._finished
  events,      \* FlowController._events
  emitted,     \* every frame put on transition_queue, oldest first
  taken,       \* how many of them the handler has taken off it
  handler,     \* where _flow_transition_handler is
  prompt,      \* the node whose text is the LLM's system message
  llm_runs,    \* LLM responses requested and not yet completed
  redirected,  \* Asterisk accepted a redirect
  hungup,      \* the caller's side closed the connection
  cancelled,   \* task.cancel() was called by the handler
  runner,      \* runner_task
  status       \* the status finalize posts, "none" before

controllerVars == <<current, state, finished, events, emitted>>
handlerVars    == <<taken, handler, prompt, redirected, cancelled>>
callVars       == <<hungup, runner, status>>
vars == <<controllerVars, handlerVars, llm_runs, callVars>>

AgentPrompt == "agent"

Entry == get_entry_node(flow_def).id

\* The node whose system prompt create_pipeline_task starts the LLM with.
InitialPrompt ==
  IF Get(get_entry_node(flow_def).config, "system_prompt", "") # "" THEN Entry ELSE AgentPrompt

\* _log_event: the edge is NoEdge except for edge_taken, and data keeps the
\* type of a received event.
Record(event_type, node_id, edge_id, data) ==
  [event_type |-> event_type, node_id |-> node_id, edge_id |-> edge_id, data |-> data]

\* Variant with a bug: the edge is logged after the move to its target.
EdgeTaken_late(node_id, edge) == Record("edge_taken", flow_def.edges[edge].target, edge, "")

NodeEntered(node_id)       == Record("node_entered", node_id, NoEdge, "")
EdgeTaken(node_id, edge)   == Record("edge_taken", node_id, edge, "")
Received(node_id, event)   == Record("event_received", node_id, NoEdge, event.type)

Init ==
  /\ current = Entry
  /\ state = EmptyState
  /\ finished = FALSE
  /\ events = <<NodeEntered(Entry)>>
  /\ emitted = <<>>
  /\ taken = 0
  /\ handler = "waiting"
  /\ prompt = InitialPrompt
  /\ llm_runs = 1           \* on_client_connected queues the greeting
  /\ redirected = FALSE
  /\ hungup = FALSE
  /\ cancelled = FALSE
  /\ runner = "running"
  /\ status = "none"

----------------------------------------------------------------------------
(* FlowController                                                           *)

\* Variant with a bug: only an end frame finishes the controller.
emit_transition_end_only(node) ==
  /\ emitted' = IF node = NoNode THEN emitted ELSE Append(emitted, node)
  /\ finished' = (node.type = "end")

\* Variant with a bug: a node whose config is empty (falsy) gets no frame.
emit_transition_configured(node) ==
  /\ emitted' = IF node.config = EmptyDict THEN emitted ELSE Append(emitted, node)
  /\ finished' = (node.type \in TERMINAL_TYPES)

\* An end or transfer frame finishes the controller.
emit_transition(node) ==
  /\ emitted' = IF node = NoNode THEN emitted ELSE Append(emitted, node)
  /\ finished' = (node.type \in TERMINAL_TYPES)

\* _process_event on top of the log so far.  An evaluation that raises leaves
\* only the event's log entry behind.
process_event(log, event) ==
  \E new \in {update_state(state, event)} :
  \E edge \in {find_matching_edge(flow_def, current, event, new)} :
    \/ /\ raises_at(flow_def, edge, new)
       /\ events' = Append(log, Received(current, event))
       /\ UNCHANGED <<current, state, finished, emitted>>
    \/ /\ edge = NoEdge
       /\ events' = Append(log, Received(current, event))
       /\ state' = new
       /\ UNCHANGED <<current, finished, emitted>>
    \/ /\ edge # NoEdge
       /\ ~raises_at(flow_def, edge, new)
       /\ events' = log \o <<Received(current, event),
                             EdgeTaken(current, edge),
                             NodeEntered(flow_def.edges[edge].target)>>
       /\ current' = flow_def.edges[edge].target
       /\ state' = new
       /\ emit_transition(get_node(flow_def, current'))

\* Variant with a bug: the check of _finished is missing.
notify_unguarded(event) == process_event(events, event)

\* The on_* handlers: nothing is processed once the flow has finished.
notify(event) ==
  IF finished THEN UNCHANGED controllerVars ELSE process_event(events, event)

\* The webhook branch of the handler calls on_webhook_result inside its try,
\* so an evaluation that raises is followed by a second call with the error.
WebhookResult(result) == [type |-> "webhook_result", result |-> result]
ErrorResult == [error |-> "error"]

raises(event) ==
  /\ ~finished
  /\ \E new \in {update_state(state, event)} :
     \E edge \in {find_matching_edge(flow_def, current, event, new)} :
       raises_at(flow_def, edge, new)

on_webhook_result(result) ==
  IF raises(WebhookResult(result))
  THEN process_event(Append(events, Received(current, WebhookResult(result))),
                     WebhookResult(ErrorResult))
  ELSE notify(WebhookResult(result))

instant_event(node) ==
  IF node.type = "set_variable"
  THEN [type  |-> "set_variable",
        var   |-> Get(node.config, "variable", ""),
        value |-> str(Get(node.config, "value", ""))]
  ELSE [type |-> "condition_evaluate"]

----------------------------------------------------------------------------
(* The pipeline and the FlowWatcherProcessor                                *)

\* A stage sees the frames pushed downstream by the stages before it.
Reaches(from, to) ==
  \E i, j \in DOMAIN Stages : Stages[i] = from /\ Stages[j] = to /\ i < j

\* Speech and keys already in the pipeline are still seen after a hangup.
CallerActive ==
  /\ runner = "running"
  /\ Len(events) < MaxEvents

\* A TranscriptionFrame from the STT stage; the user's turn then asks the LLM
\* for a response.
Transcription(text) ==
  /\ CallerActive
  /\ llm_runs < MaxRuns
  /\ IF Reaches("stt", "flow_watcher")
     THEN notify([type |-> "transcription", text |-> text])
     ELSE UNCHANGED controllerVars
  /\ llm_runs' = llm_runs + 1
  /\ UNCHANGED <<handlerVars, callVars>>

\* A DTMFInputFrame from the input transport.
Dtmf(digit) ==
  /\ CallerActive
  /\ IF Reaches("input", "flow_watcher")
     THEN notify([type |-> "dtmf", digit |-> digit])
     ELSE UNCHANGED controllerVars
  /\ UNCHANGED <<handlerVars, llm_runs, callVars>>

\* The LLM stage pushes LLMFullResponseEndFrame downstream.
LLMResponseEnds ==
  /\ runner = "running"
  /\ llm_runs > 0
  /\ llm_runs' = llm_runs - 1
  /\ IF Reaches("llm", "flow_watcher")
     THEN notify([type |-> "turn_end"])
     ELSE UNCHANGED controllerVars
  /\ UNCHANGED <<handlerVars, callVars>>

----------------------------------------------------------------------------
(* _flow_transition_handler                                                 *)

HandlerLive == handler \in {"waiting", "posting", "redirecting"}

Queue == SubSeq(emitted, taken + 1, Len(emitted))

\* Variant with a bug: the handler acts on one frame only.
NextIteration_once == "done"

\* Back at the top of the loop: it ends once the pipeline has.
NextIteration == IF runner = "running" THEN "waiting" ELSE "done"

\* Variant with a bug: the type is looked up at the newest frame.
Take_newest(types) ==
  /\ handler = "waiting"
  /\ taken < Len(emitted)
  /\ emitted[Len(emitted)].type \in types
  /\ taken' = taken + 1

\* wait_for(transition_queue.get()) returns the oldest frame of the type.
Take(types) ==
  /\ handler = "waiting"
  /\ taken < Len(emitted)
  /\ emitted[taken + 1].type \in types
  /\ taken' = taken + 1

HandleEnd ==
  /\ Take({"end"})
  /\ cancelled' = TRUE
  /\ handler' = "done"
  /\ UNCHANGED <<controllerVars, prompt, redirected, llm_runs, callVars>>

HandleTransfer ==
  /\ Take({"transfer"})
  /\ handler' = "redirecting"
  /\ UNCHANGED <<controllerVars, prompt, redirected, cancelled, llm_runs, callVars>>

\* Variant with a bug: the pipeline is only stopped when the redirect worked.
RedirectAnswered_if_accepted(accepted) ==
  /\ handler = "redirecting"
  /\ redirected' = accepted
  /\ cancelled' = accepted
  /\ handler' = "done"
  /\ UNCHANGED <<controllerVars, taken, prompt, llm_runs, callVars>>

\* ami_redirect returned or raised; both end in task.cancel().  Without an
\* AMI secret, with a login refused or an answer other than Success, no
\* redirect happens.
RedirectAnswered(accepted) ==
  /\ handler = "redirecting"
  /\ redirected' = accepted
  /\ cancelled' = TRUE
  /\ handler' = "done"
  /\ UNCHANGED <<controllerVars, taken, prompt, llm_runs, callVars>>

\* Variant with a bug: the system message is only replaced along with a greeting.
HandleSpoken_with_greeting ==
  /\ Take({"say", "conversation"})
  /\ LET node   == emitted[taken + 1]
         spoken == IF node.type = "say" THEN "message" ELSE "greeting"
         speaks == Get(node.config, spoken, "") # ""
     IN  /\ prompt' = IF speaks THEN node.id ELSE prompt
         /\ llm_runs' = IF speaks THEN llm_runs + 1 ELSE llm_runs
  /\ handler' = NextIteration
  /\ UNCHANGED <<controllerVars, redirected, cancelled, callVars>>

\* A say node with a message, or a conversation node: a text replaces the
\* system message, and what is to be spoken is queued as an LLM run.
HandleSpoken ==
  /\ Take({"say", "conversation"})
  /\ LET node   == emitted[taken + 1]
         text   == IF node.type = "say" THEN "message" ELSE "system_prompt"
         spoken == IF node.type = "say" THEN "message" ELSE "greeting"
     IN  /\ prompt' = IF Get(node.config, text, "") # "" THEN node.id ELSE prompt
         /\ llm_runs' = IF Get(node.config, spoken, "") # "" THEN llm_runs + 1 ELSE llm_runs
  /\ handler' = NextIteration
  /\ UNCHANGED <<controllerVars, redirected, cancelled, callVars>>

\* A webhook node: the POST starts, or nothing happens without a url.
HandleWebhook ==
  /\ Take({"webhook"})
  /\ handler' = IF Get(emitted[taken + 1].config, "url", "") # "" THEN "posting"
                ELSE NextIteration
  /\ UNCHANGED <<controllerVars, prompt, redirected, cancelled, llm_runs, callVars>>

\* The reply, or the error that stands for a refused, timed-out or non-JSON
\* one, goes to the controller whatever node the call is at by now.
WebhookAnswered(result) ==
  /\ handler = "posting"
  /\ on_webhook_result(result)
  /\ handler' = IF raises(WebhookResult(result)) /\ raises(WebhookResult(ErrorResult)) THEN "failed" ELSE NextIteration
  /\ UNCHANGED <<taken, prompt, redirected, cancelled, llm_runs, callVars>>

\* execute_instant_node, outside any try: a raise ends the handler task.
HandleInstant ==
  /\ Take({"set_variable", "condition"})
  /\ \E event \in {instant_event(emitted[taken + 1])} :
       /\ notify(event)
       /\ handler' = IF raises(event) THEN "failed" ELSE NextIteration
  /\ UNCHANGED <<prompt, redirected, cancelled, llm_runs, callVars>>

\* A gather_dtmf node: the handler only logs.
HandleGather ==
  /\ Take({"gather_dtmf"})
  /\ handler' = NextIteration
  /\ UNCHANGED <<controllerVars, prompt, redirected, cancelled, llm_runs, callVars>>

\* The 0.5 s poll runs out after the pipeline has ended.
HandlerNoticesEnd ==
  /\ handler = "waiting"
  /\ Queue = <<>>
  /\ runner # "running"
  /\ handler' = "done"
  /\ UNCHANGED <<controllerVars, taken, prompt, redirected, cancelled, llm_runs, callVars>>

----------------------------------------------------------------------------
(* The end of the call                                                      *)

CallerHangsUp ==
  /\ runner = "running"
  /\ ~hungup
  /\ hungup' = TRUE
  /\ UNCHANGED <<controllerVars, handlerVars, llm_runs, runner, status>>

\* runner_task returns after a cancel or a hangup, or raises.
RunnerEnds ==
  /\ runner = "running"
  /\ \/ /\ cancelled \/ hungup
        /\ runner' = "done"
     \/ runner' = "error"
  /\ UNCHANGED <<controllerVars, handlerVars, llm_runs, hungup, status>>

\* handle_call's finally: the handler task is cancelled where it is.
CancelHandler ==
  /\ runner # "running"
  /\ HandlerLive
  /\ handler' = "cancelled"
  /\ UNCHANGED <<controllerVars, taken, prompt, redirected, cancelled, llm_runs, callVars>>

\* Variant with a bug: only the terminal nodes set a status.
flow_status_running ==
  CASE get_node(flow_def, current).type = "end"      -> "completed"
    [] get_node(flow_def, current).type = "transfer" -> "transferred"
    [] OTHER -> "running"

flow_status ==
  LET type == get_node(flow_def, current).type
  IN  CASE type = "end"      -> "completed"
        [] type = "transfer" -> "transferred"
        [] OTHER -> IF runner = "done" THEN "transferred" ELSE "error"

\* After call_log.send(): finalize posts the status with the node, the state
\* and the event log.
Finalize ==
  /\ runner # "running"
  /\ ~HandlerLive
  /\ status = "none"
  /\ status' = flow_status
  /\ UNCHANGED <<controllerVars, handlerVars, llm_runs, hungup, runner>>

----------------------------------------------------------------------------
Controller ==
  \/ \E text \in Texts : Transcription(text)
  \/ \E digit \in Digits : Dtmf(digit)
  \/ LLMResponseEnds

Handler ==
  \/ HandleEnd
  \/ HandleTransfer
  \/ \E accepted \in BOOLEAN : RedirectAnswered(accepted)
  \/ HandleSpoken
  \/ HandleWebhook
  \/ \E result \in Replies \cup {ErrorResult} : WebhookAnswered(result)
  \/ HandleInstant
  \/ HandleGather
  \/ HandlerNoticesEnd

Teardown == CallerHangsUp \/ RunnerEnds \/ CancelHandler \/ Finalize

\* The call is over: the execution has been finalized.
Over ==
  /\ status # "none"
  /\ UNCHANGED vars

Next == Controller \/ Handler \/ Teardown \/ Over

Spec == Init /\ [][Next]_vars

\* The event loop keeps running the handler task, the POST and the redirect
\* are bounded by their timeouts, a pipeline told to stop stops, and
\* handle_call then runs its finally block.
Fairness ==
  /\ WF_vars(Handler)
  /\ WF_vars(LLMResponseEnds)
  /\ WF_vars((cancelled \/ hungup) /\ RunnerEnds)
  /\ WF_vars(CancelHandler)
  /\ WF_vars(Finalize)

FairSpec == Spec /\ Fairness

----------------------------------------------------------------------------
(* Properties                                                               *)

EVENT_TYPES == {"transcription", "dtmf", "turn_end", "webhook_result",
                "set_variable", "condition_evaluate"}

LogRecord == [event_type : {"node_entered", "event_received", "edge_taken"},
              node_id    : NodeIds(flow_def),
              edge_id    : DOMAIN flow_def.edges \cup {NoEdge},
              data       : EVENT_TYPES \cup {""}]

\* Every variable has its type; the state dict keeps its built-in keys.
TypeOK ==
  /\ current \in NodeIds(flow_def)
  /\ DOMAIN state = DOMAIN EmptyState
  /\ state.turn_count \in Nat
  /\ finished \in BOOLEAN
  /\ events \in Seq(LogRecord)
  /\ emitted \in Seq(NodesOf(flow_def))
  /\ taken \in 0..Len(emitted)
  /\ handler \in {"waiting", "posting", "redirecting", "done", "failed", "cancelled"}
  /\ prompt \in NodeIds(flow_def) \cup {AgentPrompt}
  /\ llm_runs \in Nat
  /\ {redirected, hungup, cancelled} \subseteq BOOLEAN
  /\ runner \in {"running", "done", "error"}
  /\ status \in {"none", "completed", "transferred", "error"}

\* A log entry continues the one before it.
Continues(prev, this) ==
  \/ /\ this.event_type = "event_received"
     /\ this.node_id = prev.node_id
     /\ prev.event_type # "edge_taken"
  \/ /\ this.event_type = "edge_taken"
     /\ this.node_id = prev.node_id
     /\ prev.event_type = "event_received"
     /\ this.edge_id \in get_edges_from(flow_def, this.node_id)
  \/ /\ this.event_type = "node_entered"
     /\ prev.event_type = "edge_taken"
     /\ this.node_id = flow_def.edges[prev.edge_id].target

Replays(log, node_id) ==
  /\ Len(log) > 0
  /\ log[1] = NodeEntered(Entry)
  /\ \A i \in 2..Len(log) : Continues(log[i - 1], log[i])
  /\ log[Len(log)].event_type # "edge_taken"
  /\ log[Len(log)].node_id = node_id

\* The event log that finalize posts replays the call: from the entry node,
\* each edge taken leaves the node the call was at, answers the event received
\* just before and leads to the node entered just after, up to the current
\* node (_process_event and _log_event, whichever task they were called from).
LogReplaysCall == Replays(events, current)

\* Where a log shows nodes entered after the entry node.
Moves(log) == {k \in 2..Len(log) : log[k].event_type = "node_entered"}

OneFramePerMove(log, frames) ==
  /\ Len(frames) = Cardinality(Moves(log))
  /\ \A k \in Moves(log) : frames[Cardinality(Moves(log) \cap 1..k)].id = log[k].node_id

\* The frames handed to the handler are exactly the nodes the log shows the
\* call entering after its entry node, in that order (_emit_transition).
FramesMatchLog == OneFramePerMove(events, emitted)

\* An end or transfer frame is the last one ever emitted, and the controller
\* is finished exactly when it has emitted one: no event slips in behind it
\* and no call is left with a second terminal frame to act on.
TerminalFrameIsLast ==
  /\ finished <=> emitted # <<>> /\ emitted[Len(emitted)].type \in TERMINAL_TYPES
  /\ \A i \in DOMAIN emitted : emitted[i].type \in TERMINAL_TYPES => i = Len(emitted)

\* The handler stops the pipeline only for the node the flow finished at, with
\* every earlier frame acted on, and a redirect is only accepted for a
\* transfer node.
CancelledAtTheEnd ==
  /\ cancelled => finished /\ taken = Len(emitted) /\ handler = "done"
  /\ redirected => cancelled /\ get_node(flow_def, current).type = "transfer"

\* A flow ends once: one terminal frame, the last, and the pipeline stopped or
\* Asterisk redirected for it alone, whichever of the tasks comes first.
EndIsOrderly == TerminalFrameIsLast /\ CancelledAtTheEnd

\* A node's text replaces the LLM's system message.
HasText(node) ==
  \/ node.type = "say" /\ Get(node.config, "message", "") # ""
  \/ node.type = "conversation" /\ Get(node.config, "system_prompt", "") # ""

\* With every frame acted on, the LLM's system message is the one of the node
\* the call is at, if that node brings one; the handler never sees the entry
\* node, of which only a system prompt is looked at when the pipeline is made.
PromptOfCurrentNode ==
  LET node == get_node(flow_def, current)
  IN  Queue = <<>> /\ HasText(node) /\ (emitted = <<>> => node.type = "conversation")
        => prompt = current

\* Once the flow has finished, nothing the pipeline or the handler reports
\* moves it, writes its state or reaches its log any more.
NothingAfterTheEnd == [][finished => UNCHANGED controllerVars]_vars

\* A call whose flow has reached an end or transfer node is torn down and its
\* execution finalized with the status of that node.
FinishedIsFinalized ==
  finished ~> status = (IF get_node(flow_def, current).type = "end"
                        THEN "completed" ELSE "transferred")

\* Every transition that fires is acted on, unless the call ends first.
FramesAreHandled == Queue # <<>> ~> Queue = <<>> \/ runner # "running"

\* The implementation relation: the controller walks the flow.
Walk == INSTANCE FlowWalk WITH at <- current, over <- finished

WalksTheFlow == Walk!Spec
=============================================================================
