----------------------------- MODULE CallRecords -----------------------------
(***************************************************************************)
(* What is stored of one call, and who writes it: the originate handler     *)
(* (config-api/routers/outbound.py) with its AMI connection, the dialplan's *)
(* pre-registration (internal.py), the agent's record and its flow          *)
(* execution (call_logger.py, flow_controller.py, pipeline.py) and the      *)
(* handlers that store them (calls.py, flows.py, internal.py).  Calls share *)
(* nothing but the flows, so one call is modelled, outbound or inbound.     *)
(*                                                                          *)
(* A handler's step ends where it awaits Postgres, Redis or the network.    *)
(* Every POST is sent once; it may be lost, or be handled after its sender  *)
(* gave up waiting.  config-api may restart, and loses what it was doing.   *)
(***************************************************************************)
EXTENDS AmiClient

CONSTANTS
  Flows,         \* flow definitions
  NoFlow,        \* none of them
  Calls,         \* the calls looked at: who places them and what they ask for
  RedisMayFail,  \* whether a Redis command may fail
  MaxRestarts    \* bound: restarts of config-api

\* outbound: placed through the API, with flow_id and callback_url or not;
\* agent_flow: the flow the agent's configuration names; transfers: the flows
\* have a transfer node; routed: a phone route leads to the agent.
CallInputs == [outbound : BOOLEAN, flow_id : Flows \cup {NoFlow}, callback : BOOLEAN,
               agent_flow : Flows \cup {NoFlow}, transfers : BOOLEAN, routed : BOOLEAN]

ASSUME RecordsAssumption ==
  /\ NoFlow \notin Flows
  /\ Calls \subseteq CallInputs
  /\ RedisMayFail \in BOOLEAN
  /\ MaxRestarts \in Nat
  /\ {"originate", "redirect"} \subseteq Connections
  /\ "originate" \in Strict

VARIABLES
  call,       \* the call
  row,        \* its row of call_logs
  exec,       \* its row of flow_executions, with its number of batches of flow_events
  redis,      \* the keys flow:exec and call:meta
  req,        \* where the originate handler is, or what it answered
  agent,      \* where the agent's coroutine is, and the flow it runs
  posts,      \* where each POST to config-api is
  callbacks,  \* CDR callbacks fired
  restarts

vars == <<ami, call, row, exec, redis, req, agent, posts, callbacks, restarts>>

NoRow  == [direction |-> "none"]
NoExec == [status |-> "none"]

\* call_logs: the columns that tell the writers apart.  recorded stands for the
\* times, the transcript and the providers, which only the agent's record has.
Row(direction, caller, did, end_reason) ==
  [direction |-> direction, caller |-> caller, did |-> did,
   end_reason |-> end_reason, recorded |-> FALSE]

Init ==
  /\ AmiInit
  /\ call \in Calls
  /\ row = NoRow /\ exec = NoExec
  /\ redis = [exec |-> NoFlow, meta |-> FALSE]
  /\ req = "idle"
  /\ agent = [pc |-> "none", flow |-> NoFlow]
  /\ posts = [p \in {"pre", "init", "log", "complete"} |->
                IF p = "pre" /\ ~call.outbound THEN "sent" ELSE "none"]
  /\ callbacks = 0 /\ restarts = 0

\* A Redis command fails, or does what it is for.
Fails == IF RedisMayFail THEN BOOLEAN ELSE {FALSE}

----------------------------------------------------------------------------
(* originate_call                                                           *)

otherVars   == <<call, agent, posts, callbacks, restarts>>

\* The agent is looked up and the row inserted before anything else.
OriginateCall ==
  /\ req = "idle" /\ call.outbound
  /\ \/ /\ req' = "rejected"
        /\ UNCHANGED row
     \/ /\ row' = Row("outbound", "known", "", "pending")
        /\ req' = IF call.flow_id = NoFlow THEN "meta" ELSE "flow"
  /\ UNCHANGED <<ami, exec, redis, otherVars>>

\* get_flow: a flow deactivated meanwhile is a 404, a database error is survived.
FindFlow ==
  /\ req = "flow"
  /\ req' \in {"create", "not_found", "meta"}
  /\ UNCHANGED <<ami, row, exec, redis, otherVars>>

NewExecution(flow) == [flow |-> flow, status |-> "running", events |-> 0]

\* db.create_flow_execution: call_uuid is unique.
create_flow_execution(flow) ==
  /\ exec = NoExec
  /\ exec' = NewExecution(flow)

\* Variant with a bug: the snapshot is cached although the insert failed.
CreateExecution_unchecked ==
  /\ req = "create"
  /\ \/ create_flow_execution(call.flow_id) \/ UNCHANGED exec
  /\ req' = "cache"
  /\ UNCHANGED <<ami, row, redis, otherVars>>

CreateExecution ==
  /\ req = "create"
  /\ \/ create_flow_execution(call.flow_id) /\ req' = "cache"
     \/ UNCHANGED exec /\ req' = "meta"
  /\ UNCHANGED <<ami, row, redis, otherVars>>

\* push_flow_execution, best effort.
CacheExecution ==
  /\ req = "cache"
  /\ req' = "meta"
  /\ \E fails \in Fails : redis' = IF fails THEN redis ELSE [redis EXCEPT !.exec = call.flow_id]
  /\ UNCHANGED <<ami, row, exec, otherVars>>

\* push_call_meta, best effort.
StoreMeta ==
  /\ req = "meta"
  /\ req' = "agent"
  /\ \E fails \in Fails :
       redis' = IF fails \/ ~call.callback THEN redis ELSE [redis EXCEPT !.meta = TRUE]
  /\ UNCHANGED <<ami, row, exec, otherVars>>

\* ensure_agent_running, and the connection to the AMI.
StartAgent ==
  /\ req = "agent"
  /\ \/ req' = "mark_start" /\ UNCHANGED ami
     \/ /\ req' = "ami"
        /\ ami' \in {[ami EXCEPT !["originate"] = conn] :
                       conn \in {Open("originate"), ConnectFails("originate")}}
  /\ UNCHANGED <<row, exec, redis, otherVars>>

AmiSettles ==
  /\ req = "ami" /\ ami["originate"].pc \in Settled
  /\ req' = IF ami["originate"].pc = "done" THEN "accepted" ELSE "mark_ami"
  /\ UNCHANGED <<ami, row, exec, redis, otherVars>>

\* UPDATE call_logs SET end_reason: whatever the row says by now.
MarkFailed ==
  /\ \/ /\ req = "mark_start" /\ req' = "start_failed"
        /\ row' = [row EXCEPT !.end_reason = "agent_start_failed"]
     \/ /\ req = "mark_ami" /\ req' = "ami_failed"
        /\ row' = [row EXCEPT !.end_reason = "originate_failed"]
  /\ UNCHANGED <<ami, exec, redis, otherVars>>

Originate ==
  \/ OriginateCall \/ FindFlow \/ CreateExecution \/ CacheExecution
  \/ StoreMeta \/ StartAgent \/ AmiSettles \/ MarkFailed

----------------------------------------------------------------------------
(* The agent's side of the call                                             *)

Goes(pc)   == agent' = [agent EXCEPT !.pc = pc]
Sent(p)    == posts' = [posts EXCEPT ![p] = "sent"]
agentRest  == <<call, row, exec, redis, req, callbacks, restarts>>

\* The dialplan leads the call to the agent's AudioSocket: an inbound call, or
\* an outbound one that Asterisk has placed and the callee has answered.
CallConnects ==
  /\ agent.pc = "none"
  /\ call.outbound => ami["originate"].executed
  /\ Goes("loading")
  /\ UNCHANGED <<ami, posts, agentRest>>

\* Nobody answers, or the agent cannot load its configuration: nothing is
\* recorded by the agent.
NoConversation ==
  /\ \/ agent.pc = "none" /\ call.outbound /\ ami["originate"].executed
     \/ agent.pc = "loading"
  /\ Goes("never")
  /\ UNCHANGED <<ami, posts, agentRest>>

\* _load_flow_execution: on a miss the agent's own flow is initialised.
LoadFlow ==
  /\ agent.pc = "loading"
  /\ \E fails \in Fails :
       IF ~fails /\ redis.exec # NoFlow
       THEN agent' = [pc |-> "running", flow |-> redis.exec] /\ UNCHANGED posts
       ELSE IF call.agent_flow = NoFlow THEN Goes("running") /\ UNCHANGED posts
       ELSE Goes("init") /\ Sent("init")
  /\ UNCHANGED <<ami, agentRest>>

\* _init_flow_execution: without an answer in 5 s the call goes on without a
\* flow.
FlowInitialised ==
  /\ agent.pc = "init"
  /\ agent' \in {[pc |-> "running", flow |-> flow] :
                   flow \in {NoFlow} \cup (IF posts["init"] = "handled" THEN {call.agent_flow}
                                           ELSE {})}
  /\ UNCHANGED <<ami, posts, agentRest>>

\* A transfer node: the handler waits for ami_redirect, which does nothing
\* without a secret.
Transfer ==
  /\ agent.pc = "running" /\ agent.flow # NoFlow /\ call.transfers
  /\ Goes("transferring")
  /\ ami' \in {[ami EXCEPT !["redirect"] = conn] :
                 conn \in {ami["redirect"], Open("redirect"), ConnectFails("redirect")}}
  /\ UNCHANGED <<posts, agentRest>>

\* The pipeline ends: a hangup, an end node, an error, or the transfer has been
\* asked for.  A redirect still waiting is cancelled.  CallLogger.send.
CallEnds ==
  /\ agent.pc \in {"running", "transferring"}
  /\ Goes("sending") /\ Sent("log")
  /\ ami' = IF ami["redirect"].pc \notin {"idle"} \cup Settled
            THEN [ami EXCEPT !["redirect"] = Closed("redirect", "failed")] ELSE ami
  /\ UNCHANGED agentRest

\* send has its answer or has given up (5 s); FlowController.finalize.
RecordSent ==
  /\ agent.pc = "sending"
  /\ IF agent.flow = NoFlow THEN Goes("over") /\ UNCHANGED posts
                            ELSE Goes("finalizing") /\ Sent("complete")
  /\ UNCHANGED <<ami, agentRest>>

Finalized ==
  /\ agent.pc = "finalizing"
  /\ Goes("over")
  /\ UNCHANGED <<ami, posts, agentRest>>

Agent ==
  \/ CallConnects \/ NoConversation \/ LoadFlow \/ FlowInitialised
  \/ Transfer \/ CallEnds \/ RecordSent \/ Finalized

----------------------------------------------------------------------------
(* The handlers of the POSTs                                                *)

Handle(p, from, to) == posts[p] = from /\ posts' = [posts EXCEPT ![p] = to]
handlerRest == <<ami, call, req, agent, restarts>>

Known(new, old) == IF new = "" THEN old ELSE new

\* calls.py and internal.py have the same upsert: COALESCE on both columns.
pre_register_call(caller, did) ==
  IF row = NoRow THEN Row("inbound", caller, did, "")
  ELSE [row EXCEPT !.caller = Known(caller, @), !.did = Known(did, @)]

\* The caller's number may be withheld.
PreRegister ==
  /\ Handle("pre", "sent", "handled")
  /\ \E caller \in {"", "known"} : row' = pre_register_call(caller, "dialed")
  /\ UNCHANGED <<exec, redis, callbacks, handlerRest>>

\* Variants with a bug: a column the agent does not send is overwritten; the
\* direction is set with the rest.
receive_call_log_null(did) ==
  LET old == IF row = NoRow THEN Row("inbound", "", "", "") ELSE row
  IN  [old EXCEPT !.caller = "", !.did = Known(did, @),
                  !.end_reason = "agent", !.recorded = TRUE]

receive_call_log_direction(did) ==
  LET old == IF row = NoRow THEN Row("inbound", "", "", "") ELSE row
  IN  [old EXCEPT !.direction = "inbound", !.did = Known(did, @),
                  !.end_reason = "agent", !.recorded = TRUE]

\* The agent sends no caller_id; did is the first number routed to it; the
\* direction of a new row is the column's default.
receive_call_log(did) ==
  LET old == IF row = NoRow THEN Row("inbound", "", "", "") ELSE row
  IN  [old EXCEPT !.did = Known(did, @), !.end_reason = "agent", !.recorded = TRUE]

StoreRecord ==
  /\ Handle("log", "sent", "stored")
  /\ row' = receive_call_log(IF call.routed THEN "routed" ELSE "")
  /\ UNCHANGED <<exec, redis, callbacks, handlerRest>>

\* get_call_meta, and the CDR callback if it names one.
FireCallback ==
  /\ Handle("log", "stored", "handled")
  /\ \E fails \in Fails :
       callbacks' = IF redis.meta /\ ~fails THEN callbacks + 1 ELSE callbacks
  /\ UNCHANGED <<row, exec, redis, handlerRest>>

\* init_flow_execution: the flow, the execution's row, the snapshot in Redis.
InitFindFlow ==
  /\ Handle("init", "sent", "found") \/ Handle("init", "sent", "refused")
  /\ UNCHANGED <<row, exec, redis, callbacks, handlerRest>>

InitCreate ==
  /\ \/ Handle("init", "found", "created") /\ create_flow_execution(call.agent_flow)
     \/ Handle("init", "found", "refused") /\ UNCHANGED exec
  /\ UNCHANGED <<row, redis, callbacks, handlerRest>>

InitCache ==
  /\ Handle("init", "created", "handled")
  /\ \E fails \in Fails : redis' = IF fails THEN redis ELSE [redis EXCEPT !.exec = call.agent_flow]
  /\ UNCHANGED <<row, exec, callbacks, handlerRest>>

\* Variant with a bug: the events are stored first.
CompleteUpdate_events_first ==
  /\ Handle("complete", "sent", IF exec = NoExec THEN "handled" ELSE "updated")
  /\ exec' = IF exec = NoExec THEN exec ELSE [exec EXCEPT !.events = @ + 1]
  /\ UNCHANGED <<row, redis, callbacks, handlerRest>>

\* complete_execution: without a row it is not_found, with status 200.
CompleteUpdate ==
  /\ Handle("complete", "sent", IF exec = NoExec THEN "handled" ELSE "updated")
  /\ exec' = IF exec = NoExec THEN exec ELSE [exec EXCEPT !.status = "final"]
  /\ UNCHANGED <<row, redis, callbacks, handlerRest>>

\* executemany: all of the events or none.
CompleteEvents ==
  /\ \/ Handle("complete", "updated", "handled") /\ exec' = [exec EXCEPT !.events = @ + 1]
     \/ Handle("complete", "updated", "refused") /\ UNCHANGED exec
  /\ UNCHANGED <<row, redis, callbacks, handlerRest>>

Handlers ==
  \/ PreRegister \/ StoreRecord \/ FireCallback
  \/ InitFindFlow \/ InitCreate \/ InitCache \/ CompleteUpdate \/ CompleteEvents

----------------------------------------------------------------------------
(* What else happens                                                        *)

LosePost ==
  /\ \E p \in DOMAIN posts : Handle(p, "sent", "lost")
  /\ UNCHANGED <<row, exec, redis, callbacks, handlerRest>>

\* config-api restarts: the handlers stop where they are.
Restart ==
  /\ restarts < MaxRestarts
  /\ restarts' = restarts + 1
  /\ req' = IF req \in {"flow", "create", "cache", "meta", "agent", "mark_start", "ami", "mark_ami"}
            THEN "died" ELSE req
  /\ ami' = IF req = "ami" /\ ami["originate"].pc \notin Settled
            THEN [ami EXCEPT !["originate"] = Closed("originate", "failed")] ELSE ami
  /\ posts' = [p \in DOMAIN posts |->
                 IF posts[p] \in {"stored", "found", "created", "updated"} THEN "lost" ELSE posts[p]]
  /\ UNCHANGED <<call, row, exec, redis, agent, callbacks>>

\* A key's TTL runs out: 1 h for flow:exec, 10 min for call:meta.
Expire ==
  /\ redis' \in {[redis EXCEPT !.exec = NoFlow], [redis EXCEPT !.meta = FALSE]}
  /\ redis' # redis
  /\ UNCHANGED <<ami, row, exec, req, otherVars>>

\* The agent's container is removed or dies in the middle of the call.
AgentDies ==
  /\ agent.pc \in {"init", "running", "transferring", "sending", "finalizing"}
  /\ Goes("never")
  /\ UNCHANGED <<ami, posts, agentRest>>

AmiSteps ==
  /\ \E c \in Connections : Asterisk(c) \/ Client(c)
  /\ UNCHANGED <<row, exec, redis, req, otherVars>>

REQUEST_FAILURES == {"rejected", "not_found", "start_failed", "ami_failed"}

Over ==
  /\ agent.pc \in {"never", "over"} \/ req \in REQUEST_FAILURES \cup {"died"}
  /\ UNCHANGED vars

Next ==
  \/ Originate \/ Agent \/ Handlers
  \/ LosePost \/ Restart \/ Expire \/ AgentDies \/ AmiSteps \/ Over

Spec == Init /\ [][Next]_vars

\* Handlers and coroutines go on when they can.  Asterisk need not do anything,
\* a POST need not arrive: the clients have timeouts.  The AMI banner has none,
\* so nothing is promised of a connection that is still waiting for it.
Fairness ==
  /\ WF_vars(Originate)
  /\ WF_vars(Handlers)
  /\ WF_vars(FlowInitialised)
  /\ WF_vars(RecordSent)
  /\ WF_vars(Finalized)
  /\ \A c \in Connections : WF_vars(Client(c) /\ UNCHANGED <<row, exec, redis, req, otherVars>>)

FairSpec == Spec /\ Fairness

----------------------------------------------------------------------------
(* Properties                                                               *)

\* Every variable has its type.
TypeOK ==
  /\ AmiTypeOK
  /\ call \in Calls
  /\ row \in {NoRow} \cup
       [direction : {"inbound", "outbound"}, caller : {"", "known"},
        did : {"", "dialed", "routed"}, recorded : BOOLEAN,
        end_reason : {"", "pending", "agent_start_failed", "originate_failed", "agent"}]
  /\ exec \in {NoExec} \cup
       [flow : Flows, status : {"running", "final"}, events : Nat]
  /\ redis \in [exec : Flows \cup {NoFlow}, meta : BOOLEAN]
  /\ req \in {"idle", "flow", "create", "cache", "meta", "agent", "mark_start", "ami",
              "mark_ami", "accepted", "died"} \cup REQUEST_FAILURES
  /\ agent \in [pc : {"none", "loading", "init", "running", "transferring", "sending",
                      "finalizing", "over", "never"},
                 flow : Flows \cup {NoFlow}]
  /\ posts \in [{"pre", "init", "log", "complete"} ->
                   {"none", "sent", "stored", "found", "created", "updated",
                    "handled", "refused", "lost"}]
  /\ callbacks \in Nat
  /\ restarts \in 0..MaxRestarts

\* The row says who placed the call, whichever of its three writers came first:
\* the originate handler inserts it before Asterisk is asked to dial, and the
\* upserts leave an existing direction alone.
DirectionIsRight ==
  /\ row # NoRow => row.direction = IF call.outbound THEN "outbound" ELSE "inbound"
  /\ call.outbound /\ agent.pc # "none" => row # NoRow

\* What the originate API answered is true: an accepted call is one Asterisk
\* has taken, and of the failures only the one of the AMI step leaves the
\* possibility that somebody's phone rings.
OriginateAnswerIsTrue ==
  /\ AcceptedWasExecuted
  /\ req = "accepted" => ami["originate"].executed /\ row # NoRow
  /\ req \in REQUEST_FAILURES \ {"ami_failed"} =>
       ~ami["originate"].executed /\ agent.pc = "none"

\* A flow is only ever run with its row of flow_executions in the database, and
\* it is the flow that row names: the pre-created one is not displaced by the
\* agent's own, nor run from Redis without having been stored.
FlowIsTheExecutions ==
  \A flow \in {redis.exec, agent.flow} \ {NoFlow} : exec # NoExec /\ exec.flow = flow

\* Events are stored with an execution that has been finalized, once, and only
\* the agent that ran the flow to the end of its call finalizes it.
EventsOfFinalExecution ==
  exec # NoExec =>
    /\ exec.events <= 1
    /\ exec.events = 1 => exec.status = "final"
    /\ exec.status = "final" => agent.pc \in {"finalizing", "over", "never"} /\ agent.flow = exec.flow

\* A recorded call has the agent's reason, whatever order the writers came in;
\* only an Originate whose answer never arrived overwrites it.
RecordedReason ==
  row # NoRow /\ row.recorded =>
    \/ row.end_reason = "agent"
    \/ row.end_reason = "originate_failed" /\ req = "ami_failed"

\* The campaign is called back at most once, and by then can read the agent's
\* record of the call.
CdrAfterRecord ==
  callbacks > 0 => callbacks = 1 /\ row # NoRow /\ row.recorded

\* What the row and the callback made from it say of a call is true, in whatever
\* order the originate handler, the pre-registration and the agent's record
\* reach the row.
RecordIsTrue == DirectionIsRight /\ RecordedReason /\ CdrAfterRecord

\* No writer forgets what an earlier one knew: the caller, the dialed number,
\* or that the call has been recorded.
NothingForgotten ==
  [][row # NoRow =>
       /\ row'.caller = "" => row.caller = ""
       /\ row'.did = "" => row.did = ""
       /\ row.recorded => row'.recorded]_vars

\* A client that has got past the banner comes to an end, however many events
\* Asterisk sends and whether or not it answers.
AmiNeverHangs ==
  \A c \in Connections : ami[c].pc \in Reading ~> ami[c].pc \in Settled

\* Lost or unanswered POSTs do not keep an agent: its call is closed.
CallIsClosed ==
  agent.pc \in {"sending", "finalizing"} ~> agent.pc \in {"over", "never"}

\* The clients wait for nobody for ever: neither an AMI client nor an agent.
NobodyWaitsForEver == AmiNeverHangs /\ CallIsClosed
=============================================================================
