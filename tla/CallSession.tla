---------------------------- MODULE CallSession ----------------------------
(***************************************************************************)
(* The agent's TCP server: one handle_call coroutine per AudioSocket        *)
(* connection (agent/server.py), with the tasks it starts (the pipeline     *)
(* runner and the hangup watchdog), the transport's read loop and its       *)
(* on_client_disconnected handler, and the call record it sends             *)
(* (agent/call_logger.py).  The calls of one agent share the Prometheus     *)
(* gauge and counter.  What a flow does during the call is CallFlow; here   *)
(* it may only stop the pipeline.                                           *)
(*                                                                          *)
(* Code between two suspending awaits is one step, and any two steps of     *)
(* different tasks interleave.  Whether pipecat awaits an event handler or  *)
(* starts it as a task depends on its version (requirements.txt only sets a *)
(* lower bound), so on_client_disconnected runs at any time after it fired. *)
(***************************************************************************)
EXTENDS Integers, FiniteSets

CONSTANT Calls  \* the connections Asterisk opens

ASSUME CallsAssumption == IsFiniteSet(Calls)

VARIABLES
  calls,         \* the local state of each connection's coroutine and tasks
  calls_active,  \* metrics.calls_active
  calls_total    \* metrics.calls_total over all its labels

vars == <<calls, calls_active, calls_total>>

NoRecord == [ended_at |-> "none", end_reason |-> "none"]

\* ended_at is what the time was taken at: the end of the caller's stream, as
\* the watchdog sees it, or the teardown of the finished pipeline.
NewCall ==
  [stage      |-> "none",   \* where handle_call is
   eof        |-> FALSE,    \* the far end closed the connection
   ending     |-> FALSE,    \* the read loop pushed an EndFrame or CancelFrame
   cancelled  |-> FALSE,    \* task.cancel() was called
   runner     |-> "none",   \* runner_task
   watchdog   |-> "off",    \* _hangup_watchdog
   leaving    |-> FALSE,    \* on_client_disconnected fired and has not run
   ended_at   |-> "none",   \* CallLogger.ended_at
   end_reason |-> "none",   \* CallLogger.end_reason
   record     |-> NoRecord] \* the payload of CallLogger.send

Init ==
  /\ calls = [c \in Calls |-> NewCall]
  /\ calls_active = 0
  /\ calls_total = 0

Becomes(c, call) ==
  /\ calls' = [calls EXCEPT ![c] = call]
  /\ UNCHANGED <<calls_active, calls_total>>

----------------------------------------------------------------------------
(* handle_call up to the start of the pipeline.                             *)

\* The gauge goes up before the first frame is read.
Accept(c) ==
  /\ calls[c].stage = "none"
  /\ calls' = [calls EXCEPT ![c].stage = "reading"]
  /\ calls_active' = calls_active + 1
  /\ UNCHANGED calls_total

ReadUuid(c) ==
  /\ calls[c].stage = "reading"
  /\ Becomes(c, [calls[c] EXCEPT !.stage = "creating"])

\* Nothing for 5 s, another frame, or the end of the stream: handle_call
\* returns or raises.
NoUuid(c) ==
  /\ calls[c].stage = "reading"
  /\ Becomes(c, [calls[c] EXCEPT !.stage = "abandoned"])

\* create_pipeline_task, transport.connect and the three tasks.
StartPipeline(c) ==
  /\ calls[c].stage = "creating"
  /\ Becomes(c, [calls[c] EXCEPT !.stage = "running", !.runner = "running",
                                 !.watchdog = "polling"])

\* create_pipeline_task raises: no config to be had, or a prompt that
\* format_map rejects.
PipelineFails(c) ==
  /\ calls[c].stage = "creating"
  /\ Becomes(c, [calls[c] EXCEPT !.stage = "abandoned"])

----------------------------------------------------------------------------
(* While the pipeline runs.                                                 *)

CallerHangsUp(c) ==
  /\ calls[c].stage \in {"reading", "creating", "running"}
  /\ ~calls[c].eof
  /\ Becomes(c, [calls[c] EXCEPT !.eof = TRUE])

\* The read loop ends with a hangup frame, the end of the stream or an error,
\* and tells the pipeline so.
ReadLoopEnds(c) ==
  /\ calls[c].runner = "running"
  /\ ~calls[c].ending
  /\ Becomes(c, [calls[c] EXCEPT !.ending = TRUE])

\* The flow handler reached an end or transfer node.
FlowStops(c) ==
  /\ calls[c].runner = "running"
  /\ ~calls[c].cancelled
  /\ Becomes(c, [calls[c] EXCEPT !.cancelled = TRUE])

\* The pipeline has drained or was cancelled, or it raises.
RunnerEnds(c) ==
  /\ calls[c].runner = "running"
  /\ \/ /\ calls[c].cancelled \/ calls[c].ending
        /\ Becomes(c, [calls[c] EXCEPT !.runner = "done"])
     \/ Becomes(c, [calls[c] EXCEPT !.runner = "error"])

\* CallLogger.on_disconnected
on_disconnected(call, at, reason) == [call EXCEPT !.ended_at = at, !.end_reason = reason]

WatchdogSeesEof(c) ==
  /\ calls[c].watchdog = "polling"
  /\ calls[c].eof
  /\ Becomes(c, on_disconnected([calls[c] EXCEPT !.watchdog = "draining"], "eof", "hangup"))

\* Variant with a bug: the pipeline is left to drain without a limit.
WatchdogReturns_without_cancel(c) ==
  /\ calls[c].watchdog = "draining"
  /\ Becomes(c, [calls[c] EXCEPT !.watchdog = "off"])

\* Within HANGUP_DRAIN_TIMEOUT the runner has ended, or it is cancelled.
WatchdogReturns(c) ==
  /\ calls[c].watchdog = "draining"
  /\ Becomes(c, [calls[c] EXCEPT !.watchdog = "off",
                                 !.cancelled = @ \/ calls[c].runner = "running"])

----------------------------------------------------------------------------
(* The finally block.                                                       *)

\* watchdog.cancel() and transport.disconnect, which fires
\* on_client_disconnected.
Teardown(c) ==
  /\ calls[c].stage = "running"
  /\ calls[c].runner # "running"
  /\ Becomes(c, [calls[c] EXCEPT !.stage = "closing", !.watchdog = "off", !.leaving = TRUE])

OnClientDisconnected(c) ==
  /\ calls[c].leaving
  /\ Becomes(c, on_disconnected([calls[c] EXCEPT !.leaving = FALSE, !.cancelled = TRUE],
                                "teardown", "hangup"))

\* Variant with a bug: the runner's state is sent for a reason.
end_reason_of_runner(call) == call.runner

\* The local end_reason of handle_call.
end_reason(call) == IF call.runner = "error" THEN "error" ELSE "hangup"

ended(call) ==
  IF call.ended_at # "none" THEN call ELSE on_disconnected(call, "teardown", end_reason(call))

\* Variant with a bug: the fallback for a missing end time is forgotten.
SendRecord_without_fallback(c) ==
  /\ calls[c].stage = "closing"
  /\ Becomes(c, [calls[c] EXCEPT !.stage = "sending",
                                 !.record = [ended_at   |-> calls[c].ended_at,
                                             end_reason |-> calls[c].end_reason]])

\* wait_closed returned: the payload is built and its POST starts.
SendRecord(c) ==
  /\ calls[c].stage = "closing"
  /\ \E call \in {ended(calls[c])} :
       Becomes(c, [call EXCEPT !.stage = "sending",
                               !.record = [ended_at   |-> call.ended_at,
                                           end_reason |-> call.end_reason]])

\* wait_closed raises something else than a broken pipe or a reset.
CloseFails(c) ==
  /\ calls[c].stage = "closing"
  /\ Becomes(c, [calls[c] EXCEPT !.stage = "abandoned"])

\* Variant with a bug: the call is only counted when it ended by a hangup.
Finish_hangups(c) ==
  /\ calls[c].stage = "sending"
  /\ calls' = [calls EXCEPT ![c].stage = "over"]
  /\ calls_active' = calls_active - 1
  /\ calls_total' = calls_total + (IF calls[c].runner = "error" THEN 0 ELSE 1)

\* The POST was answered, or failed and is only logged; the metrics follow.
Finish(c) ==
  /\ calls[c].stage = "sending"
  /\ calls' = [calls EXCEPT ![c].stage = "over"]
  /\ calls_active' = calls_active - 1
  /\ calls_total' = calls_total + 1

----------------------------------------------------------------------------
Step(c) ==
  \/ Accept(c) \/ ReadUuid(c) \/ NoUuid(c) \/ StartPipeline(c) \/ PipelineFails(c)
  \/ CallerHangsUp(c) \/ ReadLoopEnds(c) \/ FlowStops(c) \/ RunnerEnds(c)
  \/ WatchdogSeesEof(c) \/ WatchdogReturns(c)
  \/ Teardown(c) \/ OnClientDisconnected(c) \/ SendRecord(c) \/ CloseFails(c) \/ Finish(c)

\* Every connection has been dealt with.
AllOver ==
  /\ \A c \in Calls : calls[c].stage \in {"over", "abandoned"} /\ ~calls[c].leaving
  /\ UNCHANGED vars

Next == (\E c \in Calls : Step(c)) \/ AllOver

Spec == Init /\ [][Next]_vars

\* The waits of handle_call and of the watchdog are all bounded by timeouts,
\* and a cancelled pipeline ends.  Nothing makes a pipeline drain in time.
Fairness ==
  \A c \in Calls :
    /\ WF_vars(ReadUuid(c) \/ NoUuid(c))
    /\ WF_vars(StartPipeline(c) \/ PipelineFails(c))
    /\ WF_vars(WatchdogSeesEof(c))
    /\ WF_vars(WatchdogReturns(c))
    /\ WF_vars(calls[c].cancelled /\ RunnerEnds(c))
    /\ WF_vars(Teardown(c))
    /\ WF_vars(SendRecord(c) \/ CloseFails(c))
    /\ WF_vars(Finish(c))

FairSpec == Spec /\ Fairness

----------------------------------------------------------------------------
(* Properties                                                               *)

Moments == {"none", "eof", "teardown"}
Reasons == {"none", "hangup", "error"}

Session ==
  [stage      : {"none", "reading", "creating", "running", "closing", "sending", "over", "abandoned"},
   eof        : BOOLEAN,
   ending     : BOOLEAN,
   cancelled  : BOOLEAN,
   runner     : {"none", "running", "done", "error"},
   watchdog   : {"off", "polling", "draining"},
   leaving    : BOOLEAN,
   ended_at   : Moments,
   end_reason : Reasons,
   record     : [ended_at : Moments, end_reason : Reasons]]

\* Every variable has its type.
TypeOK ==
  /\ calls \in [Calls -> Session]
  /\ calls_active \in Int
  /\ calls_total \in Int

Accepted == {c \in Calls : calls[c].stage # "none"}

\* Every accepted connection is either counted as finished or still held by
\* the gauge: handle_call never takes a call off the gauge without counting
\* it, whichever way and order the connections end.
CallsAreAccounted == calls_active + calls_total = Cardinality(Accepted)

\* A record is only sent once the pipeline has ended, carries an end time and
\* a reason, and says "error" only of a pipeline that raised, however the
\* watchdog, on_client_disconnected and the finally block interleave.
RecordIsComplete ==
  \A c \in Calls :
    LET call == calls[c]
    IN  /\ call.stage \in {"sending", "over"} <=> call.record # NoRecord
        /\ call.record # NoRecord =>
             /\ call.runner \in {"done", "error"}
             /\ call.record.ended_at # "none"
             /\ call.record.end_reason # "none"
             /\ call.record.end_reason = "error" => call.runner = "error"

\* Once the far end has closed the connection, handle_call comes to an end,
\* also when the pipeline would not drain.
HangupEndsTheCall ==
  \A c \in Calls :
    calls[c].eof ~> calls[c].stage \in {"over", "abandoned"}
=============================================================================
