------------------------- MODULE CallSession_proofs -------------------------
(***************************************************************************)
(* Proofs about CallSession for any finite set of connections.              *)
(***************************************************************************)
EXTENDS CallSession, FiniteSetTheorems, TLAPS

\* What a call's own state always satisfies: it has no record and no runner
\* before its time, and only a pipeline that raised makes "error" its reason.
CallOK(call) ==
  /\ call.stage \in {"none", "reading", "creating"} =>
       call.runner = "none" /\ call.watchdog = "off" /\ ~call.leaving
  /\ call.stage = "running" => call.runner # "none"
  /\ call.stage \in {"closing", "sending", "over"} => call.runner \in {"done", "error"}
  /\ call.stage \in {"sending", "over"} <=> call.record # NoRecord
  /\ call.ended_at = "none" <=> call.end_reason = "none"
  /\ call.end_reason = "error" => call.runner = "error"
  /\ call.record # NoRecord =>
       /\ call.record.ended_at # "none"
       /\ call.record.end_reason # "none"
       /\ call.record.end_reason = "error" => call.runner = "error"
  /\ call.watchdog # "off" => call.stage = "running"
  /\ call.runner = "running" => call.stage = "running"

CallsInv == TypeOK /\ \A c \in Calls : CallOK(calls[c])

\* A step that gives one connection a state that is in order keeps the others.
LEMMA OneCall ==
  ASSUME CallsInv, NEW c \in Calls, NEW call \in Session, CallOK(call),
         calls' = [calls EXCEPT ![c] = call],
         calls_active' \in Int, calls_total' \in Int
  PROVE  CallsInv'
<1>1. calls' \in [Calls -> Session]
  BY DEF CallsInv, TypeOK
<1>2. ASSUME NEW d \in Calls
      PROVE  CallOK(calls'[d])
  BY DEF CallsInv, TypeOK
<1> QED BY <1>1, <1>2 DEF CallsInv, TypeOK

LEMMA Becoming ==
  ASSUME CallsInv, NEW c \in Calls, NEW call \in Session, CallOK(call), Becomes(c, call)
  PROVE  CallsInv'
<1>1. calls_active' \in Int /\ calls_total' \in Int
  BY DEF Becomes, CallsInv, TypeOK
<1> QED BY <1>1, OneCall DEF Becomes

LEMMA StepInv ==
  ASSUME CallsInv, NEW c \in Calls, Step(c)
  PROVE  CallsInv'
<1>1. calls[c] \in Session /\ CallOK(calls[c])
  BY DEF CallsInv, TypeOK
<1>2. CASE ReadUuid(c)
  <2> DEFINE call == [calls[c] EXCEPT !.stage = "creating"]
  <2>1. call \in Session
    BY <1>1, <1>2 DEF ReadUuid, Session
  <2>2. CallOK(call)
    BY <1>1, <1>2 DEF ReadUuid, CallOK, Session, NoRecord
  <2> QED BY <1>2, <2>1, <2>2, Becoming DEF ReadUuid
<1>3. CASE NoUuid(c)
  <2> DEFINE call == [calls[c] EXCEPT !.stage = "abandoned"]
  <2>1. call \in Session
    BY <1>1, <1>3 DEF NoUuid, Session
  <2>2. CallOK(call)
    BY <1>1, <1>3 DEF NoUuid, CallOK, Session, NoRecord
  <2> QED BY <1>3, <2>1, <2>2, Becoming DEF NoUuid
<1>4. CASE StartPipeline(c)
  <2> DEFINE call == [calls[c] EXCEPT !.stage = "running", !.runner = "running", !.watchdog = "polling"]
  <2>1. call \in Session
    BY <1>1, <1>4 DEF StartPipeline, Session
  <2>2. CallOK(call)
    BY <1>1, <1>4 DEF StartPipeline, CallOK, Session, NoRecord
  <2> QED BY <1>4, <2>1, <2>2, Becoming DEF StartPipeline
<1>5. CASE PipelineFails(c)
  <2> DEFINE call == [calls[c] EXCEPT !.stage = "abandoned"]
  <2>1. call \in Session
    BY <1>1, <1>5 DEF PipelineFails, Session
  <2>2. CallOK(call)
    BY <1>1, <1>5 DEF PipelineFails, CallOK, Session, NoRecord
  <2> QED BY <1>5, <2>1, <2>2, Becoming DEF PipelineFails
<1>6. CASE CallerHangsUp(c)
  <2> DEFINE call == [calls[c] EXCEPT !.eof = TRUE]
  <2>1. call \in Session
    BY <1>1, <1>6 DEF CallerHangsUp, Session
  <2>2. CallOK(call)
    BY <1>1, <1>6 DEF CallerHangsUp, CallOK, Session, NoRecord
  <2> QED BY <1>6, <2>1, <2>2, Becoming DEF CallerHangsUp
<1>7. CASE ReadLoopEnds(c)
  <2> DEFINE call == [calls[c] EXCEPT !.ending = TRUE]
  <2>1. call \in Session
    BY <1>1, <1>7 DEF ReadLoopEnds, Session
  <2>2. CallOK(call)
    BY <1>1, <1>7 DEF ReadLoopEnds, CallOK, Session, NoRecord
  <2> QED BY <1>7, <2>1, <2>2, Becoming DEF ReadLoopEnds
<1>8. CASE FlowStops(c)
  <2> DEFINE call == [calls[c] EXCEPT !.cancelled = TRUE]
  <2>1. call \in Session
    BY <1>1, <1>8 DEF FlowStops, Session
  <2>2. CallOK(call)
    BY <1>1, <1>8 DEF FlowStops, CallOK, Session, NoRecord
  <2> QED BY <1>8, <2>1, <2>2, Becoming DEF FlowStops
<1>9. CASE WatchdogReturns(c)
  <2> DEFINE call == [calls[c] EXCEPT !.watchdog = "off", !.cancelled = @ \/ calls[c].runner = "running"]
  <2>1. call \in Session
    BY <1>1, <1>9 DEF WatchdogReturns, Session
  <2>2. CallOK(call)
    BY <1>1, <1>9 DEF WatchdogReturns, CallOK, Session, NoRecord
  <2> QED BY <1>9, <2>1, <2>2, Becoming DEF WatchdogReturns
<1>10. CASE Teardown(c)
  <2> DEFINE call == [calls[c] EXCEPT !.stage = "closing", !.watchdog = "off", !.leaving = TRUE]
  <2>1. call \in Session
    BY <1>1, <1>10 DEF Teardown, Session
  <2>2. CallOK(call)
    BY <1>1, <1>10 DEF Teardown, CallOK, Session, NoRecord
  <2> QED BY <1>10, <2>1, <2>2, Becoming DEF Teardown
<1>11. CASE CloseFails(c)
  <2> DEFINE call == [calls[c] EXCEPT !.stage = "abandoned"]
  <2>1. call \in Session
    BY <1>1, <1>11 DEF CloseFails, Session
  <2>2. CallOK(call)
    BY <1>1, <1>11 DEF CloseFails, CallOK, Session, NoRecord
  <2> QED BY <1>11, <2>1, <2>2, Becoming DEF CloseFails
<1>12. CASE Accept(c)
  <2> DEFINE call == [calls[c] EXCEPT !.stage = "reading"]
  <2>1. call \in Session
    BY <1>1, <1>12 DEF Accept, Session
  <2>2. CallOK(call)
    BY <1>1, <1>12 DEF Accept, CallOK, Session, NoRecord
  <2>3. /\ calls' = [calls EXCEPT ![c] = call]
        /\ calls_active' \in Int /\ calls_total' \in Int
    BY <1>12 DEF Accept, CallsInv, TypeOK
  <2> QED BY <2>1, <2>2, <2>3, OneCall
<1>13. CASE RunnerEnds(c)
  <2>1. PICK way \in {"done", "error"} : Becomes(c, [calls[c] EXCEPT !.runner = way])
    BY <1>13 DEF RunnerEnds
  <2> DEFINE call == [calls[c] EXCEPT !.runner = way]
  <2>2. call \in Session
    BY <1>1 DEF Session
  <2>3. CallOK(call)
    BY <1>1, <1>13 DEF RunnerEnds, CallOK, Session, NoRecord
  <2> QED BY <2>1, <2>2, <2>3, Becoming
<1>14. CASE WatchdogSeesEof(c)
  <2> DEFINE call == on_disconnected([calls[c] EXCEPT !.watchdog = "draining"], "eof", "hangup")
  <2>1. call \in Session
    BY <1>1 DEF on_disconnected, Session, Moments, Reasons
  <2>2. CallOK(call)
    BY <1>1, <1>14 DEF WatchdogSeesEof, on_disconnected, CallOK, Session, NoRecord
  <2> QED BY <1>14, <2>1, <2>2, Becoming DEF WatchdogSeesEof
<1>15. CASE OnClientDisconnected(c)
  <2> DEFINE call == on_disconnected([calls[c] EXCEPT !.leaving = FALSE, !.cancelled = TRUE],
                                     "teardown", "hangup")
  <2>1. call \in Session
    BY <1>1 DEF on_disconnected, Session, Moments, Reasons
  <2>2. CallOK(call)
    BY <1>1, <1>15 DEF OnClientDisconnected, on_disconnected, CallOK, Session, NoRecord
  <2> QED BY <1>15, <2>1, <2>2, Becoming DEF OnClientDisconnected
<1>16. CASE SendRecord(c)
  <2>1. PICK stamped \in {ended(calls[c])} :
          Becomes(c, [stamped EXCEPT !.stage = "sending",
                                     !.record = [ended_at   |-> stamped.ended_at,
                                                 end_reason |-> stamped.end_reason]])
    BY <1>16 DEF SendRecord
  <2>2. /\ stamped \in Session
        /\ stamped.ended_at # "none" /\ stamped.end_reason # "none"
        /\ stamped.end_reason = "error" => stamped.runner = "error"
        /\ stamped.runner \in {"done", "error"} /\ stamped.watchdog = "off"
    BY <1>1, <1>16 DEF SendRecord, ended, on_disconnected, end_reason, Session, CallOK,
                       Moments, Reasons
  <2> DEFINE call == [stamped EXCEPT !.stage = "sending",
                                     !.record = [ended_at   |-> stamped.ended_at,
                                                 end_reason |-> stamped.end_reason]]
  <2>3. call \in Session
    BY <2>2 DEF Session
  <2>4. CallOK(call)
    BY <2>2 DEF CallOK, Session, NoRecord
  <2> QED BY <2>1, <2>3, <2>4, Becoming
<1>17. CASE Finish(c)
  <2> DEFINE call == [calls[c] EXCEPT !.stage = "over"]
  <2>1. call \in Session
    BY <1>1, <1>17 DEF Finish, Session
  <2>2. CallOK(call)
    BY <1>1, <1>17 DEF Finish, CallOK, Session, NoRecord
  <2>3. /\ calls' = [calls EXCEPT ![c] = call]
        /\ calls_active' \in Int /\ calls_total' \in Int
    BY <1>17 DEF Finish, CallsInv, TypeOK
  <2> QED BY <2>1, <2>2, <2>3, OneCall
<1> QED BY <1>2, <1>3, <1>4, <1>5, <1>6, <1>7, <1>8, <1>9, <1>10, <1>11, <1>12, <1>13, <1>14,
           <1>15, <1>16, <1>17 DEF Step

\* Only Accept and Finish touch the metrics, and each keeps the sum right.
LEMMA StepAccounts ==
  ASSUME CallsInv, CallsAreAccounted, NEW c \in Calls, Step(c)
  PROVE  CallsAreAccounted'
<1>1. IsFiniteSet(Accepted) /\ Cardinality(Accepted) \in Nat
  BY CallsAssumption, FS_Subset, FS_CardinalityType DEF Accepted
<1>2. calls \in [Calls -> Session] /\ calls_active \in Int /\ calls_total \in Int
  BY DEF CallsInv, TypeOK
<1>3. CASE Accept(c)
  <2>1. c \notin Accepted /\ Accepted' = Accepted \cup {c}
    BY <1>2, <1>3 DEF Accept, Accepted, Session
  <2>2. Cardinality(Accepted') = Cardinality(Accepted) + 1
    BY <1>1, <2>1, FS_AddElement
  <2> QED BY <1>1, <1>2, <1>3, <2>2 DEF Accept, CallsAreAccounted
<1>4. CASE Finish(c)
  <2>1. Accepted' = Accepted
    BY <1>2, <1>4 DEF Finish, Accepted, Session
  <2> QED BY <1>1, <1>2, <1>4, <2>1 DEF Finish, CallsAreAccounted
<1>5. ASSUME NEW call, Becomes(c, call), call.stage # "none", calls[c].stage # "none"
      PROVE  CallsAreAccounted'
  <2>1. Accepted' = Accepted
    BY <1>2, <1>5 DEF Becomes, Accepted
  <2> QED BY <2>1, <1>5 DEF Becomes, CallsAreAccounted
<1>6. calls[c] \in Session /\ CallOK(calls[c])
  BY DEF CallsInv, TypeOK
<1>7. CASE ReadUuid(c)
  BY <1>5, <1>6, <1>7 DEF ReadUuid, CallOK, Session
<1>8. CASE NoUuid(c)
  BY <1>5, <1>6, <1>8 DEF NoUuid, CallOK, Session
<1>9. CASE StartPipeline(c)
  BY <1>5, <1>6, <1>9 DEF StartPipeline, CallOK, Session
<1>10. CASE PipelineFails(c)
  BY <1>5, <1>6, <1>10 DEF PipelineFails, CallOK, Session
<1>11. CASE CallerHangsUp(c)
  BY <1>5, <1>6, <1>11 DEF CallerHangsUp, CallOK, Session
<1>12. CASE ReadLoopEnds(c)
  BY <1>5, <1>6, <1>12 DEF ReadLoopEnds, CallOK, Session
<1>13. CASE FlowStops(c)
  BY <1>5, <1>6, <1>13 DEF FlowStops, CallOK, Session
<1>14. CASE RunnerEnds(c)
  BY <1>5, <1>6, <1>14 DEF RunnerEnds, CallOK, Session
<1>15. CASE WatchdogSeesEof(c)
  BY <1>5, <1>6, <1>15 DEF WatchdogSeesEof, on_disconnected, CallOK, Session
<1>16. CASE WatchdogReturns(c)
  BY <1>5, <1>6, <1>16 DEF WatchdogReturns, CallOK, Session
<1>17. CASE Teardown(c)
  BY <1>5, <1>6, <1>17 DEF Teardown, CallOK, Session
<1>18. CASE OnClientDisconnected(c)
  BY <1>5, <1>6, <1>18 DEF OnClientDisconnected, on_disconnected, CallOK, Session
<1>19. CASE SendRecord(c)
  BY <1>5, <1>6, <1>19 DEF SendRecord, ended, on_disconnected, CallOK, Session
<1>20. CASE CloseFails(c)
  BY <1>5, <1>6, <1>20 DEF CloseFails, CallOK, Session
<1> QED BY <1>3, <1>4, <1>7, <1>8, <1>9, <1>10, <1>11, <1>12, <1>13, <1>14, <1>15, <1>16,
           <1>17, <1>18, <1>19, <1>20 DEF Step

IInv == CallsInv /\ CallsAreAccounted

LEMMA Invariance == Spec => []IInv
<1>1. Init => IInv
  <2> SUFFICES ASSUME Init PROVE IInv
    OBVIOUS
  <2>1. NewCall \in Session /\ CallOK(NewCall)
    BY DEF NewCall, Session, CallOK, NoRecord, Moments, Reasons
  <2>2. CallsInv
    BY <2>1 DEF Init, CallsInv, TypeOK
  <2>3. Accepted = {}
    BY DEF Init, Accepted, NewCall
  <2>4. CallsAreAccounted
    BY <2>3, FS_EmptySet DEF Init, CallsAreAccounted
  <2> QED BY <2>2, <2>4 DEF IInv
<1>2. IInv /\ [Next]_vars => IInv'
  <2> SUFFICES ASSUME IInv, [Next]_vars PROVE IInv'
    OBVIOUS
  <2>1. ASSUME NEW c \in Calls, Step(c)
        PROVE  IInv'
    BY <2>1, StepInv, StepAccounts DEF IInv
  <2>2. CASE UNCHANGED vars
    BY <2>2 DEF IInv, CallsInv, TypeOK, CallsAreAccounted, Accepted, vars
  <2> QED BY <2>1, <2>2 DEF Next, AllOver
<1> QED BY <1>1, <1>2, PTL DEF Spec

\* Type correctness: each connection's state and the metrics keep their types.
THEOREM TypeCorrect == Spec => []TypeOK
<1>1. IInv => TypeOK
  BY DEF IInv, CallsInv
<1> QED BY <1>1, Invariance, PTL

\* The record sent for a call is complete, and blames an error only on a
\* pipeline that raised, in every interleaving of the tasks of the call.
THEOREM RecordsAreComplete == Spec => []RecordIsComplete
<1>1. IInv => RecordIsComplete
  BY DEF IInv, CallsInv, CallOK, RecordIsComplete
<1> QED BY <1>1, Invariance, PTL

\* The gauge and the counter together account for every accepted connection,
\* for any number of connections.
THEOREM MetricsAccount == Spec => []CallsAreAccounted
<1>1. IInv => CallsAreAccounted
  BY DEF IInv
<1> QED BY <1>1, Invariance, PTL
=============================================================================
