------------------------------ MODULE AmiClient ------------------------------
(***************************************************************************)
(* The two Asterisk Manager clients: originate in config-api/ami_client.py  *)
(* and ami_redirect in agent/ami_client.py.  Each opens a connection of its *)
(* own, reads the banner, logs in, sends one action and looks for the       *)
(* answer among the events Asterisk sends on the same connection.  The      *)
(* clients differ in what they make of the answer: originate raises on a    *)
(* refusal, ami_redirect only logs it.                                      *)
(*                                                                          *)
(* Asterisk is external: it answers one request at a time, may refuse it,   *)
(* may leave the ActionID out, may be silent or close at any time.          *)
(***************************************************************************)
EXTENDS Naturals, Sequences

CONSTANTS
  Connections,  \* one per use of a client
  Strict,       \* the connections whose client checks the answer (originate)
  Cap,          \* messages _read_response looks at (50 in the code)
  MaxInbox      \* bound: messages on their way to a client

ASSUME AmiAssumption ==
  /\ Strict \subseteq Connections
  /\ Cap \in Nat \ {0}
  /\ MaxInbox \in Nat

VARIABLE ami  \* the state of each connection

Requests == {"login", "action"}

\* A message from Asterisk: what kind it is, the request whose ActionID it
\* carries ("" when it has none) and whether it reports success.
Message == [kind : {"banner", "event", "response"}, to : Requests \cup {""}, ok : BOOLEAN]

Banner == [kind |-> "banner", to |-> "", ok |-> TRUE]
Event  == [kind |-> "event", to |-> "", ok |-> TRUE]

\* Variant with a bug: events are not skipped.
Answers_event(m, request) == m.to \in {request, ""}

\* _read_response skips events, and takes a response that carries the
\* request's ActionID or none at all.
Answers(m, request) == m.kind = "response" /\ m.to \in {request, ""}

NewConnection ==
  [pc       |-> "idle",   \* where the client is
   up       |-> TRUE,     \* Asterisk keeps the connection open
   asked    |-> "",       \* the request Asterisk has not looked at yet
   inbox    |-> <<>>,     \* what the client has not read yet
   seen     |-> 0,        \* messages read by the current _read_response
   executed |-> FALSE]    \* Asterisk carried the action out

AmiInit == ami = [c \in Connections |-> NewConnection]

Conn(c, state) == ami' = [ami EXCEPT ![c] = state]

Settled == {"done", "failed"}
Reading == Requests  \* pc while _read_response waits for that request's answer

\* The finally block closes the connection; Asterisk may still look at what it
\* has been asked.
Closed(c, pc) ==
  [ami[c] EXCEPT !.pc = pc, !.up = FALSE, !.inbox = <<>>, !.seen = 0]

----------------------------------------------------------------------------
(* Asterisk                                                                 *)

Greet(c) ==
  /\ ami[c].pc = "banner" /\ ami[c].up /\ ami[c].inbox = <<>>
  /\ Conn(c, [ami[c] EXCEPT !.inbox = <<Banner>>])

\* The request is looked at, also when the client has given up meanwhile; the
\* answer is lost if the connection is gone.
Serve(c) ==
  LET request == ami[c].asked IN
  /\ request # ""
  /\ \E ok \in BOOLEAN, to \in {request, ""} :
       Conn(c, [ami[c] EXCEPT
         !.asked    = "",
         !.executed = @ \/ (request = "action" /\ ok),
         !.inbox    = IF ami[c].up
                      THEN Append(@, [kind |-> "response", to |-> to, ok |-> ok]) ELSE @])

\* manager.conf gives the user read = all: once Asterisk has looked at the login
\* it sends the events of every call.
SendEvent(c) ==
  /\ ami[c].up
  /\ ami[c].pc = "action" \/ (ami[c].pc = "login" /\ ami[c].asked = "")
  /\ Len(ami[c].inbox) < MaxInbox
  /\ Conn(c, [ami[c] EXCEPT !.inbox = Append(@, Event)])

Drop(c) ==
  /\ ami[c].up /\ ami[c].pc \in {"banner"} \cup Reading
  /\ Conn(c, [ami[c] EXCEPT !.up = FALSE])

Asterisk(c) == Greet(c) \/ Serve(c) \/ SendEvent(c) \/ Drop(c)

----------------------------------------------------------------------------
(* The client                                                               *)

Open(c) == [ami[c] EXCEPT !.pc = "banner"]

\* open_connection is refused or takes longer than 5 s.
ConnectFails(c) == Closed(c, "failed")

\* readline has no timeout.
ReadBanner(c) ==
  /\ ami[c].pc = "banner" /\ ami[c].inbox # <<>>
  /\ Conn(c, [ami[c] EXCEPT !.pc = "login", !.inbox = Tail(@), !.asked = "login"])

\* What the client does with the answer it was waiting for.
Answered(c, m) ==
  IF ami[c].pc = "login" /\ m.ok
  THEN [ami[c] EXCEPT !.pc = "action", !.asked = "action", !.inbox = Tail(@), !.seen = 0]
  ELSE Closed(c, IF ami[c].pc = "action" /\ (m.ok \/ c \notin Strict) THEN "done" ELSE "failed")

\* Variant with a bug: there is no cap.
Skipped_forever(c) == [ami[c] EXCEPT !.inbox = Tail(@)]

\* Variant with a bug: one message too many is looked at.
Skipped_late(c) ==
  IF ami[c].seen = Cap THEN Closed(c, "failed")
  ELSE [ami[c] EXCEPT !.inbox = Tail(@), !.seen = @ + 1]

Skipped(c) ==
  IF ami[c].seen + 1 = Cap THEN Closed(c, "failed")
  ELSE [ami[c] EXCEPT !.inbox = Tail(@), !.seen = @ + 1]

\* Once Asterisk has closed, writing the next request, or the Logoff, may fail.
ReadMessage(c) ==
  /\ ami[c].pc \in Reading /\ ami[c].inbox # <<>>
  /\ LET m == Head(ami[c].inbox)
     IN  \/ Conn(c, IF Answers(m, ami[c].pc) THEN Answered(c, m) ELSE Skipped(c))
         \/ Answers(m, ami[c].pc) /\ ~ami[c].up /\ Conn(c, Closed(c, "failed"))

\* No message for 10 s; or, at the end of the stream, fifty empty ones.
ReadFails(c) ==
  /\ ami[c].pc \in Reading /\ ami[c].inbox = <<>>
  /\ Conn(c, Closed(c, "failed"))

\* The stream ends before a banner: the login is written to a closed
\* connection.
BannerFails(c) ==
  /\ ami[c].pc = "banner" /\ ami[c].inbox = <<>> /\ ~ami[c].up
  /\ Conn(c, Closed(c, "failed"))

Client(c) == ReadBanner(c) \/ ReadMessage(c) \/ ReadFails(c) \/ BannerFails(c)

----------------------------------------------------------------------------
AmiTypeOK ==
  ami \in [Connections ->
    [pc       : {"idle", "banner"} \cup Reading \cup Settled,
     up       : BOOLEAN,
     asked    : Requests \cup {""},
     inbox    : Seq(Message),
     seen     : 0..(Cap - 1),
     executed : BOOLEAN]]

\* A client that took the answer of its action for a success is right: Asterisk
\* has carried the action out (originate).  The answer of the login, an event
\* or a stray message is never mistaken for it.
AcceptedWasExecuted ==
  \A c \in Strict : ami[c].pc = "done" => ami[c].executed
=============================================================================
