-------------------------- MODULE CallRecords_proofs --------------------------
(***************************************************************************)
(* Proofs about CallRecords for any flows, calls and connections. The first  *)
(* part is what holds of an AMI connection, whoever uses the client.         *)
(***************************************************************************)
EXTENDS CallRecords, TLAPS


ConnectionState ==
  [pc       : {"idle", "banner"} \cup Reading \cup Settled,
   up       : BOOLEAN,
   asked    : Requests \cup {""},
   inbox    : Seq(Message),
   seen     : 0..(Cap - 1),
   executed : BOOLEAN]

\* A connection that is not in use has not asked for anything; the two requests
\* are asked for one after the other.
AskedInOrder(k) ==
  /\ k.pc = "idle" => k.asked = "" /\ ~k.executed
  /\ k.pc = "banner" => k.asked = "" /\ ~k.executed
  /\ k.pc = "login" => k.asked \in {"", "login"} /\ ~k.executed
  /\ k.pc = "action" => k.asked \in {"", "action"}

\* At most one response is on its way, that of the request the client waits
\* for; if it is the action's and reports success, it has been carried out.
ResponseIsAwaited(k) ==
  /\ k.pc \in {"idle", "banner"} =>
       \A i \in 1..Len(k.inbox) : k.inbox[i].kind # "response"
  /\ \A i \in 1..Len(k.inbox) : k.inbox[i].kind = "response" =>
       /\ k.asked = ""
       /\ k.pc = "action" /\ k.inbox[i].ok => k.executed
       /\ \A j \in 1..Len(k.inbox) : k.inbox[j].kind = "response" => i = j

ConnOK(k) ==
  /\ k \in ConnectionState
  /\ AskedInOrder(k)
  /\ ResponseIsAwaited(k)

AmiInv ==
  /\ \A c \in Connections : ConnOK(ami[c])
  /\ ami \in [Connections -> ConnectionState]
  /\ AcceptedWasExecuted

\* What the other end, or the client's own step, may do to a connection.
Follows(k, l) ==
  /\ k.executed => l.executed
  /\ k.pc # "idle" /\ l.pc # "idle"

\* While no response is on its way there is nothing to say of one.
LEMMA NoResponseIsOK ==
  ASSUME NEW k \in ConnectionState, AskedInOrder(k),
         \A i \in 1..Len(k.inbox) : k.inbox[i].kind # "response"
  PROVE  ConnOK(k)
BY DEF ConnOK, ResponseIsAwaited

\* A connection that is given up, whatever has been asked on it.
LEMMA ClosedIsOK ==
  ASSUME AmiInv, NEW c \in Connections, NEW pc \in Settled
  PROVE  ConnOK(Closed(c, pc)) /\ Closed(c, pc).executed = ami[c].executed
                               /\ Closed(c, pc).pc = pc
<1>1. ami[c] \in ConnectionState
  BY DEF AmiInv
<1>2. <<>> \in Seq(Message) /\ Len(<<>>) = 0
  OBVIOUS
<1>3. 0 \in 0..(Cap - 1)
  BY AmiAssumption
<1>4. Closed(c, pc) = [ami[c] EXCEPT !.pc = pc, !.up = FALSE, !.inbox = <<>>, !.seen = 0]
  BY DEF Closed
<1>5. Closed(c, pc) \in ConnectionState
  BY <1>1, <1>2, <1>3, <1>4 DEF ConnectionState, Settled
<1>6. Closed(c, pc).inbox = <<>> /\ Closed(c, pc).pc = pc /\ Closed(c, pc).executed = ami[c].executed
  BY <1>1, <1>4 DEF ConnectionState
<1> DEFINE l == Closed(c, pc)
<1>7. AskedInOrder(l)
  BY <1>6 DEF AskedInOrder, Settled
<1> HIDE DEF l
<1>8. \A i \in 1..Len(l.inbox) : l.inbox[i].kind # "response"
  <2>1. l.inbox = <<>>
    BY <1>6 DEF l
  <2> QED BY <2>1, <1>2
<1>9. ConnOK(l)
  BY <1>5, <1>7, <1>8, NoResponseIsOK DEF l
<1> QED BY <1>6, <1>9 DEF l

\* A client that has not connected yet begins with an empty connection.
LEMMA OpenIsOK ==
  ASSUME AmiInv, NEW c \in Connections, ami[c].pc = "idle"
  PROVE  ConnOK(Open(c)) /\ Open(c).pc = "banner" /\ ~Open(c).executed
<1>1. ami[c] \in ConnectionState /\ AskedInOrder(ami[c]) /\ ResponseIsAwaited(ami[c])
  BY DEF AmiInv, ConnOK
<1>2. Open(c) = [ami[c] EXCEPT !.pc = "banner"]
  BY DEF Open
<1>3. Open(c) \in ConnectionState
  BY <1>1, <1>2 DEF ConnectionState
<1>4. /\ Open(c).pc = "banner" /\ Open(c).inbox = ami[c].inbox
      /\ Open(c).asked = ami[c].asked /\ Open(c).executed = ami[c].executed
  BY <1>1, <1>2 DEF ConnectionState
<1> QED
  BY <1>1, <1>3, <1>4 DEF ConnOK, AskedInOrder, ResponseIsAwaited

\* Taking a message off leaves the others.
LEMMA TailOfInbox ==
  ASSUME NEW s \in Seq(Message), s # <<>>
  PROVE  /\ Tail(s) \in Seq(Message) /\ Head(s) = s[1] /\ Head(s) \in Message
         /\ Len(Tail(s)) = Len(s) - 1 /\ Len(s) \in Nat /\ Len(s) > 0
         /\ \A i \in 1..Len(Tail(s)) : i + 1 \in 1..Len(s) /\ Tail(s)[i] = s[i + 1]
OBVIOUS

\* A new message stands behind the others.
LEMMA AppendToInbox ==
  ASSUME NEW s \in Seq(Message), NEW m \in Message
  PROVE  /\ Append(s, m) \in Seq(Message) /\ Len(Append(s, m)) = Len(s) + 1 /\ Len(s) \in Nat
         /\ \A i \in 1..Len(Append(s, m)) :
              IF i = Len(s) + 1 THEN Append(s, m)[i] = m
                                ELSE i \in 1..Len(s) /\ Append(s, m)[i] = s[i]
OBVIOUS

\* Asterisk's steps.
LEMMA AsteriskKeeps ==
  ASSUME AmiInv, NEW c \in Connections, Asterisk(c)
  PROVE  \E l : Conn(c, l) /\ ConnOK(l) /\ Follows(ami[c], l)
                /\ (l.pc = ami[c].pc)
<1> DEFINE k == ami[c]
<1>1. k \in ConnectionState /\ AskedInOrder(k) /\ ResponseIsAwaited(k)
  BY DEF AmiInv, ConnOK
<1>2. k.inbox \in Seq(Message)
  BY <1>1 DEF ConnectionState
<1>3. CASE Greet(c)
  <2> DEFINE l == [k EXCEPT !.inbox = <<Banner>>]
  <2>1. Banner \in Message /\ Banner.kind = "banner"
    BY DEF Banner, Message, Requests
  <2>2. <<Banner>> \in Seq(Message) /\ Len(<<Banner>>) = 1 /\ <<Banner>>[1] = Banner
    BY <2>1
  <2>3. Conn(c, l) /\ k.pc = "banner"
    BY <1>3 DEF Greet
  <2>4. l \in ConnectionState
    BY <1>1, <2>2 DEF ConnectionState
  <2>5. l.pc = k.pc /\ l.asked = k.asked /\ l.executed = k.executed /\ l.inbox = <<Banner>>
    BY <1>1 DEF ConnectionState
  <2>6. ConnOK(l)
    <3>1. AskedInOrder(l)
      BY <1>1, <2>5 DEF AskedInOrder
    <3>2. \A i \in 1..Len(l.inbox) : l.inbox[i].kind # "response"
      BY <2>1, <2>2, <2>5
    <3> QED BY <2>4, <3>1, <3>2, NoResponseIsOK
  <2> QED BY <2>3, <2>5, <2>6 DEF Follows
<1>4. CASE Serve(c)
  <2>1. PICK ok \in BOOLEAN, to \in {k.asked, ""} :
          Conn(c, [k EXCEPT
            !.asked    = "",
            !.executed = k.executed \/ (k.asked = "action" /\ ok),
            !.inbox    = IF k.up THEN Append(k.inbox, [kind |-> "response", to |-> to, ok |-> ok])
                                 ELSE k.inbox])
    BY <1>4 DEF Serve
  <2> DEFINE m == [kind |-> "response", to |-> to, ok |-> ok]
             box == IF k.up THEN Append(k.inbox, m) ELSE k.inbox
             did == k.executed \/ (k.asked = "action" /\ ok)
             l == [k EXCEPT !.asked = "", !.executed = did, !.inbox = box]
  <2>2. k.asked # "" /\ k.asked \in Requests
    BY <1>1, <1>4 DEF Serve, ConnectionState
  <2>3. m \in Message /\ m.kind = "response" /\ m.ok = ok
    BY <1>1 DEF Message, ConnectionState
  <2>4. box \in Seq(Message)
    BY <1>2, <2>3, AppendToInbox
  <2>5. did \in BOOLEAN
    BY <1>1 DEF ConnectionState
  <2>6. l \in ConnectionState
    BY <1>1, <2>4, <2>5 DEF ConnectionState
  <2>7. l.pc = k.pc /\ l.asked = "" /\ l.executed = did /\ l.inbox = box
    BY <1>1 DEF ConnectionState
  <2>8. k.pc \notin {"idle", "banner"}
    BY <1>1, <2>2 DEF AskedInOrder
  <2>9. AskedInOrder(l)
    BY <1>1, <2>2, <2>7, <2>8 DEF AskedInOrder
  <2>10. \A i \in 1..Len(k.inbox) : k.inbox[i].kind # "response"
    BY <1>1, <2>2 DEF ResponseIsAwaited
  <2>11. k.pc = "action" => k.asked = "action"
    BY <1>1, <2>2 DEF AskedInOrder
  <2>12. ResponseIsAwaited(l)
    <3>1. CASE ~k.up
      BY <2>7, <2>8, <2>10, <3>1 DEF ResponseIsAwaited
    <3>2. CASE k.up
      <4>0. box = Append(k.inbox, m)
        BY <3>2
      <4> HIDE DEF l, box, did, m, k
      <4>1. \A i \in 1..Len(box) : IF i = Len(k.inbox) + 1 THEN box[i] = m
                                   ELSE i \in 1..Len(k.inbox) /\ box[i] = k.inbox[i]
        <5>1. m \in Message /\ k.inbox \in Seq(Message)
          BY <1>2, <2>3
        <5> QED BY <4>0, <5>1, AppendToInbox, Zenon
      <4>2. \A i \in 1..Len(box) : box[i].kind = "response" => i = Len(k.inbox) + 1 /\ box[i] = m
        BY <4>1, <2>10
      <4>3. \A i \in 1..Len(l.inbox) : l.inbox[i].kind = "response" =>
              l.inbox[i].ok = ok /\ i = Len(k.inbox) + 1
        BY <2>3, <2>7, <4>2
      <4>4. l.pc = "action" /\ ok => l.executed
        BY <2>7, <2>11 DEF did
      <4> QED BY <2>7, <2>8, <4>3, <4>4 DEF ResponseIsAwaited
    <3> QED BY <3>1, <3>2, <1>1 DEF ConnectionState
  <2>13. Follows(k, l)
    BY <2>7, <2>8 DEF Follows
  <2> QED BY <2>1, <2>6, <2>7, <2>9, <2>12, <2>13 DEF ConnOK
<1>5. CASE SendEvent(c)
  <2> DEFINE l == [k EXCEPT !.inbox = Append(k.inbox, Event)]
  <2>1. Event \in Message /\ Event.kind = "event"
    BY DEF Event, Message, Requests
  <2>2. Conn(c, l) /\ k.pc \in {"login", "action"}
    BY <1>5 DEF SendEvent
  <2>3. l \in ConnectionState
    BY <1>1, <1>2, <2>1, AppendToInbox DEF ConnectionState
  <2>4. l.pc = k.pc /\ l.asked = k.asked /\ l.executed = k.executed
        /\ l.inbox = Append(k.inbox, Event)
    BY <1>1 DEF ConnectionState
  <2>5. \A i \in 1..Len(l.inbox) : l.inbox[i].kind = "response" =>
          i \in 1..Len(k.inbox) /\ l.inbox[i] = k.inbox[i]
    BY <1>2, <2>1, <2>4, AppendToInbox
  <2>6. AskedInOrder(l) /\ ResponseIsAwaited(l)
    BY <1>1, <2>2, <2>4, <2>5 DEF AskedInOrder, ResponseIsAwaited
  <2> QED BY <2>2, <2>3, <2>4, <2>6 DEF ConnOK, Follows
<1>6. CASE Drop(c)
  <2> DEFINE l == [k EXCEPT !.up = FALSE]
  <2>1. Conn(c, l) /\ k.pc # "idle"
    BY <1>6 DEF Drop, Reading, Requests
  <2>2. l \in ConnectionState
    BY <1>1 DEF ConnectionState
  <2>3. l.pc = k.pc /\ l.asked = k.asked /\ l.executed = k.executed /\ l.inbox = k.inbox
    BY <1>1 DEF ConnectionState
  <2>4. AskedInOrder(l) /\ ResponseIsAwaited(l)
    BY <1>1, <2>3 DEF AskedInOrder, ResponseIsAwaited
  <2> QED BY <2>1, <2>2, <2>3, <2>4 DEF ConnOK, Follows
<1> QED BY <1>3, <1>4, <1>5, <1>6 DEF Asterisk

\* The client's steps; when it takes an answer for a success, it is right.
LEMMA ClientKeeps ==
  ASSUME AmiInv, NEW c \in Connections, Client(c)
  PROVE  \E l : Conn(c, l) /\ ConnOK(l) /\ Follows(ami[c], l)
                /\ (c \in Strict /\ l.pc = "done" => l.executed)
<1> DEFINE k == ami[c]
<1>1. k \in ConnectionState /\ AskedInOrder(k) /\ ResponseIsAwaited(k)
  BY DEF AmiInv, ConnOK
<1>2. k.inbox \in Seq(Message)
  BY <1>1 DEF ConnectionState
<1>3. ASSUME k.pc # "idle", Conn(c, Closed(c, "failed"))
      PROVE  \E l : Conn(c, l) /\ ConnOK(l) /\ Follows(k, l) /\ (c \in Strict /\ l.pc = "done" => l.executed)
  BY <1>3, ClosedIsOK DEF Settled, Follows
<1>4. CASE ReadBanner(c)
  <2> DEFINE rest == Tail(k.inbox)
             l == [k EXCEPT !.pc = "login", !.inbox = rest, !.asked = "login"]
  <2>1. Conn(c, l) /\ k.pc = "banner" /\ k.inbox # <<>>
    BY <1>4 DEF ReadBanner
  <2>2. rest \in Seq(Message)
    BY <1>2, <2>1, TailOfInbox
  <2> HIDE DEF rest
  <2>3. l \in ConnectionState
    BY <1>1, <2>2 DEF ConnectionState, Reading, Requests
  <2> USE DEF rest
  <2>4. l.pc = "login" /\ l.asked = "login" /\ l.executed = k.executed /\ l.inbox = Tail(k.inbox)
    BY <1>1 DEF ConnectionState
  <2>5. \A i \in 1..Len(l.inbox) : l.inbox[i].kind # "response"
    <3>1. \A i \in 1..Len(Tail(k.inbox)) : \E j \in 1..Len(k.inbox) : Tail(k.inbox)[i] = k.inbox[j]
      BY <1>2, <2>1, TailOfInbox
    <3>2. \A j \in 1..Len(k.inbox) : k.inbox[j].kind # "response"
      BY <1>1, <2>1 DEF ResponseIsAwaited
    <3> HIDE DEF k, l
    <3> QED BY <2>4, <3>1, <3>2
  <2>6. AskedInOrder(l)
    BY <1>1, <2>1, <2>4 DEF AskedInOrder
  <2> HIDE DEF l
  <2>7. ConnOK(l)
    BY <2>3, <2>5, <2>6, NoResponseIsOK
  <2>8. Follows(k, l) /\ l.pc # "done"
    BY <1>1, <2>1, <2>4 DEF Follows, AskedInOrder
  <2> QED BY <2>1, <2>7, <2>8, Zenon
<1>5. CASE ReadMessage(c)
  <2> DEFINE m == Head(k.inbox)
  <2>1. k.pc \in Reading /\ k.inbox # <<>>
    BY <1>5 DEF ReadMessage
  <2>2. k.pc \in {"login", "action"}
    BY <2>1 DEF Reading, Requests
  <2>3. /\ Tail(k.inbox) \in Seq(Message)
        /\ \A i \in 1..Len(Tail(k.inbox)) : /\ i + 1 \in 1..Len(k.inbox) /\ i \in Nat
                                            /\ Tail(k.inbox)[i] = k.inbox[i + 1]
        /\ m = k.inbox[1] /\ 1 \in 1..Len(k.inbox) /\ m \in Message
    BY <1>2, <2>1, TailOfInbox
  <2>4. \A i \in 1..Len(Tail(k.inbox)) : Tail(k.inbox)[i].kind = "response" =>
          /\ m.kind # "response"
          /\ k.asked = ""
          /\ k.pc = "action" /\ Tail(k.inbox)[i].ok => k.executed
    <3>1. TAKE i \in 1..Len(Tail(k.inbox))
    <3>2. HAVE Tail(k.inbox)[i].kind = "response"
    <3> DEFINE j == i + 1
    <3>3. j \in 1..Len(k.inbox) /\ Tail(k.inbox)[i] = k.inbox[j] /\ j # 1
      BY <2>3
    <3> HIDE DEF j
    <3> QED BY <1>1, <2>3, <3>2, <3>3 DEF ResponseIsAwaited
  <2>5. \A i, j \in 1..Len(Tail(k.inbox)) :
          Tail(k.inbox)[i].kind = "response" /\ Tail(k.inbox)[j].kind = "response" => i = j
    <3>1. TAKE i, j \in 1..Len(Tail(k.inbox))
    <3>2. HAVE Tail(k.inbox)[i].kind = "response" /\ Tail(k.inbox)[j].kind = "response"
    <3>3. i + 1 = j + 1
      BY <1>1, <2>3, <3>2 DEF ResponseIsAwaited
    <3> QED BY <3>3, <2>3
  <2>6. CASE Conn(c, Closed(c, "failed"))
    BY <1>3, <2>2, <2>6
  <2>7. CASE Answers(m, k.pc) /\ Conn(c, Answered(c, m))
    <3>1. m.kind = "response"
      BY <2>7 DEF Answers
    <3>2. CASE k.pc = "login" /\ m.ok
      <4> DEFINE l == [k EXCEPT !.pc = "action", !.asked = "action", !.inbox = Tail(k.inbox), !.seen = 0]
      <4>1. Conn(c, l)
        BY <2>7, <3>2 DEF Answered
      <4>2. l \in ConnectionState
        <5> DEFINE rest == Tail(k.inbox)
                   zero == 0
        <5>1. rest \in Seq(Message) /\ zero \in 0..(Cap - 1)
          BY <2>3, AmiAssumption
        <5>2. l = [k EXCEPT !.pc = "action", !.asked = "action", !.inbox = rest, !.seen = zero]
          OBVIOUS
        <5> HIDE DEF rest, zero, l
        <5> QED BY <1>1, <5>1, <5>2 DEF ConnectionState, Reading, Requests
      <4>3. l.pc = "action" /\ l.asked = "action" /\ l.executed = k.executed /\ l.inbox = Tail(k.inbox)
        BY <1>1 DEF ConnectionState
      <4>4. \A i \in 1..Len(l.inbox) : l.inbox[i].kind # "response"
        BY <2>4, <3>1, <4>3
      <4>5. AskedInOrder(l)
        BY <4>3 DEF AskedInOrder
      <4> HIDE DEF l
      <4>6. ConnOK(l)
        BY <4>2, <4>4, <4>5, NoResponseIsOK
      <4>7. Follows(k, l) /\ l.pc # "done"
        BY <2>2, <4>3 DEF Follows
      <4> QED BY <4>1, <4>6, <4>7, Zenon
    <3>3. CASE ~(k.pc = "login" /\ m.ok)
      <4> DEFINE pc == IF k.pc = "action" /\ (m.ok \/ c \notin Strict) THEN "done" ELSE "failed"
      <4>1. Conn(c, Closed(c, pc))
        BY <2>7, <3>3 DEF Answered
      <4>2. pc \in Settled
        BY DEF Settled
      <4>3. k.pc = "action" /\ m.ok => k.executed
        BY <1>1, <2>3, <3>1 DEF ResponseIsAwaited
      <4>4. ConnOK(Closed(c, pc)) /\ Closed(c, pc).executed = k.executed /\ Closed(c, pc).pc = pc
        BY <4>2, ClosedIsOK
      <4> HIDE DEF k
      <4>5. pc # "idle" /\ (c \in Strict /\ pc = "done" => k.executed)
        BY <4>3
      <4> QED BY <2>2, <4>1, <4>4, <4>5 DEF Follows, k
    <3> QED BY <3>2, <3>3
  <2>8. CASE ~Answers(m, k.pc) /\ Conn(c, Skipped(c))
    <3>1. CASE k.seen + 1 = Cap
      <4>1. Conn(c, Closed(c, "failed"))
        BY <2>8, <3>1 DEF Skipped
      <4> QED BY <4>1, <1>3, <2>2
    <3>2. CASE k.seen + 1 # Cap
      <4> DEFINE l == [k EXCEPT !.inbox = Tail(k.inbox), !.seen = k.seen + 1]
      <4>1. Conn(c, l)
        BY <2>8, <3>2 DEF Skipped
      <4>2. l \in ConnectionState
        <5> DEFINE rest == Tail(k.inbox)
                   more == k.seen + 1
        <5>1. rest \in Seq(Message)
          BY <2>3
        <5>2. more \in 0..(Cap - 1)
          <6>1. k.seen \in 0..(Cap - 1)
            BY <1>1 DEF ConnectionState
          <6> QED BY <6>1, <3>2, AmiAssumption
        <5>3. l = [k EXCEPT !.inbox = rest, !.seen = more]
          OBVIOUS
        <5> HIDE DEF rest, more, l
        <5> QED BY <1>1, <5>1, <5>2, <5>3 DEF ConnectionState
      <4>3. l.pc = k.pc /\ l.asked = k.asked /\ l.executed = k.executed /\ l.inbox = Tail(k.inbox)
        BY <1>1 DEF ConnectionState
      <4>4. AskedInOrder(l)
        BY <1>1, <4>3 DEF AskedInOrder
      <4> HIDE DEF l
      <4>5. ResponseIsAwaited(l)
        BY <2>2, <2>4, <2>5, <4>3 DEF ResponseIsAwaited
      <4>6. ConnOK(l) /\ Follows(k, l) /\ l.pc # "done"
        BY <2>2, <4>2, <4>3, <4>4, <4>5 DEF ConnOK, Follows
      <4> QED BY <4>1, <4>6, Zenon
    <3> QED BY <3>1, <3>2
  <2> QED BY <1>5, <2>6, <2>7, <2>8 DEF ReadMessage
<1>6. CASE ReadFails(c)
  BY <1>3, <1>6 DEF ReadFails, Reading, Requests
<1>7. CASE BannerFails(c)
  BY <1>3, <1>7 DEF BannerFails
<1> QED BY <1>4, <1>5, <1>6, <1>7 DEF Client

\* A step on one connection keeps the invariant, does not undo the action and
\* leaves the other connections alone.
LEMMA AmiStepKeeps ==
  ASSUME AmiInv, NEW c \in Connections, Asterisk(c) \/ Client(c)
  PROVE  /\ AmiInv'
         /\ \A d \in Connections : ami[d].executed => ami'[d].executed
         /\ \A d \in Connections : ami[d].pc = "idle" => ami'[d] = ami[d]
<1>1. PICK l : Conn(c, l) /\ ConnOK(l) /\ Follows(ami[c], l)
               /\ (c \in Strict /\ l.pc = "done" => l.executed)
  <2>1. CASE Asterisk(c)
    BY <2>1, AsteriskKeeps DEF AmiInv, AcceptedWasExecuted, Follows
  <2> QED BY <2>1, ClientKeeps
<1>2. ami' = [ami EXCEPT ![c] = l] /\ l \in ConnectionState
  BY <1>1 DEF Conn, ConnOK
<1>3. ami'[c] = l /\ \A d \in Connections \ {c} : ami'[d] = ami[d]
  BY <1>2 DEF AmiInv
<1>4. ami' \in [Connections -> ConnectionState]
  BY <1>2 DEF AmiInv
<1>5. ASSUME NEW d \in Connections
      PROVE  /\ ConnOK(ami'[d])
             /\ ami[d].executed => ami'[d].executed
             /\ ami[d].pc = "idle" => ami'[d] = ami[d]
             /\ d \in Strict /\ ami'[d].pc = "done" => ami'[d].executed
  BY <1>1, <1>3 DEF AmiInv, AcceptedWasExecuted, Follows
<1>6. AcceptedWasExecuted'
  BY <1>5, AmiAssumption DEF AcceptedWasExecuted
<1> QED BY <1>4, <1>5, <1>6 DEF AmiInv

\* A connection that is opened, or given up, by its user.
LEMMA AmiReplaced ==
  ASSUME AmiInv, NEW c \in Connections, NEW l, ConnOK(l), l.pc # "done",
         ami' = [ami EXCEPT ![c] = l]
  PROVE  AmiInv' /\ ami'[c] = l /\ \A d \in Connections \ {c} : ami'[d] = ami[d]
<1>1. l \in ConnectionState
  BY DEF ConnOK
<1>2. ami'[c] = l /\ \A d \in Connections \ {c} : ami'[d] = ami[d]
  BY DEF AmiInv
<1>3. ami' \in [Connections -> ConnectionState]
  BY <1>1 DEF AmiInv
<1> QED BY <1>2, <1>3 DEF AmiInv, AcceptedWasExecuted

----------------------------------------------------------------------------
(* The rows, the cache and the handlers                                     *)

\* The rows of call_logs.
Columns ==
  [direction : {"inbound", "outbound"}, caller : {"", "known"},
   did : {"", "dialed", "routed"}, recorded : BOOLEAN,
   end_reason : {"", "pending", "agent_start_failed", "originate_failed", "agent"}]

\* The rows of flow_executions.
Executions == [flow : Flows, status : {"running", "final"}, events : Nat]

\* Where the originate handler is before it has asked Asterisk, and where it has
\* given up without having asked.
NotAsked == {"idle", "rejected", "flow", "create", "cache", "meta", "agent", "mark_start",
             "not_found", "start_failed"}

\* The call reaches the agent only when Asterisk has taken it, which is only
\* asked for by an outbound call's handler, behind the row.
PlacedInOrder ==
  /\ ~call.outbound => req = "idle"
  /\ call.outbound /\ req \notin {"idle", "rejected"} => row # NoRow
  /\ call.outbound /\ req \in {"idle", "rejected"} => row = NoRow
  /\ call.outbound => posts["pre"] = "none"
  /\ req \in NotAsked => ami["originate"].pc = "idle"
  /\ req = "accepted" => ami["originate"].executed
  /\ call.outbound /\ agent.pc # "none" => ami["originate"].executed

\* The agent sends its POSTs one after the other, and opens a connection for a
\* transfer once.
AgentInOrder ==
  /\ agent.pc \in {"none", "loading", "init", "running"} => ami["redirect"].pc = "idle"
  /\ agent.pc \in {"none", "loading"} => posts["init"] = "none" /\ agent.flow = NoFlow
  /\ agent.pc = "init" => agent.flow = NoFlow /\ call.agent_flow # NoFlow
  /\ posts["init"] # "none" => call.agent_flow # NoFlow
  /\ agent.pc \in {"none", "loading", "init", "running", "transferring"} => posts["log"] = "none"
  /\ posts["complete"] # "none" =>
       agent.pc \in {"finalizing", "over", "never"} /\ agent.flow # NoFlow

\* The row is recorded by the handler of the agent's record, before the callback.
RecordedInOrder ==
  /\ row # NoRow /\ row.recorded => posts["log"] \notin {"none", "sent"}
  /\ posts["log"] \in {"stored", "handled"} => row # NoRow /\ row.recorded
  /\ posts["log"] \in {"none", "sent", "stored"} => callbacks = 0
  /\ callbacks > 0 => posts["log"] = "handled" /\ callbacks = 1

\* A handler that has created an execution created that of its flow.
CreatedInOrder ==
  /\ req \in {"flow", "create", "cache"} => call.flow_id # NoFlow
  /\ req = "cache" => exec # NoExec /\ exec.flow = call.flow_id
  /\ posts["init"] \in {"created", "handled"} => exec # NoExec /\ exec.flow = call.agent_flow

\* The execution is completed in two steps.
CompletedInOrder ==
  /\ exec # NoExec /\ exec.status = "final" => posts["complete"] \notin {"none", "sent"}
  /\ posts["complete"] = "updated" => exec # NoExec /\ exec.status = "final" /\ exec.events = 0
  /\ posts["complete"] \in {"none", "sent"} /\ exec # NoExec => exec.events = 0

\* The type invariant in parts: the row, the execution, the other variables.
RowTyped  == row \in {NoRow} \cup Columns
ExecTyped == exec \in {NoExec} \cup Executions
RestTyped ==
  /\ call \in Calls
  /\ redis \in [exec : Flows \cup {NoFlow}, meta : BOOLEAN]
  /\ req \in {"idle", "flow", "create", "cache", "meta", "agent", "mark_start", "ami",
              "mark_ami", "accepted", "died"} \cup REQUEST_FAILURES
  /\ agent \in [pc : {"none", "loading", "init", "running", "transferring", "sending",
                      "finalizing", "over", "never"},
                 flow : Flows \cup {NoFlow}]
  /\ posts \in [{"pre", "init", "log", "complete"} ->
                   {"none", "sent", "stored", "found", "created", "updated",
                    "handled", "refused", "lost"}]
  /\ callbacks \in Nat
  /\ restarts \in 0..MaxRestarts

\* The inductive invariant: the connections are in order, the variables have
\* their types, the writers come in order, and what the project claims is true.
Types == RowTyped /\ ExecTyped /\ RestTyped
Orders == PlacedInOrder /\ AgentInOrder /\ RecordedInOrder /\ CreatedInOrder /\ CompletedInOrder
Truths == DirectionIsRight /\ RecordedReason /\ FlowIsTheExecutions /\ EventsOfFinalExecution

IInv == AmiInv /\ Types /\ Orders /\ Truths

\* A row is told from none by its direction.
LEMMA RowIsRow ==
  ASSUME RowTyped
  PROVE  row # NoRow <=> row \in Columns
<1>1. row \in Columns => row.direction # "none"
  BY DEF Columns
<1>2. NoRow.direction = "none"
  BY DEF NoRow
<1> QED BY <1>1, <1>2 DEF RowTyped

\* An execution is told from none by its status.
LEMMA ExecIsExec ==
  ASSUME ExecTyped
  PROVE  exec # NoExec <=> exec \in Executions
BY DEF ExecTyped, NoExec, Executions

\* A new row has the columns it is given and is not recorded.
LEMMA NewRow ==
  ASSUME NEW direction \in {"inbound", "outbound"}, NEW caller \in {"", "known"},
         NEW did \in {"", "dialed", "routed"}, NEW reason \in {"", "pending"}
  PROVE  LET r == Row(direction, caller, did, reason) IN
         /\ r \in Columns /\ r # NoRow /\ r.direction = direction
         /\ r.caller = caller /\ r.did = did /\ r.end_reason = reason /\ ~r.recorded
BY DEF Row, Columns, NoRow

\* The pre-registration's upsert keeps what the row knew.
LEMMA PreRegistered ==
  ASSUME RowTyped, NEW caller \in {"", "known"}
  PROVE  LET r == pre_register_call(caller, "dialed") IN
         /\ r \in Columns /\ r # NoRow
         /\ row = NoRow => r.direction = "inbound" /\ ~r.recorded
         /\ row # NoRow => /\ r.direction = row.direction /\ r.recorded = row.recorded
                           /\ r.end_reason = row.end_reason
                           /\ (r.caller = "" => row.caller = "")
                           /\ (r.did = "" => row.did = "")
<1>1. CASE row = NoRow
  <2>1. pre_register_call(caller, "dialed") = Row("inbound", caller, "dialed", "")
    BY <1>1 DEF pre_register_call
  <2> DEFINE r == Row("inbound", caller, "dialed", "")
  <2>2. r \in Columns /\ r # NoRow /\ r.direction = "inbound" /\ ~r.recorded
    BY DEF Row, Columns, NoRow
  <2> QED BY <1>1, <2>1, <2>2
<1>2. CASE row # NoRow
  <2>1. row \in Columns
    BY <1>2, RowIsRow
  <2> DEFINE r == [row EXCEPT !.caller = Known(caller, row.caller), !.did = Known("dialed", row.did)]
  <2>2. pre_register_call(caller, "dialed") = r
    BY <1>2 DEF pre_register_call
  <2>3. Known(caller, row.caller) \in {"", "known"} /\ (Known(caller, row.caller) = "" => row.caller = "")
    BY <2>1 DEF Known, Columns
  <2>4. Known("dialed", row.did) \in {"", "dialed", "routed"} /\ (Known("dialed", row.did) = "" => row.did = "")
    BY <2>1 DEF Known, Columns
  <2>5. r \in Columns /\ r.direction = row.direction /\ r.recorded = row.recorded
        /\ r.end_reason = row.end_reason
        /\ r.caller = Known(caller, row.caller) /\ r.did = Known("dialed", row.did)
    BY <2>1, <2>3, <2>4 DEF Columns
  <2>6. r # NoRow
    BY <2>5 DEF Columns, NoRow
  <2> QED BY <1>2, <2>2, <2>3, <2>4, <2>5, <2>6
<1> QED BY <1>1, <1>2

\* The record's upsert keeps the direction, the caller and the dialed number.
LEMMA Recorded ==
  ASSUME RowTyped, NEW did \in {"", "routed"}
  PROVE  LET r == receive_call_log(did) IN
         /\ r \in Columns /\ r # NoRow /\ r.recorded /\ r.end_reason = "agent"
         /\ row = NoRow => r.direction = "inbound"
         /\ row # NoRow => /\ r.direction = row.direction
                           /\ (r.caller = "" => row.caller = "")
                           /\ (r.did = "" => row.did = "")
<1> DEFINE old == IF row = NoRow THEN Row("inbound", "", "", "") ELSE row
           r == [old EXCEPT !.did = Known(did, old.did), !.end_reason = "agent", !.recorded = TRUE]
<1>1. old \in Columns /\ (row = NoRow => old.direction = "inbound") /\ (row # NoRow => old = row)
  <2> DEFINE r0 == Row("inbound", "", "", "")
  <2>1. r0 \in Columns /\ r0.direction = "inbound"
    BY DEF Row, Columns
  <2> HIDE DEF r0
  <2>2. old = IF row = NoRow THEN r0 ELSE row
    BY DEF r0
  <2> HIDE DEF old
  <2> QED BY <2>1, <2>2, RowIsRow
<1>2. receive_call_log(did) = r
  BY DEF receive_call_log
<1> HIDE DEF old
<1>3. Known(did, old.did) \in {"", "dialed", "routed"} /\ (Known(did, old.did) = "" => old.did = "")
  BY <1>1 DEF Known, Columns
<1>4. r \in Columns /\ r.direction = old.direction /\ r.recorded
      /\ r.end_reason = "agent" /\ r.caller = old.caller /\ r.did = Known(did, old.did)
  BY <1>1, <1>3 DEF Columns
<1>5. r # NoRow
  BY <1>4 DEF Columns, NoRow
<1> QED BY <1>1, <1>2, <1>3, <1>4, <1>5

\* Setting a row's reason leaves its other columns alone.
LEMMA Marked ==
  ASSUME NEW r \in Columns, NEW reason \in {"agent_start_failed", "originate_failed"}
  PROVE  LET m == [r EXCEPT !.end_reason = reason] IN
         /\ m \in Columns /\ m # NoRow /\ m.end_reason = reason
         /\ m.direction = r.direction /\ m.recorded = r.recorded
         /\ m.caller = r.caller /\ m.did = r.did
BY DEF Columns, NoRow

\* A new execution is running and has no events.
LEMMA NewExecutionIsTyped ==
  ASSUME NEW flow \in Flows
  PROVE  LET e == NewExecution(flow) IN
         e \in Executions /\ e # NoExec /\ e.flow = flow /\ e.status = "running" /\ e.events = 0
BY DEF NewExecution, Executions, NoExec

\* Completing an execution changes its status, then its events, and no flow.
LEMMA Completed ==
  ASSUME NEW e \in Executions
  PROVE  /\ LET f == [e EXCEPT !.status = "final"] IN
            f \in Executions /\ f # NoExec /\ f.flow = e.flow /\ f.status = "final" /\ f.events = e.events
         /\ LET f == [e EXCEPT !.events = e.events + 1] IN
            f \in Executions /\ f # NoExec /\ f.flow = e.flow /\ f.status = e.status /\ f.events = e.events + 1
BY DEF Executions, NoExec

\* Asterisk has not taken a call that the handler has not asked it for.
LEMMA NotAskedNotExecuted ==
  ASSUME IInv, req \in NotAsked
  PROVE  ~ami["originate"].executed
BY RecordsAssumption DEF IInv, Types, Orders, Truths, PlacedInOrder, AmiInv, ConnOK, AskedInOrder

\* A failed originate changes the reason alone.
LEMMA RowMarked ==
  ASSUME row \in Columns, MarkFailed
  PROVE  row' \in Columns /\ row' # NoRow /\ row'.direction = row.direction /\ row'.recorded = row.recorded
BY Marked DEF MarkFailed

\* The pre-registration leaves the direction, the record and the reason alone.
LEMMA RowPreRegistered ==
  ASSUME RowTyped, PreRegister
  PROVE  /\ row' \in Columns /\ row' # NoRow
         /\ row = NoRow => row'.direction = "inbound" /\ ~row'.recorded
         /\ row # NoRow => /\ row'.direction = row.direction /\ row'.recorded = row.recorded
                           /\ row'.end_reason = row.end_reason
BY PreRegistered DEF PreRegister

\* The events of an execution are stored at once or not at all.
LEMMA EventsStored ==
  ASSUME exec \in Executions, exec # NoExec, exec.events = 0, CompleteEvents
  PROVE  /\ exec' \in Executions /\ exec' # NoExec /\ exec'.events \in {0, 1}
         /\ exec'.flow = exec.flow /\ exec'.status = exec.status
<1>1. exec' = exec \/ exec' = [exec EXCEPT !.events = exec.events + 1]
  BY DEF CompleteEvents
<1>2. 0 + 1 = 1
  OBVIOUS
<1> QED BY <1>1, <1>2, Completed

\* The lemmas on the steps read the invariant part by part.
USE DEF IInv, Types, Orders, Truths, RowTyped, ExecTyped, RestTyped,
        PlacedInOrder, AgentInOrder, RecordedInOrder, CreatedInOrder, CompletedInOrder,
        DirectionIsRight, RecordedReason, FlowIsTheExecutions, EventsOfFinalExecution,
        NotAsked, REQUEST_FAILURES, CallInputs

\* The originate handler, but for its AMI connection.
LEMMA OriginateKeeps ==
  ASSUME IInv,
         OriginateCall \/ FindFlow \/ CreateExecution \/ CacheExecution \/ StoreMeta \/
         AmiSettles \/ MarkFailed
  PROVE  Types' /\ Orders' /\ Truths'
<1>1. CASE OriginateCall
  <2>a. call.outbound /\ req = "idle" /\ row = NoRow
    BY <1>1 DEF OriginateCall
  <2>b. UNCHANGED <<ami, exec, redis, call, agent, posts, callbacks, restarts>>
    BY <1>1 DEF OriginateCall, otherVars
  <2>c. \/ req' = "rejected" /\ row' = row
        \/ /\ row' \in Columns /\ row' # NoRow /\ row'.direction = "outbound" /\ ~row'.recorded
           /\ req' \in {"meta", "flow"} /\ (req' = "flow" => call.flow_id # NoFlow)
    <3> DEFINE r == Row("outbound", "known", "", "pending")
    <3>1. r \in Columns /\ r # NoRow /\ r.direction = "outbound" /\ ~r.recorded
      BY NewRow
    <3>2. \/ req' = "rejected" /\ row' = row
          \/ row' = r /\ req' = IF call.flow_id = NoFlow THEN "meta" ELSE "flow"
      BY <1>1 DEF OriginateCall
    <3> HIDE DEF r
    <3> QED BY <3>1, <3>2
  <2>1. Types'
    BY <2>a, <2>b, <2>c, RecordsAssumption
  <2>2. Orders'
    BY <2>a, <2>b, <2>c, RecordsAssumption
  <2>3. Truths'
    BY <2>a, <2>b, <2>c, RecordsAssumption
  <2> QED BY <2>1, <2>2, <2>3
<1>2. CASE FindFlow
  <2>1. Types'
    BY <1>2, RowIsRow, ExecIsExec, RecordsAssumption DEF FindFlow, otherVars
  <2>2. Orders'
    BY <1>2, RowIsRow, ExecIsExec, RecordsAssumption DEF FindFlow, otherVars
  <2>3. Truths'
    BY <1>2, RowIsRow, ExecIsExec, RecordsAssumption DEF FindFlow, otherVars
  <2> QED BY <2>1, <2>2, <2>3
<1>3. CASE CreateExecution
  <2>1. Types'
    BY <1>3, NewExecutionIsTyped, RowIsRow, ExecIsExec, RecordsAssumption
    DEF CreateExecution, create_flow_execution, otherVars
  <2>2. Orders'
    BY <1>3, NewExecutionIsTyped, RowIsRow, ExecIsExec, RecordsAssumption
    DEF CreateExecution, create_flow_execution, otherVars
  <2>3. Truths'
    BY <1>3, NewExecutionIsTyped, RowIsRow, ExecIsExec, RecordsAssumption
    DEF CreateExecution, create_flow_execution, otherVars
  <2> QED BY <2>1, <2>2, <2>3
<1>4. CASE CacheExecution
  <2>1. Types'
    BY <1>4, RowIsRow, ExecIsExec, RecordsAssumption DEF CacheExecution, Fails, otherVars
  <2>2. Orders'
    BY <1>4, RowIsRow, ExecIsExec, RecordsAssumption DEF CacheExecution, Fails, otherVars
  <2>3. Truths'
    BY <1>4, RowIsRow, ExecIsExec, RecordsAssumption DEF CacheExecution, Fails, otherVars
  <2> QED BY <2>1, <2>2, <2>3
<1>5. CASE StoreMeta
  <2>1. Types'
    BY <1>5, RowIsRow, ExecIsExec, RecordsAssumption DEF StoreMeta, Fails, otherVars
  <2>2. Orders'
    BY <1>5, RowIsRow, ExecIsExec, RecordsAssumption DEF StoreMeta, Fails, otherVars
  <2>3. Truths'
    BY <1>5, RowIsRow, ExecIsExec, RecordsAssumption DEF StoreMeta, Fails, otherVars
  <2> QED BY <2>1, <2>2, <2>3
<1>6. CASE AmiSettles
  <2>1. Types'
    BY <1>6, RowIsRow, ExecIsExec, RecordsAssumption
    DEF AmiSettles, Settled, otherVars, AmiInv, AcceptedWasExecuted
  <2>2. Orders'
    BY <1>6, RowIsRow, ExecIsExec, RecordsAssumption
    DEF AmiSettles, Settled, otherVars, AmiInv, AcceptedWasExecuted
  <2>3. Truths'
    BY <1>6, RowIsRow, ExecIsExec, RecordsAssumption
    DEF AmiSettles, Settled, otherVars, AmiInv, AcceptedWasExecuted
  <2> QED BY <2>1, <2>2, <2>3
<1>7. CASE MarkFailed
  <2>a. call.outbound /\ row \in Columns /\ row # NoRow
    BY <1>7, RowIsRow DEF MarkFailed
  <2>b. UNCHANGED <<ami, exec, redis, call, agent, posts, callbacks, restarts>>
    BY <1>7 DEF MarkFailed, otherVars
  <2>c. \/ req = "mark_start" /\ req' = "start_failed"
        \/ req = "mark_ami" /\ req' = "ami_failed" /\ row'.end_reason = "originate_failed"
    BY <1>7, <2>a DEF MarkFailed, Columns
  <2>d. row' \in Columns /\ row' # NoRow /\ row'.direction = row.direction /\ row'.recorded = row.recorded
    BY <1>7, <2>a, RowMarked
  <2>e. req = "mark_start" => agent.pc = "none" /\ ~row.recorded
    BY <2>a, NotAskedNotExecuted
  <2>1. Types'
    BY <2>a, <2>b, <2>c, <2>d, <2>e, RecordsAssumption
  <2>2. Orders'
    BY <2>a, <2>b, <2>c, <2>d, <2>e, RecordsAssumption
  <2>3. Truths'
    BY <2>a, <2>b, <2>c, <2>d, <2>e, RecordsAssumption
  <2> QED BY <2>1, <2>2, <2>3
<1> QED BY <1>1, <1>2, <1>3, <1>4, <1>5, <1>6, <1>7

\* The agent, but for its AMI connection.
LEMMA AgentKeeps ==
  ASSUME IInv,
         CallConnects \/ NoConversation \/ LoadFlow \/ FlowInitialised \/ RecordSent \/
         Finalized \/ AgentDies
  PROVE  Types' /\ Orders' /\ Truths'
<1>1. CASE CallConnects
  <2>1. Types'
    BY <1>1, NotAskedNotExecuted, RowIsRow, ExecIsExec, RecordsAssumption
    DEF CallConnects, Goes, agentRest
  <2>2. Orders'
    BY <1>1, NotAskedNotExecuted, RowIsRow, ExecIsExec, RecordsAssumption
    DEF CallConnects, Goes, agentRest
  <2>3. Truths'
    BY <1>1, NotAskedNotExecuted, RowIsRow, ExecIsExec, RecordsAssumption
    DEF CallConnects, Goes, agentRest
  <2> QED BY <2>1, <2>2, <2>3
<1>2. CASE NoConversation
  <2>1. Types'
    BY <1>2, NotAskedNotExecuted, RowIsRow, ExecIsExec, RecordsAssumption
    DEF NoConversation, Goes, agentRest
  <2>2. Orders'
    BY <1>2, NotAskedNotExecuted, RowIsRow, ExecIsExec, RecordsAssumption
    DEF NoConversation, Goes, agentRest
  <2>3. Truths'
    BY <1>2, NotAskedNotExecuted, RowIsRow, ExecIsExec, RecordsAssumption
    DEF NoConversation, Goes, agentRest
  <2> QED BY <2>1, <2>2, <2>3
<1>3. CASE LoadFlow
  <2>1. Types'
    BY <1>3, RowIsRow, ExecIsExec, RecordsAssumption DEF LoadFlow, Goes, Sent, Fails, agentRest
  <2>2. Orders'
    BY <1>3, RowIsRow, ExecIsExec, RecordsAssumption DEF LoadFlow, Goes, Sent, Fails, agentRest
  <2>3. Truths'
    BY <1>3, RowIsRow, ExecIsExec, RecordsAssumption DEF LoadFlow, Goes, Sent, Fails, agentRest
  <2> QED BY <2>1, <2>2, <2>3
<1>4. CASE FlowInitialised
  <2>1. Types'
    BY <1>4, RowIsRow, ExecIsExec, RecordsAssumption DEF FlowInitialised, agentRest
  <2>2. Orders'
    BY <1>4, RowIsRow, ExecIsExec, RecordsAssumption DEF FlowInitialised, agentRest
  <2>3. Truths'
    BY <1>4, RowIsRow, ExecIsExec, RecordsAssumption DEF FlowInitialised, agentRest
  <2> QED BY <2>1, <2>2, <2>3
<1>5. CASE RecordSent
  <2>1. Types'
    BY <1>5, RowIsRow, ExecIsExec, RecordsAssumption DEF RecordSent, Goes, Sent, agentRest
  <2>2. Orders'
    BY <1>5, RowIsRow, ExecIsExec, RecordsAssumption DEF RecordSent, Goes, Sent, agentRest
  <2>3. Truths'
    BY <1>5, RowIsRow, ExecIsExec, RecordsAssumption DEF RecordSent, Goes, Sent, agentRest
  <2> QED BY <2>1, <2>2, <2>3
<1>6. CASE Finalized
  <2>1. Types'
    BY <1>6, RowIsRow, ExecIsExec, RecordsAssumption DEF Finalized, Goes, agentRest
  <2>2. Orders'
    BY <1>6, RowIsRow, ExecIsExec, RecordsAssumption DEF Finalized, Goes, agentRest
  <2>3. Truths'
    BY <1>6, RowIsRow, ExecIsExec, RecordsAssumption DEF Finalized, Goes, agentRest
  <2> QED BY <2>1, <2>2, <2>3
<1>7. CASE AgentDies
  <2>1. Types'
    BY <1>7, RowIsRow, ExecIsExec, RecordsAssumption DEF AgentDies, Goes, agentRest
  <2>2. Orders'
    BY <1>7, RowIsRow, ExecIsExec, RecordsAssumption DEF AgentDies, Goes, agentRest
  <2>3. Truths'
    BY <1>7, RowIsRow, ExecIsExec, RecordsAssumption DEF AgentDies, Goes, agentRest
  <2> QED BY <2>1, <2>2, <2>3
<1> QED BY <1>1, <1>2, <1>3, <1>4, <1>5, <1>6, <1>7

\* The handlers of the POSTs, and what may happen to POSTs and keys.
LEMMA HandlersKeep ==
  ASSUME IInv,
         PreRegister \/ StoreRecord \/ FireCallback \/ InitFindFlow \/ InitCreate \/
         InitCache \/ CompleteUpdate \/ CompleteEvents \/ LosePost \/ Expire
  PROVE  Types' /\ Orders' /\ Truths'
<1>1. CASE PreRegister
  <2>a. ~call.outbound /\ posts["pre"] = "sent" /\ posts' = [posts EXCEPT !["pre"] = "handled"]
    BY <1>1 DEF PreRegister, Handle
  <2>b. UNCHANGED <<exec, redis, callbacks, ami, call, req, agent, restarts>>
    BY <1>1 DEF PreRegister, handlerRest
  <2>c. /\ row' \in Columns /\ row' # NoRow
        /\ row = NoRow => row'.direction = "inbound" /\ ~row'.recorded
        /\ row # NoRow => /\ row'.direction = row.direction /\ row'.recorded = row.recorded
                          /\ row'.end_reason = row.end_reason
    BY <1>1, RowPreRegistered
  <2>1. Types'
    BY <2>a, <2>b, <2>c, RecordsAssumption
  <2>2. Orders'
    BY <2>a, <2>b, <2>c, RecordsAssumption
  <2>3. Truths'
    BY <2>a, <2>b, <2>c, RecordsAssumption
  <2> QED BY <2>1, <2>2, <2>3
<1>2. CASE StoreRecord
  <2>a. posts["log"] = "sent" /\ posts' = [posts EXCEPT !["log"] = "stored"]
    BY <1>2 DEF StoreRecord, Handle
  <2>b. UNCHANGED <<exec, redis, callbacks, ami, call, req, agent, restarts>>
    BY <1>2 DEF StoreRecord, handlerRest
  <2>c. /\ row' \in Columns /\ row' # NoRow /\ row'.recorded /\ row'.end_reason = "agent"
        /\ row = NoRow => row'.direction = "inbound"
        /\ row # NoRow => row'.direction = row.direction
    BY <1>2, Recorded DEF StoreRecord
  <2>d. row = NoRow => ~call.outbound
    BY <2>a
  <2>1. Types'
    BY <2>a, <2>b, <2>c, <2>d, RecordsAssumption
  <2>2. Orders'
    BY <2>a, <2>b, <2>c, <2>d, RecordsAssumption
  <2>3. Truths'
    BY <2>a, <2>b, <2>c, <2>d, RecordsAssumption
  <2> QED BY <2>1, <2>2, <2>3
<1>3. CASE FireCallback
  <2>1. Types'
    BY <1>3, RowIsRow, ExecIsExec, RecordsAssumption DEF FireCallback, Handle, handlerRest, Fails
  <2>2. Orders'
    BY <1>3, RowIsRow, ExecIsExec, RecordsAssumption DEF FireCallback, Handle, handlerRest, Fails
  <2>3. Truths'
    BY <1>3, RowIsRow, ExecIsExec, RecordsAssumption DEF FireCallback, Handle, handlerRest, Fails
  <2> QED BY <2>1, <2>2, <2>3
<1>4. CASE InitFindFlow
  <2>1. Types'
    BY <1>4, RowIsRow, ExecIsExec, RecordsAssumption DEF InitFindFlow, Handle, handlerRest
  <2>2. Orders'
    BY <1>4, RowIsRow, ExecIsExec, RecordsAssumption DEF InitFindFlow, Handle, handlerRest
  <2>3. Truths'
    BY <1>4, RowIsRow, ExecIsExec, RecordsAssumption DEF InitFindFlow, Handle, handlerRest
  <2> QED BY <2>1, <2>2, <2>3
<1>5. CASE InitCreate
  <2>1. Types'
    BY <1>5, NewExecutionIsTyped, RowIsRow, ExecIsExec, RecordsAssumption
    DEF InitCreate, Handle, handlerRest, create_flow_execution
  <2>2. Orders'
    BY <1>5, NewExecutionIsTyped, RowIsRow, ExecIsExec, RecordsAssumption
    DEF InitCreate, Handle, handlerRest, create_flow_execution
  <2>3. Truths'
    BY <1>5, NewExecutionIsTyped, RowIsRow, ExecIsExec, RecordsAssumption
    DEF InitCreate, Handle, handlerRest, create_flow_execution
  <2> QED BY <2>1, <2>2, <2>3
<1>6. CASE InitCache
  <2>1. Types'
    BY <1>6, RowIsRow, ExecIsExec, RecordsAssumption DEF InitCache, Handle, handlerRest, Fails
  <2>2. Orders'
    BY <1>6, RowIsRow, ExecIsExec, RecordsAssumption DEF InitCache, Handle, handlerRest, Fails
  <2>3. Truths'
    BY <1>6, RowIsRow, ExecIsExec, RecordsAssumption DEF InitCache, Handle, handlerRest, Fails
  <2> QED BY <2>1, <2>2, <2>3
<1>7. CASE CompleteUpdate
  <2>a. posts["complete"] = "sent" /\ agent.flow # NoFlow /\ exec \in Executions
        /\ posts' = [posts EXCEPT !["complete"] = "updated"]
    BY <1>7, ExecIsExec DEF CompleteUpdate, Handle
  <2>b. UNCHANGED <<row, redis, callbacks, ami, call, req, agent, restarts>>
    BY <1>7 DEF CompleteUpdate, handlerRest
  <2>c. exec' \in Executions /\ exec' # NoExec /\ exec # NoExec /\ exec'.flow = exec.flow
        /\ exec'.status = "final" /\ exec'.events = exec.events
    BY <1>7, <2>a, Completed, ExecIsExec DEF CompleteUpdate
  <2>1. Types'
    BY <2>a, <2>b, <2>c, RecordsAssumption
  <2>2. Orders'
    BY <2>a, <2>b, <2>c, RecordsAssumption
  <2>3. Truths'
    BY <2>a, <2>b, <2>c, RecordsAssumption
  <2> QED BY <2>1, <2>2, <2>3
<1>8. CASE CompleteEvents
  <2>a. posts["complete"] = "updated" /\ exec \in Executions /\ exec # NoExec
        /\ exec.events = 0 /\ exec.status = "final"
    BY <1>8, ExecIsExec DEF CompleteEvents, Handle
  <2>b. UNCHANGED <<row, redis, callbacks, ami, call, req, agent, restarts>>
    BY <1>8 DEF CompleteEvents, handlerRest
  <2>c. exec' \in Executions /\ exec' # NoExec /\ exec'.flow = exec.flow /\ exec'.status = exec.status
        /\ exec'.events \in {0, 1}
    BY <1>8, <2>a, EventsStored
  <2>d. \E to \in {"handled", "refused"} : posts' = [posts EXCEPT !["complete"] = to]
    BY <1>8 DEF CompleteEvents, Handle
  <2>1. Types'
    BY <2>a, <2>b, <2>c, <2>d, RecordsAssumption
  <2>2. Orders'
    BY <2>a, <2>b, <2>c, <2>d, RecordsAssumption
  <2>3. Truths'
    BY <2>a, <2>b, <2>c, <2>d, RecordsAssumption
  <2> QED BY <2>1, <2>2, <2>3
<1>9. CASE LosePost
  <2>1. Types'
    BY <1>9, RowIsRow, ExecIsExec, RecordsAssumption DEF LosePost, Handle, handlerRest
  <2>2. Orders'
    BY <1>9, RowIsRow, ExecIsExec, RecordsAssumption DEF LosePost, Handle, handlerRest
  <2>3. Truths'
    BY <1>9, RowIsRow, ExecIsExec, RecordsAssumption DEF LosePost, Handle, handlerRest
  <2> QED BY <2>1, <2>2, <2>3
<1>10. CASE Expire
  <2>a. redis' \in [exec : Flows \cup {NoFlow}, meta : BOOLEAN]
        /\ redis'.exec \in {redis.exec, NoFlow}
    BY <1>10 DEF Expire
  <2>b. UNCHANGED <<ami, row, exec, req, call, agent, posts, callbacks, restarts>>
    BY <1>10 DEF Expire, otherVars
  <2>1. Types'
    BY <2>a, <2>b, RecordsAssumption
  <2>2. Orders'
    BY <2>a, <2>b, RecordsAssumption
  <2>3. Truths'
    BY <2>a, <2>b, RecordsAssumption
  <2> QED BY <2>1, <2>2, <2>3
<1> QED BY <1>1, <1>2, <1>3, <1>4, <1>5, <1>6, <1>7, <1>8, <1>9, <1>10

HIDE DEF IInv, Types, Orders, Truths, RowTyped, ExecTyped, RestTyped,
         PlacedInOrder, AgentInOrder, RecordedInOrder, CreatedInOrder, CompletedInOrder,
         DirectionIsRight, RecordedReason, FlowIsTheExecutions, EventsOfFinalExecution,
         NotAsked, REQUEST_FAILURES, CallInputs

\* The steps that open or give up an AMI connection.
LEMMA StartAgentKeeps ==
  ASSUME IInv, StartAgent
  PROVE  IInv'
<1>1. req = "agent" /\ call.outbound /\ ami["originate"].pc = "idle" /\ ~ami["originate"].executed
  BY NotAskedNotExecuted DEF StartAgent, IInv, Orders, PlacedInOrder, NotAsked
<1>2. UNCHANGED <<row, exec, redis, call, agent, posts, callbacks, restarts>>
  BY DEF StartAgent, otherVars
<1>3. \/ req' = "mark_start" /\ ami' = ami
      \/ req' = "ami" /\ \E conn \in {Open("originate"), ConnectFails("originate")} :
                           ami' = [ami EXCEPT !["originate"] = conn]
  BY DEF StartAgent
<1>4. /\ "originate" \in Connections /\ "redirect" \in Connections
      /\ "originate" # "redirect" /\ AmiInv
  BY RecordsAssumption DEF IInv
<1>5. /\ AmiInv' /\ ami'["redirect"] = ami["redirect"]
      /\ req' = "mark_start" => ami' = ami
  <2>1. CASE ami' = ami
    BY <2>1, <1>4, <1>3 DEF AmiInv, AcceptedWasExecuted
  <2>2. CASE req' = "ami" /\ \E conn \in {Open("originate"), ConnectFails("originate")} :
               ami' = [ami EXCEPT !["originate"] = conn]
    <3>1. PICK conn \in {Open("originate"), ConnectFails("originate")} :
            ami' = [ami EXCEPT !["originate"] = conn]
      BY <2>2
    <3>2. ConnOK(conn) /\ conn.pc # "done"
      BY <1>1, <1>4, OpenIsOK, ClosedIsOK DEF ConnectFails, Settled
    <3> QED BY <2>2, <3>1, <3>2, <1>4, AmiReplaced
  <2> QED BY <1>3, <2>1, <2>2
<1>6. Types'
  BY <1>2, <1>3 DEF IInv, Types, RowTyped, ExecTyped, RestTyped
<1>7. Orders'
  <2>1. agent.pc = "none" /\ row # NoRow
    BY <1>1 DEF IInv, Orders, PlacedInOrder
  <2>2. PlacedInOrder'
    BY <1>1, <1>2, <1>3, <1>5, <2>1 DEF IInv, Orders, PlacedInOrder, NotAsked
  <2>3. AgentInOrder' /\ RecordedInOrder' /\ CompletedInOrder'
    BY <1>2, <1>5 DEF IInv, Orders, AgentInOrder, RecordedInOrder, CompletedInOrder
  <2>4. CreatedInOrder'
    BY <1>2, <1>3 DEF IInv, Orders, CreatedInOrder
  <2> QED BY <2>2, <2>3, <2>4 DEF Orders
<1>8. Truths'
  BY <1>1, <1>2, <1>3
  DEF IInv, Truths, DirectionIsRight, RecordedReason, FlowIsTheExecutions, EventsOfFinalExecution
<1> QED BY <1>5, <1>6, <1>7, <1>8 DEF IInv

\* The agent opens its own connection, for a transfer.
LEMMA TransferKeeps ==
  ASSUME IInv, Transfer
  PROVE  IInv'
<1>1. /\ agent.pc = "running" /\ ami["redirect"].pc = "idle"
      /\ agent' = [agent EXCEPT !.pc = "transferring"]
  BY DEF Transfer, Goes, IInv, Orders, AgentInOrder
<1>2. UNCHANGED <<row, exec, redis, req, call, posts, callbacks, restarts>>
  BY DEF Transfer, agentRest
<1>3. /\ "originate" \in Connections /\ "redirect" \in Connections
      /\ "originate" # "redirect" /\ AmiInv
  BY RecordsAssumption DEF IInv
<1>4. AmiInv' /\ ami'["originate"] = ami["originate"]
  <2>1. PICK conn \in {ami["redirect"], Open("redirect"), ConnectFails("redirect")} :
          ami' = [ami EXCEPT !["redirect"] = conn]
    BY DEF Transfer
  <2>2. ConnOK(ami["redirect"])
    BY <1>3 DEF AmiInv
  <2>3. ConnOK(conn) /\ conn.pc # "done"
    BY <1>1, <1>3, <2>2, OpenIsOK, ClosedIsOK DEF ConnectFails, Settled
  <2> QED BY <2>1, <2>3, <1>3, AmiReplaced
<1>5. Types' /\ agent'.pc = "transferring" /\ agent'.flow = agent.flow
  BY <1>1, <1>2 DEF IInv, Types, RowTyped, ExecTyped, RestTyped
<1>6. Orders'
  BY <1>1, <1>2, <1>4, <1>5
  DEF IInv, Orders, PlacedInOrder, AgentInOrder, RecordedInOrder, CreatedInOrder, CompletedInOrder
<1>7. Truths'
  BY <1>1, <1>2, <1>5
  DEF IInv, Truths, DirectionIsRight, RecordedReason, FlowIsTheExecutions, EventsOfFinalExecution
<1> QED BY <1>4, <1>5, <1>6, <1>7 DEF IInv

\* The agent gives a transfer up when the call ends.
LEMMA CallEndsKeeps ==
  ASSUME IInv, CallEnds
  PROVE  IInv'
<1>1. /\ agent.pc \in {"running", "transferring"} /\ posts["log"] = "none"
      /\ agent' = [agent EXCEPT !.pc = "sending"]
      /\ posts' = [posts EXCEPT !["log"] = "sent"]
  BY DEF CallEnds, Goes, Sent, IInv, Orders, AgentInOrder
<1>2. UNCHANGED <<row, exec, redis, req, call, callbacks, restarts>>
  BY DEF CallEnds, agentRest
<1>3. /\ "originate" \in Connections /\ "redirect" \in Connections
      /\ "originate" # "redirect" /\ AmiInv
  BY RecordsAssumption DEF IInv
<1>4. AmiInv' /\ ami'["originate"] = ami["originate"]
  <2>1. CASE ami' = ami
    BY <2>1, <1>3 DEF AmiInv, AcceptedWasExecuted
  <2>2. CASE ami' = [ami EXCEPT !["redirect"] = Closed("redirect", "failed")]
    BY <2>2, <1>3, AmiReplaced, ClosedIsOK DEF Settled
  <2> QED BY <2>1, <2>2 DEF CallEnds
<1>5. Types' /\ agent'.pc = "sending" /\ agent'.flow = agent.flow
      /\ posts'["log"] = "sent" /\ \A p \in {"pre", "init", "complete"} : posts'[p] = posts[p]
  BY <1>1, <1>2 DEF IInv, Types, RowTyped, ExecTyped, RestTyped
<1>6. Orders'
  BY <1>1, <1>2, <1>4, <1>5
  DEF IInv, Orders, PlacedInOrder, AgentInOrder, RecordedInOrder, CreatedInOrder, CompletedInOrder
<1>7. Truths'
  BY <1>1, <1>2, <1>5
  DEF IInv, Truths, DirectionIsRight, RecordedReason, FlowIsTheExecutions, EventsOfFinalExecution
<1> QED BY <1>4, <1>5, <1>6, <1>7 DEF IInv

\* A restart of config-api.
LEMMA RestartKeeps ==
  ASSUME IInv, Restart
  PROVE  IInv'
<1>1. UNCHANGED <<call, row, exec, redis, agent, callbacks>> /\ restarts' \in 0..MaxRestarts
  BY RecordsAssumption DEF Restart, IInv, Types, RestTyped
<1>2. \/ req' = req
      \/ req \notin {"idle", "rejected", "accepted", "ami_failed"} /\ req' = "died"
  BY DEF Restart
<1>3. /\ posts' \in [{"pre", "init", "log", "complete"} ->
                       {"none", "sent", "stored", "found", "created", "updated",
                        "handled", "refused", "lost"}]
      /\ \A p \in {"pre", "init", "log", "complete"} :
           \/ posts'[p] = posts[p] /\ posts[p] \notin {"stored", "found", "created", "updated"}
           \/ posts'[p] = "lost" /\ posts[p] \in {"stored", "found", "created", "updated"}
  BY DEF Restart, IInv, Types, RestTyped
<1>4. "originate" \in Connections /\ "redirect" \in Connections /\ "originate" # "redirect" /\ AmiInv
  BY RecordsAssumption DEF IInv
<1>5. /\ AmiInv' /\ ami'["redirect"] = ami["redirect"]
      /\ ami'["originate"].executed = ami["originate"].executed
      /\ req # "ami" => ami' = ami
  <2>1. CASE ami' = ami
    BY <2>1, <1>4 DEF AmiInv, AcceptedWasExecuted
  <2>2. CASE req = "ami" /\ ami' = [ami EXCEPT !["originate"] = Closed("originate", "failed")]
    <3>1. /\ ConnOK(Closed("originate", "failed")) /\ Closed("originate", "failed").pc # "done"
          /\ Closed("originate", "failed").executed = ami["originate"].executed
      BY <1>4, ClosedIsOK DEF Settled
    <3> QED BY <2>2, <3>1, <1>4, AmiReplaced
  <2> QED BY <2>1, <2>2 DEF Restart
<1>6. Types'
  BY <1>1, <1>2, <1>3 DEF IInv, Types, RowTyped, ExecTyped, RestTyped
<1>7. Orders'
  <2>1. PlacedInOrder'
    BY <1>1, <1>2, <1>3, <1>5 DEF IInv, Orders, PlacedInOrder, NotAsked
  <2>2. AgentInOrder' /\ RecordedInOrder'
    BY <1>1, <1>3, <1>5 DEF IInv, Orders, AgentInOrder, RecordedInOrder
  <2>3. CreatedInOrder' /\ CompletedInOrder'
    BY <1>1, <1>2, <1>3 DEF IInv, Orders, CreatedInOrder, CompletedInOrder
  <2> QED BY <2>1, <2>2, <2>3 DEF Orders
<1>8. Truths'
  BY <1>1, <1>2
  DEF IInv, Truths, DirectionIsRight, RecordedReason, FlowIsTheExecutions, EventsOfFinalExecution
<1> QED BY <1>5, <1>6, <1>7, <1>8 DEF IInv

\* Asterisk and the AMI clients.
LEMMA AmiStepsKeep ==
  ASSUME IInv, AmiSteps
  PROVE  IInv'
<1>1. UNCHANGED <<row, exec, redis, req, call, agent, posts, callbacks, restarts>>
  BY DEF AmiSteps, otherVars
<1>2. "originate" \in Connections /\ "redirect" \in Connections
  BY RecordsAssumption
<1>3. /\ AmiInv'
      /\ \A d \in Connections : ami[d].executed => ami'[d].executed
      /\ \A d \in Connections : ami[d].pc = "idle" => ami'[d] = ami[d]
  BY AmiStepKeeps DEF AmiSteps, IInv
<1>4. Types' /\ Truths'
  BY <1>1 DEF IInv, Types, RowTyped, ExecTyped, RestTyped,
              Truths, DirectionIsRight, RecordedReason, FlowIsTheExecutions, EventsOfFinalExecution
<1>5. Orders'
  BY <1>1, <1>2, <1>3
  DEF IInv, Orders, PlacedInOrder, AgentInOrder, RecordedInOrder, CreatedInOrder, CompletedInOrder
<1> QED BY <1>3, <1>4, <1>5 DEF IInv

\* Nothing is stored, sent or asked before the call.
LEMMA InitOK ==
  ASSUME Init
  PROVE  IInv
<1>1. AmiInv
  <2>1. NewConnection \in ConnectionState
    BY AmiAssumption DEF NewConnection, ConnectionState
  <2>2. ConnOK(NewConnection)
    <3>1. AskedInOrder(NewConnection)
      BY DEF NewConnection, AskedInOrder
    <3>2. \A i \in 1..Len(NewConnection.inbox) : NewConnection.inbox[i].kind # "response"
      BY DEF NewConnection
    <3> QED BY <2>1, <3>1, <3>2, NoResponseIsOK
  <2>3. ami = [c \in Connections |-> NewConnection]
    BY DEF Init, AmiInit
  <2>4. NewConnection.pc = "idle"
    BY DEF NewConnection
  <2> QED BY <2>1, <2>2, <2>3, <2>4, AmiAssumption DEF AmiInv, AcceptedWasExecuted
<1>2. \A c \in Connections : ami[c].pc = "idle"
  BY DEF Init, AmiInit, NewConnection
<1>3. Types
  BY RecordsAssumption DEF Init, Types, RowTyped, ExecTyped, RestTyped
<1>4. Orders
  BY <1>2, RecordsAssumption
  DEF Init, Orders, PlacedInOrder, AgentInOrder, RecordedInOrder, CreatedInOrder, CompletedInOrder, NotAsked
<1>5. Truths
  BY DEF Init, Truths, DirectionIsRight, RecordedReason, FlowIsTheExecutions, EventsOfFinalExecution
<1> QED BY <1>1, <1>3, <1>4, <1>5 DEF IInv

\* Every step keeps the invariant.
LEMMA StepsKeep ==
  ASSUME IInv, [Next]_vars
  PROVE  IInv'
<1>1. ASSUME UNCHANGED ami, Types' /\ Orders' /\ Truths'
      PROVE  IInv'
  BY <1>1 DEF IInv, AmiInv, AcceptedWasExecuted
<1>2. CASE Originate
  <2>1. CASE OriginateCall \/ FindFlow \/ CreateExecution \/ CacheExecution \/ StoreMeta
             \/ AmiSettles \/ MarkFailed
    <3>1. UNCHANGED ami
      BY <2>1
      DEF OriginateCall, FindFlow, CreateExecution, CacheExecution, StoreMeta, AmiSettles, MarkFailed
    <3> QED BY <2>1, <3>1, <1>1, OriginateKeeps
  <2> QED BY <1>2, <2>1, StartAgentKeeps DEF Originate
<1>3. CASE Agent \/ AgentDies
  <2>1. CASE CallConnects \/ NoConversation \/ LoadFlow \/ FlowInitialised \/ RecordSent
             \/ Finalized \/ AgentDies
    <3>1. UNCHANGED ami
      BY <2>1
      DEF CallConnects, NoConversation, LoadFlow, FlowInitialised, RecordSent, Finalized, AgentDies
    <3> QED BY <2>1, <3>1, <1>1, AgentKeeps
  <2> QED BY <1>3, <2>1, TransferKeeps, CallEndsKeeps DEF Agent
<1>4. CASE Handlers \/ LosePost \/ Expire
  <2>1. PreRegister \/ StoreRecord \/ FireCallback \/ InitFindFlow \/ InitCreate
        \/ InitCache \/ CompleteUpdate \/ CompleteEvents \/ LosePost \/ Expire
    BY <1>4 DEF Handlers
  <2>2. UNCHANGED ami
    BY <2>1 DEF PreRegister, StoreRecord, FireCallback, InitFindFlow, InitCreate, InitCache,
                CompleteUpdate, CompleteEvents, LosePost, Expire, handlerRest
  <2> QED BY <2>1, <2>2, <1>1, HandlersKeep
<1>5. CASE UNCHANGED vars
  <2>1. Types' /\ Orders' /\ Truths' /\ UNCHANGED ami
    BY <1>5 DEF vars, IInv, Types, RowTyped, ExecTyped, RestTyped, Orders, PlacedInOrder,
                AgentInOrder, RecordedInOrder, CreatedInOrder, CompletedInOrder, Truths,
                DirectionIsRight, RecordedReason, FlowIsTheExecutions, EventsOfFinalExecution
  <2> QED BY <2>1, <1>1
<1> QED
  BY <1>2, <1>3, <1>4, <1>5, RestartKeeps, AmiStepsKeep DEF Next, Over

\* The invariant holds in every state.
LEMMA Invariant == Spec => []IInv
BY InitOK, StepsKeep, PTL DEF Spec

\* Types, for any flows, calls, connections and bounds.
THEOREM TypeCorrect == Spec => []TypeOK
<1>1. IInv => TypeOK
  BY DEF IInv, AmiInv, ConnectionState, Types, RowTyped, ExecTyped, RestTyped, Columns, Executions,
         TypeOK, AmiTypeOK
<1> QED BY <1>1, Invariant, PTL

\* The row and the callback are true of the call, in whatever order the
\* originate handler, the pre-registration and the agent's record arrive.
THEOREM RecordTrue == Spec => []RecordIsTrue
<1>1. IInv => RecordIsTrue
  BY DEF IInv, Orders, RecordedInOrder, Truths, RecordIsTrue, CdrAfterRecord
<1> QED BY <1>1, Invariant, PTL

\* What the originate API answers is true of Asterisk.
THEOREM AnswerTrue == Spec => []OriginateAnswerIsTrue
<1>1. ASSUME IInv
      PROVE  OriginateAnswerIsTrue
  <2>1. AcceptedWasExecuted
    BY <1>1 DEF IInv, AmiInv
  <2>2. req = "accepted" => ami["originate"].executed /\ row # NoRow
    BY <1>1 DEF IInv, Orders, PlacedInOrder
  <2>3. ASSUME req \in REQUEST_FAILURES \ {"ami_failed"}
        PROVE  ~ami["originate"].executed /\ agent.pc = "none"
    BY <1>1, <2>3, NotAskedNotExecuted DEF REQUEST_FAILURES, NotAsked, IInv, Orders, PlacedInOrder
  <2> QED BY <2>1, <2>2, <2>3 DEF OriginateAnswerIsTrue
<1> QED BY <1>1, Invariant, PTL

\* No flow is run without its execution.
THEOREM FlowsAreExecutions == Spec => []FlowIsTheExecutions
BY Invariant, PTL DEF IInv, Truths

\* Events belong to a finalized execution, once.
THEOREM EventsAreFinal == Spec => []EventsOfFinalExecution
BY Invariant, PTL DEF IInv, Truths

\* No writer of the row forgets what an earlier one knew.
THEOREM NothingIsForgotten == Spec => NothingForgotten
<1> DEFINE Kept == row # NoRow =>
                     /\ row'.caller = "" => row.caller = ""
                     /\ row'.did = "" => row.did = ""
                     /\ row.recorded => row'.recorded
<1>1. ASSUME IInv, [Next]_vars
      PROVE  Kept
  <2>1. CASE OriginateCall
    BY <1>1, <2>1 DEF OriginateCall, IInv, Orders, PlacedInOrder
  <2>2. CASE MarkFailed
    <3>1. row # NoRow => row \in Columns
      BY <1>1, RowIsRow DEF IInv, Types
    <3>2. \E reason \in {"agent_start_failed", "originate_failed"} :
            row' = [row EXCEPT !.end_reason = reason]
      BY <2>2 DEF MarkFailed
    <3>3. CASE row # NoRow
      <4>1. PICK reason \in {"agent_start_failed", "originate_failed"} :
              row' = [row EXCEPT !.end_reason = reason]
        BY <3>2
      <4>2. row'.caller = row.caller /\ row'.did = row.did /\ row'.recorded = row.recorded
        BY <3>1, <3>3, <4>1, Marked
      <4> QED BY <4>2
    <3> QED BY <3>3
  <2>3. CASE PreRegister
    BY <1>1, <2>3, PreRegistered DEF PreRegister, IInv, Types
  <2>4. CASE StoreRecord
    BY <1>1, <2>4, Recorded DEF StoreRecord, IInv, Types
  <2>5. CASE UNCHANGED row
    BY <2>5
  <2>6. OriginateCall \/ MarkFailed \/ PreRegister \/ StoreRecord \/ UNCHANGED row
    BY <1>1
    DEF Next, vars, Originate, FindFlow, CreateExecution, CacheExecution, StoreMeta, StartAgent,
         AmiSettles, Agent, agentRest, CallConnects, NoConversation, LoadFlow, FlowInitialised, Transfer,
         CallEnds, RecordSent, Finalized, Handlers, FireCallback, InitFindFlow, InitCreate, InitCache,
         CompleteUpdate, CompleteEvents, LosePost, Restart, Expire, AgentDies, AmiSteps, Over
  <2> QED BY <2>1, <2>2, <2>3, <2>4, <2>5, <2>6
<1> QED BY <1>1, Invariant, PTL DEF Spec, NothingForgotten
=============================================================================
