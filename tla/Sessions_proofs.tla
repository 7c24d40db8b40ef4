---------------------------- MODULE Sessions_proofs ----------------------------
(***************************************************************************)
(* Proofs about Sessions for any sets of logins, callbacks, GitHub          *)
(* accounts, addresses and requests, whether Redis fails or not.            *)
(***************************************************************************)
EXTENDS Sessions, TLAPS

\* What holds of a callback: the state it took is gone and no other took it,
\* and from the row it stored on, that row is the account's it asked about.
SignedIn(c) ==
  /\ callback[c].login # None => states[callback[c].login] = "gone"
  /\ \A d \in Callbacks :
       c # d /\ callback[c].login = callback[d].login => callback[c].login = None
  /\ users[c] # None => callback[c].pc \in {"stored", "opened", "refused"}
  /\ callback[c].pc = "known" => callback[c].identity # None /\ callback[c].email # None
  /\ callback[c].pc \in {"stored", "opened"} =>
       /\ callback[c].user # None
       /\ users[callback[c].user] # None
       /\ users[callback[c].user].identity = callback[c].identity

\* A session or key that is there was opened or created for its user, and has
\* not been given up.
IssuedInv ==
  /\ \A c \in Callbacks : sessions[c] # None =>
       c \in Cookies /\ sessions[c] = callback[c].user /\ c \notin ended
  /\ \A k \in Requests : keys[k] # None =>
       k \in Answered("create_key") /\ keys[k] = request[k].user /\ k \notin ended
  /\ ended \subseteq Cookies \cup Answered("create_key")

\* What a request brings was handed out before, and a user it acts for is one
\* its cookie or key was issued to.
Entitled(r) ==
  /\ request[r].cookie \in Cookies \cup {None, Admin}
  /\ request[r].key \in Answered("create_key") \cup {None, Admin}
  /\ request[r].ended \subseteq ended
  /\ request[r].pc = "key" => request[r].key \in Requests
  /\ request[r].pc = "logout" => request[r].does = "logout"
  /\ request[r].pc # "done" =>
       /\ request[r].does = "revoke_key" => request[r].of \in Answered("create_key")
       /\ request[r].does \in {"update_flow", "deactivate_flow"} =>
            request[r].of \in Answered("create_flow")
  /\ request[r].pc \in {"touch", "handle"} => request[r].user \in IssuedTo(r)

\* A created flow stays, and who wrote it last had the right to.
KeptFor(f) ==
  /\ f \in Answered("create_flow") => flows[f] # None
  /\ flows[f] # None =>
       request[flows[f].by].pc = "done" /\ request[flows[f].by].user \in {flows[f].owner, Admin}

Inv ==
  /\ TypeOK
  /\ \A c \in Callbacks : SignedIn(c)
  /\ IssuedInv
  /\ \A r \in Requests : Entitled(r)
  /\ \A f \in Requests : KeptFor(f)

USE SessionsAssumption DEF SessionsAssumption

LEMMA InitInv == Init => Inv
<1> SUFFICES ASSUME Init PROVE Inv
  OBVIOUS
<1> USE DEF Init
<1>1. TypeOK
  <2>1. request \in [Requests -> [pc : {"idle"}, does : {None}, of : {None}, cookie : {None},
                                  key : {None}, user : {None}, ended : {{}}]]
    BY DEF Idle
  <2> QED BY <2>1 DEF TypeOK
<1>2. \A c \in Callbacks : SignedIn(c)
  BY DEF SignedIn
<1>3. IssuedInv
  BY DEF IssuedInv
<1>4. \A r \in Requests : Entitled(r)
  BY DEF Entitled, Idle, KINDS, IssuedTo
<1>5. \A f \in Requests : KeptFor(f)
  BY DEF KeptFor, Answered, Idle
<1> QED BY <1>1, <1>2, <1>3, <1>4, <1>5 DEF Inv

----------------------------------------------------------------------------
(* Signing in                                                               *)

\* Nothing a request relies on changes while sessions stay as they were opened.
LEMMA RequestsKept ==
  ASSUME Inv, UNCHANGED work, ended \subseteq ended',
         \A c \in Cookies : callback'[c] = callback[c]
  PROVE  /\ \A r \in Requests : Entitled(r)'
         /\ \A f \in Requests : KeptFor(f)'
<1>1. Cookies \subseteq Cookies'
  BY DEF Cookies
<1>2. ASSUME NEW kind
      PROVE  Answered(kind)' = Answered(kind)
  BY DEF Answered, work
<1>3. ASSUME NEW r \in Requests
      PROVE  Entitled(r)'
  <2>1. Entitled(r) /\ request[r].cookie \in Cookies \cup {None, Admin}
    BY DEF Inv, Entitled
  <2>2. IssuedTo(r)' = IssuedTo(r)
    BY <2>1 DEF IssuedTo, work, Cookies
  <2> QED BY <1>1, <1>2, <2>1, <2>2 DEF Entitled, work
<1>4. ASSUME NEW f \in Requests
      PROVE  KeptFor(f)'
  BY <1>2 DEF Inv, KeptFor, work
<1> QED BY <1>3, <1>4

CallbackRecord ==
  [pc : {"idle", "asking", "known", "stored", "opened", "refused"}, login : Logins \cup {None},
   identity : Identities \cup {None}, email : Emails \cup {None}, user : Callbacks \cup {None}]

\* A step of a callback that is not over, up to the row it stores.
LEMMA CallbackStep ==
  ASSUME Inv, NEW c \in Callbacks, NEW new \in CallbackRecord,
         callback' = [callback EXCEPT ![c] = new],
         callback[c].pc # "opened", new.pc # "opened",
         UNCHANGED <<sessions, ended, work>>
  PROVE  /\ callback' \in [Callbacks -> CallbackRecord]
         /\ IssuedInv'
         /\ \A r \in Requests : Entitled(r)'
         /\ \A f \in Requests : KeptFor(f)'
<1>1. /\ callback' \in [Callbacks -> CallbackRecord]
      /\ \A d \in Cookies : callback'[d] = callback[d]
  BY DEF Inv, TypeOK, Cookies, CallbackRecord
<1>2. IssuedInv'
  BY <1>1 DEF Inv, IssuedInv, work, Cookies, Answered
<1> QED BY <1>1, <1>2, RequestsKept

LEMMA LoginInv ==
  ASSUME Inv, NEW l \in Logins, github_login(l) \/ ExpireState(l)
  PROVE  Inv'
<1>1. TypeOK'
  BY DEF Inv, TypeOK, github_login, ExpireState, work
<1>2. \A c \in Callbacks : SignedIn(c)'
  BY DEF Inv, TypeOK, SignedIn, github_login, ExpireState
<1>3. IssuedInv'
  BY DEF Inv, IssuedInv, github_login, ExpireState, work, Cookies, Answered
<1>4. /\ \A r \in Requests : Entitled(r)'
      /\ \A f \in Requests : KeptFor(f)'
  BY RequestsKept DEF github_login, ExpireState
<1> QED BY <1>1, <1>2, <1>3, <1>4 DEF Inv

LEMMA RefuseInv ==
  ASSUME Inv, NEW c \in Callbacks, callback[c].pc # "opened", refuse(c),
         UNCHANGED <<states, users, sessions, ended, work>>
  PROVE  Inv'
<1> DEFINE new == [callback[c] EXCEPT !.pc = "refused", !.identity = None, !.email = None, !.user = None]
<1>1. callback[c] \in CallbackRecord
  BY DEF Inv, TypeOK, CallbackRecord
<1>2. callback' = [callback EXCEPT ![c] = new] /\ new \in CallbackRecord
  BY <1>1 DEF refuse, CallbackRecord
<1>3. new.pc = "refused" /\ new.login = callback[c].login
  BY <1>1 DEF CallbackRecord
<1> HIDE DEF new
<1>4. /\ callback' \in [Callbacks -> CallbackRecord]
      /\ IssuedInv'
      /\ \A r \in Requests : Entitled(r)'
      /\ \A f \in Requests : KeptFor(f)'
  BY <1>2, <1>3, CallbackStep
<1>5. TypeOK'
  BY <1>4 DEF Inv, TypeOK, work, CallbackRecord
<1>6. \A d \in Callbacks : SignedIn(d)'
  BY <1>2, <1>3 DEF Inv, TypeOK, SignedIn
<1> QED BY <1>4, <1>5, <1>6 DEF Inv

LEMMA TakeStateInv ==
  ASSUME Inv, NEW c \in Callbacks, TakeState(c)
  PROVE  Inv'
<1>1. CASE refuse(c) /\ UNCHANGED states
  BY <1>1, RefuseInv DEF TakeState
<1>2. ASSUME NEW l \in Logins, states[l] = "stored", states' = [states EXCEPT ![l] = "gone"],
             callback' = [callback EXCEPT ![c] = [@ EXCEPT !.pc = "asking", !.login = l]]
      PROVE  Inv'
  <2> DEFINE new == [callback[c] EXCEPT !.pc = "asking", !.login = l]
  <2>1. callback[c] \in CallbackRecord
    BY DEF Inv, TypeOK, CallbackRecord
  <2>2. callback' = [callback EXCEPT ![c] = new] /\ new \in CallbackRecord
    BY <1>2, <2>1 DEF CallbackRecord
  <2>3. new.pc = "asking" /\ new.login = l
    BY <2>1 DEF CallbackRecord
  <2> HIDE DEF new
  <2>4. /\ callback' \in [Callbacks -> CallbackRecord]
        /\ IssuedInv'
        /\ \A r \in Requests : Entitled(r)'
        /\ \A f \in Requests : KeptFor(f)'
    BY <2>2, <2>3, CallbackStep DEF TakeState
  <2>5. TypeOK'
    BY <1>2, <2>4 DEF Inv, TypeOK, TakeState, work, CallbackRecord
  <2>6. ASSUME NEW d \in Callbacks
        PROVE  SignedIn(d)'
    <3>1. /\ \A e \in Callbacks : SignedIn(e)
          /\ callback'[c] = new
          /\ \A e \in Callbacks : e # c => callback'[e] = callback[e]
          /\ \A m \in Logins : states'[m] = IF m = l THEN "gone" ELSE states[m]
          /\ \A e \in Callbacks : callback[e].login \in Logins \cup {None}
          /\ users' = users
      BY <1>2, <2>2 DEF Inv, TypeOK, TakeState
    <3>2. \A e \in Callbacks : callback[e].login # l
      BY <1>2, <3>1 DEF SignedIn
    <3>3. users[c] = None
      BY <3>1 DEF SignedIn, TakeState
    <3>4. CASE d = c
      BY <2>3, <3>1, <3>2, <3>3, <3>4 DEF SignedIn
    <3>5. CASE d # c
      BY <2>3, <3>1, <3>2, <3>5 DEF SignedIn
    <3> QED BY <3>4, <3>5
  <2> QED BY <2>4, <2>5, <2>6 DEF Inv
<1> QED BY <1>1, <1>2 DEF TakeState

LEMMA AskGitHubInv ==
  ASSUME Inv, NEW c \in Callbacks, AskGitHub(c)
  PROVE  Inv'
<1>1. CASE refuse(c)
  BY <1>1, RefuseInv DEF AskGitHub
<1>2. ASSUME NEW identity \in Identities, NEW email \in Emails,
             callback' = [callback EXCEPT ![c] = [@ EXCEPT !.pc = "known", !.identity = identity,
                                                           !.email = email]]
      PROVE  Inv'
  <2> DEFINE new == [callback[c] EXCEPT !.pc = "known", !.identity = identity, !.email = email]
  <2>1. callback[c] \in CallbackRecord
    BY DEF Inv, TypeOK, CallbackRecord
  <2>2. callback' = [callback EXCEPT ![c] = new] /\ new \in CallbackRecord
    BY <1>2, <2>1 DEF CallbackRecord
  <2>3. new.pc = "known" /\ new.login = callback[c].login /\ new.identity = identity /\ new.email = email
    BY <2>1 DEF CallbackRecord
  <2> HIDE DEF new
  <2>4. /\ callback' \in [Callbacks -> CallbackRecord]
        /\ IssuedInv'
        /\ \A r \in Requests : Entitled(r)'
        /\ \A f \in Requests : KeptFor(f)'
    BY <2>2, <2>3, CallbackStep DEF AskGitHub
  <2>5. TypeOK'
    BY <2>4 DEF Inv, TypeOK, AskGitHub, work, CallbackRecord
  <2>6. ASSUME NEW d \in Callbacks
        PROVE  SignedIn(d)'
    <3>1. SignedIn(c) /\ SignedIn(d)
      BY DEF Inv
    <3>2. CASE d = c
      BY <2>2, <2>3, <3>1, <3>2 DEF Inv, TypeOK, SignedIn, AskGitHub
    <3>3. CASE d # c
      BY <2>2, <2>3, <3>1, <3>3 DEF Inv, TypeOK, SignedIn, AskGitHub
    <3> QED BY <3>2, <3>3
  <2> QED BY <2>4, <2>5, <2>6 DEF Inv
<1> QED BY <1>1, <1>2 DEF AskGitHub

LEMMA StoreUserInv ==
  ASSUME Inv, NEW c \in Callbacks, StoreUser(c)
  PROVE  Inv'
<1>1. CASE refuse(c) /\ UNCHANGED users
  BY <1>1, RefuseInv DEF StoreUser
<1>2. ASSUME NEW u \in Callbacks, upsert(c, u),
             callback' = [callback EXCEPT ![c] = [@ EXCEPT !.pc = "stored", !.user = u, !.email = None]]
      PROVE  Inv'
  <2> DEFINE new == [callback[c] EXCEPT !.pc = "stored", !.user = u, !.email = None]
  <2> DEFINE row == [identity |-> callback[c].identity, email |-> callback[c].email]
  <2>1. callback[c] \in CallbackRecord /\ row \in User
    BY DEF Inv, TypeOK, CallbackRecord, SignedIn, StoreUser, User
  <2>2. callback' = [callback EXCEPT ![c] = new] /\ new \in CallbackRecord
    BY <1>2, <2>1 DEF CallbackRecord
  <2>3. /\ new.pc = "stored" /\ new.login = callback[c].login
        /\ new.identity = callback[c].identity /\ new.user = u
    BY <2>1 DEF CallbackRecord
  <2>4. /\ users' = [users EXCEPT ![u] = row]
        /\ \/ u = c /\ users[c] = None
           \/ users[u] # None /\ users[u].identity = row.identity
    BY <1>2 DEF upsert, RowsWith, Inv, SignedIn, StoreUser
  <2>5. row # None /\ row.identity = callback[c].identity /\ u # None
    BY <2>1
  <2> HIDE DEF new, row
  <2>6. /\ callback' \in [Callbacks -> CallbackRecord]
        /\ IssuedInv'
        /\ \A r \in Requests : Entitled(r)'
        /\ \A f \in Requests : KeptFor(f)'
    BY <2>2, <2>3, CallbackStep DEF StoreUser
  <2>7. TypeOK'
    BY <2>1, <2>4, <2>6 DEF Inv, TypeOK, StoreUser, work, CallbackRecord
  <2>8. ASSUME NEW d \in Callbacks
        PROVE  SignedIn(d)'
    <3>1. /\ \A e \in Callbacks : SignedIn(e)
          /\ callback'[c] = new
          /\ \A e \in Callbacks : e # c => callback'[e] = callback[e]
          /\ \A e \in Callbacks : users'[e] = IF e = u THEN row ELSE users[e]
          /\ states' = states
      BY <2>2, <2>4 DEF Inv, TypeOK, StoreUser
    <3>2. callback[d].user \in Callbacks \cup {None}
      BY DEF Inv, TypeOK
    <3>3. d = u => callback'[d].pc \in {"stored", "opened", "refused"}
      BY <2>3, <2>4, <3>1 DEF SignedIn
    <3>4. CASE d = c
      BY <2>3, <2>5, <3>1, <3>4 DEF SignedIn
    <3>5. CASE d # c
      BY <2>3, <2>4, <2>5, <3>1, <3>2, <3>3, <3>5 DEF SignedIn
    <3> QED BY <3>4, <3>5
  <2> QED BY <2>6, <2>7, <2>8 DEF Inv
<1> QED BY <1>1, <1>2 DEF StoreUser

LEMMA OpenSessionInv ==
  ASSUME Inv, NEW c \in Callbacks, OpenSession(c)
  PROVE  Inv'
<1>1. CASE refuse(c) /\ UNCHANGED sessions
  BY <1>1, RefuseInv DEF OpenSession
<1>2. ASSUME sessions' = [sessions EXCEPT ![c] = callback[c].user],
             callback' = [callback EXCEPT ![c] = [@ EXCEPT !.pc = "opened"]]
      PROVE  Inv'
  <2> DEFINE new == [callback[c] EXCEPT !.pc = "opened"]
  <2>1. callback[c] \in CallbackRecord
    BY DEF Inv, TypeOK, CallbackRecord
  <2>2. callback' = [callback EXCEPT ![c] = new] /\ new \in CallbackRecord
    BY <1>2, <2>1 DEF CallbackRecord
  <2>3. /\ new.pc = "opened" /\ new.login = callback[c].login
        /\ new.identity = callback[c].identity /\ new.user = callback[c].user
    BY <2>1 DEF CallbackRecord
  <2> HIDE DEF new
  <2>4. \A d \in Cookies : callback'[d] = callback[d]
    BY <2>2 DEF Inv, TypeOK, Cookies, OpenSession
  <2>5. /\ \A r \in Requests : Entitled(r)'
        /\ \A f \in Requests : KeptFor(f)'
    BY <2>4, RequestsKept DEF OpenSession
  <2>6. TypeOK'
    BY <1>2, <2>1, <2>2 DEF Inv, TypeOK, OpenSession, work, CallbackRecord
  <2>7. ASSUME NEW d \in Callbacks
        PROVE  SignedIn(d)'
    <3>1. SignedIn(c) /\ SignedIn(d)
      BY DEF Inv
    <3>2. CASE d = c
      BY <2>2, <2>3, <3>1, <3>2 DEF Inv, TypeOK, SignedIn, OpenSession
    <3>3. CASE d # c
      BY <2>2, <2>3, <3>1, <3>3 DEF Inv, TypeOK, SignedIn, OpenSession
    <3> QED BY <3>2, <3>3
  <2>8. c \notin ended
    BY DEF Inv, IssuedInv, OpenSession, Cookies, Answered
  <2>9. IssuedInv'
    BY <1>2, <2>2, <2>3, <2>4, <2>8 DEF Inv, TypeOK, IssuedInv, OpenSession, work, Cookies, Answered
  <2> QED BY <2>5, <2>6, <2>7, <2>9 DEF Inv
<1> QED BY <1>1, <1>2 DEF OpenSession, Fails

LEMMA ExpireSessionInv ==
  ASSUME Inv, NEW c \in Callbacks, ExpireSession(c)
  PROVE  Inv'
<1>1. TypeOK'
  BY DEF Inv, TypeOK, ExpireSession, accounts, work
<1>2. \A d \in Callbacks : SignedIn(d)'
  BY DEF Inv, SignedIn, ExpireSession, accounts
<1>3. IssuedInv'
  <2>1. c \in Cookies /\ \A d \in Callbacks : sessions'[d] = IF d = c THEN None ELSE sessions[d]
    BY DEF Inv, TypeOK, IssuedInv, ExpireSession
  <2>2. Cookies' = Cookies /\ Answered("create_key")' = Answered("create_key")
    BY DEF ExpireSession, accounts, work, Cookies, Answered
  <2> QED BY <2>1, <2>2 DEF Inv, IssuedInv, ExpireSession, accounts, work
<1>4. /\ \A r \in Requests : Entitled(r)'
      /\ \A f \in Requests : KeptFor(f)'
  BY RequestsKept DEF ExpireSession, accounts
<1> QED BY <1>1, <1>2, <1>3, <1>4 DEF Inv

----------------------------------------------------------------------------
(* Requests                                                                 *)

RequestRecord ==
  [pc : {"idle", "session", "key", "touch", "handle", "logout", "done", "refused"},
   does : KINDS \cup {None}, of : Requests \cup {None},
   cookie : Callbacks \cup {None, Admin}, key : Requests \cup {None, Admin},
   user : Callbacks \cup {None, Admin}, ended : SUBSET (Callbacks \cup Requests)]

\* A step of one request: what was answered stays so, and other requests and
\* those who signed in are as they were.
LEMMA RequestStep ==
  ASSUME Inv, NEW r \in Requests, NEW new \in RequestRecord,
         request[r].pc # "done", request' = [request EXCEPT ![r] = new],
         ended \subseteq ended', UNCHANGED accounts
  PROVE  /\ request' \in [Requests -> RequestRecord]
         /\ request'[r] = new
         /\ \A s \in Requests : s # r => request'[s] = request[s]
         /\ \A s \in Requests : request[s].pc = "done" => request'[s] = request[s]
         /\ \A kind : Answered(kind) \subseteq Answered(kind)'
         /\ \A c \in Callbacks : SignedIn(c)'
         /\ \A s \in Requests : s # r => Entitled(s)'
<1>1. /\ request' \in [Requests -> RequestRecord]
      /\ request'[r] = new
      /\ \A s \in Requests : s # r => request'[s] = request[s]
  BY DEF Inv, TypeOK, RequestRecord
<1>2. \A s \in Requests : request[s].pc = "done" => request'[s] = request[s]
  BY <1>1
<1>3. \A kind : Answered(kind) \subseteq Answered(kind)'
  BY <1>2 DEF Answered
<1>4. \A c \in Callbacks : SignedIn(c)'
  BY DEF Inv, SignedIn, accounts
<1>5. Cookies' = Cookies
  BY DEF Cookies, accounts
<1>6. ASSUME NEW s \in Requests, s # r
      PROVE  Entitled(s)'
  <2>1. Entitled(s)
    BY DEF Inv
  <2>2. IssuedTo(s)' = IssuedTo(s)
    <3>1. request[s].key \in Requests => request'[request[s].key] = request[request[s].key]
      BY <1>2, <2>1 DEF Entitled, Answered
    <3> QED BY <1>1, <1>6, <3>1 DEF IssuedTo, accounts
  <2> QED BY <1>1, <1>3, <1>5, <1>6, <2>1, <2>2 DEF Entitled
<1> QED BY <1>1, <1>2, <1>3, <1>4, <1>6

\* A step of a request that is not its answer.
LEMMA UnansweredStep ==
  ASSUME Inv, NEW r \in Requests, NEW new \in RequestRecord,
         request[r].pc # "done", new.pc # "done",
         request' = [request EXCEPT ![r] = new],
         UNCHANGED <<accounts, sessions, keys, flows, ended>>, Entitled(r)'
  PROVE  Inv'
<1>1. /\ request' \in [Requests -> RequestRecord]
      /\ request'[r] = new
      /\ \A s \in Requests : s # r => request'[s] = request[s]
      /\ \A s \in Requests : request[s].pc = "done" => request'[s] = request[s]
      /\ \A kind : Answered(kind) \subseteq Answered(kind)'
      /\ \A c \in Callbacks : SignedIn(c)'
      /\ \A s \in Requests : s # r => Entitled(s)'
  BY RequestStep
<1>2. TypeOK'
  BY <1>1 DEF Inv, TypeOK, accounts, RequestRecord
<1>3. IssuedInv'
  <2>1. Cookies' = Cookies
    BY DEF Cookies, accounts
  <2>2. \A k \in Answered("create_key") : request'[k] = request[k]
    BY <1>1 DEF Answered
  <2> QED BY <1>1, <2>1, <2>2 DEF Inv, IssuedInv, accounts
<1>4. \A f \in Requests : KeptFor(f)'
  <2>1. Answered("create_flow")' = Answered("create_flow")
    BY <1>1 DEF Answered
  <2>2. ASSUME NEW f \in Requests
        PROVE  KeptFor(f)'
    <3>1. KeptFor(f) /\ (flows[f] # None => flows[f].by \in Requests)
      BY DEF Inv, TypeOK, Flow
    <3> QED BY <1>1, <2>1, <3>1 DEF KeptFor
  <2> QED BY <2>2
<1> QED BY <1>1, <1>2, <1>3, <1>4 DEF Inv

LEMMA RefusedInv ==
  ASSUME Inv, NEW r \in Requests, request[r].pc # "done", Refused(r),
         UNCHANGED <<accounts, sessions, keys, flows, ended>>
  PROVE  Inv'
<1> DEFINE new == [Idle EXCEPT !.pc = "refused"]
<1>1. new \in RequestRecord /\ request' = [request EXCEPT ![r] = new]
  BY DEF Refused, Idle, RequestRecord
<1>2. /\ new.pc = "refused" /\ new.cookie = None /\ new.key = None
      /\ new.does = None /\ new.ended = {}
  BY DEF Idle
<1> HIDE DEF new
<1>3. request'[r] = new
  BY <1>1 DEF Inv, TypeOK
<1>4. Entitled(r)'
  BY <1>2, <1>3 DEF Entitled, KINDS
<1> QED BY <1>1, <1>2, <1>4, UnansweredStep

LEMMA ArriveInv ==
  ASSUME Inv, NEW r \in Requests, Arrive(r)
  PROVE  Inv'
<1>1. PICK does \in KINDS, cookie \in Cookies \cup {None, Admin},
           key \in Answered("create_key") \cup {None, Admin}, of \in Requests \cup {None} :
        /\ IF does = "revoke_key" THEN of \in Answered("create_key")
           ELSE IF does \in {"update_flow", "deactivate_flow"} THEN of \in Answered("create_flow")
           ELSE of = None
        /\ request' = [request EXCEPT ![r] =
                         [pc |-> IF does = "logout" THEN "logout" ELSE "session", does |-> does,
                          of |-> of, cookie |-> cookie, key |-> key, user |-> None,
                          ended |-> ended \cap {cookie, key}]]
  BY DEF Arrive
<1> DEFINE new == [pc |-> IF does = "logout" THEN "logout" ELSE "session", does |-> does,
                   of |-> of, cookie |-> cookie, key |-> key, user |-> None,
                   ended |-> ended \cap {cookie, key}]
<1>2. new \in RequestRecord
  <2>1. ended \cap {cookie, key} \in SUBSET (Callbacks \cup Requests)
    BY DEF Inv, TypeOK
  <2> QED BY <2>1 DEF RequestRecord, Cookies, Answered
<1>3. request[r].pc = "idle" /\ new.pc \in {"logout", "session"}
  BY DEF Arrive, Idle
<1>4. /\ request'[r] = new
      /\ UNCHANGED <<accounts, sessions, keys, flows, ended>>
      /\ \A kind : Answered(kind) \subseteq Answered(kind)'
  BY <1>1, <1>2, <1>3, RequestStep DEF Arrive
<1>5. Cookies' = Cookies
  BY <1>4 DEF Cookies, accounts
<1>6. Entitled(r)'
  BY <1>1, <1>4, <1>5 DEF Entitled
<1> QED BY <1>1, <1>2, <1>3, <1>4, <1>6, UnansweredStep

\* A request goes on for a user its cookie or key was issued to.
LEMMA ActingInv ==
  ASSUME Inv, NEW r \in Requests, NEW user \in IssuedTo(r), NEW pc \in {"touch", "handle"},
         request[r].pc # "done", ActsFor(r, user, pc),
         UNCHANGED <<accounts, sessions, keys, flows, ended>>
  PROVE  Inv'
<1> DEFINE new == [request[r] EXCEPT !.pc = pc, !.user = user]
<1>1. request[r] \in RequestRecord /\ Entitled(r)
  BY DEF Inv, TypeOK, RequestRecord
<1>2. user \in Callbacks \cup {None, Admin}
  BY <1>1 DEF Inv, TypeOK, IssuedTo
<1>3. new \in RequestRecord /\ request' = [request EXCEPT ![r] = new]
  BY <1>1, <1>2 DEF ActsFor, RequestRecord
<1>4. /\ new.pc = pc /\ new.user = user
      /\ new.does = request[r].does /\ new.of = request[r].of /\ new.ended = request[r].ended
      /\ new.cookie = request[r].cookie /\ new.key = request[r].key
  BY <1>1 DEF RequestRecord
<1> HIDE DEF new
<1>5. /\ request'[r] = new
      /\ \A s \in Requests : request[s].pc = "done" => request'[s] = request[s]
      /\ \A kind : Answered(kind) \subseteq Answered(kind)'
  BY <1>3, RequestStep
<1>6. Cookies' = Cookies
  BY DEF Cookies, accounts
<1>7. IssuedTo(r)' = IssuedTo(r)
  <2>1. request[r].key \in Requests => request'[request[r].key] = request[request[r].key]
    BY <1>1, <1>5 DEF Entitled, Answered
  <2> QED BY <1>4, <1>5, <2>1 DEF IssuedTo, accounts
<1>8. Entitled(r)'
  BY <1>1, <1>4, <1>5, <1>6, <1>7 DEF Entitled
<1> QED BY <1>3, <1>4, <1>8, UnansweredStep

LEMMA SessionUserInv ==
  ASSUME Inv, NEW r \in Requests, get_session_user(r)
  PROVE  Inv'
<1>1. request[r].pc = "session" /\ Entitled(r) /\ request[r] \in RequestRecord
      /\ UNCHANGED <<accounts, sessions, keys, flows, ended>>
  BY DEF Inv, TypeOK, RequestRecord, get_session_user
<1>2. ASSUME NEW found \in BOOLEAN, SessionUser(r, found) # None
      PROVE  SessionUser(r, found) \in IssuedTo(r)
  <2>1. CASE request[r].cookie = Admin
    BY <2>1 DEF SessionUser, IssuedTo
  <2>2. CASE request[r].cookie # Admin
    <3>1. /\ request[r].cookie \in Callbacks
          /\ SessionUser(r, found) = sessions[request[r].cookie]
      BY <1>2, <2>2 DEF SessionUser
    <3>2. /\ sessions[request[r].cookie] = callback[request[r].cookie].user
          /\ request[r].cookie \notin request[r].ended
      BY <1>1, <1>2, <3>1 DEF Inv, IssuedInv, Entitled
    <3> QED BY <3>1, <3>2 DEF IssuedTo
  <2> QED BY <2>1, <2>2
<1>3. CASE \E found \in BOOLEAN : SessionUser(r, found) # None /\ ActsFor(r, SessionUser(r, found), "handle")
  BY <1>1, <1>2, <1>3, ActingInv
<1>4. CASE request[r].key = Admin /\ ActsFor(r, Admin, "handle")
  <2>1. Admin \in IssuedTo(r)
    BY <1>4 DEF IssuedTo
  <2> QED BY <1>1, <1>4, <2>1, ActingInv
<1>5. CASE Refused(r)
  BY <1>1, <1>5, RefusedInv
<1>6. CASE request[r].key \notin {Admin, None} /\ Goes(r, "key")
  <2> DEFINE new == [request[r] EXCEPT !.pc = "key"]
  <2>1. new \in RequestRecord /\ request' = [request EXCEPT ![r] = new]
    BY <1>1, <1>6 DEF Goes, RequestRecord
  <2>2. /\ new.pc = "key" /\ new.key = request[r].key /\ new.cookie = request[r].cookie
        /\ new.does = request[r].does /\ new.of = request[r].of /\ new.ended = request[r].ended
    BY <1>1 DEF RequestRecord
  <2> HIDE DEF new
  <2>3. /\ request'[r] = new
        /\ \A kind : Answered(kind) \subseteq Answered(kind)'
    BY <1>1, <2>1, RequestStep
  <2>4. Cookies' = Cookies
    BY <1>1 DEF Cookies, accounts
  <2>5. Entitled(r)'
    BY <1>1, <1>6, <2>2, <2>3, <2>4 DEF Entitled, Answered
  <2> QED BY <1>1, <2>1, <2>2, <2>5, UnansweredStep
<1>7. PICK fails \in Fails :
        IF SessionUser(r, ~fails) # None THEN ActsFor(r, SessionUser(r, ~fails), "handle")
        ELSE IF request[r].key = Admin THEN ActsFor(r, Admin, "handle")
        ELSE IF request[r].key = None THEN Refused(r) ELSE Goes(r, "key")
  BY DEF get_session_user
<1>8. (~fails) \in BOOLEAN
  OBVIOUS
<1> QED BY <1>3, <1>4, <1>5, <1>6, <1>7, <1>8

LEMMA ApiKeyInv ==
  ASSUME Inv, NEW r \in Requests, get_user_for_api_key(r)
  PROVE  Inv'
<1>1. /\ request[r].pc = "key" /\ Entitled(r)
      /\ UNCHANGED <<accounts, sessions, keys, flows, ended>>
  BY DEF Inv, get_user_for_api_key
<1>2. CASE keys[request[r].key] # None /\ ActsFor(r, keys[request[r].key], "touch")
  <2>1. /\ keys[request[r].key] = request[request[r].key].user
        /\ request[r].key \in Requests /\ request[r].key \notin request[r].ended
    BY <1>1, <1>2 DEF Inv, IssuedInv, Entitled
  <2>2. keys[request[r].key] \in IssuedTo(r)
    BY <2>1 DEF IssuedTo
  <2> QED BY <1>1, <1>2, <2>2, ActingInv
<1> QED BY <1>1, <1>2, RefusedInv DEF get_user_for_api_key

LEMMA TouchKeyInv ==
  ASSUME Inv, NEW r \in Requests, TouchKey(r)
  PROVE  Inv'
<1>1. /\ request[r].pc = "touch" /\ request[r].user \in IssuedTo(r)
      /\ request[r] \in RequestRecord
      /\ UNCHANGED <<accounts, sessions, keys, flows, ended>>
  BY DEF Inv, TypeOK, RequestRecord, Entitled, TouchKey
<1>2. CASE Goes(r, "handle")
  <2>1. [request[r] EXCEPT !.pc = "handle"] = [request[r] EXCEPT !.pc = "handle", !.user = request[r].user]
    BY <1>1 DEF RequestRecord
  <2>2. ActsFor(r, request[r].user, "handle")
    BY <1>2, <2>1 DEF Goes, ActsFor
  <2> QED BY <1>1, <2>2, ActingInv
<1> QED BY <1>1, <1>2, RefusedInv DEF TouchKey

\* The answer to a request: what it leaves is what it did and for whom.
LEMMA AnswerStep ==
  ASSUME Inv, NEW r \in Requests, request[r].pc \in {"handle", "logout"}, Done(r),
         ended \subseteq ended', UNCHANGED accounts
  PROVE  /\ request' \in [Requests -> RequestRecord]
         /\ request'[r].pc = "done" /\ request'[r].does = request[r].does
         /\ request'[r].user = request[r].user
         /\ \A s \in Requests : s # r => request'[s] = request[s]
         /\ \A kind : Answered(kind) \subseteq Answered(kind)'
         /\ \A kind : kind # request[r].does => Answered(kind)' = Answered(kind)
         /\ \A kind : \A k \in Answered(kind) : k # r /\ request'[k] = request[k]
         /\ Cookies' = Cookies
         /\ \A c \in Callbacks : SignedIn(c)'
         /\ \A s \in Requests : Entitled(s)'
<1> DEFINE new == [Idle EXCEPT !.pc = "done", !.does = request[r].does, !.user = request[r].user]
<1>1. request[r] \in RequestRecord
  BY DEF Inv, TypeOK, RequestRecord
<1>2. new \in RequestRecord /\ request' = [request EXCEPT ![r] = new]
  BY <1>1 DEF Done, Idle, RequestRecord
<1>3. /\ new.pc = "done" /\ new.does = request[r].does /\ new.user = request[r].user
      /\ new.cookie = None /\ new.key = None /\ new.ended = {}
  BY DEF Idle
<1> HIDE DEF new
<1>4. /\ request' \in [Requests -> RequestRecord]
      /\ request'[r] = new
      /\ \A s \in Requests : s # r => request'[s] = request[s]
      /\ \A kind : Answered(kind) \subseteq Answered(kind)'
      /\ \A c \in Callbacks : SignedIn(c)'
      /\ \A s \in Requests : s # r => Entitled(s)'
  BY <1>2, RequestStep
<1>5. Entitled(r)'
  BY <1>3, <1>4 DEF Entitled
<1>6. \A kind : kind # request[r].does => Answered(kind)' = Answered(kind)
  BY <1>3, <1>4 DEF Answered
<1>7. \A kind : \A k \in Answered(kind) : k # r /\ request'[k] = request[k]
  BY <1>4 DEF Answered
<1>8. Cookies' = Cookies
  BY DEF Cookies, accounts
<1> QED BY <1>3, <1>4, <1>5, <1>6, <1>7, <1>8

LEMMA LogoutInv ==
  ASSUME Inv, NEW r \in Requests, logout(r)
  PROVE  Inv'
<1>1. /\ request[r].pc = "logout" /\ request[r].does = "logout"
      /\ Done(r) /\ ended \subseteq ended'
      /\ UNCHANGED <<accounts, keys, flows>>
      /\ request[r].cookie \in Cookies \cup {None, Admin}
  BY DEF Inv, Entitled, logout
<1>2. /\ request' \in [Requests -> RequestRecord]
      /\ \A kind : Answered(kind) \subseteq Answered(kind)'
      /\ \A kind : kind # "logout" => Answered(kind)' = Answered(kind)
      /\ \A kind : \A k \in Answered(kind) : k # r /\ request'[k] = request[k]
      /\ Cookies' = Cookies
      /\ \A c \in Callbacks : SignedIn(c)'
      /\ \A s \in Requests : Entitled(s)'
      /\ \A s \in Requests : request[s].pc = "done" => request'[s] = request[s]
  BY <1>1, AnswerStep
<1>3. \/ UNCHANGED <<sessions, ended>>
      \/ /\ request[r].cookie \in Cookies
         /\ sessions' = [sessions EXCEPT ![request[r].cookie] = None]
         /\ ended' = ended \cup {request[r].cookie}
  BY <1>1 DEF logout
<1>4. TypeOK'
  BY <1>1, <1>2, <1>3 DEF Inv, TypeOK, accounts, RequestRecord, Cookies
<1>5. IssuedInv'
  <2>1. Answered("create_key")' = Answered("create_key")
    BY <1>2
  <2>2. \A c \in Callbacks : sessions'[c] # None => sessions'[c] = sessions[c] /\ c \notin ended' \ ended
    BY <1>3 DEF Inv, TypeOK, Cookies
  <2>3. \A k \in Requests : k \notin ended' \ ended
    BY <1>3 DEF Cookies
  <2> QED BY <1>1, <1>2, <1>3, <2>1, <2>2, <2>3 DEF Inv, IssuedInv, accounts
<1>6. ASSUME NEW f \in Requests
      PROVE  KeptFor(f)'
  <2>1. KeptFor(f) /\ (flows[f] # None => flows[f].by \in Requests)
    BY DEF Inv, TypeOK, Flow
  <2>2. Answered("create_flow")' = Answered("create_flow")
    BY <1>2
  <2> QED BY <1>1, <1>2, <2>1, <2>2 DEF KeptFor
<1> QED BY <1>2, <1>4, <1>5, <1>6 DEF Inv

\* A handler that only writes flows, or none.
LEMMA KeysKept ==
  ASSUME Inv, NEW r \in Requests, request[r].pc = "handle", Done(r),
         request[r].does # "create_key", UNCHANGED <<accounts, sessions, keys, ended>>
  PROVE  IssuedInv'
<1>1. /\ Answered("create_key")' = Answered("create_key")
      /\ \A k \in Answered("create_key") : request'[k] = request[k]
      /\ Cookies' = Cookies
  BY AnswerStep
<1> QED BY <1>1 DEF Inv, IssuedInv, accounts

\* A handler that writes no flow.
LEMMA FlowsKept ==
  ASSUME Inv, NEW r \in Requests, request[r].pc = "handle", Done(r),
         request[r].does # "create_flow", ended \subseteq ended', UNCHANGED <<accounts, flows>>
  PROVE  \A f \in Requests : KeptFor(f)'
<1>1. /\ Answered("create_flow")' = Answered("create_flow")
      /\ \A s \in Requests : s # r => request'[s] = request[s]
  BY AnswerStep
<1>2. ASSUME NEW f \in Requests
      PROVE  KeptFor(f)'
  <2>1. KeptFor(f) /\ (flows[f] # None => flows[f].by \in Requests)
    BY DEF Inv, TypeOK, Flow
  <2> QED BY <1>1, <2>1 DEF KeptFor
<1> QED BY <1>2

\* A flow is written for a user who may.
LEMMA FlowWritten ==
  ASSUME Inv, NEW r \in Requests, request[r].pc = "handle", Done(r),
         request[r].does \in {"create_flow", "update_flow", "deactivate_flow"},
         UNCHANGED <<accounts, sessions, keys, ended>>,
         NEW f \in Requests, NEW row \in Flow, flows' = [flows EXCEPT ![f] = row],
         row.by = r, request[r].user \in {row.owner, Admin},
         request[r].does = "create_flow" => f = r
  PROVE  Inv'
<1>1. /\ request' \in [Requests -> RequestRecord]
      /\ request'[r].pc = "done" /\ request'[r].user = request[r].user
      /\ \A s \in Requests : s # r => request'[s] = request[s]
      /\ \A kind : kind # request[r].does => Answered(kind)' = Answered(kind)
      /\ \A c \in Callbacks : SignedIn(c)'
      /\ \A s \in Requests : Entitled(s)'
  BY AnswerStep
<1>2. TypeOK'
  BY <1>1 DEF Inv, TypeOK, accounts, RequestRecord
<1>3. IssuedInv'
  BY KeysKept
<1>4. ASSUME NEW g \in Requests
      PROVE  KeptFor(g)'
  <2>1. KeptFor(g) /\ (flows[g] # None => flows[g].by \in Requests)
    BY DEF Inv, TypeOK, Flow
  <2>2. flows'[f] = row /\ row # None /\ (g # f => flows'[g] = flows[g])
    BY DEF Inv, TypeOK
  <2>3. CASE g = f
    BY <1>1, <2>2, <2>3 DEF KeptFor
  <2>4. CASE g # f
    <3>1. g \in Answered("create_flow")' => g \in Answered("create_flow")
      BY <1>1, <2>4 DEF Answered
    <3> QED BY <1>1, <2>1, <2>2, <2>4, <3>1 DEF KeptFor
  <2> QED BY <2>3, <2>4
<1> QED BY <1>1, <1>2, <1>3, <1>4 DEF Inv

LEMMA CreateKeyInv ==
  ASSUME Inv, NEW r \in Requests, request[r].pc = "handle", Done(r),
         request[r].does = "create_key", create_key(r), UNCHANGED <<accounts, sessions>>
  PROVE  Inv'
<1>1. /\ request' \in [Requests -> RequestRecord]
      /\ request'[r].pc = "done" /\ request'[r].does = "create_key"
      /\ request'[r].user = request[r].user
      /\ \A kind : Answered(kind) \subseteq Answered(kind)'
      /\ \A kind : \A k \in Answered(kind) : k # r /\ request'[k] = request[k]
      /\ Cookies' = Cookies
      /\ \A c \in Callbacks : SignedIn(c)'
      /\ \A s \in Requests : Entitled(s)'
  BY AnswerStep DEF create_key
<1>2. request[r].user \in Callbacks \cup {None}
  BY DEF Inv, TypeOK, create_key
<1>3. \A k \in Requests : keys'[k] = IF k = r THEN request[r].user ELSE keys[k]
  BY DEF Inv, TypeOK, create_key
<1>4. TypeOK'
  BY <1>1, <1>2 DEF Inv, TypeOK, create_key, accounts, RequestRecord
<1>5. r \notin ended
  BY <1>1 DEF Inv, IssuedInv, Cookies
<1>6. IssuedInv'
  <2>1. r \in Answered("create_key")'
    BY <1>1 DEF Answered
  <2> QED BY <1>1, <1>3, <1>5, <2>1 DEF Inv, IssuedInv, create_key, accounts
<1>7. \A f \in Requests : KeptFor(f)'
  BY FlowsKept DEF create_key
<1> QED BY <1>1, <1>4, <1>6, <1>7 DEF Inv

LEMMA RevokeKeyInv ==
  ASSUME Inv, NEW r \in Requests, request[r].pc = "handle", Done(r),
         request[r].does = "revoke_key", revoke_key(r), UNCHANGED <<accounts, sessions>>
  PROVE  Inv'
<1> DEFINE of == request[r].of
<1>1. of \in Answered("create_key") /\ of \in Requests
  BY DEF Inv, Entitled, Answered
<1> HIDE DEF of
<1>2. /\ keys' = [keys EXCEPT ![of] = None] /\ ended' = ended \cup {of}
      /\ UNCHANGED flows /\ ended \subseteq ended'
  BY DEF revoke_key, of
<1>3. /\ request' \in [Requests -> RequestRecord]
      /\ Answered("create_key")' = Answered("create_key")
      /\ \A k \in Answered("create_key") : k # r /\ request'[k] = request[k]
      /\ Cookies' = Cookies
      /\ \A c \in Callbacks : SignedIn(c)'
      /\ \A s \in Requests : Entitled(s)'
  BY <1>2, AnswerStep
<1>4. TypeOK'
  BY <1>1, <1>2, <1>3 DEF Inv, TypeOK, accounts, RequestRecord
<1>5. IssuedInv'
  <2>1. \A k \in Requests : keys'[k] = IF k = of THEN None ELSE keys[k]
    BY <1>1, <1>2 DEF Inv, TypeOK
  <2>2. \A c \in Callbacks : c # of
    BY <1>1
  <2> QED BY <1>1, <1>2, <1>3, <2>1, <2>2 DEF Inv, IssuedInv, accounts
<1>6. \A f \in Requests : KeptFor(f)'
  BY <1>2, FlowsKept
<1> QED BY <1>3, <1>4, <1>5, <1>6 DEF Inv

LEMMA CreateFlowInv ==
  ASSUME Inv, NEW r \in Requests, request[r].pc = "handle", Done(r),
         request[r].does = "create_flow", create_flow(r), UNCHANGED <<accounts, sessions>>
  PROVE  Inv'
<1> DEFINE row == [owner |-> Owner(request[r].user), active |-> TRUE, by |-> r]
<1>1. request[r].user \in Callbacks \cup {None, Admin}
  BY DEF Inv, TypeOK
<1>2. row \in Flow /\ request[r].user \in {row.owner, Admin} /\ row.by = r
  BY <1>1 DEF Flow, Owner
<1>3. flows' = [flows EXCEPT ![r] = row] /\ UNCHANGED <<keys, ended>>
  BY DEF create_flow
<1> HIDE DEF row
<1> QED BY <1>2, <1>3, FlowWritten

\* update_flow and deactivate_flow: the row keeps its owner.
LEMMA ChangeFlowInv ==
  ASSUME Inv, NEW r \in Requests, request[r].pc = "handle", Done(r),
         request[r].does \in {"update_flow", "deactivate_flow"},
         update_flow(r) \/ deactivate_flow(r), UNCHANGED <<accounts, sessions>>
  PROVE  Inv'
<1> DEFINE of == request[r].of
<1>1. of \in Requests /\ flows[of] \in Flow
  BY DEF Inv, TypeOK, Entitled, KeptFor, Answered
<1>2. PICK row \in Flow : /\ row.by = r /\ row.owner = flows[of].owner
                          /\ flows' = [flows EXCEPT ![of] = row]
  <2>1. CASE update_flow(r)
    <3>1. [flows[of] EXCEPT !.by = r] \in Flow
      BY <1>1 DEF Flow
    <3>2. flows' = [flows EXCEPT ![of] = [flows[of] EXCEPT !.by = r]]
      BY <2>1 DEF update_flow
    <3> QED BY <1>1, <3>1, <3>2 DEF Flow
  <2>2. CASE deactivate_flow(r)
    <3>1. [flows[of] EXCEPT !.by = r, !.active = FALSE] \in Flow
      BY <1>1 DEF Flow
    <3>2. flows' = [flows EXCEPT ![of] = [flows[of] EXCEPT !.by = r, !.active = FALSE]]
      BY <2>2 DEF deactivate_flow
    <3> QED BY <1>1, <3>1, <3>2 DEF Flow
  <2> QED BY <2>1, <2>2
<1>3. /\ request[r].user \in {flows[of].owner, Admin}
      /\ UNCHANGED <<keys, ended>>
  BY DEF update_flow, deactivate_flow, MayChange
<1> HIDE DEF of
<1> QED BY <1>1, <1>2, <1>3, FlowWritten

LEMMA HandleInv ==
  ASSUME Inv, NEW r \in Requests, Handle(r)
  PROVE  Inv'
<1>1. request[r].pc = "handle" /\ UNCHANGED <<accounts, sessions>>
  BY DEF Handle
<1>2. CASE Refused(r) /\ UNCHANGED <<keys, flows, ended>>
  BY <1>1, <1>2, RefusedInv
<1> QED BY <1>1, <1>2, CreateKeyInv, RevokeKeyInv, CreateFlowInv, ChangeFlowInv DEF Handle

----------------------------------------------------------------------------

LEMMA NextInv == Inv /\ [Next]_vars => Inv'
<1> SUFFICES ASSUME Inv, [Next]_vars PROVE Inv'
  OBVIOUS
<1>1. CASE SignIn
  BY <1>1, LoginInv, TakeStateInv, AskGitHubInv, StoreUserInv, OpenSessionInv, ExpireSessionInv
     DEF SignIn
<1>2. CASE Serve
  BY <1>2, ArriveInv, SessionUserInv, ApiKeyInv, TouchKeyInv, HandleInv, LogoutInv DEF Serve
<1>3. CASE UNCHANGED vars
  BY <1>3 DEF vars, Inv, TypeOK, SignedIn, IssuedInv, Entitled, KeptFor, Cookies, Answered, IssuedTo
<1> QED BY <1>1, <1>2, <1>3 DEF Next

\* Every reachable state satisfies the inductive invariant (auth.py, login.py,
\* oauth.py, api_keys.py, flows.py).
THEOREM Invariance == Spec => []Inv
BY InitInv, NextInv, PTL DEF Spec

\* Every variable keeps its type.
THEOREM TypeCorrect == Spec => []TypeOK
<1>1. Inv => TypeOK
  BY DEF Inv
<1> QED BY <1>1, Invariance, PTL

\* However many callbacks overlap and however often a browser sends one, a
\* session is that of the GitHub account asked about, and a login opens one
\* (oauth.py's take_state, upsert and open_session).
THEOREM LoginIsTheirs == Spec => []LoginIsItsUsers
<1>1. Inv => LoginIsItsUsers
  BY DEF Inv, SignedIn, IssuedInv, Cookies, LoginIsItsUsers
<1> QED BY <1>1, Invariance, PTL

\* Whatever is revoked, expires or logs out meanwhile, a request acts for a
\* user only with a cookie or key of theirs that was good when it arrived, and
\* a flow was last written by its owner or an administrator.
THEOREM WorkIsTheirs == Spec => []WorkIsTheUsers
<1>1. Inv => WorkIsTheUsers
  BY DEF Inv, Entitled, KeptFor, WorkIsTheUsers
<1> QED BY <1>1, Invariance, PTL
=============================================================================
