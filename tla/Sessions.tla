------------------------------- MODULE Sessions -------------------------------
(***************************************************************************)
(* Accounts, sessions and API keys of config-api (auth.py, login.py,        *)
(* oauth.py, api_keys.py), and the flows that requests keep in a user's     *)
(* name (flows.py and its forms in admin_ui.py).                            *)
(*                                                                          *)
(* Login states and session tokens are random and live in Redis; users,     *)
(* keys and flows live in Postgres.  A handler's step ends where it awaits  *)
(* one of them or GitHub.  What has a random or generated name is named     *)
(* after its maker: a session token and a row of users after the callback,  *)
(* a key and a flow after the request.                                      *)
(***************************************************************************)
CONSTANTS
  Logins,        \* visits of the login page that go on to GitHub
  Callbacks,     \* GitHub's redirections back to config-api
  Identities,    \* GitHub accounts
  Emails,
  Requests,      \* requests to /api and to the forms in /admin
  Admin,         \* the user of the admin password and of the global key
  None,
  RedisMayFail   \* whether a Redis command may fail

KINDS == {"logout", "create_key", "revoke_key", "create_flow", "update_flow", "deactivate_flow"}

\* Rows of users and of flows, as far as they matter here.
User == [identity : Identities, email : Emails]
Flow == [owner : Callbacks \cup {None}, active : BOOLEAN, by : Requests]

ASSUME SessionsAssumption ==
  /\ Callbacks \cap Requests = {}
  /\ None \notin Logins \cup Callbacks \cup Identities \cup Emails \cup Requests \cup {Admin}
  /\ None \notin KINDS \cup User \cup Flow
  /\ Admin \notin Callbacks \cup Requests
  /\ RedisMayFail \in BOOLEAN

VARIABLES
  states,    \* oauth:state keys: not issued, stored, or taken or expired
  callback,  \* where each callback is, and what GitHub told it
  users,     \* rows of users
  sessions,  \* session keys: the user each stands for
  keys,      \* rows of api_keys: the user each belongs to
  flows,     \* rows of flows; by is the last request that wrote the row
  request,   \* where each request is, and for whom it acts
  ended      \* history: the sessions and keys deleted so far; no step reads it

vars == <<states, callback, users, sessions, keys, flows, request, ended>>

Idle == [pc |-> "idle", does |-> None, of |-> None, cookie |-> None, key |-> None,
         user |-> None, ended |-> {}]

Init ==
  /\ states = [l \in Logins |-> "none"]
  /\ callback = [c \in Callbacks |-> [pc |-> "idle", login |-> None, identity |-> None,
                                      email |-> None, user |-> None]]
  /\ users = [c \in Callbacks |-> None]
  /\ sessions = [c \in Callbacks |-> None]
  /\ keys = [r \in Requests |-> None]
  /\ flows = [r \in Requests |-> None]
  /\ request = [r \in Requests |-> Idle]
  /\ ended = {}

Fails == IF RedisMayFail THEN BOOLEAN ELSE {FALSE}

----------------------------------------------------------------------------
(* Signing in                                                               *)

accounts == <<states, callback, users>>
work     == <<keys, flows, request>>

\* Step 1: a failing Redis is a 500, and nothing is stored.
github_login(l) ==
  /\ states[l] = "none"
  /\ states' = [states EXCEPT ![l] = "stored"]
  /\ UNCHANGED <<callback, users, sessions, ended, work>>

\* The state is good for five minutes.
ExpireState(l) ==
  /\ states[l] = "stored"
  /\ states' = [states EXCEPT ![l] = "gone"]
  /\ UNCHANGED <<callback, users, sessions, ended, work>>

\* An error page, or a 500: the callback is over.
refuse(c) == callback' = [callback EXCEPT ![c] = [@ EXCEPT !.pc = "refused", !.identity = None,
                                                           !.email = None, !.user = None]]

\* Variant with a bug: the state is read, and left to expire.
TakeState_get(c) ==
  /\ callback[c].pc = "idle"
  /\ \/ \E l \in Logins :
          /\ states[l] = "stored"
          /\ callback' = [callback EXCEPT ![c] = [@ EXCEPT !.pc = "asking", !.login = l]]
     \/ refuse(c)
  /\ UNCHANGED <<states, users, sessions, ended, work>>

\* Step 2: GETDEL.  A browser may send its redirection twice; a state that is
\* unknown or gone, GitHub's error or one of Redis is the end of it.
TakeState(c) ==
  /\ callback[c].pc = "idle"
  /\ \/ \E l \in Logins :
          /\ states[l] = "stored"
          /\ states' = [states EXCEPT ![l] = "gone"]
          /\ callback' = [callback EXCEPT ![c] = [@ EXCEPT !.pc = "asking", !.login = l]]
     \/ refuse(c) /\ UNCHANGED states
  /\ UNCHANGED <<users, sessions, ended, work>>

\* The code, the profile and the addresses; without an address, or when GitHub
\* fails or takes longer than ten seconds, nothing is stored.
AskGitHub(c) ==
  /\ callback[c].pc = "asking"
  /\ \/ \E identity \in Identities, email \in Emails :
          callback' = [callback EXCEPT ![c] = [@ EXCEPT !.pc = "known", !.identity = identity,
                                                             !.email = email]]
     \/ refuse(c)
  /\ UNCHANGED <<states, users, sessions, ended, work>>

RowsWith(identity) == {u \in Callbacks : users[u] # None /\ users[u].identity = identity}

\* email is unique in users.
EmailOfAnother(identity, email) ==
  \E u \in Callbacks : users[u] # None /\ users[u].email = email /\ users[u].identity # identity

\* INSERT ... ON CONFLICT (github_id) DO UPDATE: the row is u.
upsert(c, u) ==
  LET new == [identity |-> callback[c].identity, email |-> callback[c].email]
  IN  /\ ~EmailOfAnother(new.identity, new.email)
      /\ IF RowsWith(new.identity) = {} THEN u = c ELSE u \in RowsWith(new.identity)
      /\ users' = [users EXCEPT ![u] = new]

StoreUser(c) ==
  /\ callback[c].pc = "known"
  /\ \/ \E u \in Callbacks :
          /\ upsert(c, u)
          /\ callback' = [callback EXCEPT ![c] = [@ EXCEPT !.pc = "stored", !.user = u, !.email = None]]
     \/ refuse(c) /\ UNCHANGED users
  /\ UNCHANGED <<states, sessions, ended, work>>

\* The session, and then the answer with its cookie.
OpenSession(c) ==
  /\ callback[c].pc = "stored"
  /\ \E fails \in Fails :
       IF fails THEN refuse(c) /\ UNCHANGED sessions
       ELSE /\ sessions' = [sessions EXCEPT ![c] = callback[c].user]
            /\ callback' = [callback EXCEPT ![c] = [@ EXCEPT !.pc = "opened"]]
  /\ UNCHANGED <<states, users, ended, work>>

\* Thirty days.
ExpireSession(c) ==
  /\ sessions[c] # None
  /\ sessions' = [sessions EXCEPT ![c] = None]
  /\ ended' = ended \cup {c}
  /\ UNCHANGED <<accounts, work>>

SignIn ==
  \/ \E l \in Logins : github_login(l) \/ ExpireState(l)
  \/ \E c \in Callbacks :
       TakeState(c) \/ AskGitHub(c) \/ StoreUser(c) \/ OpenSession(c) \/ ExpireSession(c)

----------------------------------------------------------------------------
(* Requests                                                                 *)

Goes(r, pc) == request' = [request EXCEPT ![r] = [@ EXCEPT !.pc = pc]]
ActsFor(r, user, pc) == request' = [request EXCEPT ![r] = [@ EXCEPT !.pc = pc, !.user = user]]

\* What is remembered of an answered request: what it did, and for whom.
Refused(r) == request' = [request EXCEPT ![r] = [Idle EXCEPT !.pc = "refused"]]
Done(r) == request' = [request EXCEPT ![r] = [Idle EXCEPT !.pc = "done", !.does = request[r].does,
                                                          !.user = request[r].user]]

\* The cookies and keys that somebody has been given.
Cookies == {c \in Callbacks : callback[c].pc = "opened"}
Answered(kind) == {r \in Requests : request[r].pc = "done" /\ request[r].does = kind}

\* The admin cookie and the global key are stateless: Admin stands for either.
Arrive(r) ==
  /\ request[r] = Idle
  /\ \E does \in KINDS, cookie \in Cookies \cup {None, Admin},
        key \in Answered("create_key") \cup {None, Admin}, of \in Requests \cup {None} :
       /\ does = "logout" => key = None
       /\ IF does = "revoke_key" THEN of \in Answered("create_key")
          ELSE IF does \in {"update_flow", "deactivate_flow"} THEN of \in Answered("create_flow")
          ELSE of = None
       /\ request' = [request EXCEPT ![r] =
                        [pc |-> IF does = "logout" THEN "logout" ELSE "session", does |-> does,
                         of |-> of, cookie |-> cookie, key |-> key, user |-> None,
                         ended |-> ended \cap {cookie, key}]]
  /\ UNCHANGED <<accounts, sessions, keys, flows, ended>>

SessionUser(r, found) ==
  CASE request[r].cookie = Admin -> Admin
    [] request[r].cookie \in Callbacks /\ found -> sessions[request[r].cookie]
    [] OTHER -> None

\* get_session_user; without one the key is looked at.
get_session_user(r) ==
  /\ request[r].pc = "session"
  /\ \E fails \in Fails :
       LET user == SessionUser(r, ~fails)
       IN  IF user # None THEN ActsFor(r, user, "handle")
           ELSE IF request[r].key = Admin THEN ActsFor(r, Admin, "handle")
           ELSE IF request[r].key = None THEN Refused(r) ELSE Goes(r, "key")
  /\ UNCHANGED <<accounts, sessions, keys, flows, ended>>

\* A key that is not found, or a database error, is a 403.
get_user_for_api_key(r) ==
  /\ request[r].pc = "key"
  /\ \/ /\ keys[request[r].key] # None
        /\ ActsFor(r, keys[request[r].key], "touch")
     \/ Refused(r)
  /\ UNCHANGED <<accounts, sessions, keys, flows, ended>>

\* last_used_at: updates no row when the key is gone.
TouchKey(r) ==
  /\ request[r].pc = "touch"
  /\ Goes(r, "handle") \/ Refused(r)
  /\ UNCHANGED <<accounts, sessions, keys, flows, ended>>

\* get_owner_id: Admin has no owner_id, and is asked for none.
Owner(user) == IF user = Admin THEN None ELSE user
MayChange(user, row) == user = Admin \/ row.owner = user

\* Keys need a user account.
create_key(r) ==
  /\ request[r].user # Admin
  /\ keys' = [keys EXCEPT ![r] = request[r].user]
  /\ UNCHANGED <<flows, ended>>

\* Variant with a bug: the key is deleted behind the answer, if at all.
revoke_key_later(r) ==
  /\ keys[request[r].of] = request[r].user
  /\ ended' = ended \cup {request[r].of}
  /\ UNCHANGED <<keys, flows>>

\* DELETE ... WHERE user_id: a 404 for a key of another, or one that is gone.
revoke_key(r) ==
  /\ keys[request[r].of] = request[r].user
  /\ keys' = [keys EXCEPT ![request[r].of] = None]
  /\ ended' = ended \cup {request[r].of}
  /\ UNCHANGED flows

\* A definition that validate_flow refuses is not stored.
create_flow(r) ==
  /\ flows' = [flows EXCEPT ![r] = [owner |-> Owner(request[r].user), active |-> TRUE, by |-> r]]
  /\ UNCHANGED <<keys, ended>>

\* A deactivated flow can be updated, and stays so.
update_flow(r) ==
  /\ MayChange(request[r].user, flows[request[r].of])
  /\ flows' = [flows EXCEPT ![request[r].of] = [@ EXCEPT !.by = r]]
  /\ UNCHANGED <<keys, ended>>

deactivate_flow(r) ==
  /\ MayChange(request[r].user, flows[request[r].of])
  /\ flows' = [flows EXCEPT ![request[r].of] = [@ EXCEPT !.by = r, !.active = FALSE]]
  /\ UNCHANGED <<keys, ended>>

Handle(r) ==
  /\ request[r].pc = "handle"
  /\ \/ /\ Done(r)
        /\ \/ request[r].does = "create_key" /\ create_key(r)
           \/ request[r].does = "revoke_key" /\ revoke_key(r)
           \/ request[r].does = "create_flow" /\ create_flow(r)
           \/ request[r].does = "update_flow" /\ update_flow(r)
           \/ request[r].does = "deactivate_flow" /\ deactivate_flow(r)
     \/ Refused(r) /\ UNCHANGED <<keys, flows, ended>>
  /\ UNCHANGED <<accounts, sessions>>

\* The browser forgets its cookie; the session goes unless Redis fails.
logout(r) ==
  /\ request[r].pc = "logout"
  /\ Done(r)
  /\ \E fails \in Fails :
       IF fails \/ request[r].cookie \notin Callbacks THEN UNCHANGED <<sessions, ended>>
       ELSE /\ sessions' = [sessions EXCEPT ![request[r].cookie] = None]
            /\ ended' = ended \cup {request[r].cookie}
  /\ UNCHANGED <<accounts, keys, flows>>

Serve ==
  \E r \in Requests :
    Arrive(r) \/ get_session_user(r) \/ get_user_for_api_key(r) \/ TouchKey(r) \/ Handle(r) \/ logout(r)

Next == SignIn \/ Serve

Spec == Init /\ [][Next]_vars

----------------------------------------------------------------------------
(* Properties                                                               *)

\* Every variable has its type.
TypeOK ==
  /\ states \in [Logins -> {"none", "stored", "gone"}]
  /\ callback \in [Callbacks ->
       [pc : {"idle", "asking", "known", "stored", "opened", "refused"}, login : Logins \cup {None},
        identity : Identities \cup {None}, email : Emails \cup {None}, user : Callbacks \cup {None}]]
  /\ users \in [Callbacks -> {None} \cup User]
  /\ sessions \in [Callbacks -> Callbacks \cup {None}]
  /\ keys \in [Requests -> Callbacks \cup {None}]
  /\ flows \in [Requests -> {None} \cup Flow]
  /\ request \in [Requests ->
       [pc : {"idle", "session", "key", "touch", "handle", "logout", "done", "refused"},
        does : KINDS \cup {None}, of : Requests \cup {None},
        cookie : Callbacks \cup {None, Admin}, key : Requests \cup {None, Admin},
        user : Callbacks \cup {None, Admin}, ended : SUBSET (Callbacks \cup Requests)]]
  /\ ended \subseteq Callbacks \cup Requests

\* A session is that of the GitHub account that was asked about, whatever
\* callbacks overlap and whatever addresses the accounts exchange; one login,
\* sent by its browser as often as it may be, opens one session.
LoginIsItsUsers ==
  /\ \A c \in Callbacks : sessions[c] # None =>
       users[sessions[c]] # None /\ users[sessions[c]].identity = callback[c].identity
  /\ \A c, d \in Callbacks : c # d /\ callback[c].login = callback[d].login => callback[c].login = None

\* The user somebody's cookie or key was issued to.
IssuedTo(r) ==
  {callback[c].user : c \in ({request[r].cookie} \cap Callbacks) \ request[r].ended} \cup
  {request[k].user  : k \in ({request[r].key} \cap Requests) \ request[r].ended} \cup
  ({request[r].cookie, request[r].key} \cap {Admin})

\* A request acts for a user only with a cookie or key of theirs that had not
\* been given up when it arrived, and the flows kept in a user's name were
\* last written by such a request, or by an administrator.
WorkIsTheUsers ==
  /\ \A r \in Requests : request[r].pc \in {"touch", "handle"} => request[r].user \in IssuedTo(r)
  /\ \A f \in Requests : flows[f] # None => request[flows[f].by].user \in {flows[f].owner, Admin}
=============================================================================
