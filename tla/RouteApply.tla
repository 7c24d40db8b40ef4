----------------------------- MODULE RouteApply -----------------------------
(***************************************************************************)
(* Phone routes and what makes them work: the table phone_routes edited in  *)
(* the admin UI (admin_ui.py, routes.py), POST /api/routes/apply, and       *)
(* docker_manager.py, which starts agent containers, writes Asterisk's      *)
(* extensions.conf and has it reloaded.                                     *)
(*                                                                          *)
(* config-api is one process with one event loop.  The Docker SDK and the   *)
(* file are used synchronously, so a handler holds the loop from the moment *)
(* its query is answered to its own answer; queries already sent to         *)
(* Postgres, containers, Asterisk and a crash do not wait for it.           *)
(***************************************************************************)
EXTENDS Naturals, FiniteSets

CONSTANTS
  Users, Admin,    \* the users, and the key without an owner, which sees all
  Slugs, NoSlug,   \* agents
  NoOwner, Owner,  \* whose each agent is: a user's, or everybody's (NoOwner)
  UnsafeSlugs,     \* slugs _SAFE_SLUG refuses: those with an underscore
  Dids, CatchAll,  \* dialed numbers, and the pattern _X.
  UnsafeDids,      \* numbers _SAFE_DID refuses
  Basic,           \* the agent of the default catch-all
  Applies,         \* apply requests
  Outbounds,       \* originate requests, which start their agent
  User,            \* who applies
  InitRoutes,      \* the routes there are to begin with
  MaxEdits,        \* bound: edits of the routes
  MaxCrashes,      \* bound: crashes of config-api
  MaxChanges,      \* bound: containers that stop or come back
  MaxErrors        \* bound: errors of Docker, the file or the reload

Requests == Applies \cup Outbounds
Errors   == Slugs \cup {"write", "reload"}
Plans    == [Dids -> Slugs \cup {NoSlug}]
NoRoute  == [slug |-> NoSlug, active |-> FALSE]
Routes   == [slug : Slugs, active : BOOLEAN] \cup {NoRoute}

ASSUME RouteAssumption ==
  /\ UnsafeSlugs \subseteq Slugs /\ Basic \in Slugs \ UnsafeSlugs /\ NoSlug \notin Slugs
  /\ CatchAll \in Dids \ UnsafeDids
  /\ Admin \notin Users /\ NoOwner \notin Users
  /\ Owner \in [Slugs -> Users \cup {NoOwner}]
  /\ User \in [Applies -> Users \cup {Admin}]
  /\ Applies \cap Outbounds = {}
  /\ Slugs \cap {"write", "reload"} = {}
  /\ InitRoutes \subseteq [Dids -> Routes]
  /\ {MaxEdits, MaxCrashes, MaxChanges, MaxErrors} \subseteq Nat

VARIABLES
  routes,      \* phone_routes
  containers,  \* of each agent; "removed" if it is config-api that took it away
  file,        \* extensions.conf: the agent each number leads to
  dialplan,    \* what Asterisk has loaded of it
  requests,    \* each handler: where it is, what it read, what is left, its errors
  edits, crashes, changes

vars == <<routes, containers, file, dialplan, requests, edits, crashes, changes>>

Empty   == [d \in Dids |-> NoSlug]
Fresh   == [pc |-> "idle", routes |-> Empty, todo |-> {}, slug |-> NoSlug, errors |-> {}]

\* The handler that has the event loop is in one of these.
Held == {"ensure", "start", "reload"}

RequestState ==
  [pc : {"idle", "read", "done", "died"} \cup Held, routes : Plans, todo : SUBSET Slugs,
   slug : Slugs \cup {NoSlug}, errors : SUBSET Errors]

\* The handler is over; what is left of it is its answer.
Ended(r, pc) == [Fresh EXCEPT !.pc = pc, !.errors = requests[r].errors]
Busy == \E r \in Requests : requests[r].pc \in Held

Init ==
  /\ routes \in InitRoutes
  /\ containers \in [Slugs -> {"running", "absent"}]
  /\ file = [Empty EXCEPT ![CatchAll] = Basic] /\ dialplan = file
  /\ requests = [r \in Requests |-> Fresh]
  /\ edits = 0 /\ crashes = 0 /\ changes = 0

----------------------------------------------------------------------------
(* The table                                                                *)

Owns(user, slug)  == user = Admin \/ Owner[slug] = user
MayUse(user, slug) == Owns(user, slug) \/ Owner[slug] = NoOwner

EditRoutes(d, route) ==
  /\ edits < MaxEdits /\ edits' = edits + 1
  /\ routes' = [routes EXCEPT ![d] = route]
  /\ UNCHANGED <<containers, file, dialplan, requests, crashes, changes>>

\* The agent must be the user's or everybody's, the number new.
create_route ==
  \E user \in Users \cup {Admin}, d \in Dids, s \in Slugs, active \in BOOLEAN :
    /\ MayUse(user, s) /\ routes[d] = NoRoute
    /\ EditRoutes(d, [slug |-> s, active |-> active])

\* The old agent must be the user's own; the new one is not looked at.
edit_route ==
  \E user \in Users \cup {Admin}, d \in Dids, s \in Slugs, active \in BOOLEAN :
    /\ routes[d] # NoRoute /\ Owns(user, routes[d].slug)
    /\ EditRoutes(d, [slug |-> s, active |-> active])

delete_route ==
  \E user \in Users \cup {Admin}, d \in Dids :
    /\ routes[d] # NoRoute /\ Owns(user, routes[d].slug)
    /\ EditRoutes(d, NoRoute)

----------------------------------------------------------------------------
(* docker_manager                                                           *)

Stays(r, state) == requests' = [requests EXCEPT ![r] = state]

\* r goes on, or ends, with one more error.
Fails(r, e, state) ==
  /\ Cardinality({re \in Requests \X Errors : re[2] \in requests[re[1]].errors}) < MaxErrors
  /\ Stays(r, [state EXCEPT !.errors = @ \cup {e}])

\* Variant with a bug: an agent that runs is restarted as well.
find_agent_restart(r) ==
  /\ requests[r].pc = "ensure"
  /\ \E s \in requests[r].todo :
       LET left == [requests[r] EXCEPT !.todo = @ \ {s}] IN
       /\ containers' = IF containers[s] = "absent" THEN containers
                        ELSE [containers EXCEPT ![s] = "removed"]
       /\ Stays(r, [left EXCEPT !.pc = "start", !.slug = s])
  /\ UNCHANGED <<routes, file, dialplan, edits, crashes, changes>>

\* ensure_agent_running, first half: an agent that runs is left alone, what is
\* not running is removed.  Docker may fail, and nothing has happened.
find_agent(r) ==
  /\ requests[r].pc = "ensure"
  /\ \E s \in requests[r].todo :
       LET left == [requests[r] EXCEPT !.todo = @ \ {s}] IN
       \/ /\ containers[s] = "running"
          /\ Stays(r, left) /\ UNCHANGED containers
       \/ /\ Fails(r, s, left) /\ UNCHANGED containers
       \/ /\ containers[s] # "running"
          /\ Stays(r, [left EXCEPT !.pc = "start", !.slug = s])
          /\ containers' = IF containers[s] = "stale"
                           THEN [containers EXCEPT ![s] = "removed"] ELSE containers
  /\ UNCHANGED <<routes, file, dialplan, edits, crashes, changes>>

\* Variant with a bug: a missing image is only logged.
start_agent_logged(r) ==
  /\ requests[r].pc = "start"
  /\ Stays(r, [requests[r] EXCEPT !.pc = "ensure", !.slug = NoSlug])
  /\ containers' \in {containers, [containers EXCEPT ![requests[r].slug] = "running"]}
  /\ UNCHANGED <<routes, file, dialplan, edits, crashes, changes>>

\* Second half: it is started, or the image is missing or Docker fails.
start_agent(r) ==
  /\ requests[r].pc = "start"
  /\ LET back == [requests[r] EXCEPT !.pc = "ensure", !.slug = NoSlug] IN
     \/ /\ Stays(r, back)
        /\ containers' = [containers EXCEPT ![requests[r].slug] = "running"]
     \/ /\ Fails(r, requests[r].slug, back)
        /\ UNCHANGED containers
  /\ UNCHANGED <<routes, file, dialplan, edits, crashes, changes>>

\* Variant with a bug: a catch-all that cannot be written is skipped like the
\* other lines.
Plan_skipped(rs) ==
  [d \in Dids |-> IF rs[d] = NoSlug /\ d = CatchAll THEN Basic
                  ELSE IF d \in UnsafeDids \/ rs[d] \in UnsafeSlugs THEN NoSlug ELSE rs[d]]

\* write_extensions_conf: a route with an unsafe number or agent is skipped; the
\* catch-all is always written, and leads to basic when there is no better.
Plan(rs) ==
  [d \in Dids |->
     IF d = CatchAll
     THEN IF rs[d] \in UnsafeSlugs \cup {NoSlug} THEN Basic ELSE rs[d]
     ELSE IF d \in UnsafeDids \/ rs[d] \in UnsafeSlugs THEN NoSlug ELSE rs[d]]

----------------------------------------------------------------------------
(* POST /api/routes/apply, and the originate handler's part                 *)

Visible(user) ==
  [d \in Dids |-> IF routes[d].active /\ MayUse(user, routes[d].slug)
                  THEN routes[d].slug ELSE NoSlug]

Other == <<routes, containers, file, dialplan, edits, crashes, changes>>

ReadRoutes(r) ==
  /\ r \in Applies /\ requests[r].pc = "idle"
  /\ Stays(r, [Fresh EXCEPT !.pc = "read", !.routes = Visible(User[r])])
  /\ UNCHANGED Other

\* Variant with a bug: the handler awaits between its steps, as if Docker were
\* called in a thread.
apply_routes_awaits(r) ==
  /\ r \in Applies /\ requests[r].pc = "read"
  /\ Stays(r, [requests[r] EXCEPT !.pc = "ensure",
                 !.todo = {requests[r].routes[d] : d \in Dids} \ {NoSlug}])
  /\ UNCHANGED Other

\* Variant with a bug: an apply waits for the others that are under way.
apply_routes_waits(r) ==
  /\ r \in Applies /\ requests[r].pc = "read" /\ ~Busy
  /\ \A q \in Applies \ {r} : requests[q].pc # "read"
  /\ Stays(r, [requests[r] EXCEPT !.pc = "ensure",
                 !.todo = {requests[r].routes[d] : d \in Dids} \ {NoSlug}])
  /\ UNCHANGED Other

\* The query is answered and the connection given back: from here on the handler
\* does not await.
apply_routes(r) ==
  /\ r \in Applies /\ requests[r].pc = "read" /\ ~Busy
  /\ Stays(r, [requests[r] EXCEPT !.pc = "ensure",
                 !.todo = {requests[r].routes[d] : d \in Dids} \ {NoSlug}])
  /\ UNCHANGED Other

\* Outbound: one agent, of any route or none.
originate_call(r) ==
  /\ r \in Outbounds /\ requests[r].pc = "idle" /\ ~Busy
  /\ \E s \in Slugs : Stays(r, [Fresh EXCEPT !.pc = "ensure", !.todo = {s}])
  /\ UNCHANGED Other

AgentStarted(r) ==
  /\ r \in Outbounds /\ requests[r].pc = "ensure" /\ requests[r].todo = {}
  /\ Stays(r, Ended(r, "done"))
  /\ UNCHANGED Other

\* Variant with a bug: a failed write ends the request.
WriteFile_returns(r) ==
  /\ r \in Applies /\ requests[r].pc = "ensure" /\ requests[r].todo = {}
  /\ \/ file' = Plan(requests[r].routes) /\ Stays(r, [requests[r] EXCEPT !.pc = "reload"])
     \/ /\ file' \in {file, Empty}
        /\ Fails(r, "write", Ended(r, "done"))
  /\ UNCHANGED <<routes, containers, dialplan, edits, crashes, changes>>

\* The file is opened, and so emptied, before it is written: open or write may
\* fail.  Asterisk is reloaded all the same.
WriteFile(r) ==
  /\ r \in Applies /\ requests[r].pc = "ensure" /\ requests[r].todo = {}
  /\ \/ file' = Plan(requests[r].routes) /\ Stays(r, [requests[r] EXCEPT !.pc = "reload"])
     \/ /\ file' \in {file, Empty}
        /\ Fails(r, "write", [requests[r] EXCEPT !.pc = "reload"])
  /\ UNCHANGED <<routes, containers, dialplan, edits, crashes, changes>>

\* The reload may fail, or its answer be lost.
Reload(r) ==
  /\ requests[r].pc = "reload"
  /\ \/ dialplan' = file /\ Stays(r, Ended(r, "done"))
     \/ /\ dialplan' \in {dialplan, file}
        /\ Fails(r, "reload", Ended(r, "done"))
  /\ UNCHANGED <<routes, containers, file, edits, crashes, changes>>

----------------------------------------------------------------------------
(* What else happens                                                        *)

\* A container stops, is removed by hand, or comes back.
ContainerChanges(s) ==
  /\ changes < MaxChanges /\ changes' = changes + 1
  /\ \/ containers[s] = "running" /\ containers' = [containers EXCEPT ![s] = "stale"]
     \/ containers[s] \in {"running", "stale"} /\ containers' = [containers EXCEPT ![s] = "absent"]
     \/ containers[s] = "stale" /\ containers' = [containers EXCEPT ![s] = "running"]
  /\ UNCHANGED <<routes, file, dialplan, requests, edits, crashes>>

AsteriskRestarts ==
  /\ dialplan' = file
  /\ UNCHANGED <<routes, containers, file, requests, edits, crashes, changes>>

\* config-api dies, maybe with the file open.
Crash ==
  /\ crashes < MaxCrashes /\ crashes' = crashes + 1
  /\ requests' = [r \in Requests |-> IF requests[r].pc \in Held \cup {"read"}
                                     THEN Ended(r, "died") ELSE requests[r]]
  /\ file' \in {file} \cup {Empty : r \in {q \in Applies : requests[q].pc = "ensure" /\ requests[q].todo = {}}}
  /\ UNCHANGED <<routes, containers, dialplan, edits, changes>>

Step(r) ==
  \/ apply_routes(r) \/ find_agent(r) \/ start_agent(r)
  \/ AgentStarted(r) \/ WriteFile(r) \/ Reload(r)

Next ==
  \/ create_route \/ edit_route \/ delete_route
  \/ \E r \in Requests : ReadRoutes(r) \/ originate_call(r) \/ Step(r)
  \/ \E s \in Slugs : ContainerChanges(s)
  \/ AsteriskRestarts \/ Crash

Spec == Init /\ [][Next]_vars

\* The event loop goes on with a handler that can; Docker's calls time out.
FairSpec == Spec /\ \A r \in Requests : WF_vars(Step(r))

----------------------------------------------------------------------------
(* Properties                                                               *)

\* Every variable has its type, and at most one handler has the event loop.
TypeOK ==
  /\ routes \in [Dids -> Routes]
  /\ containers \in [Slugs -> {"running", "stale", "absent", "removed"}]
  /\ file \in Plans /\ dialplan \in Plans
  /\ requests \in [Requests -> RequestState]
  /\ edits \in Nat /\ crashes \in Nat /\ changes \in Nat
  /\ \A q, r \in Requests : requests[q].pc \in Held /\ requests[r].pc \in Held => q = r

Reported(e) == \E r \in Requests : e \in requests[r].errors

\* What Asterisk runs differs from the file only until the apply that wrote it
\* has reloaded it, or if somebody was told: a failed reload, or a crash that
\* left a request without an answer.
DriftIsReported ==
  dialplan # file =>
    \/ \E r \in Requests : requests[r].pc = "reload"
    \/ Reported("reload") \/ crashes > 0

\* Every number is answered, the catch-all always having an agent Docker and
\* Asterisk can name, unless the file was cut short and somebody was told.
EveryNumberIsAnswered ==
  \A plan \in {file, dialplan} :
    /\ plan[CatchAll] = NoSlug => Reported("write") \/ crashes > 0
    /\ \A d \in Dids : plan[d] \notin UnsafeSlugs

\* An agent config-api removed to start it anew and could not start is in some
\* answer's errors.
RemovedIsReported ==
  \A s \in Slugs : containers[s] = "removed" =>
    \/ \E r \in Requests : requests[r].pc = "start" /\ requests[r].slug = s
    \/ Reported(s) \/ crashes > 0

\* Whatever an apply or an originate request leaves half done, somebody was
\* told: a dialplan that is not the file's, or an agent that is gone.
TroubleIsReported == DriftIsReported /\ RemovedIsReported

\* An apply that answers without errors leaves Asterisk with the routes this
\* apply read, although others were applied, or edited, at the same time.
ReloadedIsOurs ==
  [][\A r \in Applies :
       requests[r].pc # "done" /\ requests'[r].pc = "done" /\ requests'[r].errors = {} =>
         dialplan' = Plan(requests[r].routes)]_vars

\* config-api never takes a running agent away, which would cut off its calls.
RunningAgentsAreLeftAlone ==
  [][requests' # requests =>
       \A s \in Slugs : containers[s] = "running" => containers'[s] = "running"]_vars

\* A request that was read is answered, unless config-api crashes.
RequestsAreAnswered ==
  \A r \in Requests :
    requests[r].pc \in Held \cup {"read"} ~> requests[r].pc \in {"done", "died"}

\* README.md, "Routes": every row of the table maps its number to its agent, so
\* after an apply without errors each number it read leads to its agent.
RoutesAreApplied ==
  [][\A r \in Applies :
       requests[r].pc # "done" /\ requests'[r].pc = "done" /\ requests'[r].errors = {} =>
         \A d \in Dids \ {CatchAll} :
           requests[r].routes[d] # NoSlug => dialplan'[d] = requests[r].routes[d]]_vars
=============================================================================
