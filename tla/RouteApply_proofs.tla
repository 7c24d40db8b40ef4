-------------------------- MODULE RouteApply_proofs --------------------------
(***************************************************************************)
(* Proofs about RouteApply for any users, agents, numbers and requests.     *)
(***************************************************************************)
EXTENDS RouteApply, TLAPS

\* A handler that has not begun has no errors, one that starts a container
\* knows of which agent.
Local(st) ==
  /\ st.pc = "idle" => st.errors = {}
  /\ st.pc = "start" => st.slug \in Slugs

HandlersInv == \A r \in Requests : Local(requests[r])

\* What is about to be reloaded is what this request has written.
FileIsOurs ==
  \A r \in Requests :
    requests[r].pc = "reload" /\ "write" \notin requests[r].errors =>
      file = Plan(requests[r].routes)

IInv == TypeOK /\ HandlersInv /\ FileIsOurs
        /\ DriftIsReported /\ EveryNumberIsAnswered /\ RemovedIsReported

Moves(r) == ReadRoutes(r) \/ originate_call(r) \/ Step(r)

\* A generated plan is one, answers every number and names no unsafe agent.
LEMMA PlanIsSafe ==
  ASSUME NEW rs \in Plans
  PROVE  /\ Plan(rs) \in Plans
         /\ Plan(rs)[CatchAll] # NoSlug
         /\ \A d \in Dids : Plan(rs)[d] \notin UnsafeSlugs
BY RouteAssumption DEF Plan, Plans

\* What a user sees of the table is a plan: a number leads to an agent or nowhere.
LEMMA PlansAreReadable ==
  ASSUME TypeOK, NEW user
  PROVE  Visible(user) \in Plans
<1>1. \A d \in Dids : routes[d] \in Routes
  BY DEF TypeOK
<1>2. \A d \in Dids : routes[d].active => routes[d].slug \in Slugs
  BY <1>1 DEF Routes, NoRoute
<1> QED BY <1>2 DEF Visible, Plans

\* A handler's state before it runs.
LEMMA FreshIsTyped == Fresh \in RequestState
BY DEF Fresh, RequestState, Empty, Plans, Errors

\* Wherever a handler goes on to, its state stays one, keeps its errors, and
\* has the event loop only if it had it or nobody did.
LEMMA HandlersMove ==
  ASSUME TypeOK, HandlersInv, NEW r \in Requests, Moves(r)
  PROVE  \E st \in RequestState :
           /\ requests' = [requests EXCEPT ![r] = st]
           /\ requests[r].errors \subseteq st.errors
           /\ st.pc # "idle" /\ Local(st)
           /\ st.pc \in Held => requests[r].pc \in Held \/ ~Busy
<1> DEFINE Good(st) ==
      /\ st \in RequestState
      /\ requests[r].errors \subseteq st.errors
      /\ st.pc # "idle" /\ Local(st)
      /\ st.pc \in Held => requests[r].pc \in Held \/ ~Busy
<1>1. requests[r] \in RequestState
  BY DEF TypeOK
<1>2. requests[r].pc = "idle" => requests[r].errors = {}
  BY DEF HandlersInv, Local
<1>3. SUFFICES \E st : Good(st) /\ Stays(r, st)
  BY DEF Stays
<1>4. ASSUME NEW pc \in {"done", "died"}, NEW E \in SUBSET Errors, requests[r].errors \subseteq E
      PROVE  Good([Ended(r, pc) EXCEPT !.errors = E]) /\ Good(Ended(r, pc))
  BY <1>1, <1>4, FreshIsTyped DEF Ended, Fresh, RequestState, Held, Local
<1>5. CASE ReadRoutes(r)
  <2>1. Visible(User[r]) \in Plans
    BY PlansAreReadable
  <2>2. Good([Fresh EXCEPT !.pc = "read", !.routes = Visible(User[r])])
    BY <2>1, <1>2, <1>5, FreshIsTyped DEF ReadRoutes, Fresh, RequestState, Held, Local
  <2> QED BY <2>2, <1>5 DEF ReadRoutes
<1>6. CASE originate_call(r)
  <2>1. PICK s \in Slugs : Stays(r, [Fresh EXCEPT !.pc = "ensure", !.todo = {s}])
    BY <1>6 DEF originate_call
  <2>2. Good([Fresh EXCEPT !.pc = "ensure", !.todo = {s}])
    BY <1>2, <1>6, FreshIsTyped DEF originate_call, Fresh, RequestState, Held, Local
  <2> QED BY <2>1, <2>2
<1>7. CASE apply_routes(r)
  <2> DEFINE st == [requests[r] EXCEPT !.pc = "ensure",
                      !.todo = {requests[r].routes[d] : d \in Dids} \ {NoSlug}]
  <2>1. {requests[r].routes[d] : d \in Dids} \ {NoSlug} \in SUBSET Slugs
    BY <1>1 DEF RequestState, Plans
  <2>2. Good(st)
    BY <2>1, <1>1, <1>7 DEF apply_routes, RequestState, Held, Local
  <2>3. Stays(r, st)
    BY <1>7 DEF apply_routes
  <2> QED BY <2>2, <2>3
<1>8. CASE find_agent(r)
  <2>1. PICK s \in requests[r].todo :
          \/ Stays(r, [requests[r] EXCEPT !.todo = @ \ {s}])
          \/ Fails(r, s, [requests[r] EXCEPT !.todo = @ \ {s}])
          \/ Stays(r, [[requests[r] EXCEPT !.todo = @ \ {s}] EXCEPT !.pc = "start", !.slug = s])
    BY <1>8 DEF find_agent
  <2> DEFINE left == [requests[r] EXCEPT !.todo = @ \ {s}]
  <2>2. s \in Slugs /\ requests[r].pc = "ensure"
    BY <1>1, <1>8 DEF RequestState, find_agent
  <2>3. Good(left)
    BY <1>1, <2>2 DEF RequestState, Held, Local
  <2>4. Good([left EXCEPT !.errors = @ \cup {s}])
    BY <1>1, <2>2 DEF RequestState, Held, Local, Errors
  <2>5. Good([left EXCEPT !.pc = "start", !.slug = s])
    BY <1>1, <2>2 DEF RequestState, Held, Local
  <2> QED BY <2>1, <2>3, <2>4, <2>5 DEF Fails
<1>9. CASE start_agent(r)
  <2> DEFINE back == [requests[r] EXCEPT !.pc = "ensure", !.slug = NoSlug]
  <2>1. requests[r].pc = "start"
    BY <1>9 DEF start_agent
  <2>2. Good(back)
    BY <1>1, <2>1 DEF RequestState, Held, Local
  <2>3. CASE Stays(r, back)
    BY <2>2, <2>3
  <2>4. CASE Fails(r, requests[r].slug, back)
    <3>1. Stays(r, [back EXCEPT !.errors = @ \cup {requests[r].slug}])
      BY <2>4 DEF Fails
    <3>2. requests[r].slug \in Slugs
      BY <2>1 DEF HandlersInv, Local
    <3>3. Good([back EXCEPT !.errors = @ \cup {requests[r].slug}])
      BY <1>1, <2>1, <3>2 DEF RequestState, Held, Local, Errors
    <3> QED BY <3>1, <3>3
  <2> QED BY <2>3, <2>4, <1>9 DEF start_agent
<1>10. CASE AgentStarted(r)
  BY <1>4, <1>1, <1>10 DEF AgentStarted, RequestState
<1>11. CASE WriteFile(r)
  <2> DEFINE st == [requests[r] EXCEPT !.pc = "reload"]
  <2>1. requests[r].pc = "ensure"
    BY <1>11 DEF WriteFile
  <2>2. Good(st) /\ Good([st EXCEPT !.errors = @ \cup {"write"}])
    BY <1>1, <2>1 DEF RequestState, Held, Local, Errors
  <2>3. Stays(r, st) \/ Stays(r, [st EXCEPT !.errors = @ \cup {"write"}])
    BY <1>11 DEF WriteFile, Fails
  <2> QED BY <2>2, <2>3
<1>12. CASE Reload(r)
  <2>1. Good(Ended(r, "done"))
    BY <1>4, <1>1 DEF RequestState
  <2>2. Good([Ended(r, "done") EXCEPT !.errors = @ \cup {"reload"}])
    BY <1>1, FreshIsTyped DEF Ended, Fresh, RequestState, Held, Local, Errors
  <2>3. Stays(r, Ended(r, "done")) \/ Stays(r, [Ended(r, "done") EXCEPT !.errors = @ \cup {"reload"}])
    BY <1>12 DEF Reload, Fails
  <2> QED BY <2>1, <2>2, <2>3
<1> QED BY <1>5, <1>6, <1>7, <1>8, <1>9, <1>10, <1>11, <1>12 DEF Moves, Step

\* The steps that are not a handler's.
Environment ==
  \/ create_route \/ edit_route \/ delete_route
  \/ \E s \in Slugs : ContainerChanges(s)
  \/ AsteriskRestarts

\* Every step is the environment's, a crash, or one handler's.
LEMMA NextIs ==
  ASSUME [Next]_vars
  PROVE  \/ Environment \/ Crash \/ UNCHANGED vars
         \/ \E r \in Requests : Moves(r)
BY DEF Next, Environment, Moves

\* Edits, containers and Asterisk's restarts touch no handler and not the file.
LEMMA EnvironmentLeavesHandlers ==
  ASSUME Environment
  PROVE  UNCHANGED <<requests, file, crashes>>
BY DEF Environment, create_route, edit_route, delete_route, EditRoutes,
       ContainerChanges, AsteriskRestarts

\* No handler of an apply or an originate edits the table.
LEMMA MovesLeaveTheRest ==
  ASSUME NEW r \in Requests, Moves(r)
  PROVE  UNCHANGED <<routes, edits, crashes, changes>>
BY DEF Moves, Step, ReadRoutes, originate_call, apply_routes, find_agent, start_agent,
       AgentStarted, WriteFile, Reload, Other

\* Errors are never taken back, and one handler at most has the event loop.
LEMMA HandlersStep ==
  ASSUME TypeOK, HandlersInv, [Next]_vars
  PROVE  /\ requests' \in [Requests -> RequestState]
         /\ HandlersInv'
         /\ \A r \in Requests : requests[r].errors \subseteq requests'[r].errors
         /\ \A q, r \in Requests : requests'[q].pc \in Held /\ requests'[r].pc \in Held => q = r
         /\ crashes > 0 => crashes' > 0
<1>1. CASE Environment \/ UNCHANGED vars
  BY <1>1, EnvironmentLeavesHandlers DEF TypeOK, HandlersInv, vars
<1>2. CASE Crash
  <2>1. ASSUME NEW r \in Requests
        PROVE  /\ requests'[r] \in RequestState /\ Local(requests'[r])
               /\ requests'[r].errors = requests[r].errors
               /\ requests'[r].pc \notin Held
    <3>1. requests'[r] = IF requests[r].pc \in Held \cup {"read"} THEN Ended(r, "died") ELSE requests[r]
      BY <1>2 DEF Crash
    <3>2. requests[r] \in RequestState /\ Local(requests[r])
      BY DEF TypeOK, HandlersInv
    <3>3. /\ Ended(r, "died") \in RequestState /\ Local(Ended(r, "died"))
          /\ Ended(r, "died").errors = requests[r].errors
          /\ Ended(r, "died").pc \notin Held
      BY <3>2, FreshIsTyped DEF Ended, RequestState, Fresh, Local, Held
    <3>4. CASE requests[r].pc \in Held \cup {"read"}
      BY <3>1, <3>3, <3>4
    <3>5. CASE requests[r].pc \notin Held \cup {"read"}
      BY <3>1, <3>2, <3>5
    <3> QED BY <3>4, <3>5
  <2>2. crashes' = crashes + 1 /\ crashes \in Nat
    BY <1>2 DEF Crash, TypeOK
  <2>3. requests' = [r \in Requests |-> requests'[r]]
    BY <1>2 DEF Crash
  <2>4. requests' \in [Requests -> RequestState]
    BY <2>1, <2>3
  <2> QED BY <2>1, <2>2, <2>4 DEF HandlersInv
<1>3. CASE \E r \in Requests : Moves(r)
  <2>1. PICK r \in Requests : Moves(r)
    BY <1>3
  <2>2. PICK st \in RequestState :
          /\ requests' = [requests EXCEPT ![r] = st]
          /\ requests[r].errors \subseteq st.errors
          /\ st.pc # "idle" /\ Local(st)
          /\ st.pc \in Held => requests[r].pc \in Held \/ ~Busy
    BY <2>1, HandlersMove
  <2>3. crashes' = crashes
    BY <2>1, MovesLeaveTheRest
  <2>4. requests \in [Requests -> RequestState]
    BY DEF TypeOK
  <2>5. \A q \in Requests : requests'[q] = IF q = r THEN st ELSE requests[q]
    BY <2>2, <2>4
  <2>6. \A p, q \in Requests : requests[p].pc \in Held /\ requests[q].pc \in Held => p = q
    BY DEF TypeOK
  <2>7. \A p, q \in Requests : requests'[p].pc \in Held /\ requests'[q].pc \in Held => p = q
    BY <2>2, <2>5, <2>6 DEF Busy
  <2>8. HandlersInv'
    BY <2>2, <2>5 DEF HandlersInv
  <2>9. requests' \in [Requests -> RequestState]
    BY <2>2, <2>4
  <2> QED BY <2>2, <2>3, <2>5, <2>7, <2>8, <2>9
<1> QED BY <1>1, <1>2, <1>3, NextIs

\* File, dialplan, containers and table keep their types.
LEMMA PlansStep ==
  ASSUME TypeOK, [Next]_vars
  PROVE  /\ file' \in Plans /\ dialplan' \in Plans
         /\ containers' \in [Slugs -> {"running", "stale", "absent", "removed"}]
         /\ routes' \in [Dids -> Routes]
         /\ edits' \in Nat /\ crashes' \in Nat /\ changes' \in Nat
<1> USE DEF TypeOK
<1>0. Empty \in Plans
  BY DEF Empty, Plans
<1>1. CASE UNCHANGED vars
  BY <1>1 DEF vars
<1>2. CASE Environment
  <2>1. CASE create_route \/ edit_route \/ delete_route
    <3>1. PICK d \in Dids, route \in Routes : EditRoutes(d, route)
      BY <2>1 DEF create_route, edit_route, delete_route, Routes
    <3> QED BY <3>1 DEF EditRoutes
  <2>2. CASE \E s \in Slugs : ContainerChanges(s)
    BY <2>2 DEF ContainerChanges
  <2>3. CASE AsteriskRestarts
    BY <2>3 DEF AsteriskRestarts
  <2> QED BY <1>2, <2>1, <2>2, <2>3 DEF Environment
<1>3. CASE Crash
  BY <1>0, <1>3 DEF Crash
<1>4. ASSUME NEW r \in Requests, Moves(r)
      PROVE  /\ file' \in Plans /\ dialplan' \in Plans
             /\ containers' \in [Slugs -> {"running", "stale", "absent", "removed"}]
  <2>1. requests[r] \in RequestState
    OBVIOUS
  <2>2. CASE ReadRoutes(r) \/ originate_call(r) \/ apply_routes(r) \/ AgentStarted(r)
    BY <2>2 DEF ReadRoutes, originate_call, apply_routes, AgentStarted, Other
  <2>3. CASE find_agent(r)
    <3>1. UNCHANGED <<file, dialplan>>
      BY <2>3 DEF find_agent
    <3>2. \E s \in Slugs : containers' \in {containers, [containers EXCEPT ![s] = "removed"]}
      BY <2>1, <2>3 DEF find_agent, RequestState
    <3> QED BY <3>1, <3>2
  <2>4. CASE start_agent(r)
    <3>1. UNCHANGED <<file, dialplan>>
      BY <2>4 DEF start_agent
    <3>2. containers' \in {containers, [containers EXCEPT ![requests[r].slug] = "running"]}
      BY <2>4 DEF start_agent
    <3> QED BY <3>1, <3>2
  <2>5. CASE WriteFile(r)
    <3>1. file' \in {Plan(requests[r].routes), file, Empty} /\ UNCHANGED <<dialplan, containers>>
      BY <2>5 DEF WriteFile
    <3>2. Plan(requests[r].routes) \in Plans
      BY <2>1, PlanIsSafe DEF RequestState
    <3> QED BY <1>0, <3>1, <3>2
  <2>6. CASE Reload(r)
    BY <2>6 DEF Reload
  <2> QED BY <1>4, <2>2, <2>3, <2>4, <2>5, <2>6 DEF Moves, Step
<1>5. ASSUME NEW r \in Requests, Moves(r)
      PROVE  UNCHANGED <<routes, edits, crashes, changes>>
  BY <1>5, MovesLeaveTheRest
<1> QED BY <1>1, <1>2, <1>3, <1>4, <1>5, NextIs

\* What was reported stays reported.
LEMMA ReportedStays ==
  ASSUME TypeOK, HandlersInv, [Next]_vars, NEW e
  PROVE  /\ Reported(e) => Reported(e)'
         /\ crashes > 0 => crashes' > 0
BY HandlersStep DEF Reported

\* What a write leaves behind: the plan of this request, or its error.
LEMMA WriteStep ==
  ASSUME TypeOK, NEW r \in Requests, WriteFile(r)
  PROVE  /\ requests'[r].pc = "reload" /\ requests'[r].routes = requests[r].routes
         /\ \/ file' = Plan(requests[r].routes)
            \/ file' \in {file, Empty} /\ "write" \in requests'[r].errors
         /\ dialplan' = dialplan /\ containers' = containers
         /\ requests[r].pc = "ensure"
         /\ \A q \in Requests \ {r} : requests'[q] = requests[q]
<1>1. requests[r] \in RequestState /\ requests \in [Requests -> RequestState]
  BY DEF TypeOK
<1> DEFINE st == [requests[r] EXCEPT !.pc = "reload"]
           failed == [st EXCEPT !.errors = @ \cup {"write"}]
<1>2. /\ \/ file' = Plan(requests[r].routes) /\ requests' = [requests EXCEPT ![r] = st]
         \/ file' \in {file, Empty} /\ requests' = [requests EXCEPT ![r] = failed]
      /\ dialplan' = dialplan /\ containers' = containers
      /\ requests[r].pc = "ensure"
  BY DEF WriteFile, Fails, Stays
<1>3. /\ st.pc = "reload" /\ st.routes = requests[r].routes
      /\ failed.pc = "reload" /\ failed.routes = requests[r].routes
      /\ "write" \in failed.errors
  BY <1>1 DEF RequestState
<1>4. CASE file' = Plan(requests[r].routes) /\ requests' = [requests EXCEPT ![r] = st]
  <2>1. requests'[r] = st /\ \A q \in Requests \ {r} : requests'[q] = requests[q]
    BY <1>1, <1>4
  <2> QED BY <1>2, <1>3, <1>4, <2>1
<1>5. CASE file' \in {file, Empty} /\ requests' = [requests EXCEPT ![r] = failed]
  <2>1. requests'[r] = failed /\ \A q \in Requests \ {r} : requests'[q] = requests[q]
    BY <1>1, <1>5
  <2> QED BY <1>2, <1>3, <1>5, <2>1
<1> QED BY <1>2, <1>4, <1>5

\* No other step of a handler leads to the reload, or touches file or dialplan.
LEMMA OtherMoves ==
  ASSUME TypeOK, NEW r \in Requests, Moves(r), ~WriteFile(r), ~Reload(r)
  PROVE  /\ file' = file /\ dialplan' = dialplan
         /\ requests'[r].pc # "reload"
         /\ \A q \in Requests \ {r} : requests'[q] = requests[q]
<1>1. requests[r] \in RequestState /\ requests \in [Requests -> RequestState]
  BY DEF TypeOK
<1>2. file' = file /\ dialplan' = dialplan
  BY DEF Moves, Step, ReadRoutes, originate_call, apply_routes, find_agent, start_agent,
         AgentStarted, Other
<1>3. SUFFICES \E st : st.pc # "reload" /\ requests' = [requests EXCEPT ![r] = st]
  BY <1>1, <1>2
<1>4. CASE ReadRoutes(r)
  BY <1>4 DEF ReadRoutes, Stays, Fresh
<1>5. CASE originate_call(r)
  BY <1>5 DEF originate_call, Stays, Fresh
<1>6. CASE apply_routes(r)
  BY <1>1, <1>6 DEF apply_routes, Stays, RequestState
<1>7. CASE find_agent(r)
  <2>1. PICK s \in requests[r].todo :
          LET left == [requests[r] EXCEPT !.todo = @ \ {s}] IN
          \/ Stays(r, left)
          \/ Stays(r, [left EXCEPT !.errors = @ \cup {s}])
          \/ Stays(r, [left EXCEPT !.pc = "start", !.slug = s])
    BY <1>7 DEF find_agent, Fails
  <2>2. requests[r].pc = "ensure"
    BY <1>7 DEF find_agent
  <2> QED BY <1>1, <2>1, <2>2 DEF Stays, RequestState
<1>8. CASE start_agent(r)
  <2> DEFINE back == [requests[r] EXCEPT !.pc = "ensure", !.slug = NoSlug]
  <2>1. Stays(r, back) \/ Stays(r, [back EXCEPT !.errors = @ \cup {requests[r].slug}])
    BY <1>8 DEF start_agent, Fails
  <2> QED BY <1>1, <2>1 DEF Stays, RequestState
<1>9. CASE AgentStarted(r)
  BY <1>9 DEF AgentStarted, Stays, Ended, Fresh
<1> QED BY <1>4, <1>5, <1>6, <1>7, <1>8, <1>9 DEF Moves, Step

\* After a crash nobody has the event loop, and the file is whole or empty.
LEMMA CrashStep ==
  ASSUME TypeOK, Crash
  PROVE  /\ crashes' > 0 /\ file' \in {file, Empty} /\ dialplan' = dialplan
         /\ \A q \in Requests : requests'[q].pc \notin Held
<1>1. /\ crashes' > 0 /\ file' \in {file, Empty} /\ dialplan' = dialplan
  BY DEF Crash, TypeOK
<1>2. \A q \in Requests : requests'[q] = IF requests[q].pc \in Held \cup {"read"}
                                        THEN Ended(q, "died") ELSE requests[q]
  BY DEF Crash
<1>3. \A q \in Requests : Ended(q, "died").pc = "died"
  BY DEF Ended, Fresh
<1> QED BY <1>1, <1>2, <1>3 DEF Held

\* Asterisk only ever loads the file; a handler that has it reloaded is over
\* with it, or says that it failed.
LEMMA ReloadStep ==
  ASSUME TypeOK, HandlersInv, NEW r \in Requests, Reload(r)
  PROVE  /\ file' = file /\ dialplan' \in {file, dialplan}
         /\ requests'[r].pc = "done"
         /\ dialplan' # file => "reload" \in requests'[r].errors
         /\ requests'[r].errors \in {requests[r].errors, requests[r].errors \cup {"reload"}}
         /\ \A q \in Requests \ {r} : requests'[q] = requests[q]
<1>1. requests \in [Requests -> RequestState]
  BY DEF TypeOK
<1>2. /\ file' = file
      /\ \/ dialplan' = file /\ requests' = [requests EXCEPT ![r] = Ended(r, "done")]
         \/ /\ dialplan' \in {file, dialplan}
            /\ requests' = [requests EXCEPT ![r] = [Ended(r, "done") EXCEPT !.errors = @ \cup {"reload"}]]
  BY DEF Reload, Fails, Stays
<1>3. /\ Ended(r, "done").pc = "done" /\ Ended(r, "done").errors = requests[r].errors
      /\ [Ended(r, "done") EXCEPT !.errors = @ \cup {"reload"}].pc = "done"
      /\ [Ended(r, "done") EXCEPT !.errors = @ \cup {"reload"}].errors = requests[r].errors \cup {"reload"}
  BY DEF Ended, Fresh
<1>4. CASE dialplan' = file /\ requests' = [requests EXCEPT ![r] = Ended(r, "done")]
  <2>1. requests'[r] = Ended(r, "done") /\ \A q \in Requests \ {r} : requests'[q] = requests[q]
    BY <1>1, <1>4
  <2> QED BY <1>2, <1>3, <1>4, <2>1
<1>5. CASE /\ dialplan' \in {file, dialplan}
           /\ requests' = [requests EXCEPT ![r] = [Ended(r, "done") EXCEPT !.errors = @ \cup {"reload"}]]
  <2>1. /\ requests'[r] = [Ended(r, "done") EXCEPT !.errors = @ \cup {"reload"}]
        /\ \A q \in Requests \ {r} : requests'[q] = requests[q]
    BY <1>1, <1>5
  <2> QED BY <1>2, <1>3, <1>5, <2>1
<1> QED BY <1>2, <1>4, <1>5

\* The environment loads the file, if anything.
LEMMA EnvironmentStep ==
  ASSUME Environment \/ UNCHANGED vars
  PROVE  /\ UNCHANGED <<requests, file, crashes>> /\ dialplan' \in {file, dialplan}
BY EnvironmentLeavesHandlers DEF Environment, create_route, edit_route, delete_route, EditRoutes,
       ContainerChanges, AsteriskRestarts, vars

\* Nobody writes the file between a handler's write and its reload.
LEMMA FileIsOursStep ==
  ASSUME IInv, [Next]_vars
  PROVE  FileIsOurs'
<1>1. SUFFICES ASSUME NEW r \in Requests, requests'[r].pc = "reload", "write" \notin requests'[r].errors
               PROVE  file' = Plan(requests'[r].routes)
  BY DEF FileIsOurs, Plan
<1>2. CASE Environment \/ UNCHANGED vars
  BY <1>1, <1>2, EnvironmentStep DEF IInv, FileIsOurs
<1>3. CASE Crash
  BY <1>1, <1>3, CrashStep DEF IInv, Held
<1>4. ASSUME NEW q \in Requests, Moves(q)
      PROVE  file' = Plan(requests'[r].routes)
  <2>1. CASE WriteFile(q)
    <3>1. requests'[q].pc = "reload"
      BY <2>1, WriteStep DEF IInv
    <3>2. r = q
      BY <1>1, <3>1, HandlersStep DEF IInv, Held
    <3> QED BY <1>1, <2>1, <3>2, WriteStep DEF IInv
  <2>2. CASE Reload(q)
    <3>1. q # r /\ requests'[r] = requests[r] /\ file' = file
      BY <1>1, <2>2, ReloadStep DEF IInv
    <3> QED BY <1>1, <3>1 DEF IInv, FileIsOurs
  <2>3. CASE ~WriteFile(q) /\ ~Reload(q)
    <3>1. q # r /\ requests'[r] = requests[r] /\ file' = file
      BY <1>1, <1>4, <2>3, OtherMoves DEF IInv
    <3> QED BY <1>1, <3>1 DEF IInv, FileIsOurs
  <2> QED BY <2>1, <2>2, <2>3
<1> QED BY <1>2, <1>3, <1>4, NextIs

\* A difference of file and dialplan is made by a write, whose reload follows,
\* and outlives the reload only with an error.
LEMMA DriftStep ==
  ASSUME IInv, [Next]_vars
  PROVE  DriftIsReported'
<1>1. SUFFICES ASSUME dialplan' # file', ~Reported("reload")', ~(crashes' > 0)
               PROVE  \E r \in Requests : requests'[r].pc = "reload"
  BY DEF DriftIsReported
<1>2. ~Reported("reload") /\ ~(crashes > 0)
  BY <1>1, ReportedStays DEF IInv
<1>3. CASE Environment \/ UNCHANGED vars
  BY <1>1, <1>2, <1>3, EnvironmentStep DEF IInv, DriftIsReported
<1>4. CASE Crash
  BY <1>1, <1>4, CrashStep DEF IInv
<1>5. ASSUME NEW q \in Requests, Moves(q)
      PROVE  \E r \in Requests : requests'[r].pc = "reload"
  <2>1. CASE WriteFile(q)
    BY <2>1, WriteStep DEF IInv
  <2>2. CASE Reload(q)
    BY <1>1, <2>2, ReloadStep DEF IInv, Reported
  <2>3. CASE ~WriteFile(q) /\ ~Reload(q)
    <3>1. dialplan # file /\ requests'[q].pc # "reload" /\ \A p \in Requests \ {q} : requests'[p] = requests[p]
      BY <1>1, <1>5, <2>3, OtherMoves DEF IInv
    <3>2. PICK r \in Requests : requests[r].pc = "reload"
      BY <1>2, <3>1 DEF IInv, DriftIsReported
    <3>3. r # q
      BY <1>5, <2>3, <3>2 DEF Moves, Step, ReadRoutes, originate_call, apply_routes, find_agent,
                              start_agent, AgentStarted
    <3> QED BY <3>1, <3>2, <3>3
  <2> QED BY <2>1, <2>2, <2>3
<1> QED BY <1>3, <1>4, <1>5, NextIs

\* A file that is not a whole plan comes with an error or a crash.
LEMMA AnswersStep ==
  ASSUME IInv, [Next]_vars
  PROVE  EveryNumberIsAnswered'
<1>1. \A e : Reported(e) => Reported(e)'
  BY ReportedStays DEF IInv
<1>2. crashes > 0 => crashes' > 0
  BY ReportedStays DEF IInv
<1> DEFINE Fine(plan) == /\ plan[CatchAll] = NoSlug => Reported("write")' \/ crashes' > 0
                         /\ \A d \in Dids : plan[d] \notin UnsafeSlugs
<1>3. Fine(file) /\ Fine(dialplan)
  BY <1>1, <1>2 DEF IInv, EveryNumberIsAnswered
<1>4. \A d \in Dids : Empty[d] = NoSlug /\ NoSlug \notin UnsafeSlugs
  BY RouteAssumption DEF Empty
<1>5. SUFFICES Fine(file') /\ Fine(dialplan')
  BY DEF EveryNumberIsAnswered
<1>6. CASE Environment \/ UNCHANGED vars
  BY <1>3, <1>6, EnvironmentStep
<1>7. CASE Crash
  BY <1>3, <1>4, <1>7, CrashStep DEF IInv
<1>8. ASSUME NEW q \in Requests, Moves(q)
      PROVE  Fine(file') /\ Fine(dialplan')
  <2>1. CASE WriteFile(q)
    <3>1. requests[q].routes \in Plans
      BY DEF IInv, TypeOK, RequestState
    <3>2. Fine(Plan(requests[q].routes))
      BY <3>1, PlanIsSafe
    <3>3. "write" \in requests'[q].errors => Reported("write")'
      BY DEF Reported
    <3>4. "write" \in requests'[q].errors => Fine(Empty)
      BY <1>4, <3>3
    <3> QED BY <1>3, <2>1, <3>2, <3>4, WriteStep DEF IInv
  <2>2. CASE Reload(q)
    BY <1>3, <2>2, ReloadStep DEF IInv
  <2>3. CASE ~WriteFile(q) /\ ~Reload(q)
    BY <1>3, <1>8, <2>3, OtherMoves DEF IInv
  <2> QED BY <2>1, <2>2, <2>3
<1> QED BY <1>6, <1>7, <1>8, NextIs

\* A handler that is about to start an agent removed it; no other step removes one.
LEMMA ContainersStep ==
  ASSUME IInv, NEW q \in Requests, Moves(q), NEW s \in Slugs, containers'[s] = "removed"
  PROVE  \/ requests'[q].pc = "start" /\ requests'[q].slug = s
         \/ containers[s] = "removed" /\ requests[q].pc # "start"
         \/ containers[s] = "removed" /\ requests[q].slug # s
         \/ s \in requests'[q].errors
<1>1. /\ requests[q] \in RequestState /\ requests \in [Requests -> RequestState]
      /\ containers \in [Slugs -> {"running", "stale", "absent", "removed"}]
  BY DEF IInv, TypeOK
<1>2. CASE find_agent(q)
  <2>1. PICK t \in requests[q].todo :
          \/ containers' = containers
          \/ /\ Stays(q, [[requests[q] EXCEPT !.todo = @ \ {t}] EXCEPT !.pc = "start", !.slug = t])
             /\ containers' = [containers EXCEPT ![t] = "removed"]
    BY <1>2 DEF find_agent
  <2>2. requests[q].pc = "ensure"
    BY <1>2 DEF find_agent
  <2>3. CASE containers' = [containers EXCEPT ![t] = "removed"] /\ containers' # containers
    <3>1. requests'[q].pc = "start" /\ requests'[q].slug = t
      BY <1>1, <2>1, <2>3 DEF Stays, RequestState
    <3>2. s = t \/ containers[s] = "removed"
      BY <1>1, <2>3
    <3> QED BY <2>2, <3>1, <3>2
  <2> QED BY <2>1, <2>2, <2>3
<1>3. CASE start_agent(q)
  <2> DEFINE back == [requests[q] EXCEPT !.pc = "ensure", !.slug = NoSlug]
  <2>1. \/ containers' = [containers EXCEPT ![requests[q].slug] = "running"]
        \/ containers' = containers /\ Stays(q, [back EXCEPT !.errors = @ \cup {requests[q].slug}])
    BY <1>3 DEF start_agent, Fails
  <2>2. CASE containers' = [containers EXCEPT ![requests[q].slug] = "running"]
    BY <1>1, <2>2
  <2>3. CASE containers' = containers /\ Stays(q, [back EXCEPT !.errors = @ \cup {requests[q].slug}])
    <3>1. requests'[q].errors = requests[q].errors \cup {requests[q].slug}
      BY <1>1, <2>3 DEF Stays, RequestState
    <3> QED BY <2>3, <3>1
  <2> QED BY <2>1, <2>2, <2>3
<1>4. CASE ~find_agent(q) /\ ~start_agent(q)
  BY <1>4 DEF Moves, Step, ReadRoutes, originate_call, apply_routes, AgentStarted, WriteFile,
              Reload, Other
<1> QED BY <1>2, <1>3, <1>4

\* An agent that was removed is being started, or is reported.
LEMMA RemovedStep ==
  ASSUME IInv, [Next]_vars
  PROVE  RemovedIsReported'
<1>1. SUFFICES ASSUME NEW s \in Slugs, containers'[s] = "removed", ~Reported(s)', ~(crashes' > 0)
               PROVE  \E r \in Requests : requests'[r].pc = "start" /\ requests'[r].slug = s
  BY DEF RemovedIsReported
<1>2. ~Reported(s) /\ ~(crashes > 0)
  BY <1>1, ReportedStays DEF IInv
<1>3. CASE Environment \/ UNCHANGED vars
  <2>1. containers[s] = "removed"
    BY <1>1, <1>3 DEF Environment, create_route, edit_route, delete_route, EditRoutes,
                      ContainerChanges, AsteriskRestarts, vars, IInv, TypeOK
  <2> QED BY <1>2, <1>3, <2>1, EnvironmentStep DEF IInv, RemovedIsReported
<1>4. CASE Crash
  BY <1>1, <1>4, CrashStep DEF IInv
<1>5. ASSUME NEW q \in Requests, Moves(q)
      PROVE  \E r \in Requests : requests'[r].pc = "start" /\ requests'[r].slug = s
  <2>1. CASE requests'[q].pc = "start" /\ requests'[q].slug = s
    BY <2>1
  <2>2. CASE containers[s] = "removed" /\ (requests[q].pc # "start" \/ requests[q].slug # s)
    <3>1. PICK r \in Requests : requests[r].pc = "start" /\ requests[r].slug = s
      BY <1>2, <2>2 DEF IInv, RemovedIsReported
    <3>2. requests'[r] = requests[r]
      BY <1>5, <2>2, <3>1, HandlersMove DEF IInv, TypeOK
    <3> QED BY <3>1, <3>2
  <2>3. s \notin requests'[q].errors
    BY <1>1 DEF Reported
  <2> QED BY <1>1, <1>5, <2>1, <2>2, <2>3, ContainersStep
<1> QED BY <1>3, <1>4, <1>5, NextIs

\* To begin with the file is the default one, loaded, and nobody has done anything.
LEMMA InitIsFine == Init => IInv
<1> SUFFICES ASSUME Init PROVE IInv
  OBVIOUS
<1>1. file \in Plans /\ file[CatchAll] = Basic /\ dialplan = file
      /\ \A d \in Dids : file[d] \notin UnsafeSlugs
  BY RouteAssumption DEF Init, Empty, Plans
<1>2. \A r \in Requests : requests[r] = Fresh
  BY DEF Init
<1>3. Fresh.pc = "idle" /\ Fresh.errors = {}
  BY DEF Fresh
<1>4. requests \in [Requests -> RequestState]
  BY FreshIsTyped DEF Init
<1>5. routes \in [Dids -> Routes] /\ containers \in [Slugs -> {"running", "stale", "absent", "removed"}]
  BY RouteAssumption DEF Init
<1>6. TypeOK
  BY <1>1, <1>2, <1>3, <1>4, <1>5 DEF TypeOK, Init, Held
<1>7. HandlersInv /\ FileIsOurs
  BY <1>2, <1>3 DEF HandlersInv, FileIsOurs, Local
<1>8. EveryNumberIsAnswered
  BY <1>1, RouteAssumption DEF EveryNumberIsAnswered
<1>9. DriftIsReported /\ RemovedIsReported
  BY <1>1 DEF DriftIsReported, RemovedIsReported, Init
<1> QED BY <1>6, <1>7, <1>8, <1>9 DEF IInv

\* IInv holds throughout.
LEMMA Inductive == Spec => []IInv
<1>1. IInv /\ [Next]_vars => IInv'
  <2> SUFFICES ASSUME IInv, [Next]_vars PROVE IInv'
    OBVIOUS
  <2>1. TypeOK' /\ HandlersInv'
    BY HandlersStep, PlansStep DEF IInv, TypeOK
  <2> QED BY <2>1, FileIsOursStep, DriftStep, AnswersStep, RemovedStep DEF IInv
<1> QED BY <1>1, InitIsFine, PTL DEF Spec

\* Every variable has its type, and at most one handler has the event loop.
THEOREM TypeCorrect == Spec => []TypeOK
<1>1. IInv => TypeOK
  BY DEF IInv
<1> QED BY <1>1, Inductive, PTL

\* Asterisk always has a catch-all, and never an agent it cannot name, unless a
\* write of the file failed.
THEOREM NumbersAnswered == Spec => []EveryNumberIsAnswered
<1>1. IInv => EveryNumberIsAnswered
  BY DEF IInv
<1> QED BY <1>1, Inductive, PTL

\* What Asterisk runs differs from extensions.conf only while an apply reloads
\* it, and an agent is removed and not started again only if somebody was told.
THEOREM TroubleReported == Spec => []TroubleIsReported
<1>1. IInv => TroubleIsReported
  BY DEF IInv, TroubleIsReported
<1> QED BY <1>1, Inductive, PTL

\* An apply is answered only by its reload.
LEMMA AppliesEndByReload ==
  ASSUME IInv, NEW r \in Applies, Moves(r), requests'[r].pc = "done"
  PROVE  Reload(r)
<1>1. requests[r] \in RequestState /\ r \in Requests /\ r \notin Outbounds
  BY RouteAssumption DEF IInv, TypeOK, Requests
<1>2. requests \in [Requests -> RequestState]
  BY DEF IInv, TypeOK
<1>3. ~ReadRoutes(r) /\ ~originate_call(r) /\ ~AgentStarted(r)
  BY <1>1, <1>2 DEF ReadRoutes, originate_call, AgentStarted, Stays, Fresh
<1>4. ~apply_routes(r)
  BY <1>1, <1>2 DEF apply_routes, Stays, RequestState
<1>5. ~WriteFile(r)
  BY <1>1, WriteStep DEF IInv
<1>6. ASSUME find_agent(r) PROVE FALSE
  <2>1. PICK s \in requests[r].todo :
          LET left == [requests[r] EXCEPT !.todo = @ \ {s}] IN
          \/ Stays(r, left)
          \/ Stays(r, [left EXCEPT !.errors = @ \cup {s}])
          \/ Stays(r, [left EXCEPT !.pc = "start", !.slug = s])
    BY <1>6 DEF find_agent, Fails
  <2>2. requests[r].pc = "ensure"
    BY <1>6 DEF find_agent
  <2> QED BY <1>1, <1>2, <2>1, <2>2 DEF Stays, RequestState
<1>7. ASSUME start_agent(r) PROVE FALSE
  <2> DEFINE back == [requests[r] EXCEPT !.pc = "ensure", !.slug = NoSlug]
  <2>1. Stays(r, back) \/ Stays(r, [back EXCEPT !.errors = @ \cup {requests[r].slug}])
    BY <1>7 DEF start_agent, Fails
  <2> QED BY <1>1, <1>2, <2>1 DEF Stays, RequestState
<1> QED BY <1>3, <1>4, <1>5, <1>6, <1>7 DEF Moves, Step

\* An apply that answers without errors has loaded the routes it read, although
\* others edit or apply at the same time.
THEOREM ReloadedCorrect == Spec => ReloadedIsOurs
<1> DEFINE Ours(r) ==
      requests[r].pc # "done" /\ requests'[r].pc = "done" /\ requests'[r].errors = {} =>
        dialplan' = Plan(requests[r].routes)
<1>1. IInv /\ [Next]_vars => [\A r \in Applies : Ours(r)]_vars
  <2> SUFFICES ASSUME IInv, [Next]_vars, NEW r \in Applies,
                      requests[r].pc # "done", requests'[r].pc = "done", requests'[r].errors = {}
               PROVE  dialplan' = Plan(requests[r].routes)
    OBVIOUS
  <2>1. r \in Requests
    BY DEF Requests
  <2>2. ~(Environment \/ UNCHANGED vars)
    BY EnvironmentStep
  <2>3. ~Crash
    <3> SUFFICES ASSUME Crash PROVE FALSE
      OBVIOUS
    <3>1. requests'[r] \in {requests[r], Ended(r, "died")}
      BY <2>1 DEF Crash
    <3> QED BY <3>1 DEF Ended, Fresh
  <2>4. PICK q \in Requests : Moves(q)
    BY <2>2, <2>3, NextIs
  <2>5. q = r
    BY <2>1, <2>4, HandlersMove DEF IInv, TypeOK
  <2>6. Reload(r)
    BY <2>4, <2>5, AppliesEndByReload
  <2>7. dialplan' = file /\ requests[r].errors = {}
    BY <2>1, <2>6, ReloadStep DEF IInv
  <2>8. file = Plan(requests[r].routes)
    BY <2>1, <2>6, <2>7 DEF Reload, IInv, FileIsOurs
  <2> QED BY <2>7, <2>8
<1> QED BY <1>1, Inductive, PTL DEF Spec, ReloadedIsOurs

\* No handler takes an agent away that runs, which would cut off its calls.
THEOREM AgentsLeftAlone == Spec => RunningAgentsAreLeftAlone
<1> DEFINE Kept == requests' # requests =>
                     \A s \in Slugs : containers[s] = "running" => containers'[s] = "running"
<1>1. IInv /\ [Next]_vars => [Kept]_vars
  <2> SUFFICES ASSUME IInv, [Next]_vars, requests' # requests, NEW s \in Slugs,
                      containers[s] = "running"
               PROVE  containers'[s] = "running"
    OBVIOUS
  <2>1. containers \in [Slugs -> {"running", "stale", "absent", "removed"}]
    BY DEF IInv, TypeOK
  <2>2. ~(Environment \/ UNCHANGED vars)
    BY EnvironmentStep
  <2>3. CASE Crash
    BY <2>3 DEF Crash
  <2>4. ASSUME NEW q \in Requests, Moves(q) PROVE containers'[s] = "running"
    <3>1. \/ containers' = containers
          \/ \E t \in Slugs : containers[t] = "stale" /\ containers' = [containers EXCEPT ![t] = "removed"]
          \/ containers' = [containers EXCEPT ![requests[q].slug] = "running"]
      <4>1. requests[q] \in RequestState
        BY DEF IInv, TypeOK
      <4>2. CASE find_agent(q)
        BY <4>1, <4>2 DEF find_agent, RequestState
      <4>3. CASE ~find_agent(q)
        BY <2>4, <4>3 DEF Moves, Step, ReadRoutes, originate_call, apply_routes, start_agent,
                          AgentStarted, WriteFile, Reload, Other
      <4> QED BY <4>2, <4>3
    <3> QED BY <2>1, <3>1
  <2> QED BY <2>2, <2>3, <2>4, NextIs
<1> QED BY <1>1, Inductive, PTL DEF Spec, RunningAgentsAreLeftAlone
=============================================================================
