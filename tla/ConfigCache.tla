---------------------------- MODULE ConfigCache ----------------------------
(***************************************************************************)
(* The configuration of the agents: rows in Postgres, the source of truth, *)
(* and snapshots in Redis that every call reads first.  Requests to the    *)
(* config API change the rows and then push a snapshot; a call that finds  *)
(* no snapshot has the config API build one, and both the API and the      *)
(* agent container write it to Redis.  An entry lives for AGENT_CONFIG_TTL *)
(* seconds, and every command to Redis may fail.                           *)
(*                                                                         *)
(* What a row says is abstracted to the number of times it was changed:    *)
(* row counts the changes of an agent's row, providers and specialists,    *)
(* tools those of the tools it lists, its own and the global one.          *)
(***************************************************************************)
EXTENDS Naturals, Sequences, FiniteSets

CONSTANTS
    Agents,         \* slugs
    Requests,       \* requests to the config API, each handled once
    Calls,          \* calls in progress at a time, each loading one agent's config
    Ops,            \* the operations requests may ask for
    PoolSize,       \* connections of the asyncpg pool
    RedisMayFail    \* whether a command to Redis may fail

AllOps == {"create_agent", "update_agent", "save_agent", "delete_agent",
           "upsert_provider", "upsert_tool", "assign_global_tool",
           "unassign_global_tool", "update_global_tool", "delete_global_tool",
           "restore_version"}

ASSUME CacheAssumption ==
    /\ Agents # {}
    /\ Ops \subseteq AllOps
    /\ PoolSize \in Nat
    /\ RedisMayFail \in BOOLEAN
    /\ Requests \cap Calls = {}

VARIABLES
    row,        \* agent -> changes of its row; 0: there is no such agent
    tools,      \* agent -> changes of the tools it lists
    active,     \* agent -> is_active
    assigned,   \* the agents that list the global tool
    versions,   \* agent -> the saved snapshots, oldest first
    cache,      \* agent -> the snapshot in Redis
    job         \* what each request and call is doing

vars == <<row, tools, active, assigned, versions, cache, job>>

Snapshot == [row : Nat, tools : Nat]

\* No snapshot: Redis has no such key, build_snapshot returns None.
Missing == [row |-> 0, tools |-> 0]
Tasks   == Requests \cup Calls

\* The agent's committed configuration, and what build_snapshot should find.
Stored(a)  == [row |-> row[a], tools |-> tools[a]]
Current(a) == IF active[a] THEN Stored(a) ELSE Missing

AtLeast(s, t) == s.row >= t.row /\ s.tools >= t.tools

(***************************************************************************)
(* A task builds a snapshot in two halves, pc `row' and `tools', and then  *)
(* has it `built', for a goal: to save it as a version, to push it, or to  *)
(* answer a call.  `lock' waits for the agent's row in an open             *)
(* transaction; `refs', `delete_key' and `restore' are steps of the        *)
(* handlers that change the global tool, delete an agent and               *)
(* restore a version; `answered' is an agent container that has the config *)
(* API's answer.  slug is the agent being worked on, todo those after it,  *)
(* op the handler that waits for a lock.  since keeps, for the agents the  *)
(* task is about, the configuration that its snapshot must not miss.       *)
(***************************************************************************)
PCs   == {"idle", "lock", "row", "tools", "built", "refs", "delete_key",
          "restore", "answered", "done"}
Goals == {"none", "version", "push", "answer"}

Job == [pc : PCs, op : AllOps \cup {"none"}, goal : Goals, slug : Agents,
        todo : SUBSET Agents, snap : Snapshot, since : [Agents -> Snapshot]]

NoJob == [pc |-> "idle", op |-> "none", goal |-> "none",
          slug |-> CHOOSE a \in Agents : TRUE, todo |-> {}, snap |-> Missing,
          since |-> [a \in Agents |-> Missing]]

Done(p) == [NoJob EXCEPT !.pc = IF p \in Calls THEN "idle" ELSE "done"]

\* A transaction that updates the agents row waits for its lock and then holds
\* it, on a connection it keeps until it commits; build_snapshot reads on a
\* connection of its own, also inside such a transaction.
Updating(p)  == job[p].goal = "version"
\* Bug variant: the version is read before the UPDATE takes the lock.
RowLocked_not_yet(a) == FALSE
RowLocked(a) == \E p \in Tasks : Updating(p) /\ job[p].slug = a
\* Bug variant: the transaction is opened on a connection beside the handler's.
InUse_twice == 2 * Cardinality({p \in Tasks : Updating(p) \/ job[p].pc = "lock"})
             + Cardinality({p \in Tasks : job[p].pc = "tools"})
InUse == Cardinality({p \in Tasks : Updating(p) \/ job[p].pc = "lock"})
       + Cardinality({p \in Tasks : job[p].pc = "tools"})
Connection == InUse < PoolSize

Init ==
    /\ row \in [Agents -> 0 .. 1]
    /\ tools = [a \in Agents |-> 0]
    /\ active = [a \in Agents |-> row[a] = 1]
    /\ assigned \in SUBSET {a \in Agents : row[a] = 1}
    /\ versions = [a \in Agents |-> <<>>]
    /\ cache = [a \in Agents |-> Missing]
    /\ job = [p \in Tasks |-> NoJob]

(***************************************************************************)
(* build_snapshot, in any task: None for an agent that is not active.  The *)
(* tools are read by a later statement of the same connection, which sees  *)
(* what was committed in between.                                          *)
(***************************************************************************)
\* Bug variant: the version is built on the connection of the transaction.
BuildRow_uncommitted(p) ==
    LET a == job[p].slug IN
    /\ job[p].pc = "row"
    /\ Connection
    /\ job' = [job EXCEPT ![p].pc   = IF active[a] THEN "tools" ELSE "built",
                          ![p].snap = IF ~ active[a] THEN Missing
                                      ELSE [row |-> IF Updating(p) THEN row[a] + 1
                                                    ELSE row[a], tools |-> 0]]
    /\ UNCHANGED <<row, tools, active, assigned, versions, cache>>

\* Bug variant: the query does not ask for is_active.
BuildRow_of_inactive(p) ==
    /\ job[p].pc = "row"
    /\ Connection
    /\ job' = [job EXCEPT ![p].pc   = "tools",
                          ![p].snap = [row |-> row[job[p].slug], tools |-> 0]]
    /\ UNCHANGED <<row, tools, active, assigned, versions, cache>>

BuildRow(p) ==
    LET a == job[p].slug IN
    /\ job[p].pc = "row"
    /\ Connection
    /\ job' = [job EXCEPT ![p].pc   = IF active[a] THEN "tools" ELSE "built",
                          ![p].snap = IF active[a]
                                      THEN [row |-> row[a], tools |-> 0]
                                      ELSE Missing]
    /\ UNCHANGED <<row, tools, active, assigned, versions, cache>>

BuildTools(p) ==
    /\ job[p].pc = "tools"
    /\ job' = [job EXCEPT ![p].pc = "built",
                          ![p].snap = [row |-> @.row, tools |-> tools[job[p].slug]]]
    /\ UNCHANGED <<row, tools, active, assigned, versions, cache>>

\* SETEX or DEL, which may fail; the handlers only log that.
Redis(a, s) == \/ cache' = [cache EXCEPT ![a] = s]
               \/ RedisMayFail /\ UNCHANGED cache

(***************************************************************************)
(* _push_snapshot.  Nothing is pushed of an agent that is not active.      *)
(* update_global_tool goes on to the next agent that lists the tool.       *)
(***************************************************************************)
NextPush(p) ==
    IF job[p].todo = {} THEN job' = [job EXCEPT ![p] = Done(p)]
    ELSE \E a \in job[p].todo :
            job' = [job EXCEPT ![p].pc = "row", ![p].slug = a,
                               ![p].todo = @ \ {a}, ![p].snap = Missing]

Push(p) ==
    /\ job[p].pc = "built" /\ job[p].goal = "push"
    /\ IF job[p].snap = Missing THEN UNCHANGED cache
       ELSE Redis(job[p].slug, job[p].snap)
    /\ NextPush(p)
    /\ UNCHANGED <<row, tools, active, assigned, versions>>

\* After its commit the handler builds a snapshot of a and pushes it.
PushDue(r, a) ==
    job' = [job EXCEPT ![r] =
              [NoJob EXCEPT !.pc = "row", !.goal = "push", !.slug = a,
                            !.since[a] = [row |-> row'[a], tools |-> tools'[a]]]]

\* A new request may be handled: the handler gets a connection.
Starts(r, op) == r \in Requests /\ op \in Ops /\ job[r].pc = "idle" /\ Connection

create_agent(r, a) ==
    /\ Starts(r, "create_agent") /\ row[a] = 0
    /\ row' = [row EXCEPT ![a] = 1]
    /\ \E on \in BOOLEAN : active' = [active EXCEPT ![a] = on]
    /\ UNCHANGED <<tools, assigned, versions, cache>>
    /\ PushDue(r, a)

\* Providers and specialists: rows that refer to the agent's and do not lock it.
upsert_provider(r, a) ==
    /\ Starts(r, "upsert_provider") /\ row[a] > 0
    /\ row' = [row EXCEPT ![a] = @ + 1]
    /\ UNCHANGED <<tools, active, assigned, versions, cache>>
    /\ PushDue(r, a)

\* The agent's own tools.
upsert_tool(r, a) ==
    /\ Starts(r, "upsert_tool") /\ row[a] > 0
    /\ tools' = [tools EXCEPT ![a] = @ + 1]
    /\ UNCHANGED <<row, active, assigned, versions, cache>>
    /\ PushDue(r, a)

assign_global_tool(r, a) ==
    /\ Starts(r, "assign_global_tool") /\ row[a] > 0
    /\ assigned' = assigned \cup {a}
    /\ tools' = [tools EXCEPT ![a] = @ + 1]
    /\ UNCHANGED <<row, active, versions, cache>>
    /\ PushDue(r, a)

unassign_global_tool(r, a) ==
    /\ Starts(r, "unassign_global_tool") /\ a \in assigned
    /\ assigned' = assigned \ {a}
    /\ tools' = [tools EXCEPT ![a] = @ + 1]
    /\ UNCHANGED <<row, active, versions, cache>>
    /\ PushDue(r, a)

\* The global tool is a part of every agent that lists it; which ones those are
\* is read after the change is committed.
ChangeGlobalTool ==
    tools' = [a \in Agents |-> IF a \in assigned THEN tools[a] + 1 ELSE tools[a]]

update_global_tool(r) ==
    /\ Starts(r, "update_global_tool")
    /\ ChangeGlobalTool
    /\ UNCHANGED <<row, active, assigned, versions, cache>>
    /\ job' = [job EXCEPT ![r] =
                 [NoJob EXCEPT !.pc = "refs", !.goal = "push",
                               !.since = [a \in Agents |->
                                    IF a \in assigned THEN [row |-> row[a], tools |-> tools'[a]]
                                    ELSE Missing]]]

ReadRefs(r) ==
    /\ job[r].pc = "refs" /\ Connection
    /\ IF assigned = {} THEN job' = [job EXCEPT ![r] = Done(r)]
       ELSE \E a \in assigned :
              job' = [job EXCEPT ![r].pc = "row", ![r].slug = a,
                                 ![r].todo = assigned \ {a}]
    /\ UNCHANGED <<row, tools, active, assigned, versions, cache>>

\* The references go with the tool (ON DELETE CASCADE).  Nothing is pushed.
delete_global_tool(r) ==
    /\ Starts(r, "delete_global_tool")
    /\ ChangeGlobalTool
    /\ assigned' = {}
    /\ job' = [job EXCEPT ![r] = Done(r)]
    /\ UNCHANGED <<row, active, versions, cache>>

(***************************************************************************)
(* The handlers that update the agents row: they wait for its lock.        *)
(***************************************************************************)
Waits(r, op, a) ==
    /\ Starts(r, op) /\ row[a] > 0
    /\ job' = [job EXCEPT ![r] = [NoJob EXCEPT !.pc = "lock", !.op = op, !.slug = a]]
    /\ UNCHANGED <<row, tools, active, assigned, versions, cache>>

HasLock(r, op) == job[r].pc = "lock" /\ job[r].op = op /\ ~ RowLocked(job[r].slug)

UpdateRow(a) ==
    /\ row' = [row EXCEPT ![a] = @ + 1]
    /\ \E on \in BOOLEAN : active' = [active EXCEPT ![a] = on]

\* The form of the admin UI: no version is saved.
save_agent(r) ==
    /\ HasLock(r, "save_agent")
    /\ UpdateRow(job[r].slug)
    /\ UNCHANGED <<tools, assigned, versions, cache>>
    /\ PushDue(r, job[r].slug)

delete_agent(r) ==
    /\ HasLock(r, "delete_agent")
    /\ row' = [row EXCEPT ![job[r].slug] = @ + 1]
    /\ active' = [active EXCEPT ![job[r].slug] = FALSE]
    /\ job' = [job EXCEPT ![r].pc = "delete_key", ![r].op = "none"]
    /\ UNCHANGED <<tools, assigned, versions, cache>>

DeleteKey(r) ==
    /\ job[r].pc = "delete_key"
    /\ Redis(job[r].slug, Missing)
    /\ job' = [job EXCEPT ![r] = Done(r)]
    /\ UNCHANGED <<row, tools, active, assigned, versions>>

(***************************************************************************)
(* update_agent: the UPDATE is not committed while the version is built,   *)
(* on another connection, so that the version is what the update replaces. *)
(***************************************************************************)
update_agent(r) ==
    /\ HasLock(r, "update_agent")
    /\ job' = [job EXCEPT ![r].pc = "row", ![r].op = "none", ![r].goal = "version"]
    /\ UNCHANGED <<row, tools, active, assigned, versions, cache>>

\* Bug variant: the snapshot built for the version is pushed as well.
CommitUpdate_pushes_version(r) ==
    LET a == job[r].slug IN
    /\ job[r].pc = "built" /\ job[r].goal = "version"
    /\ UpdateRow(a)
    /\ versions' = IF job[r].snap = Missing THEN versions
                   ELSE [versions EXCEPT ![a] = Append(@, job[r].snap)]
    /\ UNCHANGED <<tools, assigned, cache>>
    /\ job' = [job EXCEPT ![r].goal = "push",
                          ![r].since[a] = [row |-> row'[a], tools |-> tools[a]]]

CommitUpdate(r) ==
    LET a == job[r].slug IN
    /\ job[r].pc = "built" /\ job[r].goal = "version"
    /\ UpdateRow(a)
    /\ versions' = IF job[r].snap = Missing THEN versions
                   ELSE [versions EXCEPT ![a] = Append(@, job[r].snap)]
    /\ UNCHANGED <<tools, assigned, cache>>
    /\ PushDue(r, a)

\* Bug variant: the whole row of config_versions is taken for the snapshot.
restore_version_row(r, a) ==
    /\ Starts(r, "restore_version")
    /\ \E i \in DOMAIN versions[a] :
          job' = [job EXCEPT ![r] =
                    [NoJob EXCEPT !.pc = "restore", !.slug = a,
                                  !.snap = [id |-> i, snapshot |-> versions[a][i]]]]
    /\ UNCHANGED <<row, tools, active, assigned, versions, cache>>

\* Roll-back: the version goes to Redis and to nowhere else.
restore_version(r, a) ==
    /\ Starts(r, "restore_version")
    /\ \E i \in DOMAIN versions[a] :
          job' = [job EXCEPT ![r] =
                    [NoJob EXCEPT !.pc = "restore", !.slug = a,
                                  !.snap = versions[a][i]]]
    /\ UNCHANGED <<row, tools, active, assigned, versions, cache>>

PushVersion(r) ==
    /\ job[r].pc = "restore"
    /\ Redis(job[r].slug, job[r].snap)
    /\ job' = [job EXCEPT ![r] = Done(r)]
    /\ UNCHANGED <<row, tools, active, assigned, versions>>

(***************************************************************************)
(* A call loads its agent's configuration.  One that finds an entry uses   *)
(* it and writes nothing, so only a miss, or a Redis that fails, is a step.*)
(***************************************************************************)
LoadMisses(c, a) ==
    /\ c \in Calls /\ job[c].pc = "idle"
    /\ cache[a] = Missing \/ RedisMayFail
    /\ job' = [job EXCEPT ![c] =
                 [NoJob EXCEPT !.pc = "row", !.goal = "answer", !.slug = a,
                               !.since[a] = Stored(a)]]
    /\ UNCHANGED <<row, tools, active, assigned, versions, cache>>

\* get_snapshot: 404 for an agent that is not active, or the cache is warmed.
Answer(c) ==
    /\ job[c].pc = "built" /\ job[c].goal = "answer"
    /\ IF job[c].snap = Missing
       THEN UNCHANGED cache /\ job' = [job EXCEPT ![c] = Done(c)]
       ELSE Redis(job[c].slug, job[c].snap) /\ job' = [job EXCEPT ![c].pc = "answered"]
    /\ UNCHANGED <<row, tools, active, assigned, versions>>

\* The agent warms the cache again, unless its request timed out.
AgentWarms(c) ==
    /\ job[c].pc = "answered"
    /\ cache' \in {cache, [cache EXCEPT ![job[c].slug] = job[c].snap]}
    /\ job' = [job EXCEPT ![c] = Done(c)]
    /\ UNCHANGED <<row, tools, active, assigned, versions>>

\* AGENT_CONFIG_TTL seconds after the entry was written.
Expire(a) ==
    /\ cache[a] # Missing
    /\ cache' = [cache EXCEPT ![a] = Missing]
    /\ UNCHANGED <<row, tools, active, assigned, versions, job>>

Begin(p) ==
    \/ \E a \in Agents :
          \/ create_agent(p, a) \/ upsert_provider(p, a) \/ upsert_tool(p, a)
          \/ assign_global_tool(p, a) \/ unassign_global_tool(p, a)
          \/ restore_version(p, a) \/ LoadMisses(p, a)
          \/ Waits(p, "save_agent", a) \/ Waits(p, "update_agent", a)
          \/ Waits(p, "delete_agent", a)
    \/ update_global_tool(p) \/ delete_global_tool(p)

Continue(p) ==
    \/ BuildRow(p) \/ BuildTools(p) \/ Push(p) \/ ReadRefs(p)
    \/ save_agent(p) \/ delete_agent(p) \/ DeleteKey(p)
    \/ update_agent(p) \/ CommitUpdate(p) \/ PushVersion(p)
    \/ Answer(p) \/ AgentWarms(p)

Next == \/ \E p \in Tasks : Begin(p) \/ Continue(p)
        \/ \E a \in Agents : Expire(a)

Spec == Init /\ [][Next]_vars

(***************************************************************************)
(* Whoever waits for a connection or a row gets it in its turn: the pool   *)
(* and Postgres keep queues.  An entry expires.  Nothing makes a request   *)
(* or a call begin.                                                        *)
(***************************************************************************)
FairSpec == /\ Spec
            /\ \A p \in Tasks : SF_vars(Continue(p))
            /\ \A a \in Agents : WF_vars(Expire(a))
-----------------------------------------------------------------------------
TypeOK ==
    /\ row \in [Agents -> Nat]
    /\ tools \in [Agents -> Nat]
    /\ active \in [Agents -> BOOLEAN]
    /\ assigned \subseteq Agents
    /\ versions \in [Agents -> Seq(Snapshot)]
    /\ cache \in [Agents -> Snapshot]
    /\ job \in [Tasks -> Job]

\* What Redis and the version history hold was committed: nothing is cached,
\* saved or about to be cached that is ahead of Postgres, also while a
\* transaction is open.
NothingUncommitted ==
    /\ \A a \in Agents :
          /\ AtLeast(Stored(a), cache[a])
          /\ \A i \in DOMAIN versions[a] : AtLeast(Stored(a), versions[a][i])
    /\ \A p \in Tasks : AtLeast(Stored(job[p].slug), job[p].snap)

\* A handler pushes the change it made, and a call that misses is answered
\* with nothing older than what was stored when it asked, whatever other
\* handlers commit meanwhile.
SnapshotHasTheChange ==
    \A p \in Tasks :
        (job[p].pc \in {"built", "answered"} /\ ~ Updating(p) /\ job[p].snap # Missing)
            => AtLeast(job[p].snap, job[p].since[job[p].slug])

\* The version history is a history: each version is of an older configuration
\* than the next one and than the current one, also with updates at a time.
VersionsAreOrdered ==
    \A a \in Agents : \A i \in DOMAIN versions[a] :
        /\ versions[a][i].row < row[a]
        /\ i > 1 => versions[a][i - 1].row < versions[a][i].row

\* After the last change Redis is, from some time on, either empty or right:
\* also when pushes overtook each other or failed, a call warmed the cache
\* with an older snapshot, or a version was restored.
CacheConverges == <>[](\A a \in Agents : cache[a] \in {Missing, Current(a)})

\* A request that was begun is finished, also when it waits for a row lock or,
\* within its transaction, for a second connection of the pool.
RequestsFinish == \A r \in Requests : (job[r].pc # "idle") ~> (job[r].pc = "done")
=============================================================================
