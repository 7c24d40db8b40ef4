------------------------- MODULE ConfigCache_proofs -------------------------
(***************************************************************************)
(* Proofs about ConfigCache for any agents, requests, calls, operations    *)
(* and pool.                                                               *)
(***************************************************************************)
EXTENDS ConfigCache, TLAPS

\* A task's job j is in order when R, T and V are the rows, the tools and the
\* versions: its snapshot was committed and has what the task must not miss,
\* and a version about to be saved is newer than the saved ones.
JobOK(j, R, T, V) ==
  /\ AtLeast([row |-> R[j.slug], tools |-> T[j.slug]], j.snap)
  /\ \A a \in Agents : AtLeast([row |-> R[a], tools |-> T[a]], j.since[a])
  /\ j.pc = "tools" => j.snap.row >= j.since[j.slug].row
  /\ (j.pc \in {"built", "answered"} /\ j.goal # "version" /\ j.snap # Missing)
       => AtLeast(j.snap, j.since[j.slug])
  /\ j.goal = "version" => j.pc \in {"row", "tools", "built"}
  /\ j.pc = "refs" => j.snap = Missing
  /\ (j.goal = "version" /\ (j.pc = "tools" \/ (j.pc = "built" /\ j.snap # Missing)))
       => \A i \in DOMAIN V[j.slug] : V[j.slug][i].row < j.snap.row

JobsInv == \A p \in Tasks : JobOK(job[p], row, tools, versions)

\* The row's lock is exclusive.
OneUpdater == \A p, q \in Tasks :
    (Updating(p) /\ Updating(q) /\ job[p].slug = job[q].slug) => p = q

CacheInv == \A a \in Agents : AtLeast(Stored(a), cache[a])

VersionsInv == \A a \in Agents : \A i \in DOMAIN versions[a] :
    /\ AtLeast(Stored(a), versions[a][i])
    /\ versions[a][i].row < row[a]
    /\ i > 1 => versions[a][i - 1].row < versions[a][i].row

IInv == TypeOK /\ JobsInv /\ OneUpdater /\ CacheInv /\ VersionsInv

\* The counters only grow, and what was in order stays so.
LEMMA Grows ==
  ASSUME NEW j \in Job, NEW R \in [Agents -> Nat], NEW T \in [Agents -> Nat],
         NEW R2 \in [Agents -> Nat], NEW T2 \in [Agents -> Nat], NEW V,
         \A a \in Agents : R2[a] >= R[a] /\ T2[a] >= T[a],
         JobOK(j, R, T, V)
  PROVE  JobOK(j, R2, T2, V)
<1>1. j.slug \in Agents /\ j.snap \in Snapshot /\ j.since \in [Agents -> Snapshot]
  BY DEF Job
<1>2. AtLeast([row |-> R2[j.slug], tools |-> T2[j.slug]], j.snap)
  BY <1>1 DEF JobOK, AtLeast, Snapshot
<1>3. ASSUME NEW a \in Agents
      PROVE  AtLeast([row |-> R2[a], tools |-> T2[a]], j.since[a])
  <2>1. j.since[a].row \in Nat /\ j.since[a].tools \in Nat
    BY <1>1 DEF Snapshot
  <2> QED BY <2>1 DEF JobOK, AtLeast
<1> QED BY <1>2, <1>3 DEF JobOK

\* A job with nothing to do is in order.
LEMMA Idle ==
  ASSUME TypeOK, NEW p
  PROVE  /\ NoJob \in Job /\ JobOK(NoJob, row, tools, versions)
         /\ Done(p) \in Job /\ JobOK(Done(p), row, tools, versions)
         /\ Done(p).goal = "none"
<1>1. NoJob.slug \in Agents
  BY CacheAssumption DEF NoJob
<1>2. NoJob \in Job
  BY <1>1 DEF NoJob, Job, PCs, Goals, Missing, Snapshot
<1>3. \A a \in Agents : AtLeast([row |-> row[a], tools |-> tools[a]], Missing)
  BY DEF TypeOK, AtLeast, Missing
<1>4. JobOK(NoJob, row, tools, versions)
  BY <1>1, <1>3 DEF JobOK, NoJob
<1>5. Done(p) \in Job /\ Done(p).goal = "none"
  BY <1>1 DEF NoJob, Done, Job, PCs, Goals, Missing, Snapshot
<1>6. JobOK(Done(p), row, tools, versions)
  BY <1>1, <1>3 DEF JobOK, NoJob, Done
<1> QED BY <1>2, <1>4, <1>5, <1>6

\* A step of one task that changes nothing in Postgres and puts at most a
\* committed snapshot in Redis.
LEMMA JobStep ==
  ASSUME IInv, NEW p \in Tasks, NEW j \in Job, JobOK(j, row, tools, versions),
         job' = [job EXCEPT ![p] = j],
         j.goal = "version" => \/ Updating(p) /\ j.slug = job[p].slug
                               \/ ~ RowLocked(j.slug),
         cache' \in [Agents -> Snapshot],
         \A a \in Agents : AtLeast(Stored(a), cache'[a]),
         UNCHANGED <<row, tools, active, assigned, versions>>
  PROVE  IInv'
<1>1. TypeOK'
  BY DEF IInv, TypeOK
<1>2. JobsInv'
  BY DEF IInv, JobsInv, TypeOK
<1>3. OneUpdater'
  BY DEF IInv, OneUpdater, Updating, RowLocked, TypeOK
<1>4. CacheInv'
  BY DEF CacheInv, Stored
<1>5. VersionsInv'
  BY DEF IInv, VersionsInv, Stored
<1> QED BY <1>1, <1>2, <1>3, <1>4, <1>5 DEF IInv

\* A commit: the counters grow and no version is saved.
LEMMA Commits ==
  ASSUME IInv, NEW p \in Tasks, NEW j \in Job, JobOK(j, row', tools', versions),
         job' = [job EXCEPT ![p] = j], j.goal # "version",
         row' \in [Agents -> Nat], tools' \in [Agents -> Nat],
         active' \in [Agents -> BOOLEAN], assigned' \subseteq Agents,
         \A a \in Agents : row'[a] >= row[a] /\ tools'[a] >= tools[a],
         UNCHANGED <<versions, cache>>
  PROVE  IInv'
<1>1. TypeOK'
  BY DEF IInv, TypeOK
<1>2. JobsInv'
  <2> SUFFICES ASSUME NEW q \in Tasks PROVE JobOK(job'[q], row', tools', versions)
    BY DEF JobsInv
  <2>1. CASE q = p
    BY <2>1 DEF IInv, TypeOK
  <2>2. CASE q # p
    <3>1. job'[q] = job[q] /\ job[q] \in Job /\ row \in [Agents -> Nat] /\ tools \in [Agents -> Nat]
      BY <2>2 DEF IInv, TypeOK
    <3>2. JobOK(job[q], row, tools, versions)
      BY DEF IInv, JobsInv
    <3> QED BY <3>1, <3>2, Grows
  <2> QED BY <2>1, <2>2
<1>3. OneUpdater'
  BY DEF IInv, OneUpdater, Updating, TypeOK
<1>4. CacheInv'
  <2> SUFFICES ASSUME NEW a \in Agents PROVE AtLeast(Stored(a)', cache[a])
    BY DEF CacheInv
  <2>1. cache[a].row \in Nat /\ cache[a].tools \in Nat /\ row[a] \in Nat /\ tools[a] \in Nat
    BY DEF IInv, TypeOK, Snapshot
  <2> QED BY <2>1 DEF IInv, CacheInv, AtLeast, Stored
<1>5. VersionsInv'
  <2> SUFFICES ASSUME NEW a \in Agents, NEW i \in DOMAIN versions[a]
               PROVE  /\ AtLeast(Stored(a)', versions[a][i])
                      /\ versions[a][i].row < row'[a]
                      /\ i > 1 => versions[a][i - 1].row < versions[a][i].row
    BY DEF VersionsInv
  <2>1. versions[a][i] \in Snapshot /\ row[a] \in Nat /\ tools[a] \in Nat
    BY DEF IInv, TypeOK
  <2> QED BY <2>1 DEF IInv, VersionsInv, AtLeast, Stored, Snapshot
<1> QED BY <1>1, <1>2, <1>3, <1>4, <1>5 DEF IInv

\* What is known of a task's job and agent in a state that is in order.
LEMMA Known ==
  ASSUME IInv, NEW p \in Tasks
  PROVE  /\ job[p] \in Job /\ JobOK(job[p], row, tools, versions)
         /\ job[p].slug \in Agents /\ job[p].snap \in Snapshot
         /\ job[p].since \in [Agents -> Snapshot] /\ job[p].todo \subseteq Agents
         /\ row \in [Agents -> Nat] /\ tools \in [Agents -> Nat]
         /\ cache \in [Agents -> Snapshot]
         /\ \A a \in Agents : AtLeast(Stored(a), cache[a])
BY DEF IInv, TypeOK, JobsInv, CacheInv, Job

LEMMA BuildRowInv == ASSUME IInv, NEW p \in Tasks, BuildRow(p) PROVE IInv'
<1> DEFINE a == job[p].slug
           pc == IF active[a] THEN "tools" ELSE "built"
           snap == IF active[a] THEN [row |-> row[a], tools |-> 0] ELSE Missing
           j == [job[p] EXCEPT !.pc = pc, !.snap = snap]
<1>1. /\ job[p] \in Job /\ JobOK(job[p], row, tools, versions) /\ a \in Agents
      /\ row \in [Agents -> Nat] /\ tools \in [Agents -> Nat]
      /\ cache \in [Agents -> Snapshot] /\ \A b \in Agents : AtLeast(Stored(b), cache[b])
      /\ job[p].since \in [Agents -> Snapshot]
  BY Known
<1>2. j \in Job
  BY <1>1 DEF Job, PCs, Snapshot, Missing
<1>3. job' = [job EXCEPT ![p] = j]
  BY DEF BuildRow, IInv, TypeOK
<1>4. JobOK(j, row, tools, versions)
  <2>1. \A i \in DOMAIN versions[a] : versions[a][i].row < row[a]
    BY <1>1 DEF IInv, VersionsInv
  <2>2. /\ j.pc = pc /\ j.snap = snap /\ j.slug = a /\ j.goal = job[p].goal
        /\ j.since = job[p].since
    BY <1>1 DEF Job
  <2>3. AtLeast([row |-> row[a], tools |-> tools[a]], snap)
    BY <1>1 DEF AtLeast, Missing
  <2>4. row[a] >= job[p].since[a].row
    BY <1>1 DEF JobOK, AtLeast
  <2> HIDE DEF j
  <2> QED BY <1>1, <2>1, <2>2, <2>3, <2>4 DEF JobOK
<1>5. j.goal = "version" => Updating(p) /\ j.slug = job[p].slug
  BY <1>1 DEF Job, Updating
<1> HIDE DEF j
<1> QED BY <1>1, <1>2, <1>3, <1>4, <1>5, JobStep DEF BuildRow

LEMMA BuildToolsInv == ASSUME IInv, NEW p \in Tasks, BuildTools(p) PROVE IInv'
<1> DEFINE a == job[p].slug
           snap == [row |-> job[p].snap.row, tools |-> tools[a]]
           j == [job[p] EXCEPT !.pc = "built", !.snap = snap]
<1>1. /\ job[p] \in Job /\ JobOK(job[p], row, tools, versions) /\ a \in Agents
      /\ row \in [Agents -> Nat] /\ tools \in [Agents -> Nat]
      /\ cache \in [Agents -> Snapshot] /\ \A b \in Agents : AtLeast(Stored(b), cache[b])
      /\ job[p].since \in [Agents -> Snapshot] /\ job[p].snap \in Snapshot
      /\ job[p].pc = "tools"
  BY Known DEF BuildTools
<1>2. j \in Job
  BY <1>1 DEF Job, PCs, Snapshot
<1>3. job' = [job EXCEPT ![p] = j]
  BY <1>1 DEF BuildTools, IInv, TypeOK, Job, Snapshot
<1>4. JobOK(j, row, tools, versions)
  <2>1. /\ j.pc = "built" /\ j.snap = snap /\ j.slug = a /\ j.goal = job[p].goal
        /\ j.since = job[p].since
    BY <1>1 DEF Job
  <2>2. AtLeast([row |-> row[a], tools |-> tools[a]], snap)
    BY <1>1 DEF AtLeast, JobOK, Snapshot
  <2>3. AtLeast(snap, job[p].since[a])
    BY <1>1 DEF JobOK, AtLeast, Snapshot
  <2> HIDE DEF j
  <2> QED BY <1>1, <2>1, <2>2, <2>3 DEF JobOK
<1>5. j.goal = "version" => Updating(p) /\ j.slug = job[p].slug
  BY <1>1 DEF Job, Updating
<1> HIDE DEF j
<1> QED BY <1>1, <1>2, <1>3, <1>4, <1>5, JobStep DEF BuildTools

\* Whatever Redis answers, it holds what it held or the snapshot it was given.
LEMMA Written ==
  ASSUME IInv, NEW a \in Agents, NEW s \in Snapshot, AtLeast(Stored(a), s),
         cache' \in {cache, [cache EXCEPT ![a] = s]}
  PROVE  /\ cache' \in [Agents -> Snapshot]
         /\ \A b \in Agents : AtLeast(Stored(b), cache'[b])
BY DEF IInv, TypeOK, CacheInv

\* The end of a task.
LEMMA Ends ==
  ASSUME IInv, NEW p \in Tasks, job' = [job EXCEPT ![p] = Done(p)],
         cache' \in [Agents -> Snapshot],
         \A a \in Agents : AtLeast(Stored(a), cache'[a]),
         UNCHANGED <<row, tools, active, assigned, versions>>
  PROVE  IInv'
BY Idle, JobStep DEF IInv

LEMMA PushInv == ASSUME IInv, NEW p \in Tasks, Push(p) PROVE IInv'
<1> DEFINE a == job[p].slug  s == job[p].snap
<1>1. /\ job[p] \in Job /\ JobOK(job[p], row, tools, versions)
      /\ a \in Agents /\ s \in Snapshot /\ job[p].todo \subseteq Agents
      /\ cache \in [Agents -> Snapshot] /\ \A b \in Agents : AtLeast(Stored(b), cache[b])
      /\ job[p].since \in [Agents -> Snapshot]
      /\ row \in [Agents -> Nat] /\ tools \in [Agents -> Nat]
  BY Known
<1>2. AtLeast(Stored(a), s)
  BY <1>1 DEF JobOK, Stored
<1>3. cache' \in {cache, [cache EXCEPT ![a] = s]}
  BY DEF Push, Redis
<1>4. /\ cache' \in [Agents -> Snapshot]
      /\ \A b \in Agents : AtLeast(Stored(b), cache'[b])
  <2> HIDE DEF a, s
  <2> QED BY <1>1, <1>2, <1>3, Written
<1>5. CASE job[p].todo = {}
  <2>1. job' = [job EXCEPT ![p] = Done(p)]
    BY <1>5 DEF Push, NextPush
  <2> QED BY <2>1, <1>4, Ends DEF Push
<1>6. CASE job[p].todo # {}
  <2>1. PICK b \in job[p].todo :
           job' = [job EXCEPT ![p].pc = "row", ![p].slug = b,
                              ![p].todo = @ \ {b}, ![p].snap = Missing]
    BY <1>6 DEF Push, NextPush
  <2> DEFINE j == [job[p] EXCEPT !.pc = "row", !.slug = b,
                                 !.todo = @ \ {b}, !.snap = Missing]
  <2>2. j \in Job
    BY <1>1 DEF Job, PCs, Snapshot, Missing
  <2>3. job' = [job EXCEPT ![p] = j]
    BY <2>1 DEF IInv, TypeOK
  <2>4. j.pc = "row" /\ j.snap = Missing /\ j.slug = b /\ j.goal = "push" /\ j.since = job[p].since
    BY <1>1 DEF Job, Push
  <2>5. b \in Agents
    BY <1>1
  <2>6. JobOK(j, row, tools, versions)
    <3> HIDE DEF j
    <3>1. AtLeast([row |-> row[b], tools |-> tools[b]], Missing)
      BY <1>1, <2>5 DEF AtLeast, Missing
    <3> QED BY <1>1, <2>4, <3>1 DEF JobOK
  <2> HIDE DEF j
  <2> QED BY <1>4, <2>2, <2>3, <2>4, <2>6, JobStep DEF Push
<1> QED BY <1>5, <1>6

LEMMA AnswerInv == ASSUME IInv, NEW p \in Tasks, Answer(p) PROVE IInv'
<1> DEFINE a == job[p].slug  s == job[p].snap
           j == [job[p] EXCEPT !.pc = "answered"]
<1>1. /\ job[p] \in Job /\ JobOK(job[p], row, tools, versions)
      /\ a \in Agents /\ s \in Snapshot
      /\ cache \in [Agents -> Snapshot] /\ \A b \in Agents : AtLeast(Stored(b), cache[b])
  BY Known
<1>2. AtLeast(Stored(a), s)
  BY <1>1 DEF JobOK, Stored
<1>3. cache' \in {cache, [cache EXCEPT ![a] = s]}
  BY DEF Answer, Redis
<1>4. /\ cache' \in [Agents -> Snapshot]
      /\ \A b \in Agents : AtLeast(Stored(b), cache'[b])
  <2> HIDE DEF a, s
  <2> QED BY <1>1, <1>2, <1>3, Written
<1>5. CASE s = Missing
  BY <1>4, <1>5, Ends DEF Answer
<1>6. CASE s # Missing
  <2>1. j \in Job
    BY <1>1 DEF Job, PCs
  <2>2. job' = [job EXCEPT ![p] = j]
    BY <1>6 DEF Answer, IInv, TypeOK
  <2>3. /\ j.pc = "answered" /\ j.snap = s /\ j.slug = a /\ j.goal = "answer"
        /\ j.since = job[p].since /\ job[p].pc = "built" /\ job[p].goal = "answer"
    BY <1>1 DEF Job, Answer
  <2>4. JobOK(j, row, tools, versions)
    <3> HIDE DEF j
    <3> QED BY <1>1, <2>3 DEF JobOK
  <2> HIDE DEF j
  <2> QED BY <1>4, <2>1, <2>2, <2>3, <2>4, JobStep DEF Answer
<1> QED BY <1>5, <1>6

\* The steps that write one snapshot, or nothing, to Redis and end.
LEMMA LastWriteInv ==
  ASSUME IInv, NEW p \in Tasks, AgentWarms(p) \/ PushVersion(p) \/ DeleteKey(p)
  PROVE  IInv'
<1> DEFINE a == job[p].slug  s == job[p].snap
<1>1. /\ JobOK(job[p], row, tools, versions) /\ a \in Agents /\ s \in Snapshot
      /\ row \in [Agents -> Nat] /\ tools \in [Agents -> Nat]
  BY Known
<1>2. AtLeast(Stored(a), s) /\ AtLeast(Stored(a), Missing) /\ Missing \in Snapshot
  BY <1>1 DEF JobOK, Stored, AtLeast, Missing, Snapshot
<1>3. PICK t \in {s, Missing} : cache' \in {cache, [cache EXCEPT ![a] = t]}
  BY DEF AgentWarms, PushVersion, DeleteKey, Redis
<1>4. /\ cache' \in [Agents -> Snapshot]
      /\ \A b \in Agents : AtLeast(Stored(b), cache'[b])
  <2>1. t \in Snapshot /\ AtLeast(Stored(a), t)
    BY <1>1, <1>2
  <2> HIDE DEF a
  <2> QED BY <1>1, <2>1, <1>3, Written
<1> QED BY <1>4, Ends DEF AgentWarms, PushVersion, DeleteKey

\* The steps that only begin something: read the references of the tool, miss
\* in the cache, wait for the row, take its lock, read a version.
LEMMA BeginsInv ==
  ASSUME IInv, NEW p \in Tasks, NEW j \in Job, JobOK(j, row, tools, versions),
         job' = [job EXCEPT ![p] = j],
         j.goal = "version" => ~ RowLocked(j.slug),
         UNCHANGED <<row, tools, active, assigned, versions, cache>>
  PROVE  IInv'
BY Known, JobStep

LEMMA ReadRefsInv == ASSUME IInv, NEW p \in Tasks, ReadRefs(p) PROVE IInv'
<1>1. /\ job[p] \in Job /\ JobOK(job[p], row, tools, versions)
      /\ cache \in [Agents -> Snapshot] /\ \A b \in Agents : AtLeast(Stored(b), cache[b])
      /\ row \in [Agents -> Nat] /\ tools \in [Agents -> Nat]
  BY Known
<1>2. CASE assigned = {}
  BY <1>1, <1>2, Ends DEF ReadRefs
<1>3. CASE assigned # {}
  <2>1. PICK a \in assigned :
           job' = [job EXCEPT ![p].pc = "row", ![p].slug = a,
                              ![p].todo = assigned \ {a}]
    BY <1>3 DEF ReadRefs
  <2> DEFINE j == [job[p] EXCEPT !.pc = "row", !.slug = a,
                                 !.todo = assigned \ {a}]
  <2>2. a \in Agents /\ assigned \subseteq Agents
    BY DEF IInv, TypeOK
  <2>3. j \in Job
    BY <1>1, <2>2 DEF Job, PCs, Snapshot, Missing
  <2>4. job' = [job EXCEPT ![p] = j]
    BY <2>1 DEF IInv, TypeOK
  <2>5. /\ j.pc = "row" /\ j.slug = a /\ j.goal = job[p].goal /\ j.since = job[p].since
        /\ j.snap = Missing /\ job[p].pc = "refs"
    BY <1>1 DEF Job, ReadRefs, JobOK
  <2>6. JobOK(j, row, tools, versions) /\ j.goal # "version"
    <3> HIDE DEF j
    <3>1. AtLeast([row |-> row[a], tools |-> tools[a]], Missing)
      BY <1>1, <2>2 DEF AtLeast, Missing
    <3> QED BY <1>1, <2>5, <3>1 DEF JobOK
  <2> HIDE DEF j
  <2> QED BY <2>3, <2>4, <2>6, BeginsInv DEF ReadRefs
<1> QED BY <1>2, <1>3

LEMMA LoadMissesInv ==
  ASSUME IInv, NEW p \in Tasks, NEW a \in Agents, LoadMisses(p, a)
  PROVE  IInv'
<1> DEFINE j == [NoJob EXCEPT !.pc = "row", !.goal = "answer", !.slug = a,
                              !.since[a] = Stored(a)]
<1>1. row \in [Agents -> Nat] /\ tools \in [Agents -> Nat] /\ NoJob.slug \in Agents
  BY Known, Idle DEF IInv, Job
<1>2. /\ j \in Job
      /\ j.pc = "row" /\ j.goal = "answer" /\ j.slug = a /\ j.snap = Missing
      /\ j.since = [b \in Agents |-> IF b = a THEN Stored(a) ELSE Missing]
  BY <1>1 DEF NoJob, Job, PCs, Goals, Snapshot, Missing, Stored
<1>3. \A b \in Agents : /\ AtLeast([row |-> row[b], tools |-> tools[b]], Missing)
                        /\ AtLeast([row |-> row[b], tools |-> tools[b]], Stored(b))
  BY <1>1 DEF AtLeast, Missing, Stored
<1>4. job' = [job EXCEPT ![p] = j]
  BY DEF LoadMisses
<1> HIDE DEF j
<1>5. JobOK(j, row, tools, versions)
  BY <1>2, <1>3 DEF JobOK
<1> QED BY <1>2, <1>4, <1>5, BeginsInv DEF LoadMisses

LEMMA WaitsInv ==
  ASSUME IInv, NEW p \in Tasks, NEW op \in AllOps, NEW a \in Agents, Waits(p, op, a)
  PROVE  IInv'
<1> DEFINE j == [NoJob EXCEPT !.pc = "lock", !.op = op, !.slug = a]
<1>1. row \in [Agents -> Nat] /\ tools \in [Agents -> Nat] /\ NoJob.slug \in Agents
  BY Known, Idle DEF IInv, Job
<1>2. /\ j \in Job
      /\ j.pc = "lock" /\ j.goal = "none" /\ j.slug = a /\ j.snap = Missing
      /\ j.since = [b \in Agents |-> Missing]
  BY <1>1 DEF NoJob, Job, PCs, Goals, Snapshot, Missing
<1>3. \A b \in Agents : AtLeast([row |-> row[b], tools |-> tools[b]], Missing)
  BY <1>1 DEF AtLeast, Missing
<1>4. job' = [job EXCEPT ![p] = j]
  BY DEF Waits
<1> HIDE DEF j
<1>5. JobOK(j, row, tools, versions)
  BY <1>2, <1>3 DEF JobOK
<1> QED BY <1>2, <1>4, <1>5, BeginsInv DEF Waits

LEMMA RestoreInv ==
  ASSUME IInv, NEW p \in Tasks, NEW a \in Agents, restore_version(p, a)
  PROVE  IInv'
<1>1. PICK i \in DOMAIN versions[a] :
         job' = [job EXCEPT ![p] = [NoJob EXCEPT !.pc = "restore", !.slug = a,
                                                 !.snap = versions[a][i]]]
  BY DEF restore_version
<1> DEFINE s == versions[a][i]
           j == [NoJob EXCEPT !.pc = "restore", !.slug = a, !.snap = s]
<1>2. row \in [Agents -> Nat] /\ tools \in [Agents -> Nat] /\ NoJob.slug \in Agents
  BY Known, Idle DEF IInv, Job
<1>3. s \in Snapshot /\ AtLeast([row |-> row[a], tools |-> tools[a]], s)
  BY DEF IInv, TypeOK, VersionsInv, Stored
<1> HIDE DEF s
<1>4. /\ j \in Job
      /\ j.pc = "restore" /\ j.goal = "none" /\ j.slug = a /\ j.snap = s
      /\ j.since = [b \in Agents |-> Missing]
  BY <1>2, <1>3 DEF NoJob, Job, PCs, Goals, Snapshot, Missing
<1>5. \A b \in Agents : AtLeast([row |-> row[b], tools |-> tools[b]], Missing)
  BY <1>2 DEF AtLeast, Missing
<1>6. job' = [job EXCEPT ![p] = j]
  BY <1>1 DEF s
<1> HIDE DEF j
<1>7. JobOK(j, row, tools, versions)
  BY <1>3, <1>4, <1>5 DEF JobOK
<1> QED BY <1>4, <1>6, <1>7, BeginsInv DEF restore_version

LEMMA LocksInv == ASSUME IInv, NEW p \in Tasks, update_agent(p) PROVE IInv'
<1> DEFINE j == [job[p] EXCEPT !.pc = "row", !.op = "none", !.goal = "version"]
<1>1. job[p] \in Job /\ JobOK(job[p], row, tools, versions)
  BY Known
<1>2. /\ j \in Job /\ j.pc = "row" /\ j.goal = "version" /\ j.slug = job[p].slug
      /\ j.snap = job[p].snap /\ j.since = job[p].since
  BY <1>1 DEF Job, PCs, Goals
<1>3. job' = [job EXCEPT ![p] = j]
  BY DEF update_agent, IInv, TypeOK
<1> HIDE DEF j
<1>4. JobOK(j, row, tools, versions)
  BY <1>1, <1>2 DEF JobOK
<1> QED BY <1>2, <1>3, <1>4, BeginsInv DEF update_agent, HasLock

(***************************************************************************)
(* The commits.                                                            *)
(***************************************************************************)

\* A commit after which a's snapshot is to be built and pushed.
LEMMA Changes ==
  ASSUME IInv, NEW p \in Tasks, NEW a \in Agents, PushDue(p, a),
         row' \in [Agents -> Nat], tools' \in [Agents -> Nat],
         active' \in [Agents -> BOOLEAN], assigned' \subseteq Agents,
         \A b \in Agents : row'[b] >= row[b] /\ tools'[b] >= tools[b],
         UNCHANGED <<versions, cache>>
  PROVE  IInv'
<1> DEFINE s == [row |-> row'[a], tools |-> tools'[a]]
           j == [NoJob EXCEPT !.pc = "row", !.goal = "push", !.slug = a,
                              !.since[a] = s]
<1>1. NoJob.slug \in Agents /\ s \in Snapshot
  BY Idle DEF IInv, Job, Snapshot
<1>2. job' = [job EXCEPT ![p] = j]
  BY DEF PushDue
<1>3. \A b \in Agents : AtLeast([row |-> row'[b], tools |-> tools'[b]], Missing)
  BY DEF AtLeast, Missing
<1>4. AtLeast(s, s)
  BY DEF AtLeast
<1>5. /\ j \in Job
      /\ j.pc = "row" /\ j.goal = "push" /\ j.slug = a /\ j.snap = Missing
      /\ j.since = [b \in Agents |-> IF b = a THEN s ELSE Missing]
  <2> HIDE DEF s
  <2> QED BY <1>1 DEF NoJob, Job, PCs, Goals, Snapshot, Missing
<1> HIDE DEF j
<1>6. JobOK(j, row', tools', versions')
  BY <1>3, <1>4, <1>5 DEF JobOK
<1> QED BY <1>2, <1>5, <1>6, Commits

LEMMA TaskChangesInv ==
  ASSUME IInv, NEW p \in Tasks, NEW a \in Agents,
         \/ create_agent(p, a) \/ upsert_provider(p, a) \/ upsert_tool(p, a)
         \/ assign_global_tool(p, a) \/ unassign_global_tool(p, a)
  PROVE  IInv'
<1>1. /\ row \in [Agents -> Nat] /\ tools \in [Agents -> Nat]
      /\ active \in [Agents -> BOOLEAN] /\ assigned \subseteq Agents
  BY DEF IInv, TypeOK
<1>2. PushDue(p, a) /\ UNCHANGED <<versions, cache>>
  BY DEF create_agent, upsert_provider, upsert_tool, assign_global_tool,
         unassign_global_tool
<1>3. /\ row' \in [Agents -> Nat] /\ tools' \in [Agents -> Nat]
      /\ active' \in [Agents -> BOOLEAN] /\ assigned' \subseteq Agents
      /\ \A b \in Agents : row'[b] >= row[b] /\ tools'[b] >= tools[b]
  BY <1>1 DEF create_agent, upsert_provider, upsert_tool, assign_global_tool,
         unassign_global_tool
<1> QED BY <1>2, <1>3, Changes

LEMMA SaveAgentInv == ASSUME IInv, NEW p \in Tasks, save_agent(p) PROVE IInv'
<1> DEFINE a == job[p].slug
<1>1. /\ row \in [Agents -> Nat] /\ tools \in [Agents -> Nat]
      /\ active \in [Agents -> BOOLEAN] /\ assigned \subseteq Agents /\ a \in Agents
  BY Known DEF IInv, TypeOK
<1>2. /\ PushDue(p, a) /\ UNCHANGED <<tools, assigned, versions, cache>>
      /\ row' = [row EXCEPT ![a] = @ + 1]
      /\ \E on \in BOOLEAN : active' = [active EXCEPT ![a] = on]
  BY DEF save_agent, UpdateRow
<1>3. /\ row' \in [Agents -> Nat] /\ active' \in [Agents -> BOOLEAN]
      /\ \A b \in Agents : row'[b] >= row[b] /\ tools'[b] >= tools[b]
  BY <1>1, <1>2
<1> HIDE DEF a
<1> QED BY <1>1, <1>2, <1>3, Changes

LEMMA DeleteAgentInv == ASSUME IInv, NEW p \in Tasks, delete_agent(p) PROVE IInv'
<1> DEFINE a == job[p].slug
           j == [job[p] EXCEPT !.pc = "delete_key", !.op = "none"]
<1>1. /\ row \in [Agents -> Nat] /\ tools \in [Agents -> Nat]
      /\ active \in [Agents -> BOOLEAN] /\ assigned \subseteq Agents
      /\ a \in Agents /\ job[p] \in Job /\ JobOK(job[p], row, tools, versions)
  BY Known DEF IInv, TypeOK
<1>2. /\ row' \in [Agents -> Nat] /\ active' \in [Agents -> BOOLEAN]
      /\ tools' = tools /\ assigned' = assigned
      /\ UNCHANGED <<versions, cache>>
      /\ \A b \in Agents : row'[b] >= row[b] /\ tools'[b] >= tools[b]
  BY <1>1 DEF delete_agent
<1>3. /\ j \in Job /\ j.pc = "delete_key" /\ j.goal = job[p].goal /\ j.slug = a
      /\ j.snap = job[p].snap /\ j.since = job[p].since /\ job[p].pc = "lock"
  BY <1>1 DEF Job, PCs, delete_agent, HasLock
<1>4. job' = [job EXCEPT ![p] = j]
  BY DEF delete_agent, IInv, TypeOK
<1>5. JobOK(j, row, tools, versions) /\ j.goal # "version"
  <2> HIDE DEF j
  <2> QED BY <1>1, <1>3 DEF JobOK
<1> HIDE DEF j
<1>6. JobOK(j, row', tools', versions')
  BY <1>1, <1>2, <1>3, <1>5, Grows
<1> QED BY <1>1, <1>2, <1>3, <1>4, <1>5, <1>6, Commits

LEMMA GlobalToolInv ==
  ASSUME IInv, NEW p \in Tasks, update_global_tool(p) \/ delete_global_tool(p)
  PROVE  IInv'
<1>1. /\ row \in [Agents -> Nat] /\ tools \in [Agents -> Nat]
      /\ active \in [Agents -> BOOLEAN] /\ assigned \subseteq Agents
  BY DEF IInv, TypeOK
<1>2. /\ tools' = [a \in Agents |-> IF a \in assigned THEN tools[a] + 1 ELSE tools[a]]
      /\ row' = row /\ active' = active /\ UNCHANGED <<versions, cache>>
      /\ assigned' \in {assigned, {}}
  BY DEF update_global_tool, delete_global_tool, ChangeGlobalTool
<1>3. /\ row' \in [Agents -> Nat] /\ tools' \in [Agents -> Nat]
      /\ active' \in [Agents -> BOOLEAN] /\ assigned' \subseteq Agents
      /\ \A b \in Agents : row'[b] >= row[b] /\ tools'[b] >= tools[b]
  BY <1>1, <1>2
<1>4. CASE update_global_tool(p)
  <2> DEFINE since == [a \in Agents |-> IF a \in assigned
                                        THEN [row |-> row[a], tools |-> tools'[a]]
                                        ELSE Missing]
             j == [NoJob EXCEPT !.pc = "refs", !.goal = "push", !.since = since]
  <2>1. job' = [job EXCEPT ![p] = j]
    BY <1>4 DEF update_global_tool
  <2>2. since \in [Agents -> Snapshot]
    BY <1>1, <1>3 DEF Snapshot, Missing
  <2>3. \A b \in Agents : /\ AtLeast([row |-> row[b], tools |-> tools'[b]], Missing)
                          /\ AtLeast([row |-> row[b], tools |-> tools'[b]], since[b])
    BY <1>1, <1>3 DEF AtLeast, Missing
  <2> HIDE DEF since
  <2>4. NoJob.slug \in Agents
    BY Idle DEF IInv, Job
  <2>5. /\ j \in Job
        /\ j.pc = "refs" /\ j.goal = "push" /\ j.slug \in Agents /\ j.snap = Missing
        /\ j.since = since
    BY <2>2, <2>4 DEF NoJob, Job, PCs, Goals, Snapshot, Missing
  <2> HIDE DEF j
  <2>6. JobOK(j, row', tools', versions')
    BY <1>2, <2>3, <2>5 DEF JobOK
  <2> QED BY <1>2, <1>3, <2>1, <2>5, <2>6, Commits
<1>5. CASE delete_global_tool(p)
  <2>1. job' = [job EXCEPT ![p] = Done(p)]
    BY <1>5 DEF delete_global_tool
  <2>2. /\ Done(p) \in Job /\ JobOK(Done(p), row, tools, versions)
        /\ Done(p).goal = "none"
    BY Idle DEF IInv
  <2>3. JobOK(Done(p), row', tools', versions')
    BY <1>1, <1>2, <1>3, <2>2, Grows
  <2>4. Done(p).goal # "version"
    BY <2>2
  <2> QED BY <1>2, <1>3, <2>1, <2>2, <2>3, <2>4, Commits
<1> QED BY <1>4, <1>5

\* The update's commit: the version that was built under the row's lock becomes
\* the newest.
LEMMA CommitUpdateInv == ASSUME IInv, NEW p \in Tasks, CommitUpdate(p) PROVE IInv'
<1> DEFINE a == job[p].slug  s == job[p].snap
           t == [row |-> row'[a], tools |-> tools'[a]]
           j == [NoJob EXCEPT !.pc = "row", !.goal = "push", !.slug = a,
                              !.since[a] = t]
<1>1. /\ row \in [Agents -> Nat] /\ tools \in [Agents -> Nat]
      /\ active \in [Agents -> BOOLEAN] /\ assigned \subseteq Agents
      /\ versions \in [Agents -> Seq(Snapshot)] /\ job \in [Tasks -> Job]
      /\ a \in Agents /\ s \in Snapshot /\ JobOK(job[p], row, tools, versions)
  BY Known DEF IInv, TypeOK
<1>2. /\ row' = [row EXCEPT ![a] = @ + 1]
      /\ \E on \in BOOLEAN : active' = [active EXCEPT ![a] = on]
      /\ UNCHANGED <<tools, assigned, cache>>
      /\ job' = [job EXCEPT ![p] = j]
      /\ versions' = IF s = Missing THEN versions
                     ELSE [versions EXCEPT ![a] = Append(@, s)]
      /\ Updating(p)
  BY DEF CommitUpdate, UpdateRow, PushDue, Updating
<1>3. /\ row' \in [Agents -> Nat] /\ active' \in [Agents -> BOOLEAN]
      /\ row'[a] = row[a] + 1
      /\ \A b \in Agents : row'[b] >= row[b] /\ tools[b] >= tools[b]
  BY <1>1, <1>2
<1>4. /\ AtLeast([row |-> row[a], tools |-> tools[a]], s)
      /\ s # Missing => \A i \in DOMAIN versions[a] : versions[a][i].row < s.row
  BY <1>1 DEF JobOK, CommitUpdate
<1>5. /\ j \in Job
      /\ j.pc = "row" /\ j.goal = "push" /\ j.slug = a /\ j.snap = Missing
      /\ j.since = [b \in Agents |-> IF b = a THEN t ELSE Missing]
  <2>1. t \in Snapshot /\ NoJob.slug \in Agents
    BY <1>1, <1>2, <1>3, Idle DEF IInv, Job, Snapshot
  <2> HIDE DEF t, a
  <2> QED BY <1>1, <2>1 DEF NoJob, Job, PCs, Goals, Snapshot, Missing
<1> HIDE DEF j
<1>6. versions' \in [Agents -> Seq(Snapshot)]
  BY <1>1, <1>2
<1>7. \A b \in Agents : b # a => versions'[b] = versions[b]
  BY <1>1, <1>2
<1>8. TypeOK'
  BY <1>1, <1>2, <1>3, <1>5, <1>6 DEF IInv, TypeOK
<1>9. JobsInv'
  <2> SUFFICES ASSUME NEW q \in Tasks PROVE JobOK(job'[q], row', tools', versions')
    BY DEF JobsInv
  <2>1. CASE q = p
    <3>1. job'[q] = j
      BY <1>1, <1>2, <2>1
    <3>2. \A b \in Agents : AtLeast([row |-> row'[b], tools |-> tools'[b]], Missing)
      BY <1>1, <1>2, <1>3 DEF AtLeast, Missing
    <3>3. AtLeast([row |-> row'[a], tools |-> tools'[a]], t)
      BY <1>1, <1>2, <1>3 DEF AtLeast
    <3>4. JobOK(j, row', tools', versions')
      <4>1. a \in Agents
        BY <1>1
      <4> HIDE DEF t, a
      <4> QED BY <1>5, <3>2, <3>3, <4>1 DEF JobOK
    <3> QED BY <3>1, <3>4
  <2>2. CASE q # p
    <3>1. job'[q] = job[q] /\ job[q] \in Job
      BY <1>1, <1>2, <2>2
    <3>2. JobOK(job[q], row, tools, versions)
      BY DEF IInv, JobsInv
    <3>3. JobOK(job[q], row', tools', versions)
      BY <1>1, <1>2, <1>3, <3>1, <3>2, Grows
    <3>4. job[q].goal = "version" => job[q].slug # a
      BY <1>2, <2>2 DEF IInv, OneUpdater, Updating
    <3>5. job[q].slug \in Agents
      BY <3>1 DEF Job
    <3>6. job[q].goal = "version" => versions'[job[q].slug] = versions[job[q].slug]
      BY <1>7, <3>4, <3>5
    <3> HIDE DEF a, s
    <3> QED BY <3>1, <3>3, <3>6 DEF JobOK
  <2> QED BY <2>1, <2>2
<1>10. OneUpdater'
  BY <1>1, <1>2, <1>5 DEF IInv, OneUpdater, Updating
<1>11. CacheInv'
  <2> SUFFICES ASSUME NEW b \in Agents PROVE AtLeast(Stored(b)', cache[b])
    BY <1>2 DEF CacheInv
  <2>1. cache[b].row \in Nat /\ cache[b].tools \in Nat
    BY DEF IInv, TypeOK, Snapshot
  <2> QED BY <1>1, <1>2, <1>3, <2>1 DEF IInv, CacheInv, AtLeast, Stored
<1>12. VersionsInv'
  <2> SUFFICES ASSUME NEW b \in Agents, NEW i \in DOMAIN versions'[b]
               PROVE  /\ AtLeast(Stored(b)', versions'[b][i])
                      /\ versions'[b][i].row < row'[b]
                      /\ i > 1 => versions'[b][i - 1].row < versions'[b][i].row
    BY DEF VersionsInv
  <2>1. /\ row[b] \in Nat /\ tools[b] \in Nat /\ row'[b] \in Nat /\ row'[b] >= row[b]
        /\ tools' = tools
    BY <1>1, <1>2, <1>3
  <2>2. CASE i \in DOMAIN versions[b] /\ versions'[b][i] = versions[b][i]
               /\ (i > 1 => versions'[b][i - 1] = versions[b][i - 1])
    <3>1. versions[b][i] \in Snapshot
      BY <1>1, <2>2
    <3>2. /\ AtLeast(Stored(b), versions[b][i]) /\ versions[b][i].row < row[b]
          /\ i > 1 => versions[b][i - 1].row < versions[b][i].row
      BY <2>2 DEF IInv, VersionsInv
    <3> QED BY <2>1, <2>2, <3>1, <3>2 DEF AtLeast, Stored, Snapshot
  <2>3. CASE b = a /\ s # Missing /\ i = Len(versions[a]) + 1
    <3>1. versions'[b] = Append(versions[a], s)
      BY <1>1, <1>2, <2>3
    <3>2. versions'[b][i] = s
      BY <1>1, <2>3, <3>1
    <3>3. i > 1 => versions'[b][i - 1] = versions[a][i - 1] /\ i - 1 \in DOMAIN versions[a]
      BY <1>1, <2>3, <3>1
    <3>4. AtLeast(Stored(b)', s) /\ s.row < row'[b]
      BY <1>1, <1>2, <1>3, <1>4, <2>3 DEF AtLeast, Stored, Snapshot
    <3> QED BY <1>4, <2>3, <3>2, <3>3, <3>4
  <2>4. \/ /\ i \in DOMAIN versions[b] /\ versions'[b][i] = versions[b][i]
           /\ i > 1 => versions'[b][i - 1] = versions[b][i - 1]
        \/ b = a /\ s # Missing /\ i = Len(versions[a]) + 1
    <3>1. CASE b # a \/ s = Missing
      <4>1. versions'[b] = versions[b]
        BY <1>2, <1>7, <3>1
      <4> QED BY <4>1
    <3>2. CASE b = a /\ s # Missing
      <4>1. versions'[b] = Append(versions[a], s) /\ versions[a] \in Seq(Snapshot)
        BY <1>1, <1>2, <3>2
      <4> QED BY <1>1, <3>2, <4>1
    <3> QED BY <3>1, <3>2
  <2> QED BY <2>2, <2>3, <2>4
<1> QED BY <1>8, <1>9, <1>10, <1>11, <1>12 DEF IInv

LEMMA ExpireInv == ASSUME IInv, NEW a \in Agents, Expire(a) PROVE IInv'
<1>1. cache' = [cache EXCEPT ![a] = Missing]
      /\ UNCHANGED <<row, tools, active, assigned, versions, job>>
  BY DEF Expire
<1>2. Missing \in Snapshot /\ AtLeast(Stored(a), Missing)
  BY DEF IInv, TypeOK, Missing, Snapshot, AtLeast, Stored
<1>3. TypeOK' /\ CacheInv'
  BY <1>1, <1>2 DEF IInv, TypeOK, CacheInv, Stored
<1>4. JobsInv' /\ OneUpdater' /\ VersionsInv'
  BY <1>1 DEF IInv, JobsInv, OneUpdater, Updating, VersionsInv, Stored
<1> QED BY <1>3, <1>4 DEF IInv

LEMMA Initially == Init => IInv
<1> SUFFICES ASSUME Init PROVE IInv
  OBVIOUS
<1>1. NoJob.slug \in Agents
  BY CacheAssumption DEF NoJob
<1>2. NoJob \in Job
  BY <1>1 DEF NoJob, Job, PCs, Goals, Missing, Snapshot
<1>3. TypeOK
  BY <1>2 DEF Init, TypeOK, Missing, Snapshot
<1>4. JobsInv
  BY <1>3, Idle DEF Init, JobsInv
<1>5. OneUpdater
  BY DEF Init, OneUpdater, Updating, NoJob
<1>6. CacheInv /\ VersionsInv
  BY <1>3 DEF Init, TypeOK, CacheInv, VersionsInv, AtLeast, Stored, Missing
<1> QED BY <1>3, <1>4, <1>5, <1>6 DEF IInv

LEMMA Steps == IInv /\ [Next]_vars => IInv'
<1> SUFFICES ASSUME IInv, [Next]_vars PROVE IInv'
  OBVIOUS
<1>1. CASE UNCHANGED vars
  BY <1>1 DEF vars, IInv, TypeOK, JobsInv, OneUpdater, Updating, CacheInv,
              VersionsInv, Stored
<1>2. ASSUME NEW p \in Tasks, Begin(p) PROVE IInv'
  <2>1. ASSUME NEW a \in Agents,
               \/ create_agent(p, a) \/ upsert_provider(p, a) \/ upsert_tool(p, a)
               \/ assign_global_tool(p, a) \/ unassign_global_tool(p, a)
        PROVE  IInv'
    BY <2>1, TaskChangesInv
  <2>2. ASSUME NEW a \in Agents,
               \/ Waits(p, "save_agent", a) \/ Waits(p, "update_agent", a)
               \/ Waits(p, "delete_agent", a)
        PROVE  IInv'
    BY <2>2, WaitsInv DEF AllOps
  <2> QED BY <1>2, <2>1, <2>2, RestoreInv, LoadMissesInv, GlobalToolInv DEF Begin
<1>3. ASSUME NEW p \in Tasks, Continue(p) PROVE IInv'
  BY <1>3, BuildRowInv, BuildToolsInv, PushInv, ReadRefsInv, SaveAgentInv,
     DeleteAgentInv, LocksInv, CommitUpdateInv, AnswerInv, LastWriteInv DEF Continue
<1> QED BY <1>1, <1>2, <1>3, ExpireInv DEF Next

LEMMA Invariance == Spec => []IInv
BY Initially, Steps, PTL DEF Spec

\* Every variable keeps its type.
THEOREM TypeCorrect == Spec => []TypeOK
<1>1. IInv => TypeOK
  BY DEF IInv
<1> QED BY <1>1, Invariance, PTL

\* Redis and the version history never run ahead of Postgres.
THEOREM OnlyCommitted == Spec => []NothingUncommitted
<1>1. IInv => NothingUncommitted
  BY DEF IInv, NothingUncommitted, CacheInv, VersionsInv, JobsInv, JobOK, Stored
<1> QED BY <1>1, Invariance, PTL

\* What a handler pushes has its change, and what a miss is answered with is
\* no older than the question.
THEOREM ChangeIsPushed == Spec => []SnapshotHasTheChange
<1>1. IInv => SnapshotHasTheChange
  BY DEF IInv, JobsInv, JobOK, SnapshotHasTheChange, Updating
<1> QED BY <1>1, Invariance, PTL

\* The version history is in order.
THEOREM VersionsOrdered == Spec => []VersionsAreOrdered
<1>1. IInv => VersionsAreOrdered
  BY DEF IInv, VersionsInv, VersionsAreOrdered
<1> QED BY <1>1, Invariance, PTL
=============================================================================
