------------------------------ MODULE JobStore ------------------------------
(***************************************************************************)
(* The durable extraction queue of the memory service: the tables          *)
(* extraction_jobs, segment_targets and segments of one PostgreSQL         *)
(* database, the HTTP operations that post and repair snapshots, and the   *)
(* workers that turn the wanted snapshot of a segment into its committed   *)
(* summary (server/src/database.ts, driven by server/src/worker.ts).       *)
(*                                                                         *)
(* Every operation below is one transaction that holds the advisory lock   *)
(* of its segment, so it is one atomic action.  What is not atomic is what *)
(* a worker knows: the row it selected before it locked the segment        *)
(* (picked) and the claim it carries through minutes of model calls        *)
(* (tasks), while posts, operators, crashes and other replicas move the    *)
(* rows under it.                                                          *)
(*                                                                         *)
(* Abstractions.  A source snapshot is its end boundary, a content value   *)
(* (what the source fingerprint distinguishes), a projection version and a *)
(* priority; segments have one start, so the boundary names the job row    *)
(* (the unique index of extraction_jobs).  A model call returns one of     *)
(* Texts.  next_attempt_at is the flag due.  Identifiers drawn by          *)
(* randomUUID are members of Leases not in use.                            *)
(***************************************************************************)
EXTENDS Integers, FiniteSets

CONSTANTS
  Segments,          \* segment ids
  SessionOf,         \* the (source, session) each segment belongs to
  Boundaries,        \* end boundaries of a segment
  Contents,          \* source contents
  Versions,          \* projection versions
  Priorities,        \* processing priorities
  Texts,             \* what a model call can return
  Replicas,          \* server processes
  Leases,            \* lease UUIDs
  None,              \* SQL NULL, or no row
  WorkerConcurrency, WorkerMaxAttempts,
  MaxSnapshots,      \* bound: changed snapshots posted, over all segments
  MaxRestarts,       \* bound: crashes, stops, lost connections and deploys
  MaxTaskFaults      \* bound: attempts whose outcome cannot be recorded

ASSUME ConstantsAssumption ==
  /\ Versions \subseteq Nat
  /\ Priorities \subseteq Nat
  /\ WorkerConcurrency \in Nat \ {0}
  /\ WorkerMaxAttempts \in Nat \ {0}
  /\ MaxSnapshots \in Nat /\ MaxRestarts \in Nat /\ MaxTaskFaults \in Nat
  /\ None \notin Boundaries \cup Replicas \cup Leases

\* What a source fingerprint plus a projection version identify.
Identity   == [boundary : Boundaries, content : Contents, version : Versions]
Snapshot   == [boundary : Boundaries, content : Contents, version : Versions,
               priority : Priorities]
Extraction == [boundary : Boundaries, content : Contents, text : Texts]
ASSUME NoneIsNoRecord == None \notin Snapshot \cup Extraction

Status == {"pending", "running", "failed", "succeeded", "superseded"}
Job    == [status : Status, attempts : Nat, lease : Leases \cup {None},
           due : BOOLEAN, generation : Nat, source : Snapshot,
           payload : Snapshot \cup {None}]
Staged == [extraction : Extraction, validation : Nat]
Target == [job : Boundaries, source : Snapshot, generation : Nat,
           staged : Staged \cup {None}, since : Nat]
Memory == [source : Identity, generation : Nat, extraction : Extraction]
Pick   == [segment : Segments, boundary : Boundaries, row : Job,
           extraction : Extraction \cup {None}]
Task   == [replica : Replicas, segment : Segments, lease : Leases,
           generation : Nat, source : Identity, attempts : Nat,
           extraction : Extraction \cup {None}]
\* The part of a target row that the abstract specification below sees.
Wish   == [source : Identity, generation : Nat]
ASSUME NoneIsNoRow ==
  None \notin Job \cup Staged \cup Target \cup Memory \cup Pick \cup Wish

VARIABLES
  jobs,        \* extraction_jobs: jobs[s][b] is the row of boundary b, or None
  targets,     \* segment_targets: the desired snapshot of a segment, or None
  segments,    \* segments: the committed summary, or None
  clock,       \* orders segment_targets.updated_at
  validation,  \* EXTRACTION_VALIDATION_VERSION of the deployed server
  leader,      \* the replica whose session holds the worker advisory lock
  phase,       \* where that replica is in its loop
  toRecover,   \* segments recoverRunningJobs has still to visit
  picked,      \* the row claimOldestJob selected before locking its segment
  tasks,       \* claims being processed by some replica
  restarts, taskFaults   \* counters for the bounds

store   == <<jobs, targets, segments, clock>>
workers == <<validation, leader, phase, toRecover, picked>>
bounds  == <<restarts, taskFaults>>
vars    == <<store, workers, tasks, bounds>>

TypeOK ==
  /\ jobs \in [Segments -> [Boundaries -> Job \cup {None}]]
  /\ targets \in [Segments -> Target \cup {None}]
  /\ segments \in [Segments -> Memory \cup {None}]
  /\ clock \in Nat
  /\ validation \in Nat
  /\ leader \in Replicas \cup {None}
  /\ phase \in {"idle", "recovering", "working", "stopping"}
  /\ toRecover \subseteq Segments
  /\ picked \in Pick \cup {None}
  /\ tasks \subseteq Task
  /\ restarts \in Nat /\ taskFaults \in Nat

Init ==
  /\ jobs = [s \in Segments |-> [b \in Boundaries |-> None]]
  /\ targets = [s \in Segments |-> None]
  /\ segments = [s \in Segments |-> None]
  /\ clock = 0
  /\ validation = 1
  /\ leader = None /\ phase = "idle" /\ toRecover = {} /\ picked = None
  /\ tasks = {}
  /\ restarts = 0 /\ taskFaults = 0

-----------------------------------------------------------------------------
(* Rows and how they compare. *)

SameSource(a, b) ==
  a.boundary = b.boundary /\ a.content = b.content /\ a.version = b.version

IdentityOf(q) ==
  [boundary |-> q.boundary, content |-> q.content, version |-> q.version]

HasStatus(s, b, states) == jobs[s][b] # None /\ jobs[s][b].status \in states

\* validateSegmentOwnership: a retained payload agrees with its row's columns.
OwnedRow(row) == row.payload # None => SameSource(row.payload, row.source)
Owned(s) ==
  /\ \A b \in Boundaries : jobs[s][b] # None => OwnedRow(jobs[s][b])
  /\ targets[s] # None => jobs[s][targets[s].job] # None

\* STAGED_TARGET_ELIGIBILITY_SQL: the fingerprints bind the staged result to
\* the target row and to the validation policy of the running server.
StagedEligible(target) ==
  /\ target.staged # None
  /\ target.staged.validation = validation
  /\ target.staged.extraction.boundary = target.source.boundary
  /\ target.staged.extraction.content = target.source.content

\* The row every reset to the target's fields produces.
PendingRow(target) ==
  [status |-> "pending", attempts |-> 0, lease |-> None, due |-> TRUE,
   generation |-> target.generation, source |-> target.source,
   payload |-> target.source]

\* Mutant: the lease of a superseded job is not given up.
SupersededRowKeepingLease(row) ==
  [row EXCEPT !.status = "superseded", !.payload = None]

SupersededRow(row) ==
  [row EXCEPT !.status = "superseded", !.lease = None, !.payload = None]

\* Mutant: the payload of a finished job is not cleared.
SucceededRowKeepingPayload(row) ==
  [row EXCEPT !.status = "succeeded", !.lease = None]

SucceededRow(row) ==
  [row EXCEPT !.status = "succeeded", !.lease = None, !.payload = None]

\* failedTargetMatchesJob
FailedTargetMatchesJob(s, b) ==
  /\ targets[s] # None
  /\ targets[s].job = b
  /\ targets[s].generation = jobs[s][b].generation
  /\ SameSource(targets[s].source, jobs[s][b].source)

-----------------------------------------------------------------------------
(* POST /v1/segments: Database.enqueue.  The four branches, in code order; *)
(* a lower version for a boundary that has a row changes nothing.          *)

LowerVersion(s, q) ==
  \/ segments[s] # None /\ q.version < segments[s].source.version
  \/ targets[s] # None /\ q.version < targets[s].source.version
  \/ /\ jobs[s][q.boundary] # None
     /\ q.version < jobs[s][q.boundary].source.version

TargetMatchesRequest(s, q) ==
  targets[s] # None /\ SameSource(targets[s].source, q)

SettledRequest(s, q) ==
  /\ targets[s] = None
  /\ segments[s] # None /\ SameSource(segments[s].source, q)

SetRow(s, b, row) == jobs' = [jobs EXCEPT ![s][b] = row]

EnqueueIgnored(s, q) ==
  /\ Owned(s) /\ LowerVersion(s, q)
  /\ jobs[s][q.boundary] = None
  /\ SetRow(s, q.boundary,
            [status |-> "superseded", attempts |-> 0, lease |-> None,
             due |-> TRUE, generation |-> 0, source |-> q, payload |-> None])
  /\ UNCHANGED <<targets, segments, clock, workers, tasks, bounds>>

\* Mutant: every repeated post drops what is staged.
ResetAnyExtraction(s) == targets[s].staged # None

\* A failed job whose staging no longer counts starts over.
ResetStaleExtraction(s) ==
  /\ targets[s].staged # None /\ ~StagedEligible(targets[s])
  /\ HasStatus(s, targets[s].job, {"failed"})

EnqueueRepeated(s, q) ==
  /\ Owned(s) /\ ~LowerVersion(s, q)
  /\ TargetMatchesRequest(s, q)
  /\ LET target == targets[s]
         row    == jobs[s][target.job]
         reset  == ResetStaleExtraction(s)
         wanted == IF q.priority > target.source.priority
                   THEN [target.source EXCEPT !.priority = q.priority]
                   ELSE target.source
         newTarget == [target EXCEPT !.source = wanted,
                         !.staged = IF reset THEN None ELSE @]
     IN  /\ targets' = [targets EXCEPT ![s] = newTarget]
         /\ SetRow(s, target.job,
              IF row.status = "running" THEN row
              ELSE [row EXCEPT !.source.priority = wanted.priority,
                               !.payload = wanted,
                               !.status = IF reset THEN "pending" ELSE @,
                               !.attempts = IF reset THEN 0 ELSE @,
                               !.lease = IF reset THEN None ELSE @,
                               !.due = reset \/ @])
  /\ UNCHANGED <<segments, clock, workers, tasks, bounds>>

EnqueueSettled(s, q) ==
  /\ Owned(s) /\ ~LowerVersion(s, q)
  /\ SettledRequest(s, q)
  /\ LET row == jobs[s][q.boundary]
     IN  SetRow(s, q.boundary,
           IF row = None
           THEN [status |-> "succeeded", attempts |-> 0, lease |-> None,
                 due |-> TRUE, generation |-> segments[s].generation,
                 source |-> q, payload |-> None]
           ELSE IF row.status = "running" THEN row
           ELSE [SucceededRow(row) EXCEPT
                   !.generation = segments[s].generation,
                   !.source = IF q.priority > row.source.priority THEN q
                              ELSE [q EXCEPT !.priority = row.source.priority]])
  /\ UNCHANGED <<targets, segments, clock, workers, tasks, bounds>>

Generations == 1..MaxSnapshots

\* Mutant: the committed generation and the discarded rows are forgotten.
NextGenerationOfTarget(s, g) ==
  g = (IF targets[s] = None THEN 0 ELSE targets[s].generation) + 1

\* g is one more than the largest generation of the segment's rows.
NextGeneration(s, g) ==
  LET used == {0}
        \cup {jobs[s][b].generation : b \in {c \in Boundaries : jobs[s][c] # None}}
        \cup (IF targets[s] = None THEN {} ELSE {targets[s].generation})
        \cup (IF segments[s] = None THEN {} ELSE {segments[s].generation})
  IN  (\A n \in used : n < g) /\ (\E n \in used : g = n + 1)

\* Mutant: only waiting rows are discarded.
DiscardablePending == {"pending"}

\* The statuses a changed snapshot discards in the segment's other rows.
Discardable == {"pending", "failed"}

EnqueueChanged(s, q) ==
  /\ Owned(s) /\ ~LowerVersion(s, q)
  /\ ~TargetMatchesRequest(s, q) /\ ~SettledRequest(s, q)
  /\ clock < MaxSnapshots
  /\ \E g \in Generations :
       /\ NextGeneration(s, g)
       /\ LET target == [job |-> q.boundary, source |-> q, generation |-> g,
                         staged |-> None, since |-> clock + 1]
          IN  /\ targets' = [targets EXCEPT ![s] = target]
              /\ jobs' = [jobs EXCEPT ![s] = [b \in Boundaries |->
                   IF b = q.boundary
                   THEN IF HasStatus(s, b, {"running"}) THEN jobs[s][b]
                        ELSE PendingRow(target)
                   ELSE IF HasStatus(s, b, Discardable)
                        THEN SupersededRow(jobs[s][b])
                        ELSE jobs[s][b]]]
  /\ clock' = clock + 1
  /\ UNCHANGED <<segments, workers, tasks, bounds>>

-----------------------------------------------------------------------------
(* The operator's repairs of a failed job.  All three first lock the job   *)
(* and its target and refuse a job that is not the target's failed one.    *)

\* Mutant: the job's status is not looked at.
LockCurrentTargetJob(s, b) == Owned(s) /\ jobs[s][b] # None /\ FailedTargetMatchesJob(s, b)

LockCurrentFailedTargetJob(s, b) ==
  /\ Owned(s)
  /\ HasStatus(s, b, {"failed"}) /\ jobs[s][b].lease = None
  /\ FailedTargetMatchesJob(s, b)

RetryFailedJob(s, b, restartExtraction) ==
  /\ LockCurrentFailedTargetJob(s, b)
  /\ targets' = IF restartExtraction
                THEN [targets EXCEPT ![s].staged = None] ELSE targets
  /\ SetRow(s, b, PendingRow(targets[s]))
  /\ UNCHANGED <<segments, clock, workers, tasks, bounds>>

\* Mutant: the target row is not deleted.
SupersedeKeepingTarget(s, b) ==
  /\ LockCurrentFailedTargetJob(s, b)
  /\ SetRow(s, b, SupersededRow(jobs[s][b]))
  /\ UNCHANGED <<targets, segments, clock, workers, tasks, bounds>>

SupersedeFailedJob(s, b) ==
  /\ LockCurrentFailedTargetJob(s, b)
  /\ SetRow(s, b, SupersededRow(jobs[s][b]))
  /\ targets' = [targets EXCEPT ![s] = None]
  /\ UNCHANGED <<segments, clock, workers, tasks, bounds>>

\* retryAfterSeconds of an earlier failure has passed.
BackoffElapses(s, b) ==
  /\ HasStatus(s, b, {"pending"}) /\ ~jobs[s][b].due
  /\ jobs' = [jobs EXCEPT ![s][b].due = TRUE]
  /\ UNCHANGED <<targets, segments, clock, workers, tasks, bounds>>

-----------------------------------------------------------------------------
(* Leadership and recovery: #run of the worker, recoverRunningJobs.        *)

TasksOf(r) == {t \in tasks : t.replica = r}

\* Mutant: the rows left running are not recovered.
AcquireLockOnly(r) ==
  /\ leader = None /\ TasksOf(r) = {}
  /\ leader' = r /\ phase' = "recovering" /\ toRecover' = {}
  /\ UNCHANGED <<store, validation, picked, tasks, bounds>>

\* A replica reaches pg_try_advisory_lock only when its earlier attempts have
\* drained; the rows left running are listed right after the lock is taken.
AcquireLock(r) ==
  /\ leader = None /\ TasksOf(r) = {}
  /\ leader' = r /\ phase' = "recovering"
  /\ toRecover' =
       {s \in Segments : \E b \in Boundaries : HasStatus(s, b, {"running"})}
  /\ UNCHANGED <<store, validation, picked, tasks, bounds>>

\* #quarantinePersistedGroup
QuarantinedRows(s) ==
  [b \in Boundaries |->
     IF HasStatus(s, b, {"pending", "running"})
     THEN [jobs[s][b] EXCEPT !.status = "failed", !.lease = None]
     ELSE jobs[s][b]]

RecoveredRow(row, target) ==
  [PendingRow(target) EXCEPT
     !.attempts = IF /\ target.generation = row.generation
                     /\ SameSource(target.source, row.source)
                  THEN row.attempts ELSE 0]

RecoverSegment(s) ==
  /\ phase = "recovering" /\ s \in toRecover
  /\ toRecover' = toRecover \ {s}
  /\ jobs' = [jobs EXCEPT ![s] =
       IF ~Owned(s) THEN QuarantinedRows(s)
       ELSE [b \in Boundaries |->
               IF ~HasStatus(s, b, {"running"}) THEN jobs[s][b]
               ELSE IF targets[s] # None /\ targets[s].job = b
                    THEN RecoveredRow(jobs[s][b], targets[s])
                    ELSE SupersededRow(jobs[s][b])]]
  /\ UNCHANGED <<targets, segments, clock, validation, leader, phase, picked,
                 tasks, bounds>>

BeginWork ==
  /\ phase = "recovering" /\ toRecover = {}
  /\ phase' = "working"
  /\ UNCHANGED <<store, validation, leader, toRecover, picked, tasks, bounds>>

\* stop(): a recovery is finished first, then nothing more is selected; a claim
\* under way is still dispatched.
StopWorker ==
  /\ phase = "working" /\ restarts < MaxRestarts
  /\ phase' = "stopping"
  /\ restarts' = restarts + 1
  /\ UNCHANGED <<store, validation, leader, toRecover, picked, tasks, taskFaults>>

\* Drained: the lock is released, and the process exits and is started again.
ReleaseLock ==
  /\ phase = "stopping" /\ picked = None /\ TasksOf(leader) = {}
  /\ leader' = None /\ phase' = "idle"
  /\ UNCHANGED <<store, validation, toRecover, picked, tasks, bounds>>

NoLeader == leader' = None /\ phase' = "idle" /\ toRecover' = {} /\ picked' = None

\* The reserved connection breaks: PostgreSQL frees the lock and rolls back the
\* transaction of a selection at once, while the attempts of this replica go on
\* over pooled connections.
LoseConnection ==
  /\ leader # None /\ restarts < MaxRestarts
  /\ NoLeader
  /\ restarts' = restarts + 1
  /\ UNCHANGED <<store, validation, tasks, taskFaults>>

Crash(r) ==
  /\ leader = r \/ TasksOf(r) # {}
  /\ restarts < MaxRestarts
  /\ IF leader = r THEN NoLeader
                   ELSE UNCHANGED <<leader, phase, toRecover, picked>>
  /\ tasks' = tasks \ TasksOf(r)
  /\ restarts' = restarts + 1
  /\ UNCHANGED <<store, validation, taskFaults>>

\* Every old replica is stopped before a server with a newer validation policy
\* starts.
DeployNewValidation ==
  /\ restarts < MaxRestarts
  /\ validation' = validation + 1
  /\ NoLeader /\ tasks' = {}
  /\ restarts' = restarts + 1
  /\ UNCHANGED <<store, taskFaults>>

-----------------------------------------------------------------------------
(* claimOldestJob: the query, then the lock, the re-read and the lease.    *)

\* Mutant: sessions with an attempt under way are not excluded.
EligibleInAnySession(s) ==
  /\ targets[s] # None
  /\ LET b == targets[s].job
     IN  /\ HasStatus(s, b, {"pending"}) /\ jobs[s][b].due
         /\ FailedTargetMatchesJob(s, b)
  /\ \A b \in Boundaries : ~HasStatus(s, b, {"running"})

\* Mutant: a running row of the segment is not looked for.
EligibleBesideRunning(s) ==
  /\ targets[s] # None
  /\ LET b == targets[s].job
     IN  /\ HasStatus(s, b, {"pending"}) /\ jobs[s][b].due
         /\ FailedTargetMatchesJob(s, b)

\* The query's eligible_jobs: sessions of the leader's attempts are excluded.
Eligible(s) ==
  /\ targets[s] # None
  /\ LET b == targets[s].job
     IN  /\ HasStatus(s, b, {"pending"}) /\ jobs[s][b].due
         /\ FailedTargetMatchesJob(s, b)
  /\ \A t \in TasksOf(leader) : SessionOf[t.segment] # SessionOf[s]
  /\ \A b \in Boundaries : ~HasStatus(s, b, {"running"})

\* The session of s has an eligible target of a higher priority than every one
\* of the session of x.
MoreUrgent(s, x) ==
  \E y \in Segments :
    /\ Eligible(y) /\ SessionOf[y] = SessionOf[s]
    /\ \A z \in Segments : Eligible(z) /\ SessionOf[z] = SessionOf[x]
         => targets[y].source.priority > targets[z].source.priority

\* The oldest target of the most urgent session.
Candidate(s) ==
  /\ Eligible(s)
  /\ \A x \in Segments : Eligible(x) =>
       /\ ~MoreUrgent(x, s)
       /\ MoreUrgent(s, x) \/ targets[s].since <= targets[x].since

\* Mutant: whatever is staged is reused, also under a newer validation policy.
SelectJobWithAnyStaging(s) ==
  /\ phase = "working" /\ picked = None
  /\ Cardinality(TasksOf(leader)) < WorkerConcurrency
  /\ Candidate(s)
  /\ picked' = [segment |-> s, boundary |-> targets[s].job,
                row |-> jobs[s][targets[s].job],
                extraction |-> IF targets[s].staged = None THEN None
                               ELSE targets[s].staged.extraction]
  /\ UNCHANGED <<store, validation, leader, phase, toRecover, tasks, bounds>>

SelectJob(s) ==
  /\ phase = "working" /\ picked = None
  /\ Cardinality(TasksOf(leader)) < WorkerConcurrency
  /\ Candidate(s)
  /\ picked' = [segment |-> s, boundary |-> targets[s].job,
                row |-> jobs[s][targets[s].job],
                extraction |-> IF StagedEligible(targets[s])
                               THEN targets[s].staged.extraction ELSE None]
  /\ UNCHANGED <<store, validation, leader, phase, toRecover, tasks, bounds>>

\* Mutant: the re-read row only has to be waiting still.
RefreshedStatus(p) == HasStatus(p.segment, p.boundary, {"pending"})

Refreshed(p) ==
  LET row == jobs[p.segment][p.boundary]
  IN  /\ row # None
      /\ row.status = "pending"
      /\ row.generation = p.row.generation
      /\ SameSource(row.source, p.row.source)
      /\ row.payload = p.row.payload

\* A fresh UUID.
FreshLease(lease) ==
  /\ \A t \in tasks : t.lease # lease
  /\ \A s \in Segments, b \in Boundaries :
       jobs[s][b] # None => jobs[s][b].lease # lease

\* The row moved between the query and the lock.
DropPicked ==
  /\ picked # None
  /\ Owned(picked.segment) /\ ~Refreshed(picked)
  /\ picked' = None
  /\ UNCHANGED <<store, validation, leader, phase, toRecover, tasks, bounds>>

ClaimPicked(lease) ==
  /\ picked # None
  /\ LET s == picked.segment
         b == picked.boundary
         row == jobs[s][b]
         intact == row.payload # None /\ row.payload = picked.row.source
     IN  /\ FreshLease(lease)
         /\ Owned(s) => Refreshed(picked)
         /\ jobs' =
              IF ~Owned(s)
              THEN [jobs EXCEPT ![s] = QuarantinedRows(s)]
              ELSE [jobs EXCEPT ![s][b] =
                      [row EXCEPT
                         !.status = IF intact THEN "running" ELSE "failed",
                         !.attempts = @ + 1,
                         !.lease = IF intact THEN lease ELSE None]]
         /\ tasks' =
              IF ~Owned(s) \/ ~intact THEN tasks
              ELSE tasks \cup
                {[replica |-> leader, segment |-> s, lease |-> lease,
                  generation |-> row.generation,
                  source |-> IdentityOf(row.source),
                  attempts |-> row.attempts + 1,
                  extraction |-> picked.extraction]}
  /\ picked' = None
  /\ UNCHANGED <<targets, segments, clock, validation, leader, phase, toRecover,
                 bounds>>

-----------------------------------------------------------------------------
(* One claimed attempt: process of the worker, with the three transactions *)
(* that carry its claim back to the store.                                 *)

RowOf(t) == jobs[t.segment][t.source.boundary]

HoldsLease(t) ==
  RowOf(t) # None /\ RowOf(t).status = "running" /\ RowOf(t).lease = t.lease

\* persistedJobMatchesClaim
PersistedJobMatchesClaim(t) ==
  /\ RowOf(t).generation = t.generation
  /\ SameSource(RowOf(t).source, t.source)

\* targetMatchesJob
TargetMatchesJob(t) ==
  LET target == targets[t.segment]
  IN  /\ target # None
      /\ target.job = t.source.boundary
      /\ target.generation = t.generation
      /\ SameSource(target.source, t.source)

\* Mutant: the target is not compared with the claim.
CurrentRow(t) ==
  /\ Owned(t.segment)
  /\ HoldsLease(t) /\ PersistedJobMatchesClaim(t)

\* The transaction proceeds: the claim is fenced by nothing newer.
Current(t) ==
  /\ Owned(t.segment)
  /\ HoldsLease(t) /\ PersistedJobMatchesClaim(t) /\ TargetMatchesJob(t)

Extracted(t, text) ==
  [boundary |-> t.source.boundary, content |-> t.source.content, text |-> text]

\* engine.extract and publishExtraction
PublishExtraction(t, text) ==
  /\ t.extraction = None
  /\ Current(t)
  /\ targets' = [targets EXCEPT ![t.segment].staged =
                   [extraction |-> Extracted(t, text), validation |-> validation]]
  /\ tasks' = (tasks \ {t}) \cup
                {[t EXCEPT !.extraction = Extracted(t, text)]}
  /\ UNCHANGED <<jobs, segments, clock, workers, bounds>>

\* engine.resolve and commitResolution
CommitResolution(t) ==
  LET s == t.segment
      target == targets[s]
  IN  /\ t.extraction # None
      /\ Current(t)
      /\ StagedEligible(target) /\ target.staged.extraction = t.extraction
      /\ segments' =
           IF segments[s] # None /\ segments[s].source.version > t.source.version
           THEN segments
           ELSE [segments EXCEPT ![s] =
                   [source |-> t.source, generation |-> t.generation,
                    extraction |-> t.extraction]]
      /\ SetRow(s, t.source.boundary, SucceededRow(RowOf(t)))
      /\ targets' = [targets EXCEPT ![s] = None]
      /\ tasks' = tasks \ {t}
      /\ UNCHANGED <<clock, workers, bounds>>

\* Mutant: one attempt too many.
ShouldRetryOnceMore(t) == t.attempts <= WorkerMaxAttempts

\* process: shouldRetry
ShouldRetry(t) == t.attempts < WorkerMaxAttempts

\* finishFailedAttempt of the current claim, after any exception of process:
\* terminal for a deterministic one, else while attempts remain a retry.
FinishFailedAttempt(t, terminal) ==
  LET s == t.segment
      target == targets[s]
      retry == ~terminal /\ ShouldRetry(t)
      committed == /\ target.staged = None
                   /\ segments[s] # None
                   /\ segments[s].generation = target.generation
                   /\ segments[s].source.boundary = target.source.boundary
                   /\ segments[s].source.content = target.source.content
                   /\ segments[s].source.version >= target.source.version
  IN  /\ Current(t)
      /\ SetRow(s, t.source.boundary,
           [RowOf(t) EXCEPT !.status = IF retry THEN "pending" ELSE "failed",
                            !.lease = None, !.due = ~retry])
      /\ targets' = IF ~retry /\ committed
                    THEN [targets EXCEPT ![s] = None] ELSE targets
      /\ tasks' = tasks \ {t}
      /\ UNCHANGED <<segments, clock, workers, bounds>>

\* #requeueLatestTarget: the lease holds and the target moved on.
RequeueLatestTarget(t) ==
  LET s == t.segment
      b == t.source.boundary
      target == targets[s]
  IN  /\ Owned(s)
      /\ HoldsLease(t) /\ PersistedJobMatchesClaim(t) /\ ~TargetMatchesJob(t)
      /\ jobs' = [jobs EXCEPT ![s] = [c \in Boundaries |->
           IF target # None /\ c = target.job
              /\ (c = b \/ ~HasStatus(s, c, {"running"}))
           THEN PendingRow(target)
           ELSE IF c = b THEN SupersededRow(jobs[s][b])
           ELSE jobs[s][c]]]
      /\ tasks' = tasks \ {t}
      /\ UNCHANGED <<targets, segments, clock, workers, bounds>>

\* Stale: publishExtraction returns false, or commitResolution throws and then
\* finishFailedAttempt returns false.  No row changes.
StaleAttempt(t) ==
  /\ Owned(t.segment)
  /\ ~(HoldsLease(t) /\ PersistedJobMatchesClaim(t))
  /\ tasks' = tasks \ {t}
  /\ UNCHANGED <<store, workers, bounds>>

\* #dispatchJob swallows an error of finishFailedAttempt itself (the database is
\* out of reach, say): the attempt ends and its row stays as it was.
AttemptLost(t) ==
  /\ taskFaults < MaxTaskFaults
  /\ tasks' = tasks \ {t}
  /\ taskFaults' = taskFaults + 1
  /\ UNCHANGED <<store, workers, restarts>>

-----------------------------------------------------------------------------
Enqueue(s) == \E q \in Snapshot :
  \/ EnqueueIgnored(s, q)
  \/ EnqueueRepeated(s, q)
  \/ EnqueueSettled(s, q)
  \/ EnqueueChanged(s, q)

Repair(s) == \E b \in Boundaries :
  \/ RetryFailedJob(s, b, FALSE)
  \/ RetryFailedJob(s, b, TRUE)
  \/ SupersedeFailedJob(s, b)

Attempt(t) ==
  \/ \E text \in Texts : PublishExtraction(t, text)
  \/ CommitResolution(t)
  \/ \E terminal \in BOOLEAN : FinishFailedAttempt(t, terminal)
  \/ RequeueLatestTarget(t)
  \/ StaleAttempt(t)

Claim ==
  \/ \E s \in Segments : SelectJob(s)
  \/ DropPicked
  \/ \E lease \in Leases : ClaimPicked(lease)

Lead ==
  \/ \E r \in Replicas : AcquireLock(r)
  \/ \E s \in Segments : RecoverSegment(s)
  \/ BeginWork
  \/ ReleaseLock

Fault ==
  \/ StopWorker
  \/ LoseConnection
  \/ \E r \in Replicas : Crash(r)
  \/ DeployNewValidation
  \/ \E t \in tasks : AttemptLost(t)

Next ==
  \/ \E s \in Segments : Enqueue(s) \/ Repair(s)
  \/ \E s \in Segments, b \in Boundaries : BackoffElapses(s, b)
  \/ Lead
  \/ Claim
  \/ \E t \in tasks : Attempt(t)
  \/ Fault

Spec == Init /\ [][Next]_vars

-----------------------------------------------------------------------------
(* Safety of the queue. *)

\* The desired snapshot is always backed by a row somebody works on or can
\* repair: post, repair, recovery and every end of an attempt move the two
\* rows together, whatever they find running.
TargetIsBacked == \A s \in Segments : targets[s] # None =>
  HasStatus(s, targets[s].job, {"pending", "running", "failed"})

\* A pending row is the desired snapshot, so the claim query can see it; a
\* failed one is too, so the operator's retry and supersede accept it.
QueueFollowsTarget == \A s \in Segments, b \in Boundaries :
  HasStatus(s, b, {"pending", "failed"}) => FailedTargetMatchesJob(s, b)

\* A running row that is no longer desired always has its successor queued
\* behind it: the snapshot posted during an extraction is not forgotten.
RunningHasSuccessor == \A s \in Segments, b \in Boundaries :
  HasStatus(s, b, {"running"}) =>
    /\ targets[s] # None
    /\ targets[s].job = b \/ HasStatus(s, targets[s].job, {"pending"})

\* At most one row of a segment is being extracted, although only the query,
\* which runs before the segment is locked, looks for another one.
OneRunning == \A s \in Segments, b, c \in Boundaries :
  HasStatus(s, b, {"running"}) /\ HasStatus(s, c, {"running"}) => b = c

\* The lease is the running row's and nobody else's: every transition out of
\* running gives it up, and no two rows share one.
LeasesAreExclusive ==
  \A s, x \in Segments, b, c \in Boundaries :
    jobs[s][b] # None =>
      /\ (jobs[s][b].status = "running") <=> (jobs[s][b].lease # None)
      /\ jobs[x][c] # None /\ jobs[s][b].lease # None
           /\ jobs[x][c].lease = jobs[s][b].lease => s = x /\ b = c

\* A row keeps the payload it may still need and drops the others, and its
\* payload agrees with its columns: a claim never finds a persisted payload it
\* must refuse, and no group of the server's own making is ever quarantined.
PayloadIsIntact == \A s \in Segments, b \in Boundaries :
  jobs[s][b] # None =>
    jobs[s][b].payload = IF jobs[s][b].status \in {"pending", "running", "failed"}
                         THEN jobs[s][b].source ELSE None

\* Generations order the snapshots of a segment: the desired one is newer than
\* the committed one and no row is ahead of it.
GenerationsAreOrdered == \A s \in Segments :
  targets[s] # None =>
    /\ segments[s] # None => segments[s].generation < targets[s].generation
    /\ \A b \in Boundaries : jobs[s][b] # None =>
         jobs[s][b].generation <= targets[s].generation

\* claimOldestJob locks and re-reads only the row it selected.  If that row is
\* unchanged, what it did not re-read has not changed either: the target still
\* wants the row, nothing of the segment was started, and the staged
\* extraction the claim will carry is the one staged now.
PickStaysValid == picked # None /\ Refreshed(picked) =>
  LET s == picked.segment
  IN  /\ picked.row.payload = picked.row.source
      /\ FailedTargetMatchesJob(s, picked.boundary)
      /\ \A b \in Boundaries : ~HasStatus(s, b, {"running"})
      /\ picked.extraction = IF StagedEligible(targets[s])
                             THEN targets[s].staged.extraction ELSE None

\* An attempt that may still write knows the truth: its claim is the row it
\* holds, and what it extracted is what is staged.  So a staged extraction is
\* resolved without a second model call, and commitResolution's comparison of
\* the staged result with the attempt's never fails.
LiveAttemptIsAccurate == \A t \in tasks : HoldsLease(t) =>
  /\ PersistedJobMatchesClaim(t)
  /\ t.attempts = RowOf(t).attempts
  /\ TargetMatchesJob(t) =>
       t.extraction = IF StagedEligible(targets[t.segment])
                      THEN targets[t.segment].staged.extraction ELSE None

\* What the three say together of a posted snapshot: it has a row that somebody
\* works on, will come to, or can repair, and nothing else waits in its place.
WantedIsWorkedOn == TargetIsBacked /\ QueueFollowsTarget /\ RunningHasSuccessor

\* The rows of a segment are in order: one runs, and none is ahead of the target.
RowsAreOrdered == OneRunning /\ GenerationsAreOrdered

\* An attempt is fenced from its claim to its last write: the row it takes is
\* still the one it selected, its lease is its own, and as long as it has it,
\* what it knows is so.
AttemptsAreFenced == LeasesAreExclusive /\ PickStaysValid /\ LiveAttemptIsAccurate

\* One session is worked on serially (README, "Ingestion and summaries"): a
\* replica never runs two attempts of a session, and of all replicas' attempts
\* of it, those left behind by a lost lock included, one at most can still
\* write.
SessionIsSerial == \A t, u \in tasks :
  /\ SessionOf[t.segment] = SessionOf[u.segment]
  /\ t.replica = u.replica \/ (HoldsLease(t) /\ HoldsLease(u))
  => t = u

\* A failing job is given up after WorkerMaxAttempts claims, not counting the
\* claims cut short by a restart, which recovery puts back without a limit.
AttemptsAreBounded == \A s \in Segments, b \in Boundaries :
  jobs[s][b] # None =>
    jobs[s][b].attempts + (IF HasStatus(s, b, {"pending"}) THEN 1 ELSE 0)
      <= WorkerMaxAttempts + restarts

\* The committed summary only moves forward: to a newer generation, and never
\* to an older projection version, in whatever order attempts finish.
MemoryAdvances == [][\A s \in Segments : segments[s] # None =>
  /\ segments'[s] # None
  /\ segments'[s] # segments[s] =>
       /\ segments'[s].generation > segments[s].generation
       /\ segments'[s].source.version >= segments[s].source.version]_vars

\* What is committed is what is desired at that moment, extracted from that
\* snapshot: no attempt of an older snapshot, lease or replica gets through.
CommitsTheWanted == [][\A s \in Segments : segments'[s] # segments[s] =>
  /\ targets[s] # None /\ targets'[s] = None
  /\ segments'[s].source = IdentityOf(targets[s].source)
  /\ segments'[s].generation = targets[s].generation
  /\ segments'[s].extraction.boundary = targets[s].source.boundary
  /\ segments'[s].extraction.content = targets[s].source.content
  /\ jobs'[s][targets[s].job].status = "succeeded"]_vars

\* Nothing but an operator's restart, a newer snapshot or a failed job whose
\* staging a deploy made stale throws away an extraction that was paid for.
StagingSurvives == [][\A s \in Segments :
  /\ targets[s] # None /\ targets'[s] # None
  /\ targets'[s].generation = targets[s].generation
  /\ StagedEligible(targets[s])
  /\ ~HasStatus(s, targets[s].job, {"failed"})
  => targets'[s].staged = targets[s].staged]_vars

-----------------------------------------------------------------------------
(* Liveness. *)

\* A replica that runs makes progress: its loop polls, its model calls and
\* transactions end one way or another, and an idle replica tries the lock
\* again after every poll.
Fairness ==
  /\ WF_vars(Lead)
  /\ WF_vars(Claim)
  /\ \A r \in Replicas : WF_vars(\E t \in TasksOf(r) : Attempt(t))
  /\ \A s \in Segments, b \in Boundaries : WF_vars(BackoffElapses(s, b))

FairSpec == Spec /\ Fairness

\* A posted snapshot does not wait for ever: it is committed, given up as a
\* failed job the operator sees, or withdrawn.
WantedIsSettled == \A s \in Segments :
  targets[s] # None ~>
    (targets[s] = None \/ HasStatus(s, targets[s].job, {"failed"}))

-----------------------------------------------------------------------------
(* The queue implements the abstract memory of a segment: rows, leases,    *)
(* workers, retries and restarts are steps of one posted snapshot.         *)

Memories == INSTANCE SegmentMemory WITH
  Identities <- Identity,
  wanted <- [s \in Segments |->
    IF targets[s] = None THEN None
    ELSE [source |-> IdentityOf(targets[s].source),
          generation |-> targets[s].generation]],
  draft <- [s \in Segments |->
    IF targets[s] = None \/ targets[s].staged = None THEN None
    ELSE targets[s].staged.extraction],
  memory <- segments

\* Whatever the workers and replicas do, a reader sees drafts and memories of
\* the snapshots that were posted, in the order they were posted.
ImplementsSegmentMemory == Memories!Spec
=============================================================================
