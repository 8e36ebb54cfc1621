# Verification of Reflection

Reflection turns OpenCode sessions into long-term memory. Plugins cut a session's
history into segments and post snapshots of them to a server; the server keeps a durable
queue in PostgreSQL, extracts a summary and claims from each snapshot with model calls,
and serves them for search and for the projection of long conversations. This directory
models the parts of the program whose correctness depends on what happens between two
steps, checks small instances with TLC, and proves the central invariants with TLAPS.

## The system

| Component | State it keeps | Operations | Talks to |
| --- | --- | --- | --- |
| Durable queue (`server/src/database.ts`, `migrations/`) | `extraction_jobs`, `segment_targets`, `segments`, entities, aliases, claims | enqueue, retry, restart, supersede, recover, claim, publish, commit, fail, requeue, listings, search | one transaction under the segment's advisory lock per operation |
| Worker (`server/src/worker.ts`) | the worker advisory lock, active tasks and sessions, resolution lane, wake flag | run, recover, claim, dispatch, process, stop, wake | the queue, the model clients |
| HTTP API (`server/src/app.ts`) | none | the `/v1` routes | the queue, `worker.wake` |
| Source ownership (`server/src/source-ownership.ts`, `scripts/source-ownership.mjs`) | owner columns, capability of the schema | validate, register, backfill, cutover, enforce | the queue |
| Model clients (`server/src/clients.ts`, `extraction*.ts`) | none | extract, resolve, embed | OpenRouter, Voyage |
| Native v2 plugin: ingestion (`packages/opencode-v2-plugin/src/ingestion.ts`) | submitted, retried, retrying, pending retries, idle passes, sweep cursor | submit, retryJob, schedule, update, sweep, clear | HTTP API, OpenCode |
| Native v2 plugin: operations (`operations.ts`) | controllers, tasks, queues per session, deleted, stopped | run, queue, abort, delete, dispose | everything else in the plugin |
| Native v2 plugin: transport (`transport.ts`) | registry, cached settled history prefixes | request, history, snapshot, forget | HTTP API, OpenCode |
| Native v2 plugin: projection (`index.ts`, `cursor.ts`, `usage.ts`) | stored cursor, usage anchors, summaries | project, listen, dispose | all of the above |
| v1 plugin (`plugin/src/`) | target updates, idle passes, retries, generations, projection state | the hooks of OpenCode v1 | HTTP API, OpenCode |
| Segmentation (`packages/shared/src/segmentation.ts`, `opencode-v2-core`) | none | cut a history into segments | called by plugins and backfill |
| Backfill (`scripts/src/backfill.ts`) | state file, lock file | plan, submit, complete, recheck | HTTP API, the OpenCode SQLite file |
| First server (`src/reflection_service/`, Python, kept for a rollback) | the same tables without staging, the worker lock | enqueue, retry, recover, claim, commit, fail, requeue | PostgreSQL, the model clients |

The code is hard where the actors overlap: posts arrive while an attempt of an older
snapshot runs for minutes outside any transaction; the claim reads a row before it locks
the segment; the connection that elects the worker can break while its attempts go on over
other connections; operators repair jobs; servers crash, are stopped and are upgraded to a
new validation policy; plugins retry requests whose outcome they never learned, and
sessions are deleted while operations on them are in flight. `PROJECT.json` lists these
hazards with the line where each one bites.

What makes each part correct:

- *queue and worker*: the wanted snapshot is never lost or stranded; only the wanted
  snapshot is committed, by the attempt that holds the lease; memory never goes back; one
  attempt per segment and session; staged work survives; everything posted is settled.
- *entities*: what a committed claim refers to exists; an entity that nothing refers to goes; what a
  search answers was committed while it searched.
- *ingestion*: one confirmed retry per failed snapshot; no repost while an earlier retry may
  still be in flight; an idle event is never lost.
- *operations*: nothing is stored for a session after its deletion finished; nothing runs
  after disposal finished.
- *transport*: a snapshot assembled from a cached prefix is what a full read would return.
- *projection*: the request fits its budget and never separates a tool result from its call;
  the stored cursor and what was submitted agree. (Projections of one session are serialised
  by `operations.queue`.)
- *segmentation*: segments partition the history, whatever is stored of it; a closed one does not
  change when the history grows.
- *ownership*: every row can be given its owner, by whatever mix of old and new writers and
  interrupted commands; a server that is up has the schema its statements rely on.
- *backfill*: one process at a time; what is submitted is a snapshot that was stable.

## Modules

| Module | What it is |
| --- | --- |
| `JobStore` | the queue, the worker's claims and attempts, replicas and their faults; its properties |
| `SegmentMemory` | the abstract memory of a segment: want, draft, commit, withdraw; both servers implement it |
| `MCJobStore` and `JobStore_*.cfg` | the instances TLC checks |
| `JobStoreProofs` | the types, the inductive invariant of the queue, that of leases, selections and attempts, what follows from them, and that the queue implements `SegmentMemory` |
| `EntityStore` | the entities that the resolutions of different segments share: lookup, choice, commit, sweep, and the lane |
| `EntitySearch` | a search beside them |
| `OwnershipRollout` | the operator's commands that give every row an owner, the writers beside them, and the start of a server |
| `DatabaseProofs` | inductive invariants and all the properties of `EntityStore`, `EntitySearch` and `OwnershipRollout` |
| `Segmentation` | how a session that grows is cut around the segments that are stored of it |
| `Segmentation_closed.cfg` | its instance for the third finding |
| `LegacyService` | the first server: its queue, its one worker loop per process, its lock and its faults |
| `LegacyServiceProofs` | its inductive invariant, its properties, and that each of its segments is a `SegmentMemory` |
| `MCParts` and `Parts_all.cfg` | the instances of `EntitySearch`, `LegacyService`, `OwnershipRollout`, `Segmentation` and `HistoryCache`, and the one of `Backfill` with two workers |
| `HistoryCache` | reads of a history through the plugin's cache, against a host that goes on |
| `MCHistoryCache` and `HistoryCache_torn.cfg` | its instance for the second finding |
| `HistoryCacheProofs` | its inductive invariant, types and both safety properties |
| `NativeDelivery` | posting and retrying one segment over an unreliable network |
| `MCNativeDelivery` and `NativeDelivery_*.cfg` | its instances |
| `NativeDeliveryProofs` | types, and one automatic retry per failed target |
| `NativeSession` | a session inside the native plugin: operations, passes, sweeps, projections, deletion, disposal |
| `MCNativeSession` and `NativeSession_session.cfg` | its instance |
| `NativeSessionProofs` | types, ownership of the storage's mutations, deletion, disposal, the cursor, idle events |
| `LegacyPlugin` | a session of the v1 plugin: the chain of target updates, sweeps, retries, deletion |
| `MCLegacyPlugin` and `LegacyPlugin_session.cfg` | its instance |
| `LegacyPluginProofs` | types, events that are held, what a deletion leaves |
| `Backfill` | the backfill worker, the sessions it reads, the lock file and the server it posts to |
| `MCBackfill` and `Backfill_*.cfg` | its instance with one worker, and the one for the fourth finding |
| `BackfillProofs` | types, what is completed is stored, how two workers come to work at once |

The modules meet at the server's interface: `NativeDelivery`, `LegacyPlugin` and `Backfill`
use the server as a target, a job and a committed content per segment, with the steps that
`JobStore` models in full. `HistoryCache` is what gives the projections and the ingestion of
the native plugin the history they post; `NativeSession` has the order in which they post it
and `NativeDelivery` the requests of one post. `EntityStore` opens up the step of `JobStore` that
commits a resolution: there it is one step of one segment, here it is what the others see of it.
`LegacyService` is the predecessor of `JobStore`, and a system of its own. `OwnershipRollout` is about
the same tables as `JobStore`, but about their owners, indexes and constraints and not about what the
rows say; `Segmentation` decides which segments there are that all the other modules post and store.

### JobStore

`jobs[s][b]` is the row of `extraction_jobs` for segment `s` and end boundary `b` (its
unique index), `targets[s]` the row of `segment_targets`, `segments[s]` the committed row of
`segments`. Each database operation locks the segment with `pg_advisory_xact_lock` first and
commits or rolls back as a whole, so it is one action: `EnqueueIgnored`, `EnqueueRepeated`,
`EnqueueSettled` and `EnqueueChanged` are the four branches of `Database.enqueue`, in code
order; `RetryFailedJob` (with and without restart) and `SupersedeFailedJob` the operator's
repairs; `RecoverSegment` one transaction of `recoverRunningJobs`; `PublishExtraction`,
`CommitResolution`, `FinishFailedAttempt`, `RequeueLatestTarget` and `StaleAttempt` the ways
an attempt comes back to the database.

What is *not* one action is what the worker knows. `claimOldestJob` is `SelectJob` (the
query, before any segment lock; the row it read is kept in `picked`) followed by
`ClaimPicked` or `DropPicked` (lock, re-read, compare, lease). A claim then lives in `tasks`,
with the generation, the source, the attempt number and the staged extraction it was given,
until one of its transactions ends it. `leader` and `phase` are the worker advisory lock and
the place of its holder in the loop.

Abstractions. A snapshot is its end boundary, a content value (what the source fingerprint
distinguishes), a projection version and a priority. A model call returns one of `Texts`, or
fails in a retryable or a terminal way. `next_attempt_at` is the flag `due`, raised by
`BackoffElapses`. `updated_at` of a target is a counter, `since`. UUIDs are members of
`Leases` that nobody uses. Claims and entities are
`EntityStore`'s; the legacy rows without a fingerprint are left out. `Owned` is the guard of `validateSegmentOwnership`; that it never fails on rows the
server wrote (so that no group is quarantined and no payload refused) is proved, not assumed.

Faults. `Crash(r)` ends a replica and its attempts; `LoseConnection` frees the lock and undoes
a selection while the attempts go on; `StopWorker` and `ReleaseLock` are an orderly stop;
`DeployNewValidation` is an upgrade of `EXTRACTION_VALIDATION_VERSION`, for which every old
replica is stopped before a new one starts (repository README, deployment);
`AttemptLost` is an attempt whose `finishFailedAttempt` itself fails.

### SegmentMemory

What a writer and a reader of a segment see: a snapshot is wanted, a draft is made of exactly
that snapshot, the draft becomes the memory. `Memories` in `JobStore` maps `wanted` to the
target, `draft` to the staged extraction and `memory` to the committed row;
`ImplementsSegmentMemory` checks that every step of the queue is one of its steps or none.

### EntityStore

`entities` and `claims` are the committed tables; an entity is its id, and a claim the entity
that it refers to. `pc[s]` is where the attempt of segment `s` is: `LookUp` is one call of
`entityCandidates`, `Resolve` the model's choice among what was `seen` and what it invents, and
then `commitResolution` in the steps that other transactions can tell apart: `Write` stores
claims and takes the locks that go with foreign keys, `Choose` is the snapshot of
`DELETE FROM entities`, `Collect` its locks and foreign keys, `Commit` makes it visible. The lane
(`worker.ts`, `#withResolutionLane`) is `lane[s]`, the worker whose lane the attempt has: attempts
without claims bypass it, and after a lost lock two workers have a lane each.

PostgreSQL runs the transactions under READ COMMITTED, and a sweep does not see the claims
that another open commit is about to remove. So two overlapping commits that both drop the last
claims on an entity each spare it for the other's sake, and it stays without any. The integration
test (`database.integration.test.ts:3242`) expects no such orphan after commits in sequence, and
that is what `OrphansAreSkewed` says: an entity without claims is one that two such commits
dropped together (`skewed` records them); there are no others. The reverse, a claim on an entity that has
gone, cannot happen (`ClaimsResolve`), because the foreign keys hold where the sweep's condition does not.

Not modelled: names, descriptions, vectors and equivalence keys, which choose among candidates.
A commit that a foreign key or a deadlock fails is `EndsEarly`; the queue's side of it is in `JobStore`.

### EntitySearch

`search.ts` asks three questions, each on a connection of its own: `FindDirect`, `FindNear`
(once for each entity of a direct claim), and the support of what was found, which is `Rank`. Between them
resolutions commit (`Meanwhile`). `witnessed` records what was committed at some time since the
search began, and `AnswersAreBacked` says that the answer is made of that. A candidate that has
lost its support by the last round stands for itself (`Named`), which is the code's fallback.

### OwnershipRollout

Rows from before migration 009 have no owner. The commands of `source-ownership.mjs` change that while the
service goes on: `expand`, `register`, `install-indexes`, `cutover`, `backfill`, `enforce`. A command is the
sequence of statements it has left (`command`), each committed by itself, and any command may be cut off
between two of them (`Interrupt`) and given again. `jobRows[g][e][o]` counts the jobs of a group (all
that is stored of a segment) by where their span ends and by owner, as an index on source and boundary does
not see the rows that have none; `ownerIn[g]` has the owners of the segment's row and of its target.
`OldEnqueue` and `OldCommit` are writers that know no owner, which find a job by its boundary
alone; `NewEnqueue` validates, adopts what it finds and upserts by source and boundary.
`Start` and `BootStep` are `Database.open`: the migrations, and then one check after the other, without
the migration lock, so that a command may go on between two of them.

`OwnershipIsSound` says that no boundary has two jobs, with whatever owner or none, and that `enforce`,
once it found that every row has an owner, is not overtaken by a row without one.
`ServingIsIndexed` says that a server that is up has what its statements rely on. That a count stays true
needs that old writers have stopped when the operator says so, and stay stopped; `WritersStopped` takes
him at his word. The three span versions have the same set of indexes and are one here. Not
modelled: payloads that contradict their columns, and the kinds of sources.

### Segmentation

`log` is the session as the model sees it: for each message the turn it belongs to, its weight, and whether it
is an assistant's completed message. `SegmentsOfSession` is `segmentMessages`: `Kept` is what is kept
of the stored boundaries, `Cut` the loop over the turns with `packTurns` in it, `FragmentedTurn` what becomes of a turn
that is too long. The session grows at its end (`Ask`, `Answer`, `Finish`; an answer may belong to an earlier
turn), a writer cuts it at some time (`Look`) and stores segments of that cut later (`Store`), which
come back first as targets and then as committed boundaries. So boundaries of several lengths,
made at several times, compete.

`CutIsRight` says that each message is in exactly one segment and that the kept boundaries are the best
plan by the measure of `betterBoundaryPlan`, for which the dynamic programme is compared with all
subsets. `CompleteSegmentsStay` says that what was called closed, and is of turns that another had followed by
then, is cut the same way when the session grows. Without that condition it is false (the third finding).
Not modelled: identifiers that occur twice, reverts, the projection version as the third measure of a
plan, and the segmentation of native histories in `opencode-v2-core`.

### LegacyService

The Python package (`db.py`, `worker.py`) is what the server was before, and what a rollback would start.
Its operations have the names of the methods; `Post...` are the branches of `enqueue`. A server
process is `phase[r]`, `lock` the worker lock and `claim[r]` the one job it works on: `_process`
is awaited in the loop, so there is no second one. `commit_extraction` and
`finish_failed_attempt` both begin with the lease and the target, so they are told apart by their guards:
`CommitExtraction`, `FinishFailedAttempt`, `RequeueLatestTarget`, `IgnoreStaleLease`.

The claim takes no advisory lock: its query locks the row, and reads that row again if it had
to wait for it. It is one step because whoever changes what is wanted also changes the row that waits
(`PostedIsQueued`), so that the row that was read again tells.

Its worker differs from that of `JobStore` where it matters: an exception of `finish_failed_attempt` leaves
the loop and gives up the lock, and the next recovery takes the row. `RunningIsWorkedOn` is
what `JobStore` cannot promise (the first finding). Not modelled: rows of before the fingerprints
(migration 005 gives every row with a payload its fingerprint),
payloads that do not fit their columns, summaries edited by hand (`projection_safe`), claims and entities,
which it writes as `EntityStore` describes.

### HistoryCache

One session. `history` and `revision` are the host's: a sequence of records (kind, identity,
version, whether complete, whether a step retry can still revive it) and what its session
info shows. `read[r]` is what one call of `snapshot` has done so far: which request it is
about to make, the info and activity it compared at the start, the records read and the
prefix taken from the cache; `cache` is the settled prefix. A call makes one request per
step, `ReadInfo`, `ReadStatus`, `Lookup`, `ReadPage`, `Recheck`, `Confirm`, and between any
two of them the host or another caller may take any step. `Remember`, `Settles` and
`SettledLength` are the rule that decides which prefix is settled.

The host is external and modelled from how the plugin relies on it: an append keeps the places
of what is there; only a revert deletes, and it deletes a suffix; a revert ends the
turn that could be revived; a page after a missing anchor is empty, and an empty page has no
next cursor; a run shows as active. Not modelled: the registry of sources, `forget`, the
limit of eight cached sessions, and the paging of v1 histories.

### NativeDelivery

One segment of one session, and concurrent calls of `submit`. `content` is what the segment
contains in the session at rest; contents end at different messages, so each has a job
row of its own on the server (`rows`), and `wanted` and `committed` are the target and
the memory. `submitted`, `retried` and `pending` are the maps of `Ingestion`; `tasks[k]` is
where a call is and the answer it was given; `late` holds posts that the plugin has given up
and that may still arrive. The plugin's handlers are the actions `Receive...`, one for each
`await` of `submit` and `retryJob`: the outcome of a request is handled in one step, and the
request is served in another. `ReceiveManifest` includes the recheck of `update`: a session
that went on is not posted. Priorities are reduced to whether a range that was posted open must
be posted again to promote it.

Faults: `Timeout` (no answer: the request is lost, the answer is, or one of them is late),
`Cancel` (the operation's deadline), `GatewayError` (an HTTP error of something that dropped the
request), `GatewayLie` (an HTTP error, and the request is delivered nevertheless), `Restart`.
The job's identity checks (`validate`, `matches`) cannot fail against this server and are left
out, as is the priorities' order; the idle and sweep loops and `clear` are in `NativeSession`.

### NativeSession

A session as the plugin instance sees it. `history`, `host` and `stream` are the host's: the
messages, where a run stands (it waits for the context hook and goes on with the answer) and
the events that were not received yet. `queue[s]` is the promise chain of
`Operations.queues`, whose head runs as `op[s]`; `deleted`, `deleting` and `left` are a
deletion at work, `life` and `drain` the disposal. `idle`, `leaving` and `revisions` are the maps of
`Ingestion`, `sweep` its sweep with the dirty flag and the cursor. An operation takes one
step for each `await`; an abort is noticed at the next one, and what the handler does between two
awaits is one step. `stored` is the plugin's storage, and `writes` its mutations under
way: a mutation that is aborted before it is applied is not applied, as `native.test.ts`
demands, and a removal for a deleted session follows whatever was being set.

A message stands for one segment, closed once another message follows, so that the
cursor (`submittedThrough`) is a message. Reading the manifest and noting which
segments are summarized is one step. A crash ends the plugin at any step and keeps the storage; the next
instance begins with empty maps. Not modelled: which records the projection keeps under its
token budget, the tools, and the project-wide queue of operations.

### LegacyPlugin

One session of the v1 plugin. `updates` is the promise chain of `serializeTargetUpdate`: its
head is at work and goes through `captureIdleMessages` (status, messages, status again),
the listing, for a sweep `isStillInactive`, and `submitSegments`, one post at a time.
`cached` is `successfulSegmentFingerprints` with the priority, `retried` `automaticRetries`,
`checked` `inactiveSessionChecks`, `pass` the entry of `idlePasses`. `host` is the session in
OpenCode: what its segments say, whether the last one is closed, open behind a finished
assistant, or unfinished, and how many idle events are to come, two for each
run as `session.status` and `session.idle` both report it. A prompt may revert the last
segment or change it; a run may complete it and begin another. `BeginProjection` queues the
closed segments in the foreground and `FinishProjection` is the transform's end, which may come
before its submission has begun.

A read is one step, taken when the server answers. A post may be lost, lose its answer or be
`late`; another process may post what the session once said; an aborted sweep leaves its
operation in the chain, to fail when its turn comes. A deletion aborts what is at work, drops
the maps, and from then on the host's session is gone. Not modelled: dispose, compaction,
restarts, the sweep's cursor (the sweep comes to the session whenever it is inactive and not checked
off), what `projection.ts` keeps, the tools. `failure` and `failedSegmentKey` of a
`TargetUpdateState` are written and never read, so they are left out.
A sweep that was queued behind another operation checks off a session deleted
meanwhile: the entry stays in `inactiveSessionChecks`, and nobody reads it.

### Backfill

`local[s]` is a session of OpenCode's database: its segments, revision, and whether it is open, at
rest for long enough, expired for the wait, or gone. `worker[w]` is what a worker process is at
(`pc`) and remembers: the queue, what was put off, the session and its plan, rounds,
failures. A step is one request with its answer and what follows up to the next `await`;
the code compares the session's revision around every one of them, which is the guard
`Stable` of a step, and `SessionChanged` is the other branch. `rows`, `target` and
`memory` are the server. `lock` is the lock file: `Locking` takes the steps of `acquireLock`
one system call at a time (read and probe, unlink, create, write), because another worker
may take its own between them; a file whose PID is not written yet is not one to take over.

A job is unpaid (`isProviderBalanceFailure`), fails, or succeeds. Others post, operators retry and supersede,
workers are killed, answers are lost: all of these share `MaxTroubles`. Segments are cut at
the same places in every plan and have one projection version. Not modelled: replays for
a projection upgrade, the dry run, the LaunchAgent, configuration. `Rest` models that
a session is put off until it has been inactive for ten minutes, longer than any request takes.

The lock does not keep its promise, that one worker works at a time (`OneWorkerWorks`). Two workers
that have read the PID of the same dead process both unlink the file that is there by then, the slower one
the file that the faster one has created, and both work: the fourth finding. `taken`, which the
code does not have, notes whose file was removed; `BackfillProofs` shows that nothing else
lets two workers work. `SettledIsStored` holds with two of them at work all the same.

## Runs

| Run | Instance | Shows |
| --- | --- | --- |
| `queue` | 2 segments of one session, 2 boundaries, 2 projection versions, 2 attempts at a time, 2 replicas, 2 snapshots, 1 restart, 1 lost attempt | `WantedIsWorkedOn`, `RowsAreOrdered`, `AttemptsAreFenced`, `PayloadIsIntact`, `AttemptsAreBounded`, `SessionIsSerial`, `CommitsTheWanted`, `MemoryAdvances`, `StagingSurvives`, refinement of `SegmentMemory` |
| `progress` | 1 segment, 2 boundaries, 2 priorities, 2 replicas; fair | `WantedIsSettled` |
| `lost_attempt` | 1 segment, 1 snapshot, one lost attempt | violates `WantedIsSettled`: the first finding |
| `history_torn` | one caller that does not demand rest, with a retry | violates `CacheIsSettled`: the second finding |
| `delivery_calls` | 2 calls, 2 contents, 2 edits, 2 failures, 1 loss, 1 gateway error | `OneRetryPerTarget` |
| `delivery_converges` | 1 call, 2 contents, one each of edit, failure, loss, lie, restart, repair; fair | `TargetConverges`, `FailedTargetIsRetried` |
| `session` | 1 session with a message, 2 more, 2 troubles (reverts, deletions, faults, late aliases of events, restarts) | `SetsAreOwned`, `DeletedLeavesNothing`, `NothingAfterDisposal`, `CursorIsPosted`, `NobodyIsLeftWaiting`, `EventsAreIngested` |
| `legacy_session` | 1 session that is rewritten, grows to 2 segments and is reverted, 1 projection, 1 trouble; fair | `DeletedLeavesNothing`, `EventsAreHeld`, `EventsAreIngested`, `TargetConverges` |
| `backfill_takeover` | 2 workers, perhaps a dead one's lock file, 1 session, no edit and no trouble | violates `OneWorkerWorks`: the fourth finding |
| `backfill_ends` | 1 worker, 2 sessions, 2 places where a segment may end, a priority job, 1 edit, 2 troubles; fair | `SettledIsStored`, `BackfillEnds` |
| `parts` | `EntitySearch`: 2 segments, 1 entity, 2 workers, 1 search. `LegacyService`: 1 segment, 2 boundaries, 2 projection versions, 2 servers, 3 posts, 1 fault. `OwnershipRollout`: 2 groups of the legacy source, 1 of another, one end, one group at a time. `Segmentation`: 4 messages of weight 1 or 2, segments of 3. `HistoryCache`: one caller that demands a resting session; retries, shells, reverts. `Backfill`: 2 workers and a dead one's lock file, 1 session of 1 or 2 segments, a priority job, 1 edit | `ClaimsResolve`, `OrphansAreSkewed`, `AnswersAreBacked`, `LaneProtectsChoices`; `PostedIsQueued`, `RunningIsWorkedOn`, refinement of `SegmentMemory` by the first server; `OwnershipIsSound`, `ServingIsIndexed`; `CutIsRight`, `CompleteSegmentsStay`; `CacheIsSettled`, `StableReadsAreCurrent`; `SettledIsStored` |
| `closed_changes` | `Segmentation` alone, with the same bounds | violates `ClosedSegmentsStay`: the third finding |

Bounds. `MaxSnapshots` bounds changed snapshots, `MaxRestarts` crashes, stops, lost connections
and deploys together, `MaxTaskFaults` lost attempts; `Leases` bounds the claims that exist at one
time. In `queue`, two snapshots over two boundaries and two versions reach every combination of a
running and a wanted row, of one boundary or of two, and a client that is behind; two segments of one
session compete for it; one fault leaves an old attempt beside a new leader. One sequence needs a third
snapshot: a failed one is superseded, the committed one is posted again, and then another change uses the
superseded one's generation a second time. It is beyond the run, and covered by the
theorems `RowsStayOrdered`, `AttemptsStayFenced` and `OnlyTheWantedIsCommitted` alone. Repeated
and settled posts, repairs, failures and claims are not bounded by anything but the attempt
limit. The bounds are constants of the theorems too, so what is proved holds for any
number of snapshots, faults and leases. The runs do not check for deadlock: with all faults
used up and nothing wanted, the system rests.

`parts` is six systems that share nothing, each as large as its questions need; a behaviour is of one of them
(`part`). Two segments and one entity are enough for a commit that overlaps another's lookup, choice
and sweep, two workers for attempts in different lanes, and the search fits in between any two of their
steps. Three posts give a committed snapshot, one that is wanted and one that is behind; two servers and a
fault an attempt whose lease is no longer its own. Two groups of the legacy source let a backfill end after
the first of them, and the third is one that no backfill may touch. Four messages of which one or two reach the
limit make a turn that is packed, one that fills a segment, one that is fragmented, two that alternate, and
stored boundaries of both versions that overlap.

The reads of histories, in `parts` and `history_torn`, bound the messages (4 or 5), what the session info shows (2 to 5
revisions) and the retries (at most 1); pages hold 2 or 3 records, so that a full read takes
several requests, and the shortest prefix that is cached is two messages. In the `delivery` runs
two edits reach a content that comes back after another was posted, two failures a retried job
that fails again, one loss a retry whose check is answered and, with a gateway error, one
whose check is not.

In `session` three messages give a cursor that covers one, a post that fails on the second, and a revert
of it; two troubles are, for example, a deletion during a projection and a failed removal, or a
late idle event after a crash. The sweep's batches are modelled, but with one session they are a batch
each: that an interrupted batch is visited again only after a whole round is not checked. The run
states no liveness; `NobodyIsLeftWaiting` is the absence of a deadlock inside the plugin,
and with awaits that all have a time limit it is what could keep somebody waiting. Two events are
outside the properties: the idle event that comes after its pass has looked at the flag for the last time and
before its entry is gone (`ingestion.ts:302`), whose mark nobody reads, and the one that comes so late that it
aborts the projection of the next turn (`index.ts:744`), whose hook is then answered with an error. In
`legacy_session` a session of one segment that changes its text is enough for a stale post, a
stale cache and a failed snapshot, and the second segment for a closed one that stops those after it; two
events make a pass dirty. Inactivity and the recheck take ten minutes each, by when the
operations of a run are over.

In `backfill_ends` one worker meets every trouble (another poster, an operator, an unpaid job, a lost
answer), two at a time; in `parts` two workers may both work, with one edit and jobs that
fail. What both at once bring is left to `CompletedIsStored`, which is proved for any number of
workers, edits and troubles. `parts` is symmetric in the workers (of both components that have any).

Fairness (`Fairness` in `JobStore`). `WF(Lead)`: an idle replica polls the lock and a leader
goes through its recovery list; `WF(Claim)`: the work loop polls; per replica, `WF` of some
attempt: model calls have time-outs, so an attempt ends one way or another; `WF` of each
retry delay. Nothing is assumed of posts, operators or faults. `WantedIsSettled` is checked
for one segment: with more, a stream of urgent posts may legitimately keep a low priority
waiting.

`Fairness` in `NativeDelivery`: each request is answered or given up after its time-out, each
answer is handled, and the session is planned again and again. The last is justified by
idle events and the sweep: the sweep has no timer and runs after every successful idle pass, so
it means that some session of the directory keeps becoming idle. Nothing is assumed of late
posts, workers or operators. `Fairness` in `LegacyPlugin` is the same for its session: runs end, a
session at rest becomes inactive, a check expires, requests are answered or given up.
`Fairness` in `Backfill`: processes that run go on, the server works through its queue, and
sessions come to rest; edits and troubles are bounded, as no loop ends while the
database keeps changing.

## Proofs

`JobStoreProofs` proves, part by part, everything safe that the run `queue` checks. First
`Spec => []TypeOK`, one lemma per group of actions. The claim's type needs that a selected row
has a leader, `PickHasLeader`, which is added to the invariant.

Then `Spec => []QueueInv`. The properties of a run are not inductive by
themselves: `TargetIsBacked` after a supersede needs that the failed row is the target's,
`QueueFollowsTarget`; that after a changed snapshot needs `RunningHasSuccessor` and generations
that order the rows; and so on. Together they are `Consistent(rows, target, summary)`, a
statement about *one* segment without primes or variables. The lemmas `Replaced`, `Raised`,
`Moved`, `Ended`, `Recovered` and `Requeued` say how the operations change the three rows of a
segment and that the result is consistent; the lemmas `EnqueueSegments` to `AttemptSegments`
apply them, one step per action. A claim needs more: that nothing of the segment started
since the selection. `PickInv` says so, and is kept because whoever starts or fails a row of
a segment either is the claim itself or holds a lease of a row that is not waiting. The
theorems `WantedIsServed` (`WantedIsWorkedOn`), `RowsStayOrdered` (`RowsAreOrdered`) and `PayloadsStayIntact`
follow, for every value of the constants.

On top of it, `Spec => []ClaimInv`. A worker's attempt runs for minutes
outside every transaction, and what makes it safe is its lease. `LeaseInv` says that a lease
names one running row and one attempt; without it a recovered row that is claimed anew could
be written by the old attempt. `LiveAttemptIsAccurate` says what an attempt knows that may still
write: its row, the attempt number and what was staged; it is kept because each step that
changes one of them without being the attempt takes the lease away. With the selection that stays
good they make `AttemptsStayFenced` (`AttemptsAreFenced`). `SessionIsSerial` needs
`HoldersLead` (an attempt of an older leader holds no lease once the new one works, as recovery takes
them segment by segment) and `PickedIsAlone`. `AttemptsAreBounded` needs `AttemptBudget`: a restart
gives a row that runs while nobody works one claim more, and a stopping leader may still claim one.
The action properties `MemoryAdvances`, `CommitsTheWanted` and `StagingSurvives` are then
facts about single steps from a state where `ClaimInv` holds.

And `Spec => Memories!Spec`, step by step: a post wants a snapshot of one segment, a
published extraction drafts it, a commit commits it, a repost or an operator's restart withdraws a
draft, and every other step (claims, failures, recovery, faults) leaves the three abstract variables alone.

`DatabaseProofs` proves `EntitySpec => []EntityInv`, for any number of segments, workers and entities. A
deletion is chosen from one snapshot and takes effect three steps later; what keeps it safe between is
different at each step. `Stages` says what an attempt has at each; until `Collect` the locks and
foreign keys are still to come, and from then on `NobodyRefers`: neither a committed claim nor an
open transaction refers to what goes. `UsesStay` is the other side: what an open transaction
refers to cannot go, because it has locked it. `ClaimsResolve` at a commit is the two together.
`OrphansAreSkewed` needs `Cared`: each entity is being deleted, or has a claim that is not
on its way out, or is one of the `skewed`. `LaneIsExclusive` gives `LaneProtectsChoices`. `SearchInv` is
that a search has found only what it has witnessed; `SearchIsBacked` lifts it to `SearchSpec`, every
step of which is one of `EntitySpec` or leaves its variables alone.

It also proves `RolloutSpec => []RolloutInv`, for any number of groups, span ends and sources and any size
of a batch. What a command may rely on depends on how far it has come, as it has confirmed the
indexes and counted the rows some statements ago, and others commit in between. `WritersAreAsked` says that a
command that is to count rows, or has counted them, was given when old writers had stopped; so a count of
zero stays true (`EnforcedIsOwned`), as new writers leave no row without an owner. `BootFits` says of a starting server
that the checks it has behind it still hold. They do because indexes only go from absent to ready, except that
`install-indexes` drops an invalid one, because a dropped old index never comes back, and because the migrations that
unvalidate the boundary checks are recorded before the first check. `OneJobPerBoundary` is inductive with the
types: an old writer inserts only where it finds no job with any owner, and an adoption moves
a count from no owner to one that had none. `OwnershipStaysSound` and `ServersAreIndexed` follow.

`LegacyServiceProofs` proves `ServiceSpec => []ServiceInv`, in the way of `JobStoreProofs`: `Fits(R, t, c)` is
a constant formula about the rows, the target and the summary of one segment, the lemmas `Waits`, `Ended`,
`Claimed`, `Failed`, `Settles` and `Changes` say what each operation makes of it, and one lemma per
operation applies them. `PostedIsQueued` is a part of `Fits`, and needs the rest of it: a row stands at the boundary
of its source, and what is wanted is newer than what is committed. `ClaimsFit` says that an attempt whose lease
holds knows its row. It is kept because nothing starts but by a claim (`NothingStarts`), and a server has one claim, so
a lease of an earlier life of it is gone when it claims again. `RunningIsWorkedOn` is inductive
with `HolderIsInside`, as each way to lose a claim without a word to the database leaves the loop. For the
refinement the draft has to be one attempt's: `OneDraft` follows from one row that runs in a segment and
one server that has its lease. A lease that is lost, a newer target and a fault withdraw it; the
commit then finds `Holds` and `Matches`, by which the draft is of what is wanted.

`HistoryCacheProofs` proves `Spec => []CacheInv`, for every number of readers, page size and
length of history. `CacheIsSettled` is not inductive: what is cached is chosen from what a
reader has read over several steps. `Frozen` says of a prefix that its records are complete
and out of a retry's reach, and that where one of them is still in the history those before it
are too; `Tracks` that what a reader holds is a run of the history, while the revision is the
one it noted; `HostInv` that identities grow and that the revivable record is the latest
assistant. `ReadingInv` puts them together for each place a reader may be at. From it follow
`CacheIsSettled`, the types, and the action property `StableReadsAreCurrent`. The theorems assume
`Regime`: every caller demands a resting session, or no step is retried. The second finding
shows why.

`NativeDeliveryProofs` proves `OneRetryPerTarget` for any number of calls, contents and faults. It
holds by an accounting: `CallsInv` says that a call that posted a retry is alone with its content
and has noted the retry in `pending`, and `RetriesAreCounted` that every retry that took effect,
is under way or is late is paid for: by the first failure, by a restart, or by a gateway that
reported an error for a request it kept. The accounting has to know whether the plugin may send
another one (`MaySendAgain`): it may when nothing is noted, or when an HTTP error answered the last one
and the job is still at the failure that one was for.

`NativeSessionProofs` proves every safety property of `NativeSession` but the one made of `ENABLED`, for
any number of sessions, messages, page size and troubles, in three layers. `TypeInv` ties a queue to
what runs: `Settle` pops the head of a queue blindly, and what makes this right is that the head is
the operation that ends, that whoever counts down entries waits for no more than there are, and that an
idle entry is alone in its queue, and alive, until it leaves (`NoPass`, `OnePass`); `TypeOK` only counts the idle
entries. `EventsAreIngested` follows from it for single steps: who settles a pass is its own operation, or a
refusal, and a pass is refused only when its session is unavailable.

`ControlInv` adds who waits for whom. `SetsAreOwned` says nothing of removals, and a failed or
expired mutation has to abort exactly the operation that waits for it, so `WriteFits` names the owner of
every mutation: it follows that a projection has at most one of them, at the await it is at. `OpFits` says that a
deletion and the disposal still wait for an entry while something runs, which is why they take the
length of the queue after they abort; `DeletionFits` that a deletion at work has either a removal under way or
nothing left to remove, for each of the two keys. `DeletedLeavesNothing` and `NothingAfterDisposal` are then facts about one state.

`PostingInv` is about what a cursor stands for. A cursor is a single message, and it says that all before it are
posted, so `CursorIsPosted` needs that this is true of everything a cursor may be made of: `Good` is claimed of
what is stored, of what an operation holds, and of every posted message (what is posted has no gaps among the
messages that are left), because a projection whose cursor was reverted goes on after the latest
summary. `Leads` says of the messages an operation is still to post that each one's predecessors are
posted or come earlier in the list; it survives a revert during the posting, which only removes
obligations, and a new message, which is later than all of them. That `InOrder`, a `CHOOSE`, has a value (a finite set of
numbers can be sorted) is proved on the way, as are the cuts of a history (`AfterLeads`, `PlanLeads`).

`LegacyPluginProofs` proves the invariants of `LegacyPlugin` for every set of histories and all
bounds. `LegacyInv` adds to the types what fits together in the chain: who posts or retries is at a
segment of the plan it has read (else what it posts, or leaves behind when it is aborted, is no
text of the session), only a sweep is aborted by itself, and as long as a pass is marked there is an idle
operation in the chain. `EventsAreHeld` follows from `Watched`: after an event that nobody looked after
there is an idle operation that is still to look, or the pass is dirty, whatever sweeps and
projections are queued around it. It is the safety half of `EventsAreIngested`: the event is
looked after once the chain, which only the other half needs to be fair, comes to that operation.
The chain is a sequence of any length, so the lemmas `Joined`, `Dropped`, `Changed` and `Replaced` say what
becomes of an entry somewhere in it; `GoesOnFits` is about the loop of `submitSegments`, which
stops at the least segment that is to be posted; and `Spanned` proves that the longest of finitely
many histories exists. That a deleted session's maps stay empty, `DeletedLeavesNothing`, is
inductive by itself: each writer looks at the deletion in the step that writes.

`BackfillProofs` proves `Spec => []TypeInv` (what a worker remembers fits the step it is at; a
wanted content and an answered job have a row), `Spec => []StoreInv` and `Spec => []LockInv`.
`SettledIsStored` is about a session that is completed over many requests: `StoreInv` says that
a plan shows the session as it was found as long as the revision is the one that was noted, and that what
a worker counts as completed is stored or recorded as failed. `LockInv` says that a worker that works has
its PID in the lock file, and that between the file's creation and its writing, when no other worker
may read it as stale, it is its creator's; both unless the worker is one of `taken`. So `OverlapsAreTakeovers`:
two workers work at once only if the file of one of them was removed. It is the companion of the fourth
finding, and says that there is no second hole.

The assumptions on constants are those the modules name. Those of `JobStore`: versions and
priorities are naturals, the limits are positive, and `None` is not a row, boundary, replica, lease or
wish. `Backfill`: there is a place to end a segment at and a text to put in it, the limits are positive,
and `None` is none of the values it stands beside. `NativeDelivery`: bounds are naturals. `NativeSession`:
there is a session, a batch of the sweep holds one, and `MaxMessages` has room for the messages there
are at the start. `EntityStore`: an entity has one segment whose attempts create its id (ids of new entities
are derived from the segment's), and `None` is not a worker. `LegacyService`: versions and bounds are naturals, and
`Null` is none of the values it stands beside. `OwnershipRollout`: one of the sources is the legacy one, each group is of a
source, "no owner" and "no row" are no sources, and a batch has at least one group. `LegacyPlugin`: the histories are finitely many sequences of at least one text, one of
them of one text; `None` is not a text; bounds are naturals.

Proved are the types of every component but `Segmentation`, and every invariant and action property of a passing run but
three. The types are not checked by runs any more. What stays with TLC are the properties of liveness (`WantedIsSettled`,
`TargetConverges`, `FailedTargetIsRetried`, `BackfillEnds`, `EventsAreIngested` of `LegacyPlugin`), as the prover has
no rule for fairness; `NobodyIsLeftWaiting`, as it has none for `ENABLED`; and `CutIsRight` and
`CompleteSegmentsStay`, as `Segmentation` follows the code's loops with recursive operators, which it cannot
unfold, and what such a loop computes for every history needs an induction over data.

## Findings

1. *An attempt whose failure cannot be recorded strands its segment* (`lost_attempt`).
   `#dispatchJob` (`worker.ts:409-422`) only logs an exception of `finishFailedAttempt`. The row
   stays `running`, the loop goes on, and recovery runs only when the lock is acquired.
2. *A torn read of a running session is cached* (`history_torn`). `memory_read_segment` reads
   running sessions, whose info and activity do not change within a run (`transport.ts:448-451`).
   A step retry between two pages leaves a record that is neither the latest assistant nor
   incomplete, and still changes: it is cached, against `transport.ts:121-128`, and served as
   long as the last cached message is unchanged.

3. *A segment that is closed takes another message* (`closed_changes`). `packTurns` calls a segment closed as
   soon as its turns weigh exactly the limit (`segmentation.ts:1041-1045`), also when the last of them is
   still going on. Its next message makes it heavier, and the turn is cut into another
   segment, against `segmentation.test.ts:1254`, "keeps every closed prefix append-stable", and
   `plugin/README.md:68`, by which active sessions submit closed spans only. Once it is stored the boundary is
   kept, and is extracted again with the longer turn.

4. *The backfill's lock lets two workers work* (`backfill_takeover`). `acquireLock` (`backfill.ts:1347-1363`)
   reads the PID in the file, probes it, and removes whatever file is there by then. Two workers that
   start over the file of the same dead one can both get through `openSync("wx")`, the slower one after it
   removed the other's file, against `README.md:229`, "A mode-`0600` PID lock prevents concurrent workers".

## Plan

In this order; each module gets its instance, properties and, where it is worth it, proofs.

1. `NativeCursor` — `cursor.ts` as operators against a reference definition.
2. `WorkerLoop` — waits, wake-ups, the resolution lane and shutdown, over `JobStore`'s claims.

Not modelled: routing, authentication and request schemas, prompts and the normalisation of
model answers, text ranking, the configuration converter, packaging and launch scripts, the
rehearsal and runtime harnesses.
