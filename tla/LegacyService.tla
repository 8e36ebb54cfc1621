--------------------------- MODULE LegacyService ---------------------------
(***************************************************************************)
(* The first server, in Python (reflection_service/db.py, driven by its    *)
(* worker.py), which the queue of JobStore succeeds.  It has the same      *)
(* tables but no staged results, priorities or operators, and its worker   *)
(* is one loop: it claims the oldest wanted snapshot, and no other, works  *)
(* on it to the end, and gives up its lock when anything fails that it     *)
(* does not expect.                                                        *)
(*                                                                         *)
(* Every operation is one transaction under the lock of its segment, but   *)
(* for the claim, which is the work of whoever holds the worker lock, on   *)
(* the connection that holds it, and locks the row it takes.               *)
(*                                                                         *)
(* A snapshot is its end boundary, its content and its projection version; *)
(* the boundary names the row.  A lease is the server that has it: a       *)
(* server works on one claim at a time, and a later claim of its own finds *)
(* the rows of an earlier life recovered.  Payloads move with the columns  *)
(* they belong to, and are left out.                                       *)
(***************************************************************************)
EXTENDS Integers

CONSTANTS
  SegmentIds,
  Boundaries,     \* end boundaries of a segment
  Contents,       \* what a source fingerprint tells apart, besides the boundary
  Versions,       \* projection versions
  Summaries,      \* what the model can say of a snapshot
  Servers,
  Null,
  MaxAttempts,    \* worker_max_attempts
  MaxPosts,       \* bound: posts
  MaxFaults       \* bound: lost connections, crashes, stops, failures that cannot be recorded

Submission == [boundary : Boundaries, content : Contents, version : Versions]
Status   == {"pending", "running", "failed", "succeeded", "superseded"}
Row      == [status : Status, attempts : Nat, lease : Servers \cup {Null}, due : BOOLEAN,
             generation : Nat, source : Submission]
Target   == [source : Submission, generation : Nat, since : Nat]
Result   == [boundary : Boundaries, content : Contents, text : Summaries]
Segment  == [source : Submission, generation : Nat, extraction : Result]
Claim    == [segment : SegmentIds, source : Submission, generation : Nat, attempts : Nat,
             prepared : Result \cup {Null}]
Wish     == [source : Submission, generation : Nat]

ASSUME ServiceAssumption ==
  /\ Versions \subseteq Nat
  /\ MaxAttempts \in Nat /\ MaxPosts \in Nat /\ MaxFaults \in Nat
  /\ Null \notin Servers \cup Row \cup Target \cup Result \cup Segment \cup Claim \cup Wish

VARIABLES
  rows,        \* extraction_jobs: by segment and boundary, or Null
  target,      \* segment_targets: the wanted snapshot of a segment, or Null
  committed,   \* segments: the summary of a segment, or Null
  clock,       \* orders segment_targets.updated_at
  lock,        \* the server whose connection holds the worker lock
  phase,       \* where each server's _run is
  claim,       \* by server: the claim it works on, or Null
  posts, faults   \* what is used up of the bounds

tables      == <<rows, target, committed, clock>>
serviceVars == <<tables, lock, phase, claim, posts, faults>>

ServiceInit ==
  /\ rows = [s \in SegmentIds |-> [b \in Boundaries |-> Null]]
  /\ target = [s \in SegmentIds |-> Null]
  /\ committed = [s \in SegmentIds |-> Null]
  /\ clock = 0 /\ lock = Null
  /\ phase = [r \in Servers |-> "outside"]
  /\ claim = [r \in Servers |-> Null]
  /\ posts = 0 /\ faults = 0

Is(s, b, states) == rows[s][b] # Null /\ rows[s][b].status \in states
Running(s) == \E b \in Boundaries : Is(s, b, {"running"})

\* What every reset to the wanted snapshot makes of a row.
Queued(t) ==
  [status |-> "pending", attempts |-> 0, lease |-> Null, due |-> TRUE,
   generation |-> t.generation, source |-> t.source]

Superseded(row) == [row EXCEPT !.status = "superseded", !.lease = Null]

\* The row is the one that the target names, at its generation.
RowMatches(s, b) ==
  /\ target[s] # Null
  /\ target[s].source = rows[s][b].source /\ target[s].generation = rows[s][b].generation
-----------------------------------------------------------------------------
(* POST /v1/segments: enqueue, and POST /v1/jobs/{id}/retry. *)

Lower(s, q) ==
  \/ committed[s] # Null /\ q.version < committed[s].source.version
  \/ target[s] # Null /\ q.version < target[s].source.version
  \/ rows[s][q.boundary] # Null /\ q.version < rows[s][q.boundary].source.version

Wanted(s, q)  == target[s] # Null /\ target[s].source = q
Settled(s, q) == target[s] = Null /\ committed[s] # Null /\ committed[s].source = q

\* A row of its own for a boundary that was never wanted.
PostLower(s, q) ==
  /\ Lower(s, q)
  /\ rows' = [rows EXCEPT ![s][q.boundary] =
       IF @ # Null THEN @
       ELSE [status |-> "superseded", attempts |-> 0, lease |-> Null, due |-> TRUE,
             generation |-> 0, source |-> q]]
  /\ UNCHANGED <<target, committed, clock>>

\* The wanted snapshot once more: its row starts over, unless the segment is being worked on.
PostAgain(s, q) ==
  /\ ~Lower(s, q) /\ Wanted(s, q)
  /\ rows' = [rows EXCEPT ![s][q.boundary] = IF Running(s) THEN @ ELSE Queued(target[s])]
  /\ UNCHANGED <<target, committed, clock>>

\* The committed snapshot once more.
PostSettled(s, q) ==
  /\ ~Lower(s, q) /\ Settled(s, q)
  /\ rows' = [rows EXCEPT ![s][q.boundary] =
       IF Is(s, q.boundary, {"running"}) THEN @
       ELSE [status |-> "succeeded", attempts |-> IF @ = Null THEN 0 ELSE @.attempts,
             lease |-> Null, due |-> TRUE, generation |-> committed[s].generation, source |-> q]]
  /\ UNCHANGED <<target, committed, clock>>

\* One more than every generation of the segment.
Newest(s, g) ==
  LET known == {0} \cup {rows[s][b].generation : b \in {c \in Boundaries : rows[s][c] # Null}}
                   \cup {x.generation : x \in {target[s], committed[s]} \ {Null}}
  IN  g - 1 \in known /\ \A n \in known : n < g

\* Mutant: what still waits goes on waiting.
DiscardedFailed == {"failed"}

\* The statuses that a changed snapshot discards in the other rows.
Discarded == {"pending", "failed"}

PostChanged(s, q) ==
  /\ ~Lower(s, q) /\ ~Wanted(s, q) /\ ~Settled(s, q)
  /\ \E g \in 1..MaxPosts :
       /\ Newest(s, g)
       /\ LET wish == [source |-> q, generation |-> g, since |-> clock]
          IN  /\ target' = [target EXCEPT ![s] = wish]
              /\ rows' = [rows EXCEPT ![s] = [b \in Boundaries |->
                   IF b = q.boundary
                   THEN IF Is(s, b, {"running"}) THEN rows[s][b] ELSE Queued(wish)
                   ELSE IF Is(s, b, Discarded) THEN Superseded(rows[s][b]) ELSE rows[s][b]]]
  /\ clock' = clock + 1
  /\ UNCHANGED committed

Enqueue(s) ==
  /\ posts < MaxPosts /\ posts' = posts + 1
  /\ \E q \in Submission :
       PostLower(s, q) \/ PostAgain(s, q) \/ PostSettled(s, q) \/ PostChanged(s, q)
  /\ UNCHANGED <<lock, phase, claim, faults>>

RetryFailedJob(s, b) ==
  /\ posts < MaxPosts /\ posts' = posts + 1
  /\ Is(s, b, {"failed"}) /\ RowMatches(s, b)
  /\ rows' = [rows EXCEPT ![s][b] = Queued(target[s])]
  /\ UNCHANGED <<target, committed, clock, lock, phase, claim, faults>>
-----------------------------------------------------------------------------
(* The worker: _run, recover_running_jobs, claim_oldest_job. *)

TryLock(r) ==
  /\ phase[r] = "outside" /\ lock = Null
  /\ lock' = r
  /\ phase' = [phase EXCEPT ![r] = "recovering"]
  /\ UNCHANGED <<tables, claim, posts, faults>>

\* The wanted row goes back into the queue, with its attempts if it was the wanted one before.
Recovered(s, b) ==
  IF target[s] # Null /\ target[s].source.boundary = b
  THEN [Queued(target[s]) EXCEPT !.attempts = IF RowMatches(s, b) THEN rows[s][b].attempts ELSE 0]
  ELSE Superseded(rows[s][b])

RecoverRunningJobs(r) ==
  /\ phase[r] = "recovering" /\ lock = r
  /\ rows' = [s \in SegmentIds |-> [b \in Boundaries |->
       IF Is(s, b, {"running"}) THEN Recovered(s, b) ELSE rows[s][b]]]
  /\ phase' = [phase EXCEPT ![r] = "looping"]
  /\ UNCHANGED <<target, committed, clock, lock, claim, posts, faults>>

\* Segments that the claim query lists; the oldest alone is looked at, though it may not be due.  The
\* row is read again when its lock is waited for: what is pending is the wanted row then, too.
Claimable(s) ==
  /\ target[s] # Null /\ ~Running(s)
  /\ LET b == target[s].source.boundary IN Is(s, b, {"pending"}) /\ RowMatches(s, b)

Oldest(s) ==
  Claimable(s) /\ \A x \in SegmentIds : Claimable(x) => target[s].since <= target[x].since

ClaimOldestJob(r, s) ==
  /\ phase[r] = "looping" /\ lock = r /\ claim[r] = Null
  /\ Oldest(s)
  /\ LET b == target[s].source.boundary
         row == rows[s][b]
     IN
     /\ row.due
     /\ rows' = [rows EXCEPT ![s][b] =
          [row EXCEPT !.status = "running", !.attempts = row.attempts + 1, !.lease = r]]
     /\ claim' = [claim EXCEPT ![r] =
          [segment |-> s, source |-> row.source, generation |-> row.generation,
           attempts |-> row.attempts + 1, prepared |-> Null]]
  /\ UNCHANGED <<target, committed, clock, lock, phase, posts, faults>>

\* worker_retry_backoff_seconds have passed.
BackoffPasses(s, b) ==
  /\ Is(s, b, {"pending"}) /\ ~rows[s][b].due
  /\ rows' = [rows EXCEPT ![s][b].due = TRUE]
  /\ UNCHANGED <<target, committed, clock, lock, phase, claim, posts, faults>>

\* The next query on a connection that is no more.
NoticeLoss(r) ==
  /\ phase[r] # "outside" /\ lock # r /\ claim[r] = Null
  /\ phase' = [phase EXCEPT ![r] = "outside"]
  /\ UNCHANGED <<tables, lock, claim, posts, faults>>
-----------------------------------------------------------------------------
(* _process: prepare, then commit_extraction or finish_failed_attempt. *)

RowOf(r)    == rows[claim[r].segment][claim[r].source.boundary]
TargetOf(r) == target[claim[r].segment]

Holds(r) == RowOf(r) # Null /\ RowOf(r).status = "running" /\ RowOf(r).lease = r

\* Mutant: the generation of the target is not compared.
MatchesSource(r) ==
  TargetOf(r) # Null /\ TargetOf(r).source.boundary = claim[r].source.boundary

\* Of the claim and the target; a running row keeps its columns, and needs no comparison.
Matches(r) ==
  /\ TargetOf(r) # Null
  /\ TargetOf(r).source = claim[r].source /\ TargetOf(r).generation = claim[r].generation

Done(r) == claim' = [claim EXCEPT ![r] = Null]
InTables == UNCHANGED <<lock, phase, posts, faults>>

\* The model calls, in no transaction.
Prepare(r) ==
  /\ claim[r] # Null /\ claim[r].prepared = Null
  /\ \E text \in Summaries :
       claim' = [claim EXCEPT ![r].prepared =
         [boundary |-> claim[r].source.boundary, content |-> claim[r].source.content,
          text |-> text]]
  /\ UNCHANGED tables /\ InTables

\* The summary of a later projection, if there were one, would stay.
CommitExtraction(r) ==
  /\ claim[r] # Null /\ claim[r].prepared # Null
  /\ Holds(r) /\ Matches(r)
  /\ LET s == claim[r].segment IN
     /\ committed' = [committed EXCEPT ![s] =
          IF @ # Null /\ @.source.version > claim[r].source.version THEN @
          ELSE [source |-> claim[r].source, generation |-> claim[r].generation,
                extraction |-> claim[r].prepared]]
     /\ rows' = [rows EXCEPT ![s][claim[r].source.boundary] =
          [@ EXCEPT !.status = "succeeded", !.lease = Null]]
     /\ target' = [target EXCEPT ![s] = Null]
  /\ Done(r) /\ InTables /\ UNCHANGED clock

\* Recorded already: what is wanted is what is committed.
NothingLost(s) ==
  /\ committed[s] # Null
  /\ committed[s].source.boundary = target[s].source.boundary
  /\ committed[s].source.content = target[s].source.content
  /\ committed[s].source.version >= target[s].source.version

\* A model or a transaction has failed; invalid input is not tried again.
FinishFailedAttempt(r, terminal) ==
  LET s == claim[r].segment
      final == terminal \/ claim[r].attempts >= MaxAttempts
  IN
  /\ claim[r] # Null /\ Holds(r) /\ Matches(r)
  /\ terminal => claim[r].prepared = Null
  /\ rows' = [rows EXCEPT ![s][claim[r].source.boundary] =
       [@ EXCEPT !.status = IF final THEN "failed" ELSE "pending", !.lease = Null, !.due = final]]
  /\ target' = IF final /\ NothingLost(s) THEN [target EXCEPT ![s] = Null] ELSE target
  /\ Done(r) /\ InTables /\ UNCHANGED <<committed, clock>>

\* The lease still holds and something else is wanted: it is put in the queue.
RequeueLatestTarget(r) ==
  LET s == claim[r].segment b == claim[r].source.boundary IN
  /\ claim[r] # Null /\ Holds(r) /\ ~Matches(r)
  /\ rows' = [rows EXCEPT ![s] = [c \in Boundaries |->
       IF target[s] # Null /\ c = target[s].source.boundary
          /\ (c = b \/ ~Is(s, c, {"running"}))
       THEN Queued(target[s])
       ELSE IF c = b THEN Superseded(rows[s][b]) ELSE rows[s][c]]]
  /\ Done(r) /\ InTables /\ UNCHANGED <<target, committed, clock>>

\* The lease is another's: commit_extraction raises, finish_failed_attempt changes nothing.
IgnoreStaleLease(r) ==
  /\ claim[r] # Null /\ ~Holds(r)
  /\ Done(r) /\ InTables /\ UNCHANGED tables

Process(r) ==
  \/ Prepare(r) \/ CommitExtraction(r) \/ \E terminal \in BOOLEAN : FinishFailedAttempt(r, terminal)
  \/ RequeueLatestTarget(r) \/ IgnoreStaleLease(r)
-----------------------------------------------------------------------------
(* Faults. *)

Unlocked(r) == IF lock = r THEN Null ELSE lock

\* Mutant: the error is logged and the loop goes on.
FailureUnrecordedUnnoticed(r) ==
  /\ claim[r] # Null /\ Done(r)
  /\ UNCHANGED <<phase, lock, tables>>

\* finish_failed_attempt itself fails, the database being out of reach: _run ends its loop, gives
\* up the lock, and tries again.
FailureUnrecorded(r) ==
  /\ claim[r] # Null /\ Done(r)
  /\ phase' = [phase EXCEPT ![r] = "outside"] /\ lock' = Unlocked(r)
  /\ UNCHANGED tables

\* The connection breaks and PostgreSQL frees the lock; a claim is worked on to its end.
LoseConnection(r) == lock = r /\ lock' = Null /\ UNCHANGED <<tables, phase, claim>>

\* The process dies, or stops, which a claim under way is waited for; then it starts again.
EndProcess(r) ==
  /\ phase[r] # "outside"
  /\ phase' = [phase EXCEPT ![r] = "outside"] /\ lock' = Unlocked(r)
  /\ Done(r) /\ UNCHANGED tables

Fault(r) ==
  /\ faults < MaxFaults /\ faults' = faults + 1
  /\ FailureUnrecorded(r) \/ LoseConnection(r) \/ EndProcess(r)
  /\ UNCHANGED posts

Work(r) ==
  TryLock(r) \/ RecoverRunningJobs(r) \/ (\E s \in SegmentIds : ClaimOldestJob(r, s)) \/ NoticeLoss(r)

ServiceNext ==
  \/ \E s \in SegmentIds : Enqueue(s)
  \/ \E s \in SegmentIds, b \in Boundaries : RetryFailedJob(s, b) \/ BackoffPasses(s, b)
  \/ \E r \in Servers : Work(r) \/ Process(r) \/ Fault(r)

ServiceSpec == ServiceInit /\ [][ServiceNext]_serviceVars
-----------------------------------------------------------------------------
ServiceTypeOK ==
  /\ rows \in [SegmentIds -> [Boundaries -> Row \cup {Null}]]
  /\ target \in [SegmentIds -> Target \cup {Null}]
  /\ committed \in [SegmentIds -> Segment \cup {Null}]
  /\ clock \in Nat /\ lock \in Servers \cup {Null}
  /\ phase \in [Servers -> {"outside", "recovering", "looping"}]
  /\ claim \in [Servers -> Claim \cup {Null}]
  /\ posts \in Nat /\ faults \in Nat

(* What is wanted waits in the queue, is failed for a retry to accept, or comes after the one    *)
(* attempt that its segment has; and nothing but what is wanted waits.                           *)
PostedIsQueued ==
  \A s \in SegmentIds, b \in Boundaries :
    /\ target[s] # Null /\ target[s].source.boundary = b =>
         \/ Is(s, b, {"pending", "failed"}) /\ RowMatches(s, b)
         \/ Is(s, b, {"running"})
    /\ Is(s, b, {"pending"}) => RowMatches(s, b)
    /\ Is(s, b, {"running"}) =>
         /\ target[s] # Null
         /\ \A c \in Boundaries : Is(s, c, {"running"}) => b = c
         /\ target[s].source.boundary # b => Is(s, target[s].source.boundary, {"pending"})

(* While a worker that holds the lock is past its recovery, every running row is worked on by its *)
(* claim: an attempt that is lost, or whose failure cannot be recorded, gives up the lock, and     *)
(* with it the row to the next recovery.                                                         *)
RunningIsWorkedOn ==
  \A s \in SegmentIds, b \in Boundaries :
    Is(s, b, {"running"}) /\ lock # Null /\ phase[lock] = "looping" =>
      /\ rows[s][b].lease = lock /\ claim[lock] # Null
      /\ claim[lock].segment = s /\ claim[lock].source = rows[s][b].source
      /\ claim[lock].generation = rows[s][b].generation
      /\ claim[lock].attempts = rows[s][b].attempts

(* Of each segment, the service is the memory that SegmentMemory describes; the draft is in the   *)
(* hands of the one server that can still commit it.                                             *)
Drafts(s) ==
  {r \in Servers : /\ claim[r] # Null /\ claim[r].segment = s /\ claim[r].prepared # Null
                   /\ Holds(r) /\ Matches(r)}

WantedOf(s) ==
  IF target[s] = Null THEN Null
  ELSE [source |-> target[s].source, generation |-> target[s].generation]

DraftOf(s) ==
  IF Drafts(s) = {} THEN Null ELSE claim[CHOOSE r \in Drafts(s) : TRUE].prepared

Archive(s) == INSTANCE SegmentMemory WITH
  Segments <- {s}, Identities <- Submission, Texts <- Summaries, Generations <- 1..MaxPosts,
  None <- Null,
  wanted <- [x \in {s} |-> WantedOf(x)],
  draft <- [x \in {s} |-> DraftOf(x)],
  memory <- [x \in {s} |-> committed[x]]

ServiceImplementsMemory ==
  [][\A s \in SegmentIds : [Archive(s)!Next]_(Archive(s)!vars)]_serviceVars
=============================================================================
