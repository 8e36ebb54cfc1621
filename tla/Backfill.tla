------------------------------ MODULE Backfill ------------------------------
(***************************************************************************)
(* The backfill worker (scripts/src/backfill.ts): it reads the sessions of *)
(* the local OpenCode database, which other processes go on writing, and   *)
(* has the server commit every segment of them.  Several workers may be    *)
(* started; a PID lock file is to let one of them run.                     *)
(*                                                                         *)
(* A step is one request with its answer and what the code does with the   *)
(* answer up to the next await.  Before and after every await of a         *)
(* session's work the code looks at the session's revision, so every step  *)
(* but the arrival of a post has Stable as its guard, and SessionChanged   *)
(* is the other branch.  A read that is repeated and at last answered is   *)
(* one step; RequestFails is the end of its attempts.                      *)
(*                                                                         *)
(* Segments are cut at the same places in every plan (Segmentation has the *)
(* cut itself) and have one projection version, so the replays of a        *)
(* projection upgrade never run.                                           *)
(***************************************************************************)
EXTENDS Integers, FiniteSets, Sequences

CONSTANTS
  Workers,       \* process identifiers, one for every start of the worker
  Gone,          \* the process identifier of a worker that is no more
  None,
  LastSession,   \* sessions are 1..LastSession
  LastSpan,      \* segments of a session are 1..LastSpan
  Ends,          \* where a segment may end
  Texts,         \* what a segment may say
  PriorityJobs,  \* REFLECTION_BACKFILL_PRIORITY_JOB_IDS
  MaxRounds,     \* MAX_NON_PROVIDER_JOB_ROUNDS (2 in the code)
  MaxEdits,      \* bound: changes of the local database
  MaxTroubles    \* bound: posts and repairs by others, jobs that fail for want
                 \* of balance, lost answers, failed requests, killed workers

Sessions  == 1..LastSession
Spans     == 1..LastSpan
Content   == [end : Ends, text : Texts]
Snapshot  == Sessions \X Spans \X Content
Written   == CHOOSE c \in Content : TRUE   \* what a session says at first
Job       == Sessions \X Spans \X Ends
Status    == {"pending", "running", "failed", "unpaid", "succeeded", "superseded"}
Row       == [text : Texts, status : Status]

ASSUME BackfillAssumption ==
  /\ LastSession \in Nat \ {0} /\ LastSpan \in Nat \ {0}
  /\ PriorityJobs \subseteq Job
  /\ MaxRounds \in Nat \ {0}
  /\ MaxEdits \in Nat /\ MaxTroubles \in Nat
  /\ Gone \notin Workers /\ None \notin Workers \cup {Gone}
  /\ Ends # {} /\ Texts # {}
  /\ None \notin Status \cup Content \cup Snapshot \cup Job \cup Row
  /\ None \notin [by : Workers \cup {Gone}, written : BOOLEAN]

VARIABLES
  local,     \* the sessions of the OpenCode database
  rows,      \* server: extraction_jobs, by segment and end
  target,    \* server: segment_targets, the content a segment is to have
  memory,    \* server: segments, the content that was committed
  lock,      \* the lock file: who created it, and whether the PID is written
  taken,     \* workers whose lock file another worker removed
  worker,    \* what each worker is at and remembers
  settled,   \* worker and session: completed, and not changed since
  used       \* what is used up of the bounds

server == <<rows, target, memory>>
files  == <<lock, taken>>
vars   == <<local, rows, target, memory, lock, taken, worker, settled, used>>

LockSteps  == {"start", "unlink", "create", "write"}
Checking   == {"succeeded?", "failed?", "given up?", "provider"}
InSession  == {"plan", "post", "retry", "ambiguous", "conflict", "poll"} \cup Checking
Requesting == (InSession \ {"retry", "provider"}) \cup {"priority"}
Ended      == {"refused", "completed", "aborted", "killed"}
Pc == LockSteps \cup InSession \cup {"priority", "queue"} \cup Ended

\* A failure that is recorded without the job of a segment.
WholeSession(s) == <<s, 0, None>>

Planned == [content : Content, status : {"done", "failed", "wanted"}]

\* The memory of a worker: createInitialState and main's ProcessingContext.
Fresh(pc, todo, queue) ==
  [pc |-> pc, todo |-> todo, queue |-> queue, deferred |-> {}, session |-> 0,
   revision |-> 0, open |-> FALSE, plan |-> <<>>, index |-> 1,
   job |-> None, key |-> None, status |-> None, rounds |-> 0, provider |-> FALSE,
   completed |-> {}, attempted |-> {}, failures |-> {}]

Init ==
  /\ local = [s \in Sessions |->
                [spans |-> <<Written>>, open |-> FALSE, quiet |-> TRUE,
                 expired |-> FALSE, gone |-> FALSE, revision |-> 0]]
  /\ rows   = [s \in Sessions |-> [n \in Spans |-> [e \in Ends |-> None]]]
  /\ target = [s \in Sessions |-> [n \in Spans |-> None]]
  /\ memory = [s \in Sessions |-> [n \in Spans |-> None]]
  /\ lock \in {None, [by |-> Gone, written |-> TRUE]}
  /\ taken = {}
  /\ worker = [w \in Workers |-> Fresh("start", PriorityJobs, Sessions)]
  /\ settled = {}
  /\ used = [edits |-> 0, troubles |-> 0]

Spend(what) == used' = [used EXCEPT ![what] = @ + 1]

-----------------------------------------------------------------------------
(* The local database, which OpenCode writes.                              *)

\* Messages are added, changed or reverted, or the session is deleted.
EditedSpans(spans) ==
  {Append(spans, c) : c \in {d \in Content : Len(spans) < LastSpan}}
    \cup {[spans EXCEPT ![Len(spans)] = c] : c \in Content}
    \cup {SubSeq(spans, 1, Len(spans) - 1) : n \in {m \in {1} : Len(spans) > 1}}

Edit(s) ==
  /\ used.edits < MaxEdits /\ ~local[s].gone
  /\ \/ \E spans \in EditedSpans(local[s].spans), open \in BOOLEAN :
          local' = [local EXCEPT ![s] =
                      [local[s] EXCEPT !.spans = spans, !.open = open, !.quiet = FALSE,
                                       !.expired = FALSE, !.revision = @ + 1]]
     \/ local' = [local EXCEPT ![s] = [local[s] EXCEPT !.gone = TRUE, !.revision = @ + 1]]
  /\ settled' = {done \in settled : done[2] # s}
  /\ Spend("edits")
  /\ UNCHANGED <<server, files, worker>>

\* Ten minutes without a change; no request lasts that long.
Rest(s) ==
  /\ ~local[s].quiet
  /\ \A w \in Workers : worker[w].pc = "post" => worker[w].session # s
  /\ local' = [local EXCEPT ![s].quiet = TRUE]
  /\ UNCHANGED <<server, files, worker, settled, used>>

\* A day without a change.
Expire(s) ==
  /\ local[s].quiet /\ local[s].open /\ ~local[s].expired
  /\ local' = [local EXCEPT ![s].expired = TRUE]
  /\ UNCHANGED <<server, files, worker, settled, used>>

-----------------------------------------------------------------------------
(* The server, as JobStore has it, one generation at a time.               *)

RowOf(job) == rows[job[1]][job[2]][job[3]]

TargetIs(s, n, e, row) == target[s][n] = [end |-> e, text |-> row.text]

\* POST /v1/segments: the server after it.
AfterPost(s, n, c) ==
  IF target[s][n] = c THEN server
  ELSE IF target[s][n] = None /\ memory[s][n] = c
  THEN <<[rows EXCEPT ![s][n][c.end] =
            IF @ # None /\ @.status = "running" THEN @
            ELSE [text |-> c.text, status |-> "succeeded"]],
         target, memory>>
  ELSE <<[rows EXCEPT ![s][n] = [e \in Ends |->
            IF e = c.end
            THEN IF @[e] # None /\ @[e].status = "running" THEN @[e]
                 ELSE [text |-> c.text, status |-> "pending"]
            ELSE IF @[e] # None /\ @[e].status \in {"pending", "failed", "unpaid"}
                 THEN [@[e] EXCEPT !.status = "superseded"]
                 ELSE @[e]]],
         [target EXCEPT ![s][n] = c],
         memory>>

Posted(s, n, c) ==
  /\ rows' = AfterPost(s, n, c)[1]
  /\ target' = AfterPost(s, n, c)[2]
  /\ memory' = AfterPost(s, n, c)[3]

SetStatus(job, status) ==
  rows' = [rows EXCEPT ![job[1]][job[2]][job[3]].status = status]

\* POST /v1/jobs/{id}/retry accepts the failed job of the current target.
Retriable(job) ==
  LET row == RowOf(job)
  IN  /\ row # None /\ row.status \in {"failed", "unpaid"}
      /\ TargetIs(job[1], job[2], job[3], row)

\* The extraction worker claims a job.
StartJob(job) ==
  /\ RowOf(job) # None /\ RowOf(job).status = "pending"
  /\ SetStatus(job, "running")
  /\ UNCHANGED <<local, target, memory, files, worker, settled, used>>

CommitJob(job) ==
  LET s == job[1] n == job[2] IN
  /\ RowOf(job) # None /\ RowOf(job).status = "running"
  /\ TargetIs(s, n, job[3], RowOf(job))
  /\ SetStatus(job, "succeeded")
  /\ memory' = [memory EXCEPT ![s][n] = target[s][n]]
  /\ target' = [target EXCEPT ![s][n] = None]
  /\ UNCHANGED <<local, files, worker, settled, used>>

FailJob(job) ==
  /\ RowOf(job) # None /\ RowOf(job).status = "running"
  /\ TargetIs(job[1], job[2], job[3], RowOf(job))
  /\ \/ SetStatus(job, "failed") /\ UNCHANGED used
     \/ used.troubles < MaxTroubles /\ SetStatus(job, "unpaid") /\ Spend("troubles")
  /\ UNCHANGED <<local, target, memory, files, worker, settled>>

\* The target moved on while the job ran: its own row is put in the queue.
RequeueJob(job) ==
  LET s == job[1] n == job[2] IN
  /\ RowOf(job) # None /\ RowOf(job).status = "running"
  /\ ~TargetIs(s, n, job[3], RowOf(job))
  /\ rows' = [rows EXCEPT ![s][n] = [e \in Ends |->
       IF target[s][n] # None /\ e = target[s][n].end
          /\ (e = job[3] \/ @[e].status # "running")
       THEN [text |-> target[s][n].text, status |-> "pending"]
       ELSE IF e = job[3] THEN [@[e] EXCEPT !.status = "superseded"]
       ELSE @[e]]]
  /\ UNCHANGED <<local, target, memory, files, worker, settled, used>>

\* The OpenCode plugin posts what a session contains as well.
OtherPost(s) ==
  /\ used.troubles < MaxTroubles /\ ~local[s].gone
  /\ \E n \in DOMAIN local[s].spans :
       /\ n = Len(local[s].spans) => ~local[s].open
       /\ Posted(s, n, local[s].spans[n])
  /\ Spend("troubles")
  /\ UNCHANGED <<local, files, worker, settled>>

\* An operator supersedes a failed job.
OperatorSupersedes(job) ==
  /\ used.troubles < MaxTroubles /\ Retriable(job)
  /\ SetStatus(job, "superseded")
  /\ target' = [target EXCEPT ![job[1]][job[2]] = None]
  /\ Spend("troubles")
  /\ UNCHANGED <<local, memory, files, worker, settled>>

-----------------------------------------------------------------------------
(* The lock file: acquireLock and releaseLock.                             *)

At(w, pc) == worker[w].pc = pc
Go(w, r) == worker' = [worker EXCEPT ![w] = r]
To(w, pc) == Go(w, [worker[w] EXCEPT !.pc = pc])
Stop(w, pc) == Go(w, [Fresh(pc, {}, {}) EXCEPT !.failures = worker[w].failures])

Alive(p) == p \in Workers /\ worker[p].pc \notin Ended

\* An empty file (its PID is not written yet) is neither held nor stale.
LookAtLock(w) ==
  /\ At(w, "start")
  /\ IF lock = None \/ ~lock.written THEN To(w, "create")
     ELSE IF Alive(lock.by) THEN Stop(w, "refused")
     ELSE To(w, "unlink")
  /\ UNCHANGED <<local, server, files, settled, used>>

\* unlinkSync removes the file that is there now.
UnlinkStaleLock(w) ==
  /\ At(w, "unlink")
  /\ IF lock = None THEN Stop(w, "refused") ELSE To(w, "create")
  /\ lock' = None
  /\ taken' = IF lock # None /\ lock.by \in Workers THEN taken \cup {lock.by} ELSE taken
  /\ UNCHANGED <<local, server, settled, used>>

\* openSync(lockPath, "wx")
CreateLock(w) ==
  /\ At(w, "create")
  /\ IF lock # None
     THEN Stop(w, "refused") /\ UNCHANGED lock
     ELSE lock' = [by |-> w, written |-> FALSE] /\ To(w, "write")
  /\ UNCHANGED <<local, server, taken, settled, used>>

\* The PID goes into the file that was created, wherever that is by now.
WriteLock(w) ==
  /\ At(w, "write")
  /\ lock' = IF lock = [by |-> w, written |-> FALSE]
             THEN [by |-> w, written |-> TRUE] ELSE lock
  /\ To(w, "priority")
  /\ UNCHANGED <<local, server, taken, settled, used>>

AfterRelease(w) == IF lock = [by |-> w, written |-> TRUE] THEN None ELSE lock

\* runBackfill ends: by itself, or with the error that no handler expects.
EndRun(w, how) ==
  /\ Stop(w, how)
  /\ lock' = AfterRelease(w)
  /\ UNCHANGED taken

-----------------------------------------------------------------------------
(* The plan of a session: segmentPlan, planSessionSegments.                *)

\* sessionRemainsStable; a priority job has no session to look at.
Stable(w) ==
  LET s == worker[w].session
  IN  s # 0 => /\ ~local[s].gone /\ local[s].quiet
               /\ local[s].revision = worker[w].revision

\* Mutant: a committed segment is not compared with the local fingerprint.
PlanStatusOfSpan(s, n, c) ==
  IF target[s][n] # None
  THEN IF target[s][n] = c /\ RowOf(<<s, n, c.end>>).status \in {"failed", "unpaid"}
       THEN "failed" ELSE "wanted"
  ELSE IF memory[s][n] # None /\ memory[s][n].end = c.end THEN "done"
  ELSE "wanted"

PlanStatus(s, n, c) ==
  IF target[s][n] # None
  THEN IF target[s][n] = c /\ RowOf(<<s, n, c.end>>).status \in {"failed", "unpaid"}
       THEN "failed" ELSE "wanted"
  ELSE IF memory[s][n] = c THEN "done" ELSE "wanted"

\* A target with no local source span makes the manifest invalid.
PlanInvalid(s) ==
  \E n \in Spans : /\ target[s][n] # None
                   /\ \/ n > Len(local[s].spans)
                      \/ local[s].spans[n].end # target[s][n].end

\* stableSessionSnapshot: nothing has changed for ten minutes.
Ready(s) == local[s].quiet

\* runBackfill: the next session of the queue.
TakeSession(w) ==
  LET r == worker[w] IN
  /\ At(w, "queue")
  /\ \E s \in r.queue :
       LET rest == [r EXCEPT !.queue = @ \ {s}] IN
       /\ Go(w, IF local[s].gone THEN rest
                ELSE IF ~Ready(s) THEN [rest EXCEPT !.deferred = @ \cup {s}]
                ELSE [rest EXCEPT !.pc = "plan", !.session = s,
                                  !.revision = local[s].revision])
  /\ UNCHANGED <<local, server, files, settled, used>>

\* What a worker forgets when it leaves a job, a session.
LeaveJob(r) ==
  [r EXCEPT !.job = None, !.key = None, !.status = None, !.rounds = 0,
            !.provider = FALSE]
LeaveSession(r) ==
  [LeaveJob(r) EXCEPT !.pc = "queue", !.session = 0, !.revision = 0, !.open = FALSE,
                      !.plan = <<>>, !.index = 1]

\* The outcomes deferred, deferred_source and replan put the session off.
Deferred(r) == [LeaveSession(r) EXCEPT !.deferred = @ \cup {r.session}]
Failed(r)   == [LeaveSession(r) EXCEPT !.failures = @ \cup {WholeSession(r.session)}]

KeyOf(r, n) == <<r.session, n, r.plan[n].content>>

\* A segment that needs no post: committed, or tried in vain before.
Skipped(r, n) ==
  /\ ~(r.open /\ n = Len(r.plan))
  /\ \/ r.plan[n].status = "done"
     \/ r.plan[n].status = "failed" /\ KeyOf(r, n) \in r.attempted

\* How far the loop over the segments comes without a post.
NextIndex(r) ==
  CHOOSE n \in r.index..(Len(r.plan) + 1) :
    /\ \A m \in r.index..(n - 1) : Skipped(r, m)
    /\ n <= Len(r.plan) => ~Skipped(r, n)

\* Mutant: an open tail is waited for, however long.
DeferralIsNeverOver(s) == FALSE

\* maxMutableSourceDeferralMs
DeferralIsOver(s) == local[s].expired

\* processSession: the loop as far as the next post, or its end.  An open tail
\* is put off, for a day.
Walked(r) ==
  LET n    == NextIndex(r)
      s    == r.session
      done == {KeyOf(r, m) : m \in {k \in r.index..(n - 1) : r.plan[k].status = "done"}}
      seen == [r EXCEPT !.completed = @ \cup done, !.attempted = @ \ done]
  IN  IF n = Len(r.plan) + 1 THEN LeaveSession(seen)
      ELSE IF r.open /\ n = Len(r.plan)
      THEN IF DeferralIsOver(s) THEN Failed(seen) ELSE Deferred(seen)
      ELSE [seen EXCEPT !.pc = "post", !.index = n, !.key = KeyOf(r, n),
                        !.job = <<s, n, r.plan[n].content.end>>,
                        !.completed = @ \ {KeyOf(r, n)},
                        !.attempted = @ \ {KeyOf(r, n)}]

\* The worker goes on with its session, which it may complete by that.
Continue(w, r) ==
  /\ Go(w, Walked(r))
  /\ settled' = IF NextIndex(r) = Len(r.plan) + 1
                THEN settled \cup {<<w, r.session>>} ELSE settled

\* segmentPlan
PlanOf(s) == [n \in DOMAIN local[s].spans |->
  [content |-> local[s].spans[n], status |-> PlanStatus(s, n, local[s].spans[n])]]

PlanSession(w) ==
  LET r == worker[w] s == r.session IN
  /\ At(w, "plan") /\ Stable(w)
  /\ IF PlanInvalid(s) THEN Go(w, Failed(r)) /\ UNCHANGED settled
     ELSE Continue(w, [r EXCEPT !.open = local[s].open, !.plan = PlanOf(s)])
  /\ UNCHANGED <<local, server, files, used>>

\* SessionRevisionChangedError
SessionChanged(w) ==
  /\ worker[w].pc \in InSession /\ ~Stable(w)
  /\ Go(w, Deferred(worker[w]))
  /\ UNCHANGED <<local, server, files, settled, used>>

-----------------------------------------------------------------------------
(* The requests of a job: request, retryJob, completeJob.                  *)

\* SupersededJobError and SessionReplanRequiredError: the session is planned
\* anew, a priority job is given up.
Replanned(r) ==
  IF r.session # 0 THEN Deferred(r) ELSE [LeaveJob(r) EXCEPT !.pc = "priority"]

\* validateJobForSubmission; a priority job is not validated.
JobMatches(r, row) == r.session # 0 => row.text = r.key[3].text

\* completeJob's loop: the answer decides what comes next.
Judged(r, row) ==
  LET mine == JobMatches(r, row)
      seen == [r EXCEPT !.status = row.status]
  IN  CASE ~mine \/ row.status = "superseded" -> Replanned(r)
        [] mine /\ row.status = "succeeded" -> [seen EXCEPT !.pc = "succeeded?"]
        [] mine /\ row.status \in {"failed", "unpaid"} -> [seen EXCEPT !.pc = "failed?"]
        [] mine /\ row.status \in {"pending", "running"} ->
             [seen EXCEPT !.pc = "poll", !.status = None]

\* The post was sent when the session was as planned; it arrives whatever the
\* session has become, and its answer may be lost.
PostArrives(w) ==
  LET r == worker[w] IN
  /\ At(w, "post")
  /\ Posted(r.session, r.index, r.key[3])
  /\ \/ Go(w, Judged(r, rows'[r.session][r.index][r.job[3]])) /\ UNCHANGED used
     \/ used.troubles < MaxTroubles /\ Spend("troubles") /\ UNCHANGED worker
  /\ UNCHANGED <<local, files, settled>>

\* A job that is over: its outcome is remembered under the snapshot's key.
JobOver(w) ==
  LET r == worker[w]
      seen == IF r.status = "succeeded"
              THEN [r EXCEPT !.completed = @ \cup {r.key}]
              ELSE [r EXCEPT !.attempted = @ \cup {r.key}, !.failures = @ \cup {r.key}]
  IN  IF r.session # 0
      THEN Continue(w, [LeaveJob(seen) EXCEPT !.index = @ + 1])
      ELSE Go(w, [LeaveJob(seen) EXCEPT !.pc = "priority"]) /\ UNCHANGED settled

\* manifestHasExpectedSnapshot
ExpectedSnapshot(r) ==
  LET s == r.session n == r.index c == r.plan[n].content IN
  s # 0 => \/ target[s][n] = c
           \/ r.status = "succeeded" /\ target[s][n] = None /\ memory[s][n] = c

\* Less than MAX_NON_PROVIDER_JOB_ROUNDS failures.
TriesAgain(r) == r.rounds + 1 < MaxRounds

\* revalidateJobContext, and what completeJob does once it has passed.
Revalidated(w) ==
  LET r == worker[w] IN
  /\ r.pc \in Checking /\ Stable(w)
  /\ CASE ~ExpectedSnapshot(r) -> Go(w, Replanned(r)) /\ UNCHANGED settled
       [] ExpectedSnapshot(r) /\ r.pc \in {"succeeded?", "given up?"} -> JobOver(w)
       [] ExpectedSnapshot(r) /\ r.pc = "provider" -> To(w, "retry") /\ UNCHANGED settled
       [] ExpectedSnapshot(r) /\ r.pc = "failed?" /\ r.status = "unpaid" ->
            /\ Go(w, [r EXCEPT !.pc = IF r.provider THEN "provider" ELSE "retry",
                               !.provider = TRUE])
            /\ UNCHANGED settled
       [] ExpectedSnapshot(r) /\ r.pc = "failed?" /\ r.status = "failed" ->
            /\ Go(w, IF TriesAgain(r) THEN [r EXCEPT !.pc = "retry", !.rounds = @ + 1]
                     ELSE [r EXCEPT !.pc = "given up?"])
            /\ UNCHANGED settled
  /\ UNCHANGED <<local, server, files, used>>

\* POST /v1/jobs/{id}/retry, tried once.
RetryJob(w) ==
  LET r == worker[w] IN
  /\ At(w, "retry") /\ Stable(w)
  /\ \/ /\ Retriable(r.job) /\ SetStatus(r.job, "pending")
        /\ Go(w, Judged(r, [RowOf(r.job) EXCEPT !.status = "pending"]))
        /\ UNCHANGED used
     \/ ~Retriable(r.job) /\ To(w, "conflict") /\ UNCHANGED <<rows, used>>
     \/ /\ used.troubles < MaxTroubles /\ Spend("troubles")
        /\ \/ Retriable(r.job) /\ SetStatus(r.job, "pending")
           \/ UNCHANGED rows
        /\ To(w, "ambiguous")
  /\ UNCHANGED <<local, target, memory, files, settled>>

\* The job is read after a retry that was refused or had no answer.
ReadJobAfterRetry(w) ==
  LET r == worker[w] row == RowOf(r.job) IN
  /\ r.pc \in {"ambiguous", "conflict"} /\ Stable(w)
  /\ IF row.status \in {"pending", "running", "succeeded"}
     THEN Go(w, Judged(r, row)) /\ UNCHANGED files
     ELSE IF r.pc = "conflict" THEN Go(w, Replanned(r)) /\ UNCHANGED files
     ELSE EndRun(w, "aborted")
  /\ UNCHANGED <<local, server, settled, used>>

\* waitForJob
PollJob(w) ==
  LET r == worker[w] row == RowOf(r.job) IN
  /\ At(w, "poll") /\ Stable(w)
  /\ row.status \notin {"pending", "running"}
  /\ Go(w, Judged(r, row))
  /\ UNCHANGED <<local, server, files, settled, used>>

\* processPriorityJobs
TakePriorityJob(w) ==
  LET r == worker[w] IN
  /\ At(w, "priority")
  /\ IF r.todo = {} THEN To(w, "queue")
     ELSE \E job \in r.todo :
            LET row  == RowOf(job)
                rest == [r EXCEPT !.todo = @ \ {job}]
                key  == <<job[1], job[2], [end |-> job[3], text |-> row.text]>>
            IN  Go(w, IF row = None THEN rest
                      ELSE IF row.status = "succeeded"
                      THEN [rest EXCEPT !.completed = @ \cup {key}]
                      ELSE Judged([rest EXCEPT !.job = job, !.key = key], row))
  /\ UNCHANGED <<local, server, files, settled, used>>

\* The attempts of a request are used up, or the answer is one nobody expects.
RequestFails(w) ==
  /\ worker[w].pc \in Requesting /\ used.troubles < MaxTroubles
  /\ EndRun(w, "aborted")
  /\ Spend("troubles")
  /\ UNCHANGED <<local, server, settled>>

\* runBackfill: the queue has been gone through.
EndRound(w) ==
  LET r == worker[w] IN
  /\ At(w, "queue") /\ r.queue = {}
  /\ IF r.deferred = {}
     THEN EndRun(w, "completed")
     ELSE /\ Go(w, [r EXCEPT !.queue = r.deferred, !.deferred = {}])
          /\ UNCHANGED files
  /\ UNCHANGED <<local, server, settled, used>>

Kill(w) ==
  /\ Alive(w) /\ ~At(w, "start") /\ used.troubles < MaxTroubles
  /\ Stop(w, "killed")
  /\ Spend("troubles")
  /\ UNCHANGED <<local, server, files, settled>>

-----------------------------------------------------------------------------
Locking(w) ==
  \/ LookAtLock(w) \/ UnlinkStaleLock(w) \/ CreateLock(w) \/ WriteLock(w)

Working(w) ==
  \/ Locking(w)
  \/ TakePriorityJob(w) \/ TakeSession(w) \/ EndRound(w)
  \/ PlanSession(w) \/ SessionChanged(w)
  \/ PostArrives(w) \/ Revalidated(w)
  \/ RetryJob(w) \/ ReadJobAfterRetry(w) \/ PollJob(w)

\* Time passes without a change.
Aging(s) == Rest(s) \/ Expire(s)

Extraction(job) ==
  \/ StartJob(job) \/ CommitJob(job) \/ FailJob(job) \/ RequeueJob(job)

Next ==
  \/ \E w \in Workers : Working(w) \/ RequestFails(w) \/ Kill(w)
  \/ \E job \in Job : Extraction(job) \/ OperatorSupersedes(job)
  \/ \E s \in Sessions : Edit(s) \/ Aging(s) \/ OtherPost(s)

Spec == Init /\ [][Next]_vars

-----------------------------------------------------------------------------
TypeOK ==
  /\ \A s \in Sessions :
       /\ local[s].spans \in Seq(Content) /\ Len(local[s].spans) \in 1..LastSpan
       /\ local[s].revision \in 0..MaxEdits
       /\ {local[s].open, local[s].quiet, local[s].expired, local[s].gone} \subseteq BOOLEAN
  /\ rows \in [Sessions -> [Spans -> [Ends -> Row \cup {None}]]]
  /\ target \in [Sessions -> [Spans -> Content \cup {None}]]
  /\ memory \in [Sessions -> [Spans -> Content \cup {None}]]
  /\ lock = None \/ lock \in [by : Workers \cup {Gone}, written : BOOLEAN]
  /\ taken \subseteq Workers
  /\ \A w \in Workers : LET r == worker[w] IN
       /\ r.pc \in Pc
       /\ r.queue \subseteq Sessions /\ r.deferred \subseteq Sessions
       /\ r.queue \cap r.deferred = {}
       /\ r.session \in {0} \cup (Sessions \ (r.queue \cup r.deferred))
       /\ r.plan \in Seq(Planned) /\ r.index \in 1..(Len(r.plan) + 1)
       /\ r.rounds \in 0..(MaxRounds - 1)
       /\ r.status \in Status \cup {None}
       /\ r.completed \cup r.attempted \subseteq Snapshot
       /\ r.failures \subseteq Snapshot \cup {WholeSession(s) : s \in Sessions}
  /\ settled \subseteq Workers \X Sessions

(* README.md:231, "rechecks the SQLite revision before and throughout      *)
(* network/job waits, and replans if either local history or the server    *)
(* target changes": when a worker has completed a session, and nobody has  *)
(* changed it since, the server has committed every segment of it as it    *)
(* is, or the worker has recorded that segment's failure.                  *)
SettledIsStored == \A done \in settled :
  LET s == done[2] IN
  \A n \in DOMAIN local[s].spans :
    \/ memory[s][n] = local[s].spans[n] /\ target[s][n] = None
    \/ <<s, n, local[s].spans[n]>> \in worker[done[1]].failures

(* README.md:229, "A mode-0600 PID lock prevents concurrent workers": at   *)
(* any time at most one worker is past acquireLock and not at its end.     *)
OneWorkerWorks == \A v, w \in Workers :
  {worker[v].pc, worker[w].pc} \cap (LockSteps \cup Ended) = {} => v = w

\* Processes that run go on running, the server works through its queue, and
\* the sessions come to rest.
Fairness ==
  /\ \A w \in Workers : WF_vars(Working(w))
  /\ \A job \in Job : WF_vars(Extraction(job))
  /\ \A s \in Sessions : WF_vars(Aging(s))

FairSpec == Spec /\ Fairness

(* runBackfill: a worker comes to an end, however often jobs fail, however *)
(* sessions are put off and whatever the other worker does, once the local *)
(* database and the provider's balance are left alone.                     *)
BackfillEnds == \A w \in Workers : <>(worker[w].pc \in Ended)
=============================================================================
