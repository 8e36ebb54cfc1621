--------------------------- MODULE JobStoreProofs ---------------------------
(***************************************************************************)
(* What holds of the extraction queue for every number of segments,        *)
(* boundaries, contents, versions, replicas, leases, attempts and faults,  *)
(* in three parts.                                                         *)
(*                                                                         *)
(* Types come first.  Then why the queue is consistent: an inductive       *)
(* invariant of one segment's rows, target and summary, and that the queue *)
(* implements the abstract memory of a segment (SegmentMemory), as each of *)
(* its steps moves at most one segment's abstract state, and then as one   *)
(* of the five abstract actions does.  Last, why an attempt can be         *)
(* trusted: what leases, claims, sessions and attempt counters keep to     *)
(* while posts, recoveries, crashes and other replicas move the rows under *)
(* the attempts, and what may be committed therefore.                      *)
(***************************************************************************)
EXTENDS JobStore, TLAPS

-----------------------------------------------------------------------------
(* The rows the operations build are rows. *)

\* A target's reset row is a row of extraction_jobs.
LEMMA PendingRowType ==
  ASSUME NEW target \in Target
  PROVE  PendingRow(target) \in Job
  BY NoneIsNoRow DEF PendingRow, Target, Job, Status

\* Superseding or finishing a row keeps it one.
LEMMA EndedRowType ==
  ASSUME NEW row \in Job
  PROVE  SupersededRow(row) \in Job /\ SucceededRow(row) \in Job
  BY DEF SupersededRow, SucceededRow, Job, Status

\* Recovery builds a row, with or without the attempts of the interrupted one.
LEMMA RecoveredRowType ==
  ASSUME NEW row \in Job, NEW target \in Target
  PROVE  RecoveredRow(row, target) \in Job
<1>1. row.attempts \in Nat
  BY DEF Job
<1>2. PendingRow(target) \in Job
  BY PendingRowType
<1>3. QED
  BY <1>1, <1>2 DEF RecoveredRow, Job

\* A claimed row is a row, whether its payload was accepted or refused.
LEMMA ClaimedRowType ==
  ASSUME NEW row \in Job, NEW lease \in Leases, NEW intact
  PROVE  [row EXCEPT !.status = IF intact THEN "running" ELSE "failed",
                     !.attempts = @ + 1,
                     !.lease = IF intact THEN lease ELSE None] \in Job
<1>1. row.attempts + 1 \in Nat
  BY DEF Job
<1>2. CASE intact
  BY <1>1, <1>2 DEF Job, Status
<1>3. CASE ~intact
  BY <1>1, <1>3 DEF Job, Status
<1>4. QED
  BY <1>2, <1>3

\* A row inserted for a snapshot that needs no work is a row.
LEMMA InsertedRowType ==
  ASSUME NEW q \in Snapshot, NEW status \in Status, NEW generation \in Nat
  PROVE  [status |-> status, attempts |-> 0, lease |-> None, due |-> TRUE,
          generation |-> generation, source |-> q, payload |-> None] \in Job
  BY DEF Job

\* Raising the priority of the wanted snapshot keeps target and row theirs.
LEMMA RaisedType ==
  ASSUME NEW target \in Target, NEW row \in Job, NEW wanted \in Snapshot,
         NEW reset \in BOOLEAN
  PROVE  /\ [target EXCEPT !.source = wanted,
                            !.staged = IF reset THEN None ELSE @] \in Target
         /\ [row EXCEPT !.source.priority = wanted.priority,
                         !.payload = wanted,
                         !.status = IF reset THEN "pending" ELSE @,
                         !.attempts = IF reset THEN 0 ELSE @,
                         !.lease = IF reset THEN None ELSE @,
                         !.due = reset \/ @] \in Job
<1>1. wanted.priority \in Priorities
  BY DEF Snapshot
<1>2. [row.source EXCEPT !.priority = wanted.priority] \in Snapshot
  BY <1>1 DEF Job, Snapshot
<1>3. QED
  BY <1>2 DEF Job, Status, Target

\* A row that settles on the committed summary is a row.
LEMMA SettledRowType ==
  ASSUME NEW row \in Job, NEW q \in Snapshot, NEW generation \in Nat
  PROVE  [SucceededRow(row) EXCEPT
            !.generation = generation,
            !.source = IF q.priority > row.source.priority THEN q
                       ELSE [q EXCEPT !.priority = row.source.priority]] \in Job
<1>1. SucceededRow(row) \in Job
  BY EndedRowType
<1>2. row.source.priority \in Priorities
  BY DEF Job, Snapshot
<1>3. [q EXCEPT !.priority = row.source.priority] \in Snapshot
  BY <1>2 DEF Snapshot
<1>4. QED
  BY <1>1, <1>3 DEF Job

\* Writing one row keeps the table a table.
LEMMA SetRowType ==
  ASSUME TypeOK, NEW s \in Segments, NEW b \in Boundaries,
         NEW row \in Job, SetRow(s, b, row)
  PROVE  jobs' \in [Segments -> [Boundaries -> Job \cup {None}]]
  BY DEF TypeOK, SetRow

\* A row or target that is there has the type of one.
LEMMA RowsPresent ==
  ASSUME TypeOK, NEW s \in Segments
  PROVE  /\ \A b \in Boundaries : jobs[s][b] # None => jobs[s][b] \in Job
         /\ targets[s] # None => targets[s] \in Target
         /\ segments[s] # None => segments[s] \in Memory
  BY DEF TypeOK

-----------------------------------------------------------------------------
(* Types are preserved by every operation. *)

\* Every branch of a posted snapshot (Database.enqueue) writes rows and targets.
LEMMA EnqueueType ==
  ASSUME TypeOK, NEW s \in Segments, Enqueue(s)
  PROVE  TypeOK'
<1>1. PICK q \in Snapshot : \/ EnqueueIgnored(s, q)
                            \/ EnqueueRepeated(s, q)
                            \/ EnqueueSettled(s, q)
                            \/ EnqueueChanged(s, q)
  BY DEF Enqueue
<1>2. /\ q.boundary \in Boundaries /\ q.content \in Contents
      /\ q.version \in Versions /\ q.priority \in Priorities
  BY DEF Snapshot
<1>3. CASE EnqueueIgnored(s, q)
  <2> DEFINE row == [status |-> "superseded", attempts |-> 0, lease |-> None,
                     due |-> TRUE, generation |-> 0, source |-> q,
                     payload |-> None]
  <2>1. row \in Job
    BY InsertedRowType DEF Status
  <2>2. SetRow(s, q.boundary, row)
    BY <1>3 DEF EnqueueIgnored
  <2> HIDE DEF row
  <2>3. jobs' \in [Segments -> [Boundaries -> Job \cup {None}]]
    BY <2>1, <2>2, <1>2, SetRowType
  <2>4. QED
    BY <2>3, <1>3 DEF EnqueueIgnored, TypeOK, workers, bounds
<1>4. CASE EnqueueRepeated(s, q)
  <2> DEFINE target == targets[s]
             row == jobs[s][target.job]
             reset == ResetStaleExtraction(s)
             wanted == IF q.priority > target.source.priority
                       THEN [target.source EXCEPT !.priority = q.priority]
                       ELSE target.source
             newTarget == [target EXCEPT !.source = wanted,
                             !.staged = IF reset THEN None ELSE @]
             newRow == IF row.status = "running" THEN row
                       ELSE [row EXCEPT !.source.priority = wanted.priority,
                               !.payload = wanted,
                               !.status = IF reset THEN "pending" ELSE @,
                               !.attempts = IF reset THEN 0 ELSE @,
                               !.lease = IF reset THEN None ELSE @,
                               !.due = reset \/ @]
  <2>1. target \in Target
    BY <1>4, RowsPresent DEF EnqueueRepeated, TargetMatchesRequest
  <2>2. row \in Job
    BY <1>4, <2>1, RowsPresent DEF EnqueueRepeated, TargetMatchesRequest, Owned, Target
  <2>3. target.source \in Snapshot /\ target.job \in Boundaries
    BY <2>1 DEF Target
  <2>4. wanted \in Snapshot
    BY <2>3, <1>2 DEF Snapshot
  <2>5. reset \in BOOLEAN
    BY DEF ResetStaleExtraction, StagedEligible, HasStatus
  <2>6. newTarget \in Target /\ newRow \in Job
    <3> HIDE DEF target, row, wanted, reset
    <3>1. QED
      BY <2>1, <2>2, <2>4, <2>5, RaisedType
  <2>7. targets' = [targets EXCEPT ![s] = newTarget] /\ SetRow(s, target.job, newRow)
    BY <1>4 DEF EnqueueRepeated
  <2> HIDE DEF target, newTarget, newRow
  <2>8. jobs' \in [Segments -> [Boundaries -> Job \cup {None}]]
    BY <2>3, <2>6, <2>7, SetRowType
  <2>9. targets' \in [Segments -> Target \cup {None}]
    BY <2>6, <2>7 DEF TypeOK
  <2>10. QED
    BY <2>8, <2>9, <1>4 DEF EnqueueRepeated, TypeOK, workers, bounds
<1>5. CASE EnqueueSettled(s, q)
  <2> DEFINE row == jobs[s][q.boundary]
             newRow ==
               IF row = None
               THEN [status |-> "succeeded", attempts |-> 0, lease |-> None,
                     due |-> TRUE, generation |-> segments[s].generation,
                     source |-> q, payload |-> None]
               ELSE IF row.status = "running" THEN row
               ELSE [SucceededRow(row) EXCEPT
                       !.generation = segments[s].generation,
                       !.source = IF q.priority > row.source.priority THEN q
                                  ELSE [q EXCEPT !.priority = row.source.priority]]
  <2>1. segments[s].generation \in Nat
    BY <1>5, RowsPresent DEF EnqueueSettled, SettledRequest, Memory
  <2>2. newRow \in Job
    <3>1. CASE row = None
      BY <3>1, <2>1, InsertedRowType DEF Status
    <3>2. CASE row # None
      BY <3>2, <2>1, <1>2, RowsPresent, SettledRowType
    <3>3. QED
      BY <3>1, <3>2
  <2>3. SetRow(s, q.boundary, newRow)
    BY <1>5 DEF EnqueueSettled
  <2> HIDE DEF newRow
  <2>4. jobs' \in [Segments -> [Boundaries -> Job \cup {None}]]
    BY <2>2, <2>3, <1>2, SetRowType
  <2>5. QED
    BY <2>4, <1>5 DEF EnqueueSettled, TypeOK, workers, bounds
<1>6. CASE EnqueueChanged(s, q)
  <2>1. PICK g \in Generations :
          LET target == [job |-> q.boundary, source |-> q, generation |-> g,
                         staged |-> None, since |-> clock + 1]
          IN  /\ targets' = [targets EXCEPT ![s] = target]
              /\ jobs' = [jobs EXCEPT ![s] = [b \in Boundaries |->
                   IF b = q.boundary
                   THEN IF HasStatus(s, b, {"running"}) THEN jobs[s][b]
                        ELSE PendingRow(target)
                   ELSE IF HasStatus(s, b, Discardable)
                        THEN SupersededRow(jobs[s][b])
                        ELSE jobs[s][b]]]
    BY <1>6 DEF EnqueueChanged
  <2> DEFINE target == [job |-> q.boundary, source |-> q, generation |-> g,
                        staged |-> None, since |-> clock + 1]
             rows == [b \in Boundaries |->
                   IF b = q.boundary
                   THEN IF HasStatus(s, b, {"running"}) THEN jobs[s][b]
                        ELSE PendingRow(target)
                   ELSE IF HasStatus(s, b, Discardable)
                        THEN SupersededRow(jobs[s][b])
                        ELSE jobs[s][b]]
  <2>2. target \in Target
    BY <1>2, ConstantsAssumption DEF Target, TypeOK, Generations
  <2>3. targets' = [targets EXCEPT ![s] = target] /\ jobs' = [jobs EXCEPT ![s] = rows]
    BY <2>1
  <2> HIDE DEF target
  <2>4. rows \in [Boundaries -> Job \cup {None}]
    BY <2>2, PendingRowType, EndedRowType DEF TypeOK, HasStatus
  <2> HIDE DEF rows
  <2>5. QED
    BY <2>2, <2>3, <2>4, <1>6 DEF EnqueueChanged, TypeOK, workers, bounds
<1>7. QED
  BY <1>1, <1>3, <1>4, <1>5, <1>6

\* The operator's retry and supersede write rows and targets.
LEMMA RepairType ==
  ASSUME TypeOK, NEW s \in Segments, Repair(s)
  PROVE  TypeOK'
<1>1. PICK b \in Boundaries : \/ RetryFailedJob(s, b, FALSE)
                              \/ RetryFailedJob(s, b, TRUE)
                              \/ SupersedeFailedJob(s, b)
  BY DEF Repair
<1>2. /\ jobs[s][b] \in Job
      /\ targets[s] \in Target
  BY <1>1, RowsPresent
  DEF RetryFailedJob, SupersedeFailedJob, LockCurrentFailedTargetJob, HasStatus,
      FailedTargetMatchesJob
<1>3. CASE \E restart \in BOOLEAN : RetryFailedJob(s, b, restart)
  <2>1. PendingRow(targets[s]) \in Job
    BY <1>2, PendingRowType
  <2>2. jobs' \in [Segments -> [Boundaries -> Job \cup {None}]]
    BY <1>3, <2>1, SetRowType DEF RetryFailedJob
  <2>3. targets' \in [Segments -> Target \cup {None}]
    <3>1. [targets[s] EXCEPT !.staged = None] \in Target
      BY <1>2 DEF Target
    <3>2. QED
      BY <3>1, <1>3 DEF TypeOK, RetryFailedJob
  <2>4. QED
    BY <2>2, <2>3, <1>3 DEF RetryFailedJob, TypeOK, workers, bounds
<1>4. CASE SupersedeFailedJob(s, b)
  <2>1. SupersededRow(jobs[s][b]) \in Job
    BY <1>2, EndedRowType
  <2>2. jobs' \in [Segments -> [Boundaries -> Job \cup {None}]]
    BY <1>4, <2>1, SetRowType DEF SupersedeFailedJob
  <2>3. QED
    BY <2>2, <1>4 DEF SupersedeFailedJob, TypeOK, workers, bounds
<1>5. QED
  BY <1>1, <1>3, <1>4

\* The end of a retry delay leaves the tables tables.
LEMMA BackoffType ==
  ASSUME TypeOK, NEW s \in Segments, NEW b \in Boundaries, BackoffElapses(s, b)
  PROVE  TypeOK'
<1>1. jobs[s][b] \in Job
  BY RowsPresent DEF BackoffElapses, HasStatus
<1>2. [jobs[s][b] EXCEPT !.due = TRUE] \in Job
  BY <1>1 DEF Job
<1>3. jobs' = [jobs EXCEPT ![s][b] = [jobs[s][b] EXCEPT !.due = TRUE]]
  BY DEF BackoffElapses
<1>4. QED
  BY <1>2, <1>3 DEF BackoffElapses, TypeOK, workers, bounds

\* Quarantine keeps the rows of a group rows.
LEMMA QuarantinedRowsType ==
  ASSUME TypeOK, NEW s \in Segments
  PROVE  QuarantinedRows(s) \in [Boundaries -> Job \cup {None}]
<1>1. ASSUME NEW b \in Boundaries, HasStatus(s, b, {"pending", "running"})
      PROVE  [jobs[s][b] EXCEPT !.status = "failed", !.lease = None] \in Job
  <2>1. jobs[s][b] \in Job
    BY <1>1, RowsPresent DEF HasStatus
  <2>2. QED
    BY <2>1 DEF Job, Status
<1>2. QED
  BY <1>1 DEF QuarantinedRows, TypeOK

\* Taking the lock, recovering a segment and giving the lock up keep types.
LEMMA LeadType ==
  ASSUME TypeOK, Lead
  PROVE  TypeOK'
<1>1. ASSUME NEW r \in Replicas, AcquireLock(r)
      PROVE  TypeOK'
  BY <1>1 DEF AcquireLock, TypeOK, store, bounds
<1>2. ASSUME NEW s \in Segments, RecoverSegment(s)
      PROVE  TypeOK'
  <2> DEFINE rows == [b \in Boundaries |->
               IF ~HasStatus(s, b, {"running"}) THEN jobs[s][b]
               ELSE IF targets[s] # None /\ targets[s].job = b
                    THEN RecoveredRow(jobs[s][b], targets[s])
                    ELSE SupersededRow(jobs[s][b])]
  <2>1. rows \in [Boundaries -> Job \cup {None}]
    BY RowsPresent, RecoveredRowType, EndedRowType DEF TypeOK, HasStatus
  <2>2. jobs' = [jobs EXCEPT ![s] = IF ~Owned(s) THEN QuarantinedRows(s) ELSE rows]
    BY <1>2 DEF RecoverSegment
  <2> HIDE DEF rows
  <2>3. jobs' \in [Segments -> [Boundaries -> Job \cup {None}]]
    BY <2>1, <2>2, QuarantinedRowsType DEF TypeOK
  <2>4. QED
    BY <2>3, <1>2 DEF RecoverSegment, TypeOK, bounds
<1>3. CASE BeginWork
  BY <1>3 DEF BeginWork, TypeOK, store, bounds
<1>4. CASE ReleaseLock
  BY <1>4 DEF ReleaseLock, TypeOK, store, bounds
<1>5. QED
  BY <1>1, <1>2, <1>3, <1>4 DEF Lead

\* Selecting, dropping and claiming a row keep types.
LEMMA ClaimType ==
  ASSUME TypeOK, leader \in Replicas \/ picked = None, Claim
  PROVE  TypeOK'
<1>1. ASSUME NEW s \in Segments, SelectJob(s)
      PROVE  TypeOK'
  <2>1. targets[s] \in Target /\ targets[s].job \in Boundaries
    BY <1>1, RowsPresent DEF SelectJob, Candidate, Eligible, Target
  <2>2. jobs[s][targets[s].job] \in Job
    BY <1>1, <2>1, RowsPresent DEF SelectJob, Candidate, Eligible, HasStatus
  <2>3. StagedEligible(targets[s]) => targets[s].staged.extraction \in Extraction
    BY <2>1 DEF StagedEligible, Target, Staged
  <2>4. picked' \in Pick
    BY <1>1, <2>1, <2>2, <2>3 DEF SelectJob, Pick
  <2>5. QED
    BY <2>4, <1>1 DEF SelectJob, TypeOK, store, bounds
<1>2. CASE DropPicked
  BY <1>2 DEF DropPicked, TypeOK, store, bounds
<1>3. ASSUME NEW lease \in Leases, ClaimPicked(lease)
      PROVE  TypeOK'
  <2> DEFINE s == picked.segment
             b == picked.boundary
             row == jobs[s][b]
             intact == row.payload # None /\ row.payload = picked.row.source
             newRow == [row EXCEPT
                         !.status = IF intact THEN "running" ELSE "failed",
                         !.attempts = @ + 1,
                         !.lease = IF intact THEN lease ELSE None]
             task == [replica |-> leader, segment |-> s, lease |-> lease,
                      generation |-> row.generation,
                      source |-> IdentityOf(row.source),
                      attempts |-> row.attempts + 1,
                      extraction |-> picked.extraction]
  <2>1. /\ picked \in Pick /\ s \in Segments /\ b \in Boundaries
        /\ picked.extraction \in Extraction \cup {None}
        /\ leader \in Replicas
    BY <1>3 DEF ClaimPicked, TypeOK, Pick
  <2>2. Owned(s) => row \in Job
    BY <1>3, <2>1, RowsPresent DEF ClaimPicked, Refreshed
  <2>3. Owned(s) => newRow \in Job
    BY <2>2, ClaimedRowType
  <2>4. Owned(s) => task \in Task
    <3>1. ASSUME Owned(s) PROVE IdentityOf(row.source) \in Identity
      BY <3>1, <2>2 DEF IdentityOf, Identity, Job, Snapshot
    <3>2. QED
      BY <3>1, <2>1, <2>2 DEF Task, Job
  <2>5. /\ jobs' = IF ~Owned(s) THEN [jobs EXCEPT ![s] = QuarantinedRows(s)]
                   ELSE [jobs EXCEPT ![s][b] = newRow]
        /\ tasks' \in {tasks, tasks \cup {task}}
        /\ ~Owned(s) => tasks' = tasks
    BY <1>3 DEF ClaimPicked
  <2> HIDE DEF newRow, task
  <2>6. jobs' \in [Segments -> [Boundaries -> Job \cup {None}]]
    BY <2>1, <2>3, <2>5, QuarantinedRowsType DEF TypeOK
  <2>7. tasks' \subseteq Task
    BY <2>4, <2>5 DEF TypeOK
  <2>8. QED
    BY <2>6, <2>7, <1>3 DEF ClaimPicked, TypeOK, bounds
<1>4. QED
  BY <1>1, <1>2, <1>3 DEF Claim

\* Every end of an attempt (process of the worker) keeps types.
LEMMA AttemptType ==
  ASSUME TypeOK, NEW t \in tasks, Attempt(t)
  PROVE  TypeOK'
<1>1. /\ t \in Task /\ t.segment \in Segments /\ t.source \in Identity
      /\ t.source.boundary \in Boundaries /\ t.source.content \in Contents
      /\ t.generation \in Nat /\ t.extraction \in Extraction \cup {None}
  BY DEF TypeOK, Task, Identity
<1>2. /\ HoldsLease(t) => RowOf(t) \in Job
      /\ TargetMatchesJob(t) => targets[t.segment] \in Target
  BY <1>1, RowsPresent DEF HoldsLease, RowOf, TargetMatchesJob
<1>3. ASSUME NEW text \in Texts, PublishExtraction(t, text)
      PROVE  TypeOK'
  <2>1. Extracted(t, text) \in Extraction
    BY <1>1 DEF Extracted, Extraction
  <2> DEFINE staged == [extraction |-> Extracted(t, text), validation |-> validation]
             newTask == [t EXCEPT !.extraction = Extracted(t, text)]
             newTarget == [targets[t.segment] EXCEPT !.staged = staged]
  <2>2. newTask \in Task
    BY <1>1, <2>1 DEF Task
  <2>3. newTarget \in Target
    <3>1. staged \in Staged
      BY <2>1 DEF Staged, TypeOK
    <3>2. QED
      BY <3>1, <1>2, <1>3 DEF PublishExtraction, Current, Target
  <2>4. targets' = [targets EXCEPT ![t.segment] = newTarget]
    BY <1>3 DEF PublishExtraction
  <2> HIDE DEF newTask, newTarget, staged
  <2>5. targets' \in [Segments -> Target \cup {None}]
    BY <1>1, <2>3, <2>4 DEF TypeOK
  <2>6. tasks' \subseteq Task
    BY <1>3, <2>2 DEF PublishExtraction, newTask, TypeOK
  <2>7. QED
    BY <2>5, <2>6, <1>3 DEF PublishExtraction, TypeOK, workers, bounds
<1>4. CASE CommitResolution(t)
  <2>1. jobs' \in [Segments -> [Boundaries -> Job \cup {None}]]
    BY <1>1, <1>2, <1>4, EndedRowType, SetRowType DEF CommitResolution, Current
  <2>2. segments' \in [Segments -> Memory \cup {None}]
    <3>1. t.extraction \in Extraction
      BY <1>1, <1>4 DEF CommitResolution
    <3>2. [source |-> t.source, generation |-> t.generation,
           extraction |-> t.extraction] \in Memory
      BY <1>1, <3>1 DEF Memory
    <3>3. QED
      BY <3>2, <1>1, <1>4 DEF CommitResolution, TypeOK
  <2>3. QED
    BY <2>1, <2>2, <1>4 DEF CommitResolution, TypeOK, workers, bounds
<1>5. ASSUME NEW terminal \in BOOLEAN, FinishFailedAttempt(t, terminal)
      PROVE  TypeOK'
  <2> DEFINE retry == ~terminal /\ ShouldRetry(t)
             newRow == [RowOf(t) EXCEPT !.status = IF retry THEN "pending" ELSE "failed",
                            !.lease = None, !.due = ~retry]
  <2>1. newRow \in Job
    BY <1>2, <1>5 DEF FinishFailedAttempt, Current, Job, Status
  <2>2. SetRow(t.segment, t.source.boundary, newRow)
    BY <1>5 DEF FinishFailedAttempt
  <2> HIDE DEF newRow
  <2>3. jobs' \in [Segments -> [Boundaries -> Job \cup {None}]]
    BY <1>1, <2>1, <2>2, SetRowType
  <2>4. targets' \in [Segments -> Target \cup {None}]
    BY <1>5 DEF FinishFailedAttempt, TypeOK
  <2>5. QED
    BY <2>3, <2>4, <1>5 DEF FinishFailedAttempt, TypeOK, workers, bounds
<1>6. CASE RequeueLatestTarget(t)
  <2> DEFINE s == t.segment
             b == t.source.boundary
             target == targets[s]
             rows == [c \in Boundaries |->
               IF target # None /\ c = target.job
                  /\ (c = b \/ ~HasStatus(s, c, {"running"}))
               THEN PendingRow(target)
               ELSE IF c = b THEN SupersededRow(jobs[s][b])
               ELSE jobs[s][c]]
  <2>1. jobs[s][b] \in Job
    BY <1>2, <1>6 DEF RequeueLatestTarget, RowOf
  <2>2. target # None => PendingRow(target) \in Job
    BY <1>1, RowsPresent, PendingRowType
  <2>3. SupersededRow(jobs[s][b]) \in Job
    BY <2>1, EndedRowType
  <2>4. rows \in [Boundaries -> Job \cup {None}]
    BY <1>1, <2>2, <2>3 DEF TypeOK
  <2>5. jobs' = [jobs EXCEPT ![s] = rows]
    BY <1>6 DEF RequeueLatestTarget
  <2> HIDE DEF rows
  <2>6. QED
    BY <2>4, <2>5, <1>6 DEF RequeueLatestTarget, TypeOK, workers, bounds
<1>7. CASE StaleAttempt(t)
  BY <1>7 DEF StaleAttempt, TypeOK, store, workers, bounds
<1>8. QED
  BY <1>3, <1>4, <1>5, <1>6, <1>7 DEF Attempt

\* Crashes, stops, lost connections and deploys keep types.
LEMMA FaultType ==
  ASSUME TypeOK, Fault
  PROVE  TypeOK'
<1>1. CASE StopWorker
  BY <1>1 DEF StopWorker, TypeOK, store
<1>2. CASE LoseConnection
  BY <1>2 DEF LoseConnection, NoLeader, TypeOK, store
<1>3. ASSUME NEW r \in Replicas, Crash(r)
      PROVE  TypeOK'
  BY <1>3 DEF Crash, NoLeader, TypeOK, store
<1>4. CASE DeployNewValidation
  BY <1>4 DEF DeployNewValidation, NoLeader, TypeOK, store
<1>5. ASSUME NEW t \in tasks, AttemptLost(t)
      PROVE  TypeOK'
  BY <1>5 DEF AttemptLost, TypeOK, store, workers
<1>6. QED
  BY <1>1, <1>2, <1>3, <1>4, <1>5 DEF Fault

-----------------------------------------------------------------------------
(* A row is selected and claimed by the replica that leads, while it works   *)
(* or while it stops: the type of a claim rests on this.                     *)

PickHasLeader ==
  /\ picked # None => leader # None /\ phase \in {"working", "stopping"}
  /\ leader = None <=> phase = "idle"

\* Only the leader has a row selected, whatever step is taken.
LEMMA PickHasLeaderStep ==
  ASSUME TypeOK, PickHasLeader, Next
  PROVE  PickHasLeader'
<1> USE ConstantsAssumption DEF TypeOK, PickHasLeader
<1>1. ASSUME NEW s \in Segments, Enqueue(s) \/ Repair(s)
      PROVE  PickHasLeader'
  BY <1>1 DEF Enqueue, EnqueueIgnored, EnqueueRepeated, EnqueueSettled, EnqueueChanged,
              Repair, RetryFailedJob, SupersedeFailedJob, workers
<1>2. ASSUME NEW s \in Segments, NEW b \in Boundaries, BackoffElapses(s, b)
      PROVE  PickHasLeader'
  BY <1>2 DEF BackoffElapses, workers
<1>3. CASE Lead
  BY <1>3 DEF Lead, AcquireLock, RecoverSegment, BeginWork, ReleaseLock
<1>4. CASE Claim
  BY <1>4 DEF Claim, SelectJob, DropPicked, ClaimPicked
<1>5. ASSUME NEW t \in tasks, Attempt(t)
      PROVE  PickHasLeader'
  BY <1>5 DEF Attempt, PublishExtraction, CommitResolution, FinishFailedAttempt,
              RequeueLatestTarget, StaleAttempt, workers
<1>6. CASE Fault
  BY <1>6 DEF Fault, StopWorker, LoseConnection, Crash, DeployNewValidation,
              AttemptLost, NoLeader, workers
<1>7. QED
  BY <1>1, <1>2, <1>3, <1>4, <1>5, <1>6 DEF Next

\* An empty database and idle replicas are typed.
LEMMA InitTyped == Init => TypeOK /\ PickHasLeader
  BY DEF Init, TypeOK, PickHasLeader

\* No step of the service leaves the types.
LEMMA TypeStep ==
  ASSUME TypeOK, PickHasLeader, [Next]_vars
  PROVE  TypeOK' /\ PickHasLeader'
<1>1. CASE Next
  <2>1. picked # None => leader \in Replicas
    BY DEF TypeOK, PickHasLeader
  <2>2. TypeOK'
    BY <1>1, <2>1, EnqueueType, RepairType, BackoffType, LeadType, ClaimType,
       AttemptType, FaultType DEF Next
  <2>3. QED
    BY <1>1, <2>2, PickHasLeaderStep
<1>2. CASE UNCHANGED vars
  BY <1>2 DEF vars, store, workers, bounds, TypeOK, PickHasLeader
<1>3. QED
  BY <1>1, <1>2

\* Every row, target, summary, pick and claim stays one of its type, through
\* every post, repair, claim, recovery, fault and end of an attempt.
THEOREM TypeCorrect == Spec => []TypeOK
<1>1. TypeOK /\ PickHasLeader /\ [Next]_vars => TypeOK' /\ PickHasLeader'
  BY TypeStep
<1>2. QED
  BY <1>1, InitTyped, PTL DEF Spec

-----------------------------------------------------------------------------
(* The rows, target and summary of a segment. *)

Rows  == [Boundaries -> Job \cup {None}]
Alive == {"pending", "running", "failed"}

Is(rows, b, states) == rows[b] # None /\ rows[b].status \in states

(* The row is the target's snapshot, up to its priority. *)
Wants(target, b, row) ==
  /\ target # None
  /\ target.job = b
  /\ target.generation = row.generation
  /\ SameSource(target.source, row.source)

(* A row's key, status, lease and payload agree. *)
RowFits(b, row) ==
  /\ row.source.boundary = b
  /\ (row.status = "running") <=> (row.lease # None)
  /\ row.payload = IF row.status \in Alive THEN row.source ELSE None

(* Whatever waits is the target's snapshot, whatever runs has the target    *)
(* behind itself, and no row is ahead of the target.                        *)
RowsAgree(rows, target) == \A b \in Boundaries : rows[b] # None =>
  /\ RowFits(b, rows[b])
  /\ rows[b].status \in {"pending", "failed"} => Wants(target, b, rows[b])
  /\ rows[b].status = "running" =>
       /\ target # None
       /\ target.job = b \/ Is(rows, target.job, {"pending"})
  /\ target # None => rows[b].generation <= target.generation

(* The target names its row, which is alive, and is newer than the summary. *)
TargetAgrees(rows, target, summary) == target # None =>
  /\ target.job = target.source.boundary
  /\ Is(rows, target.job, Alive)
  /\ summary # None => summary.generation < target.generation

OneRuns(rows) == \A b, c \in Boundaries :
  Is(rows, b, {"running"}) /\ Is(rows, c, {"running"}) => b = c

Consistent(rows, target, summary) ==
  /\ RowsAgree(rows, target)
  /\ TargetAgrees(rows, target, summary)
  /\ OneRuns(rows)

SegmentInv(s) == Consistent(jobs[s], targets[s], segments[s])

(* While a row is selected nothing of its segment is started or fails, so  *)
(* its target can only be replaced by a newer one.                         *)
PickInv == picked # None =>
  LET rows   == jobs[picked.segment]
      target == targets[picked.segment]
  IN  /\ picked.row.payload = picked.row.source
      /\ target # None /\ Is(rows, target.job, {"pending"})
      /\ \A b \in Boundaries : ~Is(rows, b, {"running", "failed"})
      /\ picked.row.generation <= target.generation
      /\ picked.row.generation = target.generation =>
           /\ target.job = picked.boundary
           /\ picked.extraction = IF StagedEligible(target)
                                  THEN target.staged.extraction ELSE None

-----------------------------------------------------------------------------
(* What each change of a segment's rows does to its consistency.           *)


\* A reset row fits its target.
LEMMA PendingRowFits ==
  ASSUME NEW target \in Target, target.job = target.source.boundary
  PROVE  LET row == PendingRow(target)
         IN  /\ row \in Job /\ row # None
             /\ row.status = "pending" /\ row.generation = target.generation
             /\ RowFits(target.job, row) /\ Wants(target, target.job, row)
  BY NoneIsNoRow, PendingRowType
  DEF PendingRow, RowFits, Wants, SameSource, Alive, Target

\* A row that is over fits its key.
LEMMA EndedRowFits ==
  ASSUME NEW row \in Job, NEW b, row.source.boundary = b
  PROVE  /\ RowFits(b, SupersededRow(row)) /\ SupersededRow(row) # None
         /\ SupersededRow(row).status = "superseded"
         /\ SupersededRow(row).generation = row.generation
         /\ RowFits(b, SucceededRow(row)) /\ SucceededRow(row) # None
         /\ SucceededRow(row).status = "succeeded"
         /\ SucceededRow(row).generation = row.generation
  BY NoneIsNoRow, EndedRowType DEF SupersededRow, SucceededRow, RowFits, Alive, Job

\* A changed snapshot, newer than everything, takes over its segment.
LEMMA Replaced ==
  ASSUME NEW rows \in Rows, NEW new \in Rows, NEW b \in Boundaries,
         NEW old, NEW target \in Target, NEW summary,
         Consistent(rows, old, summary),
         target.job = b, target.source.boundary = b,
         \A c \in Boundaries : rows[c] # None => rows[c].generation < target.generation,
         summary # None => summary.generation < target.generation,
         new[b] = IF Is(rows, b, {"running"}) THEN rows[b] ELSE PendingRow(target),
         \A c \in Boundaries \ {b} :
           new[c] = IF Is(rows, c, {"pending", "failed"}) THEN SupersededRow(rows[c])
                    ELSE rows[c]
  PROVE  Consistent(new, target, summary)
<1>1. /\ target # None /\ target.generation \in Nat
      /\ \A c \in Boundaries : rows[c] # None =>
           /\ rows[c] \in Job /\ rows[c].generation \in Nat
           /\ RowFits(c, rows[c]) /\ rows[c].source.boundary = c
  BY NoneIsNoRow DEF Target, Rows, Job, Consistent, RowsAgree, RowFits
<1>2. ASSUME ~Is(rows, b, {"running"})
      PROVE  /\ new[b] # None /\ new[b].status = "pending"
             /\ new[b].generation = target.generation
             /\ RowFits(b, new[b]) /\ Wants(target, b, new[b])
  BY <1>2, PendingRowFits
<1>3. ASSUME NEW c \in Boundaries \ {b}, Is(rows, c, {"pending", "failed"})
      PROVE  /\ new[c] # None /\ new[c].status = "superseded"
             /\ new[c].generation = rows[c].generation /\ RowFits(c, new[c])
  BY <1>1, <1>3, EndedRowFits DEF Is
<1>4. ASSUME NEW c \in Boundaries \ {b}, ~Is(rows, c, {"pending", "failed"})
      PROVE  new[c] = rows[c] /\ ~Is(new, c, {"pending", "failed"})
  BY <1>4 DEF Is
<1>5. Is(rows, b, {"running"}) => new[b] = rows[b]
  OBVIOUS
<1>6. OneRuns(new)
  BY <1>2, <1>3, <1>4, <1>5 DEF OneRuns, Is, Consistent
<1>7. TargetAgrees(new, target, summary)
  BY <1>2, <1>5 DEF TargetAgrees, Is, Alive
<1>8. ASSUME NEW c \in Boundaries, new[c] # None
      PROVE  RowFits(c, new[c]) /\ new[c].generation <= target.generation
  <2>1. CASE c = b
    <3>1. CASE Is(rows, b, {"running"})
      <4>1. rows[b].generation < target.generation
        BY <1>1, <3>1 DEF Is
      <4>2. QED
        BY <1>1, <1>5, <2>1, <3>1, <4>1 DEF Is
    <3>2. CASE ~Is(rows, b, {"running"})
      BY <1>1, <1>2, <2>1, <3>2
    <3>3. QED
      BY <3>1, <3>2
  <2>2. CASE c # b
    <3>1. CASE Is(rows, c, {"pending", "failed"})
      <4>1. rows[c].generation < target.generation
        BY <1>1, <3>1 DEF Is
      <4>2. QED
        BY <1>1, <1>3, <2>2, <3>1, <4>1 DEF Is
    <3>2. CASE ~Is(rows, c, {"pending", "failed"})
      BY <1>1, <1>4, <1>8, <2>2, <3>2
    <3>3. QED
      BY <3>1, <3>2
  <2>3. QED
    BY <2>1, <2>2
<1>9. ASSUME NEW c \in Boundaries, new[c] # None,
             new[c].status \in {"pending", "failed"}
      PROVE  Wants(target, c, new[c])
  BY <1>2, <1>3, <1>4, <1>5, <1>9 DEF Is
<1>10. ASSUME NEW c \in Boundaries, new[c] # None, new[c].status = "running"
       PROVE  target.job = c \/ Is(new, target.job, {"pending"})
  <2>1. CASE c = b
    BY <2>1
  <2>2. CASE c # b
    <3>1. Is(rows, c, {"running"})
      BY <1>3, <1>4, <1>10, <2>2 DEF Is
    <3>2. ~Is(rows, b, {"running"})
      BY <3>1, <2>2 DEF Consistent, OneRuns
    <3>3. QED
      BY <3>2, <1>2 DEF Is
  <2>3. QED
    BY <2>1, <2>2
<1>11. QED
  BY <1>1, <1>6, <1>7, <1>8, <1>9, <1>10 DEF Consistent, RowsAgree

\* Raising the priority of what is wanted, whatever becomes of its waiting row.
LEMMA Raised ==
  ASSUME NEW rows \in Rows, NEW new \in Rows, NEW b \in Boundaries,
         NEW old \in Target, NEW target \in Target, NEW summary,
         Consistent(rows, old, summary),
         b = old.job, target.job = b, target.generation = old.generation,
         SameSource(target.source, old.source),
         \A c \in Boundaries \ {b} : new[c] = rows[c],
         new[b] # None,
         \/ new[b] = rows[b] /\ rows[b].status \in {"running"}
         \/ /\ rows[b].status # "running"
            /\ new[b].source = [rows[b].source EXCEPT !.priority = target.source.priority]
            /\ new[b].payload = target.source
            /\ new[b].generation = rows[b].generation
            /\ new[b].status \in {"pending", rows[b].status}
            /\ new[b].lease \in {None, rows[b].lease}
  PROVE  Consistent(new, target, summary)
<1>1. /\ old # None /\ target # None /\ target.source \in Snapshot
      /\ rows[b] # None /\ rows[b].status \in Alive
      /\ rows[b].source \in Snapshot
  BY NoneIsNoRow DEF Target, Rows, Job, Consistent, TargetAgrees, Is
<1>2. RowFits(b, rows[b])
  BY <1>1 DEF Consistent, RowsAgree
<1>3. \A c \in Boundaries : \A row : Wants(old, c, row) => Wants(target, c, row)
  BY <1>1 DEF Wants, SameSource
<1>4. ASSUME rows[b].status # "running"
      PROVE  /\ RowFits(b, new[b]) /\ Wants(target, b, new[b])
             /\ new[b].status \in {"pending", "failed"}
             /\ rows[b].status = "pending" => new[b].status = "pending"
  <2>1. rows[b].status \in {"pending", "failed"} /\ rows[b].lease = None
    BY <1>1, <1>2, <1>4 DEF Alive, RowFits
  <2>2. Wants(old, b, rows[b])
    BY <1>1, <2>1 DEF Consistent, RowsAgree
  <2>3. new[b].source = target.source
    <3>1. SameSource(rows[b].source, target.source)
      BY <2>2 DEF Wants, SameSource
    <3>2. new[b].source = [rows[b].source EXCEPT !.priority = target.source.priority]
      BY <1>4
    <3>3. QED
      BY <3>1, <3>2, <1>1 DEF SameSource, Snapshot
  <2>4. QED
    BY <1>1, <1>2, <1>4, <2>1, <2>2, <2>3 DEF RowFits, Wants, SameSource, Alive
<1>5. Is(rows, b, {"running"}) => new[b] = rows[b]
  BY DEF Is
<1>6. OneRuns(new)
  BY <1>4, <1>5 DEF OneRuns, Is, Consistent
<1>7. TargetAgrees(new, target, summary)
  BY <1>1, <1>4, <1>5 DEF TargetAgrees, Is, Alive, Consistent, SameSource
<1>8. \A c \in Boundaries : new[c] # None =>
        /\ RowFits(c, new[c])
        /\ new[c].status \in {"pending", "failed"} => Wants(target, c, new[c])
        /\ new[c].generation <= target.generation
  BY <1>1, <1>2, <1>3, <1>4 DEF Consistent, RowsAgree
<1>9. ASSUME NEW c \in Boundaries, new[c] # None, new[c].status = "running"
      PROVE  target.job = c \/ Is(new, target.job, {"pending"})
  BY <1>1, <1>4, <1>9 DEF Consistent, RowsAgree, Is
<1>10. QED
  BY <1>1, <1>6, <1>7, <1>8, <1>9 DEF Consistent, RowsAgree

\* One row moves on while the target stays what it was.
LEMMA Moved ==
  ASSUME NEW rows \in Rows, NEW new \in Rows, NEW b \in Boundaries,
         NEW old \in Target \cup {None}, NEW target \in Target \cup {None},
         NEW summary, Consistent(rows, old, summary),
         old = None <=> target = None,
         target # None =>
           /\ target.job = old.job /\ target.generation = old.generation
           /\ target.source = old.source
           /\ new[b].generation <= target.generation
           /\ target.job = b => new[b].status \in Alive,
         \A c \in Boundaries \ {b} : new[c] = rows[c],
         new[b] # None, RowFits(b, new[b]),
         new[b].status \in {"pending", "failed"} => Wants(target, b, new[b]),
         new[b].status = "running" => target # None /\ target.job = b,
         \A c \in Boundaries \ {b} : Is(rows, c, {"running"}) =>
           /\ new[b].status # "running"
           /\ Is(rows, b, {"pending"}) => new[b].status = "pending"
  PROVE  Consistent(new, target, summary)
<1>1. \A c \in Boundaries : \A row : Wants(old, c, row) => Wants(target, c, row)
  BY DEF Wants
<1>2. OneRuns(new)
  BY DEF OneRuns, Is, Consistent
<1>3. TargetAgrees(new, target, summary)
  BY DEF TargetAgrees, Is, Consistent, Target
<1>4. \A c \in Boundaries : new[c] # None =>
        /\ RowFits(c, new[c])
        /\ new[c].status \in {"pending", "failed"} => Wants(target, c, new[c])
        /\ target # None => new[c].generation <= target.generation
  BY <1>1 DEF Consistent, RowsAgree
<1>5. ASSUME NEW c \in Boundaries, new[c] # None, new[c].status = "running"
      PROVE  /\ target # None
             /\ target.job = c \/ Is(new, target.job, {"pending"})
  <2>1. CASE c = b
    BY <1>5, <2>1
  <2>2. CASE c # b
    <3>1. Is(rows, c, {"running"})
      BY <1>5, <2>2 DEF Is
    <3>2. old # None /\ (old.job = c \/ Is(rows, old.job, {"pending"}))
      BY <3>1 DEF Consistent, RowsAgree, Is
    <3>3. old.job # b /\ Is(rows, old.job, {"pending"}) => Is(new, old.job, {"pending"})
      BY <3>2 DEF Is, Target
    <3>4. Is(rows, b, {"pending"}) => Is(new, b, {"pending"})
      BY <2>2, <3>1 DEF Is
    <3>5. QED
      BY <3>2, <3>3, <3>4
  <2>3. QED
    BY <2>1, <2>2
<1>6. QED
  BY <1>2, <1>3, <1>4, <1>5 DEF Consistent, RowsAgree

\* The target's own row ends, and the target with it.
LEMMA Ended ==
  ASSUME NEW rows \in Rows, NEW new \in Rows, NEW b \in Boundaries,
         NEW old \in Target, NEW summary,
         Consistent(rows, old, summary), old.job = b,
         Is(rows, b, {"running", "failed"}),
         \A c \in Boundaries \ {b} : new[c] = rows[c],
         new[b] # None, RowFits(b, new[b]), new[b].status \notin Alive
  PROVE  \A later : Consistent(new, None, later)
<1>1. \A c \in Boundaries \ {b} : ~Is(rows, c, Alive)
  BY NoneIsNoRow DEF Consistent, RowsAgree, OneRuns, Is, Wants, Alive
<1>2. OneRuns(new) /\ \A later : TargetAgrees(new, None, later)
  BY <1>1 DEF OneRuns, TargetAgrees, Is, Alive
<1>3. \A c \in Boundaries : new[c] # None =>
        RowFits(c, new[c]) /\ new[c].status \notin Alive
  BY <1>1 DEF Consistent, RowsAgree, Is
<1>4. QED
  BY <1>2, <1>3 DEF Consistent, RowsAgree, Alive

\* Recovery: the interrupted row waits again for its target, or is over.
LEMMA Recovered ==
  ASSUME NEW rows \in Rows, NEW new \in Rows,
         NEW target \in Target \cup {None}, NEW summary,
         Consistent(rows, target, summary),
         \A c \in Boundaries :
           new[c] = IF ~Is(rows, c, {"running"}) THEN rows[c]
                    ELSE IF target # None /\ target.job = c
                         THEN RecoveredRow(rows[c], target)
                         ELSE SupersededRow(rows[c])
  PROVE  Consistent(new, target, summary) /\ \A c \in Boundaries : ~Is(new, c, {"running"})
<1>1. ASSUME NEW c \in Boundaries, Is(rows, c, {"running"})
      PROVE  /\ rows[c] \in Job /\ RowFits(c, rows[c]) /\ target \in Target
             /\ rows[c].generation <= target.generation
             /\ target.job = target.source.boundary
             /\ target.job \in Boundaries
             /\ target.job = c \/ Is(rows, target.job, {"pending"})
  BY <1>1 DEF Consistent, RowsAgree, TargetAgrees, Is, Rows, Target
<1>2. ASSUME NEW c \in Boundaries, Is(rows, c, {"running"}), target.job = c
      PROVE  /\ new[c] # None /\ new[c].status = "pending" /\ RowFits(c, new[c])
             /\ Wants(target, c, new[c]) /\ new[c].generation = target.generation
  <2>1. RowFits(c, PendingRow(target)) /\ Wants(target, c, PendingRow(target))
    BY <1>1, <1>2, PendingRowFits
  <2>2. /\ new[c] = RecoveredRow(rows[c], target) /\ new[c] # None
        /\ PendingRow(target) \in Job
    BY <1>1, <1>2, NoneIsNoRow, RecoveredRowType, PendingRowType
  <2>3. /\ new[c].status = PendingRow(target).status
        /\ new[c].lease = PendingRow(target).lease
        /\ new[c].generation = PendingRow(target).generation
        /\ new[c].source = PendingRow(target).source
        /\ new[c].payload = PendingRow(target).payload
    BY <2>2 DEF RecoveredRow, Job
  <2>4. PendingRow(target).status = "pending" /\ PendingRow(target).generation = target.generation
    BY DEF PendingRow
  <2>5. QED
    BY <2>1, <2>2, <2>3, <2>4 DEF RowFits, Wants
<1>3. ASSUME NEW c \in Boundaries, Is(rows, c, {"running"}), target.job # c
      PROVE  /\ new[c] # None /\ new[c].status = "superseded" /\ RowFits(c, new[c])
             /\ new[c].generation = rows[c].generation
  BY <1>1, <1>3, EndedRowFits DEF RowFits
<1>4. ASSUME NEW c \in Boundaries, ~Is(rows, c, {"running"})
      PROVE  new[c] = rows[c]
  BY <1>4
<1>5. \A c \in Boundaries : ~Is(new, c, {"running"})
  BY <1>2, <1>3, <1>4 DEF Is
<1>6. TargetAgrees(new, target, summary)
  BY <1>2, <1>4 DEF Consistent, TargetAgrees, Is, Alive, Target
<1>7. \A c \in Boundaries : new[c] # None =>
        /\ RowFits(c, new[c])
        /\ new[c].status \in {"pending", "failed"} => Wants(target, c, new[c])
        /\ target # None => new[c].generation <= target.generation
  <2>1. target # None => target.generation \in Nat
    BY DEF Target
  <2>2. QED
    BY <2>1, <1>1, <1>2, <1>3, <1>4 DEF Consistent, RowsAgree
<1>8. QED
  BY <1>5, <1>6, <1>7 DEF Consistent, RowsAgree, OneRuns, Is

\* A superseded attempt ends: its target's row waits, and its own is over.
LEMMA Requeued ==
  ASSUME NEW rows \in Rows, NEW new \in Rows, NEW b \in Boundaries,
         NEW target \in Target \cup {None}, NEW summary,
         Consistent(rows, target, summary), Is(rows, b, {"running"}),
         \A c \in Boundaries :
           new[c] = IF target # None /\ c = target.job
                       /\ (c = b \/ ~Is(rows, c, {"running"}))
                    THEN PendingRow(target)
                    ELSE IF c = b THEN SupersededRow(rows[b])
                    ELSE rows[c]
  PROVE  Consistent(new, target, summary)
<1>1. /\ target \in Target /\ target # None /\ target.job = target.source.boundary
      /\ rows[b] \in Job /\ RowFits(b, rows[b])
      /\ target.job \in Boundaries /\ target.generation \in Nat
      /\ rows[b].generation <= target.generation
      /\ \A c \in Boundaries \ {b} : ~Is(rows, c, {"running"})
  BY DEF Consistent, RowsAgree, TargetAgrees, OneRuns, Is, Rows, Target
<1>2. /\ new[target.job] = PendingRow(target) /\ new[target.job] # None
      /\ new[target.job].status = "pending"
      /\ new[target.job].generation = target.generation
      /\ RowFits(target.job, new[target.job])
      /\ Wants(target, target.job, new[target.job])
  BY <1>1, PendingRowFits
<1>3. ASSUME NEW c \in Boundaries, c # target.job, new[c] # None
      PROVE  /\ RowFits(c, new[c]) /\ new[c].status \notin {"pending", "failed", "running"}
             /\ new[c].generation <= target.generation
  <2>1. CASE c = b
    BY <1>1, <1>3, <2>1, EndedRowFits DEF RowFits
  <2>2. CASE c # b
    BY <1>1, <1>3, <2>2 DEF Consistent, RowsAgree, Is, Wants
  <2>3. QED
    BY <2>1, <2>2
<1>4. TargetAgrees(new, target, summary)
  BY <1>1, <1>2 DEF Consistent, TargetAgrees, Is, Alive
<1>5. QED
  BY <1>1, <1>2, <1>3, <1>4 DEF Consistent, RowsAgree, OneRuns, Is

-----------------------------------------------------------------------------
(* Every operation is one of those changes.                                *)

SegmentsInv == \A s \in Segments : SegmentInv(s)

\* An operation on one segment leaves the others as they were.
LEMMA OtherSegments ==
  ASSUME SegmentsInv, NEW s \in Segments, SegmentInv(s)',
         \A x \in Segments \ {s} : /\ jobs'[x] = jobs[x]
                                   /\ targets'[x] = targets[x]
                                   /\ segments'[x] = segments[x]
  PROVE  SegmentsInv'
<1>1. ASSUME NEW x \in Segments \ {s}
      PROVE  SegmentInv(x)'
  BY <1>1 DEF SegmentsInv, SegmentInv
<1>2. QED
  BY <1>1 DEF SegmentsInv

\* The operators of the specification speak of rows and targets.
LEMMA SegmentTerms ==
  ASSUME TypeOK, NEW s \in Segments
  PROVE  /\ jobs[s] \in Rows /\ targets[s] \in Target \cup {None}
         /\ \A b \in Boundaries : \A states :
              HasStatus(s, b, states) <=> Is(jobs[s], b, states)
         /\ \A b \in Boundaries : FailedTargetMatchesJob(s, b)
              <=> Wants(targets[s], b, jobs[s][b])
  BY DEF TypeOK, Rows, HasStatus, Is, FailedTargetMatchesJob, Wants

\* A consistent segment is never refused or quarantined.
LEMMA SegmentIsOwned ==
  ASSUME NEW s \in Segments, SegmentInv(s)
  PROVE  Owned(s)
  BY DEF SegmentInv, Consistent, RowsAgree, RowFits, TargetAgrees, Is, Owned,
         OwnedRow, SameSource

\* Every branch of a posted snapshot keeps its segment consistent.
LEMMA EnqueueSegments ==
  ASSUME TypeOK, TypeOK', SegmentsInv, NEW s \in Segments, Enqueue(s)
  PROVE  SegmentsInv'
<1> DEFINE rows == jobs[s]
           new == jobs'[s]
<1>1. PICK q \in Snapshot : \/ EnqueueIgnored(s, q)
                            \/ EnqueueRepeated(s, q)
                            \/ EnqueueSettled(s, q)
                            \/ EnqueueChanged(s, q)
  BY DEF Enqueue
<1>2. /\ q.boundary \in Boundaries /\ q.priority \in Priorities
      /\ rows \in Rows /\ new \in Rows
      /\ targets[s] \in Target \cup {None} /\ targets'[s] \in Target \cup {None}
      /\ Consistent(rows, targets[s], segments[s])
      /\ \A b \in Boundaries : \A states : HasStatus(s, b, states) <=> Is(rows, b, states)
      /\ \A b \in Boundaries : rows[b] # None => rows[b] \in Job
  BY SegmentTerms DEF Snapshot, TypeOK, Rows, SegmentsInv, SegmentInv
<1>3. SegmentInv(s)'
  <2>1. CASE EnqueueIgnored(s, q)
    <3>1. /\ targets' = targets /\ segments' = segments /\ rows[q.boundary] = None
          /\ new[q.boundary].status = "superseded" /\ new[q.boundary].generation = 0
          /\ new[q.boundary] # None /\ RowFits(q.boundary, new[q.boundary])
          /\ \A c \in Boundaries \ {q.boundary} : new[c] = rows[c]
      <4> DEFINE row == [status |-> "superseded", attempts |-> 0, lease |-> None,
                         due |-> TRUE, generation |-> 0, source |-> q,
                         payload |-> None]
      <4>1. row # None
        BY InsertedRowType, NoneIsNoRow DEF Status
      <4>2. new = [rows EXCEPT ![q.boundary] = row]
        BY <2>1 DEF EnqueueIgnored, SetRow, TypeOK
      <4>3. QED
        BY <1>2, <2>1, <4>1, <4>2 DEF EnqueueIgnored, RowFits, Alive, Rows
    <3>2. targets[s] # None => /\ targets[s].job # q.boundary
                               /\ 0 <= targets[s].generation
      BY <1>2, <3>1 DEF Consistent, TargetAgrees, Is, Target
    <3> HIDE DEF rows, new
    <3>3. Consistent(new, targets[s], segments[s])
      BY <1>2, <3>1, <3>2, Moved DEF Is
    <3>4. QED
      BY <3>1, <3>3 DEF SegmentInv, new
  <2>2. CASE EnqueueRepeated(s, q)
    <3> DEFINE old == targets[s]
               b == old.job
               row == rows[b]
               target == targets'[s]
    <3>1. /\ old \in Target /\ b \in Boundaries /\ old.source \in Snapshot
          /\ row \in Job /\ row # None /\ target \in Target
      <4>1. old # None /\ old \in Target /\ b \in Boundaries
        BY <1>2, <2>2 DEF EnqueueRepeated, TargetMatchesRequest, Target
      <4>2. row # None /\ row \in Job
        BY <1>2, <4>1 DEF Consistent, TargetAgrees, Is
      <4>3. target \in Target
        <5> DEFINE wanted == IF q.priority > old.source.priority
                             THEN [old.source EXCEPT !.priority = q.priority]
                             ELSE old.source
                   reset == ResetStaleExtraction(s)
                   raised == [old EXCEPT !.source = wanted,
                                !.staged = IF reset THEN None ELSE @]
        <5>1. wanted \in Snapshot /\ reset \in BOOLEAN
          BY <1>2, <4>1
          DEF Target, Snapshot, ResetStaleExtraction, StagedEligible, HasStatus
        <5>2. targets' = [targets EXCEPT ![s] = raised]
          BY <2>2 DEF EnqueueRepeated
        <5> HIDE DEF wanted, reset
        <5>3. raised \in Target
          BY <4>1, <4>2, <5>1, RaisedType
        <5> HIDE DEF raised
        <5>4. QED
          BY <5>2, <5>3 DEF TypeOK
      <4>4. QED
        BY <4>1, <4>2, <4>3 DEF Target
    <3>2. /\ target.job = b /\ target.generation = old.generation
          /\ target.source = IF q.priority > old.source.priority
                             THEN [old.source EXCEPT !.priority = q.priority]
                             ELSE old.source
      BY <2>2, <3>1 DEF EnqueueRepeated, TypeOK, Target
    <3>3. SameSource(target.source, old.source)
      BY <3>1, <3>2 DEF SameSource, Snapshot
    <3>4. \A c \in Boundaries \ {b} : new[c] = rows[c]
      BY <2>2, <3>1 DEF EnqueueRepeated, SetRow, TypeOK
    <3>5. CASE row.status = "running"
      <4>1. new[b] = row
        BY <2>2, <3>1, <3>5 DEF EnqueueRepeated, SetRow, TypeOK
      <4> HIDE DEF rows, new, target, old, b
      <4>2. Consistent(new, target, segments[s])
        BY <1>2, <3>1, <3>2, <3>3, <3>4, <3>5, <4>1, Raised DEF old, b
      <4>3. QED
        BY <4>2, <2>2 DEF EnqueueRepeated, SegmentInv, target, new
    <3>6. CASE row.status # "running"
      <4> DEFINE reset == ResetStaleExtraction(s)
                 wanted == target.source
                 after == [row EXCEPT !.source.priority = wanted.priority,
                               !.payload = wanted,
                               !.status = IF reset THEN "pending" ELSE @,
                               !.attempts = IF reset THEN 0 ELSE @,
                               !.lease = IF reset THEN None ELSE @,
                               !.due = reset \/ @]
      <4>1. new[b] = after
        <5>1. wanted = IF q.priority > old.source.priority
                       THEN [old.source EXCEPT !.priority = q.priority]
                       ELSE old.source
          BY <3>2
        <5>2. SetRow(s, b, after)
          BY <2>2, <3>6, <5>1 DEF EnqueueRepeated
        <5> HIDE DEF after
        <5>3. QED
          BY <5>2, <3>1 DEF SetRow, TypeOK
      <4> HIDE DEF wanted, reset, rows, row
      <4>2. /\ after.source = [row.source EXCEPT !.priority = wanted.priority]
            /\ after.payload = wanted /\ after.generation = row.generation
            /\ after.status \in {"pending", row.status}
            /\ after.lease \in {None, row.lease}
        BY <3>1 DEF Job
      <4>3. new[b] # None
        <5>1. wanted \in Snapshot /\ reset \in BOOLEAN
          BY <3>1 DEF wanted, reset, Target, ResetStaleExtraction, StagedEligible, HasStatus
        <5>2. after \in Job
          BY <3>1, <5>1, RaisedType
        <5>3. QED
          BY <4>1, <5>2, NoneIsNoRow
      <4> HIDE DEF after, new, target, old, b
      <4>4. Consistent(new, target, segments[s])
        BY <1>2, <3>1, <3>2, <3>3, <3>4, <3>6, <4>1, <4>2, <4>3, Raised
        DEF old, b, wanted, row
      <4>5. QED
        BY <4>4, <2>2 DEF EnqueueRepeated, SegmentInv, target, new
    <3>7. QED
      BY <3>5, <3>6
  <2>3. CASE EnqueueSettled(s, q)
    <3>1. /\ targets[s] = None /\ targets' = targets /\ segments' = segments
          /\ \A c \in Boundaries \ {q.boundary} : new[c] = rows[c]
          /\ ~Is(rows, q.boundary, Alive)
      BY <1>2, <2>3
      DEF EnqueueSettled, SettledRequest, SetRow, Consistent, RowsAgree, Is, Alive,
          Wants, TypeOK
    <3>2. /\ new[q.boundary].status = "succeeded" /\ new[q.boundary] # None
          /\ RowFits(q.boundary, new[q.boundary])
      <4>1. CASE rows[q.boundary] = None
        <5> DEFINE after == [status |-> "succeeded", attempts |-> 0, lease |-> None,
                             due |-> TRUE, generation |-> segments[s].generation,
                             source |-> q, payload |-> None]
        <5>1. after # None
          BY <2>3, InsertedRowType, NoneIsNoRow
          DEF EnqueueSettled, SettledRequest, TypeOK, Memory, Status
        <5>2. new = [rows EXCEPT ![q.boundary] = after]
          BY <2>3, <4>1 DEF EnqueueSettled, SetRow, TypeOK
        <5>3. QED
          BY <1>2, <5>1, <5>2 DEF RowFits, Alive, Rows
      <4>2. CASE rows[q.boundary] # None
        <5> DEFINE row == rows[q.boundary]
                   after == [SucceededRow(row) EXCEPT
                               !.generation = segments[s].generation,
                               !.source = IF q.priority > row.source.priority THEN q
                                          ELSE [q EXCEPT !.priority = row.source.priority]]
        <5>1. row \in Job /\ SucceededRow(row) \in Job /\ row.status # "running"
          BY <1>2, <3>1, <4>2, EndedRowType DEF Is, Alive
        <5>2. SetRow(s, q.boundary, after)
          BY <2>3, <4>2, <5>1 DEF EnqueueSettled
        <5>3. new[q.boundary] = after
          <6> HIDE DEF after
          <6>1. QED
            BY <5>2, <1>2 DEF SetRow, TypeOK
        <5> HIDE DEF row
        <5>4. /\ after.status = "succeeded" /\ after.lease = None /\ after.payload = None
              /\ after.source \in {q, [q EXCEPT !.priority = row.source.priority]}
          BY <5>1 DEF SucceededRow, Job
        <5>5. after.source.boundary = q.boundary
          BY <5>4 DEF Snapshot
        <5>6. new[q.boundary] # None
          <6>1. segments[s].generation \in Nat
            BY <2>3 DEF EnqueueSettled, SettledRequest, TypeOK, Memory
          <6>2. after \in Job
            BY <5>1, <6>1, SettledRowType
          <6>3. QED
            BY <5>3, <6>2, NoneIsNoRow
        <5>7. QED
          BY <5>3, <5>4, <5>5, <5>6 DEF RowFits, Alive
      <4>3. QED
        BY <4>1, <4>2
    <3> HIDE DEF rows, new
    <3>3. Consistent(new, targets[s], segments[s])
      BY <1>2, <3>1, <3>2, Moved DEF Is, Alive, Consistent, RowsAgree
    <3>4. QED
      BY <3>1, <3>3 DEF SegmentInv, new
  <2>4. CASE EnqueueChanged(s, q)
    <3>1. PICK g \in Generations :
            /\ NextGeneration(s, g)
            /\ LET target == [job |-> q.boundary, source |-> q, generation |-> g,
                              staged |-> None, since |-> clock + 1]
               IN  /\ targets' = [targets EXCEPT ![s] = target]
                   /\ jobs' = [jobs EXCEPT ![s] = [b \in Boundaries |->
                        IF b = q.boundary
                        THEN IF HasStatus(s, b, {"running"}) THEN jobs[s][b]
                             ELSE PendingRow(target)
                        ELSE IF HasStatus(s, b, Discardable)
                             THEN SupersededRow(jobs[s][b])
                             ELSE jobs[s][b]]]
      BY <2>4 DEF EnqueueChanged
    <3>2. /\ targets'[s] \in Target /\ targets'[s].job = q.boundary
          /\ targets'[s].source = q /\ targets'[s].generation = g
      BY <1>2, <3>1, NoneIsNoRow, ConstantsAssumption DEF TypeOK, Generations, Target
    <3>3. /\ \A c \in Boundaries : rows[c] # None => rows[c].generation < g
          /\ segments[s] # None => segments[s].generation < g
      BY <3>1 DEF NextGeneration
    <3>4. /\ new[q.boundary] = IF Is(rows, q.boundary, {"running"}) THEN rows[q.boundary]
                               ELSE PendingRow(targets'[s])
          /\ \A c \in Boundaries \ {q.boundary} :
               new[c] = IF Is(rows, c, {"pending", "failed"}) THEN SupersededRow(rows[c])
                        ELSE rows[c]
      BY <1>2, <3>1 DEF TypeOK, Discardable
    <3> HIDE DEF rows, new
    <3>5. Consistent(new, targets'[s], segments[s])
      BY <1>2, <3>2, <3>3, <3>4, Replaced
    <3>6. QED
      BY <3>5, <2>4 DEF EnqueueChanged, SegmentInv, new
  <2>5. QED
    BY <1>1, <2>1, <2>2, <2>3, <2>4
<1>4. \A x \in Segments \ {s} : /\ jobs'[x] = jobs[x] /\ targets'[x] = targets[x]
                                /\ segments'[x] = segments[x]
  BY <1>1 DEF EnqueueIgnored, EnqueueRepeated, EnqueueSettled, EnqueueChanged, SetRow, TypeOK
<1>5. QED
  BY <1>3, <1>4, OtherSegments

\* The operator's repairs keep the segment consistent.
LEMMA RepairSegments ==
  ASSUME TypeOK, TypeOK', SegmentsInv, NEW s \in Segments, Repair(s)
  PROVE  SegmentsInv'
<1> DEFINE rows == jobs[s]
           new == jobs'[s]
           target == targets[s]
<1>1. PICK b \in Boundaries : \/ RetryFailedJob(s, b, FALSE)
                              \/ RetryFailedJob(s, b, TRUE)
                              \/ SupersedeFailedJob(s, b)
  BY DEF Repair
<1>2. /\ rows \in Rows /\ new \in Rows /\ targets'[s] \in Target \cup {None}
      /\ target \in Target /\ target # None /\ target.job = b
      /\ target.job = target.source.boundary
      /\ Consistent(rows, target, segments[s])
      /\ Is(rows, b, {"failed"}) /\ rows[b] \in Job /\ RowFits(b, rows[b])
      /\ \A c \in Boundaries : ~Is(rows, c, {"running"})
  <2>1. /\ rows \in Rows /\ new \in Rows /\ targets'[s] \in Target \cup {None}
        /\ Consistent(rows, target, segments[s]) /\ target \in Target \cup {None}
    BY SegmentTerms DEF SegmentsInv, SegmentInv, TypeOK, Rows
  <2>2. Is(rows, b, {"failed"}) /\ target # None /\ target.job = b
    BY <1>1 DEF RetryFailedJob, SupersedeFailedJob, LockCurrentFailedTargetJob,
                HasStatus, FailedTargetMatchesJob, Is
  <2>3. QED
    BY <2>1, <2>2 DEF Consistent, RowsAgree, TargetAgrees, Is, Rows
<1>3. SegmentInv(s)'
  <2>1. CASE \E restart \in BOOLEAN : RetryFailedJob(s, b, restart)
    <3>1. new = [rows EXCEPT ![b] = PendingRow(target)]
      BY <2>1 DEF RetryFailedJob, SetRow, TypeOK
    <3>2. /\ targets'[s].job = b /\ targets'[s].generation = target.generation
          /\ targets'[s].source = target.source /\ targets'[s] # None
      <4>1. [target EXCEPT !.staged = None] \in Target
        BY <1>2 DEF Target
      <4>2. targets'[s] \in {target, [target EXCEPT !.staged = None]}
        BY <2>1 DEF RetryFailedJob, TypeOK
      <4>3. QED
        BY <1>2, <4>1, <4>2, NoneIsNoRow DEF Target
    <3>3. /\ new[b] = PendingRow(target)
          /\ \A c \in Boundaries \ {b} : new[c] = rows[c]
      BY <1>2, <3>1 DEF Rows
    <3>4. /\ new[b] # None /\ RowFits(b, new[b]) /\ Wants(target, b, new[b])
          /\ new[b].status = "pending" /\ new[b].generation = target.generation
      BY <1>2, <3>3, PendingRowFits
    <3>5. Wants(targets'[s], b, new[b]) /\ target.generation <= target.generation
      BY <1>2, <3>2, <3>4 DEF Wants, Target
    <3> HIDE DEF rows, new, target
    <3>6. Consistent(new, targets'[s], segments[s])
      BY <1>2, <3>2, <3>3, <3>4, <3>5, Moved DEF Alive
    <3>7. QED
      BY <3>6, <2>1 DEF RetryFailedJob, SegmentInv, new
  <2>2. CASE SupersedeFailedJob(s, b)
    <3>1. /\ new = [rows EXCEPT ![b] = SupersededRow(rows[b])]
          /\ targets'[s] = None /\ segments' = segments
      BY <2>2 DEF SupersedeFailedJob, SetRow, TypeOK
    <3>2. /\ new[b] # None /\ RowFits(b, new[b]) /\ new[b].status = "superseded"
          /\ \A c \in Boundaries \ {b} : new[c] = rows[c]
      <4>1. rows[b].source.boundary = b
        BY <1>2 DEF RowFits
      <4>2. new[b] = SupersededRow(rows[b])
            /\ \A c \in Boundaries \ {b} : new[c] = rows[c]
        BY <1>2, <3>1 DEF Rows
      <4>3. QED
        BY <1>2, <4>1, <4>2, EndedRowFits
    <3> HIDE DEF rows, new, target
    <3>3. Consistent(new, None, segments[s])
      BY <1>2, <3>2, Ended DEF Alive, Is
    <3>4. QED
      BY <3>1, <3>3 DEF SegmentInv, new
  <2>3. QED
    BY <1>1, <2>1, <2>2
<1>4. \A x \in Segments \ {s} : /\ jobs'[x] = jobs[x] /\ targets'[x] = targets[x]
                                /\ segments'[x] = segments[x]
  BY <1>1 DEF RetryFailedJob, SupersedeFailedJob, SetRow, TypeOK
<1>5. QED
  BY <1>3, <1>4, OtherSegments

\* The end of a retry delay keeps the segment consistent.
LEMMA BackoffSegments ==
  ASSUME TypeOK, TypeOK', SegmentsInv, NEW s \in Segments, NEW b \in Boundaries,
         BackoffElapses(s, b)
  PROVE  SegmentsInv'
<1> DEFINE rows == jobs[s]
           new == jobs'[s]
           row == [rows[b] EXCEPT !.due = TRUE]
<1>1. /\ rows \in Rows /\ new \in Rows /\ targets[s] \in Target \cup {None}
      /\ Consistent(rows, targets[s], segments[s])
      /\ rows[b] \in Job /\ Is(rows, b, {"pending"})
  BY SegmentTerms DEF BackoffElapses, HasStatus, Is, SegmentsInv, SegmentInv, TypeOK, Rows
<1>2. new = [rows EXCEPT ![b] = row]
  BY DEF BackoffElapses, TypeOK
<1>3. /\ row \in Job /\ row.source = rows[b].source /\ row.status = rows[b].status
      /\ row.lease = rows[b].lease /\ row.payload = rows[b].payload
      /\ row.generation = rows[b].generation
  BY <1>1 DEF Job
<1>4. new[b] = row /\ \A c \in Boundaries \ {b} : new[c] = rows[c]
  BY <1>1, <1>2 DEF Rows
<1> HIDE DEF row
<1>5. /\ new[b] # None /\ RowFits(b, new[b]) /\ Wants(targets[s], b, new[b])
      /\ new[b].status = "pending"
      /\ targets[s] # None => new[b].generation <= targets[s].generation
  BY <1>1, <1>3, <1>4, NoneIsNoRow DEF Is, RowFits, Wants, Consistent, RowsAgree
<1> HIDE DEF rows, new
<1>6. Consistent(new, targets[s], segments[s])
  BY <1>1, <1>4, <1>5, Moved DEF Alive
<1>7. SegmentInv(s)'
  BY <1>6 DEF SegmentInv, BackoffElapses, new
<1>8. QED
  BY <1>7, OtherSegments DEF BackoffElapses, TypeOK

\* recoverRunningJobs keeps the segment it visits consistent.
LEMMA RecoverSegments ==
  ASSUME TypeOK, TypeOK', SegmentsInv, NEW s \in Segments, RecoverSegment(s)
  PROVE  /\ SegmentsInv'
         /\ \A b \in Boundaries : ~Is(jobs'[s], b, {"running"})
         /\ \A x \in Segments \ {s} : jobs'[x] = jobs[x]
<1> DEFINE rows == jobs[s]
           new == jobs'[s]
<1>1. /\ rows \in Rows /\ new \in Rows /\ targets[s] \in Target \cup {None}
      /\ Consistent(rows, targets[s], segments[s]) /\ Owned(s)
      /\ \A b \in Boundaries : \A states : HasStatus(s, b, states) <=> Is(rows, b, states)
  BY SegmentTerms, SegmentIsOwned DEF SegmentsInv, SegmentInv, TypeOK, Rows
<1>2. \A c \in Boundaries :
        new[c] = IF ~Is(rows, c, {"running"}) THEN rows[c]
                 ELSE IF targets[s] # None /\ targets[s].job = c
                      THEN RecoveredRow(rows[c], targets[s])
                      ELSE SupersededRow(rows[c])
  BY <1>1 DEF RecoverSegment, TypeOK
<1> HIDE DEF rows, new
<1>3. /\ Consistent(new, targets[s], segments[s])
      /\ \A b \in Boundaries : ~Is(new, b, {"running"})
  BY <1>1, <1>2, Recovered
<1>4. SegmentInv(s)'
  BY <1>3 DEF SegmentInv, RecoverSegment, new
<1>5. \A x \in Segments \ {s} : jobs'[x] = jobs[x]
  BY DEF RecoverSegment, TypeOK
<1>6. QED
  BY <1>3, <1>4, <1>5, OtherSegments DEF RecoverSegment, new

(* The row that a claim takes. *)
TakenRow(row, lease) ==
  [row EXCEPT !.status = "running", !.attempts = @ + 1, !.lease = lease]

\* The claim: the row waits for its target, and nothing of its segment runs.
LEMMA ClaimSegments ==
  ASSUME TypeOK, TypeOK', SegmentsInv, PickInv, NEW lease \in Leases,
         ClaimPicked(lease), NEW s, NEW b,
         s = picked.segment, b = picked.boundary
  PROVE  /\ SegmentsInv'
         /\ s \in Segments /\ b \in Boundaries
         /\ Is(jobs[s], b, {"pending"}) /\ jobs[s][b] \in Job
         /\ Wants(targets[s], b, jobs[s][b])
         /\ jobs[s][b].generation = picked.row.generation
         /\ \A c \in Boundaries : ~Is(jobs[s], c, {"running"})
         /\ jobs' = [jobs EXCEPT ![s][b] = TakenRow(jobs[s][b], lease)]
         /\ tasks' = tasks \cup
              {[replica |-> leader, segment |-> s, lease |-> lease,
                generation |-> jobs[s][b].generation,
                source |-> IdentityOf(jobs[s][b].source),
                attempts |-> jobs[s][b].attempts + 1,
                extraction |-> picked.extraction]}
<1> DEFINE rows == jobs[s]
           new == jobs'[s]
           target == targets[s]
           row == [rows[b] EXCEPT !.status = "running", !.attempts = @ + 1,
                                  !.lease = lease]
<1>1. /\ picked # None /\ picked \in Pick /\ s \in Segments /\ b \in Boundaries
      /\ rows \in Rows /\ new \in Rows /\ target \in Target \cup {None}
      /\ Consistent(rows, target, segments[s]) /\ Owned(s)
  <2>1. picked # None /\ s \in Segments /\ picked \in Pick /\ b \in Boundaries
    BY DEF ClaimPicked, TypeOK, Pick
  <2>2. QED
    BY <2>1, SegmentTerms, SegmentIsOwned DEF SegmentsInv, SegmentInv, TypeOK, Rows
<1>2. /\ Is(rows, b, {"pending"}) /\ rows[b] \in Job
      /\ rows[b].payload = picked.row.payload
      /\ rows[b].generation = picked.row.generation
  BY <1>1 DEF ClaimPicked, Refreshed, Is, Rows
<1>3. /\ rows[b].payload = picked.row.source /\ rows[b].payload # None
      /\ \A c \in Boundaries : ~Is(rows, c, {"running"})
  <2>1. picked.row.payload = picked.row.source
    BY <1>1 DEF PickInv
  <2>2. rows[b].payload = rows[b].source
    BY <1>1, <1>2 DEF Is, Consistent, RowsAgree, RowFits, Alive
  <2>3. rows[b].source \in Snapshot
    BY <1>2 DEF Job
  <2>4. QED
    BY <1>1, <1>2, <2>1, <2>2, <2>3, NoneIsNoRecord DEF PickInv, Is
<1>4. Wants(target, b, rows[b])
  BY <1>1, <1>2 DEF Consistent, RowsAgree, Is
<1>5. /\ jobs' = [jobs EXCEPT ![s][b] = row]
      /\ tasks' = tasks \cup
           {[replica |-> leader, segment |-> s, lease |-> lease,
             generation |-> rows[b].generation,
             source |-> IdentityOf(rows[b].source),
             attempts |-> rows[b].attempts + 1,
             extraction |-> picked.extraction]}
  <2>1. Owned(s) /\ rows[b].payload # None /\ rows[b].payload = picked.row.source
    BY <1>1, <1>3
  <2>2. jobs' = [jobs EXCEPT ![s][b] = row]
    BY <2>1 DEF ClaimPicked
  <2>3. tasks' = tasks \cup
           {[replica |-> leader, segment |-> s, lease |-> lease,
             generation |-> rows[b].generation,
             source |-> IdentityOf(rows[b].source),
             attempts |-> rows[b].attempts + 1,
             extraction |-> picked.extraction]}
    BY <2>1 DEF ClaimPicked
  <2>4. QED
    BY <2>2, <2>3
<1>6. new[b] = row /\ \A c \in Boundaries \ {b} : new[c] = rows[c]
  <2> HIDE DEF row
  <2>1. jobs \in [Segments -> [Boundaries -> Job \cup {None}]]
    BY DEF TypeOK
  <2>2. QED
    BY <1>1, <1>5, <2>1
<1>7. /\ row.source = rows[b].source /\ row.status = "running" /\ row.lease = lease
      /\ row.payload = rows[b].payload /\ row.generation = rows[b].generation
  BY <1>2 DEF Job
<1>8. row # None
  <2>1. rows[b].attempts + 1 \in Nat
    BY <1>2 DEF Job
  <2>2. row \in Job
    BY <1>2, <2>1 DEF Job, Status
  <2>3. QED
    BY <2>2, NoneIsNoRow
<1> HIDE DEF row
<1>9. RowFits(b, new[b]) /\ new[b] # None
  <2>1. RowFits(b, rows[b])
    BY <1>1, <1>2 DEF Consistent, RowsAgree, Is
  <2>2. QED
    BY <1>1, <1>2, <1>6, <1>7, <1>8, <2>1, ConstantsAssumption DEF RowFits, Is, Alive
<1>10. SegmentInv(s)'
  <2>1. target # None /\ target.job = b /\ new[b].generation <= target.generation
    BY <1>1, <1>2, <1>4, <1>6, <1>7 DEF Wants, Consistent, RowsAgree, Is
  <2> HIDE DEF rows, new, target
  <2>2. Consistent(new, target, segments[s])
    BY <1>1, <1>3, <1>6, <1>7, <1>9, <2>1, Moved DEF Alive
  <2>3. QED
    BY <2>2 DEF SegmentInv, ClaimPicked, new, target
<1>11. \A x \in Segments \ {s} : /\ jobs'[x] = jobs[x] /\ targets'[x] = targets[x]
                                 /\ segments'[x] = segments[x]
  BY <1>1, <1>5 DEF ClaimPicked, TypeOK
<1>12. SegmentsInv'
  BY <1>1, <1>10, <1>11, OtherSegments
<1>13. QED
  BY <1>1, <1>2, <1>3, <1>4, <1>5, <1>12 DEF row, TakenRow

\* What a claim that still holds its lease says about its segment.
LEMMA HeldClaim ==
  ASSUME TypeOK, SegmentsInv, NEW t \in tasks, HoldsLease(t)
  PROVE  LET s == t.segment
             b == t.source.boundary
         IN  /\ s \in Segments /\ b \in Boundaries
             /\ jobs[s] \in Rows /\ Consistent(jobs[s], targets[s], segments[s])
             /\ jobs[s][b] \in Job /\ Is(jobs[s], b, {"running"})
             /\ RowFits(b, jobs[s][b]) /\ RowOf(t) = jobs[s][b]
             /\ targets[s] \in Target /\ targets[s] # None
             /\ jobs[s][b].generation <= targets[s].generation
             /\ \A c \in Boundaries \ {b} : ~Is(jobs[s], c, {"running"})
<1> DEFINE s == t.segment
           b == t.source.boundary
<1>1. s \in Segments /\ b \in Boundaries
  BY DEF TypeOK, Task, Identity
<1>2. /\ jobs[s] \in Rows /\ targets[s] \in Target \cup {None}
      /\ Consistent(jobs[s], targets[s], segments[s])
  BY <1>1, SegmentTerms DEF SegmentsInv, SegmentInv
<1>3. RowOf(t) = jobs[s][b] /\ Is(jobs[s], b, {"running"})
  BY <1>1 DEF HoldsLease, RowOf, Is
<1> HIDE DEF s, b
<1>4. /\ RowFits(b, jobs[s][b]) /\ targets[s] # None
      /\ jobs[s][b].generation <= targets[s].generation
      /\ jobs[s][b] \in Job
  BY <1>1, <1>2, <1>3 DEF Consistent, RowsAgree, Is, Rows
<1>5. \A c \in Boundaries \ {b} : ~Is(jobs[s], c, {"running"})
  BY <1>1, <1>2, <1>3 DEF Consistent, OneRuns
<1>6. QED
  BY <1>1, <1>2, <1>3, <1>4, <1>5 DEF s, b

\* A claim whose target still matches is the claim of the wanted row.
LEMMA CurrentClaim ==
  ASSUME TypeOK, SegmentsInv, NEW t \in tasks, Current(t)
  PROVE  /\ HoldsLease(t)
         /\ targets[t.segment].job = t.source.boundary
         /\ Wants(targets[t.segment], t.source.boundary,
                  jobs[t.segment][t.source.boundary])
  BY HeldClaim DEF Current, TargetMatchesJob, PersistedJobMatchesClaim, Wants, SameSource

\* Every end of an attempt keeps its segment consistent.
LEMMA AttemptSegments ==
  ASSUME TypeOK, TypeOK', SegmentsInv, NEW t \in tasks, Attempt(t),
         NEW s, NEW b, s = t.segment, b = t.source.boundary
  PROVE  SegmentsInv'
<1> DEFINE rows == jobs[s]
           new == jobs'[s]
           target == targets[s]
<1>1. /\ s \in Segments /\ b \in Boundaries
      /\ new \in Rows /\ targets'[s] \in Target \cup {None}
  BY DEF TypeOK, Task, Identity, Rows
<1>2. ASSUME HoldsLease(t)
      PROVE  /\ rows \in Rows /\ Consistent(rows, target, segments[s])
             /\ rows[b] \in Job /\ Is(rows, b, {"running"}) /\ RowFits(b, rows[b])
             /\ RowOf(t) = rows[b] /\ target \in Target /\ target # None
             /\ rows[b].generation <= target.generation
             /\ \A c \in Boundaries \ {b} : ~Is(rows, c, {"running"})
  BY <1>2, HeldClaim
<1>3. Current(t) => /\ HoldsLease(t) /\ target.job = b
                    /\ Wants(target, b, rows[b])
  BY CurrentClaim
<1>4. ASSUME NEW text \in Texts, PublishExtraction(t, text)
      PROVE  SegmentInv(s)'
  <2> DEFINE staged == [extraction |-> Extracted(t, text), validation |-> validation]
  <2>1. targets'[s] = [target EXCEPT !.staged = staged]
    BY <1>1, <1>4 DEF PublishExtraction, TypeOK
  <2>2. target \in Target /\ target # None
    BY <1>2, <1>3, <1>4 DEF PublishExtraction
  <2>3. [target EXCEPT !.staged = staged] \in Target
    <3>1. staged \in Staged
      BY <1>4 DEF Staged, Extracted, Extraction, TypeOK, Task, Identity
    <3>2. QED
      BY <2>2, <3>1 DEF Target
  <2> HIDE DEF staged
  <2>4. /\ targets'[s].job = target.job /\ targets'[s].source = target.source
        /\ targets'[s].generation = target.generation /\ targets'[s] # None
    BY <2>1, <2>2, <2>3, NoneIsNoRow DEF Target
  <2>5. jobs' = jobs /\ segments' = segments
    BY <1>4 DEF PublishExtraction
  <2> HIDE DEF target
  <2>6. Consistent(rows, targets'[s], segments[s])
    BY <1>2, <1>3, <1>4, <2>2, <2>4
    DEF PublishExtraction, Consistent, RowsAgree, TargetAgrees, Wants, target
  <2>7. QED
    BY <2>5, <2>6 DEF SegmentInv
<1>5. ASSUME CommitResolution(t)
      PROVE  SegmentInv(s)'
  <2>1. /\ new = [rows EXCEPT ![b] = SucceededRow(rows[b])] /\ targets'[s] = None
        /\ Current(t)
    BY <1>1, <1>2, <1>3, <1>5 DEF CommitResolution, SetRow, TypeOK
  <2>2. rows[b].source.boundary = b
    BY <1>2, <1>3, <2>1 DEF RowFits
  <2>3. /\ new[b] = SucceededRow(rows[b])
        /\ \A c \in Boundaries \ {b} : new[c] = rows[c]
    BY <1>1, <1>2, <1>3, <2>1 DEF Rows
  <2>4. new[b] # None /\ RowFits(b, new[b]) /\ new[b].status = "succeeded"
    <3>1. PICK row \in Job : row = rows[b] /\ row.source.boundary = b
      BY <1>2, <1>3, <2>1, <2>2
    <3>2. /\ RowFits(b, SucceededRow(row)) /\ SucceededRow(row) # None
          /\ SucceededRow(row).status = "succeeded"
      BY <3>1, EndedRowFits
    <3>3. QED
      BY <2>3, <3>1, <3>2
  <2> HIDE DEF rows, new, target
  <2>5. /\ rows \in Rows /\ new \in Rows /\ b \in Boundaries
        /\ target \in Target /\ target.job = b
        /\ Consistent(rows, target, segments[s])
        /\ Is(rows, b, {"running", "failed"}) /\ new[b].status \notin Alive
    BY <1>1, <1>2, <1>3, <2>1, <2>4 DEF Alive, Is
  <2>6. \A later : Consistent(new, None, later)
    BY <2>3, <2>4, <2>5, Ended
  <2>7. QED
    BY <2>1, <2>6 DEF SegmentInv, new
<1>6. ASSUME NEW terminal \in BOOLEAN, FinishFailedAttempt(t, terminal)
      PROVE  SegmentInv(s)'
  <2> DEFINE retry == ~terminal /\ ShouldRetry(t)
             row == [rows[b] EXCEPT !.status = IF retry THEN "pending" ELSE "failed",
                                    !.lease = None, !.due = ~retry]
  <2>1. Current(t) /\ HoldsLease(t)
    BY <1>3, <1>6 DEF FinishFailedAttempt
  <2>2. segments[s] # None => segments[s].generation < target.generation
    BY <1>2, <2>1 DEF Consistent, TargetAgrees
  <2>3. jobs' = [jobs EXCEPT ![s][b] = row] /\ targets' = targets /\ segments' = segments
    <3>1. segments[s] # None => segments[s].generation # target.generation
      BY <1>2, <2>1, <2>2 DEF TypeOK, Memory, Target
    <3>2. QED
      BY <1>2, <1>6, <2>1, <3>1 DEF FinishFailedAttempt, SetRow
  <2>4. new[b] = row /\ \A c \in Boundaries \ {b} : new[c] = rows[c]
    <3> HIDE DEF row
    <3>1. jobs \in [Segments -> [Boundaries -> Job \cup {None}]]
      BY DEF TypeOK
    <3>2. QED
      BY <1>1, <2>3, <3>1
  <2>5. /\ row \in Job /\ row.status \in {"pending", "failed"} /\ row.lease = None
        /\ row.source = rows[b].source /\ row.payload = rows[b].payload
        /\ row.generation = rows[b].generation
    BY <1>2, <2>1 DEF Job, Status
  <2> HIDE DEF row
  <2>6. /\ new[b] # None /\ RowFits(b, new[b]) /\ Wants(target, b, new[b])
        /\ new[b].generation <= target.generation
    BY <1>2, <1>3, <2>1, <2>4, <2>5, NoneIsNoRow DEF RowFits, Alive, Wants, Is
  <2> HIDE DEF rows, new, target
  <2>7. Consistent(new, target, segments[s])
    BY <1>1, <1>2, <1>3, <2>1, <2>4, <2>5, <2>6, Moved DEF Alive
  <2>8. QED
    BY <2>3, <2>7 DEF SegmentInv, new, target
<1>7. ASSUME RequeueLatestTarget(t)
      PROVE  SegmentInv(s)'
  <2>1. /\ HoldsLease(t) /\ targets' = targets /\ segments' = segments
        /\ \A c \in Boundaries :
             new[c] = IF target # None /\ c = target.job
                         /\ (c = b \/ ~Is(rows, c, {"running"}))
                      THEN PendingRow(target)
                      ELSE IF c = b THEN SupersededRow(rows[b])
                      ELSE rows[c]
    BY <1>1, <1>7, SegmentTerms DEF RequeueLatestTarget, TypeOK
  <2> HIDE DEF rows, new, target
  <2>2. Consistent(new, target, segments[s])
    BY <1>1, <1>2, <2>1, Requeued
  <2>3. QED
    BY <2>1, <2>2 DEF SegmentInv, new, target
<1>8. ASSUME StaleAttempt(t)
      PROVE  SegmentInv(s)'
  BY <1>1, <1>8 DEF StaleAttempt, store, SegmentsInv, SegmentInv
<1>9. \A x \in Segments \ {s} : /\ jobs'[x] = jobs[x] /\ targets'[x] = targets[x]
                                /\ segments'[x] = segments[x]
  BY DEF Attempt, PublishExtraction, CommitResolution, FinishFailedAttempt,
         RequeueLatestTarget, StaleAttempt, SetRow, TypeOK, store
<1>10. SegmentInv(s)'
  BY <1>4, <1>5, <1>6, <1>7, <1>8 DEF Attempt
<1>11. QED
  BY <1>1, <1>9, <1>10, OtherSegments

-----------------------------------------------------------------------------
(* While a row is selected.                                                *)

\* Nothing happened to the selected row's segment.
LEMMA PickFrame ==
  ASSUME PickInv, picked' = picked, validation' = validation,
         picked # None => /\ jobs'[picked.segment] = jobs[picked.segment]
                          /\ targets'[picked.segment] = targets[picked.segment]
  PROVE  PickInv'
  BY DEF PickInv, Is, StagedEligible

\* Its target was replaced by a newer one, or only its priority was raised.
LEMMA PickKept ==
  ASSUME TypeOK, TypeOK', PickInv, picked' = picked, validation' = validation,
         picked # None,
         NEW s \in Segments, s = picked.segment,
         targets'[s] # None, Is(jobs'[s], targets'[s].job, {"pending"}),
         \A b \in Boundaries : ~Is(jobs'[s], b, {"running", "failed"}),
         \/ targets'[s].generation > targets[s].generation
         \/ /\ targets'[s].generation = targets[s].generation
            /\ targets'[s].job = targets[s].job
            /\ targets'[s].staged = targets[s].staged
            /\ SameSource(targets'[s].source, targets[s].source)
  PROVE  PickInv'
<1>1. /\ targets[s] # None /\ targets[s].generation \in Nat
      /\ targets'[s].generation \in Nat /\ picked.row.generation \in Nat
      /\ picked.row.generation <= targets[s].generation
  BY DEF PickInv, TypeOK, Target, Pick, Job
<1>2. picked.row.generation <= targets'[s].generation
  BY <1>1
<1>3. picked.row.generation = targets'[s].generation =>
        /\ targets'[s].job = targets[s].job
        /\ picked.row.generation = targets[s].generation
        /\ StagedEligible(targets[s])' <=> StagedEligible(targets[s])
        /\ targets'[s].staged = targets[s].staged
  BY <1>1 DEF StagedEligible, SameSource
<1>4. QED
  BY <1>2, <1>3 DEF PickInv

\* A post either changes the selected row or leaves the selection good.
LEMMA EnqueuePick ==
  ASSUME TypeOK, TypeOK', SegmentsInv, PickInv, NEW s \in Segments, Enqueue(s)
  PROVE  PickInv'
<1>1. PICK q \in Snapshot : \/ EnqueueIgnored(s, q)
                            \/ EnqueueRepeated(s, q)
                            \/ EnqueueSettled(s, q)
                            \/ EnqueueChanged(s, q)
  BY DEF Enqueue
<1>2. /\ picked' = picked /\ validation' = validation
      /\ \A x \in Segments \ {s} : jobs'[x] = jobs[x] /\ targets'[x] = targets[x]
  BY <1>1 DEF EnqueueIgnored, EnqueueRepeated, EnqueueSettled, EnqueueChanged, SetRow,
              TypeOK, workers
<1>3. CASE picked = None
  BY <1>2, <1>3 DEF PickInv
<1>4. CASE picked # None /\ picked.segment # s
  BY <1>2, <1>4, PickFrame DEF TypeOK, Pick
<1>5. CASE picked # None /\ picked.segment = s
  <2> DEFINE rows == jobs[s]
             new == jobs'[s]
             target == targets[s]
  <2>1. /\ q.boundary \in Boundaries /\ rows \in Rows /\ target \in Target /\ target # None
        /\ target.job \in Boundaries /\ Is(rows, target.job, {"pending"})
        /\ \A b \in Boundaries : ~Is(rows, b, {"running", "failed"})
        /\ \A b \in Boundaries : \A states : HasStatus(s, b, states) <=> Is(rows, b, states)
    BY <1>5, SegmentTerms DEF PickInv, Snapshot, Target
  <2>2. CASE EnqueueIgnored(s, q)
    <3>1. rows[q.boundary] = None /\ targets' = targets
      BY <2>2 DEF EnqueueIgnored
    <3>2. /\ new[q.boundary].status = "superseded"
          /\ \A c \in Boundaries \ {q.boundary} : new[c] = rows[c]
      BY <2>1, <2>2 DEF EnqueueIgnored, SetRow, TypeOK
    <3>3. /\ Is(new, target.job, {"pending"})
          /\ \A b \in Boundaries : ~Is(new, b, {"running", "failed"})
      BY <2>1, <3>1, <3>2 DEF Is
    <3>4. QED
      BY <1>2, <1>5, <2>1, <3>1, <3>3, PickKept DEF SameSource
  <2>3. CASE EnqueueRepeated(s, q)
    <3> DEFINE b == target.job
               row == rows[b]
               wanted == IF q.priority > target.source.priority
                         THEN [target.source EXCEPT !.priority = q.priority]
                         ELSE target.source
    <3>1. ~ResetStaleExtraction(s) /\ row \in Job /\ row # None /\ row.status = "pending"
      BY <2>1 DEF ResetStaleExtraction, Is, Rows
    <3>2. targets' = [targets EXCEPT ![s] = [target EXCEPT !.source = wanted]]
          /\ jobs' = [jobs EXCEPT ![s][b] =
                        [row EXCEPT !.source.priority = wanted.priority,
                                    !.payload = wanted]]
      <4>1. [target EXCEPT !.source = wanted, !.staged = @]
              = [target EXCEPT !.source = wanted]
        BY <2>1 DEF Target
      <4>2. [row EXCEPT !.source.priority = wanted.priority, !.payload = wanted,
                        !.status = @, !.attempts = @, !.lease = @, !.due = FALSE \/ @]
              = [row EXCEPT !.source.priority = wanted.priority, !.payload = wanted]
        BY <3>1 DEF Job
      <4>3. QED
        BY <2>3, <3>1, <4>1, <4>2 DEF EnqueueRepeated, SetRow
    <3>3. /\ wanted \in Snapshot /\ target.source \in Snapshot
          /\ SameSource(wanted, target.source)
      BY <1>1, <2>1 DEF Target, Snapshot, SameSource
    <3> HIDE DEF wanted
    <3>4. [row EXCEPT !.source.priority = wanted.priority, !.payload = wanted] \in Job
      <4>1. [row.source EXCEPT !.priority = wanted.priority] \in Snapshot
        BY <3>1, <3>3 DEF Job, Snapshot
      <4>2. QED
        BY <3>1, <3>3, <4>1 DEF Job
    <3>5. /\ new[b] # None /\ new[b].status = "pending"
          /\ \A c \in Boundaries \ {b} : new[c] = rows[c]
      <4> DEFINE better == [row EXCEPT !.source.priority = wanted.priority, !.payload = wanted]
      <4>1. better \in Job /\ better # None
        BY <3>4, NoneIsNoRow
      <4>2. better.status = "pending"
        BY <3>1 DEF Job
      <4> HIDE DEF better
      <4>3. jobs' = [jobs EXCEPT ![s][b] = better]
        BY <3>2 DEF better
      <4>4. /\ new[b] = better
            /\ \A c \in Boundaries \ {b} : new[c] = rows[c]
        BY <2>1, <4>3 DEF TypeOK
      <4>5. QED
        BY <4>1, <4>2, <4>4
    <3>6. /\ targets'[s] # None /\ targets'[s].job = b
          /\ targets'[s].generation = target.generation
          /\ targets'[s].staged = target.staged
          /\ SameSource(targets'[s].source, target.source)
      <4>1. [target EXCEPT !.source = wanted] \in Target
        BY <2>1, <3>3 DEF Target
      <4>2. QED
        BY <2>1, <3>2, <3>3, <4>1, NoneIsNoRow DEF TypeOK, Target
    <3>7. /\ Is(new, b, {"pending"})
          /\ \A c \in Boundaries : ~Is(new, c, {"running", "failed"})
      BY <2>1, <3>5 DEF Is
    <3>8. QED
      BY <1>2, <1>5, <3>6, <3>7, PickKept
  <2>4. CASE EnqueueSettled(s, q)
    BY <2>1, <2>4 DEF EnqueueSettled, SettledRequest
  <2>5. CASE EnqueueChanged(s, q)
    <3>1. PICK g \in Generations :
            /\ NextGeneration(s, g)
            /\ LET after == [job |-> q.boundary, source |-> q, generation |-> g,
                              staged |-> None, since |-> clock + 1]
               IN  /\ targets' = [targets EXCEPT ![s] = after]
                   /\ jobs' = [jobs EXCEPT ![s] = [b \in Boundaries |->
                        IF b = q.boundary
                        THEN IF HasStatus(s, b, {"running"}) THEN jobs[s][b]
                             ELSE PendingRow(after)
                        ELSE IF HasStatus(s, b, Discardable)
                             THEN SupersededRow(jobs[s][b])
                             ELSE jobs[s][b]]]
      BY <2>5 DEF EnqueueChanged
    <3>2. /\ targets'[s] \in Target /\ targets'[s] # None
          /\ targets'[s].job = q.boundary /\ targets'[s].generation = g
          /\ target.generation < g
      BY <2>1, <3>1, NoneIsNoRow, ConstantsAssumption
      DEF TypeOK, Generations, Target, NextGeneration
    <3>3. /\ new[q.boundary] = PendingRow(targets'[s])
          /\ \A c \in Boundaries \ {q.boundary} :
               new[c] = IF Is(rows, c, {"pending", "failed"}) THEN SupersededRow(rows[c])
                        ELSE rows[c]
      <4>1. PICK after : /\ targets' = [targets EXCEPT ![s] = after]
                         /\ jobs' = [jobs EXCEPT ![s] = [b \in Boundaries |->
                              IF b = q.boundary
                              THEN IF HasStatus(s, b, {"running"}) THEN jobs[s][b]
                                   ELSE PendingRow(after)
                              ELSE IF HasStatus(s, b, Discardable)
                                   THEN SupersededRow(jobs[s][b])
                                   ELSE jobs[s][b]]]
        BY <3>1
      <4>2. targets'[s] = after
        BY <2>1, <4>1 DEF TypeOK
      <4>3. \A c \in Boundaries :
              new[c] = IF c = q.boundary
                       THEN IF HasStatus(s, c, {"running"}) THEN jobs[s][c]
                            ELSE PendingRow(after)
                       ELSE IF HasStatus(s, c, Discardable) THEN SupersededRow(jobs[s][c])
                            ELSE jobs[s][c]
        BY <2>1, <4>1 DEF TypeOK
      <4>4. ~HasStatus(s, q.boundary, {"running"})
        BY <2>1 DEF Is
      <4>5. QED
        BY <2>1, <4>2, <4>3, <4>4 DEF Discardable
    <3>4. new[q.boundary] # None /\ new[q.boundary].status = "pending"
      BY <3>2, <3>3, NoneIsNoRow, PendingRowType DEF PendingRow
    <3>5. \A c \in Boundaries : ~Is(new, c, {"running", "failed"})
      <4>1. ASSUME NEW c \in Boundaries \ {q.boundary}, Is(rows, c, {"pending", "failed"})
            PROVE  new[c].status = "superseded"
        <5>1. rows[c] \in Job
          BY <2>1, <4>1 DEF Is, Rows
        <5>2. new[c] = SupersededRow(rows[c])
          BY <3>3, <4>1
        <5> HIDE DEF rows, new
        <5>3. QED
          BY <5>1, <5>2 DEF SupersededRow, Job
      <4>2. ASSUME NEW c \in Boundaries \ {q.boundary}, ~Is(rows, c, {"pending", "failed"})
            PROVE  ~Is(new, c, {"running", "failed"})
        <5>1. ~Is(rows, c, {"running", "failed"})
          BY <2>1
        <5>2. new[c] = rows[c]
          BY <3>3, <4>2
        <5> HIDE DEF rows, new
        <5>3. QED
          BY <5>1, <5>2 DEF Is
      <4>3. QED
        BY <3>4, <4>1, <4>2 DEF Is
    <3>6. targets'[s].generation > target.generation
      BY <2>1, <3>2 DEF Target
    <3>7. QED
      BY <1>2, <1>5, <2>1, <3>2, <3>4, <3>5, <3>6, PickKept DEF Is
  <2>6. QED
    BY <1>1, <2>2, <2>3, <2>4, <2>5
<1>6. QED
  BY <1>3, <1>4, <1>5

\* What the claim query selects is good when it is selected.
LEMMA ClaimPick ==
  ASSUME TypeOK, TypeOK', SegmentsInv, PickInv, Claim
  PROVE  PickInv'
<1>1. CASE \E lease \in Leases : ClaimPicked(lease)
  BY <1>1 DEF ClaimPicked, PickInv
<1>2. CASE DropPicked
  BY <1>2 DEF DropPicked, PickInv
<1>3. ASSUME NEW s \in Segments, SelectJob(s)
      PROVE  PickInv'
  <2> DEFINE rows == jobs[s]
             target == targets[s]
             b == target.job
  <2>1. /\ target # None /\ Is(rows, b, {"pending"})
        /\ \A c \in Boundaries : ~Is(rows, c, {"running"})
        /\ Wants(target, b, rows[b])
    BY <1>3 DEF SelectJob, Candidate, Eligible, HasStatus, Is, FailedTargetMatchesJob, Wants
  <2>2. /\ rows \in Rows /\ target \in Target /\ b \in Boundaries
        /\ Consistent(rows, target, segments[s])
    BY <2>1, SegmentTerms DEF SegmentsInv, SegmentInv, Target
  <2>3. \A c \in Boundaries : ~Is(rows, c, {"failed"})
    BY <2>1, <2>2 DEF Consistent, RowsAgree, Is, Wants
  <2>4. rows[b].payload = rows[b].source /\ rows[b].generation <= target.generation
    BY <2>1, <2>2 DEF Consistent, RowsAgree, RowFits, Is, Alive
  <2>5. picked' = [segment |-> s, boundary |-> b, row |-> rows[b],
                   extraction |-> IF StagedEligible(target)
                                  THEN target.staged.extraction ELSE None]
    BY <1>3 DEF SelectJob
  <2>6. /\ jobs' = jobs /\ targets' = targets
        /\ StagedEligible(targets[s])' <=> StagedEligible(target)
    BY <1>3 DEF SelectJob, store, StagedEligible
  <2>7. \A c \in Boundaries : ~Is(rows, c, {"running", "failed"})
    BY <2>1, <2>3 DEF Is
  <2> HIDE DEF rows, target
  <2>8. QED
    BY <2>1, <2>4, <2>5, <2>6, <2>7 DEF PickInv, rows, target
<1>4. QED
  BY <1>1, <1>2, <1>3 DEF Claim

\* An attempt that writes holds a lease, so it is of another segment.
LEMMA AttemptPick ==
  ASSUME TypeOK, SegmentsInv, PickInv, NEW t \in tasks, Attempt(t)
  PROVE  PickInv'
<1>1. picked' = picked /\ validation' = validation
  BY DEF Attempt, PublishExtraction, CommitResolution, FinishFailedAttempt,
         RequeueLatestTarget, StaleAttempt, workers
<1>2. HoldsLease(t) => picked = None \/ picked.segment # t.segment
  BY HeldClaim DEF PickInv, Is
<1>3. HoldsLease(t) \/ (jobs' = jobs /\ targets' = targets)
  BY DEF Attempt, PublishExtraction, CommitResolution, FinishFailedAttempt,
         RequeueLatestTarget, StaleAttempt, Current, store
<1>4. picked # None /\ picked.segment # t.segment =>
        /\ jobs'[picked.segment] = jobs[picked.segment]
        /\ targets'[picked.segment] = targets[picked.segment]
  BY DEF Attempt, PublishExtraction, CommitResolution, FinishFailedAttempt,
         RequeueLatestTarget, StaleAttempt, SetRow, TypeOK, Pick, store
<1>5. QED
  BY <1>1, <1>2, <1>3, <1>4, PickFrame

\* Repairs, recovery and faults leave a selection good or drop it.
LEMMA OtherPick ==
  ASSUME TypeOK, TypeOK', PickHasLeader, SegmentsInv, PickInv,
         \/ \E s \in Segments : Repair(s)
         \/ \E s \in Segments, b \in Boundaries : BackoffElapses(s, b)
         \/ Lead \/ Fault
  PROVE  PickInv'
<1>1. ASSUME NEW s \in Segments, Repair(s)
      PROVE  PickInv'
  <2>1. /\ picked' = picked /\ validation' = validation
        /\ \A x \in Segments \ {s} : jobs'[x] = jobs[x] /\ targets'[x] = targets[x]
    BY <1>1 DEF Repair, RetryFailedJob, SupersedeFailedJob, SetRow, TypeOK, workers
  <2>2. \E b \in Boundaries : Is(jobs[s], b, {"failed"})
    BY <1>1 DEF Repair, RetryFailedJob, SupersedeFailedJob, LockCurrentFailedTargetJob,
                HasStatus, Is
  <2>3. picked # None => picked.segment \in Segments \ {s}
    BY <2>2 DEF PickInv, TypeOK, Pick, Is
  <2>4. QED
    BY <2>1, <2>3, PickFrame
<1>2. ASSUME NEW s \in Segments, NEW b \in Boundaries, BackoffElapses(s, b)
      PROVE  PickInv'
  <2>1. /\ picked' = picked /\ validation' = validation /\ targets' = targets
        /\ \A x \in Segments \ {s} : jobs'[x] = jobs[x]
    BY <1>2 DEF BackoffElapses, TypeOK, workers
  <2>2. CASE picked = None \/ picked.segment # s
    BY <2>1, <2>2, PickFrame DEF TypeOK, Pick
  <2>3. CASE picked # None /\ picked.segment = s
    <3> DEFINE row == [jobs[s][b] EXCEPT !.due = TRUE]
    <3>1. /\ jobs[s][b] \in Job /\ jobs[s][b].status = "pending" /\ jobs[s] \in Rows
          /\ targets[s] \in Target /\ targets[s] # None /\ targets[s].generation \in Nat
      BY <1>2, <2>3, RowsPresent, SegmentTerms
      DEF BackoffElapses, HasStatus, PickInv, Target
    <3>2. row \in Job /\ row.status = "pending" /\ row # None
      <4>1. row \in Job /\ row.status = "pending"
        BY <3>1 DEF Job
      <4>2. QED
        BY <4>1, NoneIsNoRow
    <3>3. jobs'[s][b] = row /\ \A c \in Boundaries \ {b} : jobs'[s][c] = jobs[s][c]
      BY <1>2, <3>1 DEF BackoffElapses, TypeOK
    <3> HIDE DEF row
    <3>4. /\ Is(jobs'[s], targets[s].job, {"pending"})
          /\ \A c \in Boundaries : ~Is(jobs'[s], c, {"running", "failed"})
      BY <2>3, <3>1, <3>2, <3>3 DEF PickInv, Is, Target
    <3>5. QED
      BY <2>1, <2>3, <3>1, <3>4, PickKept DEF SameSource
  <2>4. QED
    BY <2>2, <2>3
<1>3. CASE Lead
  <2>1. picked = None /\ picked' = picked
    BY <1>3 DEF Lead, AcquireLock, RecoverSegment, BeginWork, ReleaseLock, PickHasLeader
  <2>2. QED
    BY <2>1 DEF PickInv
<1>4. CASE Fault
  <2>1. \/ picked' = None
        \/ /\ picked' = picked /\ validation' = validation
           /\ jobs' = jobs /\ targets' = targets
    BY <1>4 DEF Fault, StopWorker, LoseConnection, Crash, DeployNewValidation,
                AttemptLost, NoLeader, workers, store
  <2>2. QED
    BY <2>1, PickFrame DEF PickInv
<1>5. QED
  BY <1>1, <1>2, <1>3, <1>4

-----------------------------------------------------------------------------
(* The invariant, and the properties that follow from it.                  *)

QueueInv == TypeOK /\ PickHasLeader /\ SegmentsInv /\ PickInv

\* The empty database satisfies the invariant.
LEMMA QueueInvInit == Init => QueueInv
  BY InitTyped
  DEF Init, QueueInv, SegmentsInv, SegmentInv, Consistent, RowsAgree, TargetAgrees,
      OneRuns, Is, PickInv

\* No step of the service leaves the invariant.
LEMMA QueueInvStep ==
  ASSUME QueueInv, [Next]_vars
  PROVE  QueueInv'
<1> USE DEF QueueInv
<1>1. TypeOK' /\ PickHasLeader'
  BY TypeStep
<1>2. CASE UNCHANGED vars
  <2>1. PickInv'
    BY <1>2, PickFrame DEF vars, store, workers
  <2>2. SegmentsInv'
    BY <1>2 DEF vars, store, SegmentsInv, SegmentInv
  <2>3. QED
    BY <1>1, <2>1, <2>2
<1>3. ASSUME NEW s \in Segments, Enqueue(s)
      PROVE  QueueInv'
  BY <1>1, <1>3, EnqueueSegments, EnqueuePick
<1>4. ASSUME NEW s \in Segments, Repair(s)
      PROVE  QueueInv'
  BY <1>1, <1>4, RepairSegments, OtherPick
<1>5. ASSUME NEW s \in Segments, NEW b \in Boundaries, BackoffElapses(s, b)
      PROVE  QueueInv'
  BY <1>1, <1>5, BackoffSegments, OtherPick
<1>6. CASE Lead
  <2>1. SegmentsInv'
    <3>1. ASSUME NEW s \in Segments, RecoverSegment(s)
          PROVE  SegmentsInv'
      BY <1>1, <3>1, RecoverSegments
    <3>2. ASSUME jobs' = jobs, targets' = targets, segments' = segments
          PROVE  SegmentsInv'
      BY <3>2 DEF SegmentsInv, SegmentInv
    <3>3. QED
      BY <1>6, <3>1, <3>2 DEF Lead, AcquireLock, BeginWork, ReleaseLock, store
  <2>2. QED
    BY <1>1, <1>6, <2>1, OtherPick
<1>7. CASE Claim
  <2>1. SegmentsInv'
    <3>1. ASSUME NEW lease \in Leases, ClaimPicked(lease)
          PROVE  SegmentsInv'
      BY <1>1, <3>1, ClaimSegments
    <3>2. ASSUME jobs' = jobs, targets' = targets, segments' = segments
          PROVE  SegmentsInv'
      BY <3>2 DEF SegmentsInv, SegmentInv
    <3>3. QED
      BY <1>7, <3>1, <3>2 DEF Claim, SelectJob, DropPicked, store
  <2>2. QED
    BY <1>1, <1>7, <2>1, ClaimPick
<1>8. ASSUME NEW t \in tasks, Attempt(t)
      PROVE  QueueInv'
  BY <1>1, <1>8, AttemptSegments, AttemptPick
<1>9. CASE Fault
  <2>1. jobs' = jobs /\ targets' = targets /\ segments' = segments
    BY <1>9 DEF Fault, StopWorker, LoseConnection, Crash, DeployNewValidation,
                AttemptLost, store
  <2>2. SegmentsInv'
    BY <2>1 DEF SegmentsInv, SegmentInv
  <2>3. QED
    BY <1>1, <1>9, <2>2, OtherPick
<1>10. QED
  BY <1>2, <1>3, <1>4, <1>5, <1>6, <1>7, <1>8, <1>9 DEF Next

\* The invariant holds in every reachable state.
THEOREM QueueInvariant == Spec => []QueueInv
  BY QueueInvInit, QueueInvStep, PTL DEF Spec

\* What the invariant says of each segment, in the specification's words.
LEMMA QueueInvGives ==
  ASSUME QueueInv
  PROVE  /\ TargetIsBacked /\ QueueFollowsTarget /\ RunningHasSuccessor /\ OneRunning
         /\ PayloadIsIntact /\ GenerationsAreOrdered
<1>1. ASSUME NEW s \in Segments
      PROVE  /\ Consistent(jobs[s], targets[s], segments[s])
             /\ targets[s] # None => targets[s].job \in Boundaries
             /\ \A b \in Boundaries : \A states :
                  HasStatus(s, b, states) <=> Is(jobs[s], b, states)
             /\ \A b \in Boundaries : FailedTargetMatchesJob(s, b)
                  <=> Wants(targets[s], b, jobs[s][b])
  BY SegmentTerms DEF QueueInv, SegmentsInv, SegmentInv, Target
<1>2. TargetIsBacked
  BY <1>1 DEF TargetIsBacked, Consistent, TargetAgrees, Alive, HasStatus, Is
<1>3. QueueFollowsTarget
  BY <1>1 DEF QueueFollowsTarget, Consistent, RowsAgree, Is
<1>4. RunningHasSuccessor
  BY <1>1 DEF RunningHasSuccessor, Consistent, RowsAgree, Is, HasStatus
<1>5. OneRunning
  BY <1>1 DEF OneRunning, Consistent, OneRuns
<1>6. PayloadIsIntact
  BY <1>1 DEF PayloadIsIntact, Consistent, RowsAgree, RowFits, Alive
<1>7. GenerationsAreOrdered
  BY <1>1 DEF GenerationsAreOrdered, Consistent, RowsAgree, TargetAgrees
<1>8. QED
  BY <1>2, <1>3, <1>4, <1>5, <1>6, <1>7

\* A wanted snapshot always has a row that waits, runs or can be repaired.
THEOREM WantedIsBacked == Spec => []TargetIsBacked
  BY QueueInvariant, QueueInvGives, PTL

\* Whatever waits or failed is the wanted snapshot: nothing is stranded where
\* neither the claim query nor an operator's repair can reach it.
THEOREM NothingIsStranded == Spec => []QueueFollowsTarget
  BY QueueInvariant, QueueInvGives, PTL

\* What is posted during an extraction is queued behind it.
THEOREM SuccessorIsQueued == Spec => []RunningHasSuccessor
  BY QueueInvariant, QueueInvGives, PTL

\* Two rows of a segment are never extracted at the same time.
THEOREM SegmentRunsOnce == Spec => []OneRunning
  BY QueueInvariant, QueueInvGives, PTL

\* A claim never finds a payload it must refuse, nor a group to quarantine.
THEOREM PayloadsStayIntact == Spec => []PayloadIsIntact
  BY QueueInvariant, QueueInvGives, PTL

\* The wanted snapshot is the newest of its segment.
THEOREM WantedIsNewest == Spec => []GenerationsAreOrdered
  BY QueueInvariant, QueueInvGives, PTL

-----------------------------------------------------------------------------
(* The queue implements SegmentMemory.                                     *)

(* What a target row says of the abstract variables. *)
Wanted(target) ==
  IF target = None THEN None
  ELSE [source |-> IdentityOf(target.source), generation |-> target.generation]

DraftOf(target) ==
  IF target = None \/ target.staged = None THEN None ELSE target.staged.extraction

(* Nothing but the target and the summary of s moves. *)
OnlyMoves(s) == \A x \in Segments \ {s} :
  targets'[x] = targets[x] /\ segments'[x] = segments[x]

-----------------------------------------------------------------------------
(* From the rows of one segment to the abstract actions.                   *)

\* A target row wants a snapshot, and None wants nothing.
LEMMA WantedTerms ==
  ASSUME NEW target \in Target \cup {None}
  PROVE  /\ target = None <=> Wanted(target) = None
         /\ target # None =>
              /\ Wanted(target).source = IdentityOf(target.source)
              /\ Wanted(target).source \in Identity
              /\ Wanted(target).generation = target.generation
         /\ DraftOf(target) # None <=> target # None /\ target.staged # None
<1>1. CASE target = None
  BY <1>1 DEF Wanted, DraftOf
<1>2. CASE target \in Target
  <2>1. /\ target.source \in Snapshot /\ target.generation \in Nat /\ target # None
        /\ target.staged = None \/ target.staged.extraction \in Extraction
    BY <1>2, NoneIsNoRow DEF Target, Staged
  <2>2. IdentityOf(target.source) \in Identity
    BY <2>1 DEF IdentityOf, Identity, Snapshot
  <2>3. Wanted(target) \in Wish
    BY <2>1, <2>2 DEF Wanted, Wish
  <2>4. QED
    BY <2>1, <2>2, <2>3, NoneIsNoRow, NoneIsNoRecord DEF Wanted, DraftOf
<1>3. QED
  BY <1>1, <1>2

\* The abstract variables move where the rows do.
LEMMA AbstractMoves ==
  ASSUME TypeOK, TypeOK', NEW s \in Segments, OnlyMoves(s)
  PROVE  /\ [x \in Segments |-> Wanted(targets'[x])] =
              [[x \in Segments |-> Wanted(targets[x])] EXCEPT ![s] = Wanted(targets'[s])]
         /\ [x \in Segments |-> DraftOf(targets'[x])] =
              [[x \in Segments |-> DraftOf(targets[x])] EXCEPT ![s] = DraftOf(targets'[s])]
         /\ segments' = [segments EXCEPT ![s] = segments'[s]]
  BY DEF OnlyMoves, TypeOK

\* A row that keeps its snapshot and its staging keeps the abstract state.
LEMMA Stutters ==
  ASSUME TypeOK, TypeOK', segments' = segments,
         \A x \in Segments : /\ Wanted(targets'[x]) = Wanted(targets[x])
                             /\ DraftOf(targets'[x]) = DraftOf(targets[x])
  PROVE  UNCHANGED Memories!vars
<1>1. /\ [x \in Segments |-> Wanted(targets'[x])] = [x \in Segments |-> Wanted(targets[x])]
      /\ [x \in Segments |-> DraftOf(targets'[x])] = [x \in Segments |-> DraftOf(targets[x])]
  OBVIOUS
<1>2. QED
  BY <1>1 DEF Memories!vars, Wanted, DraftOf

\* A newer snapshot is posted.
LEMMA Posts ==
  ASSUME TypeOK, TypeOK', NEW s \in Segments, OnlyMoves(s), segments' = segments,
         NEW q \in Snapshot, NEW g \in Generations,
         targets'[s] # None, targets'[s].source = q, targets'[s].generation = g,
         targets'[s].staged = None,
         targets[s] # None => /\ targets[s].generation < g
                              /\ targets[s].source.version <= q.version,
         segments[s] # None => /\ segments[s].generation < g
                               /\ segments[s].source.version <= q.version
  PROVE  Memories!Next
<1>1. /\ IdentityOf(q) \in Identity /\ IdentityOf(q).version = q.version
      /\ Wanted(targets'[s]) = [source |-> IdentityOf(q), generation |-> g]
      /\ DraftOf(targets'[s]) = None
  BY DEF IdentityOf, Identity, Snapshot, Wanted, DraftOf
<1>2. \A old \in {Wanted(targets[s]), segments[s]} \ {None} :
        old.generation < g /\ old.source.version <= IdentityOf(q).version
  <2>1. Wanted(targets[s]) # None =>
          /\ targets[s] # None
          /\ Wanted(targets[s]).generation = targets[s].generation
          /\ Wanted(targets[s]).source.version = targets[s].source.version
    <3>1. targets[s] \in Target \cup {None}
      BY DEF TypeOK
    <3>2. targets[s] # None => IdentityOf(targets[s].source).version = targets[s].source.version
      BY DEF IdentityOf
    <3>3. QED
      BY <3>1, <3>2, WantedTerms
  <2>2. QED
    BY <1>1, <2>1
<1>3. Memories!Post(s)
  BY <1>1, <1>2, AbstractMoves DEF Memories!Post, Wanted, DraftOf
<1>4. QED
  BY <1>3 DEF Memories!Next

\* A result of the wanted snapshot is staged.
LEMMA Drafts ==
  ASSUME TypeOK, TypeOK', NEW s \in Segments, OnlyMoves(s), segments' = segments,
         targets[s] # None, Wanted(targets'[s]) = Wanted(targets[s]),
         NEW text \in Texts,
         DraftOf(targets'[s]) = [boundary |-> targets[s].source.boundary,
                                 content |-> targets[s].source.content, text |-> text]
  PROVE  Memories!Next
<1>1. [x \in Segments |-> Wanted(targets'[x])] = [x \in Segments |-> Wanted(targets[x])]
  BY DEF OnlyMoves
<1>2. Wanted(targets[s]) # None
  BY WantedTerms DEF TypeOK
<1>3. DraftOf(targets'[s]) = Memories!ResultOf(Wanted(targets[s]).source, text)
  BY DEF Memories!ResultOf, Wanted, IdentityOf
<1>4. Memories!Draft(s)
  BY <1>1, <1>2, <1>3, AbstractMoves DEF Memories!Draft, Wanted, DraftOf
<1>5. QED
  BY <1>4 DEF Memories!Next

\* What was staged, if anything, is dropped.
LEMMA Discards ==
  ASSUME TypeOK, TypeOK', NEW s \in Segments, OnlyMoves(s), segments' = segments,
         targets[s] # None, Wanted(targets'[s]) = Wanted(targets[s]),
         DraftOf(targets'[s]) = None
  PROVE  Memories!Next
<1>1. [x \in Segments |-> Wanted(targets'[x])] = [x \in Segments |-> Wanted(targets[x])]
  BY DEF OnlyMoves
<1>2. Wanted(targets[s]) # None
  BY WantedTerms DEF TypeOK
<1>3. Memories!Discard(s)
  BY <1>1, <1>2, AbstractMoves DEF Memories!Discard, Wanted, DraftOf
<1>4. QED
  BY <1>3 DEF Memories!Next

\* The snapshot is no longer wanted, and nothing is remembered of it.
LEMMA Withdraws ==
  ASSUME TypeOK, TypeOK', NEW s \in Segments, OnlyMoves(s), segments' = segments,
         targets[s] # None, targets'[s] = None
  PROVE  Memories!Next
<1>1. /\ Wanted(targets[s]) # None
      /\ Wanted(targets'[s]) = None /\ DraftOf(targets'[s]) = None
  BY WantedTerms DEF TypeOK, Wanted, DraftOf
<1>2. Memories!Withdraw(s)
  BY <1>1, AbstractMoves DEF Memories!Withdraw, Wanted, DraftOf
<1>3. QED
  BY <1>2 DEF Memories!Next

\* The staged result becomes the memory.
LEMMA Commits ==
  ASSUME TypeOK, TypeOK', NEW s \in Segments, OnlyMoves(s),
         targets[s] # None, targets'[s] = None, targets[s].staged # None,
         segments'[s] = [source |-> IdentityOf(targets[s].source),
                         generation |-> targets[s].generation,
                         extraction |-> targets[s].staged.extraction]
  PROVE  Memories!Next
<1>1. /\ Wanted(targets[s]) # None /\ DraftOf(targets[s]) # None
      /\ Wanted(targets'[s]) = None /\ DraftOf(targets'[s]) = None
      /\ segments'[s] = [source |-> Wanted(targets[s]).source,
                         generation |-> Wanted(targets[s]).generation,
                         extraction |-> DraftOf(targets[s])]
  BY WantedTerms DEF TypeOK, Wanted, DraftOf
<1>2. Memories!Commit(s)
  BY <1>1, AbstractMoves DEF Memories!Commit, Wanted, DraftOf
<1>3. QED
  BY <1>2 DEF Memories!Next

-----------------------------------------------------------------------------
(* Each operation of the queue as a step of the abstract memory.           *)

AbstractStep == [Memories!Next]_(Memories!vars)

\* What leaves targets and summaries alone changes nothing abstract.
LEMMA OtherSteps ==
  ASSUME targets' = targets, segments' = segments
  PROVE  AbstractStep
BY DEF AbstractStep, Memories!vars

\* A post of a changed snapshot posts; a repeated one may discard.
LEMMA EnqueueMaps ==
  ASSUME TypeOK, TypeOK', NEW s \in Segments, Enqueue(s)
  PROVE  AbstractStep
<1>1. PICK q \in Snapshot : \/ EnqueueIgnored(s, q) \/ EnqueueRepeated(s, q)
                            \/ EnqueueSettled(s, q) \/ EnqueueChanged(s, q)
  BY DEF Enqueue
<1>2. CASE EnqueueIgnored(s, q) \/ EnqueueSettled(s, q)
  BY <1>2, OtherSteps DEF EnqueueIgnored, EnqueueSettled
<1>3. CASE EnqueueRepeated(s, q)
  <2>1. targets[s] # None /\ targets[s] \in Target
    BY <1>3 DEF EnqueueRepeated, TargetMatchesRequest, TypeOK
  <2>2. PICK wanted \in {targets[s].source, [targets[s].source EXCEPT !.priority = q.priority]},
             reset \in BOOLEAN :
          targets' = [targets EXCEPT ![s] =
            [targets[s] EXCEPT !.source = wanted, !.staged = IF reset THEN None ELSE @]]
    BY <1>3 DEF EnqueueRepeated
  <2>3. IdentityOf(wanted) = IdentityOf(targets[s].source)
    BY <2>1, <2>2 DEF IdentityOf, Target, Snapshot
  <2>4. targets'[s] = [targets[s] EXCEPT !.source = wanted,
                                         !.staged = IF reset THEN None ELSE @]
    BY <2>2 DEF TypeOK
  <2>5. /\ targets'[s].source = wanted /\ targets'[s].generation = targets[s].generation
        /\ targets'[s].staged = None \/ targets'[s].staged = targets[s].staged
    BY <2>1, <2>4 DEF Target
  <2>6. targets'[s] # None
    <3>1. wanted \in Snapshot
      BY <2>1, <2>2 DEF Target, Snapshot
    <3>2. targets'[s] \in Target
      BY <2>1, <2>4, <3>1 DEF Target
    <3>3. QED
      BY <3>2, NoneIsNoRow
  <2>7. segments' = segments /\ OnlyMoves(s)
    BY <1>3, <2>2 DEF EnqueueRepeated, TypeOK, OnlyMoves
  <2>8. Wanted(targets'[s]) = Wanted(targets[s])
    BY <2>1, <2>3, <2>5, <2>6 DEF Wanted
  <2>9. CASE targets'[s].staged = None
    BY <2>1, <2>7, <2>8, <2>9, Discards DEF DraftOf, AbstractStep
  <2>10. CASE targets'[s].staged = targets[s].staged
    <3>1. DraftOf(targets'[s]) = DraftOf(targets[s])
      BY <2>1, <2>6, <2>10 DEF DraftOf
    <3>2. QED
      BY <2>7, <2>8, <3>1, Stutters DEF OnlyMoves, AbstractStep
  <2>11. QED
    BY <2>5, <2>9, <2>10
<1>4. CASE EnqueueChanged(s, q)
  <2>1. ~LowerVersion(s, q) /\ segments' = segments
    BY <1>4 DEF EnqueueChanged
  <2>2. PICK g \in Generations :
          /\ NextGeneration(s, g)
          /\ targets' = [targets EXCEPT ![s] =
               [job |-> q.boundary, source |-> q, generation |-> g,
                staged |-> None, since |-> clock + 1]]
    BY <1>4 DEF EnqueueChanged
  <2>3. targets'[s] = [job |-> q.boundary, source |-> q, generation |-> g,
                       staged |-> None, since |-> clock + 1]
    BY <2>2 DEF TypeOK
  <2>4. targets'[s] \in Target /\ g \in Nat /\ q.version \in Nat
    <3>1. g \in Nat /\ q.boundary \in Boundaries /\ q.version \in Nat /\ clock + 1 \in Nat
      <4>1. clock + 1 \in Nat
        BY DEF TypeOK
      <4>2. q.boundary \in Boundaries /\ q.version \in Versions
        BY DEF Snapshot
      <4>3. g \in Nat
        BY ConstantsAssumption DEF Generations
      <4>4. q.version \in Nat
        BY <4>2, ConstantsAssumption
      <4>5. QED
        BY <4>1, <4>2, <4>3, <4>4
    <3>2. [job |-> q.boundary, source |-> q, generation |-> g,
           staged |-> None, since |-> clock + 1] \in Target
      BY <3>1 DEF Target
    <3>3. QED
      BY <2>3, <3>1, <3>2
  <2>5. targets'[s] # None
    BY <2>4, NoneIsNoRow
  <2>6. targets[s] # None => /\ targets[s].generation < g
                             /\ targets[s].source.version <= q.version
    <3>1. ASSUME targets[s] # None PROVE targets[s].source.version \in Nat
      BY <3>1, ConstantsAssumption DEF TypeOK, Target, Snapshot
    <3>2. targets[s] # None => targets[s].generation < g
      BY <2>2 DEF NextGeneration
    <3>3. QED
      BY <2>1, <2>4, <3>1, <3>2 DEF LowerVersion
  <2>7. segments[s] # None => /\ segments[s].generation < g
                              /\ segments[s].source.version <= q.version
    <3>1. ASSUME segments[s] # None PROVE segments[s].source.version \in Nat
      BY <3>1, ConstantsAssumption DEF TypeOK, Memory, Identity
    <3>2. segments[s] # None => segments[s].generation < g
      BY <2>2 DEF NextGeneration
    <3>3. QED
      BY <2>1, <2>4, <3>1, <3>2 DEF LowerVersion
  <2>8. OnlyMoves(s)
    BY <2>1, <2>2 DEF OnlyMoves, TypeOK
  <2>9. QED
    BY <2>1, <2>3, <2>5, <2>6, <2>7, <2>8, Posts DEF AbstractStep
<1>5. QED
  BY <1>1, <1>2, <1>3, <1>4

\* An operator's restart discards, and giving the job up withdraws.
LEMMA RepairMaps ==
  ASSUME TypeOK, TypeOK', NEW s \in Segments, Repair(s)
  PROVE  AbstractStep
<1>1. PICK b \in Boundaries : \/ RetryFailedJob(s, b, FALSE) \/ RetryFailedJob(s, b, TRUE)
                              \/ SupersedeFailedJob(s, b)
  BY DEF Repair
<1>2. targets[s] # None /\ targets[s] \in Target /\ segments' = segments
  BY <1>1 DEF RetryFailedJob, SupersedeFailedJob, LockCurrentFailedTargetJob,
              FailedTargetMatchesJob, TypeOK
<1>3. CASE RetryFailedJob(s, b, FALSE)
  BY <1>3, OtherSteps DEF RetryFailedJob
<1>4. CASE RetryFailedJob(s, b, TRUE)
  <2>1. targets' = [targets EXCEPT ![s].staged = None]
    BY <1>4 DEF RetryFailedJob
  <2>2. targets'[s] = [targets[s] EXCEPT !.staged = None]
    BY <2>1 DEF TypeOK
  <2>3. /\ targets'[s] \in Target /\ targets'[s].source = targets[s].source
        /\ targets'[s].generation = targets[s].generation /\ targets'[s].staged = None
    BY <1>2, <2>2 DEF Target
  <2>4. targets'[s] # None
    BY <2>3, NoneIsNoRow
  <2>5. Wanted(targets'[s]) = Wanted(targets[s]) /\ DraftOf(targets'[s]) = None
    BY <1>2, <2>3, <2>4 DEF Wanted, DraftOf
  <2>6. OnlyMoves(s)
    BY <1>2, <2>1 DEF OnlyMoves, TypeOK
  <2>7. QED
    BY <1>2, <2>5, <2>6, Discards DEF AbstractStep
<1>5. CASE SupersedeFailedJob(s, b)
  <2>1. targets' = [targets EXCEPT ![s] = None]
    BY <1>5 DEF SupersedeFailedJob
  <2>2. targets'[s] = None /\ OnlyMoves(s)
    BY <1>2, <2>1 DEF OnlyMoves, TypeOK
  <2>3. QED
    BY <1>2, <2>2, Withdraws DEF AbstractStep
<1>6. QED
  BY <1>1, <1>3, <1>4, <1>5

\* The end of an attempt commits, or gives up what is remembered already.
LEMMA AttemptMaps ==
  ASSUME TypeOK, TypeOK', NEW t \in tasks, Attempt(t)
  PROVE  AbstractStep
<1> DEFINE s == t.segment
<1>1. s \in Segments /\ t \in Task /\ t.source \in Identity
  BY DEF TypeOK, Task
<1>2. CASE RequeueLatestTarget(t) \/ StaleAttempt(t)
  BY <1>2, OtherSteps DEF RequeueLatestTarget, StaleAttempt, store
<1>3. ASSUME Current(t)
      PROVE  /\ targets[s] # None /\ targets[s] \in Target
             /\ targets[s].generation = t.generation
             /\ IdentityOf(targets[s].source) = t.source
  <2>1. /\ targets[s] # None /\ targets[s].generation = t.generation
        /\ SameSource(targets[s].source, t.source)
    BY <1>3 DEF Current, TargetMatchesJob
  <2>2. IdentityOf(targets[s].source) = t.source
    BY <1>1, <2>1 DEF IdentityOf, SameSource, Identity
  <2>3. QED
    BY <1>1, <2>1, <2>2 DEF TypeOK
<1> HIDE DEF s
<1>4. ASSUME targets' = [targets EXCEPT ![s] = None]
      PROVE  targets'[s] = None /\ \A x \in Segments \ {s} : targets'[x] = targets[x]
  BY <1>1, <1>4 DEF TypeOK
<1>5. ASSUME NEW text \in Texts, PublishExtraction(t, text)
      PROVE  AbstractStep
  <2>1. /\ Current(t) /\ segments' = segments
        /\ targets' = [targets EXCEPT ![s].staged =
             [extraction |-> Extracted(t, text), validation |-> validation]]
    BY <1>5 DEF PublishExtraction, s
  <2>2. targets[s] # None /\ targets[s] \in Target /\ IdentityOf(targets[s].source) = t.source
    BY <1>3, <2>1
  <2>3. targets'[s] = [targets[s] EXCEPT !.staged =
             [extraction |-> Extracted(t, text), validation |-> validation]]
    BY <1>1, <2>1 DEF TypeOK
  <2>4. /\ targets'[s].source = targets[s].source
        /\ targets'[s].generation = targets[s].generation
        /\ targets'[s].staged.extraction = Extracted(t, text)
        /\ targets'[s].staged = [extraction |-> Extracted(t, text), validation |-> validation]
    BY <2>2, <2>3 DEF Target
  <2>5. Extracted(t, text) \in Extraction
    BY <1>1 DEF Extracted, Extraction, Identity
  <2>6. targets'[s].staged \in Staged
    BY <2>4, <2>5 DEF Staged, TypeOK
  <2>7. targets'[s].staged # None
    BY <2>6, NoneIsNoRow
  <2>8. targets'[s] \in Target
    BY <2>2, <2>3, <2>4, <2>6 DEF Target
  <2>9. targets'[s] # None
    BY <2>8, NoneIsNoRow
  <2>10. Wanted(targets'[s]) = Wanted(targets[s])
    BY <2>2, <2>4, <2>9 DEF Wanted
  <2>11. Extracted(t, text) = [boundary |-> targets[s].source.boundary,
                               content |-> targets[s].source.content, text |-> text]
    BY <2>2 DEF Extracted, IdentityOf
  <2>12. DraftOf(targets'[s]) = Extracted(t, text)
    BY <2>4, <2>7, <2>9 DEF DraftOf
  <2>13. OnlyMoves(s)
    BY <1>1, <2>1 DEF OnlyMoves, TypeOK
  <2>14. QED
    BY <1>1, <2>1, <2>2, <2>10, <2>11, <2>12, <2>13, Drafts DEF AbstractStep
<1>6. CASE CommitResolution(t)
  <2>1. /\ Current(t) /\ targets' = [targets EXCEPT ![s] = None]
        /\ targets[s].staged # None /\ targets[s].staged.extraction = t.extraction
    BY <1>6 DEF CommitResolution, StagedEligible, s
  <2>2. CASE segments' = segments
    <3>1. OnlyMoves(s) /\ targets'[s] = None
      BY <1>4, <2>1, <2>2 DEF OnlyMoves
    <3>2. QED
      BY <1>1, <1>3, <2>1, <2>2, <3>1, Withdraws DEF AbstractStep
  <2>3. CASE segments' = [segments EXCEPT ![s] =
                [source |-> t.source, generation |-> t.generation,
                 extraction |-> t.extraction]]
    <3>1. OnlyMoves(s) /\ targets'[s] = None
      BY <1>1, <1>4, <2>1, <2>3 DEF OnlyMoves, TypeOK
    <3>2. segments'[s] = [source |-> t.source, generation |-> t.generation,
                          extraction |-> t.extraction]
      BY <1>1, <2>3 DEF TypeOK
    <3>3. QED
      BY <1>1, <1>3, <2>1, <3>1, <3>2, Commits DEF AbstractStep
  <2>4. QED
    BY <1>6, <2>2, <2>3 DEF CommitResolution, s
<1>7. ASSUME NEW terminal \in BOOLEAN, FinishFailedAttempt(t, terminal)
      PROVE  AbstractStep
  <2>1. /\ Current(t) /\ segments' = segments
        /\ targets' = targets \/ targets' = [targets EXCEPT ![s] = None]
    BY <1>7 DEF FinishFailedAttempt, s
  <2>2. CASE targets' = targets
    BY <2>1, <2>2, OtherSteps
  <2>3. CASE targets' = [targets EXCEPT ![s] = None]
    <3>1. OnlyMoves(s) /\ targets'[s] = None
      BY <1>4, <2>1, <2>3 DEF OnlyMoves
    <3>2. QED
      BY <1>1, <1>3, <2>1, <3>1, Withdraws DEF AbstractStep
  <2>4. QED
    BY <2>1, <2>2, <2>3
<1>8. QED
  BY <1>2, <1>5, <1>6, <1>7 DEF Attempt

\* Leading, claiming, waiting and failing leave the abstract memory alone.
LEMMA RestMaps ==
  ASSUME \/ Lead \/ Claim \/ Fault \/ UNCHANGED vars
         \/ \E s \in Segments, b \in Boundaries : BackoffElapses(s, b)
  PROVE  AbstractStep
<1>1. targets' = targets /\ segments' = segments
  <2>1. CASE Lead
    BY <2>1 DEF Lead, AcquireLock, RecoverSegment, BeginWork, ReleaseLock, store
  <2>2. CASE Claim
    BY <2>2 DEF Claim, SelectJob, DropPicked, ClaimPicked, store
  <2>3. CASE Fault
    BY <2>3 DEF Fault, StopWorker, LoseConnection, Crash, DeployNewValidation,
                AttemptLost, store
  <2>4. CASE UNCHANGED vars
    BY <2>4 DEF vars, store
  <2>5. CASE \E s \in Segments, b \in Boundaries : BackoffElapses(s, b)
    BY <2>5 DEF BackoffElapses
  <2>6. QED
    BY <2>1, <2>2, <2>3, <2>4, <2>5
<1>2. QED
  BY <1>1, OtherSteps

\* Nothing is wanted, drafted or remembered at first.
LEMMA InitMaps == Init => Memories!Init
BY DEF Init, Memories!Init

\* Whatever workers, replicas, crashes, restarts and deploys do, a reader of a
\* segment sees the snapshots that were posted, in the order of their
\* generations and never an older projection version, and each memory is the
\* draft of its own snapshot.
THEOREM QueueImplementsMemory == Spec => ImplementsSegmentMemory
<1>1. ASSUME TypeOK, TypeOK', [Next]_vars
      PROVE  AbstractStep
  <2>1. CASE Next
    BY <1>1, <2>1, EnqueueMaps, RepairMaps, AttemptMaps, RestMaps DEF Next
  <2>2. CASE UNCHANGED vars
    BY <2>2, RestMaps
  <2>3. QED
    BY <1>1, <2>1, <2>2
<1>2. TypeOK /\ TypeOK' /\ [Next]_vars => [Memories!Next]_(Memories!vars)
  BY <1>1 DEF AbstractStep
<1>3. QED
  BY <1>2, InitMaps, TypeCorrect, PTL DEF Spec, ImplementsSegmentMemory, Memories!Spec

-----------------------------------------------------------------------------
(* Leases, selections and attempts. *)

Runs(s, b) == Is(jobs[s], b, {"running"})

(* A lease names one running row and one attempt. *)
LeaseInv ==
  /\ \A s, x \in Segments : \A b, c \in Boundaries :
       Runs(s, b) /\ Runs(x, c) /\ jobs[s][b].lease = jobs[x][c].lease => s = x /\ b = c
  /\ \A t, u \in tasks : t.lease = u.lease => t = u

(* What an attempt that may still write knows, part by part. *)
Accurate(t) ==
  /\ PersistedJobMatchesClaim(t)
  /\ t.attempts = RowOf(t).attempts
  /\ TargetMatchesJob(t) =>
       t.extraction = IF StagedEligible(targets[t.segment])
                      THEN targets[t.segment].staged.extraction ELSE None

(* Once a leader works, only its own attempts hold leases: recovery takes  *)
(* the others' away, segment by segment.                                   *)
HoldersLead == \A t \in tasks : HoldsLease(t) =>
  /\ phase \in {"working", "stopping"} => t.replica = leader
  /\ phase = "recovering" => t.segment \in toRecover

(* The selected row's session is free of the leader's attempts. *)
PickedIsAlone == picked # None =>
  \A t \in TasksOf(leader) : SessionOf[t.segment] # SessionOf[picked.segment]

Budget == WorkerMaxAttempts + restarts

(* Recovery adds a claim to a row without adding a restart, so a row that  *)
(* runs while nobody works has one claim to spare.  A stopping leader may  *)
(* still claim, so its waiting rows have one too.                          *)
AttemptBudget ==
  /\ \A s \in Segments, b \in Boundaries : jobs[s][b] # None =>
       /\ jobs[s][b].attempts <= Budget
       /\ jobs[s][b].status = "pending" => jobs[s][b].attempts + 1 <= Budget
       /\ jobs[s][b].status = "running" /\ phase # "working" =>
            jobs[s][b].attempts < Budget
       /\ jobs[s][b].status = "pending" /\ phase = "stopping" =>
            jobs[s][b].attempts + 1 < Budget
  /\ phase = "stopping" => restarts > 0

(* A row that was reset, or whose count was left alone without being put    *)
(* back in the queue.                                                       *)
Eased(row, new) == new # None =>
  \/ new.attempts = 0 /\ new.status # "running"
  \/ /\ row # None /\ new.attempts = row.attempts
     /\ new.status = row.status \/ new.status \notin {"pending", "running"}

ClaimInv ==
  /\ QueueInv
  /\ LeaseInv
  /\ LiveAttemptIsAccurate
  /\ HoldersLead
  /\ PickedIsAlone
  /\ SessionIsSerial
  /\ AttemptBudget

-----------------------------------------------------------------------------
(* What a step does to running rows and to claims. *)

\* A recovered segment has no running row left.
LEMMA RecoveredRests ==
  ASSUME QueueInv, NEW s \in Segments, RecoverSegment(s)
  PROVE  /\ \A b \in Boundaries : ~Runs(s, b)'
         /\ \A b \in Boundaries :
              jobs'[s][b] = IF ~Runs(s, b) THEN jobs[s][b]
                            ELSE IF targets[s] # None /\ targets[s].job = b
                                 THEN RecoveredRow(jobs[s][b], targets[s])
                                 ELSE SupersededRow(jobs[s][b])
<1>1. /\ TypeOK /\ targets[s] \in Target \cup {None} /\ jobs[s] \in Rows /\ Owned(s)
      /\ \A b \in Boundaries : \A states : HasStatus(s, b, states) <=> Is(jobs[s], b, states)
  BY SegmentTerms, SegmentIsOwned DEF QueueInv, SegmentsInv
<1>2. ASSUME NEW b \in Boundaries
      PROVE  jobs'[s][b] = IF ~Runs(s, b) THEN jobs[s][b]
                           ELSE IF targets[s] # None /\ targets[s].job = b
                                THEN RecoveredRow(jobs[s][b], targets[s])
                                ELSE SupersededRow(jobs[s][b])
  BY <1>1 DEF RecoverSegment, TypeOK, Runs
<1>3. ASSUME NEW target \in Target, NEW row \in Job
      PROVE  RecoveredRow(row, target).status = "pending"
  <2>1. PendingRow(target) \in Job /\ PendingRow(target).status = "pending"
    BY PendingRowType DEF PendingRow
  <2>2. QED
    BY <2>1 DEF RecoveredRow, Job
<1>4. \A row \in Job : SupersededRow(row).status = "superseded"
  BY DEF SupersededRow, Job
<1>5. ASSUME NEW b \in Boundaries
      PROVE  ~Runs(s, b)'
  <2>1. CASE ~Runs(s, b)
    BY <1>2, <2>1 DEF Runs, Is
  <2>2. CASE Runs(s, b)
    <3>1. jobs[s][b] \in Job
      BY <1>1, <2>2 DEF Runs, Is, Rows
    <3>2. jobs'[s][b].status \in {"pending", "superseded"}
      BY <1>1, <1>2, <1>3, <1>4, <2>2, <3>1
    <3>3. QED
      BY <3>2 DEF Runs, Is
  <2>3. QED
    BY <2>1, <2>2
<1>6. QED
  BY <1>2, <1>5

\* Whichever step is taken, a row runs afterwards because it ran before, and is
\* then the very same row, or because it was just claimed.
LEMMA RunningStays ==
  ASSUME QueueInv, QueueInv', Next, \A lease \in Leases : ~ClaimPicked(lease),
         NEW s \in Segments, NEW b \in Boundaries, Runs(s, b)'
  PROVE  jobs'[s][b] = jobs[s][b]
<1>1. /\ TypeOK /\ TypeOK' /\ jobs[s] \in Rows /\ jobs'[s] \in Rows
      /\ targets[s] \in Target \cup {None}
      /\ jobs'[s][b] # None /\ jobs'[s][b].status = "running"
      /\ \A c \in Boundaries : \A states : HasStatus(s, c, states) <=> Is(jobs[s], c, states)
  BY SegmentTerms DEF QueueInv, TypeOK, Rows, Runs, Is
<1>2. Owned(s) /\ SegmentInv(s)
  BY SegmentIsOwned DEF QueueInv, SegmentsInv
<1>3. \A target \in Target : PendingRow(target).status = "pending"
  BY DEF PendingRow
<1>4. \A row \in Job : /\ SupersededRow(row).status = "superseded"
                       /\ SucceededRow(row).status = "succeeded"
  BY DEF SupersededRow, SucceededRow, Job
<1>5. ASSUME NEW x \in Segments, Enqueue(x)
      PROVE  jobs'[s][b] = jobs[s][b]
  <2>1. PICK q \in Snapshot : \/ EnqueueIgnored(x, q)
                              \/ EnqueueRepeated(x, q)
                              \/ EnqueueSettled(x, q)
                              \/ EnqueueChanged(x, q)
    BY <1>5 DEF Enqueue
  <2>2. CASE x # s
    BY <1>1, <2>1, <2>2 DEF EnqueueIgnored, EnqueueRepeated, EnqueueSettled,
                            EnqueueChanged, SetRow, TypeOK
  <2>3. CASE x = s
    <3>1. q.boundary \in Boundaries /\ (targets[s] # None => targets[s].job \in Boundaries)
      BY <1>1 DEF Snapshot, Target
    <3>2. CASE EnqueueIgnored(x, q)
      BY <1>1, <2>3, <3>1, <3>2 DEF EnqueueIgnored, SetRow, TypeOK
    <3>3. CASE EnqueueRepeated(x, q)
      <4> DEFINE target == targets[s]
                 row == jobs[s][target.job]
                 reset == ResetStaleExtraction(s)
                 wanted == IF q.priority > target.source.priority
                           THEN [target.source EXCEPT !.priority = q.priority]
                           ELSE target.source
                 raised == [row EXCEPT !.source.priority = wanted.priority,
                                       !.payload = wanted,
                                       !.status = IF reset THEN "pending" ELSE @,
                                       !.attempts = IF reset THEN 0 ELSE @,
                                       !.lease = IF reset THEN None ELSE @,
                                       !.due = reset \/ @]
      <4>1. target # None /\ row \in Job
        BY <1>1, <1>2, <2>3, <3>1, <3>3
        DEF EnqueueRepeated, TargetMatchesRequest, Owned, Rows
      <4>2. jobs' = [jobs EXCEPT ![s][target.job] =
                       IF row.status = "running" THEN row ELSE raised]
        BY <2>3, <3>3 DEF EnqueueRepeated, SetRow
      <4>3. row.status # "running" => raised.status # "running"
        BY <4>1 DEF Job
      <4> HIDE DEF raised, row, target
      <4>4. jobs'[s][b] = IF b = target.job
                          THEN IF row.status = "running" THEN row ELSE raised
                          ELSE jobs[s][b]
        BY <1>1, <3>1, <4>1, <4>2 DEF TypeOK, target
      <4>5. QED
        BY <1>1, <4>3, <4>4 DEF row
    <3>4. CASE EnqueueSettled(x, q)
      <4> DEFINE row == jobs[s][q.boundary]
                 settled == [SucceededRow(row) EXCEPT
                   !.generation = segments[s].generation,
                   !.source = IF q.priority > row.source.priority THEN q
                              ELSE [q EXCEPT !.priority = row.source.priority]]
                 inserted == [status |-> "succeeded", attempts |-> 0, lease |-> None,
                   due |-> TRUE, generation |-> segments[s].generation,
                   source |-> q, payload |-> None]
      <4>1. jobs' = [jobs EXCEPT ![s][q.boundary] =
                       IF row = None THEN inserted
                       ELSE IF row.status = "running" THEN row ELSE settled]
        BY <2>3, <3>4 DEF EnqueueSettled, SetRow
      <4>2. row # None => settled.status = "succeeded"
        <5>1. row # None => /\ SucceededRow(row) \in Job
                            /\ SucceededRow(row).status = "succeeded"
          BY <1>1, <1>4, <3>1, EndedRowType DEF Rows
        <5>2. QED
          BY <5>1 DEF Job
      <4>3. inserted.status = "succeeded"
        OBVIOUS
      <4> HIDE DEF settled, inserted, row
      <4>4. jobs'[s][b] = IF b = q.boundary
                          THEN IF row = None THEN inserted
                               ELSE IF row.status = "running" THEN row ELSE settled
                          ELSE jobs[s][b]
        BY <1>1, <3>1, <4>1 DEF TypeOK
      <4>5. QED
        BY <1>1, <4>2, <4>3, <4>4 DEF row
    <3>5. CASE EnqueueChanged(x, q)
      <4>1. PICK target \in Target :
              jobs'[s] = [c \in Boundaries |->
                IF c = q.boundary
                THEN IF HasStatus(s, c, {"running"}) THEN jobs[s][c]
                     ELSE PendingRow(target)
                ELSE IF HasStatus(s, c, Discardable)
                     THEN SupersededRow(jobs[s][c])
                     ELSE jobs[s][c]]
        BY <1>1, <2>3, <3>1, <3>5, ConstantsAssumption
        DEF EnqueueChanged, TypeOK, Generations, Target
      <4>2. HasStatus(s, b, Discardable) => SupersededRow(jobs[s][b]).status = "superseded"
        BY <1>1, <1>4 DEF HasStatus, Rows
      <4>3. QED
        BY <1>1, <1>3, <4>1, <4>2
    <3>6. QED
      BY <2>1, <3>2, <3>3, <3>4, <3>5
  <2>4. QED
    BY <2>2, <2>3
<1>6. ASSUME NEW x \in Segments, Repair(x)
      PROVE  jobs'[s][b] = jobs[s][b]
  <2>1. PICK c \in Boundaries : /\ LockCurrentFailedTargetJob(x, c)
                                /\ \/ SetRow(x, c, PendingRow(targets[x]))
                                   \/ SetRow(x, c, SupersededRow(jobs[x][c]))
    BY <1>6 DEF Repair, RetryFailedJob, SupersedeFailedJob
  <2>2. targets[x] \in Target /\ jobs[x][c] \in Job
    BY <1>1, <2>1 DEF LockCurrentFailedTargetJob, FailedTargetMatchesJob, HasStatus, TypeOK
  <2>3. x = s /\ c = b => jobs'[s][b].status \in {"pending", "superseded"}
    BY <1>1, <1>3, <1>4, <2>1, <2>2 DEF SetRow, TypeOK
  <2>4. QED
    BY <1>1, <2>1, <2>3 DEF SetRow, TypeOK
<1>7. ASSUME NEW x \in Segments, NEW c \in Boundaries, BackoffElapses(x, c)
      PROVE  jobs'[s][b] = jobs[s][b]
  <2>1. jobs[x][c] \in Job /\ jobs[x][c].status = "pending"
    BY <1>1, <1>7 DEF BackoffElapses, HasStatus, TypeOK
  <2>2. [jobs[x][c] EXCEPT !.due = TRUE].status = "pending"
    BY <2>1 DEF Job
  <2>3. x = s /\ c = b => jobs'[s][b].status = "pending"
    BY <1>1, <1>7, <2>2 DEF BackoffElapses, TypeOK
  <2>4. QED
    BY <1>1, <1>7, <2>3 DEF BackoffElapses, TypeOK
<1>8. ASSUME NEW x \in Segments, RecoverSegment(x)
      PROVE  jobs'[s][b] = jobs[s][b]
  <2>1. x # s => jobs'[s] = jobs[s]
    BY <1>8 DEF RecoverSegment, TypeOK
  <2>2. x # s
    BY <1>1, <1>2, <1>8, RecoveredRests
  <2>3. QED
    BY <2>1, <2>2
<1>9. ASSUME NEW t \in tasks, Attempt(t)
      PROVE  jobs'[s][b] = jobs[s][b]
  <2> DEFINE x == t.segment
             c == t.source.boundary
  <2>1. x \in Segments /\ c \in Boundaries
    BY <1>1 DEF TypeOK, Task, Identity
  <2>2. HoldsLease(t) => RowOf(t) = jobs[x][c] /\ jobs[x][c] \in Job
    BY <1>1, <2>1 DEF HoldsLease, RowOf, TypeOK
  <2>3. CASE CommitResolution(t)
    BY <1>1, <1>4, <2>1, <2>2, <2>3 DEF CommitResolution, Current, SetRow, TypeOK
  <2>4. ASSUME NEW terminal \in BOOLEAN, FinishFailedAttempt(t, terminal)
        PROVE  jobs'[s][b] = jobs[s][b]
    <3> DEFINE retry == ~terminal /\ ShouldRetry(t)
               row == [RowOf(t) EXCEPT !.status = IF retry THEN "pending" ELSE "failed",
                                       !.lease = None, !.due = ~retry]
    <3>1. jobs' = [jobs EXCEPT ![x][c] = row] /\ HoldsLease(t)
      BY <2>4 DEF FinishFailedAttempt, SetRow, Current
    <3>2. row.status # "running"
      BY <2>2, <3>1 DEF Job
    <3> HIDE DEF row, x, c
    <3>3. QED
      BY <1>1, <2>1, <3>1, <3>2 DEF TypeOK
  <2>5. CASE RequeueLatestTarget(t)
    <3>1. /\ HoldsLease(t)
          /\ jobs' = [jobs EXCEPT ![x] = [d \in Boundaries |->
               IF targets[x] # None /\ d = targets[x].job
                  /\ (d = c \/ ~HasStatus(x, d, {"running"}))
               THEN PendingRow(targets[x])
               ELSE IF d = c THEN SupersededRow(jobs[x][c])
               ELSE jobs[x][d]]]
      BY <2>5 DEF RequeueLatestTarget
    <3>2. targets[x] # None => targets[x] \in Target
      BY <1>1, <2>1 DEF TypeOK
    <3> HIDE DEF x, c
    <3>3. QED
      BY <1>1, <1>3, <1>4, <2>1, <2>2, <3>1, <3>2 DEF TypeOK
  <2>6. QED
    BY <1>9, <2>3, <2>4, <2>5 DEF Attempt, PublishExtraction, StaleAttempt, store
<1>10. CASE Lead /\ (\A x \in Segments : ~RecoverSegment(x))
  BY <1>10 DEF Lead, AcquireLock, BeginWork, ReleaseLock, store
<1>11. CASE Claim
  BY <1>11 DEF Claim, SelectJob, DropPicked, store
<1>12. CASE Fault
  BY <1>12 DEF Fault, StopWorker, LoseConnection, Crash, DeployNewValidation,
               AttemptLost, store
<1>13. QED
  BY <1>5, <1>6, <1>7, <1>8, <1>9, <1>10, <1>11, <1>12 DEF Next

\* No step but a claim adds an attempt, and only a published extraction changes
\* what an attempt knows.
LEMMA TasksShrink ==
  ASSUME Next, \A lease \in Leases : ~ClaimPicked(lease),
         \A t \in tasks, text \in Texts : ~PublishExtraction(t, text)
  PROVE  tasks' \subseteq tasks
<1>1. ASSUME NEW s \in Segments, Enqueue(s) \/ Repair(s)
      PROVE  tasks' = tasks
  BY <1>1 DEF Enqueue, EnqueueIgnored, EnqueueRepeated, EnqueueSettled, EnqueueChanged,
              Repair, RetryFailedJob, SupersedeFailedJob
<1>2. ASSUME NEW s \in Segments, NEW b \in Boundaries, BackoffElapses(s, b)
      PROVE  tasks' = tasks
  BY <1>2 DEF BackoffElapses
<1>3. Lead \/ Claim => tasks' = tasks
  BY DEF Lead, AcquireLock, RecoverSegment, BeginWork, ReleaseLock, Claim, SelectJob, DropPicked
<1>4. ASSUME NEW t \in tasks, Attempt(t)
      PROVE  tasks' \subseteq tasks
  BY <1>4 DEF Attempt, CommitResolution, FinishFailedAttempt, RequeueLatestTarget, StaleAttempt
<1>5. Fault => tasks' \subseteq tasks
  BY DEF Fault, StopWorker, LoseConnection, Crash, DeployNewValidation, AttemptLost
<1>6. QED
  BY <1>1, <1>2, <1>3, <1>4, <1>5 DEF Next

\* What a running row's successor state says of the leases.
LEMMA HoldsStays ==
  ASSUME QueueInv, QueueInv', Next, \A lease \in Leases : ~ClaimPicked(lease),
         NEW t \in Task, HoldsLease(t)'
  PROVE  HoldsLease(t) /\ RowOf(t)' = RowOf(t)
<1>1. t.segment \in Segments /\ t.source.boundary \in Boundaries
  BY DEF Task, Identity
<1>2. jobs'[t.segment][t.source.boundary] = jobs[t.segment][t.source.boundary]
  BY <1>1, RunningStays DEF HoldsLease, RowOf, Runs, Is
<1>3. QED
  BY <1>2 DEF HoldsLease, RowOf

\* What a claim does, in the terms of the selection.
LEMMA ClaimTaken ==
  ASSUME QueueInv, QueueInv', NEW lease \in Leases, ClaimPicked(lease)
  PROVE  LET s == picked.segment
             b == picked.boundary
         IN  /\ s \in Segments /\ b \in Boundaries
             /\ Is(jobs[s], b, {"pending"}) /\ jobs[s][b] \in Job
             /\ jobs[s][b].generation = picked.row.generation
             /\ jobs' = [jobs EXCEPT ![s][b] = TakenRow(jobs[s][b], lease)]
             /\ tasks' = tasks \cup
                  {[replica |-> leader, segment |-> s, lease |-> lease,
                    generation |-> jobs[s][b].generation,
                    source |-> IdentityOf(jobs[s][b].source),
                    attempts |-> jobs[s][b].attempts + 1,
                    extraction |-> picked.extraction]}
<1>1. TypeOK /\ TypeOK' /\ SegmentsInv /\ PickInv
  BY DEF QueueInv
<1>2. ASSUME NEW s, NEW b, s = picked.segment, b = picked.boundary
      PROVE  /\ s \in Segments /\ b \in Boundaries
             /\ Is(jobs[s], b, {"pending"}) /\ jobs[s][b] \in Job
             /\ jobs[s][b].generation = picked.row.generation
             /\ jobs' = [jobs EXCEPT ![s][b] = TakenRow(jobs[s][b], lease)]
             /\ tasks' = tasks \cup
                  {[replica |-> leader, segment |-> s, lease |-> lease,
                    generation |-> jobs[s][b].generation,
                    source |-> IdentityOf(jobs[s][b].source),
                    attempts |-> jobs[s][b].attempts + 1,
                    extraction |-> picked.extraction]}
  <2>1. /\ s \in Segments /\ b \in Boundaries
        /\ Is(jobs[s], b, {"pending"}) /\ jobs[s][b] \in Job
        /\ jobs[s][b].generation = picked.row.generation
    BY <1>1, <1>2, ClaimSegments
  <2>2. jobs' = [jobs EXCEPT ![s][b] = TakenRow(jobs[s][b], lease)]
    BY <1>1, <1>2, ClaimSegments
  <2>3. tasks' = tasks \cup
          {[replica |-> leader, segment |-> s, lease |-> lease,
            generation |-> jobs[s][b].generation,
            source |-> IdentityOf(jobs[s][b].source),
            attempts |-> jobs[s][b].attempts + 1,
            extraction |-> picked.extraction]}
    BY <1>1, <1>2, ClaimSegments
  <2>4. QED
    BY <2>1, <2>2, <2>3
<1>3. QED
  BY <1>2

\* A lease is drawn when nobody has it, so a claim takes nothing from anybody:
\* an earlier attempt holds its lease afterwards only if it did before.
LEMMA ClaimHolds ==
  ASSUME QueueInv, QueueInv', NEW lease \in Leases, ClaimPicked(lease),
         NEW t \in tasks, HoldsLease(t)'
  PROVE  HoldsLease(t) /\ RowOf(t)' = RowOf(t)
<1> DEFINE s == picked.segment
           b == picked.boundary
           row == [jobs[s][b] EXCEPT !.status = "running", !.attempts = @ + 1,
                                     !.lease = lease]
<1>1. /\ s \in Segments /\ b \in Boundaries /\ jobs[s][b] \in Job
      /\ jobs' = [jobs EXCEPT ![s][b] = row]
  BY ClaimTaken DEF TakenRow
<1>2. row.lease = lease /\ t.lease # lease
  BY <1>1 DEF Job, ClaimPicked, FreshLease
<1>3. t.segment \in Segments /\ t.source.boundary \in Boundaries
  BY DEF QueueInv, TypeOK, Task, Identity
<1> HIDE DEF row, s, b
<1>4. ~(t.segment = s /\ t.source.boundary = b)
  BY <1>1, <1>2 DEF HoldsLease, RowOf, QueueInv, TypeOK
<1>5. RowOf(t)' = RowOf(t)
  BY <1>1, <1>3, <1>4 DEF RowOf, QueueInv, TypeOK
<1>6. QED
  BY <1>5 DEF HoldsLease

\* The wanted snapshot of a segment is replaced by a newer one than every row,
\* or it stays, and then its staged extraction stays unless its row failed.
LEMMA TargetStays ==
  ASSUME QueueInv, Next, NEW s \in Segments, targets'[s] # None,
         \A t \in tasks, text \in Texts : t.segment = s => ~PublishExtraction(t, text)
  PROVE  LET old == targets[s]
             new == targets'[s]
         IN  \/ /\ \A b \in Boundaries : jobs[s][b] # None => jobs[s][b].generation < new.generation
                /\ old # None => old.generation < new.generation
             \/ /\ old # None /\ new.job = old.job /\ new.generation = old.generation
                /\ SameSource(new.source, old.source)
                /\ new.staged = old.staged \/ HasStatus(s, old.job, {"failed"})
<1> DEFINE old == targets[s]
           new == targets'[s]
           Goal == \/ /\ \A b \in Boundaries :
                           jobs[s][b] # None => jobs[s][b].generation < new.generation
                      /\ old # None => old.generation < new.generation
                   \/ /\ old # None /\ new.job = old.job /\ new.generation = old.generation
                      /\ SameSource(new.source, old.source)
                      /\ new.staged = old.staged \/ HasStatus(s, old.job, {"failed"})
<1>1. TypeOK
  BY DEF QueueInv
<1>2. new = old => Goal
  BY DEF SameSource
<1>3. ASSUME NEW x \in Segments, Enqueue(x)
      PROVE  Goal
  <2>1. PICK q \in Snapshot : \/ EnqueueIgnored(x, q)
                              \/ EnqueueRepeated(x, q)
                              \/ EnqueueSettled(x, q)
                              \/ EnqueueChanged(x, q)
    BY <1>3 DEF Enqueue
  <2>2. CASE x # s \/ EnqueueIgnored(x, q) \/ EnqueueSettled(x, q)
    BY <1>1, <1>2, <2>1, <2>2 DEF EnqueueIgnored, EnqueueRepeated, EnqueueSettled,
                                  EnqueueChanged, TypeOK
  <2>3. CASE x = s /\ EnqueueRepeated(x, q)
    <3> DEFINE wanted == IF q.priority > old.source.priority
                         THEN [old.source EXCEPT !.priority = q.priority]
                         ELSE old.source
               raised == [old EXCEPT !.source = wanted,
                            !.staged = IF ResetStaleExtraction(s) THEN None ELSE @]
    <3>1. old \in Target /\ old # None /\ targets' = [targets EXCEPT ![s] = raised]
      BY <1>1, <2>3 DEF EnqueueRepeated, TargetMatchesRequest, TypeOK
    <3>2. SameSource(wanted, old.source)
      BY <3>1 DEF SameSource, Target, Snapshot
    <3> HIDE DEF wanted
    <3>3. /\ raised.job = old.job /\ raised.generation = old.generation
          /\ raised.source = wanted
          /\ raised.staged = IF ResetStaleExtraction(s) THEN None ELSE old.staged
      BY <3>1 DEF Target
    <3>4. new = raised
      BY <1>1, <3>1 DEF TypeOK
    <3>5. ResetStaleExtraction(s) => HasStatus(s, old.job, {"failed"})
      BY DEF ResetStaleExtraction
    <3> HIDE DEF raised, old, new
    <3>6. QED
      BY <3>1, <3>2, <3>3, <3>4, <3>5
  <2>4. CASE x = s /\ EnqueueChanged(x, q)
    <3>1. PICK g \in Generations :
            /\ NextGeneration(s, g)
            /\ targets' = [targets EXCEPT ![s] =
                 [job |-> q.boundary, source |-> q, generation |-> g,
                  staged |-> None, since |-> clock + 1]]
      BY <2>4 DEF EnqueueChanged
    <3>2. new.generation = g
      BY <1>1, <3>1 DEF TypeOK
    <3>3. QED
      BY <3>1, <3>2 DEF NextGeneration
  <2>5. QED
    BY <2>1, <2>2, <2>3, <2>4
<1>4. ASSUME NEW x \in Segments, Repair(x)
      PROVE  Goal
  <2>1. PICK b \in Boundaries : \/ RetryFailedJob(x, b, FALSE)
                                \/ RetryFailedJob(x, b, TRUE)
                                \/ SupersedeFailedJob(x, b)
    BY <1>4 DEF Repair
  <2>2. CASE x = s /\ RetryFailedJob(x, b, TRUE)
    <3>1. HasStatus(s, b, {"failed"}) /\ old # None /\ old.job = b /\ old \in Target
      BY <1>1, <2>2 DEF RetryFailedJob, LockCurrentFailedTargetJob, FailedTargetMatchesJob, TypeOK
    <3>2. new = [old EXCEPT !.staged = None]
      BY <1>1, <2>2 DEF RetryFailedJob, TypeOK
    <3> HIDE DEF old, new
    <3>3. /\ new.job = old.job /\ new.generation = old.generation
          /\ new.source = old.source
      BY <3>1, <3>2 DEF Target
    <3>4. QED
      BY <3>1, <3>3 DEF SameSource
  <2>3. QED
    BY <1>1, <1>2, <2>1, <2>2 DEF RetryFailedJob, SupersedeFailedJob, TypeOK
<1>5. ASSUME NEW x \in Segments, NEW b \in Boundaries, BackoffElapses(x, b)
      PROVE  Goal
  BY <1>2, <1>5 DEF BackoffElapses
<1>6. CASE Lead \/ Claim \/ Fault
  BY <1>2, <1>6 DEF Lead, AcquireLock, RecoverSegment, BeginWork, ReleaseLock,
     Claim, SelectJob, DropPicked, ClaimPicked, Fault, StopWorker, LoseConnection,
     Crash, DeployNewValidation, AttemptLost, store
<1>7. ASSUME NEW t \in tasks, Attempt(t)
      PROVE  Goal
  <2>1. t.segment # s /\ t.segment \in Segments => new = old
    BY <1>1, <1>7 DEF Attempt, PublishExtraction, CommitResolution, FinishFailedAttempt,
                      RequeueLatestTarget, StaleAttempt, store, TypeOK
  <2>2. t.segment = s => new = old
    BY <1>1, <1>7 DEF Attempt, CommitResolution, FinishFailedAttempt,
                      RequeueLatestTarget, StaleAttempt, store, TypeOK
  <2>3. t.segment \in Segments
    BY <1>1 DEF TypeOK, Task
  <2>4. QED
    BY <1>2, <2>1, <2>2, <2>3
<1>8. QED
  BY <1>3, <1>4, <1>5, <1>6, <1>7 DEF Next

-----------------------------------------------------------------------------
(* Each part of the invariant is kept.                                     *)

\* Leases stay exclusive: only a claim gives one out, and it draws a fresh one.
LEMMA LeaseStep ==
  ASSUME ClaimInv, QueueInv', Next
  PROVE  LeaseInv'
<1> USE DEF ClaimInv
<1>1. CASE \A lease \in Leases : ~ClaimPicked(lease)
  <2>1. ASSUME NEW s \in Segments, NEW x \in Segments, NEW b \in Boundaries,
               NEW c \in Boundaries, Runs(s, b)', Runs(x, c)',
               jobs'[s][b].lease = jobs'[x][c].lease
        PROVE  s = x /\ b = c
    <3>1. jobs'[s][b] = jobs[s][b] /\ jobs'[x][c] = jobs[x][c]
      BY <1>1, <2>1, RunningStays
    <3>2. QED
      BY <2>1, <3>1 DEF LeaseInv, Runs, Is
  <2>2. ASSUME NEW t \in tasks', NEW u \in tasks', t.lease = u.lease
        PROVE  t = u
    <3>1. CASE tasks' \subseteq tasks
      BY <2>2, <3>1 DEF LeaseInv
    <3>2. ASSUME NEW v \in tasks, NEW text \in Texts, PublishExtraction(v, text)
          PROVE  t = u
      <4> DEFINE w == [v EXCEPT !.extraction = Extracted(v, text)]
      <4>1. tasks' = (tasks \ {v}) \cup {w}
        BY <3>2 DEF PublishExtraction
      <4>2. w.lease = v.lease
        BY DEF QueueInv, TypeOK, Task
      <4> HIDE DEF w
      <4>3. QED
        BY <2>2, <4>1, <4>2 DEF LeaseInv
    <3>3. QED
      BY <1>1, <3>1, <3>2, TasksShrink
  <2>3. QED
    BY <2>1, <2>2 DEF LeaseInv
<1>2. ASSUME NEW lease \in Leases, ClaimPicked(lease)
      PROVE  LeaseInv'
  <2> DEFINE s0 == picked.segment
             b0 == picked.boundary
             row == [jobs[s0][b0] EXCEPT !.status = "running", !.attempts = @ + 1,
                                         !.lease = lease]
             new == [replica |-> leader, segment |-> s0, lease |-> lease,
                     generation |-> jobs[s0][b0].generation,
                     source |-> IdentityOf(jobs[s0][b0].source),
                     attempts |-> jobs[s0][b0].attempts + 1,
                     extraction |-> picked.extraction]
  <2>1. /\ s0 \in Segments /\ b0 \in Boundaries /\ jobs[s0][b0] \in Job
        /\ jobs' = [jobs EXCEPT ![s0][b0] = row] /\ tasks' = tasks \cup {new}
    BY <1>2, ClaimTaken DEF TakenRow
  <2>2. row.lease = lease /\ new.lease = lease
    BY <2>1 DEF Job
  <2>3. /\ \A t \in tasks : t.lease # lease
        /\ \A s \in Segments, b \in Boundaries :
             jobs[s][b] # None => jobs[s][b].lease # lease
    BY <1>2 DEF ClaimPicked, FreshLease
  <2> HIDE DEF row, new, s0, b0
  <2>4. \A s \in Segments, b \in Boundaries :
          jobs'[s][b] = IF s = s0 /\ b = b0 THEN row ELSE jobs[s][b]
    BY <2>1 DEF QueueInv, TypeOK
  <2>5. ASSUME NEW s \in Segments, NEW x \in Segments, NEW b \in Boundaries,
               NEW c \in Boundaries, Runs(s, b)', Runs(x, c)',
               jobs'[s][b].lease = jobs'[x][c].lease
        PROVE  s = x /\ b = c
    BY <2>2, <2>3, <2>4, <2>5 DEF LeaseInv, Runs, Is
  <2>6. \A t, u \in tasks' : t.lease = u.lease => t = u
    BY <2>1, <2>2, <2>3 DEF LeaseInv
  <2>7. QED
    BY <2>5, <2>6 DEF LeaseInv
<1>3. QED
  BY <1>1, <1>2

\* The attempts after a published extraction: its own knows what it staged.
LEMMA PublishedTasks ==
  ASSUME QueueInv, NEW t \in tasks, NEW text \in Texts, PublishExtraction(t, text)
  PROVE  LET known == [t EXCEPT !.extraction = Extracted(t, text)]
         IN  /\ tasks' = (tasks \ {t}) \cup {known}
             /\ known.segment = t.segment /\ known.source = t.source
             /\ known.lease = t.lease /\ known.replica = t.replica
             /\ known.generation = t.generation /\ known.attempts = t.attempts
             /\ known.extraction = Extracted(t, text)
             /\ jobs' = jobs /\ HoldsLease(known)' /\ HoldsLease(t)
  BY DEF PublishExtraction, Current, QueueInv, TypeOK, Task, HoldsLease, RowOf

\* The attempts after a claim: the new one knows its row.
LEMMA ClaimedTasks ==
  ASSUME QueueInv, QueueInv', NEW lease \in Leases, ClaimPicked(lease)
  PROVE  \E new \in tasks' :
           /\ tasks' = tasks \cup {new}
           /\ new.replica = leader /\ leader' = leader /\ phase' = phase
           /\ phase \in {"working", "stopping"}
           /\ new.segment = picked.segment /\ picked # None
           /\ new.source.boundary = picked.boundary
           /\ new.extraction = picked.extraction
           /\ new.generation = picked.row.generation
           /\ PersistedJobMatchesClaim(new)' /\ new.attempts = RowOf(new)'.attempts
<1> DEFINE s == picked.segment
           b == picked.boundary
           row == [jobs[s][b] EXCEPT !.status = "running", !.attempts = @ + 1,
                                     !.lease = lease]
           new == [replica |-> leader, segment |-> s, lease |-> lease,
                   generation |-> jobs[s][b].generation,
                   source |-> IdentityOf(jobs[s][b].source),
                   attempts |-> jobs[s][b].attempts + 1,
                   extraction |-> picked.extraction]
<1>1. /\ s \in Segments /\ b \in Boundaries /\ jobs[s][b] \in Job
      /\ jobs' = [jobs EXCEPT ![s][b] = row] /\ tasks' = tasks \cup {new}
      /\ jobs[s][b].generation = picked.row.generation
      /\ Is(jobs[s], b, {"pending"})
  BY ClaimTaken DEF TakenRow
<1>8. jobs[s][b].source.boundary = b
  BY <1>1 DEF QueueInv, SegmentsInv, SegmentInv, Consistent, RowsAgree, RowFits, Is
<1>2. jobs'[s][b] = row
  BY <1>1 DEF QueueInv, TypeOK
<1>3. /\ row.generation = jobs[s][b].generation /\ row.source = jobs[s][b].source
      /\ row.attempts = jobs[s][b].attempts + 1
  BY <1>1 DEF Job
<1>4. new.source.boundary = b /\ SameSource(jobs[s][b].source, new.source)
  BY <1>8 DEF IdentityOf, SameSource
<1>5. /\ phase \in {"working", "stopping"} /\ leader' = leader /\ phase' = phase
      /\ picked # None
  BY DEF ClaimPicked, QueueInv, PickHasLeader
<1>6. PICK t : t = new
  OBVIOUS
<1>7. /\ t.segment = s /\ t.replica = leader /\ t.extraction = picked.extraction
      /\ t.generation = jobs[s][b].generation /\ t.source.boundary = b
      /\ t.attempts = jobs[s][b].attempts + 1
      /\ SameSource(jobs[s][b].source, t.source)
  BY <1>4, <1>6
<1>9. t \in tasks' /\ tasks' = tasks \cup {t}
  BY <1>1, <1>6
<1> HIDE DEF row
<1>10. PersistedJobMatchesClaim(t)' /\ t.attempts = RowOf(t)'.attempts
  BY <1>2, <1>3, <1>7 DEF PersistedJobMatchesClaim, RowOf, SameSource
<1>11. QED
  BY <1>1, <1>5, <1>7, <1>9, <1>10

\* A new validation policy meets no attempt of the old one, nor a leader.
LEMMA PolicyChange ==
  ASSUME Next
  PROVE  validation' = validation \/ (tasks' = {} /\ picked' = None /\ phase' = "idle")
<1>1. ASSUME NEW s \in Segments, Enqueue(s) \/ Repair(s)
      PROVE  validation' = validation
  BY <1>1 DEF Enqueue, EnqueueIgnored, EnqueueRepeated, EnqueueSettled, EnqueueChanged,
              Repair, RetryFailedJob, SupersedeFailedJob, workers
<1>2. ASSUME NEW s \in Segments, NEW b \in Boundaries, BackoffElapses(s, b)
      PROVE  validation' = validation
  BY <1>2 DEF BackoffElapses, workers
<1>3. Lead \/ Claim => validation' = validation
  BY DEF Lead, AcquireLock, RecoverSegment, BeginWork, ReleaseLock, Claim, SelectJob,
         DropPicked, ClaimPicked
<1>4. ASSUME NEW t \in tasks, Attempt(t)
      PROVE  validation' = validation
  BY <1>4 DEF Attempt, PublishExtraction, CommitResolution, FinishFailedAttempt,
              RequeueLatestTarget, StaleAttempt, workers
<1>5. CASE Fault
  BY <1>5 DEF Fault, StopWorker, LoseConnection, Crash, DeployNewValidation, AttemptLost,
              NoLeader, workers
<1>6. QED
  BY <1>1, <1>2, <1>3, <1>4, <1>5 DEF Next

\* An attempt that holds its lease goes on knowing the truth.
LEMMA LiveStep ==
  ASSUME ClaimInv, QueueInv', Next
  PROVE  LiveAttemptIsAccurate'
<1> USE DEF ClaimInv
<1>1. SUFFICES ASSUME NEW t \in tasks', HoldsLease(t)'
               PROVE  Accurate(t)'
  BY DEF LiveAttemptIsAccurate, Accurate
<1>2. \A u \in tasks : HoldsLease(u) => Accurate(u)
  BY DEF LiveAttemptIsAccurate, Accurate
<1>3. t.segment \in Segments /\ t.source.boundary \in Boundaries
  BY DEF QueueInv, TypeOK, Task, Identity
<1>4. ASSUME NEW lease \in Leases, ClaimPicked(lease)
      PROVE  Accurate(t)'
  <2>1. targets' = targets /\ validation' = validation
    BY <1>4 DEF ClaimPicked
  <2>2. CASE t \in tasks
    <3>1. HoldsLease(t) /\ RowOf(t)' = RowOf(t)
      BY <1>1, <1>4, <2>2, ClaimHolds
    <3>2. QED
      BY <1>2, <2>1, <2>2, <3>1
      DEF Accurate, PersistedJobMatchesClaim, TargetMatchesJob, StagedEligible
  <2>3. CASE t \notin tasks
    <3>1. /\ t.segment = picked.segment /\ picked # None
          /\ t.source.boundary = picked.boundary
          /\ t.extraction = picked.extraction /\ t.generation = picked.row.generation
          /\ PersistedJobMatchesClaim(t)' /\ t.attempts = RowOf(t)'.attempts
      BY <1>4, <2>3, ClaimedTasks
    <3>2. TargetMatchesJob(t)' =>
            t.extraction = IF StagedEligible(targets[t.segment])
                           THEN targets[t.segment].staged.extraction ELSE None
      BY <2>1, <3>1 DEF TargetMatchesJob, QueueInv, PickInv
    <3>3. StagedEligible(targets[t.segment])' <=> StagedEligible(targets[t.segment])
      BY <2>1 DEF StagedEligible
    <3>4. QED
      BY <2>1, <3>1, <3>2, <3>3 DEF Accurate
  <2>4. QED
    BY <2>2, <2>3
<1>5. ASSUME NEW v \in tasks, NEW text \in Texts, PublishExtraction(v, text),
             \A lease \in Leases : ~ClaimPicked(lease)
      PROVE  Accurate(t)'
  <2> DEFINE staged == [extraction |-> Extracted(v, text), validation |-> validation]
             target == targets[v.segment]
  <2>1. /\ Current(v) /\ HoldsLease(v) /\ jobs' = jobs /\ validation' = validation
        /\ targets' = [targets EXCEPT ![v.segment] = [target EXCEPT !.staged = staged]]
        /\ target # None /\ target \in Target /\ v.segment \in Segments
    BY <1>5 DEF PublishExtraction, Current, TargetMatchesJob, workers, QueueInv, TypeOK, Task
  <2>2. CASE t \in tasks \ {v}
    <3>1. HoldsLease(t) /\ RowOf(t)' = RowOf(t)
      BY <1>1, <2>1 DEF HoldsLease, RowOf
    <3>2. t.segment # v.segment
      <4>1. t.segment = v.segment => t.source.boundary = v.source.boundary
        <5>1. \A c \in Boundaries \ {v.source.boundary} : ~Runs(v.segment, c)
          BY <2>1, HeldClaim DEF QueueInv, Runs
        <5>2. QED
          BY <1>3, <3>1, <5>1 DEF HoldsLease, RowOf, Runs, Is
      <4>2. QED
        BY <2>1, <2>2, <3>1, <4>1 DEF HoldsLease, RowOf, LeaseInv
    <3>3. targets'[t.segment] = targets[t.segment]
      BY <1>3, <2>1, <3>2 DEF QueueInv, TypeOK
    <3>4. Accurate(t)
      BY <1>2, <2>2, <3>1
    <3>5. /\ PersistedJobMatchesClaim(t)'
          /\ t.attempts = RowOf(t)'.attempts
      BY <3>1, <3>4 DEF Accurate, PersistedJobMatchesClaim
    <3>6. TargetMatchesJob(t)' <=> TargetMatchesJob(t)
      BY <3>3 DEF TargetMatchesJob
    <3>7. StagedEligible(targets[t.segment])' <=> StagedEligible(targets[t.segment])
      BY <2>1, <3>3 DEF StagedEligible
    <3>8. QED
      BY <3>3, <3>4, <3>5, <3>6, <3>7 DEF Accurate
  <2>3. CASE t \notin tasks \ {v}
    <3>1. /\ t.segment = v.segment /\ t.source = v.source /\ t.generation = v.generation
          /\ t.attempts = v.attempts /\ t.extraction = Extracted(v, text)
      <4>1. QueueInv
        OBVIOUS
      <4>2. t = [v EXCEPT !.extraction = Extracted(v, text)]
        BY <1>5, <2>3 DEF PublishExtraction
      <4>3. QED
        BY <1>5, <4>1, <4>2, PublishedTasks
    <3>2. targets'[v.segment] = [target EXCEPT !.staged = staged]
      BY <2>1 DEF QueueInv, TypeOK
    <3>3. /\ targets'[v.segment].staged = staged
          /\ targets'[v.segment].source = target.source
      BY <2>1, <3>2 DEF Target
    <3>4. staged # None
      <4>1. staged \in Staged
        BY <1>5 DEF Staged, Extracted, Extraction, QueueInv, TypeOK, Task, Identity
      <4>2. QED
        BY <4>1, NoneIsNoRow
    <3>5. StagedEligible(targets[v.segment])'
      <4>1. SameSource(target.source, v.source)
        BY <2>1 DEF Current, TargetMatchesJob
      <4>2. QED
        BY <2>1, <3>3, <3>4, <4>1 DEF StagedEligible, SameSource, Extracted
    <3>6. PersistedJobMatchesClaim(t)' /\ t.attempts = RowOf(t)'.attempts
      BY <1>2, <2>1, <3>1 DEF Accurate, PersistedJobMatchesClaim, RowOf
    <3>7. QED
      BY <3>1, <3>3, <3>5, <3>6 DEF Accurate
  <2>4. QED
    BY <2>2, <2>3
<1>6. CASE /\ \A lease \in Leases : ~ClaimPicked(lease)
           /\ \A v \in tasks, text \in Texts : ~PublishExtraction(v, text)
  <2>1. t \in tasks /\ HoldsLease(t) /\ RowOf(t)' = RowOf(t) /\ Accurate(t)
    BY <1>1, <1>2, <1>6, TasksShrink, HoldsStays DEF QueueInv, TypeOK
  <2>2. validation' = validation
    BY <2>1, PolicyChange
  <2>3. ASSUME TargetMatchesJob(t)'
        PROVE  /\ TargetMatchesJob(t)
               /\ targets'[t.segment].staged = targets[t.segment].staged
               /\ SameSource(targets'[t.segment].source, targets[t.segment].source)
    <3> DEFINE old == targets[t.segment]
               new == targets'[t.segment]
    <3>1. new # None
      BY <2>3 DEF TargetMatchesJob
    <3>2. ~(RowOf(t).generation < new.generation)
      BY <2>1, <2>3 DEF Accurate, PersistedJobMatchesClaim, TargetMatchesJob, QueueInv,
                        TypeOK, Task
    <3>3. RowOf(t) = jobs[t.segment][t.source.boundary] /\ RowOf(t) # None
      BY <2>1 DEF HoldsLease, RowOf
    <3>4. /\ old # None /\ new.job = old.job /\ new.generation = old.generation
          /\ SameSource(new.source, old.source)
          /\ new.staged = old.staged \/ HasStatus(t.segment, old.job, {"failed"})
      BY <1>3, <1>6, <3>1, <3>2, <3>3, TargetStays
    <3>5. new.job = t.source.boundary
      BY <2>3 DEF TargetMatchesJob
    <3>6. ~HasStatus(t.segment, old.job, {"failed"})
      BY <2>1, <3>4, <3>5 DEF HoldsLease, RowOf, HasStatus
    <3>7. QED
      BY <2>3, <3>4, <3>6 DEF TargetMatchesJob, SameSource
  <2>4. TargetMatchesJob(t)' =>
          (StagedEligible(targets[t.segment])' <=> StagedEligible(targets[t.segment]))
    BY <2>2, <2>3 DEF StagedEligible, SameSource
  <2>5. QED
    BY <2>1, <2>3, <2>4 DEF Accurate, PersistedJobMatchesClaim
<1>7. QED
  BY <1>4, <1>5, <1>6

\* Recovery and the drain before it take the lease of every attempt that the
\* leader did not start, so none is left when it begins to work.
LEMMA HoldersStep ==
  ASSUME ClaimInv, QueueInv', Next
  PROVE  HoldersLead'
<1> USE DEF ClaimInv
<1>1. SUFFICES ASSUME NEW t \in tasks', HoldsLease(t)'
               PROVE  /\ phase' \in {"working", "stopping"} => t.replica = leader'
                      /\ phase' = "recovering" => t.segment \in toRecover'
  BY DEF HoldersLead
<1>2. t \in Task /\ t.segment \in Segments /\ t.source.boundary \in Boundaries
  BY DEF QueueInv, TypeOK, Task, Identity
<1>3. ASSUME NEW lease \in Leases, ClaimPicked(lease)
      PROVE  t.replica = leader' /\ phase' \in {"working", "stopping"}
  <2>1. phase \in {"working", "stopping"} /\ phase' = phase /\ leader' = leader
    BY <1>3, ClaimedTasks
  <2>2. t \in tasks => t.replica = leader
    BY <1>1, <1>3, <2>1, ClaimHolds DEF HoldersLead
  <2>3. t \notin tasks => t.replica = leader
    BY <1>3, ClaimedTasks
  <2>4. QED
    BY <2>1, <2>2, <2>3
<1>4. ASSUME \A lease \in Leases : ~ClaimPicked(lease)
      PROVE  \E u \in tasks : /\ HoldsLease(u) /\ u.replica = t.replica
                              /\ u.segment = t.segment /\ u.source = t.source
  <2>1. ASSUME NEW v \in tasks, NEW text \in Texts, PublishExtraction(v, text)
        PROVE  \E u \in tasks : /\ HoldsLease(u) /\ u.replica = t.replica
                                /\ u.segment = t.segment /\ u.source = t.source
    <3>1. t = [v EXCEPT !.extraction = Extracted(v, text)] \/ t \in tasks
      BY <2>1 DEF PublishExtraction
    <3>2. /\ [v EXCEPT !.extraction = Extracted(v, text)].segment = v.segment
          /\ [v EXCEPT !.extraction = Extracted(v, text)].source = v.source
          /\ [v EXCEPT !.extraction = Extracted(v, text)].replica = v.replica
          /\ HoldsLease(v) /\ jobs' = jobs
      BY <2>1, PublishedTasks
    <3>3. t \in tasks => HoldsLease(t)
      BY <1>1, <3>2 DEF HoldsLease, RowOf
    <3>4. QED
      BY <3>1, <3>2, <3>3
  <2>2. t \in tasks => HoldsLease(t)
    BY <1>1, <1>4, HoldsStays DEF QueueInv, TypeOK
  <2>3. QED
    BY <1>4, <2>1, <2>2, TasksShrink
<1>5. ASSUME NEW u \in tasks, HoldsLease(u), u.replica = t.replica,
             u.segment = t.segment, u.source = t.source,
             \A lease \in Leases : ~ClaimPicked(lease)
      PROVE  /\ phase' \in {"working", "stopping"} => t.replica = leader'
             /\ phase' = "recovering" => t.segment \in toRecover'
  <2>1. /\ phase \in {"working", "stopping"} => t.replica = leader
        /\ phase = "recovering" => t.segment \in toRecover
    BY <1>5 DEF HoldersLead
  <2>2. CASE leader' = leader /\ phase' = phase /\ toRecover' = toRecover
    BY <2>1, <2>2
  <2>3. ASSUME NEW r \in Replicas, AcquireLock(r)
        PROVE  phase' = "recovering" /\ t.segment \in toRecover'
    BY <1>2, <1>5, <2>3 DEF AcquireLock, HoldsLease, RowOf, HasStatus
  <2>4. ASSUME NEW s \in Segments, RecoverSegment(s)
        PROVE  phase' = "recovering" /\ t.segment \in toRecover'
    <3>1. t.segment # s
      BY <1>1, <1>2, <2>4, RecoveredRests DEF HoldsLease, RowOf, Runs, Is
    <3>2. QED
      BY <2>1, <2>4, <3>1 DEF RecoverSegment
  <2>5. ~BeginWork
    BY <2>1 DEF BeginWork
  <2>6. ASSUME ReleaseLock \/ LoseConnection \/ DeployNewValidation
        PROVE  phase' = "idle"
    BY <2>6 DEF ReleaseLock, LoseConnection, DeployNewValidation, NoLeader
  <2>7. ASSUME NEW r \in Replicas, Crash(r)
        PROVE  phase' = "idle" \/ (leader' = leader /\ phase' = phase /\ toRecover' = toRecover)
    BY <2>7 DEF Crash, NoLeader
  <2>8. CASE StopWorker
    BY <2>1, <2>8 DEF StopWorker
  <2>9. \/ leader' = leader /\ phase' = phase /\ toRecover' = toRecover
        \/ \E r \in Replicas : AcquireLock(r) \/ Crash(r)
        \/ \E s \in Segments : RecoverSegment(s)
        \/ BeginWork \/ ReleaseLock \/ LoseConnection \/ DeployNewValidation \/ StopWorker
    <3>1. ASSUME NEW s \in Segments, Enqueue(s) \/ Repair(s)
          PROVE  leader' = leader /\ phase' = phase /\ toRecover' = toRecover
      BY <3>1 DEF Enqueue, EnqueueIgnored, EnqueueRepeated, EnqueueSettled, EnqueueChanged,
                  Repair, RetryFailedJob, SupersedeFailedJob, workers
    <3>2. ASSUME NEW s \in Segments, NEW b \in Boundaries, BackoffElapses(s, b)
          PROVE  leader' = leader /\ phase' = phase /\ toRecover' = toRecover
      BY <3>2 DEF BackoffElapses, workers
    <3>3. Claim => leader' = leader /\ phase' = phase /\ toRecover' = toRecover
      BY DEF Claim, SelectJob, DropPicked, ClaimPicked
    <3>4. ASSUME NEW v \in tasks, Attempt(v) \/ AttemptLost(v)
          PROVE  leader' = leader /\ phase' = phase /\ toRecover' = toRecover
      BY <3>4 DEF Attempt, PublishExtraction, CommitResolution, FinishFailedAttempt,
                  RequeueLatestTarget, StaleAttempt, AttemptLost, workers
    <3>5. QED
      BY <3>1, <3>2, <3>3, <3>4 DEF Next, Lead, Fault
  <2>10. QED
    BY <2>2, <2>3, <2>4, <2>5, <2>6, <2>7, <2>8, <2>9
<1>6. QED
  BY <1>3, <1>4, <1>5

\* What may happen to a selection: it is dropped, or it stays with its leader.
LEMMA PickedStays ==
  ASSUME QueueInv, Next, picked' # None
  PROVE  \/ picked' = picked /\ leader' = leader
         \/ \E s \in Segments : SelectJob(s)
<1> USE DEF QueueInv, PickHasLeader
<1>1. ASSUME NEW s \in Segments, Enqueue(s) \/ Repair(s)
      PROVE  picked' = picked /\ leader' = leader
  BY <1>1 DEF Enqueue, EnqueueIgnored, EnqueueRepeated, EnqueueSettled, EnqueueChanged,
              Repair, RetryFailedJob, SupersedeFailedJob, workers
<1>2. ASSUME NEW s \in Segments, NEW b \in Boundaries, BackoffElapses(s, b)
      PROVE  picked' = picked /\ leader' = leader
  BY <1>2 DEF BackoffElapses, workers
<1>3. Lead => picked' = picked /\ leader' = leader
  BY DEF Lead, AcquireLock, RecoverSegment, BeginWork, ReleaseLock
<1>4. Claim => \E s \in Segments : SelectJob(s)
  BY DEF Claim, DropPicked, ClaimPicked
<1>5. ASSUME NEW t \in tasks, Attempt(t)
      PROVE  picked' = picked /\ leader' = leader
  BY <1>5 DEF Attempt, PublishExtraction, CommitResolution, FinishFailedAttempt,
              RequeueLatestTarget, StaleAttempt, workers
<1>6. Fault => picked' = picked /\ leader' = leader
  BY DEF Fault, StopWorker, LoseConnection, Crash, DeployNewValidation, AttemptLost,
         NoLeader, workers
<1>7. QED
  BY <1>1, <1>2, <1>3, <1>4, <1>5, <1>6 DEF Next

\* Every attempt after a step that claims nothing is one of before, as far as
\* its replica, segment and lease tell.
LEMMA TasksKept ==
  ASSUME QueueInv, Next, \A lease \in Leases : ~ClaimPicked(lease), NEW t \in tasks'
  PROVE  \E u \in tasks : /\ u.replica = t.replica /\ u.segment = t.segment
                          /\ u.lease = t.lease /\ u.source = t.source
<1>1. ASSUME NEW v \in tasks, NEW text \in Texts, PublishExtraction(v, text)
      PROVE  t \in tasks \/ /\ v.replica = t.replica /\ v.segment = t.segment
                            /\ v.lease = t.lease /\ v.source = t.source
  <2>1. t = [v EXCEPT !.extraction = Extracted(v, text)] \/ t \in tasks
    BY <1>1 DEF PublishExtraction
  <2>2. QED
    BY <1>1, <2>1, PublishedTasks
<1>2. QED
  BY <1>1, TasksShrink

\* The query excluded the sessions of the leader's attempts, and until the claim
\* the leader starts no other attempt.
LEMMA AloneStep ==
  ASSUME ClaimInv, QueueInv', Next
  PROVE  PickedIsAlone'
<1> USE DEF ClaimInv
<1>1. SUFFICES ASSUME picked' # None, NEW t \in tasks', t.replica = leader'
               PROVE  SessionOf[t.segment] # SessionOf[picked'.segment]
  BY DEF PickedIsAlone, TasksOf
<1>2. \A lease \in Leases : ~ClaimPicked(lease)
  BY <1>1 DEF ClaimPicked
<1>3. ASSUME NEW s \in Segments, SelectJob(s)
      PROVE  SessionOf[t.segment] # SessionOf[picked'.segment]
  BY <1>1, <1>3 DEF SelectJob, Candidate, Eligible, TasksOf
<1>4. CASE picked' = picked /\ leader' = leader
  <2>1. PICK u \in tasks : u.replica = t.replica /\ u.segment = t.segment
    BY <1>2, TasksKept
  <2>2. QED
    BY <1>1, <1>4, <2>1 DEF PickedIsAlone, TasksOf
<1>5. QED
  BY <1>1, <1>3, <1>4, PickedStays

\* A session keeps one attempt per replica and one that can write.
LEMMA SerialStep ==
  ASSUME ClaimInv, QueueInv', Next, LeaseInv'
  PROVE  SessionIsSerial'
<1> USE DEF ClaimInv
<1>1. SUFFICES ASSUME NEW t \in tasks', NEW u \in tasks',
                      SessionOf[t.segment] = SessionOf[u.segment],
                      t.replica = u.replica \/ (HoldsLease(t)' /\ HoldsLease(u)')
               PROVE  t = u
  BY DEF SessionIsSerial
<1>2. ASSUME \A lease \in Leases : ~ClaimPicked(lease)
      PROVE  t = u
  <2>1. PICK v \in tasks : /\ v.replica = t.replica /\ v.segment = t.segment
                           /\ v.lease = t.lease /\ v.source = t.source
    BY <1>2, TasksKept
  <2>2. PICK w \in tasks : /\ w.replica = u.replica /\ w.segment = u.segment
                           /\ w.lease = u.lease /\ w.source = u.source
    BY <1>2, TasksKept
  <2>3. HoldsLease(t)' => HoldsLease(v)
    <3>1. t \in Task
      BY DEF QueueInv, TypeOK
    <3>2. HoldsLease(t)' => HoldsLease(t)
      BY <1>2, <3>1, HoldsStays
    <3>3. QED
      BY <2>1, <3>2 DEF HoldsLease, RowOf
  <2>4. HoldsLease(u)' => HoldsLease(w)
    <3>1. u \in Task
      BY DEF QueueInv, TypeOK
    <3>2. HoldsLease(u)' => HoldsLease(u)
      BY <1>2, <3>1, HoldsStays
    <3>3. QED
      BY <2>2, <3>2 DEF HoldsLease, RowOf
  <2>5. v = w
    BY <1>1, <2>1, <2>2, <2>3, <2>4 DEF SessionIsSerial
  <2>6. QED
    BY <2>1, <2>2, <2>5 DEF LeaseInv
<1>3. ASSUME NEW lease \in Leases, ClaimPicked(lease)
      PROVE  t = u
  <2>1. PICK new \in tasks' : /\ tasks' = tasks \cup {new}
                              /\ new.replica = leader
                              /\ phase \in {"working", "stopping"}
                              /\ new.segment = picked.segment /\ picked # None
    BY <1>3, ClaimedTasks
  <2>2. ASSUME NEW v \in tasks, v.replica = leader \/ HoldsLease(v)'
        PROVE  SessionOf[v.segment] # SessionOf[new.segment]
    <3>1. v.replica = leader
      BY <1>3, <2>1, <2>2, ClaimHolds DEF HoldersLead
    <3>2. QED
      BY <2>1, <3>1 DEF PickedIsAlone, TasksOf
  <2>3. CASE t \in tasks /\ u \in tasks
    <3>1. /\ HoldsLease(t)' => HoldsLease(t)
          /\ HoldsLease(u)' => HoldsLease(u)
      BY <1>3, <2>3, ClaimHolds
    <3>2. QED
      BY <1>1, <2>3, <3>1 DEF SessionIsSerial
  <2>4. QED
    BY <1>1, <2>1, <2>2, <2>3
<1>4. QED
  BY <1>2, <1>3

\* Rows that are only eased stay within the budget.
LEMMA EasedBudget ==
  ASSUME QueueInv, AttemptBudget, phase' = phase, restarts' = restarts,
         \A s \in Segments, b \in Boundaries : Eased(jobs[s][b], jobs'[s][b])
  PROVE  AttemptBudget'
<1>1. WorkerMaxAttempts \in Nat /\ WorkerMaxAttempts > 0 /\ restarts \in Nat
  BY ConstantsAssumption DEF QueueInv, TypeOK
<1>2. ASSUME NEW s \in Segments, NEW b \in Boundaries, jobs'[s][b] # None
      PROVE  /\ jobs'[s][b].attempts <= Budget
             /\ jobs'[s][b].status = "pending" => jobs'[s][b].attempts + 1 <= Budget
             /\ jobs'[s][b].status = "running" /\ phase # "working" =>
                  jobs'[s][b].attempts < Budget
             /\ jobs'[s][b].status = "pending" /\ phase = "stopping" =>
                  jobs'[s][b].attempts + 1 < Budget
  <2>1. CASE jobs'[s][b].attempts = 0 /\ jobs'[s][b].status # "running"
    BY <1>1, <2>1 DEF AttemptBudget, Budget
  <2>2. CASE /\ jobs[s][b] # None /\ jobs'[s][b].attempts = jobs[s][b].attempts
             /\ \/ jobs'[s][b].status = jobs[s][b].status
                \/ jobs'[s][b].status \notin {"pending", "running"}
    BY <2>2 DEF AttemptBudget
  <2>3. QED
    BY <1>2, <2>1, <2>2 DEF Eased
<1>3. QED
  BY <1>2 DEF AttemptBudget, Budget

\* A post resets rows or leaves their counts.
LEMMA EnqueueEases ==
  ASSUME QueueInv, QueueInv', NEW x \in Segments, Enqueue(x),
         NEW s \in Segments, NEW b \in Boundaries
  PROVE  Eased(jobs[s][b], jobs'[s][b])
<1>1. /\ TypeOK /\ Owned(s) /\ jobs[s] \in Rows /\ targets[s] \in Target \cup {None}
      /\ \A c \in Boundaries : \A states : HasStatus(s, c, states) <=> Is(jobs[s], c, states)
  BY SegmentTerms, SegmentIsOwned DEF QueueInv, SegmentsInv
<1>2. jobs'[s][b] = jobs[s][b] => Eased(jobs[s][b], jobs'[s][b])
  BY DEF Eased
<1>3. PICK q \in Snapshot : \/ EnqueueIgnored(x, q)
                            \/ EnqueueRepeated(x, q)
                            \/ EnqueueSettled(x, q)
                            \/ EnqueueChanged(x, q)
  BY DEF Enqueue
<1>4. CASE x # s
  BY <1>1, <1>2, <1>3, <1>4 DEF EnqueueIgnored, EnqueueRepeated, EnqueueSettled,
                                EnqueueChanged, SetRow, TypeOK
<1>5. CASE x = s
  <2>1. q.boundary \in Boundaries /\ (targets[s] # None => targets[s].job \in Boundaries)
    BY <1>1 DEF Snapshot, Target
  <2>2. CASE EnqueueIgnored(x, q)
    BY <1>1, <1>2, <1>5, <2>1, <2>2 DEF EnqueueIgnored, SetRow, TypeOK, Eased
  <2>3. CASE EnqueueRepeated(x, q)
    <3> DEFINE target == targets[s]
               row == jobs[s][target.job]
               reset == ResetStaleExtraction(s)
               wanted == IF q.priority > target.source.priority
                         THEN [target.source EXCEPT !.priority = q.priority]
                         ELSE target.source
               raised == [row EXCEPT !.source.priority = wanted.priority,
                                     !.payload = wanted,
                                     !.status = IF reset THEN "pending" ELSE @,
                                     !.attempts = IF reset THEN 0 ELSE @,
                                     !.lease = IF reset THEN None ELSE @,
                                     !.due = reset \/ @]
    <3>1. target # None /\ row \in Job /\ row # None
      BY <1>1, <1>5, <2>1, <2>3, NoneIsNoRow
      DEF EnqueueRepeated, TargetMatchesRequest, Owned, Rows
    <3>2. jobs' = [jobs EXCEPT ![s][target.job] =
                     IF row.status = "running" THEN row ELSE raised]
      BY <1>5, <2>3 DEF EnqueueRepeated, SetRow
    <3>3. /\ raised.status = IF reset THEN "pending" ELSE row.status
          /\ raised.attempts = IF reset THEN 0 ELSE row.attempts
      BY <3>1 DEF Job
    <3> HIDE DEF raised, row, target
    <3>4. jobs'[s][b] = IF b = target.job
                        THEN IF row.status = "running" THEN row ELSE raised
                        ELSE jobs[s][b]
      BY <1>1, <2>1, <3>1, <3>2 DEF TypeOK, target
    <3>5. QED
      BY <1>2, <3>1, <3>3, <3>4 DEF row, Eased
  <2>4. CASE EnqueueSettled(x, q)
    <3> DEFINE row == jobs[s][q.boundary]
               settled == [SucceededRow(row) EXCEPT
                 !.generation = segments[s].generation,
                 !.source = IF q.priority > row.source.priority THEN q
                            ELSE [q EXCEPT !.priority = row.source.priority]]
               inserted == [status |-> "succeeded", attempts |-> 0, lease |-> None,
                 due |-> TRUE, generation |-> segments[s].generation,
                 source |-> q, payload |-> None]
    <3>1. jobs' = [jobs EXCEPT ![s][q.boundary] =
                     IF row = None THEN inserted
                     ELSE IF row.status = "running" THEN row ELSE settled]
      BY <1>5, <2>4 DEF EnqueueSettled, SetRow
    <3>2. row # None => settled.status = "succeeded" /\ settled.attempts = row.attempts
      <4>1. row # None => row \in Job
        BY <1>1, <2>1 DEF Rows
      <4>2. row # None => /\ SucceededRow(row).status = "succeeded"
                          /\ SucceededRow(row).attempts = row.attempts
                          /\ SucceededRow(row) \in Job
        BY <4>1, EndedRowType DEF SucceededRow, Job
      <4>3. QED
        BY <4>2 DEF Job
    <3>3. inserted.status = "succeeded" /\ inserted.attempts = 0
      OBVIOUS
    <3> HIDE DEF settled, inserted, row
    <3>4. jobs'[s][b] = IF b = q.boundary
                        THEN IF row = None THEN inserted
                             ELSE IF row.status = "running" THEN row ELSE settled
                        ELSE jobs[s][b]
      BY <1>1, <2>1, <3>1 DEF TypeOK
    <3>5. QED
      BY <1>2, <3>2, <3>3, <3>4 DEF row, Eased
  <2>5. CASE EnqueueChanged(x, q)
    <3>1. PICK target \in Target :
            jobs'[s] = [c \in Boundaries |->
              IF c = q.boundary
              THEN IF HasStatus(s, c, {"running"}) THEN jobs[s][c]
                   ELSE PendingRow(target)
              ELSE IF HasStatus(s, c, Discardable)
                   THEN SupersededRow(jobs[s][c])
                   ELSE jobs[s][c]]
      BY <1>1, <1>5, <2>1, <2>5, ConstantsAssumption
      DEF EnqueueChanged, TypeOK, Generations, Target
    <3>2. PendingRow(target).attempts = 0 /\ PendingRow(target).status = "pending"
      BY DEF PendingRow
    <3>3. HasStatus(s, b, Discardable) =>
            /\ SupersededRow(jobs[s][b]).status = "superseded"
            /\ SupersededRow(jobs[s][b]).attempts = jobs[s][b].attempts
            /\ jobs[s][b] # None
      BY <1>1 DEF HasStatus, Rows, SupersededRow, Job
    <3>4. QED
      BY <1>2, <3>1, <3>2, <3>3 DEF Eased
  <2>6. QED
    BY <1>3, <2>2, <2>3, <2>4, <2>5
<1>6. QED
  BY <1>4, <1>5

\* Nobody claims a row more often than the budget allows.
LEMMA BudgetStep ==
  ASSUME ClaimInv, QueueInv', Next
  PROVE  AttemptBudget'
<1> USE DEF ClaimInv
<1>1. /\ TypeOK /\ restarts \in Nat /\ WorkerMaxAttempts \in Nat /\ WorkerMaxAttempts > 0
      /\ \A s \in Segments, b \in Boundaries : jobs[s][b] # None =>
           jobs[s][b] \in Job /\ jobs[s][b].attempts \in Nat
  BY ConstantsAssumption DEF QueueInv, TypeOK, Job
<1>2. ASSUME NEW s \in Segments, Enqueue(s)
      PROVE  AttemptBudget'
  <2>1. phase' = phase /\ restarts' = restarts
    BY <1>2 DEF Enqueue, EnqueueIgnored, EnqueueRepeated, EnqueueSettled, EnqueueChanged,
                workers, bounds
  <2>2. QED
    BY <1>2, <2>1, EnqueueEases, EasedBudget
<1>3. ASSUME NEW s \in Segments, Repair(s)
      PROVE  AttemptBudget'
  <2>1. PICK c \in Boundaries : /\ LockCurrentFailedTargetJob(s, c)
                                /\ \/ SetRow(s, c, PendingRow(targets[s]))
                                   \/ SetRow(s, c, SupersededRow(jobs[s][c]))
    BY <1>3 DEF Repair, RetryFailedJob, SupersedeFailedJob
  <2>2. jobs[s][c] \in Job /\ jobs[s][c] # None
    BY <1>1, <2>1 DEF LockCurrentFailedTargetJob, HasStatus
  <2>3. /\ PendingRow(targets[s]).attempts = 0 /\ PendingRow(targets[s]).status = "pending"
        /\ SupersededRow(jobs[s][c]).attempts = jobs[s][c].attempts
        /\ SupersededRow(jobs[s][c]).status = "superseded"
    BY <2>2 DEF PendingRow, SupersededRow, Job
  <2>4. ASSUME NEW x \in Segments, NEW b \in Boundaries
        PROVE  Eased(jobs[x][b], jobs'[x][b])
    <3>1. CASE x = s /\ b = c
      <4>1. jobs'[x][b] = PendingRow(targets[s]) \/ jobs'[x][b] = SupersededRow(jobs[s][c])
        BY <1>1, <2>1, <3>1 DEF SetRow, TypeOK
      <4>2. QED
        BY <2>2, <2>3, <3>1, <4>1 DEF Eased
    <3>2. CASE ~(x = s /\ b = c)
      <4>1. jobs'[x][b] = jobs[x][b]
        BY <1>1, <2>1, <3>2 DEF SetRow, TypeOK
      <4>2. QED
        BY <4>1 DEF Eased
    <3>3. QED
      BY <3>1, <3>2
  <2>5. phase' = phase /\ restarts' = restarts
    BY <1>3 DEF Repair, RetryFailedJob, SupersedeFailedJob, workers, bounds
  <2>6. QED
    BY <2>4, <2>5, EasedBudget
<1>4. ASSUME NEW s \in Segments, NEW c \in Boundaries, BackoffElapses(s, c)
      PROVE  AttemptBudget'
  <2>1. jobs[s][c] \in Job /\ jobs[s][c] # None
    BY <1>1, <1>4 DEF BackoffElapses, HasStatus
  <2>2. ASSUME NEW x \in Segments, NEW b \in Boundaries
        PROVE  Eased(jobs[x][b], jobs'[x][b])
    <3>1. CASE x = s /\ b = c
      <4>1. jobs'[x][b] = [jobs[s][c] EXCEPT !.due = TRUE]
        BY <1>1, <1>4, <3>1 DEF BackoffElapses, TypeOK
      <4>2. QED
        BY <2>1, <3>1, <4>1 DEF Eased, Job
    <3>2. CASE ~(x = s /\ b = c)
      <4>1. jobs'[x][b] = jobs[x][b]
        BY <1>1, <1>4, <3>2 DEF BackoffElapses, TypeOK
      <4>2. QED
        BY <4>1 DEF Eased
    <3>3. QED
      BY <3>1, <3>2
  <2>3. QED
    BY <1>4, <2>2, EasedBudget DEF BackoffElapses, workers, bounds
<1>5. CASE Lead
  <2>1. CASE jobs' = jobs
    <3>1. restarts' = restarts /\ phase' \notin {"stopping"}
      BY <1>5 DEF Lead, AcquireLock, RecoverSegment, BeginWork, ReleaseLock, bounds
    <3>2. phase' # "working" => phase # "working"
      BY <1>5 DEF Lead, AcquireLock, RecoverSegment, BeginWork, ReleaseLock, QueueInv,
                  PickHasLeader
    <3>3. QED
      BY <2>1, <3>1, <3>2 DEF AttemptBudget, Budget
  <2>2. ASSUME NEW s \in Segments, RecoverSegment(s)
        PROVE  AttemptBudget'
    <3>1. phase = "recovering" /\ phase' = phase /\ restarts' = restarts
      BY <2>2 DEF RecoverSegment, bounds
    <3>2. ASSUME NEW x \in Segments, NEW b \in Boundaries, jobs'[x][b] # None
          PROVE  /\ jobs'[x][b].attempts <= Budget
                 /\ jobs'[x][b].status = "pending" => jobs'[x][b].attempts + 1 <= Budget
                 /\ jobs'[x][b].status = "running" => jobs'[x][b].attempts < Budget
      <4>1. CASE jobs'[x][b] = jobs[x][b]
        BY <3>1, <3>2, <4>1 DEF AttemptBudget
      <4>2. CASE x = s /\ Runs(s, b)
        <5>1. jobs[s][b] \in Job /\ jobs[s][b].attempts < Budget
          BY <1>1, <3>1, <4>2 DEF Runs, Is, AttemptBudget
        <5>2. /\ RecoveredRow(jobs[s][b], targets[s]).attempts \in {jobs[s][b].attempts, 0}
              /\ SupersededRow(jobs[s][b]).attempts = jobs[s][b].attempts
          BY <5>1 DEF RecoveredRow, PendingRow, SupersededRow, Job
        <5>3. jobs'[s][b].attempts \in {jobs[s][b].attempts, 0}
          BY <2>2, <4>2, <5>2, RecoveredRests
        <5>4. QED
          <6>1. /\ jobs[s][b].attempts \in Nat /\ Budget \in Nat /\ Budget > 0
                /\ jobs'[x][b].attempts \in {jobs[s][b].attempts, 0}
            BY <1>1, <4>2, <5>1, <5>3 DEF Job, Budget
          <6>2. ~(jobs'[x][b].status = "running")
            BY <2>2, <3>2, <4>2, RecoveredRests DEF Runs, Is
          <6>3. QED
            BY <5>1, <6>1, <6>2
      <4>3. CASE x # s \/ ~Runs(s, b)
        <5>1. jobs'[x][b] = jobs[x][b]
          BY <1>1, <2>2, <4>3, RecoveredRests DEF RecoverSegment, TypeOK
        <5>2. QED
          BY <4>1, <5>1
      <4>4. QED
        BY <4>2, <4>3
    <3>3. QED
      BY <3>1, <3>2 DEF AttemptBudget, Budget
  <2>3. QED
    BY <1>5, <2>1, <2>2 DEF Lead, AcquireLock, BeginWork, ReleaseLock, store
<1>6. CASE Claim
  <2>1. CASE jobs' = jobs
    BY <1>6, <2>1, EasedBudget DEF Claim, SelectJob, DropPicked, ClaimPicked, Eased, bounds
  <2>2. ASSUME NEW lease \in Leases, ClaimPicked(lease)
        PROVE  AttemptBudget'
    <3> DEFINE s == picked.segment
               c == picked.boundary
               row == [jobs[s][c] EXCEPT !.status = "running", !.attempts = @ + 1,
                                         !.lease = lease]
    <3>1. /\ s \in Segments /\ c \in Boundaries /\ jobs[s][c] \in Job
          /\ Is(jobs[s], c, {"pending"}) /\ jobs' = [jobs EXCEPT ![s][c] = row]
      BY <2>2, ClaimTaken DEF TakenRow
    <3>2. row.attempts = jobs[s][c].attempts + 1 /\ row.status = "running"
      BY <3>1 DEF Job
    <3>3. /\ jobs[s][c].attempts + 1 <= Budget
          /\ phase = "stopping" => jobs[s][c].attempts + 1 < Budget
      BY <3>1 DEF Is, AttemptBudget
    <3> HIDE DEF row, s, c
    <3>4. phase' = phase /\ restarts' = restarts /\ phase \in {"working", "stopping"}
      BY <2>2 DEF ClaimPicked, bounds, QueueInv, PickHasLeader
    <3>5. ASSUME NEW x \in Segments, NEW b \in Boundaries
          PROVE  jobs'[x][b] = IF x = s /\ b = c THEN row ELSE jobs[x][b]
      BY <1>1, <3>1 DEF TypeOK
    <3>6. ASSUME NEW x \in Segments, NEW b \in Boundaries, jobs'[x][b] # None
          PROVE  /\ jobs'[x][b].attempts <= Budget
                 /\ jobs'[x][b].status = "pending" => jobs'[x][b].attempts + 1 <= Budget
                 /\ jobs'[x][b].status = "running" /\ phase # "working" =>
                      jobs'[x][b].attempts < Budget
                 /\ jobs'[x][b].status = "pending" /\ phase = "stopping" =>
                      jobs'[x][b].attempts + 1 < Budget
      <4>1. CASE x = s /\ b = c
        <5>1. jobs'[x][b] = row
          BY <3>5, <4>1
        <5>2. QED
          BY <3>2, <3>3, <3>4, <5>1
      <4>2. CASE ~(x = s /\ b = c)
        <5>1. jobs'[x][b] = jobs[x][b]
          BY <3>5, <4>2
        <5>2. QED
          BY <3>6, <5>1 DEF AttemptBudget
      <4>3. QED
        BY <4>1, <4>2
    <3>7. QED
      BY <3>4, <3>6 DEF AttemptBudget, Budget
  <2>3. QED
    BY <1>6, <2>1, <2>2 DEF Claim, SelectJob, DropPicked, store
<1>7. ASSUME NEW t \in tasks, Attempt(t)
      PROVE  AttemptBudget'
  <2> DEFINE s == t.segment
             c == t.source.boundary
  <2>1. /\ s \in Segments /\ c \in Boundaries /\ phase' = phase /\ restarts' = restarts
    BY <1>1, <1>7 DEF TypeOK, Task, Identity, Attempt, PublishExtraction, CommitResolution,
       FinishFailedAttempt, RequeueLatestTarget, StaleAttempt, workers, bounds
  <2>2. HoldsLease(t) => /\ RowOf(t) = jobs[s][c] /\ jobs[s][c] # None
                         /\ jobs[s][c] \in Job /\ jobs[s][c].status = "running"
                         /\ jobs[s][c].attempts = t.attempts
    BY <1>1, <2>1 DEF HoldsLease, RowOf, LiveAttemptIsAccurate
  <2>3. CASE jobs' = jobs
    BY <2>1, <2>3, EasedBudget DEF Eased
  <2>4. CASE CommitResolution(t)
    <3>1. jobs' = [jobs EXCEPT ![s][c] = SucceededRow(jobs[s][c])] /\ HoldsLease(t)
      BY <2>2, <2>4 DEF CommitResolution, SetRow, Current
    <3>2. /\ SucceededRow(jobs[s][c]).attempts = jobs[s][c].attempts
          /\ SucceededRow(jobs[s][c]).status = "succeeded"
      BY <2>2, <3>1 DEF SucceededRow, Job
    <3> HIDE DEF s, c
    <3>3. ASSUME NEW x \in Segments, NEW b \in Boundaries
          PROVE  Eased(jobs[x][b], jobs'[x][b])
      BY <1>1, <2>1, <2>2, <3>1, <3>2 DEF TypeOK, Eased
    <3>4. QED
      BY <2>1, <3>3, EasedBudget
  <2>5. ASSUME NEW terminal \in BOOLEAN, FinishFailedAttempt(t, terminal)
        PROVE  AttemptBudget'
    <3> DEFINE retry == ~terminal /\ ShouldRetry(t)
               row == [RowOf(t) EXCEPT !.status = IF retry THEN "pending" ELSE "failed",
                                       !.lease = None, !.due = ~retry]
    <3>1. jobs' = [jobs EXCEPT ![s][c] = row] /\ HoldsLease(t)
      BY <2>5 DEF FinishFailedAttempt, SetRow, Current
    <3>2. /\ row.attempts = t.attempts
          /\ row.status = "failed" \/ (row.status = "pending" /\ t.attempts < WorkerMaxAttempts)
      BY <2>2, <3>1 DEF Job, ShouldRetry
    <3>3. t.attempts \in Nat /\ t.attempts <= Budget
      BY <1>1, <2>1, <2>2, <3>1 DEF AttemptBudget
    <3> HIDE DEF row, s, c
    <3>4. ASSUME NEW x \in Segments, NEW b \in Boundaries, jobs'[x][b] # None
          PROVE  /\ jobs'[x][b].attempts <= Budget
                 /\ jobs'[x][b].status = "pending" => jobs'[x][b].attempts + 1 <= Budget
                 /\ jobs'[x][b].status = "running" /\ phase # "working" =>
                      jobs'[x][b].attempts < Budget
                 /\ jobs'[x][b].status = "pending" /\ phase = "stopping" =>
                      jobs'[x][b].attempts + 1 < Budget
      <4>1. CASE x = s /\ b = c
        <5>1. jobs'[x][b] = row
          BY <1>1, <2>1, <3>1, <4>1 DEF TypeOK
        <5>2. phase = "stopping" => restarts > 0
          BY DEF AttemptBudget
        <5>3. t.attempts < WorkerMaxAttempts =>
                /\ t.attempts + 1 <= Budget
                /\ phase = "stopping" => t.attempts + 1 < Budget
          BY <1>1, <3>3, <5>2 DEF Budget
        <5>4. QED
          BY <3>2, <3>3, <5>1, <5>3
      <4>2. CASE ~(x = s /\ b = c)
        <5>1. jobs'[x][b] = jobs[x][b]
          BY <1>1, <2>1, <3>1, <4>2 DEF TypeOK
        <5>2. QED
          BY <3>4, <5>1 DEF AttemptBudget
      <4>3. QED
        BY <4>1, <4>2
    <3>5. QED
      BY <2>1, <3>4 DEF AttemptBudget, Budget
  <2>6. CASE RequeueLatestTarget(t)
    <3>1. /\ HoldsLease(t)
          /\ jobs' = [jobs EXCEPT ![s] = [d \in Boundaries |->
               IF targets[s] # None /\ d = targets[s].job
                  /\ (d = c \/ ~HasStatus(s, d, {"running"}))
               THEN PendingRow(targets[s])
               ELSE IF d = c THEN SupersededRow(jobs[s][c])
               ELSE jobs[s][d]]]
      BY <2>6 DEF RequeueLatestTarget
    <3>2. /\ PendingRow(targets[s]).attempts = 0 /\ PendingRow(targets[s]).status = "pending"
          /\ SupersededRow(jobs[s][c]).attempts = jobs[s][c].attempts
          /\ SupersededRow(jobs[s][c]).status = "superseded"
      BY <2>2, <3>1 DEF PendingRow, SupersededRow, Job
    <3> HIDE DEF s, c
    <3>3. ASSUME NEW x \in Segments, NEW b \in Boundaries
          PROVE  \/ jobs'[x][b] = jobs[x][b]
                 \/ jobs'[x][b] = PendingRow(targets[s])
                 \/ x = s /\ b = c /\ jobs'[x][b] = SupersededRow(jobs[s][c])
      BY <1>1, <2>1, <3>1 DEF TypeOK
    <3>4. ASSUME NEW x \in Segments, NEW b \in Boundaries
          PROVE  Eased(jobs[x][b], jobs'[x][b])
      BY <2>2, <3>1, <3>2, <3>3 DEF Eased
    <3>5. QED
      BY <2>1, <3>4, EasedBudget
  <2>7. QED
    BY <1>7, <2>3, <2>4, <2>5, <2>6 DEF Attempt, PublishExtraction, StaleAttempt, store
<1>8. CASE Fault
  <2>1. jobs' = jobs
    BY <1>8 DEF Fault, StopWorker, LoseConnection, Crash, DeployNewValidation,
                AttemptLost, store
  <2>2. CASE restarts' = restarts + 1
    BY <1>1, <2>1, <2>2 DEF AttemptBudget, Budget
  <2>3. CASE restarts' = restarts /\ phase' = phase
    BY <2>1, <2>3, EasedBudget DEF Eased
  <2>4. QED
    BY <1>8, <2>2, <2>3 DEF Fault, StopWorker, LoseConnection, Crash, DeployNewValidation,
                            AttemptLost, workers
<1>9. QED
  BY <1>2, <1>3, <1>4, <1>5, <1>6, <1>7, <1>8 DEF Next

-----------------------------------------------------------------------------
(* The invariant, and the safety properties that follow from it.           *)

\* Before anything was posted there is nothing to lease.
LEMMA ClaimInvInit == Init => ClaimInv
<1> SUFFICES ASSUME Init
             PROVE  ClaimInv
  OBVIOUS
<1>1. QueueInv
  BY QueueInvInit
<1>2. LeaseInv /\ LiveAttemptIsAccurate /\ HoldersLead /\ PickedIsAlone /\ SessionIsSerial
  BY DEF Init, LeaseInv, Runs, Is, LiveAttemptIsAccurate, HoldersLead, PickedIsAlone,
         SessionIsSerial
<1>3. AttemptBudget
  BY DEF Init, AttemptBudget
<1>4. QED
  BY <1>1, <1>2, <1>3 DEF ClaimInv

\* Every part of the invariant is kept by every step.
LEMMA ClaimInvStep ==
  ASSUME ClaimInv, [Next]_vars
  PROVE  ClaimInv'
<1>1. QueueInv'
  BY QueueInvStep DEF ClaimInv
<1>2. CASE Next
  BY <1>1, <1>2, LeaseStep, LiveStep, HoldersStep, AloneStep, SerialStep, BudgetStep
  DEF ClaimInv
<1>3. CASE UNCHANGED vars
  <2>1. /\ jobs' = jobs /\ targets' = targets /\ tasks' = tasks /\ validation' = validation
        /\ leader' = leader /\ phase' = phase /\ toRecover' = toRecover
        /\ picked' = picked /\ restarts' = restarts
    BY <1>3 DEF vars, store, workers, bounds
  <2>2. \A t : HoldsLease(t)' <=> HoldsLease(t)
    BY <2>1 DEF HoldsLease, RowOf
  <2>3. LeaseInv'
    BY <2>1 DEF ClaimInv, LeaseInv, Runs, Is
  <2>4. LiveAttemptIsAccurate'
    BY <2>1, <2>2 DEF ClaimInv, LiveAttemptIsAccurate, PersistedJobMatchesClaim,
                      TargetMatchesJob, StagedEligible, RowOf
  <2>5. HoldersLead' /\ SessionIsSerial' /\ PickedIsAlone'
    BY <2>1, <2>2 DEF ClaimInv, HoldersLead, SessionIsSerial, PickedIsAlone, TasksOf
  <2>6. AttemptBudget'
    BY <2>1 DEF ClaimInv, AttemptBudget, Budget
  <2>7. QED
    BY <1>1, <2>3, <2>4, <2>5, <2>6 DEF ClaimInv
<1>4. QED
  BY <1>2, <1>3

\* The invariant of the claims holds in every reachable state.
THEOREM ClaimInvariant == Spec => []ClaimInv
  BY ClaimInvInit, ClaimInvStep, PTL DEF Spec

\* Every running row has its lease to itself, and no other row has one.
THEOREM LeaseIsNobodyElses == Spec => []LeasesAreExclusive
<1>1. ASSUME ClaimInv, NEW s \in Segments, NEW x \in Segments, NEW b \in Boundaries,
             NEW c \in Boundaries, jobs[s][b] # None
      PROVE  /\ (jobs[s][b].status = "running") <=> (jobs[s][b].lease # None)
             /\ jobs[x][c] # None /\ jobs[s][b].lease # None
                  /\ jobs[x][c].lease = jobs[s][b].lease => s = x /\ b = c
  <2>1. /\ (jobs[s][b].status = "running") <=> (jobs[s][b].lease # None)
        /\ jobs[x][c] # None =>
             ((jobs[x][c].status = "running") <=> (jobs[x][c].lease # None))
    BY <1>1 DEF ClaimInv, QueueInv, SegmentsInv, SegmentInv, Consistent, RowsAgree, RowFits
  <2>2. QED
    BY <1>1, <2>1 DEF ClaimInv, LeaseInv, Runs, Is
<1>2. ClaimInv => LeasesAreExclusive
  BY <1>1 DEF LeasesAreExclusive
<1>3. QED
  BY <1>2, ClaimInvariant, PTL

\* What the claim query read before the segment was locked still holds once the
\* selected row is found unchanged under the lock.
THEOREM SelectionStaysGood == Spec => []PickStaysValid
<1>1. ASSUME QueueInv, picked # None, Refreshed(picked)
      PROVE  LET s == picked.segment
             IN  /\ picked.row.payload = picked.row.source
                 /\ FailedTargetMatchesJob(s, picked.boundary)
                 /\ \A b \in Boundaries : ~HasStatus(s, b, {"running"})
                 /\ picked.extraction = IF StagedEligible(targets[s])
                                        THEN targets[s].staged.extraction ELSE None
  <2> DEFINE s == picked.segment
             b == picked.boundary
             row == jobs[s][b]
  <2>1. /\ s \in Segments /\ b \in Boundaries /\ jobs[s] \in Rows
        /\ \A c \in Boundaries : \A states : HasStatus(s, c, states) <=> Is(jobs[s], c, states)
        /\ FailedTargetMatchesJob(s, b) <=> Wants(targets[s], b, row)
    BY <1>1, SegmentTerms DEF QueueInv, TypeOK, Pick
  <2>2. /\ row # None /\ row.status = "pending" /\ row.generation = picked.row.generation
    BY <1>1 DEF Refreshed
  <2>3. Wants(targets[s], b, row)
    BY <1>1, <2>1, <2>2 DEF QueueInv, SegmentsInv, SegmentInv, Consistent, RowsAgree
  <2>4. targets[s].generation = picked.row.generation
    BY <2>2, <2>3 DEF Wants
  <2>5. /\ picked.row.payload = picked.row.source
        /\ \A c \in Boundaries : ~Is(jobs[s], c, {"running"})
        /\ picked.extraction = IF StagedEligible(targets[s])
                               THEN targets[s].staged.extraction ELSE None
    BY <1>1, <2>4 DEF QueueInv, PickInv, Is
  <2>6. QED
    BY <2>1, <2>3, <2>5
<1>2. QueueInv => PickStaysValid
  BY <1>1 DEF PickStaysValid
<1>3. QED
  BY <1>2, QueueInvariant, PTL

\* An attempt that can still write knows its row, its count and the staged result.
THEOREM LiveAttemptsKnow == Spec => []LiveAttemptIsAccurate
<1>1. ClaimInv => LiveAttemptIsAccurate
  BY DEF ClaimInv
<1>2. QED
  BY <1>1, ClaimInvariant, PTL

\* A session has one attempt per replica, and one in all that can still write.
THEOREM SessionsAreSerial == Spec => []SessionIsSerial
<1>1. ClaimInv => SessionIsSerial
  BY DEF ClaimInv
<1>2. QED
  BY <1>1, ClaimInvariant, PTL

\* A failing row is given up after WorkerMaxAttempts claims, not counting those
\* that a restart cut short.
THEOREM AttemptsStayBounded == Spec => []AttemptsAreBounded
<1>1. ASSUME ClaimInv, NEW s \in Segments, NEW b \in Boundaries, jobs[s][b] # None
      PROVE  jobs[s][b].attempts + (IF HasStatus(s, b, {"pending"}) THEN 1 ELSE 0)
               <= WorkerMaxAttempts + restarts
  <2>1. jobs[s][b].attempts \in Nat
    BY <1>1 DEF ClaimInv, QueueInv, TypeOK, Job
  <2>2. QED
    BY <1>1, <2>1 DEF ClaimInv, AttemptBudget, Budget, HasStatus
<1>2. ClaimInv => AttemptsAreBounded
  BY <1>1 DEF AttemptsAreBounded
<1>3. QED
  BY <1>2, ClaimInvariant, PTL

-----------------------------------------------------------------------------
(* What a step may never do. *)

\* Only a commit of the wanted snapshot writes a summary.
LEMMA OnlyCommitWrites ==
  ASSUME QueueInv, [Next]_vars, NEW s \in Segments, segments'[s] # segments[s]
  PROVE  \E t \in tasks :
           /\ t.segment = s /\ CommitResolution(t)
           /\ segments'[s] = [source |-> t.source, generation |-> t.generation,
                              extraction |-> t.extraction]
           /\ ~(segments[s] # None /\ segments[s].source.version > t.source.version)
<1>1. Next
  BY DEF vars, store
<1>2. TypeOK
  BY DEF QueueInv
<1>3. ASSUME NEW x \in Segments, Enqueue(x) \/ Repair(x)
      PROVE  FALSE
  BY <1>3 DEF Enqueue, EnqueueIgnored, EnqueueRepeated, EnqueueSettled, EnqueueChanged,
              Repair, RetryFailedJob, SupersedeFailedJob
<1>4. ~(\E x \in Segments, b \in Boundaries : BackoffElapses(x, b))
  BY DEF BackoffElapses
<1>5. ~Lead /\ ~Claim /\ ~Fault
  BY DEF Lead, AcquireLock, RecoverSegment, BeginWork, ReleaseLock, Claim, SelectJob,
         DropPicked, ClaimPicked, Fault, StopWorker, LoseConnection, Crash,
         DeployNewValidation, AttemptLost, store
<1>6. PICK t \in tasks : Attempt(t)
  BY <1>1, <1>3, <1>4, <1>5 DEF Next
<1>7. CommitResolution(t)
  BY <1>6 DEF Attempt, PublishExtraction, FinishFailedAttempt, RequeueLatestTarget,
              StaleAttempt, store
<1>8. t.segment \in Segments
  BY <1>2 DEF TypeOK, Task
<1>9. /\ t.segment = s
      /\ segments'[s] = [source |-> t.source, generation |-> t.generation,
                         extraction |-> t.extraction]
      /\ ~(segments[s] # None /\ segments[s].source.version > t.source.version)
  BY <1>2, <1>7, <1>8 DEF CommitResolution, TypeOK
<1>10. QED
  BY <1>7, <1>9

\* The summary moves on to newer generations and never to an older version.
THEOREM SummaryMovesForward == Spec => MemoryAdvances
<1>1. ASSUME QueueInv, QueueInv', [Next]_vars, NEW s \in Segments, segments[s] # None
      PROVE  /\ segments'[s] # None
             /\ segments'[s] # segments[s] =>
                  /\ segments'[s].generation > segments[s].generation
                  /\ segments'[s].source.version >= segments[s].source.version
  <2>1. CASE segments'[s] = segments[s]
    BY <1>1, <2>1
  <2>2. CASE segments'[s] # segments[s]
    <3>1. PICK t \in tasks :
            /\ t.segment = s /\ CommitResolution(t)
            /\ segments'[s] = [source |-> t.source, generation |-> t.generation,
                               extraction |-> t.extraction]
            /\ ~(segments[s].source.version > t.source.version)
      BY <1>1, <2>2, OnlyCommitWrites
    <3>2. /\ segments[s] \in Memory /\ segments[s].generation \in Nat
          /\ segments[s].source.version \in Nat /\ t.source.version \in Nat
          /\ t.generation \in Nat /\ t.source \in Identity
      BY <1>1, ConstantsAssumption DEF QueueInv, TypeOK, Memory, Identity, Task
    <3>3. targets[s] # None /\ targets[s].generation = t.generation
      BY <3>1 DEF CommitResolution, Current, TargetMatchesJob
    <3>4. segments[s].generation < targets[s].generation
      BY <1>1, <3>3 DEF QueueInv, SegmentsInv, SegmentInv, Consistent, TargetAgrees
    <3>5. segments'[s] # None
      <4>1. segments'[s] \in Memory \/ segments'[s] = None
        BY <1>1 DEF QueueInv, TypeOK
      <4>2. t.extraction \in Extraction
        BY <1>1, <3>1 DEF QueueInv, TypeOK, Task, CommitResolution
      <4>3. segments'[s] \in Memory
        BY <3>1, <3>2, <4>2 DEF Memory
      <4>4. QED
        BY <4>3, NoneIsNoRow
    <3>6. QED
      BY <3>1, <3>2, <3>3, <3>4, <3>5
  <2>3. QED
    BY <2>1, <2>2
<1>2. QueueInv /\ QueueInv' /\ [Next]_vars =>
        [\A s \in Segments : segments[s] # None =>
           /\ segments'[s] # None
           /\ segments'[s] # segments[s] =>
                /\ segments'[s].generation > segments[s].generation
                /\ segments'[s].source.version >= segments[s].source.version]_vars
  BY <1>1
<1>3. Spec => [][Next]_vars
  BY DEF Spec
<1>4. QED
  BY <1>2, <1>3, QueueInvariant, PTL DEF MemoryAdvances

\* What is committed is what is wanted at that moment, extracted from it, and
\* the wanted snapshot's row has then succeeded.
THEOREM OnlyTheWantedIsCommitted == Spec => CommitsTheWanted
<1>1. ASSUME QueueInv, [Next]_vars, NEW s \in Segments, segments'[s] # segments[s]
      PROVE  /\ targets[s] # None /\ targets'[s] = None
             /\ segments'[s].source = IdentityOf(targets[s].source)
             /\ segments'[s].generation = targets[s].generation
             /\ segments'[s].extraction.boundary = targets[s].source.boundary
             /\ segments'[s].extraction.content = targets[s].source.content
             /\ jobs'[s][targets[s].job].status = "succeeded"
  <2>1. PICK t \in tasks :
          /\ t.segment = s /\ CommitResolution(t)
          /\ segments'[s] = [source |-> t.source, generation |-> t.generation,
                             extraction |-> t.extraction]
    BY <1>1, OnlyCommitWrites
  <2>2. /\ TypeOK /\ t \in Task /\ t.source \in Identity /\ t.source.boundary \in Boundaries
        /\ HoldsLease(t) /\ TargetMatchesJob(t)
    BY <1>1, <2>1 DEF QueueInv, TypeOK, Task, Identity, CommitResolution, Current
  <2>3. /\ targets[s] # None /\ targets[s].job = t.source.boundary
        /\ targets[s].generation = t.generation /\ SameSource(targets[s].source, t.source)
    BY <2>1, <2>2 DEF TargetMatchesJob
  <2>4. t.source = IdentityOf(targets[s].source)
    BY <2>2, <2>3 DEF Identity, IdentityOf, SameSource
  <2>5. /\ t.extraction.boundary = targets[s].source.boundary
        /\ t.extraction.content = targets[s].source.content
    BY <2>1 DEF CommitResolution, StagedEligible
  <2>6. targets'[s] = None
    BY <2>1, <2>2 DEF CommitResolution, TypeOK
  <2>7. jobs'[s][t.source.boundary].status = "succeeded"
    <3>1. jobs[s][t.source.boundary] \in Job /\ RowOf(t) = jobs[s][t.source.boundary]
      BY <2>1, <2>2 DEF HoldsLease, RowOf, TypeOK
    <3>2. jobs'[s][t.source.boundary] = SucceededRow(jobs[s][t.source.boundary])
      BY <2>1, <2>2, <3>1 DEF CommitResolution, SetRow, TypeOK
    <3>3. QED
      BY <3>1, <3>2 DEF SucceededRow, Job
  <2>8. QED
    BY <2>1, <2>3, <2>4, <2>5, <2>6, <2>7
<1>2. QueueInv /\ [Next]_vars =>
        [\A s \in Segments : segments'[s] # segments[s] =>
           /\ targets[s] # None /\ targets'[s] = None
           /\ segments'[s].source = IdentityOf(targets[s].source)
           /\ segments'[s].generation = targets[s].generation
           /\ segments'[s].extraction.boundary = targets[s].source.boundary
           /\ segments'[s].extraction.content = targets[s].source.content
           /\ jobs'[s][targets[s].job].status = "succeeded"]_vars
  BY <1>1
<1>3. Spec => [][Next]_vars
  BY DEF Spec
<1>4. QED
  BY <1>2, <1>3, QueueInvariant, PTL DEF CommitsTheWanted

\* Staged work that still counts is thrown away only by a newer snapshot or
\* while its row has failed.
THEOREM PaidWorkSurvives == Spec => StagingSurvives
<1>1. ASSUME ClaimInv, [Next]_vars, NEW s \in Segments,
             targets[s] # None, targets'[s] # None,
             targets'[s].generation = targets[s].generation,
             StagedEligible(targets[s]),
             ~HasStatus(s, targets[s].job, {"failed"})
      PROVE  targets'[s].staged = targets[s].staged
  <2>1. CASE UNCHANGED vars
    BY <2>1 DEF vars, store
  <2>2. ASSUME Next, NEW t \in tasks, NEW text \in Texts, t.segment = s,
               PublishExtraction(t, text)
        PROVE  FALSE
    <3>1. HoldsLease(t) /\ TargetMatchesJob(t) /\ t.extraction = None
      BY <2>2 DEF PublishExtraction, Current
    <3>2. t.extraction = targets[s].staged.extraction
      BY <1>1, <2>2, <3>1 DEF ClaimInv, LiveAttemptIsAccurate
    <3>3. targets[s].staged \in Staged
      BY <1>1 DEF ClaimInv, QueueInv, TypeOK, Target, StagedEligible
    <3>4. QED
      BY <3>1, <3>2, <3>3, NoneIsNoRecord DEF Staged
  <2>3. CASE Next /\ \A t \in tasks, text \in Texts :
                       t.segment = s => ~PublishExtraction(t, text)
    <3>1. targets[s].generation \in Nat
      BY <1>1 DEF ClaimInv, QueueInv, TypeOK, Target
    <3>2. QED
      BY <1>1, <2>3, <3>1, TargetStays DEF ClaimInv
  <2>4. QED
    BY <1>1, <2>1, <2>2, <2>3
<1>2. ClaimInv /\ [Next]_vars =>
        [\A s \in Segments :
           /\ targets[s] # None /\ targets'[s] # None
           /\ targets'[s].generation = targets[s].generation
           /\ StagedEligible(targets[s])
           /\ ~HasStatus(s, targets[s].job, {"failed"})
           => targets'[s].staged = targets[s].staged]_vars
  BY <1>1
<1>3. Spec => [][Next]_vars
  BY DEF Spec
<1>4. QED
  BY <1>2, <1>3, ClaimInvariant, PTL DEF StagingSurvives

-----------------------------------------------------------------------------
(* The conjunctions that the runs check. *)

\* Nothing posted is lost: the target's row is alive, what waits is the target's,
\* and what runs has it behind itself.
THEOREM WantedIsServed == Spec => []WantedIsWorkedOn
<1>1. TargetIsBacked /\ QueueFollowsTarget /\ RunningHasSuccessor => WantedIsWorkedOn
  BY DEF WantedIsWorkedOn
<1>2. QED
  BY <1>1, WantedIsBacked, NothingIsStranded, SuccessorIsQueued, PTL

\* One row of a segment runs, and none is ahead of the wanted snapshot.
THEOREM RowsStayOrdered == Spec => []RowsAreOrdered
<1>1. OneRunning /\ GenerationsAreOrdered => RowsAreOrdered
  BY DEF RowsAreOrdered
<1>2. QED
  BY <1>1, SegmentRunsOnce, WantedIsNewest, PTL

\* Whoever may write holds a lease of its own and knows what it writes about.
THEOREM AttemptsStayFenced == Spec => []AttemptsAreFenced
<1>1. LeasesAreExclusive /\ PickStaysValid /\ LiveAttemptIsAccurate => AttemptsAreFenced
  BY DEF AttemptsAreFenced
<1>2. QED
  BY <1>1, LeaseIsNobodyElses, SelectionStaysGood, LiveAttemptsKnow, PTL
=============================================================================
