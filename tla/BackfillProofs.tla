--------------------------- MODULE BackfillProofs ---------------------------
(* Why a completed session is stored and a working backfill holds its      *)
(* lock, for every number of workers, sessions and segments.               *)
EXTENDS Backfill, SequenceTheorems, WellFoundedInduction, TLAPS

Failure == Snapshot \cup {WholeSession(s) : s \in Sessions}

WorkerRecord ==
  [pc : Pc, todo : SUBSET Job, queue : SUBSET Sessions, deferred : SUBSET Sessions,
   session : {0} \cup Sessions, revision : Nat, open : BOOLEAN, plan : Seq(Planned),
   index : Nat, job : Job \cup {None}, key : Snapshot \cup {None},
   status : Status \cup {None}, rounds : Nat, provider : BOOLEAN,
   completed : SUBSET Snapshot, attempted : SUBSET Snapshot, failures : SUBSET Failure]

LocalRecord ==
  [spans : Seq(Content), open : BOOLEAN, quiet : BOOLEAN, expired : BOOLEAN,
   gone : BOOLEAN, revision : Nat]

(* The job is being processed: it has been posted, or found as a priority. *)
Answered == InSession \ {"plan", "post"}

(* What a worker remembers, wherever it is. *)
Remembers(r) ==
  /\ r \in WorkerRecord
  /\ r.queue \cap r.deferred = {}
  /\ r.session \notin r.queue \cup r.deferred
  /\ Len(r.plan) <= LastSpan /\ r.index \in 1..(Len(r.plan) + 1)
  /\ r.rounds < MaxRounds
  /\ r.attempted \subseteq r.failures
  /\ r.session = 0 => r.index = 1

(* The job at hand is the one of the snapshot at hand. *)
HasJob(r) ==
  /\ r.key # None /\ r.job = <<r.key[1], r.key[2], r.key[3].end>>
  /\ r.session # 0 => r.index <= Len(r.plan) /\ r.key = KeyOf(r, r.index)

(* What a worker remembers fits what it is at. *)
WorkerFits(r) ==
  /\ Remembers(r)
  /\ r.pc \notin InSession => r.session = 0
  /\ r.pc \in {"plan", "post"} => r.session # 0
  /\ r.pc = "plan" => r.index = 1
  /\ r.pc \in InSession \ {"plan"} => HasJob(r)
  /\ r.pc = "succeeded?" => r.status = "succeeded"
  /\ r.pc = "failed?" => r.status \in {"failed", "unpaid"}
  /\ r.pc = "given up?" => r.status = "failed"

Types ==
  /\ local \in [Sessions -> LocalRecord]
  /\ used \in [edits : 0..MaxEdits, troubles : 0..MaxTroubles]
  /\ \A s \in Sessions : /\ Len(local[s].spans) \in 1..LastSpan
                         /\ local[s].revision <= used.edits
  /\ rows \in [Sessions -> [Spans -> [Ends -> Row \cup {None}]]]
  /\ target \in [Sessions -> [Spans -> Content \cup {None}]]
  /\ memory \in [Sessions -> [Spans -> Content \cup {None}]]
  /\ lock \in {None} \cup [by : Workers \cup {Gone}, written : BOOLEAN]
  /\ taken \subseteq Workers
  /\ worker \in [Workers -> WorkerRecord]
  /\ \A w \in Workers : WorkerFits(worker[w])
  /\ settled \subseteq Workers \X Sessions

Live == {"pending", "running", "failed", "unpaid"}

(* A wanted content has a row that can still become it. *)
Backed == \A s \in Sessions, n \in Spans : target[s][n] # None =>
  /\ RowOf(<<s, n, target[s][n].end>>) # None
  /\ RowOf(<<s, n, target[s][n].end>>).status \in Live

(* An answered job has a row. *)
JobsExist == \A w \in Workers :
  worker[w].pc \in Answered => RowOf(worker[w].job) # None

TypeInv == Types /\ Backed /\ JobsExist

(* The segment has been committed as it is, and nothing else is wanted. *)
Stored(s, n) == memory[s][n] = local[s].spans[n] /\ target[s][n] = None

(* The segment is on its way, has arrived, or was superseded. *)
Underway(s, n) ==
  \/ target[s][n] = local[s].spans[n]
  \/ /\ target[s][n] = None
     /\ \/ memory[s][n] = local[s].spans[n]
        \/ RowOf(<<s, n, local[s].spans[n].end>>).status = "superseded"

(* The session that r is at is as r has found it. *)
AsFound(r) == r.session # 0 /\ r.revision = local[r.session].revision

(* While the session is as found, the plan is true. *)
PlanIsTrue(r) == LET s == r.session IN AsFound(r) =>
  /\ local[s].quiet /\ ~local[s].gone
  /\ r.pc # "plan" =>
       /\ Len(r.plan) = Len(local[s].spans)
       /\ \A n \in 1..Len(r.plan) :
            /\ r.plan[n].content = local[s].spans[n]
            /\ r.plan[n].status = "done" => Stored(s, n)
       /\ \A n \in 1..(r.index - 1) :
            Stored(s, n) \/ <<s, n, local[s].spans[n]>> \in r.failures
  /\ r.pc \in Answered => Underway(s, r.index)
  /\ r.pc = "succeeded?" => Stored(s, r.index)

(* A revision is never ahead, and a post leaves before its session rests. *)
RevisionFits(r) == LET s == r.session IN
  s # 0 => /\ r.revision <= local[s].revision
           /\ r.pc = "post" /\ local[s].quiet /\ ~local[s].gone => AsFound(r)

(* The session is over: each of its segments is stored or recorded. *)
Completed(s, failures) ==
  /\ local[s].quiet /\ ~local[s].gone
  /\ \A n \in 1..Len(local[s].spans) :
       Stored(s, n) \/ <<s, n, local[s].spans[n]>> \in failures

SettledRests == \A done \in settled : Completed(done[2], worker[done[1]].failures)

StoreInv ==
  /\ TypeInv /\ SettledRests
  /\ \A w \in Workers : PlanIsTrue(worker[w]) /\ RevisionFits(worker[w])

(* A worker that works has its PID in the lock file, unless another worker *)
(* removed it.                                                             *)
LockIsHeld == \A w \in Workers :
  worker[w].pc \notin LockSteps \cup Ended /\ w \notin taken
    => lock = [by |-> w, written |-> TRUE]

(* The lock file is its creator's until another worker removes it. *)
LockInv ==
  /\ LockIsHeld
  /\ \A w \in Workers : worker[w].pc = "write" /\ w \notin taken
       => lock = [by |-> w, written |-> FALSE]

-----------------------------------------------------------------------------
(* What a worker remembers after each step.                                *)

\* Every other worker is as it was.
LEMMA Goes ==
  ASSUME Types, NEW w \in Workers, NEW r, WorkerFits(r), Go(w, r)
  PROVE  /\ worker' \in [Workers -> WorkerRecord]
         /\ \A v \in Workers : WorkerFits(worker'[v])
         /\ worker'[w] = r /\ \A v \in Workers \ {w} : worker'[v] = worker[v]
<1>1. worker \in [Workers -> WorkerRecord] /\ \A v \in Workers : WorkerFits(worker[v])
  BY DEF Types
<1>2. r \in WorkerRecord
  BY DEF WorkerFits, Remembers
<1>3. QED
  BY <1>1, <1>2 DEF Go

\* A worker that stops remembers its failures only.
LEMMA StopFits ==
  ASSUME NEW r, Remembers(r), NEW pc \in Ended
  PROVE  WorkerFits([Fresh(pc, {}, {}) EXCEPT !.failures = r.failures])
<1> DEFINE n == [Fresh(pc, {}, {}) EXCEPT !.failures = r.failures]
<1>1. /\ n.pc = pc /\ n.session = 0 /\ n.queue = {} /\ n.deferred = {}
      /\ n.plan = <<>> /\ n.index = 1 /\ n.rounds = 0 /\ n.attempted = {}
  BY DEF Fresh
<1>2. <<>> \in Seq(Planned) /\ Len(<<>>) = 0
  BY EmptySeq
<1>3. r.failures \in SUBSET Failure
  BY DEF Remembers, WorkerRecord
<1>4. pc \in Pc /\ pc \notin InSession
  BY DEF Pc, Ended, InSession, Checking
<1>5. n \in WorkerRecord
  <2>1. Fresh(pc, {}, {}) \in WorkerRecord
    BY <1>2, <1>4 DEF Fresh, WorkerRecord
  <2>2. QED
    BY <1>3, <2>1 DEF WorkerRecord
<1> HIDE DEF n
<1>6. Remembers(n)
  BY <1>1, <1>2, <1>5, BackfillAssumption DEF Remembers
<1>7. WorkerFits(n)
  BY <1>1, <1>4, <1>6 DEF WorkerFits, InSession, Checking
<1>8. QED
  BY <1>7 DEF n

\* A worker that has no session goes on to another step outside of one.
LEMMA PcFits ==
  ASSUME NEW r, Remembers(r), r.session = 0, NEW pc \in Pc \ InSession
  PROVE  WorkerFits([r EXCEPT !.pc = pc])
<1> DEFINE n == [r EXCEPT !.pc = pc]
<1>1. r \in WorkerRecord
  BY DEF Remembers
<1>2. n \in WorkerRecord
  BY <1>1 DEF WorkerRecord
<1>3. /\ n.pc = pc /\ n.session = r.session /\ n.queue = r.queue /\ n.deferred = r.deferred
      /\ n.plan = r.plan /\ n.index = r.index /\ n.rounds = r.rounds
      /\ n.attempted = r.attempted /\ n.failures = r.failures
  BY <1>1 DEF WorkerRecord
<1> HIDE DEF n
<1>4. Remembers(n)
  BY <1>2, <1>3 DEF Remembers
<1>5. WorkerFits(n)
  BY <1>3, <1>4 DEF WorkerFits, InSession, Checking
<1>6. QED
  BY <1>5 DEF n

\* What is left of a job, and of a session.
LEMMA LeaveJobTerms ==
  ASSUME NEW r \in WorkerRecord
  PROVE  LET n == LeaveJob(r) IN
         /\ n \in WorkerRecord
         /\ n.job = None /\ n.key = None /\ n.status = None /\ n.rounds = 0
         /\ n.pc = r.pc /\ n.session = r.session /\ n.revision = r.revision
         /\ n.queue = r.queue /\ n.deferred = r.deferred
         /\ n.open = r.open /\ n.plan = r.plan /\ n.index = r.index
         /\ n.attempted = r.attempted /\ n.failures = r.failures
BY DEF LeaveJob, WorkerRecord

LEMMA LeaveSessionTerms ==
  ASSUME NEW r \in WorkerRecord
  PROVE  LET n == LeaveSession(r) IN
         /\ n \in WorkerRecord
         /\ n.rounds = 0 /\ n.pc = "queue" /\ n.session = 0
         /\ n.queue = r.queue /\ n.deferred = r.deferred
         /\ n.plan = <<>> /\ n.index = 1
         /\ n.attempted = r.attempted /\ n.failures = r.failures
<1>1. PICK m \in WorkerRecord, e \in Seq(Planned), s \in {0} \cup Sessions, pc \in Pc :
        m = LeaveJob(r) /\ e = <<>> /\ s = 0 /\ pc = "queue"
  BY LeaveJobTerms, EmptySeq DEF Pc
<1> DEFINE k == [m EXCEPT !.pc = pc, !.session = s, !.revision = 0]
           o == [k EXCEPT !.open = FALSE, !.plan = e]
           n == [o EXCEPT !.index = 1]
<1>a. /\ k.rounds = m.rounds /\ k.pc = pc /\ k.session = s
      /\ k.queue = m.queue /\ k.deferred = m.deferred
      /\ k.attempted = m.attempted /\ k.failures = m.failures
  BY DEF WorkerRecord
<1>b. k \in WorkerRecord
  BY DEF WorkerRecord
<1>3. LeaveSession(r) = n
  BY <1>1 DEF LeaveSession
<1> HIDE DEF k
<1>d. o \in WorkerRecord
  BY <1>b DEF WorkerRecord
<1>c. n \in WorkerRecord
  <2> HIDE DEF o
  <2>1. QED
    BY <1>d DEF WorkerRecord
<1>2. /\ n.rounds = m.rounds /\ n.pc = pc /\ n.session = s
      /\ n.queue = m.queue /\ n.deferred = m.deferred
      /\ n.plan = e /\ n.index = 1
      /\ n.attempted = m.attempted /\ n.failures = m.failures
  BY <1>a, <1>b DEF WorkerRecord
<1> HIDE DEF n
<1>4. /\ m.rounds = 0
      /\ m.queue = r.queue /\ m.deferred = r.deferred
      /\ m.attempted = r.attempted /\ m.failures = r.failures
  BY <1>1, LeaveJobTerms
<1>5. QED
  BY <1>1, <1>2, <1>3, <1>4, <1>c

\* A worker between two sessions.
LEMMA QueueFits ==
  ASSUME NEW n \in WorkerRecord, n.pc \in {"queue", "priority"}, n.session = 0,
         Len(n.plan) <= LastSpan, n.index \in 1..(Len(n.plan) + 1),
         n.index = 1, n.rounds < MaxRounds, n.queue \cap n.deferred = {},
         n.queue \subseteq Sessions, n.deferred \subseteq Sessions,
         n.attempted \subseteq n.failures
  PROVE  WorkerFits(n)
<1>1. 0 \notin Sessions
  BY DEF Sessions
<1>2. QED
  BY <1>1 DEF WorkerFits, Remembers, InSession, Checking

\* A session that is put off, has failed, or is done.
LEMMA LeaveSessionFits ==
  ASSUME NEW r, Remembers(r)
  PROVE  /\ WorkerFits(LeaveSession(r))
         /\ r.session # 0 => WorkerFits(Deferred(r)) /\ WorkerFits(Failed(r))
<1> DEFINE m == LeaveSession(r)
           d == [m EXCEPT !.deferred = @ \cup {r.session}]
           f == [m EXCEPT !.failures = @ \cup {WholeSession(r.session)}]
<1>1. /\ r \in WorkerRecord /\ r.session \in {0} \cup Sessions
      /\ r.queue \subseteq Sessions /\ r.deferred \subseteq Sessions
      /\ r.queue \cap r.deferred = {} /\ r.session \notin r.queue \cup r.deferred
      /\ r.attempted \subseteq r.failures
  BY DEF Remembers, WorkerRecord
<1>2. /\ m \in WorkerRecord /\ m.rounds = 0 /\ m.pc = "queue" /\ m.session = 0
      /\ m.queue = r.queue /\ m.deferred = r.deferred
      /\ m.plan = <<>> /\ m.index = 1
      /\ m.attempted = r.attempted /\ m.failures = r.failures
  BY <1>1, LeaveSessionTerms
<1>3. Len(<<>>) = 0 /\ 0 <= LastSpan /\ 0 < MaxRounds
  BY EmptySeq, BackfillAssumption
<1> HIDE DEF m
<1>4. WorkerFits(m)
  BY <1>1, <1>2, <1>3, QueueFits
<1>5. ASSUME r.session # 0 PROVE WorkerFits(d)
  <2>1. d \in WorkerRecord
    BY <1>1, <1>2, <1>5 DEF WorkerRecord
  <2>2. /\ d.rounds = 0 /\ d.pc = "queue" /\ d.session = 0
        /\ d.queue = r.queue /\ d.deferred = r.deferred \cup {r.session}
        /\ d.plan = <<>> /\ d.index = 1
        /\ d.attempted = r.attempted /\ d.failures = r.failures
    BY <1>2 DEF WorkerRecord
  <2> HIDE DEF d
  <2>3. QED
    BY <1>1, <1>3, <1>5, <2>1, <2>2, QueueFits
<1>6. ASSUME r.session # 0 PROVE WorkerFits(f)
  <2>1. f \in WorkerRecord
    BY <1>1, <1>2, <1>6 DEF WorkerRecord, Failure
  <2>2. /\ f.rounds = 0 /\ f.pc = "queue" /\ f.session = 0
        /\ f.queue = r.queue /\ f.deferred = r.deferred
        /\ f.plan = <<>> /\ f.index = 1
        /\ f.attempted = r.attempted
        /\ f.failures = r.failures \cup {WholeSession(r.session)}
    BY <1>2 DEF WorkerRecord
  <2> HIDE DEF f
  <2>3. QED
    BY <1>1, <1>3, <1>6, <2>1, <2>2, QueueFits
<1>7. QED
  BY <1>4, <1>5, <1>6 DEF Deferred, Failed, m

\* The job is given up: the session is put off, the priorities go on.
LEMMA ReplannedFits ==
  ASSUME NEW r, Remembers(r)
  PROVE  WorkerFits(Replanned(r)) /\ Replanned(r).session = 0
         /\ Replanned(r).failures = r.failures /\ Replanned(r).pc \in {"queue", "priority"}
<1>1. r \in WorkerRecord
  BY DEF Remembers
<1>2. CASE r.session # 0
  <2>1. PICK m \in WorkerRecord : /\ m = LeaveSession(r) /\ m.session = 0 /\ m.pc = "queue"
                                  /\ m.failures = r.failures
    BY <1>1, LeaveSessionTerms
  <2>2. Replanned(r) = [m EXCEPT !.deferred = @ \cup {r.session}]
    BY <1>2, <2>1 DEF Replanned, Deferred
  <2>3. /\ Replanned(r).session = 0 /\ Replanned(r).failures = r.failures
        /\ Replanned(r).pc = "queue"
    BY <2>1, <2>2 DEF WorkerRecord
  <2>4. QED
    BY <1>2, <2>3, LeaveSessionFits DEF Replanned
<1>3. CASE r.session = 0
  <2>1. PICK m \in WorkerRecord, pc \in Pc : m = LeaveJob(r) /\ pc = "priority"
    BY <1>1, LeaveJobTerms DEF Pc
  <2>2. /\ m.session = 0 /\ m.queue = r.queue /\ m.deferred = r.deferred
        /\ m.plan = r.plan /\ m.index = r.index /\ m.rounds = 0
        /\ m.attempted = r.attempted /\ m.failures = r.failures
    BY <1>1, <1>3, <2>1, LeaveJobTerms
  <2>3. Remembers(m)
    <3>1. m.rounds < MaxRounds
      BY <2>2, BackfillAssumption
    <3>2. m \in WorkerRecord
      OBVIOUS
    <3>3. QED
      BY <1>3, <2>2, <3>1, <3>2 DEF Remembers
  <2>4. pc \in Pc \ InSession
    BY <2>1 DEF InSession, Checking
  <2>5. Replanned(r) = [m EXCEPT !.pc = pc]
    BY <1>3, <2>1 DEF Replanned
  <2>6. /\ Replanned(r).session = 0 /\ Replanned(r).failures = r.failures
        /\ Replanned(r).pc = "priority"
    BY <2>1, <2>2, <2>5 DEF WorkerRecord
  <2>7. QED
    BY <2>2, <2>3, <2>4, <2>5, <2>6, PcFits
<1>4. QED
  BY <1>1, <1>2, <1>3 DEF WorkerRecord

\* A worker at another step of the same job.
Placed(r, pc, status, rounds, provider) ==
  [r EXCEPT !.pc = pc, !.status = status, !.rounds = rounds, !.provider = provider]

LEMMA SameJobFits ==
  ASSUME NEW r, Remembers(r), HasJob(r), NEW pc \in Answered,
         NEW status \in Status \cup {None}, NEW rounds \in Nat, rounds < MaxRounds,
         NEW provider \in BOOLEAN,
         pc = "succeeded?" => status = "succeeded",
         pc = "failed?" => status \in {"failed", "unpaid"},
         pc = "given up?" => status = "failed"
  PROVE  LET n == Placed(r, pc, status, rounds, provider)
         IN  /\ WorkerFits(n)
             /\ n.pc = pc /\ n.session = r.session /\ n.revision = r.revision
             /\ n.plan = r.plan /\ n.index = r.index /\ n.job = r.job
             /\ n.failures = r.failures
<1> DEFINE n == Placed(r, pc, status, rounds, provider)
<1>1. r \in WorkerRecord /\ pc \in Pc
  BY DEF Remembers, Answered, Pc
<1>2. /\ n \in WorkerRecord
      /\ n.pc = pc /\ n.session = r.session /\ n.revision = r.revision
      /\ n.plan = r.plan /\ n.index = r.index /\ n.job = r.job /\ n.key = r.key
      /\ n.queue = r.queue /\ n.deferred = r.deferred
      /\ n.rounds = rounds /\ n.status = status
      /\ n.attempted = r.attempted /\ n.failures = r.failures
  BY <1>1 DEF WorkerRecord, Placed
<1> HIDE DEF n
<1>3. Remembers(n) /\ HasJob(n)
  BY <1>2 DEF Remembers, HasJob, KeyOf
<1>4. WorkerFits(n)
  BY <1>2, <1>3 DEF WorkerFits, Answered, InSession, Checking
<1>5. QED
  BY <1>2, <1>4 DEF n

\* An answer puts the job at a step that fits it, or gives it up.
LEMMA JudgedFits ==
  ASSUME NEW r, Remembers(r), HasJob(r), NEW row \in Row
  PROVE  LET n == Judged(r, row)
         IN  /\ WorkerFits(n) /\ n.failures = r.failures
             /\ \/ n.session = 0 /\ n.pc \notin InSession \cup LockSteps
                \/ /\ n.pc \in Answered
                   /\ n.session = r.session /\ n.revision = r.revision
                   /\ n.plan = r.plan /\ n.index = r.index /\ n.job = r.job
                   /\ n.pc = "succeeded?" => JobMatches(r, row) /\ row.status = "succeeded"
<1> DEFINE n == Judged(r, row)
<1>1. r \in WorkerRecord /\ r.rounds \in Nat /\ r.rounds < MaxRounds /\ r.provider \in BOOLEAN
  BY DEF Remembers, WorkerRecord
<1>2. row.status \in Status
  BY DEF Row
<1>3. CASE ~JobMatches(r, row) \/ row.status = "superseded"
  <2>1. n = Replanned(r)
    BY <1>3 DEF Judged
  <2>2. QED
    BY <2>1, ReplannedFits DEF InSession, Checking, LockSteps
<1>4. ASSUME JobMatches(r, row), row.status # "superseded"
      PROVE  \E pc \in Answered, status \in Status \cup {None} :
               /\ n = Placed(r, pc, status, r.rounds, r.provider)
               /\ pc = "succeeded?" => status = "succeeded" /\ row.status = "succeeded"
               /\ pc = "failed?" => status \in {"failed", "unpaid"}
               /\ pc # "given up?"
  <2>1. ASSUME NEW pc, NEW status
        PROVE  [[r EXCEPT !.status = status] EXCEPT !.pc = pc] =
                 Placed(r, pc, status, r.rounds, r.provider)
    BY <1>1 DEF WorkerRecord, Placed
  <2>2. ASSUME NEW pc, NEW old, NEW status
        PROVE  [[r EXCEPT !.status = old] EXCEPT !.pc = pc, !.status = status] =
                 Placed(r, pc, status, r.rounds, r.provider)
    BY <1>1 DEF WorkerRecord, Placed
  <2>3. {"succeeded?", "failed?", "poll"} \subseteq Answered
    BY DEF Answered, InSession, Checking
  <2>4. CASE row.status = "succeeded"
    <3>1. n = [[r EXCEPT !.status = row.status] EXCEPT !.pc = "succeeded?"]
      BY <1>4, <2>4 DEF Judged
    <3>2. n = Placed(r, "succeeded?", row.status, r.rounds, r.provider)
      BY <2>1, <3>1
    <3>3. QED
      BY <1>2, <2>3, <2>4, <3>2
  <2>5. CASE row.status \in {"failed", "unpaid"}
    <3>1. n = [[r EXCEPT !.status = row.status] EXCEPT !.pc = "failed?"]
      BY <1>4, <2>5 DEF Judged
    <3>2. n = Placed(r, "failed?", row.status, r.rounds, r.provider)
      BY <2>1, <3>1
    <3>3. QED
      BY <1>2, <2>3, <2>5, <3>2
  <2>6. CASE row.status \in {"pending", "running"}
    <3>1. n = [[r EXCEPT !.status = row.status] EXCEPT !.pc = "poll", !.status = None]
      BY <1>4, <2>6 DEF Judged
    <3>2. n = Placed(r, "poll", None, r.rounds, r.provider)
      BY <2>2, <3>1
    <3>3. QED
      BY <2>3, <3>2
  <2>7. QED
    BY <1>2, <1>4, <2>4, <2>5, <2>6 DEF Status
<1> HIDE DEF n
<1>5. CASE JobMatches(r, row) /\ row.status # "superseded"
  <2>1. PICK pc \in Answered, status \in Status \cup {None} :
               /\ n = Placed(r, pc, status, r.rounds, r.provider)
               /\ pc = "succeeded?" => status = "succeeded" /\ row.status = "succeeded"
               /\ pc = "failed?" => status \in {"failed", "unpaid"}
               /\ pc # "given up?"
    BY <1>4, <1>5
  <2>2. /\ WorkerFits(n)
        /\ n.pc = pc /\ n.session = r.session /\ n.revision = r.revision
        /\ n.plan = r.plan /\ n.index = r.index /\ n.job = r.job
        /\ n.failures = r.failures
    <3>1. PICK rounds \in Nat, provider \in BOOLEAN :
            rounds = r.rounds /\ provider = r.provider /\ rounds < MaxRounds
      BY <1>1
    <3>2. n = Placed(r, pc, status, rounds, provider)
      BY <2>1, <3>1
    <3>3. rounds < MaxRounds
      BY <3>1
    <3>4. /\ pc = "succeeded?" => status = "succeeded"
          /\ pc = "failed?" => status \in {"failed", "unpaid"}
          /\ pc = "given up?" => status = "failed"
      BY <2>1
    <3>5. WorkerFits(Placed(r, pc, status, rounds, provider))
      BY <3>3, <3>4, SameJobFits
    <3>6. /\ n.pc = pc /\ n.session = r.session /\ n.revision = r.revision
          /\ n.plan = r.plan /\ n.index = r.index /\ n.job = r.job
          /\ n.failures = r.failures
      BY <1>1, <3>2 DEF Placed, WorkerRecord
    <3>7. QED
      BY <3>2, <3>5, <3>6
  <2>3. QED
    BY <1>5, <2>1, <2>2 DEF n
<1>6. QED
  BY <1>3, <1>5 DEF n

-----------------------------------------------------------------------------
(* How far the loop over a session's segments comes without a post.        *)

\* Every non-empty set of numbers has a least one.
LEMMA Least ==
  ASSUME NEW T, T \subseteq Nat, T # {}
  PROVE  \E x \in T : \A y \in T : x <= y
<1> DEFINE R == OpToRel(<, Nat)
<1>1. \A x, y \in Nat : <<y, x>> \in R <=> y < x
  BY DEF OpToRel
<1>2. IsWellFoundedOn(R, Nat)
  BY NatLessThanWellFounded
<1> HIDE DEF R
<1>3. PICK x \in T : \A y \in T : ~(<<y, x>> \in R)
  BY <1>2, WFMin
<1>4. ASSUME NEW y \in T PROVE x <= y
  <2>1. x \in Nat /\ y \in Nat
    OBVIOUS
  <2>2. ~(y < x)
    BY <1>1, <1>3, <2>1
  <2>3. QED
    BY <2>1, <2>2
<1>5. QED
  BY <1>4

\* The loop skips what needs no post and stops at the first that needs one.
LEMMA NextIndexTerms ==
  ASSUME NEW r \in WorkerRecord, r.index \in 1..(Len(r.plan) + 1)
  PROVE  LET n == NextIndex(r)
         IN  /\ n \in r.index..(Len(r.plan) + 1)
             /\ \A m \in r.index..(n - 1) : Skipped(r, m)
             /\ n <= Len(r.plan) => ~Skipped(r, n)
<1>1. PICK i \in Nat, k \in Nat : i = r.index /\ k = Len(r.plan) /\ i \in 1..(k + 1)
  <2>1. r.plan \in Seq(Planned) /\ r.index \in Nat
    BY DEF WorkerRecord
  <2>2. Len(r.plan) \in Nat
    BY <2>1, LenProperties
  <2>3. QED
    BY <2>1, <2>2
<1> DEFINE T == {n \in i..(k + 1) : n <= k => ~Skipped(r, n)}
<1>2. T \subseteq Nat /\ k + 1 \in T
  BY <1>1
<1>3. PICK x \in T : \A y \in T : x <= y
  BY <1>2, Least
<1>4. x \in i..(k + 1) /\ (x <= k => ~Skipped(r, x))
  OBVIOUS
<1>5. ASSUME NEW m \in i..(x - 1) PROVE Skipped(r, m)
  <2>1. m \notin T
    BY <1>1, <1>3, <1>4
  <2>2. m \in i..(k + 1) /\ m <= k
    BY <1>1, <1>4
  <2>3. QED
    BY <2>1, <2>2
<1>6. \E n \in r.index..(Len(r.plan) + 1) :
        /\ \A m \in r.index..(n - 1) : Skipped(r, m)
        /\ n <= Len(r.plan) => ~Skipped(r, n)
  BY <1>1, <1>4, <1>5
<1>7. QED
  BY <1>6 DEF NextIndex

\* A planned segment is a snapshot of the session.
LEMMA KeyTerms ==
  ASSUME NEW r, Remembers(r), r.session # 0, NEW n \in 1..Len(r.plan)
  PROVE  /\ n \in Spans /\ r.session \in Sessions
         /\ KeyOf(r, n) \in Snapshot /\ KeyOf(r, n) # None
         /\ KeyOf(r, n) = <<r.session, n, r.plan[n].content>>
         /\ r.plan[n] \in Planned /\ r.plan[n].content \in Content
         /\ r.plan[n].content.end \in Ends
<1>1. r.session \in Sessions /\ r.plan \in Seq(Planned)
  BY DEF Remembers, WorkerRecord
<1>2. r.plan[n] \in Planned /\ Len(r.plan) \in Nat
  BY <1>1, ElementOfSeq, LenProperties
<1>3. n \in Spans
  BY <1>2, BackfillAssumption DEF Remembers, Spans
<1>4. r.plan[n].content \in Content /\ r.plan[n].content.end \in Ends
  BY <1>2 DEF Planned, Content
<1>5. KeyOf(r, n) = <<r.session, n, r.plan[n].content>>
  BY DEF KeyOf
<1>6. KeyOf(r, n) \in Snapshot
  BY <1>1, <1>3, <1>4, <1>5 DEF Snapshot
<1>7. QED
  BY <1>1, <1>2, <1>3, <1>4, <1>5, <1>6, BackfillAssumption

\* The worker goes on with its session: it posts the next segment that needs
\* it, puts the session off, or is done with it.
LEMMA WalkedFits ==
  ASSUME NEW r, Remembers(r), r.session # 0
  PROVE  LET n == NextIndex(r)
             x == Walked(r)
         IN  /\ WorkerFits(x) /\ r.failures \subseteq x.failures
             /\ \/ x.session = 0 /\ x.pc = "queue"
                \/ /\ x.pc = "post" /\ n \in 1..Len(r.plan)
                   /\ x.session = r.session /\ x.revision = r.revision
                   /\ x.plan = r.plan /\ x.index = n
<1> DEFINE n == NextIndex(r)
           done == {KeyOf(r, m) : m \in {k \in r.index..(n - 1) : r.plan[k].status = "done"}}
           seen == [r EXCEPT !.completed = @ \cup done, !.attempted = @ \ done]
<1>1. /\ r \in WorkerRecord /\ r.plan \in Seq(Planned) /\ r.index \in Nat
      /\ r.index \in 1..(Len(r.plan) + 1) /\ r.session \in Sessions
  BY DEF Remembers, WorkerRecord
<1>2. Len(r.plan) \in Nat
  BY <1>1, LenProperties
<1>3. n \in r.index..(Len(r.plan) + 1)
  BY <1>1, NextIndexTerms
<1>4. n \in Nat /\ n \in 1..(Len(r.plan) + 1)
  BY <1>1, <1>2, <1>3
<1> HIDE DEF n
<1>5. \A m \in r.index..(n - 1) : m \in 1..Len(r.plan)
  BY <1>1, <1>2, <1>4
<1>6. done \subseteq Snapshot
  BY <1>5, KeyTerms
<1> HIDE DEF done
<1>7. /\ seen \in WorkerRecord
      /\ seen.queue = r.queue /\ seen.deferred = r.deferred /\ seen.session = r.session
      /\ seen.revision = r.revision /\ seen.open = r.open
      /\ seen.plan = r.plan /\ seen.index = r.index /\ seen.rounds = r.rounds
      /\ seen.attempted = r.attempted \ done /\ seen.failures = r.failures
  BY <1>1, <1>6 DEF WorkerRecord
<1> DEFINE post == [seen EXCEPT !.pc = "post", !.index = n, !.key = KeyOf(r, n),
                        !.job = <<r.session, n, r.plan[n].content.end>>,
                        !.completed = @ \ {KeyOf(r, n)},
                        !.attempted = @ \ {KeyOf(r, n)}]
<1> HIDE DEF seen, post
<1>8. \/ Walked(r) \in {LeaveSession(seen), Failed(seen), Deferred(seen)}
      \/ n # Len(r.plan) + 1 /\ Walked(r) = post
  BY DEF Walked, n, done, seen, post
<1>9. Remembers(seen)
  BY <1>7 DEF Remembers
<1>10. ASSUME NEW x \in {LeaveSession(seen), Failed(seen), Deferred(seen)}
       PROVE  /\ WorkerFits(x) /\ r.failures \subseteq x.failures
              /\ x.session = 0 /\ x.pc = "queue"
  <2>1. WorkerFits(x)
    BY <1>7, <1>9, LeaveSessionFits
  <2>2. PICK m \in WorkerRecord : /\ m = LeaveSession(seen) /\ m.session = 0
                                  /\ m.pc = "queue" /\ m.failures = seen.failures
    BY <1>7, LeaveSessionTerms
  <2>3. /\ r.failures \subseteq x.failures
        /\ x.session = 0 /\ x.pc = "queue"
    BY <1>7, <2>2 DEF Failed, Deferred, WorkerRecord
  <2>4. QED
    BY <2>1, <2>3
<1>11. CASE Walked(r) \in {LeaveSession(seen), Failed(seen), Deferred(seen)}
  BY <1>10, <1>11
<1>12. CASE n # Len(r.plan) + 1 /\ Walked(r) = post
  <2>1. n \in 1..Len(r.plan)
    BY <1>2, <1>4, <1>12
  <2>2. PICK k \in Snapshot, j \in Job, pc \in Pc :
          /\ k = KeyOf(r, n) /\ j = <<r.session, n, r.plan[n].content.end>>
          /\ pc = "post" /\ k # None
          /\ k = <<r.session, n, r.plan[n].content>> /\ n \in Spans
    BY <2>1, KeyTerms DEF Job, Pc, InSession
  <2> DEFINE x == [seen EXCEPT !.pc = pc, !.index = n, !.key = k, !.job = j,
                               !.completed = @ \ {k}, !.attempted = @ \ {k}]
  <2>3. x = Walked(r)
    BY <1>12, <2>2 DEF post
  <2>4. /\ x \in WorkerRecord
        /\ x.queue = r.queue /\ x.deferred = r.deferred /\ x.session = r.session
        /\ x.revision = r.revision /\ x.pc = pc /\ x.key = k /\ x.job = j
        /\ x.plan = r.plan /\ x.index = n /\ x.rounds = r.rounds
        /\ x.attempted = (r.attempted \ done) \ {k} /\ x.failures = r.failures
    BY <1>4, <1>7 DEF WorkerRecord
  <2> HIDE DEF x
  <2>5. Remembers(x)
    BY <1>4, <2>4 DEF Remembers
  <2>6. HasJob(x)
    BY <2>1, <2>2, <2>4 DEF HasJob, KeyOf
  <2>7. WorkerFits(x)
    BY <2>2, <2>4, <2>5, <2>6 DEF WorkerFits, InSession, Checking
  <2>8. QED
    BY <2>1, <2>2, <2>3, <2>4, <2>7 DEF n
<1>13. QED
  BY <1>8, <1>11, <1>12 DEF n

-----------------------------------------------------------------------------
(* What each step does to one segment of the server.                       *)

CellSame(s, n) ==
  rows'[s][n] = rows[s][n] /\ target'[s][n] = target[s][n] /\ memory'[s][n] = memory[s][n]

(* A content is wanted: its row waits or still runs, others are discarded. *)
CellWants(s, n, c) ==
  /\ ~(target[s][n] = None /\ memory[s][n] = c)
  /\ rows'[s][n] = [e \in Ends |->
       IF e = c.end
       THEN IF rows[s][n][e] # None /\ rows[s][n][e].status = "running" THEN rows[s][n][e]
            ELSE [text |-> c.text, status |-> "pending"]
       ELSE IF rows[s][n][e] # None /\ rows[s][n][e].status \in {"pending", "failed", "unpaid"}
            THEN [rows[s][n][e] EXCEPT !.status = "superseded"]
            ELSE rows[s][n][e]]
  /\ target'[s][n] = c /\ memory'[s][n] = memory[s][n]

(* A content that is there already. *)
CellSettled(s, n, c) ==
  /\ target[s][n] = None /\ memory[s][n] = c
  /\ rows'[s][n] = [rows[s][n] EXCEPT ![c.end] =
       IF @ # None /\ @.status = "running" THEN @
       ELSE [text |-> c.text, status |-> "succeeded"]]
  /\ target'[s][n] = None /\ memory'[s][n] = c

CellPosted(s, n, c) == CellSame(s, n) \/ CellWants(s, n, c) \/ CellSettled(s, n, c)

(* A row that is not over yet goes from one status to another. *)
CellRuns(s, n, e, status) ==
  /\ rows[s][n][e] # None /\ rows[s][n][e].status \in Live /\ status \in Live
  /\ rows'[s][n] = [rows[s][n] EXCEPT ![e].status = status]
  /\ target'[s][n] = target[s][n] /\ memory'[s][n] = memory[s][n]

(* The row of the wanted content is over. *)
CellEnds(s, n, e, status) ==
  /\ rows[s][n][e] # None /\ TargetIs(s, n, e, rows[s][n][e])
  /\ status \in {"succeeded", "superseded"}
  /\ rows'[s][n] = [rows[s][n] EXCEPT ![e].status = status]
  /\ target'[s][n] = None
  /\ memory'[s][n] = IF status = "succeeded" THEN target[s][n] ELSE memory[s][n]

(* A row that runs is not wanted any more. *)
CellRequeued(s, n, e) ==
  /\ rows[s][n][e] # None /\ rows[s][n][e].status = "running"
  /\ rows'[s][n] = [d \in Ends |->
       IF target[s][n] # None /\ d = target[s][n].end
          /\ (d = e \/ rows[s][n][d].status # "running")
       THEN [text |-> target[s][n].text, status |-> "pending"]
       ELSE IF d = e THEN [rows[s][n][d] EXCEPT !.status = "superseded"]
       ELSE rows[s][n][d]]
  /\ target'[s][n] = target[s][n] /\ memory'[s][n] = memory[s][n]

CellMoves(s, n) ==
  \/ CellSame(s, n)
  \/ \E e \in Ends, status \in Status : CellRuns(s, n, e, status) \/ CellEnds(s, n, e, status)
  \/ \E e \in Ends : CellRequeued(s, n, e)

(* The other segments' cells are as they were. *)
Elsewhere(s, n) == \A x \in Sessions, y \in Spans : x # s \/ y # n => CellSame(x, y)

ServerTypes ==
  /\ rows \in [Sessions -> [Spans -> [Ends -> Row \cup {None}]]]
  /\ target \in [Sessions -> [Spans -> Content \cup {None}]]
  /\ memory \in [Sessions -> [Spans -> Content \cup {None}]]

\* The three tables have a cell of each for every segment.
LEMMA CellTypes ==
  ASSUME Types, NEW s \in Sessions, NEW n \in Spans
  PROVE  /\ rows[s][n] \in [Ends -> Row \cup {None}]
         /\ target[s][n] \in Content \cup {None}
         /\ memory[s][n] \in Content \cup {None}
         /\ rows[s] \in [Spans -> [Ends -> Row \cup {None}]]
         /\ target[s] \in [Spans -> Content \cup {None}]
         /\ memory[s] \in [Spans -> Content \cup {None}]
         /\ rows \in [Sessions -> [Spans -> [Ends -> Row \cup {None}]]]
         /\ target \in [Sessions -> [Spans -> Content \cup {None}]]
         /\ memory \in [Sessions -> [Spans -> Content \cup {None}]]
BY DEF Types

\* Changing one cell.
LEMMA OneCell ==
  ASSUME NEW f, NEW S, f \in [Sessions -> [Spans -> S]],
         NEW s \in Sessions, NEW n \in Spans, NEW v
  PROVE  /\ v \in S => [f EXCEPT ![s][n] = v] \in [Sessions -> [Spans -> S]]
         /\ [f EXCEPT ![s][n] = v][s][n] = v
         /\ \A x \in Sessions, y \in Spans : x # s \/ y # n =>
              [f EXCEPT ![s][n] = v][x][y] = f[x][y]
OBVIOUS

\* A post.
LEMMA PostedCells ==
  ASSUME Types, NEW s \in Sessions, NEW n \in Spans, NEW c \in Content, Posted(s, n, c)
  PROVE  CellPosted(s, n, c) /\ Elsewhere(s, n) /\ ServerTypes'
<1> c.text \in Texts /\ c.end \in Ends /\ \A st \in Status : [text |-> c.text, status |-> st] \in Row
  BY DEF Content, Row
<1>1. CASE target[s][n] = c
  <2>1. rows' = rows /\ target' = target /\ memory' = memory
    BY <1>1 DEF Posted, AfterPost, server
  <2>2. QED
    BY <2>1 DEF CellPosted, CellSame, Elsewhere, ServerTypes, Types
<1>2. CASE target[s][n] # c /\ target[s][n] = None /\ memory[s][n] = c
  <2> DEFINE v == [rows[s][n] EXCEPT ![c.end] =
                    IF @ # None /\ @.status = "running" THEN @
                    ELSE [text |-> c.text, status |-> "succeeded"]]
  <2>1. rows' = [rows EXCEPT ![s][n] = v] /\ target' = target /\ memory' = memory
    BY <1>2 DEF Posted, AfterPost
  <2>0. v \in [Ends -> Row \cup {None}]
    <3>1. [text |-> c.text, status |-> "succeeded"] \in Row
      BY DEF Status
    <3>2. QED
      BY <3>1, CellTypes
  <2> HIDE DEF v
  <2>2. rows'[s][n] = v /\ rows' \in [Sessions -> [Spans -> [Ends -> Row \cup {None}]]]
    BY <2>0, <2>1, CellTypes, OneCell
  <2>3. \A x \in Sessions, y \in Spans : x # s \/ y # n => rows'[x][y] = rows[x][y]
    BY <2>1, CellTypes, OneCell
  <2>4. QED
    BY <1>2, <2>1, <2>2, <2>3, CellTypes
    DEF CellPosted, CellSettled, CellSame, Elsewhere, ServerTypes, v
<1>3. CASE target[s][n] # c /\ ~(target[s][n] = None /\ memory[s][n] = c)
  <2> DEFINE v == [e \in Ends |->
       IF e = c.end
       THEN IF rows[s][n][e] # None /\ rows[s][n][e].status = "running" THEN rows[s][n][e]
            ELSE [text |-> c.text, status |-> "pending"]
       ELSE IF rows[s][n][e] # None /\ rows[s][n][e].status \in {"pending", "failed", "unpaid"}
            THEN [rows[s][n][e] EXCEPT !.status = "superseded"]
            ELSE rows[s][n][e]]
  <2>1. /\ rows' = [rows EXCEPT ![s][n] = v] /\ target' = [target EXCEPT ![s][n] = c]
        /\ memory' = memory
    BY <1>3 DEF Posted, AfterPost
  <2>0. v \in [Ends -> Row \cup {None}]
    <3>1. ASSUME NEW e \in Ends
          PROVE  v[e] \in Row \cup {None}
      <4>1. rows[s][n][e] \in Row \cup {None}
        BY CellTypes
      <4>2. rows[s][n][e] # None => [rows[s][n][e] EXCEPT !.status = "superseded"] \in Row
        BY <4>1 DEF Row, Status
      <4>3. [text |-> c.text, status |-> "pending"] \in Row
        BY DEF Status
      <4>4. QED
        BY <4>1, <4>2, <4>3
    <3>2. QED
      BY <3>1
  <2> HIDE DEF v
  <2>2. /\ rows'[s][n] = v /\ rows' \in [Sessions -> [Spans -> [Ends -> Row \cup {None}]]]
        /\ \A x \in Sessions, y \in Spans : x # s \/ y # n => rows'[x][y] = rows[x][y]
    BY <2>0, <2>1, CellTypes, OneCell
  <2>3. /\ target'[s][n] = c /\ target' \in [Sessions -> [Spans -> Content \cup {None}]]
        /\ \A x \in Sessions, y \in Spans : x # s \/ y # n => target'[x][y] = target[x][y]
    BY <2>1, CellTypes, OneCell
  <2>4. CellWants(s, n, c)
    BY <1>3, <2>1, <2>2, <2>3 DEF CellWants, v
  <2>5. QED
    BY <2>1, <2>2, <2>3, <2>4, CellTypes DEF CellPosted, CellSame, Elsewhere, ServerTypes
<1>4. QED
  BY <1>1, <1>2, <1>3

\* A row's status.
LEMMA StatusCells ==
  ASSUME Types, NEW s \in Sessions, NEW n \in Spans, NEW e \in Ends,
         NEW job, job = <<s, n, e>>, RowOf(job) # None,
         NEW status \in Status, SetStatus(job, status)
  PROVE  /\ RowOf(job) = rows[s][n][e]
         /\ rows'[s][n] = [rows[s][n] EXCEPT ![e].status = status]
         /\ \A x \in Sessions, y \in Spans : x # s \/ y # n => rows'[x][y] = rows[x][y]
         /\ rows' \in [Sessions -> [Spans -> [Ends -> Row \cup {None}]]]
<1>1. s = job[1] /\ n = job[2] /\ e = job[3]
  OBVIOUS
<1>2. rows' = [rows EXCEPT ![s][n][e].status = status]
  BY <1>1 DEF SetStatus
<1>3. rows' = [rows EXCEPT ![s][n] = [rows[s][n] EXCEPT ![e].status = status]]
  BY <1>2, CellTypes
<1> DEFINE v == [rows[s][n] EXCEPT ![e].status = status]
<1>4. rows' = [rows EXCEPT ![s][n] = v]
  BY <1>3
<1>0. v \in [Ends -> Row \cup {None}]
  <2>1. rows[s][n] \in [Ends -> Row \cup {None}] /\ rows[s][n][e] # None
    BY <1>1, CellTypes DEF RowOf
  <2>2. [rows[s][n][e] EXCEPT !.status = status] \in Row
    BY <2>1 DEF Row
  <2>3. QED
    BY <2>1, <2>2
<1> HIDE DEF v
<1>5. /\ rows'[s][n] = v
      /\ \A x \in Sessions, y \in Spans : x # s \/ y # n => rows'[x][y] = rows[x][y]
      /\ rows' \in [Sessions -> [Spans -> [Ends -> Row \cup {None}]]]
  BY <1>0, <1>4, CellTypes, OneCell
<1>6. QED
  BY <1>1, <1>5 DEF RowOf, v

\* The extraction worker.
LEMMA ExtractionCells ==
  ASSUME Types, NEW job \in Job, Extraction(job)
  PROVE  ServerTypes' /\ \A x \in Sessions, y \in Spans : CellMoves(x, y)
<1>1. PICK s \in Sessions, n \in Spans, e \in Ends :
        s = job[1] /\ n = job[2] /\ e = job[3] /\ job = <<s, n, e>>
  BY DEF Job
<1>2. RowOf(job) = rows[s][n][e]
  BY <1>1 DEF RowOf
<1>3. ASSUME NEW status \in Status, SetStatus(job, status), RowOf(job) # None
      PROVE  /\ rows'[s][n] = [rows[s][n] EXCEPT ![e].status = status]
             /\ \A x \in Sessions, y \in Spans : x # s \/ y # n => rows'[x][y] = rows[x][y]
             /\ rows' \in [Sessions -> [Spans -> [Ends -> Row \cup {None}]]]
  BY <1>1, <1>3, StatusCells
<1>4. ASSUME NEW status \in Live, SetStatus(job, status), RowOf(job) # None,
             RowOf(job).status \in Live, target' = target, memory' = memory
      PROVE  ServerTypes' /\ \A x \in Sessions, y \in Spans : CellMoves(x, y)
  <2>1. status \in Status
    BY DEF Live, Status
  <2>2. CellRuns(s, n, e, status)
    BY <1>2, <1>3, <1>4, <2>1 DEF CellRuns
  <2>3. \A x \in Sessions, y \in Spans : x # s \/ y # n => CellSame(x, y)
    BY <1>3, <1>4, <2>1 DEF CellSame
  <2>4. \A x \in Sessions, y \in Spans : CellMoves(x, y)
    BY <2>1, <2>2, <2>3 DEF CellMoves
  <2>5. QED
    BY <1>3, <1>4, <2>1, <2>4 DEF ServerTypes, Types
<1>5. CASE StartJob(job)
  BY <1>4, <1>5 DEF StartJob, Live
<1>6. CASE FailJob(job)
  BY <1>4, <1>6 DEF FailJob, Live
<1>7. CASE CommitJob(job)
  <2>1. /\ RowOf(job) # None /\ TargetIs(s, n, e, rows[s][n][e])
        /\ SetStatus(job, "succeeded")
        /\ memory' = [memory EXCEPT ![s][n] = target[s][n]]
        /\ target' = [target EXCEPT ![s][n] = None]
    BY <1>1, <1>2, <1>7 DEF CommitJob
  <2>2. "succeeded" \in Status
    BY DEF Status
  <2>3. /\ memory'[s][n] = target[s][n]
        /\ \A x \in Sessions, y \in Spans : x # s \/ y # n => memory'[x][y] = memory[x][y]
        /\ memory' \in [Sessions -> [Spans -> Content \cup {None}]]
    BY <2>1, CellTypes, OneCell
  <2>4. /\ target'[s][n] = None
        /\ \A x \in Sessions, y \in Spans : x # s \/ y # n => target'[x][y] = target[x][y]
        /\ target' \in [Sessions -> [Spans -> Content \cup {None}]]
    BY <2>1, CellTypes, OneCell
  <2>5. CellEnds(s, n, e, "succeeded")
    BY <1>2, <1>3, <2>1, <2>2, <2>3, <2>4 DEF CellEnds
  <2>6. \A x \in Sessions, y \in Spans : x # s \/ y # n => CellSame(x, y)
    <3>1. \A x \in Sessions, y \in Spans : x # s \/ y # n => rows'[x][y] = rows[x][y]
      BY <1>3, <2>1, <2>2
    <3>2. QED
      BY <2>3, <2>4, <3>1 DEF CellSame
  <2>7. \A x \in Sessions, y \in Spans : CellMoves(x, y)
    BY <2>2, <2>5, <2>6 DEF CellMoves
  <2>8. QED
    BY <1>3, <2>1, <2>2, <2>3, <2>4, <2>7 DEF ServerTypes
<1>8. CASE RequeueJob(job)
  <2> DEFINE v == [d \in Ends |->
       IF target[s][n] # None /\ d = target[s][n].end
          /\ (d = e \/ rows[s][n][d].status # "running")
       THEN [text |-> target[s][n].text, status |-> "pending"]
       ELSE IF d = e THEN [rows[s][n][d] EXCEPT !.status = "superseded"]
       ELSE rows[s][n][d]]
  <2>1. /\ RowOf(job) # None /\ RowOf(job).status = "running"
        /\ rows' = [rows EXCEPT ![s][n] = v] /\ target' = target /\ memory' = memory
    BY <1>1, <1>8 DEF RequeueJob
  <2>2. ASSUME NEW d \in Ends
        PROVE  v[d] \in Row \cup {None}
    <3>1. rows[s][n][d] \in Row \cup {None}
      BY CellTypes
    <3>2. CASE d = e
      <4>1. [rows[s][n][d] EXCEPT !.status = "superseded"] \in Row
        BY <1>2, <2>1, <3>1, <3>2 DEF Row, Status
      <4>2. target[s][n] # None => [text |-> target[s][n].text, status |-> "pending"] \in Row
        BY CellTypes DEF Row, Status, Content
      <4>3. QED
        BY <3>1, <4>1, <4>2
    <3>3. CASE d # e
      <4>1. target[s][n] # None => [text |-> target[s][n].text, status |-> "pending"] \in Row
        BY CellTypes DEF Row, Status, Content
      <4>2. QED
        BY <3>1, <3>3, <4>1
    <3>4. QED
      BY <3>2, <3>3
  <2>3. v \in [Ends -> Row \cup {None}]
    BY <2>2
  <2> HIDE DEF v
  <2>4. /\ rows'[s][n] = v /\ rows' \in [Sessions -> [Spans -> [Ends -> Row \cup {None}]]]
        /\ \A x \in Sessions, y \in Spans : x # s \/ y # n => rows'[x][y] = rows[x][y]
    BY <2>1, <2>3, CellTypes, OneCell
  <2>5. CellRequeued(s, n, e)
    BY <1>2, <2>1, <2>4 DEF CellRequeued, v
  <2>6. \A x \in Sessions, y \in Spans : x # s \/ y # n => CellSame(x, y)
    BY <2>1, <2>4 DEF CellSame
  <2>7. \A x \in Sessions, y \in Spans : CellMoves(x, y)
    BY <2>5, <2>6 DEF CellMoves
  <2>8. QED
    BY <2>1, <2>4, <2>7 DEF ServerTypes, Types
<1>9. QED
  BY <1>5, <1>6, <1>7, <1>8 DEF Extraction

\* A failed job is superseded by an operator, or retried.
LEMMA RepairCells ==
  ASSUME Types, NEW job \in Job, Retriable(job), memory' = memory,
         \/ /\ SetStatus(job, "superseded")
            /\ target' = [target EXCEPT ![job[1]][job[2]] = None]
         \/ SetStatus(job, "pending") /\ target' = target
  PROVE  ServerTypes' /\ \A x \in Sessions, y \in Spans : CellMoves(x, y)
<1>1. PICK s \in Sessions, n \in Spans, e \in Ends :
        s = job[1] /\ n = job[2] /\ e = job[3] /\ job = <<s, n, e>>
  BY DEF Job
<1>2. /\ RowOf(job) = rows[s][n][e] /\ RowOf(job) # None
      /\ TargetIs(s, n, e, rows[s][n][e]) /\ RowOf(job).status \in Live
  BY <1>1 DEF RowOf, Retriable, Live
<1>3. {"superseded", "pending"} \subseteq Status
  BY DEF Status
<1>4. ASSUME NEW status \in Status, SetStatus(job, status)
      PROVE  /\ rows'[s][n] = [rows[s][n] EXCEPT ![e].status = status]
             /\ \A x \in Sessions, y \in Spans : x # s \/ y # n => rows'[x][y] = rows[x][y]
             /\ rows' \in [Sessions -> [Spans -> [Ends -> Row \cup {None}]]]
  BY <1>1, <1>2, <1>4, StatusCells
<1>5. CASE SetStatus(job, "pending") /\ target' = target
  <2>1. CellRuns(s, n, e, "pending")
    BY <1>2, <1>3, <1>4, <1>5 DEF CellRuns, Live
  <2>2. \A x \in Sessions, y \in Spans : x # s \/ y # n => CellSame(x, y)
    BY <1>3, <1>4, <1>5 DEF CellSame
  <2>3. \A x \in Sessions, y \in Spans : CellMoves(x, y)
    BY <1>3, <2>1, <2>2 DEF CellMoves
  <2>4. QED
    BY <1>3, <1>4, <1>5, <2>3 DEF ServerTypes, Types
<1>6. CASE /\ SetStatus(job, "superseded")
           /\ target' = [target EXCEPT ![job[1]][job[2]] = None]
  <2>1. target' = [target EXCEPT ![s][n] = None]
    BY <1>1, <1>6
  <2>2. /\ target'[s][n] = None
        /\ \A x \in Sessions, y \in Spans : x # s \/ y # n => target'[x][y] = target[x][y]
        /\ target' \in [Sessions -> [Spans -> Content \cup {None}]]
    BY <2>1, CellTypes, OneCell
  <2>3. CellEnds(s, n, e, "superseded")
    BY <1>2, <1>3, <1>4, <1>6, <2>2 DEF CellEnds
  <2>4. \A x \in Sessions, y \in Spans : x # s \/ y # n => CellSame(x, y)
    <3>1. \A x \in Sessions, y \in Spans : x # s \/ y # n => rows'[x][y] = rows[x][y]
      BY <1>3, <1>4, <1>6
    <3>2. QED
      BY <2>2, <3>1 DEF CellSame
  <2>5. \A x \in Sessions, y \in Spans : CellMoves(x, y)
    BY <1>3, <2>3, <2>4 DEF CellMoves
  <2>6. QED
    BY <1>3, <1>4, <1>6, <2>2, <2>5 DEF ServerTypes, Types
<1>7. QED
  BY <1>5, <1>6

BackedAt(s, n) == target[s][n] # None =>
  /\ rows[s][n][target[s][n].end] # None
  /\ rows[s][n][target[s][n].end].status \in Live

HasIt(s, n, c) == memory[s][n] = c /\ target[s][n] = None

Coming(s, n, c) ==
  \/ target[s][n] = c
  \/ /\ target[s][n] = None
     /\ \/ memory[s][n] = c
        \/ rows[s][n][c.end].status = "superseded"

\* Whatever happens to a segment, its rows stay, and what is wanted has a row
\* that is not over.
LEMMA CellStaysBacked ==
  ASSUME Types, ServerTypes', NEW s \in Sessions, NEW n \in Spans, BackedAt(s, n),
         CellMoves(s, n) \/ \E c \in Content : CellPosted(s, n, c)
  PROVE  /\ BackedAt(s, n)'
         /\ \A e \in Ends : rows[s][n][e] # None => rows'[s][n][e] # None
<1>1. /\ rows[s][n] \in [Ends -> Row \cup {None}] /\ rows'[s][n] \in [Ends -> Row \cup {None}]
      /\ target[s][n] \in Content \cup {None} /\ target'[s][n] \in Content \cup {None}
  BY DEF Types, ServerTypes
<1>2. /\ None \notin Row /\ None \notin Content /\ \A c \in Content : c.end \in Ends
      /\ \A st \in Status, c \in Content : [text |-> c.text, status |-> st] \in Row
      /\ \A st \in Status, row \in Row : [row EXCEPT !.status = st] \in Row
  BY BackfillAssumption DEF Content, Row
<1>3. Live \subseteq Status /\ {"pending", "superseded", "succeeded"} \subseteq Status
  BY DEF Live, Status
<1>4. CASE CellSame(s, n)
  BY <1>4 DEF CellSame, BackedAt
<1>5. ASSUME NEW e \in Ends, NEW status \in Status, rows[s][n][e] # None,
             rows'[s][n] = [rows[s][n] EXCEPT ![e].status = status]
      PROVE  /\ rows'[s][n][e].status = status
             /\ \A d \in Ends : rows[s][n][d] # None => rows'[s][n][d] # None
             /\ \A d \in Ends \ {e} : rows'[s][n][d] = rows[s][n][d]
  <2>1. rows[s][n][e] \in Row
    BY <1>1, <1>5
  <2>2. rows'[s][n][e] = [rows[s][n][e] EXCEPT !.status = status]
    BY <1>1, <1>5
  <2>3. rows'[s][n][e].status = status
    BY <2>1, <2>2 DEF Row
  <2>4. rows'[s][n][e] # None
    BY <1>2, <2>1, <2>2
  <2>5. \A d \in Ends \ {e} : rows'[s][n][d] = rows[s][n][d]
    BY <1>1, <1>5
  <2>6. QED
    BY <2>3, <2>4, <2>5
<1>6. ASSUME NEW e \in Ends, NEW status \in Status, CellRuns(s, n, e, status)
      PROVE  /\ BackedAt(s, n)'
             /\ \A d \in Ends : rows[s][n][d] # None => rows'[s][n][d] # None
  <2>1. /\ rows'[s][n][e].status \in Live
        /\ \A d \in Ends : rows[s][n][d] # None => rows'[s][n][d] # None
        /\ \A d \in Ends \ {e} : rows'[s][n][d] = rows[s][n][d]
    BY <1>5, <1>6 DEF CellRuns
  <2>2. target'[s][n] = target[s][n]
    BY <1>6 DEF CellRuns
  <2>3. QED
    BY <1>1, <1>2, <2>1, <2>2 DEF BackedAt
<1>7. ASSUME NEW e \in Ends, NEW status \in Status, CellEnds(s, n, e, status)
      PROVE  /\ BackedAt(s, n)'
             /\ \A d \in Ends : rows[s][n][d] # None => rows'[s][n][d] # None
  BY <1>5, <1>7 DEF CellEnds, BackedAt
<1>8. ASSUME NEW e \in Ends, CellRequeued(s, n, e)
      PROVE  /\ BackedAt(s, n)'
             /\ \A d \in Ends : rows[s][n][d] # None => rows'[s][n][d] # None
  <2>1. /\ rows[s][n][e] \in Row /\ target'[s][n] = target[s][n]
        /\ rows[s][n][e].status = "running"
    BY <1>1, <1>8 DEF CellRequeued
  <2>2. \A d \in Ends : rows'[s][n][d] =
          IF target[s][n] # None /\ d = target[s][n].end
             /\ (d = e \/ rows[s][n][d].status # "running")
          THEN [text |-> target[s][n].text, status |-> "pending"]
          ELSE IF d = e THEN [rows[s][n][d] EXCEPT !.status = "superseded"]
          ELSE rows[s][n][d]
    BY <1>8 DEF CellRequeued
  <2>3. ASSUME NEW d \in Ends, rows[s][n][d] # None
        PROVE  rows'[s][n][d] # None
    <3>1. CASE target[s][n] # None /\ d = target[s][n].end
             /\ (d = e \/ rows[s][n][d].status # "running")
      <4>1. rows'[s][n][d] = [text |-> target[s][n].text, status |-> "pending"]
        BY <2>2, <3>1
      <4>2. target[s][n] \in Content
        BY <1>1, <3>1
      <4>3. rows'[s][n][d] \in Row
        BY <1>2, <1>3, <4>1, <4>2
      <4>4. QED
        BY <1>2, <4>3
    <3>2. CASE ~(target[s][n] # None /\ d = target[s][n].end
             /\ (d = e \/ rows[s][n][d].status # "running")) /\ d = e
      <4>1. rows'[s][n][d] = [rows[s][n][d] EXCEPT !.status = "superseded"]
        BY <2>2, <3>2
      <4>2. rows'[s][n][d] \in Row
        BY <1>2, <1>3, <2>1, <3>2, <4>1
      <4>3. QED
        BY <1>2, <4>2
    <3>3. CASE ~(target[s][n] # None /\ d = target[s][n].end
             /\ (d = e \/ rows[s][n][d].status # "running")) /\ d # e
      BY <2>2, <2>3, <3>3
    <3>4. QED
      BY <3>1, <3>2, <3>3
  <2>4. ASSUME target[s][n] # None
        PROVE  /\ rows'[s][n][target[s][n].end] # None
               /\ rows'[s][n][target[s][n].end].status \in Live
    <3> DEFINE d == target[s][n].end
    <3>1. d \in Ends /\ rows[s][n][d] # None
      BY <1>1, <1>2, <2>4 DEF BackedAt
    <3>2. rows'[s][n][d] # None
      BY <2>3, <3>1
    <3>3. \/ rows'[s][n][d] = [text |-> target[s][n].text, status |-> "pending"]
          \/ rows'[s][n][d] = rows[s][n][d] /\ rows[s][n][d].status = "running"
      BY <2>2, <2>4, <3>1
    <3>4. QED
      BY <3>2, <3>3 DEF Live
  <2>5. QED
    BY <2>1, <2>3, <2>4 DEF BackedAt
<1>9. ASSUME NEW c \in Content, CellWants(s, n, c)
      PROVE  /\ BackedAt(s, n)'
             /\ \A d \in Ends : rows[s][n][d] # None => rows'[s][n][d] # None
  <2>1. \A e \in Ends : rows'[s][n][e] =
       IF e = c.end
       THEN IF rows[s][n][e] # None /\ rows[s][n][e].status = "running" THEN rows[s][n][e]
            ELSE [text |-> c.text, status |-> "pending"]
       ELSE IF rows[s][n][e] # None /\ rows[s][n][e].status \in {"pending", "failed", "unpaid"}
            THEN [rows[s][n][e] EXCEPT !.status = "superseded"]
            ELSE rows[s][n][e]
    BY <1>9 DEF CellWants
  <2>2. target'[s][n] = c /\ c.end \in Ends
    BY <1>2, <1>9 DEF CellWants
  <2>3. [text |-> c.text, status |-> "pending"] \in Row
    BY <1>2, <1>3
  <2>4. rows'[s][n][c.end] # None /\ rows'[s][n][c.end].status \in Live
    <3>1. \/ /\ rows'[s][n][c.end] = rows[s][n][c.end]
             /\ rows[s][n][c.end] # None /\ rows[s][n][c.end].status = "running"
          \/ rows'[s][n][c.end] = [text |-> c.text, status |-> "pending"]
      BY <2>1, <2>2
    <3>2. QED
      BY <1>2, <2>3, <3>1 DEF Live
  <2>5. ASSUME NEW d \in Ends \ {c.end}, rows[s][n][d] # None
        PROVE  rows'[s][n][d] # None
    <3>1. [rows[s][n][d] EXCEPT !.status = "superseded"] \in Row
      BY <1>1, <1>2, <1>3, <2>5
    <3>2. QED
      BY <1>2, <2>1, <2>5, <3>1
  <2>6. QED
    BY <2>2, <2>4, <2>5 DEF BackedAt
<1>10. ASSUME NEW c \in Content, CellSettled(s, n, c)
       PROVE  /\ BackedAt(s, n)'
              /\ \A d \in Ends : rows[s][n][d] # None => rows'[s][n][d] # None
  <2>1. [text |-> c.text, status |-> "succeeded"] \in Row
    BY <1>2, <1>3
  <2>2. target'[s][n] = None
    BY <1>10 DEF CellSettled
  <2>3. \A d \in Ends : rows'[s][n][d] =
          IF d # c.end THEN rows[s][n][d]
          ELSE IF rows[s][n][d] # None /\ rows[s][n][d].status = "running" THEN rows[s][n][d]
          ELSE [text |-> c.text, status |-> "succeeded"]
    BY <1>1, <1>10 DEF CellSettled
  <2>4. QED
    BY <1>2, <2>1, <2>2, <2>3 DEF BackedAt
<1>11. QED
  BY <1>4, <1>6, <1>7, <1>8, <1>9, <1>10 DEF CellMoves, CellPosted

\* What has arrived stays, and what is on its way goes on, unless another
\* content is posted.
LEMMA CellKeeps ==
  ASSUME Types, NEW s \in Sessions, NEW n \in Spans, NEW c \in Content,
         CellMoves(s, n) \/ CellPosted(s, n, c)
  PROVE  /\ HasIt(s, n, c) => HasIt(s, n, c)'
         /\ Coming(s, n, c) => Coming(s, n, c)'
<1>1. /\ rows[s][n] \in [Ends -> Row \cup {None}] /\ c # None /\ c.end \in Ends
  BY BackfillAssumption DEF Types, Content
<1>2. CASE CellSame(s, n)
  BY <1>2 DEF CellSame, HasIt, Coming
<1>3. CASE CellWants(s, n, c)
  BY <1>3 DEF CellWants, HasIt, Coming
<1>4. CASE CellSettled(s, n, c)
  BY <1>4 DEF CellSettled, HasIt, Coming
<1>5. ASSUME NEW e \in Ends, NEW status \in Status, CellRuns(s, n, e, status)
      PROVE  /\ HasIt(s, n, c) => HasIt(s, n, c)'
             /\ Coming(s, n, c) => Coming(s, n, c)'
  <2>1. /\ target'[s][n] = target[s][n] /\ memory'[s][n] = memory[s][n]
        /\ rows[s][n][e].status \in Live
        /\ \A d \in Ends \ {e} : rows'[s][n][d] = rows[s][n][d]
    BY <1>1, <1>5 DEF CellRuns
  <2>2. rows[s][n][c.end].status = "superseded" => c.end # e
    BY <2>1 DEF Live
  <2>3. QED
    BY <1>1, <2>1, <2>2 DEF HasIt, Coming
<1>6. ASSUME NEW e \in Ends, NEW status \in Status, CellEnds(s, n, e, status)
      PROVE  /\ HasIt(s, n, c) => HasIt(s, n, c)'
             /\ Coming(s, n, c) => Coming(s, n, c)'
  <2>1. target[s][n] = [end |-> e, text |-> rows[s][n][e].text] /\ target[s][n] # None
    <3>1. rows[s][n][e] \in Row
      BY <1>1, <1>6 DEF CellEnds
    <3>2. target[s][n] = [end |-> e, text |-> rows[s][n][e].text]
      BY <1>6 DEF CellEnds, TargetIs
    <3>3. target[s][n] \in Content
      BY <3>1, <3>2 DEF Content, Row
    <3>4. QED
      BY <3>2, <3>3, BackfillAssumption
  <2>2. CASE target[s][n] # c
    BY <2>1, <2>2 DEF HasIt, Coming
  <2>3. CASE target[s][n] = c
    <3>1. c.end = e
      BY <2>1, <2>3
    <3>2. target'[s][n] = None
      BY <1>6 DEF CellEnds
    <3>3. CASE status = "succeeded"
      BY <1>6, <2>3, <3>2, <3>3 DEF CellEnds, HasIt, Coming
    <3>4. CASE status = "superseded"
      <4>1. rows'[s][n][e] = [rows[s][n][e] EXCEPT !.status = "superseded"]
        BY <1>1, <1>6, <3>4 DEF CellEnds
      <4>2. rows[s][n][e] \in Row
        BY <1>1, <1>6 DEF CellEnds
      <4>3. rows'[s][n][e].status = "superseded"
        BY <4>1, <4>2 DEF Row
      <4>4. QED
        BY <2>1, <3>1, <3>2, <4>3 DEF HasIt, Coming
    <3>5. QED
      BY <1>6, <3>3, <3>4 DEF CellEnds
  <2>4. QED
    BY <2>2, <2>3
<1>7. ASSUME NEW e \in Ends, CellRequeued(s, n, e)
      PROVE  /\ HasIt(s, n, c) => HasIt(s, n, c)'
             /\ Coming(s, n, c) => Coming(s, n, c)'
  <2>1. /\ target'[s][n] = target[s][n] /\ memory'[s][n] = memory[s][n]
        /\ rows[s][n][e].status = "running"
    BY <1>7 DEF CellRequeued
  <2>2. ASSUME target[s][n] = None, rows[s][n][c.end].status = "superseded"
        PROVE  rows'[s][n][c.end] = rows[s][n][c.end]
    <3>1. c.end # e
      BY <2>1, <2>2
    <3>2. QED
      BY <1>1, <1>7, <2>2, <3>1 DEF CellRequeued
  <2>3. QED
    BY <2>1, <2>2 DEF HasIt, Coming
<1>8. QED
  BY <1>2, <1>3, <1>4, <1>5, <1>6, <1>7 DEF CellMoves, CellPosted

-----------------------------------------------------------------------------
(* What each step does to the worker that takes it.                        *)

UsedType == [edits : 0..MaxEdits, troubles : 0..MaxTroubles]
LockType == {None} \cup [by : Workers \cup {Gone}, written : BOOLEAN]

(* The other workers and the local database are as they were, and no       *)
(* recorded failure is forgotten.                                          *)
WorkerMoved(w) ==
  /\ worker' \in [Workers -> WorkerRecord]
  /\ \A v \in Workers : WorkerFits(worker'[v])
  /\ \A v \in Workers \ {w} : worker'[v] = worker[v]
  /\ worker[w].failures \subseteq worker'[w].failures
  /\ local' = local /\ used' \in UsedType /\ used'.edits = used.edits
  /\ lock' \in LockType /\ taken' \subseteq Workers

\* A trouble is used up.
LEMMA SpendTrouble ==
  ASSUME Types, used.troubles < MaxTroubles, Spend("troubles")
  PROVE  used' \in UsedType /\ used'.edits = used.edits
<1>1. used \in UsedType /\ used.troubles + 1 \in 0..MaxTroubles
  <2>1. used \in UsedType /\ used.troubles \in 0..MaxTroubles /\ MaxTroubles \in Nat
    BY BackfillAssumption DEF Types, UsedType
  <2>2. QED
    BY <2>1
<1>2. used' = [used EXCEPT !.troubles = used.troubles + 1]
  BY DEF Spend
<1>3. QED
  BY <1>1, <1>2 DEF UsedType

\* A worker becomes what fits.
LEMMA Becomes ==
  ASSUME Types, NEW w \in Workers, NEW r, WorkerFits(r), Go(w, r),
         worker[w].failures \subseteq r.failures,
         local' = local, used' \in UsedType, used'.edits = used.edits,
         lock' \in LockType, taken' \subseteq Workers
  PROVE  WorkerMoved(w) /\ worker'[w] = r
BY Goes DEF WorkerMoved

\* Ending a run releases the lock, if it is the worker's.
LEMMA EndsRun ==
  ASSUME Types, NEW w \in Workers, NEW how \in Ended,
         Stop(w, how), lock' \in {lock, None}, taken' = taken,
         local' = local, used' \in UsedType, used'.edits = used.edits
  PROVE  /\ WorkerMoved(w) /\ worker'[w].session = 0 /\ worker'[w].pc = how
         /\ worker'[w].failures = worker[w].failures
<1> DEFINE x == [Fresh(how, {}, {}) EXCEPT !.failures = worker[w].failures]
<1>1. Remembers(worker[w]) /\ lock' \in LockType /\ taken' \subseteq Workers
  BY DEF Types, WorkerFits, LockType
<1>2. WorkerFits(x)
  BY <1>1, StopFits
<1>3. x.session = 0 /\ x.pc = how /\ x.failures = worker[w].failures
  BY DEF Fresh
<1>4. Go(w, x)
  BY DEF Stop
<1> HIDE DEF x
<1>5. QED
  BY <1>1, <1>2, <1>3, <1>4, Becomes

\* The steps with the lock file.
LEMMA LockingMoves ==
  ASSUME Types, NEW w \in Workers, Locking(w)
  PROVE  WorkerMoved(w) /\ worker'[w].session = 0 /\ worker'[w].pc \notin InSession
<1>1. /\ Remembers(worker[w]) /\ worker[w].session = 0 /\ worker[w].pc \in LockSteps
  <2>1. worker[w].pc \in LockSteps
    BY DEF Locking, LookAtLock, UnlinkStaleLock, CreateLock, WriteLock, At, LockSteps
  <2>2. worker[w].pc \notin InSession
    BY <2>1 DEF LockSteps, InSession, Checking
  <2>3. QED
    BY <2>1, <2>2 DEF Types, WorkerFits
<1>2. local' = local /\ used' = used /\ used' \in UsedType /\ used'.edits = used.edits
  BY DEF Locking, LookAtLock, UnlinkStaleLock, CreateLock, WriteLock, Types, UsedType
<1>3. lock' \in LockType /\ taken' \subseteq Workers
  <2>1. lock \in LockType /\ taken \subseteq Workers /\ None \in LockType
        /\ \A b \in BOOLEAN : [by |-> w, written |-> b] \in LockType
    BY DEF Types, LockType
  <2>2. QED
    BY <2>1 DEF Locking, LookAtLock, UnlinkStaleLock, CreateLock, WriteLock, files
<1>4. (\E pc \in {"unlink", "create", "write", "priority"} : To(w, pc)) \/ Stop(w, "refused")
  BY DEF Locking, LookAtLock, UnlinkStaleLock, CreateLock, WriteLock
<1>5. ASSUME NEW pc \in {"unlink", "create", "write", "priority"}, To(w, pc)
      PROVE  WorkerMoved(w) /\ worker'[w].session = 0 /\ worker'[w].pc \notin InSession
  <2> DEFINE x == [worker[w] EXCEPT !.pc = pc]
  <2>1. pc \in Pc \ InSession
    BY DEF Pc, LockSteps, InSession, Checking
  <2>2. WorkerFits(x)
    BY <1>1, <2>1, PcFits
  <2>3. x.pc = pc /\ x.session = 0 /\ x.failures = worker[w].failures
    BY <1>1 DEF Remembers, WorkerRecord
  <2>4. Go(w, x)
    BY <1>5 DEF To
  <2> HIDE DEF x
  <2>5. QED
    BY <1>2, <1>3, <2>1, <2>2, <2>3, <2>4, Becomes
<1>6. CASE Stop(w, "refused")
  <2> DEFINE x == [Fresh("refused", {}, {}) EXCEPT !.failures = worker[w].failures]
  <2>1. "refused" \in Ended /\ "refused" \notin InSession
    BY DEF Ended, InSession, Checking
  <2>2. WorkerFits(x)
    BY <1>1, <2>1, StopFits
  <2>3. x.pc = "refused" /\ x.session = 0 /\ x.failures = worker[w].failures
    BY DEF Fresh
  <2>4. Go(w, x)
    BY <1>6 DEF Stop
  <2> HIDE DEF x
  <2>5. QED
    BY <1>2, <1>3, <2>1, <2>2, <2>3, <2>4, Becomes
<1>7. QED
  BY <1>4, <1>5, <1>6

\* A worker that ends, by itself or not.
LEMMA EndingMoves ==
  ASSUME Types, NEW w \in Workers,
         RequestFails(w) \/ Kill(w) \/ EndRound(w) \/ SessionChanged(w)
  PROVE  WorkerMoved(w) /\ worker'[w].session = 0 /\ worker'[w].pc \notin InSession \cup LockSteps
<1>1. Remembers(worker[w]) /\ worker[w] \in WorkerRecord
  BY DEF Types, WorkerFits, Remembers
<1>2. Ended \cap (InSession \cup LockSteps) = {} /\ {"aborted", "completed", "killed"} \subseteq Ended
  BY DEF Ended, InSession, Checking, LockSteps
<1>3. lock \in LockType /\ taken \subseteq Workers /\ used \in UsedType
  BY DEF Types, LockType, UsedType
<1>4. CASE RequestFails(w)
  <2>1. Stop(w, "aborted") /\ lock' \in {lock, None} /\ taken' = taken /\ local' = local
    BY <1>4 DEF RequestFails, EndRun, AfterRelease
  <2>2. used' \in UsedType /\ used'.edits = used.edits
    BY <1>4, SpendTrouble DEF RequestFails
  <2>3. QED
    BY <1>2, <2>1, <2>2, EndsRun
<1>5. CASE Kill(w)
  <2>1. Stop(w, "killed") /\ lock' = lock /\ taken' = taken /\ local' = local
    BY <1>5 DEF Kill, files
  <2>2. used' \in UsedType /\ used'.edits = used.edits
    BY <1>5, SpendTrouble DEF Kill
  <2>3. QED
    BY <1>2, <2>1, <2>2, EndsRun
<1>6. CASE EndRound(w)
  <2>1. local' = local /\ used' = used
    BY <1>6 DEF EndRound
  <2>2. CASE worker[w].deferred = {}
    <3>1. Stop(w, "completed") /\ lock' \in {lock, None} /\ taken' = taken
      BY <1>6, <2>2 DEF EndRound, EndRun, AfterRelease
    <3>2. QED
      BY <1>2, <1>3, <2>1, <3>1, EndsRun
  <2>3. CASE worker[w].deferred # {}
    <3> DEFINE x == [worker[w] EXCEPT !.queue = worker[w].deferred, !.deferred = {}]
    <3>1. Go(w, x) /\ lock' = lock /\ taken' = taken
      BY <1>6, <2>3 DEF EndRound, files
    <3>2. worker[w].pc = "queue" /\ worker[w].session = 0
      BY <1>6 DEF EndRound, At, Types, WorkerFits, InSession, Checking
    <3>3. /\ x \in WorkerRecord /\ x.pc = "queue" /\ x.session = 0
          /\ x.queue = worker[w].deferred /\ x.deferred = {}
          /\ x.plan = worker[w].plan /\ x.index = worker[w].index
          /\ x.rounds = worker[w].rounds /\ x.attempted = worker[w].attempted
          /\ x.failures = worker[w].failures
      BY <1>1, <3>2 DEF WorkerRecord
    <3>4. worker[w].deferred \subseteq Sessions
      BY <1>1 DEF WorkerRecord
    <3> HIDE DEF x
    <3>5. WorkerFits(x)
      BY <1>1, <3>2, <3>3, <3>4, QueueFits DEF Remembers
    <3>6. QED
      BY <1>3, <2>1, <3>1, <3>3, <3>5, Becomes DEF InSession, Checking, LockSteps
  <2>4. QED
    BY <2>2, <2>3
<1>7. CASE SessionChanged(w)
  <2>1. Go(w, Deferred(worker[w])) /\ worker[w].session # 0
    BY <1>7 DEF SessionChanged, Stable
  <2>2. WorkerFits(Deferred(worker[w]))
    BY <1>1, <2>1, LeaveSessionFits
  <2>3. local' = local /\ used' = used /\ lock' = lock /\ taken' = taken
    BY <1>7 DEF SessionChanged, files
  <2>4. PICK m \in WorkerRecord : /\ m = LeaveSession(worker[w]) /\ m.session = 0
                                  /\ m.pc = "queue" /\ m.failures = worker[w].failures
    BY <1>1, LeaveSessionTerms
  <2>5. /\ Deferred(worker[w]).session = 0 /\ Deferred(worker[w]).pc = "queue"
        /\ Deferred(worker[w]).failures = worker[w].failures
    BY <2>4 DEF Deferred, WorkerRecord
  <2>6. QED
    BY <1>3, <2>1, <2>2, <2>3, <2>5, Becomes DEF InSession, Checking, LockSteps
<1>8. QED
  BY <1>4, <1>5, <1>6, <1>7

RowAfter(job) == rows'[job[1]][job[2]][job[3]]

(* The worker has no session, or keeps the job it has posted.              *)
Leaves(w) == worker'[w].session = 0 /\ worker'[w].pc \notin LockSteps

Stays(w) ==
  LET r == worker[w]
      x == worker'[w]
  IN  /\ r.pc \in InSession \ {"plan"} /\ x.pc \in Answered
      /\ x.session = r.session /\ x.revision = r.revision
      /\ x.plan = r.plan /\ x.index = r.index /\ x.job = r.job
      /\ x.pc = "succeeded?" => RowAfter(r.job).status = "succeeded"

(* The worker begins with a session that rests. *)
Begins(w) ==
  LET x == worker'[w]
      s == x.session
  IN  /\ x.pc = "plan" /\ s \in Sessions /\ x.revision = local[s].revision
      /\ local[s].quiet /\ ~local[s].gone

(* The worker goes on with its session, by a new plan or the one it has.   *)
Walks(w) ==
  LET r == worker[w]
      s == r.session
  IN  \E q : /\ Remembers(q) /\ s # 0 /\ Stable(w) /\ UNCHANGED server
             /\ q.session = s /\ q.revision = r.revision /\ r.failures \subseteq q.failures
             /\ Continue(w, q)
             /\ \/ r.pc = "plan" /\ q.plan = PlanOf(s) /\ q.index = 1
                \/ /\ r.pc \in {"succeeded?", "given up?"} /\ q.plan = r.plan
                   /\ q.index = r.index + 1
                   /\ r.pc = "given up?" => r.key \in q.failures

\* A worker without a session, with another todo list or another result.
LEMMA IdleFits ==
  ASSUME NEW r, Remembers(r), r.session = 0, r.pc \notin InSession,
         NEW todo \in SUBSET Job, NEW completed \in SUBSET Snapshot
  PROVE  LET n == [r EXCEPT !.todo = todo, !.completed = completed]
         IN  /\ WorkerFits(n) /\ n.session = 0 /\ n.pc = r.pc /\ n.failures = r.failures
<1> DEFINE n == [r EXCEPT !.todo = todo, !.completed = completed]
<1>1. r \in WorkerRecord
  BY DEF Remembers
<1>2. /\ n \in WorkerRecord
      /\ n.pc = r.pc /\ n.session = r.session /\ n.queue = r.queue /\ n.deferred = r.deferred
      /\ n.plan = r.plan /\ n.index = r.index /\ n.rounds = r.rounds
      /\ n.attempted = r.attempted /\ n.failures = r.failures
  BY <1>1 DEF WorkerRecord
<1> HIDE DEF n
<1>3. Remembers(n)
  BY <1>2 DEF Remembers
<1>4. WorkerFits(n)
  BY <1>2, <1>3 DEF WorkerFits, InSession, Checking
<1>5. QED
  BY <1>2, <1>4 DEF n

\* A priority job is taken up.
TakenUp(r, todo, job, c) ==
  [r EXCEPT !.todo = todo, !.job = job, !.key = <<job[1], job[2], c>>]

LEMMA PriorityFits ==
  ASSUME NEW r, Remembers(r), r.session = 0, NEW job \in Job, NEW c \in Content,
         c.end = job[3], NEW todo \in SUBSET Job, NEW row \in Row
  PROVE  LET n == Judged(TakenUp(r, todo, job, c), row)
         IN  /\ WorkerFits(n) /\ n.session = 0 /\ n.failures = r.failures
             /\ n.pc \notin LockSteps
             /\ n.pc \in Answered => n.job = job
<1>1. PICK s \in Sessions, k \in Spans, e \in Ends :
        s = job[1] /\ k = job[2] /\ e = job[3] /\ job = <<s, k, e>>
  BY DEF Job
<1>2. PICK key \in Snapshot : key = <<s, k, c>> /\ key # None
  <2>1. None \notin Snapshot
    BY BackfillAssumption
  <2>2. <<s, k, c>> \in Snapshot
    BY DEF Snapshot
  <2>3. QED
    BY <2>1, <2>2
<1> DEFINE q == [r EXCEPT !.todo = todo, !.job = job, !.key = key]
<1>3. r \in WorkerRecord
  BY DEF Remembers
<1>4. /\ q \in WorkerRecord /\ q.job = job /\ q.key = key
      /\ q.pc = r.pc /\ q.session = r.session /\ q.queue = r.queue /\ q.deferred = r.deferred
      /\ q.plan = r.plan /\ q.index = r.index /\ q.rounds = r.rounds
      /\ q.attempted = r.attempted /\ q.failures = r.failures
  BY <1>3 DEF WorkerRecord
<1>5. q = TakenUp(r, todo, job, c)
  BY <1>1, <1>2 DEF TakenUp
<1> HIDE DEF q
<1>6. Remembers(q)
  BY <1>4 DEF Remembers
<1>7. key[1] = s /\ key[2] = k /\ key[3] = c
  BY <1>2
<1>8. q.key # None /\ q.job = <<q.key[1], q.key[2], q.key[3].end>>
  BY <1>1, <1>2, <1>4, <1>7
<1>9. HasJob(q)
  BY <1>4, <1>8 DEF HasJob
<1>10. LET n == Judged(q, row)
       IN  /\ WorkerFits(n) /\ n.session = 0 /\ n.failures = r.failures
           /\ n.pc \notin LockSteps
           /\ n.pc \in Answered => n.job = job
  <2>1. Answered \subseteq InSession /\ Answered \cap LockSteps = {}
    BY DEF Answered, InSession, Checking, LockSteps
  <2>2. QED
    BY <1>4, <1>6, <1>9, <2>1, JudgedFits
<1>11. QED
  BY <1>5, <1>10

\* processPriorityJobs
LEMMA PriorityMoves ==
  ASSUME Types, NEW w \in Workers, TakePriorityJob(w)
  PROVE  /\ WorkerMoved(w) /\ Leaves(w)
         /\ worker'[w].pc \in Answered => RowOf(worker'[w].job) # None
<1> DEFINE r == worker[w]
<1>1. /\ Remembers(r) /\ r \in WorkerRecord /\ r.pc = "priority" /\ r.session = 0
      /\ r.pc \notin InSession
  BY DEF Types, WorkerFits, Remembers, TakePriorityJob, At, InSession, Checking
<1>2. /\ local' = local /\ used' \in UsedType /\ used'.edits = used.edits
      /\ lock' \in LockType /\ taken' \subseteq Workers
  BY DEF TakePriorityJob, files, Types, UsedType, LockType
<1>3. r.pc \notin Answered /\ r.pc \notin LockSteps
  BY <1>1 DEF Answered, LockSteps
<1> HIDE DEF r
<1>4. ASSUME NEW x, WorkerFits(x), Go(w, x), x.session = 0, r.failures \subseteq x.failures,
             x.pc \notin LockSteps, x.pc \in Answered => RowOf(x.job) # None
      PROVE  /\ WorkerMoved(w) /\ Leaves(w)
             /\ worker'[w].pc \in Answered => RowOf(worker'[w].job) # None
  BY <1>2, <1>4, Becomes DEF r, Leaves
<1>5. CASE r.todo = {}
  <2> DEFINE x == [r EXCEPT !.pc = "queue"]
  <2>1. "queue" \in Pc \ InSession /\ "queue" \notin Answered /\ "queue" \notin LockSteps
    BY DEF Pc, InSession, Checking, Answered, LockSteps
  <2>2. WorkerFits(x)
    BY <1>1, <2>1, PcFits
  <2>3. x.pc = "queue" /\ x.session = 0 /\ x.failures = r.failures
    BY <1>1 DEF WorkerRecord
  <2>4. Go(w, x)
    BY <1>5 DEF TakePriorityJob, To, r
  <2> HIDE DEF x
  <2>5. QED
    BY <1>4, <2>1, <2>2, <2>3, <2>4
<1>6. CASE r.todo # {}
  <2>1. PICK job \in r.todo :
          LET row  == RowOf(job)
              rest == [r EXCEPT !.todo = @ \ {job}]
              key  == <<job[1], job[2], [end |-> job[3], text |-> row.text]>>
          IN  Go(w, IF row = None THEN rest
                    ELSE IF row.status = "succeeded"
                    THEN [rest EXCEPT !.completed = @ \cup {key}]
                    ELSE Judged([rest EXCEPT !.job = job, !.key = key], row))
    BY <1>6 DEF TakePriorityJob, r
  <2>2. job \in Job
    BY <1>1, <2>1 DEF WorkerRecord
  <2>3. PICK s \in Sessions, k \in Spans, e \in Ends :
          s = job[1] /\ k = job[2] /\ e = job[3] /\ job = <<s, k, e>>
    BY <2>2 DEF Job
  <2>4. RowOf(job) \in Row \cup {None}
    BY <2>3, CellTypes DEF RowOf
  <2>5. PICK todo \in SUBSET Job : todo = r.todo \ {job}
    BY <1>1 DEF WorkerRecord
  <2>6. CASE RowOf(job) = None
    <3> DEFINE x == [r EXCEPT !.todo = todo, !.completed = r.completed]
    <3>1. r.completed \in SUBSET Snapshot
      BY <1>1 DEF WorkerRecord
    <3>2. WorkerFits(x) /\ x.session = 0 /\ x.pc = r.pc /\ x.failures = r.failures
      BY <1>1, <3>1, IdleFits
    <3>3. x = [r EXCEPT !.todo = @ \ {job}]
      BY <1>1, <2>5 DEF WorkerRecord
    <3>4. Go(w, x)
      BY <2>1, <2>6, <3>3
    <3> HIDE DEF x
    <3>5. QED
      BY <1>3, <1>4, <3>2, <3>4
  <2>7. CASE RowOf(job) # None
    <3>1. PICK c \in Content : c = [end |-> job[3], text |-> RowOf(job).text]
      BY <2>3, <2>4, <2>7 DEF Content, Row
    <3>2. PICK key \in Snapshot : key = <<job[1], job[2], c>>
      BY <2>3 DEF Snapshot
    <3>3. CASE RowOf(job).status = "succeeded"
      <4>1. r.completed \cup {key} \in SUBSET Snapshot
        BY <1>1, <3>2 DEF WorkerRecord
      <4> DEFINE x == [r EXCEPT !.todo = todo, !.completed = r.completed \cup {key}]
      <4>2. WorkerFits(x) /\ x.session = 0 /\ x.pc = r.pc /\ x.failures = r.failures
        BY <1>1, <4>1, IdleFits
      <4>3. x = [[r EXCEPT !.todo = @ \ {job}] EXCEPT !.completed = @ \cup {key}]
        BY <1>1, <2>5 DEF WorkerRecord
      <4>4. Go(w, x)
        BY <2>1, <2>7, <3>1, <3>2, <3>3, <4>3
      <4> HIDE DEF x
      <4>5. QED
        BY <1>3, <1>4, <4>2, <4>4
    <3>4. CASE RowOf(job).status # "succeeded"
      <4> DEFINE q == TakenUp(r, todo, job, c)
                 x == Judged(q, RowOf(job))
      <4>1. RowOf(job) \in Row /\ c.end = job[3]
        BY <2>4, <2>7, <3>1
      <4>2. /\ WorkerFits(x) /\ x.session = 0 /\ x.failures = r.failures
            /\ x.pc \notin LockSteps
            /\ x.pc \in Answered => x.job = job
        BY <1>1, <2>2, <4>1, PriorityFits
      <4>3. q = [[r EXCEPT !.todo = @ \ {job}] EXCEPT !.job = job, !.key = key]
        BY <1>1, <2>5, <3>2 DEF WorkerRecord, TakenUp
      <4>4. Go(w, Judged([[r EXCEPT !.todo = @ \ {job}] EXCEPT !.job = job, !.key = key],
                         RowOf(job)))
        BY <2>1, <2>7, <3>1, <3>2, <3>4
      <4> HIDE DEF q
      <4>5. Go(w, x)
        BY <4>3, <4>4
      <4> HIDE DEF x
      <4>6. QED
        BY <1>4, <2>7, <4>2, <4>5
    <3>5. QED
      BY <3>3, <3>4
  <2>8. QED
    BY <2>6, <2>7
<1>7. QED
  BY <1>5, <1>6

\* runBackfill: the next session of the queue.
LEMMA SessionMoves ==
  ASSUME Types, NEW w \in Workers, TakeSession(w)
  PROVE  /\ WorkerMoved(w)
         /\ Leaves(w) \/ Begins(w)
         /\ worker'[w].pc \notin Answered
<1> DEFINE r == worker[w]
<1>1. /\ Remembers(r) /\ r \in WorkerRecord /\ r.pc = "queue" /\ r.session = 0
      /\ r.index = 1
  BY DEF Types, WorkerFits, Remembers, TakeSession, At, InSession, Checking
<1>2. /\ local' = local /\ used' \in UsedType /\ used'.edits = used.edits
      /\ lock' \in LockType /\ taken' \subseteq Workers
  BY DEF TakeSession, files, Types, UsedType, LockType
<1>3. /\ r.queue \subseteq Sessions /\ r.deferred \subseteq Sessions
      /\ r.queue \cap r.deferred = {} /\ r.plan \in Seq(Planned)
      /\ Len(r.plan) <= LastSpan /\ r.index \in 1..(Len(r.plan) + 1)
      /\ r.rounds < MaxRounds /\ r.attempted \subseteq r.failures
  BY <1>1 DEF Remembers, WorkerRecord
<1>4. {"queue", "plan"} \cap Answered = {} /\ "plan" \in Pc
  BY DEF Answered, InSession, Checking, Pc
<1> HIDE DEF r
<1>5. PICK s \in r.queue :
        LET rest == [r EXCEPT !.queue = @ \ {s}] IN
        Go(w, IF local[s].gone THEN rest
              ELSE IF ~Ready(s) THEN [rest EXCEPT !.deferred = @ \cup {s}]
              ELSE [rest EXCEPT !.pc = "plan", !.session = s,
                                !.revision = local[s].revision])
  BY DEF TakeSession, r
<1>6. s \in Sessions /\ s # 0 /\ local[s] \in LocalRecord /\ local[s].revision \in Nat
  BY <1>3 DEF Sessions, Types, LocalRecord
<1> DEFINE rest == [r EXCEPT !.queue = @ \ {s}]
<1>7. /\ rest \in WorkerRecord /\ rest.pc = "queue" /\ rest.session = 0
      /\ rest.queue = r.queue \ {s} /\ rest.deferred = r.deferred
      /\ rest.plan = r.plan /\ rest.index = r.index /\ rest.rounds = r.rounds
      /\ rest.attempted = r.attempted /\ rest.failures = r.failures
  BY <1>1, <1>3 DEF WorkerRecord
<1>8. Go(w, IF local[s].gone THEN rest
            ELSE IF ~Ready(s) THEN [rest EXCEPT !.deferred = @ \cup {s}]
            ELSE [rest EXCEPT !.pc = "plan", !.session = s,
                              !.revision = local[s].revision])
  BY <1>5
<1> HIDE DEF rest
<1>9. CASE local[s].gone
  <2>1. WorkerFits(rest)
    BY <1>1, <1>3, <1>7, QueueFits
  <2>2. Go(w, rest)
    BY <1>8, <1>9
  <2>3. WorkerMoved(w) /\ worker'[w] = rest
    BY <1>2, <1>7, <2>1, <2>2, Becomes DEF r
  <2>4. QED
    BY <1>4, <1>7, <2>3 DEF Leaves, LockSteps
<1>10. CASE ~local[s].gone /\ ~Ready(s)
  <2> DEFINE x == [rest EXCEPT !.deferred = @ \cup {s}]
  <2>1. /\ x \in WorkerRecord /\ x.pc = "queue" /\ x.session = 0
        /\ x.queue = r.queue \ {s} /\ x.deferred = r.deferred \cup {s}
        /\ x.plan = r.plan /\ x.index = r.index /\ x.rounds = r.rounds
        /\ x.attempted = r.attempted /\ x.failures = r.failures
    BY <1>6, <1>7 DEF WorkerRecord
  <2>2. Go(w, x)
    BY <1>8, <1>10
  <2> HIDE DEF x
  <2>3. x.queue \cap x.deferred = {} /\ x.queue \subseteq Sessions /\ x.deferred \subseteq Sessions
    BY <1>3, <1>6, <2>1
  <2>4. WorkerFits(x)
    BY <1>1, <1>3, <2>1, <2>3, QueueFits
  <2>5. WorkerMoved(w) /\ worker'[w] = x
    BY <1>2, <2>1, <2>2, <2>4, Becomes DEF r
  <2>6. QED
    BY <1>4, <2>1, <2>5 DEF Leaves, LockSteps
<1>11. CASE ~local[s].gone /\ Ready(s)
  <2>1. PICK pc \in Pc, i \in Sessions, v \in Nat :
          pc = "plan" /\ i = s /\ v = local[s].revision
    BY <1>4, <1>6
  <2> DEFINE x == [rest EXCEPT !.pc = pc, !.session = i, !.revision = v]
  <2>2. /\ x \in WorkerRecord /\ x.pc = pc /\ x.session = i /\ x.revision = v
        /\ x.queue = r.queue \ {s} /\ x.deferred = r.deferred
        /\ x.plan = r.plan /\ x.index = r.index /\ x.rounds = r.rounds
        /\ x.attempted = r.attempted /\ x.failures = r.failures
    BY <1>7 DEF WorkerRecord
  <2>3. Go(w, x)
    BY <1>8, <1>11, <2>1
  <2> HIDE DEF x
  <2>4. Remembers(x)
    BY <1>3, <1>6, <2>1, <2>2, <1>5 DEF Remembers
  <2>5. WorkerFits(x)
    BY <1>1, <1>6, <2>1, <2>2, <2>4 DEF WorkerFits, InSession, Checking
  <2>6. WorkerMoved(w) /\ worker'[w] = x
    BY <1>2, <2>2, <2>3, <2>5, Becomes DEF r
  <2>7. Begins(w)
    <3>1. local[s].quiet /\ ~local[s].gone
      BY <1>11 DEF Ready
    <3>2. QED
      BY <2>1, <2>2, <2>6, <3>1 DEF Begins
  <2>8. QED
    BY <1>4, <2>1, <2>2, <2>6, <2>7
<1>12. QED
  BY <1>9, <1>10, <1>11

\* The worker goes on with its session.
LEMMA WalkMoves ==
  ASSUME Types, NEW w \in Workers, NEW q, Remembers(q), q.session # 0,
         worker[w].failures \subseteq q.failures, Continue(w, q),
         local' = local, used' \in UsedType, used'.edits = used.edits,
         lock' \in LockType, taken' \subseteq Workers
  PROVE  /\ WorkerMoved(w) /\ worker'[w] = Walked(q) /\ worker'[w].pc \notin Answered
         /\ settled' \subseteq Workers \X Sessions
<1> DEFINE x == Walked(q)
<1>1. /\ WorkerFits(x) /\ q.failures \subseteq x.failures /\ x.pc \in {"queue", "post"}
  BY WalkedFits
<1>2. Go(w, x)
  BY DEF Continue
<1>3. q.session \in Sessions
  BY DEF Remembers, WorkerRecord
<1>4. settled' \subseteq Workers \X Sessions
  BY <1>3 DEF Continue, Types
<1> HIDE DEF x
<1>5. WorkerMoved(w) /\ worker'[w] = x
  BY <1>1, <1>2, Becomes
<1>6. QED
  BY <1>1, <1>4, <1>5 DEF x, Answered, InSession, Checking

\* A plan has every segment of the session, and calls done what is stored.
LEMMA PlanOfTerms ==
  ASSUME Types, NEW s \in Sessions
  PROVE  /\ PlanOf(s) \in Seq(Planned) /\ Len(PlanOf(s)) = Len(local[s].spans)
         /\ \A n \in 1..Len(local[s].spans) :
              /\ PlanOf(s)[n].content = local[s].spans[n]
              /\ PlanOf(s)[n].status = "done" => Stored(s, n)
<1>1. local[s].spans \in Seq(Content)
  BY DEF Types, LocalRecord
<1>2. PICK k \in Nat : k = Len(local[s].spans) /\ DOMAIN local[s].spans = 1..k
  BY <1>1, LenProperties
<1>3. \A n \in 1..k : local[s].spans[n] \in Content
  BY <1>1, <1>2, ElementOfSeq
<1>4. \A n \in 1..k, c \in Content : PlanStatus(s, n, c) \in {"done", "failed", "wanted"}
  BY DEF PlanStatus
<1>5. PlanOf(s) = [n \in 1..k |-> [content |-> local[s].spans[n],
                                   status |-> PlanStatus(s, n, local[s].spans[n])]]
  BY <1>2 DEF PlanOf
<1>6. \A n \in 1..k : [content |-> local[s].spans[n],
                       status |-> PlanStatus(s, n, local[s].spans[n])] \in Planned
  BY <1>3, <1>4 DEF Planned
<1>7. PlanOf(s) \in [1..k -> Planned]
  BY <1>5, <1>6
<1>8. PlanOf(s) \in Seq(Planned) /\ Len(PlanOf(s)) = k
  <2>1. PlanOf(s) \in Seq(Planned)
    BY <1>7, IsASeq
  <2>2. DOMAIN PlanOf(s) = 1..k /\ DOMAIN PlanOf(s) = 1..Len(PlanOf(s))
        /\ Len(PlanOf(s)) \in Nat
    BY <1>7, <2>1, LenProperties
  <2>3. QED
    BY <2>1, <2>2
<1>9. ASSUME NEW n \in 1..k
      PROVE  /\ PlanOf(s)[n].content = local[s].spans[n]
             /\ PlanOf(s)[n].status = "done" => Stored(s, n)
  <2>1. PlanOf(s)[n] = [content |-> local[s].spans[n],
                        status |-> PlanStatus(s, n, local[s].spans[n])]
    BY <1>5
  <2>2. PlanStatus(s, n, local[s].spans[n]) = "done" => Stored(s, n)
    BY DEF PlanStatus, Stored
  <2>3. QED
    BY <2>1, <2>2
<1>10. QED
  BY <1>2, <1>8, <1>9

\* planSessionSegments
LEMMA PlanMoves ==
  ASSUME Types, NEW w \in Workers, PlanSession(w)
  PROVE  /\ WorkerMoved(w)
         /\ (Leaves(w) /\ settled' = settled) \/ Walks(w)
         /\ worker'[w].pc \notin Answered /\ settled' \subseteq Workers \X Sessions
<1> DEFINE r == worker[w]
<1>1. /\ Remembers(r) /\ r \in WorkerRecord /\ r.pc = "plan" /\ r.session # 0
      /\ r.index = 1 /\ r.session \in Sessions
  BY DEF Types, WorkerFits, Remembers, WorkerRecord, PlanSession, At, InSession
<1>2. /\ local' = local /\ used' \in UsedType /\ used'.edits = used.edits
      /\ lock' \in LockType /\ taken' \subseteq Workers /\ UNCHANGED server
      /\ settled \subseteq Workers \X Sessions
  BY DEF PlanSession, files, Types, UsedType, LockType
<1> HIDE DEF r
<1>3. CASE PlanInvalid(r.session)
  <2>1. Go(w, Failed(r)) /\ settled' = settled
    BY <1>3 DEF PlanSession, r
  <2>2. WorkerFits(Failed(r))
    BY <1>1, LeaveSessionFits
  <2>3. PICK m \in WorkerRecord : /\ m = LeaveSession(r) /\ m.session = 0
                                  /\ m.pc = "queue" /\ m.failures = r.failures
    BY <1>1, LeaveSessionTerms
  <2>4. /\ Failed(r).session = 0 /\ Failed(r).pc = "queue"
        /\ r.failures \subseteq Failed(r).failures
    BY <2>3 DEF Failed, WorkerRecord
  <2>5. WorkerMoved(w) /\ worker'[w] = Failed(r)
    BY <1>2, <2>1, <2>2, <2>4, Becomes DEF r
  <2>6. QED
    BY <1>2, <2>1, <2>4, <2>5 DEF Leaves, Answered, InSession, Checking, LockSteps
<1>4. CASE ~PlanInvalid(r.session)
  <2>1. PICK open \in BOOLEAN, plan \in Seq(Planned) :
          open = local[r.session].open /\ plan = PlanOf(r.session)
          /\ Len(plan) = Len(local[r.session].spans)
    <3>1. local[r.session].open \in BOOLEAN
      BY <1>1 DEF Types, LocalRecord
    <3>2. /\ PlanOf(r.session) \in Seq(Planned)
          /\ Len(PlanOf(r.session)) = Len(local[r.session].spans)
      BY <1>1, PlanOfTerms
    <3>3. QED
      BY <3>1, <3>2
  <2> DEFINE q == [r EXCEPT !.open = open, !.plan = plan]
  <2>2. Continue(w, q) /\ Stable(w)
    BY <1>4, <2>1 DEF PlanSession, r
  <2>3. /\ q \in WorkerRecord /\ q.plan = plan /\ q.pc = r.pc /\ q.session = r.session
        /\ q.revision = r.revision /\ q.queue = r.queue /\ q.deferred = r.deferred
        /\ q.index = r.index /\ q.rounds = r.rounds
        /\ q.attempted = r.attempted /\ q.failures = r.failures
    BY <1>1 DEF WorkerRecord
  <2> HIDE DEF q
  <2>4. Len(plan) <= LastSpan /\ 1 \in 1..(Len(plan) + 1)
    <3>1. Len(local[r.session].spans) \in 1..LastSpan /\ LastSpan \in Nat
      BY <1>1, BackfillAssumption DEF Types
    <3>2. QED
      BY <2>1, <3>1
  <2>5. Remembers(q)
    BY <1>1, <2>3, <2>4 DEF Remembers
  <2>6. /\ WorkerMoved(w) /\ worker'[w].pc \notin Answered
        /\ settled' \subseteq Workers \X Sessions
    BY <1>1, <1>2, <2>2, <2>3, <2>5, WalkMoves DEF r
  <2>7. Walks(w)
    BY <1>1, <1>2, <2>1, <2>2, <2>3, <2>5 DEF Walks, r
  <2>8. QED
    BY <2>6, <2>7
<1>5. QED
  BY <1>3, <1>4

\* The outcome of a job is remembered.
Recorded(r) ==
  IF r.status = "succeeded" THEN [r EXCEPT !.completed = @ \cup {r.key}]
  ELSE [r EXCEPT !.attempted = @ \cup {r.key}, !.failures = @ \cup {r.key}]

LEMMA RecordedTerms ==
  ASSUME NEW r, WorkerFits(r), r.pc \in {"succeeded?", "given up?"}
  PROVE  LET n == Recorded(r)
         IN  /\ Remembers(n) /\ n.session = r.session /\ n.revision = r.revision
             /\ n.plan = r.plan /\ n.index = r.index /\ r.failures \subseteq n.failures
             /\ r.pc = "given up?" => r.key \in n.failures
             /\ r.session # 0 => r.index <= Len(r.plan)
<1> DEFINE n == Recorded(r)
<1>1. /\ Remembers(r) /\ r \in WorkerRecord /\ HasJob(r) /\ r.key \in Snapshot
      /\ r.pc = "given up?" => r.status = "failed"
      /\ r.session # 0 => r.index <= Len(r.plan)
  BY DEF WorkerFits, Remembers, HasJob, WorkerRecord, InSession, Checking
<1>2. PICK k \in Snapshot : k = r.key /\ k \in Failure
  BY <1>1 DEF Failure
<1>3. CASE r.status = "succeeded"
  <2> DEFINE x == [r EXCEPT !.completed = @ \cup {k}]
  <2>1. n = x
    BY <1>2, <1>3 DEF Recorded
  <2> HIDE DEF n
  <2>2. /\ n \in WorkerRecord
        /\ n.session = r.session /\ n.revision = r.revision
        /\ n.queue = r.queue /\ n.deferred = r.deferred
        /\ n.plan = r.plan /\ n.index = r.index /\ n.rounds = r.rounds
        /\ n.attempted = r.attempted /\ n.failures = r.failures
    BY <1>1, <2>1 DEF WorkerRecord
  <2>3. Remembers(n)
    BY <1>1, <2>2 DEF Remembers
  <2>4. QED
    BY <1>1, <1>3, <2>2, <2>3 DEF n
<1>4. CASE r.status # "succeeded"
  <2> DEFINE x == [r EXCEPT !.attempted = @ \cup {k}, !.failures = @ \cup {k}]
  <2>1. n = x
    BY <1>2, <1>4 DEF Recorded
  <2> HIDE DEF n
  <2>2. /\ n \in WorkerRecord
        /\ n.session = r.session /\ n.revision = r.revision
        /\ n.queue = r.queue /\ n.deferred = r.deferred
        /\ n.plan = r.plan /\ n.index = r.index /\ n.rounds = r.rounds
        /\ n.attempted = r.attempted \cup {k} /\ n.failures = r.failures \cup {k}
    BY <1>1, <1>2, <2>1 DEF WorkerRecord
  <2>3. Remembers(n)
    BY <1>1, <2>2 DEF Remembers
  <2>4. QED
    BY <1>1, <1>2, <2>2, <2>3 DEF n
<1>5. QED
  BY <1>3, <1>4

\* There is a round, and a segment after every segment but the last.
LEMMA SomeRounds == 0 < MaxRounds /\ 0 \in Nat /\ \A n \in Nat : n + 1 \in Nat
BY BackfillAssumption

LEMMA NextSpanFits ==
  ASSUME NEW m, Remembers(m), m.session # 0, m.index <= Len(m.plan)
  PROVE  LET q == [m EXCEPT !.index = @ + 1]
         IN  /\ Remembers(q) /\ q.index = m.index + 1
             /\ q.session = m.session /\ q.revision = m.revision
             /\ q.plan = m.plan /\ q.failures = m.failures
<1>1. m \in WorkerRecord /\ m.index \in Nat /\ m.plan \in Seq(Planned)
  BY DEF Remembers, WorkerRecord
<1>2. PICK k \in Nat : k = Len(m.plan)
  BY <1>1, LenProperties
<1>3. PICK i \in Nat : i = m.index + 1 /\ i \in 1..(k + 1)
  <2>1. m.index \in 1..(k + 1) /\ m.index <= k
    BY <1>2 DEF Remembers
  <2>2. QED
    BY <1>1, <2>1
<1> DEFINE q == [m EXCEPT !.index = i]
<1>4. /\ q \in WorkerRecord /\ q.index = i
      /\ q.session = m.session /\ q.revision = m.revision
      /\ q.queue = m.queue /\ q.deferred = m.deferred
      /\ q.plan = m.plan /\ q.rounds = m.rounds
      /\ q.attempted = m.attempted /\ q.failures = m.failures
  BY <1>1, <1>3 DEF WorkerRecord
<1> HIDE DEF q
<1>5. Remembers(q)
  BY <1>2, <1>3, <1>4 DEF Remembers
<1>6. q = [m EXCEPT !.index = @ + 1]
  BY <1>3 DEF q
<1>7. QED
  BY <1>3, <1>4, <1>5, <1>6

\* A job that is over.
LEMMA JobOverMoves ==
  ASSUME Types, NEW w \in Workers, JobOver(w), Stable(w),
         worker[w].pc \in {"succeeded?", "given up?"},
         UNCHANGED <<local, server, files, used>>
  PROVE  /\ WorkerMoved(w)
         /\ (Leaves(w) /\ settled' = settled) \/ Walks(w)
         /\ worker'[w].pc \notin Answered /\ settled' \subseteq Workers \X Sessions
<1> DEFINE r == worker[w]
           seen == Recorded(r)
<1>1. WorkerFits(r) /\ Remembers(r)
  BY DEF Types, WorkerFits
<1>2. /\ local' = local /\ used' \in UsedType /\ used'.edits = used.edits
      /\ lock' \in LockType /\ taken' \subseteq Workers /\ UNCHANGED server
      /\ settled \subseteq Workers \X Sessions
  BY DEF files, Types, UsedType, LockType
<1>3. r.pc \in {"succeeded?", "given up?"}
  OBVIOUS
<1>4. IF r.session # 0
      THEN Continue(w, [LeaveJob(seen) EXCEPT !.index = @ + 1])
      ELSE Go(w, [LeaveJob(seen) EXCEPT !.pc = "priority"]) /\ UNCHANGED settled
  BY DEF JobOver, Recorded
<1>5. Stable(w) /\ r.session = worker[w].session /\ r.revision = worker[w].revision
      /\ r.failures = worker[w].failures /\ r.pc = worker[w].pc /\ r.plan = worker[w].plan
      /\ r.index = worker[w].index /\ r.key = worker[w].key
  OBVIOUS
<1> HIDE DEF r
<1>6. /\ Remembers(seen) /\ seen.session = r.session /\ seen.revision = r.revision
      /\ seen.plan = r.plan /\ seen.index = r.index /\ r.failures \subseteq seen.failures
      /\ r.pc = "given up?" => r.key \in seen.failures
      /\ r.session # 0 => r.index <= Len(r.plan)
  BY <1>1, <1>3, RecordedTerms
<1> HIDE DEF seen
<1>7. PICK m \in WorkerRecord : m = LeaveJob(seen)
  BY <1>6, LeaveJobTerms DEF Remembers
<1>8. /\ m.rounds = 0 /\ m.session = r.session /\ m.revision = r.revision
      /\ m.queue = seen.queue /\ m.deferred = seen.deferred
      /\ m.plan = r.plan /\ m.index = r.index
      /\ m.attempted = seen.attempted /\ m.failures = seen.failures
  BY <1>6, <1>7, LeaveJobTerms DEF Remembers
<1>9. Remembers(m)
  <2>1. 0 < MaxRounds
    BY SomeRounds
  <2>2. m \in WorkerRecord
    BY <1>7
  <2>3. QED
    BY <1>6, <1>8, <2>1, <2>2 DEF Remembers
<1>10. CASE r.session # 0
  <2> DEFINE q == [m EXCEPT !.index = @ + 1]
  <2>1. Continue(w, q)
    BY <1>4, <1>7, <1>10
  <2>2. m.session # 0 /\ m.index <= Len(m.plan)
    BY <1>6, <1>8, <1>10
  <2>3. /\ Remembers(q) /\ q.index = m.index + 1
        /\ q.session = m.session /\ q.revision = m.revision
        /\ q.plan = m.plan /\ q.failures = m.failures
    BY <1>9, <2>2, NextSpanFits
  <2> HIDE DEF q
  <2>6. /\ WorkerMoved(w) /\ worker'[w].pc \notin Answered
        /\ settled' \subseteq Workers \X Sessions
    BY <1>2, <1>5, <1>6, <1>8, <1>10, <2>1, <2>3, WalkMoves
  <2>7. /\ q.session = worker[w].session /\ worker[w].session # 0
        /\ q.revision = worker[w].revision /\ worker[w].failures \subseteq q.failures
        /\ worker[w].pc \in {"succeeded?", "given up?"} /\ q.plan = worker[w].plan
        /\ q.index = worker[w].index + 1
        /\ worker[w].pc = "given up?" => worker[w].key \in q.failures
    BY <1>3, <1>5, <1>6, <1>8, <1>10, <2>3
  <2>8. Walks(w)
    BY <1>2, <1>5, <2>1, <2>3, <2>7 DEF Walks
  <2>9. QED
    BY <2>6, <2>8
<1>11. CASE r.session = 0
  <2>1. PICK pc \in Pc \ InSession : pc = "priority"
    BY DEF Pc, InSession, Checking
  <2> DEFINE x == [m EXCEPT !.pc = pc]
  <2>2. Go(w, x) /\ settled' = settled
    BY <1>4, <1>7, <1>11, <2>1
  <2>3. WorkerFits(x)
    BY <1>8, <1>9, <1>11, PcFits
  <2>4. x.session = 0 /\ x.pc = pc /\ x.failures = seen.failures
    BY <1>7, <1>8, <1>11 DEF WorkerRecord
  <2> HIDE DEF x
  <2>5. WorkerMoved(w) /\ worker'[w] = x
    BY <1>2, <1>5, <1>6, <2>2, <2>3, <2>4, Becomes
  <2>6. QED
    BY <1>2, <2>1, <2>2, <2>4, <2>5 DEF Leaves, Answered, LockSteps
<1>12. QED
  BY <1>10, <1>11

\* Another step of the same job.
LEMMA StepFits ==
  ASSUME NEW r, Remembers(r), HasJob(r), NEW x \in WorkerRecord, x.pc \in Answered,
         x.session = r.session, x.plan = r.plan, x.index = r.index, x.job = r.job,
         x.key = r.key, x.queue = r.queue, x.deferred = r.deferred,
         x.attempted = r.attempted, x.failures = r.failures, x.rounds < MaxRounds,
         x.pc \notin {"succeeded?", "failed?"}, x.pc = "given up?" => x.status = "failed"
  PROVE  WorkerFits(x)
<1>1. Remembers(x) /\ HasJob(x)
  BY DEF Remembers, HasJob, KeyOf
<1>2. QED
  BY <1>1 DEF WorkerFits, Answered, InSession, Checking

(* A worker at r, whose job has failed, goes on as x. *)
AfterFailure(r, x) ==
  \/ r.pc = "provider" /\ x = [r EXCEPT !.pc = "retry"]
  \/ /\ r.pc = "failed?" /\ r.status = "unpaid"
     /\ x = [r EXCEPT !.pc = IF r.provider THEN "provider" ELSE "retry",
                      !.provider = TRUE]
  \/ /\ r.pc = "failed?" /\ r.status = "failed"
     /\ x = IF TriesAgain(r) THEN [r EXCEPT !.pc = "retry", !.rounds = @ + 1]
            ELSE [r EXCEPT !.pc = "given up?"]

\* revalidateJobContext: the job's failure is judged, with the server's row as
\* it was.
LEMMA FailureFits ==
  ASSUME NEW r, WorkerFits(r), r.pc \in {"failed?", "provider"},
         NEW x, AfterFailure(r, x)
  PROVE  /\ WorkerFits(x) /\ x.pc \in Answered \ {"succeeded?"}
         /\ x.session = r.session /\ x.revision = r.revision
         /\ x.plan = r.plan /\ x.index = r.index /\ x.job = r.job
         /\ x.failures = r.failures
<1> USE DEF AfterFailure
<1>1. /\ Remembers(r) /\ HasJob(r) /\ r \in WorkerRecord
  BY DEF WorkerFits, Remembers, InSession, Checking
<1>2. r.rounds \in Nat /\ r.rounds < MaxRounds
  BY <1>1 DEF WorkerRecord, Remembers
<1>3. {"retry", "provider", "given up?"} \subseteq Answered \ {"succeeded?", "failed?"}
      /\ {"retry", "provider", "given up?"} \subseteq Pc
  BY DEF Answered, InSession, Checking, Pc
<1>4. \E pc \in {"retry", "provider", "given up?"} :
        /\ pc = "given up?" => r.status = "failed"
        /\ \/ x = [r EXCEPT !.pc = pc]
           \/ x = [r EXCEPT !.pc = pc, !.provider = TRUE]
           \/ r.rounds + 1 < MaxRounds /\ x = [r EXCEPT !.pc = pc, !.rounds = @ + 1]
  <2>1. CASE r.pc = "provider" /\ x = [r EXCEPT !.pc = "retry"]
    BY <2>1
  <2>2. CASE /\ r.pc = "failed?" /\ r.status = "unpaid"
             /\ x = [r EXCEPT !.pc = IF r.provider THEN "provider" ELSE "retry",
                              !.provider = TRUE]
    <3>1. PICK pc \in {"provider", "retry"} : pc = IF r.provider THEN "provider" ELSE "retry"
      OBVIOUS
    <3>2. x = [r EXCEPT !.pc = pc, !.provider = TRUE]
      BY <2>2, <3>1
    <3>3. QED
      BY <3>1, <3>2
  <2>3. CASE r.pc = "failed?" /\ r.status = "failed" /\ TriesAgain(r)
             /\ x = [r EXCEPT !.pc = "retry", !.rounds = @ + 1]
    BY <2>3 DEF TriesAgain
  <2>4. CASE r.pc = "failed?" /\ r.status = "failed" /\ x = [r EXCEPT !.pc = "given up?"]
    BY <2>4
  <2>5. QED
    BY <2>1, <2>2, <2>3, <2>4
<1>5. PICK pc \in {"retry", "provider", "given up?"} :
        /\ pc = "given up?" => r.status = "failed"
        /\ \/ x = [r EXCEPT !.pc = pc]
           \/ x = [r EXCEPT !.pc = pc, !.provider = TRUE]
           \/ r.rounds + 1 < MaxRounds /\ x = [r EXCEPT !.pc = pc, !.rounds = @ + 1]
  BY <1>4
<1>6. pc \in Pc /\ pc \in Answered \ {"succeeded?", "failed?"}
  BY <1>3
<1>7. /\ x \in WorkerRecord /\ x.pc = pc /\ x.status = r.status
      /\ x.session = r.session /\ x.revision = r.revision
      /\ x.plan = r.plan /\ x.index = r.index /\ x.job = r.job /\ x.key = r.key
      /\ x.queue = r.queue /\ x.deferred = r.deferred
      /\ x.attempted = r.attempted /\ x.failures = r.failures
      /\ x.rounds < MaxRounds
  <2>1. CASE x = [r EXCEPT !.pc = pc]
    BY <1>1, <1>2, <1>6, <2>1 DEF WorkerRecord
  <2>2. CASE x = [r EXCEPT !.pc = pc, !.provider = TRUE]
    BY <1>1, <1>2, <1>6, <2>2 DEF WorkerRecord
  <2>3. CASE r.rounds + 1 < MaxRounds /\ x = [r EXCEPT !.pc = pc, !.rounds = @ + 1]
    <3>1. PICK n \in Nat : n = r.rounds + 1 /\ n < MaxRounds
      <4>1. r.rounds + 1 \in Nat
        BY <1>2, SomeRounds
      <4>2. QED
        BY <2>3, <4>1
    <3>2. x = [r EXCEPT !.pc = pc, !.rounds = n]
      BY <2>3, <3>1
    <3>3. QED
      BY <1>1, <1>6, <3>1, <3>2 DEF WorkerRecord
  <2>4. QED
    BY <1>5, <2>1, <2>2, <2>3
<1>8. WorkerFits(x)
  BY <1>1, <1>5, <1>6, <1>7, StepFits
<1>9. QED
  BY <1>6, <1>7, <1>8

(* A worker that is answered is so about the job it had.                   *)
KeepsOrLeaves(w) ==
  \/ Leaves(w) /\ settled' = settled /\ worker'[w].pc \notin Answered
  \/ Stays(w) /\ settled' = settled /\ worker'[w].job = worker[w].job
  \/ Walks(w) /\ worker'[w].pc \notin Answered
  \/ worker' = worker /\ settled' = settled

\* A job is given up.
LEMMA GivesUp ==
  ASSUME Types, NEW w \in Workers, Go(w, Replanned(worker[w])), settled' = settled,
         local' = local, used' \in UsedType, used'.edits = used.edits,
         lock' \in LockType, taken' \subseteq Workers
  PROVE  WorkerMoved(w) /\ KeepsOrLeaves(w) /\ settled' \subseteq Workers \X Sessions
<1> DEFINE x == Replanned(worker[w])
<1>1. Remembers(worker[w]) /\ settled \subseteq Workers \X Sessions
  BY DEF Types, WorkerFits
<1>2. /\ WorkerFits(x) /\ x.session = 0
      /\ x.failures = worker[w].failures /\ x.pc \in {"queue", "priority"}
  BY <1>1, ReplannedFits
<1>3. Go(w, x)
  OBVIOUS
<1> HIDE DEF x
<1>4. WorkerMoved(w) /\ worker'[w] = x
  BY <1>2, <1>3, Becomes
<1>5. KeepsOrLeaves(w)
  BY <1>2, <1>4 DEF KeepsOrLeaves, Leaves, Answered, InSession, Checking, LockSteps
<1>6. QED
  BY <1>1, <1>4, <1>5

\* A job is judged by an answer of the server.
LEMMA JudgedMoves ==
  ASSUME Types, NEW w \in Workers, worker[w].pc \in InSession \ {"plan"},
         NEW row \in Row, Go(w, Judged(worker[w], row)), settled' = settled,
         row.status = "succeeded" => RowAfter(worker[w].job).status = "succeeded",
         local' = local, used' \in UsedType, used'.edits = used.edits,
         lock' \in LockType, taken' \subseteq Workers
  PROVE  WorkerMoved(w) /\ KeepsOrLeaves(w) /\ settled' \subseteq Workers \X Sessions
<1> DEFINE r == worker[w]
           x == Judged(r, row)
<1>1. /\ Remembers(r) /\ HasJob(r) /\ settled \subseteq Workers \X Sessions
      /\ r = worker[w] /\ r.pc \in InSession \ {"plan"}
  BY DEF Types, WorkerFits
<1>2. Go(w, x)
  OBVIOUS
<1> HIDE DEF r
<1>3. /\ WorkerFits(x) /\ x.failures = r.failures
      /\ \/ x.session = 0 /\ x.pc \notin InSession \cup LockSteps
         \/ /\ x.pc \in Answered
            /\ x.session = r.session /\ x.revision = r.revision
            /\ x.plan = r.plan /\ x.index = r.index /\ x.job = r.job
            /\ x.pc = "succeeded?" => JobMatches(r, row) /\ row.status = "succeeded"
  BY <1>1, JudgedFits
<1> HIDE DEF x
<1>4. WorkerMoved(w) /\ worker'[w] = x
  BY <1>1, <1>2, <1>3, Becomes
<1>5. CASE x.session = 0 /\ x.pc \notin InSession \cup LockSteps
  BY <1>1, <1>4, <1>5 DEF KeepsOrLeaves, Leaves, Answered
<1>6. CASE /\ x.pc \in Answered
           /\ x.session = r.session /\ x.revision = r.revision
           /\ x.plan = r.plan /\ x.index = r.index /\ x.job = r.job
           /\ x.pc = "succeeded?" => JobMatches(r, row) /\ row.status = "succeeded"
  <2>1. Stays(w) /\ worker'[w].job = worker[w].job
    BY <1>1, <1>4, <1>6 DEF Stays
  <2>2. QED
    BY <1>1, <1>4, <2>1 DEF KeepsOrLeaves
<1>7. QED
  BY <1>3, <1>5, <1>6

\* completeJob, once the context has been validated again.
LEMMA RevalidatedMoves ==
  ASSUME Types, NEW w \in Workers, Revalidated(w)
  PROVE  WorkerMoved(w) /\ KeepsOrLeaves(w) /\ settled' \subseteq Workers \X Sessions
<1> DEFINE r == worker[w]
<1>1. /\ WorkerFits(r) /\ r.pc \in Checking /\ Stable(w)
      /\ settled \subseteq Workers \X Sessions
  BY DEF Types, Revalidated
<1>2. /\ local' = local /\ used' \in UsedType /\ used'.edits = used.edits
      /\ lock' \in LockType /\ taken' \subseteq Workers
      /\ UNCHANGED <<local, server, files, used>>
  BY DEF Revalidated, files, Types, UsedType, LockType
<1>3. r.pc = "failed?" => r.status \in {"failed", "unpaid"}
  BY <1>1 DEF WorkerFits
<1>4. \/ ~ExpectedSnapshot(r) /\ Go(w, Replanned(r)) /\ settled' = settled
      \/ r.pc \in {"succeeded?", "given up?"} /\ JobOver(w)
      \/ r.pc = "provider" /\ To(w, "retry") /\ settled' = settled
      \/ /\ r.pc = "failed?" /\ r.status = "unpaid" /\ settled' = settled
         /\ Go(w, [r EXCEPT !.pc = IF r.provider THEN "provider" ELSE "retry",
                            !.provider = TRUE])
      \/ /\ r.pc = "failed?" /\ r.status = "failed" /\ settled' = settled
         /\ Go(w, IF TriesAgain(r) THEN [r EXCEPT !.pc = "retry", !.rounds = @ + 1]
                  ELSE [r EXCEPT !.pc = "given up?"])
  <2>1. CASE ~ExpectedSnapshot(r)
    BY <2>1 DEF Revalidated
  <2>2. CASE ExpectedSnapshot(r)
    <3>1. CASE r.pc \in {"succeeded?", "given up?"}
      BY <2>2, <3>1 DEF Revalidated
    <3>2. CASE r.pc = "provider"
      BY <2>2, <3>2 DEF Revalidated
    <3>3. CASE r.pc = "failed?" /\ r.status = "unpaid"
      BY <2>2, <3>3 DEF Revalidated
    <3>4. CASE r.pc = "failed?" /\ r.status = "failed"
      BY <2>2, <3>4 DEF Revalidated
    <3>5. QED
      BY <1>1, <1>3, <3>1, <3>2, <3>3, <3>4 DEF Checking
  <2>3. QED
    BY <2>1, <2>2
<1>5. CASE Go(w, Replanned(r)) /\ settled' = settled
  BY <1>2, <1>5, GivesUp
<1>6. CASE r.pc \in {"succeeded?", "given up?"} /\ JobOver(w)
  <2>1. JobOver(w) /\ Stable(w) /\ worker[w].pc \in {"succeeded?", "given up?"}
    BY <1>1, <1>6
  <2>2. UNCHANGED <<local, server, files, used>>
    BY <1>2
  <2>3. /\ WorkerMoved(w)
        /\ (Leaves(w) /\ settled' = settled) \/ Walks(w)
        /\ worker'[w].pc \notin Answered /\ settled' \subseteq Workers \X Sessions
    BY <2>1, <2>2, JobOverMoves
  <2>4. QED
    BY <2>3 DEF KeepsOrLeaves
<1>7. ASSUME NEW x, Go(w, x), settled' = settled, r.pc \in {"failed?", "provider"},
             AfterFailure(r, x)
      PROVE  WorkerMoved(w) /\ KeepsOrLeaves(w) /\ settled' \subseteq Workers \X Sessions
  <2>1. /\ WorkerFits(x) /\ x.pc \in Answered /\ x.pc # "succeeded?"
        /\ x.session = r.session /\ x.revision = r.revision
        /\ x.plan = r.plan /\ x.index = r.index /\ x.job = r.job
        /\ x.failures = r.failures
    BY <1>1, <1>7, FailureFits
  <2>2. worker[w].pc \in InSession \ {"plan"}
    BY <1>1 DEF InSession, Checking
  <2>3. WorkerMoved(w) /\ worker'[w] = x
    BY <1>2, <1>7, <2>1, Becomes
  <2>4. Stays(w) /\ worker'[w].job = worker[w].job
    BY <2>1, <2>2, <2>3 DEF Stays
  <2>5. QED
    BY <1>1, <1>7, <2>3, <2>4 DEF KeepsOrLeaves
<1>8. CASE r.pc = "provider" /\ To(w, "retry") /\ settled' = settled
  <2>1. Go(w, [r EXCEPT !.pc = "retry"])
    BY <1>8 DEF To
  <2>2. QED
    BY <1>7, <1>8, <2>1 DEF AfterFailure
<1>9. CASE /\ r.pc = "failed?" /\ r.status = "unpaid" /\ settled' = settled
           /\ Go(w, [r EXCEPT !.pc = IF r.provider THEN "provider" ELSE "retry",
                              !.provider = TRUE])
  BY <1>7, <1>9 DEF AfterFailure
<1>10. CASE /\ r.pc = "failed?" /\ r.status = "failed" /\ settled' = settled
            /\ Go(w, IF TriesAgain(r) THEN [r EXCEPT !.pc = "retry", !.rounds = @ + 1]
                     ELSE [r EXCEPT !.pc = "given up?"])
  BY <1>7, <1>10 DEF AfterFailure
<1>11. QED
  BY <1>4, <1>5, <1>6, <1>8, <1>9, <1>10

\* A worker waits for another answer about its job.
LEMMA WaitMoves ==
  ASSUME Types, NEW w \in Workers, worker[w].pc \in InSession \ {"plan"},
         NEW pc \in {"conflict", "ambiguous"}, To(w, pc), settled' = settled,
         local' = local, used' \in UsedType, used'.edits = used.edits,
         lock' \in LockType, taken' \subseteq Workers
  PROVE  WorkerMoved(w) /\ KeepsOrLeaves(w) /\ settled' \subseteq Workers \X Sessions
<1> DEFINE r == worker[w]
           x == [r EXCEPT !.pc = pc]
<1>1. /\ Remembers(r) /\ HasJob(r) /\ r \in WorkerRecord
      /\ settled \subseteq Workers \X Sessions
  BY DEF Types, WorkerFits, Remembers
<1>2. pc \in Answered /\ pc \in Pc /\ pc \notin {"succeeded?", "failed?", "given up?"}
  BY DEF Answered, InSession, Checking, Pc
<1>3. /\ x \in WorkerRecord /\ x.pc = pc /\ x.status = r.status
      /\ x.session = r.session /\ x.revision = r.revision
      /\ x.plan = r.plan /\ x.index = r.index /\ x.job = r.job /\ x.key = r.key
      /\ x.queue = r.queue /\ x.deferred = r.deferred
      /\ x.attempted = r.attempted /\ x.failures = r.failures
      /\ x.rounds = r.rounds
  BY <1>1, <1>2 DEF WorkerRecord
<1>4. Go(w, x)
  BY DEF To
<1> HIDE DEF x
<1>5. r.rounds < MaxRounds
  BY <1>1 DEF Remembers
<1>6. WorkerFits(x)
  BY <1>1, <1>2, <1>3, <1>5, StepFits
<1>7. WorkerMoved(w) /\ worker'[w] = x
  BY <1>3, <1>4, <1>6, Becomes
<1>8. Stays(w) /\ worker'[w].job = worker[w].job
  BY <1>2, <1>3, <1>7 DEF Stays
<1>9. QED
  BY <1>1, <1>7, <1>8 DEF KeepsOrLeaves

\* An answered job has a row.
LEMMA JobRow ==
  ASSUME TypeInv, NEW w \in Workers, worker[w].pc \in Answered
  PROVE  worker[w].job \in Job /\ RowOf(worker[w].job) \in Row
<1>1. HasJob(worker[w]) /\ worker[w] \in WorkerRecord
  BY DEF TypeInv, Types, WorkerFits, Remembers, Answered
<1>2. PICK key \in Snapshot : /\ key = worker[w].key
                              /\ worker[w].job = <<key[1], key[2], key[3].end>>
  BY <1>1 DEF HasJob, WorkerRecord
<1>3. PICK s \in Sessions, n \in Spans, c \in Content : key = <<s, n, c>>
  BY <1>2 DEF Snapshot
<1>4. c.end \in Ends
  BY DEF Content
<1>5. worker[w].job = <<s, n, c.end>>
  BY <1>2, <1>3
<1>6. RowOf(worker[w].job) = rows[s][n][c.end] /\ worker[w].job \in Job
  BY <1>4, <1>5 DEF RowOf, Job
<1>7. rows[s][n][c.end] \in Row \cup {None}
  BY <1>4, CellTypes DEF TypeInv
<1>8. RowOf(worker[w].job) # None
  BY DEF TypeInv, JobsExist
<1>9. QED
  BY <1>6, <1>7, <1>8

\* What was posted is on its way, or there already.
LEMMA PostArrived ==
  ASSUME Types, NEW s \in Sessions, NEW n \in Spans, NEW c \in Content,
         BackedAt(s, n), Posted(s, n, c)
  PROVE  Coming(s, n, c)' /\ rows'[s][n][c.end] \in Row
<1>1. CellPosted(s, n, c) /\ ServerTypes' /\ c.end \in Ends
  BY PostedCells DEF Content
<1>2. BackedAt(s, n)'
  BY <1>1, CellStaysBacked
<1>3. rows'[s][n][c.end] \in Row \cup {None} /\ None \notin Row /\ None \notin Content
  BY <1>1, BackfillAssumption DEF ServerTypes
<1>4. CASE target'[s][n] = c
  BY <1>2, <1>3, <1>4 DEF BackedAt, Coming
<1>5. CASE target'[s][n] # c
  <2>1. CellSettled(s, n, c)
    <3>1. ~CellWants(s, n, c)
      BY <1>5 DEF CellWants
    <3>2. ~(target[s][n] = c)
      BY <1>5 DEF Posted, AfterPost, server
    <3>3. target[s][n] = None /\ memory[s][n] = c
      <4>1. CASE target[s][n] = None /\ memory[s][n] = c
        BY <4>1
      <4>2. CASE ~(target[s][n] = None /\ memory[s][n] = c)
        <5>1. target' = [target EXCEPT ![s][n] = c]
          BY <3>2, <4>2 DEF Posted, AfterPost
        <5>2. target'[s][n] = c
          BY <5>1, CellTypes, OneCell
        <5>3. QED
          BY <1>5, <5>2
      <4>3. QED
        BY <4>1, <4>2
    <3> DEFINE v == [rows[s][n] EXCEPT ![c.end] =
                      IF @ # None /\ @.status = "running" THEN @
                      ELSE [text |-> c.text, status |-> "succeeded"]]
    <3>4. rows' = [rows EXCEPT ![s][n] = v] /\ target' = target /\ memory' = memory
      BY <3>2, <3>3 DEF Posted, AfterPost
    <3> HIDE DEF v
    <3>5. rows'[s][n] = v
      BY <3>4, CellTypes, OneCell
    <3>6. rows'[s][n] = [rows[s][n] EXCEPT ![c.end] =
            IF @ # None /\ @.status = "running" THEN @
            ELSE [text |-> c.text, status |-> "succeeded"]]
      BY <3>5 DEF v
    <3>7. QED
      BY <3>3, <3>4, <3>6 DEF CellSettled
  <2>2. rows'[s][n][c.end] # None
    <3>1. rows'[s][n][c.end] =
            IF rows[s][n][c.end] # None /\ rows[s][n][c.end].status = "running"
            THEN rows[s][n][c.end] ELSE [text |-> c.text, status |-> "succeeded"]
      BY <1>1, <2>1, CellTypes DEF CellSettled
    <3>2. [text |-> c.text, status |-> "succeeded"] \in Row
      BY DEF Content, Row, Status
    <3>3. QED
      BY <1>3, <3>1, <3>2
  <2>3. QED
    BY <1>3, <2>1, <2>2 DEF CellSettled, Coming
<1>6. QED
  BY <1>4, <1>5

\* The content of a post is the planned one.
LEMMA PostTerms ==
  ASSUME Types, NEW w \in Workers, worker[w].pc = "post"
  PROVE  LET r == worker[w]
             s == r.session
             n == r.index
             c == r.key[3]
         IN  /\ s \in Sessions /\ n \in Spans /\ c \in Content /\ n \in 1..Len(r.plan)
             /\ c = r.plan[n].content
             /\ r.job[1] = s /\ r.job[2] = n /\ r.job[3] = c.end
<1> DEFINE r == worker[w]
<1>1. /\ Remembers(r) /\ HasJob(r) /\ r.session # 0
      /\ r.plan \in Seq(Planned)
  BY DEF Types, WorkerFits, Remembers, WorkerRecord, InSession
<1>2. r.index \in 1..Len(r.plan)
  <2>1. PICK k \in Nat : k = Len(r.plan)
    BY <1>1, LenProperties
  <2>2. r.index \in 1..(k + 1) /\ r.index <= k
    BY <1>1, <2>1 DEF Remembers, HasJob
  <2>3. QED
    BY <2>1, <2>2
<1> HIDE DEF r
<1>3. /\ r.index \in Spans /\ r.session \in Sessions
      /\ KeyOf(r, r.index) = <<r.session, r.index, r.plan[r.index].content>>
      /\ r.plan[r.index].content \in Content
  BY <1>1, <1>2, KeyTerms
<1>4. r.key = KeyOf(r, r.index) /\ r.job = <<r.key[1], r.key[2], r.key[3].end>>
  BY <1>1 DEF HasJob
<1>5. r.key[1] = r.session /\ r.key[2] = r.index /\ r.key[3] = r.plan[r.index].content
  BY <1>3, <1>4
<1>6. r.job[1] = r.key[1] /\ r.job[2] = r.key[2] /\ r.job[3] = r.key[3].end
  BY <1>4
<1>7. QED
  BY <1>2, <1>3, <1>5, <1>6 DEF r

\* POST /v1/segments and its answer, which may be lost.
LEMMA PostMoves ==
  ASSUME TypeInv, NEW w \in Workers, PostArrives(w)
  PROVE  WorkerMoved(w) /\ KeepsOrLeaves(w) /\ settled' \subseteq Workers \X Sessions
<1>0. Types /\ Backed
  BY DEF TypeInv
<1> DEFINE r == worker[w]
           row == rows'[r.session][r.index][r.job[3]]
<1>1. /\ r.pc = "post" /\ Posted(r.session, r.index, r.key[3])
      /\ local' = local /\ settled' = settled /\ lock' = lock /\ taken' = taken
      /\ \/ Go(w, Judged(r, row)) /\ used' = used
         \/ used.troubles < MaxTroubles /\ Spend("troubles") /\ worker' = worker
  BY DEF PostArrives, At, files
<1>2. /\ lock' \in LockType /\ taken' \subseteq Workers /\ settled \subseteq Workers \X Sessions
      /\ used \in UsedType
  BY <1>0, <1>1 DEF Types, LockType, UsedType
<1>3. /\ r.session \in Sessions /\ r.index \in Spans /\ r.key[3] \in Content
      /\ r.job[1] = r.session /\ r.job[2] = r.index /\ r.job[3] = r.key[3].end
  BY <1>0, <1>1, PostTerms
<1>4. BackedAt(r.session, r.index)
  BY <1>0, <1>3 DEF Backed, BackedAt, RowOf
<1>5. row \in Row
  BY <1>0, <1>1, <1>3, <1>4, PostArrived
<1>6. row = RowAfter(r.job)
  BY <1>3 DEF RowAfter
<1>7. CASE Go(w, Judged(r, row)) /\ used' = used
  <2>1. worker[w].pc \in InSession \ {"plan"}
    BY <1>1 DEF InSession
  <2> HIDE DEF row
  <2>2. QED
    BY <1>0, <1>1, <1>2, <1>5, <1>6, <1>7, <2>1, JudgedMoves
<1>8. CASE used.troubles < MaxTroubles /\ Spend("troubles") /\ worker' = worker
  <2>1. used' \in UsedType /\ used'.edits = used.edits
    BY <1>0, <1>8, SpendTrouble
  <2>2. WorkerMoved(w)
    BY <1>0, <1>1, <1>2, <1>8, <2>1 DEF WorkerMoved, Types
  <2>3. KeepsOrLeaves(w)
    BY <1>1, <1>8 DEF KeepsOrLeaves
  <2>4. QED
    BY <1>1, <1>2, <2>2, <2>3
<1>9. QED
  BY <1>1, <1>7, <1>8

\* POST /v1/jobs/{id}/retry and its answer.
LEMMA RetryMoves ==
  ASSUME TypeInv, NEW w \in Workers, RetryJob(w)
  PROVE  WorkerMoved(w) /\ KeepsOrLeaves(w) /\ settled' \subseteq Workers \X Sessions
<1>0. Types
  BY DEF TypeInv
<1> DEFINE r == worker[w]
           row == [RowOf(r.job) EXCEPT !.status = "pending"]
<1>1. /\ r.pc = "retry" /\ r.pc \in Answered /\ r.pc \in InSession \ {"plan"}
      /\ local' = local /\ settled' = settled /\ lock' = lock /\ taken' = taken
  BY DEF RetryJob, At, files, Answered, InSession
<1>2. /\ lock' \in LockType /\ taken' \subseteq Workers /\ used \in UsedType
  BY <1>0, <1>1 DEF Types, LockType, UsedType
<1>3. \/ Go(w, Judged(r, row)) /\ used' = used
      \/ To(w, "conflict") /\ used' = used
      \/ used.troubles < MaxTroubles /\ Spend("troubles") /\ To(w, "ambiguous")
  BY DEF RetryJob
<1>4. row \in Row /\ row.status = "pending"
  <2>1. RowOf(r.job) \in Row
    BY <1>1, JobRow
  <2>2. QED
    BY <2>1 DEF Row, Status
<1> HIDE DEF row
<1>5. CASE Go(w, Judged(r, row)) /\ used' = used
  <2>1. row.status # "succeeded"
    BY <1>4
  <2>2. QED
    BY <1>0, <1>1, <1>2, <1>4, <1>5, <2>1, JudgedMoves
<1>6. CASE To(w, "conflict") /\ used' = used
  BY <1>0, <1>1, <1>2, <1>6, WaitMoves
<1>7. CASE used.troubles < MaxTroubles /\ Spend("troubles") /\ To(w, "ambiguous")
  <2>1. used' \in UsedType /\ used'.edits = used.edits
    BY <1>0, <1>7, SpendTrouble
  <2>2. QED
    BY <1>0, <1>1, <1>2, <1>7, <2>1, WaitMoves
<1>8. QED
  BY <1>3, <1>5, <1>6, <1>7

\* The job is read: after a retry without a clear answer, or until it is over.
LEMMA ReadMoves ==
  ASSUME TypeInv, NEW w \in Workers, ReadJobAfterRetry(w) \/ PollJob(w)
  PROVE  WorkerMoved(w) /\ KeepsOrLeaves(w) /\ settled' \subseteq Workers \X Sessions
<1>0. Types
  BY DEF TypeInv
<1> DEFINE r == worker[w]
           row == RowOf(r.job)
<1>1. /\ r.pc \in {"ambiguous", "conflict", "poll"}
      /\ local' = local /\ settled' = settled /\ used' = used /\ rows' = rows
  BY DEF ReadJobAfterRetry, PollJob, At, server
<1>2. r.pc \in Answered /\ r.pc \in InSession \ {"plan"}
  BY <1>1 DEF Answered, InSession
<1>3. used' \in UsedType /\ used'.edits = used.edits /\ settled \subseteq Workers \X Sessions
  BY <1>0, <1>1 DEF Types, UsedType
<1>4. row \in Row
  BY <1>2, JobRow
<1>5. row = RowAfter(r.job)
  BY <1>1 DEF RowAfter, RowOf
<1>6. \/ Go(w, Judged(r, row)) /\ UNCHANGED files
      \/ Go(w, Replanned(r)) /\ UNCHANGED files
      \/ EndRun(w, "aborted")
  BY DEF ReadJobAfterRetry, PollJob
<1>7. UNCHANGED files => lock' \in LockType /\ taken' \subseteq Workers
  BY <1>0 DEF files, Types, LockType
<1> HIDE DEF row
<1>8. CASE Go(w, Judged(r, row)) /\ UNCHANGED files
  BY <1>0, <1>1, <1>2, <1>3, <1>4, <1>5, <1>7, <1>8, JudgedMoves
<1>9. CASE Go(w, Replanned(r)) /\ UNCHANGED files
  BY <1>0, <1>1, <1>3, <1>7, <1>9, GivesUp
<1>10. CASE EndRun(w, "aborted")
  <2>1. Stop(w, "aborted") /\ lock' \in {lock, None} /\ taken' = taken /\ "aborted" \in Ended
    BY <1>10 DEF EndRun, AfterRelease, Ended
  <2>2. /\ WorkerMoved(w) /\ worker'[w].session = 0 /\ worker'[w].pc = "aborted"
    BY <1>0, <1>1, <1>3, <2>1, EndsRun
  <2>3. KeepsOrLeaves(w)
    BY <1>1, <2>2 DEF KeepsOrLeaves, Leaves, Answered, InSession, Checking, LockSteps
  <2>4. QED
    BY <1>1, <1>3, <2>2, <2>3
<1>11. QED
  BY <1>6, <1>8, <1>9, <1>10

-----------------------------------------------------------------------------
(* Type correctness.                                                       *)

WorkerStep(w) == Working(w) \/ RequestFails(w) \/ Kill(w)

(* Every segment's cell moves by itself, or something is posted.           *)
ServerMoved ==
  /\ ServerTypes'
  /\ \A s \in Sessions, n \in Spans :
       CellMoves(s, n) \/ \E c \in Content : CellPosted(s, n, c)

\* A step that leaves the server alone.
LEMMA ServerRests ==
  ASSUME Types, UNCHANGED server
  PROVE  ServerTypes' /\ \A s \in Sessions, n \in Spans : CellMoves(s, n)
<1>1. rows' = rows /\ target' = target /\ memory' = memory
  BY DEF server
<1>2. \A s \in Sessions, n \in Spans : CellSame(s, n)
  BY <1>1 DEF CellSame
<1>3. ServerTypes'
  BY <1>1 DEF ServerTypes, Types
<1>4. QED
  BY <1>2, <1>3 DEF CellMoves

\* What a worker's step does to the server.
LEMMA WorkerServer ==
  ASSUME Types, NEW w \in Workers, WorkerStep(w)
  PROVE  \/ ServerTypes' /\ \A s \in Sessions, n \in Spans : CellMoves(s, n)
         \/ PostArrives(w)
<1>1. CASE UNCHANGED server
  BY <1>1, ServerRests
<1>2. CASE RetryJob(w)
  <2>1. \/ UNCHANGED rows
        \/ Retriable(worker[w].job) /\ SetStatus(worker[w].job, "pending")
    BY <1>2 DEF RetryJob
  <2>2. target' = target /\ memory' = memory
    BY <1>2 DEF RetryJob
  <2>3. CASE UNCHANGED rows
    BY <2>2, <2>3, ServerRests DEF server
  <2>4. CASE Retriable(worker[w].job) /\ SetStatus(worker[w].job, "pending")
    <3>1. worker[w].job \in Job
      <4>1. worker[w].pc = "retry" /\ worker[w] \in WorkerRecord /\ HasJob(worker[w])
        BY <1>2 DEF RetryJob, At, Types, WorkerFits, InSession
      <4>2. PICK key \in Snapshot : /\ key = worker[w].key
                                    /\ worker[w].job = <<key[1], key[2], key[3].end>>
        BY <4>1 DEF HasJob, WorkerRecord
      <4>3. QED
        BY <4>2 DEF Snapshot, Job, Content
    <3>2. QED
      BY <2>2, <2>4, <3>1, RepairCells
  <2>5. QED
    BY <2>1, <2>3, <2>4
<1>3. QED
  BY <1>1, <1>2
  DEF WorkerStep, Working, Locking, LookAtLock, UnlinkStaleLock, CreateLock, WriteLock,
      TakePriorityJob, TakeSession, EndRound, PlanSession, SessionChanged, Revalidated,
      ReadJobAfterRetry, PollJob, RequestFails, Kill

\* A segment of a session.
LEMMA SpanTerms ==
  ASSUME Types, NEW s \in Sessions, NEW n \in DOMAIN local[s].spans
  PROVE  /\ n \in Spans /\ n \in 1..Len(local[s].spans)
         /\ local[s].spans[n] \in Content /\ local[s].spans[n].end \in Ends
<1>1. local[s].spans \in Seq(Content) /\ Len(local[s].spans) \in 1..LastSpan
  BY DEF Types, LocalRecord
<1>2. n \in 1..Len(local[s].spans) /\ Len(local[s].spans) \in Nat
  BY <1>1, LenProperties
<1>3. local[s].spans[n] \in Content
  BY <1>1, <1>2, ElementOfSeq
<1>4. n \in Spans
  BY <1>1, <1>2, BackfillAssumption DEF Spans
<1>5. QED
  BY <1>2, <1>3, <1>4 DEF Content

\* Each segment of the server after any step.
LEMMA StepServer ==
  ASSUME Types, Next
  PROVE  ServerMoved
<1>1. SUFFICES ASSUME ~(ServerTypes' /\ \A s \in Sessions, n \in Spans : CellMoves(s, n))
               PROVE  ServerMoved
  BY DEF ServerMoved
<1>2. ASSUME NEW s \in Sessions, NEW n \in Spans, NEW c \in Content, Posted(s, n, c)
      PROVE  ServerMoved
  <2>1. CellPosted(s, n, c) /\ Elsewhere(s, n) /\ ServerTypes'
    BY <1>2, PostedCells
  <2>2. ASSUME NEW x \in Sessions, NEW y \in Spans
        PROVE  CellMoves(x, y) \/ \E d \in Content : CellPosted(x, y, d)
    BY <2>1 DEF Elsewhere, CellMoves
  <2>3. QED
    BY <2>1, <2>2 DEF ServerMoved
<1>3. ASSUME NEW w \in Workers, WorkerStep(w) PROVE ServerMoved
  <2>1. PostArrives(w)
    BY <1>1, <1>3, WorkerServer
  <2>2. worker[w].pc = "post" /\ Posted(worker[w].session, worker[w].index, worker[w].key[3])
    BY <2>1 DEF PostArrives, At
  <2>3. QED
    BY <1>2, <2>2, PostTerms
<1>4. ASSUME NEW job \in Job, Extraction(job) \/ OperatorSupersedes(job) PROVE ServerMoved
  <2>1. CASE Extraction(job)
    BY <1>1, <2>1, ExtractionCells
  <2>2. CASE OperatorSupersedes(job)
    BY <1>1, <2>2, RepairCells DEF OperatorSupersedes
  <2>3. QED
    BY <1>4, <2>1, <2>2
<1>5. ASSUME NEW s \in Sessions, Edit(s) \/ Aging(s) \/ OtherPost(s) PROVE ServerMoved
  <2>1. CASE Edit(s) \/ Aging(s)
    BY <1>1, <2>1, ServerRests DEF Edit, Aging, Rest, Expire
  <2>2. CASE OtherPost(s)
    <3>1. PICK n \in DOMAIN local[s].spans : Posted(s, n, local[s].spans[n])
      BY <2>2 DEF OtherPost
    <3>2. n \in Spans /\ local[s].spans[n] \in Content
      BY <3>1, SpanTerms
    <3>3. QED
      BY <1>2, <3>1, <3>2
  <2>3. QED
    BY <1>5, <2>1, <2>2
<1>6. QED
  BY <1>3, <1>4, <1>5 DEF Next, WorkerStep

\* What is wanted keeps a row that is not over, and no row goes away.
LEMMA RowsPersist ==
  ASSUME Types, Backed, ServerMoved
  PROVE  Backed' /\ \A job \in Job : RowOf(job) # None => RowAfter(job) # None
<1>1. ASSUME NEW s \in Sessions, NEW n \in Spans
      PROVE  /\ BackedAt(s, n)'
             /\ \A e \in Ends : rows[s][n][e] # None => rows'[s][n][e] # None
  <2>1. BackedAt(s, n)
    BY DEF Backed, BackedAt, RowOf
  <2>2. ServerTypes' /\ (CellMoves(s, n) \/ \E c \in Content : CellPosted(s, n, c))
    BY DEF ServerMoved
  <2>3. QED
    BY <2>1, <2>2, CellStaysBacked
<1>2. Backed'
  BY <1>1 DEF Backed, BackedAt, RowOf
<1>3. ASSUME NEW job \in Job, RowOf(job) # None PROVE RowAfter(job) # None
  <2>1. PICK s \in Sessions, n \in Spans, e \in Ends :
          s = job[1] /\ n = job[2] /\ e = job[3]
    BY DEF Job
  <2>2. RowOf(job) = rows[s][n][e] /\ RowAfter(job) = rows'[s][n][e]
    BY <2>1 DEF RowOf, RowAfter
  <2>3. QED
    BY <1>1, <1>3, <2>2
<1>4. QED
  BY <1>2, <1>3

(* What a step is to the worker that takes it.                             *)
WorkerShape(w) ==
  \/ Locking(w) /\ worker'[w].session = 0 /\ settled' = settled
  \/ Leaves(w) /\ settled' = settled
  \/ Begins(w) /\ settled' = settled
  \/ Stays(w) /\ settled' = settled
  \/ Walks(w)
  \/ worker' = worker /\ settled' = settled

\* Every step of a worker.
LEMMA WorkerSteps ==
  ASSUME TypeInv, NEW w \in Workers, WorkerStep(w)
  PROVE  /\ WorkerMoved(w) /\ WorkerShape(w) /\ settled' \subseteq Workers \X Sessions
         /\ worker'[w].pc \in Answered => RowAfter(worker'[w].job) # None
<1>0. /\ Types /\ Backed /\ JobsExist /\ settled \subseteq Workers \X Sessions
      /\ Answered \subseteq InSession
  BY DEF TypeInv, Types, Answered
<1>1. ServerMoved
  BY <1>0, StepServer DEF Next, WorkerStep
<1>2. \A job \in Job : RowOf(job) # None => RowAfter(job) # None
  BY <1>0, <1>1, RowsPersist
<1>3. CASE Locking(w)
  <2>1. settled' = settled
    BY <1>3 DEF Locking, LookAtLock, UnlinkStaleLock, CreateLock, WriteLock
  <2>2. WorkerMoved(w) /\ worker'[w].session = 0 /\ worker'[w].pc \notin InSession
    BY <1>0, <1>3, LockingMoves
  <2>3. QED
    BY <1>0, <1>3, <2>1, <2>2 DEF WorkerShape
<1>4. CASE RequestFails(w) \/ Kill(w) \/ EndRound(w) \/ SessionChanged(w)
  <2>1. settled' = settled
    BY <1>4 DEF RequestFails, Kill, EndRound, SessionChanged
  <2>2. WorkerMoved(w) /\ worker'[w].session = 0 /\ worker'[w].pc \notin InSession \cup LockSteps
    BY <1>0, <1>4, EndingMoves
  <2>3. QED
    BY <1>0, <2>1, <2>2 DEF WorkerShape, Leaves
<1>5. CASE TakePriorityJob(w)
  <2>1. settled' = settled /\ rows' = rows
    BY <1>5 DEF TakePriorityJob, server
  <2>2. /\ WorkerMoved(w) /\ Leaves(w)
        /\ worker'[w].pc \in Answered => RowOf(worker'[w].job) # None
    BY <1>0, <1>5, PriorityMoves
  <2>3. QED
    BY <1>0, <2>1, <2>2 DEF WorkerShape, RowAfter, RowOf
<1>6. CASE TakeSession(w)
  <2>1. settled' = settled
    BY <1>6 DEF TakeSession
  <2>2. WorkerMoved(w) /\ (Leaves(w) \/ Begins(w)) /\ worker'[w].pc \notin Answered
    BY <1>0, <1>6, SessionMoves
  <2>3. QED
    BY <1>0, <2>1, <2>2 DEF WorkerShape
<1>7. CASE PlanSession(w)
  <2>1. /\ WorkerMoved(w) /\ ((Leaves(w) /\ settled' = settled) \/ Walks(w))
        /\ worker'[w].pc \notin Answered /\ settled' \subseteq Workers \X Sessions
    BY <1>0, <1>7, PlanMoves
  <2>2. QED
    BY <2>1 DEF WorkerShape
<1>8. CASE PostArrives(w) \/ Revalidated(w) \/ RetryJob(w) \/ ReadJobAfterRetry(w) \/ PollJob(w)
  <2>1. WorkerMoved(w) /\ KeepsOrLeaves(w) /\ settled' \subseteq Workers \X Sessions
    BY <1>0, <1>8, PostMoves, RevalidatedMoves, RetryMoves, ReadMoves
  <2>2. WorkerShape(w)
    BY <2>1 DEF KeepsOrLeaves, WorkerShape
  <2>3. ASSUME worker'[w].pc \in Answered
        PROVE  RowAfter(worker'[w].job) # None
    <3>1. worker'[w].job = worker[w].job /\ (Stays(w) \/ worker' = worker)
      BY <2>1, <2>3 DEF KeepsOrLeaves
    <3>2. CASE worker[w].pc \in Answered
      <4>1. worker[w].job \in Job /\ RowOf(worker[w].job) # None
        BY <1>0, <3>2, JobRow DEF JobsExist
      <4>2. QED
        BY <1>2, <3>1, <4>1
    <3>3. CASE worker[w].pc \notin Answered
      <4>1. worker[w].pc = "post"
        <5>1. worker[w].pc \in InSession \ {"plan"}
          BY <2>3, <3>1, <3>3 DEF Stays
        <5>2. QED
          BY <3>3, <5>1 DEF Answered
      <4>2. PostArrives(w)
        BY <1>8, <4>1 DEF Revalidated, RetryJob, ReadJobAfterRetry, PollJob, At, Checking
      <4> DEFINE s == worker[w].session
                 n == worker[w].index
                 c == worker[w].key[3]
      <4>3. /\ s \in Sessions /\ n \in Spans /\ c \in Content
            /\ worker[w].job[1] = s /\ worker[w].job[2] = n /\ worker[w].job[3] = c.end
        BY <1>0, <4>1, PostTerms
      <4>4. Posted(s, n, c)
        BY <4>2 DEF PostArrives
      <4>5. BackedAt(s, n)
        BY <1>0, <4>3 DEF Backed, BackedAt, RowOf
      <4>6. RowAfter(worker[w].job) = rows'[s][n][c.end]
        BY <4>3 DEF RowAfter
      <4> HIDE DEF s, n, c
      <4>7. rows'[s][n][c.end] \in Row
        BY <1>0, <4>3, <4>4, <4>5, PostArrived
      <4>8. QED
        BY <3>1, <4>6, <4>7, BackfillAssumption
    <3>4. QED
      BY <3>2, <3>3
  <2>4. QED
    BY <2>1, <2>2, <2>3
<1>9. QED
  BY <1>3, <1>4, <1>5, <1>6, <1>7, <1>8 DEF WorkerStep, Working

\* An edited session has between one and LastSpan segments.
LEMMA EditedSpansTerms ==
  ASSUME NEW spans \in Seq(Content), Len(spans) \in 1..LastSpan,
         NEW x \in EditedSpans(spans)
  PROVE  x \in Seq(Content) /\ Len(x) \in 1..LastSpan
<1>1. LastSpan \in Nat /\ Len(spans) \in Nat
  BY BackfillAssumption, LenProperties
<1>2. ASSUME NEW c \in Content, Len(spans) < LastSpan, x = Append(spans, c)
      PROVE  x \in Seq(Content) /\ Len(x) \in 1..LastSpan
  <2>1. x \in Seq(Content) /\ Len(x) = Len(spans) + 1
    BY <1>2, AppendProperties
  <2>2. QED
    BY <1>1, <1>2, <2>1
<1>3. ASSUME NEW c \in Content, x = [spans EXCEPT ![Len(spans)] = c]
      PROVE  x \in Seq(Content) /\ Len(x) \in 1..LastSpan
  <2>1. x \in Seq(Content) /\ Len(x) = Len(spans)
    BY <1>1, <1>3, ExceptSeq
  <2>2. QED
    BY <2>1
<1>4. ASSUME Len(spans) > 1, x = SubSeq(spans, 1, Len(spans) - 1)
      PROVE  x \in Seq(Content) /\ Len(x) \in 1..LastSpan
  <2>1. PICK k \in Nat : k = Len(spans) - 1 /\ k <= Len(spans) /\ 1 <= k
    BY <1>1, <1>4
  <2>2. x \in Seq(Content) /\ Len(x) = k
    BY <1>1, <1>4, <2>1, SubSeqProperties
  <2>3. QED
    BY <1>1, <2>1, <2>2
<1>5. QED
  BY <1>2, <1>3, <1>4 DEF EditedSpans

\* An edit changes one session, and its revision with it.
LEMMA EditTerms ==
  ASSUME Types, NEW s \in Sessions, Edit(s)
  PROVE  /\ local' \in [Sessions -> LocalRecord] /\ used' \in UsedType
         /\ \A x \in Sessions : /\ Len(local'[x].spans) \in 1..LastSpan
                                /\ local'[x].revision <= used'.edits
         /\ \A x \in Sessions \ {s} : local'[x] = local[x]
         /\ local'[s].revision = local[s].revision + 1
         /\ ~local'[s].quiet \/ local'[s].gone
<1> DEFINE l == local[s]
<1>1. /\ local \in [Sessions -> LocalRecord] /\ l \in LocalRecord /\ used \in UsedType
      /\ \A x \in Sessions : /\ Len(local[x].spans) \in 1..LastSpan
                             /\ local[x].revision <= used.edits
  BY DEF Types, UsedType
<1>2. PICK v \in Nat, e \in 0..MaxEdits :
        /\ v = l.revision + 1 /\ e = used.edits + 1 /\ v <= e
        /\ \A x \in Sessions : local[x].revision <= e
  <2>1. /\ used.edits \in 0..MaxEdits /\ used.edits < MaxEdits /\ l.revision <= used.edits
        /\ MaxEdits \in Nat /\ l.revision \in Nat
    BY <1>1, BackfillAssumption DEF Edit, LocalRecord, UsedType
  <2>2. l.revision + 1 \in Nat /\ used.edits + 1 \in 0..MaxEdits
        /\ l.revision + 1 <= used.edits + 1
    BY <2>1
  <2>3. ASSUME NEW x \in Sessions PROVE local[x].revision <= used.edits + 1
    <3>1. local[x].revision \in Nat /\ local[x].revision <= used.edits
      BY <1>1 DEF LocalRecord
    <3>2. QED
      BY <2>1, <3>1
  <2>4. QED
    BY <2>2, <2>3
<1>3. used' = [used EXCEPT !.edits = e]
  BY <1>2 DEF Edit, Spend
<1>4. used' \in UsedType /\ used'.edits = e
  BY <1>1, <1>3 DEF UsedType
<1>5. \E m \in LocalRecord :
        /\ local' = [local EXCEPT ![s] = m] /\ Len(m.spans) \in 1..LastSpan
        /\ m.revision = v /\ (~m.quiet \/ m.gone)
  <2>1. l.spans \in Seq(Content) /\ Len(l.spans) \in 1..LastSpan
    BY <1>1 DEF LocalRecord
  <2>2. CASE \E spans \in EditedSpans(local[s].spans), open \in BOOLEAN :
               local' = [local EXCEPT ![s] =
                      [local[s] EXCEPT !.spans = spans, !.open = open, !.quiet = FALSE,
                                !.expired = FALSE, !.revision = @ + 1]]
    <3>1. PICK spans \in EditedSpans(l.spans), open \in BOOLEAN :
            local' = [local EXCEPT ![s] =
                   [local[s] EXCEPT !.spans = spans, !.open = open, !.quiet = FALSE,
                             !.expired = FALSE, !.revision = @ + 1]]
      BY <2>2
    <3>2. spans \in Seq(Content) /\ Len(spans) \in 1..LastSpan
      BY <2>1, <3>1, EditedSpansTerms
    <3> DEFINE m == [l EXCEPT !.spans = spans, !.open = open, !.quiet = FALSE,
                              !.expired = FALSE, !.revision = l.revision + 1]
    <3>3. m \in LocalRecord /\ m.spans = spans /\ m.revision = v /\ m.quiet = FALSE
      BY <1>1, <1>2, <3>1, <3>2 DEF LocalRecord
    <3>4. local' = [local EXCEPT ![s] = m]
      BY <3>1
    <3> HIDE DEF m
    <3>5. QED
      BY <3>2, <3>3, <3>4
  <2>3. CASE local' = [local EXCEPT ![s] = [local[s] EXCEPT !.gone = TRUE, !.revision = @ + 1]]
    <3> DEFINE m == [l EXCEPT !.gone = TRUE, !.revision = l.revision + 1]
    <3>1. m \in LocalRecord /\ m.spans = l.spans /\ m.revision = v /\ m.gone = TRUE
      BY <1>1, <1>2 DEF LocalRecord
    <3>2. local' = [local EXCEPT ![s] = m]
      BY <2>3
    <3> HIDE DEF m
    <3>3. QED
      BY <2>1, <3>1, <3>2
  <2>4. QED
    BY <2>2, <2>3 DEF Edit
<1>6. PICK m \in LocalRecord :
        /\ local' = [local EXCEPT ![s] = m] /\ Len(m.spans) \in 1..LastSpan
        /\ m.revision = v /\ (~m.quiet \/ m.gone)
  BY <1>5
<1>7. /\ local' \in [Sessions -> LocalRecord] /\ local'[s] = m
      /\ \A x \in Sessions \ {s} : local'[x] = local[x]
  BY <1>1, <1>6
<1>8. ASSUME NEW x \in Sessions
      PROVE  Len(local'[x].spans) \in 1..LastSpan /\ local'[x].revision <= used'.edits
  <2>1. CASE x = s
    BY <1>2, <1>4, <1>6, <1>7, <2>1
  <2>2. CASE x # s
    BY <1>1, <1>2, <1>4, <1>7, <2>2
  <2>3. QED
    BY <2>1, <2>2
<1>9. QED
  BY <1>2, <1>4, <1>6, <1>7, <1>8

\* Time changes neither what a session says nor its revision.
LEMMA AgingTerms ==
  ASSUME Types, NEW s \in Sessions, Aging(s)
  PROVE  /\ local' \in [Sessions -> LocalRecord]
         /\ \A x \in Sessions : /\ local'[x].spans = local[x].spans
                                /\ local'[x].revision = local[x].revision
                                /\ local'[x].gone = local[x].gone
                                /\ local[x].quiet => local'[x].quiet
         /\ \A x \in Sessions : local'[x].quiet # local[x].quiet => x = s /\ Rest(s)
         /\ used' = used /\ settled' = settled /\ worker' = worker
<1>1. local \in [Sessions -> LocalRecord] /\ local[s] \in LocalRecord
  BY DEF Types
<1>2. used' = used /\ settled' = settled /\ worker' = worker
  BY DEF Aging, Rest, Expire
<1>3. CASE Rest(s)
  <2> DEFINE m == [local[s] EXCEPT !.quiet = TRUE]
  <2>1. local' = [local EXCEPT ![s] = m]
    BY <1>1, <1>3 DEF Rest
  <2>2. /\ m \in LocalRecord /\ m.spans = local[s].spans
        /\ m.revision = local[s].revision /\ m.gone = local[s].gone /\ m.quiet
    BY <1>1 DEF LocalRecord
  <2> HIDE DEF m
  <2>3. /\ local' \in [Sessions -> LocalRecord] /\ local'[s] = m
        /\ \A x \in Sessions \ {s} : local'[x] = local[x]
    BY <1>1, <2>1, <2>2
  <2>4. QED
    BY <1>2, <1>3, <2>2, <2>3
<1>4. CASE Expire(s)
  <2> DEFINE m == [local[s] EXCEPT !.expired = TRUE]
  <2>1. local' = [local EXCEPT ![s] = m]
    BY <1>1, <1>4 DEF Expire
  <2>2. /\ m \in LocalRecord /\ m.spans = local[s].spans
        /\ m.revision = local[s].revision /\ m.gone = local[s].gone
        /\ m.quiet = local[s].quiet
    BY <1>1 DEF LocalRecord
  <2> HIDE DEF m
  <2>3. /\ local' \in [Sessions -> LocalRecord] /\ local'[s] = m
        /\ \A x \in Sessions \ {s} : local'[x] = local[x]
    BY <1>1, <2>1, <2>2
  <2>4. QED
    BY <1>2, <2>2, <2>3
<1>5. QED
  BY <1>3, <1>4 DEF Aging

\* A worker that has been started fits.
LEMMA FreshFits == WorkerFits(Fresh("start", PriorityJobs, Sessions))
<1> DEFINE r == Fresh("start", PriorityJobs, Sessions)
<1>1. /\ r.pc = "start" /\ r.session = 0 /\ r.queue = Sessions /\ r.deferred = {}
      /\ r.plan = <<>> /\ r.index = 1 /\ r.rounds = 0 /\ r.attempted = {}
  BY DEF Fresh
<1>2. <<>> \in Seq(Planned) /\ Len(<<>>) = 0
  BY EmptySeq
<1>3. "start" \in Pc /\ "start" \notin InSession
  BY DEF Pc, LockSteps, InSession, Checking
<1>4. r \in WorkerRecord
  BY <1>2, <1>3, BackfillAssumption DEF Fresh, WorkerRecord
<1>5. 0 \notin Sessions /\ 0 < MaxRounds /\ 0 <= LastSpan
  BY BackfillAssumption DEF Sessions
<1> HIDE DEF r
<1>6. Remembers(r)
  BY <1>1, <1>2, <1>4, <1>5 DEF Remembers
<1>7. WorkerFits(r)
  BY <1>1, <1>3, <1>6 DEF WorkerFits, InSession, Checking
<1>8. QED
  BY <1>7 DEF r

\* The invariant holds at first.
LEMMA TypeInit ==
  ASSUME Init
  PROVE  TypeInv
<1>1. Written \in Content
  <2>1. \E c \in Content : TRUE
    <3>1. PICK e \in Ends, x \in Texts : TRUE
      BY BackfillAssumption
    <3>2. [end |-> e, text |-> x] \in Content
      BY DEF Content
    <3>3. QED
      BY <3>2
  <2>2. QED
    BY <2>1 DEF Written
<1>2. <<Written>> \in Seq(Content) /\ Len(<<Written>>) = 1
  BY <1>1
<1> DEFINE l == [spans |-> <<Written>>, open |-> FALSE, quiet |-> TRUE,
                 expired |-> FALSE, gone |-> FALSE, revision |-> 0]
<1>3. l \in LocalRecord /\ l.spans = <<Written>> /\ l.revision = 0
  BY <1>2 DEF LocalRecord
<1>4. local = [s \in Sessions |-> l]
  BY DEF Init
<1> HIDE DEF l
<1>5. /\ local \in [Sessions -> LocalRecord] /\ \A s \in Sessions : local[s] = l
  BY <1>3, <1>4
<1>6. /\ used \in [edits : 0..MaxEdits, troubles : 0..MaxTroubles] /\ used.edits = 0
  BY BackfillAssumption DEF Init
<1>7. \A s \in Sessions : Len(local[s].spans) \in 1..LastSpan /\ local[s].revision <= used.edits
  <2>1. 1 \in 1..LastSpan /\ 0 <= 0
    BY BackfillAssumption
  <2>2. TAKE s \in Sessions
  <2>3. local[s] = l
    BY <1>5
  <2>4. Len(local[s].spans) = 1 /\ local[s].revision = 0
    BY <1>2, <1>3, <2>3
  <2>5. QED
    BY <1>6, <2>1, <2>4
<1>8. /\ rows \in [Sessions -> [Spans -> [Ends -> Row \cup {None}]]]
      /\ target \in [Sessions -> [Spans -> Content \cup {None}]]
      /\ memory \in [Sessions -> [Spans -> Content \cup {None}]]
      /\ \A s \in Sessions, n \in Spans : target[s][n] = None
  BY DEF Init
<1>9. /\ lock \in {None} \cup [by : Workers \cup {Gone}, written : BOOLEAN]
      /\ taken \subseteq Workers /\ settled \subseteq Workers \X Sessions
  <2>1. [by |-> Gone, written |-> TRUE] \in [by : Workers \cup {Gone}, written : BOOLEAN]
    OBVIOUS
  <2>2. lock \in {None, [by |-> Gone, written |-> TRUE]} /\ taken = {} /\ settled = {}
    BY DEF Init
  <2>3. QED
    BY <2>1, <2>2
<1>10. /\ \A w \in Workers : worker[w] = Fresh("start", PriorityJobs, Sessions)
       /\ worker = [w \in Workers |-> Fresh("start", PriorityJobs, Sessions)]
  BY DEF Init
<1>11. Fresh("start", PriorityJobs, Sessions) \in WorkerRecord
  BY FreshFits DEF WorkerFits, Remembers
<1>12. worker \in [Workers -> WorkerRecord] /\ \A w \in Workers : WorkerFits(worker[w])
  BY <1>10, <1>11, FreshFits
<1>13. Types
  BY <1>5, <1>6, <1>7, <1>8, <1>9, <1>12 DEF Types
<1>14. Backed
  BY <1>8 DEF Backed
<1>15. JobsExist
  <2>1. \A w \in Workers : worker[w].pc = "start"
    BY <1>10 DEF Fresh
  <2>2. QED
    BY <2>1 DEF JobsExist, Answered, InSession, Checking
<1>16. QED
  BY <1>13, <1>14, <1>15 DEF TypeInv

\* Every step keeps it.
LEMMA TypeStep ==
  ASSUME TypeInv, Next
  PROVE  TypeInv'
<1>0. Types /\ Backed /\ JobsExist
  BY DEF TypeInv
<1>1. ServerMoved
  BY <1>0, StepServer
<1>2. Backed' /\ \A job \in Job : RowOf(job) # None => RowAfter(job) # None
  BY <1>0, <1>1, RowsPersist
<1>3. ServerTypes'
  BY <1>1 DEF ServerMoved
<1>4. ASSUME NEW w \in Workers, worker'[w] = worker[w], worker'[w].pc \in Answered
      PROVE  RowAfter(worker'[w].job) # None
  <2>1. worker[w].job \in Job /\ RowOf(worker[w].job) # None
    BY <1>0, <1>4, JobRow DEF JobsExist
  <2>2. RowAfter(worker[w].job) # None
    BY <1>2, <2>1
  <2>3. QED
    BY <1>4, <2>2
<1>4a. ASSUME \A v \in Workers : worker'[v].pc \in Answered => RowAfter(worker'[v].job) # None
       PROVE  JobsExist'
  BY <1>4a DEF JobsExist, RowOf, RowAfter
<1>5. ASSUME NEW w \in Workers, WorkerStep(w)
      PROVE  TypeInv'
  <2>1. /\ WorkerMoved(w) /\ settled' \subseteq Workers \X Sessions
        /\ worker'[w].pc \in Answered => RowAfter(worker'[w].job) # None
    BY <1>5, WorkerSteps
  <2>2. Types'
    BY <1>0, <1>3, <2>1 DEF WorkerMoved, Types, ServerTypes, UsedType, LockType
  <2>3. ASSUME NEW v \in Workers, worker'[v].pc \in Answered
        PROVE  RowAfter(worker'[v].job) # None
    <3>1. CASE v = w
      BY <2>1, <2>3, <3>1
    <3>2. CASE v # w
      <4>1. worker'[v] = worker[v]
        BY <2>1, <3>2 DEF WorkerMoved
      <4>2. QED
        BY <1>4, <2>3, <4>1
    <3>3. QED
      BY <3>1, <3>2
  <2>4. QED
    BY <1>2, <1>4a, <2>2, <2>3 DEF TypeInv
<1>6. ASSUME worker' = worker, lock' = lock, taken' = taken,
             settled' \subseteq settled, local' \in [Sessions -> LocalRecord],
             used' \in UsedType,
             \A s \in Sessions : /\ Len(local'[s].spans) \in 1..LastSpan
                                 /\ local'[s].revision <= used'.edits
      PROVE  TypeInv'
  <2>1. Types'
    BY <1>0, <1>3, <1>6 DEF Types, ServerTypes, UsedType
  <2>2. \A v \in Workers : worker'[v].pc \in Answered => RowAfter(worker'[v].job) # None
    BY <1>4, <1>6
  <2>3. QED
    BY <1>2, <1>4a, <2>1, <2>2 DEF TypeInv
<1>7. ASSUME NEW s \in Sessions, Edit(s)
      PROVE  TypeInv'
  <2>1. worker' = worker /\ lock' = lock /\ taken' = taken /\ settled' \subseteq settled
    BY <1>7 DEF Edit, files
  <2>2. QED
    BY <1>0, <1>6, <1>7, <2>1, EditTerms
<1>8. ASSUME NEW s \in Sessions, Aging(s)
      PROVE  TypeInv'
  <2>1. lock' = lock /\ taken' = taken
    BY <1>8 DEF Aging, Rest, Expire, files
  <2>2. /\ worker' = worker /\ settled' \subseteq settled /\ local' \in [Sessions -> LocalRecord]
        /\ used' = used
        /\ \A x \in Sessions : /\ local'[x].spans = local[x].spans
                               /\ local'[x].revision = local[x].revision
    BY <1>0, <1>8, AgingTerms
  <2>3. used' \in UsedType /\ \A x \in Sessions : /\ Len(local'[x].spans) \in 1..LastSpan
                                                  /\ local'[x].revision <= used'.edits
    BY <1>0, <2>2 DEF Types, UsedType
  <2>4. QED
    BY <1>6, <2>1, <2>2, <2>3
<1>9. ASSUME worker' = worker, lock' = lock, taken' = taken, settled' = settled, local' = local,
             used' = used \/ (used.troubles < MaxTroubles /\ Spend("troubles"))
      PROVE  TypeInv'
  <2>1. used' \in UsedType /\ used'.edits = used.edits
    BY <1>0, <1>9, SpendTrouble DEF Types, UsedType
  <2>2. /\ local' \in [Sessions -> LocalRecord]
        /\ \A x \in Sessions : /\ Len(local'[x].spans) \in 1..LastSpan
                               /\ local'[x].revision <= used'.edits
    BY <1>0, <1>9, <2>1 DEF Types
  <2>3. QED
    BY <1>6, <1>9, <2>1, <2>2
<1>10. ASSUME NEW s \in Sessions, OtherPost(s) PROVE TypeInv'
  BY <1>9, <1>10 DEF OtherPost, files
<1>11. ASSUME NEW job \in Job, Extraction(job) \/ OperatorSupersedes(job) PROVE TypeInv'
  BY <1>9, <1>11
  DEF Extraction, StartJob, CommitJob, FailJob, RequeueJob, OperatorSupersedes, files
<1>12. QED
  BY <1>5, <1>7, <1>8, <1>10, <1>11 DEF Next, WorkerStep

\* Every state of a backfill is well-typed, remembers what it is at, and has a
\* row for every job that it waits for.
THEOREM TypesHold == Spec => []TypeInv
<1>1. Init => TypeInv
  BY TypeInit
<1>2. TypeInv /\ [Next]_vars => TypeInv'
  <2>1. SUFFICES ASSUME TypeInv, [Next]_vars PROVE TypeInv'
    OBVIOUS
  <2>2. CASE Next
    BY <2>1, <2>2, TypeStep
  <2>3. CASE UNCHANGED vars
    BY <2>1, <2>3
    DEF vars, TypeInv, Types, Backed, JobsExist, RowOf
  <2>4. QED
    BY <2>1, <2>2, <2>3
<1>3. QED
  BY <1>1, <1>2, PTL DEF Spec

\* TypeOK, as the runs check it.
THEOREM BackfillTypeCorrect == Spec => []TypeOK
<1>1. TypeInv => TypeOK
  <2>1. SUFFICES ASSUME TypeInv PROVE TypeOK
    OBVIOUS
  <2>2. Types
    BY <2>1 DEF TypeInv
  <2>3. ASSUME NEW s \in Sessions
        PROVE  /\ local[s].spans \in Seq(Content) /\ Len(local[s].spans) \in 1..LastSpan
               /\ local[s].revision \in 0..MaxEdits
               /\ {local[s].open, local[s].quiet, local[s].expired, local[s].gone}
                    \subseteq BOOLEAN
    <3>1. /\ local[s] \in LocalRecord /\ Len(local[s].spans) \in 1..LastSpan
          /\ local[s].revision <= used.edits /\ used.edits \in 0..MaxEdits
      BY <2>2 DEF Types
    <3>2. /\ local[s].spans \in Seq(Content) /\ local[s].revision \in Nat
          /\ local[s].open \in BOOLEAN /\ local[s].quiet \in BOOLEAN
          /\ local[s].expired \in BOOLEAN /\ local[s].gone \in BOOLEAN
      BY <3>1 DEF LocalRecord
    <3>3. local[s].revision \in 0..MaxEdits
      BY <3>1, <3>2, BackfillAssumption
    <3>4. QED
      BY <3>1, <3>2, <3>3
  <2>4. ASSUME NEW w \in Workers
        PROVE  LET r == worker[w] IN
               /\ r.pc \in Pc
               /\ r.queue \subseteq Sessions /\ r.deferred \subseteq Sessions
               /\ r.queue \cap r.deferred = {}
               /\ r.session \in {0} \cup (Sessions \ (r.queue \cup r.deferred))
               /\ r.plan \in Seq(Planned) /\ r.index \in 1..(Len(r.plan) + 1)
               /\ r.rounds \in 0..(MaxRounds - 1)
               /\ r.status \in Status \cup {None}
               /\ r.completed \cup r.attempted \subseteq Snapshot
               /\ r.failures \subseteq Snapshot \cup {WholeSession(s) : s \in Sessions}
    <3> DEFINE r == worker[w]
    <3>1. Remembers(r)
      BY <2>2 DEF Types, WorkerFits
    <3>2. r \in WorkerRecord
      BY <3>1 DEF Remembers
    <3> HIDE DEF r
    <3>3. r.rounds \in 0..(MaxRounds - 1)
      BY <3>1, <3>2, BackfillAssumption DEF Remembers, WorkerRecord
    <3>4. /\ r.pc \in Pc /\ r.queue \subseteq Sessions /\ r.deferred \subseteq Sessions
          /\ r.session \in {0} \cup Sessions /\ r.plan \in Seq(Planned)
          /\ r.status \in Status \cup {None}
          /\ r.completed \cup r.attempted \subseteq Snapshot
          /\ r.failures \subseteq Snapshot \cup {WholeSession(s) : s \in Sessions}
      BY <3>2 DEF WorkerRecord, Failure
    <3>5. /\ r.queue \cap r.deferred = {} /\ r.session \notin r.queue \cup r.deferred
          /\ r.index \in 1..(Len(r.plan) + 1)
      BY <3>1 DEF Remembers
    <3>6. QED
      BY <3>3, <3>4, <3>5 DEF r
  <2>5. lock = None \/ lock \in [by : Workers \cup {Gone}, written : BOOLEAN]
    BY <2>2 DEF Types
  <2>6. /\ rows \in [Sessions -> [Spans -> [Ends -> Row \cup {None}]]]
        /\ target \in [Sessions -> [Spans -> Content \cup {None}]]
        /\ memory \in [Sessions -> [Spans -> Content \cup {None}]]
        /\ taken \subseteq Workers /\ settled \subseteq Workers \X Sessions
    BY <2>2 DEF Types
  <2>7. QED
    BY <2>3, <2>4, <2>5, <2>6 DEF TypeOK
<1>2. QED
  BY <1>1, TypesHold, PTL

-----------------------------------------------------------------------------
(* A completed session is stored.                                          *)

(* The session says what it said, and rests if it did. *)
Kept(s) ==
  /\ local'[s].spans = local[s].spans /\ local'[s].revision = local[s].revision
  /\ local'[s].gone = local[s].gone /\ (local[s].quiet => local'[s].quiet)

\* A post for a session at rest has what the session says.
LEMMA PostIsTrue ==
  ASSUME StoreInv, NEW w \in Workers, worker[w].pc = "post",
         NEW s \in Sessions, s = worker[w].session, local[s].quiet, ~local[s].gone
  PROVE  worker[w].key[3] = local[s].spans[worker[w].index]
<1>1. Types /\ RevisionFits(worker[w]) /\ PlanIsTrue(worker[w])
  BY DEF StoreInv, TypeInv
<1>2. s # 0
  BY BackfillAssumption DEF Sessions
<1>3. AsFound(worker[w])
  BY <1>1, <1>2 DEF RevisionFits
<1>4. \A n \in 1..Len(worker[w].plan) : worker[w].plan[n].content = local[s].spans[n]
  BY <1>1, <1>3 DEF PlanIsTrue
<1>5. /\ worker[w].index \in 1..Len(worker[w].plan)
      /\ worker[w].key[3] = worker[w].plan[worker[w].index].content
  BY <1>1, PostTerms
<1>6. QED
  BY <1>4, <1>5

\* A segment of a session at rest: its own content is all that is posted.
LEMMA RestingCell ==
  ASSUME StoreInv, Next, NEW s \in Sessions, local[s].quiet, ~local[s].gone,
         NEW n \in Spans, NEW c \in Content, c = local[s].spans[n]
  PROVE  CellMoves(s, n) \/ CellPosted(s, n, c)
<1>0. Types
  BY DEF StoreInv, TypeInv
<1>1. ASSUME NEW x \in Sessions, NEW y \in Spans, NEW d \in Content, Posted(x, y, d),
             x = s /\ y = n => d = c
      PROVE  CellMoves(s, n) \/ CellPosted(s, n, c)
  <2>1. CellPosted(x, y, d) /\ Elsewhere(x, y)
    BY <1>0, <1>1, PostedCells
  <2>2. CASE x = s /\ y = n
    BY <1>1, <2>1, <2>2
  <2>3. CASE ~(x = s /\ y = n)
    BY <2>1, <2>3 DEF Elsewhere, CellMoves
  <2>4. QED
    BY <2>2, <2>3
<1>2. ASSUME NEW w \in Workers, WorkerStep(w) PROVE CellMoves(s, n) \/ CellPosted(s, n, c)
  <2>1. CASE PostArrives(w)
    <3> DEFINE x == worker[w].session
               y == worker[w].index
               d == worker[w].key[3]
    <3>1. worker[w].pc = "post" /\ Posted(x, y, d)
      BY <2>1 DEF PostArrives, At
    <3>2. x \in Sessions /\ y \in Spans /\ d \in Content
      BY <1>0, <3>1, PostTerms
    <3>3. x = s /\ y = n => d = c
      BY <3>1, PostIsTrue
    <3> HIDE DEF x, y, d
    <3>4. QED
      BY <1>1, <3>1, <3>2, <3>3
  <2>2. CASE ~PostArrives(w)
    BY <1>0, <1>2, <2>2, WorkerServer
  <2>3. QED
    BY <2>1, <2>2
<1>3. ASSUME NEW job \in Job, Extraction(job) \/ OperatorSupersedes(job)
      PROVE  CellMoves(s, n) \/ CellPosted(s, n, c)
  <2>1. CASE Extraction(job)
    BY <1>0, <2>1, ExtractionCells
  <2>2. CASE OperatorSupersedes(job)
    BY <1>0, <2>2, RepairCells DEF OperatorSupersedes
  <2>3. QED
    BY <1>3, <2>1, <2>2
<1>4. ASSUME NEW x \in Sessions, Edit(x) \/ Aging(x) \/ OtherPost(x)
      PROVE  CellMoves(s, n) \/ CellPosted(s, n, c)
  <2>1. CASE Edit(x) \/ Aging(x)
    BY <1>0, <2>1, ServerRests DEF Edit, Aging, Rest, Expire
  <2>2. CASE OtherPost(x)
    <3>1. PICK y \in DOMAIN local[x].spans : Posted(x, y, local[x].spans[y])
      BY <2>2 DEF OtherPost
    <3>2. y \in Spans /\ local[x].spans[y] \in Content
      BY <1>0, <3>1, SpanTerms
    <3>3. QED
      BY <1>1, <3>1, <3>2
  <2>3. QED
    BY <1>4, <2>1, <2>2
<1>5. QED
  BY <1>2, <1>3, <1>4 DEF Next, WorkerStep

\* While a session rests, what is stored of it stays, and what is on its way
\* goes on.
LEMMA StoredStays ==
  ASSUME StoreInv, Next, NEW s \in Sessions, local[s].quiet, ~local[s].gone, Kept(s),
         NEW n \in 1..Len(local[s].spans)
  PROVE  /\ Stored(s, n) => Stored(s, n)'
         /\ Underway(s, n) => Underway(s, n)'
<1>0. Types
  BY DEF StoreInv, TypeInv
<1>1. n \in DOMAIN local[s].spans
  <2>1. local[s].spans \in Seq(Content)
    BY <1>0 DEF Types, LocalRecord
  <2>2. QED
    BY <2>1, LenProperties
<1>2. PICK c \in Content : c = local[s].spans[n]
  BY <1>0, <1>1, SpanTerms
<1>3. n \in Spans
  BY <1>0, <1>1, SpanTerms
<1>4. CellMoves(s, n) \/ CellPosted(s, n, c)
  BY <1>2, <1>3, RestingCell
<1>5. /\ HasIt(s, n, c) => HasIt(s, n, c)'
      /\ Coming(s, n, c) => Coming(s, n, c)'
  BY <1>0, <1>3, <1>4, CellKeeps
<1>6. local'[s].spans[n] = c
  BY <1>2 DEF Kept
<1>7. Stored(s, n) <=> HasIt(s, n, c)
  BY <1>2 DEF Stored, HasIt
<1>8. Stored(s, n)' <=> HasIt(s, n, c)'
  BY <1>6 DEF Stored, HasIt
<1>9. Underway(s, n) <=> Coming(s, n, c)
  BY <1>2 DEF Underway, Coming, RowOf
<1>10. Underway(s, n)' <=> Coming(s, n, c)'
  BY <1>6 DEF Underway, Coming, RowOf
<1>11. QED
  BY <1>5, <1>7, <1>8, <1>9, <1>10

\* A plan that is true stays so.
LEMMA PlanStaysTrue ==
  ASSUME StoreInv, Next, NEW r, WorkerFits(r), PlanIsTrue(r), RevisionFits(r),
         r.session # 0 => Kept(r.session)
  PROVE  PlanIsTrue(r)'
<1>1. SUFFICES ASSUME AsFound(r)'
               PROVE  PlanIsTrue(r)'
  BY DEF PlanIsTrue
<1> DEFINE s == r.session
<1>2. /\ s \in Sessions /\ s # 0 /\ Kept(s) /\ r.plan \in Seq(Planned) /\ r.index \in Nat
      /\ r.index \in 1..(Len(r.plan) + 1) /\ Len(r.plan) \in Nat
  <2>1. r \in WorkerRecord /\ s # 0 /\ r.index \in 1..(Len(r.plan) + 1)
    BY <1>1 DEF AsFound, WorkerFits, Remembers
  <2>2. s \in Sessions /\ r.plan \in Seq(Planned) /\ r.index \in Nat
    BY <2>1 DEF WorkerRecord
  <2>3. Len(r.plan) \in Nat
    BY <2>2, LenProperties
  <2>4. QED
    BY <2>1, <2>2, <2>3
<1>3. AsFound(r)
  BY <1>1, <1>2 DEF AsFound, Kept
<1>4. /\ local[s].quiet /\ ~local[s].gone /\ local'[s].quiet /\ ~local'[s].gone
      /\ local'[s].spans = local[s].spans
  BY <1>2, <1>3 DEF PlanIsTrue, Kept
<1>5. ASSUME NEW n \in 1..Len(local[s].spans)
      PROVE  /\ Stored(s, n) => Stored(s, n)'
             /\ Underway(s, n) => Underway(s, n)'
  BY <1>2, <1>4, StoredStays
<1>6. ASSUME r.pc # "plan"
      PROVE  /\ Len(r.plan) = Len(local'[s].spans)
             /\ \A n \in 1..Len(r.plan) :
                  /\ r.plan[n].content = local'[s].spans[n]
                  /\ r.plan[n].status = "done" => Stored(s, n)'
             /\ \A n \in 1..(r.index - 1) :
                  Stored(s, n)' \/ <<s, n, local'[s].spans[n]>> \in r.failures
  <2>1. /\ Len(r.plan) = Len(local[s].spans)
        /\ \A n \in 1..Len(r.plan) :
             /\ r.plan[n].content = local[s].spans[n]
             /\ r.plan[n].status = "done" => Stored(s, n)
        /\ \A n \in 1..(r.index - 1) :
             Stored(s, n) \/ <<s, n, local[s].spans[n]>> \in r.failures
    BY <1>3, <1>6 DEF PlanIsTrue
  <2>2. \A n \in 1..(r.index - 1) : n \in 1..Len(r.plan)
    BY <1>2
  <2>3. QED
    BY <1>4, <1>5, <2>1, <2>2
<1>7. ASSUME r.pc \in Answered PROVE r.index \in 1..Len(local[s].spans)
  <2>1. r.index <= Len(r.plan) /\ r.pc # "plan"
    BY <1>2, <1>7 DEF WorkerFits, HasJob, Answered
  <2>2. Len(r.plan) = Len(local[s].spans)
    BY <1>3, <2>1 DEF PlanIsTrue
  <2>3. QED
    BY <1>2, <2>1, <2>2
<1>8. r.pc \in Answered => Underway(s, r.index)'
  BY <1>3, <1>5, <1>7 DEF PlanIsTrue
<1>9. r.pc = "succeeded?" => Stored(s, r.index)'
  <2>1. "succeeded?" \in Answered
    BY DEF Answered, InSession, Checking
  <2>2. QED
    BY <1>3, <1>5, <1>7, <2>1 DEF PlanIsTrue
<1>10. QED
  BY <1>4, <1>6, <1>8, <1>9 DEF PlanIsTrue

(* What a worker's next step finds of the session it has been at. *)
Found(r, s) ==
  /\ local[s].quiet /\ ~local[s].gone /\ Len(r.plan) = Len(local[s].spans)
  /\ \A n \in 1..Len(r.plan) :
       /\ r.plan[n].content = local[s].spans[n]
       /\ r.plan[n].status = "done" => Stored(s, n)

(* The loop begins with a new plan, or goes on after a segment. *)
Resumes(r, q) ==
  \/ r.pc = "plan" /\ q.plan = PlanOf(r.session) /\ q.index = 1
  \/ /\ r.pc \in {"succeeded?", "given up?"} /\ q.plan = r.plan
     /\ q.index = r.index + 1
     /\ r.pc = "given up?" => r.key \in q.failures

\* The loop leaves nothing behind that is neither stored nor recorded.
LEMMA WalkIsTrue ==
  ASSUME StoreInv, NEW w \in Workers, NEW q, Remembers(q), worker[w].session # 0, Stable(w),
         q.session = worker[w].session, q.revision = worker[w].revision,
         worker[w].failures \subseteq q.failures, Resumes(worker[w], q)
  PROVE  LET s == q.session IN
         /\ s \in Sessions /\ q.revision = local[s].revision /\ Found(q, s)
         /\ \A m \in 1..(NextIndex(q) - 1) :
              Stored(s, m) \/ <<s, m, local[s].spans[m]>> \in q.failures
<1> DEFINE r == worker[w]
           s == q.session
           k == Len(q.plan)
           n == NextIndex(q)
<1>1. /\ TypeInv /\ Types /\ PlanIsTrue(r) /\ WorkerFits(r)
      /\ r.session # 0 /\ Stable(w) /\ s = r.session /\ q.revision = r.revision
      /\ r.failures \subseteq q.failures /\ Resumes(r, q)
  BY DEF StoreInv, TypeInv, Types
<1>2. /\ q \in WorkerRecord /\ s \in Sessions /\ q.plan \in Seq(Planned) /\ q.index \in Nat
      /\ q.attempted \subseteq q.failures /\ q.index \in 1..(k + 1) /\ k \in Nat
  <2>1. q \in WorkerRecord /\ q.index \in 1..(k + 1) /\ q.attempted \subseteq q.failures
    BY DEF Remembers
  <2>2. s \in {0} \cup Sessions /\ q.plan \in Seq(Planned) /\ q.index \in Nat
    BY <2>1 DEF WorkerRecord
  <2>3. k \in Nat
    BY <2>2, LenProperties
  <2>4. QED
    BY <1>1, <2>1, <2>2, <2>3
<1>3. local[s].quiet /\ ~local[s].gone /\ r.revision = local[s].revision
  BY <1>1 DEF Stable
<1>4. AsFound(r)
  BY <1>1, <1>3 DEF AsFound
<1>5. r \in WorkerRecord /\ r.index \in Nat /\ r.plan \in Seq(Planned)
  BY <1>1 DEF WorkerFits, Remembers, WorkerRecord
<1> HIDE DEF r
<1>6. Found(q, s)
  <2>1. CASE r.pc = "plan"
    <3>1. q.plan = PlanOf(s)
      BY <1>1, <2>1 DEF Resumes
    <3>2. /\ Len(PlanOf(s)) = Len(local[s].spans)
          /\ \A m \in 1..Len(local[s].spans) :
               /\ PlanOf(s)[m].content = local[s].spans[m]
               /\ PlanOf(s)[m].status = "done" => Stored(s, m)
      BY <1>1, <1>2, PlanOfTerms
    <3>3. QED
      BY <1>3, <3>1, <3>2 DEF Found
  <2>2. CASE r.pc # "plan"
    <3>1. q.plan = r.plan
      BY <1>1, <2>2 DEF Resumes
    <3>2. QED
      BY <1>1, <1>3, <1>4, <2>2, <3>1 DEF PlanIsTrue, Found
  <2>3. QED
    BY <2>1, <2>2
<1>7. n \in q.index..(k + 1) /\ \A m \in q.index..(n - 1) : Skipped(q, m)
  BY <1>2, NextIndexTerms
<1> HIDE DEF n, k
<1>7a. \A m \in 1..(n - 1) : m \in Nat /\ 1 <= m /\ m <= k /\ m \in 1..k
  BY <1>2, <1>7
<1>7b. \A m \in 1..(n - 1) : ~(m < q.index) => m \in q.index..(n - 1)
  BY <1>2, <1>7
<1>8. ASSUME NEW m \in 1..(n - 1), m < q.index
      PROVE  Stored(s, m) \/ <<s, m, local[s].spans[m]>> \in q.failures
  <2>1. /\ r.pc \in {"succeeded?", "given up?"} /\ q.plan = r.plan /\ q.index = r.index + 1
        /\ r.pc = "given up?" => r.key \in q.failures
    <3>1. q.index # 1
      BY <1>7a, <1>8
    <3>2. QED
      BY <1>1, <3>1 DEF Resumes
  <2>2. CASE m < r.index
    <3>1. m \in 1..(r.index - 1)
      <4>1. m \in Nat /\ 1 <= m
        BY <1>7a, <1>8
      <4>2. QED
        BY <1>5, <2>2, <4>1
    <3>2. Stored(s, m) \/ <<s, m, local[s].spans[m]>> \in r.failures
      BY <1>1, <1>4, <2>1, <3>1 DEF PlanIsTrue
    <3>3. QED
      BY <1>1, <3>2
  <2>3. CASE m = r.index
    <3>1. CASE r.pc = "succeeded?"
      BY <1>1, <1>4, <2>3, <3>1 DEF PlanIsTrue
    <3>2. CASE r.pc = "given up?"
      <4>1. r.key = KeyOf(r, m) /\ m <= Len(r.plan)
        BY <1>1, <2>3, <3>2 DEF WorkerFits, HasJob, InSession, Checking
      <4>2. m \in 1..Len(r.plan)
        BY <1>7a, <1>8, <2>1 DEF k
      <4>3. r.plan[m].content = local[s].spans[m]
        BY <1>6, <2>1, <4>2 DEF Found
      <4>4. QED
        BY <1>1, <2>1, <3>2, <4>1, <4>3 DEF KeyOf
    <3>3. QED
      BY <2>1, <3>1, <3>2
  <2>4. m < r.index \/ m = r.index
    <3>1. m \in Nat /\ m < r.index + 1
      BY <1>7a, <1>8, <2>1
    <3>2. QED
      BY <1>5, <3>1
  <2>5. QED
    BY <2>2, <2>3, <2>4
<1>9. ASSUME NEW m \in 1..(n - 1), ~(m < q.index)
      PROVE  Stored(s, m) \/ <<s, m, local[s].spans[m]>> \in q.failures
  <2>1. m \in q.index..(n - 1) /\ m \in 1..k
    BY <1>7a, <1>7b, <1>9
  <2>2. q.plan[m].status = "done" \/ KeyOf(q, m) \in q.attempted
    BY <1>7, <2>1 DEF Skipped
  <2>3. /\ q.plan[m].content = local[s].spans[m]
        /\ q.plan[m].status = "done" => Stored(s, m)
    BY <1>6, <2>1 DEF Found, k
  <2>4. QED
    BY <1>2, <2>2, <2>3 DEF KeyOf
<1>10. QED
  BY <1>1, <1>2, <1>3, <1>6, <1>8, <1>9 DEF n
\* An answer to a post, or a later one about the same job.
LEMMA StaysTrue ==
  ASSUME StoreInv, TypeInv', Next, NEW w \in Workers, WorkerStep(w), Stays(w), local' = local,
         NEW x, x = worker'[w], WorkerFits(x)
  PROVE  PlanIsTrue(x)' /\ RevisionFits(x)'
<1>0. PICK r, s, n : r = worker[w] /\ s = r.session /\ n = r.index
  OBVIOUS
<1>1. /\ Types /\ Backed /\ PlanIsTrue(r) /\ RevisionFits(r) /\ WorkerFits(r) /\ Backed'
  BY <1>0 DEF StoreInv, TypeInv, Types
<1>2. /\ r.pc \in InSession \ {"plan"} /\ x.pc \in Answered
      /\ x.session = s /\ x.revision = r.revision
      /\ x.plan = r.plan /\ x.index = n /\ x.job = r.job
      /\ x.pc = "succeeded?" => RowAfter(r.job).status = "succeeded"
  BY <1>0 DEF Stays
<1>3. x.pc # "post" /\ x.pc # "plan" /\ r.pc # "plan" /\ x.pc \in InSession
  BY <1>2 DEF Answered
<1>4. RevisionFits(x)'
  BY <1>0, <1>1, <1>2, <1>3 DEF RevisionFits
<1>5. SUFFICES ASSUME AsFound(x)'
               PROVE  PlanIsTrue(x)'
  BY <1>4 DEF PlanIsTrue
<1>6. s # 0 /\ AsFound(r) /\ HasJob(r) /\ HasJob(x) /\ r \in WorkerRecord
  <2>1. s # 0 /\ AsFound(r)
    BY <1>0, <1>2, <1>5 DEF AsFound
  <2>2. HasJob(r) /\ HasJob(x)
    BY <1>1, <1>2, <1>3 DEF WorkerFits
  <2>3. r \in WorkerRecord
    BY <1>1 DEF WorkerFits, Remembers
  <2>4. QED
    BY <2>1, <2>2, <2>3
<1>7. /\ s \in Sessions /\ local[s].quiet /\ ~local[s].gone
      /\ Len(r.plan) = Len(local[s].spans)
      /\ \A m \in 1..Len(r.plan) :
           /\ r.plan[m].content = local[s].spans[m]
           /\ r.plan[m].status = "done" => Stored(s, m)
      /\ \A m \in 1..(n - 1) :
           Stored(s, m) \/ <<s, m, local[s].spans[m]>> \in r.failures
  <2>1. s \in Sessions
    BY <1>0, <1>6 DEF WorkerRecord
  <2>2. QED
    BY <1>0, <1>1, <1>3, <1>6, <2>1 DEF PlanIsTrue
<1>8. n \in 1..Len(r.plan) /\ Kept(s)
  <2>1. n <= Len(r.plan) /\ n \in 1..(Len(r.plan) + 1) /\ r.plan \in Seq(Planned)
    BY <1>0, <1>1, <1>6 DEF HasJob, WorkerFits, Remembers, WorkerRecord
  <2>2. Len(r.plan) \in Nat
    BY <2>1, LenProperties
  <2>3. QED
    BY <2>1, <2>2 DEF Kept
<1>9. PICK c \in Content : c = local[s].spans[n] /\ c = r.plan[n].content
  <2>1. r.plan[n] \in Planned /\ Len(r.plan) \in Nat
    <3>1. r.plan \in Seq(Planned)
      BY <1>6 DEF WorkerRecord
    <3>2. QED
      BY <1>8, <3>1, ElementOfSeq, LenProperties
  <2>2. QED
    BY <1>7, <1>8, <2>1 DEF Planned
<1>10. n \in Spans /\ c.end \in Ends
  <2>1. Len(r.plan) <= LastSpan /\ r.plan \in Seq(Planned)
    BY <1>1, <1>6 DEF WorkerFits, Remembers, WorkerRecord
  <2>2. Len(r.plan) \in Nat
    BY <2>1, LenProperties
  <2>3. n \in Spans
    BY <1>8, <2>1, <2>2, BackfillAssumption DEF Spans
  <2>4. QED
    BY <2>3 DEF Content
<1>11. r.key = <<s, n, c>> /\ r.job = <<s, n, c.end>>
  BY <1>0, <1>6, <1>9 DEF HasJob, KeyOf
<1>12. \A m \in 1..Len(local[s].spans) : Stored(s, m) => Stored(s, m)'
  BY <1>7, <1>8, StoredStays
<1>13. Coming(s, n, c)'
  <2>1. CASE r.pc = "post"
    <3>1. PostArrives(w)
      <4>1. ~(RequestFails(w) \/ Kill(w) \/ EndRound(w) \/ SessionChanged(w))
        BY <1>1, <1>2, <1>6, EndingMoves
      <4>2. QED
        BY <1>0, <2>1, <4>1 DEF WorkerStep, Working, Locking, LookAtLock, UnlinkStaleLock,
                          CreateLock, WriteLock, TakePriorityJob, TakeSession, PlanSession,
                          Revalidated, RetryJob, ReadJobAfterRetry, PollJob, At, Checking
    <3>2. Posted(s, n, c)
      BY <1>0, <1>11, <3>1 DEF PostArrives
    <3>3. BackedAt(s, n)
      BY <1>1, <1>7, <1>10 DEF Backed, BackedAt, RowOf
    <3>4. QED
      BY <1>1, <1>7, <1>10, <3>2, <3>3, PostArrived
  <2>2. CASE r.pc # "post"
    <3>1. Underway(s, n)
      BY <1>0, <1>1, <1>2, <1>6, <2>2 DEF PlanIsTrue, Answered
    <3>2. Coming(s, n, c)
      BY <1>9, <3>1 DEF Underway, Coming, RowOf
    <3>3. CellMoves(s, n) \/ CellPosted(s, n, c)
      BY <1>7, <1>9, <1>10, RestingCell
    <3>4. QED
      BY <1>1, <1>7, <1>10, <3>2, <3>3, CellKeeps
  <2>3. QED
    BY <2>1, <2>2
<1>14. Underway(s, n)'
  BY <1>9, <1>13 DEF Underway, Coming, RowOf
<1>15. ASSUME x.pc = "succeeded?"
       PROVE  Stored(s, n)'
  <2>1. rows'[s][n][c.end].status = "succeeded"
    BY <1>2, <1>11, <1>15 DEF RowAfter
  <2>2. target'[s][n] # None =>
          /\ rows'[s][n][target'[s][n].end] # None
          /\ rows'[s][n][target'[s][n].end].status \in Live
    BY <1>1, <1>7, <1>10 DEF Backed, RowOf
  <2>3. target'[s][n] # c
    BY <2>1, <2>2, BackfillAssumption DEF Live
  <2>4. QED
    BY <1>9, <1>13, <2>1, <2>3 DEF Coming, Stored
<1>16. r.failures \subseteq x.failures
  <2>1. WorkerMoved(w)
    BY WorkerSteps DEF StoreInv
  <2>2. QED
    BY <1>0, <2>1 DEF WorkerMoved
<1>17. QED
  BY <1>2, <1>7, <1>8, <1>12, <1>14, <1>15, <1>16 DEF PlanIsTrue
\* The loop comes to the next post, or to the end.
LEMMA WalksTrue ==
  ASSUME StoreInv, NEW w \in Workers, Walks(w), local' = local,
         NEW x, x = worker'[w], WorkerFits(x)
  PROVE  /\ PlanIsTrue(x)' /\ RevisionFits(x)'
         /\ \/ settled' = settled
            \/ \E s \in Sessions : /\ settled' = settled \cup {<<w, s>>}
                                   /\ Completed(s, x.failures)
<1>1. PICK q : /\ Remembers(q) /\ worker[w].session # 0 /\ Stable(w) /\ UNCHANGED server
               /\ q.session = worker[w].session /\ q.revision = worker[w].revision
               /\ worker[w].failures \subseteq q.failures
               /\ Continue(w, q) /\ Resumes(worker[w], q)
  BY DEF Walks, Resumes
<1>2. PICK s, n : s = q.session /\ n = NextIndex(q)
  OBVIOUS
<1>3. /\ s \in Sessions /\ q.revision = local[s].revision /\ Found(q, s)
      /\ \A m \in 1..(n - 1) : Stored(s, m) \/ <<s, m, local[s].spans[m]>> \in q.failures
  BY <1>1, <1>2, WalkIsTrue
<1>4. x = Walked(q)
  <2>1. worker' = [worker EXCEPT ![w] = Walked(q)]
    BY <1>1 DEF Continue, Go
  <2>2. worker \in [Workers -> WorkerRecord]
    BY DEF StoreInv, TypeInv, Types
  <2>3. QED
    BY <2>1, <2>2
<1>5. /\ q.failures \subseteq x.failures
      /\ \/ x.session = 0 /\ x.pc = "queue"
         \/ /\ x.pc = "post" /\ n \in 1..Len(q.plan)
            /\ x.session = s /\ x.revision = q.revision
            /\ x.plan = q.plan /\ x.index = n
  BY <1>1, <1>2, <1>4, WalkedFits
<1>6. \A m : Stored(s, m)' <=> Stored(s, m)
  BY <1>1 DEF server, Stored
<1>7. PlanIsTrue(x)' /\ RevisionFits(x)'
  <2>1. CASE x.session = 0
    BY <2>1 DEF PlanIsTrue, RevisionFits, AsFound
  <2>2. CASE x.session # 0
    <3>1. /\ x.pc = "post" /\ x.session = s /\ x.revision = local[s].revision
          /\ x.plan = q.plan /\ x.index = n
      BY <1>3, <1>5, <2>2
    <3>2. x.pc \notin Answered
      BY <3>1 DEF Answered
    <3>3. PlanIsTrue(x)'
      BY <1>3, <1>5, <1>6, <3>1, <3>2 DEF PlanIsTrue, Found
    <3>4. local[s].revision \in Nat
      BY <1>3 DEF StoreInv, TypeInv, Types, LocalRecord
    <3>5. RevisionFits(x)'
      BY <2>2, <3>1, <3>4 DEF RevisionFits, AsFound
    <3>6. QED
      BY <3>3, <3>5
  <2>3. QED
    BY <2>1, <2>2
<1>8. CASE n # Len(q.plan) + 1
  BY <1>1, <1>2, <1>7, <1>8 DEF Continue
<1>9. CASE n = Len(q.plan) + 1
  <2>1. settled' = settled \cup {<<w, s>>}
    BY <1>1, <1>2, <1>9 DEF Continue
  <2>2. PICK k \in Nat : k = Len(q.plan) /\ k = Len(local[s].spans) /\ n = k + 1
    <3>1. q.plan \in Seq(Planned)
      BY <1>1 DEF Remembers, WorkerRecord
    <3>2. QED
      BY <1>3, <1>9, <3>1, LenProperties DEF Found
  <2>3. \A m \in 1..k : m \in 1..(n - 1)
    BY <2>2
  <2>4. \A m \in 1..Len(local[s].spans) :
          Stored(s, m) \/ <<s, m, local[s].spans[m]>> \in x.failures
    BY <1>3, <1>5, <2>2, <2>3
  <2>5. Completed(s, x.failures)
    BY <1>3, <2>4 DEF Found, Completed
  <2>6. QED
    BY <1>3, <1>7, <2>1, <2>5
<1>10. QED
  BY <1>8, <1>9

\* What has been completed stays so.
LEMMA CompletedStays ==
  ASSUME StoreInv, Next, NEW s \in Sessions, Kept(s), NEW old, NEW new,
         old \subseteq new, Completed(s, old)
  PROVE  Completed(s, new)'
<1>1. /\ local[s].quiet /\ ~local[s].gone /\ local'[s].quiet /\ ~local'[s].gone
      /\ local'[s].spans = local[s].spans
  BY DEF Completed, Kept
<1>2. ASSUME NEW n \in 1..Len(local[s].spans)
      PROVE  Stored(s, n)' \/ <<s, n, local'[s].spans[n]>> \in new
  <2>1. Stored(s, n) => Stored(s, n)'
    BY <1>1, StoredStays
  <2>2. QED
    BY <1>1, <2>1 DEF Completed
<1>3. QED
  BY <1>1, <1>2 DEF Completed
\* The worker that takes a step.
LEMMA MoverTrue ==
  ASSUME StoreInv, TypeInv', Next, NEW w \in Workers, WorkerStep(w), local' = local,
         NEW x, x = worker'[w]
  PROVE  /\ PlanIsTrue(x)' /\ RevisionFits(x)'
         /\ \/ settled' = settled
            \/ \E s \in Sessions : /\ settled' = settled \cup {<<w, s>>}
                                   /\ Completed(s, x.failures)
<1>1. TypeInv /\ PlanIsTrue(worker[w]) /\ RevisionFits(worker[w])
  BY DEF StoreInv
<1>2. WorkerMoved(w) /\ WorkerShape(w)
  BY <1>1, WorkerSteps
<1>3. WorkerFits(x)
  BY <1>2 DEF WorkerMoved
<1>4. CASE worker'[w].session = 0 /\ settled' = settled
  BY <1>4 DEF PlanIsTrue, RevisionFits, AsFound
<1>5. CASE Begins(w) /\ settled' = settled
  <2>1. PICK s \in Sessions : /\ x.pc = "plan" /\ s = x.session /\ x.revision = local[s].revision
                              /\ local[s].quiet /\ ~local[s].gone
    BY <1>5 DEF Begins
  <2>2. x.pc \notin Answered /\ local[s].revision \in Nat
    BY <1>1, <2>1 DEF Answered, TypeInv, Types, LocalRecord
  <2>3. PlanIsTrue(x)'
    BY <2>1, <2>2 DEF PlanIsTrue
  <2>4. RevisionFits(x)'
    BY <2>1, <2>2 DEF RevisionFits, AsFound
  <2>5. QED
    BY <1>5, <2>3, <2>4
<1>6. CASE Stays(w) /\ settled' = settled
  BY <1>3, <1>6, StaysTrue
<1>7. CASE Walks(w)
  BY <1>3, <1>7, WalksTrue
<1>8. CASE worker' = worker /\ settled' = settled
  <2>1. x = worker[w]
    BY <1>8
  <2>2. PlanIsTrue(x) /\ RevisionFits(x)
    BY <1>1, <2>1
  <2>3. x.session # 0 => Kept(x.session)
    BY DEF Kept
  <2>4. PlanIsTrue(x)'
    BY <1>3, <2>2, <2>3, PlanStaysTrue
  <2>5. RevisionFits(x)'
    BY <2>2 DEF RevisionFits, AsFound
  <2>6. QED
    BY <1>8, <2>4, <2>5
<1>9. QED
  BY <1>2, <1>4, <1>5, <1>6, <1>7, <1>8 DEF WorkerShape, Leaves

\* Every step keeps the invariant.
LEMMA StoreStep ==
  ASSUME StoreInv, TypeInv', Next
  PROVE  StoreInv'
<1>0. /\ TypeInv /\ Types /\ worker \in [Workers -> WorkerRecord]
      /\ settled \subseteq Workers \X Sessions
      /\ \A v \in Workers : /\ WorkerFits(worker[v])
                            /\ PlanIsTrue(worker[v]) /\ RevisionFits(worker[v])
      /\ \A done \in settled : Completed(done[2], worker[done[1]].failures)
  BY DEF StoreInv, TypeInv, Types, SettledRests
<1>1. ASSUME \A v \in Workers : \A x : x = worker'[v] => PlanIsTrue(x)' /\ RevisionFits(x)',
             \A v \in Workers, s \in Sessions : <<v, s>> \in settled' =>
               \A f : f = worker'[v].failures => Completed(s, f)'
      PROVE  StoreInv'
  <2>1. \A v \in Workers : PlanIsTrue(worker[v])' /\ RevisionFits(worker[v])'
    BY <1>1 DEF PlanIsTrue, RevisionFits, AsFound
  <2>2. \A v \in Workers, s \in Sessions : <<v, s>> \in settled' =>
          Completed(s, worker[v].failures)'
    BY <1>1 DEF Completed
  <2>3. settled' \subseteq Workers \X Sessions
    BY DEF TypeInv, Types
  <2>4. SettledRests'
    <3>1. SUFFICES ASSUME NEW done \in settled'
                   PROVE  Completed(done[2], worker[done[1]].failures)'
      BY DEF SettledRests
    <3>2. PICK v \in Workers, s \in Sessions : done = <<v, s>>
      BY <2>3
    <3>3. Completed(s, worker[v].failures)'
      BY <2>2, <3>2
    <3>4. QED
      BY <3>2, <3>3
  <2>5. QED
    BY <2>1, <2>4 DEF StoreInv
<1>2. ASSUME NEW v \in Workers, NEW r, r = worker[v], r.session # 0 => Kept(r.session)
      PROVE  PlanIsTrue(r)'
  <2>1. WorkerFits(r) /\ PlanIsTrue(r) /\ RevisionFits(r)
    BY <1>0, <1>2
  <2>2. QED
    BY <1>2, <2>1, PlanStaysTrue
<1>3. ASSUME NEW v \in Workers, NEW s \in Sessions, <<v, s>> \in settled, Kept(s),
             NEW f, worker[v].failures \subseteq f
      PROVE  Completed(s, f)'
  <2>1. PICK g : g = worker[v].failures
    OBVIOUS
  <2>2. Completed(s, g)
    BY <1>0, <1>3, <2>1
  <2>3. QED
    BY <1>3, <2>1, <2>2, CompletedStays
<1>4. ASSUME NEW w \in Workers, WorkerStep(w) PROVE StoreInv'
  <2>1. WorkerMoved(w)
    BY <1>0, <1>4, WorkerSteps
  <2>2. /\ local' = local /\ worker[w].failures \subseteq worker'[w].failures
        /\ \A v \in Workers \ {w} : worker'[v] = worker[v]
    BY <2>1 DEF WorkerMoved
  <2>3. \A s : Kept(s)
    BY <2>2 DEF Kept
  <2>4. PICK y : y = worker'[w]
    OBVIOUS
  <2>5. /\ PlanIsTrue(y)' /\ RevisionFits(y)'
        /\ \/ settled' = settled
           \/ \E s \in Sessions : /\ settled' = settled \cup {<<w, s>>}
                                  /\ Completed(s, y.failures)
    BY <1>4, <2>2, <2>4, MoverTrue
  <2>6. ASSUME NEW v \in Workers, NEW x, x = worker'[v]
        PROVE  PlanIsTrue(x)' /\ RevisionFits(x)'
    <3>1. CASE v = w
      BY <2>4, <2>5, <2>6, <3>1
    <3>2. CASE v # w
      <4>1. x = worker[v] /\ RevisionFits(x)
        BY <1>0, <2>2, <2>6, <3>2
      <4>2. PlanIsTrue(x)'
        BY <1>2, <2>3, <4>1
      <4>3. RevisionFits(x)'
        BY <2>2, <4>1 DEF RevisionFits, AsFound
      <4>4. QED
        BY <4>2, <4>3
    <3>3. QED
      BY <3>1, <3>2
  <2>7. ASSUME NEW v \in Workers, NEW s \in Sessions, <<v, s>> \in settled',
               NEW f, f = worker'[v].failures
        PROVE  Completed(s, f)'
    <3>1. CASE <<v, s>> \in settled
      <4>1. worker[v].failures \subseteq f
        BY <2>2, <2>7
      <4>2. QED
        BY <1>3, <2>3, <3>1, <4>1
    <3>2. CASE <<v, s>> \notin settled
      <4>1. v = w /\ Completed(s, y.failures) /\ f = y.failures
        BY <2>4, <2>5, <2>7, <3>2
      <4>2. QED
        BY <2>3, <4>1, CompletedStays
    <3>3. QED
      BY <3>1, <3>2
  <2>8. QED
    BY <1>1, <2>6, <2>7
<1>5. ASSUME worker' = worker, settled' \subseteq settled,
             NEW e, \A s \in Sessions \ {e} : Kept(s),
             \A v \in Workers : worker[v].session = e /\ e # 0 =>
               \A r : r = worker[v] => PlanIsTrue(r)' /\ RevisionFits(r)',
             \A v \in Workers : <<v, e>> \notin settled',
             \A s \in Sessions \ {e} : local'[s].quiet = local[s].quiet
      PROVE  StoreInv'
  <2>1. ASSUME NEW v \in Workers, NEW x, x = worker'[v]
        PROVE  PlanIsTrue(x)' /\ RevisionFits(x)'
    <3>1. x = worker[v] /\ RevisionFits(x) /\ x.session \in {0} \cup Sessions
      BY <1>0, <1>5, <2>1 DEF WorkerRecord
    <3>0. CASE x.session = 0
      BY <3>0 DEF PlanIsTrue, RevisionFits, AsFound
    <3>2. CASE x.session = e /\ e # 0
      BY <1>5, <2>1, <3>1, <3>2
    <3>3. CASE x.session # e /\ x.session # 0
      <4>1. x.session # 0 => Kept(x.session) /\ local'[x.session].quiet = local[x.session].quiet
        BY <1>5, <3>1, <3>3
      <4>2. PlanIsTrue(x)'
        BY <1>2, <3>1, <4>1
      <4>3. RevisionFits(x)'
        BY <3>1, <4>1 DEF RevisionFits, AsFound, Kept
      <4>4. QED
        BY <4>2, <4>3
    <3>4. QED
      BY <3>0, <3>2, <3>3
  <2>2. ASSUME NEW v \in Workers, NEW s \in Sessions, <<v, s>> \in settled',
               NEW f, f = worker'[v].failures
        PROVE  Completed(s, f)'
    <3>1. s # e /\ <<v, s>> \in settled /\ worker[v].failures \subseteq f
      BY <1>5, <2>2
    <3>2. Kept(s)
      BY <1>5, <3>1
    <3>3. QED
      BY <1>3, <3>1, <3>2
  <2>3. QED
    BY <1>1, <2>1, <2>2
<1>6. ASSUME NEW s \in Sessions, Edit(s) PROVE StoreInv'
  <2>1. /\ \A x \in Sessions \ {s} : local'[x] = local[x]
        /\ local'[s].revision = local[s].revision + 1
        /\ ~local'[s].quiet \/ local'[s].gone
    BY <1>0, <1>6, EditTerms
  <2>2. worker' = worker /\ settled' = {done \in settled : done[2] # s}
    BY <1>6 DEF Edit
  <2>3. \A x \in Sessions \ {s} : Kept(x) /\ local'[x].quiet = local[x].quiet
    BY <2>1 DEF Kept
  <2>4. \A v \in Workers : <<v, s>> \notin settled'
    BY <2>2
  <2>5. ASSUME NEW v \in Workers, worker[v].session = s, NEW r, r = worker[v]
        PROVE  PlanIsTrue(r)' /\ RevisionFits(r)'
    <3>1. r.session = s /\ s # 0 /\ RevisionFits(r) /\ r \in WorkerRecord
      BY <1>0, <2>5, BackfillAssumption DEF Sessions
    <3>2. r.revision <= local[s].revision /\ r.revision \in Nat /\ local[s].revision \in Nat
      BY <1>0, <3>1 DEF RevisionFits, WorkerRecord, Types, LocalRecord
    <3>3. r.revision <= local'[s].revision /\ r.revision # local'[s].revision
      BY <2>1, <3>2
    <3>4. QED
      BY <2>1, <3>1, <3>3 DEF PlanIsTrue, RevisionFits, AsFound
  <2>6. settled' \subseteq settled
    BY <2>2
  <2>7. QED
    BY <1>5, <2>2, <2>3, <2>4, <2>5, <2>6
<1>7. ASSUME worker' = worker, settled' = settled,
             \A s \in Sessions : Kept(s) /\ local'[s].quiet = local[s].quiet
      PROVE  StoreInv'
  <2>1. \A v \in Workers : <<v, 0>> \notin settled'
    BY <1>0, <1>7, BackfillAssumption DEF Sessions
  <2>2. PICK e : e = 0
    OBVIOUS
  <2>3. QED
    BY <1>5, <1>7, <2>1, <2>2
<1>8. ASSUME NEW s \in Sessions, Aging(s) PROVE StoreInv'
  <2>1. /\ \A x \in Sessions : /\ Kept(x)
                               /\ local'[x].quiet # local[x].quiet => x = s /\ Rest(s)
        /\ worker' = worker /\ settled' = settled
    BY <1>0, <1>8, AgingTerms DEF Kept
  <2>2. CASE Rest(s)
    <3>1. ~local[s].quiet /\ \A v \in Workers : worker[v].pc = "post" => worker[v].session # s
      BY <2>2 DEF Rest
    <3>2. \A v \in Workers : <<v, s>> \notin settled'
      BY <1>0, <2>1, <3>1 DEF Completed
    <3>3. ASSUME NEW v \in Workers, worker[v].session = s, NEW r, r = worker[v]
          PROVE  PlanIsTrue(r)' /\ RevisionFits(r)'
      <4>1. r.session = s /\ r.pc # "post" /\ RevisionFits(r)
        BY <1>0, <3>1, <3>3
      <4>2. RevisionFits(r)'
        BY <2>1, <4>1 DEF RevisionFits, Kept
      <4>3. PlanIsTrue(r)'
        BY <1>2, <2>1, <3>3, <4>1
      <4>4. QED
        BY <4>2, <4>3
    <3>4. QED
      BY <1>5, <2>1, <3>2, <3>3
  <2>3. CASE ~Rest(s)
    BY <1>7, <2>1, <2>3
  <2>4. QED
    BY <2>2, <2>3
<1>9. ASSUME worker' = worker, settled' = settled, local' = local
      PROVE  StoreInv'
  BY <1>7, <1>9 DEF Kept
<1>10. ASSUME NEW s \in Sessions, OtherPost(s) PROVE StoreInv'
  BY <1>9, <1>10 DEF OtherPost
<1>11. ASSUME NEW job \in Job, Extraction(job) \/ OperatorSupersedes(job) PROVE StoreInv'
  BY <1>9, <1>11 DEF Extraction, StartJob, CommitJob, FailJob, RequeueJob, OperatorSupersedes
<1>12. QED
  BY <1>4, <1>6, <1>8, <1>10, <1>11 DEF Next, WorkerStep

\* A completed session that nobody has changed is stored.
LEMMA StoreInit ==
  ASSUME Init
  PROVE  StoreInv
<1>1. TypeInv
  BY TypeInit
<1>2. \A w \in Workers : worker[w].session = 0
  BY DEF Init, Fresh
<1>3. SettledRests
  BY DEF Init, SettledRests
<1>4. QED
  BY <1>1, <1>2, <1>3 DEF StoreInv, PlanIsTrue, RevisionFits, AsFound

\* The invariant behind the two theorems: what every worker remembers of the
\* session it is at is still true, for as long as the session is as the
\* worker has found it.
THEOREM PlansStayTrue == Spec => []StoreInv
<1>1. Init => StoreInv
  BY StoreInit
<1>2. StoreInv /\ TypeInv' /\ [Next]_vars => StoreInv'
  <2>1. SUFFICES ASSUME StoreInv, TypeInv', [Next]_vars PROVE StoreInv'
    OBVIOUS
  <2>2. CASE Next
    BY <2>1, <2>2, StoreStep
  <2>3. CASE UNCHANGED vars
    <3>1. local' = local /\ worker' = worker /\ settled' = settled
      BY <2>3 DEF vars
    <3>2. \A s, n : /\ Stored(s, n)' = Stored(s, n)
                    /\ Underway(s, n)' = Underway(s, n)
      BY <2>3, <3>1 DEF vars, Stored, Underway, RowOf
    <3>3. SettledRests'
      BY <2>1, <3>1, <3>2 DEF StoreInv, SettledRests, Completed
    <3>4. \A w \in Workers : RevisionFits(worker[w])'
      BY <2>1, <3>1 DEF StoreInv, RevisionFits, AsFound
    <3>5. \A w \in Workers : PlanIsTrue(worker[w])'
      BY <2>1, <3>1, <3>2 DEF StoreInv, PlanIsTrue, AsFound
    <3>6. QED
      BY <2>1, <3>3, <3>4, <3>5 DEF StoreInv
  <2>4. QED
    BY <2>1, <2>2, <2>3
<1>3. QED
  BY <1>1, <1>2, TypesHold, PTL DEF Spec

\* SettledIsStored, as the runs check it (README.md:231): a completed session
\* is stored or its failures are recorded, however posts, edits and the work
\* of the server interleave with its worker.
THEOREM CompletedIsStored == Spec => []SettledIsStored
<1>1. StoreInv => SettledIsStored
  <2>1. SUFFICES ASSUME StoreInv, NEW done \in settled, NEW n \in DOMAIN local[done[2]].spans
                 PROVE  \/ /\ memory[done[2]][n] = local[done[2]].spans[n]
                           /\ target[done[2]][n] = None
                        \/ <<done[2], n, local[done[2]].spans[n]>>
                             \in worker[done[1]].failures
    BY DEF SettledIsStored
  <2>2. Completed(done[2], worker[done[1]].failures) /\ Types
    BY <2>1 DEF StoreInv, SettledRests, TypeInv
  <2>3. done[2] \in Sessions
    BY <2>1, <2>2 DEF Types
  <2>4. n \in 1..Len(local[done[2]].spans)
    BY <2>1, <2>2, <2>3, SpanTerms
  <2>5. QED
    BY <2>2, <2>4 DEF Completed, Stored
<1>2. QED
  BY <1>1, PlansStayTrue, PTL

-----------------------------------------------------------------------------
(* A worker that works holds the lock.                                     *)

Busy(pc) == pc \notin LockSteps \cup Ended

\* A worker that is not at the lock: it goes on with the lock file as it is,
\* or ends and removes no file but its own.
LEMMA WorkKeepsLock ==
  ASSUME TypeInv, NEW w \in Workers, WorkerStep(w), ~Locking(w)
  PROVE  /\ taken' = taken /\ worker'[w].pc \notin LockSteps
         /\ Busy(worker'[w].pc) => Busy(worker[w].pc) /\ lock' = lock
         /\ lock' \in {lock, AfterRelease(w)}
<1>0. Types
  BY DEF TypeInv
<1>1. WorkerMoved(w) /\ WorkerShape(w)
  BY WorkerSteps
<1>2. Busy(worker[w].pc) \/ Kill(w)
  <2>1. Working(w) \/ RequestFails(w) => Busy(worker[w].pc)
    BY DEF Working, TakePriorityJob, TakeSession, EndRound, PlanSession, SessionChanged,
           PostArrives, Revalidated, RetryJob, ReadJobAfterRetry, PollJob, RequestFails, At,
           Busy, LockSteps, Ended, Requesting, InSession, Checking
  <2>2. QED
    BY <2>1 DEF WorkerStep
<1>3. worker'[w].pc \notin LockSteps
  <2>1. CASE Leaves(w)
    BY <2>1 DEF Leaves
  <2>2. CASE Begins(w)
    BY <2>2 DEF Begins, LockSteps
  <2>3. CASE Stays(w)
    BY <2>3 DEF Stays, Answered, InSession, Checking, LockSteps
  <2>4. CASE Walks(w)
    <3>1. PICK q : Remembers(q) /\ q.session # 0 /\ worker' = [worker EXCEPT ![w] = Walked(q)]
      BY <2>4 DEF Walks, Continue, Go
    <3>2. worker'[w] = Walked(q)
      BY <1>0, <3>1 DEF Types
    <3>3. QED
      BY <3>1, <3>2, WalkedFits DEF LockSteps
  <2>5. CASE worker' = worker
    <3>1. CASE Kill(w)
      BY <1>0, <3>1, EndingMoves
    <3>2. CASE ~Kill(w)
      <4>1. worker[w].pc \notin LockSteps
        BY <1>2, <3>2 DEF Busy
      <4>2. QED
        BY <2>5, <4>1
    <3>3. QED
      BY <3>1, <3>2
  <2>6. QED
    BY <1>1, <2>1, <2>2, <2>3, <2>4, <2>5 DEF WorkerShape
<1>4. \/ lock' = lock
      \/ \E how \in {"aborted", "completed"} : EndRun(w, how)
  BY DEF WorkerStep, Working, TakePriorityJob, TakeSession, EndRound, PlanSession,
         SessionChanged, PostArrives, Revalidated, RetryJob, ReadJobAfterRetry, PollJob,
         RequestFails, Kill, files
<1>5. ASSUME NEW how \in Ended, Stop(w, how) PROVE worker'[w].pc \in Ended
  <2> DEFINE x == [Fresh(how, {}, {}) EXCEPT !.failures = worker[w].failures]
  <2>1. x.pc = how
    BY DEF Fresh
  <2>2. worker' = [worker EXCEPT ![w] = x]
    BY <1>5 DEF Stop, Go
  <2> HIDE DEF x
  <2>3. worker'[w] = x
    BY <1>0, <2>2 DEF Types
  <2>4. QED
    BY <2>1, <2>3
<1>6. {"aborted", "completed", "killed"} \subseteq Ended
  BY DEF Ended
<1>7. taken' = taken /\ lock' \in {lock, AfterRelease(w)}
  BY <1>4 DEF WorkerStep, Working, TakePriorityJob, TakeSession, EndRound, PlanSession,
         SessionChanged, PostArrives, Revalidated, RetryJob, ReadJobAfterRetry, PollJob,
         RequestFails, Kill, EndRun, files
<1>8. CASE \E how \in {"aborted", "completed"} : EndRun(w, how)
  BY <1>3, <1>5, <1>6, <1>7, <1>8 DEF EndRun, Busy
<1>9. CASE Kill(w)
  BY <1>3, <1>5, <1>6, <1>7, <1>9 DEF Kill, Busy
<1>10. CASE lock' = lock /\ ~Kill(w)
  BY <1>2, <1>3, <1>7, <1>10
<1>11. QED
  BY <1>4, <1>8, <1>9, <1>10

File(v, written) == [by |-> v, written |-> written]

(* The lock file as worker v has left it, unless another removed it. *)
LockFits(v) == v \notin taken =>
  /\ Busy(worker[v].pc) => lock = File(v, TRUE)
  /\ worker[v].pc = "write" => lock = File(v, FALSE)

LEMMA LockInvTerms == LockInv <=> \A v \in Workers : LockFits(v)
BY DEF LockInv, LockIsHeld, LockFits, Busy, File

\* Lock files of different workers are different.
LEMMA FilesDiffer ==
  ASSUME NEW v \in Workers, NEW a \in BOOLEAN
  PROVE  /\ File(v, a) # None /\ File(v, a).by = v /\ File(v, a).written = a
         /\ \A u, b : File(u, b) = File(v, a) => u = v /\ b = a
<1>1. File(v, a) \in [by : Workers \cup {Gone}, written : BOOLEAN]
  BY DEF File
<1>2. File(v, a) # None
  BY <1>1, BackfillAssumption
<1>3. \A u, b : File(u, b).by = u /\ File(u, b).written = b
  BY DEF File
<1>4. QED
  BY <1>2, <1>3

\* Whatever a worker does, the lock file is as every worker has left it.
LEMMA LockStep ==
  ASSUME TypeInv, LockInv, Next
  PROVE  LockInv'
<1>0. Types /\ worker \in [Workers -> WorkerRecord] /\ \A v \in Workers : LockFits(v)
  BY LockInvTerms DEF TypeInv, Types
<1>1. SUFFICES ASSUME NEW v \in Workers
               PROVE  LockFits(v)'
  BY DEF LockInv, LockIsHeld, LockFits, Busy, File
<1>2. LockFits(v)
  BY <1>0
<1>3. ~Busy("start") /\ ~Busy("unlink") /\ ~Busy("create") /\ ~Busy("write")
      /\ \A how \in Ended : ~Busy(how) /\ how # "write"
  BY DEF Busy, LockSteps, Ended
<1>4. ASSUME worker' = worker, lock' = lock, taken' = taken PROVE LockFits(v)'
  BY <1>2, <1>4 DEF LockFits
<1>5. ASSUME NEW w \in Workers, WorkerStep(w), ~Locking(w) PROVE LockFits(v)'
  <2>1. /\ taken' = taken /\ worker'[w].pc \notin LockSteps
        /\ Busy(worker'[w].pc) => Busy(worker[w].pc) /\ lock' = lock
        /\ lock' \in {lock, AfterRelease(w)}
    BY <1>5, WorkKeepsLock
  <2>2. CASE v = w
    <3>1. worker'[v].pc # "write"
      BY <2>1, <2>2 DEF LockSteps
    <3>2. QED
      BY <1>2, <2>1, <2>2, <3>1 DEF LockFits
  <2>3. CASE v # w
    <3>1. worker'[v] = worker[v]
      BY <1>5, <2>3, WorkerSteps DEF WorkerMoved
    <3>2. ASSUME NEW b \in BOOLEAN, lock = File(v, b) PROVE lock' = lock
      <4>1. lock # File(w, TRUE)
        <5>1. File(v, b).by = v /\ File(w, TRUE).by = w
          BY DEF File
        <5>2. QED
          BY <2>3, <3>2, <5>1
      <4>2. QED
        BY <2>1, <4>1 DEF AfterRelease, File
    <3>3. QED
      BY <1>2, <2>1, <3>1, <3>2 DEF LockFits
  <2>4. QED
    BY <2>2, <2>3
<1>6. ASSUME NEW w \in Workers, Locking(w), v # w PROVE LockFits(v)'
  <2>1. worker'[v] = worker[v]
    BY <1>0, <1>6, LockingMoves DEF WorkerMoved
  <2>2. CASE UNCHANGED files
    BY <1>2, <2>1, <2>2 DEF files, LockFits
  <2>3. CASE UnlinkStaleLock(w)
    <3>1. taken' = IF lock # None /\ lock.by \in Workers THEN taken \cup {lock.by} ELSE taken
      BY <2>3 DEF UnlinkStaleLock
    <3>2. ASSUME v \notin taken', NEW b \in BOOLEAN PROVE lock # File(v, b)
      BY <3>1, <3>2, FilesDiffer
    <3>3. v \notin taken' => v \notin taken
      BY <3>1
    <3>4. QED
      BY <1>2, <2>1, <3>2, <3>3 DEF LockFits
  <2>4. CASE CreateLock(w)
    <3>1. taken' = taken /\ (lock = None \/ lock' = lock)
      BY <2>4 DEF CreateLock
    <3>2. lock # None => lock' = lock
      BY <3>1
    <3>3. File(v, TRUE) # None /\ File(v, FALSE) # None
      BY FilesDiffer
    <3>4. QED
      BY <1>2, <2>1, <3>1, <3>2, <3>3 DEF LockFits
  <2>5. CASE WriteLock(w)
    <3>1. taken' = taken /\ (lock' = lock \/ lock = File(w, FALSE))
      BY <2>5 DEF WriteLock, File
    <3>2. ASSUME NEW b \in BOOLEAN PROVE File(w, FALSE) # File(v, b)
      <4>1. File(v, b).by = v /\ File(w, FALSE).by = w
        BY DEF File
      <4>2. QED
        BY <1>6, <4>1
    <3>3. QED
      BY <1>2, <2>1, <3>1, <3>2 DEF LockFits
  <2>6. QED
    BY <1>6, <2>2, <2>3, <2>4, <2>5 DEF Locking, LookAtLock, files
<1>7. ASSUME Locking(v) PROVE LockFits(v)'
  <2>1. worker[v] \in WorkerRecord
    BY <1>0
  <2>2. ASSUME NEW pc, To(v, pc) PROVE worker'[v].pc = pc
    BY <1>0, <2>1, <2>2 DEF To, Go, WorkerRecord
  <2>3. ASSUME Stop(v, "refused") PROVE worker'[v].pc \in Ended
    <3> DEFINE x == [Fresh("refused", {}, {}) EXCEPT !.failures = worker[v].failures]
    <3>1. x.pc = "refused"
      BY DEF Fresh
    <3>2. worker' = [worker EXCEPT ![v] = x]
      BY <2>3 DEF Stop, Go
    <3> HIDE DEF x
    <3>3. worker'[v] = x
      BY <1>0, <3>2
    <3>4. QED
      BY <3>1, <3>3 DEF Ended
  <2>4. CASE LookAtLock(v)
    <3>1. worker'[v].pc \in {"create", "unlink"} \cup Ended
      BY <2>2, <2>3, <2>4 DEF LookAtLock
    <3>2. QED
      BY <1>3, <3>1 DEF LockFits
  <2>5. CASE UnlinkStaleLock(v)
    <3>1. worker'[v].pc \in {"create"} \cup Ended
      BY <2>2, <2>3, <2>5 DEF UnlinkStaleLock
    <3>2. QED
      BY <1>3, <3>1 DEF LockFits
  <2>6. CASE CreateLock(v)
    <3>1. \/ worker'[v].pc \in Ended
          \/ lock' = File(v, FALSE) /\ worker'[v].pc = "write"
      BY <2>2, <2>3, <2>6 DEF CreateLock, File
    <3>2. QED
      BY <1>3, <3>1 DEF LockFits
  <2>7. CASE WriteLock(v)
    <3>1. worker[v].pc = "write" /\ worker'[v].pc = "priority" /\ taken' = taken
      BY <2>2, <2>7 DEF WriteLock, At
    <3>2. lock = File(v, FALSE) => lock' = File(v, TRUE)
      BY <2>7 DEF WriteLock, File
    <3>3. QED
      BY <1>2, <3>1, <3>2 DEF LockFits
  <2>8. QED
    BY <1>7, <2>4, <2>5, <2>6, <2>7 DEF Locking
<1>8. ASSUME NEW w \in Workers, WorkerStep(w) PROVE LockFits(v)'
  BY <1>5, <1>6, <1>7, <1>8
<1>9. ASSUME NEW s \in Sessions, Edit(s) \/ Aging(s) \/ OtherPost(s) PROVE LockFits(v)'
  BY <1>4, <1>9 DEF Edit, Aging, Rest, Expire, OtherPost, files
<1>10. ASSUME NEW job \in Job, Extraction(job) \/ OperatorSupersedes(job) PROVE LockFits(v)'
  BY <1>4, <1>10
  DEF Extraction, StartJob, CommitJob, FailJob, RequeueJob, OperatorSupersedes, files
<1>11. QED
  BY <1>8, <1>9, <1>10 DEF Next, WorkerStep

(* Where OneWorkerWorks fails (acquireLock): when two workers work at the  *)
(* same time, one of them has lost its lock file to another worker.        *)
OverlapIsTakeover == \A v, w \in Workers :
  {worker[v].pc, worker[w].pc} \cap (LockSteps \cup Ended) = {} /\ v # w
    => {v, w} \cap taken # {}

\* README.md:229, "prevents concurrent workers", holds but for one case: two
\* workers work at once only if unlinkSync of a stale lock (backfill.ts:1360)
\* removed the file of one of them.
THEOREM OverlapsAreTakeovers == Spec => []OverlapIsTakeover
<1>1. Init => LockInv
  <2>1. SUFFICES ASSUME Init, NEW w \in Workers
                 PROVE  worker[w].pc = "start"
    BY DEF LockInv, LockIsHeld, LockSteps
  <2>2. QED
    BY <2>1 DEF Init, Fresh
<1>2. LockInv /\ TypeInv /\ [Next]_vars => LockInv'
  <2>1. SUFFICES ASSUME LockInv, TypeInv, [Next]_vars PROVE LockInv'
    OBVIOUS
  <2>2. CASE Next
    BY <2>1, <2>2, LockStep
  <2>3. CASE UNCHANGED vars
    BY <2>1, <2>3 DEF vars, LockInv, LockIsHeld
  <2>4. QED
    BY <2>1, <2>2, <2>3
<1>3. LockInv => OverlapIsTakeover
  <2>1. SUFFICES ASSUME LockInv, NEW v \in Workers, NEW w \in Workers,
                        {worker[v].pc, worker[w].pc} \cap (LockSteps \cup Ended) = {},
                        {v, w} \cap taken = {}
                 PROVE  v = w
    BY DEF OverlapIsTakeover
  <2>2. lock = File(v, TRUE) /\ lock = File(w, TRUE)
    BY <2>1 DEF LockInv, LockIsHeld, File
  <2>3. File(v, TRUE).by = v /\ File(w, TRUE).by = w
    BY DEF File
  <2>4. QED
    BY <2>2, <2>3
<1>4. QED
  BY <1>1, <1>2, <1>3, TypesHold, PTL DEF Spec
=============================================================================
