------------------------ MODULE LegacyServiceProofs ------------------------
(***************************************************************************)
(* Proofs about LegacyService: what holds of the three rows of a segment,  *)
(* what an attempt knows, that the worker that holds the lock works on     *)
(* every running row, and that each segment is a SegmentMemory.            *)
(***************************************************************************)
EXTENDS LegacyService, TLAPS

At(R, b, states) == R[b] # Null /\ R[b].status \in states
Agree(t, row) == t # Null /\ t.source = row.source /\ t.generation = row.generation

(* The rows R, the target t and the summary c of one segment fit together.  PostedIsQueued is the *)
(* middle part; that a row stands at the boundary of its source, and that what is wanted is newer *)
(* than what is committed, make it inductive and give the refinement its order.                   *)
Fits(R, t, c) ==
  /\ R \in [Boundaries -> Row \cup {Null}] /\ t \in Target \cup {Null} /\ c \in Segment \cup {Null}
  /\ \A b \in Boundaries : R[b] # Null => R[b].source.boundary = b
  /\ \A b \in Boundaries : t # Null /\ t.source.boundary = b =>
       \/ At(R, b, {"pending", "failed"}) /\ Agree(t, R[b])
       \/ At(R, b, {"running"})
  /\ \A b \in Boundaries : At(R, b, {"pending"}) => Agree(t, R[b])
  /\ \A b \in Boundaries : At(R, b, {"running"}) =>
       /\ t # Null
       /\ \A d \in Boundaries : At(R, d, {"running"}) => b = d
       /\ t.source.boundary # b => At(R, t.source.boundary, {"pending"})
  /\ t # Null /\ c # Null =>
       c.generation < t.generation /\ c.source.version <= t.source.version

LEMMA NullIsNothing ==
  Null \notin Servers /\ Null \notin Row /\ Null \notin Target /\ Null \notin Result
  /\ Null \notin Segment /\ Null \notin Claim /\ Null \notin Wish
  BY ServiceAssumption

LEMMA SnapshotFields ==
  ASSUME NEW q \in Submission
  PROVE  q.boundary \in Boundaries /\ q.content \in Contents /\ q.version \in Nat
  BY ServiceAssumption DEF Submission

LEMMA TargetFields ==
  ASSUME NEW t \in Target
  PROVE  t.source \in Submission /\ t.generation \in Nat /\ t.since \in Nat
  BY DEF Target

LEMMA RowFields ==
  ASSUME NEW row \in Row
  PROVE  /\ row.status \in Status /\ row.attempts \in Nat /\ row.lease \in Servers \cup {Null}
         /\ row.due \in BOOLEAN /\ row.generation \in Nat /\ row.source \in Submission
  BY DEF Row

\* What a reset to the target is.
LEMMA QueuedRow ==
  ASSUME NEW t, t.generation \in Nat, t.source \in Submission
  PROVE  /\ Queued(t) \in Row /\ Queued(t).status = "pending" /\ Queued(t).attempts = 0
         /\ Queued(t).source = t.source /\ Queued(t).generation = t.generation
  BY DEF Queued, Row, Status

LEMMA SupersededRow ==
  ASSUME NEW row \in Row
  PROVE  /\ Superseded(row) \in Row /\ Superseded(row).status = "superseded"
         /\ Superseded(row).source = row.source /\ Superseded(row).generation = row.generation
  BY DEF Superseded, Row, Status
-----------------------------------------------------------------------------
(* What the operations make of a segment. *)

\* The target's row goes back into the queue.
LEMMA Waits ==
  ASSUME NEW R, NEW t, NEW c, Fits(R, t, c), t # Null, NEW row \in Row,
         row.status = "pending", row.source = t.source, row.generation = t.generation
  PROVE  Fits([R EXCEPT ![t.source.boundary] = row], t, c)
<1> DEFINE S == [R EXCEPT ![t.source.boundary] = row]
<1>1. t \in Target BY DEF Fits
<1>2. t.source.boundary \in Boundaries BY <1>1, TargetFields, SnapshotFields
<1>3. R \in [Boundaries -> Row \cup {Null}] BY DEF Fits
<1>4. S \in [Boundaries -> Row \cup {Null}] BY <1>2, <1>3
<1>5. S[t.source.boundary] = row /\ row # Null BY <1>2, <1>3, NullIsNothing
<1>6. \A b \in Boundaries : b # t.source.boundary => S[b] = R[b] BY <1>2, <1>3
<1> HIDE DEF S
<1> QED BY <1>1, <1>2, <1>4, <1>5, <1>6 DEF Fits, At, Agree

\* A row that is not the target's ends.
LEMMA Ended ==
  ASSUME NEW R, NEW t, NEW c, Fits(R, t, c), NEW b \in Boundaries, NEW row \in Row,
         row.status \in {"succeeded", "superseded"}, row.source.boundary = b,
         t = Null \/ t.source.boundary # b
  PROVE  Fits([R EXCEPT ![b] = row], t, c)
<1> DEFINE S == [R EXCEPT ![b] = row]
<1>3. R \in [Boundaries -> Row \cup {Null}] BY DEF Fits
<1>4. S \in [Boundaries -> Row \cup {Null}] BY <1>3
<1>5. S[b] = row /\ row # Null BY <1>3, NullIsNothing
<1>6. \A d \in Boundaries : d # b => S[d] = R[d] BY <1>3
<1>7. t # Null => t.source.boundary \in Boundaries
  BY TargetFields, SnapshotFields DEF Fits
<1> HIDE DEF S
<1> QED BY <1>4, <1>5, <1>6, <1>7 DEF Fits, At, Agree

\* The target's row is claimed.
LEMMA Claimed ==
  ASSUME NEW R, NEW t, NEW c, Fits(R, t, c), t # Null, NEW row \in Row,
         \A b \in Boundaries : ~At(R, b, {"running"}),
         row.status = "running", row.source.boundary = t.source.boundary,
         At(R, t.source.boundary, {"pending"})
  PROVE  Fits([R EXCEPT ![t.source.boundary] = row], t, c)
<1> DEFINE S == [R EXCEPT ![t.source.boundary] = row]
<1>1. t \in Target BY DEF Fits
<1>2. t.source.boundary \in Boundaries BY <1>1, TargetFields, SnapshotFields
<1>3. R \in [Boundaries -> Row \cup {Null}] BY DEF Fits
<1>4. S \in [Boundaries -> Row \cup {Null}] BY <1>2, <1>3
<1>5. S[t.source.boundary] = row /\ row # Null BY <1>2, <1>3, NullIsNothing
<1>6. \A b \in Boundaries : b # t.source.boundary => S[b] = R[b] BY <1>2, <1>3
<1> HIDE DEF S
<1> QED BY <1>1, <1>2, <1>4, <1>5, <1>6 DEF Fits, At, Agree

\* The target's running row fails for good, and stays the target's.
LEMMA Failed ==
  ASSUME NEW R, NEW t, NEW c, Fits(R, t, c), t # Null, NEW row \in Row,
         At(R, t.source.boundary, {"running"}),
         row.status = "failed", row.source = t.source, row.generation = t.generation
  PROVE  Fits([R EXCEPT ![t.source.boundary] = row], t, c)
<1> DEFINE S == [R EXCEPT ![t.source.boundary] = row]
<1>1. t \in Target BY DEF Fits
<1>2. t.source.boundary \in Boundaries BY <1>1, TargetFields, SnapshotFields
<1>3. R \in [Boundaries -> Row \cup {Null}] BY DEF Fits
<1>4. S \in [Boundaries -> Row \cup {Null}] BY <1>2, <1>3
<1>5. S[t.source.boundary] = row /\ row # Null BY <1>2, <1>3, NullIsNothing
<1>6. \A b \in Boundaries : b # t.source.boundary => S[b] = R[b] BY <1>2, <1>3
<1> HIDE DEF S
<1> QED BY <1>1, <1>2, <1>4, <1>5, <1>6 DEF Fits, At, Agree

\* The target's running row ends, and nothing is wanted any more.
LEMMA Settles ==
  ASSUME NEW R, NEW t, NEW c, Fits(R, t, c), t # Null, NEW row \in Row,
         At(R, t.source.boundary, {"running"}),
         row.status \in {"failed", "succeeded"}, row.source.boundary = t.source.boundary,
         NEW m \in Segment \cup {Null}
  PROVE  Fits([R EXCEPT ![t.source.boundary] = row], Null, m)
<1> DEFINE S == [R EXCEPT ![t.source.boundary] = row]
<1>1. t \in Target BY DEF Fits
<1>2. t.source.boundary \in Boundaries BY <1>1, TargetFields, SnapshotFields
<1>3. R \in [Boundaries -> Row \cup {Null}] BY DEF Fits
<1>4. S \in [Boundaries -> Row \cup {Null}] BY <1>2, <1>3
<1>5. S[t.source.boundary] = row /\ row # Null BY <1>2, <1>3, NullIsNothing
<1>6. \A b \in Boundaries : b # t.source.boundary => S[b] = R[b] BY <1>2, <1>3
<1>7. \A b \in Boundaries : At(R, b, {"pending"}) => R[b].source = t.source BY DEF Fits, Agree
<1>8. \A b \in Boundaries : ~At(R, b, {"pending"}) BY <1>1, <1>2, <1>7 DEF Fits, At
<1> HIDE DEF S
<1> QED BY <1>1, <1>2, <1>4, <1>5, <1>6, <1>8 DEF Fits, At, Agree

\* Another snapshot is wanted.
LEMMA Changes ==
  ASSUME NEW R, NEW t, NEW c, Fits(R, t, c), NEW w \in Target,
         t # Null => t.generation < w.generation,
         c # Null => /\ c.generation < w.generation
                     /\ c.source.version <= w.source.version,
         NEW S, S = [b \in Boundaries |->
           IF b = w.source.boundary
           THEN IF At(R, b, {"running"}) THEN R[b] ELSE Queued(w)
           ELSE IF At(R, b, {"pending", "failed"}) THEN Superseded(R[b]) ELSE R[b]]
  PROVE  Fits(S, w, c) /\ \A b \in Boundaries : At(S, b, {"running"}) => S[b] = R[b]
<1> DEFINE e == w.source.boundary
<1>1. w # Null /\ w.source \in Submission /\ w.generation \in Nat /\ e \in Boundaries
  BY TargetFields, SnapshotFields, NullIsNothing
<1>2. R \in [Boundaries -> Row \cup {Null}] /\ c \in Segment \cup {Null} BY DEF Fits
<1>3. /\ Queued(w) \in Row /\ Queued(w).status = "pending"
      /\ Queued(w).source = w.source /\ Queued(w).generation = w.generation
  BY <1>1, QueuedRow
<1>4. \A b \in Boundaries : At(R, b, {"pending", "failed"}) =>
        /\ Superseded(R[b]) \in Row /\ Superseded(R[b]).status = "superseded"
        /\ Superseded(R[b]).source = R[b].source
  BY <1>2, SupersededRow DEF At
<1>5. /\ S[e] = IF At(R, e, {"running"}) THEN R[e] ELSE Queued(w)
      /\ \A b \in Boundaries : b # e =>
           S[b] = IF At(R, b, {"pending", "failed"}) THEN Superseded(R[b]) ELSE R[b]
  BY <1>1
<1>6. S \in [Boundaries -> Row \cup {Null}]
  <2>1. ASSUME NEW b \in Boundaries PROVE S[b] \in Row \cup {Null}
    BY <1>2, <1>3, <1>4, <1>5
  <2> QED BY <2>1
<1>7. ASSUME NEW b \in Boundaries, S[b] # Null PROVE S[b].source.boundary = b
  <2>1. R[b] # Null => R[b].source.boundary = b BY DEF Fits
  <2>2. At(R, b, {"pending", "failed"}) => R[b] # Null BY DEF At
  <2> QED BY <1>1, <1>3, <1>4, <1>5, <1>7, <2>1, <2>2
<1>8. \A b \in Boundaries : At(S, b, {"pending"}) => b = e /\ S[b] = Queued(w)
  BY <1>2, <1>3, <1>4, <1>5 DEF At
<1>9. \A b \in Boundaries : At(S, b, {"running"}) => At(R, b, {"running"}) /\ S[b] = R[b]
  BY <1>2, <1>3, <1>4, <1>5 DEF At
<1>10. At(R, e, {"running"}) => At(S, e, {"running"}) BY <1>5 DEF At
<1>11. ~At(R, e, {"running"}) => At(S, e, {"pending"}) /\ Agree(w, S[e])
  BY <1>1, <1>3, <1>5, NullIsNothing DEF At, Agree
<1>12. \A b, d \in Boundaries : At(R, b, {"running"}) /\ At(R, d, {"running"}) => b = d
  BY DEF Fits
<1>13. \A b \in Boundaries : At(S, b, {"running"}) /\ e # b => At(S, e, {"pending"})
  BY <1>1, <1>9, <1>11, <1>12
<1>14. \A b \in Boundaries : At(S, b, {"pending"}) => Agree(w, S[b])
  BY <1>1, <1>3, <1>8 DEF Agree
<1> HIDE DEF e
<1>15. At(S, e, {"pending"}) => At(S, e, {"pending", "failed"}) BY DEF At
<1> QED BY <1>1, <1>2, <1>6, <1>7, <1>9, <1>10, <1>11, <1>12, <1>13, <1>14, <1>15 DEF Fits, e
-----------------------------------------------------------------------------
(* The invariant. *)

SegmentsFit == \A s \in SegmentIds : Fits(rows[s], target[s], committed[s])

\* What an attempt has prepared is of its source, and while it has its lease, its row is as it knows.
ClaimsFit ==
  \A r \in Servers : claim[r] # Null =>
    /\ claim[r].prepared # Null =>
         /\ claim[r].prepared.boundary = claim[r].source.boundary
         /\ claim[r].prepared.content = claim[r].source.content
    /\ Holds(r) =>
         /\ RowOf(r).source = claim[r].source /\ RowOf(r).generation = claim[r].generation
         /\ RowOf(r).attempts = claim[r].attempts

HolderIsInside == lock # Null => phase[lock] # "outside"

ServiceInv ==
  ServiceTypeOK /\ SegmentsFit /\ ClaimsFit /\ HolderIsInside /\ RunningIsWorkedOn

\* A step that claims nothing: what runs ran before, as it was.
NothingStarts ==
  \A s \in SegmentIds, b \in Boundaries :
    At(rows'[s], b, {"running"}) => rows'[s][b] = rows[s][b]

LEMMA InitFits == ServiceInit => ServiceInv
<1> SUFFICES ASSUME ServiceInit PROVE ServiceInv OBVIOUS
<1>1. ServiceTypeOK BY ServiceAssumption DEF ServiceInit, ServiceTypeOK
<1>2. SegmentsFit BY DEF ServiceInit, SegmentsFit, Fits, At, Agree
<1>3. ClaimsFit /\ HolderIsInside /\ RunningIsWorkedOn
  BY DEF ServiceInit, ClaimsFit, HolderIsInside, RunningIsWorkedOn
<1> QED BY <1>1, <1>2, <1>3 DEF ServiceInv
-----------------------------------------------------------------------------
(* Each operation on the tables keeps SegmentsFit, and all but the claim start nothing. *)

\* An operation of one segment.
LEMMA OneSegment ==
  ASSUME SegmentsFit, NEW s \in SegmentIds, Fits(rows'[s], target'[s], committed'[s]),
         \A x \in SegmentIds : x # s =>
           rows'[x] = rows[x] /\ target'[x] = target[x] /\ committed'[x] = committed[x]
  PROVE  SegmentsFit'
  BY DEF SegmentsFit

\* A row that is not running now starts nothing.
LEMMA OneRow ==
  ASSUME ServiceTypeOK, NEW s \in SegmentIds, NEW b \in Boundaries, NEW row,
         row # Null => row.status # "running",
         rows' = [rows EXCEPT ![s] = [@ EXCEPT ![b] = row]]
  PROVE  NothingStarts
  BY DEF ServiceTypeOK, NothingStarts, At

LEMMA PostFits ==
  ASSUME ServiceInv, NEW s \in SegmentIds, NEW q \in Submission,
         PostLower(s, q) \/ PostAgain(s, q) \/ PostSettled(s, q) \/ PostChanged(s, q)
  PROVE  SegmentsFit' /\ NothingStarts
<1> DEFINE R == rows[s]  t == target[s]  c == committed[s]  b == q.boundary
<1>1. Fits(R, t, c) BY DEF ServiceInv, SegmentsFit
<1>2. /\ rows \in [SegmentIds -> [Boundaries -> Row \cup {Null}]]
      /\ target \in [SegmentIds -> Target \cup {Null}]
      /\ committed \in [SegmentIds -> Segment \cup {Null}]
      /\ ServiceTypeOK /\ SegmentsFit
  BY DEF ServiceInv, ServiceTypeOK
<1>3. b \in Boundaries BY SnapshotFields
<1>4. R \in [Boundaries -> Row \cup {Null}] BY <1>2
<1>5. CASE PostLower(s, q)
  <2>1. CASE R[b] # Null
    <3>1. UNCHANGED <<rows, target, committed>> BY <1>2, <1>3, <1>5, <2>1 DEF PostLower
    <3> QED BY <1>2, <3>1 DEF SegmentsFit, NothingStarts
  <2>2. CASE R[b] = Null
    <3>1. PICK row : row = [status |-> "superseded", attempts |-> 0, lease |-> Null, due |-> TRUE,
                            generation |-> 0, source |-> q] OBVIOUS
    <3>2. row \in Row /\ row.status = "superseded" /\ row.source = q
      BY <3>1 DEF Row, Status
    <3>3. rows' = [rows EXCEPT ![s] = [@ EXCEPT ![b] = row]] /\ UNCHANGED <<target, committed>>
      BY <1>5, <2>2, <3>1 DEF PostLower
    <3>4. t = Null \/ t.source.boundary # b BY <1>1, <1>3, <2>2 DEF Fits, At
    <3>5. Fits([R EXCEPT ![b] = row], t, c) BY <1>1, <1>3, <3>2, <3>4, Ended
    <3>6. rows'[s] = [R EXCEPT ![b] = row] /\ \A x \in SegmentIds : x # s => rows'[x] = rows[x]
      BY <1>2, <3>3
    <3> QED BY <1>2, <1>3, <3>2, <3>3, <3>5, <3>6, OneSegment, OneRow
  <2> QED BY <2>1, <2>2
<1>6. CASE PostAgain(s, q)
  <2>1. CASE Running(s)
    <3>1. UNCHANGED <<rows, target, committed>> BY <1>2, <1>3, <1>6, <2>1 DEF PostAgain
    <3> QED BY <1>2, <3>1 DEF SegmentsFit, NothingStarts
  <2>2. CASE ~Running(s)
    <3>1. t # Null /\ t.source = q /\ t \in Target BY <1>2, <1>6 DEF PostAgain, Wanted
    <3>2. PICK row : row = Queued(t) OBVIOUS
    <3>3. row \in Row /\ row.status = "pending" /\ row.source = t.source /\ row.generation = t.generation
      BY <3>1, <3>2, QueuedRow, TargetFields
    <3>4. rows' = [rows EXCEPT ![s] = [@ EXCEPT ![b] = row]] /\ UNCHANGED <<target, committed>>
      BY <1>6, <2>2, <3>2 DEF PostAgain
    <3>5. Fits([R EXCEPT ![t.source.boundary] = row], t, c) BY <1>1, <3>1, <3>3, Waits
    <3>6. rows'[s] = [R EXCEPT ![b] = row] /\ \A x \in SegmentIds : x # s => rows'[x] = rows[x]
      BY <1>2, <3>4
    <3> QED BY <1>2, <1>3, <3>1, <3>3, <3>4, <3>5, <3>6, OneSegment, OneRow
  <2> QED BY <2>1, <2>2
<1>7. CASE PostSettled(s, q)
  <2>1. t = Null /\ c # Null /\ c \in Segment /\ UNCHANGED <<target, committed>>
    BY <1>2, <1>7 DEF PostSettled, Settled
  <2>2. CASE Is(s, b, {"running"})
    <3>1. UNCHANGED <<rows, target, committed>> BY <1>2, <1>3, <1>7, <2>2 DEF PostSettled
    <3> QED BY <1>2, <3>1 DEF SegmentsFit, NothingStarts
  <2>3. CASE ~Is(s, b, {"running"})
    <3>1. PICK n : n = IF R[b] = Null THEN 0 ELSE R[b].attempts OBVIOUS
    <3>2. PICK row : row = [status |-> "succeeded", attempts |-> n, lease |-> Null, due |-> TRUE,
                            generation |-> c.generation, source |-> q] OBVIOUS
    <3>3. n \in Nat BY <1>3, <1>4, <3>1, RowFields
    <3>4. row \in Row /\ row.status = "succeeded" /\ row.source = q
      BY <2>1, <3>2, <3>3 DEF Row, Status, Segment
    <3>5. rows' = [rows EXCEPT ![s] = [@ EXCEPT ![b] = row]]
      BY <1>2, <1>3, <1>7, <2>3, <3>1, <3>2 DEF PostSettled
    <3>6. Fits([R EXCEPT ![b] = row], t, c) BY <1>1, <1>3, <2>1, <3>4, Ended
    <3>7. rows'[s] = [R EXCEPT ![b] = row] /\ \A x \in SegmentIds : x # s => rows'[x] = rows[x]
      BY <1>2, <3>5
    <3> QED BY <1>2, <1>3, <2>1, <3>4, <3>5, <3>6, <3>7, OneSegment, OneRow
  <2> QED BY <2>2, <2>3
<1>8. CASE PostChanged(s, q)
  <2>1. PICK g \in 1..MaxPosts :
          /\ Newest(s, g)
          /\ LET wish == [source |-> q, generation |-> g, since |-> clock]
             IN  /\ target' = [target EXCEPT ![s] = wish]
                 /\ rows' = [rows EXCEPT ![s] = [d \in Boundaries |->
                      IF d = q.boundary
                      THEN IF Is(s, d, {"running"}) THEN rows[s][d] ELSE Queued(wish)
                      ELSE IF Is(s, d, Discarded) THEN Superseded(rows[s][d]) ELSE rows[s][d]]]
    BY <1>8 DEF PostChanged
  <2>2. PICK w : w = [source |-> q, generation |-> g, since |-> clock] OBVIOUS
  <2>3. clock \in Nat /\ g \in Nat BY <1>2, <2>1, ServiceAssumption DEF ServiceTypeOK
  <2>4. w \in Target /\ w.source = q /\ w.generation = g BY <2>2, <2>3 DEF Target
  <2>5. /\ t # Null => t.generation < g
        /\ c # Null => c.generation < g
    BY <2>1 DEF Newest
  <2>6. c # Null => c.source.version <= q.version
    <3>1. ASSUME c # Null PROVE ~(q.version < c.source.version) BY <1>8, <3>1 DEF PostChanged, Lower
    <3>2. q.version \in Nat BY SnapshotFields
    <3>3. c # Null => c.source \in Submission BY <1>2 DEF Segment
    <3>4. c # Null => c.source.version \in Nat BY <3>3, SnapshotFields
    <3> QED BY <3>1, <3>2, <3>4
  <2>7. PICK S : S = [d \in Boundaries |->
                        IF d = w.source.boundary
                        THEN IF At(R, d, {"running"}) THEN R[d] ELSE Queued(w)
                        ELSE IF At(R, d, {"pending", "failed"}) THEN Superseded(R[d]) ELSE R[d]]
    OBVIOUS
  <2>8. Fits(S, w, c) /\ \A d \in Boundaries : At(S, d, {"running"}) => S[d] = R[d]
    BY <1>1, <2>4, <2>5, <2>6, <2>7, Changes
  <2>9. rows' = [rows EXCEPT ![s] = S] /\ target' = [target EXCEPT ![s] = w]
    BY <2>1, <2>2, <2>4, <2>7 DEF Is, At, Discarded
  <2>10. UNCHANGED committed BY <1>8 DEF PostChanged
  <2>11. /\ rows'[s] = S /\ \A x \in SegmentIds : x # s => rows'[x] = rows[x]
         /\ target'[s] = w /\ \A x \in SegmentIds : x # s => target'[x] = target[x]
    BY <1>2, <2>9
  <2>12. SegmentsFit' BY <1>2, <2>8, <2>10, <2>11, OneSegment
  <2>13. NothingStarts BY <2>8, <2>11 DEF NothingStarts
  <2> QED BY <2>12, <2>13
<1> QED BY <1>5, <1>6, <1>7, <1>8
LEMMA RetryFits ==
  ASSUME ServiceInv, NEW s \in SegmentIds, NEW b \in Boundaries, RetryFailedJob(s, b)
  PROVE  SegmentsFit' /\ NothingStarts
<1> DEFINE R == rows[s]  t == target[s]  c == committed[s]
<1>1. Fits(R, t, c) BY DEF ServiceInv, SegmentsFit
<1>2. /\ rows \in [SegmentIds -> [Boundaries -> Row \cup {Null}]]
      /\ target \in [SegmentIds -> Target \cup {Null}]
      /\ ServiceTypeOK /\ SegmentsFit
  BY DEF ServiceInv, ServiceTypeOK
<1>3. R[b] # Null /\ t # Null /\ t.source = R[b].source /\ t \in Target
  BY <1>2 DEF RetryFailedJob, Is, RowMatches
<1>4. t.source.boundary = b BY <1>1, <1>3 DEF Fits
<1>5. PICK row : row = Queued(t) OBVIOUS
<1>6. row \in Row /\ row.status = "pending" /\ row.source = t.source /\ row.generation = t.generation
  BY <1>3, <1>5, QueuedRow, TargetFields
<1>7. rows' = [rows EXCEPT ![s] = [@ EXCEPT ![b] = row]] /\ UNCHANGED <<target, committed>>
  BY <1>5 DEF RetryFailedJob
<1>8. Fits([R EXCEPT ![t.source.boundary] = row], t, c) BY <1>1, <1>3, <1>6, Waits
<1>9. rows'[s] = [R EXCEPT ![b] = row] /\ \A x \in SegmentIds : x # s => rows'[x] = rows[x]
  BY <1>2, <1>7
<1> QED BY <1>2, <1>4, <1>6, <1>7, <1>8, <1>9, OneSegment, OneRow

LEMMA BackoffFits ==
  ASSUME ServiceInv, NEW s \in SegmentIds, NEW b \in Boundaries, BackoffPasses(s, b)
  PROVE  SegmentsFit' /\ NothingStarts
<1> DEFINE R == rows[s]  t == target[s]  c == committed[s]
<1>1. Fits(R, t, c) BY DEF ServiceInv, SegmentsFit
<1>2. /\ rows \in [SegmentIds -> [Boundaries -> Row \cup {Null}]]
      /\ target \in [SegmentIds -> Target \cup {Null}]
      /\ ServiceTypeOK /\ SegmentsFit
  BY DEF ServiceInv, ServiceTypeOK
<1>3. At(R, b, {"pending"}) BY DEF BackoffPasses, Is, At
<1>4. Agree(t, R[b]) BY <1>1, <1>3 DEF Fits
<1>5. R[b] # Null /\ R[b] \in Row /\ R[b].status = "pending" BY <1>2, <1>3 DEF At
<1>6. t # Null /\ t.source = R[b].source /\ t.generation = R[b].generation BY <1>4 DEF Agree
<1>7. t.source.boundary = b BY <1>1, <1>5, <1>6 DEF Fits
<1>8. PICK row : row = [R[b] EXCEPT !.due = TRUE] OBVIOUS
<1>9. row \in Row /\ row.status = "pending" /\ row.source = t.source /\ row.generation = t.generation
  BY <1>5, <1>6, <1>8 DEF Row
<1>10. rows' = [rows EXCEPT ![s] = [@ EXCEPT ![b] = row]] /\ UNCHANGED <<target, committed>>
  BY <1>8 DEF BackoffPasses
<1>11. Fits([R EXCEPT ![t.source.boundary] = row], t, c) BY <1>1, <1>6, <1>9, Waits
<1>12. rows'[s] = [R EXCEPT ![b] = row] /\ \A x \in SegmentIds : x # s => rows'[x] = rows[x]
  BY <1>2, <1>10
<1> QED BY <1>2, <1>7, <1>9, <1>10, <1>11, <1>12, OneSegment, OneRow

LEMMA RecoverFits ==
  ASSUME ServiceInv, NEW r \in Servers, RecoverRunningJobs(r)
  PROVE  /\ SegmentsFit' /\ NothingStarts
         /\ \A s \in SegmentIds, b \in Boundaries : ~At(rows'[s], b, {"running"})
<1>1. /\ rows \in [SegmentIds -> [Boundaries -> Row \cup {Null}]]
      /\ target \in [SegmentIds -> Target \cup {Null}]
      /\ UNCHANGED <<target, committed>>
  BY DEF ServiceInv, ServiceTypeOK, RecoverRunningJobs
<1>2. ASSUME NEW s \in SegmentIds
      PROVE  /\ Fits(rows'[s], target[s], committed[s])
             /\ \A b \in Boundaries : ~At(rows'[s], b, {"running"})
  <2> DEFINE R == rows[s]  t == target[s]  c == committed[s]  S == rows'[s]
  <2>1. Fits(R, t, c) BY DEF ServiceInv, SegmentsFit
  <2>2. S = [b \in Boundaries |-> IF At(R, b, {"running"}) THEN Recovered(s, b) ELSE R[b]]
    BY DEF RecoverRunningJobs, Is, At
  <2>3. R \in [Boundaries -> Row \cup {Null}] BY <1>1
  <2>4. CASE \A b \in Boundaries : ~At(R, b, {"running"})
    <3>1. S = R BY <2>2, <2>3, <2>4
    <3> QED BY <2>1, <2>4, <3>1
  <2>5. ASSUME NEW b \in Boundaries, At(R, b, {"running"})
        PROVE  Fits(S, t, c) /\ \A d \in Boundaries : ~At(S, d, {"running"})
    <3>1. \A d \in Boundaries : At(R, d, {"running"}) => d = b BY <2>1, <2>5 DEF Fits
    <3>2. S = [R EXCEPT ![b] = Recovered(s, b)] BY <2>2, <2>3, <2>5, <3>1
    <3>3. t # Null /\ t \in Target /\ R[b] \in Row /\ R[b].source.boundary = b
      BY <1>1, <2>1, <2>3, <2>5 DEF Fits, At
    <3>4. CASE t.source.boundary = b
      <4>1. PICK n : n = IF RowMatches(s, b) THEN rows[s][b].attempts ELSE 0 OBVIOUS
      <4>2. n \in Nat BY <3>3, <4>1, RowFields
      <4>3. PICK row : row = [Queued(t) EXCEPT !.attempts = n] OBVIOUS
      <4>4. Recovered(s, b) = row BY <3>3, <3>4, <4>1, <4>3 DEF Recovered
      <4>5. t.source \in Submission /\ t.generation \in Nat BY <3>3, TargetFields
      <4>6. row = [status |-> "pending", attempts |-> n, lease |-> Null, due |-> TRUE,
                   generation |-> t.generation, source |-> t.source]
        BY <4>3 DEF Queued
      <4>7. /\ row \in Row /\ row.status = "pending"
            /\ row.source = t.source /\ row.generation = t.generation
        BY <4>2, <4>5, <4>6 DEF Row, Status
      <4>8. Fits(S, t, c) BY <2>1, <3>2, <3>3, <3>4, <4>4, <4>7, Waits
      <4> QED BY <2>3, <3>1, <3>2, <4>4, <4>7, <4>8 DEF At
    <3>5. CASE t.source.boundary # b
      <4>1. PICK row : row = Superseded(R[b]) OBVIOUS
      <4>2. Recovered(s, b) = row BY <3>5, <4>1 DEF Recovered
      <4>3. row \in Row /\ row.status = "superseded" /\ row.source.boundary = b
        BY <3>3, <4>1, SupersededRow
      <4>4. Fits(S, t, c) BY <2>1, <3>2, <3>5, <4>2, <4>3, Ended
      <4> QED BY <2>3, <3>1, <3>2, <4>2, <4>3, <4>4 DEF At
    <3> QED BY <3>4, <3>5
  <2> QED BY <2>4, <2>5
<1>3. SegmentsFit' BY <1>1, <1>2 DEF SegmentsFit
<1>4. NothingStarts BY <1>2 DEF NothingStarts
<1> QED BY <1>2, <1>3, <1>4

LEMMA ClaimFits ==
  ASSUME ServiceInv, NEW r \in Servers, NEW s \in SegmentIds, ClaimOldestJob(r, s)
  PROVE  /\ SegmentsFit'
         /\ claim'[r] # Null /\ claim'[r] \in Claim /\ claim'[r].prepared = Null
         /\ claim'[r].segment = s /\ claim'[r].source.boundary \in Boundaries
         /\ At(rows'[s], claim'[r].source.boundary, {"running"})
         /\ rows'[s][claim'[r].source.boundary].lease = r
         /\ rows'[s][claim'[r].source.boundary].source = claim'[r].source
         /\ rows'[s][claim'[r].source.boundary].generation = claim'[r].generation
         /\ rows'[s][claim'[r].source.boundary].attempts = claim'[r].attempts
         /\ \A x \in SegmentIds, d \in Boundaries :
              x # s \/ d # claim'[r].source.boundary => rows'[x][d] = rows[x][d]
         /\ \A x \in Servers : x # r => claim'[x] = claim[x]
         /\ At(rows[s], claim'[r].source.boundary, {"pending"})
<1> DEFINE R == rows[s]  t == target[s]  c == committed[s]  b == t.source.boundary
<1>1. Fits(R, t, c) BY DEF ServiceInv, SegmentsFit
<1>2. /\ rows \in [SegmentIds -> [Boundaries -> Row \cup {Null}]]
      /\ target \in [SegmentIds -> Target \cup {Null}] /\ claim \in [Servers -> Claim \cup {Null}]
      /\ SegmentsFit /\ UNCHANGED <<target, committed>>
  BY DEF ServiceInv, ServiceTypeOK, ClaimOldestJob
<1>3. t # Null /\ t \in Target BY <1>2 DEF ClaimOldestJob, Oldest, Claimable
<1>4. b \in Boundaries BY <1>3, TargetFields, SnapshotFields
<1>5. At(R, b, {"pending"}) BY DEF ClaimOldestJob, Oldest, Claimable, Is, At
<1>6. \A d \in Boundaries : ~At(R, d, {"running"})
  BY DEF ClaimOldestJob, Oldest, Claimable, Running, Is, At
<1>7. R[b] \in Row /\ R[b].source.boundary = b /\ R[b].status = "pending"
  BY <1>1, <1>2, <1>4, <1>5 DEF Fits, At
<1>8. PICK old \in Row : old = R[b] BY <1>7
<1>9. PICK row : row = [R[b] EXCEPT !.status = "running", !.attempts = R[b].attempts + 1, !.lease = r]
  OBVIOUS
<1>10. row = [status |-> "running", attempts |-> old.attempts + 1, lease |-> r, due |-> old.due,
              generation |-> old.generation, source |-> old.source]
  <2>1. rows[s][b] = [status |-> old.status, attempts |-> old.attempts, lease |-> old.lease,
                      due |-> old.due, generation |-> old.generation, source |-> old.source]
    BY <1>8 DEF Row
  <2> QED BY <1>8, <1>9, <2>1
<1>11. /\ row \in Row /\ row.status = "running" /\ row.lease = r
       /\ row.source = old.source /\ row.generation = old.generation
       /\ row.attempts = old.attempts + 1
  BY <1>10, RowFields DEF Row, Status
<1>12. PICK own : own = [segment |-> s, source |-> old.source, generation |-> old.generation,
                         attempts |-> old.attempts + 1, prepared |-> Null] OBVIOUS
<1>13. /\ own \in Claim /\ own.segment = s /\ own.source = old.source
       /\ own.generation = old.generation /\ own.attempts = old.attempts + 1 /\ own.prepared = Null
  BY <1>12, RowFields DEF Claim
<1>14. rows' = [rows EXCEPT ![s] = [@ EXCEPT ![b] = row]] /\ claim' = [claim EXCEPT ![r] = own]
  <2>1. rows' = [rows EXCEPT ![s][b] =
          [R[b] EXCEPT !.status = "running", !.attempts = R[b].attempts + 1, !.lease = r]]
    BY DEF ClaimOldestJob
  <2>2. rows' = [rows EXCEPT ![s] = [@ EXCEPT ![b] = row]] BY <1>9, <2>1
  <2>3. claim' = [claim EXCEPT ![r] =
          [segment |-> s, source |-> rows[s][b].source, generation |-> rows[s][b].generation,
           attempts |-> rows[s][b].attempts + 1, prepared |-> Null]]
    BY DEF ClaimOldestJob
  <2> QED BY <1>8, <1>9, <1>12, <2>2, <2>3
<1>15. Fits([R EXCEPT ![b] = row], t, c)
  BY <1>1, <1>3, <1>5, <1>6, <1>7, <1>8, <1>11, Claimed
<1>16. rows'[s] = [R EXCEPT ![b] = row] /\ \A x \in SegmentIds : x # s => rows'[x] = rows[x]
  BY <1>2, <1>14
<1>17. SegmentsFit' BY <1>2, <1>15, <1>16, OneSegment
<1>18. claim'[r] = own /\ \A x \in Servers : x # r => claim'[x] = claim[x] BY <1>2, <1>14
<1>19. own.source.boundary = b BY <1>7, <1>8, <1>13
<1>20. rows'[s][b] = row /\ \A d \in Boundaries : d # b => rows'[s][d] = R[d]
  BY <1>2, <1>4, <1>16
<1>21. At(rows'[s], b, {"running"}) BY <1>11, <1>20, NullIsNothing DEF At
<1>22. \A x \in SegmentIds, d \in Boundaries : x # s \/ d # b => rows'[x][d] = rows[x][d]
  BY <1>16, <1>20
<1> HIDE DEF b
<1> QED BY <1>4, <1>5, <1>8, <1>11, <1>13, <1>17, <1>18, <1>19, <1>20, <1>21, <1>22, NullIsNothing

\* The row of an attempt that holds its lease is the target's, when the target is as it knows.
LEMMA HeldRow ==
  ASSUME ServiceInv, NEW r \in Servers, claim[r] # Null, Holds(r)
  PROVE  /\ claim[r] \in Claim /\ claim[r].segment \in SegmentIds
         /\ claim[r].source \in Submission /\ claim[r].source.boundary \in Boundaries
         /\ RowOf(r) \in Row /\ RowOf(r).status = "running" /\ RowOf(r).lease = r
         /\ At(rows[claim[r].segment], claim[r].source.boundary, {"running"})
         /\ RowOf(r).source = claim[r].source /\ RowOf(r).generation = claim[r].generation
         /\ RowOf(r).attempts = claim[r].attempts
         /\ Fits(rows[claim[r].segment], target[claim[r].segment], committed[claim[r].segment])
<1>1. claim \in [Servers -> Claim \cup {Null}] BY DEF ServiceInv, ServiceTypeOK
<1>2. claim[r] \in Claim BY <1>1
<1>3. claim[r].segment \in SegmentIds /\ claim[r].source \in Submission BY <1>2 DEF Claim
<1>4. claim[r].source.boundary \in Boundaries BY <1>3, SnapshotFields
<1>5. rows \in [SegmentIds -> [Boundaries -> Row \cup {Null}]] BY DEF ServiceInv, ServiceTypeOK
<1>6. RowOf(r) \in Row BY <1>3, <1>4, <1>5 DEF Holds, RowOf
<1>7. At(rows[claim[r].segment], claim[r].source.boundary, {"running"}) BY DEF Holds, RowOf, At
<1>8. RowOf(r).status = "running" /\ RowOf(r).lease = r BY DEF Holds
<1>9. /\ RowOf(r).source = claim[r].source /\ RowOf(r).generation = claim[r].generation
      /\ RowOf(r).attempts = claim[r].attempts
  BY DEF ServiceInv, ClaimsFit
<1>10. Fits(rows[claim[r].segment], target[claim[r].segment], committed[claim[r].segment])
  BY <1>3 DEF ServiceInv, SegmentsFit
<1> QED BY <1>2, <1>3, <1>4, <1>6, <1>7, <1>8, <1>9, <1>10

LEMMA CommitFits ==
  ASSUME ServiceInv, NEW r \in Servers, CommitExtraction(r)
  PROVE  /\ SegmentsFit' /\ NothingStarts
         /\ target'[claim[r].segment] = Null
         /\ committed'[claim[r].segment] =
              [source |-> claim[r].source, generation |-> claim[r].generation,
               extraction |-> claim[r].prepared]
         /\ ~At(rows'[claim[r].segment], claim[r].source.boundary, {"running"})
         /\ \A x \in SegmentIds : x # claim[r].segment =>
              target'[x] = target[x] /\ committed'[x] = committed[x] /\ rows'[x] = rows[x]
<1> DEFINE s == claim[r].segment  b == claim[r].source.boundary
           R == rows[s]  t == target[s]  c == committed[s]
<1>0. claim[r] # Null /\ claim[r].prepared # Null /\ Holds(r) /\ Matches(r) BY DEF CommitExtraction
<1>1. /\ s \in SegmentIds /\ b \in Boundaries /\ claim[r] \in Claim /\ claim[r].source \in Submission
      /\ R[b] \in Row /\ At(R, b, {"running"}) /\ Fits(R, t, c) /\ R[b].source = claim[r].source
  BY <1>0, HeldRow DEF RowOf
<1>2. /\ rows \in [SegmentIds -> [Boundaries -> Row \cup {Null}]]
      /\ target \in [SegmentIds -> Target \cup {Null}]
      /\ committed \in [SegmentIds -> Segment \cup {Null}]
      /\ ServiceTypeOK /\ SegmentsFit
  BY DEF ServiceInv, ServiceTypeOK
<1>3. t # Null /\ t.source = claim[r].source /\ t.generation = claim[r].generation /\ t \in Target
  BY <1>0, <1>1, <1>2 DEF Matches, TargetOf
<1>4. PICK row : row = [R[b] EXCEPT !.status = "succeeded", !.lease = Null] OBVIOUS
<1>5. row \in Row /\ row.status = "succeeded" /\ row.source.boundary = b
  <2>1. PICK old \in Row : old = R[b] BY <1>1
  <2>2. row = [old EXCEPT !.status = "succeeded", !.lease = Null] BY <1>4, <2>1
  <2>3. row = [status |-> "succeeded", attempts |-> old.attempts, lease |-> Null, due |-> old.due,
               generation |-> old.generation, source |-> old.source]
    BY <2>2 DEF Row
  <2> QED BY <1>1, <2>1, <2>3, RowFields DEF Row, Status
<1>6. PICK m : m = [source |-> claim[r].source, generation |-> claim[r].generation,
                    extraction |-> claim[r].prepared] OBVIOUS
<1>7. m \in Segment BY <1>0, <1>1, <1>6 DEF Segment, Claim
<1>8. ~(c # Null /\ c.source.version > claim[r].source.version)
  <2>1. c # Null => c.source.version <= t.source.version BY <1>1, <1>3 DEF Fits
  <2>2. c # Null => c.source \in Submission BY <1>1, <1>2 DEF Segment
  <2>3. c # Null => c.source.version \in Nat BY <2>2, SnapshotFields
  <2>4. claim[r].source.version \in Nat BY <1>1, SnapshotFields
  <2> QED BY <1>3, <2>1, <2>3, <2>4
<1>9. rows' = [rows EXCEPT ![s] = [@ EXCEPT ![b] = row]]
  BY <1>4 DEF CommitExtraction
<1>10. target' = [target EXCEPT ![s] = Null] BY DEF CommitExtraction
<1>11. committed' = [committed EXCEPT ![s] = m]
  <2>1. committed' = [committed EXCEPT ![s] =
          IF @ # Null /\ @.source.version > claim[r].source.version THEN @
          ELSE [source |-> claim[r].source, generation |-> claim[r].generation,
                extraction |-> claim[r].prepared]]
    BY DEF CommitExtraction
  <2> QED BY <1>6, <1>8, <2>1
<1>12. Fits([R EXCEPT ![b] = row], Null, m)
  BY <1>1, <1>3, <1>5, <1>7, Settles
<1>13. /\ rows'[s] = [R EXCEPT ![b] = row] /\ \A x \in SegmentIds : x # s => rows'[x] = rows[x]
       /\ target'[s] = Null /\ \A x \in SegmentIds : x # s => target'[x] = target[x]
       /\ committed'[s] = m /\ \A x \in SegmentIds : x # s => committed'[x] = committed[x]
  BY <1>1, <1>2, <1>9, <1>10, <1>11
<1>14. SegmentsFit' BY <1>1, <1>2, <1>12, <1>13, OneSegment
<1>15. NothingStarts BY <1>1, <1>2, <1>5, <1>9, OneRow
<1>16. ~At(rows'[s], b, {"running"})
  <2>1. R \in [Boundaries -> Row \cup {Null}] BY <1>1, <1>2
  <2>2. [R EXCEPT ![b] = row][b] = row BY <1>1, <2>1
  <2>3. rows'[s][b] = row BY <1>13, <2>2
  <2> QED BY <1>5, <2>3 DEF At
<1> HIDE DEF s, b
<1> QED BY <1>6, <1>13, <1>14, <1>15, <1>16 DEF s, b

LEMMA FinishFits ==
  ASSUME ServiceInv, NEW r \in Servers, NEW terminal \in BOOLEAN, FinishFailedAttempt(r, terminal)
  PROVE  /\ SegmentsFit' /\ NothingStarts
         /\ ~At(rows'[claim[r].segment], claim[r].source.boundary, {"running"})
         /\ \A x \in SegmentIds : x # claim[r].segment =>
              target'[x] = target[x] /\ committed'[x] = committed[x] /\ rows'[x] = rows[x]
         /\ target'[claim[r].segment] \in {target[claim[r].segment], Null}
<1> DEFINE s == claim[r].segment  b == claim[r].source.boundary
           R == rows[s]  t == target[s]  c == committed[s]
           final == terminal \/ claim[r].attempts >= MaxAttempts
<1>0. claim[r] # Null /\ Holds(r) /\ Matches(r) BY DEF FinishFailedAttempt
<1>1. /\ s \in SegmentIds /\ b \in Boundaries /\ claim[r] \in Claim /\ claim[r].source \in Submission
      /\ R[b] \in Row /\ At(R, b, {"running"}) /\ Fits(R, t, c) /\ R[b].source = claim[r].source
      /\ R[b].generation = claim[r].generation
  BY <1>0, HeldRow DEF RowOf
<1>2. /\ rows \in [SegmentIds -> [Boundaries -> Row \cup {Null}]]
      /\ target \in [SegmentIds -> Target \cup {Null}]
      /\ ServiceTypeOK /\ SegmentsFit /\ committed' = committed
  BY DEF ServiceInv, ServiceTypeOK, FinishFailedAttempt
<1>3. t # Null /\ t.source = claim[r].source /\ t.generation = claim[r].generation /\ t \in Target
  BY <1>0, <1>1, <1>2 DEF Matches, TargetOf
<1>4. PICK fin \in BOOLEAN : fin = final OBVIOUS
<1>5. PICK st : st = IF fin THEN "failed" ELSE "pending" OBVIOUS
<1>6. PICK row : row = [R[b] EXCEPT !.status = st, !.lease = Null, !.due = fin] OBVIOUS
<1>7. /\ row \in Row /\ row.status = st
      /\ row.source = t.source /\ row.generation = t.generation
  <2>1. PICK old \in Row : old = R[b] BY <1>1
  <2>2. row = [old EXCEPT !.status = st, !.lease = Null, !.due = fin] BY <1>6, <2>1
  <2>3. row = [status |-> st, attempts |-> old.attempts, lease |-> Null, due |-> fin,
               generation |-> old.generation, source |-> old.source]
    BY <2>2 DEF Row
  <2>4. st \in Status BY <1>5 DEF Status
  <2> QED BY <1>1, <1>3, <2>1, <2>3, <2>4, RowFields DEF Row
<1>8. rows' = [rows EXCEPT ![s] = [@ EXCEPT ![b] = row]]
  BY <1>4, <1>5, <1>6 DEF FinishFailedAttempt
<1>9. target' = IF final /\ NothingLost(s) THEN [target EXCEPT ![s] = Null] ELSE target
  BY DEF FinishFailedAttempt
<1>10. rows'[s] = [R EXCEPT ![b] = row] /\ \A x \in SegmentIds : x # s => rows'[x] = rows[x]
  BY <1>2, <1>1, <1>8
<1>11. Fits([R EXCEPT ![b] = row], t, c)
  <2>1. CASE fin BY <1>1, <1>3, <1>5, <1>7, <2>1, Failed
  <2>2. CASE ~fin BY <1>1, <1>3, <1>5, <1>7, <2>2, Waits
  <2> QED BY <2>1, <2>2
<1>12. CASE target' = target
  <2>1. SegmentsFit' BY <1>1, <1>2, <1>10, <1>11, <1>12, OneSegment
  <2>2. NothingStarts BY <1>1, <1>2, <1>5, <1>7, <1>8, OneRow
  <2>3. ~At(rows'[s], b, {"running"}) BY <1>1, <1>2, <1>5, <1>7, <1>10 DEF At
  <2> QED BY <1>2, <1>10, <1>12, <2>1, <2>2, <2>3
<1>13. CASE final /\ target' = [target EXCEPT ![s] = Null]
  <2>1. st = "failed" BY <1>4, <1>5, <1>13
  <2>2. c \in Segment \cup {Null} BY <1>1 DEF Fits
  <2>3. Fits([R EXCEPT ![b] = row], Null, c)
    BY <1>1, <1>3, <1>7, <2>1, <2>2, Settles
  <2>4. target'[s] = Null /\ \A x \in SegmentIds : x # s => target'[x] = target[x]
    BY <1>1, <1>2, <1>13
  <2>5. SegmentsFit' BY <1>1, <1>2, <1>10, <2>3, <2>4, OneSegment
  <2>6. NothingStarts BY <1>1, <1>2, <1>5, <1>7, <1>8, OneRow
  <2>7. ~At(rows'[s], b, {"running"}) BY <1>1, <1>2, <1>5, <1>7, <1>10 DEF At
  <2> QED BY <1>2, <1>10, <2>4, <2>5, <2>6, <2>7
<1> QED BY <1>9, <1>12, <1>13

LEMMA RequeueFits ==
  ASSUME ServiceInv, NEW r \in Servers, RequeueLatestTarget(r)
  PROVE  /\ SegmentsFit' /\ NothingStarts
         /\ ~At(rows'[claim[r].segment], claim[r].source.boundary, {"running"})
         /\ \A x \in SegmentIds : x # claim[r].segment => rows'[x] = rows[x]
         /\ UNCHANGED <<target, committed>>
<1> DEFINE s == claim[r].segment  b == claim[r].source.boundary
           R == rows[s]  t == target[s]  c == committed[s]
<1>0. claim[r] # Null /\ Holds(r) BY DEF RequeueLatestTarget
<1>1. /\ s \in SegmentIds /\ b \in Boundaries
      /\ R[b] \in Row /\ At(R, b, {"running"}) /\ Fits(R, t, c) /\ R[b].source = claim[r].source
  BY <1>0, HeldRow DEF RowOf
<1>2. /\ rows \in [SegmentIds -> [Boundaries -> Row \cup {Null}]]
      /\ target \in [SegmentIds -> Target \cup {Null}]
      /\ ServiceTypeOK /\ SegmentsFit /\ UNCHANGED <<target, committed>>
  BY DEF ServiceInv, ServiceTypeOK, RequeueLatestTarget
<1>3. t # Null /\ t \in Target BY <1>1, <1>2 DEF Fits
<1>4. PICK e \in Boundaries : e = t.source.boundary BY <1>3, TargetFields, SnapshotFields
<1>5. PICK q : q = Queued(t) OBVIOUS
<1>6. q \in Row /\ q.status = "pending" /\ q.source = t.source /\ q.generation = t.generation
  BY <1>3, <1>5, QueuedRow, TargetFields
<1>7. PICK old : old = Superseded(R[b]) OBVIOUS
<1>8. old \in Row /\ old.status = "superseded" /\ old.source.boundary = b
  BY <1>1, <1>7, SupersededRow
<1>9. rows' = [rows EXCEPT ![s] = [d \in Boundaries |->
        IF target[s] # Null /\ d = target[s].source.boundary /\ (d = b \/ ~Is(s, d, {"running"}))
        THEN Queued(target[s])
        ELSE IF d = b THEN Superseded(rows[s][b]) ELSE rows[s][d]]]
  BY DEF RequeueLatestTarget
<1>10. \A d \in Boundaries : At(R, d, {"running"}) => d = b BY <1>1 DEF Fits
<1>11. R \in [Boundaries -> Row \cup {Null}] BY <1>1, <1>2
<1>12. PICK S : S = [d \in Boundaries |->
         IF target[s] # Null /\ d = target[s].source.boundary /\ (d = b \/ ~Is(s, d, {"running"}))
         THEN Queued(target[s])
         ELSE IF d = b THEN Superseded(rows[s][b]) ELSE rows[s][d]]
  OBVIOUS
<1>13. \A d \in Boundaries : S[d] = IF d = e THEN q ELSE IF d = b THEN old ELSE R[d]
  BY <1>3, <1>4, <1>5, <1>7, <1>10, <1>12 DEF Is, At
<1>14. S = [d \in Boundaries |-> S[d]] BY <1>12
<1>15. /\ rows'[s] = S /\ \A x \in SegmentIds : x # s => rows'[x] = rows[x]
  BY <1>1, <1>2, <1>9, <1>12
<1>16. Fits(S, t, c)
  <2>1. CASE e = b
    <3>1. S = [R EXCEPT ![e] = q] BY <1>11, <1>13, <1>14, <2>1
    <3> QED BY <1>1, <1>3, <1>4, <1>6, <3>1, Waits
  <2>2. CASE e # b
    <3> DEFINE M == [R EXCEPT ![b] = old]
    <3>1. Fits(M, t, c) BY <1>1, <1>4, <1>8, <2>2, Ended
    <3>2. S = [M EXCEPT ![e] = q] BY <1>1, <1>4, <1>11, <1>13, <1>14, <2>2
    <3> HIDE DEF M
    <3> QED BY <1>3, <1>4, <1>6, <3>1, <3>2, Waits
  <2> QED BY <2>1, <2>2
<1>17. SegmentsFit' BY <1>1, <1>2, <1>15, <1>16, OneSegment
<1>18. \A d \in Boundaries : ~At(S, d, {"running"})
  BY <1>6, <1>8, <1>10, <1>13 DEF At
<1>19. NothingStarts BY <1>15, <1>18 DEF NothingStarts
<1> QED BY <1>1, <1>2, <1>15, <1>17, <1>18, <1>19
-----------------------------------------------------------------------------
(* The steps. *)

\* What an attempt knows stays true when nothing starts and the attempt stays as it is or ends.
LEMMA ClaimsStay ==
  ASSUME ServiceInv, NothingStarts, claim' \in [Servers -> Claim \cup {Null}],
         \A r \in Servers : claim'[r] \in {claim[r], Null}
  PROVE  ClaimsFit'
<1> SUFFICES ASSUME NEW r \in Servers, claim'[r] # Null
             PROVE  /\ claim'[r].prepared # Null =>
                         /\ claim'[r].prepared.boundary = claim'[r].source.boundary
                         /\ claim'[r].prepared.content = claim'[r].source.content
                    /\ Holds(r)' =>
                         /\ RowOf(r)'.source = claim'[r].source
                         /\ RowOf(r)'.generation = claim'[r].generation
                         /\ RowOf(r)'.attempts = claim'[r].attempts
  BY DEF ClaimsFit
<1>1. claim'[r] = claim[r] /\ claim[r] \in Claim BY NullIsNothing DEF ServiceInv, ServiceTypeOK
<1>2. claim[r].segment \in SegmentIds /\ claim[r].source \in Submission BY <1>1 DEF Claim
<1>3. claim[r].source.boundary \in Boundaries BY <1>2, SnapshotFields
<1>4. Holds(r)' => RowOf(r)' = RowOf(r) /\ Holds(r)
  BY <1>1, <1>2, <1>3 DEF Holds, RowOf, NothingStarts, At
<1>5. /\ claim[r].prepared # Null =>
           /\ claim[r].prepared.boundary = claim[r].source.boundary
           /\ claim[r].prepared.content = claim[r].source.content
      /\ Holds(r) =>
           /\ RowOf(r).source = claim[r].source
           /\ RowOf(r).generation = claim[r].generation
           /\ RowOf(r).attempts = claim[r].attempts
  BY <1>1 DEF ServiceInv, ClaimsFit
<1> QED BY <1>1, <1>4, <1>5

\* So does what the worker that holds the lock works on, when its claim stays as long as its row runs.
LEMMA WorkStays ==
  ASSUME ServiceInv, NothingStarts, UNCHANGED phase, lock' \in {lock, Null},
         \A s \in SegmentIds, b \in Boundaries :
           /\ lock # Null /\ claim[lock] # Null /\ claim[lock].segment = s
           /\ claim[lock].source.boundary = b /\ At(rows'[s], b, {"running"})
           /\ lock' = lock
           => /\ claim'[lock] # Null /\ claim'[lock].segment = claim[lock].segment
              /\ claim'[lock].source = claim[lock].source
              /\ claim'[lock].generation = claim[lock].generation
              /\ claim'[lock].attempts = claim[lock].attempts
  PROVE  RunningIsWorkedOn'
<1> SUFFICES ASSUME NEW s \in SegmentIds, NEW b \in Boundaries, At(rows'[s], b, {"running"}),
                    lock' # Null, phase'[lock'] = "looping"
             PROVE  /\ rows'[s][b].lease = lock' /\ claim'[lock'] # Null
                    /\ claim'[lock'].segment = s /\ claim'[lock'].source = rows'[s][b].source
                    /\ claim'[lock'].generation = rows'[s][b].generation
                    /\ claim'[lock'].attempts = rows'[s][b].attempts
  BY DEF RunningIsWorkedOn, Is, At
<1>1. lock' = lock /\ lock # Null /\ phase[lock] = "looping" OBVIOUS
<1>2. rows'[s][b] = rows[s][b] BY DEF NothingStarts
<1>3. At(rows[s], b, {"running"}) BY <1>2 DEF At
<1>4. /\ rows[s][b].lease = lock /\ claim[lock] # Null
      /\ claim[lock].segment = s /\ claim[lock].source = rows[s][b].source
      /\ claim[lock].generation = rows[s][b].generation
      /\ claim[lock].attempts = rows[s][b].attempts
  BY <1>1, <1>3 DEF ServiceInv, RunningIsWorkedOn, Is, At
<1>5. rows[s][b].source.boundary = b
  BY <1>3 DEF ServiceInv, SegmentsFit, Fits, At
<1> QED BY <1>1, <1>2, <1>4, <1>5

LEMMA TableTypes ==
  ASSUME SegmentsFit', rows' = [x \in SegmentIds |-> rows'[x]],
         target' = [x \in SegmentIds |-> target'[x]],
         committed' = [x \in SegmentIds |-> committed'[x]]
  PROVE  /\ rows' \in [SegmentIds -> [Boundaries -> Row \cup {Null}]]
         /\ target' \in [SegmentIds -> Target \cup {Null}]
         /\ committed' \in [SegmentIds -> Segment \cup {Null}]
<1>1. \A x \in SegmentIds : /\ rows'[x] \in [Boundaries -> Row \cup {Null}]
                            /\ target'[x] \in Target \cup {Null}
                            /\ committed'[x] \in Segment \cup {Null}
  BY DEF SegmentsFit, Fits
<1> QED BY <1>1

\* A step of an operation that neither claims nor works leaves what the workers know.
LEMMA PostStep ==
  ASSUME ServiceInv, SegmentsFit', NothingStarts, UNCHANGED <<lock, phase, claim>>,
         rows' = [x \in SegmentIds |-> rows'[x]], target' = [x \in SegmentIds |-> target'[x]],
         committed' = [x \in SegmentIds |-> committed'[x]],
         clock' \in Nat, posts' \in Nat, faults' \in Nat
  PROVE  ServiceInv'
<1>1. ServiceTypeOK' BY TableTypes DEF ServiceInv, ServiceTypeOK
<1>2. ClaimsFit'
  <2>1. claim' \in [Servers -> Claim \cup {Null}] BY DEF ServiceInv, ServiceTypeOK
  <2> QED BY <2>1, ClaimsStay
<1>3. HolderIsInside' BY DEF ServiceInv, HolderIsInside
<1>4. RunningIsWorkedOn' BY WorkStays
<1> QED BY <1>1, <1>2, <1>3, <1>4 DEF ServiceInv

\* An attempt that ends together with its row, if it has one.
LEMMA EndStep ==
  ASSUME ServiceInv, SegmentsFit', NothingStarts, UNCHANGED <<lock, phase>>,
         rows' = [x \in SegmentIds |-> rows'[x]], target' = [x \in SegmentIds |-> target'[x]],
         committed' = [x \in SegmentIds |-> committed'[x]],
         clock' \in Nat, posts' \in Nat, faults' \in Nat,
         NEW r \in Servers, claim' = [claim EXCEPT ![r] = Null],
         lock = r => ~At(rows'[claim[r].segment], claim[r].source.boundary, {"running"})
  PROVE  ServiceInv'
<1>0. claim \in [Servers -> Claim \cup {Null}] /\ lock \in Servers \cup {Null}
  BY DEF ServiceInv, ServiceTypeOK
<1>1. claim' \in [Servers -> Claim \cup {Null}] /\ \A x \in Servers : claim'[x] \in {claim[x], Null}
  BY <1>0
<1>2. ServiceTypeOK' BY <1>1, TableTypes DEF ServiceInv, ServiceTypeOK
<1>3. ClaimsFit' BY <1>1, ClaimsStay
<1>4. HolderIsInside' BY DEF ServiceInv, HolderIsInside
<1>5. \A x \in Servers : x # r => claim'[x] = claim[x] BY <1>0
<1>6. RunningIsWorkedOn' BY <1>0, <1>5, WorkStays
<1> QED BY <1>2, <1>3, <1>4, <1>6 DEF ServiceInv

LEMMA EnqueueStep ==
  ASSUME ServiceInv, NEW s \in SegmentIds, Enqueue(s) PROVE ServiceInv'
<1>0. /\ rows \in [SegmentIds -> [Boundaries -> Row \cup {Null}]]
      /\ target \in [SegmentIds -> Target \cup {Null}]
      /\ committed \in [SegmentIds -> Segment \cup {Null}]
      /\ clock \in Nat /\ posts \in Nat /\ faults \in Nat
  BY DEF ServiceInv, ServiceTypeOK
<1>1. posts' = posts + 1 /\ UNCHANGED <<lock, phase, claim, faults>> BY DEF Enqueue
<1>2. PICK q \in Submission :
        PostLower(s, q) \/ PostAgain(s, q) \/ PostSettled(s, q) \/ PostChanged(s, q)
  BY DEF Enqueue
<1>3. SegmentsFit' /\ NothingStarts BY <1>2, PostFits
<1>4. rows' = [x \in SegmentIds |-> rows'[x]]
  BY <1>0, <1>2 DEF PostLower, PostAgain, PostSettled, PostChanged
<1>5. target' = [x \in SegmentIds |-> target'[x]]
  BY <1>0, <1>2 DEF PostLower, PostAgain, PostSettled, PostChanged
<1>6. committed' = [x \in SegmentIds |-> committed'[x]] /\ clock' \in {clock, clock + 1}
  BY <1>0, <1>2 DEF PostLower, PostAgain, PostSettled, PostChanged
<1> QED BY <1>0, <1>1, <1>3, <1>4, <1>5, <1>6, PostStep

LEMMA WorkStep ==
  ASSUME ServiceInv, NEW r \in Servers, Work(r) PROVE ServiceInv'
<1>0. /\ rows \in [SegmentIds -> [Boundaries -> Row \cup {Null}]]
      /\ target \in [SegmentIds -> Target \cup {Null}]
      /\ committed \in [SegmentIds -> Segment \cup {Null}]
      /\ clock \in Nat /\ posts \in Nat /\ faults \in Nat
      /\ lock \in Servers \cup {Null} /\ claim \in [Servers -> Claim \cup {Null}]
      /\ phase \in [Servers -> {"outside", "recovering", "looping"}]
      /\ ServiceTypeOK /\ SegmentsFit
  BY DEF ServiceInv, ServiceTypeOK
<1>1. CASE TryLock(r)
  <2>1. /\ lock = Null /\ lock' = r /\ phase' = [phase EXCEPT ![r] = "recovering"]
        /\ UNCHANGED <<rows, target, committed, clock, claim, posts, faults>>
    BY <1>1 DEF TryLock, tables
  <2>2. ServiceTypeOK' BY <1>0, <2>1 DEF ServiceTypeOK
  <2>3. SegmentsFit' BY <1>0, <2>1 DEF SegmentsFit
  <2>4. ClaimsFit'
    <3>1. NothingStarts BY <2>1 DEF NothingStarts
    <3> QED BY <1>0, <2>1, <3>1, ClaimsStay
  <2>5. HolderIsInside' /\ RunningIsWorkedOn'
    BY <1>0, <2>1 DEF HolderIsInside, RunningIsWorkedOn
  <2> QED BY <2>2, <2>3, <2>4, <2>5 DEF ServiceInv
<1>2. CASE RecoverRunningJobs(r)
  <2>1. /\ phase' = [phase EXCEPT ![r] = "looping"]
        /\ UNCHANGED <<target, committed, clock, lock, claim, posts, faults>>
    BY <1>2 DEF RecoverRunningJobs
  <2>2. /\ SegmentsFit' /\ NothingStarts
        /\ \A s \in SegmentIds, b \in Boundaries : ~At(rows'[s], b, {"running"})
    BY <1>2, RecoverFits
  <2>3. rows' = [x \in SegmentIds |-> rows'[x]] BY <1>2 DEF RecoverRunningJobs
  <2>4. /\ target' = [x \in SegmentIds |-> target'[x]]
        /\ committed' = [x \in SegmentIds |-> committed'[x]]
    BY <1>0, <2>1
  <2>5. ServiceTypeOK' BY <1>0, <2>1, <2>2, <2>3, <2>4, TableTypes DEF ServiceTypeOK
  <2>6. ClaimsFit' BY <1>0, <2>1, <2>2, ClaimsStay
  <2>7. HolderIsInside' BY <1>0, <2>1 DEF ServiceInv, HolderIsInside
  <2>8. RunningIsWorkedOn' BY <2>2 DEF RunningIsWorkedOn, Is, At
  <2> QED BY <2>2, <2>5, <2>6, <2>7, <2>8 DEF ServiceInv
<1>3. ASSUME NEW s \in SegmentIds, ClaimOldestJob(r, s) PROVE ServiceInv'
  <2>1. /\ phase[r] = "looping" /\ lock = r /\ claim[r] = Null
        /\ UNCHANGED <<target, committed, clock, lock, phase, posts, faults>>
    BY <1>3 DEF ClaimOldestJob
  <2>2. PICK b : b = claim'[r].source.boundary OBVIOUS
  <2>3. /\ SegmentsFit'
        /\ claim'[r] # Null /\ claim'[r] \in Claim /\ claim'[r].prepared = Null
        /\ claim'[r].segment = s /\ b \in Boundaries
        /\ At(rows'[s], b, {"running"}) /\ rows'[s][b].lease = r
        /\ rows'[s][b].source = claim'[r].source
        /\ rows'[s][b].generation = claim'[r].generation
        /\ rows'[s][b].attempts = claim'[r].attempts
        /\ \A x \in SegmentIds, d \in Boundaries : x # s \/ d # b => rows'[x][d] = rows[x][d]
        /\ \A x \in Servers : x # r => claim'[x] = claim[x]
        /\ At(rows[s], b, {"pending"})
    BY <1>3, <2>2, ClaimFits
  <2>4. \A x \in SegmentIds, d \in Boundaries : ~At(rows[x], d, {"running"})
    BY <2>1, NullIsNothing DEF ServiceInv, RunningIsWorkedOn, Is, At
  <2>5. rows' = [x \in SegmentIds |-> rows'[x]] /\ claim' = [x \in Servers |-> claim'[x]]
    BY <1>0, <1>3 DEF ClaimOldestJob
  <2>6. /\ target' = [x \in SegmentIds |-> target'[x]]
        /\ committed' = [x \in SegmentIds |-> committed'[x]]
    BY <1>0, <2>1
  <2>7. claim' \in [Servers -> Claim \cup {Null}] BY <1>0, <2>3, <2>5
  <2>8. ServiceTypeOK' BY <1>0, <2>1, <2>3, <2>5, <2>6, <2>7, TableTypes DEF ServiceTypeOK
  <2>9. \A x \in SegmentIds, d \in Boundaries : At(rows'[x], d, {"running"}) => x = s /\ d = b
    BY <2>3, <2>4 DEF At
  <2>10. ClaimsFit'
    <3> SUFFICES ASSUME NEW x \in Servers, claim'[x] # Null
                 PROVE  /\ claim'[x].prepared # Null =>
                              /\ claim'[x].prepared.boundary = claim'[x].source.boundary
                              /\ claim'[x].prepared.content = claim'[x].source.content
                        /\ Holds(x)' =>
                              /\ RowOf(x)'.source = claim'[x].source
                              /\ RowOf(x)'.generation = claim'[x].generation
                              /\ RowOf(x)'.attempts = claim'[x].attempts
      BY DEF ClaimsFit
    <3>1. CASE x = r BY <2>2, <2>3, <3>1 DEF RowOf
    <3>2. CASE x # r
      <4>1. claim'[x] = claim[x] /\ claim[x] \in Claim BY <1>0, <2>3, <3>2
      <4>2. claim[x].segment \in SegmentIds /\ claim[x].source \in Submission BY <4>1 DEF Claim
      <4>3. claim[x].source.boundary \in Boundaries BY <4>2, SnapshotFields
      <4>4. ~Holds(x)' BY <2>3, <2>9, <3>2, <4>1, <4>2, <4>3 DEF Holds, RowOf, At
      <4> QED BY <4>1, <4>4 DEF ServiceInv, ClaimsFit
    <3> QED BY <3>1, <3>2
  <2>11. HolderIsInside' BY <2>1 DEF ServiceInv, HolderIsInside
  <2>12. RunningIsWorkedOn' BY <2>1, <2>3, <2>9 DEF RunningIsWorkedOn, Is, At
  <2> QED BY <2>3, <2>8, <2>10, <2>11, <2>12 DEF ServiceInv
<1>4. CASE NoticeLoss(r)
  <2>1. /\ lock # r /\ phase' = [phase EXCEPT ![r] = "outside"]
        /\ UNCHANGED <<rows, target, committed, clock, lock, claim, posts, faults>>
    BY <1>4 DEF NoticeLoss, tables
  <2>2. ServiceTypeOK' BY <1>0, <2>1 DEF ServiceTypeOK
  <2>3. SegmentsFit' BY <1>0, <2>1 DEF SegmentsFit
  <2>4. ClaimsFit'
    <3>1. NothingStarts BY <2>1 DEF NothingStarts
    <3> QED BY <1>0, <2>1, <3>1, ClaimsStay
  <2>5. lock # Null => phase'[lock] = phase[lock] BY <1>0, <2>1
  <2>6. HolderIsInside' BY <2>1, <2>5 DEF ServiceInv, HolderIsInside
  <2>7. RunningIsWorkedOn' BY <2>1, <2>5 DEF ServiceInv, RunningIsWorkedOn, Is
  <2> QED BY <2>2, <2>3, <2>4, <2>6, <2>7 DEF ServiceInv
<1> QED BY <1>1, <1>2, <1>3, <1>4 DEF Work

LEMMA ProcessStep ==
  ASSUME ServiceInv, NEW r \in Servers, Process(r) PROVE ServiceInv'
<1>0. /\ rows \in [SegmentIds -> [Boundaries -> Row \cup {Null}]]
      /\ target \in [SegmentIds -> Target \cup {Null}]
      /\ committed \in [SegmentIds -> Segment \cup {Null}]
      /\ clock \in Nat /\ posts \in Nat /\ faults \in Nat
      /\ lock \in Servers \cup {Null} /\ claim \in [Servers -> Claim \cup {Null}]
      /\ ServiceTypeOK /\ SegmentsFit
  BY DEF ServiceInv, ServiceTypeOK
<1>1. CASE Prepare(r)
  <2>1. UNCHANGED <<rows, target, committed, clock, lock, phase, posts, faults>>
    BY <1>1 DEF Prepare, tables, InTables
  <2>2. claim[r] # Null /\ claim[r] \in Claim BY <1>0, <1>1 DEF Prepare
  <2>3. PICK text \in Summaries :
          claim' = [claim EXCEPT ![r].prepared =
            [boundary |-> claim[r].source.boundary, content |-> claim[r].source.content,
             text |-> text]]
    BY <1>1 DEF Prepare
  <2>4. PICK p : p = [boundary |-> claim[r].source.boundary, content |-> claim[r].source.content,
                      text |-> text] OBVIOUS
  <2>5. PICK old \in Claim : old = claim[r] BY <2>2
  <2>6. old.source \in Submission BY DEF Claim
  <2>7. /\ p \in Result /\ p.boundary = old.source.boundary /\ p.content = old.source.content
    BY <2>4, <2>5, <2>6, SnapshotFields DEF Result
  <2>8. PICK new : new = [old EXCEPT !.prepared = p] OBVIOUS
  <2>9. /\ new \in Claim /\ new.prepared = p /\ new.source = old.source /\ new.segment = old.segment
        /\ new.generation = old.generation /\ new.attempts = old.attempts
    BY <2>7, <2>8 DEF Claim
  <2>10. claim' = [claim EXCEPT ![r] = new] BY <2>3, <2>4, <2>5, <2>8
  <2>11. claim'[r] = new /\ \A x \in Servers : x # r => claim'[x] = claim[x] BY <1>0, <2>10
  <2>12. ServiceTypeOK' BY <1>0, <2>1, <2>9, <2>10 DEF ServiceTypeOK
  <2>13. SegmentsFit' BY <1>0, <2>1 DEF SegmentsFit
  <2>14. ClaimsFit'
    <3>1. \A x \in Servers : claim'[x].segment = claim[x].segment /\ claim'[x].source = claim[x].source
      BY <2>5, <2>9, <2>11
    <3>2. \A x \in Servers : RowOf(x)' = RowOf(x) /\ (Holds(x)' <=> Holds(x))
      BY <2>1, <3>1 DEF RowOf, Holds
    <3>3. \A x \in Servers : x # r => claim'[x] = claim[x] BY <2>11
    <3> QED BY <2>2, <2>5, <2>7, <2>9, <2>11, <3>2, <3>3 DEF ServiceInv, ClaimsFit
  <2>15. HolderIsInside' BY <2>1 DEF ServiceInv, HolderIsInside
  <2>16. RunningIsWorkedOn'
    <3>1. new # Null BY <2>9, NullIsNothing
    <3> QED BY <1>0, <2>1, <2>5, <2>9, <2>11, <3>1 DEF ServiceInv, RunningIsWorkedOn, Is
  <2> QED BY <2>12, <2>13, <2>14, <2>15, <2>16 DEF ServiceInv
<1>2. CASE CommitExtraction(r)
  <2>1. /\ SegmentsFit' /\ NothingStarts
        /\ ~At(rows'[claim[r].segment], claim[r].source.boundary, {"running"})
    BY <1>2, CommitFits
  <2>2. claim' = [claim EXCEPT ![r] = Null] /\ UNCHANGED <<clock, lock, phase, posts, faults>>
    BY <1>2 DEF CommitExtraction, Done, InTables
  <2>3. /\ rows' = [x \in SegmentIds |-> rows'[x]]
        /\ target' = [x \in SegmentIds |-> target'[x]]
        /\ committed' = [x \in SegmentIds |-> committed'[x]]
    BY <1>0, <1>2 DEF CommitExtraction
  <2> QED BY <1>0, <2>1, <2>2, <2>3, EndStep
<1>3. ASSUME NEW terminal \in BOOLEAN, FinishFailedAttempt(r, terminal) PROVE ServiceInv'
  <2>1. /\ SegmentsFit' /\ NothingStarts
        /\ ~At(rows'[claim[r].segment], claim[r].source.boundary, {"running"})
    BY <1>3, FinishFits
  <2>2. /\ claim' = [claim EXCEPT ![r] = Null]
        /\ UNCHANGED <<committed, clock, lock, phase, posts, faults>>
    BY <1>3 DEF FinishFailedAttempt, Done, InTables
  <2>3. /\ rows' = [x \in SegmentIds |-> rows'[x]]
        /\ target' = [x \in SegmentIds |-> target'[x]]
        /\ committed' = [x \in SegmentIds |-> committed'[x]]
    BY <1>0, <1>3, <2>2 DEF FinishFailedAttempt
  <2> QED BY <1>0, <2>1, <2>2, <2>3, EndStep
<1>4. CASE RequeueLatestTarget(r)
  <2>1. /\ SegmentsFit' /\ NothingStarts
        /\ ~At(rows'[claim[r].segment], claim[r].source.boundary, {"running"})
    BY <1>4, RequeueFits
  <2>2. /\ claim' = [claim EXCEPT ![r] = Null]
        /\ UNCHANGED <<target, committed, clock, lock, phase, posts, faults>>
    BY <1>4 DEF RequeueLatestTarget, Done, InTables
  <2>3. /\ rows' = [x \in SegmentIds |-> rows'[x]]
        /\ target' = [x \in SegmentIds |-> target'[x]]
        /\ committed' = [x \in SegmentIds |-> committed'[x]]
    BY <1>0, <1>4, <2>2 DEF RequeueLatestTarget
  <2> QED BY <1>0, <2>1, <2>2, <2>3, EndStep
<1>5. CASE IgnoreStaleLease(r)
  <2>1. /\ claim[r] # Null /\ ~Holds(r) /\ claim' = [claim EXCEPT ![r] = Null]
        /\ UNCHANGED <<rows, target, committed, clock, lock, phase, posts, faults>>
    BY <1>5 DEF IgnoreStaleLease, Done, InTables, tables
  <2>2. SegmentsFit' /\ NothingStarts BY <1>0, <2>1 DEF SegmentsFit, NothingStarts
  <2>3. claim[r].segment \in SegmentIds /\ claim[r].source.boundary \in Boundaries
    <3>1. claim[r] \in Claim BY <1>0, <2>1
    <3>2. claim[r].segment \in SegmentIds /\ claim[r].source \in Submission BY <3>1 DEF Claim
    <3> QED BY <3>2, SnapshotFields
  <2>4. ClaimsFit'
    <3>1. claim' \in [Servers -> Claim \cup {Null}] /\ \A x \in Servers : claim'[x] \in {claim[x], Null}
      BY <1>0, <2>1
    <3> QED BY <2>2, <3>1, ClaimsStay
  <2>5. RunningIsWorkedOn'
    <3> SUFFICES ASSUME NEW s \in SegmentIds, NEW b \in Boundaries, Is(s, b, {"running"}),
                        lock # Null, phase[lock] = "looping"
                 PROVE  lock # r \/ claim[r].segment # s \/ claim[r].source # rows[s][b].source
      BY <1>0, <2>1 DEF ServiceInv, RunningIsWorkedOn, Is
    <3>1. rows[s][b].lease = lock BY DEF ServiceInv, RunningIsWorkedOn
    <3>2. rows[s][b].source.boundary = b BY DEF SegmentsFit, ServiceInv, Fits, Is
    <3> QED BY <2>1, <3>1, <3>2 DEF Holds, RowOf, Is
  <2>6. ServiceTypeOK' /\ HolderIsInside'
    BY <1>0, <2>1 DEF ServiceInv, ServiceTypeOK, HolderIsInside
  <2> QED BY <2>2, <2>4, <2>5, <2>6 DEF ServiceInv
<1> QED BY <1>1, <1>2, <1>3, <1>4, <1>5 DEF Process

LEMMA FaultStep ==
  ASSUME ServiceInv, NEW r \in Servers, Fault(r) PROVE ServiceInv'
<1>0. /\ rows \in [SegmentIds -> [Boundaries -> Row \cup {Null}]]
      /\ faults \in Nat /\ lock \in Servers \cup {Null} /\ claim \in [Servers -> Claim \cup {Null}]
      /\ phase \in [Servers -> {"outside", "recovering", "looping"}]
      /\ ServiceTypeOK /\ SegmentsFit
  BY DEF ServiceInv, ServiceTypeOK
<1>1. faults' = faults + 1 /\ UNCHANGED <<rows, target, committed, clock, posts>>
  BY DEF Fault, FailureUnrecorded, LoseConnection, EndProcess, tables
<1>2. NothingStarts /\ SegmentsFit' BY <1>0, <1>1 DEF NothingStarts, SegmentsFit
<1>3. claim' \in [Servers -> Claim \cup {Null}] /\ \A x \in Servers : claim'[x] \in {claim[x], Null}
  BY <1>0 DEF Fault, FailureUnrecorded, LoseConnection, EndProcess, Done
<1>4. ClaimsFit' BY <1>2, <1>3, ClaimsStay
<1>5. lock' \in {lock, Null} /\ phase' \in [Servers -> {"outside", "recovering", "looping"}]
  BY <1>0 DEF Fault, FailureUnrecorded, LoseConnection, EndProcess, Unlocked
<1>6. ServiceTypeOK' BY <1>0, <1>1, <1>3, <1>5 DEF ServiceTypeOK
<1>7. lock' # Null => lock' = lock /\ lock # r
  BY <1>5 DEF Fault, FailureUnrecorded, LoseConnection, EndProcess, Unlocked
<1>8. lock' # Null => phase'[lock] = phase[lock] /\ claim'[lock] = claim[lock]
  BY <1>0, <1>7 DEF Fault, FailureUnrecorded, LoseConnection, EndProcess, Done
<1>9. HolderIsInside' BY <1>7, <1>8 DEF ServiceInv, HolderIsInside
<1>10. RunningIsWorkedOn' BY <1>1, <1>7, <1>8 DEF ServiceInv, RunningIsWorkedOn, Is
<1> QED BY <1>2, <1>4, <1>6, <1>9, <1>10 DEF ServiceInv

LEMMA ServiceStep ==
  ASSUME ServiceInv, [ServiceNext]_serviceVars PROVE ServiceInv'
<1>1. CASE UNCHANGED serviceVars
  <2>1. UNCHANGED <<rows, target, committed, clock, lock, phase, claim, posts, faults>>
    BY <1>1 DEF serviceVars, tables
  <2>2. SegmentsFit' /\ NothingStarts BY <2>1 DEF ServiceInv, SegmentsFit, NothingStarts
  <2>3. ClaimsFit'
    <3>1. claim' \in [Servers -> Claim \cup {Null}] BY <2>1 DEF ServiceInv, ServiceTypeOK
    <3> QED BY <2>1, <2>2, <3>1, ClaimsStay
  <2>4. ServiceTypeOK' /\ HolderIsInside' /\ RunningIsWorkedOn'
    BY <2>1 DEF ServiceInv, ServiceTypeOK, HolderIsInside, RunningIsWorkedOn, Is
  <2> QED BY <2>2, <2>3, <2>4 DEF ServiceInv
<1>2. ASSUME NEW s \in SegmentIds, Enqueue(s) PROVE ServiceInv' BY <1>2, EnqueueStep
<1>3. ASSUME NEW s \in SegmentIds, NEW b \in Boundaries, RetryFailedJob(s, b) \/ BackoffPasses(s, b)
      PROVE  ServiceInv'
  <2>1. SegmentsFit' /\ NothingStarts BY <1>3, RetryFits, BackoffFits
  <2>2. /\ rows \in [SegmentIds -> [Boundaries -> Row \cup {Null}]]
        /\ target \in [SegmentIds -> Target \cup {Null}]
        /\ committed \in [SegmentIds -> Segment \cup {Null}]
        /\ clock \in Nat /\ posts \in Nat /\ faults \in Nat
    BY DEF ServiceInv, ServiceTypeOK
  <2>3. /\ UNCHANGED <<target, committed, clock, lock, phase, claim, faults>>
        /\ posts' \in {posts, posts + 1} /\ rows' = [x \in SegmentIds |-> rows'[x]]
    BY <1>3, <2>2 DEF RetryFailedJob, BackoffPasses
  <2>4. /\ target' = [x \in SegmentIds |-> target'[x]]
        /\ committed' = [x \in SegmentIds |-> committed'[x]]
    BY <2>2, <2>3
  <2> QED BY <2>1, <2>2, <2>3, <2>4, PostStep
<1>4. ASSUME NEW r \in Servers, Work(r) \/ Process(r) \/ Fault(r) PROVE ServiceInv'
  BY <1>4, WorkStep, ProcessStep, FaultStep
<1> QED BY <1>1, <1>2, <1>3, <1>4 DEF ServiceNext

(* The rows of a segment, its target and its summary fit together, and an attempt that may still  *)
(* write knows its row: the invariant from which the rest follows.                               *)
THEOREM ServiceInvariant == ServiceSpec => []ServiceInv
<1>1. ServiceInit => ServiceInv BY InitFits
<1>2. ServiceInv /\ [ServiceNext]_serviceVars => ServiceInv' BY ServiceStep
<1> QED BY <1>1, <1>2, PTL DEF ServiceSpec

(* What the first server has accepted is always in its queue, for any posts, failures and faults: *)
(* enqueue, recover_running_jobs and _requeue_latest_target never strand a target.               *)
THEOREM ServiceKeepsThePosted == ServiceSpec => []PostedIsQueued
<1>1. ServiceInv => PostedIsQueued
  BY DEF ServiceInv, SegmentsFit, Fits, PostedIsQueued, At, Agree, Is, RowMatches
<1> QED BY <1>1, ServiceInvariant, PTL

(* The first worker never goes on beside a running row that it does not work on: whatever fails    *)
(* in _process makes _run give up the lock, and whoever takes it recovers first.                 *)
THEOREM ServiceWorksOnWhatRuns == ServiceSpec => []RunningIsWorkedOn
<1>1. ServiceInv => RunningIsWorkedOn BY DEF ServiceInv
<1> QED BY <1>1, ServiceInvariant, PTL
-----------------------------------------------------------------------------
(* Each segment is a SegmentMemory. *)

MemoryStep(s) == [Archive(s)!Next]_(Archive(s)!vars)

LEMMA StepStutter ==
  ASSUME NEW s \in SegmentIds, WantedOf(s)' = WantedOf(s), DraftOf(s)' = DraftOf(s),
         committed'[s] = committed[s]
  PROVE  MemoryStep(s)
<1>1. UNCHANGED Archive(s)!vars BY DEF Archive!vars
<1> QED BY <1>1 DEF MemoryStep

LEMMA StepDiscard ==
  ASSUME NEW s \in SegmentIds, WantedOf(s) # Null, WantedOf(s)' = WantedOf(s), DraftOf(s)' = Null,
         committed'[s] = committed[s]
  PROVE  MemoryStep(s)
<1>1. Archive(s)!Discard(s) BY DEF Archive!Discard
<1> QED BY <1>1 DEF MemoryStep, Archive!Next

LEMMA StepWithdraw ==
  ASSUME NEW s \in SegmentIds, WantedOf(s) # Null, WantedOf(s)' = Null, DraftOf(s)' = Null,
         committed'[s] = committed[s]
  PROVE  MemoryStep(s)
<1>1. Archive(s)!Withdraw(s) BY DEF Archive!Withdraw
<1> QED BY <1>1 DEF MemoryStep, Archive!Next

LEMMA StepDraft ==
  ASSUME NEW s \in SegmentIds, WantedOf(s) # Null, WantedOf(s)' = WantedOf(s), NEW text \in Summaries,
         DraftOf(s)' = [boundary |-> WantedOf(s).source.boundary,
                        content |-> WantedOf(s).source.content, text |-> text],
         committed'[s] = committed[s]
  PROVE  MemoryStep(s)
<1>1. Archive(s)!Draft(s) BY DEF Archive!Draft, Archive!ResultOf
<1> QED BY <1>1 DEF MemoryStep, Archive!Next

LEMMA StepCommit ==
  ASSUME NEW s \in SegmentIds, WantedOf(s) # Null, WantedOf(s)' = Null,
         DraftOf(s) # Null, DraftOf(s)' = Null,
         committed'[s] = [source |-> WantedOf(s).source, generation |-> WantedOf(s).generation,
                          extraction |-> DraftOf(s)]
  PROVE  MemoryStep(s)
<1>1. Archive(s)!Commit(s) BY DEF Archive!Commit
<1> QED BY <1>1 DEF MemoryStep, Archive!Next

LEMMA StepPost ==
  ASSUME NEW s \in SegmentIds, NEW q \in Submission, NEW g \in 1..MaxPosts,
         WantedOf(s)' = [source |-> q, generation |-> g], DraftOf(s)' = Null,
         committed'[s] = committed[s],
         WantedOf(s) # Null =>
           WantedOf(s).generation < g /\ WantedOf(s).source.version <= q.version,
         committed[s] # Null =>
           committed[s].generation < g /\ committed[s].source.version <= q.version
  PROVE  MemoryStep(s)
<1>1. Archive(s)!Post(s)
  <2>1. \A old \in {WantedOf(s), committed[s]} \ {Null} :
          old.generation < g /\ old.source.version <= q.version
    OBVIOUS
  <2> QED BY <2>1 DEF Archive!Post
<1> QED BY <1>1 DEF MemoryStep, Archive!Next

LEMMA WantedIs ==
  ASSUME NEW s \in SegmentIds, target[s] # Null, target[s] \in Target
  PROVE  /\ WantedOf(s) # Null /\ WantedOf(s).source = target[s].source
         /\ WantedOf(s).generation = target[s].generation
<1>1. PICK w : w = [source |-> target[s].source, generation |-> target[s].generation] OBVIOUS
<1>2. w \in Wish BY <1>1 DEF Wish, Target
<1>3. WantedOf(s) = w BY <1>1 DEF WantedOf
<1> QED BY <1>1, <1>2, <1>3, NullIsNothing

\* Only one attempt can commit, and it holds the target's row.
LEMMA DraftHolds ==
  ASSUME ServiceInv, NEW s \in SegmentIds, NEW r \in Drafts(s)
  PROVE  /\ claim[r] # Null /\ claim[r].segment = s /\ claim[r].prepared # Null
         /\ Holds(r) /\ Matches(r) /\ target[s] # Null /\ target[s] \in Target
         /\ claim[r].source.boundary = target[s].source.boundary
         /\ At(rows[s], target[s].source.boundary, {"running"})
         /\ rows[s][target[s].source.boundary].lease = r
  BY DEF Drafts, Holds, Matches, RowOf, TargetOf, At, ServiceInv, ServiceTypeOK

LEMMA OneDraft ==
  ASSUME ServiceInv, NEW s \in SegmentIds, NEW r \in Drafts(s)
  PROVE  Drafts(s) = {r} /\ DraftOf(s) = claim[r].prepared
<1>1. \A x \in Drafts(s) : x = r BY DraftHolds
<1>2. Drafts(s) = {r} BY <1>1
<1> QED BY <1>2 DEF DraftOf

LEMMA NoDraft ==
  ASSUME ServiceInv, NEW s \in SegmentIds,
         target[s] = Null \/ ~At(rows[s], target[s].source.boundary, {"running"})
  PROVE  Drafts(s) = {} /\ DraftOf(s) = Null
<1>1. Drafts(s) = {} BY DraftHolds
<1> QED BY <1>1 DEF DraftOf

\* What an operation does to the drafts.
LEMMA DraftsGone ==
  ASSUME NEW s \in SegmentIds, Drafts(s)' = {} PROVE DraftOf(s)' = Null
  BY DEF DraftOf

LEMMA NoDraftAfter ==
  ASSUME NEW s \in SegmentIds,
         target'[s] = Null \/ ~At(rows'[s], target'[s].source.boundary, {"running"})
  PROVE  DraftOf(s)' = Null
<1>1. Drafts(s)' = {} BY DEF Drafts, Holds, Matches, RowOf, TargetOf, At
<1> QED BY <1>1, DraftsGone

LEMMA Untouched ==
  ASSUME NEW s \in SegmentIds,
         rows'[s] = rows[s], target'[s] = target[s], committed'[s] = committed[s],
         \A r \in Servers : claim'[r] # claim[r] => r \notin Drafts(s) /\ r \notin Drafts(s)'
  PROVE  MemoryStep(s)
<1>1. ASSUME NEW r \in Servers, claim'[r] = claim[r]
      PROVE  r \in Drafts(s) <=> r \in Drafts(s)'
  <2>1. claim[r].segment = s =>
          /\ claim'[r].segment = s /\ RowOf(r)' = RowOf(r) /\ TargetOf(r)' = TargetOf(r)
    BY <1>1 DEF RowOf, TargetOf
  <2>2. claim[r].segment = s => (Holds(r)' <=> Holds(r)) BY <2>1 DEF Holds
  <2>3. claim[r].segment = s => (Matches(r)' <=> Matches(r)) BY <1>1, <2>1 DEF Matches
  <2> QED BY <1>1, <2>2, <2>3 DEF Drafts
<1>2. \A r : r \in Drafts(s) \/ r \in Drafts(s)' => r \in Servers BY DEF Drafts
<1>3. Drafts(s)' = Drafts(s) BY <1>1, <1>2
<1>4. Drafts(s) # {} => (CHOOSE r \in Drafts(s) : TRUE) \in Drafts(s) OBVIOUS
<1>5. DraftOf(s)' = DraftOf(s) BY <1>2, <1>3, <1>4 DEF DraftOf
<1>6. WantedOf(s)' = WantedOf(s) BY DEF WantedOf
<1> QED BY <1>5, <1>6, StepStutter

LEMMA EnqueueRefines ==
  ASSUME ServiceInv, NEW x \in SegmentIds, Enqueue(x), NEW s \in SegmentIds
  PROVE  MemoryStep(s)
<1>0. /\ rows \in [SegmentIds -> [Boundaries -> Row \cup {Null}]]
      /\ target \in [SegmentIds -> Target \cup {Null}]
      /\ committed \in [SegmentIds -> Segment \cup {Null}]
      /\ claim' = claim /\ SegmentsFit /\ claim \in [Servers -> Claim \cup {Null}]
  BY DEF ServiceInv, ServiceTypeOK, Enqueue
<1>1. PICK q \in Submission :
        PostLower(x, q) \/ PostAgain(x, q) \/ PostSettled(x, q) \/ PostChanged(x, q)
  BY DEF Enqueue
<1>2. q.boundary \in Boundaries BY SnapshotFields
<1>3. SegmentsFit' /\ NothingStarts BY <1>1, PostFits
<1>4. CASE s # x
  <2>1. rows'[s] = rows[s] /\ target'[s] = target[s] /\ committed'[s] = committed[s]
    BY <1>0, <1>1, <1>4 DEF PostLower, PostAgain, PostSettled, PostChanged
  <2> QED BY <1>0, <2>1, Untouched
<1>5. CASE s = x /\ PostChanged(s, q)
  <2>1. PICK g \in 1..MaxPosts :
          /\ Newest(s, g)
          /\ target' = [target EXCEPT ![s] = [source |-> q, generation |-> g, since |-> clock]]
    BY <1>5 DEF PostChanged
  <2>2. UNCHANGED committed BY <1>5 DEF PostChanged
  <2>3. PICK w : w = [source |-> q, generation |-> g, since |-> clock] OBVIOUS
  <2>4. target'[s] = w /\ w.source = q /\ w.generation = g BY <1>0, <2>1, <2>3
  <2>5. w # Null
    <3>1. clock \in Nat /\ g \in Nat BY <2>1, ServiceAssumption DEF ServiceInv, ServiceTypeOK
    <3>2. w \in Target BY <2>3, <3>1 DEF Target
    <3> QED BY <3>2, NullIsNothing
  <2>6. WantedOf(s)' = [source |-> q, generation |-> g] BY <2>4, <2>5 DEF WantedOf
  <2>7. DraftOf(s)' = Null
    <3>1. SUFFICES ASSUME NEW r \in Servers, r \in Drafts(s)' PROVE FALSE
      <4>1. Drafts(s)' = {} BY <3>1 DEF Drafts
      <4> QED BY <4>1, DraftsGone
    <3>2. /\ claim[r] # Null /\ claim[r].segment = s /\ Holds(r)' /\ claim[r].generation = g
          /\ claim[r] \in Claim
      BY <1>0, <2>4, <3>1 DEF Drafts, Matches, TargetOf
    <3>3. claim[r].source \in Submission BY <3>2 DEF Claim
    <3>4. claim[r].source.boundary \in Boundaries BY <3>3, SnapshotFields
    <3>5. Holds(r) BY <1>0, <1>3, <3>2, <3>4 DEF Holds, RowOf, NothingStarts, At
    <3>6. RowOf(r) # Null /\ RowOf(r).generation = g
      BY <3>2, <3>5, HeldRow DEF Holds
    <3>7. rows[s][claim[r].source.boundary] # Null
          /\ rows[s][claim[r].source.boundary].generation = g
      BY <3>2, <3>6 DEF RowOf
    <3> QED BY <2>1, <3>4, <3>7 DEF Newest
  <2>8. target[s] # Null => target[s].generation < g BY <2>1 DEF Newest
  <2>9. committed[s] # Null => committed[s].generation < g BY <2>1 DEF Newest
  <2>10. ~Lower(s, q) BY <1>5 DEF PostChanged
  <2>11. target[s] # Null => target[s].source.version <= q.version
    <3>1. target[s] # Null => target[s].source \in Submission BY <1>0 DEF Target
    <3>2. target[s] # Null => target[s].source.version \in Nat BY <3>1, SnapshotFields
    <3> QED BY <2>10, <3>2, SnapshotFields DEF Lower
  <2>12. committed[s] # Null => committed[s].source.version <= q.version
    <3>1. committed[s] # Null => committed[s].source \in Submission BY <1>0 DEF Segment
    <3>2. committed[s] # Null => committed[s].source.version \in Nat BY <3>1, SnapshotFields
    <3> QED BY <2>10, <3>2, SnapshotFields DEF Lower
  <2>13. WantedOf(s) # Null =>
           WantedOf(s).generation < g /\ WantedOf(s).source.version <= q.version
    <3>1. target[s] = Null => WantedOf(s) = Null BY DEF WantedOf
    <3>2. target[s] # Null => /\ WantedOf(s).source = target[s].source
                              /\ WantedOf(s).generation = target[s].generation
      BY <1>0, WantedIs
    <3> QED BY <2>8, <2>11, <3>1, <3>2
  <2> QED BY <2>2, <2>6, <2>7, <2>9, <2>12, <2>13, StepPost
<1>6. CASE s = x /\ (PostLower(s, q) \/ PostAgain(s, q) \/ PostSettled(s, q))
  <2>1. target' = target /\ committed' = committed
    BY <1>6 DEF PostLower, PostAgain, PostSettled
  <2>2. CASE rows'[s] = rows[s] BY <1>0, <2>1, <2>2, Untouched
  <2>3. CASE rows'[s] # rows[s]
    <3>1. DraftOf(s) = Null \/ PostLower(s, q)
      <4>1. CASE PostAgain(s, q)
        <5>1. ~Running(s) BY <1>0, <1>2, <2>3, <4>1 DEF PostAgain
        <5>2. target[s] # Null => target[s].source.boundary \in Boundaries
          BY <1>0, TargetFields, SnapshotFields
        <5> QED BY <5>1, <5>2, NoDraft DEF Running, Is, At
      <4>2. CASE PostSettled(s, q) BY <4>2, NoDraft DEF PostSettled, Settled
      <4> QED BY <1>6, <4>1, <4>2
    <3>2. CASE DraftOf(s) = Null /\ ~PostLower(s, q)
      <4>1. target[s] = Null \/ ~At(rows[s], target[s].source.boundary, {"running"})
        <5>1. CASE PostAgain(s, q)
          <6>1. ~Running(s) BY <1>0, <1>2, <2>3, <5>1 DEF PostAgain
          <6>2. target[s] # Null => target[s].source.boundary \in Boundaries
            BY <1>0, TargetFields, SnapshotFields
          <6> QED BY <6>1, <6>2 DEF Running, Is, At
        <5>2. CASE PostSettled(s, q) BY <5>2 DEF PostSettled, Settled
        <5> QED BY <1>6, <3>2, <5>1, <5>2
      <4>2. target[s] # Null => target[s].source.boundary \in Boundaries
        BY <1>0, TargetFields, SnapshotFields
      <4>3. target'[s] = Null \/ ~At(rows'[s], target'[s].source.boundary, {"running"})
        BY <1>3, <2>1, <4>1, <4>2 DEF NothingStarts, At
      <4>4. DraftOf(s)' = Null BY <4>3, NoDraftAfter
      <4>5. WantedOf(s)' = WantedOf(s) BY <2>1 DEF WantedOf
      <4> QED BY <2>1, <3>2, <4>4, <4>5, StepStutter
    <3>3. CASE PostLower(s, q)
      <4>1. rows[s][q.boundary] = Null
        BY <1>0, <1>2, <2>3, <3>3 DEF PostLower
      <4>2. /\ \A b \in Boundaries : b # q.boundary => rows'[s][b] = rows[s][b]
            /\ rows'[s][q.boundary].status = "superseded"
        BY <1>0, <1>2, <3>3, <4>1 DEF PostLower
      <4>3. ASSUME NEW r \in Servers PROVE r \in Drafts(s)' <=> r \in Drafts(s)
        <5>1. claim[r] # Null /\ claim[r].segment = s => claim[r].source.boundary \in Boundaries
          <6>1. claim[r] # Null => claim[r] \in Claim BY <1>0
          <6>2. claim[r] # Null => claim[r].source \in Submission BY <6>1 DEF Claim
          <6> QED BY <6>2, SnapshotFields
        <5>2. claim[r] # Null /\ claim[r].segment = s => (Holds(r)' <=> Holds(r))
          BY <1>0, <4>1, <4>2, <5>1 DEF Holds, RowOf
        <5> QED BY <1>0, <2>1, <5>2 DEF Drafts, Matches, TargetOf
      <4>4. Drafts(s)' = Drafts(s) BY <4>3 DEF Drafts
      <4>5. DraftOf(s)' = DraftOf(s) BY <1>0, <4>4 DEF DraftOf
      <4>6. WantedOf(s)' = WantedOf(s) BY <2>1 DEF WantedOf
      <4> QED BY <2>1, <4>5, <4>6, StepStutter
    <3> QED BY <3>1, <3>2, <3>3
  <2> QED BY <2>2, <2>3
<1> QED BY <1>1, <1>4, <1>5, <1>6

LEMMA RepairRefines ==
  ASSUME ServiceInv, NEW x \in SegmentIds, NEW b \in Boundaries,
         RetryFailedJob(x, b) \/ BackoffPasses(x, b), NEW s \in SegmentIds
  PROVE  MemoryStep(s)
<1>0. /\ rows \in [SegmentIds -> [Boundaries -> Row \cup {Null}]]
      /\ target \in [SegmentIds -> Target \cup {Null}]
      /\ claim' = claim /\ target' = target /\ committed' = committed
      /\ Fits(rows[x], target[x], committed[x])
  BY DEF ServiceInv, ServiceTypeOK, SegmentsFit, RetryFailedJob, BackoffPasses
<1>1. NothingStarts BY RetryFits, BackoffFits
<1>2. CASE s # x
  <2>1. rows'[s] = rows[s] BY <1>0, <1>2 DEF RetryFailedJob, BackoffPasses
  <2> QED BY <1>0, <2>1, Untouched
<1>3. CASE s = x
  <2>1. At(rows[x], b, {"pending", "failed"}) BY DEF RetryFailedJob, BackoffPasses, Is, At
  <2>2. Agree(target[x], rows[x][b])
    BY <1>0 DEF RetryFailedJob, BackoffPasses, RowMatches, Fits, Is, At, Agree
  <2>3. target[x].source.boundary = b BY <1>0, <2>1, <2>2 DEF Fits, At, Agree
  <2>4. ~At(rows[s], target[s].source.boundary, {"running"}) BY <1>3, <2>1, <2>3 DEF At
  <2>5. ~At(rows'[s], target'[s].source.boundary, {"running"})
    BY <1>0, <1>1, <1>3, <2>3, <2>4 DEF NothingStarts, At
  <2>6. DraftOf(s) = Null /\ DraftOf(s)' = Null BY <2>4, <2>5, NoDraft, NoDraftAfter
  <2>7. WantedOf(s)' = WantedOf(s) BY <1>0 DEF WantedOf
  <2> QED BY <1>0, <2>6, <2>7, StepStutter
<1> QED BY <1>2, <1>3

LEMMA WorkRefines ==
  ASSUME ServiceInv, NEW r \in Servers, Work(r), NEW s \in SegmentIds
  PROVE  MemoryStep(s)
<1>0. /\ rows \in [SegmentIds -> [Boundaries -> Row \cup {Null}]]
      /\ target \in [SegmentIds -> Target \cup {Null}]
  BY DEF ServiceInv, ServiceTypeOK
<1>1. CASE TryLock(r) \/ NoticeLoss(r)
  <2>1. UNCHANGED <<rows, target, committed, claim>> BY <1>1 DEF TryLock, NoticeLoss, tables
  <2> QED BY <2>1, Untouched
<1>2. CASE RecoverRunningJobs(r)
  <2>1. UNCHANGED <<target, committed, claim>> BY <1>2 DEF RecoverRunningJobs
  <2>2. \A b \in Boundaries : ~At(rows'[s], b, {"running"}) BY <1>2, RecoverFits
  <2>3. target[s] # Null => target[s].source.boundary \in Boundaries
    BY <1>0, TargetFields, SnapshotFields
  <2>4. DraftOf(s)' = Null BY <2>1, <2>2, <2>3, NoDraftAfter
  <2>5. WantedOf(s)' = WantedOf(s) BY <2>1 DEF WantedOf
  <2>6. CASE target[s] = Null
    <3>1. DraftOf(s) = Null BY <2>6, NoDraft
    <3> QED BY <2>1, <2>4, <2>5, <3>1, StepStutter
  <2>7. CASE target[s] # Null
    <3>1. WantedOf(s) # Null BY <1>0, <2>7, WantedIs
    <3> QED BY <2>1, <2>4, <2>5, <3>1, StepDiscard
  <2> QED BY <2>6, <2>7
<1>3. ASSUME NEW x \in SegmentIds, ClaimOldestJob(r, x) PROVE MemoryStep(s)
  <2>1. claim[r] = Null /\ UNCHANGED <<target, committed>> BY <1>3 DEF ClaimOldestJob
  <2>2. /\ claim'[r].prepared = Null
        /\ \A y \in SegmentIds, d \in Boundaries :
             y # x \/ d # claim'[r].source.boundary => rows'[y][d] = rows[y][d]
        /\ \A y \in Servers : y # r => claim'[y] = claim[y]
        /\ rows'[x][claim'[r].source.boundary].lease = r
        /\ claim'[r].source.boundary \in Boundaries
        /\ At(rows[x], claim'[r].source.boundary, {"pending"})
    BY <1>3, ClaimFits
  <2>3. r \notin Drafts(s) /\ r \notin Drafts(s)' BY <2>1, <2>2 DEF Drafts
  <2>4. CASE s # x
    <3>1. rows'[s] = rows[s] BY <1>0, <1>3, <2>4 DEF ClaimOldestJob
    <3> QED BY <2>1, <2>2, <2>3, <2>4, <3>1, Untouched
  <2>5. CASE s = x
    <3>1. PICK b \in Boundaries : b = claim'[r].source.boundary BY <2>2
    <3>2. Agree(target[s], rows[s][b])
      BY <2>2, <2>5, <3>1 DEF ServiceInv, SegmentsFit, Fits
    <3>3. rows[s][b].source.boundary = b
      BY <2>2, <2>5, <3>1 DEF ServiceInv, SegmentsFit, Fits, At
    <3>4. target[s] # Null /\ target[s].source.boundary = b BY <3>2, <3>3 DEF Agree
    <3>5. ~At(rows[s], target[s].source.boundary, {"running"})
      BY <2>2, <2>5, <3>1, <3>4 DEF At
    <3>6. DraftOf(s) = Null BY <3>5, NoDraft
    <3>7. ASSUME NEW y \in Servers, y \in Drafts(s)' PROVE FALSE
      <4>1. y # r BY <2>3, <3>7
      <4>2. claim'[y] # Null /\ claim'[y].segment = s /\ Holds(y)' /\ Matches(y)'
        BY <3>7 DEF Drafts
      <4>3. claim'[y].source = target[s].source BY <2>1, <4>2 DEF Matches, TargetOf
      <4>4. rows'[s][b].lease = y BY <3>4, <4>2, <4>3 DEF Holds, RowOf
      <4> QED BY <2>2, <2>5, <3>1, <4>1, <4>4
    <3>8. Drafts(s)' = {} BY <3>7 DEF Drafts
    <3>9. DraftOf(s)' = Null BY <3>8, DraftsGone
    <3>10. WantedOf(s)' = WantedOf(s) BY <2>1 DEF WantedOf
    <3> QED BY <2>1, <3>6, <3>9, <3>10, StepStutter
  <2> QED BY <2>4, <2>5
<1> QED BY <1>1, <1>2, <1>3 DEF Work

\* An attempt that ends without a change of the tables takes its draft along.
LEMMA EndRefines ==
  ASSUME ServiceInv, NEW r \in Servers, UNCHANGED <<rows, target, committed>>,
         claim' = [claim EXCEPT ![r] = Null], NEW s \in SegmentIds
  PROVE  MemoryStep(s)
<1>1. claim'[r] = Null /\ \A x \in Servers : x # r => claim'[x] = claim[x]
  BY DEF ServiceInv, ServiceTypeOK
<1>2. r \notin Drafts(s)' BY <1>1 DEF Drafts
<1>3. CASE r \notin Drafts(s) BY <1>1, <1>2, <1>3, Untouched
<1>4. CASE r \in Drafts(s)
  <2>1. Drafts(s) = {r} /\ target[s] # Null /\ target[s] \in Target BY <1>4, OneDraft, DraftHolds
  <2>2. \A x \in Servers : x # r => (x \in Drafts(s)' <=> x \in Drafts(s))
    BY <1>1 DEF Drafts, Holds, Matches, RowOf, TargetOf
  <2>3. \A x : x \in Drafts(s)' => x \in Servers BY DEF Drafts
  <2>4. Drafts(s)' = {} BY <1>2, <2>1, <2>2, <2>3
  <2>5. DraftOf(s)' = Null BY <2>4, DraftsGone
  <2>6. WantedOf(s)' = WantedOf(s) /\ WantedOf(s) # Null
    <3>1. WantedOf(s) # Null BY <2>1, WantedIs
    <3> QED BY <3>1 DEF WantedOf
  <2> QED BY <2>5, <2>6, StepDiscard
<1> QED BY <1>3, <1>4

LEMMA ProcessRefines ==
  ASSUME ServiceInv, NEW r \in Servers, Process(r), NEW s \in SegmentIds
  PROVE  MemoryStep(s)
<1>0. /\ rows \in [SegmentIds -> [Boundaries -> Row \cup {Null}]]
      /\ target \in [SegmentIds -> Target \cup {Null}]
      /\ claim \in [Servers -> Claim \cup {Null}] /\ claim[r] # Null
  BY DEF ServiceInv, ServiceTypeOK, Process, Prepare, CommitExtraction, FinishFailedAttempt,
         RequeueLatestTarget, IgnoreStaleLease
<1>1. \A y \in Servers : y # r => claim'[y] = claim[y]
  BY <1>0 DEF Process, Prepare, CommitExtraction, FinishFailedAttempt, RequeueLatestTarget,
              IgnoreStaleLease, Done
<1>2. CASE Prepare(r)
  <2>1. UNCHANGED <<rows, target, committed>> /\ claim[r].prepared = Null
    BY <1>2 DEF Prepare, tables
  <2>2. r \notin Drafts(s) BY <2>1 DEF Drafts
  <2>3. CASE r \notin Drafts(s)' BY <1>1, <2>1, <2>2, <2>3, Untouched
  <2>4. CASE r \in Drafts(s)'
    <3>1. PICK text \in Summaries :
            claim' = [claim EXCEPT ![r].prepared =
              [boundary |-> claim[r].source.boundary, content |-> claim[r].source.content,
               text |-> text]]
      BY <1>2 DEF Prepare
    <3>2. PICK p : p = [boundary |-> claim[r].source.boundary, content |-> claim[r].source.content,
                        text |-> text] OBVIOUS
    <3>3. claim[r] \in Claim BY <1>0
    <3>4. /\ claim'[r].prepared = p /\ claim'[r].source = claim[r].source
          /\ claim'[r].segment = claim[r].segment
      BY <1>0, <3>1, <3>2, <3>3 DEF Claim
    <3>5. Matches(r)' /\ claim'[r].segment = s /\ Holds(r)' BY <2>4 DEF Drafts
    <3>6. target[s] # Null /\ target[s].source = claim[r].source
      BY <2>1, <3>4, <3>5 DEF Matches, TargetOf
    <3>7. rows[s][target[s].source.boundary].lease = r
      BY <2>1, <3>4, <3>5, <3>6 DEF Holds, RowOf
    <3>8. ASSUME NEW y \in Servers, y \in Drafts(s)' PROVE y = r
      <4>1. Holds(y)' /\ Matches(y)' /\ claim'[y].segment = s BY <3>8 DEF Drafts
      <4>2. claim'[y].source = target[s].source BY <2>1, <4>1 DEF Matches, TargetOf
      <4> QED BY <2>1, <3>7, <4>1, <4>2 DEF Holds, RowOf
    <3>9. Drafts(s)' = {r} BY <2>4, <3>8 DEF Drafts
    <3>10. DraftOf(s)' = p BY <3>4, <3>9 DEF DraftOf
    <3>11. target[s] \in Target BY <1>0, <3>6
    <3>12. WantedOf(s) # Null /\ WantedOf(s).source = claim[r].source BY <3>6, <3>11, WantedIs
    <3>13. WantedOf(s)' = WantedOf(s) BY <2>1 DEF WantedOf
    <3> QED BY <2>1, <3>2, <3>10, <3>12, <3>13, StepDraft
  <2> QED BY <2>3, <2>4
<1>3. CASE IgnoreStaleLease(r)
  <2>1. UNCHANGED <<rows, target, committed>> /\ claim' = [claim EXCEPT ![r] = Null]
    BY <1>3 DEF IgnoreStaleLease, tables, Done
  <2> QED BY <2>1, EndRefines
<1>4. CASE (CommitExtraction(r) \/ \E terminal \in BOOLEAN : FinishFailedAttempt(r, terminal)
              \/ RequeueLatestTarget(r)) /\ s # claim[r].segment
  <2>1. rows'[s] = rows[s] /\ target'[s] = target[s] /\ committed'[s] = committed[s]
    BY <1>4, CommitFits, FinishFits, RequeueFits
  <2>2. claim'[r] = Null
    BY <1>0, <1>4 DEF CommitExtraction, FinishFailedAttempt, RequeueLatestTarget, Done
  <2>3. r \notin Drafts(s) /\ r \notin Drafts(s)' BY <1>4, <2>2 DEF Drafts
  <2> QED BY <1>1, <2>1, <2>3, Untouched
<1>5. CASE CommitExtraction(r) /\ s = claim[r].segment
  <2>1. /\ claim[r].prepared # Null /\ Holds(r) /\ Matches(r) BY <1>5 DEF CommitExtraction
  <2>2. r \in Drafts(s) BY <1>0, <1>5, <2>1 DEF Drafts
  <2>3. /\ target'[s] = Null
        /\ committed'[s] = [source |-> claim[r].source, generation |-> claim[r].generation,
                            extraction |-> claim[r].prepared]
    BY <1>5, CommitFits
  <2>4. DraftOf(s) = claim[r].prepared BY <2>2, OneDraft
  <2>5. target[s] # Null /\ target[s] \in Target BY <2>2, DraftHolds
  <2>6. target[s].source = claim[r].source /\ target[s].generation = claim[r].generation
    BY <1>5, <2>1 DEF Matches, TargetOf
  <2>7. /\ WantedOf(s) # Null /\ WantedOf(s).source = claim[r].source
        /\ WantedOf(s).generation = claim[r].generation
    BY <2>5, <2>6, WantedIs
  <2>8. WantedOf(s)' = Null BY <2>3 DEF WantedOf
  <2>9. DraftOf(s)' = Null BY <2>3, NoDraftAfter
  <2> QED BY <2>1, <2>3, <2>4, <2>7, <2>8, <2>9, StepCommit
<1>6. ASSUME NEW terminal \in BOOLEAN, FinishFailedAttempt(r, terminal), s = claim[r].segment
      PROVE  MemoryStep(s)
  <2>1. Holds(r) /\ Matches(r) /\ UNCHANGED committed BY <1>6 DEF FinishFailedAttempt
  <2>2. /\ ~At(rows'[s], claim[r].source.boundary, {"running"})
        /\ target'[s] \in {target[s], Null}
    BY <1>6, FinishFits
  <2>3. target[s] # Null /\ target[s] \in Target /\ target[s].source = claim[r].source
    BY <1>0, <1>6, <2>1, HeldRow DEF Matches, TargetOf
  <2>4. WantedOf(s) # Null BY <2>3, WantedIs
  <2>5. DraftOf(s)' = Null BY <2>2, <2>3, NoDraftAfter
  <2>6. CASE target'[s] = target[s]
    <3>1. WantedOf(s)' = WantedOf(s) BY <2>6 DEF WantedOf
    <3> QED BY <2>1, <2>4, <2>5, <3>1, StepDiscard
  <2>7. CASE target'[s] = Null
    <3>1. WantedOf(s)' = Null BY <2>7 DEF WantedOf
    <3> QED BY <2>1, <2>4, <2>5, <3>1, StepWithdraw
  <2> QED BY <2>2, <2>6, <2>7
<1>7. CASE RequeueLatestTarget(r) /\ s = claim[r].segment
  <2>1. Holds(r) /\ ~Matches(r) BY <1>7 DEF RequeueLatestTarget
  <2>2. /\ NothingStarts /\ UNCHANGED <<target, committed>>
        /\ ~At(rows'[s], claim[r].source.boundary, {"running"})
    BY <1>7, RequeueFits
  <2>3. /\ At(rows[s], claim[r].source.boundary, {"running"})
        /\ rows[s][claim[r].source.boundary].lease = r
        /\ claim[r].source.boundary \in Boundaries
        /\ Fits(rows[s], target[s], committed[s])
    BY <1>0, <1>7, <2>1, HeldRow DEF RowOf
  <2>4. \A b \in Boundaries : At(rows[s], b, {"running"}) => b = claim[r].source.boundary
    BY <2>3 DEF Fits
  <2>5. \A b \in Boundaries : ~At(rows'[s], b, {"running"})
    BY <2>2, <2>4 DEF NothingStarts, At
  <2>6. target[s] # Null => target[s].source.boundary \in Boundaries
    BY <1>0, <1>7, <2>1, HeldRow, TargetFields, SnapshotFields
  <2>7. DraftOf(s)' = Null BY <2>2, <2>5, <2>6, NoDraftAfter
  <2>8. ASSUME NEW y \in Drafts(s) PROVE FALSE
    <3>1. /\ Matches(y) /\ target[s] # Null /\ At(rows[s], target[s].source.boundary, {"running"})
          /\ rows[s][target[s].source.boundary].lease = y
      BY <1>7, <2>1, <1>0, HeldRow, DraftHolds
    <3> QED BY <2>1, <2>3, <2>4, <2>6, <3>1
  <2>9. DraftOf(s) = Null BY <2>8 DEF DraftOf
  <2>10. WantedOf(s)' = WantedOf(s) BY <2>2 DEF WantedOf
  <2> QED BY <2>2, <2>7, <2>9, <2>10, StepStutter
<1> QED BY <1>2, <1>3, <1>4, <1>5, <1>6, <1>7 DEF Process

LEMMA FaultRefines ==
  ASSUME ServiceInv, NEW r \in Servers, Fault(r), NEW s \in SegmentIds
  PROVE  MemoryStep(s)
<1>1. UNCHANGED <<rows, target, committed>>
  BY DEF Fault, FailureUnrecorded, LoseConnection, EndProcess, tables
<1>2. CASE claim' = [claim EXCEPT ![r] = Null] BY <1>1, <1>2, EndRefines
<1>3. CASE claim' = claim BY <1>1, <1>3, Untouched
<1> QED BY <1>2, <1>3 DEF Fault, FailureUnrecorded, LoseConnection, EndProcess, Done

(* Of each segment, the first server is a SegmentMemory: whatever is wanted, failed, recovered or  *)
(* lost, a summary is committed for the wanted snapshot alone, from a draft of exactly that one. *)
THEOREM ServiceIsAMemory == ServiceSpec => ServiceImplementsMemory
<1>1. ASSUME ServiceInv, [ServiceNext]_serviceVars, NEW s \in SegmentIds
      PROVE  [Archive(s)!Next]_(Archive(s)!vars)
  <2>1. CASE UNCHANGED serviceVars
    <3>1. UNCHANGED <<rows, target, committed, claim>> BY <2>1 DEF serviceVars, tables
    <3>2. MemoryStep(s) BY <3>1, Untouched
    <3> QED BY <3>2 DEF MemoryStep
  <2>2. CASE ServiceNext
    <3>1. MemoryStep(s)
      BY <1>1, <2>2, EnqueueRefines, RepairRefines, WorkRefines, ProcessRefines, FaultRefines
         DEF ServiceNext
    <3> QED BY <3>1 DEF MemoryStep
  <2> QED BY <1>1, <2>1, <2>2
<1>2. ServiceInv /\ [ServiceNext]_serviceVars
        => \A s \in SegmentIds : [Archive(s)!Next]_(Archive(s)!vars)
  BY <1>1
<1>3. ServiceInv /\ [ServiceNext]_serviceVars
        => [\A s \in SegmentIds : [Archive(s)!Next]_(Archive(s)!vars)]_serviceVars
  BY <1>2
<1> QED BY <1>3, ServiceInvariant, PTL DEF ServiceSpec, ServiceImplementsMemory
=============================================================================
