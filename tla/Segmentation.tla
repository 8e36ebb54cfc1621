---------------------------- MODULE Segmentation ----------------------------
(***************************************************************************)
(* How a session is cut into segments (packages/shared/segmentation.ts),   *)
(* while it grows and while segments are stored.  What is stored comes     *)
(* back as boundaries: they are kept as they are, and only what they leave *)
(* over is cut anew.  A V1 segment is whole turns, from the turn of one    *)
(* user message to that of another; a V2 segment is a stretch of messages  *)
(* of one turn that is too long to be stored whole.                        *)
(*                                                                         *)
(* Messages are known by their place in the log, turns by the order of     *)
(* their user messages.  The weight of a message stands for its text,      *)
(* tools and media; one that cannot be measured weighs more than MaxChars. *)
(* Identifiers occur once, and all of a stored boundary's are in the log.  *)
(***************************************************************************)
EXTENDS Naturals, Sequences, FiniteSets, SequencesExt, FiniteSetsExt

CONSTANTS
  MaxChars,     \* how much a segment should hold
  Weights,      \* of a message
  MaxMessages   \* bound on the log

ASSUME SegmentationAssumption ==
  /\ MaxChars \in Nat \ {0} /\ Weights \subseteq Nat \ {0} /\ MaxMessages \in Nat

VARIABLES
  log,     \* what is visible to the model: the turn of a message, its weight, whether it is
           \* an assistant's message that is complete
  planned, \* the segments that a writer is storing
  stored,  \* boundaries of stored segments
  before   \* auxiliary: the closed segments as they were when the last message came

segmentationVars == <<log, planned, stored, before>>

----------------------------------------------------------------------------
\* canonicalHistory.

Turns == {m.turn : m \in Range(log)}
LastTurn == Cardinality(Turns)
SourcesOf(t) == {i \in DOMAIN log : log[i].turn = t}
WeightOf(sources) == MapThenSumSet(LAMBDA i : log[i].weight, sources)
IsClosedTurn(t) == t < LastTurn

\* A turn whose messages have those of another between them.
IsDisjoint(t) ==
  \E i, k \in SourcesOf(t), j \in DOMAIN log : i < j /\ j < k /\ log[j].turn # t

\* makeV1Segment: turns first to last.
V1(first, last, closed) ==
  [version |-> 1, turn |-> first, start |-> first, end |-> last, closed |-> closed,
   sources |-> UNION {SourcesOf(t) : t \in first..last}]

\* makeV2Segment: messages first to last, of one turn.
V2(t, first, last, closed) ==
  [version |-> 2, turn |-> t, start |-> first, end |-> last, closed |-> closed,
   sources |-> first..last]

----------------------------------------------------------------------------
\* Which of the stored boundaries are kept.

Covered(plan) == MapThenSumSet(LAMBDA b : b.end - b.start + 1, plan)
Eligible(plan) == Cardinality({b \in plan : b.eligible})

\* betterBoundaryPlan: the same score is left to the identifiers, which mean nothing here.
IsBetter(a, b) ==
  \/ Covered(a) > Covered(b)
  \/ Covered(a) = Covered(b) /\ Eligible(a) > Eligible(b)

EndsBefore(a, b) ==
  \/ a.end < b.end
  \/ a.end = b.end /\ a.start < b.start
  \/ a.end = b.end /\ a.start = b.start /\ b.eligible

IsBefore(b, candidate) == b.end < candidate.start

\* selectBoundaryIntervals, in the order of their ends: the best with the last candidate and those
\* before it, or the best without it.
RECURSIVE SelectedFrom(_)
SelectedFrom(candidates) ==
  IF candidates = {} THEN {}
  ELSE LET last == CHOOSE b \in candidates : \A c \in candidates : c = b \/ EndsBefore(c, b)
           with == SelectedFrom({b \in candidates : IsBefore(b, last)}) \cup {last}
           without == SelectedFrom(candidates \ {last})
       IN  IF IsBetter(with, without) THEN with ELSE without

FrozenBy(plan) == UNION {b.start..b.end : b \in plan}

\* resolveV2Boundaries: one that leaves its turn is an error of the whole session.
Resolved == {b \in stored : b.version = 2}
Leaves(b) == \E i \in b.start..b.end : log[i].turn # b.turn

\* reconcileV1Boundaries, whose turns are frozen, and reconcileV2Boundaries in the others.
Kept ==
  LET v1 == SelectedFrom({b \in stored : b.version = 1})
      rest == {b \in Resolved : b.turn \notin FrozenBy(v1)}
  IN  [v1 |-> v1, frozen |-> FrozenBy(v1), v2 |-> SelectedFrom(rest),
       fragmented |-> {b.turn : b \in rest}
                        \cup {t \in Turns \ FrozenBy(v1) : WeightOf(SourcesOf(t)) > MaxChars}]

\* .. and so is one in a turn that has been broken up, which fragmentTurn finds.
IsBroken(kept) ==
  (\E b \in Resolved : Leaves(b)) \/ (\E b \in kept.v2 : IsDisjoint(b.turn))

----------------------------------------------------------------------------
\* Turns that are too long.

\* isLegalActiveTurnCut.
IsLegalCut(i) == log[i].done

\* fragmentSourceRange: messages from `start`, of which those before `index` are seen and `cut` is
\* the last after which a fragment may end; what is left over is closed if `forced`.
RECURSIVE Fragments(_, _, _, _, _, _)
Fragments(t, start, index, cut, last, forced) ==
  IF start > last THEN <<>>
  ELSE IF index > last THEN <<V2(t, start, last, forced)>>
  ELSE IF index > start /\ WeightOf(start..index) > MaxChars /\ cut >= start
    THEN <<V2(t, start, cut, TRUE)>> \o Fragments(t, cut + 1, cut + 1, 0, last, forced)
  ELSE IF WeightOf(start..index) >= MaxChars /\ IsLegalCut(index)
    THEN <<V2(t, start, index, TRUE)>> \o Fragments(t, index + 1, index + 1, 0, last, forced)
  ELSE Fragments(t, start, index + 1, IF IsLegalCut(index) THEN index ELSE cut, last, forced)

\* Mutant: what is left of a turn is closed though the turn goes on.
TailIsClosedAlways(t) == TRUE

TailIsClosed(t) == IsClosedTurn(t)

\* Mutant: the message that ends a boundary is cut once more after it.
AtEnd(b) == b.end

After(b) == b.end + 1

\* fragmentTurn: around the boundaries that are kept, from `start` on.
RECURSIVE FragmentsAround(_, _, _)
FragmentsAround(t, start, boundaries) ==
  LET last == Max(SourcesOf(t))
  IN  IF boundaries = {} THEN Fragments(t, start, start, 0, last, TailIsClosed(t))
      ELSE LET b == CHOOSE x \in boundaries : \A y \in boundaries : x.start <= y.start
               closed == IsClosedTurn(t) \/ b.end < last \/ log[b.end].done
           IN  Fragments(t, start, start, 0, b.start - 1, TRUE)
                 \o <<V2(t, b.start, b.end, closed)>>
                 \o FragmentsAround(t, After(b), boundaries \ {b})

FragmentedTurn(t, kept) ==
  IF IsDisjoint(t) THEN <<V1(t, t, IsClosedTurn(t))>>
  ELSE FragmentsAround(t, Min(SourcesOf(t)), {b \in kept.v2 : b.turn = t})

----------------------------------------------------------------------------
\* The whole session.

TurnsWeight(first, last) == WeightOf(UNION {SourcesOf(t) : t \in first..last})

\* segmentMessages with packTurns: the turns from `first` to before `t` wait to be packed.
RECURSIVE Cut(_, _, _)
Cut(first, t, kept) ==
  LET waiting(closed) == IF first < t THEN <<V1(first, t - 1, closed)>> ELSE <<>>
      here == {b \in kept.v1 : b.start = t}
  IN  IF t > LastTurn THEN waiting(FALSE)
      ELSE IF here # {} THEN
        LET b == CHOOSE b \in here : TRUE
        IN  waiting(TRUE) \o <<V1(b.start, b.end, IsClosedTurn(b.end))>>
              \o Cut(b.end + 1, b.end + 1, kept)
      ELSE IF t \in kept.fragmented
        THEN waiting(TRUE) \o FragmentedTurn(t, kept) \o Cut(t + 1, t + 1, kept)
      ELSE IF first < t /\ TurnsWeight(first, t) > MaxChars
        THEN waiting(TRUE) \o Cut(t, t, kept)
      ELSE IF TurnsWeight(first, t) = MaxChars
        THEN <<V1(first, t, TRUE)>> \o Cut(t + 1, t + 1, kept)
      ELSE Cut(first, t + 1, kept)

SegmentsWith(kept) == IF IsBroken(kept) THEN <<>> ELSE Cut(1, 1, kept)
SegmentsOfSession == Range(SegmentsWith(Kept))

----------------------------------------------------------------------------
\* A session that grows, and whose segments are stored.

SegmentationInit == log = <<>> /\ planned = {} /\ stored = {} /\ before = {}

\* What is said to a turn that another has followed takes the closed segment of that turn apart.
Becomes(messages, turn) ==
  /\ log' = messages
  /\ before' = IF turn < LastTurn THEN {} ELSE {s \in SegmentsOfSession : s.closed}
  /\ UNCHANGED <<planned, stored>>

Ask ==
  /\ Len(log) < MaxMessages
  /\ \E w \in Weights :
       Becomes(Append(log, [turn |-> LastTurn + 1, weight |-> w, done |-> FALSE]), LastTurn + 1)

\* An answer, of the last turn or, if the user did not wait for it, of an earlier one ..
Answer ==
  /\ Len(log) < MaxMessages
  /\ \E t \in Turns, w \in Weights, done \in BOOLEAN :
       Becomes(Append(log, [turn |-> t, weight |-> w, done |-> done]), t)

\* .. that may be complete only later.
Finish ==
  LET last == Len(log)
  IN  /\ last > 0 /\ ~log[last].done /\ last # Min(SourcesOf(log[last].turn))
      /\ \E w \in Weights :
           /\ w >= log[last].weight
           /\ Becomes([log EXCEPT ![last].done = TRUE, ![last].weight = w], log[last].turn)

\* A writer cuts the session as it and what is stored of it are now ..
Look == planned' = SegmentsOfSession /\ before' = {} /\ UNCHANGED <<log, stored>>

\* isSafeSegmentSnapshot.
IsSafe(s) == s.closed \/ s.version = 1 \/ log[s.end].done

\* .. and stores a segment when it has got so far.  A segment is known by its version and start: it
\* has a target, which has no summary yet, and what is committed of it.
Store ==
  \E s \in planned :
    /\ IsSafe(s)
    /\ stored' = {b \in stored : b.eligible \/ b.version # s.version \/ b.start # s.start}
         \cup {[version |-> s.version, turn |-> s.turn, start |-> s.start, end |-> s.end,
                eligible |-> FALSE]}
    /\ before' = {} /\ UNCHANGED <<log, planned>>

CommitBoundary ==
  \E b \in stored :
    /\ ~b.eligible
    /\ stored' = {c \in stored : c.version # b.version \/ c.start # b.start}
                   \cup {[b EXCEPT !.eligible = TRUE]}
    /\ before' = {} /\ UNCHANGED <<log, planned>>

SegmentationNext == Ask \/ Answer \/ Finish \/ Look \/ Store \/ CommitBoundary

SegmentationSpec == SegmentationInit /\ [][SegmentationNext]_segmentationVars

----------------------------------------------------------------------------
\* Properties.

\* Every message is in exactly one segment, whatever is stored: no message is summarised twice and
\* none is lost between a segment that is kept and those that are cut around it.
SourcesAreCutOnce ==
  LET kept == Kept
      cut == SegmentsWith(kept)
  IN  ~IsBroken(kept) =>
        /\ UNION {s.sources : s \in Range(cut)} = DOMAIN log
        /\ \A j, k \in DOMAIN cut : j # k => cut[j].sources \cap cut[k].sources = {}

\* The boundaries that are kept do not overlap, and none that do not cover more or, covering as much,
\* have more summaries.
BestBoundariesAreKept ==
  \A version \in {1, 2} :
    LET candidates == {b \in stored : b.version = version}
        best == SelectedFrom(candidates)
        fits(plan) == \A a, b \in plan : a # b => a.end < b.start \/ b.end < a.start
    IN  fits(best) /\ \A plan \in SUBSET candidates : fits(plan) => ~IsBetter(plan, best)

\* The segment is cut as it was.
Stays(s) ==
  \E c \in SegmentsOfSession : c.version = s.version /\ c.start = s.start /\ c.end = s.end

\* The session is cut as it should be.
CutIsRight == SourcesAreCutOnce /\ BestBoundariesAreKept

\* A segment that is called closed is cut the same way when the session grows at its end, whatever is
\* stored: "keeps every closed prefix append-stable", packages/shared/test/segmentation.test.ts:1254.
ClosedSegmentsStay == \A s \in before : Stays(s)

\* .. and those of turns that another had followed by then are.
CompleteSegmentsStay ==
  LET active == IF SourcesOf(LastTurn) = {Len(log)} THEN LastTurn - 1 ELSE LastTurn
  IN  \A s \in before : s.version = 2 \/ s.end < active => Stays(s)
=============================================================================
