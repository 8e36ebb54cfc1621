------------------------------ MODULE MCParts ------------------------------
(* Small instances for TLC of components that have nothing to do with one   *)
(* another: a behaviour is of one part, and the variables of the others     *)
(* keep their initial values.                                               *)
EXTENDS EntitySearch, LegacyService, OwnershipRollout, Segmentation, HistoryCache, TLC

CONSTANTS A, B, a1, idle, old, new, g1, g2, n1

\* Only the first segment has an entity to create; either may refer to it.
OneEntity == a1 :> A

\* Two groups of the legacy source and one of another.
TwoLegacy == (g1 :> old) @@ (g2 :> old) @@ (n1 :> new)

VARIABLES part, local, backfillRows, backfillTarget, backfillMemory, file, taken, worker,
          settled, backfillUsed

searchAll    == <<entityVars, searchVars>>
backfillVars == <<local, backfillRows, backfillTarget, backfillMemory, file, taken, worker,
                  settled, backfillUsed>>

\* Two workers, of which a dead one's lock file may let both work, and one
\* session of at most two segments.
Backfills == INSTANCE Backfill WITH
  Gone <- Null, LastSession <- 1, LastSpan <- 2, Ends <- {1}, Texts <- {1, 2},
  PriorityJobs <- {<<1, 1, 1>>}, MaxRounds <- 2, MaxEdits <- 1, MaxTroubles <- 0,
  rows <- backfillRows, target <- backfillTarget, memory <- backfillMemory, lock <- file,
  used <- backfillUsed

\* SettledIsStored of Backfill.
SettledIsStored == Backfills!SettledIsStored

\* Workers are interchangeable.
Symmetric == Permutations(Workers)

PartsInit ==
  /\ part \in {"search", "service", "rollout", "segmentation", "history", "backfill"}
  /\ SearchInit /\ ServiceInit /\ RolloutInit /\ SegmentationInit /\ Init
  /\ Backfills!Init /\ (file # None <=> part = "backfill")

PartsNext ==
  \/ /\ part = "search" /\ SearchNext
     /\ UNCHANGED <<serviceVars, rolloutVars, segmentationVars, vars, backfillVars>>
  \/ /\ part = "service" /\ ServiceNext
     /\ UNCHANGED <<searchAll, rolloutVars, segmentationVars, vars, backfillVars>>
  \/ /\ part = "rollout" /\ RolloutNext
     /\ UNCHANGED <<searchAll, serviceVars, segmentationVars, vars, backfillVars>>
  \/ /\ part = "segmentation" /\ SegmentationNext
     /\ UNCHANGED <<searchAll, serviceVars, rolloutVars, vars, backfillVars>>
  \/ /\ part = "history" /\ Next
     /\ UNCHANGED <<searchAll, serviceVars, rolloutVars, segmentationVars, backfillVars>>
  \/ /\ part = "backfill" /\ Backfills!Next
     /\ UNCHANGED <<searchAll, serviceVars, rolloutVars, segmentationVars, vars>>

partsVars == <<part, searchAll, serviceVars, rolloutVars, segmentationVars, vars, backfillVars>>

PartsSpec == PartsInit /\ [][PartsNext /\ UNCHANGED part]_partsVars
=============================================================================
