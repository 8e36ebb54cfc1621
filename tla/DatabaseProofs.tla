------------------------- MODULE DatabaseProofs -------------------------
(***************************************************************************)
(* What the database keeps beside the queue.                               *)
(*                                                                         *)
(* Entities: what resolutions do to each other's entities, proved for all  *)
(* sets of segments, workers and entities: the types, ClaimsResolve,       *)
(* OrphansAreSkewed and LaneProtectsChoices; and what a search finds       *)
(* meanwhile: AnswersAreBacked.  EntityInv says what keeps a deletion safe *)
(* while it is open: it goes only for what its own old claims alone refer  *)
(* to, and once it has its locks, neither a committed claim nor an open    *)
(* one is on that.                                                         *)
(*                                                                         *)
(* Owners: OwnershipIsSound and ServingIsIndexed, for any rows, sources    *)
(* and batches.  RolloutInv ties the checks a starting server has left to  *)
(* the schema, and who counts rows without an owner to the old writers.    *)
(***************************************************************************)
EXTENDS EntitySearch, OwnershipRollout, SequenceTheorems, TLAPS

(* One attempt in a lane. *)
LaneIsExclusive == \A r, s \in Segments : lane[r] = lane[s] /\ Bears(s) => r = s

(* What an attempt has, stage by stage. *)
Stages ==
  \A s \in Segments :
    /\ pc[s] # "resolving" => seen[s] = {}
    /\ pc[s] = "idle" => uses[s] = {}
    /\ pc[s] \notin Picked => doomed[s] = {}
    /\ fresh[s] \subseteq uses[s] /\ doomed[s] \subseteq claims[s] \ uses[s]

(* The locks of an open transaction keep what it refers to. *)
UsesStay == \A s \in Segments : pc[s] \in Open => uses[s] \ fresh[s] \subseteq entities

(* Nobody refers to what a transaction has deleted. *)
NobodyRefers ==
  \A s \in Segments : pc[s] = "collected" =>
    \A r \in Segments \ {s} :
      claims[r] \cap doomed[s] = {} /\ (pc[r] \in Open => uses[r] \cap doomed[s] = {})

(* Somebody looks after e: a deletion, or a claim that is not on its way out. *)
Deleted(e) == \E s \in Segments : e \in doomed[s]
Held(e)    == \E s \in Segments : e \in claims[s] /\ (pc[s] \in Picked => e \in uses[s])
Cared      == \A e \in entities : e \in skewed \/ Deleted(e) \/ Held(e)

EntityInv ==
  /\ EntityTypeOK /\ ClaimsResolve /\ LaneIsExclusive /\ Stages
  /\ UsesStay /\ NobodyRefers /\ Cared
-----------------------------------------------------------------------------
LEMMA InitInv == EntityInit => EntityInv
<1>1. SUFFICES ASSUME EntityInit PROVE EntityInv
  OBVIOUS
<1>2. EntityTypeOK
  BY <1>1 DEF EntityInit, EntityTypeOK, Stage
<1>3. LaneIsExclusive /\ Stages
  BY <1>1 DEF EntityInit, LaneIsExclusive, Stages, Bears, Picked
<1>4. ClaimsResolve /\ UsesStay /\ NobodyRefers /\ Cared
  BY <1>1 DEF EntityInit, ClaimsResolve, UsesStay, NobodyRefers, Cared, Open
<1>5. QED
  BY <1>2, <1>3, <1>4 DEF EntityInv

\* An attempt that starts holds nothing of the tables yet.
LEMMA StartKeeps ==
  ASSUME EntityInv, NEW s \in Segments,
         StartBare(s) \/ \E w \in Workers : StartBearing(s, w)
  PROVE  EntityInv'
<1>1. /\ pc[s] = "idle" /\ pc' = [pc EXCEPT ![s] = "resolving"]
      /\ entities' = entities /\ claims' = claims /\ skewed' = skewed
      /\ seen' = seen /\ uses' = uses /\ fresh' = fresh /\ doomed' = doomed
  BY DEF StartBare, StartBearing, attempts
<1>2. /\ lane' \in [Segments -> Workers \cup {None}]
      /\ LaneIsExclusive'
  <2>1. CASE StartBare(s)
    BY <2>1 DEF StartBare, EntityInv, EntityTypeOK, LaneIsExclusive, Bears
  <2>2. ASSUME NEW w \in Workers, StartBearing(s, w)
        PROVE  lane' \in [Segments -> Workers \cup {None}] /\ LaneIsExclusive'
    BY <2>2 DEF StartBearing, EntityInv, EntityTypeOK, LaneIsExclusive, Bears
  <2>3. QED
    BY <2>1, <2>2
<1>3. EntityTypeOK'
  BY <1>1, <1>2 DEF EntityInv, EntityTypeOK, Stage
<1>4. Stages'
  BY <1>1 DEF EntityInv, EntityTypeOK, Stages, Picked
<1>5. ClaimsResolve' /\ UsesStay'
  BY <1>1 DEF EntityInv, EntityTypeOK, ClaimsResolve, UsesStay, Open
<1>6. NobodyRefers'
  BY <1>1 DEF EntityInv, EntityTypeOK, NobodyRefers, Open
<1>7. Cared'
  BY <1>1 DEF EntityInv, EntityTypeOK, Cared, Deleted, Held, Picked
<1>8. QED
  BY <1>2, <1>3, <1>4, <1>5, <1>6, <1>7 DEF EntityInv

\* Neither does one that looks up and prepares.
LEMMA ResolutionKeeps ==
  ASSUME EntityInv, NEW s \in Segments, LookUp(s) \/ Resolve(s)
  PROVE  EntityInv'
<1>1. /\ pc[s] = "resolving"
      /\ pc' = pc \/ pc' = [pc EXCEPT ![s] = "prepared"]
      /\ entities' = entities /\ claims' = claims /\ skewed' = skewed
      /\ lane' = lane /\ doomed' = doomed
      /\ \A r \in Segments \ {s} : uses'[r] = uses[r] /\ fresh'[r] = fresh[r] /\ seen'[r] = seen[r]
  BY DEF LookUp, Candidates, Resolve, EntityInv, EntityTypeOK
<1>2. EntityTypeOK'
  <2>1. CASE LookUp(s)
    BY <2>1 DEF LookUp, Candidates, EntityInv, EntityTypeOK
  <2>2. CASE Resolve(s)
    <3>1. PICK answer \in Answers(s) :
            /\ uses' = [uses EXCEPT ![s] = answer.known \cup answer.new]
            /\ fresh' = [fresh EXCEPT ![s] = answer.new]
      BY <2>2 DEF Resolve
    <3>2. answer.known \cup answer.new \subseteq Entities /\ answer.new \subseteq Entities
      BY DEF Answers, Own, EntityInv, EntityTypeOK
    <3>3. pc' \in [Segments -> Stage] /\ seen' \in [Segments -> SUBSET Entities]
      BY <2>2 DEF Resolve, EntityInv, EntityTypeOK, Stage
    <3>4. QED
      BY <1>1, <3>1, <3>2, <3>3 DEF EntityInv, EntityTypeOK
  <2>3. QED
    BY <2>1, <2>2
<1>3. LaneIsExclusive'
  BY <1>1 DEF EntityInv, LaneIsExclusive, Bears
<1>4. Stages'
  <2>1. \A r \in Segments \ {s} : pc'[r] = pc[r]
    BY <1>1 DEF EntityInv, EntityTypeOK
  <2>2. doomed[s] = {} /\ pc'[s] # "idle" /\ (pc'[s] # "resolving" => seen'[s] = {})
    BY <1>1 DEF LookUp, Candidates, Resolve, EntityInv, EntityTypeOK, Stages, Picked
  <2>3. fresh'[s] \subseteq uses'[s]
    BY <1>1 DEF LookUp, Candidates, Resolve, EntityInv, EntityTypeOK, Stages
  <2>4. QED
    BY <1>1, <2>1, <2>2, <2>3 DEF EntityInv, Stages
<1>5. pc'[s] \notin Open /\ \A r \in Segments \ {s} : pc'[r] = pc[r]
  BY <1>1 DEF EntityInv, EntityTypeOK, Open
<1>6. ClaimsResolve' /\ UsesStay'
  BY <1>1, <1>5 DEF EntityInv, ClaimsResolve, UsesStay
<1>7. NobodyRefers'
  BY <1>1, <1>5 DEF EntityInv, NobodyRefers, Open
<1>8. Cared'
  BY <1>1, <1>5 DEF EntityInv, Cared, Deleted, Held, Picked, Open
<1>9. QED
  BY <1>2, <1>3, <1>4, <1>6, <1>7, <1>8 DEF EntityInv

\* A transaction that stores its claims waits for what is being deleted.
LEMMA WriteKeeps ==
  ASSUME EntityInv, NEW s \in Segments, Write(s)
  PROVE  EntityInv'
<1>1. /\ pc[s] = "prepared" /\ pc' = [pc EXCEPT ![s] = "written"]
      /\ entities' = entities /\ claims' = claims /\ skewed' = skewed /\ lane' = lane
      /\ seen' = seen /\ uses' = uses /\ fresh' = fresh /\ doomed' = doomed
  BY DEF Write, attempts
<1>2. EntityTypeOK' /\ LaneIsExclusive'
  BY <1>1 DEF EntityInv, EntityTypeOK, Stage, LaneIsExclusive, Bears
<1>3. Stages'
  BY <1>1 DEF EntityInv, EntityTypeOK, Stages, Picked
<1>4. ClaimsResolve' /\ UsesStay'
  BY <1>1 DEF Write, MayWrite, EntityInv, EntityTypeOK, ClaimsResolve, UsesStay, Open
<1>5. NobodyRefers'
  BY <1>1 DEF Write, MayWrite, EntityInv, EntityTypeOK, NobodyRefers, Open
<1>6. Cared'
  BY <1>1 DEF EntityInv, EntityTypeOK, Cared, Deleted, Held, Picked
<1>7. QED
  BY <1>2, <1>3, <1>4, <1>5, <1>6 DEF EntityInv

\* What is spared has a claim that stays, or is skewed.
LEMMA ChooseKeeps ==
  ASSUME EntityInv, NEW s \in Segments, Choose(s)
  PROVE  EntityInv'
<1>1. /\ pc[s] = "written" /\ pc' = [pc EXCEPT ![s] = "chosen"]
      /\ doomed' = [doomed EXCEPT ![s] = Left(s)] /\ skewed' = skewed \cup Skewed(s)
      /\ entities' = entities /\ claims' = claims /\ lane' = lane
      /\ seen' = seen /\ uses' = uses /\ fresh' = fresh
  BY DEF Choose
<1>2. Left(s) \subseteq claims[s] \ uses[s] /\ Skewed(s) \subseteq claims[s] /\ claims[s] \subseteq entities
  BY DEF Left, Skewed, EntityInv, ClaimsResolve
<1>3. EntityTypeOK' /\ LaneIsExclusive'
  BY <1>1, <1>2 DEF EntityInv, EntityTypeOK, Stage, LaneIsExclusive, Bears
<1>4. Stages'
  BY <1>1, <1>2 DEF EntityInv, EntityTypeOK, Stages, Picked
<1>5. ClaimsResolve' /\ UsesStay'
  BY <1>1 DEF EntityInv, EntityTypeOK, ClaimsResolve, UsesStay, Open
<1>6. NobodyRefers'
  BY <1>1 DEF EntityInv, EntityTypeOK, NobodyRefers, Open
<1>7. Cared'
  <2>1. SUFFICES ASSUME NEW e \in entities, e \notin skewed' PROVE Deleted(e)' \/ Held(e)'
    BY <1>1 DEF Cared
  <2>2. CASE Deleted(e)
    <3>1. PICK r \in Segments : e \in doomed[r]
      BY <2>2 DEF Deleted
    <3>2. r # s
      BY <1>1, <3>1 DEF EntityInv, Stages, Picked
    <3>3. e \in doomed'[r]
      BY <1>1, <3>1, <3>2 DEF EntityInv, EntityTypeOK
    <3>4. QED
      BY <3>3 DEF Deleted
  <2>3. CASE Held(e)
    <3>1. PICK r \in Segments : e \in claims[r] /\ (pc[r] \in Picked => e \in uses[r])
      BY <2>3 DEF Held
    <3>2. CASE r # s \/ e \in uses[s]
      <4>1. pc'[r] \in Picked => e \in uses[r]
        BY <1>1, <3>1, <3>2 DEF EntityInv, EntityTypeOK
      <4>2. QED
        BY <1>1, <3>1, <4>1 DEF Held
    <3>3. CASE e \in Left(s)
      <4>1. e \in doomed'[s]
        BY <1>1, <3>3 DEF EntityInv, EntityTypeOK
      <4>2. QED
        BY <4>1 DEF Deleted
    <3>4. CASE r = s /\ e \notin uses[s] /\ e \notin Left(s)
      <4>1. e \notin Skewed(s)
        BY <1>1, <2>1
      <4>2. PICK q \in Segments \ {s} : e \in claims[q] /\ ~(pc[q] \in Picked /\ e \notin uses[q])
        BY <3>1, <3>4, <4>1 DEF Skewed, Left
      <4>3. pc'[q] = pc[q]
        BY <1>1 DEF EntityInv, EntityTypeOK
      <4>4. QED
        BY <1>1, <4>2, <4>3 DEF Held
    <3>5. QED
      BY <3>2, <3>3, <3>4
  <2>4. QED
    BY <1>1, <2>1, <2>2, <2>3 DEF EntityInv, Cared
<1>8. QED
  BY <1>3, <1>4, <1>5, <1>6, <1>7 DEF EntityInv

\* A deletion goes ahead when nobody refers to what it takes.
LEMMA CollectKeeps ==
  ASSUME EntityInv, NEW s \in Segments, Collect(s)
  PROVE  EntityInv'
<1>1. /\ pc[s] = "chosen" /\ pc' = [pc EXCEPT ![s] = "collected"]
      /\ entities' = entities /\ claims' = claims /\ skewed' = skewed /\ lane' = lane
      /\ seen' = seen /\ uses' = uses /\ fresh' = fresh /\ doomed' = doomed
  BY DEF Collect, attempts
<1>2. EntityTypeOK' /\ LaneIsExclusive'
  BY <1>1 DEF EntityInv, EntityTypeOK, Stage, LaneIsExclusive, Bears
<1>3. Stages'
  BY <1>1 DEF EntityInv, EntityTypeOK, Stages, Picked
<1>4. ClaimsResolve' /\ UsesStay'
  BY <1>1 DEF EntityInv, EntityTypeOK, ClaimsResolve, UsesStay, Open
<1>5. \A r \in Segments : pc'[r] \in Open <=> pc[r] \in Open
  BY <1>1 DEF EntityInv, EntityTypeOK, Open
<1>6. NobodyRefers'
  BY <1>1, <1>5 DEF Collect, MayCollect, EntityInv, EntityTypeOK, NobodyRefers
<1>7. Cared'
  BY <1>1 DEF EntityInv, EntityTypeOK, Cared, Deleted, Held, Picked
<1>8. QED
  BY <1>2, <1>3, <1>4, <1>6, <1>7 DEF EntityInv

\* The end of an attempt, whatever it leaves of the tables.
LEMMA SettleTypes ==
  ASSUME EntityInv, NEW s \in Segments, Settle(s)
  PROVE  /\ pc'[s] = "idle" /\ doomed'[s] = {} /\ seen'[s] = {} /\ uses'[s] = {} /\ fresh'[s] = {}
         /\ \A r \in Segments \ {s} :
              /\ pc'[r] = pc[r] /\ lane'[r] = lane[r] /\ seen'[r] = seen[r]
              /\ uses'[r] = uses[r] /\ fresh'[r] = fresh[r] /\ doomed'[r] = doomed[r]
         /\ LaneIsExclusive'
         /\ pc' \in [Segments -> Stage] /\ lane' \in [Segments -> Workers \cup {None}]
         /\ seen' \in [Segments -> SUBSET Entities] /\ uses' \in [Segments -> SUBSET Entities]
         /\ fresh' \in [Segments -> SUBSET Entities] /\ doomed' \in [Segments -> SUBSET Entities]
<1>1. LaneIsExclusive' /\ lane' \in [Segments -> Workers \cup {None}]
  BY EntityAssumption DEF Settle, EntityInv, EntityTypeOK, LaneIsExclusive, Bears
<1>2. QED
  BY <1>1 DEF Settle, EntityInv, EntityTypeOK, Stage

LEMMA CommitKeeps ==
  ASSUME EntityInv, NEW s \in Segments, Commit(s)
  PROVE  EntityInv'
<1>1. /\ pc[s] = "collected"
      /\ entities' = (entities \cup fresh[s]) \ doomed[s]
      /\ claims' = [claims EXCEPT ![s] = uses[s]]
      /\ skewed' = skewed \ (uses[s] \cup doomed[s])
      /\ Settle(s)
  BY DEF Commit
<1>2. /\ claims'[s] = uses[s] /\ \A r \in Segments \ {s} : claims'[r] = claims[r]
      /\ claims' \in [Segments -> SUBSET Entities]
  BY <1>1 DEF EntityInv, EntityTypeOK
<1>3. EntityTypeOK' /\ LaneIsExclusive'
  <2>1. entities' \subseteq Entities /\ skewed' \subseteq entities'
    BY <1>1 DEF EntityInv, EntityTypeOK
  <2>2. QED
    BY <1>1, <1>2, <2>1, SettleTypes DEF EntityTypeOK
<1>4. Stages'
  BY <1>1, <1>2, SettleTypes DEF EntityInv, Stages, Picked
<1>5. uses[s] \cap doomed[s] = {} /\ uses[s] \subseteq entities'
  BY <1>1 DEF EntityInv, Stages, UsesStay, Open
<1>6. ClaimsResolve'
  BY <1>1, <1>2, <1>5 DEF EntityInv, ClaimsResolve, NobodyRefers
<1>7. UsesStay'
  BY <1>1, SettleTypes DEF EntityInv, UsesStay, NobodyRefers, Open
<1>8. NobodyRefers'
  <2>1. SUFFICES ASSUME NEW q \in Segments, pc'[q] = "collected", NEW r \in Segments \ {q}
                 PROVE  claims'[r] \cap doomed'[q] = {} /\ (pc'[r] \in Open => uses'[r] \cap doomed'[q] = {})
    BY DEF NobodyRefers
  <2>2. q # s /\ pc[q] = "collected" /\ doomed'[q] = doomed[q]
    BY <1>1, <2>1, SettleTypes
  <2>3. CASE r = s
    <3>1. uses[s] \cap doomed[q] = {}
      BY <1>1, <2>2, <2>3 DEF EntityInv, NobodyRefers, Open
    <3>2. QED
      BY <1>1, <1>2, <2>2, <2>3, <3>1, SettleTypes DEF Open
  <2>4. CASE r # s
    BY <1>1, <1>2, <2>1, <2>2, <2>4, SettleTypes DEF EntityInv, NobodyRefers
  <2>5. QED
    BY <2>3, <2>4
<1>9. Cared'
  <2>1. SUFFICES ASSUME NEW e \in entities', e \notin skewed' PROVE Deleted(e)' \/ Held(e)'
    BY DEF Cared
  <2>2. CASE e \in uses[s]
    <3>1. e \in claims'[s] /\ pc'[s] \notin Picked
      BY <1>1, <1>2, <2>2, SettleTypes DEF Picked
    <3>2. QED
      BY <3>1 DEF Held
  <2>3. CASE e \notin uses[s]
    <3>1. e \in entities /\ e \notin doomed[s] /\ e \notin skewed
      BY <1>1, <2>1, <2>3 DEF EntityInv, EntityTypeOK, Stages
    <3>2. CASE Deleted(e)
      <4>1. PICK r \in Segments : e \in doomed[r]
        BY <3>2 DEF Deleted
      <4>2. e \in doomed'[r]
        BY <1>1, <3>1, <4>1, SettleTypes
      <4>3. QED
        BY <4>2 DEF Deleted
    <3>3. CASE Held(e)
      <4>1. PICK r \in Segments : e \in claims[r] /\ (pc[r] \in Picked => e \in uses[r])
        BY <3>3 DEF Held
      <4>2. r # s
        BY <1>1, <2>3, <4>1 DEF Picked
      <4>3. e \in claims'[r] /\ (pc'[r] \in Picked => e \in uses'[r])
        BY <1>1, <1>2, <4>1, <4>2, SettleTypes
      <4>4. QED
        BY <4>3 DEF Held
    <3>4. QED
      BY <3>1, <3>2, <3>3 DEF EntityInv, Cared
  <2>4. QED
    BY <2>2, <2>3
<1>10. QED
  BY <1>3, <1>4, <1>6, <1>7, <1>8, <1>9 DEF EntityInv

LEMMA EndsEarlyKeeps ==
  ASSUME EntityInv, NEW s \in Segments, EndsEarly(s)
  PROVE  EntityInv'
<1>1. Settle(s) /\ entities' = entities /\ claims' = claims /\ skewed' = skewed
  BY DEF EndsEarly
<1>2. EntityTypeOK' /\ LaneIsExclusive'
  BY <1>1, SettleTypes DEF EntityInv, EntityTypeOK
<1>3. Stages'
  BY <1>1, SettleTypes DEF EntityInv, Stages, Picked
<1>4. ClaimsResolve' /\ UsesStay'
  BY <1>1, SettleTypes DEF EntityInv, ClaimsResolve, UsesStay, Open
<1>5. NobodyRefers'
  BY <1>1, SettleTypes DEF EntityInv, NobodyRefers, Open
<1>6. Cared'
  <2>1. SUFFICES ASSUME NEW e \in entities, e \notin skewed PROVE Deleted(e)' \/ Held(e)'
    BY <1>1 DEF Cared
  <2>2. CASE e \in claims[s]
    <3>1. e \in claims'[s] /\ pc'[s] \notin Picked
      BY <1>1, <2>2, SettleTypes DEF Picked
    <3>2. QED
      BY <3>1 DEF Held
  <2>3. CASE e \notin claims[s]
    <3>1. CASE Deleted(e)
      <4>1. PICK r \in Segments : e \in doomed[r]
        BY <3>1 DEF Deleted
      <4>2. r # s
        BY <2>3, <4>1 DEF EntityInv, Stages
      <4>3. e \in doomed'[r]
        BY <1>1, <4>1, <4>2, SettleTypes
      <4>4. QED
        BY <4>3 DEF Deleted
    <3>2. CASE Held(e)
      <4>1. PICK r \in Segments : e \in claims[r] /\ (pc[r] \in Picked => e \in uses[r])
        BY <3>2 DEF Held
      <4>2. r # s
        BY <2>3, <4>1
      <4>3. e \in claims'[r] /\ (pc'[r] \in Picked => e \in uses'[r])
        BY <1>1, <4>1, <4>2, SettleTypes
      <4>4. QED
        BY <4>3 DEF Held
    <3>3. QED
      BY <2>1, <3>1, <3>2 DEF EntityInv, Cared
  <2>4. QED
    BY <2>2, <2>3
<1>7. QED
  BY <1>2, <1>3, <1>4, <1>5, <1>6 DEF EntityInv

LEMMA StepKeeps == EntityInv /\ [EntityNext]_entityVars => EntityInv'
<1>1. SUFFICES ASSUME EntityInv, [EntityNext]_entityVars PROVE EntityInv'
  OBVIOUS
<1>2. CASE UNCHANGED entityVars
  BY <1>1, <1>2 DEF entityVars, EntityInv, EntityTypeOK, ClaimsResolve, LaneIsExclusive, Bears, Stages,
     UsesStay, NobodyRefers, Cared, Deleted, Held
<1>3. ASSUME NEW s \in Segments, Step(s) PROVE EntityInv'
  BY <1>1, <1>3, StartKeeps, ResolutionKeeps, WriteKeeps, ChooseKeeps, CollectKeeps, CommitKeeps,
     EndsEarlyKeeps DEF Step
<1>4. QED
  BY <1>1, <1>2, <1>3 DEF EntityNext
-----------------------------------------------------------------------------
(* The strengthened invariant of the store of entities. *)
THEOREM EntityInvariant == EntitySpec => []EntityInv
<1>1. QED
  BY InitInv, StepKeeps, PTL DEF EntitySpec

(* Entities, claims and attempts keep their types, and what is skewed exists. *)
THEOREM EntityTypesHold == EntitySpec => []EntityTypeOK
<1>1. EntityInv => EntityTypeOK
  BY DEF EntityInv
<1>2. QED
  BY <1>1, EntityInvariant, PTL

(* No claim is ever left without its entity, whatever overlaps its commit: the sweeps of any      *)
(* number of resolutions, claim-free or not, of any number of workers.                            *)
THEOREM ClaimsAlwaysResolve == EntitySpec => []ClaimsResolve
<1>1. EntityInv => ClaimsResolve
  BY DEF EntityInv
<1>2. QED
  BY <1>1, EntityInvariant, PTL

(* The sweep misses an entity in one way only: two commits that overlap and each spare it for the *)
(* claims that the other is dropping.                                                             *)
THEOREM OrphansComeOfSkew == EntitySpec => []OrphansAreSkewed
<1>1. ASSUME EntityInv PROVE OrphansAreSkewed
  <2>1. SUFFICES ASSUME NEW e \in entities, e \notin skewed PROVE \E s \in Segments : e \in claims[s]
    BY DEF OrphansAreSkewed
  <2>2. Deleted(e) \/ Held(e)
    BY <1>1, <2>1 DEF EntityInv, Cared
  <2>3. QED
    BY <1>1, <2>2 DEF EntityInv, Stages, Deleted, Held
<1>2. QED
  BY <1>1, EntityInvariant, PTL

(* What a claim-bearing resolution has looked up or chosen goes only by a commit without claims,  *)
(* or by another worker's: the lane of its own worker keeps every other one out.                  *)
THEOREM LaneProtects == EntitySpec => LaneProtectsChoices
<1>1. ASSUME EntityInv, [EntityNext]_entityVars, NEW s \in Segments,
             NEW e \in (seen[s] \cup uses[s]) \cap (entities \ entities')
      PROVE  \E r \in Segments \ {s} :
               e \in claims[r] \ claims'[r] /\ (Bears(r) => lane[r] # lane[s])
  <2>1. PICK r \in Segments : Commit(r) /\ e \in doomed[r]
    <3>1. entities' # entities
      BY <1>1
    <3>2. PICK r \in Segments : Step(r)
      BY <1>1, <3>1 DEF EntityNext, entityVars
    <3>3. Commit(r)
      BY <3>1, <3>2 DEF Step, StartBare, StartBearing, LookUp, Candidates, Resolve, Write, Choose, Collect, EndsEarly
    <3>4. QED
      BY <1>1, <3>3 DEF Commit
  <2>2. pc[r] = "collected" /\ e \in claims[r] /\ e \notin uses[r] /\ seen[r] = {}
    BY <1>1, <2>1 DEF Commit, EntityInv, Stages
  <2>3. r # s
    BY <1>1, <2>2
  <2>4. claims'[r] = uses[r]
    BY <1>1, <2>1 DEF Commit, EntityInv, EntityTypeOK
  <2>5. Bears(r) => lane[r] # lane[s]
    BY <1>1, <2>3 DEF EntityInv, LaneIsExclusive
  <2>6. QED
    BY <2>2, <2>3, <2>4, <2>5
<1>2. EntityInv /\ [EntityNext]_entityVars =>
        [\A s \in Segments : \A e \in (seen[s] \cup uses[s]) \cap (entities \ entities') :
           \E r \in Segments \ {s} :
             e \in claims[r] \ claims'[r] /\ (Bears(r) => lane[r] # lane[s])]_entityVars
  BY <1>1
<1>3. QED
  BY <1>2, EntityInvariant, PTL DEF EntitySpec, LaneProtectsChoices
-----------------------------------------------------------------------------
(* A search keeps to what was committed at some time since it began: its candidates, the claims of *)
(* the moment, and what it names.                                                                  *)
SearchInv ==
  /\ SearchTypeOK
  /\ search = "found" => found \cup Rows \subseteq witnessed
  /\ search # "found" => found = {}
  /\ search # "ranked" => DOMAIN result = {}
  /\ AnswersAreBacked

LEMMA SearchInitInv == SearchInit => SearchInv
<1>1. SUFFICES ASSUME SearchInit PROVE SearchInv
  OBVIOUS
<1>2. search = "idle" /\ found = {} /\ witnessed = {} /\ DOMAIN result = {}
  BY <1>1 DEF SearchInit
<1>3. QED
  BY <1>2 DEF SearchInv, SearchTypeOK, AnswersAreBacked

\* Whoever it is named for, a segment in an answer had a claim on the entity.
LEMMA NamedIsBacked ==
  ASSUME SearchInv, search = "found", NEW e \in {hit[2] : hit \in found},
         NEW visible \in SUBSET Segments
  PROVE  Named(e, visible) # {} /\ Named(e, visible) \X {e} \subseteq witnessed
<1>1. found \subseteq Segments \X Entities /\ found \subseteq witnessed /\ Rows \subseteq witnessed
  BY DEF SearchInv, SearchTypeOK
<1>2. PICK hit \in found : hit[2] = e
  OBVIOUS
<1>3. e \in Entities /\ <<hit[1], e>> \in found /\ hit[1] \in Segments
  BY <1>1, <1>2
<1>4. CASE Support(e, visible) # {}
  <2>1. \A s \in Support(e, visible) : <<s, e>> \in Rows
    BY <1>3 DEF Support, Rows
  <2>2. QED
    BY <1>1, <1>4, <2>1 DEF Named
<1>5. CASE Support(e, visible) = {}
  <2>1. PICK c \in Segments : c = (CHOOSE s \in Segments : <<s, e>> \in found) /\ <<c, e>> \in found
    BY <1>3
  <2>2. Named(e, visible) = {c}
    BY <1>5, <2>1 DEF Named
  <2>3. QED
    BY <1>1, <2>1, <2>2
<1>6. QED
  BY <1>4, <1>5

LEMMA SearchStepKeeps == SearchInv /\ [SearchNext]_<<entityVars, searchVars>> => SearchInv'
<1>1. SUFFICES ASSUME SearchInv, [SearchNext]_<<entityVars, searchVars>> PROVE SearchInv'
  OBVIOUS
<1>2. Rows \subseteq Segments \X Entities
  BY DEF Rows
<1>3. CASE UNCHANGED <<entityVars, searchVars>>
  BY <1>1, <1>3 DEF entityVars, searchVars, SearchInv, SearchTypeOK, AnswersAreBacked, Rows
<1>4. CASE Meanwhile
  <2>1. /\ search' = search /\ found' = found /\ result' = result
        /\ witnessed' = IF search = "found" THEN witnessed \cup Rows' ELSE witnessed
    BY <1>4 DEF Meanwhile
  <2>2. Rows' \subseteq Segments \X Entities
    BY DEF Rows
  <2>3. witnessed \subseteq witnessed'
    BY <2>1
  <2>4. QED
    BY <1>1, <2>1, <2>2, <2>3 DEF SearchInv, SearchTypeOK, AnswersAreBacked
<1>5. CASE FindDirect
  <2>1. /\ search = "idle" /\ search' = "found" /\ found' \subseteq Rows
        /\ witnessed' = Rows /\ result' = result /\ Rows' = Rows
    BY <1>5 DEF FindDirect, entityVars, Rows
  <2>2. QED
    BY <1>1, <1>2, <2>1 DEF SearchInv, SearchTypeOK, AnswersAreBacked
<1>6. CASE FindNear
  <2>1. /\ search = "found" /\ search' = "found" /\ witnessed' = witnessed /\ result' = result
        /\ Rows' = Rows /\ found' \subseteq found \cup Rows
    BY <1>6 DEF FindNear, entityVars, Rows
  <2>2. QED
    BY <1>1, <1>2, <2>1 DEF SearchInv, SearchTypeOK, AnswersAreBacked
<1>7. CASE Rank
  <2>1. PICK visible \in SUBSET Segments, best \in SUBSET {hit[2] : hit \in found} :
          result' = [e \in best |-> Named(e, visible)]
    BY <1>7 DEF Rank
  <2>2. search = "found" /\ search' = "ranked" /\ found' = {} /\ witnessed' = witnessed
    BY <1>7 DEF Rank
  <2>3. DOMAIN result' = best /\ best \subseteq Entities
    BY <1>1, <2>1 DEF SearchInv, SearchTypeOK
  <2>4. \A e \in best : result'[e] # {} /\ result'[e] \X {e} \subseteq witnessed'
    BY <1>1, <2>1, <2>2, NamedIsBacked
  <2>5. QED
    BY <1>1, <2>2, <2>3, <2>4 DEF SearchInv, SearchTypeOK, AnswersAreBacked
<1>8. CASE Forget
  <2>1. search' = "idle" /\ found' = {} /\ witnessed' = {} /\ DOMAIN result' = {}
    BY <1>8 DEF Forget
  <2>2. QED
    BY <2>1 DEF SearchInv, SearchTypeOK, AnswersAreBacked
<1>9. QED
  BY <1>1, <1>3, <1>4, <1>5, <1>6, <1>7, <1>8 DEF SearchNext

(* No answer of a search names what never was: whatever the resolutions commit between its        *)
(* queries, each segment in it had a claim on its entity since the search began.                  *)
THEOREM SearchIsBacked == SearchSpec => []AnswersAreBacked
<1>1. SearchInv => AnswersAreBacked
  BY DEF SearchInv
<1>2. QED
  BY <1>1, SearchInitInv, SearchStepKeeps, PTL DEF SearchSpec
-----------------------------------------------------------------------------
(* The statements there are; those that may be left while old writers run. *)
Quiet ==
  ({"validate", "own"} \X RowTables) \cup ({"index", "build"} \X ToSet(NewIndexes))
    \cup ({"drop"} \X ToSet(OldIndexes)) \cup ({"assign"} \X Groups)
    \cup {<<"confirm">>, <<"contradictory">>, <<"keys">>, <<"list">>}
Statement == Quiet \cup {<<"unowned">>}

RolloutTypeOK ==
  /\ registry \subseteq Sources /\ expanded \in BOOLEAN /\ validated \subseteq RowTables
  /\ index \in [ToSet(NewIndexes) -> {"absent", "invalid", "ready"}]
  /\ oldIndexes \subseteq ToSet(OldIndexes) /\ notNull \subseteq RowTables
  /\ jobRows \in [Groups -> [SpanEnds -> [Owners -> Nat]]]
  /\ ownerIn \in [Groups -> [{"segments", "targets"} -> Owners \cup {Missing}]]
  /\ command \in Seq(Statement) /\ enforcing \in BOOLEAN
  /\ boot \in Seq(ToSet(BootChecks)) /\ server \in {"down", "starting", "up"}
  /\ oldWriters \in BOOLEAN

(* A server that starts has passed the checks that it has not left. *)
BootFits ==
  /\ server # "down" =>
       /\ expanded
       /\ \A c \in ToSet(BootChecks) : BootPasses(c) \/ \E i \in DOMAIN boot : boot[i] = c
  /\ server = "up" => boot = <<>>

(* Who counts the rows without an owner has been told that the old writers are stopped. *)
WritersAreAsked ==
  oldWriters => ~enforcing /\ \A i \in DOMAIN command : command[i] # <<"unowned">>

RolloutInv ==
  /\ RolloutTypeOK /\ OneJobPerBoundary /\ BootFits /\ WritersAreAsked /\ EnforcedIsOwned
-----------------------------------------------------------------------------
\* What the lists of the module name.
LEMMA NewIndexNames ==
  ToSet(NewIndexes) = {"segments_source_start", "jobs_source_boundary", "jobs_source_job_segment"}
BY DEF ToSet, NewIndexes

LEMMA OldIndexNames == ToSet(OldIndexes) = {"segments_start", "jobs_boundary"}
BY DEF ToSet, OldIndexes

LEMMA BootCheckNames ==
  ToSet(BootChecks) =
    {"segments_source_start", "jobs_source_boundary", "boundary_checks", "old_indexes"}
BY DEF ToSet, BootChecks

\* What a statement is about.
LEMMA StatementSubjects ==
  ASSUME NEW x \in Statement
  PROVE  /\ x[1] \in {"validate", "own"} => x[2] \in RowTables
         /\ x[1] \in {"index", "build"} => x[2] \in ToSet(NewIndexes)
         /\ x[1] = "drop" => x[2] \in ToSet(OldIndexes)
         /\ x[1] = "assign" => x[2] \in Groups
BY DEF Statement, Quiet

\* A list of quiet statements.
LEMMA EachIsQuiet ==
  ASSUME NEW statement, NEW X, NEW over \in Seq(X), \A x \in X : <<statement, x>> \in Quiet
  PROVE  Each(statement, over) \in Seq(Quiet)
<1>1. DOMAIN over = 1..Len(over) /\ Len(over) \in Nat
  OBVIOUS
<1>2. \A i \in 1..Len(over) : <<statement, over[i]>> \in Quiet
  OBVIOUS
<1>3. QED
  BY <1>1, <1>2 DEF Each

\* What the commands are made of.
LEMMA CommandsAreStatements ==
  /\ Install \in Seq(Quiet) /\ Cutover \in Seq(Quiet) /\ <<<<"list">>>> \in Seq(Quiet)
  /\ Enforce \in Seq(Statement)
<1>1. Each("validate", TableOrder) \in Seq(Quiet) /\ Each("own", TableOrder) \in Seq(Quiet)
  <2>1. TableOrder \in Seq(RowTables)
    BY DEF TableOrder, RowTables
  <2>2. QED
    BY <2>1, EachIsQuiet DEF Quiet
<1>2. Each("index", NewIndexes) \in Seq(Quiet)
  <2>1. NewIndexes \in Seq(ToSet(NewIndexes))
    BY NewIndexNames DEF NewIndexes
  <2>2. QED
    BY <2>1, EachIsQuiet DEF Quiet
<1>3. Each("drop", OldIndexes) \in Seq(Quiet)
  <2>1. OldIndexes \in Seq(ToSet(OldIndexes))
    BY OldIndexNames DEF OldIndexes
  <2>2. QED
    BY <2>1, EachIsQuiet DEF Quiet
<1>4. ConfirmAll \in Seq(Quiet) /\ <<<<"list">>>> \in Seq(Quiet)
  BY DEF ConfirmAll, Quiet
<1>5. Install \in Seq(Quiet)
  BY <1>1, <1>2, <1>4, ConcatProperties DEF Install
<1>6. Cutover \in Seq(Quiet)
  BY <1>3, <1>4, ConcatProperties DEF Cutover
<1>7. Enforce \in Seq(Statement)
  <2>1. Seq(Quiet) \subseteq Seq(Statement)
    BY DEF Statement
  <2>2. <<<<"unowned">>, <<"contradictory">>, <<"keys">>>> \in Seq(Statement)
    BY DEF Statement, Quiet
  <2>3. QED
    BY <1>1, <1>4, <1>6, <2>1, <2>2, ConcatProperties DEF Enforce
<1>8. QED
  BY <1>4, <1>5, <1>6, <1>7

\* What a command that has statements left gives away.
LEMMA CommandGoes ==
  ASSUME RolloutTypeOK, command # <<>>
  PROVE  /\ Head(command) \in Statement /\ Tail(command) \in Seq(Statement)
         /\ \A i \in DOMAIN Tail(command) : i + 1 \in DOMAIN command
                                          /\ Tail(command)[i] = command[i + 1]
BY HeadTailProperties DEF RolloutTypeOK

\* Nothing is owned at first, and nothing demanded.
LEMMA RolloutInitInv == ASSUME RolloutAssumption, RolloutInit PROVE RolloutInv
<1>1. RolloutTypeOK
  <2>1. Unowned \in Owners
    BY DEF Owners
  <2>2. command \in Seq(Statement) /\ boot \in Seq(ToSet(BootChecks))
    BY DEF RolloutInit
  <2>3. QED
    BY <2>1, <2>2 DEF RolloutInit, RolloutTypeOK
<1>2. OneJobPerBoundary /\ BootFits /\ WritersAreAsked /\ EnforcedIsOwned
  BY DEF RolloutInit, OneJobPerBoundary, BootFits, WritersAreAsked, EnforcedIsOwned
<1>3. QED
  BY <1>1, <1>2 DEF RolloutInv

-----------------------------------------------------------------------------
(* Nothing that a server has been shown is taken back. *)
SchemaGoesOn ==
  /\ (expanded => expanded') /\ validated \subseteq validated'
  /\ oldIndexes' \subseteq oldIndexes
  /\ \A i \in DOMAIN index : index[i] = "ready" => index'[i] = "ready"

\* A server that starts has still passed what it has passed.
LEMMA BootStays ==
  ASSUME RolloutTypeOK, BootFits, SchemaGoesOn, RolloutTypeOK',
         boot' = boot, server' = server
  PROVE  BootFits'
<1>1. ASSUME NEW c \in ToSet(BootChecks), BootPasses(c) PROVE BootPasses(c)'
  <2>1. CASE c = "boundary_checks"
    <3>1. validated = RowTables
      BY <2>1, <1>1 DEF BootPasses
    <3>2. validated' \subseteq RowTables
      BY DEF RolloutTypeOK
    <3>3. validated \subseteq validated'
      BY DEF SchemaGoesOn
    <3>4. QED
      BY <2>1, <3>1, <3>2, <3>3 DEF BootPasses
  <2>2. CASE c = "old_indexes"
    BY <2>2, <1>1 DEF BootPasses, SchemaGoesOn, RolloutTypeOK
  <2>3. CASE c \in {"segments_source_start", "jobs_source_boundary"}
    <3>1. c \in DOMAIN index
      BY <2>3, NewIndexNames DEF RolloutTypeOK
    <3>2. QED
      BY <2>3, <3>1, <1>1 DEF BootPasses, SchemaGoesOn
  <2>4. QED
    BY <2>1, <2>2, <2>3, BootCheckNames
<1>2. QED
  BY <1>1 DEF BootFits, SchemaGoesOn

\* What is said of rows holds as long as they stay.
LEMMA RowsStay ==
  ASSUME UNCHANGED groupRows
  PROVE  /\ OneJobPerBoundary <=> OneJobPerBoundary'
         /\ Pending' = Pending /\ \A t : OwnersIn(t)' = OwnersIn(t)
         /\ \A g : OwnersOf(g)' = OwnersOf(g)
BY DEF groupRows, OneJobPerBoundary, Pending, OwnersIn, OwnersOf

\* The command goes on, ends or fails.
LEMMA CommandStays ==
  ASSUME RolloutTypeOK, WritersAreAsked, command # <<>>, UNCHANGED oldWriters,
         Goes \/ Fails
  PROVE  /\ command' \in Seq(Statement) /\ enforcing' \in BOOLEAN
         /\ WritersAreAsked' /\ (enforcing' => enforcing)
<1>1. CASE Goes
  BY <1>1, CommandGoes DEF Goes, WritersAreAsked, RolloutTypeOK
<1>2. CASE Fails
  <2>1. command' = <<>> /\ enforcing' = FALSE
    BY <1>2 DEF Fails
  <2>2. command' \in Seq(Statement) /\ DOMAIN command' = {}
    BY <2>1
  <2>3. QED
    BY <2>1, <2>2 DEF WritersAreAsked
<1>3. QED
  BY <1>1, <1>2
-----------------------------------------------------------------------------
\* The statements of a command that leave the rows alone.

LEMMA SchemaStatements ==
  ASSUME RolloutInv, Validate \/ BuildIndex \/ FinishIndex \/ DropIndex
  PROVE  RolloutInv'
<1>1. command # <<>> /\ Head(command) \in Statement
  BY CommandGoes DEF RolloutInv, Validate, BuildIndex, FinishIndex, DropIndex, At
<1>2. /\ validated' \subseteq RowTables /\ oldIndexes' \subseteq ToSet(OldIndexes)
      /\ index' \in [ToSet(NewIndexes) -> {"absent", "invalid", "ready"}]
      /\ SchemaGoesOn
      /\ UNCHANGED <<registry, expanded, notNull, groupRows, processes>>
  <2>1. CASE Validate
    BY <2>1, <1>1, StatementSubjects
    DEF Validate, At, Subject, SchemaGoesOn, RolloutInv, RolloutTypeOK
  <2>2. CASE BuildIndex
    BY <2>2, <1>1, StatementSubjects
    DEF BuildIndex, At, Subject, SchemaGoesOn, RolloutInv, RolloutTypeOK
  <2>3. CASE FinishIndex
    BY <2>3, <1>1, StatementSubjects
    DEF FinishIndex, At, Subject, SchemaGoesOn, RolloutInv, RolloutTypeOK
  <2>4. CASE DropIndex
    BY <2>4, <1>1, StatementSubjects
    DEF DropIndex, At, Subject, SchemaGoesOn, RolloutInv, RolloutTypeOK
  <2>5. QED
    BY <2>1, <2>2, <2>3, <2>4
<1>3. /\ command' \in Seq(Statement) /\ enforcing' \in BOOLEAN
      /\ WritersAreAsked' /\ (enforcing' => enforcing)
  <2>1. CASE Goes \/ Fails
    BY <2>1, <1>1, <1>2, CommandStays DEF RolloutInv, processes
  <2>2. CASE UNCHANGED operator
    BY <2>2, <1>2 DEF RolloutInv, RolloutTypeOK, WritersAreAsked, operator, processes
  <2>3. ASSUME At("index"), command' = <<<<"build", Subject>>>> \o Tail(command),
               UNCHANGED enforcing
        PROVE  /\ command' \in Seq(Statement) /\ enforcing' \in BOOLEAN
               /\ WritersAreAsked' /\ (enforcing' => enforcing)
    <3>1. <<"build", Subject>> \in Quiet
      BY <2>3, <1>1, StatementSubjects DEF At, Subject, Quiet
    <3>2. <<<<"build", Subject>>>> \in Seq(Statement) /\ <<"build", Subject>> # <<"unowned">>
      BY <3>1 DEF Statement
    <3>3. Tail(command) \in Seq(Statement)
      BY <1>1, CommandGoes DEF RolloutInv
    <3>4. /\ command' \in Seq(Statement) /\ Len(command') = 1 + Len(Tail(command))
          /\ command'[1] = <<"build", Subject>>
          /\ \A i \in 1..Len(Tail(command)) : command'[i + 1] = Tail(command)[i]
      BY <2>3, <3>2, <3>3, ConcatProperties
    <3>5. \A i \in DOMAIN command' :
            i # 1 => i - 1 \in DOMAIN Tail(command) /\ command'[i] = Tail(command)[i - 1]
      <4>1. DOMAIN command' = 1..(1 + Len(Tail(command))) /\ Len(Tail(command)) \in Nat
            /\ DOMAIN Tail(command) = 1..Len(Tail(command))
        BY <3>3, <3>4
      <4>2. ASSUME NEW i \in DOMAIN command', i # 1
            PROVE  i - 1 \in DOMAIN Tail(command) /\ command'[i] = Tail(command)[i - 1]
        <5>1. i - 1 \in 1..Len(Tail(command)) /\ (i - 1) + 1 = i
          BY <4>1, <4>2
        <5>2. QED
          BY <5>1, <4>1, <3>4
      <4>3. QED
        BY <4>2
    <3>6. \A i \in DOMAIN command' : i = 1 \/ \E j \in DOMAIN command : command'[i] = command[j]
      BY <3>5, <1>1, CommandGoes DEF RolloutInv
    <3>7. WritersAreAsked'
      BY <3>6, <3>4, <3>2, <2>3, <1>2 DEF RolloutInv, WritersAreAsked, processes
    <3>8. QED
      BY <3>4, <3>7, <2>3 DEF RolloutInv, RolloutTypeOK
  <2>4. QED
    <3>1. CASE Validate \/ DropIndex \/ FinishIndex
      BY <3>1, <2>1 DEF Validate, DropIndex, FinishIndex, GoesIf
    <3>2. CASE BuildIndex
      BY <3>2, <2>1, <2>2, <2>3 DEF BuildIndex
    <3>3. QED
      BY <3>1, <3>2
<1>4. RolloutTypeOK'
  BY <1>2, <1>3 DEF RolloutInv, RolloutTypeOK, groupRows, processes
<1>5. BootFits'
  BY <1>2, <1>4, BootStays DEF RolloutInv, processes
<1>6. OneJobPerBoundary' /\ EnforcedIsOwned'
  BY <1>2, <1>3, RowsStay DEF RolloutInv, EnforcedIsOwned
<1>7. QED
  BY <1>3, <1>4, <1>5, <1>6 DEF RolloutInv

\* The statements that only look.
LEMMA LookingStatements ==
  ASSUME RolloutInv, ConfirmIndexes \/ CheckOwners
  PROVE  RolloutInv'
<1>1. command # <<>> /\ (Goes \/ Fails) /\ UNCHANGED <<schema, groupRows, processes>>
  BY DEF ConfirmIndexes, CheckOwners, At, GoesIf
<1>2. /\ command' \in Seq(Statement) /\ enforcing' \in BOOLEAN
      /\ WritersAreAsked' /\ (enforcing' => enforcing)
  BY <1>1, CommandStays DEF RolloutInv, processes
<1>3. RolloutTypeOK'
  BY <1>1, <1>2 DEF RolloutInv, RolloutTypeOK, schema, groupRows, processes
<1>4. BootFits'
  BY <1>1, <1>3, BootStays DEF RolloutInv, processes, schema, SchemaGoesOn
<1>5. OneJobPerBoundary' /\ EnforcedIsOwned'
  BY <1>1, <1>2, RowsStay DEF RolloutInv, EnforcedIsOwned, schema
<1>6. QED
  BY <1>2, <1>3, <1>4, <1>5 DEF RolloutInv

\* enforce finds that every row has an owner: then it has been told that the old writers are stopped.
LEMMA CountKeeps ==
  ASSUME RolloutInv, CountUnowned
  PROVE  RolloutInv'
<1>1. /\ command # <<>> /\ command[1] \in Statement /\ command[1][1] = "unowned"
      /\ UNCHANGED <<schema, groupRows, processes>>
  BY CommandGoes DEF CountUnowned, At, RolloutInv, RolloutTypeOK
<1>2. CASE Pending # {}
  <2>1. Fails
    BY <1>2 DEF CountUnowned
  <2>2. /\ command' \in Seq(Statement) /\ enforcing' \in BOOLEAN
        /\ WritersAreAsked' /\ ~enforcing'
    BY <1>1, <2>1, CommandStays DEF RolloutInv, processes, Fails
  <2>3. RolloutTypeOK'
    BY <1>1, <2>2 DEF RolloutInv, RolloutTypeOK, schema, groupRows, processes
  <2>4. BootFits'
    BY <1>1, <2>3, BootStays DEF RolloutInv, processes, schema, SchemaGoesOn
  <2>5. OneJobPerBoundary' /\ EnforcedIsOwned'
    BY <1>1, <2>2, RowsStay DEF RolloutInv, EnforcedIsOwned, schema
  <2>6. QED
    BY <2>2, <2>3, <2>4, <2>5 DEF RolloutInv
<1>3. CASE Pending = {}
  <2>1. command' = Tail(command) /\ enforcing' = TRUE
    BY <1>3 DEF CountUnowned
  <2>2. ~oldWriters
    <3>1. command[1] = <<"unowned">>
      BY <1>1 DEF Statement, Quiet
    <3>2. 1 \in DOMAIN command
      BY <1>1 DEF RolloutInv, RolloutTypeOK
    <3>3. QED
      BY <3>1, <3>2 DEF RolloutInv, WritersAreAsked
  <2>3. RolloutTypeOK' /\ WritersAreAsked'
    BY <1>1, <2>1, <2>2, CommandGoes
    DEF RolloutInv, RolloutTypeOK, WritersAreAsked, schema, groupRows, processes
  <2>4. BootFits'
    BY <1>1, <2>3, BootStays DEF RolloutInv, processes, schema, SchemaGoesOn
  <2>5. OneJobPerBoundary' /\ EnforcedIsOwned'
    BY <1>1, <1>3, RowsStay DEF RolloutInv, EnforcedIsOwned, schema
  <2>6. QED
    BY <2>3, <2>4, <2>5 DEF RolloutInv
<1>4. QED
  BY <1>2, <1>3

\* .. and demands an owner where every row has one.
LEMMA RequireKeeps ==
  ASSUME RolloutInv, RequireOwner
  PROVE  RolloutInv'
<1>1. /\ command # <<>> /\ (Goes \/ Fails) /\ Head(command) \in Statement
      /\ UNCHANGED <<registry, expanded, validated, index, oldIndexes, groupRows, processes>>
  BY CommandGoes DEF RequireOwner, At, GoesIf, RolloutInv
<1>2. /\ command' \in Seq(Statement) /\ enforcing' \in BOOLEAN
      /\ WritersAreAsked' /\ (enforcing' => enforcing)
  BY <1>1, CommandStays DEF RolloutInv, processes
<1>3. /\ notNull' \subseteq RowTables
      /\ \A t \in notNull' : t \in notNull \/ Unowned \notin OwnersIn(t)
  BY <1>1, StatementSubjects DEF RequireOwner, At, Subject, RolloutInv, RolloutTypeOK
<1>4. RolloutTypeOK'
  BY <1>1, <1>2, <1>3 DEF RolloutInv, RolloutTypeOK, groupRows, processes
<1>5. BootFits'
  BY <1>1, <1>4, BootStays DEF RolloutInv, processes, SchemaGoesOn
<1>6. OneJobPerBoundary' /\ EnforcedIsOwned'
  BY <1>1, <1>2, <1>3, RowsStay DEF RolloutInv, EnforcedIsOwned
<1>7. QED
  BY <1>2, <1>4, <1>5, <1>6 DEF RolloutInv
-----------------------------------------------------------------------------
\* Between commands.

\* A command begins, is cut off, or changes the schema in one transaction.
LEMMA CommandsBegin ==
  ASSUME RolloutAssumption, RolloutInv,
         Expand \/ Issue \/ Interrupt \/ StopOldWriters \/ (\E s \in Sources : Register(s))
  PROVE  RolloutInv'
<1>1. /\ registry' \subseteq Sources /\ expanded' \in BOOLEAN /\ validated' \subseteq RowTables
      /\ SchemaGoesOn \/ ~expanded
      /\ UNCHANGED <<index, oldIndexes, notNull, groupRows, boot, server>>
      /\ oldWriters' \in BOOLEAN /\ (oldWriters' => oldWriters)
  <2>1. CASE Expand
    <3>1. /\ expanded' = TRUE /\ validated' = IF expanded THEN validated ELSE {}
          /\ UNCHANGED <<registry, index, oldIndexes, notNull, groupRows, boot, server, oldWriters>>
      BY <2>1 DEF Expand, Migrated, processes
    <3>2. SchemaGoesOn \/ ~expanded
      BY <3>1 DEF SchemaGoesOn
    <3>3. QED
      BY <3>1, <3>2 DEF RolloutInv, RolloutTypeOK
  <2>2. CASE /\ UNCHANGED <<schema, groupRows, boot, server>>
             /\ oldWriters' = oldWriters \/ oldWriters' = FALSE
    <3>1. SchemaGoesOn
      BY <2>2 DEF SchemaGoesOn, schema
    <3>2. oldWriters' \in BOOLEAN /\ (oldWriters' => oldWriters)
      <4>1. CASE oldWriters' = oldWriters
        BY <4>1 DEF RolloutInv, RolloutTypeOK
      <4>2. CASE oldWriters' = FALSE
        BY <4>2
      <4>3. QED
        BY <2>2, <4>1, <4>2
    <3>3. /\ registry' \subseteq Sources /\ expanded' \in BOOLEAN /\ validated' \subseteq RowTables
          /\ UNCHANGED <<index, oldIndexes, notNull, groupRows, boot, server>>
      BY <2>2 DEF RolloutInv, RolloutTypeOK, schema
    <3>4. QED
      BY <3>1, <3>2, <3>3
  <2>3. CASE \E s \in Sources : Register(s)
    BY <2>3 DEF Register, RolloutInv, RolloutTypeOK, SchemaGoesOn, groupRows, processes
  <2>4. QED
    BY <2>1, <2>2, <2>3 DEF Issue, Interrupt, StopOldWriters, processes
<1>2. /\ command' \in Seq(Statement) /\ enforcing' \in BOOLEAN
      /\ WritersAreAsked' /\ (enforcing' => enforcing)
  <2>1. CASE UNCHANGED operator
    BY <2>1, <1>1 DEF RolloutInv, RolloutTypeOK, WritersAreAsked, operator
  <2>2. CASE Interrupt
    <3>1. command' = <<>> /\ enforcing' = FALSE
      BY <2>2 DEF Interrupt
    <3>2. command' \in Seq(Statement) /\ DOMAIN command' = {}
      BY <3>1
    <3>3. QED
      BY <3>1, <3>2 DEF WritersAreAsked
  <2>3. CASE Issue
    <3>1. /\ \/ command' \in {Install, Cutover, <<<<"list">>>>}
             \/ command' = Enforce /\ ~oldWriters
          /\ enforcing' = FALSE /\ oldWriters' = oldWriters
      BY <2>3 DEF Issue, WritersStopped, processes
    <3>2. CASE command' = Enforce /\ ~oldWriters
      BY <3>1, <3>2, CommandsAreStatements DEF WritersAreAsked
    <3>3. CASE command' \in Seq(Quiet)
      <4>1. \A i \in DOMAIN command' : command'[i] \in Quiet
        BY <3>3
      <4>2. \A x \in Quiet : x # <<"unowned">>
        BY DEF Quiet
      <4>3. command' \in Seq(Statement)
        BY <3>3 DEF Statement
      <4>4. QED
        BY <3>1, <4>1, <4>2, <4>3 DEF WritersAreAsked
    <3>4. QED
      BY <3>1, <3>2, <3>3, CommandsAreStatements
  <2>4. QED
    BY <2>1, <2>2, <2>3 DEF Expand, StopOldWriters, Register
<1>3. RolloutTypeOK'
  BY <1>1, <1>2 DEF RolloutInv, RolloutTypeOK, groupRows
<1>4. BootFits'
  <2>1. CASE SchemaGoesOn
    BY <2>1, <1>1, <1>3, BootStays DEF RolloutInv
  <2>2. CASE ~expanded
    BY <2>2, <1>1 DEF RolloutInv, RolloutTypeOK, BootFits
  <2>3. QED
    BY <1>1, <2>1, <2>2
<1>5. OneJobPerBoundary' /\ EnforcedIsOwned'
  BY <1>1, <1>2, RowsStay DEF RolloutInv, EnforcedIsOwned
<1>6. QED
  BY <1>2, <1>3, <1>4, <1>5 DEF RolloutInv

\* A batch is put before what is left.
LEMMA BatchKeeps ==
  ASSUME RolloutAssumption, RolloutInv, ListBatch
  PROVE  RolloutInv'
<1>1. command # <<>> /\ UNCHANGED <<schema, groupRows, processes>>
  BY DEF ListBatch, At
<1>2. /\ command' \in Seq(Statement) /\ enforcing' \in BOOLEAN
      /\ WritersAreAsked' /\ (enforcing' => enforcing)
  <2>1. CASE Goes
    BY <2>1, <1>1, CommandStays DEF RolloutInv, processes
  <2>2. ASSUME NEW n \in 1..BatchSize, NEW batch \in [1..n -> Pending],
               command' = Each("assign", batch) \o command, UNCHANGED enforcing
        PROVE  /\ command' \in Seq(Statement) /\ enforcing' \in BOOLEAN
               /\ WritersAreAsked' /\ (enforcing' => enforcing)
    <3>1. n \in Nat /\ Pending \subseteq Groups
      BY DEF RolloutAssumption, Pending
    <3>2. batch \in Seq(Groups)
      BY <3>1
    <3>3. Each("assign", batch) \in Seq(Quiet)
      BY <3>2, EachIsQuiet DEF Quiet
    <3>4. Each("assign", batch) \in Seq(Statement) /\ command \in Seq(Statement)
      BY <3>3 DEF Statement, RolloutInv, RolloutTypeOK
    <3>5. \A i \in DOMAIN Each("assign", batch) : Each("assign", batch)[i] # <<"unowned">>
      <4>1. \A x \in Quiet : x # <<"unowned">>
        BY DEF Quiet
      <4>2. QED
        BY <3>3, <4>1
    <3>6. /\ command' \in Seq(Statement)
          /\ Len(command') = Len(Each("assign", batch)) + Len(command)
          /\ \A i \in 1..(Len(Each("assign", batch)) + Len(command)) :
               command'[i] = IF i <= Len(Each("assign", batch)) THEN Each("assign", batch)[i]
                             ELSE command[i - Len(Each("assign", batch))]
      BY <2>2, <3>4, ConcatProperties
    <3>7. ASSUME NEW i \in DOMAIN command'
          PROVE  \/ \E j \in DOMAIN Each("assign", batch) : command'[i] = Each("assign", batch)[j]
                 \/ \E j \in DOMAIN command : command'[i] = command[j]
      <4>1. /\ DOMAIN command' = 1..(Len(Each("assign", batch)) + Len(command))
            /\ DOMAIN Each("assign", batch) = 1..Len(Each("assign", batch))
            /\ DOMAIN command = 1..Len(command)
            /\ Len(Each("assign", batch)) \in Nat /\ Len(command) \in Nat
        BY <3>4, <3>6
      <4>2. CASE i <= Len(Each("assign", batch))
        BY <4>1, <4>2, <3>6
      <4>3. CASE ~(i <= Len(Each("assign", batch)))
        <5>1. i - Len(Each("assign", batch)) \in 1..Len(command)
          BY <4>1, <4>3
        <5>2. QED
          BY <5>1, <4>1, <4>3, <3>6
      <4>4. QED
        BY <4>2, <4>3
    <3>8. WritersAreAsked'
      BY <3>5, <3>7, <2>2, <1>1 DEF RolloutInv, WritersAreAsked, processes
    <3>9. QED
      BY <3>6, <3>8, <2>2 DEF RolloutInv, RolloutTypeOK
  <2>3. QED
    BY <2>1, <2>2 DEF ListBatch
<1>3. RolloutTypeOK'
  BY <1>1, <1>2 DEF RolloutInv, RolloutTypeOK, schema, groupRows, processes
<1>4. BootFits'
  BY <1>1, <1>3, BootStays DEF RolloutInv, processes, schema, SchemaGoesOn
<1>5. OneJobPerBoundary' /\ EnforcedIsOwned'
  BY <1>1, <1>2, RowsStay DEF RolloutInv, EnforcedIsOwned, schema
<1>6. QED
  BY <1>2, <1>3, <1>4, <1>5 DEF RolloutInv
-----------------------------------------------------------------------------
\* The server starts and stops.
LEMMA ServerKeeps ==
  ASSUME RolloutInv, Start \/ BootStep \/ Stop
  PROVE  RolloutInv'
<1>1. /\ UNCHANGED <<registry, index, oldIndexes, notNull, groupRows, operator, oldWriters>>
      /\ expanded' \in BOOLEAN /\ validated' \subseteq RowTables
      /\ server' \in {"down", "starting", "up"}
  BY DEF Start, Migrated, BootStep, Stop, RolloutInv, RolloutTypeOK, schema, groupRows, operator
<1>2. boot' \in Seq(ToSet(BootChecks)) /\ BootFits'
  <2>1. CASE Start
    <3>1. boot' = BootChecks /\ server' = "starting" /\ expanded' = TRUE
      BY <2>1 DEF Start, StartupChecks, Migrated
    <3>2. QED
      BY <3>1 DEF BootFits, BootChecks, ToSet
  <2>2. CASE server' = "down" /\ boot' = <<>>
    BY <2>2 DEF BootFits
  <2>3. CASE BootStep /\ ~(server' = "down" /\ boot' = <<>>)
    <3>1. /\ server = "starting" /\ boot # <<>> /\ BootPasses(Head(boot)) /\ boot' = Tail(boot)
          /\ server' = IF Tail(boot) = <<>> THEN "up" ELSE server
          /\ UNCHANGED <<schema, groupRows, operator, oldWriters>>
      BY <2>3 DEF BootStep
    <3>2. /\ boot' \in Seq(ToSet(BootChecks)) /\ Len(boot') = Len(boot) - 1 /\ Head(boot) = boot[1]
          /\ \A i \in 1..Len(boot') : boot'[i] = boot[i + 1]
      BY <3>1, HeadTailProperties DEF RolloutInv, RolloutTypeOK
    <3>3. DOMAIN boot = 1..Len(boot) /\ DOMAIN boot' = 1..Len(boot') /\ Len(boot) \in Nat
      BY <3>2 DEF RolloutInv, RolloutTypeOK
    <3>4. \A c : BootPasses(c)' = BootPasses(c)
      BY <3>1 DEF BootPasses, schema
    <3>5. ASSUME NEW c \in ToSet(BootChecks), ~BootPasses(c)
          PROVE  \E i \in DOMAIN boot' : boot'[i] = c
      <4>1. PICK j \in DOMAIN boot : boot[j] = c
        BY <3>1, <3>5 DEF RolloutInv, BootFits
      <4>2. j # 1
        BY <4>1, <3>1, <3>2, <3>5
      <4>3. j - 1 \in 1..Len(boot') /\ (j - 1) + 1 = j
        BY <4>2, <3>2, <3>3
      <4>4. QED
        BY <4>1, <4>3, <3>2, <3>3
    <3>6. expanded' = expanded /\ expanded
      BY <3>1 DEF schema, RolloutInv, BootFits
    <3>7. QED
      BY <3>1, <3>2, <3>4, <3>5, <3>6 DEF BootFits
  <2>4. QED
    BY <2>1, <2>2, <2>3 DEF Stop
<1>3. RolloutTypeOK'
  BY <1>1, <1>2 DEF RolloutInv, RolloutTypeOK, groupRows, operator
<1>4. OneJobPerBoundary' /\ EnforcedIsOwned' /\ WritersAreAsked'
  BY <1>1, RowsStay DEF RolloutInv, EnforcedIsOwned, WritersAreAsked, operator
<1>5. QED
  BY <1>2, <1>3, <1>4 DEF RolloutInv
-----------------------------------------------------------------------------
\* The rows of a group change.

LEMMA GroupChanges ==
  ASSUME RolloutInv, NEW g \in Groups, UNCHANGED <<schema, processes>>,
         NEW J \in [SpanEnds -> [Owners -> Nat]],
         NEW O \in [{"segments", "targets"} -> Owners \cup {Missing}],
         jobRows' = [jobRows EXCEPT ![g] = J], ownerIn' = [ownerIn EXCEPT ![g] = O],
         \A e \in SpanEnds :
           /\ \A o \in Owners : J[e][o] <= 1
           /\ \A o, p \in Owners : J[e][o] > 0 /\ J[e][p] > 0 => o = p,
         \A e \in SpanEnds : J[e][Unowned] > 0 =>
           jobRows[g][e][Unowned] > 0 \/ (oldWriters /\ "jobs" \notin notNull),
         \A t \in {"segments", "targets"} : O[t] = Unowned =>
           ownerIn[g][t] = Unowned \/ (oldWriters /\ t \notin notNull),
         command' \in Seq(Statement), enforcing' \in BOOLEAN,
         WritersAreAsked', enforcing' => enforcing
  PROVE  RolloutInv'
<1>1. RolloutTypeOK'
  BY DEF RolloutInv, RolloutTypeOK, schema, processes
<1>2. BootFits'
  BY <1>1, BootStays DEF RolloutInv, processes, schema, SchemaGoesOn
<1>3. /\ jobRows'[g] = J /\ ownerIn'[g] = O
      /\ \A h \in Groups \ {g} : jobRows'[h] = jobRows[h] /\ ownerIn'[h] = ownerIn[h]
  BY DEF RolloutInv, RolloutTypeOK
<1>4. OneJobPerBoundary'
  <2>1. ASSUME NEW h \in Groups, NEW e \in SpanEnds
        PROVE  /\ \A o \in Owners : jobRows'[h][e][o] <= 1
               /\ \A o, p \in Owners :
                    jobRows'[h][e][o] > 0 /\ jobRows'[h][e][p] > 0 => o = p
    <3>1. CASE h = g
      BY <3>1, <1>3
    <3>2. CASE h # g
      BY <3>2, <1>3 DEF RolloutInv, OneJobPerBoundary
    <3>3. QED
      BY <3>1, <3>2
  <2>2. QED
    BY <2>1 DEF OneJobPerBoundary
\* Where a row without an owner is found, there was one, or an old writer put it there.
<1>5. ASSUME NEW h \in Groups, NEW e \in SpanEnds, jobRows'[h][e][Unowned] > 0
      PROVE  jobRows[h][e][Unowned] > 0 \/ (oldWriters /\ "jobs" \notin notNull)
  BY <1>3, <1>5
<1>6. ASSUME NEW h \in Groups, NEW t \in {"segments", "targets"}, ownerIn'[h][t] = Unowned
      PROVE  ownerIn[h][t] = Unowned \/ (oldWriters /\ t \notin notNull)
  BY <1>3, <1>6
<1>7. EnforcedIsOwned'
  <2>1. ASSUME enforcing' PROVE Pending' = {}
    <3>1. ~oldWriters /\ Pending = {}
      BY <2>1 DEF RolloutInv, WritersAreAsked, EnforcedIsOwned
    <3>2. ASSUME NEW h \in Groups, Unowned \in OwnersOf(h)' PROVE FALSE
      <4>1. Unowned \in Owners /\ Unowned \notin OwnersOf(h)
        BY <3>1 DEF Pending, Owners
      <4>2. CASE \E e \in SpanEnds : jobRows'[h][e][Unowned] > 0
        BY <4>1, <4>2, <3>1, <1>5 DEF OwnersOf
      <4>3. CASE \E t \in {"segments", "targets"} : ownerIn'[h][t] = Unowned
        BY <4>1, <4>3, <3>1, <1>6 DEF OwnersOf
      <4>4. QED
        BY <3>2, <4>2, <4>3 DEF OwnersOf
    <3>3. QED
      BY <3>2 DEF Pending
  <2>2. ASSUME NEW t \in notNull' PROVE Unowned \notin OwnersIn(t)'
    <3>1. t \in notNull /\ t \in RowTables /\ Unowned \notin OwnersIn(t) /\ Unowned \in Owners
      BY <2>2 DEF schema, RolloutInv, RolloutTypeOK, EnforcedIsOwned, Owners
    <3>2. CASE t = "jobs"
      BY <3>1, <3>2, <1>5 DEF OwnersIn
    <3>3. CASE t \in {"segments", "targets"}
      BY <3>1, <3>3, <1>6 DEF OwnersIn
    <3>4. QED
      BY <3>1, <3>2, <3>3 DEF RowTables
  <2>3. QED
    BY <2>1, <2>2 DEF EnforcedIsOwned
<1>8. QED
  BY <1>1, <1>2, <1>4, <1>7 DEF RolloutInv

\* Whoever writes rows takes no statement from the command.
LEMMA OperatorStays ==
  ASSUME RolloutInv, UNCHANGED <<operator, processes>>
  PROVE  /\ command' \in Seq(Statement) /\ enforcing' \in BOOLEAN
         /\ WritersAreAsked' /\ (enforcing' => enforcing)
BY DEF RolloutInv, RolloutTypeOK, WritersAreAsked, operator, processes

\* An old writer stores a job only where the boundary has none.
LEMMA OldEnqueueKeeps ==
  ASSUME RolloutAssumption, RolloutInv, NEW g \in Groups, NEW e \in SpanEnds, OldEnqueue(g, e)
  PROVE  RolloutInv'
<1> DEFINE J == IF \E o \in Owners : jobRows[g][e][o] > 0 THEN jobRows[g]
                ELSE [jobRows[g] EXCEPT ![e][Unowned] = 1]
           O == [ownerIn[g] EXCEPT !["targets"] = IF @ = Missing THEN Unowned ELSE @]
<1>1. /\ oldWriters /\ notNull \cap {"jobs", "targets"} = {}
      /\ UNCHANGED <<schema, operator, processes>>
  BY DEF OldEnqueue
<1>2. /\ jobRows[g] \in [SpanEnds -> [Owners -> Nat]] /\ Unowned \in Owners
      /\ ownerIn[g] \in [{"segments", "targets"} -> Owners \cup {Missing}]
      /\ DOMAIN jobRows = Groups /\ DOMAIN ownerIn = Groups
      /\ jobRows = [h \in Groups |-> jobRows[h]] /\ ownerIn = [h \in Groups |-> ownerIn[h]]
  BY DEF RolloutInv, RolloutTypeOK, Owners
<1>3. J \in [SpanEnds -> [Owners -> Nat]] /\ O \in [{"segments", "targets"} -> Owners \cup {Missing}]
  BY <1>2
<1>4. jobRows' = [jobRows EXCEPT ![g] = J] /\ ownerIn' = [ownerIn EXCEPT ![g] = O]
  BY <1>2 DEF OldEnqueue
<1>5. \A f \in SpanEnds :
        /\ \A o \in Owners : J[f][o] <= 1
        /\ \A o, p \in Owners : J[f][o] > 0 /\ J[f][p] > 0 => o = p
  <2>1. CASE \E o \in Owners : jobRows[g][e][o] > 0
    BY <2>1 DEF RolloutInv, OneJobPerBoundary
  <2>2. CASE ~\E o \in Owners : jobRows[g][e][o] > 0
    <3>1. \A o \in Owners : jobRows[g][e][o] = 0
      BY <2>2, <1>2
    <3>2. ASSUME NEW o \in Owners PROVE J[e][o] = IF o = Unowned THEN 1 ELSE 0
      BY <2>2, <3>1, <1>2
    <3>3. \A f \in SpanEnds \ {e} : J[f] = jobRows[g][f]
      BY <2>2, <1>2
    <3>4. QED
      BY <3>2, <3>3 DEF RolloutInv, OneJobPerBoundary
  <2>3. QED
    BY <2>1, <2>2
<1>6. \A f \in SpanEnds : J[f][Unowned] > 0 =>
        jobRows[g][f][Unowned] > 0 \/ (oldWriters /\ "jobs" \notin notNull)
  BY <1>1
<1>7. \A t \in {"segments", "targets"} : O[t] = Unowned =>
        ownerIn[g][t] = Unowned \/ (oldWriters /\ t \notin notNull)
  BY <1>1, <1>2
<1> HIDE DEF J, O
<1>8. QED
  BY <1>1, <1>3, <1>4, <1>5, <1>6, <1>7, OperatorStays, GroupChanges

\* A commit moves the owner from the target to the row of the segment.
LEMMA CommitsKeep ==
  ASSUME RolloutAssumption, RolloutInv, NEW g \in Groups, OldCommit(g) \/ NewCommit(g)
  PROVE  RolloutInv'
<1> DEFINE O == ownerIn'[g]
<1>1. /\ jobRows' = jobRows /\ UNCHANGED <<schema, operator, processes>>
      /\ ownerIn[g]["targets"] # Missing
  BY DEF OldCommit, NewCommit
<1>2. /\ jobRows[g] \in [SpanEnds -> [Owners -> Nat]]
      /\ ownerIn[g] \in [{"segments", "targets"} -> Owners \cup {Missing}]
      /\ jobRows = [h \in Groups |-> jobRows[h]] /\ ownerIn = [h \in Groups |-> ownerIn[h]]
      /\ Unowned \in Owners /\ Legacy \in Owners /\ Legacy # Unowned /\ Missing # Unowned
  BY DEF RolloutInv, RolloutTypeOK, Owners, RolloutAssumption
<1>3. /\ O \in [{"segments", "targets"} -> Owners \cup {Missing}]
      /\ ownerIn' = [ownerIn EXCEPT ![g] = O]
      /\ \A t \in {"segments", "targets"} : O[t] = Unowned =>
           ownerIn[g][t] = Unowned \/ (oldWriters /\ t \notin notNull)
  <2>1. CASE OldCommit(g)
    <3>1. /\ oldWriters /\ "segments" \notin notNull
          /\ ownerIn' = [ownerIn EXCEPT ![g]["targets"] = Missing,
                            ![g]["segments"] = IF @ = Missing THEN Unowned ELSE @]
      BY <2>1 DEF OldCommit
    <3>2. O = [ownerIn[g] EXCEPT !["targets"] = Missing,
                 !["segments"] = IF @ = Missing THEN Unowned ELSE @]
      BY <3>1, <1>2
    <3>3. ownerIn' = [ownerIn EXCEPT ![g] = O]
      BY <3>1, <3>2, <1>2
    <3>4. QED
      BY <3>1, <3>2, <3>3, <1>2
  <2>2. CASE NewCommit(g)
    <3>1. /\ O = [segments |-> Effective(ownerIn[g]["targets"]), targets |-> Missing]
          /\ ownerIn' = [ownerIn EXCEPT ![g] = O]
      BY <2>2, <1>2 DEF NewCommit
    <3>2. Effective(ownerIn[g]["targets"]) \in Owners \ {Unowned}
      BY <1>1, <1>2 DEF Effective
    <3>3. QED
      BY <3>1, <3>2, <1>2
  <2>3. QED
    BY <2>1, <2>2
<1>4. jobRows' = [jobRows EXCEPT ![g] = jobRows[g]]
  BY <1>1, <1>2
<1>5. \A e \in SpanEnds :
        /\ \A o \in Owners : jobRows[g][e][o] <= 1
        /\ \A o, p \in Owners : jobRows[g][e][o] > 0 /\ jobRows[g][e][p] > 0 => o = p
  BY DEF RolloutInv, OneJobPerBoundary
<1> HIDE DEF O
<1>6. QED
  BY <1>1, <1>2, <1>3, <1>4, <1>5, OperatorStays, GroupChanges

\* What a group is whose rows have been given an owner.
LEMMA AdoptionFits ==
  ASSUME RolloutAssumption, RolloutInv, NEW g \in Groups, NEW source \in Sources,
         GroupIsOf(g, source)
  PROVE  /\ AdoptedJobs(g, source) \in [SpanEnds -> [Owners -> Nat]]
         /\ \A e \in SpanEnds, o \in Owners :
              /\ AdoptedJobs(g, source)[e][o] <= 1
              /\ AdoptedJobs(g, source)[e][o] > 0 => o = source
         /\ AdoptedRows(g, source) \in [{"segments", "targets"} -> Sources \cup {Missing}]
<1> DEFINE J == AdoptedJobs(g, source)
<1>1. /\ jobRows[g] \in [SpanEnds -> [Owners -> Nat]] /\ source \in Owners /\ Unowned \in Owners
      /\ source # Unowned
      /\ ownerIn[g] \in [{"segments", "targets"} -> Owners \cup {Missing}]
  BY DEF RolloutInv, RolloutTypeOK, Owners, RolloutAssumption
<1>2. ASSUME NEW e \in SpanEnds
      PROVE  /\ J[e] \in [Owners -> Nat] /\ J[e][Unowned] = 0
             /\ J[e][source] = jobRows[g][e][source] + jobRows[g][e][Unowned]
             /\ \A o \in Owners \ {source, Unowned} : J[e][o] = jobRows[g][e][o]
  BY <1>1 DEF AdoptedJobs
<1>3. ASSUME NEW e \in SpanEnds, NEW o \in Owners \ {source, Unowned}
      PROVE  jobRows[g][e][o] = 0
  <2>1. ASSUME jobRows[g][e][o] > 0 PROVE FALSE
    <3>1. o \in OwnersOf(g)
      BY <2>1 DEF OwnersOf
    <3>2. Effective(o) = o
      BY <1>3 DEF Effective
    <3>3. QED
      BY <3>1, <3>2, <1>3 DEF GroupIsOf
  <2>2. QED
    BY <2>1, <1>1
<1>4. ASSUME NEW e \in SpanEnds PROVE jobRows[g][e][source] + jobRows[g][e][Unowned] <= 1
  <2>1. /\ jobRows[g][e][source] \in Nat /\ jobRows[g][e][Unowned] \in Nat
        /\ jobRows[g][e][source] <= 1 /\ jobRows[g][e][Unowned] <= 1
        /\ ~(jobRows[g][e][source] > 0 /\ jobRows[g][e][Unowned] > 0)
    BY <1>1 DEF RolloutInv, OneJobPerBoundary
  <2>2. QED
    BY <2>1
<1>5. J \in [SpanEnds -> [Owners -> Nat]]
  BY <1>2 DEF AdoptedJobs
<1>6. ASSUME NEW e \in SpanEnds, NEW o \in Owners
      PROVE  J[e][o] <= 1 /\ (J[e][o] > 0 => o = source)
  <2>1. CASE o = source
    BY <2>1, <1>2, <1>4
  <2>2. CASE o = Unowned
    BY <2>2, <1>2
  <2>3. CASE o \notin {source, Unowned}
    BY <2>3, <1>2, <1>3
  <2>4. QED
    BY <2>1, <2>2, <2>3
<1>7. AdoptedRows(g, source) \in [{"segments", "targets"} -> Sources \cup {Missing}]
  BY <1>1 DEF AdoptedRows, Owners
<1>8. QED
  BY <1>5, <1>6, <1>7

\* The server adopts what is there, and then finds it by its source.
LEMMA NewEnqueueKeeps ==
  ASSUME RolloutAssumption, RolloutInv, NEW g \in Groups, NEW e \in SpanEnds, NewEnqueue(g, e)
  PROVE  RolloutInv'
<1> DEFINE source == OwnerOf[g]
           A == AdoptedJobs(g, source)
           J == [A EXCEPT ![e][source] = IF @ = 0 THEN 1 ELSE @]
<1>1. PICK O : /\ GroupIsOf(g, source) /\ UNCHANGED <<schema, operator, processes>>
               /\ jobRows' = [jobRows EXCEPT ![g] = J] /\ ownerIn' = [ownerIn EXCEPT ![g] = O]
               /\ \E target \in {source, AdoptedRows(g, source)["targets"], Missing} :
                    O = [AdoptedRows(g, source) EXCEPT !["targets"] = target]
  BY DEF NewEnqueue, JobsToUpsert
<1>2. /\ source \in Sources /\ source \in Owners /\ Unowned \in Owners
      /\ Unowned \notin Sources \cup {Missing} /\ Sources \subseteq Owners
  BY DEF RolloutAssumption, Owners
<1>3. /\ A \in [SpanEnds -> [Owners -> Nat]]
      /\ \A f \in SpanEnds, o \in Owners : A[f][o] <= 1 /\ (A[f][o] > 0 => o = source)
      /\ AdoptedRows(g, source) \in [{"segments", "targets"} -> Sources \cup {Missing}]
  BY <1>1, <1>2, AdoptionFits
<1> HIDE DEF A, source
<1>4. /\ J \in [SpanEnds -> [Owners -> Nat]]
      /\ \A f \in SpanEnds, o \in Owners : J[f][o] <= 1 /\ (J[f][o] > 0 => o = source)
  <2>1. ASSUME NEW f \in SpanEnds, NEW o \in Owners
        PROVE  J[f][o] = IF f = e /\ o = source /\ A[f][o] = 0 THEN 1 ELSE A[f][o]
    BY <1>3
  <2>2. J \in [SpanEnds -> [Owners -> Nat]]
    BY <1>3
  <2>3. QED
    BY <1>3, <2>1, <2>2
<1>5. O \in [{"segments", "targets"} -> Sources \cup {Missing}]
  BY <1>1, <1>2, <1>3
<1>6. O \in [{"segments", "targets"} -> Owners \cup {Missing}]
  BY <1>2, <1>5
<1>7. \A t \in {"segments", "targets"} : O[t] # Unowned
  BY <1>2, <1>5
<1>8. \A f \in SpanEnds : ~(J[f][Unowned] > 0)
  BY <1>2, <1>4
<1>9. \A f \in SpanEnds :
        /\ \A o \in Owners : J[f][o] <= 1
        /\ \A o, p \in Owners : J[f][o] > 0 /\ J[f][p] > 0 => o = p
  BY <1>4
<1>10. /\ command' \in Seq(Statement) /\ enforcing' \in BOOLEAN
       /\ WritersAreAsked' /\ (enforcing' => enforcing)
  BY <1>1, OperatorStays
<1>11. /\ jobRows' = [jobRows EXCEPT ![g] = J] /\ ownerIn' = [ownerIn EXCEPT ![g] = O]
       /\ UNCHANGED <<schema, processes>> /\ J \in [SpanEnds -> [Owners -> Nat]]
  BY <1>1, <1>4
<1> HIDE DEF J
<1>12. QED
  BY <1>6, <1>7, <1>8, <1>9, <1>10, <1>11, GroupChanges

\* backfill does the same for the legacy source, or fails and changes nothing.
LEMMA AssignKeeps ==
  ASSUME RolloutAssumption, RolloutInv, Assign
  PROVE  RolloutInv'
<1> DEFINE g == Subject
           J == AdoptedJobs(g, Legacy)
           O == AdoptedRows(g, Legacy)
<1>1. command # <<>> /\ (Goes \/ Fails) /\ g \in Groups /\ UNCHANGED <<schema, processes>>
  BY CommandGoes, StatementSubjects DEF Assign, At, GoesIf, Subject, RolloutInv
<1>2. /\ command' \in Seq(Statement) /\ enforcing' \in BOOLEAN
      /\ WritersAreAsked' /\ (enforcing' => enforcing)
  BY <1>1, CommandStays DEF RolloutInv, processes
<1>3. CASE UNCHANGED groupRows
  <2>1. RolloutTypeOK'
    BY <1>1, <1>2, <1>3 DEF RolloutInv, RolloutTypeOK, schema, groupRows, processes
  <2>2. BootFits'
    BY <1>1, <2>1, BootStays DEF RolloutInv, processes, schema, SchemaGoesOn
  <2>3. OneJobPerBoundary' /\ EnforcedIsOwned'
    BY <1>1, <1>2, <1>3, RowsStay DEF RolloutInv, EnforcedIsOwned, schema
  <2>4. QED
    BY <1>2, <2>1, <2>2, <2>3 DEF RolloutInv
<1>4. CASE ~UNCHANGED groupRows
  <2>1. /\ GroupIsOf(g, Legacy)
        /\ jobRows' = [jobRows EXCEPT ![g] = J] /\ ownerIn' = [ownerIn EXCEPT ![g] = O]
    BY <1>4 DEF Assign, groupRows
  <2>2. /\ Legacy \in Sources /\ Unowned \in Owners
        /\ Unowned \notin Sources \cup {Missing} /\ Sources \subseteq Owners
    BY DEF RolloutAssumption, Owners
  <2> HIDE DEF g
  <2>3. /\ J \in [SpanEnds -> [Owners -> Nat]]
        /\ \A f \in SpanEnds, o \in Owners : J[f][o] <= 1 /\ (J[f][o] > 0 => o = Legacy)
        /\ O \in [{"segments", "targets"} -> Sources \cup {Missing}]
    BY <1>1, <2>1, <2>2, AdoptionFits
  <2> HIDE DEF J, O
  <2>4. /\ O \in [{"segments", "targets"} -> Owners \cup {Missing}]
        /\ \A t \in {"segments", "targets"} : O[t] # Unowned
    BY <2>2, <2>3
  <2>5. \A f \in SpanEnds : ~(J[f][Unowned] > 0)
    BY <2>2, <2>3
  <2>6. \A f \in SpanEnds : \A o, p \in Owners : J[f][o] > 0 /\ J[f][p] > 0 => o = p
    BY <2>3
  <2>7. QED
    BY <1>1, <1>2, <2>1, <2>3, <2>4, <2>5, <2>6, GroupChanges
<1>5. QED
  BY <1>3, <1>4
-----------------------------------------------------------------------------
\* Every step keeps the invariant.
LEMMA RolloutStep ==
  ASSUME RolloutAssumption, RolloutInv, [RolloutNext]_rolloutVars
  PROVE  RolloutInv'
<1>1. CASE UNCHANGED rolloutVars
  <2>1. UNCHANGED <<schema, groupRows, operator, processes>>
    BY <1>1 DEF rolloutVars
  <2>2. RolloutTypeOK'
    BY <2>1 DEF RolloutInv, RolloutTypeOK, schema, groupRows, operator, processes
  <2>3. BootFits'
    BY <2>1, <2>2, BootStays DEF RolloutInv, processes, schema, SchemaGoesOn
  <2>4. OneJobPerBoundary' /\ EnforcedIsOwned' /\ WritersAreAsked'
    BY <2>1, RowsStay DEF RolloutInv, EnforcedIsOwned, WritersAreAsked, schema, operator, processes
  <2>5. QED
    BY <2>2, <2>3, <2>4 DEF RolloutInv
<1>2. CASE RolloutNext
  <2>1. CASE Validate \/ BuildIndex \/ FinishIndex \/ DropIndex
    BY <2>1, SchemaStatements
  <2>2. CASE ConfirmIndexes \/ CheckOwners
    BY <2>2, LookingStatements
  <2>3. CASE Expand \/ Issue \/ Interrupt \/ StopOldWriters \/ (\E s \in Sources : Register(s))
    BY <2>3, CommandsBegin
  <2>4. CASE Start \/ BootStep \/ Stop
    BY <2>4, ServerKeeps
  <2>5. CASE \E g \in Groups : OldCommit(g) \/ NewCommit(g)
    BY <2>5, CommitsKeep
  <2>6. CASE \E g \in Groups, e \in SpanEnds : OldEnqueue(g, e) \/ NewEnqueue(g, e)
    BY <2>6, OldEnqueueKeeps, NewEnqueueKeeps
  <2>7. QED
    BY <1>2, <2>1, <2>2, <2>3, <2>4, <2>5, <2>6,
       BatchKeeps, AssignKeeps, CountKeeps, RequireKeeps DEF RolloutNext
<1>3. QED
  BY <1>1, <1>2

\* The invariant of the rollout, whatever is interrupted and whoever writes meanwhile.
THEOREM RolloutInvariant == RolloutSpec => []RolloutInv
<1>1. RolloutInit => RolloutInv
  BY RolloutInitInv, RolloutAssumption
<1>2. RolloutInv /\ [RolloutNext]_rolloutVars => RolloutInv'
  BY RolloutStep, RolloutAssumption
<1>3. QED
  BY <1>1, <1>2, PTL DEF RolloutSpec

\* A server that serves has the indexes its upserts name, whatever the operator does beside it.
THEOREM ServersAreIndexed == RolloutSpec => []ServingIsIndexed
<1>1. RolloutInv => ServingIsIndexed
  <2>1. SUFFICES ASSUME RolloutInv, server = "up" PROVE ServingIsIndexed
    BY DEF ServingIsIndexed
  <2>2. \A c \in ToSet(BootChecks) : BootPasses(c)
    BY <2>1 DEF RolloutInv, BootFits
  <2>3. index["segments_source_start"] = "ready" /\ index["jobs_source_boundary"] = "ready"
    BY <2>2, BootCheckNames DEF BootPasses
  <2>4. validated = RowTables
    BY <2>2, BootCheckNames DEF BootPasses
  <2>5. oldIndexes = {}
    BY <2>2, BootCheckNames DEF BootPasses
  <2>6. DOMAIN index = ToSet(NewIndexes)
    BY <2>1 DEF RolloutInv, RolloutTypeOK
  <2>7. QED
    BY <2>3, <2>4, <2>5, <2>6, NewIndexNames DEF ServingIsIndexed
<1>2. QED
  BY <1>1, RolloutInvariant, PTL

\* A group never has two jobs of one boundary, and so the index on the source can be built and no
\* adoption fails on it, however often backfill is cut off and begun again; and no row without an
\* owner appears once enforce has found none.
THEOREM OwnershipStaysSound == RolloutSpec => []OwnershipIsSound
<1>1. RolloutInv => OwnershipIsSound
  BY DEF RolloutInv, OwnershipIsSound
<1>2. QED
  BY <1>1, RolloutInvariant, PTL
=============================================================================
