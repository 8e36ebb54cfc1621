---------------------------- MODULE EntityStore ----------------------------
(***************************************************************************)
(* The entities that the claims of all segments share (server/database.ts, *)
(* entityCandidates and commitResolution; extraction.ts; the lane of       *)
(* worker.ts).  JobStore has the queue, the leases and the gates around a  *)
(* resolution; here is what resolutions of different segments do to each   *)
(* other through the tables entities and claims.                           *)
(*                                                                         *)
(* A resolution looks for candidates without a transaction, lets the model *)
(* choose, and commits in one transaction under READ COMMITTED: it stores  *)
(* its entities and claims (Write), picks the entities its old claims      *)
(* leave behind from a snapshot of the committed claims (Choose), deletes  *)
(* them when no lock is in the way (Collect), and commits.  A transaction  *)
(* sees the commits of others and, of their open work, only the row locks: *)
(*   - a claim or an alias locks its entity against deletion, and waits    *)
(*     for a transaction that has deleted it;                              *)
(*   - a deletion waits for those locks, and fails when committed claims   *)
(*     refer to the row by then (the foreign keys of claims).              *)
(* A lock that only one's own segment can want is left out, and so are the *)
(* names, the descriptions and the vectors: an entity is its id.           *)
(*                                                                         *)
(* A segment has one attempt at a time: the leases of JobStore end any     *)
(* other before it writes.  A claim-bearing attempt that waits for the     *)
(* lane has touched nothing of this; it starts when it gets the lane.      *)
(***************************************************************************)
EXTENDS FiniteSets

CONSTANTS
  Segments,
  Workers,    \* server processes; one that lost its lock still ends its tasks
  Entities,   \* entity ids
  Source,     \* the segment whose attempts alone can create an entity's id
  None

ASSUME EntityAssumption ==
  /\ Source \in [Entities -> Segments]
  /\ None \notin Workers

VARIABLES
  entities,   \* table entities, as committed
  claims,     \* by segment: the entities that its committed claims refer to
  lane,       \* by segment: the worker whose resolution lane its attempt holds
  pc,         \* by segment: where its attempt is
  seen,       \* by segment: the candidates that its attempt has looked up
  uses,       \* by segment: the entities of the prepared claims
  fresh,      \* by segment: those of them that are new
  doomed,     \* by segment: what its transaction deletes
  skewed      \* auxiliary: entities that two open commits each kept for the other

entityVars == <<entities, claims, lane, pc, seen, uses, fresh, doomed, skewed>>
attempts == <<seen, uses, fresh, doomed>>

Stage  == {"idle", "resolving", "prepared", "written", "chosen", "collected"}
Open   == {"written", "chosen", "collected"}   \* holds the locks of its claims
Picked == {"chosen", "collected"}              \* its snapshot is behind it

Own(s)   == {e \in Entities : Source[e] = s}
Bears(s) == lane[s] # None              \* the attempt has claims

EntityInit ==
  /\ entities = {} /\ skewed = {}
  /\ claims = [s \in Segments |-> {}]
  /\ lane = [s \in Segments |-> None]
  /\ pc = [s \in Segments |-> "idle"]
  /\ seen = [s \in Segments |-> {}] /\ uses = [s \in Segments |-> {}]
  /\ fresh = [s \in Segments |-> {}] /\ doomed = [s \in Segments |-> {}]
-----------------------------------------------------------------------------
(* The resolution, ahead of the transaction. *)

\* A staged extraction without claims goes ahead beside everything else.
StartBare(s) ==
  /\ pc[s] = "idle"
  /\ pc' = [pc EXCEPT ![s] = "resolving"]
  /\ UNCHANGED <<entities, claims, lane, attempts, skewed>>

\* Mutant: no lane.
StartBearingAnyway(s, w) ==
  /\ pc[s] = "idle"
  /\ pc' = [pc EXCEPT ![s] = "resolving"]
  /\ lane' = [lane EXCEPT ![s] = w]
  /\ UNCHANGED <<entities, claims, attempts, skewed>>

\* One with claims takes the lane of its worker, from here to the end of the commit.
StartBearing(s, w) ==
  /\ pc[s] = "idle" /\ \A r \in Segments : lane[r] # w
  /\ pc' = [pc EXCEPT ![s] = "resolving"]
  /\ lane' = [lane EXCEPT ![s] = w]
  /\ UNCHANGED <<entities, claims, attempts, skewed>>

\* entityCandidates: the nearest entities by name and by vector, whichever they are.
Candidates == SUBSET entities

\* The mentions are looked up one by one.
LookUp(s) ==
  /\ pc[s] = "resolving" /\ Bears(s)
  /\ \E found \in Candidates :
       seen' = [seen EXCEPT ![s] = @ \cup found]
  /\ UNCHANGED <<entities, claims, lane, pc, uses, fresh, doomed, skewed>>

\* What the model makes of the claims: it keeps some, or none, and names for each mention of what it
\* keeps a candidate of any mention, or a new entity.  An id it invents is a new entity, too.
Answers(s) ==
  {answer \in [known : SUBSET seen[s], new : SUBSET Own(s)] :
     Bears(s) \/ answer = [known |-> {}, new |-> {}]}

\* Its answer made into entities and claims; what is kept is what the claims refer to.
Resolve(s) ==
  /\ pc[s] = "resolving"
  /\ \E answer \in Answers(s) :
       /\ uses' = [uses EXCEPT ![s] = answer.known \cup answer.new]
       /\ fresh' = [fresh EXCEPT ![s] = answer.new]
  /\ seen' = [seen EXCEPT ![s] = {}]
  /\ pc' = [pc EXCEPT ![s] = "prepared"]
  /\ UNCHANGED <<entities, claims, lane, doomed, skewed>>
-----------------------------------------------------------------------------
(* commitResolution. *)

\* Mutant: claims without foreign keys.
MayWriteUnchecked(s) ==
  \A r \in Segments : pc[r] = "collected" => uses[s] \cap doomed[r] = {}

\* The entities of s are not being deleted, and the candidates among them are still there.
MayWrite(s) ==
  /\ \A r \in Segments : pc[r] = "collected" => uses[s] \cap doomed[r] = {}
  /\ uses[s] \ fresh[s] \subseteq entities

\* New entities, aliases, the segment's row, and its claims in the place of the old.
Write(s) ==
  /\ pc[s] = "prepared" /\ MayWrite(s)
  /\ pc' = [pc EXCEPT ![s] = "written"]
  /\ UNCHANGED <<entities, claims, lane, attempts, skewed>>

\* Mutant: the claims of s are replaced after the sweep.
LeftByAll(s) ==
  {e \in claims[s] \ uses[s] : \A r \in Segments : e \notin claims[r]}

\* Entities of the old claims that no claim refers to: its own new ones and the committed ones of
\* others.
Left(s) ==
  {e \in claims[s] \ uses[s] : \A r \in Segments \ {s} : e \notin claims[r]}

\* Auxiliary: kept for claims that are all about to go, in commits that kept it for those of s.
Skewed(s) ==
  {e \in claims[s] \ uses[s] :
     /\ \E r \in Segments \ {s} : e \in claims[r]
     /\ \A r \in Segments \ {s} :
          e \in claims[r] => pc[r] \in Picked /\ e \notin uses[r]}

\* DELETE FROM entities: its snapshot.
Choose(s) ==
  /\ pc[s] = "written"
  /\ pc' = [pc EXCEPT ![s] = "chosen"]
  /\ doomed' = [doomed EXCEPT ![s] = Left(s)]
  /\ skewed' = skewed \cup Skewed(s)
  /\ UNCHANGED <<entities, claims, lane, seen, uses, fresh>>

\* Mutant: what was committed since the snapshot does not count.
MayCollectBlindly(s) ==
  \A r \in Segments \ {s} : pc[r] \in Open => uses[r] \cap doomed[s] = {}

\* No lock on what is to go, and no claim on it that was committed since.
MayCollect(s) ==
  \A r \in Segments \ {s} :
    /\ pc[r] \in Open => uses[r] \cap doomed[s] = {}
    /\ claims[r] \cap doomed[s] = {}

\* DELETE FROM entities: its locks and the foreign keys.  Two attempts never doom one entity.
Collect(s) ==
  /\ pc[s] = "chosen" /\ MayCollect(s)
  /\ pc' = [pc EXCEPT ![s] = "collected"]
  /\ UNCHANGED <<entities, claims, lane, attempts, skewed>>

\* The attempt is over and its lane free.
Settle(s) ==
  /\ pc' = [pc EXCEPT ![s] = "idle"]
  /\ lane' = [lane EXCEPT ![s] = None]
  /\ seen' = [seen EXCEPT ![s] = {}]
  /\ uses' = [uses EXCEPT ![s] = {}]
  /\ fresh' = [fresh EXCEPT ![s] = {}]
  /\ doomed' = [doomed EXCEPT ![s] = {}]

Commit(s) ==
  /\ pc[s] = "collected"
  /\ entities' = (entities \cup fresh[s]) \ doomed[s]
  /\ claims' = [claims EXCEPT ![s] = uses[s]]
  /\ skewed' = skewed \ (uses[s] \cup doomed[s])
  /\ Settle(s)

\* Nothing of the attempt stays: a model or a foreign key that fails, a lease that is no longer its
\* own, a newer projection, the victim of a deadlock, a worker that dies.
EndsEarly(s) ==
  /\ pc[s] # "idle"
  /\ Settle(s)
  /\ UNCHANGED <<entities, claims, skewed>>

Step(s) ==
  \/ StartBare(s) \/ \E w \in Workers : StartBearing(s, w)
  \/ LookUp(s) \/ Resolve(s)
  \/ Write(s) \/ Choose(s) \/ Collect(s) \/ Commit(s) \/ EndsEarly(s)

EntityNext == \E s \in Segments : Step(s)

EntitySpec == EntityInit /\ [][EntityNext]_entityVars
-----------------------------------------------------------------------------
(* Types.  What an attempt does not need is empty. *)
EntityTypeOK ==
  /\ entities \subseteq Entities /\ skewed \subseteq entities
  /\ claims \in [Segments -> SUBSET Entities]
  /\ lane \in [Segments -> Workers \cup {None}]
  /\ pc \in [Segments -> Stage]
  /\ seen \in [Segments -> SUBSET Entities]
  /\ uses \in [Segments -> SUBSET Entities]
  /\ fresh \in [Segments -> SUBSET Entities]
  /\ doomed \in [Segments -> SUBSET Entities]

(* No committed claim refers to an entity that is gone: the sweep of one commit never takes what *)
(* another resolution, prepared from an older lookup, has committed claims on.                   *)
ClaimsResolve == \A s \in Segments : claims[s] \subseteq entities

(* Every commit sweeps what it leaves behind: an entity without claims is one that two           *)
(* overlapping commits dropped together, each sparing it for the claims of the other.            *)
OrphansAreSkewed ==
  \A e \in entities : e \in skewed \/ \E s \in Segments : e \in claims[s]

(* The lane keeps what a claim-bearing resolution has looked up or chosen from every other       *)
(* claim-bearing one of its worker: such an entity goes only by a commit without claims, or by   *)
(* another worker's.                                                                             *)
LaneProtectsChoices ==
  [][\A s \in Segments : \A e \in (seen[s] \cup uses[s]) \cap (entities \ entities') :
       \E r \in Segments \ {s} :
         e \in claims[r] \ claims'[r] /\ (Bears(r) => lane[r] # lane[s])]_entityVars
=============================================================================
