---------------------------- MODULE EntitySearch ----------------------------
(***************************************************************************)
(* A search beside the resolutions of EntityStore (server/search.ts).  It  *)
(* is three rounds of queries, each on a connection of its own and none in *)
(* a transaction: claims near the question, claims on the entities of      *)
(* those, and the segments that support what was found.  Resolutions       *)
(* commit in between.                                                      *)
(*                                                                         *)
(* A claim is the segment it is of and an entity it is about, and the      *)
(* entity stands for its equivalence key.  Distances, limits and scores    *)
(* only pick among the claims, and so does a snapshot that is not settled  *)
(* yet, which hides its segment: a query returns any of the rows.          *)
(***************************************************************************)
EXTENDS EntityStore

VARIABLES
  search,     \* how far the search is
  found,      \* candidates: pairs of a segment and an entity
  result,     \* the answer: by entity, the segments named in its support
  witnessed   \* auxiliary: what was committed at some time since the search began

searchVars == <<search, found, result, witnessed>>

Rows == {row \in Segments \X Entities : row[2] \in claims[row[1]]}

SearchInit ==
  /\ EntityInit
  /\ search = "idle" /\ found = {} /\ result = <<>> /\ witnessed = {}

\* directClaims: claims near the question.
FindDirect ==
  /\ search = "idle"
  /\ \E rows \in SUBSET Rows : found' = rows
  /\ search' = "found" /\ witnessed' = Rows
  /\ UNCHANGED <<entityVars, result>>

\* neighboringClaims of one entity of a direct claim: the claims that it shares with another.
FindNear ==
  /\ search = "found" /\ found # {}
  /\ \E rows \in SUBSET Rows : found' = found \cup rows
  /\ UNCHANGED <<entityVars, search, result, witnessed>>

\* supportForEquivalenceKeys: the visible segments with a claim on e.
Support(e, visible) == {s \in visible : e \in claims[s]}

\* Mutant: the answer names what the last query has found, and nothing else.
NamedIfSupported(e, visible) == Support(e, visible)

\* A candidate whose support has gone, or is hidden, by now stands for itself.
Named(e, visible) ==
  IF Support(e, visible) # {} THEN Support(e, visible)
  ELSE {CHOOSE s \in Segments : <<s, e>> \in found}

\* rankAndGroupClaims: the best of the groups.
Rank ==
  /\ search = "found"
  /\ \E visible \in SUBSET Segments, best \in SUBSET {hit[2] : hit \in found} :
       result' = [e \in best |-> Named(e, visible)]
  /\ search' = "ranked" /\ found' = {}
  /\ UNCHANGED <<entityVars, witnessed>>

\* The answer is sent, or a query of the search has failed.
Forget ==
  /\ search # "idle"
  /\ search' = "idle" /\ found' = {} /\ result' = <<>> /\ witnessed' = {}
  /\ UNCHANGED entityVars

\* What is committed meanwhile is witnessed until the answer is made.
Meanwhile ==
  /\ EntityNext
  /\ witnessed' = IF search = "found" THEN witnessed \cup Rows' ELSE witnessed
  /\ UNCHANGED <<search, found, result>>

SearchNext == Meanwhile \/ FindDirect \/ FindNear \/ Rank \/ Forget

SearchSpec == SearchInit /\ [][SearchNext]_<<entityVars, searchVars>>
-----------------------------------------------------------------------------
SearchTypeOK ==
  /\ search \in {"idle", "found", "ranked"}
  /\ found \subseteq Segments \X Entities
  /\ witnessed \subseteq Segments \X Entities
  /\ DOMAIN result \subseteq Entities

(* Whatever is committed between the queries of a search, its answer is made of claims that were *)
(* committed at some time since it began: every group names a segment, and each segment it names *)
(* had such a claim.                                                                             *)
AnswersAreBacked ==
  \A e \in DOMAIN result : result[e] # {} /\ result[e] \X {e} \subseteq witnessed
=============================================================================
