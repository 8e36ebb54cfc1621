--------------------------- MODULE SegmentMemory ---------------------------
(***************************************************************************)
(* What the extraction queue promises the writers and readers of a         *)
(* segment, without rows, leases, workers or retries: a snapshot is        *)
(* wanted, a draft is made of exactly that snapshot, and the draft becomes *)
(* the segment's memory.  JobStore implements it (Memories in JobStore).     *)
(***************************************************************************)
EXTENDS Integers

CONSTANTS
  Segments,
  Identities,    \* what a snapshot is: [boundary, content, version]
  Texts,         \* what a summary can say
  Generations,   \* numbers that order the snapshots of a segment
  None

VARIABLES
  wanted,   \* the desired snapshot and its generation, or None
  draft,    \* the staged result for it, or None
  memory    \* the committed snapshot, its generation and its result, or None

vars == <<wanted, draft, memory>>

ResultOf(q, text) ==
  [boundary |-> q.boundary, content |-> q.content, text |-> text]

Init ==
  /\ wanted = [s \in Segments |-> None]
  /\ draft  = [s \in Segments |-> None]
  /\ memory = [s \in Segments |-> None]

\* A changed snapshot: newer than what is wanted and than what is remembered.
Post(s) == \E q \in Identities, g \in Generations :
  /\ \A old \in {wanted[s], memory[s]} \ {None} :
       old.generation < g /\ old.source.version <= q.version
  /\ wanted' = [wanted EXCEPT ![s] = [source |-> q, generation |-> g]]
  /\ draft' = [draft EXCEPT ![s] = None]
  /\ UNCHANGED memory

\* One draft of the wanted snapshot, kept until it is discarded.
Draft(s) ==
  /\ wanted[s] # None
  /\ \E text \in Texts :
       draft' = [draft EXCEPT ![s] = ResultOf(wanted[s].source, text)]
  /\ UNCHANGED <<wanted, memory>>

Discard(s) ==
  /\ wanted[s] # None
  /\ draft' = [draft EXCEPT ![s] = None]
  /\ UNCHANGED <<wanted, memory>>

Commit(s) ==
  /\ wanted[s] # None /\ draft[s] # None
  /\ memory' = [memory EXCEPT ![s] =
       [source |-> wanted[s].source, generation |-> wanted[s].generation,
        extraction |-> draft[s]]]
  /\ wanted' = [wanted EXCEPT ![s] = None]
  /\ draft' = [draft EXCEPT ![s] = None]

Withdraw(s) ==
  /\ wanted[s] # None
  /\ wanted' = [wanted EXCEPT ![s] = None]
  /\ draft' = [draft EXCEPT ![s] = None]
  /\ UNCHANGED memory

Next == \E s \in Segments :
  Post(s) \/ Draft(s) \/ Discard(s) \/ Commit(s) \/ Withdraw(s)

Spec == Init /\ [][Next]_vars
=============================================================================
