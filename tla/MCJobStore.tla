----------------------------- MODULE MCJobStore -----------------------------
(* Small instances of JobStore for TLC. *)
EXTENDS JobStore, TLC

\* Every segment in one session.
OneSession == [s \in Segments |-> "session"]

\* Contents, boundaries, replicas and leases are interchangeable, and so are segments of one session.
Symmetry ==
  Permutations(Boundaries) \cup Permutations(Contents) \cup
  Permutations(Segments) \cup Permutations(Replicas) \cup Permutations(Leases)
=============================================================================
