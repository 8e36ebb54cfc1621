----------------------------- MODULE MCBackfill -----------------------------
(* Small instances of Backfill for TLC. *)
EXTENDS Backfill, TLC

\* The job of the first session's first segment, if it is there by then.
FirstJob == {<<1, 1, 1>>}
Symmetric == Permutations(Workers)
=============================================================================
