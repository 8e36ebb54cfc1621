-------------------------- MODULE MCNativeDelivery --------------------------
(* Instances of NativeDelivery for TLC. *)
EXTENDS NativeDelivery, TLC

CONSTANTS k1, k2, a, b

\* Calls are interchangeable, and so are contents.
Symmetric == Permutations(Callers) \cup Permutations(Contents)
=============================================================================
