--------------------------- MODULE MCHistoryCache ---------------------------
(* Instances of HistoryCache for TLC. *)
EXTENDS HistoryCache

CONSTANTS idle, tool   \* ingestion of a resting session; memory_read_segment
=============================================================================
