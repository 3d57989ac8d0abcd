--------------------------- MODULE MCSnapshotPump ---------------------------
(* The snapshot pump with two endpoints. *)
EXTENDS SnapshotPump
=============================================================================
