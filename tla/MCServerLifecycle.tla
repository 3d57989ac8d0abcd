-------------------------- MODULE MCServerLifecycle -------------------------
(* Two sessions and one channel for a single player. *)
EXTENDS ServerLifecycle
=============================================================================
