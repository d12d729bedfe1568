---------------------------- MODULE MCLifecycle -----------------------------
(* Lifecycle for TLC: up to two clients, with and without auto-restart. *)
EXTENDS Lifecycle

CONSTANTS c1, c2
=============================================================================
