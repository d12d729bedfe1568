---------------------------- MODULE MCAcceptLoop ----------------------------
(* AcceptLoop for TLC: its clients as model values. Liveness is checked, so *)
(* there is no symmetry.                                                    *)
EXTENDS AcceptLoop

CONSTANTS c1, c2, c3
=============================================================================
