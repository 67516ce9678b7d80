--------------------------- MODULE MCRevmBackend ----------------------------
(* Small instances of RevmBackend for TLC. *)
EXTENDS RevmBackend

CONSTANTS c1, c2, c3

TwoCallers   == {c1, c2}
ThreeCallers == {c1, c2, c3}
=============================================================================
