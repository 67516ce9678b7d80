----------------------------- MODULE MCJournal ------------------------------
(* Small instances of Journal for TLC. *)
EXTENDS Journal

CONSTANTS p1, p2, a, r

TwoProcs     == {p1, p2}
OnePair      == {a}
OneRevert    == {r}
AppendFaults == {"append"}
=============================================================================
