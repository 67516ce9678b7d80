--------------------------- MODULE MCJournalPower ---------------------------
(* Small instances of JournalPower for TLC. *)
EXTENDS JournalPower

CONSTANTS p1, p2, a, r

TwoProcs      == {p1, p2}
OnePair       == {a}
OneRevert     == {r}
ProcSymmetry  == Permutations(TwoProcs)
AllFaults     == {"open", "append", "compact"}
NoFaults      == {}
=============================================================================
