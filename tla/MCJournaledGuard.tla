-------------------------- MODULE MCJournaledGuard --------------------------
(* Small instances of JournaledGuard for TLC. *)
EXTENDS JournaledGuard

CONSTANTS p1, p2

TwoProcs == {p1, p2}
NoFaults == {}

\* A usable pair that underperforms, one that does not, an unusable pair.
MixedPairs == {ConfirmedPair(4, 1), ConfirmedPair(2, 2), ConfirmedPair(0, 1)}
Reverts    == {RevertedTx([gas_used |-> 1, effective_gas_price |-> 2]),
               RevertedTx([gas_used |-> 2, effective_gas_price |-> 2])}

\* No window is longer than the MaxRetained = 2 of the configurations.
ShortWindows ==
    [fast            |-> [threshold |-> <<1, 2>>, window |-> 2],
     slow            |-> [threshold |-> <<7, 10>>, window |-> 2],
     revert_burst    |-> {[limit |-> 2]},
     revert_gas      |-> {[budget_limit |-> 3, window |-> 2]},
     volume_weighted |-> {[threshold |-> <<3, 4>>, window |-> 2]},
     drawdown        |-> {[max_drawdown_limit |-> 2, window |-> 2]}]
=============================================================================
