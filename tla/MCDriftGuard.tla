---------------------------- MODULE MCDriftGuard ----------------------------
(* Small instances of DriftGuard, of the sweeps over it and of its Python face for TLC. *)
EXTENDS Sweep, PyBindings

\* All six guards, with windows short enough that each fills, slides and
\* interleaves with the others within MaxEntries entries.
AllGuards ==
    institutional([fast_threshold            |-> <<1, 2>>,
                   fast_window               |-> 2,
                   slow_threshold            |-> <<7, 10>>,
                   slow_window               |-> 3,
                   revert_burst_limit        |-> {2},
                   revert_gas_budget         |-> {4},
                   revert_gas_window         |-> 3,
                   volume_weighted_threshold |-> {<<3, 4>>},
                   volume_weighted_window    |-> 2,
                   drawdown_limit            |-> {3},
                   drawdown_window           |-> 2])

\* Outcomes below, at and above the thresholds 1/2, 7/10 and 3/4, of
\* different volumes, one loss, one windfall (two of them overflow a 4-bit
\* integer), and one that no ratio guard may use.
MixedPairs == {<<2, 0>>, <<2, 1>>, <<4, 3>>, <<1, 7>>, <<4, -1>>, <<0, 2>>}

TwoEvents == {[gas_used |-> 1, effective_gas_price |-> 1],
              [gas_used |-> 2, effective_gas_price |-> 2]}

\* Axes of the sweep, with a point the grid must skip (7/10 and 7/10).
FastAxis  == {<<1, 2>>, <<7, 10>>}
SlowAxis  == {<<7, 10>>, <<4, 5>>}

\* The hypothesis of the theorem PythonSeesTheHalt holds of this policy.
ASSUME ArgsAssumption == BuiltFromArgs(Policy)
=============================================================================
