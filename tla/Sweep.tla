------------------------------- MODULE Sweep --------------------------------
(***************************************************************************)
(* The two parameter sweeps: run_sweep_raw of driftbrake-py, which replays *)
(* recorded rows under every point of a grid of configurations, and        *)
(* run_to_first_halt of the benchmark.                                     *)
(*                                                                         *)
(* The rows are the entries that DriftGuard appends.  The code replays all *)
(* rows for one grid point before it turns to the next, each with a        *)
(* history of its own; those histories are equal at the same row, so here  *)
(* one step replays one row for all grid points.                           *)
(***************************************************************************)
EXTENDS DriftGuard

CONSTANTS
    fast_thresholds, slow_thresholds, revert_limits,  \* the axes of the grid
    FastWindow, SlowWindow                            \* 3 and 20 in the code

ASSUME WindowsAssumption ==
    FastWindow \in Nat \ {0} /\ SlowWindow \in Nat \ {0}
ASSUME LimitsAssumption == revert_limits \subseteq Nat \ {0}
ASSUME ThresholdsAssumption ==
    (fast_thresholds \cup slow_thresholds) \subseteq Int \X (Nat \ {0})

VARIABLES
    results,   \* the SweepResult being computed for each grid point
    panicked   \* total_drawdown overflowed in a debug build: no results

sweepVars == <<history, results, panicked>>

\* Points whose fast threshold is not below the slow one are skipped.
Grid == {point \in [fast: fast_thresholds, slow: slow_thresholds,
                    limit: revert_limits] : Less(point.fast, point.slow)}

PolicyAt(point) ==
    [default_dual_guard EXCEPT
        !.fast         = [threshold |-> point.fast, window |-> FastWindow],
        !.slow         = [threshold |-> point.slow, window |-> SlowWindow],
        !.revert_burst = {[limit |-> point.limit]}]

NoResult == [total_halts |-> 0, first_halt_index |-> {}, total_drawdown |-> 0]

SweepInit ==
    /\ Init
    /\ results = [point \in Grid |-> NoResult]
    /\ panicked = FALSE

-----------------------------------------------------------------------------
\* predicted - realized of a confirmed row that fell short, otherwise nothing.
Shortfall(row) ==
    IF IsPair(row) /\ row.predicted > row.realized
    THEN row.predicted - row.realized ELSE 0

\* Mutant: first_halt_index is set at every halt.
Tally_KeepsLast(result, i, row, halted) ==
    IF ~halted THEN result
    ELSE [total_halts      |-> result.total_halts + 1,
          first_halt_index |-> {i},
          total_drawdown   |-> I128(result.total_drawdown + Shortfall(row))]

\* What row i adds to a result, given the decision after it.
Tally(result, i, row, halted) ==
    IF ~halted THEN result
    ELSE [total_halts      |-> result.total_halts + 1,
          first_halt_index |-> IF result.first_halt_index = {} THEN {i}
                               ELSE result.first_halt_index,
          total_drawdown   |-> I128(result.total_drawdown + Shortfall(row))]

\* One pass of the loop over the rows, at every grid point.
ReplayRow ==
    LET row   == history'.timeline[Len(history'.timeline)]
        index == Len(history.timeline)
        next  == [point \in Grid |->
                     Tally(results[point], index, row,
                           Halts(PolicyAt(point), history'))]
        Overflows(point) ==
            /\ next[point].total_halts > results[point].total_halts
            /\ \/ ~FitsI128(Shortfall(row))
               \/ ~FitsI128(results[point].total_drawdown + Shortfall(row))
    IN  /\ panicked' = \/ panicked
                       \/ OverflowChecks /\ \E point \in Grid : Overflows(point)
        /\ results' = IF panicked' THEN results ELSE next

SweepPair(pair)    == AppendPair(pair) /\ ReplayRow
SweepRevert(event) == RecordRevert(event) /\ ReplayRow

SweepNext ==
    \/ \E pair \in Pairs : SweepPair(pair)
    \/ \E event \in Events : SweepRevert(event)

SweepSpec == SweepInit /\ [][SweepNext]_sweepVars

-----------------------------------------------------------------------------
(* The benchmark *)

\* Mutant: the policy is asked before the pair is appended.
run_to_first_halt_AsksFirst(policy, sequence) ==
    LET before[i \in 1..Len(sequence) + 1] ==
            IF i = 1 THEN NewHistory
            ELSE append(before[i - 1], sequence[i - 1][1], sequence[i - 1][2])
        halts == {i \in DOMAIN sequence : Halts(policy, before[i])}
    IN  IF halts = {} THEN {} ELSE {Min(halts)}

\* The number of pairs appended when the policy first halts, or none.
run_to_first_halt(policy, sequence) ==
    LET after[i \in 0..Len(sequence)] ==
            IF i = 0 THEN NewHistory
            ELSE append(after[i - 1], sequence[i][1], sequence[i][2])
        halts == {i \in DOMAIN sequence : Halts(policy, after[i])}
    IN  IF halts = {} THEN {} ELSE {Min(halts)}

-----------------------------------------------------------------------------
\* At least as strict in every parameter.
Tighter(p, q) ==
    /\ ~Less(p.fast, q.fast)
    /\ ~Less(p.slow, q.slow)
    /\ p.limit <= q.limit

\* docs/BENCHMARK.md, "Overview": tightening trades missed catches for false
\* halts.  Raising a threshold or lowering the revert limit never makes the
\* sweep report a later first halt, fewer halts or less loss after halts,
\* although a point's guards read different windows and an earlier guard in
\* evaluate can hide a later one.  (An overflow of the sum ends the call.)
TighteningNeverMissesMore ==
    \A p, q \in Grid :
        ~panicked /\ Tighter(p, q) =>
            /\ results[p].total_halts >= results[q].total_halts
            /\ results[p].total_drawdown >= results[q].total_drawdown
            /\ \A i \in results[q].first_halt_index :
                   \E j \in results[p].first_halt_index : j <= i

\* On rows without reverts the two sweeps agree about the first halt, one
\* counting rows from 0 and the other pairs from 1, although only one of the
\* policies has a revert guard.
SweepsAgreeOnFirstHalt ==
    ~panicked /\ history.reverts = <<>> =>
        \A point \in Grid :
            LET policy == [PolicyAt(point) EXCEPT !.revert_burst = {}]
            IN  run_to_first_halt(policy, history.pairs)
                  = {i + 1 : i \in results[point].first_halt_index}
=============================================================================
