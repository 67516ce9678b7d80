-------------------------- MODULE ReconcilePolicy ---------------------------
(***************************************************************************)
(* reconcile/src/lib.rs: the six guards of ReconcilePolicy and the order   *)
(* `evaluate` tries them in.                                               *)
(*                                                                         *)
(* A policy is a record with the fields of the struct.  An optional guard  *)
(* (Option<Config>) is a set: {} for None, {config} for Some(config).      *)
(* Thresholds are fractions <<numerator, denominator>>.                    *)
(*                                                                         *)
(* Width is the number of bits of i128 / u128.  OverflowChecks says how    *)
(* the crate was built: TRUE is a debug build, where an overflowing sum    *)
(* panics, FALSE a release build, where it wraps.                          *)
(***************************************************************************)
EXTENDS ReconcileHistory

CONSTANTS Width, OverflowChecks

ASSUME WidthAssumption    == Width \in Nat \ {0}
ASSUME OverflowAssumption == OverflowChecks \in BOOLEAN

I128(x) == ((x + 2^(Width - 1)) % 2^Width) - 2^(Width - 1)
U128(x) == x % 2^Width

FitsI128(x) == I128(x) = x
FitsU128(x) == U128(x) = x

\* Some addend or some accumulator of iter().sum() leaves the integer type.
SumOverflows(s, Fits(_)) ==
    \/ \E i \in DOMAIN s : ~Fits(s[i])
    \/ \E i \in 0..Len(s) : ~Fits(PartialSums(s)[i])

-----------------------------------------------------------------------------
(* Fractions with positive denominators, in place of f64. *)

Less(a, b) == a[1] * b[2] < b[1] * a[2]
Plus(a, b) == <<a[1] * b[2] + b[1] * a[2], a[2] * b[2]>>

\* sum::<f64>() / len() as f64: sums[i] adds up the first i ratios.
Mean(ratios) ==
    LET sums[i \in 0..Len(ratios)] ==
            IF i = 0 THEN <<0, 1>> ELSE Plus(sums[i - 1], ratios[i])
        sum == sums[Len(ratios)]
    IN  <<sum[1], sum[2] * Len(ratios)>>

-----------------------------------------------------------------------------
(* The configurations `new` and the with_* builders accept: that the slow  *)
(* threshold exceeds the fast one is asserted in a debug build only.       *)

IsPolicy(policy) ==
    /\ policy.fast.window \in Nat \ {0}
    /\ policy.slow.window \in Nat \ {0}
    /\ OverflowChecks => Less(policy.fast.threshold, policy.slow.threshold)
    /\ \A burst \in policy.revert_burst : burst.limit \in Nat \ {0}
    /\ \A gas \in policy.revert_gas : gas.window \in Nat \ {0}
    /\ \A vw \in policy.volume_weighted : vw.window \in Nat \ {0}
    /\ \A dd \in policy.drawdown : dd.window \in Nat \ {0}

default_dual_guard ==
    [fast            |-> [threshold |-> <<1, 2>>, window |-> 3],
     slow            |-> [threshold |-> <<7, 10>>, window |-> 20],
     revert_burst    |-> {},
     revert_gas      |-> {},
     volume_weighted |-> {},
     drawdown        |-> {}]

institutional_default ==
    [default_dual_guard EXCEPT
        !.revert_burst    = {[limit |-> 3]},
        !.volume_weighted = {[threshold |-> <<3, 4>>, window |-> 20]}]

ASSUME DefaultsAccepted ==
    IsPolicy(default_dual_guard) /\ IsPolicy(institutional_default)

-----------------------------------------------------------------------------
(* The guards.  Each is the condition under which `evaluate` returns the   *)
(* corresponding HaltReason, given that it gets that far.                  *)

\* Mutant: off by one, the burst halts one revert late.
RevertBurstHalt_Late(policy, h) ==
    \E burst \in policy.revert_burst : consecutive_reverts(h) > burst.limit

RevertBurstHalt(policy, h) ==
    \E burst \in policy.revert_burst : consecutive_reverts(h) >= burst.limit

RevertGasHalt(policy, h) ==
    \E gas \in policy.revert_gas :
        U128(SumSeq(RecentFees(h, gas.window))) > gas.budget_limit

FastHalt(policy, h) ==
    LET window == recent_ratios(h, policy.fast.window)
    IN  /\ Len(window) = policy.fast.window
        /\ \A i \in DOMAIN window : Less(window[i], policy.fast.threshold)

\* The last `window` pairs, whatever was predicted for them, newest first.
Slippage(h, window) ==
    LET pairs == Recent(h.pairs, window)
    IN  Reverse([i \in DOMAIN pairs |-> pairs[i][1] - pairs[i][2]])

DrawdownHalt(policy, h) ==
    \E dd \in policy.drawdown :
        /\ Len(Slippage(h, dd.window)) = dd.window
        /\ I128(SumSeq(Slippage(h, dd.window))) > dd.max_drawdown_limit

\* One component (1 predicted, 2 realized) of the pairs VWAR adds up,
\* newest first.
Volume(h, window, component) ==
    LET pairs == Recent(PositivePairs(h), window)
    IN  Reverse([i \in DOMAIN pairs |-> pairs[i][component]])

\* Mutant: the unfiltered pairs are used, as in the drawdown guard.
VolumeWeightedHalt_Unfiltered(policy, h) ==
    \E vw \in policy.volume_weighted :
        LET pairs == Recent(h.pairs, vw.window)
            predicted == SumSeq([i \in DOMAIN pairs |-> pairs[i][1]])
            realized  == SumSeq([i \in DOMAIN pairs |-> pairs[i][2]])
        IN  /\ Len(pairs) = vw.window
            /\ predicted > 0
            /\ Less(<<realized, predicted>>, vw.threshold)

VolumeWeightedHalt(policy, h) ==
    \E vw \in policy.volume_weighted :
        LET total_predicted == I128(SumSeq(Volume(h, vw.window, 1)))
            total_realized  == I128(SumSeq(Volume(h, vw.window, 2)))
        IN  /\ Len(Volume(h, vw.window, 1)) = vw.window
            /\ total_predicted > 0
            /\ Less(<<total_realized, total_predicted>>, vw.threshold)

SlowHalt(policy, h) ==
    LET window == recent_ratios(h, policy.slow.window)
    IN  /\ Len(window) = policy.slow.window
        /\ Less(Mean(window), policy.slow.threshold)

-----------------------------------------------------------------------------
(* Integer overflow inside a guard that is reached. *)

RevertGasOverflows(policy, h) ==
    \E gas \in policy.revert_gas :
        SumOverflows(RecentFees(h, gas.window), FitsU128)

DrawdownOverflows(policy, h) ==
    \E dd \in policy.drawdown :
        /\ Len(Slippage(h, dd.window)) = dd.window
        /\ SumOverflows(Slippage(h, dd.window), FitsI128)

VolumeWeightedOverflows(policy, h) ==
    \E vw \in policy.volume_weighted :
        /\ Len(Volume(h, vw.window, 1)) = vw.window
        /\ \/ SumOverflows(Volume(h, vw.window, 1), FitsI128)
           \/ SumOverflows(Volume(h, vw.window, 2), FitsI128)

-----------------------------------------------------------------------------
Check(reason, tripped, overflows) ==
    [reason |-> reason, tripped |-> tripped, overflows |-> overflows]

\* The guards in the order of the code's early returns.
Checks(policy, h) ==
    << Check("RevertBurst", RevertBurstHalt(policy, h), FALSE),
       Check("RevertGasBudgetExceeded",
             RevertGasHalt(policy, h), RevertGasOverflows(policy, h)),
       Check("FastGuard", FastHalt(policy, h), FALSE),
       Check("NetDrawdownExceeded",
             DrawdownHalt(policy, h), DrawdownOverflows(policy, h)),
       Check("VolumeWeightedDrift",
             VolumeWeightedHalt(policy, h), VolumeWeightedOverflows(policy, h)),
       Check("SlowGuard", SlowHalt(policy, h), FALSE) >>

HaltReasons == {"RevertBurst", "RevertGasBudgetExceeded", "FastGuard",
                "NetDrawdownExceeded", "VolumeWeightedDrift", "SlowGuard"}

\* Mutant: the ratio guards are consulted only when the last entry is a pair.
evaluate_OnlyAfterPair(policy, h) ==
    IF consecutive_reverts(h) > 0
    THEN IF RevertBurstHalt(policy, h) THEN "RevertBurst" ELSE "Continue"
    ELSE LET i == SelectInSeq(Checks(policy, h), LAMBDA c : c.tripped)
         IN  IF i = 0 THEN "Continue" ELSE Checks(policy, h)[i].reason

\* The decision: "Continue", the reason of the first guard that trips, or
\* "Panic" when a debug build overflows before any guard trips.
Decision(checks) ==
    LET panics(c) == OverflowChecks /\ c.overflows
        first     == SelectInSeq(checks, LAMBDA c : panics(c) \/ c.tripped)
    IN  IF first = 0 THEN "Continue"
        ELSE IF panics(checks[first]) THEN "Panic"
        ELSE checks[first].reason

evaluate(policy, h) == Decision(Checks(policy, h))

Halts(policy, h) == evaluate(policy, h) \in HaltReasons
=============================================================================
