----------------------------- MODULE DriftGuard -----------------------------
(***************************************************************************)
(* A ReconcileHistory that grows, read by a ReconcilePolicy: one action    *)
(* per mutating operation of the history, every decision `evaluate` could  *)
(* be asked for being a function of the state.                             *)
(*                                                                         *)
(* The properties relate the guards, which read three collections through  *)
(* filters and windows of different lengths, to definitions stated on the  *)
(* timeline alone, and say what one more entry may do to a decision.       *)
(***************************************************************************)
EXTENDS ReconcilePolicy

CONSTANTS
    Policy,      \* the ReconcilePolicy under test
    Pairs,       \* the <<predicted, realized>> outcomes that may be appended
    Events,      \* the revert events that may be recorded
    MaxEntries   \* bound on the length of the timeline

ASSUME PolicyAssumption == IsPolicy(Policy)
ASSUME PairsAssumption  == Pairs \subseteq Int \X Int
ASSUME EventsAssumption == \A event \in Events : FeeBurned(event) \in Nat

VARIABLE history

Init == history = NewHistory

AppendPair(pair) ==
    /\ Len(history.timeline) < MaxEntries
    /\ history' = append(history, pair[1], pair[2])

RecordRevert(event) ==
    /\ Len(history.timeline) < MaxEntries
    /\ history' = record_revert(history, event)

Next ==
    \/ \E pair \in Pairs : AppendPair(pair)
    \/ \E event \in Events : RecordRevert(event)

Spec == Init /\ [][Next]_history

-----------------------------------------------------------------------------
\* Types of the three collections of ReconcileHistory.
TypeOK ==
    /\ history.timeline \in Seq({ConfirmedPair(p[1], p[2]) : p \in Pairs}
                                \cup {RevertedTx(e) : e \in Events})
    /\ history.pairs \in Seq(Pairs)
    /\ history.reverts \in Seq(Events)

\* The three collections never drift apart: pairs and reverts are the two
\* kinds of timeline entries, each in timeline order (append and
\* record_revert push to two of them each).
HistoryAgrees ==
    LET timeline == history.timeline
        paired   == ElementsAt(timeline, {i \in DOMAIN timeline : IsPair(timeline[i])})
        reverted == ElementsAt(timeline, {i \in DOMAIN timeline : IsRevert(timeline[i])})
    IN  /\ history.pairs   = [i \in DOMAIN paired |->
                                 <<paired[i].predicted, paired[i].realized>>]
        /\ history.reverts = [i \in DOMAIN reverted |-> reverted[i].event]

-----------------------------------------------------------------------------
(* Reference definitions of the guards, on timeline indices only. *)

Timeline(i)  == history.timeline[i]
Predicted(i) == Timeline(i).predicted
Realized(i)  == Timeline(i).realized

\* The indices of all entries, of the pairs, of the usable pairs, of the reverts.
Settled    == DOMAIN history.timeline
PairedAt   == {i \in Settled : IsPair(Timeline(i))}
UsableAt   == {i \in PairedAt : Predicted(i) > 0}
RevertedAt == {i \in Settled : IsRevert(Timeline(i))}

\* The k most recent of a set of indices.
Newest(k, kept) == {i \in kept : Cardinality({j \in kept : j >= i}) <= k}

\* What the guards add up, by index.
Fees        == [i \in RevertedAt |-> FeeBurned(Timeline(i).event)]
Losses      == [i \in PairedAt |-> Predicted(i) - Realized(i)]
Predictions == [i \in UsableAt |-> Predicted(i)]
Profits     == [i \in UsableAt |-> Realized(i)]

RefBurst ==
    \E burst \in Policy.revert_burst :
        /\ Cardinality(Newest(burst.limit, Settled)) = burst.limit
        /\ Newest(burst.limit, Settled) \subseteq RevertedAt

\* The reverts among the last n entries.
RevertedAmong(n) == Newest(n, Settled) \cap RevertedAt

RefGas ==
    \E gas \in Policy.revert_gas :
        SumFunctionOnSet(Fees, RevertedAmong(gas.window)) > gas.budget_limit

RefFast ==
    LET window == Newest(Policy.fast.window, UsableAt)
        T      == Policy.fast.threshold
    IN  /\ Cardinality(window) = Policy.fast.window
        /\ \A i \in window : Realized(i) * T[2] < T[1] * Predicted(i)

RefDrawdown ==
    \E dd \in Policy.drawdown :
        LET window == Newest(dd.window, PairedAt)
        IN  /\ Cardinality(window) = dd.window
            /\ SumFunctionOnSet(Losses, window) > dd.max_drawdown_limit

RefVolumeWeighted ==
    \E vw \in Policy.volume_weighted :
        LET window == Newest(vw.window, UsableAt)
        IN  /\ Cardinality(window) = vw.window
            /\ SumFunctionOnSet(Profits, window) * vw.threshold[2]
                 < vw.threshold[1] * SumFunctionOnSet(Predictions, window)

\* The product of the predictions at some indices.
Product(indices) ==
    FoldFunctionOnSet(LAMBDA x, y : x * y, 1, Predictions, indices)

\* The mean over a common denominator: the product of all predictions.
RefSlow ==
    LET window == Newest(Policy.slow.window, UsableAt)
        T      == Policy.slow.threshold
        scaled == [i \in window |-> Realized(i) * Product(window \ {i})]
    IN  /\ Cardinality(window) = Policy.slow.window
        /\ SumFunction(scaled) * T[2]
             < T[1] * (Product(window) * Policy.slow.window)

\* What a guard adds up over a window, newest first, leaves its integer type
\* on the way.
Leaves(amounts, window, Fits(_)) ==
    \/ \E i \in window : ~Fits(amounts[i])
    \/ \E k \in 0..Cardinality(window) :
           ~Fits(SumFunctionOnSet(amounts, Newest(k, window)))

RefOverflow ==
    \/ \E gas \in Policy.revert_gas :
           Leaves(Fees, RevertedAmong(gas.window), FitsU128)
    \/ \E dd \in Policy.drawdown :
           Leaves(Losses, Newest(dd.window, PairedAt), FitsI128)
    \/ \E vw \in Policy.volume_weighted :
           \/ Leaves(Predictions, Newest(vw.window, UsableAt), FitsI128)
           \/ Leaves(Profits, Newest(vw.window, UsableAt), FitsI128)

\* evaluate halts exactly when one of the six documented conditions, in exact
\* arithmetic, holds of the timeline (whitepaper Equation 10 with the code's
\* guard definitions), and the reason it gives is one whose condition does
\* hold.  A build with overflow checks that gives no decision panics because a
\* sum really overflows, and it never decides on a wrapped one.
HaltsExactlyWhenAGuardTrips ==
    LET reference == [reason \in HaltReasons |->
            CASE reason = "RevertBurst"             -> RefBurst
              [] reason = "RevertGasBudgetExceeded" -> RefGas
              [] reason = "FastGuard"               -> RefFast
              [] reason = "NetDrawdownExceeded"     -> RefDrawdown
              [] reason = "VolumeWeightedDrift"     -> RefVolumeWeighted
              [] reason = "SlowGuard"               -> RefSlow]
        decision == evaluate(Policy, history)
    IN  IF decision = "Panic" THEN OverflowChecks /\ RefOverflow
        ELSE IF \E reason \in HaltReasons : reference[reason]
        THEN decision \in HaltReasons /\ reference[decision]
        ELSE decision = "Continue"

\* The same policy in a build without overflow checks.
Unchecked == INSTANCE ReconcilePolicy WITH OverflowChecks <- FALSE

\* Whitepaper Property 4, "No guard evaluation can produce a runtime panic",
\* and the comment of DrawdownConfig, "halts if cumulative prediction deficit
\* ... exceeds `max_drawdown_limit`".  Of a history on which evaluate panics
\* where overflows are checked, it decides at least where they are not: it
\* halts exactly when one of the six conditions holds.
SomeBuildDecides ==
    \/ evaluate(Policy, history) # "Panic"
    \/ Unchecked!Halts(Policy, history) <=>
           \/ RefBurst \/ RefGas \/ RefFast
           \/ RefDrawdown \/ RefVolumeWeighted \/ RefSlow

-----------------------------------------------------------------------------
RevertStep == history'.reverts # history.reverts
PairStep   == history'.timeline # history.timeline /\ ~RevertStep
Added      == history'.timeline[Len(history'.timeline)]

\* Whitepaper Property 5: recording a revert changes the verdict of none of
\* the guards that read pairs.
RevertSeparation ==
    [][RevertStep =>
        /\ FastHalt(Policy, history') = FastHalt(Policy, history)
        /\ SlowHalt(Policy, history') = SlowHalt(Policy, history)
        /\ VolumeWeightedHalt(Policy, history')
             = VolumeWeightedHalt(Policy, history)
        /\ DrawdownHalt(Policy, history') = DrawdownHalt(Policy, history)
      ]_history

\* A further revert never turns a halt back into Continue, except the halt
\* of the gas guard, whose window of timeline entries slides.
RevertNeverClears ==
    [][RevertStep /\ Halts(Policy, history)
          /\ evaluate(Policy, history) # "RevertGasBudgetExceeded"
       => Halts(Policy, history')]_history

\* A tripped fast guard is cleared by nothing but a usable pair at or above
\* its threshold: neither reverts nor pairs with predicted <= 0 reset it.
OnlyAHealthyPairClearsFast ==
    [][FastHalt(Policy, history) /\ ~FastHalt(Policy, history')
       => /\ PairStep
          /\ Added.predicted > 0
          /\ ~Less(<<Added.realized, Added.predicted>>, Policy.fast.threshold)
      ]_history

\* Whitepaper Property 4: a pair with predicted <= 0 is invisible to the
\* three guards that divide by predicted profit.
SkippedPairIsInvisible ==
    [][PairStep /\ Added.predicted <= 0 =>
        /\ FastHalt(Policy, history') = FastHalt(Policy, history)
        /\ SlowHalt(Policy, history') = SlowHalt(Policy, history)
        /\ VolumeWeightedHalt(Policy, history')
             = VolumeWeightedHalt(Policy, history)]_history

=============================================================================
