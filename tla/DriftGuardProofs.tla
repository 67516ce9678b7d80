-------------------------- MODULE DriftGuardProofs --------------------------
(***************************************************************************)
(* Theorems about DriftGuard, for any policy, any pairs and events and any *)
(* number of entries, about the parameter sweeps that replay such a        *)
(* history, for any grid, and about what Python is told of the decision.   *)
(***************************************************************************)
EXTENDS Sweep, PyBindings, ReconcilePolicyProofs

Entries == {ConfirmedPair(p[1], p[2]) : p \in Pairs} \cup {RevertedTx(e) : e \in Events}

Typed == history \in HistoryOf(Entries, Pairs, Events)

\* The position of the last pair is a position, or 0.
LastPairInv == SelectLastInSeq(history.timeline, IsPair) \in Int

\* The inductive invariant.
DriftInv == Typed /\ HistoryAgrees /\ LastPairInv

\* Typed says at least what TypeOK says.
LEMMA TypedMeaning == Typed => TypeOK
  BY DEF Typed, TypeOK, HistoryOf, Entries

\* HistoryAgrees in the words of the lemmas about timelines.
LEMMA HistoryAgreesMeans ==
    HistoryAgrees <=> /\ history.pairs = Paired(history.timeline)
                      /\ history.reverts = Reverted(history.timeline)
  BY DEF HistoryAgrees, Paired, Reverted, PairsAt, RevertsAt

\* The entries of a timeline are pairs and reverts.
LEMMA EntriesTagged == Tagged(Entries)
  BY EntryKinds DEF Entries, Tagged

-----------------------------------------------------------------------------
(* The two actions *)

\* append adds one pair to the timeline and to the pairs.
LEMMA AppendPairEffect ==
    ASSUME Typed, NEW pair \in Pairs, AppendPair(pair)
    PROVE  /\ Typed'
           /\ ConfirmedPair(pair[1], pair[2]) \in Entries
           /\ history'.timeline
                = Append(history.timeline, ConfirmedPair(pair[1], pair[2]))
           /\ history'.pairs = Append(history.pairs, pair)
           /\ history'.reverts = history.reverts
<1>1. pair \in Int \X Int /\ pair = <<pair[1], pair[2]>>
  BY PairsAssumption
<1>2. ConfirmedPair(pair[1], pair[2]) \in Entries /\ <<pair[1], pair[2]>> \in Pairs
  BY <1>1 DEF Entries
<1>3. history \in HistoryOf(Entries, Pairs, Events)
  BY DEF Typed
<1>4. history' = append(history, pair[1], pair[2])
  BY DEF AppendPair
<1>5. /\ history' \in HistoryOf(Entries, Pairs, Events)
      /\ history'.timeline
           = Append(history.timeline, ConfirmedPair(pair[1], pair[2]))
      /\ history'.pairs = Append(history.pairs, <<pair[1], pair[2]>>)
      /\ history'.reverts = history.reverts
  <2> DEFINE a == pair[1]
             b == pair[2]
  <2>1. /\ ConfirmedPair(a, b) \in Entries /\ <<a, b>> \in Pairs
        /\ history' = append(history, a, b)
    BY <1>2, <1>4
  <2> HIDE DEF a, b
  <2>2. /\ history' \in HistoryOf(Entries, Pairs, Events)
        /\ history'.timeline = Append(history.timeline, ConfirmedPair(a, b))
        /\ history'.pairs = Append(history.pairs, <<a, b>>)
        /\ history'.reverts = history.reverts
    BY <1>3, <2>1, AppendEffect
  <2> QED
    BY <2>2 DEF a, b
<1> QED
  BY <1>1, <1>2, <1>5 DEF Typed

\* record_revert adds one revert to the timeline and to the reverts.
LEMMA RecordRevertsEffect ==
    ASSUME Typed, NEW event \in Events, RecordRevert(event)
    PROVE  /\ Typed'
           /\ RevertedTx(event) \in Entries
           /\ history'.timeline = Append(history.timeline, RevertedTx(event))
           /\ history'.pairs = history.pairs
           /\ history'.reverts = Append(history.reverts, event)
<1>1. RevertedTx(event) \in Entries
  BY DEF Entries
<1>2. history \in HistoryOf(Entries, Pairs, Events)
  BY DEF Typed
<1>3. history' = record_revert(history, event)
  BY DEF RecordRevert
<1>4. /\ history' \in HistoryOf(Entries, Pairs, Events)
      /\ history'.timeline = Append(history.timeline, RevertedTx(event))
      /\ history'.pairs = history.pairs
      /\ history'.reverts = Append(history.reverts, event)
  BY <1>1, <1>2, <1>3, RecordRevertEffect
<1> QED
  BY <1>1, <1>4 DEF Typed

\* A step that changes the reverts records one, and one that changes the
\* timeline alone appends a pair.
LEMMA StepKinds ==
    ASSUME Typed, Next
    PROVE  /\ RevertStep => \E event \in Events : RecordRevert(event)
           /\ PairStep   => \E pair \in Pairs : AppendPair(pair)
           /\ RevertStep \/ PairStep
<1>1. ASSUME NEW pair \in Pairs, AppendPair(pair)
      PROVE  ~RevertStep /\ PairStep
  <2>1. /\ history'.timeline
             = Append(history.timeline, ConfirmedPair(pair[1], pair[2]))
        /\ history'.reverts = history.reverts
    BY <1>1, AppendPairEffect
  <2>2. history.timeline \in Seq(Entries)
    BY DEF Typed, HistoryOf
  <2>3. ConfirmedPair(pair[1], pair[2]) \in Entries
    BY <1>1, AppendPairEffect
  <2>4. Len(history'.timeline) = Len(history.timeline) + 1
    BY <2>1, <2>2, <2>3
  <2>5. Len(history.timeline) \in Nat
    BY <2>2
  <2>6. history'.timeline # history.timeline
    BY <2>4, <2>5
  <2> QED
    BY <2>1, <2>6 DEF RevertStep, PairStep
<1>2. ASSUME NEW event \in Events, RecordRevert(event)
      PROVE  RevertStep /\ ~PairStep
  <2>1. history'.reverts = Append(history.reverts, event)
    BY <1>2, RecordRevertsEffect
  <2>2. history.reverts \in Seq(Events)
    BY DEF Typed, HistoryOf
  <2>3. /\ Len(history'.reverts) = Len(history.reverts) + 1
        /\ Len(history.reverts) \in Nat
    BY <2>1, <2>2
  <2>4. history'.reverts # history.reverts
    BY <2>3
  <2> QED
    BY <2>4 DEF RevertStep, PairStep
<1> QED
  BY <1>1, <1>2 DEF Next

-----------------------------------------------------------------------------
(* The invariant *)

\* A new history satisfies the invariant.
LEMMA DriftInit == Init => DriftInv
<1> SUFFICES ASSUME Init
             PROVE  DriftInv
  OBVIOUS
<1>1. /\ history = NewHistory /\ history.timeline = <<>>
      /\ history.pairs = <<>> /\ history.reverts = <<>>
  BY DEF Init, NewHistory
<1>2. Typed
  BY <1>1, NewHistoryType DEF Typed
<1>3. PairsAt(<<>>) = {} /\ RevertsAt(<<>>) = {}
  BY DEF PairsAt, RevertsAt
<1>5. HistoryAgrees
  BY <1>1, NothingPaired, HistoryAgreesMeans
<1>6. LastPairInv
  <2>1. history.timeline \in Seq(Entries)
    BY <1>2 DEF Typed, HistoryOf
  <2>2. PairsAt(history.timeline) = {}
    BY <1>1, <1>3
  <2>3. SelectLastInSeq(history.timeline, IsPair) = 0
    BY <2>1, <2>2, LastPairIs
  <2> QED
    BY <2>3 DEF LastPairInv
<1> QED
  BY <1>2, <1>5, <1>6 DEF DriftInv

\* append keeps the invariant.
LEMMA DriftAppendPair ==
    ASSUME DriftInv, NEW pair \in Pairs, AppendPair(pair)
    PROVE  DriftInv'
<1> DEFINE e == ConfirmedPair(pair[1], pair[2])
           t == history.timeline
<1>1. /\ Typed' /\ e \in Entries
      /\ history'.timeline = Append(t, e)
      /\ history'.pairs = Append(history.pairs, pair)
      /\ history'.reverts = history.reverts
  BY AppendPairEffect DEF DriftInv
<1>2. t \in Seq(Entries)
  BY DEF DriftInv, Typed, HistoryOf
<1>3. IsPair(e) /\ <<e.predicted, e.realized>> = pair
  <2>1. pair = <<pair[1], pair[2]>>
    BY PairsAssumption
  <2>2. IsPair(e) /\ e.predicted = pair[1] /\ e.realized = pair[2]
    BY EntryKinds
  <2> QED
    BY <2>1, <2>2
<1> HIDE DEF e, t
<1>4. /\ Paired(history'.timeline) = Append(Paired(t), <<e.predicted, e.realized>>)
      /\ Reverted(history'.timeline) = Reverted(t)
  BY <1>1, <1>2, <1>3, PushPair, EntriesTagged
<1>5. history.pairs = Paired(t) /\ history.reverts = Reverted(t)
  BY HistoryAgreesMeans DEF DriftInv, t
<1>6. /\ history'.pairs = Paired(history'.timeline)
      /\ history'.reverts = Reverted(history'.timeline)
  BY <1>1, <1>3, <1>4, <1>5
<1>7. HistoryAgrees'
  BY <1>6 DEF HistoryAgrees, Paired, Reverted, PairsAt, RevertsAt
<1>8. SelectLastInSeq(history'.timeline, IsPair) = Len(t) + 1
  BY <1>1, <1>2, <1>3, LastPairPushed, EntriesTagged
<1>9. LastPairInv'
  BY <1>2, <1>8 DEF LastPairInv
<1> QED
  BY <1>1, <1>7, <1>9 DEF DriftInv

\* A recorded revert leaves the last pair where it was.
LEMMA LastPairStays ==
    ASSUME Typed, NEW event \in Events, RecordRevert(event)
    PROVE  SelectLastInSeq(history'.timeline, IsPair)
             = SelectLastInSeq(history.timeline, IsPair)
<1> DEFINE e == RevertedTx(event)
           t == history.timeline
           u == history'.timeline
<1>1. e \in Entries /\ u = Append(t, e) /\ IsRevert(e)
  BY RecordRevertsEffect, EntryKinds
<1>2. t \in Seq(Entries)
  BY DEF Typed, HistoryOf
<1> HIDE DEF e, t, u
<1>3. PairsAt(u) = PairsAt(t)
  BY <1>1, <1>2, PushRevert, EntriesTagged
<1>4. u \in Seq(Entries)
  BY <1>1, <1>2
<1>5. SelectLastInSeq(u, IsPair) = SelectLastInSeq(t, IsPair)
  BY <1>2, <1>3, <1>4, LastPairIs
<1> QED
  BY <1>5 DEF t, u

\* record_revert keeps the invariant.
LEMMA DriftRecordRevert ==
    ASSUME DriftInv, NEW event \in Events, RecordRevert(event)
    PROVE  DriftInv'
<1> DEFINE e == RevertedTx(event)
           t == history.timeline
<1>1. /\ Typed' /\ e \in Entries
      /\ history'.timeline = Append(t, e)
      /\ history'.pairs = history.pairs
      /\ history'.reverts = Append(history.reverts, event)
  BY RecordRevertsEffect DEF DriftInv
<1>2. t \in Seq(Entries)
  BY DEF DriftInv, Typed, HistoryOf
<1>3. IsRevert(e) /\ e.event = event
  BY EntryKinds
<1> HIDE DEF e, t
<1>4. /\ Reverted(history'.timeline) = Append(Reverted(t), e.event)
      /\ Paired(history'.timeline) = Paired(t)
  <2> DEFINE u == history'.timeline
  <2>1. u = Append(t, e) /\ e \in Entries
    BY <1>1
  <2> HIDE DEF u
  <2>2. Reverted(u) = Append(Reverted(t), e.event) /\ Paired(u) = Paired(t)
    BY <1>2, <1>3, <2>1, PushRevert, EntriesTagged
  <2> QED
    BY <2>2 DEF u
<1>5. history.pairs = Paired(t) /\ history.reverts = Reverted(t)
  BY HistoryAgreesMeans DEF DriftInv, t
<1>6. /\ history'.pairs = Paired(history'.timeline)
      /\ history'.reverts = Reverted(history'.timeline)
  BY <1>1, <1>3, <1>4, <1>5
<1>7. HistoryAgrees'
  BY <1>6 DEF HistoryAgrees, Paired, Reverted, PairsAt, RevertsAt
<1>8. LastPairInv'
  BY LastPairStays DEF LastPairInv, DriftInv
<1> QED
  BY <1>1, <1>7, <1>8 DEF DriftInv

\* Every step keeps the invariant.
LEMMA DriftStep == DriftInv /\ [Next]_history => DriftInv'
<1> SUFFICES ASSUME DriftInv, [Next]_history
             PROVE  DriftInv'
  OBVIOUS
<1>1. CASE Next
  BY <1>1, DriftAppendPair, DriftRecordRevert DEF Next
<1>2. CASE UNCHANGED history
  BY <1>2 DEF DriftInv, Typed, HistoryAgrees, LastPairInv
<1> QED
  BY <1>1, <1>2

\* The entry an appended pair adds to the timeline, and the pair itself.
LEMMA AppendedPair ==
    ASSUME DriftInv, NEW pair \in Pairs, AppendPair(pair)
    PROVE  /\ history.pairs \in Seq(Int \X Int) /\ pair \in Int \X Int
           /\ history'.pairs = Append(history.pairs, pair)
           /\ Added.predicted = pair[1] /\ Added.realized = pair[2]
<1> DEFINE e == ConfirmedPair(pair[1], pair[2])
           t == history.timeline
           u == history'.timeline
<1>1. /\ e \in Entries /\ u = Append(t, e)
      /\ history'.pairs = Append(history.pairs, pair)
  BY AppendPairEffect DEF DriftInv
<1>2. t \in Seq(Entries) /\ history.pairs \in Seq(Pairs)
  BY DEF DriftInv, Typed, HistoryOf
<1>3. e.predicted = pair[1] /\ e.realized = pair[2]
  BY EntryKinds
<1>4. Added = u[Len(u)]
  BY DEF Added
<1> HIDE DEF e, t, u
<1>5. u[Len(u)] = e
  BY <1>1, <1>2
<1>6. history.pairs \in Seq(Int \X Int) /\ pair \in Int \X Int
  BY <1>2, PairsAssumption
<1> QED
  BY <1>1, <1>3, <1>4, <1>5, <1>6

\* Every reachable history satisfies the invariant.
LEMMA DriftInvariant == Spec => []DriftInv
  BY DriftInit, DriftStep, PTL DEF Spec

-----------------------------------------------------------------------------
\* append and record_revert keep the three collections well typed.
THEOREM HistoryTypeCorrect == Spec => []TypeOK
<1>1. DriftInv => TypeOK
  BY TypedMeaning DEF DriftInv
<1> QED
  BY <1>1, DriftInvariant, PTL

\* The ratio pool and the reverts are always the two projections of the
\* timeline, in its order, however long it grows.
THEOREM CollectionsAgree == Spec => []HistoryAgrees
<1>1. DriftInv => HistoryAgrees
  BY DEF DriftInv
<1> QED
  BY <1>1, DriftInvariant, PTL

\* For every policy, recording a revert leaves the four guards that read
\* pairs as they were.
THEOREM RevertsStaySeparate == Spec => RevertSeparation
<1> DEFINE Same == RevertStep =>
                     /\ FastHalt(Policy, history') = FastHalt(Policy, history)
                     /\ SlowHalt(Policy, history') = SlowHalt(Policy, history)
                     /\ VolumeWeightedHalt(Policy, history')
                          = VolumeWeightedHalt(Policy, history)
                     /\ DrawdownHalt(Policy, history') = DrawdownHalt(Policy, history)
<1>1. ASSUME DriftInv, [Next]_history PROVE [Same]_history
  <2> SUFFICES ASSUME Next, RevertStep
               PROVE  Same
    BY <1>1
  <2>1. PICK event \in Events : RecordRevert(event)
    BY <1>1, StepKinds DEF DriftInv
  <2>2. history'.pairs = history.pairs
    BY <1>1, <2>1, RecordRevertsEffect DEF DriftInv
  <2> QED
    BY <2>2, PairGuardsReadPairs
<1>2. Spec => [][Same]_history
  BY <1>1, DriftInvariant, PTL DEF Spec
<1> QED
  BY <1>2 DEF RevertSeparation

\* For every policy, a pair with predicted <= 0 leaves the three guards that
\* divide by predicted profit as they were.
THEOREM SkippedPairsAreInvisible == Spec => SkippedPairIsInvisible
<1> DEFINE Same == PairStep /\ Added.predicted <= 0 =>
                     /\ FastHalt(Policy, history') = FastHalt(Policy, history)
                     /\ SlowHalt(Policy, history') = SlowHalt(Policy, history)
                     /\ VolumeWeightedHalt(Policy, history')
                          = VolumeWeightedHalt(Policy, history)
<1>1. ASSUME DriftInv, [Next]_history PROVE [Same]_history
  <2> SUFFICES ASSUME Next, PairStep, Added.predicted <= 0
               PROVE  Same
    BY <1>1
  <2>1. PICK pair \in Pairs : AppendPair(pair)
    BY <1>1, StepKinds DEF DriftInv
  <2>2. /\ history.pairs \in Seq(Int \X Int) /\ pair \in Int \X Int
        /\ history'.pairs = Append(history.pairs, pair)
        /\ Added.predicted = pair[1]
    BY <1>1, <2>1, AppendedPair
  <2>3. ~(pair[1] > 0)
    BY <2>2
  <2>4. PositivePairs(history') = PositivePairs(history)
    BY <2>2, <2>3, UsablePairsAfterAppend
  <2> QED
    BY <2>4, RatioGuardsReadUsablePairs
<1>2. Spec => [][Same]_history
  BY <1>1, DriftInvariant, PTL DEF Spec
<1> QED
  BY <1>2 DEF SkippedPairIsInvisible

\* For every policy, a tripped fast guard is cleared by nothing but a usable
\* pair at or above its threshold.
THEOREM HealthyPairsClearFast == Spec => OnlyAHealthyPairClearsFast
<1> DEFINE Clears == FastHalt(Policy, history) /\ ~FastHalt(Policy, history')
                       => /\ PairStep
                          /\ Added.predicted > 0
                          /\ ~Less(<<Added.realized, Added.predicted>>,
                                   Policy.fast.threshold)
<1>1. ASSUME DriftInv, [Next]_history PROVE [Clears]_history
  <2> SUFFICES ASSUME Next, FastHalt(Policy, history), ~FastHalt(Policy, history')
               PROVE  Clears
    BY <1>1
  <2>1. ~RevertStep
    <3> SUFFICES ASSUME RevertStep
                 PROVE  FALSE
      OBVIOUS
    <3>1. PICK event \in Events : RecordRevert(event)
      BY <1>1, StepKinds DEF DriftInv
    <3>2. history'.pairs = history.pairs
      BY <1>1, <3>1, RecordRevertsEffect DEF DriftInv
    <3>3. FastHalt(Policy, history') = FastHalt(Policy, history)
      BY <3>2, PairGuardsReadPairs
    <3> QED
      BY <3>3
  <2>2. PairStep /\ \E pair \in Pairs : AppendPair(pair)
    BY <1>1, <2>1, StepKinds DEF DriftInv
  <2>3. PICK pair \in Pairs : AppendPair(pair)
    BY <2>2
  <2>4. /\ history.pairs \in Seq(Int \X Int) /\ pair \in Int \X Int
        /\ history'.pairs = Append(history.pairs, pair)
        /\ Added.predicted = pair[1] /\ Added.realized = pair[2]
    BY <1>1, <2>3, AppendedPair
  <2>5. /\ PositivePairs(history) \in Seq(Int \X Int)
        /\ pair[1] > 0 => PositivePairs(history') = Append(PositivePairs(history), pair)
        /\ ~(pair[1] > 0) => PositivePairs(history') = PositivePairs(history)
    BY <2>4, UsablePairsAfterAppend
  <2>6. pair[1] > 0
    <3> SUFFICES ASSUME ~(pair[1] > 0)
                 PROVE  FALSE
      OBVIOUS
    <3>1. PositivePairs(history') = PositivePairs(history)
      BY <2>5
    <3>2. FastHalt(Policy, history') = FastHalt(Policy, history)
      BY <3>1, RatioGuardsReadUsablePairs
    <3> QED
      BY <3>2
  <2>7. ~Less(Ratio(pair), Policy.fast.threshold)
    <3>1. Policy.fast.window \in Nat \ {0}
      BY PolicyAssumption DEF IsPolicy
    <3>2. PositivePairs(history') = Append(PositivePairs(history), pair)
      BY <2>5, <2>6
    <3> QED
      BY <2>4, <2>5, <3>1, <3>2, FastStaysTripped
  <2>8. Ratio(pair) = <<Added.realized, Added.predicted>>
    BY <2>4 DEF Ratio
  <2> QED
    BY <2>2, <2>4, <2>6, <2>7, <2>8
<1>2. Spec => [][Clears]_history
  BY <1>1, DriftInvariant, PTL DEF Spec
<1> QED
  BY <1>2 DEF OnlyAHealthyPairClearsFast

\* For every policy without a gas guard, and for every policy in a release
\* build, a further revert never turns a halt of another guard than the gas
\* guard into Continue.  (In a debug build the fee of that revert may
\* overflow the sum of the gas guard, and evaluate panics before it reaches
\* the guard that was tripped.)
THEOREM RevertsNeverClear ==
    ASSUME ~OverflowChecks \/ Policy.revert_gas = {}
    PROVE  Spec => RevertNeverClears
<1> DEFINE Kept == RevertStep /\ Halts(Policy, history)
                     /\ evaluate(Policy, history) # "RevertGasBudgetExceeded"
                     => Halts(Policy, history')
<1>1. ASSUME DriftInv, [Next]_history PROVE [Kept]_history
  <2> SUFFICES ASSUME Next, RevertStep, Halts(Policy, history),
                      evaluate(Policy, history) # "RevertGasBudgetExceeded"
               PROVE  Halts(Policy, history')
    BY <1>1
  <2>1. PICK event \in Events : RecordRevert(event)
    BY <1>1, StepKinds DEF DriftInv
  <2>2. /\ history'.pairs = history.pairs
        /\ history'.timeline = Append(history.timeline, RevertedTx(event))
        /\ RevertedTx(event) \in Entries
    BY <1>1, <2>1, RecordRevertsEffect DEF DriftInv
  <2>3. history.timeline \in Seq(Entries) /\ Len(history.timeline) \in Nat
    BY <1>1 DEF DriftInv, Typed, HistoryOf
  <2>4. Len(history'.timeline) = Len(history.timeline) + 1
    BY <2>2, <2>3
  <2>5. /\ SelectLastInSeq(history'.timeline, IsPair)
             = SelectLastInSeq(history.timeline, IsPair)
        /\ SelectLastInSeq(history.timeline, IsPair) \in Int
    BY <1>1, <2>1, LastPairStays DEF DriftInv, LastPairInv
  <2>6. /\ consecutive_reverts(history) \in Int
        /\ consecutive_reverts(history') = consecutive_reverts(history) + 1
    BY <2>3, <2>4, <2>5 DEF consecutive_reverts
  <2>7. \A burst \in Policy.revert_burst : burst.limit \in Nat
    BY PolicyAssumption DEF IsPolicy
  <2>8. RevertBurstHalt(Policy, history) => RevertBurstHalt(Policy, history')
    BY <2>6, <2>7 DEF RevertBurstHalt
  <2> QED
    BY <2>2, <2>8, RevertKeepsHalt
<1>2. Spec => [][Kept]_history
  BY <1>1, DriftInvariant, PTL DEF Spec
<1> QED
  BY <1>2 DEF RevertNeverClears
-----------------------------------------------------------------------------
(* The policy of a grid point *)

\* The policy built for a grid point.
IsPolicyAt(policy, point) ==
    /\ policy.fast.threshold = point.fast /\ policy.fast.window = FastWindow
    /\ policy.slow.threshold = point.slow /\ policy.slow.window = SlowWindow
    /\ policy.revert_burst = {[limit |-> point.limit]}
    /\ policy.revert_gas = {} /\ policy.drawdown = {} /\ policy.volume_weighted = {}

\* with_fast and the fields the sweep sets give the policy of a grid point.
LEMMA PolicyAtFields ==
    ASSUME NEW point
    PROVE  /\ IsPolicyAt(PolicyAt(point), point)
           /\ DOMAIN PolicyAt(point) = DOMAIN default_dual_guard
<1> DEFINE d == default_dual_guard
           fast  == [threshold |-> point.fast, window |-> FastWindow]
           slow  == [threshold |-> point.slow, window |-> SlowWindow]
           burst == {[limit |-> point.limit]}
           a == [d EXCEPT !.fast = fast]
           b == [a EXCEPT !.slow = slow]
           c == [b EXCEPT !.revert_burst = burst]
<1>1. PolicyAt(point) = c
  BY DEF PolicyAt
<1>2. /\ d = [fast |-> d.fast, slow |-> d.slow, revert_burst |-> d.revert_burst,
              revert_gas |-> {}, volume_weighted |-> {}, drawdown |-> {}]
  BY DEF default_dual_guard
<1> HIDE DEF d, fast, slow, burst
<1>3. /\ a.fast = fast /\ a.slow = d.slow /\ a.revert_burst = d.revert_burst
      /\ a.revert_gas = {} /\ a.volume_weighted = {} /\ a.drawdown = {}
      /\ DOMAIN a = DOMAIN d
  BY <1>2
<1> HIDE DEF a
<1>4. /\ b.fast = fast /\ b.slow = slow /\ b.revert_burst = d.revert_burst
      /\ b.revert_gas = {} /\ b.volume_weighted = {} /\ b.drawdown = {}
      /\ DOMAIN b = DOMAIN d
  BY <1>2, <1>3
<1> HIDE DEF b
<1>5. /\ c.fast = fast /\ c.slow = slow /\ c.revert_burst = burst
      /\ c.revert_gas = {} /\ c.volume_weighted = {} /\ c.drawdown = {}
      /\ DOMAIN c = DOMAIN d
  BY <1>2, <1>4
<1>6. fast.threshold = point.fast /\ fast.window = FastWindow
  BY DEF fast
<1>7. slow.threshold = point.slow /\ slow.window = SlowWindow
  BY DEF slow
<1> HIDE DEF c
<1>8. c.revert_burst = {[limit |-> point.limit]}
  BY <1>5 DEF burst
<1>9. IsPolicyAt(c, point)
  BY <1>5, <1>6, <1>7, <1>8 DEF IsPolicyAt
<1> QED
  BY <1>1, <1>5, <1>9 DEF d

\* A grid point has two thresholds and a positive limit.
LEMMA GridPoints ==
    ASSUME NEW point \in Grid
    PROVE  /\ point.fast \in Fraction /\ point.slow \in Fraction
           /\ point.limit \in Nat \ {0}
  BY ThresholdsAssumption, LimitsAssumption DEF Grid, Fraction

\* What makes the looser of two grid points halt makes the tighter one halt.
LEMMA HaltsTightened ==
    ASSUME NEW p \in Grid, NEW q \in Grid, Tighter(p, q),
           NEW h, h.pairs \in Seq(Int \X Int), consecutive_reverts(h) \in Int,
           Halts(PolicyAt(q), h)
    PROVE  Halts(PolicyAt(p), h)
<1> DEFINE high == PolicyAt(p)
           low  == PolicyAt(q)
<1>1. /\ high.fast.threshold = p.fast /\ high.fast.window = FastWindow
      /\ high.slow.threshold = p.slow /\ high.slow.window = SlowWindow
      /\ high.revert_burst = {[limit |-> p.limit]}
      /\ high.revert_gas = {} /\ high.drawdown = {} /\ high.volume_weighted = {}
  BY PolicyAtFields DEF IsPolicyAt
<1>2. /\ low.fast.threshold = q.fast /\ low.fast.window = FastWindow
      /\ low.slow.threshold = q.slow /\ low.slow.window = SlowWindow
      /\ low.revert_burst = {[limit |-> q.limit]}
      /\ low.revert_gas = {} /\ low.drawdown = {} /\ low.volume_weighted = {}
  BY PolicyAtFields DEF IsPolicyAt
<1>3. /\ p.fast \in Fraction /\ p.slow \in Fraction /\ p.limit \in Nat \ {0}
      /\ q.fast \in Fraction /\ q.slow \in Fraction /\ q.limit \in Nat \ {0}
  BY GridPoints
<1>4. ~Less(p.fast, q.fast) /\ ~Less(p.slow, q.slow) /\ p.limit <= q.limit
  BY DEF Tighter
<1>5. Halts(low, h)
  OBVIOUS
<1> HIDE DEF high, low
<1>6. RevertBurstHalt(low, h) \/ FastHalt(low, h) \/ SlowHalt(low, h)
  BY <1>2, <1>5, ThreeGuards
<1>7. RevertBurstHalt(low, h) => RevertBurstHalt(high, h)
  BY <1>1, <1>2, <1>3, <1>4 DEF RevertBurstHalt
<1>8. FastHalt(low, h) => FastHalt(high, h)
  <2> SUFFICES ASSUME FastHalt(low, h)
               PROVE  FastHalt(high, h)
    OBVIOUS
  <2>1. /\ high.fast.window = low.fast.window /\ low.fast.window \in Nat
        /\ low.fast.threshold \in Fraction /\ high.fast.threshold \in Fraction
        /\ ~Less(high.fast.threshold, low.fast.threshold)
    BY <1>1, <1>2, <1>3, <1>4, WindowsAssumption
  <2> QED
    BY <2>1, FastRaised
<1>9. SlowHalt(low, h) => SlowHalt(high, h)
  <2> SUFFICES ASSUME SlowHalt(low, h)
               PROVE  SlowHalt(high, h)
    OBVIOUS
  <2>1. /\ high.slow.window = low.slow.window /\ low.slow.window \in Nat \ {0}
        /\ low.slow.threshold \in Fraction /\ high.slow.threshold \in Fraction
        /\ ~Less(high.slow.threshold, low.slow.threshold)
    BY <1>1, <1>2, <1>3, <1>4, WindowsAssumption
  <2> QED
    BY <2>1, SlowRaised
<1>10. Halts(high, h)
  BY <1>1, <1>6, <1>7, <1>8, <1>9, ThreeGuards
<1> QED
  BY <1>10 DEF high
-----------------------------------------------------------------------------
(* The results of the sweep *)

Result == [total_halts : Nat, first_halt_index : SUBSET Nat, total_drawdown : Int]

\* The row that a step replays.
Row == history'.timeline[Len(history'.timeline)]

\* What a halt, or none, after row i does to a result while no sum overflows.
Tallied(new, old, i, loss, halted) ==
    /\ ~halted => new = old
    /\ halted => /\ new.total_halts = old.total_halts + 1
                 /\ new.total_drawdown = old.total_drawdown + loss
                 /\ old.first_halt_index = {} => new.first_halt_index = {i}
                 /\ old.first_halt_index # {} =>
                        new.first_halt_index = old.first_halt_index

\* What one replayed row adds to the result of a policy.
LEMMA TallyEffect ==
    ASSUME NEW old \in Result, NEW i \in Nat, NEW row, Shortfall(row) \in Nat,
           NEW halted \in BOOLEAN,
           halted => FitsI128(old.total_drawdown + Shortfall(row)),
           NEW new, new = Tally(old, i, row, halted)
    PROVE  new \in Result /\ Tallied(new, old, i, Shortfall(row), halted)
<1> DEFINE sum   == old.total_drawdown + Shortfall(row)
           first == IF old.first_halt_index = {} THEN {i} ELSE old.first_halt_index
           halts == old.total_halts + 1
<1>1. /\ old.total_drawdown \in Int /\ old.total_halts \in Nat
      /\ old.first_halt_index \in SUBSET Nat
  BY DEF Result
<1>2. CASE ~halted
  BY <1>2 DEF Tally, Tallied
<1>3. CASE halted
  <2>1. I128(sum) = sum
    BY <1>3 DEF FitsI128
  <2>2. new = [total_halts |-> halts, first_halt_index |-> first,
               total_drawdown |-> I128(sum)]
    BY <1>3 DEF Tally
  <2>3. sum \in Int /\ halts \in Nat /\ first \in SUBSET Nat
    BY <1>1
  <2>4. /\ old.first_halt_index = {} => first = {i}
        /\ old.first_halt_index # {} => first = old.first_halt_index
    OBVIOUS
  <2> HIDE DEF sum, first, halts
  <2>5. new = [total_halts |-> halts, first_halt_index |-> first,
               total_drawdown |-> sum]
    BY <2>1, <2>2
  <2>6. new \in Result
    BY <2>3, <2>5 DEF Result
  <2>7. new.total_halts = halts /\ new.first_halt_index = first /\ new.total_drawdown = sum
    BY <2>5
  <2> QED
    BY <1>3, <2>4, <2>6, <2>7 DEF Tallied, sum, halts
<1> QED
  BY <1>2, <1>3

\* A row falls short by a natural number.
LEMMA ShortfallType ==
    ASSUME NEW e \in Entries
    PROVE  Shortfall(e) \in Nat
<1>1. CASE e \in {RevertedTx(v) : v \in Events}
  <2>1. ~IsPair(e)
    BY <1>1, EntryKinds
  <2> QED
    BY <2>1 DEF Shortfall
<1>2. CASE e \in {ConfirmedPair(p[1], p[2]) : p \in Pairs}
  <2>1. PICK p \in Pairs : e = ConfirmedPair(p[1], p[2])
    BY <1>2
  <2>2. e.predicted = p[1] /\ e.realized = p[2] /\ p \in Int \X Int
    BY <2>1, PairsAssumption, EntryKinds
  <2>3. e.predicted \in Int /\ e.realized \in Int
    BY <2>2
  <2> QED
    BY <2>3 DEF Shortfall
<1> QED
  BY <1>1, <1>2 DEF Entries

\* A step of the sweep is a step of the history that replays its last entry.
LEMMA SweptRow ==
    ASSUME DriftInv, SweepNext
    PROVE  /\ Next /\ ReplayRow /\ DriftInv'
           /\ Len(history.timeline) \in Nat
           /\ Len(history'.timeline) = Len(history.timeline) + 1
           /\ Shortfall(Row) \in Nat
           /\ history'.pairs \in Seq(Int \X Int)
           /\ consecutive_reverts(history') \in Int
<1>1. Next /\ ReplayRow
  BY DEF SweepNext, SweepPair, SweepRevert, Next
<1>2. DriftInv'
  BY <1>1, DriftStep
<1>3. PICK e \in Entries : history'.timeline = Append(history.timeline, e)
  BY <1>1, AppendPairEffect, RecordRevertsEffect DEF Next, DriftInv
<1>4. history.timeline \in Seq(Entries) /\ history'.timeline \in Seq(Entries)
  BY <1>2 DEF DriftInv, Typed, HistoryOf
<1>5. /\ Len(history.timeline) \in Nat
      /\ Len(history'.timeline) = Len(history.timeline) + 1
      /\ Row = e
  BY <1>3, <1>4 DEF Row
<1>6. Shortfall(Row) \in Nat
  BY <1>5, ShortfallType
<1>7. history'.pairs \in Seq(Pairs)
  BY <1>2 DEF DriftInv, Typed, HistoryOf
<1>8. history'.pairs \in Seq(Int \X Int)
  BY <1>7, PairsAssumption
<1>9. SelectLastInSeq(history'.timeline, IsPair) \in Int
  BY <1>2 DEF DriftInv, LastPairInv
<1>10. consecutive_reverts(history') \in Int
  <2> DEFINE a == Len(history'.timeline)
             b == SelectLastInSeq(history'.timeline, IsPair)
  <2>1. a \in Int /\ b \in Int
    BY <1>5, <1>9
  <2>2. consecutive_reverts(history') = a - b
    BY DEF consecutive_reverts
  <2> HIDE DEF a, b
  <2> QED
    BY <2>1, <2>2
<1> QED
  BY <1>1, <1>2, <1>5, <1>6, <1>8, <1>10

\* The inductive invariant of the sweep: the results are typed, and every
\* first halt is at a row that was replayed.
SweepTyped ==
    /\ panicked \in BOOLEAN
    /\ results \in [Grid -> Result]
    /\ \A point \in Grid : \A i \in results[point].first_halt_index :
           i < Len(history.timeline)

SweepInv == DriftInv /\ SweepTyped /\ TighteningNeverMissesMore

\* The results of an empty replay satisfy the invariant of the sweep.
LEMMA SweepStart == SweepInit => SweepInv
<1> SUFFICES ASSUME SweepInit
             PROVE  SweepInv
  OBVIOUS
<1>1. DriftInv
  BY DriftInit DEF SweepInit
<1>2. results = [point \in Grid |-> NoResult] /\ panicked = FALSE
  BY DEF SweepInit
<1>3. /\ NoResult \in Result /\ NoResult.first_halt_index = {}
      /\ NoResult.total_halts = 0 /\ NoResult.total_drawdown = 0
  BY DEF NoResult, Result
<1>4. SweepTyped
  BY <1>2, <1>3 DEF SweepTyped
<1>5. TighteningNeverMissesMore
  BY <1>2, <1>3 DEF TighteningNeverMissesMore
<1> QED
  BY <1>1, <1>4, <1>5 DEF SweepInv

\* In a debug build, either the call is over or every result took in the row.
LEMMA SweptResults ==
    ASSUME OverflowChecks, DriftInv, SweepTyped, SweepNext, ~panicked'
    PROVE  /\ ~panicked /\ results' \in [Grid -> Result]
           /\ \A point \in Grid :
                  Tallied(results'[point], results[point], Len(history.timeline),
                          Shortfall(Row), Halts(PolicyAt(point), history'))
<1> DEFINE i == Len(history.timeline)
           halted(point) == Halts(PolicyAt(point), history')
           next == [point \in Grid |-> Tally(results[point], i, Row, halted(point))]
           Overflows(point) ==
               /\ next[point].total_halts > results[point].total_halts
               /\ \/ ~FitsI128(Shortfall(Row))
                  \/ ~FitsI128(results[point].total_drawdown + Shortfall(Row))
<1>1. i \in Nat /\ Shortfall(Row) \in Nat /\ ReplayRow
  BY SweptRow
<1>2. /\ ~panicked /\ results' = next
      /\ \A point \in Grid : ~Overflows(point)
  BY <1>1 DEF ReplayRow, Row
<1>3. results \in [Grid -> Result]
  BY DEF SweepTyped
<1> HIDE DEF i
<1>4. ASSUME NEW point \in Grid
      PROVE  /\ next[point] \in Result
             /\ Tallied(next[point], results[point], i, Shortfall(Row), halted(point))
  <2> DEFINE old == results[point]
             new == next[point]
             h   == halted(point)
             row == Row
  <2>1. old \in Result /\ new = Tally(old, i, row, h) /\ h \in BOOLEAN
    BY <1>3, <1>4 DEF Halts
  <2>2. ~ (/\ new.total_halts > old.total_halts
           /\ ~FitsI128(old.total_drawdown + Shortfall(row)))
    BY <1>2, <1>4
  <2>3. Shortfall(row) \in Nat
    BY <1>1
  <2> HIDE DEF old, new, h, row, next
  <2>4. h => FitsI128(old.total_drawdown + Shortfall(row))
    <3> SUFFICES ASSUME h
                 PROVE  new.total_halts > old.total_halts
      BY <2>2
    <3>1. new.total_halts = old.total_halts + 1
      BY <2>1 DEF Tally
    <3>2. old.total_halts \in Nat
      BY <2>1 DEF Result
    <3> QED
      BY <3>1, <3>2
  <2>5. new \in Result /\ Tallied(new, old, i, Shortfall(row), h)
    BY <1>1, <2>1, <2>3, <2>4, TallyEffect
  <2> QED
    BY <2>5 DEF old, new, h, row
<1>5. results' \in [Grid -> Result]
  BY <1>2, <1>4
<1> QED
  BY <1>2, <1>4, <1>5 DEF i
\* Two results that are in order stay in order over a row at which the second
\* halts only if the first does.
LEMMA TallyKeepsOrder ==
    ASSUME NEW p \in Result, NEW q \in Result, NEW p2 \in Result, NEW q2 \in Result,
           NEW i \in Nat, NEW loss \in Nat, NEW hp, NEW hq,
           Tallied(p2, p, i, loss, hp), Tallied(q2, q, i, loss, hq), hq => hp,
           p.total_halts >= q.total_halts, p.total_drawdown >= q.total_drawdown,
           \A k \in q.first_halt_index : \E j \in p.first_halt_index : j <= k,
           \A j \in p.first_halt_index : j < i
    PROVE  /\ p2.total_halts >= q2.total_halts
           /\ p2.total_drawdown >= q2.total_drawdown
           /\ \A k \in q2.first_halt_index : \E j \in p2.first_halt_index : j <= k
<1>1. /\ p.total_halts \in Nat /\ q.total_halts \in Nat
      /\ p.total_drawdown \in Int /\ q.total_drawdown \in Int
      /\ p.first_halt_index \in SUBSET Nat /\ q.first_halt_index \in SUBSET Nat
  BY DEF Result
<1>2. CASE ~hp
  BY <1>2 DEF Tallied
<1>3. CASE hp
  <2>1. /\ p2.total_halts = p.total_halts + 1
        /\ p2.total_drawdown = p.total_drawdown + loss
        /\ p.first_halt_index = {} => p2.first_halt_index = {i}
        /\ p.first_halt_index # {} => p2.first_halt_index = p.first_halt_index
    BY <1>3 DEF Tallied
  <2>2. CASE ~hq
    <3>1. q2 = q
      BY <2>2 DEF Tallied
    <3>2. \A k \in q.first_halt_index : p2.first_halt_index = p.first_halt_index
      BY <2>1
    <3> QED
      BY <1>1, <2>1, <3>1, <3>2
  <2>3. CASE hq
    <3>1. /\ q2.total_halts = q.total_halts + 1
          /\ q2.total_drawdown = q.total_drawdown + loss
          /\ q.first_halt_index = {} => q2.first_halt_index = {i}
          /\ q.first_halt_index # {} => q2.first_halt_index = q.first_halt_index
      BY <2>3 DEF Tallied
    <3>2. ASSUME NEW k \in q2.first_halt_index
          PROVE  \E j \in p2.first_halt_index : j <= k
      <4>1. CASE q.first_halt_index # {}
        <5>1. PICK j \in p.first_halt_index : j <= k
          BY <3>1, <3>2, <4>1
        <5> QED
          BY <2>1, <5>1
      <4>2. CASE q.first_halt_index = {}
        <5>1. k = i
          BY <3>1, <3>2, <4>2
        <5>2. CASE p.first_halt_index = {}
          BY <2>1, <5>1, <5>2
        <5>3. CASE p.first_halt_index # {}
          <6>1. PICK j \in p.first_halt_index : j < i
            BY <5>3
          <6>2. j \in p2.first_halt_index /\ j <= k
            BY <1>1, <2>1, <5>1, <5>3, <6>1
          <6> QED
            BY <6>2
        <5> QED
          BY <5>2, <5>3
      <4> QED
        BY <4>1, <4>2
    <3> QED
      BY <1>1, <2>1, <3>1, <3>2
  <2> QED
    BY <2>2, <2>3
<1> QED
  BY <1>2, <1>3

\* A replayed row keeps the results well typed.
LEMMA SweepTypedStep ==
    ASSUME OverflowChecks, DriftInv, SweepTyped, SweepNext
    PROVE  SweepTyped'
<1> DEFINE i == Len(history.timeline)
<1>1. i \in Nat /\ Len(history'.timeline) = i + 1 /\ ReplayRow
  BY SweptRow
<1>2. panicked' \in BOOLEAN
  BY <1>1 DEF ReplayRow, SweepTyped
<1>3. results \in [Grid -> Result]
      /\ \A point \in Grid : \A k \in results[point].first_halt_index : k < i
  BY DEF SweepTyped
<1> HIDE DEF i
<1>4. CASE panicked'
  <2>1. results' = results
    BY <1>1, <1>4 DEF ReplayRow
  <2>2. ASSUME NEW point \in Grid, NEW k \in results[point].first_halt_index
        PROVE  k < i + 1
    <3>1. k < i /\ k \in Nat
      BY <1>3, <2>2 DEF Result
    <3> QED
      BY <1>1, <3>1
  <2> QED
    BY <1>1, <1>2, <1>3, <2>1, <2>2 DEF SweepTyped
<1>5. CASE ~panicked'
  <2>1. /\ results' \in [Grid -> Result]
        /\ \A point \in Grid :
               Tallied(results'[point], results[point], i, Shortfall(Row),
                       Halts(PolicyAt(point), history'))
    BY <1>5, SweptResults DEF i
  <2>2. ASSUME NEW point \in Grid, NEW k \in results'[point].first_halt_index
        PROVE  k < i + 1
    <3>1. k \in results[point].first_halt_index \/ k = i
      BY <2>1, <2>2 DEF Tallied
    <3>2. k \in Nat
      BY <2>1, <2>2 DEF Result
    <3>3. k < i \/ k = i
      BY <1>3, <2>2, <3>1
    <3> QED
      BY <1>1, <3>2, <3>3
  <2> QED
    BY <1>1, <1>2, <2>1, <2>2 DEF SweepTyped
<1> QED
  BY <1>4, <1>5

\* A replayed row keeps the tighter policy at least as far ahead.
LEMMA TighteningStep ==
    ASSUME OverflowChecks, SweepInv, SweepNext
    PROVE  TighteningNeverMissesMore'
<1> SUFFICES ASSUME NEW p \in Grid, NEW q \in Grid, ~panicked', Tighter(p, q)
             PROVE  /\ results'[p].total_halts >= results'[q].total_halts
                    /\ results'[p].total_drawdown >= results'[q].total_drawdown
                    /\ \A i \in results'[q].first_halt_index :
                           \E j \in results'[p].first_halt_index : j <= i
  BY DEF TighteningNeverMissesMore
<1> DEFINE n  == Len(history.timeline)
           hp == Halts(PolicyAt(p), history')
           hq == Halts(PolicyAt(q), history')
           loss == Shortfall(Row)
           rp == results[p]
           rq == results[q]
           np == results'[p]
           nq == results'[q]
<1>1. /\ n \in Nat /\ loss \in Nat
      /\ history'.pairs \in Seq(Int \X Int) /\ consecutive_reverts(history') \in Int
  BY SweptRow DEF SweepInv
<1>2. /\ ~panicked /\ results' \in [Grid -> Result]
      /\ Tallied(np, rp, n, loss, hp) /\ Tallied(nq, rq, n, loss, hq)
  BY SweptResults DEF SweepInv
<1>3. results \in [Grid -> Result] /\ \A j \in rp.first_halt_index : j < n
  BY DEF SweepInv, SweepTyped
<1>4. hq => hp
  BY <1>1, HaltsTightened
<1>5. /\ rp.total_halts >= rq.total_halts /\ rp.total_drawdown >= rq.total_drawdown
      /\ \A k \in rq.first_halt_index : \E j \in rp.first_halt_index : j <= k
  BY <1>2 DEF SweepInv, TighteningNeverMissesMore
<1>6. rp \in Result /\ rq \in Result /\ np \in Result /\ nq \in Result
  BY <1>2, <1>3
<1> HIDE DEF n, hp, hq, loss, rp, rq, np, nq
<1>7. /\ np.total_halts >= nq.total_halts
      /\ np.total_drawdown >= nq.total_drawdown
      /\ \A k \in nq.first_halt_index : \E j \in np.first_halt_index : j <= k
  BY <1>1, <1>2, <1>3, <1>4, <1>5, <1>6, TallyKeepsOrder
<1> QED
  BY <1>7 DEF np, nq

\* Every step keeps the invariant of the sweep.
LEMMA SweepStep ==
    ASSUME OverflowChecks
    PROVE  SweepInv /\ [SweepNext]_sweepVars => SweepInv'
<1> SUFFICES ASSUME SweepInv, [SweepNext]_sweepVars
             PROVE  SweepInv'
  OBVIOUS
<1>1. CASE SweepNext
  BY <1>1, SweptRow, SweepTypedStep, TighteningStep DEF SweepInv
<1>2. CASE UNCHANGED sweepVars
  BY <1>2 DEF sweepVars, SweepInv, SweepTyped, TighteningNeverMissesMore,
              DriftInv, Typed, HistoryAgrees, LastPairInv
<1> QED
  BY <1>1, <1>2

\* For every grid, every window length and every sequence of rows: in a build
\* with overflow checks, raising a threshold or lowering the revert limit
\* never makes run_sweep_raw report a later first halt, fewer halts or less
\* loss after halts.  (Without the checks the i128 sum of the losses wraps,
\* and two points may wrap at different rows.)
THEOREM TighteningCatchesAsMuch ==
    ASSUME OverflowChecks
    PROVE  SweepSpec => []TighteningNeverMissesMore
<1>1. SweepInv => TighteningNeverMissesMore
  BY DEF SweepInv
<1> QED
  BY <1>1, SweepStart, SweepStep, PTL DEF SweepSpec
-----------------------------------------------------------------------------
(* The benchmark's loop *)

\* The history that run_to_first_halt holds after i pairs, as the guards of
\* a policy without revert guards see it.
Prefix(s, i) == [timeline |-> <<>>, pairs |-> SubSeq(s, 1, i), reverts |-> <<>>]

HaltingPrefixes(policy, s) == {i \in DOMAIN s : Halts(policy, Prefix(s, i))}

FirstOf(H) == IF H = {} THEN {} ELSE {Min(H)}

\* g[i] is the history after i pairs of s.
Benchmarking(g, s) ==
    g = [i \in 0..Len(s) |->
            IF i = 0 THEN NewHistory ELSE append(g[i - 1], s[i][1], s[i][2])]

\* The entries of confirmed pairs.
AllPairs == {ConfirmedPair(p[1], p[2]) : p \in Int \X Int}

BenchHistory == HistoryOf(AllPairs, Int \X Int, {})

\* One iteration of the loop.
LEMMA BenchIteration ==
    ASSUME NEW h \in BenchHistory, NEW p \in Int \X Int,
           NEW g, g = append(h, p[1], p[2])
    PROVE  g \in BenchHistory /\ g.pairs = Append(h.pairs, p)
<1> DEFINE a == p[1]
           b == p[2]
<1>1. p = <<a, b>> /\ ConfirmedPair(a, b) \in AllPairs /\ <<a, b>> \in Int \X Int
  BY DEF AllPairs
<1>2. h \in HistoryOf(AllPairs, Int \X Int, {}) /\ g = append(h, a, b)
  BY DEF BenchHistory
<1> HIDE DEF a, b
<1>3. /\ g \in HistoryOf(AllPairs, Int \X Int, {})
      /\ g.pairs = Append(h.pairs, <<a, b>>)
  BY <1>1, <1>2, AppendEffect
<1> QED
  BY <1>1, <1>3 DEF BenchHistory

\* The function that run_to_first_halt defines recursively exists.
LEMMA BenchLoop ==
    ASSUME NEW policy, NEW s \in Seq(Int \X Int)
    PROVE  \E g : /\ Benchmarking(g, s)
                  /\ run_to_first_halt(policy, s)
                       = FirstOf({i \in DOMAIN s : Halts(policy, g[i])})
<1> DEFINE n == Len(s)
           V == BenchHistory
           next(h, p) == append(h, p[1], p[2])
           F == [i \in 1..n |-> [h \in V |-> next(h, s[i])]]
<1>1. n \in Nat /\ \A i \in 1..n : s[i] \in Int \X Int
  OBVIOUS
<1>2. NewHistory \in V
  BY NewHistoryType DEF BenchHistory
<1>3. ASSUME NEW i \in 1..n, NEW h \in V
      PROVE  next(h, s[i]) \in V
  <2> DEFINE g == next(h, s[i])
             p == s[i]
  <2>1. p \in Int \X Int /\ g = append(h, p[1], p[2])
    BY <1>1
  <2> HIDE DEF g, p
  <2>2. g \in BenchHistory
    BY <2>1, BenchIteration
  <2> QED
    BY <2>2 DEF g
<1> HIDE DEF n, V, next
<1>4. F \in [1..n -> [V -> V]]
  <2>1. ASSUME NEW i \in 1..n PROVE [h \in V |-> next(h, s[i])] \in [V -> V]
    BY <1>3
  <2> QED
    BY <2>1
<1>5. \A i \in 1..n : \A h \in V : F[i][h] = next(h, s[i])
  OBVIOUS
<1> HIDE DEF F
<1>6. PICK g : /\ g \in [0..n -> V] /\ g[0] = NewHistory
               /\ \A i \in 1..n : g[i] = F[i][g[i - 1]]
  <2>1. n \in Nat
    BY <1>1
  <2>2. \E g : Iterates(g, NewHistory, F, n, V)
    BY <1>2, <1>4, <2>1, Recursion
  <2> QED
    BY <2>2 DEF Iterates
<1>7. ASSUME NEW i \in 0..n
      PROVE  g[i] = IF i = 0 THEN NewHistory ELSE next(g[i - 1], s[i])
  <2>1. CASE i = 0
    BY <1>6, <2>1
  <2>2. CASE i # 0
    <3>1. i \in 1..n /\ i - 1 \in 0..n
      BY <1>1, <2>2
    <3> QED
      BY <1>5, <1>6, <2>2, <3>1
  <2> QED
    BY <2>1, <2>2
<1>8. g = [i \in 0..n |-> IF i = 0 THEN NewHistory ELSE next(g[i - 1], s[i])]
  BY <1>6, <1>7
<1>9. Benchmarking(g, s)
  BY <1>8, Zenon DEF Benchmarking, n, next
<1>10. run_to_first_halt(policy, s)
         = FirstOf({i \in DOMAIN s :
                        Halts(policy, (CHOOSE f : Benchmarking(f, s))[i])})
  BY Zenon DEF run_to_first_halt, Benchmarking, FirstOf
<1>11. Benchmarking((CHOOSE f : Benchmarking(f, s)), s)
  BY <1>9, Zenon
<1> QED
  BY <1>10, <1>11, Zenon

\* What the loop holds after i pairs are the first i pairs.
LEMMA BenchPrefix ==
    ASSUME NEW s \in Seq(Int \X Int), NEW g, Benchmarking(g, s)
    PROVE  \A i \in 0..Len(s) : g[i].pairs = SubSeq(s, 1, i)
<1> DEFINE n == Len(s)
           Agrees(i) == g[i] \in BenchHistory /\ g[i].pairs = SubSeq(s, 1, i)
           S == {i \in 0..n : Agrees(i)}
<1>1. n \in Nat /\ n \in 0..n /\ \A i \in 1..n : s[i] \in Int \X Int
  OBVIOUS
<1>2. 0 \in S
  <2>1. g[0] = NewHistory
    BY <1>1 DEF Benchmarking
  <2>2. SubSeq(s, 1, 0) = <<>>
    BY SubSeqEmpty
  <2>3. g[0].pairs = <<>>
    BY <2>1 DEF NewHistory
  <2>4. g[0] \in BenchHistory
    BY <2>1, NewHistoryType DEF BenchHistory
  <2>5. Agrees(0) /\ 0 \in 0..n
    BY <1>1, <2>2, <2>3, <2>4
  <2> HIDE DEF Agrees
  <2> QED
    BY <2>5
<1>3. ASSUME NEW i \in 1..n, i - 1 \in S
      PROVE  i \in S
  <2> DEFINE p == s[i]
             h == g[i - 1]
             f == g[i]
             q == SubSeq(s, 1, i - 1)
             u == SubSeq(s, 1, i)
  <2>1. i \in 0..n /\ i # 0 /\ p \in Int \X Int
    BY <1>1
  <2>2. h \in BenchHistory /\ h.pairs = q
    BY <1>3
  <2>3. f = append(h, p[1], p[2])
    BY <2>1 DEF Benchmarking
  <2>4. u = Append(q, p)
    BY PrefixGrows
  <2> HIDE DEF p, h, f, q, u
  <2>5. f \in BenchHistory /\ f.pairs = Append(h.pairs, p)
    <3>1. h \in BenchHistory /\ p \in Int \X Int
      BY <2>1, <2>2
    <3> QED
      BY <2>3, <3>1, BenchIteration
  <2>6. f \in BenchHistory /\ f.pairs = u
    BY <2>2, <2>4, <2>5
  <2> QED
    BY <2>1, <2>6 DEF f, u
<1> HIDE DEF S
<1>4. \A i \in 1..n : i - 1 \in S => i \in S
  BY <1>3
<1>5. \A i \in 0..n : i \in S
  BY <1>1, <1>2, <1>4, RangeInduction
<1> QED
  BY <1>5 DEF S

\* run_to_first_halt returns the length of the shortest prefix that halts.
LEMMA BenchFirstHalt ==
    ASSUME NEW policy, policy.revert_burst = {}, policy.revert_gas = {},
           NEW s \in Seq(Int \X Int)
    PROVE  run_to_first_halt(policy, s) = FirstOf(HaltingPrefixes(policy, s))
<1>1. PICK g : /\ Benchmarking(g, s)
               /\ run_to_first_halt(policy, s)
                    = FirstOf({i \in DOMAIN s : Halts(policy, g[i])})
  BY BenchLoop
<1>2. \A i \in 0..Len(s) : g[i].pairs = SubSeq(s, 1, i)
  BY <1>1, BenchPrefix
<1>3. ASSUME NEW i \in DOMAIN s
      PROVE  Halts(policy, g[i]) = Halts(policy, Prefix(s, i))
  <2> DEFINE h == Prefix(s, i)
             f == g[i]
  <2>1. i \in 0..Len(s)
    BY <1>3
  <2>2. f.pairs = h.pairs
    BY <1>2, <2>1 DEF Prefix
  <2> HIDE DEF h, f
  <2>3. Halts(policy, f) = Halts(policy, h)
    BY <2>2, DecidesByPairs
  <2> QED
    BY <2>3 DEF h, f
<1>4. {i \in DOMAIN s : Halts(policy, g[i])} = HaltingPrefixes(policy, s)
  BY <1>3, Zenon DEF HaltingPrefixes
<1> QED
  BY <1>1, <1>4
-----------------------------------------------------------------------------
(* The two sweeps *)

\* The policy of the benchmark at a grid point: no revert guard.
RatioPolicy(point) == [PolicyAt(point) EXCEPT !.revert_burst = {}]

\* A policy of the benchmark has the two ratio guards and no other.
LEMMA RatioPolicyFields ==
    ASSUME NEW point
    PROVE  /\ RatioPolicy(point).fast = PolicyAt(point).fast
           /\ RatioPolicy(point).slow = PolicyAt(point).slow
           /\ RatioPolicy(point).revert_burst = {}
           /\ RatioPolicy(point).revert_gas = {} /\ RatioPolicy(point).drawdown = {}
           /\ RatioPolicy(point).volume_weighted = {}
<1> DEFINE a == PolicyAt(point)
           b == [a EXCEPT !.revert_burst = {}]
<1>1. RatioPolicy(point) = b
  BY DEF RatioPolicy
<1>2. a.revert_gas = {} /\ a.drawdown = {} /\ a.volume_weighted = {}
  BY PolicyAtFields DEF IsPolicyAt
<1>3. DOMAIN a = {"fast", "slow", "revert_burst", "revert_gas", "volume_weighted",
                  "drawdown"}
  BY PolicyAtFields DEF default_dual_guard
<1> HIDE DEF a
<1>4. /\ b.fast = a.fast /\ b.slow = a.slow /\ b.revert_burst = {}
      /\ b.revert_gas = {} /\ b.drawdown = {} /\ b.volume_weighted = {}
  BY <1>2, <1>3
<1> QED
  BY <1>1, <1>4 DEF a

\* After a pair no run of reverts can trip a limit, and both policies of a
\* grid point decide alike.
LEMMA PoliciesAgreeAfterAPair ==
    ASSUME NEW point \in Grid, NEW h, consecutive_reverts(h) = 0
    PROVE  Halts(PolicyAt(point), h) <=> Halts(RatioPolicy(point), h)
<1> DEFINE a == PolicyAt(point)
           b == RatioPolicy(point)
<1>1. /\ b.fast = a.fast /\ b.slow = a.slow /\ b.revert_burst = {}
      /\ b.revert_gas = {} /\ b.drawdown = {} /\ b.volume_weighted = {}
  BY RatioPolicyFields
<1>2. /\ a.revert_burst = {[limit |-> point.limit]}
      /\ a.revert_gas = {} /\ a.drawdown = {} /\ a.volume_weighted = {}
  BY PolicyAtFields DEF IsPolicyAt
<1> HIDE DEF a, b
<1>3. ~RevertBurstHalt(a, h) /\ ~RevertBurstHalt(b, h)
  BY <1>1, <1>2, GridPoints DEF RevertBurstHalt
<1>4. FastHalt(a, h) = FastHalt(b, h) /\ SlowHalt(a, h) = SlowHalt(b, h)
  BY <1>1 DEF FastHalt, SlowHalt
<1>5. Halts(a, h) <=> RevertBurstHalt(a, h) \/ FastHalt(a, h) \/ SlowHalt(a, h)
  BY <1>2, ThreeGuards
<1>6. Halts(b, h) <=> RevertBurstHalt(b, h) \/ FastHalt(b, h) \/ SlowHalt(b, h)
  BY <1>1, ThreeGuards
<1> QED
  BY <1>3, <1>4, <1>5, <1>6 DEF a, b

\* G is H, with the next prefix if that one halts.
Grown(G, H, n, halted) ==
    /\ H \subseteq 1..n
    /\ halted => G = H \cup {n + 1}
    /\ ~halted => G = H

\* The prefixes that halt after one more pair.
LEMMA PrefixesGrow ==
    ASSUME NEW policy, policy.revert_burst = {}, policy.revert_gas = {},
           NEW s \in Seq(Int \X Int), NEW p \in Int \X Int, NEW h,
           NEW u, u = Append(s, p), h.pairs = u
    PROVE  Grown(HaltingPrefixes(policy, u), HaltingPrefixes(policy, s), Len(s),
                 Halts(policy, h))
<1> DEFINE n == Len(s)
<1>1. n \in Nat /\ DOMAIN s = 1..n /\ DOMAIN u = 1..n + 1 /\ u \in Seq(Int \X Int)
      /\ Len(u) = n + 1
  OBVIOUS
<1>2. ASSUME NEW i \in 1..n
      PROVE  Prefix(u, i) = Prefix(s, i)
  <2>1. SubSeq(u, 1, i) = SubSeq(s, 1, i)
    <3> DEFINE a == SubSeq(u, 1, i)
               b == SubSeq(s, 1, i)
    <3>1. \A j \in 1..i : u[j] = s[j] /\ s[j] \in Int \X Int /\ u[j] \in Int \X Int
      BY <1>1, <1>2
    <3>2. /\ a \in Seq(Int \X Int) /\ Len(a) = i /\ \A j \in 1..i : a[j] = u[j]
      BY <1>1, <1>2
    <3>3. /\ b \in Seq(Int \X Int) /\ Len(b) = i /\ \A j \in 1..i : b[j] = s[j]
      BY <1>1, <1>2
    <3> HIDE DEF a, b
    <3>4. Len(a) = Len(b) /\ \A j \in 1..Len(a) : a[j] = b[j]
      BY <3>1, <3>2, <3>3
    <3>5. a = b
      BY <3>2, <3>3, <3>4, SeqEqual
    <3> QED
      BY <3>5 DEF a, b
  <2> QED
    BY <2>1 DEF Prefix
<1>3. Halts(policy, Prefix(u, n + 1)) = Halts(policy, h)
  <2> DEFINE g == Prefix(u, n + 1)
  <2>1. SubSeq(u, 1, n + 1) = u
    BY <1>1, SubSeqFull
  <2>2. g.pairs = h.pairs
    BY <2>1 DEF Prefix
  <2> HIDE DEF g
  <2>3. Halts(policy, g) = Halts(policy, h)
    BY <2>2, DecidesByPairs
  <2> QED
    BY <2>3 DEF g
<1> DEFINE Stop(i) == Halts(policy, Prefix(s, i))
           Go(i)   == Halts(policy, Prefix(u, i))
           halted  == Halts(policy, h)
<1>4. /\ HaltingPrefixes(policy, s) = {i \in 1..n : Stop(i)}
      /\ HaltingPrefixes(policy, u) = {i \in 1..n + 1 : Go(i)}
  BY <1>1, Zenon DEF HaltingPrefixes
<1>5. \A i \in 1..n : Go(i) = Stop(i)
  BY <1>2
<1>6. Go(n + 1) = halted
  BY <1>3
<1> HIDE DEF n, Stop, Go, halted
<1>7. halted => {i \in 1..n + 1 : Go(i)} = {i \in 1..n : Stop(i)} \cup {n + 1}
  <2>1. \A i : i \in 1..n + 1 <=> i \in 1..n \/ i = n + 1
    BY <1>1
  <2> QED
    BY <1>5, <1>6, <2>1, Zenon
<1>8. ~halted => {i \in 1..n + 1 : Go(i)} = {i \in 1..n : Stop(i)}
  BY <1>1, <1>5, <1>6
<1> QED
  BY <1>4, <1>7, <1>8 DEF halted, n, Grown

\* The row index first in F is that of the shortest prefix in H, less one.
IsFirst(F, H) ==
    /\ H = {} => F = {}
    /\ H # {} => \E m \in H : F = {m - 1} /\ \A k \in H : m <= k

\* The first halt is the new row when there was none, and else the old one.
LEMMA FirstStays ==
    ASSUME NEW n \in Nat, NEW F, NEW H \in SUBSET (1..n), IsFirst(F, H),
           NEW G, G = H \cup {n + 1}
    PROVE  /\ F = {} => IsFirst({n}, G)
           /\ F # {} => IsFirst(F, G)
<1>1. CASE H = {}
  <2>1. F = {} /\ G = {n + 1}
    BY <1>1 DEF IsFirst
  <2>2. {n} = {(n + 1) - 1}
    OBVIOUS
  <2> QED
    BY <2>1, <2>2 DEF IsFirst
<1>2. CASE H # {}
  <2>1. PICK m \in H : F = {m - 1} /\ \A k \in H : m <= k
    BY <1>2 DEF IsFirst
  <2>2. m \in G /\ \A k \in G : m <= k
    BY <2>1
  <2> QED
    BY <2>1, <2>2 DEF IsFirst
<1> QED
  BY <1>1, <1>2

\* Two ways to count the first halt, from zero and from one.
LEMMA FirstIs ==
    ASSUME NEW n \in Nat, NEW F, NEW H \in SUBSET (1..n), IsFirst(F, H)
    PROVE  FirstOf(H) = {i + 1 : i \in F}
<1>1. CASE H = {}
  BY <1>1 DEF IsFirst, FirstOf
<1>2. CASE H # {}
  <2>1. PICK m \in H : F = {m - 1} /\ \A k \in H : m <= k
    BY <1>2 DEF IsFirst
  <2>2. Min(H) \in H /\ \A y \in H : Min(H) <= y
    BY <2>1, Zenon DEF Min
  <2>3. m \in Int /\ Min(H) \in Int /\ m <= Min(H) /\ Min(H) <= m
    <3> DEFINE x == Min(H)
    <3>1. x \in H /\ \A y \in H : x <= y
      BY <2>2
    <3> HIDE DEF x
    <3>2. x \in Int /\ m \in Int /\ m <= x /\ x <= m
      BY <2>1, <3>1
    <3> QED
      BY <3>2 DEF x
  <2>4. Min(H) = m
    BY <2>3
  <2>5. {i + 1 : i \in {m - 1}} = {m}
    BY <2>3
  <2> QED
    BY <1>2, <2>1, <2>4, <2>5 DEF FirstOf
<1> QED
  BY <1>1, <1>2
\* The results against the benchmark, without the recursion of its loop.
FirstHaltsAgree ==
    \A point \in Grid :
        IsFirst(results[point].first_halt_index,
                HaltingPrefixes(RatioPolicy(point), history.pairs))

\* The inductive invariant: as long as there are no reverts, rows and pairs
\* are counted alike.
AgreeInv ==
    /\ DriftInv
    /\ panicked \in BOOLEAN
    /\ ~panicked /\ history.reverts = <<>> =>
           /\ Len(history.pairs) = Len(history.timeline)
           /\ FirstHaltsAgree

\* Both sweeps start without a halt.
LEMMA AgreeStart == SweepInit => AgreeInv
<1> SUFFICES ASSUME SweepInit
             PROVE  AgreeInv
  OBVIOUS
<1>1. DriftInv
  BY DriftInit DEF SweepInit
<1>2. /\ results = [point \in Grid |-> NoResult] /\ panicked = FALSE
      /\ history.timeline = <<>> /\ history.pairs = <<>>
  BY DEF SweepInit, Init, NewHistory
<1>3. ASSUME NEW point \in Grid
      PROVE  IsFirst(results[point].first_halt_index,
                     HaltingPrefixes(RatioPolicy(point), history.pairs))
  <2>1. results[point].first_halt_index = {}
    BY <1>2, <1>3 DEF NoResult
  <2>2. DOMAIN history.pairs = {}
    BY <1>2
  <2>3. HaltingPrefixes(RatioPolicy(point), history.pairs) = {}
    BY <2>2 DEF HaltingPrefixes
  <2> QED
    BY <2>1, <2>3 DEF IsFirst
<1> QED
  BY <1>1, <1>2, <1>3 DEF AgreeInv, FirstHaltsAgree

\* A replayed row sets the first halt of the points that halt and had none.
LEMMA ReplayedFirst ==
    ASSUME ReplayRow, panicked \in BOOLEAN, ~panicked', NEW point \in Grid
    PROVE  LET old == results[point].first_halt_index
               new == results'[point].first_halt_index
               halted == Halts(PolicyAt(point), history')
           IN  /\ ~panicked
               /\ halted /\ old = {} => new = {Len(history.timeline)}
               /\ ~halted \/ old # {} => new = old
<1> DEFINE row == history'.timeline[Len(history'.timeline)]
           n   == Len(history.timeline)
           halted == Halts(PolicyAt(point), history')
<1>1. ~panicked /\ results'[point] = Tally(results[point], n, row, halted)
  BY DEF ReplayRow
<1> HIDE DEF row, n, halted
<1>2. /\ halted /\ results[point].first_halt_index = {} =>
            results'[point].first_halt_index = {n}
      /\ ~halted \/ results[point].first_halt_index # {} =>
            results'[point].first_halt_index = results[point].first_halt_index
  BY <1>1 DEF Tally
<1> QED
  BY <1>1, <1>2 DEF n, halted

\* A step that leaves the history without reverts appends a pair to one
\* without reverts.
LEMMA PairReplayed ==
    ASSUME DriftInv, SweepNext, history'.reverts = <<>>
    PROVE  /\ history.reverts = <<>>
           /\ consecutive_reverts(history') = 0
           /\ \E pair \in Pairs : AppendPair(pair)
<1>1. Next
  BY DEF SweepNext, SweepPair, SweepRevert, Next
<1>2. ~ \E event \in Events : RecordRevert(event)
  <2> SUFFICES ASSUME NEW event \in Events, RecordRevert(event)
               PROVE  FALSE
    OBVIOUS
  <2>1. history'.reverts = Append(history.reverts, event)
    BY RecordRevertsEffect DEF DriftInv
  <2>2. history.reverts \in Seq(Events)
    BY DEF DriftInv, Typed, HistoryOf
  <2>3. Len(history'.reverts) = Len(history.reverts) + 1 /\ Len(history.reverts) \in Nat
    BY <2>1, <2>2
  <2>4. Len(history'.reverts) = 0
    OBVIOUS
  <2> QED
    BY <2>3, <2>4
<1>3. PICK pair \in Pairs : AppendPair(pair)
  BY <1>1, <1>2 DEF Next
<1> DEFINE e == ConfirmedPair(pair[1], pair[2])
           t == history.timeline
           u == history'.timeline
<1>4. e \in Entries /\ u = Append(t, e) /\ history.reverts = <<>>
  BY <1>3, AppendPairEffect DEF DriftInv
<1>5. t \in Seq(Entries) /\ IsPair(e)
  BY EntryKinds DEF DriftInv, Typed, HistoryOf
<1>6. consecutive_reverts(history') = Len(u) - SelectLastInSeq(u, IsPair)
  BY DEF consecutive_reverts
<1> HIDE DEF e, t, u
<1>7. SelectLastInSeq(u, IsPair) = Len(t) + 1
  BY <1>4, <1>5, LastPairPushed, EntriesTagged
<1>8. Len(u) = Len(t) + 1 /\ Len(t) \in Nat
  BY <1>4, <1>5
<1>9. consecutive_reverts(history') = 0
  BY <1>6, <1>7, <1>8
<1> QED
  BY <1>3, <1>4, <1>9

\* Every step keeps the two sweeps in agreement.
LEMMA AgreeStep == AgreeInv /\ [SweepNext]_sweepVars => AgreeInv'
<1> SUFFICES ASSUME AgreeInv, [SweepNext]_sweepVars
             PROVE  AgreeInv'
  OBVIOUS
<1>1. CASE UNCHANGED sweepVars
  BY <1>1 DEF sweepVars, AgreeInv, FirstHaltsAgree,
              DriftInv, Typed, HistoryAgrees, LastPairInv
<1>2. CASE SweepNext
  <2>1. DriftInv' /\ ReplayRow
    BY <1>2, SweptRow DEF AgreeInv
  <2>2. panicked \in BOOLEAN /\ panicked' \in BOOLEAN
    BY <2>1 DEF ReplayRow, AgreeInv
  <2> SUFFICES ASSUME ~panicked', history'.reverts = <<>>
               PROVE  /\ Len(history'.pairs) = Len(history'.timeline)
                      /\ FirstHaltsAgree'
    BY <2>1, <2>2 DEF AgreeInv
  <2>3. history.reverts = <<>> /\ consecutive_reverts(history') = 0
    BY <1>2, PairReplayed DEF AgreeInv
  <2>4. PICK pair \in Pairs : AppendPair(pair)
    BY <1>2, PairReplayed DEF AgreeInv
  <2>5. ~panicked
    BY <2>1, <2>2 DEF ReplayRow
  <2>6. Len(history.pairs) = Len(history.timeline) /\ FirstHaltsAgree
    BY <2>3, <2>5 DEF AgreeInv
  <2>7. /\ history.pairs \in Seq(Int \X Int) /\ pair \in Int \X Int
        /\ history'.pairs = Append(history.pairs, pair)
    BY <2>4, AppendedPair DEF AgreeInv
  <2>8. /\ Len(history'.timeline) = Len(history.timeline) + 1
        /\ Len(history.timeline) \in Nat
    BY <1>2, SweptRow DEF AgreeInv
  <2>9. Len(history'.pairs) = Len(history'.timeline)
    <3>1. Len(history'.pairs) = Len(history.pairs) + 1
      BY <2>7
    <3> QED
      BY <2>6, <2>8, <3>1
  <2>10. ASSUME NEW point \in Grid
         PROVE  IsFirst(results'[point].first_halt_index,
                        HaltingPrefixes(RatioPolicy(point), history'.pairs))
    <3> DEFINE policy == RatioPolicy(point)
               s == history.pairs
               u == history'.pairs
               h == history'
               H == HaltingPrefixes(policy, s)
               G == HaltingPrefixes(policy, u)
               n == Len(history.timeline)
               old == results[point].first_halt_index
               new == results'[point].first_halt_index
               halted == Halts(PolicyAt(point), history')
    <3>1. policy.revert_burst = {} /\ policy.revert_gas = {}
      BY RatioPolicyFields
    <3>2. halted <=> Halts(policy, h)
      BY <2>3, <2>10, PoliciesAgreeAfterAPair
    <3>3. /\ halted /\ old = {} => new = {n}
          /\ ~halted \/ old # {} => new = old
      BY <2>1, <2>2, <2>10, ReplayedFirst
    <3>4. IsFirst(old, H)
      BY <2>6, <2>10 DEF FirstHaltsAgree
    <3>5. s \in Seq(Int \X Int) /\ u = Append(s, pair) /\ h.pairs = u /\ Len(s) = n /\ n \in Nat
      BY <2>6, <2>7, <2>8
    <3> HIDE DEF policy, s, u, h, n, old, new, halted
    <3>6. Grown(G, H, Len(s), Halts(policy, h))
      <4>1. s \in Seq(Int \X Int) /\ pair \in Int \X Int
        BY <2>7, <3>5
      <4>2. u = Append(s, pair) /\ h.pairs = u
        BY <3>5
      <4> QED
        BY <3>1, <4>1, <4>2, PrefixesGrow
    <3> SUFFICES IsFirst(new, G)
      BY DEF new, G, policy, u
    <3> HIDE DEF H, G
    <3>7. H \in SUBSET (1..n) /\ (halted => G = H \cup {n + 1}) /\ (~halted => G = H)
      BY <3>2, <3>5, <3>6 DEF Grown
    <3>8. CASE ~halted
      BY <3>3, <3>4, <3>7, <3>8
    <3>9. CASE halted
      <4>1. G = H \cup {n + 1}
        BY <3>7, <3>9
      <4>2. (old = {} => IsFirst({n}, G)) /\ (old # {} => IsFirst(old, G))
        BY <3>4, <3>5, <3>7, <4>1, FirstStays
      <4> QED
        BY <3>3, <3>9, <4>2
    <3> QED
      BY <3>8, <3>9
  <2> QED
    BY <2>9, <2>10 DEF FirstHaltsAgree
<1> QED
  BY <1>1, <1>2

\* For every grid, every window length, either build and every sequence of
\* rows without reverts, run_sweep_raw and the benchmark's run_to_first_halt
\* report the same first halt.
THEOREM SweepsAgree == SweepSpec => []SweepsAgreeOnFirstHalt
<1>1. ASSUME AgreeInv PROVE SweepsAgreeOnFirstHalt
  <2> SUFFICES ASSUME ~panicked, history.reverts = <<>>, NEW point \in Grid
               PROVE  run_to_first_halt(RatioPolicy(point), history.pairs)
                        = {i + 1 : i \in results[point].first_halt_index}
    BY DEF SweepsAgreeOnFirstHalt, RatioPolicy
  <2> DEFINE policy == RatioPolicy(point)
             s == history.pairs
             F == results[point].first_halt_index
             H == HaltingPrefixes(policy, s)
  <2>1. policy.revert_burst = {} /\ policy.revert_gas = {}
    BY RatioPolicyFields
  <2>2. s \in Seq(Int \X Int)
    BY <1>1, PairsAssumption DEF AgreeInv, DriftInv, Typed, HistoryOf
  <2>3. IsFirst(F, H)
    BY <1>1 DEF AgreeInv, FirstHaltsAgree
  <2> HIDE DEF policy, s, F
  <2>4. run_to_first_halt(policy, s) = FirstOf(H)
    BY <2>1, <2>2, BenchFirstHalt
  <2>5. H \in SUBSET (1..Len(s)) /\ Len(s) \in Nat
    BY <2>2 DEF HaltingPrefixes
  <2> HIDE DEF H
  <2>6. FirstOf(H) = {i + 1 : i \in F}
    BY <2>3, <2>5, FirstIs
  <2> QED
    BY <2>4, <2>6 DEF policy, s, F
<1> QED
  BY <1>1, AgreeStart, AgreeStep, PTL DEF SweepSpec

-----------------------------------------------------------------------------
(* The guards against their reference definitions: the sequence that a     *)
(* guard's loop reads lists the indices that the reference sums over.      *)

\* The last len of the m indices p lists.
Latest(p, m, len) == [k \in 1..len |-> p[m - len + k]]

\* The n newest of an increasing enumeration are its last n.
LEMMA NewestEnumerated ==
    ASSUME NEW S, NEW m, NEW p, Increasing(p, m, S), NEW n \in Nat,
           NEW len, m >= n => len = n, ~(m >= n) => len = m
    PROVE  /\ Newest(n, S) = First(Backwards(p, m), len)
           /\ Cardinality(Newest(n, S)) = len
           /\ Increasing(Latest(p, m, len), len, Newest(n, S))
<1> DEFINE q == Backwards(p, m)
           W == Newest(n, S)
<1>1. /\ m \in Nat /\ S \subseteq Int /\ p \in [1..m -> S]
      /\ \A a, b \in 1..m : a < b => p[a] < p[b]
      /\ \A x \in S : \E a \in 1..m : p[a] = x
  BY DEF Increasing
<1>2. Enumerates(q, m, S)
  BY IncreasingEnumerates
<1>3. \A k \in 1..m : m + 1 - k \in 1..m /\ m + 1 - (m + 1 - k) = k
  BY <1>1
<1>4. \A k \in 1..m : q[k] = p[m + 1 - k] /\ p[k] = q[m + 1 - k]
  BY <1>1, <1>3 DEF Backwards
<1>5. \A a, b \in 1..m : p[b] >= p[a] <=> b >= a
  <2> SUFFICES ASSUME NEW a \in 1..m, NEW b \in 1..m PROVE p[b] >= p[a] <=> b >= a
    OBVIOUS
  <2>1. p[a] \in Int /\ p[b] \in Int /\ (a < b => p[a] < p[b]) /\ (b < a => p[b] < p[a])
    BY <1>1
  <2> QED
    BY <1>1, <2>1
<1> HIDE DEF q
<1>6. len \in 0..m /\ len \in Nat /\ m - len \in Nat
  BY <1>1
<1>7. \A k \in 0..m : IsFiniteSet(First(q, k)) /\ Cardinality(First(q, k)) = k
  BY <1>2, FirstGrows
<1>8. ASSUME NEW a \in 1..m
      PROVE  Cardinality({j \in S : j >= p[a]}) = m + 1 - a
  <2>1. {j \in S : j >= p[a]} = First(q, m + 1 - a)
    <3>1. ASSUME NEW b \in 1..m PROVE p[b] >= p[a] <=> p[b] \in First(q, m + 1 - a)
      <4>1. b >= a <=> m + 1 - b \in 1..m + 1 - a
        BY <1>1
      <4>2. m + 1 - b \in 1..m + 1 - a => p[b] \in First(q, m + 1 - a)
        BY <1>4 DEF First
      <4>3. ASSUME p[b] \in First(q, m + 1 - a) PROVE m + 1 - b \in 1..m + 1 - a
        <5>1. PICK k \in 1..m + 1 - a : p[b] = q[k]
          BY <4>3 DEF First
        <5>2. k \in 1..m /\ m + 1 - b \in 1..m /\ p[b] = q[m + 1 - b]
          BY <1>1, <1>3, <1>4
        <5>3. k = m + 1 - b
          BY <1>2, <5>1, <5>2 DEF Enumerates
        <5> QED
          BY <5>3
      <4> QED
        BY <1>5, <4>1, <4>2, <4>3
    <3>2. First(q, m + 1 - a) \subseteq S
      <4>1. m + 1 - a \in 0..m
        BY <1>1
      <4> QED
        BY <1>2, <4>1, FirstGrows
    <3>3. \A x \in S : x >= p[a] <=> x \in First(q, m + 1 - a)
      <4> SUFFICES ASSUME NEW x \in S PROVE x >= p[a] <=> x \in First(q, m + 1 - a)
        OBVIOUS
      <4>1. PICK b \in 1..m : p[b] = x
        BY <1>1
      <4> QED
        BY <3>1, <4>1
    <3> QED
      BY <3>2, <3>3
  <2>2. m + 1 - a \in 0..m
    BY <1>1
  <2> QED
    BY <1>7, <2>1, <2>2
<1>9. \A a \in 1..m : p[a] \in W <=> a > m - len
  <2> SUFFICES ASSUME NEW a \in 1..m PROVE p[a] \in W <=> a > m - len
    OBVIOUS
  <2>1. p[a] \in W <=> m + 1 - a <= n
    BY <1>1, <1>8 DEF Newest
  <2>2. m + 1 - a <= n <=> a > m - len
    BY <1>1
  <2> QED
    BY <2>1, <2>2
<1>10. W \subseteq S
  BY DEF Newest
<1> HIDE DEF W
<1>11. W = First(q, len)
  <2>1. ASSUME NEW x \in W PROVE x \in First(q, len)
    <3>1. PICK a \in 1..m : p[a] = x
      BY <1>1, <1>10
    <3>2. m + 1 - a \in 1..len /\ q[m + 1 - a] = x
      BY <1>1, <1>4, <1>6, <1>9, <3>1
    <3> QED
      BY <3>2 DEF First
  <2>2. ASSUME NEW k \in 1..len PROVE q[k] \in W
    <3>1. k \in 1..m /\ m + 1 - k \in 1..m /\ m + 1 - k > m - len
      BY <1>1, <1>6
    <3> QED
      BY <1>4, <1>9, <3>1
  <2> QED
    BY <2>1, <2>2 DEF First
<1> DEFINE w == Latest(p, m, len)
<1>12. \A k \in 1..len : m - len + k \in 1..m /\ m - len + k > m - len
  BY <1>1, <1>6
<1>13. w \in [1..len -> W] /\ \A k \in 1..len : w[k] = p[m - len + k]
  BY <1>9, <1>12 DEF Latest
<1> HIDE DEF w
<1>14. ASSUME NEW a \in 1..len, NEW b \in 1..len, a < b PROVE w[a] < w[b]
  <2>1. m - len + a < m - len + b
    BY <1>6, <1>14
  <2> QED
    BY <1>1, <1>12, <1>13, <2>1
<1>15. ASSUME NEW x \in W PROVE \E a \in 1..len : w[a] = x
  <2>1. PICK b \in 1..m : p[b] = x
    BY <1>1, <1>10
  <2>2. b > m - len
    BY <1>9, <2>1
  <2>3. b - (m - len) \in 1..len /\ m - len + (b - (m - len)) = b
    BY <1>1, <1>6, <2>2
  <2> QED
    BY <1>13, <2>1, <2>3
<1>16. Increasing(w, len, W)
  <2>1. W \subseteq Int
    BY <1>1, <1>10
  <2> QED
    BY <1>6, <1>13, <1>14, <1>15, <2>1 DEF Increasing
<1>17. Cardinality(W) = len
  BY <1>6, <1>7, <1>11
<1> QED
  BY <1>11, <1>16, <1>17 DEF q, W, w

\* Reversal.
LEMMA ReverseElements ==
    ASSUME NEW S, NEW s \in Seq(S)
    PROVE  /\ Reverse(s) \in Seq(S) /\ Len(Reverse(s)) = Len(s)
           /\ \A k \in 1..Len(s) : Reverse(s)[k] = s[Len(s) + 1 - k]
<1>1. Len(s) \in Nat /\ \A k \in 1..Len(s) : /\ Len(s) - k + 1 \in 1..Len(s)
                                            /\ Len(s) - k + 1 = Len(s) + 1 - k
  OBVIOUS
<1> QED
  BY <1>1 DEF Reverse

\* The accumulators of a sum over z are the sums of the amounts f over the
\* newest indices of W.
AddsUp(z, f, W) ==
    /\ SumSeq(z) = SumFunctionOnSet(f, W)
    /\ \A k \in 0..Len(z) : PartialSums(z)[k] = SumFunctionOnSet(f, Newest(k, W))
    /\ \A k \in 1..Len(z) : \E i \in W : z[k] = f[i]
    /\ z \in Seq(Int) /\ Cardinality(W) = Len(z)

\* What a guard adds up, newest first: the accumulator after k amounts is the
\* sum over the k newest indices.
LEMMA WindowSums ==
    ASSUME NEW W, NEW s \in Seq(Int), NEW p, Increasing(p, Len(s), W),
           NEW f, \A k \in 1..Len(s) : s[k] = f[p[k]]
    PROVE  AddsUp(Reverse(s), f, W)
<1> DEFINE m == Len(s)
           t == Reverse(s)
           q == Backwards(p, m)
<1>1. m \in Nat
  OBVIOUS
<1>2. t \in Seq(Int) /\ Len(t) = m /\ \A k \in 1..m : t[k] = s[m + 1 - k]
  BY ReverseElements
<1>3. Enumerates(q, m, W)
  BY IncreasingEnumerates
<1>4. \A k \in 1..m : t[k] = f[q[k]] /\ q[k] \in W
  <2> SUFFICES ASSUME NEW k \in 1..m PROVE t[k] = f[q[k]] /\ q[k] \in W
    OBVIOUS
  <2>1. m + 1 - k \in 1..m
    BY <1>1
  <2>2. q[k] = p[m + 1 - k]
    BY DEF Backwards
  <2>3. p[m + 1 - k] \in W
    BY <2>1 DEF Increasing
  <2> QED
    BY <1>2, <2>1, <2>2, <2>3
<1> HIDE DEF t, q
<1>5. ASSUME NEW k \in 0..m PROVE Newest(k, W) = First(q, k)
  <2>1. k \in Nat /\ m >= k
    BY <1>1
  <2> QED
    BY <2>1, NewestEnumerated DEF q
<1>6. Cardinality(W) = m
  BY <1>1, <1>3, FirstGrows
<1>7. /\ \A k \in 0..Len(t) : PartialSums(t)[k] = SumFunctionOnSet(f, First(q, k))
      /\ SumSeq(t) = SumFunctionOnSet(f, W)
  <2>1. Enumerates(q, Len(t), W)
    BY <1>2, <1>3
  <2>2. \A k \in 1..Len(t) : t[k] = f[q[k]]
    BY <1>2, <1>4
  <2>3. t \in Seq(Int)
    BY <1>2
  <2> QED
    BY <2>1, <2>2, <2>3, SumEnumerated
<1>8. \A k \in 0..m : PartialSums(t)[k] = SumFunctionOnSet(f, Newest(k, W))
  <2> SUFFICES ASSUME NEW k \in 0..m
               PROVE  PartialSums(t)[k] = SumFunctionOnSet(f, Newest(k, W))
    OBVIOUS
  <2>1. k \in 0..Len(t) /\ Newest(k, W) = First(q, k)
    BY <1>2, <1>5
  <2>2. PartialSums(t)[k] = SumFunctionOnSet(f, First(q, k))
    BY <1>7, <2>1
  <2> QED
    BY <2>1, <2>2
<1> QED
  BY <1>2, <1>4, <1>6, <1>7, <1>8 DEF t, AddsUp

\* A sum leaves its type exactly when the amounts do.
LEMMA SumsLeave ==
    ASSUME NEW z, NEW f, NEW W, AddsUp(z, f, W)
    PROVE  /\ Len(z) = Cardinality(W) /\ SumSeq(z) = SumFunctionOnSet(f, W)
           /\ SumOverflows(z, FitsI128) => Leaves(f, W, FitsI128)
           /\ SumOverflows(z, FitsU128) => Leaves(f, W, FitsU128)
           /\ ~SumOverflows(z, FitsI128) => I128(SumSeq(z)) = SumSeq(z)
           /\ ~SumOverflows(z, FitsU128) => U128(SumSeq(z)) = SumSeq(z)
<1>1. /\ SumSeq(z) = SumFunctionOnSet(f, W)
      /\ \A k \in 0..Len(z) : PartialSums(z)[k] = SumFunctionOnSet(f, Newest(k, W))
      /\ \A k \in 1..Len(z) : \E i \in W : z[k] = f[i]
      /\ z \in Seq(Int) /\ Cardinality(W) = Len(z)
  BY DEF AddsUp
<1>2. DOMAIN z = 1..Len(z) /\ Len(z) \in 0..Len(z)
  BY <1>1
<1>3. SumOverflows(z, FitsI128) => Leaves(f, W, FitsI128)
  BY <1>1, <1>2 DEF SumOverflows, Leaves
<1>4. SumOverflows(z, FitsU128) => Leaves(f, W, FitsU128)
  BY <1>1, <1>2 DEF SumOverflows, Leaves
<1>5. ~SumOverflows(z, FitsI128) => I128(SumSeq(z)) = SumSeq(z)
  BY <1>2 DEF SumOverflows, SumSeq, FitsI128
<1>6. ~SumOverflows(z, FitsU128) => U128(SumSeq(z)) = SumSeq(z)
  BY <1>2 DEF SumOverflows, SumSeq, FitsU128
<1> QED
  BY <1>1, <1>3, <1>4, <1>5, <1>6

-----------------------------------------------------------------------------
\* The pairs q are those of the timeline at the indices S, in order: p[k] is
\* the index of the k-th.
Listed(q, p, S) ==
    /\ q \in Seq(Int \X Int) /\ Increasing(p, Len(q), S)
    /\ \A k \in 1..Len(q) : q[k][1] = Predicted(p[k]) /\ q[k][2] = Realized(p[k])

\* The pairs list the realized entries of the timeline in order.
LEMMA PairsListed ==
    ASSUME DriftInv
    PROVE  /\ Listed(history.pairs, KeptPlaces(PairedAt), PairedAt)
           /\ history.pairs \in Seq(Int \X Int)
<1> DEFINE t == history.timeline
           kept == PairsAt(t)
           e == ElementsAt(t, kept)
           q == history.pairs
           p == KeptPlaces(kept)
<1>1. t \in Seq(Entries) /\ q \in Seq(Int \X Int)
  BY PairsAssumption DEF DriftInv, Typed, HistoryOf
<1>2. q = [i \in DOMAIN e |-> <<e[i].predicted, e[i].realized>>]
  BY HistoryAgreesMeans DEF DriftInv, Paired
<1>3. kept = PairedAt /\ kept \in SUBSET DOMAIN t
  BY DEF PairsAt, PairedAt, Settled, Timeline
<1> HIDE DEF kept
<1>4. e \in Seq(Entries) /\ Len(e) = Cardinality(kept)
  BY <1>1, <1>3, ElementsAtType
<1>5. /\ Increasing(p, Cardinality(kept), kept)
      /\ \A k \in 1..Cardinality(kept) : e[k] = t[p[k]]
  BY <1>1, <1>3, PlacesIncrease
<1> HIDE DEF e, p
<1>6. Len(q) = Len(e) /\ DOMAIN e = 1..Len(e)
  BY <1>2, <1>4
<1>7. \A k \in 1..Len(q) : q[k] = <<e[k].predicted, e[k].realized>>
  BY <1>2, <1>6
<1>8. \A k \in 1..Len(q) : q[k][1] = Predicted(p[k]) /\ q[k][2] = Realized(p[k])
  BY <1>4, <1>5, <1>6, <1>7 DEF Predicted, Realized, Timeline
<1> QED
  BY <1>1, <1>3, <1>4, <1>5, <1>6, <1>8 DEF Listed, p

\* The pairs with a positive prediction list the usable entries in order.
LEMMA UsableListed ==
    ASSUME DriftInv
    PROVE  \E p : Listed(PositivePairs(history), p, UsableAt)
<1> DEFINE s == history.pairs
           P == KeptPlaces(PairedAt)
           pos == {i \in DOMAIN s : s[i][1] > 0}
           Q == KeptPlaces(pos)
           q == ElementsAt(s, pos)
           c == Cardinality(pos)
           p == [k \in 1..c |-> P[Q[k]]]
<1>1. Listed(s, P, PairedAt) /\ s \in Seq(Int \X Int)
  BY PairsListed
<1>2. q = PositivePairs(history)
  BY DEF PositivePairs
<1>3. pos \in SUBSET DOMAIN s
  OBVIOUS
<1>4. \A i \in 1..Len(s) : i \in pos <=> s[i][1] > 0
  BY <1>1
<1>5. DOMAIN s = 1..Len(s) /\ Len(s) \in Nat
  BY <1>1
<1> HIDE DEF P, pos, s
<1>6. q \in Seq(Int \X Int) /\ Len(q) = c
  BY <1>1, <1>3, ElementsAtType
<1>7. /\ Increasing(Q, c, pos)
      /\ \A k \in 1..c : q[k] = s[Q[k]]
  BY <1>1, <1>3, PlacesIncrease
<1> HIDE DEF Q, q, c
<1>8. /\ c \in Nat /\ Q \in [1..c -> pos]
      /\ \A a, b \in 1..c : a < b => Q[a] < Q[b]
      /\ \A x \in pos : \E a \in 1..c : Q[a] = x
  BY <1>7 DEF Increasing
<1>9. /\ P \in [1..Len(s) -> PairedAt] /\ PairedAt \subseteq Int
      /\ \A a, b \in 1..Len(s) : a < b => P[a] < P[b]
      /\ \A x \in PairedAt : \E a \in 1..Len(s) : P[a] = x
      /\ \A k \in 1..Len(s) : s[k][1] = Predicted(P[k]) /\ s[k][2] = Realized(P[k])
  BY <1>1 DEF Listed, Increasing
<1>10. \A k \in 1..c : Q[k] \in 1..Len(s) /\ Q[k] \in pos /\ p[k] = P[Q[k]]
  BY <1>3, <1>5, <1>8
<1>11. \A k \in 1..c : p[k] \in UsableAt
  BY <1>4, <1>9, <1>10 DEF UsableAt
<1>12. p \in [1..c -> UsableAt]
  BY <1>11
<1> HIDE DEF p
<1>13. ASSUME NEW a \in 1..c, NEW b \in 1..c, a < b PROVE p[a] < p[b]
  BY <1>8, <1>9, <1>10, <1>13
<1>14. ASSUME NEW x \in UsableAt PROVE \E a \in 1..c : p[a] = x
  <2>1. x \in PairedAt /\ Predicted(x) > 0
    BY DEF UsableAt
  <2>2. PICK i \in 1..Len(s) : P[i] = x
    BY <1>9, <2>1
  <2>3. i \in pos
    BY <1>4, <1>9, <2>1, <2>2
  <2>4. PICK a \in 1..c : Q[a] = i
    BY <1>8, <2>3
  <2> QED
    BY <1>10, <2>2, <2>4
<1>15. Increasing(p, c, UsableAt)
  <2>1. UsableAt \subseteq Int
    BY <1>9 DEF UsableAt
  <2> QED
    BY <1>8, <1>12, <1>13, <1>14, <2>1 DEF Increasing
<1>16. \A k \in 1..c : q[k][1] = Predicted(p[k]) /\ q[k][2] = Realized(p[k])
  BY <1>7, <1>9, <1>10
<1>17. Listed(q, p, UsableAt)
  BY <1>6, <1>15, <1>16 DEF Listed
<1> QED
  BY <1>2, <1>17

\* A window of listed pairs.
LEMMA RecentListed ==
    ASSUME NEW q, NEW S, NEW p, Listed(q, p, S), NEW n \in Nat
    PROVE  /\ \E w : Listed(Recent(q, n), w, Newest(n, S))
           /\ Len(Recent(q, n)) = Cardinality(Newest(n, S))
<1> DEFINE m == Len(q)
           len == IF m >= n THEN n ELSE m
           r == Recent(q, n)
           w == Latest(p, m, len)
<1>1. q \in Seq(Int \X Int) /\ m \in Nat /\ Increasing(p, m, S)
  BY DEF Listed
<1>2. /\ r \in Seq(Int \X Int) /\ Len(r) = len
      /\ \A i \in 1..len : r[i] = q[m - len + i]
  BY <1>1, RecentWindow
<1>3. \A k \in 1..m : q[k][1] = Predicted(p[k]) /\ q[k][2] = Realized(p[k])
  BY DEF Listed
<1> HIDE DEF m, r
<1>4. len \in 0..m /\ \A k \in 1..len : m - len + k \in 1..m
  BY <1>1
<1>5. (m >= n => len = n) /\ (~(m >= n) => len = m)
  OBVIOUS
<1> HIDE DEF len
<1>6. Increasing(w, len, Newest(n, S)) /\ Cardinality(Newest(n, S)) = len
  <2>1. Increasing(p, m, S)
    BY <1>1
  <2>2. m >= n => len = n
    BY <1>5
  <2>3. ~(m >= n) => len = m
    BY <1>5
  <2> HIDE DEF w
  <2>4. /\ Cardinality(Newest(n, S)) = len
        /\ Increasing(Latest(p, m, len), len, Newest(n, S))
    BY <2>1, <2>2, <2>3, NewestEnumerated
  <2> QED
    BY <2>4 DEF w
<1>7. \A k \in 1..len : r[k][1] = Predicted(w[k]) /\ r[k][2] = Realized(w[k])
  <2> SUFFICES ASSUME NEW k \in 1..len
               PROVE  r[k][1] = Predicted(w[k]) /\ r[k][2] = Realized(w[k])
    OBVIOUS
  <2> DEFINE j == m - len + k
  <2>1. j \in 1..m /\ r[k] = q[j] /\ w[k] = p[j]
    BY <1>2, <1>4 DEF Latest, len
  <2> HIDE DEF j, w
  <2> QED
    BY <1>3, <2>1
<1> HIDE DEF w
<1>8. Listed(r, w, Newest(n, S))
  BY <1>2, <1>6, <1>7 DEF Listed
<1> QED
  BY <1>2, <1>6, <1>8 DEF r

\* The window of pairs and the window of usable pairs.
LEMMA PairWindow ==
    ASSUME DriftInv, NEW n \in Nat
    PROVE  /\ \E w : Listed(Recent(history.pairs, n), w, Newest(n, PairedAt))
           /\ \E w : Listed(Recent(PositivePairs(history), n), w, Newest(n, UsableAt))
           /\ Len(Recent(history.pairs, n)) = Cardinality(Newest(n, PairedAt))
           /\ Len(Recent(PositivePairs(history), n)) = Cardinality(Newest(n, UsableAt))
           /\ Newest(n, PairedAt) \subseteq PairedAt
           /\ Newest(n, UsableAt) \subseteq UsableAt
<1>1. PICK p : Listed(PositivePairs(history), p, UsableAt)
  BY UsableListed
<1>2. Listed(history.pairs, KeptPlaces(PairedAt), PairedAt)
  BY PairsListed
<1>3. Newest(n, PairedAt) \subseteq PairedAt /\ Newest(n, UsableAt) \subseteq UsableAt
  BY DEF Newest
<1>4. /\ \E w : Listed(Recent(history.pairs, n), w, Newest(n, PairedAt))
      /\ Len(Recent(history.pairs, n)) = Cardinality(Newest(n, PairedAt))
  BY <1>2, RecentListed
<1>5. /\ \E w : Listed(Recent(PositivePairs(history), n), w, Newest(n, UsableAt))
      /\ Len(Recent(PositivePairs(history), n)) = Cardinality(Newest(n, UsableAt))
  BY <1>1, RecentListed
<1> QED
  BY <1>3, <1>4, <1>5

\* What the drawdown guard adds up.
LEMMA SlippageAddsUp ==
    ASSUME DriftInv, NEW n \in Nat
    PROVE  AddsUp(Slippage(history, n), Losses, Newest(n, PairedAt))
<1> DEFINE r == Recent(history.pairs, n)
           s == [i \in DOMAIN r |-> r[i][1] - r[i][2]]
           W == Newest(n, PairedAt)
<1>1. PICK w : Listed(r, w, W)
  BY PairWindow
<1>2. W \subseteq PairedAt
  BY PairWindow
<1>3. /\ r \in Seq(Int \X Int) /\ Increasing(w, Len(r), W)
      /\ \A k \in 1..Len(r) : r[k][1] = Predicted(w[k]) /\ r[k][2] = Realized(w[k])
  BY <1>1 DEF Listed
<1>4. Reverse(s) = Slippage(history, n)
  BY DEF Slippage
<1> HIDE DEF r, W
<1>5. /\ DOMAIN r = 1..Len(r) /\ Len(r) \in Nat
      /\ \A k \in 1..Len(r) : r[k][1] \in Int /\ r[k][2] \in Int
  BY <1>3
<1>6. s \in Seq(Int) /\ Len(s) = Len(r) /\ \A k \in 1..Len(r) : s[k] = r[k][1] - r[k][2]
  BY <1>5
<1>7. \A k \in 1..Len(r) : w[k] \in W
  BY <1>3 DEF Increasing
<1>8. \A k \in 1..Len(s) : s[k] = Losses[w[k]]
  BY <1>2, <1>3, <1>6, <1>7 DEF Losses
<1> HIDE DEF s
<1>9. s \in Seq(Int)
  BY <1>6
<1>10. Increasing(w, Len(s), W)
  BY <1>3, <1>6
<1>11. AddsUp(Reverse(s), Losses, W)
  BY <1>8, <1>9, <1>10, WindowSums
<1> QED
  BY <1>4, <1>11 DEF W

\* What the volume-weighted guard adds up.
LEMMA PredictedAddsUp ==
    ASSUME DriftInv, NEW n \in Nat
    PROVE  AddsUp(Volume(history, n, 1), Predictions, Newest(n, UsableAt))
<1> DEFINE r == Recent(PositivePairs(history), n)
           s == [i \in DOMAIN r |-> r[i][1]]
           W == Newest(n, UsableAt)
<1>1. PICK w : Listed(r, w, W)
  BY PairWindow
<1>2. W \subseteq UsableAt
  BY PairWindow
<1>3. /\ r \in Seq(Int \X Int) /\ Increasing(w, Len(r), W)
      /\ \A k \in 1..Len(r) : r[k][1] = Predicted(w[k]) /\ r[k][2] = Realized(w[k])
  BY <1>1 DEF Listed
<1>4. Reverse(s) = Volume(history, n, 1)
  BY DEF Volume
<1> HIDE DEF r, W
<1>5. /\ DOMAIN r = 1..Len(r) /\ Len(r) \in Nat
      /\ \A k \in 1..Len(r) : r[k][1] \in Int /\ r[k][2] \in Int
  BY <1>3
<1>6. s \in Seq(Int) /\ Len(s) = Len(r) /\ \A k \in 1..Len(r) : s[k] = r[k][1]
  BY <1>5
<1>7. \A k \in 1..Len(r) : w[k] \in W
  BY <1>3 DEF Increasing
<1>8. \A k \in 1..Len(s) : s[k] = Predictions[w[k]]
  BY <1>2, <1>3, <1>6, <1>7 DEF Predictions
<1> HIDE DEF s
<1>9. s \in Seq(Int)
  BY <1>6
<1>10. Increasing(w, Len(s), W)
  BY <1>3, <1>6
<1>11. AddsUp(Reverse(s), Predictions, W)
  BY <1>8, <1>9, <1>10, WindowSums
<1> QED
  BY <1>4, <1>11 DEF W

\* What the volume-weighted guard adds up.
LEMMA RealizedAddsUp ==
    ASSUME DriftInv, NEW n \in Nat
    PROVE  AddsUp(Volume(history, n, 2), Profits, Newest(n, UsableAt))
<1> DEFINE r == Recent(PositivePairs(history), n)
           s == [i \in DOMAIN r |-> r[i][2]]
           W == Newest(n, UsableAt)
<1>1. PICK w : Listed(r, w, W)
  BY PairWindow
<1>2. W \subseteq UsableAt
  BY PairWindow
<1>3. /\ r \in Seq(Int \X Int) /\ Increasing(w, Len(r), W)
      /\ \A k \in 1..Len(r) : r[k][1] = Predicted(w[k]) /\ r[k][2] = Realized(w[k])
  BY <1>1 DEF Listed
<1>4. Reverse(s) = Volume(history, n, 2)
  BY DEF Volume
<1> HIDE DEF r, W
<1>5. /\ DOMAIN r = 1..Len(r) /\ Len(r) \in Nat
      /\ \A k \in 1..Len(r) : r[k][1] \in Int /\ r[k][2] \in Int
  BY <1>3
<1>6. s \in Seq(Int) /\ Len(s) = Len(r) /\ \A k \in 1..Len(r) : s[k] = r[k][2]
  BY <1>5
<1>7. \A k \in 1..Len(r) : w[k] \in W
  BY <1>3 DEF Increasing
<1>8. \A k \in 1..Len(s) : s[k] = Profits[w[k]]
  BY <1>2, <1>3, <1>6, <1>7 DEF Profits
<1> HIDE DEF s
<1>9. s \in Seq(Int)
  BY <1>6
<1>10. Increasing(w, Len(s), W)
  BY <1>3, <1>6
<1>11. AddsUp(Reverse(s), Profits, W)
  BY <1>8, <1>9, <1>10, WindowSums
<1> QED
  BY <1>4, <1>11 DEF W

\* The ratios r are those of the timeline at the indices W, in order.
RatiosAt(r, w, W) ==
    /\ Increasing(w, Len(r), W)
    /\ \A k \in 1..Len(r) : r[k] = <<Realized(w[k]), Predicted(w[k])>>

\* The window of a ratio guard.
LEMMA RatiosListed ==
    ASSUME DriftInv, NEW n \in Nat, NEW W, W = Newest(n, UsableAt),
           NEW r, r = recent_ratios(history, n)
    PROVE  /\ r \in Seq(Fraction) /\ Len(r) = Cardinality(W)
           /\ \E w : RatiosAt(r, w, W)
<1> DEFINE s == Recent(PositivePairs(history), n)
<1>1. PICK w : Listed(s, w, W)
  BY PairWindow
<1>2. Len(s) = Cardinality(W)
  BY PairWindow
<1>3. /\ s \in Seq(Int \X Int) /\ Increasing(w, Len(s), W)
      /\ \A k \in 1..Len(s) : s[k][1] = Predicted(w[k]) /\ s[k][2] = Realized(w[k])
  BY <1>1 DEF Listed
<1>4. r = [i \in DOMAIN s |-> <<s[i][2], s[i][1]>>]
  BY DEF recent_ratios, Ratio
<1> HIDE DEF s
<1>5. Len(r) = Len(s) /\ \A k \in 1..Len(r) : r[k] = <<s[k][2], s[k][1]>>
  BY <1>3, <1>4
<1>6. r \in Seq(Fraction)
  <2>1. history.pairs \in Seq(Int \X Int)
    BY PairsListed
  <2> QED
    BY <2>1, RatiosAreFractions
<1> QED
  BY <1>2, <1>3, <1>5, <1>6 DEF RatiosAt

\* The fast guard.
LEMMA FastMeans ==
    ASSUME DriftInv
    PROVE  FastHalt(Policy, history) <=> RefFast
<1> DEFINE n == Policy.fast.window
           T == Policy.fast.threshold
           W == Newest(n, UsableAt)
           r == recent_ratios(history, n)
<1>1. n \in Nat
  BY PolicyAssumption DEF IsPolicy
<1> HIDE DEF n
<1>2. r \in Seq(Fraction) /\ Len(r) = Cardinality(W)
  BY <1>1, RatiosListed
<1>0. PICK w : RatiosAt(r, w, W)
  BY <1>1, RatiosListed
<1>3. /\ Increasing(w, Len(r), W)
      /\ \A k \in 1..Len(r) : r[k] = <<Realized(w[k]), Predicted(w[k])>>
  BY <1>0 DEF RatiosAt
<1>4. FastHalt(Policy, history) <=> /\ Len(r) = n
                                    /\ \A i \in DOMAIN r : Less(r[i], T)
  BY DEF FastHalt, n
<1>5. RefFast <=> /\ Cardinality(W) = n
                  /\ \A i \in W : Realized(i) * T[2] < T[1] * Predicted(i)
  BY DEF RefFast, n
<1> HIDE DEF r, W, T
<1>6. /\ \A k \in 1..Len(r) : w[k] \in W
      /\ \A x \in W : \E k \in 1..Len(r) : w[k] = x
  BY <1>3 DEF Increasing
<1>7. \A k \in 1..Len(r) :
          Less(r[k], T) <=> Realized(w[k]) * T[2] < T[1] * Predicted(w[k])
  BY <1>3 DEF Less
<1>8. DOMAIN r = 1..Len(r)
  BY <1>2
<1> QED
  BY <1>2, <1>4, <1>5, <1>6, <1>7, <1>8

\* The slow guard.
LEMMA SlowMeans ==
    ASSUME DriftInv
    PROVE  SlowHalt(Policy, history) <=> RefSlow
<1> DEFINE n == Policy.slow.window
           T == Policy.slow.threshold
           W == Newest(n, UsableAt)
           r == recent_ratios(history, n)
           scaled == [i \in W |-> Realized(i) * Product(W \ {i})]
<1>1. n \in Nat /\ n # 0
  BY PolicyAssumption DEF IsPolicy
<1> HIDE DEF n
<1>2. r \in Seq(Fraction) /\ Len(r) = Cardinality(W)
  BY <1>1, RatiosListed
<1>0. PICK w : RatiosAt(r, w, W)
  BY <1>1, RatiosListed
<1>3. /\ Increasing(w, Len(r), W)
      /\ \A k \in 1..Len(r) : r[k] = <<Realized(w[k]), Predicted(w[k])>>
  BY <1>0 DEF RatiosAt
<1>4. SlowHalt(Policy, history) <=> Len(r) = n /\ Less(Mean(r), T)
  BY DEF SlowHalt, n
<1>5. RefSlow <=> /\ Cardinality(W) = n
                  /\ SumFunction(scaled) * T[2] < T[1] * (Product(W) * n)
  BY DEF RefSlow, n
<1>6. W \subseteq UsableAt
  BY DEF Newest
<1> HIDE DEF r, W, T
<1>7. /\ Product(W) = ProductOf(Predictions, W)
      /\ SumFunction(scaled) = Numerator(Profits, Predictions, W)
  <2>1. \A i \in W : Profits[i] = Realized(i)
    BY <1>6 DEF Profits
  <2>2. scaled = Scaled(Profits, Predictions, W)
    BY <2>1 DEF Scaled, Product, ProductOf
  <2>3. DOMAIN scaled = W
    OBVIOUS
  <2> HIDE DEF scaled
  <2> QED
    BY <2>2, <2>3 DEF SumFunction, Numerator, Product, ProductOf
<1> HIDE DEF scaled
<1>8. ASSUME Len(r) = n
      PROVE  Mean(r) = <<Numerator(Profits, Predictions, W),
                         ProductOf(Predictions, W) * n>>
  <2>1. Enumerates(w, Len(r), W) /\ Len(r) # 0
    BY <1>1, <1>3, <1>8, IncreasingEnumerates
  <2>2. \A k \in 1..Len(r) : w[k] \in W
    BY <2>1 DEF Enumerates
  <2>3. \A k \in 1..Len(r) : r[k][1] = Profits[w[k]] /\ r[k][2] = Predictions[w[k]]
    BY <1>3, <1>6, <2>2 DEF Profits, Predictions
  <2>4. Mean(r) = <<Numerator(Profits, Predictions, W),
                    ProductOf(Predictions, W) * Len(r)>>
    BY <1>2, <2>1, <2>3, MeanEnumerated
  <2> QED
    BY <1>8, <2>4
<1>9. Len(r) = n => (Less(Mean(r), T) <=>
          SumFunction(scaled) * T[2] < T[1] * (Product(W) * n))
  BY <1>7, <1>8 DEF Less
<1> QED
  BY <1>2, <1>4, <1>5, <1>9

\* The place, among the last len of L positions, of one of them.
LEMMA PlaceAmongLast ==
    ASSUME NEW L \in Int, NEW len \in Int, NEW i \in Int, i <= L, i > L - len
    PROVE  i - (L - len) \in 1..len /\ L - len + (i - (L - len)) = i
  OBVIOUS

\* The n newest of all entries are the last n.
LEMMA NewestSettled ==
    ASSUME DriftInv, NEW n \in Nat, NEW L, L = Len(history.timeline),
           NEW len, L >= n => len = n, ~(L >= n) => len = L
    PROVE  /\ Settled = 1..L /\ L \in Nat /\ len \in 0..L
           /\ Cardinality(Newest(n, Settled)) = len
           /\ Newest(n, Settled) = {i \in 1..L : i > L - len}
<1> DEFINE p == [k \in 1..L |-> k]
           w == Latest(p, L, len)
           W == Newest(n, Settled)
<1>1. Settled = 1..L /\ L \in Nat
  BY DEF DriftInv, Typed, HistoryOf, Settled
<1>2. Increasing(p, L, Settled)
  BY <1>1 DEF Increasing
<1> HIDE DEF p
<1>3. Cardinality(W) = len /\ Increasing(w, len, W)
  <2> HIDE DEF w
  <2>1. /\ Cardinality(Newest(n, Settled)) = len
        /\ Increasing(Latest(p, L, len), len, Newest(n, Settled))
    BY <1>2, NewestEnumerated
  <2> QED
    BY <2>1 DEF w
<1>4. len \in 0..L
  BY <1>1
<1>5. \A k \in 1..len : w[k] = L - len + k
  <2> SUFFICES ASSUME NEW k \in 1..len PROVE w[k] = L - len + k
    OBVIOUS
  <2>1. L - len + k \in 1..L
    BY <1>1, <1>4
  <2> QED
    BY <2>1 DEF Latest, p
<1> HIDE DEF w
<1>6. W = {i \in 1..L : i > L - len}
  <2>1. /\ w \in [1..len -> W] /\ \A x \in W : \E k \in 1..len : w[k] = x
    BY <1>3 DEF Increasing
  <2>2. ASSUME NEW x \in W PROVE x \in 1..L /\ x > L - len
    <3>1. PICK k \in 1..len : x = L - len + k
      BY <1>5, <2>1
    <3> QED
      BY <1>1, <1>4, <3>1
  <2>3. ASSUME NEW i \in 1..L, i > L - len PROVE i \in W
    <3> DEFINE k == i - (L - len)
    <3>0. L \in Int /\ len \in Int /\ i \in Int /\ i <= L /\ i > L - len
      BY <1>1, <1>4, <2>3
    <3>1. k \in 1..len /\ L - len + k = i
      BY <3>0, PlaceAmongLast
    <3> HIDE DEF k
    <3>2. w[k] = i
      BY <1>5, <3>1
    <3> QED
      BY <2>1, <3>1, <3>2
  <2> QED
    BY <2>2, <2>3
<1> QED
  BY <1>1, <1>3, <1>4, <1>6

\* The last n entries are reverts exactly when at least n reverts are counted.
LEMMA RunMeans ==
    ASSUME DriftInv, NEW n \in Nat \ {0}
    PROVE  consecutive_reverts(history) >= n
             <=> /\ Cardinality(Newest(n, Settled)) = n
                 /\ Newest(n, Settled) \subseteq RevertedAt
<1> DEFINE t == history.timeline
           L == Len(t)
           W == Newest(n, Settled)
           len == IF L >= n THEN n ELSE L
<1>1. t \in Seq(Entries) /\ L \in Nat
  BY DEF DriftInv, Typed, HistoryOf
<1>2. consecutive_reverts(history) >= n <=>
          /\ n <= L
          /\ \A i \in 1..L : i > L - n => ~IsPair(t[i])
  BY <1>1, BurstMeans
<1>3. (L >= n => len = n) /\ (~(L >= n) => len = L)
  OBVIOUS
<1> HIDE DEF len
<1>4. Settled = 1..L /\ Cardinality(W) = len /\ W = {i \in 1..L : i > L - len}
  <2>1. L >= n => len = n
    BY <1>3
  <2>2. ~(L >= n) => len = L
    BY <1>3
  <2>3. n \in Nat
    OBVIOUS
  <2> HIDE DEF L
  <2>4. L = Len(history.timeline)
    BY DEF L
  <2> QED
    BY <2>1, <2>2, <2>3, <2>4, NewestSettled
<1>5. \A i \in 1..L : ~IsPair(t[i]) <=> i \in RevertedAt
  <2>1. \A i \in 1..L : t[i] \in Entries
    BY <1>1
  <2>2. Settled = 1..L
    BY <1>4
  <2> QED
    BY <2>1, <2>2, EntriesTagged DEF Tagged, RevertedAt, Timeline
<1> HIDE DEF L, W, t
<1>6. Cardinality(W) = n <=> n <= L
  BY <1>1, <1>3, <1>4
<1>7. ASSUME n <= L
      PROVE  W \subseteq RevertedAt <=> \A i \in 1..L : i > L - n => ~IsPair(t[i])
  <2>1. W = {i \in 1..L : i > L - n}
    BY <1>1, <1>3, <1>4, <1>7
  <2> QED
    BY <1>5, <2>1
<1> QED
  BY <1>2, <1>6, <1>7 DEF W

\* The burst guard.
LEMMA BurstIsRef ==
    ASSUME DriftInv
    PROVE  RevertBurstHalt(Policy, history) <=> RefBurst
<1>1. ASSUME NEW burst \in Policy.revert_burst
      PROVE  consecutive_reverts(history) >= burst.limit
               <=> /\ Cardinality(Newest(burst.limit, Settled)) = burst.limit
                   /\ Newest(burst.limit, Settled) \subseteq RevertedAt
  <2>1. burst.limit \in Nat \ {0}
    BY PolicyAssumption DEF IsPolicy
  <2> QED
    BY <2>1, RunMeans
<1> QED
  BY <1>1 DEF RevertBurstHalt, RefBurst

\* What the gas guard adds up.
LEMMA FeesAddUp ==
    ASSUME DriftInv, NEW n \in Nat
    PROVE  AddsUp(RecentFees(history, n), Fees, RevertedAmong(n))
<1> DEFINE t == history.timeline
           L == Len(t)
           len == IF L >= n THEN n ELSE L
           e == Recent(t, n)
           K == {i \in DOMAIN e : IsRevert(e[i])}
           v == ElementsAt(e, K)
           s == [i \in DOMAIN v |-> FeeBurned(v[i].event)]
           c == Cardinality(K)
           P == KeptPlaces(K)
           W == RevertedAmong(n)
           w == [k \in 1..c |-> L - len + P[k]]
<1>1. t \in Seq(Entries) /\ L \in Nat
  BY DEF DriftInv, Typed, HistoryOf
<1>2. Reverse(s) = RecentFees(history, n)
  BY DEF RecentFees
<1>3. /\ e \in Seq(Entries) /\ Len(e) = len
      /\ \A i \in 1..len : e[i] = t[L - len + i]
  BY <1>1, RecentWindow
<1>4. (L >= n => len = n) /\ (~(L >= n) => len = L)
  OBVIOUS
<1> HIDE DEF e, len
<1>5. /\ Settled = 1..L /\ len \in 0..L
      /\ Newest(n, Settled) = {i \in 1..L : i > L - len}
  <2>1. L >= n => len = n
    BY <1>4
  <2>2. ~(L >= n) => len = L
    BY <1>4
  <2>3. L = Len(history.timeline)
    OBVIOUS
  <2> HIDE DEF L
  <2> QED
    BY <2>1, <2>2, <2>3, NewestSettled
<1>6. W = {i \in 1..L : i > L - len /\ IsRevert(t[i])}
  BY <1>5 DEF RevertedAmong, RevertedAt, Timeline
<1>7. K \in SUBSET DOMAIN e /\ \A i \in 1..len : i \in K <=> IsRevert(e[i])
  BY <1>3
<1>8. DOMAIN e = 1..len
  BY <1>1, <1>3
<1> HIDE DEF K, W
<1>9. v \in Seq(Entries) /\ Len(v) = c
  BY <1>3, <1>7, ElementsAtType
<1>10. Increasing(P, c, K) /\ \A k \in 1..c : v[k] = e[P[k]]
  BY <1>3, <1>7, PlacesIncrease
<1> HIDE DEF v, P, c
<1>11. /\ c \in Nat /\ P \in [1..c -> K]
       /\ \A a, b \in 1..c : a < b => P[a] < P[b]
       /\ \A x \in K : \E a \in 1..c : P[a] = x
  BY <1>10 DEF Increasing
<1>12. ASSUME NEW i \in 1..len
       PROVE  /\ L - len + i \in 1..L /\ L - len + i > L - len
              /\ e[i] = t[L - len + i]
              /\ i \in K <=> L - len + i \in W
  <2>1. L - len + i \in 1..L /\ L - len + i > L - len
    BY <1>1, <1>5
  <2> DEFINE j == L - len + i
  <2>2. e[i] = t[j] /\ j \in 1..L /\ j > L - len
    BY <1>3, <2>1
  <2> HIDE DEF j
  <2>3. i \in K <=> j \in W
    BY <1>6, <1>7, <2>2
  <2> QED
    BY <2>1, <2>2, <2>3 DEF j
<1>13. ASSUME NEW k \in 1..c
       PROVE  /\ P[k] \in 1..len /\ w[k] = L - len + P[k] /\ w[k] \in W
              /\ v[k] = t[w[k]]
  <2>1. P[k] \in K /\ P[k] \in 1..len
    BY <1>7, <1>8, <1>11
  <2> QED
    BY <1>10, <1>12, <2>1
<1>14. w \in [1..c -> W]
  BY <1>13
<1> HIDE DEF w
<1>15. ASSUME NEW a \in 1..c, NEW b \in 1..c, a < b PROVE w[a] < w[b]
  <2>1. P[a] < P[b] /\ P[a] \in Int /\ P[b] \in Int
    BY <1>11, <1>13, <1>15
  <2>2. w[a] = L - len + P[a] /\ w[b] = L - len + P[b] /\ len \in Int
    BY <1>5, <1>13
  <2> QED
    BY <1>1, <2>1, <2>2
<1>16. ASSUME NEW x \in W PROVE \E a \in 1..c : w[a] = x
  <2> DEFINE i == x - (L - len)
  <2>1. x \in 1..L /\ x > L - len
    BY <1>6
  <2>0. L \in Int /\ len \in Int /\ x \in Int /\ x <= L
    BY <1>1, <1>5, <2>1
  <2> HIDE DEF L
  <2>2. i \in 1..len /\ L - len + i = x
    BY <2>0, <2>1
  <2> HIDE DEF i
  <2>3. i \in K
    BY <1>12, <2>2
  <2>4. PICK a \in 1..c : P[a] = i
    BY <1>11, <2>3
  <2> QED
    BY <1>13, <2>2, <2>4
<1>17. Increasing(w, c, W)
  <2>1. W \subseteq Int
    BY <1>6
  <2> QED
    BY <1>11, <1>14, <1>15, <1>16, <2>1 DEF Increasing
<1>18. ASSUME NEW k \in 1..c
       PROVE  FeeBurned(v[k].event) \in Int /\ Fees[w[k]] = FeeBurned(v[k].event)
  <2>1. w[k] \in W /\ v[k] = t[w[k]]
    BY <1>13
  <2>2. w[k] \in RevertedAt /\ IsRevert(v[k]) /\ w[k] \in 1..L
    BY <1>5, <1>6, <2>1 DEF RevertedAt, Timeline
  <2>3. v[k] \in Entries
    BY <1>9
  <2>4. v[k].event \in Events
    <3>1. PICK event \in Events : v[k] = RevertedTx(event)
      BY <2>2, <2>3, EntryKinds DEF Entries
    <3> QED
      BY <3>1, EntryKinds
  <2>5. FeeBurned(v[k].event) \in Int
    BY <2>4, EventsAssumption
  <2> QED
    BY <2>1, <2>2, <2>5 DEF Fees, Timeline
<1>19. /\ DOMAIN v = 1..c
       /\ s \in Seq(Int) /\ Len(s) = c /\ \A k \in 1..c : s[k] = FeeBurned(v[k].event)
  <2>1. DOMAIN v = 1..c
    BY <1>9
  <2>2. s = [k \in 1..c |-> FeeBurned(v[k].event)]
    BY <2>1
  <2> HIDE DEF s
  <2> QED
    BY <1>11, <1>18, <2>1, <2>2
<1> HIDE DEF s
<1>20. \A k \in 1..Len(s) : s[k] = Fees[w[k]]
  BY <1>18, <1>19
<1>21. Increasing(w, Len(s), W)
  BY <1>17, <1>19
<1>22. s \in Seq(Int)
  BY <1>19
<1>23. AddsUp(Reverse(s), Fees, W)
  BY <1>20, <1>21, <1>22, WindowSums
<1> QED
  BY <1>2, <1>23 DEF W

\* The gas guard, unless its sum overflows.
LEMMA GasMeans ==
    ASSUME DriftInv
    PROVE  /\ RevertGasOverflows(Policy, history) => RefOverflow
           /\ ~RevertGasOverflows(Policy, history)
                => (RevertGasHalt(Policy, history) <=> RefGas)
<1>1. ASSUME NEW gas \in Policy.revert_gas
      PROVE  AddsUp(RecentFees(history, gas.window), Fees, RevertedAmong(gas.window))
  <2>1. gas.window \in Nat
    BY PolicyAssumption DEF IsPolicy
  <2> QED
    BY <2>1, FeesAddUp
<1>2. ASSUME NEW gas \in Policy.revert_gas,
             SumOverflows(RecentFees(history, gas.window), FitsU128)
      PROVE  RefOverflow
  <2>1. Leaves(Fees, RevertedAmong(gas.window), FitsU128)
    BY <1>1, <1>2, SumsLeave
  <2> QED
    BY <2>1 DEF RefOverflow
<1>3. ASSUME NEW gas \in Policy.revert_gas,
             ~SumOverflows(RecentFees(history, gas.window), FitsU128)
      PROVE  U128(SumSeq(RecentFees(history, gas.window)))
               = SumFunctionOnSet(Fees, RevertedAmong(gas.window))
  BY <1>1, <1>3, SumsLeave
<1> QED
  BY <1>2, <1>3 DEF RevertGasOverflows, RevertGasHalt, RefGas

\* The drawdown guard, unless its sum overflows.
LEMMA DrawdownMeans ==
    ASSUME DriftInv
    PROVE  /\ DrawdownOverflows(Policy, history) => RefOverflow
           /\ ~DrawdownOverflows(Policy, history)
                => (DrawdownHalt(Policy, history) <=> RefDrawdown)
<1> DEFINE W(dd) == Newest(dd.window, PairedAt)
<1>1. ASSUME NEW dd \in Policy.drawdown
      PROVE  AddsUp(Slippage(history, dd.window), Losses, W(dd))
  <2>1. dd.window \in Nat
    BY PolicyAssumption DEF IsPolicy
  <2> QED
    BY <2>1, SlippageAddsUp
<1>2. ASSUME NEW dd \in Policy.drawdown,
             SumOverflows(Slippage(history, dd.window), FitsI128)
      PROVE  RefOverflow
  <2>1. Leaves(Losses, W(dd), FitsI128)
    BY <1>1, <1>2, SumsLeave
  <2> QED
    BY <2>1 DEF RefOverflow
<1>3. ASSUME NEW dd \in Policy.drawdown
      PROVE  Len(Slippage(history, dd.window)) = Cardinality(W(dd))
  BY <1>1, SumsLeave
<1>4. ASSUME NEW dd \in Policy.drawdown,
             ~SumOverflows(Slippage(history, dd.window), FitsI128)
      PROVE  I128(SumSeq(Slippage(history, dd.window)))
               = SumFunctionOnSet(Losses, W(dd))
  BY <1>1, <1>4, SumsLeave
<1>5. RefDrawdown <=> \E dd \in Policy.drawdown :
          /\ Cardinality(W(dd)) = dd.window
          /\ SumFunctionOnSet(Losses, W(dd)) > dd.max_drawdown_limit
  BY DEF RefDrawdown
<1> HIDE DEF W
<1> QED
  BY <1>2, <1>3, <1>4, <1>5 DEF DrawdownOverflows, DrawdownHalt

\* A sum of positive amounts is positive.
LEMMA SumPositive ==
    ASSUME NEW s \in Seq(Int), Len(s) # 0, \A k \in 1..Len(s) : s[k] > 0
    PROVE  SumSeq(s) > 0
<1> DEFINE n == Len(s)
           p == PartialSums(s)
           I == {i \in 0..n : i = 0 \/ p[i] > 0}
<1>1. /\ n \in Nat /\ n # 0 /\ p[0] = 0 /\ SumSeq(s) = p[n]
      /\ \A i \in 1..n : p[i] = p[i - 1] + s[i] /\ s[i] > 0 /\ s[i] \in Int
      /\ \A i \in 0..n : p[i] \in Int
  BY SumLoop
<1> HIDE DEF n, p
<1>2. 0 \in I
  BY <1>1
<1>3. ASSUME NEW i \in 1..n, i - 1 \in I PROVE i \in I
  <2> DEFINE j == i - 1
  <2>3. j \in 0..n /\ i \in 0..n /\ (j = 0 \/ p[j] > 0)
    BY <1>1, <1>3
  <2> HIDE DEF j
  <2>4. p[j] \in Int
    BY <1>1, <2>3
  <2>5. p[j] >= 0
    BY <1>1, <2>3, <2>4
  <2>1. p[i] = p[j] + s[i] /\ s[i] > 0 /\ s[i] \in Int
    BY <1>1 DEF j
  <2>2. p[i] > 0
    BY <2>1, <2>4, <2>5
  <2> QED
    BY <2>2, <2>3
<1> HIDE DEF I
<1>4. \A i \in 0..n : i \in I
  BY <1>1, <1>2, <1>3, RangeInduction
<1>5. n \in I
  BY <1>1, <1>4
<1> QED
  BY <1>1, <1>5 DEF I

\* The volume-weighted guard, unless one of its sums overflows.
LEMMA VolumeWeightedMeans ==
    ASSUME DriftInv
    PROVE  /\ VolumeWeightedOverflows(Policy, history) => RefOverflow
           /\ ~VolumeWeightedOverflows(Policy, history)
                => (VolumeWeightedHalt(Policy, history) <=> RefVolumeWeighted)
<1> DEFINE W(vw) == Newest(vw.window, UsableAt)
           A(vw) == Volume(history, vw.window, 1)
           B(vw) == Volume(history, vw.window, 2)
<1>1. ASSUME NEW vw \in Policy.volume_weighted
      PROVE  /\ AddsUp(A(vw), Predictions, W(vw)) /\ AddsUp(B(vw), Profits, W(vw))
             /\ vw.window \in Nat \ {0}
  <2>1. vw.window \in Nat \ {0}
    BY PolicyAssumption DEF IsPolicy
  <2> QED
    BY <2>1, PredictedAddsUp, RealizedAddsUp
<1>2. ASSUME NEW vw \in Policy.volume_weighted,
             SumOverflows(A(vw), FitsI128) \/ SumOverflows(B(vw), FitsI128)
      PROVE  RefOverflow
  <2>1. Leaves(Predictions, W(vw), FitsI128) \/ Leaves(Profits, W(vw), FitsI128)
    BY <1>1, <1>2, SumsLeave
  <2> QED
    BY <2>1 DEF RefOverflow
<1>3. ASSUME NEW vw \in Policy.volume_weighted
      PROVE  Len(A(vw)) = Cardinality(W(vw))
  BY <1>1, SumsLeave
<1>4. ASSUME NEW vw \in Policy.volume_weighted,
             ~SumOverflows(A(vw), FitsI128), ~SumOverflows(B(vw), FitsI128)
      PROVE  /\ I128(SumSeq(A(vw))) = SumFunctionOnSet(Predictions, W(vw))
             /\ I128(SumSeq(B(vw))) = SumFunctionOnSet(Profits, W(vw))
  BY <1>1, <1>4, SumsLeave
<1>5. ASSUME NEW vw \in Policy.volume_weighted, Cardinality(W(vw)) = vw.window
      PROVE  SumFunctionOnSet(Predictions, W(vw)) > 0
  <2> DEFINE z == A(vw)
  <2>1. /\ SumSeq(z) = SumFunctionOnSet(Predictions, W(vw))
        /\ \A k \in 1..Len(z) : \E i \in W(vw) : z[k] = Predictions[i]
        /\ z \in Seq(Int) /\ Cardinality(W(vw)) = Len(z)
    BY <1>1 DEF AddsUp
  <2>2. \A i \in W(vw) : Predictions[i] > 0
    BY DEF Newest, Predictions, UsableAt
  <2> HIDE DEF z
  <2>3. Len(z) # 0 /\ \A k \in 1..Len(z) : z[k] > 0
    BY <1>1, <1>5, <2>1, <2>2
  <2>4. SumSeq(z) > 0
    BY <2>1, <2>3, SumPositive
  <2> QED
    BY <2>1, <2>4
<1>6. RefVolumeWeighted <=> \E vw \in Policy.volume_weighted :
          /\ Cardinality(W(vw)) = vw.window
          /\ SumFunctionOnSet(Profits, W(vw)) * vw.threshold[2]
               < vw.threshold[1] * SumFunctionOnSet(Predictions, W(vw))
  BY DEF RefVolumeWeighted
<1>7. VolumeWeightedHalt(Policy, history) <=> \E vw \in Policy.volume_weighted :
          /\ Len(A(vw)) = vw.window
          /\ I128(SumSeq(A(vw))) > 0
          /\ I128(SumSeq(B(vw))) * vw.threshold[2]
               < vw.threshold[1] * I128(SumSeq(A(vw)))
  BY DEF VolumeWeightedHalt, Less
<1>8. VolumeWeightedOverflows(Policy, history) <=> \E vw \in Policy.volume_weighted :
          /\ Len(A(vw)) = vw.window
          /\ SumOverflows(A(vw), FitsI128) \/ SumOverflows(B(vw), FitsI128)
  BY DEF VolumeWeightedOverflows
<1> HIDE DEF W, A, B
<1> QED
  BY <1>2, <1>3, <1>4, <1>5, <1>6, <1>7, <1>8

\* No guard decides on a wrapped sum: the build checks for overflow, or the
\* history is such that no sum overflows.
SumsHold == OverflowChecks \/ ~RefOverflow

\* A check that does not panic trips exactly when its condition holds.
LEMMA ChecksMean ==
    ASSUME DriftInv, SumsHold, NEW c, c = Checks(Policy, history)
    PROVE  /\ Len(c) = 6
           /\ c[1].reason = "RevertBurst" /\ c[2].reason = "RevertGasBudgetExceeded"
           /\ c[3].reason = "FastGuard" /\ c[4].reason = "NetDrawdownExceeded"
           /\ c[5].reason = "VolumeWeightedDrift" /\ c[6].reason = "SlowGuard"
           /\ \A i \in 1..6 : Panics(c[i]) => RefOverflow
           /\ ~Panics(c[1]) => (c[1].tripped <=> RefBurst)
           /\ ~Panics(c[2]) => (c[2].tripped <=> RefGas)
           /\ ~Panics(c[3]) => (c[3].tripped <=> RefFast)
           /\ ~Panics(c[4]) => (c[4].tripped <=> RefDrawdown)
           /\ ~Panics(c[5]) => (c[5].tripped <=> RefVolumeWeighted)
           /\ ~Panics(c[6]) => (c[6].tripped <=> RefSlow)
           /\ ~Panics(c[2]) => ~RevertGasOverflows(Policy, history)
           /\ ~Panics(c[4]) => ~DrawdownOverflows(Policy, history)
           /\ ~Panics(c[5]) => ~VolumeWeightedOverflows(Policy, history)
<1>1. Len(c) = 6
  BY DEF Checks
<1>2. /\ c[1].reason = "RevertBurst" /\ c[2].reason = "RevertGasBudgetExceeded"
      /\ c[3].reason = "FastGuard" /\ c[4].reason = "NetDrawdownExceeded"
      /\ c[5].reason = "VolumeWeightedDrift" /\ c[6].reason = "SlowGuard"
  BY DEF Checks, Check
<1>3. /\ c[1].tripped = RevertBurstHalt(Policy, history)
      /\ c[2].tripped = RevertGasHalt(Policy, history)
      /\ c[3].tripped = FastHalt(Policy, history)
      /\ c[4].tripped = DrawdownHalt(Policy, history)
      /\ c[5].tripped = VolumeWeightedHalt(Policy, history)
      /\ c[6].tripped = SlowHalt(Policy, history)
  BY DEF Checks, Check
<1>4. /\ c[1].overflows = FALSE
      /\ c[2].overflows = RevertGasOverflows(Policy, history)
      /\ c[3].overflows = FALSE
      /\ c[4].overflows = DrawdownOverflows(Policy, history)
      /\ c[5].overflows = VolumeWeightedOverflows(Policy, history)
      /\ c[6].overflows = FALSE
  BY DEF Checks, Check
<1>5. \A i \in 1..6 : i = 1 \/ i = 2 \/ i = 3 \/ i = 4 \/ i = 5 \/ i = 6
  OBVIOUS
<1>6. \A i \in 1..6 : Panics(c[i]) => RefOverflow
  BY <1>4, <1>5, GasMeans, DrawdownMeans, VolumeWeightedMeans, Zenon DEF Panics
<1>7. /\ c[1].tripped <=> RefBurst
      /\ c[3].tripped <=> RefFast
      /\ c[6].tripped <=> RefSlow
  BY <1>3, BurstIsRef, FastMeans, SlowMeans, Zenon
<1>8. /\ ~Panics(c[2]) => ~RevertGasOverflows(Policy, history)
      /\ ~Panics(c[4]) => ~DrawdownOverflows(Policy, history)
      /\ ~Panics(c[5]) => ~VolumeWeightedOverflows(Policy, history)
  BY <1>4, GasMeans, DrawdownMeans, VolumeWeightedMeans, Zenon DEF Panics, SumsHold
<1>9. /\ ~Panics(c[2]) => (c[2].tripped <=> RefGas)
      /\ ~Panics(c[4]) => (c[4].tripped <=> RefDrawdown)
      /\ ~Panics(c[5]) => (c[5].tripped <=> RefVolumeWeighted)
  BY <1>3, <1>8, GasMeans, DrawdownMeans, VolumeWeightedMeans, Zenon
<1> QED
  BY <1>1, <1>2, <1>6, <1>7, <1>8, <1>9

\* evaluate returns what the reference definition says, in any history.
LEMMA HaltsExactly ==
    ASSUME SumsHold, DriftInv
    PROVE  HaltsExactlyWhenAGuardTrips
<1> DEFINE c == Checks(Policy, history)
           d == evaluate(Policy, history)
           ref == [reason \in HaltReasons |->
            CASE reason = "RevertBurst"             -> RefBurst
              [] reason = "RevertGasBudgetExceeded" -> RefGas
              [] reason = "FastGuard"               -> RefFast
              [] reason = "NetDrawdownExceeded"     -> RefDrawdown
              [] reason = "VolumeWeightedDrift"     -> RefVolumeWeighted
              [] reason = "SlowGuard"               -> RefSlow]
<1>1. /\ Len(c) = 6
      /\ c[1].reason = "RevertBurst" /\ c[2].reason = "RevertGasBudgetExceeded"
      /\ c[3].reason = "FastGuard" /\ c[4].reason = "NetDrawdownExceeded"
      /\ c[5].reason = "VolumeWeightedDrift" /\ c[6].reason = "SlowGuard"
      /\ \A i \in 1..6 : Panics(c[i]) => RefOverflow
      /\ ~Panics(c[1]) => (c[1].tripped <=> RefBurst)
      /\ ~Panics(c[2]) => (c[2].tripped <=> RefGas)
      /\ ~Panics(c[3]) => (c[3].tripped <=> RefFast)
      /\ ~Panics(c[4]) => (c[4].tripped <=> RefDrawdown)
      /\ ~Panics(c[5]) => (c[5].tripped <=> RefVolumeWeighted)
      /\ ~Panics(c[6]) => (c[6].tripped <=> RefSlow)
  BY ChecksMean
<1>2. /\ ref["RevertBurst"] <=> RefBurst
      /\ ref["RevertGasBudgetExceeded"] <=> RefGas
      /\ ref["FastGuard"] <=> RefFast
      /\ ref["NetDrawdownExceeded"] <=> RefDrawdown
      /\ ref["VolumeWeightedDrift"] <=> RefVolumeWeighted
      /\ ref["SlowGuard"] <=> RefSlow
  BY DEF HaltReasons
<1>3. HaltsExactlyWhenAGuardTrips <=>
          IF d = "Panic" THEN OverflowChecks /\ RefOverflow
          ELSE IF \E reason \in HaltReasons : ref[reason]
          THEN d \in HaltReasons /\ ref[d]
          ELSE d = "Continue"
  BY DEF HaltsExactlyWhenAGuardTrips
<1>4. d = Decision(c)
  BY DEF evaluate
<1> HIDE DEF c, d, ref
<1>5. \A i \in 1..6 : i = 1 \/ i = 2 \/ i = 3 \/ i = 4 \/ i = 5 \/ i = 6
  OBVIOUS
<1>6. \A i \in 1..6 : ~Panics(c[i]) => (c[i].tripped <=> ref[c[i].reason])
  <2> SUFFICES ASSUME NEW i \in 1..6, ~Panics(c[i])
               PROVE  c[i].tripped <=> ref[c[i].reason]
    OBVIOUS
  <2>1. CASE i = 1
    BY <1>1, <1>2, <2>1, Zenon
  <2>2. CASE i = 2
    BY <1>1, <1>2, <2>2, Zenon
  <2>3. CASE i = 3
    BY <1>1, <1>2, <2>3, Zenon
  <2>4. CASE i = 4
    BY <1>1, <1>2, <2>4, Zenon
  <2>5. CASE i = 5
    BY <1>1, <1>2, <2>5, Zenon
  <2>6. CASE i = 6
    BY <1>1, <1>2, <2>6, Zenon
  <2> QED
    BY <1>5, <2>1, <2>2, <2>3, <2>4, <2>5, <2>6
<1>7. /\ \A i \in 1..6 : c[i].reason \in HaltReasons
      /\ \A reason \in HaltReasons : \E i \in 1..6 : c[i].reason = reason
  <2>1. 1 \in 1..6 /\ 2 \in 1..6 /\ 3 \in 1..6 /\ 4 \in 1..6 /\ 5 \in 1..6 /\ 6 \in 1..6
    OBVIOUS
  <2>2. \A i \in 1..6 : c[i].reason \in HaltReasons
    BY <1>1, <1>5, Zenon DEF HaltReasons
  <2>3. \A reason \in HaltReasons : \E i \in 1..6 : c[i].reason = reason
    BY <1>1, <2>1, Zenon DEF HaltReasons
  <2> QED
    BY <2>2, <2>3
<1>8. \A reason \in HaltReasons : reason # "Panic" /\ reason # "Continue"
  BY DEF HaltReasons
<1>9. \/ /\ \A i \in 1..6 : ~Stops(c[i])
         /\ d = "Continue"
      \/ \E i \in 1..6 :
            /\ Stops(c[i])
            /\ \A j \in 1..6 : j < i => ~Stops(c[j])
            /\ d = IF Panics(c[i]) THEN "Panic" ELSE c[i].reason
  BY <1>1, <1>4, DecisionIsFirstStop
<1>10. CASE /\ \A i \in 1..6 : ~Stops(c[i])
            /\ d = "Continue"
  <2>1. \A i \in 1..6 : ~ref[c[i].reason]
    BY <1>6, <1>10, Zenon DEF Stops
  <2>2. ~\E reason \in HaltReasons : ref[reason]
    BY <1>7, <2>1, Zenon
  <2>3. d # "Panic"
    BY <1>10
  <2> QED
    BY <1>3, <1>10, <2>2, <2>3, Zenon
<1>11. CASE \E i \in 1..6 :
            /\ Stops(c[i])
            /\ \A j \in 1..6 : j < i => ~Stops(c[j])
            /\ d = IF Panics(c[i]) THEN "Panic" ELSE c[i].reason
  <2>1. PICK i \in 1..6 : /\ Stops(c[i])
                          /\ d = IF Panics(c[i]) THEN "Panic" ELSE c[i].reason
    BY <1>11
  <2>2. CASE Panics(c[i])
    <3>1. d = "Panic" /\ OverflowChecks /\ RefOverflow
      BY <1>1, <2>1, <2>2, Zenon DEF Panics
    <3> QED
      BY <1>3, <3>1, Zenon
  <2>3. CASE ~Panics(c[i])
    <3>1. d = c[i].reason /\ c[i].tripped
      BY <2>1, <2>3, Zenon DEF Stops
    <3>2. d \in HaltReasons /\ ref[d]
      BY <1>6, <1>7, <2>3, <3>1, Zenon
    <3> QED
      BY <1>3, <1>8, <3>2, Zenon
  <2> QED
    BY <2>2, <2>3
<1> QED
  BY <1>9, <1>10, <1>11

\* In a build with overflow checks, evaluate halts exactly when one of the six
\* documented conditions holds of the timeline in exact arithmetic, for a
\* reason that holds, and panics only when a sum really overflows: for every
\* policy, every pair and event and every length of the history.
THEOREM HaltsAsDocumented ==
    ASSUME OverflowChecks
    PROVE  Spec => []HaltsExactlyWhenAGuardTrips
<1>1. DriftInv => HaltsExactlyWhenAGuardTrips
  BY HaltsExactly DEF SumsHold
<1> QED
  BY <1>1, DriftInvariant, PTL

-----------------------------------------------------------------------------
(* The details dictionary of the Python bindings. *)

\* A multiple of m leaves no remainder.
LEMMA Multiples ==
    ASSUME NEW m \in Nat \ {0}, NEW k \in Int
    PROVE  (m * k) % m = 0
  OBVIOUS

\* Remainders.
LEMMA Remainders ==
    ASSUME NEW m \in Int, m > 0, NEW x \in Int
    PROVE  /\ x % m \in Int /\ x % m >= 0 /\ x % m < m
           /\ x >= 0 /\ x < m => x % m = x
           /\ ((x % m) - x) % m = 0
<1>1. x % m \in 0..m - 1
  OBVIOUS
<1>2. x >= 0 /\ x < m => x % m = x
  OBVIOUS
<1> DEFINE k == x \div m
           l == 0 - k
<1>3. x = m * k + (x % m)
  BY SMTT(30)
<1>4. k \in Int
  OBVIOUS
<1> HIDE DEF k
<1>5. l \in Int /\ (x % m) - x = m * l
  BY <1>1, <1>3, <1>4
<1> HIDE DEF l
<1>6. (m * l) % m = 0
  <2>1. m \in Nat \ {0}
    OBVIOUS
  <2>2. l \in Int
    BY <1>5
  <2> QED
    BY <2>1, <2>2, Multiples, Zenon
<1> QED
  BY <1>1, <1>2, <1>5, <1>6

\* The cast to u64.
LEMMA UnsignedShows ==
    ASSUME NEW x \in Int
    PROVE  Shows(U64(x), x, Unsigned)
<1> DEFINE m == 2^NarrowWidth
<1>1. m \in Int /\ m > 0
  BY PowerAssumption
<1> HIDE DEF m
<1>2. Unsigned = 0..m - 1 /\ U64(x) = x % m
  BY DEF Unsigned, U64, m
<1>3. /\ x % m \in Int /\ x % m >= 0 /\ x % m < m
      /\ x >= 0 /\ x < m => x % m = x
      /\ ((x % m) - x) % m = 0
  BY <1>1, Remainders
<1>4. x % m \in 0..m - 1 /\ (x \in 0..m - 1 => x >= 0 /\ x < m)
  BY <1>1, <1>3
<1> QED
  BY <1>2, <1>3, <1>4 DEF Shows, m

\* The cast to i64.
LEMMA SignedShows ==
    ASSUME NEW x \in Int
    PROVE  Shows(I64(x), x, Signed)
<1> DEFINE m == 2^NarrowWidth
           half == 2^(NarrowWidth - 1)
           y == x + half
<1>1. half \in Int /\ half > 0 /\ m = 2 * half
  BY PowerAssumption
<1>2. Signed = -half..half - 1 /\ I64(x) = ((x + half) % m) - half
  BY DEF Signed, I64
<1> HIDE DEF m, half
<1>3. y \in Int /\ m \in Int /\ m > 0
  BY <1>1
<1> HIDE DEF y
<1> DEFINE r == y % m
<1>4. /\ r \in Int /\ r >= 0 /\ r < m
      /\ y >= 0 /\ y < m => r = y
      /\ (r - y) % m = 0
  BY <1>3, Remainders
<1>5. I64(x) = r - half
  BY <1>2 DEF y
<1> HIDE DEF r
<1>6. r - half \in -half..half - 1 /\ r - half - x = r - y
  BY <1>1, <1>4 DEF y
<1>7. x \in -half..half - 1 => r - half = x
  BY <1>1, <1>4 DEF y
<1> QED
  BY <1>2, <1>4, <1>5, <1>6, <1>7 DEF Shows, m

\* The element of an option.
LEMMA TheOnlyIs ==
    ASSUME NEW option, IsOption(option), NEW x \in option
    PROVE  TheOnly(option) = x
  BY DEF TheOnly, IsOption

\* The check that decides.
LEMMA DecidedBy ==
    ASSUME DriftInv, SumsHold, NEW d, d = evaluate(Policy, history), d # "Panic"
    PROVE  /\ d = "Continue" \/ d \in HaltReasons
           /\ d = "RevertBurst" => RevertBurstHalt(Policy, history)
           /\ d = "RevertGasBudgetExceeded" =>
                  RevertGasHalt(Policy, history) /\ ~RevertGasOverflows(Policy, history)
           /\ d = "FastGuard" => FastHalt(Policy, history)
           /\ d = "NetDrawdownExceeded" =>
                  DrawdownHalt(Policy, history) /\ ~DrawdownOverflows(Policy, history)
           /\ d = "VolumeWeightedDrift" =>
                  /\ VolumeWeightedHalt(Policy, history)
                  /\ ~VolumeWeightedOverflows(Policy, history)
           /\ d = "SlowGuard" => SlowHalt(Policy, history)
           /\ d = "Continue" => ~(RefBurst \/ RefGas \/ RefFast \/ RefDrawdown
                                    \/ RefVolumeWeighted \/ RefSlow)
           /\ d \in HaltReasons => RefBurst \/ RefGas \/ RefFast \/ RefDrawdown
                                     \/ RefVolumeWeighted \/ RefSlow
<1> DEFINE c == Checks(Policy, history)
<1>1. /\ Len(c) = 6
      /\ c[1].reason = "RevertBurst" /\ c[2].reason = "RevertGasBudgetExceeded"
      /\ c[3].reason = "FastGuard" /\ c[4].reason = "NetDrawdownExceeded"
      /\ c[5].reason = "VolumeWeightedDrift" /\ c[6].reason = "SlowGuard"
      /\ ~Panics(c[1]) => (c[1].tripped <=> RefBurst)
      /\ ~Panics(c[2]) => (c[2].tripped <=> RefGas)
      /\ ~Panics(c[3]) => (c[3].tripped <=> RefFast)
      /\ ~Panics(c[4]) => (c[4].tripped <=> RefDrawdown)
      /\ ~Panics(c[5]) => (c[5].tripped <=> RefVolumeWeighted)
      /\ ~Panics(c[6]) => (c[6].tripped <=> RefSlow)
      /\ ~Panics(c[2]) => ~RevertGasOverflows(Policy, history)
      /\ ~Panics(c[4]) => ~DrawdownOverflows(Policy, history)
      /\ ~Panics(c[5]) => ~VolumeWeightedOverflows(Policy, history)
  BY ChecksMean
<1>2. /\ c[1].tripped = RevertBurstHalt(Policy, history)
      /\ c[2].tripped = RevertGasHalt(Policy, history)
      /\ c[3].tripped = FastHalt(Policy, history)
      /\ c[4].tripped = DrawdownHalt(Policy, history)
      /\ c[5].tripped = VolumeWeightedHalt(Policy, history)
      /\ c[6].tripped = SlowHalt(Policy, history)
  BY DEF Checks, Check
<1>3. d = Decision(c)
  BY DEF evaluate
<1> HIDE DEF c
<1>4. \/ /\ \A i \in 1..6 : ~Stops(c[i])
         /\ d = "Continue"
      \/ \E i \in 1..6 :
            /\ Stops(c[i])
            /\ \A j \in 1..6 : j < i => ~Stops(c[j])
            /\ d = IF Panics(c[i]) THEN "Panic" ELSE c[i].reason
  BY <1>1, <1>3, DecisionIsFirstStop
<1>5. CASE /\ \A i \in 1..6 : ~Stops(c[i])
           /\ d = "Continue"
  <2>1. /\ ~Stops(c[1]) /\ ~Stops(c[2]) /\ ~Stops(c[3])
        /\ ~Stops(c[4]) /\ ~Stops(c[5]) /\ ~Stops(c[6])
    BY <1>5
  <2>2. ~(RefBurst \/ RefGas \/ RefFast \/ RefDrawdown \/ RefVolumeWeighted \/ RefSlow)
    BY <1>1, <2>1, Zenon DEF Stops
  <2> QED
    BY <1>5, <2>2 DEF HaltReasons
<1>6. CASE \E i \in 1..6 :
            /\ Stops(c[i])
            /\ \A j \in 1..6 : j < i => ~Stops(c[j])
            /\ d = IF Panics(c[i]) THEN "Panic" ELSE c[i].reason
  <2>1. PICK i \in 1..6 : /\ Stops(c[i])
                          /\ d = IF Panics(c[i]) THEN "Panic" ELSE c[i].reason
    BY <1>6
  <2>2. ~Panics(c[i]) /\ d = c[i].reason /\ c[i].tripped
    BY <2>1, Zenon DEF Stops
  <2>3. i = 1 \/ i = 2 \/ i = 3 \/ i = 4 \/ i = 5 \/ i = 6
    OBVIOUS
  <2>4. CASE i = 1
    <3>1. d = "RevertBurst" /\ RevertBurstHalt(Policy, history) /\ RefBurst
      BY <1>1, <1>2, <2>2, <2>4, Zenon
    <3> QED
      BY <3>1 DEF HaltReasons
  <2>5. CASE i = 2
    <3>1. /\ d = "RevertGasBudgetExceeded" /\ RevertGasHalt(Policy, history)
          /\ ~RevertGasOverflows(Policy, history) /\ RefGas
      BY <1>1, <1>2, <2>2, <2>5, Zenon DEF Panics
    <3> QED
      BY <3>1 DEF HaltReasons
  <2>6. CASE i = 3
    <3>1. d = "FastGuard" /\ FastHalt(Policy, history) /\ RefFast
      BY <1>1, <1>2, <2>2, <2>6, Zenon
    <3> QED
      BY <3>1 DEF HaltReasons
  <2>7. CASE i = 4
    <3>1. /\ d = "NetDrawdownExceeded" /\ DrawdownHalt(Policy, history)
          /\ ~DrawdownOverflows(Policy, history) /\ RefDrawdown
      BY <1>1, <1>2, <2>2, <2>7, Zenon DEF Panics
    <3> QED
      BY <3>1 DEF HaltReasons
  <2>8. CASE i = 5
    <3>1. /\ d = "VolumeWeightedDrift" /\ VolumeWeightedHalt(Policy, history)
          /\ ~VolumeWeightedOverflows(Policy, history) /\ RefVolumeWeighted
      BY <1>1, <1>2, <2>2, <2>8, Zenon DEF Panics
    <3> QED
      BY <3>1 DEF HaltReasons
  <2>9. CASE i = 6
    <3>1. d = "SlowGuard" /\ SlowHalt(Policy, history) /\ RefSlow
      BY <1>1, <1>2, <2>2, <2>9, Zenon
    <3> QED
      BY <3>1 DEF HaltReasons
  <2> QED
    BY <2>3, <2>4, <2>5, <2>6, <2>7, <2>8, <2>9
<1> QED
  BY <1>4, <1>5, <1>6

\* What details writes of one reason.
Cast(reason) ==
    CASE reason.type = "RevertGasBudgetExceeded" ->
            [reason EXCEPT !.gas_cost_burned = U64(@), !.budget_limit = U64(@)]
      [] reason.type = "NetDrawdownExceeded" ->
            [reason EXCEPT !.net_slippage_loss = I64(@), !.max_drawdown_limit = I64(@)]
      [] OTHER -> reason

\* The number of reverts in a burst.
LEMMA BurstJustified ==
    ASSUME DriftInv, BuiltFromArgs(Policy), RevertBurstHalt(Policy, history),
           NEW x, x = Cast(Halt(Policy, history, "RevertBurst"))
    PROVE  x.type = "RevertBurst" /\ Justified(x)
<1> DEFINE c == consecutive_reverts(history)
<1>1. PICK burst \in Policy.revert_burst : c >= burst.limit
  BY DEF RevertBurstHalt
<1>2. burst.limit \in Nat \ {0}
  BY PolicyAssumption DEF IsPolicy
<1>3. TheOnly(Policy.revert_burst) = burst
  BY TheOnlyIs DEF BuiltFromArgs
<1>4. c \in Int
  <2> DEFINE a == Len(history.timeline)
             b == SelectLastInSeq(history.timeline, IsPair)
  <2>1. a \in Int /\ b \in Int
    BY DEF DriftInv, LastPairInv, Typed, HistoryOf
  <2>2. c = a - b
    BY DEF consecutive_reverts
  <2> HIDE DEF a, b
  <2> QED
    BY <2>1, <2>2
<1> DEFINE y == [type |-> "RevertBurst", consecutive_reverts |-> c, limit |-> burst.limit]
<1>5. Halt(Policy, history, "RevertBurst") = y
  BY <1>3, Zenon DEF Halt
<1>6. y.type = "RevertBurst" /\ y.consecutive_reverts = c /\ y.limit = burst.limit
  OBVIOUS
<1> HIDE DEF c, y
<1>7. x = y
  BY <1>5, <1>6, Zenon DEF Cast
<1> DEFINE run(n) == /\ Cardinality(Newest(n, Settled)) = n
                     /\ Newest(n, Settled) \subseteq RevertedAt
<1>8. \A n \in Nat \ {0} : c >= n <=> run(n)
  BY RunMeans DEF c
<1>9. c \in Nat \ {0} /\ c + 1 \in Nat \ {0} /\ c >= c /\ ~(c >= c + 1)
  BY <1>1, <1>2, <1>4
<1>10. run(c) /\ ~run(c + 1)
  BY <1>8, <1>9
<1> QED
  BY <1>1, <1>6, <1>7, <1>10, Zenon DEF Justified

\* The fees burned.
LEMMA GasJustified ==
    ASSUME DriftInv, BuiltFromArgs(Policy), RevertGasHalt(Policy, history),
           ~RevertGasOverflows(Policy, history),
           NEW x, x = Cast(Halt(Policy, history, "RevertGasBudgetExceeded"))
    PROVE  x.type = "RevertGasBudgetExceeded" /\ Justified(x)
<1>1. PICK gas \in Policy.revert_gas :
          U128(SumSeq(RecentFees(history, gas.window))) > gas.budget_limit
  BY DEF RevertGasHalt
<1> DEFINE limit == gas.budget_limit
           burned == SumFunctionOnSet(Fees, RevertedAmong(gas.window))
<1>2. gas.window \in Nat /\ limit \in Nat /\ TheOnly(Policy.revert_gas) = gas
  BY TheOnlyIs, PolicyAssumption DEF IsPolicy, BuiltFromArgs
<1>3. AddsUp(RecentFees(history, gas.window), Fees, RevertedAmong(gas.window))
  BY <1>2, FeesAddUp
<1>4. /\ SumSeq(RecentFees(history, gas.window)) = burned
      /\ U128(SumSeq(RecentFees(history, gas.window))) = burned
  <2>1. ~SumOverflows(RecentFees(history, gas.window), FitsU128)
    BY DEF RevertGasOverflows
  <2> QED
    BY <1>3, <2>1, SumsLeave
<1>5. burned \in Int
  <2> DEFINE z == RecentFees(history, gas.window)
  <2>1. z \in Seq(Int)
    BY <1>3 DEF AddsUp
  <2> HIDE DEF z
  <2>2. SumSeq(z) \in Int
    BY <2>1, SumLoop
  <2> QED
    BY <1>4, <2>2 DEF z
<1>6. burned > limit
  BY <1>1, <1>4
<1> DEFINE y == [type            |-> "RevertGasBudgetExceeded",
                 gas_cost_burned |-> U128(SumSeq(RecentFees(history, gas.window))),
                 budget_limit    |-> limit,
                 window          |-> gas.window]
<1>7. Halt(Policy, history, "RevertGasBudgetExceeded") = y
  BY <1>2, Zenon DEF Halt
<1>8. y.type = "RevertGasBudgetExceeded"
  OBVIOUS
<1>9. x = [y EXCEPT !.gas_cost_burned = U64(@), !.budget_limit = U64(@)]
  <2> HIDE DEF y
  <2> QED
    BY <1>7, <1>8, Zenon DEF Cast
<1>10. /\ x.type = "RevertGasBudgetExceeded" /\ x.gas_cost_burned = U64(burned)
       /\ x.budget_limit = U64(limit) /\ x.window = gas.window
  BY <1>4, <1>9
<1> HIDE DEF y, burned, limit
<1>11. Shows(U64(burned), burned, Unsigned) /\ Shows(U64(limit), limit, Unsigned)
  BY <1>2, <1>5, UnsignedShows
<1>12. burned \in Unsigned => limit \in Unsigned
  BY <1>2, <1>5, <1>6, PowerAssumption DEF Unsigned
<1>13. burned \in Unsigned => U64(burned) > U64(limit)
  BY <1>6, <1>11, <1>12 DEF Shows
<1> QED
  BY <1>10, <1>11, <1>13, Zenon DEF Justified, burned

\* The loss of a drawdown.
LEMMA DrawdownJustified ==
    ASSUME DriftInv, BuiltFromArgs(Policy), DrawdownHalt(Policy, history),
           ~DrawdownOverflows(Policy, history),
           NEW x, x = Cast(Halt(Policy, history, "NetDrawdownExceeded"))
    PROVE  x.type = "NetDrawdownExceeded" /\ Justified(x)
<1>1. PICK dd \in Policy.drawdown :
          /\ Len(Slippage(history, dd.window)) = dd.window
          /\ I128(SumSeq(Slippage(history, dd.window))) > dd.max_drawdown_limit
  BY DEF DrawdownHalt
<1> DEFINE limit == dd.max_drawdown_limit
           z == Slippage(history, dd.window)
           loss == SumFunctionOnSet(Losses, Newest(dd.window, PairedAt))
<1>2. /\ dd.window \in Nat /\ TheOnly(Policy.drawdown) = dd
      /\ limit \in Int /\ limit >= -2^(NarrowWidth - 1)
  BY TheOnlyIs, PolicyAssumption DEF IsPolicy, BuiltFromArgs
<1>3. AddsUp(z, Losses, Newest(dd.window, PairedAt))
  BY <1>2, SlippageAddsUp
<1>4. SumSeq(z) = loss /\ I128(SumSeq(z)) = loss
  <2>1. ~SumOverflows(z, FitsI128)
    BY <1>1 DEF DrawdownOverflows
  <2> HIDE DEF z
  <2> QED
    BY <1>3, <2>1, SumsLeave
<1>5. loss \in Int
  <2> HIDE DEF z
  <2>1. z \in Seq(Int)
    BY <1>3 DEF AddsUp
  <2>2. SumSeq(z) \in Int
    BY <2>1, SumLoop
  <2> QED
    BY <1>4, <2>2
<1>6. loss > limit
  BY <1>1, <1>4
<1> DEFINE y == [type               |-> "NetDrawdownExceeded",
                 net_slippage_loss  |-> I128(SumSeq(z)),
                 max_drawdown_limit |-> limit,
                 window             |-> dd.window]
<1>7. Halt(Policy, history, "NetDrawdownExceeded") = y
  BY <1>2, Zenon DEF Halt
<1>8. y.type = "NetDrawdownExceeded"
  OBVIOUS
<1>9. x = [y EXCEPT !.net_slippage_loss = I64(@), !.max_drawdown_limit = I64(@)]
  <2> HIDE DEF y
  <2> QED
    BY <1>7, <1>8, Zenon DEF Cast
<1>10. /\ x.type = "NetDrawdownExceeded" /\ x.net_slippage_loss = I64(loss)
       /\ x.max_drawdown_limit = I64(limit) /\ x.window = dd.window
  BY <1>4, <1>9
<1> HIDE DEF y, loss, limit
<1>11. Shows(I64(loss), loss, Signed) /\ Shows(I64(limit), limit, Signed)
  BY <1>2, <1>5, SignedShows
<1>12. loss \in Signed => limit \in Signed
  BY <1>2, <1>5, <1>6, PowerAssumption DEF Signed
<1>13. loss \in Signed => I64(loss) > I64(limit)
  BY <1>6, <1>11, <1>12 DEF Shows
<1> QED
  BY <1>10, <1>11, <1>13, Zenon DEF Justified, loss

\* The volume-weighted ratio.
LEMMA VolumeJustified ==
    ASSUME DriftInv, BuiltFromArgs(Policy), VolumeWeightedHalt(Policy, history),
           ~VolumeWeightedOverflows(Policy, history),
           NEW x, x = Cast(Halt(Policy, history, "VolumeWeightedDrift"))
    PROVE  x.type = "VolumeWeightedDrift" /\ Justified(x)
<1> DEFINE A(vw) == Volume(history, vw.window, 1)
           B(vw) == Volume(history, vw.window, 2)
<1>1. PICK vw \in Policy.volume_weighted :
          /\ Len(A(vw)) = vw.window
          /\ Less(<<I128(SumSeq(B(vw))), I128(SumSeq(A(vw)))>>, vw.threshold)
  BY DEF VolumeWeightedHalt
<1> DEFINE W == Newest(vw.window, UsableAt)
           a == A(vw)
           b == B(vw)
<1>2. vw.window \in Nat /\ TheOnly(Policy.volume_weighted) = vw
  BY TheOnlyIs, PolicyAssumption DEF IsPolicy, BuiltFromArgs
<1>3. AddsUp(a, Predictions, W) /\ AddsUp(b, Profits, W)
  BY <1>2, PredictedAddsUp, RealizedAddsUp
<1>4. ~SumOverflows(a, FitsI128) /\ ~SumOverflows(b, FitsI128)
  BY <1>1 DEF VolumeWeightedOverflows
<1>5. /\ I128(SumSeq(a)) = SumFunctionOnSet(Predictions, W)
      /\ I128(SumSeq(b)) = SumFunctionOnSet(Profits, W)
  <2> HIDE DEF a, b
  <2> QED
    BY <1>3, <1>4, SumsLeave
<1> DEFINE y == [type           |-> "VolumeWeightedDrift",
                 weighted_ratio |-> <<I128(SumSeq(b)), I128(SumSeq(a))>>,
                 threshold      |-> vw.threshold,
                 window         |-> vw.window]
<1>6. Halt(Policy, history, "VolumeWeightedDrift") = y
  BY <1>2, Zenon DEF Halt
<1>7. /\ y.type = "VolumeWeightedDrift" /\ y.threshold = vw.threshold
      /\ y.window = vw.window /\ y.weighted_ratio = <<I128(SumSeq(b)), I128(SumSeq(a))>>
  OBVIOUS
<1>8. Less(y.weighted_ratio, y.threshold)
  BY <1>1, <1>7
<1>9. y.weighted_ratio = <<SumFunctionOnSet(Profits, W), SumFunctionOnSet(Predictions, W)>>
  BY <1>5, <1>7
<1> HIDE DEF y
<1>10. x = y
  BY <1>6, <1>7, Zenon DEF Cast
<1> QED
  BY <1>7, <1>8, <1>9, <1>10, Zenon DEF Justified

\* The ratios of the fast guard.
LEMMA FastJustified ==
    ASSUME DriftInv, FastHalt(Policy, history),
           NEW x, x = Cast(Halt(Policy, history, "FastGuard"))
    PROVE  x.type = "FastGuard" /\ Justified(x)
<1> DEFINE n == Policy.fast.window
           T == Policy.fast.threshold
           W == Newest(n, UsableAt)
           r == recent_ratios(history, n)
<1>1. n \in Nat
  BY PolicyAssumption DEF IsPolicy
<1>2. Len(r) = n /\ \A i \in DOMAIN r : Less(r[i], T)
  BY DEF FastHalt
<1>3. r \in Seq(Fraction)
  BY <1>1, RatiosListed
<1>4. PICK w : RatiosAt(r, w, W)
  BY <1>1, RatiosListed
<1> DEFINE y == [type |-> "FastGuard", recent_ratios |-> r, threshold |-> T]
<1>5. Halt(Policy, history, "FastGuard") = y
  BY Zenon DEF Halt
<1>6. y.type = "FastGuard" /\ y.recent_ratios = r /\ y.threshold = T
  OBVIOUS
<1> HIDE DEF y, r, W
<1>7. x = y
  BY <1>5, <1>6, Zenon DEF Cast
<1>8. DOMAIN r = 1..Len(r)
  BY <1>3
<1>9. /\ \A k \in 1..Len(r) : w[k] \in W /\ r[k] = <<Realized(w[k]), Predicted(w[k])>>
      /\ \A i \in W : \E k \in 1..Len(r) : w[k] = i
  BY <1>4 DEF RatiosAt, Increasing
<1>10. Range(r) = {<<Realized(i), Predicted(i)>> : i \in W}
  <2>1. Range(r) = {r[k] : k \in 1..Len(r)}
    BY <1>8 DEF Range
  <2>2. ASSUME NEW k \in 1..Len(r)
        PROVE  r[k] \in {<<Realized(i), Predicted(i)>> : i \in W}
    BY <1>9
  <2>3. ASSUME NEW i \in W
        PROVE  <<Realized(i), Predicted(i)>> \in {r[k] : k \in 1..Len(r)}
    <3>1. PICK k \in 1..Len(r) : w[k] = i
      BY <1>9
    <3> QED
      BY <1>9, <3>1
  <2> QED
    BY <2>1, <2>2, <2>3
<1> QED
  BY <1>2, <1>6, <1>7, <1>10, Zenon DEF Justified, W

\* The mean of the slow guard.
LEMMA SlowJustified ==
    ASSUME DriftInv, SlowHalt(Policy, history),
           NEW x, x = Cast(Halt(Policy, history, "SlowGuard"))
    PROVE  x.type = "SlowGuard" /\ Justified(x)
<1> DEFINE n == Policy.slow.window
           T == Policy.slow.threshold
           W == Newest(n, UsableAt)
           r == recent_ratios(history, n)
<1>1. n \in Nat
  BY PolicyAssumption DEF IsPolicy
<1>2. Len(r) = n /\ Less(Mean(r), T)
  BY DEF SlowHalt
<1>3. Len(r) = Cardinality(W)
  BY <1>1, RatiosListed
<1> DEFINE y == [type |-> "SlowGuard", mean_ratio |-> Mean(r), window_size |-> n,
                 threshold |-> T]
<1>4. Halt(Policy, history, "SlowGuard") = y
  BY Zenon DEF Halt
<1>5. /\ y.type = "SlowGuard" /\ y.mean_ratio = Mean(r) /\ y.window_size = n
      /\ y.threshold = T
  OBVIOUS
<1> HIDE DEF y, r
<1>6. x = y
  BY <1>4, <1>5, Zenon DEF Cast
<1> QED
  BY <1>2, <1>3, <1>5, <1>6, Zenon DEF Justified

\* What Python is told of a halt, in any history.
LEMMA DetailsExplain ==
    ASSUME SumsHold, BuiltFromArgs(Policy), DriftInv
    PROVE  DetailsExplainTheHalt
<1> SUFFICES ASSUME evaluate(Policy, history) # "Panic"
             PROVE  DetailsExplainTheHalt
  BY DEF DetailsExplainTheHalt
<1> DEFINE e == evaluate(Policy, history)
           tripped == RefBurst \/ RefGas \/ RefFast \/ RefDrawdown
                        \/ RefVolumeWeighted \/ RefSlow
           d == py_evaluate(Policy, history)
           items == details(d)
<1>1. DetailsExplainTheHalt <=>
          /\ unwrap_or_raise(d) = IF tripped THEN "StrategyHaltedError" ELSE "None"
          /\ d.reason_name = {item.type : item \in items}
          /\ \A item \in items : Justified(item)
  BY Zenon DEF DetailsExplainTheHalt
<1>2. /\ d.should_halt = (({e} \ {"Continue"}) # {})
      /\ d.reason_name = {e} \ {"Continue"}
      /\ d.decision = {Halt(Policy, history, reason) : reason \in {e} \ {"Continue"}}
  BY DEF py_evaluate
<1>3. items = {Cast(reason) : reason \in d.decision}
  BY Zenon DEF details, Cast
<1> HIDE DEF d, items
<1>4. CASE e = "Continue"
  <2>1. ~tripped
    BY <1>4, DecidedBy
  <2>2. {e} \ {"Continue"} = {}
    BY <1>4
  <2>3. /\ ~d.should_halt /\ d.reason_name = {} /\ d.decision = {}
    BY <1>2, <2>2
  <2>4. items = {}
    BY <1>3, <2>3
  <2> HIDE DEF tripped
  <2>5. unwrap_or_raise(d) = IF tripped THEN "StrategyHaltedError" ELSE "None"
    BY <2>1, <2>3, Zenon DEF unwrap_or_raise
  <2>6. d.reason_name = {item.type : item \in items}
    BY <2>3, <2>4
  <2> QED
    BY <1>1, <2>4, <2>5, <2>6
<1>5. CASE e \in HaltReasons
  <2>1. tripped
    BY <1>5, DecidedBy
  <2>2. {e} \ {"Continue"} = {e}
    BY <1>5 DEF HaltReasons
  <2> DEFINE x == Cast(Halt(Policy, history, e))
  <2>3. d.should_halt /\ d.reason_name = {e} /\ items = {x}
    <3>1. /\ d.should_halt = ({e} # {}) /\ d.reason_name = {e}
          /\ d.decision = {Halt(Policy, history, reason) : reason \in {e}}
      BY <1>2, <2>2, Zenon
    <3> HIDE DEF e
    <3>2. {e} # {}
      OBVIOUS
    <3>3. d.should_halt
      BY <3>1, <3>2, Zenon
    <3>4. d.decision = {Halt(Policy, history, e)}
      BY <3>1
    <3>5. items = {x}
      BY <1>3, <3>4, Zenon
    <3> QED
      BY <3>1, <3>3, <3>5
  <2>4. x.type = e /\ Justified(x)
    <3> HIDE DEF tripped
    <3>1. CASE e = "RevertBurst"
      BY <3>1, DecidedBy, BurstJustified
    <3>2. CASE e = "RevertGasBudgetExceeded"
      BY <3>2, DecidedBy, GasJustified
    <3>3. CASE e = "FastGuard"
      BY <3>3, DecidedBy, FastJustified
    <3>4. CASE e = "NetDrawdownExceeded"
      BY <3>4, DecidedBy, DrawdownJustified
    <3>5. CASE e = "VolumeWeightedDrift"
      BY <3>5, DecidedBy, VolumeJustified
    <3>6. CASE e = "SlowGuard"
      BY <3>6, DecidedBy, SlowJustified
    <3> QED
      BY <1>5, <3>1, <3>2, <3>3, <3>4, <3>5, <3>6 DEF HaltReasons
  <2> HIDE DEF tripped, x
  <2>5. unwrap_or_raise(d) = IF tripped THEN "StrategyHaltedError" ELSE "None"
    BY <2>1, <2>3, Zenon DEF unwrap_or_raise
  <2>6. d.reason_name = {item.type : item \in items}
    BY <2>3, <2>4
  <2> QED
    BY <1>1, <2>3, <2>4, <2>5, <2>6
<1> QED
  BY <1>4, <1>5, DecidedBy

\* For every policy that the arguments of the Python constructors give and
\* every history, in a build with overflow checks: unwrap_or_raise raises
\* exactly when a documented condition holds, and the dictionary of `details`
\* names the guard and justifies the halt with numbers of the timeline.
THEOREM PythonSeesTheHalt ==
    ASSUME OverflowChecks, BuiltFromArgs(Policy)
    PROVE  Spec => []DetailsExplainTheHalt
<1>1. DriftInv => DetailsExplainTheHalt
  BY DetailsExplain DEF SumsHold
<1> QED
  BY <1>1, DriftInvariant, PTL

\* A build without overflow checks, the release profile, is right as well as
\* long as no sum over a window overflows, in what it decides and in what it
\* tells Python.
THEOREM ReleaseHaltsAsDocumented ==
    ASSUME BuiltFromArgs(Policy)
    PROVE  Spec => [](~RefOverflow => /\ HaltsExactlyWhenAGuardTrips
                                      /\ DetailsExplainTheHalt)
<1>1. DriftInv => (~RefOverflow => /\ HaltsExactlyWhenAGuardTrips
                                   /\ DetailsExplainTheHalt)
  BY HaltsExactly, DetailsExplain DEF SumsHold
<1> QED
  BY <1>1, DriftInvariant, PTL
=============================================================================
