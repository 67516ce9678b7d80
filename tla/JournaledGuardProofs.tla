------------------------ MODULE JournaledGuardProofs ------------------------
(***************************************************************************)
(* Theorems about JournaledGuard, for any policy whose windows fit into    *)
(* max_retained_entries, any processes, entries and bounds: while no       *)
(* system call fails, a restart does not change what a guard decides.      *)
(*                                                                         *)
(* Durability says that what a restart recovers is the end of the acked    *)
(* timeline, at least max_retained_entries of it; the lemmas say that no   *)
(* guard looks further back, and that replaying rebuilds the collections   *)
(* the guards read.                                                        *)
(***************************************************************************)
EXTENDS JournaledGuard, JournalProofs, ReconcilePolicyProofs

\* Every window of the policy is at most n.
RevertWindowsFit(policy, n) ==
    /\ \A burst \in policy.revert_burst : burst.limit <= n
    /\ \A gas \in policy.revert_gas : gas.window <= n

PairWindowsFit(policy, n) ==
    /\ policy.fast.window <= n /\ policy.slow.window <= n
    /\ \A dd \in policy.drawdown : dd.window <= n
    /\ \A vw \in policy.volume_weighted : vw.window <= n

-----------------------------------------------------------------------------
(* What the guards see of a timeline that lost its front *)

\* A burst of at most n reverts is counted alike in the last n entries.
LEMMA BurstOfEnd ==
    ASSUME NEW E, NEW n \in Nat, NEW limit \in Nat \ {0}, limit <= n,
           NEW h, NEW g, NEW s, NEW t, s = h.timeline, t = g.timeline,
           s \in Seq(E), t \in Seq(E), IsEnd(t, s, n)
    PROVE  consecutive_reverts(g) >= limit <=> consecutive_reverts(h) >= limit
<1> DEFINE a == Len(s)
           b == Len(t)
<1>1. consecutive_reverts(h) >= limit <=>
          limit <= a /\ \A i \in 1..a : i > a - limit => ~IsPair(s[i])
  BY BurstMeans
<1>2. consecutive_reverts(g) >= limit <=>
          limit <= b /\ \A i \in 1..b : i > b - limit => ~IsPair(t[i])
  BY BurstMeans
<1>3. \A i \in 1..b : t[i] = s[a - b + i]
  BY DEF IsEnd
<1>4. /\ a \in Nat /\ b \in Nat /\ limit \in Nat /\ limit > 0
      /\ b <= a /\ (b >= n \/ b = a)
  BY DEF IsEnd
<1> HIDE DEF a, b
<1>5. limit <= a <=> limit <= b
  BY <1>4
<1>6. ASSUME limit <= b, NEW i \in 1..a, i > a - limit
      PROVE  \E j \in 1..b : j > b - limit /\ t[j] = s[i]
  <2> DEFINE j == i - (a - b)
  <2>1. j \in 1..b /\ j > b - limit /\ a - b + j = i
    BY <1>4, <1>6
  <2>2. t[j] = s[i]
    BY <1>3, <2>1
  <2> QED
    BY <2>1, <2>2
<1>7. ASSUME limit <= b, NEW j \in 1..b, j > b - limit
      PROVE  \E i \in 1..a : i > a - limit /\ s[i] = t[j]
  <2> DEFINE i == a - b + j
  <2>1. i \in 1..a /\ i > a - limit
    BY <1>4, <1>7
  <2>2. t[j] = s[i]
    BY <1>3
  <2> QED
    BY <2>1, <2>2
<1>8. ASSUME limit <= b
      PROVE  (\A i \in 1..a : i > a - limit => ~IsPair(s[i]))
               <=> (\A j \in 1..b : j > b - limit => ~IsPair(t[j]))
  BY <1>6, <1>7, <1>8
<1> QED
  BY <1>1, <1>2, <1>5, <1>8

\* The two guards that read reverts decide alike on the last n entries.
LEMMA RevertGuardsOfEnd ==
    ASSUME NEW policy, IsPolicy(policy), NEW E, NEW n \in Nat,
           RevertWindowsFit(policy, n),
           NEW h, NEW g, h.timeline \in Seq(E), g.timeline \in Seq(E),
           IsEnd(g.timeline, h.timeline, n)
    PROVE  /\ RevertBurstHalt(policy, g) = RevertBurstHalt(policy, h)
           /\ RevertGasHalt(policy, g) = RevertGasHalt(policy, h)
           /\ RevertGasOverflows(policy, g) = RevertGasOverflows(policy, h)
<1>1. /\ \A burst \in policy.revert_burst : burst.limit \in Nat \ {0}
      /\ \A gas \in policy.revert_gas : gas.window \in Nat \ {0}
      /\ \A burst \in policy.revert_burst : burst.limit <= n
      /\ \A gas \in policy.revert_gas : gas.window <= n
  BY DEF IsPolicy, RevertWindowsFit
<1>2. ASSUME NEW burst \in policy.revert_burst
      PROVE  consecutive_reverts(g) >= burst.limit
               <=> consecutive_reverts(h) >= burst.limit
  <2> DEFINE limit == burst.limit
             s == h.timeline
             t == g.timeline
  <2>1. /\ limit \in Nat \ {0} /\ limit <= n
        /\ s \in Seq(E) /\ t \in Seq(E) /\ IsEnd(t, s, n)
        /\ s = h.timeline /\ t = g.timeline
    BY <1>1
  <2> HIDE DEF limit, s, t
  <2>2. consecutive_reverts(g) >= limit <=> consecutive_reverts(h) >= limit
    BY <2>1, BurstOfEnd
  <2> QED
    BY <2>2 DEF limit
<1>3. RevertBurstHalt(policy, g) = RevertBurstHalt(policy, h)
  BY <1>2 DEF RevertBurstHalt
<1>4. ASSUME NEW gas \in policy.revert_gas
      PROVE  RecentFees(g, gas.window) = RecentFees(h, gas.window)
  <2> DEFINE w == gas.window
             s == h.timeline
             t == g.timeline
  <2>1. /\ w \in Nat /\ w <= n
        /\ s \in Seq(E) /\ t \in Seq(E) /\ IsEnd(t, s, n)
    BY <1>1
  <2> HIDE DEF w, s, t
  <2>2. Recent(t, w) = Recent(s, w)
    BY <2>1, WindowOfEnd
  <2>3. Recent(g.timeline, gas.window) = Recent(h.timeline, gas.window)
    BY <2>2 DEF w, s, t
  <2> QED
    BY <2>3 DEF RecentFees
<1>5. RevertGasHalt(policy, g) = RevertGasHalt(policy, h)
  BY <1>4 DEF RevertGasHalt
<1>6. RevertGasOverflows(policy, g) = RevertGasOverflows(policy, h)
  BY <1>4 DEF RevertGasOverflows
<1> QED
  BY <1>3, <1>5, <1>6

\* The pairs of g and h are usable, and those of g are the end of those of h.
UsableEnd(g, h, n) ==
    /\ h.pairs \in Seq(Int \X Int) /\ g.pairs \in Seq(Int \X Int)
    /\ PositivePairs(h) = h.pairs /\ PositivePairs(g) = g.pairs
    /\ IsEnd(g.pairs, h.pairs, n)

\* The four guards that read pairs decide alike on the last n pairs, if all
\* of the pairs are usable.
LEMMA PairGuardsOfEnd ==
    ASSUME NEW policy, IsPolicy(policy), NEW n \in Nat,
           PairWindowsFit(policy, n), NEW h, NEW g, UsableEnd(g, h, n)
    PROVE  /\ FastHalt(policy, g) = FastHalt(policy, h)
           /\ SlowHalt(policy, g) = SlowHalt(policy, h)
           /\ VolumeWeightedHalt(policy, g) = VolumeWeightedHalt(policy, h)
           /\ VolumeWeightedOverflows(policy, g) = VolumeWeightedOverflows(policy, h)
           /\ DrawdownHalt(policy, g) = DrawdownHalt(policy, h)
           /\ DrawdownOverflows(policy, g) = DrawdownOverflows(policy, h)
<1>1. /\ policy.fast.window \in Nat /\ policy.slow.window \in Nat
      /\ \A dd \in policy.drawdown : dd.window \in Nat
      /\ \A vw \in policy.volume_weighted : vw.window \in Nat
  BY DEF IsPolicy
<1>2. /\ policy.fast.window <= n /\ policy.slow.window <= n
      /\ \A dd \in policy.drawdown : dd.window <= n
      /\ \A vw \in policy.volume_weighted : vw.window <= n
  BY DEF PairWindowsFit
<1>3. ASSUME NEW w \in Nat, w <= n
      PROVE  Recent(g.pairs, w) = Recent(h.pairs, w)
  <2> DEFINE s == h.pairs
             t == g.pairs
             S == Int \X Int
  <2>1. s \in Seq(S) /\ t \in Seq(S) /\ IsEnd(t, s, n)
    BY DEF UsableEnd
  <2> HIDE DEF s, t, S
  <2>2. Recent(t, w) = Recent(s, w)
    BY <1>3, <2>1, WindowOfEnd
  <2> QED
    BY <2>2 DEF s, t
<1>4. ASSUME NEW w \in Nat, w <= n
      PROVE  /\ recent_ratios(g, w) = recent_ratios(h, w)
             /\ Slippage(g, w) = Slippage(h, w)
             /\ \A c : Volume(g, w, c) = Volume(h, w, c)
  <2>1. Recent(g.pairs, w) = Recent(h.pairs, w)
    BY <1>3, <1>4
  <2>2. Recent(PositivePairs(g), w) = Recent(PositivePairs(h), w)
    BY <2>1 DEF UsableEnd
  <2> QED
    BY <2>1, <2>2 DEF recent_ratios, Slippage, Volume
<1>5. FastHalt(policy, g) = FastHalt(policy, h)
  BY <1>1, <1>2, <1>4 DEF FastHalt
<1>6. SlowHalt(policy, g) = SlowHalt(policy, h)
  BY <1>1, <1>2, <1>4 DEF SlowHalt
<1>7. /\ \A dd \in policy.drawdown : Slippage(g, dd.window) = Slippage(h, dd.window)
      /\ \A vw \in policy.volume_weighted :
            \A c : Volume(g, vw.window, c) = Volume(h, vw.window, c)
  BY <1>1, <1>2, <1>4
<1>8. VolumeWeightedHalt(policy, g) = VolumeWeightedHalt(policy, h)
  BY <1>7 DEF VolumeWeightedHalt
<1>9. VolumeWeightedOverflows(policy, g) = VolumeWeightedOverflows(policy, h)
  BY <1>7 DEF VolumeWeightedOverflows
<1>10. DrawdownHalt(policy, g) = DrawdownHalt(policy, h)
  BY <1>7 DEF DrawdownHalt
<1>11. DrawdownOverflows(policy, g) = DrawdownOverflows(policy, h)
  BY <1>7 DEF DrawdownOverflows
<1> QED
  BY <1>5, <1>6, <1>8, <1>9, <1>10, <1>11

-----------------------------------------------------------------------------
(* Timelines of pairs *)

\* Without reverts every entry is a pair.
LEMMA OnlyPairs ==
    ASSUME NEW E, Tagged(E), NEW t \in Seq(E), Reverted(t) = <<>>
    PROVE  \A i \in 1..Len(t) : IsPair(t[i])
<1> DEFINE kept == RevertsAt(t)
           r == ElementsAt(t, kept)
<1>1. kept \in SUBSET DOMAIN t /\ kept \in SUBSET (1..Len(t)) /\ Len(t) \in Nat
  BY DEF RevertsAt
<1>2. r \in Seq(E) /\ Len(r) = Cardinality(kept)
  BY <1>1, ElementsAtType
<1>3. Reverted(t) = [i \in DOMAIN r |-> r[i].event]
  BY DEF Reverted
<1>4. IsFiniteSet(kept) /\ Cardinality(kept) \in Nat
  BY <1>1, RankGrows
<1> HIDE DEF r, kept
<1>5. DOMAIN r = 1..0
  BY <1>3
<1>6. Len(r) = 0
  BY <1>2, <1>5
<1>7. kept = {}
  BY <1>2, <1>4, <1>6, FS_EmptySet
<1>8. \A i \in 1..Len(t) : ~IsRevert(t[i]) /\ t[i] \in E
  BY <1>7 DEF kept, RevertsAt
<1> QED
  BY <1>8 DEF Tagged

\* If every entry is a pair, the pairs are the entries.
LEMMA PairsOfPairs ==
    ASSUME NEW E, NEW P, NEW R, WellFormed(E, P, R), NEW t \in Seq(E),
           \A i \in 1..Len(t) : IsPair(t[i])
    PROVE  /\ Paired(t) \in Seq(P) /\ Len(Paired(t)) = Len(t)
           /\ \A i \in 1..Len(t) :
                 Paired(t)[i] = <<t[i].predicted, t[i].realized>>
<1>1. Len(t) \in Nat /\ DOMAIN t = 1..Len(t)
  OBVIOUS
<1>2. PairsAt(t) = DOMAIN t
  BY <1>1 DEF PairsAt
<1>3. ElementsAt(t, PairsAt(t)) = t
  BY <1>2, ElementsAtAll
<1>4. Paired(t) = [i \in DOMAIN t |-> <<t[i].predicted, t[i].realized>>]
  BY <1>3 DEF Paired
<1>5. \A i \in 1..Len(t) : <<t[i].predicted, t[i].realized>> \in P
  BY WellFormedTagged
<1> QED
  BY <1>1, <1>4, <1>5

-----------------------------------------------------------------------------
(* A restart of an idle process *)

Logged == {e.event : e \in RevertEntries}

\* What the journal records are entries of a history.
LEMMA EntriesWellFormed == WellFormed(Entry, Int \X Int, Logged)
  BY EntriesAssumption DEF WellFormed, Entry, Logged

\* The history before and after a restart, of which the second is the end of
\* the first.
LEMMA RestartKeepsTheEnd ==
    ASSUME TypeOK, AckedEntriesSurvive, NEW p \in Procs, Idle(p)
    PROVE  /\ inner[p] \in Seq(Entry) /\ Recovered(file) \in Seq(Entry)
           /\ MaxRetained \in Nat
           /\ IsEnd(Recovered(file), inner[p], MaxRetained)
           /\ Before(p).timeline = inner[p] /\ After.timeline = Recovered(file)
           /\ Before(p).pairs = Paired(inner[p])
           /\ After.pairs = Paired(Recovered(file))
           /\ Before(p).reverts = Reverted(inner[p])
<1> DEFINE s == inner[p]
           t == Recovered(file)
<1>1. s \in Seq(Entry) /\ file.cells \in Seq(Cell)
  BY DEF TypeOK, File
<1>2. t \in Seq(Entry)
  <2>1. Replay(file.cells) \in Seq(Entry) /\ <<>> \in Seq(Entry)
    BY <1>1, ReplayType
  <2> QED
    BY <2>1 DEF Recovered
<1>3. pc[p] = "open"
  BY DEF Idle
<1>4. Survives(t, s)
  BY <1>3 DEF AckedEntriesSurvive, Serving
<1> HIDE DEF s, t
<1>5. IsEnd(t, s, MaxRetained)
  BY <1>4 DEF Survives, IsEnd
<1>6. /\ FromTimeline(s).timeline = s /\ FromTimeline(s).pairs = Paired(s)
      /\ FromTimeline(s).reverts = Reverted(s)
  BY <1>1, EntriesWellFormed, ReplayedHistory
<1>7. FromTimeline(t).timeline = t /\ FromTimeline(t).pairs = Paired(t)
  BY <1>2, EntriesWellFormed, ReplayedHistory
<1>8. Before(p) = FromTimeline(s) /\ After = FromTimeline(t)
  BY DEF Before, After, s, t
<1> QED
  BY <1>1, <1>2, <1>5, <1>6, <1>7, <1>8, BoundsAssumption DEF s, t

\* While no system call fails, a restart never changes what the two revert
\* guards decide, if the burst limit and the gas window are at most
\* max_retained_entries.
THEOREM RevertGuardsSurvive ==
    ASSUME FaultKinds = {}, RevertWindowsFit(Policy, MaxRetained)
    PROVE  Spec => []RevertGuardsSurviveRestart
<1>1. ASSUME TypeOK, AckedEntriesSurvive
      PROVE  RevertGuardsSurviveRestart
  <2> SUFFICES ASSUME NEW p \in Procs, Idle(p)
               PROVE  /\ RevertBurstHalt(Policy, After) = RevertBurstHalt(Policy, Before(p))
                      /\ RevertGasHalt(Policy, After) = RevertGasHalt(Policy, Before(p))
    BY DEF RevertGuardsSurviveRestart
  <2> DEFINE h == Before(p)
             g == After
  <2>1. /\ h.timeline \in Seq(Entry) /\ g.timeline \in Seq(Entry)
        /\ MaxRetained \in Nat /\ IsEnd(g.timeline, h.timeline, MaxRetained)
    BY <1>1, RestartKeepsTheEnd
  <2> HIDE DEF h, g
  <2>2. /\ RevertBurstHalt(Policy, g) = RevertBurstHalt(Policy, h)
        /\ RevertGasHalt(Policy, g) = RevertGasHalt(Policy, h)
    BY <2>1, PolicyAssumption, RevertGuardsOfEnd
  <2> QED
    BY <2>2 DEF h, g
<1>2. Spec => []TypeOK
  BY TypeCorrect
<1>3. Spec => []AckedEntriesSurvive
  BY Durability
<1> QED
  BY <1>1, <1>2, <1>3, PTL

\* While no system call fails and every window is at most
\* max_retained_entries, a restart on a timeline of usable pairs never
\* changes the decision of evaluate.
THEOREM PairGuardsSurvive ==
    ASSUME FaultKinds = {}, RevertWindowsFit(Policy, MaxRetained),
           PairWindowsFit(Policy, MaxRetained)
    PROVE  Spec => []PairGuardsSurviveRestart
<1>1. ASSUME TypeOK, AckedEntriesSurvive
      PROVE  PairGuardsSurviveRestart
  <2>1. SUFFICES ASSUME NEW p \in Procs, Idle(p),
                        PositivePairs(Before(p)) = Before(p).pairs,
                        Before(p).reverts = <<>>
                 PROVE  evaluate(Policy, After) = evaluate(Policy, Before(p))
    BY DEF PairGuardsSurviveRestart
  <2> DEFINE h == Before(p)
             g == After
             s == inner[p]
             t == Recovered(file)
             n == MaxRetained
             P == Int \X Int
  <2>2. /\ s \in Seq(Entry) /\ t \in Seq(Entry) /\ n \in Nat /\ IsEnd(t, s, n)
        /\ h.timeline = s /\ g.timeline = t
        /\ h.pairs = Paired(s) /\ g.pairs = Paired(t)
        /\ Reverted(s) = <<>> /\ PositivePairs(h) = h.pairs
    BY <1>1, <2>1, RestartKeepsTheEnd
  <2> HIDE DEF h, g, s, t, n
  <2>3. Tagged(Entry)
    BY EntriesWellFormed, WellFormedTagged
  <2>4. /\ Len(s) \in Nat /\ Len(t) \in Nat /\ Len(t) <= Len(s)
        /\ Len(t) >= n \/ Len(t) = Len(s)
        /\ \A i \in 1..Len(t) : t[i] = s[Len(s) - Len(t) + i]
        /\ \A i \in 1..Len(t) : Len(s) - Len(t) + i \in 1..Len(s)
    <3>1. Len(s) \in Nat /\ Len(t) \in Nat
      BY <2>2
    <3>2. /\ Len(t) <= Len(s) /\ (Len(t) >= n \/ Len(t) = Len(s))
          /\ \A i \in 1..Len(t) : t[i] = s[Len(s) - Len(t) + i]
      BY <2>2 DEF IsEnd
    <3>3. \A i \in 1..Len(t) : Len(s) - Len(t) + i \in 1..Len(s)
      BY <3>1, <3>2
    <3> QED
      BY <3>1, <3>2, <3>3
  <2>5. \A i \in 1..Len(s) : IsPair(s[i])
    BY <2>2, <2>3, OnlyPairs
  <2>6. \A i \in 1..Len(t) : IsPair(t[i])
    BY <2>4, <2>5
  <2>7. /\ h.pairs \in Seq(P) /\ Len(h.pairs) = Len(s)
        /\ \A i \in 1..Len(s) : h.pairs[i] = <<s[i].predicted, s[i].realized>>
    BY <2>2, <2>5, EntriesWellFormed, PairsOfPairs
  <2>8. /\ g.pairs \in Seq(P) /\ Len(g.pairs) = Len(t)
        /\ \A i \in 1..Len(t) : g.pairs[i] = <<t[i].predicted, t[i].realized>>
    BY <2>2, <2>6, EntriesWellFormed, PairsOfPairs
  <2>9. ASSUME NEW i \in 1..Len(t)
        PROVE  g.pairs[i] = h.pairs[Len(s) - Len(t) + i]
    BY <2>4, <2>7, <2>8
  <2>10. IsEnd(g.pairs, h.pairs, n)
    BY <2>4, <2>7, <2>8, <2>9 DEF IsEnd
  <2>11. \A i \in 1..Len(h.pairs) : h.pairs[i][1] > 0
    BY <2>2, <2>7, AllUsable
  <2>12. PositivePairs(g) = g.pairs
    <3>1. \A i \in 1..Len(g.pairs) : g.pairs[i][1] > 0
      BY <2>4, <2>7, <2>8, <2>9, <2>11
    <3> QED
      BY <2>8, <3>1, AllUsable
  <2>13. /\ FastHalt(Policy, g) = FastHalt(Policy, h)
         /\ SlowHalt(Policy, g) = SlowHalt(Policy, h)
         /\ VolumeWeightedHalt(Policy, g) = VolumeWeightedHalt(Policy, h)
         /\ VolumeWeightedOverflows(Policy, g) = VolumeWeightedOverflows(Policy, h)
         /\ DrawdownHalt(Policy, g) = DrawdownHalt(Policy, h)
         /\ DrawdownOverflows(Policy, g) = DrawdownOverflows(Policy, h)
    <3>1. PairWindowsFit(Policy, n) /\ IsPolicy(Policy) /\ n \in Nat
      BY <2>2, PolicyAssumption DEF n
    <3>2. UsableEnd(g, h, n)
      BY <2>2, <2>7, <2>8, <2>10, <2>12 DEF UsableEnd
    <3> QED
      BY <3>1, <3>2, PairGuardsOfEnd
  <2>14. /\ RevertBurstHalt(Policy, g) = RevertBurstHalt(Policy, h)
         /\ RevertGasHalt(Policy, g) = RevertGasHalt(Policy, h)
         /\ RevertGasOverflows(Policy, g) = RevertGasOverflows(Policy, h)
    <3>1. /\ RevertWindowsFit(Policy, n) /\ IsPolicy(Policy) /\ n \in Nat
          /\ h.timeline \in Seq(Entry) /\ g.timeline \in Seq(Entry)
          /\ IsEnd(g.timeline, h.timeline, n)
      BY <2>2, PolicyAssumption DEF n
    <3> QED
      BY <3>1, RevertGuardsOfEnd
  <2>15. Checks(Policy, g) = Checks(Policy, h)
    BY <2>13, <2>14, Zenon DEF Checks
  <2> QED
    BY <2>15 DEF evaluate, g, h
<1>2. Spec => []TypeOK
  BY TypeCorrect
<1>3. Spec => []AckedEntriesSurvive
  BY Durability
<1> QED
  BY <1>1, <1>2, <1>3, PTL
=============================================================================
