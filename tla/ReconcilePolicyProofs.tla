----------------------- MODULE ReconcilePolicyProofs ------------------------
(***************************************************************************)
(* Lemmas about the guards of ReconcilePolicy: which part of a history     *)
(* each of them reads, what one more entry does to it, and how the first   *)
(* check that trips decides.                                               *)
(***************************************************************************)
EXTENDS ReconcilePolicy, ReconcileHistoryProofs

\* The three guards that divide by predicted profit read nothing but the
\* usable pairs.
LEMMA RatioGuardsReadUsablePairs ==
    ASSUME NEW policy, NEW h, NEW g, PositivePairs(g) = PositivePairs(h)
    PROVE  /\ FastHalt(policy, g) = FastHalt(policy, h)
           /\ SlowHalt(policy, g) = SlowHalt(policy, h)
           /\ VolumeWeightedHalt(policy, g) = VolumeWeightedHalt(policy, h)
           /\ VolumeWeightedOverflows(policy, g) = VolumeWeightedOverflows(policy, h)
<1>1. \A n : recent_ratios(g, n) = recent_ratios(h, n)
  BY DEF recent_ratios
<1>2. \A n, c : Volume(g, n, c) = Volume(h, n, c)
  BY DEF Volume
<1>3. FastHalt(policy, g) = FastHalt(policy, h)
  BY <1>1 DEF FastHalt
<1>4. SlowHalt(policy, g) = SlowHalt(policy, h)
  BY <1>1 DEF SlowHalt
<1>5. VolumeWeightedHalt(policy, g) = VolumeWeightedHalt(policy, h)
  BY <1>2 DEF VolumeWeightedHalt
<1>6. VolumeWeightedOverflows(policy, g) = VolumeWeightedOverflows(policy, h)
  BY <1>2 DEF VolumeWeightedOverflows
<1> QED
  BY <1>3, <1>4, <1>5, <1>6

\* The drawdown guard reads nothing but the pairs, nor does any ratio guard.
LEMMA PairGuardsReadPairs ==
    ASSUME NEW policy, NEW h, NEW g, g.pairs = h.pairs
    PROVE  /\ FastHalt(policy, g) = FastHalt(policy, h)
           /\ SlowHalt(policy, g) = SlowHalt(policy, h)
           /\ VolumeWeightedHalt(policy, g) = VolumeWeightedHalt(policy, h)
           /\ VolumeWeightedOverflows(policy, g) = VolumeWeightedOverflows(policy, h)
           /\ DrawdownHalt(policy, g) = DrawdownHalt(policy, h)
           /\ DrawdownOverflows(policy, g) = DrawdownOverflows(policy, h)
<1>1. PositivePairs(g) = PositivePairs(h)
  BY DEF PositivePairs
<1>2. \A n : Slippage(g, n) = Slippage(h, n)
  BY DEF Slippage
<1>3. DrawdownHalt(policy, g) = DrawdownHalt(policy, h)
  BY <1>2 DEF DrawdownHalt
<1>4. DrawdownOverflows(policy, g) = DrawdownOverflows(policy, h)
  BY <1>2 DEF DrawdownOverflows
<1> QED
  BY <1>1, <1>3, <1>4, RatioGuardsReadUsablePairs
\* One more usable pair below its threshold leaves a tripped fast guard
\* tripped: of the new window all but the last were in the old one.
LEMMA FastStaysTripped ==
    ASSUME NEW policy, policy.fast.window \in Nat \ {0},
           NEW h, PositivePairs(h) \in Seq(Int \X Int), NEW pair \in Int \X Int,
           NEW g, PositivePairs(g) = Append(PositivePairs(h), pair),
           FastHalt(policy, h), Less(Ratio(pair), policy.fast.threshold)
    PROVE  FastHalt(policy, g)
<1> DEFINE w == policy.fast.window
           T == policy.fast.threshold
           u == PositivePairs(h)
           v == PositivePairs(g)
           S == Int \X Int
<1>1. /\ u \in Seq(S) /\ v \in Seq(S) /\ w \in Nat /\ w >= 1
      /\ Len(u) \in Nat /\ Len(v) = Len(u) + 1 /\ v[Len(v)] = pair
      /\ \A i \in 1..Len(u) : v[i] = u[i]
  OBVIOUS
<1>2. /\ Len(recent_ratios(h, w)) = w
      /\ \A i \in DOMAIN recent_ratios(h, w) : Less(recent_ratios(h, w)[i], T)
  BY DEF FastHalt
<1>3. /\ recent_ratios(h, w) = [i \in DOMAIN Recent(u, w) |-> Ratio(Recent(u, w)[i])]
      /\ recent_ratios(g, w) = [i \in DOMAIN Recent(v, w) |-> Ratio(Recent(v, w)[i])]
  BY DEF recent_ratios
<1> HIDE DEF u, v, w, S
<1>4. /\ Recent(u, w) \in Seq(S)
      /\ Len(Recent(u, w)) = IF Len(u) >= w THEN w ELSE Len(u)
      /\ \A i \in 1..(IF Len(u) >= w THEN w ELSE Len(u)) :
            Recent(u, w)[i] = u[Len(u) - (IF Len(u) >= w THEN w ELSE Len(u)) + i]
  BY <1>1, RecentWindow
<1>5. /\ Recent(v, w) \in Seq(S)
      /\ Len(Recent(v, w)) = IF Len(v) >= w THEN w ELSE Len(v)
      /\ \A i \in 1..(IF Len(v) >= w THEN w ELSE Len(v)) :
            Recent(v, w)[i] = v[Len(v) - (IF Len(v) >= w THEN w ELSE Len(v)) + i]
  BY <1>1, RecentWindow
<1>6. Len(Recent(u, w)) = w /\ DOMAIN recent_ratios(h, w) = 1..w
  <2> DEFINE r == Recent(u, w)
  <2>1. r \in Seq(S) /\ recent_ratios(h, w) = [i \in DOMAIN r |-> Ratio(r[i])]
    BY <1>3, <1>4
  <2> HIDE DEF r
  <2>2. DOMAIN recent_ratios(h, w) = 1..Len(r) /\ Len(recent_ratios(h, w)) = Len(r)
    BY <2>1
  <2> QED
    BY <1>2, <2>2 DEF r
<1>7. Len(u) >= w /\ Len(v) >= w
  BY <1>1, <1>4, <1>6
<1>8. \A i \in 1..w : Less(Ratio(u[Len(u) - w + i]), T)
  <2> SUFFICES ASSUME NEW i \in 1..w
               PROVE  Less(Ratio(u[Len(u) - w + i]), T)
    OBVIOUS
  <2>1. Recent(u, w)[i] = u[Len(u) - w + i]
    BY <1>4, <1>7
  <2>2. i \in DOMAIN Recent(u, w)
    BY <1>4, <1>6
  <2>3. recent_ratios(h, w)[i] = Ratio(Recent(u, w)[i])
    BY <1>3, <2>2
  <2> QED
    BY <1>2, <1>6, <2>1, <2>3
<1>9. ASSUME NEW i \in 1..w
      PROVE  Less(Ratio(v[Len(v) - w + i]), T)
  <2>1. CASE i = w
    <3>1. Len(v) - w + i = Len(v)
      BY <1>1, <2>1
    <3> QED
      BY <1>1, <3>1
  <2>2. CASE i # w
    <3>1. /\ i + 1 \in 1..w /\ Len(v) - w + i = Len(u) - w + (i + 1)
          /\ Len(u) - w + (i + 1) \in 1..Len(u)
      BY <1>1, <1>7, <2>2
    <3>2. v[Len(v) - w + i] = u[Len(u) - w + (i + 1)]
      BY <1>1, <3>1
    <3> QED
      BY <1>8, <3>1, <3>2
  <2> QED
    BY <2>1, <2>2
<1>10. Len(Recent(v, w)) = w /\ \A i \in 1..w : Recent(v, w)[i] = v[Len(v) - w + i]
  BY <1>5, <1>7
<1>11. /\ Len(recent_ratios(g, w)) = w /\ DOMAIN recent_ratios(g, w) = 1..w
       /\ \A i \in 1..w : recent_ratios(g, w)[i] = Ratio(v[Len(v) - w + i])
  <2> DEFINE r == Recent(v, w)
  <2>1. /\ r \in Seq(S) /\ recent_ratios(g, w) = [i \in DOMAIN r |-> Ratio(r[i])]
        /\ Len(r) = w /\ \A i \in 1..w : r[i] = v[Len(v) - w + i]
    BY <1>3, <1>5, <1>10
  <2> HIDE DEF r
  <2>2. DOMAIN r = 1..w
    BY <2>1
  <2> QED
    BY <1>1, <2>1, <2>2
<1> QED
  BY <1>9, <1>11 DEF FastHalt, w
-----------------------------------------------------------------------------
(* The decision.  A check stops evaluate when it trips or panics. *)

Panics(c) == OverflowChecks /\ c.overflows
Stops(c)  == Panics(c) \/ c.tripped

\* A nonempty set of positions of the six guards has a least one.
LEMMA LeastOfSix ==
    ASSUME NEW I \in SUBSET (1..6), I # {}
    PROVE  Min(I) \in I /\ \A j \in I : Min(I) <= j
<1>1. \A y \in I : y = 1 \/ y = 2 \/ y = 3 \/ y = 4 \/ y = 5 \/ y = 6
  OBVIOUS
<1>2. \E x \in I : \A y \in I : x <= y
  <2>1. CASE 1 \in I
    BY <1>1, <2>1
  <2>2. CASE 1 \notin I /\ 2 \in I
    BY <1>1, <2>2
  <2>3. CASE 1 \notin I /\ 2 \notin I /\ 3 \in I
    BY <1>1, <2>3
  <2>4. CASE 1 \notin I /\ 2 \notin I /\ 3 \notin I /\ 4 \in I
    BY <1>1, <2>4
  <2>5. CASE 1 \notin I /\ 2 \notin I /\ 3 \notin I /\ 4 \notin I /\ 5 \in I
    BY <1>1, <2>5
  <2>6. CASE 1 \notin I /\ 2 \notin I /\ 3 \notin I /\ 4 \notin I /\ 5 \notin I
    <3>1. \A y \in I : y = 6
      BY <1>1, <2>6
    <3>2. I = {6}
      BY <3>1
    <3> QED
      BY <3>2
  <2> QED
    BY <2>1, <2>2, <2>3, <2>4, <2>5, <2>6
<1> QED
  BY <1>2 DEF Min

\* evaluate returns at the first check that stops it, or at none.
LEMMA DecisionIsFirstStop ==
    ASSUME NEW checks, Len(checks) = 6
    PROVE  \/ /\ \A i \in 1..6 : ~Stops(checks[i])
              /\ Decision(checks) = "Continue"
           \/ \E i \in 1..6 :
                 /\ Stops(checks[i])
                 /\ \A j \in 1..6 : j < i => ~Stops(checks[j])
                 /\ Decision(checks) = IF Panics(checks[i]) THEN "Panic"
                                       ELSE checks[i].reason
<1> DEFINE I == {i \in 1..6 : Stops(checks[i])}
           first == IF I # {} THEN Min(I) ELSE 0
<1>1. SelectInSeq(checks, LAMBDA c : (OverflowChecks /\ c.overflows) \/ c.tripped)
        = first
  BY DEF SelectInSeq, Stops, Panics
<1>2. Decision(checks) = IF first = 0 THEN "Continue"
                         ELSE IF Panics(checks[first]) THEN "Panic"
                         ELSE checks[first].reason
  BY <1>1 DEF Decision, Panics
<1>3. I \in SUBSET (1..6)
  OBVIOUS
<1>4. CASE I = {}
  BY <1>2, <1>4
<1>5. CASE I # {}
  <2>1. first \in I /\ first \in 1..6 /\ \A j \in I : first <= j
    BY <1>3, <1>5, LeastOfSix
  <2>2. first # 0
    BY <2>1
  <2>3. \A j \in 1..6 : j < first => ~Stops(checks[j])
    <3> SUFFICES ASSUME NEW j \in 1..6, j < first, Stops(checks[j])
                 PROVE  FALSE
      OBVIOUS
    <3>1. j \in I
      OBVIOUS
    <3> HIDE DEF first, I
    <3> QED
      BY <2>1, <3>1
  <2>4. Stops(checks[first])
    BY <2>1
  <2> HIDE DEF first
  <2> QED
    BY <1>2, <2>1, <2>2, <2>3, <2>4
<1> QED
  BY <1>4, <1>5

\* There are six checks, each with a reason; the first two are of reverts.
LEMMA SixChecks ==
    ASSUME NEW policy, NEW h, NEW c, c = Checks(policy, h)
    PROVE  /\ Len(c) = 6
           /\ c[1].tripped = RevertBurstHalt(policy, h) /\ ~Panics(c[1])
           /\ c[1].reason = "RevertBurst"
           /\ c[2].tripped = RevertGasHalt(policy, h)
           /\ Panics(c[2]) <=> OverflowChecks /\ RevertGasOverflows(policy, h)
           /\ c[2].reason = "RevertGasBudgetExceeded"
           /\ \A i \in 1..6 : c[i].reason \in HaltReasons
<1>1. Len(c) = 6
  BY DEF Checks
<1>2. /\ c[1].reason = "RevertBurst"
      /\ c[2].reason = "RevertGasBudgetExceeded"
      /\ c[3].reason = "FastGuard"
      /\ c[4].reason = "NetDrawdownExceeded"
      /\ c[5].reason = "VolumeWeightedDrift"
      /\ c[6].reason = "SlowGuard"
  BY DEF Checks, Check
<1>3. /\ c[1].tripped = RevertBurstHalt(policy, h)
      /\ c[1].overflows = FALSE
      /\ c[2].tripped = RevertGasHalt(policy, h)
      /\ c[2].overflows = RevertGasOverflows(policy, h)
  BY DEF Checks, Check
<1>4. \A i \in 1..6 : i = 1 \/ i = 2 \/ i = 3 \/ i = 4 \/ i = 5 \/ i = 6
  OBVIOUS
<1>5. \A i \in 1..6 : c[i].reason \in HaltReasons
  BY <1>2, <1>4, Zenon DEF HaltReasons
<1>6. /\ ~Panics(c[1])
      /\ Panics(c[2]) <=> OverflowChecks /\ RevertGasOverflows(policy, h)
  BY <1>3, Zenon DEF Panics
<1> QED
  BY <1>1, <1>2, <1>3, <1>5, <1>6, Zenon
\* A decision to halt is the reason of a check that trips, before any other
\* check stops evaluate, and conversely.
LEMMA HaltsAtATrippedCheck ==
    ASSUME NEW policy, NEW h, NEW c, c = Checks(policy, h)
    PROVE  /\ \A i \in 1..6 :
                 /\ c[i].tripped /\ ~Panics(c[i])
                 /\ \A j \in 1..6 : j < i => ~Stops(c[j])
                 => Halts(policy, h)
           /\ Halts(policy, h) =>
                 \E i \in 1..6 :
                     /\ c[i].tripped /\ ~Panics(c[i])
                     /\ \A j \in 1..6 : j < i => ~Stops(c[j])
                     /\ evaluate(policy, h) = c[i].reason
<1>1. Len(c) = 6 /\ \A i \in 1..6 : c[i].reason \in HaltReasons
  BY SixChecks
<1>2. evaluate(policy, h) = Decision(c)
  BY DEF evaluate
<1>3. "Continue" \notin HaltReasons /\ "Panic" \notin HaltReasons
  BY DEF HaltReasons
<1>4. ASSUME NEW i \in 1..6, c[i].tripped, ~Panics(c[i]),
             \A j \in 1..6 : j < i => ~Stops(c[j])
      PROVE  Halts(policy, h)
  <2>1. Stops(c[i])
    BY <1>4 DEF Stops
  <2>2. PICK k \in 1..6 :
            /\ Stops(c[k])
            /\ \A j \in 1..6 : j < k => ~Stops(c[j])
            /\ Decision(c) = IF Panics(c[k]) THEN "Panic" ELSE c[k].reason
    BY <1>1, <2>1, DecisionIsFirstStop
  <2>3. ~(k < i) /\ ~(i < k)
    BY <1>4, <2>1, <2>2
  <2>4. k = i
    BY <2>3
  <2> QED
    BY <1>1, <1>2, <1>4, <2>2, <2>4 DEF Halts
<1>5. ASSUME Halts(policy, h)
      PROVE  \E i \in 1..6 :
                 /\ c[i].tripped /\ ~Panics(c[i])
                 /\ \A j \in 1..6 : j < i => ~Stops(c[j])
                 /\ evaluate(policy, h) = c[i].reason
  <2>1. Decision(c) \in HaltReasons
    BY <1>2, <1>5 DEF Halts
  <2>2. Decision(c) # "Continue" /\ Decision(c) # "Panic"
    BY <1>3, <2>1
  <2>3. PICK k \in 1..6 :
            /\ Stops(c[k])
            /\ \A j \in 1..6 : j < k => ~Stops(c[j])
            /\ Decision(c) = IF Panics(c[k]) THEN "Panic" ELSE c[k].reason
    BY <1>1, <2>2, DecisionIsFirstStop
  <2>4. ~Panics(c[k]) /\ c[k].tripped
    BY <2>2, <2>3 DEF Stops
  <2> QED
    BY <1>2, <2>3, <2>4
<1> QED
  BY <1>4, <1>5

\* When the fees of reverts cannot overflow (a release build wraps, and
\* without a gas guard nothing is added up), a history with the same pairs
\* and a burst that is no shorter halts whenever the old one did, but for
\* the halt of the gas guard.
LEMMA RevertKeepsHalt ==
    ASSUME NEW policy, NEW h, NEW g,
           ~OverflowChecks \/ policy.revert_gas = {},
           g.pairs = h.pairs,
           RevertBurstHalt(policy, h) => RevertBurstHalt(policy, g),
           Halts(policy, h),
           evaluate(policy, h) # "RevertGasBudgetExceeded"
    PROVE  Halts(policy, g)
<1> DEFINE c == Checks(policy, h)
           d == Checks(policy, g)
<1>1. \A i \in {3, 4, 5, 6} : d[i] = c[i]
  <2>1. /\ FastHalt(policy, g) = FastHalt(policy, h)
        /\ SlowHalt(policy, g) = SlowHalt(policy, h)
        /\ VolumeWeightedHalt(policy, g) = VolumeWeightedHalt(policy, h)
        /\ VolumeWeightedOverflows(policy, g) = VolumeWeightedOverflows(policy, h)
        /\ DrawdownHalt(policy, g) = DrawdownHalt(policy, h)
        /\ DrawdownOverflows(policy, g) = DrawdownOverflows(policy, h)
    BY PairGuardsReadPairs
  <2>2. /\ d[3] = c[3] /\ d[4] = c[4] /\ d[5] = c[5] /\ d[6] = c[6]
    BY <2>1 DEF Checks
  <2> QED
    BY <2>2
<1>2. /\ d[1].tripped = RevertBurstHalt(policy, g) /\ ~Panics(d[1])
      /\ Panics(d[2]) <=> OverflowChecks /\ RevertGasOverflows(policy, g)
      /\ c[1].tripped = RevertBurstHalt(policy, h)
      /\ c[2].reason = "RevertGasBudgetExceeded"
  <2>1. c = Checks(policy, h) /\ d = Checks(policy, g)
    OBVIOUS
  <2> HIDE DEF c, d
  <2>2. /\ d[1].tripped = RevertBurstHalt(policy, g) /\ ~Panics(d[1])
        /\ Panics(d[2]) <=> OverflowChecks /\ RevertGasOverflows(policy, g)
    BY <2>1, SixChecks
  <2>3. /\ c[1].tripped = RevertBurstHalt(policy, h)
        /\ c[2].reason = "RevertGasBudgetExceeded"
    BY <2>1, SixChecks
  <2> QED
    BY <2>2, <2>3
<1>3. ~Panics(d[2])
  BY <1>2 DEF RevertGasOverflows
<1>4. /\ \A i \in 1..6 :
            /\ d[i].tripped /\ ~Panics(d[i])
            /\ \A j \in 1..6 : j < i => ~Stops(d[j])
            => Halts(policy, g)
      /\ \E i \in 1..6 :
            /\ c[i].tripped /\ ~Panics(c[i])
            /\ \A j \in 1..6 : j < i => ~Stops(c[j])
            /\ evaluate(policy, h) = c[i].reason
  BY HaltsAtATrippedCheck
<1> HIDE DEF c, d
<1>5. PICK i \in 1..6 : /\ c[i].tripped /\ ~Panics(c[i])
                        /\ \A j \in 1..6 : j < i => ~Stops(c[j])
                        /\ evaluate(policy, h) = c[i].reason
  BY <1>4
<1>6. CASE d[1].tripped
  <2>1. 1 \in 1..6 /\ \A j \in 1..6 : ~(j < 1)
    OBVIOUS
  <2> QED
    BY <1>2, <1>4, <1>6, <2>1
<1>7. CASE ~d[1].tripped /\ d[2].tripped
  <2>1. 2 \in 1..6 /\ \A j \in 1..6 : j < 2 => j = 1
    OBVIOUS
  <2>2. ~Stops(d[1])
    BY <1>2, <1>7 DEF Stops
  <2> QED
    BY <1>3, <1>4, <1>7, <2>1, <2>2
<1>8. CASE ~d[1].tripped /\ ~d[2].tripped
  <2>1. i # 1 /\ i # 2
    BY <1>2, <1>5, <1>8
  <2>2. i \in {3, 4, 5, 6}
    BY <2>1
  <2>3. ~Stops(d[1]) /\ ~Stops(d[2])
    BY <1>2, <1>3, <1>8 DEF Stops
  <2>4. d[i].tripped /\ ~Panics(d[i])
    BY <1>1, <1>5, <2>2
  <2>5. ASSUME NEW j \in 1..6, j < i
        PROVE  ~Stops(d[j])
    <3>1. j = 1 \/ j = 2 \/ j \in {3, 4, 5, 6}
      OBVIOUS
    <3>2. ~Stops(c[j])
      BY <1>5, <2>5
    <3> QED
      BY <1>1, <2>3, <3>1, <3>2
  <2> QED
    BY <1>4, <2>4, <2>5
<1> QED
  BY <1>6, <1>7, <1>8

\* A policy without revert guards decides by the pairs alone.
LEMMA DecidesByPairs ==
    ASSUME NEW policy, policy.revert_burst = {}, policy.revert_gas = {},
           NEW h, NEW g, g.pairs = h.pairs
    PROVE  Halts(policy, g) = Halts(policy, h)
<1>1. /\ RevertBurstHalt(policy, g) = RevertBurstHalt(policy, h)
      /\ RevertGasHalt(policy, g) = RevertGasHalt(policy, h)
      /\ RevertGasOverflows(policy, g) = RevertGasOverflows(policy, h)
  BY DEF RevertBurstHalt, RevertGasHalt, RevertGasOverflows
<1>2. Checks(policy, g) = Checks(policy, h)
  BY <1>1, PairGuardsReadPairs, Zenon DEF Checks
<1> QED
  BY <1>2 DEF Halts, evaluate

\* With the two ratio guards alone, nothing demands a halt of a history
\* without usable pairs.
LEMMA EmptyHistoryContinues ==
    ASSUME NEW policy, policy.revert_burst = {}, policy.revert_gas = {},
           policy.drawdown = {}, policy.volume_weighted = {},
           policy.fast.window \in Nat \ {0}, policy.slow.window \in Nat \ {0},
           NEW h, h.pairs = <<>>
    PROVE  ~Halts(policy, h)
<1>1. \A n \in Nat : Len(recent_ratios(h, n)) = 0
  <2> SUFFICES ASSUME NEW n \in Nat
               PROVE  Len(recent_ratios(h, n)) = 0
    OBVIOUS
  <2> DEFINE s == PositivePairs(h)
             r == Recent(s, n)
  <2>1. s = <<>>
    BY NoUsablePairs
  <2>2. s \in Seq({}) /\ Len(s) = 0
    BY <2>1
  <2> HIDE DEF s
  <2>3. r \in Seq({}) /\ Len(r) = IF Len(s) >= n THEN n ELSE Len(s)
    BY <2>2, RecentWindow
  <2>4. Len(r) = 0
    BY <2>2, <2>3
  <2> HIDE DEF r
  <2>5. recent_ratios(h, n) = [i \in DOMAIN r |-> Ratio(r[i])]
    BY DEF recent_ratios, r, s
  <2> QED
    BY <2>3, <2>4, <2>5
<1>2. /\ ~FastHalt(policy, h) /\ ~SlowHalt(policy, h)
  BY <1>1 DEF FastHalt, SlowHalt
<1>3. /\ ~RevertBurstHalt(policy, h) /\ ~RevertGasHalt(policy, h)
      /\ ~DrawdownHalt(policy, h) /\ ~VolumeWeightedHalt(policy, h)
  BY DEF RevertBurstHalt, RevertGasHalt, DrawdownHalt, VolumeWeightedHalt
<1> DEFINE c == Checks(policy, h)
<1>4. \A i \in 1..6 : ~c[i].tripped
  <2>1. /\ ~c[1].tripped /\ ~c[2].tripped /\ ~c[3].tripped
        /\ ~c[4].tripped /\ ~c[5].tripped /\ ~c[6].tripped
    BY <1>2, <1>3 DEF Checks, Check
  <2> QED
    BY <2>1
<1> QED
  BY <1>4, HaltsAtATrippedCheck

-----------------------------------------------------------------------------
(* Raising a threshold *)

Fraction == Int \X (Nat \ {0})

\* A positive factor may be dropped.
LEMMA PositiveFactor ==
    ASSUME NEW c \in Nat \ {0}, NEW x \in Int, NEW y \in Int, c * x < c * y
    PROVE  x < y
<1>1. c > 0
  OBVIOUS
<1> QED
  BY <1>1

\* What is below a threshold is below a higher one.
LEMMA LessRaised ==
    ASSUME NEW r \in Fraction, NEW a \in Fraction, NEW b \in Fraction,
           Less(r, a), ~Less(b, a)
    PROVE  Less(r, b)
<1> DEFINE r1 == r[1]
           r2 == r[2]
           a1 == a[1]
           a2 == a[2]
           b1 == b[1]
           b2 == b[2]
<1>1. /\ r1 \in Int /\ a1 \in Int /\ b1 \in Int
      /\ r2 \in Nat \ {0} /\ a2 \in Nat \ {0} /\ b2 \in Nat \ {0}
      /\ r1 * a2 < a1 * r2 /\ ~(b1 * a2 < a1 * b2)
  BY DEF Less, Fraction
<1>2. SUFFICES r1 * b2 < b1 * r2
  BY DEF Less
<1> HIDE DEF r1, r2, a1, a2, b1, b2
<1>3. /\ r1 * a2 \in Int /\ a1 * r2 \in Int /\ b1 * a2 \in Int /\ a1 * b2 \in Int
      /\ r1 * b2 \in Int /\ b1 * r2 \in Int
  BY <1>1
<1>4. (r1 * a2) * b2 < (a1 * r2) * b2
  BY <1>1
<1>5. (a1 * b2) * r2 <= (b1 * a2) * r2
  BY <1>1
<1>6. /\ (r1 * a2) * b2 = a2 * (r1 * b2)
      /\ (a1 * r2) * b2 = (a1 * b2) * r2
      /\ (b1 * a2) * r2 = a2 * (b1 * r2)
  BY <1>1
<1>7. a2 * (r1 * b2) < a2 * (b1 * r2)
  <2>1. /\ (r1 * a2) * b2 \in Int /\ (a1 * r2) * b2 \in Int
        /\ (b1 * a2) * r2 \in Int
    BY <1>1
  <2> QED
    BY <1>4, <1>5, <1>6, <2>1
<1> QED
  BY <1>1, <1>3, <1>7, PositiveFactor

\* Adding fractions.
LEMMA PlusFraction ==
    ASSUME NEW a \in Fraction, NEW b \in Fraction
    PROVE  Plus(a, b) \in Fraction
<1>1. a[1] \in Int /\ b[1] \in Int /\ a[2] \in Nat \ {0} /\ b[2] \in Nat \ {0}
  BY DEF Fraction
<1>2. a[1] * b[2] + b[1] * a[2] \in Int /\ a[2] * b[2] \in Nat \ {0}
  BY <1>1
<1> QED
  BY <1>2 DEF Plus, Fraction

\* sums[i] adds up the first i ratios.
Summing(g, r) == g = [i \in 0..Len(r) |->
                         IF i = 0 THEN <<0, 1>> ELSE Plus(g[i - 1], r[i])]

\* The sums that Mean defines recursively exist, and are fractions.
LEMMA MeanLoop ==
    ASSUME NEW r \in Seq(Fraction), Len(r) # 0
    PROVE  \E f : /\ f[0] = <<0, 1>>
                  /\ \A i \in 1..Len(r) : f[i] = Plus(f[i - 1], r[i])
                  /\ \A i \in 0..Len(r) : f[i] \in Fraction
                  /\ Mean(r) = <<f[Len(r)][1], f[Len(r)][2] * Len(r)>>
<1> DEFINE n == Len(r)
           F == [i \in 1..n |-> [x \in Fraction |-> Plus(x, r[i])]]
<1>1. n \in Nat \ {0}
  OBVIOUS
<1>2. \A i \in 1..n : r[i] \in Fraction
  OBVIOUS
<1>3. <<0, 1>> \in Fraction
  BY DEF Fraction
<1> HIDE DEF n
<1>4. F \in [1..n -> [Fraction -> Fraction]]
  <2>1. ASSUME NEW i \in 1..n
        PROVE  [x \in Fraction |-> Plus(x, r[i])] \in [Fraction -> Fraction]
    BY <1>2, PlusFraction
  <2> QED
    BY <2>1
<1>5. \A i \in 1..n : \A x \in Fraction : F[i][x] = Plus(x, r[i])
  OBVIOUS
<1> HIDE DEF F
<1>6. PICK g : /\ g \in [0..n -> Fraction] /\ g[0] = <<0, 1>>
               /\ \A i \in 1..n : g[i] = F[i][g[i - 1]]
  <2>1. n \in Nat
    BY <1>1
  <2>2. \E g : Iterates(g, <<0, 1>>, F, n, Fraction)
    BY <1>3, <1>4, <2>1, Recursion
  <2> QED
    BY <2>2 DEF Iterates
<1>7. ASSUME NEW i \in 0..n
      PROVE  g[i] = IF i = 0 THEN <<0, 1>> ELSE Plus(g[i - 1], r[i])
  <2>1. CASE i = 0
    BY <1>6, <2>1
  <2>2. CASE i # 0
    <3>1. i \in 1..n /\ i - 1 \in 0..n
      BY <1>1, <2>2
    <3> QED
      BY <1>5, <1>6, <2>2, <3>1
  <2> QED
    BY <2>1, <2>2
<1>8. Summing(g, r)
  <2>1. g = [i \in 0..n |-> IF i = 0 THEN <<0, 1>> ELSE Plus(g[i - 1], r[i])]
    BY <1>6, <1>7
  <2> QED
    BY <2>1, Zenon DEF Summing, n
<1> DEFINE f == CHOOSE x : Summing(x, r)
<1>9. Summing(f, r)
  BY <1>8, Zenon
<1>10. Mean(r) = <<f[n][1], f[n][2] * n>>
  BY Zenon DEF Mean, Summing, n
<1> HIDE DEF f
<1>11. /\ f[0] = <<0, 1>>
       /\ \A i \in 1..n : f[i] = Plus(f[i - 1], r[i])
  <2>1. f = [i \in 0..n |-> IF i = 0 THEN <<0, 1>> ELSE Plus(f[i - 1], r[i])]
    BY <1>9, Zenon DEF Summing, n
  <2>2. ASSUME NEW i \in 0..n
        PROVE  f[i] = IF i = 0 THEN <<0, 1>> ELSE Plus(f[i - 1], r[i])
    BY <2>1, Zenon
  <2>3. 0 \in 0..n /\ \A i \in 1..n : i \in 0..n /\ i # 0
    BY <1>1
  <2>4. f[0] = <<0, 1>>
    BY <2>2, <2>3
  <2>5. ASSUME NEW i \in 1..n PROVE f[i] = Plus(f[i - 1], r[i])
    <3>1. i \in 0..n /\ i # 0
      BY <2>3
    <3>2. f[i] = IF i = 0 THEN <<0, 1>> ELSE Plus(f[i - 1], r[i])
      BY <2>2, <3>1
    <3> QED
      BY <3>1, <3>2
  <2> QED
    BY <2>4, <2>5
<1>12. \A i \in 0..n : f[i] \in Fraction
  <2> DEFINE S == {i \in 0..n : f[i] \in Fraction}
  <2>1. 0 \in S
    <3>1. f[0] \in Fraction /\ 0 \in 0..n
      BY <1>1, <1>3, <1>11
    <3> QED
      BY <3>1
  <2>2. ASSUME NEW i \in 1..n, i - 1 \in S
        PROVE  i \in S
    <3>1. i \in 0..n /\ f[i - 1] \in Fraction /\ r[i] \in Fraction
      BY <1>2, <2>2
    <3>2. f[i] \in Fraction
      BY <1>11, <3>1, PlusFraction
    <3> QED
      BY <3>1, <3>2
  <2> HIDE DEF S
  <2>3. \A i \in 0..n : i \in S
    BY <1>1, <2>1, <2>2, RangeInduction
  <2> QED
    BY <2>3 DEF S
<1> QED
  BY <1>10, <1>11, <1>12, Zenon DEF n

\* The mean of fractions is a fraction.
LEMMA MeanFraction ==
    ASSUME NEW r \in Seq(Fraction), Len(r) # 0
    PROVE  Mean(r) \in Fraction
<1> DEFINE n == Len(r)
<1>1. PICK f : /\ \A i \in 0..n : f[i] \in Fraction
               /\ Mean(r) = <<f[n][1], f[n][2] * n>>
  BY MeanLoop
<1>2. n \in Nat \ {0} /\ n \in 0..n
  OBVIOUS
<1> HIDE DEF n
<1>3. f[n] \in Fraction
  BY <1>1, <1>2
<1>4. f[n][1] \in Int /\ f[n][2] \in Nat \ {0}
  BY <1>3 DEF Fraction
<1>5. f[n][1] \in Int /\ f[n][2] * n \in Nat \ {0}
  BY <1>2, <1>4
<1> QED
  BY <1>1, <1>5 DEF Fraction

\* The usable pairs predict a profit, so their ratios are fractions.
LEMMA RatiosAreFractions ==
    ASSUME NEW h, h.pairs \in Seq(Int \X Int), NEW n \in Nat
    PROVE  recent_ratios(h, n) \in Seq(Fraction)
<1> DEFINE s == h.pairs
           S == Int \X Int
           K == {p \in S : p[1] > 0}
           kept == {i \in DOMAIN s : s[i][1] > 0}
           u == ElementsAt(s, kept)
           r == Recent(u, n)
<1>1. s \in Seq(S) /\ kept \in SUBSET DOMAIN s /\ \A i \in kept : s[i] \in K
  OBVIOUS
<1>2. PositivePairs(h) = u
  BY DEF PositivePairs
<1>3. recent_ratios(h, n) = [i \in DOMAIN r |-> Ratio(r[i])]
  BY <1>2 DEF recent_ratios
<1>4. \A p \in K : Ratio(p) \in Fraction
  BY DEF Ratio, Fraction
<1> HIDE DEF s, S, K, kept
<1>5. u \in Seq(K)
  <2>1. /\ u \in Seq(S) /\ Len(u) = Cardinality(kept)
        /\ \A k \in 1..Cardinality(kept) : Min(Place(kept, k)) \in kept
    BY <1>1, ElementsAtType
  <2>2. u = [k \in 1..Cardinality(kept) |-> s[Min(Place(kept, k))]]
    BY ElementsAtRank
  <2> HIDE DEF u
  <2>3. \A k \in 1..Len(u) : u[k] \in K
    BY <1>1, <2>1, <2>2
  <2>4. Len(u) \in Nat /\ u = [k \in 1..Len(u) |-> u[k]]
    BY <2>1
  <2> QED
    BY <2>3, <2>4
<1> HIDE DEF u
<1>6. r \in Seq(K)
  BY <1>5, RecentWindow
<1> HIDE DEF r
<1>7. \A i \in DOMAIN r : Ratio(r[i]) \in Fraction
  BY <1>4, <1>6
<1> QED
  BY <1>3, <1>6, <1>7

\* A higher threshold of the same window trips whenever the lower one does.
LEMMA FastRaised ==
    ASSUME NEW h, h.pairs \in Seq(Int \X Int), NEW low, NEW high,
           high.fast.window = low.fast.window, low.fast.window \in Nat,
           low.fast.threshold \in Fraction, high.fast.threshold \in Fraction,
           ~Less(high.fast.threshold, low.fast.threshold), FastHalt(low, h)
    PROVE  FastHalt(high, h)
<1> DEFINE r == recent_ratios(h, low.fast.window)
           a == low.fast.threshold
           b == high.fast.threshold
<1>1. r \in Seq(Fraction)
  BY RatiosAreFractions
<1>2. Len(r) = low.fast.window /\ \A i \in DOMAIN r : Less(r[i], a)
  BY DEF FastHalt
<1>3. a \in Fraction /\ b \in Fraction /\ ~Less(b, a)
  OBVIOUS
<1> HIDE DEF r, a, b
<1>4. ASSUME NEW i \in DOMAIN r PROVE Less(r[i], b)
  <2>1. r[i] \in Fraction /\ Less(r[i], a)
    BY <1>1, <1>2
  <2> QED
    BY <1>3, <2>1, LessRaised
<1> QED
  BY <1>2, <1>4 DEF FastHalt, r, b

\* The slow guard still trips when its threshold is raised.
LEMMA SlowRaised ==
    ASSUME NEW h, h.pairs \in Seq(Int \X Int), NEW low, NEW high,
           high.slow.window = low.slow.window, low.slow.window \in Nat \ {0},
           low.slow.threshold \in Fraction, high.slow.threshold \in Fraction,
           ~Less(high.slow.threshold, low.slow.threshold), SlowHalt(low, h)
    PROVE  SlowHalt(high, h)
<1> DEFINE r == recent_ratios(h, low.slow.window)
           a == low.slow.threshold
           b == high.slow.threshold
<1>1. r \in Seq(Fraction)
  BY RatiosAreFractions
<1>2. Len(r) = low.slow.window /\ Less(Mean(r), a)
  BY DEF SlowHalt
<1>3. a \in Fraction /\ b \in Fraction /\ ~Less(b, a) /\ Len(r) # 0
  BY <1>2
<1> HIDE DEF r, a, b
<1>4. Mean(r) \in Fraction
  BY <1>1, <1>3, MeanFraction
<1>5. Less(Mean(r), b)
  BY <1>2, <1>3, <1>4, LessRaised
<1> QED
  BY <1>2, <1>5 DEF SlowHalt, r, b

\* With the burst, the fast and the slow guard alone, evaluate halts exactly
\* when one of the three trips.
LEMMA ThreeGuards ==
    ASSUME NEW policy, policy.revert_gas = {}, policy.drawdown = {},
           policy.volume_weighted = {}, NEW h
    PROVE  Halts(policy, h) <=> \/ RevertBurstHalt(policy, h)
                                \/ FastHalt(policy, h)
                                \/ SlowHalt(policy, h)
<1> DEFINE c == Checks(policy, h)
<1>1. /\ ~RevertGasHalt(policy, h) /\ ~RevertGasOverflows(policy, h)
      /\ ~DrawdownHalt(policy, h) /\ ~DrawdownOverflows(policy, h)
      /\ ~VolumeWeightedHalt(policy, h) /\ ~VolumeWeightedOverflows(policy, h)
  BY DEF RevertGasHalt, RevertGasOverflows, DrawdownHalt, DrawdownOverflows,
         VolumeWeightedHalt, VolumeWeightedOverflows
<1>2. /\ c[1].tripped = RevertBurstHalt(policy, h)
      /\ ~c[2].tripped
      /\ c[3].tripped = FastHalt(policy, h)
      /\ ~c[4].tripped /\ ~c[5].tripped
      /\ c[6].tripped = SlowHalt(policy, h)
  BY <1>1 DEF Checks, Check
<1>3. /\ ~c[1].overflows /\ ~c[2].overflows /\ ~c[3].overflows
      /\ ~c[4].overflows /\ ~c[5].overflows /\ ~c[6].overflows
  BY <1>1 DEF Checks, Check
<1>4. \A i \in 1..6 : i = 1 \/ i = 2 \/ i = 3 \/ i = 4 \/ i = 5 \/ i = 6
  OBVIOUS
<1>5. /\ \A i \in 1..6 :
            /\ c[i].tripped /\ ~Panics(c[i])
            /\ \A j \in 1..6 : j < i => ~Stops(c[j])
            => Halts(policy, h)
      /\ Halts(policy, h) =>
            \E i \in 1..6 :
                /\ c[i].tripped /\ ~Panics(c[i])
                /\ \A j \in 1..6 : j < i => ~Stops(c[j])
                /\ evaluate(policy, h) = c[i].reason
  BY HaltsAtATrippedCheck
<1> HIDE DEF c
<1>6. \A i \in 1..6 : ~Panics(c[i])
  BY <1>3, <1>4, Zenon DEF Panics
<1>7. \A i \in 1..6 : Stops(c[i]) <=> c[i].tripped
  BY <1>6, Zenon DEF Stops
<1>8. ASSUME RevertBurstHalt(policy, h) PROVE Halts(policy, h)
  <2>1. 1 \in 1..6 /\ \A j \in 1..6 : ~(j < 1)
    OBVIOUS
  <2> QED
    BY <1>2, <1>5, <1>6, <1>8, <2>1
<1>9. ASSUME ~RevertBurstHalt(policy, h), FastHalt(policy, h)
      PROVE  Halts(policy, h)
  <2>1. 3 \in 1..6 /\ \A j \in 1..6 : j < 3 => j = 1 \/ j = 2
    OBVIOUS
  <2>2. \A j \in 1..6 : j < 3 => ~Stops(c[j])
    BY <1>2, <1>7, <1>9, <2>1
  <2> QED
    BY <1>2, <1>5, <1>6, <1>9, <2>1, <2>2
<1>10. ASSUME ~RevertBurstHalt(policy, h), ~FastHalt(policy, h),
              SlowHalt(policy, h)
       PROVE  Halts(policy, h)
  <2>1. 6 \in 1..6 /\ \A j \in 1..6 : j < 6 => \/ j = 1 \/ j = 2 \/ j = 3
                                               \/ j = 4 \/ j = 5
    OBVIOUS
  <2>2. \A j \in 1..6 : j < 6 => ~Stops(c[j])
    BY <1>2, <1>7, <1>10, <2>1
  <2> QED
    BY <1>2, <1>5, <1>6, <1>10, <2>1, <2>2
<1>11. ASSUME Halts(policy, h)
       PROVE  \/ RevertBurstHalt(policy, h) \/ FastHalt(policy, h)
              \/ SlowHalt(policy, h)
  <2>1. PICK i \in 1..6 : c[i].tripped
    BY <1>5, <1>11
  <2> QED
    BY <1>2, <1>4, <2>1
<1> QED
  BY <1>8, <1>9, <1>10, <1>11

\* Among guards that cannot overflow, a tripped fast guard comes before the
\* slow one.
LEMMA FastIsTheReason ==
    ASSUME NEW policy, policy.revert_burst = {}, policy.revert_gas = {},
           policy.drawdown = {}, policy.volume_weighted = {},
           NEW h, FastHalt(policy, h)
    PROVE  evaluate(policy, h) = "FastGuard"
<1> DEFINE c == Checks(policy, h)
<1>1. ~RevertBurstHalt(policy, h) /\ ~RevertGasHalt(policy, h)
  BY DEF RevertBurstHalt, RevertGasHalt
<1>2. /\ ~c[1].tripped /\ ~c[2].tripped /\ c[3].tripped
      /\ c[3].reason = "FastGuard"
  BY <1>1 DEF Checks, Check
<1>3. Halts(policy, h)
  BY ThreeGuards
<1>4. Halts(policy, h) =>
         \E i \in 1..6 :
             /\ c[i].tripped /\ ~Panics(c[i])
             /\ \A j \in 1..6 : j < i => ~Stops(c[j])
             /\ evaluate(policy, h) = c[i].reason
  BY HaltsAtATrippedCheck
<1> HIDE DEF c
<1>5. PICK i \in 1..6 : /\ c[i].tripped
                        /\ \A j \in 1..6 : j < i => ~Stops(c[j])
                        /\ evaluate(policy, h) = c[i].reason
  BY <1>3, <1>4
<1>6. Stops(c[3]) /\ 3 \in 1..6
  BY <1>2 DEF Stops
<1>7. ~(3 < i) /\ i # 1 /\ i # 2
  BY <1>2, <1>5, <1>6
<1>8. i = 3
  BY <1>7
<1> QED
  BY <1>2, <1>5, <1>8

-----------------------------------------------------------------------------
(* The mean and its ratios *)

\* A sum of i ratios of at least t each, and one more of them.
LEMMA SumAbove ==
    ASSUME NEW a \in Fraction, NEW b \in Fraction, NEW t \in Fraction, NEW i \in Int,
           a[1] * t[2] >= (i * t[1]) * a[2], ~Less(b, t)
    PROVE  Plus(a, b)[1] * t[2] >= ((i + 1) * t[1]) * Plus(a, b)[2]
<1> DEFINE a1 == a[1]
           a2 == a[2]
           b1 == b[1]
           b2 == b[2]
           t1 == t[1]
           t2 == t[2]
<1>1. /\ a1 \in Int /\ b1 \in Int /\ t1 \in Int
      /\ a2 \in Nat \ {0} /\ b2 \in Nat \ {0} /\ t2 \in Nat \ {0}
      /\ a1 * t2 >= (i * t1) * a2 /\ ~(b1 * t2 < t1 * b2)
  BY DEF Less, Fraction
<1>2. SUFFICES (a1 * b2 + b1 * a2) * t2 >= ((i + 1) * t1) * (a2 * b2)
  BY DEF Plus
<1> HIDE DEF a1, a2, b1, b2, t1, t2
<1>3. /\ a1 * t2 \in Int /\ (i * t1) * a2 \in Int /\ b1 * t2 \in Int /\ t1 * b2 \in Int
  BY <1>1
<1>4. (a1 * t2) * b2 >= ((i * t1) * a2) * b2
  BY <1>1, <1>3
<1>5. (b1 * t2) * a2 >= (t1 * b2) * a2
  BY <1>1, <1>3
<1>6. /\ (a1 * b2 + b1 * a2) * t2 = (a1 * t2) * b2 + (b1 * t2) * a2
      /\ ((i + 1) * t1) * (a2 * b2) = ((i * t1) * a2) * b2 + (t1 * b2) * a2
  BY <1>1
<1>7. /\ (a1 * t2) * b2 \in Int /\ ((i * t1) * a2) * b2 \in Int
      /\ (b1 * t2) * a2 \in Int /\ (t1 * b2) * a2 \in Int
  BY <1>1, <1>3
<1> QED
  BY <1>4, <1>5, <1>6, <1>7

\* The mean of ratios that are all at or above t is not below t.
LEMMA MeanAbove ==
    ASSUME NEW r \in Seq(Fraction), Len(r) # 0, NEW t \in Fraction,
           \A i \in 1..Len(r) : ~Less(r[i], t)
    PROVE  ~Less(Mean(r), t)
<1> DEFINE n == Len(r)
<1>1. PICK f : /\ f[0] = <<0, 1>>
               /\ \A i \in 1..n : f[i] = Plus(f[i - 1], r[i])
               /\ \A i \in 0..n : f[i] \in Fraction
               /\ Mean(r) = <<f[n][1], f[n][2] * n>>
  BY MeanLoop
<1>2. n \in Nat /\ n \in 0..n /\ \A i \in 1..n : r[i] \in Fraction /\ ~Less(r[i], t)
  OBVIOUS
<1> HIDE DEF n
<1> DEFINE Above(i) == f[i][1] * t[2] >= (i * t[1]) * f[i][2]
           S == {i \in 0..n : Above(i)}
<1>3. t[1] \in Int /\ t[2] \in Nat \ {0}
  BY DEF Fraction
<1>4. 0 \in S
  <2>1. f[0][1] = 0 /\ f[0][2] = 1
    BY <1>1
  <2>2. Above(0) /\ 0 \in 0..n
    BY <1>2, <1>3, <2>1
  <2> HIDE DEF Above
  <2> QED
    BY <2>2
<1>5. ASSUME NEW i \in 1..n, i - 1 \in S
      PROVE  i \in S
  <2> DEFINE a == f[i - 1]
             b == r[i]
             j == i - 1
  <2>1. /\ i \in 0..n /\ i - 1 \in 0..n /\ i - 1 \in Int /\ i \in Int
    BY <1>2
  <2>2. /\ a \in Fraction /\ b \in Fraction /\ ~Less(b, t) /\ j \in Int
        /\ a[1] * t[2] >= (j * t[1]) * a[2]
    BY <1>1, <1>2, <1>5, <2>1
  <2>3. f[i] = Plus(a, b) /\ j + 1 = i
    BY <1>1, <2>1
  <2> HIDE DEF a, b, j
  <2>4. Plus(a, b)[1] * t[2] >= ((j + 1) * t[1]) * Plus(a, b)[2]
    BY <2>2, SumAbove
  <2>5. Above(i)
    BY <2>3, <2>4
  <2> HIDE DEF Above
  <2> QED
    BY <2>1, <2>5
<1>6. Above(n)
  <2> HIDE DEF S
  <2>1. \A i \in 0..n : i \in S
    BY <1>2, <1>4, <1>5, RangeInduction
  <2>2. n \in S
    BY <1>2, <2>1
  <2> QED
    BY <2>2 DEF S
<1>7. f[n] \in Fraction
  BY <1>1, <1>2
<1> DEFINE x == f[n][1]
           y == f[n][2]
           t1 == t[1]
           t2 == t[2]
<1>8. x \in Int /\ y \in Nat \ {0} /\ t1 \in Int /\ t2 \in Nat \ {0} /\ x * t2 >= (n * t1) * y
  BY <1>3, <1>6, <1>7 DEF Fraction
<1>9. Less(Mean(r), t) <=> x * t2 < t1 * (y * n)
  BY <1>1 DEF Less
<1> HIDE DEF x, y, t1, t2
<1>10. (n * t1) * y = t1 * (y * n)
  BY <1>2, <1>8
<1>11. x * t2 \in Int /\ t1 * (y * n) \in Int
  BY <1>2, <1>8
<1> QED
  BY <1>8, <1>9, <1>10, <1>11

\* The slow guard trips only over a ratio that is below its threshold.
LEMMA SlowNeedsALowRatio ==
    ASSUME NEW policy, policy.slow.window \in Nat \ {0},
           policy.slow.threshold \in Fraction,
           NEW h, h.pairs \in Seq(Int \X Int), SlowHalt(policy, h),
           NEW r, r = recent_ratios(h, policy.slow.window)
    PROVE  \E i \in 1..Len(r) : Less(r[i], policy.slow.threshold)
<1>1. r \in Seq(Fraction)
  BY RatiosAreFractions
<1>2. Len(r) # 0 /\ Less(Mean(r), policy.slow.threshold)
  BY DEF SlowHalt
<1> QED
  BY <1>1, <1>2, MeanAbove

-----------------------------------------------------------------------------
(* The sum of ratios in closed form: over a common denominator, the        *)
(* product of all of them.                                                 *)

\* A common factor of the amounts is a factor of their sum.
LEMMA SumScales ==
    ASSUME NEW W, IsFiniteSet(W), NEW c \in Int, NEW f, NEW g,
           \A i \in W : f[i] \in Int /\ g[i] = c * f[i]
    PROVE  /\ SumFunctionOnSet(f, W) \in Int /\ SumFunctionOnSet(g, W) \in Int
           /\ SumFunctionOnSet(g, W) = c * SumFunctionOnSet(f, W)
<1> DEFINE F(s) == SumFunctionOnSet(f, s)
           G(s) == SumFunctionOnSet(g, s)
           Holds(s) == F(s) \in Int /\ G(s) \in Int /\ G(s) = c * F(s)
           Good == {s \in SUBSET W : Holds(s)}
<1>1. {} \in Good
  <2>1. IsFiniteSet({}) /\ (\A y \in {} : f[y] \in Int) /\ (\A y \in {} : g[y] \in Int)
    BY FS_EmptySet
  <2>2. F({}) = 0 /\ G({}) = 0
    <3>1. PICK k : Folded(k, Adding, 0, f, {}) /\ F({}) = k[{}]
      BY <2>1, SumFolds
    <3>2. PICK l : Folded(l, Adding, 0, g, {}) /\ G({}) = l[{}]
      BY <2>1, SumFolds
    <3> QED
      BY <3>1, <3>2 DEF Folded
  <2> HIDE DEF F, G
  <2>3. Holds({})
    BY <2>2
  <2> QED
    BY <2>3
<1>2. ASSUME NEW s \in SUBSET W, s # {}, \A x \in s : s \ {x} \in Good
      PROVE  s \in Good
  <2>1. PICK x : x \in s
    BY <1>2
  <2> DEFINE r == s \ {x}
  <2>2. /\ Holds(r) /\ IsFiniteSet(r) /\ x \notin r /\ s = r \cup {x}
        /\ \A y \in s : f[y] \in Int /\ g[y] \in Int
    <3>1. r \in Good /\ r \in SUBSET W
      BY <1>2, <2>1
    <3>2. Holds(r)
      BY <3>1
    <3>3. IsFiniteSet(r)
      BY <3>1, FS_Subset
    <3>4. \A y \in s : f[y] \in Int /\ c * f[y] \in Int /\ g[y] = c * f[y]
      OBVIOUS
    <3>5. x \notin r /\ s = r \cup {x}
      BY <2>1
    <3> HIDE DEF Holds
    <3> QED
      BY <3>2, <3>3, <3>4, <3>5
  <2> HIDE DEF r
  <2>3. F(s) = f[x] + F(r)
    BY <2>2, SumGrows
  <2>4. G(s) = g[x] + G(r)
    BY <2>2, SumGrows
  <2>5. f[x] \in Int /\ g[x] = c * f[x]
    BY <2>1
  <2> HIDE DEF F, G
  <2>6. F(r) \in Int /\ G(r) = c * F(r)
    BY <2>2
  <2>7. c * (f[x] + F(r)) = c * f[x] + c * F(r)
    BY <2>5, <2>6
  <2>8. Holds(s)
    BY <2>3, <2>4, <2>5, <2>6, <2>7
  <2> HIDE DEF Holds
  <2> QED
    BY <2>8
<1> HIDE DEF Good
<1>3. \A s \in SUBSET W : s \in Good
  BY <1>1, <1>2, SubsetInduction
<1>4. W \in Good
  BY <1>3
<1> QED
  BY <1>4 DEF Good

\* The numerators of the ratios R[i] / P[i] over the product of all P[i].
Scaled(R, P, W) == [i \in W |-> R[i] * ProductOf(P, W \ {i})]

\* The numerator of the sum of all ratios.
Numerator(R, P, W) == SumFunctionOnSet(Scaled(R, P, W), W)

\* Adding fractions over a common denominator.
LEMMA NumeratorGrows ==
    ASSUME NEW W, IsFiniteSet(W), NEW x, x \notin W, NEW V, V = W \cup {x},
           NEW R, NEW P, \A i \in V : R[i] \in Int /\ P[i] \in Int
    PROVE  /\ Numerator(R, P, W) \in Int /\ ProductOf(P, W) \in Int
           /\ ProductOf(P, V) = P[x] * ProductOf(P, W)
           /\ Numerator(R, P, V) = R[x] * ProductOf(P, W) + P[x] * Numerator(R, P, W)
<1> DEFINE f == Scaled(R, P, W)
           g == Scaled(R, P, V)
<1>1. /\ \A i \in W : R[i] \in Int /\ P[i] \in Int
      /\ R[x] \in Int /\ P[x] \in Int /\ x \in V /\ W \in SUBSET V /\ IsFiniteSet(V)
  BY FS_AddElement
<1>2. ProductOf(P, W) \in Int /\ ProductOf(P, V) = P[x] * ProductOf(P, W)
  <2>1. \A i \in V : P[i] \in Int
    OBVIOUS
  <2> QED
    BY <2>1, ProductGrows
<1>3. ASSUME NEW i \in W PROVE f[i] \in Int /\ g[i] = P[x] * f[i]
  <2> DEFINE A == W \ {i}
             B == V \ {i}
  <2>1. B = A \cup {x} /\ x \notin A /\ \A j \in B : P[j] \in Int
    BY <1>1
  <2>2. IsFiniteSet(A)
    BY FS_Subset
  <2> HIDE DEF A, B
  <2>3. ProductOf(P, A) \in Int /\ ProductOf(P, B) = P[x] * ProductOf(P, A)
    BY <2>1, <2>2, ProductGrows
  <2>4. f[i] = R[i] * ProductOf(P, A) /\ g[i] = R[i] * ProductOf(P, B)
    BY <1>1 DEF Scaled, A, B
  <2>5. R[i] * (P[x] * ProductOf(P, A)) = P[x] * (R[i] * ProductOf(P, A))
    BY <1>1, <2>3
  <2> QED
    BY <1>1, <2>3, <2>4, <2>5
<1>4. g[x] = R[x] * ProductOf(P, W)
  <2>1. V \ {x} = W
    OBVIOUS
  <2> QED
    BY <1>1, <2>1 DEF Scaled
<1> HIDE DEF f, g
<1>5. /\ SumFunctionOnSet(f, W) \in Int
      /\ SumFunctionOnSet(g, W) = P[x] * SumFunctionOnSet(f, W)
  BY <1>1, <1>3, SumScales
<1>6. \A i \in V : g[i] \in Int
  BY <1>1, <1>2, <1>3, <1>4
<1>7. SumFunctionOnSet(g, V) = g[x] + SumFunctionOnSet(g, W)
  BY <1>6, SumGrows
<1> QED
  BY <1>2, <1>4, <1>5, <1>7 DEF f, g, Numerator

\* Of nothing.
LEMMA NumeratorNone ==
    ASSUME NEW R, NEW P
    PROVE  Numerator(R, P, {}) = 0 /\ ProductOf(P, {}) = 1
<1>1. IsFiniteSet({}) /\ \A f : \A y \in {} : f[y] \in Int
  BY FS_EmptySet
<1> DEFINE f == Scaled(R, P, {})
<1> HIDE DEF f
<1>2. PICK k : Folded(k, Adding, 0, f, {}) /\ SumFunctionOnSet(f, {}) = k[{}]
  BY <1>1, SumFolds
<1>3. PICK l : Folded(l, Multiplying, 1, P, {}) /\ ProductOf(P, {}) = l[{}]
  BY <1>1, ProductFolds
<1> QED
  BY <1>2, <1>3 DEF Folded, Numerator, f

\* The mean of ratios that are listed by an enumeration of W.
LEMMA MeanEnumerated ==
    ASSUME NEW W, NEW r \in Seq(Fraction), Len(r) # 0, NEW q, Enumerates(q, Len(r), W),
           NEW R, NEW P, \A k \in 1..Len(r) : r[k][1] = R[q[k]] /\ r[k][2] = P[q[k]]
    PROVE  Mean(r) = <<Numerator(R, P, W), ProductOf(P, W) * Len(r)>>
<1> DEFINE m == Len(r)
           N(k) == Numerator(R, P, First(q, k))
           D(k) == ProductOf(P, First(q, k))
<1>1. m \in Nat /\ \A k \in 1..m : r[k] \in Fraction /\ r[k][1] \in Int /\ r[k][2] \in Int
  BY DEF Fraction
<1>2. \A x \in W : R[x] \in Int /\ P[x] \in Int
  <2> SUFFICES ASSUME NEW x \in W PROVE R[x] \in Int /\ P[x] \in Int
    OBVIOUS
  <2>1. PICK a \in 1..Len(r) : q[a] = x
    BY DEF Enumerates
  <2> QED
    BY <1>1, <2>1
<1>3. PICK f : /\ f[0] = <<0, 1>>
               /\ \A i \in 1..m : f[i] = Plus(f[i - 1], r[i])
               /\ \A i \in 0..m : f[i] \in Fraction
               /\ Mean(r) = <<f[m][1], f[m][2] * m>>
  BY MeanLoop
<1>4. /\ First(q, 0) = {} /\ First(q, m) = W
      /\ \A k \in 1..m : /\ First(q, k) = First(q, k - 1) \cup {q[k]}
                         /\ q[k] \notin First(q, k - 1)
      /\ \A k \in 0..m : First(q, k) \subseteq W /\ IsFiniteSet(First(q, k))
  BY FirstGrows
<1>5. \A k \in 1..m : r[k][1] = R[q[k]] /\ r[k][2] = P[q[k]]
  OBVIOUS
<1> HIDE DEF m
<1> DEFINE Same(k) == f[k][1] = N(k) /\ f[k][2] = D(k)
           I == {k \in 0..m : Same(k)}
<1>6. 0 \in I
  <2>1. Same(0)
    <3>1. N(0) = Numerator(R, P, {}) /\ D(0) = ProductOf(P, {})
      BY <1>4
    <3>2. f[0][1] = 0 /\ f[0][2] = 1
      BY <1>3
    <3> QED
      BY <3>1, <3>2, NumeratorNone
  <2>2. 0 \in 0..m
    BY <1>1
  <2> HIDE DEF Same
  <2> QED
    BY <2>1, <2>2
<1>7. ASSUME NEW k \in 1..m, k - 1 \in I PROVE k \in I
  <2> DEFINE A == First(q, k - 1)
             B == First(q, k)
  <2>1. k - 1 \in 0..m /\ k \in 0..m
    BY <1>1
  <2>2. /\ B = A \cup {q[k]} /\ q[k] \notin A /\ IsFiniteSet(A)
        /\ \A y \in B : R[y] \in Int /\ P[y] \in Int
    BY <1>2, <1>4, <2>1
  <2> HIDE DEF A, B
  <2>3. /\ Numerator(R, P, A) \in Int /\ ProductOf(P, A) \in Int
        /\ ProductOf(P, B) = P[q[k]] * ProductOf(P, A)
        /\ Numerator(R, P, B) = R[q[k]] * ProductOf(P, A) + P[q[k]] * Numerator(R, P, A)
    <3> DEFINE x == q[k]
    <3>1. B = A \cup {x}
      BY <2>2
    <3>2. x \notin A /\ IsFiniteSet(A)
      BY <2>2
    <3>3. \A y \in B : R[y] \in Int /\ P[y] \in Int
      BY <2>2
    <3> HIDE DEF x
    <3>4. /\ Numerator(R, P, A) \in Int /\ ProductOf(P, A) \in Int
          /\ ProductOf(P, B) = P[x] * ProductOf(P, A)
          /\ Numerator(R, P, B) = R[x] * ProductOf(P, A) + P[x] * Numerator(R, P, A)
      BY <3>1, <3>2, <3>3, NumeratorGrows
    <3> QED
      BY <3>4 DEF x
  <2>4. f[k - 1][1] = Numerator(R, P, A) /\ f[k - 1][2] = ProductOf(P, A)
    BY <1>7 DEF A
  <2>5. f[k] = Plus(f[k - 1], r[k]) /\ r[k][1] = R[q[k]] /\ r[k][2] = P[q[k]]
    BY <1>3, <1>5
  <2>6. /\ f[k][1] = f[k - 1][1] * r[k][2] + r[k][1] * f[k - 1][2]
        /\ f[k][2] = f[k - 1][2] * r[k][2]
    BY <2>5 DEF Plus
  <2>7. r[k][1] \in Int /\ r[k][2] \in Int
    BY <1>1
  <2>8. f[k][1] = Numerator(R, P, B) /\ f[k][2] = ProductOf(P, B)
    <3> DEFINE a == Numerator(R, P, A)
               b == ProductOf(P, A)
               c == r[k][1]
               d == r[k][2]
    <3>1. /\ a \in Int /\ b \in Int /\ c \in Int /\ d \in Int
          /\ ProductOf(P, B) = d * b /\ Numerator(R, P, B) = c * b + d * a
          /\ f[k][1] = a * d + c * b /\ f[k][2] = b * d
      BY <2>3, <2>4, <2>5, <2>6, <2>7
    <3> HIDE DEF a, b, c, d
    <3>2. d * b = b * d /\ a * d = d * a /\ c * b \in Int /\ d * a \in Int
      BY <3>1
    <3> QED
      BY <3>1, <3>2
  <2>9. Same(k)
    BY <2>8 DEF B
  <2> HIDE DEF Same
  <2> QED
    BY <2>1, <2>9
<1> HIDE DEF I
<1>8. m \in I
  <2>1. \A k \in 0..m : k \in I
    BY <1>1, <1>6, <1>7, RangeInduction
  <2>2. m \in 0..m
    BY <1>1
  <2> QED
    BY <2>1, <2>2
<1>9. f[m][1] = N(m) /\ f[m][2] = D(m)
  BY <1>8 DEF I
<1> QED
  BY <1>3, <1>4, <1>9 DEF m
=============================================================================
