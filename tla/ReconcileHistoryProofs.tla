----------------------- MODULE ReconcileHistoryProofs -----------------------
(***************************************************************************)
(* Lemmas about the operations of ReconcileHistory that the proofs about   *)
(* its users rest on, and about sums over the sets of positions that its   *)
(* sequences list.                                                         *)
(***************************************************************************)
EXTENDS ReconcileHistory, SequenceTheorems, FiniteSetTheorems,
        WellFoundedInduction, TLAPS

-----------------------------------------------------------------------------
(* Induction over the naturals, from the least counterexample, and the     *)
(* functions that a recursive definition over 0..n names.                  *)

\* A nonempty set of naturals has a least element.
LEMMA LeastNat ==
    ASSUME NEW T, T \subseteq Nat, T # {}
    PROVE  \E x \in T : \A y \in T : x <= y
<1> DEFINE R == OpToRel(<, Nat)
<1>1. IsWellFoundedOn(R, Nat)
  BY NatLessThanWellFounded
<1>2. R = {ss \in Nat \X Nat : ss[1] < ss[2]}
  BY Zenon DEF OpToRel
<1>3. \A a, b \in Nat : a < b => <<a, b>> \in {ss \in Nat \X Nat : ss[1] < ss[2]}
  OBVIOUS
<1> HIDE DEF R
<1>4. \A a, b \in Nat : a < b => <<a, b>> \in R
  BY <1>2, <1>3
<1>5. PICK x \in T : \A y \in T : ~(<<y, x>> \in R)
  BY <1>1, WFMin, Zenon
<1>6. ASSUME NEW y \in T PROVE x <= y
  <2>1. x \in Nat /\ y \in Nat
    OBVIOUS
  <2>2. ~(y < x)
    BY <1>4, <1>5, <2>1, Zenon
  <2> QED
    BY <2>1, <2>2
<1> QED
  BY <1>6

\* What holds of 0 and passes from one number to the next holds up to n.
LEMMA RangeInduction ==
    ASSUME NEW n \in Nat, NEW S, 0 \in S,
           \A i \in 1..n : i - 1 \in S => i \in S
    PROVE  \A i \in 0..n : i \in S
<1> DEFINE T == {i \in 0..n : i \notin S}
<1> SUFFICES ASSUME T # {} PROVE FALSE
  OBVIOUS
<1>1. T \subseteq Nat
  OBVIOUS
<1>2. PICK x \in T : \A y \in T : x <= y
  BY <1>1, LeastNat
<1>3. x # 0 /\ x \in 0..n /\ x \notin S
  OBVIOUS
<1>4. x \in 1..n /\ x - 1 \in 0..n /\ ~(x <= x - 1)
  BY <1>3
<1>5. x - 1 \in S
  BY <1>2, <1>4
<1> QED
  BY <1>3, <1>4, <1>5

\* g starts at a, then F[i] makes the i-th value of the one before it.
Iterates(g, a, F, n, V) ==
    /\ g \in [0..n -> V] /\ g[0] = a
    /\ \A i \in 1..n : g[i] = F[i][g[i - 1]]

\* A finite recursion has a solution.
LEMMA Recursion ==
    ASSUME NEW V, NEW a \in V, NEW n \in Nat, NEW F \in [1..n -> [V -> V]]
    PROVE  \E g : Iterates(g, a, F, n, V)
<1> DEFINE Solves(g, m) == Iterates(g, a, F, m, V)
           S == {m \in 0..n : \E g : Solves(g, m)}
<1>1. 0 \in S
  <2> DEFINE z == [i \in 0..0 |-> a]
  <2>1. z \in [0..0 -> V] /\ z[0] = a /\ \A i \in 1..0 : FALSE
    OBVIOUS
  <2> HIDE DEF z
  <2>2. Solves(z, 0)
    BY <2>1 DEF Iterates
  <2> HIDE DEF Solves
  <2> QED
    BY <2>2
<1>2. ASSUME NEW m \in 1..n, m - 1 \in S
      PROVE  m \in S
  <2>0. PICK g : Solves(g, m - 1)
    BY <1>2
  <2>1. /\ g \in [0..m - 1 -> V] /\ g[0] = a
        /\ \A i \in 1..m - 1 : g[i] = F[i][g[i - 1]]
    BY <2>0 DEF Iterates
  <2> DEFINE v == F[m][g[m - 1]]
             h == [i \in 0..m |-> IF i = m THEN v ELSE g[i]]
  <2>2. m \in Nat /\ m >= 1 /\ m - 1 \in 0..m - 1 /\ m # 0
    OBVIOUS
  <2>3. v \in V
    BY <2>1, <2>2
  <2> HIDE DEF v
  <2>4. h \in [0..m -> V] /\ h[0] = a
    BY <2>1, <2>2, <2>3
  <2>5. ASSUME NEW i \in 1..m PROVE h[i] = F[i][h[i - 1]]
    <3>1. i - 1 \in 0..m - 1 /\ i - 1 \in 0..m /\ h[i - 1] = g[i - 1]
      BY <2>2
    <3>2. CASE i = m
      BY <3>1, <3>2 DEF v
    <3>3. CASE i # m
      <4>1. i \in 1..m - 1 /\ h[i] = g[i]
        BY <2>2, <3>3
      <4> QED
        BY <2>1, <3>1, <4>1
    <3> QED
      BY <3>2, <3>3
  <2> HIDE DEF h
  <2>6. Solves(h, m)
    BY <2>4, <2>5 DEF Iterates
  <2> HIDE DEF Solves
  <2> QED
    BY <2>6
<1> HIDE DEF S
<1>3. n \in S
  <2>1. n \in 0..n
    OBVIOUS
  <2>2. \A i \in 1..n : i - 1 \in S => i \in S
    BY <1>2
  <2>3. \A i \in 0..n : i \in S
    BY <1>1, <2>2, RangeInduction
  <2> QED
    BY <2>1, <2>3
<1> QED
  BY <1>3 DEF S

-----------------------------------------------------------------------------
(* The operations of a history *)

\* The histories whose timeline, pairs and reverts are over given sets.
HistoryOf(E, P, R) == [timeline : Seq(E), pairs : Seq(P), reverts : Seq(R)]

\* A new history is empty.
LEMMA NewHistoryType ==
    ASSUME NEW E, NEW P, NEW R
    PROVE  NewHistory \in HistoryOf(E, P, R)
  BY DEF NewHistory, HistoryOf

\* append pushes to the timeline and to the pairs and leaves the reverts.
LEMMA AppendEffect ==
    ASSUME NEW E, NEW P, NEW R, NEW h \in HistoryOf(E, P, R),
           NEW predicted, NEW realized,
           ConfirmedPair(predicted, realized) \in E,
           <<predicted, realized>> \in P,
           NEW g, g = append(h, predicted, realized)
    PROVE  /\ g \in HistoryOf(E, P, R)
           /\ g.timeline = Append(h.timeline, ConfirmedPair(predicted, realized))
           /\ g.pairs = Append(h.pairs, <<predicted, realized>>)
           /\ g.reverts = h.reverts
<1> DEFINE t == Append(h.timeline, ConfirmedPair(predicted, realized))
           p == Append(h.pairs, <<predicted, realized>>)
           f == [h EXCEPT !.timeline = t]
<1>1. t \in Seq(E) /\ p \in Seq(P)
  BY DEF HistoryOf
<1>2. g = [f EXCEPT !.pairs = p]
  BY DEF append
<1> HIDE DEF t, p
<1>3. /\ f \in HistoryOf(E, P, R)
      /\ f.timeline = t /\ f.reverts = h.reverts
  BY <1>1 DEF HistoryOf
<1> HIDE DEF f
<1>4. /\ g \in HistoryOf(E, P, R)
      /\ g.timeline = f.timeline /\ g.pairs = p /\ g.reverts = f.reverts
  BY <1>1, <1>2, <1>3 DEF HistoryOf
<1> QED
  BY <1>3, <1>4 DEF t, p

\* record_revert pushes to the timeline and to the reverts and leaves the
\* pairs: a revert never reaches the ratio pool.
LEMMA RecordRevertEffect ==
    ASSUME NEW E, NEW P, NEW R, NEW h \in HistoryOf(E, P, R), NEW event \in R,
           RevertedTx(event) \in E,
           NEW g, g = record_revert(h, event)
    PROVE  /\ g \in HistoryOf(E, P, R)
           /\ g.timeline = Append(h.timeline, RevertedTx(event))
           /\ g.pairs = h.pairs
           /\ g.reverts = Append(h.reverts, event)
<1> DEFINE t == Append(h.timeline, RevertedTx(event))
           r == Append(h.reverts, event)
           f == [h EXCEPT !.timeline = t]
<1>1. t \in Seq(E) /\ r \in Seq(R)
  BY DEF HistoryOf
<1>2. g = [f EXCEPT !.reverts = r]
  BY DEF record_revert
<1> HIDE DEF t, r
<1>3. /\ f \in HistoryOf(E, P, R)
      /\ f.timeline = t /\ f.pairs = h.pairs
  BY <1>1 DEF HistoryOf
<1> HIDE DEF f
<1>4. /\ g \in HistoryOf(E, P, R)
      /\ g.timeline = f.timeline /\ g.pairs = f.pairs /\ g.reverts = r
  BY <1>1, <1>2, <1>3 DEF HistoryOf
<1> QED
  BY <1>3, <1>4 DEF t, r

\* The two kinds of timeline entries are told apart by their tags.
LEMMA EntryKinds ==
    ASSUME NEW predicted, NEW realized, NEW event
    PROVE  /\ IsPair(ConfirmedPair(predicted, realized))
           /\ ~IsRevert(ConfirmedPair(predicted, realized))
           /\ IsRevert(RevertedTx(event))
           /\ ~IsPair(RevertedTx(event))
           /\ ConfirmedPair(predicted, realized).predicted = predicted
           /\ ConfirmedPair(predicted, realized).realized = realized
           /\ RevertedTx(event).event = event
  BY DEF IsPair, IsRevert, ConfirmedPair, RevertedTx
-----------------------------------------------------------------------------
(* Filtered sequences.  The k-th element of ElementsAt(s, kept) is at the  *)
(* position with k kept ones up to it: counting them is an injection of    *)
(* the kept positions into 1..Cardinality(kept), hence a bijection.        *)

Rank(kept, i)  == Cardinality({j \in kept : j <= i})
Place(kept, k) == {i \in kept : Rank(kept, i) = k}

\* The kept positions with the one after the end of s.
Pushed(s, kept) == kept \cup {Len(s) + 1}

\* The minimum of a singleton.
LEMMA MinSingleton ==
    ASSUME NEW x \in Int
    PROVE  Min({x}) = x
<1>1. \E y \in {x} : \A z \in {x} : y <= z
  OBVIOUS
<1> QED
  BY <1>1 DEF Min

\* Ranks are between 1 and the number of positions, and they grow.
LEMMA RankGrows ==
    ASSUME NEW n \in Nat, NEW kept \in SUBSET (1..n)
    PROVE  /\ IsFiniteSet(kept) /\ Cardinality(kept) \in Nat
           /\ \A i \in kept : Rank(kept, i) \in 1..Cardinality(kept)
           /\ \A i, j \in kept : i < j => Rank(kept, i) < Rank(kept, j)
<1>1. IsFiniteSet(kept) /\ Cardinality(kept) \in Nat
  <2>1. 1 \in Int /\ n \in Int
    OBVIOUS
  <2>2. IsFiniteSet(1..n)
    BY <2>1, FS_Interval
  <2>3. IsFiniteSet(kept)
    BY <2>2, FS_Subset
  <2> QED
    BY <2>3, FS_CardinalityType
<1> DEFINE upto(i) == {j \in kept : j <= i}
<1>2. ASSUME NEW i \in kept
      PROVE  /\ upto(i) \in SUBSET kept /\ IsFiniteSet(upto(i))
             /\ Cardinality(upto(i)) \in 1..Cardinality(kept)
  <2>1. i \in Nat /\ i \in upto(i)
    OBVIOUS
  <2>2. upto(i) \in SUBSET kept /\ upto(i) # {}
    BY <2>1
  <2> HIDE DEF upto
  <2>3. IsFiniteSet(upto(i)) /\ Cardinality(upto(i)) <= Cardinality(kept)
    BY <1>1, <2>2, FS_Subset
  <2>4. Cardinality(upto(i)) \in Nat /\ Cardinality(upto(i)) # 0
    BY <2>2, <2>3, FS_CardinalityType, FS_EmptySet
  <2> QED
    BY <1>1, <2>2, <2>3, <2>4
<1>3. ASSUME NEW i \in kept, NEW j \in kept, i < j
      PROVE  Cardinality(upto(i)) < Cardinality(upto(j))
  <2>1. i \in Int /\ j \in Int /\ \A m \in kept : m \in Int
    OBVIOUS
  <2>2. j <= j /\ ~(j <= i) /\ \A m \in kept : m <= i => m <= j
    BY <1>3, <2>1
  <2>3. upto(i) \in SUBSET upto(j) /\ j \in upto(j) /\ j \notin upto(i)
    BY <2>2
  <2> HIDE DEF upto
  <2>4. /\ Cardinality(upto(i)) <= Cardinality(upto(j))
        /\ Cardinality(upto(i)) # Cardinality(upto(j))
    BY <1>2, <2>3, FS_Subset
  <2> QED
    BY <1>1, <1>2, <2>4
<1> QED
  BY <1>1, <1>2, <1>3 DEF Rank

\* Each rank is that of exactly one position.
LEMMA PlaceOfRank ==
    ASSUME NEW n \in Nat, NEW kept \in SUBSET (1..n),
           NEW k \in 1..Cardinality(kept)
    PROVE  \E i \in kept : Place(kept, k) = {i} /\ Min(Place(kept, k)) = i
<1> DEFINE card == Cardinality(kept)
           rank == [i \in kept |-> Rank(kept, i)]
<1>1. /\ IsFiniteSet(kept) /\ card \in Nat
      /\ \A i \in kept : Rank(kept, i) \in 1..card
      /\ \A i, j \in kept : i < j => Rank(kept, i) < Rank(kept, j)
  BY RankGrows
<1>2. \A i, j \in kept : Rank(kept, i) = Rank(kept, j) => i = j
  <2> SUFFICES ASSUME NEW i \in kept, NEW j \in kept, i # j
               PROVE  Rank(kept, i) # Rank(kept, j)
    OBVIOUS
  <2>1. i \in Int /\ j \in Int
    OBVIOUS
  <2>2. i < j \/ j < i
    BY <2>1
  <2>3. Rank(kept, i) \in Int /\ Rank(kept, j) \in Int
    BY <1>1
  <2> QED
    BY <1>1, <2>2, <2>3
<1>3. rank \in Injection(kept, 1..card)
  BY <1>1, <1>2 DEF Injection, IsInjective
<1>4. IsFiniteSet(1..card) /\ Cardinality(1..card) = card
  <2>1. 1 \in Int /\ card \in Int
    BY <1>1
  <2>2. /\ IsFiniteSet(1..card)
        /\ Cardinality(1..card) = IF 1 > card THEN 0 ELSE card - 1 + 1
    BY <2>1, FS_Interval
  <2> QED
    BY <1>1, <2>2
<1>5. rank \in Surjection(kept, 1..card)
  <2> HIDE DEF rank
  <2> QED
    BY <1>3, <1>4, FS_Injection
<1>6. PICK i \in kept : Rank(kept, i) = k
  BY <1>5 DEF Surjection
<1>7. Place(kept, k) = {i}
  BY <1>2, <1>6 DEF Place
<1> QED
  BY <1>7, MinSingleton

\* A filtered sequence, with ranks named.
LEMMA ElementsAtRank ==
    ASSUME NEW s, NEW kept
    PROVE  ElementsAt(s, kept)
             = [k \in 1..Cardinality(kept) |-> s[Min(Place(kept, k))]]
  BY DEF ElementsAt, Place, Rank

\* Keeping nothing leaves the empty sequence.
LEMMA ElementsAtNone ==
    ASSUME NEW s
    PROVE  ElementsAt(s, {}) = <<>>
<1>1. Cardinality({}) = 0
  BY FS_EmptySet
<1>2. ElementsAt(s, {}) = [k \in 1..0 |-> s[Min(Place({}, k))]]
  BY <1>1, ElementsAtRank
<1> QED
  BY <1>2

\* What is kept of a sequence is a sequence over the same set.
LEMMA ElementsAtType ==
    ASSUME NEW S, NEW s \in Seq(S), NEW kept \in SUBSET DOMAIN s
    PROVE  /\ ElementsAt(s, kept) \in Seq(S)
           /\ Len(ElementsAt(s, kept)) = Cardinality(kept)
           /\ \A k \in 1..Cardinality(kept) :
                 Min(Place(kept, k)) \in kept
<1>1. Len(s) \in Nat /\ kept \in SUBSET (1..Len(s))
  OBVIOUS
<1>2. Cardinality(kept) \in Nat
  BY <1>1, RankGrows
<1>3. ASSUME NEW k \in 1..Cardinality(kept)
      PROVE  Min(Place(kept, k)) \in kept
  <2>1. \E i \in kept : Place(kept, k) = {i} /\ Min(Place(kept, k)) = i
    BY <1>1, PlaceOfRank
  <2> QED
    BY <2>1
<1> QED
  BY <1>2, <1>3, ElementsAtRank

\* An element that is pushed and not kept changes nothing.
LEMMA ElementsAtSkips ==
    ASSUME NEW S, NEW s \in Seq(S), NEW kept \in SUBSET DOMAIN s, NEW e \in S
    PROVE  ElementsAt(Append(s, e), kept) = ElementsAt(s, kept)
<1>1. \A k \in 1..Cardinality(kept) : Min(Place(kept, k)) \in DOMAIN s
  BY ElementsAtType
<1>2. \A k \in 1..Cardinality(kept) :
          Append(s, e)[Min(Place(kept, k))] = s[Min(Place(kept, k))]
  BY <1>1
<1> QED
  BY <1>2, ElementsAtRank

\* An element that is pushed and kept is pushed to what was kept.
LEMMA ElementsAtAppends ==
    ASSUME NEW S, NEW s \in Seq(S), NEW kept \in SUBSET DOMAIN s, NEW e \in S,
           NEW more, more = Pushed(s, kept)
    PROVE  ElementsAt(Append(s, e), more) = Append(ElementsAt(s, kept), e)
<1> DEFINE n    == Len(s)
           card == Cardinality(kept)
           u    == Append(ElementsAt(s, kept), e)
<1>0. more = kept \cup {n + 1}
  BY DEF Pushed
<1>1. /\ n \in Nat /\ n + 1 \in Nat /\ n + 1 \in Int
      /\ kept \in SUBSET (1..n) /\ more \in SUBSET (1..n + 1)
      /\ n + 1 \notin kept
      /\ IsFiniteSet(kept) /\ card \in Nat
  <2>1. n \in Nat /\ kept \in SUBSET (1..n)
    OBVIOUS
  <2>2. n + 1 \in Nat /\ more \in SUBSET (1..n + 1) /\ n + 1 \notin kept
    BY <1>0, <2>1
  <2>3. IsFiniteSet(kept) /\ card \in Nat
    BY <2>1, RankGrows
  <2> QED
    BY <2>1, <2>2, <2>3
<1>2. Cardinality(more) = card + 1
  BY <1>0, <1>1, FS_AddElement
<1>3. ASSUME NEW i \in kept
      PROVE  Rank(more, i) = Rank(kept, i)
  <2>1. {j \in more : j <= i} = {j \in kept : j <= i}
    BY <1>0, <1>1
  <2> QED
    BY <2>1 DEF Rank
<1>4. Rank(more, n + 1) = card + 1
  <2>1. {j \in more : j <= n + 1} = more
    BY <1>1
  <2> QED
    BY <1>2, <2>1 DEF Rank
<1>5. ASSUME NEW k \in 1..card
      PROVE  /\ Min(Place(more, k)) = Min(Place(kept, k))
             /\ Min(Place(kept, k)) \in DOMAIN s
  <2>1. k # card + 1
    BY <1>1
  <2>2. Place(more, k) = Place(kept, k)
    BY <1>0, <1>3, <1>4, <2>1 DEF Place
  <2>3. Min(Place(kept, k)) \in kept
    BY ElementsAtType
  <2> QED
    BY <2>2, <2>3
<1>6. Min(Place(more, card + 1)) = n + 1
  <2>0. \A i \in kept : Rank(kept, i) \in 1..card
    BY <1>1, RankGrows
  <2>1. \A i \in kept : Rank(kept, i) # card + 1
    BY <1>1, <2>0
  <2>2. Place(more, card + 1) = {n + 1}
    BY <1>0, <1>3, <1>4, <2>1 DEF Place
  <2>3. Min({n + 1}) = n + 1
    BY <1>1, MinSingleton
  <2> QED
    BY <2>2, <2>3
<1>7. ElementsAt(s, kept) \in Seq(S) /\ Len(ElementsAt(s, kept)) = card
  BY ElementsAtType
<1>8. ElementsAt(Append(s, e), more)
        = [k \in 1..card + 1 |-> Append(s, e)[Min(Place(more, k))]]
  BY <1>2, ElementsAtRank
<1>9. \A k \in 1..card : ElementsAt(s, kept)[k] = s[Min(Place(kept, k))]
  BY ElementsAtRank
<1>10. u = [k \in 1..card + 1 |-> IF k = card + 1 THEN e
                                   ELSE ElementsAt(s, kept)[k]]
  <2> DEFINE t == ElementsAt(s, kept)
  <2>1. t \in Seq(S) /\ Len(t) = card /\ card \in Nat
    BY <1>1, <1>7
  <2> HIDE DEF t, card
  <2>2. /\ Append(t, e) \in Seq(S) /\ Len(Append(t, e)) = card + 1
        /\ Append(t, e)[card + 1] = e
        /\ \A k \in 1..card : Append(t, e)[k] = t[k]
    BY <2>1
  <2>3. Append(t, e) = [k \in 1..card + 1 |-> Append(t, e)[k]]
    <3> DEFINE a == Append(t, e)
    <3>1. a \in Seq(S) /\ Len(a) = card + 1
      BY <2>2
    <3> HIDE DEF a
    <3>2. a = [k \in 1..Len(a) |-> a[k]]
      BY <3>1
    <3> QED
      BY <3>1, <3>2 DEF a
  <2>4. \A k \in 1..card + 1 :
            Append(t, e)[k] = IF k = card + 1 THEN e ELSE t[k]
    BY <2>1, <2>2
  <2> QED
    BY <2>3, <2>4 DEF t
<1>11. ASSUME NEW k \in 1..card + 1
       PROVE  Append(s, e)[Min(Place(more, k))]
                = IF k = card + 1 THEN e ELSE ElementsAt(s, kept)[k]
  <2>1. CASE k = card + 1
    BY <1>1, <1>6, <2>1
  <2>2. CASE k # card + 1
    <3>1. k \in 1..card
      BY <1>1, <2>2
    <3>2. /\ Min(Place(more, k)) = Min(Place(kept, k))
          /\ Min(Place(kept, k)) \in DOMAIN s
      BY <1>5, <3>1
    <3>3. \A i \in DOMAIN s : Append(s, e)[i] = s[i]
      OBVIOUS
    <3>4. Append(s, e)[Min(Place(more, k))] = s[Min(Place(kept, k))]
      BY <3>2, <3>3
    <3> QED
      BY <1>9, <2>2, <3>1, <3>4
  <2> QED
    BY <2>1, <2>2
<1> QED
  BY <1>8, <1>10, <1>11
\* What is kept by a test after a push, given whether the pushed element is.
LEMMA KeptAfterPush ==
    ASSUME NEW S, NEW s \in Seq(S), NEW e \in S, NEW K \in SUBSET S
    PROVE  LET kept(q) == {i \in DOMAIN q : q[i] \in K}
           IN  /\ kept(s) \in SUBSET DOMAIN s
               /\ e \in K => kept(Append(s, e)) = Pushed(s, kept(s))
               /\ e \notin K => kept(Append(s, e)) = kept(s)
<1>1. /\ Len(s) \in Nat /\ DOMAIN s = 1..Len(s)
      /\ DOMAIN Append(s, e) = 1..Len(s) + 1
      /\ Append(s, e)[Len(s) + 1] = e
      /\ \A i \in 1..Len(s) : Append(s, e)[i] = s[i]
  OBVIOUS
<1> QED
  BY <1>1 DEF Pushed

-----------------------------------------------------------------------------
(* The usable pairs *)

\* The ratio pool starts empty.
LEMMA NoUsablePairs ==
    ASSUME NEW h, h.pairs = <<>>
    PROVE  PositivePairs(h) = <<>>
<1>1. {i \in DOMAIN h.pairs : h.pairs[i][1] > 0} = {}
  OBVIOUS
<1> QED
  BY <1>1, ElementsAtNone DEF PositivePairs

\* A pair whose prediction is positive is pushed to the usable ones; any
\* other leaves them as they are.
LEMMA UsablePairsAfterAppend ==
    ASSUME NEW h, h.pairs \in Seq(Int \X Int), NEW pair \in Int \X Int,
           NEW g, g.pairs = Append(h.pairs, pair)
    PROVE  /\ PositivePairs(h) \in Seq(Int \X Int)
           /\ pair[1] > 0 => PositivePairs(g) = Append(PositivePairs(h), pair)
           /\ ~(pair[1] > 0) => PositivePairs(g) = PositivePairs(h)
<1> DEFINE s == h.pairs
           S == Int \X Int
           K == {p \in S : p[1] > 0}
           kept(q) == {i \in DOMAIN q : q[i] \in K}
<1>1. s \in Seq(S) /\ Append(s, pair) \in Seq(S) /\ K \in SUBSET S
  OBVIOUS
<1>2. /\ \A i \in DOMAIN s : s[i] \in S
      /\ \A i \in DOMAIN Append(s, pair) : Append(s, pair)[i] \in S
  BY <1>1
<1>3. /\ PositivePairs(h) = ElementsAt(s, kept(s))
      /\ PositivePairs(g) = ElementsAt(Append(s, pair), kept(Append(s, pair)))
  BY <1>2 DEF PositivePairs
<1>4. pair \in S /\ (pair \in K <=> pair[1] > 0)
  OBVIOUS
<1> HIDE DEF s, S, K
<1>5. /\ kept(s) \in SUBSET DOMAIN s
      /\ pair \in K => kept(Append(s, pair)) = Pushed(s, kept(s))
      /\ pair \notin K => kept(Append(s, pair)) = kept(s)
  BY <1>1, <1>4, KeptAfterPush
<1> HIDE DEF kept
<1>6. PositivePairs(h) \in Seq(S)
  BY <1>1, <1>3, <1>5, ElementsAtType
<1>7. pair \in K => PositivePairs(g) = Append(PositivePairs(h), pair)
  <2>1. SUFFICES ASSUME pair \in K
                 PROVE  PositivePairs(g) = Append(PositivePairs(h), pair)
    OBVIOUS
  <2> DEFINE more == kept(Append(s, pair))
  <2>2. /\ s \in Seq(S) /\ kept(s) \in SUBSET DOMAIN s /\ pair \in S
        /\ more = Pushed(s, kept(s))
    BY <1>1, <1>4, <1>5, <2>1
  <2> HIDE DEF more
  <2>3. ElementsAt(Append(s, pair), more) = Append(ElementsAt(s, kept(s)), pair)
    BY <2>2, ElementsAtAppends
  <2> QED
    BY <1>3, <2>3 DEF more
<1>8. pair \notin K => PositivePairs(g) = PositivePairs(h)
  BY <1>1, <1>3, <1>4, <1>5, ElementsAtSkips
<1> QED
  BY <1>4, <1>6, <1>7, <1>8 DEF S

\* The larger of two integers.
LEMMA MaxPair ==
    ASSUME NEW a \in Int, NEW b \in Int
    PROVE  Max({a, b}) = IF a >= b THEN a ELSE b
<1>1. \E x \in {a, b} : \A y \in {a, b} : x >= y
  OBVIOUS
<1>2. Max({a, b}) \in {a, b} /\ \A y \in {a, b} : Max({a, b}) >= y
  BY <1>1 DEF Max
<1> QED
  BY <1>2

\* The window of the last n elements: its length and its elements.
LEMMA RecentWindow ==
    ASSUME NEW S, NEW s \in Seq(S), NEW n \in Nat
    PROVE  LET len == IF Len(s) >= n THEN n ELSE Len(s)
           IN  /\ Recent(s, n) \in Seq(S)
               /\ Len(Recent(s, n)) = len
               /\ \A i \in 1..len : Recent(s, n)[i] = s[Len(s) - len + i]
<1> DEFINE from == Max({1, Len(s) - n + 1})
           len == IF Len(s) >= n THEN n ELSE Len(s)
<1>1. Len(s) \in Nat /\ 1 \in Int /\ Len(s) - n + 1 \in Int
  OBVIOUS
<1>2. from = IF 1 >= Len(s) - n + 1 THEN 1 ELSE Len(s) - n + 1
  BY <1>1, MaxPair
<1> HIDE DEF from
<1>3. len \in Nat /\ from = Len(s) - len + 1 /\ from \in Nat /\ from >= 1
  <2>1. CASE Len(s) >= n
    BY <1>1, <1>2, <2>1
  <2>2. CASE ~(Len(s) >= n)
    BY <1>1, <1>2, <2>2
  <2> QED
    BY <2>1, <2>2
<1> HIDE DEF len
<1>4. Recent(s, n) = SubSeq(s, from, Len(s))
  BY DEF Recent, from
<1>5. /\ SubSeq(s, from, Len(s)) \in Seq(S)
      /\ Len(SubSeq(s, from, Len(s)))
           = IF from <= Len(s) THEN Len(s) - from + 1 ELSE 0
      /\ \A i \in 1..Len(s) - from + 1 :
            SubSeq(s, from, Len(s))[i] = s[from + i - 1]
  <2>1. \A i \in from..Len(s) : s[i] \in S
    BY <1>1, <1>3
  <2>2. from \in Int /\ Len(s) \in Int
    BY <1>1, <1>3
  <2> QED
    BY <2>1, <2>2, SubSeqProperties
<1>6. Len(Recent(s, n)) = len
  BY <1>1, <1>3, <1>4, <1>5
<1>7. ASSUME NEW i \in 1..len
      PROVE  Recent(s, n)[i] = s[Len(s) - len + i]
  <2>1. i \in 1..Len(s) - from + 1 /\ from + i - 1 = Len(s) - len + i
    BY <1>1, <1>3
  <2> QED
    BY <1>4, <1>5, <2>1
<1> QED
  BY <1>4, <1>5, <1>6, <1>7 DEF len

-----------------------------------------------------------------------------
(* The two kinds of entries of a timeline, and what one more entry does to *)
(* the two projections of it.                                              *)

PairsAt(t)   == {i \in DOMAIN t : IsPair(t[i])}
RevertsAt(t) == {i \in DOMAIN t : IsRevert(t[i])}

Paired(t)   == LET s == ElementsAt(t, PairsAt(t))
               IN  [i \in DOMAIN s |-> <<s[i].predicted, s[i].realized>>]
Reverted(t) == LET s == ElementsAt(t, RevertsAt(t))
               IN  [i \in DOMAIN s |-> s[i].event]

\* Every entry is a pair or a revert, and not both.
Tagged(E) == \A e \in E : IsPair(e) <=> ~IsRevert(e)

\* The images of the elements of s under the function F.
Image(F, s) == [i \in DOMAIN s |-> F[s[i]]]

\* Mapping a pushed sequence pushes the image.
LEMMA MapAppend ==
    ASSUME NEW S, NEW s \in Seq(S), NEW e \in S, NEW F
    PROVE  Image(F, Append(s, e)) = Append(Image(F, s), F[e])
<1> DEFINE t == Append(s, e)
           m == [i \in DOMAIN s |-> F[s[i]]]
           I == {F[x] : x \in S}
           a == Append(m, F[e])
<1>1. /\ Len(s) \in Nat /\ DOMAIN s = 1..Len(s)
      /\ DOMAIN t = 1..Len(s) + 1 /\ t[Len(s) + 1] = e
      /\ \A i \in 1..Len(s) : t[i] = s[i] /\ s[i] \in S
  OBVIOUS
<1> HIDE DEF t
<1>2. m \in Seq(I) /\ Len(m) = Len(s) /\ \A i \in 1..Len(s) : m[i] = F[s[i]]
  BY <1>1
<1> HIDE DEF m
<1>3. F[e] \in I
  OBVIOUS
<1> HIDE DEF I
<1>4. /\ a \in Seq(I) /\ Len(a) = Len(s) + 1 /\ a[Len(s) + 1] = F[e]
      /\ \A i \in 1..Len(s) : a[i] = m[i]
  BY <1>1, <1>2, <1>3
<1> HIDE DEF a
<1>5. a = [i \in 1..Len(s) + 1 |-> a[i]]
  BY <1>4
<1>6. \A i \in 1..Len(s) + 1 : a[i] = F[t[i]]
  <2> SUFFICES ASSUME NEW i \in 1..Len(s) + 1
               PROVE  a[i] = F[t[i]]
    OBVIOUS
  <2>1. i = Len(s) + 1 \/ i \in 1..Len(s)
    BY <1>1
  <2> QED
    BY <1>1, <1>2, <1>4, <2>1
<1> QED
  BY <1>1, <1>5, <1>6 DEF a, m, t, Image

\* A pair is pushed to the pairs and leaves the reverts.
LEMMA PushPair ==
    ASSUME NEW E, Tagged(E), NEW t \in Seq(E), NEW e \in E, IsPair(e),
           NEW u, u = Append(t, e)
    PROVE  /\ Paired(u) = Append(Paired(t), <<e.predicted, e.realized>>)
           /\ Reverted(u) = Reverted(t)
           /\ PairsAt(u) = Pushed(t, PairsAt(t))
<1> DEFINE K == {x \in E : IsPair(x)}
           R == {x \in E : IsRevert(x)}
           kept(q, J) == {i \in DOMAIN q : q[i] \in J}
<1>1. /\ t \in Seq(E) /\ u \in Seq(E) /\ ~IsRevert(e)
      /\ K \in SUBSET E /\ R \in SUBSET E
      /\ e \in K /\ e \notin R
  BY DEF Tagged
<1>2. /\ PairsAt(t) = kept(t, K) /\ PairsAt(u) = kept(u, K)
      /\ RevertsAt(t) = kept(t, R) /\ RevertsAt(u) = kept(u, R)
  <2>1. /\ \A i \in DOMAIN t : t[i] \in E
        /\ \A i \in DOMAIN u : u[i] \in E
    BY <1>1
  <2> QED
    BY <2>1 DEF PairsAt, RevertsAt
<1>3. /\ kept(t, K) \in SUBSET DOMAIN t /\ kept(u, K) = Pushed(t, kept(t, K))
      /\ kept(t, R) \in SUBSET DOMAIN t /\ kept(u, R) = kept(t, R)
  <2> HIDE DEF K, R
  <2>1. kept(t, K) \in SUBSET DOMAIN t /\ kept(u, K) = Pushed(t, kept(t, K))
    BY <1>1, KeptAfterPush
  <2>2. kept(t, R) \in SUBSET DOMAIN t /\ kept(u, R) = kept(t, R)
    BY <1>1, KeptAfterPush
  <2> QED
    BY <2>1, <2>2
<1> HIDE DEF kept, K, R
<1>4. /\ PairsAt(t) \in SUBSET DOMAIN t /\ PairsAt(u) = Pushed(t, PairsAt(t))
      /\ RevertsAt(t) \in SUBSET DOMAIN t /\ RevertsAt(u) = RevertsAt(t)
  BY <1>2, <1>3
<1>5. ElementsAt(u, PairsAt(u)) = Append(ElementsAt(t, PairsAt(t)), e)
  BY <1>1, <1>4, ElementsAtAppends
<1>6. ElementsAt(u, RevertsAt(u)) = ElementsAt(t, RevertsAt(t))
  BY <1>1, <1>4, ElementsAtSkips
<1>7. ElementsAt(t, PairsAt(t)) \in Seq(E)
  BY <1>4, ElementsAtType
<1>8. Paired(u) = Append(Paired(t), <<e.predicted, e.realized>>)
  <2> DEFINE F == [x \in E |-> <<x.predicted, x.realized>>]
             s == ElementsAt(t, PairsAt(t))
             v == ElementsAt(u, PairsAt(u))
  <2> HIDE DEF s, v
  <2>1. /\ s \in Seq(E) /\ v = Append(s, e) /\ v \in Seq(E)
        /\ Paired(t) = [i \in DOMAIN s |-> <<s[i].predicted, s[i].realized>>]
        /\ Paired(u) = [i \in DOMAIN v |-> <<v[i].predicted, v[i].realized>>]
    BY <1>5, <1>7 DEF Paired, s, v
  <2>2. Paired(t) = Image(F, s) /\ Paired(u) = Image(F, v)
    BY <2>1 DEF Image
  <2>3. F[e] = <<e.predicted, e.realized>>
    OBVIOUS
  <2> HIDE DEF F
  <2>4. Image(F, Append(s, e)) = Append(Image(F, s), F[e])
    BY <2>1, MapAppend
  <2> QED
    BY <2>1, <2>2, <2>3, <2>4
<1> QED
  BY <1>4, <1>6, <1>8 DEF Reverted
\* A revert is pushed to the reverts and leaves the pairs.
LEMMA PushRevert ==
    ASSUME NEW E, Tagged(E), NEW t \in Seq(E), NEW e \in E, IsRevert(e),
           NEW u, u = Append(t, e)
    PROVE  /\ Reverted(u) = Append(Reverted(t), e.event)
           /\ Paired(u) = Paired(t)
           /\ PairsAt(u) = PairsAt(t)
<1> DEFINE K == {x \in E : IsPair(x)}
           R == {x \in E : IsRevert(x)}
           kept(q, J) == {i \in DOMAIN q : q[i] \in J}
<1>1. /\ t \in Seq(E) /\ u \in Seq(E) /\ ~IsPair(e)
      /\ K \in SUBSET E /\ R \in SUBSET E
      /\ e \in R /\ e \notin K
  BY DEF Tagged
<1>2. /\ PairsAt(t) = kept(t, K) /\ PairsAt(u) = kept(u, K)
      /\ RevertsAt(t) = kept(t, R) /\ RevertsAt(u) = kept(u, R)
  <2>1. /\ \A i \in DOMAIN t : t[i] \in E
        /\ \A i \in DOMAIN u : u[i] \in E
    BY <1>1
  <2> QED
    BY <2>1 DEF PairsAt, RevertsAt
<1>3. /\ kept(t, K) \in SUBSET DOMAIN t /\ kept(u, K) = kept(t, K)
      /\ kept(t, R) \in SUBSET DOMAIN t /\ kept(u, R) = Pushed(t, kept(t, R))
  <2> HIDE DEF K, R
  <2>1. kept(t, K) \in SUBSET DOMAIN t /\ kept(u, K) = kept(t, K)
    BY <1>1, KeptAfterPush
  <2>2. kept(t, R) \in SUBSET DOMAIN t /\ kept(u, R) = Pushed(t, kept(t, R))
    BY <1>1, KeptAfterPush
  <2> QED
    BY <2>1, <2>2
<1> HIDE DEF kept, K, R
<1>4. /\ PairsAt(t) \in SUBSET DOMAIN t /\ PairsAt(u) = PairsAt(t)
      /\ RevertsAt(t) \in SUBSET DOMAIN t /\ RevertsAt(u) = Pushed(t, RevertsAt(t))
  BY <1>2, <1>3
<1>5. ElementsAt(u, RevertsAt(u)) = Append(ElementsAt(t, RevertsAt(t)), e)
  BY <1>1, <1>4, ElementsAtAppends
<1>6. ElementsAt(u, PairsAt(u)) = ElementsAt(t, PairsAt(t))
  BY <1>1, <1>4, ElementsAtSkips
<1>7. ElementsAt(t, RevertsAt(t)) \in Seq(E)
  BY <1>4, ElementsAtType
<1>8. Reverted(u) = Append(Reverted(t), e.event)
  <2> DEFINE F == [x \in E |-> x.event]
             s == ElementsAt(t, RevertsAt(t))
             v == ElementsAt(u, RevertsAt(u))
  <2> HIDE DEF s, v
  <2>1. /\ s \in Seq(E) /\ v = Append(s, e) /\ v \in Seq(E)
        /\ Reverted(t) = [i \in DOMAIN s |-> s[i].event]
        /\ Reverted(u) = [i \in DOMAIN v |-> v[i].event]
    BY <1>5, <1>7 DEF Reverted, s, v
  <2>2. Reverted(t) = Image(F, s) /\ Reverted(u) = Image(F, v)
    BY <2>1 DEF Image
  <2>3. F[e] = e.event
    OBVIOUS
  <2> HIDE DEF F
  <2>4. Image(F, Append(s, e)) = Append(Image(F, s), F[e])
    BY <2>1, MapAppend
  <2> QED
    BY <2>1, <2>2, <2>3, <2>4
<1> QED
  BY <1>4, <1>6, <1>8 DEF Paired

\* The last pair of a timeline is at the largest position of a pair.
LEMMA LastPairIs ==
    ASSUME NEW E, NEW t \in Seq(E)
    PROVE  SelectLastInSeq(t, IsPair)
             = IF PairsAt(t) # {} THEN Max(PairsAt(t)) ELSE 0
<1>1. PairsAt(t) = {i \in 1..Len(t) : IsPair(t[i])}
  BY DEF PairsAt
<1> QED
  BY <1>1 DEF SelectLastInSeq

\* Once a pair is pushed, it is the last.
LEMMA LastPairPushed ==
    ASSUME NEW E, Tagged(E), NEW t \in Seq(E), NEW e \in E, IsPair(e),
           NEW u, u = Append(t, e)
    PROVE  SelectLastInSeq(u, IsPair) = Len(t) + 1
<1>1. u \in Seq(E) /\ Len(t) \in Nat
  OBVIOUS
<1>2. PairsAt(u) = Pushed(t, PairsAt(t)) /\ PairsAt(t) \in SUBSET (1..Len(t))
  <2>1. PairsAt(u) = Pushed(t, PairsAt(t))
    BY PushPair
  <2> QED
    BY <2>1 DEF PairsAt
<1> DEFINE n == Len(t) + 1
<1>3. n \in PairsAt(u) /\ \A y \in PairsAt(u) : y \in Int /\ n >= y
  BY <1>1, <1>2 DEF Pushed
<1>4. Max(PairsAt(u)) \in PairsAt(u) /\ \A y \in PairsAt(u) : Max(PairsAt(u)) >= y
  BY <1>3 DEF Max
<1>5. Max(PairsAt(u)) = n
  BY <1>1, <1>3, <1>4
<1>6. SelectLastInSeq(u, IsPair) = IF PairsAt(u) # {} THEN Max(PairsAt(u)) ELSE 0
  BY <1>1, LastPairIs
<1> QED
  BY <1>1, <1>3, <1>5, <1>6

-----------------------------------------------------------------------------
(* The replay loop *)

\* One more element of a prefix.
LEMMA PrefixGrows ==
    ASSUME NEW S, NEW s \in Seq(S), NEW i \in 1..Len(s)
    PROVE  /\ SubSeq(s, 1, i - 1) \in Seq(S)
           /\ s[i] \in S
           /\ SubSeq(s, 1, i) = Append(SubSeq(s, 1, i - 1), s[i])
<1>1. Len(s) \in Nat /\ 1 \in 1..Len(s) /\ i \in 1..Len(s) /\ s[i] \in S
  OBVIOUS
<1>2. SubSeq(s, 1, i - 1) \in Seq(S)
  <2>1. \A j \in 1..i - 1 : s[j] \in S
    BY <1>1
  <2>2. 1 \in Int /\ i - 1 \in Int
    BY <1>1
  <2> QED
    BY <2>1, <2>2, SubSeqProperties
<1>3. SubSeq(s, 1, i) = SubSeq(s, 1, i - 1) \o <<s[i]>>
  BY <1>1, SubSeqRecursiveSecond
<1> DEFINE t == SubSeq(s, 1, i - 1)
<1>4. Append(t, s[i]) = t \o <<s[i]>>
  <2>1. t \in Seq(S)
    BY <1>2
  <2> HIDE DEF t
  <2> QED
    BY <1>1, <2>1, AppendIsConcat
<1> QED
  BY <1>1, <1>2, <1>3, <1>4

\* Entries that append and record_revert make of members of P and R.
WellFormed(E, P, R) ==
    \A e \in E :
        \/ /\ e = ConfirmedPair(e.predicted, e.realized)
           /\ <<e.predicted, e.realized>> \in P
        \/ e = RevertedTx(e.event) /\ e.event \in R

\* One iteration of the replay loop.
Replayed(h, e) == IF IsPair(e) THEN append(h, e.predicted, e.realized)
                  ELSE record_revert(h, e.event)

\* Its effect on the three collections.
Extends(g, h, e) ==
    /\ g.timeline = Append(h.timeline, e)
    /\ IsPair(e) => /\ g.pairs = Append(h.pairs, <<e.predicted, e.realized>>)
                    /\ g.reverts = h.reverts
    /\ ~IsPair(e) => g.pairs = h.pairs /\ g.reverts = Append(h.reverts, e.event)

\* g[i] is the history after i entries of t.
Replaying(g, t) ==
    g = [i \in 0..Len(t) |->
            IF i = 0 THEN NewHistory
            ELSE IF IsPair(t[i])
            THEN append(g[i - 1], t[i].predicted, t[i].realized)
            ELSE record_revert(g[i - 1], t[i].event)]

\* Such entries are of one kind each, and their fields are theirs.
LEMMA WellFormedTagged ==
    ASSUME NEW E, NEW P, NEW R, WellFormed(E, P, R)
    PROVE  /\ Tagged(E)
           /\ \A e \in E : IsPair(e) => /\ e = ConfirmedPair(e.predicted, e.realized)
                                        /\ <<e.predicted, e.realized>> \in P
           /\ \A e \in E : ~IsPair(e) => e = RevertedTx(e.event) /\ e.event \in R
<1> SUFFICES ASSUME NEW e \in E
             PROVE  /\ IsPair(e) <=> ~IsRevert(e)
                    /\ IsPair(e) => /\ e = ConfirmedPair(e.predicted, e.realized)
                                    /\ <<e.predicted, e.realized>> \in P
                    /\ ~IsPair(e) => e = RevertedTx(e.event) /\ e.event \in R
  BY DEF Tagged
<1>1. CASE /\ e = ConfirmedPair(e.predicted, e.realized)
           /\ <<e.predicted, e.realized>> \in P
  <2>1. IsPair(e) /\ ~IsRevert(e)
    BY <1>1 DEF ConfirmedPair, IsPair, IsRevert
  <2> QED
    BY <1>1, <2>1
<1>2. CASE e = RevertedTx(e.event) /\ e.event \in R
  <2>1. IsRevert(e) /\ ~IsPair(e)
    BY <1>2 DEF RevertedTx, IsPair, IsRevert
  <2> QED
    BY <1>2, <2>1
<1> QED
  BY <1>1, <1>2 DEF WellFormed

\* One iteration of the replay loop keeps a history a history.
LEMMA ReplayIteration ==
    ASSUME NEW E, NEW P, NEW R, WellFormed(E, P, R),
           NEW h \in HistoryOf(E, P, R), NEW e \in E,
           NEW g, g = Replayed(h, e)
    PROVE  g \in HistoryOf(E, P, R) /\ Extends(g, h, e)
<1>1. CASE IsPair(e)
  <2> DEFINE a == e.predicted
             b == e.realized
  <2>1. /\ g = append(h, a, b) /\ e = ConfirmedPair(a, b)
        /\ <<a, b>> \in P
    BY <1>1, WellFormedTagged DEF Replayed
  <2> HIDE DEF a, b
  <2>2. /\ g \in HistoryOf(E, P, R)
        /\ g.timeline = Append(h.timeline, ConfirmedPair(a, b))
        /\ g.pairs = Append(h.pairs, <<a, b>>) /\ g.reverts = h.reverts
    BY <2>1, AppendEffect
  <2> QED
    BY <1>1, <2>1, <2>2 DEF a, b, Extends
<1>2. CASE ~IsPair(e)
  <2> DEFINE v == e.event
  <2>1. g = record_revert(h, v) /\ e = RevertedTx(v) /\ v \in R
    BY <1>2, WellFormedTagged DEF Replayed
  <2> HIDE DEF v
  <2>2. /\ g \in HistoryOf(E, P, R)
        /\ g.timeline = Append(h.timeline, RevertedTx(v))
        /\ g.pairs = h.pairs /\ g.reverts = Append(h.reverts, v)
    BY <2>1, RecordRevertEffect
  <2> QED
    BY <1>2, <2>1, <2>2 DEF v, Extends
<1> QED
  BY <1>1, <1>2

\* The function that FromTimeline defines recursively exists.
LEMMA FromTimelineLoop ==
    ASSUME NEW E, NEW P, NEW R, WellFormed(E, P, R), NEW t \in Seq(E)
    PROVE  \E g : Replaying(g, t) /\ FromTimeline(t) = g[Len(t)]
<1> DEFINE n == Len(t)
           V == HistoryOf(E, P, R)
           next(h, e) == Replayed(h, e)
           F == [i \in 1..n |-> [h \in V |-> next(h, t[i])]]
<1>1. n \in Nat /\ \A i \in 1..n : t[i] \in E
  OBVIOUS
<1>2. NewHistory \in V
  BY NewHistoryType
<1>3. ASSUME NEW i \in 1..n, NEW h \in V
      PROVE  next(h, t[i]) \in V
  <2> DEFINE g == next(h, t[i])
             e == t[i]
  <2>1. e \in E /\ g = next(h, e)
    BY <1>1
  <2> HIDE DEF g, e
  <2>2. g \in HistoryOf(E, P, R)
    BY <2>1, ReplayIteration
  <2> QED
    BY <2>2 DEF g
<1> HIDE DEF n, V, next
<1>4. F \in [1..n -> [V -> V]]
  <2>1. ASSUME NEW i \in 1..n PROVE [h \in V |-> next(h, t[i])] \in [V -> V]
    BY <1>3
  <2> QED
    BY <2>1
<1>5. \A i \in 1..n : \A h \in V : F[i][h] = next(h, t[i])
  OBVIOUS
<1> HIDE DEF F
<1>6. PICK g : /\ g \in [0..n -> V] /\ g[0] = NewHistory
               /\ \A i \in 1..n : g[i] = F[i][g[i - 1]]
  <2>1. n \in Nat
    BY <1>1
  <2>2. \E g : Iterates(g, NewHistory, F, n, V)
    BY <1>2, <1>4, <2>1, Recursion
  <2> QED
    BY <2>2 DEF Iterates
<1>7. ASSUME NEW i \in 0..n
      PROVE  g[i] = IF i = 0 THEN NewHistory ELSE next(g[i - 1], t[i])
  <2>1. CASE i = 0
    BY <1>6, <2>1
  <2>2. CASE i # 0
    <3>1. i \in 1..n /\ i - 1 \in 0..n
      BY <1>1, <2>2
    <3> QED
      BY <1>5, <1>6, <2>2, <3>1
  <2> QED
    BY <2>1, <2>2
<1>8. g = [i \in 0..n |-> IF i = 0 THEN NewHistory ELSE next(g[i - 1], t[i])]
  BY <1>6, <1>7
<1>9. Replaying(g, t)
  BY <1>8, Zenon DEF Replaying, Replayed, n, next
<1>10. FromTimeline(t) = (CHOOSE f : Replaying(f, t))[Len(t)]
  BY Zenon DEF FromTimeline, Replaying
<1> QED
  BY <1>9, <1>10, Zenon

\* An empty timeline has no pairs and no reverts.
LEMMA NothingPaired == Paired(<<>>) = <<>> /\ Reverted(<<>>) = <<>>
<1> DEFINE s == ElementsAt(<<>>, PairsAt(<<>>))
           r == ElementsAt(<<>>, RevertsAt(<<>>))
<1>1. PairsAt(<<>>) = {} /\ RevertsAt(<<>>) = {}
  BY DEF PairsAt, RevertsAt
<1>2. s = <<>> /\ r = <<>>
  BY <1>1, ElementsAtNone
<1>3. /\ Paired(<<>>) = [i \in DOMAIN s |-> <<s[i].predicted, s[i].realized>>]
      /\ Reverted(<<>>) = [i \in DOMAIN r |-> r[i].event]
  BY DEF Paired, Reverted
<1> HIDE DEF s, r
<1>4. DOMAIN s = 1..0 /\ DOMAIN r = 1..0
  BY <1>2
<1> QED
  BY <1>3, <1>4

\* Replaying a timeline rebuilds it, and with it the two collections that
\* are its projections.
LEMMA ReplayedHistory ==
    ASSUME NEW E, NEW P, NEW R, WellFormed(E, P, R), NEW t \in Seq(E)
    PROVE  /\ FromTimeline(t) \in HistoryOf(E, P, R)
           /\ FromTimeline(t).timeline = t
           /\ FromTimeline(t).pairs = Paired(t)
           /\ FromTimeline(t).reverts = Reverted(t)
<1> DEFINE n == Len(t)
           prefix(i) == SubSeq(t, 1, i)
<1>1. n \in Nat /\ n \in 0..n /\ \A i \in 1..n : t[i] \in E
  OBVIOUS
<1>2. PICK g : Replaying(g, t) /\ FromTimeline(t) = g[n]
  BY FromTimelineLoop
<1> DEFINE Agrees(i) == /\ g[i] \in HistoryOf(E, P, R)
                        /\ g[i].timeline = prefix(i)
                        /\ g[i].pairs = Paired(prefix(i))
                        /\ g[i].reverts = Reverted(prefix(i))
           S == {i \in 0..n : Agrees(i)}
<1>3. 0 \in S
  <2>1. g[0] = NewHistory
    BY <1>1, <1>2 DEF Replaying
  <2>2. prefix(0) = <<>>
    BY SubSeqEmpty
  <2>3. /\ g[0].timeline = <<>> /\ g[0].pairs = <<>> /\ g[0].reverts = <<>>
    BY <2>1 DEF NewHistory
  <2>4. g[0] \in HistoryOf(E, P, R)
    BY <2>1, NewHistoryType
  <2>5. Agrees(0)
    BY <2>2, <2>3, <2>4, NothingPaired
  <2> HIDE DEF Agrees
  <2> QED
    BY <1>1, <2>5
<1>4. ASSUME NEW i \in 1..n, i - 1 \in S
      PROVE  i \in S
  <2> DEFINE e == t[i]
             q == prefix(i - 1)
             u == prefix(i)
             h == g[i - 1]
             f == g[i]
  <2>1. /\ i \in 0..n /\ i # 0 /\ e \in E
    BY <1>1
  <2>2. /\ h \in HistoryOf(E, P, R) /\ h.timeline = q
        /\ h.pairs = Paired(q) /\ h.reverts = Reverted(q)
    BY <1>4
  <2>3. f = Replayed(h, e)
    BY <1>2, <2>1 DEF Replaying, Replayed
  <2>4. q \in Seq(E) /\ u = Append(q, e)
    BY PrefixGrows
  <2> HIDE DEF e, q, u, h, f
  <2>5. /\ f \in HistoryOf(E, P, R) /\ f.timeline = Append(q, e)
        /\ IsPair(e) => /\ f.pairs = Append(Paired(q), <<e.predicted, e.realized>>)
                        /\ f.reverts = Reverted(q)
        /\ ~IsPair(e) => /\ f.pairs = Paired(q)
                         /\ f.reverts = Append(Reverted(q), e.event)
    <3>1. h \in HistoryOf(E, P, R) /\ e \in E
      BY <2>1, <2>2
    <3>2. f \in HistoryOf(E, P, R) /\ Extends(f, h, e)
      BY <2>3, <3>1, ReplayIteration
    <3> QED
      BY <2>2, <3>2 DEF Extends
  <2>6. Tagged(E) /\ (~IsPair(e) => IsRevert(e))
    BY <2>1, WellFormedTagged DEF Tagged
  <2>7. f.pairs = Paired(u) /\ f.reverts = Reverted(u)
    <3>1. CASE IsPair(e)
      <4>1. /\ Paired(u) = Append(Paired(q), <<e.predicted, e.realized>>)
            /\ Reverted(u) = Reverted(q)
        BY <2>1, <2>4, <2>6, <3>1, PushPair
      <4> QED
        BY <2>5, <3>1, <4>1
    <3>2. CASE ~IsPair(e)
      <4>1. IsRevert(e)
        BY <2>6, <3>2
      <4>2. /\ Reverted(u) = Append(Reverted(q), e.event)
            /\ Paired(u) = Paired(q)
        BY <2>1, <2>4, <2>6, <4>1, PushRevert
      <4> QED
        BY <2>5, <3>2, <4>2
    <3> QED
      BY <3>1, <3>2
  <2>8. Agrees(i)
    BY <2>4, <2>5, <2>7 DEF f, u
  <2> HIDE DEF Agrees
  <2> QED
    BY <2>1, <2>8
<1>5. Agrees(n)
  <2> HIDE DEF S
  <2>1. \A i \in 1..n : i - 1 \in S => i \in S
    BY <1>4
  <2>2. \A i \in 0..n : i \in S
    BY <1>1, <1>3, <2>1, RangeInduction
  <2>3. n \in S
    BY <1>1, <2>2
  <2> QED
    BY <2>3 DEF S
<1>6. prefix(n) = t
  BY SubSeqFull
<1> QED
  BY <1>2, <1>5, <1>6

-----------------------------------------------------------------------------
(* The end of a sequence *)

\* Keeping every position keeps the sequence.
LEMMA ElementsAtAll ==
    ASSUME NEW S, NEW s \in Seq(S)
    PROVE  ElementsAt(s, DOMAIN s) = s
<1> DEFINE n == Len(s)
           all == DOMAIN s
<1>1. n \in Nat /\ all = 1..n /\ all \in SUBSET (1..n)
  OBVIOUS
<1>2. ASSUME NEW m \in 0..n
      PROVE  Cardinality(1..m) = m
  <2>1. m \in Nat /\ 1 \in Int /\ m \in Int
    BY <1>1
  <2>2. Cardinality(1..m) = IF 1 > m THEN 0 ELSE m - 1 + 1
    BY <2>1, FS_Interval
  <2> QED
    BY <2>1, <2>2
<1> HIDE DEF all
<1>3. Cardinality(all) = n
  BY <1>1, <1>2
<1>4. ASSUME NEW i \in all
      PROVE  Rank(all, i) = i
  <2>1. i \in 1..n /\ i \in 0..n
    BY <1>1
  <2>2. {j \in all : j <= i} = 1..i
    BY <1>1, <2>1
  <2> QED
    BY <1>2, <2>1, <2>2 DEF Rank
<1>5. ASSUME NEW k \in 1..n
      PROVE  s[Min(Place(all, k))] = s[k]
  <2>1. PICK i \in all : Place(all, k) = {i} /\ Min(Place(all, k)) = i
    BY <1>1, <1>3, PlaceOfRank
  <2>2. i \in Place(all, k)
    BY <2>1
  <2>3. i = k
    BY <1>4, <2>2 DEF Place
  <2> QED
    BY <2>1, <2>3
<1>6. ElementsAt(s, all) = [k \in 1..n |-> s[Min(Place(all, k))]]
  BY <1>3, ElementsAtRank
<1>7. s = [k \in 1..n |-> s[k]]
  OBVIOUS
<1>8. ElementsAt(s, all) = [k \in 1..n |-> s[k]]
  BY <1>5, <1>6
<1> QED
  BY <1>7, <1>8 DEF all

\* t is the end of s, and n elements long or all of s.
IsEnd(t, s, n) ==
    /\ Len(t) <= Len(s)
    /\ Len(t) >= n \/ Len(t) = Len(s)
    /\ \A i \in 1..Len(t) : t[i] = s[Len(s) - Len(t) + i]

\* A window of at most n elements does not see what is dropped in front.
LEMMA WindowOfEnd ==
    ASSUME NEW S, NEW s \in Seq(S), NEW t \in Seq(S), NEW n \in Nat,
           IsEnd(t, s, n), NEW w \in Nat, w <= n
    PROVE  Recent(t, w) = Recent(s, w)
<1> DEFINE len == IF Len(s) >= w THEN w ELSE Len(s)
           r == Recent(s, w)
           q == Recent(t, w)
<1>1. Len(s) \in Nat /\ Len(t) \in Nat
  OBVIOUS
<1>2. /\ Len(t) <= Len(s) /\ (Len(t) >= n \/ Len(t) = Len(s))
      /\ \A i \in 1..Len(t) : t[i] = s[Len(s) - Len(t) + i]
  BY DEF IsEnd
<1>3. len \in Nat /\ len <= Len(t) /\ len = IF Len(t) >= w THEN w ELSE Len(t)
  BY <1>1, <1>2
<1>4. r \in Seq(S) /\ Len(r) = len /\ \A i \in 1..len : r[i] = s[Len(s) - len + i]
  BY RecentWindow
<1>5. /\ q \in Seq(S) /\ Len(q) = IF Len(t) >= w THEN w ELSE Len(t)
      /\ \A i \in 1..(IF Len(t) >= w THEN w ELSE Len(t)) :
            q[i] = t[Len(t) - (IF Len(t) >= w THEN w ELSE Len(t)) + i]
  BY RecentWindow
<1> HIDE DEF len
<1>6. Len(q) = len /\ \A i \in 1..len : q[i] = t[Len(t) - len + i]
  BY <1>3, <1>5
<1> HIDE DEF r, q
<1>7. ASSUME NEW i \in 1..len PROVE q[i] = r[i]
  <2>1. /\ Len(t) - len + i \in 1..Len(t)
        /\ Len(s) - Len(t) + (Len(t) - len + i) = Len(s) - len + i
    BY <1>1, <1>3
  <2>2. t[Len(t) - len + i] = s[Len(s) - len + i]
    BY <1>2, <2>1
  <2> QED
    BY <1>4, <1>6, <2>2
<1>8. q = r
  BY <1>4, <1>5, <1>6, <1>7, SeqEqual
<1> QED
  BY <1>8 DEF q, r

\* A nonempty set of positions has a largest one.
LEMMA MaxPosition ==
    ASSUME NEW n \in Nat, NEW I \in SUBSET (1..n), I # {}
    PROVE  Max(I) \in I /\ \A y \in I : y <= Max(I)
<1> DEFINE T == {m \in 0..n : n - m \in I}
<1>1. T \subseteq Nat /\ T # {}
  <2>1. PICK x \in I : TRUE
    OBVIOUS
  <2>2. x \in 1..n
    OBVIOUS
  <2>3. n - x \in 0..n /\ n - (n - x) = x
    BY <2>2
  <2>4. n - x \in T
    BY <2>3
  <2>5. T \subseteq Nat
    OBVIOUS
  <2> HIDE DEF T
  <2> QED
    BY <2>4, <2>5
<1>2. PICK m \in T : \A y \in T : m <= y
  BY <1>1, LeastNat
<1>3. n - m \in I /\ m \in 0..n
  OBVIOUS
<1>4. ASSUME NEW y \in I PROVE n - m >= y
  <2>1. y \in 1..n /\ n - y \in 0..n /\ n - (n - y) = y
    OBVIOUS
  <2>2. n - y \in T
    BY <2>1
  <2>3. m <= n - y
    BY <1>2, <2>2
  <2> QED
    BY <1>3, <2>1, <2>3
<1>5. \E x \in I : \A y \in I : x >= y
  BY <1>3, <1>4
<1>6. Max(I) \in I /\ \A y \in I : Max(I) >= y
  BY <1>5 DEF Max
<1> QED
  BY <1>6

\* consecutive_reverts reaches a limit exactly when that many entries at
\* the end of the timeline are not pairs.
LEMMA BurstMeans ==
    ASSUME NEW E, NEW h, NEW t, t = h.timeline, t \in Seq(E),
           NEW limit \in Nat \ {0}
    PROVE  /\ consecutive_reverts(h) \in Nat
           /\ consecutive_reverts(h) >= limit <=>
                  /\ limit <= Len(t)
                  /\ \A i \in 1..Len(t) : i > Len(t) - limit => ~IsPair(t[i])
<1> DEFINE last == SelectLastInSeq(t, IsPair)
           I == PairsAt(t)
           n == Len(t)
<1>1. n \in Nat /\ I \in SUBSET (1..n) /\ I = {i \in 1..n : IsPair(t[i])}
  BY DEF PairsAt
<1>2. last = IF I # {} THEN Max(I) ELSE 0
  BY LastPairIs
<1>3. consecutive_reverts(h) = n - last
  BY DEF consecutive_reverts
<1> HIDE DEF last, n, I
<1>4. /\ last \in 0..n /\ (last # 0 => IsPair(t[last]))
      /\ \A i \in 1..n : IsPair(t[i]) => i <= last
  <2>1. CASE I = {}
    BY <1>1, <1>2, <2>1
  <2>2. CASE I # {}
    <3>1. last \in I /\ \A y \in I : y <= last
      BY <1>1, <1>2, <2>2, MaxPosition
    <3> QED
      BY <1>1, <3>1
  <2> QED
    BY <2>1, <2>2
<1>5. n - last \in Nat
  BY <1>1, <1>4
<1>6. ASSUME n - last >= limit
      PROVE  limit <= n /\ \A i \in 1..n : i > n - limit => ~IsPair(t[i])
  BY <1>1, <1>4, <1>6
<1>7. ASSUME limit <= n, \A i \in 1..n : i > n - limit => ~IsPair(t[i])
      PROVE  n - last >= limit
  <2>1. CASE last = 0
    BY <1>1, <1>7, <2>1
  <2>2. CASE last # 0
    <3>1. last \in 1..n /\ IsPair(t[last])
      BY <1>1, <1>4, <2>2
    <3>2. ~(last > n - limit)
      BY <1>7, <3>1
    <3> QED
      BY <1>1, <3>1, <3>2
  <2> QED
    BY <2>1, <2>2
<1> QED
  BY <1>3, <1>5, <1>6, <1>7 DEF n

-----------------------------------------------------------------------------
(* Histories of usable pairs *)

\* All pairs are usable exactly when the usable pairs are the pairs.
LEMMA AllUsable ==
    ASSUME NEW h, h.pairs \in Seq(Int \X Int)
    PROVE  PositivePairs(h) = h.pairs
             <=> \A i \in 1..Len(h.pairs) : h.pairs[i][1] > 0
<1> DEFINE s == h.pairs
           kept == {i \in DOMAIN s : s[i][1] > 0}
<1>1. /\ Len(s) \in Nat /\ DOMAIN s = 1..Len(s) /\ s \in Seq(Int \X Int)
      /\ kept \in SUBSET DOMAIN s
  OBVIOUS
<1>2. PositivePairs(h) = ElementsAt(s, kept)
  BY DEF PositivePairs
<1>3. ASSUME \A i \in 1..Len(s) : s[i][1] > 0
      PROVE  PositivePairs(h) = s
  <2>1. kept = DOMAIN s
    BY <1>1, <1>3
  <2> HIDE DEF s, kept
  <2> QED
    BY <1>1, <1>2, <2>1, ElementsAtAll
<1>4. ASSUME PositivePairs(h) = s
      PROVE  \A i \in 1..Len(s) : s[i][1] > 0
  <2> HIDE DEF s, kept
  <2>1. Len(s) = Cardinality(kept)
    BY <1>1, <1>2, <1>4, ElementsAtType
  <2>2. IsFiniteSet(1..Len(s)) /\ Cardinality(1..Len(s)) = Len(s)
    <3>1. 1 \in Int /\ Len(s) \in Int
      BY <1>1
    <3>2. /\ IsFiniteSet(1..Len(s))
          /\ Cardinality(1..Len(s)) = IF 1 > Len(s) THEN 0 ELSE Len(s) - 1 + 1
      BY <3>1, FS_Interval
    <3> QED
      BY <1>1, <3>2
  <2>3. kept = 1..Len(s)
    BY <1>1, <2>1, <2>2, FS_Subset
  <2> QED
    BY <2>3 DEF kept
<1> QED
  BY <1>3, <1>4

\* r are the ratios of the last n of the pairs s.
RatiosOf(r, s, n) ==
    LET len == IF Len(s) >= n THEN n ELSE Len(s)
    IN  /\ Len(r) = len
        /\ DOMAIN r = 1..len
        /\ \A i \in 1..len : r[i] = Ratio(s[Len(s) - len + i])

\* The window of ratios is then that of the pairs.
LEMMA UsableRatios ==
    ASSUME NEW h, NEW s, s = h.pairs, s \in Seq(Int \X Int), PositivePairs(h) = s,
           NEW n \in Nat
    PROVE  RatiosOf(recent_ratios(h, n), s, n)
<1> DEFINE S == Int \X Int
           w == Recent(s, n)
           len == IF Len(s) >= n THEN n ELSE Len(s)
<1>1. recent_ratios(h, n) = [i \in DOMAIN w |-> Ratio(w[i])]
  BY DEF recent_ratios
<1>2. s \in Seq(S) /\ Len(s) \in Nat /\ len \in Nat
  OBVIOUS
<1> HIDE DEF S
<1>3. /\ w \in Seq(S) /\ Len(w) = len
      /\ \A i \in 1..len : w[i] = s[Len(s) - len + i]
  BY <1>2, RecentWindow
<1> HIDE DEF w, len
<1>4. DOMAIN w = 1..len
  BY <1>3
<1>5. /\ DOMAIN recent_ratios(h, n) = 1..len
      /\ \A i \in 1..len : recent_ratios(h, n)[i] = Ratio(s[Len(s) - len + i])
  BY <1>1, <1>3, <1>4
<1>6. Len(recent_ratios(h, n)) = len
  <2> DEFINE r == [i \in 1..len |-> Ratio(w[i])]
  <2>1. recent_ratios(h, n) = r
    BY <1>1, <1>4
  <2>2. Len(r) = len
    BY <1>2
  <2> QED
    BY <2>1, <2>2
<1> QED
  BY <1>5, <1>6 DEF len, RatiosOf

-----------------------------------------------------------------------------
(* Folds over finite sets.  MapThenFoldSet takes the elements in an order  *)
(* that nothing says anything about; for an operation that combines them   *)
(* in any order, the fold over S with one more element x is the operation  *)
(* on x and the fold over S.                                               *)

\* The element that a fold takes first.
Pick(s) == CHOOSE x \in s : TRUE

\* F combines integers in any order.
Combines(F) ==
    /\ F \in [Int -> [Int -> Int]]
    /\ \A a, b, c \in Int : F[a][F[b][c]] = F[b][F[a][c]]

\* g folds every subset of S, starting from b.
Folded(g, F, b, f, S) ==
    /\ g \in [SUBSET S -> Int]
    /\ g[{}] = b
    /\ \A s \in SUBSET S :
           s # {} => g[s] = F[f[Pick(s)]][g[s \ {Pick(s)}]]

\* Taking an element out of a finite set.
LEMMA Without ==
    ASSUME NEW S, IsFiniteSet(S), NEW s \in SUBSET S, NEW x \in s
    PROVE  /\ s \ {x} \in SUBSET S
           /\ IsFiniteSet(s) /\ IsFiniteSet(s \ {x})
           /\ Cardinality(s) \in Nat /\ Cardinality(s \ {x}) \in Nat
           /\ Cardinality(s) <= Cardinality(S)
           /\ Cardinality(s \ {x}) = Cardinality(s) - 1
           /\ Cardinality(s) # 0
<1>1. IsFiniteSet(s) /\ Cardinality(s) <= Cardinality(S)
  BY FS_Subset
<1>2. IsFiniteSet(s \ {x}) /\ Cardinality(s \ {x}) = Cardinality(s) - 1
  BY <1>1, FS_RemoveElement
<1>3. Cardinality(s) \in Nat /\ Cardinality(s \ {x}) \in Nat
  BY <1>1, <1>2, FS_CardinalityType
<1> QED
  BY <1>1, <1>2, <1>3

\* The element picked from a nonempty set is in it.
LEMMA Picked ==
    ASSUME NEW s, s # {}
    PROVE  Pick(s) \in s
  BY DEF Pick

\* A statement about the subsets of a finite set holds of all of them if it
\* holds of those with i elements whenever it does of those with fewer.
LEMMA SubsetInduction ==
    ASSUME NEW S, IsFiniteSet(S), NEW Good,
           {} \in Good,
           \A s \in SUBSET S :
               s # {} /\ (\A x \in s : s \ {x} \in Good) => s \in Good
    PROVE  \A s \in SUBSET S : s \in Good
<1> DEFINE n == Cardinality(S)
           I == {i \in 0..n : \A s \in SUBSET S : Cardinality(s) = i => s \in Good}
<1>1. n \in Nat
  BY FS_CardinalityType
<1>2. ASSUME NEW s \in SUBSET S
      PROVE  /\ IsFiniteSet(s) /\ Cardinality(s) \in 0..n
             /\ Cardinality(s) = 0 => s = {}
  BY <1>1, FS_Subset, FS_CardinalityType, FS_EmptySet
<1> HIDE DEF n
<1>3. 0 \in I
  <2>1. \A s \in SUBSET S : Cardinality(s) = 0 => s \in Good
    BY <1>2
  <2>2. 0 \in 0..n
    BY <1>1
  <2> QED
    BY <2>1, <2>2
<1>4. ASSUME NEW i \in 1..n, i - 1 \in I PROVE i \in I
  <2> SUFFICES ASSUME NEW s \in SUBSET S, Cardinality(s) = i PROVE s \in Good
    <3>1. i \in 0..n
      BY <1>1
    <3> QED
      BY <3>1
  <2>1. s # {}
    <3>1. Cardinality({}) = 0 /\ i # 0
      BY FS_EmptySet
    <3> QED
      BY <3>1
  <2>2. ASSUME NEW x \in s PROVE s \ {x} \in Good
    <3>1. s \ {x} \in SUBSET S /\ Cardinality(s \ {x}) = i - 1
      BY Without
    <3> QED
      BY <1>4, <3>1
  <2> QED
    BY <2>1, <2>2
<1> HIDE DEF I
<1>5. \A i \in 0..n : i \in I
  BY <1>1, <1>3, <1>4, RangeInduction
<1> QED
  BY <1>2, <1>5 DEF I

\* There is a fold.
LEMMA FoldExists ==
    ASSUME NEW S, IsFiniteSet(S), NEW f, \A x \in S : f[x] \in Int,
           NEW F, Combines(F), NEW b \in Int
    PROVE  \E g : Folded(g, F, b, f, S)
<1> DEFINE n == Cardinality(S)
           V == [SUBSET S -> Int]
           Next(v) == [s \in SUBSET S |->
                          IF s = {} THEN b ELSE F[f[Pick(s)]][v[s \ {Pick(s)}]]]
           Steps == [i \in 1..n + 1 |-> [v \in V |-> Next(v)]]
           zero == [s \in SUBSET S |-> b]
<1>1. n \in Nat /\ n + 1 \in Nat
  BY FS_CardinalityType
<1>2. ASSUME NEW v \in V PROVE Next(v) \in V
  <2> SUFFICES ASSUME NEW s \in SUBSET S, s # {}
               PROVE  F[f[Pick(s)]][v[s \ {Pick(s)}]] \in Int
    <3>1. \A s \in SUBSET S :
             (IF s = {} THEN b ELSE F[f[Pick(s)]][v[s \ {Pick(s)}]]) \in Int
      OBVIOUS
    <3> QED
      BY <3>1
  <2>1. f[Pick(s)] \in Int /\ v[s \ {Pick(s)}] \in Int
    BY Picked
  <2>2. \A a, c \in Int : F[a][c] \in Int
    BY DEF Combines
  <2> QED
    BY <2>1, <2>2
<1>3. zero \in V /\ Steps \in [1..n + 1 -> [V -> V]]
  BY <1>2
<1> HIDE DEF n, V, Next, zero
<1>4. PICK g : Iterates(g, zero, Steps, n + 1, V)
  <2> HIDE DEF Steps
  <2> QED
    BY <1>1, <1>3, Recursion
<1>5. /\ g \in [0..n + 1 -> V]
      /\ \A i \in 1..n + 1 : g[i] = Next(g[i - 1])
  <2>1. /\ g \in [0..n + 1 -> V]
        /\ \A i \in 1..n + 1 : g[i] = Steps[i][g[i - 1]]
    BY <1>4 DEF Iterates
  <2>2. ASSUME NEW i \in 1..n + 1 PROVE g[i] = Next(g[i - 1])
    <3>1. i - 1 \in 0..n + 1 /\ g[i - 1] \in V
      BY <1>1, <2>1
    <3> QED
      BY <2>1, <3>1
  <2> QED
    BY <2>1, <2>2
\* After i steps the subsets with fewer than i elements are settled.
<1> DEFINE Fixed(i) == \A s \in SUBSET S : Cardinality(s) < i => Next(g[i])[s] = g[i][s]
           I == {i \in 0..n + 1 : Fixed(i)}
<1>6. 0 \in I
  <2>1. \A s \in SUBSET S : ~(Cardinality(s) < 0)
    BY FS_Subset, FS_CardinalityType
  <2> QED
    BY <1>1, <2>1
<1>7. ASSUME NEW i \in 1..n + 1, i - 1 \in I PROVE i \in I
  <2> SUFFICES ASSUME NEW s \in SUBSET S, Cardinality(s) < i
               PROVE  Next(g[i])[s] = g[i][s]
    BY <1>7
  <2>1. /\ i - 1 \in 0..n + 1 /\ i \in 0..n + 1
        /\ g[i] \in V /\ g[i - 1] \in V /\ g[i] = Next(g[i - 1])
    BY <1>1, <1>5
  <2>2. CASE s = {}
    BY <2>1, <2>2 DEF Next
  <2>3. CASE s # {}
    <3> DEFINE r == s \ {Pick(s)}
    <3>1. Pick(s) \in s
      BY <2>3, Picked
    <3>2. r \in SUBSET S /\ Cardinality(r) < i - 1
      BY <1>1, <3>1, Without
    <3> HIDE DEF r
    <3>3. g[i][r] = g[i - 1][r]
      BY <1>7, <2>1, <3>2
    <3>4. /\ Next(g[i])[s] = F[f[Pick(s)]][g[i][r]]
          /\ Next(g[i - 1])[s] = F[f[Pick(s)]][g[i - 1][r]]
      BY <2>3 DEF Next, r
    <3> QED
      BY <2>1, <3>3, <3>4
  <2> QED
    BY <2>2, <2>3
<1>8. Fixed(n + 1)
  <2> HIDE DEF I, Fixed
  <2>1. \A i \in 0..n + 1 : i \in I
    BY <1>1, <1>6, <1>7, RangeInduction
  <2>2. n + 1 \in 0..n + 1
    BY <1>1
  <2> QED
    BY <2>1, <2>2 DEF I
<1>9. ASSUME NEW s \in SUBSET S PROVE Next(g[n + 1])[s] = g[n + 1][s]
  <2>1. IsFiniteSet(s) /\ Cardinality(s) \in Nat /\ Cardinality(s) <= n
    BY FS_Subset, FS_CardinalityType DEF n
  <2> QED
    BY <1>1, <1>8, <2>1
<1>10. g[n + 1] \in V
  BY <1>1, <1>5
<1>11. Folded(g[n + 1], F, b, f, S)
  BY <1>9, <1>10 DEF Folded, V, Next
<1> QED
  BY <1>11

\* A fold may take out any element first.
LEMMA FoldAny ==
    ASSUME NEW S, IsFiniteSet(S), NEW f, \A x \in S : f[x] \in Int,
           NEW F, Combines(F), NEW b,
           NEW g, Folded(g, F, b, f, S)
    PROVE  \A s \in SUBSET S : \A x \in s : g[s] = F[f[x]][g[s \ {x}]]
<1> DEFINE Good == {s \in SUBSET S : \A x \in s : g[s] = F[f[x]][g[s \ {x}]]}
<1>1. {} \in Good
  OBVIOUS
<1>2. ASSUME NEW s \in SUBSET S, s # {}, \A x \in s : s \ {x} \in Good
      PROVE  s \in Good
  <2> SUFFICES ASSUME NEW x \in s PROVE g[s] = F[f[x]][g[s \ {x}]]
    OBVIOUS
  <2> DEFINE y == Pick(s)
  <2>1. y \in s /\ g[s] = F[f[y]][g[s \ {y}]]
    BY <1>2, Picked DEF Folded
  <2> HIDE DEF y
  <2>2. CASE x = y
    BY <2>1, <2>2
  <2>3. CASE x # y
    <3> DEFINE r == (s \ {x}) \ {y}
    <3>1. r = (s \ {y}) \ {x} /\ r \in SUBSET S
      OBVIOUS
    <3>2. x \in s \ {y} /\ y \in s \ {x}
      BY <2>1, <2>3
    <3>3. s \ {y} \in Good /\ s \ {x} \in Good
      BY <1>2, <2>1
    <3>4. g[s \ {y}] = F[f[x]][g[r]] /\ g[s \ {x}] = F[f[y]][g[r]]
      BY <3>1, <3>2, <3>3
    <3> HIDE DEF r
    <3>5. f[x] \in Int /\ f[y] \in Int /\ g[r] \in Int
      BY <2>1, <3>1 DEF Folded
    <3>6. F[f[y]][F[f[x]][g[r]]] = F[f[x]][F[f[y]][g[r]]]
      BY <3>5 DEF Combines
    <3> QED
      BY <2>1, <3>4, <3>6
  <2> QED
    BY <2>2, <2>3
<1> HIDE DEF Good
<1>3. \A s \in SUBSET S : s \in Good
  BY <1>1, <1>2, SubsetInduction
<1> QED
  BY <1>3 DEF Good

\* Folds of overlapping sets agree on what both fold.
LEMMA FoldsAgree ==
    ASSUME NEW S, IsFiniteSet(S), NEW R \in SUBSET S, NEW F, NEW b, NEW f,
           NEW g, Folded(g, F, b, f, S), NEW h, Folded(h, F, b, f, R)
    PROVE  \A s \in SUBSET R : g[s] = h[s]
<1> DEFINE Good == {s \in SUBSET R : g[s] = h[s]}
<1>0. IsFiniteSet(R)
  BY FS_Subset
<1>1. {} \in Good
  BY DEF Folded
<1>2. ASSUME NEW s \in SUBSET R, s # {}, \A x \in s : s \ {x} \in Good
      PROVE  s \in Good
  <2>1. Pick(s) \in s /\ s \in SUBSET S
    BY <1>2, Picked
  <2>2. g[s \ {Pick(s)}] = h[s \ {Pick(s)}]
    BY <1>2, <2>1
  <2> QED
    BY <1>2, <2>1, <2>2 DEF Folded
<1> HIDE DEF Good
<1>3. \A s \in SUBSET R : s \in Good
  BY <1>0, <1>1, <1>2, SubsetInduction
<1> QED
  BY <1>3 DEF Good

\* The two operations the guards fold with.
Adding      == [a \in Int |-> [b \in Int |-> a + b]]
Multiplying == [a \in Int |-> [b \in Int |-> a * b]]

\* The product of the amounts f over S.
ProductOf(f, S) == FoldFunctionOnSet(LAMBDA x, y : x * y, 1, f, S)

-----------------------------------------------------------------------------
\* A sum is a fold.
LEMMA SumFolds ==
    ASSUME NEW S, IsFiniteSet(S), NEW f, \A x \in S : f[x] \in Int
    PROVE  \E g : Folded(g, Adding, 0, f, S) /\ SumFunctionOnSet(f, S) = g[S]
<1> DEFINE Solves(g) == g = [s \in SUBSET S |->
                IF s = {} THEN 0 ELSE f[Pick(s)] + g[s \ {Pick(s)}]]
           g == CHOOSE h : Solves(h)
<1>1. SumFunctionOnSet(f, S) = g[S]
  BY DEF SumFunctionOnSet, FoldFunctionOnSet, MapThenFoldSet, Pick
<1>2. Combines(Adding)
  BY DEF Combines, Adding
<1>3. PICK h : Folded(h, Adding, 0, f, S)
  BY <1>2, FoldExists
<1>4. Solves(h)
  <2>1. ASSUME NEW s \in SUBSET S, s # {}
        PROVE  h[s] = f[Pick(s)] + h[s \ {Pick(s)}]
    <3>1. f[Pick(s)] \in Int /\ h[s \ {Pick(s)}] \in Int
      BY <1>3, <2>1, Picked DEF Folded
    <3> QED
      BY <1>3, <2>1, <3>1 DEF Folded, Adding
  <2> QED
    BY <1>3, <2>1 DEF Folded
<1>5. Solves(g)
  <2> HIDE DEF Solves
  <2> QED
    BY <1>4
<1> HIDE DEF g
<1>6. /\ g[{}] = 0 /\ DOMAIN g = SUBSET S /\ g = [s \in SUBSET S |-> g[s]]
      /\ \A s \in SUBSET S : s # {} => g[s] = f[Pick(s)] + g[s \ {Pick(s)}]
  BY <1>5
<1> HIDE DEF Solves
<1> DEFINE Good == {s \in SUBSET S : g[s] \in Int}
<1>7. {} \in Good
  BY <1>6
<1>8. ASSUME NEW s \in SUBSET S, s # {}, \A x \in s : s \ {x} \in Good
      PROVE  s \in Good
  <2>1. Pick(s) \in s
    BY <1>8, Picked
  <2>2. g[s \ {Pick(s)}] \in Int /\ f[Pick(s)] \in Int
    BY <1>8, <2>1
  <2>3. g[s] = f[Pick(s)] + g[s \ {Pick(s)}]
    BY <1>6, <1>8
  <2>4. g[s] \in Int
    BY <2>2, <2>3
  <2> QED
    BY <2>4
<1> HIDE DEF Good
<1>9. \A s \in SUBSET S : s \in Good
  BY <1>7, <1>8, SubsetInduction
<1>10. \A s \in SUBSET S : g[s] \in Int
  BY <1>9 DEF Good
<1>11. ASSUME NEW s \in SUBSET S, s # {}
       PROVE  g[s] = Adding[f[Pick(s)]][g[s \ {Pick(s)}]]
  <2>1. f[Pick(s)] \in Int /\ g[s \ {Pick(s)}] \in Int
    BY <1>10, <1>11, Picked
  <2> QED
    BY <1>6, <1>11, <2>1 DEF Adding
<1>12. Folded(g, Adding, 0, f, S)
  BY <1>6, <1>10, <1>11 DEF Folded
<1> QED
  BY <1>1, <1>12

\* A sum over no element, and over one element more.
LEMMA SumGrows ==
    ASSUME NEW S, IsFiniteSet(S), NEW x, x \notin S, NEW R, R = S \cup {x},
           NEW f, \A y \in R : f[y] \in Int
    PROVE  /\ SumFunctionOnSet(f, {}) = 0
           /\ SumFunctionOnSet(f, S) \in Int
           /\ SumFunctionOnSet(f, R) = f[x] + SumFunctionOnSet(f, S)
<1>1. /\ IsFiniteSet(R) /\ IsFiniteSet({}) /\ S \in SUBSET R /\ {} \in SUBSET R
      /\ x \in R /\ S = R \ {x} /\ f[x] \in Int
  BY FS_AddElement, FS_EmptySet
<1>2. PICK g : Folded(g, Adding, 0, f, S) /\ SumFunctionOnSet(f, S) = g[S]
  BY <1>1, SumFolds
<1>3. PICK h : Folded(h, Adding, 0, f, R) /\ SumFunctionOnSet(f, R) = h[R]
  BY <1>1, SumFolds
<1>4. PICK k : Folded(k, Adding, 0, f, {}) /\ SumFunctionOnSet(f, {}) = k[{}]
  BY <1>1, SumFolds
<1>5. h[S] = g[S]
  BY <1>1, <1>2, <1>3, FoldsAgree
<1>6. Combines(Adding)
  BY DEF Combines, Adding
<1>7. h[R] = Adding[f[x]][h[R \ {x}]]
  BY <1>1, <1>3, <1>6, FoldAny
<1>8. g[S] \in Int /\ k[{}] = 0
  BY <1>2, <1>4 DEF Folded
<1> QED
  BY <1>1, <1>2, <1>3, <1>4, <1>5, <1>7, <1>8 DEF Adding

-----------------------------------------------------------------------------
\* A product is a fold.
LEMMA ProductFolds ==
    ASSUME NEW S, IsFiniteSet(S), NEW f, \A x \in S : f[x] \in Int
    PROVE  \E g : Folded(g, Multiplying, 1, f, S) /\ ProductOf(f, S) = g[S]
<1> DEFINE Solves(g) == g = [s \in SUBSET S |->
                IF s = {} THEN 1 ELSE f[Pick(s)] * g[s \ {Pick(s)}]]
           g == CHOOSE h : Solves(h)
<1>1. ProductOf(f, S) = g[S]
  BY DEF ProductOf, FoldFunctionOnSet, MapThenFoldSet, Pick
<1>2. Combines(Multiplying)
  BY DEF Combines, Multiplying
<1>3. PICK h : Folded(h, Multiplying, 1, f, S)
  BY <1>2, FoldExists
<1>4. Solves(h)
  <2>1. ASSUME NEW s \in SUBSET S, s # {}
        PROVE  h[s] = f[Pick(s)] * h[s \ {Pick(s)}]
    <3>1. f[Pick(s)] \in Int /\ h[s \ {Pick(s)}] \in Int
      BY <1>3, <2>1, Picked DEF Folded
    <3> QED
      BY <1>3, <2>1, <3>1 DEF Folded, Multiplying
  <2> QED
    BY <1>3, <2>1 DEF Folded
<1>5. Solves(g)
  <2> HIDE DEF Solves
  <2> QED
    BY <1>4
<1> HIDE DEF g
<1>6. /\ g[{}] = 1 /\ DOMAIN g = SUBSET S /\ g = [s \in SUBSET S |-> g[s]]
      /\ \A s \in SUBSET S : s # {} => g[s] = f[Pick(s)] * g[s \ {Pick(s)}]
  BY <1>5
<1> HIDE DEF Solves
<1> DEFINE Good == {s \in SUBSET S : g[s] \in Int}
<1>7. {} \in Good
  BY <1>6
<1>8. ASSUME NEW s \in SUBSET S, s # {}, \A x \in s : s \ {x} \in Good
      PROVE  s \in Good
  <2>1. Pick(s) \in s
    BY <1>8, Picked
  <2>2. g[s \ {Pick(s)}] \in Int /\ f[Pick(s)] \in Int
    BY <1>8, <2>1
  <2>3. g[s] = f[Pick(s)] * g[s \ {Pick(s)}]
    BY <1>6, <1>8
  <2>4. g[s] \in Int
    BY <2>2, <2>3
  <2> QED
    BY <2>4
<1> HIDE DEF Good
<1>9. \A s \in SUBSET S : s \in Good
  BY <1>7, <1>8, SubsetInduction
<1>10. \A s \in SUBSET S : g[s] \in Int
  BY <1>9 DEF Good
<1>11. ASSUME NEW s \in SUBSET S, s # {}
       PROVE  g[s] = Multiplying[f[Pick(s)]][g[s \ {Pick(s)}]]
  <2>1. f[Pick(s)] \in Int /\ g[s \ {Pick(s)}] \in Int
    BY <1>10, <1>11, Picked
  <2> QED
    BY <1>6, <1>11, <2>1 DEF Multiplying
<1>12. Folded(g, Multiplying, 1, f, S)
  BY <1>6, <1>10, <1>11 DEF Folded
<1> QED
  BY <1>1, <1>12

\* A product over no element, and over one element more.
LEMMA ProductGrows ==
    ASSUME NEW S, IsFiniteSet(S), NEW x, x \notin S, NEW R, R = S \cup {x},
           NEW f, \A y \in R : f[y] \in Int
    PROVE  /\ ProductOf(f, {}) = 1
           /\ ProductOf(f, S) \in Int
           /\ ProductOf(f, R) = f[x] * ProductOf(f, S)
<1>1. /\ IsFiniteSet(R) /\ IsFiniteSet({}) /\ S \in SUBSET R /\ {} \in SUBSET R
      /\ x \in R /\ S = R \ {x} /\ f[x] \in Int
  BY FS_AddElement, FS_EmptySet
<1>2. PICK g : Folded(g, Multiplying, 1, f, S) /\ ProductOf(f, S) = g[S]
  BY <1>1, ProductFolds
<1>3. PICK h : Folded(h, Multiplying, 1, f, R) /\ ProductOf(f, R) = h[R]
  BY <1>1, ProductFolds
<1>4. PICK k : Folded(k, Multiplying, 1, f, {}) /\ ProductOf(f, {}) = k[{}]
  BY <1>1, ProductFolds
<1>5. h[S] = g[S]
  BY <1>1, <1>2, <1>3, FoldsAgree
<1>6. Combines(Multiplying)
  BY DEF Combines, Multiplying
<1>7. h[R] = Multiplying[f[x]][h[R \ {x}]]
  BY <1>1, <1>3, <1>6, FoldAny
<1>8. g[S] \in Int /\ k[{}] = 1
  BY <1>2, <1>4 DEF Folded
<1> QED
  BY <1>1, <1>2, <1>3, <1>4, <1>5, <1>7, <1>8 DEF Multiplying

-----------------------------------------------------------------------------
(* Enumerations.  A loop over a sequence adds up the amounts of a set when *)
(* the sequence lists the set, each element once.                          *)

\* q lists the m elements of S, each once.
Enumerates(q, m, S) ==
    /\ m \in Nat /\ q \in [1..m -> S]
    /\ \A a, b \in 1..m : q[a] = q[b] => a = b
    /\ \A x \in S : \E a \in 1..m : q[a] = x

\* The first k elements of an enumeration.
First(q, k) == {q[a] : a \in 1..k}

\* The first k elements grow by one element at a time, from none to all.
LEMMA FirstGrows ==
    ASSUME NEW S, NEW m, NEW q, Enumerates(q, m, S)
    PROVE  /\ First(q, 0) = {} /\ First(q, m) = S
           /\ \A k \in 1..m : /\ First(q, k) = First(q, k - 1) \cup {q[k]}
                              /\ q[k] \notin First(q, k - 1)
           /\ \A k \in 0..m : /\ First(q, k) \subseteq S
                              /\ IsFiniteSet(First(q, k))
                              /\ Cardinality(First(q, k)) = k
<1>1. /\ m \in Nat /\ q \in [1..m -> S]
      /\ \A a, b \in 1..m : q[a] = q[b] => a = b
      /\ \A x \in S : \E a \in 1..m : q[a] = x
  BY DEF Enumerates
<1>2. First(q, 0) = {} /\ First(q, m) = S
  BY <1>1 DEF First
<1>3. ASSUME NEW k \in 1..m
      PROVE  /\ First(q, k) = First(q, k - 1) \cup {q[k]}
             /\ q[k] \notin First(q, k - 1)
  <2>1. \A a \in Int : a \in 1..k <=> a \in 1..k - 1 \/ a = k
    BY <1>1
  <2>2. \A a \in 1..k - 1 : a \in 1..m /\ a # k
    BY <1>1
  <2> QED
    BY <1>1, <2>1, <2>2 DEF First
<1>4. \A k \in 0..m : First(q, k) \subseteq S
  BY <1>1 DEF First
<1> DEFINE I == {k \in 0..m : IsFiniteSet(First(q, k)) /\ Cardinality(First(q, k)) = k}
<1>5. 0 \in I
  BY <1>1, <1>2, FS_EmptySet
<1>6. ASSUME NEW k \in 1..m, k - 1 \in I PROVE k \in I
  <2>1. IsFiniteSet(First(q, k - 1)) /\ Cardinality(First(q, k - 1)) = k - 1
    BY <1>6
  <2>2. /\ IsFiniteSet(First(q, k - 1) \cup {q[k]})
        /\ Cardinality(First(q, k - 1) \cup {q[k]}) = k - 1 + 1
    BY <1>3, <2>1, FS_AddElement
  <2>3. k \in 0..m /\ k - 1 + 1 = k
    BY <1>1
  <2> QED
    BY <1>3, <2>2, <2>3
<1> HIDE DEF I
<1>7. \A k \in 0..m : k \in I
  BY <1>1, <1>5, <1>6, RangeInduction
<1> QED
  BY <1>2, <1>3, <1>4, <1>7 DEF I

\* The accumulator of a sum.
LEMMA SumLoop ==
    ASSUME NEW s \in Seq(Int)
    PROVE  /\ PartialSums(s)[0] = 0
           /\ \A i \in 1..Len(s) : PartialSums(s)[i] = PartialSums(s)[i - 1] + s[i]
           /\ \A i \in 0..Len(s) : PartialSums(s)[i] \in Int
           /\ SumSeq(s) = PartialSums(s)[Len(s)]
<1> DEFINE n == Len(s)
           Solves(f) == f = [i \in 0..n |-> IF i = 0 THEN 0 ELSE f[i - 1] + s[i]]
           Steps == [i \in 1..n |-> [v \in Int |-> v + s[i]]]
<1>1. n \in Nat /\ Steps \in [1..n -> [Int -> Int]] /\ 0 \in Int
  OBVIOUS
<1>2. PICK g : Iterates(g, 0, Steps, n, Int)
  <2> HIDE DEF n, Steps
  <2> QED
    BY <1>1, Recursion
<1> HIDE DEF n
<1>3. /\ g \in [0..n -> Int] /\ g[0] = 0
      /\ \A i \in 1..n : g[i] = Steps[i][g[i - 1]]
  BY <1>2 DEF Iterates
<1>4. \A i \in 1..n : g[i] = g[i - 1] + s[i]
  <2> SUFFICES ASSUME NEW i \in 1..n PROVE g[i] = g[i - 1] + s[i]
    OBVIOUS
  <2>1. i - 1 \in 0..n /\ g[i - 1] \in Int
    BY <1>1, <1>3
  <2> QED
    BY <1>3, <2>1
<1>5. Solves(g)
  <2>1. \A i \in 0..n : g[i] = IF i = 0 THEN 0 ELSE g[i - 1] + s[i]
    <3>1. \A i \in 0..n : i # 0 => i \in 1..n
      BY <1>1
    <3> QED
      BY <1>3, <1>4, <3>1
  <2> QED
    BY <1>3, <2>1
<1>6. PartialSums(s) = CHOOSE f : Solves(f)
  BY DEF PartialSums, n
<1>7. Solves(PartialSums(s))
  <2> HIDE DEF Solves
  <2> QED
    BY <1>5, <1>6
<1> DEFINE p == PartialSums(s)
<1> HIDE DEF p
<1>8. p[0] = 0 /\ \A i \in 1..n : p[i] = p[i - 1] + s[i]
  <2>1. \A i \in 1..n : i \in 0..n /\ i # 0
    BY <1>1
  <2>2. 0 \in 0..n
    BY <1>1
  <2>3. Solves(p)
    BY <1>7 DEF p
  <2> QED
    BY <2>1, <2>2, <2>3
<1> DEFINE I == {i \in 0..n : p[i] \in Int}
<1>9. 0 \in I
  BY <1>1, <1>8
<1>10. ASSUME NEW i \in 1..n, i - 1 \in I PROVE i \in I
  <2>1. p[i - 1] \in Int /\ s[i] \in Int /\ i \in 0..n
    BY <1>1, <1>10 DEF n
  <2>2. p[i] \in Int
    BY <1>8, <2>1
  <2> QED
    BY <2>1, <2>2
<1> HIDE DEF I
<1>11. \A i \in 0..n : i \in I
  BY <1>1, <1>9, <1>10, RangeInduction
<1> QED
  BY <1>8, <1>11 DEF I, SumSeq, p, n

\* The sum of a sequence that lists the amounts of S is their sum over S.
LEMMA SumEnumerated ==
    ASSUME NEW S, NEW s \in Seq(Int), NEW q, Enumerates(q, Len(s), S),
           NEW f, \A k \in 1..Len(s) : s[k] = f[q[k]]
    PROVE  /\ \A k \in 0..Len(s) : PartialSums(s)[k] = SumFunctionOnSet(f, First(q, k))
           /\ SumSeq(s) = SumFunctionOnSet(f, S)
<1> DEFINE m == Len(s)
           Same(k) == PartialSums(s)[k] = SumFunctionOnSet(f, First(q, k))
           I == {k \in 0..m : Same(k)}
<1>1. m \in Nat /\ \A k \in 1..m : s[k] \in Int
  OBVIOUS
<1>2. \A x \in S : f[x] \in Int
  <2> SUFFICES ASSUME NEW x \in S PROVE f[x] \in Int
    OBVIOUS
  <2>1. PICK a \in 1..Len(s) : q[a] = x
    BY DEF Enumerates
  <2> QED
    BY <2>1
<1>3. /\ PartialSums(s)[0] = 0 /\ SumSeq(s) = PartialSums(s)[m]
      /\ \A i \in 1..m : PartialSums(s)[i] = PartialSums(s)[i - 1] + s[i]
      /\ \A i \in 0..m : PartialSums(s)[i] \in Int
  BY SumLoop
<1>4. /\ First(q, 0) = {} /\ First(q, m) = S
      /\ \A k \in 1..m : /\ First(q, k) = First(q, k - 1) \cup {q[k]}
                         /\ q[k] \notin First(q, k - 1)
      /\ \A k \in 0..m : First(q, k) \subseteq S /\ IsFiniteSet(First(q, k))
  BY FirstGrows
<1>5. \A k \in 1..m : s[k] = f[q[k]]
  OBVIOUS
<1> HIDE DEF m
<1>6. 0 \in I
  <2>1. IsFiniteSet({}) /\ \A y \in {} : f[y] \in Int
    BY FS_EmptySet
  <2>2. SumFunctionOnSet(f, {}) = 0
    <3>1. PICK g : Folded(g, Adding, 0, f, {}) /\ SumFunctionOnSet(f, {}) = g[{}]
      BY <2>1, SumFolds
    <3> QED
      BY <3>1 DEF Folded
  <2>3. Same(0)
    BY <1>3, <1>4, <2>2
  <2>4. 0 \in 0..m
    BY <1>1
  <2> HIDE DEF Same
  <2> QED
    BY <2>3, <2>4
<1>7. ASSUME NEW k \in 1..m, k - 1 \in I PROVE k \in I
  <2> DEFINE A == First(q, k - 1)
             B == First(q, k)
  <2>1. k - 1 \in 0..m /\ k \in 0..m
    BY <1>1
  <2>2. /\ B = A \cup {q[k]} /\ q[k] \notin A /\ IsFiniteSet(A)
        /\ \A y \in B : f[y] \in Int
    BY <1>2, <1>4, <2>1
  <2>3. PartialSums(s)[k - 1] = SumFunctionOnSet(f, A)
    BY <1>7
  <2> HIDE DEF A, B
  <2>4. SumFunctionOnSet(f, B) = f[q[k]] + SumFunctionOnSet(f, A)
    BY <2>2, SumGrows
  <2>5. /\ PartialSums(s)[k] = PartialSums(s)[k - 1] + s[k] /\ s[k] = f[q[k]]
        /\ s[k] \in Int /\ PartialSums(s)[k - 1] \in Int
    BY <1>1, <1>3, <1>5, <2>1
  <2>6. PartialSums(s)[k] = SumFunctionOnSet(f, B)
    BY <2>3, <2>4, <2>5
  <2> QED
    BY <2>1, <2>6 DEF B
<1> HIDE DEF I
<1>8. \A k \in 0..m : k \in I
  BY <1>1, <1>6, <1>7, RangeInduction
<1>9. \A k \in 0..m : Same(k)
  BY <1>8 DEF I
<1>10. Same(m)
  BY <1>1, <1>9
<1> QED
  BY <1>3, <1>4, <1>9, <1>10 DEF m

\* The elements of S in the order of their size.
Increasing(p, m, S) ==
    /\ m \in Nat /\ S \subseteq Int /\ p \in [1..m -> S]
    /\ \A a, b \in 1..m : a < b => p[a] < p[b]
    /\ \A x \in S : \E a \in 1..m : p[a] = x

\* The same list from its end.
Backwards(p, m) == [k \in 1..m |-> p[m + 1 - k]]

\* An increasing enumeration is one, and so it is read backwards.
LEMMA IncreasingEnumerates ==
    ASSUME NEW S, NEW m, NEW p, Increasing(p, m, S)
    PROVE  Enumerates(p, m, S) /\ Enumerates(Backwards(p, m), m, S)
<1>1. /\ m \in Nat /\ S \subseteq Int /\ p \in [1..m -> S]
      /\ \A a, b \in 1..m : a < b => p[a] < p[b]
      /\ \A x \in S : \E a \in 1..m : p[a] = x
  BY DEF Increasing
<1>2. ASSUME NEW a \in 1..m, NEW b \in 1..m, p[a] = p[b] PROVE a = b
  <2>1. p[a] \in Int /\ p[b] \in Int
    BY <1>1
  <2>2. ~(a < b) /\ ~(b < a)
    BY <1>1, <1>2, <2>1
  <2> QED
    BY <1>1, <2>2
<1>3. Enumerates(p, m, S)
  BY <1>1, <1>2 DEF Enumerates
<1> DEFINE q == Backwards(p, m)
<1>4. \A k \in 1..m : m + 1 - k \in 1..m /\ m + 1 - (m + 1 - k) = k
  BY <1>1
<1>5. q \in [1..m -> S] /\ \A k \in 1..m : q[k] = p[m + 1 - k]
  BY <1>1, <1>4 DEF Backwards
<1> HIDE DEF q
<1>6. ASSUME NEW a \in 1..m, NEW b \in 1..m, q[a] = q[b] PROVE a = b
  <2>1. m + 1 - a = m + 1 - b
    BY <1>2, <1>4, <1>5, <1>6
  <2> QED
    BY <1>1, <2>1
<1>7. ASSUME NEW x \in S PROVE \E a \in 1..m : q[a] = x
  <2>1. PICK a \in 1..m : p[a] = x
    BY <1>1
  <2>2. q[m + 1 - a] = x /\ m + 1 - a \in 1..m
    BY <1>4, <1>5, <2>1
  <2> QED
    BY <2>2
<1>8. Enumerates(q, m, S)
  BY <1>1, <1>5, <1>6, <1>7 DEF Enumerates
<1> QED
  BY <1>3, <1>8 DEF q

\* The positions of a filtered sequence, in order.
KeptPlaces(kept) == [k \in 1..Cardinality(kept) |-> Min(Place(kept, k))]

\* KeptPlaces lists the kept positions, and ElementsAt what is there.
LEMMA PlacesIncrease ==
    ASSUME NEW S, NEW s \in Seq(S), NEW kept \in SUBSET DOMAIN s
    PROVE  /\ Increasing(KeptPlaces(kept), Cardinality(kept), kept)
           /\ \A k \in 1..Cardinality(kept) :
                  ElementsAt(s, kept)[k] = s[KeptPlaces(kept)[k]]
<1> DEFINE c == Cardinality(kept)
           p == KeptPlaces(kept)
           n == Len(s)
<1>1. n \in Nat /\ kept \in SUBSET (1..n)
  OBVIOUS
<1>2. /\ c \in Nat
      /\ \A i \in kept : Rank(kept, i) \in 1..c
      /\ \A i, j \in kept : i < j => Rank(kept, i) < Rank(kept, j)
  BY <1>1, RankGrows
<1>3. ASSUME NEW k \in 1..c
      PROVE  /\ p[k] \in kept /\ Rank(kept, p[k]) = k
             /\ \A i \in kept : Rank(kept, i) = k => i = p[k]
  <2>1. PICK i \in kept : Place(kept, k) = {i} /\ Min(Place(kept, k)) = i
    BY <1>1, PlaceOfRank
  <2>2. p[k] = i
    BY <2>1 DEF KeptPlaces
  <2>3. \A j \in kept : j = i <=> Rank(kept, j) = k
    BY <2>1 DEF Place
  <2> QED
    BY <2>2, <2>3
<1>4. p \in [1..c -> kept]
  <2>1. \A k \in 1..c : Min(Place(kept, k)) \in kept
    BY <1>3 DEF KeptPlaces
  <2> QED
    BY <2>1 DEF KeptPlaces
<1>5. \A k \in 1..c : ElementsAt(s, kept)[k] = s[p[k]]
  BY ElementsAtRank DEF KeptPlaces
<1> HIDE DEF p, c, n
<1>6. ASSUME NEW a \in 1..c, NEW b \in 1..c, a < b PROVE p[a] < p[b]
  <2>1. p[a] \in kept /\ p[b] \in kept /\ Rank(kept, p[a]) = a /\ Rank(kept, p[b]) = b
    BY <1>3
  <2>2. p[a] \in Int /\ p[b] \in Int
    BY <1>1, <2>1
  <2>3. p[a] # p[b]
    BY <1>2, <1>6, <2>1
  <2>4. ~(p[b] < p[a])
    BY <1>2, <1>6, <2>1
  <2> QED
    BY <2>2, <2>3, <2>4
<1>7. ASSUME NEW x \in kept PROVE \E a \in 1..c : p[a] = x
  BY <1>2, <1>3
<1>8. Increasing(p, c, kept)
  BY <1>1, <1>2, <1>4, <1>6, <1>7 DEF Increasing
<1> QED
  BY <1>5, <1>8 DEF p, c
=============================================================================
