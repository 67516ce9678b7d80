-------------------------- MODULE ReconcileHistory --------------------------
(***************************************************************************)
(* core/src/types.rs: the append-only history every guard reads.           *)
(*                                                                         *)
(* A history is a record of the three collections of the struct: the       *)
(* timeline of all settled transactions, the <<predicted, realized>> pairs *)
(* of the confirmed ones, and the events of the reverted ones.  Hashes,    *)
(* block numbers and revert reasons are left out: nothing in core or in    *)
(* reconcile reads them.                                                   *)
(*                                                                         *)
(* Money is i128 / u128 in the code.  Width is the number of bits; sums    *)
(* are computed exactly here and wrapped (or found to overflow) where      *)
(* ReconcilePolicy uses them.  An f64 ratio realized / predicted is the    *)
(* exact fraction <<realized, predicted>>.                                 *)
(***************************************************************************)
EXTENDS Integers, Sequences, FiniteSets, SequencesExt

ConfirmedPair(predicted, realized) ==
    [tag |-> "ConfirmedPair", predicted |-> predicted, realized |-> realized]

RevertedTx(event) == [tag |-> "RevertedTx", event |-> event]

IsPair(entry)   == entry.tag = "ConfirmedPair"
IsRevert(entry) == entry.tag = "RevertedTx"

\* The fee of a reverted transaction: gas_used as u128 * effective_gas_price.
FeeBurned(event) == event.gas_used * event.effective_gas_price

-----------------------------------------------------------------------------
NewHistory == [timeline |-> <<>>, pairs |-> <<>>, reverts |-> <<>>]

\* Mutant: the pair reaches the timeline but not the ratio pool.
append_TimelineOnly(h, predicted, realized) ==
    [h EXCEPT !.timeline = Append(@, ConfirmedPair(predicted, realized))]

\* Mutant: push_front for push_back.
append_PushFront(h, predicted, realized) ==
    [h EXCEPT !.timeline = <<ConfirmedPair(predicted, realized)>> \o @,
              !.pairs    = Append(@, <<predicted, realized>>)]

append(h, predicted, realized) ==
    [h EXCEPT !.timeline = Append(@, ConfirmedPair(predicted, realized)),
              !.pairs    = Append(@, <<predicted, realized>>)]

\* Mutant: the revert is booked as a realized profit of zero.
record_revert_AsZeroProfit(h, event) ==
    [h EXCEPT !.timeline = Append(@, RevertedTx(event)),
              !.reverts  = Append(@, event),
              !.pairs    = Append(@, <<1, 0>>)]

record_revert(h, event) ==
    [h EXCEPT !.timeline = Append(@, RevertedTx(event)),
              !.reverts  = Append(@, event)]

\* The history that replaying a timeline entry by entry rebuilds: after[i] is
\* what the loop holds after i entries.
FromTimeline(timeline) ==
    LET after[i \in 0..Len(timeline)] ==
            IF i = 0 THEN NewHistory
            ELSE IF IsPair(timeline[i])
            THEN append(after[i - 1], timeline[i].predicted, timeline[i].realized)
            ELSE record_revert(after[i - 1], timeline[i].event)
    IN  after[Len(timeline)]

-----------------------------------------------------------------------------
\* The elements of s at the positions in kept, in order (iter().filter()).
ElementsAt(s, kept) ==
    LET place(k) == {i \in kept : Cardinality({j \in kept : j <= i}) = k}
    IN  [k \in 1..Cardinality(kept) |-> s[Min(place(k))]]

\* The last n elements of s, oldest first (iter().rev().take(n)).
Recent(s, n) == SubSeq(s, Max({1, Len(s) - n + 1}), Len(s))

\* sums[i] is the sum of the first i elements of s, the accumulator of the
\* code's iter().sum() after i of them.
PartialSums(s) ==
    LET sums[i \in 0..Len(s)] == IF i = 0 THEN 0 ELSE sums[i - 1] + s[i]
    IN  sums

SumSeq(s) == PartialSums(s)[Len(s)]

\* The length of the run of reverts that ends the timeline.
consecutive_reverts(h) ==
    Len(h.timeline) - SelectLastInSeq(h.timeline, IsPair)

\* The fees burned by the reverts among the last `window` timeline entries,
\* newest first, in the order the code adds them up.
RecentFees(h, window) ==
    LET entries  == Recent(h.timeline, window)
        reverted == ElementsAt(entries, {i \in DOMAIN entries : IsRevert(entries[i])})
    IN  Reverse([i \in DOMAIN reverted |-> FeeBurned(reverted[i].event)])

\* The pairs the ratio guards may use: division by predicted <= 0 is skipped.
PositivePairs(h) ==
    ElementsAt(h.pairs, {i \in DOMAIN h.pairs : h.pairs[i][1] > 0})

\* Ratio direction is realized / predicted.
Ratio(pair) == <<pair[2], pair[1]>>

\* Mutant: off by one, the window ends before the newest pair.
recent_ratios_SkipsNewest(h, n) ==
    LET usable == PositivePairs(h)
        window == Recent(SubSeq(usable, 1, Len(usable) - 1), n)
    IN  [i \in DOMAIN window |-> Ratio(window[i])]

\* The ratios of the last n usable pairs, oldest first.
recent_ratios(h, n) ==
    LET window == Recent(PositivePairs(h), n)
    IN  [i \in DOMAIN window |-> Ratio(window[i])]
=============================================================================
