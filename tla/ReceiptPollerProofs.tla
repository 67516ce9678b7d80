------------------------ MODULE ReceiptPollerProofs -------------------------
(***************************************************************************)
(* Theorems about ReceiptPoller, for any transactions, any interval,       *)
(* timeout and round trip, and any bound on the clock.                     *)
(***************************************************************************)
EXTENDS ReceiptPoller, ReconcileHistoryProofs, FiniteSetTheorems

-----------------------------------------------------------------------------
(* The inductive invariant *)

Entries == {ConfirmedPair(t, "realized") : t \in Txs} \cup {RevertedTx(t) : t \in Txs}

HistoryType == history \in HistoryOf(Entries, Txs \X {"realized"}, Txs)

Typed == TypeOK /\ HistoryType

\* An await begins before now and ends within one round trip; a sleep ends
\* on time; the chain learns nothing from the future.
TimeInv ==
    /\ phase \in {"asking", "answered"} => timer <= now /\ now <= timer + RoundTrip
    /\ phase = "sleeping" => now <= timer
    /\ \A t \in Txs : settledAt[t] <= now

\* Nothing is known of a transaction before it is sent.
SentInv ==
    \A t \in Txs : t \notin ToSet(submitted) =>
                      chain[t] = "pending" /\ outcome[t] = "none"

\* The transaction of a running poll has been sent and has no outcome yet;
\* an answer other than "no receipt" is still what the chain says, and "no
\* receipt" was so no earlier than when the source was asked.
PollInv ==
    /\ phase # "idle" => tx \in ToSet(submitted) /\ outcome[tx] \in Retryable
    /\ phase = "answered" /\ answer \in {"confirmed", "reverted"} =>
          chain[tx] = answer
    /\ phase = "answered" /\ answer = "pending" =>
          chain[tx] = "pending" \/ settledAt[tx] >= timer

Final(t) == outcome[t] \notin Retryable

\* What is booked has an outcome, and what has an outcome is settled.
BookInv ==
    /\ HistoryMatchesOutcomes
    /\ IsFiniteSet(BookedPairs) /\ IsFiniteSet(BookedReverts)
    /\ \A t \in Txs : Final(t) => chain[t] # "pending"
    /\ \A i \in DOMAIN history.timeline :
          outcome[TxOf(history.timeline[i])] \in {"Realized", "Reverted"}

\* With a caller in order, transactions settle in the order they were sent,
\* and those with an outcome were sent before those without.
OrderInv ==
    in_order =>
      /\ phase # "idle" => \A u \in Before(tx) : Final(u)
      /\ \A t \in Txs : Final(t) => \A u \in Before(t) : Final(u)
      /\ \A t \in Txs : chain[t] # "pending" =>
            \A u \in Before(t) : chain[u] # "pending" /\ settledAt[u] <= settledAt[t]

PollerInv ==
    /\ Typed /\ TimeInv /\ SentInv /\ PollInv
    /\ BookInv /\ OrderInv /\ ConfirmationOrder

-----------------------------------------------------------------------------
(* The transactions sent before another *)

\* u was sent before t if it is at an earlier place.
LEMMA BeforeDef ==
    ASSUME submitted \in Seq(Txs), NEW t
    PROVE  /\ Before(t) \subseteq Txs
           /\ \A u : u \in Before(t) <=>
                 \E j, k \in 1..Len(submitted) :
                    j < k /\ submitted[j] = u /\ submitted[k] = t
<1>1. DOMAIN submitted = 1..Len(submitted)
  BY LenProperties
<1>2. \A j \in 1..Len(submitted) : submitted[j] \in Txs
  BY ElementOfSeq
<1> QED
  BY <1>1, <1>2 DEF Before

\* Of two transactions that were sent one was sent before the other.
LEMMA BeforeTotal ==
    ASSUME submitted \in Seq(Txs),
           NEW t \in ToSet(submitted), NEW u \in ToSet(submitted), t # u
    PROVE  t \in Before(u) \/ u \in Before(t)
<1>1. DOMAIN submitted = 1..Len(submitted) /\ Len(submitted) \in Nat
  BY LenProperties
<1>2. PICK j \in 1..Len(submitted) : submitted[j] = t
  BY <1>1 DEF ToSet
<1>3. PICK k \in 1..Len(submitted) : submitted[k] = u
  BY <1>1 DEF ToSet
<1>4. j < k \/ k < j
  BY <1>1, <1>2, <1>3
<1> QED
  BY <1>2, <1>3, <1>4, BeforeDef

\* Sending one more changes nothing for those that were sent.
LEMMA BeforeSubmit ==
    ASSUME submitted \in Seq(Txs), NEW t \in Txs, t \notin ToSet(submitted),
           submitted' = Append(submitted, t),
           NEW u, u # t
    PROVE  Before(u)' = Before(u)
<1>1. /\ submitted' \in Seq(Txs) /\ Len(submitted) \in Nat
      /\ Len(submitted') = Len(submitted) + 1
      /\ \A i \in 1..Len(submitted) : submitted'[i] = submitted[i]
      /\ submitted'[Len(submitted) + 1] = t
      /\ DOMAIN submitted = 1..Len(submitted)
      /\ DOMAIN submitted' = 1..(Len(submitted) + 1)
  BY LenProperties, AppendProperties
<1>2. ASSUME NEW w PROVE w \in Before(u)' <=> w \in Before(u)
  <2> DEFINE n == Len(submitted)
  <2>1. w \in Before(u)' <=> \E j, k \in 1..(n + 1) :
                               j < k /\ submitted'[j] = w /\ submitted'[k] = u
    BY <1>1 DEF Before
  <2>2. w \in Before(u) <=> \E j, k \in 1..n :
                               j < k /\ submitted[j] = w /\ submitted[k] = u
    BY BeforeDef
  <2> QED
    BY <1>1, <2>1, <2>2
<1> QED
  BY <1>2

-----------------------------------------------------------------------------
(* Types and time *)

\* The initial states satisfy the invariants of types, times and polls.
LEMMA InitTyped == Init => Typed /\ TimeInv /\ SentInv /\ PollInv
<1> SUFFICES ASSUME Init PROVE Typed /\ TimeInv /\ SentInv /\ PollInv
  OBVIOUS
<1> USE TimesAssumption DEF Init
<1>1. TypeOK
  <2>1. interval \in Nat /\ deadline \in 0..MaxTime /\ timer \in 0..deadline + interval
    OBVIOUS
  <2>2. submitted \in Seq(Txs) /\ IsInjective(submitted)
    BY DEF IsInjective
  <2> QED
    BY <2>1, <2>2 DEF TypeOK, Statuses, Outcomes, Retryable
<1>2. HistoryType
  BY NewHistoryType DEF HistoryType
<1>3. TimeInv /\ SentInv /\ PollInv
  BY DEF TimeInv, SentInv, PollInv
<1> QED
  BY <1>1, <1>2, <1>3 DEF Typed

\* Appending a new transaction keeps the sequence without repetitions.
LEMMA SubmitInjective ==
    ASSUME submitted \in Seq(Txs), IsInjective(submitted),
           NEW t \in Txs, t \notin ToSet(submitted),
           submitted' = Append(submitted, t)
    PROVE  /\ submitted' \in Seq(Txs) /\ IsInjective(submitted')
           /\ ToSet(submitted') = ToSet(submitted) \cup {t}
<1>1. /\ submitted' \in Seq(Txs) /\ Len(submitted) \in Nat
      /\ \A i \in 1..Len(submitted) : submitted'[i] = submitted[i]
      /\ submitted'[Len(submitted) + 1] = t
      /\ DOMAIN submitted = 1..Len(submitted)
      /\ DOMAIN submitted' = 1..(Len(submitted) + 1)
  BY LenProperties, AppendProperties
<1>2. \A i \in 1..Len(submitted) : submitted[i] # t
  BY <1>1 DEF ToSet
<1>3. IsInjective(submitted')
  BY <1>1, <1>2 DEF IsInjective
<1>4. ToSet(submitted') = ToSet(submitted) \cup {t}
  BY <1>1 DEF ToSet
<1> QED
  BY <1>1, <1>3, <1>4

\* What a booking does to the history.
LEMMA RevertBooked ==
    ASSUME Typed, history' = record_revert(history, tx)
    PROVE  /\ HistoryType'
           /\ history'.timeline = Append(history.timeline, RevertedTx(tx))
           /\ history'.pairs = history.pairs
           /\ history'.reverts = Append(history.reverts, tx)
<1>1. /\ history \in HistoryOf(Entries, Txs \X {"realized"}, Txs)
      /\ tx \in Txs /\ RevertedTx(tx) \in Entries
  BY DEF Typed, TypeOK, HistoryType, Entries
<1> QED
  BY <1>1, RecordRevertEffect DEF HistoryType, Entries

\* What booking a realized trade does to the history.
LEMMA PairBooked ==
    ASSUME Typed, history' = append(history, tx, "realized")
    PROVE  /\ HistoryType'
           /\ history'.timeline = Append(history.timeline, ConfirmedPair(tx, "realized"))
           /\ history'.pairs = Append(history.pairs, <<tx, "realized">>)
           /\ history'.reverts = history.reverts
<1>1. /\ history \in HistoryOf(Entries, Txs \X {"realized"}, Txs)
      /\ tx \in Txs /\ ConfirmedPair(tx, "realized") \in Entries
      /\ <<tx, "realized">> \in Txs \X {"realized"}
  BY DEF Typed, TypeOK, HistoryType, Entries
<1> QED
  BY <1>1, AppendEffect DEF HistoryType, Entries

\* The end of a poll, whatever its result.
LEMMA ReturnTyped ==
    ASSUME TypeOK, NEW result \in Outcomes, Return(result)
    PROVE  TypeOK'
<1>1. /\ interval' = interval /\ now' = now /\ in_order' = in_order
      /\ submitted' = submitted /\ chain' = chain /\ settledAt' = settledAt
      /\ tx' = tx
  BY DEF Return, EndPoll, env
<1>2. deadline' = 0 /\ timer' = 0 /\ phase' = "idle" /\ answer' = "pending"
  BY DEF Return, EndPoll
<1>3. outcome' \in [Txs -> Outcomes]
  BY DEF Return, TypeOK
<1>4. deadline' \in 0..MaxTime /\ timer' \in 0..(deadline' + interval')
  BY <1>1, <1>2, TimesAssumption DEF TypeOK
<1> QED
  BY <1>1, <1>2, <1>3, <1>4 DEF TypeOK, Statuses

\* Every step keeps the types.
LEMMA TypedStep ==
    ASSUME Typed, TimeInv, [Next]_vars
    PROVE  Typed'
<1> USE TimesAssumption
<1>0. /\ interval \in Nat /\ now \in Nat /\ deadline \in Nat /\ timer \in Nat
      /\ now <= MaxTime /\ deadline <= MaxTime /\ timer <= deadline + interval
  BY DEF Typed, TypeOK
<1>1. ASSUME NEW t \in Txs, Submit(t) PROVE Typed'
  <2>1. submitted' \in Seq(Txs) /\ IsInjective(submitted')
    BY <1>1, SubmitInjective DEF Submit, Typed, TypeOK
  <2> QED
    BY <1>1, <2>1 DEF Submit, Typed, TypeOK, HistoryType
<1>2. ASSUME NEW t \in Txs, NEW s \in Statuses \ {"pending"}, Settle(t, s)
      PROVE  Typed'
  <2>1. chain' \in [Txs -> Statuses] /\ settledAt' \in [Txs -> 0..MaxTime]
    BY <1>2 DEF Settle, Typed, TypeOK
  <2> QED
    BY <1>2, <2>1 DEF Settle, Typed, TypeOK, HistoryType
<1>3. ASSUME NEW t \in Txs, StartPoll(t) PROVE Typed'
  <2>1. /\ deadline' = now + Timeout /\ timer' = now
        /\ interval' = interval /\ now + Timeout + interval + RoundTrip <= MaxTime
    BY <1>3 DEF StartPoll, env
  <2>2. deadline' \in 0..MaxTime /\ timer' \in 0..(deadline' + interval')
    BY <1>0, <2>1
  <2> QED
    BY <1>3, <2>2 DEF StartPoll, env, Typed, TypeOK, HistoryType
<1>4. CASE Look
  BY <1>4 DEF Look, env, Typed, TypeOK, HistoryType
<1>5. CASE OnSourceError
  BY <1>5, ReturnTyped DEF OnSourceError, Outcomes, Retryable, Typed, HistoryType
<1>6. CASE OnReverted
  BY <1>6, ReturnTyped, RevertBooked DEF OnReverted, Outcomes, Typed
<1>7. CASE OnConfirmed
  BY <1>7, ReturnTyped, PairBooked DEF OnConfirmed, Outcomes, Typed, HistoryType
<1>8. CASE OnTimeout
  BY <1>8, ReturnTyped DEF OnTimeout, Outcomes, Retryable, Typed, HistoryType
<1>9. CASE Sleep
  <2>1. timer' = now + interval /\ now < deadline /\ UNCHANGED <<deadline, interval>>
    BY <1>9 DEF Sleep, env
  <2>2. timer' \in 0..(deadline' + interval')
    BY <1>0, <2>1
  <2> QED
    BY <1>9, <2>2 DEF Sleep, env, Typed, TypeOK, HistoryType
<1>10. CASE WakeUp
  <2>1. timer' = now /\ now <= timer /\ UNCHANGED <<deadline, interval>>
    BY <1>10 DEF WakeUp, env, TimeInv
  <2>2. timer' \in 0..(deadline' + interval')
    BY <1>0, <2>1
  <2> QED
    BY <1>10, <2>2 DEF WakeUp, env, Typed, TypeOK, HistoryType
<1>11. CASE Cancel
  <2>1. deadline' = 0 /\ timer' = 0 /\ interval' = interval
    BY <1>11 DEF Cancel, EndPoll, env
  <2>2. deadline' \in 0..MaxTime /\ timer' \in 0..(deadline' + interval')
    BY <1>0, <2>1
  <2> QED
    BY <1>11, <2>2 DEF Cancel, EndPoll, env, Typed, TypeOK, HistoryType, Statuses
<1>12. CASE Tick
  <2>1. now' \in 0..MaxTime
    BY <1>0, <1>12 DEF Tick
  <2> QED
    BY <1>12, <2>1 DEF Tick, env, Typed, TypeOK, HistoryType
<1>13. CASE UNCHANGED vars
  BY <1>13 DEF vars, Typed, TypeOK, HistoryType
<1> QED
  BY <1>1, <1>2, <1>3, <1>4, <1>5, <1>6, <1>7, <1>8, <1>9, <1>10, <1>11,
     <1>12, <1>13 DEF Next, PollStep

\* The steps that return from poll_until_settled.
Returns == OnSourceError \/ OnReverted \/ OnConfirmed \/ OnTimeout

\* Every step keeps the times in order.
LEMMA TimeStep ==
    ASSUME Typed, TimeInv, [Next]_vars
    PROVE  TimeInv'
<1> USE TimesAssumption
<1>0. /\ interval \in Nat /\ now \in Nat /\ deadline \in Nat /\ timer \in Nat
      /\ \A t \in Txs : settledAt[t] \in Nat
  BY DEF Typed, TypeOK
<1>1. ASSUME NEW t \in Txs, Submit(t) PROVE TimeInv'
  BY <1>1 DEF Submit, TimeInv
<1>2. ASSUME NEW t \in Txs, NEW s \in Statuses \ {"pending"}, Settle(t, s)
      PROVE  TimeInv'
  <2>1. \A u \in Txs : settledAt'[u] <= now
    BY <1>0, <1>2 DEF Settle, TimeInv, Typed, TypeOK
  <2> QED
    BY <1>2, <2>1 DEF Settle, TimeInv
<1>3. ASSUME NEW t \in Txs, StartPoll(t) PROVE TimeInv'
  BY <1>0, <1>3 DEF StartPoll, env, TimeInv
<1>4. CASE Look
  BY <1>4 DEF Look, env, TimeInv
<1>5. CASE Returns
  BY <1>5 DEF Returns, OnSourceError, OnReverted, OnConfirmed, OnTimeout,
              Return, EndPoll, env, TimeInv
<1>6. CASE Sleep
  BY <1>0, <1>6 DEF Sleep, env, TimeInv
<1>7. CASE WakeUp
  BY <1>0, <1>7 DEF WakeUp, env, TimeInv
<1>8. CASE Cancel
  BY <1>8 DEF Cancel, EndPoll, env, TimeInv
<1>9. CASE Tick
  BY <1>0, <1>9 DEF Tick, env, TimeInv
<1>10. CASE UNCHANGED vars
  BY <1>10 DEF vars, TimeInv
<1> QED
  BY <1>1, <1>2, <1>3, <1>4, <1>5, <1>6, <1>7, <1>8, <1>9, <1>10
     DEF Next, PollStep, Returns

-----------------------------------------------------------------------------
(* What the poll knows *)

\* Every step keeps what is known of the transactions sent.
LEMMA SentStep ==
    ASSUME Typed, SentInv, PollInv, [Next]_vars
    PROVE  SentInv'
<1>1. ASSUME NEW t \in Txs, Submit(t) PROVE SentInv'
  <2>1. ToSet(submitted') = ToSet(submitted) \cup {t}
    BY <1>1, SubmitInjective DEF Submit, Typed, TypeOK
  <2> QED
    BY <1>1, <2>1 DEF Submit, SentInv
<1>2. ASSUME NEW t \in Txs, NEW s \in Statuses \ {"pending"}, Settle(t, s)
      PROVE  SentInv'
  BY <1>2 DEF Settle, SentInv, Typed, TypeOK
<1>3. ASSUME NEW result, phase # "idle", Return(result) PROVE SentInv'
  BY <1>3 DEF Return, EndPoll, env, SentInv, PollInv, Typed, TypeOK
<1>4. CASE Returns
  BY <1>3, <1>4 DEF Returns, OnSourceError, OnReverted, OnConfirmed, OnTimeout
<1>5. CASE UNCHANGED <<submitted, chain, outcome>>
  BY <1>5 DEF SentInv
<1> QED
  BY <1>1, <1>2, <1>4, <1>5 DEF Next, PollStep, Returns, StartPoll, Look, Sleep,
     WakeUp, Cancel, EndPoll, Tick, env, vars

\* Every step keeps what is known of the poll under way.
LEMMA PollStepKeeps ==
    ASSUME Typed, TimeInv, PollInv, [Next]_vars
    PROVE  PollInv'
<1>0. now \in Nat /\ timer \in Nat /\ \A t \in Txs : settledAt[t] \in Nat
  BY TimesAssumption DEF Typed, TypeOK
<1>1. ASSUME NEW t \in Txs, Submit(t) PROVE PollInv'
  <2>1. ToSet(submitted') = ToSet(submitted) \cup {t}
    BY <1>1, SubmitInjective DEF Submit, Typed, TypeOK
  <2> QED
    BY <1>1, <2>1 DEF Submit, PollInv
<1>2. ASSUME NEW t \in Txs, NEW s \in Statuses \ {"pending"}, Settle(t, s)
      PROVE  PollInv'
  <2>1. CASE t = tx
    <3>1. settledAt'[tx] = now /\ chain[tx] = "pending"
      BY <1>2, <2>1 DEF Settle, Typed, TypeOK
    <3>2. phase = "answered" => settledAt'[tx] >= timer
      BY <1>0, <3>1 DEF TimeInv
    <3> QED
      BY <1>2, <3>1, <3>2 DEF Settle, PollInv
  <2>2. CASE t # tx
    <3>1. chain'[tx] = chain[tx] /\ settledAt'[tx] = settledAt[tx]
      BY <1>2, <2>2 DEF Settle, Typed, TypeOK
    <3> QED
      BY <1>2, <3>1 DEF Settle, PollInv
  <2> QED
    BY <2>1, <2>2
<1>3. ASSUME NEW t \in Txs, StartPoll(t) PROVE PollInv'
  BY <1>3 DEF StartPoll, env, PollInv
<1>4. CASE Look
  BY <1>4 DEF Look, env, PollInv
<1>5. CASE Returns \/ Cancel
  BY <1>5 DEF Returns, OnSourceError, OnReverted, OnConfirmed, OnTimeout,
              Return, Cancel, EndPoll, PollInv
<1>6. CASE Sleep \/ WakeUp
  BY <1>6 DEF Sleep, WakeUp, env, PollInv
<1>7. CASE Tick
  BY <1>7 DEF Tick, env, PollInv
<1>8. CASE UNCHANGED vars
  BY <1>8 DEF vars, PollInv
<1> QED
  BY <1>1, <1>2, <1>3, <1>4, <1>5, <1>6, <1>7, <1>8 DEF Next, PollStep, Returns

-----------------------------------------------------------------------------
(* What is booked *)

\* Nothing is booked at the start.
LEMMA InitBooked == Init => BookInv /\ OrderInv /\ ConfirmationOrder
<1> SUFFICES ASSUME Init PROVE BookInv /\ OrderInv /\ ConfirmationOrder
  OBVIOUS
<1>1. history.timeline = <<>> /\ history.pairs = <<>> /\ history.reverts = <<>>
  BY DEF Init, NewHistory
<1>2. BookedPairs = {} /\ BookedReverts = {}
  BY <1>1 DEF BookedPairs, BookedReverts, ToSet
<1>3. Cardinality({}) = 0 /\ IsFiniteSet({})
  BY FS_EmptySet
<1>4. \A t \in Txs : outcome[t] = "none" /\ chain[t] = "pending"
  BY DEF Init
<1>5. Len(history.timeline) = Cardinality(BookedPairs) + Cardinality(BookedReverts)
  BY <1>1, <1>2, <1>3
<1>6. BookInv
  BY <1>1, <1>2, <1>3, <1>4, <1>5
     DEF BookInv, HistoryMatchesOutcomes, Final, Retryable
<1>7. OrderInv
  BY <1>4 DEF OrderInv, Final, Retryable, Init
<1>8. ConfirmationOrder
  BY <1>1 DEF ConfirmationOrder
<1> QED
  BY <1>6, <1>7, <1>8

\* The timeline names transactions.
LEMMA TimelineTxs ==
    ASSUME Typed
    PROVE  /\ history.timeline \in Seq(Entries)
           /\ DOMAIN history.timeline = 1..Len(history.timeline)
           /\ Len(history.timeline) \in Nat
           /\ \A i \in DOMAIN history.timeline : TxOf(history.timeline[i]) \in Txs
<1>1. history.timeline \in Seq(Entries)
  BY DEF Typed, HistoryType, HistoryOf
<1>2. ASSUME NEW e \in Entries PROVE TxOf(e) \in Txs
  BY EntryKinds DEF Entries, TxOf
<1> QED
  BY <1>1, <1>2, LenProperties, ElementOfSeq

\* Pushing an entry for tx to the timeline.
LEMMA TimelineGrows ==
    ASSUME Typed, NEW e \in Entries, TxOf(e) = tx,
           history'.timeline = Append(history.timeline, e)
    PROVE  /\ Len(history'.timeline) = Len(history.timeline) + 1
           /\ DOMAIN history'.timeline = 1..(Len(history.timeline) + 1)
           /\ \A i \in 1..Len(history.timeline) :
                 TxOf(history'.timeline[i]) = TxOf(history.timeline[i])
           /\ TxOf(history'.timeline[Len(history.timeline) + 1]) = tx
  BY TimelineTxs, AppendProperties

\* What a revert and a pair add to the books, and what their entry names.
LEMMA RevertAdds ==
    ASSUME Typed, history' = record_revert(history, tx)
    PROVE  /\ BookedReverts' = BookedReverts \cup {tx}
           /\ BookedPairs' = BookedPairs
           /\ RevertedTx(tx) \in Entries /\ TxOf(RevertedTx(tx)) = tx
           /\ history'.timeline = Append(history.timeline, RevertedTx(tx))
<1>1. history.reverts \in Seq(Txs) /\ tx \in Txs
  BY DEF Typed, TypeOK, HistoryType, HistoryOf
<1>2. history'.reverts = Append(history.reverts, tx) /\ history'.pairs = history.pairs
  BY RevertBooked
<1>3. /\ DOMAIN history.reverts = 1..Len(history.reverts) /\ Len(history.reverts) \in Nat
      /\ DOMAIN history'.reverts = 1..(Len(history.reverts) + 1)
      /\ \A i \in 1..Len(history.reverts) : history'.reverts[i] = history.reverts[i]
      /\ history'.reverts[Len(history.reverts) + 1] = tx
  BY <1>1, <1>2, LenProperties, AppendProperties
<1>4. BookedReverts' = BookedReverts \cup {tx}
  BY <1>3 DEF BookedReverts, ToSet
<1>5. BookedPairs' = BookedPairs
  BY <1>2 DEF BookedPairs
<1>6. RevertedTx(tx) \in Entries /\ TxOf(RevertedTx(tx)) = tx
  BY <1>1, EntryKinds DEF Entries, TxOf
<1> QED
  BY <1>4, <1>5, <1>6, RevertBooked

\* Booking a realized trade adds one transaction to the booked pairs.
LEMMA PairAdds ==
    ASSUME Typed, history' = append(history, tx, "realized")
    PROVE  /\ BookedPairs' = BookedPairs \cup {tx}
           /\ BookedReverts' = BookedReverts
           /\ ConfirmedPair(tx, "realized") \in Entries
           /\ TxOf(ConfirmedPair(tx, "realized")) = tx
           /\ history'.timeline = Append(history.timeline, ConfirmedPair(tx, "realized"))
<1>1. history.pairs \in Seq(Txs \X {"realized"}) /\ tx \in Txs
  BY DEF Typed, TypeOK, HistoryType, HistoryOf
<1>2. /\ history'.pairs = Append(history.pairs, <<tx, "realized">>)
      /\ history'.reverts = history.reverts
  BY PairBooked
<1>3. /\ DOMAIN history.pairs = 1..Len(history.pairs) /\ Len(history.pairs) \in Nat
      /\ DOMAIN history'.pairs = 1..(Len(history.pairs) + 1)
      /\ \A i \in 1..Len(history.pairs) : history'.pairs[i] = history.pairs[i]
      /\ history'.pairs[Len(history.pairs) + 1] = <<tx, "realized">>
  BY <1>1, <1>2, LenProperties, AppendProperties
<1>4. /\ \A i \in 1..Len(history.pairs) : history'.pairs[i][1] = history.pairs[i][1]
      /\ history'.pairs[Len(history.pairs) + 1][1] = tx
  BY <1>3
<1>5. BookedPairs' = BookedPairs \cup {tx}
  <2> DEFINE n == Len(history.pairs)
             f(i) == history.pairs[i][1]
             g(i) == history'.pairs[i][1]
  <2>1. /\ BookedPairs = {f(i) : i \in 1..n}
        /\ BookedPairs' = {g(i) : i \in 1..(n + 1)}
        /\ n \in Nat /\ g(n + 1) = tx /\ \A i \in 1..n : g(i) = f(i)
    BY <1>3, <1>4 DEF BookedPairs
  <2> HIDE DEF n, f, g
  <2> QED
    BY <2>1
<1>6. BookedReverts' = BookedReverts
  BY <1>2 DEF BookedReverts
<1>7. /\ ConfirmedPair(tx, "realized") \in Entries
      /\ TxOf(ConfirmedPair(tx, "realized")) = tx
  BY <1>1, EntryKinds DEF Entries, TxOf
<1> QED
  BY <1>5, <1>6, <1>7, PairBooked

\* A booking of tx, as a pair or as a revert, keeps the books.
LEMMA BookingKeeps ==
    ASSUME Typed, PollInv, BookInv, phase # "idle",
           NEW e \in Entries, TxOf(e) = tx,
           history'.timeline = Append(history.timeline, e),
           UNCHANGED chain,
           \/ /\ BookedReverts' = BookedReverts \cup {tx} /\ BookedPairs' = BookedPairs
              /\ outcome' = [outcome EXCEPT ![tx] = "Reverted"]
              /\ chain[tx] = "reverted"
           \/ /\ BookedPairs' = BookedPairs \cup {tx} /\ BookedReverts' = BookedReverts
              /\ outcome' = [outcome EXCEPT ![tx] = "Realized"]
              /\ chain[tx] = "confirmed" /\ tx \in Decodable
    PROVE  BookInv'
<1>1. /\ tx \in Txs /\ outcome \in [Txs -> Outcomes] /\ outcome[tx] \in Retryable
  BY DEF Typed, TypeOK, PollInv
<1>2. /\ BookedPairs = {t \in Txs : outcome[t] = "Realized"}
      /\ BookedReverts = {t \in Txs : outcome[t] = "Reverted"}
      /\ IsFiniteSet(BookedPairs) /\ IsFiniteSet(BookedReverts)
      /\ Len(history.timeline) = Cardinality(BookedPairs) + Cardinality(BookedReverts)
  BY DEF BookInv, HistoryMatchesOutcomes
<1>3. tx \notin BookedPairs /\ tx \notin BookedReverts
  BY <1>1, <1>2 DEF Retryable
<1>4. /\ BookedPairs' = {t \in Txs : outcome'[t] = "Realized"}
      /\ BookedReverts' = {t \in Txs : outcome'[t] = "Reverted"}
  BY <1>1, <1>2 DEF Retryable
<1>5. /\ Cardinality(BookedPairs) \in Nat /\ Cardinality(BookedReverts) \in Nat
      /\ IsFiniteSet(BookedPairs \cup {tx}) /\ IsFiniteSet(BookedReverts \cup {tx})
      /\ Cardinality(BookedPairs \cup {tx}) = Cardinality(BookedPairs) + 1
      /\ Cardinality(BookedReverts \cup {tx}) = Cardinality(BookedReverts) + 1
  BY <1>2, <1>3, FS_AddElement, FS_CardinalityType
<1>6. /\ IsFiniteSet(BookedPairs') /\ IsFiniteSet(BookedReverts')
      /\ Cardinality(BookedPairs') + Cardinality(BookedReverts')
           = Len(history.timeline) + 1
  <2>1. CASE BookedReverts' = BookedReverts \cup {tx} /\ BookedPairs' = BookedPairs
    BY <1>2, <1>5, <2>1
  <2>2. CASE BookedPairs' = BookedPairs \cup {tx} /\ BookedReverts' = BookedReverts
    BY <1>2, <1>5, <2>2
  <2> QED
    BY <2>1, <2>2
<1>7. Len(history'.timeline) = Cardinality(BookedPairs') + Cardinality(BookedReverts')
  BY <1>6, TimelineGrows
<1>8. /\ \A t \in BookedPairs' : chain'[t] = "confirmed" /\ t \in Decodable
      /\ \A t \in BookedReverts' : chain'[t] = "reverted"
  BY DEF BookInv, HistoryMatchesOutcomes
<1>9. \A t \in Txs : Final(t)' => chain'[t] # "pending"
  BY <1>1 DEF BookInv, Final
<1>10. \A i \in DOMAIN history'.timeline :
          outcome'[TxOf(history'.timeline[i])] \in {"Realized", "Reverted"}
  <2>1. outcome'[tx] \in {"Realized", "Reverted"}
    BY <1>1
  <2>2. \A t \in Txs : outcome[t] \in {"Realized", "Reverted"} =>
                          outcome'[t] \in {"Realized", "Reverted"}
    BY <1>1, <2>1
  <2>3. ASSUME NEW i \in 1..Len(history.timeline)
        PROVE  outcome'[TxOf(history'.timeline[i])] \in {"Realized", "Reverted"}
    BY <2>2, TimelineTxs, TimelineGrows DEF BookInv
  <2> QED
    BY <2>1, <2>3, TimelineTxs, TimelineGrows
<1> QED
  BY <1>4, <1>6, <1>7, <1>8, <1>9, <1>10 DEF BookInv, HistoryMatchesOutcomes

\* A poll that ends without a booking.
LEMMA NoBookingKeeps ==
    ASSUME Typed, PollInv, BookInv, phase # "idle", UNCHANGED <<history, chain>>,
           NEW result \in Outcomes \ {"Realized", "Reverted"},
           result \notin Retryable => chain[tx] # "pending",
           outcome' = [outcome EXCEPT ![tx] = result]
    PROVE  BookInv'
<1>1. /\ tx \in Txs /\ outcome \in [Txs -> Outcomes] /\ outcome[tx] \in Retryable
  BY DEF Typed, TypeOK, PollInv
<1>2. UNCHANGED <<BookedPairs, BookedReverts>>
  BY DEF BookedPairs, BookedReverts
<1>3. \A r \in {"Realized", "Reverted"} :
         \A t \in Txs : outcome'[t] = r <=> outcome[t] = r
  BY <1>1 DEF Retryable
<1>4. /\ BookedPairs' = {t \in Txs : outcome'[t] = "Realized"}
      /\ BookedReverts' = {t \in Txs : outcome'[t] = "Reverted"}
  BY <1>2, <1>3 DEF BookInv, HistoryMatchesOutcomes
<1>5. \A t \in Txs : Final(t)' => chain'[t] # "pending"
  BY <1>1 DEF BookInv, Final
<1>6. \A i \in DOMAIN history'.timeline :
          outcome'[TxOf(history'.timeline[i])] \in {"Realized", "Reverted"}
  BY <1>3, TimelineTxs DEF BookInv
<1> QED
  BY <1>2, <1>4, <1>5, <1>6 DEF BookInv, HistoryMatchesOutcomes

\* Every step books only what the chain settled.
LEMMA BookStep ==
    ASSUME Typed, PollInv, BookInv, [Next]_vars
    PROVE  BookInv'
<1>1. ASSUME NEW t \in Txs, NEW s \in Statuses \ {"pending"}, Settle(t, s)
      PROVE  BookInv'
  <2>1. UNCHANGED <<history, outcome, BookedPairs, BookedReverts>>
    BY <1>1 DEF Settle, BookedPairs, BookedReverts
  <2>2. \A u \in Txs : chain[u] # "pending" => chain'[u] = chain[u]
    BY <1>1 DEF Settle, Typed, TypeOK
  <2>3. BookedPairs \subseteq Txs /\ BookedReverts \subseteq Txs
    BY DEF BookInv, HistoryMatchesOutcomes
  <2>4. HistoryMatchesOutcomes'
    BY <2>1, <2>2, <2>3 DEF BookInv, HistoryMatchesOutcomes
  <2>5. \A u \in Txs : Final(u)' => chain'[u] # "pending"
    BY <2>1, <2>2 DEF BookInv, Final
  <2> QED
    BY <2>1, <2>4, <2>5 DEF BookInv
<1>2. CASE OnSourceError
  BY <1>2, NoBookingKeeps
     DEF OnSourceError, Return, EndPoll, env, Outcomes, Retryable
<1>3. CASE OnReverted
  <2>1. chain[tx] = "reverted" /\ UNCHANGED chain
    BY <1>3 DEF OnReverted, Return, EndPoll, env, PollInv
  <2> QED
    BY <1>3, <2>1, RevertAdds, BookingKeeps DEF OnReverted, Return
<1>4. CASE OnConfirmed
  <2>1. chain[tx] = "confirmed" /\ UNCHANGED chain /\ phase # "idle"
    BY <1>4 DEF OnConfirmed, Return, EndPoll, env, PollInv
  <2>2. CASE tx \in Decodable
    BY <1>4, <2>1, <2>2, PairAdds, BookingKeeps DEF OnConfirmed, Return
  <2>3. CASE tx \notin Decodable
    BY <1>4, <2>1, <2>3, NoBookingKeeps DEF OnConfirmed, Return, Outcomes
  <2> QED
    BY <2>2, <2>3
<1>5. CASE OnTimeout
  BY <1>5, NoBookingKeeps DEF OnTimeout, Return, EndPoll, env, Outcomes, Retryable
<1>6. CASE UNCHANGED <<history, outcome, chain>>
  <2>1. UNCHANGED <<BookedPairs, BookedReverts>> /\ \A t : Final(t)' = Final(t)
    BY <1>6 DEF BookedPairs, BookedReverts, Final
  <2>2. HistoryMatchesOutcomes'
    BY <1>6, <2>1 DEF BookInv, HistoryMatchesOutcomes
  <2> QED
    BY <1>6, <2>1, <2>2 DEF BookInv
<1> QED
  BY <1>1, <1>2, <1>3, <1>4, <1>5, <1>6 DEF Next, PollStep, Submit, StartPoll,
     Look, Sleep, WakeUp, Cancel, EndPoll, Tick, env, vars

-----------------------------------------------------------------------------
(* The order of the books *)

\* The result of a poll is final only for the oldest transaction without one.
LEMMA OrderStep ==
    ASSUME Typed, TimeInv, SentInv, PollInv, BookInv, OrderInv, [Next]_vars
    PROVE  OrderInv'
<1> USE DEF OrderInv
<1>0. submitted \in Seq(Txs) /\ \A t : Before(t) \subseteq Txs
  BY BeforeDef DEF Typed, TypeOK
<1>1. ASSUME NEW t \in Txs, Submit(t) PROVE OrderInv'
  <2>1. \A u : u # t => Before(u)' = Before(u)
    BY <1>0, <1>1, BeforeSubmit DEF Submit
  <2>2. ~Final(t) /\ chain[t] = "pending" /\ (phase # "idle" => tx # t)
    BY <1>1 DEF Submit, SentInv, PollInv, Final, Retryable
  <2>3. UNCHANGED <<in_order, chain, settledAt, phase, tx>>
    BY <1>1 DEF Submit
  <2>4. \A u : Final(u)' = Final(u)
    BY <1>1 DEF Submit, Final
  <2> QED
    BY <2>1, <2>2, <2>3, <2>4
<1>2. ASSUME NEW t \in Txs, NEW s \in Statuses \ {"pending"}, Settle(t, s)
      PROVE  OrderInv'
  <2>1. /\ UNCHANGED <<in_order, phase, tx>> /\ \A u : Before(u)' = Before(u)
        /\ \A u : Final(u)' = Final(u)
    BY <1>2 DEF Settle, Before, Final
  <2>2. /\ chain[t] = "pending" /\ chain'[t] # "pending" /\ settledAt'[t] = now
        /\ \A u \in Txs : u # t => /\ chain'[u] = chain[u]
                                   /\ settledAt'[u] = settledAt[u]
    BY <1>2 DEF Settle, Typed, TypeOK
  <2>3. ASSUME in_order, NEW w \in Txs, chain'[w] # "pending", NEW u \in Before(w)
        PROVE  chain'[u] # "pending" /\ settledAt'[u] <= settledAt'[w]
    <3>1. u \in Txs /\ settledAt[u] <= now /\ now <= now
      BY <1>0, TimesAssumption DEF TimeInv, Typed, TypeOK
    <3>2. CASE w = t
      BY <1>2, <2>2, <3>1, <3>2, <2>3 DEF Settle
    <3>3. CASE w # t
      BY <2>2, <2>3, <3>1, <3>3
    <3> QED
      BY <3>2, <3>3
  <2> QED
    BY <2>1, <2>3
<1>3. ASSUME NEW t \in Txs, StartPoll(t) PROVE OrderInv'
  <2>1. /\ UNCHANGED <<in_order, chain, settledAt>> /\ tx' = t
        /\ \A u : Before(u)' = Before(u)
        /\ \A u : Final(u)' = Final(u)
        /\ in_order => \A u \in Before(t) : Final(u)
    BY <1>3 DEF StartPoll, env, Before, Final
  <2> QED
    BY <2>1
<1>4. ASSUME NEW result \in Outcomes, phase # "idle", Return(result)
      PROVE  OrderInv'
  <2>1. /\ UNCHANGED <<in_order, chain, settledAt, tx>> /\ phase' = "idle"
        /\ \A u : Before(u)' = Before(u)
    BY <1>4 DEF Return, EndPoll, env, Before
  <2>2. ~Final(tx) /\ \A u \in Txs : u # tx => Final(u)' = Final(u)
    BY <1>4 DEF PollInv, Final, Return, Typed, TypeOK
  <2> QED
    BY <1>0, <1>4, <2>1, <2>2
<1>5. CASE Returns
  BY <1>4, <1>5 DEF Returns, OnSourceError, OnReverted, OnConfirmed, OnTimeout,
                    Outcomes, Retryable
<1>6. CASE UNCHANGED <<env, outcome>> /\ (phase' # "idle" => phase # "idle" /\ tx' = tx)
  <2>1. /\ UNCHANGED <<in_order, chain, settledAt>>
        /\ \A u : Before(u)' = Before(u)
        /\ \A u : Final(u)' = Final(u)
    BY <1>6 DEF env, Before, Final
  <2> QED
    BY <1>6, <2>1
<1> QED
  BY <1>1, <1>2, <1>3, <1>5, <1>6 DEF Next, PollStep, Returns,
     Look, Sleep, WakeUp, Cancel, EndPoll, Tick, env, vars

\* Everything booked settled no later than the transaction of the poll.
LEMMA BookedSettledBefore ==
    ASSUME Typed, SentInv, PollInv, BookInv, OrderInv, in_order,
           phase # "idle", chain[tx] # "pending",
           NEW i \in DOMAIN history.timeline
    PROVE  settledAt[TxOf(history.timeline[i])] <= settledAt[tx]
<1> DEFINE u == TxOf(history.timeline[i])
<1>1. u \in Txs /\ Final(u) /\ u \in ToSet(submitted)
  BY TimelineTxs DEF BookInv, SentInv, Final, Retryable
<1>2. tx \in Txs /\ ~Final(tx) /\ tx \in ToSet(submitted)
  BY DEF Typed, TypeOK, PollInv, Final
<1>3. u \in Before(tx) \/ tx \in Before(u)
  BY <1>1, <1>2, BeforeTotal DEF Typed, TypeOK
<1> HIDE DEF u
<1>4. u \in Before(tx)
  BY <1>1, <1>2, <1>3 DEF OrderInv
<1> QED
  BY <1>2, <1>4 DEF OrderInv, u

\* Every step keeps the bookings in the order of confirmation.
LEMMA ConfirmationStep ==
    ASSUME Typed, SentInv, PollInv, BookInv, OrderInv, ConfirmationOrder, [Next]_vars
    PROVE  ConfirmationOrder'
<1>1. ASSUME NEW e \in Entries, TxOf(e) = tx, phase # "idle", chain[tx] # "pending",
             history'.timeline = Append(history.timeline, e),
             UNCHANGED <<in_order, settledAt>>
      PROVE  ConfirmationOrder'
  <2>1. SUFFICES ASSUME in_order, NEW i \in DOMAIN history'.timeline,
                        NEW j \in DOMAIN history'.timeline, i < j
                 PROVE  settledAt[TxOf(history'.timeline[i])]
                          <= settledAt[TxOf(history'.timeline[j])]
    BY <1>1 DEF ConfirmationOrder
  <2>2. /\ DOMAIN history.timeline = 1..Len(history.timeline)
        /\ DOMAIN history'.timeline = 1..(Len(history.timeline) + 1)
        /\ Len(history.timeline) \in Nat
        /\ i \in 1..Len(history.timeline)
        /\ TxOf(history'.timeline[i]) = TxOf(history.timeline[i])
    BY <1>1, <2>1, TimelineTxs, TimelineGrows
  <2>3. CASE j = Len(history.timeline) + 1
    BY <1>1, <2>1, <2>2, <2>3, TimelineGrows, BookedSettledBefore
  <2>4. CASE j \in 1..Len(history.timeline)
    BY <1>1, <2>1, <2>2, <2>4, TimelineGrows DEF ConfirmationOrder
  <2> QED
    BY <2>2, <2>3, <2>4
<1>2. CASE OnReverted
  BY <1>1, <1>2, RevertAdds DEF OnReverted, Return, EndPoll, env, PollInv
<1>3. CASE OnConfirmed
  <2>1. chain[tx] # "pending" /\ phase # "idle" /\ UNCHANGED <<in_order, settledAt>>
    BY <1>3 DEF OnConfirmed, Return, EndPoll, env, PollInv
  <2>2. CASE tx \in Decodable
    BY <1>1, <1>3, <2>1, <2>2, PairAdds DEF OnConfirmed
  <2>3. CASE tx \notin Decodable
    BY <1>3, <2>1, <2>3 DEF OnConfirmed, ConfirmationOrder
  <2> QED
    BY <2>2, <2>3
<1>4. ASSUME NEW t \in Txs, NEW s \in Statuses \ {"pending"}, Settle(t, s)
      PROVE  ConfirmationOrder'
  <2>1. UNCHANGED <<in_order, history>> /\ chain[t] = "pending"
    BY <1>4 DEF Settle
  <2>2. \A u \in Txs : u # t => settledAt'[u] = settledAt[u]
    BY <1>4 DEF Settle, Typed, TypeOK
  <2>3. \A i \in DOMAIN history.timeline :
           TxOf(history.timeline[i]) \in Txs \ {t}
    BY <2>1, TimelineTxs DEF BookInv, Final, Retryable
  <2> QED
    BY <2>1, <2>2, <2>3 DEF ConfirmationOrder
<1>5. CASE UNCHANGED <<in_order, settledAt, history>>
  BY <1>5 DEF ConfirmationOrder
<1> QED
  BY <1>2, <1>3, <1>4, <1>5 DEF Next, PollStep, Submit, StartPoll, Look,
     OnSourceError, OnTimeout, Return, Sleep, WakeUp, Cancel, EndPoll, Tick, env, vars

-----------------------------------------------------------------------------
(* The theorems *)

\* Every reachable state satisfies the invariant.
LEMMA PollerInvariant == Spec => []PollerInv
<1>1. Init => PollerInv
  BY InitTyped, InitBooked DEF PollerInv
<1>2. PollerInv /\ [Next]_vars => PollerInv'
  <2> SUFFICES ASSUME PollerInv, [Next]_vars PROVE PollerInv'
    OBVIOUS
  <2> QED
    BY TypedStep, TimeStep, SentStep, PollStepKeeps, BookStep, OrderStep,
       ConfirmationStep DEF PollerInv
<1> QED
  BY <1>1, <1>2, PTL DEF Spec

\* Type correctness of poll_until_settled and its surroundings.
THEOREM PollerTypeCorrect == Spec => []TypeOK
<1>1. PollerInv => TypeOK
  BY DEF PollerInv, Typed
<1> QED
  BY <1>1, PollerInvariant, PTL

\* A poll never outlives its deadline by more than one interval and one round
\* trip: it sleeps only before the deadline, and asks when the sleep ends.
THEOREM PollsEndSoonAfterDeadline == Spec => []BoundedOvershoot
<1>1. PollerInv => BoundedOvershoot
  <2> SUFFICES ASSUME PollerInv, phase # "idle"
               PROVE  now <= deadline + interval + RoundTrip
    BY DEF BoundedOvershoot
  <2>1. /\ interval \in Nat /\ now \in Nat /\ deadline \in Nat /\ timer \in Nat
        /\ RoundTrip \in Nat /\ timer <= deadline + interval
    BY TimesAssumption DEF PollerInv, Typed, TypeOK
  <2>2. now <= timer + RoundTrip
    BY <2>1 DEF PollerInv, Typed, TypeOK, TimeInv
  <2> QED
    BY <2>1, <2>2
<1> QED
  BY <1>1, PollerInvariant, PTL

\* Receipt-gated realization: the books hold exactly what the polls returned
\* as Realized or Reverted, each once, and as the chain says.
THEOREM BooksMatchOutcomes == Spec => []HistoryMatchesOutcomes
<1>1. PollerInv => HistoryMatchesOutcomes
  BY DEF PollerInv, BookInv
<1> QED
  BY <1>1, PollerInvariant, PTL

\* A caller that polls in the order it sends keeps the history ordered by
\* confirmation time.
THEOREM BooksInConfirmationOrder == Spec => []ConfirmationOrder
<1>1. PollerInv => ConfirmationOrder
  BY DEF PollerInv
<1> QED
  BY <1>1, PollerInvariant, PTL

\* TimedOut is never returned for a receipt that was on the chain one round
\* trip before the deadline.
THEOREM PromptReceipts == Spec => PromptReceiptIsNotMissed
<1> DEFINE Missed == \A t \in Txs :
             outcome[t] # "TimedOut" /\ outcome'[t] = "TimedOut"
             => chain[t] = "pending" \/ settledAt[t] + RoundTrip >= deadline
<1>1. ASSUME PollerInv, [Next]_vars PROVE [Missed]_vars
  <2> SUFFICES ASSUME NEW t \in Txs,
                      outcome[t] # "TimedOut", outcome'[t] = "TimedOut"
               PROVE  chain[t] = "pending" \/ settledAt[t] + RoundTrip >= deadline
    OBVIOUS
  <2>1. outcome \in [Txs -> Outcomes] /\ outcome' # outcome
    BY <1>1 DEF PollerInv, Typed, TypeOK
  <2>2. Returns
    BY <1>1, <2>1 DEF Next, PollStep, Returns, Submit, StartPoll, Settle, Look,
       Sleep, WakeUp, Cancel, Tick, vars
  <2>3. OnTimeout /\ t = tx
    BY <2>1, <2>2 DEF Returns, OnSourceError, OnReverted, OnConfirmed, OnTimeout, Return
  <2>4. /\ now >= deadline /\ now <= timer + RoundTrip
        /\ chain[t] = "pending" \/ settledAt[t] >= timer
    BY <1>1, <2>3 DEF OnTimeout, PollerInv, TimeInv, PollInv
  <2>5. /\ now \in Nat /\ deadline \in Nat /\ timer \in Nat /\ RoundTrip \in Nat
        /\ settledAt[t] \in Nat
    BY <1>1, TimesAssumption DEF PollerInv, Typed, TypeOK
  <2> QED
    BY <2>4, <2>5
<1>2. Spec => [][Missed]_vars
  BY <1>1, PollerInvariant, PTL DEF Spec
<1> QED
  BY <1>2 DEF PromptReceiptIsNotMissed
=============================================================================
