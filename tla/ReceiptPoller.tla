--------------------------- MODULE ReceiptPoller ----------------------------
(***************************************************************************)
(* receipt-poller/src/lib.rs: poll_until_settled against a chain and a     *)
(* receipt source that answer in their own time.                           *)
(*                                                                         *)
(* poll_until_settled borrows the history mutably, so a caller runs one    *)
(* poll at a time, but it may have several transactions on the chain.      *)
(* get_receipt is an await: the answer is what the chain knew when the     *)
(* source looked (Look), used when the poller resumes.  The caller may     *)
(* drop the future at any await.                                           *)
(*                                                                         *)
(* Two kinds of caller: one that keeps to the contract of                  *)
(* ReconcileHistory (in_order) sends from one account, whose transactions  *)
(* the chain mines in order, and polls each until its outcome is final     *)
(* before it polls the next; any other polls as it likes.                  *)
(*                                                                         *)
(* Time is counted in ticks of one clock.  A transaction is its own        *)
(* predicted profit, and decodes or not (Decodable).                       *)
(***************************************************************************)
EXTENDS ReconcileHistory

CONSTANTS
    Txs,         \* transactions the caller may submit
    Decodable,   \* those whose confirmed receipt decodes to a profit event
    Intervals,   \* poll_interval(); 0 when the fraction rounds to 0 ms
    Timeout,     \* timeout()
    RoundTrip,   \* longest time get_receipt takes if it answers
    MaxTime      \* bound on the clock

ASSUME TimesAssumption ==
    /\ Intervals \subseteq Nat
    /\ Timeout \in Nat /\ RoundTrip \in Nat /\ MaxTime \in Nat
ASSUME DecodableAssumption == Decodable \subseteq Txs

VARIABLES
    interval,   \* the interval the poller is configured with
    now,        \* the clock
    in_order,   \* whether the caller polls in the order it sends
    submitted,  \* transactions the caller has sent, oldest first
    chain,      \* what the chain knows of each transaction
    settledAt,  \* when it came to know it
    phase,      \* where the running poll is
    tx,         \* the transaction it polls
    deadline,   \* its deadline
    timer,      \* when its last await began, or when its sleep ends
    answer,     \* the answer of the receipt source
    outcome,    \* what the last poll of each transaction returned
    history     \* the caller's ReconcileHistory

env  == <<interval, in_order, submitted, chain, settledAt>>
vars == <<interval, in_order, now, submitted, chain, settledAt,
          phase, tx, deadline, timer, answer, outcome, history>>

Statuses  == {"pending", "confirmed", "reverted"}
Retryable == {"none", "TimedOut", "SourceError"}
Outcomes  == Retryable \cup {"Realized", "Reverted", "DecodeFailed"}

Init ==
    /\ interval \in Intervals
    /\ in_order \in BOOLEAN
    /\ now = 0
    /\ submitted = <<>>
    /\ chain = [t \in Txs |-> "pending"]
    /\ settledAt = [t \in Txs |-> 0]
    /\ phase = "idle"
    /\ tx \in Txs
    /\ deadline = 0
    /\ timer = 0
    /\ answer = "pending"
    /\ outcome = [t \in Txs |-> "none"]
    /\ history = NewHistory

-----------------------------------------------------------------------------
(* The caller and the chain *)

\* The transactions sent before t.
Before(t) ==
    {submitted[i] : i \in {j \in DOMAIN submitted :
                              \E k \in DOMAIN submitted : j < k /\ submitted[k] = t}}

Submit(t) ==
    /\ t \notin ToSet(submitted)
    /\ submitted' = Append(submitted, t)
    /\ UNCHANGED <<interval, in_order, now, chain, settledAt, phase, tx, deadline,
                   timer, answer, outcome, history>>

\* A receipt appears.  A transaction may also stay pending for ever.
Settle(t, status) ==
    /\ t \in ToSet(submitted)
    /\ chain[t] = "pending"
    /\ in_order => \A u \in Before(t) : chain[u] # "pending"
    /\ chain' = [chain EXCEPT ![t] = status]
    /\ settledAt' = [settledAt EXCEPT ![t] = now]
    /\ UNCHANGED <<interval, in_order, now, submitted, phase, tx, deadline, timer, answer,
                   outcome, history>>

-----------------------------------------------------------------------------
(* poll_until_settled *)

\* The call: the deadline is computed once, then get_receipt is awaited.
\* A caller may poll again after TimedOut or a source error.
\* (The bound on the clock keeps it from cutting a poll short.)
StartPoll(t) ==
    /\ phase = "idle"
    /\ t \in ToSet(submitted)
    /\ outcome[t] \in Retryable
    /\ in_order => \A u \in Before(t) : outcome[u] \notin Retryable
    /\ now + Timeout + interval + RoundTrip <= MaxTime
    /\ phase' = "asking"
    /\ tx' = t
    /\ deadline' = now + Timeout
    /\ timer' = now
    /\ UNCHANGED <<now, env, answer, outcome, history>>

\* The source looks at the chain, or fails.
Look ==
    /\ phase = "asking"
    /\ answer' \in {chain[tx], "error"}
    /\ phase' = "answered"
    /\ UNCHANGED <<now, env, tx, deadline, timer, outcome, history>>

\* The locals of poll_until_settled go out of scope.
EndPoll ==
    /\ phase' = "idle"
    /\ deadline' = 0
    /\ timer' = 0
    /\ answer' = "pending"
    /\ UNCHANGED <<now, env, tx>>

\* poll_until_settled returns.
Return(result) ==
    /\ EndPoll
    /\ outcome' = [outcome EXCEPT ![tx] = result]

OnSourceError ==
    /\ phase = "answered" /\ answer = "error"
    /\ Return("SourceError")
    /\ UNCHANGED history

OnReverted ==
    /\ phase = "answered" /\ answer = "reverted"
    /\ history' = record_revert(history, tx)
    /\ Return("Reverted")

\* Mutant: a receipt that does not decode is booked anyway.
OnConfirmed_AlwaysBooks ==
    /\ phase = "answered" /\ answer = "confirmed"
    /\ history' = append(history, tx, "realized")
    /\ Return(IF tx \in Decodable THEN "Realized" ELSE "DecodeFailed")

\* Only a confirmed receipt is handed to the decoder.
OnConfirmed ==
    /\ phase = "answered" /\ answer = "confirmed"
    /\ IF tx \in Decodable
       THEN /\ history' = append(history, tx, "realized")
            /\ Return("Realized")
       ELSE /\ Return("DecodeFailed")
            /\ UNCHANGED history

\* Mutant: the deadline is also checked before a receipt that has arrived.
OnTimeout_AnyAnswer ==
    /\ phase = "answered" /\ answer # "error"
    /\ now >= deadline
    /\ Return("TimedOut")
    /\ UNCHANGED history

\* No receipt, and the deadline has passed.
OnTimeout ==
    /\ phase = "answered" /\ answer = "pending"
    /\ now >= deadline
    /\ Return("TimedOut")
    /\ UNCHANGED history

\* Mutant: the interval is multiplied by the number of blocks to wait for.
Sleep_WholeTimeout ==
    /\ phase = "answered" /\ answer = "pending"
    /\ now < deadline
    /\ phase' = "sleeping"
    /\ timer' = now + interval * Timeout
    /\ UNCHANGED <<now, env, tx, deadline, answer, outcome, history>>

\* Mutant: the deadline is not looked at.
Sleep_NoDeadline ==
    /\ phase = "answered" /\ answer = "pending"
    /\ phase' = "sleeping"
    /\ timer' = now + interval
    /\ UNCHANGED <<now, env, tx, deadline, answer, outcome, history>>

\* No receipt yet: sleep for the whole interval, whatever is left of the
\* timeout.
Sleep ==
    /\ phase = "answered" /\ answer = "pending"
    /\ now < deadline
    /\ phase' = "sleeping"
    /\ timer' = now + interval
    /\ UNCHANGED <<now, env, tx, deadline, answer, outcome, history>>

WakeUp ==
    /\ phase = "sleeping"
    /\ now >= timer
    /\ phase' = "asking"
    /\ timer' = now
    /\ UNCHANGED <<now, env, tx, deadline, answer, outcome, history>>

\* The caller drops the future.
Cancel ==
    /\ phase # "idle"
    /\ EndPoll
    /\ UNCHANGED <<outcome, history>>

\* Timers fire on time and get_receipt, if it answers at all, does so within
\* RoundTrip: nothing happens later than that in a call that hangs.
Tick ==
    /\ now < MaxTime
    /\ phase \in {"asking", "answered"} => now < timer + RoundTrip
    /\ phase = "sleeping" => now < timer
    /\ now' = now + 1
    /\ UNCHANGED <<env, phase, tx, deadline, timer, answer, outcome, history>>

-----------------------------------------------------------------------------
PollStep ==
    \/ OnSourceError \/ OnReverted \/ OnConfirmed \/ OnTimeout
    \/ Sleep \/ WakeUp

Next ==
    \/ \E t \in Txs : \/ Submit(t) \/ StartPoll(t)
                      \/ \E status \in Statuses \ {"pending"} : Settle(t, status)
    \/ Look
    \/ PollStep
    \/ Cancel
    \/ Tick

Spec == Init /\ [][Next]_vars

\* The runtime resumes a task whose await is ready, and time passes however
\* busy the loop is (an interval of 0 never sleeps).
RuntimeFairness == WF_vars(PollStep) /\ SF_vars(Tick)

\* The receipt source answers, which nothing in the crate sees to.
SourceFairness == WF_vars(Look)

FairSpec == Spec /\ RuntimeFairness /\ SourceFairness

\* The same without SourceFairness: get_receipt may hang.
HangingSpec == Spec /\ RuntimeFairness

-----------------------------------------------------------------------------
\* Types of the clock, the poll and the outcomes.
TypeOK ==
    /\ interval \in Intervals
    /\ now \in 0..MaxTime
    /\ in_order \in BOOLEAN
    /\ submitted \in Seq(Txs) /\ IsInjective(submitted)
    /\ chain \in [Txs -> Statuses]
    /\ settledAt \in [Txs -> 0..MaxTime]
    /\ phase \in {"idle", "asking", "answered", "sleeping"}
    /\ tx \in Txs
    /\ deadline \in 0..MaxTime
    /\ timer \in 0..deadline + interval
    /\ answer \in Statuses \cup {"error"}
    /\ outcome \in [Txs -> Outcomes]

BookedPairs   == {history.pairs[i][1] : i \in DOMAIN history.pairs}
BookedReverts == ToSet(history.reverts)

\* Receipt-gated realization (whitepaper 4.8): through retries, dropped
\* polls and late receipts, the history holds exactly the transactions whose
\* poll returned Realized or Reverted, each once, and each where the chain
\* says it belongs.
HistoryMatchesOutcomes ==
    /\ BookedPairs   = {t \in Txs : outcome[t] = "Realized"}
    /\ BookedReverts = {t \in Txs : outcome[t] = "Reverted"}
    /\ Len(history.timeline) = Cardinality(BookedPairs) + Cardinality(BookedReverts)
    /\ \A t \in BookedPairs : chain[t] = "confirmed" /\ t \in Decodable
    /\ \A t \in BookedReverts : chain[t] = "reverted"

TxOf(entry) == IF IsPair(entry) THEN entry.predicted ELSE entry.event

\* core/src/types.rs, the contract of ReconcileHistory: "ordered by
\* confirmation time, not submission time".  The poller keeps it for a caller
\* that polls in order, through time-outs, dropped polls, source errors and
\* receipts that do not decode, although it books nothing when a receipt
\* appears but whenever it happens to look.
ConfirmationOrder ==
    in_order =>
        \A i, j \in DOMAIN history.timeline :
            i < j => settledAt[TxOf(history.timeline[i])]
                       <= settledAt[TxOf(history.timeline[j])]

\* A poll ends at most one interval and one round trip after its deadline.
BoundedOvershoot == phase # "idle" => now <= deadline + interval + RoundTrip

\* A receipt that is on the chain one round trip before the deadline is never
\* reported as TimedOut: the last look is no earlier than that.
PromptReceiptIsNotMissed ==
    [][\A t \in Txs :
          outcome[t] # "TimedOut" /\ outcome'[t] = "TimedOut"
          => chain[t] = "pending" \/ settledAt[t] + RoundTrip >= deadline]_vars

\* Every call of poll_until_settled returns: "Poll until tx_hash reaches a
\* confirmed receipt, is confirmed as finally reverted, or the configured
\* timeout elapses".
EveryPollReturns == phase # "idle" ~> phase = "idle"
=============================================================================
