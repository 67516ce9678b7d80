--------------------------- MODULE JournaledGuard ---------------------------
(***************************************************************************)
(* The journal together with the policy that reads its history: what a     *)
(* restart does to the decision of ReconcilePolicy::evaluate.              *)
(*                                                                         *)
(* A process that dies now is followed by one that evaluates the replayed  *)
(* history; the questions are which guards then still see what they saw.   *)
(***************************************************************************)
EXTENDS Journal, ReconcilePolicy

CONSTANT Policy

ASSUME PolicyAssumption == IsPolicy(Policy)

\* What append writes are pairs of i128, what record_revert writes are events.
ASSUME EntriesAssumption ==
    /\ \A e \in PairEntries :
          /\ e = ConfirmedPair(e.predicted, e.realized)
          /\ e.predicted \in Int /\ e.realized \in Int
    /\ \A e \in RevertEntries : e = RevertedTx(e.event)

Before(p) == FromTimeline(inner[p])           \* JournaledHistory::history()
After     == FromTimeline(Recovered(file))     \* history() of the next process

Idle(p) == pc[p] = "open"

\* With max_retained_entries at least the burst limit and the gas window, a
\* restart never changes what the two revert guards decide: an interrupted
\* burst of reverts is not forgotten and old reverts do not come back.
RevertGuardsSurviveRestart ==
    \A p \in Procs : Idle(p) =>
        /\ RevertBurstHalt(Policy, After) = RevertBurstHalt(Policy, Before(p))
        /\ RevertGasHalt(Policy, After) = RevertGasHalt(Policy, Before(p))

\* As long as the timeline holds usable pairs only, so that every window
\* counts the same entries, no guard's decision changes at a restart if
\* max_retained_entries is at least every window.
PairGuardsSurviveRestart ==
    \A p \in Procs :
        /\ Idle(p)
        /\ PositivePairs(Before(p)) = Before(p).pairs
        /\ Before(p).reverts = <<>>
        => evaluate(Policy, After) = evaluate(Policy, Before(p))

\* docs/whitepaper.md section 6: replaying the log on startup preserves
\* consecutive revert counts and ratios.  With max_retained_entries at least
\* every window, a restart never changes the decision of the policy.
DecisionSurvivesRestart ==
    \A p \in Procs : Idle(p) =>
        evaluate(Policy, After) = evaluate(Policy, Before(p))
=============================================================================
