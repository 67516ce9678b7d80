----------------------------- MODULE PyBindings -----------------------------
(***************************************************************************)
(* driftbrake-py/src/lib.rs: the policy and the decision as Python sees    *)
(* them.  PyReconcileHistory delegates every call to ReconcileHistory, so  *)
(* it is the `history` of DriftGuard.                                      *)
(*                                                                         *)
(* A Python argument that may be None is a set with at most one element.   *)
(* A Rust panic, which Python meets as an exception, is no decision.       *)
(***************************************************************************)
EXTENDS DriftGuard

CONSTANT NarrowWidth   \* bits of u64 / i64, to which `details` casts

ASSUME NarrowAssumption == NarrowWidth \in 1..Width

\* Two facts about powers that hold for every width.
ASSUME PowerAssumption ==
    /\ 2^(NarrowWidth - 1) \in Nat \ {0}
    /\ 2^NarrowWidth = 2 * 2^(NarrowWidth - 1)

U64(x) == x % 2^NarrowWidth
I64(x) == ((x + 2^(NarrowWidth - 1)) % 2^NarrowWidth) - 2^(NarrowWidth - 1)

-----------------------------------------------------------------------------
(* PyReconcilePolicy *)

\* The policy that `new` and `institutional` build from their arguments.
institutional(args) ==
    [fast            |-> [threshold |-> args.fast_threshold,
                          window    |-> args.fast_window],
     slow            |-> [threshold |-> args.slow_threshold,
                          window    |-> args.slow_window],
     revert_burst    |-> {[limit |-> x] : x \in args.revert_burst_limit},
     volume_weighted |-> {[threshold |-> x, window |-> args.volume_weighted_window] :
                             x \in args.volume_weighted_threshold},
     revert_gas      |-> {[budget_limit |-> x, window |-> args.revert_gas_window] :
                             x \in args.revert_gas_budget},
     drawdown        |-> {[max_drawdown_limit |-> x, window |-> args.drawdown_window] :
                             x \in args.drawdown_limit}]

\* The defaults of the two signatures.
NewArgs ==
    [fast_threshold            |-> <<1, 2>>,  fast_window            |-> 3,
     slow_threshold            |-> <<7, 10>>, slow_window            |-> 20,
     volume_weighted_threshold |-> {},        volume_weighted_window |-> 20,
     revert_gas_budget         |-> {},        revert_gas_window      |-> 10,
     drawdown_limit            |-> {},        drawdown_window        |-> 20,
     revert_burst_limit        |-> {}]

InstitutionalArgs ==
    [NewArgs EXCEPT !.revert_burst_limit        = {3},
                    !.volume_weighted_threshold = {<<3, 4>>}]

\* Called without arguments, the Python constructors build the policies that
\* default_dual_guard and institutional_default build in Rust.
ASSUME PythonDefaultsAgree ==
    /\ institutional(NewArgs) = default_dual_guard
    /\ institutional(InstitutionalArgs) = institutional_default

-----------------------------------------------------------------------------
(* PyHaltDecision *)

TheOnly(option) == CHOOSE config \in option : TRUE

\* The HaltReason that evaluate returns, with the numbers it carries.
Halt(policy, h, reason) ==
    LET gas == TheOnly(policy.revert_gas)
        dd  == TheOnly(policy.drawdown)
        vw  == TheOnly(policy.volume_weighted)
    IN  CASE reason = "RevertBurst" ->
               [type                |-> reason,
                consecutive_reverts |-> consecutive_reverts(h),
                limit               |-> TheOnly(policy.revert_burst).limit]
          [] reason = "RevertGasBudgetExceeded" ->
               [type            |-> reason,
                gas_cost_burned |-> U128(SumSeq(RecentFees(h, gas.window))),
                budget_limit    |-> gas.budget_limit,
                window          |-> gas.window]
          [] reason = "FastGuard" ->
               [type          |-> reason,
                recent_ratios |-> recent_ratios(h, policy.fast.window),
                threshold     |-> policy.fast.threshold]
          [] reason = "NetDrawdownExceeded" ->
               [type               |-> reason,
                net_slippage_loss  |-> I128(SumSeq(Slippage(h, dd.window))),
                max_drawdown_limit |-> dd.max_drawdown_limit,
                window             |-> dd.window]
          [] reason = "VolumeWeightedDrift" ->
               [type           |-> reason,
                weighted_ratio |-> <<I128(SumSeq(Volume(h, vw.window, 2))),
                                     I128(SumSeq(Volume(h, vw.window, 1)))>>,
                threshold      |-> vw.threshold,
                window         |-> vw.window]
          [] reason = "SlowGuard" ->
               [type        |-> reason,
                mean_ratio  |-> Mean(recent_ratios(h, policy.slow.window)),
                window_size |-> policy.slow.window,
                threshold   |-> policy.slow.threshold]

\* PyReconcilePolicy::evaluate: the decision, {} for Continue.
py_evaluate(policy, h) ==
    LET reasons == {evaluate(policy, h)} \ {"Continue"}
    IN  [should_halt |-> reasons # {},
         reason_name |-> reasons,
         decision    |-> {Halt(policy, h, reason) : reason \in reasons}]

\* unwrap_or_raise raises StrategyHaltedError.
unwrap_or_raise(d) == IF d.should_halt THEN "StrategyHaltedError" ELSE "None"

\* Mutant: the fees are cast to the signed type, like a drawdown.
details_SignedFees(d) ==
    {CASE reason.type = "RevertGasBudgetExceeded" ->
            [reason EXCEPT !.gas_cost_burned = I64(@), !.budget_limit = I64(@)]
       [] reason.type = "NetDrawdownExceeded" ->
            [reason EXCEPT !.net_slippage_loss = I64(@), !.max_drawdown_limit = I64(@)]
       [] OTHER -> reason
     : reason \in d.decision}

\* The items of the details dictionary.  Amounts in wei lose the bits above
\* the 64th, with sign for a drawdown.
details(d) ==
    {CASE reason.type = "RevertGasBudgetExceeded" ->
            [reason EXCEPT !.gas_cost_burned = U64(@), !.budget_limit = U64(@)]
       [] reason.type = "NetDrawdownExceeded" ->
            [reason EXCEPT !.net_slippage_loss = I64(@), !.max_drawdown_limit = I64(@)]
       [] OTHER -> reason
     : reason \in d.decision}

-----------------------------------------------------------------------------
\* `shown` is `exact`, or, when that does not fit range, what is left of it
\* modulo 2^64.
Shows(shown, exact, range) ==
    /\ shown \in range
    /\ exact \in range => shown = exact
    /\ (shown - exact) % 2^NarrowWidth = 0

Unsigned == 0..2^NarrowWidth - 1
Signed   == -2^(NarrowWidth - 1)..2^(NarrowWidth - 1) - 1

\* The numbers of a details dictionary are those of the timeline, and (when
\* no cast cut them) such that they justify the halt.
Justified(item) ==
    CASE item.type = "RevertBurst" ->
           LET run(n) == /\ Cardinality(Newest(n, Settled)) = n
                         /\ Newest(n, Settled) \subseteq RevertedAt
           IN  /\ item.consecutive_reverts >= item.limit
               /\ run(item.consecutive_reverts)
               /\ ~run(item.consecutive_reverts + 1)
      [] item.type = "RevertGasBudgetExceeded" ->
           LET burned == SumFunctionOnSet(Fees, RevertedAmong(item.window))
           IN  /\ Shows(item.gas_cost_burned, burned, Unsigned)
               /\ burned \in Unsigned => item.gas_cost_burned > item.budget_limit
      [] item.type = "NetDrawdownExceeded" ->
           LET loss == SumFunctionOnSet(Losses, Newest(item.window, PairedAt))
           IN  /\ Shows(item.net_slippage_loss, loss, Signed)
               /\ loss \in Signed => item.net_slippage_loss > item.max_drawdown_limit
      [] item.type = "VolumeWeightedDrift" ->
           LET window == Newest(item.window, UsableAt)
           IN  /\ item.weighted_ratio = <<SumFunctionOnSet(Profits, window),
                                          SumFunctionOnSet(Predictions, window)>>
               /\ Less(item.weighted_ratio, item.threshold)
      [] item.type = "FastGuard" ->
           /\ Len(item.recent_ratios) = Policy.fast.window
           /\ \A i \in DOMAIN item.recent_ratios :
                  Less(item.recent_ratios[i], item.threshold)
           /\ Range(item.recent_ratios) =
                  {<<Realized(i), Predicted(i)>> :
                      i \in Newest(Policy.fast.window, UsableAt)}
      [] item.type = "SlowGuard" ->
           /\ Less(item.mean_ratio, item.threshold)
           /\ Cardinality(Newest(item.window_size, UsableAt)) = item.window_size

\* What Python is told of a decision is the decision: unwrap_or_raise raises
\* exactly when one of the documented conditions holds, reason_name and the
\* dictionary name the same guard, and the dictionary's numbers, computed from
\* three collections and cast to 64 bits, are those of the timeline.
DetailsExplainTheHalt ==
    evaluate(Policy, history) # "Panic" =>
        LET d == py_evaluate(Policy, history)
            items == details(d)
            tripped == RefBurst \/ RefGas \/ RefFast \/ RefDrawdown
                         \/ RefVolumeWeighted \/ RefSlow
        IN  /\ unwrap_or_raise(d) = IF tripped THEN "StrategyHaltedError" ELSE "None"
            /\ d.reason_name = {item.type : item \in items}
            /\ \A item \in items : Justified(item)

-----------------------------------------------------------------------------
(* What the theorem about DetailsExplainTheHalt assumes of the policy.     *)

\* An Option holds at most one configuration.
IsOption(option) == \A a, b \in option : a = b

\* The policies that the arguments of `institutional` give: options, an
\* unsigned budget and a signed limit, which is not so far below zero that the
\* cast of `details` would turn its sign.
BuiltFromArgs(policy) ==
    /\ IsOption(policy.revert_burst) /\ IsOption(policy.revert_gas)
    /\ IsOption(policy.drawdown) /\ IsOption(policy.volume_weighted)
    /\ \A gas \in policy.revert_gas : gas.budget_limit \in Nat
    /\ \A dd \in policy.drawdown :
           dd.max_drawdown_limit \in Int
             /\ dd.max_drawdown_limit >= -2^(NarrowWidth - 1)
=============================================================================
