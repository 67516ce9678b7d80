---------------------------- MODULE ToyStrategy -----------------------------
(***************************************************************************)
(* examples/toy-arbitrage: the end-to-end loop that watches two pools,     *)
(* simulates, submits, reconciles and checks for a halt, with restarts of  *)
(* the process, against a node that may accept a transaction and lose the  *)
(* answer.                                                                 *)
(*                                                                         *)
(* The fork is pinned to the block that was latest when the process        *)
(* started, so what every iteration simulates is decided at the start: the *)
(* ExecutionResult of getReserves on each pool, and of the trade.  Return  *)
(* data is a sequence of 256-bit words; twice Width bits here, Width being *)
(* the bits of i128 and u128.                                              *)
(*                                                                         *)
(* Polls are one step here: ReceiptPoller has their detail.                *)
(***************************************************************************)
EXTENDS ReconcilePolicy, SimOutput, TxWire

CONSTANTS
    Forks,       \* what the pinned fork may show
    Receipts,    \* the receipts the chain may give a transaction
    MinDivergence, \* MIN_DIVERGENCE, a fraction
    DriftAfter,  \* drift_after
    Damping,     \* damping factor, a fraction
    NodeFails,   \* whether calls to the node may fail and processes die
    Signatures,  \* what sign_prehash_recoverable may return
    BaseNonces,  \* how many transactions the account may have sent before
    MaxTrades    \* bound on the transactions sent

ASSUME TradesAssumption ==
    DriftAfter \in Nat /\ NodeFails \in BOOLEAN /\ MaxTrades \in Nat
ASSUME ForksAssumption ==
    \A f \in Forks : f.trade.kind \in {"Success", "Revert", "Halt"}
ASSUME NoncesAssumption    == BaseNonces \subseteq Nat
ASSUME SignatureAssumption == \A sig \in Signatures : sig.s \in 1..Order - 1

VARIABLES
    at,            \* where main is, or "down" / "halted"
    fork,          \* the state the engine is pinned to
    nonce,         \* the nonce of the next transaction
    calls_so_far,  \* DriftInjectingDecoder's counter
    history,       \* the in-memory ReconcileHistory
    sent,          \* transactions the node accepted, oldest first
    refused,       \* whether the node ever refused a transaction's bytes
    inject_drift,  \* whether the process was started with --inject-drift
    base           \* the transactions the account sent before

vars == <<at, fork, nonce, calls_so_far, history, sent, refused, inject_drift,
          base>>

\* Mutant: the policy with a revert burst guard is plugged into the same loop.
halt_policy_Institutional == institutional_default

halt_policy == default_dual_guard

\* The transaction the loop is polling for.
newest == sent[Len(sent)]

\* Mutant: the nonce after the mined transactions is asked for.
fetch_nonce_Latest ==
    base + Cardinality({i \in DOMAIN sent : sent[i].receipt # {}})

\* Mutant: off by one.
fetch_nonce_Skips == base + Len(sent) + 1

\* eth_getTransactionCount with the "pending" tag.
fetch_nonce == base + Len(sent)

-----------------------------------------------------------------------------
(* Decoding.  Absence (None, or a DecodeError) is the empty set. *)

\* The low 128 bits of a word of the data, if it is long enough.
decode_u256_word(data, word_index) ==
    {U128(data[i]) : i \in {word_index + 1} \cap DOMAIN data}

\* <<reserve0, reserve1>>
decode_reserves(data) == decode_u256_word(data, 0) \X decode_u256_word(data, 1)

\* reserve1 / reserve0 as a fraction; n/0 is infinite and 0/0 is not a number,
\* for which every comparison below is false, as it is in f64.
price_token0_in_token1(reserves) == <<reserves[2], reserves[1]>>

\* price_divergence > MIN_DIVERGENCE, cross-multiplied.
Diverges(a, b) ==
    LET pa   == price_token0_in_token1(a)
        pb   == price_token0_in_token1(b)
        low  == IF Less(pa, pb) THEN pa ELSE pb
        high == IF Less(pa, pb) THEN pb ELSE pa
    IN  MinDivergence[2] * high[1] * low[2]
          > (MinDivergence[1] + MinDivergence[2]) * low[1] * high[2]

\* ToyArbProfitDecoder; the cast to i128 keeps the bits.
decode_predicted(raw) ==
    IF raw.revert_reason # {} THEN {}
    ELSE {I128(w) : w \in decode_u256_word(raw.return_data, 0)}

\* get_receipt and parse_receipt_response: status 1 is Confirmed, any other
\* Reverted, and a missing effectiveGasPrice is 0.
get_receipt(tx) ==
    {[status |-> IF r.status = 1 THEN "Confirmed" ELSE "Reverted",
      gas_cost |-> U128(r.gas_used
                        * (IF r.gas_price = {} THEN 0 ELSE Max(r.gas_price))),
      logs |-> r.logs] : r \in tx.receipt}

\* ToyArbRealizedDecoder: the first Profit log, net of gas.  (A debug build
\* panics where this wraps.)
ToyArbRealized(receipt) ==
    LET profit == SelectInSeq(receipt.logs, LAMBDA log : log.topic = "Profit")
        gross  == IF profit = 0 THEN {}
                  ELSE decode_u256_word(receipt.logs[profit].data, 0)
    IN  {I128(I128(g) - I128(receipt.gas_cost)) : g \in gross}

-----------------------------------------------------------------------------
(* The trade.  Addresses and the gas limit are those of main's config; the *)
(* notional amount, the selector, the gas price and the chain are samples. *)

EXECUTOR_ADDRESS == [i \in 1..20 |-> 153]
POOL_A           == [i \in 1..20 |-> 161]
POOL_B           == [i \in 1..20 |-> 178]
GAS_LIMIT        == 500000
TRADE_NOTIONAL   == 1000000
GasPrice         == 1000000000
ChainId          == 11155111
Selector         == <<0, 1, 128, 255>>

\* A value in the low bytes of a 32-byte word.
Word(bytes) == [i \in 1..32 - Len(bytes) |-> 0] \o bytes

encode_arb_call(selector, buy_pool, sell_pool, amount) ==
    selector \o Word(buy_pool) \o Word(sell_pool) \o Word(to_be_bytes(amount, 4))

Candidate(buys_a) ==
    [to        |-> EXECUTOR_ADDRESS,
     data      |-> IF buys_a
                   THEN encode_arb_call(Selector, POOL_A, POOL_B, TRADE_NOTIONAL)
                   ELSE encode_arb_call(Selector, POOL_B, POOL_A, TRADE_NOTIONAL),
     gas_limit |-> GAS_LIMIT]

-----------------------------------------------------------------------------
Init ==
    /\ at = "down"
    /\ fork \in Forks
    /\ nonce = 0
    /\ calls_so_far = 0
    /\ history = NewHistory
    /\ sent = <<>>
    /\ refused = FALSE
    /\ inject_drift = FALSE
    /\ base \in BaseNonces

\* Every simulation reads accounts and storage at the block tag that was
\* fixed when the database factory was made.
PinFork == fork' \in Forks

\* main up to the loop: everything the process knew is gone, and
\* --inject-drift is on the command line or not.
Start ==
    /\ at \in {"down", "halted"}
    /\ at' = "reading"
    /\ inject_drift' \in BOOLEAN
    /\ PinFork
    /\ nonce' = fetch_nonce
    /\ calls_so_far' = 0
    /\ history' = NewHistory
    /\ UNCHANGED <<sent, refused, base>>

-----------------------------------------------------------------------------
(* One iteration of the loop *)

Goto(place) ==
    /\ at' = place
    /\ UNCHANGED <<fork, nonce, calls_so_far, history, sent, refused,
                   inject_drift, base>>

\* read_reserves: whatever getReserves returned, a revert's data included.
read_reserves(result) == decode_reserves(convert_result(result).return_data)

\* Token0 is bought where it is cheaper.
BuysA ==
    \E a \in read_reserves(fork.pool_a), b \in read_reserves(fork.pool_b) :
        Less(price_token0_in_token1(a), price_token0_in_token1(b))

\* read_reserves of both pools, whose failure ends the process, and the
\* pre-filter on their prices.
ReadPools ==
    /\ at = "reading"
    /\ LET pools == read_reserves(fork.pool_a) \X read_reserves(fork.pool_b)
       IN  Goto(IF pools = {} THEN "down"
                ELSE IF \E p \in pools : Diverges(p[1], p[2])
                THEN "simulating" ELSE "sleeping")

\* simulate and decode_predicted: only a positive prediction is traded.
SimulateTrade ==
    /\ at = "simulating"
    /\ Goto(IF \E predicted \in decode_predicted(convert_result(fork.trade)) :
                   predicted > 0
            THEN "submitting" ELSE "sleeping")

\* The transaction the loop signs for a candidate.
Unsigned(n, candidate) ==
    [nonce |-> n, gas_price |-> GasPrice, gas_limit |-> candidate.gas_limit,
     to |-> candidate.to, value |-> 0, data |-> candidate.data,
     chain_id |-> ChainId]

\* The nonces the account may come to.
Nonces == {m + i : m \in BaseNonces, i \in 0..MaxTrades}

\* What the node makes of the bytes that submit broadcasts, for every nonce,
\* purchase and signature.
Broadcast ==
    [n \in Nonces, buys_a \in BOOLEAN, sig \in Signatures |->
        LET tx == Unsigned(n, Candidate(buys_a))
        IN  NodeReads(signed_tx_rlp(tx, sign_normalized(sig)),
                      ChainId, sig, signing_hash(tx))]

\* The transaction is signed and sent.  The node accepts or refuses it, and
\* its answer arrives or is lost; on an error `?` ends the process.
SubmitTx ==
    /\ at = "submitting"
    /\ Len(sent) < MaxTrades
    /\ \E sig \in Signatures :
           LET read == Broadcast[nonce, BuysA, sig]
           IN  /\ refused' = (refused \/ read = {})
               /\ sent' = sent \o SetToSeq(
                     {[nonce        |-> tx.nonce,
                       as_simulated |-> tx = Unsigned(nonce, Candidate(BuysA)),
                       receipt      |-> {}] : tx \in read})
               /\ \/ read # {} /\ at' = "polling" /\ nonce' = nonce + 1
                  \/ (NodeFails \/ read = {}) /\ at' = "down" /\ UNCHANGED nonce
    /\ UNCHANGED <<fork, calls_so_far, history, inject_drift, base>>

\* f64::round: to the nearest integer, halves away from zero.
Dampened(net) ==
    LET scaled == Damping[1] * net
        half   == Damping[2] \div 2
    IN  IF scaled >= 0 THEN (scaled + half) \div Damping[2]
        ELSE -((-scaled + half) \div Damping[2])

\* DriftInjectingDecoder around ToyArbRealizedDecoder; without --inject-drift
\* its drift_after is u64::MAX.
decode_realized(receipt) ==
    {IF ~inject_drift \/ calls_so_far < DriftAfter THEN net ELSE Dampened(net) :
        net \in ToyArbRealized(receipt)}

\* The poll returns Realized: the pair is booked, then the policy is asked.
PollRealized ==
    /\ at = "polling"
    /\ \E receipt \in get_receipt(newest) :
           /\ receipt.status = "Confirmed"
           /\ \E predicted \in decode_predicted(convert_result(fork.trade)),
                  realized \in decode_realized(receipt) :
                  history' = append(history, predicted, realized)
    /\ calls_so_far' = calls_so_far + 1
    /\ at' = IF Halts(halt_policy, history') THEN "halted" ELSE "sleeping"
    /\ UNCHANGED <<fork, nonce, sent, refused, inject_drift, base>>

\* The poll returns Reverted: booked, and the policy is not asked.
PollReverted ==
    /\ at = "polling"
    /\ \E receipt \in get_receipt(newest) : receipt.status = "Reverted"
    /\ history' = record_revert(history, newest.nonce)
    /\ at' = "sleeping"
    /\ UNCHANGED <<fork, nonce, calls_so_far, sent, refused, inject_drift, base>>

\* Mutant: the counter is advanced before the inner decoder may fail.
PollDecodeFailed_Counts ==
    /\ at = "polling"
    /\ \E receipt \in get_receipt(newest) :
           receipt.status = "Confirmed" /\ decode_realized(receipt) = {}
    /\ calls_so_far' = calls_so_far + 1
    /\ at' = "sleeping"
    /\ UNCHANGED <<fork, nonce, history, sent, refused, inject_drift, base>>

\* The poll returns DecodeFailed: the inner decoder's `?` comes first.
PollDecodeFailed ==
    /\ at = "polling"
    /\ \E receipt \in get_receipt(newest) :
           receipt.status = "Confirmed" /\ decode_realized(receipt) = {}
    /\ Goto("sleeping")

PollTimedOut ==
    /\ at = "polling"
    /\ get_receipt(newest) = {}
    /\ Goto("sleeping")

WakeUp == at = "sleeping" /\ Goto("reading")

\* A call to the node or the engine fails and `?` ends the process, or the
\* process is killed.
Fail ==
    /\ NodeFails
    /\ at \notin {"down", "halted"}
    /\ Goto("down")

\* The chain mines the transactions of the account in nonce order.
Mine(i, receipt) ==
    /\ sent[i].receipt = {}
    /\ \A j \in DOMAIN sent : sent[j].nonce < sent[i].nonce
                                 => sent[j].receipt # {}
    /\ sent' = [sent EXCEPT ![i] = [@ EXCEPT !.receipt = {receipt}]]
    /\ UNCHANGED <<at, fork, nonce, calls_so_far, history, refused,
                   inject_drift, base>>

-----------------------------------------------------------------------------
LoopStep ==
    \/ ReadPools \/ SimulateTrade \/ SubmitTx
    \/ PollRealized \/ PollReverted \/ PollDecodeFailed \/ PollTimedOut
    \/ WakeUp

Next ==
    \/ Start
    \/ LoopStep
    \/ Fail
    \/ \E i \in DOMAIN sent, receipt \in Receipts : Mine(i, receipt)

Spec == Init /\ [][Next]_vars

-----------------------------------------------------------------------------
\* Types of the loop's state and of the account's transactions.
TypeOK ==
    /\ at \in {"down", "halted", "reading", "simulating", "submitting",
               "polling", "sleeping"}
    /\ fork \in Forks
    /\ nonce \in 0..base + MaxTrades
    /\ calls_so_far \in 0..MaxTrades
    /\ \A i \in DOMAIN sent :
           /\ sent[i].nonce \in Nat
           /\ sent[i].as_simulated \in BOOLEAN
           /\ sent[i].receipt \subseteq Receipts
           /\ Cardinality(sent[i].receipt) <= 1
    /\ Len(sent) <= MaxTrades
    /\ refused \in BOOLEAN /\ inject_drift \in BOOLEAN
    /\ base \in BaseNonces

\* The loop asks the policy only after a Realized poll.  That is enough: at
\* no point before a submission does the history it holds demand a halt,
\* whatever reverts, time-outs and decode failures it went through.
NoTradeWhileTripped ==
    at \in {"reading", "simulating", "submitting"} => ~Halts(halt_policy, history)

\* Restarts, failed submissions and transactions still pending included, the
\* next transaction has the first nonce the account has not used, and the
\* node has read consecutive nonces: none is replaced, none waits behind a gap.
NonceIsNext ==
    /\ at = "submitting" => nonce = base + Len(sent)
    /\ \A i \in DOMAIN sent : sent[i].nonce = base + i - 1

\* What reaches the chain is what was simulated, successfully: whatever the
\* nonce and the signature (a high s, a leading zero byte, a zero, a byte
\* below or above 0x80), a strict node accepts the bytes of submit as signed
\* by the account, and reads in them the candidate of the simulation.
SentAsSimulated ==
    /\ ~refused
    /\ \A i \in DOMAIN sent : sent[i].as_simulated
    /\ at = "submitting" => fork.trade.kind = "Success"

\* toy-arbitrage README, "Simulating Drift Injection": when the market is
\* healthy (each net profit is at least the fast threshold of the prediction,
\* and damped it is below) a strategy started with --inject-drift books
\* DriftAfter healthy trades, and the fast guard stops it exactly when its
\* window has filled with damped ones, whatever reverts, time-outs and decode
\* failures lie between.  Without the flag nothing stops it.
DriftHaltsOnSchedule ==
    LET scheduled == DriftAfter + halt_policy.fast.window
    IN  /\ at = "halted" <=> inject_drift /\ Len(history.pairs) = scheduled
        /\ inject_drift => Len(history.pairs) <= scheduled
        /\ at = "halted" => evaluate(halt_policy, history) = "FastGuard"

-----------------------------------------------------------------------------
(* What the theorems assume of the constants. *)

\* The nonces of the transactions that submit may broadcast.
SubmitNonces == {m + i : m \in BaseNonces, i \in 0..MaxTrades - 1}

\* The wire format is faithful: of the bytes of a transaction, whatever the
\* signature, the node makes that transaction.
WireFaithful ==
    \A n \in SubmitNonces, buys_a \in BOOLEAN, sig \in Signatures :
        Broadcast[n, buys_a, sig] = {Unsigned(n, Candidate(buys_a))}

\* The predictions that are traded on, and the outcomes a confirmed trade
\* may have.
Traded ==
    {x \in UNION {decode_predicted(convert_result(f.trade)) : f \in Forks} : x > 0}
Outcomes ==
    UNION {ToyArbRealized(receipt) : receipt \in get_receipt([receipt |-> Receipts])}

\* The market is healthy: every outcome is at least the fast threshold of
\* every prediction, and damped it is below.
HealthyMarket ==
    \A predicted \in Traded, net \in Outcomes :
        /\ predicted \in Int /\ net \in Int /\ Dampened(net) \in Int
        /\ ~Less(<<net, predicted>>, halt_policy.fast.threshold)
        /\ Less(<<Dampened(net), predicted>>, halt_policy.fast.threshold)

\* It is steady as well: every outcome is at least the slow threshold.
SteadyMarket ==
    \A predicted \in Traded, net \in Outcomes :
        ~Less(<<net, predicted>>, halt_policy.slow.threshold)

\* The slow guard keeps out of the schedule: its window never fills, or the
\* fast one fills first and without drift it has nothing to object to.
SlowKeepsOut ==
    \/ MaxTrades < halt_policy.slow.window
    \/ /\ SteadyMarket
       /\ DriftAfter + halt_policy.fast.window < halt_policy.slow.window
=============================================================================
