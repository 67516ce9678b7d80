--------------------------- MODULE MCToyStrategy ----------------------------
(* Small instances of ToyStrategy for TLC. *)
EXTENDS ToyStrategy

\* Return data of getReserves: prices 1 and 11/10 diverge, 1 and 101/100 do
\* not, an empty pool never does, and one word is too short.  The high half
\* of a word is ignored.
Even == Success(<<100, 100>>, <<>>)
Dear == Success(<<256 + 100, 110>>, <<>>)

Fork(pool_a, pool_b, trade) == [pool_a |-> pool_a, pool_b |-> pool_b, trade |-> trade]

Profit == Success(<<10>>, <<>>)

\* A profit of 10, in either direction; then pools that do not diverge or
\* cannot be read, and trades that revert with data that looks like a profit,
\* halt, return nothing, or a profit that is not positive as i128.
AllForks ==
    {Fork(Even, Dear, Profit), Fork(Dear, Even, Profit),
     Fork(Even, Success(<<100, 101>>, <<>>), Profit),
     Fork(Even, Revert(<<0, 0>>), Profit), Fork(Even, Revert(<<100>>), Profit),
     Fork(Even, Dear, Revert(<<10>>)), Fork(Even, Dear, Halt),
     Fork(Even, Dear, Success(<<>>, <<>>)),
     Fork(Even, Dear, Success(<<200>>, <<>>))}

\* r and s with and without a leading zero byte, of one low or high byte, and
\* s in the high half of the order.
Sig(r, s, y_odd) == [r |-> r, s |-> s, y_odd |-> y_odd]

MixedSignatures ==
    {Sig(300, 127, TRUE), Sig(128, 400, FALSE), Sig(7, 128, FALSE),
     Sig(40000, 40000, TRUE), Sig(255, 65520, FALSE), Sig(256, 65400, TRUE)}

\* Net profits of 5, half the prediction, which the fast guard still accepts,
\* and of 14; damped, both are below half.  A revert, and a confirmation
\* without a Profit event.
Receipt(status, gas_price, logs) ==
    [status |-> status, gas_used |-> 2, gas_price |-> gas_price, logs |-> logs]

Log(topic, data) == [topic |-> topic, data |-> data]

AllReceipts == {Receipt(1, {1}, <<Log("Transfer", <<9>>), Log("Profit", <<7>>)>>),
                Receipt(1, {}, <<Log("Profit", <<14>>)>>),
                Receipt(0, {1}, <<>>),
                Receipt(1, {1}, <<Log("Transfer", <<9>>)>>)}

TwoPercent == <<2, 100>>

\* --inject-drift dampens to 0.3.
InjectedDamping == <<3, 10>>

\* The market of this instance is the one DriftHaltsOnSchedule speaks of.
ASSUME MarketAssumption == HealthyMarket /\ SlowKeepsOut
=============================================================================
