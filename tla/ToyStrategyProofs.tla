------------------------- MODULE ToyStrategyProofs --------------------------
(***************************************************************************)
(* Theorems about ToyStrategy, for any forks, receipts, nonces, damping    *)
(* and number of trades.  What the RLP encoder and the node's decoder make *)
(* of each other is recursion over bytes, which TLC evaluates: the proofs  *)
(* take from it one fact about constants, WireFaithful.                    *)
(***************************************************************************)
EXTENDS ToyStrategy, ReconcilePolicyProofs

Places  == {"down", "halted", "reading", "simulating", "submitting",
            "polling", "sleeping"}
Running == Places \ {"down", "halted"}
Tx      == [nonce : Nat, as_simulated : BOOLEAN, receipt : SUBSET Receipts]

\* The fields of a history.
Collections == {"timeline", "pairs", "reverts"}

-----------------------------------------------------------------------------
(* The inductive invariant *)

Typed ==
    /\ at \in Places
    /\ fork \in Forks
    /\ nonce \in Nat
    /\ calls_so_far \in Nat
    /\ sent \in Seq(Tx) /\ Len(sent) <= MaxTrades
    /\ refused = FALSE /\ inject_drift \in BOOLEAN
    /\ base \in BaseNonces

\* The account's transactions have consecutive nonces, are the candidates
\* that were simulated, and have at most one receipt.
SentInv ==
    \A i \in 1..Len(sent) :
        /\ sent[i].nonce = base + i - 1
        /\ sent[i].as_simulated
        /\ sent[i].receipt = {} \/ \E r \in Receipts : sent[i].receipt = {r}

\* The process knows the next nonce while it runs; each realized poll was
\* of a transaction of its own.
LoopInv ==
    /\ nonce <= base + Len(sent)
    /\ at \in Running => nonce = base + Len(sent)
    /\ calls_so_far <= Len(sent)
    /\ at = "polling" => calls_so_far < Len(sent)
    /\ at = "submitting" => fork.trade.kind = "Success"

\* Nothing demands a halt of the history of a running process.
HaltInv ==
    /\ DOMAIN history = Collections
    /\ at \in Running => ~Halts(halt_policy, history)

ToyInv == Typed /\ SentInv /\ LoopInv /\ HaltInv

-----------------------------------------------------------------------------
(* Lemmas *)

\* The one way to list the elements of a singleton.
LEMMA SingletonToSeq ==
    ASSUME NEW x
    PROVE  SetToSeq({x}) = <<x>>
<1>1. Cardinality({x}) = 1
  BY FS_Singleton
<1>2. \A f \in [1..1 -> {x}] : f = <<x>>
  OBVIOUS
<1>3. <<x>> \in [1..1 -> {x}] /\ IsInjective(<<x>>)
  BY DEF IsInjective
<1>4. SetToSeq({x}) \in [1..1 -> {x}]
  BY <1>1, <1>3 DEF SetToSeq
<1> QED
  BY <1>2, <1>4

\* Only a successful simulation has no revert reason.
LEMMA OnlySuccessIsDecoded ==
    ASSUME NEW f \in Forks, NEW predicted,
           predicted \in decode_predicted(convert_result(f.trade))
    PROVE  f.trade.kind = "Success"
<1>1. convert_result(f.trade).revert_reason = {}
  BY DEF decode_predicted
<1>2. f.trade.kind \in {"Success", "Revert", "Halt"}
  BY ForksAssumption
<1>3. CASE f.trade.kind = "Revert"
  <2>1. convert_result(f.trade).revert_reason = {"reverted"}
    BY <1>3, Zenon DEF convert_result
  <2> QED
    BY <1>1, <2>1
<1>4. CASE f.trade.kind = "Halt"
  <2>1. convert_result(f.trade).revert_reason = {"halted"}
    BY <1>4, Zenon DEF convert_result
  <2> QED
    BY <1>1, <2>1
<1> QED
  BY <1>2, <1>3, <1>4

\* The policy of the loop is the two ratio guards.
LEMMA LoopPolicy ==
    /\ halt_policy.revert_burst = {} /\ halt_policy.revert_gas = {}
    /\ halt_policy.drawdown = {} /\ halt_policy.volume_weighted = {}
    /\ halt_policy.fast.window \in Nat \ {0}
    /\ halt_policy.slow.window \in Nat \ {0}
  BY DEF halt_policy, default_dual_guard

\* A new process has nothing to halt for.
LEMMA NewHistoryContinues ==
    DOMAIN NewHistory = Collections /\ ~Halts(halt_policy, NewHistory)
<1>1. DOMAIN NewHistory = Collections /\ NewHistory.pairs = <<>>
  BY DEF NewHistory, Collections
<1> QED
  BY <1>1, LoopPolicy, EmptyHistoryContinues

\* A booked revert does not change what the loop's policy decides.
LEMMA RevertDecidesNothing ==
    ASSUME NEW h, DOMAIN h = Collections, NEW event,
           NEW g, g = record_revert(h, event)
    PROVE  /\ DOMAIN g = Collections /\ g.pairs = h.pairs
           /\ Halts(halt_policy, g) = Halts(halt_policy, h)
<1> DEFINE t == Append(h.timeline, RevertedTx(event))
           r == Append(h.reverts, event)
           f == [h EXCEPT !.timeline = t]
<1>1. g = [f EXCEPT !.reverts = r]
  BY DEF record_revert
<1> HIDE DEF t, r
<1>2. DOMAIN f = Collections /\ f.pairs = h.pairs
  BY DEF Collections
<1> HIDE DEF f
<1>3. DOMAIN g = Collections /\ g.pairs = f.pairs
  BY <1>1, <1>2 DEF Collections
<1> QED
  BY <1>2, <1>3, LoopPolicy, DecidesByPairs

\* A booked pair is pushed to the pairs.
LEMMA AppendShape ==
    ASSUME NEW h, DOMAIN h = Collections, NEW predicted, NEW realized
    PROVE  /\ DOMAIN append(h, predicted, realized) = Collections
           /\ append(h, predicted, realized).pairs
                = Append(h.pairs, <<predicted, realized>>)
<1> DEFINE t == Append(h.timeline, ConfirmedPair(predicted, realized))
           p == Append(h.pairs, <<predicted, realized>>)
           f == [h EXCEPT !.timeline = t]
<1>1. append(h, predicted, realized) = [f EXCEPT !.pairs = p]
  BY DEF append
<1> HIDE DEF t, p
<1>2. DOMAIN f = Collections
  BY DEF Collections
<1> HIDE DEF f
<1>3. DOMAIN f = DOMAIN [f EXCEPT !.pairs = p] /\ [f EXCEPT !.pairs = p].pairs = p
  BY <1>2 DEF Collections
<1> QED
  BY <1>1, <1>2, <1>3 DEF p

-----------------------------------------------------------------------------
(* Each step keeps the invariant *)

\* The initial states satisfy the invariant.
LEMMA ToyInit == Init => ToyInv
<1> SUFFICES ASSUME Init
             PROVE  ToyInv
  OBVIOUS
<1>1. Typed
  <2>1. sent \in Seq(Tx) /\ Len(sent) = 0
    BY DEF Init
  <2>2. 0 <= MaxTrades
    BY TradesAssumption
  <2> QED
    BY <2>1, <2>2 DEF Init, Typed, Places
<1>2. SentInv
  BY DEF Init, SentInv
<1>3. LoopInv
  <2>1. base \in Nat
    BY NoncesAssumption DEF Init
  <2> QED
    BY <2>1 DEF Init, LoopInv, Running
<1>4. HaltInv
  BY NewHistoryContinues DEF Init, HaltInv, Running
<1> QED
  BY <1>1, <1>2, <1>3, <1>4 DEF ToyInv

\* A start of the program keeps the invariant.
LEMMA ToyStart ==
    ASSUME ToyInv, Start
    PROVE  ToyInv'
<1>1. Typed' /\ Len(sent) \in Nat /\ base \in Nat
  BY NoncesAssumption DEF ToyInv, Typed, Start, PinFork, fetch_nonce, Places
<1>2. SentInv'
  BY DEF ToyInv, SentInv, Start
<1>3. LoopInv'
  <2>1. nonce' = base + Len(sent) /\ calls_so_far' = 0 /\ at' = "reading"
    BY DEF Start, fetch_nonce
  <2>2. base' = base /\ sent' = sent
    BY DEF Start
  <2> QED
    BY <1>1, <2>1, <2>2 DEF LoopInv
<1>4. HaltInv'
  BY NewHistoryContinues DEF Start, HaltInv
<1> QED
  BY <1>1, <1>2, <1>3, <1>4 DEF ToyInv

\* Moves of the loop that leave everything but its place.
LEMMA ToyGoto ==
    ASSUME ToyInv, NEW place \in Places \ {"polling"}, Goto(place),
           place \in Running => at \in Running,
           place = "submitting" => fork.trade.kind = "Success"
    PROVE  ToyInv'
<1>1. at' = place
  BY DEF Goto
<1>2. UNCHANGED <<fork, nonce, calls_so_far, history, sent, refused,
                  inject_drift, base>>
  BY DEF Goto
<1>3. Typed'
  BY <1>1, <1>2 DEF ToyInv, Typed
<1>4. SentInv'
  BY <1>2 DEF ToyInv, SentInv
<1>5. LoopInv'
  BY <1>1, <1>2 DEF ToyInv, LoopInv
<1>6. HaltInv'
  BY <1>1, <1>2 DEF ToyInv, HaltInv
<1> QED
  BY <1>3, <1>4, <1>5, <1>6 DEF ToyInv

\* A submission keeps the invariant.
LEMMA ToySubmit ==
    ASSUME WireFaithful, ToyInv, SubmitTx
    PROVE  ToyInv'
<1>1. PICK sig \in Signatures :
          /\ refused' = (refused \/ Broadcast[nonce, BuysA, sig] = {})
          /\ sent' = sent \o SetToSeq(
                {[nonce        |-> tx.nonce,
                  as_simulated |-> tx = Unsigned(nonce, Candidate(BuysA)),
                  receipt      |-> {}] : tx \in Broadcast[nonce, BuysA, sig]})
          /\ \/ /\ Broadcast[nonce, BuysA, sig] # {}
                /\ at' = "polling" /\ nonce' = nonce + 1
             \/ /\ NodeFails \/ Broadcast[nonce, BuysA, sig] = {}
                /\ at' = "down" /\ UNCHANGED nonce
  BY Zenon DEF SubmitTx
<1> DEFINE buys == BuysA
           read == Broadcast[nonce, buys, sig]
           tx   == Unsigned(nonce, Candidate(buys))
           new  == [nonce |-> nonce, as_simulated |-> TRUE, receipt |-> {}]
           n    == Len(sent)
           set  == {[nonce |-> t.nonce, as_simulated |-> t = tx, receipt |-> {}] :
                       t \in read}
<1>2. /\ at = "submitting" /\ n < MaxTrades /\ nonce = base + n
      /\ n \in Nat /\ base \in Nat /\ base \in BaseNonces /\ sent \in Seq(Tx)
      /\ MaxTrades \in Nat /\ refused = FALSE
  <2>1. at = "submitting" /\ n < MaxTrades
    BY Zenon DEF SubmitTx
  <2> QED
    BY <2>1, TradesAssumption, NoncesAssumption
       DEF ToyInv, Typed, LoopInv, Running, Places
<1>3. read = {tx}
  <2>1. nonce \in SubmitNonces
    <3>1. n \in 0..MaxTrades - 1
      BY <1>2
    <3>2. nonce = base + n /\ base \in BaseNonces
      BY <1>2
    <3> HIDE DEF n
    <3> QED
      BY <3>1, <3>2 DEF SubmitNonces
  <2>2. buys \in BOOLEAN
    BY DEF BuysA
  <2> HIDE DEF buys
  <2>3. Broadcast[nonce, buys, sig] = {Unsigned(nonce, Candidate(buys))}
    BY <2>1, <2>2, Zenon DEF WireFaithful
  <2> QED
    BY <2>3, Zenon
<1>4. tx.nonce = nonce
  BY DEF Unsigned
<1>5. sent' = sent \o SetToSeq(set)
  BY <1>1, Zenon
<1>6. /\ refused' = (refused \/ read = {})
      /\ \/ at' = "polling" /\ nonce' = nonce + 1
         \/ at' = "down" /\ nonce' = nonce
  BY <1>1, Zenon
<1> HIDE DEF read, tx
<1>7. set = {new}
  BY <1>3, <1>4
<1> HIDE DEF set
<1>8. refused' = FALSE
  BY <1>2, <1>3, <1>6
<1>9. new \in Tx
  BY <1>2 DEF Tx
<1>10. new.nonce = base + n /\ new.as_simulated /\ new.receipt = {}
  BY <1>2
<1> HIDE DEF new
<1>11. sent' = Append(sent, new)
  <2>1. sent' = sent \o <<new>>
    BY <1>5, <1>7, SingletonToSeq
  <2> QED
    BY <1>2, <1>9, <2>1, AppendIsConcat
<1>12. /\ sent' \in Seq(Tx) /\ Len(sent') = n + 1
       /\ sent'[n + 1] = new
       /\ \A i \in 1..n : sent'[i] = sent[i]
  BY <1>2, <1>9, <1>11
<1>13. UNCHANGED <<fork, calls_so_far, history, inject_drift, base>>
  BY Zenon DEF SubmitTx
<1>14. Typed'
  BY <1>2, <1>6, <1>8, <1>12, <1>13 DEF ToyInv, Typed, Places
<1>15. SentInv'
  <2> SUFFICES ASSUME NEW i \in 1..n + 1
               PROVE  /\ sent'[i].nonce = base + i - 1
                      /\ sent'[i].as_simulated
                      /\ sent'[i].receipt = {} \/ \E r \in Receipts : sent'[i].receipt = {r}
    BY <1>12, <1>13 DEF SentInv
  <2>1. CASE i = n + 1
    BY <1>2, <1>10, <1>12, <2>1
  <2>2. CASE i # n + 1
    <3>1. i \in 1..n
      BY <1>2, <2>2
    <3> QED
      BY <1>12, <3>1 DEF ToyInv, SentInv
  <2> QED
    BY <2>1, <2>2
<1>16. LoopInv'
  <2>1. calls_so_far <= n /\ calls_so_far \in Nat
    BY DEF ToyInv, LoopInv, Typed
  <2>2. base' = base /\ calls_so_far' = calls_so_far /\ Len(sent') = n + 1
    BY <1>12, <1>13
  <2>3. CASE at' = "polling" /\ nonce' = nonce + 1
    BY <1>2, <2>1, <2>2, <2>3 DEF LoopInv
  <2>4. CASE at' = "down" /\ nonce' = nonce
    BY <1>2, <2>1, <2>2, <2>4 DEF LoopInv, Running
  <2> QED
    BY <1>6, <2>3, <2>4
<1>17. HaltInv'
  BY <1>2, <1>13 DEF ToyInv, HaltInv, Running, Places
<1> QED
  BY <1>14, <1>15, <1>16, <1>17 DEF ToyInv

\* A poll that books its result and changes nothing else of the account.
LEMMA ToyBooked ==
    ASSUME ToyInv, at = "polling",
           UNCHANGED <<fork, nonce, sent, refused, inject_drift, base>>,
           calls_so_far' \in {calls_so_far, calls_so_far + 1},
           at' \in {"halted", "sleeping"},
           DOMAIN history' = Collections,
           at' = "sleeping" => ~Halts(halt_policy, history')
    PROVE  ToyInv'
<1>1. Len(sent) \in Nat /\ base \in Nat /\ calls_so_far \in Nat
  BY NoncesAssumption DEF ToyInv, Typed
<1>2. Typed'
  BY <1>1 DEF ToyInv, Typed, Places
<1>3. SentInv'
  BY DEF ToyInv, SentInv
<1>4. LoopInv'
  <2>1. nonce = base + Len(sent) /\ calls_so_far < Len(sent)
    BY DEF ToyInv, LoopInv, Running, Places
  <2>2. calls_so_far' <= Len(sent)
    BY <1>1, <2>1
  <2>3. nonce' = nonce /\ base' = base /\ sent' = sent
    OBVIOUS
  <2>4. nonce' <= base' + Len(sent')
    BY <1>1, <2>1, <2>3
  <2> QED
    BY <2>1, <2>2, <2>3, <2>4 DEF LoopInv
<1>5. HaltInv'
  BY DEF HaltInv, Running
<1> QED
  BY <1>2, <1>3, <1>4, <1>5 DEF ToyInv

\* Booking a confirmed trade keeps the invariant.
LEMMA ToyRealized ==
    ASSUME ToyInv, PollRealized
    PROVE  ToyInv'
<1>1. at = "polling" /\ calls_so_far' = calls_so_far + 1
  BY DEF PollRealized
<1>2. at' = IF Halts(halt_policy, history') THEN "halted" ELSE "sleeping"
  BY DEF PollRealized
<1>3. UNCHANGED <<fork, nonce, sent, refused, inject_drift, base>>
  BY DEF PollRealized
<1>4. PICK predicted, realized : history' = append(history, predicted, realized)
  BY Zenon DEF PollRealized
<1>5. DOMAIN history' = Collections
  BY <1>4, AppendShape DEF ToyInv, HaltInv
<1> QED
  BY <1>1, <1>2, <1>3, <1>5, ToyBooked

\* Booking a reverted trade keeps the invariant.
LEMMA ToyReverted ==
    ASSUME ToyInv, PollReverted
    PROVE  ToyInv'
<1>1. at = "polling" /\ at' = "sleeping" /\ calls_so_far' = calls_so_far
  BY DEF PollReverted
<1>2. UNCHANGED <<fork, nonce, sent, refused, inject_drift, base>>
  BY DEF PollReverted
<1>3. history' = record_revert(history, newest.nonce)
  BY DEF PollReverted
<1>4. DOMAIN history = Collections /\ ~Halts(halt_policy, history)
  BY <1>1 DEF ToyInv, HaltInv, Running, Places
<1>5. DOMAIN history' = Collections /\ ~Halts(halt_policy, history')
  BY <1>3, <1>4, RevertDecidesNothing
<1> QED
  BY <1>1, <1>2, <1>5, ToyBooked

\* The chain gives a transaction that has no receipt one.
LEMMA ToyMine ==
    ASSUME ToyInv, NEW i \in DOMAIN sent, NEW receipt \in Receipts,
           Mine(i, receipt)
    PROVE  ToyInv'
<1> DEFINE mined == [sent[i] EXCEPT !.receipt = {receipt}]
<1>1. sent' = [sent EXCEPT ![i] = mined]
  BY DEF Mine
<1>2. sent \in Seq(Tx) /\ sent[i] \in Tx
  BY DEF ToyInv, Typed
<1>3. /\ mined \in Tx /\ mined.nonce = sent[i].nonce
      /\ mined.as_simulated = sent[i].as_simulated /\ mined.receipt = {receipt}
  BY <1>2 DEF Tx
<1> HIDE DEF mined
<1>4. /\ sent' \in Seq(Tx) /\ Len(sent') = Len(sent) /\ sent'[i] = mined
      /\ \A j \in 1..Len(sent) : j # i => sent'[j] = sent[j]
  BY <1>1, <1>2, <1>3
<1>5. UNCHANGED <<at, fork, nonce, calls_so_far, history, refused,
                  inject_drift, base>>
  BY DEF Mine
<1>6. Typed'
  BY <1>4, <1>5 DEF ToyInv, Typed
<1>7. SentInv'
  <2> SUFFICES ASSUME NEW j \in 1..Len(sent)
               PROVE  /\ sent'[j].nonce = base + j - 1
                      /\ sent'[j].as_simulated
                      /\ \/ sent'[j].receipt = {}
                         \/ \E r \in Receipts : sent'[j].receipt = {r}
    BY <1>4, <1>5 DEF SentInv
  <2>1. CASE j = i
    BY <1>3, <1>4, <2>1 DEF ToyInv, SentInv
  <2>2. CASE j # i
    BY <1>4, <2>2 DEF ToyInv, SentInv
  <2> QED
    BY <2>1, <2>2
<1>8. LoopInv'
  BY <1>4, <1>5 DEF ToyInv, LoopInv
<1>9. HaltInv'
  BY <1>5 DEF ToyInv, HaltInv
<1> QED
  BY <1>6, <1>7, <1>8, <1>9 DEF ToyInv

\* Every step keeps the invariant.
LEMMA ToyStep ==
    ASSUME WireFaithful, ToyInv, [Next]_vars
    PROVE  ToyInv'
<1>1. CASE ReadPools
  <2>1. PICK place \in {"down", "simulating", "sleeping"} : Goto(place)
    BY <1>1, Zenon DEF ReadPools
  <2>2. at \in Running
    BY <1>1, Zenon DEF ReadPools, Running, Places
  <2> QED
    BY <2>1, <2>2, ToyGoto DEF Places
<1>2. CASE SimulateTrade
  <2> DEFINE place == IF \E predicted \in decode_predicted(convert_result(fork.trade)) :
                             predicted > 0
                      THEN "submitting" ELSE "sleeping"
  <2>1. Goto(place)
    BY <1>2, Zenon DEF SimulateTrade
  <2>2. place = "submitting" => fork.trade.kind = "Success"
    BY OnlySuccessIsDecoded DEF ToyInv, Typed
  <2>3. at \in Running
    BY <1>2, Zenon DEF SimulateTrade, Running, Places
  <2>4. place \in {"submitting", "sleeping"}
    OBVIOUS
  <2> HIDE DEF place
  <2> QED
    BY <2>1, <2>2, <2>3, <2>4, ToyGoto DEF Places
<1>3. CASE PollDecodeFailed \/ PollTimedOut
  <2>1. at = "polling" /\ Goto("sleeping")
    BY <1>3, Zenon DEF PollDecodeFailed, PollTimedOut
  <2> QED
    BY <2>1, ToyGoto DEF Places, Running
<1>4. CASE WakeUp
  BY <1>4, ToyGoto DEF WakeUp, Places, Running
<1>5. CASE Fail
  BY <1>5, ToyGoto DEF Fail, Places, Running
<1>6. CASE Start
  BY <1>6, ToyStart
<1>7. CASE SubmitTx
  BY <1>7, ToySubmit
<1>8. CASE PollRealized
  BY <1>8, ToyRealized
<1>9. CASE PollReverted
  BY <1>9, ToyReverted
<1>10. CASE \E i \in DOMAIN sent, receipt \in Receipts : Mine(i, receipt)
  BY <1>10, ToyMine
<1>11. CASE UNCHANGED vars
  <2>1. UNCHANGED <<at, fork, nonce, calls_so_far, history, sent, refused,
                    inject_drift, base>>
    BY <1>11 DEF vars
  <2>2. Typed' /\ SentInv'
    BY <2>1 DEF ToyInv, Typed, SentInv
  <2>3. LoopInv' /\ HaltInv'
    BY <2>1 DEF ToyInv, LoopInv, HaltInv
  <2> QED
    BY <2>2, <2>3 DEF ToyInv
<1> QED
  BY <1>1, <1>2, <1>3, <1>4, <1>5, <1>6, <1>7, <1>8, <1>9, <1>10, <1>11, Zenon
     DEF Next, LoopStep

\* Every reachable state satisfies the invariant.
LEMMA ToyInvariant ==
    ASSUME WireFaithful
    PROVE  Spec => []ToyInv
<1>1. Init => ToyInv
  BY ToyInit
<1>2. ToyInv /\ [Next]_vars => ToyInv'
  BY ToyStep
<1> QED
  BY <1>1, <1>2, PTL DEF Spec

-----------------------------------------------------------------------------
(* Theorems *)

\* Whatever fails and restarts, the loop's nonce and call counter stay within
\* what the account has sent, and no transaction has two receipts.
THEOREM ToyTypeCorrect ==
    ASSUME WireFaithful
    PROVE  Spec => []TypeOK
<1>1. ToyInv => TypeOK
  <2> SUFFICES ASSUME ToyInv
               PROVE  TypeOK
    OBVIOUS
  <2>1. Len(sent) \in Nat /\ base \in Nat /\ MaxTrades \in Nat /\ nonce \in Nat
        /\ calls_so_far \in Nat /\ Len(sent) <= MaxTrades
    BY NoncesAssumption, TradesAssumption DEF ToyInv, Typed
  <2>2. nonce \in 0..base + MaxTrades /\ calls_so_far \in 0..MaxTrades
    BY <2>1 DEF ToyInv, LoopInv
  <2>3. ASSUME NEW i \in DOMAIN sent
        PROVE  /\ sent[i].nonce \in Nat
               /\ sent[i].as_simulated \in BOOLEAN
               /\ sent[i].receipt \subseteq Receipts
               /\ Cardinality(sent[i].receipt) <= 1
    <3>1. sent[i] \in Tx /\ i \in 1..Len(sent)
      BY DEF ToyInv, Typed
    <3>2. Cardinality(sent[i].receipt) <= 1
      <4>1. CASE sent[i].receipt = {}
        BY <4>1, FS_EmptySet
      <4>2. ASSUME NEW r, sent[i].receipt = {r}
            PROVE  Cardinality(sent[i].receipt) <= 1
        BY <4>2, FS_Singleton
      <4> QED
        BY <3>1, <4>1, <4>2 DEF ToyInv, SentInv
    <3> QED
      BY <3>1, <3>2 DEF Tx
  <2> QED
    BY <2>1, <2>2, <2>3 DEF ToyInv, Typed, TypeOK, Places
<1> QED
  BY <1>1, ToyInvariant, PTL

\* The loop never reaches a submission with a history its policy would stop
\* at, although it asks the policy only after a realized poll.
THEOREM NeverTradesTripped ==
    ASSUME WireFaithful
    PROVE  Spec => []NoTradeWhileTripped
<1>1. ToyInv => NoTradeWhileTripped
  BY DEF ToyInv, HaltInv, NoTradeWhileTripped, Running, Places
<1> QED
  BY <1>1, ToyInvariant, PTL

\* Over any restarts and lost answers, submit uses the first unused nonce and
\* the account's transactions have consecutive ones.
THEOREM NoncesAreConsecutive ==
    ASSUME WireFaithful
    PROVE  Spec => []NonceIsNext
<1>1. ToyInv => NonceIsNext
  <2> SUFFICES ASSUME ToyInv
               PROVE  NonceIsNext
    OBVIOUS
  <2>1. DOMAIN sent = 1..Len(sent)
    BY DEF ToyInv, Typed
  <2>2. at = "submitting" => nonce = base + Len(sent)
    BY DEF ToyInv, LoopInv, Running, Places
  <2> QED
    BY <2>1, <2>2 DEF ToyInv, SentInv, NonceIsNext
<1> QED
  BY <1>1, ToyInvariant, PTL

-----------------------------------------------------------------------------
(* The drift schedule *)

\* The two thresholds and windows of the loop's policy.
FastT == halt_policy.fast.threshold
SlowT == halt_policy.slow.threshold
FastN == halt_policy.fast.window
SlowN == halt_policy.slow.window

Scheduled == DriftAfter + FastN

\* The pairs a process books: healthy ones, and from the one after
\* DriftAfter on damped ones if drift is injected.
Booked(s, inject) ==
    /\ s \in Seq(Int \X Int)
    /\ \A i \in 1..Len(s) :
           /\ s[i][1] > 0
           /\ ~inject \/ i <= DriftAfter =>
                  /\ ~Less(Ratio(s[i]), FastT)
                  /\ SteadyMarket => ~Less(Ratio(s[i]), SlowT)
           /\ inject /\ i > DriftAfter => Less(Ratio(s[i]), FastT)

\* The numbers of the default policy.
LEMMA PolicyNumbers ==
    /\ FastN = 3 /\ SlowN = 20
    /\ FastT \in Fraction /\ SlowT \in Fraction
  BY DEF FastN, SlowN, FastT, SlowT, Fraction, halt_policy, default_dual_guard

\* Of such pairs, the fast guard trips exactly when its window has filled
\* with damped ones.
LEMMA FastOnSchedule ==
    ASSUME NEW h, NEW s, s = h.pairs, NEW inject \in BOOLEAN, Booked(s, inject)
    PROVE  FastHalt(halt_policy, h) <=> inject /\ Len(s) >= Scheduled
<1> DEFINE n == Len(s)
           r == recent_ratios(h, FastN)
           len == IF n >= 3 THEN 3 ELSE n
<1>1. s \in Seq(Int \X Int) /\ n \in Nat /\ DriftAfter \in Nat
  BY TradesAssumption DEF Booked
<1>2. FastN = 3 /\ Scheduled = DriftAfter + 3
  BY PolicyNumbers DEF Scheduled
<1>3. PositivePairs(h) = s
  BY <1>1, AllUsable DEF Booked
<1>4. /\ Len(r) = len /\ DOMAIN r = 1..len
      /\ \A i \in 1..len : r[i] = Ratio(s[n - len + i])
  <2>1. FastN \in Nat
    BY <1>2
  <2>2. RatiosOf(r, s, FastN)
    BY <1>1, <1>3, <2>1, UsableRatios
  <2> HIDE DEF r
  <2> QED
    BY <1>2, <2>2 DEF RatiosOf
<1>5. FastHalt(halt_policy, h) <=> Len(r) = 3 /\ \A i \in DOMAIN r : Less(r[i], FastT)
  BY <1>2 DEF FastHalt, FastN, FastT
<1>6. /\ \A i \in 1..n : ~inject \/ i <= DriftAfter => ~Less(Ratio(s[i]), FastT)
      /\ \A i \in 1..n : inject /\ i > DriftAfter => Less(Ratio(s[i]), FastT)
  BY DEF Booked
<1> HIDE DEF r, n
<1>7. ASSUME FastHalt(halt_policy, h)
      PROVE  inject /\ n >= DriftAfter + 3
  <2>1. n >= 3 /\ len = 3
    BY <1>1, <1>4, <1>5, <1>7
  <2>2. Less(Ratio(s[n - 2]), FastT)
    <3>1. 1 \in 1..len /\ n - len + 1 = n - 2
      BY <1>1, <2>1
    <3> QED
      BY <1>4, <1>5, <1>7, <3>1
  <2>3. n - 2 \in 1..n
    BY <1>1, <2>1
  <2>4. inject /\ ~(n - 2 <= DriftAfter)
    BY <1>6, <2>2, <2>3
  <2> QED
    BY <1>1, <2>4
<1>8. ASSUME inject, n >= DriftAfter + 3
      PROVE  FastHalt(halt_policy, h)
  <2>1. n >= 3 /\ len = 3
    BY <1>1, <1>8
  <2>2. ASSUME NEW i \in 1..3 PROVE Less(r[i], FastT)
    <3>1. n - 3 + i \in 1..n /\ n - 3 + i > DriftAfter
      BY <1>1, <1>8
    <3>2. r[i] = Ratio(s[n - 3 + i])
      BY <1>4, <2>1
    <3> QED
      BY <1>6, <1>8, <3>1, <3>2
  <2> QED
    BY <1>4, <1>5, <2>1, <2>2
<1> QED
  BY <1>2, <1>7, <1>8 DEF n

\* And the slow guard does not trip.
LEMMA SlowStaysOut ==
    ASSUME SlowKeepsOut, NEW h, NEW s, s = h.pairs, NEW inject \in BOOLEAN,
           Booked(s, inject), Len(s) <= MaxTrades,
           inject => Len(s) <= Scheduled
    PROVE  ~SlowHalt(halt_policy, h)
<1> DEFINE n == Len(s)
           r == recent_ratios(h, SlowN)
           len == IF n >= 20 THEN 20 ELSE n
<1>1. /\ s \in Seq(Int \X Int) /\ n \in Nat /\ DriftAfter \in Nat /\ MaxTrades \in Nat
      /\ h.pairs \in Seq(Int \X Int)
  BY TradesAssumption DEF Booked
<1>2. SlowN = 20 /\ SlowT \in Fraction /\ FastN = 3 /\ Scheduled \in Nat
  BY <1>1, PolicyNumbers DEF Scheduled
<1>3. PositivePairs(h) = s
  BY <1>1, AllUsable DEF Booked
<1>4. /\ Len(r) = len /\ DOMAIN r = 1..len
      /\ \A i \in 1..len : r[i] = Ratio(s[n - len + i])
  <2>1. SlowN \in Nat
    BY <1>2
  <2>2. RatiosOf(r, s, SlowN)
    BY <1>1, <1>3, <2>1, UsableRatios
  <2> HIDE DEF r
  <2> QED
    BY <1>2, <2>2 DEF RatiosOf
<1>5. SlowHalt(halt_policy, h) => Len(r) = 20
  BY <1>2 DEF SlowHalt, SlowN
<1> SUFFICES ASSUME SlowHalt(halt_policy, h)
             PROVE  FALSE
  OBVIOUS
<1> HIDE DEF r, n
<1>6. n >= 20 /\ len = 20
  BY <1>1, <1>4, <1>5
<1>7. SteadyMarket /\ ~inject
  BY <1>1, <1>2, <1>6 DEF SlowKeepsOut, n, Scheduled, FastN, SlowN
<1>8. \E i \in 1..Len(r) : Less(r[i], SlowT)
  <2>1. /\ halt_policy.slow.window \in Nat \ {0}
        /\ halt_policy.slow.threshold \in Fraction
    BY <1>2 DEF SlowN, SlowT
  <2>2. \E i \in 1..Len(r) : Less(r[i], halt_policy.slow.threshold)
    <3>1. r = recent_ratios(h, halt_policy.slow.window)
      BY DEF SlowN, r
    <3> QED
      BY <1>1, <2>1, <3>1, SlowNeedsALowRatio
  <2> QED
    BY <2>2 DEF SlowT
<1>9. PICK i \in 1..20 : Less(r[i], SlowT)
  BY <1>4, <1>6, <1>8
<1>10. n - 20 + i \in 1..n /\ r[i] = Ratio(s[n - 20 + i])
  <2>1. n - 20 + i \in 1..n
    BY <1>1, <1>6
  <2>2. \A k \in 1..20 : r[k] = Ratio(s[n - 20 + k])
    BY <1>4, <1>6
  <2> QED
    BY <2>1, <2>2
<1>11. ~Less(Ratio(s[n - 20 + i]), SlowT)
  BY <1>7, <1>10 DEF Booked, n
<1> QED
  BY <1>9, <1>10, <1>11

\* A traded prediction is what the pinned fork returns.
Predicts(f) == \E predicted \in decode_predicted(convert_result(f.trade)) : predicted > 0

\* The inductive invariant of the schedule.
ScheduleInv ==
    /\ Booked(history.pairs, inject_drift)
    /\ calls_so_far = Len(history.pairs)
    /\ at \in {"submitting", "polling"} => Predicts(fork)
    /\ at = "halted" <=> inject_drift /\ Len(history.pairs) = Scheduled
    /\ inject_drift => Len(history.pairs) <= Scheduled
    /\ at = "halted" => evaluate(halt_policy, history) = "FastGuard"

\* The decoder finds at most one prediction.
LEMMA OnePrediction ==
    ASSUME NEW raw, NEW x, NEW y, x \in decode_predicted(raw), y \in decode_predicted(raw)
    PROVE  x = y
<1> DEFINE word == decode_u256_word(raw.return_data, 0)
<1>1. \A v, w \in word : v = w
  BY DEF decode_u256_word
<1>2. x \in {I128(w) : w \in word} /\ y \in {I128(w) : w \in word}
  BY DEF decode_predicted
<1> HIDE DEF word
<1> QED
  BY <1>1, <1>2

\* A new process, or one that has booked nothing.
LEMMA NothingBooked ==
    ASSUME NEW inject
    PROVE  Booked(<<>>, inject) /\ Len(<<>>) = 0 /\ NewHistory.pairs = <<>>
  BY DEF Booked, NewHistory

\* The halt is scheduled for the third drifting trade.
LEMMA ScheduledPositive == Scheduled \in Nat /\ Scheduled > 0 /\ Scheduled = DriftAfter + 3
  BY PolicyNumbers, TradesAssumption DEF Scheduled

\* A run starts on schedule.
LEMMA ScheduleStart ==
    ASSUME at' \in {"down", "reading"}, calls_so_far' = 0, history' = NewHistory
    PROVE  ScheduleInv'
<1>1. history'.pairs = <<>> /\ Len(history'.pairs) = 0
  BY NothingBooked
<1>2. Booked(history'.pairs, inject_drift')
  BY <1>1, NothingBooked
<1> QED
  BY <1>1, <1>2, ScheduledPositive DEF ScheduleInv

\* A step that books no pair and does not halt.
LEMMA ScheduleFrame ==
    ASSUME ScheduleInv, calls_so_far' = calls_so_far, inject_drift' = inject_drift,
           history'.pairs = history.pairs, at # "halted", at' # "halted",
           at' \in {"submitting", "polling"} => Predicts(fork')
    PROVE  ScheduleInv'
<1>1. Booked(history'.pairs, inject_drift')
  BY DEF ScheduleInv
<1> QED
  BY <1>1 DEF ScheduleInv

\* The pair that a realized poll books.
LEMMA BookedPair ==
    ASSUME HealthyMarket, ToyInv, ScheduleInv, PollRealized
    PROVE  \E p \in Int \X Int :
               /\ history' = append(history, p[1], p[2])
               /\ Booked(Append(history.pairs, p), inject_drift)
<1>1. PICK receipt \in get_receipt(newest) :
          \E predicted \in decode_predicted(convert_result(fork.trade)),
             realized \in decode_realized(receipt) :
                 history' = append(history, predicted, realized)
  BY Zenon DEF PollRealized
<1>2. PICK predicted \in decode_predicted(convert_result(fork.trade)),
           realized \in decode_realized(receipt) :
               history' = append(history, predicted, realized)
  BY <1>1
<1>3. at = "polling"
  BY DEF PollRealized
<1>4. predicted \in Traded
  <2>1. PICK x \in decode_predicted(convert_result(fork.trade)) : x > 0
    BY <1>3 DEF ScheduleInv, Predicts
  <2>2. predicted = x
    BY <1>2, <2>1, OnePrediction
  <2>3. fork \in Forks
    BY DEF ToyInv, Typed
  <2> QED
    BY <1>2, <2>1, <2>2, <2>3 DEF Traded
<1>5. receipt \in get_receipt([receipt |-> Receipts])
  <2>1. newest.receipt \subseteq Receipts
    <3> DEFINE n == Len(sent)
    <3>1. n \in Nat /\ n > 0 /\ sent \in Seq(Tx)
      BY <1>3 DEF ToyInv, Typed, LoopInv
    <3>2. sent[n] \in Tx
      BY <3>1
    <3> QED
      BY <3>2 DEF newest, Tx
  <2> DEFINE made(r) ==
        [status |-> IF r.status = 1 THEN "Confirmed" ELSE "Reverted",
         gas_cost |-> U128(r.gas_used
                           * (IF r.gas_price = {} THEN 0 ELSE Max(r.gas_price))),
         logs |-> r.logs]
  <2>2. get_receipt(newest) = {made(r) : r \in newest.receipt}
    BY Zenon DEF get_receipt
  <2>3. get_receipt([receipt |-> Receipts]) = {made(r) : r \in Receipts}
    BY DEF get_receipt
  <2> HIDE DEF made
  <2> QED
    BY <1>1, <2>1, <2>2, <2>3
<1>6. PICK net \in Outcomes :
          realized = IF ~inject_drift \/ calls_so_far < DriftAfter THEN net
                     ELSE Dampened(net)
  <2>1. PICK net \in ToyArbRealized(receipt) :
            realized = IF ~inject_drift \/ calls_so_far < DriftAfter THEN net
                       ELSE Dampened(net)
    BY <1>2 DEF decode_realized
  <2>2. net \in Outcomes
    BY <1>5, <2>1 DEF Outcomes
  <2> QED
    BY <2>1, <2>2
<1> DEFINE s == history.pairs
           n == Len(s)
           p == <<predicted, realized>>
           u == Append(s, p)
<1>7. /\ predicted \in Int /\ net \in Int /\ Dampened(net) \in Int
      /\ ~Less(<<net, predicted>>, FastT)
      /\ Less(<<Dampened(net), predicted>>, FastT)
      /\ SteadyMarket => ~Less(<<net, predicted>>, SlowT)
      /\ predicted > 0
  BY <1>4, <1>6 DEF HealthyMarket, SteadyMarket, Traded, FastT, SlowT
<1>8. p \in Int \X Int /\ p[1] = predicted /\ p[2] = realized
  BY <1>6, <1>7
<1>9. Ratio(p) = <<realized, predicted>>
  BY DEF Ratio
<1>10. /\ s \in Seq(Int \X Int) /\ n \in Nat /\ calls_so_far = n
       /\ inject_drift \in BOOLEAN /\ DriftAfter \in Nat
  BY TradesAssumption DEF ScheduleInv, Booked, ToyInv, Typed
<1> HIDE DEF p
<1>11. /\ u \in Seq(Int \X Int) /\ Len(u) = n + 1 /\ u[n + 1] = p
       /\ \A i \in 1..n : u[i] = s[i]
  BY <1>8, <1>10
<1>12. Booked(s, inject_drift)
  BY DEF ScheduleInv
<1> HIDE DEF s, n, u
<1>13. Booked(u, inject_drift)
  <2> SUFFICES ASSUME NEW i \in 1..n + 1
               PROVE  /\ u[i][1] > 0
                      /\ ~inject_drift \/ i <= DriftAfter =>
                             /\ ~Less(Ratio(u[i]), FastT)
                             /\ SteadyMarket => ~Less(Ratio(u[i]), SlowT)
                      /\ inject_drift /\ i > DriftAfter => Less(Ratio(u[i]), FastT)
    BY <1>11 DEF Booked
  <2>1. CASE i = n + 1
    <3>1. u[i] = p /\ u[i][1] > 0
      BY <1>7, <1>8, <1>11, <2>1
    <3>2. ASSUME ~inject_drift \/ i <= DriftAfter
          PROVE  Ratio(p) = <<net, predicted>>
      <4>1. ~inject_drift \/ calls_so_far < DriftAfter
        BY <1>10, <2>1, <3>2
      <4> QED
        BY <1>6, <1>9, <4>1
    <3>3. ASSUME inject_drift, i > DriftAfter
          PROVE  Ratio(p) = <<Dampened(net), predicted>>
      <4>1. ~(~inject_drift \/ calls_so_far < DriftAfter)
        BY <1>10, <2>1, <3>3
      <4> QED
        BY <1>6, <1>9, <4>1
    <3> QED
      BY <1>7, <3>1, <3>2, <3>3
  <2>2. CASE i # n + 1
    <3>1. i \in 1..n
      BY <1>10, <2>2
    <3>2. u[i] = s[i]
      BY <1>11, <3>1
    <3> QED
      BY <1>12, <3>1, <3>2 DEF Booked, n
  <2> QED
    BY <2>1, <2>2
<1>14. history' = append(history, p[1], p[2])
  BY <1>2, <1>8
<1> QED
  BY <1>8, <1>13, <1>14 DEF u, s

\* After it, the policy stops the process exactly when it is due.
LEMMA ScheduleRealized ==
    ASSUME HealthyMarket, SlowKeepsOut, ToyInv, ScheduleInv, PollRealized
    PROVE  ScheduleInv'
<1>1. PICK p \in Int \X Int : /\ history' = append(history, p[1], p[2])
                              /\ Booked(Append(history.pairs, p), inject_drift)
  BY BookedPair
<1> DEFINE s == history.pairs
           n == Len(s)
           u == history'.pairs
           h == history'
           inject == inject_drift
<1>2. u = Append(s, p)
  <2>1. p = <<p[1], p[2]>>
    BY <1>1
  <2>2. DOMAIN history = Collections
    BY DEF ToyInv, HaltInv
  <2>3. history'.pairs = Append(history.pairs, <<p[1], p[2]>>)
    BY <1>1, <2>2, AppendShape
  <2> QED
    BY <2>1, <2>3
<1>3. /\ at = "polling" /\ calls_so_far' = calls_so_far + 1 /\ inject_drift' = inject
      /\ at' = IF Halts(halt_policy, h) THEN "halted" ELSE "sleeping"
  BY DEF PollRealized
<1>4. /\ s \in Seq(Int \X Int) /\ n \in Nat /\ calls_so_far = n /\ inject \in BOOLEAN
      /\ inject => n <= Scheduled /\ n # Scheduled
  BY <1>3 DEF ScheduleInv, Booked, ToyInv, Typed
<1>5. Len(u) = n + 1
  BY <1>1, <1>2, <1>4
<1>6. n + 1 <= MaxTrades
  <2>1. calls_so_far < Len(sent) /\ Len(sent) <= MaxTrades /\ Len(sent) \in Nat
    BY <1>3 DEF ToyInv, LoopInv, Typed
  <2> QED
    BY <1>4, <2>1, TradesAssumption
<1>7. inject => n + 1 <= Scheduled
  BY <1>4, ScheduledPositive
<1>8. Booked(u, inject)
  BY <1>1, <1>2
<1> HIDE DEF s, n, u, h, inject
<1>9. u = h.pairs
  BY DEF u, h
<1>10. FastHalt(halt_policy, h) <=> inject /\ n + 1 >= Scheduled
  BY <1>4, <1>5, <1>8, <1>9, FastOnSchedule
<1>11. ~SlowHalt(halt_policy, h)
  <2>1. Len(u) <= MaxTrades /\ (inject => Len(u) <= Scheduled) /\ inject \in BOOLEAN
    BY <1>4, <1>5, <1>6, <1>7
  <2> QED
    BY <1>8, <1>9, <2>1, SlowStaysOut
<1>12. Halts(halt_policy, h) <=> FastHalt(halt_policy, h)
  <2>1. ~RevertBurstHalt(halt_policy, h)
    BY LoopPolicy DEF RevertBurstHalt
  <2> QED
    BY <1>11, <2>1, LoopPolicy, ThreeGuards
<1>13. at' = "halted" <=> inject /\ n + 1 = Scheduled
  BY <1>3, <1>4, <1>7, <1>10, <1>12, ScheduledPositive
<1>14. at' = "halted" => evaluate(halt_policy, h) = "FastGuard"
  BY <1>3, <1>12, LoopPolicy, FastIsTheReason
<1>15. at' \notin {"submitting", "polling"}
  BY <1>3
<1>16. calls_so_far' = n + 1
  BY <1>3, <1>4
<1> QED
  BY <1>3, <1>5, <1>7, <1>8, <1>13, <1>14, <1>15, <1>16
     DEF ScheduleInv, u, h, inject

\* Every step keeps the run on schedule.
LEMMA ScheduleStep ==
    ASSUME HealthyMarket, SlowKeepsOut, ToyInv, ScheduleInv, [Next]_vars
    PROVE  ScheduleInv'
\* Moves that leave the pairs, to a place that is not a halt.
<1> DEFINE Moves(place) == /\ at # "halted" /\ at' = place
                           /\ UNCHANGED <<fork, calls_so_far, history, inject_drift>>
<1>1. ASSUME NEW place, Moves(place), place # "halted",
             place \in {"submitting", "polling"} => Predicts(fork)
      PROVE  ScheduleInv'
  <2>1. /\ calls_so_far' = calls_so_far /\ inject_drift' = inject_drift
        /\ history'.pairs = history.pairs /\ at # "halted" /\ at' = place
        /\ fork' = fork
    BY <1>1
  <2>2. Predicts(fork') <=> Predicts(fork)
    BY <2>1
  <2> QED
    BY <1>1, <2>1, <2>2, ScheduleFrame
<1>2. CASE ReadPools
  <2>1. PICK place \in {"down", "simulating", "sleeping"} : Goto(place)
    BY <1>2, Zenon DEF ReadPools
  <2>2. Moves(place)
    BY <1>2, <2>1, Zenon DEF ReadPools, Goto
  <2> QED
    BY <1>1, <2>1, <2>2
<1>3. CASE SimulateTrade
  <2> DEFINE place == IF Predicts(fork) THEN "submitting" ELSE "sleeping"
  <2>1. Goto(place)
    BY <1>3, Zenon DEF SimulateTrade, Predicts
  <2>2. place # "halted" /\ (place \in {"submitting", "polling"} => Predicts(fork))
    OBVIOUS
  <2> HIDE DEF place
  <2>3. Moves(place)
    BY <1>3, <2>1, Zenon DEF SimulateTrade, Goto
  <2> QED
    BY <1>1, <2>2, <2>3
<1>4. CASE PollDecodeFailed \/ PollTimedOut \/ WakeUp \/ Fail
  <2>1. PICK place \in {"sleeping", "reading", "down"} : Goto(place)
    BY <1>4, Zenon DEF PollDecodeFailed, PollTimedOut, WakeUp, Fail
  <2>2. at # "halted"
    BY <1>4, Zenon DEF PollDecodeFailed, PollTimedOut, WakeUp, Fail
  <2>3. Moves(place)
    BY <2>1, <2>2, Zenon DEF Goto
  <2> QED
    BY <1>1, <2>1, <2>3
<1>5. CASE SubmitTx
  <2>1. /\ at = "submitting" /\ at' \in {"polling", "down"}
        /\ UNCHANGED <<fork, calls_so_far, history, inject_drift>>
    BY <1>5, Zenon DEF SubmitTx
  <2>2. Predicts(fork)
    BY <2>1 DEF ScheduleInv
  <2>3. PICK place : place \in {"polling", "down"} /\ at' = place
    BY <2>1
  <2>4. Moves(place)
    BY <2>1, <2>3
  <2> QED
    BY <1>1, <2>2, <2>3, <2>4
<1>6. CASE Start
  <2>1. at' = "reading" /\ calls_so_far' = 0 /\ history' = NewHistory
    BY <1>6 DEF Start
  <2> QED
    BY <2>1, ScheduleStart
<1>7. CASE PollRealized
  BY <1>7, ScheduleRealized
<1>8. CASE PollReverted
  <2>1. /\ at = "polling" /\ at' = "sleeping" /\ calls_so_far' = calls_so_far
        /\ inject_drift' = inject_drift
    BY <1>8 DEF PollReverted
  <2>2. history' = record_revert(history, newest.nonce)
    BY <1>8 DEF PollReverted
  <2>3. DOMAIN history = Collections
    BY DEF ToyInv, HaltInv
  <2>4. history'.pairs = history.pairs
    BY <2>2, <2>3, RevertDecidesNothing
  <2> QED
    BY <2>1, <2>4, ScheduleFrame
<1>9. CASE UNCHANGED <<at, fork, calls_so_far, history, inject_drift>>
  BY <1>9 DEF ScheduleInv
<1>10. CASE \E i \in DOMAIN sent, receipt \in Receipts : Mine(i, receipt)
  BY <1>9, <1>10, Zenon DEF Mine
<1>11. CASE UNCHANGED vars
  BY <1>9, <1>11, Zenon DEF vars
<1> QED
  BY <1>2, <1>3, <1>4, <1>5, <1>6, <1>7, <1>8, <1>10, <1>11, Zenon
     DEF Next, LoopStep

\* In a healthy market, for any number of restarts, reverts, time-outs and
\* decode failures, any DriftAfter and any damping that takes an outcome
\* below the fast threshold: --inject-drift halts the loop, by the fast
\* guard, exactly when FastN damped trades are booked, and without the flag
\* nothing does.  The slow guard has to keep out: with 20 trades at, say, 60 %
\* of the prediction it would stop even a market the fast guard accepts.
THEOREM DriftIsCaughtOnSchedule ==
    ASSUME WireFaithful, HealthyMarket, SlowKeepsOut
    PROVE  Spec => []DriftHaltsOnSchedule
<1>1. Init => ScheduleInv
  <2> SUFFICES ASSUME Init
               PROVE  ScheduleInv
    OBVIOUS
  <2>1. at = "down" /\ calls_so_far = 0 /\ history.pairs = <<>> /\ Len(history.pairs) = 0
    BY NothingBooked DEF Init
  <2>2. Booked(history.pairs, inject_drift)
    BY <2>1, NothingBooked
  <2> QED
    BY <2>1, <2>2, ScheduledPositive DEF ScheduleInv
<1>2. ToyInv /\ ScheduleInv /\ [Next]_vars => ScheduleInv'
  BY ScheduleStep
<1>3. ScheduleInv => DriftHaltsOnSchedule
  BY DEF ScheduleInv, DriftHaltsOnSchedule, Scheduled, FastN
<1>4. Spec => []ToyInv
  BY ToyInvariant
<1> QED
  BY <1>1, <1>2, <1>3, <1>4, PTL DEF Spec
=============================================================================
