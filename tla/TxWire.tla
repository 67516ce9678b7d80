------------------------------- MODULE TxWire -------------------------------
(***************************************************************************)
(* examples/toy-arbitrage/src/rlp.rs, and the signing half of rpc.rs: the  *)
(* bytes that submit broadcasts, and how a node reads them.                *)
(*                                                                         *)
(* A signature is [r, s, y_odd], with r and s below Order, the order of    *)
(* the curve; of what ECDSA computes only its symmetry matters here: with  *)
(* [r, s, y_odd] exactly [r, Order - s, ~y_odd] recovers the same key, and *)
(* from another hash neither does.  keccak256 is free of collisions, so a  *)
(* hash is told apart by what was hashed.  (A reduced x, is_x_reduced, has *)
(* probability 2^-127 and is left out.)                                    *)
(***************************************************************************)
EXTENDS Integers, Sequences, SequencesExt

CONSTANTS
    Order,       \* the order of the curve, odd
    ScalarBytes  \* the bytes of r and s: 32

ASSUME OrderAssumption ==
    ScalarBytes \in Nat \ {0} /\ Order \in 3..256^ScalarBytes - 1 /\ Order % 2 = 1

to_be_bytes(n, width) == [i \in 1..width |-> (n \div 256^(width - i)) % 256]

-----------------------------------------------------------------------------
(* rlp.rs.  An Item::Bytes is its bytes; the only list is flat. *)

\* Mutant: a zero keeps its last byte.
leading_zero_trim_KeepsZero(bytes) ==
    LET i == SelectInSeq(bytes, LAMBDA b : b # 0)
    IN  SubSeq(bytes, IF i = 0 THEN Len(bytes) ELSE i, Len(bytes))

leading_zero_trim(bytes) ==
    LET i == SelectInSeq(bytes, LAMBDA b : b # 0)
    IN  IF i = 0 THEN <<>> ELSE SubSeq(bytes, i, Len(bytes))

\* Four bytes hold every value here; the code starts from more, all zero.
uint(n) == leading_zero_trim(to_be_bytes(n, 4))

encode_length_header(len, offset) ==
    IF len < 56 THEN <<offset + len>>
    ELSE <<offset + 55 + Len(uint(len))>> \o uint(len)

encode_bytes(bytes) ==
    IF Len(bytes) = 1 /\ bytes[1] < 128 THEN bytes
    ELSE encode_length_header(Len(bytes), 128) \o bytes

encode(items) ==
    LET payload == FlattenSeq([i \in DOMAIN items |-> encode_bytes(items[i])])
    IN  encode_length_header(Len(payload), 192) \o payload

-----------------------------------------------------------------------------
(* rpc.rs *)

\* The fields that are signed and sent, in their order.
Fields(tx) ==
    <<uint(tx.nonce), uint(tx.gas_price), uint(tx.gas_limit), tx.to,
      uint(tx.value), tx.data>>

\* What is hashed for signing, per EIP-155.
signing_hash(tx) == encode(Fields(tx) \o <<uint(tx.chain_id), uint(0), uint(0)>>)

\* Low-S, with the parity that belongs to it.
sign_normalized(sig) ==
    IF 2 * sig.s > Order
    THEN [sig EXCEPT !.s = Order - @, !.y_odd = ~@] ELSE sig

signed_tx_rlp(tx, sig) ==
    encode(Fields(tx) \o
           <<uint(tx.chain_id * 2 + 35 + IF sig.y_odd THEN 1 ELSE 0),
             leading_zero_trim(to_be_bytes(sig.r, ScalarBytes)),
             leading_zero_trim(to_be_bytes(sig.s, ScalarBytes))>>)

-----------------------------------------------------------------------------
(* The node: a strict RLP decoder, and the checks of EIP-2 and EIP-155. *)

NatOf(bytes) ==
    LET n[i \in 0..Len(bytes)] == IF i = 0 THEN 0 ELSE n[i - 1] * 256 + bytes[i]
    IN  n[Len(bytes)]

\* The string or list whose header, with this offset, is at p: where its
\* payload begins and the byte after its end; {} if it is not canonical.
Span(b, p, offset) ==
    LET tag  == b[p] - offset
        size == NatOf(SubSeq(b, p + 1, p + tag - 55))
    IN  IF tag < 56 THEN {<<p + 1, p + 1 + tag>>}
        ELSE IF size >= 56 /\ b[p + 1] # 0
        THEN {<<p + tag - 54, p + tag - 54 + size>>} ELSE {}

\* The item at p and the position after it.
ItemAt(b, p) ==
    IF b[p] < 128 THEN {<<<<b[p]>>, p + 1>>}
    ELSE {<<SubSeq(b, span[1], span[2] - 1), span[2]>> :
             span \in {s \in Span(b, p, 128) :
                 /\ s[2] <= Len(b) + 1
                 /\ ~(s[2] = s[1] + 1 /\ b[s[1]] < 128)}}

\* The items of a list, {} if the bytes are not one canonical flat list.
Decode(b) ==
    LET from[p \in 1..Len(b) + 1] ==
            IF p = Len(b) + 1 THEN {<<>>}
            ELSE UNION {{<<item[1]>> \o rest : rest \in from[item[2]]} :
                           item \in ItemAt(b, p)}
    IN  UNION {from[span[1]] : span \in {s \in Span(b, 1, 192) :
                                            s[2] = Len(b) + 1}}

IsInteger(bytes) == bytes = <<>> \/ bytes[1] # 0

\* The transaction a node makes of the bytes, if it accepts them as signed,
\* for its chain, by the key that made `signature` of `hash`.  It hashes the
\* canonical list of what it read: the list whose decoding that is.
NodeReads(b, chain_id, signature, hash) ==
    LET sig(f)      == [r     |-> NatOf(f[8]), s |-> NatOf(f[9]),
                        y_odd |-> NatOf(f[7]) - 35 - 2 * chain_id = 1]
        key(sg)     == {sg, [sg EXCEPT !.s = Order - @, !.y_odd = ~@]}
        signs(f, g) == /\ SubSeq(g, 1, 6) = SubSeq(f, 1, 6)
                       /\ IsInteger(g[7]) /\ NatOf(g[7]) = chain_id
                       /\ SubSeq(g, 8, Len(g)) = <<<<>>, <<>>>>
        accepts(f)  == /\ Len(f) = 9
                       /\ \A i \in {1, 2, 3, 5, 7, 8, 9} : IsInteger(f[i])
                       /\ Len(f[4]) = 20
                       /\ NatOf(f[7]) - 35 - 2 * chain_id \in {0, 1}
                       /\ 2 * sig(f).s <= Order
                       /\ signature \in key(sig(f))
                       /\ \E g \in Decode(hash) : signs(f, g)
    IN  {[nonce |-> NatOf(f[1]), gas_price |-> NatOf(f[2]),
          gas_limit |-> NatOf(f[3]), to |-> f[4], value |-> NatOf(f[5]),
          data |-> f[6], chain_id |-> chain_id] :
            f \in {g \in Decode(b) : accepts(g)}}
=============================================================================
