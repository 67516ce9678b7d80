-------------------------- MODULE MCReceiptPoller ---------------------------
(* Small instances of ReceiptPoller for TLC. *)
EXTENDS ReceiptPoller

CONSTANTS t1, t2

TwoTxs == {t1, t2}
OneTx  == {t1}
=============================================================================
