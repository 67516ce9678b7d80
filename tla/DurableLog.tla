----------------------------- MODULE DurableLog -----------------------------
(***************************************************************************)
(* What driftbrake-journal promises its user (journal/src/lib.rs, module   *)
(* documentation): a log of entries that survives process restarts.        *)
(*                                                                         *)
(* An entry is first pending, then committed.  A restart keeps every       *)
(* committed entry except that compaction may have dropped the oldest      *)
(* ones, always keeping at least Retain of them; the one entry that was    *)
(* pending may turn out to be committed or to be gone.                     *)
(***************************************************************************)
EXTENDS Integers, Sequences

CONSTANTS Entry, NoEntry, Retain

VARIABLES log, pending

vars == <<log, pending>>

LastOf(s, n) == SubSeq(s, Len(s) - n + 1, Len(s))

\* t is what is left of s after dropping old entries beyond the last Retain.
Trims(s, t) ==
    \E n \in 0..Len(s) :
        /\ n >= Retain \/ n = Len(s)
        /\ t = LastOf(s, n)

Init == log = <<>> /\ pending = NoEntry

Begin(e) == pending = NoEntry /\ pending' = e /\ UNCHANGED log

Commit ==
    /\ pending # NoEntry
    /\ log' = Append(log, pending)
    /\ pending' = NoEntry

Restart ==
    /\ \/ Trims(log, log')
       \/ pending # NoEntry /\ Trims(Append(log, pending), log')
    /\ pending' = NoEntry

Next == (\E e \in Entry : Begin(e)) \/ Commit \/ Restart

Spec == Init /\ [][Next]_vars
=============================================================================
