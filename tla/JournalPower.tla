---------------------------- MODULE JournalPower ----------------------------
(***************************************************************************)
(* journal/src/lib.rs across a power cut.  The crate calls flush, which    *)
(* does nothing for a File, and never syncs a file or a directory: until   *)
(* the kernel writes a page back it is lost with the power, pages reach    *)
(* the disk in any order, and so do the creation and the removal of the    *)
(* lock file and the rename of compact.                                    *)
(*                                                                         *)
(* A power cut is a kill of every process that takes pages with it.  No    *)
(* step of writeback is needed: what a cut may leave after one is among    *)
(* what it may leave without.  Nor is a rename that did not reach the      *)
(* disk: the file it should have replaced is left as a cut before the      *)
(* rename would have left it.  The .compact file is truncated before       *)
(* anything reads it, so it is taken as empty.  What a process wrote       *)
(* through a handle that lost its path is taken as lost.                   *)
(***************************************************************************)
EXTENDS Journal, SequencesExt

\* The cells of a file of which only those in `kept` have all their pages on
\* disk: a frame with a missing page fails its CRC (or, all zero, has an
\* unknown tag).
WithPages(cells, kept) ==
    [i \in DOMAIN cells |-> [entry |-> cells[i].entry, full |-> i \in kept]]

\* What may be on disk of the cells of a file: any page may be missing.
LeftCells(cells) ==
    {SubSeq(WithPages(cells, kept), 1, n) :
        kept \in SUBSET {i \in DOMAIN cells : cells[i].full},
        n \in 0..Len(cells)}

\* What may be on disk of a file.  Nobody reads past a header that is not
\* whole, and an empty file and a path that does not exist are the same.  A
\* header that was written over may still be on disk as it was, with its
\* frames.
Leftovers(f) ==
    {EmptyFile}
        \cup {[header |-> "torn", cells |-> <<>>] : h \in {f.header} \ {"none"}}
        \cup {[header |-> "ok", cells |-> c] :
                 h \in {f.header} \cap {"ok", "overwritten"},
                 c \in LeftCells(f.cells)}

\* Every process dies, and the path names what is left of its file.  A lock
\* file may be there or not, whatever the processes did with it last.
PowerCut ==
    /\ kills < MaxKills
    /\ kills' = kills + 1
    /\ file' \in Leftovers(file)
    /\ lock' \in IF lock \/ file # EmptyFile THEN BOOLEAN ELSE {FALSE}
    /\ pc' = [p \in Procs |-> "closed"]
    /\ inner' = [p \in Procs |-> <<>>]
    /\ arg' = [p \in Procs |-> NoEntry]
    /\ handle' = [p \in Procs |-> "end"]
    /\ temp' = EmptyFile
    /\ UNCHANGED faults

PowerNext == Next \/ PowerCut

PowerSpec == Init /\ [][PowerNext]_vars

-----------------------------------------------------------------------------
\* The timeline of the process that serves the journal, the entry it is
\* writing included, or what the next process would replay.
Written ==
    IF \E p \in Procs : pc[p] \in Serving
    THEN LET p == CHOOSE q \in Procs : pc[q] \in Serving
         IN  inner[p] \o (IF arg[p] = NoEntry THEN <<>> ELSE <<arg[p]>>)
    ELSE Replay(file.cells)

\* Whichever pages are lost, from a file or from its replacement by compact,
\* and even behind a frame that an earlier failed append tore: an open that
\* does not refuse what a power cut left rebuilds a contiguous run of the
\* timeline, never one with a hole in it.
PowerCutLeavesARun ==
    [][PowerCut /\ Openable(file') => Recovered(file') \in SubSeqs(Written)]_vars

\* "Partial or corrupted trailing bytes from hard power-cuts are safely
\* truncated to the last valid checksummed record", and append and
\* record_revert "write to disk immediately".  A power cut that leaves a file
\* which the next open refuses takes at least no entry that was acknowledged
\* (other than those that compaction may drop).
PowerCutIsTruncated ==
    [][PowerCut => \/ Openable(file')
                   \/ \A p \in Procs : pc[p] = "open" =>
                          Survives(Recovered(file'), inner[p])]_vars
=============================================================================
