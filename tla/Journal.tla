------------------------------ MODULE Journal -------------------------------
(***************************************************************************)
(* journal/src/lib.rs: the write-ahead log behind ReconcileHistory.        *)
(*                                                                         *)
(* Processes open the same journal path.  Between two steps of a process,  *)
(* each one system call of the code, another process may run, the process  *)
(* may be killed (SIGKILL: no Drop runs, the page cache survives), and the *)
(* system call itself may fail.                                            *)
(*                                                                         *)
(* A file is a header and a sequence of cells, one per frame; a frame is   *)
(* whole or torn.  CRC32 is taken to detect every torn frame, and to       *)
(* resynchronise never: replay stops at the first torn cell.  The          *)
(* in-memory ReconcileHistory is its timeline, of which pairs and reverts  *)
(* are projections (HistoryAgrees of DriftGuard).                          *)
(***************************************************************************)
EXTENDS Integers, Sequences, FiniteSets

CONSTANTS
    Procs,           \* the processes that use one journal path
    PairEntries,     \* timeline entries that `append` writes
    RevertEntries,   \* timeline entries that `record_revert` writes
    NoEntry,         \* no append in progress
    MaxRetained,     \* max_retained_entries
    MaxEntries,      \* bound on the length of a timeline
    FaultKinds,      \* the operations whose system calls may fail
    MaxFaults,       \* bound on the number of failures
    MaxKills,        \* bound on the number of kills
    OperatorClears   \* whether somebody deletes a stale lock file

Entry == PairEntries \cup RevertEntries

ASSUME BoundsAssumption ==
    /\ MaxRetained \in Nat /\ MaxEntries \in Nat
    /\ MaxFaults \in Nat /\ MaxKills \in Nat
ASSUME FaultAssumption    == FaultKinds \subseteq {"open", "append", "compact"}
ASSUME EntryAssumption    == NoEntry \notin Entry
ASSUME OperatorAssumption == OperatorClears \in BOOLEAN

VARIABLES
    lock,      \* whether the .lock file exists
    file,      \* the file at the journal path
    temp,      \* the file at the .compact path
    pc,        \* what each process is doing with its JournaledHistory
    inner,     \* the in-memory timeline of each process
    arg,       \* the entry a process is writing
    handle,    \* where a process's file handle writes
    faults,    \* system calls that failed so far
    kills      \* kills so far

vars == <<lock, file, temp, pc, inner, arg, handle, faults, kills>>

-----------------------------------------------------------------------------
(* Files *)

Cell == [entry : Entry, full : BOOLEAN]
File == [header : {"none", "torn", "overwritten", "ok"}, cells : Seq(Cell)]

\* A path that does not exist and an empty file are the same to create(true).
EmptyFile == [header |-> "none", cells |-> <<>>]

Torn(e)  == [entry |-> e, full |-> FALSE]
Whole(e) == [entry |-> e, full |-> TRUE]

\* The header can be read and has the magic and the version; of an empty file
\* it is written.
Openable(f) == f.header \in {"none", "ok"}

\* Mutant: the frame after the last valid one is replayed without its CRC.
ValidFrames_NoCrc(cells) == Len(cells)

\* The number of frames before the first torn one.
ValidFrames(cells) ==
    CHOOSE n \in 0..Len(cells) :
        /\ \A i \in 1..n : cells[i].full
        /\ n < Len(cells) => ~cells[n + 1].full

\* Mutant: replay skips a frame that fails its CRC and goes on.
Replay_SkipsTorn(cells) ==
    LET whole == SelectSeq(cells, LAMBDA cell : cell.full)
    IN  [i \in DOMAIN whole |-> whole[i].entry]

\* The timeline that the replay loop rebuilds from the frames of a file.
Replay(cells) == [i \in 1..ValidFrames(cells) |-> cells[i].entry]

\* What a process that opens the file has of it: nothing if it is refused.
Recovered(f) == IF Openable(f) THEN Replay(f.cells) ELSE <<>>

-----------------------------------------------------------------------------
Serving == {"open", "framing", "framed", "compacting", "renamed"}
Opening == {"locked", "replayed"}

Goto(p, label) == pc' = [pc EXCEPT ![p] = label]

\* The JournaledHistory of p is gone.
Exit(p) ==
    /\ Goto(p, "closed")
    /\ inner' = [inner EXCEPT ![p] = <<>>]
    /\ arg' = [arg EXCEPT ![p] = NoEntry]
    /\ handle' = [handle EXCEPT ![p] = "end"]

\* Returning an error from open_or_create, and dropping a JournaledHistory,
\* drops the LockGuard, which removes the lock file.
ReleaseLock(p) == lock' = FALSE /\ Exit(p)

Fault(kind) ==
    /\ kind \in FaultKinds
    /\ faults < MaxFaults
    /\ faults' = faults + 1

Init ==
    /\ lock = FALSE
    /\ file = EmptyFile
    /\ temp = EmptyFile
    /\ pc = [p \in Procs |-> "closed"]
    /\ inner = [p \in Procs |-> <<>>]
    /\ arg = [p \in Procs |-> NoEntry]
    /\ handle = [p \in Procs |-> "end"]
    /\ faults = 0
    /\ kills = 0

-----------------------------------------------------------------------------
(* open_or_create *)

\* Mutant: the lock file is opened with create instead of create_new.
AcquireLock_NotExclusive(p) ==
    /\ pc[p] = "closed"
    /\ lock' = TRUE
    /\ Goto(p, "locked")
    /\ UNCHANGED <<file, temp, inner, arg, handle, faults, kills>>

\* create_new(true).  While the lock file exists the call returns
\* AlreadyLocked and changes nothing.
AcquireLock(p) ==
    /\ pc[p] = "closed"
    /\ ~lock
    /\ lock' = TRUE
    /\ Goto(p, "locked")
    /\ UNCHANGED <<file, temp, inner, arg, handle, faults, kills>>

\* file_len == 0: write the header of a new journal.
CreateHeader(p) ==
    /\ pc[p] = "locked"
    /\ file.header = "none"
    /\ file' = [file EXCEPT !.header = "ok"]
    /\ inner' = [inner EXCEPT ![p] = <<>>]
    /\ handle' = [handle EXCEPT ![p] = "end"]
    /\ Goto(p, "open")
    /\ UNCHANGED <<lock, temp, arg, faults, kills>>

\* 0 < file_len < 16: read_exact of the header fails, the call returns Io; or
\* the first bytes are not the magic, the call returns InvalidMagic.
RejectHeader(p) ==
    /\ pc[p] = "locked"
    /\ ~Openable(file)
    /\ ReleaseLock(p)
    /\ UNCHANGED <<file, temp, faults, kills>>

\* Mutant: the history of an existing journal is not rebuilt.
ReplayFrames_StartsFresh(p) ==
    /\ pc[p] = "locked"
    /\ file.header = "ok"
    /\ inner' = [inner EXCEPT ![p] = <<>>]
    /\ Goto(p, "replayed")
    /\ UNCHANGED <<lock, file, temp, arg, handle, faults, kills>>

\* The replay loop up to the first frame that is torn or fails its CRC.
ReplayFrames(p) ==
    /\ pc[p] = "locked"
    /\ file.header = "ok"
    /\ inner' = [inner EXCEPT ![p] = Replay(file.cells)]
    /\ Goto(p, "replayed")
    /\ UNCHANGED <<lock, file, temp, arg, handle, faults, kills>>

\* Mutant: the torn tail is skipped but stays in the file.
TruncateTail_KeepsTail(p) ==
    /\ pc[p] = "replayed"
    /\ handle' = [handle EXCEPT ![p] = "end"]
    /\ Goto(p, "open")
    /\ UNCHANGED <<lock, file, temp, inner, arg, faults, kills>>

\* Mutant: a torn tail is an error instead of being cut off.
TruncateTail_Refuses(p) ==
    /\ pc[p] = "replayed"
    /\ \/ /\ Len(inner[p]) = Len(file.cells)
          /\ handle' = [handle EXCEPT ![p] = "end"]
          /\ Goto(p, "open")
          /\ UNCHANGED <<lock, inner, arg>>
       \/ Len(inner[p]) < Len(file.cells) /\ ReleaseLock(p)
    /\ UNCHANGED <<file, temp, faults, kills>>

\* set_len(valid_offset), then seek to the end.
TruncateTail(p) ==
    /\ pc[p] = "replayed"
    /\ file' = [file EXCEPT !.cells = SubSeq(@, 1, Len(inner[p]))]
    /\ handle' = [handle EXCEPT ![p] = "end"]
    /\ Goto(p, "open")
    /\ UNCHANGED <<lock, temp, inner, arg, faults, kills>>

\* A read, set_len or header write fails; a header write that fails may
\* have written some of the 16 bytes.
OpenFault(p) ==
    /\ Fault("open")
    /\ pc[p] \in Opening
    /\ \/ UNCHANGED file
       \/ /\ pc[p] = "locked" /\ file.header = "none"
          /\ file' = [file EXCEPT !.header = "torn"]
    /\ ReleaseLock(p)
    /\ UNCHANGED <<temp, kills>>

-----------------------------------------------------------------------------
(* append and record_revert *)

\* A handle at the end of the file makes `cells` of it.  One that is left at
\* the start writes over the magic, and over frames that nobody reads behind
\* it.  One whose path was renamed over writes to an unlinked file.
WriteCells(p, cells) ==
    \/ /\ handle[p] = "end"
       /\ file' = [file EXCEPT !.cells = cells]
    \/ /\ handle[p] = "start"
       /\ file' = [file EXCEPT !.header = "overwritten"]
    \/ /\ handle[p] = "unlinked"
       /\ file' = file

\* Mutant: the payload buffer is never filled from the entry.
BeginFrame_EmptyPayload(p, e) ==
    /\ pc[p] = "open"
    /\ Len(inner[p]) < MaxEntries
    /\ WriteCells(p, Append(file.cells, Torn(e)))
    /\ Goto(p, "framing")
    /\ UNCHANGED <<lock, temp, inner, arg, handle, faults, kills>>

\* write_all(&frame_header)
BeginFrame(p, e) ==
    /\ pc[p] = "open"
    /\ Len(inner[p]) < MaxEntries
    /\ WriteCells(p, Append(file.cells, Torn(e)))
    /\ arg' = [arg EXCEPT ![p] = e]
    /\ Goto(p, "framing")
    /\ UNCHANGED <<lock, temp, inner, handle, faults, kills>>

BeginAppend(p)       == \E e \in PairEntries : BeginFrame(p, e)
BeginRecordRevert(p) == \E e \in RevertEntries : BeginFrame(p, e)

\* write_all(&payload) completes the frame.
WritePayload(p) ==
    /\ pc[p] = "framing"
    /\ WriteCells(p, [file.cells EXCEPT ![Len(file.cells)] = Whole(arg[p])])
    /\ Goto(p, "framed")
    /\ UNCHANGED <<lock, temp, inner, arg, handle, faults, kills>>

\* The frame is written: update the in-memory history and return Ok.
Commit(p) ==
    /\ pc[p] = "framed"
    /\ inner' = [inner EXCEPT ![p] = Append(@, arg[p])]
    /\ arg' = [arg EXCEPT ![p] = NoEntry]
    /\ Goto(p, "open")
    /\ UNCHANGED <<lock, file, temp, handle, faults, kills>>

\* One of the two writes fails, before it wrote anything or with a part of
\* the frame in the file, and the call returns Io with the in-memory history
\* unchanged.
FrameFault(p) ==
    /\ Fault("append")
    /\ pc[p] \in {"open", "framing"}
    /\ arg' = [arg EXCEPT ![p] = NoEntry]
    /\ Goto(p, "open")
    /\ UNCHANGED <<lock, file, temp, inner, handle, kills>>

-----------------------------------------------------------------------------
(* compact *)

\* Create and truncate the .compact file and write its header.  With at
\* most max_retained_entries entries the call returns at once.
CompactCreate(p) ==
    /\ pc[p] = "open"
    /\ Len(inner[p]) > MaxRetained
    /\ temp' = [header |-> "ok", cells |-> <<>>]
    /\ Goto(p, "compacting")
    /\ UNCHANGED <<lock, file, inner, arg, handle, faults, kills>>

\* Mutant: the entries at the front are retained instead of the last ones.
CompactFrame_Oldest(p) ==
    /\ pc[p] = "compacting"
    /\ Len(temp.cells) < MaxRetained
    /\ temp' = [temp EXCEPT !.cells = Append(@, Whole(inner[p][Len(@) + 1]))]
    /\ UNCHANGED <<lock, file, pc, inner, arg, handle, faults, kills>>

\* One iteration of the loop over timeline.iter().skip(skip).
CompactFrame(p) ==
    /\ pc[p] = "compacting"
    /\ Len(temp.cells) < MaxRetained
    /\ LET skip == Len(inner[p]) - MaxRetained
       IN  temp' = [temp EXCEPT !.cells =
                        Append(@, Whole(inner[p][skip + Len(@) + 1]))]
    /\ UNCHANGED <<lock, file, pc, inner, arg, handle, faults, kills>>

\* rename(temp_path, path)
CompactRename(p) ==
    /\ pc[p] = "compacting"
    /\ Len(temp.cells) = MaxRetained
    /\ file' = temp
    /\ temp' = EmptyFile
    /\ Goto(p, "renamed")
    /\ UNCHANGED <<lock, inner, arg, handle, faults, kills>>

\* self.file = open(path), seek to the end
CompactReopen(p) ==
    /\ pc[p] = "renamed"
    /\ handle' = [handle EXCEPT ![p] = "end"]
    /\ Goto(p, "open")
    /\ UNCHANGED <<lock, file, temp, inner, arg, faults, kills>>

\* A system call of compact fails and compact returns Io.  Before the
\* rename the journal is as it was.  After it, a failing open leaves the
\* process with the handle of the file that was replaced, a failing seek with
\* a new handle at the start of the file.
CompactFault(p) ==
    /\ Fault("compact")
    /\ \/ pc[p] = "compacting" /\ UNCHANGED handle
       \/ pc[p] = "renamed" /\ \E where \in {"unlinked", "start"} :
                                   handle' = [handle EXCEPT ![p] = where]
    /\ Goto(p, "open")
    /\ UNCHANGED <<lock, file, temp, inner, arg, kills>>

-----------------------------------------------------------------------------
(* The end of a process *)

\* drop of the JournaledHistory
Close(p) ==
    /\ pc[p] = "open"
    /\ ReleaseLock(p)
    /\ UNCHANGED <<file, temp, faults, kills>>

\* SIGKILL: the lock file stays behind.
Kill(p) ==
    /\ pc[p] # "closed"
    /\ kills < MaxKills
    /\ kills' = kills + 1
    /\ Exit(p)
    /\ UNCHANGED <<lock, file, temp, faults>>

\* Somebody deletes the lock file of a process that is gone.  Nothing in
\* the crate does.
RemoveStaleLock ==
    /\ OperatorClears
    /\ lock
    /\ \A p \in Procs : pc[p] = "closed"
    /\ lock' = FALSE
    /\ UNCHANGED <<file, temp, pc, inner, arg, handle, faults, kills>>

-----------------------------------------------------------------------------
OpenStep(p) ==
    \/ AcquireLock(p) \/ CreateHeader(p) \/ RejectHeader(p)
    \/ ReplayFrames(p) \/ TruncateTail(p)

BeginStep(p) == BeginAppend(p) \/ BeginRecordRevert(p) \/ CompactCreate(p)

ServeStep(p) ==
    \/ WritePayload(p) \/ Commit(p)
    \/ CompactFrame(p) \/ CompactRename(p) \/ CompactReopen(p)

FaultStep(p) == OpenFault(p) \/ FrameFault(p) \/ CompactFault(p)

Next ==
    \/ \E p \in Procs : \/ OpenStep(p) \/ BeginStep(p) \/ ServeStep(p)
                        \/ FaultStep(p) \/ Close(p) \/ Kill(p)
    \/ RemoveStaleLock

Spec == Init /\ [][Next]_vars

\* A supervisor keeps restarting the processes, a call that was made runs to
\* its end, and a stale lock, if anybody removes it, is removed eventually.
\* Nothing forces a process to append, to compact or to close.
Fairness ==
    /\ \A p \in Procs : WF_vars(OpenStep(p)) /\ WF_vars(ServeStep(p))
    /\ WF_vars(RemoveStaleLock)

FairSpec == Spec /\ Fairness

-----------------------------------------------------------------------------
\* Types of the files, of the lock and of every process's state.
TypeOK ==
    /\ lock \in BOOLEAN
    /\ file \in File
    /\ temp \in File
    /\ pc \in [Procs -> {"closed"} \cup Opening \cup Serving]
    /\ inner \in [Procs -> Seq(Entry)]
    /\ arg \in [Procs -> Entry \cup {NoEntry}]
    /\ handle \in [Procs -> {"end", "start", "unlinked"}]
    /\ faults \in Nat
    /\ kills \in Nat

\* create_new on the lock file keeps two processes from being inside the
\* journal at once, through kills, failures and stale-lock removal.
SingleWriter ==
    \A p, q \in Procs : pc[p] # "closed" /\ pc[q] # "closed" => p = q

\* `recovered` is the end of `acked`, and if compaction dropped anything at
\* least max_retained_entries of it are left.
Survives(recovered, acked) ==
    LET n == Len(recovered)
    IN  /\ n <= Len(acked)
        /\ n >= MaxRetained \/ n = Len(acked)
        /\ \A i \in 1..n : recovered[i] = acked[Len(acked) - n + i]

\* What a restart would recover right now holds every acknowledged entry
\* that compaction may not drop, and beyond these at most the entry whose
\* frame is whole but whose append has not returned.  This is the crate's
\* "zero-data-loss durability across process restarts".
AckedEntriesSurvive ==
    \A p \in Procs : pc[p] \in Serving =>
        \/ Survives(Recovered(file), inner[p])
        \/ /\ pc[p] = "framed"
           /\ Survives(Recovered(file), Append(inner[p], arg[p]))

\* Whatever system calls fail, the frames of the file replay to a contiguous
\* run of the entries the process wrote, in order: nothing invented, nothing
\* reordered, nothing skipped in the middle.
RecoversContiguousRun ==
    \A p \in Procs : pc[p] \in Serving =>
        LET recovered == Replay(file.cells)
            written   == IF arg[p] = NoEntry THEN inner[p]
                                             ELSE Append(inner[p], arg[p])
        IN  \E k \in 0..Len(written) :
                /\ k + Len(recovered) <= Len(written)
                /\ \A i \in 1..Len(recovered) : recovered[i] = written[k + i]

\* However processes close, die and are restarted, some process always gets
\* to serve the journal again.
ServiceResumes == []<>(\E p \in Procs : pc[p] \in Serving)

\* "zero-data-loss durability across process restarts (Docker, Kubernetes,
\* systemd) so that rolling drift windows are never wiped out by process
\* recycling".  A journal that has lost an acknowledged entry, because a write
\* failed, is at least served again when its process ends.
KeepsOrServes == []AckedEntriesSurvive \/ ServiceResumes

-----------------------------------------------------------------------------
(* The journal implements DurableLog.  While a process serves, the log is  *)
(* its in-memory timeline; otherwise it is what the next one will replay.  *)

absLog ==
    IF \E p \in Procs : pc[p] \in Serving
    THEN inner[CHOOSE p \in Procs : pc[p] \in Serving]
    ELSE Replay(file.cells)

absPending ==
    IF \E p \in Procs : pc[p] \in {"framing", "framed"}
    THEN arg[CHOOSE p \in Procs : pc[p] \in {"framing", "framed"}]
    ELSE NoEntry

Durable == INSTANCE DurableLog
              WITH log <- absLog, pending <- absPending, Retain <- MaxRetained

\* Every step of the journal is a step, or a stutter, of the durable log.
ImplementsDurableLog == Durable!Spec
=============================================================================
