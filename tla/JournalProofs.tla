--------------------------- MODULE JournalProofs ----------------------------
(***************************************************************************)
(* Theorems about Journal, for any set of processes and entries and any    *)
(* bounds: type correctness, mutual exclusion by the lock file, and, when  *)
(* no system call fails, durability of acknowledged entries and the        *)
(* refinement of DurableLog; then about JournalPower, with failing system  *)
(* calls and power cuts.                                                   *)
(***************************************************************************)
EXTENDS JournalPower, SequenceTheorems, WellFoundedInduction, TLAPS

-----------------------------------------------------------------------------
(* Replay *)

\* The prefix of whole frames that the CHOOSE of ValidFrames names exists:
\* the frames before the first torn one.
LEMMA ValidFramesExists ==
    ASSUME NEW cells \in Seq(Cell)
    PROVE  \E n \in 0..Len(cells) : /\ \A i \in 1..n : cells[i].full
                                    /\ n < Len(cells) => ~cells[n + 1].full
<1> DEFINE torn == {i \in 1..Len(cells) : ~cells[i].full}
<1>1. Len(cells) \in Nat
  BY LenProperties
<1>2. CASE torn = {}
  <2>1. \A i \in 1..Len(cells) : cells[i].full
    BY <1>2
  <2> QED
    BY <1>1, <2>1
<1>3. CASE torn # {}
  <2>1. torn \subseteq Nat
    BY <1>1
  <2>2. PICK k \in torn : \A j \in torn : ~(<<j, k>> \in OpToRel(<, Nat))
    BY <1>3, <2>1, NatLessThanWellFounded, WFMin
  <2>3. \A j \in torn : j >= k
    <3> SUFFICES ASSUME NEW j \in torn, j < k PROVE FALSE
      BY <2>1
    <3>1. OpToRel(<, Nat) = {ss \in Nat \X Nat : ss[1] < ss[2]}
      BY DEF OpToRel
    <3>2. j \in Nat /\ k \in Nat
      BY <2>1
    <3> HIDE DEF torn
    <3>3. <<j, k>> \in {ss \in Nat \X Nat : ss[1] < ss[2]}
      BY <3>2
    <3> QED
      BY <2>2, <3>1, <3>3
  <2>4. k \in 1..Len(cells) /\ ~cells[k].full
    OBVIOUS
  <2>5. \A i \in 1..(k - 1) : cells[i].full
    BY <1>1, <2>3, <2>4
  <2>6. /\ k - 1 \in 0..Len(cells)
        /\ (k - 1) + 1 = k
    BY <1>1, <2>4
  <2> QED
    BY <2>4, <2>5, <2>6
<1> QED
  BY <1>2, <1>3

\* ValidFrames counts the whole frames before the first torn one.
LEMMA ValidFramesProperties ==
    ASSUME NEW cells \in Seq(Cell)
    PROVE  /\ ValidFrames(cells) \in 0..Len(cells)
           /\ \A i \in 1..ValidFrames(cells) : cells[i].full
           /\ ValidFrames(cells) < Len(cells) =>
                ~cells[ValidFrames(cells) + 1].full
  BY ValidFramesExists DEF ValidFrames

\* Replay returns a timeline, one entry per whole frame.
LEMMA ReplayType ==
    ASSUME NEW cells \in Seq(Cell)
    PROVE  /\ Replay(cells) \in Seq(Entry)
           /\ Len(Replay(cells)) = ValidFrames(cells)
           /\ \A i \in 1..ValidFrames(cells) : Replay(cells)[i] = cells[i].entry
<1>1. Len(cells) \in Nat /\ ValidFrames(cells) \in 0..Len(cells)
  BY LenProperties, ValidFramesProperties
<1>2. ASSUME NEW i \in 1..ValidFrames(cells) PROVE cells[i].entry \in Entry
  <2>1. i \in 1..Len(cells)
    BY <1>1
  <2>2. cells[i] \in Cell
    BY <2>1, ElementOfSeq
  <2> QED
    BY <2>2 DEF Cell
<1> QED
  BY <1>1, <1>2 DEF Replay

\* If n frames are whole and the next one, if any, is torn, replay stops
\* after those n.
LEMMA ReplayOfPrefix ==
    ASSUME NEW cells \in Seq(Cell), NEW n \in 0..Len(cells),
           \A i \in 1..n : cells[i].full,
           n < Len(cells) => ~cells[n + 1].full
    PROVE  ValidFrames(cells) = n
<1>1. Len(cells) \in Nat
  BY LenProperties
<1> QED
  BY <1>1, ValidFramesProperties

-----------------------------------------------------------------------------
(* Type correctness and mutual exclusion *)

\* The facts that types and mutual exclusion rest on, inductive together: a
\* process inside the journal owns the lock file, a frame is being written
\* only for a real entry, a compaction runs on a timeline that is long
\* enough, and the offset to truncate at lies within the file (which is so
\* only because no other process can shorten it).
LockInv    == \A p \in Procs : pc[p] # "closed" => lock
FramingInv == \A p \in Procs : pc[p] \in {"framing", "framed"} => arg[p] \in Entry
CompactInv == \A p \in Procs : pc[p] = "compacting" => Len(inner[p]) > MaxRetained
OffsetInv  == \A p \in Procs :
                 pc[p] = "replayed" => Len(inner[p]) <= Len(file.cells)

BaseInv ==
    TypeOK /\ SingleWriter /\ LockInv /\ FramingInv /\ CompactInv /\ OffsetInv

USE DEF Serving, Opening

\* BaseInv holds of an empty directory.
LEMMA BaseInit == Init => BaseInv
<1> SUFFICES ASSUME Init PROVE BaseInv
  OBVIOUS
<1>1. <<>> \in Seq(Cell) /\ <<>> \in Seq(Entry)
  OBVIOUS
<1>2. TypeOK
  BY <1>1 DEF Init, TypeOK, EmptyFile, File
<1> QED
  BY <1>2 DEF Init, BaseInv, SingleWriter, LockInv, FramingInv, CompactInv,
              OffsetInv

\* Writing cells through a handle keeps the file well typed.
LEMMA WriteCellsType ==
    ASSUME NEW p, NEW cells \in Seq(Cell), file \in File, WriteCells(p, cells)
    PROVE  file' \in File
  BY DEF WriteCells, File

\* Completing the last cell of a file keeps its type and its length.
LEMMA CompleteLastCell ==
    ASSUME NEW cells \in Seq(Cell), NEW e \in Entry,
           NEW new, new = [cells EXCEPT ![Len(cells)] = Whole(e)]
    PROVE  /\ new \in Seq(Cell)
           /\ Len(new) = Len(cells)
           /\ \A i \in 1..Len(cells) :
                 new[i] = IF i = Len(cells) THEN Whole(e) ELSE cells[i]
<1>1. Len(cells) \in Nat /\ Whole(e) \in Cell
  BY LenProperties DEF Whole, Cell
<1>2. CASE Len(cells) \in 1..Len(cells)
  BY <1>1, <1>2, ExceptSeq
<1>3. CASE Len(cells) = 0
  <2>1. cells = <<>>
    BY <1>3
  <2>2. new = cells
    BY <2>1
  <2>3. 1..Len(cells) = {}
    BY <1>3
  <2> QED
    BY <2>2, <2>3
<1> QED
  BY <1>1, <1>2, <1>3

\* Every action of the journal preserves BaseInv.
LEMMA BaseStep == BaseInv /\ [Next]_vars => BaseInv'
<1> SUFFICES ASSUME BaseInv, [Next]_vars PROVE BaseInv'
  OBVIOUS
<1> USE DEF BaseInv, TypeOK, SingleWriter, LockInv, FramingInv, CompactInv,
            OffsetInv, Goto
<1>cells. file.cells \in Seq(Cell) /\ Len(file.cells) \in Nat
  BY LenProperties DEF File
<1>temp. temp.cells \in Seq(Cell) /\ Len(temp.cells) \in Nat
  BY LenProperties DEF File
<1>empty. <<>> \in Seq(Cell) /\ <<>> \in Seq(Entry)
  OBVIOUS
<1>exit. ASSUME NEW p \in Procs, pc[p] # "closed", Exit(p),
                file' \in File, temp' = temp,
                lock' \in BOOLEAN, faults' \in Nat, kills' \in Nat
         PROVE  BaseInv'
  BY <1>exit, <1>empty DEF Exit
<1>fault. ASSUME NEW kind, Fault(kind) PROVE faults' \in Nat
  BY <1>fault DEF Fault
<1>1. ASSUME NEW p \in Procs, AcquireLock(p) PROVE BaseInv'
  BY <1>1 DEF AcquireLock
<1>2. ASSUME NEW p \in Procs, CreateHeader(p) PROVE BaseInv'
  BY <1>2, <1>empty DEF CreateHeader, File
<1>3. ASSUME NEW p \in Procs, RejectHeader(p) PROVE BaseInv'
  BY <1>3, <1>exit DEF RejectHeader, ReleaseLock
<1>4. ASSUME NEW p \in Procs, ReplayFrames(p) PROVE BaseInv'
  <2>1. /\ Replay(file.cells) \in Seq(Entry)
        /\ Len(Replay(file.cells)) <= Len(file.cells)
    BY <1>cells, ReplayType, ValidFramesProperties
  <2> QED
    BY <1>4, <2>1 DEF ReplayFrames
<1>5. ASSUME NEW p \in Procs, TruncateTail(p) PROVE BaseInv'
  <2>1. Len(inner[p]) \in Nat /\ Len(inner[p]) <= Len(file.cells)
    BY <1>5, LenProperties DEF TruncateTail
  <2>2. \A i \in 1..Len(inner[p]) : file.cells[i] \in Cell
    BY <1>cells, <2>1, ElementOfSeq
  <2>3. SubSeq(file.cells, 1, Len(inner[p])) \in Seq(Cell)
    BY <2>1, <2>2, SubSeqProperties
  <2> QED
    BY <1>5, <2>3 DEF TruncateTail, File
<1>6. ASSUME NEW p \in Procs, OpenFault(p) PROVE BaseInv'
  <2>1. file' \in File
    BY <1>6 DEF OpenFault, File
  <2> QED
    BY <1>6, <1>exit, <1>fault, <2>1 DEF OpenFault, ReleaseLock
<1>7. ASSUME NEW p \in Procs, NEW e \in Entry, BeginFrame(p, e) PROVE BaseInv'
  <2>1. Append(file.cells, Torn(e)) \in Seq(Cell)
    BY <1>cells, AppendProperties DEF Torn, Cell
  <2>2. file' \in File
    BY <1>7, <2>1, WriteCellsType DEF BeginFrame
  <2> QED
    BY <1>7, <2>2 DEF BeginFrame
<1>8. ASSUME NEW p \in Procs, WritePayload(p) PROVE BaseInv'
  <2>1. [file.cells EXCEPT ![Len(file.cells)] = Whole(arg[p])] \in Seq(Cell)
    <3>1. arg[p] \in Entry
      BY <1>8 DEF WritePayload
    <3> HIDE DEF BaseInv
    <3> QED
      BY <1>cells, <3>1, CompleteLastCell
  <2>2. file' \in File
    BY <1>8, <2>1, WriteCellsType DEF WritePayload
  <2> QED
    BY <1>8, <2>2 DEF WritePayload
<1>9. ASSUME NEW p \in Procs, Commit(p) PROVE BaseInv'
  <2>1. Append(inner[p], arg[p]) \in Seq(Entry)
    BY <1>9 DEF Commit
  <2> QED
    BY <1>9, <2>1 DEF Commit
<1>10. ASSUME NEW p \in Procs, FrameFault(p) PROVE BaseInv'
  <2>1. \A i \in 1..(Len(file.cells) - 1) : file.cells[i] \in Cell
    BY <1>cells, ElementOfSeq
  <2>2. SubSeq(file.cells, 1, Len(file.cells) - 1) \in Seq(Cell)
    BY <1>cells, <2>1, SubSeqProperties
  <2>3. file' \in File
    BY <1>10, <2>2, WriteCellsType DEF FrameFault
  <2> QED
    BY <1>10, <1>fault, <2>3 DEF FrameFault
<1>11. ASSUME NEW p \in Procs, CompactCreate(p) PROVE BaseInv'
  BY <1>11, <1>empty DEF CompactCreate, File
<1>12. ASSUME NEW p \in Procs, CompactFrame(p) PROVE BaseInv'
  <2> DEFINE k == Len(inner[p]) - MaxRetained + Len(temp.cells) + 1
  <2>1. k \in 1..Len(inner[p])
    <3>1. inner[p] \in Seq(Entry)
      OBVIOUS
    <3>2. Len(inner[p]) \in Nat
      BY <3>1, LenProperties
    <3>3. Len(inner[p]) > MaxRetained /\ Len(temp.cells) < MaxRetained
      BY <1>12 DEF CompactFrame
    <3> QED
      BY <1>temp, <3>2, <3>3, BoundsAssumption
  <2>2. inner[p][k] \in Entry
    BY <2>1, ElementOfSeq
  <2>3. Append(temp.cells, Whole(inner[p][k])) \in Seq(Cell)
    BY <1>temp, <2>2, AppendProperties DEF Whole, Cell
  <2>4. temp' \in File
    BY <1>12, <2>3 DEF CompactFrame, File
  <2> QED
    BY <1>12, <2>4 DEF CompactFrame
<1>13. ASSUME NEW p \in Procs, CompactRename(p) PROVE BaseInv'
  BY <1>13, <1>empty DEF CompactRename, EmptyFile, File
<1>14. ASSUME NEW p \in Procs, CompactReopen(p) PROVE BaseInv'
  BY <1>14 DEF CompactReopen
<1>15. ASSUME NEW p \in Procs, CompactFault(p) PROVE BaseInv'
  BY <1>15, <1>fault DEF CompactFault
<1>16. ASSUME NEW p \in Procs, Close(p) PROVE BaseInv'
  BY <1>16, <1>exit DEF Close, ReleaseLock
<1>17. ASSUME NEW p \in Procs, Kill(p) PROVE BaseInv'
  BY <1>17, <1>exit DEF Kill
<1>18. CASE RemoveStaleLock
  BY <1>18 DEF RemoveStaleLock
<1>19. CASE UNCHANGED vars
  BY <1>19 DEF vars
<1> QED
  BY <1>1, <1>2, <1>3, <1>4, <1>5, <1>6, <1>7, <1>8, <1>9, <1>10, <1>11, <1>12,
     <1>13, <1>14, <1>15, <1>16, <1>17, <1>18, <1>19
  DEF Next, OpenStep, BeginStep, ServeStep, FaultStep, BeginAppend,
      BeginRecordRevert, Entry

\* The inductive invariant holds throughout every behaviour.
LEMMA BaseInvariance == Spec => []BaseInv
  BY BaseInit, BaseStep, PTL DEF Spec

\* Files, timelines and control states of the journal always have their
\* types, whatever fails and whoever is killed.
THEOREM TypeCorrect == Spec => []TypeOK
<1>1. BaseInv => TypeOK
  BY DEF BaseInv
<1> QED
  BY BaseInvariance, <1>1, PTL

\* The lock file excludes: no two processes are ever inside the journal,
\* although it is created, removed by drop and left behind by kills.
THEOREM MutualExclusion == Spec => []SingleWriter
<1>1. BaseInv => SingleWriter
  BY DEF BaseInv
<1> QED
  BY BaseInvariance, <1>1, PTL

-----------------------------------------------------------------------------
(* Durability, when no system call fails *)

\* The first n cells are whole and hold the end of timeline tl, of which at
\* most the entries before the last MaxRetained are missing.
Keeps(cells, n, tl) ==
    /\ n <= Len(tl)
    /\ n >= MaxRetained \/ n = Len(tl)
    /\ \A i \in 1..n : cells[i].full /\ cells[i].entry = tl[Len(tl) - n + i]

\* Keeps depends only on the first n cells.
LEMMA KeepsPrefix ==
    ASSUME NEW n \in Nat, NEW cells, NEW new, NEW tl,
           Keeps(cells, n, tl), \A i \in 1..n : new[i] = cells[i]
    PROVE  Keeps(new, n, tl)
  BY DEF Keeps

\* One more whole cell keeps a timeline that is one entry longer.
LEMMA KeepsAppend ==
    ASSUME NEW n \in Nat, n > 0, NEW cells, NEW new,
           NEW tl \in Seq(Entry), NEW e \in Entry,
           Keeps(cells, n - 1, tl),
           \A i \in 1..(n - 1) : new[i] = cells[i],
           new[n] = Whole(e)
    PROVE  Keeps(new, n, Append(tl, e))
<1> DEFINE long == Append(tl, e)
<1>1. /\ Len(tl) \in Nat /\ MaxRetained \in Nat
      /\ Len(long) = Len(tl) + 1
      /\ long[Len(tl) + 1] = e
      /\ \A i \in 1..Len(tl) : long[i] = tl[i]
  BY LenProperties, AppendProperties, BoundsAssumption
<1>2. n - 1 <= Len(tl) /\ (n - 1 >= MaxRetained \/ n - 1 = Len(tl))
  BY DEF Keeps
<1>3. n <= Len(long) /\ (n >= MaxRetained \/ n = Len(long))
  BY <1>1, <1>2
<1>4. ASSUME NEW i \in 1..n
      PROVE  new[i].full /\ new[i].entry = long[Len(long) - n + i]
  <2>1. CASE i = n
    <3>1. Len(long) - n + i = Len(tl) + 1
      BY <1>1, <2>1
    <3> QED
      BY <1>1, <2>1, <3>1 DEF Whole
  <2>2. CASE i # n
    <3>1. i \in 1..(n - 1)
      BY <2>2
    <3>2. /\ Len(tl) - (n - 1) + i = Len(long) - n + i
          /\ Len(tl) - (n - 1) + i \in 1..Len(tl)
      BY <1>1, <1>2, <3>1
    <3>3. /\ cells[i].full
          /\ cells[i].entry = tl[Len(tl) - (n - 1) + i]
      BY <3>1 DEF Keeps
    <3> QED
      BY <1>1, <3>1, <3>2, <3>3
  <2> QED
    BY <2>1, <2>2
<1> HIDE DEF long
<1>5. Keeps(new, n, long)
  BY <1>3, <1>4 DEF Keeps
<1> QED
  BY <1>5 DEF long

\* What the disk holds at each control point of the process that serves.
\* Only the last cell of the file may be torn, and only while a frame is
\* being written or after a kill; the file under construction by compact
\* holds the first of the entries it must end up with.
DiskInv(p) ==
    /\ pc[p] \in Serving => handle[p] = "end"
    /\ pc[p] \in Serving \cup {"replayed"} => file.header = "ok"
    /\ pc[p] \in {"open", "compacting", "renamed"} =>
          Keeps(file.cells, Len(file.cells), inner[p])
    /\ pc[p] = "framing" =>
          /\ Len(file.cells) > 0
          /\ ~file.cells[Len(file.cells)].full
          /\ Keeps(file.cells, Len(file.cells) - 1, inner[p])
    /\ pc[p] = "framed" =>
          Keeps(file.cells, Len(file.cells), Append(inner[p], arg[p]))
    /\ pc[p] = "compacting" =>
          /\ temp.header = "ok"
          /\ Len(temp.cells) <= MaxRetained
          /\ \A i \in 1..Len(temp.cells) :
                temp.cells[i] = Whole(inner[p][Len(inner[p]) - MaxRetained + i])
    /\ pc[p] = "replayed" => inner[p] = Replay(file.cells)

HeaderInv == file.header \in {"none", "torn"} => file.cells = <<>>

DurableInv == BaseInv /\ HeaderInv /\ \A p \in Procs : DiskInv(p)

\* DurableInv holds of an empty directory.
LEMMA DurableInit == Init => DurableInv
  BY BaseInit DEF Init, DurableInv, HeaderInv, DiskInv, EmptyFile

\* With the lock, a process inside the journal is alone.
LEMMA OthersClosed ==
    ASSUME BaseInv, NEW p \in Procs, pc[p] # "closed"
    PROVE  \A q \in Procs \ {p} : pc[q] = "closed"
  BY DEF BaseInv, SingleWriter

\* No action of a journal whose system calls all succeed breaks DurableInv.
LEMMA DurableStep ==
    ASSUME FaultKinds = {}, DurableInv, [Next]_vars
    PROVE  DurableInv'
<1> USE DEF Goto
<1>base. BaseInv /\ BaseInv' /\ HeaderInv /\ (\A p \in Procs : DiskInv(p))
  BY BaseStep DEF DurableInv
<1>type. TypeOK /\ TypeOK'
  BY <1>base DEF BaseInv
<1>cells. /\ file.cells \in Seq(Cell) /\ Len(file.cells) \in Nat
          /\ temp.cells \in Seq(Cell) /\ Len(temp.cells) \in Nat
          /\ \A p \in Procs : inner[p] \in Seq(Entry) /\ Len(inner[p]) \in Nat
  BY <1>type, LenProperties DEF TypeOK, File
\* A step of p leaves the processes other than p closed.
<1>rest. ASSUME NEW p \in Procs,
                \A q \in Procs \ {p} : pc[q] = "closed",
                \A q \in Procs \ {p} : pc'[q] = pc[q],
                DiskInv(p)', HeaderInv'
         PROVE  DurableInv'
  <2>1. ASSUME NEW q \in Procs \ {p} PROVE DiskInv(q)'
    <3>1. pc'[q] = "closed"
      BY <1>rest
    <3> QED
      BY <3>1 DEF DiskInv
  <2> QED
    BY <1>base, <1>rest, <2>1 DEF DurableInv
<1>exit. ASSUME NEW p \in Procs, pc[p] # "closed", Exit(p), UNCHANGED file
         PROVE  DurableInv'
  <2>1. /\ pc'[p] = "closed"
        /\ \A q \in Procs \ {p} : pc'[q] = pc[q]
    BY <1>exit, <1>type DEF Exit, TypeOK
  <2>2. DiskInv(p)'
    BY <2>1 DEF DiskInv
  <2>3. HeaderInv'
    BY <1>exit, <1>base DEF HeaderInv
  <2> QED
    BY <1>exit, <1>base, <1>rest, <2>1, <2>2, <2>3, OthersClosed
<1>fault. ASSUME NEW kind, Fault(kind) PROVE FALSE
  BY <1>fault DEF Fault
<1>1. ASSUME NEW p \in Procs, AcquireLock(p) PROVE DurableInv'
  <2>1. \A q \in Procs : pc[q] = "closed"
    BY <1>1, <1>base DEF AcquireLock, BaseInv, LockInv
  <2>2. pc'[p] = "locked" /\ \A q \in Procs \ {p} : pc'[q] = pc[q]
    BY <1>1, <1>type DEF AcquireLock, TypeOK
  <2>3. DiskInv(p)'
    BY <2>2 DEF DiskInv
  <2>4. HeaderInv'
    BY <1>1, <1>base DEF HeaderInv, AcquireLock
  <2> QED
    BY <1>rest, <2>1, <2>2, <2>3, <2>4
<1>2. ASSUME NEW p \in Procs, CreateHeader(p) PROVE DurableInv'
  <2>1. /\ pc[p] # "closed" /\ pc'[p] = "open"
        /\ \A q \in Procs \ {p} : pc'[q] = pc[q]
    BY <1>2, <1>type DEF CreateHeader, TypeOK
  <2>2. file'.header = "ok" /\ file'.cells = <<>> /\ inner'[p] = <<>> /\ handle'[p] = "end"
    BY <1>2, <1>base, <1>type DEF CreateHeader, HeaderInv, TypeOK, File
  <2>disk. DiskInv(p)'
    BY <2>1, <2>2 DEF DiskInv, Keeps
  <2>head. HeaderInv'
    BY <2>2 DEF HeaderInv
  <2> QED
    BY <1>2, <1>base, <1>rest, <2>1, <2>disk, <2>head, OthersClosed
<1>3. ASSUME NEW p \in Procs, RejectHeader(p) PROVE DurableInv'
  BY <1>3, <1>exit DEF RejectHeader, ReleaseLock
<1>4. ASSUME NEW p \in Procs, ReplayFrames(p) PROVE DurableInv'
  <2>1. /\ pc[p] # "closed" /\ pc'[p] = "replayed"
        /\ \A q \in Procs \ {p} : pc'[q] = pc[q]
    BY <1>4, <1>type DEF ReplayFrames, TypeOK
  <2>2. file' = file /\ file.header = "ok" /\ inner'[p] = Replay(file.cells)
    BY <1>4, <1>type DEF ReplayFrames, TypeOK
  <2>disk. DiskInv(p)'
    BY <2>1, <2>2 DEF DiskInv
  <2>head. HeaderInv'
    BY <2>2 DEF HeaderInv
  <2> QED
    BY <1>4, <1>base, <1>rest, <2>1, <2>disk, <2>head, OthersClosed
<1>5. ASSUME NEW p \in Procs, TruncateTail(p) PROVE DurableInv'
  <2>1. /\ pc[p] # "closed" /\ pc'[p] = "open"
        /\ \A q \in Procs \ {p} : pc'[q] = pc[q]
    BY <1>5, <1>type DEF TruncateTail, TypeOK
  <2>2. /\ file.header = "ok" /\ file'.header = file.header
        /\ file'.cells = SubSeq(file.cells, 1, Len(inner[p]))
        /\ inner' = inner /\ handle'[p] = "end"
        /\ inner[p] = Replay(file.cells)
    BY <1>5, <1>base, <1>type DEF TruncateTail, TypeOK, File, DiskInv
  <2>3. /\ Len(inner[p]) \in 0..Len(file.cells)
        /\ \A i \in 1..Len(inner[p]) :
              file.cells[i].full /\ file.cells[i].entry = inner[p][i]
    <3>1. /\ Len(Replay(file.cells)) = ValidFrames(file.cells)
          /\ \A i \in 1..ValidFrames(file.cells) :
                Replay(file.cells)[i] = file.cells[i].entry
      BY <1>cells, ReplayType
    <3>2. /\ ValidFrames(file.cells) \in 0..Len(file.cells)
          /\ \A i \in 1..ValidFrames(file.cells) : file.cells[i].full
      BY <1>cells, ValidFramesProperties
    <3> QED
      BY <2>2, <3>1, <3>2
  <2>4. /\ Len(file'.cells) = Len(inner[p])
        /\ \A i \in 1..Len(inner[p]) : file'.cells[i] = file.cells[i]
    BY <2>2, <2>3, <1>cells
  <2>5. Keeps(file'.cells, Len(file'.cells), inner'[p])
    <3>1. Len(inner[p]) \in Nat
      BY <1>cells
    <3>2. \A i \in 1..Len(inner[p]) : Len(inner[p]) - Len(inner[p]) + i = i
      BY <3>1
    <3>3. Keeps(file.cells, Len(inner[p]), inner[p])
      BY <2>3, <3>1, <3>2 DEF Keeps
    <3>4. Keeps(file'.cells, Len(inner[p]), inner[p])
      BY <2>4, <3>1, <3>3, KeepsPrefix
    <3> QED
      BY <2>2, <2>4, <3>4
  <2>disk. DiskInv(p)'
    BY <2>1, <2>2, <2>5 DEF DiskInv
  <2>head. HeaderInv'
    BY <2>2 DEF HeaderInv
  <2> QED
    BY <1>5, <1>base, <1>rest, <2>1, <2>disk, <2>head, OthersClosed
<1>6. ASSUME NEW p \in Procs, OpenFault(p) PROVE DurableInv'
  BY <1>6, <1>fault DEF OpenFault
<1>7. ASSUME NEW p \in Procs, NEW e \in Entry, BeginFrame(p, e)
      PROVE  DurableInv'
  <2>1. /\ pc[p] # "closed" /\ pc'[p] = "framing"
        /\ \A q \in Procs \ {p} : pc'[q] = pc[q]
    BY <1>7, <1>type DEF BeginFrame, TypeOK
  <2>2. /\ file.header = "ok" /\ handle[p] = "end"
        /\ Keeps(file.cells, Len(file.cells), inner[p])
    BY <1>7, <1>base DEF BeginFrame, DiskInv
  <2>3. /\ file'.header = "ok" /\ file'.cells = Append(file.cells, Torn(e))
        /\ inner' = inner /\ handle' = handle
    BY <1>7, <2>2, <1>type DEF BeginFrame, WriteCells, TypeOK, File
  <2>4. /\ Len(file'.cells) = Len(file.cells) + 1
        /\ file'.cells[Len(file.cells) + 1] = Torn(e)
        /\ \A i \in 1..Len(file.cells) : file'.cells[i] = file.cells[i]
    BY <2>3, <1>cells DEF Torn, Cell
  <2>5. Len(file'.cells) > 0 /\ ~file'.cells[Len(file'.cells)].full
    BY <2>4, <1>cells DEF Torn
  <2>6. Keeps(file'.cells, Len(file'.cells) - 1, inner'[p])
    <3>1. Keeps(file'.cells, Len(file.cells), inner[p])
      BY <2>2, <2>4, <1>cells, KeepsPrefix
    <3>2. Len(file'.cells) - 1 = Len(file.cells)
      BY <2>4, <1>cells
    <3> QED
      BY <2>3, <3>1, <3>2
  <2>disk. DiskInv(p)'
    BY <2>1, <2>2, <2>3, <2>5, <2>6 DEF DiskInv
  <2>head. HeaderInv'
    BY <2>3 DEF HeaderInv
  <2> QED
    BY <1>7, <1>base, <1>rest, <2>1, <2>disk, <2>head, OthersClosed
<1>8. ASSUME NEW p \in Procs, WritePayload(p) PROVE DurableInv'
  <2>1. /\ pc[p] # "closed" /\ pc'[p] = "framed"
        /\ \A q \in Procs \ {p} : pc'[q] = pc[q]
    BY <1>8, <1>type DEF WritePayload, TypeOK
  <2> DEFINE n == Len(file.cells)
  <2>2. /\ file.header = "ok" /\ handle[p] = "end" /\ n > 0
        /\ Keeps(file.cells, n - 1, inner[p])
        /\ arg[p] \in Entry
    BY <1>8, <1>base DEF WritePayload, DiskInv, BaseInv, FramingInv
  <2>3. /\ file'.header = "ok"
        /\ file'.cells = [file.cells EXCEPT ![n] = Whole(arg[p])]
        /\ inner' = inner /\ handle' = handle /\ arg' = arg
    BY <1>8, <2>2, <1>type DEF WritePayload, WriteCells, TypeOK, File
  <2>4. /\ Len(file'.cells) = n
        /\ \A i \in 1..n :
              file'.cells[i] = IF i = n THEN Whole(arg[p]) ELSE file.cells[i]
    BY <2>2, <2>3, <1>cells, CompleteLastCell
  <2>5. Keeps(file'.cells, n, Append(inner[p], arg[p]))
    <3>1. n \in Nat /\ inner[p] \in Seq(Entry)
      BY <1>cells
    <3>2. /\ \A i \in 1..(n - 1) : file'.cells[i] = file.cells[i]
          /\ file'.cells[n] = Whole(arg[p])
      BY <2>2, <2>4, <3>1
    <3> QED
      BY <2>2, <3>1, <3>2, KeepsAppend
  <2>disk. DiskInv(p)'
    BY <2>1, <2>2, <2>3, <2>4, <2>5 DEF DiskInv
  <2>head. HeaderInv'
    BY <2>3 DEF HeaderInv
  <2> QED
    BY <1>8, <1>base, <1>rest, <2>1, <2>disk, <2>head, OthersClosed
<1>9. ASSUME NEW p \in Procs, Commit(p) PROVE DurableInv'
  <2>1. /\ pc[p] # "closed" /\ pc'[p] = "open"
        /\ \A q \in Procs \ {p} : pc'[q] = pc[q]
    BY <1>9, <1>type DEF Commit, TypeOK
  <2>2. /\ file' = file /\ handle' = handle
        /\ inner'[p] = Append(inner[p], arg[p])
    BY <1>9, <1>type DEF Commit, TypeOK
  <2>3. /\ file.header = "ok" /\ handle[p] = "end"
        /\ Keeps(file.cells, Len(file.cells), Append(inner[p], arg[p]))
    BY <1>9, <1>base DEF Commit, DiskInv
  <2>disk. DiskInv(p)'
    BY <2>1, <2>2, <2>3 DEF DiskInv
  <2>head. HeaderInv'
    BY <2>2, <2>3 DEF HeaderInv
  <2> QED
    BY <1>9, <1>base, <1>rest, <2>1, <2>disk, <2>head, OthersClosed
<1>10. ASSUME NEW p \in Procs, FrameFault(p) PROVE DurableInv'
  BY <1>10, <1>fault DEF FrameFault
<1>11. ASSUME NEW p \in Procs, CompactCreate(p) PROVE DurableInv'
  <2>1. /\ pc[p] # "closed" /\ pc'[p] = "compacting"
        /\ \A q \in Procs \ {p} : pc'[q] = pc[q]
    BY <1>11, <1>type DEF CompactCreate, TypeOK
  <2>2. /\ file' = file /\ handle' = handle /\ inner' = inner
        /\ temp'.header = "ok" /\ temp'.cells = <<>>
    BY <1>11 DEF CompactCreate
  <2>3. /\ file.header = "ok" /\ handle[p] = "end"
        /\ Keeps(file.cells, Len(file.cells), inner[p])
    BY <1>11, <1>base DEF CompactCreate, DiskInv
  <2>disk. DiskInv(p)'
    BY <2>1, <2>2, <2>3, BoundsAssumption DEF DiskInv
  <2>head. HeaderInv'
    BY <2>2, <2>3 DEF HeaderInv
  <2> QED
    BY <1>11, <1>base, <1>rest, <2>1, <2>disk, <2>head, OthersClosed
<1>12. ASSUME NEW p \in Procs, CompactFrame(p) PROVE DurableInv'
  <2>1. /\ pc[p] # "closed" /\ pc'[p] = "compacting"
        /\ \A q \in Procs \ {p} : pc'[q] = pc[q]
    BY <1>12, <1>type DEF CompactFrame, TypeOK
  <2> DEFINE n == Len(temp.cells)
             k == Len(inner[p]) - MaxRetained
  <2>2. /\ file.header = "ok" /\ handle[p] = "end" /\ temp.header = "ok"
        /\ Keeps(file.cells, Len(file.cells), inner[p])
        /\ \A i \in 1..n : temp.cells[i] = Whole(inner[p][k + i])
        /\ n < MaxRetained
    BY <1>12, <1>base DEF CompactFrame, DiskInv
  <2>3. /\ file' = file /\ handle' = handle /\ inner' = inner
        /\ temp'.header = temp.header
        /\ temp'.cells = Append(temp.cells, Whole(inner[p][k + n + 1]))
    BY <1>12, <1>type DEF CompactFrame, TypeOK, File
  <2>4. /\ Len(temp'.cells) = n + 1
        /\ temp'.cells[n + 1] = Whole(inner[p][k + n + 1])
        /\ \A i \in 1..n : temp'.cells[i] = temp.cells[i]
    BY <2>3, <1>cells
  <2>5. k \in Int /\ n \in Nat /\ MaxRetained \in Nat
    BY <1>cells, BoundsAssumption
  <2>6. \A i \in 1..(n + 1) : temp'.cells[i] = Whole(inner[p][k + i])
    <3> SUFFICES ASSUME NEW i \in 1..(n + 1)
                 PROVE  temp'.cells[i] = Whole(inner[p][k + i])
      OBVIOUS
    <3>1. CASE i = n + 1
      <4> HIDE DEF k, n
      <4>1. k + n + 1 = k + i
        BY <3>1, <2>5
      <4> QED
        BY <3>1, <4>1, <2>4
    <3>2. CASE i \in 1..n
      BY <3>2, <2>2, <2>4
    <3> QED
      BY <3>1, <3>2, <2>5
  <2>7. Len(temp'.cells) <= MaxRetained
    BY <2>2, <2>4, <2>5
  <2>8. \A i \in 1..Len(temp'.cells) :
           temp'.cells[i] = Whole(inner'[p][Len(inner'[p]) - MaxRetained + i])
    BY <2>3, <2>4, <2>6
  <2>disk. DiskInv(p)'
    BY <2>1, <2>2, <2>3, <2>7, <2>8 DEF DiskInv
  <2>head. HeaderInv'
    BY <2>2, <2>3 DEF HeaderInv
  <2> QED
    BY <1>12, <1>base, <1>rest, <2>1, <2>disk, <2>head, OthersClosed
<1>13. ASSUME NEW p \in Procs, CompactRename(p) PROVE DurableInv'
  <2>1. /\ pc[p] # "closed" /\ pc'[p] = "renamed"
        /\ \A q \in Procs \ {p} : pc'[q] = pc[q]
    BY <1>13, <1>type DEF CompactRename, TypeOK
  <2>2. /\ handle[p] = "end" /\ temp.header = "ok"
        /\ Len(temp.cells) = MaxRetained
        /\ \A i \in 1..MaxRetained : temp.cells[i] =
              Whole(inner[p][Len(inner[p]) - MaxRetained + i])
        /\ Len(inner[p]) > MaxRetained
    BY <1>13, <1>base DEF CompactRename, DiskInv, BaseInv, CompactInv
  <2>3. file' = temp /\ handle' = handle /\ inner' = inner
    BY <1>13 DEF CompactRename
  <2>4. Keeps(temp.cells, MaxRetained, inner[p])
    <3>1. MaxRetained <= Len(inner[p]) /\ MaxRetained >= MaxRetained
      BY <2>2, <1>cells, BoundsAssumption
    <3>2. ASSUME NEW i \in 1..MaxRetained
          PROVE  /\ temp.cells[i].full
                 /\ temp.cells[i].entry =
                       inner[p][Len(inner[p]) - MaxRetained + i]
      <4>1. temp.cells[i] = Whole(inner[p][Len(inner[p]) - MaxRetained + i])
        BY <2>2
      <4> QED
        BY <4>1 DEF Whole
    <3> QED
      BY <3>1, <3>2 DEF Keeps
  <2>disk. DiskInv(p)'
    BY <2>1, <2>2, <2>3, <2>4 DEF DiskInv
  <2>head. HeaderInv'
    BY <2>2, <2>3 DEF HeaderInv
  <2> QED
    BY <1>13, <1>base, <1>rest, <2>1, <2>disk, <2>head, OthersClosed
<1>14. ASSUME NEW p \in Procs, CompactReopen(p) PROVE DurableInv'
  <2>1. /\ pc[p] # "closed" /\ pc'[p] = "open"
        /\ \A q \in Procs \ {p} : pc'[q] = pc[q]
    BY <1>14, <1>type DEF CompactReopen, TypeOK
  <2>2. file' = file /\ handle'[p] = "end" /\ inner' = inner
    BY <1>14, <1>type DEF CompactReopen, TypeOK
  <2>3. file.header = "ok" /\ Keeps(file.cells, Len(file.cells), inner[p])
    BY <1>14, <1>base DEF CompactReopen, DiskInv
  <2>disk. DiskInv(p)'
    BY <2>1, <2>2, <2>3 DEF DiskInv
  <2>head. HeaderInv'
    BY <2>2, <2>3 DEF HeaderInv
  <2> QED
    BY <1>14, <1>base, <1>rest, <2>1, <2>disk, <2>head, OthersClosed
<1>15. ASSUME NEW p \in Procs, CompactFault(p) PROVE DurableInv'
  BY <1>15, <1>fault DEF CompactFault
<1>16. ASSUME NEW p \in Procs, Close(p) PROVE DurableInv'
  BY <1>16, <1>exit DEF Close, ReleaseLock
<1>17. ASSUME NEW p \in Procs, Kill(p) PROVE DurableInv'
  BY <1>17, <1>exit DEF Kill
<1>18. CASE RemoveStaleLock
  <2>1. \A q \in Procs : pc'[q] = "closed"
    BY <1>18 DEF RemoveStaleLock
  <2>2. \A q \in Procs : DiskInv(q)'
    BY <2>1 DEF DiskInv
  <2> QED
    BY <1>18, <1>base, <2>2 DEF RemoveStaleLock, DurableInv, HeaderInv
<1>19. CASE UNCHANGED vars
  <2>1. ASSUME NEW q \in Procs PROVE DiskInv(q)'
    <3>1. DiskInv(q)
      BY <1>base
    <3> QED
      BY <1>19, <3>1 DEF vars, DiskInv
  <2>2. HeaderInv'
    BY <1>19, <1>base DEF vars, HeaderInv
  <2> QED
    BY <1>base, <2>1, <2>2 DEF DurableInv
<1> QED
  BY <1>1, <1>2, <1>3, <1>4, <1>5, <1>6, <1>7, <1>8, <1>9, <1>10, <1>11, <1>12,
     <1>13, <1>14, <1>15, <1>16, <1>17, <1>18, <1>19
  DEF Next, OpenStep, BeginStep, ServeStep, FaultStep, BeginAppend,
      BeginRecordRevert, Entry

\* The file that a process serves would not be refused.
LEMMA ServedIsOpenable ==
    ASSUME DurableInv, NEW p \in Procs, pc[p] \in Serving
    PROVE  Openable(file) /\ Recovered(file) = Replay(file.cells)
  BY DEF DurableInv, DiskInv, Openable, Recovered

\* The disk invariant says what a restart recovers.
LEMMA DurableMeaning == DurableInv => AckedEntriesSurvive
<1> SUFFICES ASSUME DurableInv, NEW p \in Procs, pc[p] \in Serving
             PROVE  \/ Survives(Replay(file.cells), inner[p])
                    \/ /\ pc[p] = "framed"
                       /\ Survives(Replay(file.cells), Append(inner[p], arg[p]))
  BY ServedIsOpenable DEF AckedEntriesSurvive, Recovered
<1>1. file.cells \in Seq(Cell) /\ Len(file.cells) \in Nat
  BY LenProperties DEF DurableInv, BaseInv, TypeOK, File
\* Replay of cells that keep a timeline survives as that timeline.
<1>2. ASSUME NEW n \in 0..Len(file.cells), NEW tl,
             n < Len(file.cells) => ~file.cells[n + 1].full,
             Keeps(file.cells, n, tl)
      PROVE  Survives(Replay(file.cells), tl)
  <2>1. ValidFrames(file.cells) = n
    BY <1>1, <1>2, ReplayOfPrefix DEF Keeps
  <2>2. /\ Len(Replay(file.cells)) = n
        /\ \A i \in 1..n : Replay(file.cells)[i] = file.cells[i].entry
    BY <1>1, <2>1, ReplayType
  <2> QED
    BY <1>2, <2>2 DEF Keeps, Survives
<1>3. DiskInv(p)
  BY DEF DurableInv
<1>4. CASE pc[p] \in {"open", "compacting", "renamed"}
  BY <1>1, <1>2, <1>3, <1>4 DEF DiskInv
<1>5. CASE pc[p] = "framing"
  BY <1>1, <1>2, <1>3, <1>5 DEF DiskInv
<1>6. CASE pc[p] = "framed"
  BY <1>1, <1>2, <1>3, <1>6 DEF DiskInv
<1> QED
  BY <1>4, <1>5, <1>6

\* Zero data loss across restarts: while no system call fails, whatever the
\* processes do and whenever they are killed, what a restart recovers holds
\* every acknowledged entry that compaction may not drop.
THEOREM Durability ==
    ASSUME FaultKinds = {}
    PROVE  Spec => []AckedEntriesSurvive
<1>1. DurableInv /\ [Next]_vars => DurableInv'
  BY DurableStep
<1> QED
  BY <1>1, DurableInit, DurableMeaning, PTL DEF Spec

-----------------------------------------------------------------------------
(* Journal implements DurableLog while no system call fails: the log is    *)
(* the timeline of the process that serves, or what the next will replay.  *)
(* The CHOOSE of absLog names the one process that serves: there is no     *)
(* other (SingleWriter).                                                   *)

\* What the abstract log is while a process serves.
LEMMA MapServing ==
    ASSUME SingleWriter, NEW p \in Procs, pc[p] \in Serving
    PROVE  /\ absLog = inner[p]
           /\ absPending = IF pc[p] \in {"framing", "framed"} THEN arg[p] ELSE NoEntry
<1>1. \A q \in Procs : pc[q] \in Serving => q = p
  BY DEF SingleWriter, Serving
<1>2. \A q \in Procs : pc[q] \in {"framing", "framed"} => q = p
  BY <1>1 DEF Serving
<1> QED
  BY <1>1, <1>2 DEF absLog, absPending

\* The same after the step.
LEMMA MapServingNext ==
    ASSUME SingleWriter', NEW p \in Procs, pc'[p] \in Serving
    PROVE  /\ absLog' = inner'[p]
           /\ absPending' = IF pc'[p] \in {"framing", "framed"} THEN arg'[p] ELSE NoEntry
<1>1. \A q \in Procs : pc'[q] \in Serving => q = p
  BY DEF SingleWriter, Serving
<1>2. \A q \in Procs : pc'[q] \in {"framing", "framed"} => q = p
  BY <1>1 DEF Serving
<1> QED
  BY <1>1, <1>2 DEF absLog, absPending

\* What the abstract log is while no process serves.
LEMMA MapIdle ==
    ASSUME \A q \in Procs : pc[q] \notin Serving
    PROVE  absLog = Replay(file.cells) /\ absPending = NoEntry
  BY DEF absLog, absPending, Serving

\* The same after the step.
LEMMA MapIdleNext ==
    ASSUME \A q \in Procs : pc'[q] \notin Serving
    PROVE  absLog' = Replay(file'.cells) /\ absPending' = NoEntry
  BY DEF absLog, absPending, Serving

\* What survives of a timeline is what Trims leaves of it.
LEMMA SurvivesTrims ==
    ASSUME NEW s \in Seq(Entry), NEW t \in Seq(Entry), Survives(t, s)
    PROVE  Durable!Trims(s, t)
<1>1. Len(s) \in Nat /\ Len(t) \in Nat /\ Len(t) <= Len(s)
  BY LenProperties DEF Survives
<1> DEFINE n == Len(t)
           last == SubSeq(s, Len(s) - n + 1, Len(s))
<1>2. Len(s) - n + 1 \in 1..(Len(s) + 1)
  BY <1>1
<1>3. /\ last \in Seq(Entry) /\ Len(last) = n
      /\ \A i \in 1..n : last[i] = s[Len(s) - n + i]
  <2>1. \A i \in (Len(s) - n + 1)..Len(s) : s[i] \in Entry
    BY <1>1, <1>2, ElementOfSeq
  <2>2. last \in Seq(Entry)
    BY <1>1, <1>2, <2>1, SubSeqProperties
  <2>3. Len(last) = n
    BY <1>1, <1>2
  <2>4. ASSUME NEW i \in 1..n PROVE last[i] = s[Len(s) - n + i]
    BY <1>1, <1>2
  <2> QED
    BY <2>2, <2>3, <2>4
<1> HIDE DEF last
<1>4. t = last
  BY <1>1, <1>3, SeqEqual DEF Survives
<1> QED
  BY <1>1, <1>4 DEF Durable!Trims, Durable!LastOf, Survives, last

-----------------------------------------------------------------------------
(* Steps *)

\* A file without frames replays to an empty timeline.
LEMMA ReplayEmpty == Replay(<<>>) = <<>>
<1> DEFINE none == <<>>
<1>1. none \in Seq(Cell) /\ Len(none) = 0
  OBVIOUS
<1> HIDE DEF none
<1>2. ValidFrames(none) \in 0..Len(none)
  BY <1>1, ValidFramesProperties
<1>3. ValidFrames(none) = 0
  BY <1>1, <1>2
<1>4. Replay(none) \in Seq(Entry) /\ Len(Replay(none)) = 0
  BY <1>1, <1>3, ReplayType
<1>5. Replay(none) = <<>>
  BY <1>4, EmptySeq
<1> QED
  BY <1>5 DEF none

\* An empty directory is an empty log.
LEMMA RefinesInit == Init => Durable!Init
<1> SUFFICES ASSUME Init PROVE absLog = <<>> /\ absPending = NoEntry
  BY DEF Durable!Init
<1>1. file.cells = <<>> /\ \A q \in Procs : pc[q] \notin Serving
  BY DEF Init, EmptyFile, Serving
<1> QED
  BY <1>1, ReplayEmpty, MapIdle

\* Every step is a step of the log or leaves it as it is.
LEMMA RefinesStep ==
    ASSUME FaultKinds = {}, DurableInv, [Next]_vars
    PROVE  [Durable!Next]_(Durable!vars)
<1> USE DEF Goto
<1>inv. DurableInv'
  BY DurableStep
<1>base. /\ BaseInv /\ BaseInv' /\ TypeOK /\ TypeOK'
         /\ SingleWriter /\ SingleWriter'
  BY <1>inv DEF DurableInv, BaseInv
<1>cells. /\ file.cells \in Seq(Cell) /\ file'.cells \in Seq(Cell)
          /\ Replay(file.cells) \in Seq(Entry)
          /\ \A p \in Procs : inner[p] \in Seq(Entry)
  BY <1>base, ReplayType DEF TypeOK, File
\* While p serves the log is its timeline, whatever happens to the files.
<1>serve. ASSUME NEW p \in Procs, pc[p] \in Serving, pc'[p] \in Serving,
                 inner' = inner, arg' = arg,
                 pc[p] \in {"framing", "framed"} <=> pc'[p] \in {"framing", "framed"}
          PROVE  UNCHANGED Durable!vars
  <2>1. absLog = inner[p] /\ absLog' = inner[p]
    BY <1>serve, <1>base, MapServing, MapServingNext
  <2>2. absPending' = absPending
    BY <1>serve, <1>base, MapServing, MapServingNext
  <2> QED
    BY <2>1, <2>2 DEF Durable!vars
\* While nobody serves it is what the file holds.
<1>idle. ASSUME \A q \in Procs : pc[q] \notin Serving /\ pc'[q] \notin Serving,
                file' = file
         PROVE  UNCHANGED Durable!vars
  BY <1>idle, MapIdle, MapIdleNext DEF Durable!vars
\* Opening the journal: the process makes the file's entries its timeline.
<1>open. ASSUME NEW p \in Procs, pc[p] \in Opening, pc'[p] = "open",
                inner'[p] = Replay(file.cells)
         PROVE  UNCHANGED Durable!vars
  <2>1. \A q \in Procs : pc[q] \notin Serving
    BY <1>open, <1>base, OthersClosed DEF Opening, Serving
  <2>2. absLog = Replay(file.cells) /\ absPending = NoEntry
    BY <2>1, MapIdle
  <2>3. absLog' = inner'[p] /\ absPending' = NoEntry
    BY <1>open, <1>base, MapServingNext DEF Serving
  <2> QED
    BY <1>open, <2>2, <2>3 DEF Durable!vars
\* Nobody serves after the one process inside is gone.
<1>exit. ASSUME NEW p \in Procs, pc[p] # "closed", Exit(p), file' = file
         PROVE  [Durable!Next]_(Durable!vars)
  <2>1. \A q \in Procs : pc'[q] \notin Serving
    BY <1>exit, <1>base, OthersClosed DEF Exit, TypeOK, Serving
  <2>2. absLog' = Replay(file.cells) /\ absPending' = NoEntry
    BY <1>exit, <2>1, MapIdleNext
  <2>3. CASE pc[p] \in Serving
    <3>1. \/ Survives(Replay(file.cells), inner[p])
          \/ pc[p] = "framed" /\ Survives(Replay(file.cells), Append(inner[p], arg[p]))
      BY <2>3, DurableMeaning, ServedIsOpenable DEF AckedEntriesSurvive
    <3>2. CASE Survives(Replay(file.cells), inner[p])
      <4>1. absLog = inner[p]
        BY <1>base, <2>3, MapServing
      <4>2. Durable!Trims(absLog, absLog')
        BY <1>cells, <2>2, <3>2, <4>1, SurvivesTrims
      <4> QED
        BY <2>2, <4>2 DEF Durable!Next, Durable!Restart
    <3>3. CASE pc[p] = "framed" /\ Survives(Replay(file.cells), Append(inner[p], arg[p]))
      <4>1. absLog = inner[p] /\ absPending = arg[p]
        BY <1>base, <2>3, <3>3, MapServing
      <4>2. arg[p] \in Entry /\ arg[p] # NoEntry
        BY <1>base, <3>3, EntryAssumption DEF BaseInv, FramingInv
      <4>3. Append(inner[p], arg[p]) \in Seq(Entry)
        BY <1>cells, <4>2, AppendProperties
      <4>4. Durable!Trims(Append(absLog, absPending), absLog')
        BY <1>cells, <2>2, <3>3, <4>1, <4>3, SurvivesTrims
      <4> QED
        BY <2>2, <4>1, <4>2, <4>4 DEF Durable!Next, Durable!Restart
    <3> QED
      BY <3>1, <3>2, <3>3
  <2>4. CASE pc[p] \notin Serving
    <3>1. \A q \in Procs : pc[q] \notin Serving
      BY <1>exit, <1>base, <2>4, OthersClosed DEF Serving
    <3> QED
      BY <1>exit, <1>idle, <2>1, <3>1
  <2> QED
    BY <2>3, <2>4
<1>fault. ASSUME NEW kind, Fault(kind) PROVE FALSE
  BY <1>fault DEF Fault
<1> HIDE DEF Goto
<1>1. ASSUME NEW p \in Procs, AcquireLock(p) PROVE UNCHANGED Durable!vars
  <2>1. \A q \in Procs : pc[q] \notin Serving /\ pc'[q] \notin Serving
    BY <1>1, <1>base DEF AcquireLock, Goto, BaseInv, LockInv, TypeOK, Serving
  <2> QED
    BY <1>1, <1>idle, <2>1 DEF AcquireLock
<1>2. ASSUME NEW p \in Procs, CreateHeader(p) PROVE UNCHANGED Durable!vars
  <2>1. file.cells = <<>> /\ inner'[p] = <<>> /\ pc'[p] = "open" /\ pc[p] = "locked"
    BY <1>2, <1>base DEF CreateHeader, Goto, TypeOK, DurableInv, HeaderInv
  <2> QED
    BY <1>open, <2>1, ReplayEmpty DEF Opening
<1>3. ASSUME NEW p \in Procs, RejectHeader(p) PROVE [Durable!Next]_(Durable!vars)
  BY <1>3, <1>exit DEF RejectHeader, ReleaseLock
<1>4. ASSUME NEW p \in Procs, ReplayFrames(p) PROVE UNCHANGED Durable!vars
  <2>1. \A q \in Procs : pc[q] \notin Serving /\ pc'[q] \notin Serving
    BY <1>4, <1>base, OthersClosed DEF ReplayFrames, Goto, TypeOK, Serving
  <2> QED
    BY <1>4, <1>idle, <2>1 DEF ReplayFrames
<1>5. ASSUME NEW p \in Procs, TruncateTail(p) PROVE UNCHANGED Durable!vars
  <2>1. pc[p] = "replayed" /\ pc'[p] = "open" /\ inner' = inner
    BY <1>5, <1>base DEF TruncateTail, Goto, TypeOK
  <2>2. inner[p] = Replay(file.cells)
    BY <2>1 DEF DurableInv, DiskInv
  <2> QED
    BY <1>open, <2>1, <2>2 DEF Opening
<1>6. ASSUME NEW p \in Procs, NEW e \in Entry, BeginFrame(p, e)
      PROVE  Durable!Next
  <2>1. /\ pc[p] = "open" /\ pc'[p] = "framing"
        /\ inner' = inner /\ arg'[p] = e
    BY <1>6, <1>base DEF BeginFrame, Goto, TypeOK
  <2>2. absLog = inner[p] /\ absPending = NoEntry
    BY <1>base, <2>1, MapServing DEF Serving
  <2>3. absLog' = inner[p] /\ absPending' = e
    BY <1>base, <2>1, MapServingNext DEF Serving
  <2> QED
    BY <2>2, <2>3 DEF Durable!Next, Durable!Begin
<1>7. ASSUME NEW p \in Procs, WritePayload(p) PROVE UNCHANGED Durable!vars
  <2>1. pc[p] = "framing" /\ pc'[p] = "framed" /\ inner' = inner /\ arg' = arg
    BY <1>7, <1>base DEF WritePayload, Goto, TypeOK
  <2> QED
    BY <1>serve, <2>1 DEF Serving
<1>8. ASSUME NEW p \in Procs, Commit(p) PROVE Durable!Next
  <2>1. /\ pc[p] = "framed" /\ pc'[p] = "open"
        /\ inner'[p] = Append(inner[p], arg[p])
    BY <1>8, <1>base DEF Commit, Goto, TypeOK
  <2>2. absLog = inner[p] /\ absPending = arg[p]
    BY <1>base, <2>1, MapServing DEF Serving
  <2>3. absLog' = inner'[p] /\ absPending' = NoEntry
    BY <1>base, <2>1, MapServingNext DEF Serving
  <2>4. arg[p] # NoEntry
    BY <1>base, <2>1, EntryAssumption DEF BaseInv, FramingInv
  <2> QED
    BY <2>1, <2>2, <2>3, <2>4 DEF Durable!Next, Durable!Commit
<1>9. ASSUME NEW p \in Procs,
             CompactCreate(p) \/ CompactFrame(p) \/ CompactRename(p) \/ CompactReopen(p)
      PROVE  UNCHANGED Durable!vars
  <2>1. /\ pc[p] \in {"open", "compacting", "renamed"}
        /\ pc'[p] \in {"open", "compacting", "renamed"}
        /\ inner' = inner /\ arg' = arg
    BY <1>9, <1>base DEF CompactCreate, CompactFrame, CompactRename, CompactReopen,
                         Goto, TypeOK
  <2> QED
    BY <1>serve, <2>1 DEF Serving
<1>10. ASSUME NEW p \in Procs, FaultStep(p) PROVE FALSE
  BY <1>10, <1>fault DEF FaultStep, OpenFault, FrameFault, CompactFault
<1>11. ASSUME NEW p \in Procs, Close(p) PROVE [Durable!Next]_(Durable!vars)
  BY <1>11, <1>exit DEF Close, ReleaseLock
<1>12. ASSUME NEW p \in Procs, Kill(p) PROVE [Durable!Next]_(Durable!vars)
  BY <1>12, <1>exit DEF Kill
<1>13. CASE RemoveStaleLock
  <2>1. \A q \in Procs : pc[q] \notin Serving /\ pc'[q] \notin Serving
    BY <1>13 DEF RemoveStaleLock, Serving
  <2> QED
    BY <1>13, <1>idle, <2>1 DEF RemoveStaleLock
<1>14. CASE UNCHANGED vars
  BY <1>14 DEF vars, Durable!vars, absLog, absPending
<1> QED
  BY <1>1, <1>2, <1>3, <1>4, <1>5, <1>6, <1>7, <1>8, <1>9, <1>10, <1>11, <1>12,
     <1>13, <1>14
  DEF Next, OpenStep, BeginStep, ServeStep, BeginAppend, BeginRecordRevert, Entry

\* The journal implements the durable log while no system call fails,
\* whatever the processes do and whenever they are killed.
THEOREM JournalRefines ==
    ASSUME FaultKinds = {}
    PROVE  Spec => ImplementsDurableLog
<1>1. DurableInv /\ [Next]_vars => DurableInv' /\ [Durable!Next]_(Durable!vars)
  BY DurableStep, RefinesStep
<1> QED
  BY <1>1, DurableInit, RefinesInit, PTL DEF Spec, ImplementsDurableLog, Durable!Spec

-----------------------------------------------------------------------------
(* JournalPower: whatever system calls fail, whoever is killed and         *)
(* whatever a power cut leaves, one process at a time is inside the        *)
(* journal, and what a restart recovers is a contiguous run of what was    *)
(* written.  First the inductive invariant.                                *)

\* t is a contiguous run of s, and t is the end of s.
RunOf(t, s) == \E k \in 0..Len(s) : /\ k + Len(t) <= Len(s)
                                    /\ \A i \in 1..Len(t) : t[i] = s[k + i]
EndOf(t, s) == /\ Len(t) <= Len(s)
               /\ \A i \in 1..Len(t) : t[i] = s[Len(s) - Len(t) + i]

\* No cell of the file is torn but, while p writes a frame, the last one.
Clean(p) ==
    ValidFrames(file.cells)
      = IF pc[p] = "framing" THEN Len(file.cells) - 1 ELSE Len(file.cells)

\* A restart recovers a run of the timeline.  It is the end of the timeline
\* as long as nothing before the last frame is torn and the frames of p
\* still reach the file at the path; this is what makes the run grow without
\* a hole when the frame is completed.
RunInv(p) ==
    /\ pc[p] \in Serving => file.header \in {"overwritten", "ok"}
    /\ pc[p] = "replayed" => file.header = "ok" /\ inner[p] = Replay(file.cells)
    /\ pc[p] \in Serving \ {"framed"} => RunOf(Replay(file.cells), inner[p])
    /\ pc[p] = "framed" => \/ RunOf(Replay(file.cells), inner[p])
                           \/ EndOf(Replay(file.cells), Append(inner[p], arg[p]))
    /\ pc[p] \in {"open", "framing", "compacting", "renamed"} =>
          ((handle[p] = "end" \/ pc[p] = "renamed") /\ Clean(p) =>
              EndOf(Replay(file.cells), inner[p]))
    /\ pc[p] = "framing" /\ handle[p] = "end" =>
          Len(file.cells) > 0 /\ ~file.cells[Len(file.cells)].full
    /\ pc[p] = "framed" /\ handle[p] = "end" /\ Clean(p) =>
          EndOf(Replay(file.cells), Append(inner[p], arg[p]))
    /\ pc[p] = "compacting" =>
          /\ temp.header = "ok"
          /\ Len(temp.cells) <= MaxRetained
          /\ \A i \in 1..Len(temp.cells) :
                temp.cells[i] = Whole(inner[p][Len(inner[p]) - MaxRetained + i])

PowerInv == BaseInv /\ HeaderInv /\ \A p \in Procs : RunInv(p)

-----------------------------------------------------------------------------
(* Replay, runs and ends *)

\* Replay depends on the whole frames before the first torn one only.
LEMMA ReplaySame ==
    ASSUME NEW cells \in Seq(Cell), NEW new \in Seq(Cell),
           ValidFrames(cells) <= Len(new),
           \A i \in 1..ValidFrames(cells) : new[i] = cells[i],
           ValidFrames(cells) < Len(new) => ~new[ValidFrames(cells) + 1].full
    PROVE  ValidFrames(new) = ValidFrames(cells) /\ Replay(new) = Replay(cells)
<1> DEFINE v == ValidFrames(cells)
<1>1. /\ Len(cells) \in Nat /\ Len(new) \in Nat /\ v \in 0..Len(cells)
      /\ \A i \in 1..v : cells[i].full
  BY LenProperties, ValidFramesProperties
<1>2. ValidFrames(new) = v
  BY <1>1, ReplayOfPrefix
<1>3. /\ Replay(cells) \in Seq(Entry) /\ Len(Replay(cells)) = v
      /\ Replay(new) \in Seq(Entry) /\ Len(Replay(new)) = v
      /\ \A i \in 1..v : Replay(cells)[i] = cells[i].entry
      /\ \A i \in 1..v : Replay(new)[i] = new[i].entry
  BY <1>2, ReplayType
<1>4. Replay(new) = Replay(cells)
  BY <1>3, SeqEqual
<1> QED
  BY <1>2, <1>4

\* The entries of a file all of whose frames are whole.
LEMMA ReplayWhole ==
    ASSUME NEW cells \in Seq(Cell), \A i \in 1..Len(cells) : cells[i].full
    PROVE  /\ ValidFrames(cells) = Len(cells)
           /\ Len(Replay(cells)) = Len(cells)
           /\ \A i \in 1..Len(cells) : Replay(cells)[i] = cells[i].entry
<1>1. Len(cells) \in Nat
  BY LenProperties
<1>2. ValidFrames(cells) = Len(cells)
  BY <1>1, ReplayOfPrefix
<1> QED
  BY <1>2, ReplayType

\* An end of a sequence is a run of it.
LEMMA EndIsRun ==
    ASSUME NEW s \in Seq(Entry), NEW t \in Seq(Entry), EndOf(t, s)
    PROVE  RunOf(t, s)
<1>1. Len(s) \in Nat /\ Len(t) \in Nat /\ Len(t) <= Len(s)
  BY LenProperties DEF EndOf
<1>2. Len(s) - Len(t) \in 0..Len(s) /\ (Len(s) - Len(t)) + Len(t) <= Len(s)
  BY <1>1
<1> QED
  BY <1>2 DEF RunOf, EndOf

\* A run stays one when the timeline grows.
LEMMA RunGrows ==
    ASSUME NEW s \in Seq(Entry), NEW t \in Seq(Entry), NEW e \in Entry, RunOf(t, s)
    PROVE  RunOf(t, Append(s, e))
<1> DEFINE long == Append(s, e)
<1>1. /\ Len(s) \in Nat /\ Len(t) \in Nat /\ Len(long) = Len(s) + 1
      /\ \A i \in 1..Len(s) : long[i] = s[i]
  BY LenProperties, AppendProperties
<1> HIDE DEF long
<1>2. PICK k \in 0..Len(s) : /\ k + Len(t) <= Len(s)
                             /\ \A i \in 1..Len(t) : t[i] = s[k + i]
  BY DEF RunOf
<1>3. k \in 0..Len(long) /\ k + Len(t) <= Len(long)
  BY <1>1, <1>2
<1>4. ASSUME NEW i \in 1..Len(t) PROVE t[i] = long[k + i]
  <2>1. k + i \in 1..Len(s)
    BY <1>1, <1>2
  <2> QED
    BY <1>1, <1>2, <2>1
<1>5. RunOf(t, long)
  BY <1>3, <1>4 DEF RunOf
<1> QED
  BY <1>5 DEF long

\* The end of a timeline and an entry are the end of a longer timeline.
LEMMA EndGrows ==
    ASSUME NEW s \in Seq(Entry), NEW t \in Seq(Entry), NEW u, NEW e \in Entry,
           EndOf(t, s), Len(u) = Len(t) + 1, u[Len(t) + 1] = e,
           \A i \in 1..Len(t) : u[i] = t[i]
    PROVE  EndOf(u, Append(s, e))
<1> DEFINE long == Append(s, e)
<1>1. /\ Len(s) \in Nat /\ Len(t) \in Nat /\ Len(t) <= Len(s)
      /\ Len(long) = Len(s) + 1 /\ long[Len(s) + 1] = e
      /\ \A i \in 1..Len(s) : long[i] = s[i]
  BY LenProperties, AppendProperties DEF EndOf
<1> HIDE DEF long
<1>2. ASSUME NEW i \in 1..(Len(t) + 1)
      PROVE  u[i] = long[Len(long) - (Len(t) + 1) + i]
  <2>1. CASE i = Len(t) + 1
    <3>1. Len(long) - (Len(t) + 1) + i = Len(s) + 1
      BY <1>1, <2>1
    <3> QED
      BY <1>1, <2>1, <3>1
  <2>2. CASE i \in 1..Len(t)
    <3>1. /\ Len(long) - (Len(t) + 1) + i = Len(s) - Len(t) + i
          /\ Len(s) - Len(t) + i \in 1..Len(s)
      BY <1>1, <2>2
    <3>2. t[i] = s[Len(s) - Len(t) + i]
      BY <2>2 DEF EndOf
    <3> QED
      BY <1>1, <2>2, <3>1, <3>2
  <2> QED
    BY <1>1, <2>1, <2>2
<1>3. Len(t) + 1 <= Len(long)
  BY <1>1
<1>4. EndOf(u, long)
  BY <1>2, <1>3 DEF EndOf
<1> QED
  BY <1>4 DEF long

-----------------------------------------------------------------------------
(* A power cut *)

\* Losing pages shortens a file and tears frames; it changes no entry and
\* makes no torn frame whole.
LEMMA LeftCellsProperties ==
    ASSUME NEW cells \in Seq(Cell), NEW c \in LeftCells(cells)
    PROVE  /\ c \in Seq(Cell) /\ Len(c) <= Len(cells)
           /\ \A i \in 1..Len(c) : /\ c[i].entry = cells[i].entry
                                   /\ c[i].full => cells[i].full
<1>1. Len(cells) \in Nat /\ DOMAIN cells = 1..Len(cells)
  BY LenProperties
<1>2. PICK kept \in SUBSET {i \in DOMAIN cells : cells[i].full}, n \in 0..Len(cells) :
        c = SubSeq(WithPages(cells, kept), 1, n)
  BY DEF LeftCells
<1> DEFINE torn == WithPages(cells, kept)
<1>3. ASSUME NEW i \in 1..Len(cells)
      PROVE  /\ torn[i] \in Cell /\ torn[i].entry = cells[i].entry
             /\ torn[i].full => cells[i].full
  <2>1. cells[i] \in Cell
    BY ElementOfSeq
  <2>2. torn[i] = [entry |-> cells[i].entry, full |-> i \in kept]
    BY <1>1 DEF WithPages
  <2> HIDE DEF torn
  <2>3. (i \in kept) \in BOOLEAN /\ (i \in kept => cells[i].full)
    BY <1>1
  <2> QED
    BY <2>1, <2>2, <2>3 DEF Cell
<1>4. c = SubSeq(torn, 1, n) /\ n \in 0..Len(cells)
  BY <1>2
<1> HIDE DEF torn
<1>5. \A i \in 1..n : torn[i] \in Cell
  BY <1>1, <1>3
<1>6. c \in Seq(Cell) /\ Len(c) = n /\ \A i \in 1..n : c[i] = torn[i]
  <2>1. /\ SubSeq(torn, 1, n) \in Seq(Cell)
        /\ Len(SubSeq(torn, 1, n)) = IF 1 <= n THEN n - 1 + 1 ELSE 0
        /\ \A i \in 1..(n - 1 + 1) : SubSeq(torn, 1, n)[i] = torn[1 + i - 1]
    BY <1>1, <1>5, SubSeqProperties
  <2> QED
    BY <1>1, <1>4, <2>1
<1> QED
  BY <1>1, <1>3, <1>6

\* What a power cut leaves replays to a beginning of what was there.
LEMMA CutFile ==
    ASSUME file \in File, HeaderInv, file' \in Leftovers(file)
    PROVE  /\ file' \in File /\ HeaderInv'
           /\ Len(Replay(file'.cells)) <= Len(Replay(file.cells))
           /\ \A i \in 1..Len(Replay(file'.cells)) :
                 Replay(file'.cells)[i] = Replay(file.cells)[i]
<1>1. file.cells \in Seq(Cell) /\ Len(file.cells) \in Nat
  BY LenProperties DEF File
<1>2. /\ file'.header \in {"none", "torn", "ok"}
      /\ file' = [header |-> file'.header, cells |-> file'.cells]
      /\ file'.header # "ok" => file'.cells = <<>>
      /\ file'.cells = <<>> \/ file'.cells \in LeftCells(file.cells)
  BY DEF Leftovers, EmptyFile
<1>3. /\ file'.cells \in Seq(Cell) /\ Len(file'.cells) <= Len(file.cells)
      /\ \A i \in 1..Len(file'.cells) :
            /\ file'.cells[i].entry = file.cells[i].entry
            /\ file'.cells[i].full => file.cells[i].full
  <2>1. CASE file'.cells = <<>>
    <3>1. file'.cells \in Seq(Cell) /\ Len(file'.cells) = 0
      BY <2>1
    <3> QED
      BY <1>1, <3>1
  <2>2. CASE file'.cells \in LeftCells(file.cells)
    BY <1>1, <2>2, LeftCellsProperties
  <2> QED
    BY <1>2, <2>1, <2>2
<1>4. file' \in File /\ HeaderInv'
  BY <1>2, <1>3 DEF File, HeaderInv
<1> DEFINE v == ValidFrames(file.cells)
           w == ValidFrames(file'.cells)
<1>5. /\ v \in 0..Len(file.cells)
      /\ v < Len(file.cells) => ~file.cells[v + 1].full
      /\ w \in 0..Len(file'.cells) /\ \A i \in 1..w : file'.cells[i].full
      /\ Len(file'.cells) \in Nat
  BY <1>1, <1>3, ValidFramesProperties, LenProperties
<1>6. /\ Len(Replay(file.cells)) = v
      /\ \A i \in 1..v : Replay(file.cells)[i] = file.cells[i].entry
      /\ Len(Replay(file'.cells)) = w
      /\ \A i \in 1..w : Replay(file'.cells)[i] = file'.cells[i].entry
  BY <1>1, <1>3, ReplayType
<1> HIDE DEF v, w
<1>7. w <= v
  <2> SUFFICES ASSUME v < w PROVE FALSE
    BY <1>1, <1>5
  <2>1. v + 1 \in 1..w /\ v + 1 \in 1..Len(file'.cells) /\ v < Len(file.cells)
    BY <1>1, <1>3, <1>5
  <2> QED
    BY <1>3, <1>5, <2>1
<1> QED
  BY <1>1, <1>3, <1>4, <1>5, <1>6, <1>7

\* A power cut keeps the invariant.
LEMMA PowerCutKeeps ==
    ASSUME PowerInv, PowerCut
    PROVE  PowerInv'
<1>1. file' \in File /\ HeaderInv'
  BY CutFile DEF PowerInv, BaseInv, TypeOK, PowerCut
<1>2. /\ pc' = [p \in Procs |-> "closed"] /\ inner' = [p \in Procs |-> <<>>]
      /\ arg' = [p \in Procs |-> NoEntry] /\ handle' = [p \in Procs |-> "end"]
      /\ temp' = EmptyFile /\ lock' \in BOOLEAN
      /\ faults' = faults /\ kills' = kills + 1
  BY DEF PowerCut
<1>3. TypeOK'
  <2>1. <<>> \in Seq(Cell) /\ <<>> \in Seq(Entry)
    OBVIOUS
  <2>2. temp' \in File
    BY <1>2, <2>1 DEF EmptyFile, File
  <2>3. faults' \in Nat /\ kills' \in Nat
    BY <1>2 DEF PowerInv, BaseInv, TypeOK
  <2>4. inner' \in [Procs -> Seq(Entry)]
    BY <1>2, <2>1
  <2> QED
    BY <1>1, <1>2, <2>2, <2>3, <2>4 DEF TypeOK
<1>4. BaseInv'
  BY <1>2, <1>3 DEF BaseInv, SingleWriter, LockInv, FramingInv, CompactInv, OffsetInv
<1>5. ASSUME NEW p \in Procs PROVE RunInv(p)'
  BY <1>2 DEF RunInv, Serving
<1> QED
  BY <1>1, <1>4, <1>5 DEF PowerInv

-----------------------------------------------------------------------------
(* The steps of the processes *)

\* A journal that was never opened satisfies the invariant.
LEMMA PowerInit == Init => PowerInv
  BY BaseInit DEF Init, PowerInv, HeaderInv, RunInv, EmptyFile, Serving

\* Every step of a process keeps the invariant.
LEMMA ProcessStepKeeps ==
    ASSUME PowerInv, [Next]_vars
    PROVE  PowerInv'
<1> USE DEF Goto, Serving, Opening
<1>base. BaseInv /\ BaseInv' /\ HeaderInv /\ (\A p \in Procs : RunInv(p))
  BY BaseStep DEF PowerInv
<1>type. TypeOK /\ TypeOK'
  BY <1>base DEF BaseInv
<1>cells. /\ file.cells \in Seq(Cell) /\ Len(file.cells) \in Nat
          /\ file'.cells \in Seq(Cell) /\ Len(file'.cells) \in Nat
          /\ temp.cells \in Seq(Cell) /\ Len(temp.cells) \in Nat
          /\ \A p \in Procs : inner[p] \in Seq(Entry) /\ Len(inner[p]) \in Nat
  BY <1>type, LenProperties DEF TypeOK, File
<1> DEFINE R == Replay(file.cells)
           v == ValidFrames(file.cells)
           n == Len(file.cells)
<1>v. /\ R \in Seq(Entry) /\ Len(R) = v /\ v \in 0..n
      /\ \A i \in 1..v : R[i] = file.cells[i].entry /\ file.cells[i].full
      /\ v < n => ~file.cells[v + 1].full
  BY <1>cells, ReplayType, ValidFramesProperties
<1> HIDE DEF R, v, n
\* A step of p leaves the processes other than p closed.
<1>rest. ASSUME NEW p \in Procs,
                \A q \in Procs \ {p} : pc[q] = "closed",
                \A q \in Procs \ {p} : pc'[q] = pc[q],
                RunInv(p)', HeaderInv'
         PROVE  PowerInv'
  <2>1. ASSUME NEW q \in Procs \ {p} PROVE RunInv(q)'
    <3>1. pc'[q] = "closed"
      BY <1>rest
    <3> QED
      BY <3>1 DEF RunInv
  <2> QED
    BY <1>base, <1>rest, <2>1 DEF PowerInv
<1>exit. ASSUME NEW p \in Procs, pc[p] # "closed", Exit(p), HeaderInv'
         PROVE  PowerInv'
  <2>1. pc'[p] = "closed" /\ \A q \in Procs \ {p} : pc'[q] = pc[q]
    BY <1>exit, <1>type DEF Exit, TypeOK
  <2>2. RunInv(p)'
    BY <2>1 DEF RunInv
  <2> QED
    BY <1>exit, <1>base, <1>rest, <2>1, <2>2, OthersClosed
\* A step of p that keeps the file.
<1>step. ASSUME NEW p \in Procs, pc[p] # "closed",
                NEW label, pc' = [pc EXCEPT ![p] = label],
                RunInv(p)', HeaderInv'
         PROVE  PowerInv'
  <2>1. \A q \in Procs \ {p} : pc'[q] = pc[q]
    BY <1>step, <1>type DEF TypeOK
  <2> QED
    BY <1>step, <1>base, <1>rest, <2>1, OthersClosed
<1>1. ASSUME NEW p \in Procs, AcquireLock(p) PROVE PowerInv'
  <2>1. \A q \in Procs : pc[q] = "closed"
    BY <1>1, <1>base DEF AcquireLock, BaseInv, LockInv
  <2>2. pc'[p] = "locked" /\ \A q \in Procs \ {p} : pc'[q] = pc[q]
    BY <1>1, <1>type DEF AcquireLock, TypeOK
  <2>3. RunInv(p)'
    BY <2>2 DEF RunInv
  <2>4. HeaderInv'
    BY <1>1, <1>base DEF HeaderInv, AcquireLock
  <2> QED
    BY <1>rest, <2>1, <2>2, <2>3, <2>4
<1>2. ASSUME NEW p \in Procs, CreateHeader(p) PROVE PowerInv'
  <2>1. /\ file.cells = <<>> /\ file'.cells = <<>> /\ file'.header = "ok"
        /\ inner'[p] = <<>> /\ pc'[p] = "open"
    BY <1>2, <1>base, <1>type DEF CreateHeader, HeaderInv, TypeOK, File
  <2>2. Len(Replay(file'.cells)) = 0 /\ Len(inner'[p]) = 0
    <3>1. n = 0 /\ Len(inner'[p]) = 0
      BY <2>1 DEF n
    <3>2. Len(R) = 0
      BY <1>v, <3>1
    <3> QED
      BY <2>1, <3>1, <3>2 DEF R
  <2>3. RunOf(Replay(file'.cells), inner'[p]) /\ EndOf(Replay(file'.cells), inner'[p])
    <3> DEFINE r == Replay(file'.cells)
               t == inner'[p]
    <3>1. Len(r) = 0 /\ Len(t) = 0
      BY <2>2
    <3> HIDE DEF r, t
    <3>2. RunOf(r, t) /\ EndOf(r, t)
      BY <3>1 DEF RunOf, EndOf
    <3> QED
      BY <3>2 DEF r, t
  <2>4. RunInv(p)' /\ HeaderInv'
    BY <2>1, <2>3 DEF RunInv, HeaderInv
  <2> QED
    BY <1>2, <1>step, <2>4 DEF CreateHeader
<1>3. ASSUME NEW p \in Procs, RejectHeader(p) PROVE PowerInv'
  BY <1>3, <1>base, <1>exit DEF RejectHeader, ReleaseLock, HeaderInv
<1>4. ASSUME NEW p \in Procs, ReplayFrames(p) PROVE PowerInv'
  <2>1. /\ file' = file /\ file.header = "ok" /\ pc'[p] = "replayed"
        /\ inner'[p] = Replay(file.cells)
    BY <1>4, <1>type DEF ReplayFrames, TypeOK
  <2>2. RunInv(p)' /\ HeaderInv'
    BY <2>1 DEF RunInv, HeaderInv
  <2> QED
    BY <1>4, <1>step, <2>2 DEF ReplayFrames
<1>5. ASSUME NEW p \in Procs, TruncateTail(p) PROVE PowerInv'
  <2>1. /\ file.header = "ok" /\ file'.header = "ok" /\ pc'[p] = "open"
        /\ file'.cells = SubSeq(file.cells, 1, Len(inner[p])) /\ inner' = inner
        /\ inner[p] = R
    BY <1>5, <1>base, <1>type DEF TruncateTail, TypeOK, File, RunInv, R
  <2>2. Len(file'.cells) = v /\ \A i \in 1..v : file'.cells[i] = file.cells[i]
    <3>1. file'.cells = SubSeq(file.cells, 1, v) /\ v \in 0..Len(file.cells)
      BY <1>v, <2>1 DEF n
    <3> QED
      BY <1>cells, <3>1
  <2>3. Replay(file'.cells) = R
    <3>1. v <= Len(file'.cells) /\ ~(v < Len(file'.cells))
      BY <1>v, <1>cells, <2>2 DEF n
    <3> QED
      BY <1>cells, <2>2, <3>1, ReplaySame DEF R, v
  <2>4. EndOf(R, R)
    BY <1>v DEF EndOf
  <2>5. RunOf(R, R)
    BY <1>v, <2>4, EndIsRun
  <2>6. RunInv(p)' /\ HeaderInv'
    BY <2>1, <2>3, <2>4, <2>5 DEF RunInv, HeaderInv
  <2> QED
    BY <1>5, <1>step, <2>6 DEF TruncateTail
<1>6. ASSUME NEW p \in Procs, OpenFault(p) PROVE PowerInv'
  <2>1. HeaderInv'
    BY <1>6, <1>base, <1>type DEF OpenFault, HeaderInv, TypeOK, File
  <2> QED
    BY <1>6, <1>exit, <2>1 DEF OpenFault, ReleaseLock
<1>7. ASSUME NEW p \in Procs, NEW e \in Entry, BeginFrame(p, e) PROVE PowerInv'
  <2>1. /\ pc[p] = "open" /\ pc'[p] = "framing" /\ file.header \in {"overwritten", "ok"}
        /\ inner' = inner /\ handle' = handle
        /\ RunOf(R, inner[p]) /\ (handle[p] = "end" /\ v = n => EndOf(R, inner[p]))
    BY <1>7, <1>base, <1>type DEF BeginFrame, TypeOK, RunInv, Clean, R, v, n
  <2>2. CASE handle[p] = "end"
    <3>1. file'.header = file.header /\ file'.cells = Append(file.cells, Torn(e))
      BY <1>7, <1>type, <2>1, <2>2 DEF BeginFrame, WriteCells, TypeOK, File
    <3>2. /\ Len(file'.cells) = n + 1 /\ file'.cells[n + 1] = Torn(e)
          /\ \A i \in 1..n : file'.cells[i] = file.cells[i]
      BY <1>cells, <3>1 DEF Torn, Cell, n
    <3>3. v <= Len(file'.cells) /\ \A i \in 1..v : file'.cells[i] = file.cells[i]
      BY <1>v, <1>cells, <3>2 DEF n
    <3>4. ~file'.cells[v + 1].full
      <4>1. CASE v = n
        BY <3>2, <4>1 DEF Torn
      <4>2. CASE v < n
        BY <1>v, <1>cells, <3>2, <4>2 DEF n
      <4> QED
        BY <1>v, <1>cells, <4>1, <4>2 DEF n
    <3>5. ValidFrames(file'.cells) = v /\ Replay(file'.cells) = R
      BY <1>cells, <3>3, <3>4, ReplaySame DEF R, v
    <3>6. /\ Len(file'.cells) - 1 = n /\ Len(file'.cells) > 0
          /\ ~file'.cells[Len(file'.cells)].full
      BY <1>cells, <3>2 DEF n, Torn
    <3>7. RunInv(p)' /\ HeaderInv'
      BY <2>1, <3>1, <3>5, <3>6 DEF RunInv, HeaderInv, Clean
    <3> QED
      BY <1>7, <1>step, <2>1, <3>7 DEF BeginFrame
  <2>3. CASE handle[p] # "end"
    <3>1. file'.header \in {"overwritten", "ok"} /\ file'.cells = file.cells
      BY <1>7, <1>type, <2>1, <2>3 DEF BeginFrame, WriteCells, TypeOK, File
    <3>2. RunInv(p)' /\ HeaderInv'
      BY <2>1, <2>3, <3>1 DEF RunInv, HeaderInv, R
    <3> QED
      BY <1>7, <1>step, <2>1, <3>2 DEF BeginFrame
  <2> QED
    BY <2>2, <2>3
<1>8. ASSUME NEW p \in Procs, WritePayload(p) PROVE PowerInv'
  <2>1. /\ pc[p] = "framing" /\ pc'[p] = "framed" /\ file.header \in {"overwritten", "ok"}
        /\ inner' = inner /\ handle' = handle /\ arg' = arg
        /\ arg[p] \in Entry
        /\ RunOf(R, inner[p]) /\ (handle[p] = "end" /\ v = n - 1 => EndOf(R, inner[p]))
    BY <1>8, <1>base, <1>type DEF WritePayload, TypeOK, RunInv, Clean, R, v, n,
                                  BaseInv, FramingInv
  <2>2. CASE handle[p] = "end"
    <3>1. n > 0 /\ ~file.cells[n].full
      BY <1>base, <2>1, <2>2 DEF RunInv, n
    <3>2. /\ file'.header = file.header
          /\ file'.cells = [file.cells EXCEPT ![n] = Whole(arg[p])]
      BY <1>8, <1>type, <2>1, <2>2 DEF WritePayload, WriteCells, TypeOK, File, n
    <3>3. /\ Len(file'.cells) = n
          /\ \A i \in 1..n :
                file'.cells[i] = IF i = n THEN Whole(arg[p]) ELSE file.cells[i]
      BY <1>cells, <2>1, <3>2, CompleteLastCell DEF n
    <3>4. v <= n - 1 /\ n \in Nat /\ v \in Nat
      BY <1>v, <1>cells, <3>1 DEF n
    <3>5. CASE v = n - 1
      <4>1. file'.cells[n] = Whole(arg[p]) /\ \A i \in 1..v : file'.cells[i] = file.cells[i]
        BY <3>1, <3>3, <3>4
      <4>2. \A i \in 1..n : file'.cells[i].full
        BY <1>v, <3>4, <3>5, <4>1 DEF Whole
      <4>3. /\ ValidFrames(file'.cells) = n /\ Len(Replay(file'.cells)) = n
            /\ \A i \in 1..n : Replay(file'.cells)[i] = file'.cells[i].entry
        BY <1>cells, <3>3, <4>2, ReplayWhole
      <4>4. /\ Len(Replay(file'.cells)) = Len(R) + 1
            /\ Replay(file'.cells)[Len(R) + 1] = arg[p]
            /\ \A i \in 1..Len(R) : Replay(file'.cells)[i] = R[i]
        <5>1. Len(R) = v /\ v + 1 = n /\ n \in 1..n
          BY <1>v, <3>4, <3>5
        <5>2. file'.cells[n].entry = arg[p]
          BY <4>1 DEF Whole
        <5>3. ASSUME NEW i \in 1..v PROVE Replay(file'.cells)[i] = R[i]
          BY <1>v, <3>4, <3>5, <4>1, <4>3
        <5> QED
          BY <4>3, <5>1, <5>2, <5>3
      <4>5. EndOf(Replay(file'.cells), Append(inner[p], arg[p]))
        BY <1>cells, <1>v, <2>1, <2>2, <3>5, <4>4, EndGrows
      <4> QED
        BY <2>1, <4>5, <3>2, <1>step, <1>8 DEF RunInv, HeaderInv, WritePayload
    <3>6. CASE v < n - 1
      <4>1. /\ v <= Len(file'.cells) /\ v + 1 \in 1..n /\ v + 1 # n /\ v < n
            /\ \A i \in 1..v : file'.cells[i] = file.cells[i]
        BY <3>3, <3>4, <3>6
      <4>2. ~file'.cells[v + 1].full
        BY <1>v, <3>3, <4>1
      <4>3. ValidFrames(file'.cells) = v /\ Replay(file'.cells) = R
        BY <1>cells, <4>1, <4>2, ReplaySame DEF R, v
      <4>4. ValidFrames(file'.cells) # Len(file'.cells)
        BY <3>3, <3>4, <3>6, <4>3
      <4>5. RunInv(p)' /\ HeaderInv'
        BY <2>1, <3>2, <4>3, <4>4 DEF RunInv, HeaderInv, Clean
      <4> QED
        BY <1>8, <1>step, <2>1, <4>5 DEF WritePayload
    <3> QED
      BY <3>4, <3>5, <3>6
  <2>3. CASE handle[p] # "end"
    <3>1. file'.header \in {"overwritten", "ok"} /\ file'.cells = file.cells
      BY <1>8, <1>type, <2>1, <2>3 DEF WritePayload, WriteCells, TypeOK, File
    <3>2. RunInv(p)' /\ HeaderInv'
      BY <2>1, <2>3, <3>1 DEF RunInv, HeaderInv, R
    <3> QED
      BY <1>8, <1>step, <2>1, <3>2 DEF WritePayload
  <2> QED
    BY <2>2, <2>3
<1>9. ASSUME NEW p \in Procs, Commit(p) PROVE PowerInv'
  <2>1. /\ pc[p] = "framed" /\ pc'[p] = "open" /\ file' = file
        /\ file.header \in {"overwritten", "ok"}
        /\ inner'[p] = Append(inner[p], arg[p]) /\ handle' = handle
        /\ arg[p] \in Entry
        /\ RunOf(R, inner[p]) \/ EndOf(R, Append(inner[p], arg[p]))
        /\ handle[p] = "end" /\ v = n => EndOf(R, Append(inner[p], arg[p]))
    BY <1>9, <1>base, <1>type DEF Commit, TypeOK, RunInv, Clean, R, v, n,
                                  BaseInv, FramingInv
  <2>2. Append(inner[p], arg[p]) \in Seq(Entry)
    BY <1>cells, <2>1, AppendProperties
  <2>3. RunOf(R, Append(inner[p], arg[p]))
    BY <1>cells, <1>v, <2>1, <2>2, RunGrows, EndIsRun
  <2>4. RunInv(p)' /\ HeaderInv'
    BY <2>1, <2>3 DEF RunInv, HeaderInv, Clean, R, v, n
  <2> QED
    BY <1>9, <1>step, <2>1, <2>4 DEF Commit
<1>10. ASSUME NEW p \in Procs, FrameFault(p) PROVE PowerInv'
  <2>1. /\ pc[p] \in {"open", "framing"} /\ pc'[p] = "open" /\ file' = file
        /\ file.header \in {"overwritten", "ok"}
        /\ inner' = inner /\ handle' = handle
        /\ RunOf(R, inner[p])
        /\ pc[p] = "open" /\ handle[p] = "end" /\ v = n => EndOf(R, inner[p])
        /\ pc[p] = "framing" /\ handle[p] = "end" => n > 0 /\ ~file.cells[n].full
    BY <1>10, <1>base, <1>type DEF FrameFault, TypeOK, RunInv, Clean, R, v, n
  <2>2. pc[p] = "framing" /\ handle[p] = "end" => v # n
    BY <1>v, <1>cells, <2>1 DEF n
  <2>3. RunInv(p)' /\ HeaderInv'
    BY <2>1, <2>2 DEF RunInv, HeaderInv, Clean, R, v, n
  <2> QED
    BY <1>10, <1>step, <2>1, <2>3 DEF FrameFault
<1>11. ASSUME NEW p \in Procs, CompactCreate(p) PROVE PowerInv'
  <2>1. /\ pc[p] = "open" /\ pc'[p] = "compacting" /\ file' = file
        /\ inner' = inner /\ handle' = handle
        /\ temp'.header = "ok" /\ temp'.cells = <<>>
    BY <1>11, <1>type DEF CompactCreate, TypeOK
  <2>2. Len(temp'.cells) = 0 /\ 0 <= MaxRetained
    BY <2>1, BoundsAssumption
  <2>3. RunInv(p)' /\ HeaderInv'
    BY <1>base, <2>1, <2>2 DEF RunInv, HeaderInv, Clean
  <2> QED
    BY <1>11, <1>step, <2>1, <2>3 DEF CompactCreate
<1>12. ASSUME NEW p \in Procs, CompactFrame(p) PROVE PowerInv'
  <2> DEFINE m == Len(temp.cells)
             k == Len(inner[p]) - MaxRetained
  <2>1. /\ pc[p] = "compacting" /\ pc' = pc /\ file' = file
        /\ inner' = inner /\ handle' = handle
        /\ temp.header = "ok" /\ temp'.header = temp.header
        /\ temp'.cells = Append(temp.cells, Whole(inner[p][k + m + 1]))
        /\ \A i \in 1..m : temp.cells[i] = Whole(inner[p][k + i])
        /\ m < MaxRetained
    BY <1>12, <1>base, <1>type DEF CompactFrame, TypeOK, File, RunInv
  <2>2. /\ Len(temp'.cells) = m + 1
        /\ temp'.cells[m + 1] = Whole(inner[p][k + m + 1])
        /\ \A i \in 1..m : temp'.cells[i] = temp.cells[i]
    BY <2>1, <1>cells
  <2>3. k \in Int /\ m \in Nat /\ MaxRetained \in Nat
    BY <1>cells, BoundsAssumption
  <2>4. \A i \in 1..(m + 1) : temp'.cells[i] = Whole(inner[p][k + i])
    <3> SUFFICES ASSUME NEW i \in 1..(m + 1)
                 PROVE  temp'.cells[i] = Whole(inner[p][k + i])
      OBVIOUS
    <3> HIDE DEF k, m
    <3>1. CASE i = m + 1
      <4>1. k + m + 1 = k + i
        BY <3>1, <2>3
      <4> QED
        BY <3>1, <4>1, <2>2
    <3>2. CASE i \in 1..m
      BY <3>2, <2>1, <2>2
    <3> QED
      BY <3>1, <3>2, <2>3
  <2>5. /\ Len(temp'.cells) <= MaxRetained
        /\ \A i \in 1..Len(temp'.cells) :
              temp'.cells[i] = Whole(inner[p][Len(inner[p]) - MaxRetained + i])
    BY <2>1, <2>2, <2>3, <2>4
  <2>6. RunInv(p)' /\ HeaderInv'
    BY <1>base, <2>1, <2>5 DEF RunInv, HeaderInv, Clean
  <2> QED
    BY <1>base, <1>rest, <2>1, <2>6, OthersClosed
<1>13. ASSUME NEW p \in Procs, CompactRename(p) PROVE PowerInv'
  <2>1. /\ pc[p] = "compacting" /\ pc'[p] = "renamed" /\ file' = temp
        /\ inner' = inner /\ temp.header = "ok" /\ Len(temp.cells) = MaxRetained
        /\ \A i \in 1..MaxRetained :
              temp.cells[i] = Whole(inner[p][Len(inner[p]) - MaxRetained + i])
        /\ Len(inner[p]) > MaxRetained
    BY <1>13, <1>base, <1>type DEF CompactRename, TypeOK, RunInv, BaseInv, CompactInv
  <2>2. ASSUME NEW i \in 1..MaxRetained
        PROVE  /\ temp.cells[i].full
               /\ temp.cells[i].entry = inner[p][Len(inner[p]) - MaxRetained + i]
    <3>1. temp.cells[i] = Whole(inner[p][Len(inner[p]) - MaxRetained + i])
      BY <2>1
    <3> QED
      BY <3>1 DEF Whole
  <2>3. /\ Len(Replay(temp.cells)) = MaxRetained
        /\ \A i \in 1..MaxRetained : Replay(temp.cells)[i] = temp.cells[i].entry
    BY <1>cells, <2>1, <2>2, ReplayWhole
  <2>4. EndOf(Replay(temp.cells), inner[p])
    <3>1. MaxRetained <= Len(inner[p])
      BY <1>cells, <2>1, BoundsAssumption
    <3> QED
      BY <2>2, <2>3, <3>1 DEF EndOf
  <2>5. RunOf(Replay(temp.cells), inner[p])
    BY <1>cells, <2>4, ReplayType, EndIsRun
  <2>6. RunInv(p)' /\ HeaderInv'
    BY <2>1, <2>4, <2>5 DEF RunInv, HeaderInv
  <2> QED
    BY <1>13, <1>step, <2>1, <2>6 DEF CompactRename
<1>14. ASSUME NEW p \in Procs, CompactReopen(p) PROVE PowerInv'
  <2>1. /\ pc[p] = "renamed" /\ pc'[p] = "open" /\ file' = file /\ inner' = inner
    BY <1>14, <1>type DEF CompactReopen, TypeOK
  <2>2. RunInv(p)' /\ HeaderInv'
    BY <1>base, <2>1 DEF RunInv, HeaderInv, Clean
  <2> QED
    BY <1>14, <1>step, <2>1, <2>2 DEF CompactReopen
<1>15. ASSUME NEW p \in Procs, CompactFault(p) PROVE PowerInv'
  <2>1. /\ pc[p] \in {"compacting", "renamed"} /\ pc'[p] = "open"
        /\ file' = file /\ inner' = inner
        /\ pc[p] = "compacting" => handle' = handle
    BY <1>15, <1>type DEF CompactFault, TypeOK
  <2>2. RunInv(p)' /\ HeaderInv'
    BY <1>base, <2>1 DEF RunInv, HeaderInv, Clean
  <2> QED
    BY <1>15, <1>step, <2>1, <2>2 DEF CompactFault
<1>16. ASSUME NEW p \in Procs, Close(p) PROVE PowerInv'
  BY <1>16, <1>base, <1>exit DEF Close, ReleaseLock, HeaderInv
<1>17. ASSUME NEW p \in Procs, Kill(p) PROVE PowerInv'
  BY <1>17, <1>base, <1>exit DEF Kill, HeaderInv
<1>18. CASE RemoveStaleLock
  <2>1. \A q \in Procs : pc'[q] = "closed"
    BY <1>18 DEF RemoveStaleLock
  <2>2. \A q \in Procs : RunInv(q)'
    BY <2>1 DEF RunInv
  <2> QED
    BY <1>18, <1>base, <2>2 DEF RemoveStaleLock, PowerInv, HeaderInv
<1>19. CASE UNCHANGED vars
  <2>1. ASSUME NEW q \in Procs PROVE RunInv(q)'
    <3>1. RunInv(q)
      BY <1>base
    <3> QED
      BY <1>19, <3>1 DEF vars, RunInv, Clean
  <2>2. HeaderInv'
    BY <1>19, <1>base DEF vars, HeaderInv
  <2> QED
    BY <1>base, <2>1, <2>2 DEF PowerInv
<1> QED
  BY <1>1, <1>2, <1>3, <1>4, <1>5, <1>6, <1>7, <1>8, <1>9, <1>10, <1>11, <1>12,
     <1>13, <1>14, <1>15, <1>16, <1>17, <1>18, <1>19
  DEF Next, OpenStep, BeginStep, ServeStep, FaultStep, BeginAppend,
      BeginRecordRevert, Entry

-----------------------------------------------------------------------------
(* The theorems *)

\* The invariant holds of every reachable state, power cuts included.
LEMMA PowerInvariant == PowerSpec => []PowerInv
<1>1. PowerInv /\ [PowerNext]_vars => PowerInv'
  BY ProcessStepKeeps, PowerCutKeeps DEF PowerNext
<1> QED
  BY <1>1, PowerInit, PTL DEF PowerSpec

\* The lock file keeps processes apart through failed system calls, kills and
\* power cuts, whether or not the lock file itself reached the disk.
THEOREM PowerMutualExclusion == PowerSpec => []SingleWriter
<1>1. PowerInv => SingleWriter
  BY DEF PowerInv, BaseInv
<1> QED
  BY <1>1, PowerInvariant, PTL

\* What the invariant says of the entries a process has written.
LEMMA RunMeaning ==
    ASSUME PowerInv, NEW p \in Procs, pc[p] \in Serving
    PROVE  /\ arg[p] = NoEntry => RunOf(Replay(file.cells), inner[p])
           /\ arg[p] # NoEntry => RunOf(Replay(file.cells), Append(inner[p], arg[p]))
<1>1. /\ inner[p] \in Seq(Entry) /\ arg[p] \in Entry \cup {NoEntry}
      /\ file.cells \in Seq(Cell) /\ RunInv(p)
      /\ pc[p] = "framed" => arg[p] \in Entry
  BY DEF PowerInv, BaseInv, TypeOK, File, FramingInv
<1>2. Replay(file.cells) \in Seq(Entry)
  BY <1>1, ReplayType
<1>3. \/ RunOf(Replay(file.cells), inner[p])
      \/ arg[p] \in Entry /\ EndOf(Replay(file.cells), Append(inner[p], arg[p]))
  BY <1>1 DEF RunInv, Serving
<1>4. CASE RunOf(Replay(file.cells), inner[p])
  BY <1>1, <1>2, <1>4, RunGrows
<1>5. CASE arg[p] \in Entry /\ EndOf(Replay(file.cells), Append(inner[p], arg[p]))
  <2>1. Append(inner[p], arg[p]) \in Seq(Entry)
    BY <1>1, <1>5, AppendProperties
  <2> QED
    BY <1>2, <1>5, <2>1, EndIsRun, EntryAssumption
<1> QED
  BY <1>3, <1>4, <1>5

\* Whatever fails, a restart recovers a contiguous run of what was written.
THEOREM RecoveryIsARun == PowerSpec => []RecoversContiguousRun
<1>1. PowerInv => RecoversContiguousRun
  <2> SUFFICES ASSUME PowerInv, NEW p \in Procs, pc[p] \in Serving
               PROVE  RunOf(Replay(file.cells),
                            IF arg[p] = NoEntry THEN inner[p]
                                                ELSE Append(inner[p], arg[p]))
    BY DEF RecoversContiguousRun, RunOf
  <2> QED
    BY RunMeaning
<1> QED
  BY <1>1, PowerInvariant, PTL

\* A beginning of a run of s is a subsequence of s.
LEMMA BeginningOfRun ==
    ASSUME NEW s \in Seq(Entry), NEW t \in Seq(Entry), NEW u \in Seq(Entry),
           RunOf(t, s), Len(u) <= Len(t), \A i \in 1..Len(u) : u[i] = t[i]
    PROVE  u \in SubSeqs(s)
<1>1. Len(s) \in Nat /\ Len(t) \in Nat /\ Len(u) \in Nat
  BY LenProperties
<1>2. PICK k \in 0..Len(s) : /\ k + Len(t) <= Len(s)
                             /\ \A i \in 1..Len(t) : t[i] = s[k + i]
  BY DEF RunOf
<1> DEFINE w == SubSeq(s, k + 1, k + Len(u))
<1>3. k + 1 \in Int /\ k + Len(u) \in 0..Len(s) /\ k \in 0..Len(s)
  BY <1>1, <1>2
<1>4. \A i \in (k + 1)..(k + Len(u)) : s[i] \in Entry
  <2>1. \A i \in (k + 1)..(k + Len(u)) : i \in 1..Len(s)
    BY <1>1, <1>2
  <2> QED
    BY <2>1, ElementOfSeq
<1>5. /\ w \in Seq(Entry)
      /\ Len(w) = IF k + 1 <= k + Len(u) THEN k + Len(u) - (k + 1) + 1 ELSE 0
      /\ \A i \in 1..(k + Len(u) - (k + 1) + 1) : w[i] = s[k + 1 + i - 1]
  BY <1>3, <1>4, SubSeqProperties
<1> HIDE DEF w
<1>6. Len(w) = Len(u)
  BY <1>1, <1>2, <1>5
<1>7. ASSUME NEW i \in 1..Len(u) PROVE u[i] = w[i]
  <2>1. /\ i \in 1..(k + Len(u) - (k + 1) + 1) /\ k + 1 + i - 1 = k + i
        /\ i \in 1..Len(t)
    BY <1>1, <1>2
  <2> QED
    BY <1>2, <1>5, <2>1
<1>8. u = w
  BY <1>5, <1>6, <1>7, SeqEqual
<1>9. \E i, j \in 0..Len(s) : u = SubSeq(s, i + 1, j)
  BY <1>3, <1>8 DEF w
<1> QED
  BY <1>9 DEF SubSeqs

\* The timeline of the process that serves, its pending entry included.
LEMMA WrittenServing ==
    ASSUME PowerInv, NEW p \in Procs, pc[p] \in Serving
    PROVE  Written = IF arg[p] = NoEntry THEN inner[p] ELSE Append(inner[p], arg[p])
<1>1. \A q \in Procs : pc[q] \in Serving => q = p
  BY DEF PowerInv, BaseInv, SingleWriter, Serving
<1>2. (CHOOSE q \in Procs : pc[q] \in Serving) = p
  BY <1>1
<1>3. inner[p] \in Seq(Entry) /\ arg[p] \in Entry \cup {NoEntry}
  BY DEF PowerInv, BaseInv, TypeOK
<1>4. Written = inner[p] \o (IF arg[p] = NoEntry THEN <<>> ELSE <<arg[p]>>)
  BY <1>2 DEF Written
<1>5. CASE arg[p] = NoEntry
  BY <1>3, <1>4, <1>5, ConcatEmptySeq
<1>6. CASE arg[p] # NoEntry
  <2>1. arg[p] \in Entry
    BY <1>3, <1>6
  <2>2. inner[p] \o <<arg[p]>> = Append(inner[p], arg[p])
    BY <1>3, <2>1, AppendIsConcat
  <2> QED
    BY <1>4, <1>6, <2>2
<1> QED
  BY <1>5, <1>6

\* Whichever pages a power cut takes, an open that does not refuse the header
\* rebuilds a contiguous run of the timeline.
THEOREM PowerCutIsSafe == PowerSpec => PowerCutLeavesARun
<1>1. ASSUME PowerInv, PowerCut, Openable(file')
      PROVE  Recovered(file') \in SubSeqs(Written)
  <2>1. /\ file \in File /\ file' \in File
        /\ Len(Replay(file'.cells)) <= Len(Replay(file.cells))
        /\ \A i \in 1..Len(Replay(file'.cells)) :
              Replay(file'.cells)[i] = Replay(file.cells)[i]
    BY <1>1, CutFile DEF PowerInv, BaseInv, TypeOK, PowerCut
  <2>2. Replay(file.cells) \in Seq(Entry) /\ Replay(file'.cells) \in Seq(Entry)
    BY <2>1, ReplayType DEF File
  <2>3. Written \in Seq(Entry) /\ RunOf(Replay(file.cells), Written)
    <3>1. CASE \E p \in Procs : pc[p] \in Serving
      <4>1. PICK p \in Procs : pc[p] \in Serving
        BY <3>1
      <4>2. /\ RunOf(Replay(file.cells), Written)
            /\ Written = IF arg[p] = NoEntry THEN inner[p] ELSE Append(inner[p], arg[p])
        BY <1>1, <4>1, RunMeaning, WrittenServing
      <4>3. inner[p] \in Seq(Entry) /\ arg[p] \in Entry \cup {NoEntry}
        BY <1>1 DEF PowerInv, BaseInv, TypeOK
      <4> QED
        BY <4>2, <4>3, AppendProperties
    <3>2. CASE ~\E p \in Procs : pc[p] \in Serving
      <4>1. Written = Replay(file.cells)
        BY <3>2 DEF Written
      <4>2. EndOf(Replay(file.cells), Replay(file.cells))
        BY <2>2, LenProperties DEF EndOf
      <4> QED
        BY <2>2, <4>1, <4>2, EndIsRun
    <3> QED
      BY <3>1, <3>2
  <2>4. Recovered(file') = Replay(file'.cells)
    BY <1>1 DEF Recovered
  <2> QED
    BY <2>1, <2>2, <2>3, <2>4, BeginningOfRun
<1>2. PowerInv => [PowerCut /\ Openable(file') => Recovered(file') \in SubSeqs(Written)]_vars
  BY <1>1
<1> QED
  BY <1>2, PowerInvariant, PTL DEF PowerSpec, PowerCutLeavesARun
=============================================================================
