----------------------------- MODULE FsckProofs -----------------------------
(* Theorems about Fsck, for every geometry, every system whose directories *)
(* fsck.cpm knows and every damaged image.                                 *)
EXTENDS Fsck, CpmFSProofs

USE DEF NoSlot, Unset, Free, Sfcb

-----------------------------------------------------------------------------
(* The questions                                                           *)

LEMMA ChecksAre ==
  /\ DOMAIN Checks = 1 .. 7 /\ Len(Checks) = 7
  /\ Checks[1] = "name" /\ Checks[2] = "lrc" /\ Checks[3] = "block"
  /\ Checks[4] = "count" /\ Checks[5] = "mode" /\ Checks[6] = "password"
  /\ Checks[7] = "status"
  /\ \A k \in 1 .. 7 :
       Checks[k] \in {"lrc", "mode", "password"} <=> k \in {2, 5, 6}
  BY DEF Checks

\* the entry e has passed the questions up to the n-th
PassesTo(e, n) == \A k \in 1 .. 7 : k <= n => ~Fails(e, Checks[k])

\* what a repair is, per question
LEMMA RepairCases ==
  ASSUME NEW e, NEW check, NEW r \in Repairs(e, check)
  PROVE  \/ check = "lrc" /\ r = [e EXCEPT !.lrc = 0]
         \/ /\ check = "mode"
            /\ \E bit \in {"access", "create"} :
                 r = [e EXCEPT !.attr = e.attr \ {bit}]
         \/ check = "password" /\ r = [e EXCEPT !.attr = e.attr \ {"unprintable"}]
         \/ /\ check \notin {"lrc", "mode", "password"}
            /\ r = [e EXCEPT !.status = Free]
<1>1. CASE check = "lrc"
  BY <1>1, Zenon DEF Repairs
<1>2. CASE check = "mode"
  BY <1>2, Zenon DEF Repairs
<1>3. CASE check = "password"
  BY <1>3, Zenon DEF Repairs
<1>4. CASE check \notin {"lrc", "mode", "password"}
  BY <1>4, Zenon DEF Repairs
<1>5. QED
  BY <1>1, <1>2, <1>3, <1>4, Zenon

\* A repair keeps the type and the blocks of an entry, and its status unless
\* it frees the entry.
LEMMA RepairKeeps ==
  ASSUME NEW e \in Entry, NEW check, NEW r \in Repairs(e, check)
  PROVE  /\ r \in Entry
         /\ r.ptr = e.ptr
         /\ \/ r.status = e.status /\ check \in {"lrc", "mode", "password"}
            \/ r.status = Free
<1>1. CASE check = "lrc"
  <2>1. r = [e EXCEPT !.lrc = 0]
    BY <1>1, RepairCases
  <2>2. QED
    BY <1>1, <2>1 DEF Entry
<1>2. CASE check \in {"mode", "password"}
  <2>1. \E bit : r = [e EXCEPT !.attr = e.attr \ {bit}]
    BY <1>2, RepairCases, ZenonT(30)
  <2>2. PICK bit : r = [e EXCEPT !.attr = e.attr \ {bit}]
    BY <2>1, Zenon
  <2>3. QED
    BY <1>2, <2>2 DEF Entry
<1>3. CASE check \notin {"lrc", "mode", "password"}
  <2>1. r = [e EXCEPT !.status = Free]
    BY <1>3, RepairCases
  <2>2. QED
    BY <1>3, <2>1 DEF Entry, Status
<1>4. QED
  BY <1>1, <1>2, <1>3

\* No repair makes a new fault: an entry that has passed the questions before
\* the k-th passes the k-th as well once it is repaired.
LEMMA RepairHeals ==
  ASSUME NEW e \in Entry, NEW k \in 1 .. 7, PassesTo(e, k - 1),
         NEW r \in Repairs(e, Checks[k])
  PROVE  PassesTo(r, k)
<1>1. CASE k \notin {2, 5, 6}
  <2>1. r = [e EXCEPT !.status = Free]
    BY <1>1, ChecksAre, RepairCases
  <2>2. r.status = 229
    BY <2>1 DEF Entry
  <2>3. ~HoldsFile(r) /\ ~HoldsPassword(r) /\ ~HoldsLabel(r) /\ HoldsNothing(r)
    BY <2>2 DEF HoldsFile, HoldsPassword, HoldsLabel, HoldsNothing, Label
  <2>4. \A check : ~Fails(r, check)
    BY <2>3 DEF Fails
  <2>5. QED
    BY <2>4 DEF PassesTo
<1>2. CASE k = 2
  <2>1. r = [e EXCEPT !.lrc = 0]
    BY <1>2, ChecksAre, RepairCases
  <2>2. r.status = e.status /\ r.name = e.name /\ r.lrc = 0
    BY <2>1 DEF Entry
  <2>3. ~Fails(e, Checks[1])
    BY <1>2 DEF PassesTo
  <2>4. ~Fails(r, Checks[1])
    BY <2>2, <2>3, ChecksAre DEF Fails, HoldsFile, HoldsPassword
  <2>5. ~Fails(r, Checks[2])
    BY <2>2, ChecksAre, Geometry DEF Fails
  <2>6. QED
    BY <1>2, <2>4, <2>5 DEF PassesTo
<1>3. CASE k \in {5, 6}
  <2>1. \E b : /\ r = [e EXCEPT !.attr = e.attr \ {b}]
               /\ \/ k = 5 /\ b \in {"access", "create"}
                  \/ k = 6 /\ b = "unprintable"
    BY <1>3, ChecksAre, RepairCases
  <2>2. PICK bit : /\ r = [e EXCEPT !.attr = e.attr \ {bit}]
                   /\ \/ k = 5 /\ bit \in {"access", "create"}
                      \/ k = 6 /\ bit = "unprintable"
    BY <2>1, Zenon
  <2>7. /\ r.status = e.status /\ r.name = e.name /\ r.lrc = e.lrc
        /\ r.blkcnt = e.blkcnt /\ r.extno = e.extno /\ r.ptr = e.ptr
        /\ r.attr = e.attr \ {bit}
    BY <2>2 DEF Entry
  <2>3. \A n \in 1 .. 7 : n < k => ~Fails(e, Checks[n])
    BY <1>3 DEF PassesTo
  <2>4. ASSUME NEW n \in 1 .. 5, n < k PROVE ~Fails(r, Checks[n])
    BY <2>7, <2>3, <2>4, ChecksAre
       DEF Fails, HoldsFile, HoldsPassword, HoldsLabel, BadBlock, Refs,
           RecordBlocks, UsedBlocks, CountedPtrs
  <2>5. ~Fails(r, Checks[k])
    BY <1>3, <2>2, <2>7, <2>3, ChecksAre DEF Fails, HoldsLabel, HoldsPassword
  <2>6. QED
    BY <1>3, <2>4, <2>5 DEF PassesTo
<1>4. QED
  BY <1>1, <1>2, <1>3

\* Each entry that cpmfs takes for a file is one whose blocks fsck looks at:
\* where the two disagree about a status, fsck refuses the status.
LEMMA FilesAreHeld ==
  ASSUME NEW e \in Entry, e.status <= MaxFileUser, ~Fails(e, "status")
  PROVE  HoldsFile(e)
<1>1. e.status \in 0 .. 31
  BY Geometry DEF Entry, Status
<1>2. \/ HoldsFile(e) \/ HoldsDates(e) \/ HoldsLabel(e)
      \/ HoldsPassword(e) \/ HoldsNothing(e)
  BY DEF Fails
<1>3. ~HoldsDates(e) /\ ~HoldsLabel(e) /\ ~HoldsNothing(e)
  BY <1>1 DEF HoldsDates, HoldsLabel, HoldsNothing, Label
<1>4. HoldsPassword(e) => HoldsFile(e)
  BY <1>1 DEF HoldsPassword, MaxFileUser, HoldsFile
<1>5. QED
  BY <1>2, <1>3, <1>4

LEMMA PassedIsSound ==
  ASSUME NEW d \in [Slot -> Entry], Passes(d)
  PROVE  NotShared(d) /\ InDataArea(d)
<1>1. \A s \in Slot : ~Fails(d[s], "block") /\ ~Fails(d[s], "status")
  BY ChecksAre DEF Passes
<1>2. \A s \in FileSlots(d) : s \in Slot /\ HoldsFile(d[s])
  BY <1>1, FilesAreHeld DEF FileSlots
<1>3. InDataArea(d)
  <2> SUFFICES ASSUME NEW s \in FileSlots(d), NEW b \in Refs(d[s])
               PROVE  b \in DirBlks .. Size - 1
    BY DEF InDataArea
  <2>1. ~BadBlock(d[s])
    BY <1>1, <1>2 DEF Fails
  <2>2. d[s].ptr \in [PtrIx -> Nat]
    BY <1>2, EntryFields
  <2>3. b \in Nat
    BY <2>2 DEF Refs
  <2>4. QED
    BY <2>1, <2>3, Geometry DEF BadBlock
<1>4. NotShared(d)
  <2> SUFFICES ASSUME NEW s \in FileSlots(d), NEW t \in FileSlots(d),
                      NEW i \in PtrIx, NEW j \in PtrIx,
                      d[s].ptr[i] # 0, d[s].ptr[i] = d[t].ptr[j],
                      <<s, i>> # <<t, j>>
               PROVE  FALSE
    BY DEF NotShared
  <2>1. s \in Slot /\ t \in Slot /\ HoldsFile(d[s]) /\ HoldsFile(d[t])
    BY <1>2
  <2>2. DoubleBlocks(d)
    BY <2>1, Zenon DEF DoubleBlocks
  <2>3. QED
    BY <2>2 DEF Passes
<1>5. QED
  BY <1>3, <1>4

-----------------------------------------------------------------------------
(* Sessions                                                                *)

\* What fsck is through with has passed, unless a question was declined.
Cleared ==
  "BROKEN" \notin ck.ret =>
    /\ ck.phase = "extents" =>
         /\ \A s \in Slot : s < ck.extent => PassesTo(dir[s], 7)
         /\ PassesTo(dir[ck.extent], ck.asked)
    /\ ck.phase \in {"connectivity", "end"} =>
         \A s \in Slot : PassesTo(dir[s], 7)
    /\ ck.phase = "end" => ~DoubleBlocks(dir) /\ ~DoubleExtents(dir)

\* Repairs are made in core: the image has the blocks of each entry still, and
\* its status unless fsck has freed it.
Behind ==
  \A s \in Slot : /\ dir[s].ptr = disk[s].ptr
                  /\ dir[s].status \in {disk[s].status, Free}

FsckInv == FsckTypeOK /\ Quiet /\ ~dirty /\ Cleared /\ Behind

LEMMA FsckInvInit == FsckInit => FsckInv
<1> SUFFICES ASSUME FsckInit PROVE FsckInv
  OBVIOUS
<1>1. disk \in [Slot -> Entry] /\ dir = disk
  BY FsckAssumption DEF FsckInit, FsckAssumption
<1>2. alv \subseteq Block
  BY AlvInitType DEF FsckInit
<1>3. fd \in [Handles -> Inode] /\ \A h \in Handles : ~IsOpen(h)
  BY DEF FsckInit, Inode, Closed, InodeOf, IsOpen
<1>4. wr \in WriteCall /\ wr.phase = "idle"
  BY DEF FsckInit, WriteCall, Returned
<1>5. TypeOK
  BY <1>1, <1>2, <1>3, <1>4 DEF FsckInit, TypeOK
<1>6. ck \in Locals /\ ck.phase = "none"
  BY ChecksAre, Geometry DEF FsckInit, Locals, NotRunning, Slot
<1>7. QED
  BY <1>1, <1>4, <1>5, <1>6 DEF FsckInit, FsckInv, FsckTypeOK, Quiet, Cleared,
                                Behind

\* the start of the next session
LEMMA MountStep ==
  ASSUME FsckInv, Mount, disk' = disk, UNCHANGED wr, ck' = NotRunning,
         told' \in {"nothing", "clean", "modified", "broken"}
  PROVE  FsckInv'
<1>1. disk' \in [Slot -> Entry] /\ dir' = disk'
  BY DEF Mount, FsckInv, FsckTypeOK, TypeOK
<1>2. alv' \subseteq Block
  BY AlvInitType DEF Mount
<1>3. fd' \in [Handles -> Inode] /\ \A h \in Handles : fd'[h].file = "none"
  BY DEF Mount, Inode, Closed, InodeOf
<1>4. TypeOK' /\ Quiet' /\ ~dirty'
  BY <1>1, <1>2, <1>3 DEF Mount, FsckInv, FsckTypeOK, TypeOK, Quiet, IsOpen
<1>5. ck' \in Locals /\ ck'.phase = "none"
  BY ChecksAre, Geometry DEF Locals, NotRunning, Slot
<1>6. QED
  BY <1>1, <1>4, <1>5 DEF FsckInv, FsckTypeOK, Cleared, Behind

\* what the loop of phase 1 does to the locals
LEMMA LocalsSet ==
  ASSUME ck \in Locals, NEW n \in 0 .. 7, NEW R \in SUBSET {"MODIFIED", "BROKEN"},
         NEW x \in Slot
  PROVE  /\ [ck EXCEPT !.asked = n, !.ret = R] \in Locals
         /\ [ck EXCEPT !.extent = x, !.asked = n] \in Locals
<1> DEFINE asked == [ck EXCEPT !.asked = n]
           at    == [ck EXCEPT !.extent = x]
<1>1. asked \in Locals /\ at \in Locals
  BY ChecksAre DEF Locals
<1>2. /\ [ck EXCEPT !.asked = n, !.ret = R] = [asked EXCEPT !.ret = R]
      /\ [ck EXCEPT !.extent = x, !.asked = n] = [at EXCEPT !.asked = n]
  BY DEF Locals
<1> HIDE DEF asked, at
<1>3. [asked EXCEPT !.ret = R] \in Locals /\ [at EXCEPT !.asked = n] \in Locals
  BY <1>1, ChecksAre DEF Locals
<1>4. QED
  BY <1>2, <1>3

\* the question that is asked next: those before it have been passed
LEMMA FaultIs ==
  ASSUME FsckInv, NEW k \in Fault
  PROVE  /\ k \in 1 .. 7 /\ ck.extent \in Slot /\ k > ck.asked
         /\ Fails(dir[ck.extent], Checks[k])
         /\ PassesTo(dir[ck.extent], ck.asked)
              => PassesTo(dir[ck.extent], k - 1)
<1> DEFINE S == {n \in DOMAIN Checks :
                   n > ck.asked /\ Fails(dir[ck.extent], Checks[n])}
<1>1. k \in S /\ \A n \in S : k <= n
  BY Zenon DEF Fault, Firsts
<1>2. ck.extent \in Slot /\ ck.asked \in 0 .. 7
  BY ChecksAre DEF FsckInv, FsckTypeOK, Locals
<1>3. \A n \in 1 .. 7 : n > ck.asked /\ Fails(dir[ck.extent], Checks[n])
                          => k <= n
  BY <1>1, ChecksAre
<1>4. QED
  BY <1>1, <1>2, <1>3, ChecksAre DEF PassesTo

LEMMA FsckInvStep ==
  ASSUME FsckInv, [FsckNext]_fsckvars
  PROVE  FsckInv'
<1> USE DEF FsckInv, FsckTypeOK
<1>1. ASSUME NEW norepair \in BOOLEAN, Run(norepair)
      PROVE  FsckInv'
  <2>1. /\ ck' = [phase |-> "extents", norepair |-> norepair, extent |-> 0,
                  asked |-> 0, ret |-> {}]
        /\ UNCHANGED <<dir, alv, dirty, disk, fd, wr, told>>
    BY <1>1 DEF Run, NotRunning
  <2>2. ck' \in Locals
    BY <2>1, ChecksAre, Geometry DEF Locals, Slot
  <2>3. Cleared'
    BY <2>1 DEF Cleared, PassesTo, Slot
  <2>4. QED
    BY <2>1, <2>2, <2>3 DEF TypeOK, Quiet, Behind, IsOpen
<1>2. ASSUME NEW k \in DOMAIN Checks, Repair(k)
      PROVE  FsckInv'
  <2>1. /\ k \in Fault /\ ck.phase = "extents"
        /\ ck' = [ck EXCEPT !.asked = k, !.ret = @ \cup {"MODIFIED"}]
        /\ UNCHANGED <<alv, dirty, disk, fd, wr, told>>
    BY <1>2 DEF Repair
  <2>2. PICK r \in Repairs(dir[ck.extent], Checks[k]) :
          dir' = [dir EXCEPT ![ck.extent] = r]
    BY <1>2, Zenon DEF Repair
  <2>3. k \in 1 .. 7 /\ ck.extent \in Slot /\ dir[ck.extent] \in Entry
    BY <2>1, FaultIs DEF TypeOK
  <2>4. /\ r \in Entry /\ r.ptr = dir[ck.extent].ptr
        /\ r.status \in {dir[ck.extent].status, Free}
    BY <2>3, RepairKeeps
  <2>5. \A s \in Slot : dir'[s] = IF s = ck.extent THEN r ELSE dir[s]
    BY <2>2, <2>3 DEF TypeOK
  <2>6. dir' \in [Slot -> Entry] /\ TypeOK' /\ Quiet' /\ ~dirty'
    BY <2>1, <2>2, <2>4 DEF TypeOK, Quiet, IsOpen
  <2>7. ck' \in Locals /\ ck'.extent = ck.extent /\ ck'.phase = "extents"
        /\ ck'.asked = k /\ ck'.ret = ck.ret \cup {"MODIFIED"}
    <3>1. k \in 0 .. 7 /\ ck.ret \cup {"MODIFIED"} \in SUBSET {"MODIFIED", "BROKEN"}
      BY <2>3 DEF Locals
    <3>2. ck' \in Locals
      BY <2>1, <2>3, <3>1, LocalsSet
    <3>3. QED
      BY <2>1, <3>2 DEF Locals
  <2>8. Cleared'
    <3>1. "BROKEN" \in ck'.ret <=> "BROKEN" \in ck.ret
      BY <2>7
    <3> SUFFICES ASSUME "BROKEN" \notin ck.ret
                 PROVE  /\ \A s \in Slot : s < ck.extent => PassesTo(dir'[s], 7)
                        /\ PassesTo(dir'[ck.extent], k)
      BY <2>7, <3>1 DEF Cleared
    <3>2. PassesTo(dir[ck.extent], k - 1)
      BY <2>1, FaultIs DEF Cleared
    <3>3. PassesTo(r, k)
      BY <2>3, <3>2, RepairHeals
    <3>4. QED
      BY <2>1, <2>3, <2>5, <3>3 DEF Cleared, Slot
  <2>9. Behind'
    BY <2>1, <2>4, <2>5 DEF Behind
  <2>10. QED
    BY <2>1, <2>6, <2>7, <2>8, <2>9
<1>3. ASSUME NEW k \in DOMAIN Checks, Decline(k)
      PROVE  FsckInv'
  <2>1. /\ k \in Fault /\ ck.phase = "extents"
        /\ ck' = [ck EXCEPT !.asked = k, !.ret = @ \cup {"BROKEN"}]
        /\ UNCHANGED <<dir, alv, dirty, disk, fd, wr, told>>
    BY <1>3 DEF Decline
  <2>2. ck' \in Locals /\ "BROKEN" \in ck'.ret
    <3>1. /\ k \in 0 .. 7 /\ ck.extent \in Slot
          /\ ck.ret \cup {"BROKEN"} \in SUBSET {"MODIFIED", "BROKEN"}
      BY ChecksAre DEF Locals
    <3>2. ck' \in Locals
      BY <2>1, <3>1, LocalsSet
    <3>3. QED
      BY <2>1, <3>2 DEF Locals
  <2>3. QED
    BY <2>1, <2>2 DEF TypeOK, Quiet, Behind, Cleared, IsOpen
<1>4. CASE NextEntry
  <2>1. /\ ck.phase = "extents" /\ Fault = {}
        /\ UNCHANGED <<dir, alv, dirty, disk, fd, wr, told>>
    BY <1>4 DEF NextEntry
  <2>2. ck.extent \in Slot /\ ck.asked \in 0 .. 7
    BY ChecksAre DEF Locals
  <2>3. "BROKEN" \notin ck.ret => PassesTo(dir[ck.extent], 7)
    <3> SUFFICES ASSUME "BROKEN" \notin ck.ret, ~PassesTo(dir[ck.extent], 7)
                 PROVE  FALSE
      OBVIOUS
    <3> DEFINE Bad(n) == n > ck.asked /\ Fails(dir[ck.extent], Checks[n])
    <3>1. PICK n \in 1 .. 7 : Fails(dir[ck.extent], Checks[n])
      BY DEF PassesTo
    <3>2. Bad(n)
      BY <2>1, <2>2, <3>1 DEF Cleared, PassesTo
    <3> HIDE DEF Bad
    <3>3. \E m \in 1 .. 7 : Bad(m) /\ \A l \in 1 .. 7 : Bad(l) => m <= l
      BY <3>2
    <3>4. PICK m \in 1 .. 7 : Bad(m) /\ \A l \in 1 .. 7 : Bad(l) => m <= l
      BY <3>3
    <3>5. m \in Fault
      BY <3>4, ChecksAre DEF Bad, Fault, Firsts
    <3>6. QED
      BY <2>1, <3>5
  <2>4. CASE ck.extent < MaxDir - 1
    <3>1. ck' = [ck EXCEPT !.extent = @ + 1, !.asked = 0]
      BY <1>4, <2>4 DEF NextEntry
    <3>2. /\ ck' \in Locals /\ ck'.phase = "extents" /\ ck'.asked = 0
          /\ ck'.extent = ck.extent + 1 /\ ck'.ret = ck.ret
      <4>1. ck.extent + 1 \in Slot /\ ck.ret \in SUBSET {"MODIFIED", "BROKEN"}
        BY <2>2, <2>4, Geometry DEF Locals, Slot
      <4>2. [ck EXCEPT !.extent = ck.extent + 1, !.asked = 0] \in Locals
        <5>1. 0 \in 0 .. 7 /\ ck \in Locals
          OBVIOUS
        <5>2. QED
          BY <4>1, <5>1, LocalsSet, Zenon
      <4>3. QED
        BY <2>1, <3>1, <4>2, Zenon DEF Locals
    <3>3. Cleared'
      BY <2>1, <2>2, <2>3, <3>2 DEF Cleared, PassesTo, Slot
    <3>4. QED
      BY <2>1, <3>2, <3>3 DEF TypeOK, Quiet, Behind, IsOpen
  <2>5. CASE ~(ck.extent < MaxDir - 1)
    <3>1. ck' = [ck EXCEPT !.phase = "connectivity"]
      BY <1>4, <2>5 DEF NextEntry
    <3>2. /\ ck' \in Locals /\ ck'.phase = "connectivity"
          /\ ck'.ret = ck.ret
      BY <3>1 DEF Locals
    <3>3. \A s \in Slot : s < ck.extent \/ s = ck.extent
      BY <2>2, <2>5, Geometry DEF Slot
    <3>4. Cleared'
      BY <2>1, <2>3, <3>2, <3>3 DEF Cleared
    <3>5. QED
      BY <2>1, <3>2, <3>4 DEF TypeOK, Quiet, Behind, IsOpen
  <2>6. QED
    BY <2>4, <2>5
<1>5. CASE Connectivity
  <2>1. /\ ck.phase = "connectivity"
        /\ ck' = [ck EXCEPT !.phase = "end",
                    !.ret = @ \cup (IF DoubleBlocks(dir) \/ DoubleExtents(dir)
                                   THEN {"BROKEN"} ELSE {})]
        /\ UNCHANGED <<dir, alv, dirty, disk, fd, wr, told>>
    BY <1>5 DEF Connectivity
  <2>2. /\ ck' \in Locals /\ ck'.phase = "end"
        /\ "BROKEN" \notin ck'.ret =>
             /\ "BROKEN" \notin ck.ret
             /\ ~DoubleBlocks(dir) /\ ~DoubleExtents(dir)
    BY <2>1 DEF Locals
  <2>3. Cleared'
    BY <2>1, <2>2, SMTT(30) DEF Cleared, DoubleBlocks, DoubleExtents
  <2>4. QED
    BY <2>1, <2>2, <2>3 DEF TypeOK, Quiet, Behind, IsOpen
<1>6. CASE End
  BY <1>6, MountStep DEF End
<1>7. CASE Hangup
  BY <1>7, MountStep DEF Hangup
<1>8. CASE UNCHANGED fsckvars
  BY <1>8 DEF fsckvars, TypeOK, Quiet, Behind, Cleared, IsOpen, DoubleBlocks,
              DoubleExtents
<1>9. QED
  BY <1>1, <1>2, <1>3, <1>4, <1>5, <1>6, <1>7, <1>8 DEF FsckNext, FsckStep

\* The session keeps its types, and fsck its place within the directory.
THEOREM FsckTypeCorrect == FsckSpec => []FsckTypeOK
<1>1. FsckInv /\ [FsckNext]_fsckvars => FsckInv'
  BY FsckInvStep
<1>2. FsckInv => FsckTypeOK
  BY DEF FsckInv
<1>3. QED
  BY <1>1, <1>2, FsckInvInit, PTL DEF FsckSpec

\* A directory that fsck has not called broken is one on which cpmfs is safe,
\* no shared block and none outside the data area, and fsck would pass it
\* again: for every image however damaged, and every way to answer.
THEOREM VerdictSound == FsckSpec => []VerdictIsSound
<1>1. FsckInv /\ [FsckNext]_fsckvars => FsckInv'
  BY FsckInvStep
<1>2. FsckInv => VerdictIsSound
  <2> SUFFICES ASSUME FsckInv, ck.phase = "end", "BROKEN" \notin ck.ret
               PROVE  NotShared(dir) /\ InDataArea(dir) /\ Passes(dir)
    BY DEF VerdictIsSound
  <2>1. Passes(dir)
    BY ChecksAre DEF FsckInv, Cleared, PassesTo, Passes
  <2>2. dir \in [Slot -> Entry]
    BY DEF FsckInv, FsckTypeOK, TypeOK
  <2>3. QED
    BY <2>1, <2>2, PassedIsSound
<1>3. QED
  BY <1>1, <1>2, FsckInvInit, PTL DEF FsckSpec

\* fsck does not touch the blocks or the user of a file that is in order.
THEOREM GoodFilesKept == FsckSpec => GoodFilesStay
<1> DEFINE Good(s) == /\ dir[s].name \notin BadNames
                      /\ Refs(dir[s]) \subseteq DirBlks .. Size - 1
                      /\ RecordBlocks(dir[s]) = UsedBlocks(dir[s])
                      /\ dir[s].status <= 15
           Stays(s) == dir'[s].ptr = dir[s].ptr /\ dir'[s].status = dir[s].status
           Stay == \A s \in FileSlots(dir) : Good(s) => Stays(s)
<1>1. FsckInv /\ [FsckNext]_fsckvars => FsckInv'
  BY FsckInvStep
<1>2. FsckInv /\ [FsckNext]_fsckvars => [Stay]_vars
  <2> SUFFICES ASSUME FsckInv, FsckNext, NEW s \in FileSlots(dir), Good(s)
               PROVE  Stays(s)
    BY DEF fsckvars, vars
  <2>0. s \in Slot /\ dir[s] \in Entry /\ dir[s].status \in 0 .. 15
    <3>1. s \in Slot /\ dir[s].status <= 15
      BY DEF FileSlots
    <3>2. dir[s] \in Entry
      BY <3>1 DEF FsckInv, FsckTypeOK, TypeOK
    <3>3. dir[s].status \in Status
      BY <3>2, EntryFields
    <3>4. QED
      BY <3>1, <3>2, <3>3 DEF Status
  <2>1. CASE dir' = dir
    BY <2>1
  <2>2. ASSUME NEW k \in DOMAIN Checks, Repair(k)
        PROVE  Stays(s)
    <3>1. k \in Fault
      BY <2>2 DEF Repair
    <3>2. /\ k \in 1 .. 7 /\ ck.extent \in Slot
          /\ Fails(dir[ck.extent], Checks[k])
      BY <3>1, FaultIs
    <3>3. PICK r \in Repairs(dir[ck.extent], Checks[k]) :
            dir' = [dir EXCEPT ![ck.extent] = r]
      BY <2>2, Zenon DEF Repair
    <3>4. CASE s # ck.extent
      BY <3>3, <3>4, <2>0 DEF FsckInv, FsckTypeOK, TypeOK
    <3>5. CASE s = ck.extent
      <4>1. HoldsFile(dir[s]) /\ ~HoldsLabel(dir[s]) /\ ~HoldsPassword(dir[s])
        BY <2>0 DEF HoldsFile, HoldsLabel, HoldsPassword, Label
      <4>2. ~BadBlock(dir[s])
        BY Geometry DEF BadBlock
      <4>3. Checks[k] = "lrc"
        BY <3>2, <3>5, <4>1, <4>2, ChecksAre DEF Fails
      <4>4. r = [dir[s] EXCEPT !.lrc = 0]
        <5>1. r \in Repairs(dir[s], "lrc")
          BY <3>5, <4>3
        <5>2. \/ "lrc" = "lrc" /\ r = [dir[s] EXCEPT !.lrc = 0]
              \/ "lrc" \in {"mode", "password"}
              \/ "lrc" \notin {"lrc", "mode", "password"}
          BY <5>1, RepairCases, Zenon
        <5>3. QED
          BY <5>2, Zenon
      <4>5. dir'[s] = r
        BY <3>3, <3>5, <2>0 DEF FsckInv, FsckTypeOK, TypeOK
      <4>6. QED
        BY <2>0, <4>4, <4>5 DEF Entry
    <3>6. QED
      BY <3>4, <3>5
  <2>3. CASE End \/ Hangup
    <3>1. dir' = disk
      BY <2>3 DEF End, Hangup, Mount, FsckInv
    <3>2. disk[s].ptr = dir[s].ptr /\ disk[s].status = dir[s].status
      BY <2>0 DEF FsckInv, Behind
    <3>3. QED
      BY <3>1, <3>2
  <2>4. QED
    BY <2>1, <2>2, <2>3
       DEF FsckNext, FsckStep, Run, Decline, NextEntry, Connectivity
<1>3. QED
  BY <1>1, <1>2, FsckInvInit, PTL DEF FsckSpec, GoodFilesStay

=============================================================================
