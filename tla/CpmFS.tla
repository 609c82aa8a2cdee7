------------------------------- MODULE CpmFS -------------------------------
(***************************************************************************)
(* The in-core CP/M file system of src/src/cpmfs.c: the directory buffer   *)
(* dir[] of struct cpmSuperBlock, the allocation vector alv, the inodes    *)
(* (struct cpmInode, struct cpmFile) that callers hold, and the directory  *)
(* as it lies on the disk image.  One process uses the library and the     *)
(* library has no threads, so every call is one action; only cpmWrite,     *)
(* whose loop writes data blocks to the image one by one, is split into    *)
(* the steps of its loop, and nothing but the death of the process can     *)
(* come between two of them.  cpmSync writes the directory sector by       *)
(* sector; where it is cut short, by an error or by the death of the       *)
(* process, is an input of the step.  A call that returns -1 and changes   *)
(* nothing is a stuttering step and is not written down.                   *)
(*                                                                         *)
(* Abstracted: file names are members of Names (8+3 bytes without bit 7),  *)
(* attribute bits a set, time stamps are left out except for what they do  *)
(* to directory entries that hold files (see Restamped and Stamped).       *)
(***************************************************************************)
EXTENDS Integers, FiniteSets

CONSTANTS
  \* @geometry, the fields of struct cpmSuperBlock that the operations read
  MaxDir,      \* maxdir: directory entries
  Size,        \* size: blocks of the volume, directory included
  DirBlks,     \* dirblks: blocks reserved for the directory
  BlkSiz,      \* blksiz: bytes of a block
  SecLength,   \* secLength: bytes of a sector
  PerSec,      \* directory entries of a sector, secLength / 32
  NPtr,        \* block pointers of an entry: 16, or 8 when size > 256
  Extents,     \* extents: logical extents of a physical extent
  Logical,     \* bytes of a logical extent, 16384 in the code
  RecLen,      \* bytes of a record, 128 in the code
  \* @type, the bits of d->type
  MaxStatus,   \* 31 with CPMFS_HI_USER, else 15: statuses taken for files
  HasXfcbs,    \* CPMFS_HAS_XFCBS: statuses 16..31 are password entries
  Cpm3Dates,   \* CPMFS_CPM3_DATES: each fourth entry holds time stamps
  MpmDates,    \* CPMFS_MPM_DATES: password entries hold time stamps
  MakeXfcbs,   \* cmakexfcbs: the disc label asks for an XFCB per file
  ExactSize,   \* CPMFS_EXACT_SIZE: lrc counts the unused bytes
  \* @inputs
  Users, Names, NoName, Handles,
  Attrs,       \* attributes that clients set, "RO" the one that is looked at
  Images,      \* the directories that images may hold when they are mounted
  Stamps,      \* what time stamps leave in the pointer bytes of an XFCB
  MaxCount,    \* bound: bytes of one cpmWrite call
  MaxPos       \* bound: bytes of a file

Slot     == 0 .. MaxDir - 1
Block    == 0 .. Size - 1
PtrIx    == 0 .. NPtr - 1
Status   == 0 .. 255                     \* an unsigned char
Free     == 229                          \* status 0xe5
Sfcb     == 33                           \* status 0x21, time stamps
NoSlot   == -1
Unset    == -2                           \* what an uninitialised xfcb holds
ZeroPtrs == [i \in PtrIx |-> 0]

ExtCap == IF NPtr * BlkSiz > Logical THEN Logical * Extents ELSE NPtr * BlkSiz

Entry == [status : Status, name : Names \cup {NoName}, attr : SUBSET Attrs,
          extno : 0 .. 2047, blkcnt : Nat, lrc : Nat, ptr : [PtrIx -> Nat]]

\* The highest status of a file: statuses 16..31 belong to passwords where
\* the format has them.
MaxFileUser == IF HasXfcbs THEN 15 ELSE MaxStatus

ASSUME GeometryAssumption ==
  /\ {MaxDir, Size, DirBlks, BlkSiz, SecLength, PerSec, NPtr, Extents, Logical,
      RecLen} \subseteq Nat \ {0}
  /\ DirBlks <= Size
  /\ Logical % BlkSiz = 0
  /\ ExtCap <= NPtr * BlkSiz
  /\ MaxStatus \in {15, 31}
  /\ {HasXfcbs, Cpm3Dates, MpmDates, MakeXfcbs, ExactSize} \subseteq BOOLEAN
  /\ HasXfcbs => MaxStatus = 31
  /\ MakeXfcbs => MpmDates
  /\ MpmDates => HasXfcbs /\ ~Cpm3Dates
  /\ Cpm3Dates => MaxDir % 4 = 0

ASSUME InputAssumption ==
  /\ Users \subseteq 0 .. MaxStatus
  /\ NoName \notin Names
  /\ Images \subseteq [Slot -> Entry]
  /\ Stamps \subseteq [PtrIx -> Nat]
  /\ MaxCount \in Nat /\ MaxPos \in Nat

VARIABLES
  dir,    \* sb->dir, the directory in core
  alv,    \* sb->alv, the blocks whose bit is set
  dirty,  \* sb->dirtyDirectory
  disk,   \* the directory as it lies on the image
  fd,     \* the struct cpmInode and struct cpmFile behind each handle
  wr      \* the locals of the cpmWrite call that has not returned

vars == <<dir, alv, dirty, disk, fd, wr>>

Inode == [slot : Slot \cup {NoSlot}, size : Int, attr : SUBSET Attrs,
          mode : {"rw", "r"}, xfcb : Slot \cup {NoSlot, Unset},
          file : {"open", "none"}, pos : Nat]

InodeOf(slot, size, attr, xfcb, mode) ==
  [slot |-> slot, size |-> size, attr |-> attr, mode |-> mode, xfcb |-> xfcb,
   file |-> "none", pos |-> 0]

Closed == InodeOf(NoSlot, 0, {}, Unset, "rw")

IsOpen(h) == fd[h].file = "open"

ModeOf(attr) == IF "RO" \in attr THEN "r" ELSE "rw"

\* got: whether the last call wrote all the bytes it was given.
WriteCall == [phase : {"idle", "extent", "block", "fill"}, h : Handles,
              count : Nat, extent : Slot \cup {NoSlot}, extno : Nat,
              got : {"all", "less"}]

TypeOK ==
  /\ dir \in [Slot -> Entry]
  /\ alv \subseteq Block
  /\ dirty \in BOOLEAN
  /\ disk \in [Slot -> Entry]
  /\ fd \in [Handles -> Inode]
  /\ wr \in WriteCall
  /\ wr.phase # "idle" =>
       IsOpen(wr.h) /\ fd[wr.h].slot # NoSlot /\ wr.count > 0
  /\ wr.phase \in {"block", "fill"} => wr.extent # NoSlot
  /\ \A h \in Handles : IsOpen(h) => fd[h].slot # NoSlot

-----------------------------------------------------------------------------
(* Directory lookups                                                       *)

\* What a loop that returns at its first hit returns: one element, or none.
Firsts(S) == {s \in S : \A t \in S : s <= t}

\* findFileExtent with extno -1, over all start values
Match(d, user, name) ==
  {s \in Slot : d[s].status <= MaxStatus /\ d[s].status = user
                                         /\ d[s].name = name}

\* findFileExtent with an extent number
MatchExtent(d, user, name, extno) ==
  {s \in Match(d, user, name) :
     d[s].extno \div Extents = extno \div Extents}

FreeSlots(d) == {s \in Slot : d[s].status = Free}

FileSlots(d) == {s \in Slot : d[s].status <= MaxFileUser}

Refs(entry) == {entry.ptr[i] : i \in PtrIx} \ {0}

\* faults: alvInit misses the last entry, or the last pointer of each entry
AlvInitShort(d) ==
  0 .. DirBlks - 1 \cup
  {b \in Block : \E s \in Slot : /\ s < MaxDir - 1 /\ d[s].status <= MaxStatus
                               /\ b \in Refs(d[s])}
AlvInitLess(d) ==
  0 .. DirBlks - 1 \cup
  {b \in Block : \E s \in Slot, i \in 0 .. NPtr - 2 :
                   d[s].status <= MaxStatus /\ b = d[s].ptr[i]}

\* alvInit: password entries are not told apart from files
AlvInit(d) ==
  0 .. DirBlks - 1 \cup
  {b \in Block : \E s \in Slot : d[s].status <= MaxStatus /\ b \in Refs(d[s])}

\* cpmNamei's lowestExt and highestExt
Lowest(d, S) ==
  {s \in S : \A t \in S : \/ d[s].extno < d[t].extno
                          \/ d[s].extno = d[t].extno /\ s <= t}
Highest(d, S) ==
  {s \in S : \A t \in S : \/ d[s].extno > d[t].extno
                          \/ d[s].extno = d[t].extno /\ s <= t}

\* the size that the highest extent of a file stands for
LastRecord(entry) ==
  IF ExactSize THEN RecLen - entry.lrc
  ELSE IF entry.lrc = 0 THEN RecLen ELSE entry.lrc
SizeOf(entry) ==
  entry.extno * Logical +
  (IF entry.blkcnt = 0 THEN 0
   ELSE (entry.blkcnt - 1) * RecLen + LastRecord(entry))

\* fault: cpmReaddir lists the entries of extent 0
ListedZero(d) == {s \in Slot : d[s].status <= MaxStatus /\ d[s].extno = 0}

\* cpmReaddir: the entries it lists, those with no lower extent elsewhere
Listed(d) ==
  {s \in Slot : /\ d[s].status <= MaxStatus
                /\ \A t \in Match(d, d[s].status, d[s].name) :
                     d[s].extno <= d[t].extno}

-----------------------------------------------------------------------------
(* What a directory has to be: sb->dir and the one on the image            *)

\* Two pointers of files never name the same block (cpm.5: "A file may not
\* share blocks with other files").
NotShared(d) ==
  \A s, t \in FileSlots(d) : \A i, j \in PtrIx :
    d[s].ptr[i] # 0 /\ d[s].ptr[i] = d[t].ptr[j] => s = t /\ i = j

\* Files live behind the directory and in front of the end of the volume.
InDataArea(d) ==
  \A s \in FileSlots(d) : Refs(d[s]) \subseteq DirBlks .. Size - 1

\* No two entries stand for the same physical extent of a file: which of the
\* two the lookups find would depend on their order.
OneEntryPerExtent(d) ==
  \A s \in FileSlots(d) :
    MatchExtent(d, d[s].status, d[s].name, d[s].extno) = {s}

Sound(d) == NotShared(d) /\ InDataArea(d) /\ OneEntryPerExtent(d)

\* The images mounted are sound; fsck.cpm is for the others.
ASSUME ImageAssumption == \A d \in Images : Sound(d)

-----------------------------------------------------------------------------
(* Time stamps, as far as they touch the rest of the state                 *)

\* updateTimeStamps: the entry that closes a group of four takes the dates of
\* the other three
Stamped(d, s) == Cpm3Dates /\ d[s - (s % 4) + 3].status = Sfcb

\* updateTimeStamps: dates go to the last eight pointer bytes of the XFCB
Restamped(d, xfcb) ==
  IF MpmDates /\ xfcb # NoSlot
  THEN {[d EXCEPT ![xfcb].ptr = p] : p \in Stamps}
  ELSE {d}

-----------------------------------------------------------------------------
(* Calls on the directory                                                  *)

Quiet == wr.phase = "idle"

Returned(h, got) == [phase |-> "idle", h |-> h, count |-> 0, extent |-> NoSlot,
                     extno |-> 0, got |-> got]

Init ==
  /\ disk \in Images
  /\ dir = disk
  /\ alv = AlvInit(disk)
  /\ dirty = FALSE
  /\ fd = [h \in Handles |-> Closed]
  /\ \E h \in Handles :
       wr = Returned(h, "all")

NewEntry(user, name) ==
  [status |-> user, name |-> name, attr |-> {}, extno |-> 0, blkcnt |-> 0,
   lrc |-> 0, ptr |-> ZeroPtrs]

\* The inode of a new file; cpmCreat leaves ino->attr as it was.
Created(h, s, xfcb) ==
  \E garbage \in SUBSET Attrs :
    fd' = [fd EXCEPT ![h] = InodeOf(s, 0, garbage, xfcb, "rw")]

\* fault: cpmCreat does not look whether the file exists
CreatPlainAgain(h, user, name) ==
  /\ Quiet
  /\ ~MakeXfcbs /\ ~HasXfcbs
  /\ \E s \in Firsts(FreeSlots(dir)) :
       /\ dir' = [dir EXCEPT ![s] = NewEntry(user, name)]
       /\ Created(h, s, NoSlot)
  /\ dirty' = TRUE
  /\ UNCHANGED <<alv, disk, wr>>

\* cpmCreat where the file gets its entry and no XFCB has to be made
CreatPlain(h, user, name) ==
  /\ Quiet
  /\ Match(dir, user, name) = {}
  /\ \E s \in Firsts(FreeSlots(dir)) :
       LET d == [dir EXCEPT ![s] = NewEntry(user, name)]
           old == IF HasXfcbs THEN Match(d, user + 16, name) ELSE {}
       IN /\ old # {} \/ ~MakeXfcbs
          /\ \E x \in IF old = {} THEN {NoSlot} ELSE Firsts(old) :
               /\ dir' \in Restamped(d, x)
               /\ Created(h, s, x)
  /\ dirty' = TRUE
  /\ UNCHANGED <<alv, disk, wr>>

\* fault: the dates of the XFCB go to the entry of the file
CreatWithXfcbSwapped(h, user, name) ==
  /\ Quiet
  /\ MakeXfcbs
  /\ Match(dir, user, name) = {}
  /\ \E s \in Firsts(FreeSlots(dir)) :
       LET d == [dir EXCEPT ![s] = NewEntry(user, name)]
       IN /\ Match(d, user + 16, name) = {}
          /\ \E x \in Firsts(FreeSlots(d)) :
               /\ dir' \in Restamped([d EXCEPT ![x] =
                                        NewEntry(user + 16, name)], s)
               /\ Created(h, s, x)
  /\ dirty' = TRUE
  /\ UNCHANGED <<alv, disk, wr>>

\* cpmCreat where the disc label asks for an XFCB that is not there yet
CreatWithXfcb(h, user, name) ==
  /\ Quiet
  /\ MakeXfcbs
  /\ Match(dir, user, name) = {}
  /\ \E s \in Firsts(FreeSlots(dir)) :
       LET d == [dir EXCEPT ![s] = NewEntry(user, name)]
       IN /\ Match(d, user + 16, name) = {}
          /\ \E x \in Firsts(FreeSlots(d)) :
               /\ dir' \in Restamped([d EXCEPT ![x] =
                                        NewEntry(user + 16, name)], x)
               /\ Created(h, s, x)
  /\ dirty' = TRUE
  /\ UNCHANGED <<alv, disk, wr>>

\* cpmCreat that finds no room for the XFCB: it fails, and the file stays
CreatHalf(h, user, name) ==
  /\ Quiet
  /\ MakeXfcbs
  /\ Match(dir, user, name) = {}
  /\ \E s \in Firsts(FreeSlots(dir)) :
       /\ dir' = [dir EXCEPT ![s] = NewEntry(user, name)]
       /\ Match(dir', user + 16, name) = {}
       /\ FreeSlots(dir') = {}
  /\ fd' = [fd EXCEPT ![h] = Closed]
  /\ dirty' = TRUE
  /\ UNCHANGED <<alv, disk, wr>>

\* cpmNamei; it leaves i->xfcb as it was
Namei(h, user, name) ==
  /\ Quiet
  /\ \E low \in Lowest(dir, Match(dir, user, name)),
        high \in Highest(dir, Match(dir, user, name)) :
       fd' = [fd EXCEPT ![h] = InodeOf(low, SizeOf(dir[high]), dir[low].attr,
                                       Unset, ModeOf(dir[low].attr))]
  /\ UNCHANGED <<dir, alv, dirty, disk, wr>>

\* fault: cpmOpen does not look at the inode
OpenUnchecked(h) ==
  /\ Quiet
  /\ fd' = [fd EXCEPT ![h].file = "open", ![h].pos = 0]
  /\ UNCHANGED <<dir, alv, dirty, disk, wr>>

\* cpmOpen for writing.  Under MpmDates an inode that cpmNamei filled is not
\* written through: its xfcb is uninitialised and dates would go anywhere.
Open(h) ==
  /\ Quiet
  /\ fd[h].slot # NoSlot
  /\ fd[h].mode = "rw"
  /\ MpmDates => fd[h].xfcb # Unset
  /\ fd' = [fd EXCEPT ![h].file = "open", ![h].pos = 0]
  /\ UNCHANGED <<dir, alv, dirty, disk, wr>>

Erased(S) ==
  dir' = [s \in Slot |-> IF s \in S THEN [dir[s] EXCEPT !.status = Free]
                         ELSE dir[s]]

\* faults: cpmUnlink does not call alvInit, does not set dirtyDirectory, or
\* erases the XFCB of whatever file
UnlinkLeaky(user, name) ==
  /\ Quiet
  /\ Match(dir, user, name) # {}
  /\ Erased(Match(dir, user, name))
  /\ dirty' = TRUE
  /\ UNCHANGED <<alv, disk, fd, wr>>
UnlinkUnsaved(user, name) ==
  /\ Quiet
  /\ Match(dir, user, name) # {}
  /\ Erased(Match(dir, user, name))
  /\ alv' = AlvInit(dir')
  /\ UNCHANGED <<dirty, disk, fd, wr>>
UnlinkAnyXfcb(user, name) ==
  /\ Quiet
  /\ Match(dir, user, name) # {}
  /\ Erased(Match(dir, user, name)
             \cup Firsts({s \in Slot : dir[s].status = user + 16}))
  /\ alv' = AlvInit(dir')
  /\ dirty' = TRUE
  /\ UNCHANGED <<disk, fd, wr>>

\* cpmUnlink.  Under MpmDates no handle is left on the file: its xfcb could
\* by then be an entry of another file.
Unlink(user, name) ==
  /\ Quiet
  /\ Match(dir, user, name) # {}
  /\ MpmDates => \A h \in Handles : fd[h].slot \notin Match(dir, user, name)
  /\ LET xfcbs == IF HasXfcbs THEN Firsts(Match(dir, user + 16, name)) ELSE {}
     IN Erased(Match(dir, user, name) \cup xfcbs)
  /\ alv' = AlvInit(dir')
  /\ dirty' = TRUE
  /\ UNCHANGED <<disk, fd, wr>>

Renamed(d, S, user, name) ==
  [s \in Slot |-> IF s \in S THEN [d[s] EXCEPT !.status = user, !.name = name]
                  ELSE d[s]]

\* cpmRename; the XFCB is looked up after the file's entries were changed
Rename(user, name, newuser, newname) ==
  /\ Quiet
  /\ Match(dir, user, name) # {}
  /\ Match(dir, newuser, newname) = {}
  /\ LET d == Renamed(dir, Match(dir, user, name), newuser, newname)
         xfcbs == IF HasXfcbs THEN Firsts(Match(d, user + 16, name)) ELSE {}
     IN dir' = Renamed(d, xfcbs, newuser + 16, newname)
  /\ dirty' = TRUE
  /\ UNCHANGED <<alv, disk, fd, wr>>

\* fault: cpmAttrSet sets the inode's own entry only
AttrSetOwn(h, attr) ==
  /\ Quiet
  /\ fd[h].slot # NoSlot
  /\ dir' = [dir EXCEPT ![fd[h].slot].attr = attr]
  /\ fd' = [fd EXCEPT ![h].attr = attr, ![h].mode = ModeOf(attr)]
  /\ dirty' = TRUE
  /\ UNCHANGED <<alv, disk, wr>>

\* cpmAttrSet: the inode's own entry and the matching ones behind it
AttrSet(h, attr) ==
  /\ Quiet
  /\ fd[h].slot # NoSlot
  /\ LET own == dir[fd[h].slot]
         S   == {fd[h].slot} \cup
                {s \in Match(dir, own.status, own.name) : s > fd[h].slot}
     IN dir' = [s \in Slot |-> IF s \in S THEN [dir[s] EXCEPT !.attr = attr]
                               ELSE dir[s]]
  /\ fd' = [fd EXCEPT ![h].attr = attr, ![h].mode = ModeOf(attr)]
  /\ dirty' = TRUE
  /\ UNCHANGED <<alv, disk, wr>>

\* cpmChmod
Chmod(h, writable) ==
  AttrSet(h, (fd[h].attr \ {"RO"}) \cup (IF writable THEN {} ELSE {"RO"}))

\* cpmUtime
Utime(h) ==
  /\ Quiet
  /\ fd[h].slot # NoSlot
  /\ MpmDates => fd[h].xfcb # Unset
  /\ dir' \in Restamped(dir, fd[h].xfcb)
  /\ dirty' = (dirty \/ Stamped(dir, fd[h].slot))
  /\ UNCHANGED <<alv, disk, fd, wr>>

-----------------------------------------------------------------------------
(* cpmWrite: each round of its loop finds an extent if the last one ended, *)
(* then a block, fills it and writes it                                    *)

PtrAt(pos) == (pos % ExtCap) \div BlkSiz

Finish(got) == wr' = Returned(wr.h, got)

\* The locals after a step that does not return.
Go(phase, h, count, extent, extno) ==
  wr' = [phase |-> phase, h |-> h, count |-> count, extent |-> extent,
         extno |-> extno, got |-> wr.got]

WriteBegin(h, count) ==
  /\ Quiet
  /\ IsOpen(h)
  /\ fd[h].pos + count <= MaxPos
  /\ Go("extent", h, count, NoSlot, 0)
  /\ UNCHANGED <<dir, alv, dirty, disk, fd>>

\* the position, the entry of the inode, and the extent that holds the position
Pos == fd[wr.h].pos
Own == dir[fd[wr.h].slot]

\* fault: extents are compared as logical ones
ExtentExact ==
  Firsts({s \in Match(dir, Own.status, Own.name) :
            dir[s].extno = Pos \div Logical})

Extent == Firsts(MatchExtent(dir, Own.status, Own.name, Pos \div Logical))

UseExtent(s) == Go("block", wr.h, wr.count, s, Pos \div Logical)
UseBlock     == Go("fill", wr.h, wr.count, wr.extent, wr.extno)

ExtentFound ==
  /\ wr.phase = "extent"
  /\ \E s \in Extent : UseExtent(s)
  /\ UNCHANGED <<dir, alv, dirty, disk, fd>>

\* A copy of the inode's entry, without blocks
Extended(entry, extno) ==
  [status |-> entry.status, name |-> entry.name, attr |-> entry.attr,
   extno |-> extno % 2048, blkcnt |-> 0, lrc |-> 0, ptr |-> ZeroPtrs]

\* The new entry is in core before dirtyDirectory is set.
ExtentAdded ==
  /\ wr.phase = "extent"
  /\ Extent = {}
  /\ \E s \in Firsts(FreeSlots(dir)) :
       /\ dir' \in Restamped(
            [dir EXCEPT ![s] = Extended(Own, Pos \div Logical)],
            fd[wr.h].xfcb)
       /\ dirty' = (dirty \/ Stamped(dir, s))
       /\ UseExtent(s)
  /\ UNCHANGED <<alv, disk, fd>>

ExtentDenied ==  \* directory full
  /\ wr.phase = "extent"
  /\ Extent = {}
  /\ FreeSlots(dir) = {}
  /\ Finish("less")
  /\ UNCHANGED <<dir, alv, dirty, disk, fd>>

Cell == dir[wr.extent].ptr[PtrAt(Pos)]

\* Whether the sector at one end of the bytes to write is only partly written
\* and so has to be read first.
PartialSectors(pos, count) ==
  \/ pos % SecLength # 0
  \/ /\ (pos % BlkSiz) + count < BlkSiz
     /\ (pos + count) % SecLength # 0
     /\ (pos % BlkSiz) \div SecLength
          # ((pos % BlkSiz) + count - 1) \div SecLength

BlockFound ==
  /\ wr.phase = "block"
  /\ Cell # 0
  /\ UseBlock
  /\ UNCHANGED <<dir, alv, dirty, disk, fd>>

BlockUnreadable ==  \* readBlock fails, the device or the block number is bad
  /\ wr.phase = "block"
  /\ Cell # 0
  /\ PartialSectors(Pos, wr.count)
  /\ Finish("less")
  /\ UNCHANGED <<dir, alv, dirty, disk, fd>>

\* faults: allocBlock leaves the bit clear; cpmWrite allocates where there is a
\* block
BlockAllocatedUnmarked ==
  /\ wr.phase = "block"
  /\ Cell = 0
  /\ \E b \in Firsts(Block \ alv) :
       dir' \in Restamped([dir EXCEPT ![wr.extent].ptr[PtrAt(Pos)] = b],
                          fd[wr.h].xfcb)
  /\ dirty' = (dirty \/ Stamped(dir, wr.extent))
  /\ UseBlock
  /\ UNCHANGED <<alv, disk, fd>>
BlockAllocatedAnew ==
  /\ wr.phase = "block"
  /\ \E b \in Firsts(Block \ alv) :
       /\ alv' = alv \cup {b}
       /\ dir' \in Restamped([dir EXCEPT ![wr.extent].ptr[PtrAt(Pos)] = b],
                             fd[wr.h].xfcb)
  /\ dirty' = (dirty \/ Stamped(dir, wr.extent))
  /\ UseBlock
  /\ UNCHANGED <<disk, fd>>

BlockAllocated ==
  /\ wr.phase = "block"
  /\ Cell = 0
  /\ \E b \in Firsts(Block \ alv) :
       /\ alv' = alv \cup {b}
       /\ dir' \in Restamped([dir EXCEPT ![wr.extent].ptr[PtrAt(Pos)] = b],
                             fd[wr.h].xfcb)
  /\ dirty' = (dirty \/ Stamped(dir, wr.extent))
  /\ UseBlock
  /\ UNCHANGED <<disk, fd>>

BlockDenied ==  \* device full
  /\ wr.phase = "block"
  /\ Cell = 0
  /\ Block \subseteq alv
  /\ Finish("less")
  /\ UNCHANGED <<dir, alv, dirty, disk, fd>>

\* fault: one byte less when the block is filled up
RoomLess(pos, count) ==
  IF count < BlkSiz - (pos % BlkSiz) THEN count
  ELSE BlkSiz - 1 - (pos % BlkSiz)

\* The bytes of a call that go into the current block.
Room(pos, count) ==
  IF count < BlkSiz - (pos % BlkSiz) THEN count ELSE BlkSiz - (pos % BlkSiz)

\* last: the index of the last block pointer of the entry, at least 0
Last(entry) == {i \in PtrIx : /\ i = 0 \/ entry.ptr[i] # 0
                              /\ \A j \in PtrIx : j > i => entry.ptr[j] = 0}

\* fault: the records of pos, not those before it, are counted
RecordedLate(entry, extno, pos) ==
  [entry EXCEPT !.extno = extno % 2048,
                !.blkcnt = (pos % Logical) \div RecLen + 1,
                !.lrc = IF ExactSize THEN (RecLen - (pos % RecLen)) % RecLen
                        ELSE pos % RecLen]

\* The entry's record of where the file ends, once pos is reached.
Recorded(entry, extno, pos) ==
  [status |-> entry.status, name |-> entry.name, attr |-> entry.attr,
   extno  |-> extno % 2048,
   blkcnt |-> ((pos - 1) % Logical) \div RecLen + 1,
   lrc    |-> IF ExactSize THEN (RecLen - (pos % RecLen)) % RecLen
              ELSE pos % RecLen,
   ptr    |-> entry.ptr]

Filled ==
  /\ wr.phase = "fill"
  /\ \E last \in Last(dir[wr.extent]) :
     LET n     == Room(Pos, wr.count)
         pos   == Pos + n
         extno == wr.extno + (last * BlkSiz) \div ExtCap
     IN /\ dir' \in Restamped(
             [dir EXCEPT ![wr.extent] = Recorded(@, extno, pos)],
             fd[wr.h].xfcb)
        /\ fd' = [fd EXCEPT ![wr.h].pos = pos,
                            ![wr.h].size = IF @ < pos THEN pos ELSE @]
        /\ \/ n = wr.count /\ Finish("all")
           \/ /\ n < wr.count
              /\ Go(IF pos % ExtCap = 0 THEN "extent" ELSE "block",
                    wr.h, wr.count - n, wr.extent, extno)
  /\ dirty' = TRUE
  /\ UNCHANGED <<alv, disk>>

WriteStep ==
  \/ ExtentFound \/ ExtentAdded \/ ExtentDenied
  \/ BlockFound \/ BlockUnreadable \/ BlockAllocated \/ BlockDenied
  \/ Filled

-----------------------------------------------------------------------------
(* Sessions: cpmSync, cpmUmount, cpmReadSuper and the death of the process *)

\* The image once cpmSync has written the first n sectors of the directory:
\* writeBlock goes through a block sector by sector.
Written(n) == [s \in Slot |-> IF s < n * PerSec THEN dir[s] ELSE disk[s]]

DirSectors == (MaxDir + PerSec - 1) \div PerSec

\* cpmSync
Sync ==
  /\ Quiet
  /\ disk' = IF dirty THEN Written(DirSectors) ELSE disk
  /\ dirty' = FALSE
  /\ UNCHANGED <<dir, alv, fd, wr>>

\* cpmSync that returns -1, at the first sector that can not be written
SyncFailed ==
  /\ Quiet
  /\ dirty
  /\ \E n \in 0 .. DirSectors - 1 : disk' = Written(n)
  /\ UNCHANGED <<dir, alv, dirty, fd, wr>>

\* fault: cpmReadSuper does not call alvInit
MountStale ==
  /\ dir' = disk'
  /\ dirty' = FALSE
  /\ fd' = [h \in Handles |-> Closed]
  /\ UNCHANGED alv

\* cpmReadSuper: what a new session starts from
Mount ==
  /\ dir' = disk'
  /\ alv' = AlvInit(disk')
  /\ dirty' = FALSE
  /\ fd' = [h \in Handles |-> Closed]

\* cpmUmount, and the next session
Remount ==
  /\ Quiet
  /\ disk' = IF dirty THEN Written(DirSectors) ELSE disk
  /\ Mount
  /\ UNCHANGED wr

\* The process dies before cpmUmount or in its cpmSync, or that cpmSync fails,
\* which cpmUmount does not look at; and the next session.  The part of a
\* directory that is on the image by then need not be sound, and an image that
\* is not is for fsck.cpm: here sessions start on sound ones.
Crash ==
  /\ \/ UNCHANGED disk
     \/ Quiet /\ dirty /\ \E n \in 1 .. DirSectors - 1 : disk' = Written(n)
  /\ Sound(disk')
  /\ Mount
  /\ Finish("less")

\* Modes a client passes to cpmChmod; without "RO" in Attrs it never asks for
\* a read-only file.
Modes == IF "RO" \in Attrs THEN BOOLEAN ELSE {TRUE}

Call ==
  \/ \E h \in Handles, u \in Users, n \in Names :
       \/ CreatPlain(h, u, n) \/ CreatWithXfcb(h, u, n) \/ CreatHalf(h, u, n)
       \/ Namei(h, u, n)
  \/ \E u \in Users, n \in Names :
       \/ Unlink(u, n)
       \/ \E v \in Users, m \in Names : Rename(u, n, v, m)
  \/ \E h \in Handles :
       \/ Open(h) \/ Utime(h)
       \/ \E a \in SUBSET Attrs : AttrSet(h, a)
       \/ \E writable \in Modes : Chmod(h, writable)
       \/ \E count \in 1 .. MaxCount : WriteBegin(h, count)
  \/ Sync \/ SyncFailed

Next == Call \/ WriteStep \/ Remount \/ Crash

\* A cpmWrite that was called runs on: nothing in its loop waits.
Spec == Init /\ [][Next]_vars /\ WF_vars(WriteStep)

-----------------------------------------------------------------------------
(* Correctness                                                             *)

\* Whatever calls were made, cut short by a full disk or by a read error, no
\* two files share a block and none has a block of the directory.
BlocksAreOwned == NotShared(dir) /\ InDataArea(dir)

\* allocBlock can not give away a block that a file or the directory uses.
AlvCovers ==
  /\ 0 .. DirBlks - 1 \subseteq alv
  /\ \A s \in FileSlots(dir) : Refs(dir[s]) \subseteq alv

\* cpmCreat, cpmRename and cpmWrite never give a file a second entry for an
\* extent it has.
ExtentsAreUnique == OneEntryPerExtent(dir)

\* cpmReaddir lists each file under exactly one entry, the one cpmNamei finds.
ListedOnce ==
  \A u \in Users, n \in Names :
    Listed(dir) \cap Match(dir, u, n) = Lowest(dir, Match(dir, u, n))

\* dirtyDirectory is clear only if the image holds all that the buffer holds,
\* a cpmSync that failed half way and one that was then repeated included: at
\* most a new extent without blocks, left by a full disk, is lost.
CleanMeansSaved ==
  Quiet /\ ~dirty =>
    \A s \in Slot :
      \/ dir[s] = disk[s]
      \/ disk[s].status = Free /\ Refs(dir[s]) = {}

\* The file an entry belongs to, its password entry included
Owner(entry) == <<entry.status % 16, entry.name>>

\* A step of a session changes live entries of one file only.
OneFileAtATime ==
  [][ dir' # disk' =>
      \A s, t \in Slot :
        /\ dir[s].status <= MaxStatus /\ dir'[s] # dir[s]
        /\ dir[t].status <= MaxStatus /\ dir'[t] # dir[t]
        => Owner(dir[s]) = Owner(dir[t]) ]_vars

\* A block that a file had keeps its place in the file as long as the entry
\* is live: cpmWrite never replaces a pointer, and nothing but cpmUnlink or a
\* new session takes one away.
PointersStay ==
  [][ \A s \in FileSlots(dir), i \in PtrIx :
        dir[s].ptr[i] # 0 /\ dir'[s].ptr[i] # dir[s].ptr[i]
        => dir' = disk' ]_vars

=============================================================================
