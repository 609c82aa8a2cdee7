---------------------------- MODULE VolumeProofs ----------------------------
(* What cpmcp copies can be read again, for every geometry whose blocks are *)
(* made of sectors and for every session that comes after.                  *)
EXTENDS DateStamper, SizeProofs, SequenceTheorems

USE DEF NoSlot, Unset, Free, Sfcb

-----------------------------------------------------------------------------
(* Places in a block                                                       *)

LEMMA InBlock ==
  ASSUME NEW a \in Nat, NEW c \in Nat \ {0}, NEW i \in 0 .. c - 1
  PROVE  /\ a - (a % c) + i \in Nat
         /\ (a - (a % c) + i) \div c = a \div c
         /\ (a - (a % c) + i) % c = i
         /\ i < a % c => a - (a % c) + i < a
<1> DEFINE q == a \div c
           r == a % c
           p == a - r + i
<1>1. a = c * q + r /\ q \in Nat /\ r \in 0 .. c - 1
  BY DivParts
<1> HIDE DEF q, r
<1>2. p = c * q + i /\ p \in Nat
  <2>1. c * q \in Nat
    BY <1>1, Z3
  <2>2. QED
    BY <1>1, <2>1
<1>3. i < r => p < a
  BY <1>1
<1> HIDE DEF p
<1>4. p \div c = q /\ p % c = i
  BY <1>1, <1>2, DivUnique
<1>5. QED
  BY <1>2, <1>3, <1>4 DEF p, q, r

LEMMA OneBlock ==
  ASSUME NEW a \in Nat, NEW p \in Nat, NEW c \in Nat \ {0},
         p \div c = a \div c
  PROVE  /\ p = a - (a % c) + (p % c)
         /\ p < a => p % c < a % c
         /\ p % c \in 0 .. c - 1
<1> DEFINE q == a \div c
           r == a % c
           s == p % c
<1>1. a = c * q + r /\ q \in Nat /\ r \in 0 .. c - 1
  BY DivParts
<1>2. p = c * q + s /\ s \in 0 .. c - 1
  BY DivParts
<1> HIDE DEF q, r, s
<1>3. c * q \in Nat
  BY <1>1, Z3
<1>4. QED
  BY <1>1, <1>2, <1>3 DEF r, s

\* A place in front of another in the same sector: the sector does not begin
\* at the second one.
LEMMA InSector ==
  ASSUME NEW i \in Nat, NEW o \in Nat, NEW c \in Nat \ {0}, i < o,
         i \div c = o \div c
  PROVE  o % c # 0
<1>1. i % c < o % c /\ i % c \in 0 .. c - 1
  BY OneBlock
<1>2. QED
  BY <1>1

\* Bytes of one block are found through one pointer.
LEMMA BlockPointer ==
  ASSUME Covering, NEW p \in Nat, NEW q \in Nat, p \div BlkSiz = q \div BlkSiz
  PROVE  PtrAt(p) = PtrAt(q) /\ p \div ExtCap = q \div ExtCap
<1>1. ExtCap = BlkSiz * NPtr /\ BlkSiz \in Nat \ {0} /\ NPtr \in Nat \ {0}
  BY Extension, Geometry
<1>2. \A r \in Nat : /\ PtrAt(r) = (r \div BlkSiz) % NPtr
                     /\ r \div ExtCap = (r \div BlkSiz) \div NPtr
  BY <1>1, ModMod, DivDiv, ZenonT(30) DEF PtrAt
<1>3. QED
  BY <1>2

-----------------------------------------------------------------------------
(* What the blocks of a file hold                                          *)

\* Entry s of directory d has the block of byte p of file f.
Bears(d, f, s, p) ==
  /\ IsOf(d[s], f) /\ d[s].extno \div Extents = p \div ExtCap
  /\ d[s].ptr[PtrAt(p)] # 0

\* The first n bytes of f are those of version v of its host file.
Holds(d, blocks, f, n, v) ==
  \A p \in 0 .. n - 1 : \E s \in Slot :
    /\ Bears(d, f, s, p)
    /\ blocks[d[s].ptr[PtrAt(p)]][p % BlkSiz] = HostByte(v, p)

Shapes == DOMAIN data = Block /\ DOMAIN made = Files

CopiesHeld ==
  \A f \in HostNames :
    copied[f] # None => Holds(dir, data, f, copied[f], made[f])

TargetHeld ==
  tool.step \in {"open", "chunk", "write"} =>
    /\ tool.file \in HostNames
    /\ Holds(dir, data, tool.file, fd[ino].pos, host)

\* When a block is about to be written, the buffer holds what the file has in
\* front of the new bytes, as far as it goes to the image, and all the new
\* bytes go there.
Ready ==
  wr.phase = "fill" =>
    /\ Cell # 0
    /\ \A i \in Offset :
         /\ i < Pos % BlkSiz /\ i \div SecLength \in buf.start .. buf.end =>
              buf.bytes[i] = HostByte(host, Pos - (Pos % BlkSiz) + i)
         /\ Pos % BlkSiz <= i /\ i < (Pos % BlkSiz) + Room(Pos, wr.count) =>
              i \div SecLength \in buf.start .. buf.end

IsStamper(entry) == entry.status = 0 /\ entry.name = DsName

\* The table lies in blocks of the DateStamper file.
OwnsTable(d) == IsStamper(d[0]) => Tabled \subseteq Refs(d[0])

TableInv ==
  /\ OwnsTable(dir) /\ OwnsTable(disk)
  /\ ds # NoTable /\ tool.prog # "cpmrm" => IsStamper(dir[0])
  /\ dirtyDs => tool.prog = "cpmcp" /\ IsStamper(dir[0])

\* CopyIsFaithful is not inductive: it says nothing of the file that is being
\* written, of the buffer, nor of the blocks that syncDs will write.
ContentInv ==
  SizeInv /\ Shapes /\ CopiesHeld /\ TargetHeld /\ Ready /\ TableInv

\* The hypotheses on the volume: whole sectors make a block, and nobody copies
\* to the DateStamper file.
Whole == BlkSiz % SecLength = 0 /\ <<0, DsName>> \notin HostNames

-----------------------------------------------------------------------------
(* Lemmas                                                                  *)

LEMMA HostNamed ==
  /\ HostNames \subseteq Files
  /\ \A h \in HostFiles : h[1] \in HostNames
  BY VolumeAssumption DEF VolumeAssumption, HostNames

LEMMA Parts ==
  ASSUME ContentInv
  PROVE  /\ TypeOK /\ Course /\ Place /\ ToolsTypeOK /\ ino \in Handles
         /\ dir \in [Slot -> Entry] /\ disk \in [Slot -> Entry]
         /\ Apart(dir) /\ NotShared(dir) /\ InDataArea(dir)
         /\ 0 .. DirBlks - 1 \subseteq alv
         /\ SessionInv /\ Target /\ Saved /\ CopiesEnd /\ TargetEnd
  BY InoType
     DEF ContentInv, SizeInv, SessionInv, Owned, UniqueInv, Course, TypeOK,
         BlocksAreOwned, AlvCovers

\* No entry of f loses what it has.
Grows(d, e, f) == \A s \in Slot : IsOf(d[s], f) => Grown(d[s], e[s])

LEMMA HoldsGrown ==
  ASSUME NEW d, NEW e, NEW blocks, NEW f, NEW n \in Nat, NEW v,
         Holds(d, blocks, f, n, v), Grows(d, e, f)
  PROVE  Holds(e, blocks, f, n, v)
<1> SUFFICES ASSUME NEW p \in 0 .. n - 1
             PROVE  \E s \in Slot :
                      /\ Bears(e, f, s, p)
                      /\ blocks[e[s].ptr[PtrAt(p)]][p % BlkSiz] = HostByte(v, p)
  BY DEF Holds
<1>1. PICK s \in Slot :
        /\ Bears(d, f, s, p)
        /\ blocks[d[s].ptr[PtrAt(p)]][p % BlkSiz] = HostByte(v, p)
  BY DEF Holds
<1>2. IsOf(d[s], f) /\ Grown(d[s], e[s])
  BY <1>1 DEF Bears, Grows
<1>3. PtrAt(p) \in PtrIx
  BY PtrAtType
<1>4. e[s].ptr[PtrAt(p)] = d[s].ptr[PtrAt(p)]
  BY <1>1, <1>2, <1>3 DEF Bears, Grown
<1>5. Bears(e, f, s, p)
  BY <1>1, <1>2, <1>4 DEF Bears, Grown, SameExtent, IsOf
<1>6. QED
  BY <1>1, <1>4, <1>5

LEMMA HoldsIn ==
  ASSUME NEW d, NEW blocks, NEW others, NEW f, NEW n \in Nat, NEW v,
         Holds(d, blocks, f, n, v),
         \A s \in Slot, i \in PtrIx :
           IsOf(d[s], f) /\ d[s].ptr[i] # 0 =>
             others[d[s].ptr[i]] = blocks[d[s].ptr[i]]
  PROVE  Holds(d, others, f, n, v)
<1> SUFFICES ASSUME NEW p \in 0 .. n - 1
             PROVE  \E s \in Slot :
                      /\ Bears(d, f, s, p)
                      /\ others[d[s].ptr[PtrAt(p)]][p % BlkSiz] = HostByte(v, p)
  BY DEF Holds
<1>1. PICK s \in Slot :
        /\ Bears(d, f, s, p)
        /\ blocks[d[s].ptr[PtrAt(p)]][p % BlkSiz] = HostByte(v, p)
  BY DEF Holds
<1>2. PtrAt(p) \in PtrIx
  BY PtrAtType
<1>3. QED
  BY <1>1, <1>2 DEF Bears

LEMMA CopiesHeldNext ==
  ASSUME \A f \in HostNames :
           copied'[f] # None => Holds(dir', data', f, copied'[f], made'[f])
  PROVE  CopiesHeld'
  BY DEF CopiesHeld, None, Holds, Bears, IsOf, HostByte, PtrAt

LEMMA TargetHeldNext ==
  ASSUME tool'.step \in {"open", "chunk", "write"} =>
           /\ tool'.file \in HostNames
           /\ Holds(dir', data', tool'.file, fd'[ino].pos, host')
  PROVE  TargetHeld'
<1>1. ino' = ino
  BY DEF ino
<1>2. QED
  BY <1>1 DEF TargetHeld, Holds, Bears, IsOf, HostByte, PtrAt

LEMMA TableNext ==
  ASSUME OwnsTable(dir'), OwnsTable(disk'),
         ds' # NoTable /\ tool'.prog # "cpmrm" => IsStamper(dir'[0]),
         dirtyDs' => tool'.prog = "cpmcp" /\ IsStamper(dir'[0])
  PROVE  TableInv'
  BY DEF TableInv, OwnsTable, IsStamper, Refs, NoTable, Tabled, DsOffset,
         DsBlks, DsRecs, DsRecLen

\* Most steps change no file that was copied.
LEMMA CopiesHeldKept ==
  ASSUME ContentInv, copied' = copied, made' = made, data' = data,
         \A f \in HostNames : copied[f] # None => Grows(dir, dir', f)
  PROVE  CopiesHeld'
<1>1. ASSUME NEW f \in HostNames, copied[f] # None
      PROVE  Holds(dir', data, f, copied[f], made[f])
  <2>1. copied[f] \in Nat
    BY <1>1, Parts, HostNamed DEF ToolsTypeOK
  <2>2. Holds(dir, data, f, copied[f], made[f])
    BY <1>1 DEF ContentInv, CopiesHeld
  <2>3. QED
    BY <1>1, <2>1, <2>2, HoldsGrown
<1>2. QED
  BY <1>1, CopiesHeldNext

LEMMA TargetHeldKept ==
  ASSUME ContentInv, data' = data, host' = host,
         tool.step \in {"open", "chunk", "write"},
         tool'.file = tool.file, fd'[ino].pos = fd[ino].pos,
         Grows(dir, dir', tool.file)
  PROVE  TargetHeld'
<1>1. fd[ino].pos \in Nat
  BY Parts DEF TypeOK, Inode
<1>2. tool.file \in HostNames /\ Holds(dir, data, tool.file, fd[ino].pos, host)
  BY DEF ContentInv, TargetHeld
<1>3. Holds(dir', data, tool.file, fd[ino].pos, host)
  BY <1>1, <1>2, HoldsGrown
<1>4. QED
  BY <1>2, <1>3, TargetHeldNext

LEMMA GrowsSame == \A d, f : Grows(d, d, f)
  BY GrownOrder DEF Grows

\* The new entry of a step of cpmcp belongs to the file that is copied.
Joined(d, e) ==
  \A s \in Slot : \/ Grown(d[s], e[s])
                  \/ d[s].status = Free /\ \E f \in HostNames : IsOf(e[s], f)

LEMMA JoinedGrows ==
  ASSUME Regular, NEW d, NEW e, Joined(d, e), NEW f \in HostNames
  PROVE  Grows(d, e, f)
  BY HostNamed, FileOf DEF Joined, Grows

LEMMA JoinedTable ==
  ASSUME Whole, NEW d, NEW e, Joined(d, e), OwnsTable(d)
  PROVE  OwnsTable(e) /\ (IsStamper(d[0]) => IsStamper(e[0]))
<1>1. 0 \in Slot
  BY Geometry DEF Slot
<1>2. CASE Grown(d[0], e[0])
  <2>1. IsStamper(d[0]) <=> IsStamper(e[0])
    BY <1>2 DEF Grown, SameExtent, IsStamper
  <2>2. Refs(d[0]) \subseteq Refs(e[0])
    BY <1>2 DEF Grown, Refs
  <2>3. QED
    BY <2>1, <2>2 DEF OwnsTable
<1>3. CASE d[0].status = Free /\ \E f \in HostNames : IsOf(e[0], f)
  <2>1. ~IsStamper(d[0])
    BY <1>3 DEF IsStamper
  <2>2. PICK f \in HostNames : IsOf(e[0], f)
    BY <1>3
  <2>3. f = <<f[1], f[2]>>
    BY HostNamed DEF Files
  <2>4. ~IsStamper(e[0])
    BY <2>2, <2>3 DEF IsStamper, IsOf, Whole
  <2>5. QED
    BY <2>1, <2>4 DEF OwnsTable
<1>4. QED
  BY <1>1, <1>2, <1>3 DEF Joined

LEMMA JoinedTables ==
  ASSUME Whole, TableInv, Joined(dir, dir'), disk' = disk,
         tool.prog = "cpmcp", tool'.prog = "cpmcp",
         \/ \E s, version : UpdateDsStamps(s, version)
         \/ UNCHANGED <<ds, dirtyDs>>
  PROVE  TableInv'
<1>1. OwnsTable(dir') /\ OwnsTable(disk')
  BY JoinedTable DEF TableInv
<1>2. IsStamper(dir[0]) => IsStamper(dir'[0])
  BY JoinedTable DEF TableInv
<1>3. ds' # NoTable \/ dirtyDs' => IsStamper(dir[0])
  BY DEF TableInv, UpdateDsStamps
<1>4. QED
  BY <1>1, <1>2, <1>3, TableNext

LEMMA JoinedSame == \A d : Joined(d, d)
  BY GrownOrder DEF Joined

-----------------------------------------------------------------------------
(* cpmWrite                                                                *)

\* The entry and the pointer that cpmWrite works on
LEMMA WriteAt ==
  ASSUME Regular, Covering, ContentInv, wr.phase \in {"block", "fill"}
  PROVE  /\ tool.step = "write" /\ wr.h = ino
         /\ tool.file \in HostNames /\ tool.file \in Files
         /\ Pos \in Nat /\ wr.count \in Nat \ {0}
         /\ wr.extent \in FileSlots(dir) /\ PtrAt(Pos) \in PtrIx
         /\ IsOf(dir[wr.extent], tool.file)
         /\ dir[wr.extent].extno \div Extents = Pos \div ExtCap
         /\ Holds(dir, data, tool.file, Pos, host)
         /\ copied[tool.file] = None
<1>1. TypeOK /\ wr.phase # "idle"
  BY Parts
<1>2. tool.step = "write" /\ wr.h = ino
  BY <1>1, Parts DEF Course
<1>3. tool.file \in HostNames /\ tool.file \in Files
  BY <1>2, HostNamed DEF ContentInv, TargetHeld
<1>4. Pos \in Nat /\ wr.count \in Nat \ {0} /\ wr.extent \in Slot
  BY <1>1, WriteLocals
<1>5. IsOf(dir[wr.extent], tool.file)
  BY <1>2, Parts DEF Target
<1>6. wr.extent \in FileSlots(dir)
  BY <1>3, <1>4, <1>5, FileOf DEF FileSlots
<1>7. wr.extno = Pos \div Logical /\ copied[tool.file] = None
  BY <1>2, Parts DEF TargetEnd, Pos
<1>8. dir[wr.extent].extno \div Extents = Pos \div ExtCap
  <2>1. (Pos \div Logical) \div Extents = Pos \div ExtCap
    BY <1>4, ExtentOf
  <2>2. dir[wr.extent].extno \div Extents = wr.extno \div Extents
    BY Parts DEF Place
  <2>3. QED
    BY <1>7, <2>1, <2>2
<1>9. Holds(dir, data, tool.file, Pos, host)
  BY <1>2 DEF ContentInv, TargetHeld, Pos
<1>10. QED
  BY <1>2, <1>3, <1>4, <1>5, <1>6, <1>7, <1>8, <1>9, PtrAtType

\* The other bytes of that block are found through the same pointer.
LEMMA Borne ==
  ASSUME Regular, Covering, ContentInv, wr.phase \in {"block", "fill"},
         NEW p \in Nat, p \div BlkSiz = Pos \div BlkSiz,
         NEW s \in Slot, Bears(dir, tool.file, s, p)
  PROVE  s = wr.extent /\ dir[s].ptr[PtrAt(p)] = Cell /\ Cell # 0
<1>1. PtrAt(p) = PtrAt(Pos) /\ p \div ExtCap = Pos \div ExtCap
  BY WriteAt, BlockPointer
<1>2. SameExtent(dir[s], dir[wr.extent])
  BY <1>1, WriteAt DEF Bears, IsOf, SameExtent
<1>3. s = wr.extent
  BY <1>2, WriteAt, Parts DEF Apart
<1>4. QED
  BY <1>1, <1>3 DEF Bears, Cell

\* What the block holds in front of the new bytes
LEMMA InFront ==
  ASSUME Regular, Covering, ContentInv, wr.phase \in {"block", "fill"},
         NEW i \in Offset, i < Pos % BlkSiz
  PROVE  /\ Cell # 0
         /\ data[Cell][i] = HostByte(host, Pos - (Pos % BlkSiz) + i)
<1> DEFINE p == Pos - (Pos % BlkSiz) + i
<1>0. Pos \in Nat /\ BlkSiz \in Nat \ {0} /\ i \in 0 .. BlkSiz - 1
  BY WriteAt, Geometry DEF Offset
<1>1. p \in Nat /\ p \div BlkSiz = Pos \div BlkSiz /\ p % BlkSiz = i /\ p < Pos
  BY <1>0, InBlock
<1> HIDE DEF p
<1>2. p \in 0 .. Pos - 1
  BY <1>0, <1>1
<1>3. PICK s \in Slot :
        /\ Bears(dir, tool.file, s, p)
        /\ data[dir[s].ptr[PtrAt(p)]][p % BlkSiz] = HostByte(host, p)
  BY <1>2, WriteAt DEF Holds
<1>4. dir[s].ptr[PtrAt(p)] = Cell /\ Cell # 0
  BY <1>1, <1>3, Borne
<1>5. QED
  BY <1>1, <1>3, <1>4 DEF p

LEMMA ReadyFill ==
  ASSUME fd' = fd, host' = host, wr'.h = wr.h, wr'.count = wr.count,
         wr'.extent = wr.extent, dir'[wr.extent].ptr[PtrAt(Pos)] # 0,
         \A i \in Offset :
           /\ i < Pos % BlkSiz /\ i \div SecLength \in buf'.start .. buf'.end =>
                buf'.bytes[i] = HostByte(host, Pos - (Pos % BlkSiz) + i)
           /\ Pos % BlkSiz <= i /\ i < (Pos % BlkSiz) + Room(Pos, wr.count) =>
                i \div SecLength \in buf'.start .. buf'.end
  PROVE  Ready'
<1>1. Pos' = Pos
  BY DEF Pos
<1>2. Cell' # 0
  BY <1>1 DEF Cell, PtrAt
<1>3. QED
  BY <1>1, <1>2 DEF Ready, HostByte, Room, Offset

\* A block that is there: the sector in which the new bytes begin is read
\* when they do not begin with it.
LEMMA FoundReady ==
  ASSUME Regular, Covering, Whole, ContentInv, BlockFound,
         buf' = Loaded(Pos, wr.count), host' = host
  PROVE  Ready'
<1> DEFINE o == Pos % BlkSiz
           e == IF o + wr.count >= BlkSiz THEN BlkSiz - 1 ELSE o + wr.count - 1
           start == o \div SecLength
           end == e \div SecLength
<1>0. /\ wr.phase = "block" /\ Cell # 0 /\ dir' = dir /\ fd' = fd
      /\ wr'.h = wr.h /\ wr'.count = wr.count /\ wr'.extent = wr.extent
  BY DEF BlockFound, UseBlock, Go
<1>1. /\ Pos \in Nat /\ wr.count \in Nat \ {0}
      /\ BlkSiz \in Nat \ {0} /\ SecLength \in Nat \ {0}
  BY <1>0, WriteAt, Geometry
<1>2. o \in 0 .. BlkSiz - 1
  BY <1>1, DivParts
<1>3. e \in Nat /\ \A i \in Offset : i < o + Room(Pos, wr.count) => i <= e
  BY <1>1, <1>2 DEF Room, Offset
<1>4. /\ buf'.start = start /\ buf'.end = end
      /\ \A i \in Offset :
           i \div SecLength = start /\ Pos % SecLength # 0 =>
             buf'.bytes[i] = data[Cell][i]
  BY DEF Loaded, Touched, ReadBefore
<1>5. o % SecLength = Pos % SecLength
  BY <1>1, ModOfMod DEF Whole
<1>6. ASSUME NEW i \in Offset, i < o, i \div SecLength \in start .. end
      PROVE  buf'.bytes[i] = HostByte(host, Pos - o + i)
  <2>1. data[Cell][i] = HostByte(host, Pos - o + i)
    BY <1>0, <1>6, InFront
  <2>2. i \in Nat /\ o \in Nat
    BY <1>2 DEF Offset
  <2> HIDE DEF o
  <2>3. start \in Nat /\ i \div SecLength \in Nat
    BY <1>1, <2>2, DivParts
  <2>4. i \div SecLength <= start
    BY <1>1, <1>6, <2>2, DivMonotone
  <2>5. i \div SecLength = start
    BY <1>6, <2>3, <2>4
  <2>6. o % SecLength # 0
    BY <1>1, <1>6, <2>2, <2>5, InSector
  <2>7. QED
    BY <1>4, <1>5, <2>1, <2>5, <2>6
<1>7. ASSUME NEW i \in Offset, o <= i, i < o + Room(Pos, wr.count)
      PROVE  i \div SecLength \in start .. end
  <2>1. i \in Nat /\ o \in Nat /\ i <= e /\ e \in Nat
    BY <1>2, <1>3, <1>7 DEF Offset
  <2> HIDE DEF o, e
  <2>2. start <= i \div SecLength /\ i \div SecLength <= end
    BY <1>1, <1>7, <2>1, DivMonotone
  <2>3. start \in Nat /\ end \in Nat /\ i \div SecLength \in Nat
    BY <1>1, <2>1, DivParts
  <2>4. QED
    BY <2>2, <2>3
<1> HIDE DEF e, start, end
<1>8. QED
  BY <1>0, <1>4, <1>6, <1>7, ReadyFill DEF Cell

\* A new block: there was none, so the file has no bytes in it.
LEMMA AllocatedReady ==
  ASSUME Regular, ~MpmDates, Covering, ContentInv, BlockAllocated,
         buf' = Cleared, host' = host
  PROVE  Ready'
<1>0. /\ wr.phase = "block" /\ Cell = 0 /\ fd' = fd
      /\ wr'.h = wr.h /\ wr'.count = wr.count /\ wr'.extent = wr.extent
  BY DEF BlockAllocated, UseBlock, Go
<1>1. PICK b \in Block : /\ b \notin alv
                         /\ dir' = [dir EXCEPT ![wr.extent].ptr[PtrAt(Pos)] = b]
  BY DEF BlockAllocated, Restamped, Firsts
<1>2. b # 0
  <2>1. 0 \in 0 .. DirBlks - 1
    BY Geometry
  <2>2. QED
    BY <1>1, <2>1, Parts
<1>3. dir'[wr.extent].ptr[PtrAt(Pos)] = b
  <2>1. /\ wr.extent \in Slot /\ PtrAt(Pos) \in PtrIx /\ b \in Nat
        /\ dir \in [Slot -> Entry] /\ dir[wr.extent] \in Entry
    BY <1>0, WriteAt, Parts DEF FileSlots, Block
  <2> DEFINE i == PtrAt(Pos)
             new == [dir[wr.extent] EXCEPT !.ptr[i] = b]
  <2>2. new.ptr[i] = b
    BY <2>1, PtrSetFields
  <2>3. dir' = [dir EXCEPT ![wr.extent] = new]
    BY <1>1
  <2> HIDE DEF new
  <2>4. dir'[wr.extent] = new
    BY <2>1, <2>3
  <2>5. QED
    BY <2>2, <2>4
<1>4. ASSUME NEW i \in Offset PROVE i \div SecLength \in buf'.start .. buf'.end
  <2>1. i \in Nat /\ BlkSiz - 1 \in Nat /\ i <= BlkSiz - 1 /\ SecLength \in Nat \ {0}
    BY Geometry DEF Offset
  <2>2. i \div SecLength <= LastSector
    BY <2>1, DivMonotone DEF LastSector
  <2>3. i \div SecLength \in Nat /\ LastSector \in Nat
    BY <2>1, DivParts DEF LastSector
  <2>4. buf'.start = 0 /\ buf'.end = LastSector
    BY DEF Cleared
  <2>5. QED
    BY <2>2, <2>3, <2>4
<1>5. \A i \in Offset : ~(i < Pos % BlkSiz)
  BY <1>0, InFront
<1>6. QED
  BY <1>0, <1>2, <1>3, <1>4, <1>5, ReadyFill

\* The image after the bytes of a block were written
LEMMA StoreEffect ==
  ASSUME Regular, Covering, ContentInv, wr.phase = "fill", Store
  PROVE  /\ Cell \in Block /\ DOMAIN data' = Block
         /\ \A b \in Block : b # Cell => data'[b] = data[b]
         /\ \A i \in Offset :
              data'[Cell][i] = IF i \div SecLength \in buf.start .. buf.end
                               THEN Stuffed[i] ELSE data[Cell][i]
<1>1. Cell # 0
  BY DEF ContentInv, Ready
<1>2. Cell \in Refs(dir[wr.extent])
  BY <1>1, WriteAt DEF Cell, Refs
<1>3. Cell \in DirBlks .. Size - 1
  BY <1>2, WriteAt, Parts DEF InDataArea
<1>4. Cell \in Block
  BY <1>3, Geometry DEF Block
<1>5. DOMAIN data = Block
  BY DEF ContentInv, Shapes
<1> DEFINE c == Cell
           new == [i \in Offset |-> IF i \div SecLength \in buf.start .. buf.end
                                    THEN Stuffed[i] ELSE data[c][i]]
<1>6. data' = [data EXCEPT ![c] = new]
  BY DEF Store
<1>7. \A i \in Offset : new[i] = IF i \div SecLength \in buf.start .. buf.end
                                 THEN Stuffed[i] ELSE data[c][i]
  OBVIOUS
<1>8. c \in Block
  BY <1>4
<1> HIDE DEF c, new
<1>9. /\ DOMAIN data' = Block /\ data'[c] = new
      /\ \A b \in Block : b # c => data'[b] = data[b]
  BY <1>5, <1>6, <1>8
<1>10. QED
  BY <1>7, <1>8, <1>9 DEF c

\* A pointer to the block that is written is the one that cpmWrite found.
LEMMA CellIsOwn ==
  ASSUME Regular, Covering, ContentInv, wr.phase = "fill",
         NEW s \in Slot, NEW i \in PtrIx, NEW f \in Files, IsOf(dir[s], f),
         dir[s].ptr[i] = Cell
  PROVE  s = wr.extent /\ i = PtrAt(Pos) /\ f = tool.file
<1>1. s \in FileSlots(dir)
  BY FileOf DEF FileSlots
<1>2. Cell # 0
  BY DEF ContentInv, Ready
<1>3. s = wr.extent /\ i = PtrAt(Pos)
  BY <1>1, <1>2, WriteAt, Parts, NotSharedUse DEF Cell
<1>4. f = tool.file
  BY <1>3, WriteAt DEF IsOf, Files
<1>5. QED
  BY <1>3, <1>4

LEMMA PointsToBlock ==
  ASSUME Regular, ContentInv, NEW s \in Slot, NEW i \in PtrIx,
         NEW f \in Files, IsOf(dir[s], f), dir[s].ptr[i] # 0
  PROVE  s \in FileSlots(dir) /\ dir[s].ptr[i] \in Block
<1>1. s \in FileSlots(dir)
  BY FileOf DEF FileSlots
<1>2. dir[s].ptr[i] \in Refs(dir[s])
  BY DEF Refs
<1>3. dir[s].ptr[i] \in DirBlks .. Size - 1
  BY <1>1, <1>2, Parts DEF InDataArea
<1>4. QED
  BY <1>1, <1>3, Geometry DEF Block

\* The file that is written has its new bytes and keeps the old ones.
LEMMA StoreHolds ==
  ASSUME Regular, Covering, ContentInv, wr.phase = "fill", Store
  PROVE  Holds(dir, data', tool.file, Pos + Room(Pos, wr.count), host)
<1> DEFINE n == Room(Pos, wr.count)
           o == Pos % BlkSiz
<1>0. /\ Pos \in Nat /\ BlkSiz \in Nat \ {0} /\ o \in 0 .. BlkSiz - 1
      /\ n \in Nat \ {0} /\ o + n <= BlkSiz /\ Cell # 0
  <2>1. Pos \in Nat /\ BlkSiz \in Nat \ {0} /\ wr.count \in Nat \ {0}
    BY WriteAt, Geometry
  <2>2. o \in 0 .. BlkSiz - 1
    BY <2>1, DivParts
  <2>3. n \in 1 .. wr.count /\ o + n <= BlkSiz
    BY <2>1, RoomType
  <2> HIDE DEF n
  <2>4. n \in Nat \ {0}
    BY <2>1, <2>3
  <2>5. QED
    BY <2>1, <2>2, <2>3, <2>4 DEF ContentInv, Ready
<1>1. ASSUME NEW p \in Nat, p < Pos
      PROVE  \E s \in Slot :
               /\ Bears(dir, tool.file, s, p)
               /\ data'[dir[s].ptr[PtrAt(p)]][p % BlkSiz] = HostByte(host, p)
  <2>0. p \in 0 .. Pos - 1
    BY <1>0, <1>1
  <2>1. PICK s \in Slot :
          /\ Bears(dir, tool.file, s, p)
          /\ data[dir[s].ptr[PtrAt(p)]][p % BlkSiz] = HostByte(host, p)
    BY <2>0, WriteAt DEF Holds
  <2>2. PtrAt(p) \in PtrIx /\ tool.file \in Files
    BY PtrAtType, WriteAt
  <2>3. CASE dir[s].ptr[PtrAt(p)] # Cell
    <3>1. dir[s].ptr[PtrAt(p)] \in Block
      BY <2>1, <2>2, PointsToBlock DEF Bears
    <3>2. QED
      BY <2>1, <2>3, <3>1, StoreEffect
  <2>4. CASE dir[s].ptr[PtrAt(p)] = Cell
    <3>1. s = wr.extent /\ PtrAt(p) = PtrAt(Pos)
      BY <2>1, <2>2, <2>4, CellIsOwn DEF Bears
    <3>2. p \div ExtCap = Pos \div ExtCap
      BY <2>1, <3>1, WriteAt DEF Bears
    <3>3. p \div BlkSiz = Pos \div BlkSiz
      BY <1>0, <3>1, <3>2, SamePointer
    <3> DEFINE i == p % BlkSiz
    <3>4. i \in 0 .. BlkSiz - 1 /\ i < o /\ p = Pos - o + i
      BY <1>0, <1>1, <3>3, OneBlock
    <3>5. data[Cell][i] = HostByte(host, p)
      BY <2>1, <2>4
    <3> HIDE DEF i
    <3>6. i \in Offset /\ ~(o <= i)
      BY <1>0, <3>4 DEF Offset
    <3>7. Stuffed[i] = buf.bytes[i]
      BY <3>6 DEF Stuffed
    <3>8. i \div SecLength \in buf.start .. buf.end =>
            buf.bytes[i] = HostByte(host, Pos - o + i)
      BY <3>4, <3>6 DEF ContentInv, Ready
    <3>9. data'[Cell][i] = HostByte(host, p)
      BY <3>4, <3>5, <3>6, <3>7, <3>8, StoreEffect
    <3>10. QED
      BY <2>1, <2>4, <3>9 DEF i
  <2>5. QED
    BY <2>3, <2>4
<1>2. ASSUME NEW p \in Nat, Pos <= p, p < Pos + n
      PROVE  \E s \in Slot :
               /\ Bears(dir, tool.file, s, p)
               /\ data'[dir[s].ptr[PtrAt(p)]][p % BlkSiz] = HostByte(host, p)
  <2> DEFINE m == p - Pos
             i == p % BlkSiz
             at == Pos
  <2>1. at \in Nat /\ m \in Nat /\ m < n /\ p = at + m
    BY <1>0, <1>2
  <2>2. (at % BlkSiz) + m < BlkSiz
    <3>1. at % BlkSiz = o
      OBVIOUS
    <3> HIDE DEF o, n, m, at
    <3>2. QED
      BY <1>0, <2>1, <3>1
  <2> HIDE DEF m
  <2>3. (at + m) \div BlkSiz = at \div BlkSiz /\ (at + m) % BlkSiz = (at % BlkSiz) + m
    <3> HIDE DEF at, o, n
    <3>1. QED
      BY <1>0, <2>1, <2>2, DivSame
  <2>4. p \div BlkSiz = Pos \div BlkSiz /\ i = o + m
    BY <2>1, <2>3
  <2>5. PtrAt(p) = PtrAt(Pos) /\ p \div ExtCap = Pos \div ExtCap
    BY <1>0, <2>4, BlockPointer
  <2>6. p = Pos - o + i
    BY <1>0, <2>1, <2>4
  <2> HIDE DEF i, o, n, at
  <2>7. i \in Offset /\ o <= i /\ i < o + n
    BY <1>0, <2>1, <2>2, <2>4 DEF Offset, o, at
  <2>8. i \div SecLength \in buf.start .. buf.end
    BY <2>7 DEF ContentInv, Ready, o, n
  <2>9. Stuffed[i] = HostByte(host, Pos - o + i)
    BY <2>7 DEF Stuffed, o, n
  <2>10. data'[Cell][i] = HostByte(host, p)
    BY <2>6, <2>7, <2>8, <2>9, StoreEffect
  <2>11. Bears(dir, tool.file, wr.extent, p) /\ wr.extent \in Slot
    BY <1>0, <2>5, WriteAt DEF Bears, FileSlots, Cell
  <2>12. dir[wr.extent].ptr[PtrAt(p)] = Cell
    BY <2>5 DEF Cell
  <2>13. QED
    BY <2>10, <2>11, <2>12 DEF i
<1> HIDE DEF n, o
<1>3. ASSUME NEW p \in 0 .. (Pos + n) - 1
      PROVE  \E s \in Slot :
               /\ Bears(dir, tool.file, s, p)
               /\ data'[dir[s].ptr[PtrAt(p)]][p % BlkSiz] = HostByte(host, p)
  <2>1. p \in Nat /\ p < Pos + n /\ (p < Pos \/ Pos <= p)
    BY <1>0
  <2>2. QED
    BY <1>1, <1>2, <2>1
<1>4. QED
  BY <1>3 DEF Holds, n

\* The other files keep theirs.
LEMMA StoreKeeps ==
  ASSUME Regular, Covering, ContentInv, wr.phase = "fill", Store,
         NEW f \in HostNames, copied[f] # None
  PROVE  Holds(dir, data', f, copied[f], made[f])
<1>1. f \in Files /\ copied[f] \in Nat /\ f # tool.file
  BY HostNamed, Parts, WriteAt DEF ToolsTypeOK
<1>2. Holds(dir, data, f, copied[f], made[f])
  BY DEF ContentInv, CopiesHeld
<1>3. ASSUME NEW s \in Slot, NEW i \in PtrIx, IsOf(dir[s], f),
             dir[s].ptr[i] # 0
      PROVE  data'[dir[s].ptr[i]] = data[dir[s].ptr[i]]
  BY <1>1, <1>3, PointsToBlock, CellIsOwn, StoreEffect
<1>4. QED
  BY <1>1, <1>2, <1>3, HoldsIn

LEMMA WriteJoins ==
  ASSUME Regular, ~MpmDates, ContentInv, tool.step = "write", WriteStep
  PROVE  Joined(dir, dir')
<1>1. wr.h = ino /\ wr.phase # "idle" /\ TypeOK /\ Place
  BY WriteFrame, Parts DEF Course
<1>2. tool.file \in HostNames
  BY DEF ContentInv, TargetHeld
<1>3. IsOf(Own, tool.file)
  BY <1>1, Parts DEF Target, Own
<1>4. IsOf(Extended(Own, Pos \div Logical), tool.file)
  BY <1>3 DEF IsOf, Extended
<1>5. \A s \in Slot : \/ Grown(dir[s], dir'[s])
                      \/ /\ dir[s].status = Free
                         /\ dir'[s] = Extended(Own, Pos \div Logical)
  BY <1>1, WriteEffect
<1>6. QED
  BY <1>2, <1>4, <1>5 DEF Joined

LEMMA NotFilling == wr'.phase # "fill" => Ready'
  BY DEF Ready

LEMMA NotCopying == tool'.step \notin {"open", "chunk", "write"} => TargetHeld'
  BY DEF TargetHeld

ContentNext == Shapes' /\ CopiesHeld' /\ TargetHeld' /\ Ready' /\ TableInv'

\* What a step of cpmWrite leaves of the data, the buffer and the table
LEMMA WriteContent ==
  ASSUME Regular, ~MpmDates, Covering, Whole, ContentInv, StampedWrite
  PROVE  ContentNext
<1>0. /\ tool.step = "write" /\ tool' = tool /\ copied' = copied
      /\ host' = host /\ made' = made
      /\ TypeOK /\ Course /\ ino \in Handles
  BY Parts DEF StampedWrite, VolWrite
<1>1. WriteStep
  BY DEF StampedWrite, VolWrite, WriteStep
<1>2. /\ wr.h = ino /\ wr.phase # "idle" /\ disk' = disk
      /\ tool.prog = "cpmcp" /\ tool.file \in HostNames
  BY <1>0, <1>1, WriteFrame DEF Course, ContentInv, TargetHeld
<1>3. Joined(dir, dir')
  BY <1>0, <1>1, WriteJoins
<1>4. \A f \in HostNames : Grows(dir, dir', f)
  BY <1>3, JoinedGrows
<1>5. TableInv'
  <2>1. \/ \E s, version : UpdateDsStamps(s, version)
        \/ UNCHANGED <<ds, dirtyDs>>
    BY DEF StampedWrite
  <2>2. QED
    BY <1>0, <1>2, <1>3, <2>1, JoinedTables DEF ContentInv
<1>6. ASSUME data' = data, fd' = fd
      PROVE  Shapes' /\ CopiesHeld' /\ TargetHeld'
  BY <1>0, <1>2, <1>4, <1>6, CopiesHeldKept, TargetHeldKept
     DEF ContentInv, Shapes
<1>7. CASE /\ \/ ExtentFound \/ ExtentAdded \/ ExtentDenied
              \/ BlockUnreadable \/ BlockDenied
           /\ UNCHANGED <<data, buf>>
  <2>1. wr'.phase # "fill" /\ fd' = fd
    <3>1. CASE ExtentFound \/ ExtentAdded
      <4>1. fd' = fd /\ \E s : UseExtent(s)
        BY <3>1 DEF ExtentFound, ExtentAdded
      <4>2. QED
        BY <4>1 DEF UseExtent, Go
    <3>2. CASE ExtentDenied \/ BlockUnreadable \/ BlockDenied
      BY <3>2 DEF ExtentDenied, BlockUnreadable, BlockDenied, Finish, Returned
    <3>3. QED
      BY <1>7, <3>1, <3>2
  <2>2. QED
    BY <1>5, <1>6, <1>7, <2>1, NotFilling DEF ContentNext
<1>8. CASE BlockFound /\ buf' = Loaded(Pos, wr.count) /\ UNCHANGED data
  <2>1. fd' = fd
    BY <1>8 DEF BlockFound
  <2>2. QED
    BY <1>0, <1>5, <1>6, <1>8, <2>1, FoundReady DEF ContentNext
<1>9. CASE BlockAllocated /\ buf' = Cleared /\ UNCHANGED data
  <2>1. fd' = fd
    BY <1>9 DEF BlockAllocated
  <2>2. QED
    BY <1>0, <1>5, <1>6, <1>9, <2>1, AllocatedReady DEF ContentNext
<1>10. CASE Filled /\ Store
  <2> DEFINE n == Room(Pos, wr.count)
  <2>1. wr.phase = "fill" /\ Pos = fd[ino].pos
    BY <1>2, <1>10 DEF Filled, Pos
  <2>2. n \in Nat /\ Pos \in Nat
    <3>1. Pos \in Nat /\ n \in 1 .. wr.count /\ wr.count \in Nat \ {0}
      BY <2>1, WriteAt, RoomType
    <3> HIDE DEF n
    <3>2. QED
      BY <3>1
  <2>3. /\ fd' = [fd EXCEPT ![wr.h].pos = Pos + n,
                     ![wr.h].size = IF @ < Pos + n THEN Pos + n ELSE @]
        /\ wr'.phase # "fill"
    BY <1>10 DEF Filled, Finish, Returned, Go
  <2> HIDE DEF n
  <2>4. fd'[ino].pos = Pos + n
    BY <1>0, <1>2, <2>3 DEF TypeOK, Inode
  <2>5. Shapes'
    BY <1>0, <1>10, <2>1, StoreEffect DEF Shapes, ContentInv
  <2>6. CopiesHeld'
    <3>1. ASSUME NEW f \in HostNames, copied[f] # None
          PROVE  Holds(dir', data', f, copied[f], made[f])
      <4>1. Holds(dir, data', f, copied[f], made[f])
        BY <1>10, <2>1, <3>1, StoreKeeps
      <4>2. copied[f] \in Nat
        BY <3>1, HostNamed, Parts DEF ToolsTypeOK
      <4>3. QED
        BY <1>4, <4>1, <4>2, HoldsGrown
    <3>2. QED
      BY <1>0, <3>1, CopiesHeldNext
  <2>7. TargetHeld'
    <3>1. Holds(dir, data', tool.file, Pos + n, host)
      BY <1>10, <2>1, StoreHolds DEF n
    <3>2. Pos + n \in Nat
      BY <2>2
    <3>3. Holds(dir', data', tool.file, Pos + n, host)
      BY <1>2, <1>4, <3>1, <3>2, HoldsGrown
    <3>4. QED
      BY <1>0, <1>2, <2>4, <3>3, TargetHeldNext
  <2>8. QED
    BY <1>5, <2>3, <2>5, <2>6, <2>7, NotFilling DEF ContentNext
<1>11. QED
  BY <1>7, <1>8, <1>9, <1>10 DEF StampedWrite, VolWrite

-----------------------------------------------------------------------------
(* The other steps                                                         *)

\* cpmCreat makes one entry, of a file that has none.
Begun(f) ==
  /\ f \in HostNames /\ f \in Files /\ \A s \in Slot : ~IsOf(dir[s], f)
  /\ tool.prog = "cpmcp" /\ tool'.prog = "cpmcp"
  /\ tool'.step = "open" /\ tool'.file = f
  /\ fd'[ino].pos = 0 /\ wr.phase = "idle"
  /\ UNCHANGED <<disk, wr, data, copied, made>>
  /\ \E s \in Slot : /\ fd'[ino].slot = s /\ dir[s].status = Free
                     /\ IsOf(dir'[s], f)
                     /\ \A t \in Slot : t # s => dir'[t] = dir[t]

LEMMA CreatFrame ==
  ASSUME Regular, ~MpmDates, ContentInv, StampedCreat
  PROVE  \E f : Begun(f)
<1>1. PICK h \in HostFiles : CopyCreat(h[1])
  BY DEF StampedCreat, VolCreat
<1>2. data' = data /\ made' = made
  BY DEF StampedCreat, VolCreat
<1> DEFINE f == h[1]
<1>3. f \in HostNames /\ f \in Files
  BY HostNamed
<1> HIDE DEF f
<1>4. /\ CreatPlain(ino, f[1], f[2]) \/ CreatWithXfcb(ino, f[1], f[2])
      /\ tool' = [tool EXCEPT !.step = "open", !.file = f]
      /\ copied' = copied /\ tool.prog = "cpmcp"
  BY <1>1 DEF CopyCreat, At, f
<1>5. /\ fd'[ino].pos = 0 /\ wr' = wr /\ wr.phase = "idle"
      /\ \A s \in Slot : ~IsOf(dir[s], f)
  BY <1>3, <1>4, CreatEnds, Parts
<1>6. IsTool(tool', "cpmcp", "open", tool.args, f, tool.sec)
  BY <1>3, <1>4, Updates, Parts, ZenonT(30) DEF Places
<1>7. tool'.prog = "cpmcp" /\ tool'.step = "open" /\ tool'.file = f
  BY <1>6 DEF IsTool
<1>8. PICK u \in Users, n \in Names : u = f[1] /\ n = f[2]
  BY <1>3 DEF Files
<1>9. TypeOK /\ ino \in Handles /\ dir \in [Slot -> Entry]
  BY Parts
<1>10. /\ disk' = disk
       /\ \E s \in Slot : /\ dir[s].status = Free
                          /\ dir' = [dir EXCEPT ![s] = NewEntry(u, n)]
                          /\ \E x : Created(ino, s, x)
  <2>1. CreatPlain(ino, u, n) \/ CreatWithXfcb(ino, u, n)
    BY <1>4, <1>8
  <2>2. QED
    BY <1>9, <2>1, CreatEffect
<1>11. PICK s \in Slot : /\ dir[s].status = Free
                        /\ dir' = [dir EXCEPT ![s] = NewEntry(u, n)]
                        /\ \E x : Created(ino, s, x)
  BY <1>10
<1> DEFINE new == NewEntry(u, n)
<1>12. IsOf(new, f)
  BY <1>8 DEF IsOf, NewEntry
<1>13. \A t \in Slot : dir'[t] = IF t = s THEN new ELSE dir[t]
  BY <1>9, <1>11
<1> HIDE DEF new
<1>14. fd'[ino].slot = s
  BY <1>9, <1>11 DEF Created, InodeOf, TypeOK
<1>15. IsOf(dir'[s], f) /\ \A t \in Slot : t # s => dir'[t] = dir[t]
  BY <1>12, <1>13
<1>16. QED
  BY <1>2, <1>3, <1>4, <1>5, <1>7, <1>10, <1>11, <1>14, <1>15 DEF Begun

LEMMA CreatContent ==
  ASSUME Regular, ~MpmDates, Whole, ContentInv, StampedCreat
  PROVE  ContentNext
<1>1. PICK f : Begun(f)
  BY CreatFrame
<1>2. Joined(dir, dir')
  BY <1>1, GrownOrder DEF Begun, Joined
<1>3. CopiesHeld'
  BY <1>1, <1>2, JoinedGrows, CopiesHeldKept DEF Begun
<1>4. TargetHeld'
  <2>1. Holds(dir', data', f, 0, host')
    BY DEF Holds
  <2>2. QED
    BY <1>1, <2>1, TargetHeldNext DEF Begun
<1>5. TableInv'
  <2>1. \E s, version : UpdateDsStamps(s, version)
    BY DEF StampedCreat
  <2>2. QED
    BY <1>1, <1>2, <2>1, JoinedTables DEF ContentInv, Begun
<1>6. QED
  BY <1>1, <1>3, <1>4, <1>5, NotFilling
     DEF ContentNext, ContentInv, Shapes, Begun

\* Steps outside a copy that leave the directory and the data as they are
Rests ==
  /\ UNCHANGED <<dir, data, copied, made>>
  /\ disk' = disk \/ SyncSector
  /\ tool'.prog = tool.prog \/ tool.prog = "none"
  /\ tool'.step \notin {"open", "chunk", "write"} /\ wr'.phase # "fill"

LEMMA SyncedOwns ==
  ASSUME OwnsTable(dir), OwnsTable(disk) PROVE OwnsTable(Synced)
<1>1. 0 \in Slot
  BY Geometry DEF Slot
<1>2. Synced[0] = dir[0] \/ Synced[0] = disk[0]
  BY <1>1 DEF Synced
<1>3. QED
  BY <1>2 DEF OwnsTable

LEMMA RestsContent ==
  ASSUME ContentInv, Rests, UNCHANGED <<ds, dirtyDs>>
  PROVE  ContentNext
<1>1. CopiesHeld'
  BY GrowsSame, CopiesHeldKept DEF Rests
<1>2. TableInv'
  <2>1. OwnsTable(dir') /\ OwnsTable(disk')
    <3>1. OwnsTable(dir) /\ OwnsTable(disk)
      BY DEF ContentInv, TableInv
    <3>2. disk' = disk \/ disk' = Synced
      BY DEF Rests, SyncSector
    <3>3. OwnsTable(disk')
      BY <3>1, <3>2, SyncedOwns
    <3>4. QED
      BY <3>1, <3>3 DEF Rests
  <2>2. ds # NoTable /\ tool'.prog # "cpmrm" => IsStamper(dir[0])
    BY DEF ContentInv, TableInv, Rests
  <2>3. dirtyDs => tool'.prog = "cpmcp" /\ IsStamper(dir[0])
    BY DEF ContentInv, TableInv, Rests
  <2>4. QED
    BY <2>1, <2>2, <2>3, TableNext DEF Rests
<1>3. QED
  BY <1>1, <1>2, NotCopying, NotFilling DEF ContentNext, ContentInv, Shapes, Rests

\* Steps of a copy that leave them
Goes ==
  /\ UNCHANGED <<dir, disk, data, copied, made, host>>
  /\ tool.step \in {"open", "chunk", "write"}
  /\ tool.prog = "cpmcp" /\ tool'.prog = "cpmcp" /\ tool'.file = tool.file
  /\ tool'.step \in {"open", "chunk", "write"}
  /\ fd'[ino].pos = fd[ino].pos /\ wr'.phase # "fill"

LEMMA GoesContent ==
  ASSUME Whole, ContentInv, Goes, UNCHANGED <<ds, dirtyDs>>
  PROVE  ContentNext
<1>1. CopiesHeld' /\ TargetHeld'
  BY GrowsSame, CopiesHeldKept, TargetHeldKept DEF Goes
<1>2. TableInv'
  BY JoinedSame, JoinedTables DEF ContentInv, Goes
<1>3. QED
  BY <1>1, <1>2, NotFilling DEF ContentNext, ContentInv, Shapes, Goes

LEMMA ChunkFrame ==
  ASSUME ContentInv, VolChunk
  PROVE  Goes
<1>1. /\ CopyChunk /\ data' = data /\ host' = host /\ made' = made
      /\ copied' = copied /\ tool.prog = "cpmcp" /\ tool.step = "chunk"
      /\ wr.phase = "idle" /\ ToolsTypeOK /\ wr \in WriteCall
  BY Parts DEF VolChunk, CopyChunk, At, Quiet, TypeOK
<1>2. UNCHANGED <<dir, disk, fd>> /\ wr'.phase # "fill"
  BY <1>1 DEF CopyChunk, WriteBegin, Go, WriteCall
<1>3. tool'.prog = "cpmcp" /\ tool'.file = tool.file /\ tool'.step = "write"
  <2>1. PICK eof \in BOOLEAN :
          tool' = [tool EXCEPT !.step = "write", !.eof = eof]
    BY <1>1 DEF CopyChunk
  <2>2. "write" \in Places
    BY DEF Places
  <2>3. IsTool(tool', tool.prog, "write", tool.args, tool.file, tool.sec)
    BY <1>1, <2>1, <2>2, Updates
  <2>4. QED
    BY <1>1, <2>3 DEF IsTool
<1>4. QED
  BY <1>1, <1>2, <1>3 DEF Goes

LEMMA OpenFrame ==
  ASSUME ContentInv, CopyOpen \/ CopyAgain, UNCHANGED <<data, host, made>>
  PROVE  Goes
<1>1. /\ tool.prog = "cpmcp" /\ tool.step \in {"open", "write"}
      /\ wr.phase = "idle" /\ copied' = copied
      /\ UNCHANGED <<dir, disk, wr>>
      /\ tool' = [tool EXCEPT !.step = "chunk"]
  BY DEF CopyOpen, Open, CopyAgain, At, Quiet, fsvars
<1>2. tool'.prog = "cpmcp" /\ tool'.file = tool.file /\ tool'.step = "chunk"
  <2>1. "chunk" \in Places
    BY DEF Places
  <2>2. IsTool(tool', tool.prog, "chunk", tool.args, tool.file, tool.sec)
    BY <1>1, <2>1, Updates, Parts
  <2>3. QED
    BY <1>1, <2>2 DEF IsTool
<1>3. fd'[ino].pos = fd[ino].pos
  <2>1. CASE CopyOpen
    <3>1. fd[ino].pos = 0
      BY <2>1, Parts DEF CopyOpen, At, TargetEnd
    <3>2. fd' = [fd EXCEPT ![ino].file = "open", ![ino].pos = 0]
      BY <2>1 DEF CopyOpen, Open
    <3>3. QED
      BY <3>1, <3>2, Parts DEF TypeOK, Inode
  <2>2. CASE CopyAgain
    BY <2>2 DEF CopyAgain, fsvars
  <2>3. QED
    BY <2>1, <2>2
<1>4. QED
  BY <1>1, <1>2, <1>3 DEF Goes

\* the step after the last one of an argument
LEMMA NextArgContent ==
  ASSUME ToolsTypeOK, NextArg, tool.args > 0
  PROVE  tool'.step = "args" /\ tool'.prog = tool.prog
  BY Updates DEF IsTool

LEMMA FailedFrame ==
  ASSUME ContentInv, VolFailed
  PROVE  Rests
<1>1. /\ NextArg /\ UNCHANGED <<fsvars, copied, data, made>>
      /\ tool.step = "write" /\ wr.phase = "idle"
  BY DEF VolFailed, CopyFailed, At, Quiet
<1>2. tool'.step = "args" /\ tool'.prog = tool.prog
  BY <1>1, Parts, NextArgContent DEF Course
<1>3. QED
  BY <1>1, <1>2 DEF Rests, fsvars

\* Between arguments, and the rounds of cpmSync
LEMMA QuietFrame ==
  ASSUME ContentInv,
         Umount \/ SyncSector \/ \E prog, text : Start(prog, text),
         UNCHANGED <<data, made>>
  PROVE  Rests
<1>0. ToolsTypeOK /\ Course
  BY Parts
<1>1. CASE Umount
  <2>1. /\ tool' = [tool EXCEPT !.step = "sync"]
        /\ wr.phase = "idle" /\ UNCHANGED <<dir, disk, wr, copied>>
    BY <1>1 DEF Umount, Quiet, fsvars
  <2>2. "sync" \in Places
    BY DEF Places
  <2>3. IsTool(tool', tool.prog, "sync", tool.args, tool.file, tool.sec)
    BY <1>0, <2>1, <2>2, Updates
  <2>4. tool'.step = "sync" /\ tool'.prog = tool.prog
    BY <2>3 DEF IsTool
  <2>5. QED
    BY <2>1, <2>4 DEF Rests
<1>2. CASE SyncSector
  <2>1. /\ tool.step = "sync"
        /\ tool' = [tool EXCEPT !.sec = tool.sec + 1]
        /\ UNCHANGED <<dir, wr, copied>>
    BY <1>2 DEF SyncSector
  <2>2. IsTool(tool', tool.prog, tool.step, tool.args, tool.file,
               tool.sec + 1)
    BY <1>0, <1>2, <2>1, Updates DEF SyncSector
  <2>3. tool'.step = "sync" /\ tool'.prog = tool.prog
    BY <2>1, <2>2 DEF IsTool
  <2>4. wr.phase = "idle"
    BY <1>0, <2>1 DEF Course
  <2>5. QED
    BY <1>2, <2>1, <2>3, <2>4 DEF Rests
<1>3. CASE \E prog, text : Start(prog, text)
  <2>1. /\ tool.prog = "none" /\ tool'.step = "args"
        /\ UNCHANGED <<dir, disk, wr, copied>>
    BY <1>3 DEF Start, NoTool, fsvars
  <2>2. wr.phase = "idle"
    BY <1>0, <2>1 DEF Course
  <2>3. QED
    BY <2>1, <2>2 DEF Rests
<1>4. QED
  BY <1>1, <1>2, <1>3

\* The file that was copied is there, and the others are.
Copied ==
  /\ UNCHANGED <<dir, disk, data, wr>>
  /\ tool.step = "write" /\ tool.prog = "cpmcp" /\ wr.phase = "idle"
  /\ tool.file \in HostNames /\ tool.file \in Files
  /\ tool'.step = "args" /\ tool'.prog = "cpmcp"
  /\ DOMAIN made' = Files
  /\ \A f \in Files : /\ copied'[f] = IF f = tool.file THEN fd[ino].pos ELSE copied[f]
                      /\ made'[f] = IF f = tool.file THEN host ELSE made[f]

LEMMA DoneFrame ==
  ASSUME ~MpmDates, ContentInv, StampedDone
  PROVE  Copied
<1>0. ToolsTypeOK /\ Course
  BY Parts
<1>1. /\ copied' = [copied EXCEPT ![tool.file] = fd[ino].pos]
      /\ made' = [made EXCEPT ![tool.file] = host] /\ data' = data
      /\ NextArg /\ tool.step = "write" /\ tool.prog = "cpmcp"
      /\ wr.phase = "idle"
  BY DEF StampedDone, VolDone, CopyDone, At, Quiet
<1>2. dir' = dir /\ disk' = disk /\ wr' = wr
  BY DEF StampedDone, VolDone, CopyDone, Utime, Restamped, fsvars
<1>3. tool.file \in HostNames /\ tool.file \in Files
  BY <1>1, HostNamed DEF ContentInv, TargetHeld
<1>4. tool'.step = "args" /\ tool'.prog = "cpmcp"
  BY <1>0, <1>1, NextArgContent DEF Course
<1>5. \A f \in Files : /\ copied'[f] = IF f = tool.file THEN fd[ino].pos ELSE copied[f]
                       /\ made'[f] = IF f = tool.file THEN host ELSE made[f]
  BY <1>0, <1>1 DEF ToolsTypeOK, ContentInv, Shapes
<1>6. DOMAIN made' = Files
  BY <1>1 DEF ContentInv, Shapes
<1>7. QED
  BY <1>1, <1>2, <1>3, <1>4, <1>5, <1>6 DEF Copied

LEMMA DoneContent ==
  ASSUME Regular, ~MpmDates, Whole, ContentInv, StampedDone
  PROVE  ContentNext
<1>1. Copied /\ Holds(dir, data, tool.file, fd[ino].pos, host)
  BY DoneFrame DEF ContentInv, TargetHeld, Copied
<1>2. CopiesHeld'
  <2>1. ASSUME NEW f \in HostNames, copied'[f] # None
        PROVE  Holds(dir, data, f, copied'[f], made'[f])
    <3>1. f \in Files
      BY HostNamed
    <3>2. CASE f = tool.file
      BY <1>1, <3>1, <3>2 DEF Copied
    <3>3. CASE f # tool.file
      BY <1>1, <2>1, <3>1, <3>3 DEF ContentInv, CopiesHeld, Copied
    <3>4. QED
      BY <3>2, <3>3
  <2>2. QED
    BY <1>1, <2>1, CopiesHeldNext DEF Copied
<1>3. TableInv'
  <2>1. \/ \E s, version : UpdateDsStamps(s, version)
        \/ UNCHANGED <<ds, dirtyDs>>
    BY DEF StampedDone
  <2>2. QED
    BY <1>1, <2>1, JoinedSame, JoinedTables DEF ContentInv, Copied
<1>4. Shapes'
  BY <1>1 DEF Shapes, ContentInv, Copied
<1>5. QED
  BY <1>1, <1>2, <1>3, <1>4, NotCopying, NotFilling DEF ContentNext, Copied

\* cpmrm takes the blocks of its file only.
Removed(f) ==
  /\ f \in Files /\ tool.prog = "cpmrm"
  /\ UNCHANGED <<disk, data, wr>> /\ wr.phase = "idle"
  /\ tool'.step = "args" /\ tool'.prog = "cpmrm" /\ DOMAIN made' = Files
  /\ Match(dir', f[1], f[2]) = {}
  /\ \A s \in Slot : dir'[s].status = Free \/ dir'[s] = dir[s]
  /\ \A g \in Files :
       /\ g # f => Kept(dir, dir', g)
       /\ copied'[g] = IF g = f THEN None ELSE copied[g]
       /\ made'[g] = IF g = f THEN 0 ELSE made[g]

LEMMA RemoveFrame ==
  ASSUME Regular, ContentInv, VolRemove
  PROVE  \E f : Removed(f)
<1>0. ToolsTypeOK /\ TypeOK /\ Course /\ dir \in [Slot -> Entry]
  BY Parts
<1>1. PICK f \in Files : Remove(f) /\ made' = [made EXCEPT ![f] = 0]
  BY DEF VolRemove
<1>2. /\ Unlink(f[1], f[2]) /\ copied' = [copied EXCEPT ![f] = None]
      /\ NextArg /\ tool.prog = "cpmrm" /\ tool.args > 0 /\ data' = data
      /\ disk' = disk /\ wr' = wr /\ wr.phase = "idle"
  BY <1>1 DEF Remove, At, Arg, VolRemove, Unlink, Quiet
<1>3. tool'.step = "args" /\ tool'.prog = "cpmrm"
  BY <1>0, <1>2, NextArgContent
<1>4. PICK gone : /\ Match(dir, f[1], f[2]) \subseteq gone
                  /\ dir' = [s \in Slot |-> IF s \in gone
                                            THEN [dir[s] EXCEPT !.status = Free]
                                            ELSE dir[s]]
  BY <1>2, ZenonT(30) DEF Unlink, Erased
<1>5. \A s \in Slot : dir'[s].status = Free \/ dir'[s] = dir[s]
  BY <1>0, <1>4 DEF Entry
<1>6. Match(dir', f[1], f[2]) = {}
  <2>1. SUFFICES ASSUME NEW s \in Match(dir', f[1], f[2]) PROVE FALSE
    OBVIOUS
  <2>2. s \in Slot /\ IsOf(dir'[s], f)
    BY DEF Match, IsOf
  <2>3. dir'[s] = dir[s]
    BY <1>1, <1>5, <2>2, FileOf
  <2>4. s \in gone
    BY <1>4, <2>3 DEF Match
  <2>5. dir'[s].status = Free
    BY <1>0, <1>4, <2>2, <2>4 DEF Entry
  <2>6. QED
    BY <1>1, <2>2, <2>5, FileOf
<1>7. \A g \in Files : g # f => Kept(dir, dir', g)
  BY <1>0, <1>2, UnlinkKeeps
<1>8. \A g \in Files : /\ copied'[g] = IF g = f THEN None ELSE copied[g]
                       /\ made'[g] = IF g = f THEN 0 ELSE made[g]
  BY <1>0, <1>1, <1>2 DEF ToolsTypeOK, ContentInv, Shapes
<1>9. DOMAIN made' = Files
  BY <1>1 DEF ContentInv, Shapes
<1>10. QED
  BY <1>2, <1>3, <1>5, <1>6, <1>7, <1>8, <1>9 DEF Removed

\* the entries of the files that stay
LEMMA RemoveKeeps ==
  ASSUME Regular, NEW f, Removed(f), NEW g \in Files, g # f, NEW s \in Slot,
         IsOf(dir[s], g) \/ IsOf(dir'[s], g)
  PROVE  dir'[s] = dir[s]
<1>1. IsOf(dir'[s], g)
  BY DEF Kept, Removed
<1>2. dir'[s].status # Free
  BY <1>1, FileOf
<1>3. QED
  BY <1>2 DEF Removed

LEMMA RemoveContent ==
  ASSUME Regular, ContentInv, VolRemove, UNCHANGED <<ds, dirtyDs>>
  PROVE  ContentNext
<1>1. PICK f : Removed(f)
  BY RemoveFrame
<1>2. \A g \in Files : g # f => Grows(dir, dir', g)
  BY <1>1, RemoveKeeps, GrownOrder DEF Grows
<1>3. CopiesHeld'
  <2>1. ASSUME NEW g \in HostNames, copied'[g] # None
        PROVE  Holds(dir', data, g, copied'[g], made'[g])
    <3>1. /\ g \in Files /\ g # f /\ copied'[g] = copied[g]
          /\ made'[g] = made[g]
      BY <1>1, <2>1, HostNamed DEF Removed
    <3>2. Holds(dir, data, g, copied[g], made[g])
      BY <2>1, <3>1 DEF ContentInv, CopiesHeld
    <3>3. copied[g] \in Nat
      BY <2>1, <3>1, Parts DEF ToolsTypeOK
    <3>4. QED
      BY <1>2, <3>1, <3>2, <3>3, HoldsGrown
  <2>2. QED
    BY <1>1, <2>1, CopiesHeldNext DEF Removed
<1>4. TableInv'
  <2>1. 0 \in Slot
    BY Geometry DEF Slot
  <2>2. OwnsTable(dir')
    BY <1>1, <2>1 DEF Removed, OwnsTable, IsStamper, ContentInv, TableInv
  <2>3. ~dirtyDs /\ OwnsTable(disk')
    BY <1>1 DEF Removed, ContentInv, TableInv
  <2>4. QED
    BY <1>1, <2>2, <2>3, TableNext DEF Removed
<1>5. Shapes'
  BY <1>1 DEF Shapes, ContentInv, Removed
<1>6. QED
  BY <1>1, <1>3, <1>4, <1>5, NotCopying, NotFilling DEF ContentNext, Removed

-----------------------------------------------------------------------------
(* The end of a session                                                    *)

LEMMA MountTable ==
  ASSUME OwnsTable(disk'), dir' = disk', CheckDsMounted
  PROVE  TableInv'
<1>1. OwnsTable(dir')
  BY DEF OwnsTable, IsStamper
<1>2. ~dirtyDs'
  BY DEF CheckDsMounted
<1>3. ds' # NoTable => IsStamper(dir'[0])
  BY DEF CheckDsMounted, CheckDs, IsStamper
<1>4. QED
  BY <1>1, <1>2, <1>3, TableNext

\* syncDs writes to no block of a file that was copied, of directory d.
Spares(d) ==
  \A f \in HostNames, s \in Slot, i \in PtrIx :
    IsOf(d[s], f) /\ d[s].ptr[i] # 0 =>
      data'[d[s].ptr[i]] = data[d[s].ptr[i]]

LEMMA TableSpares ==
  ASSUME Regular, Whole, NEW d \in [Slot -> Entry],
         NotShared(d), InDataArea(d), OwnsTable(d), IsStamper(d[0]),
         NEW end, data' = TableTo(end)
  PROVE  Spares(d)
<1> SUFFICES ASSUME NEW f \in HostNames, NEW s \in Slot, NEW i \in PtrIx,
                    IsOf(d[s], f), d[s].ptr[i] # 0
             PROVE  data'[d[s].ptr[i]] = data[d[s].ptr[i]]
  BY DEF Spares
<1> DEFINE b == d[s].ptr[i]
<1>1. f \in Files /\ f = <<f[1], f[2]>>
  BY HostNamed DEF Files
<1>2. s \in FileSlots(d) /\ b \in Block
  <2>1. s \in FileSlots(d)
    BY <1>1, FileOf DEF FileSlots
  <2>2. b \in Refs(d[s])
    BY DEF Refs
  <2>3. b \in DirBlks .. Size - 1
    BY <2>1, <2>2 DEF InDataArea
  <2>4. QED
    BY <2>1, <2>3, Geometry DEF Block
<1>3. b \notin Tabled
  <2>1. SUFFICES ASSUME b \in Tabled PROVE FALSE
    OBVIOUS
  <2>2. PICK j \in PtrIx : b = d[0].ptr[j]
    BY <2>1 DEF Refs, OwnsTable
  <2>3. 0 \in FileSlots(d)
    BY Geometry DEF FileSlots, Slot, IsStamper
  <2>4. s = 0
    BY <1>2, <2>2, <2>3, NotSharedUse
  <2>5. QED
    BY <1>1, <2>4 DEF IsStamper, IsOf, Whole
<1>4. QED
  BY <1>2, <1>3 DEF TableTo

LEMMA SyncDsSpares ==
  ASSUME Regular, Whole, ContentInv, SyncDs
  PROVE  Spares(dir)
<1>1. CASE ~dirtyDs
  BY <1>1 DEF SyncDs, Spares
<1>2. CASE dirtyDs
  <2>1. IsStamper(dir[0]) /\ OwnsTable(dir) /\ dir \in [Slot -> Entry]
    BY <1>2, Parts DEF ContentInv, TableInv
  <2>2. NotShared(dir) /\ InDataArea(dir)
    BY Parts
  <2>3. QED
    BY <1>2, <2>1, <2>2, TableSpares DEF SyncDs
<1>3. QED
  BY <1>1, <1>2

\* A session that ends in order leaves an image with the directory in core.
Left ==
  /\ dir' = dir /\ disk' = dir /\ SyncDs /\ CheckDsMounted
  /\ UNCHANGED <<copied, made>> /\ tool' = NoTool /\ wr'.phase = "idle"

LEMMA EndFrame ==
  ASSUME ContentInv, StampedEnd
  PROVE  Left
<1>0. Saved /\ TypeOK /\ Course
  BY Parts
<1>1. /\ SyncDs /\ CheckDsMounted /\ made' = made
      /\ Leave \/ SyncLast
  BY DEF StampedEnd, VolEnd
<1>2. /\ dir' = disk' /\ tool' = NoTool /\ copied' = copied
      /\ wr'.phase = "idle"
  BY <1>1 DEF Leave, SyncLast, Gone, Mount, Finish, Returned
<1>3. disk' = dir
  <2>1. CASE Leave
    BY <1>0, <2>1 DEF Leave, Saved
  <2>2. CASE SyncLast
    <3>1. disk' = Synced /\ tool.step = "sync" /\ tool.sec = LastDirSec
      BY <2>2 DEF SyncLast
    <3>2. QED
      BY <1>0, <3>1, SyncWrites
  <2>3. QED
    BY <1>1, <2>1, <2>2
<1>4. QED
  BY <1>1, <1>2, <1>3 DEF Left

LEMMA EndContent ==
  ASSUME Regular, Whole, ContentInv, StampedEnd
  PROVE  ContentNext
<1>1. Left
  BY EndFrame
<1>2. CopiesHeld'
  <2>1. ASSUME NEW f \in HostNames, copied[f] # None
        PROVE  Holds(dir, data', f, copied[f], made[f])
    <3>1. copied[f] \in Nat
      BY <2>1, HostNamed, Parts DEF ToolsTypeOK
    <3>2. Holds(dir, data, f, copied[f], made[f])
      BY <2>1 DEF ContentInv, CopiesHeld
    <3>3. \A s \in Slot, i \in PtrIx :
            IsOf(dir[s], f) /\ dir[s].ptr[i] # 0 =>
              data'[dir[s].ptr[i]] = data[dir[s].ptr[i]]
      BY <1>1, SyncDsSpares DEF Left, Spares
    <3>4. QED
      BY <3>1, <3>2, <3>3, HoldsIn
  <2>2. QED
    BY <1>1, <2>1, CopiesHeldNext DEF Left
<1>3. Shapes'
  <2>1. DOMAIN data' = Block
    BY <1>1 DEF Left, SyncDs, TableTo, ContentInv, Shapes
  <2>2. QED
    BY <1>1, <2>1 DEF ContentInv, Shapes, Left
<1>4. TableInv'
  <2>1. OwnsTable(disk')
    BY <1>1 DEF ContentInv, TableInv, Left
  <2>2. QED
    BY <1>1, <2>1, MountTable DEF Left
<1>5. tool'.step = "args"
  BY <1>1 DEF NoTool, Left
<1>6. QED
  BY <1>1, <1>2, <1>3, <1>4, <1>5, NotCopying, NotFilling DEF ContentNext, Left

\* One that does not leaves what cpmSync had written, in the end a part of the
\* table.
Lost ==
  /\ dir' = disk' /\ CheckDsMounted
  /\ \/ disk' = disk /\ data' = data
     \/ /\ tool.step = "sync" /\ tool.sec = LastDirSec /\ disk' = Synced
        /\ dirtyDs /\ \E end : data' = TableTo(end)
  /\ copied' = [f \in Files |-> None] /\ made' = [f \in Files |-> 0]
  /\ tool' = NoTool /\ wr'.phase = "idle"

LEMMA DieFrame ==
  ASSUME DieUnstamped \/ StampedDie PROVE Lost
<1>1. CASE DieUnstamped
  BY <1>1 DEF Lost, DieUnstamped, Gone, Mount, Finish, Returned
<1>2. CASE StampedDie
  BY <1>2 DEF Lost, StampedDie, VolDie, Die, Gone, Mount, Finish, Returned
<1>3. QED
  BY <1>1, <1>2

LEMMA DieContent ==
  ASSUME ContentInv, DieUnstamped \/ StampedDie
  PROVE  ContentNext
<1>1. Lost
  BY DieFrame
<1>2. \A f \in HostNames : copied'[f] = None
  BY <1>1, HostNamed DEF Lost
<1>3. CopiesHeld'
  BY <1>2, CopiesHeldNext
<1>4. OwnsTable(disk')
  BY <1>1, SyncedOwns DEF ContentInv, TableInv, Lost
<1>5. TableInv'
  BY <1>1, <1>4, MountTable DEF Lost
<1>6. Shapes'
  BY <1>1 DEF Shapes, ContentInv, Lost, TableTo
<1>7. tool'.step = "args"
  BY <1>1 DEF NoTool, Lost
<1>8. QED
  BY <1>1, <1>3, <1>5, <1>6, <1>7, NotCopying, NotFilling DEF ContentNext, Lost

-----------------------------------------------------------------------------
(* The invariant                                                           *)

\* The steps of the volume are steps of the programs, but for a death between
\* the directory and the table.
LEMMA VolumeSteps ==
  ASSUME DsNext PROVE ToolsNext \/ DieUnstamped
<1>1. CASE StampedCreat
  <2>1. PICK h \in HostFiles : CopyCreat(h[1])
    BY <1>1 DEF StampedCreat, VolCreat
  <2>2. h[1] \in Files
    BY HostNamed
  <2>3. QED
    BY <2>1, <2>2 DEF ToolsNext, ToolStep
<1>2. CASE StampedWrite
  <2>1. WriteStep /\ tool.step = "write" /\ UNCHANGED <<tool, copied>>
    BY <1>2 DEF StampedWrite, VolWrite, WriteStep
  <2>2. QED
    BY <2>1 DEF CopyWrite, ToolsNext, ToolStep
<1>3. CASE StampedDone \/ StampedEnd \/ VolChunk \/ VolFailed \/ StampedDie
  BY <1>3 DEF StampedDone, VolDone, StampedEnd, VolEnd, VolChunk, VolFailed,
              StampedDie, VolDie, ToolsNext, ToolStep
<1>4. CASE VolQuiet
  BY <1>4 DEF VolQuiet, ToolsNext, ToolStep
<1>5. CASE VolRemove
  BY <1>5 DEF VolRemove, ToolsNext, ToolStep
<1>6. QED
  BY <1>1, <1>2, <1>3, <1>4, <1>5 DEF DsNext

LEMMA UnstampedSize ==
  ASSUME SizeInv, DieUnstamped
  PROVE  SizeInv'
<1>1. /\ SessionInv /\ TypeOK
      /\ tool' = NoTool /\ copied' = [f \in Files |-> None]
      /\ dir' = disk' /\ ~dirty'
  BY DEF SizeInv, SessionInv, Owned, DieUnstamped, Gone, Mount
<1>2. Ended
  BY DEF DieUnstamped, Gone, Ended
<1>3. Owned' /\ UniqueInv' /\ Disjoint(disk)' /\ wr'.phase = "idle"
  BY <1>1, <1>2, EndedHeld, EndedType, DisjointNext
<1>4. Course'
  BY <1>1, <1>3, CourseEnd
<1>5. tool'.prog = "none" /\ tool'.step = "args" /\ ~tool'.text
  BY <1>1 DEF NoTool
<1>6. Between'
  BY <1>1, <1>5, WithinOrder DEF Between
<1>7. Target' /\ Saved' /\ Chunks' /\ TargetEnd'
  BY <1>1, <1>5 DEF Target, Saved, Chunks, TargetEnd
<1>8. CopiesEnd'
  BY <1>1 DEF CopiesEnd, None
<1>9. QED
  BY <1>3, <1>4, <1>6, <1>7, <1>8 DEF SizeInv, SessionInv

LEMMA ContentStep ==
  ASSUME Regular, ~MpmDates, Covering, Straight, Whole, ContentInv,
         [DsNext]_dsvars
  PROVE  ContentInv'
<1>1. SizeInv
  BY DEF ContentInv
<1>2. CASE DsNext
  <2>1. SizeInv'
    BY <1>1, <1>2, VolumeSteps, SizeStep, UnstampedSize
  <2>2. ContentNext
    <3>1. CASE StampedCreat
      BY <3>1, CreatContent
    <3>2. CASE StampedWrite
      BY <3>2, WriteContent
    <3>3. CASE StampedDone
      BY <3>3, DoneContent
    <3>4. CASE StampedEnd
      BY <3>4, EndContent
    <3>5. CASE VolChunk /\ UNCHANGED <<ds, dirtyDs>>
      BY <3>5, ChunkFrame, GoesContent
    <3>6. CASE VolFailed /\ UNCHANGED <<ds, dirtyDs>>
      BY <3>6, FailedFrame, RestsContent
    <3>7. CASE VolQuiet /\ UNCHANGED <<ds, dirtyDs>>
      BY <3>7, OpenFrame, GoesContent, QuietFrame, RestsContent DEF VolQuiet
    <3>8. CASE VolRemove /\ UNCHANGED <<ds, dirtyDs>>
      BY <3>8, RemoveContent
    <3>9. CASE DieUnstamped \/ StampedDie
      BY <3>9, DieContent
    <3>10. QED
      BY <1>2, <3>1, <3>2, <3>3, <3>4, <3>5, <3>6, <3>7, <3>8, <3>9 DEF DsNext
  <2>3. QED
    BY <2>1, <2>2 DEF ContentInv, ContentNext
<1>3. CASE UNCHANGED dsvars
  <2>1. /\ UNCHANGED toolvars /\ data' = data /\ buf' = buf /\ host' = host
        /\ made' = made /\ ds' = ds /\ dirtyDs' = dirtyDs
    BY <1>3 DEF dsvars, toolvars
  <2>2. SizeInv'
    BY <1>1, <2>1, SizeStep
  <2>3. Shapes'
    BY <2>1 DEF ContentInv, Shapes
  <2>4. CopiesHeld'
    BY <2>1, GrowsSame, CopiesHeldKept DEF toolvars
  <2>5. TargetHeld'
    <3>1. CASE tool.step \in {"open", "chunk", "write"}
      BY <2>1, <3>1, GrowsSame, TargetHeldKept DEF toolvars
    <3>2. CASE tool.step \notin {"open", "chunk", "write"}
      BY <2>1, <3>2, NotCopying DEF toolvars
    <3>3. QED
      BY <3>1, <3>2
  <2>6. Ready'
    <3>1. wr' = wr /\ fd' = fd /\ dir' = dir
      BY <2>1 DEF toolvars
    <3>2. Pos' = Pos /\ Cell' = Cell
      BY <3>1 DEF Pos, Cell, PtrAt
    <3>3. QED
      BY <2>1, <3>1, <3>2 DEF ContentInv, Ready, HostByte, Room, Offset
  <2>7. TableInv'
    <3>1. OwnsTable(dir) /\ OwnsTable(disk)
          /\ (ds # NoTable /\ tool.prog # "cpmrm" => IsStamper(dir[0]))
          /\ (dirtyDs => tool.prog = "cpmcp" /\ IsStamper(dir[0]))
      BY DEF ContentInv, TableInv
    <3>2. QED
      BY <2>1, <3>1, TableNext DEF toolvars
  <2>8. QED
    BY <2>2, <2>3, <2>4, <2>5, <2>6, <2>7 DEF ContentInv
<1>4. QED
  BY <1>2, <1>3

LEMMA ContentInit ==
  ASSUME \A d \in Images : OwnsTable(d), DsInit
  PROVE  ContentInv
<1>1. /\ ToolsInit /\ DOMAIN data = Block /\ DOMAIN made = Files
      /\ ds = CheckDs(dir, data) /\ dirtyDs = FALSE
  BY DEF DsInit, VolInit
<1>2. /\ disk \in Images /\ dir = disk /\ wr.phase = "idle"
      /\ tool.step = "args" /\ \A f \in Files : copied[f] = None
  BY <1>1 DEF ToolsInit, Init, Returned, NoTool
<1>3. SizeInv
  BY <1>1, SizeInit
<1>4. CopiesHeld
  BY <1>2, HostNamed DEF CopiesHeld
<1>5. TargetHeld /\ Ready
  BY <1>2 DEF TargetHeld, Ready
<1>6. ds # NoTable => IsStamper(dir[0])
  BY <1>1 DEF CheckDs, IsStamper
<1>7. TableInv
  BY <1>1, <1>2, <1>6 DEF TableInv
<1>8. QED
  BY <1>1, <1>3, <1>4, <1>5, <1>7 DEF ContentInv, Shapes

LEMMA SlotInt == \A s \in Slot : s \in Int /\ s <= s
  BY Geometry DEF Slot

\* Contents for blocks that need not be those of the image now
ReadsTo(d, blocks, f, size) ==
  LET read == [n \in 0 .. (size - 1) \div BlkSiz |-> BlockAt(d, f, n * BlkSiz)]
  IN [i \in 1 .. size |->
        LET b == read[(i - 1) \div BlkSiz]
        IN IF b = {} THEN 0
           ELSE blocks[CHOOSE x \in b : TRUE][(i - 1) % BlkSiz]]

Reads(d, blocks, f) ==
  LET high == Highest(d, Match(d, f[1], f[2]))
  IN IF high = {} THEN NotThere
     ELSE ReadsTo(d, blocks, f, SizeOf(d[CHOOSE s \in high : TRUE]))

LEMMA ContentsRead == \A d, f : Contents(d, f) = Reads(d, data, f)
  BY DEF Contents, Reads, ReadsTo

\* The block in which cpmRead looks for a byte that the file holds
LEMMA BlockFoundAt ==
  ASSUME Regular, Covering, NEW d, Apart(d), NEW f \in Files, NEW p \in Nat,
         NEW t \in Slot, Bears(d, f, t, p)
  PROVE  BlockAt(d, f, (p \div BlkSiz) * BlkSiz) = {d[t].ptr[PtrAt(p)]}
<1> DEFINE k == p \div BlkSiz
           q == k * BlkSiz
           b == d[t].ptr[PtrAt(p)]
<1>1. k \in Nat /\ BlkSiz \in Nat \ {0}
  BY Geometry, DivParts
<1>2. q \in Nat /\ q \div BlkSiz = k
  <2> HIDE DEF k
  <2>1. q = BlkSiz * k + 0 /\ q \in Nat /\ 0 \in 0 .. BlkSiz - 1
    BY <1>1, Z3
  <2>2. QED
    BY <1>1, <2>1, DivUnique
<1> HIDE DEF q
<1>3. PtrAt(q) = PtrAt(p) /\ q \div ExtCap = p \div ExtCap
  BY <1>2, BlockPointer
<1>4. (q \div Logical) \div Extents = p \div ExtCap
  BY <1>2, <1>3, ExtentOf
<1> DEFINE M == MatchExtent(d, f[1], f[2], q \div Logical)
<1>5. t \in M
  BY <1>4, FileOf DEF MatchExtent, Match, Bears, IsOf
<1>6. \A s \in M : s = t
  <2>1. SUFFICES ASSUME NEW s \in M PROVE s = t
    OBVIOUS
  <2>2. s \in Slot /\ SameExtent(d[s], d[t])
    BY <1>4 DEF MatchExtent, Match, Bears, IsOf, SameExtent
  <2>3. t \in FileSlots(d)
    BY FileOf DEF Bears, FileSlots
  <2>4. QED
    BY <2>2, <2>3 DEF Apart
<1>7. Firsts(M) = {t}
  <2>1. M = {t}
    BY <1>5, <1>6
  <2> HIDE DEF M
  <2>2. t <= t
    BY SlotInt
  <2>3. QED
    BY <2>1, <2>2 DEF Firsts
<1>8. BlockAt(d, f, q) = {d[s].ptr[PtrAt(q)] : s \in {t}} \ {0}
  BY <1>7 DEF BlockAt
<1>9. b # 0
  BY DEF Bears
<1>10. QED
  BY <1>3, <1>8, <1>9 DEF q

\* What is read of a file of n bytes that all are there
LEMMA WholeReads ==
  ASSUME Regular, Covering, NEW d \in [Slot -> Entry], Apart(d),
         NEW f \in Files, NEW n \in Nat, NEW s \in Slot, Ends(d, s, f, n),
         NEW blocks, NEW v, Holds(d, blocks, f, n, v)
  PROVE  Reads(d, blocks, f) = [i \in 1 .. n |-> HostByte(v, i - 1)]
<1>1. BlkSiz \in Nat \ {0}
  BY Geometry
<1> DEFINE high == Highest(d, Match(d, f[1], f[2]))
<1>2. s \in Match(d, f[1], f[2])
  BY FileOf DEF Ends, Match, IsOf
<1>3. high = {s}
  <2>1. ASSUME NEW t \in high PROVE t = s
    <3>1. t \in Slot /\ IsOf(d[t], f)
      BY DEF Highest, Match, IsOf
    <3>2. d[t].extno \in Nat /\ d[s].extno \in Nat
      BY <1>1, <3>1, ExtnoType
    <3>3. d[t].extno > d[s].extno \/ d[t].extno = d[s].extno
      BY <1>2 DEF Highest
    <3>4. t # s => d[t].extno < d[s].extno
      BY <3>1 DEF Ends
    <3>5. QED
      BY <3>2, <3>3, <3>4
  <2>2. s \in high
    <3>1. SUFFICES ASSUME NEW t \in Match(d, f[1], f[2])
                   PROVE  \/ d[s].extno > d[t].extno
                          \/ d[s].extno = d[t].extno /\ s <= t
      BY <1>2 DEF Highest
    <3>2. t \in Slot /\ IsOf(d[t], f)
      BY DEF Match, IsOf
    <3>3. d[t].extno \in Nat /\ d[s].extno \in Nat
      BY <1>1, <3>2, ExtnoType
    <3>4. t # s => d[t].extno < d[s].extno
      BY <3>2 DEF Ends
    <3>5. CASE t = s
      BY <3>3, <3>5, SlotInt
    <3>6. QED
      BY <3>3, <3>4, <3>5
  <2>3. QED
    BY <2>1, <2>2
<1>4. SizeOf(d[CHOOSE x \in high : TRUE]) = n
  <2>1. (CHOOSE x \in high : TRUE) = s
    BY <1>3
  <2>2. QED
    BY <2>1 DEF Ends
<1> DEFINE read == [m \in 0 .. (n - 1) \div BlkSiz |-> BlockAt(d, f, m * BlkSiz)]
           byte(i) == LET b == read[(i - 1) \div BlkSiz]
                      IN IF b = {} THEN 0
                         ELSE blocks[CHOOSE x \in b : TRUE][(i - 1) % BlkSiz]
<1>5. Reads(d, blocks, f) = [i \in 1 .. n |-> byte(i)]
  <2>1. high # {}
    BY <1>3
  <2>2. Reads(d, blocks, f) = ReadsTo(d, blocks, f, n)
    BY <1>4, <2>1 DEF Reads
  <2>3. QED
    BY <2>2 DEF ReadsTo
<1>6. ASSUME NEW i \in 1 .. n
      PROVE  byte(i) = HostByte(v, i - 1)
  <2> DEFINE p == i - 1
             k == p \div BlkSiz
  <2>1. p \in Nat /\ p \in 0 .. n - 1
    BY <1>1
  <2>2. PICK t \in Slot :
          /\ Bears(d, f, t, p)
          /\ blocks[d[t].ptr[PtrAt(p)]][p % BlkSiz] = HostByte(v, p)
    BY <2>1 DEF Holds
  <2> DEFINE b == d[t].ptr[PtrAt(p)]
  <2>3. k \in 0 .. (n - 1) \div BlkSiz
    <3>1. n - 1 \in Nat /\ p <= n - 1
      BY <1>1, <2>1
    <3>2. k <= (n - 1) \div BlkSiz
      BY <1>1, <2>1, <3>1, DivMonotone
    <3>3. k \in Nat /\ (n - 1) \div BlkSiz \in Nat
      BY <1>1, <2>1, <3>1, DivParts
    <3>4. QED
      BY <3>2, <3>3
  <2>4. BlockAt(d, f, k * BlkSiz) = {b}
    BY <1>1, <2>1, <2>2, BlockFoundAt
  <2>5. read[k] = {b}
    BY <2>3, <2>4
  <2>6. QED
    BY <2>2, <2>5
<1> HIDE DEF byte
<1>7. QED
  BY <1>5, <1>6

\* What a copied file is found to hold
LEMMA ContentFaithful ==
  ASSUME Regular, Covering, ContentInv
  PROVE  CopyIsFaithful
<1> SUFFICES ASSUME NEW f \in HostNames, copied[f] # None
             PROVE  Contents(dir, f)
                      = [i \in 1 .. copied[f] |-> HostByte(made[f], i - 1)]
  BY DEF CopyIsFaithful
<1>1. /\ f \in Files /\ copied[f] \in Nat
      /\ dir \in [Slot -> Entry] /\ Apart(dir)
  BY HostNamed, Parts DEF ToolsTypeOK
<1>2. PICK s \in Slot : Ends(dir, s, f, copied[f])
  BY <1>1, Parts DEF CopiesEnd
<1>3. Holds(dir, data, f, copied[f], made[f])
  BY DEF ContentInv, CopiesHeld
<1>4. QED
  BY <1>1, <1>2, <1>3, WholeReads, ContentsRead

\* A file that cpmcp copied reads as what was copied, wherever blocks, extents
\* and sectors begin and end in it, until somebody removes it: no later chunk,
\* file or session, and no table of DateStamper, writes to its blocks.
THEOREM CopiesFaithful ==
  ASSUME Regular, ~MpmDates, Covering, Straight, Whole,
         \A d \in Images : OwnsTable(d)
  PROVE  DsSpec => []CopyIsFaithful
<1>1. DsInit => ContentInv
  BY ContentInit
<1>2. ContentInv /\ [DsNext]_dsvars => ContentInv'
  BY ContentStep
<1>3. ContentInv => CopyIsFaithful
  BY ContentFaithful
<1>4. QED
  BY <1>1, <1>2, <1>3, PTL DEF DsSpec

-----------------------------------------------------------------------------
(* What a step of cpmWrite changes                                         *)

Aimed(x) == x = IF wr.phase = "extent" THEN wr'.extent ELSE wr.extent

\* One entry, of the file that is written, and the one that is stamped.
OneEntry(f) ==
  \E x \in Slot :
    /\ \A s \in Slot : s # x => dir'[s] = dir[s]
    /\ IsOf(dir'[x], f) /\ (dir[x].status = Free \/ IsOf(dir[x], f))
    /\ Aimed(x)

LEMMA WriteOne ==
  ASSUME Regular, ~MpmDates, Covering, ContentInv, StampedWrite
  PROVE  /\ tool.file \in HostNames /\ tool.file \in Files
         /\ dir' = dir \/ OneEntry(tool.file)
         /\ wr.phase = "fill" => OneEntry(tool.file)
<1>0. /\ TypeOK /\ Course /\ Place /\ dir \in [Slot -> Entry]
      /\ tool.step = "write" /\ WriteStep
  BY Parts DEF StampedWrite, VolWrite, WriteStep
<1>1. wr.h = ino /\ wr.phase # "idle"
  BY <1>0, WriteFrame DEF Course
<1> DEFINE f == tool.file
<1>2. f \in HostNames /\ f \in Files
  BY <1>0, HostNamed DEF ContentInv, TargetHeld
<1>3. /\ IsOf(Own, f)
      /\ wr.phase \in {"block", "fill"} => IsOf(dir[wr.extent], f)
  BY <1>0, <1>1, Parts DEF Target, Own
<1> HIDE DEF f
<1>4. ASSUME NEW new, IsOf(new, f), dir' = [dir EXCEPT ![wr.extent] = new],
             wr.phase \in {"block", "fill"}
      PROVE  OneEntry(f)
  <2>1. wr.extent \in Slot
    BY <1>0, <1>4, WriteLocals
  <2>2. /\ dir'[wr.extent] = new
        /\ \A s \in Slot : s # wr.extent => dir'[s] = dir[s]
    BY <1>0, <1>4, <2>1
  <2>3. Aimed(wr.extent)
    BY <1>4 DEF Aimed
  <2>4. QED
    BY <1>3, <1>4, <2>1, <2>2, <2>3 DEF OneEntry
<1>5. CASE ExtentAdded
  <2>1. PICK s \in FreeSlots(dir) :
          /\ dir' = [dir EXCEPT ![s] = Extended(Own, Pos \div Logical)]
          /\ UseExtent(s)
    BY <1>5 DEF ExtentAdded, Restamped, Firsts
  <2> DEFINE new == Extended(Own, Pos \div Logical)
  <2>2. s \in Slot /\ dir[s].status = Free
    BY DEF FreeSlots
  <2>3. IsOf(new, f)
    BY <1>3 DEF IsOf, Extended
  <2> HIDE DEF new
  <2>4. dir'[s] = new /\ \A t \in Slot : t # s => dir'[t] = dir[t]
    BY <1>0, <2>1, <2>2 DEF new
  <2>5. Aimed(s) /\ wr.phase # "fill"
    BY <1>5, <2>1 DEF Aimed, ExtentAdded, UseExtent, Go
  <2>6. QED
    BY <1>2, <2>2, <2>3, <2>4, <2>5 DEF OneEntry, f
<1>6. CASE BlockAllocated
  <2>1. PICK b \in Block : dir' = [dir EXCEPT ![wr.extent].ptr[PtrAt(Pos)] = b]
    BY <1>6 DEF BlockAllocated, Restamped, Firsts
  <2> DEFINE i == PtrAt(Pos)
             new == [dir[wr.extent] EXCEPT !.ptr[i] = b]
  <2>2. /\ wr.phase = "block" /\ dir[wr.extent] \in Entry
        /\ PtrAt(Pos) \in PtrIx /\ b \in Nat
    BY <1>0, <1>6, WriteLocals, PtrAtType DEF BlockAllocated, Block
  <2>3. new.status = dir[wr.extent].status /\ new.name = dir[wr.extent].name
    BY <2>2, PtrSetFields
  <2>4. dir' = [dir EXCEPT ![wr.extent] = new]
    BY <2>1
  <2> HIDE DEF new
  <2>5. IsOf(new, f)
    BY <1>3, <2>2, <2>3 DEF IsOf
  <2>6. QED
    BY <1>2, <1>4, <2>2, <2>4, <2>5 DEF f
<1>7. CASE Filled
  <2>1. PICK last \in PtrIx :
          dir' = [dir EXCEPT ![wr.extent] =
                    Recorded(dir[wr.extent],
                             wr.extno + (last * BlkSiz) \div ExtCap,
                             Pos + Room(Pos, wr.count))]
    BY <1>7 DEF Filled, Restamped, Last
  <2> DEFINE new == Recorded(dir[wr.extent],
                             wr.extno + (last * BlkSiz) \div ExtCap,
                             Pos + Room(Pos, wr.count))
  <2>2. wr.phase = "fill"
    BY <1>7 DEF Filled
  <2>3. IsOf(new, f)
    BY <1>3, <2>2 DEF IsOf, Recorded
  <2> HIDE DEF new
  <2>4. dir' = [dir EXCEPT ![wr.extent] = new]
    BY <2>1 DEF new
  <2>5. QED
    BY <1>2, <1>4, <2>2, <2>3, <2>4 DEF f
<1>8. CASE dir' = dir /\ wr.phase # "fill"
  BY <1>2, <1>8 DEF f
<1>9. QED
  <2>1. \/ ExtentAdded \/ BlockAllocated \/ Filled
        \/ dir' = dir /\ wr.phase # "fill"
    BY <1>0 DEF WriteStep, ExtentFound, ExtentDenied, BlockFound,
                BlockUnreadable, BlockDenied
  <2>2. QED
    BY <1>5, <1>6, <1>7, <1>8, <2>1

-----------------------------------------------------------------------------
(* The places of the stamps                                                *)

LEMMA WholeParts ==
  ASSUME NEW n \in Nat, NEW c \in Nat \ {0}
  PROVE  /\ (n + c - 1) \div c \in Nat
         /\ n <= c * ((n + c - 1) \div c)
<1> DEFINE a == n + c - 1
<1>1. a \in Nat
  OBVIOUS
<1>2. /\ a = c * (a \div c) + (a % c) /\ a \div c \in Nat
      /\ a % c \in 0 .. c - 1
  BY <1>1, DivParts
<1> DEFINE q == a \div c
           m == c * q
<1>3. m \in Int
  <2> HIDE DEF a
  <2>1. q \in Nat
    BY <1>2
  <2> HIDE DEF q
  <2>2. QED
    BY <2>1, Z3
<1> HIDE DEF m, q
<1>4. n <= m
  BY <1>2, <1>3 DEF m, q
<1>5. QED
  BY <1>2, <1>4 DEF m, q

LEMMA StampSizes ==
  /\ DsPer \in Nat \ {0} /\ DsRecLen \in Nat \ {0} /\ DsRecs \in Nat
  /\ DsBlks \in Nat /\ DsRecLen = DsPer + 1
  /\ MaxDir <= DsPer * DsRecs /\ DsRecLen * DsRecs <= BlkSiz * DsBlks
<1>1. /\ DsPer \in Nat \ {0} /\ BlkSiz \in Nat \ {0} /\ MaxDir \in Nat
      /\ DsRecLen = DsPer + 1
  BY StamperAssumption, Geometry DEF DsRecLen
<1>2. DsRecLen \in Nat \ {0}
  BY <1>1
<1>3. DsRecs \in Nat /\ MaxDir <= DsPer * DsRecs
  BY <1>1, WholeParts DEF DsRecs
<1>4. DsRecs * DsRecLen \in Nat /\ DsRecs * DsRecLen = DsRecLen * DsRecs
  BY <1>2, <1>3, Z3
<1>5. DsBlks \in Nat /\ DsRecs * DsRecLen <= BlkSiz * DsBlks
  BY <1>1, <1>4, WholeParts DEF DsBlks
<1>6. QED
  BY <1>1, <1>2, <1>3, <1>4, <1>5

\* Each entry has a place of its own in the table, which is not that of a sum.
LEMMA StampPlace ==
  ASSUME NEW s \in Slot
  PROVE  /\ StampAt(s) \in DsBytes
         /\ StampAt(s) \div DsRecLen = s \div DsPer
         /\ StampAt(s) % DsRecLen = s % DsPer /\ s % DsPer # DsPer
<1> DEFINE q == s \div DsPer
           r == s % DsPer
<1>1. s \in Nat /\ s < MaxDir
  BY Geometry DEF Slot
<1>2. s = DsPer * q + r /\ q \in Nat /\ r \in 0 .. DsPer - 1
  BY <1>1, StampSizes, DivParts
<1> HIDE DEF q, r
<1>3. r \in 0 .. DsRecLen - 1 /\ r # DsPer
  BY <1>2, StampSizes
<1>4. q < DsRecs
  <2>1. \A a, b, c \in Nat : a >= b => c * a >= c * b
    BY Z3
  <2>2. DsPer * q \in Nat /\ DsPer * DsRecs \in Nat
    BY <1>2, StampSizes, Z3
  <2>3. CASE q >= DsRecs
    <3>1. DsPer * q >= DsPer * DsRecs
      BY <1>2, <2>1, <2>3, StampSizes
    <3>2. QED
      BY <1>1, <1>2, <2>2, <3>1, StampSizes, Geometry
  <2>4. QED
    BY <1>2, <2>3, StampSizes
<1> DEFINE at == DsRecLen * q + r
<1>5. StampAt(s) = at
  <2>1. q * DsRecLen = DsRecLen * q
    BY <1>2, StampSizes, Z3
  <2>2. QED
    BY <2>1 DEF StampAt, q, r
<1>6. at \in Nat /\ at < DsRecLen * DsRecs
  <2>1. \A a, b, c \in Nat : a < b => c * a + c <= c * b
    BY Z3
  <2>2. DsRecLen * q \in Nat /\ DsRecLen * DsRecs \in Nat
    BY <1>2, StampSizes, Z3
  <2>3. DsRecLen * q + DsRecLen <= DsRecLen * DsRecs
    BY <1>2, <1>4, <2>1, StampSizes
  <2>4. QED
    BY <1>3, <2>2, <2>3, StampSizes
<1>7. at \div DsRecLen = q /\ at % DsRecLen = r
  BY <1>2, <1>3, <1>6, StampSizes, DivUnique
<1>8. at \in DsBytes
  <2> HIDE DEF at
  <2>1. DsBlks * BlkSiz = BlkSiz * DsBlks /\ DsBlks * BlkSiz \in Nat
        /\ DsRecLen * DsRecs \in Nat
    BY StampSizes, Geometry, Z3
  <2>2. at < DsBlks * BlkSiz
    BY <1>6, <2>1, StampSizes
  <2>3. QED
    BY <1>6, <2>1, <2>2 DEF DsBytes
<1>9. QED
  BY <1>3, <1>5, <1>7, <1>8 DEF q, r

LEMMA StampOwn ==
  ASSUME NEW s \in Slot, NEW t \in Slot, StampAt(s) = StampAt(t)
  PROVE  s = t
<1>1. s \div DsPer = t \div DsPer /\ s % DsPer = t % DsPer
  BY StampPlace
<1>2. s \in Nat /\ t \in Nat
  BY Geometry DEF Slot
<1>3. QED
  BY <1>1, <1>2, StampSizes, DivParts

LEMMA TableThere ==
  ASSUME NEW table, DOMAIN table = DsBytes
  PROVE  table # NoTable
<1>1. 0 \in Slot
  BY Geometry DEF Slot
<1>2. DsBytes # {}
  BY <1>1, StampPlace
<1>3. DOMAIN NoTable = {}
  BY DEF NoTable
<1>4. QED
  BY <1>2, <1>3

-----------------------------------------------------------------------------
(* The stamps of files                                                     *)

\* All entries of a file have the stamp of a version of the host file.
Dated(d, table, f, version) ==
  \A s \in Slot : IsOf(d[s], f) => table[StampAt(s)] = version

\* A table that needs no writing is the one a mount would find.
CheckedInv == ~dirtyDs /\ IsStamper(dir[0]) => ds = CheckDs(dir, data)

DatedInv ==
  ds # NoTable =>
    /\ \A f \in HostNames : copied[f] # None => Dated(dir, ds, f, made[f])
    /\ tool.step \in {"open", "chunk", "write"} => Dated(dir, ds, tool.file, host)

StampInv ==
  /\ CheckedInv /\ DatedInv
  /\ dirtyDs => ds # NoTable
  /\ ds # NoTable => DOMAIN ds = DsBytes

Verified(table) ==
  IF \A r \in 0 .. DsRecs - 1 : table[r * DsRecLen + DsPer] = Cksum(table, r)
  THEN table ELSE NoTable

LEMMA CheckIs ==
  \A d, blocks : CheckDs(d, blocks) = IF IsStamper(d[0])
                                     THEN Verified(TableOf(blocks))
                                     ELSE NoTable
  BY DEF CheckDs, IsStamper, Verified

LEMMA CheckedNext ==
  ASSUME ~dirtyDs' /\ IsStamper(dir'[0]) => ds' = Verified(TableOf(data'))
  PROVE  CheckedInv'
<1>1. CheckDs(dir', data') = IF IsStamper(dir'[0]) THEN Verified(TableOf(data'))
                             ELSE NoTable
  BY CheckIs
<1>2. QED
  BY <1>1 DEF CheckedInv, CheckDs, IsStamper, TableOf, Cksum, NoTable

LEMMA DatedNext ==
  ASSUME ds' # NoTable =>
           /\ \A f \in HostNames :
                copied'[f] # None => Dated(dir', ds', f, made'[f])
           /\ tool'.step \in {"open", "chunk", "write"} =>
                Dated(dir', ds', tool'.file, host')
  PROVE  DatedInv'
  BY DEF DatedInv, Dated, IsOf, StampAt

\* Where a byte of the table lies
LEMMA TablePlace ==
  ASSUME NEW i \in DsBytes
  PROVE  /\ DsOffset + i \div BlkSiz \in Tabled /\ i % BlkSiz \in Offset
         /\ ((DsOffset + (i \div BlkSiz)) - DsOffset) * BlkSiz + (i % BlkSiz) = i
<1> DEFINE q == i \div BlkSiz
           r == i % BlkSiz
<1>1. /\ i \in Nat /\ i < DsBlks * BlkSiz /\ BlkSiz \in Nat \ {0}
      /\ DsBlks \in Nat /\ DsOffset \in Nat
  <2>1. DsBlks * BlkSiz \in Nat
    BY StampSizes, Geometry, Z3
  <2>2. DsOffset \in Nat
    <3>1. MaxDir + PerBlk - 1 \in Nat /\ PerBlk \in Nat \ {0}
      BY Geometry, StamperAssumption DEF StamperAssumption
    <3>2. QED
      BY <3>1, DivParts DEF DsOffset
  <2>3. QED
    BY <2>1, <2>2, StampSizes, Geometry DEF DsBytes
<1>2. i = BlkSiz * q + r /\ q \in Nat /\ r \in 0 .. BlkSiz - 1
  BY <1>1, DivParts
<1> HIDE DEF q, r
<1>3. q < DsBlks
  <2>1. \A a, b, c \in Nat : a >= b => c * a >= b * c
    BY Z3
  <2>2. BlkSiz * q \in Nat /\ DsBlks * BlkSiz \in Nat
    BY <1>1, <1>2, Z3
  <2>3. CASE q >= DsBlks
    <3>1. BlkSiz * q >= DsBlks * BlkSiz
      BY <1>1, <1>2, <2>1, <2>3
    <3>2. QED
      BY <1>1, <1>2, <2>2, <3>1
  <2>4. QED
    BY <1>1, <1>2, <2>3
<1>4. ((DsOffset + q) - DsOffset) * BlkSiz + r = i
  <2>1. (DsOffset + q) - DsOffset = q
    BY <1>1, <1>2
  <2>2. q * BlkSiz = BlkSiz * q
    BY <1>1, <1>2, Z3
  <2>3. QED
    BY <1>2, <2>1, <2>2
<1>5. DsOffset + q \in Tabled /\ r \in Offset
  BY <1>1, <1>2, <1>3 DEF Tabled, Offset
<1>6. QED
  BY <1>4, <1>5 DEF q, r

\* The blocks of the table are the table's.
LEMMA TableBlocks ==
  ASSUME ContentInv, IsStamper(dir[0])
  PROVE  /\ 0 \in FileSlots(dir)
         /\ Tabled \subseteq Refs(dir[0]) /\ Tabled \subseteq Block
<1>1. 0 \in FileSlots(dir)
  BY Geometry DEF FileSlots, Slot, IsStamper
<1>2. Tabled \subseteq Refs(dir[0])
  BY DEF ContentInv, TableInv, OwnsTable
<1>3. Refs(dir[0]) \subseteq DirBlks .. Size - 1
  BY <1>1, Parts DEF InDataArea
<1>4. DirBlks .. Size - 1 \subseteq Block
  BY Geometry DEF Block
<1>5. QED
  BY <1>1, <1>2, <1>3, <1>4

LEMMA TableSame ==
  ASSUME Regular, ContentInv, IsStamper(dir[0]),
         \A b \in Block : b \in Refs(dir[0]) => data'[b] = data[b]
  PROVE  TableOf(data') = TableOf(data)
<1>1. Tabled \subseteq Refs(dir[0]) /\ Tabled \subseteq Block
  BY TableBlocks
<1>2. \A i \in DsBytes :
        data'[DsOffset + i \div BlkSiz] = data[DsOffset + i \div BlkSiz]
  BY <1>1, TablePlace
<1>3. QED
  BY <1>2 DEF TableOf

LEMMA WriteSpares ==
  ASSUME Regular, Covering, Whole, ContentInv, StampedWrite, IsStamper(dir[0])
  PROVE  TableOf(data') = TableOf(data)
<1>1. CASE data' = data
  BY <1>1
<1>2. CASE Filled /\ Store
  <2>1. wr.phase = "fill"
    BY <1>2 DEF Filled
  <2>2. /\ Cell # 0 /\ wr.extent \in FileSlots(dir) /\ PtrAt(Pos) \in PtrIx
        /\ tool.file \in HostNames /\ tool.file \in Files
        /\ IsOf(dir[wr.extent], tool.file)
    BY <2>1, WriteAt DEF ContentInv, Ready
  <2>3. Cell \notin Refs(dir[0])
    <3>1. SUFFICES ASSUME Cell \in Refs(dir[0]) PROVE FALSE
      OBVIOUS
    <3>2. PICK j \in PtrIx : Cell = dir[0].ptr[j]
      BY <3>1 DEF Refs
    <3>3. wr.extent = 0
      BY <2>2, <3>2, TableBlocks, NotSharedUse, Parts DEF Cell
    <3>4. tool.file = <<0, DsName>>
      BY <2>2, <3>3 DEF IsOf, IsStamper, Files
    <3>5. QED
      BY <2>2, <3>4 DEF Whole
  <2>4. \A b \in Block : b # Cell => data'[b] = data[b]
    BY <1>2, <2>1, StoreEffect
  <2>5. QED
    BY <2>3, <2>4, TableSame
<1>3. QED
  BY <1>1, <1>2 DEF StampedWrite, VolWrite

LEMMA CheckedKept ==
  ASSUME StampInv, ds' = ds, dirtyDs => dirtyDs',
         IsStamper(dir'[0]) => /\ IsStamper(dir[0])
                               /\ TableOf(data') = TableOf(data)
  PROVE  CheckedInv'
<1>1. SUFFICES ASSUME ~dirtyDs, IsStamper(dir'[0])
               PROVE  ds' = Verified(TableOf(data'))
  BY CheckedNext
<1>2. ds = CheckDs(dir, data)
  BY <1>1 DEF StampInv, CheckedInv
<1>3. QED
  BY <1>1, <1>2, CheckIs

\* What a stamp leaves of the invariant
LEMMA StampedNext ==
  ASSUME StampInv, NEW s \in Slot, NEW version, UpdateDsStamps(s, version),
         IsStamper(dir'[0]) => /\ IsStamper(dir[0])
                               /\ TableOf(data') = TableOf(data)
  PROVE  /\ CheckedInv'
         /\ dirtyDs' => ds' # NoTable
         /\ ds' # NoTable =>
              /\ ds # NoTable /\ DOMAIN ds' = DsBytes
              /\ ds'[StampAt(s)] = version
              /\ \A t \in Slot : t # s => ds'[StampAt(t)] = ds[StampAt(t)]
<1>1. CASE ds = NoTable
  <2>1. ds' = ds /\ ~dirtyDs' /\ ~dirtyDs
    BY <1>1, Zenon DEF UpdateDsStamps, StampInv
  <2>2. CheckedInv'
    BY <2>1, CheckedKept
  <2>3. QED
    BY <1>1, <2>1, <2>2
<1>2. CASE ds # NoTable
  <2>1. /\ ds' = [ds EXCEPT ![StampAt(s)] = version] /\ dirtyDs'
        /\ DOMAIN ds = DsBytes
    BY <1>2 DEF UpdateDsStamps, StampInv
  <2>2. DOMAIN ds' = DsBytes
    BY <2>1
  <2>3. ds' # NoTable
    BY <2>2, TableThere
  <2>4. CheckedInv'
    BY <2>1, CheckedNext
  <2>5. ds'[StampAt(s)] = version
    BY <2>1, StampPlace
  <2>6. ASSUME NEW t \in Slot, t # s
        PROVE  ds'[StampAt(t)] = ds[StampAt(t)]
    BY <2>1, <2>6, StampPlace, StampOwn
  <2>7. QED
    BY <1>2, <2>2, <2>3, <2>4, <2>5, <2>6
<1>3. QED
  BY <1>1, <1>2

\* Nothing that the invariant speaks of changes.
LEMMA StampsStill ==
  ASSUME StampInv, UNCHANGED <<dir, data, copied, made, ds, dirtyDs>>,
         tool'.step \in {"open", "chunk", "write"} =>
           /\ tool.step \in {"open", "chunk", "write"}
           /\ tool'.file = tool.file /\ host' = host
  PROVE  StampInv'
<1>1. CheckedInv'
  BY CheckedKept
<1>2. DatedInv'
  BY DatedNext DEF StampInv, DatedInv
<1>3. QED
  BY <1>1, <1>2 DEF StampInv

\* The first entry becomes the table's by none of the steps of cpmcp.
LEMMA StamperStays ==
  ASSUME Whole, Joined(dir, dir'), IsStamper(dir'[0])
  PROVE  IsStamper(dir[0])
<1>1. 0 \in Slot
  BY Geometry DEF Slot
<1>2. CASE Grown(dir[0], dir'[0])
  BY <1>2 DEF Grown, SameExtent, IsStamper
<1>3. CASE \E f \in HostNames : IsOf(dir'[0], f)
  <2>1. PICK f \in HostNames : IsOf(dir'[0], f)
    BY <1>3
  <2>2. f \in Files /\ f[1] = 0 /\ f[2] = DsName
    BY <2>1, HostNamed DEF IsOf, IsStamper
  <2>3. f = <<0, DsName>>
    BY <2>2 DEF Files
  <2>4. QED
    BY <2>3 DEF Whole
<1>4. QED
  BY <1>1, <1>2, <1>3 DEF Joined

LEMMA StampsCreat ==
  ASSUME Regular, ~MpmDates, Whole, ContentInv, StampInv, StampedCreat
  PROVE  StampInv'
<1>1. PICK f : Begun(f)
  BY CreatFrame
<1>2. PICK s \in Slot : /\ fd'[ino].slot = s /\ dir[s].status = Free
                       /\ IsOf(dir'[s], f)
                       /\ \A t \in Slot : t # s => dir'[t] = dir[t]
  BY <1>1 DEF Begun
<1>3. UpdateDsStamps(s, host')
  BY <1>2 DEF StampedCreat
<1>4. Joined(dir, dir')
  BY <1>1, <1>2, GrownOrder DEF Begun, Joined
<1>5. data' = data
  BY <1>1 DEF Begun
<1>6. /\ CheckedInv'
      /\ dirtyDs' => ds' # NoTable
      /\ ds' # NoTable =>
           /\ ds # NoTable /\ DOMAIN ds' = DsBytes
           /\ ds'[StampAt(s)] = host'
           /\ \A t \in Slot : t # s => ds'[StampAt(t)] = ds[StampAt(t)]
  <2>1. IsStamper(dir'[0]) => IsStamper(dir[0])
    BY <1>4, StamperStays
  <2>2. QED
    BY <1>3, <1>5, <2>1, StampedNext
<1>7. ASSUME ds' # NoTable, NEW g \in HostNames, copied'[g] # None
      PROVE  Dated(dir', ds', g, made'[g])
  <2>1. g \in Files /\ copied[g] # None
    BY <1>1, <1>7, HostNamed DEF Begun
  <2>2. Dated(dir, ds, g, made[g])
    BY <1>6, <1>7, <2>1 DEF StampInv, DatedInv
  <2>3. g # f
    BY <1>1, <2>1, Parts DEF Begun, CopiesEnd, Ends
  <2>4. ~IsOf(dir'[s], g)
    BY <1>1, <1>2, <2>1, <2>3 DEF IsOf, Files, Begun
  <2>5. QED
    BY <1>1, <1>2, <1>6, <1>7, <2>2, <2>4 DEF Dated, Begun
<1>8. ASSUME ds' # NoTable
      PROVE  Dated(dir', ds', f, host')
  BY <1>1, <1>2, <1>6, <1>8 DEF Dated, Begun
<1>9. DatedInv'
  BY <1>1, <1>7, <1>8, DatedNext DEF Begun
<1>10. QED
  BY <1>6, <1>9 DEF StampInv

LEMMA StampsWrite ==
  ASSUME Regular, ~MpmDates, Covering, Whole, ContentInv, StampInv, StampedWrite
  PROVE  StampInv'
<1>1. /\ tool.file \in HostNames /\ tool.file \in Files
      /\ dir' = dir \/ OneEntry(tool.file)
      /\ wr.phase = "fill" => OneEntry(tool.file)
  BY WriteOne
<1>2. /\ tool.step = "write" /\ WriteStep
      /\ UNCHANGED <<tool, copied, host, made>>
  BY DEF StampedWrite, VolWrite, WriteStep
<1>3. Joined(dir, dir')
  BY <1>2, WriteJoins
<1>4. IsStamper(dir'[0]) => /\ IsStamper(dir[0])
                            /\ TableOf(data') = TableOf(data)
  BY <1>3, StamperStays, WriteSpares
<1>5. CASE wr.phase = "fill" \/ dir' # dir
  <2>1. PICK x \in Slot : /\ \A s \in Slot : s # x => dir'[s] = dir[s]
                         /\ IsOf(dir'[x], tool.file)
                         /\ Aimed(x)
    BY <1>1, <1>5 DEF OneEntry
  <2>2. UpdateDsStamps(x, host)
    BY <1>5, <2>1 DEF StampedWrite, Aimed
  <2>3. /\ CheckedInv'
        /\ dirtyDs' => ds' # NoTable
        /\ ds' # NoTable =>
             /\ ds # NoTable /\ DOMAIN ds' = DsBytes
             /\ ds'[StampAt(x)] = host
             /\ \A t \in Slot : t # x => ds'[StampAt(t)] = ds[StampAt(t)]
    BY <1>4, <2>2, StampedNext
  <2>4. ASSUME ds' # NoTable, NEW g \in HostNames, copied'[g] # None
        PROVE  Dated(dir', ds', g, made'[g])
    <3>1. g \in Files /\ copied[g] # None
      BY <1>2, <2>4, HostNamed
    <3>2. Dated(dir, ds, g, made[g])
      BY <2>3, <2>4, <3>1 DEF StampInv, DatedInv
    <3>3. g # tool.file
      BY <1>2, <3>1, Parts DEF TargetEnd
    <3>4. ~IsOf(dir'[x], g)
      BY <1>1, <2>1, <3>1, <3>3 DEF IsOf, Files
    <3>5. QED
      BY <1>2, <2>1, <2>3, <2>4, <3>2, <3>4 DEF Dated
  <2>5. ASSUME ds' # NoTable
        PROVE  Dated(dir', ds', tool.file, host)
    <3>1. Dated(dir, ds, tool.file, host)
      BY <1>2, <2>3, <2>5 DEF StampInv, DatedInv
    <3>2. QED
      BY <2>1, <2>3, <2>5, <3>1 DEF Dated
  <2>6. DatedInv'
    BY <1>2, <2>4, <2>5, DatedNext
  <2>7. QED
    BY <2>3, <2>6 DEF StampInv
<1>6. CASE wr.phase # "fill" /\ dir' = dir
  <2>1. UNCHANGED <<ds, dirtyDs>>
    BY <1>6 DEF StampedWrite
  <2>2. CheckedInv'
    BY <1>4, <2>1, CheckedKept
  <2>3. DatedInv'
    BY <1>2, <1>6, <2>1, DatedNext DEF StampInv, DatedInv
  <2>4. QED
    BY <2>1, <2>2, <2>3 DEF StampInv
<1>7. QED
  BY <1>5, <1>6

LEMMA StampsDone ==
  ASSUME Regular, ~MpmDates, ContentInv, StampInv, StampedDone
  PROVE  StampInv'
<1>1. Copied
  BY DoneFrame
<1>2. fd[ino].slot \in Slot /\ IsOf(dir[fd[ino].slot], tool.file)
  BY <1>1, Parts DEF Target, Copied
<1> DEFINE x == fd[ino].slot
<1>3. /\ CheckedInv'
      /\ dirtyDs' => ds' # NoTable
      /\ ds' # NoTable =>
           /\ ds # NoTable /\ DOMAIN ds' = DsBytes
           /\ ds'[StampAt(x)] = ds[StampAt(x)] \/ ds'[StampAt(x)] = host
           /\ \A t \in Slot : t # x => ds'[StampAt(t)] = ds[StampAt(t)]
  <2>1. dir' = dir /\ data' = data
    BY <1>1 DEF Copied
  <2>2. CASE UpdateDsStamps(x, host)
    BY <1>2, <2>1, <2>2, StampedNext
  <2>3. CASE UNCHANGED <<ds, dirtyDs>>
    BY <2>1, <2>3, CheckedKept DEF StampInv
  <2>4. QED
    BY <2>2, <2>3 DEF StampedDone
<1> HIDE DEF x
<1>4. ASSUME ds' # NoTable
      PROVE  Dated(dir, ds', tool.file, host)
  <2>1. Dated(dir, ds, tool.file, host)
    BY <1>1, <1>3, <1>4 DEF StampInv, DatedInv, Copied
  <2>2. ASSUME NEW s \in Slot, IsOf(dir[s], tool.file)
        PROVE  ds'[StampAt(s)] = host
    <3>1. ds[StampAt(s)] = host
      BY <2>1, <2>2 DEF Dated
    <3>2. QED
      BY <1>3, <1>4, <3>1
  <2>3. QED
    BY <2>2 DEF Dated
<1>5. ASSUME ds' # NoTable, NEW g \in HostNames, copied'[g] # None
      PROVE  Dated(dir, ds', g, made'[g])
  <2>1. g \in Files
    BY HostNamed
  <2>2. CASE g = tool.file
    BY <1>1, <1>4, <1>5, <2>1, <2>2 DEF Copied
  <2>3. CASE g # tool.file
    <3>1. copied[g] # None /\ made'[g] = made[g]
      BY <1>1, <1>5, <2>1, <2>3 DEF Copied
    <3>2. Dated(dir, ds, g, made[g])
      BY <1>3, <1>5, <3>1 DEF StampInv, DatedInv
    <3>3. ~IsOf(dir[x], g)
      BY <1>1, <1>2, <2>1, <2>3 DEF IsOf, Files, x, Copied
    <3>4. QED
      BY <1>3, <1>5, <3>1, <3>2, <3>3 DEF Dated
  <2>4. QED
    BY <2>2, <2>3
<1>6. DatedInv'
  BY <1>1, <1>5, DatedNext DEF Copied
<1>7. QED
  BY <1>3, <1>6 DEF StampInv

LEMMA StampsRemove ==
  ASSUME Regular, ContentInv, StampInv, VolRemove, UNCHANGED <<ds, dirtyDs>>
  PROVE  StampInv'
<1>1. PICK f : Removed(f)
  BY RemoveFrame
<1>2. CheckedInv'
  <2>1. 0 \in Slot
    BY Geometry DEF Slot
  <2>2. IsStamper(dir'[0]) => IsStamper(dir[0])
    BY <1>1, <2>1 DEF Removed, IsStamper
  <2>3. data' = data
    BY <1>1 DEF Removed
  <2>4. QED
    BY <2>2, <2>3, CheckedKept
<1>3. ASSUME ds' # NoTable, NEW g \in HostNames, copied'[g] # None
      PROVE  Dated(dir', ds', g, made'[g])
  <2>1. g \in Files /\ g # f /\ copied[g] # None /\ made'[g] = made[g]
    BY <1>1, <1>3, HostNamed DEF Removed
  <2>2. Dated(dir, ds, g, made[g])
    BY <1>3, <2>1 DEF StampInv, DatedInv
  <2>3. QED
    BY <1>1, <2>1, <2>2, RemoveKeeps DEF Dated
<1>4. DatedInv'
  BY <1>1, <1>3, DatedNext DEF Removed
<1>5. QED
  BY <1>2, <1>4 DEF StampInv

\* What a mount finds
LEMMA MountStamps ==
  ASSUME CheckDsMounted
  PROVE  /\ CheckedInv' /\ ~dirtyDs'
         /\ ds' # NoTable => /\ IsStamper(dir'[0]) /\ ds' = TableOf(data')
                             /\ DOMAIN ds' = DsBytes
<1>1. ds' = CheckDs(dir', data') /\ ~dirtyDs'
  BY DEF CheckDsMounted
<1>2. ds' = IF IsStamper(dir'[0]) THEN Verified(TableOf(data')) ELSE NoTable
  BY <1>1, CheckIs
<1>3. DOMAIN TableOf(data') = DsBytes
  BY DEF TableOf
<1>4. CheckedInv'
  BY <1>2, CheckedNext
<1>5. QED
  BY <1>1, <1>2, <1>3, <1>4 DEF Verified

\* The table that syncDs writes has the stamps of the one in core.
LEMMA SyncDsStamps ==
  ASSUME ContentInv, IsStamper(dir[0]), dirtyDs, SyncDs, NEW s \in Slot
  PROVE  TableOf(data')[StampAt(s)] = ds[StampAt(s)]
<1> DEFINE i == StampAt(s)
<1>1. i \in DsBytes /\ i % DsRecLen # DsPer
  BY StampPlace
<1> HIDE DEF i
<1> DEFINE b == DsOffset + i \div BlkSiz
<1>2. /\ b \in Tabled /\ i % BlkSiz \in Offset
      /\ (b - DsOffset) * BlkSiz + (i % BlkSiz) = i
  BY <1>1, TablePlace
<1>3. TableOf(data')[i] = data'[b][i % BlkSiz]
  BY <1>1 DEF TableOf
<1>4. b \in Block
  BY <1>2, TableBlocks
<1>5. i \in Nat /\ i < DsBlks * BlkSiz
  BY <1>1, StampSizes, Geometry DEF DsBytes
<1> HIDE DEF b
<1>6. data'[b][i % BlkSiz] = Summed[i]
  <2> DEFINE end == DsBlks * BlkSiz
  <2>1. data' = TableTo(end)
    BY DEF SyncDs
  <2> HIDE DEF end
  <2>2. data'[b] = [j \in Offset |->
                      LET at == (b - DsOffset) * BlkSiz + j
                      IN IF at < end THEN Summed[at] ELSE data[b][j]]
    BY <1>2, <1>4, <2>1 DEF TableTo
  <2>3. QED
    BY <1>2, <1>5, <2>2 DEF end
<1>7. Summed[i] = ds[i]
  BY <1>1 DEF Summed
<1>8. QED
  BY <1>3, <1>6, <1>7 DEF i

LEMMA StampsEnd ==
  ASSUME ContentInv, StampInv, StampedEnd
  PROVE  StampInv'
<1>1. Left
  BY EndFrame
<1>2. /\ CheckedInv' /\ ~dirtyDs'
      /\ ds' # NoTable => /\ IsStamper(dir'[0]) /\ ds' = TableOf(data')
                          /\ DOMAIN ds' = DsBytes
  BY <1>1, MountStamps DEF Left
<1>3. ASSUME ds' # NoTable
      PROVE  ds # NoTable /\ \A s \in Slot : ds'[StampAt(s)] = ds[StampAt(s)]
  <2>1. IsStamper(dir[0]) /\ ds' = TableOf(data')
    BY <1>1, <1>2, <1>3 DEF Left
  <2>2. CASE ~dirtyDs
    <3>1. ds = Verified(TableOf(data))
      BY <2>1, <2>2, CheckIs DEF StampInv, CheckedInv
    <3>2. data' = data
      BY <1>1, <2>2 DEF Left, SyncDs
    <3>3. ds' = Verified(TableOf(data'))
      BY <1>1, <2>1, CheckIs DEF Left, CheckDsMounted
    <3>4. QED
      BY <1>3, <3>1, <3>2, <3>3
  <2>3. CASE dirtyDs
    <3>1. ds # NoTable
      BY <2>3 DEF StampInv
    <3>2. \A s \in Slot : TableOf(data')[StampAt(s)] = ds[StampAt(s)]
      BY <1>1, <2>1, <2>3, SyncDsStamps DEF Left
    <3>3. QED
      BY <2>1, <3>1, <3>2
  <2>4. QED
    BY <2>2, <2>3
<1>4. ASSUME ds' # NoTable, NEW g \in HostNames, copied'[g] # None
      PROVE  Dated(dir', ds', g, made'[g])
  <2>1. copied[g] # None /\ made'[g] = made[g] /\ dir' = dir
    BY <1>1, <1>4 DEF Left
  <2>2. Dated(dir, ds, g, made[g])
    BY <1>3, <1>4, <2>1 DEF StampInv, DatedInv
  <2>3. QED
    BY <1>3, <1>4, <2>1, <2>2 DEF Dated
<1>5. tool'.step = "args"
  BY <1>1 DEF Left, NoTool
<1>6. DatedInv'
  BY <1>4, <1>5, DatedNext
<1>7. QED
  BY <1>2, <1>6 DEF StampInv

LEMMA StampsDie ==
  ASSUME DieUnstamped \/ StampedDie
  PROVE  StampInv'
<1>1. Lost
  BY DieFrame
<1>2. /\ CheckedInv' /\ ~dirtyDs'
      /\ ds' # NoTable => DOMAIN ds' = DsBytes
  BY <1>1, MountStamps DEF Lost
<1>3. \A f \in HostNames : copied'[f] = None
  BY <1>1, HostNamed DEF Lost
<1>4. tool'.step = "args"
  BY <1>1 DEF Lost, NoTool
<1>5. DatedInv'
  BY <1>3, <1>4, DatedNext
<1>6. QED
  BY <1>2, <1>5 DEF StampInv

LEMMA StampStep ==
  ASSUME Regular, ~MpmDates, Covering, Whole, ContentInv, StampInv,
         [DsNext]_dsvars
  PROVE  StampInv'
<1>1. ASSUME Goes \/ Rests, UNCHANGED <<ds, dirtyDs>>
      PROVE  StampInv'
  BY <1>1, StampsStill DEF Goes, Rests
<1>2. CASE StampedCreat
  BY <1>2, StampsCreat
<1>3. CASE StampedWrite
  BY <1>3, StampsWrite
<1>4. CASE StampedDone
  BY <1>4, StampsDone
<1>5. CASE StampedEnd
  BY <1>5, StampsEnd
<1>6. CASE (VolChunk \/ VolFailed) /\ UNCHANGED <<ds, dirtyDs>>
  BY <1>1, <1>6, ChunkFrame, FailedFrame
<1>7. CASE VolQuiet /\ UNCHANGED <<ds, dirtyDs>>
  BY <1>1, <1>7, OpenFrame, QuietFrame DEF VolQuiet
<1>8. CASE VolRemove /\ UNCHANGED <<ds, dirtyDs>>
  BY <1>8, StampsRemove
<1>9. CASE DieUnstamped \/ StampedDie
  BY <1>9, StampsDie
<1>10. CASE UNCHANGED dsvars
  BY <1>10, StampsStill DEF dsvars
<1>11. QED
  BY <1>2, <1>3, <1>4, <1>5, <1>6, <1>7, <1>8, <1>9, <1>10 DEF DsNext

LEMMA StampInit ==
  ASSUME DsInit
  PROVE  StampInv
<1>1. /\ ds = CheckDs(dir, data) /\ dirtyDs = FALSE
      /\ tool.step = "args" /\ \A f \in Files : copied[f] = None
  BY DEF DsInit, VolInit, ToolsInit, NoTool
<1>2. CheckedInv
  BY <1>1 DEF CheckedInv
<1>3. ds # NoTable => ds = TableOf(data)
  BY <1>1, CheckIs DEF Verified
<1>4. DOMAIN TableOf(data) = DsBytes
  BY DEF TableOf
<1>5. DatedInv
  BY <1>1, HostNamed DEF DatedInv
<1>6. QED
  BY <1>1, <1>2, <1>3, <1>4, <1>5 DEF StampInv

\* The entry that cpmNamei finds of a copied file has the stamp of its copy, in
\* the session that copied it and in every later one that finds a table, also
\* where the table had to be written back and read again.
THEOREM StampsRight ==
  ASSUME Regular, ~MpmDates, Covering, Straight, Whole,
         \A d \in Images : OwnsTable(d)
  PROVE  DsSpec => []StampsFollow
<1> DEFINE Inv == ContentInv /\ StampInv
<1>1. DsInit => Inv
  BY ContentInit, StampInit
<1>2. Inv /\ [DsNext]_dsvars => Inv'
  BY ContentStep, StampStep
<1>3. Inv => StampsFollow
  BY DEF StampInv, DatedInv, Dated, StampsFollow, Lowest, Match, IsOf
<1>4. QED
  BY <1>1, <1>2, <1>3, PTL DEF DsSpec

-----------------------------------------------------------------------------
(* The file store                                                          *)

\* cpmRead goes by the entries and the blocks of the file alone.
LEMMA ReadsSame ==
  ASSUME Regular, NEW d \in [Slot -> Entry], NEW e, NEW blocks, NEW others,
         NEW f \in Files,
         \A s \in Slot : IsOf(d[s], f) \/ IsOf(e[s], f) => e[s] = d[s],
         \A s \in Slot, i \in PtrIx :
           IsOf(d[s], f) /\ d[s].ptr[i] # 0 =>
             others[d[s].ptr[i]] = blocks[d[s].ptr[i]]
  PROVE  Reads(e, others, f) = Reads(d, blocks, f)
<1> DEFINE M == Match(d, f[1], f[2])
           high == Highest(d, M)
           size == SizeOf(d[CHOOSE s \in high : TRUE])
<1>1. Match(e, f[1], f[2]) = M
  BY DEF Match, IsOf
<1>2. \A s \in M : s \in Slot /\ e[s] = d[s] /\ IsOf(d[s], f)
  BY DEF Match, IsOf
<1> HIDE DEF M
<1>3. Highest(e, M) = high
  BY <1>2 DEF Highest
<1>4. \A p : BlockAt(e, f, p) = BlockAt(d, f, p)
  <2>1. SUFFICES ASSUME NEW p PROVE BlockAt(e, f, p) = BlockAt(d, f, p)
    OBVIOUS
  <2> DEFINE own == Firsts(MatchExtent(d, f[1], f[2], p \div Logical))
  <2>2. MatchExtent(e, f[1], f[2], p \div Logical)
          = MatchExtent(d, f[1], f[2], p \div Logical)
    BY <1>1, <1>2 DEF MatchExtent, M
  <2>3. \A s \in own : e[s] = d[s]
    BY <1>2 DEF Firsts, MatchExtent, M
  <2> HIDE DEF own
  <2>4. {e[s].ptr[PtrAt(p)] : s \in own} = {d[s].ptr[PtrAt(p)] : s \in own}
    BY <2>3
  <2>5. QED
    BY <2>2, <2>4 DEF BlockAt, own
<1>5. CASE high = {}
  BY <1>1, <1>3, <1>5 DEF Reads, M
<1>6. CASE high # {}
  <2>1. (CHOOSE s \in high : TRUE) \in M
    BY <1>6 DEF Highest
  <2>2. size \in Int /\ SizeOf(e[CHOOSE s \in high : TRUE]) = size
    BY <1>2, <2>1, SizeOfType
  <2> HIDE DEF size
  <2>3. ReadsTo(e, others, f, size) = ReadsTo(d, blocks, f, size)
    <3> DEFINE looks(z) == [n \in 0 .. (size - 1) \div BlkSiz |-> BlockAt(z, f, n * BlkSiz)]
               read == looks(d)
               from(r, c, i) == LET b == r[(i - 1) \div BlkSiz]
                                IN IF b = {} THEN 0
                                   ELSE c[CHOOSE x \in b : TRUE][(i - 1) % BlkSiz]
               byte(c, i) == from(read, c, i)
    <3>1. ReadsTo(d, blocks, f, size) = [i \in 1 .. size |-> byte(blocks, i)]
      BY DEF ReadsTo
    <3>2. ReadsTo(e, others, f, size) = [i \in 1 .. size |-> byte(others, i)]
      <4>1. ReadsTo(e, others, f, size)
              = [i \in 1 .. size |-> from(looks(e), others, i)]
        BY DEF ReadsTo
      <4>2. looks(e) = read
        BY <1>4
      <4> HIDE DEF looks, from
      <4>3. QED
        BY <4>1, <4>2
    <3>3. ASSUME NEW i \in 1 .. size
          PROVE  byte(others, i) = byte(blocks, i)
      <4> DEFINE k == (i - 1) \div BlkSiz
                 b == read[k]
      <4>1. k \in Nat /\ k \in 0 .. (size - 1) \div BlkSiz
        <5>1. i - 1 \in Nat /\ size - 1 \in Nat /\ i - 1 <= size - 1
          BY <2>2
        <5>2. BlkSiz \in Nat \ {0}
          BY Geometry
        <5>3. k \in Nat /\ (size - 1) \div BlkSiz \in Nat
              /\ k <= (size - 1) \div BlkSiz
          BY <5>1, <5>2, DivMonotone, DivParts
        <5>4. QED
          BY <5>3
      <4>2. b = BlockAt(d, f, k * BlkSiz)
        BY <4>1
      <4> HIDE DEF k
      <4>3. PtrAt(k * BlkSiz) \in PtrIx
        <5>1. k * BlkSiz \in Nat
          BY <4>1, Geometry, Z3
        <5>2. QED
          BY <5>1, PtrAtType
      <4>4. \A x \in BlockAt(d, f, k * BlkSiz) : others[x] = blocks[x]
        <5>1. SUFFICES ASSUME NEW x \in BlockAt(d, f, k * BlkSiz)
                       PROVE  others[x] = blocks[x]
          OBVIOUS
        <5>2. PICK s \in M : x = d[s].ptr[PtrAt(k * BlkSiz)] /\ x # 0
          BY DEF BlockAt, Firsts, MatchExtent, M
        <5>3. QED
          BY <1>2, <4>3, <5>2
      <4> HIDE DEF b, read
      <4>5. b # {} => others[CHOOSE x \in b : TRUE] = blocks[CHOOSE x \in b : TRUE]
        BY <4>2, <4>4
      <4>6. QED
        BY <4>5 DEF b, k
    <3> HIDE DEF byte
    <3>4. QED
      BY <3>1, <3>2, <3>3
  <2>4. Reads(d, blocks, f) = ReadsTo(d, blocks, f, size)
    BY <1>6 DEF Reads, M, size
  <2>5. Reads(e, others, f) = ReadsTo(e, others, f, size)
    BY <1>1, <1>3, <1>6, <2>2 DEF Reads, M
  <2>6. QED
    BY <2>3, <2>4, <2>5
<1>7. QED
  BY <1>5, <1>6

LEMMA NotRead ==
  ASSUME NEW d, NEW blocks, NEW f, \A s \in Slot : ~IsOf(d[s], f)
  PROVE  Reads(d, blocks, f) = NotThere
<1>1. Match(d, f[1], f[2]) = {}
  BY DEF Match, IsOf
<1>2. QED
  BY <1>1 DEF Reads, Highest

\* The first n bytes of a host file
Copy(v, n) == [i \in 1 .. n |-> HostByte(v, i - 1)]

LEMMA CopyIsSeq ==
  ASSUME NEW v \in Nat, NEW n \in Nat
  PROVE  /\ Copy(v, n) \in Seq(Nat) /\ Len(Copy(v, n)) = n
         /\ Copy(v, n) # NotThere /\ (n = 0 => Copy(v, n) = <<>>)
<1>1. \A p \in Nat : HostByte(v, p) \in Nat
  <2>1. \A a, b, c \in Nat : a * (b + 1) + c \in Nat
    BY Z3
  <2>2. QED
    BY <2>1, InputAssumption DEF HostByte
<1>2. Copy(v, n) \in [1 .. n -> Nat]
  BY <1>1 DEF Copy
<1> HIDE DEF Copy
<1>3. Copy(v, n) \in Seq(Nat)
  BY <1>2, SeqDef
<1>4. Len(Copy(v, n)) = n
  <2>1. /\ Len(Copy(v, n)) \in Nat /\ 1 .. Len(Copy(v, n)) = 1 .. n
    BY <1>2, <1>3, LenProperties
  <2> DEFINE m == Len(Copy(v, n))
  <2> HIDE DEF m
  <2>2. \A k \in Nat : 1 .. k = 1 .. n => k = n
    OBVIOUS
  <2>3. QED
    BY <2>1, <2>2
<1>5. Copy(v, n) # NotThere
  <2>1. ASSUME Copy(v, n) = NotThere PROVE FALSE
    <3>1. NotThere[1] = -2 /\ 1 \in DOMAIN NotThere
      BY DEF NotThere
    <3>2. 1 \in 1 .. n
      BY <1>2, <2>1, <3>1
    <3>3. QED
      BY <1>2, <2>1, <3>1, <3>2
  <2>2. QED
    BY <2>1
<1>6. n = 0 => Copy(v, n) = <<>>
  BY <1>3, <1>4, EmptySeq
<1>7. QED
  BY <1>3, <1>4, <1>5, <1>6

LEMMA CopyGrows ==
  ASSUME NEW v \in Nat, NEW n \in Nat, NEW m \in Nat, n < m
  PROVE  /\ Len(Copy(v, m)) > Len(Copy(v, n))
         /\ SubSeq(Copy(v, m), 1, Len(Copy(v, n))) = Copy(v, n)
<1> DEFINE a == Copy(v, n)
           b == Copy(v, m)
<1>1. /\ a \in Seq(Nat) /\ Len(a) = n /\ b \in Seq(Nat) /\ Len(b) = m
  BY CopyIsSeq
<1>2. \A i \in 1 .. n : b[i] = a[i]
  BY DEF Copy
<1>3. \A i \in 1 .. n : b[i] \in Nat
  <2>1. \A i \in 1 .. m : b[i] \in Nat
    BY <1>1, LenProperties
  <2>2. QED
    BY <2>1
<1> HIDE DEF a, b
<1>4. /\ SubSeq(b, 1, n) \in Seq(Nat) /\ Len(SubSeq(b, 1, n)) = n
      /\ \A i \in 1 .. n : SubSeq(b, 1, n)[i] = b[i]
  <2>1. /\ SubSeq(b, 1, n) \in Seq(Nat)
        /\ Len(SubSeq(b, 1, n)) = IF 1 <= n THEN n - 1 + 1 ELSE 0
        /\ \A i \in 1 .. n - 1 + 1 : SubSeq(b, 1, n)[i] = b[1 + i - 1]
    BY <1>3, SubSeqProperties
  <2>2. \A i \in 1 .. n : 1 + i - 1 = i
    OBVIOUS
  <2>3. n - 1 + 1 = n
    OBVIOUS
  <2>4. QED
    BY <2>1, <2>2, <2>3
<1>5. SubSeq(b, 1, n) = a
  BY <1>1, <1>2, <1>4, SeqEqual
<1>6. QED
  BY <1>1, <1>5 DEF a, b

-----------------------------------------------------------------------------
(* Steps of the file store                                                 *)

AllRead(d, blocks) == [f \in HostNames |-> Reads(d, blocks, f)]

LiveFiles  == [f \in HostNames |-> Contents(dir, f)]
SavedFiles == [f \in HostNames |-> Contents(disk, f)]

LEMMA FilesRead ==
  /\ LiveFiles = AllRead(dir, data) /\ SavedFiles = AllRead(disk, data)
  /\ LiveFiles' = AllRead(dir', data') /\ SavedFiles' = AllRead(disk', data')
  BY DEF LiveFiles, SavedFiles, AllRead, Contents, Reads, ReadsTo

\* What a step may do to the files
StoreStep == Promise!Next \/ UNCHANGED <<LiveFiles, SavedFiles>>

LEMMA StoreStill ==
  ASSUME dir' = dir, disk' = disk, data' = data PROVE StoreStep
  BY FilesRead DEF StoreStep

LEMMA StoreCreate ==
  ASSUME NEW f \in HostNames, SavedFiles' = SavedFiles,
         LiveFiles[f] = NotThere, LiveFiles'[f] = <<>>,
         \A g \in HostNames : g # f => LiveFiles'[g] = LiveFiles[g]
  PROVE  StoreStep
<1>1. LiveFiles' = [LiveFiles EXCEPT ![f] = <<>>]
  BY FilesRead DEF AllRead
<1>2. Promise!Create(f)
  BY <1>1 DEF Promise!Create, LiveFiles, SavedFiles
<1>3. QED
  BY <1>2 DEF StoreStep, Promise!Next

LEMMA StoreExtend ==
  ASSUME NEW f \in HostNames, SavedFiles' = SavedFiles,
         NEW v \in Nat, NEW n \in Nat, NEW m \in Nat, n < m,
         LiveFiles[f] = Copy(v, n), LiveFiles'[f] = Copy(v, m),
         \A g \in HostNames : g # f => LiveFiles'[g] = LiveFiles[g]
  PROVE  StoreStep
<1>1. LiveFiles' = [LiveFiles EXCEPT ![f] = LiveFiles'[f]]
  BY FilesRead DEF AllRead
<1>2. LiveFiles[f] # NotThere /\ LiveFiles'[f] # NotThere
  BY CopyIsSeq
<1>3. /\ Len(LiveFiles'[f]) > Len(LiveFiles[f])
      /\ SubSeq(LiveFiles'[f], 1, Len(LiveFiles[f])) = LiveFiles[f]
  BY CopyGrows
<1>4. Promise!Extend(f)
  BY <1>1, <1>2, <1>3 DEF Promise!Extend, LiveFiles, SavedFiles
<1>5. QED
  BY <1>4 DEF StoreStep, Promise!Next

LEMMA StoreRemove ==
  ASSUME NEW f \in HostNames, SavedFiles' = SavedFiles, LiveFiles'[f] = NotThere,
         \A g \in HostNames : g # f => LiveFiles'[g] = LiveFiles[g]
  PROVE  StoreStep
<1>1. LiveFiles' = [LiveFiles EXCEPT ![f] = NotThere]
  BY FilesRead DEF AllRead
<1>2. Promise!Remove(f)
  BY <1>1 DEF Promise!Remove, LiveFiles, SavedFiles
<1>3. QED
  BY <1>2 DEF StoreStep, Promise!Next

LEMMA StoreSave ==
  ASSUME LiveFiles' = LiveFiles,
         \A f \in HostNames : SavedFiles'[f] \in {SavedFiles[f], LiveFiles[f]}
  PROVE  StoreStep
<1>1. Promise!Save
  BY DEF Promise!Save, LiveFiles, SavedFiles
<1>2. QED
  BY <1>1 DEF StoreStep, Promise!Next

LEMMA StoreForget ==
  ASSUME LiveFiles' = SavedFiles, SavedFiles' = SavedFiles
  PROVE  StoreStep
<1>1. Promise!Forget
  BY DEF Promise!Forget, LiveFiles, SavedFiles
<1>2. QED
  BY <1>1 DEF StoreStep, Promise!Next

\* What of the file that cpmcp writes can be read so far
TargetReads ==
  tool.step \in {"open", "chunk", "write"} =>
    Reads(dir, data, tool.file) = Copy(host, fd[ino].pos)

LEMMA TargetReadsInv ==
  ASSUME Regular, Covering
  PROVE  ContentInv => TargetReads
<1> SUFFICES ASSUME ContentInv, tool.step \in {"open", "chunk", "write"}
             PROVE  Reads(dir, data, tool.file) = Copy(host, fd[ino].pos)
  BY DEF TargetReads
<1>1. PICK s \in Slot : Ends(dir, s, tool.file, fd[ino].pos)
  BY Parts DEF TargetEnd
<1>2. tool.file \in Files /\ Holds(dir, data, tool.file, fd[ino].pos, host)
  BY HostNamed DEF ContentInv, TargetHeld
<1>3. /\ dir \in [Slot -> Entry] /\ Apart(dir) /\ fd[ino].pos \in Nat
  BY Parts DEF TypeOK, Inode
<1>4. QED
  BY <1>1, <1>2, <1>3, WholeReads DEF Copy

\* Where neither the entries of f nor what their blocks hold changes
LEMMA LiveKept ==
  ASSUME Regular, ContentInv, NEW f \in HostNames,
         \A s \in Slot : IsOf(dir[s], f) \/ IsOf(dir'[s], f) => dir'[s] = dir[s],
         \A s \in Slot, i \in PtrIx :
           IsOf(dir[s], f) /\ dir[s].ptr[i] # 0 =>
             data'[dir[s].ptr[i]] = data[dir[s].ptr[i]]
  PROVE  LiveFiles'[f] = LiveFiles[f]
<1>1. f \in Files /\ dir \in [Slot -> Entry]
  BY HostNamed, Parts
<1>2. Reads(dir', data', f) = Reads(dir, data, f)
  BY <1>1, ReadsSame
<1>3. QED
  BY <1>2, FilesRead DEF AllRead

LEMMA CreatStore ==
  ASSUME Regular, ~MpmDates, ContentInv, StampedCreat, TargetReads', host' \in Nat
  PROVE  StoreStep
<1>1. PICK f : Begun(f)
  BY CreatFrame
<1>2. PICK s \in Slot : /\ dir[s].status = Free /\ IsOf(dir'[s], f)
                       /\ \A t \in Slot : t # s => dir'[t] = dir[t]
  BY <1>1 DEF Begun
<1>3. SavedFiles' = SavedFiles
  BY <1>1, FilesRead DEF Begun
<1>4. LiveFiles[f] = NotThere
  BY <1>1, NotRead, FilesRead DEF Begun, AllRead
<1>5. LiveFiles'[f] = <<>>
  <2>1. Reads(dir', data', f) = Copy(host', 0)
    BY <1>1 DEF Begun, TargetReads
  <2>2. QED
    BY <1>1, <2>1, CopyIsSeq, FilesRead DEF Begun, AllRead
<1>6. ASSUME NEW g \in HostNames, g # f
      PROVE  LiveFiles'[g] = LiveFiles[g]
  <2>1. g \in Files /\ f \in Files
    BY <1>1, HostNamed DEF Begun
  <2>2. ~IsOf(dir[s], g) /\ ~IsOf(dir'[s], g)
    BY <1>2, <1>6, <2>1, FileOf DEF IsOf, Files
  <2>3. data' = data
    BY <1>1 DEF Begun
  <2>4. QED
    BY <1>2, <2>2, <2>3, LiveKept
<1>7. QED
  BY <1>1, <1>3, <1>4, <1>5, <1>6, StoreCreate DEF Begun

\* A call of cpmWrite changes no block of another file, in core or on the image.
LEMMA WriteKeepsBlocks ==
  ASSUME Regular, ~MpmDates, Covering, ContentInv, StampedWrite,
         NEW g \in Files, NEW s \in Slot, NEW i \in PtrIx
  PROVE  /\ g # tool.file /\ IsOf(dir[s], g) /\ dir[s].ptr[i] # 0 =>
              data'[dir[s].ptr[i]] = data[dir[s].ptr[i]]
         /\ IsOf(disk[s], g) /\ disk[s].ptr[i] # 0 =>
              data'[disk[s].ptr[i]] = data[disk[s].ptr[i]]
<1>1. data' = data \/ (wr.phase = "fill" /\ Store)
  BY DEF StampedWrite, VolWrite, Filled
<1>2. ASSUME g # tool.file, IsOf(dir[s], g), dir[s].ptr[i] # 0
      PROVE  data'[dir[s].ptr[i]] = data[dir[s].ptr[i]]
  <2>1. CASE data' = data
    BY <2>1
  <2>2. CASE wr.phase = "fill" /\ Store
    <3>1. dir[s].ptr[i] # Cell
      BY <1>2, <2>2, CellIsOwn
    <3>2. dir[s].ptr[i] \in Block
      BY <1>2, PointsToBlock
    <3>3. QED
      BY <2>2, <3>1, <3>2, StoreEffect
  <2>3. QED
    BY <1>1, <2>1, <2>2
<1>3. ASSUME IsOf(disk[s], g), disk[s].ptr[i] # 0
      PROVE  data'[disk[s].ptr[i]] = data[disk[s].ptr[i]]
  <2>1. tool.step = "write"
    BY DEF StampedWrite, VolWrite
  <2>2. Within(disk, dir) /\ Match(disk, tool.file[1], tool.file[2]) = {}
    BY <2>1, Parts DEF Course, SessionInv, Between, Target
  <2>3. s \in FileSlots(disk) /\ disk[s].status <= MaxStatus
    BY <1>3, FileOf DEF FileSlots
  <2>4. g # tool.file
    BY <1>3, <2>2, <2>3 DEF Match, IsOf
  <2>5. IsOf(dir[s], g) /\ dir[s].ptr[i] = disk[s].ptr[i]
    BY <1>3, <2>2, <2>3 DEF Within, Grown, SameExtent, IsOf
  <2>6. QED
    BY <1>2, <1>3, <2>4, <2>5
<1>4. QED
  BY <1>2, <1>3

LEMMA WriteStore ==
  ASSUME Regular, ~MpmDates, Covering, ContentInv, StampedWrite,
         TargetReads, TargetReads', host \in Nat
  PROVE  StoreStep
<1> DEFINE f == tool.file
<1>1. /\ tool.step = "write" /\ tool' = tool /\ host' = host
      /\ TypeOK /\ Course /\ ino \in Handles
  BY Parts DEF StampedWrite, VolWrite
<1>2. WriteStep
  BY DEF StampedWrite, VolWrite, WriteStep
<1>3. disk' = disk /\ wr.h = ino
  BY <1>1, <1>2, WriteFrame DEF Course
<1>4. f \in HostNames /\ f \in Files /\ (dir' = dir \/ OneEntry(f))
  BY WriteOne
<1>5. SavedFiles' = SavedFiles
  <2>1. ASSUME NEW g \in HostNames
        PROVE  Reads(disk', data', g) = Reads(disk, data, g)
    <3>1. g \in Files /\ disk \in [Slot -> Entry]
      BY HostNamed, Parts
    <3>2. \A s \in Slot, i \in PtrIx :
            IsOf(disk[s], g) /\ disk[s].ptr[i] # 0 =>
              data'[disk[s].ptr[i]] = data[disk[s].ptr[i]]
      BY <3>1, WriteKeepsBlocks
    <3>3. QED
      BY <1>3, <3>1, <3>2, ReadsSame
  <2>2. QED
    BY <2>1, FilesRead DEF AllRead
<1>6. ASSUME NEW g \in HostNames, g # f
      PROVE  LiveFiles'[g] = LiveFiles[g]
  <2>1. g \in Files
    BY HostNamed
  <2>2. ASSUME NEW s \in Slot, IsOf(dir[s], g) \/ IsOf(dir'[s], g)
        PROVE  dir'[s] = dir[s]
    <3>1. CASE OneEntry(f)
      <4>1. PICK x \in Slot :
              /\ \A t \in Slot : x # t => dir'[t] = dir[t]
              /\ IsOf(dir'[x], f) /\ (dir[x].status = Free \/ IsOf(dir[x], f))
        BY <3>1 DEF OneEntry
      <4>2. x # s
        BY <1>4, <1>6, <2>1, <2>2, <4>1, FileOf DEF IsOf, Files
      <4>3. QED
        BY <4>1, <4>2
    <3>2. QED
      BY <1>4, <3>1
  <2>3. \A s \in Slot, i \in PtrIx :
          IsOf(dir[s], g) /\ dir[s].ptr[i] # 0 =>
            data'[dir[s].ptr[i]] = data[dir[s].ptr[i]]
    BY <1>6, <2>1, WriteKeepsBlocks
  <2>4. QED
    BY <2>2, <2>3, LiveKept
<1>7. /\ LiveFiles[f] = Copy(host, fd[ino].pos)
      /\ LiveFiles'[f] = Copy(host, fd'[ino].pos)
  BY <1>1, <1>4, FilesRead DEF TargetReads, AllRead
<1>8. /\ fd[ino].pos \in Nat
      /\ \/ fd'[ino].pos = fd[ino].pos
         \/ fd'[ino].pos \in Nat /\ fd[ino].pos < fd'[ino].pos
  <2>1. fd[ino].pos \in Nat /\ Pos = fd[ino].pos /\ wr.count \in Nat
    BY <1>1, <1>3 DEF TypeOK, Inode, WriteCall, Pos
  <2>2. \/ fd'[ino].pos = Pos
        \/ \E n \in 1 .. wr.count : fd'[ino].pos = Pos + n
    BY <1>1, <1>2, <1>3, WriteProgress
  <2>3. QED
    BY <2>1, <2>2
<1> HIDE DEF f
<1>9. CASE fd'[ino].pos = fd[ino].pos
  <2>1. LiveFiles' = LiveFiles
    <3>1. \A g \in HostNames : LiveFiles'[g] = LiveFiles[g]
      BY <1>4, <1>6, <1>7, <1>9
    <3>2. QED
      BY <3>1, FilesRead DEF AllRead
  <2>2. QED
    BY <1>5, <2>1 DEF StoreStep
<1>10. CASE fd'[ino].pos \in Nat /\ fd[ino].pos < fd'[ino].pos
  BY <1>4, <1>5, <1>6, <1>7, <1>8, <1>10, StoreExtend
<1>11. QED
  BY <1>8, <1>9, <1>10

LEMMA RemoveStore ==
  ASSUME Regular, ContentInv, VolRemove
  PROVE  StoreStep
<1>1. PICK f : Removed(f)
  BY RemoveFrame
<1>2. disk' = disk /\ data' = data /\ f \in Files
  BY <1>1 DEF Removed
<1>3. SavedFiles' = SavedFiles
  BY <1>2, FilesRead
<1>4. ASSUME NEW g \in HostNames, g # f
      PROVE  LiveFiles'[g] = LiveFiles[g]
  <2>1. g \in Files
    BY HostNamed
  <2>2. \A s \in Slot : IsOf(dir[s], g) \/ IsOf(dir'[s], g) => dir'[s] = dir[s]
    BY <1>1, <1>4, <2>1, RemoveKeeps
  <2>3. QED
    BY <1>2, <2>2, LiveKept
<1>5. CASE f \in HostNames
  <2>1. \A s \in Slot : ~IsOf(dir'[s], f)
    <3>1. ASSUME NEW s \in Slot, IsOf(dir'[s], f) PROVE FALSE
      <4>1. s \in Match(dir', f[1], f[2])
        BY <1>2, <3>1, FileOf DEF Match, IsOf
      <4>2. QED
        BY <1>1, <4>1 DEF Removed
    <3>2. QED
      BY <3>1
  <2>2. LiveFiles'[f] = NotThere
    BY <1>5, <2>1, NotRead, FilesRead DEF AllRead
  <2>3. QED
    BY <1>3, <1>4, <1>5, <2>2, StoreRemove
<1>6. CASE f \notin HostNames
  <2>1. \A g \in HostNames : LiveFiles'[g] = LiveFiles[g]
    BY <1>4, <1>6
  <2>2. LiveFiles' = LiveFiles
    BY <2>1, FilesRead DEF AllRead
  <2>3. QED
    BY <1>3, <2>2 DEF StoreStep
<1>7. QED
  BY <1>5, <1>6

LEMMA EndStore ==
  ASSUME Regular, Whole, ContentInv, StampedEnd
  PROVE  StoreStep
<1>1. Left
  BY EndFrame
<1>2. dir' = dir /\ disk' = dir /\ SyncDs
  BY <1>1 DEF Left
<1>3. \A f \in HostNames : LiveFiles'[f] = LiveFiles[f]
  BY <1>2, SyncDsSpares, LiveKept DEF Spares
<1>4. LiveFiles' = LiveFiles
  BY <1>3, FilesRead DEF AllRead
<1>5. SavedFiles' = LiveFiles'
  BY <1>2, FilesRead
<1>6. QED
  BY <1>4, <1>5, StoreSave

LEMMA DieStore ==
  ASSUME Regular, Whole, ContentInv, DieUnstamped \/ StampedDie
  PROVE  StoreStep
<1>1. Lost
  BY DieFrame
<1>2. dir' = disk'
  BY <1>1 DEF Lost
<1>3. CASE disk' = disk /\ data' = data
  <2>1. LiveFiles' = SavedFiles /\ SavedFiles' = SavedFiles
    BY <1>2, <1>3, FilesRead
  <2>2. QED
    BY <2>1, StoreForget
<1>4. CASE /\ tool.step = "sync" /\ tool.sec = LastDirSec /\ disk' = Synced
           /\ dirtyDs /\ \E end : data' = TableTo(end)
  <2>1. Synced = dir
    BY <1>4, Parts, SyncWrites
  <2>2. Spares(dir)
    <3>1. IsStamper(dir[0]) /\ OwnsTable(dir) /\ dir \in [Slot -> Entry]
      BY <1>4, Parts DEF ContentInv, TableInv
    <3>2. NotShared(dir) /\ InDataArea(dir)
      BY Parts
    <3>3. QED
      BY <1>4, <3>1, <3>2, TableSpares
  <2>3. \A f \in HostNames : LiveFiles'[f] = LiveFiles[f]
    BY <1>2, <1>4, <2>1, <2>2, LiveKept DEF Spares
  <2>4. LiveFiles' = LiveFiles /\ SavedFiles' = LiveFiles'
    BY <1>2, <2>3, FilesRead DEF AllRead
  <2>5. QED
    BY <2>4, StoreSave
<1>5. QED
  BY <1>1, <1>3, <1>4 DEF Lost

-----------------------------------------------------------------------------
(* Files with one entry                                                    *)

Short(d) ==
  \A s \in Slot, f \in HostNames : IsOf(d[s], f) => d[s].extno \div Extents = 0

\* The directory is one sector, or each file that is copied has one entry.
Brief ==
  \/ LastDirSec = 0
  \/ /\ \A v \in Versions : HostSize[v] <= ExtCap
     /\ \A d \in Images : Short(d)

BriefInv ==
  /\ host \in Nat
  /\ tool.step \in {"open", "chunk", "write"} => host \in Versions
  /\ LastDirSec # 0 =>
       /\ Short(dir) /\ Short(disk)
       /\ wr.phase # "idle" => fd[ino].pos + wr.count <= ExtCap

LEMMA EndsShort ==
  ASSUME Covering, NEW d \in [Slot -> Entry], NEW s \in Slot, NEW f,
         NEW n \in Nat, n < ExtCap, Ends(d, s, f, n),
         NEW t \in Slot, IsOf(d[t], f)
  PROVE  d[t].extno \div Extents = 0
<1>1. /\ d[t].extno \in Nat /\ d[s].extno \in Nat
      /\ d[s].extno <= n \div Logical /\ d[t].extno <= d[s].extno
  <2>1. d[t].extno \in Nat /\ d[s].extno \in Nat /\ d[s].extno <= n \div Logical
    BY ExtnoType, LastNotBeyond
  <2>2. t # s => d[t].extno < d[s].extno
    BY DEF Ends
  <2>3. QED
    BY <2>1, <2>2
<1>2. /\ Extents \in Nat \ {0} /\ Logical \in Nat \ {0}
      /\ n \div Logical \in Nat
  BY Geometry, DivParts
<1>3. n \div Logical < Extents
  <2>1. ExtCap = Extents * Logical
    <3>1. \A a, b \in Nat : a * b = b * a
      BY Z3
    <3>2. QED
      BY <1>2, <3>1, Extension
  <2>2. QED
    BY <1>2, <2>1, DivLess
<1>4. d[t].extno < 1 * Extents
  BY <1>1, <1>2, <1>3
<1>5. d[t].extno \div Extents < 1 /\ d[t].extno \div Extents \in Nat
  BY <1>1, <1>2, <1>4, DivLess, DivParts
<1>6. QED
  BY <1>5

\* Then the entries of a file in core and on the image are one.
LEMMA Lone ==
  ASSUME Regular, ContentInv, Short(dir), Short(disk), NEW f \in HostNames
  PROVE  \E x \in Slot : \A s \in Slot :
           IsOf(dir[s], f) \/ IsOf(disk[s], f) => s = x
<1>1. f \in Files /\ Apart(dir) /\ Apart(disk)
  BY HostNamed, Parts DEF SessionInv, UniqueInv, Disjoint
<1>2. ASSUME NEW d, NEW e, Apart(d), Short(d), Within(e, d)
      PROVE  \E x \in Slot : \A s \in Slot : IsOf(d[s], f) \/ IsOf(e[s], f) => s = x
  <2>1. ASSUME NEW s \in Slot, NEW t \in Slot, IsOf(d[s], f), IsOf(d[t], f)
        PROVE  s = t
    <3>1. SameExtent(d[s], d[t])
      BY <1>2, <2>1 DEF SameExtent, Short, IsOf
    <3>2. t \in FileSlots(d)
      BY <1>1, <2>1, FileOf DEF FileSlots
    <3>3. QED
      BY <1>2, <3>1, <3>2 DEF Apart
  <2>2. ASSUME NEW s \in Slot, IsOf(e[s], f) PROVE IsOf(d[s], f)
    <3>1. s \in FileSlots(e)
      BY <1>1, <2>2, FileOf DEF FileSlots
    <3>2. QED
      BY <1>2, <2>2, <3>1 DEF Within, Grown, SameExtent, IsOf
  <2>3. \E x \in Slot : TRUE
    BY Geometry DEF Slot
  <2>4. QED
    BY <2>1, <2>2, <2>3
<1>3. Within(disk, dir) \/ Within(dir, disk)
  BY Parts DEF SessionInv, Between
<1>4. QED
  BY <1>1, <1>2, <1>3

LEMMA SyncStore ==
  ASSUME Regular, ContentInv, BriefInv, SyncSector, data' = data
  PROVE  StoreStep
<1>1. dir' = dir /\ disk' = Synced /\ LastDirSec # 0
  <2>1. tool.sec \in Nat /\ tool.sec < LastDirSec
    BY Parts, ToolFields DEF SyncSector, Course, ToolsTypeOK
  <2>2. QED
    BY <2>1 DEF SyncSector
<1>2. LiveFiles' = LiveFiles
  BY <1>1, FilesRead
<1>3. ASSUME NEW f \in HostNames
      PROVE  SavedFiles'[f] \in {SavedFiles[f], LiveFiles[f]}
  <2>1. PICK x \in Slot : \A s \in Slot :
          IsOf(dir[s], f) \/ IsOf(disk[s], f) => s = x
    BY <1>1, Lone DEF BriefInv
  <2>2. \A s \in Slot : Synced[s] = IF s \div PerSec = tool.sec THEN dir[s] ELSE disk[s]
    BY DEF Synced
  <2>3. /\ f \in Files /\ dir \in [Slot -> Entry] /\ disk \in [Slot -> Entry]
    BY HostNamed, Parts
  <2>4. CASE x \div PerSec = tool.sec
    <3>1. \A s \in Slot : IsOf(dir[s], f) \/ IsOf(Synced[s], f) => Synced[s] = dir[s]
      BY <2>1, <2>2, <2>4
    <3>2. Reads(Synced, data, f) = Reads(dir, data, f)
      BY <2>3, <3>1, ReadsSame
    <3>3. QED
      BY <1>1, <3>2, FilesRead DEF AllRead
  <2>5. CASE x \div PerSec # tool.sec
    <3>1. \A s \in Slot : IsOf(disk[s], f) \/ IsOf(Synced[s], f) => Synced[s] = disk[s]
      BY <2>1, <2>2, <2>5
    <3>2. Reads(Synced, data, f) = Reads(disk, data, f)
      BY <2>3, <3>1, ReadsSame
    <3>3. QED
      BY <1>1, <3>2, FilesRead DEF AllRead
  <2>6. QED
    BY <2>4, <2>5
<1>4. QED
  BY <1>2, <1>3, StoreSave

LEMMA BriefNext ==
  ASSUME host' \in Nat,
         tool'.step \in {"open", "chunk", "write"} => host' \in Versions,
         LastDirSec # 0 =>
           /\ Short(dir') /\ Short(disk')
           /\ wr'.phase # "idle" => fd'[ino].pos + wr'.count <= ExtCap
  PROVE  BriefInv'
  BY DEF BriefInv, Short, LastDirSec, Versions, IsOf, ino

LEMMA ShortSynced ==
  ASSUME Short(dir), Short(disk) PROVE Short(Synced)
<1>1. \A s \in Slot : Synced[s] = dir[s] \/ Synced[s] = disk[s]
  BY DEF Synced
<1>2. QED
  BY <1>1 DEF Short

LEMMA HostSizes ==
  /\ Versions \subseteq Nat /\ 0 \in Nat
  /\ \A h \in HostFiles : h[2] \in Versions
  BY VolumeAssumption DEF Versions

LEMMA BriefCreat ==
  ASSUME Regular, ~MpmDates, Covering, ContentInv, ContentInv', BriefInv,
         StampedCreat
  PROVE  BriefInv'
<1>1. PICK f : Begun(f)
  BY CreatFrame
<1>2. host' \in Versions
  BY HostSizes DEF StampedCreat, VolCreat
<1>3. /\ f \in Files /\ disk' = disk /\ wr'.phase = "idle"
  BY <1>1 DEF Begun
<1>4. ASSUME Short(dir) PROVE Short(dir')
  <2>1. PICK s \in Slot : Ends(dir', s, f, 0)
    <3>1. TargetEnd'
      BY DEF ContentInv, SizeInv
    <3>2. QED
      BY <1>1, <3>1 DEF Begun, TargetEnd, Ends, IsOf, SizeOf, LastRecord, ino
  <2>2. dir' \in [Slot -> Entry]
    BY DEF ContentInv, SizeInv, SessionInv, Owned, TypeOK
  <2>3. 0 < ExtCap
    BY Extension
  <2>4. ASSUME NEW t \in Slot, NEW g \in HostNames, IsOf(dir'[t], g)
        PROVE  dir'[t].extno \div Extents = 0
    <3>1. CASE IsOf(dir'[t], f)
      BY <2>1, <2>2, <2>3, <3>1, EndsShort
    <3>2. CASE ~IsOf(dir'[t], f)
      BY <1>1, <1>4, <2>4, <3>2 DEF Begun, Short
    <3>3. QED
      BY <3>1, <3>2
  <2>5. QED
    BY <2>4 DEF Short
<1>5. QED
  BY <1>2, <1>3, <1>4, HostSizes, BriefNext DEF BriefInv

LEMMA BriefWrite ==
  ASSUME Regular, ~MpmDates, Covering, ContentInv, BriefInv, ContentInv',
         StampedWrite
  PROVE  BriefInv'
<1> DEFINE f == tool.file
<1>1. /\ tool.step = "write" /\ tool' = tool /\ host' = host
      /\ TypeOK /\ Course /\ ino \in Handles
  BY Parts DEF StampedWrite, VolWrite
<1>2. WriteStep
  BY DEF StampedWrite, VolWrite, WriteStep
<1>3. disk' = disk /\ wr.h = ino /\ wr'.h = ino /\ wr.phase # "idle"
  BY <1>1, <1>2, WriteFrame DEF Course
<1>4. /\ fd[ino].pos \in Nat /\ Pos = fd[ino].pos /\ wr.count \in Nat /\ wr.count > 0
  BY <1>1, <1>3 DEF TypeOK, Inode, WriteCall, Pos
<1>5. ASSUME LastDirSec # 0, wr'.phase # "idle"
      PROVE  fd'[ino].pos + wr'.count <= ExtCap
  <2>1. fd[ino].pos + wr.count <= ExtCap
    BY <1>3, <1>5 DEF BriefInv
  <2>2. \/ fd'[ino].pos = Pos /\ wr'.count = wr.count
        \/ \E n \in 1 .. wr.count : /\ fd'[ino].pos = Pos + n
                                   /\ wr'.count = wr.count - n
    BY <1>1, <1>2, <1>3, <1>5, WriteProgress
  <2>3. ExtCap \in Nat
    BY Extension
  <2>4. QED
    BY <1>4, <2>1, <2>2, <2>3
<1>6. ASSUME LastDirSec # 0 PROVE Short(dir')
  <2>1. Joined(dir, dir')
    BY <1>1, <1>2, WriteJoins
  <2>2. Short(dir)
    BY <1>6 DEF BriefInv
  <2>3. CASE wr.phase = "extent"
    <3>1. fd'[ino].pos = Pos
      BY <1>1, <1>2, <1>3, <2>3
         DEF WriteStep, ExtentFound, ExtentAdded, ExtentDenied, BlockFound,
             BlockUnreadable, BlockAllocated, BlockDenied, Filled, Pos
    <3>2. Pos < ExtCap
      <4>1. fd[ino].pos + wr.count <= ExtCap /\ ExtCap \in Nat
        BY <1>3, <1>6, Extension DEF BriefInv
      <4>2. QED
        BY <1>4, <4>1
    <3>3. PICK s \in Slot : Ends(dir', s, f, Pos)
      <4>1. TargetEnd'
        BY DEF ContentInv, SizeInv
      <4>2. QED
        BY <1>1, <3>1, <4>1 DEF TargetEnd, Ends, IsOf, SizeOf, LastRecord, ino
    <3>4. dir' \in [Slot -> Entry]
      BY DEF ContentInv, SizeInv, SessionInv, Owned, TypeOK
    <3>5. ASSUME NEW t \in Slot, NEW g \in HostNames, IsOf(dir'[t], g)
          PROVE  dir'[t].extno \div Extents = 0
      <4>1. CASE IsOf(dir'[t], f)
        BY <1>4, <3>2, <3>3, <3>4, <4>1, EndsShort
      <4>2. CASE ~IsOf(dir'[t], f)
        <5>1. dir'[t] = dir[t]
          BY <4>2, WriteOne DEF OneEntry
        <5>2. QED
          BY <2>2, <3>5, <5>1 DEF Short
      <4>3. QED
        BY <4>1, <4>2
    <3>6. QED
      BY <3>5 DEF Short
  <2>4. CASE wr.phase # "extent"
    <3>1. wr.phase \in {"block", "fill"}
      BY <1>1, <1>3, <2>4 DEF TypeOK, WriteCall
    <3>2. ASSUME NEW t \in Slot, NEW g \in HostNames, IsOf(dir'[t], g)
          PROVE  dir'[t].extno \div Extents = 0
      <4>1. CASE Grown(dir[t], dir'[t])
        <5>1. IsOf(dir[t], g) /\ dir[t].extno \div Extents = dir'[t].extno \div Extents
          BY <3>2, <4>1 DEF Grown, SameExtent, IsOf
        <5>2. QED
          BY <2>2, <5>1 DEF Short
      <4>2. CASE dir'[t] = dir[t]
        BY <2>2, <3>2, <4>2 DEF Short
      <4>3. CASE dir[t].status = Free /\ dir'[t] # dir[t]
        <5>1. t = wr.extent
          BY <2>4, <4>3, WriteOne DEF OneEntry, Aimed
        <5>2. IsOf(dir[t], f) /\ f \in Files
          BY <1>1, <3>1, <5>1, WriteAt
        <5>3. QED
          BY <4>3, <5>2, FileOf
      <4>4. QED
        BY <2>1, <4>1, <4>2, <4>3 DEF Joined
    <3>3. QED
      BY <3>2 DEF Short
  <2>5. QED
    BY <2>3, <2>4
<1>7. QED
  BY <1>1, <1>3, <1>5, <1>6, BriefNext DEF BriefInv

LEMMA BriefChunk ==
  ASSUME Covering, ContentInv, BriefInv, Brief, ContentInv', VolChunk
  PROVE  BriefInv'
<1>1. Goes
  BY ChunkFrame
<1>2. dir' = dir /\ disk' = disk /\ host' = host /\ host \in Versions
  BY <1>1 DEF Goes, BriefInv
<1>3. ASSUME LastDirSec # 0, wr'.phase # "idle"
      PROVE  fd'[ino].pos + wr'.count <= ExtCap
  <2>1. wr'.h = ino /\ fd' = fd
    <3>1. \/ \E n : WriteBegin(ino, n)
          \/ wr' = [wr EXCEPT !.got = "all"] /\ wr.phase = "idle"
      BY Parts DEF VolChunk, CopyChunk, At, Quiet
    <3>2. CASE \E n : WriteBegin(ino, n)
      BY <3>2 DEF WriteBegin, Go
    <3>3. CASE wr' = [wr EXCEPT !.got = "all"] /\ wr.phase = "idle"
      BY <1>3, <3>3, Parts DEF TypeOK, WriteCall
    <3>4. QED
      BY <3>1, <3>2, <3>3
  <2>2. Pos' + wr'.count <= HostSize[host]
    BY DEF VolChunk
  <2>3. HostSize[host] <= ExtCap /\ HostSize[host] \in Nat
    BY <1>2, <1>3, VolumeAssumption DEF Brief, Versions
  <2>4. Pos' = fd'[ino].pos /\ fd'[ino].pos \in Nat /\ wr'.count \in Nat
    <3>1. fd[ino].pos \in Nat
      BY Parts DEF TypeOK, Inode
    <3>2. wr'.count \in Nat
      BY DEF ContentInv, SizeInv, SessionInv, Owned, TypeOK, WriteCall
    <3>3. QED
      BY <2>1, <3>1, <3>2 DEF Pos
  <2>5. QED
    BY <2>2, <2>3, <2>4, Extension
<1>4. QED
  BY <1>2, <1>3, BriefNext DEF BriefInv

\* Other steps do not write.
LEMMA BriefRests ==
  ASSUME BriefInv, ContentInv', host' \in {host, 0},
         tool'.step \notin {"open", "chunk", "write"},
         Short(dir) /\ Short(disk) => Short(dir') /\ Short(disk')
  PROVE  BriefInv'
<1>1. wr'.phase = "idle"
  BY DEF ContentInv, SizeInv, SessionInv, Course
<1>2. QED
  BY <1>1, HostSizes, BriefNext DEF BriefInv

LEMMA BriefOpen ==
  ASSUME ContentInv, BriefInv, CopyOpen \/ CopyAgain,
         UNCHANGED <<data, host, made>>
  PROVE  BriefInv'
<1>1. dir' = dir /\ disk' = disk /\ host' = host /\ host \in Versions
  BY OpenFrame DEF Goes, BriefInv
<1>2. wr'.phase = "idle"
  BY DEF CopyOpen, CopyAgain, At, Open, Quiet, fsvars, vars
<1>3. QED
  BY <1>1, <1>2, BriefNext DEF BriefInv

LEMMA BriefStep ==
  ASSUME Regular, ~MpmDates, Covering, Whole, Brief, ContentInv, BriefInv,
         ContentInv', [DsNext]_dsvars
  PROVE  BriefInv'
<1>1. CASE StampedCreat
  BY <1>1, BriefCreat
<1>2. CASE StampedWrite
  BY <1>2, BriefWrite
<1>3. CASE StampedDone
  <2>1. Copied
    BY <1>3, DoneFrame
  <2>2. host' = 0
    BY <1>3 DEF StampedDone, VolDone
  <2>3. QED
    BY <2>1, <2>2, BriefRests DEF Copied
<1>4. CASE StampedEnd
  <2>1. Left
    BY <1>4, EndFrame
  <2>2. host' = 0
    BY <1>4 DEF StampedEnd, VolEnd
  <2>3. QED
    BY <2>1, <2>2, BriefRests DEF Left, NoTool
<1>5. CASE VolChunk
  BY <1>5, BriefChunk
<1>6. ASSUME Rests, host' \in {host, 0} PROVE BriefInv'
  <2>1. dir' = dir /\ (disk' = disk \/ disk' = Synced)
    BY <1>6 DEF Rests, SyncSector
  <2>2. QED
    BY <1>6, <2>1, ShortSynced, BriefRests DEF Rests
<1>7. CASE VolFailed
  BY <1>6, <1>7, FailedFrame DEF VolFailed
<1>8. CASE VolQuiet
  BY <1>6, <1>8, BriefOpen, QuietFrame DEF VolQuiet
<1>9. CASE VolRemove
  <2>1. PICK f : Removed(f)
    BY <1>9, RemoveFrame
  <2>2. host' = host /\ disk' = disk
    BY <1>9, <2>1 DEF VolRemove, Removed
  <2>3. ASSUME Short(dir) PROVE Short(dir')
    <3>1. ASSUME NEW s \in Slot, NEW g \in HostNames, IsOf(dir'[s], g)
          PROVE  dir'[s] = dir[s]
      <4>1. g \in Files
        BY HostNamed
      <4>2. dir'[s].status # Free
        BY <3>1, <4>1, FileOf
      <4>3. QED
        BY <2>1, <4>2 DEF Removed
    <3>2. QED
      BY <2>3, <3>1 DEF Short
  <2>4. QED
    BY <2>1, <2>2, <2>3, BriefRests DEF Removed
<1>10. CASE DieUnstamped \/ StampedDie
  <2>1. Lost
    BY <1>10, DieFrame
  <2>2. host' = 0
    BY <1>10 DEF DieUnstamped, StampedDie, VolDie
  <2>3. dir' = disk' /\ (disk' = disk \/ disk' = Synced)
    BY <2>1 DEF Lost
  <2>4. QED
    BY <2>1, <2>2, <2>3, ShortSynced, BriefRests DEF Lost, NoTool
<1>11. CASE UNCHANGED dsvars
  BY <1>11 DEF dsvars, BriefInv, Short, LastDirSec, Versions, IsOf, ino
<1>12. QED
  BY <1>1, <1>2, <1>3, <1>4, <1>5, <1>7, <1>8, <1>9, <1>10, <1>11 DEF DsNext

LEMMA BriefInit ==
  ASSUME Brief, DsInit
  PROVE  BriefInv
<1>1. /\ dir = disk /\ disk \in Images /\ host = 0 /\ tool.step = "args"
      /\ wr.phase = "idle"
  BY DEF DsInit, VolInit, ToolsInit, Init, NoTool, Returned
<1>2. QED
  BY <1>1 DEF Brief, BriefInv

LEMMA StoreNext ==
  ASSUME Regular, ~MpmDates, Covering, Whole, ContentInv, TargetReads, BriefInv,
         TargetReads', BriefInv', [DsNext]_dsvars
  PROVE  StoreStep
<1>1. CASE StampedCreat
  BY <1>1, CreatStore DEF BriefInv
<1>2. CASE StampedWrite
  BY <1>2, WriteStore DEF BriefInv
<1>3. CASE StampedDone
  BY <1>3, DoneFrame, StoreStill DEF Copied
<1>4. CASE StampedEnd
  BY <1>4, EndStore
<1>5. CASE VolChunk
  BY <1>5, ChunkFrame, StoreStill DEF Goes
<1>6. ASSUME Rests PROVE StoreStep
  BY <1>6, SyncStore, StoreStill DEF Rests
<1>7. CASE VolFailed
  BY <1>6, <1>7, FailedFrame
<1>8. CASE VolQuiet
  <2>1. CASE CopyOpen \/ CopyAgain
    BY <1>8, <2>1, OpenFrame, StoreStill DEF VolQuiet, Goes
  <2>2. CASE Umount \/ SyncSector \/ \E prog, text : Start(prog, text)
    BY <1>6, <1>8, <2>2, QuietFrame DEF VolQuiet
  <2>3. QED
    BY <1>8, <2>1, <2>2 DEF VolQuiet
<1>9. CASE VolRemove
  BY <1>9, RemoveStore
<1>10. CASE DieUnstamped \/ StampedDie
  BY <1>10, DieStore
<1>11. CASE UNCHANGED dsvars
  BY <1>11, StoreStill DEF dsvars
<1>12. QED
  BY <1>1, <1>2, <1>3, <1>4, <1>5, <1>7, <1>8, <1>9, <1>10, <1>11 DEF DsNext

\* The files that can be read, in core and on the image, are a FileStore: a
\* session of cpmcp or cpmrm, however it ends, only appends to files it makes,
\* removes files, and saves or loses whole files.
THEOREM FilesAreAStore ==
  ASSUME Regular, ~MpmDates, Covering, Straight, Whole, Brief,
         \A d \in Images : OwnsTable(d)
  PROVE  DsSpec => IsFileStore
<1> DEFINE Inv == ContentInv /\ TargetReads /\ BriefInv
<1>1. DsInit => Inv /\ LiveFiles = SavedFiles
  <2>1. DsInit => dir = disk
    BY DEF DsInit, VolInit, ToolsInit, Init
  <2>2. QED
    BY <2>1, ContentInit, TargetReadsInv, BriefInit DEF LiveFiles, SavedFiles
<1>2. ContentInv => TargetReads
  BY TargetReadsInv
<1>3. ContentInv /\ [DsNext]_dsvars => ContentInv'
  BY ContentStep
<1>4. ContentInv /\ BriefInv /\ ContentInv' /\ [DsNext]_dsvars => BriefInv'
  BY BriefStep
<1>5. Inv /\ Inv' /\ [DsNext]_dsvars => StoreStep
  BY StoreNext
<1>6. StoreStep => [Promise!Next]_<<LiveFiles, SavedFiles>>
  BY DEF StoreStep
<1>7. DsSpec => LiveFiles = SavedFiles /\ [][Promise!Next]_<<LiveFiles, SavedFiles>>
  BY <1>1, <1>2, <1>3, <1>4, <1>5, <1>6, PTL DEF DsSpec
<1>8. QED
  BY <1>7, PTL DEF IsFileStore, Promise!Spec, Promise!Init, LiveFiles, SavedFiles

=============================================================================
