----------------------------- MODULE SizeProofs -----------------------------
(* What cpmcp records of the length of a file, for every geometry whose     *)
(* extents are full when their pointers are, and the agreement of those     *)
(* records with fsck.cpm: an image that cpmcp, cpmrm and cpmchattr have     *)
(* worked on passes the checks of fsck.  Also: the entries of a file agree  *)
(* on its attributes.                                                       *)
EXTENDS CpmToolsProofs, Division, FiniteSetTheorems

USE DEF NoSlot, Unset, Free, Sfcb

-----------------------------------------------------------------------------
(* Positions                                                               *)

\* The hypothesis: the pointers of an entry hold the blocks of its logical
\* extents, no more and no less, and extents are made of records.
Covering == NPtr * BlkSiz = Logical * Extents /\ Logical % RecLen = 0

\* No chunk of cpmcp crosses the end of a logical extent, unless the physical
\* extent ends there too.
Straight == \/ Extents = 1
            \/ TextModes \subseteq {FALSE} /\ Logical % Chunk = 0

LEMMA Remainder ==
  ASSUME NEW a \in Nat \ {0}, NEW z \in 1 .. a - 1
  PROVE  (a - z) % a = a - z
<1>1. a - z \in 0 .. a - 1 /\ a - z = a * 0 + (a - z)
  BY Z3
<1>2. QED
  BY <1>1, DivUnique

LEMMA Extension ==
  ASSUME Covering
  PROVE  /\ ExtCap = Logical * Extents /\ ExtCap = NPtr * BlkSiz
         /\ ExtCap \in Nat \ {0}
  BY ExtCapType DEF Covering, ExtCap

\* The physical extent of a position
LEMMA ExtentOf ==
  ASSUME Covering, NEW p \in Nat
  PROVE  /\ (p \div Logical) \div Extents = p \div ExtCap
         /\ p \div Logical \in Nat
<1>1. Logical \in Nat \ {0} /\ Extents \in Nat \ {0} /\ ExtCap = Logical * Extents
  BY Extension, Geometry
<1>2. (p \div Logical) \div Extents = p \div (Logical * Extents)
  BY <1>1, DivDiv
<1>3. QED
  BY <1>1, <1>2, DivParts

\* Positions of one pointer are in one block.
LEMMA SamePointer ==
  ASSUME Covering, NEW p \in Nat, NEW q \in Nat,
         p \div ExtCap = q \div ExtCap, PtrAt(p) = PtrAt(q)
  PROVE  p \div BlkSiz = q \div BlkSiz
<1>1. ExtCap = BlkSiz * NPtr /\ BlkSiz \in Nat \ {0} /\ NPtr \in Nat \ {0}
  BY Extension, Geometry
<1>2. \A r \in Nat : /\ PtrAt(r) = (r \div BlkSiz) % NPtr
                     /\ r \div ExtCap = (r \div BlkSiz) \div NPtr
                     /\ r \div BlkSiz \in Nat
  BY <1>1, ModMod, DivDiv, DivParts, ZenonT(30) DEF PtrAt
<1> DEFINE a == p \div BlkSiz
           b == q \div BlkSiz
<1>3. a \in Nat /\ b \in Nat /\ a % NPtr = b % NPtr /\ a \div NPtr = b \div NPtr
  BY <1>2
<1> HIDE DEF a, b
<1>4. a = NPtr * (a \div NPtr) + (a % NPtr)
  BY <1>1, <1>3, DivParts
<1>5. b = NPtr * (b \div NPtr) + (b % NPtr)
  BY <1>1, <1>3, DivParts
<1>6. a = b
  BY <1>3, <1>4, <1>5
<1>7. QED
  BY <1>6 DEF a, b

\* What is put into a block at a time
LEMMA RoomType ==
  ASSUME NEW pos \in Nat, NEW count \in Nat \ {0}
  PROVE  /\ Room(pos, count) \in 1 .. count
         /\ (pos % BlkSiz) + Room(pos, count) <= BlkSiz
<1>1. BlkSiz \in Nat \ {0} /\ pos % BlkSiz \in 0 .. BlkSiz - 1
  BY Geometry, DivParts
<1>2. QED
  BY <1>1 DEF Room

\* The bytes of a round are in one block, one logical extent and one physical
\* extent.
LEMMA RoundWithin ==
  ASSUME Covering, NEW pos \in Nat, NEW n \in Nat \ {0},
         (pos % BlkSiz) + n <= BlkSiz
  PROVE  /\ (pos + n - 1) \div BlkSiz = pos \div BlkSiz
         /\ (pos + n - 1) \div Logical = pos \div Logical
         /\ (pos + n - 1) \div ExtCap = pos \div ExtCap
<1>1. /\ BlkSiz \in Nat \ {0} /\ Logical \in Nat \ {0} /\ Logical % BlkSiz = 0
      /\ Extents \in Nat \ {0} /\ n - 1 \in Nat
  BY Geometry, GeometryAssumption DEF GeometryAssumption
<1>2. pos % BlkSiz \in Nat
  BY <1>1, DivParts
<1>3. (pos + (n - 1)) \div BlkSiz = pos \div BlkSiz
  <2>1. (pos % BlkSiz) + (n - 1) < BlkSiz
    BY <1>1, <1>2
  <2>2. QED
    BY <1>1, <2>1, DivSame, ZenonT(30)
<1>4. Logical = BlkSiz * (Logical \div BlkSiz) /\ Logical \div BlkSiz \in Nat \ {0}
  <2>1. Logical = BlkSiz * (Logical \div BlkSiz) /\ Logical \div BlkSiz \in Nat
    BY <1>1, Multiple
  <2>2. QED
    BY <1>1, <2>1, Z3
<1>5. ASSUME NEW p \in Nat
      PROVE  /\ p \div Logical = (p \div BlkSiz) \div (Logical \div BlkSiz)
             /\ p \div ExtCap = (p \div Logical) \div Extents
  <2>1. p \div (BlkSiz * (Logical \div BlkSiz))
          = (p \div BlkSiz) \div (Logical \div BlkSiz)
    BY <1>1, <1>4, DivDiv
  <2>2. QED
    BY <1>4, <2>1, ExtentOf
<1>6. pos + (n - 1) = pos + n - 1 /\ pos + (n - 1) \in Nat
  BY <1>1
<1>7. QED
  BY <1>3, <1>5, <1>6

\* What cpmWrite records at a position is read back by cpmNamei.
LEMMA RecordedSize ==
  ASSUME Covering, NEW entry, NEW extno, NEW pos \in Nat \ {0}
  PROVE  extno = (pos - 1) \div Logical /\ extno < 2048
           => SizeOf(Recorded(entry, extno, pos)) = pos
<1> DEFINE p == pos - 1
           x == p \div Logical
           q == p % Logical
           k == q \div RecLen
           y == p % RecLen
           z == pos % RecLen
           last == LastIn(pos, RecLen)
           e == Recorded(entry, extno, pos)
<1>1. /\ Logical \in Nat \ {0} /\ RecLen \in Nat \ {0} /\ Logical % RecLen = 0
      /\ ExactSize \in BOOLEAN
  BY Geometry, GeometryAssumption DEF Covering, GeometryAssumption
<1>2. p \in Nat /\ pos = p + 1 /\ z \in 0 .. RecLen - 1
  BY <1>1, DivParts
<1> HIDE DEF p
<1>3. /\ p = Logical * x + q /\ x \in Nat /\ q \in Nat
      /\ q = RecLen * k + y /\ k \in Nat /\ y \in 0 .. RecLen - 1
  <2>1. InParts(p, Logical, RecLen)
    BY <1>1, <1>2, PartsOfParts
  <2>2. QED
    BY <2>1, Zenon DEF InParts
<1>13. y + 1 = last
  BY <1>1, <1>2, LastOf, Zenon DEF p
<1> SUFFICES ASSUME extno = x, extno < 2048
             PROVE  SizeOf(e) = pos
  BY DEF p
<1>4. /\ e.extno = x % 2048 /\ e.blkcnt = k + 1
      /\ e.lrc = IF ExactSize THEN (RecLen - z) % RecLen ELSE z
  BY DEF Recorded, p
<1>12. last = IF z = 0 THEN RecLen ELSE z
  BY DEF LastIn
<1> HIDE DEF e, last, q, x, z, k, y
<1>15. x * Logical = Logical * x /\ k * RecLen = RecLen * k
      /\ Logical * x \in Nat /\ RecLen * k \in Nat
  BY <1>1, <1>3, Z3
<1>5. e.extno = x
  BY <1>3, <1>4
<1>6. LastRecord(e) = last
  <2>1. CASE z = 0
    <3>1. (RecLen - z) % RecLen = 0
      BY <1>1, <2>1, Z3
    <3>2. QED
      BY <1>1, <1>4, <1>12, <2>1, <3>1 DEF LastRecord
  <2>2. CASE z # 0
    <3>1. (RecLen - z) % RecLen = RecLen - z
      BY <1>1, <1>2, <2>2, Remainder
    <3>2. QED
      BY <1>1, <1>2, <1>4, <1>12, <2>2, <3>1 DEF LastRecord
  <2>3. QED
    BY <2>1, <2>2
<1>7. last \in Nat
  BY <1>1, <1>2, <1>12
<1>8. SizeOf(e) = x * Logical + (k * RecLen + last)
  <2>1. e.blkcnt # 0 /\ e.blkcnt - 1 = k
    BY <1>3, <1>4
  <2>2. QED
    BY <1>4, <1>5, <1>6, <2>1 DEF SizeOf
<1>9. SizeOf(e) = pos
  <2> DEFINE a == Logical * x
             b == RecLen * k
  <2>1. x * Logical = a /\ k * RecLen = b /\ a \in Nat /\ b \in Nat
    BY <1>15
  <2>2. pos = (a + (b + y)) + 1
    BY <1>2, <1>3
  <2> HIDE DEF a, b
  <2>3. SizeOf(e) = a + (b + last)
    BY <1>8, <2>1
  <2>4. QED
    BY <1>3, <1>7, <1>13, <2>1, <2>2, <2>3
<1>10. QED
  BY <1>9

-----------------------------------------------------------------------------
(* Where a file ends                                                       *)

\* Entry s is the last of file f and records n bytes.
Ends(d, s, f, n) ==
  /\ IsOf(d[s], f) /\ SizeOf(d[s]) = n
  /\ \/ d[s].extno = n \div Logical
     \/ n # 0 /\ d[s].extno = (n - 1) \div Logical
  /\ \A t \in Slot : IsOf(d[t], f) /\ t # s => d[t].extno < d[s].extno

\* Nothing that counts for the size of f changes.
SameSize(a, b) == a.extno = b.extno /\ a.blkcnt = b.blkcnt /\ a.lrc = b.lrc

Kept(d, e, f) ==
  \A s \in Slot : /\ IsOf(d[s], f) <=> IsOf(e[s], f)
                  /\ IsOf(d[s], f) => SameSize(d[s], e[s])

LEMMA SizeSame ==
  ASSUME NEW a, NEW b, SameSize(a, b)
  PROVE  SizeOf(a) = SizeOf(b)
  BY DEF SameSize, SizeOf, LastRecord

LEMMA EndsKept ==
  ASSUME NEW d, NEW e, NEW s \in Slot, NEW f, NEW n, Ends(d, s, f, n),
         Kept(d, e, f)
  PROVE  Ends(e, s, f, n)
<1>1. IsOf(e[s], f) /\ SameSize(d[s], e[s])
  BY DEF Ends, Kept
<1>2. SizeOf(e[s]) = n /\ e[s].extno = d[s].extno
  BY <1>1, SizeSame DEF Ends, SameSize
<1>3. \A t \in Slot : IsOf(e[t], f) => IsOf(d[t], f) /\ e[t].extno = d[t].extno
  BY DEF Kept, SameSize
<1>4. QED
  BY <1>1, <1>2, <1>3 DEF Ends

LEMMA KeptSame == \A d, f : Kept(d, d, f)
  BY DEF Kept, SameSize

LEMMA ExtnoType ==
  ASSUME NEW d \in [Slot -> Entry], NEW s \in Slot
  PROVE  d[s].extno \in Nat /\ d[s].extno < 2048
<1>1. d[s] \in Entry
  OBVIOUS
<1>2. QED
  BY <1>1, ExtnoField

\* cpmNamei finds that entry.
LEMMA EndsHighest ==
  ASSUME NEW d \in [Slot -> Entry], NEW s \in Slot, NEW u \in Users,
         NEW m \in Names, NEW f, f[1] = u, f[2] = m, NEW n, Ends(d, s, f, n),
         Regular, NEW t \in Highest(d, Match(d, u, m))
  PROVE  SizeOf(d[t]) = n
<1>1. s \in Match(d, u, m)
  BY UserStatus DEF Ends, IsOf, Match
<1>2. t \in Slot /\ IsOf(d[t], f)
  BY DEF Highest, Match, IsOf
<1>3. ~(d[t].extno < d[s].extno)
  <2>1. d[t].extno \in Nat /\ d[s].extno \in Nat
    BY <1>2, ExtnoType
  <2>2. d[t].extno > d[s].extno \/ d[t].extno = d[s].extno
    BY <1>1 DEF Highest
  <2>3. QED
    BY <2>1, <2>2
<1>4. t = s
  BY <1>2, <1>3 DEF Ends
<1>5. QED
  BY <1>4 DEF Ends

\* A file and its entries, in the terms of cpmWrite
LEMMA FileOf ==
  ASSUME Regular, NEW f \in Files, NEW entry, IsOf(entry, f)
  PROVE  /\ entry.status <= MaxStatus /\ entry.status <= MaxFileUser
         /\ entry.status # Free
<1>1. PICK u \in Users, n \in Names : u = f[1] /\ n = f[2]
  BY DEF Files
<1>2. u \in 0 .. 31 /\ u <= MaxStatus /\ u <= MaxFileUser
  BY UserStatus
<1>3. QED
  BY <1>1, <1>2 DEF IsOf

LEMMA LastNotBeyond ==
  ASSUME NEW d \in [Slot -> Entry], NEW s \in Slot, NEW f, NEW pos \in Nat,
         Ends(d, s, f, pos)
  PROVE  d[s].extno \in Nat /\ d[s].extno <= pos \div Logical
<1>0. Logical \in Nat \ {0}
  BY Geometry
<1>1. d[s].extno \in Nat /\ pos \div Logical \in Nat
  <2>1. d[s].extno \in Nat
    BY ExtnoType
  <2>2. pos \div Logical \in Nat
    BY <1>0, DivParts
  <2>3. QED
    BY <2>1, <2>2
<1>2. CASE d[s].extno = pos \div Logical
  BY <1>1, <1>2
<1>3. CASE pos # 0 /\ d[s].extno = (pos - 1) \div Logical
  <2>1. pos - 1 \in Nat /\ pos - 1 <= pos
    BY <1>3
  <2>2. (pos - 1) \div Logical <= pos \div Logical
    BY <1>0, <2>1, DivMonotone
  <2>3. QED
    BY <1>1, <1>3, <2>2
<1>4. QED
  BY <1>1, <1>2, <1>3 DEF Ends

\* The extent that cpmWrite finds is the last one; there is none where the
\* file ends with a physical extent.
LEMMA LastFound ==
  ASSUME TypeOK, Regular, Covering, Apart(dir), wr.phase # "idle",
         NEW f \in Files, NEW s \in Slot, Ends(dir, s, f, Pos), IsOf(Own, f)
  PROVE  /\ \A t \in Extent : t = s
         /\ Extent = {} => /\ Pos % Logical = 0
                           /\ dir[s].extno < Pos \div Logical
<1>0. /\ dir \in [Slot -> Entry] /\ Pos \in Nat /\ Logical \in Nat \ {0}
      /\ Pos \div Logical \in Nat /\ Extents \in Nat \ {0}
  BY WriteLocals, Geometry DEF TypeOK
<1> DEFINE x == Pos \div Logical
           M == MatchExtent(dir, Own.status, Own.name, x)
<1>1. \A t \in M : /\ t \in Slot /\ IsOf(dir[t], f)
                   /\ dir[t].extno \div Extents = x \div Extents
  BY DEF MatchExtent, Match, IsOf
<1>2. dir[s].extno \in Nat /\ dir[s].extno <= x
  BY <1>0, LastNotBeyond
<1>3. ASSUME NEW t \in M PROVE t = s
  <2>1. SUFFICES ASSUME t # s PROVE FALSE
    OBVIOUS
  <2>2. dir[t].extno < dir[s].extno /\ dir[t].extno \in Nat
    BY <1>0, <1>1, <2>1, ExtnoType DEF Ends
  <2>3. dir[t].extno \div Extents <= dir[s].extno \div Extents
    BY <1>0, <1>2, <2>2, DivMonotone
  <2>4. dir[s].extno \div Extents <= x \div Extents
    BY <1>0, <1>2, DivMonotone
  <2>5. dir[s].extno \div Extents = dir[t].extno \div Extents
    <3>1. /\ dir[s].extno \div Extents \in Nat
          /\ dir[t].extno \div Extents \in Nat
          /\ dir[t].extno \div Extents = x \div Extents
      BY <1>0, <1>1, <1>2, <2>2, DivParts
    <3>2. QED
      BY <2>3, <2>4, <3>1
  <2>6. SameExtent(dir[t], dir[s])
    BY <1>1, <2>5 DEF SameExtent, IsOf, Ends
  <2>7. s \in FileSlots(dir)
    BY FileOf DEF Ends, FileSlots
  <2>8. QED
    BY <1>1, <2>1, <2>6, <2>7 DEF Apart
<1>4. ASSUME Extent = {}
      PROVE  Pos % Logical = 0 /\ dir[s].extno < x
  <2>1. M = {}
    <3>1. SUFFICES ASSUME NEW t \in M PROVE FALSE
      OBVIOUS
    <3>2. \A y \in M : t <= y
      <4>1. \A y \in M : y = t /\ t \in Int
        BY <1>1, <1>3 DEF Slot
      <4>2. QED
        BY <4>1
    <3>3. QED
      BY <1>4, <3>2 DEF Extent, Firsts
  <2>2. dir[s].extno # x
    <3>1. SUFFICES ASSUME dir[s].extno = x PROVE s \in M
      BY <2>1
    <3>2. dir[s].status <= MaxStatus
      BY FileOf DEF Ends
    <3>3. QED
      BY <3>1, <3>2 DEF Ends, IsOf, MatchExtent, Match
  <2>3. Pos # 0 /\ dir[s].extno = (Pos - 1) \div Logical
    BY <2>2 DEF Ends
  <2>4. Pos % Logical = 0
    <3>1. Pos \in Nat \ {0}
      BY <1>0, <2>3
    <3>2. Pos % Logical # 0 => (Pos - 1) \div Logical = Pos \div Logical
      BY <1>0, <3>1, DivNext
    <3>3. QED
      BY <2>2, <2>3, <3>2
  <2>5. QED
    BY <1>0, <1>2, <2>2, <2>4
<1>5. QED
  BY <1>3, <1>4 DEF Extent, Firsts

\* What is left of the bytes of a call when a block is full is in the same
\* logical extent as they are, unless a new physical extent begins.
Straightly ==
  LET n == Room(Pos, wr.count)
  IN (Pos + n) % ExtCap # 0 /\ n < wr.count
       => (Pos + n) \div Logical = Pos \div Logical

\* The end of the file that cpmWrite works on, at each of its steps
LEMMA WriteEnds ==
  ASSUME TypeOK, Regular, Covering, ~MpmDates, Place, Apart(dir), WriteStep,
         NEW f \in Files, NEW s \in Slot, Ends(dir, s, f, Pos), IsOf(Own, f),
         wr.phase \in {"block", "fill"} =>
           wr.extent = s /\ wr.extno = Pos \div Logical,
         Straightly
  PROVE  \E t \in Slot :
           /\ Ends(dir', t, f, fd'[wr.h].pos)
           /\ wr'.phase \in {"block", "fill"} =>
                wr'.extent = t /\ wr'.extno = fd'[wr.h].pos \div Logical
<1>0. /\ wr.phase # "idle" /\ dir \in [Slot -> Entry] /\ wr.h \in Handles
      /\ Pos \in Nat /\ wr.count \in Nat \ {0} /\ Logical \in Nat \ {0}
      /\ Pos \div Logical \in Nat /\ Pos \div Logical < 2048
  BY WriteFrame, WriteLocals, PosWithin, Geometry DEF TypeOK
<1>1. CASE ExtentFound
  <2>1. PICK t \in Extent : UseExtent(t) /\ dir' = dir /\ fd' = fd
    BY <1>1 DEF ExtentFound
  <2>2. t = s
    BY <1>0, <2>1, LastFound
  <2>3. QED
    BY <2>1, <2>2 DEF UseExtent, Go, Pos
<1>2. CASE ExtentAdded
  <2>1. PICK t \in FreeSlots(dir) :
          /\ dir' = [dir EXCEPT ![t] = Extended(Own, Pos \div Logical)]
          /\ UseExtent(t) /\ fd' = fd
    BY <1>2 DEF ExtentAdded, Restamped, Firsts
  <2>2. t \in Slot /\ dir[t].status = Free
    BY DEF FreeSlots
  <2>3. Pos % Logical = 0 /\ dir[s].extno < Pos \div Logical
    BY <1>0, <1>2, LastFound DEF ExtentAdded
  <2> DEFINE new == Extended(Own, Pos \div Logical)
  <2>4. \A r \in Slot : dir'[r] = IF r = t THEN new ELSE dir[r]
    BY <1>0, <2>1, <2>2
  <2>5. IsOf(new, f) /\ new.extno = Pos \div Logical /\ new.blkcnt = 0
    <3>1. (Pos \div Logical) % 2048 = Pos \div Logical
      BY <1>0
    <3>2. QED
      BY <3>1 DEF IsOf, Extended
  <2> HIDE DEF new
  <2>6. SizeOf(new) = Pos
    <3>1. SizeOf(new) = (Pos \div Logical) * Logical + 0
      BY <2>5 DEF SizeOf
    <3>2. Pos = Logical * (Pos \div Logical)
      BY <1>0, <2>3, Multiple
    <3>3. (Pos \div Logical) * Logical = Logical * (Pos \div Logical)
      BY <1>0, Z3
    <3>4. QED
      BY <1>0, <3>1, <3>2, <3>3
  <2>7. ASSUME NEW r \in Slot, IsOf(dir'[r], f), r # t
        PROVE  dir'[r].extno < dir'[t].extno
    <3>1. dir'[r] = dir[r] /\ dir'[t].extno = Pos \div Logical
      BY <2>2, <2>4, <2>5, <2>7
    <3>2. dir[r].extno < dir[s].extno \/ r = s
      BY <2>7, <3>1 DEF Ends
    <3>3. dir[r].extno \in Nat /\ dir[s].extno \in Nat
      BY <1>0, ExtnoType
    <3>4. QED
      BY <1>0, <2>3, <3>1, <3>2, <3>3
  <2>8. Ends(dir', t, f, Pos)
    BY <2>2, <2>4, <2>5, <2>6, <2>7 DEF Ends
  <2>9. QED
    BY <2>1, <2>2, <2>8 DEF UseExtent, Go, Pos
<1>3. CASE ExtentDenied \/ BlockUnreadable \/ BlockDenied
  BY <1>3 DEF ExtentDenied, BlockUnreadable, BlockDenied, Finish, Returned, Pos
<1>4. CASE BlockFound
  <2>1. /\ wr.phase = "block" /\ dir' = dir /\ fd' = fd
        /\ wr'.extent = wr.extent /\ wr'.extno = wr.extno
    BY <1>4 DEF BlockFound, UseBlock, Go
  <2>2. QED
    BY <2>1 DEF Pos
<1>5. CASE BlockAllocated
  <2>1. PICK b \in Block :
          dir' = [dir EXCEPT ![wr.extent].ptr[PtrAt(Pos)] = b]
    BY <1>5 DEF BlockAllocated, Restamped, Firsts
  <2>2. /\ wr.phase = "block" /\ fd' = fd /\ wr.extent = s
        /\ wr'.extent = wr.extent /\ wr'.extno = wr.extno
    BY <1>5 DEF BlockAllocated, UseBlock, Go
  <2>3. Kept(dir, dir', f)
    <3> DEFINE i == PtrAt(Pos)
               new == [dir[s] EXCEPT !.ptr[i] = b]
    <3>1. dir[s] \in Entry
      BY <1>0
    <3>2. new.status = dir[s].status /\ new.name = dir[s].name
      BY <3>1 DEF Entry
    <3>3. /\ new.extno = dir[s].extno /\ new.blkcnt = dir[s].blkcnt
          /\ new.lrc = dir[s].lrc
      BY <3>1 DEF Entry
    <3>4. dir' = [dir EXCEPT ![s] = new]
      BY <2>1, <2>2
    <3> HIDE DEF new
    <3>5. \A t \in Slot : dir'[t] = IF t = s THEN new ELSE dir[t]
      BY <1>0, <3>4
    <3>6. QED
      BY <3>2, <3>3, <3>5 DEF Kept, IsOf, SameSize
  <2>4. Ends(dir', s, f, Pos)
    BY <2>3, EndsKept
  <2>5. QED
    BY <2>2, <2>4 DEF Pos
<1>6. CASE Filled
  <2> DEFINE n == Room(Pos, wr.count)
             x == Pos \div Logical
             new == Recorded(dir[s], x, Pos + n)
  <2>1. PICK last \in PtrIx :
          /\ dir' = [dir EXCEPT ![wr.extent] =
                       Recorded(@, wr.extno + (last * BlkSiz) \div ExtCap,
                                Pos + n)]
          /\ fd' = [fd EXCEPT ![wr.h].pos = Pos + n,
                     ![wr.h].size = IF @ < Pos + n THEN Pos + n ELSE @]
          /\ \/ Finish("all")
             \/ /\ n < wr.count
                /\ Go(IF (Pos + n) % ExtCap = 0 THEN "extent" ELSE "block",
                      wr.h, wr.count - n, wr.extent,
                      wr.extno + (last * BlkSiz) \div ExtCap)
    BY <1>6 DEF Filled, Restamped, Last
  <2>2. wr.phase = "fill" /\ wr.extent = s /\ wr.extno = x
    BY <1>6 DEF Filled
  <2>3. wr.extno + (last * BlkSiz) \div ExtCap = x
    BY <1>0, <2>2, LastWithin
  <2>4. n \in Nat \ {0} /\ (Pos % BlkSiz) + n <= BlkSiz
    <3>1. n \in 1 .. wr.count /\ (Pos % BlkSiz) + n <= BlkSiz
      BY <1>0, RoomType
    <3> HIDE DEF n
    <3>2. QED
      BY <1>0, <3>1
  <2>5. x = ((Pos + n) - 1) \div Logical
    <3> DEFINE p == Pos
    <3>1. p \in Nat
      BY <1>0
    <3> HIDE DEF n, p
    <3>2. (p + n - 1) \div Logical = p \div Logical
      BY <2>4, <3>1, RoundWithin DEF p
    <3>3. p + n - 1 = (p + n) - 1
      BY <2>4, <3>1
    <3>4. QED
      BY <3>2, <3>3 DEF p
  <2>6. dir' = [dir EXCEPT ![s] = new] /\ fd'[wr.h].pos = Pos + n
    <3>1. dir' = [dir EXCEPT ![s] = new]
      BY <2>1, <2>2, <2>3
    <3>2. fd'[wr.h].pos = Pos + n
      BY <1>0, <2>1 DEF TypeOK, Inode
    <3>3. QED
      BY <3>1, <3>2
  <2>7. Pos + n \in Nat \ {0}
    BY <1>0, <2>4
  <2>8. /\ SizeOf(new) = Pos + n /\ new.extno = x
        /\ IsOf(new, f)
    <3>1. SizeOf(new) = Pos + n
      <4> DEFINE pos == Pos + n
      <4>1. pos \in Nat \ {0} /\ x = (pos - 1) \div Logical /\ x < 2048
        BY <1>0, <2>5, <2>7
      <4> HIDE DEF x, pos
      <4>2. SizeOf(Recorded(dir[s], x, pos)) = pos
        BY <4>1, RecordedSize
      <4>3. QED
        BY <4>2 DEF pos
    <3>2. x % 2048 = x
      BY <1>0
    <3>3. QED
      BY <3>1, <3>2 DEF Recorded, IsOf, Ends
  <2> HIDE DEF n, new
  <2>9. \A t \in Slot : dir'[t] = IF t = s THEN new ELSE dir[t]
    BY <1>0, <2>6
  <2>10. ASSUME NEW t \in Slot, IsOf(dir'[t], f), t # s
         PROVE  dir'[t].extno < dir'[s].extno
    <3>1. dir'[t] = dir[t] /\ dir'[s].extno = x
      BY <2>8, <2>9, <2>10
    <3>2. dir[t].extno < dir[s].extno
      BY <2>10, <3>1 DEF Ends
    <3>3. dir[t].extno \in Nat /\ dir[s].extno \in Nat
      BY <1>0, ExtnoType
    <3>4. dir[s].extno <= x
      BY <1>0, LastNotBeyond
    <3>5. QED
      BY <1>0, <3>1, <3>2, <3>3, <3>4
  <2>11. Ends(dir', s, f, Pos + n)
    <3>1. /\ IsOf(dir'[s], f) /\ SizeOf(dir'[s]) = Pos + n
          /\ dir'[s].extno = x /\ Pos + n # 0
      BY <2>7, <2>8, <2>9
    <3>2. QED
      BY <2>5, <2>10, <3>1, Zenon DEF Ends
  <2>12. wr'.phase \in {"block", "fill"} =>
           wr'.extent = s /\ wr'.extno = (Pos + n) \div Logical
    <3>1. CASE Finish("all")
      BY <3>1 DEF Finish, Returned
    <3>2. CASE /\ n < wr.count
               /\ Go(IF (Pos + n) % ExtCap = 0 THEN "extent" ELSE "block",
                     wr.h, wr.count - n, wr.extent,
                     wr.extno + (last * BlkSiz) \div ExtCap)
      <4>1. /\ wr'.phase = IF (Pos + n) % ExtCap = 0 THEN "extent" ELSE "block"
            /\ wr'.extent = s /\ wr'.extno = x
        BY <2>2, <2>3, <3>2 DEF Go
      <4>2. (Pos + n) % ExtCap # 0 => (Pos + n) \div Logical = x
        BY <3>2 DEF Straightly, n
      <4>3. QED
        BY <4>1, <4>2
    <3>3. QED
      BY <2>1, <3>1, <3>2
  <2>13. QED
    BY <2>6, <2>11, <2>12
<1>7. QED
  BY <1>1, <1>2, <1>3, <1>4, <1>5, <1>6 DEF WriteStep

\* The other files
LEMMA WriteKeepsOthers ==
  ASSUME TypeOK, Regular, ~MpmDates, Place, WriteStep, NEW f \in Files,
         NEW g \in Files, f # g, IsOf(Own, f),
         wr.phase \in {"block", "fill"} => IsOf(dir[wr.extent], f)
  PROVE  Kept(dir, dir', g)
<1>0. wr.phase # "idle" /\ dir \in [Slot -> Entry]
  BY WriteFrame DEF TypeOK
<1>1. \A e : ~(IsOf(e, f) /\ IsOf(e, g))
  BY DEF IsOf, Files
<1>2. ASSUME NEW s \in Slot, NEW new,
             \A t \in Slot : dir'[t] = IF t = s THEN new ELSE dir[t],
             ~IsOf(dir[s], g), ~IsOf(new, g)
      PROVE  Kept(dir, dir', g)
  BY <1>2 DEF Kept, SameSize
<1>3. CASE ExtentAdded
  <2>1. PICK s \in FreeSlots(dir) :
          dir' = [dir EXCEPT ![s] = Extended(Own, Pos \div Logical)]
    BY <1>3 DEF ExtentAdded, Restamped, Firsts
  <2> DEFINE new == Extended(Own, Pos \div Logical)
  <2>2. s \in Slot /\ ~IsOf(dir[s], g)
    BY FileOf DEF FreeSlots
  <2>3. ~IsOf(new, g)
    BY <1>1 DEF IsOf, Extended
  <2>4. dir' = [dir EXCEPT ![s] = new]
    BY <2>1
  <2> HIDE DEF new
  <2>5. \A t \in Slot : dir'[t] = IF t = s THEN new ELSE dir[t]
    BY <1>0, <2>2, <2>4
  <2>6. QED
    BY <1>2, <2>2, <2>3, <2>5
<1>4. ASSUME wr.phase \in {"block", "fill"}, NEW new,
             dir' = [dir EXCEPT ![wr.extent] = new], IsOf(new, f)
      PROVE  Kept(dir, dir', g)
  <2>1. wr.extent \in Slot /\ ~IsOf(dir[wr.extent], g) /\ ~IsOf(new, g)
    BY <1>0, <1>1, <1>4, WriteLocals
  <2>2. \A t \in Slot : dir'[t] = IF t = wr.extent THEN new ELSE dir[t]
    BY <1>0, <1>4, <2>1
  <2>3. QED
    BY <1>2, <2>1, <2>2
<1>5. CASE BlockAllocated
  <2>1. PICK b \in Block : dir' = [dir EXCEPT ![wr.extent].ptr[PtrAt(Pos)] = b]
    BY <1>5 DEF BlockAllocated, Restamped, Firsts
  <2> DEFINE i == PtrAt(Pos)
             new == [dir[wr.extent] EXCEPT !.ptr[i] = b]
  <2>2. /\ wr.phase = "block" /\ dir[wr.extent] \in Entry
        /\ PtrAt(Pos) \in PtrIx /\ b \in Nat
    BY <1>0, <1>5, WriteLocals, PtrAtType DEF BlockAllocated, Block
  <2>3. new.status = dir[wr.extent].status /\ new.name = dir[wr.extent].name
    BY <2>2, PtrSetFields
  <2>4. dir' = [dir EXCEPT ![wr.extent] = new]
    BY <2>1
  <2> HIDE DEF new
  <2>5. IsOf(new, f)
    BY <2>2, <2>3 DEF IsOf
  <2>6. QED
    BY <1>4, <2>2, <2>4, <2>5
<1>6. CASE Filled
  <2>1. PICK last \in PtrIx :
          dir' = [dir EXCEPT ![wr.extent] =
                    Recorded(@, wr.extno + (last * BlkSiz) \div ExtCap,
                             Pos + Room(Pos, wr.count))]
    BY <1>6 DEF Filled, Restamped, Last
  <2> DEFINE new == Recorded(dir[wr.extent],
                             wr.extno + (last * BlkSiz) \div ExtCap,
                             Pos + Room(Pos, wr.count))
  <2>2. wr.phase = "fill" /\ dir' = [dir EXCEPT ![wr.extent] = new]
    BY <1>6, <2>1 DEF Filled
  <2>3. IsOf(new, f)
    BY <2>2 DEF IsOf, Recorded
  <2> HIDE DEF new
  <2>4. QED
    BY <1>4, <2>2, <2>3
<1>7. CASE dir' = dir
  BY <1>7, KeptSame
<1>8. QED
  BY <1>3, <1>5, <1>6, <1>7
     DEF WriteStep, ExtentFound, ExtentDenied, BlockFound, BlockUnreadable,
         BlockDenied

\* What a step of cpmWrite leaves to write
LEMMA WriteProgress ==
  ASSUME TypeOK, WriteStep
  PROVE  \/ /\ fd'[wr.h].pos = Pos
            /\ \/ wr'.phase = "idle" /\ wr'.got = "less"
               \/ wr'.phase # "idle" /\ wr'.count = wr.count
         \/ \E n \in 1 .. wr.count :
              /\ fd'[wr.h].pos = Pos + n
              /\ \/ n = wr.count /\ wr'.phase = "idle"
                 \/ /\ n < wr.count /\ wr'.phase # "idle"
                    /\ wr'.count = wr.count - n
<1>0. /\ wr.phase # "idle" /\ wr.h \in Handles /\ Pos \in Nat
      /\ wr.count \in Nat \ {0}
  BY WriteFrame, WriteLocals
<1>1. CASE ExtentFound \/ ExtentAdded
  <2>1. fd' = fd /\ \E s : UseExtent(s)
    BY <1>1 DEF ExtentFound, ExtentAdded
  <2>2. QED
    BY <2>1 DEF UseExtent, Go, Pos
<1>2. CASE ExtentDenied \/ BlockUnreadable \/ BlockDenied
  BY <1>2 DEF ExtentDenied, BlockUnreadable, BlockDenied, Finish, Returned, Pos
<1>3. CASE BlockFound \/ BlockAllocated
  BY <1>3 DEF BlockFound, BlockAllocated, UseBlock, Go, Pos
<1>4. CASE Filled
  <2> DEFINE n == Room(Pos, wr.count)
  <2>1. PICK extno :
          /\ fd' = [fd EXCEPT ![wr.h].pos = Pos + n,
                     ![wr.h].size = IF @ < Pos + n THEN Pos + n ELSE @]
          /\ \/ n = wr.count /\ Finish("all")
             \/ /\ n < wr.count
                /\ Go(IF (Pos + n) % ExtCap = 0 THEN "extent" ELSE "block",
                      wr.h, wr.count - n, wr.extent, extno)
    BY <1>4 DEF Filled
  <2>2. n \in 1 .. wr.count
    BY <1>0, RoomType
  <2>3. fd'[wr.h].pos = Pos + n
    BY <1>0, <2>1 DEF TypeOK, Inode
  <2> HIDE DEF n
  <2>4. \/ n = wr.count /\ wr'.phase = "idle"
        \/ n < wr.count /\ wr'.phase # "idle" /\ wr'.count = wr.count - n
    BY <2>1 DEF Finish, Returned, Go
  <2>5. QED
    BY <2>2, <2>3, <2>4
<1>5. QED
  BY <1>1, <1>2, <1>3, <1>4 DEF WriteStep

\* A chunk is in one logical extent, or the physical extents are the logical
\* ones.
LEMMA ChunkStraight ==
  ASSUME TypeOK, Covering, Straight, wr.phase # "idle",
         Extents # 1 => (Pos % Chunk) + wr.count <= Chunk
  PROVE  Straightly
<1> DEFINE n == Room(Pos, wr.count)
           p == Pos
<1>0. /\ p \in Nat /\ wr.count \in Nat \ {0} /\ Logical \in Nat \ {0}
      /\ Chunk \in Nat \ {0}
  BY WriteLocals, Geometry, Tools
<1>1. n \in Nat \ {0} /\ n <= wr.count /\ (p % BlkSiz) + n <= BlkSiz
  <2>1. n \in 1 .. wr.count /\ (p % BlkSiz) + n <= BlkSiz
    BY <1>0, RoomType
  <2> HIDE DEF n, p
  <2>2. QED
    BY <1>0, <2>1
<1>2. Extents # 1 => (p % Chunk) + wr.count <= Chunk
  OBVIOUS
<1> SUFFICES ASSUME (p + n) % ExtCap # 0, n < wr.count
             PROVE  (p + n) \div Logical = p \div Logical
  BY DEF Straightly
<1> HIDE DEF n, p
<1>3. CASE Extents = 1
  <2>1. ExtCap = Logical
    BY <1>0, <1>3, Extension
  <2>2. (p + n - 1) \div Logical = p \div Logical
    BY <1>0, <1>1, RoundWithin
  <2>3. p + n \in Nat \ {0} /\ p + n - 1 = (p + n) - 1
    BY <1>0, <1>1
  <2>4. (p + n) % Logical # 0
           => ((p + n) - 1) \div Logical = (p + n) \div Logical
    BY <1>0, <2>3, DivNext
  <2>5. QED
    BY <2>1, <2>2, <2>3, <2>4
<1>4. CASE Extents # 1
  <2>1. Logical % Chunk = 0
    BY <1>4 DEF Straight
  <2>2. p % Chunk \in Nat
    BY <1>0, DivParts
  <2>3. (p % Chunk) + n < Chunk
    BY <1>0, <1>1, <1>2, <1>4, <2>2
  <2>4. (p + n) \div Chunk = p \div Chunk
    BY <1>0, <1>1, <2>3, DivSame
  <2> DEFINE m == Logical \div Chunk
  <2>5. Logical = Chunk * m /\ m \in Nat
    BY <1>0, <2>1, Multiple
  <2> HIDE DEF m
  <2>6. m \in Nat \ {0}
    BY <1>0, <2>5, Z3
  <2>7. (p + n) \div (Chunk * m) = ((p + n) \div Chunk) \div m
    <3> DEFINE q == p + n
    <3>1. q \in Nat
      BY <1>0, <1>1
    <3> HIDE DEF q
    <3>2. q \div (Chunk * m) = (q \div Chunk) \div m
      BY <1>0, <2>6, <3>1, DivDiv
    <3>3. QED
      BY <3>2 DEF q
  <2>8. p \div (Chunk * m) = (p \div Chunk) \div m
    BY <1>0, <2>6, DivDiv
  <2>9. QED
    BY <2>4, <2>5, <2>7, <2>8
<1>5. QED
  BY <1>3, <1>4

-----------------------------------------------------------------------------
(* The chunks of cpmcp                                                     *)

\* Where extents are several logical ones, a chunk ends before the next begins:
\* cpmcp reads whole chunks until the end of the host file.
Chunks ==
  Extents # 1 =>
    /\ ~tool.text
    /\ tool.step = "open" => fd[ino].pos = 0
    /\ tool.step = "chunk" => fd[ino].pos % Chunk = 0
    /\ tool.step = "write" /\ wr.phase # "idle" =>
         /\ (fd[ino].pos % Chunk) + wr.count <= Chunk
         /\ ~tool.eof => (fd[ino].pos + wr.count) % Chunk = 0
    /\ tool.step = "write" /\ wr.phase = "idle" /\ wr.got = "all" /\ ~tool.eof
         => fd[ino].pos % Chunk = 0

\* tool's text and eof after each kind of step
LEMMA TextKept ==
  ASSUME ToolsTypeOK
  PROVE  /\ \A a : [tool EXCEPT !.step = a].text = tool.text
         /\ \A a, b : [tool EXCEPT !.step = a, !.file = b].text = tool.text
         /\ \A a, b : /\ [tool EXCEPT !.step = a, !.eof = b].text = tool.text
                      /\ b \in BOOLEAN => [tool EXCEPT !.step = a, !.eof = b].eof = b
         /\ \A a : [tool EXCEPT !.sec = a].text = tool.text
         /\ NextArg => tool'.text = tool.text
  BY DEF ToolsTypeOK, Tool, NextArg

LEMMA ChunkInMode ==
  ASSUME NEW eof \in BOOLEAN, NEW n \in ChunkSizes(FALSE, eof)
  PROVE  n \in 0 .. Chunk /\ (~eof => n = Chunk)
<1>1. CASE eof
  <2>1. n \in 0 .. Chunk - 1
    BY <1>1, Zenon DEF ChunkSizes
  <2>2. QED
    BY <1>1, <2>1, Tools
<1>2. CASE ~eof
  <2>1. n = Chunk
    BY <1>2, Zenon DEF ChunkSizes
  <2>2. QED
    BY <1>2, <2>1, Tools
<1>3. QED
  BY <1>1, <1>2

LEMMA ChunksStep ==
  ASSUME TypeOK, Course, Straight, Chunks, [ToolsNext]_toolvars
  PROVE  Chunks'
<1> SUFFICES ASSUME Extents # 1
             PROVE  Chunks'
  BY DEF Chunks
<1>0. /\ ToolsTypeOK /\ ino \in Handles /\ ~tool.text /\ TextModes \subseteq {FALSE}
      /\ Chunk \in Nat \ {0} /\ fd[ino].pos \in Nat /\ ino' = ino
      /\ \A prog, step, args, file, sec :
           IsTool(tool', prog, step, args, file, sec) => tool'.step = step
  <2>1. ino \in Handles
    BY InoType
  <2>2. fd[ino].pos \in Nat
    BY <2>1 DEF TypeOK, Inode
  <2>3. QED
    BY <2>1, <2>2, Tools DEF Course, Chunks, Straight, IsTool, ino
<1>1. ASSUME ~tool'.text, tool'.step \notin {"open", "chunk", "write"}
      PROVE  Chunks'
  BY <1>1 DEF Chunks
<1>2. ASSUME NextArg, tool.args > 0 PROVE Chunks'
  BY <1>0, <1>1, <1>2, Updates, TextKept
<1>3. ASSUME NEW f \in Files, CopyCreat(f) PROVE Chunks'
  <2>1. tool'.step = "open" /\ ~tool'.text
    BY <1>0, <1>3, Updates, TextKept, ZenonT(30) DEF CopyCreat, Places
  <2>2. \E s, x : Created(ino, s, x)
    <3>1. \E u, n : CreatPlain(ino, u, n) \/ CreatWithXfcb(ino, u, n)
      BY <1>3 DEF CopyCreat
    <3>2. QED
      BY <3>1, ZenonT(30) DEF CreatPlain, CreatWithXfcb
  <2>3. fd'[ino].pos = 0
    BY <1>0, <2>2 DEF Created, InodeOf, TypeOK
  <2>4. QED
    BY <1>0, <2>1, <2>3 DEF Chunks
<1>4. ASSUME NEW f \in Files, CopyCreatHalf(f) \/ Remove(f) PROVE Chunks'
  BY <1>2, <1>4 DEF CopyCreatHalf, Remove, Arg
<1>5. ASSUME NEW f \in Files, LookUp(f) PROVE Chunks'
  <2>1. tool' = [tool EXCEPT !.step = "attr", !.file = f]
    BY <1>5 DEF LookUp
  <2>2. tool'.text = tool.text
    BY <1>0, <2>1, TextKept
  <2>3. tool'.step = "attr"
    BY <1>0, <2>1, Updates DEF Places
  <2>4. QED
    BY <1>0, <1>1, <2>2, <2>3
<1>6. ASSUME CopyOpen PROVE Chunks'
  <2>1. tool'.step = "chunk" /\ ~tool'.text
    BY <1>0, <1>6, Updates, TextKept DEF CopyOpen, Places
  <2>2. fd'[ino].pos = 0
    <3>1. fd' = [fd EXCEPT ![ino].file = "open", ![ino].pos = 0]
      BY <1>6 DEF CopyOpen, Open
    <3>2. QED
      BY <1>0, <3>1 DEF TypeOK, Inode
  <2>3. 0 % Chunk = 0
    BY <1>0, Z3
  <2>4. QED
    BY <1>0, <2>1, <2>2, <2>3 DEF Chunks
<1>7. ASSUME CopyChunk PROVE Chunks'
  <2>0. tool.step = "chunk" /\ wr.phase = "idle" /\ fd[ino].pos % Chunk = 0
    BY <1>7 DEF CopyChunk, At, Quiet, Chunks
  <2>1. PICK eof \in BOOLEAN :
          /\ tool' = [tool EXCEPT !.step = "write", !.eof = eof]
          /\ \E n \in ChunkSizes(FALSE, eof) :
               \/ n > 0 /\ WriteBegin(ino, n)
               \/ /\ n = 0 /\ wr' = [wr EXCEPT !.got = "all"]
                  /\ UNCHANGED <<dir, alv, dirty, disk, fd>>
    <3>1. tool.text = FALSE
      BY <1>0 DEF ToolsTypeOK, Tool
    <3>2. QED
      BY <1>7, <3>1 DEF CopyChunk
  <2>2. PICK n \in ChunkSizes(FALSE, eof) :
          \/ n > 0 /\ WriteBegin(ino, n)
          \/ /\ n = 0 /\ wr' = [wr EXCEPT !.got = "all"]
             /\ UNCHANGED <<dir, alv, dirty, disk, fd>>
    BY <2>1
  <2>3. n \in 0 .. Chunk /\ (~eof => n = Chunk)
    BY ChunkInMode
  <2>4. tool'.step = "write" /\ ~tool'.text /\ tool'.eof = eof
    BY <1>0, <2>1, Updates, TextKept, ZenonT(30) DEF Places
  <2>5. fd' = fd
    BY <2>2 DEF WriteBegin
  <2>6. CASE n > 0 /\ WriteBegin(ino, n)
    <3>1. wr'.phase = "extent" /\ wr'.count = n
      BY <2>6 DEF WriteBegin, Go
    <3>2. (fd[ino].pos + Chunk) % Chunk = 0
      BY <1>0, <2>0, OneMore
    <3>3. (fd[ino].pos % Chunk) + n <= Chunk
      BY <1>0, <2>0, <2>3
    <3>4. ~eof => (fd[ino].pos + n) % Chunk = 0
      BY <2>3, <3>2
    <3>5. QED
      BY <1>0, <2>4, <2>5, <3>1, <3>3, <3>4 DEF Chunks
  <2>7. CASE n = 0 /\ wr' = [wr EXCEPT !.got = "all"]
    <3>1. wr'.phase = "idle"
      BY <2>0, <2>7 DEF TypeOK, WriteCall
    <3>2. eof
      BY <1>0, <2>3, <2>7
    <3>3. QED
      BY <1>0, <2>4, <2>5, <3>1, <3>2 DEF Chunks
  <2>8. QED
    BY <2>2, <2>6, <2>7
<1>8. ASSUME CopyWrite PROVE Chunks'
  <2>1. /\ tool.step = "write" /\ WriteStep /\ tool' = tool
        /\ wr.phase # "idle" /\ wr.h = ino
    BY <1>8, WriteFrame DEF CopyWrite, Course
  <2> DEFINE p == fd[ino].pos
             q == fd'[ino].pos
             c == wr.count
  <2>2. /\ p \in Nat /\ c \in Nat \ {0} /\ p = Pos
        /\ (p % Chunk) + c <= Chunk /\ (~tool.eof => (p + c) % Chunk = 0)
    BY <1>0, <2>1, WriteLocals DEF Chunks, Pos
  <2>3. \/ /\ q = p
           /\ \/ wr'.phase = "idle" /\ wr'.got = "less"
              \/ wr'.phase # "idle" /\ wr'.count = c
        \/ \E n \in 1 .. c :
             /\ q = p + n
             /\ \/ n = c /\ wr'.phase = "idle"
                \/ n < c /\ wr'.phase # "idle" /\ wr'.count = c - n
    BY <2>1, <2>2, WriteProgress
  <2> HIDE DEF p, q, c
  <2>4. CASE /\ q = p
             /\ \/ wr'.phase = "idle" /\ wr'.got = "less"
                \/ wr'.phase # "idle" /\ wr'.count = c
    BY <1>0, <2>1, <2>2, <2>4 DEF Chunks, q
  <2>5. ASSUME NEW n \in 1 .. c, q = p + n, n = c, wr'.phase = "idle"
        PROVE  Chunks'
    BY <1>0, <2>1, <2>2, <2>5 DEF Chunks, q
  <2>6. ASSUME NEW n \in 1 .. c, q = p + n, n < c, wr'.phase # "idle",
               wr'.count = c - n
        PROVE  Chunks'
    <3>1. n \in Nat /\ p % Chunk \in Nat
      <4>1. p % Chunk \in 0 .. Chunk - 1
        BY <1>0, <2>2, DivParts, ZenonT(30)
      <4>2. QED
        BY <2>2, <4>1
    <3>2. (p % Chunk) + n < Chunk
      BY <1>0, <2>2, <2>6, <3>1
    <3>3. (p + n) % Chunk = (p % Chunk) + n
      BY <1>0, <2>2, <3>1, <3>2, DivSame
    <3>4. (q % Chunk) + wr'.count <= Chunk
      BY <1>0, <2>2, <2>6, <3>1, <3>3
    <3>5. q + wr'.count = p + c
      BY <2>2, <2>6, <3>1
    <3>6. QED
      BY <1>0, <2>1, <2>2, <2>6, <3>4, <3>5 DEF Chunks, q
  <2>7. QED
    BY <2>3, <2>4, <2>5, <2>6
<1>9. ASSUME CopyAgain PROVE Chunks'
  <2>1. tool'.step = "chunk" /\ ~tool'.text /\ fd' = fd
    BY <1>0, <1>9, Updates, TextKept DEF CopyAgain, Places, fsvars
  <2>2. fd[ino].pos % Chunk = 0
    BY <1>9 DEF CopyAgain, At, Quiet, Chunks
  <2>3. QED
    BY <1>0, <2>1, <2>2 DEF Chunks
<1>10. ASSUME CopyDone \/ CopyFailed \/ ChangeAttr PROVE Chunks'
  BY <1>2, <1>10 DEF CopyDone, CopyFailed, ChangeAttr, At, Course
<1>11. ASSUME Leave \/ SyncLast \/ Die PROVE Chunks'
  BY <1>1, <1>11 DEF Leave, SyncLast, Die, Gone, NoTool
<1>12. ASSUME Umount PROVE Chunks'
  BY <1>0, <1>1, <1>12, Updates, TextKept DEF Umount, Places
<1>13. ASSUME SyncSector PROVE Chunks'
  <2>1. tool.step = "sync" /\ tool.sec < LastDirSec
        /\ tool' = [tool EXCEPT !.sec = tool.sec + 1]
    BY <1>13 DEF SyncSector
  <2>2. tool'.step = "sync"
    <3>1. IsTool(tool', tool.prog, tool.step, tool.args, tool.file,
                 tool.sec + 1)
      BY <1>0, <2>1, Updates
    <3>2. QED
      BY <2>1, <3>1 DEF IsTool
  <2>3. QED
    BY <1>0, <1>1, <2>1, <2>2, TextKept
<1>14. ASSUME NEW prog, NEW text \in {FALSE}, Start(prog, text) PROVE Chunks'
  <2>1. tool'.step = "args" /\ tool'.text = FALSE
    BY <1>14 DEF Start, NoTool
  <2>2. QED
    BY <1>1, <2>1
<1>15. ASSUME UNCHANGED toolvars PROVE Chunks'
  BY <1>0, <1>15 DEF toolvars, Chunks
<1>16. QED
  BY <1>0, <1>3, <1>4, <1>5, <1>6, <1>7, <1>8, <1>9, <1>10, <1>11, <1>12,
     <1>13, <1>14, <1>15
     DEF ToolsNext, ToolStep

-----------------------------------------------------------------------------
(* The sizes of copied files                                               *)

CopiesEnd ==
  \A f \in Files :
    copied[f] # None => \E s \in Slot : Ends(dir, s, f, copied[f])

\* The file that cpmcp writes ends where the handle is; cpmWrite works on its
\* last entry.
TargetEnd ==
  tool.step \in {"open", "chunk", "write"} =>
    /\ copied[tool.file] = None
    /\ tool.step = "open" => fd[ino].pos = 0
    /\ \E s \in Slot :
         /\ Ends(dir, s, tool.file, fd[ino].pos)
         /\ wr.phase \in {"block", "fill"} =>
              wr.extent = s /\ wr.extno = fd[ino].pos \div Logical

LEMMA CopiesEndNext ==
  ASSUME \A f \in Files :
           copied'[f] # None => \E s \in Slot : Ends(dir', s, f, copied'[f])
  PROVE  CopiesEnd'
  BY DEF CopiesEnd, None, Ends, IsOf, SizeOf, LastRecord

LEMMA TargetEndNext ==
  ASSUME copied'[tool'.file] = None, tool'.step = "open" => fd'[ino].pos = 0,
         \E s \in Slot :
           /\ Ends(dir', s, tool'.file, fd'[ino].pos)
           /\ wr'.phase \in {"block", "fill"} =>
                wr'.extent = s /\ wr'.extno = fd'[ino].pos \div Logical
  PROVE  TargetEnd'
<1>1. ino' = ino
  BY DEF ino
<1>2. QED
  BY <1>1 DEF TargetEnd, None, Ends, IsOf, SizeOf, LastRecord

LEMMA CopiesKeep ==
  ASSUME CopiesEnd, copied' = copied,
         \A f \in Files : copied[f] # None => Kept(dir, dir', f)
  PROVE  CopiesEnd'
<1>1. ASSUME NEW f \in Files, copied[f] # None
      PROVE  \E s \in Slot : Ends(dir', s, f, copied[f])
  <2>1. PICK s \in Slot : Ends(dir, s, f, copied[f])
    BY <1>1 DEF CopiesEnd
  <2>2. Ends(dir', s, f, copied[f])
    BY <1>1, <2>1, EndsKept
  <2>3. QED
    BY <2>2
<1>2. QED
  BY <1>1, CopiesEndNext

\* The entry of a new file, and the others
LEMMA CreatEnds ==
  ASSUME TypeOK, Regular, ~MpmDates, NEW f \in Files,
         \/ CreatPlain(ino, f[1], f[2]) \/ CreatWithXfcb(ino, f[1], f[2])
         \/ CreatHalf(ino, f[1], f[2])
  PROVE  /\ \A s \in Slot : ~IsOf(dir[s], f)
         /\ \E s \in Slot : Ends(dir', s, f, 0)
         /\ fd'[ino].pos = 0 /\ wr' = wr /\ wr.phase = "idle"
         /\ \A g \in Files : g # f => Kept(dir, dir', g)
<1>0. ino \in Handles /\ dir \in [Slot -> Entry] /\ Logical \in Nat \ {0}
  BY InoType, Geometry DEF TypeOK
<1>1. PICK u \in Users, n \in Names : u = f[1] /\ n = f[2]
  BY DEF Files
<1>2. \/ CreatPlain(ino, u, n) \/ CreatWithXfcb(ino, u, n)
      \/ CreatHalf(ino, u, n)
  BY <1>1
<1>3. /\ CreatPlain(ino, u, n) /\ Match(dir, u, n) = {} /\ wr' = wr
      /\ \E s \in Slot : /\ dir[s].status = Free
                         /\ dir' = [dir EXCEPT ![s] = NewEntry(u, n)]
                         /\ \E x : Created(ino, s, x)
  BY <1>0, <1>2, CreatEffect
<1>4. PICK s \in Slot : /\ dir[s].status = Free
                        /\ dir' = [dir EXCEPT ![s] = NewEntry(u, n)]
                        /\ \E x : Created(ino, s, x)
  BY <1>3
<1>5. \A t \in Slot : ~IsOf(dir[t], f)
  BY <1>1, <1>3, MatchEmpty, UserStatus DEF IsOf
<1> DEFINE new == NewEntry(u, n)
<1>6. \A t \in Slot : dir'[t] = IF t = s THEN new ELSE dir[t]
  BY <1>0, <1>4
<1>7. IsOf(new, f) /\ new.extno = 0 /\ new.blkcnt = 0
  BY <1>1 DEF NewEntry, IsOf
<1> HIDE DEF new
<1>8. Ends(dir', s, f, 0)
  <2>1. SizeOf(new) = 0
    BY <1>0, <1>7 DEF SizeOf
  <2>2. 0 \div Logical = 0
    BY <1>0, Z3
  <2>3. \A t \in Slot : IsOf(dir'[t], f) => t = s
    BY <1>5, <1>6
  <2>4. QED
    BY <1>6, <1>7, <2>1, <2>2, <2>3 DEF Ends
<1>9. fd'[ino].pos = 0
  BY <1>0, <1>4 DEF Created, InodeOf, TypeOK
<1>10. ASSUME NEW g \in Files, g # f
       PROVE  Kept(dir, dir', g)
  <2>1. ~IsOf(dir[s], g)
    BY <1>4, FileOf
  <2>2. ~IsOf(new, g)
    BY <1>7, <1>10 DEF IsOf, Files
  <2>3. QED
    BY <1>6, <2>1, <2>2 DEF Kept, SameSize
<1>11. wr.phase = "idle"
  BY <1>3 DEF CreatPlain, Quiet
<1>12. QED
  BY <1>3, <1>5, <1>8, <1>9, <1>10, <1>11

LEMMA UnlinkKeeps ==
  ASSUME TypeOK, Regular, NEW f \in Files, NEW g \in Files, f # g,
         Unlink(f[1], f[2])
  PROVE  Kept(dir, dir', g)
<1>0. dir \in [Slot -> Entry]
  BY DEF TypeOK
<1>1. PICK u \in Users, n \in Names : u = f[1] /\ n = f[2] /\ f = <<u, n>>
  BY DEF Files
<1>2. PICK w \in Users, m \in Names : w = g[1] /\ m = g[2] /\ g = <<w, m>>
  BY DEF Files
<1>3. PICK gone :
        /\ gone \subseteq Match(dir, u, n)
             \cup (IF HasXfcbs THEN Match(dir, u + 16, n) ELSE {})
        /\ Erased(gone)
  BY <1>1 DEF Unlink, Firsts
<1>4. ASSUME NEW s \in gone PROVE ~IsOf(dir[s], g)
  <2>1. CASE s \in Match(dir, u, n)
    BY <1>1, <1>2, <2>1 DEF Match, IsOf
  <2>2. CASE HasXfcbs /\ s \in Match(dir, u + 16, n)
    <3>1. w \in 0 .. 15 /\ u \in 0 .. 15
      BY <2>2 DEF Regular
    <3>2. dir[s].status = u + 16
      BY <2>2 DEF Match
    <3>3. QED
      BY <1>2, <3>1, <3>2 DEF IsOf
  <2>3. QED
    BY <1>3, <2>1, <2>2
<1>5. ASSUME NEW s \in Slot, s \in gone
      PROVE  /\ ~IsOf(dir[s], g) /\ ~IsOf(dir'[s], g)
  <2>1. dir'[s].status = Free
    BY <1>0, <1>3, <1>5 DEF Erased, Entry
  <2>2. QED
    BY <1>4, <1>5, <2>1, FileOf
<1>6. \A s \in Slot : s \notin gone => dir'[s] = dir[s]
  BY <1>3 DEF Erased
<1>7. QED
  BY <1>5, <1>6 DEF Kept, SameSize

LEMMA AttrSetKeeps ==
  ASSUME TypeOK, NEW h \in Handles, NEW a, AttrSet(h, a), NEW g
  PROVE  Kept(dir, dir', g)
<1>1. PICK S : dir' = [s \in Slot |-> IF s \in S THEN [dir[s] EXCEPT !.attr = a]
                                      ELSE dir[s]]
  BY DEF AttrSet
<1>2. ASSUME NEW s \in Slot
      PROVE  /\ dir'[s].status = dir[s].status /\ dir'[s].name = dir[s].name
             /\ SameSize(dir[s], dir'[s])
  <2>1. dir[s] \in Entry
    BY DEF TypeOK
  <2>2. dir'[s] = dir[s] \/ dir'[s] = [dir[s] EXCEPT !.attr = a]
    BY <1>1
  <2> DEFINE new == [dir[s] EXCEPT !.attr = a]
  <2>3. new.status = dir[s].status /\ new.name = dir[s].name
    BY <2>1 DEF Entry
  <2>4. new.extno = dir[s].extno /\ new.blkcnt = dir[s].blkcnt
        /\ new.lrc = dir[s].lrc
    BY <2>1 DEF Entry
  <2> HIDE DEF new
  <2>5. QED
    BY <2>2, <2>3, <2>4 DEF SameSize, new
<1>3. QED
  BY <1>2 DEF Kept, IsOf

\* SizeAgrees is not inductive: it says nothing of the file that is being
\* written, nor where in it the handle is.
SizeInv == SessionInv /\ Target /\ Saved /\ Chunks /\ CopiesEnd /\ TargetEnd

LEMMA TargetEndStep ==
  ASSUME Regular, ~MpmDates, Covering, Straight, SizeInv, [ToolsNext]_toolvars
  PROVE  TargetEnd'
<1>0. /\ TypeOK /\ Course /\ Place /\ ToolsTypeOK /\ ino \in Handles
      /\ ino' = ino /\ Apart(dir)
      /\ \A prog, step, args, file, sec :
           IsTool(tool', prog, step, args, file, sec)
             => tool'.step = step /\ tool'.file = file
  BY InoType DEF SizeInv, SessionInv, Owned, UniqueInv, Course, IsTool, ino
<1>1. ASSUME tool'.step \notin {"open", "chunk", "write"} PROVE TargetEnd'
  BY <1>1 DEF TargetEnd
<1>2. ASSUME NEW f \in Files, CopyCreat(f) PROVE TargetEnd'
  <2>1. tool'.step = "open" /\ tool'.file = f
    BY <1>0, <1>2, Updates, ZenonT(30) DEF CopyCreat, Places
  <2>2. /\ \A s \in Slot : ~IsOf(dir[s], f)
        /\ \E s \in Slot : Ends(dir', s, f, 0)
        /\ fd'[ino].pos = 0 /\ wr' = wr /\ wr.phase = "idle"
    BY <1>0, <1>2, CreatEnds DEF CopyCreat
  <2>3. copied'[f] = None
    <3>1. copied' = copied
      BY <1>2 DEF CopyCreat
    <3>2. copied[f] = None
      BY <2>2 DEF SizeInv, CopiesEnd, Ends
    <3>3. QED
      BY <3>1, <3>2
  <2>4. QED
    BY <2>1, <2>2, <2>3, TargetEndNext
<1>3. ASSUME tool.step \in {"open", "chunk", "write"}, tool'.file = tool.file,
             tool'.step # "open" \/ tool.step = "open",
             dir' = dir, copied' = copied, fd'[ino].pos = fd[ino].pos,
             wr'.phase \notin {"block", "fill"}
      PROVE  TargetEnd'
  <2>1. /\ copied[tool.file] = None
        /\ tool.step = "open" => fd[ino].pos = 0
        /\ \E s \in Slot : Ends(dir, s, tool.file, fd[ino].pos)
    BY <1>3 DEF SizeInv, TargetEnd
  <2>2. QED
    BY <1>3, <2>1, TargetEndNext
<1>4. ASSUME CopyOpen PROVE TargetEnd'
  <2>1. tool'.file = tool.file /\ tool'.step = "chunk" /\ tool.step = "open"
    BY <1>0, <1>4, Updates DEF CopyOpen, Places, At
  <2>2. fd'[ino].pos = 0
    <3>1. fd' = [fd EXCEPT ![ino].file = "open", ![ino].pos = 0]
      BY <1>4 DEF CopyOpen, Open
    <3>2. QED
      BY <1>0, <3>1 DEF TypeOK, Inode
  <2>3. fd[ino].pos = 0
    BY <2>1 DEF SizeInv, TargetEnd
  <2>4. QED
    BY <1>3, <1>4, <2>1, <2>2, <2>3 DEF CopyOpen, Open, At, Quiet
<1>5. ASSUME CopyChunk PROVE TargetEnd'
  <2>1. tool'.file = tool.file /\ tool'.step = "write"
    BY <1>0, <1>5, Updates, ZenonT(30) DEF CopyChunk, Places
  <2>2. /\ dir' = dir /\ fd' = fd /\ copied' = copied
        /\ tool.step = "chunk" /\ wr.phase = "idle"
    BY <1>5 DEF CopyChunk, WriteBegin, At, Quiet
  <2>3. (\E n : WriteBegin(ino, n)) \/ wr' = [wr EXCEPT !.got = "all"]
    BY <1>5 DEF CopyChunk
  <2>4. wr'.phase \notin {"block", "fill"}
    BY <1>0, <2>2, <2>3 DEF WriteBegin, Go, TypeOK, WriteCall
  <2>5. QED
    BY <1>3, <2>1, <2>2, <2>4
<1>6. ASSUME CopyAgain PROVE TargetEnd'
  <2>0. tool' = [tool EXCEPT !.step = "chunk"]
    BY <1>6 DEF CopyAgain
  <2>1. tool'.file = tool.file /\ tool'.step = "chunk"
    <3>1. /\ [tool EXCEPT !.step = "chunk"].file = tool.file
          /\ [tool EXCEPT !.step = "chunk"].step = "chunk"
      BY <1>0 DEF ToolsTypeOK, Tool
    <3>2. QED
      BY <2>0, <3>1
  <2>2. QED
    BY <1>3, <1>6, <2>1 DEF CopyAgain, At, Quiet, fsvars
<1>7. ASSUME CopyWrite PROVE TargetEnd'
  <2>1. /\ tool.step = "write" /\ WriteStep /\ tool' = tool /\ copied' = copied
        /\ wr.phase # "idle" /\ wr.h = ino /\ tool.file \in Files
    BY <1>0, <1>7, WriteFrame DEF CopyWrite, Course
  <2>2. Pos = fd[ino].pos
    BY <2>1 DEF Pos
  <2>3. copied[tool.file] = None
    BY <2>1 DEF SizeInv, TargetEnd
  <2>4. PICK s \in Slot :
          /\ Ends(dir, s, tool.file, Pos)
          /\ wr.phase \in {"block", "fill"} =>
               wr.extent = s /\ wr.extno = Pos \div Logical
    BY <2>1, <2>2 DEF SizeInv, TargetEnd
  <2>5. IsOf(Own, tool.file)
    BY <2>1 DEF SizeInv, Target, Own
  <2>6. Straightly
    <3>1. Extents # 1 => (Pos % Chunk) + wr.count <= Chunk
      BY <2>1, <2>2 DEF SizeInv, Chunks
    <3>2. QED
      BY <1>0, <2>1, <3>1, ChunkStraight
  <2>7. \E t \in Slot :
          /\ Ends(dir', t, tool.file, fd'[wr.h].pos)
          /\ wr'.phase \in {"block", "fill"} =>
               wr'.extent = t /\ wr'.extno = fd'[wr.h].pos \div Logical
    BY <1>0, <2>1, <2>4, <2>5, <2>6, WriteEnds
  <2>8. QED
    BY <2>1, <2>3, <2>7, TargetEndNext
<1>8. ASSUME UNCHANGED toolvars PROVE TargetEnd'
  <2>1. CASE tool.step \in {"open", "chunk", "write"}
    <3>1. /\ copied[tool.file] = None
          /\ tool.step = "open" => fd[ino].pos = 0
          /\ \E s \in Slot :
               /\ Ends(dir, s, tool.file, fd[ino].pos)
               /\ wr.phase \in {"block", "fill"} =>
                    wr.extent = s /\ wr.extno = fd[ino].pos \div Logical
      BY <2>1 DEF SizeInv, TargetEnd
    <3>2. QED
      BY <1>8, <3>1, TargetEndNext DEF toolvars
  <2>2. CASE tool.step \notin {"open", "chunk", "write"}
    BY <1>1, <1>8, <2>2 DEF toolvars
  <2>3. QED
    BY <2>1, <2>2
<1>9. ASSUME \E prog, text : Start(prog, text)
      PROVE  TargetEnd'
  BY <1>1, <1>9 DEF Start, NoTool
<1>10. ASSUME NextArg, tool.args > 0
       PROVE  TargetEnd'
  <2>1. tool'.step = "args"
    BY <1>0, <1>10, Updates
  <2>2. QED
    BY <1>1, <2>1
<1>11. ASSUME NEW f \in Files, CopyCreatHalf(f) \/ Remove(f)
       PROVE  TargetEnd'
  BY <1>10, <1>11 DEF CopyCreatHalf, Remove, Arg
<1>12. ASSUME NEW f \in Files, LookUp(f)
       PROVE  TargetEnd'
  BY <1>0, <1>1, <1>12, Updates, ZenonT(30) DEF LookUp, Places
<1>13. ASSUME CopyDone \/ CopyFailed \/ ChangeAttr
       PROVE  TargetEnd'
  BY <1>0, <1>10, <1>13 DEF CopyDone, CopyFailed, ChangeAttr, At, Course
<1>14. ASSUME Leave \/ SyncLast \/ Die
       PROVE  TargetEnd'
  BY <1>1, <1>14 DEF Leave, SyncLast, Die, Gone, NoTool
<1>15. ASSUME Umount
       PROVE  TargetEnd'
  BY <1>0, <1>1, <1>15, Updates, ZenonT(30) DEF Umount, Places
<1>16. ASSUME SyncSector
       PROVE  TargetEnd'
  <2>1. tool.step = "sync" /\ tool.sec < LastDirSec
        /\ tool' = [tool EXCEPT !.sec = tool.sec + 1]
    BY <1>16 DEF SyncSector
  <2>2. tool'.step = "sync"
    <3>1. IsTool(tool', tool.prog, tool.step, tool.args, tool.file,
                 tool.sec + 1)
      BY <1>0, <2>1, Updates
    <3>2. QED
      BY <2>1, <3>1 DEF IsTool
  <2>3. QED
    BY <1>1, <2>2
<1>17. QED
  BY <1>2, <1>4, <1>5, <1>6, <1>7, <1>8, <1>9, <1>11, <1>12, <1>13, <1>14,
     <1>15, <1>16
     DEF ToolsNext, ToolStep

LEMMA CopiesEndStep ==
  ASSUME Regular, ~MpmDates, SizeInv, [ToolsNext]_toolvars
  PROVE  CopiesEnd'
<1>0. /\ TypeOK /\ Course /\ Place /\ ToolsTypeOK /\ ino \in Handles
      /\ dir \in [Slot -> Entry] /\ CopiesEnd /\ Target /\ Saved
  BY InoType DEF SizeInv, SessionInv, Owned, UniqueInv, Course, TypeOK
<1>1. ASSUME dir' = dir, copied' = copied PROVE CopiesEnd'
  BY <1>0, <1>1, KeptSame, CopiesKeep
<1>2. ASSUME NEW prog, NEW text, Start(prog, text) PROVE CopiesEnd'
  BY <1>1, <1>2 DEF Start, fsvars
<1>3. ASSUME NEW f \in Files, CopyCreat(f) \/ CopyCreatHalf(f)
      PROVE  CopiesEnd'
  <2>1. /\ \/ CreatPlain(ino, f[1], f[2]) \/ CreatWithXfcb(ino, f[1], f[2])
           \/ CreatHalf(ino, f[1], f[2])
        /\ copied' = copied
    BY <1>3 DEF CopyCreat, CopyCreatHalf
  <2>2. /\ \A s \in Slot : ~IsOf(dir[s], f)
        /\ \A g \in Files : g # f => Kept(dir, dir', g)
    BY <1>0, <2>1, CreatEnds
  <2>3. copied[f] = None
    BY <1>0, <2>2 DEF CopiesEnd, Ends
  <2>4. QED
    BY <1>0, <2>1, <2>2, <2>3, CopiesKeep
<1>4. ASSUME NEW f \in Files, Remove(f) PROVE CopiesEnd'
  <2>1. Unlink(f[1], f[2]) /\ copied' = [copied EXCEPT ![f] = None]
    BY <1>4 DEF Remove
  <2>2. ASSUME NEW g \in Files, copied'[g] # None
        PROVE  \E s \in Slot : Ends(dir', s, g, copied'[g])
    <3>1. g # f /\ copied'[g] = copied[g]
      BY <1>0, <2>1, <2>2 DEF ToolsTypeOK
    <3>2. PICK s \in Slot : Ends(dir, s, g, copied[g])
      BY <1>0, <2>2, <3>1 DEF CopiesEnd
    <3>3. Kept(dir, dir', g)
      BY <1>0, <2>1, <3>1, UnlinkKeeps
    <3>4. QED
      BY <3>1, <3>2, <3>3, EndsKept
  <2>3. QED
    BY <2>2, CopiesEndNext
<1>5. ASSUME NEW f \in Files, LookUp(f) PROVE CopiesEnd'
  BY <1>1, <1>5 DEF LookUp, Namei
<1>6. CASE CopyOpen
  BY <1>1, <1>6 DEF CopyOpen, Open
<1>7. CASE CopyChunk
  BY <1>1, <1>7 DEF CopyChunk, WriteBegin
<1>8. CASE CopyWrite
  <2>1. /\ WriteStep /\ copied' = copied /\ tool.step = "write"
        /\ wr.h = ino /\ tool.file \in Files
    BY <1>0, <1>8, WriteFrame DEF CopyWrite, Course
  <2>2. IsOf(Own, tool.file)
        /\ (wr.phase \in {"block", "fill"} => IsOf(dir[wr.extent], tool.file))
    BY <1>0, <2>1 DEF Target, Own
  <2>3. copied[tool.file] = None
    BY <2>1 DEF SizeInv, TargetEnd
  <2>4. \A g \in Files : g # tool.file => Kept(dir, dir', g)
    BY <1>0, <2>1, <2>2, WriteKeepsOthers
  <2>5. QED
    BY <1>0, <2>1, <2>3, <2>4, CopiesKeep
<1>9. CASE CopyAgain \/ CopyFailed \/ Umount
  BY <1>1, <1>9 DEF CopyAgain, CopyFailed, Umount, fsvars
<1>10. CASE CopyDone
  <2>1. /\ dir' = dir /\ tool.step = "write"
        /\ copied' = [copied EXCEPT ![tool.file] = fd[ino].pos]
    BY <1>10 DEF CopyDone, Utime, Restamped, fsvars, At
  <2>2. PICK s \in Slot : Ends(dir, s, tool.file, fd[ino].pos)
    BY <2>1 DEF SizeInv, TargetEnd
  <2>3. ASSUME NEW g \in Files, copied'[g] # None
        PROVE  \E t \in Slot : Ends(dir', t, g, copied'[g])
    <3>1. CASE g = tool.file
      <4>1. copied'[g] = fd[ino].pos
        BY <1>0, <2>1, <3>1 DEF ToolsTypeOK
      <4>2. QED
        BY <2>1, <2>2, <3>1, <4>1
    <3>2. CASE g # tool.file
      <4>1. copied'[g] = copied[g]
        BY <1>0, <2>1, <3>2 DEF ToolsTypeOK
      <4>2. QED
        BY <1>0, <2>1, <2>3, <4>1 DEF CopiesEnd
    <3>3. QED
      BY <3>1, <3>2
  <2>4. QED
    BY <2>3, CopiesEndNext
<1>11. CASE ChangeAttr
  <2>1. PICK a : AttrSet(ino, a)
    BY <1>11 DEF ChangeAttr, Chmod
  <2>2. copied' = copied
    BY <1>11 DEF ChangeAttr
  <2>3. QED
    BY <1>0, <2>1, <2>2, AttrSetKeeps, CopiesKeep
<1>12. CASE SyncSector
  BY <1>1, <1>12 DEF SyncSector
<1>13. CASE Leave
  BY <1>0, <1>1, <1>13 DEF Leave, Gone, Mount, Saved
<1>14. CASE SyncLast
  <2>1. disk' = Synced /\ dir' = disk' /\ copied' = copied
        /\ tool.step = "sync" /\ tool.sec = LastDirSec
    BY <1>14 DEF SyncLast, Gone, Mount
  <2>2. dir' = dir
    BY <1>0, <2>1, SyncWrites
  <2>3. QED
    BY <1>1, <2>1, <2>2
<1>15. CASE Die
  BY <1>15 DEF Die, Gone, CopiesEnd
<1>16. CASE UNCHANGED toolvars
  BY <1>1, <1>16 DEF toolvars
<1>17. QED
  BY <1>2, <1>3, <1>4, <1>5, <1>6, <1>7, <1>8, <1>9, <1>10, <1>11, <1>12,
     <1>13, <1>14, <1>15, <1>16
     DEF ToolsNext, ToolStep

LEMMA SizeInit ==
  ASSUME ToolsInit
  PROVE  SizeInv
<1>1. SessionInv
  BY SessionInit
<1>2. /\ Target /\ tool.step = "args" /\ ~tool.text
      /\ \A f \in Files : copied[f] = None
  BY DEF ToolsInit, NoTool, Target
<1>3. dir = disk
  BY DEF ToolsInit, Init
<1>4. QED
  BY <1>1, <1>2, <1>3 DEF SizeInv, Saved, Chunks, CopiesEnd, TargetEnd

LEMMA SizeStep ==
  ASSUME Regular, ~MpmDates, Covering, Straight, SizeInv, [ToolsNext]_toolvars
  PROVE  SizeInv'
<1>1. SessionInv /\ Target /\ Saved /\ Chunks /\ TypeOK /\ Course
  BY DEF SizeInv, SessionInv, Owned
<1>2. SessionInv' /\ Target' /\ Saved'
  BY <1>1, SessionStep, TargetStep, SavedStays
<1>3. Chunks'
  BY <1>1, ChunksStep
<1>4. CopiesEnd' /\ TargetEnd'
  BY CopiesEndStep, TargetEndStep
<1>5. QED
  BY <1>2, <1>3, <1>4 DEF SizeInv

\* The size that cpmWrite leaves in the last entry of a file is the number of
\* bytes that cpmcp wrote, wherever blocks, extents and records begin and end
\* in it, and no later session of any program changes it.
THEOREM SizesAgree ==
  ASSUME Regular, ~MpmDates, Covering, Straight
  PROVE  ToolsSpec => []SizeAgrees
<1>1. ASSUME ToolsInit PROVE SizeInv
  BY <1>1, SizeInit
<1>2. ASSUME SizeInv, [ToolsNext]_toolvars PROVE SizeInv'
  BY <1>2, SizeStep
<1>3. ASSUME SizeInv PROVE SizeAgrees
  <2> SUFFICES ASSUME NEW f \in Files, copied[f] # None,
                      NEW t \in Highest(dir, Match(dir, f[1], f[2]))
               PROVE  SizeOf(dir[t]) = copied[f]
    BY DEF SizeAgrees
  <2>1. PICK u \in Users, n \in Names : u = f[1] /\ n = f[2]
    BY DEF Files
  <2>2. dir \in [Slot -> Entry]
    BY <1>3 DEF SizeInv, SessionInv, Owned, TypeOK
  <2>3. PICK s \in Slot : Ends(dir, s, f, copied[f])
    BY <1>3 DEF SizeInv, CopiesEnd
  <2>4. QED
    BY <2>1, <2>2, <2>3, EndsHighest
<1>4. QED
  BY <1>1, <1>2, <1>3, PTL DEF ToolsSpec

-----------------------------------------------------------------------------
(* Records and blocks                                                      *)

\* The hypotheses under which fsck.cpm and cpmfs can agree: blocks are made of
\* records, the system is the one that fsck takes the disk for, and cpmcp is
\* given users and names that fsck knows.
Checkable ==
  /\ BlkSiz % RecLen = 0
  /\ IsP2dos => MaxStatus = 31
  /\ Users \subseteq 0 .. (IF IsP2dos THEN 31 ELSE 15)
  /\ BadNames = {}

\* The records of y + 1 bytes fill the blocks of y + 1 bytes.
LEMMA BlocksOfRecords ==
  ASSUME BlkSiz % RecLen = 0, NEW y \in Nat
  PROVE  ((y \div RecLen + 1) * RecLen + BlkSiz - 1) \div BlkSiz
           = y \div BlkSiz + 1
<1> DEFINE c == BlkSiz \div RecLen
           k == y \div RecLen
           b == k \div c
           j == k % c
<1>1. BlkSiz \in Nat \ {0} /\ RecLen \in Nat \ {0}
  BY Geometry
<1>2. BlkSiz = RecLen * c /\ c \in Nat
  BY <1>1, Multiple
<1>3. c \in Nat \ {0} /\ k \in Nat
  <2>1. k \in Nat
    BY <1>1, DivParts
  <2> HIDE DEF c, k
  <2>2. QED
    BY <1>1, <1>2, <2>1, Z3
<1>4. k = c * b + j /\ b \in Nat /\ j \in 0 .. c - 1
  <2> HIDE DEF c, k
  <2>1. QED
    BY <1>3, DivParts
<1>5. b = y \div BlkSiz
  <2>1. (y \div RecLen) \div c = y \div (RecLen * c)
    <3> HIDE DEF c
    <3>1. QED
      BY <1>1, <1>3, DivDiv
  <2>2. QED
    BY <1>2, <2>1
<1> HIDE DEF c, k, b, j
<1> DEFINE r == (j + 1) * RecLen
<1>6. (k + 1) * RecLen = BlkSiz * b + r /\ r \in 1 .. BlkSiz
  <2>1. (k + 1) * RecLen = (RecLen * c) * b + (j + 1) * RecLen
    <3>1. (c * b + j + 1) * RecLen = (RecLen * c) * b + (j + 1) * RecLen
      BY <1>1, <1>3, <1>4, Z3
    <3>2. QED
      BY <1>4, <3>1
  <2>2. (j + 1) * RecLen \in 1 .. RecLen * c
    <3>1. j + 1 \in 1 .. c
      BY <1>3, <1>4
    <3>2. \A m \in 1 .. c : m * RecLen \in 1 .. RecLen * c
      BY <1>1, <1>3, Z3
    <3>3. QED
      BY <3>1, <3>2
  <2>3. QED
    BY <1>2, <2>1, <2>2
<1> HIDE DEF r
<1>7. ((k + 1) * RecLen + BlkSiz - 1) \div BlkSiz = b + 1
  <2>1. /\ (k + 1) * RecLen + BlkSiz - 1 = BlkSiz * (b + 1) + (r - 1)
        /\ (k + 1) * RecLen + BlkSiz - 1 \in Nat
    BY <1>1, <1>4, <1>6, Z3
  <2>2. r - 1 \in 0 .. BlkSiz - 1 /\ b + 1 \in Nat
    BY <1>1, <1>4, <1>6
  <2>3. QED
    BY <1>1, <2>1, <2>2, DivUnique
<1>8. QED
  BY <1>5, <1>7 DEF k

\* blocks of a logical extent
PerLogical == Logical \div BlkSiz

LEMMA PerLogicalType ==
  ASSUME Covering
  PROVE  /\ PerLogical \in Nat \ {0}
         /\ Logical = BlkSiz * PerLogical
         /\ NPtr = PerLogical * Extents
<1>1. /\ BlkSiz \in Nat \ {0} /\ Logical \in Nat \ {0} /\ Logical % BlkSiz = 0
      /\ Extents \in Nat \ {0} /\ NPtr \in Nat \ {0}
  BY Geometry, GeometryAssumption DEF GeometryAssumption
<1>2. Logical = BlkSiz * PerLogical /\ PerLogical \in Nat
  BY <1>1, Multiple DEF PerLogical
<1>3. PerLogical \in Nat \ {0}
  BY <1>1, <1>2, Z3
<1>4. NPtr = PerLogical * Extents
  <2>1. NPtr * BlkSiz = (BlkSiz * PerLogical) * Extents
    BY <1>2 DEF Covering
  <2>2. NPtr * BlkSiz = (PerLogical * Extents) * BlkSiz
    BY <1>1, <1>3, <2>1, Z3
  <2>3. \A a, b \in Nat, m \in Nat \ {0} : a * m = b * m => a = b
    BY Z3
  <2>4. PerLogical * Extents \in Nat
    BY <1>1, <1>3, Z3
  <2>5. QED
    BY <1>1, <2>2, <2>3, <2>4
<1>5. QED
  BY <1>2, <1>3, <1>4

\* The pointers whose blocks fsck counts
LEMMA CountedAre ==
  ASSUME Covering, NEW entry, entry.extno \in Nat
  PROVE  LET first == (entry.extno % Extents) * PerLogical
         IN /\ first \in Nat /\ first + PerLogical <= NPtr
            /\ CountedPtrs(entry) = first .. first + PerLogical - 1
<1> DEFINE part == entry.extno % Extents
           first == part * PerLogical
<1>1. /\ PerLogical \in Nat \ {0} /\ NPtr = PerLogical * Extents
      /\ Extents \in Nat \ {0}
  BY PerLogicalType, Geometry
<1>2. part \in 0 .. Extents - 1
  BY <1>1, DivParts
<1> HIDE DEF part
<1>3. \A m \in Nat : (m * NPtr) \div Extents = m * PerLogical
  <2>1. SUFFICES ASSUME NEW m \in Nat
                 PROVE  (m * NPtr) \div Extents = m * PerLogical
    OBVIOUS
  <2>2. m * NPtr = Extents * (m * PerLogical) + 0 /\ m * PerLogical \in Nat
        /\ m * NPtr \in Nat
    BY <1>1, Z3
  <2>3. QED
    BY <1>1, <2>2, DivUnique
<1>4. (part + 1) * PerLogical = first + PerLogical /\ first \in Nat
  BY <1>1, <1>2, Z3
<1>5. first + PerLogical <= NPtr
  <2>1. \A m \in 1 .. Extents : m * PerLogical <= PerLogical * Extents
    BY <1>1, Z3
  <2>2. part + 1 \in 1 .. Extents
    BY <1>1, <1>2
  <2>3. QED
    BY <1>1, <1>4, <2>1, <2>2
<1>6. CountedPtrs(entry) = {i \in PtrIx : first <= i /\ i < first + PerLogical}
  <2>1. (part * NPtr) \div Extents = first
    BY <1>2, <1>3
  <2>2. ((part + 1) * NPtr) \div Extents = first + PerLogical
    BY <1>2, <1>3, <1>4
  <2>3. QED
    BY <2>1, <2>2 DEF CountedPtrs, part
<1>7. {i \in PtrIx : first <= i /\ i < first + PerLogical}
        = first .. first + PerLogical - 1
  <2> HIDE DEF first
  <2>1. QED
    BY <1>1, <1>4, <1>5, Geometry DEF PtrIx
<1>8. QED
  BY <1>4, <1>5, <1>6, <1>7 DEF part

\* The entry has exactly the blocks of the first n bytes of its file, as far
\* as they are its own.
FullTo(entry, n) ==
  \A i \in PtrIx :
    entry.ptr[i] # 0 <=> ((entry.extno \div Extents) * NPtr + i) * BlkSiz < n

\* What cpmWrite records at a position agrees with the blocks up to it.
LEMMA CountsAgree ==
  ASSUME Covering, BlkSiz % RecLen = 0, NEW entry, NEW n \in Nat \ {0},
         FullTo(entry, n), entry.extno = (n - 1) \div Logical,
         entry.blkcnt = ((n - 1) % Logical) \div RecLen + 1
  PROVE  RecordBlocks(entry) = UsedBlocks(entry)
<1> DEFINE p == n - 1
           y == p % Logical
           z == y \div BlkSiz
           x == entry.extno
           first == (x % Extents) * PerLogical
<1>1. /\ BlkSiz \in Nat \ {0} /\ Logical \in Nat \ {0} /\ Extents \in Nat \ {0}
      /\ PerLogical \in Nat \ {0} /\ Logical = BlkSiz * PerLogical
      /\ NPtr = PerLogical * Extents /\ p \in Nat
  BY Geometry, PerLogicalType
<1>2. x = p \div Logical /\ x \in Nat /\ y \in 0 .. Logical - 1
  <2> HIDE DEF p
  <2>1. p \div Logical \in Nat /\ p % Logical \in 0 .. Logical - 1
    BY <1>1, DivParts
  <2>2. QED
    BY <2>1 DEF p
<1>3. /\ first \in Nat /\ first + PerLogical <= NPtr
      /\ CountedPtrs(entry) = first .. first + PerLogical - 1
  BY <1>2, CountedAre
<1>4. p \div BlkSiz = x * PerLogical + z /\ z \in 0 .. PerLogical - 1
  <2>1. /\ p \div (BlkSiz * PerLogical) = (p \div BlkSiz) \div PerLogical
        /\ (p % (BlkSiz * PerLogical)) \div BlkSiz = (p \div BlkSiz) % PerLogical
    <3>1. p \in Nat /\ BlkSiz \in Nat \ {0} /\ PerLogical \in Nat \ {0}
      BY <1>1
    <3> HIDE DEF p, x, y, z
    <3>2. p \div (BlkSiz * PerLogical) = (p \div BlkSiz) \div PerLogical
      BY <3>1, DivDiv, Zenon
    <3>3. (p % (BlkSiz * PerLogical)) \div BlkSiz = (p \div BlkSiz) % PerLogical
      BY ONLY <3>1, ModMod, ZenonT(60)
    <3>4. QED
      BY <3>2, <3>3
  <2>2. x = (p \div BlkSiz) \div PerLogical /\ z = (p \div BlkSiz) % PerLogical
    BY <1>1, <1>2, <2>1
  <2> DEFINE q == p \div BlkSiz
  <2>3. q \in Nat
    <3> HIDE DEF p
    <3>1. QED
      BY <1>1, DivParts
  <2> HIDE DEF p, y, z, x
  <2>4. /\ q = PerLogical * (q \div PerLogical) + (q % PerLogical)
        /\ q % PerLogical \in 0 .. PerLogical - 1 /\ q \div PerLogical \in Nat
    <3> HIDE DEF q
    <3>1. QED
      BY <1>1, <2>3, DivParts
  <2>5. q = PerLogical * x + z /\ z \in 0 .. PerLogical - 1 /\ x \in Nat
    BY <2>2, <2>4
  <2>6. PerLogical * x = x * PerLogical
    BY <1>1, <2>5
  <2>7. QED
    BY <2>5, <2>6
<1>5. (x \div Extents) * NPtr + first = x * PerLogical
  <2> DEFINE a == x \div Extents
             m == x % Extents
  <2>1. x = Extents * a + m /\ a \in Nat /\ m \in Nat
    <3>1. x \in Nat /\ Extents \in Nat \ {0}
      BY <1>1, <1>2
    <3> HIDE DEF x
    <3>2. x = Extents * a + m /\ a \in Nat /\ m \in 0 .. Extents - 1
      BY <3>1, DivParts
    <3>3. QED
      BY <3>1, <3>2
  <2> HIDE DEF a, m
  <2>2. a * (PerLogical * Extents) + m * PerLogical = (Extents * a + m) * PerLogical
    BY <1>1, <2>1, Z3
  <2>3. QED
    BY <1>1, <2>1, <2>2 DEF a, m
<1>6. ASSUME NEW j \in 0 .. PerLogical - 1
      PROVE  entry.ptr[first + j] # 0 <=> j <= z
  <2>1. first + j \in PtrIx
    <3> HIDE DEF first
    <3>1. QED
      BY <1>1, <1>3, Geometry DEF PtrIx
  <2>2. (x \div Extents) * NPtr + (first + j) = x * PerLogical + j
    <3> DEFINE a == (x \div Extents) * NPtr
    <3>1. x \div Extents \in Nat
      <4> HIDE DEF x
      <4>1. QED
        BY <1>1, <1>2, DivParts DEF x
    <3>2. a \in Nat
      <4>1. NPtr \in Nat
        BY Geometry
      <4>2. QED
        BY <3>1, <4>1, Z3
    <3> HIDE DEF a
    <3>3. a + first = x * PerLogical /\ first \in Nat /\ j \in Nat
      BY <1>3, <1>5 DEF a
    <3> HIDE DEF first
    <3>4. a + (first + j) = (a + first) + j
      BY <3>2, <3>3
    <3>5. QED
      BY <3>3, <3>4 DEF a
  <2>3. entry.ptr[first + j] # 0 <=> (x * PerLogical + j) * BlkSiz < n
    BY <2>1, <2>2 DEF FullTo
  <2> DEFINE b == x * PerLogical + j
             q == p \div BlkSiz
             r == p % BlkSiz
  <2>4. b \in Nat /\ q \in Nat /\ p = BlkSiz * q + r /\ r \in 0 .. BlkSiz - 1
    <3>1. x * PerLogical \in Nat
      BY <1>1, <1>2, Z3
    <3>2. q \in Nat /\ p = BlkSiz * q + r /\ r \in 0 .. BlkSiz - 1
      <4> HIDE DEF p
      <4>1. QED
        BY <1>1, DivParts
    <3>3. QED
      BY <3>1, <3>2
  <2>5. q = x * PerLogical + z
    BY <1>4
  <2>6. n = p + 1
    BY DEF p
  <2> HIDE DEF q, r, p
  <2>7. b * BlkSiz < n <=> b <= q
    <3> HIDE DEF b
    <3>1. b <= q => b * BlkSiz <= BlkSiz * q
      BY <1>1, <2>4, Z3
    <3>2. b >= q + 1 => b * BlkSiz >= BlkSiz * q + BlkSiz
      BY <1>1, <2>4, Z3
    <3>3. BlkSiz * q \in Nat /\ b * BlkSiz \in Nat
      BY <1>1, <2>4, Z3
    <3>4. QED
      BY <1>1, <2>4, <2>6, <3>1, <3>2, <3>3
  <2>8. b <= q <=> j <= z
    <3>1. x * PerLogical \in Nat
      BY <1>1, <1>2, Z3
    <3>2. QED
      BY <1>4, <2>5, <3>1
  <2>9. QED
    BY <2>3, <2>7, <2>8
<1>7. {i \in CountedPtrs(entry) : entry.ptr[i] # 0} = first .. first + z
  <2> HIDE DEF first, z
  <2>1. ASSUME NEW i \in first .. first + PerLogical - 1
        PROVE  entry.ptr[i] # 0 <=> i <= first + z
    <3>1. i - first \in 0 .. PerLogical - 1 /\ i = first + (i - first)
      BY <1>1, <1>3
    <3>2. entry.ptr[i] # 0 <=> i - first <= z
      BY <1>6, <3>1
    <3>3. QED
      BY <1>1, <1>3, <1>4, <3>1, <3>2
  <2>2. QED
    BY <1>1, <1>3, <1>4, <2>1
<1>8. UsedBlocks(entry) = z + 1
  <2>1. Cardinality(first .. first + z) = z + 1
    <3> HIDE DEF first, z
    <3>1. first \in Int /\ first + z \in Int /\ ~(first > first + z)
          /\ (first + z) - first + 1 = z + 1
      BY <1>1, <1>3, <1>4
    <3>2. QED
      BY <3>1, FS_Interval
  <2>2. QED
    BY <1>7, <2>1 DEF UsedBlocks
<1>9. RecordBlocks(entry) = z + 1
  <2> HIDE DEF p
  <2>1. y \in Nat
    BY <1>2, <1>1
  <2>2. entry.blkcnt = y \div RecLen + 1
    BY DEF p
  <2> HIDE DEF y
  <2>3. QED
    BY <2>1, <2>2, BlocksOfRecords DEF RecordBlocks
<1>10. QED
  BY <1>8, <1>9

\* Blocks that begin before a byte
LEMMA BeginsBefore ==
  ASSUME NEW a \in Nat, NEW b \in Nat, NEW c \in Nat \ {0}
  PROVE  b * c < a + 1 <=> b <= a \div c
<1> DEFINE q == a \div c
           r == a % c
<1>1. a = c * q + r /\ q \in Nat /\ r \in 0 .. c - 1
  BY DivParts
<1> HIDE DEF q, r
<1>2. b <= q => b * c <= c * q
  BY <1>1, Z3
<1>3. b >= q + 1 => b * c >= c * q + c
  BY <1>1, Z3
<1>4. c * q \in Nat /\ b * c \in Nat
  BY <1>1, Z3
<1>5. b * c < a + 1 <=> b <= q
  BY <1>1, <1>2, <1>3, <1>4
<1>6. QED
  BY <1>5 DEF q

\* The block of a position, and the first one of an entry
LEMMA PointedAt ==
  ASSUME Covering, NEW pos \in Nat
  PROVE  /\ pos \div BlkSiz = (pos \div ExtCap) * NPtr + PtrAt(pos)
         /\ (pos \div ExtCap) * NPtr \in Nat /\ PtrAt(pos) \in Nat
<1>1. ExtCap = BlkSiz * NPtr /\ BlkSiz \in Nat \ {0} /\ NPtr \in Nat \ {0}
  BY Extension, Geometry
<1>2. /\ PtrAt(pos) = (pos \div BlkSiz) % NPtr
      /\ pos \div ExtCap = (pos \div BlkSiz) \div NPtr
      /\ pos \div BlkSiz \in Nat
  BY <1>1, ModMod, DivDiv, DivParts, ZenonT(30) DEF PtrAt
<1> DEFINE a == pos \div BlkSiz
<1>3. a \in Nat
  BY <1>2
<1> HIDE DEF a
<1>4. a = NPtr * (a \div NPtr) + (a % NPtr) /\ a \div NPtr \in Nat /\ a % NPtr \in Nat
  BY <1>1, <1>3, DivParts
<1>5. (a \div NPtr) * NPtr = NPtr * (a \div NPtr) /\ NPtr * (a \div NPtr) \in Nat
  BY <1>1, <1>4, Z3
<1>6. QED
  BY <1>2, <1>4, <1>5 DEF a

\* Once the block of a position is there, the entry is full behind it.
LEMMA FullNext ==
  ASSUME Covering, NEW pos \in Nat, NEW entry,
         entry.extno \div Extents = pos \div ExtCap,
         entry.ptr[PtrAt(pos)] # 0,
         \A i \in PtrIx : i # PtrAt(pos) =>
           (entry.ptr[i] # 0 <=>
              ((entry.extno \div Extents) * NPtr + i) * BlkSiz < pos)
  PROVE  FullTo(entry, pos + 1)
<1> DEFINE first == (pos \div ExtCap) * NPtr
           at == PtrAt(pos)
           q == pos \div BlkSiz
<1>1. q = first + at /\ first \in Nat /\ at \in Nat /\ BlkSiz \in Nat \ {0}
  BY PointedAt, Geometry
<1>2. SUFFICES ASSUME NEW i \in PtrIx
               PROVE  entry.ptr[i] # 0 <=> (first + i) * BlkSiz < pos + 1
  BY DEF FullTo
<1>3. i \in Nat /\ first + i \in Nat
  <2> HIDE DEF first
  <2>1. QED
    BY <1>1, Geometry DEF PtrIx
<1>4. \A b \in Nat : b * BlkSiz < pos + 1 <=> b <= q
  BY <1>1, BeginsBefore
<1>5. CASE i = at
  <2>1. entry.ptr[i] # 0
    BY <1>5
  <2> HIDE DEF first, at, q
  <2>2. first + i <= q
    BY <1>1, <1>5
  <2>3. QED
    BY <1>3, <1>4, <2>1, <2>2
<1>6. CASE i # at
  <2>1. entry.ptr[i] # 0 <=> (first + i) * BlkSiz < pos
    BY <1>6
  <2> HIDE DEF first, at
  <2> DEFINE b == first + i
  <2>2. b \in Nat /\ b # q
    BY <1>1, <1>3, <1>6
  <2>3. q * BlkSiz < pos + 1 /\ q \in Nat
    <3>1. q \in Nat
      BY <1>1
    <3> HIDE DEF q
    <3>2. QED
      BY <1>4, <3>1
  <2>4. b * BlkSiz < pos + 1 <=> b <= q
    BY <1>4, <2>2
  <2> HIDE DEF b, q
  <2>5. b < q => b * BlkSiz < q * BlkSiz
    BY <1>1, <2>2, <2>3, Z3
  <2>6. b * BlkSiz \in Nat /\ q * BlkSiz \in Nat
    BY <1>1, <2>2, <2>3, Z3
  <2>7. b * BlkSiz < pos <=> b * BlkSiz < pos + 1
    BY <2>2, <2>3, <2>4, <2>5, <2>6
  <2>8. QED
    BY <2>1, <2>7 DEF b
<1>7. QED
  BY <1>5, <1>6

\* What is put into that block changes nothing.
LEMMA FullOn ==
  ASSUME Covering, NEW pos \in Nat, NEW n \in Nat \ {0},
         (pos % BlkSiz) + n <= BlkSiz, NEW entry, entry.extno \in Nat,
         FullTo(entry, pos + 1)
  PROVE  FullTo(entry, pos + n)
<1>1. /\ BlkSiz \in Nat \ {0} /\ NPtr \in Nat \ {0} /\ Extents \in Nat \ {0}
      /\ pos + n - 1 \in Nat
  BY Geometry
<1>2. (pos + n - 1) \div BlkSiz = pos \div BlkSiz
  BY RoundWithin
<1>3. ASSUME NEW b \in Nat
      PROVE  b * BlkSiz < pos + n <=> b * BlkSiz < pos + 1
  <2>1. b * BlkSiz < (pos + n - 1) + 1 <=> b <= (pos + n - 1) \div BlkSiz
    BY <1>1, BeginsBefore
  <2>2. b * BlkSiz < pos + 1 <=> b <= pos \div BlkSiz
    BY <1>1, BeginsBefore
  <2>3. (pos + n - 1) + 1 = pos + n
    OBVIOUS
  <2>4. QED
    BY <1>2, <2>1, <2>2, <2>3
<1>4. ASSUME NEW i \in PtrIx
      PROVE  (entry.extno \div Extents) * NPtr + i \in Nat
  <2> DEFINE a == entry.extno \div Extents
  <2>1. a \in Nat
    BY <1>1, DivParts
  <2> HIDE DEF a
  <2>2. a * NPtr \in Nat
    BY <1>1, <2>1, Z3
  <2>3. QED
    BY <1>1, <2>2 DEF PtrIx, a
<1>5. QED
  BY <1>3, <1>4 DEF FullTo

\* An entry that begins at a position has no block before it.
LEMMA FullNew ==
  ASSUME Covering, NEW pos \in Nat, pos % ExtCap = 0, NEW entry,
         entry.extno \div Extents = pos \div ExtCap, entry.ptr = ZeroPtrs
  PROVE  FullTo(entry, pos)
<1> DEFINE a == pos \div ExtCap
<1>1. /\ ExtCap = NPtr * BlkSiz /\ BlkSiz \in Nat \ {0} /\ NPtr \in Nat \ {0}
      /\ ExtCap \in Nat \ {0}
  BY Extension, Geometry
<1>2. pos = ExtCap * a /\ a \in Nat
  BY <1>1, Multiple
<1> HIDE DEF a
<1>3. ASSUME NEW i \in PtrIx
      PROVE  entry.ptr[i] = 0 /\ ~((a * NPtr + i) * BlkSiz < pos)
  <2>1. i \in Nat
    BY <1>1 DEF PtrIx
  <2>2. (a * NPtr + i) * BlkSiz >= (NPtr * BlkSiz) * a
    <3>1. (a * NPtr + i) * BlkSiz = (NPtr * BlkSiz) * a + i * BlkSiz
      BY <1>1, <1>2, <2>1, Z3
    <3>2. i * BlkSiz \in Nat /\ (NPtr * BlkSiz) * a \in Nat
      BY <1>1, <1>2, <2>1, Z3
    <3>3. QED
      BY <3>1, <3>2
  <2>3. (a * NPtr + i) * BlkSiz \in Nat
    BY <1>1, <1>2, <2>1, Z3
  <2>4. QED
    BY <1>1, <1>2, <2>2, <2>3 DEF ZeroPtrs
<1>4. QED
  BY <1>3 DEF FullTo, a

-----------------------------------------------------------------------------
(* Entries that fsck.cpm passes                                            *)

Clean(entry) ==
  \A check \in {"name", "lrc", "count", "mode", "password", "status"} :
    ~Fails(entry, check)

\* an entry of a file
LEMMA FileClean ==
  ASSUME Checkable, NEW entry, HoldsFile(entry), entry.status \in Nat,
         entry.lrc <= RecLen, RecordBlocks(entry) = UsedBlocks(entry),
         entry.lrc \in Nat
  PROVE  Clean(entry)
<1>1. entry.status \in 0 .. 31
  BY DEF HoldsFile
<1>2. ~HoldsLabel(entry)
  BY <1>1 DEF HoldsLabel, Label
<1>3. ~HoldsPassword(entry)
  BY DEF HoldsPassword, HoldsFile, IsP2dos
<1>4. ~(entry.lrc > RecLen)
  BY Geometry
<1>5. entry.name \notin BadNames
  BY DEF Checkable
<1>6. QED
  BY <1>2, <1>3, <1>4, <1>5 DEF Clean, Fails

\* a file's entry whose attributes are set
LEMMA AttrClean ==
  ASSUME NEW a, NEW b, HoldsFile(a), a.status \in Nat, Clean(a),
         b.status = a.status, b.name = a.name, SameSize(a, b), b.ptr = a.ptr
  PROVE  Clean(b)
<1>1. HoldsFile(b) /\ ~HoldsLabel(b) /\ ~HoldsPassword(b)
  <2>1. b.status \in 0 .. 31
    BY DEF HoldsFile
  <2>2. QED
    BY <2>1 DEF HoldsFile, HoldsLabel, Label, HoldsPassword, IsP2dos
<1>2. RecordBlocks(b) = RecordBlocks(a) /\ UsedBlocks(b) = UsedBlocks(a)
  BY DEF SameSize, RecordBlocks, UsedBlocks, CountedPtrs
<1>3. ~Fails(a, "name") /\ ~Fails(a, "lrc") /\ ~Fails(a, "count")
  BY DEF Clean
<1>4. ~Fails(b, "name") /\ ~Fails(b, "lrc") /\ ~Fails(b, "count")
  BY <1>1, <1>2, <1>3 DEF Fails, SameSize
<1>5. ~Fails(b, "mode") /\ ~Fails(b, "password") /\ ~Fails(b, "status")
  BY <1>1 DEF Fails
<1>6. QED
  BY <1>4, <1>5 DEF Clean

LEMMA FreeClean ==
  ASSUME NEW entry, entry.status = 229
  PROVE  Clean(entry)
<1>1. /\ ~HoldsFile(entry) /\ ~HoldsPassword(entry) /\ ~HoldsLabel(entry)
      /\ HoldsNothing(entry)
  BY DEF HoldsFile, HoldsPassword, HoldsLabel, HoldsNothing, Label
<1>2. QED
  BY <1>1 DEF Clean, Fails

LEMMA FilesHeld ==
  ASSUME Regular, Checkable, NEW f \in Files, NEW entry, IsOf(entry, f)
  PROVE  HoldsFile(entry) /\ entry.status \in Nat
<1>1. PICK u \in Users, n \in Names : u = f[1] /\ n = f[2]
  BY DEF Files
<1>2. u \in 0 .. 31
  BY UserStatus
<1>3. u <= (IF IsP2dos THEN 31 ELSE 15)
  <2>1. u \in 0 .. (IF IsP2dos THEN 31 ELSE 15)
    BY DEF Checkable
  <2>2. CASE IsP2dos
    BY <2>1, <2>2
  <2>3. CASE ~IsP2dos
    BY <2>1, <2>3
  <2>4. QED
    BY <2>2, <2>3
<1>4. QED
  BY <1>1, <1>2, <1>3 DEF IsOf, HoldsFile

\* the entry of a new file or extent
LEMMA NewClean ==
  ASSUME Checkable, NEW entry, HoldsFile(entry), entry.status \in Nat,
         entry.blkcnt = 0, entry.lrc = 0, entry.ptr = ZeroPtrs
  PROVE  Clean(entry)
<1>1. UsedBlocks(entry) = 0
  <2>1. {i \in CountedPtrs(entry) : entry.ptr[i] # 0} = {}
    BY DEF CountedPtrs, ZeroPtrs
  <2>2. QED
    BY <2>1, FS_EmptySet DEF UsedBlocks
<1>2. RecordBlocks(entry) = 0
  <2>1. BlkSiz \in Nat \ {0} /\ RecLen \in Nat \ {0}
    BY Geometry
  <2>2. (BlkSiz - 1) \div BlkSiz = 0
    BY <2>1, Z3
  <2>3. 0 * RecLen + BlkSiz - 1 = BlkSiz - 1
    BY <2>1
  <2>4. QED
    BY <2>2, <2>3 DEF RecordBlocks
<1>3. entry.lrc <= RecLen /\ entry.lrc \in Nat
  BY Geometry
<1>4. QED
  BY <1>1, <1>2, <1>3, FileClean

-----------------------------------------------------------------------------
(* The entries while a file is written                                     *)

\* The entry for a position of file f is full up to it; in "fill" its block
\* is there as well.
FullAt(d, f, pos, phase) ==
  \A t \in Slot :
    IsOf(d[t], f) /\ d[t].extno \div Extents = pos \div ExtCap
    => FullTo(d[t], IF phase = "fill" THEN pos + 1 ELSE pos)

\* All entries are clean but the one that a block was just put into.
CleanBut(d, w) ==
  \A t \in Slot : Clean(d[t]) \/ (w.phase = "fill" /\ t = w.extent)

LEMMA WriteFull ==
  ASSUME TypeOK, AlvCovers, Regular, Covering, ~MpmDates, Checkable, Place,
         Apart(dir), WriteStep, NEW f \in Files, NEW s \in Slot,
         Ends(dir, s, f, Pos), IsOf(Own, f),
         wr.phase \in {"block", "fill"} =>
           wr.extent = s /\ wr.extno = Pos \div Logical,
         FullAt(dir, f, Pos, wr.phase), CleanBut(dir, wr)
  PROVE  /\ FullAt(dir', f, fd'[wr.h].pos, wr'.phase)
         /\ \A t \in Slot :
              Clean(dir'[t]) \/ (wr'.phase = "fill" /\ t = wr'.extent)
<1> DEFINE x == Pos \div Logical
           Ready == \A t \in Slot : Clean(dir[t])
<1>0. /\ wr.phase # "idle" /\ dir \in [Slot -> Entry] /\ wr.h \in Handles
      /\ Pos \in Nat /\ wr.count \in Nat \ {0} /\ Logical \in Nat \ {0}
      /\ x \in Nat /\ x < 2048 /\ dir[s] \in Entry /\ Extents \in Nat \ {0}
      /\ x \div Extents = Pos \div ExtCap
  BY WriteFrame, WriteLocals, PosWithin, Geometry, ExtentOf DEF TypeOK
<1>1. wr.phase # "fill" => Ready
  BY DEF CleanBut
<1>2. wr.phase \in {"block", "fill"} =>
        dir[s].extno \div Extents = Pos \div ExtCap
  BY <1>0 DEF Place
<1>3. ASSUME wr.phase \in {"block", "fill"}, NEW t \in Slot, IsOf(dir[t], f),
             dir[t].extno \div Extents = Pos \div ExtCap
      PROVE  t = s
  <2>1. SameExtent(dir[t], dir[s])
    BY <1>2, <1>3 DEF SameExtent, IsOf, Ends
  <2>2. s \in FileSlots(dir)
    BY FileOf DEF Ends, FileSlots
  <2>3. QED
    BY <2>1, <2>2 DEF Apart
<1>4. CASE ExtentFound
  <2>1. /\ dir' = dir /\ fd' = fd /\ wr.phase = "extent"
        /\ \E t : UseExtent(t)
    BY <1>4 DEF ExtentFound
  <2>2. wr'.phase = "block"
    BY <2>1 DEF UseExtent, Go
  <2>3. FullAt(dir', f, Pos, wr'.phase)
    BY <2>1, <2>2 DEF FullAt
  <2>4. QED
    BY <1>1, <2>1, <2>3 DEF Pos
<1>5. CASE ExtentDenied \/ BlockUnreadable \/ BlockDenied
  <2>1. /\ dir' = dir /\ fd' = fd /\ wr.phase # "fill" /\ wr'.phase = "idle"
    BY <1>5 DEF ExtentDenied, BlockUnreadable, BlockDenied, Finish, Returned
  <2>2. FullAt(dir', f, Pos, wr'.phase)
    BY <2>1 DEF FullAt
  <2>3. QED
    BY <1>1, <2>1, <2>2 DEF Pos
<1>6. CASE ExtentAdded
  <2>1. PICK r \in FreeSlots(dir) :
          /\ dir' = [dir EXCEPT ![r] = Extended(Own, x)]
          /\ UseExtent(r) /\ fd' = fd
    BY <1>6 DEF ExtentAdded, Restamped, Firsts
  <2> DEFINE new == Extended(Own, x)
  <2>2. r \in Slot
    BY DEF FreeSlots
  <2>3. wr'.phase = "block" /\ wr.phase = "extent" /\ Extent = {}
    BY <1>6, <2>1 DEF UseExtent, Go, ExtentAdded
  <2>4. \A t \in Slot : dir'[t] = IF t = r THEN new ELSE dir[t]
    BY <1>0, <2>1, <2>2
  <2>5. /\ IsOf(new, f) /\ new.extno = x /\ new.ptr = ZeroPtrs
        /\ new.blkcnt = 0 /\ new.lrc = 0
    <3>1. x % 2048 = x
      BY <1>0
    <3>2. QED
      BY <3>1 DEF IsOf, Extended
  <2> HIDE DEF new
  <2>6. MatchExtent(dir, Own.status, Own.name, x) = {}
    <3> DEFINE M == MatchExtent(dir, Own.status, Own.name, x)
    <3>1. SUFFICES ASSUME NEW t \in M PROVE FALSE
      OBVIOUS
    <3>2. M \subseteq Slot
      BY DEF MatchExtent, Match
    <3>3. \E y \in M : \A z \in M : y <= z
      BY <3>2, SlotLeast
    <3>4. QED
      BY <2>3, <3>3 DEF Extent, Firsts
  <2>7. ASSUME NEW t \in Slot, IsOf(dir[t], f)
        PROVE  dir[t].extno \div Extents # x \div Extents
    <3>1. dir[t].status <= MaxStatus
      BY <2>7, FileOf
    <3>2. QED
      BY <2>6, <2>7, <3>1 DEF MatchExtent, Match, IsOf
  <2>8. Pos % ExtCap = 0
    <3>1. dir[s].extno # x /\ dir[s].extno \div Extents # x \div Extents
      BY <2>7 DEF Ends
    <3>2. Pos # 0 /\ dir[s].extno = (Pos - 1) \div Logical
      BY <3>1 DEF Ends
    <3>3. Pos - 1 \in Nat /\ Pos \in Nat \ {0}
      BY <1>0, <3>2
    <3>4. (Pos - 1) \div ExtCap # Pos \div ExtCap
      BY <1>0, <3>1, <3>2, <3>3, ExtentOf
    <3>5. ExtCap \in Nat \ {0}
      BY Extension
    <3>6. Pos % ExtCap # 0 => (Pos - 1) \div ExtCap = Pos \div ExtCap
      BY <3>3, <3>5, DivNext
    <3>7. QED
      BY <3>4, <3>6
  <2>9. FullTo(new, Pos)
    BY <1>0, <2>5, <2>8, FullNew
  <2>10. FullAt(dir', f, Pos, "block")
    BY <1>0, <2>4, <2>7, <2>9 DEF FullAt
  <2>11. Clean(new)
    BY <2>5, FilesHeld, NewClean
  <2>12. QED
    BY <1>1, <2>1, <2>3, <2>4, <2>10, <2>11 DEF Pos
<1>7. ASSUME wr.phase = "block", wr'.phase = "fill", wr'.extent = s, fd' = fd,
             \A t \in Slot : t # s => dir'[t] = dir[t],
             dir'[s].extno = dir[s].extno, dir'[s].ptr[PtrAt(Pos)] # 0,
             \A i \in PtrIx : i # PtrAt(Pos) => dir'[s].ptr[i] = dir[s].ptr[i]
      PROVE  /\ FullAt(dir', f, fd'[wr.h].pos, wr'.phase)
             /\ \A t \in Slot :
                  Clean(dir'[t]) \/ (wr'.phase = "fill" /\ t = wr'.extent)
  <2>1. FullTo(dir[s], Pos)
    BY <1>2, <1>7 DEF FullAt, Ends
  <2>2. FullTo(dir'[s], Pos + 1)
    <3>1. dir'[s].extno \div Extents = Pos \div ExtCap
      BY <1>2, <1>7
    <3>2. \A i \in PtrIx : i # PtrAt(Pos) =>
            (dir'[s].ptr[i] # 0 <=>
               ((dir'[s].extno \div Extents) * NPtr + i) * BlkSiz < Pos)
      BY <1>7, <2>1 DEF FullTo
    <3> DEFINE new == dir'[s]
    <3>3. new.ptr[PtrAt(Pos)] # 0
      BY <1>7
    <3> HIDE DEF new
    <3>4. QED
      BY <1>0, <3>1, <3>2, <3>3, FullNext DEF new
  <2>3. ASSUME NEW t \in Slot, IsOf(dir'[t], f),
               dir'[t].extno \div Extents = Pos \div ExtCap
        PROVE  t = s
    BY <1>3, <1>7, <2>3
  <2>4. FullAt(dir', f, Pos, "fill")
    BY <2>2, <2>3 DEF FullAt
  <2>5. QED
    BY <1>1, <1>7, <2>4 DEF Pos
<1>8. CASE BlockFound
  <2>1. /\ wr.phase = "block" /\ dir' = dir /\ fd' = fd /\ Cell # 0
        /\ wr'.extent = wr.extent /\ wr'.phase = "fill"
    BY <1>8 DEF BlockFound, UseBlock, Go
  <2>2. dir[s].ptr[PtrAt(Pos)] # 0
    BY <2>1 DEF Cell
  <2>3. QED
    BY <1>7, <2>1, <2>2
<1>9. CASE BlockAllocated
  <2>1. PICK b \in Block \ alv :
          dir' = [dir EXCEPT ![wr.extent].ptr[PtrAt(Pos)] = b]
    BY <1>9 DEF BlockAllocated, Restamped, Firsts
  <2>2. /\ wr.phase = "block" /\ fd' = fd /\ wr.extent = s
        /\ wr'.extent = s /\ wr'.phase = "fill"
    BY <1>9 DEF BlockAllocated, UseBlock, Go
  <2>3. b \in Nat \ {0}
    <3>1. 0 \in alv
      BY Geometry DEF AlvCovers
    <3>2. QED
      BY <3>1, Geometry DEF Block
  <2> DEFINE i == PtrAt(Pos)
             new == [dir[s] EXCEPT !.ptr[i] = b]
  <2>4. i \in PtrIx
    BY <1>0, PtrAtType
  <2>5. /\ new.extno = dir[s].extno
        /\ \A j \in PtrIx : new.ptr[j] = IF j = i THEN b ELSE dir[s].ptr[j]
    <3>1. i \in PtrIx /\ b \in Nat /\ dir[s] \in Entry
      BY <1>0, <2>3, <2>4
    <3> HIDE DEF i
    <3>2. QED
      BY <3>1, PtrSetFields
  <2>6. dir' = [dir EXCEPT ![s] = new]
    BY <2>1, <2>2
  <2> HIDE DEF new
  <2>7. \A t \in Slot : dir'[t] = IF t = s THEN new ELSE dir[t]
    BY <1>0, <2>6
  <2>8. /\ dir'[s].extno = dir[s].extno /\ dir'[s].ptr[PtrAt(Pos)] # 0
        /\ \A j \in PtrIx : j # PtrAt(Pos) => dir'[s].ptr[j] = dir[s].ptr[j]
        /\ \A t \in Slot : t # s => dir'[t] = dir[t]
    BY <2>3, <2>4, <2>5, <2>7
  <2>9. QED
    BY <1>7, <2>2, <2>8
<1>10. CASE Filled
  <2> DEFINE n == Room(Pos, wr.count)
             new == Recorded(dir[s], x, Pos + n)
  <2>1. PICK last \in PtrIx :
          /\ dir' = [dir EXCEPT ![wr.extent] =
                       Recorded(@, wr.extno + (last * BlkSiz) \div ExtCap,
                                Pos + n)]
          /\ fd' = [fd EXCEPT ![wr.h].pos = Pos + n,
                     ![wr.h].size = IF @ < Pos + n THEN Pos + n ELSE @]
          /\ \/ Finish("all")
             \/ Go(IF (Pos + n) % ExtCap = 0 THEN "extent" ELSE "block",
                   wr.h, wr.count - n, wr.extent,
                   wr.extno + (last * BlkSiz) \div ExtCap)
    BY <1>10 DEF Filled, Restamped, Last
  <2>2. wr.phase = "fill" /\ wr.extent = s /\ wr.extno = x
    BY <1>10 DEF Filled
  <2>3. wr.extno + (last * BlkSiz) \div ExtCap = x
    BY <1>0, <2>2, LastWithin
  <2>4. wr'.phase # "fill"
    BY <2>1 DEF Finish, Returned, Go
  <2>5. n \in Nat \ {0} /\ (Pos % BlkSiz) + n <= BlkSiz
    <3>1. n \in 1 .. wr.count /\ (Pos % BlkSiz) + n <= BlkSiz
      BY <1>0, RoomType
    <3> HIDE DEF n
    <3>2. QED
      BY <1>0, <3>1
  <2>6. dir' = [dir EXCEPT ![s] = new] /\ fd'[wr.h].pos = Pos + n
    <3>1. dir' = [dir EXCEPT ![s] = new]
      BY <2>1, <2>2, <2>3
    <3>2. fd'[wr.h].pos = Pos + n
      BY <1>0, <2>1 DEF TypeOK, Inode
    <3>3. QED
      BY <3>1, <3>2
  <2>7. /\ Pos + n \in Nat \ {0} /\ x = ((Pos + n) - 1) \div Logical
        /\ ((Pos + n) - 1) \div ExtCap = Pos \div ExtCap
    <3> DEFINE p == Pos
    <3>1. p \in Nat
      BY <1>0
    <3> HIDE DEF n, p
    <3>2. /\ (p + n - 1) \div Logical = p \div Logical
          /\ (p + n - 1) \div ExtCap = p \div ExtCap
      BY <2>5, <3>1, RoundWithin DEF p
    <3>3. p + n - 1 = (p + n) - 1 /\ p + n \in Nat \ {0}
      BY <2>5, <3>1
    <3>4. QED
      BY <3>2, <3>3 DEF p
  <2>8. /\ new.extno = x /\ new.ptr = dir[s].ptr /\ IsOf(new, f)
        /\ new.blkcnt = (((Pos + n) - 1) % Logical) \div RecLen + 1
        /\ new.lrc = IF ExactSize THEN (RecLen - ((Pos + n) % RecLen)) % RecLen
                     ELSE (Pos + n) % RecLen
    <3>1. x % 2048 = x
      BY <1>0
    <3>2. QED
      BY <3>1 DEF Recorded, IsOf, Ends
  <2> HIDE DEF n, new
  <2>9. \A t \in Slot : dir'[t] = IF t = s THEN new ELSE dir[t]
    BY <1>0, <2>6
  <2>10. FullTo(new, Pos + n)
    <3>1. FullTo(dir[s], Pos + 1)
      BY <1>2, <2>2 DEF FullAt, Ends
    <3>2. new.extno \div Extents = dir[s].extno \div Extents
      BY <1>0, <1>2, <2>2, <2>8
    <3>3. FullTo(new, Pos + 1)
      BY <2>8, <3>1, <3>2 DEF FullTo
    <3>4. new.extno \in Nat
      BY <1>0, <2>8
    <3>5. QED
      BY <1>0, <2>5, <3>3, <3>4, FullOn
  <2>11. Clean(new)
    <3>1. RecordBlocks(new) = UsedBlocks(new)
      BY <2>7, <2>8, <2>10, CountsAgree DEF Checkable
    <3>2. new.lrc \in Nat /\ new.lrc <= RecLen
      <4>1. RecLen \in Nat \ {0}
        BY Geometry
      <4> DEFINE z == (Pos + n) % RecLen
      <4>2. z \in 0 .. RecLen - 1
        BY <2>7, <4>1, DivParts
      <4> HIDE DEF z
      <4>3. (RecLen - z) % RecLen \in 0 .. RecLen - 1
        <5>1. RecLen - z \in Nat
          BY <4>1, <4>2
        <5>2. QED
          BY <4>1, <5>1, DivParts
      <4>4. new.lrc = IF ExactSize THEN (RecLen - z) % RecLen ELSE z
        BY <2>8 DEF z
      <4> DEFINE w == (RecLen - z) % RecLen
      <4>5. w \in 0 .. RecLen - 1 /\ (new.lrc = w \/ new.lrc = z)
        BY <4>3, <4>4
      <4> HIDE DEF w
      <4>6. QED
        BY <4>1, <4>2, <4>5
    <3>3. HoldsFile(new) /\ new.status \in Nat
      BY <2>8, FilesHeld
    <3>4. QED
      BY <3>1, <3>2, <3>3, FileClean
  <2>12. ASSUME NEW t \in Slot, t # s, IsOf(dir'[t], f),
                dir'[t].extno \div Extents = (Pos + n) \div ExtCap
         PROVE  FALSE
    <3>1. dir'[t] = dir[t]
      BY <2>9, <2>12
    <3>2. dir[t].extno \in Nat /\ dir[s].extno \in Nat
          /\ dir[t].extno < dir[s].extno
      BY <1>0, <2>12, <3>1, ExtnoType DEF Ends
    <3>3. dir[t].extno \div Extents <= dir[s].extno \div Extents
      BY <1>0, <3>2, DivMonotone
    <3>4. Pos \div ExtCap <= (Pos + n) \div ExtCap
      <4>1. ExtCap \in Nat \ {0} /\ Pos <= Pos + n /\ Pos + n \in Nat
        BY <1>0, <2>5, Extension
      <4>2. QED
        BY <1>0, <4>1, DivMonotone
    <3>5. dir[t].extno \div Extents = Pos \div ExtCap
      <4>1. /\ dir[s].extno \div Extents = Pos \div ExtCap
            /\ dir[t].extno \div Extents = (Pos + n) \div ExtCap
        BY <1>2, <2>2, <2>12, <3>1
      <4>2. \A m \in Nat : m \div Extents \in Nat
        <5>1. Extents \in Nat \ {0}
          BY <1>0
        <5>2. QED
          BY <5>1, DivParts, Zenon
      <4>3. QED
        BY <3>2, <3>3, <3>4, <4>1, <4>2
    <3>6. QED
      BY <1>3, <2>2, <2>12, <3>1, <3>5
  <2>13. FullAt(dir', f, Pos + n, wr'.phase)
    BY <2>4, <2>9, <2>10, <2>12 DEF FullAt
  <2>14. \A t \in Slot : Clean(dir'[t])
    BY <2>2, <2>9, <2>11 DEF CleanBut
  <2>15. QED
    BY <2>6, <2>13, <2>14
<1>11. QED
  BY <1>4, <1>5, <1>6, <1>8, <1>9, <1>10 DEF WriteStep

\* Image and buffer are clean.
AllClean == (\A t \in Slot : Clean(disk[t])) /\ CleanBut(dir, wr)

TargetFull ==
  tool.step \in {"open", "chunk", "write"} =>
    FullAt(dir, tool.file, fd[ino].pos, wr.phase)

\* What cpmchattr and cpmchmod looked up is the file that they were given.
AttrAim ==
  tool.step = "attr" =>
    fd[ino].slot \in Slot /\ IsOf(dir[fd[ino].slot], tool.file)

\* ImagePassesFsck is not inductive: it says nothing of the buffer, which cpmSync
\* writes in parts, nor of how far the entry that is written is full.
CountInv == SizeInv /\ AllClean /\ TargetFull /\ AttrAim

LEMMA AllCleanNext ==
  ASSUME \A t \in Slot : Clean(disk'[t]),
         \A t \in Slot : Clean(dir'[t]) \/ (wr'.phase = "fill" /\ t = wr'.extent)
  PROVE  AllClean'
  BY DEF AllClean, CleanBut, Clean, Fails, HoldsFile, HoldsLabel,
         HoldsPassword, HoldsDates, HoldsNothing, RecordBlocks, UsedBlocks,
         CountedPtrs

LEMMA TargetFullNext ==
  ASSUME FullAt(dir', tool'.file, fd'[ino].pos, wr'.phase)
  PROVE  TargetFull'
<1>1. ino' = ino
  BY DEF ino
<1>2. QED
  BY <1>1 DEF TargetFull, FullAt, FullTo, IsOf, ExtCap

LEMMA AttrAimNext ==
  ASSUME tool'.step = "attr" =>
           fd'[ino].slot \in Slot /\ IsOf(dir'[fd'[ino].slot], tool'.file)
  PROVE  AttrAim'
<1>1. ino' = ino
  BY DEF ino
<1>2. QED
  BY <1>1 DEF AttrAim, IsOf, Slot

LEMMA CreatClean ==
  ASSUME TypeOK, Regular, Checkable, Covering, ~MpmDates, NEW f \in Files,
         CleanBut(dir, wr),
         \/ CreatPlain(ino, f[1], f[2]) \/ CreatWithXfcb(ino, f[1], f[2])
         \/ CreatHalf(ino, f[1], f[2])
  PROVE  /\ \A t \in Slot : Clean(dir'[t])
         /\ FullAt(dir', f, 0, "idle")
         /\ disk' = disk /\ wr' = wr /\ wr.phase = "idle"
<1>0. ino \in Handles /\ dir \in [Slot -> Entry] /\ ExtCap \in Nat \ {0}
      /\ Extents \in Nat \ {0}
  BY InoType, Extension, Geometry DEF TypeOK
<1>1. PICK u \in Users, n \in Names : u = f[1] /\ n = f[2]
  BY DEF Files
<1>2. \/ CreatPlain(ino, u, n) \/ CreatWithXfcb(ino, u, n)
      \/ CreatHalf(ino, u, n)
  BY <1>1
<1>3. /\ CreatPlain(ino, u, n) /\ Match(dir, u, n) = {} /\ wr' = wr
      /\ disk' = disk
      /\ \E s \in Slot : dir' = [dir EXCEPT ![s] = NewEntry(u, n)]
  BY <1>0, <1>2, CreatEffect
<1>4. PICK s \in Slot : dir' = [dir EXCEPT ![s] = NewEntry(u, n)]
  BY <1>3
<1>5. \A t \in Slot : ~IsOf(dir[t], f)
  BY <1>1, <1>3, MatchEmpty, UserStatus DEF IsOf
<1>6. wr.phase = "idle"
  BY <1>3 DEF CreatPlain, Quiet
<1> DEFINE new == NewEntry(u, n)
<1>7. \A t \in Slot : dir'[t] = IF t = s THEN new ELSE dir[t]
  BY <1>0, <1>4
<1>8. /\ IsOf(new, f) /\ new.extno = 0 /\ new.blkcnt = 0 /\ new.lrc = 0
      /\ new.ptr = ZeroPtrs
  BY <1>1 DEF NewEntry, IsOf
<1> HIDE DEF new
<1>9. Clean(new)
  BY <1>8, FilesHeld, NewClean
<1>10. FullTo(new, 0)
  <2>1. 0 \div Extents = 0 /\ 0 \div ExtCap = 0 /\ 0 % ExtCap = 0
    BY <1>0, Z3
  <2>2. QED
    BY <1>8, <2>1, FullNew
<1>11. \A t \in Slot : Clean(dir[t])
  BY <1>6 DEF CleanBut
<1>12. QED
  BY <1>3, <1>5, <1>6, <1>7, <1>9, <1>10, <1>11 DEF FullAt

LEMMA UnlinkClean ==
  ASSUME TypeOK, NEW u, NEW n, Unlink(u, n), CleanBut(dir, wr)
  PROVE  (\A t \in Slot : Clean(dir'[t])) /\ disk' = disk /\ wr' = wr
<1>1. PICK gone : dir' = [s \in Slot |-> IF s \in gone
                                         THEN [dir[s] EXCEPT !.status = Free]
                                         ELSE dir[s]]
  BY ZenonT(30) DEF Unlink, Erased
<1>2. \A s \in Slot : dir'[s].status = Free \/ dir'[s] = dir[s]
  BY <1>1 DEF TypeOK, Entry
<1>3. \A s \in Slot : Clean(dir[s])
  BY DEF CleanBut, Unlink, Quiet
<1>4. \A s \in Slot : Clean(dir'[s])
  BY <1>2, <1>3, FreeClean
<1>5. QED
  BY <1>4 DEF Unlink

LEMMA AttrSetClean ==
  ASSUME TypeOK, Regular, Checkable, NEW h \in Handles, NEW a, AttrSet(h, a),
         CleanBut(dir, wr), NEW f \in Files, fd[h].slot \in Slot,
         IsOf(dir[fd[h].slot], f)
  PROVE  (\A t \in Slot : Clean(dir'[t])) /\ disk' = disk /\ wr' = wr
<1> DEFINE own == dir[fd[h].slot]
           S == {fd[h].slot} \cup
                {s \in Match(dir, own.status, own.name) : s > fd[h].slot}
<1>1. dir' = [s \in Slot |-> IF s \in S THEN [dir[s] EXCEPT !.attr = a]
                             ELSE dir[s]]
  BY DEF AttrSet
<1>2. \A s \in Slot : Clean(dir[s])
  BY DEF CleanBut, AttrSet, Quiet
<1>3. \A s \in S : IsOf(dir[s], f)
  BY DEF Match, IsOf
<1> HIDE DEF S
<1>4. ASSUME NEW s \in Slot PROVE Clean(dir'[s])
  <2>1. CASE s \notin S
    BY <1>1, <1>2, <2>1
  <2>2. CASE s \in S
    <3> DEFINE new == [dir[s] EXCEPT !.attr = a]
    <3>1. dir[s] \in Entry
      BY DEF TypeOK
    <3>2. new.status = dir[s].status /\ new.name = dir[s].name
      BY <3>1 DEF Entry
    <3>3. new.extno = dir[s].extno /\ new.blkcnt = dir[s].blkcnt
          /\ new.lrc = dir[s].lrc
      BY <3>1 DEF Entry
    <3>4. new.ptr = dir[s].ptr
      BY <3>1 DEF Entry
    <3>5. dir'[s] = new
      BY <1>1, <2>2
    <3> HIDE DEF new
    <3>6. HoldsFile(dir[s]) /\ dir[s].status \in Nat
      BY <1>3, <2>2, FilesHeld
    <3>7. QED
      BY <1>2, <3>2, <3>3, <3>4, <3>5, <3>6, AttrClean DEF SameSize
  <2>3. QED
    BY <2>1, <2>2
<1>5. QED
  BY <1>4 DEF AttrSet

LEMMA AttrAimStep ==
  ASSUME SessionInv, AttrAim, [ToolsNext]_toolvars
  PROVE  AttrAim'
<1>0. /\ TypeOK /\ Course /\ ToolsTypeOK /\ ino \in Handles
      /\ \A prog, step, args, file, sec :
           IsTool(tool', prog, step, args, file, sec)
             => tool'.step = step /\ tool'.file = file
  BY InoType DEF SessionInv, Owned, Course, IsTool
<1>1. ASSUME tool'.step # "attr" PROVE AttrAim'
  BY <1>1, AttrAimNext
<1>2. ASSUME NEW prog, NEW text, Start(prog, text) PROVE AttrAim'
  BY <1>1, <1>2 DEF Start, NoTool
<1>3. ASSUME NextArg, tool.args > 0 PROVE AttrAim'
  <2>1. tool'.step = "args"
    BY <1>0, <1>3, Updates
  <2>2. QED
    BY <1>1, <2>1
<1>4. ASSUME NEW f \in Files, CopyCreatHalf(f) \/ Remove(f) PROVE AttrAim'
  BY <1>3, <1>4 DEF CopyCreatHalf, Remove, Arg
<1>5. ASSUME NEW f \in Files, CopyCreat(f) PROVE AttrAim'
  BY <1>0, <1>1, <1>5, Updates, ZenonT(30) DEF CopyCreat, Places
<1>6. ASSUME NEW f \in Files, LookUp(f) PROVE AttrAim'
  <2>1. tool'.file = f
    BY <1>0, <1>6, Updates, ZenonT(30) DEF LookUp, Places
  <2>2. PICK low : /\ low \in Lowest(dir, Match(dir, f[1], f[2]))
                   /\ \E size, attr, mode :
                        fd' = [fd EXCEPT ![ino] =
                                 InodeOf(low, size, attr, Unset, mode)]
    BY <1>6 DEF LookUp, Namei
  <2>3. low \in Slot /\ IsOf(dir[low], f)
    BY <2>2 DEF Lowest, Match, IsOf
  <2>4. fd'[ino].slot = low
    BY <1>0, <2>2 DEF TypeOK, InodeOf
  <2>5. dir' = dir
    BY <1>6 DEF LookUp, Namei
  <2>6. QED
    BY <2>1, <2>3, <2>4, <2>5, AttrAimNext
<1>7. CASE CopyOpen \/ CopyChunk \/ CopyAgain \/ Umount
  BY <1>0, <1>1, <1>7, Updates, ZenonT(30)
     DEF CopyOpen, CopyChunk, CopyAgain, Umount, Places
<1>8. CASE CopyWrite
  BY <1>1, <1>8 DEF CopyWrite
<1>9. CASE CopyDone \/ CopyFailed \/ ChangeAttr
  BY <1>0, <1>3, <1>9 DEF CopyDone, CopyFailed, ChangeAttr, At, Course
<1>10. CASE Leave \/ SyncLast \/ Die
  BY <1>1, <1>10 DEF Leave, SyncLast, Die, Gone, NoTool
<1>11. CASE SyncSector
  <2>1. tool.step = "sync" /\ tool.sec < LastDirSec
        /\ tool' = [tool EXCEPT !.sec = tool.sec + 1]
    BY <1>11 DEF SyncSector
  <2>2. IsTool(tool', tool.prog, tool.step, tool.args, tool.file, tool.sec + 1)
    BY <1>0, <2>1, Updates
  <2>3. QED
    BY <1>1, <2>1, <2>2 DEF IsTool
<1>12. CASE UNCHANGED toolvars
  BY <1>12, AttrAimNext DEF toolvars, AttrAim
<1>13. QED
  BY <1>2, <1>4, <1>5, <1>6, <1>7, <1>8, <1>9, <1>10, <1>11, <1>12
     DEF ToolsNext, ToolStep

\* The actions that leave the entries of the file alone
LEMMA TargetFullKeep ==
  ASSUME SizeInv, TargetFull, tool.step \in {"open", "chunk", "write"},
         tool'.file = tool.file, dir' = dir, fd'[ino].pos = fd[ino].pos,
         wr.phase # "fill", wr'.phase # "fill"
  PROVE  TargetFull'
<1>1. FullAt(dir', tool'.file, fd'[ino].pos, wr'.phase)
  BY DEF TargetFull, FullAt
<1>2. QED
  BY <1>1, TargetFullNext

LEMMA CountStep ==
  ASSUME Regular, ~MpmDates, Covering, Straight, Checkable, CountInv,
         [ToolsNext]_toolvars
  PROVE  CountInv'
<1>0. /\ TypeOK /\ Course /\ Place /\ ToolsTypeOK /\ ino \in Handles
      /\ Apart(dir) /\ AlvCovers /\ SizeInv /\ AllClean /\ CleanBut(dir, wr)
      /\ \A prog, step, args, file, sec :
           IsTool(tool', prog, step, args, file, sec)
             => tool'.step = step /\ tool'.file = file
  BY InoType DEF CountInv, AllClean, SizeInv, SessionInv, Owned, UniqueInv,
                 Course, IsTool
<1> DEFINE Done == AllClean' /\ TargetFull'
<1>1. SizeInv' /\ AttrAim'
  BY SizeStep, AttrAimStep DEF CountInv, SizeInv
<1>2. ASSUME tool'.step \notin {"open", "chunk", "write"} PROVE TargetFull'
  BY <1>2 DEF TargetFull
<1>3. ASSUME dir' = dir, disk' = disk, wr.phase # "fill" PROVE AllClean'
  <2>1. \A t \in Slot : Clean(dir[t]) /\ Clean(disk[t])
    BY <1>0, <1>3 DEF AllClean, CleanBut
  <2>2. QED
    BY <1>3, <2>1, AllCleanNext
<1>4. ASSUME \A t \in Slot : Clean(dir'[t]), disk' = disk PROVE AllClean'
  BY <1>0, <1>4, AllCleanNext DEF AllClean
<1>5. ASSUME NextArg, tool.args > 0 PROVE TargetFull'
  <2>1. tool'.step = "args"
    BY <1>0, <1>5, Updates
  <2>2. QED
    BY <1>2, <2>1
<1>6. ASSUME NEW prog, NEW text, Start(prog, text) PROVE Done
  <2>1. tool'.step = "args" /\ dir' = dir /\ disk' = disk /\ wr.phase # "fill"
    BY <1>0, <1>6 DEF Start, NoTool, fsvars, Course
  <2>2. QED
    BY <1>2, <1>3, <2>1
<1>7. ASSUME NEW f \in Files, CopyCreat(f) \/ CopyCreatHalf(f) PROVE Done
  <2>1. \/ CreatPlain(ino, f[1], f[2]) \/ CreatWithXfcb(ino, f[1], f[2])
        \/ CreatHalf(ino, f[1], f[2])
    BY <1>7 DEF CopyCreat, CopyCreatHalf
  <2>2. /\ \A t \in Slot : Clean(dir'[t])
        /\ FullAt(dir', f, 0, "idle")
        /\ disk' = disk /\ wr' = wr /\ wr.phase = "idle"
    BY <1>0, <2>1, CreatClean
  <2>3. CASE CopyCreat(f)
    <3>1. tool'.step = "open" /\ tool'.file = f
      BY <1>0, <2>3, Updates, ZenonT(30) DEF CopyCreat, Places
    <3>2. fd'[ino].pos = 0
      BY <1>0, <2>1, CreatEnds
    <3>3. FullAt(dir', tool'.file, fd'[ino].pos, wr'.phase)
      BY <2>2, <3>1, <3>2
    <3>4. QED
      BY <1>4, <2>2, <3>3, TargetFullNext
  <2>4. CASE CopyCreatHalf(f)
    BY <1>4, <1>5, <2>2, <2>4 DEF CopyCreatHalf, Arg
  <2>5. QED
    BY <1>7, <2>3, <2>4
<1>8. ASSUME NEW f \in Files, Remove(f) PROVE Done
  BY <1>0, <1>4, <1>5, <1>8, UnlinkClean DEF Remove, Arg
<1>9. ASSUME NEW f \in Files, LookUp(f) PROVE Done
  <2>1. tool'.step = "attr"
    BY <1>0, <1>9, Updates, ZenonT(30) DEF LookUp, Places
  <2>2. dir' = dir /\ disk' = disk /\ wr.phase # "fill"
    BY <1>9 DEF LookUp, Namei, Quiet
  <2>3. QED
    BY <1>2, <1>3, <2>1, <2>2
<1>10. ASSUME CopyOpen PROVE Done
  <2>1. /\ tool'.file = tool.file /\ tool.step = "open"
        /\ dir' = dir /\ disk' = disk /\ wr' = wr /\ wr.phase = "idle"
    BY <1>0, <1>10, Updates DEF CopyOpen, Open, Places, At, Quiet
  <2>2. fd'[ino].pos = 0
    <3>1. fd' = [fd EXCEPT ![ino].file = "open", ![ino].pos = 0]
      BY <1>10 DEF CopyOpen, Open
    <3>2. QED
      BY <1>0, <3>1 DEF TypeOK, Inode
  <2>3. fd[ino].pos = 0
    BY <1>0, <2>1 DEF SizeInv, TargetEnd
  <2>4. QED
    BY <1>0, <1>3, <2>1, <2>2, <2>3, TargetFullKeep DEF CountInv
<1>11. ASSUME CopyChunk PROVE Done
  <2>1. tool'.file = tool.file
    BY <1>0, <1>11, Updates, ZenonT(30) DEF CopyChunk, Places
  <2>2. /\ dir' = dir /\ fd' = fd /\ disk' = disk
        /\ tool.step = "chunk" /\ wr.phase = "idle"
    BY <1>11 DEF CopyChunk, WriteBegin, At, Quiet
  <2>3. (\E n : WriteBegin(ino, n)) \/ wr' = [wr EXCEPT !.got = "all"]
    BY <1>11 DEF CopyChunk
  <2>4. wr'.phase # "fill"
    BY <1>0, <2>2, <2>3 DEF WriteBegin, Go, TypeOK, WriteCall
  <2>5. QED
    BY <1>0, <1>3, <2>1, <2>2, <2>4, TargetFullKeep DEF CountInv
<1>12. ASSUME CopyAgain PROVE Done
  <2>0. tool' = [tool EXCEPT !.step = "chunk"]
    BY <1>12 DEF CopyAgain
  <2>1. tool'.file = tool.file
    BY <1>0, <2>0 DEF ToolsTypeOK, Tool
  <2>2. /\ dir' = dir /\ fd' = fd /\ disk' = disk /\ wr' = wr
        /\ tool.step = "write" /\ wr.phase = "idle"
    BY <1>12 DEF CopyAgain, At, Quiet, fsvars
  <2>3. QED
    BY <1>0, <1>3, <2>1, <2>2, TargetFullKeep DEF CountInv
<1>13. ASSUME CopyWrite PROVE Done
  <2>1. /\ tool.step = "write" /\ WriteStep /\ tool' = tool /\ disk' = disk
        /\ wr.phase # "idle" /\ wr.h = ino /\ tool.file \in Files
    BY <1>0, <1>13, WriteFrame DEF CopyWrite, Course
  <2>2. Pos = fd[ino].pos
    BY <2>1 DEF Pos
  <2>3. PICK s \in Slot :
          /\ Ends(dir, s, tool.file, Pos)
          /\ wr.phase \in {"block", "fill"} =>
               wr.extent = s /\ wr.extno = Pos \div Logical
    BY <1>0, <2>1, <2>2 DEF SizeInv, TargetEnd
  <2>4. IsOf(Own, tool.file)
    BY <1>0, <2>1 DEF SizeInv, Target, Own
  <2>5. FullAt(dir, tool.file, Pos, wr.phase)
    BY <2>1, <2>2 DEF CountInv, TargetFull
  <2>6. /\ FullAt(dir', tool.file, fd'[wr.h].pos, wr'.phase)
        /\ \A t \in Slot :
             Clean(dir'[t]) \/ (wr'.phase = "fill" /\ t = wr'.extent)
    BY <1>0, <2>1, <2>3, <2>4, <2>5, WriteFull
  <2>7. AllClean'
    BY <1>0, <2>1, <2>6, AllCleanNext DEF AllClean
  <2>8. QED
    BY <2>1, <2>6, <2>7, TargetFullNext
<1>14. ASSUME CopyDone \/ CopyFailed PROVE Done
  <2>1. dir' = dir /\ disk' = disk /\ wr.phase # "fill"
    BY <1>14 DEF CopyDone, CopyFailed, Utime, Restamped, fsvars, At, Quiet
  <2>2. TargetFull'
    BY <1>0, <1>5, <1>14 DEF CopyDone, CopyFailed, At, Course
  <2>3. QED
    BY <1>3, <2>1, <2>2
<1>15. ASSUME ChangeAttr PROVE Done
  <2>1. PICK a : AttrSet(ino, a)
    BY <1>15 DEF ChangeAttr, Chmod
  <2>2. tool.step = "attr" /\ tool.file \in Files /\ NextArg /\ tool.args > 0
    BY <1>0, <1>15 DEF ChangeAttr, At, Course
  <2>3. fd[ino].slot \in Slot /\ IsOf(dir[fd[ino].slot], tool.file)
    BY <2>2 DEF CountInv, AttrAim
  <2>4. (\A t \in Slot : Clean(dir'[t])) /\ disk' = disk
    BY <1>0, <2>1, <2>2, <2>3, AttrSetClean
  <2>5. QED
    BY <1>4, <1>5, <2>2, <2>4
<1>16. ASSUME Umount PROVE Done
  <2>1. tool'.step = "sync"
    BY <1>0, <1>16, Updates, ZenonT(30) DEF Umount, Places
  <2>2. dir' = dir /\ disk' = disk /\ wr.phase # "fill"
    BY <1>16 DEF Umount, fsvars, Quiet
  <2>3. QED
    BY <1>2, <1>3, <2>1, <2>2
<1>17. ASSUME tool.step = "sync"
       PROVE  \A t \in Slot : Clean(Synced[t]) /\ Clean(dir[t])
  <2>1. wr.phase = "idle"
    BY <1>0, <1>17 DEF Course
  <2>2. \A t \in Slot : Synced[t] = dir[t] \/ Synced[t] = disk[t]
    BY DEF Synced
  <2>3. QED
    BY <1>0, <2>1, <2>2 DEF AllClean, CleanBut
<1>18. ASSUME SyncSector PROVE Done
  <2>1. tool.step = "sync" /\ tool.sec < LastDirSec
        /\ tool' = [tool EXCEPT !.sec = tool.sec + 1]
        /\ disk' = Synced /\ dir' = dir
    BY <1>18 DEF SyncSector
  <2>2. IsTool(tool', tool.prog, tool.step, tool.args, tool.file, tool.sec + 1)
    BY <1>0, <2>1, Updates
  <2>3. TargetFull'
    BY <1>2, <2>1, <2>2 DEF IsTool
  <2>4. QED
    BY <1>17, <2>1, <2>3, AllCleanNext
<1>19. ASSUME Leave \/ SyncLast \/ Die PROVE Done
  <2>1. /\ tool'.step = "args" /\ dir' = disk'
        /\ disk' = disk \/ (tool.step = "sync" /\ disk' = Synced)
    BY <1>19 DEF Leave, SyncLast, Die, Gone, NoTool, Mount
  <2>2. \A t \in Slot : Clean(disk'[t])
    <3>1. CASE disk' = disk
      BY <1>0, <3>1 DEF AllClean
    <3>2. CASE tool.step = "sync" /\ disk' = Synced
      BY <1>17, <3>2
    <3>3. QED
      BY <2>1, <3>1, <3>2
  <2>3. AllClean'
    BY <2>1, <2>2, AllCleanNext
  <2>4. QED
    BY <1>2, <2>1, <2>3
<1>20. ASSUME UNCHANGED toolvars PROVE Done
  <2>1. AllClean'
    BY <1>0, <1>20, AllCleanNext DEF toolvars, AllClean, CleanBut
  <2>2. CASE tool.step \in {"open", "chunk", "write"}
    <3>1. FullAt(dir', tool'.file, fd'[ino].pos, wr'.phase)
      BY <1>20, <2>2 DEF toolvars, CountInv, TargetFull
    <3>2. QED
      BY <2>1, <3>1, TargetFullNext
  <2>3. CASE tool.step \notin {"open", "chunk", "write"}
    BY <1>2, <1>20, <2>1, <2>3 DEF toolvars
  <2>4. QED
    BY <2>2, <2>3
<1>21. Done
  <2> HIDE DEF Done
  <2>1. QED
    BY <1>6, <1>7, <1>8, <1>9, <1>10, <1>11, <1>12, <1>13, <1>14, <1>15,
       <1>16, <1>18, <1>19, <1>20 DEF ToolsNext, ToolStep
<1>22. QED
  BY <1>1, <1>21 DEF CountInv

\* Whatever cpmcp, cpmrm, cpmchattr and cpmchmod leave on an image that fsck.cpm
\* passes, it passes again, at whatever point they die: the record count of each
\* entry agrees with its blocks, whatever the sizes of blocks, records and
\* extents, no status or attribute is refused, and no block or extent is held
\* twice.
THEOREM ProgramsPassFsck ==
  ASSUME Regular, ~MpmDates, Covering, Straight, Checkable,
         \A d \in Images : Passes(d)
  PROVE  ToolsSpec => []ImagePassesFsck
<1>1. ASSUME ToolsInit PROVE CountInv
  <2>1. SizeInv
    BY <1>1, SizeInit
  <2>2. disk \in Images /\ dir = disk /\ tool.step = "args"
    BY <1>1 DEF ToolsInit, Init, NoTool
  <2>3. \A t \in Slot : Clean(disk[t])
    <3>1. \A t \in Slot, k \in DOMAIN Checks : ~Fails(disk[t], Checks[k])
      BY <2>2 DEF Passes
    <3>2. /\ DOMAIN Checks = 1 .. 7
          /\ Checks[1] = "name" /\ Checks[2] = "lrc" /\ Checks[4] = "count"
          /\ Checks[5] = "mode" /\ Checks[6] = "password"
          /\ Checks[7] = "status"
      BY DEF Checks
    <3>3. \A t \in Slot : \A check \in {"name", "lrc", "count", "mode",
                                        "password", "status"} :
            \E k \in 1 .. 7 : Checks[k] = check
      BY <3>2
    <3>4. QED
      BY <3>1, <3>2, <3>3 DEF Clean
  <2>4. QED
    BY <2>1, <2>2, <2>3 DEF CountInv, AllClean, CleanBut, TargetFull, AttrAim
<1>2. ASSUME CountInv, [ToolsNext]_toolvars PROVE CountInv'
  BY <1>2, CountStep
<1>3. ASSUME CountInv PROVE ImagePassesFsck
  <2>1. /\ NotShared(disk) /\ InDataArea(disk) /\ Apart(disk)
        /\ \A t \in Slot : Clean(disk[t]) /\ disk[t] \in Entry
    BY <1>3 DEF CountInv, AllClean, SizeInv, SessionInv, Owned, UniqueInv,
                Disjoint, TypeOK
  <2>2. ASSUME NEW t \in Slot, HoldsFile(disk[t])
        PROVE  t \in FileSlots(disk)
    <3>1. disk[t].status <= MaxFileUser
      <4>1. disk[t].status \in Nat
        BY <2>1 DEF Entry, Status
      <4>2. CASE IsP2dos
        <5>1. MaxFileUser = 31
          BY <4>2 DEF Checkable, IsP2dos, MaxFileUser
        <5>2. QED
          BY <2>2, <4>2, <5>1 DEF HoldsFile
      <4>3. CASE ~IsP2dos
        <5>1. MaxFileUser \in {15, 31} /\ disk[t].status <= 15
          BY <2>2, <4>3, GeometryAssumption
             DEF GeometryAssumption, MaxFileUser, HoldsFile
        <5>2. QED
          BY <4>1, <5>1
      <4>4. QED
        BY <4>2, <4>3
    <3>2. QED
      BY <3>1 DEF FileSlots
  <2>3. ASSUME NEW t \in Slot, NEW k \in DOMAIN Checks
        PROVE  ~Fails(disk[t], Checks[k])
    <3>1. Checks[k] \in {"name", "lrc", "block", "count", "mode", "password",
                         "status"}
      BY DEF Checks
    <3>2. ~Fails(disk[t], "block")
      <4>1. SUFFICES ASSUME HoldsFile(disk[t]), BadBlock(disk[t]) PROVE FALSE
        BY DEF Fails
      <4>2. Refs(disk[t]) \subseteq DirBlks .. Size - 1
        BY <2>1, <2>2, <4>1 DEF InDataArea
      <4>3. QED
        BY <4>1, <4>2, Geometry DEF BadBlock
    <3>3. QED
      BY <2>1, <3>1, <3>2 DEF Clean
  <2>4. ~DoubleBlocks(disk)
    <3> SUFFICES ASSUME NEW s \in Slot, NEW t \in Slot, NEW i \in PtrIx,
                        NEW j \in PtrIx, <<s, i>> # <<t, j>>,
                        HoldsFile(disk[s]), HoldsFile(disk[t]),
                        disk[s].ptr[i] # 0, disk[s].ptr[i] = disk[t].ptr[j]
                 PROVE  FALSE
      BY DEF DoubleBlocks
    <3>1. s \in FileSlots(disk) /\ t \in FileSlots(disk)
      BY <2>2
    <3>2. s = t /\ i = j
      BY <2>1, <3>1, NotSharedUse
    <3>3. QED
      BY <3>2
  <2>5. ~DoubleExtents(disk)
    <3> SUFFICES ASSUME NEW s \in Slot, NEW t \in Slot, s # t,
                        HoldsFile(disk[s]), disk[s].status = disk[t].status,
                        disk[s].name = disk[t].name,
                        disk[s].extno = disk[t].extno
                 PROVE  FALSE
      BY DEF DoubleExtents
    <3>1. SameExtent(disk[t], disk[s]) /\ s \in FileSlots(disk)
      BY <2>2 DEF SameExtent
    <3>2. QED
      BY <2>1, <3>1 DEF Apart
  <2>6. QED
    BY <2>3, <2>4, <2>5 DEF ImagePassesFsck, Passes
<1>4. QED
  BY <1>1, <1>2, <1>3, PTL DEF ToolsSpec

-----------------------------------------------------------------------------
(* The attributes of a file                                                *)

\* The number of the physical extent
PhysOf(entry) == entry.extno \div Extents

SameFile(a, b) == a.status = b.status /\ a.name = b.name

\* The entries of a file lie in the directory in the order of their extents.
\* cpmAttrSet starts at the lowest extent and goes only forward.
Orderly(d) ==
  \A s, t \in FileSlots(d) :
    SameFile(d[s], d[t]) => (PhysOf(d[s]) < PhysOf(d[t]) => s < t)

\* The entries of file f that directory d has agree, or are those of e.
Alike(d, f) ==
  \A s, t \in Slot : IsOf(d[s], f) /\ IsOf(d[t], f) => d[s].attr = d[t].attr
Intact(d, e, f) ==
  \A s \in Slot : IsOf(d[s], f) => IsOf(e[s], f) /\ d[s].attr = e[s].attr

\* AttrsAgree, of any two directories
Settled(d, image) == \A f \in Files : Alike(d, f) \/ Intact(d, image, f)

InOrder(d, image) == Orderly(d) /\ Orderly(image) /\ Settled(d, image)

\* No entry of file f is behind a free one, or beyond the position.
Foremost(d, f, pos) ==
  \A t \in Slot :
    IsOf(d[t], f) =>
      /\ \A r \in FreeSlots(d) : t < r
      /\ PhysOf(d[t]) <= (pos \div Logical) \div Extents

TargetFore ==
  tool.step \in {"open", "chunk", "write"} =>
    /\ Foremost(dir, tool.file, fd[ino].pos)
    /\ tool.step = "open" => fd[ino].pos = 0

\* What cpmchattr and cpmchmod looked up is the first entry of its file.
AttrFirst ==
  tool.step = "attr" =>
    \A t \in Slot : IsOf(dir[t], tool.file) => fd[ino].slot <= t

\* AttrsAgree is not inductive: it says nothing of the order of the entries,
\* which decides whom cpmAttrSet reaches, nor of the order on the image that a
\* session starts from.
AttrsInv == /\ SessionInv /\ Target /\ AttrAim
            /\ InOrder(dir, disk) /\ TargetFore /\ AttrFirst

LEMMA InOrderNext ==
  ASSUME Orderly(dir'), Orderly(disk'), Settled(dir', disk')
  PROVE  InOrder(dir, disk)'
  BY DEF InOrder, Settled, Alike, Intact, IsOf, Files, Orderly, FileSlots,
         SameFile, PhysOf, MaxFileUser, Slot

LEMMA FileOnce ==
  ASSUME NEW entry, NEW f, NEW g, IsOf(entry, f), IsOf(entry, g)
  PROVE  \A d : Alike(d, f) => Alike(d, g)
<1>1. f[1] = g[1] /\ f[2] = g[2]
  BY DEF IsOf
<1>2. \A x : IsOf(x, f) <=> IsOf(x, g)
  BY <1>1 DEF IsOf
<1> SUFFICES ASSUME NEW d, Alike(d, f), NEW s \in Slot, NEW t \in Slot,
                    IsOf(d[s], g), IsOf(d[t], g)
             PROVE  d[s].attr = d[t].attr
  BY DEF Alike
<1>3. IsOf(d[s], f) /\ IsOf(d[t], f)
  BY <1>2
<1>4. QED
  BY <1>3 DEF Alike

LEMMA SettledIs ==
  ASSUME dir \in [Slot -> Entry], Settled(dir, disk)
  PROVE  AttrsAgree
<1> SUFFICES ASSUME NEW f \in Files
             PROVE  \/ Agree(dir, f)
                    \/ \A s \in Match(dir, f[1], f[2]) :
                         /\ s \in Match(disk, f[1], f[2])
                         /\ dir[s].attr = disk[s].attr
  BY DEF AttrsAgree
<1>1. \A s \in Match(dir, f[1], f[2]) : s \in Slot /\ IsOf(dir[s], f)
  BY DEF Match, IsOf
<1>2. ASSUME NEW s \in Slot, IsOf(dir[s], f), IsOf(disk[s], f)
      PROVE  s \in Match(dir, f[1], f[2]) => s \in Match(disk, f[1], f[2])
  BY <1>2 DEF Match, IsOf
<1>3. Alike(dir, f) \/ Intact(dir, disk, f)
  BY DEF Settled
<1>4. Alike(dir, f) => Agree(dir, f)
  BY <1>1 DEF Alike, Agree
<1>5. QED
  BY <1>1, <1>2, <1>3, <1>4 DEF Intact

\* A step after which the entries of each file agree, or were there before it
LEMMA SettledStays ==
  ASSUME NEW d, NEW e, NEW image, Settled(d, image),
         \A f \in Files : Alike(e, f) \/ Intact(e, d, f)
  PROVE  Settled(e, image)
<1> SUFFICES ASSUME NEW f \in Files, ~Alike(e, f) PROVE Intact(e, image, f)
  BY DEF Settled
<1>1. Intact(e, d, f)
  OBVIOUS
<1>2. ~Alike(d, f)
  BY <1>1 DEF Intact, Alike
<1>3. Intact(d, image, f)
  BY <1>2 DEF Settled
<1>4. QED
  BY <1>1, <1>3 DEF Intact

\* What cpmSync writes keeps the entries of the directory that are on the image.
LEMMA SettledSync ==
  ASSUME NEW d, NEW image, NEW e, Settled(d, image),
         \A s \in Slot : e[s] = d[s] \/ e[s] = image[s]
  PROVE  Settled(d, e)
  BY DEF Settled, Intact

LEMMA SettledSelf ==
  ASSUME NEW d
  PROVE  Settled(d, d)
  BY DEF Settled, Intact

LEMMA TargetForeNext ==
  ASSUME Foremost(dir', tool'.file, fd'[ino].pos),
         tool'.step = "open" => fd'[ino].pos = 0
  PROVE  TargetFore'
<1>1. ino' = ino
  BY DEF ino
<1>2. QED
  BY <1>1 DEF TargetFore, Foremost, IsOf, FreeSlots, PhysOf, Slot

LEMMA AttrFirstNext ==
  ASSUME tool'.step = "attr" =>
           \A t \in Slot : IsOf(dir'[t], tool'.file) => fd'[ino].slot <= t
  PROVE  AttrFirst'
<1>1. ino' = ino
  BY DEF ino
<1>2. QED
  BY <1>1 DEF AttrFirst, IsOf, Slot

\* Entries that go, or change neither file nor extent
LEMMA OrderlyKept ==
  ASSUME NEW d, NEW e, Orderly(d),
         \A s \in FileSlots(e) :
           s \in FileSlots(d) /\ SameExtent(d[s], e[s])
  PROVE  Orderly(e)
<1> SUFFICES ASSUME NEW s \in FileSlots(e), NEW t \in FileSlots(e),
                    SameFile(e[s], e[t]), PhysOf(e[s]) < PhysOf(e[t])
             PROVE  s < t
  BY DEF Orderly
<1>1. /\ s \in FileSlots(d) /\ SameExtent(d[s], e[s])
      /\ t \in FileSlots(d) /\ SameExtent(d[t], e[t])
  OBVIOUS
<1>2. SameFile(d[s], d[t]) /\ PhysOf(d[s]) = PhysOf(e[s])
      /\ PhysOf(d[t]) = PhysOf(e[t])
  BY <1>1 DEF SameFile, SameExtent, PhysOf
<1>3. QED
  BY <1>1, <1>2 DEF Orderly

\* A new entry at the first free slot, for the highest extent of its file
LEMMA OrderlyAdded ==
  ASSUME NEW d, NEW e, Orderly(d), NEW r \in Slot, r \in FreeSlots(d), NEW f,
         \A t \in Slot : t # r => e[t] = d[t],
         IsOf(e[r], f), PhysOf(e[r]) \in Nat,
         \A t \in Slot :
           IsOf(d[t], f) => t < r /\ ~(PhysOf(e[r]) < PhysOf(d[t]))
  PROVE  Orderly(e)
<1> SUFFICES ASSUME NEW s \in FileSlots(e), NEW t \in FileSlots(e),
                    SameFile(e[s], e[t]), PhysOf(e[s]) < PhysOf(e[t])
             PROVE  s < t
  BY DEF Orderly
<1>0. s \in Slot /\ t \in Slot
  BY DEF FileSlots
<1>1. CASE s # r /\ t # r
  <2>1. s \in FileSlots(d) /\ t \in FileSlots(d) /\ e[s] = d[s] /\ e[t] = d[t]
    BY <1>0, <1>1 DEF FileSlots
  <2>2. QED
    BY <2>1 DEF Orderly
<1>2. CASE s # r /\ t = r
  <2>1. e[s] = d[s] /\ IsOf(d[s], f)
    BY <1>0, <1>2 DEF SameFile, IsOf
  <2>2. QED
    BY <1>0, <1>2, <2>1
<1>3. CASE s = r /\ t # r
  <2>1. e[t] = d[t] /\ IsOf(d[t], f)
    BY <1>0, <1>3 DEF SameFile, IsOf
  <2>2. QED
    BY <1>0, <1>3, <2>1
<1>4. CASE s = r /\ t = r
  <2>1. ~(PhysOf(e[r]) < PhysOf(e[r]))
    OBVIOUS
  <2>2. QED
    BY <1>4, <2>1
<1>5. QED
  BY <1>1, <1>2, <1>3, <1>4


LEMMA PhysType ==
  ASSUME NEW d \in [Slot -> Entry]
  PROVE  \A t \in Slot : PhysOf(d[t]) \in Nat
<1> SUFFICES ASSUME NEW t \in Slot PROVE PhysOf(d[t]) \in Nat
  OBVIOUS
<1>1. d[t].extno \in Nat /\ Extents \in Nat \ {0}
  BY ExtnoType, Geometry
<1>2. QED
  BY <1>1, DivParts DEF PhysOf

LEMMA CreatOrderly ==
  ASSUME TypeOK, Regular, ~MpmDates, NEW f \in Files, InOrder(dir, disk),
         \/ CreatPlain(ino, f[1], f[2]) \/ CreatWithXfcb(ino, f[1], f[2])
         \/ CreatHalf(ino, f[1], f[2])
  PROVE  /\ Orderly(dir') /\ Settled(dir', disk) /\ Foremost(dir', f, 0)
         /\ disk' = disk /\ wr' = wr
<1>0. /\ ino \in Handles /\ dir \in [Slot -> Entry]
      /\ Extents \in Nat \ {0} /\ Logical \in Nat \ {0}
  BY InoType, Geometry DEF TypeOK
<1>1. PICK u \in Users, n \in Names : u = f[1] /\ n = f[2]
  BY DEF Files
<1>2. \/ CreatPlain(ino, u, n) \/ CreatWithXfcb(ino, u, n)
      \/ CreatHalf(ino, u, n)
  BY <1>1
<1>3. /\ CreatPlain(ino, u, n) /\ Match(dir, u, n) = {} /\ wr' = wr
      /\ disk' = disk
  BY <1>0, <1>2, CreatEffect
<1>4. PICK s \in Firsts(FreeSlots(dir)) :
        dir' = [dir EXCEPT ![s] = NewEntry(u, n)]
  BY <1>3 DEF CreatPlain, Restamped
<1>5. s \in Slot /\ s \in FreeSlots(dir) /\ \A r \in FreeSlots(dir) : s <= r
  BY DEF Firsts, FreeSlots
<1>6. \A t \in Slot : ~IsOf(dir[t], f)
  BY <1>1, <1>3, MatchEmpty, UserStatus DEF IsOf
<1> DEFINE new == NewEntry(u, n)
<1>7. \A t \in Slot : dir'[t] = IF t = s THEN new ELSE dir[t]
  BY <1>0, <1>4
<1>8. IsOf(new, f) /\ new.extno = 0
  BY <1>1 DEF NewEntry, IsOf
<1> HIDE DEF new
<1>9. PhysOf(new) = 0 /\ (0 \div Logical) \div Extents = 0
  <2>1. 0 \div Extents = 0 /\ 0 \div Logical = 0
    BY <1>0, Z3
  <2>2. QED
    BY <1>8, <2>1 DEF PhysOf
<1>10. Orderly(dir') /\ Settled(dir', disk)
  <2>1. IsOf(dir'[s], f) /\ PhysOf(dir'[s]) \in Nat
    BY <1>5, <1>7, <1>8, <1>9
  <2>2. \A t \in Slot : t # s => dir'[t] = dir[t]
    BY <1>7
  <2>3. Orderly(dir')
    BY <1>5, <1>6, <2>1, <2>2, OrderlyAdded DEF InOrder
  <2>4. Alike(dir', f)
    BY <1>6, <2>2 DEF Alike
  <2>5. ASSUME NEW g \in Files PROVE Alike(dir', g) \/ Intact(dir', dir, g)
    <3>1. CASE IsOf(dir'[s], g)
      BY <2>1, <2>4, <3>1, FileOnce
    <3>2. CASE ~IsOf(dir'[s], g)
      BY <2>2, <3>2 DEF Intact
    <3>3. QED
      BY <3>1, <3>2
  <2>6. QED
    BY <2>3, <2>5, SettledStays DEF InOrder
<1>11. new.status # Free
  BY <1>8, FileOf
<1>12. Foremost(dir', f, 0)
  <2> SUFFICES ASSUME NEW t \in Slot, IsOf(dir'[t], f)
               PROVE  /\ \A r \in FreeSlots(dir') : t < r
                      /\ PhysOf(dir'[t]) <= (0 \div Logical) \div Extents
    BY DEF Foremost
  <2>1. t = s
    BY <1>6, <1>7
  <2>2. ASSUME NEW r \in FreeSlots(dir') PROVE t < r
    <3>1. r \in Slot /\ r # s
      BY <1>7, <1>11 DEF FreeSlots
    <3>2. r \in FreeSlots(dir)
      BY <1>7, <2>2, <3>1 DEF FreeSlots
    <3>3. s \in Int /\ r \in Int
      BY <1>5, <3>1 DEF Slot
    <3>4. QED
      BY <1>5, <2>1, <3>1, <3>2, <3>3
  <2>3. QED
    BY <1>7, <1>9, <2>1, <2>2
<1>13. QED
  BY <1>3, <1>10, <1>12

LEMMA UnlinkOrderly ==
  ASSUME TypeOK, Regular, NEW u, NEW n, Unlink(u, n), InOrder(dir, disk)
  PROVE  Orderly(dir') /\ Settled(dir', disk) /\ disk' = disk
<1>1. PICK gone : dir' = [s \in Slot |-> IF s \in gone
                                         THEN [dir[s] EXCEPT !.status = Free]
                                         ELSE dir[s]]
  BY ZenonT(30) DEF Unlink, Erased
<1>2. \A s \in Slot : dir'[s].status = Free \/ dir'[s] = dir[s]
  BY <1>1 DEF TypeOK, Entry
<1>3. ASSUME NEW s \in FileSlots(dir')
      PROVE  s \in FileSlots(dir) /\ dir'[s] = dir[s]
  <2>1. s \in Slot /\ dir'[s].status # Free
    BY Geometry DEF FileSlots
  <2>2. QED
    BY <1>2, <2>1 DEF FileSlots
<1>4. Orderly(dir')
  BY <1>3, OrderlyKept DEF SameExtent, InOrder
<1>5. ASSUME NEW f \in Files PROVE Intact(dir', dir, f)
  <2> SUFFICES ASSUME NEW s \in Slot, IsOf(dir'[s], f) PROVE dir'[s] = dir[s]
    BY DEF Intact
  <2>1. dir'[s].status # Free
    BY FileOf
  <2>2. QED
    BY <1>2, <2>1
<1>6. Settled(dir', disk)
  BY <1>5, SettledStays DEF InOrder
<1>7. QED
  BY <1>4, <1>6 DEF Unlink

\* cpmAttrSet at the first entry of a file sets all of them.
LEMMA AttrSetOrderly ==
  ASSUME TypeOK, Regular, NEW h \in Handles, NEW a, AttrSet(h, a),
         InOrder(dir, disk), NEW f \in Files, fd[h].slot \in Slot,
         IsOf(dir[fd[h].slot], f),
         \A t \in Slot : IsOf(dir[t], f) => fd[h].slot <= t
  PROVE  Orderly(dir') /\ Settled(dir', disk) /\ disk' = disk
<1> DEFINE own == dir[fd[h].slot]
           S == {fd[h].slot} \cup
                {s \in Match(dir, own.status, own.name) : s > fd[h].slot}
<1>1. dir' = [s \in Slot |-> IF s \in S THEN [dir[s] EXCEPT !.attr = a]
                             ELSE dir[s]]
  BY DEF AttrSet
<1>2. \A s \in Slot : s \in S <=> IsOf(dir[s], f)
  <2> SUFFICES ASSUME NEW s \in Slot PROVE s \in S <=> IsOf(dir[s], f)
    OBVIOUS
  <2>1. s \in S => IsOf(dir[s], f)
    BY DEF Match, IsOf
  <2>2. ASSUME IsOf(dir[s], f) PROVE s \in S
    <3>1. s = fd[h].slot \/ s > fd[h].slot
      BY <2>2 DEF Slot
    <3>2. s \in Match(dir, own.status, own.name)
      BY <2>2, FileOf DEF Match, IsOf
    <3>3. QED
      BY <3>1, <3>2
  <2>3. QED
    BY <2>1, <2>2
<1> HIDE DEF S
<1>3. ASSUME NEW s \in Slot
      PROVE  /\ dir'[s].status = dir[s].status /\ dir'[s].name = dir[s].name
             /\ PhysOf(dir'[s]) = PhysOf(dir[s])
             /\ dir'[s].attr = IF IsOf(dir[s], f) THEN a ELSE dir[s].attr
  <2>1. dir[s] \in Entry
    BY DEF TypeOK
  <2> DEFINE new == [dir[s] EXCEPT !.attr = a]
  <2>2. dir'[s] = IF s \in S THEN new ELSE dir[s]
    BY <1>1
  <2>3. /\ new.status = dir[s].status /\ new.name = dir[s].name
        /\ new.extno = dir[s].extno
    BY <2>1 DEF Entry
  <2>4. new.attr = a
    BY <2>1 DEF Entry
  <2> HIDE DEF new
  <2>5. QED
    BY <1>2, <2>2, <2>3, <2>4 DEF PhysOf
<1>4. FileSlots(dir') = FileSlots(dir)
  BY <1>3 DEF FileSlots
<1>5. Orderly(dir')
  <2> SUFFICES ASSUME NEW s \in FileSlots(dir), NEW t \in FileSlots(dir),
                      SameFile(dir'[s], dir'[t]),
                      PhysOf(dir'[s]) < PhysOf(dir'[t])
               PROVE  s < t
    BY <1>4 DEF Orderly
  <2>0. s \in Slot /\ t \in Slot
    BY DEF FileSlots
  <2>1. SameFile(dir[s], dir[t])
    BY <1>3, <2>0 DEF SameFile
  <2>2. PhysOf(dir[s]) < PhysOf(dir[t])
    BY <1>3, <2>0
  <2>3. QED
    BY <2>1, <2>2 DEF Orderly, InOrder
<1>6. Alike(dir', f)
  <2> SUFFICES ASSUME NEW s \in Slot, NEW t \in Slot,
                      IsOf(dir'[s], f), IsOf(dir'[t], f)
               PROVE  dir'[s].attr = dir'[t].attr
    BY DEF Alike
  <2>1. IsOf(dir[s], f) /\ IsOf(dir[t], f)
    BY <1>3 DEF IsOf
  <2>2. QED
    BY <1>3, <2>1
<1>7. ASSUME NEW g \in Files PROVE Alike(dir', g) \/ Intact(dir', dir, g)
  <2>1. CASE \E s \in Slot : IsOf(dir[s], f) /\ IsOf(dir[s], g)
    BY <1>6, <2>1, FileOnce
  <2>2. CASE \A s \in Slot : ~(IsOf(dir[s], f) /\ IsOf(dir[s], g))
    <3> SUFFICES ASSUME NEW s \in Slot, IsOf(dir'[s], g)
                 PROVE  IsOf(dir[s], g) /\ dir'[s].attr = dir[s].attr
      BY DEF Intact
    <3>1. IsOf(dir[s], g)
      BY <1>3 DEF IsOf
    <3>2. QED
      BY <1>3, <2>2, <3>1
  <2>3. QED
    BY <2>1, <2>2
<1>8. Settled(dir', disk)
  BY <1>7, SettledStays DEF InOrder
<1>9. QED
  BY <1>5, <1>8 DEF AttrSet

LEMMA PhysMonotone ==
  ASSUME NEW a \in Nat, NEW b \in Nat, a <= b
  PROVE  /\ (a \div Logical) \div Extents <= (b \div Logical) \div Extents
         /\ (a \div Logical) \div Extents \in Nat
         /\ (b \div Logical) \div Extents \in Nat
<1> DEFINE x == a \div Logical
           y == b \div Logical
<1>0. Logical \in Nat \ {0} /\ Extents \in Nat \ {0}
  BY Geometry
<1>1. x \in Nat /\ y \in Nat
  BY <1>0, DivParts
<1>2. x <= y
  BY <1>0, DivMonotone
<1> HIDE DEF x, y
<1>3. x \div Extents <= y \div Extents
  BY <1>0, <1>1, <1>2, DivMonotone
<1>4. x \div Extents \in Nat /\ y \div Extents \in Nat
  BY <1>0, <1>1, DivParts
<1>5. QED
  BY <1>3, <1>4 DEF x, y

\* The steps of cpmWrite that make no entry
LEMMA WriteKeepsOrder ==
  ASSUME TypeOK, Regular, ~MpmDates, Place, WriteStep, ~ExtentAdded
  PROVE  /\ \A s \in Slot : /\ SameExtent(dir[s], dir'[s])
                            /\ dir'[s].attr = dir[s].attr
         /\ fd'[wr.h].pos \in Nat /\ Pos <= fd'[wr.h].pos
<1>0. /\ wr.phase # "idle" /\ dir \in [Slot -> Entry] /\ wr.h \in Handles
      /\ Pos \in Nat /\ wr.count \in Nat \ {0}
  BY WriteFrame, WriteLocals DEF TypeOK
<1>1. ASSUME dir' = dir, fd' = fd
      PROVE  /\ \A s \in Slot : /\ SameExtent(dir[s], dir'[s])
                                /\ dir'[s].attr = dir[s].attr
             /\ fd'[wr.h].pos \in Nat /\ Pos <= fd'[wr.h].pos
  BY <1>0, <1>1 DEF SameExtent, Pos
<1>2. CASE BlockAllocated
  <2>1. PICK b \in Block : dir' = [dir EXCEPT ![wr.extent].ptr[PtrAt(Pos)] = b]
    BY <1>2 DEF BlockAllocated, Restamped, Firsts
  <2>2. dir[wr.extent] \in Entry /\ PtrAt(Pos) \in PtrIx
    BY <1>0, <1>2, WriteLocals, PtrAtType DEF BlockAllocated
  <2> DEFINE i == PtrAt(Pos)
             new == [dir[wr.extent] EXCEPT !.ptr[i] = b]
  <2>3. dir' = [dir EXCEPT ![wr.extent] = new]
    BY <2>1
  <2> HIDE DEF i
  <2>4. /\ new.status = dir[wr.extent].status
        /\ new.name = dir[wr.extent].name /\ new.extno = dir[wr.extent].extno
        /\ new.attr = dir[wr.extent].attr
    BY <2>2 DEF Entry
  <2> HIDE DEF new
  <2>5. \A t \in Slot : dir'[t] = IF t = wr.extent THEN new ELSE dir[t]
    BY <1>0, <2>3
  <2>6. fd' = fd
    BY <1>2 DEF BlockAllocated
  <2>7. QED
    BY <1>0, <2>4, <2>5, <2>6 DEF SameExtent, Pos
<1>3. CASE Filled
  <2>1. PICK last \in PtrIx :
          /\ dir' = [dir EXCEPT ![wr.extent] =
                       Recorded(@, wr.extno + (last * BlkSiz) \div ExtCap,
                                Pos + Room(Pos, wr.count))]
          /\ \E size : fd' = [fd EXCEPT ![wr.h].pos = Pos + Room(Pos, wr.count),
                                        ![wr.h].size = size]
    BY <1>3 DEF Filled, Restamped, Last
  <2>2. /\ wr.extno \in Nat /\ wr.extno < 2048 /\ dir[wr.extent] \in Entry
        /\ dir[wr.extent].extno \div Extents = wr.extno \div Extents
    BY <1>0, <1>3, WriteLocals DEF Filled, Place
  <2>3. wr.extno + (last * BlkSiz) \div ExtCap = wr.extno
    BY <2>2, LastWithin
  <2> DEFINE new == Recorded(dir[wr.extent], wr.extno, Pos + Room(Pos, wr.count))
  <2>4. dir' = [dir EXCEPT ![wr.extent] = new]
    BY <2>1, <2>3
  <2>5. /\ new.status = dir[wr.extent].status /\ new.attr = dir[wr.extent].attr
        /\ new.name = dir[wr.extent].name /\ new.extno = wr.extno
    <3>1. wr.extno % 2048 = wr.extno
      BY <2>2
    <3>2. QED
      BY <3>1 DEF Recorded
  <2> HIDE DEF new
  <2>6. \A t \in Slot : dir'[t] = IF t = wr.extent THEN new ELSE dir[t]
    BY <1>0, <2>4
  <2>7. \A s \in Slot : SameExtent(dir[s], dir'[s]) /\ dir'[s].attr = dir[s].attr
    BY <2>2, <2>5, <2>6 DEF SameExtent
  <2>8. fd'[wr.h].pos = Pos + Room(Pos, wr.count)
    BY <1>0, <2>1 DEF TypeOK, Inode
  <2>9. Room(Pos, wr.count) \in Nat
    BY <1>0, RoomType
  <2>10. QED
    BY <1>0, <2>7, <2>8, <2>9
<1>4. QED
  BY <1>1, <1>2, <1>3 DEF WriteStep, ExtentFound, ExtentDenied, BlockFound,
                          BlockUnreadable, BlockDenied

LEMMA WriteOrderly ==
  ASSUME TypeOK, Regular, ~MpmDates, Place, WriteStep, NEW f \in Files,
         IsOf(Own, f), InOrder(dir, disk), Foremost(dir, f, Pos),
         \A s \in Slot : ~IsOf(disk[s], f)
  PROVE  /\ Orderly(dir') /\ Settled(dir', disk)
         /\ Foremost(dir', f, fd'[wr.h].pos) /\ disk' = disk
<1>0. /\ wr.phase # "idle" /\ dir \in [Slot -> Entry] /\ wr.h \in Handles
      /\ Pos \in Nat /\ disk' = disk /\ fd[wr.h].slot \in Slot
      /\ Extents \in Nat \ {0} /\ Logical \in Nat \ {0}
      /\ Pos \div Logical \in Nat /\ Pos \div Logical < 2048
      /\ Orderly(dir) /\ Settled(dir, disk)
  BY WriteFrame, WriteLocals, PosWithin, Geometry DEF TypeOK, Inode, InOrder
<1>1. CASE ExtentAdded
  <2> DEFINE x == Pos \div Logical
  <2>1. PICK r \in Firsts(FreeSlots(dir)) :
          dir' = [dir EXCEPT ![r] = Extended(Own, x)]
    BY <1>1 DEF ExtentAdded, Restamped
  <2>2. /\ r \in Slot /\ r \in FreeSlots(dir)
        /\ \A t \in FreeSlots(dir) : r <= t
    BY DEF Firsts, FreeSlots
  <2> DEFINE new == Extended(Own, x)
  <2>3. \A t \in Slot : dir'[t] = IF t = r THEN new ELSE dir[t]
    BY <1>0, <2>1, <2>2
  <2>4. IsOf(new, f) /\ new.extno = x /\ new.attr = Own.attr
    <3>1. x % 2048 = x
      BY <1>0
    <3>2. QED
      BY <3>1 DEF IsOf, Extended
  <2> HIDE DEF new
  <2>5. PhysOf(new) = x \div Extents /\ PhysOf(new) \in Nat
    BY <1>0, <2>4, DivParts DEF PhysOf
  <2>6. ASSUME NEW t \in Slot, IsOf(dir[t], f)
        PROVE  /\ t < r /\ dir[t].attr = new.attr
               /\ PhysOf(dir[t]) <= PhysOf(new)
    <3>1. t < r /\ PhysOf(dir[t]) <= PhysOf(new)
      BY <2>2, <2>5, <2>6 DEF Foremost
    <3>2. ~Intact(dir, disk, f)
      BY <2>6 DEF Intact
    <3>3. Alike(dir, f)
      BY <1>0, <3>2 DEF Settled
    <3>4. dir[t].attr = Own.attr
      BY <1>0, <2>6, <3>3 DEF Alike, Own
    <3>5. QED
      BY <2>4, <3>1, <3>4
  <2>7. \A t \in Slot : PhysOf(dir[t]) \in Nat
    BY <1>0, PhysType
  <2>8. Orderly(dir')
    <3>1. IsOf(dir'[r], f) /\ PhysOf(dir'[r]) \in Nat
      BY <2>2, <2>3, <2>4, <2>5
    <3>2. \A t \in Slot : t # r => dir'[t] = dir[t]
      BY <2>3
    <3>3. \A t \in Slot :
            IsOf(dir[t], f) => t < r /\ ~(PhysOf(dir'[r]) < PhysOf(dir[t]))
      BY <2>2, <2>3, <2>5, <2>6, <2>7
    <3>4. QED
      BY <1>0, <2>2, <3>1, <3>2, <3>3, OrderlyAdded
  <2>9. Foremost(dir', f, Pos)
    <3> SUFFICES ASSUME NEW t \in Slot, IsOf(dir'[t], f)
                 PROVE  /\ \A z \in FreeSlots(dir') : t < z
                        /\ PhysOf(dir'[t]) <= x \div Extents
      BY DEF Foremost
    <3>1. ASSUME NEW z \in FreeSlots(dir')
          PROVE  z \in Slot /\ z # r /\ z \in FreeSlots(dir)
      <4>1. new.status # Free
        BY <2>4, FileOf
      <4>2. QED
        BY <2>3, <4>1 DEF FreeSlots
    <3>2. CASE t = r
      <4>1. \A z \in FreeSlots(dir') : t < z
        BY <2>2, <3>1, <3>2 DEF Slot
      <4>2. QED
        BY <2>2, <2>3, <2>5, <3>2, <4>1
    <3>3. CASE t # r
      BY <2>3, <3>1, <3>3 DEF Foremost
    <3>4. QED
      BY <3>2, <3>3
  <2>10. fd'[wr.h].pos = Pos
    BY <1>1 DEF ExtentAdded, Pos
  <2>11. Alike(dir', f)
    <3>1. \A t \in Slot : IsOf(dir'[t], f) => dir'[t].attr = new.attr
      BY <2>3, <2>6
    <3>2. QED
      BY <3>1 DEF Alike
  <2>12. ASSUME NEW g \in Files PROVE Alike(dir', g) \/ Intact(dir', dir, g)
    <3>1. CASE IsOf(new, g)
      BY <2>4, <2>11, <3>1, FileOnce
    <3>2. CASE ~IsOf(new, g)
      BY <2>3, <3>2 DEF Intact
    <3>3. QED
      BY <3>1, <3>2
  <2>13. Settled(dir', disk)
    BY <1>0, <2>12, SettledStays
  <2>14. QED
    BY <1>0, <2>8, <2>9, <2>10, <2>13
<1>2. CASE ~ExtentAdded
  <2>1. /\ \A s \in Slot : SameExtent(dir[s], dir'[s])
                           /\ dir'[s].attr = dir[s].attr
        /\ fd'[wr.h].pos \in Nat /\ Pos <= fd'[wr.h].pos
    BY <1>2, WriteKeepsOrder
  <2>2. \A s \in Slot : dir'[s].status = dir[s].status
                        /\ dir'[s].name = dir[s].name
                        /\ PhysOf(dir'[s]) = PhysOf(dir[s])
    BY <2>1 DEF SameExtent, PhysOf
  <2>3. FileSlots(dir') = FileSlots(dir) /\ FreeSlots(dir') = FreeSlots(dir)
    BY <2>2 DEF FileSlots, FreeSlots
  <2>4. Orderly(dir')
    <3>1. \A s \in FileSlots(dir') :
            s \in FileSlots(dir) /\ SameExtent(dir[s], dir'[s])
      BY <2>1, <2>3 DEF FileSlots
    <3>2. QED
      BY <1>0, <3>1, OrderlyKept
  <2> DEFINE old == (Pos \div Logical) \div Extents
             pos == fd'[wr.h].pos
  <2>5. old <= (pos \div Logical) \div Extents /\ old \in Nat
        /\ (pos \div Logical) \div Extents \in Nat
    <3> HIDE DEF pos
    <3>1. pos \in Nat /\ Pos <= pos
      BY <2>1 DEF pos
    <3>2. QED
      BY <1>0, <3>1, PhysMonotone
  <2>6. Foremost(dir', f, pos)
    <3> HIDE DEF pos
    <3> SUFFICES ASSUME NEW t \in Slot, IsOf(dir'[t], f)
                 PROVE  /\ \A z \in FreeSlots(dir') : t < z
                        /\ PhysOf(dir'[t]) <= (pos \div Logical) \div Extents
      BY DEF Foremost
    <3>1. IsOf(dir[t], f)
      BY <2>2 DEF IsOf
    <3>2. (\A z \in FreeSlots(dir) : t < z) /\ PhysOf(dir[t]) <= old
      BY <3>1 DEF Foremost
    <3>3. PhysOf(dir[t]) \in Nat
      BY <1>0, PhysType
    <3> HIDE DEF old
    <3>4. QED
      BY <2>2, <2>3, <2>5, <3>2, <3>3
  <2>7. \A g \in Files : Intact(dir', dir, g)
    BY <2>1, <2>2 DEF Intact, IsOf
  <2>8. Settled(dir', disk)
    BY <1>0, <2>7, SettledStays
  <2>9. QED
    BY <1>0, <2>4, <2>6, <2>8
<1>3. QED
  BY <1>1, <1>2

AttrsDone == (InOrder(dir, disk) /\ TargetFore /\ AttrFirst)'

LEMMA AttrsStep ==
  ASSUME Regular, ~MpmDates, AttrsInv, [ToolsNext]_toolvars
  PROVE  AttrsInv'
<1>0. /\ TypeOK /\ Course /\ Place /\ ToolsTypeOK /\ ino \in Handles
      /\ Apart(dir) /\ SessionInv /\ InOrder(dir, disk)
      /\ Orderly(dir) /\ Orderly(disk) /\ Settled(dir, disk)
      /\ dir \in [Slot -> Entry]
      /\ \A prog, step, args, file, sec :
           IsTool(tool', prog, step, args, file, sec)
             => tool'.step = step /\ tool'.file = file
  BY InoType DEF AttrsInv, SessionInv, Owned, UniqueInv, TypeOK, Course, IsTool,
                 InOrder
<1>1. SessionInv' /\ Target' /\ AttrAim'
  BY SessionStep, TargetStep, AttrAimStep DEF AttrsInv
<1>2. ASSUME tool'.step = "args" \/ tool'.step = "sync",
             Orderly(dir'), Orderly(disk'), Settled(dir', disk')
      PROVE  AttrsDone
  BY <1>2, InOrderNext DEF AttrsDone, TargetFore, AttrFirst
<1>3. ASSUME NextArg, tool.args > 0, Orderly(dir'), Settled(dir', disk),
             disk' = disk
      PROVE  AttrsDone
  <2>1. tool'.step = "args"
    BY <1>0, <1>3, Updates
  <2>2. QED
    BY <1>0, <1>2, <1>3, <2>1
<1>4. ASSUME tool.step \in {"open", "chunk", "write"}, tool'.file = tool.file,
             dir' = dir, disk' = disk, fd'[ino].pos \in Nat,
             fd[ino].pos <= fd'[ino].pos, tool'.step \notin {"attr", "open"}
      PROVE  AttrsDone
  <2>1. Foremost(dir, tool.file, fd[ino].pos) /\ fd[ino].pos \in Nat
    BY <1>0, <1>4 DEF AttrsInv, TargetFore, TypeOK, Inode
  <2>2. Foremost(dir', tool'.file, fd'[ino].pos)
    <3> DEFINE a == fd[ino].pos
               b == fd'[ino].pos
    <3> HIDE DEF a, b
    <3>1. a \in Nat /\ b \in Nat /\ a <= b
      BY <1>4, <2>1 DEF a, b
    <3>2. /\ (a \div Logical) \div Extents <= (b \div Logical) \div Extents
          /\ (a \div Logical) \div Extents \in Nat
          /\ (b \div Logical) \div Extents \in Nat
      BY <3>1, PhysMonotone
    <3>3. Foremost(dir, tool.file, a)
      BY <2>1 DEF a
    <3>4. \A t \in Slot : PhysOf(dir[t]) \in Nat
      BY <1>0, PhysType
    <3>5. Foremost(dir, tool.file, b)
      BY <3>2, <3>3, <3>4 DEF Foremost
    <3>6. QED
      BY <1>4, <3>5 DEF b
  <2>3. TargetFore'
    BY <1>4, <2>2, TargetForeNext
  <2>4. AttrFirst'
    BY <1>4 DEF AttrFirst
  <2>5. QED
    BY <1>0, <1>4, <2>3, <2>4, InOrderNext DEF AttrsDone
<1>5. ASSUME NEW prog, NEW text, Start(prog, text) PROVE AttrsDone
  BY <1>0, <1>2, <1>5 DEF Start, NoTool, fsvars
<1>6. ASSUME NEW f \in Files, CopyCreat(f) \/ CopyCreatHalf(f) PROVE AttrsDone
  <2>1. \/ CreatPlain(ino, f[1], f[2]) \/ CreatWithXfcb(ino, f[1], f[2])
        \/ CreatHalf(ino, f[1], f[2])
    BY <1>6 DEF CopyCreat, CopyCreatHalf
  <2>2. /\ Orderly(dir') /\ Settled(dir', disk) /\ Foremost(dir', f, 0)
        /\ disk' = disk /\ wr' = wr
    BY <1>0, <2>1, CreatOrderly
  <2>3. CASE CopyCreat(f)
    <3>1. tool'.step = "open" /\ tool'.file = f
      BY <1>0, <2>3, Updates, ZenonT(30) DEF CopyCreat, Places
    <3>2. fd'[ino].pos = 0
      <4>1. \E s, x : Created(ino, s, x)
        BY <2>3 DEF CopyCreat, CreatPlain, CreatWithXfcb
      <4>2. QED
        BY <1>0, <4>1 DEF Created, InodeOf, TypeOK
    <3>3. TargetFore'
      BY <2>2, <3>1, <3>2, TargetForeNext
    <3>4. AttrFirst'
      BY <3>1 DEF AttrFirst
    <3>5. QED
      BY <1>0, <2>2, <3>3, <3>4, InOrderNext DEF AttrsDone
  <2>4. CASE CopyCreatHalf(f)
    BY <1>3, <2>2, <2>4 DEF CopyCreatHalf, Arg
  <2>5. QED
    BY <1>6, <2>3, <2>4
<1>7. ASSUME NEW f \in Files, Remove(f) PROVE AttrsDone
  BY <1>0, <1>3, <1>7, UnlinkOrderly DEF Remove, Arg
<1>8. ASSUME NEW f \in Files, LookUp(f) PROVE AttrsDone
  <2>1. tool'.step = "attr" /\ tool'.file = f
    BY <1>0, <1>8, Updates, ZenonT(30) DEF LookUp, Places
  <2>2. PICK low : /\ low \in Lowest(dir, Match(dir, f[1], f[2]))
                   /\ \E size, attr, mode :
                        fd' = [fd EXCEPT ![ino] =
                                 InodeOf(low, size, attr, Unset, mode)]
    BY <1>8 DEF LookUp, Namei
  <2>3. fd'[ino].slot = low /\ dir' = dir /\ disk' = disk
    BY <1>0, <1>8, <2>2 DEF TypeOK, InodeOf, LookUp, Namei
  <2>4. low \in Slot /\ IsOf(dir[low], f)
    BY <2>2 DEF Lowest, Match, IsOf
  <2>5. ASSUME NEW t \in Slot, IsOf(dir[t], f) PROVE low <= t
    <3>1. /\ t \in Match(dir, f[1], f[2])
          /\ t \in FileSlots(dir) /\ low \in FileSlots(dir)
      BY <2>4, <2>5, FileOf DEF Match, FileSlots, IsOf
    <3>2. dir[low].extno <= dir[t].extno
          /\ dir[low].extno \in Nat /\ dir[t].extno \in Nat
      <4>1. dir[low].extno \in Nat /\ dir[t].extno \in Nat
        BY <1>0, <2>4, ExtnoType
      <4>2. dir[low].extno < dir[t].extno \/ dir[low].extno = dir[t].extno
        BY <2>2, <3>1 DEF Lowest
      <4>3. QED
        BY <4>1, <4>2
    <3>3. /\ PhysOf(dir[low]) <= PhysOf(dir[t])
          /\ PhysOf(dir[low]) \in Nat /\ PhysOf(dir[t]) \in Nat
      <4>1. Extents \in Nat \ {0}
        BY Geometry
      <4>2. PhysOf(dir[low]) <= PhysOf(dir[t])
        BY <3>2, <4>1, DivMonotone DEF PhysOf
      <4>3. QED
        BY <1>0, <2>4, <4>2, PhysType
    <3>4. SameFile(dir[low], dir[t])
      BY <2>4, <2>5 DEF SameFile, IsOf
    <3>5. CASE PhysOf(dir[low]) < PhysOf(dir[t])
      <4>1. low < t
        BY <1>0, <3>1, <3>4, <3>5 DEF Orderly
      <4>2. QED
        BY <2>4, <4>1 DEF Slot
    <3>6. CASE PhysOf(dir[low]) = PhysOf(dir[t])
      <4>1. SameExtent(dir[t], dir[low])
        BY <3>4, <3>6 DEF SameFile, SameExtent, PhysOf
      <4>2. t = low
        BY <1>0, <3>1, <4>1 DEF Apart
      <4>3. QED
        BY <4>2 DEF Slot
    <3>7. QED
      BY <3>3, <3>5, <3>6
  <2>6. AttrFirst'
    BY <2>1, <2>3, <2>5, AttrFirstNext
  <2>7. TargetFore'
    BY <2>1 DEF TargetFore
  <2>8. QED
    BY <1>0, <2>3, <2>6, <2>7, InOrderNext DEF AttrsDone
<1>9. fd[ino].pos \in Nat
  BY <1>0 DEF TypeOK, Inode
<1>10. ASSUME CopyOpen PROVE AttrsDone
  <2>1. /\ tool'.file = tool.file /\ tool'.step = "chunk" /\ tool.step = "open"
        /\ dir' = dir /\ disk' = disk
    BY <1>0, <1>10, Updates DEF CopyOpen, Open, Places, At
  <2>2. fd'[ino].pos = 0
    <3>1. fd' = [fd EXCEPT ![ino].file = "open", ![ino].pos = 0]
      BY <1>10 DEF CopyOpen, Open
    <3>2. QED
      BY <1>0, <3>1 DEF TypeOK, Inode
  <2>3. fd[ino].pos = 0
    BY <2>1 DEF AttrsInv, TargetFore
  <2>4. QED
    BY <1>4, <2>1, <2>2, <2>3
<1>11. ASSUME CopyChunk PROVE AttrsDone
  <2>1. tool'.file = tool.file /\ tool'.step = "write"
    BY <1>0, <1>11, Updates, ZenonT(30) DEF CopyChunk, Places
  <2>2. dir' = dir /\ fd' = fd /\ disk' = disk /\ tool.step = "chunk"
    BY <1>11 DEF CopyChunk, WriteBegin, At
  <2>3. QED
    BY <1>4, <1>9, <2>1, <2>2
<1>12. ASSUME CopyAgain PROVE AttrsDone
  <2>0. tool' = [tool EXCEPT !.step = "chunk"]
    BY <1>12 DEF CopyAgain
  <2>1. tool'.file = tool.file /\ tool'.step = "chunk"
    BY <1>0, <2>0 DEF ToolsTypeOK, Tool
  <2>2. dir' = dir /\ fd' = fd /\ disk' = disk /\ tool.step = "write"
    BY <1>12 DEF CopyAgain, At, fsvars
  <2>3. QED
    BY <1>4, <1>9, <2>1, <2>2
<1>13. ASSUME CopyWrite PROVE AttrsDone
  <2>1. /\ tool.step = "write" /\ WriteStep /\ tool' = tool
        /\ wr.phase # "idle" /\ wr.h = ino /\ tool.file \in Files
    BY <1>0, <1>13, WriteFrame DEF CopyWrite, Course
  <2>2. Pos = fd[ino].pos /\ IsOf(Own, tool.file)
    BY <2>1 DEF Pos, Own, AttrsInv, Target
  <2>3. Foremost(dir, tool.file, Pos)
    BY <2>1, <2>2 DEF AttrsInv, TargetFore
  <2>4. /\ Orderly(dir') /\ Settled(dir', disk)
        /\ Foremost(dir', tool.file, fd'[wr.h].pos) /\ disk' = disk
    <3>1. Match(disk, tool.file[1], tool.file[2]) = {}
      BY <2>1 DEF AttrsInv, Target
    <3>2. \A s \in Slot : IsOf(disk[s], tool.file) => disk[s].status <= MaxStatus
      BY <1>0, <2>1, FileOf
    <3>3. \A s \in Slot : ~IsOf(disk[s], tool.file)
      BY <3>1, <3>2 DEF Match, IsOf
    <3>4. QED
      BY <1>0, <2>1, <2>2, <2>3, <3>3, WriteOrderly
  <2>5. TargetFore'
    BY <2>1, <2>4, TargetForeNext
  <2>6. AttrFirst'
    BY <2>1 DEF AttrFirst
  <2>7. QED
    BY <1>0, <2>4, <2>5, <2>6, InOrderNext DEF AttrsDone
<1>14. ASSUME CopyDone \/ CopyFailed PROVE AttrsDone
  <2>1. dir' = dir /\ disk' = disk /\ NextArg /\ tool.args > 0
    BY <1>0, <1>14
       DEF CopyDone, CopyFailed, Utime, Restamped, fsvars, At, Course
  <2>2. QED
    BY <1>0, <1>3, <2>1
<1>15. ASSUME ChangeAttr PROVE AttrsDone
  <2>1. PICK a : AttrSet(ino, a)
    BY <1>15 DEF ChangeAttr, Chmod
  <2>2. tool.step = "attr" /\ tool.file \in Files /\ NextArg /\ tool.args > 0
    BY <1>0, <1>15 DEF ChangeAttr, At, Course
  <2>3. /\ fd[ino].slot \in Slot /\ IsOf(dir[fd[ino].slot], tool.file)
        /\ \A t \in Slot : IsOf(dir[t], tool.file) => fd[ino].slot <= t
    BY <2>2 DEF AttrsInv, AttrAim, AttrFirst
  <2>4. Orderly(dir') /\ Settled(dir', disk) /\ disk' = disk
    BY <1>0, <2>1, <2>2, <2>3, AttrSetOrderly
  <2>5. QED
    BY <1>3, <2>2, <2>4
<1>16. ASSUME Umount PROVE AttrsDone
  <2>1. tool'.step = "sync"
    BY <1>0, <1>16, Updates, ZenonT(30) DEF Umount, Places
  <2>2. QED
    BY <1>0, <1>2, <1>16, <2>1 DEF Umount, fsvars
<1>17. Orderly(Synced) /\ \A s \in Slot : Synced[s] = dir[s] \/ Synced[s] = disk[s]
  <2>1. Within(Synced, dir) \/ Within(Synced, disk)
    BY <1>0, SyncedBetween
  <2>2. ASSUME NEW d, Orderly(d), Within(Synced, d) PROVE Orderly(Synced)
    <3>1. \A s \in FileSlots(Synced) :
            s \in FileSlots(d) /\ SameExtent(d[s], Synced[s])
      BY <2>2 DEF Within, Grown, SameExtent
    <3>2. QED
      BY <2>2, <3>1, OrderlyKept
  <2>3. QED
    BY <1>0, <2>1, <2>2 DEF Synced
<1>18. ASSUME SyncSector PROVE AttrsDone
  <2>1. dir' = dir /\ disk' = Synced /\ tool' = [tool EXCEPT !.sec = @ + 1]
        /\ tool.step = "sync"
    BY <1>18 DEF SyncSector
  <2>2. tool'.step = "sync"
    BY <1>0, <2>1 DEF ToolsTypeOK, Tool
  <2>3. Settled(dir', disk')
    BY <1>0, <1>17, <2>1, SettledSync
  <2>4. QED
    BY <1>0, <1>2, <1>17, <2>1, <2>2, <2>3
<1>19. ASSUME Leave \/ SyncLast \/ Die PROVE AttrsDone
  <2>1. tool'.step = "args" /\ dir' = disk' /\ (disk' = disk \/ disk' = Synced)
    BY <1>19 DEF Leave, SyncLast, Die, Gone, NoTool, Mount
  <2>2. Settled(dir', disk')
    BY <2>1, SettledSelf
  <2>3. QED
    BY <1>0, <1>2, <1>17, <2>1, <2>2
<1>20. ASSUME UNCHANGED toolvars PROVE AttrsDone
  <2>1. /\ Orderly(dir') /\ Orderly(disk') /\ Settled(dir', disk')
        /\ tool' = tool /\ fd' = fd /\ dir' = dir
    BY <1>0, <1>20 DEF toolvars
  <2>2. TargetFore'
    <3>1. CASE tool.step \in {"open", "chunk", "write"}
      <4>1. /\ Foremost(dir', tool'.file, fd'[ino].pos)
            /\ tool'.step = "open" => fd'[ino].pos = 0
        BY <2>1, <3>1 DEF AttrsInv, TargetFore
      <4>2. QED
        BY <4>1, TargetForeNext
    <3>2. CASE tool.step \notin {"open", "chunk", "write"}
      BY <2>1, <3>2 DEF TargetFore
    <3>3. QED
      BY <3>1, <3>2
  <2>3. AttrFirst'
    <3>1. tool'.step = "attr" =>
            \A t \in Slot : IsOf(dir'[t], tool'.file) => fd'[ino].slot <= t
      BY <2>1 DEF AttrsInv, AttrFirst
    <3>2. QED
      BY <3>1, AttrFirstNext
  <2>4. QED
    BY <2>1, <2>2, <2>3, InOrderNext DEF AttrsDone
<1>21. AttrsDone
  BY <1>5, <1>6, <1>7, <1>8, <1>10, <1>11, <1>12, <1>13, <1>14, <1>15,
     <1>16, <1>18, <1>19, <1>20 DEF ToolsNext, ToolStep
<1>22. QED
  BY <1>1, <1>21 DEF AttrsInv, AttrsDone

\* No call of a session makes the entries of a file differ in attributes, and
\* none that sets them leaves an entry behind: the entries of a file lie in the
\* order of their extents, so the lowest, where cpmAttrSet starts, is the first
\* of them, and cpmcp and every cpmSync that is cut short keep that order.  A
\* file that disagrees is one a session found so on the image, untouched.
THEOREM AttributesAgree ==
  ASSUME Regular, ~MpmDates, \A d \in Images : Orderly(d)
  PROVE  ToolsSpec => []AttrsAgree
<1>1. ASSUME ToolsInit PROVE AttrsInv
  <2>1. SessionInv
    BY <1>1, SessionInit
  <2>2. disk \in Images /\ dir = disk /\ tool.step = "args"
    BY <1>1 DEF ToolsInit, Init, NoTool
  <2>3. InOrder(dir, disk)
    BY <2>2, SettledSelf DEF InOrder
  <2>4. QED
    BY <2>1, <2>2, <2>3 DEF AttrsInv, Target, AttrAim, TargetFore, AttrFirst
<1>2. ASSUME AttrsInv, [ToolsNext]_toolvars PROVE AttrsInv'
  BY <1>2, AttrsStep
<1>3. ASSUME AttrsInv PROVE AttrsAgree
  <2>1. dir \in [Slot -> Entry]
    BY <1>3 DEF AttrsInv, SessionInv, Owned, TypeOK
  <2>2. QED
    BY <1>3, <2>1, SettledIs DEF AttrsInv, InOrder
<1>4. QED
  BY <1>1, <1>2, <1>3, PTL DEF ToolsSpec

=============================================================================
