-------------------------- MODULE DirectoryProofs ---------------------------
(* More theorems about CpmFS: the entries of the directory, whatever names, *)
(* users and images there are.                                              *)
EXTENDS CpmFSProofs, WellFoundedInduction

USE DEF NoSlot, Unset, Free, Sfcb

-----------------------------------------------------------------------------
(* Extents are unique.  Two entries are apart if not both stand for the    *)
(* same physical extent of the same file.                                  *)

SameExtent(a, b) == /\ a.status = b.status /\ a.name = b.name
                    /\ a.extno \div Extents = b.extno \div Extents

Apart(d) ==
  \A s \in FileSlots(d), t \in Slot : SameExtent(d[t], d[s]) => t = s

LEMMA ApartIsUnique ==
  ASSUME NEW d \in [Slot -> Entry]
  PROVE  OneEntryPerExtent(d) <=> Apart(d)
<1>1. \A s \in FileSlots(d) : s \in Slot /\ d[s].status <= MaxStatus
  <2> SUFFICES ASSUME NEW s \in FileSlots(d)
               PROVE  s \in Slot /\ d[s].status <= MaxStatus
    OBVIOUS
  <2>1. s \in Slot /\ d[s].status <= MaxFileUser
    BY DEF FileSlots
  <2>2. d[s].status \in 0 .. 255
    BY <2>1, EntryFields DEF Status
  <2>3. QED
    BY <2>1, <2>2, Geometry
<1>2. \A s \in FileSlots(d) :
        MatchExtent(d, d[s].status, d[s].name, d[s].extno)
          = {t \in Slot : SameExtent(d[t], d[s])}
  BY <1>1 DEF MatchExtent, Match, SameExtent
<1>3. \A s \in FileSlots(d) : SameExtent(d[s], d[s])
  BY DEF SameExtent
<1>4. \A s \in FileSlots(d) :
        {t \in Slot : SameExtent(d[t], d[s])} = {s}
          <=> \A t \in Slot : SameExtent(d[t], d[s]) => t = s
  BY <1>1, <1>3
<1>5. QED
  BY <1>2, <1>4 DEF OneEntryPerExtent, Apart

\* An entry that is put into a directory without one for its extent.
LEMMA AddedApart ==
  ASSUME NEW d \in [Slot -> Entry], Apart(d), NEW s \in Slot, NEW e \in Entry,
         \A t \in Slot : t # s => ~SameExtent(d[t], e)
  PROVE  Apart([d EXCEPT ![s] = e])
<1> DEFINE f == [d EXCEPT ![s] = e]
<1>1. \A t \in Slot : f[t] = IF t = s THEN e ELSE d[t]
  OBVIOUS
<1> HIDE DEF f
<1>2. \A a, b : SameExtent(a, b) <=> SameExtent(b, a)
  BY DEF SameExtent
<1>3. ASSUME NEW r \in FileSlots(f), NEW t \in Slot, SameExtent(f[t], f[r])
      PROVE  t = r
  <2>1. r \in Slot
    BY DEF FileSlots
  <2>2. CASE r = s \/ t = s
    BY <1>1, <1>2, <1>3, <2>1, <2>2
  <2>3. CASE r # s /\ t # s
    <3>1. f[r] = d[r] /\ f[t] = d[t]
      BY <1>1, <2>1, <2>3
    <3>2. r \in FileSlots(d)
      BY <2>1, <3>1 DEF FileSlots
    <3>3. QED
      BY <1>3, <3>1, <3>2 DEF Apart
  <2>4. QED
    BY <2>2, <2>3
<1>4. Apart(f)
  BY <1>3 DEF Apart
<1>5. QED
  BY <1>4 DEF f

\* Each file entry of e stands for the extent that it stood for in d.
Stand(d, e) ==
  \A s \in FileSlots(e) : s \in FileSlots(d) /\ SameExtent(d[s], e[s])

LEMMA StandApart ==
  ASSUME NEW d, NEW e, Apart(d), Stand(d, e)
  PROVE  Apart(e)
<1> SUFFICES ASSUME NEW s \in FileSlots(e), NEW t \in Slot,
                    SameExtent(e[t], e[s])
             PROVE  t = s
  BY DEF Apart
<1>1. t \in FileSlots(e)
  BY DEF FileSlots, SameExtent
<1>2. /\ s \in FileSlots(d) /\ SameExtent(d[s], e[s])
      /\ t \in FileSlots(d) /\ SameExtent(d[t], e[t])
  BY <1>1 DEF Stand
<1>3. SameExtent(d[t], d[s]) /\ t \in Slot
  BY <1>2 DEF SameExtent
<1>4. QED
  BY <1>2, <1>3 DEF Apart

\* Dates change nothing but pointers.
LEMMA RestampedKeeps ==
  ASSUME NEW d \in [Slot -> Entry], NEW x, NEW e \in Restamped(d, x), NEW s \in Slot
  PROVE  /\ e[s].status = d[s].status /\ e[s].name = d[s].name
         /\ e[s].attr = d[s].attr /\ e[s].extno = d[s].extno
         /\ e[s].blkcnt = d[s].blkcnt /\ e[s].lrc = d[s].lrc
<1>1. CASE MpmDates /\ x # NoSlot
  <2>1. PICK p \in Stamps : e = [d EXCEPT ![x].ptr = p]
    BY <1>1, Zenon DEF Restamped
  <2>2. e[s] = d[s] \/ e[s] = [d[s] EXCEPT !.ptr = p]
    BY <2>1
  <2>3. \A c \in Entry : LET r == [c EXCEPT !.ptr = p]
                         IN /\ r.status = c.status /\ r.name = c.name
                            /\ r.attr = c.attr /\ r.extno = c.extno
                            /\ r.blkcnt = c.blkcnt /\ r.lrc = c.lrc
    BY DEF Entry
  <2>4. d[s] \in Entry
    OBVIOUS
  <2>5. CASE e[s] = d[s]
    BY <2>5
  <2>6. CASE e[s] = [d[s] EXCEPT !.ptr = p]
    BY <2>3, <2>4, <2>6, Zenon
  <2>7. QED
    BY <2>2, <2>5, <2>6
<1>2. CASE ~(MpmDates /\ x # NoSlot)
  BY <1>2, Zenon DEF Restamped
<1>3. QED
  BY <1>1, <1>2

LEMMA RestampedApart ==
  ASSUME NEW d \in [Slot -> Entry], Apart(d), NEW x, NEW e \in Restamped(d, x)
  PROVE  Apart(e)
<1>1. Stand(d, e)
  BY RestampedKeeps DEF Stand, SameExtent, FileSlots
<1>2. QED
  BY <1>1, StandApart

\* cpmRename moves the entries of S to user w, name m.
LEMMA RenamedFields ==
  ASSUME NEW d \in [Slot -> Entry], NEW S, NEW w \in Status, NEW m \in Names,
         NEW s \in Slot
  PROVE  /\ Renamed(d, S, w, m)[s].extno = d[s].extno
         /\ Renamed(d, S, w, m)[s].status = IF s \in S THEN w ELSE d[s].status
         /\ Renamed(d, S, w, m)[s].name = IF s \in S THEN m ELSE d[s].name
<1>1. d[s] \in Entry
  OBVIOUS
<1>2. Renamed(d, S, w, m)[s] = IF s \in S
                               THEN [d[s] EXCEPT !.status = w, !.name = m]
                               ELSE d[s]
  BY DEF Renamed
<1>3. QED
  BY <1>1, <1>2, SMTT(30) DEF Entry

\* The hypotheses: password entries do not take part in files, the pointers of
\* an entry hold one physical extent exactly, and files end before the last
\* extent number.
Regular ==
  /\ HasXfcbs => Users \subseteq 0 .. 15
  /\ ExtCap = NPtr * BlkSiz
  /\ MaxPos <= 2048 * Logical

LEMMA UserStatus ==
  ASSUME Regular, NEW u \in Users
  PROVE  /\ u \in 0 .. 31 /\ u <= MaxStatus /\ u <= MaxFileUser
         /\ u + 16 \in Status
         /\ HasXfcbs => u + 16 <= MaxStatus /\ ~(u + 16 <= MaxFileUser)
<1>1. CASE HasXfcbs
  BY <1>1, GeometryAssumption
     DEF Regular, GeometryAssumption, MaxFileUser, Status
<1>2. CASE ~HasXfcbs
  BY <1>2, GeometryAssumption, InputAssumption
     DEF GeometryAssumption, InputAssumption, MaxFileUser, Status
<1>3. QED
  BY <1>1, <1>2

\* No entry has the user and name of a file that is not there.
LEMMA MatchEmpty ==
  ASSUME NEW d, NEW u, u <= MaxStatus, NEW n, Match(d, u, n) = {}, NEW t \in Slot
  PROVE  ~(d[t].status = u /\ d[t].name = n)
  BY DEF Match

LEMMA CallApart ==
  ASSUME TypeOK, Regular, Apart(dir), Call
  PROVE  Apart(dir')
<1> USE DEF TypeOK
<1>1. ASSUME NEW u \in Users, NEW n \in Names, Match(dir, u, n) = {},
             NEW s \in Slot
      PROVE  /\ [dir EXCEPT ![s] = NewEntry(u, n)] \in [Slot -> Entry]
             /\ Apart([dir EXCEPT ![s] = NewEntry(u, n)])
  <2>1. NewEntry(u, n) \in Entry /\ u <= MaxStatus
    BY NewEntryType, StatusTypes, UserStatus
  <2>2. \A t \in Slot : ~SameExtent(dir[t], NewEntry(u, n))
    BY <1>1, <2>1, MatchEmpty DEF SameExtent, NewEntry
  <2>3. QED
    BY <2>1, <2>2, AddedApart
<1>2. ASSUME NEW h \in Handles, NEW u \in Users, NEW n \in Names,
             CreatPlain(h, u, n)
      PROVE  Apart(dir')
  <2>1. PICK s \in Slot, x \in Slot \cup {NoSlot} :
          dir' \in Restamped([dir EXCEPT ![s] = NewEntry(u, n)], x)
    BY <1>2, SlotTypes DEF CreatPlain
  <2>2. QED
    BY <1>1, <1>2, <2>1, RestampedApart DEF CreatPlain
<1>3. ASSUME NEW h \in Handles, NEW u \in Users, NEW n \in Names,
             CreatWithXfcb(h, u, n)
      PROVE  Apart(dir')
  <2> DEFINE with(s) == [dir EXCEPT ![s] = NewEntry(u, n)]
  <2>1. PICK s \in Slot :
          /\ Match(with(s), u + 16, n) = {}
          /\ \E x \in Firsts(FreeSlots(with(s))) :
              dir' \in Restamped([with(s) EXCEPT ![x] = NewEntry(u + 16, n)], x)
    BY <1>3, SlotTypes DEF CreatWithXfcb
  <2>2. PICK x \in Slot :
          dir' \in Restamped([with(s) EXCEPT ![x] = NewEntry(u + 16, n)], x)
    BY <2>1, SlotTypes
  <2>3. HasXfcbs /\ Match(dir, u, n) = {}
    BY <1>3, GeometryAssumption DEF CreatWithXfcb, GeometryAssumption
  <2>4. with(s) \in [Slot -> Entry] /\ Apart(with(s))
    BY <1>1, <2>3
  <2>5. NewEntry(u + 16, n) \in Entry /\ u + 16 <= MaxStatus
    BY <2>3, NewEntryType, StatusTypes, UserStatus
  <2> HIDE DEF with
  <2>6. \A t \in Slot : ~SameExtent(with(s)[t], NewEntry(u + 16, n))
    BY <2>1, <2>5, MatchEmpty DEF SameExtent, NewEntry
  <2>7. /\ [with(s) EXCEPT ![x] = NewEntry(u + 16, n)] \in [Slot -> Entry]
        /\ Apart([with(s) EXCEPT ![x] = NewEntry(u + 16, n)])
    BY <2>4, <2>5, <2>6, AddedApart
  <2>8. QED
    BY <2>2, <2>7, RestampedApart
<1>4. ASSUME NEW h \in Handles, NEW u \in Users, NEW n \in Names,
             CreatHalf(h, u, n)
      PROVE  Apart(dir')
  <2>1. PICK s \in Slot : dir' = [dir EXCEPT ![s] = NewEntry(u, n)]
    BY <1>4, SlotTypes DEF CreatHalf
  <2>2. QED
    BY <1>1, <1>4, <2>1 DEF CreatHalf
<1>5. ASSUME NEW u \in Users, NEW n \in Names, Unlink(u, n)
      PROVE  Apart(dir')
  <2>1. PICK gone : dir' = [s \in Slot |-> IF s \in gone
                                           THEN [dir[s] EXCEPT !.status = Free]
                                           ELSE dir[s]]
    BY <1>5, ZenonT(30) DEF Unlink, Erased
  <2>2. \A s \in Slot : dir'[s].status = Free \/ dir'[s] = dir[s]
    BY <2>1 DEF Entry
  <2>3. Stand(dir, dir')
    BY <2>2, Geometry DEF Stand, SameExtent, FileSlots
  <2>4. QED
    BY <2>3, StandApart
<1>6. ASSUME NEW u \in Users, NEW n \in Names, NEW v \in Users, NEW m \in Names,
             Rename(u, n, v, m)
      PROVE  Apart(dir')
  <2> DEFINE S == Match(dir, u, n)
             d == Renamed(dir, S, v, m)
  <2>1. PICK xfcbs : /\ dir' = Renamed(d, xfcbs, v + 16, m)
                     /\ xfcbs # {} => HasXfcbs
    BY <1>6 DEF Rename
  <2>2. Match(dir, v, m) = {}
    BY <1>6 DEF Rename
  <2>3. /\ v \in Status /\ v + 16 \in Status
        /\ v <= MaxStatus /\ v <= MaxFileUser /\ u <= MaxFileUser
        /\ HasXfcbs => ~(v + 16 <= MaxFileUser)
    BY StatusTypes, UserStatus
  <2>4. \A s \in S : /\ dir[s].status = u /\ dir[s].name = n
                     /\ s \in FileSlots(dir)
    BY <2>3 DEF Match, FileSlots
  <2> HIDE DEF S
  <2>5. /\ d \in [Slot -> Entry]
        /\ \A s \in Slot :
             /\ d[s].extno = dir[s].extno
             /\ d[s].status = IF s \in S THEN v ELSE dir[s].status
             /\ d[s].name = IF s \in S THEN m ELSE dir[s].name
    <3>1. dir \in [Slot -> Entry] /\ v \in Status
      BY <2>3
    <3>2. d \in [Slot -> Entry]
      BY <3>1, RenamedType, Zenon
    <3>3. ASSUME NEW s \in Slot
          PROVE  /\ d[s].extno = dir[s].extno
                 /\ d[s].status = IF s \in S THEN v ELSE dir[s].status
                 /\ d[s].name = IF s \in S THEN m ELSE dir[s].name
      BY <3>1, RenamedFields
    <3>4. QED
      BY <3>2, <3>3
  <2>6. \A t \in Slot : ~(dir[t].status = v /\ dir[t].name = m)
    BY <2>2, <2>3, MatchEmpty
  <2>7. Apart(d)
    <3> SUFFICES ASSUME NEW s \in FileSlots(d), NEW t \in Slot,
                        SameExtent(d[t], d[s])
                 PROVE  t = s
      BY DEF Apart
    <3> HIDE DEF d
    <3>1. s \in Slot
      BY DEF FileSlots
    <3>2. CASE s \in S /\ t \in S
      <4>1. SameExtent(dir[t], dir[s])
        BY <2>4, <2>5, <3>1, <3>2 DEF SameExtent
      <4>2. QED
        BY <2>4, <3>2, <4>1 DEF Apart
    <3>3. CASE s \in S /\ t \notin S
      BY <2>5, <2>6, <3>1, <3>3 DEF SameExtent
    <3>4. CASE s \notin S /\ t \in S
      BY <2>5, <2>6, <3>1, <3>4 DEF SameExtent
    <3>5. CASE s \notin S /\ t \notin S
      <4>1. SameExtent(dir[t], dir[s]) /\ s \in FileSlots(dir)
        BY <2>5, <3>1, <3>5 DEF SameExtent, FileSlots
      <4>2. QED
        BY <4>1 DEF Apart
    <3>6. QED
      BY <3>2, <3>3, <3>4, <3>5
  <2> HIDE DEF d
  <2>8. \A s \in Slot :
          /\ dir'[s].extno = d[s].extno
          /\ dir'[s].status = IF s \in xfcbs THEN v + 16 ELSE d[s].status
          /\ dir'[s].name = IF s \in xfcbs THEN m ELSE d[s].name
    BY <2>1, <2>3, <2>5, RenamedFields
  <2>9. Stand(d, dir')
    BY <2>1, <2>3, <2>8 DEF Stand, SameExtent, FileSlots
  <2>10. QED
    BY <2>7, <2>9, StandApart
<1>7. ASSUME NEW h \in Handles, NEW a, AttrSet(h, a)
      PROVE  Apart(dir')
  <2>1. PICK S : dir' = [s \in Slot |-> IF s \in S
                                        THEN [dir[s] EXCEPT !.attr = a]
                                        ELSE dir[s]]
    BY <1>7 DEF AttrSet
  <2>2. \A s \in Slot : /\ dir'[s].status = dir[s].status
                        /\ dir'[s].name = dir[s].name
                        /\ dir'[s].extno = dir[s].extno
    BY <2>1 DEF Entry
  <2>3. Stand(dir, dir')
    BY <2>2 DEF Stand, SameExtent, FileSlots
  <2>4. QED
    BY <2>3, StandApart
<1>8. ASSUME NEW h \in Handles, Utime(h)
      PROVE  Apart(dir')
  BY <1>8, RestampedApart DEF Utime
<1>9. ASSUME NEW h \in Handles, NEW w, Chmod(h, w)
      PROVE  Apart(dir')
  BY <1>7, <1>9 DEF Chmod
<1>10. QED
  BY <1>2, <1>3, <1>4, <1>5, <1>6, <1>7, <1>8, <1>9
     DEF Call, Namei, Open, WriteBegin, Sync, SyncFailed

\* A set of slots that is not empty has a least element: what a loop over the
\* directory stops at.
LEMMA SlotLeast ==
  ASSUME NEW M \in SUBSET Slot, NEW t \in M
  PROVE  \E x \in M : \A y \in M : x <= y
<1> DEFINE R == {p \in Nat \X Nat : p[1] < p[2]}
<1>1. R = OpToRel(<, Nat)
  BY DEF OpToRel
<1>2. IsWellFoundedOn(R, Nat)
  BY <1>1, NatLessThanWellFounded
<1> HIDE DEF R
<1>3. M \subseteq Nat /\ M # {}
  BY Geometry DEF Slot
<1>4. \E x \in M : \A y \in M : ~(<<y, x>> \in R)
  BY <1>2, <1>3, WFMin, Zenon
<1>5. \A x \in M, y \in M : ~(<<y, x>> \in R) => x <= y
  BY <1>3 DEF R
<1>6. QED
  BY <1>4, <1>5

\* What cpmWrite's loop knows: where the call ends, and that the extent number
\* it will record is one of the physical extent that it works on.
Place ==
  /\ wr.phase # "idle" => Pos + wr.count <= MaxPos
  /\ wr.phase \in {"block", "fill"} =>
       /\ wr.extno < 2048
       /\ dir[wr.extent].extno \div Extents = wr.extno \div Extents

\* The last block pointer of an entry lies in the physical extent.
LEMMA LastWithin ==
  ASSUME Regular, NEW last \in PtrIx
  PROVE  (last * BlkSiz) \div ExtCap = 0
<1>1. /\ last \in Nat /\ NPtr \in Nat /\ BlkSiz \in Nat \ {0} /\ last < NPtr
      /\ NPtr * BlkSiz \in Nat \ {0}
  BY Geometry, ExtCapType DEF PtrIx, Regular
<1>2. \A a, b \in Nat, c \in Nat \ {0} : a < b => a * c < b * c /\ a * c \in Nat
  BY Z3
<1>3. last * BlkSiz < NPtr * BlkSiz /\ last * BlkSiz \in Nat
  BY <1>1, <1>2
<1>4. \A a \in Nat, b \in Nat \ {0} : a < b => a \div b = 0
  BY Z3
<1>5. QED
  BY <1>1, <1>3, <1>4 DEF Regular

\* the locals of a call that runs
LEMMA WriteLocals ==
  ASSUME TypeOK, wr.phase # "idle"
  PROVE  /\ wr.h \in Handles /\ wr.count \in Nat \ {0} /\ wr.extno \in Nat
         /\ Pos \in Nat /\ Pos \div Logical \in Nat
         /\ Own \in Entry
         /\ wr.phase # "extent" => wr.extent \in Slot /\ dir[wr.extent] \in Entry
<1>1. wr.h \in Handles /\ wr.count \in Nat \ {0} /\ wr.extno \in Nat
  BY DEF TypeOK, WriteCall
<1>2. Pos \in Nat /\ fd[wr.h].slot \in Slot
  BY <1>1 DEF TypeOK, Inode, Pos, Slot
<1>3. Pos \div Logical \in Nat
  BY <1>2, DivMod, Geometry
<1>4. Own \in Entry
  BY <1>2 DEF TypeOK, Own
<1>5. wr.phase # "extent" => wr.extent \in Slot /\ dir[wr.extent] \in Entry
  BY DEF TypeOK, WriteCall
<1>6. QED
  BY <1>1, <1>2, <1>3, <1>4, <1>5

LEMMA PosWithin ==
  ASSUME TypeOK, Regular, Place, wr.phase # "idle"
  PROVE  Pos \div Logical < 2048
<1>1. Pos \in Nat /\ wr.count \in Nat \ {0} /\ Logical \in Nat \ {0}
  BY WriteLocals, Geometry
<1>2. Pos < 2048 * Logical
  BY <1>1, InputAssumption DEF Place, Regular, InputAssumption
<1>3. QED
  BY <1>1, <1>2, DivLess

LEMMA WriteApart ==
  ASSUME TypeOK, Regular, Place, Apart(dir), WriteStep
  PROVE  Apart(dir') /\ Place'
<1>0. /\ wr.phase # "idle"
      /\ dir \in [Slot -> Entry]
  BY DEF WriteStep, ExtentFound, ExtentAdded, ExtentDenied, BlockFound,
         BlockUnreadable, BlockAllocated, BlockDenied, Filled, TypeOK
<1>1. CASE ExtentFound
  <2>1. PICK s \in Extent : UseExtent(s)
    BY <1>1 DEF ExtentFound, Firsts
  <2>2. dir[s].extno \div Extents = (Pos \div Logical) \div Extents
    BY <2>1 DEF Extent, Firsts, MatchExtent
  <2>3. /\ wr'.h = wr.h /\ wr'.count = wr.count /\ wr'.extent = s
        /\ wr'.extno = Pos \div Logical /\ dir' = dir /\ fd' = fd
    BY <1>1, <2>1 DEF ExtentFound, UseExtent, Go
  <2>4. QED
    BY <1>0, <2>2, <2>3, PosWithin DEF Place, Pos
<1>2. CASE ExtentAdded
  <2> DEFINE new == Extended(Own, Pos \div Logical)
  <2>1. PICK s \in Slot :
          /\ dir' \in Restamped([dir EXCEPT ![s] = new], fd[wr.h].xfcb)
          /\ s \in FreeSlots(dir)
          /\ UseExtent(s)
    BY <1>2, SlotTypes DEF ExtentAdded, Firsts
  <2>2. /\ new \in Entry /\ new.status = Own.status /\ new.name = Own.name
        /\ new.extno = Pos \div Logical
    <3>1. Pos \div Logical \in Nat /\ Pos \div Logical < 2048 /\ Own \in Entry
      BY <1>0, WriteLocals, PosWithin
    <3>2. (Pos \div Logical) % 2048 = Pos \div Logical
      BY <3>1
    <3>3. QED
      BY <3>1, <3>2, ExtendedType DEF Extended
  <2> HIDE DEF new
  <2>3. /\ wr'.h = wr.h /\ wr'.count = wr.count /\ wr'.extent = s
        /\ wr'.extno = Pos \div Logical /\ fd' = fd
    BY <1>2, <2>1 DEF ExtentAdded, UseExtent, Go
  <2>4. [dir EXCEPT ![s] = new] \in [Slot -> Entry]
    BY <1>0, <2>2
  <2>5. dir'[s].extno = Pos \div Logical
    <3> DEFINE d == [dir EXCEPT ![s] = new]
    <3>1. d \in [Slot -> Entry] /\ d[s].extno = Pos \div Logical
      BY <1>0, <2>2, <2>4
    <3>2. dir' \in Restamped(d, fd[wr.h].xfcb)
      BY <2>1
    <3> HIDE DEF d
    <3>3. QED
      BY <3>1, <3>2, RestampedKeeps
  <2>6. Place'
    BY <1>0, <2>3, <2>5, PosWithin DEF Place, Pos
  <2>7. Apart([dir EXCEPT ![s] = new])
    <3>1. CASE Own.status <= MaxStatus
      <4>1. \A t \in Slot : ~SameExtent(dir[t], new)
        <5> SUFFICES ASSUME NEW t \in Slot, SameExtent(dir[t], new)
                     PROVE  FALSE
          OBVIOUS
        <5> DEFINE M == MatchExtent(dir, Own.status, Own.name, Pos \div Logical)
        <5>1. t \in M
          BY <2>2, <3>1 DEF SameExtent, MatchExtent, Match
        <5>2. M \subseteq Slot
          BY SlotTypes
        <5> HIDE DEF M
        <5>3. \E x \in M : \A y \in M : x <= y
          BY <5>1, <5>2, SlotLeast
        <5>4. Firsts(M) # {}
          BY <5>3 DEF Firsts
        <5>5. QED
          BY <1>2, <5>4 DEF ExtentAdded, Extent, M
      <4>2. QED
        BY <1>0, <2>2, <4>1, AddedApart
    <3>2. CASE ~(Own.status <= MaxStatus)
      <4>1. ~(Own.status <= MaxFileUser) /\ ~(Free <= MaxFileUser)
        <5>1. Own.status \in 0 .. 255
          BY <1>0, WriteLocals, EntryFields DEF Status
        <5>2. QED
          BY <3>2, <5>1, Geometry
      <4>2. \A t \in Slot : [dir EXCEPT ![s] = new][t]
                               = IF t = s THEN new ELSE dir[t]
        BY <1>0
      <4>3. Stand(dir, [dir EXCEPT ![s] = new])
        BY <2>2, <4>1, <4>2 DEF Stand, FileSlots, SameExtent
      <4>4. QED
        BY <4>3, StandApart
    <3>3. QED
      BY <3>1, <3>2
  <2>8. QED
    BY <2>1, <2>4, <2>6, <2>7, RestampedApart
<1>3. CASE BlockAllocated
  <2> DEFINE d(b) == [dir EXCEPT ![wr.extent].ptr[PtrAt(Pos)] = b]
  <2>1. PICK b \in Block : dir' \in Restamped(d(b), fd[wr.h].xfcb)
    BY <1>3 DEF BlockAllocated, Firsts
  <2>2. wr.phase = "block" /\ UseBlock /\ fd' = fd
    BY <1>3 DEF BlockAllocated
  <2>3. wr.extent \in Slot /\ dir[wr.extent] \in Entry /\ PtrAt(Pos) \in PtrIx
        /\ b \in Nat
    BY <1>0, <2>2, WriteLocals, PtrAtType, Geometry DEF Block
  <2> DEFINE new == [dir[wr.extent] EXCEPT !.ptr[PtrAt(Pos)] = b]
  <2>4. /\ new \in Entry /\ new.status = dir[wr.extent].status
        /\ new.name = dir[wr.extent].name /\ new.extno = dir[wr.extent].extno
    <3>1. new \in Entry
      BY <2>3, PtrSet
    <3>2. QED
      BY <2>3, <3>1, PtrSetFields
  <2>5. d(b) = [dir EXCEPT ![wr.extent] = new]
    OBVIOUS
  <2> HIDE DEF new, d
  <2>6. /\ d(b) \in [Slot -> Entry]
        /\ \A s \in Slot : d(b)[s] = IF s = wr.extent THEN new ELSE dir[s]
    BY <1>0, <2>4, <2>5
  <2>7. Stand(dir, d(b))
    BY <2>4, <2>6 DEF Stand, SameExtent, FileSlots
  <2>8. Apart(dir')
    BY <2>1, <2>6, <2>7, StandApart, RestampedApart
  <2>9. dir'[wr.extent].extno = dir[wr.extent].extno
    BY <2>1, <2>3, <2>4, <2>6, RestampedKeeps
  <2>10. /\ wr'.h = wr.h /\ wr'.count = wr.count /\ wr'.extent = wr.extent
         /\ wr'.extno = wr.extno
    BY <2>2 DEF UseBlock, Go
  <2>11. QED
    BY <2>2, <2>8, <2>9, <2>10 DEF Place, Pos
<1>4. CASE Filled
  <2> DEFINE n     == Room(Pos, wr.count)
             new(last) == Recorded(dir[wr.extent],
                            wr.extno + (last * BlkSiz) \div ExtCap, Pos + n)
  <2>1. PICK last \in PtrIx :
          /\ dir' \in Restamped([dir EXCEPT ![wr.extent] = new(last)],
                               fd[wr.h].xfcb)
          /\ fd' = [fd EXCEPT ![wr.h].pos = Pos + n,
                     ![wr.h].size = IF @ < Pos + n THEN Pos + n ELSE @]
          /\ \/ Finish("all")
             \/ /\ n < wr.count
                /\ Go(IF (Pos + n) % ExtCap = 0 THEN "extent" ELSE "block",
                      wr.h, wr.count - n, wr.extent,
                      wr.extno + (last * BlkSiz) \div ExtCap)
    BY <1>4 DEF Filled, Last
  <2>2. /\ wr.phase = "fill" /\ wr.extent \in Slot /\ wr.extno \in Nat
        /\ wr.extno < 2048 /\ dir[wr.extent] \in Entry /\ wr.h \in Handles
        /\ Pos \in Nat /\ wr.count \in Nat
    BY <1>0, <1>4, WriteLocals DEF Filled, Place
  <2>3. n \in Nat
    <3>1. Pos % BlkSiz \in 0 .. BlkSiz - 1
      BY <2>2, Geometry
    <3>2. QED
      BY <2>2, <3>1, Geometry DEF Room
  <2>4. wr.extno + (last * BlkSiz) \div ExtCap = wr.extno
    BY <2>2, LastWithin
  <2>5. /\ new(last) \in Entry /\ new(last).status = dir[wr.extent].status
        /\ new(last).name = dir[wr.extent].name
        /\ new(last).extno = wr.extno
    <3>1. Pos + n \in Nat
      BY <2>2, <2>3
    <3>2. new(last) = Recorded(dir[wr.extent], wr.extno, Pos + n)
      BY <2>4
    <3>3. Recorded(dir[wr.extent], wr.extno, Pos + n) \in Entry
      BY <2>2, <3>1, RecordedType
    <3>4. wr.extno % 2048 = wr.extno
      BY <2>2
    <3> HIDE DEF n
    <3>5. QED
      BY <3>2, <3>3, <3>4 DEF Recorded
  <2> HIDE DEF n, new
  <2>6. fd'[wr.h].pos = Pos + n
    BY <2>1, <2>2 DEF TypeOK, Inode
  <2>7. /\ [dir EXCEPT ![wr.extent] = new(last)] \in [Slot -> Entry]
        /\ \A s \in Slot : [dir EXCEPT ![wr.extent] = new(last)][s]
                            = IF s = wr.extent THEN new(last) ELSE dir[s]
    BY <1>0, <2>5
  <2>8. dir[wr.extent].extno \div Extents = wr.extno \div Extents
    BY <2>2 DEF Place
  <2>9. Stand(dir, [dir EXCEPT ![wr.extent] = new(last)])
    BY <2>5, <2>7, <2>8 DEF Stand, SameExtent, FileSlots
  <2>10. Apart(dir')
    BY <2>1, <2>7, <2>9, StandApart, RestampedApart
  <2>11. dir'[wr.extent].extno = wr.extno
    <3> DEFINE d == [dir EXCEPT ![wr.extent] = new(last)]
    <3>1. d \in [Slot -> Entry] /\ d[wr.extent].extno = wr.extno
      BY <2>2, <2>5, <2>7
    <3>2. dir' \in Restamped(d, fd[wr.h].xfcb)
      BY <2>1
    <3> HIDE DEF d
    <3>3. QED
      BY <2>2, <3>1, <3>2, RestampedKeeps
  <2>12. CASE Finish("all")
    BY <2>10, <2>12 DEF Finish, Returned, Place
  <2>13. CASE /\ n < wr.count
              /\ Go(IF (Pos + n) % ExtCap = 0 THEN "extent" ELSE "block",
                    wr.h, wr.count - n, wr.extent,
                    wr.extno + (last * BlkSiz) \div ExtCap)
    <3>1. /\ wr'.h = wr.h /\ wr'.count = wr.count - n /\ wr'.extent = wr.extent
          /\ wr'.extno = wr.extno
      BY <2>4, <2>13 DEF Go
    <3>2. Pos' = Pos + n
      BY <2>6, <3>1 DEF Pos
    <3>3. Pos' + wr'.count = Pos + wr.count
      BY <2>2, <2>3, <3>1, <3>2
    <3>4. QED
      BY <2>2, <2>10, <2>11, <3>1, <3>3 DEF Place
  <2>14. QED
    BY <2>1, <2>12, <2>13
<1>5. CASE ExtentDenied \/ BlockUnreadable \/ BlockDenied
  BY <1>5 DEF ExtentDenied, BlockUnreadable, BlockDenied, Finish, Returned, Place
<1>6. CASE BlockFound
  <2>1. /\ wr.phase = "block" /\ dir' = dir /\ fd' = fd /\ wr'.h = wr.h
        /\ wr'.count = wr.count /\ wr'.extent = wr.extent /\ wr'.extno = wr.extno
    BY <1>6 DEF BlockFound, UseBlock, Go
  <2>2. QED
    BY <2>1 DEF Place, Pos
<1>7. QED
  BY <1>1, <1>2, <1>3, <1>4, <1>5, <1>6 DEF WriteStep

\* ExtentsAreUnique is not inductive: cpmWrite records an extent number over
\* the one of the entry that it works on (Place), and the next session reads
\* the image.
UniqueInv == TypeOK /\ Apart(dir) /\ (dirty \/ Apart(disk)) /\ Place

LEMMA UniqueInit ==
  ASSUME Init
  PROVE  UniqueInv
<1>1. TypeOK
  BY InitType
<1>2. Apart(disk)
  BY <1>1, ApartIsUnique, ImageAssumption DEF Init, TypeOK, Sound
<1>3. wr.phase = "idle"
  BY DEF Init, Returned
<1>4. QED
  BY <1>1, <1>2, <1>3 DEF Init, UniqueInv, Place

LEMMA UniqueStep ==
  ASSUME Regular, UniqueInv, [Next]_vars
  PROVE  UniqueInv'
<1> USE DEF UniqueInv
<1>1. TypeOK'
  BY TypeStep
<1>2. CASE Call
  <2>1. Apart(dir')
    BY <1>2, CallApart
  <2>2. dirty' \/ Apart(disk')
    BY <1>2, CallFrame
  <2>3. Place'
    <3>1. ASSUME NEW h \in Handles, NEW c \in 1 .. MaxCount, WriteBegin(h, c)
          PROVE  Place'
      BY <3>1 DEF WriteBegin, Go, Place, Pos
    <3>2. CASE wr' = wr /\ Quiet
      BY <3>2 DEF Place, Quiet
    <3>3. QED
      BY <1>2, <3>1, <3>2, ZenonT(30)
         DEF Call, CreatPlain, CreatWithXfcb, CreatHalf, Namei, Unlink, Rename,
             Open, Utime, AttrSet, Chmod, Sync, SyncFailed
  <2>4. QED
    BY <1>1, <2>1, <2>2, <2>3
<1>3. CASE WriteStep
  <2>1. disk' = disk
    BY <1>3 DEF WriteStep, ExtentFound, ExtentAdded, ExtentDenied, BlockFound,
                BlockUnreadable, BlockAllocated, BlockDenied, Filled
  <2>2. dirty => dirty'
    BY <1>3, WriteDirty
  <2>3. QED
    BY <1>1, <1>3, <2>1, <2>2, WriteApart
<1>4. CASE Remount \/ Crash
  <2>1. Apart(disk') /\ dir' = disk'
    <3>1. CASE Remount
      BY <3>1, WholeWritten DEF Remount, Mount, TypeOK
    <3>2. CASE Crash
      BY <1>1, <3>2, ApartIsUnique DEF Crash, Mount, Sound, TypeOK
    <3>3. QED
      BY <1>4, <3>1, <3>2
  <2>2. wr'.phase = "idle"
    BY <1>4 DEF Remount, Crash, Quiet, Finish, Returned
  <2>3. QED
    BY <1>1, <2>1, <2>2 DEF Place
<1>5. CASE UNCHANGED vars
  BY <1>1, <1>5 DEF vars, Place, Pos
<1>6. QED
  BY <1>2, <1>3, <1>4, <1>5 DEF Next

\* No file ever has two entries for the same extent, whatever is created,
\* renamed, written or cut short, with however many handles on however many
\* files, those of erased files included.
THEOREM ExtentsUnique ==
  ASSUME Regular
  PROVE  Spec => []ExtentsAreUnique
<1>1. Init => UniqueInv
  BY UniqueInit
<1>2. UniqueInv /\ [Next]_vars => UniqueInv'
  BY UniqueStep
<1>3. UniqueInv => ExtentsAreUnique
  BY ApartIsUnique DEF UniqueInv, TypeOK, ExtentsAreUnique
<1>4. QED
  BY <1>1, <1>2, <1>3, PTL DEF Spec

\* What cpmReaddir lists of a file is the entry that cpmNamei opens: with
\* unique extents the lowest entry of a file is one.
LEMMA ListedIsLowest ==
  ASSUME NEW d \in [Slot -> Entry], Apart(d), Regular,
         NEW u \in Users, NEW n \in Names
  PROVE  Listed(d) \cap Match(d, u, n) = Lowest(d, Match(d, u, n))
<1> DEFINE M == Match(d, u, n)
<1>1. u <= MaxFileUser
  BY UserStatus
<1>2. \A s \in M : /\ s \in Slot /\ d[s].status <= MaxStatus
                   /\ d[s].status = u /\ d[s].name = n
                   /\ s \in FileSlots(d)
  BY <1>1 DEF Match, FileSlots
<1>3. \A s \in M : Match(d, d[s].status, d[s].name) = M
  BY <1>2
<1>4. \A s \in M, t \in M : d[s].extno = d[t].extno => s = t
  BY <1>2 DEF Apart, SameExtent
<1>5. ASSUME NEW s \in M PROVE d[s].extno \in Int /\ s \in Int
  <2>1. s \in Slot /\ d[s] \in Entry
    BY <1>2
  <2>2. d[s].extno \in Nat
    BY <2>1, ExtnoField
  <2>3. d[s].extno \in Int
    BY <2>2
  <2>4. s \in Int
    BY <2>1 DEF Slot
  <2>5. QED
    BY <2>3, <2>4
<1> HIDE DEF M
<1>6. \A s \in M : s \in Listed(d) <=> \A t \in M : d[s].extno <= d[t].extno
  BY <1>2, <1>3 DEF Listed
<1> DEFINE Before(s, t) == \/ d[s].extno < d[t].extno
                           \/ d[s].extno = d[t].extno /\ s <= t
<1>7. ASSUME NEW s \in M, NEW t \in M
      PROVE  Before(s, t) <=> d[s].extno <= d[t].extno
  <2>1. d[s].extno \in Int /\ d[t].extno \in Int /\ s \in Int /\ t \in Int
    BY <1>5
  <2>2. d[s].extno = d[t].extno => s = t
    BY <1>4
  <2>3. \A a, b, x, y \in Int :
          (a = b => x = y) => (a < b \/ (a = b /\ x <= y) <=> a <= b)
    OBVIOUS
  <2>4. QED
    BY <2>1, <2>2, <2>3, Zenon
<1>8. \A s \in M :
        s \in Lowest(d, M) <=> \A t \in M : d[s].extno <= d[t].extno
  <2>1. \A s \in M : s \in Lowest(d, M) <=> \A t \in M : Before(s, t)
    BY DEF Lowest
  <2> HIDE DEF Before
  <2>2. QED
    BY <1>7, <2>1
<1>9. Lowest(d, M) \subseteq M
  BY DEF Lowest
<1>10. Listed(d) \cap M = Lowest(d, M)
  BY <1>6, <1>8, <1>9
<1>11. QED
  BY <1>10 DEF M

\* cpmReaddir never lists a file twice or leaves one out, and lists the entry
\* that cpmNamei finds.
THEOREM FilesListedOnce ==
  ASSUME Regular
  PROVE  Spec => []ListedOnce
<1>1. Init => UniqueInv
  BY UniqueInit
<1>2. UniqueInv /\ [Next]_vars => UniqueInv'
  BY UniqueStep
<1>3. UniqueInv => ListedOnce
  BY ListedIsLowest DEF UniqueInv, TypeOK, ListedOnce
<1>4. QED
  BY <1>1, <1>2, <1>3, PTL DEF Spec

-----------------------------------------------------------------------------
(* dirtyDirectory                                                          *)

\* An entry that may differ from the image while dirtyDirectory is clear: one
\* that cpmWrite has made since, which is still without blocks.
Unfilled(s) == disk[s].status = Free /\ Refs(dir[s]) = {}

\* CleanMeansSaved at each step of cpmWrite: a block that was just allocated
\* is in core only, until Filled sets dirtyDirectory.
SavedInv ==
  /\ TypeOK
  /\ ~dirty => \A s \in Slot : \/ dir[s] = disk[s]
                               \/ Unfilled(s)
                               \/ wr.phase = "fill" /\ s = wr.extent

LEMMA SavedInit == Init => SavedInv
  BY InitType DEF Init, SavedInv

LEMMA SavedStep ==
  ASSUME ~MpmDates, SavedInv, [Next]_vars
  PROVE  SavedInv'
<1>1. TypeOK /\ TypeOK'
  BY TypeStep DEF SavedInv
<1>2. ASSUME dirty' = TRUE PROVE SavedInv'
  BY <1>1, <1>2 DEF SavedInv
<1>3. ASSUME dir' = disk' PROVE SavedInv'
  BY <1>1, <1>3 DEF SavedInv
<1>4. ASSUME dirty' = dirty, dir' = dir, disk' = disk, wr.phase # "fill"
      PROVE  SavedInv'
  BY <1>1, <1>4 DEF SavedInv, Unfilled
<1>5. CASE Call
  <2>1. ASSUME NEW h \in Handles, NEW u \in Users, NEW n \in Names,
               \/ CreatPlain(h, u, n) \/ CreatWithXfcb(h, u, n)
               \/ CreatHalf(h, u, n) \/ Namei(h, u, n)
        PROVE  SavedInv'
    BY <1>2, <1>4, <2>1
       DEF CreatPlain, CreatWithXfcb, CreatHalf, Namei, Quiet
  <2>2. ASSUME NEW u \in Users, NEW n \in Names,
               Unlink(u, n) \/ \E v \in Users, m \in Names : Rename(u, n, v, m)
        PROVE  dirty' = TRUE
    BY <2>2 DEF Unlink, Rename
  <2>3. ASSUME NEW h \in Handles,
               \/ \E a \in SUBSET Attrs : AttrSet(h, a)
               \/ \E writable \in Modes : Chmod(h, writable)
        PROVE  dirty' = TRUE
    BY <2>3 DEF AttrSet, Chmod
  <2>4. ASSUME NEW h \in Handles,
               Open(h) \/ \E c \in 1 .. MaxCount : WriteBegin(h, c)
        PROVE  SavedInv'
    BY <1>4, <2>4 DEF Open, WriteBegin, Quiet
  <2>5. ASSUME NEW h \in Handles, Utime(h)
        PROVE  SavedInv'
    <3>1. dir' = dir /\ disk' = disk /\ (dirty' = dirty \/ dirty' = TRUE)
      BY <1>1, <2>5 DEF Utime, Restamped, TypeOK, Stamped
    <3>2. Quiet
      BY <2>5 DEF Utime
    <3>3. QED
      BY <1>2, <1>4, <3>1, <3>2 DEF Quiet
  <2>6. CASE Sync
    <3>1. CASE dirty
      BY <1>1, <1>3, <2>6, <3>1, WholeWritten DEF Sync, TypeOK
    <3>2. CASE ~dirty
      BY <1>1, <1>4, <2>6, <3>2 DEF Sync, TypeOK, Quiet
    <3>3. QED
      BY <3>1, <3>2
  <2>7. CASE SyncFailed
    BY <1>1, <1>2, <2>7 DEF SyncFailed, TypeOK
  <2>8. QED
    BY <1>2, <1>5, <2>1, <2>2, <2>3, <2>4, <2>5, <2>6, <2>7 DEF Call
<1>6. CASE WriteStep
  <2>1. CASE ExtentFound \/ ExtentDenied \/ BlockFound \/ BlockUnreadable
             \/ BlockDenied
    BY <1>4, <2>1 DEF ExtentFound, ExtentDenied, BlockFound, BlockUnreadable,
                      BlockDenied
  <2>2. CASE ExtentAdded
    <3> DEFINE new == Extended(Own, Pos \div Logical)
    <3>1. PICK s \in FreeSlots(dir) : dir' = [dir EXCEPT ![s] = new]
      BY <2>2 DEF ExtentAdded, Restamped, Firsts
    <3>2. Refs(new) = {}
      BY DEF Extended, Refs, ZeroPtrs
    <3> HIDE DEF new
    <3>3. \A t \in Slot : dir'[t] = IF t = s THEN new ELSE dir[t]
      BY <1>1, <3>1 DEF TypeOK
    <3>4. /\ disk' = disk /\ wr.phase = "extent"
          /\ dirty' = dirty \/ dirty' = TRUE
      BY <1>1, <2>2 DEF ExtentAdded, Stamped, TypeOK
    <3>5. CASE dirty' = dirty
      <4> SUFFICES ASSUME ~dirty, NEW t \in Slot
                   PROVE  dir'[t] = disk[t] \/ (disk[t].status = Free
                                                /\ Refs(dir'[t]) = {})
        BY <1>1, <3>4, <3>5 DEF SavedInv, Unfilled
      <4>1. dir[t] = disk[t] \/ Unfilled(t)
        BY <3>4 DEF SavedInv
      <4>2. CASE t = s
        BY <3>2, <3>3, <4>1, <4>2 DEF FreeSlots, Unfilled
      <4>3. CASE t # s
        BY <3>3, <4>1, <4>3 DEF Unfilled
      <4>4. QED
        BY <4>2, <4>3
    <3>6. QED
      BY <1>2, <3>4, <3>5
  <2>3. CASE BlockAllocated
    <3>1. PICK b : dir' = [dir EXCEPT ![wr.extent].ptr[PtrAt(Pos)] = b]
      BY <2>3 DEF BlockAllocated, Restamped
    <3>2. \A t \in Slot : t # wr.extent => dir'[t] = dir[t]
      BY <1>1, <3>1 DEF TypeOK
    <3>3. /\ disk' = disk /\ wr.phase = "block"
          /\ wr'.phase = "fill" /\ wr'.extent = wr.extent
          /\ dirty' = dirty \/ dirty' = TRUE
      BY <1>1, <2>3 DEF BlockAllocated, UseBlock, Go, Stamped, TypeOK
    <3>4. CASE dirty' = dirty
      BY <1>1, <3>2, <3>3, <3>4 DEF SavedInv, Unfilled
    <3>5. QED
      BY <1>2, <3>3, <3>4
  <2>4. CASE Filled
    BY <1>2, <2>4 DEF Filled
  <2>5. QED
    BY <1>6, <2>1, <2>2, <2>3, <2>4 DEF WriteStep
<1>7. CASE Remount \/ Crash
  BY <1>3, <1>7 DEF Remount, Crash, Mount
<1>8. CASE UNCHANGED vars
  BY <1>1, <1>8 DEF vars, SavedInv, Unfilled
<1>9. QED
  BY <1>5, <1>6, <1>7, <1>8 DEF Next

\* Whatever was done since the last cpmSync, dirtyDirectory is set if anything
\* but empty extents would be lost without another one.
THEOREM CleanIsSaved ==
  ASSUME ~MpmDates
  PROVE  Spec => []CleanMeansSaved
<1>1. SavedInv /\ [Next]_vars => SavedInv'
  BY SavedStep
<1>2. SavedInv => CleanMeansSaved
  BY DEF SavedInv, CleanMeansSaved, Unfilled, Quiet
<1>3. QED
  BY <1>1, <1>2, SavedInit, PTL DEF Spec

-----------------------------------------------------------------------------
(* Files do not touch each other                                           *)

\* the live entries that a step changes
Changed(d, e) == {s \in Slot : d[s].status <= MaxStatus /\ e[s] # d[s]}

\* They are one, or all of one file, with its password entry.
OneFile(d, e) ==
  \/ \E x : Changed(d, e) \subseteq {x}
  \/ \E u, n : \A s \in Changed(d, e) :
       d[s].status \in {u, u + 16} /\ d[s].name = n /\ u \in Nat

LEMMA OneFileOwner ==
  ASSUME NEW d, NEW e, OneFile(d, e), NEW s \in Changed(d, e), NEW t \in Changed(d, e)
  PROVE  Owner(d[s]) = Owner(d[t])
<1>1. CASE \E x : Changed(d, e) \subseteq {x}
  BY <1>1
<1>2. CASE \E u, n : \A r \in Changed(d, e) :
             d[r].status \in {u, u + 16} /\ d[r].name = n /\ u \in Nat
  <2>1. PICK u, n : \A r \in Changed(d, e) :
             d[r].status \in {u, u + 16} /\ d[r].name = n /\ u \in Nat
    BY <1>2
  <2>2. u \in Nat
    BY <2>1
  <2>3. \A w \in Nat : (w + 16) % 16 = w % 16
    OBVIOUS
  <2>4. \A r \in Changed(d, e) : d[r].status % 16 = u % 16 /\ d[r].name = n
    BY <2>1, <2>2, <2>3
  <2>5. QED
    BY <2>4 DEF Owner
<1>3. QED
  BY <1>1, <1>2 DEF OneFile

LEMMA CallOneFile ==
  ASSUME TypeOK, ~MpmDates, Call
  PROVE  OneFile(dir, dir')
<1> USE DEF TypeOK
<1>0. Users \subseteq Nat
  BY Geometry, InputAssumption DEF InputAssumption
<1>1. ASSUME NEW h \in Handles, NEW u \in Users, NEW n \in Names,
             CreatPlain(h, u, n)
      PROVE  OneFile(dir, dir')
  <2>1. PICK s \in FreeSlots(dir) : dir' = [dir EXCEPT ![s] = NewEntry(u, n)]
    BY <1>1 DEF CreatPlain, Restamped, Firsts
  <2>2. Changed(dir, dir') \subseteq {s}
    BY <2>1 DEF Changed
  <2>3. QED
    BY <2>2 DEF OneFile
<1>2. ASSUME NEW h \in Handles, NEW u \in Users, NEW n \in Names,
             CreatWithXfcb(h, u, n) \/ CreatHalf(h, u, n)
      PROVE  FALSE
  BY <1>2, GeometryAssumption DEF CreatWithXfcb, CreatHalf, GeometryAssumption
<1>3. ASSUME dir' = dir PROVE OneFile(dir, dir')
  BY <1>3 DEF OneFile, Changed
<1>4. ASSUME NEW u \in Users, NEW n \in Names, Unlink(u, n)
      PROVE  OneFile(dir, dir')
  <2>1. PICK xfcbs : /\ Erased(Match(dir, u, n) \cup xfcbs)
                     /\ xfcbs \subseteq Match(dir, u + 16, n)
    BY <1>4 DEF Unlink, Firsts
  <2>2. Changed(dir, dir') \subseteq Match(dir, u, n) \cup Match(dir, u + 16, n)
    BY <2>1 DEF Erased, Changed
  <2>3. \A s \in Changed(dir, dir') :
          dir[s].status \in {u, u + 16} /\ dir[s].name = n /\ u \in Nat
    BY <1>0, <2>2 DEF Match
  <2>4. QED
    BY <2>3 DEF OneFile
<1>5. ASSUME NEW u \in Users, NEW n \in Names, NEW v \in Users, NEW m \in Names,
             Rename(u, n, v, m)
      PROVE  OneFile(dir, dir')
  <2> DEFINE S == Match(dir, u, n)
             d == Renamed(dir, S, v, m)
  <2>1. PICK xfcbs : /\ dir' = Renamed(d, xfcbs, v + 16, m)
                     /\ xfcbs \subseteq Match(d, u + 16, n)
    BY <1>5 DEF Rename, Firsts
  <2> HIDE DEF S
  <2>2. \A s \in Slot : s \notin S => d[s] = dir[s]
    BY DEF Renamed
  <2> HIDE DEF d
  <2>3. \A s \in Slot : s \notin xfcbs => dir'[s] = d[s]
    BY <2>1 DEF Renamed
  <2>4. \A s \in Changed(dir, dir') : s \in Slot /\ (s \in S \/ s \in xfcbs)
    BY <2>2, <2>3 DEF Changed
  <2>5. \A s \in S : dir[s].status = u /\ dir[s].name = n
    BY DEF S, Match
  <2>6. \A s \in Slot : s \in xfcbs /\ s \notin S =>
          dir[s].status = u + 16 /\ dir[s].name = n
    BY <2>1, <2>2 DEF Match
  <2>7. \A s \in Changed(dir, dir') :
          dir[s].status \in {u, u + 16} /\ dir[s].name = n /\ u \in Nat
    BY <1>0, <2>4, <2>5, <2>6
  <2>8. QED
    BY <2>7 DEF OneFile
<1>6. ASSUME NEW h \in Handles, NEW a, AttrSet(h, a)
      PROVE  OneFile(dir, dir')
  <2> DEFINE own == dir[fd[h].slot]
             S == {fd[h].slot} \cup
                  {s \in Match(dir, own.status, own.name) : s > fd[h].slot}
  <2>1. fd[h].slot \in Slot
    BY <1>6 DEF AttrSet, Inode, Slot
  <2>2. dir' = [s \in Slot |-> IF s \in S THEN [dir[s] EXCEPT !.attr = a]
                               ELSE dir[s]]
    BY <1>6 DEF AttrSet
  <2>3. \A s \in S : dir[s].status = own.status /\ dir[s].name = own.name
    BY DEF Match
  <2>4. own.status \in Nat
    <3>1. own \in Entry
      BY <2>1 DEF TypeOK
    <3> HIDE DEF own
    <3>2. own.status \in Status
      BY <3>1, EntryFields
    <3>3. QED
      BY <3>2 DEF Status
  <2> HIDE DEF S
  <2>5. \A s \in Changed(dir, dir') : s \in S
    BY <2>2 DEF Changed
  <2>6. \A s \in Changed(dir, dir') :
          /\ dir[s].status \in {own.status, own.status + 16}
          /\ dir[s].name = own.name /\ own.status \in Nat
    BY <2>3, <2>4, <2>5
  <2> HIDE DEF own
  <2>7. QED
    BY <2>6 DEF OneFile
<1>7. ASSUME NEW h \in Handles, Utime(h) PROVE dir' = dir
  BY <1>7 DEF Utime, Restamped
<1>8. ASSUME NEW h \in Handles, NEW w, Chmod(h, w)
      PROVE  OneFile(dir, dir')
  BY <1>6, <1>8 DEF Chmod
<1>9. QED
  BY <1>1, <1>2, <1>3, <1>4, <1>5, <1>6, <1>7, <1>8
     DEF Call, Namei, Open, WriteBegin, Sync, SyncFailed

LEMMA WriteOneFile ==
  ASSUME TypeOK, ~MpmDates, WriteStep
  PROVE  OneFile(dir, dir')
<1>1. CASE dir' = dir
  BY <1>1 DEF OneFile, Changed
<1>2. CASE ExtentAdded \/ BlockAllocated \/ Filled
  <2>1. PICK s, e : dir' = [dir EXCEPT ![s] = e]
    <3>1. CASE ExtentAdded
      BY <3>1 DEF ExtentAdded, Restamped
    <3>2. CASE BlockAllocated
      BY <3>2 DEF BlockAllocated, Restamped
    <3>3. CASE Filled
      BY <3>3 DEF Filled, Restamped
    <3>4. QED
      BY <1>2, <3>1, <3>2, <3>3
  <2>2. Changed(dir, dir') \subseteq {s}
    BY <2>1 DEF Changed, TypeOK
  <2>3. QED
    BY <2>2 DEF OneFile
<1>3. QED
  BY <1>1, <1>2 DEF WriteStep, ExtentFound, ExtentDenied, BlockFound,
                    BlockUnreadable, BlockDenied

\* A call that names one file, or writes through a handle, leaves the entries
\* of every other file as they were.
THEOREM OneFileChanges ==
  ASSUME ~MpmDates
  PROVE  Spec => OneFileAtATime
<1> DEFINE Alone == dir' # disk' =>
                      \A s, t \in Slot :
                        /\ dir[s].status <= MaxStatus /\ dir'[s] # dir[s]
                        /\ dir[t].status <= MaxStatus /\ dir'[t] # dir[t]
                        => Owner(dir[s]) = Owner(dir[t])
<1>1. TypeOK /\ [Next]_vars => [Alone]_vars
  <2> SUFFICES ASSUME TypeOK, Next, dir' # disk',
                      NEW s \in Slot, NEW t \in Slot,
                      dir[s].status <= MaxStatus, dir'[s] # dir[s],
                      dir[t].status <= MaxStatus, dir'[t] # dir[t]
               PROVE  Owner(dir[s]) = Owner(dir[t])
    BY Zenon
  <2>1. s \in Changed(dir, dir') /\ t \in Changed(dir, dir')
    BY DEF Changed
  <2>2. Call \/ WriteStep
    BY DEF Next, Remount, Crash, Mount
  <2>3. OneFile(dir, dir')
    BY <2>2, CallOneFile, WriteOneFile
  <2>4. QED
    BY <2>1, <2>3, OneFileOwner
<1>2. QED
  BY <1>1, TypeCorrect, PTL DEF Spec, OneFileAtATime

=============================================================================
