---------------------------- MODULE CpmFSProofs ----------------------------
(* Theorems about CpmFS, for every geometry, image and client.             *)
EXTENDS CpmFS, TLAPS

-----------------------------------------------------------------------------
(* Types                                                                   *)

USE DEF NoSlot, Unset, Free, Sfcb

LEMMA DivMod ==
  ASSUME NEW a \in Int, NEW b \in Nat \ {0}
  PROVE  /\ a % b \in Nat
         /\ a \in Nat => a \div b \in Nat
  BY Z3

\* The constants that arithmetic is done with.
LEMMA Geometry ==
  /\ MaxDir \in Nat \ {0} /\ Size \in Nat \ {0} /\ DirBlks \in Nat \ {0}
  /\ BlkSiz \in Nat \ {0} /\ SecLength \in Nat \ {0} /\ NPtr \in Nat \ {0}
  /\ PerSec \in Nat \ {0}
  /\ Extents \in Nat \ {0} /\ Logical \in Nat \ {0} /\ RecLen \in Nat \ {0}
  /\ MaxStatus \in {15, 31} /\ MaxFileUser \in {15, 31}
  /\ MaxFileUser <= MaxStatus
  /\ DirBlks <= Size
  BY GeometryAssumption DEF GeometryAssumption, MaxFileUser

LEMMA DivLess ==
  ASSUME NEW a \in Nat, NEW b \in Nat \ {0}, NEW c \in Nat, a < c * b
  PROVE  a \div b < c
  BY Z3

\* What cpmSync that succeeds has written is the whole directory.
LEMMA WholeWritten ==
  /\ DirSectors \in Nat
  /\ dir \in [Slot -> Entry] => Written(DirSectors) = dir
<1> DEFINE n == (MaxDir + PerSec - 1) \div PerSec
<1>1. MaxDir \in Nat \ {0} /\ PerSec \in Nat \ {0}
  BY Geometry
<1>2. n \in Nat /\ MaxDir - 1 < n * PerSec
  <2>1. ASSUME NEW a \in Nat, NEW b \in Nat \ {0}
        PROVE  (a + b) \div b \in Nat /\ a < ((a + b) \div b) * b
    BY <2>1, Z3
  <2>2. MaxDir - 1 \in Nat /\ MaxDir + PerSec - 1 = (MaxDir - 1) + PerSec
    BY <1>1
  <2>3. QED
    BY <1>1, <2>1, <2>2
<1>3. \A s \in Slot : s < n * PerSec
  <2> DEFINE m == n * PerSec
  <2>1. m \in Nat /\ MaxDir - 1 < m
    BY <1>1, <1>2
  <2> HIDE DEF m
  <2>2. \A s \in Slot : s < m
    BY <1>1, <2>1 DEF Slot
  <2>3. QED
    BY <2>2 DEF m
<1>4. DirSectors = n
  BY DEF DirSectors
<1> HIDE DEF n
<1>5. Written(n) = [s \in Slot |-> dir[s]]
  BY <1>3 DEF Written
<1>6. QED
  BY <1>2, <1>4, <1>5

\* Every entry of the image that cpmSync leaves is one that was there or one
\* of the buffer.
LEMMA WrittenParts ==
  ASSUME NEW n
  PROVE  \A s \in Slot : Written(n)[s] = dir[s] \/ Written(n)[s] = disk[s]
  BY DEF Written

LEMMA WrittenType ==
  ASSUME TypeOK, NEW n PROVE Written(n) \in [Slot -> Entry]
  BY DEF TypeOK, Written

LEMMA ExtCapType == ExtCap \in Nat \ {0}
<1>1. NPtr * BlkSiz \in Nat \ {0} /\ Logical * Extents \in Nat \ {0}
  BY Geometry, Z3
<1>2. QED
  BY <1>1 DEF ExtCap

\* cpmWrite stays within the block pointers of an entry.
LEMMA PtrAtType ==
  ASSUME NEW pos \in Nat
  PROVE  PtrAt(pos) \in PtrIx
<1>1. pos % ExtCap \in 0 .. ExtCap - 1
  BY ExtCapType
<1>2. NPtr * BlkSiz \in Nat /\ ExtCap <= NPtr * BlkSiz
  BY Geometry, GeometryAssumption DEF GeometryAssumption
<1>3. pos % ExtCap \in Nat /\ pos % ExtCap < NPtr * BlkSiz
  BY <1>1, <1>2, ExtCapType
<1>4. (pos % ExtCap) \div BlkSiz < NPtr
  BY <1>3, DivLess, Geometry
<1>5. (pos % ExtCap) \div BlkSiz \in Nat
  BY <1>3, DivMod, Geometry
<1>6. QED
  BY <1>4, <1>5, Geometry DEF PtrAt, PtrIx

LEMMA EntryFields ==
  ASSUME NEW e \in Entry
  PROVE  /\ e.status \in Status /\ e.name \in Names \cup {NoName}
         /\ e.attr \in SUBSET Attrs /\ e.extno \in 0 .. 2047
         /\ e.blkcnt \in Nat /\ e.lrc \in Nat /\ e.ptr \in [PtrIx -> Nat]
<1>1. e.status \in Status /\ e.extno \in 0 .. 2047
  BY DEF Entry
<1>2. e.blkcnt \in Nat /\ e.lrc \in Nat
  BY DEF Entry
<1>3. e.ptr \in [PtrIx -> Nat] /\ e.attr \in SUBSET Attrs
  BY DEF Entry
<1>4. e.name \in Names \cup {NoName}
  BY DEF Entry
<1>5. QED
  BY <1>1, <1>2, <1>3, <1>4

LEMMA ExtnoField == \A e \in Entry : e.extno \in Nat /\ e.extno < 2048
<1> SUFFICES ASSUME NEW e \in Entry PROVE e.extno \in Nat /\ e.extno < 2048
  OBVIOUS
<1>1. e.extno \in 0 .. 2047
  BY DEF Entry
<1>2. PICK x \in 0 .. 2047 : x = e.extno
  BY <1>1
<1>3. x \in Nat /\ x < 2048
  OBVIOUS
<1>4. QED
  BY <1>2, <1>3

LEMMA RenamedEntry ==
  ASSUME NEW e \in Entry, NEW m \in Names
  PROVE  [e EXCEPT !.name = m] \in Entry
<1>1. e = [status |-> e.status, name |-> e.name, attr |-> e.attr, extno |-> e.extno,
           blkcnt |-> e.blkcnt, lrc |-> e.lrc, ptr |-> e.ptr]
  BY DEF Entry
<1>2. \A u, n, a, x, c, l, p :
        [[status |-> u, name |-> n, attr |-> a, extno |-> x,
          blkcnt |-> c, lrc |-> l, ptr |-> p] EXCEPT !.name = m]
          = [status |-> u, name |-> m, attr |-> a, extno |-> x,
             blkcnt |-> c, lrc |-> l, ptr |-> p]
  OBVIOUS
<1>3. [e EXCEPT !.name = m]
        = [status |-> e.status, name |-> m, attr |-> e.attr, extno |-> e.extno,
           blkcnt |-> e.blkcnt, lrc |-> e.lrc, ptr |-> e.ptr]
  BY <1>1, <1>2
<1>4. [status |-> e.status, name |-> m, attr |-> e.attr, extno |-> e.extno,
       blkcnt |-> e.blkcnt, lrc |-> e.lrc, ptr |-> e.ptr] \in Entry
  <2>1. /\ e.status \in Status /\ m \in Names \cup {NoName} /\ e.attr \in SUBSET Attrs
        /\ e.extno \in 0 .. 2047 /\ e.blkcnt \in Nat /\ e.lrc \in Nat
        /\ e.ptr \in [PtrIx -> Nat]
    BY EntryFields
  <2>2. QED
    BY <2>1 DEF Entry
<1>5. QED
  BY <1>3, <1>4

LEMMA PtrUpdate ==
  ASSUME NEW e \in Entry, NEW p \in [PtrIx -> Nat]
  PROVE  [e EXCEPT !.ptr = p] \in Entry
  BY DEF Entry

LEMMA PtrSet ==
  ASSUME NEW e \in Entry, NEW i \in PtrIx, NEW b \in Nat
  PROVE  [e EXCEPT !.ptr[i] = b] \in Entry
  BY DEF Entry

LEMMA PtrSetFields ==
  ASSUME NEW e \in Entry, NEW i \in PtrIx, NEW b \in Nat
  PROVE  /\ [e EXCEPT !.ptr[i] = b].status = e.status
         /\ [e EXCEPT !.ptr[i] = b].name = e.name
         /\ [e EXCEPT !.ptr[i] = b].extno = e.extno
         /\ \A j \in PtrIx :
              [e EXCEPT !.ptr[i] = b].ptr[j] = IF j = i THEN b ELSE e.ptr[j]
<1> DEFINE Fields == {"status", "name", "attr", "extno", "blkcnt", "lrc", "ptr"}
<1>1. e = [x \in Fields |-> e[x]]
  BY DEF Entry
<1>2. /\ "status" \in DOMAIN e /\ "name" \in DOMAIN e /\ "extno" \in DOMAIN e
      /\ "ptr" \in DOMAIN e
  BY <1>1
<1>3. e.ptr \in [PtrIx -> Nat]
  BY EntryFields
<1>4. /\ [e EXCEPT !.ptr[i] = b].status = e.status
      /\ [e EXCEPT !.ptr[i] = b].name = e.name
      /\ [e EXCEPT !.ptr[i] = b].extno = e.extno
  BY <1>2
<1>5. [e EXCEPT !.ptr[i] = b].ptr = [e.ptr EXCEPT ![i] = b]
  BY <1>2
<1>6. QED
  BY <1>3, <1>4, <1>5

LEMMA PosSet ==
  ASSUME NEW f \in [Handles -> Inode], NEW h \in Handles, NEW p \in Nat
  PROVE  [f EXCEPT ![h].pos = p] \in [Handles -> Inode]
  BY DEF Inode

LEMMA SizeSet ==
  ASSUME NEW f \in [Handles -> Inode], NEW h \in Handles, NEW n \in Int
  PROVE  [f EXCEPT ![h].size = n] \in [Handles -> Inode]
<1>1. [f[h] EXCEPT !.size = n] \in Inode
  BY DEF Inode
<1>2. QED
  BY <1>1

LEMMA Mod2048 == \A x \in Nat : x % 2048 \in 0 .. 2047
  BY SMT

LEMMA NewEntryType ==
  ASSUME NEW u \in Status, NEW n \in Names
  PROVE  NewEntry(u, n) \in Entry
  BY DEF NewEntry, Entry, ZeroPtrs

LEMMA ExtendedType ==
  ASSUME NEW e \in Entry, NEW x \in Nat
  PROVE  Extended(e, x) \in Entry
<1>1. ZeroPtrs \in [PtrIx -> Nat]
  BY DEF ZeroPtrs
<1>2. x % 2048 \in 0 .. 2047
  BY Mod2048
<1>3. 0 \in Nat
  OBVIOUS
<1>4. /\ e.status \in Status /\ e.name \in Names \cup {NoName}
      /\ e.attr \in SUBSET Attrs
  BY EntryFields
<1>5. QED
  BY <1>1, <1>2, <1>3, <1>4 DEF Extended, Entry

LEMMA RecordedType ==
  ASSUME NEW e \in Entry, NEW extno \in Nat, NEW pos \in Nat
  PROVE  Recorded(e, extno, pos) \in Entry
<1>1. extno % 2048 \in 0 .. 2047
  BY Mod2048
<1>2. ((pos - 1) % Logical) \div RecLen + 1 \in Nat
  <2>1. (pos - 1) % Logical \in Nat
    BY DivMod, Geometry
  <2>2. QED
    BY <2>1, DivMod, Geometry
<1>3. (RecLen - (pos % RecLen)) % RecLen \in Nat /\ pos % RecLen \in Nat
  <2>1. pos % RecLen \in Nat
    BY DivMod, Geometry
  <2>2. RecLen - (pos % RecLen) \in Int
    BY <2>1, Geometry
  <2>3. QED
    BY <2>1, <2>2, DivMod, Geometry
<1>4. (IF ExactSize THEN (RecLen - (pos % RecLen)) % RecLen ELSE pos % RecLen) \in Nat
  BY <1>3
<1> DEFINE c == ((pos - 1) % Logical) \div RecLen + 1
           l == IF ExactSize THEN (RecLen - (pos % RecLen)) % RecLen
                ELSE pos % RecLen
<1>5. c \in Nat /\ l \in Nat
  BY <1>2, <1>4
<1> HIDE DEF c, l
<1>6. [status |-> e.status, name |-> e.name, attr |-> e.attr,
       extno |-> extno % 2048, blkcnt |-> c, lrc |-> l, ptr |-> e.ptr] \in Entry
  <2>1. /\ e.status \in Status /\ e.name \in Names \cup {NoName}
        /\ e.attr \in SUBSET Attrs /\ e.ptr \in [PtrIx -> Nat]
    BY EntryFields
  <2>2. QED
    BY <1>1, <1>5, <2>1 DEF Entry
<1>7. QED
  BY <1>6 DEF Recorded, c, l

LEMMA RestampedType ==
  ASSUME NEW d \in [Slot -> Entry], NEW x, NEW e \in Restamped(d, x)
  PROVE  e \in [Slot -> Entry]
<1>1. CASE MpmDates /\ x # NoSlot
  <2>1. PICK p \in Stamps : e = [d EXCEPT ![x].ptr = p]
    BY <1>1, Zenon DEF Restamped
  <2>2. p \in [PtrIx -> Nat]
    BY InputAssumption DEF InputAssumption
  <2>3. ASSUME x \in Slot PROVE [d[x] EXCEPT !.ptr = p] \in Entry
    <3>1. d[x] \in Entry
      BY <2>3
    <3>2. QED
      BY <2>2, <3>1, PtrUpdate
  <2> DEFINE new == [d[x] EXCEPT !.ptr = p]
  <2>4. e = [d EXCEPT ![x] = new]
    BY <2>1, Zenon
  <2> HIDE DEF new
  <2>5. x \in Slot => new \in Entry
    BY <2>3 DEF new
  <2>6. QED
    BY <2>4, <2>5
<1>2. CASE ~(MpmDates /\ x # NoSlot)
  BY <1>2, Zenon DEF Restamped
<1>3. QED
  BY <1>1, <1>2

LEMMA AlvInitType ==
  ASSUME NEW d PROVE AlvInit(d) \subseteq Block
<1>1. 0 .. DirBlks - 1 \subseteq Block
  BY Geometry DEF Block
<1>2. QED
  BY <1>1, Zenon DEF AlvInit

LEMMA SizeOfType ==
  ASSUME NEW e \in Entry PROVE SizeOf(e) \in Int
<1>1. e.extno \in Nat /\ e.blkcnt \in Nat /\ e.lrc \in Nat
  <2>1. \A x : x \in 0 .. 2047 => x \in Nat
    OBVIOUS
  <2>2. e.extno \in 0 .. 2047
    BY EntryFields
  <2>3. e.extno \in Nat
    BY <2>1, <2>2
  <2>4. e.blkcnt \in Nat /\ e.lrc \in Nat
    BY EntryFields
  <2>5. QED
    BY <2>3, <2>4
<1>2. LastRecord(e) \in Int
  BY <1>1, Geometry DEF LastRecord
<1>3. e.extno * Logical \in Int /\ (e.blkcnt - 1) * RecLen \in Int
  BY <1>1, Geometry, Z3
<1>4. QED
  BY <1>1, <1>2, <1>3 DEF SizeOf

LEMMA StatusTypes ==
  \A u \in Users : u \in Status /\ u + 16 \in Status
  BY Geometry, InputAssumption, SMT DEF InputAssumption, Status


LEMMA SlotTypes ==
  /\ \A S \in SUBSET Slot : Firsts(S) \subseteq Slot
  /\ \A d, u, n : /\ Match(d, u, n) \subseteq Slot
                   /\ \A x : MatchExtent(d, u, n, x) \subseteq Slot
                   /\ FreeSlots(d) \subseteq Slot
                   /\ \A S \in SUBSET Slot : /\ Lowest(d, S) \subseteq Slot
                                             /\ Highest(d, S) \subseteq Slot
  BY Zenon DEF Firsts, Match, MatchExtent, FreeSlots, Lowest, Highest

\* What cpmCreat leaves in the inode.
LEMMA CreatedType ==
  ASSUME fd \in [Handles -> Inode], NEW h \in Handles, NEW s \in Slot,
         NEW x \in Slot \cup {NoSlot}, Created(h, s, x)
  PROVE  /\ fd' \in [Handles -> Inode]
         /\ \A k \in Handles : fd'[k].file = "open" => k # h /\ fd'[k] = fd[k]
  BY DEF Created, Inode, InodeOf

\* What cpmRename does to entries: e is d but for the status and name of S.
Moves(d, e, S, w) ==
  /\ e \in [Slot -> Entry]
  /\ \A s \in Slot : /\ e[s].ptr = d[s].ptr
                     /\ e[s].status = IF s \in S THEN w ELSE d[s].status

LEMMA RenamedMoves ==
  ASSUME NEW d \in [Slot -> Entry], NEW S, NEW w \in Status, NEW m \in Names
  PROVE  Moves(d, Renamed(d, S, w, m), S, w)
<1> DEFINE e(s) == [d[s] EXCEPT !.status = w]
<1>1. \A s \in Slot : /\ e(s) \in Entry
                      /\ e(s).ptr = d[s].ptr /\ e(s).status = w
  BY DEF Entry, Status
<1>2. \A s \in Slot : [d[s] EXCEPT !.status = w, !.name = m]
                        = [e(s) EXCEPT !.name = m]
  OBVIOUS
<1> HIDE DEF e
<1>3. ASSUME NEW c \in Entry
      PROVE  /\ [c EXCEPT !.name = m] \in Entry
             /\ [c EXCEPT !.name = m].ptr = c.ptr
             /\ [c EXCEPT !.name = m].status = c.status
  <2>1. [c EXCEPT !.name = m] \in Entry
    BY RenamedEntry
  <2>2. /\ [c EXCEPT !.name = m].ptr = c.ptr
        /\ [c EXCEPT !.name = m].status = c.status
    BY DEF Entry
  <2>3. QED
    BY <2>1, <2>2
<1> DEFINE r(s) == [e(s) EXCEPT !.name = m]
<1>4. \A s \in Slot : /\ r(s) \in Entry
                      /\ r(s).ptr = d[s].ptr /\ r(s).status = w
  BY <1>1, <1>3
<1>5. Renamed(d, S, w, m) = [s \in Slot |-> IF s \in S THEN r(s) ELSE d[s]]
  BY <1>2 DEF Renamed
<1> HIDE DEF r
<1>6. QED
  BY <1>4, <1>5 DEF Moves

LEMMA RenamedType ==
  ASSUME NEW d \in [Slot -> Entry], NEW S, NEW w \in Status, NEW m \in Names
  PROVE  Renamed(d, S, w, m) \in [Slot -> Entry]
  BY RenamedMoves DEF Moves

LEMMA InitType == Init => TypeOK
<1> SUFFICES ASSUME Init PROVE TypeOK
  OBVIOUS
<1>1. disk \in [Slot -> Entry]
  BY InputAssumption DEF Init, InputAssumption
<1>2. alv \subseteq Block
  BY AlvInitType DEF Init
<1>3. fd \in [Handles -> Inode]
  BY DEF Init, Inode, Closed, InodeOf
<1>4. wr \in WriteCall
  BY DEF Init, WriteCall, Returned
<1>5. dir \in [Slot -> Entry] /\ dirty \in BOOLEAN
  BY <1>1 DEF Init
<1>6. wr.phase = "idle" /\ \A h \in Handles : ~IsOpen(h)
  BY DEF Init, Closed, InodeOf, IsOpen, Returned
<1>7. QED
  BY <1>1, <1>2, <1>3, <1>4, <1>5, <1>6 DEF TypeOK

LEMMA TypeStep ==
  ASSUME TypeOK, [Next]_vars PROVE TypeOK'
<1>1. ASSUME NEW h \in Handles, NEW u \in Users, NEW n \in Names,
             CreatPlain(h, u, n)
      PROVE  TypeOK'
  <2>1. PICK s \in Firsts(FreeSlots(dir)), x \in Slot \cup {NoSlot} :
          /\ dir' \in Restamped([dir EXCEPT ![s] = NewEntry(u, n)], x)
          /\ Created(h, s, x)
    BY <1>1, SlotTypes DEF CreatPlain
  <2>2. s \in Slot
    BY SlotTypes
  <2>3. [dir EXCEPT ![s] = NewEntry(u, n)] \in [Slot -> Entry]
    BY NewEntryType, StatusTypes DEF TypeOK
  <2>4. dir' \in [Slot -> Entry]
    BY <2>1, <2>3, RestampedType
  <2>5. /\ fd' \in [Handles -> Inode]
        /\ \A k \in Handles : fd'[k].file = "open" => fd'[k] = fd[k]
    BY <2>1, <2>2, CreatedType DEF TypeOK
  <2>6. QED
    BY <1>1, <2>4, <2>5 DEF CreatPlain, Quiet, TypeOK, IsOpen
<1>2. ASSUME NEW h \in Handles, NEW u \in Users, NEW n \in Names,
             CreatWithXfcb(h, u, n)
      PROVE  TypeOK'
  <2> DEFINE with(s) == [dir EXCEPT ![s] = NewEntry(u, n)]
  <2>1. PICK s \in Firsts(FreeSlots(dir)) :
          \E x \in Firsts(FreeSlots(with(s))) :
            /\ dir' \in Restamped([with(s) EXCEPT ![x] =
                                     NewEntry(u + 16, n)], x)
            /\ Created(h, s, x)
    BY <1>2 DEF CreatWithXfcb
  <2>2. PICK x \in Firsts(FreeSlots(with(s))) :
          /\ dir' \in Restamped([with(s) EXCEPT ![x] =
                                   NewEntry(u + 16, n)], x)
          /\ Created(h, s, x)
    BY <2>1
  <2>3. s \in Slot /\ x \in Slot
    BY SlotTypes
  <2>4. with(s) \in [Slot -> Entry]
    BY NewEntryType, StatusTypes DEF TypeOK
  <2> HIDE DEF with
  <2>5. [with(s) EXCEPT ![x] = NewEntry(u + 16, n)] \in [Slot -> Entry]
    BY <2>4, NewEntryType, StatusTypes
  <2>6. dir' \in [Slot -> Entry]
    BY <2>2, <2>5, RestampedType
  <2>7. /\ fd' \in [Handles -> Inode]
        /\ \A k \in Handles : fd'[k].file = "open" => fd'[k] = fd[k]
    BY <2>2, <2>3, CreatedType DEF TypeOK
  <2>8. QED
    BY <1>2, <2>6, <2>7 DEF CreatWithXfcb, Quiet, TypeOK, IsOpen
<1>3. ASSUME NEW h \in Handles, NEW u \in Users, NEW n \in Names,
             CreatHalf(h, u, n)
      PROVE  TypeOK'
  <2>1. PICK s \in Firsts(FreeSlots(dir)) :
          dir' = [dir EXCEPT ![s] = NewEntry(u, n)]
    BY <1>3 DEF CreatHalf
  <2>2. dir' \in [Slot -> Entry]
    BY <2>1, NewEntryType, StatusTypes DEF TypeOK
  <2>3. /\ fd' \in [Handles -> Inode]
        /\ \A k \in Handles : fd'[k].file = "open" => fd'[k] = fd[k]
    BY <1>3 DEF CreatHalf, TypeOK, Inode, Closed, InodeOf
  <2>4. QED
    BY <1>3, <2>2, <2>3 DEF CreatHalf, Quiet, TypeOK, IsOpen
<1>4. ASSUME NEW h \in Handles, NEW u \in Users, NEW n \in Names,
             Namei(h, u, n)
      PROVE  TypeOK'
  <2>1. PICK low \in Lowest(dir, Match(dir, u, n)),
             high \in Highest(dir, Match(dir, u, n)) :
          fd' = [fd EXCEPT ![h] =
                   InodeOf(low, SizeOf(dir[high]), dir[low].attr,
                           Unset, ModeOf(dir[low].attr))]
    BY <1>4 DEF Namei
  <2>2. low \in Slot /\ high \in Slot
    BY SlotTypes
  <2>3. SizeOf(dir[high]) \in Int /\ dir[low].attr \in SUBSET Attrs
    BY <2>2, SizeOfType, EntryFields DEF TypeOK
  <2>4. /\ fd' \in [Handles -> Inode]
        /\ \A k \in Handles : fd'[k].file = "open" => fd'[k] = fd[k]
    BY <2>1, <2>2, <2>3 DEF TypeOK, Inode, InodeOf, ModeOf
  <2>5. QED
    BY <1>4, <2>4 DEF Namei, Quiet, TypeOK, IsOpen
<1>5. ASSUME NEW u \in Users, NEW n \in Names, Unlink(u, n)
      PROVE  TypeOK'
  <2>1. \A e \in Entry : [e EXCEPT !.status = Free] \in Entry
    BY DEF Entry, Status
  <2>2. PICK gone : dir' = [s \in Slot |-> IF s \in gone
                                           THEN [dir[s] EXCEPT !.status = Free]
                                           ELSE dir[s]]
    BY <1>5, ZenonT(30) DEF Unlink, Erased
  <2>3. dir' \in [Slot -> Entry]
    BY <2>1, <2>2 DEF TypeOK
  <2>4. alv' \subseteq Block
    BY <1>5, AlvInitType DEF Unlink
  <2>5. QED
    BY <1>5, <2>3, <2>4 DEF Unlink, Quiet, TypeOK, IsOpen
<1>6. ASSUME NEW u \in Users, NEW n \in Names,
             NEW v \in Users, NEW m \in Names, Rename(u, n, v, m)
      PROVE  TypeOK'
  <2>1. PICK d, xfcbs : /\ d = Renamed(dir, Match(dir, u, n), v, m)
                        /\ dir' = Renamed(d, xfcbs, v + 16, m)
    BY <1>6 DEF Rename
  <2>2. d \in [Slot -> Entry]
    BY <2>1, RenamedType, StatusTypes DEF TypeOK
  <2>3. dir' \in [Slot -> Entry]
    <3>1. v + 16 \in Status
      BY StatusTypes
    <3>2. Renamed(d, xfcbs, v + 16, m) \in [Slot -> Entry]
      BY <2>2, <3>1, RenamedType, Zenon
    <3>3. QED
      BY <2>1, <3>2
  <2>4. QED
    BY <1>6, <2>3 DEF Rename, Quiet, TypeOK, IsOpen
<1>7. ASSUME NEW h \in Handles, Open(h) \/ Utime(h) PROVE TypeOK'
  <2>1. CASE Open(h)
    <3> DEFINE f == [fd EXCEPT ![h].file = "open"]
    <3>1. /\ f \in [Handles -> Inode]
          /\ \A k \in Handles : /\ f[k].slot = fd[k].slot
                                /\ k # h => f[k].file = fd[k].file
      BY DEF TypeOK, Inode
    <3>2. fd' = [f EXCEPT ![h].pos = 0]
      BY <2>1 DEF Open
    <3> HIDE DEF f
    <3>3. /\ fd' \in [Handles -> Inode]
          /\ \A k \in Handles : /\ fd'[k].slot = f[k].slot
                                /\ fd'[k].file = f[k].file
      BY <3>1, <3>2 DEF Inode
    <3>4. QED
      BY <2>1, <3>1, <3>3 DEF Open, Quiet, TypeOK, IsOpen
  <2>2. CASE Utime(h)
    <3>1. dir' \in [Slot -> Entry]
      BY <2>2, RestampedType DEF Utime, TypeOK
    <3>2. dirty' \in BOOLEAN
      BY <2>2 DEF Utime, TypeOK, Stamped
    <3>3. QED
      BY <2>2, <3>1, <3>2 DEF Utime, Quiet, TypeOK, IsOpen
  <2>3. QED
    BY <1>7, <2>1, <2>2
<1>8. ASSUME NEW h \in Handles, NEW a \in SUBSET Attrs, AttrSet(h, a)
      PROVE  TypeOK'
  <2>1. \A e \in Entry : [e EXCEPT !.attr = a] \in Entry
    BY DEF Entry
  <2>2. PICK S : dir' = [s \in Slot |-> IF s \in S
                                        THEN [dir[s] EXCEPT !.attr = a]
                                        ELSE dir[s]]
    BY <1>8 DEF AttrSet
  <2>3. dir' \in [Slot -> Entry]
    BY <2>1, <2>2 DEF TypeOK
  <2>4. /\ fd' \in [Handles -> Inode]
        /\ \A k \in Handles : /\ fd'[k].slot = fd[k].slot
                              /\ fd'[k].file = fd[k].file
    <3> DEFINE f == [fd EXCEPT ![h].attr = a]
    <3>1. /\ f \in [Handles -> Inode]
          /\ \A k \in Handles : /\ f[k].slot = fd[k].slot
                                /\ f[k].file = fd[k].file
      BY DEF TypeOK, Inode
    <3>2. fd' = [f EXCEPT ![h].mode = ModeOf(a)]
      BY <1>8 DEF AttrSet
    <3> HIDE DEF f
    <3>3. QED
      BY <3>1, <3>2 DEF Inode, ModeOf
  <2>5. QED
    BY <1>8, <2>3, <2>4 DEF AttrSet, Quiet, TypeOK, IsOpen
<1>9. ASSUME NEW h \in Handles, NEW w \in Modes, Chmod(h, w) PROVE TypeOK'
  <2> DEFINE a == (fd[h].attr \ {"RO"}) \cup (IF w THEN {} ELSE {"RO"})
  <2>1. fd[h].attr \in SUBSET Attrs
    BY DEF TypeOK, Inode
  <2>2. w \/ "RO" \in Attrs
    BY DEF Modes
  <2>3. a \in SUBSET Attrs
    BY <2>1, <2>2
  <2>4. AttrSet(h, a)
    BY <1>9 DEF Chmod
  <2>5. QED
    BY <1>8, <2>3, <2>4
<1>10. ASSUME NEW h \in Handles, NEW c \in 1 .. MaxCount, WriteBegin(h, c)
       PROVE  TypeOK'
  <2>1. wr' \in WriteCall /\ wr'.phase = "extent" /\ wr'.h = h /\ wr'.count > 0
    BY <1>10, InputAssumption DEF WriteBegin, Go, TypeOK, WriteCall, InputAssumption
  <2>2. QED
    BY <1>10, <2>1 DEF WriteBegin, TypeOK, IsOpen
<1>11. CASE Sync \/ SyncFailed
  <2>1. disk' \in [Slot -> Entry]
    BY <1>11, WrittenType DEF Sync, SyncFailed, TypeOK
  <2>2. UNCHANGED <<dir, alv, fd, wr>> /\ dirty' \in BOOLEAN
    BY <1>11 DEF Sync, SyncFailed, TypeOK
  <2>3. QED
    BY <2>1, <2>2 DEF TypeOK, IsOpen
<1>12. CASE ExtentFound \/ ExtentAdded \/ ExtentDenied
  <2>1. /\ wr.phase = "extent" /\ wr.h \in Handles /\ wr.count \in Nat
        /\ wr.got \in {"all", "less"}
    BY <1>12 DEF ExtentFound, ExtentAdded, ExtentDenied, TypeOK, WriteCall
  <2>2. Pos \in Nat /\ Pos \div Logical \in Nat
    <3>1. Pos \in Nat
      BY <2>1 DEF Pos, TypeOK, Inode
    <3>2. QED
      BY <3>1, DivMod, Geometry
  <2>3. Own \in Entry
    BY <2>1 DEF Own, TypeOK, Inode
  <2>4. ASSUME NEW s \in Slot, UseExtent(s)
        PROVE  /\ wr' \in WriteCall /\ wr'.h = wr.h /\ wr'.count = wr.count
               /\ wr'.extent # NoSlot
    BY <2>1, <2>2, <2>4 DEF UseExtent, Go, WriteCall, Slot
  <2>5. CASE ExtentFound
    <3>1. PICK s \in Slot : UseExtent(s)
      BY <2>5, SlotTypes DEF ExtentFound, Extent
    <3>2. QED
      BY <2>1, <2>4, <2>5, <3>1 DEF ExtentFound, TypeOK, IsOpen
  <2>6. CASE ExtentAdded
    <3>1. PICK s \in Slot :
            /\ dir' \in Restamped([dir EXCEPT ![s] =
                                     Extended(Own, Pos \div Logical)],
                                  fd[wr.h].xfcb)
            /\ dirty' = (dirty \/ Stamped(dir, s))
            /\ UseExtent(s)
      BY <2>6, SlotTypes DEF ExtentAdded
    <3>2. [dir EXCEPT ![s] = Extended(Own, Pos \div Logical)]
            \in [Slot -> Entry]
      BY <2>2, <2>3, ExtendedType DEF TypeOK
    <3>3. dir' \in [Slot -> Entry]
      BY <3>1, <3>2, RestampedType
    <3>4. dirty' \in BOOLEAN
      BY <3>1 DEF TypeOK, Stamped
    <3>5. QED
      BY <2>1, <2>4, <2>6, <3>1, <3>3, <3>4 DEF ExtentAdded, TypeOK, IsOpen
  <2>7. CASE ExtentDenied
    BY <2>1, <2>7 DEF ExtentDenied, Finish, Returned, TypeOK, WriteCall, IsOpen
  <2>8. QED
    BY <1>12, <2>5, <2>6, <2>7
<1>13. CASE BlockFound \/ BlockUnreadable \/ BlockAllocated \/ BlockDenied
  <2>1. wr.phase = "block"
    BY <1>13 DEF BlockFound, BlockUnreadable, BlockAllocated, BlockDenied
  <2>2. ASSUME UseBlock
        PROVE  /\ wr' \in WriteCall /\ wr'.h = wr.h /\ wr'.count = wr.count
               /\ wr'.extent = wr.extent
    BY <2>2 DEF UseBlock, Go, TypeOK, WriteCall
  <2>3. CASE BlockFound
    BY <2>1, <2>2, <2>3 DEF BlockFound, TypeOK, IsOpen
  <2>4. CASE BlockUnreadable \/ BlockDenied
    BY <2>1, <2>4 DEF BlockUnreadable, BlockDenied, Finish, Returned, TypeOK,
                      WriteCall, IsOpen
  <2>5. CASE BlockAllocated
    <3> DEFINE d(b) == [dir EXCEPT ![wr.extent].ptr[PtrAt(Pos)] = b]
    <3>1. PICK b \in Block : /\ alv' = alv \cup {b}
                             /\ dir' \in Restamped(d(b), fd[wr.h].xfcb)
      BY <2>5 DEF BlockAllocated, Firsts
    <3>2. b \in Nat
      BY Geometry DEF Block
    <3>3. d(b) \in [Slot -> Entry]
      <4>1. PtrAt(Pos) \in PtrIx
        <5>1. Pos \in Nat
          BY DEF Pos, TypeOK, Inode, WriteCall
        <5>2. QED
          BY <5>1, PtrAtType
      <4>2. wr.extent \in Slot /\ dir[wr.extent] \in Entry
        BY <2>1 DEF TypeOK, WriteCall
      <4> DEFINE new == [dir[wr.extent] EXCEPT !.ptr[PtrAt(Pos)] = b]
      <4>3. new \in Entry
        BY <3>2, <4>1, <4>2, PtrSet
      <4>4. d(b) = [dir EXCEPT ![wr.extent] = new]
        OBVIOUS
      <4> HIDE DEF new, d
      <4>5. QED
        BY <4>2, <4>3, <4>4 DEF TypeOK
    <3>4. dir' \in [Slot -> Entry]
      BY <3>1, <3>3, RestampedType
    <3>5. dirty' \in BOOLEAN
      BY <2>5 DEF BlockAllocated, TypeOK, Stamped
    <3>6. QED
      BY <2>1, <2>2, <2>5, <3>1, <3>4, <3>5 DEF BlockAllocated, TypeOK, IsOpen
  <2>6. QED
    BY <1>13, <2>3, <2>4, <2>5
<1>14. CASE Filled
  <2> DEFINE n   == Room(Pos, wr.count)
             pos == Pos + n
             h   == wr.h
             FilledWith(last) ==
               LET extno == wr.extno + (last * BlkSiz) \div ExtCap
               IN /\ dir' \in Restamped(
                       [dir EXCEPT ![wr.extent] = Recorded(@, extno, pos)],
                       fd[h].xfcb)
                  /\ \/ n = wr.count /\ Finish("all")
                     \/ /\ n < wr.count
                        /\ Go(IF pos % ExtCap = 0 THEN "extent" ELSE "block",
                              h, wr.count - n, wr.extent, extno)
  <2>0. PICK last \in PtrIx : FilledWith(last)
    BY <1>14 DEF Filled, Last
  <2> DEFINE extno == wr.extno + (last * BlkSiz) \div ExtCap
  <2>1. /\ wr.phase = "fill" /\ wr.h \in Handles /\ wr.extent \in Slot
        /\ wr.count \in Nat \ {0} /\ wr.extno \in Nat
        /\ wr.got \in {"all", "less"}
    BY <1>14 DEF Filled, TypeOK, WriteCall
  <2>2. Pos \in Nat
    BY <2>1 DEF Pos, TypeOK, Inode
  <2>3. n \in Nat /\ n <= wr.count
    <3>1. Pos % BlkSiz \in 0 .. BlkSiz - 1
      BY <2>2, Geometry
    <3>2. QED
      BY <2>1, <3>1, Geometry DEF Room
  <2>4. pos \in Nat
    BY <2>2, <2>3
  <2>5. extno \in Nat
    <3>1. last \in Nat
      BY DEF PtrIx
    <3>2. last * BlkSiz \in Nat
      BY <3>1, Geometry
    <3>3. (last * BlkSiz) \div ExtCap \in Nat
      BY <3>2, ExtCapType, DivMod
    <3>4. QED
      BY <2>1, <3>3
  <2> DEFINE d == [dir EXCEPT ![wr.extent] =
                     Recorded(dir[wr.extent], extno, pos)]
             f == [fd EXCEPT ![h].pos = pos]
             size == IF f[h].size < pos THEN pos ELSE f[h].size
  <2>6. /\ dir' \in Restamped(d, fd[h].xfcb)
        /\ \/ n = wr.count /\ Finish("all")
           \/ /\ n < wr.count
              /\ Go(IF pos % ExtCap = 0 THEN "extent" ELSE "block",
                    h, wr.count - n, wr.extent, extno)
    BY <2>0
  <2>7. /\ fd' = [f EXCEPT ![h].size = size]
        /\ dirty' = TRUE
        /\ alv' = alv /\ disk' = disk
    BY <1>14 DEF Filled
  <2> HIDE DEF n, pos, extno, h, FilledWith
  <2>8. dir' \in [Slot -> Entry]
    <3>1. d \in [Slot -> Entry]
      BY <2>1, <2>4, <2>5, RecordedType DEF TypeOK
    <3>2. QED
      BY <2>6, <3>1, RestampedType
  <2>9. /\ f \in [Handles -> Inode]
        /\ \A k \in Handles : f[k].slot = fd[k].slot /\ f[k].file = fd[k].file
    <3>1. h \in Handles
      BY <2>1 DEF h
    <3>2. QED
      BY <2>4, <3>1, PosSet DEF TypeOK
  <2>10. /\ fd' \in [Handles -> Inode]
         /\ \A k \in Handles : /\ fd'[k].slot = fd[k].slot
                               /\ fd'[k].file = fd[k].file
    <3>1. h \in Handles
      BY <2>1 DEF h
    <3>2. size \in Int
      BY <2>4, <2>9, <3>1 DEF Inode
    <3> HIDE DEF size, f
    <3>3. fd' \in [Handles -> Inode]
      BY <2>7, <2>9, <3>1, <3>2, SizeSet
    <3>4. \A k \in Handles : fd'[k].slot = f[k].slot /\ fd'[k].file = f[k].file
      BY <2>7, <2>9, <3>1
    <3>5. QED
      BY <2>9, <3>3, <3>4
  <2>11. CASE n = wr.count /\ Finish("all")
    BY <2>1, <2>7, <2>8, <2>10, <2>11 DEF Finish, Returned, TypeOK, WriteCall,
                                          IsOpen
  <2>12. CASE /\ n < wr.count
              /\ Go(IF pos % ExtCap = 0 THEN "extent" ELSE "block",
                    h, wr.count - n, wr.extent, extno)
    <3>1. /\ wr' \in WriteCall /\ wr'.h = wr.h /\ wr'.extent = wr.extent
          /\ wr'.count > 0
      BY <2>1, <2>3, <2>5, <2>12 DEF Go, WriteCall, h
    <3>2. QED
      BY <2>1, <2>7, <2>8, <2>10, <3>1 DEF TypeOK, IsOpen, Slot
  <2>13. QED
    BY <2>6, <2>11, <2>12
<1>15. CASE Remount \/ Crash
  <2>1. disk' \in [Slot -> Entry]
    BY <1>15, WrittenType DEF Remount, Crash, TypeOK
  <2>2. dir' \in [Slot -> Entry] /\ alv' \subseteq Block /\ dirty' \in BOOLEAN
    BY <1>15, <2>1, AlvInitType DEF Remount, Crash, Mount
  <2>3. fd' \in [Handles -> Inode] /\ \A h \in Handles : fd'[h].file = "none"
    BY <1>15 DEF Remount, Crash, Mount, Closed, InodeOf, Inode
  <2>4. wr' \in WriteCall /\ wr'.phase = "idle"
    BY <1>15 DEF Remount, Crash, Quiet, Finish, Returned, TypeOK, WriteCall
  <2>5. QED
    BY <2>1, <2>2, <2>3, <2>4 DEF TypeOK, IsOpen
<1>16. CASE UNCHANGED vars
  BY <1>16 DEF vars, TypeOK, IsOpen
<1>17. QED
  BY <1>1, <1>2, <1>3, <1>4, <1>5, <1>6, <1>7, <1>8, <1>9, <1>10, <1>11,
     <1>12, <1>13, <1>14, <1>15, <1>16 DEF Next, Call, WriteStep

\* Every action keeps the types: the library stays within the directory, the
\* allocation vector and the block pointers of an entry, and a cpmWrite that
\* runs has an open file and bytes left to write.
THEOREM TypeCorrect == Spec => []TypeOK
<1>1. TypeOK /\ [Next]_vars => TypeOK'
  BY TypeStep
<1>2. QED
  BY <1>1, InitType, PTL DEF Spec

-----------------------------------------------------------------------------
(* Blocks.  Two facts about a step carry the argument: which entries hold  *)
(* blocks afterwards (Inherits) and what becomes of the blocks there were  *)
(* (Leaves).  All steps but BlockAllocated, Unlink and the start of a      *)
(* session have both, and only BlockAllocated needs AlvCovers.             *)

\* Each file entry of e holds the blocks it held in d, or none.
Inherits(d, e) ==
  \A s \in FileSlots(e) : \/ s \in FileSlots(d) /\ e[s].ptr = d[s].ptr
                          \/ e[s].ptr = ZeroPtrs

\* The file entries of d keep their pointers in e.
Leaves(d, e) == \A s \in FileSlots(d) : e[s].ptr = d[s].ptr

Covers(A, d) == \A s \in FileSlots(d) : Refs(d[s]) \subseteq A

LEMMA NotSharedUse ==
  ASSUME NEW d, NotShared(d), NEW t \in FileSlots(d), NEW u \in FileSlots(d),
         NEW j \in PtrIx, NEW k \in PtrIx,
         d[t].ptr[j] # 0, d[t].ptr[j] = d[u].ptr[k]
  PROVE  t = u /\ j = k
  BY SMT DEF NotShared

LEMMA InheritsSound ==
  ASSUME NEW d, NEW e, Inherits(d, e)
  PROVE  /\ NotShared(d) => NotShared(e)
         /\ InDataArea(d) => InDataArea(e)
         /\ \A A : Covers(A, d) => Covers(A, e)
<1>1. \A s \in FileSlots(e), i \in PtrIx :
        e[s].ptr[i] # 0 => s \in FileSlots(d) /\ e[s].ptr[i] = d[s].ptr[i]
  BY DEF Inherits, ZeroPtrs
<1>2. NotShared(d) => NotShared(e)
  <2> SUFFICES ASSUME NotShared(d),
                      NEW s \in FileSlots(e), NEW t \in FileSlots(e),
                      NEW i \in PtrIx, NEW j \in PtrIx,
                      e[s].ptr[i] # 0, e[s].ptr[i] = e[t].ptr[j]
               PROVE  s = t /\ i = j
    BY DEF NotShared
  <2>1. s \in FileSlots(d) /\ e[s].ptr[i] = d[s].ptr[i]
    BY <1>1, Zenon
  <2>2. t \in FileSlots(d) /\ e[t].ptr[j] = d[t].ptr[j]
    BY <1>1, Zenon
  <2>3. d[s].ptr[i] # 0 /\ d[s].ptr[i] = d[t].ptr[j]
    BY <2>1, <2>2
  <2>4. QED
    BY <2>1, <2>2, <2>3, SMTT(30) DEF NotShared
<1>3. \A s \in FileSlots(e) :
        \/ Refs(e[s]) = {}
        \/ s \in FileSlots(d) /\ Refs(e[s]) = Refs(d[s])
  BY DEF Inherits, Refs, ZeroPtrs
<1>4. QED
  BY <1>2, <1>3, Zenon DEF InDataArea, Covers

\* A new session knows all blocks of the image it mounts.
LEMMA MountCovers ==
  ASSUME NEW d \in [Slot -> Entry], InDataArea(d)
  PROVE  0 .. DirBlks - 1 \subseteq AlvInit(d) /\ Covers(AlvInit(d), d)
<1>1. DirBlks .. Size - 1 \subseteq Block
  BY Geometry DEF Block
<1>2. \A s \in FileSlots(d) : s \in Slot /\ d[s].status <= MaxStatus
  <2>1. \A s \in Slot : d[s].status \in Status
    BY EntryFields
  <2>2. QED
    BY <2>1, Geometry DEF FileSlots, Status
<1>3. QED
  BY <1>1, <1>2 DEF InDataArea, AlvInit, Covers

\* A slot that is free holds no file.
LEMMA FreeIsNoFile ==
  ASSUME NEW d, NEW s \in FreeSlots(d) PROVE s \notin FileSlots(d)
  BY Geometry DEF FreeSlots, FileSlots

\* Without date stamps in XFCBs no call touches the pointers of the entries it
\* finds, and the entries it makes have none.
LEMMA CallInherits ==
  ASSUME TypeOK, ~MpmDates, HasXfcbs => Users \subseteq 0 .. 15, Call
  PROVE  Inherits(dir, dir') /\ Leaves(dir, dir')
<1>1. ASSUME NEW h \in Handles, NEW u \in Users, NEW n \in Names,
             CreatPlain(h, u, n)
      PROVE  Inherits(dir, dir') /\ Leaves(dir, dir')
  <2>1. PICK s \in FreeSlots(dir) : dir' = [dir EXCEPT ![s] = NewEntry(u, n)]
    BY <1>1 DEF CreatPlain, Restamped, Firsts
  <2>2. s \notin FileSlots(dir)
    BY FreeIsNoFile
  <2>3. \A t \in Slot : IF t = s THEN dir'[t].ptr = ZeroPtrs
                                 ELSE dir'[t] = dir[t]
    BY <2>1 DEF TypeOK, NewEntry
  <2>4. QED
    BY <2>2, <2>3 DEF Inherits, Leaves, FileSlots
<1>2. ASSUME NEW h \in Handles, NEW u \in Users, NEW n \in Names,
             CreatWithXfcb(h, u, n) \/ CreatHalf(h, u, n)
      PROVE  FALSE
  BY <1>2, GeometryAssumption DEF CreatWithXfcb, CreatHalf, GeometryAssumption
<1>3. ASSUME dir' = dir PROVE Inherits(dir, dir') /\ Leaves(dir, dir')
  BY <1>3 DEF Inherits, Leaves
<1>4. ASSUME NEW u \in Users, NEW n \in Names, Unlink(u, n)
      PROVE  Inherits(dir, dir') /\ Leaves(dir, dir')
  <2>1. PICK gone : dir' = [s \in Slot |-> IF s \in gone
                                           THEN [dir[s] EXCEPT !.status = Free]
                                           ELSE dir[s]]
    BY <1>4, ZenonT(30) DEF Unlink, Erased
  <2>2. \A s \in Slot : /\ dir'[s].ptr = dir[s].ptr
                        /\ dir'[s].status \in {dir[s].status, Free}
    BY <2>1, SMTT(30) DEF TypeOK, Entry
  <2>3. QED
    BY <2>2, Geometry DEF Inherits, Leaves, FileSlots
<1>5. ASSUME NEW u \in Users, NEW n \in Names, NEW v \in Users, NEW m \in Names,
             Rename(u, n, v, m)
      PROVE  Inherits(dir, dir') /\ Leaves(dir, dir')
  <2> DEFINE S == Match(dir, u, n)
             d == Renamed(dir, S, v, m)
  <2>1. PICK xfcbs : /\ dir' = Renamed(d, xfcbs, v + 16, m)
                     /\ xfcbs # {} => HasXfcbs
    BY <1>5 DEF Rename
  <2>2. \A s \in Slot : /\ dir'[s].ptr = dir[s].ptr
                        /\ \/ s \in S
                           \/ s \in xfcbs /\ dir'[s].status = v + 16
                           \/ dir'[s].status = dir[s].status
    <3>1. dir \in [Slot -> Entry] /\ v \in Status /\ v + 16 \in Status
      BY StatusTypes DEF TypeOK
    <3> HIDE DEF S
    <3>2. Moves(dir, d, S, v)
      BY <3>1, RenamedMoves, Zenon
    <3>3. d \in [Slot -> Entry]
      BY <3>2, Zenon DEF Moves
    <3> HIDE DEF d
    <3>4. Moves(d, Renamed(d, xfcbs, v + 16, m), xfcbs, v + 16)
      BY <3>1, <3>3, RenamedMoves, Zenon
    <3>5. Moves(d, dir', xfcbs, v + 16)
      BY <2>1, <3>4, Zenon
    <3>6. QED
      BY <3>2, <3>5 DEF Moves
  <2>3. \A s \in S : s \in FileSlots(dir)
    BY Geometry, InputAssumption DEF Match, FileSlots, MaxFileUser, InputAssumption
  <2>4. \A s \in xfcbs : ~(v + 16 <= MaxFileUser)
    BY <2>1, InputAssumption, Geometry DEF MaxFileUser, InputAssumption
  <2>5. QED
    BY <2>2, <2>3, <2>4 DEF Inherits, Leaves, FileSlots
<1>6. ASSUME NEW h \in Handles, NEW a, AttrSet(h, a)
      PROVE  Inherits(dir, dir') /\ Leaves(dir, dir')
  <2>1. PICK S : dir' = [s \in Slot |-> IF s \in S
                                        THEN [dir[s] EXCEPT !.attr = a]
                                        ELSE dir[s]]
    BY <1>6 DEF AttrSet
  <2>2. \A s \in Slot : /\ dir'[s].ptr = dir[s].ptr
                        /\ dir'[s].status = dir[s].status
    BY <2>1 DEF TypeOK, Entry
  <2>3. QED
    BY <2>2 DEF Inherits, Leaves, FileSlots
<1>7. ASSUME NEW h \in Handles, Utime(h) PROVE dir' = dir
  BY <1>7 DEF Utime, Restamped
<1>8. ASSUME NEW h \in Handles, NEW w, Chmod(h, w)
      PROVE  Inherits(dir, dir') /\ Leaves(dir, dir')
  BY <1>6, <1>8 DEF Chmod
<1>9. QED
  BY <1>1, <1>2, <1>3, <1>4, <1>5, <1>6, <1>7, <1>8
     DEF Call, Namei, Open, WriteBegin, Sync, SyncFailed

\* Only cpmUnlink computes the allocation vector anew, only cpmSync writes: the
\* whole buffer, or a part of it that stays marked as unsaved.
LEMMA CallFrame ==
  ASSUME TypeOK, Call
  PROVE  /\ \/ disk' = disk /\ (dirty => dirty')
            \/ disk' = dir /\ dir' = dir
            \/ dirty'
         /\ alv' = alv \/ \E u \in Users, n \in Names : Unlink(u, n)
<1>1. ASSUME NEW h \in Handles, NEW u \in Users, NEW n \in Names,
             \/ CreatPlain(h, u, n) \/ CreatWithXfcb(h, u, n)
             \/ CreatHalf(h, u, n) \/ Namei(h, u, n)
      PROVE  disk' = disk /\ (dirty => dirty') /\ alv' = alv
  BY <1>1 DEF CreatPlain, CreatWithXfcb, CreatHalf, Namei
<1>2. ASSUME NEW u \in Users, NEW n \in Names, Unlink(u, n)
      PROVE  disk' = disk /\ (dirty => dirty')
  BY <1>2 DEF Unlink
<1>3. ASSUME NEW u \in Users, NEW n \in Names, NEW v \in Users, NEW m \in Names,
             Rename(u, n, v, m)
      PROVE  disk' = disk /\ (dirty => dirty') /\ alv' = alv
  BY <1>3 DEF Rename
<1>4. ASSUME NEW h \in Handles, NEW a, AttrSet(h, a)
      PROVE  disk' = disk /\ (dirty => dirty') /\ alv' = alv
  BY <1>4 DEF AttrSet
<1>5. ASSUME NEW h \in Handles, NEW w, Chmod(h, w)
      PROVE  disk' = disk /\ (dirty => dirty') /\ alv' = alv
  BY <1>4, <1>5 DEF Chmod
<1>6. ASSUME NEW h \in Handles, NEW c,
             Open(h) \/ Utime(h) \/ WriteBegin(h, c)
      PROVE  disk' = disk /\ (dirty => dirty') /\ alv' = alv
  <2>1. disk' = disk /\ alv' = alv
    BY <1>6 DEF Open, Utime, WriteBegin
  <2>2. dirty => dirty'
    BY <1>6 DEF Open, Utime, WriteBegin
  <2>3. QED
    BY <2>1, <2>2
<1>7. ASSUME Sync \/ SyncFailed
      PROVE  /\ \/ disk' = disk /\ (dirty => dirty')
                \/ disk' = dir /\ dir' = dir
                \/ dirty'
             /\ alv' = alv
  BY <1>7, WholeWritten DEF Sync, SyncFailed, TypeOK
<1>8. QED
  BY <1>1, <1>2, <1>3, <1>4, <1>5, <1>6, <1>7 DEF Call

LEMMA WriteDirty ==
  ASSUME TypeOK, WriteStep
  PROVE  dirty => dirty'
  BY DEF WriteStep, ExtentFound, ExtentAdded, ExtentDenied, BlockFound,
         BlockUnreadable, BlockAllocated, BlockDenied, Filled

\* Of the steps of cpmWrite only BlockAllocated changes pointers.
LEMMA WriteInherits ==
  ASSUME TypeOK, ~MpmDates, WriteStep, ~BlockAllocated
  PROVE  Inherits(dir, dir') /\ Leaves(dir, dir')
<1>1. CASE dir' = dir
  BY <1>1 DEF Inherits, Leaves
<1>2. CASE ExtentAdded
  <2>1. PICK s \in FreeSlots(dir) :
          dir' = [dir EXCEPT ![s] = Extended(Own, Pos \div Logical)]
    BY <1>2 DEF ExtentAdded, Restamped, Firsts
  <2>2. s \notin FileSlots(dir)
    BY FreeIsNoFile
  <2>3. \A t \in Slot : IF t = s THEN dir'[t].ptr = ZeroPtrs
                                 ELSE dir'[t] = dir[t]
    BY <2>1 DEF TypeOK, Extended
  <2>4. QED
    BY <2>2, <2>3 DEF Inherits, Leaves, FileSlots
<1>3. CASE Filled
  <2>1. PICK extno, pos :
          dir' = [dir EXCEPT ![wr.extent] = Recorded(dir[wr.extent], extno, pos)]
    BY <1>3 DEF Filled, Restamped
  <2>2. \A s \in Slot : /\ dir'[s].ptr = dir[s].ptr
                        /\ dir'[s].status = dir[s].status
    BY <2>1 DEF TypeOK, Recorded
  <2>3. QED
    BY <2>2 DEF Inherits, Leaves, FileSlots
<1>4. QED
  BY <1>1, <1>2, <1>3 DEF WriteStep, ExtentFound, ExtentDenied, BlockFound,
                          BlockUnreadable, BlockDenied

\* What BlockAllocated does to the directory, and the pointer it sets.
LEMMA Allocated ==
  ASSUME TypeOK, ~MpmDates, BlockAllocated
  PROVE  \E s \in Slot, i \in PtrIx, b \in Block :
           /\ b \notin alv
           /\ alv' = alv \cup {b}
           /\ dir[s].ptr[i] = 0
           /\ FileSlots(dir') = FileSlots(dir)
           /\ \A t \in Slot, j \in PtrIx :
                dir'[t].ptr[j] = IF t = s /\ j = i THEN b ELSE dir[t].ptr[j]
<1> DEFINE s == wr.extent
           i == PtrAt(Pos)
<1>1. s \in Slot
  BY DEF BlockAllocated, TypeOK, WriteCall
<1>2. i \in PtrIx
  <2>1. Pos \in Nat
    BY DEF Pos, TypeOK, Inode, WriteCall
  <2>2. QED
    BY <2>1, PtrAtType
<1>3. dir[s].ptr[i] = 0
  BY DEF BlockAllocated, Cell
<1>4. PICK b \in Block : /\ b \notin alv
                         /\ alv' = alv \cup {b}
                         /\ dir' = [dir EXCEPT ![s].ptr[i] = b]
  BY DEF BlockAllocated, Restamped, Firsts
<1> HIDE DEF s, i
<1>5. dir[s] \in Entry
  BY <1>1 DEF TypeOK
<1> DEFINE new == [dir[s] EXCEPT !.ptr[i] = b]
<1>6. /\ new.status = dir[s].status
      /\ \A j \in PtrIx : new.ptr[j] = IF j = i THEN b ELSE dir[s].ptr[j]
  BY <1>2, <1>5 DEF Entry
<1>7. dir' = [dir EXCEPT ![s] = new]
  BY <1>4
<1> HIDE DEF new
<1>8. \A t \in Slot : dir'[t] = IF t = s THEN new ELSE dir[t]
  BY <1>7 DEF TypeOK
<1>9. FileSlots(dir') = FileSlots(dir)
  BY <1>6, <1>8 DEF FileSlots
<1>10. \A t \in Slot, j \in PtrIx :
         dir'[t].ptr[j] = IF t = s /\ j = i THEN b ELSE dir[t].ptr[j]
  BY <1>6, <1>8
<1>11. QED
  BY <1>1, <1>2, <1>3, <1>4, <1>9, <1>10, Zenon

\* cpmWrite takes a block that no file has: alv covers all that files have.
LEMMA AllocationSound ==
  ASSUME TypeOK, ~MpmDates, BlockAllocated, BlocksAreOwned, AlvCovers
  PROVE  BlocksAreOwned' /\ AlvCovers'
<1>1. PICK s \in Slot, i \in PtrIx, b \in Block :
         /\ b \notin alv
         /\ alv' = alv \cup {b}
         /\ dir[s].ptr[i] = 0
         /\ FileSlots(dir') = FileSlots(dir)
         /\ \A t \in Slot, j \in PtrIx :
              dir'[t].ptr[j] = IF t = s /\ j = i THEN b ELSE dir[t].ptr[j]
  BY Allocated
<1>2. FileSlots(dir) \subseteq Slot
  BY DEF FileSlots
<1>3. \A t \in FileSlots(dir), j \in PtrIx :
        dir[t].ptr[j] # 0 => /\ dir[t].ptr[j] \in alv
                             /\ dir[t].ptr[j] \in DirBlks .. Size - 1
  BY DEF AlvCovers, BlocksAreOwned, InDataArea, Refs
<1>4. b \in DirBlks .. Size - 1
  BY <1>1, Geometry DEF AlvCovers, Block
<1>5. \A t \in FileSlots(dir'), j \in PtrIx :
        dir'[t].ptr[j] # 0 => /\ dir'[t].ptr[j] \in alv'
                              /\ dir'[t].ptr[j] \in DirBlks .. Size - 1
  BY <1>1, <1>2, <1>3, <1>4
<1>6. NotShared(dir')
  <2> SUFFICES ASSUME NEW t \in FileSlots(dir), NEW u \in FileSlots(dir),
                      NEW j \in PtrIx, NEW k \in PtrIx,
                      dir'[t].ptr[j] # 0, dir'[t].ptr[j] = dir'[u].ptr[k]
               PROVE  t = u /\ j = k
    BY <1>1 DEF NotShared
  <2>1. t \in Slot /\ u \in Slot
    BY <1>2
  <2>2. CASE (t = s /\ j = i) /\ (u = s /\ k = i)
    BY <2>2
  <2>3. CASE ~(t = s /\ j = i) /\ ~(u = s /\ k = i)
    <3>1. dir'[t].ptr[j] = dir[t].ptr[j] /\ dir'[u].ptr[k] = dir[u].ptr[k]
      BY <1>1, <2>1, <2>3
    <3>2. dir[t].ptr[j] # 0 /\ dir[t].ptr[j] = dir[u].ptr[k]
      BY <3>1
    <3>3. QED
      BY <3>2, NotSharedUse DEF BlocksAreOwned
  <2>4. CASE (t = s /\ j = i) /\ ~(u = s /\ k = i)
    <3>1. dir'[t].ptr[j] = b /\ dir'[u].ptr[k] = dir[u].ptr[k]
      BY <1>1, <2>1, <2>4
    <3>2. QED
      BY <1>1, <1>3, <3>1, ZenonT(30)
  <2>5. CASE ~(t = s /\ j = i) /\ (u = s /\ k = i)
    <3>1. dir'[u].ptr[k] = b /\ dir'[t].ptr[j] = dir[t].ptr[j]
      BY <1>1, <2>1, <2>5
    <3>2. QED
      BY <1>1, <1>3, <3>1
  <2>6. QED
    BY <2>2, <2>3, <2>4, <2>5
<1>7. \A t \in FileSlots(dir') : /\ Refs(dir'[t]) \subseteq alv'
                                 /\ Refs(dir'[t]) \subseteq DirBlks .. Size - 1
  BY <1>5 DEF Refs
<1>8. 0 .. DirBlks - 1 \subseteq alv'
  BY <1>1 DEF AlvCovers
<1>9. QED
  BY <1>6, <1>7, <1>8 DEF BlocksAreOwned, InDataArea, AlvCovers

-----------------------------------------------------------------------------

\* The invariant.  BlocksAreOwned alone is not inductive: AlvCovers is what
\* cpmWrite relies on, and what is on the image is what the next session starts
\* from if cpmUmount finds nothing to write.
Owned ==
  /\ TypeOK /\ BlocksAreOwned /\ AlvCovers
  /\ dirty \/ (NotShared(disk) /\ InDataArea(disk))

LEMMA OwnedInit == Init => Owned
<1> SUFFICES ASSUME Init PROVE Owned
  OBVIOUS
<1>1. TypeOK
  BY InitType
<1>2. NotShared(disk) /\ InDataArea(disk)
  BY ImageAssumption DEF Init, Sound
<1>3. disk \in [Slot -> Entry]
  BY <1>1 DEF TypeOK
<1>4. QED
  BY <1>1, <1>2, <1>3, MountCovers
     DEF Init, Owned, BlocksAreOwned, AlvCovers, Covers

LEMMA OwnedStep ==
  ASSUME ~MpmDates, HasXfcbs => Users \subseteq 0 .. 15, Owned, [Next]_vars
  PROVE  Owned'
<1> DEFINE Clean == dirty' \/ (NotShared(disk') /\ InDataArea(disk'))
<1>1. TypeOK /\ TypeOK'
  BY TypeStep DEF Owned
<1>2. ASSUME Inherits(dir, dir') PROVE BlocksAreOwned'
  BY <1>2, InheritsSound DEF Owned, BlocksAreOwned
<1>3. ASSUME Inherits(dir, dir'), alv' = alv PROVE AlvCovers'
  <2>1. Covers(alv, dir')
    BY <1>3, InheritsSound DEF Owned, AlvCovers, Covers
  <2>2. QED
    BY <1>3, <2>1 DEF Owned, AlvCovers, Covers
<1>4. ASSUME BlocksAreOwned', AlvCovers', Clean PROVE Owned'
  BY <1>1, <1>4 DEF Owned
<1>5. ASSUME disk' = disk, dirty => dirty' PROVE Clean
  BY <1>5 DEF Owned
<1>6. CASE Call
  <2>1. Inherits(dir, dir')
    BY <1>1, <1>6, CallInherits
  <2>2. Clean
    <3>1. \/ disk' = disk /\ (dirty => dirty')
          \/ disk' = dir
          \/ dirty'
      BY <1>1, <1>6, CallFrame
    <3>2. QED
      BY <1>5, <3>1 DEF Owned, BlocksAreOwned
  <2> HIDE DEF Clean
  <2>3. CASE \E u \in Users, n \in Names : Unlink(u, n)
    <3>1. dir' \in [Slot -> Entry] /\ InDataArea(dir')
      BY <1>1, <1>2, <2>1 DEF TypeOK, BlocksAreOwned
    <3>2. alv' = AlvInit(dir')
      BY <2>3 DEF Unlink
    <3>3. AlvCovers'
      BY <3>1, <3>2, MountCovers DEF AlvCovers, Covers
    <3>4. QED
      BY <1>2, <1>4, <2>1, <2>2, <3>3
  <2>4. CASE ~ \E u \in Users, n \in Names : Unlink(u, n)
    <3>1. alv' = alv
      BY <1>1, <1>6, <2>4, CallFrame
    <3>2. QED
      BY <1>2, <1>3, <1>4, <2>1, <2>2, <3>1
  <2>5. QED
    BY <2>3, <2>4
<1>7. CASE WriteStep
  <2>1. Clean
    BY <1>5, <1>7 DEF WriteStep, ExtentFound, ExtentAdded, ExtentDenied,
                      BlockFound, BlockUnreadable, BlockAllocated, BlockDenied,
                      Filled
  <2> HIDE DEF Clean
  <2>2. CASE BlockAllocated
    BY <1>1, <1>4, <2>1, <2>2, AllocationSound DEF Owned
  <2>3. CASE ~BlockAllocated
    <3>1. Inherits(dir, dir')
      BY <1>1, <1>7, <2>3, WriteInherits
    <3>2. alv' = alv
      BY <1>7, <2>3 DEF WriteStep, ExtentFound, ExtentAdded, ExtentDenied,
                        BlockFound, BlockUnreadable, BlockDenied, Filled
    <3>3. QED
      BY <1>2, <1>3, <1>4, <2>1, <3>1, <3>2
  <2>4. QED
    BY <2>2, <2>3
<1>8. CASE Remount \/ Crash
  <2>1. NotShared(disk') /\ InDataArea(disk')
    <3>1. CASE Remount
      BY <1>1, <3>1, WholeWritten DEF Remount, Owned, BlocksAreOwned, TypeOK
    <3>2. CASE Crash
      BY <3>2 DEF Crash, Sound
    <3>3. QED
      BY <1>8, <3>1, <3>2
  <2>2. dir' = disk' /\ alv' = AlvInit(disk')
    BY <1>8 DEF Remount, Crash, Mount
  <2>3. AlvCovers'
    BY <1>1, <2>1, <2>2, MountCovers DEF TypeOK, AlvCovers, Covers
  <2>4. QED
    BY <1>4, <2>1, <2>2, <2>3 DEF BlocksAreOwned
<1>9. CASE UNCHANGED vars
  BY <1>1, <1>9 DEF vars, Owned, BlocksAreOwned, AlvCovers
<1>10. QED
  BY <1>6, <1>7, <1>8, <1>9 DEF Next

\* The hypotheses leave out the formats whose password entries hold dates, and
\* the users above 15 where those are password entries.
LEMMA OwnedAlways ==
  ASSUME ~MpmDates, HasXfcbs => Users \subseteq 0 .. 15
  PROVE  Spec => []Owned
<1>1. Owned /\ [Next]_vars => Owned'
  BY OwnedStep
<1>2. QED
  BY <1>1, OwnedInit, PTL DEF Spec

\* No two files ever share a block, and none has one of the directory, whatever
\* calls are made, however a cpmWrite or a cpmSync ends, as long as sessions
\* start on sound images.
THEOREM BlocksOwned ==
  ASSUME ~MpmDates, HasXfcbs => Users \subseteq 0 .. 15
  PROVE  Spec => []BlocksAreOwned
<1>1. Owned => BlocksAreOwned
  BY DEF Owned
<1>2. QED
  BY <1>1, OwnedAlways, PTL

\* allocBlock can not hand out a block that is in use: each is marked in the
\* allocation vector, from the mount on.
THEOREM AllocationCovers ==
  ASSUME ~MpmDates, HasXfcbs => Users \subseteq 0 .. 15
  PROVE  Spec => []AlvCovers
<1>1. Owned => AlvCovers
  BY DEF Owned
<1>2. QED
  BY <1>1, OwnedAlways, PTL

\* cpmWrite never replaces a block pointer, and no call takes one from a file
\* it does not erase.
THEOREM PointersKept ==
  ASSUME ~MpmDates, HasXfcbs => Users \subseteq 0 .. 15
  PROVE  Spec => PointersStay
<1> DEFINE Keep == \A s \in FileSlots(dir), i \in PtrIx :
                     dir[s].ptr[i] # 0 /\ dir'[s].ptr[i] # dir[s].ptr[i]
                     => dir' = disk'
<1>1. TypeOK /\ [Next]_vars => [Keep]_vars
  <2> SUFFICES ASSUME TypeOK, Next PROVE Keep
    OBVIOUS
  <2>1. CASE Call
    BY <2>1, CallInherits DEF Leaves
  <2>2. CASE WriteStep /\ ~BlockAllocated
    BY <2>2, WriteInherits DEF Leaves
  <2>3. CASE BlockAllocated
    <3>1. FileSlots(dir) \subseteq Slot
      BY DEF FileSlots
    <3>2. QED
      BY <2>3, <3>1, Allocated
  <2>4. CASE Remount \/ Crash
    BY <2>4 DEF Remount, Crash, Mount
  <2>5. QED
    BY <2>1, <2>2, <2>3, <2>4 DEF Next
<1>2. QED
  BY <1>1, TypeCorrect, PTL DEF Spec, PointersStay

=============================================================================
