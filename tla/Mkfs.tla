-------------------------------- MODULE Mkfs --------------------------------
(***************************************************************************)
(* src/src/mkfs.cpm.c: system tracks and directory are written from the    *)
(* beginning of the image file on, without regard to sectors, and are read *)
(* through the sectors of the geometry afterwards.                         *)
(*                                                                         *)
(* Abstracted: the image is a function from records of 128 bytes to what   *)
(* mkfs or somebody before it has written there.  Boot files, which fill   *)
(* the system tracks, and the label's text are left out.                   *)
(***************************************************************************)
EXTENDS Geometry

VARIABLES
  mk           \* the locals of mkfs, and the image

NoMkfs == [phase |-> "none"]
Record == 128

\* What a record of the image holds: "free" is four free entries, "dates"
\* three of them and an entry for dates, "label" and "label dates" have a disc
\* label in place of the first, "stamper" an entry for the DateStamper file.
Contents == {"nothing", "old", "boot", "free", "dates", "label", "label dates",
             "stamper"}

\* the whole of drive->type is compared; 3 has the bits of p2dos as well
HasDates == geo.os \cap {"3", "p2dos"} # {} /\ geo.os \cap {"mpm", "isx"} = {}
HasLabel == HasDates /\ "3" \in geo.os

\* an existing file is not cut
MkStart ==
  \E timeStamps \in BOOLEAN, before \in {"nothing", "old"} :
    mk' = [phase |-> "boot", timeStamps |-> timeStamps, at |-> 0,
           image |-> [r \in 0 .. ((ImageBytes(geo) + geo.offset) \div Record) - 1
                        |-> before]]

Write(bytes, what) ==
  mk' = [mk EXCEPT
    !.at = @ + bytes,
    !.image = [r \in DOMAIN @ |->
                 IF r \in mk.at \div Record .. ((mk.at + bytes) \div Record) - 1
                 THEN what ELSE @[r]]]

WriteBoot ==
  /\ mk.phase = "boot"
  /\ IF mk.at < BootBytes(geo) THEN Write(geo.seclen, "boot")
     ELSE mk' = [mk EXCEPT !.phase = "directory"]

\* fault: the directory alone is written
DirBytesExact == geo.maxdir * 32

\* Whole tracks are written, so that it does not matter where on them the
\* sectors of the directory are.
DirBytes ==
  LET bytes == geo.maxdir * 32
  IN IF bytes % TrackBytes(geo) = 0 THEN bytes
     ELSE ((bytes + TrackBytes(geo)) \div TrackBytes(geo)) * TrackBytes(geo)

PlainRecord == IF mk.timeStamps /\ HasDates THEN "dates" ELSE "free"
FirstRecord ==
  IF ~HasLabel THEN PlainRecord
  ELSE IF mk.timeStamps THEN "label dates" ELSE "label"

WriteDirectory ==
  /\ mk.phase = "directory"
  /\ IF mk.at < BootBytes(geo) + DirBytes
     THEN Write(Record, IF mk.at = BootBytes(geo) THEN FirstRecord ELSE PlainRecord)
     ELSE mk' = [mk EXCEPT
                   !.phase = IF mk.timeStamps /\ ~HasDates THEN "stamper" ELSE "end"]

\* the records of directory entry 4 * n and the three behind it
RecordOf(n) ==
  LET byte == n * Record
      place == ReadPlace(geo, byte \div geo.blocksize,
                         (byte % geo.blocksize) \div geo.seclen)
  IN (FileOffset(geo, place) + (byte % geo.seclen)) \div Record

DirRecords == 0 .. ((geo.maxdir * 32 + Record - 1) \div Record) - 1

Holds(n) == IF RecordOf(n) \in DOMAIN mk.image THEN mk.image[RecordOf(n)]
            ELSE "nothing"

\* The image is mounted, the DateStamper file created, and the directory
\* written back.  The table itself is not: cpmSync writes it only if mount has
\* found one.
CreatStamper ==
  /\ mk.phase = "stamper"
  /\ \/ /\ \E n \in DirRecords : Holds(n) = "free"
        /\ LET n == CHOOSE n \in DirRecords :
                      /\ Holds(n) = "free"
                      /\ \A m \in DirRecords : Holds(m) = "free" => n <= m
           IN mk' = [mk EXCEPT !.phase = "end", !.image[RecordOf(n)] = "stamper"]
     \/ /\ \A n \in DirRecords : Holds(n) # "free"
        /\ mk' = [mk EXCEPT !.phase = "failed"]

\* a write to the image fails
MkFailed ==
  /\ mk.phase \in {"boot", "directory"}
  /\ mk' = [mk EXCEPT !.phase = "failed"]

MkStep == WriteBoot \/ WriteDirectory \/ CreatStamper \/ MkFailed

\* Whatever the image held before and however its sectors are arranged, the
\* directory that is mounted afterwards has none of it: all entries are free,
\* for dates, one label where the system has labels, or the DateStamper file.
\* mkfs.cpm pays no attention to the offset of a format.
MadeIsEmpty ==
  mk.phase = "end" /\ geo.offset = 0 =>
    LET labels == {n \in DirRecords : Holds(n) \in {"label", "label dates"}}
        stampers == {n \in DirRecords : Holds(n) = "stamper"}
    IN /\ \A n \in DirRecords : Holds(n) \notin {"nothing", "old", "boot"}
       /\ Cardinality(labels) = IF HasLabel THEN 1 ELSE 0
       /\ Cardinality(stampers) = IF mk.timeStamps /\ ~HasDates THEN 1 ELSE 0
       /\ HasDates /\ mk.timeStamps =>
            \A n \in DirRecords : Holds(n) \in {"dates", "label dates"}

=============================================================================
