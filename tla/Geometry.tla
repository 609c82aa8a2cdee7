------------------------------ MODULE Geometry ------------------------------
(***************************************************************************)
(* Where blocks lie: the rest of cpmReadSuper, readBlock, writeBlock and   *)
(* the sectors of src/src/device_posix.c.  geo is the mounted volume, a    *)
(* record of the parameters that DiskDefs has read.                        *)
(***************************************************************************)
EXTENDS DiskDefs

VARIABLES
  geo          \* the geometry of the superblock

NoGeo == [seclen |-> 0]
Mounted == geo # NoGeo

TrackBytes(g)   == g.sectrk * g.seclen
ImageBytes(g)   == TrackBytes(g) * g.tracks
BootBytes(g)    == TrackBytes(g) * g.boottrk
BlockSectors(g) == g.blocksize \div g.seclen

\* blocks that hold maxdir entries, which is what dirblks is by default
DirExtent(d) == (d.maxdir * 32 + d.blocksize - 1) \div d.blocksize

\* fault: a sector is given out twice where skew and sectrk have a divisor
SkewPlain(n, skew) == [i \in 0 .. n - 1 |-> (i * skew) % n]

\* Each sector is the first unused one from skew sectors behind the last.
SkewTab(n, skew) ==
  LET Next(taken) ==
        LET from == IF taken = <<>> THEN 0 ELSE taken[Len(taken)] + skew
            free == {k \in 0 .. n - 1 :
                       \A i \in DOMAIN taken : taken[i] # (from + k) % n}
        IN (from + CHOOSE k \in free : \A j \in free : k <= j) % n
      table[i \in 0 .. n] ==
        IF i = 0 THEN <<>> ELSE Append(table[i - 1], Next(table[i - 1]))
  IN [i \in 0 .. n - 1 |-> table[n][i + 1]]

\* A definition may also list the sectors.
Skewed(d) ==
  IF d.skewtab = <<>> THEN SkewTab(d.sectrk, d.skew)
  ELSE [i \in 0 .. d.sectrk - 1 |-> d.skewtab[i + 1]]

\* The asserts of cpmReadSuper hold, or the program is aborted.
Plausible(d) ==
  /\ d.boottrk >= 0 /\ d.dirblks >= 0
  /\ \A key \in Needed \ {"boottrk"} : d[key] > 0

GeometryOf(d, size) ==
  [seclen |-> d.seclen, sectrk |-> d.sectrk, tracks |-> d.tracks,
   boottrk |-> d.boottrk, blocksize |-> d.blocksize, offset |-> d.offset,
   maxdir |-> d.maxdir, size |-> size, extents |-> d.logicalextents,
   os |-> d.os, skewtab |-> Skewed(d),
   dirblks |-> IF d.dirblks = 0 THEN DirExtent(d) ELSE d.dirblks]

SetGeometry ==
  /\ def.phase = "read"
  /\ IF Plausible(def.d)
     THEN geo' = GeometryOf(def.d, def.size) /\ def' = NoReader
     ELSE def' = [def EXCEPT !.phase = "refused"] /\ UNCHANGED geo

-----------------------------------------------------------------------------
(* Sectors of a block: a track and a place on it, the c-th of block b      *)

Passed(g, first, c) == (first + c) \div g.sectrk
Along(g, first, c)  == (first + c) % g.sectrk

ReadPlace(g, b, c) ==
  LET first == b * BlockSectors(g) + g.sectrk * g.boottrk
  IN <<first \div g.sectrk + Passed(g, first % g.sectrk, c),
       g.skewtab[Along(g, first % g.sectrk, c)]>>

WritePlace(g, b, c) ==
  LET first == b * BlockSectors(g)
  IN <<first \div g.sectrk + g.boottrk + Passed(g, first % g.sectrk, c),
       g.skewtab[Along(g, first % g.sectrk, c)]>>

\* where Device_readSector and Device_writeSector put it in the image file
FileOffset(g, place) == (place[2] + place[1] * g.sectrk) * g.seclen + g.offset

\* Any block is read where it was written, behind the system tracks and inside
\* the image, and no byte of it belongs to another block.
BlocksApart ==
  Mounted =>
    LET counts == 0 .. BlockSectors(geo) - 1
        of(b) == {FileOffset(geo, WritePlace(geo, b, c)) : c \in counts}
        all == UNION {of(b) : b \in 0 .. geo.size - 1}
    IN /\ \A b \in 0 .. geo.size - 1, c \in counts :
            ReadPlace(geo, b, c) = WritePlace(geo, b, c)
       /\ Cardinality(all) = geo.size * BlockSectors(geo)
       /\ \A at \in all :
            /\ at >= BootBytes(geo) + geo.offset
            /\ at + geo.seclen <= ImageBytes(geo) + geo.offset

=============================================================================
