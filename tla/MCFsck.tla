------------------------------- MODULE MCFsck -------------------------------
(* Damaged images: each entry is sound, free, or has one of the faults that *)
(* fsck looks for, and blocks and extents may be met twice.                 *)
EXTENDS Fsck, MCCpmFS

Marks     == {"create", "access", "unprintable"}
BadName   == {B}

Good      == [Old EXCEPT !.blkcnt = 1, !.ptr[0] = DirBlks]
Faulty ==
  { Nobody, Good,
    [Good EXCEPT !.extno = 1, !.blkcnt = 2, !.ptr[1] = DirBlks],
    [Good EXCEPT !.lrc = RecLen + 1],
    [Good EXCEPT !.lrc = RecLen + 1, !.ptr[0] = Size],
    [Good EXCEPT !.blkcnt = Logical, !.name = B],
    [Nobody EXCEPT !.status = Label, !.attr = Marks],
    [Old EXCEPT !.status = 16, !.attr = {"unprintable"}] }
FaultyImages ==
  { [Empty EXCEPT ![0] = a, ![1] = b, ![2] = c, ![3] = d] :
      a \in Faulty, b \in Faulty, c \in {Nobody, Good},
      d \in {Nobody, [Nobody EXCEPT !.status = Sfcb]} }
=============================================================================
