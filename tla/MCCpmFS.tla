------------------------------ MODULE MCCpmFS ------------------------------
(* Small volumes for TLC.  Names, images and time stamps are given here,    *)
(* the geometry in the configurations.                                      *)
EXTENDS CpmFS, TLC

CONSTANTS A, B     \* file names

TwoNames == {A, B}
OneName  == {A}
OneUser  == {0}
TwoUsers == {0, 1}
RO       == {"RO"}
NoAttrs  == {}
Nobody   == [status |-> Free, name |-> NoName, attr |-> {}, extno |-> 0,
             blkcnt |-> 0, lrc |-> 0, ptr |-> ZeroPtrs]

\* mkfs.cpm: no file
Empty == [s \in Slot |-> Nobody]

\* a file of two entries in the wrong order, as other systems leave them
Old == [Nobody EXCEPT !.status = 0, !.name = A]
Shuffled ==
  [Empty EXCEPT
     ![0] = [Old EXCEPT !.extno = Extents, !.blkcnt = 1, !.ptr[0] = Size - 1],
     ![1] = [Old EXCEPT !.extno = Extents - 1, !.blkcnt = Logical \div RecLen,
                        !.ptr[0] = DirBlks, !.ptr[1] = DirBlks + 1]]

PlainImages == {Empty, Shuffled}
EmptyImage  == {Empty}

\* the entries 3, 7, ... hold dates; a password entry without a file; a file
\* with its password entry, and another file
Dated  == [s \in Slot |-> IF s % 4 = 3 THEN [Nobody EXCEPT !.status = Sfcb]
                          ELSE Nobody]
Stray  == [Dated EXCEPT ![1] = [Old EXCEPT !.status = 16]]
Locked == [Dated EXCEPT ![0] = Old, ![1] = [Old EXCEPT !.status = 16],
                        ![2] = [Old EXCEPT !.name = B, !.ptr[0] = DirBlks]]
DatedImages == {Stray, Locked}

\* the low bytes of a date can be the number of any block
DateStamps == {[i \in PtrIx |-> IF i = NPtr - 1 THEN b ELSE 0] :
                 b \in {0, Size - 1}}
NoStamps   == {}
NoNames    == {}

\* Handles are only compared; the run that uses this checks no liveness.
HandleSymmetry == Permutations(Handles)

\* Bound: a behaviour ends when a session has changed the image.
OneSession == disk \in Images
=============================================================================
