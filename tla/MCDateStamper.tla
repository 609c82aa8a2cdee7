--------------------------- MODULE MCDateStamper ---------------------------
(* Volumes with a DateStamper file.                                        *)
EXTENDS DateStamper, MCCpmTools

Sizes       == <<5, 2>>
CONSTANT C
Names3      == {A, B, C}
AThenC      == {<<<<0, A>>, 1>>, <<<<0, A>>, 2>>, <<<<0, C>>, 2>>}

\* the DateStamper file of an image that came from a CP/M system
Stamper == [Nobody EXCEPT !.status = 0, !.name = DsName, !.blkcnt = DsRecs,
                          !.ptr = [i \in PtrIx |-> IF i < DsBlks THEN DsOffset + i
                                                    ELSE 0]]
StampedImage == {[Empty EXCEPT ![0] = Stamper]}

\* mkfs.cpm -t: the file, but none of its blocks
Hollow == {[Empty EXCEPT ![0] = [Stamper EXCEPT !.blkcnt = 0, !.ptr = ZeroPtrs]]}
=============================================================================
