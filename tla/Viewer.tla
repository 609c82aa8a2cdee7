------------------------------- MODULE Viewer -------------------------------
(***************************************************************************)
(* src/src/fsed.cpm.c: the position that the keys move through the image,  *)
(* and the sector that lies in the buffer while they do.                   *)
(***************************************************************************)
EXTENDS Geometry

CONSTANTS
  NoSector,     \* the buffer before anything was read
  Unreadable    \* whether a sector may be unreadable

VARIABLES
  view          \* pos, reload and the place of the sector in buf, which stays
                \* what it was when a sector can not be read

NoView == [phase |-> "none"]

InSystem(g, pos)    == pos < BootBytes(g)
InDirectory(g, pos) == ~InSystem(g, pos) /\ pos < BootBytes(g) + g.maxdir * 32

SectorIx(g, pos) == (pos \div g.seclen) % g.sectrk

\* the sector that a position is in; the system tracks have no skew
PlaceOf(g, pos) ==
  <<pos \div TrackBytes(g),
    IF InSystem(g, pos) THEN SectorIx(g, pos) ELSE g.skewtab[SectorIx(g, pos)]>>

ViewStart ==
  view' = [phase |-> "draw", pos |-> 0, reload |-> TRUE, buf |-> NoSector]

\* The sector is read, if that is necessary, and the screen drawn.
Draw ==
  /\ view.phase = "draw"
  /\ \/ /\ view.reload
        /\ view' = [view EXCEPT !.phase = "key", !.reload = FALSE,
                                !.buf = PlaceOf(geo, view.pos)]
     \/ /\ ~view.reload \/ Unreadable
        /\ view' = [view EXCEPT !.phase = "key"]

\* What is on the screen while a key is waited for: data() dumps the buffer
\* unless its sector has yet to be read, ...
Dumped == {place \in {view.buf} : ~view.reload}

\* ... but the entry above it is decoded from the buffer in any case.
Decoded == {place \in {view.buf} : InDirectory(geo, view.pos)}

\* fault: a step inside a track never leaves the sector
MoveInTrack(to) ==
  view' = [view EXCEPT !.phase = "draw", !.pos = to,
             !.reload = @ \/ to \div TrackBytes(geo)
                               # view.pos \div TrackBytes(geo)]

Move(to) ==
  view' = [view EXCEPT !.phase = "draw", !.pos = to,
             !.reload = @ \/ to \div geo.seclen # view.pos \div geo.seclen]

\* F, n, f and B, p, b: entries have 32 bytes, F and B go 16 in front of them
Strides ==
  (IF InSystem(geo, view.pos) THEN {16} ELSE {})
  \cup (IF InDirectory(geo, view.pos) THEN {32} ELSE {})
  \cup {128, 1}

Forward ==
  /\ view.phase = "key"
  /\ \E stride \in Strides :
       /\ view.pos + stride < ImageBytes(geo)
       /\ Move(view.pos + stride)

Backward ==
  /\ view.phase = "key"
  /\ \E stride \in Strides :
       /\ view.pos >= stride
       /\ Move(view.pos - stride)

\* N and P always read again.
ToTrack(to) ==
  view' = [view EXCEPT !.phase = "draw", !.pos = to, !.reload = TRUE]

NextTrack ==
  /\ view.phase = "key"
  /\ view.pos + TrackBytes(geo) < ImageBytes(geo)
  /\ ToTrack(view.pos + TrackBytes(geo))

PreviousTrack ==
  /\ view.phase = "key"
  /\ view.pos >= TrackBytes(geo)
  /\ ToTrack(view.pos - TrackBytes(geo))

\* i, m, a key without a meaning, or one that would leave the image: the map
\* has a buffer of its own.
OtherKey ==
  /\ view.phase = "key"
  /\ view' = [view EXCEPT !.phase = "draw"]

QuitView ==
  /\ view.phase = "key"
  /\ view' = [phase |-> "end"]

ViewStep == Draw \/ Forward \/ Backward \/ NextTrack \/ PreviousTrack \/ OtherKey
            \/ QuitView

\* The bytes that are dumped are those of the position above them, inside the
\* image, whatever keys led there and whatever could not be read on the way.
\* The same is true of the entry that is decoded if the last sector that was
\* asked for could be read.
SectorShown ==
  view.phase = "key" =>
    /\ view.pos \in 0 .. ImageBytes(geo) - 1
    /\ Dumped \subseteq {PlaceOf(geo, view.pos)}
    /\ ~view.reload => Decoded \subseteq {PlaceOf(geo, view.pos)}

\* fsed.cpm.1: "Directory entries are decoded."  The entry that is decoded is
\* that of the position above it.
EntryShown ==
  view.phase = "key" => Decoded \subseteq {PlaceOf(geo, view.pos)}

=============================================================================
