------------------------------ MODULE HostText ------------------------------
(***************************************************************************)
(* What cpmcp does to the bytes of a file, to CP/M and back again: the     *)
(* loop of its main and cpmToUnix in src/src/cpmcp.c.  The file system in  *)
(* between is that of CpmVolume and keeps the bytes.                       *)
(***************************************************************************)
EXTENDS Integers, Sequences

CONSTANTS
  CR, LF, SUB,   \* \r, \n and \032
  Letter,        \* any other byte
  HostTexts,     \* the files that are copied
  RoundIn,       \* bytes of a round to CP/M, 2048 in the code
  RoundOut       \* bytes of a cpmRead, 4096 in the code

VARIABLES
  txt            \* the locals of both directions

NoText == [phase |-> "none"]

\* rest: what getc has not seen; round: the buffer of the round; cpm: the file
TextStart ==
  \E source \in HostTexts : \E text \in BOOLEAN :
    txt' = [phase |-> "in", text |-> text, source |-> source, rest |-> source,
            round |-> <<>>, cpm |-> <<>>, out |-> <<>>, cr |-> FALSE]

AtEof == txt.rest = <<>>

InByte(c) == IF txt.text /\ c = LF THEN <<CR, LF>> ELSE <<c>>

Getc ==
  /\ txt.phase = "in"
  /\ ~AtEof /\ Len(txt.round) < RoundIn
  /\ txt' = [txt EXCEPT !.round = @ \o InByte(Head(txt.rest)),
                        !.rest = Tail(@)]

\* getc returns EOF only to a round that is not full, which ends the loop.
WriteRound ==
  /\ txt.phase = "in"
  /\ AtEof \/ Len(txt.round) >= RoundIn
  /\ LET last == AtEof /\ Len(txt.round) < RoundIn
     IN txt' = [txt EXCEPT
          !.cpm = @ \o txt.round \o (IF last /\ txt.text THEN <<SUB>> ELSE <<>>),
          !.round = <<>>,
          !.phase = IF last THEN "read" ELSE "in"]

-----------------------------------------------------------------------------
(* cpmToUnix                                                               *)

\* fault: a carriage return at the end of a buffer is forgotten
ReadAnew ==
  /\ txt.phase = "read"
  /\ LET n == IF Len(txt.cpm) < RoundOut THEN Len(txt.cpm) ELSE RoundOut
     IN txt' = [txt EXCEPT !.round = SubSeq(txt.cpm, 1, n),
                           !.cpm = SubSeq(@, n + 1, Len(@)), !.cr = FALSE,
                           !.phase = IF n = 0 THEN "end" ELSE "out"]

Read ==
  /\ txt.phase = "read"
  /\ LET n == IF Len(txt.cpm) < RoundOut THEN Len(txt.cpm) ELSE RoundOut
     IN txt' = [txt EXCEPT !.round = SubSeq(txt.cpm, 1, n),
                           !.cpm = SubSeq(@, n + 1, Len(@)),
                           !.phase = IF n = 0 THEN "end" ELSE "out"]

\* What a byte makes of a text.  Behind a pending carriage return it is itself
\* written only if it is a line feed.
OutBytes(c) ==
  IF ~txt.text THEN <<c>>
  ELSE IF txt.cr THEN IF c = LF THEN <<LF>> ELSE <<CR>>
  ELSE IF c = CR THEN <<>> ELSE <<c>>

Putc ==
  /\ txt.phase = "out"
  /\ IF txt.round = <<>>
     THEN txt' = [txt EXCEPT !.phase = "read"]
     ELSE LET c == Head(txt.round)
          IN IF txt.text /\ c = SUB
             THEN txt' = [txt EXCEPT !.phase = "end"]
             ELSE txt' = [txt EXCEPT !.out = @ \o OutBytes(c),
                                     !.cr = txt.text /\ c = CR,
                                     !.round = Tail(@)]

\* putc or cpmRead fails.
OutFailed ==
  /\ txt.phase \in {"read", "out"}
  /\ txt' = [txt EXCEPT !.phase = "failed"]

TextStep == Getc \/ WriteRound \/ Read \/ Putc \/ OutFailed

\* A text keeps its bytes unless it has an end-of-file mark in it, or a
\* carriage return that neither a second one nor a line feed follows.
Convertible(source) ==
  \A i \in DOMAIN source :
    /\ source[i] # SUB
    /\ source[i] = CR => i < Len(source) /\ source[i + 1] \in {CR, LF}

\* What is copied to CP/M and back comes back: any file in binary mode, and a
\* convertible one in text mode, wherever its lines fall in the buffers.
TextReturns ==
  txt.phase = "end" /\ (txt.text => Convertible(txt.source)) =>
    txt.out = txt.source

=============================================================================
