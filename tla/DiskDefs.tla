------------------------------ MODULE DiskDefs ------------------------------
(***************************************************************************)
(* Where struct cpmSuperBlock gets its parameters from: diskdefReadSuper   *)
(* of src/src/cpmfs.c reads the file diskdefs line by line until it is     *)
(* through with the definition of the format.  amsReadSuper takes them     *)
(* from the boot sector of the image, for the format "amstrad".            *)
(*                                                                         *)
(* Abstracted: a line is a record of its keyword and its value, without    *)
(* comments and blank lines; a number is read as a number.  The libdsk     *)
(* geometry is left out.                                                   *)
(***************************************************************************)
EXTENDS Integers, Sequences, FiniteSets

CONSTANTS
  DefTexts,    \* texts of diskdefs, sequences of lines
  Formats,     \* arguments of -f
  BootSpecs    \* parameters in boot sectors of Amstrad disks

VARIABLES
  def          \* the locals of diskdefReadSuper

Word(key)            == [key |-> key]
Line(key, val)       == [key |-> key, val |-> val]
Offset(val, unit)    == [key |-> "offset", val |-> val, unit |-> unit]

Numbers == {"seclen", "tracks", "sectrk", "blocksize", "maxdir", "dirblks",
            "skew", "skewtab", "boottrk", "logicalextents"}
Units   == {"", "K", "M", "T", "S"}
Systems == {"2.2", "3", "mpm", "isx", "p2dos", "zsys"}
Needed  == {"seclen", "tracks", "sectrk", "blocksize", "maxdir", "boottrk"}

\* What a diskdef line puts in place of all settings.
Defaults ==
  [seclen |-> -1, tracks |-> -1, sectrk |-> -1, blocksize |-> -1,
   maxdir |-> -1, boottrk |-> -1, dirblks |-> 0, skew |-> 1, skewtab |-> <<>>,
   logicalextents |-> 0, offset |-> 0, os |-> {"2.2"}]

NoSize == -2      \* what an uninitialised size holds

\* The branches at the beginning of cpmReadSuper; autoReadSuper always fails.
Reader(text, format) ==
  [phase |-> IF format = "amstrad" THEN "boot"
             ELSE IF format = "auto" THEN "refused" ELSE "lines",
   text |-> IF format \in {"amstrad", "auto"} THEN <<>> ELSE text,
   format |-> format, ln |-> 1,
   inside |-> FALSE, found |-> FALSE, d |-> Defaults, size |-> NoSize]

NoSpec   == [cylinders |-> 0]     \* no Amstrad superblock in the boot sector
NoReader == [phase |-> "none"]

-----------------------------------------------------------------------------
(* Derived parameters                                                      *)

\* C rounds towards zero, and a block size that was not given is -1.
Blocks(d) ==
  LET bytes == d.seclen * d.sectrk * (d.tracks - d.boottrk)
  IN IF d.blocksize = -1 THEN -bytes ELSE bytes \div d.blocksize

\* fault: small blocks make for no logical extent at all
ExtentsDerived(d, size) ==
  IF d.logicalextents # 0 THEN d.logicalextents
  ELSE ((IF size > 256 THEN 8 ELSE 16) * d.blocksize) \div 16384

ExtentsOf(d, size) ==
  LET derived == ((IF size > 256 THEN 8 ELSE 16) * d.blocksize) \div 16384
  IN IF d.logicalextents # 0 THEN d.logicalextents
     ELSE IF derived = 0 \/ d.blocksize = -1 THEN 1 ELSE derived

\* Units count in the sectors and tracks that are known at that line.
UnitBytes(d, unit) ==
  CASE unit = "K" -> 1024
    [] unit = "M" -> 1024 * 1024
    [] unit = "T" -> d.sectrk * d.seclen
    [] unit = "S" -> d.seclen
    [] OTHER      -> 1

TooEarly(d, unit) ==
  unit \in {"T", "S"} /\ (d.sectrk < 0 \/ d.tracks < 0 \/ d.seclen < 0)

-----------------------------------------------------------------------------
(* One line                                                                *)

Cur      == def.text[def.ln]
MoreText == def.phase = "lines" /\ def.ln <= Len(def.text)
Outside  == MoreText /\ ~def.inside
Inside   == MoreText /\ def.inside

\* A value of the wrong kind, an offset that comes too early, a keyword
\* without a value: exit(1), in whatever definition the line stands.  Offsets
\* of 2G and more, which are refused as well, are out of range here.
Wrong(line) ==
  \/ line.key = "blocksize" /\ line.val <= 0
  \/ line.key = "os" /\ line.val \notin Systems
  \/ /\ line.key = "offset"
     /\ line.unit \notin Units \/ TooEarly(def.d, line.unit)
  \/ DOMAIN line = {"key"} /\ line.key # "end"

Set(line) ==
  CASE line.key \in Numbers  -> [def.d EXCEPT ![line.key] = line.val]
    [] line.key = "os"       -> [def.d EXCEPT !.os = @ \cup {line.val}]
    [] line.key = "offset"   -> [def.d EXCEPT !.offset =
                                   line.val * UnitBytes(def.d, line.unit)]
    [] OTHER                 -> def.d      \* unknown, or a diskdef line

\* fault: what an earlier definition leaves is not reset
OpenKept ==
  /\ Outside
  /\ Cur.key = "diskdef"
  /\ def' = [def EXCEPT !.inside = TRUE, !.ln = @ + 1,
                        !.found = @ \/ Cur.val = def.format]

OpenDef ==
  /\ Outside
  /\ Cur.key = "diskdef"
  /\ def' = [def EXCEPT !.inside = TRUE, !.ln = @ + 1, !.d = Defaults,
                        !.found = @ \/ Cur.val = def.format]

SkipLine ==
  /\ Outside
  /\ Cur.key # "diskdef"
  /\ def' = [def EXCEPT !.ln = @ + 1]

SetLine ==
  /\ Inside
  /\ Cur.key # "end" /\ ~Wrong(Cur)
  /\ def' = [def EXCEPT !.ln = @ + 1, !.d = Set(Cur)]

RefuseLine ==
  /\ Inside
  /\ Wrong(Cur)
  /\ def' = [def EXCEPT !.phase = "refused"]

\* The derived parameters of every definition are computed.
EndDef ==
  /\ Inside
  /\ Cur.key = "end"
  /\ LET size == Blocks(def.d)
     IN def' = [def EXCEPT
                  !.inside = FALSE, !.ln = @ + 1, !.size = size,
                  !.d.logicalextents = ExtentsOf(def.d, size),
                  !.phase = IF def.found THEN "checks" ELSE "lines"]

EndOfText ==
  /\ def.phase = "lines" /\ def.ln > Len(def.text)
  /\ def' = [def EXCEPT !.phase = IF def.found THEN "checks" ELSE "refused"]

CheckDef ==
  /\ def.phase = "checks"
  /\ def' = [def EXCEPT !.phase = IF \E key \in Needed : def.d[key] < 0
                                  THEN "refused" ELSE "read"]

\* extents are not corrected here when they come out as 0.
OfBootSpec(spec) ==
  LET blocksize == 128 * 2 ^ spec.blockShift
      d == [Defaults EXCEPT
              !.seclen = 128 * 2 ^ spec.sectorShift, !.sectrk = spec.sectors,
              !.tracks = IF spec.sides > 1 THEN 2 * spec.cylinders
                         ELSE spec.cylinders,
              !.blocksize = blocksize, !.boottrk = spec.reserved,
              !.maxdir = (blocksize \div 32) * spec.dirBlocks, !.os = {"3"}]
      size == Blocks(d)
  IN [d EXCEPT !.logicalextents =
        ((IF size > 256 THEN 8 ELSE 16) * blocksize) \div 16384]

AmsReadSuper ==
  /\ def.phase = "boot"
  /\ \E spec \in BootSpecs :
       def' = IF spec = NoSpec THEN [def EXCEPT !.phase = "refused"]
              ELSE [def EXCEPT !.phase = "read", !.d = OfBootSpec(spec),
                               !.size = Blocks(OfBootSpec(spec))]

DefStep ==
  \/ OpenDef \/ SkipLine \/ SetLine \/ RefuseLine \/ EndDef \/ EndOfText \/ CheckDef
  \/ AmsReadSuper

-----------------------------------------------------------------------------
(* Correctness                                                             *)

Opens(text, i, format) ==
  /\ text[i].key = "diskdef" /\ text[i].val = format
  /\ \A j \in 1 .. i - 1 :
       text[j].key = "diskdef" => \E k \in j .. i : text[k].key = "end"

\* The value a definition gives to a keyword, wherever in it that stands.
Given(body, key, default) ==
  LET at == {i \in DOMAIN body : body[i].key = key}
  IN IF at = {} THEN default
     ELSE body[CHOOSE i \in at : \A j \in at : j <= i].val

\* A format has the parameters that the lines of its definition give, and no
\* others: nothing is taken over from the definitions before it, the order of
\* its lines does not matter, and a unit is that of the sectors it ends up
\* with.  (diskdefReadSuper, 775-999)
DefinitionAlone ==
  def.phase = "read" /\ def.format # "amstrad" =>
    \E i \in DOMAIN def.text : \E n \in i .. Len(def.text) :
      LET text == def.text
          body == SubSeq(text, i + 1, n - 1)
          lines == {body[k] : k \in DOMAIN body}
      IN /\ Opens(text, i, def.format)
         /\ \A j \in 1 .. i - 1 : ~Opens(text, j, def.format)
         /\ text[n].key = "end" /\ Word("end") \notin lines
         /\ \A key \in Numbers \ {"logicalextents"} :
              def.d[key] = Given(body, key, Defaults[key])
         /\ def.d.os = {"2.2"} \cup {line.val : line \in
                                       {l \in lines : l.key = "os"}}
         /\ def.d.offset = IF {l \in lines : l.key = "offset"} = {} THEN 0
                           ELSE LET l == CHOOSE l \in lines : l.key = "offset"
                                IN l.val * UnitBytes(def.d, l.unit)
         /\ def.size = Blocks(def.d)
         /\ def.d.logicalextents > 0

=============================================================================
