---------------------------- MODULE ReadersProofs ----------------------------
(* Proofs about the programs that do not change a directory: a format has   *)
(* the parameters of its definition, blocks lie apart, fsed.cpm shows the   *)
(* sector that its position is in, cpmcp returns a text, time stamps are    *)
(* read as they were written, a pattern selects what it does in sh(1), what *)
(* mkfs.cpm makes is an empty directory, all keep their types, and cpmls    *)
(* lists what it was asked for.                                             *)
EXTENDS Readers, Division, SequenceTheorems, FiniteSetTheorems

-----------------------------------------------------------------------------
(* The definition of a format                                               *)

DefLines == UNION {{text[i] : i \in DOMAIN text} : text \in DefTexts}

HasValue(line) == DOMAIN line # {"key"}

\* No definition ends between lines i and n.
Open(text, i, n) == \A k \in i + 1 .. n - 1 : text[k].key # "end"

\* A definition has its end, a block size is a number, and the logical extents
\* are a number that is not negative.  One pair of lines has an order: the
\* offset is given once, and no size of sectors or tracks is given before and
\* again behind an offset that counts in them.
DefinitionsAreWhole ==
  /\ DefTexts \subseteq Seq(DefLines)
  /\ \A text \in DefTexts : \A i \in 1 .. Len(text) :
       /\ text[i].key = "diskdef" =>
            \E k \in i + 1 .. Len(text) : text[k].key = "end"
       /\ text[i].key = "blocksize" /\ HasValue(text[i]) => text[i].val \in Int
       /\ text[i].key = "logicalextents" /\ HasValue(text[i]) => text[i].val \in Nat
       /\ text[i].key = "offset" =>
            \A n \in i + 1 .. Len(text) :
              text[n].key = "offset" => ~Open(text, i, n)
       /\ text[i].key = "offset" /\ HasValue(text[i]) /\ text[i].unit \in {"S", "T"} =>
            \A k \in 1 .. i - 1, n \in i + 1 .. Len(text) :
              text[k].key \in {"seclen", "sectrk"} /\ text[n].key = text[k].key
                => ~Open(text, k, n)

\* What lines i + 1 .. n - 1 give to a keyword: the value of the last of them
LastGiven(text, i, n, key, value) ==
  \/ /\ \A k \in i + 1 .. n - 1 : text[k].key # key
     /\ value = Defaults[key]
  \/ \E c \in i + 1 .. n - 1 :
       /\ text[c].key = key /\ value = text[c].val
       /\ \A k \in c + 1 .. n - 1 : text[k].key # key

\* The offset, in units that are known
OffsetGiven(text, i, n, d) ==
  \/ /\ \A k \in i + 1 .. n - 1 : text[k].key # "offset"
     /\ d.offset = 0
  \/ \E c \in i + 1 .. n - 1 :
       /\ text[c].key = "offset" /\ HasValue(text[c])
       /\ d.offset = text[c].val * UnitBytes(d, text[c].unit)
       /\ text[c].unit \in {"S", "T"} =>
            \A key \in {"seclen", "sectrk"} :
              \E k \in i + 1 .. c - 1 : text[k].key = key

\* The settings are those of the definition that line i opens, up to line n.
Settled(text, i, n, d) ==
  /\ \A key \in Numbers \ {"logicalextents"} : LastGiven(text, i, n, key, d[key])
  /\ d.os = {"2.2"} \cup {text[k].val : k \in {k \in i + 1 .. n - 1 : text[k].key = "os"}}
  /\ OffsetGiven(text, i, n, d)

\* The definition that line i opens is the one that line n is in.
OpenedAt(text, i, n) ==
  /\ text[i].key = "diskdef"
  /\ \A j \in 1 .. i - 1 :
       text[j].key = "diskdef" => \E k \in j .. i - 1 : text[k].key = "end"
  /\ Open(text, i, n)

\* Outside all definitions that of the format did not come yet, and inside one
\* the settings are its own.
InLines ==
  LET text == def.text
      n == def.ln
  IN /\ text \in DefTexts /\ n \in 1 .. Len(text) + 1 /\ def.inside \in BOOLEAN
     /\ ~def.inside =>
          /\ ~def.found
          /\ \A j \in 1 .. n - 1 :
               /\ ~Opens(text, j, def.format)
               /\ text[j].key = "diskdef" => \E k \in j .. n - 1 : text[k].key = "end"
     /\ def.inside =>
          \E i \in 1 .. n - 1 :
            /\ OpenedAt(text, i, n)
            /\ \A j \in 1 .. i - 1 : ~Opens(text, j, def.format)
            /\ def.found <=> text[i].val = def.format
            /\ Settled(text, i, n, def.d)
            /\ def.d.blocksize \in {-1} \cup (Nat \ {0})
            /\ def.d.logicalextents \in Nat

\* The reader is through with the first definition of the format.
Complete ==
  LET text == def.text
  IN /\ text \in DefTexts
     /\ \E i \in 1 .. Len(text) : \E n \in i + 1 .. Len(text) :
          /\ OpenedAt(text, i, n) /\ text[i].val = def.format
          /\ \A j \in 1 .. i - 1 : ~Opens(text, j, def.format)
          /\ text[n].key = "end"
          /\ Settled(text, i, n, def.d)
          /\ def.size = Blocks(def.d)
          /\ def.d.logicalextents \in Nat \ {0}

\* A boot sector had the parameters.
FromBoot ==
  \E spec \in BootSpecs \ {NoSpec} :
    def.d = OfBootSpec(spec) /\ def.size = Blocks(def.d)

DefInv ==
  \/ def = NoReader
  \/ /\ {"phase", "d", "ln", "text", "inside", "found", "size", "format"} = DOMAIN def
     /\ DOMAIN Defaults = DOMAIN def.d
     /\ def.phase = "boot" => def.format = "amstrad"
     /\ def.phase \in {"lines", "checks"} => def.format # "amstrad"
     /\ def.phase = "lines" => InLines
     /\ def.phase \in {"checks", "read"} =>
          IF def.format = "amstrad" THEN FromBoot ELSE Complete

LEMMA GivenMore ==
  ASSUME NEW text, NEW i \in Nat, NEW n \in Nat, i < n, NEW key, NEW value,
         LastGiven(text, i, n, key, value)
  PROVE  LastGiven(text, i, n + 1, key, IF text[n].key = key THEN text[n].val ELSE value)
<1>1. i + 1 .. (n + 1) - 1 = (i + 1 .. n - 1) \cup {n}
  OBVIOUS
<1>2. CASE text[n].key = key
  <2>1. n \in i + 1 .. (n + 1) - 1 /\ n + 1 .. (n + 1) - 1 = {}
    OBVIOUS
  <2>2. QED
    BY <1>2, <2>1 DEF LastGiven
<1>3. CASE text[n].key # key
  <2>1. CASE /\ \A k \in i + 1 .. n - 1 : text[k].key # key
             /\ value = Defaults[key]
    BY <1>1, <1>3, <2>1 DEF LastGiven
  <2>2. ASSUME NEW c \in i + 1 .. n - 1, text[c].key = key, value = text[c].val,
               \A k \in c + 1 .. n - 1 : text[k].key # key
        PROVE  LastGiven(text, i, n + 1, key, value)
    <3>1. c + 1 .. (n + 1) - 1 = (c + 1 .. n - 1) \cup {n}
      OBVIOUS
    <3>2. QED
      BY <1>1, <1>3, <2>2, <3>1 DEF LastGiven
  <2>3. LastGiven(text, i, n + 1, key, value)
    BY <1>3, <2>1, <2>2 DEF LastGiven
  <2>4. QED
    BY <1>3, <2>3
<1>4. QED
  BY <1>2, <1>3

\* What a line does to the settings
LEMMA SetIs ==
  ASSUME NEW line, DOMAIN Defaults = DOMAIN def.d
  PROVE  /\ DOMAIN Set(line) = DOMAIN Defaults
         /\ \A key \in Numbers :
              Set(line)[key] = IF line.key = key THEN line.val ELSE def.d[key]
         /\ Set(line).os = IF line.key = "os" THEN def.d.os \cup {line.val} ELSE def.d.os
         /\ Set(line).offset = IF line.key = "offset"
                               THEN line.val * UnitBytes(def.d, line.unit)
                               ELSE def.d.offset
<1>1. Numbers \cup {"os", "offset"} = DOMAIN def.d /\ "os" \notin Numbers
      /\ "offset" \notin Numbers
  BY DEF Defaults, Numbers
<1>2. CASE line.key \in Numbers
  <2>1. Set(line) = [def.d EXCEPT ![line.key] = line.val]
    BY <1>1, <1>2 DEF Set
  <2>2. QED
    BY <1>1, <1>2, <2>1
<1>3. CASE line.key = "os"
  <2>1. Set(line) = [def.d EXCEPT !.os = @ \cup {line.val}]
    BY <1>1, <1>3 DEF Set
  <2>2. QED
    BY <1>1, <1>3, <2>1
<1>4. CASE line.key = "offset"
  <2>1. Set(line) = [def.d EXCEPT !.offset = line.val * UnitBytes(def.d, line.unit)]
    BY <1>1, <1>4 DEF Set
  <2>2. QED
    BY <1>1, <1>4, <2>1
<1>5. CASE line.key \notin Numbers \cup {"os", "offset"}
  <2>1. Set(line) = def.d
    BY <1>5 DEF Set
  <2>2. QED
    BY <1>1, <1>5, <2>1
<1>6. QED
  BY <1>2, <1>3, <1>4, <1>5

\* A size that is not below 0 was given.
LEMMA SizeGiven ==
  ASSUME NEW text, NEW i, NEW n, NEW key \in {"seclen", "sectrk"}, NEW value,
         LastGiven(text, i, n, key, value), ~(value < 0)
  PROVE  \E k \in i + 1 .. n - 1 : text[k].key = key
<1>1. Defaults[key] = -1
  BY DEF Defaults
<1>2. -1 < 0
  OBVIOUS
<1>3. value # Defaults[key]
  BY <1>1, <1>2
<1>4. QED
  BY <1>3 DEF LastGiven

\* The offset behind one line more
LEMMA OffsetMore ==
  ASSUME DefinitionsAreWhole, NEW text \in DefTexts, NEW n \in 1 .. Len(text),
         NEW i \in 1 .. n - 1, Open(text, i, n), DOMAIN Defaults = DOMAIN def.d,
         Settled(text, i, n, def.d), ~Wrong(text[n]), text[n].key # "end"
  PROVE  OffsetGiven(text, i, n + 1, Set(text[n]))
<1> DEFINE line == text[n]
           d == Set(line)
<1>1. i + 1 .. (n + 1) - 1 = (i + 1 .. n - 1) \cup {n} /\ n \in Nat /\ i \in Nat
  OBVIOUS
<1>2. HasValue(line)
  BY DEF Wrong, HasValue
<1>3. DefTexts \subseteq Seq(DefLines) /\ Len(text) \in Nat
  BY LenProperties DEF DefinitionsAreWhole
<1>4. ASSUME NEW c \in i + 1 .. n - 1, text[c].key = "offset", HasValue(text[c])
      PROVE  /\ line.key # "offset"
             /\ text[c].unit \in {"S", "T"} /\ line.key \in {"seclen", "sectrk"} =>
                  \A k \in i + 1 .. c - 1 : text[k].key # line.key
  <2>1. c \in 1 .. Len(text) /\ n \in c + 1 .. Len(text)
    BY <1>1, <1>3
  <2>2. \A k \in i .. n - 1 : Open(text, k, n)
    BY <1>1 DEF Open
  <2>3. line.key # "offset"
    BY <1>1, <1>4, <2>1, <2>2 DEF DefinitionsAreWhole
  <2>4. ASSUME text[c].unit \in {"S", "T"}, line.key \in {"seclen", "sectrk"},
               NEW k \in i + 1 .. c - 1, text[k].key = line.key
        PROVE  FALSE
    <3>1. k \in 1 .. c - 1 /\ Open(text, k, n)
      BY <1>1, <2>2
    <3>2. QED
      BY <1>4, <2>1, <2>4, <3>1 DEF DefinitionsAreWhole
  <2>5. QED
    BY <2>3, <2>4
<1>5. {"seclen", "sectrk", "tracks"} \subseteq Numbers \ {"logicalextents"}
  BY DEF Numbers
<1>6. CASE line.key = "offset"
  <2>1. d.offset = line.val * UnitBytes(def.d, line.unit)
    BY <1>6, SetIs
  <2>2. UnitBytes(d, line.unit) = UnitBytes(def.d, line.unit)
    <3>1. d.seclen = def.d.seclen /\ d.sectrk = def.d.sectrk
      BY <1>5, <1>6, SetIs
    <3>2. QED
      BY <3>1 DEF UnitBytes
  <2>3. ASSUME line.unit \in {"S", "T"}, NEW key \in {"seclen", "sectrk"}
        PROVE  \E k \in i + 1 .. n - 1 : text[k].key = key
    <3>1. ~(def.d[key] < 0)
      BY <1>6, <2>3 DEF Wrong, TooEarly
    <3>2. LastGiven(text, i, n, key, def.d[key])
      BY <1>5 DEF Settled
    <3>3. QED
      BY <3>1, <3>2, SizeGiven
  <2>4. QED
    BY <1>1, <1>2, <1>6, <2>1, <2>2, <2>3 DEF OffsetGiven
<1>7. CASE line.key # "offset"
  <2>1. d.offset = def.d.offset
    BY <1>7, SetIs
  <2>2. CASE /\ \A k \in i + 1 .. n - 1 : text[k].key # "offset"
             /\ def.d.offset = 0
    BY <1>1, <1>7, <2>1, <2>2 DEF OffsetGiven
  <2>3. ASSUME NEW c \in i + 1 .. n - 1,
               text[c].key = "offset" /\ HasValue(text[c]),
               def.d.offset = text[c].val * UnitBytes(def.d, text[c].unit),
               text[c].unit \in {"S", "T"} =>
                 \A key \in {"seclen", "sectrk"} :
                   \E k \in i + 1 .. c - 1 : text[k].key = key
        PROVE  OffsetGiven(text, i, n + 1, d)
    <3>1. text[c].unit \in {"S", "T"} => line.key \notin {"seclen", "sectrk"}
      BY <1>4, <2>3
    <3>2. UnitBytes(d, text[c].unit) = UnitBytes(def.d, text[c].unit)
      <4>1. CASE text[c].unit \in {"S", "T"}
        <5>1. d.seclen = def.d.seclen /\ d.sectrk = def.d.sectrk
          BY <1>5, <3>1, <4>1, SetIs
        <5>2. QED
          BY <5>1 DEF UnitBytes
      <4>2. CASE text[c].unit \notin {"S", "T"}
        BY <4>2 DEF UnitBytes
      <4>3. QED
        BY <4>1, <4>2
    <3>3. QED
      BY <1>1, <2>1, <2>3, <3>2 DEF OffsetGiven
  <2>4. QED
    BY <2>2, <2>3 DEF Settled, OffsetGiven
<1>8. QED
  BY <1>6, <1>7

LEMMA SettledMore ==
  ASSUME DefinitionsAreWhole, NEW text \in DefTexts, NEW n \in 1 .. Len(text),
         NEW i \in 1 .. n - 1, Open(text, i, n), DOMAIN Defaults = DOMAIN def.d,
         Settled(text, i, n, def.d), ~Wrong(text[n]), text[n].key # "end"
  PROVE  Settled(text, i, n + 1, Set(text[n]))
<1> DEFINE line == text[n]
           d == Set(line)
<1>1. i + 1 .. (n + 1) - 1 = (i + 1 .. n - 1) \cup {n} /\ n \in Nat /\ i \in Nat /\ i < n
  OBVIOUS
<1>2. ASSUME NEW key \in Numbers \ {"logicalextents"}
      PROVE  LastGiven(text, i, n + 1, key, d[key])
  <2>1. LastGiven(text, i, n, key, def.d[key])
    BY DEF Settled
  <2>2. d[key] = IF line.key = key THEN line.val ELSE def.d[key]
    BY SetIs
  <2>3. QED
    BY <1>1, <2>1, <2>2, GivenMore
<1>3. d.os = {"2.2"} \cup {text[k].val : k \in {k \in i + 1 .. (n + 1) - 1 : text[k].key = "os"}}
  <2>1. def.d.os = {"2.2"} \cup {text[k].val : k \in {k \in i + 1 .. n - 1 : text[k].key = "os"}}
    BY DEF Settled
  <2>2. d.os = IF line.key = "os" THEN def.d.os \cup {line.val} ELSE def.d.os
    BY SetIs
  <2>3. CASE line.key = "os"
    BY <1>1, <2>1, <2>2, <2>3
  <2>4. CASE line.key # "os"
    BY <1>1, <2>1, <2>2, <2>4
  <2>5. QED
    BY <2>3, <2>4
<1>4. OffsetGiven(text, i, n + 1, d)
  BY OffsetMore
<1>5. QED
  BY <1>2, <1>3, <1>4 DEF Settled

\* The definition of a format is read line by line.
LEMMA DefInitial ==
  ASSUME DefinitionsAreWhole, ReadersInit
  PROVE  DefInv
<1>1. PICK text \in DefTexts, format \in Formats : def = Reader(text, format)
  BY DEF ReadersInit
<1> HIDE DEF Defaults
<1>2. /\ {"phase", "d", "ln", "text", "inside", "found", "size", "format"} = DOMAIN def
      /\ def.d = Defaults /\ def.format = format /\ def.ln = 1
      /\ def.inside = FALSE /\ def.found = FALSE
      /\ def.phase = IF format = "amstrad" THEN "boot"
                     ELSE IF format = "auto" THEN "refused" ELSE "lines"
      /\ def.phase = "lines" => def.text = text
  BY <1>1 DEF Reader
<1>3. ASSUME def.phase = "lines"
      PROVE  InLines
  <2>1. def.text = text /\ Len(text) \in Nat
    BY <1>1, <1>2, <1>3, LenProperties DEF Reader, DefinitionsAreWhole
  <2>2. 1 .. def.ln - 1 = {} /\ def.ln \in 1 .. Len(text) + 1
    BY <1>2, <2>1
  <2>3. QED
    BY <1>2, <2>1, <2>2 DEF InLines
<1>4. QED
  BY <1>2, <1>3 DEF DefInv

LEMMA OpenLine ==
  ASSUME DefinitionsAreWhole, DefInv, OpenDef
  PROVE  DefInv'
<1>1. /\ def.phase = "lines" /\ ~def.inside /\ Cur.key = "diskdef"
      /\ def' = [def EXCEPT !.inside = TRUE, !.ln = @ + 1, !.d = Defaults,
                            !.found = @ \/ Cur.val = def.format]
      /\ def.ln <= Len(def.text)
  BY DEF OpenDef, Outside, MoreText
<1>2. def # NoReader
  BY <1>1 DEF NoReader
<1>3. /\ InLines /\ def.format # "amstrad"
      /\ {"phase", "d", "ln", "text", "inside", "found", "size", "format"} = DOMAIN def
  BY <1>1, <1>2 DEF DefInv
<1> DEFINE text == def.text
           n == def.ln
<1>4. /\ DOMAIN def' = DOMAIN def /\ def'.text = text /\ def'.format = def.format
      /\ def'.ln = n + 1 /\ def'.inside = TRUE /\ def'.d = Defaults
      /\ def'.found = (def.found \/ text[n].val = def.format) /\ def'.phase = "lines"
  BY <1>1, <1>3 DEF Cur
<1>5. /\ text \in DefTexts /\ n \in 1 .. Len(text) + 1 /\ ~def.found
      /\ \A j \in 1 .. n - 1 :
           /\ ~Opens(text, j, def.format)
           /\ text[j].key = "diskdef" => \E k \in j .. n - 1 : text[k].key = "end"
  BY <1>1, <1>3 DEF InLines
<1>6. Len(text) \in Nat
  BY <1>5, LenProperties DEF DefinitionsAreWhole
<1>7. n \in 1 .. (n + 1) - 1 /\ n + 1 \in 1 .. Len(text) + 1 /\ n + 1 .. (n + 1) - 1 = {}
  BY <1>1, <1>5, <1>6
<1> HIDE DEF text, n
<1>8. OpenedAt(text, n, n + 1)
  BY <1>1, <1>5, <1>7 DEF OpenedAt, Open, Cur, text, n
<1>9. Settled(text, n, n + 1, Defaults)
  <2>1. \A key \in Numbers : LastGiven(text, n, n + 1, key, Defaults[key])
    BY <1>7 DEF LastGiven
  <2>2. Defaults.os = {"2.2"} /\ Defaults.offset = 0
    BY DEF Defaults
  <2>3. OffsetGiven(text, n, n + 1, Defaults)
    BY <1>7, <2>2 DEF OffsetGiven
  <2>4. {text[k].val : k \in {k \in n + 1 .. (n + 1) - 1 : text[k].key = "os"}} = {}
    BY <1>7
  <2>5. QED
    BY <2>1, <2>2, <2>3, <2>4 DEF Settled
<1>10. Defaults.blocksize = -1 /\ Defaults.logicalextents = 0
  BY DEF Defaults
<1>11. def'.found \in BOOLEAN /\ (def'.found <=> text[n].val = def.format)
  BY <1>4, <1>5 DEF text, n
<1>12. InLines'
  <2>1. /\ def'.text \in DefTexts /\ def'.ln \in 1 .. Len(def'.text) + 1
        /\ def'.inside = TRUE
    BY <1>4, <1>5, <1>7 DEF text, n
  <2>2. /\ n \in 1 .. def'.ln - 1 /\ OpenedAt(def'.text, n, def'.ln)
        /\ \A j \in 1 .. n - 1 : ~Opens(def'.text, j, def'.format)
        /\ def'.found <=> def'.text[n].val = def'.format
        /\ Settled(def'.text, n, def'.ln, def'.d)
        /\ def'.d.blocksize \in {-1} \cup (Nat \ {0})
        /\ def'.d.logicalextents \in Nat
    BY <1>4, <1>5, <1>7, <1>8, <1>9, <1>10, <1>11 DEF text, n
  <2>3. QED
    BY <2>1, <2>2 DEF InLines, OpenedAt, Open, Opens, Settled, LastGiven, OffsetGiven,
                      UnitBytes
<1>13. QED
  BY <1>3, <1>4, <1>12 DEF DefInv

LEMMA SkippedLine ==
  ASSUME DefinitionsAreWhole, DefInv, SkipLine
  PROVE  DefInv'
<1>1. /\ def.phase = "lines" /\ ~def.inside /\ Cur.key # "diskdef"
      /\ def' = [def EXCEPT !.ln = @ + 1] /\ def.ln <= Len(def.text)
  BY DEF SkipLine, Outside, MoreText
<1>2. def # NoReader
  BY <1>1 DEF NoReader
<1>3. /\ InLines /\ def.format # "amstrad"
      /\ {"phase", "d", "ln", "text", "inside", "found", "size", "format"} = DOMAIN def
      /\ DOMAIN Defaults = DOMAIN def.d
  BY <1>1, <1>2 DEF DefInv
<1> DEFINE text == def.text
           n == def.ln
<1>4. /\ DOMAIN def' = DOMAIN def /\ def'.text = text /\ def'.format = def.format
      /\ def'.ln = n + 1 /\ def'.inside = def.inside /\ def'.d = def.d
      /\ def'.found = def.found /\ def'.phase = "lines"
  BY <1>1, <1>3
<1>5. /\ text \in DefTexts /\ n \in 1 .. Len(text) + 1 /\ ~def.found
      /\ def.inside \in BOOLEAN
      /\ \A j \in 1 .. n - 1 :
           /\ ~Opens(text, j, def.format)
           /\ text[j].key = "diskdef" => \E k \in j .. n - 1 : text[k].key = "end"
  BY <1>1, <1>3 DEF InLines
<1>6. Len(text) \in Nat
  BY <1>5, LenProperties DEF DefinitionsAreWhole
<1>7. /\ 1 .. (n + 1) - 1 = (1 .. n - 1) \cup {n} /\ n + 1 \in 1 .. Len(text) + 1
      /\ \A j \in 1 .. n - 1 : j .. n - 1 \subseteq j .. (n + 1) - 1
  BY <1>1, <1>5, <1>6
<1>8. text[n].key # "diskdef"
  BY <1>1 DEF Cur
<1> HIDE DEF text, n
<1>9. \A j \in 1 .. (n + 1) - 1 :
        /\ ~Opens(text, j, def.format)
        /\ text[j].key = "diskdef" => \E k \in j .. (n + 1) - 1 : text[k].key = "end"
  BY <1>5, <1>7, <1>8 DEF Opens
<1>10. InLines'
  <2>1. /\ def'.text \in DefTexts /\ def'.ln \in 1 .. Len(def'.text) + 1
        /\ ~def'.inside /\ def'.inside \in BOOLEAN /\ ~def'.found
        /\ \A j \in 1 .. def'.ln - 1 :
             /\ ~Opens(def'.text, j, def'.format)
             /\ def'.text[j].key = "diskdef" =>
                  \E k \in j .. def'.ln - 1 : def'.text[k].key = "end"
    BY <1>1, <1>4, <1>5, <1>7, <1>9
  <2>2. QED
    BY <2>1 DEF InLines, Opens
<1>11. QED
  BY <1>3, <1>4, <1>10 DEF DefInv

\* The lines of a definition, its end included: which of them is the one that
\* the reader is in
LEMMA InsideOf ==
  ASSUME DefinitionsAreWhole, InLines, Inside
  PROVE  /\ def.text \in DefTexts /\ def.ln \in 1 .. Len(def.text) /\ Len(def.text) \in Nat
         /\ \E i \in 1 .. def.ln - 1 :
              /\ OpenedAt(def.text, i, def.ln)
              /\ \A j \in 1 .. i - 1 : ~Opens(def.text, j, def.format)
              /\ def.found <=> def.text[i].val = def.format
              /\ Settled(def.text, i, def.ln, def.d)
              /\ def.d.blocksize \in {-1} \cup (Nat \ {0})
              /\ def.d.logicalextents \in Nat
<1>1. def.inside /\ def.ln <= Len(def.text)
  BY DEF Inside, MoreText
<1>2. def.text \in DefTexts /\ def.ln \in 1 .. Len(def.text) + 1
  BY DEF InLines
<1>3. Len(def.text) \in Nat
  BY <1>2, LenProperties DEF DefinitionsAreWhole
<1>4. QED
  BY <1>1, <1>2, <1>3 DEF InLines

LEMMA LineSet ==
  ASSUME DefinitionsAreWhole, DefInv, SetLine
  PROVE  DefInv'
<1>1. /\ def.phase = "lines" /\ Inside /\ Cur.key # "end" /\ ~Wrong(Cur) /\ def.inside
      /\ def' = [def EXCEPT !.ln = @ + 1, !.d = Set(Cur)]
  BY DEF SetLine, Inside, MoreText
<1>2. def # NoReader
  BY <1>1 DEF NoReader
<1>3. /\ InLines /\ def.format # "amstrad"
      /\ {"phase", "d", "ln", "text", "inside", "found", "size", "format"} = DOMAIN def
      /\ DOMAIN Defaults = DOMAIN def.d
  BY <1>1, <1>2 DEF DefInv
<1> DEFINE text == def.text
           n == def.ln
           d == Set(text[n])
<1>4. /\ DOMAIN def' = DOMAIN def /\ def'.text = text /\ def'.format = def.format
      /\ def'.ln = n + 1 /\ def'.inside = TRUE /\ def'.d = d
      /\ def'.found = def.found /\ def'.phase = "lines"
  <2>1. def.inside = TRUE
    BY <1>1, <1>3 DEF InLines
  <2>2. QED
    BY <1>1, <1>3, <2>1 DEF Cur
<1>5. text \in DefTexts /\ n \in 1 .. Len(text) /\ Len(text) \in Nat
  BY <1>1, <1>3, InsideOf
<1>6. PICK i \in 1 .. n - 1 :
        /\ OpenedAt(text, i, n)
        /\ \A j \in 1 .. i - 1 : ~Opens(text, j, def.format)
        /\ def.found <=> text[i].val = def.format
        /\ Settled(text, i, n, def.d)
        /\ def.d.blocksize \in {-1} \cup (Nat \ {0})
        /\ def.d.logicalextents \in Nat
  BY <1>1, <1>3, InsideOf
<1>7. ~Wrong(text[n]) /\ text[n].key # "end"
  BY <1>1 DEF Cur
<1> HIDE DEF text, n
<1>8. Open(text, i, n)
  BY <1>6 DEF OpenedAt
<1>9. Settled(text, i, n + 1, d)
  BY <1>3, <1>5, <1>6, <1>7, <1>8, SettledMore
<1>10. DOMAIN d = DOMAIN Defaults
  BY <1>3, SetIs
<1>11. /\ d.blocksize = IF text[n].key = "blocksize" THEN text[n].val ELSE def.d.blocksize
       /\ d.logicalextents = IF text[n].key = "logicalextents" THEN text[n].val
                             ELSE def.d.logicalextents
  BY <1>3, SetIs DEF Numbers
<1> HIDE DEF d
<1>12. HasValue(text[n])
  BY <1>7 DEF Wrong, HasValue
<1>13. d.blocksize \in {-1} \cup (Nat \ {0})
  <2>1. text[n].key = "blocksize" => text[n].val \in Int /\ ~(text[n].val <= 0)
    BY <1>5, <1>7, <1>12 DEF Wrong, DefinitionsAreWhole
  <2>2. QED
    BY <1>6, <1>11, <2>1
<1>14. d.logicalextents \in Nat
  <2>1. text[n].key = "logicalextents" => text[n].val \in Nat
    BY <1>5, <1>12 DEF DefinitionsAreWhole
  <2>2. QED
    BY <1>6, <1>11, <2>1
<1>15. OpenedAt(text, i, n + 1)
  <2>1. i + 1 .. (n + 1) - 1 = (i + 1 .. n - 1) \cup {n}
    BY <1>5
  <2>2. QED
    BY <1>6, <1>7, <2>1 DEF OpenedAt, Open
<1>16. i \in 1 .. (n + 1) - 1 /\ n + 1 \in 1 .. Len(text) + 1
  BY <1>5
<1>17. InLines'
  <2>1. /\ def'.text \in DefTexts /\ def'.ln \in 1 .. Len(def'.text) + 1
        /\ def'.inside = TRUE
    BY <1>4, <1>5, <1>16 DEF text, n
  <2>2. /\ i \in 1 .. def'.ln - 1 /\ OpenedAt(def'.text, i, def'.ln)
        /\ \A j \in 1 .. i - 1 : ~Opens(def'.text, j, def'.format)
        /\ def'.found <=> def'.text[i].val = def'.format
        /\ Settled(def'.text, i, def'.ln, def'.d)
        /\ def'.d.blocksize \in {-1} \cup (Nat \ {0})
        /\ def'.d.logicalextents \in Nat
    BY <1>4, <1>6, <1>9, <1>13, <1>14, <1>15, <1>16 DEF text, n
  <2>3. QED
    BY <2>1, <2>2 DEF InLines, OpenedAt, Open, Opens, Settled, LastGiven, OffsetGiven,
                      UnitBytes
<1>18. QED
  BY <1>3, <1>4, <1>10, <1>17 DEF DefInv, d, text, n

\* The sizes that follow from a definition
LEMMA SizesDerived ==
  ASSUME NEW size, def.d.blocksize \in {-1} \cup (Nat \ {0}), def.d.logicalextents \in Nat
  PROVE  ExtentsOf(def.d, size) \in Nat \ {0}
<1> DEFINE per == IF size > 256 THEN 8 ELSE 16
           derived == (per * def.d.blocksize) \div 16384
<1>1. CASE def.d.logicalextents # 0
  BY <1>1 DEF ExtentsOf
<1>2. CASE def.d.logicalextents = 0 /\ (derived = 0 \/ def.d.blocksize = -1)
  BY <1>2 DEF ExtentsOf
<1>3. CASE def.d.logicalextents = 0 /\ derived # 0 /\ def.d.blocksize # -1
  <2>1. per \in Nat
    OBVIOUS
  <2>2. per * def.d.blocksize \in Nat
    BY <1>3, <2>1, Z3
  <2>3. derived \in Nat
    <3> DEFINE bytes == per * def.d.blocksize
    <3> HIDE DEF bytes
    <3>1. \A b \in Nat : b \div 16384 \in Nat
      BY DivParts
    <3>2. QED
      BY <2>2, <3>1 DEF bytes
  <2>4. ExtentsOf(def.d, size) = derived
    BY <1>3 DEF ExtentsOf
  <2>5. QED
    BY <1>3, <2>3, <2>4
<1>4. QED
  BY <1>1, <1>2, <1>3

LEMMA SettledKeeps ==
  ASSUME NEW text, NEW i, NEW n, NEW d, NEW e, Settled(text, i, n, d),
         \A key \in DOMAIN Defaults \ {"logicalextents"} : e[key] = d[key]
  PROVE  Settled(text, i, n, e)
<1>1. /\ \A key \in Numbers \ {"logicalextents"} : e[key] = d[key]
      /\ e.os = d.os /\ e.offset = d.offset /\ e.seclen = d.seclen /\ e.sectrk = d.sectrk
  BY DEF Defaults, Numbers
<1>2. \A unit : UnitBytes(e, unit) = UnitBytes(d, unit)
  BY <1>1 DEF UnitBytes
<1>3. OffsetGiven(text, i, n, e)
  BY <1>1, <1>2 DEF Settled, OffsetGiven
<1>4. QED
  BY <1>1, <1>3 DEF Settled

LEMMA LineEnds ==
  ASSUME DefinitionsAreWhole, DefInv, EndDef
  PROVE  DefInv'
<1> DEFINE text == def.text
           n == def.ln
           size == Blocks(def.d)
           extents == ExtentsOf(def.d, size)
<1>1. /\ def.phase = "lines" /\ Inside /\ Cur.key = "end"
      /\ def' = [def EXCEPT
                   !.inside = FALSE, !.ln = @ + 1, !.size = size,
                   !.d.logicalextents = extents,
                   !.phase = IF def.found THEN "checks" ELSE "lines"]
  BY DEF EndDef, Inside, MoreText
<1>2. def # NoReader
  BY <1>1 DEF NoReader
<1>3. /\ InLines /\ def.format # "amstrad"
      /\ {"phase", "d", "ln", "text", "inside", "found", "size", "format"} = DOMAIN def
      /\ DOMAIN Defaults = DOMAIN def.d
  BY <1>1, <1>2 DEF DefInv
<1> DEFINE d == [def.d EXCEPT !.logicalextents = extents]
<1> HIDE DEF size, extents
<1>4. /\ DOMAIN def' = DOMAIN def /\ def'.text = text /\ def'.format = def.format
      /\ def'.ln = n + 1 /\ def'.inside = FALSE /\ def'.d = d /\ def'.size = size
      /\ def'.found = def.found /\ def'.phase = IF def.found THEN "checks" ELSE "lines"
  BY <1>1, <1>3
<1>5. text \in DefTexts /\ n \in 1 .. Len(text) /\ Len(text) \in Nat
  BY <1>1, <1>3, InsideOf
<1>6. PICK i \in 1 .. n - 1 :
        /\ OpenedAt(text, i, n)
        /\ \A j \in 1 .. i - 1 : ~Opens(text, j, def.format)
        /\ def.found <=> text[i].val = def.format
        /\ Settled(text, i, n, def.d)
        /\ def.d.blocksize \in {-1} \cup (Nat \ {0})
        /\ def.d.logicalextents \in Nat
  BY <1>1, <1>3, InsideOf
<1>7. text[n].key = "end"
  BY <1>1 DEF Cur
<1> HIDE DEF text, n
<1>8. /\ DOMAIN d = DOMAIN Defaults
      /\ \A key \in DOMAIN Defaults \ {"logicalextents"} : d[key] = def.d[key]
      /\ d.logicalextents = extents
  BY <1>3 DEF Defaults
<1> HIDE DEF d
<1>9. Settled(text, i, n, d)
  BY <1>6, <1>8, SettledKeeps
<1>10. Blocks(d) = size
  <2>1. {"seclen", "sectrk", "tracks", "boottrk", "blocksize"}
          \subseteq DOMAIN Defaults \ {"logicalextents"}
    BY DEF Defaults
  <2>2. /\ d.seclen = def.d.seclen /\ d.sectrk = def.d.sectrk /\ d.tracks = def.d.tracks
        /\ d.boottrk = def.d.boottrk /\ d.blocksize = def.d.blocksize
    BY <1>8, <2>1
  <2>3. QED
    BY <2>2 DEF Blocks, size
<1>11. extents \in Nat \ {0}
  BY <1>6, SizesDerived DEF extents
<1>12. CASE def.found
  <2>1. /\ i \in 1 .. Len(text) /\ n \in i + 1 .. Len(text)
    BY <1>5
  <2>2. d.logicalextents \in Nat \ {0}
    BY <1>8, <1>11
  <2>3. /\ def'.text \in DefTexts
        /\ OpenedAt(def'.text, i, n) /\ def'.text[i].val = def'.format
        /\ \A j \in 1 .. i - 1 : ~Opens(def'.text, j, def'.format)
        /\ def'.text[n].key = "end"
        /\ Settled(def'.text, i, n, def'.d)
        /\ def'.size = Blocks(def'.d)
        /\ def'.d.logicalextents \in Nat \ {0}
        /\ i \in 1 .. Len(def'.text) /\ n \in i + 1 .. Len(def'.text)
    BY <1>4, <1>5, <1>6, <1>7, <1>9, <1>10, <1>12, <2>1, <2>2
  <2>4. Complete'
    BY <2>3 DEF Complete, OpenedAt, Open, Opens, Settled, LastGiven, OffsetGiven,
                UnitBytes, Blocks
  <2>5. QED
    BY <1>3, <1>4, <1>8, <1>12, <2>4 DEF DefInv
<1>13. CASE ~def.found
  <2>1. n + 1 \in 1 .. Len(text) + 1
    BY <1>5
  <2>2. ASSUME NEW j \in 1 .. (n + 1) - 1
        PROVE  /\ ~Opens(text, j, def.format)
               /\ text[j].key = "diskdef" => \E k \in j .. (n + 1) - 1 : text[k].key = "end"
    <3>1. n \in j .. (n + 1) - 1
      BY <1>5
    <3>2. j < i \/ j = i \/ (j > i /\ j < n) \/ j = n
      BY <1>5
    <3>3. CASE j < i
      <4>1. j \in 1 .. i - 1
        BY <3>3
      <4>2. QED
        BY <1>6, <1>7, <3>1, <4>1
    <3>4. CASE j = i
      BY <1>6, <1>7, <1>13, <3>1, <3>4 DEF Opens
    <3>5. CASE j > i /\ j < n
      <4>1. i \in 1 .. j - 1 /\ i .. j \subseteq {i} \cup (i + 1 .. n - 1)
        BY <1>5, <3>5
      <4>2. ~\E k \in i .. j : text[k].key = "end"
        BY <1>6, <4>1 DEF OpenedAt, Open
      <4>3. QED
        BY <1>6, <1>7, <3>1, <4>1, <4>2 DEF Opens, OpenedAt
    <3>6. CASE j = n
      BY <1>7, <3>1, <3>6 DEF Opens
    <3>7. QED
      BY <3>2, <3>3, <3>4, <3>5, <3>6
  <2>3. InLines'
    <3>1. /\ def'.text \in DefTexts /\ def'.ln \in 1 .. Len(def'.text) + 1
          /\ def'.inside = FALSE /\ ~def'.found
          /\ \A j \in 1 .. def'.ln - 1 :
               /\ ~Opens(def'.text, j, def'.format)
               /\ def'.text[j].key = "diskdef" =>
                    \E k \in j .. def'.ln - 1 : def'.text[k].key = "end"
      BY <1>4, <1>5, <1>13, <2>1, <2>2
    <3>2. QED
      BY <3>1 DEF InLines, Opens
  <2>4. QED
    BY <1>3, <1>4, <1>8, <1>13, <2>3 DEF DefInv
<1>14. QED
  BY <1>12, <1>13

\* The end of the file comes outside of the definitions.
LEMMA TextEnds ==
  ASSUME DefinitionsAreWhole, DefInv, EndOfText
  PROVE  DefInv'
<1>1. /\ def.phase = "lines" /\ def.ln > Len(def.text)
      /\ def' = [def EXCEPT !.phase = IF def.found THEN "checks" ELSE "refused"]
  BY DEF EndOfText
<1>2. def # NoReader
  BY <1>1 DEF NoReader
<1>3. /\ InLines /\ def.format # "amstrad"
      /\ {"phase", "d", "ln", "text", "inside", "found", "size", "format"} = DOMAIN def
      /\ DOMAIN Defaults = DOMAIN def.d
  BY <1>1, <1>2 DEF DefInv
<1>4. def.text \in DefTexts /\ def.ln \in 1 .. Len(def.text) + 1 /\ def.inside \in BOOLEAN
  BY <1>3 DEF InLines
<1>5. Len(def.text) \in Nat
  BY <1>4, LenProperties DEF DefinitionsAreWhole
<1>6. def.ln = Len(def.text) + 1
  BY <1>1, <1>4, <1>5
<1>7. ~def.inside
  <2>1. SUFFICES ASSUME def.inside PROVE FALSE
    OBVIOUS
  <2>2. PICK i \in 1 .. def.ln - 1 : OpenedAt(def.text, i, def.ln)
    BY <1>3, <2>1 DEF InLines
  <2>3. i \in 1 .. Len(def.text) /\ i + 1 .. def.ln - 1 = i + 1 .. Len(def.text)
    BY <1>5, <1>6
  <2>4. QED
    BY <1>4, <2>2, <2>3 DEF OpenedAt, Open, DefinitionsAreWhole
<1>8. ~def.found
  BY <1>3, <1>7 DEF InLines
<1>9. DOMAIN def' = DOMAIN def /\ def'.phase = "refused" /\ def'.d = def.d
  BY <1>1, <1>3, <1>8
<1>10. QED
  BY <1>3, <1>9 DEF DefInv

LEMMA BootSettings ==
  ASSUME NEW spec
  PROVE  DOMAIN OfBootSpec(spec) = DOMAIN Defaults
<1> DEFINE blocksize == 128 * 2 ^ spec.blockShift
           d == [Defaults EXCEPT
                   !.seclen = 128 * 2 ^ spec.sectorShift, !.sectrk = spec.sectors,
                   !.tracks = IF spec.sides > 1 THEN 2 * spec.cylinders
                              ELSE spec.cylinders,
                   !.blocksize = blocksize, !.boottrk = spec.reserved,
                   !.maxdir = (blocksize \div 32) * spec.dirBlocks, !.os = {"3"}]
           extents == ((IF Blocks(d) > 256 THEN 8 ELSE 16) * blocksize) \div 16384
<1>1. OfBootSpec(spec) = [d EXCEPT !.logicalextents = extents]
  BY DEF OfBootSpec
<1> HIDE DEF blocksize, extents
<1>2. DOMAIN d = DOMAIN Defaults
  OBVIOUS
<1> HIDE DEF d
<1>3. QED
  BY <1>1, <1>2

\* The definition that was read depends on nothing else.
LEMMA CompleteStays ==
  ASSUME Complete, def'.text = def.text, def'.format = def.format, def'.d = def.d,
         def'.size = def.size
  PROVE  Complete'
<1>0. PICK i \in 1 .. Len(def.text) : \E n \in i + 1 .. Len(def.text) :
        /\ OpenedAt(def.text, i, n) /\ def.text[i].val = def.format
        /\ \A j \in 1 .. i - 1 : ~Opens(def.text, j, def.format)
        /\ def.text[n].key = "end"
        /\ Settled(def.text, i, n, def.d)
        /\ def.size = Blocks(def.d)
        /\ def.d.logicalextents \in Nat \ {0}
  BY DEF Complete
<1>1. PICK n \in i + 1 .. Len(def.text) :
        /\ OpenedAt(def.text, i, n) /\ def.text[i].val = def.format
        /\ \A j \in 1 .. i - 1 : ~Opens(def.text, j, def.format)
        /\ def.text[n].key = "end"
        /\ Settled(def.text, i, n, def.d)
        /\ def.size = Blocks(def.d)
        /\ def.d.logicalextents \in Nat \ {0}
  BY <1>0
<1>2. def.text \in DefTexts
  BY DEF Complete
<1>3. /\ OpenedAt(def'.text, i, n) /\ def'.text[i].val = def'.format
      /\ \A j \in 1 .. i - 1 : ~Opens(def'.text, j, def'.format)
      /\ def'.text[n].key = "end"
      /\ Settled(def'.text, i, n, def'.d)
      /\ def'.size = Blocks(def'.d)
      /\ def'.d.logicalextents \in Nat \ {0}
      /\ i \in 1 .. Len(def'.text) /\ n \in i + 1 .. Len(def'.text)
      /\ def'.text \in DefTexts
  BY <1>1, <1>2
<1>4. QED
  BY <1>3 DEF Complete, OpenedAt, Open, Opens, Settled, LastGiven, OffsetGiven,
              UnitBytes, Blocks

LEMMA InLinesStays ==
  ASSUME InLines, UNCHANGED def
  PROVE  InLines'
<1>1. def'.inside \in BOOLEAN /\ def'.inside = def.inside /\ def'.found = def.found
      /\ def'.text \in DefTexts /\ def'.ln \in 1 .. Len(def'.text) + 1
  BY DEF InLines
<1>2. CASE ~def.inside
  <2>1. /\ ~def'.found
        /\ \A j \in 1 .. def'.ln - 1 :
             /\ ~Opens(def'.text, j, def'.format)
             /\ def'.text[j].key = "diskdef" =>
                  \E k \in j .. def'.ln - 1 : def'.text[k].key = "end"
    BY <1>1, <1>2 DEF InLines
  <2>2. QED
    BY <1>1, <1>2, <2>1 DEF InLines, Opens
<1>3. CASE def.inside
  <2>1. PICK i \in 1 .. def.ln - 1 :
          /\ OpenedAt(def.text, i, def.ln)
          /\ \A j \in 1 .. i - 1 : ~Opens(def.text, j, def.format)
          /\ def.found <=> def.text[i].val = def.format
          /\ Settled(def.text, i, def.ln, def.d)
          /\ def.d.blocksize \in {-1} \cup (Nat \ {0})
          /\ def.d.logicalextents \in Nat
    BY <1>3 DEF InLines
  <2>2. /\ i \in 1 .. def'.ln - 1 /\ OpenedAt(def'.text, i, def'.ln)
        /\ \A j \in 1 .. i - 1 : ~Opens(def'.text, j, def'.format)
        /\ def'.found <=> def'.text[i].val = def'.format
        /\ Settled(def'.text, i, def'.ln, def'.d)
        /\ def'.d.blocksize \in {-1} \cup (Nat \ {0})
        /\ def'.d.logicalextents \in Nat
    BY <2>1
  <2>3. QED
    BY <1>1, <1>3, <2>2 DEF InLines, OpenedAt, Open, Opens, Settled, LastGiven, OffsetGiven,
                            UnitBytes
<1>4. QED
  BY <1>2, <1>3

\* The definition is checked, or taken from a boot sector.
LEMMA DefElse ==
  ASSUME DefInv, RefuseLine \/ CheckDef \/ AmsReadSuper
  PROVE  DefInv'
<1>0. def.phase \in {"lines", "checks", "boot"}
  BY DEF RefuseLine, CheckDef, AmsReadSuper, Inside, MoreText
<1>1. def # NoReader
  BY <1>0 DEF NoReader
<1>2. /\ {"phase", "d", "ln", "text", "inside", "found", "size", "format"} = DOMAIN def
      /\ DOMAIN Defaults = DOMAIN def.d
      /\ def.phase = "boot" => def.format = "amstrad"
      /\ def.phase \in {"lines", "checks"} => def.format # "amstrad"
      /\ def.phase = "checks" => Complete
  BY <1>1 DEF DefInv
<1>3. CASE def' = [def EXCEPT !.phase = "refused"]
  <2>1. DOMAIN def' = DOMAIN def /\ def'.d = def.d /\ def'.phase = "refused"
    BY <1>2, <1>3
  <2>2. QED
    BY <1>2, <2>1 DEF DefInv
<1>4. CASE def.phase = "checks" /\ def' = [def EXCEPT !.phase = "read"]
  <2>1. /\ DOMAIN def' = DOMAIN def /\ def'.d = def.d /\ def'.phase = "read"
        /\ def'.format = def.format /\ def'.text = def.text /\ def'.size = def.size
    BY <1>2, <1>4
  <2>2. Complete => Complete'
    BY <2>1, CompleteStays
  <2>3. QED
    BY <1>2, <1>4, <2>1, <2>2 DEF DefInv
<1>5. ASSUME NEW spec \in BootSpecs \ {NoSpec}, def.phase = "boot",
             def' = [def EXCEPT !.phase = "read", !.d = OfBootSpec(spec),
                                !.size = Blocks(OfBootSpec(spec))]
      PROVE  DefInv'
  <2>1. /\ DOMAIN def' = DOMAIN def /\ def'.d = OfBootSpec(spec) /\ def'.phase = "read"
        /\ def'.format = "amstrad" /\ def'.size = Blocks(def'.d)
    BY <1>2, <1>5
  <2>2. DOMAIN OfBootSpec(spec) = DOMAIN Defaults
    BY BootSettings
  <2>3. FromBoot'
    BY <2>1 DEF FromBoot, Blocks
  <2>4. QED
    BY <1>2, <2>1, <2>2, <2>3 DEF DefInv
<1>6. QED
  BY <1>3, <1>4, <1>5 DEF RefuseLine, CheckDef, AmsReadSuper

LEMMA DefGeometry ==
  ASSUME DefInv, SetGeometry
  PROVE  DefInv'
<1>1. CASE def' = NoReader
  BY <1>1 DEF DefInv, NoReader
<1>2. CASE def.phase = "read" /\ def' = [def EXCEPT !.phase = "refused"]
  <2>1. /\ {"phase", "d", "ln", "text", "inside", "found", "size", "format"} = DOMAIN def
        /\ DOMAIN Defaults = DOMAIN def.d
    BY <1>2 DEF DefInv, NoReader
  <2>2. DOMAIN def' = DOMAIN def /\ def'.d = def.d /\ def'.phase = "refused"
    BY <1>2, <2>1
  <2>3. QED
    BY <2>1, <2>2 DEF DefInv
<1>3. QED
  BY <1>1, <1>2 DEF SetGeometry

LEMMA DefNext ==
  ASSUME DefinitionsAreWhole, DefInv, [ReadersNext]_allvars
  PROVE  DefInv'
<1>1. CASE UNCHANGED def
  BY <1>1, CompleteStays, InLinesStays DEF DefInv, FromBoot, Blocks
<1>2. CASE DefStep
  BY <1>2, OpenLine, SkippedLine, LineSet, LineEnds, TextEnds, DefElse DEF DefStep
<1>3. CASE SetGeometry
  BY <1>3, DefGeometry
<1>4. QED
  BY <1>1, <1>2, <1>3 DEF ReadersNext, Definition, Begin, Work, allvars

\* The value that lines give to a keyword is the one that the body gives to it.
LEMMA GivenOf ==
  ASSUME NEW text \in Seq(DefLines), NEW i \in 1 .. Len(text),
         NEW n \in i + 1 .. Len(text), NEW key, NEW value,
         LastGiven(text, i, n, key, value)
  PROVE  value = Given(SubSeq(text, i + 1, n - 1), key, Defaults[key])
<1> DEFINE body == SubSeq(text, i + 1, n - 1)
           at == {k \in DOMAIN body : body[k].key = key}
<1>1. /\ DOMAIN body = 1 .. (n - 1) - i
      /\ \A k \in 1 .. (n - 1) - i : body[k] = text[i + k]
  <2>1. Len(text) \in Nat
    OBVIOUS
  <2>2. i + 1 \in 1 .. Len(text) + 1 /\ n - 1 \in 0 .. Len(text)
        /\ n - 1 = (i + 1) + ((n - 1) - i) - 1
    BY <2>1
  <2>3. /\ body \in Seq(DefLines)
        /\ Len(body) = (n - 1) - i
        /\ \A k \in 1 .. (n - 1) - i : body[k] = text[(i + 1) + k - 1]
    BY <2>1, <2>2, SubSeqProperties
  <2>4. DOMAIN body = 1 .. (n - 1) - i
    BY <2>3, LenProperties
  <2> HIDE DEF body
  <2>5. ASSUME NEW k \in 1 .. (n - 1) - i
        PROVE  body[k] = text[i + k]
    <3>1. (i + 1) + k - 1 = i + k
      OBVIOUS
    <3>2. QED
      BY <2>3, <3>1
  <2>6. QED
    BY <2>4, <2>5
<1> HIDE DEF body
<1>2. i \in Nat /\ n \in Nat /\ i < n
  OBVIOUS
<1>3. CASE /\ \A k \in i + 1 .. n - 1 : text[k].key # key
           /\ value = Defaults[key]
  <2>1. at = {}
    BY <1>1, <1>2, <1>3
  <2>2. QED
    BY <1>3, <2>1 DEF Given, body
<1>4. ASSUME NEW c \in i + 1 .. n - 1, text[c].key = key, value = text[c].val,
             \A k \in c + 1 .. n - 1 : text[k].key # key
      PROVE  value = Given(body, key, Defaults[key])
  <2>1. c - i \in 1 .. (n - 1) - i /\ body[c - i] = text[c]
    <3>1. c - i \in 1 .. (n - 1) - i /\ i + (c - i) = c
      BY <1>2
    <3>2. QED
      BY <1>1, <3>1
  <2>2. c - i \in at
    BY <1>1, <1>4, <2>1
  <2>3. ASSUME NEW k \in at
        PROVE  k <= c - i
    <3>1. k \in 1 .. (n - 1) - i /\ text[i + k].key = key
      BY <1>1
    <3>2. i + k \notin c + 1 .. n - 1
      BY <1>4, <3>1
    <3>3. QED
      BY <1>2, <3>1, <3>2
  <2>4. \A k \in at : k \in Int
    BY <1>1, <1>2
  <2> HIDE DEF at
  <2>5. (CHOOSE k \in at : \A j \in at : j <= k) = c - i
    <3>1. \A k \in at : (\A j \in at : j <= k) => k = c - i
      BY <2>2, <2>3, <2>4
    <3>2. \E k \in at : \A j \in at : j <= k
      BY <2>2, <2>3
    <3>3. QED
      BY <3>1, <3>2
  <2>6. Given(body, key, Defaults[key]) = body[CHOOSE k \in at : \A j \in at : j <= k].val
    BY <2>2 DEF Given, at
  <2>7. QED
    BY <1>4, <2>1, <2>5, <2>6
<1>5. QED
  BY <1>3, <1>4 DEF LastGiven, body

LEMMA CompleteAlone ==
  ASSUME DefinitionsAreWhole, Complete
  PROVE  \E i \in DOMAIN def.text : \E n \in i .. Len(def.text) :
           LET text == def.text
               body == SubSeq(text, i + 1, n - 1)
               lines == {body[k] : k \in DOMAIN body}
           IN /\ Opens(text, i, def.format)
              /\ \A j \in 1 .. i - 1 : ~Opens(text, j, def.format)
              /\ text[n].key = "end" /\ Word("end") \notin lines
              /\ \A key \in Numbers \ {"logicalextents"} :
                   def.d[key] = Given(body, key, Defaults[key])
              /\ def.d.os = {"2.2"} \cup {line.val : line \in
                                            {l \in lines : l.key = "os"}}
              /\ def.d.offset = IF {l \in lines : l.key = "offset"} = {} THEN 0
                                ELSE LET l == CHOOSE l \in lines : l.key = "offset"
                                     IN l.val * UnitBytes(def.d, l.unit)
              /\ def.size = Blocks(def.d)
              /\ def.d.logicalextents > 0
<1> DEFINE text == def.text
<1>0. PICK i \in 1 .. Len(text) : \E n \in i + 1 .. Len(text) :
        /\ OpenedAt(text, i, n) /\ text[i].val = def.format
        /\ \A j \in 1 .. i - 1 : ~Opens(text, j, def.format)
        /\ text[n].key = "end"
        /\ Settled(text, i, n, def.d)
        /\ def.size = Blocks(def.d)
        /\ def.d.logicalextents \in Nat \ {0}
  BY DEF Complete
<1>1. PICK n \in i + 1 .. Len(text) :
        /\ OpenedAt(text, i, n) /\ text[i].val = def.format
        /\ \A j \in 1 .. i - 1 : ~Opens(text, j, def.format)
        /\ text[n].key = "end"
        /\ Settled(text, i, n, def.d)
        /\ def.size = Blocks(def.d)
        /\ def.d.logicalextents \in Nat \ {0}
  BY <1>0
<1> DEFINE body == SubSeq(text, i + 1, n - 1)
           lines == {body[k] : k \in DOMAIN body}
<1>2. text \in Seq(DefLines) /\ Len(text) \in Nat /\ text \in DefTexts
  BY LenProperties DEF Complete, DefinitionsAreWhole
<1>3. /\ DOMAIN body = 1 .. (n - 1) - i
      /\ \A k \in 1 .. (n - 1) - i : body[k] = text[i + k]
  <2>1. i + 1 \in 1 .. Len(text) + 1 /\ n - 1 \in 0 .. Len(text)
        /\ n - 1 = (i + 1) + ((n - 1) - i) - 1
    BY <1>2
  <2>2. /\ body \in Seq(DefLines) /\ Len(body) = (n - 1) - i
        /\ \A k \in 1 .. (n - 1) - i : body[k] = text[(i + 1) + k - 1]
    BY <1>2, <2>1, SubSeqProperties
  <2>3. QED
    BY <1>2, <2>2, LenProperties
<1>4. i \in DOMAIN text /\ n \in i .. Len(text) /\ i \in Nat /\ n \in Nat /\ i < n
  BY <1>2, LenProperties
<1> HIDE DEF text, body
<1>5. lines = {text[k] : k \in i + 1 .. n - 1}
  <2>1. ASSUME NEW k \in 1 .. (n - 1) - i
        PROVE  body[k] \in {text[m] : m \in i + 1 .. n - 1}
    <3>1. i + k \in i + 1 .. n - 1
      BY <1>4
    <3>2. QED
      BY <1>3, <3>1
  <2>2. ASSUME NEW m \in i + 1 .. n - 1
        PROVE  text[m] \in lines
    <3>1. m - i \in 1 .. (n - 1) - i /\ i + (m - i) = m
      BY <1>4
    <3>2. QED
      BY <1>3, <3>1
  <2>3. QED
    BY <1>3, <2>1, <2>2
<1>6. Opens(text, i, def.format)
  <2>1. i .. i - 1 = {} /\ \A j \in 1 .. i - 1 : j .. i - 1 \subseteq j .. i
    BY <1>4
  <2>2. QED
    BY <1>1, <2>1 DEF Opens, OpenedAt
<1>7. Word("end") \notin lines
  BY <1>1, <1>5 DEF OpenedAt, Open, Word
<1>8. \A key \in Numbers \ {"logicalextents"} :
        def.d[key] = Given(body, key, Defaults[key])
  BY <1>1, <1>2, GivenOf DEF Settled, body
<1> HIDE DEF lines
<1>9. def.d.os = {"2.2"} \cup {line.val : line \in {l \in lines : l.key = "os"}}
  BY <1>1, <1>5 DEF Settled
<1>10. def.d.offset = IF {l \in lines : l.key = "offset"} = {} THEN 0
                      ELSE LET l == CHOOSE l \in lines : l.key = "offset"
                           IN l.val * UnitBytes(def.d, l.unit)
  <2>1. CASE /\ \A k \in i + 1 .. n - 1 : text[k].key # "offset"
             /\ def.d.offset = 0
    <3>1. {l \in lines : l.key = "offset"} = {}
      BY <1>5, <2>1
    <3>2. QED
      BY <2>1, <3>1
  <2>2. ASSUME NEW c \in i + 1 .. n - 1, text[c].key = "offset", HasValue(text[c]),
               def.d.offset = text[c].val * UnitBytes(def.d, text[c].unit)
        PROVE  def.d.offset = IF {l \in lines : l.key = "offset"} = {} THEN 0
                              ELSE LET l == CHOOSE l \in lines : l.key = "offset"
                                   IN l.val * UnitBytes(def.d, l.unit)
    <3>1. ASSUME NEW k \in i + 1 .. n - 1, text[k].key = "offset"
          PROVE  text[k] = text[c]
      <4>1. Open(text, i, n)
        BY <1>1 DEF OpenedAt
      <4>2. c \in 1 .. Len(text) /\ k \in 1 .. Len(text)
        BY <1>2, <1>4
      <4>3. CASE k > c
        <5>1. k \in c + 1 .. Len(text) /\ Open(text, c, k)
          <6>1. k \in c + 1 .. Len(text) /\ c + 1 .. k - 1 \subseteq i + 1 .. n - 1
            BY <1>2, <1>4, <4>3
          <6>2. QED
            BY <4>1, <6>1 DEF Open
        <5>2. QED
          BY <1>2, <2>2, <3>1, <4>2, <5>1 DEF DefinitionsAreWhole
      <4>4. CASE k < c
        <5>1. c \in k + 1 .. Len(text) /\ Open(text, k, c)
          <6>1. c \in k + 1 .. Len(text) /\ k + 1 .. c - 1 \subseteq i + 1 .. n - 1
            BY <1>2, <1>4, <4>4
          <6>2. QED
            BY <4>1, <6>1 DEF Open
        <5>2. QED
          BY <1>2, <2>2, <3>1, <4>2, <5>1 DEF DefinitionsAreWhole
      <4>5. CASE k = c
        BY <4>5
      <4>6. QED
        BY <4>3, <4>4, <4>5
    <3>2. {l \in lines : l.key = "offset"} = {text[c]}
      BY <1>5, <2>2, <3>1
    <3>3. (CHOOSE l \in lines : l.key = "offset") = text[c]
      BY <3>2
    <3>4. QED
      BY <2>2, <3>2, <3>3
  <2>3. QED
    BY <1>1, <2>1, <2>2 DEF Settled, OffsetGiven
<1>11. def.d.logicalextents > 0
  BY <1>1
<1>12. QED
  BY <1>1, <1>4, <1>6, <1>7, <1>8, <1>9, <1>10, <1>11 DEF text, body, lines

\* A format gets the parameters that its definition gives it, wherever that
\* stands in a file of definitions and whatever the others are: each diskdef
\* line puts the defaults in place of what was there, the last line of a
\* keyword counts, and the units of an offset are known when it is read.
\* (cpmfs.c, diskdefReadSuper)
THEOREM DefinitionStandsAlone ==
  ASSUME DefinitionsAreWhole
  PROVE  ReadersSpec => []DefinitionAlone
<1>1. ReadersInit => DefInv
  BY DefInitial
<1>2. DefInv /\ [ReadersNext]_allvars => DefInv'
  BY DefNext
<1>3. DefInv => DefinitionAlone
  <2>1. SUFFICES ASSUME DefInv, def.phase = "read", def.format # "amstrad"
                 PROVE  DefinitionAlone
    BY DEF DefinitionAlone
  <2>2. Complete
    BY <2>1 DEF DefInv, NoReader
  <2>3. QED
    BY <2>2, CompleteAlone DEF DefinitionAlone
<1>4. QED
  BY <1>1, <1>2, <1>3, PTL DEF ReadersSpec

-----------------------------------------------------------------------------
(* Where blocks lie                                                         *)

LEMMA LeastNumber ==
  ASSUME NEW M \in SUBSET Nat, NEW t \in M
  PROVE  \E x \in M : \A y \in M : x <= y
<1> DEFINE R == {p \in Nat \X Nat : p[1] < p[2]}
<1>1. R = OpToRel(<, Nat)
  BY DEF OpToRel
<1>2. IsWellFoundedOn(R, Nat)
  BY <1>1, NatLessThanWellFounded
<1> HIDE DEF R
<1>3. M \subseteq Nat /\ M # {}
  OBVIOUS
<1>4. \E x \in M : \A y \in M : ~(<<y, x>> \in R)
  BY <1>2, <1>3, WFMin, Zenon
<1>5. \A x \in M, y \in M : ~(<<y, x>> \in R) => x <= y
  BY <1>3 DEF R
<1>6. QED
  BY <1>4, <1>5

\* The sector that a skew table gets next
NextSector(n, skew, taken) ==
  LET from == IF taken = <<>> THEN 0 ELSE taken[Len(taken)] + skew
      free == {k \in 0 .. n - 1 :
                 \A i \in DOMAIN taken : taken[i] # (from + k) % n}
  IN (from + CHOOSE k \in free : \A j \in free : k <= j) % n

\* Sectors that were given out, beginning with the first of the track
GivenOut(n, taken, m) ==
  /\ taken \in Seq(0 .. n - 1) /\ Len(taken) = m
  /\ m > 0 => taken[1] = 0
  /\ \A i, j \in 1 .. m : taken[i] = taken[j] => i = j

\* There is a sector left, and it is found going round the track once.
LEMMA NextIsFree ==
  ASSUME NEW n \in Nat \ {0}, NEW skew \in Nat, NEW m \in 0 .. n - 1, NEW taken,
         GivenOut(n, taken, m)
  PROVE  /\ NextSector(n, skew, taken) \in 0 .. n - 1
         /\ \A i \in 1 .. m : taken[i] # NextSector(n, skew, taken)
<1> DEFINE from == IF taken = <<>> THEN 0 ELSE taken[Len(taken)] + skew
           free == {k \in 0 .. n - 1 :
                      \A i \in DOMAIN taken : taken[i] # (from + k) % n}
           least == CHOOSE k \in free : \A j \in free : k <= j
<1>1. /\ taken \in Seq(0 .. n - 1) /\ Len(taken) = m /\ DOMAIN taken = 1 .. m
      /\ taken \in [1 .. m -> 0 .. n - 1] /\ m \in Nat
  BY LenProperties DEF GivenOut
<1>2. from \in Nat
  <2>1. CASE taken = <<>>
    BY <2>1
  <2>2. CASE taken # <<>>
    <3>1. m \in 1 .. m
      BY <1>1, <2>2, EmptySeq
    <3>2. taken[m] \in Nat
      BY <1>1, <3>1
    <3>3. QED
      BY <1>1, <2>2, <3>2
  <2>3. QED
    BY <2>1, <2>2
<1>3. PICK r \in 0 .. n - 1 : \A i \in 1 .. m : taken[i] # r
  <2> DEFINE T == {taken[i] : i \in 1 .. m}
  <2>1. IsFiniteSet(1 .. m) /\ Cardinality(1 .. m) = m
    BY <1>1, FS_Interval
  <2>2. taken \in Surjection(1 .. m, T)
    BY <1>1 DEF Surjection
  <2>3. Cardinality(T) <= m
    BY <2>1, <2>2, FS_Surjection
  <2>4. Cardinality(0 .. n - 1) = n
    <3>1. 0 \in Int /\ n - 1 \in Int /\ ~(0 > n - 1) /\ (n - 1) - 0 + 1 = n
      OBVIOUS
    <3>2. QED
      BY <3>1, FS_Interval
  <2>5. T \subseteq 0 .. n - 1
    BY <1>1
  <2> HIDE DEF T
  <2>6. T # 0 .. n - 1
    <3>1. SUFFICES ASSUME T = 0 .. n - 1 PROVE FALSE
      OBVIOUS
    <3>2. Cardinality(T) = n
      BY <2>4, <3>1
    <3>3. n <= m
      BY <2>3, <3>2
    <3>4. QED
      BY <3>3
  <2>7. QED
    BY <2>5, <2>6 DEF T
<1> HIDE DEF from
<1>4. \E k \in 0 .. n - 1 : (from + k) % n = r
  <2> DEFINE q == from \div n
             p == from % n
  <2>1. from = n * q + p /\ q \in Nat /\ p \in 0 .. n - 1
    BY <1>2, DivParts
  <2> HIDE DEF q, p
  <2>2. CASE r >= p
    <3>1. from + (r - p) = n * q + r /\ r - p \in 0 .. n - 1
      BY <2>1, <2>2, Z3
    <3>2. from + (r - p) \in Nat
      BY <1>2, <3>1
    <3>3. (from + (r - p)) % n = r
      BY <2>1, <3>1, <3>2, DivUnique
    <3>4. QED
      BY <3>1, <3>3
  <2>3. CASE r < p
    <3> DEFINE k == (r + n) - p
    <3>1. from + k = n * (q + 1) + r /\ k \in 0 .. n - 1
      BY <2>1, <2>3, Z3
    <3> HIDE DEF k
    <3>2. from + k \in Nat /\ q + 1 \in Nat
      BY <1>2, <2>1, <3>1
    <3>3. (from + k) % n = r
      BY <3>1, <3>2, DivUnique
    <3>4. QED
      BY <3>1, <3>3
  <2>4. QED
    BY <2>1, <2>2, <2>3
<1>5. free # {} /\ free \subseteq Nat
  BY <1>1, <1>3, <1>4
<1>6. \E k \in free : \A j \in free : k <= j
  <2> HIDE DEF free
  <2>1. PICK t \in free : TRUE
    BY <1>5
  <2>2. QED
    BY <1>5, <2>1, LeastNumber
<1>7. least \in free
  <2> HIDE DEF free
  <2>1. QED
    BY <1>6
<1>8. NextSector(n, skew, taken) = (from + least) % n
  BY DEF NextSector, from
<1> HIDE DEF least
<1>9. (from + least) % n \in 0 .. n - 1
  <2>1. from + least \in Nat
    BY <1>2, <1>5, <1>7
  <2>2. QED
    BY <2>1, DivParts
<1>10. QED
  BY <1>1, <1>7, <1>8, <1>9

\* The sectors of a track, each once
IsTrack(table, n) ==
  /\ table \in [0 .. n - 1 -> 0 .. n - 1]
  /\ \A i, j \in 0 .. n - 1 : table[i] = table[j] => i = j

\* A set of numbers up to n has the next number behind each, and 0: it has all.
LEMMA Upwards ==
  ASSUME NEW n \in Nat, NEW M, 0 \in M, \A m \in 1 .. n : m - 1 \in M => m \in M
  PROVE  \A m \in 0 .. n : m \in M
<1> DEFINE bad == {m \in 0 .. n : m \notin M}
<1>1. SUFFICES ASSUME NEW t \in bad PROVE FALSE
  OBVIOUS
<1>2. bad \in SUBSET Nat
  OBVIOUS
<1>3. PICK x \in bad : \A y \in bad : x <= y
  <2> HIDE DEF bad
  <2>1. QED
    BY <1>1, <1>2, LeastNumber
<1>4. x \in 1 .. n /\ x - 1 \in 0 .. n
  BY <1>3
<1>5. x - 1 \notin bad
  BY <1>2, <1>3, <1>4
<1>6. QED
  BY <1>3, <1>4, <1>5

\* The table is filled up sector by sector.
LEMMA TableFilled ==
  ASSUME NEW n \in Nat \ {0}, NEW skew \in Nat
  PROVE  \E f : f = [i \in 0 .. n |->
                       IF i = 0 THEN <<>>
                       ELSE Append(f[i - 1], NextSector(n, skew, f[i - 1]))]
<1> DEFINE More(t) == Append(t, NextSector(n, skew, t))
           Fills(f, m) == f = [i \in 0 .. m |-> IF i = 0 THEN <<>> ELSE More(f[i - 1])]
           M == {m \in 0 .. n : \E f : Fills(f, m)}
<1> HIDE DEF More
<1>1. 0 \in M
  <2>1. Fills([i \in 0 .. 0 |-> <<>>], 0)
    OBVIOUS
  <2> HIDE DEF Fills
  <2>2. 0 \in 0 .. n /\ \E f : Fills(f, 0)
    BY <2>1
  <2>3. QED
    BY <2>2
<1>2. ASSUME NEW m \in 1 .. n, m - 1 \in M
      PROVE  m \in M
  <2>1. PICK f : Fills(f, m - 1)
    BY <1>2
  <2> DEFINE g == [i \in 0 .. m |-> IF i = m THEN More(f[m - 1]) ELSE f[i]]
  <2>2. f = [i \in 0 .. m - 1 |-> IF i = 0 THEN <<>> ELSE More(f[i - 1])]
    BY <2>1
  <2>3. \A i \in 0 .. m - 1 : i \in 0 .. m /\ i # m /\ g[i] = f[i]
    OBVIOUS
  <2>4. ASSUME NEW i \in 0 .. m
        PROVE  g[i] = IF i = 0 THEN <<>> ELSE More(g[i - 1])
    <3>1. CASE i = m
      <4>1. i - 1 \in 0 .. m - 1 /\ i # 0
        BY <3>1
      <4>2. QED
        BY <2>3, <3>1, <4>1
    <3>2. CASE i # m
      <4>1. i \in 0 .. m - 1 /\ (i # 0 => i - 1 \in 0 .. m - 1)
        BY <3>2
      <4>2. f[i] = IF i = 0 THEN <<>> ELSE More(f[i - 1])
        BY <2>2, <4>1
      <4>3. QED
        BY <2>3, <4>1, <4>2
    <3>3. QED
      BY <3>1, <3>2
  <2> HIDE DEF g
  <2>5. g = [i \in 0 .. m |-> g[i]]
    BY DEF g
  <2>6. Fills(g, m)
    BY <2>4, <2>5
  <2> HIDE DEF Fills
  <2>7. m \in 0 .. n /\ \E h : Fills(h, m)
    BY <2>6
  <2>8. QED
    BY <2>7
<1>3. n \in M
  <2> HIDE DEF M
  <2>1. n \in Nat /\ n \in 0 .. n
    OBVIOUS
  <2>2. QED
    BY <1>1, <1>2, <2>1, Upwards
<1>4. QED
  BY <1>3 DEF More

LEMMA FirstSector ==
  ASSUME NEW n \in Nat \ {0}, NEW skew \in Nat
  PROVE  NextSector(n, skew, <<>>) = 0
<1> DEFINE free == {k \in 0 .. n - 1 : \A i \in DOMAIN <<>> : <<>>[i] # (0 + k) % n}
           least == CHOOSE k \in free : \A j \in free : k <= j
<1>1. free = 0 .. n - 1
  <2>1. DOMAIN <<>> = {}
    OBVIOUS
  <2>2. QED
    BY <2>1
<1>2. \A k \in 0 .. n - 1 : (\A j \in 0 .. n - 1 : k <= j) => k = 0
  <2>1. 0 \in 0 .. n - 1
    OBVIOUS
  <2>2. QED
    BY <2>1
<1>3. least = 0
  <2>1. 0 \in free /\ \A j \in free : 0 <= j
    BY <1>1
  <2>2. \A k \in free : (\A j \in free : k <= j) => k = 0
    BY <1>1, <1>2
  <2> HIDE DEF free
  <2>3. QED
    BY <2>1, <2>2
<1>4. NextSector(n, skew, <<>>) = (0 + least) % n
  BY DEF NextSector
<1> HIDE DEF least
<1>5. (0 + 0) % n = 0
  BY Z3
<1>6. QED
  BY <1>3, <1>4, <1>5

\* A skew table has every sector of the track once, whatever the skew is, and
\* begins with the first.
LEMMA SkewIsTrack ==
  ASSUME NEW n \in Nat \ {0}, NEW skew \in Nat
  PROVE  IsTrack(SkewTab(n, skew), n) /\ SkewTab(n, skew)[0] = 0
<1> DEFINE Next(taken) ==
             LET from == IF taken = <<>> THEN 0 ELSE taken[Len(taken)] + skew
                 free == {k \in 0 .. n - 1 :
                            \A i \in DOMAIN taken : taken[i] # (from + k) % n}
             IN (from + CHOOSE k \in free : \A j \in free : k <= j) % n
           table[i \in 0 .. n] ==
             IF i = 0 THEN <<>> ELSE Append(table[i - 1], Next(table[i - 1]))
<1>1. SkewTab(n, skew) = [i \in 0 .. n - 1 |-> table[n][i + 1]]
  BY DEF SkewTab
<1>2. \A t : Next(t) = NextSector(n, skew, t)
  BY DEF NextSector
<1> HIDE DEF Next
<1>3. table = [i \in 0 .. n |-> IF i = 0 THEN <<>>
                                ELSE Append(table[i - 1], Next(table[i - 1]))]
  <2>1. \E f : f = [i \in 0 .. n |-> IF i = 0 THEN <<>>
                                     ELSE Append(f[i - 1], Next(f[i - 1]))]
    <3>1. PICK f : f = [i \in 0 .. n |-> IF i = 0 THEN <<>>
                                         ELSE Append(f[i - 1], NextSector(n, skew, f[i - 1]))]
      BY TableFilled
    <3>2. f = [i \in 0 .. n |-> IF i = 0 THEN <<>>
                                ELSE Append(f[i - 1], Next(f[i - 1]))]
      BY <1>2, <3>1
    <3>3. QED
      BY <3>2
  <2>2. QED
    BY <2>1
<1> HIDE DEF table
<1> DEFINE M == {m \in 0 .. n : GivenOut(n, table[m], m)}
<1>4. 0 \in M
  <2>1. table[0] = <<>> /\ 1 .. 0 = {} /\ 0 \in 0 .. n
    BY <1>3
  <2>2. <<>> \in Seq(0 .. n - 1) /\ Len(<<>>) = 0
    BY EmptySeq
  <2>3. GivenOut(n, <<>>, 0)
    BY <2>1, <2>2 DEF GivenOut
  <2>4. QED
    BY <2>1, <2>3
<1>5. ASSUME NEW m \in 1 .. n, m - 1 \in M
      PROVE  m \in M
  <2> DEFINE t == table[m - 1]
             x == NextSector(n, skew, t)
  <2>1. table[m] = Append(t, x)
    <3>1. m \in 0 .. n /\ m # 0
      OBVIOUS
    <3>2. table[m] = Append(table[m - 1], Next(table[m - 1]))
      BY <1>3, <3>1
    <3>3. QED
      BY <1>2, <3>2
  <2>2. GivenOut(n, t, m - 1) /\ m - 1 \in 0 .. n - 1
    BY <1>5
  <2> HIDE DEF t, x
  <2>3. x \in 0 .. n - 1 /\ \A i \in 1 .. m - 1 : t[i] # x
    BY <2>2, NextIsFree DEF x
  <2>4. t \in Seq(0 .. n - 1) /\ Len(t) = m - 1
    BY <2>2 DEF GivenOut
  <2>5. /\ Append(t, x) \in Seq(0 .. n - 1) /\ Len(Append(t, x)) = Len(t) + 1
        /\ \A i \in 1 .. Len(t) : Append(t, x)[i] = t[i]
        /\ Append(t, x)[Len(t) + 1] = x
    BY <2>3, <2>4, AppendProperties
  <2>6. Len(t) + 1 = m /\ 1 .. m = (1 .. m - 1) \cup {m}
    BY <2>4
  <2>7. \A i \in 1 .. m : Append(t, x)[i] = IF i = m THEN x ELSE t[i]
    BY <2>4, <2>5, <2>6
  <2>8. \A i, j \in 1 .. m - 1 : t[i] = t[j] => i = j
    BY <2>2 DEF GivenOut
  <2>9. \A i, j \in 1 .. m : Append(t, x)[i] = Append(t, x)[j] => i = j
    BY <2>3, <2>6, <2>7, <2>8
  <2>10. Append(t, x)[1] = 0
    <3>1. CASE m = 1
      <4>1. t = <<>>
        BY <2>4, <3>1, EmptySeq
      <4>2. QED
        BY <2>5, <3>1, <4>1, FirstSector DEF x
    <3>2. CASE m # 1
      <4>1. 1 \in 1 .. Len(t) /\ m - 1 > 0
        BY <2>4, <3>2
      <4>2. QED
        BY <2>2, <2>5, <4>1 DEF GivenOut
    <3>3. QED
      BY <3>1, <3>2
  <2>11. GivenOut(n, table[m], m) /\ m \in 0 .. n
    BY <2>1, <2>5, <2>6, <2>9, <2>10 DEF GivenOut
  <2>12. QED
    BY <2>11
<1>6. GivenOut(n, table[n], n)
  <2>1. n \in Nat /\ n \in 0 .. n
    OBVIOUS
  <2> HIDE DEF M
  <2>2. n \in M
    BY <1>4, <1>5, <2>1, Upwards
  <2>3. QED
    BY <2>2 DEF M
<1> DEFINE all == table[n]
<1>7. /\ all \in [1 .. n -> 0 .. n - 1]
      /\ \A i, j \in 1 .. n : all[i] = all[j] => i = j
      /\ all[1] = 0
  BY <1>6, LenProperties DEF GivenOut
<1> HIDE DEF all
<1>8. \A i \in 0 .. n - 1 : i + 1 \in 1 .. n
  OBVIOUS
<1>9. SkewTab(n, skew) = [i \in 0 .. n - 1 |-> all[i + 1]]
  BY <1>1 DEF all
<1>10. \A i, j \in 0 .. n - 1 : all[i + 1] = all[j + 1] => i = j
  <2>1. \A i, j \in 0 .. n - 1 : i + 1 = j + 1 => i = j
    OBVIOUS
  <2>2. QED
    BY <1>7, <1>8, <2>1
<1>11. QED
  BY <1>7, <1>8, <1>9, <1>10 DEF IsTrack

\* A volume whose blocks have room between the system tracks and the end of the
\* image
Laid(g) ==
  /\ g.seclen \in Nat \ {0} /\ g.sectrk \in Nat \ {0} /\ g.blocksize \in Nat \ {0}
  /\ g.tracks \in Nat /\ g.boottrk \in 0 .. g.tracks /\ g.size \in Nat
  /\ g.offset \in Int
  /\ g.size * g.blocksize <= TrackBytes(g) * (g.tracks - g.boottrk)
  /\ IsTrack(g.skewtab, g.sectrk)

\* Sector s of all blocks, counted from the first one of block 0
Nth(g, s) == g.skewtab[s % g.sectrk] + (s \div g.sectrk + g.boottrk) * g.sectrk

LEMMA PlaceIs ==
  ASSUME NEW g, Laid(g), NEW b \in Nat, NEW c \in Nat
  PROVE  /\ BlockSectors(g) \in Nat
         /\ ReadPlace(g, b, c) = WritePlace(g, b, c)
         /\ WritePlace(g, b, c) =
              LET s == b * BlockSectors(g) + c
              IN <<s \div g.sectrk + g.boottrk, g.skewtab[s % g.sectrk]>>
<1> DEFINE trk == g.sectrk
           boot == g.boottrk
           first == b * BlockSectors(g)
           q == first \div trk
           r == first % trk
           q2 == (r + c) \div trk
           r2 == (r + c) % trk
           s == first + c
<1>1. trk \in Nat \ {0} /\ boot \in Nat
  BY DEF Laid
<1>2. BlockSectors(g) \in Nat
  BY DivParts DEF BlockSectors, Laid
<1>3. first \in Nat
  BY <1>2, Z3
<1> HIDE DEF trk, boot, first
<1>4. first = trk * q + r /\ q \in Nat /\ r \in 0 .. trk - 1
  BY <1>1, <1>3, DivParts
<1>5. r + c = trk * q2 + r2 /\ q2 \in Nat /\ r2 \in 0 .. trk - 1
  <2>1. r + c \in Nat
    BY <1>1, <1>4
  <2>2. QED
    BY <1>1, <2>1, DivParts
<1> HIDE DEF q, r, q2, r2
<1>6. s \div trk = q + q2 /\ s % trk = r2
  <2>1. s = trk * (q + q2) + r2
    BY <1>1, <1>4, <1>5, Z3
  <2>2. s \in Nat /\ q + q2 \in Nat
    BY <1>3, <1>4, <1>5
  <2>3. QED
    BY <1>1, <1>5, <2>1, <2>2, DivUnique
<1>7. (first + trk * boot) \div trk = q + boot /\ (first + trk * boot) % trk = r
  <2>1. first + trk * boot = trk * (q + boot) + r /\ first + trk * boot \in Nat
    BY <1>1, <1>3, <1>4, Z3
  <2>2. q + boot \in Nat
    BY <1>1, <1>4
  <2>3. QED
    BY <1>1, <1>4, <2>1, <2>2, DivUnique
<1>8. WritePlace(g, b, c) = <<q + boot + q2, g.skewtab[r2]>>
  BY DEF WritePlace, Passed, Along, first, trk, boot, q, r, q2, r2
<1>9. ReadPlace(g, b, c) = <<(q + boot) + q2, g.skewtab[r2]>>
  BY <1>7 DEF ReadPlace, Passed, Along, first, trk, boot, q2, r2
<1>10. (q + boot) + q2 = (q + q2) + boot
  BY <1>1, <1>4, <1>5
<1>11. WritePlace(g, b, c) = <<s \div trk + boot, g.skewtab[s % trk]>>
  BY <1>6, <1>8, <1>10
<1>12. QED
  BY <1>2, <1>8, <1>9, <1>11 DEF first, trk, boot

\* Sectors differ in their places, and these are behind the system tracks.
LEMMA NthApart ==
  ASSUME NEW g, Laid(g), NEW s \in Nat
  PROVE  /\ Nth(g, s) \in Nat
         /\ Nth(g, s) \div g.sectrk = s \div g.sectrk + g.boottrk
         /\ Nth(g, s) % g.sectrk = g.skewtab[s % g.sectrk]
         /\ \A t \in Nat : Nth(g, t) = Nth(g, s) => t = s
<1> DEFINE trk == g.sectrk
           boot == g.boottrk
<1>1. trk \in Nat \ {0} /\ boot \in Nat
  BY DEF Laid
<1>2. ASSUME NEW t \in Nat
      PROVE  /\ Nth(g, t) \in Nat
             /\ Nth(g, t) \div trk = t \div trk + boot
             /\ Nth(g, t) % trk = g.skewtab[t % trk]
  <2> DEFINE q == t \div trk
             x == g.skewtab[t % trk]
  <2>1. q \in Nat /\ t % trk \in 0 .. trk - 1
    BY <1>1, DivParts
  <2>2. x \in 0 .. trk - 1
    BY <2>1 DEF Laid, IsTrack
  <2>3. Nth(g, t) = x + (q + boot) * trk
    BY DEF Nth
  <2> HIDE DEF trk, boot, q, x
  <2>4. q + boot \in Nat
    BY <1>1, <2>1
  <2>5. x + (q + boot) * trk = trk * (q + boot) + x /\ trk * (q + boot) + x \in Nat
    BY <1>1, <2>2, <2>4, Z3
  <2>6. /\ (trk * (q + boot) + x) \div trk = q + boot
        /\ (trk * (q + boot) + x) % trk = x
    BY <1>1, <2>2, <2>4, <2>5, DivUnique
  <2>7. QED
    BY <2>3, <2>5, <2>6 DEF q, x
<1>3. ASSUME NEW t \in Nat, Nth(g, t) = Nth(g, s)
      PROVE  t = s
  <2> DEFINE r(u) == u % trk
  <2>1. \A u \in Nat : u = trk * (u \div trk) + r(u) /\ u \div trk \in Nat /\ r(u) \in 0 .. trk - 1
    BY <1>1, DivParts
  <2>2. t \div trk + boot = s \div trk + boot
    BY <1>2, <1>3
  <2>3. t \div trk = s \div trk
    <3>1. \A a, b, c \in Nat : a + c = b + c => a = b
      OBVIOUS
    <3>2. t \div trk \in Nat /\ s \div trk \in Nat
      BY <2>1
    <3>3. QED
      BY <1>1, <2>2, <3>1, <3>2
  <2>4. g.skewtab[r(t)] = g.skewtab[r(s)]
    BY <1>2, <1>3
  <2>5. r(t) = r(s)
    BY <2>1, <2>4 DEF Laid, IsTrack
  <2> HIDE DEF r
  <2>6. t = trk * (t \div trk) + r(t) /\ s = trk * (s \div trk) + r(s)
    BY <2>1
  <2>7. QED
    BY <2>3, <2>5, <2>6
<1>4. QED
  BY <1>2, <1>3

\* The bytes of block s of n all fit into the tracks behind the system tracks.
LEMMA NthInside ==
  ASSUME NEW g, Laid(g), NEW s \in 0 .. g.size * BlockSectors(g) - 1
  PROVE  /\ Nth(g, s) >= g.boottrk * g.sectrk
         /\ Nth(g, s) + 1 <= g.tracks * g.sectrk
<1> DEFINE trk == g.sectrk
           len == g.seclen
           boot == g.boottrk
           tracks == g.tracks
           n == BlockSectors(g)
           q == s \div trk
           x == g.skewtab[s % trk]
<1>1. /\ trk \in Nat \ {0} /\ len \in Nat \ {0} /\ boot \in Nat /\ tracks \in Nat
      /\ boot <= tracks /\ g.size \in Nat /\ g.blocksize \in Nat \ {0}
      /\ g.size * g.blocksize <= (trk * len) * (tracks - boot)
  BY DEF Laid, TrackBytes
<1>2. n \in Nat /\ n * len <= g.blocksize
  <2>1. g.blocksize = len * n + (g.blocksize % len) /\ n \in Nat
        /\ g.blocksize % len \in 0 .. len - 1
    BY <1>1, DivParts DEF BlockSectors
  <2> HIDE DEF n, len
  <2>2. \A a, b, c \in Nat, d \in Nat : d = a * b + c => b * a <= d
    BY Z3
  <2>3. QED
    BY <1>1, <2>1, <2>2
<1>3. s \in Nat
  BY <1>1, <1>2, Z3
<1>4. s = trk * q + (s % trk) /\ q \in Nat /\ s % trk \in 0 .. trk - 1
  BY <1>1, <1>3, DivParts
<1>5. x \in 0 .. trk - 1
  BY <1>4 DEF Laid, IsTrack
<1>6. Nth(g, s) = x + (q + boot) * trk
  BY DEF Nth
<1> DEFINE size == g.size
           block == g.blocksize
           room == tracks - boot
           rest == s % trk
<1>7. s < size * n /\ room \in Nat
  BY <1>1, <1>2, <1>3, Z3
<1> HIDE DEF trk, len, boot, tracks, n, q, x, size, block, room, rest
<1>8. size * n <= trk * room
  <2>1. (size * n) * len <= size * block
    <3>1. \A a, b, c, d \in Nat : b * c <= d => (a * b) * c <= a * d
      BY Z3
    <3>2. QED
      BY <1>1, <1>2, <3>1 DEF size, block, len
  <2>2. (size * n) * len <= (trk * room) * len
    <3>1. \A a, b, c \in Nat : (a * b) * c = (a * c) * b
      BY Z3
    <3>2. size * block <= (trk * len) * room
      BY <1>1 DEF size, block, room
    <3>3. (trk * len) * room = (trk * room) * len
      BY <1>1, <1>7, <3>1
    <3>4. \A a, b, c \in Int : a <= b /\ b <= c => a <= c
      OBVIOUS
    <3>5. (size * n) * len \in Int /\ size * block \in Int /\ (trk * len) * room \in Int
      BY <1>1, <1>2, <1>7 DEF size, block
    <3>6. QED
      BY <2>1, <3>2, <3>3, <3>4, <3>5
  <2>3. \A a, b \in Nat, c \in Nat \ {0} : a * c <= b * c => a <= b
    BY Z3
  <2>4. size * n \in Nat /\ trk * room \in Nat
    BY <1>1, <1>2, <1>7, Z3 DEF size
  <2>5. QED
    BY <1>1, <2>2, <2>3, <2>4
<1>9. q + 1 <= room
  <2>1. trk * q < trk * room
    <3>1. trk * q \in Nat /\ size * n \in Nat /\ trk * room \in Nat
      BY <1>1, <1>2, <1>4, <1>7, Z3 DEF size
    <3>2. QED
      BY <1>3, <1>4, <1>7, <1>8, <3>1
  <2>2. \A a \in Nat \ {0}, b, c \in Nat : a * b < a * c => b + 1 <= c
    BY Z3
  <2>3. QED
    BY <1>1, <1>4, <1>7, <2>1, <2>2
<1>10. (q + boot) * trk >= boot * trk
  BY <1>1, <1>4, Z3
<1>11. x + (q + boot) * trk + 1 <= tracks * trk
  <2>1. (q + boot) + 1 <= tracks
    BY <1>1, <1>4, <1>7, <1>9 DEF room
  <2>2. \A a, b \in Nat, c \in Nat \ {0}, d \in Nat :
          a + 1 <= b /\ d + 1 <= c => d + a * c + 1 <= b * c
    BY Z3
  <2>3. q + boot \in Nat /\ x \in Nat /\ x + 1 <= trk
    BY <1>1, <1>4, <1>5
  <2>4. QED
    BY <1>1, <2>1, <2>2, <2>3
<1>12. QED
  <2>1. boot * trk \in Nat /\ (q + boot) * trk \in Nat /\ x \in Nat
    BY <1>1, <1>4, <1>5, Z3
  <2>2. Nth(g, s) >= boot * trk
    BY <1>6, <1>10, <2>1
  <2>3. QED
    BY <1>6, <1>11, <2>2 DEF boot, trk, tracks

\* Sectors of blocks, and sectors in a row
LEMMA Rows ==
  ASSUME NEW size \in Nat, NEW n \in Nat
  PROVE  /\ size * n \in Nat
         /\ \A b \in 0 .. size - 1, c \in 0 .. n - 1 : b * n + c \in 0 .. size * n - 1
         /\ \A s \in 0 .. size * n - 1 :
              \E b \in 0 .. size - 1, c \in 0 .. n - 1 : s = b * n + c
<1>1. size * n \in Nat
  BY Z3
<1>2. ASSUME NEW b \in 0 .. size - 1, NEW c \in 0 .. n - 1
      PROVE  b * n + c \in 0 .. size * n - 1
  <2>1. \A x, y, z, w \in Nat : x + 1 <= y /\ w + 1 <= z => x * z + w + 1 <= y * z
    BY Z3
  <2>2. b \in Nat /\ c \in Nat /\ b + 1 <= size /\ c + 1 <= n
    OBVIOUS
  <2>3. b * n + c + 1 <= size * n
    BY <2>1, <2>2
  <2>4. b * n \in Nat
    BY <2>2, Z3
  <2>5. QED
    BY <1>1, <2>2, <2>3, <2>4
<1>3. ASSUME NEW s \in 0 .. size * n - 1
      PROVE  \E b \in 0 .. size - 1, c \in 0 .. n - 1 : s = b * n + c
  <2>1. s \in Nat /\ s < size * n
    BY <1>1
  <2>2. n # 0
    BY <2>1, Z3
  <2>3. s = n * (s \div n) + (s % n) /\ s \div n \in Nat /\ s % n \in 0 .. n - 1
    BY <2>1, <2>2, DivParts
  <2> DEFINE b == s \div n
             c == s % n
  <2> HIDE DEF b, c
  <2>4. s = n * b + c /\ b \in Nat /\ c \in 0 .. n - 1
    BY <2>3 DEF b, c
  <2>5. n * b < size * n
    <3>1. n * b \in Nat
      BY <2>4, Z3
    <3>2. QED
      BY <1>1, <2>1, <2>4, <3>1
  <2>6. b < size
    <3>1. \A x, y, z \in Nat : z * x < y * z => x < y
      BY Z3
    <3>2. QED
      BY <2>4, <2>5, <3>1
  <2>7. n * b = b * n /\ b \in 0 .. size - 1
    BY <2>4, <2>6, Z3
  <2>8. QED
    BY <2>4, <2>7
<1>4. QED
  BY <1>1, <1>2, <1>3

\* What a function takes from a range, each once, is as many.
LEMMA AsMany ==
  ASSUME NEW n \in Nat, NEW T, NEW f \in [0 .. n - 1 -> T],
         \A s, t \in 0 .. n - 1 : f[s] = f[t] => s = t,
         \A t \in T : \E s \in 0 .. n - 1 : f[s] = t
  PROVE  Cardinality(T) = n
<1> DEFINE S == 0 .. n - 1
<1>1. f \in Bijection(S, T)
  <2>1. f \in [S -> T]
    OBVIOUS
  <2>2. \A a, b \in S : f[a] = f[b] => a = b
    OBVIOUS
  <2>3. \A t \in T : \E s \in S : f[s] = t
    OBVIOUS
  <2> HIDE DEF S
  <2>4. f \in Injection(S, T)
    BY <2>1, <2>2 DEF Injection, IsInjective
  <2>5. f \in Surjection(S, T)
    BY <2>1, <2>3 DEF Surjection
  <2>6. QED
    BY <2>4, <2>5 DEF Bijection
<1>2. IsFiniteSet(S) /\ Cardinality(S) = n
  <2>1. 0 \in Int /\ n - 1 \in Int /\ (IF 0 > n - 1 THEN 0 ELSE (n - 1) - 0 + 1) = n
    OBVIOUS
  <2>2. QED
    BY <2>1, FS_Interval
<1> HIDE DEF S
<1>3. Cardinality(T) = Cardinality(S)
  <2>1. ExistsBijection(S, T)
    BY <1>1 DEF ExistsBijection
  <2>2. QED
    BY <1>2, <2>1, FS_Bijection
<1>4. QED
  BY <1>2, <1>3

LEMMA LaidApart ==
  ASSUME Laid(geo)
  PROVE  BlocksApart
<1> DEFINE n == BlockSectors(geo)
           size == geo.size
           len == geo.seclen
           counts == 0 .. n - 1
           of(b) == {FileOffset(geo, WritePlace(geo, b, c)) : c \in counts}
           all == UNION {of(b) : b \in 0 .. size - 1}
           rows == 0 .. size * n - 1
           at == [s \in rows |-> Nth(geo, s) * len + geo.offset]
<1>1. /\ len \in Nat \ {0} /\ size \in Nat /\ geo.offset \in Int /\ geo.sectrk \in Nat
      /\ geo.boottrk \in Nat /\ geo.tracks \in Nat
  BY DEF Laid
<1>2. n \in Nat
  <2>1. 0 \in Nat
    OBVIOUS
  <2>2. QED
    BY <2>1, PlaceIs
<1>3. /\ \A b \in 0 .. size - 1, c \in counts : b * n + c \in rows
      /\ \A s \in rows : \E b \in 0 .. size - 1, c \in counts : s = b * n + c
      /\ size * n \in Nat
  BY <1>1, <1>2, Rows
<1>4. ASSUME NEW b \in 0 .. size - 1, NEW c \in counts
      PROVE  /\ ReadPlace(geo, b, c) = WritePlace(geo, b, c)
             /\ FileOffset(geo, WritePlace(geo, b, c)) = at[b * n + c]
  <2>1. b \in Nat /\ c \in Nat
    BY <1>1, <1>2
  <2>2. /\ ReadPlace(geo, b, c) = WritePlace(geo, b, c)
        /\ WritePlace(geo, b, c) =
             <<(b * n + c) \div geo.sectrk + geo.boottrk,
               geo.skewtab[(b * n + c) % geo.sectrk]>>
    BY <2>1, PlaceIs
  <2>3. FileOffset(geo, WritePlace(geo, b, c)) = Nth(geo, b * n + c) * len + geo.offset
    BY <2>2 DEF FileOffset, Nth
  <2>4. b * n + c \in rows
    BY <1>3
  <2> HIDE DEF rows, n
  <2>5. QED
    BY <2>2, <2>3, <2>4
<1> HIDE DEF n, size, len
<1>5. all = {at[s] : s \in rows}
  <2>1. ASSUME NEW x \in all
        PROVE  x \in {at[s] : s \in rows}
    <3>1. PICK b \in 0 .. size - 1, c \in counts : x = FileOffset(geo, WritePlace(geo, b, c))
      OBVIOUS
    <3>2. x = at[b * n + c] /\ b * n + c \in rows
      BY <1>3, <1>4, <3>1
    <3> HIDE DEF at, rows
    <3>3. QED
      BY <3>2
  <2>2. ASSUME NEW s \in rows
        PROVE  at[s] \in all
    <3>1. PICK b \in 0 .. size - 1, c \in counts : s = b * n + c
      BY <1>3
    <3>2. at[s] = FileOffset(geo, WritePlace(geo, b, c))
      BY <1>4, <3>1
    <3> HIDE DEF at, counts
    <3>3. at[s] \in of(b)
      BY <3>2
    <3>4. QED
      BY <3>3
  <2> HIDE DEF all, at, rows
  <2>3. QED
    BY <2>1, <2>2
<1>6. \A s \in rows : s \in Nat /\ Nth(geo, s) \in Nat
  BY <1>3, NthApart
<1>7. \A s, t \in rows : at[s] = at[t] => s = t
  <2>1. ASSUME NEW s \in rows, NEW t \in rows, at[s] = at[t]
        PROVE  s = t
    <3>1. Nth(geo, s) * len + geo.offset = Nth(geo, t) * len + geo.offset
      BY <2>1
    <3>2. \A a, b \in Nat, c \in Nat \ {0}, d \in Int : a * c + d = b * c + d => a = b
      BY Z3
    <3>3. Nth(geo, s) = Nth(geo, t)
      BY <1>1, <1>6, <3>1, <3>2 DEF len
    <3>4. QED
      BY <1>6, <3>3, NthApart
  <2>2. QED
    BY <2>1
<1>8. Cardinality(all) = size * n
  <2>1. at \in [rows -> {at[s] : s \in rows}]
    OBVIOUS
  <2> DEFINE m == size * n
  <2> HIDE DEF at, all
  <2>2. /\ at \in [0 .. m - 1 -> all] /\ m \in Nat
        /\ \A s, t \in 0 .. m - 1 : at[s] = at[t] => s = t
        /\ \A t \in all : \E s \in 0 .. m - 1 : at[s] = t
    BY <1>3, <1>5, <1>7, <2>1
  <2> HIDE DEF m
  <2>3. Cardinality(all) = m
    BY <2>2, AsMany
  <2>4. QED
    BY <2>3 DEF m
<1>9. ASSUME NEW x \in all
      PROVE  /\ x >= BootBytes(geo) + geo.offset
             /\ x + len <= ImageBytes(geo) + geo.offset
  <2>1. PICK s \in rows : x = Nth(geo, s) * len + geo.offset
    <3>1. \A s \in rows : at[s] = Nth(geo, s) * len + geo.offset
      OBVIOUS
    <3> HIDE DEF all, at
    <3>2. QED
      BY <1>5, <1>9, <3>1
  <2>2. /\ Nth(geo, s) >= geo.boottrk * geo.sectrk
        /\ Nth(geo, s) + 1 <= geo.tracks * geo.sectrk
    BY NthInside DEF size, n
  <2>3. Nth(geo, s) \in Nat
    BY <1>6
  <2> DEFINE y == Nth(geo, s)
             boot == geo.boottrk * geo.sectrk
             top == geo.tracks * geo.sectrk
  <2>4. boot \in Nat /\ top \in Nat
    BY <1>1, Z3
  <2>5. BootBytes(geo) = boot * len /\ ImageBytes(geo) = top * len
    <3>1. \A a, b, c \in Nat : (a * b) * c = (c * a) * b
      BY Z3
    <3>2. QED
      BY <1>1, <3>1 DEF BootBytes, ImageBytes, TrackBytes, len
  <2> HIDE DEF y, boot, top
  <2>6. \A a, b, c \in Nat, d \in Nat, o \in Int :
          /\ a >= b => a * c + o >= b * c + o
          /\ a + 1 <= d => a * c + o + c <= d * c + o
    BY Z3
  <2>7. y >= boot /\ y + 1 <= top /\ y \in Nat /\ len \in Nat
    BY <1>1, <2>2, <2>3 DEF y, boot, top, len
  <2>8. y * len + geo.offset >= boot * len + geo.offset
        /\ y * len + geo.offset + len <= top * len + geo.offset
    BY <1>1, <2>4, <2>6, <2>7
  <2>9. QED
    BY <2>1, <2>5, <2>8 DEF y
<1>10. QED
  BY <1>4, <1>8, <1>9 DEF BlocksApart, n, size, len

\* What a format has to say of a track and of the image.  Nothing is asked of
\* one that cpmReadSuper refuses.
Fits(d) ==
  /\ \A key \in Needed : d[key] \in Int
  /\ Plausible(d) =>
       /\ d.boottrk <= d.tracks
       /\ IF d.skewtab = <<>> THEN d.skew \in Nat
          ELSE IsTrack([i \in 0 .. d.sectrk - 1 |-> d.skewtab[i + 1]], d.sectrk)

FormatsFit ==
  /\ \A text \in DefTexts :
       /\ \A i \in 1 .. Len(text) : \A n \in i + 1 .. Len(text) :
            text[i].key = "diskdef" /\ Open(text, i, n) /\ text[n].key = "end" =>
              Fits([key \in Numbers |->
                      Given(SubSeq(text, i + 1, n - 1), key, Defaults[key])])
       /\ \A i \in 1 .. Len(text) :
            text[i].key = "offset" /\ HasValue(text[i]) => text[i].val \in Int
  /\ \A spec \in BootSpecs \ {NoSpec} : Fits(OfBootSpec(spec))

\* What is read fits, and what is mounted is laid out by it.
GeoInv ==
  /\ DefInv
  /\ Mounted => Laid(geo)

LEMMA FitsSame ==
  ASSUME NEW d, NEW e, Fits(d), \A key \in Numbers \ {"logicalextents"} : e[key] = d[key]
  PROVE  Fits(e)
<1>1. /\ \A key \in Needed : e[key] = d[key]
      /\ Needed \subseteq Numbers \ {"logicalextents"}
      /\ e.boottrk = d.boottrk /\ e.tracks = d.tracks /\ e.skewtab = d.skewtab
      /\ e.skew = d.skew /\ e.sectrk = d.sectrk /\ e.dirblks = d.dirblks
  BY DEF Needed, Numbers
<1>2. Plausible(e) = Plausible(d)
  BY <1>1 DEF Plausible
<1>3. QED
  BY <1>1, <1>2 DEF Fits

LEMMA BootOffset ==
  ASSUME NEW spec
  PROVE  OfBootSpec(spec).offset = 0
<1> DEFINE blocksize == 128 * 2 ^ spec.blockShift
           d == [Defaults EXCEPT
                   !.seclen = 128 * 2 ^ spec.sectorShift, !.sectrk = spec.sectors,
                   !.tracks = IF spec.sides > 1 THEN 2 * spec.cylinders
                              ELSE spec.cylinders,
                   !.blocksize = blocksize, !.boottrk = spec.reserved,
                   !.maxdir = (blocksize \div 32) * spec.dirBlocks, !.os = {"3"}]
           extents == ((IF Blocks(d) > 256 THEN 8 ELSE 16) * blocksize) \div 16384
<1>1. OfBootSpec(spec) = [d EXCEPT !.logicalextents = extents]
  BY DEF OfBootSpec
<1> HIDE DEF blocksize, extents
<1>2. d.offset = 0
  BY DEF Defaults
<1>3. DOMAIN d = DOMAIN Defaults
  OBVIOUS
<1> HIDE DEF d
<1>4. QED
  BY <1>1, <1>2

LEMMA ReadFits ==
  ASSUME DefinitionsAreWhole, FormatsFit, DefInv, def.phase = "read"
  PROVE  Fits(def.d) /\ def.size = Blocks(def.d) /\ def.d.offset \in Int
<1>1. IF def.format = "amstrad" THEN FromBoot ELSE Complete
  BY DEF DefInv, NoReader
<1>2. CASE FromBoot
  <2>1. PICK spec \in BootSpecs \ {NoSpec} :
          def.d = OfBootSpec(spec) /\ def.size = Blocks(def.d)
    BY <1>2 DEF FromBoot
  <2>2. def.d.offset = 0
    BY <2>1, BootOffset
  <2>3. QED
    BY <2>1, <2>2 DEF FormatsFit
<1>3. CASE Complete
  <2> DEFINE text == def.text
  <2>1. PICK i \in 1 .. Len(text) : \E n \in i + 1 .. Len(text) :
          /\ OpenedAt(text, i, n) /\ text[n].key = "end" /\ Settled(text, i, n, def.d)
          /\ def.size = Blocks(def.d)
    BY <1>3 DEF Complete
  <2>2. PICK n \in i + 1 .. Len(text) :
          /\ OpenedAt(text, i, n) /\ text[n].key = "end" /\ Settled(text, i, n, def.d)
          /\ def.size = Blocks(def.d)
    BY <2>1
  <2>3. text \in DefTexts /\ text \in Seq(DefLines) /\ Len(text) \in Nat
    BY <1>3, LenProperties DEF Complete, DefinitionsAreWhole
  <2> HIDE DEF text
  <2> DEFINE d == [key \in Numbers |->
                     Given(SubSeq(text, i + 1, n - 1), key, Defaults[key])]
  <2>4. Fits(d)
    BY <2>2, <2>3 DEF FormatsFit, OpenedAt
  <2>5. \A key \in Numbers \ {"logicalextents"} : def.d[key] = d[key]
    BY <2>2, <2>3, GivenOf DEF Settled
  <2> HIDE DEF d
  <2>6. Fits(def.d)
    BY <2>4, <2>5, FitsSame
  <2>7. def.d.seclen \in Int /\ def.d.sectrk \in Int
    BY <2>6 DEF Fits, Needed
  <2>8. ASSUME NEW unit
        PROVE  UnitBytes(def.d, unit) \in Int
    <3>1. def.d.sectrk * def.d.seclen \in Int
      BY <2>7, Z3
    <3>2. QED
      BY <2>7, <3>1 DEF UnitBytes
  <2>9. def.d.offset \in Int
    <3>1. CASE def.d.offset = 0
      BY <3>1
    <3>2. ASSUME NEW c \in i + 1 .. n - 1, text[c].key = "offset", HasValue(text[c]),
                 def.d.offset = text[c].val * UnitBytes(def.d, text[c].unit)
          PROVE  def.d.offset \in Int
      <4>1. c \in 1 .. Len(text)
        BY <2>3
      <4>2. text[c].val \in Int
        BY <2>3, <3>2, <4>1 DEF FormatsFit
      <4>3. \A a, b \in Int : a * b \in Int
        BY Z3
      <4>4. QED
        BY <2>8, <3>2, <4>2, <4>3
    <3>3. QED
      BY <2>2, <3>1, <3>2 DEF Settled, OffsetGiven
  <2>10. QED
    BY <2>2, <2>6, <2>9
<1>4. QED
  BY <1>1, <1>2, <1>3

LEMMA MountedLaid ==
  ASSUME NEW d, Fits(d), Plausible(d), d.offset \in Int
  PROVE  Laid(GeometryOf(d, Blocks(d)))
<1> DEFINE g == GeometryOf(d, Blocks(d))
<1>1. /\ d.seclen \in Nat \ {0} /\ d.sectrk \in Nat \ {0} /\ d.tracks \in Nat \ {0}
      /\ d.blocksize \in Nat \ {0} /\ d.boottrk \in Nat /\ d.boottrk <= d.tracks
  <2>1. \A key \in Needed \ {"boottrk"} : d[key] \in Nat \ {0}
    BY DEF Fits, Plausible
  <2>2. d.boottrk \in Int /\ d.boottrk >= 0 /\ d.boottrk <= d.tracks
    BY DEF Fits, Plausible, Needed
  <2>3. {"seclen", "sectrk", "tracks", "blocksize"} \subseteq Needed \ {"boottrk"}
    BY DEF Needed
  <2>4. QED
    BY <2>1, <2>2, <2>3
<1>2. /\ g.seclen = d.seclen /\ g.sectrk = d.sectrk /\ g.tracks = d.tracks
      /\ g.boottrk = d.boottrk /\ g.blocksize = d.blocksize /\ g.offset = d.offset
      /\ g.size = Blocks(d) /\ g.skewtab = Skewed(d)
  BY DEF GeometryOf
<1> HIDE DEF g
<1> DEFINE room == d.tracks - d.boottrk
           bytes == (d.seclen * d.sectrk) * room
           block == d.blocksize
<1>3. bytes \in Nat
  <2>1. room \in Nat
    BY <1>1
  <2> HIDE DEF room
  <2>2. QED
    BY <1>1, <2>1, Z3
<1>4. Blocks(d) = bytes \div block
  BY <1>1 DEF Blocks
<1>5. TrackBytes(g) * (g.tracks - g.boottrk) = bytes
  <2>1. \A a, b \in Nat : a * b = b * a
    BY Z3
  <2>2. d.sectrk * d.seclen = d.seclen * d.sectrk
    BY <1>1, <2>1
  <2>3. QED
    BY <1>2, <2>2 DEF TrackBytes
<1> HIDE DEF room, bytes
<1>6. Blocks(d) \in Nat /\ Blocks(d) * block <= bytes
  <2>1. bytes = block * (bytes \div block) + (bytes % block) /\ bytes \div block \in Nat
        /\ bytes % block \in 0 .. block - 1
    BY <1>1, <1>3, DivParts
  <2>2. \A a, b, c, e \in Nat : e = a * b + c => b * a <= e
    BY Z3
  <2>3. QED
    BY <1>1, <1>3, <1>4, <2>1, <2>2
<1>7. IsTrack(Skewed(d), d.sectrk)
  <2>1. CASE d.skewtab = <<>>
    <3>1. d.skew \in Nat
      BY <2>1 DEF Fits
    <3>2. IsTrack(SkewTab(d.sectrk, d.skew), d.sectrk)
      BY <1>1, <3>1, SkewIsTrack
    <3>3. Skewed(d) = SkewTab(d.sectrk, d.skew)
      BY <2>1 DEF Skewed
    <3>4. QED
      BY <3>2, <3>3
  <2>2. CASE d.skewtab # <<>>
    BY <2>2 DEF Skewed, Fits
  <2>3. QED
    BY <2>1, <2>2
<1>8. QED
  BY <1>1, <1>2, <1>5, <1>6, <1>7 DEF Laid, block, g

LEMMA GeoNext ==
  ASSUME DefinitionsAreWhole, FormatsFit, GeoInv, [ReadersNext]_allvars
  PROVE  GeoInv'
<1>1. DefInv'
  BY DefNext DEF GeoInv
<1>2. CASE UNCHANGED geo
  BY <1>1, <1>2 DEF GeoInv, Mounted, Laid, IsTrack, TrackBytes
<1>3. CASE SetGeometry
  <2>1. def.phase = "read"
    BY <1>3 DEF SetGeometry
  <2>2. Fits(def.d) /\ def.size = Blocks(def.d) /\ def.d.offset \in Int
    BY <2>1, ReadFits DEF GeoInv
  <2>3. CASE Plausible(def.d)
    <3>1. Laid(GeometryOf(def.d, Blocks(def.d)))
      BY <2>2, <2>3, MountedLaid
    <3>2. geo' = GeometryOf(def.d, Blocks(def.d))
      BY <1>3, <2>2, <2>3 DEF SetGeometry
    <3>3. Laid(geo')
      BY <3>1, <3>2
    <3>4. QED
      BY <1>1, <3>3 DEF GeoInv, Laid, IsTrack, TrackBytes
  <2>4. CASE ~Plausible(def.d)
    BY <1>2, <1>3, <2>4 DEF SetGeometry
  <2>5. QED
    BY <2>3, <2>4
<1>4. UNCHANGED geo \/ SetGeometry
  BY DEF ReadersNext, Definition, Begin, Work, allvars
<1>5. QED
  BY <1>2, <1>3, <1>4

\* Every block is read where it was written, behind the system tracks and inside
\* the image, and no two blocks have a sector in common, for every format whose
\* system tracks leave it room and whose list of sectors, if it has one, is of
\* the sectors of a track.  A skew needs no list: the table that is made of it
\* has every sector once.  (cpmfs.c, cpmReadSuper, readBlock and writeBlock;
\* device_posix.c)
THEOREM BlocksLieApart ==
  ASSUME DefinitionsAreWhole, FormatsFit
  PROVE  ReadersSpec => []BlocksApart
<1>1. ReadersInit => GeoInv
  BY DefInitial DEF GeoInv, ReadersInit, Mounted
<1>2. GeoInv /\ [ReadersNext]_allvars => GeoInv'
  BY GeoNext
<1>3. GeoInv => BlocksApart
  <2>1. CASE Mounted
    BY <2>1, LaidApart DEF GeoInv
  <2>2. CASE ~Mounted
    BY <2>2 DEF BlocksApart
  <2>3. QED
    BY <2>1, <2>2
<1>4. QED
  BY <1>1, <1>2, <1>3, PTL DEF ReadersSpec

-----------------------------------------------------------------------------
(* The sector on the screen                                                 *)

\* what positions are reckoned with
Sizes == {"seclen", "sectrk", "tracks", "boottrk"}

Shaped(g) ==
  /\ g.seclen \in Nat \ {0} /\ g.sectrk \in Nat \ {0}
  /\ g.tracks \in Nat \ {0} /\ g.boottrk \in Nat

\* Positions of one sector are of one track, and together in front of the end
\* of the system tracks or behind it.
LEMMA OneSector ==
  ASSUME NEW g, Shaped(g), NEW a \in Nat, NEW b \in Nat,
         a \div g.seclen = b \div g.seclen
  PROVE  PlaceOf(g, a) = PlaceOf(g, b)
<1> DEFINE len == g.seclen
           trk == g.sectrk
           boot == g.boottrk
           n == a \div len
<1> len \in Nat \ {0} /\ trk \in Nat \ {0} /\ boot \in Nat
  BY DEF Shaped
<1>1. TrackBytes(g) = len * trk
  BY Z3 DEF TrackBytes
<1>2. a \div TrackBytes(g) = n \div trk /\ b \div TrackBytes(g) = n \div trk
  BY <1>1, DivDiv
<1>3. SectorIx(g, a) = SectorIx(g, b)
  BY DEF SectorIx
<1>4. ASSUME NEW p \in Nat, p \div len = n
      PROVE  InSystem(g, p) <=> n < trk * boot
  <2>1. p = len * n + (p % len) /\ p % len \in 0 .. len - 1
    BY <1>4, DivParts
  <2>2. n \in Nat
    BY DivParts
  <2> HIDE DEF len, trk, boot, n
  <2>3. p < (trk * len) * boot <=> n < trk * boot
    <3> DEFINE m == trk * boot
    <3>1. m \in Nat /\ (trk * len) * boot = len * m
      BY Z3
    <3> HIDE DEF m
    <3>2. n < m => len * n + len <= len * m
      BY <2>2, <3>1, Z3
    <3>3. n >= m => len * n >= len * m
      BY <2>2, <3>1, Z3
    <3>4. QED
      BY <2>1, <2>2, <3>1, <3>2, <3>3, Z3 DEF m
  <2>4. QED
    BY <2>3 DEF InSystem, BootBytes, TrackBytes, len, trk, boot
<1>5. InSystem(g, a) <=> InSystem(g, b)
  BY <1>4
<1>6. QED
  BY <1>2, <1>3, <1>5 DEF PlaceOf

\* Sizes are numbers, in the definitions of formats and in boot sectors.
SizesAreNumbers ==
  /\ \A text \in DefTexts : \A i \in 1 .. Len(text) :
       text[i].key \in Sizes /\ DOMAIN text[i] # {"key"} => text[i].val \in Int
  /\ \A spec \in BootSpecs \ {NoSpec} : \A key \in Sizes :
       OfBootSpec(spec)[key] \in Int

\* The reader of a definition, half way
ReaderOK ==
  /\ {"phase", "d", "ln", "text", "inside", "found", "size"} \subseteq DOMAIN def
  /\ def.text \in DefTexts \cup {<<>>} /\ def.ln \in Nat \ {0}
  /\ Sizes \subseteq DOMAIN def.d
  /\ \A key \in Sizes : def.d[key] \in Int

ScreenOK ==
  /\ {"phase", "pos", "reload", "buf"} \subseteq DOMAIN view
  /\ view.reload \in BOOLEAN
  /\ view.pos \in 0 .. ImageBytes(geo) - 1
  /\ ~view.reload => view.buf = PlaceOf(geo, view.pos)

\* The geometry is made of numbers and stays while the screen is used.
ViewInv ==
  /\ def = NoReader \/ ReaderOK
  /\ Mounted => def = NoReader /\ Shaped(geo)
  /\ view = NoView \/ Mounted
  /\ view.phase \in {"none", "draw", "key", "end"}
  /\ view.phase \in {"draw", "key"} => ScreenOK

LEMMA ImageNat ==
  ASSUME NEW g, Shaped(g)
  PROVE  TrackBytes(g) \in Nat \ {0} /\ ImageBytes(g) \in Nat \ {0}
<1>1. TrackBytes(g) \in Nat \ {0}
  BY Z3 DEF TrackBytes, Shaped
<1>2. QED
  BY <1>1, Z3 DEF ImageBytes, Shaped

LEMMA ViewInitial == ReadersInit => ViewInv
<1> SUFFICES ASSUME ReadersInit PROVE ViewInv
  OBVIOUS
<1>1. PICK text \in DefTexts, format \in Formats : def = Reader(text, format)
  BY DEF ReadersInit
<1>2. ReaderOK
  BY <1>1 DEF Reader, ReaderOK, Sizes, Defaults
<1>3. QED
  BY <1>2 DEF ReadersInit, Idle, ViewInv, NoView, Mounted, NoGeo

\* The definition is read line by line.
LEMMA ViewDefinition ==
  ASSUME SizesAreNumbers, ViewInv, Definition
  PROVE  ViewInv'
<1> USE DEF SizesAreNumbers
<1>1. UNCHANGED view
  BY DEF Definition, work
<1>2. def # NoReader /\ ReaderOK /\ ~Mounted /\ view = NoView
  <2>1. def.phase # "none"
    BY DEF Definition, DefStep, OpenDef, SkipLine, SetLine, RefuseLine, EndDef, EndOfText,
           CheckDef, AmsReadSuper, Outside, Inside, MoreText, SetGeometry
  <2>2. QED
    BY <2>1 DEF ViewInv, NoReader
<1>3. ASSUME DefStep, UNCHANGED geo
      PROVE  ReaderOK'
  <2>1. CASE OpenDef
    <3>1. def' = [def EXCEPT !.inside = TRUE, !.ln = @ + 1, !.d = Defaults,
                             !.found = @ \/ Cur.val = def.format]
      BY <2>1 DEF OpenDef
    <3>2. QED
      BY <1>2, <3>1 DEF ReaderOK, Sizes, Defaults
  <2>2. CASE SkipLine
    BY <1>2, <2>2 DEF SkipLine, ReaderOK
  <2>3. CASE SetLine
    <3>1. /\ def' = [def EXCEPT !.ln = @ + 1, !.d = Set(Cur)]
          /\ def.text \in DefTexts /\ def.ln \in 1 .. Len(def.text)
          /\ Cur.key # "end" /\ ~Wrong(Cur)
      BY <1>2, <2>3 DEF SetLine, Inside, MoreText, ReaderOK
    <3>2. Cur.key \in Sizes => Cur.val \in Int
      BY <3>1 DEF Cur, Wrong
    <3>3. Sizes \subseteq DOMAIN Set(Cur) /\ \A key \in Sizes : Set(Cur)[key] \in Int
      BY <1>2, <3>2 DEF Set, ReaderOK, Sizes, Numbers
    <3>4. QED
      BY <1>2, <3>1, <3>3 DEF ReaderOK
  <2>4. CASE RefuseLine
    BY <1>2, <2>4 DEF RefuseLine, ReaderOK
  <2>5. CASE EndDef
    BY <1>2, <2>5 DEF EndDef, ReaderOK, Sizes
  <2>6. CASE EndOfText
    BY <1>2, <2>6 DEF EndOfText, ReaderOK
  <2>7. CASE CheckDef
    BY <1>2, <2>7 DEF CheckDef, ReaderOK
  <2>8. CASE AmsReadSuper
    <3>1. PICK spec \in BootSpecs :
            def' = IF spec = NoSpec THEN [def EXCEPT !.phase = "refused"]
                   ELSE [def EXCEPT !.phase = "read", !.d = OfBootSpec(spec),
                                    !.size = Blocks(OfBootSpec(spec))]
      BY <2>8 DEF AmsReadSuper
    <3>2. CASE spec = NoSpec
      BY <1>2, <3>1, <3>2 DEF ReaderOK
    <3>3. CASE spec # NoSpec
      <4>1. Sizes \subseteq DOMAIN OfBootSpec(spec)
        BY BootSettings DEF Sizes, Defaults
      <4>2. QED
        BY <1>2, <3>1, <3>3, <4>1 DEF ReaderOK
    <3>4. QED
      BY <3>2, <3>3
  <2>9. QED
    BY <1>3, <2>1, <2>2, <2>3, <2>4, <2>5, <2>6, <2>7, <2>8 DEF DefStep
<1>4. ASSUME SetGeometry
      PROVE  ViewInv'
  <2>1. CASE Plausible(def.d)
    <3>1. def' = NoReader /\ geo' = GeometryOf(def.d, def.size)
      BY <1>4, <2>1 DEF SetGeometry
    <3>2. Shaped(geo')
      BY <1>2, <2>1, <3>1 DEF Plausible, Needed, GeometryOf, Shaped, ReaderOK, Sizes
    <3>3. QED
      BY <1>1, <1>2, <3>1, <3>2 DEF ViewInv, Mounted, NoView
  <2>2. CASE ~Plausible(def.d)
    <3>1. def' = [def EXCEPT !.phase = "refused"] /\ UNCHANGED geo
      BY <1>4, <2>2 DEF SetGeometry
    <3>2. ReaderOK'
      BY <1>2, <3>1 DEF ReaderOK
    <3>3. QED
      BY <1>1, <1>2, <3>1, <3>2 DEF ViewInv, Mounted, NoView
  <2>3. QED
    BY <2>1, <2>2
<1>5. CASE DefStep /\ UNCHANGED geo
  BY <1>1, <1>2, <1>3, <1>5 DEF ViewInv, Mounted, NoView
<1>6. QED
  BY <1>4, <1>5 DEF Definition

\* One key, or the screen drawn again
LEMMA ViewKeys ==
  ASSUME ViewInv, ViewStep, UNCHANGED <<def, geo>>
  PROVE  ViewInv'
<1>1. view.phase \in {"draw", "key"} /\ view # NoView
  BY DEF ViewStep, Draw, Forward, Backward, NextTrack, PreviousTrack, OtherKey, QuitView,
         NoView
<1>2. ScreenOK /\ Mounted /\ Shaped(geo) /\ def = NoReader
  BY <1>1 DEF ViewInv
<1>3. ImageBytes(geo) \in Nat \ {0} /\ TrackBytes(geo) \in Nat \ {0}
  BY <1>2, ImageNat
<1>4. /\ \A p : PlaceOf(geo, p)' = PlaceOf(geo, p')
      /\ ImageBytes(geo)' = ImageBytes(geo)
  OBVIOUS
<1>5. SUFFICES view'.phase \in {"none", "draw", "key", "end"}
                /\ (view'.phase \in {"draw", "key"} => ScreenOK')
  BY <1>2 DEF ViewInv, Mounted
<1>6. CASE Draw
  BY <1>2, <1>4, <1>6 DEF Draw, ScreenOK
\* A key moves the position inside the image, and the sector is read again
\* unless it is the same.
<1>7. ASSUME NEW to \in 0 .. ImageBytes(geo) - 1, Move(to)
      PROVE  view'.phase = "draw" /\ ScreenOK'
  <2>1. /\ view' = [view EXCEPT !.phase = "draw", !.pos = to,
                      !.reload = @ \/ to \div geo.seclen # view.pos \div geo.seclen]
        /\ view.pos \in Nat /\ to \in Nat
    BY <1>2, <1>3, <1>7 DEF Move, ScreenOK
  <2>2. to \div geo.seclen = view.pos \div geo.seclen
          => PlaceOf(geo, to) = PlaceOf(geo, view.pos)
    BY <1>2, <2>1, OneSector
  <2>3. QED
    BY <1>2, <1>4, <2>1, <2>2 DEF ScreenOK
<1>8. ASSUME NEW to \in 0 .. ImageBytes(geo) - 1, ToTrack(to)
      PROVE  view'.phase = "draw" /\ ScreenOK'
  BY <1>2, <1>4, <1>8 DEF ToTrack, ScreenOK
<1>9. view.pos \in 0 .. ImageBytes(geo) - 1 /\ Strides \subseteq Nat
  BY <1>2 DEF ScreenOK, Strides
<1>10. CASE Forward
  <2>1. PICK stride \in Strides : /\ view.pos + stride < ImageBytes(geo)
                                  /\ Move(view.pos + stride)
    BY <1>10 DEF Forward
  <2>2. view.pos + stride \in 0 .. ImageBytes(geo) - 1
    BY <1>3, <1>9, <2>1
  <2>3. QED
    BY <1>7, <2>1, <2>2
<1>11. CASE Backward
  <2>1. PICK stride \in Strides : view.pos >= stride /\ Move(view.pos - stride)
    BY <1>11 DEF Backward
  <2>2. view.pos - stride \in 0 .. ImageBytes(geo) - 1
    BY <1>3, <1>9, <2>1
  <2>3. QED
    BY <1>7, <2>1, <2>2
<1>12. CASE NextTrack
  <2>1. view.pos + TrackBytes(geo) \in 0 .. ImageBytes(geo) - 1
    BY <1>3, <1>9, <1>12 DEF NextTrack
  <2>2. QED
    BY <1>8, <1>12, <2>1 DEF NextTrack
<1>13. CASE PreviousTrack
  <2>1. view.pos - TrackBytes(geo) \in 0 .. ImageBytes(geo) - 1
    BY <1>3, <1>9, <1>13 DEF PreviousTrack
  <2>2. QED
    BY <1>8, <1>13, <2>1 DEF PreviousTrack
<1>14. CASE OtherKey
  BY <1>2, <1>4, <1>14 DEF OtherKey, ScreenOK
<1>15. CASE QuitView
  BY <1>15 DEF QuitView
<1>16. QED
  BY <1>6, <1>10, <1>11, <1>12, <1>13, <1>14, <1>15 DEF ViewStep

LEMMA ViewNext ==
  ASSUME SizesAreNumbers, ViewInv, [ReadersNext]_allvars
  PROVE  ViewInv'
<1>1. CASE Definition
  BY <1>1, ViewDefinition
<1>2. CASE Begin
  <2>1. UNCHANGED <<def, geo>> /\ Mounted /\ def = NoReader /\ Shaped(geo)
    BY <1>2 DEF Begin, ViewInv
  <2>2. CASE ViewStart
    <3>1. /\ ImageBytes(geo) \in Nat \ {0} /\ ImageBytes(geo)' = ImageBytes(geo)
      BY <2>1, ImageNat
    <3>2. QED
      BY <2>1, <2>2, <3>1 DEF ViewStart, ViewInv, ScreenOK, Mounted
  <2>3. CASE UNCHANGED view
    BY <2>1, <2>3 DEF ViewInv, ScreenOK, Mounted, NoView, Shaped, ImageBytes, TrackBytes,
                      PlaceOf, InSystem, BootBytes, SectorIx
  <2>4. QED
    BY <1>2, <2>2, <2>3 DEF Begin
<1>3. CASE Work
  <2>1. UNCHANGED <<def, geo>>
    BY <1>3 DEF Work
  <2>2. CASE ViewStep
    BY <2>1, <2>2, ViewKeys
  <2>3. CASE UNCHANGED view
    BY <2>1, <2>3 DEF ViewInv, ReaderOK, ScreenOK, Mounted, NoView, Shaped, ImageBytes,
                      TrackBytes, PlaceOf, InSystem, BootBytes, SectorIx
  <2>4. QED
    BY <1>3, <2>2, <2>3 DEF Work
<1>4. CASE UNCHANGED allvars
  BY <1>4 DEF allvars, work, ViewInv, ReaderOK, ScreenOK, Mounted, NoView, Shaped,
              ImageBytes, TrackBytes, PlaceOf, InSystem, BootBytes, SectorIx
<1>5. QED
  BY <1>1, <1>2, <1>3, <1>4 DEF ReadersNext

\* The bytes that fsed.cpm dumps are those of its position, for every format,
\* whatever keys led there and whatever sector could not be read: the buffer is
\* only kept where the old and the new position are in one sector, and all of a
\* sector lies on one side of the end of the system tracks, where the skew
\* begins.  The entry that it decodes is of that sector too, if it could be
\* read.  (fsed.cpm.c, main)
THEOREM SectorIsShown ==
  ASSUME SizesAreNumbers
  PROVE  ReadersSpec => []SectorShown
<1>1. ViewInv => SectorShown
  BY DEF ViewInv, ScreenOK, SectorShown, Dumped, Decoded
<1>2. ReadersInit => ViewInv
  BY ViewInitial
<1>3. ViewInv /\ [ReadersNext]_allvars => ViewInv'
  BY ViewNext
<1>4. QED
  BY <1>1, <1>2, <1>3, PTL DEF ReadersSpec

-----------------------------------------------------------------------------
(* A text on its way to CP/M and back                                       *)

Bytes == {CR, LF, SUB} \cup UNION {{text[i] : i \in DOMAIN text} : text \in HostTexts}

\* Files are sequences, the bytes with a meaning differ, and cpmRead is asked
\* for at least one byte.
TextsAreFiles ==
  /\ HostTexts \subseteq Seq(Bytes)
  /\ CR # LF /\ SUB # CR /\ SUB # LF
  /\ RoundIn \in Nat /\ RoundOut \in Nat \ {0}

\* c is what the bytes j + 1 .. k of s are for CP/M; at[i] is where in c the
\* form of byte i ends, and closed says that a SUB comes behind all of them.
SpellsAt(c, s, j, k, text, closed, at) ==
  /\ at[j] = 0
  /\ Len(c) = at[k] + closed
  /\ closed = 1 => c[Len(c)] = SUB
  /\ \A i, n \in j .. k : i <= n => at[n] >= at[i] + (n - i)
  /\ \A i \in j + 1 .. k :
       IF text /\ s[i] = LF
       THEN at[i] = at[i - 1] + 2 /\ c[at[i] - 1] = CR /\ c[at[i]] = LF
       ELSE at[i] = at[i - 1] + 1 /\ c[at[i]] = s[i]

Spells(c, s, j, k, text, closed) ==
  \E at \in [j .. k -> Nat] : SpellsAt(c, s, j, k, text, closed, at)

\* The form of byte i is a part of c.
Within(c, s, k, text, at, i) ==
  /\ at[i] \in 1 .. at[k] /\ at[k] <= Len(c) /\ at[i - 1] \in Nat
  /\ text /\ s[i] = LF => at[i] - 1 \in 1 .. at[k] /\ at[i] - 1 = at[i - 1] + 1
  /\ ~(text /\ s[i] = LF) => at[i] = at[i - 1] + 1

LEMMA SpellsInside ==
  ASSUME NEW c \in Seq(Bytes), NEW s, NEW j \in Nat, NEW k \in Nat,
         NEW text \in BOOLEAN, NEW closed \in {0, 1}, NEW at \in [j .. k -> Nat],
         SpellsAt(c, s, j, k, text, closed, at), NEW i \in j + 1 .. k
  PROVE  Within(c, s, k, text, at, i)
<1>1. at[i] \in Nat /\ at[i - 1] \in Nat /\ at[k] \in Nat
  OBVIOUS
<1>2. at[k] >= at[i] + (k - i)
  BY DEF SpellsAt
<1>3. at[k] <= Len(c)
  <2>1. Len(c) = at[k] + closed
    BY DEF SpellsAt
  <2>2. at[k] + closed >= at[k]
    BY <1>1
  <2>3. QED
    BY <2>1, <2>2
<1>4. CASE text /\ s[i] = LF
  <2>1. at[i] = at[i - 1] + 2
    BY <1>4 DEF SpellsAt
  <2>2. at[i] <= at[k]
    BY <1>1, <1>2
  <2>3. /\ at[i] \in 1 .. at[k] /\ at[i] - 1 \in 1 .. at[k]
        /\ at[i] - 1 = at[i - 1] + 1
    BY <1>1, <2>1, <2>2
  <2>4. QED
    BY <1>1, <1>3, <1>4, <2>3 DEF Within
<1>5. CASE ~(text /\ s[i] = LF)
  <2>1. at[i] = at[i - 1] + 1
    BY <1>5 DEF SpellsAt
  <2>2. at[i] <= at[k]
    BY <1>1, <1>2
  <2>3. at[i] \in 1 .. at[k]
    BY <1>1, <2>1, <2>2
  <2>4. QED
    BY <1>1, <1>3, <1>5, <2>1, <2>3 DEF Within
<1>6. QED
  BY <1>4, <1>5

\* One byte more
LEMMA SpellsMore ==
  ASSUME NEW c \in Seq(Bytes), NEW s \in Seq(Bytes), NEW k \in Nat, k < Len(s),
         NEW text \in BOOLEAN, Spells(c, s, 0, k, text, 0)
  PROVE  Spells(c \o (IF text /\ s[k + 1] = LF THEN <<CR, LF>> ELSE <<s[k + 1]>>),
                s, 0, k + 1, text, 0)
<1> DEFINE form == IF text /\ s[k + 1] = LF THEN <<CR, LF>> ELSE <<s[k + 1]>>
<1>1. PICK at \in [0 .. k -> Nat] : SpellsAt(c, s, 0, k, text, 0, at)
  BY DEF Spells
<1>2. /\ form \in Seq(Bytes) /\ 1 <= Len(form) /\ Len(form) <= 2
      /\ Len(form) > 1 <=> text /\ s[k + 1] = LF
  <2>1. s[k + 1] \in Bytes /\ CR \in Bytes /\ LF \in Bytes
    BY LenProperties, ElementOfSeq DEF Bytes
  <2>2. QED
    BY <2>1
<1>3. IF text /\ s[k + 1] = LF THEN form[1] = CR /\ form[2] = LF
      ELSE form[1] = s[k + 1]
  OBVIOUS
<1>4. Len(form) \in Nat /\ Len(c) \in Nat
  BY <1>2, LenProperties
<1> HIDE DEF form
<1>5. /\ c \o form \in Seq(Bytes) /\ Len(c \o form) = Len(c) + Len(form)
      /\ \A i \in 1 .. Len(c) + Len(form) :
           (c \o form)[i] = IF i <= Len(c) THEN c[i] ELSE form[i - Len(c)]
  BY <1>2, ConcatProperties
<1> DEFINE upto == [i \in 0 .. k + 1 |-> IF i <= k THEN at[i] ELSE Len(c) + Len(form)]
<1>6. /\ upto \in [0 .. k + 1 -> Nat] /\ upto[0] = 0 /\ upto[k + 1] = Len(c) + Len(form)
      /\ \A i \in 0 .. k : upto[i] = at[i] /\ at[i] \in Nat
  <2>1. at[0] = 0
    BY <1>1 DEF SpellsAt
  <2>2. QED
    BY <1>4, <2>1
<1> HIDE DEF upto
<1>7. at[k] = Len(c)
  BY <1>1, <1>4, <1>6 DEF SpellsAt
<1>8. \A i, n \in 0 .. k + 1 : i <= n => upto[n] >= upto[i] + (n - i)
  <2> SUFFICES ASSUME NEW i \in 0 .. k + 1, NEW n \in 0 .. k + 1, i <= n
               PROVE  upto[n] >= upto[i] + (n - i)
    OBVIOUS
  <2>1. \A a, b \in 0 .. k : a <= b => at[b] >= at[a] + (b - a)
    BY <1>1 DEF SpellsAt
  <2>2. CASE n <= k
    <3>0. i \in 0 .. k /\ n \in 0 .. k
      BY <2>2
    <3>1. at[n] >= at[i] + (n - i) /\ upto[n] = at[n] /\ upto[i] = at[i]
      BY <1>6, <2>1, <3>0
    <3>2. QED
      BY <3>1
  <2>3. CASE n = k + 1 /\ i <= k
    <3>1. at[k] >= at[i] + (k - i)
      BY <2>1, <2>3
    <3>2. QED
      BY <1>2, <1>4, <1>6, <1>7, <2>3, <3>1, SMTT(30)
  <2>4. CASE i = k + 1
    BY <1>6, <2>4
  <2>5. QED
    BY <2>2, <2>3, <2>4
<1>9. \A i \in 1 .. k + 1 :
        IF text /\ s[i] = LF
        THEN /\ upto[i] = upto[i - 1] + 2
             /\ (c \o form)[upto[i] - 1] = CR /\ (c \o form)[upto[i]] = LF
        ELSE upto[i] = upto[i - 1] + 1 /\ (c \o form)[upto[i]] = s[i]
  <2> TAKE i \in 1 .. k + 1
  <2>1. CASE i <= k
    <3>1. upto[i] = at[i] /\ upto[i - 1] = at[i - 1]
      BY <1>6, <2>1
    <3>2. IF text /\ s[i] = LF
          THEN at[i] = at[i - 1] + 2 /\ c[at[i] - 1] = CR /\ c[at[i]] = LF
          ELSE at[i] = at[i - 1] + 1 /\ c[at[i]] = s[i]
      <4>1. i \in 0 + 1 .. k
        BY <2>1
      <4>2. QED
        BY <1>1, <4>1, Zenon DEF SpellsAt
    <3>3. \A n \in 1 .. at[k] : (c \o form)[n] = c[n]
      BY <1>4, <1>5, <1>7
    <3>4. /\ at[i] \in 1 .. at[k]
          /\ text /\ s[i] = LF => at[i] - 1 \in 1 .. at[k]
      <4>1. i \in 0 + 1 .. k /\ 0 \in Nat /\ 0 \in {0, 1}
        BY <2>1
      <4>2. Within(c, s, k, text, at, i)
        BY <1>1, <4>1, SpellsInside
      <4>3. QED
        BY <4>2 DEF Within
    <3>5. QED
      BY <3>1, <3>2, <3>3, <3>4
  <2>2. CASE i = k + 1
    <3>1. upto[i] = Len(c) + Len(form) /\ upto[i - 1] = Len(c)
      BY <1>6, <1>7, <2>2
    <3>2. (c \o form)[Len(c) + Len(form)] = form[Len(form)]
      BY <1>2, <1>4, <1>5
    <3>3. Len(form) > 1 => (c \o form)[Len(c) + 1] = form[1]
      BY <1>2, <1>4, <1>5
    <3>4. QED
      BY <1>2, <1>3, <1>4, <2>2, <3>1, <3>2, <3>3
  <2>3. i <= k \/ i = k + 1
    OBVIOUS
  <2>4. QED
    BY <2>1, <2>2, <2>3
<1>10. SpellsAt(c \o form, s, 0, k + 1, text, 0, upto)
  <2>1. Len(c \o form) = upto[k + 1] + 0
    BY <1>4, <1>5, <1>6
  <2>2. 0 + 1 = 1 /\ ~(0 = 1)
    OBVIOUS
  <2>3. QED
    BY <1>6, <1>8, <1>9, <2>1, <2>2, Zenon DEF SpellsAt
<1>11. QED
  BY <1>6, <1>10 DEF Spells, form

\* The end-of-file mark
LEMMA SpellsClosed ==
  ASSUME NEW c \in Seq(Bytes), NEW s, NEW k \in Nat, NEW text \in BOOLEAN,
         Spells(c, s, 0, k, text, 0)
  PROVE  Spells(c \o <<SUB>>, s, 0, k, text, 1)
<1>1. PICK at \in [0 .. k -> Nat] : SpellsAt(c, s, 0, k, text, 0, at)
  BY DEF Spells
<1>2. <<SUB>> \in Seq(Bytes) /\ Len(<<SUB>>) = 1 /\ <<SUB>>[1] = SUB
  BY DEF Bytes
<1>3. Len(c) \in Nat /\ at[k] \in Nat /\ at[k] = Len(c)
  BY <1>1, LenProperties DEF SpellsAt
<1>4. /\ c \o <<SUB>> \in Seq(Bytes) /\ Len(c \o <<SUB>>) = Len(c) + 1
      /\ \A i \in 1 .. at[k] : (c \o <<SUB>>)[i] = c[i]
      /\ (c \o <<SUB>>)[Len(c) + 1] = SUB
  BY <1>2, <1>3, ConcatProperties
<1>5. ASSUME NEW i \in 0 + 1 .. k
      PROVE  IF text /\ s[i] = LF
             THEN /\ at[i] = at[i - 1] + 2
                  /\ (c \o <<SUB>>)[at[i] - 1] = CR /\ (c \o <<SUB>>)[at[i]] = LF
             ELSE at[i] = at[i - 1] + 1 /\ (c \o <<SUB>>)[at[i]] = s[i]
  <2>1. /\ at[i] \in 1 .. at[k]
        /\ text /\ s[i] = LF => at[i] - 1 \in 1 .. at[k]
    <3>1. 0 \in Nat /\ 0 \in {0, 1}
      OBVIOUS
    <3>2. Within(c, s, k, text, at, i)
      BY <1>1, <3>1, SpellsInside
    <3>3. QED
      BY <3>2 DEF Within
  <2>2. QED
    BY <1>1, <1>4, <2>1 DEF SpellsAt
<1>6. SpellsAt(c \o <<SUB>>, s, 0, k, text, 1, at)
  BY <1>1, <1>3, <1>4, <1>5 DEF SpellsAt
<1>7. QED
  BY <1>6 DEF Spells

\* Without the form of its first byte
LEMMA SpellsDrop ==
  ASSUME NEW c \in Seq(Bytes), NEW rest \in Seq(Bytes), NEW s, NEW j \in Nat,
         NEW k \in Nat, j < k, NEW text \in BOOLEAN, NEW closed \in {0, 1},
         NEW at \in [j .. k -> Nat], SpellsAt(c, s, j, k, text, closed, at),
         Len(rest) = Len(c) - at[j + 1],
         \A n \in 1 .. Len(rest) : rest[n] = c[n + at[j + 1]]
  PROVE  Spells(rest, s, j + 1, k, text, closed)
<1> DEFINE d == at[j + 1]
           from == [i \in j + 1 .. k |-> at[i] - d]
<1>1. d \in Nat /\ at[k] \in Nat /\ j + 1 \in j .. k /\ k \in j .. k
  OBVIOUS
<1>2. \A i \in j + 1 .. k : at[i] \in Nat /\ at[i] >= d + (i - (j + 1))
  <2> TAKE i \in j + 1 .. k
  <2>1. i \in j .. k /\ j + 1 <= i
    OBVIOUS
  <2>2. QED
    BY <1>1, <2>1 DEF SpellsAt
<1> HIDE DEF d
<1>3. /\ from \in [j + 1 .. k -> Nat]
      /\ \A i \in j + 1 .. k : from[i] = at[i] - d
  BY <1>1, <1>2, SMTT(30)
<1> HIDE DEF from
<1>4. from[j + 1] = 0
  BY <1>1, <1>3 DEF d
<1>5. Len(c) = at[k] + closed /\ Len(c) \in Nat /\ Len(rest) \in Nat
  BY LenProperties DEF SpellsAt
<1>6. Len(rest) = from[k] + closed
  BY <1>1, <1>3, <1>5 DEF d
<1>7. closed = 1 => rest[Len(rest)] = SUB
  <2> SUFFICES ASSUME closed = 1 PROVE rest[Len(rest)] = SUB
    OBVIOUS
  <2>1. Len(rest) \in 1 .. Len(rest) /\ Len(rest) + d = Len(c)
    BY <1>1, <1>3, <1>5, <1>6, SMTT(30) DEF d
  <2>2. c[Len(c)] = SUB
    BY DEF SpellsAt
  <2>3. QED
    BY <2>1, <2>2 DEF d
<1>8. \A i, n \in j + 1 .. k : i <= n => from[n] >= from[i] + (n - i)
  <2> SUFFICES ASSUME NEW i \in j + 1 .. k, NEW n \in j + 1 .. k, i <= n
               PROVE  from[n] >= from[i] + (n - i)
    OBVIOUS
  <2>1. i \in j .. k /\ n \in j .. k
    OBVIOUS
  <2>2. at[n] >= at[i] + (n - i)
    BY <2>1 DEF SpellsAt
  <2>3. from[n] = at[n] - d /\ from[i] = at[i] - d /\ at[n] \in Nat /\ at[i] \in Nat
    BY <1>2, <1>3
  <2>4. QED
    BY <1>1, <2>2, <2>3, SMTT(30)
<1>9. ASSUME NEW i \in j + 1 + 1 .. k
      PROVE  IF text /\ s[i] = LF
             THEN from[i] = from[i - 1] + 2 /\ rest[from[i] - 1] = CR /\ rest[from[i]] = LF
             ELSE from[i] = from[i - 1] + 1 /\ rest[from[i]] = s[i]
  <2>1. /\ i \in j + 1 .. k /\ i - 1 \in j + 1 .. k
    OBVIOUS
  <2>2. Within(c, s, k, text, at, i)
    BY <2>1, SpellsInside
  <2>3. /\ from[i] = at[i] - d /\ from[i - 1] = at[i - 1] - d
        /\ at[i - 1] >= d /\ at[i] \in Nat /\ at[i - 1] \in Nat /\ at[i] <= at[k]
    <3>1. from[i] = at[i] - d /\ from[i - 1] = at[i - 1] - d
      BY <1>3, <2>1
    <3>2. /\ at[i] \in Nat /\ at[i - 1] \in Nat
          /\ at[i - 1] >= d + ((i - 1) - (j + 1))
      BY <1>2, <2>1
    <3>3. at[i - 1] >= d
      BY <1>1, <2>1, <3>2
    <3>4. at[i] <= at[k]
      BY <1>1, <2>2, <3>2 DEF Within
    <3>5. QED
      BY <3>1, <3>2, <3>3, <3>4
  <2>4. from[k] = at[k] - d /\ from[k] <= Len(rest)
    BY <1>1, <1>3, <1>6, <2>1, SMTT(30)
  <2>5. CASE text /\ s[i] = LF
    <3>1. at[i] = at[i - 1] + 2 /\ c[at[i] - 1] = CR /\ c[at[i]] = LF
      BY <2>1, <2>5 DEF SpellsAt
    <3>2. from[i] \in 1 .. Len(rest) /\ from[i] - 1 \in 1 .. Len(rest)
      <4>1. from[i] >= 2 /\ from[i] \in Nat /\ from[i] <= from[k]
        <5>1. from[i] = (at[i - 1] + 2) - d
          BY <2>3, <3>1
        <5>2. from[k] = at[k] - d
          BY <2>4
        <5>3. (at[i - 1] + 2) - d >= 2 /\ (at[i - 1] + 2) - d \in Nat
          <6>1. \A x, y \in Nat : x >= y => (x + 2) - y >= 2 /\ (x + 2) - y \in Nat
            OBVIOUS
          <6>2. at[i - 1] \in Nat /\ d \in Nat /\ at[i - 1] >= d
            BY <1>1, <2>3
          <6>3. QED
            BY <6>1, <6>2
        <5>4. (at[i - 1] + 2) - d <= at[k] - d
          BY <1>1, <2>3, <3>1, SMTT(30)
        <5>5. QED
          BY <5>1, <5>2, <5>3, <5>4, Zenon
      <4>2. from[k] \in Nat
        BY <1>3, <2>1
      <4>3. \A x, y, z \in Nat : x >= 2 /\ x <= y /\ y <= z => x \in 1 .. z /\ x - 1 \in 1 .. z
        OBVIOUS
      <4>4. QED
        BY <1>5, <2>4, <4>1, <4>2, <4>3, ZenonT(30)
    <3>3. from[i] + d = at[i] /\ (from[i] - 1) + d = at[i] - 1
      BY <1>1, <2>3, SMTT(30)
    <3>4. rest[from[i]] = LF /\ rest[from[i] - 1] = CR
      BY <3>1, <3>2, <3>3 DEF d
    <3>5. from[i] = from[i - 1] + 2
      BY <1>1, <2>3, <3>1, SMTT(30)
    <3>6. QED
      BY <2>5, <3>4, <3>5
  <2>6. CASE ~(text /\ s[i] = LF)
    <3>1. at[i] = at[i - 1] + 1 /\ c[at[i]] = s[i]
      BY <2>1, <2>6 DEF SpellsAt
    <3>2. from[i] \in 1 .. Len(rest)
      <4>1. \A x, y, z, e \in Nat :
              x >= e /\ x + 1 <= y /\ y - e <= z => (x + 1) - e \in 1 .. z
        OBVIOUS
      <4>2. /\ at[i - 1] \in Nat /\ at[k] \in Nat /\ Len(rest) \in Nat /\ d \in Nat
            /\ at[i - 1] >= d /\ at[i - 1] + 1 <= at[k] /\ at[k] - d <= Len(rest)
        BY <1>1, <1>5, <2>3, <2>4, <3>1, ZenonT(30)
      <4>3. from[i] = (at[i - 1] + 1) - d
        BY <2>3, <3>1, ZenonT(30)
      <4>4. (at[i - 1] + 1) - d \in 1 .. Len(rest)
        BY <4>1, <4>2
      <4>5. QED
        BY <4>3, <4>4
    <3>3. from[i] + d = at[i]
      BY <1>1, <2>3, SMTT(30)
    <3>4. rest[from[i]] = s[i]
      BY <3>1, <3>2, <3>3 DEF d
    <3>5. from[i] = from[i - 1] + 1
      BY <1>1, <2>3, <3>1
    <3>6. QED
      BY <2>6, <3>4, <3>5
  <2>7. QED
    BY <2>5, <2>6
<1>10. SpellsAt(rest, s, j + 1, k, text, closed, from)
  BY <1>4, <1>6, <1>7, <1>8, <1>9 DEF SpellsAt
<1>11. QED
  BY <1>3, <1>10 DEF Spells

\* The first byte that is spelled
LEMMA SpellsFirst ==
  ASSUME NEW c \in Seq(Bytes), NEW s, NEW j \in Nat, NEW k \in Nat, j < k,
         NEW text \in BOOLEAN, NEW closed \in {0, 1}, Spells(c, s, j, k, text, closed)
  PROVE  /\ c # <<>>
         /\ IF text /\ s[j + 1] = LF
            THEN /\ c[1] = CR /\ Tail(c) # <<>> /\ Tail(c)[1] = LF
                 /\ Spells(Tail(Tail(c)), s, j + 1, k, text, closed)
            ELSE c[1] = s[j + 1] /\ Spells(Tail(c), s, j + 1, k, text, closed)
<1>1. PICK at \in [j .. k -> Nat] : SpellsAt(c, s, j, k, text, closed, at)
  BY DEF Spells
<1>2. j + 1 \in j + 1 .. k /\ (j + 1) - 1 = j
  OBVIOUS
<1>3. Within(c, s, k, text, at, j + 1)
  BY <1>1, <1>2, SpellsInside
<1>4. at[j] = 0 /\ at[j + 1] \in 1 .. Len(c) /\ Len(c) \in Nat
  <2>1. at[j + 1] \in 1 .. at[k] /\ at[k] <= Len(c)
    BY <1>3 DEF Within
  <2>2. at[j] = 0
    BY <1>1 DEF SpellsAt
  <2>3. at[k] \in Nat /\ Len(c) \in Nat
    BY LenProperties
  <2>4. QED
    BY <2>1, <2>2, <2>3
<1>5. c # <<>>
  BY <1>4, EmptySeq
<1>6. /\ Tail(c) \in Seq(Bytes) /\ Len(Tail(c)) = Len(c) - 1
      /\ \A n \in 1 .. Len(Tail(c)) : Tail(c)[n] = c[n + 1]
  BY <1>5, HeadTailProperties
<1>7. CASE text /\ s[j + 1] = LF
  <2>1. at[j + 1] = 2 /\ c[1] = CR /\ c[2] = LF
    <3>1. at[j + 1] = at[j] + 2 /\ c[at[j + 1] - 1] = CR /\ c[at[j + 1]] = LF
      BY <1>1, <1>2, <1>7 DEF SpellsAt
    <3>2. QED
      BY <1>4, <3>1
  <2>2. Len(Tail(c)) \in Nat /\ Len(Tail(c)) >= 1
    BY <1>4, <1>6, <2>1
  <2>3. Tail(c) # <<>> /\ Tail(c)[1] = LF
    <3>1. Tail(c) # <<>>
      <4> SUFFICES ASSUME Tail(c) = <<>> PROVE FALSE
        OBVIOUS
      <4>1. Len(<<>>) >= 1
        BY <2>2, Zenon
      <4>2. QED
        BY <4>1
    <3>2. 1 \in 1 .. Len(Tail(c)) /\ 1 + 1 = 2
      BY <2>2
    <3>3. QED
      BY <1>6, <2>1, <3>1, <3>2
  <2>4. /\ Tail(Tail(c)) \in Seq(Bytes) /\ Len(Tail(Tail(c))) = Len(c) - 2
        /\ \A n \in 1 .. Len(Tail(Tail(c))) : Tail(Tail(c))[n] = Tail(c)[n + 1]
    BY <1>4, <1>6, <2>2, <2>3, HeadTailProperties
  <2>5. \A n \in 1 .. Len(Tail(Tail(c))) : Tail(Tail(c))[n] = c[n + 2]
    <3> TAKE n \in 1 .. Len(Tail(Tail(c)))
    <3>1. n + 1 \in 1 .. Len(Tail(c)) /\ (n + 1) + 1 = n + 2
      BY <1>4, <1>6, <2>2, <2>4
    <3>2. QED
      BY <1>6, <2>4, <3>1
  <2>6. Spells(Tail(Tail(c)), s, j + 1, k, text, closed)
    <3>1. /\ Len(Tail(Tail(c))) = Len(c) - at[j + 1]
          /\ \A n \in 1 .. Len(Tail(Tail(c))) : Tail(Tail(c))[n] = c[n + at[j + 1]]
      BY <2>1, <2>4, <2>5
    <3>2. QED
      BY <1>1, <2>4, <3>1, SpellsDrop, ZenonT(30)
  <2>7. QED
    BY <1>5, <1>7, <2>1, <2>3, <2>6
<1>8. CASE ~(text /\ s[j + 1] = LF)
  <2>1. at[j + 1] = 1 /\ c[1] = s[j + 1]
    <3>1. at[j + 1] = at[j] + 1 /\ c[at[j + 1]] = s[j + 1]
      BY <1>1, <1>2, <1>8 DEF SpellsAt
    <3>2. QED
      BY <1>4, <3>1
  <2>2. Spells(Tail(c), s, j + 1, k, text, closed)
    BY <1>1, <1>6, <2>1, SpellsDrop
  <2>3. QED
    BY <1>5, <1>8, <2>1, <2>2
<1>9. QED
  BY <1>7, <1>8

\* Nothing but the end is left.
LEMMA SpellsEnd ==
  ASSUME NEW c \in Seq(Bytes), NEW s, NEW k \in Nat, NEW text \in BOOLEAN,
         NEW closed \in {0, 1}, Spells(c, s, k, k, text, closed)
  PROVE  /\ closed = 1 => c # <<>> /\ c[1] = SUB
         /\ closed = 0 => c = <<>>
<1>1. PICK at \in [k .. k -> Nat] : SpellsAt(c, s, k, k, text, closed, at)
  BY DEF Spells
<1>2. Len(c) = closed /\ (closed = 1 => c[Len(c)] = SUB)
  BY <1>1 DEF SpellsAt
<1>3. QED
  BY <1>2, EmptySeq

Closed(text) == IF text THEN 1 ELSE 0

\* What is still to be read when k bytes have been written: with a pending
\* carriage return, either that is the next byte, or its line feed comes.
ToCome(c, s, k, text, cr) ==
  IF ~cr THEN Spells(c, s, k, Len(s), text, Closed(text))
  ELSE /\ text /\ k < Len(s)
       /\ \/ s[k + 1] = CR /\ Spells(c, s, k + 1, Len(s), text, Closed(text))
          \/ /\ s[k + 1] = LF /\ c # <<>> /\ c[1] = LF
             /\ Spells(Tail(c), s, k + 1, Len(s), text, Closed(text))

\* OutBytes
OutOf(text, cr, c) ==
  IF ~text THEN <<c>>
  ELSE IF cr THEN IF c = LF THEN <<LF>> ELSE <<CR>>
  ELSE IF c = CR THEN <<>> ELSE <<c>>

LEMMA NothingToCome ==
  ASSUME NEW s \in Seq(Bytes), NEW k \in 0 .. Len(s), NEW text \in BOOLEAN,
         NEW cr \in BOOLEAN, text => Convertible(s), ToCome(<<>>, s, k, text, cr)
  PROVE  k = Len(s)
<1> DEFINE n == Len(s)
<1>1. n \in Nat /\ k \in Nat /\ <<>> \in Seq(Bytes) /\ Closed(text) \in {0, 1}
  BY LenProperties, EmptySeq DEF Closed
<1>2. ASSUME NEW j \in Nat, j < n
      PROVE  ~Spells(<<>>, s, j, n, text, Closed(text))
  <2> HIDE DEF n
  <2> SUFFICES ASSUME Spells(<<>>, s, j, n, text, Closed(text)) PROVE FALSE
    OBVIOUS
  <2> DEFINE none == <<>>
  <2>1. none \in Seq(Bytes) /\ Spells(none, s, j, n, text, Closed(text))
    BY <1>1
  <2> HIDE DEF none
  <2>2. none # <<>>
    BY <1>1, <1>2, <2>1, SpellsFirst
  <2>3. QED
    BY <2>2 DEF none
<1>3. CASE ~cr
  BY <1>1, <1>2, <1>3 DEF ToCome
<1>4. CASE cr
  <2>1. text /\ k < n /\ s[k + 1] = CR /\ Spells(<<>>, s, k + 1, n, text, Closed(text))
    BY <1>4 DEF ToCome
  <2>2. k + 1 \in DOMAIN s /\ k + 1 \in Nat
    BY <1>1, <2>1, LenProperties
  <2>3. k + 1 < n
    BY <2>1, <2>2 DEF Convertible
  <2>4. QED
    BY <1>2, <2>1, <2>2, <2>3
<1>5. QED
  BY <1>3, <1>4

\* What one byte of the file makes of it
Outcome(c, s, k, text, cr) ==
  LET b == OutOf(text, cr, c[1])
  IN IF text /\ c[1] = SUB THEN k = Len(s)
     ELSE \/ b = <<>> /\ ToCome(Tail(c), s, k, text, text /\ c[1] = CR)
          \/ /\ k < Len(s) /\ b = <<s[k + 1]>>
             /\ ToCome(Tail(c), s, k + 1, text, text /\ c[1] = CR)

LEMMA OneByteOut ==
  ASSUME NEW c \in Seq(Bytes), c # <<>>, NEW s \in Seq(Bytes), NEW k \in 0 .. Len(s),
         NEW text \in BOOLEAN, NEW cr \in BOOLEAN, TextsAreFiles,
         text => Convertible(s), ToCome(c, s, k, text, cr)
  PROVE  Outcome(c, s, k, text, cr)
<1> DEFINE n == Len(s)
<1>1. /\ n \in Nat /\ k \in Nat /\ k + 1 \in Nat /\ Closed(text) \in {0, 1}
      /\ (Closed(text) = 1 <=> text) /\ (Closed(text) = 0 <=> ~text)
  BY LenProperties DEF Closed
<1>2. ASSUME text, NEW i \in 1 .. n
      PROVE  s[i] # SUB /\ (s[i] = CR => i < n /\ s[i + 1] \in {CR, LF})
  <2>1. i \in DOMAIN s
    BY <1>2, LenProperties
  <2>2. QED
    BY <1>2, <2>1 DEF Convertible
<1>3. CR # LF /\ SUB # CR /\ SUB # LF
  BY DEF TextsAreFiles
<1>4. k < n => k + 1 \in 1 .. n
  BY <1>1
<1> HIDE DEF n
<1>5. CASE ~cr /\ k = n
  <2>1. Spells(c, s, k, k, text, Closed(text))
    BY <1>5 DEF ToCome, n
  <2>2. c[1] = SUB /\ text
    BY <1>1, <2>1, SpellsEnd
  <2>3. QED
    BY <1>5, <2>2 DEF Outcome, n
<1>6. CASE ~cr /\ k < n
  <2>1. /\ IF text /\ s[k + 1] = LF
            THEN /\ c[1] = CR /\ Tail(c) # <<>> /\ Tail(c)[1] = LF
                 /\ Spells(Tail(Tail(c)), s, k + 1, n, text, Closed(text))
            ELSE c[1] = s[k + 1] /\ Spells(Tail(c), s, k + 1, n, text, Closed(text))
    BY <1>1, <1>6, SpellsFirst DEF ToCome, n
  <2>2. CASE text /\ s[k + 1] = LF
    <3>1. ToCome(Tail(c), s, k, text, TRUE)
      BY <1>6, <2>1, <2>2 DEF ToCome, n
    <3>2. OutOf(text, cr, c[1]) = <<>> /\ c[1] = CR
      BY <1>6, <2>1, <2>2 DEF OutOf
    <3>3. QED
      BY <1>3, <2>2, <3>1, <3>2 DEF Outcome
  <2>3. CASE text /\ s[k + 1] = CR
    <3>1. c[1] = CR /\ Spells(Tail(c), s, k + 1, n, text, Closed(text))
      BY <1>3, <2>1, <2>3
    <3>2. ToCome(Tail(c), s, k, text, TRUE)
      BY <1>6, <2>3, <3>1 DEF ToCome, n
    <3>3. OutOf(text, cr, c[1]) = <<>>
      BY <1>6, <2>3, <3>1 DEF OutOf
    <3>4. QED
      BY <1>3, <2>3, <3>1, <3>2, <3>3 DEF Outcome
  <2>4. CASE ~text \/ s[k + 1] \notin {CR, LF}
    <3>1. c[1] = s[k + 1] /\ Spells(Tail(c), s, k + 1, n, text, Closed(text))
      BY <2>1, <2>4
    <3>2. ~(text /\ c[1] = SUB) /\ ~(text /\ c[1] = CR)
      BY <1>2, <1>4, <1>6, <2>4, <3>1
    <3>3. OutOf(text, cr, c[1]) = <<s[k + 1]>>
      BY <1>6, <3>1, <3>2 DEF OutOf
    <3>4. ToCome(Tail(c), s, k + 1, text, text /\ c[1] = CR)
      BY <3>1, <3>2 DEF ToCome, n
    <3>5. QED
      BY <1>6, <3>2, <3>3, <3>4 DEF Outcome, n
  <2>5. QED
    BY <2>2, <2>3, <2>4
<1>7. CASE cr /\ s[k + 1] = CR /\ Spells(c, s, k + 1, n, text, Closed(text))
  <2>1. text /\ k < n
    BY <1>7 DEF ToCome, n
  <2>2. k + 1 < n /\ s[(k + 1) + 1] \in {CR, LF}
    BY <1>2, <1>4, <1>7, <2>1
  <2>3. IF text /\ s[(k + 1) + 1] = LF
        THEN /\ c[1] = CR /\ Tail(c) # <<>> /\ Tail(c)[1] = LF
             /\ Spells(Tail(Tail(c)), s, (k + 1) + 1, n, text, Closed(text))
        ELSE /\ c[1] = s[(k + 1) + 1]
             /\ Spells(Tail(c), s, (k + 1) + 1, n, text, Closed(text))
    BY <1>1, <1>7, <2>2, SpellsFirst, SMTT(30)
  <2>4. c[1] = CR
    BY <2>1, <2>2, <2>3
  <2>5. ToCome(Tail(c), s, k + 1, text, TRUE)
    BY <2>1, <2>2, <2>3 DEF ToCome, n
  <2>6. OutOf(text, cr, c[1]) = <<s[k + 1]>>
    BY <1>3, <1>7, <2>1, <2>4 DEF OutOf
  <2>7. QED
    BY <1>3, <2>1, <2>4, <2>5, <2>6 DEF Outcome, n
<1>8. CASE /\ cr /\ s[k + 1] = LF /\ c[1] = LF
           /\ Spells(Tail(c), s, k + 1, n, text, Closed(text))
  <2>1. text /\ k < n
    BY <1>8 DEF ToCome, n
  <2>2. ToCome(Tail(c), s, k + 1, text, text /\ c[1] = CR)
    BY <1>3, <1>8, <2>1 DEF ToCome, n
  <2>3. OutOf(text, cr, c[1]) = <<s[k + 1]>>
    BY <1>8, <2>1 DEF OutOf
  <2>4. QED
    BY <1>3, <1>8, <2>1, <2>2, <2>3 DEF Outcome, n
<1>9. CASE cr
  BY <1>7, <1>8, <1>9 DEF ToCome, n
<1>10. k = n \/ k < n
  BY <1>1 DEF n
<1>11. QED
  BY <1>5, <1>6, <1>9, <1>10

\* On the way in, k bytes have been read; on the way out, k have been written.
Taken(x, k) ==
  /\ Len(x.rest) = Len(x.source) - k
  /\ \A i \in 1 .. Len(x.rest) : x.rest[i] = x.source[i + k]
  /\ Spells(x.cpm \o x.round, x.source, 0, k, x.text, 0)

Returned(x, k) ==
  /\ Len(x.out) = k /\ \A i \in 1 .. k : x.out[i] = x.source[i]
  /\ ToCome(x.round \o x.cpm, x.source, k, x.text, x.cr)

Faithful(x) == x.text => Convertible(x.source)

TextShape(x) ==
  /\ {"phase", "text", "source", "rest", "round", "cpm", "out", "cr"} \subseteq DOMAIN x
  /\ x.phase \in {"in", "read", "out", "end", "failed"}
  /\ x.text \in BOOLEAN /\ x.cr \in BOOLEAN
  /\ x.source \in Seq(Bytes) /\ x.rest \in Seq(Bytes) /\ x.round \in Seq(Bytes)
  /\ x.cpm \in Seq(Bytes) /\ x.out \in Seq(Bytes)

TextOK(x) ==
  /\ TextShape(x)
  /\ x.phase = "in" => /\ x.out = <<>> /\ ~x.cr
                       /\ \E k \in 0 .. Len(x.source) : Taken(x, k)
  /\ x.phase \in {"read", "out"} /\ Faithful(x) =>
       \E k \in 0 .. Len(x.source) : Returned(x, k)
  /\ x.phase = "read" => x.round = <<>>
  /\ x.phase = "end" /\ Faithful(x) => x.out = x.source

TextInv == txt = NoText \/ TextOK(txt)

LEMMA TextBegins ==
  ASSUME TextsAreFiles, TextStart
  PROVE  TextOK(txt')
<1>1. PICK source \in HostTexts, text \in BOOLEAN :
        txt' = [phase |-> "in", text |-> text, source |-> source, rest |-> source,
                round |-> <<>>, cpm |-> <<>>, out |-> <<>>, cr |-> FALSE]
  BY DEF TextStart
<1>2. source \in Seq(Bytes) /\ Len(source) \in Nat /\ <<>> \in Seq(Bytes)
  BY LenProperties, EmptySeq DEF TextsAreFiles
<1>3. <<>> \o <<>> = <<>> /\ Len(<<>>) = 0
  BY <1>2, ConcatEmptySeq
<1> DEFINE at == [i \in 0 .. 0 |-> 0]
<1>4. at \in [0 .. 0 -> Nat] /\ \A i \in 0 .. 0 : at[i] = 0 /\ i = 0
  OBVIOUS
<1> HIDE DEF at
<1>5. SpellsAt(<<>>, source, 0, 0, text, 0, at)
  <2>1. at[0] = 0 /\ Len(<<>>) = at[0] + 0
    BY <1>3, <1>4
  <2>2. \A i, n \in 0 .. 0 : i <= n => at[n] >= at[i] + (n - i)
    BY <1>4
  <2>3. QED
    BY <2>1, <2>2 DEF SpellsAt
<1>6. Spells(<<>> \o <<>>, source, 0, 0, text, 0)
  BY <1>3, <1>4, <1>5 DEF Spells
<1>7. Taken(txt', 0)
  <2>1. Len(source) = Len(source) - 0 /\ \A i \in 1 .. Len(source) : i + 0 = i
    BY <1>2
  <2>2. QED
    BY <1>1, <1>6, <2>1 DEF Taken
<1>8. QED
  BY <1>1, <1>2, <1>7 DEF TextOK, TextShape

\* getc
LEMMA TextGetc ==
  ASSUME TextOK(txt), Getc
  PROVE  TextOK(txt')
<1> DEFINE form == InByte(Head(txt.rest))
<1>1. /\ TextShape(txt) /\ txt.phase = "in" /\ txt.rest # <<>> /\ txt.out = <<>> /\ ~txt.cr
      /\ txt' = [txt EXCEPT !.round = @ \o form, !.rest = Tail(@)]
  BY DEF Getc, AtEof, TextOK
<1>2. PICK k \in 0 .. Len(txt.source) : Taken(txt, k)
  BY <1>1 DEF TextOK
<1>3. /\ txt.source \in Seq(Bytes) /\ txt.rest \in Seq(Bytes) /\ txt.text \in BOOLEAN
      /\ txt.round \in Seq(Bytes) /\ txt.cpm \in Seq(Bytes)
      /\ Len(txt.source) \in Nat /\ Len(txt.rest) \in Nat \ {0}
  BY <1>1, LenProperties, EmptySeq DEF TextShape
<1>4. k \in Nat /\ k < Len(txt.source) /\ Len(txt.rest) = Len(txt.source) - k
  BY <1>2, <1>3 DEF Taken
<1>5. /\ Head(txt.rest) = txt.source[k + 1]
      /\ Tail(txt.rest) \in Seq(Bytes) /\ Len(Tail(txt.rest)) = Len(txt.source) - (k + 1)
      /\ \A i \in 1 .. Len(Tail(txt.rest)) : Tail(txt.rest)[i] = txt.source[i + (k + 1)]
  <2>1. txt.rest[1] = txt.source[1 + k] /\ Head(txt.rest) = txt.rest[1]
    BY <1>1, <1>2, <1>3 DEF Taken
  <2>2. /\ Tail(txt.rest) \in Seq(Bytes) /\ Len(Tail(txt.rest)) = Len(txt.rest) - 1
        /\ \A i \in 1 .. Len(Tail(txt.rest)) : Tail(txt.rest)[i] = txt.rest[i + 1]
    BY <1>1, <1>3, HeadTailProperties
  <2>3. ASSUME NEW i \in 1 .. Len(Tail(txt.rest))
        PROVE  Tail(txt.rest)[i] = txt.source[i + (k + 1)]
    <3>1. i + 1 \in 1 .. Len(txt.rest) /\ (i + 1) + k = i + (k + 1)
      BY <1>3, <1>4, <2>2
    <3>2. QED
      BY <1>2, <2>2, <3>1 DEF Taken
  <2>4. QED
    BY <1>3, <1>4, <2>1, <2>2, <2>3
<1>6. form \in Seq(Bytes)
  <2>1. txt.source[k + 1] \in Bytes /\ CR \in Bytes /\ LF \in Bytes
    BY <1>3, <1>4, ElementOfSeq DEF Bytes
  <2>2. QED
    BY <1>5, <2>1 DEF InByte
<1> HIDE DEF form
<1>7. Spells(txt.cpm \o (txt.round \o form), txt.source, 0, k + 1, txt.text, 0)
  <2>1. txt.cpm \o txt.round \in Seq(Bytes)
    BY <1>3, ConcatProperties
  <2>2. Spells((txt.cpm \o txt.round) \o form, txt.source, 0, k + 1, txt.text, 0)
    <3>1. Spells(txt.cpm \o txt.round, txt.source, 0, k, txt.text, 0)
      BY <1>2 DEF Taken
    <3>2. form = IF txt.text /\ txt.source[k + 1] = LF THEN <<CR, LF>>
                 ELSE <<txt.source[k + 1]>>
      BY <1>5 DEF InByte, form
    <3>3. QED
      BY <1>3, <1>4, <2>1, <3>1, <3>2, SpellsMore, ZenonT(30)
  <2>3. (txt.cpm \o txt.round) \o form = txt.cpm \o (txt.round \o form)
    <3>1. txt.cpm \in Seq(Bytes) /\ txt.round \in Seq(Bytes) /\ form \in Seq(Bytes)
      BY <1>3, <1>6
    <3>2. \A a, b, c \in Seq(Bytes) : (a \o b) \o c = a \o (b \o c)
      BY ConcatAssociative, SMTT(30)
    <3>3. QED
      BY <3>1, <3>2, Zenon
  <2>4. QED
    BY <2>2, <2>3
<1>8. txt.round \o form \in Seq(Bytes)
  BY <1>3, <1>6, ConcatProperties
<1>9. TextShape(txt')
  BY <1>1, <1>5, <1>8 DEF TextShape
<1>10. Taken(txt', k + 1)
  BY <1>1, <1>5, <1>7 DEF Taken, TextShape
<1>11. k + 1 \in 0 .. Len(txt.source) /\ txt'.source = txt.source
  BY <1>1, <1>3, <1>4 DEF TextShape
<1>12. txt'.phase = "in" /\ txt'.out = <<>> /\ ~txt'.cr
  BY <1>1 DEF TextShape
<1>13. QED
  BY <1>9, <1>10, <1>11, <1>12 DEF TextOK

\* A round is written, the last one with an end-of-file mark behind a text.
LEMMA TextWrites ==
  ASSUME TextOK(txt), WriteRound
  PROVE  TextOK(txt')
<1> DEFINE last == AtEof /\ Len(txt.round) < RoundIn
           mark == IF last /\ txt.text THEN <<SUB>> ELSE <<>>
           all == txt.cpm \o txt.round
<1>1. /\ TextShape(txt) /\ txt.phase = "in" /\ txt.out = <<>> /\ ~txt.cr
      /\ txt' = [txt EXCEPT !.cpm = all \o mark, !.round = <<>>,
                           !.phase = IF last THEN "read" ELSE "in"]
  BY DEF WriteRound, TextOK
<1>2. PICK k \in 0 .. Len(txt.source) : Taken(txt, k)
  BY <1>1 DEF TextOK
<1>3. /\ txt.source \in Seq(Bytes) /\ txt.rest \in Seq(Bytes) /\ txt.text \in BOOLEAN
      /\ txt.round \in Seq(Bytes) /\ txt.cpm \in Seq(Bytes)
      /\ Len(txt.source) \in Nat /\ <<>> \in Seq(Bytes)
  BY <1>1, LenProperties, EmptySeq DEF TextShape
<1>4. mark \in Seq(Bytes) /\ all \in Seq(Bytes)
  <2>1. mark \in Seq(Bytes)
    <3>1. SUB \in Bytes
      BY DEF Bytes
    <3>2. <<SUB>> \in Seq(Bytes)
      BY <3>1
    <3>3. QED
      BY <1>3, <3>2, Zenon
  <2>2. all \in Seq(Bytes)
    BY <1>3, ConcatProperties
  <2>3. QED
    BY <2>1, <2>2
<1>5. Spells(all, txt.source, 0, k, txt.text, 0)
  BY <1>2 DEF Taken
<1>6. last \in BOOLEAN
  OBVIOUS
<1> HIDE DEF all
<1>7. all \o mark \in Seq(Bytes) /\ (all \o mark) \o <<>> = all \o mark
      /\ <<>> \o (all \o mark) = all \o mark
  BY <1>3, <1>4, ConcatProperties, ConcatEmptySeq
<1>8. /\ TextShape(txt') /\ txt'.out = <<>> /\ ~txt'.cr /\ txt'.round = <<>>
      /\ txt'.cpm = all \o mark /\ txt'.source = txt.source /\ txt'.rest = txt.rest
      /\ txt'.text = txt.text
  BY <1>1, <1>3, <1>7 DEF TextShape
<1>9. CASE ~last
  <2>1. mark = <<>> /\ all \o <<>> = all
    BY <1>4, <1>9, ConcatEmptySeq
  <2>2. txt'.cpm \o txt'.round = all
    BY <1>7, <1>8, <2>1
  <2>3. Taken(txt', k)
    BY <1>2, <1>5, <1>8, <2>2 DEF Taken
  <2>4. txt'.phase = "in"
    BY <1>1, <1>9 DEF TextShape
  <2>5. QED
    BY <1>8, <2>3, <2>4 DEF TextOK
<1>10. CASE last
  <2>1. k = Len(txt.source)
    <3>1. Len(txt.rest) = 0
      BY <1>10, EmptySeq DEF AtEof
    <3>2. QED
      BY <1>2, <1>3, <3>1 DEF Taken
  <2>2. Spells(all \o mark, txt.source, 0, k, txt.text, Closed(txt.text))
    <3>1. CASE txt.text
      <4>1. mark = <<SUB>> /\ Closed(txt.text) = 1
        BY <1>10, <3>1 DEF Closed
      <4>2. k \in Nat
        BY <1>3
      <4>3. QED
        BY <1>3, <1>4, <1>5, <4>1, <4>2, SpellsClosed
    <3>2. CASE ~txt.text
      <4>1. mark = <<>> /\ Closed(txt.text) = 0 /\ all \o <<>> = all
        BY <1>4, <3>2, ConcatEmptySeq DEF Closed
      <4>2. QED
        BY <1>5, <4>1
    <3>3. QED
      BY <3>1, <3>2
  <2>3. ToCome(txt'.round \o txt'.cpm, txt.source, 0, txt.text, FALSE)
    BY <1>7, <1>8, <2>1, <2>2 DEF ToCome
  <2>4. Returned(txt', 0)
    <3>1. Len(txt'.out) = 0 /\ txt'.cr = FALSE
      BY <1>1, <1>8, EmptySeq DEF TextShape
    <3>2. \A i \in 1 .. 0 : txt'.out[i] = txt'.source[i]
      OBVIOUS
    <3>3. QED
      BY <1>8, <2>3, <3>1, <3>2 DEF Returned
  <2>5. txt'.phase = "read" /\ 0 \in 0 .. Len(txt'.source)
    BY <1>1, <1>3, <1>8, <1>10 DEF TextShape
  <2>6. QED
    BY <1>8, <2>4, <2>5 DEF TextOK
<1>11. QED
  BY <1>9, <1>10

\* Every byte has been written.
LEMMA TextComplete ==
  ASSUME NEW x, TextShape(x), Returned(x, Len(x.source))
  PROVE  x.out = x.source
<1>1. x.source \in Seq(Bytes) /\ x.out \in Seq(Bytes) /\ Len(x.source) \in Nat
  BY LenProperties DEF TextShape
<1>2. Len(x.out) = Len(x.source) /\ \A i \in 1 .. Len(x.out) : x.out[i] = x.source[i]
  BY DEF Returned
<1>3. QED
  BY <1>1, <1>2, SeqEqual

\* cpmRead
LEMMA TextReads ==
  ASSUME TextsAreFiles, TextOK(txt), Read
  PROVE  TextOK(txt')
<1> DEFINE n == IF Len(txt.cpm) < RoundOut THEN Len(txt.cpm) ELSE RoundOut
<1>1. /\ TextShape(txt) /\ txt.phase = "read" /\ txt.round = <<>>
      /\ txt' = [txt EXCEPT !.round = SubSeq(txt.cpm, 1, n),
                           !.cpm = SubSeq(@, n + 1, Len(@)),
                           !.phase = IF n = 0 THEN "end" ELSE "out"]
  BY DEF Read, TextOK
<1>2. /\ txt.cpm \in Seq(Bytes) /\ Len(txt.cpm) \in Nat /\ n \in 0 .. Len(txt.cpm)
      /\ n = 0 => Len(txt.cpm) = 0
  BY <1>1, LenProperties DEF TextShape, TextsAreFiles
<1> HIDE DEF n
<1>3. /\ SubSeq(txt.cpm, 1, n) \in Seq(Bytes)
      /\ SubSeq(txt.cpm, n + 1, Len(txt.cpm)) \in Seq(Bytes)
      /\ SubSeq(txt.cpm, 1, n) \o SubSeq(txt.cpm, n + 1, Len(txt.cpm)) = txt.cpm
  <2>1. \A i \in 1 .. Len(txt.cpm) : txt.cpm[i] \in Bytes
    BY <1>2, ElementOfSeq
  <2>2. SubSeq(txt.cpm, 1, n) \in Seq(Bytes)
    BY <1>2, <2>1, SubSeqProperties
  <2>3. SubSeq(txt.cpm, n + 1, Len(txt.cpm)) \in Seq(Bytes)
    BY <1>2, <2>1, SubSeqProperties
  <2>4. SubSeq(txt.cpm, 1, n) \o SubSeq(txt.cpm, n + 1, Len(txt.cpm))
          = SubSeq(txt.cpm, 1, Len(txt.cpm))
    <3>1. /\ 1 \in 1 .. Len(txt.cpm) + 1 /\ n \in 1 - 1 .. Len(txt.cpm)
          /\ Len(txt.cpm) \in n .. Len(txt.cpm)
      BY <1>2
    <3>2. QED
      BY <1>2, <3>1, ConcatAdjacentSubSeq
  <2>5. QED
    BY <1>2, <2>2, <2>3, <2>4, SubSeqFull
<1>4. /\ TextShape(txt') /\ txt'.source = txt.source /\ txt'.text = txt.text
      /\ txt'.out = txt.out /\ txt'.cr = txt.cr
      /\ txt'.round \o txt'.cpm = txt.cpm
      /\ txt'.phase = IF n = 0 THEN "end" ELSE "out"
  BY <1>1, <1>3 DEF TextShape
<1>5. txt.round \o txt.cpm = txt.cpm
  BY <1>1, <1>2, ConcatEmptySeq
<1>6. ASSUME Faithful(txt')
      PROVE  /\ \E k \in 0 .. Len(txt'.source) : Returned(txt', k)
             /\ n = 0 => txt'.out = txt'.source
  <2>1. PICK k \in 0 .. Len(txt.source) : Returned(txt, k)
    BY <1>1, <1>4, <1>6 DEF TextOK, Faithful
  <2>2. Returned(txt', k)
    BY <1>4, <1>5, <2>1 DEF Returned
  <2>3. ASSUME n = 0
        PROVE  txt'.out = txt'.source
    <3>1. txt.cpm = <<>>
      BY <1>2, <2>3, EmptySeq
    <3>2. k = Len(txt.source)
      <4>1. ToCome(<<>>, txt.source, k, txt.text, txt.cr)
        BY <1>5, <2>1, <3>1 DEF Returned
      <4>2. /\ txt.source \in Seq(Bytes) /\ txt.text \in BOOLEAN /\ txt.cr \in BOOLEAN
            /\ txt.text => Convertible(txt.source)
        BY <1>1, <1>4, <1>6 DEF TextShape, Faithful
      <4>3. QED
        BY <4>1, <4>2, NothingToCome
    <3>3. QED
      BY <1>4, <2>2, <3>2, TextComplete
  <2>4. QED
    BY <1>4, <2>1, <2>2, <2>3
<1>7. QED
  BY <1>4, <1>6 DEF TextOK

\* What is behind the first byte of two parts of a sequence.
LEMMA TailOfConcat ==
  ASSUME NEW S, NEW r \in Seq(S), NEW c \in Seq(S), r # <<>>
  PROVE  /\ r \o c \in Seq(S) /\ r \o c # <<>> /\ (r \o c)[1] = Head(r)
         /\ Tail(r) \in Seq(S) /\ Tail(r) \o c = Tail(r \o c)
<1>1. /\ Len(r) \in Nat /\ Len(c) \in Nat /\ 1 <= Len(r)
      /\ r \o c \in Seq(S) /\ Len(r \o c) = Len(r) + Len(c)
      /\ \A i \in 1 .. Len(r) + Len(c) :
           (r \o c)[i] = IF i <= Len(r) THEN r[i] ELSE c[i - Len(r)]
  BY ConcatProperties, LenProperties, EmptySeq
<1>2. r \o c # <<>>
  BY ConcatEqualIffEmpty
<1>3. r[1] = Head(r)
  OBVIOUS
<1>4. 1 \in 1 .. Len(r) + Len(c)
  BY <1>1
<1>5. (r \o c)[1] = r[1]
  BY <1>1, <1>4
<1>6. /\ Tail(r) \in Seq(S) /\ Len(Tail(r)) = Len(r) - 1
      /\ \A i \in 1 .. Len(Tail(r)) : Tail(r)[i] = r[i + 1]
  BY HeadTailProperties
<1>7. /\ Tail(r \o c) \in Seq(S) /\ Len(Tail(r \o c)) = Len(r \o c) - 1
      /\ \A i \in 1 .. Len(Tail(r \o c)) : Tail(r \o c)[i] = (r \o c)[i + 1]
  BY <1>1, <1>2, HeadTailProperties
<1>8. /\ Tail(r) \o c \in Seq(S) /\ Len(Tail(r) \o c) = Len(Tail(r)) + Len(c)
      /\ \A i \in 1 .. Len(Tail(r)) + Len(c) :
           (Tail(r) \o c)[i] = IF i <= Len(Tail(r)) THEN Tail(r)[i]
                               ELSE c[i - Len(Tail(r))]
  BY <1>6, ConcatProperties
<1> DEFINE all   == r \o c
           front == Tail(r)
           back  == Tail(r \o c)
           both  == Tail(r) \o c
<1> HIDE DEF all, front, back, both
<1>9. Len(both) = Len(back)
  <2>1. \A a, b, d, e, f \in Int :
          d = a - 1 /\ e = d + b /\ f = a + b => e = f - 1
    OBVIOUS
  <2>2. Len(both) = Len(front) + Len(c) /\ Len(back) = Len(all) - 1
    BY <1>7, <1>8 DEF both, back, front, all
  <2>3. Len(front) = Len(r) - 1 /\ Len(all) = Len(r) + Len(c)
    BY <1>1, <1>6 DEF front, all
  <2>4. Len(r) \in Int /\ Len(c) \in Int
    BY <1>1
  <2>5. QED
    BY <2>2, <2>3, <2>4
<1>10. ASSUME NEW i \in 1 .. Len(both)
       PROVE  both[i] = back[i]
  <2>1. Len(both) = (Len(r) - 1) + Len(c) /\ Len(front) = Len(r) - 1
    BY <1>6, <1>8 DEF both, front
  <2>2. i \in Int /\ 1 <= i /\ i <= (Len(r) - 1) + Len(c)
    BY <1>1, <2>1
  <2>3. i + 1 \in 1 .. Len(r) + Len(c) /\ i \in 1 .. Len(front) + Len(c)
    BY <1>1, <2>1, <2>2
  <2>4. both[i] = IF i <= Len(front) THEN front[i] ELSE c[i - Len(front)]
    BY <1>8, <2>3 DEF both, front
  <2>5. back[i] = all[i + 1]
    BY <1>7, <1>9 DEF back, all
  <2>6. all[i + 1] = IF i + 1 <= Len(r) THEN r[i + 1] ELSE c[(i + 1) - Len(r)]
    BY <1>1, <2>3 DEF all
  <2>7. CASE i + 1 <= Len(r)
    <3>1. i <= Len(front) /\ i \in 1 .. Len(front)
      BY <1>1, <2>1, <2>2, <2>7
    <3>2. front[i] = r[i + 1]
      BY <1>6, <3>1 DEF front
    <3>3. QED
      BY <2>4, <2>5, <2>6, <2>7, <3>1, <3>2
  <2>8. CASE i + 1 > Len(r)
    <3>1. i > Len(front) /\ i - Len(front) = (i + 1) - Len(r) /\ Len(front) \in Int
      BY <1>1, <2>1, <2>2, <2>8
    <3>2. both[i] = c[i - Len(front)]
      BY <2>2, <2>4, <3>1
    <3>3. all[i + 1] = c[(i + 1) - Len(r)]
      BY <1>1, <2>2, <2>6, <2>8
    <3>4. QED
      BY <2>5, <3>1, <3>2, <3>3
  <2>9. QED
    BY <1>1, <2>2, <2>7, <2>8
<1>11. both = back
  <2>1. both \in Seq(S) /\ back \in Seq(S)
    BY <1>7, <1>8 DEF both, back
  <2>2. QED
    BY <1>9, <1>10, <2>1, SeqEqual
<1>12. QED
  BY <1>1, <1>2, <1>3, <1>5, <1>6, <1>11 DEF both, back

\* A byte that is written belongs behind those that were.
LEMMA TextPuts ==
  ASSUME TextsAreFiles, TextOK(txt), Putc
  PROVE  TextOK(txt')
<1>1. TextShape(txt) /\ txt.phase = "out"
  BY DEF Putc, TextOK
<1>2. /\ txt.source \in Seq(Bytes) /\ txt.round \in Seq(Bytes) /\ txt.cpm \in Seq(Bytes)
      /\ txt.out \in Seq(Bytes) /\ txt.text \in BOOLEAN /\ txt.cr \in BOOLEAN
      /\ Len(txt.source) \in Nat
  BY <1>1, LenProperties DEF TextShape
<1>3. CASE txt.round = <<>>
  <2>1. txt' = [txt EXCEPT !.phase = "read"]
    BY <1>3 DEF Putc
  <2>2. TextShape(txt') /\ txt'.phase = "read" /\ txt'.round = <<>>
    BY <1>1, <1>3, <2>1 DEF TextShape
  <2>3. /\ txt'.source = txt.source /\ txt'.text = txt.text /\ txt'.cr = txt.cr
        /\ txt'.out = txt.out /\ txt'.cpm = txt.cpm /\ txt'.round = txt.round
    BY <1>1, <2>1 DEF TextShape
  <2>4. Faithful(txt') => \E k \in 0 .. Len(txt'.source) : Returned(txt', k)
    BY <1>1, <2>3 DEF TextOK, Faithful, Returned
  <2>5. QED
    BY <2>2, <2>4 DEF TextOK
<1>4. CASE txt.round # <<>>
  <2> DEFINE all == txt.round \o txt.cpm
             c == Head(txt.round)
  <2>1. all \in Seq(Bytes) /\ all # <<>> /\ c = all[1] /\ Tail(txt.round) \in Seq(Bytes)
        /\ Tail(txt.round) \o txt.cpm = Tail(all)
    <3>1. \A r, s \in Seq(Bytes) : r # <<>> =>
            /\ r \o s \in Seq(Bytes) /\ r \o s # <<>> /\ (r \o s)[1] = Head(r)
            /\ Tail(r) \in Seq(Bytes) /\ Tail(r) \o s = Tail(r \o s)
      BY TailOfConcat
    <3>2. QED
      BY <1>2, <1>4, <3>1, Zenon
  <2>2. ASSUME Faithful(txt)
        PROVE  \E k \in 0 .. Len(txt.source) :
                 Returned(txt, k) /\ Outcome(all, txt.source, k, txt.text, txt.cr)
    <3>1. PICK k \in 0 .. Len(txt.source) : Returned(txt, k)
      BY <1>1, <2>2 DEF TextOK
    <3>2. ToCome(all, txt.source, k, txt.text, txt.cr)
      BY <3>1 DEF Returned
    <3> HIDE DEF all
    <3>3. Outcome(all, txt.source, k, txt.text, txt.cr)
      BY <1>2, <2>1, <2>2, <3>2, OneByteOut DEF Faithful
    <3>4. QED
      BY <3>1, <3>3
  <2>3. CASE txt.text /\ c = SUB
    <3>1. txt' = [txt EXCEPT !.phase = "end"]
      BY <1>4, <2>3 DEF Putc
    <3>2. TextShape(txt') /\ txt'.phase = "end"
      BY <1>1, <3>1 DEF TextShape
    <3>3. txt'.source = txt.source /\ txt'.text = txt.text /\ txt'.out = txt.out
      BY <1>1, <3>1 DEF TextShape
    <3>4. ASSUME Faithful(txt')
          PROVE  txt'.out = txt'.source
      <4>1. PICK k \in 0 .. Len(txt.source) :
              Returned(txt, k) /\ Outcome(all, txt.source, k, txt.text, txt.cr)
        BY <2>2, <3>3, <3>4 DEF Faithful
      <4> HIDE DEF all, c
      <4>2. k = Len(txt.source)
        BY <2>1, <2>3, <4>1 DEF Outcome
      <4>3. QED
        BY <1>1, <3>3, <4>1, <4>2, TextComplete
    <3>5. QED
      BY <3>2, <3>4 DEF TextOK
  <2>4. CASE ~(txt.text /\ c = SUB)
    <3> DEFINE b == OutOf(txt.text, txt.cr, c)
    <3>1. txt' = [txt EXCEPT !.out = @ \o b, !.cr = txt.text /\ c = CR,
                             !.round = Tail(@)]
      BY <1>4, <2>4 DEF Putc, OutBytes, OutOf
    <3> HIDE DEF all
    <3>2. b \in Seq(Bytes)
      <4>1. CR \in Bytes /\ LF \in Bytes
        BY DEF Bytes
      <4>2. c \in Bytes
        BY <1>2, <1>4, HeadTailProperties
      <4> HIDE DEF c
      <4>3. QED
        BY <4>1, <4>2 DEF OutOf
    <3> HIDE DEF b, c
    <3>3. txt.out \o b \in Seq(Bytes)
      BY <1>2, <3>2, ConcatProperties
    <3>4. TextShape(txt')
      BY <1>1, <2>1, <3>1, <3>3 DEF TextShape
    <3>5. /\ txt'.phase = "out" /\ txt'.source = txt.source /\ txt'.text = txt.text
          /\ txt'.cr = (txt.text /\ c = CR) /\ txt'.out = txt.out \o b
          /\ txt'.cpm = txt.cpm /\ txt'.round = Tail(txt.round)
      BY <1>1, <3>1 DEF TextShape
    <3>6. ASSUME Faithful(txt')
          PROVE  \E k \in 0 .. Len(txt'.source) : Returned(txt', k)
      <4>1. PICK k \in 0 .. Len(txt.source) :
              Returned(txt, k) /\ Outcome(all, txt.source, k, txt.text, txt.cr)
        BY <2>2, <3>5, <3>6 DEF Faithful
      <4>2. Len(txt.out) = k /\ k \in Nat /\ \A i \in 1 .. k : txt.out[i] = txt.source[i]
        BY <1>2, <4>1 DEF Returned
      <4>3. \/ b = <<>> /\ ToCome(Tail(all), txt.source, k, txt.text, txt'.cr)
            \/ /\ k < Len(txt.source) /\ b = <<txt.source[k + 1]>>
               /\ ToCome(Tail(all), txt.source, k + 1, txt.text, txt'.cr)
        BY <2>1, <2>4, <3>5, <4>1 DEF Outcome, b
      <4>4. txt'.round \o txt'.cpm = Tail(all)
        BY <2>1, <3>5
      <4>5. CASE b = <<>> /\ ToCome(Tail(all), txt.source, k, txt.text, txt'.cr)
        <5>1. txt'.out = txt.out
          BY <1>2, <3>5, <4>5, ConcatEmptySeq
        <5>2. Returned(txt', k)
          BY <3>5, <4>2, <4>4, <4>5, <5>1 DEF Returned
        <5>3. QED
          BY <3>5, <5>2
      <4>6. CASE /\ k < Len(txt.source) /\ b = <<txt.source[k + 1]>>
                 /\ ToCome(Tail(all), txt.source, k + 1, txt.text, txt'.cr)
        <5>1. Len(b) = 1 /\ b[1] = txt.source[k + 1]
          BY <4>6
        <5>2. /\ Len(txt.out \o b) = Len(txt.out) + Len(b)
              /\ \A i \in 1 .. Len(txt.out) + Len(b) :
                   (txt.out \o b)[i] = IF i <= Len(txt.out) THEN txt.out[i]
                                       ELSE b[i - Len(txt.out)]
          BY <1>2, <3>2, ConcatProperties
        <5>3. Len(txt'.out) = k + 1
          BY <3>5, <4>2, <5>1, <5>2
        <5>4. ASSUME NEW i \in 1 .. k + 1
              PROVE  txt'.out[i] = txt.source[i]
          <6>1. CASE i <= k
            BY <3>5, <4>2, <5>1, <5>2, <6>1
          <6>2. CASE i = k + 1
            <7>1. /\ i \in 1 .. Len(txt.out) + Len(b) /\ i > Len(txt.out)
                  /\ Len(txt.out) \in Nat /\ i - Len(txt.out) = 1
              BY <4>2, <5>1, <6>2
            <7>2. (txt.out \o b)[i] = b[i - Len(txt.out)]
              BY <5>2, <7>1
            <7>3. QED
              BY <3>5, <5>1, <6>2, <7>1, <7>2
          <6>3. i <= k \/ i = k + 1
            BY <4>2
          <6>4. QED
            BY <6>1, <6>2, <6>3
        <5>5. Returned(txt', k + 1)
          BY <3>5, <4>4, <4>6, <5>3, <5>4 DEF Returned
        <5>6. k + 1 \in 0 .. Len(txt'.source)
          BY <1>2, <3>5, <4>2, <4>6
        <5>7. QED
          BY <5>5, <5>6
      <4>7. QED
        BY <4>3, <4>5, <4>6
    <3>7. QED
      BY <3>4, <3>5, <3>6 DEF TextOK
  <2>5. QED
    BY <2>3, <2>4
<1>5. QED
  BY <1>3, <1>4

\* A putc or a cpmRead that fails ends it.
LEMMA TextFails ==
  ASSUME TextOK(txt), OutFailed
  PROVE  TextOK(txt')
<1>1. TextShape(txt) /\ txt' = [txt EXCEPT !.phase = "failed"]
  BY DEF OutFailed, TextOK
<1>2. TextShape(txt') /\ txt'.phase = "failed"
  BY <1>1 DEF TextShape
<1>3. QED
  BY <1>2 DEF TextOK

LEMMA TextNext ==
  ASSUME TextsAreFiles, TextInv, [ReadersNext]_allvars
  PROVE  TextInv'
<1>1. CASE UNCHANGED txt
  BY <1>1 DEF TextInv, TextOK, TextShape, Taken, Returned, Faithful, NoText
<1>2. CASE TextStart
  BY <1>2, TextBegins DEF TextInv
<1>3. CASE TextStep
  <2>1. txt # NoText
    BY <1>3 DEF TextStep, Getc, WriteRound, Read, Putc, OutFailed, NoText
  <2>2. TextOK(txt)
    BY <2>1 DEF TextInv
  <2>3. CASE Getc
    BY <2>2, <2>3, TextGetc DEF TextInv
  <2>4. CASE WriteRound
    BY <2>2, <2>4, TextWrites DEF TextInv
  <2>5. CASE Read
    BY <2>2, <2>5, TextReads DEF TextInv
  <2>6. CASE Putc
    BY <2>2, <2>6, TextPuts DEF TextInv
  <2>7. CASE OutFailed
    BY <2>2, <2>7, TextFails DEF TextInv
  <2>8. QED
    BY <1>3, <2>3, <2>4, <2>5, <2>6, <2>7 DEF TextStep
<1>4. UNCHANGED txt \/ TextStart \/ TextStep
  BY DEF ReadersNext, Definition, Begin, Work, work, allvars
<1>5. QED
  BY <1>1, <1>2, <1>3, <1>4

\* A file comes back from CP/M as it went there, wherever the rounds of 2048
\* bytes and the buffers of 4096 cut it: in binary mode always, in text mode if
\* it has no SUB and every carriage return has a second one or a line feed
\* behind it.  What is still to come out is always the CP/M form of the bytes
\* that were not written yet, or the rest of a form whose carriage return is
\* pending. (cpmcp.c, main and cpmToUnix)
THEOREM TextComesBack ==
  ASSUME TextsAreFiles
  PROVE  ReadersSpec => []TextReturns
<1>1. ReadersInit => TextInv
  BY DEF ReadersInit, Idle, TextInv
<1>2. TextInv /\ [ReadersNext]_allvars => TextInv'
  BY TextNext
<1>3. TextInv => TextReturns
  <2>1. CASE txt = NoText
    BY <2>1 DEF NoText, TextReturns
  <2>2. CASE TextOK(txt)
    BY <2>2 DEF TextOK, TextReturns, Faithful
  <2>3. QED
    BY <2>1, <2>2 DEF TextInv
<1>4. QED
  BY <1>1, <1>2, <1>3, PTL DEF ReadersSpec

-----------------------------------------------------------------------------
(* The calendar, and time stamps                                            *)

\* A year is as long as cpmfs.c counts it.
LEMMA YearLong ==
  ASSUME NEW y \in Nat \ {0}
  PROVE  /\ YearDays(y) \in {365, 366}
         /\ NewYear(y) \in Int
         /\ NewYear(y + 1) = NewYear(y) + YearDays(y)
         /\ IsLeap(y) <=> YearDays(y) = 366
<1>1. Leaps(1977) \in Int /\ Leaps(y) \in Int /\ Leaps(y - 1) \in Int
  BY DEF Leaps
<1>2. /\ y % 4 = 0 => y \div 4 = (y - 1) \div 4 + 1
      /\ y % 4 # 0 => y \div 4 = (y - 1) \div 4
  BY DivNext
<1>3. /\ y % 100 = 0 => y \div 100 = (y - 1) \div 100 + 1
      /\ y % 100 # 0 => y \div 100 = (y - 1) \div 100
  BY DivNext
<1>4. /\ y % 400 = 0 => y \div 400 = (y - 1) \div 400 + 1
      /\ y % 400 # 0 => y \div 400 = (y - 1) \div 400
  BY DivNext
<1>5. /\ y % 400 = 0 => y % 100 = 0
      /\ y % 100 = 0 => y % 4 = 0
  OBVIOUS
<1>6. Leaps(y) - Leaps(y - 1) = YearDays(y) - 365
  BY <1>2, <1>3, <1>4, <1>5 DEF Leaps, YearDays
<1>7. YearDays(y) \in {365, 366}
  BY DEF YearDays
<1>8. /\ NewYear(y) = 365 * (y - 1978) + Leaps(y - 1) - Leaps(1977)
      /\ NewYear(y + 1) = 365 * (y - 1977) + Leaps(y) - Leaps(1977)
  <2>1. (y + 1) - 1 = y /\ (y + 1) - 1978 = y - 1977
    OBVIOUS
  <2>2. QED
    BY <2>1 DEF NewYear
<1>9. NewYear(y) \in Int /\ NewYear(y + 1) = NewYear(y) + YearDays(y)
  BY <1>1, <1>6, <1>7, <1>8
<1>10. QED
  BY <1>7, <1>9 DEF IsLeap

LEMMA YearsRise ==
  ASSUME NEW x \in Nat \ {0}, NEW y \in Nat \ {0}, x <= y
  PROVE  NewYear(x) <= NewYear(y)
<1> DEFINE a == x - 1
           b == y - 1
<1>1. a \in Nat /\ b \in Nat /\ a <= b
  OBVIOUS
<1>2. NewYear(x) = 365 * (a - 1977) + Leaps(a) - Leaps(1977)
  BY DEF NewYear
<1>3. NewYear(y) = 365 * (b - 1977) + Leaps(b) - Leaps(1977)
  BY DEF NewYear
<1> HIDE DEF a, b
<1>4. a \div 4 <= b \div 4 /\ a \div 400 <= b \div 400
  BY <1>1, DivMonotone
<1>5. b \div 100 <= a \div 100 + (b - a)
  BY <1>1
<1>6. Leaps(a) \in Int /\ Leaps(b) \in Int /\ Leaps(1977) \in Int
  BY <1>1 DEF Leaps
<1>7. Leaps(a) <= Leaps(b) + (b - a)
  BY <1>1, <1>4, <1>5 DEF Leaps
<1>8. QED
  BY <1>1, <1>2, <1>3, <1>6, <1>7

\* The days of a year
InYear(y, day) == NewYear(y) <= day /\ day < NewYear(y + 1)

StampYears == 1978 .. 2157
StampEnd   == NewYear(2158)

LEMMA FirstAndLast ==
  NewYear(1978) = 0 /\ StampEnd = 65744
BY DEF NewYear, Leaps, StampEnd

LEMMA DayNumbers ==
  ASSUME NEW day \in Nat, day <= 65535
  PROVE  day < StampEnd
<1>1. PICK end \in Int : end = 65744
  OBVIOUS
<1>2. day < end /\ end = StampEnd
  BY <1>1, FirstAndLast
<1>3. QED
  BY <1>2

LEMMA YearFound ==
  ASSUME NEW day \in Nat, day < StampEnd
  PROVE  /\ YearOf(day) \in StampYears
         /\ InYear(YearOf(day), day)
<1>1. \E y \in StampYears : InYear(y, day)
  <2> DEFINE S == {y \in Nat : y >= 1978 /\ day < NewYear(y + 1)}
  <2>1. 2157 \in S
    <3>1. 2157 + 1 = 2158
      OBVIOUS
    <3>2. QED
      BY <3>1 DEF StampEnd
  <2>2. PICK y \in S : \A x \in S : y <= x
    <3>1. S \in SUBSET Nat
      OBVIOUS
    <3> HIDE DEF S
    <3>2. QED
      BY <2>1, <3>1, LeastNumber
  <2>3. y \in 1978 .. 2157 /\ day < NewYear(y + 1)
    BY <2>1, <2>2
  <2>4. NewYear(y) <= day
    <3>1. CASE y = 1978
      <4>1. NewYear(y) = 0
        BY <3>1, FirstAndLast, SMT
      <4>2. QED
        BY <4>1, SMT
    <3>2. CASE y # 1978
      <4>1. y - 1 \in Nat \ {0} /\ y - 1 >= 1978 /\ (y - 1) + 1 = y /\ ~(y <= y - 1)
        BY <2>3, <3>2
      <4>2. ~(day < NewYear(y))
        BY <2>2, <4>1
      <4>3. NewYear(y) \in Int
        BY <2>3, YearLong
      <4>4. QED
        BY <4>2, <4>3
    <3>3. QED
      BY <3>1, <3>2
  <2>5. QED
    BY <2>3, <2>4 DEF InYear, StampYears
<1>2. YearOf(day) = CHOOSE y \in StampYears : InYear(y, day)
  BY DEF YearOf, InYear, StampYears
<1> DEFINE year == YearOf(day)
<1>3. year = CHOOSE y \in StampYears : InYear(y, day)
  BY <1>2
<1> HIDE DEF year
<1>4. year \in StampYears /\ InYear(year, day)
  BY <1>1, <1>3, Zenon
<1>5. QED
  BY <1>4 DEF year

\* Each day has one year.
LEMMA OneYear ==
  ASSUME NEW day \in Nat, NEW x \in StampYears, NEW y \in StampYears,
         InYear(x, day), InYear(y, day)
  PROVE  x = y
<1>1. x \in Nat \ {0} /\ y \in Nat \ {0} /\ x + 1 \in Nat \ {0} /\ y + 1 \in Nat \ {0}
  BY DEF StampYears
<1>2. /\ NewYear(x) \in Int /\ NewYear(y) \in Int
      /\ NewYear(x + 1) \in Int /\ NewYear(y + 1) \in Int
  BY <1>1, YearLong
<1>3. ~(x + 1 <= y)
  <2>1. x + 1 <= y => NewYear(x + 1) <= NewYear(y)
    BY <1>1, YearsRise
  <2>2. QED
    BY <1>2, <2>1 DEF InYear
<1>4. ~(y + 1 <= x)
  <2>1. y + 1 <= x => NewYear(y + 1) <= NewYear(x)
    BY <1>1, YearsRise
  <2>2. QED
    BY <1>2, <2>1 DEF InYear
<1>5. QED
  BY <1>1, <1>3, <1>4

\* Counting the days year by year gives those before the year.
LEMMA DaysCounted ==
  ASSUME NEW y \in 1978 .. 2160
  PROVE  DaysUpTo[y] = NewYear(y)
<1> DEFINE Counts(f) == f = [year \in 1978 .. 2160 |->
                               IF year = 1978 THEN 0 ELSE f[year - 1] + YearDays(year - 1)]
           news == [year \in 1978 .. 2160 |-> NewYear(year)]
<1>1. ASSUME NEW year \in 1978 .. 2160
      PROVE  NewYear(year) = IF year = 1978 THEN 0
                             ELSE NewYear(year - 1) + YearDays(year - 1)
  <2>1. CASE year = 1978
    BY <2>1, FirstAndLast
  <2>2. CASE year # 1978
    <3>1. year - 1 \in Nat \ {0} /\ (year - 1) + 1 = year
      BY <2>2
    <3>2. NewYear((year - 1) + 1) = NewYear(year - 1) + YearDays(year - 1)
      BY <3>1, YearLong
    <3>3. QED
      BY <2>2, <3>1, <3>2
  <2>3. QED
    BY <2>1, <2>2
<1>2. Counts(news)
  <2>1. \A year \in 1978 .. 2160 : year # 1978 => year - 1 \in 1978 .. 2160
    OBVIOUS
  <2>2. QED
    BY <1>1, <2>1
<1>3. Counts(DaysUpTo)
  <2> HIDE DEF news
  <2>1. \E f : Counts(f)
    BY <1>2
  <2>2. DaysUpTo = CHOOSE f : Counts(f)
    BY DEF DaysUpTo
  <2> HIDE DEF Counts
  <2>3. QED
    BY <2>1, <2>2
<1> DEFINE M == {m \in 0 .. 182 : DaysUpTo[1978 + m] = NewYear(1978 + m)}
<1>4. 0 \in M
  BY <1>3, FirstAndLast
<1>5. ASSUME NEW m \in 1 .. 182, m - 1 \in M
      PROVE  m \in M
  <2>1. 1978 + m \in 1978 .. 2160 /\ 1978 + m # 1978 /\ 1978 + (m - 1) = (1978 + m) - 1
    OBVIOUS
  <2>2. DaysUpTo[1978 + m] = DaysUpTo[(1978 + m) - 1] + YearDays((1978 + m) - 1)
    BY <1>3, <2>1
  <2>3. DaysUpTo[(1978 + m) - 1] = NewYear((1978 + m) - 1)
    BY <1>5, <2>1
  <2>4. DaysUpTo[1978 + m] = NewYear(1978 + m)
    BY <1>1, <2>1, <2>2, <2>3
  <2>5. QED
    BY <2>4
<1>6. y - 1978 \in 0 .. 182 /\ 1978 + (y - 1978) = y
  OBVIOUS
<1>7. \A m \in 0 .. 182 : m \in M
  <2> HIDE DEF M
  <2>1. QED
    BY <1>4, <1>5, Upwards
<1>8. QED
  BY <1>6, <1>7

\* The months of a year, which is a day longer from March on in leap years
LEMMA MonthStarts ==
  ASSUME NEW y \in Nat \ {0}
  PROVE  \E l \in {0, 1} :
           /\ l = YearDays(y) - 365
           /\ MonthStart(y, 1) = 0 /\ MonthStart(y, 2) = 31
           /\ MonthStart(y, 3) = 59 + l /\ MonthStart(y, 4) = 90 + l
           /\ MonthStart(y, 5) = 120 + l /\ MonthStart(y, 6) = 151 + l
           /\ MonthStart(y, 7) = 181 + l /\ MonthStart(y, 8) = 212 + l
           /\ MonthStart(y, 9) = 243 + l /\ MonthStart(y, 10) = 273 + l
           /\ MonthStart(y, 11) = 304 + l /\ MonthStart(y, 12) = 334 + l
<1> DEFINE l == IF IsLeap(y) THEN 1 ELSE 0
<1>1. l \in {0, 1} /\ l = YearDays(y) - 365
  BY YearLong
<1>2. \A m \in 1 .. 12 :
        MonthStart(y, m) =
          <<0, 31, 59, 90, 120, 151, 181, 212, 243, 273, 304, 334>>[m]
            + (IF m > 2 THEN l ELSE 0)
  <2>1. ASSUME NEW m \in 1 .. 12
        PROVE  (IF m > 2 /\ IsLeap(y) THEN 1 ELSE 0) = (IF m > 2 THEN l ELSE 0)
    OBVIOUS
  <2> HIDE DEF l
  <2>2. QED
    BY <2>1 DEF MonthStart
<1> HIDE DEF l
<1>3. QED
  BY <1>1, <1>2

MonthEnd(y, m) == IF m = 12 THEN YearDays(y) ELSE MonthStart(y, m + 1)

LEMMA MonthsRise ==
  ASSUME NEW y \in Nat \ {0}
  PROVE  /\ \A m \in 1 .. 12 :
              /\ MonthStart(y, m) \in Nat
              /\ MonthEnd(y, m) = MonthStart(y, m) + MonthDays(y, m)
              /\ MonthDays(y, m) \in 28 .. 31
         /\ \A x, m \in 1 .. 12 : x < m => MonthEnd(y, x) <= MonthStart(y, m)
<1>1. YearDays(y) \in {365, 366}
  BY YearLong
<1>2. PICK l \in {0, 1} :
           /\ l = YearDays(y) - 365
           /\ MonthStart(y, 1) = 0 /\ MonthStart(y, 2) = 31
           /\ MonthStart(y, 3) = 59 + l /\ MonthStart(y, 4) = 90 + l
           /\ MonthStart(y, 5) = 120 + l /\ MonthStart(y, 6) = 151 + l
           /\ MonthStart(y, 7) = 181 + l /\ MonthStart(y, 8) = 212 + l
           /\ MonthStart(y, 9) = 243 + l /\ MonthStart(y, 10) = 273 + l
           /\ MonthStart(y, 11) = 304 + l /\ MonthStart(y, 12) = 334 + l
  BY MonthStarts
<1>3. \A m \in 1 .. 12 : m = 1 \/ m = 2 \/ m = 3 \/ m = 4 \/ m = 5 \/ m = 6
                         \/ m = 7 \/ m = 8 \/ m = 9 \/ m = 10 \/ m = 11 \/ m = 12
  OBVIOUS
<1>4. /\ MonthDays(y, 2) = 28 + l
      /\ MonthDays(y, 1) = 31 /\ MonthDays(y, 3) = 31 /\ MonthDays(y, 4) = 30
      /\ MonthDays(y, 5) = 31 /\ MonthDays(y, 6) = 30 /\ MonthDays(y, 7) = 31
      /\ MonthDays(y, 8) = 31 /\ MonthDays(y, 9) = 30 /\ MonthDays(y, 10) = 31
      /\ MonthDays(y, 11) = 30 /\ MonthDays(y, 12) = 31
  BY <1>1, <1>2 DEF MonthDays
<1>5. ASSUME NEW m \in 1 .. 12
      PROVE  /\ MonthStart(y, m) \in Nat
             /\ MonthEnd(y, m) = MonthStart(y, m) + MonthDays(y, m)
             /\ MonthDays(y, m) \in 28 .. 31
  BY <1>1, <1>2, <1>3, <1>4 DEF MonthEnd
<1>6. ASSUME NEW x \in 1 .. 12, NEW m \in 1 .. 12, x <= m
      PROVE  MonthStart(y, x) <= MonthStart(y, m)
  BY <1>2, <1>3, <1>6
<1>7. ASSUME NEW x \in 1 .. 12, NEW m \in 1 .. 12, x < m
      PROVE  MonthEnd(y, x) <= MonthStart(y, m)
  <2>1. x + 1 \in 1 .. 12 /\ x + 1 <= m /\ x # 12
    BY <1>7
  <2>2. QED
    BY <1>6, <2>1 DEF MonthEnd
<1>8. QED
  BY <1>5, <1>7

\* Each day of a year has one month.
InMonth(y, m, yday) == MonthStart(y, m) <= yday /\ yday < MonthEnd(y, m)

LEMMA MonthFound ==
  ASSUME NEW y \in Nat \ {0}, NEW yday \in Nat, yday < YearDays(y)
  PROVE  /\ \E m \in 1 .. 12 : InMonth(y, m, yday)
         /\ \A x, m \in 1 .. 12 : InMonth(y, x, yday) /\ InMonth(y, m, yday) => x = m
<1>1. PICK m \in 1 .. 12 : InMonth(y, m, yday)
  <2> DEFINE S == {m \in Nat : m \in 1 .. 12 /\ yday < MonthEnd(y, m)}
  <2>1. 12 \in S
    BY DEF MonthEnd
  <2>2. S \in SUBSET Nat
    OBVIOUS
  <2>3. PICK m \in S : \A x \in S : m <= x
    <3> HIDE DEF S
    <3>1. QED
      BY <2>1, <2>2, LeastNumber
  <2>4. m \in 1 .. 12 /\ yday < MonthEnd(y, m)
    BY <2>3
  <2>5. MonthStart(y, m) <= yday
    <3>1. CASE m = 1
      BY <3>1, MonthStarts
    <3>2. CASE m # 1
      <4>1. m - 1 \in 1 .. 12 /\ m - 1 # 12 /\ (m - 1) + 1 = m
        BY <2>4, <3>2
      <4>2. ~(m <= m - 1)
        BY <2>4
      <4>3. m - 1 \notin S
        BY <2>3, <4>2
      <4>4. ~(yday < MonthEnd(y, m - 1))
        BY <4>1, <4>3
      <4>5. MonthEnd(y, m - 1) = MonthStart(y, m)
        BY <4>1 DEF MonthEnd
      <4>6. MonthStart(y, m) \in Nat
        BY <2>4, MonthsRise
      <4>7. QED
        BY <4>4, <4>5, <4>6
    <3>3. QED
      BY <3>1, <3>2
  <2>6. QED
    BY <2>4, <2>5 DEF InMonth
<1>2. ASSUME NEW x \in 1 .. 12, NEW z \in 1 .. 12, InMonth(y, x, yday), InMonth(y, z, yday)
      PROVE  x = z
  <2>1. \A a, b \in 1 .. 12 : InMonth(y, a, yday) /\ InMonth(y, b, yday) => ~(a < b)
    <3> SUFFICES ASSUME NEW a \in 1 .. 12, NEW b \in 1 .. 12, InMonth(y, a, yday),
                        InMonth(y, b, yday), a < b
                 PROVE  FALSE
      OBVIOUS
    <3>1. MonthEnd(y, a) <= MonthStart(y, b)
      BY MonthsRise
    <3>2. MonthStart(y, a) \in Nat /\ MonthStart(y, b) \in Nat
      BY MonthsRise
    <3>3. MonthEnd(y, a) \in Nat
      <4>1. MonthDays(y, a) \in Nat
        BY MonthsRise, SMTT(30)
      <4>2. MonthEnd(y, a) = MonthStart(y, a) + MonthDays(y, a)
        BY MonthsRise
      <4>3. QED
        BY <3>2, <4>1, <4>2
    <3>4. QED
      BY <3>1, <3>2, <3>3 DEF InMonth
  <2>2. QED
    BY <1>2, <2>1
<1>3. QED
  BY <1>1, <1>2

LEMMA BcdReturns ==
  ASSUME NEW x \in Nat, x <= 159
  PROVE  FromBcd(ToBcd(x)) = x
<1>1. x = 10 * (x \div 10) + (x % 10) /\ x \div 10 \in Nat /\ x % 10 \in 0 .. 9
  OBVIOUS
<1> DEFINE tens == x \div 10
           ones == x % 10
<1>2. tens % 16 = tens
  BY <1>1
<1> HIDE DEF tens, ones
<1>3. tens \in Nat /\ ones \in 0 .. 9 /\ x = 10 * tens + ones
  BY <1>1 DEF tens, ones
<1>4. ToBcd(x) = 16 * tens + ones
  BY <1>2, <1>3 DEF ToBcd, tens, ones
<1>5. ToBcd(x) \div 16 = tens /\ ToBcd(x) % 16 = ones
  BY <1>3, <1>4
<1>6. QED
  BY <1>2, <1>3, <1>5 DEF FromBcd

\* A time whose day has a number of sixteen bits, on the clock of the host
Moment(t) ==
  /\ t \in Int /\ Zone \in Int /\ t + Zone >= 0
  /\ (t + Zone + 60) \div Day <= 65534

LocalDay(t) == (t + Shift(t)) \div Day

LEMMA LocalTime ==
  ASSUME NEW t, Moment(t)
  PROVE  /\ Shift(t) \in {Zone, Zone + 60} /\ t + Shift(t) \in Nat
         /\ LocalDay(t) \in Nat /\ LocalDay(t) <= 65534
<1>1. Shift(t) \in {Zone, Zone + 60}
  BY DEF Shift
<1>2. t + Shift(t) \in Nat /\ t + Shift(t) <= t + Zone + 60 /\ t + Zone + 60 \in Nat
  BY <1>1 DEF Moment
<1>3. Day \in Nat \ {0}
  BY DEF Day
<1>4. LocalDay(t) \in Nat /\ LocalDay(t) <= (t + Zone + 60) \div Day
  <2>1. ASSUME NEW n \in Nat, NEW m \in Nat, n <= m
        PROVE  n \div Day \in Nat /\ m \div Day \in Nat /\ n \div Day <= m \div Day
    BY <1>3, <2>1, DivMonotone, DivParts
  <2>2. QED
    BY <1>2, <2>1 DEF LocalDay
<1>5. LocalDay(t) <= 65534
  <2>1. (t + Zone + 60) \div Day \in Nat
    BY <1>2, <1>3, DivParts
  <2>2. QED
    BY <1>4, <2>1 DEF Moment
<1>6. QED
  BY <1>1, <1>2, <1>4, <1>5

LEMMA ClockTime ==
  ASSUME NEW n \in Nat
  PROVE  /\ (n % Day) \div 60 \in 0 .. 23 /\ n % 60 \in 0 .. 59
         /\ n = (n \div Day) * Day + ((n % Day) \div 60) * 60 + (n % 60)
BY DEF Day

\* What localtime gives for a time
IsDate(tm, day) ==
  /\ tm.year \in StampYears /\ tm.year = YearOf(day)
  /\ tm.yday \in Nat /\ tm.yday < YearDays(tm.year)
  /\ day = NewYear(tm.year) + tm.yday
  /\ tm.month \in 1 .. 12 /\ InMonth(tm.year, tm.month, tm.yday)
  /\ tm.mday = tm.yday - MonthStart(tm.year, tm.month) + 1
  /\ tm.hour \in 0 .. 23 /\ tm.min \in 0 .. 59

LEMMA YearOfDate ==
  ASSUME NEW tm, NEW day, IsDate(tm, day)
  PROVE  tm.year \in StampYears /\ tm.year = YearOf(day)
BY Zenon DEF IsDate

LEMMA DateParts ==
  ASSUME NEW tm, NEW day, IsDate(tm, day)
  PROVE  /\ tm.yday \in Nat /\ day = NewYear(tm.year) + tm.yday
         /\ tm.month \in 1 .. 12 /\ InMonth(tm.year, tm.month, tm.yday)
         /\ tm.mday = tm.yday - MonthStart(tm.year, tm.month) + 1
         /\ tm.hour \in 0 .. 23 /\ tm.min \in 0 .. 59
BY Zenon DEF IsDate

LEMMA DateOf ==
  ASSUME NEW t, Moment(t)
  PROVE  /\ IsDate(Localtime(t), LocalDay(t))
         /\ t + Shift(t) = LocalDay(t) * Day + Localtime(t).hour * 60 + Localtime(t).min
<1> DEFINE local == t + Shift(t)
           year == YearOf(local \div Day)
           yday == local \div Day - NewYear(year)
           month == CHOOSE m \in 1 .. 12 :
                      /\ MonthStart(year, m) <= yday
                      /\ m < 12 => yday < MonthStart(year, m + 1)
<1>1. Localtime(t) = [year |-> year, yday |-> yday, month |-> month,
                      mday |-> yday - MonthStart(year, month) + 1,
                      hour |-> (local % Day) \div 60, min |-> local % 60]
  BY DEF Localtime
<1>2. local \in Nat /\ local \div Day = LocalDay(t)
  BY LocalTime DEF LocalDay
<1>3. LocalDay(t) \in Nat /\ LocalDay(t) < StampEnd
  BY LocalTime, DayNumbers
<1>4. year \in StampYears /\ InYear(year, LocalDay(t)) /\ year = YearOf(LocalDay(t))
  BY <1>2, <1>3, YearFound
<1>5. year \in Nat \ {0} /\ NewYear(year) \in Int
      /\ NewYear(year + 1) = NewYear(year) + YearDays(year) /\ YearDays(year) \in {365, 366}
  <2>1. year \in Nat \ {0}
    BY <1>4 DEF StampYears
  <2> HIDE DEF year
  <2>2. QED
    BY <2>1, YearLong
<1>6. yday = LocalDay(t) - NewYear(year)
  BY <1>2
<1> HIDE DEF year, yday
<1>7. /\ yday \in Nat /\ yday < YearDays(year)
      /\ LocalDay(t) = NewYear(year) + yday
  BY <1>3, <1>4, <1>5, <1>6 DEF InYear
<1>8. month \in 1 .. 12 /\ InMonth(year, month, yday)
  <2>1. ASSUME NEW m \in 1 .. 12
        PROVE  (/\ MonthStart(year, m) <= yday
                /\ m < 12 => yday < MonthStart(year, m + 1)) <=> InMonth(year, m, yday)
    <3>1. CASE m = 12
      BY <1>7, <3>1 DEF InMonth, MonthEnd
    <3>2. CASE m # 12
      BY <3>2 DEF InMonth, MonthEnd
    <3>3. QED
      BY <3>1, <3>2
  <2>2. \E m \in 1 .. 12 : /\ MonthStart(year, m) <= yday
                           /\ m < 12 => yday < MonthStart(year, m + 1)
    BY <1>5, <1>7, <2>1, MonthFound
  <2>3. /\ month \in 1 .. 12 /\ MonthStart(year, month) <= yday
        /\ month < 12 => yday < MonthStart(year, month + 1)
    BY <2>2
  <2> HIDE DEF month
  <2>4. QED
    BY <2>1, <2>3
<1>9. /\ (local % Day) \div 60 \in 0 .. 23 /\ local % 60 \in 0 .. 59
      /\ local = (local \div Day) * Day + ((local % Day) \div 60) * 60 + (local % 60)
  BY <1>2, ClockTime
<1> HIDE DEF month, local
<1> DEFINE tm == Localtime(t)
<1>10. /\ tm.year = year /\ tm.yday = yday /\ tm.month = month
       /\ tm.mday = yday - MonthStart(year, month) + 1
       /\ tm.hour = (local % Day) \div 60 /\ tm.min = local % 60
  BY <1>1
<1> HIDE DEF tm
<1>11. local = LocalDay(t) * Day + tm.hour * 60 + tm.min
  BY <1>2, <1>9, <1>10
<1>12. /\ tm.year \in StampYears /\ tm.year = YearOf(LocalDay(t))
       /\ tm.yday \in Nat /\ tm.yday < YearDays(tm.year)
       /\ LocalDay(t) = NewYear(tm.year) + tm.yday
  <2>1. year \in StampYears /\ year = YearOf(LocalDay(t))
    BY <1>4 DEF StampYears
  <2>2. yday \in Nat /\ yday < YearDays(year) /\ LocalDay(t) = NewYear(year) + yday
    BY <1>7
  <2>3. QED
    BY <1>10, <2>1, <2>2, Zenon
<1>13. /\ tm.month \in 1 .. 12 /\ InMonth(tm.year, tm.month, tm.yday)
       /\ tm.mday = tm.yday - MonthStart(tm.year, tm.month) + 1
  BY <1>8, <1>10
<1>14. tm.hour \in 0 .. 23 /\ tm.min \in 0 .. 59
  BY <1>9, <1>10
<1>15. t + Shift(t) = LocalDay(t) * Day + tm.hour * 60 + tm.min
  BY <1>11 DEF local
<1>16. IsDate(tm, LocalDay(t))
  BY <1>12, <1>13, <1>14, Zenon DEF IsDate
<1>17. QED
  BY <1>15, <1>16 DEF tm

\* The number of a day fits into two bytes.
LEMMA DaysReturn ==
  ASSUME NEW n \in Nat, n <= 65534
  PROVE  ((n + 1) % 256) + 256 * (((n + 1) \div 256) % 256) = n + 1
OBVIOUS

\* The year of a day that cpm2unix_time finds counting days from 1978 on
LEMMA YearCounted ==
  ASSUME NEW year \in StampYears, NEW yday \in Nat, yday < YearDays(year),
         NEW days, days = DaysUpTo[year] + yday + 1
  PROVE  year = CHOOSE y \in 1978 .. 2159 :
                  /\ days - DaysUpTo[y] <= YearDays(y)
                  /\ \A x \in 1978 .. y - 1 : days - DaysUpTo[x] > YearDays(x)
<1> DEFINE Counts(y) == /\ days - DaysUpTo[y] <= YearDays(y)
                      /\ \A x \in 1978 .. y - 1 : days - DaysUpTo[x] > YearDays(x)
<1>1. \A y \in 1978 .. 2159 : /\ DaysUpTo[y] = NewYear(y) /\ NewYear(y) \in Int
                              /\ NewYear(y + 1) = NewYear(y) + YearDays(y)
                              /\ YearDays(y) \in Int
  BY DaysCounted, YearLong, SMTT(30)
<1>2. year \in 1978 .. 2159
  BY DEF StampYears
<1>3. days = NewYear(year) + yday + 1 /\ days \in Int
  BY <1>1, <1>2
<1>4. Counts(year)
  <2>1. days - DaysUpTo[year] <= YearDays(year)
    BY <1>1, <1>2, <1>3
  <2>2. ASSUME NEW x \in 1978 .. year - 1
        PROVE  days - DaysUpTo[x] > YearDays(x)
    <3>1. x \in 1978 .. 2159 /\ x + 1 <= year /\ x + 1 \in Nat \ {0} /\ year \in Nat \ {0}
      BY <1>2
    <3>2. NewYear(x + 1) <= NewYear(year)
      BY <3>1, YearsRise
    <3>3. /\ DaysUpTo[x] = NewYear(x) /\ NewYear(x) \in Int /\ YearDays(x) \in Int
          /\ NewYear(x + 1) = NewYear(x) + YearDays(x) /\ NewYear(year) \in Int
      BY <1>1, <1>2, <3>1
    <3> HIDE DEF Counts
    <3>4. QED
      BY <1>3, <3>2, <3>3
  <2>3. QED
    BY <2>1, <2>2
<1>5. ASSUME NEW y \in 1978 .. 2159, Counts(y)
      PROVE  y = year
  <2>1. ~(y < year)
    <3>1. y < year => y \in 1978 .. year - 1
      BY <1>2
    <3>2. y < year => days - DaysUpTo[y] > YearDays(y)
      BY <1>4, <3>1
    <3>3. days - DaysUpTo[y] <= YearDays(y)
      BY <1>5
    <3>4. DaysUpTo[y] \in Int /\ YearDays(y) \in Int
      BY <1>1
    <3> HIDE DEF Counts
    <3>5. QED
      BY <1>3, <3>2, <3>3, <3>4
  <2>2. ~(year < y)
    <3>1. year < y => year \in 1978 .. y - 1
      BY <1>2
    <3>2. year < y => days - DaysUpTo[year] > YearDays(year)
      BY <1>5, <3>1
    <3>3. days - DaysUpTo[year] <= YearDays(year)
      BY <1>4
    <3>4. DaysUpTo[year] \in Int /\ YearDays(year) \in Int
      BY <1>1, <1>2
    <3> HIDE DEF Counts
    <3>5. QED
      BY <1>3, <3>2, <3>3, <3>4
  <2>3. QED
    BY <1>2, <2>1, <2>2
<1> HIDE DEF Counts
<1> DEFINE found == CHOOSE y \in 1978 .. 2159 : Counts(y)
<1>6. found \in 1978 .. 2159 /\ Counts(found)
  BY <1>2, <1>4, SMTT(30)
<1>7. found = year
  <2> HIDE DEF found
  <2>1. QED
    BY <1>5, <1>6
<1>8. QED
  BY <1>7 DEF found, Counts

\* The days that are left of a year when those of the months before are taken away
LEMMA MonthCounted ==
  ASSUME NEW year \in Nat \ {0}, NEW yday \in Nat, NEW left,
         \A m \in 1 .. 12 :
           left[m] = IF m = 1 THEN yday + 1 ELSE left[m - 1] - MonthDays(year, m - 1)
  PROVE  \A m \in 1 .. 12 : left[m] = yday + 1 - MonthStart(year, m)
<1> DEFINE M == {m \in 0 .. 11 : left[m + 1] = yday + 1 - MonthStart(year, m + 1)}
<1>1. 0 \in M
  <2>1. MonthStart(year, 0 + 1) = 0 /\ left[0 + 1] = yday + 1
    BY MonthStarts
  <2>2. QED
    BY <2>1
<1>2. ASSUME NEW m \in 1 .. 11, m - 1 \in M
      PROVE  m \in M
  <2>1. m \in 1 .. 12 /\ m # 12 /\ (m - 1) + 1 = m /\ (m + 1) - 1 = m
        /\ m + 1 \in 1 .. 12 /\ m + 1 # 1 /\ m \in 0 .. 11
    OBVIOUS
  <2>2. left[m + 1] = left[m] - MonthDays(year, m)
    BY <2>1
  <2>3. left[m] = yday + 1 - MonthStart(year, m)
    BY <1>2, <2>1
  <2>4. MonthEnd(year, m) = MonthStart(year, m) + MonthDays(year, m)
        /\ MonthStart(year, m) \in Nat /\ MonthDays(year, m) \in Int
    BY <2>1, MonthsRise
  <2>5. MonthEnd(year, m) = MonthStart(year, m + 1)
    BY <2>1 DEF MonthEnd
  <2>6. left[m + 1] = yday + 1 - MonthStart(year, m + 1)
    BY <2>2, <2>3, <2>4, <2>5
  <2>7. QED
    BY <2>1, <2>6
<1>3. ASSUME NEW m \in 1 .. 12
      PROVE  left[m] = yday + 1 - MonthStart(year, m)
  <2>1. 11 \in Nat
    OBVIOUS
  <2>2. \A k \in 0 .. 11 : k \in M
    <3> HIDE DEF M
    <3>1. QED
      BY <1>1, <1>2, <2>1, Upwards
  <2>3. m - 1 \in 0 .. 11 /\ (m - 1) + 1 = m
    OBVIOUS
  <2>4. QED
    BY <2>2, <2>3
<1>4. QED
  BY <1>3

\* The month that cpm2unix_time finds
LEMMA MonthLeft ==
  ASSUME NEW year \in Nat \ {0}, NEW yday \in Nat, NEW left, NEW month \in 1 .. 12,
         \A m \in 1 .. 12 : left[m] = yday + 1 - MonthStart(year, m),
         InMonth(year, month, yday)
  PROVE  month = CHOOSE m \in 1 .. 12 :
                   /\ left[m] <= MonthDays(year, m)
                   /\ \A x \in 1 .. m - 1 : left[x] > MonthDays(year, x)
<1> DEFINE Counts(m) == /\ left[m] <= MonthDays(year, m)
                      /\ \A x \in 1 .. m - 1 : left[x] > MonthDays(year, x)
<1>1. ASSUME NEW m \in 1 .. 12
      PROVE  /\ MonthStart(year, m) \in Nat /\ MonthDays(year, m) \in Int
             /\ left[m] \in Int
             /\ left[m] <= MonthDays(year, m) <=> yday < MonthEnd(year, m)
  <2>1. /\ MonthStart(year, m) \in Nat /\ MonthDays(year, m) \in Int
        /\ MonthEnd(year, m) = MonthStart(year, m) + MonthDays(year, m)
    BY MonthsRise, SMTT(30)
  <2>2. left[m] = yday + 1 - MonthStart(year, m)
    OBVIOUS
  <2>3. QED
    BY <2>1, <2>2
<1>2. Counts(month)
  <2>1. left[month] <= MonthDays(year, month)
    BY <1>1 DEF InMonth
  <2>2. ASSUME NEW x \in 1 .. month - 1
        PROVE  left[x] > MonthDays(year, x)
    <3>1. x \in 1 .. 12 /\ x < month
      OBVIOUS
    <3>2. MonthEnd(year, x) <= MonthStart(year, month)
      BY <3>1, MonthsRise
    <3>3. MonthEnd(year, x) \in Int /\ MonthStart(year, month) \in Nat
      BY <1>1, <3>1, MonthsRise
    <3>4. ~(yday < MonthEnd(year, x))
      BY <3>2, <3>3 DEF InMonth
    <3>5. QED
      BY <1>1, <3>1, <3>4
  <2>3. QED
    BY <2>1, <2>2
<1>3. ASSUME NEW m \in 1 .. 12, Counts(m)
      PROVE  m = month
  <2>1. ~(m < month)
    <3>1. m < month => m \in 1 .. month - 1
      OBVIOUS
    <3>2. m < month => left[m] > MonthDays(year, m)
      BY <1>2, <3>1
    <3>3. left[m] <= MonthDays(year, m)
      BY <1>3
    <3> HIDE DEF Counts
    <3>4. QED
      BY <1>1, <3>2, <3>3
  <2>2. ~(month < m)
    <3>1. month < m => month \in 1 .. m - 1
      OBVIOUS
    <3>2. month < m => left[month] > MonthDays(year, month)
      BY <1>3, <3>1
    <3>3. left[month] <= MonthDays(year, month)
      BY <1>2
    <3> HIDE DEF Counts
    <3>4. QED
      BY <1>1, <3>2, <3>3
  <2>3. QED
    BY <2>1, <2>2
<1> HIDE DEF Counts
<1> DEFINE found == CHOOSE m \in 1 .. 12 : Counts(m)
<1>4. found \in 1 .. 12 /\ Counts(found)
  BY <1>2
<1>5. found = month
  <2> HIDE DEF found
  <2>1. QED
    BY <1>3, <1>4
<1>6. QED
  BY <1>5 DEF found, Counts

LEMMA FieldReturns ==
  ASSUME NEW t, Moment(t), NEW f, \A i \in 1 .. 4 : f[i] = StampField(t)[i]
  PROVE  FieldTime(f, Shift(t)) = t
<1> DEFINE tm == Localtime(t)
           days == f[1] + 256 * f[2]
           year == CHOOSE y \in 1978 .. 2159 :
                     /\ days - DaysUpTo[y] <= YearDays(y)
                     /\ \A x \in 1978 .. y - 1 : days - DaysUpTo[x] > YearDays(x)
           left[m \in 1 .. 12] ==
             IF m = 1 THEN days - DaysUpTo[year] ELSE left[m - 1] - MonthDays(year, m - 1)
           month == CHOOSE m \in 1 .. 12 :
                      /\ left[m] <= MonthDays(year, m)
                      /\ \A x \in 1 .. m - 1 : left[x] > MonthDays(year, x)
<1>1. FieldTime(f, Shift(t)) =
        Utc(year, month, 1, FromBcd(f[3]), FromBcd(f[4])) + (left[month] - 1) * Day - Shift(t)
  BY DEF FieldTime
<1>2. IsDate(tm, LocalDay(t)) /\ t + Shift(t) = LocalDay(t) * Day + tm.hour * 60 + tm.min
  BY DateOf
<1>3. LocalDay(t) \in Nat /\ LocalDay(t) <= 65534 /\ Shift(t) \in Int /\ t \in Int
  BY LocalTime DEF Moment
<1>4. /\ tm.year \in StampYears /\ tm.year \in Nat \ {0} /\ tm.year \in 1978 .. 2160
      /\ tm.yday \in Nat /\ tm.yday < YearDays(tm.year)
      /\ LocalDay(t) = NewYear(tm.year) + tm.yday
      /\ tm.month \in 1 .. 12 /\ InMonth(tm.year, tm.month, tm.yday)
      /\ tm.hour \in 0 .. 23 /\ tm.min \in 0 .. 59
  BY <1>2, SMT DEF IsDate, StampYears
<1> DEFINE n == DaysUpTo[tm.year] + tm.yday + 1
<1>5. n = LocalDay(t) + 1
  BY <1>3, <1>4, DaysCounted
<1>6. StampField(t) = <<n % 256, (n \div 256) % 256, ToBcd(tm.hour), ToBcd(tm.min)>>
  BY DEF StampField
<1> HIDE DEF tm, n
<1>7. f[1] = n % 256 /\ f[2] = (n \div 256) % 256
      /\ f[3] = ToBcd(tm.hour) /\ f[4] = ToBcd(tm.min)
  BY <1>6
<1>8. days = n
  BY <1>3, <1>5, <1>7, DaysReturn
<1>9. FromBcd(f[3]) = tm.hour /\ FromBcd(f[4]) = tm.min
  BY <1>4, <1>7, BcdReturns
<1> HIDE DEF days
<1>10. year = tm.year
  <2> DEFINE y0 == tm.year
             yday == tm.yday
  <2>1. y0 \in StampYears /\ yday \in Nat /\ yday < YearDays(y0)
    BY <1>4
  <2>2. days = DaysUpTo[y0] + yday + 1
    BY <1>8 DEF n
  <2> HIDE DEF y0, yday
  <2>3. y0 = CHOOSE y \in 1978 .. 2159 :
               /\ days - DaysUpTo[y] <= YearDays(y)
               /\ \A x \in 1978 .. y - 1 : days - DaysUpTo[x] > YearDays(x)
    BY ONLY <2>1, <2>2, YearCounted
  <2>4. QED
    BY <2>3, Zenon DEF y0
<1>11. days - DaysUpTo[tm.year] = tm.yday + 1 /\ NewYear(tm.year) \in Int
  BY <1>3, <1>4, <1>5, <1>8, DaysCounted, YearLong
<1> HIDE DEF year
<1>12. \A m \in 1 .. 12 : left[m] = tm.yday + 1 - MonthStart(tm.year, m)
  <2> DEFINE Left(g) == g = [m \in 1 .. 12 |->
                               IF m = 1 THEN days - DaysUpTo[year]
                               ELSE g[m - 1] - MonthDays(year, m - 1)]
             rest == [m \in 1 .. 12 |-> tm.yday + 1 - MonthStart(tm.year, m)]
  <2>1. Left(rest)
    <3>1. ASSUME NEW m \in 1 .. 12
          PROVE  tm.yday + 1 - MonthStart(tm.year, m) =
                   IF m = 1 THEN tm.yday + 1
                   ELSE (tm.yday + 1 - MonthStart(tm.year, m - 1)) - MonthDays(tm.year, m - 1)
      <4>1. CASE m = 1
        BY <1>4, <4>1, MonthStarts
      <4>2. CASE m # 1
        <5>1. m - 1 \in 1 .. 12 /\ m - 1 # 12 /\ (m - 1) + 1 = m
          BY <4>2
        <5>2. /\ MonthEnd(tm.year, m - 1) = MonthStart(tm.year, m - 1) + MonthDays(tm.year, m - 1)
              /\ MonthStart(tm.year, m - 1) \in Nat /\ MonthDays(tm.year, m - 1) \in Int
          BY <1>4, <5>1, MonthsRise, SMTT(30)
        <5>3. MonthEnd(tm.year, m - 1) = MonthStart(tm.year, m)
          BY <5>1 DEF MonthEnd
        <5>4. QED
          BY <1>4, <4>2, <5>2, <5>3
      <4>3. QED
        BY <4>1, <4>2
    <3>2. \A m \in 1 .. 12 : m # 1 => m - 1 \in 1 .. 12
      OBVIOUS
    <3>3. days - DaysUpTo[year] = tm.yday + 1
      BY <1>10, <1>11
    <3>4. QED
      BY <1>10, <3>1, <3>2, <3>3
  <2>2. Left(left)
    <3> HIDE DEF rest
    <3>1. \E g : Left(g)
      BY <2>1
    <3>2. left = CHOOSE g : Left(g)
      OBVIOUS
    <3> HIDE DEF Left, left
    <3>3. QED
      BY <3>1, <3>2
  <2> HIDE DEF left
  <2>3. \A m \in 1 .. 12 :
          left[m] = IF m = 1 THEN tm.yday + 1 ELSE left[m - 1] - MonthDays(tm.year, m - 1)
    BY <1>10, <1>11, <2>2
  <2> DEFINE y == tm.year
             yday == tm.yday
  <2>4. y \in Nat \ {0} /\ yday \in Nat
    BY <1>4
  <2>5. \A m \in 1 .. 12 :
          left[m] = IF m = 1 THEN yday + 1 ELSE left[m - 1] - MonthDays(y, m - 1)
    BY <2>3
  <2> HIDE DEF y, yday
  <2>6. \A m \in 1 .. 12 : left[m] = yday + 1 - MonthStart(y, m)
    BY <2>4, <2>5, MonthCounted
  <2>7. QED
    BY <2>6 DEF y, yday
<1> HIDE DEF left
<1>13. month = tm.month
  <2> DEFINE found == CHOOSE m \in 1 .. 12 :
                        /\ left[m] <= MonthDays(tm.year, m)
                        /\ \A x \in 1 .. m - 1 : left[x] > MonthDays(tm.year, x)
  <2>1. month = found
    BY <1>10, Zenon
  <2>2. found = tm.month
    <3> DEFINE y == tm.year
               yday == tm.yday
               m0 == tm.month
    <3>1. y \in Nat \ {0} /\ yday \in Nat /\ m0 \in 1 .. 12 /\ InMonth(y, m0, yday)
      BY <1>4
    <3>2. \A m \in 1 .. 12 : left[m] = yday + 1 - MonthStart(y, m)
      BY <1>12
    <3> HIDE DEF y, yday, m0
    <3>3. m0 = CHOOSE m \in 1 .. 12 :
                 /\ left[m] <= MonthDays(y, m)
                 /\ \A x \in 1 .. m - 1 : left[x] > MonthDays(y, x)
      BY <3>1, <3>2, MonthLeft
    <3>4. QED
      BY <3>3, Zenon DEF y, m0
  <2>3. QED
    BY <2>1, <2>2, Zenon
<1> HIDE DEF month
<1>14. left[month] - 1 = tm.yday - MonthStart(tm.year, tm.month)
       /\ MonthStart(tm.year, tm.month) \in Nat
  BY <1>4, <1>12, <1>13, MonthsRise
<1>15. FieldTime(f, Shift(t)) =
         Utc(tm.year, tm.month, 1, tm.hour, tm.min)
           + (tm.yday - MonthStart(tm.year, tm.month)) * Day - Shift(t)
  BY <1>1, <1>9, <1>10, <1>13, <1>14
<1>16. Utc(tm.year, tm.month, 1, tm.hour, tm.min)
         = (NewYear(tm.year) + MonthStart(tm.year, tm.month)) * Day + tm.hour * 60 + tm.min
  BY <1>4, <1>11, <1>14 DEF Utc
<1>17. FieldTime(f, Shift(t)) = LocalDay(t) * Day + tm.hour * 60 + tm.min - Shift(t)
  <2>1. QED
    <3> DEFINE a == NewYear(tm.year)
               b == MonthStart(tm.year, tm.month)
               c == tm.yday
               h == tm.hour
               m == tm.min
               z == Shift(t)
               r == FieldTime(f, Shift(t))
    <3>1. a \in Int /\ b \in Int /\ c \in Int /\ h \in Int /\ m \in Int /\ z \in Int
      BY <1>3, <1>4, <1>11, <1>14
    <3>2. r = (a + b) * Day + h * 60 + m + (c - b) * Day - z
      BY <1>15, <1>16, Zenon
    <3>3. LocalDay(t) = a + c
      BY <1>4
    <3>4. SUFFICES r = LocalDay(t) * Day + h * 60 + m - z
      OBVIOUS
    <3> HIDE DEF a, b, c, h, m, z, r
    <3>5. QED
      BY <3>1, <3>2, <3>3 DEF Day
<1>18. QED
  <2>1. Day \in Nat
    BY DEF Day
  <2>2. QED
    BY <1>2, <1>3, <1>4, <1>17, <2>1, SMTT(30)

\* The hour that comes twice, when clocks are set back from summer time
Twice(t) == LET day == (t + Zone) \div Day
            IN day - NewYear(YearOf(day)) = 299 /\ (t + Zone) % Day >= Day - 60

\* In any other hour the date tells whether it is summer.
LEMMA SummerHolds ==
  ASSUME NEW t, Moment(t), ~Twice(t)
  PROVE  Shift(t) = IF Summer(Localtime(t).yday) THEN Zone + 60 ELSE Zone
<1> DEFINE w == t + Zone
           day == w \div Day
           year == YearOf(day)
           yday == day - NewYear(year)
           tm == Localtime(t)
<1>1. w \in Nat /\ Zone \in Int /\ t \in Int /\ Day \in Nat \ {0}
  BY DEF Moment, Day
<1>2. Shift(t) = IF Summer(yday) THEN Zone + 60 ELSE Zone
  BY DEF Shift
<1>3. day \in Nat /\ day < StampEnd
  <2>1. day \in Nat /\ (w + 60) \div Day \in Nat /\ day <= (w + 60) \div Day
    <3>1. w + 60 \in Nat /\ w <= w + 60
      BY <1>1
    <3> HIDE DEF w
    <3>2. QED
      BY <1>1, <3>1, DivMonotone, DivParts
  <2>2. (w + 60) \div Day <= 65534
    BY DEF Moment
  <2> HIDE DEF w, day
  <2>3. QED
    BY <2>1, <2>2, DayNumbers
<1>4. year \in StampYears /\ InYear(year, day)
  <2> HIDE DEF day
  <2>1. QED
    BY <1>3, YearFound
<1>5. NewYear(year) \in Int /\ NewYear(year + 1) = NewYear(year) + YearDays(year)
      /\ YearDays(year) \in {365, 366}
  <2>1. year \in Nat \ {0}
    BY <1>4 DEF StampYears
  <2> HIDE DEF year
  <2>2. QED
    BY <2>1, YearLong
<1>6. LocalDay(t) \in Nat /\ LocalDay(t) < StampEnd /\ tm.yday = LocalDay(t) - NewYear(YearOf(LocalDay(t)))
  <2>1. LocalDay(t) \in Nat /\ LocalDay(t) <= 65534
    BY LocalTime
  <2>2. /\ tm.year \in StampYears /\ tm.year = YearOf(LocalDay(t)) /\ tm.yday \in Nat
        /\ LocalDay(t) = NewYear(tm.year) + tm.yday
    BY DateOf, Zenon DEF IsDate
  <2>3. NewYear(tm.year) \in Int
    BY <2>2, YearLong DEF StampYears
  <2> HIDE DEF tm
  <2>4. QED
    BY <2>1, <2>2, <2>3, DayNumbers
<1>7. CASE LocalDay(t) = day
  BY <1>2, <1>6, <1>7
<1>8. CASE LocalDay(t) # day
  <2>1. Summer(yday)
    <3>1. ~Summer(yday) => LocalDay(t) = day
      BY <1>2 DEF LocalDay
    <3>2. QED
      BY <1>8, <3>1
  <2>2. LocalDay(t) = (w + 60) \div Day
    <3>1. t + (Zone + 60) = w + 60
      BY <1>1
    <3>2. QED
      BY <1>2, <2>1, <3>1 DEF LocalDay
  <2>3. w % Day >= Day - 60 /\ (w + 60) \div Day = day + 1
    <3>1. ASSUME NEW k \in Nat, (k + 60) \div Day # k \div Day
          PROVE  k % Day >= Day - 60 /\ (k + 60) \div Day = k \div Day + 1
      BY <3>1 DEF Day
    <3>2. (w + 60) \div Day # w \div Day
      BY <1>8, <2>2
    <3> HIDE DEF w
    <3>3. QED
      BY <1>1, <3>1, <3>2
  <2>4. yday # 299
    BY <2>3 DEF Twice
  <2> HIDE DEF w, day, year, tm
  <2>5. yday \in 90 .. 298
    BY <1>3, <1>5, <2>1, <2>4 DEF Summer
  <2>6. InYear(year, day + 1)
    BY <1>3, <1>4, <1>5, <2>5 DEF InYear, yday
  <2>7. YearOf(day + 1) = year
    <3>1. day + 1 \in Nat /\ day + 1 < StampEnd
      BY <1>6, <2>2, <2>3
    <3> DEFINE next == day + 1
    <3> DEFINE other == YearOf(next)
    <3>2. next \in Nat /\ next < StampEnd /\ InYear(year, next)
      BY <2>6, <3>1
    <3> HIDE DEF next
    <3>3. other \in StampYears /\ InYear(other, next)
      BY <3>2, YearFound
    <3> HIDE DEF other
    <3>4. other = year
      BY <1>4, <3>2, <3>3, OneYear
    <3>5. QED
      BY <3>4 DEF next, other
  <2>8. tm.yday = (day + 1) - NewYear(year)
    BY <1>6, <2>2, <2>3, <2>7
  <2>9. tm.yday \in 91 .. 299
    BY <1>3, <1>5, <2>5, <2>8
  <2>10. Summer(tm.yday)
    BY <2>9 DEF Summer
  <2>11. QED
    BY <1>2, <2>1, <2>10 DEF tm
<1>9. QED
  BY <1>7, <1>8

\* A DateStamper stamp gives back the time.
LEMMA DsReturns ==
  ASSUME NEW t, Moment(t), ~Twice(t), Localtime(t).year <= 2069
  PROVE  DsTime(DsField(t)) = t
<1> DEFINE tm == Localtime(t)
           yr == IF tm.year > 2000 THEN tm.year - 2000 ELSE tm.year - 1900
           start == MonthStart(tm.year, tm.month)
<1>1. DsField(t) = <<ToBcd(yr), ToBcd(tm.month), ToBcd(tm.mday), ToBcd(tm.hour), ToBcd(tm.min)>>
  BY DEF DsField
<1>2. IsDate(tm, LocalDay(t)) /\ t + Shift(t) = LocalDay(t) * Day + tm.hour * 60 + tm.min
  BY DateOf
<1>3. LocalDay(t) \in Nat /\ Shift(t) \in Int /\ t \in Int
  BY LocalTime DEF Moment
<1>4. Shift(t) = IF Summer(tm.yday) THEN Zone + 60 ELSE Zone
  BY SummerHolds
<1> DEFINE n == LocalDay(t)
<1>5. tm.year <= 2069
  OBVIOUS
<1> HIDE DEF tm, n
<1>6. /\ tm.year \in 1978 .. 2157 /\ tm.year \in Nat \ {0} /\ tm.yday \in Nat
      /\ n = NewYear(tm.year) + tm.yday
      /\ tm.month \in 1 .. 12 /\ InMonth(tm.year, tm.month, tm.yday)
      /\ tm.mday = tm.yday - start + 1
      /\ tm.hour \in 0 .. 23 /\ tm.min \in 0 .. 59
  <2>1. /\ tm.year \in StampYears /\ tm.yday \in Nat
        /\ n = NewYear(tm.year) + tm.yday
        /\ tm.month \in 1 .. 12 /\ InMonth(tm.year, tm.month, tm.yday)
        /\ tm.mday = tm.yday - start + 1
        /\ tm.hour \in 0 .. 23 /\ tm.min \in 0 .. 59
    BY <1>2, YearOfDate, DateParts DEF n
  <2>2. tm.year \in 1978 .. 2157 /\ tm.year \in Nat \ {0}
    <3>1. tm.year \in StampYears
      BY <2>1
    <3>2. QED
      BY <3>1 DEF StampYears
  <2> HIDE DEF start
  <2>3. QED
    BY <2>1, <2>2
<1>7. NewYear(tm.year) \in Int /\ start \in Nat /\ tm.yday - start \in 0 .. 30
  <2>1. start \in Nat /\ MonthEnd(tm.year, tm.month) = start + MonthDays(tm.year, tm.month)
        /\ MonthDays(tm.year, tm.month) \in 28 .. 31
    BY <1>6, MonthsRise
  <2>2. start <= tm.yday /\ tm.yday < MonthEnd(tm.year, tm.month)
    BY <1>6 DEF InMonth
  <2>3. NewYear(tm.year) \in Int
    BY <1>6, YearLong
  <2> HIDE DEF start
  <2>4. QED
    BY <1>6, <2>1, <2>2, <2>3
<1> HIDE DEF start
<1>8. tm.mday \in Nat /\ tm.mday <= 31 /\ start + tm.mday - 1 = tm.yday
  <2>1. \A a, b, c \in Nat : a - b \in 0 .. 30 /\ c = a - b + 1 => c <= 31 /\ b + c - 1 = a
    OBVIOUS
  <2>2. tm.mday = tm.yday - start + 1 /\ tm.yday \in Nat
    BY <1>6
  <2>3. tm.mday \in Nat
    BY <1>7, <2>2
  <2>4. QED
    BY <1>7, <2>1, <2>2, <2>3
<1>9. /\ FromBcd(ToBcd(tm.month)) = tm.month /\ FromBcd(ToBcd(tm.mday)) = tm.mday
      /\ FromBcd(ToBcd(tm.hour)) = tm.hour /\ FromBcd(ToBcd(tm.min)) = tm.min
  BY <1>6, <1>8, BcdReturns
<1>10. /\ FromBcd(ToBcd(yr)) = yr
       /\ 1900 + (IF yr < 70 THEN yr + 100 ELSE yr) = tm.year
  <2>1. tm.year \in Nat /\ 1978 <= tm.year
    BY <1>6
  <2>2. yr \in Nat /\ yr <= 159 /\ 1900 + (IF yr < 70 THEN yr + 100 ELSE yr) = tm.year
    BY <1>5, <2>1
  <2> HIDE DEF yr
  <2>3. QED
    BY <2>2, BcdReturns
<1> HIDE DEF yr
<1>11. DsTime(DsField(t)) = Mktime(tm.year, tm.month, tm.mday, tm.hour, tm.min)
  BY <1>1, <1>9, <1>10 DEF DsTime
<1>12. Mktime(tm.year, tm.month, tm.mday, tm.hour, tm.min)
         = Utc(tm.year, tm.month, tm.mday, tm.hour, tm.min) - Shift(t)
  BY <1>4, <1>8 DEF Mktime, start
<1>13. Utc(tm.year, tm.month, tm.mday, tm.hour, tm.min) = n * Day + tm.hour * 60 + tm.min
  <2>1. NewYear(tm.year) + start + tm.mday - 1 = n
    BY <1>6, <1>7, <1>8
  <2>2. QED
    BY <2>1 DEF Utc, start
<1>14. QED
  <2>1. n * Day \in Int
    BY <1>3 DEF Day, n
  <2>2. t + Shift(t) = n * Day + tm.hour * 60 + tm.min
    BY <1>2 DEF n
  <2>3. QED
    BY <1>3, <1>6, <1>11, <1>12, <1>13, <2>1, <2>2

\* The hosts and the times: an offset from UTC that a zone has, and files that
\* are stamped, and were created a day before, on days that have a number, at
\* an hour that does not come twice.
TimesAreClear ==
  /\ Zone \in -720 .. 840
  /\ \A t \in Times : /\ Moment(t) /\ Moment(t - Day)
                      /\ ~Twice(t) /\ ~Twice(t - Day)

\* Where the year is one in UTC, the local one is not far.
LEMMA YearsNear ==
  ASSUME NEW t, Zone \in -720 .. 840, Moment(t), Moment(t - Day),
         YearOf(t \div Day) \in 1979 .. 2068, NEW s \in {t, t - Day}
  PROVE  Localtime(s).year <= 2069
<1> DEFINE u == t \div Day
           d == LocalDay(s)
           y == YearOf(u)
           z == Localtime(s).year
<1>1. t \in Nat /\ Day \in Nat \ {0} /\ u \in Nat
  <2>1. t \in Nat
    BY DEF Moment, Day
  <2>2. QED
    BY <2>1, DivParts DEF Day
<1>2. u < StampEnd
  <2>1. \A k \in Int : (t + Zone + 60) \div Day <= k => u <= k + 1
    BY <1>1 DEF Day
  <2>2. (t + Zone + 60) \div Day <= 65534
    BY DEF Moment
  <2>3. u <= 65534 + 1
    BY <2>1, <2>2
  <2> HIDE DEF u
  <2>4. QED
    BY <1>1, <2>3, DayNumbers
<1>3. InYear(y, u) /\ y \in 1979 .. 2068
  <2>1. y \in 1979 .. 2068
    OBVIOUS
  <2> HIDE DEF u
  <2>2. InYear(y, u)
    BY <1>1, <1>2, YearFound
  <2>3. QED
    BY <2>1, <2>2
<1>4. Moment(s)
  OBVIOUS
<1>5. d <= u + 1 /\ d \in Nat
  <2>1. Shift(s) \in {Zone, Zone + 60} /\ s + Shift(s) \in Nat /\ d \in Nat
    BY <1>4, LocalTime
  <2>2. s \in Int /\ s <= t
    BY <1>1 DEF Day
  <2>3. s + Shift(s) <= t + 900
    BY <1>1, <2>1, <2>2, SMTT(30)
  <2> DEFINE local == s + Shift(s)
  <2> HIDE DEF local
  <2>4. local \in Nat /\ local <= t + 900
    BY <2>1, <2>3 DEF local
  <2>5. local \div Day <= u + 1
    BY <1>1, <2>4 DEF Day
  <2>6. QED
    BY <2>1, <2>5 DEF LocalDay, local
<1>6. z \in StampYears /\ z = YearOf(d)
  <2>1. IsDate(Localtime(s), LocalDay(s))
    BY <1>4, DateOf
  <2>2. QED
    BY <2>1, YearOfDate
<1>7. InYear(z, d)
  <2>1. d \in Nat /\ d < StampEnd
    BY <1>4, LocalTime, DayNumbers
  <2> HIDE DEF d, z
  <2>2. QED
    BY <1>6, <2>1, YearFound
<1> HIDE DEF u, d, y, z
<1>8. SUFFICES ASSUME ~(z <= 2069) PROVE FALSE
  BY DEF z
<1>9. /\ z \in Nat \ {0} /\ 2070 <= z
      /\ y \in Nat \ {0} /\ y + 1 \in Nat \ {0} /\ y + 1 <= 2069
      /\ 2069 \in Nat \ {0} /\ 2070 \in Nat \ {0}
  BY <1>3, <1>6, <1>8 DEF StampYears
<1>10. NewYear(y + 1) <= NewYear(2069) /\ NewYear(2070) <= NewYear(z)
  BY <1>9, YearsRise
<1>11. /\ NewYear(2069) + 365 <= NewYear(2069 + 1)
       /\ NewYear(2069) \in Int /\ NewYear(2069 + 1) \in Int
  <2>1. PICK e \in Nat \ {0} : e = 2069
    OBVIOUS
  <2>2. /\ YearDays(e) \in {365, 366} /\ NewYear(e) \in Int
        /\ NewYear(e + 1) = NewYear(e) + YearDays(e)
    BY <2>1, YearLong
  <2>3. NewYear(e) + 365 <= NewYear(e + 1) /\ NewYear(e + 1) \in Int
    BY <2>2
  <2>4. QED
    BY <2>1, <2>2, <2>3
<1>12. NewYear(z) \in Int /\ NewYear(y + 1) \in Int
  BY <1>9, YearLong
<1>13. 2069 + 1 = 2070
  OBVIOUS
<1>14. NewYear(z) <= d /\ u < NewYear(y + 1)
  BY <1>3, <1>7 DEF InYear
<1>15. QED
  BY <1>1, <1>5, <1>10, <1>11, <1>12, <1>13, <1>14

-----------------------------------------------------------------------------
\* Bytes of an SFCB and of a table hold the stamps of the time of each file.
Stamped(n) ==
  LET t == st.time[n]
  IN t # Unstamped =>
       /\ t \in Times
       /\ \A i \in 1 .. 4 : /\ st.sfcb[ModifiedAt(n) + i - 1] = StampField(t)[i]
                            /\ st.sfcb[CreatedAt(n) + i - 1] = StampField(t - Day)[i]
       /\ st.table[n] = <<DsField(t - Day), DsField(t)>>

TablesOf == {<<>>} \cup {<<DsField(t - Day), DsField(t)>> : t \in Times}

StampInv ==
  st # NoStamps =>
    /\ st \in [phase : {"run"}, sfcb : [0 .. 31 -> 0 .. 255],
               table : [Files3 -> TablesOf], count : Nat,
               time : [Files3 -> Times \cup {Unstamped}]]
    /\ \A n \in Files3 : Stamped(n)

LEMMA StampBytes ==
  ASSUME NEW t, Moment(t)
  PROVE  \A i \in 1 .. 4 : StampField(t)[i] \in 0 .. 255
<1> DEFINE tm == Localtime(t)
           n == DaysUpTo[tm.year] + tm.yday + 1
<1>1. tm.year \in StampYears /\ tm.yday \in Nat /\ tm.hour \in 0 .. 23 /\ tm.min \in 0 .. 59
  BY DateOf, YearOfDate, DateParts
<1>2. StampField(t) = <<n % 256, (n \div 256) % 256, ToBcd(tm.hour), ToBcd(tm.min)>>
  BY DEF StampField
<1> HIDE DEF tm
<1>3. n \in Int
  <2>1. tm.year \in 1978 .. 2160 /\ tm.year \in Nat \ {0}
    BY <1>1 DEF StampYears
  <2>2. DaysUpTo[tm.year] \in Int
    BY <2>1, DaysCounted, YearLong
  <2>3. QED
    BY <1>1, <2>2
<1> HIDE DEF n
<1>4. \A x \in 0 .. 59 : ToBcd(x) \in 0 .. 255
  BY DEF ToBcd
<1>5. /\ n % 256 \in 0 .. 255 /\ (n \div 256) % 256 \in 0 .. 255
  BY <1>3
<1>6. ToBcd(tm.hour) \in 0 .. 255 /\ ToBcd(tm.min) \in 0 .. 255
  BY <1>1, <1>4, SMTT(30)
<1>7. QED
  BY <1>2, <1>5, <1>6

\* Stamps have places of their own in an SFCB.
IsField(field) == \A i \in 1 .. 4 : field[i] \in 0 .. 255
IsPut(new, bytes, at, field) ==
  /\ new \in [0 .. 31 -> 0 .. 255]
  /\ \A i \in 1 .. 4 : new[at + i - 1] = field[i]
  /\ \A k \in 0 .. 31 : k \notin at .. at + 3 => new[k] = bytes[k]

LEMMA PutStamp ==
  ASSUME NEW bytes \in [0 .. 31 -> 0 .. 255], NEW at \in 1 .. 25, NEW field,
         IsField(field)
  PROVE  IsPut(Put(bytes, at, field), bytes, at, field)
<1>1. Put(bytes, at, field) =
        [i \in 0 .. 31 |-> IF i \in at .. at + 3 THEN field[i - at + 1] ELSE bytes[i]]
  BY DEF Put
<1>2. \A i \in 1 .. 4 : at + i - 1 \in 0 .. 31 /\ at + i - 1 \in at .. at + 3
                        /\ (at + i - 1) - at + 1 = i
  OBVIOUS
<1>3. \A k \in at .. at + 3 : field[k - at + 1] \in 0 .. 255
  <2>1. \A k \in at .. at + 3 : k - at + 1 \in 1 .. 4
    OBVIOUS
  <2>2. QED
    BY <2>1 DEF IsField
<1>4. Put(bytes, at, field) \in [0 .. 31 -> 0 .. 255]
  BY <1>1, <1>3, ZenonT(60)
<1>5. \A i \in 1 .. 4 : Put(bytes, at, field)[at + i - 1] = field[i]
  BY <1>1, <1>2
<1>6. \A k \in 0 .. 31 : k \notin at .. at + 3 => Put(bytes, at, field)[k] = bytes[k]
  BY <1>1
<1>7. QED
  BY <1>4, <1>5, <1>6 DEF IsPut

LEMMA StampInvStep ==
  ASSUME TimesAreClear, StampInv, StampFile
  PROVE  StampInv'
<1>1. st.phase = "run" /\ st # NoStamps
  BY DEF StampFile, NoStamps
<1>2. /\ st \in [phase : {"run"}, sfcb : [0 .. 31 -> 0 .. 255],
                 table : [Files3 -> TablesOf], count : Nat,
                 time : [Files3 -> Times \cup {Unstamped}]]
      /\ \A n \in Files3 : Stamped(n)
  BY <1>1 DEF StampInv
<1>3. PICK n \in Files3, t \in Times :
        st' = [st EXCEPT
          !.sfcb = Put(Put(@, CreatedAt(n), StampField(t - Day)), ModifiedAt(n),
                       StampField(t)),
          !.table[n] = <<DsField(t - Day), DsField(t)>>,
          !.time[n] = t, !.count = @ + 1]
  BY DEF StampFile
<1> DEFINE older == StampField(t - Day)
           newer == StampField(t)
           first == Put(st.sfcb, CreatedAt(n), older)
           both == Put(first, ModifiedAt(n), newer)
           pair == <<DsField(t - Day), DsField(t)>>
<1>4. /\ st'.sfcb = both /\ st'.phase = "run"
      /\ st'.table = [st.table EXCEPT ![n] = pair]
      /\ st'.time = [st.time EXCEPT ![n] = t]
      /\ st'.count = st.count + 1
      /\ DOMAIN st' = {"phase", "sfcb", "table", "count", "time"}
  BY <1>2, <1>3
<1>5. IsField(older) /\ IsField(newer)
  BY StampBytes DEF TimesAreClear, IsField
<1> HIDE DEF older, newer
<1>6. /\ first \in [0 .. 31 -> 0 .. 255]
      /\ \A i \in 1 .. 4 : first[CreatedAt(n) + i - 1] = older[i]
      /\ \A k \in 0 .. 31 : k \notin CreatedAt(n) .. CreatedAt(n) + 3 => first[k] = st.sfcb[k]
  <2>1. PICK at \in 1 .. 25 : at = CreatedAt(n)
    BY DEF CreatedAt, Files3
  <2> DEFINE bytes == st.sfcb
  <2>2. bytes \in [0 .. 31 -> 0 .. 255] /\ first = Put(bytes, at, older)
    BY <1>2, <2>1
  <2> HIDE DEF bytes, first
  <2>3. IsPut(Put(bytes, at, older), bytes, at, older)
    BY <1>5, <2>2, PutStamp
  <2>4. QED
    BY <2>1, <2>2, <2>3 DEF bytes, IsPut
<1> HIDE DEF first
<1>7. /\ both \in [0 .. 31 -> 0 .. 255]
      /\ \A i \in 1 .. 4 : both[ModifiedAt(n) + i - 1] = newer[i]
      /\ \A k \in 0 .. 31 : k \notin ModifiedAt(n) .. ModifiedAt(n) + 3 => both[k] = first[k]
  <2>1. PICK at \in 1 .. 25 : at = ModifiedAt(n)
    BY DEF CreatedAt, ModifiedAt, Files3
  <2>2. both = Put(first, at, newer)
    BY <2>1
  <2> HIDE DEF both
  <2>3. IsPut(Put(first, at, newer), first, at, newer)
    BY <1>5, <1>6, PutStamp
  <2>4. QED
    BY <2>1, <2>2, <2>3 DEF IsPut
<1> HIDE DEF both
<1>8. ASSUME NEW m \in Files3, NEW i \in 1 .. 4
      PROVE  /\ m = n => /\ both[ModifiedAt(m) + i - 1] = newer[i]
                         /\ both[CreatedAt(m) + i - 1] = older[i]
             /\ m # n => /\ both[ModifiedAt(m) + i - 1] = st.sfcb[ModifiedAt(m) + i - 1]
                         /\ both[CreatedAt(m) + i - 1] = st.sfcb[CreatedAt(m) + i - 1]
  <2>1. /\ CreatedAt(m) + i - 1 \in 0 .. 31 /\ ModifiedAt(m) + i - 1 \in 0 .. 31
        /\ CreatedAt(m) + i - 1 \notin ModifiedAt(n) .. ModifiedAt(n) + 3
        /\ m # n => /\ ModifiedAt(m) + i - 1 \notin ModifiedAt(n) .. ModifiedAt(n) + 3
                    /\ ModifiedAt(m) + i - 1 \notin CreatedAt(n) .. CreatedAt(n) + 3
                    /\ CreatedAt(m) + i - 1 \notin CreatedAt(n) .. CreatedAt(n) + 3
    BY DEF CreatedAt, ModifiedAt, Files3
  <2>2. m = n => /\ both[ModifiedAt(m) + i - 1] = newer[i]
                 /\ both[CreatedAt(m) + i - 1] = older[i]
    <3>1. both[ModifiedAt(n) + i - 1] = newer[i]
      BY <1>7, Zenon
    <3>2. CASE m = n
      <4>1. first[CreatedAt(n) + i - 1] = older[i]
        BY <1>6, Zenon
      <4>2. both[CreatedAt(m) + i - 1] = first[CreatedAt(m) + i - 1]
        BY <1>7, <2>1, Zenon
      <4>3. QED
        BY <3>1, <3>2, <4>1, <4>2, Zenon
    <3>3. QED
      BY <3>2
  <2>3. m # n => /\ both[ModifiedAt(m) + i - 1] = st.sfcb[ModifiedAt(m) + i - 1]
                 /\ both[CreatedAt(m) + i - 1] = st.sfcb[CreatedAt(m) + i - 1]
    BY <1>6, <1>7, <2>1, Zenon
  <2>4. QED
    BY <2>2, <2>3
<1>9. pair \in TablesOf
  BY DEF TablesOf
<1> HIDE DEF pair
<1>10. st' \in [phase : {"run"}, sfcb : [0 .. 31 -> 0 .. 255],
                table : [Files3 -> TablesOf], count : Nat,
                time : [Files3 -> Times \cup {Unstamped}]]
  <2>1. st.table \in [Files3 -> TablesOf] /\ st.time \in [Files3 -> Times \cup {Unstamped}]
        /\ st.count \in Nat
    BY <1>2
  <2>2. /\ [st.table EXCEPT ![n] = pair] \in [Files3 -> TablesOf]
        /\ [st.time EXCEPT ![n] = t] \in [Files3 -> Times \cup {Unstamped}]
        /\ st.count + 1 \in Nat
    BY <1>9, <2>1
  <2>3. st' = [phase |-> "run", sfcb |-> both, table |-> [st.table EXCEPT ![n] = pair],
               count |-> st.count + 1, time |-> [st.time EXCEPT ![n] = t]]
    BY <1>2, <1>3 DEF both, first, older, newer, pair
  <2>4. QED
    BY <1>7, <2>2, <2>3
<1>11. ASSUME NEW m \in Files3
       PROVE  Stamped(m)'
  <2>1. CASE m = n
    <3>1. st'.time[m] = t /\ st'.table[m] = pair
      BY <1>2, <1>4, <2>1
    <3>2. \A i \in 1 .. 4 : /\ st'.sfcb[ModifiedAt(m) + i - 1] = newer[i]
                            /\ st'.sfcb[CreatedAt(m) + i - 1] = older[i]
      BY <1>4, <1>8, <2>1
    <3>3. QED
      BY <3>1, <3>2 DEF Stamped, older, newer, pair
  <2>2. CASE m # n
    <3>1. st'.time[m] = st.time[m] /\ st'.table[m] = st.table[m]
      BY <1>2, <1>4, <2>2
    <3>2. \A i \in 1 .. 4 :
            /\ st'.sfcb[ModifiedAt(m) + i - 1] = st.sfcb[ModifiedAt(m) + i - 1]
            /\ st'.sfcb[CreatedAt(m) + i - 1] = st.sfcb[CreatedAt(m) + i - 1]
      BY <1>4, <1>8, <2>2
    <3>3. Stamped(m)
      BY <1>2
    <3>4. QED
      BY <3>1, <3>2, <3>3 DEF Stamped
  <2>3. QED
    BY <2>1, <2>2
<1>12. QED
  BY <1>10, <1>11 DEF StampInv

LEMMA StampInvNext ==
  ASSUME TimesAreClear, StampInv, [ReadersNext]_allvars
  PROVE  StampInv'
<1>1. CASE st' = st
  BY <1>1 DEF StampInv, Stamped
<1>2. CASE StampFile
  BY <1>2, StampInvStep
<1>3. CASE StampsStart
  <2> DEFINE zero == [i \in 0 .. 31 |-> IF i = 0 THEN 33 ELSE 0]
             none == [n \in Files3 |-> <<>>]
             never == [n \in Files3 |-> Unstamped]
  <2>1. st' = [phase |-> "run", sfcb |-> zero, table |-> none, count |-> 0, time |-> never]
    BY <1>3 DEF StampsStart
  <2>2. zero \in [0 .. 31 -> 0 .. 255] /\ none \in [Files3 -> TablesOf]
        /\ never \in [Files3 -> Times \cup {Unstamped}]
    BY DEF TablesOf
  <2>3. \A n \in Files3 : never[n] = Unstamped
    OBVIOUS
  <2> HIDE DEF zero, none, never
  <2>4. st'.time = never
    BY <2>1
  <2>5. \A n \in Files3 : Stamped(n)'
    BY <2>3, <2>4 DEF Stamped
  <2>6. QED
    BY <2>1, <2>2, <2>5 DEF StampInv
<1>4. QED
  BY <1>1, <1>2, <1>3 DEF ReadersNext, Definition, Begin, Work, work, allvars, StampStep

\* Each file keeps the times it was stamped with last, in an SFCB and in the
\* table of DateStamper, whatever year, month and hour they are of and
\* whichever of its neighbours is stamped: unix2cpm_time and cpm2unix_time, and
\* unix2ds_time and ds2unix_time, are inverse.
THEOREM TimesReturn ==
  ASSUME TimesAreClear
  PROVE  ReadersSpec => []StampsReturn
<1>1. ReadersInit => StampInv
  BY DEF ReadersInit, Idle, StampInv
<1>2. StampInv /\ [ReadersNext]_allvars => StampInv'
  BY StampInvNext
<1>3. StampInv => StampsReturn
  <2> SUFFICES ASSUME StampInv, st.phase = "run", NEW n \in Files3,
                      st.time[n] # Unstamped
               PROVE  LET t == st.time[n]
                      IN /\ FieldTime(Get(st.sfcb, ModifiedAt(n)), Shift(t)) = t
                         /\ FieldTime(Get(st.sfcb, CreatedAt(n)), Shift(t - Day)) = t - Day
                         /\ YearOf(t \div Day) \in 1979 .. 2068 =>
                              DsTime(st.table[n][1]) = t - Day /\ DsTime(st.table[n][2]) = t
    BY DEF StampsReturn
  <2> DEFINE t == st.time[n]
             modified == Get(st.sfcb, ModifiedAt(n))
             created == Get(st.sfcb, CreatedAt(n))
  <2>1. st # NoStamps
    BY DEF NoStamps
  <2>2. Stamped(n)
    BY <2>1 DEF StampInv
  <2>3. /\ t \in Times /\ st.table[n] = <<DsField(t - Day), DsField(t)>>
        /\ \A i \in 1 .. 4 : /\ st.sfcb[ModifiedAt(n) + i - 1] = StampField(t)[i]
                             /\ st.sfcb[CreatedAt(n) + i - 1] = StampField(t - Day)[i]
    BY <2>2 DEF Stamped
  <2>4. \A i \in 1 .. 4 : modified[i] = StampField(t)[i] /\ created[i] = StampField(t - Day)[i]
    BY <2>3 DEF Get
  <2> HIDE DEF modified, created
  <2>5. Moment(t) /\ Moment(t - Day) /\ ~Twice(t) /\ ~Twice(t - Day) /\ Zone \in -720 .. 840
    BY <2>3 DEF TimesAreClear
  <2>6. FieldTime(modified, Shift(t)) = t /\ FieldTime(created, Shift(t - Day)) = t - Day
    BY <2>4, <2>5, FieldReturns
  <2>7. ASSUME YearOf(t \div Day) \in 1979 .. 2068
        PROVE  DsTime(DsField(t - Day)) = t - Day /\ DsTime(DsField(t)) = t
    <3>1. Localtime(t).year <= 2069 /\ Localtime(t - Day).year <= 2069
      <4>1. YearOf(t \div Day) \in 1979 .. 2068
        BY <2>7
      <4> HIDE DEF t
      <4>2. \A s \in {t, t - Day} : Localtime(s).year <= 2069
        <5>1. Zone \in -720 .. 840 /\ Moment(t) /\ Moment(t - Day)
          BY <2>5
        <5>2. QED
          BY ONLY <4>1, <5>1, YearsNear, SMTT(60)
      <4>3. QED
        BY <4>2
    <3>2. QED
      BY <2>5, <3>1, DsReturns
  <2>8. st.table[n][1] = DsField(t - Day) /\ st.table[n][2] = DsField(t)
    BY <2>3
  <2>9. QED
    BY <2>6, <2>7, <2>8 DEF modified, created
<1>4. QED
  BY <1>1, <1>2, <1>3, PTL DEF ReadersSpec

-----------------------------------------------------------------------------
(* Patterns                                                                 *)

\* The calls of RecMatch for the pattern from j on that return 1, where those
\* for the pattern behind j are given
Row(a, pattern, j, behind) ==
  {call \in (1 .. Len(a) + 1) \X BOOLEAN :
     LET i == call[1]
         first == call[2]
     IN IF j > Len(pattern) THEN i > Len(a)
        ELSE IF pattern[j] = "*"
        THEN \/ first /\ i <= Len(a) /\ a[i] = "."
             \/ \E k \in i .. Len(a) : <<k, TRUE>> \in behind
             \/ <<Len(a) + 1, FALSE>> \in behind
        ELSE /\ i <= Len(a)
             /\ pattern[j] = "?" \/ ToLower(pattern[j]) = ToLower(a[i])
             /\ <<i + 1, FALSE>> \in behind}

IsTable(a, pattern, f) ==
  f = [j \in 1 .. Len(pattern) + 1 |-> Row(a, pattern, j, f[j + 1])]

\* The calls of recmatch end: the table can be filled up from its last row.
LEMMA TableThere ==
  ASSUME NEW a, NEW pattern, Len(pattern) \in Nat
  PROVE  \E f : IsTable(a, pattern, f)
<1> DEFINE P == Len(pattern)
           R(j, behind) == Row(a, pattern, j, behind)
           Fills(f, n) == f = [j \in P + 1 - n .. P + 1 |-> R(j, f[j + 1])]
           M == {n \in 0 .. P : \E f : Fills(f, n)}
<1>1. \A x, y : R(P + 1, x) = R(P + 1, y)
  <2>1. P + 1 > Len(pattern)
    OBVIOUS
  <2>2. QED
    BY <2>1 DEF Row
<1>2. P \in Nat
  OBVIOUS
<1> HIDE DEF R, P
<1>3. 0 \in M
  <2> DEFINE f == [j \in P + 1 - 0 .. P + 1 |-> R(P + 1, {})]
  <2>1. \A j \in P + 1 - 0 .. P + 1 : f[j] = R(j, f[j + 1])
    BY <1>1, <1>2
  <2>2. f = [j \in P + 1 - 0 .. P + 1 |-> f[j]]
    OBVIOUS
  <2> HIDE DEF f
  <2>3. Fills(f, 0)
    BY <2>1, <2>2
  <2> HIDE DEF Fills
  <2>4. QED
    BY <1>2, <2>3
<1>4. ASSUME NEW m \in 1 .. P, m - 1 \in M
      PROVE  m \in M
  <2>1. PICK f : Fills(f, m - 1)
    BY <1>4
  <2> DEFINE o == P + 1 - m
             g == [j \in o .. P + 1 |-> IF j = o THEN R(o, f[o + 1]) ELSE f[j]]
  <2>2. o \in Nat /\ o <= P /\ P + 1 - (m - 1) = o + 1
    BY <1>2
  <2> HIDE DEF o
  <2>3. f = [j \in o + 1 .. P + 1 |-> R(j, f[j + 1])]
    BY <2>1, <2>2
  <2>4. g[o] = R(o, g[o + 1])
    BY <1>2, <2>2
  <2>5. ASSUME NEW j \in o + 1 .. P + 1
        PROVE  g[j] = R(j, g[j + 1])
    <3>1. g[j] = f[j] /\ f[j] = R(j, f[j + 1])
      BY <1>2, <2>2, <2>3
    <3>2. CASE j = P + 1
      BY <1>1, <3>1, <3>2
    <3>3. CASE j # P + 1
      <4>1. j + 1 \in o + 1 .. P + 1 /\ j + 1 # o
        BY <1>2, <2>2, <3>3
      <4>2. g[j + 1] = f[j + 1]
        BY <2>2, <1>2, <4>1
      <4>3. QED
        BY <3>1, <4>2
    <3>4. QED
      BY <3>2, <3>3
  <2>6. \A j \in o .. P + 1 : g[j] = R(j, g[j + 1])
    <3> HIDE DEF g
    <3>1. \A j \in o .. P + 1 : j = o \/ j \in o + 1 .. P + 1
      BY <1>2, <2>2
    <3>2. QED
      BY <2>4, <2>5, <3>1
  <2>7. g = [j \in o .. P + 1 |-> g[j]]
    OBVIOUS
  <2> HIDE DEF g
  <2>8. Fills(g, m)
    BY <2>6, <2>7 DEF o
  <2> HIDE DEF Fills
  <2>9. QED
    BY <2>8
<1>5. P \in M
  <2> HIDE DEF M
  <2>1. \A m \in 0 .. P : m \in M
    BY <1>2, <1>3, <1>4, Upwards
  <2>2. QED
    BY <1>2, <2>1
<1>6. PICK f : Fills(f, P)
  BY <1>5
<1>7. IsTable(a, pattern, f)
  <2>1. P + 1 - P = 1
    BY <1>2
  <2>2. f = [j \in 1 .. P + 1 |-> R(j, f[j + 1])]
    BY <1>6, <2>1
  <2>3. QED
    BY <2>2 DEF IsTable, R, P
<1>8. QED
  BY <1>7

LEMMA MatchBy ==
  ASSUME NEW a, NEW pattern, Len(pattern) \in Nat
  PROVE  \E f : /\ IsTable(a, pattern, f)
                /\ RecMatch(a, pattern) = (<<1, TRUE>> \in f[1])
<1> DEFINE g == CHOOSE f : IsTable(a, pattern, f)
<1>1. IsTable(a, pattern, g)
  BY TableThere
<1>2. RecMatch(a, pattern) = (<<1, TRUE>> \in g[1])
  BY DEF RecMatch, IsTable, Row
<1>3. QED
  BY <1>1, <1>2

\* The places that a name has got to after one character of a pattern
Places(a, places, c) ==
  IF c = "*" THEN {k \in 0 .. Len(a) : \E p \in places : p <= k}
  ELSE {p + 1 : p \in {q \in places :
                         /\ q < Len(a)
                         /\ c = "?" \/ ToLower(c) = ToLower(a[q + 1])}}

IsFold(a, p, n, h) ==
  h = [s \in SUBSET (1 .. n) |->
         IF s = {} THEN {0}
         ELSE Places(a, h[s \ {Seqs!Max(s)}], p[Seqs!Max(s)])]

LEMMA GreatestIs ==
  ASSUME NEW s \in SUBSET Int, NEW n \in s, \A m \in s : m <= n
  PROVE  Seqs!Max(s) = n
<1>1. \A x \in s : x >= n => x = n
  OBVIOUS
<1>2. QED
  BY <1>1 DEF Seqs!Max

\* The fold of Selects is there for patterns of any length.
LEMMA FoldThere ==
  ASSUME NEW a, NEW p, NEW n \in Nat
  PROVE  \E h : IsFold(a, p, n, h)
<1> DEFINE R(h, s) == IF s = {} THEN {0}
                      ELSE Places(a, h[s \ {Seqs!Max(s)}], p[Seqs!Max(s)])
           Fills(h, m) == h = [s \in SUBSET (1 .. m) |-> R(h, s)]
           M == {m \in 0 .. n : \E h : Fills(h, m)}
<1>1. 0 \in M
  <2> DEFINE h == [s \in SUBSET (1 .. 0) |-> {0}]
  <2>1. 1 .. 0 = {}
    OBVIOUS
  <2>2. \A s \in SUBSET (1 .. 0) : h[s] = R(h, s)
    BY <2>1
  <2>3. h = [s \in SUBSET (1 .. 0) |-> h[s]]
    OBVIOUS
  <2> HIDE DEF h, R
  <2>4. Fills(h, 0)
    BY <2>2, <2>3
  <2> HIDE DEF Fills
  <2>5. QED
    BY <2>4
<1>2. ASSUME NEW m \in 1 .. n, m - 1 \in M
      PROVE  m \in M
  <2>1. PICK f : Fills(f, m - 1)
    BY <1>2
  <2> DEFINE g == [s \in SUBSET (1 .. m) |->
                     IF m \in s THEN Places(a, f[s \ {m}], p[m]) ELSE f[s]]
  <2>2. ASSUME NEW s \in SUBSET (1 .. m)
        PROVE  g[s] = R(g, s)
    <3>1. CASE m \in s
      <4>1. Seqs!Max(s) = m
        <5>1. s \in SUBSET Int /\ \A x \in s : x <= m
          OBVIOUS
        <5>2. QED
          BY <3>1, <5>1, GreatestIs
      <4>2. s \ {m} \in SUBSET (1 .. m) /\ m \notin s \ {m}
        OBVIOUS
      <4>3. g[s \ {m}] = f[s \ {m}]
        BY <4>2
      <4>4. g[s] = Places(a, f[s \ {m}], p[m]) /\ s # {}
        BY <3>1
      <4> HIDE DEF g
      <4>5. QED
        BY <4>1, <4>3, <4>4
    <3>2. CASE m \notin s
      <4>1. s \in SUBSET (1 .. m - 1)
        BY <3>2
      <4>2. g[s] = f[s] /\ f[s] = R(f, s)
        BY <2>1, <3>2, <4>1
      <4>3. CASE s # {}
        <5> DEFINE r == s \ {Seqs!Max(s)}
        <5>1. r \in SUBSET (1 .. m) /\ m \notin r
          BY <3>2
        <5>2. g[r] = f[r]
          BY <5>1
        <5> HIDE DEF g
        <5>3. QED
          BY <4>2, <4>3, <5>2
      <4>4. QED
        BY <4>2, <4>3
    <3>3. QED
      BY <3>1, <3>2
  <2>3. g = [s \in SUBSET (1 .. m) |-> g[s]]
    OBVIOUS
  <2> HIDE DEF g, R
  <2>4. Fills(g, m)
    BY <2>2, <2>3
  <2> HIDE DEF Fills
  <2>5. QED
    BY <2>4
<1>3. n \in M
  <2> HIDE DEF M
  <2>1. \A m \in 0 .. n : m \in M
    BY <1>1, <1>2, Upwards
  <2>2. QED
    BY <2>1
<1>4. QED
  BY <1>3 DEF IsFold

LEMMA SelectsBy ==
  ASSUME NEW a, NEW pattern, NEW p, p = FullPattern(pattern),
         Len(p) \in Nat, DOMAIN p = 1 .. Len(p)
  PROVE  \E h : /\ IsFold(a, p, Len(p), h)
                /\ Selects(pattern, a) = (Len(a) \in h[1 .. Len(p)])
<1> DEFINE g == CHOOSE h : IsFold(a, p, Len(p), h)
<1>1. IsFold(a, p, Len(p), g)
  BY FoldThere
<1>2. Selects(pattern, a) = (Len(a) \in g[1 .. Len(p)])
  BY DEF Selects, Seqs!FoldLeft, Seqs!MapThenFoldSet, IsFold, Places
<1>3. QED
  BY <1>1, <1>2

\* A pattern that has no two stars in a row and begins with something else
Starry(p) == /\ Len(p) > 0 => p[1] # "*"
             /\ \A i \in 1 .. Len(p) - 1 : p[i] # "*" \/ p[i + 1] # "*"

\* Character c of a pattern, no star, at place i of a name
Plain(a, c, i) == i <= Len(a) /\ (c = "?" \/ ToLower(c) = ToLower(a[i]))

\* Which calls of a row return 1, row by row
LEMMA EndHas ==
  ASSUME NEW a, NEW p, NEW j, NEW behind, j > Len(p),
         NEW i \in 1 .. Len(a) + 1, NEW first \in BOOLEAN
  PROVE  <<i, first>> \in Row(a, p, j, behind) <=> i > Len(a)
<1>1. <<i, first>> \in (1 .. Len(a) + 1) \X BOOLEAN
  OBVIOUS
<1>2. <<i, first>>[1] = i /\ <<i, first>>[2] = first
  OBVIOUS
<1>3. QED
  BY <1>1, <1>2, Zenon DEF Row

LEMMA PlainHas ==
  ASSUME NEW a, NEW p, NEW j, NEW behind, ~(j > Len(p)), p[j] # "*",
         NEW i \in 1 .. Len(a) + 1, NEW first \in BOOLEAN
  PROVE  <<i, first>> \in Row(a, p, j, behind) <=>
           Plain(a, p[j], i) /\ <<i + 1, FALSE>> \in behind
<1>1. <<i, first>> \in (1 .. Len(a) + 1) \X BOOLEAN
  OBVIOUS
<1>2. <<i, first>>[1] = i /\ <<i, first>>[2] = first
  OBVIOUS
<1>3. QED
  BY <1>1, <1>2, Zenon DEF Row, Plain

LEMMA LastRow ==
  ASSUME NEW a, NEW p, Len(a) \in Nat, NEW j, j > Len(p), NEW behind,
         NEW row, row = Row(a, p, j, behind)
  PROVE  \A q \in 0 .. Len(a) : <<q + 1, FALSE>> \in row <=> q = Len(a)
<1>1. ASSUME NEW q \in 0 .. Len(a)
      PROVE  <<q + 1, FALSE>> \in row <=> q = Len(a)
  <2>1. q + 1 \in 1 .. Len(a) + 1 /\ (q + 1 > Len(a) <=> q = Len(a))
    OBVIOUS
  <2>2. <<q + 1, FALSE>> \in Row(a, p, j, behind) <=> q + 1 > Len(a)
    BY <2>1, EndHas, Zenon
  <2>3. QED
    BY <2>1, <2>2
<1>2. QED
  BY <1>1

LEMMA FirstIsNothing ==
  ASSUME NEW a, NEW p, NEW j, j > Len(p) \/ p[j] # "*", NEW behind,
         NEW row, row = Row(a, p, j, behind), NEW i \in 1 .. Len(a) + 1
  PROVE  <<i, TRUE>> \in row <=> <<i, FALSE>> \in row
<1>1. CASE j > Len(p)
  <2>1. /\ <<i, TRUE>> \in Row(a, p, j, behind) <=> i > Len(a)
        /\ <<i, FALSE>> \in Row(a, p, j, behind) <=> i > Len(a)
    BY <1>1, EndHas, Zenon
  <2>2. QED
    BY <2>1
<1>2. CASE ~(j > Len(p))
  <2>1. p[j] # "*"
    BY <1>2
  <2>2. ASSUME NEW first \in BOOLEAN
        PROVE  <<i, first>> \in Row(a, p, j, behind) <=>
                 Plain(a, p[j], i) /\ <<i + 1, FALSE>> \in behind
    BY <1>2, <2>1, PlainHas, Zenon
  <2>3. TRUE \in BOOLEAN /\ FALSE \in BOOLEAN
    OBVIOUS
  <2>4. QED
    BY <2>2, <2>3, Zenon
<1>3. QED
  BY <1>1, <1>2

\* A name matches from some place that it can have got to, as long as there is
\* one that it can get to.
LEMMA MatchSelects ==
  ASSUME NEW a, NEW p, Len(a) \in Nat, Len(p) \in Nat, Starry(p),
         NEW f, IsTable(a, p, f), NEW h, IsFold(a, p, Len(p), h)
  PROVE  <<1, TRUE>> \in f[1] <=> Len(a) \in h[1 .. Len(p)]
<1> DEFINE L == Len(a)
           P == Len(p)
           r(n) == h[1 .. n]
           T(n) == {q \in 0 .. L : <<q + 1, FALSE>> \in f[n + 1]}
           same(c, q) == c = "?" \/ ToLower(c) = ToLower(a[q + 1])
<1>1. \A j \in 1 .. P + 1 : f[j] = Row(a, p, j, f[j + 1])
  BY DEF IsTable
<1>2. r(0) = {0}
  <2>1. 1 .. 0 = {} /\ 1 .. 0 \in SUBSET (1 .. P)
    OBVIOUS
  <2>2. QED
    BY <2>1 DEF IsFold
<1>3. ASSUME NEW n \in 1 .. P
      PROVE  r(n) = Places(a, r(n - 1), p[n])
  <2>1. 1 .. n \in SUBSET (1 .. P) /\ 1 .. n # {} /\ (1 .. n) \ {n} = 1 .. n - 1
    OBVIOUS
  <2>2. Seqs!Max(1 .. n) = n
    <3>1. 1 .. n \in SUBSET Int /\ n \in 1 .. n /\ \A x \in 1 .. n : x <= n
      OBVIOUS
    <3>2. QED
      BY <3>1, GreatestIs
  <2>3. QED
    BY <2>1, <2>2 DEF IsFold
<1>4. T(P) = {L}
  <2>1. f[P + 1] = Row(a, p, P + 1, f[P + 2]) /\ P + 1 > Len(p)
    BY <1>1
  <2> DEFINE S == f[P + 1]
  <2>3. \A q \in 0 .. L : <<q + 1, FALSE>> \in S <=> q = L
    BY <2>1, LastRow
  <2> HIDE DEF S
  <2>4. {q \in 0 .. L : <<q + 1, FALSE>> \in S} = {L}
    <3>1. L \in 0 .. L
      OBVIOUS
    <3>2. QED
      BY <2>3, <3>1
  <2>5. QED
    BY <2>4 DEF S
<1>5. ASSUME NEW j \in 1 .. P + 1, j > P \/ p[j] # "*", NEW i \in 1 .. L + 1
      PROVE  <<i, TRUE>> \in f[j] <=> <<i, FALSE>> \in f[j]
  <2>1. f[j] = Row(a, p, j, f[j + 1])
    BY <1>1
  <2>2. QED
    BY <1>5, <2>1, FirstIsNothing
<1>6. ASSUME NEW n \in 1 .. P, p[n] = "*"
      PROVE  T(n - 1) = {q \in 0 .. L : \E k \in T(n) : q <= k}
  <2>1. f[n] = Row(a, p, n, f[n + 1]) /\ n - 1 + 1 = n /\ ~(n > P)
    BY <1>1
  <2>2. n + 1 \in 1 .. P + 1 /\ (n + 1 > P \/ p[n + 1] # "*")
    <3>1. CASE n = P
      BY <3>1
    <3>2. CASE n # P
      <4>1. n \in 1 .. Len(p) - 1
        BY <3>2
      <4>2. QED
        BY <1>6, <4>1 DEF Starry
    <3>3. QED
      BY <3>1, <3>2
  <2>3. ASSUME NEW q \in 0 .. L
        PROVE  <<q + 1, FALSE>> \in f[n] <=> \E k \in T(n) : q <= k
    <3>1. q + 1 \in 1 .. L + 1
      OBVIOUS
    <3>2. <<q + 1, FALSE>> \in f[n] <=>
            \/ \E k \in q + 1 .. L : <<k, TRUE>> \in f[n + 1]
            \/ <<L + 1, FALSE>> \in f[n + 1]
      BY <1>6, <2>1, <3>1 DEF Row
    <3>3. \A k \in q + 1 .. L : <<k, TRUE>> \in f[n + 1] <=> <<k, FALSE>> \in f[n + 1]
      <4>1. \A k \in q + 1 .. L : k \in 1 .. L + 1
        OBVIOUS
      <4>2. QED
        BY <1>5, <2>2, <4>1
    <3> DEFINE S == f[n + 1]
    <3> HIDE DEF S
    <3>4. (\/ \E k \in q + 1 .. L : <<k, FALSE>> \in S
           \/ <<L + 1, FALSE>> \in S)
          <=> \E k \in {t \in 0 .. L : <<t + 1, FALSE>> \in S} : q <= k
      <4>1. ASSUME NEW k \in q + 1 .. L + 1, <<k, FALSE>> \in S
            PROVE  \E x \in {t \in 0 .. L : <<t + 1, FALSE>> \in S} : q <= x
        <5>1. k - 1 \in 0 .. L /\ k - 1 + 1 = k /\ q <= k - 1
          OBVIOUS
        <5>2. QED
          BY <4>1, <5>1
      <4>2. ASSUME NEW t \in 0 .. L, <<t + 1, FALSE>> \in S, q <= t
            PROVE  \/ \E k \in q + 1 .. L : <<k, FALSE>> \in S
                   \/ <<L + 1, FALSE>> \in S
        <5>1. t + 1 = L + 1 \/ t + 1 \in q + 1 .. L
          BY <4>2
        <5>2. QED
          BY <4>2, <5>1
      <4>3. \A k \in q + 1 .. L : k \in q + 1 .. L + 1
        OBVIOUS
      <4>4. L + 1 \in q + 1 .. L + 1
        OBVIOUS
      <4>5. QED
        BY <4>1, <4>2, <4>3, <4>4
    <3>5. QED
      BY <3>2, <3>3, <3>4 DEF S
  <2>4. QED
    BY <2>1, <2>3
<1>7. ASSUME NEW n \in 1 .. P, p[n] # "*"
      PROVE  T(n - 1) = {q \in 0 .. L : q < L /\ same(p[n], q) /\ q + 1 \in T(n)}
  <2>1. f[n] = Row(a, p, n, f[n + 1]) /\ n - 1 + 1 = n /\ ~(n > P)
    BY <1>1
  <2>2. ASSUME NEW q \in 0 .. L
        PROVE  <<q + 1, FALSE>> \in f[n] <=>
                 q < L /\ same(p[n], q) /\ <<q + 2, FALSE>> \in f[n + 1]
    <3>1. q + 1 \in 1 .. L + 1 /\ (q + 1 <= L <=> q < L) /\ q + 1 + 1 = q + 2
      OBVIOUS
    <3>2. <<q + 1, FALSE>> \in f[n] <=>
            q + 1 <= L /\ same(p[n], q) /\ <<q + 1 + 1, FALSE>> \in f[n + 1]
      BY <1>7, <2>1, <3>1 DEF Row
    <3>3. QED
      BY <3>1, <3>2
  <2>3. \A q \in 0 .. L : q < L => q + 1 \in 0 .. L /\ q + 1 + 1 = q + 2
    OBVIOUS
  <2>4. QED
    BY <2>1, <2>2, <2>3
<1> HIDE DEF r, T, same
<1> DEFINE Met(n) == r(n) \cap T(n) # {}
           M == {n \in 0 .. P : /\ r(n) \in SUBSET (0 .. L)
                                /\ Met(n) <=> Met(0)}
<1>8. 0 \in M
  BY <1>2
<1>9. ASSUME NEW n \in 1 .. P, n - 1 \in M
      PROVE  n \in M
  <2>1. r(n - 1) \in SUBSET (0 .. L) /\ (Met(n - 1) <=> Met(0))
    BY <1>9
  <2>2. CASE p[n] = "*"
    <3>1. r(n) = {k \in 0 .. L : \E q \in r(n - 1) : q <= k}
      BY <1>3, <2>2 DEF Places
    <3>2. T(n - 1) = {q \in 0 .. L : \E k \in T(n) : q <= k} /\ T(n) \in SUBSET (0 .. L)
      BY <1>6, <2>2 DEF T
    <3>3. Met(n) <=> Met(n - 1)
      BY <2>1, <3>1, <3>2
    <3>4. QED
      BY <2>1, <3>1, <3>3
  <2>3. CASE p[n] # "*"
    <3>1. r(n) = {q + 1 : q \in {x \in r(n - 1) : x < L /\ same(p[n], x)}}
      BY <1>3, <2>3 DEF Places, same
    <3>2. T(n - 1) = {q \in 0 .. L : q < L /\ same(p[n], q) /\ q + 1 \in T(n)}
      BY <1>7, <2>3
    <3>3. Met(n) <=> Met(n - 1)
      BY <2>1, <3>1, <3>2
    <3>4. r(n) \in SUBSET (0 .. L)
      BY <2>1, <3>1
    <3>5. QED
      BY <2>1, <3>3, <3>4
  <2>4. QED
    BY <2>2, <2>3
<1>10. P \in M
  <2> HIDE DEF M
  <2>1. \A m \in 0 .. P : m \in M
    BY <1>8, <1>9, Upwards
  <2>2. QED
    BY <2>1
<1>11. Met(P) <=> L \in r(P)
  BY <1>4
<1>12. Met(0) <=> <<1, TRUE>> \in f[1]
  <2>1. Met(0) <=> 0 \in T(0)
    BY <1>2
  <2>4. 0 \in T(0) <=> <<1, FALSE>> \in f[1]
    <3>1. 0 \in 0 .. L /\ 0 + 1 = 1
      OBVIOUS
    <3>2. QED
      BY <3>1 DEF T
  <2>2. 1 \in 1 .. P + 1 /\ (1 > P \/ p[1] # "*") /\ 1 \in 1 .. L + 1
    BY DEF Starry
  <2>3. QED
    BY <1>5, <2>1, <2>2, <2>4
<1>13. QED
  BY <1>10, <1>11, <1>12 DEF r

-----------------------------------------------------------------------------
\* A sequence, whatever it is of
IsSequence(s) == \E S : s \in Seq(S)

LEMMA SequenceLength ==
  ASSUME NEW s, IsSequence(s)
  PROVE  Len(s) \in Nat /\ DOMAIN s = 1 .. Len(s)
BY DEF IsSequence

LEMMA Joined ==
  ASSUME NEW s, NEW t, IsSequence(s), IsSequence(t)
  PROVE  IsSequence(s \o t)
<1>1. PICK S : s \in Seq(S)
  BY DEF IsSequence
<1>2. PICK T : t \in Seq(T)
  BY DEF IsSequence
<1>3. s \in Seq(S \cup T) /\ t \in Seq(S \cup T)
  BY <1>1, <1>2
<1>4. s \o t \in Seq(S \cup T)
  BY <1>3
<1>5. QED
  BY <1>4 DEF IsSequence

LEMMA ShownAs ==
  ASSUME NEW n \in Nat, NEW s, s = [i \in 1 .. n |-> s[i]]
  PROVE  IsSequence(s)
<1>1. s \in [1 .. n -> {s[i] : i \in 1 .. n}]
  BY Zenon
<1>2. s \in Seq({s[i] : i \in 1 .. n})
  BY <1>1
<1>3. QED
  BY <1>2 DEF IsSequence

LEMMA CutIsSequence ==
  ASSUME NEW s, IsSequence(s)
  PROVE  IsSequence(Cut(s))
<1> DEFINE blanks == {i \in DOMAIN s : s[i] = Blank}
           least == CHOOSE i \in blanks : \A j \in blanks : i <= j
<1>1. PICK S : s \in Seq(S)
  BY DEF IsSequence
<1>2. CASE blanks = {}
  BY <1>1, <1>2 DEF Cut, IsSequence
<1>3. CASE blanks # {}
  <2>1. blanks \in SUBSET Nat /\ blanks \in SUBSET (1 .. Len(s))
    BY <1>1
  <2>2. \E i \in blanks : \A j \in blanks : i <= j
    <3>1. PICK t : t \in blanks
      BY <1>3
    <3> HIDE DEF blanks
    <3>2. QED
      BY <2>1, <3>1, LeastNumber
  <2>3. least \in blanks
    <3> HIDE DEF blanks
    <3>1. QED
      BY <2>2
  <2>4. least \in 1 .. Len(s) /\ Len(s) \in Nat
    BY <1>1, <2>1, <2>3
  <2>5. Cut(s) = SubSeq(s, 1, least - 1)
    BY <1>3, Zenon DEF Cut
  <2> HIDE DEF least
  <2>6. SubSeq(s, 1, least - 1) \in Seq(S)
    BY <1>1, <2>4
  <2>7. QED
    BY <2>5, <2>6 DEF IsSequence
<1>4. QED
  BY <1>2, <1>3

LEMMA ListedNameIsSequence ==
  ASSUME NEW entry, NEW uppercase,
         IsSequence(entry.name), IsSequence(entry.ext)
  PROVE  IsSequence(ListedName(entry, uppercase))
<1> DEFINE show(s) == [i \in DOMAIN s |-> IF uppercase THEN s[i] ELSE ToLower(s[i])]
           ext == show(Cut(entry.ext))
           tail == IF ext = <<>> THEN <<>> ELSE <<".">> \o ext
<1>1. ASSUME NEW s, IsSequence(s)
      PROVE  IsSequence(show(s))
  <2> DEFINE f == show(s)
  <2>1. Len(s) \in Nat /\ DOMAIN s = 1 .. Len(s)
    BY <1>1, SequenceLength
  <2>2. f = [i \in 1 .. Len(s) |-> f[i]]
    BY <2>1, Zenon
  <2> HIDE DEF f
  <2>3. IsSequence(f)
    BY <2>1, <2>2, ShownAs
  <2>4. QED
    BY <2>3 DEF f
<1>2. IsSequence(show(Cut(entry.name))) /\ IsSequence(ext)
  <2>1. IsSequence(Cut(entry.name)) /\ IsSequence(Cut(entry.ext))
    BY CutIsSequence
  <2> HIDE DEF show
  <2>2. QED
    BY <1>1, <2>1
<1>3. /\ IsSequence(<<".">>) /\ IsSequence(<<>>)
      /\ \A x, y : IsSequence(<<x, y>>)
  <2>1. <<".">> \in Seq({"."}) /\ <<>> \in Seq({}) /\ \A x, y : <<x, y>> \in Seq({x, y})
    OBVIOUS
  <2>2. QED
    BY <2>1 DEF IsSequence
<1> HIDE DEF ext
<1>4. IsSequence(tail)
  BY <1>2, <1>3, Joined
<1>5. IsSequence(UserDigits(entry.user))
  BY <1>3 DEF UserDigits
<1> HIDE DEF show, tail
<1>6. IsSequence(UserDigits(entry.user) \o show(Cut(entry.name)))
  BY <1>2, <1>5, Joined
<1>7. IsSequence(UserDigits(entry.user) \o show(Cut(entry.name)) \o tail)
  BY <1>4, <1>6, Joined
<1>8. ListedName(entry, uppercase) =
        UserDigits(entry.user) \o show(Cut(entry.name)) \o tail
  BY DEF ListedName, show, tail, ext
<1>9. QED
  BY <1>7, <1>8

LEMMA FullPatternIs ==
  ASSUME NEW T, NEW pattern \in Seq(T), NoDoubleStar(pattern),
         NEW p, p = FullPattern(pattern)
  PROVE  IsSequence(p) /\ Starry(p)
<1> DEFINE n == Len(pattern)
<1>1. n \in Nat
  OBVIOUS
<1>2. "*" \notin DOMAIN DigitVal
  BY DEF DigitVal, Digits
<1>3. ASSUME NEW q, NEW x, NEW y, x # "*", y # "*",
             NEW k \in 1 .. n + 1, q = <<x, y>> \o SubSeq(pattern, k, n)
      PROVE  IsSequence(q) /\ Starry(q)
  <2> DEFINE S == T \cup {x, y}
             r == SubSeq(pattern, k, n)
  <2>1. /\ r \in Seq(S) /\ Len(r) = n + 1 - k
        /\ \A i \in 1 .. n + 1 - k : r[i] = pattern[i + k - 1]
    <3>1. pattern \in Seq(S)
      OBVIOUS
    <3> HIDE DEF S
    <3>2. QED
      BY <1>1, <3>1
  <2>2. <<x, y>> \in Seq(S) /\ Len(<<x, y>>) = 2
    OBVIOUS
  <2> HIDE DEF r, S
  <2>3. /\ q \in Seq(S) /\ Len(q) = n + 3 - k
        /\ q[1] = x /\ q[2] = y
        /\ \A i \in 3 .. n + 3 - k : q[i] = r[i - 2]
    BY <1>1, <1>3, <2>1, <2>2 DEF r
  <2>4. ASSUME NEW i \in 1 .. Len(q) - 1
        PROVE  q[i] # "*" \/ q[i + 1] # "*"
    <3>1. CASE i <= 2
      <4>1. i = 1 \/ i = 2
        BY <3>1
      <4>2. QED
        BY <1>3, <2>3, <4>1
    <3>2. CASE i > 2
      <4>1. i \in 3 .. n + 3 - k /\ i + 1 \in 3 .. n + 3 - k
        BY <1>1, <2>3, <3>2
      <4>2. i - 2 \in 1 .. n + 1 - k /\ i + 1 - 2 \in 1 .. n + 1 - k
        BY <1>1, <4>1
      <4>3. q[i] = pattern[i - 2 + k - 1] /\ q[i + 1] = pattern[i + 1 - 2 + k - 1]
        BY <2>1, <2>3, <4>1, <4>2
      <4>4. i - 2 + k - 1 \in 1 .. n - 1 /\ i + 1 - 2 + k - 1 = i - 2 + k - 1 + 1
        BY <1>1, <4>2
      <4>5. QED
        BY <4>3, <4>4 DEF NoDoubleStar
    <3>3. QED
      BY <3>1, <3>2
  <2>5. QED
    BY <1>3, <2>3, <2>4 DEF Starry, IsSequence
<1> DEFINE at(i) == i <= n /\ pattern[i] = ":"
           digit(i) == i <= n /\ IsDigit(pattern[i])
<1>4. CASE digit(1) /\ at(2)
  <2>1. p = <<"0", pattern[1]>> \o SubSeq(pattern, 3, n)
    BY <1>4 DEF FullPattern
  <2>2. 3 \in 1 .. n + 1 /\ pattern[1] # "*"
    BY <1>1, <1>2, <1>4 DEF IsDigit
  <2>3. "0" # "*"
    OBVIOUS
  <2>4. QED
    BY <1>3, <2>1, <2>2, <2>3
<1>5. CASE ~(digit(1) /\ at(2)) /\ digit(1) /\ digit(2) /\ at(3)
  <2>1. p = <<pattern[1], pattern[2]>> \o SubSeq(pattern, 4, n)
    BY <1>5 DEF FullPattern
  <2>2. /\ 4 \in 1 .. n + 1 /\ pattern[1] # "*"
        /\ pattern[2] # "*"
    BY <1>1, <1>2, <1>5 DEF IsDigit
  <2>3. QED
    BY <1>3, <2>1, <2>2
<1>6. CASE ~(digit(1) /\ at(2)) /\ ~(digit(1) /\ digit(2) /\ at(3))
  <2>1. p = <<"?", "?">> \o pattern
    BY <1>6 DEF FullPattern
  <2>2. SubSeq(pattern, 1, n) = pattern
    BY <1>1
  <2>3. "?" # "*" /\ 1 \in 1 .. n + 1
    BY <1>1
  <2>4. QED
    BY <1>3, <2>1, <2>2, <2>3
<1>7. QED
  BY <1>4, <1>5, <1>6

\* Names on disk and patterns are sequences of characters, of any length.
NamesAreTexts ==
  /\ \A d \in Directories :
       /\ IsSequence(d)
       /\ \A i \in DOMAIN d : IsSequence(d[i].name) /\ IsSequence(d[i].ext)
  /\ \A typed \in Arguments : \A k \in DOMAIN typed : IsSequence(typed[k])

\* What was typed, and the directory, stay as they are.
LsInv ==
  ls.phase \in {"glob", "list"} =>
    /\ {"phase", "dir", "typed"} \subseteq DOMAIN ls
    /\ ls.dir \in Directories /\ ls.typed \in Arguments

LEMMA LsInvStep ==
  ASSUME LsInv, [ReadersNext]_allvars
  PROVE  LsInv'
<1>1. CASE ls' = ls
  BY <1>1 DEF LsInv
<1>2. CASE LsStart
  BY <1>2 DEF LsStart, LsInv
<1>3. CASE Glob
  BY <1>3 DEF Glob, LsInv
<1>4. CASE Sort
  <2>1. PICK names : ls' = [ls EXCEPT !.phase = "list", !.names = names]
    BY <1>4 DEF Sort
  <2>2. ls.phase = "glob"
    BY <1>4 DEF Sort
  <2>3. QED
    BY <2>1, <2>2 DEF LsInv
<1>5. CASE PrintLine
  <2>1. PICK user, i, file, printed :
          ls' = [ls EXCEPT !.user = user, !.i = i, !.file = file, !.printed = printed]
    BY <1>5 DEF PrintLine
  <2>2. ls.phase = "list"
    BY <1>5 DEF PrintLine
  <2>3. QED
    BY <2>1, <2>2 DEF LsInv
<1>6. CASE LsEnd
  BY <1>6 DEF LsEnd, LsInv
<1>7. QED
  BY <1>1, <1>2, <1>3, <1>4, <1>5, <1>6
  DEF ReadersNext, Definition, Begin, Work, work, allvars, LsStep

LEMMA NamesAreSequences ==
  ASSUME NamesAreTexts, LsInv, ls.phase = "glob", NEW i \in DOMAIN ReaddirNames
  PROVE  IsSequence(ReaddirNames[i])
<1> DEFINE files == [j \in DOMAIN ls.dir |-> ListedName(ls.dir[j], ls.uppercase)]
           S == {files[j] : j \in DOMAIN ls.dir}
           roots == <<<<".">>, <<".", ".">>>>
           R == {<<".">>, <<".", ".">>}
<1>1. ls.dir \in Directories
  BY DEF LsInv
<1>2. \A j \in DOMAIN ls.dir : IsSequence(files[j])
  BY <1>1, ListedNameIsSequence DEF NamesAreTexts
<1>3. \A x \in S : IsSequence(x)
  BY <1>2
<1>4. \A x \in R : IsSequence(x)
  <2>1. <<".">> \in Seq({"."}) /\ <<".", ".">> \in Seq({"."})
    OBVIOUS
  <2>2. QED
    BY <2>1 DEF IsSequence
<1>5. files \in Seq(S)
  <2>1. DOMAIN ls.dir = 1 .. Len(ls.dir) /\ Len(ls.dir) \in Nat
    BY <1>1, SequenceLength DEF NamesAreTexts
  <2>2. files \in [DOMAIN ls.dir -> S]
    OBVIOUS
  <2> HIDE DEF files, S
  <2>3. QED
    BY <2>1, <2>2
<1>6. roots \in Seq(R)
  OBVIOUS
<1>7. ReaddirNames = roots \o files
  BY DEF ReaddirNames
<1> HIDE DEF files, S, roots, R
<1>8. ReaddirNames \in Seq(R \cup S)
  <2>1. files \in Seq(R \cup S) /\ roots \in Seq(R \cup S)
    BY <1>5, <1>6
  <2>2. QED
    BY <1>7, <2>1
<1>9. ReaddirNames[i] \in R \cup S
  BY <1>8
<1>10. QED
  BY <1>3, <1>4, <1>9

\* A name is matched with a pattern exactly if the pattern selects it as it does
\* in sh(1), for names and patterns of any length: recmatch gives up nowhere too
\* early, and takes nothing twice, but where two stars are in a row.
THEOREM PatternsAreSound ==
  ASSUME NamesAreTexts
  PROVE  ReadersSpec => []PatternsSelect
<1>1. ReadersInit => LsInv
  BY DEF ReadersInit, Idle, LsInv, NoListing
<1>2. LsInv /\ [ReadersNext]_allvars => LsInv'
  BY LsInvStep
<1>3. LsInv => PatternsSelect
  <2> SUFFICES ASSUME LsInv, ls.phase = "glob", NEW i \in DOMAIN ReaddirNames,
                      NEW k \in DOMAIN ls.typed, NoDoubleStar(ls.typed[k])
               PROVE  Matches(ReaddirNames[i], ls.typed[k])
                        = Selects(ls.typed[k], ReaddirNames[i])
    BY DEF PatternsSelect
  <2> DEFINE a == ReaddirNames[i]
             pattern == ls.typed[k]
             p == FullPattern(pattern)
  <2>1. IsSequence(a) /\ Len(a) \in Nat
    BY NamesAreSequences, SequenceLength
  <2>2. IsSequence(pattern)
    BY DEF LsInv, NamesAreTexts
  <2>3. IsSequence(p) /\ Starry(p)
    <3>1. PICK T : pattern \in Seq(T)
      BY <2>2 DEF IsSequence
    <3> HIDE DEF pattern
    <3>2. NoDoubleStar(pattern)
      BY DEF pattern
    <3>3. QED
      BY <3>1, <3>2, FullPatternIs
  <2>4. Len(p) \in Nat /\ DOMAIN p = 1 .. Len(p)
    BY <2>3, SequenceLength
  <2> HIDE DEF a, p
  <2>5. PICK f : IsTable(a, p, f) /\ RecMatch(a, p) = (<<1, TRUE>> \in f[1])
    BY <2>4, MatchBy
  <2>6. PICK h : /\ IsFold(a, p, Len(p), h)
                 /\ Selects(pattern, a) = (Len(a) \in h[1 .. Len(p)])
    BY <2>4, SelectsBy DEF p
  <2>7. <<1, TRUE>> \in f[1] <=> Len(a) \in h[1 .. Len(p)]
    BY <2>1, <2>3, <2>4, <2>5, <2>6, MatchSelects
  <2>8. RecMatch(a, p) = Selects(pattern, a)
    BY <2>5, <2>6, <2>7
  <2>9. QED
    BY <2>8 DEF Matches, a, p
<1>4. QED
  BY <1>1, <1>2, <1>3, PTL DEF ReadersSpec

-----------------------------------------------------------------------------
(* A fresh directory                                                        *)

\* What a format has to say of its directory: it fits behind the system tracks,
\* the first sector of these tracks is one of its sectors, and blocks are made
\* of whole sectors, sectors of whole records.  All definitions in diskdefs do.
HoldsDirectory(d) ==
  Plausible(d) =>
    /\ d.seclen % Record = 0 /\ d.blocksize % d.seclen = 0
    /\ d.maxdir * 32 <= Blocks(d) * d.blocksize
    /\ d.skewtab # <<>> =>
         \E i \in 0 .. d.sectrk - 1 :
           d.skewtab[i + 1] = 0 /\ i * d.seclen < d.maxdir * 32

FormatsHoldDirectory ==
  /\ \A text \in DefTexts :
       \A i \in 1 .. Len(text) : \A n \in i + 1 .. Len(text) :
         text[i].key = "diskdef" /\ Open(text, i, n) /\ text[n].key = "end" =>
           HoldsDirectory([key \in Numbers |->
                             Given(SubSeq(text, i + 1, n - 1), key, Defaults[key])])
  /\ \A spec \in BootSpecs \ {NoSpec} : HoldsDirectory(OfBootSpec(spec))

LEMMA HoldsSame ==
  ASSUME NEW d, NEW e, HoldsDirectory(d),
         \A key \in Numbers \ {"logicalextents"} : e[key] = d[key]
  PROVE  HoldsDirectory(e)
<1>1. /\ \A key \in Needed : e[key] = d[key]
      /\ e.boottrk = d.boottrk /\ e.tracks = d.tracks /\ e.skewtab = d.skewtab
      /\ e.sectrk = d.sectrk /\ e.dirblks = d.dirblks /\ e.maxdir = d.maxdir
      /\ e.seclen = d.seclen /\ e.blocksize = d.blocksize
  BY DEF Needed, Numbers
<1>2. Plausible(e) = Plausible(d)
  BY <1>1 DEF Plausible
<1>3. Blocks(e) = Blocks(d)
  BY <1>1 DEF Blocks
<1>4. QED
  BY <1>1, <1>2, <1>3 DEF HoldsDirectory

LEMMA ReadHolds ==
  ASSUME DefinitionsAreWhole, FormatsHoldDirectory, DefInv, def.phase = "read"
  PROVE  HoldsDirectory(def.d)
<1>1. IF def.format = "amstrad" THEN FromBoot ELSE Complete
  BY DEF DefInv, NoReader
<1>2. CASE FromBoot
  BY <1>2 DEF FromBoot, FormatsHoldDirectory
<1>3. CASE Complete
  <2> DEFINE text == def.text
  <2>1. PICK i \in 1 .. Len(text) : \E n \in i + 1 .. Len(text) :
          OpenedAt(text, i, n) /\ text[n].key = "end" /\ Settled(text, i, n, def.d)
    BY <1>3 DEF Complete
  <2>2. PICK n \in i + 1 .. Len(text) :
          OpenedAt(text, i, n) /\ text[n].key = "end" /\ Settled(text, i, n, def.d)
    BY <2>1
  <2>3. text \in DefTexts /\ text \in Seq(DefLines) /\ Len(text) \in Nat
    BY <1>3, LenProperties DEF Complete, DefinitionsAreWhole
  <2> HIDE DEF text
  <2> DEFINE d == [key \in Numbers |->
                     Given(SubSeq(text, i + 1, n - 1), key, Defaults[key])]
  <2>4. HoldsDirectory(d)
    BY <2>2, <2>3 DEF FormatsHoldDirectory, OpenedAt
  <2>5. \A key \in Numbers \ {"logicalextents"} : def.d[key] = d[key]
    BY <2>2, <2>3, GivenOf DEF Settled
  <2> HIDE DEF d
  <2>6. QED
    BY <2>4, <2>5, HoldsSame
<1>4. QED
  BY <1>1, <1>2, <1>3

\* A mounted format that holds its directory
DirFits(g) ==
  /\ Laid(g)
  /\ g.seclen % Record = 0 /\ g.blocksize % g.seclen = 0
  /\ g.maxdir \in Nat \ {0} /\ g.maxdir * 32 <= g.size * g.blocksize
  /\ \E i \in 0 .. g.sectrk - 1 :
       g.skewtab[i] = 0 /\ i * g.seclen < g.maxdir * 32

LEMMA MountedDirFits ==
  ASSUME NEW d, Fits(d), HoldsDirectory(d), Plausible(d), d.offset \in Int
  PROVE  DirFits(GeometryOf(d, Blocks(d)))
<1> DEFINE g == GeometryOf(d, Blocks(d))
<1>1. Laid(g)
  BY MountedLaid
<1>2. /\ g.seclen = d.seclen /\ g.sectrk = d.sectrk /\ g.blocksize = d.blocksize
      /\ g.maxdir = d.maxdir /\ g.size = Blocks(d) /\ g.skewtab = Skewed(d)
  BY DEF GeometryOf
<1> HIDE DEF g
<1>3. /\ d.seclen % Record = 0 /\ d.blocksize % d.seclen = 0
      /\ d.maxdir * 32 <= Blocks(d) * d.blocksize
  BY DEF HoldsDirectory
<1>4. /\ d.maxdir \in Nat \ {0} /\ d.sectrk \in Nat \ {0} /\ d.seclen \in Nat \ {0}
  <2>1. {"maxdir", "sectrk", "seclen"} \subseteq Needed \ {"boottrk"}
    BY DEF Needed
  <2>2. QED
    BY <2>1 DEF Fits, Plausible
<1>5. PICK i \in 0 .. d.sectrk - 1 : Skewed(d)[i] = 0 /\ i * d.seclen < d.maxdir * 32
  <2>1. CASE d.skewtab = <<>>
    <3>1. d.skew \in Nat
      BY <2>1 DEF Fits
    <3>2. SkewTab(d.sectrk, d.skew)[0] = 0
      BY <1>4, <3>1, SkewIsTrack
    <3>3. Skewed(d)[0] = 0 /\ 0 \in 0 .. d.sectrk - 1 /\ 0 * d.seclen < d.maxdir * 32
      BY <1>4, <2>1, <3>2 DEF Skewed
    <3>4. QED
      BY <3>3
  <2>2. CASE d.skewtab # <<>>
    <3>1. PICK i \in 0 .. d.sectrk - 1 :
            d.skewtab[i + 1] = 0 /\ i * d.seclen < d.maxdir * 32
      BY <2>2 DEF HoldsDirectory
    <3>2. Skewed(d)[i] = 0
      BY <2>2, <3>1 DEF Skewed
    <3>3. QED
      BY <3>1, <3>2
  <2>3. QED
    BY <2>1, <2>2
<1>6. QED
  BY <1>1, <1>2, <1>3, <1>4, <1>5 DEF DirFits, g

\* Records of a sector and of a track
SecRecords(g) == g.seclen \div Record
TrkRecords(g) == g.sectrk * SecRecords(g)

\* Tracks that mkfs writes directory entries to
DirTracks(g) ==
  LET bytes == g.maxdir * 32
  IN IF bytes % TrackBytes(g) = 0 THEN bytes \div TrackBytes(g)
     ELSE bytes \div TrackBytes(g) + 1

LEMMA InRecords ==
  ASSUME NEW g, DirFits(g)
  PROVE  /\ SecRecords(g) \in Nat \ {0} /\ g.seclen = Record * SecRecords(g)
         /\ TrkRecords(g) \in Nat \ {0} /\ TrackBytes(g) = Record * TrkRecords(g)
         /\ BootBytes(g) = Record * (TrkRecords(g) * g.boottrk)
         /\ ImageBytes(g) = Record * (TrkRecords(g) * g.tracks)
<1> DEFINE m == SecRecords(g)
           trk == g.sectrk
<1>1. /\ g.seclen \in Nat \ {0} /\ trk \in Nat \ {0} /\ g.tracks \in Nat
      /\ g.boottrk \in Nat /\ g.seclen % Record = 0 /\ Record = 128
  BY DEF DirFits, Laid, Record
<1>2. g.seclen = Record * m /\ m \in Nat
  BY <1>1, Multiple DEF SecRecords
<1> HIDE DEF m
<1>3. m # 0
  BY <1>1, <1>2
<1>4. trk * m \in Nat \ {0} /\ TrackBytes(g) = Record * (trk * m)
  <2>1. \A a, b \in Nat \ {0} : a * b \in Nat \ {0} /\ a * (128 * b) = 128 * (a * b)
    BY Z3
  <2>2. QED
    BY <1>1, <1>2, <1>3, <2>1 DEF TrackBytes
<1>5. \A a, b \in Nat : (128 * a) * b = 128 * (a * b)
  BY Z3
<1>6. QED
  BY <1>1, <1>2, <1>3, <1>4, <1>5 DEF TrkRecords, m, BootBytes, ImageBytes

LEMMA DirTracksFit ==
  ASSUME NEW g, DirFits(g)
  PROVE  /\ DirTracks(g) \in Nat
         /\ g.maxdir * 32 <= TrackBytes(g) * DirTracks(g)
         /\ g.boottrk + DirTracks(g) <= g.tracks
<1> DEFINE bytes == g.maxdir * 32
           track == TrackBytes(g)
           q == bytes \div track
           r == bytes % track
           k == DirTracks(g)
           room == g.tracks - g.boottrk
<1>1. bytes \in Nat /\ track \in Nat \ {0} /\ room \in Nat
  <2>1. track \in Nat \ {0}
    BY InRecords DEF Record
  <2>2. QED
    BY <2>1 DEF DirFits, Laid
<1>2. bytes <= track * room
  <2>1. bytes <= g.size * g.blocksize /\ g.size * g.blocksize <= track * room
    BY DEF DirFits, Laid
  <2>2. g.size * g.blocksize \in Nat /\ track * room \in Nat
    <3>1. g.size \in Nat /\ g.blocksize \in Nat
      BY DEF DirFits, Laid
    <3> HIDE DEF track, room
    <3>2. QED
      BY <1>1, <3>1, Z3
  <2> HIDE DEF bytes, track, room
  <2>3. \A a, b, c \in Nat : a <= b /\ b <= c => a <= c
    OBVIOUS
  <2>4. QED
    BY <1>1, <2>1, <2>2, <2>3
<1>3. k = IF r = 0 THEN q ELSE q + 1
  BY DEF DirTracks
<1> HIDE DEF bytes, track, room, k
<1>4. bytes = track * q + r /\ q \in Nat /\ r \in 0 .. track - 1
  BY <1>1, DivParts
<1> HIDE DEF q, r
<1>5. k \in Nat /\ bytes <= track * k
  <2>1. CASE r = 0
    BY <1>1, <1>3, <1>4, <2>1
  <2>2. CASE r # 0
    <3>1. track * (q + 1) = track * q + track /\ track * q \in Nat
      BY <1>1, <1>4, Z3
    <3>2. QED
      BY <1>1, <1>3, <1>4, <2>2, <3>1
  <2>3. QED
    BY <2>1, <2>2
<1>6. k <= room
  <2>1. track * q <= track * room /\ (r # 0 => track * q < track * room)
    <3>1. track * q \in Nat /\ track * room \in Nat
      BY <1>1, <1>4, Z3
    <3>2. QED
      BY <1>1, <1>2, <1>4, <3>1
  <2>2. \A a \in Nat \ {0}, b, c \in Nat : (a * b <= a * c => b <= c)
                                          /\ (a * b < a * c => b + 1 <= c)
    BY Z3
  <2>3. QED
    BY <1>1, <1>3, <1>4, <2>1, <2>2
<1>7. QED
  <2>1. g.tracks \in Nat /\ g.boottrk \in Nat
    BY DEF DirFits, Laid
  <2>2. QED
    BY <1>1, <1>5, <1>6, <2>1 DEF k, room, bytes, track

\* Records of the directory are in sectors of blocks, as they are counted there.
LEMMA RecordIs ==
  ASSUME DirFits(geo), geo.offset = 0, NEW n \in Nat
  PROVE  LET m == SecRecords(geo)
         IN RecordOf(n) = Nth(geo, n \div m) * m + (n % m)
<1> DEFINE m == SecRecords(geo)
           len == geo.seclen
           block == geo.blocksize
           bs == BlockSectors(geo)
           byte == n * Record
           q == n \div m
           r == n % m
           b == byte \div block
           rest == byte % block
           c == rest \div len
           r2 == rest % len
<1>1. /\ len \in Nat \ {0} /\ block \in Nat \ {0} /\ block % len = 0 /\ Record = 128
      /\ Laid(geo)
  BY DEF DirFits, Laid, Record
<1>2. m \in Nat \ {0} /\ len = 128 * m
  BY <1>1, InRecords
<1>3. block = len * bs /\ bs \in Nat
  BY <1>1, Multiple DEF BlockSectors
<1> HIDE DEF m, len, block, bs
<1>4. n = m * q + r /\ q \in Nat /\ r \in 0 .. m - 1
  BY <1>2, DivParts
<1>5. byte \in Nat
  BY <1>1
<1> HIDE DEF byte, q, r
<1>6. byte = block * b + rest /\ b \in Nat /\ rest \in 0 .. block - 1 /\ rest \in Nat
  <2>1. byte = block * b + rest /\ b \in Nat /\ rest \in 0 .. block - 1
    BY <1>1, <1>5, DivParts
  <2> HIDE DEF b, rest
  <2>2. QED
    BY <1>1, <2>1
<1> HIDE DEF b, rest
<1>7. rest = len * c + r2 /\ c \in Nat /\ r2 \in 0 .. len - 1
  BY <1>1, <1>6, DivParts
<1> HIDE DEF c, r2
<1>8. byte = len * (b * bs + c) + r2 /\ b * bs + c \in Nat
  <2>1. \A x, y, z, w \in Nat : (x * y) * z + (x * w) = x * (z * y + w) /\ z * y + w \in Nat
    BY Z3
  <2>2. \A x, y \in Nat : x * y \in Nat
    BY Z3
  <2>3. (len * bs) * b \in Nat /\ len * c \in Nat
    BY <1>1, <1>3, <1>6, <1>7, <2>2
  <2>4. (len * bs) * b + len * c = len * (b * bs + c)
    BY <1>1, <1>3, <1>6, <1>7, <2>1
  <2>5. byte = ((len * bs) * b + len * c) + r2
    BY <1>1, <1>3, <1>6, <1>7, <2>3
  <2>6. QED
    BY <1>1, <1>3, <1>6, <1>7, <2>1, <2>4, <2>5
<1>9. byte = len * q + 128 * r /\ 128 * r \in 0 .. len - 1
  <2>1. \A x, y, z \in Nat : (x * y + z) * 128 = (128 * x) * y + 128 * z
    BY Z3
  <2>2. byte = (m * q + r) * 128
    BY <1>1, <1>4 DEF byte
  <2>3. QED
    BY <1>2, <1>4, <2>1, <2>2
<1> DEFINE r3 == 128 * r
<1> HIDE DEF r3
<1>10. byte \div len = q /\ byte % len = r3
  <2>1. byte = len * q + r3 /\ r3 \in 0 .. len - 1
    BY <1>9 DEF r3
  <2>2. QED
    BY <1>1, <1>4, <1>5, <2>1, DivUnique
<1>11. b * bs + c = q /\ r2 = 128 * r
  <2>1. byte \div len = b * bs + c /\ byte % len = r2
    BY <1>1, <1>5, <1>7, <1>8, DivUnique
  <2>2. QED
    BY <1>10, <2>1 DEF r3
<1>12. byte % len = 128 * r
  BY <1>10 DEF r3
<1> DEFINE place == ReadPlace(geo, b, c)
<1>13. place = <<q \div geo.sectrk + geo.boottrk, geo.skewtab[q % geo.sectrk]>>
  <2>1. LET s == b * BlockSectors(geo) + c
        IN ReadPlace(geo, b, c) = <<s \div geo.sectrk + geo.boottrk,
                                    geo.skewtab[s % geo.sectrk]>>
    BY <1>1, <1>6, <1>7, PlaceIs
  <2>2. b * BlockSectors(geo) + c = q
    BY <1>11 DEF bs
  <2>3. QED
    BY <2>1, <2>2
<1>14. FileOffset(geo, place) = Nth(geo, q) * len
  <2>1. FileOffset(geo, place) =
          (place[2] + place[1] * geo.sectrk) * geo.seclen + geo.offset
    BY DEF FileOffset
  <2> HIDE DEF place
  <2>2. place[1] = q \div geo.sectrk + geo.boottrk /\ place[2] = geo.skewtab[q % geo.sectrk]
    BY <1>13
  <2>3. FileOffset(geo, place) = Nth(geo, q) * len + 0
    BY <2>1, <2>2 DEF Nth, len
  <2>4. Nth(geo, q) * len \in Nat
    <3>1. Nth(geo, q) \in Nat
      BY <1>1, <1>4, NthApart
    <3>2. \A x, y \in Nat : x * y \in Nat
      BY Z3
    <3>3. QED
      BY <1>1, <3>1, <3>2
  <2>5. QED
    BY <2>3, <2>4
<1>15. RecordOf(n) = (FileOffset(geo, place) + (byte % len)) \div Record
  BY DEF RecordOf, place, b, rest, c, byte, len, block
<1> HIDE DEF place
<1> DEFINE x == Nth(geo, q)
<1>16. x \in Nat
  BY <1>1, <1>4, NthApart
<1> HIDE DEF x
<1>17. x * len + 128 * r = 128 * (x * m + r) + 0 /\ x * m + r \in Nat
  <2>1. \A u, v, w \in Nat : u * (128 * v) + 128 * w = 128 * (u * v + w) /\ u * v + w \in Nat
    BY Z3
  <2>2. QED
    BY <1>2, <1>4, <1>16, <2>1
<1>18. (x * len + 128 * r) \div 128 = x * m + r
  <2>1. 128 \in Nat \ {0} /\ 0 \in 0 .. 128 - 1 /\ 128 * (x * m + r) + 0 \in Nat
    BY <1>17
  <2>2. QED
    BY <1>17, <2>1, DivUnique
<1>19. QED
  BY <1>1, <1>12, <1>14, <1>15, <1>18 DEF x, q, r, m

\* Where mkfs writes the first entries, and where it ends
First  == TrkRecords(geo) * geo.boottrk
Beyond == TrkRecords(geo) * (geo.boottrk + DirTracks(geo))

LEMMA RecordsApart ==
  ASSUME DirFits(geo), geo.offset = 0, NEW n \in Nat, NEW k \in Nat,
         RecordOf(n) = RecordOf(k)
  PROVE  n = k
<1> DEFINE m == SecRecords(geo)
           s(x) == x \div m
           r(x) == x % m
           at(x) == Nth(geo, s(x))
<1>1. m \in Nat \ {0} /\ Laid(geo)
  BY InRecords DEF DirFits
<1>2. ASSUME NEW x \in Nat
      PROVE  /\ x = m * s(x) + r(x) /\ s(x) \in Nat /\ r(x) \in 0 .. m - 1
             /\ at(x) \in Nat /\ RecordOf(x) = at(x) * m + r(x)
  <2>1. x = m * s(x) + r(x) /\ s(x) \in Nat /\ r(x) \in 0 .. m - 1
    BY <1>1, DivParts
  <2>2. at(x) \in Nat
    BY <1>1, <2>1, NthApart
  <2>3. RecordOf(x) = at(x) * m + r(x)
    BY RecordIs
  <2>4. QED
    BY <2>1, <2>2, <2>3
<1> HIDE DEF m, s, r, at
<1>3. ASSUME NEW x \in Nat
      PROVE  RecordOf(x) \div m = at(x) /\ RecordOf(x) % m = r(x)
  <2> DEFINE y == at(x)
             z == r(x)
  <2>1. y \in Nat /\ z \in 0 .. m - 1 /\ RecordOf(x) = y * m + z
    BY <1>2
  <2> HIDE DEF y, z
  <2>2. y * m + z = m * y + z /\ m * y + z \in Nat
    BY <1>1, <2>1, Z3
  <2>3. (m * y + z) \div m = y /\ (m * y + z) % m = z
    BY <1>1, <2>1, <2>2, DivUnique
  <2>4. QED
    BY <2>1, <2>2, <2>3 DEF y, z
<1>4. at(n) = at(k) /\ r(n) = r(k)
  BY <1>3
<1>5. s(n) = s(k)
  BY <1>1, <1>2, <1>4, NthApart DEF at
<1>6. QED
  BY <1>2, <1>4, <1>5

LEMMA RecordInside ==
  ASSUME DirFits(geo), geo.offset = 0, NEW n \in DirRecords
  PROVE  n \in Nat /\ RecordOf(n) \in First .. Beyond - 1
<1> DEFINE m == SecRecords(geo)
           trk == geo.sectrk
           boot == geo.boottrk
           k == DirTracks(geo)
           bytes == geo.maxdir * 32
           s == n \div m
           r == n % m
           t == s \div trk
           x == geo.skewtab[s % trk]
<1>1. /\ m \in Nat \ {0} /\ trk \in Nat \ {0} /\ boot \in Nat /\ Laid(geo)
      /\ k \in Nat /\ bytes \in Nat /\ Record = 128
      /\ bytes <= TrackBytes(geo) * k /\ TrackBytes(geo) = Record * TrkRecords(geo)
  BY InRecords, DirTracksFit DEF DirFits, Laid, Record
<1>2. n \in Nat /\ n * 128 < bytes
  <2>1. n \in 0 .. ((bytes + 127) \div 128) - 1
    BY <1>1 DEF DirRecords
  <2> HIDE DEF bytes
  <2>2. QED
    BY <1>1, <2>1
<1>3. n < (trk * k) * m
  <2>1. TrackBytes(geo) * k = 128 * ((trk * k) * m)
    <3>1. \A a, b, c \in Nat : (128 * (a * b)) * c = 128 * ((a * c) * b)
      BY Z3
    <3> HIDE DEF m, trk, k
    <3>2. TrackBytes(geo) = 128 * (trk * m)
      BY <1>1 DEF TrkRecords, trk, m
    <3>3. QED
      BY <1>1, <3>1, <3>2
  <2>2. (trk * k) * m \in Nat
    <3> HIDE DEF trk, k, m
    <3>1. QED
      BY <1>1, Z3
  <2> HIDE DEF bytes, trk, k, m
  <2>3. QED
    BY <1>1, <1>2, <2>1, <2>2
<1>4. RecordOf(n) = Nth(geo, s) * m + r
  BY <1>2, RecordIs
<1>5. Nth(geo, s) = x + (t + boot) * trk
  BY DEF Nth
<1> HIDE DEF m, trk, boot, k, bytes
<1>6. n = m * s + r /\ s \in Nat /\ r \in 0 .. m - 1
  BY <1>1, <1>2, DivParts
<1> HIDE DEF s, r
<1>7. s < trk * k
  <2>1. \A a, b \in Nat, c \in Nat \ {0}, d \in Nat : c * a + d < b * c => a < b
    BY Z3
  <2>2. trk * k \in Nat
    BY <1>1, Z3
  <2>3. QED
    BY <1>1, <1>3, <1>6, <2>1, <2>2
<1>8. s = trk * t + (s % trk) /\ t \in Nat /\ s % trk \in 0 .. trk - 1
  BY <1>1, <1>6, DivParts
<1>9. x \in 0 .. trk - 1
  BY <1>1, <1>8 DEF Laid, IsTrack, trk
<1> HIDE DEF t, x
<1>10. t + 1 <= k
  <2> DEFINE z == s % trk
  <2> HIDE DEF z
  <2>1. \A a, b \in Nat, c \in Nat \ {0}, d \in Nat : c * a + d < c * b => a + 1 <= b
    BY Z3
  <2>2. s = trk * t + z /\ z \in Nat
    BY <1>1, <1>8 DEF z
  <2>3. QED
    BY <1>1, <1>7, <1>8, <2>1, <2>2
<1>11. First = (boot * trk) * m /\ Beyond = ((boot + k) * trk) * m
  <2>1. \A a, b, c \in Nat : (a * b) * c = (c * a) * b
    BY Z3
  <2>2. First = (trk * m) * boot /\ Beyond = (trk * m) * (boot + k) /\ boot + k \in Nat
    BY <1>1 DEF First, Beyond, TrkRecords, trk, m, boot, k
  <2>3. QED
    BY <1>1, <2>1, <2>2
<1> DEFINE low == boot * trk
           high == (boot + k) * trk
           y == x + (t + boot) * trk
<1>12. low \in Nat /\ high \in Nat /\ y \in Nat /\ low <= y /\ y + 1 <= high
  <2>1. \A a, b, c, e \in Nat, d \in Nat \ {0} :
          a + 1 <= b /\ e < d => /\ c * d \in Nat /\ (c + b) * d \in Nat
                                 /\ e + (a + c) * d \in Nat
                                 /\ c * d <= e + (a + c) * d
                                 /\ e + (a + c) * d + 1 <= (c + b) * d
    <3>1. \A a, b, c \in Nat, d \in Nat \ {0} :
            a + 1 <= b => /\ c * d \in Nat /\ (a + c) * d \in Nat /\ (c + b) * d \in Nat
                          /\ c * d <= (a + c) * d
                          /\ (a + c) * d + d <= (c + b) * d
      BY Z3
    <3>2. QED
      BY <3>1
  <2>2. QED
    BY <1>1, <1>8, <1>9, <1>10, <2>1
<1> HIDE DEF low, high, y
<1>13. /\ low * m \in Nat /\ high * m \in Nat /\ y * m \in Nat
       /\ low * m <= y * m /\ y * m + m <= high * m
  <2>1. \A a, b, c \in Nat, d \in Nat \ {0} :
          a <= b /\ b + 1 <= c => /\ a * d \in Nat /\ b * d \in Nat /\ c * d \in Nat
                                  /\ a * d <= b * d /\ b * d + d <= c * d
    BY Z3
  <2>2. QED
    BY <1>1, <1>12, <2>1
<1>14. RecordOf(n) = y * m + r /\ First = low * m /\ Beyond = high * m
  BY <1>4, <1>5, <1>11 DEF y, low, high
<1>15. QED
  BY <1>1, <1>2, <1>6, <1>13, <1>14

\* The record with the label is in the directory.
LEMMA FirstThere ==
  ASSUME DirFits(geo), geo.offset = 0
  PROVE  \E n \in DirRecords : RecordOf(n) = First
<1> DEFINE m == SecRecords(geo)
           trk == geo.sectrk
           bytes == geo.maxdir * 32
<1>1. /\ m \in Nat \ {0} /\ trk \in Nat \ {0} /\ geo.boottrk \in Nat /\ Laid(geo)
      /\ bytes \in Nat /\ Record = 128 /\ geo.seclen = 128 * m
  BY InRecords DEF DirFits, Laid, Record
<1>2. PICK i \in 0 .. trk - 1 : geo.skewtab[i] = 0 /\ i * geo.seclen < bytes
  BY DEF DirFits
<1> DEFINE n == i * m
<1>3. RecordOf(n) = Nth(geo, n \div m) * m + (n % m) \/ n \notin Nat
  BY RecordIs
<1> HIDE DEF m, trk, bytes
<1>4. n \in Nat /\ n = m * i + 0 /\ i * (128 * m) = 128 * n /\ i \in Nat
  BY <1>1, <1>2, Z3
<1> HIDE DEF n
<1>5. n \div m = i /\ n % m = 0
  <2>1. 0 \in 0 .. m - 1
    BY <1>1
  <2>2. QED
    BY <1>1, <1>4, <2>1, DivUnique
<1>6. n \in DirRecords
  <2>1. 128 * n < bytes
    BY <1>1, <1>2, <1>4
  <2>2. n \in 0 .. ((bytes + 127) \div 128) - 1
    BY <1>1, <1>4, <2>1
  <2>3. QED
    BY <1>1, <2>2 DEF DirRecords, bytes
<1>7. Nth(geo, i) = geo.boottrk * trk
  <2>1. i \div trk = 0 /\ i % trk = i
    <3>1. i = trk * 0 + i
      BY <1>1, <1>4
    <3>2. QED
      BY <1>1, <1>2, <1>4, <3>1, DivUnique
  <2>2. Nth(geo, i) = 0 + (0 + geo.boottrk) * trk
    BY <1>2, <2>1 DEF Nth, trk
  <2>3. geo.boottrk * trk \in Nat
    BY <1>1, Z3
  <2>4. QED
    BY <1>1, <2>2, <2>3
<1>8. RecordOf(n) = (geo.boottrk * trk) * m + 0
  BY <1>3, <1>4, <1>5, <1>7
<1>9. (geo.boottrk * trk) * m + 0 = (trk * m) * geo.boottrk
  BY <1>1, Z3
<1>10. RecordOf(n) = First
  BY <1>8, <1>9 DEF First, TrkRecords, trk, m
<1>11. QED
  BY <1>6, <1>10

LEMMA DirectoryEnds ==
  ASSUME DirFits(geo)
  PROVE  /\ First \in Nat /\ Beyond \in Nat /\ First <= Beyond
         /\ Beyond <= TrkRecords(geo) * geo.tracks
         /\ BootBytes(geo) = Record * First
         /\ BootBytes(geo) + DirBytes = Record * Beyond
<1> DEFINE trk == TrkRecords(geo)
           boot == geo.boottrk
           k == DirTracks(geo)
           tracks == geo.tracks
           bytes == geo.maxdir * 32
           track == TrackBytes(geo)
<1>1. /\ trk \in Nat \ {0} /\ boot \in Nat /\ k \in Nat /\ tracks \in Nat
      /\ boot + k <= tracks /\ track = 128 * trk /\ track \in Nat \ {0}
      /\ bytes \in Nat /\ BootBytes(geo) = 128 * (trk * boot)
  BY InRecords, DirTracksFit DEF DirFits, Laid, Record
<1>2. DirBytes = track * k
  <2> DEFINE q == bytes \div track
  <2>1. bytes = track * q + (bytes % track) /\ q \in Nat
    BY <1>1, DivParts
  <2>2. CASE bytes % track = 0
    <3>1. DirBytes = bytes /\ k = q
      BY <2>2 DEF DirBytes, DirTracks
    <3>2. track * q \in Nat
      BY <1>1, <2>1, Z3
    <3> HIDE DEF bytes, track, k, q
    <3>3. QED
      BY <1>1, <2>1, <2>2, <3>1, <3>2
  <2>3. CASE bytes % track # 0
    <3>1. DirBytes = ((bytes + track) \div track) * track /\ k = q + 1
      BY <2>3 DEF DirBytes, DirTracks
    <3> DEFINE r == bytes % track
    <3>2. bytes = track * q + r /\ r \in 0 .. track - 1
      BY <1>1, DivParts
    <3> HIDE DEF bytes, track, k, q, r
    <3>3. bytes + track = track * (q + 1) + r /\ bytes + track \in Nat /\ q + 1 \in Nat
      <4>1. \A a, b, c, d \in Nat : d = a * b + c => d + a = a * (b + 1) + c
        BY Z3
      <4>2. r \in Nat /\ q + 1 \in Nat /\ bytes + track \in Nat
        BY <1>1, <2>1, <3>2
      <4>3. QED
        BY <1>1, <2>1, <3>2, <4>1, <4>2
    <3>4. (bytes + track) \div track = q + 1
      <4> DEFINE sum == bytes + track
                 next == q + 1
      <4>1. /\ sum \in Nat /\ next \in Nat /\ track \in Nat \ {0}
            /\ r \in 0 .. track - 1 /\ sum = track * next + r
        BY <1>1, <3>2, <3>3
      <4> HIDE DEF sum, next
      <4>2. sum \div track = next
        BY <4>1, DivUnique
      <4>3. QED
        BY <4>2 DEF sum, next
    <3>5. (q + 1) * track = track * (q + 1)
      BY <1>1, <3>3, Z3
    <3>6. QED
      BY <3>1, <3>4, <3>5
  <2>4. QED
    BY <2>2, <2>3
<1>3. First = trk * boot /\ Beyond = trk * (boot + k)
  BY DEF First, Beyond
<1> HIDE DEF trk, boot, k, tracks, bytes, track
<1>4. \A a, b, c \in Nat : /\ a * b \in Nat /\ a * (b + c) \in Nat
                           /\ a * b <= a * (b + c)
                           /\ 128 * (a * b) + (128 * a) * c = 128 * (a * (b + c))
  BY Z3
<1>5. \A a, b, c \in Nat : b <= c => a * b <= a * c
  BY Z3
<1>6. trk * (boot + k) <= trk * tracks
  BY <1>1, <1>5
<1>7. QED
  BY <1>1, <1>2, <1>3, <1>4, <1>6 DEF Record, trk, tracks

\* What mkfs has written, up to a record
Fresh(r) == IF r = First THEN FirstRecord ELSE PlainRecord
Made(to) == \A r \in First .. to - 1 : mk.image[r] = Fresh(r)
Stamper  == mk.timeStamps /\ ~HasDates

MkMade ==
  /\ {"phase", "timeStamps", "at", "image"} \subseteq DOMAIN mk
  /\ mk.timeStamps \in BOOLEAN
  /\ DOMAIN mk.image = 0 .. TrkRecords(geo) * geo.tracks - 1
  /\ mk.phase = "boot" =>
       \E i \in 0 .. geo.sectrk * geo.boottrk : mk.at = i * geo.seclen
  /\ mk.phase = "directory" =>
       \E r \in First .. Beyond : mk.at = Record * r /\ Made(r)
  /\ mk.phase = "stamper" => Stamper /\ Made(Beyond)
  /\ mk.phase = "end" =>
       IF Stamper
       THEN \E n \in DirRecords : \A r \in First .. Beyond - 1 :
              mk.image[r] = IF r = RecordOf(n) THEN "stamper" ELSE Fresh(r)
       ELSE Made(Beyond)

MkInv ==
  /\ DefInv
  /\ Mounted => def = NoReader /\ DirFits(geo)
  /\ mk # NoMkfs => Mounted /\ (geo.offset = 0 => MkMade)

LEMMA MkBegins ==
  ASSUME DirFits(geo), geo.offset = 0, MkStart, UNCHANGED geo
  PROVE  MkMade'
<1>1. PICK timeStamps \in BOOLEAN, before \in {"nothing", "old"} :
        mk' = [phase |-> "boot", timeStamps |-> timeStamps, at |-> 0,
               image |-> [r \in 0 .. ((ImageBytes(geo) + geo.offset) \div Record) - 1
                            |-> before]]
  BY DEF MkStart
<1> DEFINE last == TrkRecords(geo) * geo.tracks
<1>2. (ImageBytes(geo) + geo.offset) \div Record = last
  <2>1. ImageBytes(geo) = 128 * last
    BY InRecords DEF Record
  <2>2. last \in Nat
    <3>1. TrkRecords(geo) \in Nat /\ geo.tracks \in Nat
      BY InRecords DEF DirFits, Laid
    <3>2. QED
      BY <3>1, Z3
  <2> HIDE DEF last
  <2>3. ImageBytes(geo) + geo.offset = 128 * last + 0 /\ 0 \in 0 .. 128 - 1
    BY <2>1, <2>2
  <2>4. 128 * last + 0 \in Nat /\ 128 \in Nat \ {0}
    BY <2>2
  <2>5. QED
    BY <2>2, <2>3, <2>4, DivUnique DEF Record
<1>3. TrkRecords(geo)' = TrkRecords(geo)
  BY DEF TrkRecords, SecRecords
<1>4. 0 \in 0 .. geo.sectrk * geo.boottrk /\ 0 = 0 * geo.seclen
  <2>1. geo.sectrk \in Nat /\ geo.boottrk \in Nat /\ geo.seclen \in Nat
    BY DEF DirFits, Laid
  <2>2. \A a, b \in Nat : a * b \in Nat /\ 0 = 0 * a
    BY Z3
  <2>3. QED
    BY <2>1, <2>2
<1>5. DOMAIN mk'.image = 0 .. last - 1
  BY <1>1, <1>2
<1>6. QED
  BY <1>1, <1>3, <1>4, <1>5 DEF MkMade

\* The definition, and what was asked for, stay.
LEMMA MkStays ==
  ASSUME UNCHANGED geo, mk'.timeStamps = mk.timeStamps
  PROVE  /\ First' = First /\ Beyond' = Beyond /\ Stamper' = Stamper
         /\ TrkRecords(geo)' = TrkRecords(geo) /\ DirRecords' = DirRecords
         /\ \A r : Fresh(r)' = Fresh(r)
         /\ \A n : RecordOf(n)' = RecordOf(n)
<1>1. TrkRecords(geo)' = TrkRecords(geo) /\ DirTracks(geo)' = DirTracks(geo)
  BY DEF TrkRecords, SecRecords, DirTracks, TrackBytes
<1>2. First' = First /\ Beyond' = Beyond
  BY <1>1 DEF First, Beyond
<1>3. HasDates' = HasDates /\ HasLabel' = HasLabel
  BY DEF HasDates, HasLabel
<1>4. PlainRecord' = PlainRecord /\ FirstRecord' = FirstRecord
  BY <1>3 DEF PlainRecord, FirstRecord
<1>5. \A r : Fresh(r)' = Fresh(r)
  BY <1>2, <1>4 DEF Fresh
<1>6. \A n : RecordOf(n)' = RecordOf(n)
  BY DEF RecordOf, ReadPlace, Passed, Along, BlockSectors, FileOffset
<1>7. QED
  BY <1>1, <1>2, <1>3, <1>5, <1>6 DEF Stamper, DirRecords

LEMMA BootWritten ==
  ASSUME DirFits(geo), MkMade, WriteBoot, UNCHANGED geo
  PROVE  MkMade'
<1>1. PICK i \in 0 .. geo.sectrk * geo.boottrk : mk.at = i * geo.seclen
  BY DEF WriteBoot, MkMade
<1> DEFINE all == geo.sectrk * geo.boottrk
           len == geo.seclen
<1>2. all \in Nat /\ len \in Nat \ {0} /\ i \in Nat /\ BootBytes(geo) = all * len
  <2>1. geo.sectrk \in Nat /\ geo.boottrk \in Nat /\ len \in Nat \ {0}
    BY DEF DirFits, Laid
  <2>2. \A a, b, c \in Nat : a * b \in Nat /\ (a * c) * b = (a * b) * c
    BY Z3
  <2>3. QED
    BY <1>1, <2>1, <2>2 DEF BootBytes, TrackBytes
<1>3. mk.phase = "boot" /\ mk.timeStamps \in BOOLEAN
      /\ {"phase", "timeStamps", "at", "image"} \subseteq DOMAIN mk
      /\ DOMAIN mk.image = 0 .. TrkRecords(geo) * geo.tracks - 1
  BY DEF WriteBoot, MkMade
<1>4. CASE mk.at < BootBytes(geo)
  <2>1. Write(len, "boot")
    BY <1>4 DEF WriteBoot
  <2>2. /\ mk'.phase = "boot" /\ mk'.timeStamps = mk.timeStamps
        /\ mk'.at = mk.at + len /\ DOMAIN mk'.image = DOMAIN mk.image
        /\ DOMAIN mk' = DOMAIN mk
    BY <1>3, <2>1 DEF Write
  <2>3. i + 1 \in 0 .. all /\ mk'.at = (i + 1) * len
    <3>1. \A a, b, c \in Nat : a * c < b * c => a + 1 <= b
      BY Z3
    <3>2. \A a, c \in Nat : a * c + c = (a + 1) * c
      BY Z3
    <3> HIDE DEF all, len
    <3>3. i + 1 <= all
      BY <1>1, <1>2, <1>4, <3>1 DEF len
    <3>4. mk'.at = (i + 1) * len
      BY <1>1, <1>2, <2>2, <3>2 DEF len
    <3>5. QED
      BY <1>2, <3>3, <3>4
  <2>4. TrkRecords(geo)' = TrkRecords(geo)
    BY <2>2, MkStays
  <2>5. QED
    BY <1>3, <2>2, <2>3, <2>4 DEF MkMade
<1>5. CASE ~(mk.at < BootBytes(geo))
  <2>1. mk' = [mk EXCEPT !.phase = "directory"]
    BY <1>5 DEF WriteBoot
  <2>2. /\ mk'.phase = "directory" /\ mk'.timeStamps = mk.timeStamps
        /\ mk'.at = mk.at /\ mk'.image = mk.image
        /\ DOMAIN mk' = DOMAIN mk
    BY <1>3, <2>1
  <2>3. mk.at = BootBytes(geo)
    <3>1. \A a, b, c \in Nat : a <= b => a * c <= b * c /\ a * c \in Nat /\ b * c \in Nat
      BY Z3
    <3> HIDE DEF all, len
    <3>2. i <= all
      BY <1>1 DEF all
    <3>3. i * len <= all * len /\ i * len \in Nat /\ all * len \in Nat
      BY <1>2, <3>1, <3>2
    <3>4. mk.at = i * len
      BY <1>1 DEF len
    <3> DEFINE p == i * len
               z == all * len
    <3>5. p <= z /\ p \in Nat /\ z \in Nat /\ mk.at = p /\ BootBytes(geo) = z
      BY <1>2, <3>3, <3>4
    <3> HIDE DEF p, z
    <3>6. QED
      BY <1>5, <3>5
  <2>4. First \in First .. Beyond /\ mk.at = Record * First /\ Made(First)
    <3>1. First .. First - 1 = {}
      BY DirectoryEnds
    <3>2. QED
      BY <2>3, <3>1, DirectoryEnds DEF Made
  <2>5. PICK r \in First .. Beyond : mk.at = Record * r /\ Made(r)
    BY <2>4
  <2>6. \E x \in First' .. Beyond' : mk'.at = Record * x /\ Made(x)'
    <3>1. r \in First' .. Beyond' /\ Made(r)'
      BY <2>2, <2>5, MkStays DEF Made
    <3>2. QED
      BY <2>2, <2>5, <3>1
  <2>7. TrkRecords(geo)' = TrkRecords(geo)
    BY <2>2, MkStays
  <2>8. QED
    BY <1>3, <2>2, <2>6, <2>7 DEF MkMade
<1>6. QED
  BY <1>4, <1>5

LEMMA DirectoryWritten ==
  ASSUME DirFits(geo), MkMade, WriteDirectory, UNCHANGED geo
  PROVE  MkMade'
<1>1. PICK r \in First .. Beyond : mk.at = Record * r /\ Made(r)
  BY DEF WriteDirectory, MkMade
<1>2. /\ First \in Nat /\ Beyond \in Nat /\ r \in Nat /\ Record = 128
      /\ Beyond <= TrkRecords(geo) * geo.tracks
      /\ BootBytes(geo) = 128 * First /\ BootBytes(geo) + DirBytes = 128 * Beyond
      /\ TrkRecords(geo) * geo.tracks \in Nat
  <2>1. TrkRecords(geo) \in Nat /\ geo.tracks \in Nat
    BY InRecords DEF DirFits, Laid
  <2>2. TrkRecords(geo) * geo.tracks \in Nat
    BY <2>1, Z3
  <2>3. QED
    BY <1>1, <2>2, DirectoryEnds DEF Record
<1>3. mk.phase = "directory" /\ mk.timeStamps \in BOOLEAN
      /\ {"phase", "timeStamps", "at", "image"} \subseteq DOMAIN mk
      /\ DOMAIN mk.image = 0 .. TrkRecords(geo) * geo.tracks - 1
  BY DEF WriteDirectory, MkMade
<1>4. CASE mk.at < BootBytes(geo) + DirBytes
  <2> DEFINE what == IF mk.at = BootBytes(geo) THEN FirstRecord ELSE PlainRecord
  <2>1. Write(Record, what)
    BY <1>4 DEF WriteDirectory
  <2>2. r + 1 <= Beyond
    BY <1>1, <1>2, <1>4
  <2>3. what = Fresh(r)
    <3>1. mk.at = BootBytes(geo) <=> r = First
      BY <1>1, <1>2
    <3>2. QED
      BY <3>1 DEF Fresh
  <2>4. mk.at \div Record = r /\ (mk.at + Record) \div Record = r + 1
    <3>1. mk.at = 128 * r /\ mk.at + Record = 128 * (r + 1)
      BY <1>1, <1>2
    <3>2. QED
      BY <1>2, <3>1
  <2> HIDE DEF what
  <2>5. /\ mk'.phase = "directory" /\ mk'.timeStamps = mk.timeStamps
        /\ mk'.at = mk.at + Record /\ DOMAIN mk'.image = DOMAIN mk.image
        /\ \A x \in DOMAIN mk.image :
             mk'.image[x] = IF x \in r .. r + 1 - 1 THEN what ELSE mk.image[x]
        /\ DOMAIN mk' = DOMAIN mk
    BY <1>3, <2>1, <2>4 DEF Write
  <2>6. r + 1 \in First .. Beyond /\ mk'.at = Record * (r + 1)
    BY <1>1, <1>2, <2>2, <2>5
  <2>7. \A x \in First .. (r + 1) - 1 : mk'.image[x] = Fresh(x)
    <3> SUFFICES ASSUME NEW x \in First .. r
                 PROVE  mk'.image[x] = Fresh(x)
      BY <1>2
    <3>1. x \in DOMAIN mk.image
      BY <1>1, <1>2, <1>3, <2>2
    <3>2. CASE x = r
      BY <1>2, <2>3, <2>5, <3>1, <3>2
    <3>3. CASE x # r
      <4>1. x \in First .. r - 1 /\ ~(x \in r .. r + 1 - 1)
        BY <1>2, <3>3
      <4>2. QED
        BY <1>1, <2>5, <3>1, <4>1 DEF Made
    <3>4. QED
      BY <3>2, <3>3
  <2>8. r + 1 \in First' .. Beyond' /\ Made(r + 1)'
    BY <2>5, <2>6, <2>7, MkStays DEF Made
  <2>9. \E y \in First' .. Beyond' : mk'.at = Record * y /\ Made(y)'
    BY <2>6, <2>8
  <2>10. TrkRecords(geo)' = TrkRecords(geo)
    BY <2>5, MkStays
  <2>11. QED
    BY <1>3, <2>5, <2>9, <2>10 DEF MkMade
<1>5. CASE ~(mk.at < BootBytes(geo) + DirBytes)
  <2>1. mk' = [mk EXCEPT !.phase = IF Stamper THEN "stamper" ELSE "end"]
    BY <1>5 DEF WriteDirectory, Stamper
  <2>2. /\ mk'.phase = IF Stamper THEN "stamper" ELSE "end"
        /\ mk'.timeStamps = mk.timeStamps /\ mk'.image = mk.image
        /\ DOMAIN mk' = DOMAIN mk
    BY <1>3, <2>1
  <2>3. r = Beyond
    BY <1>1, <1>2, <1>5
  <2>4. Made(Beyond)'
    BY <1>1, <2>2, <2>3, MkStays DEF Made
  <2>5. TrkRecords(geo)' = TrkRecords(geo) /\ Stamper' = Stamper
    BY <2>2, MkStays
  <2>6. QED
    BY <1>3, <2>2, <2>4, <2>5 DEF MkMade
<1>6. QED
  BY <1>4, <1>5

LEMMA StamperCreated ==
  ASSUME DirFits(geo), geo.offset = 0, MkMade, CreatStamper, UNCHANGED geo
  PROVE  MkMade'
<1>1. mk.phase = "stamper" /\ mk.timeStamps \in BOOLEAN /\ Stamper /\ Made(Beyond)
      /\ {"phase", "timeStamps", "at", "image"} \subseteq DOMAIN mk
      /\ DOMAIN mk.image = 0 .. TrkRecords(geo) * geo.tracks - 1
  BY DEF CreatStamper, MkMade
<1>2. CASE \E n \in DirRecords : Holds(n) = "free"
  <2> DEFINE least(n) == /\ Holds(n) = "free"
                         /\ \A m \in DirRecords : Holds(m) = "free" => n <= m
  <2>1. \E x \in DirRecords : least(x)
    <3> DEFINE M == {x \in DirRecords : Holds(x) = "free"}
    <3>1. M \subseteq Nat
      BY RecordInside
    <3>2. PICK t : t \in M
      BY <1>2
    <3>3. PICK x \in M : \A y \in M : x <= y
      BY <3>1, <3>2, LeastNumber
    <3>4. QED
      BY <3>3
  <2>2. (CHOOSE x \in DirRecords : least(x)) \in DirRecords
    BY <2>1
  <2>3. PICK n \in DirRecords :
          mk' = [mk EXCEPT !.phase = "end", !.image[RecordOf(n)] = "stamper"]
    BY <1>2, <2>2 DEF CreatStamper
  <2>4. RecordOf(n) \in First .. Beyond - 1
    BY <2>2, RecordInside
  <2>5. /\ mk'.phase = "end" /\ mk'.timeStamps = mk.timeStamps
        /\ DOMAIN mk' = DOMAIN mk /\ DOMAIN mk'.image = DOMAIN mk.image
        /\ \A r \in DOMAIN mk.image :
             mk'.image[r] = IF r = RecordOf(n) THEN "stamper" ELSE mk.image[r]
    BY <1>1, <2>3
  <2>6. \A r \in First .. Beyond - 1 : r \in DOMAIN mk.image
    <3>1. TrkRecords(geo) \in Nat /\ geo.tracks \in Nat
      BY InRecords DEF DirFits, Laid
    <3>2. TrkRecords(geo) * geo.tracks \in Nat
      BY <3>1, Z3
    <3>3. QED
      BY <1>1, <3>2, DirectoryEnds
  <2>7. \A r \in First .. Beyond - 1 :
          mk'.image[r] = IF r = RecordOf(n) THEN "stamper" ELSE Fresh(r)
    BY <1>1, <2>5, <2>6 DEF Made
  <2>8. TrkRecords(geo)' = TrkRecords(geo) /\ Stamper' = Stamper
        /\ First' = First /\ Beyond' = Beyond /\ DirRecords' = DirRecords
        /\ RecordOf(n)' = RecordOf(n) /\ \A r : Fresh(r)' = Fresh(r)
    BY <2>5, MkStays
  <2>9. \E x \in DirRecords' : \A r \in First' .. Beyond' - 1 :
          mk'.image[r] = IF r = RecordOf(x)' THEN "stamper" ELSE Fresh(r)'
    BY <2>2, <2>7, <2>8
  <2>10. QED
    BY <1>1, <2>5, <2>8, <2>9 DEF MkMade
<1>3. CASE \A n \in DirRecords : Holds(n) # "free"
  <2>1. mk' = [mk EXCEPT !.phase = "failed"]
    BY <1>3 DEF CreatStamper
  <2>2. /\ mk'.phase = "failed" /\ mk'.timeStamps = mk.timeStamps
        /\ DOMAIN mk' = DOMAIN mk /\ mk'.image = mk.image
    BY <1>1, <2>1
  <2>3. TrkRecords(geo)' = TrkRecords(geo)
    BY <2>2, MkStays
  <2>4. QED
    BY <1>1, <2>2, <2>3 DEF MkMade
<1>4. QED
  BY <1>2, <1>3

LEMMA MkNext ==
  ASSUME DefinitionsAreWhole, FormatsFit, FormatsHoldDirectory, MkInv,
         [ReadersNext]_allvars
  PROVE  MkInv'
<1>1. DefInv'
  BY DefNext DEF MkInv
<1>2. CASE SetGeometry /\ UNCHANGED mk
  <2>1. def.phase = "read"
    BY <1>2 DEF SetGeometry
  <2>2. ~Mounted /\ mk = NoMkfs
    BY <2>1 DEF MkInv, NoReader
  <2>3. Fits(def.d) /\ def.size = Blocks(def.d) /\ def.d.offset \in Int
        /\ HoldsDirectory(def.d)
    BY <2>1, ReadFits, ReadHolds DEF MkInv
  <2>4. CASE Plausible(def.d)
    <3>1. DirFits(GeometryOf(def.d, Blocks(def.d)))
      BY <2>3, <2>4, MountedDirFits
    <3>2. geo' = GeometryOf(def.d, Blocks(def.d)) /\ def' = NoReader
      BY <1>2, <2>3, <2>4 DEF SetGeometry
    <3>3. DirFits(geo')
      BY <3>1, <3>2
    <3>4. QED
      BY <1>1, <1>2, <2>2, <3>2, <3>3 DEF MkInv, DirFits, Laid, IsTrack, TrackBytes
  <2>5. CASE ~Plausible(def.d)
    BY <1>1, <1>2, <2>2, <2>5 DEF SetGeometry, MkInv, Mounted
  <2>6. QED
    BY <2>4, <2>5
<1>3. CASE DefStep /\ UNCHANGED <<geo, mk>>
  <2>1. def.phase # "none"
    BY <1>3 DEF DefStep, OpenDef, SkipLine, SetLine, RefuseLine, EndDef,
                EndOfText, CheckDef, AmsReadSuper, Inside, Outside, MoreText
  <2>2. ~Mounted /\ mk = NoMkfs
    BY <2>1 DEF MkInv, NoReader
  <2>3. QED
    BY <1>1, <1>3, <2>2 DEF MkInv, Mounted
<1>4. ASSUME UNCHANGED <<def, geo>>
      PROVE  Mounted' = Mounted /\ (DirFits(geo)' <=> DirFits(geo))
  BY <1>4 DEF Mounted, DirFits, Laid, IsTrack, TrackBytes
<1>5. CASE UNCHANGED <<def, geo, mk>>
  <2>1. mk # NoMkfs /\ geo.offset = 0 => MkMade'
    <3> SUFFICES ASSUME mk # NoMkfs, geo.offset = 0
                 PROVE  MkMade'
      OBVIOUS
    <3>1. MkMade
      BY DEF MkInv
    <3>2. /\ First' = First /\ Beyond' = Beyond /\ Stamper' = Stamper
          /\ TrkRecords(geo)' = TrkRecords(geo) /\ DirRecords' = DirRecords
          /\ \A r : Fresh(r)' = Fresh(r)
          /\ \A n : RecordOf(n)' = RecordOf(n)
      BY <1>5, MkStays
    <3>3. \A r : Made(r) => \A x \in First .. r - 1 : mk'.image[x] = Fresh(x)'
      BY <1>5, <3>2 DEF Made
    <3>4. Made(Beyond) => Made(Beyond)'
      BY <3>2, <3>3 DEF Made
    <3>5. \A r \in First .. Beyond : Made(r) => Made(r)'
      BY <3>2, <3>3 DEF Made
    <3>6. mk'.phase = "directory" =>
            \E r \in First' .. Beyond' : mk'.at = Record * r /\ Made(r)'
      BY <1>5, <3>1, <3>2, <3>5 DEF MkMade
    <3>7. Stamper /\ mk'.phase = "end" =>
            \E n \in DirRecords' : \A r \in First' .. Beyond' - 1 :
              mk'.image[r] = IF r = RecordOf(n)' THEN "stamper" ELSE Fresh(r)'
      BY <1>5, <3>1, <3>2 DEF MkMade
    <3>8. QED
      BY <1>5, <3>1, <3>2, <3>4, <3>6, <3>7 DEF MkMade
  <2>2. QED
    BY <1>1, <1>4, <1>5, <2>1 DEF MkInv
<1>6. CASE MkStart /\ Mounted /\ UNCHANGED <<def, geo>>
  <2>1. DirFits(geo)
    BY <1>6 DEF MkInv
  <2>2. geo.offset = 0 => MkMade'
    BY <1>6, <2>1, MkBegins
  <2>3. QED
    BY <1>1, <1>4, <1>6, <2>2 DEF MkInv
<1>7. CASE MkStep /\ UNCHANGED <<def, geo>>
  <2>1. mk # NoMkfs
    BY <1>7 DEF MkStep, WriteBoot, WriteDirectory, CreatStamper, MkFailed, NoMkfs
  <2>2. Mounted /\ DirFits(geo) /\ (geo.offset = 0 => MkMade)
    BY <2>1 DEF MkInv
  <2>3. ASSUME geo.offset = 0, MkFailed
        PROVE  MkMade'
    <3>1. /\ {"phase", "timeStamps", "at", "image"} \subseteq DOMAIN mk
          /\ mk.timeStamps \in BOOLEAN
          /\ DOMAIN mk.image = 0 .. TrkRecords(geo) * geo.tracks - 1
      BY <2>2, <2>3 DEF MkMade
    <3>2. /\ mk'.phase = "failed" /\ mk'.timeStamps = mk.timeStamps
          /\ DOMAIN mk' = DOMAIN mk /\ mk'.image = mk.image
      BY <2>3, <3>1 DEF MkFailed
    <3>3. TrkRecords(geo)' = TrkRecords(geo)
      BY <1>7, <3>2, MkStays
    <3>4. QED
      BY <1>7, <3>1, <3>2, <3>3 DEF MkMade
  <2>4. geo.offset = 0 => MkMade'
    BY <1>7, <2>2, <2>3, BootWritten, DirectoryWritten, StamperCreated DEF MkStep
  <2>5. QED
    BY <1>1, <1>4, <1>7, <2>2, <2>4 DEF MkInv
<1>8. QED
  BY <1>2, <1>3, <1>5, <1>6, <1>7
  DEF ReadersNext, Definition, Begin, Work, work, allvars

\* What the directory holds in the end
LEMMA DirectoryIsEmpty ==
  ASSUME MkInv, mk.phase = "end", geo.offset = 0
  PROVE  MadeIsEmpty
<1>1. MkMade /\ DirFits(geo)
  BY DEF MkInv, NoMkfs
<1>2. \A n \in DirRecords : RecordOf(n) \in First .. Beyond - 1 /\ n \in Nat
  BY <1>1, RecordInside
<1>3. \A r \in First .. Beyond - 1 : r \in DOMAIN mk.image
  <2>1. TrkRecords(geo) \in Nat /\ geo.tracks \in Nat
    BY <1>1, InRecords DEF DirFits, Laid
  <2>2. TrkRecords(geo) * geo.tracks \in Nat
    BY <2>1, Z3
  <2>3. QED
    BY <1>1, <2>2, DirectoryEnds DEF MkMade
<1>4. PICK at \in DirRecords : RecordOf(at) = First
  BY <1>1, FirstThere
<1>5. \A n \in DirRecords, k \in DirRecords : RecordOf(n) = RecordOf(k) => n = k
  BY <1>1, <1>2, RecordsApart
<1> DEFINE labels == {n \in DirRecords : Holds(n) \in {"label", "label dates"}}
           stampers == {n \in DirRecords : Holds(n) = "stamper"}
<1>6. Cardinality({}) = 0 /\ \A x : Cardinality({x}) = 1
  BY FS_EmptySet, FS_Singleton
<1>7. CASE Stamper
  <2>1. PICK s \in DirRecords : \A r \in First .. Beyond - 1 :
          mk.image[r] = IF r = RecordOf(s) THEN "stamper" ELSE Fresh(r)
    BY <1>1, <1>7 DEF MkMade
  <2>2. ~HasDates /\ ~HasLabel /\ mk.timeStamps
    BY <1>7 DEF Stamper, HasLabel
  <2>3. \A r : Fresh(r) = "free"
    BY <2>2 DEF Fresh, FirstRecord, PlainRecord
  <2>4. \A n \in DirRecords : Holds(n) = IF n = s THEN "stamper" ELSE "free"
    BY <1>2, <1>3, <1>5, <2>1, <2>3 DEF Holds
  <2>5. labels = {} /\ stampers = {s}
    BY <2>4
  <2>6. Cardinality(labels) = 0 /\ Cardinality(stampers) = 1
    BY <1>6, <2>5
  <2>7. \A n \in DirRecords : Holds(n) \notin {"nothing", "old", "boot"}
    BY <2>4
  <2>8. QED
    BY <2>2, <2>6, <2>7 DEF MadeIsEmpty
<1>8. CASE ~Stamper
  <2>1. \A n \in DirRecords : Holds(n) = Fresh(RecordOf(n))
    BY <1>1, <1>2, <1>3, <1>8 DEF MkMade, Made, Holds
  <2>2. \A n \in DirRecords : RecordOf(n) = First <=> n = at
    BY <1>4, <1>5
  <2>3. \A n \in DirRecords : Holds(n) = IF n = at THEN FirstRecord ELSE PlainRecord
    BY <2>1, <2>2 DEF Fresh
  <2>4. PlainRecord \in {"dates", "free"}
        /\ FirstRecord \in {"dates", "free", "label", "label dates"}
    BY DEF FirstRecord, PlainRecord
  <2>5. stampers = {}
    BY <2>3, <2>4
  <2>6. labels = IF HasLabel THEN {at} ELSE {}
    <3>1. FirstRecord \in {"label", "label dates"} <=> HasLabel
      BY DEF FirstRecord, PlainRecord
    <3>2. \A n \in DirRecords : n \in labels <=> n = at /\ HasLabel
      BY <2>3, <2>4, <3>1
    <3>3. labels \subseteq DirRecords
      OBVIOUS
    <3> HIDE DEF labels
    <3>4. QED
      BY <3>2, <3>3
  <2>7. Cardinality(labels) = (IF HasLabel THEN 1 ELSE 0) /\ Cardinality(stampers) = 0
    BY <1>6, <2>5, <2>6
  <2>8. \A n \in DirRecords : Holds(n) \notin {"nothing", "old", "boot"}
    BY <2>3, <2>4
  <2>9. HasDates /\ mk.timeStamps =>
          \A n \in DirRecords : Holds(n) \in {"dates", "label dates"}
    <3>1. HasDates /\ mk.timeStamps => PlainRecord = "dates"
                                       /\ FirstRecord \in {"dates", "label dates"}
      BY DEF PlainRecord, FirstRecord
    <3>2. QED
      BY <2>3, <3>1
  <2>10. QED
    BY <1>8, <2>7, <2>8, <2>9 DEF MadeIsEmpty, Stamper
<1>9. QED
  BY <1>7, <1>8

\* What mkfs.cpm makes is an empty directory, whatever the image held before and
\* whichever way its sectors are arranged: none of its entries is left from the
\* system tracks or from the old image, the label is there once or not at all, as
\* the system has it, and so is the DateStamper file.  Tracks and sectors of any
\* size will do, if blocks are of whole sectors, sectors of whole records, and
\* the directory fits in and starts with its track.  (mkfs.cpm.c, mkfs)
THEOREM FreshIsEmpty ==
  ASSUME DefinitionsAreWhole, FormatsFit, FormatsHoldDirectory
  PROVE  ReadersSpec => []MadeIsEmpty
<1>1. ReadersInit => MkInv
  BY DefInitial DEF MkInv, ReadersInit, Idle, Mounted
<1>2. MkInv /\ [ReadersNext]_allvars => MkInv'
  BY MkNext
<1>3. MkInv => MadeIsEmpty
  BY DirectoryIsEmpty DEF MadeIsEmpty
<1>4. QED
  BY <1>1, <1>2, <1>3, PTL DEF ReadersSpec

-----------------------------------------------------------------------------
(* Types                                                                    *)

\* What a format has to say of the blocks of its directory, which the program
\* takes as they are
DirectoryFits(d) ==
  Plausible(d) =>
    (IF d.dirblks = 0 THEN DirExtent(d) ELSE d.dirblks) \in 1 .. Blocks(d)

DirectoriesFit ==
  /\ \A text \in DefTexts :
       \A i \in 1 .. Len(text) : \A n \in i + 1 .. Len(text) :
         text[i].key = "diskdef" /\ Open(text, i, n) /\ text[n].key = "end" =>
           DirectoryFits([key \in Numbers |->
                            Given(SubSeq(text, i + 1, n - 1), key, Defaults[key])])
  /\ \A spec \in BootSpecs \ {NoSpec} :
       /\ DirectoryFits(OfBootSpec(spec))
       /\ OfBootSpec(spec).logicalextents \in Nat \ {0}

LEMMA ReadSizes ==
  ASSUME DefinitionsAreWhole, DirectoriesFit, DefInv, def.phase = "read"
  PROVE  DirectoryFits(def.d) /\ def.d.logicalextents \in Nat \ {0}
<1>1. IF def.format = "amstrad" THEN FromBoot ELSE Complete
  BY DEF DefInv, NoReader
<1>2. CASE FromBoot
  BY <1>2 DEF FromBoot, DirectoriesFit
<1>3. CASE Complete
  <2> DEFINE text == def.text
  <2>1. PICK i \in 1 .. Len(text) : \E n \in i + 1 .. Len(text) :
          /\ OpenedAt(text, i, n) /\ text[n].key = "end" /\ Settled(text, i, n, def.d)
          /\ def.d.logicalextents \in Nat \ {0}
    BY <1>3 DEF Complete
  <2>2. PICK n \in i + 1 .. Len(text) :
          /\ OpenedAt(text, i, n) /\ text[n].key = "end" /\ Settled(text, i, n, def.d)
          /\ def.d.logicalextents \in Nat \ {0}
    BY <2>1
  <2>3. text \in DefTexts /\ text \in Seq(DefLines) /\ Len(text) \in Nat
    BY <1>3, LenProperties DEF Complete, DefinitionsAreWhole
  <2> HIDE DEF text
  <2> DEFINE d == [key \in Numbers |->
                     Given(SubSeq(text, i + 1, n - 1), key, Defaults[key])]
             e == def.d
  <2>4. DirectoryFits(d)
    BY <2>2, <2>3 DEF DirectoriesFit, OpenedAt
  <2>5. \A key \in Numbers \ {"logicalextents"} : e[key] = d[key]
    BY <2>2, <2>3, GivenOf DEF Settled
  <2> HIDE DEF d, e
  <2>6. /\ \A key \in Needed : e[key] = d[key]
        /\ e.boottrk = d.boottrk /\ e.tracks = d.tracks /\ e.dirblks = d.dirblks
        /\ e.sectrk = d.sectrk /\ e.seclen = d.seclen /\ e.blocksize = d.blocksize
        /\ e.maxdir = d.maxdir
    BY <2>5 DEF Needed, Numbers
  <2>7. Plausible(e) = Plausible(d) /\ Blocks(e) = Blocks(d) /\ DirExtent(e) = DirExtent(d)
    BY <2>6 DEF Plausible, Blocks, DirExtent
  <2>8. DirectoryFits(e)
    BY <2>4, <2>6, <2>7 DEF DirectoryFits
  <2>9. QED
    BY <2>2, <2>8 DEF e
<1>4. QED
  BY <1>1, <1>2, <1>3

\* The longest round of a text
MaxRound == IF RoundIn < RoundOut THEN RoundOut ELSE RoundIn + 1

DefType == def.phase \in {"none", "boot", "lines", "checks", "read", "refused"}
GeoType == Mounted => geo.extents \in Nat \ {0} /\ geo.dirblks \in 1 .. geo.size
ViewType ==
  "phase" \in DOMAIN view /\ view.phase \in {"none", "draw", "key", "end"}
LsType ==
  /\ {"phase"} \subseteq DOMAIN ls /\ ls.phase \in {"none", "glob", "list", "end"}
  /\ ls # NoListing => /\ {"dir", "file", "style"} \subseteq DOMAIN ls
                       /\ ls.file \in DOMAIN ls.dir \cup {NoStat}
MkType ==
  /\ mk.phase \in {"none", "boot", "directory", "stamper", "end", "failed"}
  /\ mk # NoMkfs => /\ {"phase", "timeStamps", "at", "image"} \subseteq DOMAIN mk
                    /\ \A r \in DOMAIN mk.image : mk.image[r] \in Contents
TxtType == txt # NoText => Len(txt.round) <= MaxRound

TypeInv ==
  /\ GeoInv /\ TextInv /\ StampInv
  /\ DefType /\ GeoType /\ ViewType /\ LsType /\ MkType /\ TxtType

LEMMA DefTypeNext ==
  ASSUME DefInv, DefType, [ReadersNext]_allvars
  PROVE  DefType'
<1>1. CASE def' = def
  BY <1>1 DEF DefType
<1>2. CASE SetGeometry
  BY <1>2 DEF SetGeometry, DefType, NoReader, DefInv
<1>3. CASE DefStep
  <2>1. def.phase # "none"
    BY <1>3 DEF DefStep, OpenDef, SkipLine, SetLine, RefuseLine, EndDef,
                EndOfText, CheckDef, AmsReadSuper, Inside, Outside, MoreText
  <2>2. {"phase", "d", "ln", "text", "inside", "found", "size", "format"} = DOMAIN def
    BY <2>1 DEF DefInv, NoReader
  <2>3. CASE OpenDef
    BY <2>2, <2>3 DEF OpenDef, DefType
  <2>4. CASE SkipLine
    BY <2>2, <2>4 DEF SkipLine, DefType
  <2>5. CASE SetLine
    BY <2>2, <2>5 DEF SetLine, DefType
  <2>6. CASE RefuseLine
    BY <2>2, <2>6 DEF RefuseLine, DefType
  <2>7. CASE EndDef
    BY <2>2, <2>7 DEF EndDef, DefType
  <2>8. CASE EndOfText
    BY <2>2, <2>8 DEF EndOfText, DefType
  <2>9. CASE CheckDef
    BY <2>2, <2>9 DEF CheckDef, DefType
  <2>10. CASE AmsReadSuper
    BY <2>2, <2>10 DEF AmsReadSuper, DefType
  <2>11. QED
    BY <1>3, <2>3, <2>4, <2>5, <2>6, <2>7, <2>8, <2>9, <2>10 DEF DefStep
<1>4. QED
  BY <1>1, <1>2, <1>3 DEF ReadersNext, Definition, Begin, Work, allvars

LEMMA GeoTypeNext ==
  ASSUME DefinitionsAreWhole, FormatsFit, DirectoriesFit, GeoInv, GeoType,
         [ReadersNext]_allvars
  PROVE  GeoType'
<1>1. CASE UNCHANGED geo
  BY <1>1 DEF GeoType, Mounted
<1>2. CASE SetGeometry /\ Plausible(def.d)
  <2>1. def.phase = "read"
    BY <1>2 DEF SetGeometry
  <2>2. /\ def.size = Blocks(def.d) /\ DirectoryFits(def.d)
        /\ def.d.logicalextents \in Nat \ {0}
    BY <2>1, ReadFits, ReadSizes DEF GeoInv
  <2> DEFINE blks == IF def.d.dirblks = 0 THEN DirExtent(def.d) ELSE def.d.dirblks
             size == Blocks(def.d)
  <2>3. blks \in 1 .. size
    BY <1>2, <2>2 DEF DirectoryFits
  <2>4. geo'.extents = def.d.logicalextents /\ geo'.dirblks = blks /\ geo'.size = size
    BY <1>2, <2>2 DEF SetGeometry, GeometryOf
  <2> HIDE DEF blks, size
  <2>5. QED
    BY <2>2, <2>3, <2>4 DEF GeoType
<1>3. QED
  BY <1>1, <1>2 DEF ReadersNext, Definition, Begin, Work, allvars, SetGeometry

LEMMA ViewTypeNext ==
  ASSUME ViewType, [ReadersNext]_allvars
  PROVE  ViewType'
<1>1. CASE view' = view
  BY <1>1 DEF ViewType
<1>2. CASE ViewStart
  BY <1>2 DEF ViewStart, ViewType
<1>3. CASE ViewStep
  <2>1. CASE Draw
    BY <2>1 DEF Draw, ViewType
  <2>2. ASSUME NEW to, Move(to) \/ ToTrack(to)
        PROVE  ViewType'
    BY <2>2 DEF Move, ToTrack, ViewType
  <2>3. CASE Forward
    BY <2>2, <2>3 DEF Forward
  <2>4. CASE Backward
    BY <2>2, <2>4 DEF Backward
  <2>5. CASE NextTrack \/ PreviousTrack
    BY <2>2, <2>5 DEF NextTrack, PreviousTrack
  <2>6. CASE OtherKey \/ QuitView
    BY <2>6 DEF OtherKey, QuitView, ViewType
  <2>7. QED
    BY <1>3, <2>1, <2>3, <2>4, <2>5, <2>6 DEF ViewStep
<1>4. QED
  BY <1>1, <1>2, <1>3 DEF ReadersNext, Definition, Begin, Work, work, allvars

LEMMA LsTypeNext ==
  ASSUME LsType, [ReadersNext]_allvars
  PROVE  LsType'
<1>1. CASE ls' = ls
  BY <1>1 DEF LsType
<1>2. CASE LsStart
  BY <1>2 DEF LsStart, LsType
<1>3. CASE Glob
  <2>1. PICK args, names : ls' = [ls EXCEPT !.args = args, !.names = names]
    BY <1>3 DEF Glob
  <2>2. ls.phase = "glob"
    BY <1>3 DEF Glob
  <2>3. QED
    BY <2>1, <2>2 DEF LsType, NoListing
<1>4. CASE Sort
  <2>1. PICK names : ls' = [ls EXCEPT !.phase = "list", !.names = names]
    BY <1>4 DEF Sort
  <2>2. ls.phase = "glob"
    BY <1>4 DEF Sort
  <2>3. QED
    BY <2>1, <2>2 DEF LsType, NoListing
<1>5. CASE PrintLine
  <2>1. PICK user, i, name, printed :
          ls' = [ls EXCEPT !.user = user, !.i = i, !.file = Looked(name),
                           !.printed = printed]
    BY <1>5 DEF PrintLine
  <2>2. ls.phase = "list"
    BY <1>5 DEF PrintLine
  <2>3. Looked(name) \in DOMAIN ls.dir \cup {NoStat}
    <3> DEFINE found == {s \in DOMAIN ls.dir : ls.dir[s] \in SplitFilename(name, MaxUser)}
    <3>1. found # {} => (CHOOSE s \in found : TRUE) \in DOMAIN ls.dir
      OBVIOUS
    <3>2. Looked(name) = IF ls.style # "long" \/ found = {} THEN ls.file
                         ELSE CHOOSE s \in found : TRUE
      BY DEF Looked
    <3> HIDE DEF found
    <3>3. QED
      BY <2>2, <3>1, <3>2 DEF LsType, NoListing
  <2>4. QED
    BY <2>1, <2>2, <2>3 DEF LsType, NoListing
<1>6. CASE LsEnd
  BY <1>6 DEF LsEnd, LsType, NoListing
<1>7. QED
  BY <1>1, <1>2, <1>3, <1>4, <1>5, <1>6
  DEF ReadersNext, Definition, Begin, Work, work, allvars, LsStep

LEMMA MkTypeNext ==
  ASSUME MkType, [ReadersNext]_allvars
  PROVE  MkType'
<1>1. CASE mk' = mk
  BY <1>1 DEF MkType
<1>2. CASE MkStart
  <2> DEFINE last == ((ImageBytes(geo) + geo.offset) \div Record) - 1
  <2>1. PICK timeStamps \in BOOLEAN, before \in {"nothing", "old"} :
          mk' = [phase |-> "boot", timeStamps |-> timeStamps, at |-> 0,
                 image |-> [r \in 0 .. last |-> before]]
    BY <1>2 DEF MkStart
  <2>2. before \in Contents
    BY DEF Contents
  <2> HIDE DEF last
  <2>3. QED
    BY <2>1, <2>2 DEF MkType
<1>3. ASSUME NEW bytes, NEW what \in Contents, Write(bytes, what), mk # NoMkfs
      PROVE  MkType'
  BY <1>3 DEF Write, MkType, NoMkfs
<1>4. ASSUME NEW phase \in {"directory", "stamper", "end", "failed"}, mk # NoMkfs,
             mk' = [mk EXCEPT !.phase = phase]
      PROVE  MkType'
  BY <1>4 DEF MkType, NoMkfs
<1>5. CASE WriteBoot
  <2>1. mk # NoMkfs /\ "boot" \in Contents
    BY <1>5 DEF WriteBoot, NoMkfs, Contents
  <2>2. QED
    BY <1>3, <1>4, <1>5, <2>1 DEF WriteBoot
<1>6. CASE WriteDirectory
  <2>1. mk # NoMkfs
    BY <1>6 DEF WriteDirectory, NoMkfs
  <2>2. PlainRecord \in Contents /\ FirstRecord \in Contents
    BY DEF PlainRecord, FirstRecord, Contents
  <2>3. QED
    BY <1>3, <1>4, <1>6, <2>1, <2>2 DEF WriteDirectory
<1>7. CASE CreatStamper
  <2>1. mk # NoMkfs
    BY <1>7 DEF CreatStamper, NoMkfs
  <2>2. \/ mk' = [mk EXCEPT !.phase = "failed"]
        \/ \E n : mk' = [mk EXCEPT !.phase = "end", !.image[RecordOf(n)] = "stamper"]
    BY <1>7 DEF CreatStamper
  <2>3. ASSUME NEW n, mk' = [mk EXCEPT !.phase = "end", !.image[RecordOf(n)] = "stamper"]
        PROVE  MkType'
    BY <2>1, <2>3 DEF MkType, NoMkfs, Contents
  <2>4. QED
    BY <1>4, <2>1, <2>2, <2>3
<1>8. CASE MkFailed
  <2>1. mk # NoMkfs
    BY <1>8 DEF MkFailed, NoMkfs
  <2>2. QED
    BY <1>4, <1>8, <2>1 DEF MkFailed
<1>9. QED
  BY <1>1, <1>2, <1>5, <1>6, <1>7, <1>8
  DEF ReadersNext, Definition, Begin, Work, work, allvars, MkStep

LEMMA TxtTypeNext ==
  ASSUME TextsAreFiles, TextInv, TxtType, [ReadersNext]_allvars
  PROVE  TxtType'
<1>1. RoundIn \in Nat /\ RoundOut \in Nat /\ MaxRound \in Nat
      /\ RoundIn + 1 <= MaxRound /\ RoundOut <= MaxRound
  BY DEF TextsAreFiles, MaxRound
<1> HIDE DEF MaxRound
<1>2. CASE txt' = txt
  BY <1>2 DEF TxtType
<1>3. CASE TextStart
  <2>1. txt'.round = <<>>
    BY <1>3 DEF TextStart
  <2>2. QED
    BY <1>1, <2>1 DEF TxtType, MaxRound
<1>4. CASE TextStep
  <2>1. txt # NoText
    BY <1>4 DEF TextStep, Getc, WriteRound, Read, Putc, OutFailed, NoText
  <2>2. /\ "round" \in DOMAIN txt /\ txt.round \in Seq(Bytes) /\ txt.cpm \in Seq(Bytes)
        /\ txt.rest \in Seq(Bytes)
        /\ Len(txt.round) <= MaxRound
        /\ {"phase", "text", "source", "rest", "round", "cpm", "out", "cr"} \subseteq DOMAIN txt
    BY <2>1 DEF TextInv, TextOK, TextShape, TxtType
  <2>3. CASE Getc
    <3>1. txt'.round = txt.round \o InByte(Head(txt.rest)) /\ Len(txt.round) < RoundIn
      BY <2>2, <2>3 DEF Getc
    <3>2. Len(txt'.round) <= Len(txt.round) + 2
      <4>1. Head(txt.rest) \in Bytes
        BY <2>2, <2>3 DEF Getc, AtEof
      <4>2. InByte(Head(txt.rest)) \in Seq(Bytes) /\ Len(InByte(Head(txt.rest))) <= 2
        <5> DEFINE c == Head(txt.rest)
        <5>1. CR \in Bytes /\ LF \in Bytes /\ c \in Bytes
          BY <4>1 DEF Bytes
        <5> HIDE DEF c
        <5>2. <<CR, LF>> \in Seq(Bytes) /\ Len(<<CR, LF>>) = 2
              /\ <<c>> \in Seq(Bytes) /\ Len(<<c>>) = 1
          BY <5>1
        <5>3. InByte(c) = <<CR, LF>> \/ InByte(c) = <<c>>
          BY DEF InByte
        <5> DEFINE b == InByte(c)
        <5> HIDE DEF b
        <5>4. b \in Seq(Bytes) /\ Len(b) <= 2
          <6>1. CASE b = <<CR, LF>>
            BY <5>2, <6>1
          <6>2. CASE b = <<c>>
            BY <5>2, <6>2
          <6>3. QED
            BY <5>3, <6>1, <6>2 DEF b
        <5>5. QED
          BY <5>4 DEF b, c
      <4> DEFINE b == InByte(Head(txt.rest))
      <4> HIDE DEF b
      <4>3. b \in Seq(Bytes) /\ Len(b) <= 2 /\ txt'.round = txt.round \o b
        BY <3>1, <4>2 DEF b
      <4>4. QED
        BY <2>2, <4>3
    <3>3. Len(txt.round) \in Nat /\ Len(txt'.round) \in Int
      <4>1. txt'.round \in Seq(Bytes)
        <5>1. TextInv'
          BY TextNext
        <5>2. txt' # NoText
          BY <2>2, <2>3 DEF Getc, NoText
        <5>3. QED
          BY <5>1, <5>2 DEF TextInv, TextOK, TextShape
      <4>2. QED
        BY <2>2, <4>1, LenProperties
    <3>4. Len(txt'.round) <= MaxRound
      <4> DEFINE old == Len(txt.round)
                 new == Len(txt'.round)
      <4>1. old \in Nat /\ new \in Int /\ new <= old + 2 /\ old < RoundIn
        BY <3>1, <3>2, <3>3
      <4> HIDE DEF old, new
      <4>2. new <= MaxRound
        BY <1>1, <4>1
      <4>3. QED
        BY <4>2 DEF new
    <3>5. QED
      BY <3>4 DEF TxtType, MaxRound
  <2>4. CASE WriteRound
    <3>1. txt'.round = <<>>
      BY <2>2, <2>4 DEF WriteRound
    <3>2. QED
      BY <1>1, <3>1 DEF TxtType, MaxRound
  <2>5. CASE Read
    <3> DEFINE n == IF Len(txt.cpm) < RoundOut THEN Len(txt.cpm) ELSE RoundOut
    <3>1. txt'.round = SubSeq(txt.cpm, 1, n)
      BY <2>2, <2>5 DEF Read
    <3>2. n \in 0 .. Len(txt.cpm) /\ n <= RoundOut
      BY <1>1, <2>2
    <3> HIDE DEF n
    <3>3. Len(txt'.round) = n
      BY <2>2, <3>1, <3>2
    <3>4. Len(txt'.round) <= MaxRound
      BY <1>1, <3>2, <3>3
    <3>5. QED
      BY <3>4 DEF TxtType, MaxRound
  <2>6. CASE Putc
    <3>1. txt'.round = txt.round \/ (txt.round # <<>> /\ txt'.round = Tail(txt.round))
      BY <2>2, <2>6 DEF Putc
    <3>2. Len(txt'.round) <= MaxRound
      BY <1>1, <2>2, <3>1
    <3>3. QED
      BY <3>2 DEF TxtType, MaxRound
  <2>7. CASE OutFailed
    BY <2>2, <2>7 DEF OutFailed, TxtType, MaxRound
  <2>8. QED
    BY <1>4, <2>3, <2>4, <2>5, <2>6, <2>7 DEF TextStep
<1>5. QED
  BY <1>2, <1>3, <1>4 DEF ReadersNext, Definition, Begin, Work, work, allvars

\* Every program keeps the types of what it works with, and what is mounted is a
\* volume: a list of sectors that has each of them once, blocks, and a directory
\* inside of them.
THEOREM ReadersKeepTypes ==
  ASSUME DefinitionsAreWhole, FormatsFit, DirectoriesFit, TextsAreFiles, TimesAreClear
  PROVE  ReadersSpec => []ReadersTypeOK
<1>1. ReadersInit => TypeInv
  <2> SUFFICES ASSUME ReadersInit PROVE TypeInv
    OBVIOUS
  <2>1. GeoInv
    BY DefInitial DEF GeoInv, ReadersInit, Mounted
  <2>2. DefType
    BY DEF ReadersInit, Reader, DefType
  <2>3. GeoType /\ ViewType /\ LsType /\ MkType /\ TxtType /\ TextInv /\ StampInv
    BY DEF ReadersInit, Idle, NoView, NoListing, NoMkfs, GeoType, Mounted, ViewType, LsType,
           MkType, TxtType, TextInv, StampInv
  <2>4. QED
    BY <2>1, <2>2, <2>3 DEF TypeInv
<1>2. TypeInv /\ [ReadersNext]_allvars => TypeInv'
  <2> SUFFICES ASSUME TypeInv, [ReadersNext]_allvars PROVE TypeInv'
    OBVIOUS
  <2>1. GeoInv' /\ TextInv' /\ StampInv'
    BY GeoNext, TextNext, StampInvNext DEF TypeInv
  <2>2. DefType' /\ GeoType' /\ ViewType' /\ LsType' /\ MkType' /\ TxtType'
    BY DefTypeNext, GeoTypeNext, ViewTypeNext, LsTypeNext, MkTypeNext, TxtTypeNext
    DEF TypeInv, GeoInv
  <2>3. QED
    BY <2>1, <2>2 DEF TypeInv
<1>3. TypeInv => ReadersTypeOK
  <2> SUFFICES ASSUME TypeInv PROVE ReadersTypeOK
    OBVIOUS
  <2>1. def.phase = "lines" => def.ln \in 1 .. Len(def.text) + 1
    BY DEF TypeInv, GeoInv, DefInv, NoReader, InLines
  <2>2. Mounted => /\ geo.size \in Nat /\ geo.extents \in Nat \ {0}
                   /\ geo.skewtab \in [0 .. geo.sectrk - 1 -> 0 .. geo.sectrk - 1]
                   /\ geo.dirblks \in 1 .. geo.size
    BY DEF TypeInv, GeoInv, GeoType, Laid, IsTrack
  <2>3. txt.phase \in {"none", "in", "read", "out", "end", "failed"}
    BY DEF TypeInv, TextInv, TextOK, TextShape, NoText
  <2>4. st.phase \in {"none", "run"}
    BY SMTT(30) DEF TypeInv, StampInv, NoStamps
  <2>5. st # NoStamps => \A i \in DOMAIN st.sfcb : st.sfcb[i] \in 0 .. 255
    BY SMTT(30) DEF TypeInv, StampInv
  <2>6. QED
    BY <2>1, <2>2, <2>3, <2>4, <2>5
    DEF TypeInv, DefType, ViewType, LsType, MkType, TxtType, MaxRound, ReadersTypeOK
<1>4. QED
  BY <1>1, <1>2, <1>3, PTL DEF ReadersSpec

-----------------------------------------------------------------------------
(* What is listed                                                           *)

\* One step of a fold: cpmglob takes a name or leaves it while there are
\* patterns, the sort behind them puts it in its place.
PutIn(args, names, name) ==
  IF args = <<>> THEN Inserted(names, name)
  ELSE IF Matches(name, Head(args)) THEN Append(names, name) ELSE names

IsListing(args, base, seq, n, h) ==
  h = [s \in SUBSET (1 .. n) |->
         IF s = {} THEN base
         ELSE PutIn(args, h[s \ {Seqs!Max(s)}], seq[Seqs!Max(s)])]

LEMMA ListingThere ==
  ASSUME NEW args, NEW base, NEW seq, NEW n \in Nat
  PROVE  \E h : IsListing(args, base, seq, n, h)
<1> DEFINE R(h, s) == IF s = {} THEN base
                      ELSE PutIn(args, h[s \ {Seqs!Max(s)}], seq[Seqs!Max(s)])
           Fills(h, m) == h = [s \in SUBSET (1 .. m) |-> R(h, s)]
           M == {m \in 0 .. n : \E h : Fills(h, m)}
<1>1. 0 \in M
  <2> DEFINE h == [s \in SUBSET (1 .. 0) |-> base]
  <2>1. 1 .. 0 = {}
    OBVIOUS
  <2>2. \A s \in SUBSET (1 .. 0) : h[s] = R(h, s)
    BY <2>1
  <2>3. h = [s \in SUBSET (1 .. 0) |-> h[s]]
    OBVIOUS
  <2> HIDE DEF h, R
  <2>4. Fills(h, 0)
    BY <2>2, <2>3
  <2> HIDE DEF Fills
  <2>5. QED
    BY <2>4
<1>2. ASSUME NEW m \in 1 .. n, m - 1 \in M
      PROVE  m \in M
  <2>1. PICK f : Fills(f, m - 1)
    BY <1>2
  <2> DEFINE g == [s \in SUBSET (1 .. m) |->
                     IF m \in s THEN PutIn(args, f[s \ {m}], seq[m]) ELSE f[s]]
  <2>2. ASSUME NEW s \in SUBSET (1 .. m)
        PROVE  g[s] = R(g, s)
    <3>1. CASE m \in s
      <4>1. Seqs!Max(s) = m
        <5>1. s \in SUBSET Int /\ \A x \in s : x <= m
          OBVIOUS
        <5>2. QED
          BY <3>1, <5>1, GreatestIs
      <4>2. s \ {m} \in SUBSET (1 .. m) /\ m \notin s \ {m}
        OBVIOUS
      <4>3. g[s \ {m}] = f[s \ {m}]
        BY <4>2
      <4>4. g[s] = PutIn(args, f[s \ {m}], seq[m]) /\ s # {}
        BY <3>1
      <4> HIDE DEF g
      <4>5. QED
        BY <4>1, <4>3, <4>4
    <3>2. CASE m \notin s
      <4>1. s \in SUBSET (1 .. m - 1)
        BY <3>2
      <4>2. g[s] = f[s] /\ f[s] = R(f, s)
        BY <2>1, <3>2, <4>1
      <4>3. CASE s # {}
        <5> DEFINE r == s \ {Seqs!Max(s)}
        <5>1. r \in SUBSET (1 .. m) /\ m \notin r
          BY <3>2
        <5>2. g[r] = f[r]
          BY <5>1
        <5> HIDE DEF g
        <5>3. QED
          BY <4>2, <4>3, <5>2
      <4>4. QED
        BY <4>2, <4>3
    <3>3. QED
      BY <3>1, <3>2
  <2>3. g = [s \in SUBSET (1 .. m) |-> g[s]]
    OBVIOUS
  <2> HIDE DEF g, R
  <2>4. Fills(g, m)
    BY <2>2, <2>3
  <2> HIDE DEF Fills
  <2>5. QED
    BY <2>4
<1>3. n \in M
  <2> HIDE DEF M
  <2>1. \A m \in 0 .. n : m \in M
    BY <1>1, <1>2, Upwards
  <2>2. QED
    BY <2>1
<1>4. QED
  BY <1>3 DEF IsListing

\* The names that are there when the first m of seq were taken
Grows(args, base, seq, n, h) ==
  /\ h[1 .. 0] = base
  /\ \A m \in 1 .. n : h[1 .. m] = PutIn(args, h[1 .. m - 1], seq[m])

LEMMA ListingSteps ==
  ASSUME NEW args, NEW base, NEW seq, NEW n \in Nat, NEW h,
         IsListing(args, base, seq, n, h)
  PROVE  Grows(args, base, seq, n, h)
<1>1. h[1 .. 0] = base
  <2>1. 1 .. 0 = {} /\ 1 .. 0 \in SUBSET (1 .. n)
    OBVIOUS
  <2>2. QED
    BY <2>1 DEF IsListing
<1>2. ASSUME NEW m \in 1 .. n
      PROVE  h[1 .. m] = PutIn(args, h[1 .. m - 1], seq[m])
  <2>1. 1 .. m \in SUBSET (1 .. n) /\ 1 .. m # {} /\ (1 .. m) \ {m} = 1 .. m - 1
    OBVIOUS
  <2>2. Seqs!Max(1 .. m) = m
    <3>1. 1 .. m \in SUBSET Int /\ m \in 1 .. m /\ \A x \in 1 .. m : x <= m
      OBVIOUS
    <3>2. QED
      BY <3>1, GreatestIs
  <2>3. QED
    BY <2>1, <2>2 DEF IsListing
<1>3. QED
  BY <1>1, <1>2 DEF Grows

LEMMA GlobBy ==
  ASSUME Glob, NEW n, n = Len(ReaddirNames), n \in Nat,
         DOMAIN ReaddirNames = 1 .. n
  PROVE  \E h : /\ IsListing(ls.args, ls.names, ReaddirNames, n, h)
                /\ ls' = [ls EXCEPT !.args = Tail(@), !.names = h[1 .. n]]
<1> DEFINE seq == ReaddirNames
           base == ls.names
           R(h) == h = [s \in SUBSET (1 .. n) |->
                     IF s = {} THEN base
                     ELSE IF Matches(seq[Seqs!Max(s)], Head(ls.args))
                          THEN Append(h[s \ {Seqs!Max(s)}], seq[Seqs!Max(s)])
                          ELSE h[s \ {Seqs!Max(s)}]]
           g == CHOOSE h : R(h)
<1>1. \A h : R(h) <=> IsListing(ls.args, base, seq, n, h)
  BY DEF Glob, IsListing, PutIn
<1>2. IsListing(ls.args, base, seq, n, g)
  <2>1. \E h : IsListing(ls.args, base, seq, n, h)
    BY ListingThere
  <2> HIDE DEF R
  <2>2. QED
    BY <1>1, <2>1
<1>3. ls' = [ls EXCEPT !.args = Tail(@), !.names = g[1 .. n]]
  BY DEF Glob, Seqs!FoldLeft, Seqs!MapThenFoldSet
<1>4. QED
  BY <1>2, <1>3

LEMMA SortedBy ==
  ASSUME NEW seq, NEW n \in Nat, DOMAIN seq = 1 .. n
  PROVE  \E h : /\ IsListing(<<>>, <<>>, seq, n, h)
                /\ Sorted(seq) = h[1 .. n]
<1> DEFINE R(h) == h = [s \in SUBSET (1 .. n) |->
                     IF s = {} THEN <<>>
                     ELSE Inserted(h[s \ {Seqs!Max(s)}], seq[Seqs!Max(s)])]
           g == CHOOSE h : R(h)
<1>1. \A h : R(h) <=> IsListing(<<>>, <<>>, seq, n, h)
  BY DEF IsListing, PutIn
<1>2. IsListing(<<>>, <<>>, seq, n, g)
  <2>1. \E h : IsListing(<<>>, <<>>, seq, n, h)
    BY ListingThere
  <2> HIDE DEF R
  <2>2. QED
    BY <1>1, <2>1
<1>3. Sorted(seq) = g[1 .. n]
  BY DEF Sorted, Seqs!FoldLeft, Seqs!MapThenFoldSet
<1>4. QED
  BY <1>2, <1>3

\* How often a name is in a list, and in its first m places
CountTo(names, m, x) == Cardinality({i \in 1 .. m : names[i] = x})
Count(names, x) == CountTo(names, Len(names), x)

LEMMA CountToType ==
  ASSUME NEW names, NEW m \in Nat, NEW x
  PROVE  /\ IsFiniteSet({i \in 1 .. m : names[i] = x})
         /\ CountTo(names, m, x) \in Nat
<1> DEFINE S == {i \in 1 .. m : names[i] = x}
<1>1. IsFiniteSet(1 .. m) /\ S \in SUBSET (1 .. m)
  BY FS_Interval
<1> HIDE DEF S
<1>2. IsFiniteSet(S) /\ Cardinality(S) \in Nat
  BY <1>1, FS_Subset, FS_CardinalityType
<1>3. QED
  BY <1>2 DEF CountTo, S

LEMMA CountToNext ==
  ASSUME NEW names, NEW m \in Nat \ {0}, NEW x
  PROVE  CountTo(names, m, x) =
           CountTo(names, m - 1, x) + (IF names[m] = x THEN 1 ELSE 0)
<1> DEFINE S == {i \in 1 .. m : names[i] = x}
           T == {i \in 1 .. m - 1 : names[i] = x}
<1>1. IsFiniteSet(T) /\ Cardinality(T) \in Nat /\ m \notin T
  <2>1. m - 1 \in Nat
    OBVIOUS
  <2>2. IsFiniteSet(T) /\ CountTo(names, m - 1, x) \in Nat
    BY <2>1, CountToType, Zenon
  <2>3. m \notin T
    OBVIOUS
  <2>4. QED
    BY <2>2, <2>3 DEF CountTo
<1>2. CASE names[m] = x
  <2>1. S = T \cup {m}
    BY <1>2
  <2> HIDE DEF S, T
  <2>2. Cardinality(S) = Cardinality(T) + 1
    BY <1>1, <2>1, FS_AddElement
  <2>3. QED
    BY <1>2, <2>2 DEF CountTo, S, T
<1>3. CASE names[m] # x
  <2>1. S = T
    BY <1>3
  <2>2. QED
    BY <1>1, <1>3, <2>1 DEF CountTo
<1>4. QED
  BY <1>2, <1>3

\* List t is list s with y at place p
With(t, s, p, y) ==
  /\ p \in 1 .. Len(s) + 1
  /\ Len(t) = Len(s) + 1
  /\ \A i \in 1 .. p - 1 : t[i] = s[i]
  /\ t[p] = y
  /\ \A i \in p .. Len(s) : t[i + 1] = s[i]

LEMMA CountWith ==
  ASSUME NEW s, NEW t, NEW p, NEW y, With(t, s, p, y), Len(s) \in Nat, NEW x
  PROVE  Count(t, x) = Count(s, x) + (IF y = x THEN 1 ELSE 0)
<1> DEFINE L == Len(s)
           S == {i \in 1 .. L : s[i] = x}
           T == {i \in 1 .. L + 1 : t[i] = x}
           R == T \ {p}
           f == [i \in S |-> IF i < p THEN i ELSE i + 1]
<1>1. /\ L \in Nat /\ p \in 1 .. L + 1 /\ Len(t) = L + 1 /\ t[p] = y
      /\ \A i \in 1 .. p - 1 : t[i] = s[i]
      /\ \A i \in p .. L : t[i + 1] = s[i]
  BY DEF With
<1>2. IsFiniteSet(S) /\ Cardinality(S) \in Nat
  BY <1>1, CountToType, ZenonT(60) DEF CountTo
<1>3. f \in Bijection(S, R)
  <2>1. ASSUME NEW i \in S
        PROVE  f[i] \in R
    <3>1. CASE i < p
      <4>1. i \in 1 .. p - 1 /\ i \in 1 .. L + 1 /\ i # p /\ f[i] = i
        BY <1>1, <3>1
      <4>2. t[i] = s[i] /\ s[i] = x
        BY <1>1, <4>1
      <4>3. QED
        BY <4>1, <4>2
    <3>2. CASE ~(i < p)
      <4>1. i \in p .. L /\ i + 1 \in 1 .. L + 1 /\ i + 1 # p /\ f[i] = i + 1
        BY <1>1, <3>2
      <4>2. t[i + 1] = s[i] /\ s[i] = x
        BY <1>1, <4>1
      <4>3. QED
        BY <4>1, <4>2
    <3>3. QED
      BY <3>1, <3>2
  <2>2. ASSUME NEW i \in S, NEW j \in S, f[i] = f[j]
        PROVE  i = j
    <3>1. /\ i \in Nat /\ j \in Nat /\ p \in Nat
          /\ f[i] = (IF i < p THEN i ELSE i + 1) /\ f[j] = (IF j < p THEN j ELSE j + 1)
          /\ f[i] = f[j]
      BY <1>1, <2>2
    <3> HIDE DEF f, S
    <3>2. QED
      BY <3>1
  <2>3. ASSUME NEW k \in R
        PROVE  \E i \in S : f[i] = k
    <3>1. CASE k < p
      <4>1. k \in 1 .. p - 1 /\ k \in 1 .. L
        BY <1>1, <3>1
      <4>2. k \in S
        BY <1>1, <4>1
      <4>3. QED
        BY <3>1, <4>2
    <3>2. CASE ~(k < p)
      <4>1. k - 1 \in p .. L /\ k - 1 \in 1 .. L /\ k - 1 + 1 = k /\ ~(k - 1 < p)
        BY <1>1, <3>2
      <4>2. t[k - 1 + 1] = s[k - 1]
        BY <1>1, <4>1
      <4>3. k - 1 \in S
        BY <4>1, <4>2
      <4>4. QED
        BY <4>1, <4>3
    <3>3. QED
      BY <3>1, <3>2
  <2>4. f \in [S -> R]
    BY <2>1
  <2> HIDE DEF f, S, R
  <2>5. QED
    BY <2>2, <2>3, <2>4 DEF Bijection, Injection, Surjection, IsInjective
<1>4. IsFiniteSet(R) /\ Cardinality(R) = Cardinality(S)
  <2>1. ExistsBijection(S, R)
    BY <1>3, Zenon DEF ExistsBijection
  <2> HIDE DEF S, R
  <2>2. QED
    BY <1>2, <2>1, FS_Bijection
<1>5. CASE y = x
  <2>1. T = R \cup {p} /\ p \notin R
    BY <1>1, <1>5
  <2> HIDE DEF T, R, S
  <2>2. Cardinality(T) = Cardinality(S) + 1
    BY <1>2, <1>4, <2>1, FS_AddElement
  <2>3. QED
    BY <1>1, <1>5, <2>2 DEF Count, CountTo, T, S, L
<1>6. CASE y # x
  <2>1. T = R
    BY <1>1, <1>6
  <2> HIDE DEF R, S, T
  <2>2. Cardinality(T) = Cardinality(S) + 0
    BY <1>2, <1>4, <2>1
  <2>3. QED
    BY <1>1, <1>6, <2>2 DEF Count, CountTo, T, S, L
<1>7. QED
  BY <1>5, <1>6

\* A name of which strcmp knows the order of the characters
Ordered(a) == IsSequence(a) /\ \A i \in 1 .. Len(a) : Rank(a[i]) \in Int

LEMMA BeforeOne ==
  ASSUME NEW a, NEW b, Ordered(a), Ordered(b), Before(a, b)
  PROVE  ~Before(b, a)
<1> SUFFICES ASSUME Before(b, a) PROVE FALSE
  OBVIOUS
<1>1. Len(a) \in Nat /\ Len(b) \in Nat
  BY SequenceLength DEF Ordered
<1>2. PICK n \in 0 .. Len(a) :
        /\ n < Len(b) /\ \A k \in 1 .. n : a[k] = b[k]
        /\ n < Len(a) => Rank(a[n + 1]) < Rank(b[n + 1])
  BY DEF Before
<1>3. PICK m \in 0 .. Len(b) :
        /\ m < Len(a) /\ \A k \in 1 .. m : b[k] = a[k]
        /\ m < Len(b) => Rank(b[m + 1]) < Rank(a[m + 1])
  BY DEF Before
<1>4. \A i \in 1 .. Len(a) : Rank(a[i]) \in Int
  BY DEF Ordered
<1>5. \A i \in 1 .. Len(b) : Rank(b[i]) \in Int
  BY DEF Ordered
<1>6. CASE n < m
  <2>1. n + 1 \in 1 .. m /\ n < Len(a) /\ n + 1 \in 1 .. Len(a)
    BY <1>1, <1>2, <1>3, <1>6
  <2>2. a[n + 1] = b[n + 1]
    BY <1>3, <2>1
  <2>3. Rank(a[n + 1]) < Rank(a[n + 1]) /\ Rank(a[n + 1]) \in Int
    BY <1>2, <1>4, <2>1, <2>2
  <2>4. QED
    BY <2>3
<1>7. CASE m < n
  <2>1. m + 1 \in 1 .. n /\ m < Len(b) /\ m + 1 \in 1 .. Len(b)
    BY <1>1, <1>2, <1>3, <1>7
  <2>2. a[m + 1] = b[m + 1]
    BY <1>2, <2>1
  <2>3. Rank(b[m + 1]) < Rank(b[m + 1]) /\ Rank(b[m + 1]) \in Int
    BY <1>3, <1>5, <2>1, <2>2
  <2>4. QED
    BY <2>3
<1>8. CASE n = m
  <2>1. n + 1 \in 1 .. Len(a) /\ n + 1 \in 1 .. Len(b)
    BY <1>1, <1>2, <1>3, <1>8
  <2>2. /\ Rank(a[n + 1]) < Rank(b[n + 1]) /\ Rank(b[n + 1]) < Rank(a[n + 1])
        /\ Rank(a[n + 1]) \in Int /\ Rank(b[n + 1]) \in Int
    BY <1>2, <1>3, <1>4, <1>5, <1>8, <2>1
  <2>3. QED
    BY <2>2
<1>9. n \in Nat /\ m \in Nat
  OBVIOUS
<1>10. QED
  BY <1>6, <1>7, <1>8, <1>9

LEMMA BeforeAll ==
  ASSUME NEW a, NEW b, NEW c, Ordered(a), Ordered(b), Ordered(c),
         Before(a, b), Before(b, c)
  PROVE  Before(a, c)
<1>1. Len(a) \in Nat /\ Len(b) \in Nat /\ Len(c) \in Nat
  BY SequenceLength DEF Ordered
<1>2. PICK n \in 0 .. Len(a) :
        /\ n < Len(b) /\ \A k \in 1 .. n : a[k] = b[k]
        /\ n < Len(a) => Rank(a[n + 1]) < Rank(b[n + 1])
  BY DEF Before
<1>3. PICK m \in 0 .. Len(b) :
        /\ m < Len(c) /\ \A k \in 1 .. m : b[k] = c[k]
        /\ m < Len(b) => Rank(b[m + 1]) < Rank(c[m + 1])
  BY DEF Before
<1>4. /\ \A i \in 1 .. Len(a) : Rank(a[i]) \in Int
      /\ \A i \in 1 .. Len(b) : Rank(b[i]) \in Int
      /\ \A i \in 1 .. Len(c) : Rank(c[i]) \in Int
  BY DEF Ordered
<1>5. CASE n < m
  <2>1. n < Len(c) /\ n + 1 \in 1 .. m
    BY <1>1, <1>2, <1>3, <1>5
  <2>2. \A k \in 1 .. n : a[k] = c[k]
    <3>1. \A k \in 1 .. n : k \in 1 .. m
      BY <1>5
    <3>2. QED
      BY <1>2, <1>3, <3>1
  <2>3. n < Len(a) => Rank(a[n + 1]) < Rank(c[n + 1])
    BY <1>2, <1>3, <2>1
  <2>4. QED
    BY <2>1, <2>2, <2>3 DEF Before
<1>6. CASE m <= n
  <2>1. m \in 0 .. Len(a) /\ m < Len(c)
    BY <1>1, <1>2, <1>3, <1>6
  <2>2. \A k \in 1 .. m : a[k] = c[k]
    <3>1. \A k \in 1 .. m : k \in 1 .. n
      BY <1>6
    <3>2. QED
      BY <1>2, <1>3, <3>1
  <2>3. ASSUME m < Len(a)
        PROVE  Rank(a[m + 1]) < Rank(c[m + 1])
    <3>1. m < Len(b) /\ m + 1 \in 1 .. Len(a) /\ m + 1 \in 1 .. Len(b) /\ m + 1 \in 1 .. Len(c)
      BY <1>1, <1>2, <1>3, <1>6, <2>3
    <3>2. Rank(b[m + 1]) < Rank(c[m + 1])
      BY <1>3, <3>1
    <3>3. CASE m < n
      <4>1. m + 1 \in 1 .. n
        BY <3>3
      <4>2. a[m + 1] = b[m + 1]
        BY <1>2, <4>1
      <4>3. QED
        BY <3>2, <4>2
    <3>4. CASE m = n
      <4>1. Rank(a[m + 1]) < Rank(b[m + 1])
        BY <1>2, <2>3, <3>4
      <4>2. Rank(a[m + 1]) \in Int /\ Rank(b[m + 1]) \in Int /\ Rank(c[m + 1]) \in Int
        BY <1>4, <3>1
      <4>3. QED
        BY <3>2, <4>1, <4>2
    <3>5. QED
      BY <1>6, <3>3, <3>4
  <2>4. QED
    BY <2>1, <2>2, <2>3 DEF Before
<1>7. n \in Nat /\ m \in Nat
  OBVIOUS
<1>8. QED
  BY <1>5, <1>6, <1>7

Ascending(names) ==
  \A j \in 1 .. Len(names) : \A i \in 1 .. j - 1 : ~Before(names[j], names[i])

\* A list of names that have an order
OrderedNames(names) ==
  IsSequence(names) /\ \A i \in 1 .. Len(names) : Ordered(names[i])

LEMMA SmallestIs ==
  ASSUME NEW s \in SUBSET Int, NEW n \in s, \A m \in s : n <= m
  PROVE  Seqs!Min(s) = n
<1>1. \A x \in s : n >= x => x = n
  OBVIOUS
<1>2. QED
  BY <1>1 DEF Seqs!Min

LEMMA InsertAtIs ==
  ASSUME NEW s, IsSequence(s), NEW p \in 1 .. Len(s) + 1, NEW y,
         NEW t, t = Seqs!InsertAt(s, p, y)
  PROVE  IsSequence(t) /\ With(t, s, p, y)
<1>1. PICK S : s \in Seq(S)
  BY DEF IsSequence
<1> DEFINE T == S \cup {y}
           u == SubSeq(s, 1, p - 1)
           v == SubSeq(s, p, Len(s))
<1>2. s \in Seq(T) /\ y \in T /\ Len(s) \in Nat
  BY <1>1
<1> HIDE DEF T
<1>3. /\ u \in Seq(T) /\ Len(u) = p - 1
      /\ v \in Seq(T) /\ Len(v) = Len(s) + 1 - p
      /\ \A i \in 1 .. p - 1 : u[i] = s[i]
      /\ \A i \in 1 .. Len(s) + 1 - p : v[i] = s[i + p - 1]
  BY <1>2
<1>4. <<y>> \in Seq(T) /\ Len(<<y>>) = 1 /\ <<y>>[1] = y
  BY <1>2
<1>5. t = u \o <<y>> \o v
  BY DEF Seqs!InsertAt
<1> DEFINE w == u \o <<y>>
<1> HIDE DEF u, v
<1>6. /\ w \in Seq(T) /\ Len(w) = p /\ w[p] = y
      /\ \A i \in 1 .. p - 1 : w[i] = u[i]
  BY <1>3, <1>4
<1> HIDE DEF w
<1>7. /\ t \in Seq(T) /\ Len(t) = Len(s) + 1
      /\ \A i \in 1 .. p : t[i] = w[i]
      /\ \A i \in p + 1 .. Len(s) + 1 : t[i] = v[i - p]
  <2>1. t = w \o v
    BY <1>5 DEF w
  <2>2. Len(w) = p /\ Len(v) = Len(s) + 1 - p /\ Len(s) \in Nat /\ p \in Nat
    BY <1>2, <1>3, <1>6
  <2>3. t \in Seq(T) /\ Len(t) = Len(s) + 1
    <3>1. w \in Seq(T) /\ v \in Seq(T)
      BY <1>3, <1>6
    <3>2. t \in Seq(T) /\ Len(t) = Len(w) + Len(v)
      BY <2>1, <3>1
    <3>3. QED
      BY <2>2, <3>2
  <2>4. \A i \in 1 .. p : t[i] = w[i]
    BY <1>3, <1>6, <2>1, <2>2
  <2>5. \A i \in p + 1 .. Len(s) + 1 : t[i] = v[i - p]
    BY <1>3, <1>6, <2>1, <2>2
  <2>6. QED
    BY <2>3, <2>4, <2>5
<1>8. \A i \in p .. Len(s) : t[i + 1] = s[i]
  <2> SUFFICES ASSUME NEW i \in p .. Len(s) PROVE t[i + 1] = s[i]
    OBVIOUS
  <2>1. i + 1 \in p + 1 .. Len(s) + 1 /\ i + 1 - p \in 1 .. Len(s) + 1 - p /\ i + 1 - p + p - 1 = i
    BY <1>2
  <2>2. t[i + 1] = v[i + 1 - p]
    BY <1>7, <2>1
  <2>3. v[i + 1 - p] = s[i + 1 - p + p - 1]
    BY <1>3, <2>1
  <2>4. QED
    BY <2>1, <2>2, <2>3
<1>9. \A i \in 1 .. p - 1 : t[i] = s[i]
  BY <1>3, <1>6, <1>7
<1>10. t[p] = y
  BY <1>6, <1>7
<1>11. QED
  BY <1>7, <1>8, <1>9, <1>10 DEF With, IsSequence

LEMMA AppendIs ==
  ASSUME NEW s, IsSequence(s), NEW y, NEW t, t = Append(s, y)
  PROVE  IsSequence(t) /\ With(t, s, Len(s) + 1, y)
<1>1. PICK S : s \in Seq(S)
  BY DEF IsSequence
<1> DEFINE T == S \cup {y}
<1>2. s \in Seq(T) /\ y \in T /\ Len(s) \in Nat
  BY <1>1
<1> HIDE DEF T
<1>3. /\ t \in Seq(T) /\ Len(t) = Len(s) + 1 /\ t[Len(s) + 1] = y
      /\ \A i \in 1 .. Len(s) : t[i] = s[i]
  BY <1>2
<1>4. QED
  BY <1>2, <1>3 DEF With, IsSequence

LEMMA InsertedIs ==
  ASSUME NEW names, OrderedNames(names), Ascending(names), NEW name, Ordered(name),
         NEW t, t = Inserted(names, name)
  PROVE  /\ OrderedNames(t) /\ Ascending(t)
         /\ \E p : With(t, names, p, name)
<1> DEFINE L == Len(names)
           places == {n \in 1 .. L + 1 : n > L \/ Before(name, names[n])}
<1>1. L \in Nat /\ IsSequence(names)
  BY SequenceLength DEF OrderedNames
<1>2. PICK p \in places : \A n \in places : p <= n
  <2>1. L + 1 \in places /\ places \in SUBSET Nat
    BY <1>1
  <2> HIDE DEF places
  <2>2. QED
    BY <2>1, LeastNumber
<1>3. p \in 1 .. L + 1 /\ (p > L \/ Before(name, names[p]))
  OBVIOUS
<1>4. t = Seqs!InsertAt(names, p, name)
  <2>1. places \in SUBSET Int
    BY <1>1
  <2>2. Inserted(names, name) = Seqs!InsertAt(names, Seqs!Min(places), name)
    BY Zenon DEF Inserted
  <2> HIDE DEF places
  <2>3. Seqs!Min(places) = p
    BY <1>2, <2>1, SmallestIs
  <2>4. QED
    BY <2>2, <2>3
<1>5. \A i \in 1 .. p - 1 : ~Before(name, names[i])
  <2> SUFFICES ASSUME NEW i \in 1 .. p - 1, Before(name, names[i]) PROVE FALSE
    OBVIOUS
  <2>1. i \in 1 .. L + 1 /\ i < p /\ i \in Int /\ p \in Int
    BY <1>1, <1>3
  <2>2. i \in places
    BY <2>1
  <2> HIDE DEF places
  <2>3. p <= i
    BY <1>2, <2>2
  <2>4. QED
    BY <2>1, <2>3
<1>6. \A i \in 1 .. L : Ordered(names[i])
  BY DEF OrderedNames
<1>7. \A i \in p .. L : ~Before(names[i], name)
  <2> SUFFICES ASSUME NEW i \in p .. L, Before(names[i], name) PROVE FALSE
    OBVIOUS
  <2>1. p \in 1 .. L /\ i \in 1 .. L /\ ~(p > L)
    BY <1>1, <1>3
  <2>2. Before(name, names[p]) /\ Ordered(names[p]) /\ Ordered(names[i])
    BY <1>3, <1>6, <2>1
  <2>3. Before(names[i], names[p])
    BY <2>2, BeforeAll
  <2>4. CASE i = p
    BY <2>2, <2>3, <2>4, BeforeOne
  <2>5. CASE i # p
    <3>1. p \in 1 .. i - 1
      BY <2>1, <2>5
    <3>2. QED
      BY <2>1, <2>3, <3>1 DEF Ascending
  <2>6. QED
    BY <2>4, <2>5
<1>8. IsSequence(t) /\ With(t, names, p, name)
  BY <1>1, <1>3, <1>4, InsertAtIs
<1> HIDE DEF places
<1>9. /\ p \in 1 .. L + 1 /\ Len(t) = L + 1 /\ t[p] = name
      /\ \A i \in 1 .. p - 1 : t[i] = names[i]
      /\ \A i \in p + 1 .. L + 1 : t[i] = names[i - 1]
  <2>1. \A i \in p + 1 .. L + 1 : i - 1 \in p .. L /\ i - 1 + 1 = i
    BY <1>1, <1>3
  <2>2. QED
    BY <1>8, <2>1 DEF With
<1>10. \A i \in 1 .. L + 1 : \/ i \in 1 .. p - 1 /\ i \in 1 .. L
                             \/ i = p
                             \/ i \in p + 1 .. L + 1 /\ i - 1 \in 1 .. L /\ i - 1 \in p .. L
  BY <1>1, <1>9
<1>11. ASSUME NEW i \in 1 .. L + 1
       PROVE  Ordered(t[i])
  BY <1>6, <1>9, <1>10
<1>12. ASSUME NEW j \in 1 .. L + 1, NEW i \in 1 .. j - 1
       PROVE  ~Before(t[j], t[i])
  <2>1. i \in 1 .. L + 1 /\ i < j /\ i \in Int /\ j \in Int /\ p \in Int
    BY <1>1, <1>9
  <2>2. CASE j \in 1 .. p - 1
    <3>1. i \in 1 .. p - 1 /\ j \in 1 .. L
      BY <1>1, <1>9, <2>1, <2>2
    <3>2. t[i] = names[i] /\ t[j] = names[j]
      BY <1>9, <2>2, <3>1
    <3>3. QED
      BY <3>1, <3>2 DEF Ascending
  <2>3. CASE j = p
    <3>1. i \in 1 .. p - 1
      BY <2>3
    <3>2. QED
      BY <1>5, <1>9, <2>3, <3>1
  <2>4. CASE j \in p + 1 .. L + 1
    <3>1. j - 1 \in p .. L /\ j - 1 \in 1 .. L /\ t[j] = names[j - 1]
      BY <1>1, <1>9, <2>4
    <3>2. CASE i \in 1 .. p - 1
      <4>1. t[i] = names[i] /\ i \in 1 .. j - 1 - 1
        BY <1>9, <2>4, <3>2
      <4>2. QED
        BY <3>1, <4>1 DEF Ascending
    <3>3. CASE i = p
      BY <1>7, <1>9, <3>1, <3>3
    <3>4. CASE i \in p + 1 .. L + 1
      <4>1. t[i] = names[i - 1] /\ i - 1 \in 1 .. j - 1 - 1
        BY <1>9, <2>1, <3>4
      <4>2. QED
        BY <3>1, <4>1 DEF Ascending
    <3>5. QED
      BY <1>10, <2>1, <3>2, <3>3, <3>4
  <2>5. QED
    BY <1>10, <2>2, <2>3, <2>4
<1>13. QED
  BY <1>8, <1>9, <1>11, <1>12 DEF OrderedNames, Ascending

\* The sort keeps every name as often as it is there, and orders them.
LEMMA SortedIs ==
  ASSUME NEW names, OrderedNames(names)
  PROVE  /\ OrderedNames(Sorted(names)) /\ Ascending(Sorted(names))
         /\ \A x : Count(Sorted(names), x) = Count(names, x)
<1> DEFINE n == Len(names)
<1>1. n \in Nat /\ DOMAIN names = 1 .. n /\ \A i \in 1 .. n : Ordered(names[i])
  BY SequenceLength DEF OrderedNames
<1>2. PICK h : IsListing(<<>>, <<>>, names, n, h) /\ Sorted(names) = h[1 .. n]
  BY <1>1, SortedBy
<1>3. /\ h[1 .. 0] = <<>>
      /\ \A m \in 1 .. n : h[1 .. m] = Inserted(h[1 .. m - 1], names[m])
  <2>1. /\ h[1 .. 0] = <<>>
        /\ \A m \in 1 .. n : h[1 .. m] = PutIn(<<>>, h[1 .. m - 1], names[m])
    <3>1. Grows(<<>>, <<>>, names, n, h)
      <4> HIDE DEF n
      <4>1. QED
        BY <1>1, <1>2, ListingSteps
    <3>2. QED
      BY <3>1, Zenon DEF Grows
  <2>2. QED
    BY <2>1 DEF PutIn
<1> DEFINE r(m) == h[1 .. m]
           M == {m \in 0 .. n : /\ OrderedNames(r(m)) /\ Ascending(r(m))
                                /\ \A x : Count(r(m), x) = CountTo(names, m, x)}
<1>4. 0 \in M
  <2>1. r(0) = <<>>
    BY <1>3
  <2>2. <<>> \in Seq({}) /\ Len(<<>>) = 0 /\ 1 .. 0 = {}
    OBVIOUS
  <2>3. OrderedNames(<<>>) /\ Ascending(<<>>)
    BY <2>2 DEF OrderedNames, Ascending, IsSequence
  <2>4. \A x : Count(<<>>, x) = CountTo(names, 0, x)
    <3>1. \A x, s : {i \in 1 .. 0 : s[i] = x} = {}
      BY <2>2
    <3>2. QED
      BY <2>2, <3>1, Zenon DEF Count, CountTo
  <2>5. QED
    BY <1>1, <2>1, <2>3, <2>4
<1>5. ASSUME NEW m \in 1 .. n, m - 1 \in M
      PROVE  m \in M
  <2> DEFINE s == r(m - 1)
             t == r(m)
  <2>1. /\ OrderedNames(s) /\ Ascending(s)
        /\ \A x : Count(s, x) = CountTo(names, m - 1, x)
    BY <1>5
  <2>2. t = Inserted(s, names[m]) /\ Ordered(names[m])
    BY <1>1, <1>3
  <2> HIDE DEF s, t
  <2>3. /\ OrderedNames(t) /\ Ascending(t)
        /\ \E p : With(t, s, p, names[m])
    BY <2>1, <2>2, InsertedIs
  <2>4. ASSUME NEW x
        PROVE  Count(t, x) = CountTo(names, m, x)
    <3>1. Len(s) \in Nat
      BY <2>1, SequenceLength DEF OrderedNames
    <3>2. Count(t, x) = Count(s, x) + (IF names[m] = x THEN 1 ELSE 0)
      BY <2>3, <3>1, CountWith
    <3>3. m \in Nat \ {0}
      BY <1>1
    <3>4. CountTo(names, m, x) =
            CountTo(names, m - 1, x) + (IF names[m] = x THEN 1 ELSE 0)
      BY <3>3, CountToNext
    <3>5. QED
      BY <2>1, <3>2, <3>4
  <2>5. m \in 0 .. n
    BY <1>1
  <2>6. QED
    BY <2>3, <2>4, <2>5 DEF t
<1>6. n \in M
  <2> HIDE DEF M
  <2>1. \A m \in 0 .. n : m \in M
    BY <1>1, <1>4, <1>5, Upwards
  <2>2. QED
    BY <1>1, <2>1
<1>7. QED
  BY <1>2, <1>6 DEF Count

Once(names, n, x) == CountTo(names, n, x) = 1

LEMMA CountedOnce ==
  ASSUME NEW names, NEW n \in Nat, NEW s \in 1 .. n, NEW x,
         \A i \in 1 .. n : names[i] = x <=> i = s
  PROVE  Once(names, n, x)
<1>1. {i \in 1 .. n : names[i] = x} = {s}
  OBVIOUS
<1>2. QED
  BY <1>1, FS_Singleton DEF Once, CountTo

\* How often a pattern takes a name
TakesOf(x, pattern) == IF Matches(x, pattern) THEN 1 ELSE 0

Grown(new, old, x, pattern) == Count(new, x) = Count(old, x) + TakesOf(x, pattern)

\* cpmglob takes a name that is on the disk once as often as it matches.
LEMMA GlobIs ==
  ASSUME NEW args, NEW base, NEW seq, NEW n \in Nat, NEW h,
         IsListing(args, base, seq, n, h), args # <<>>, OrderedNames(base),
         \A i \in 1 .. n : Ordered(seq[i])
  PROVE  /\ OrderedNames(h[1 .. n])
         /\ \A x : Once(seq, n, x) => Grown(h[1 .. n], base, x, Head(args))
<1> DEFINE hit(x) == Matches(x, Head(args))
           r(m) == h[1 .. m]
           M == {m \in 0 .. n :
                   /\ OrderedNames(r(m))
                   /\ \A x : Count(r(m), x) =
                        Count(base, x) + (IF hit(x) THEN CountTo(seq, m, x) ELSE 0)}
<1>1. /\ r(0) = base
      /\ \A m \in 1 .. n : r(m) = IF hit(seq[m]) THEN Append(r(m - 1), seq[m]) ELSE r(m - 1)
  <2>1. /\ h[1 .. 0] = base
        /\ \A m \in 1 .. n : h[1 .. m] = PutIn(args, h[1 .. m - 1], seq[m])
    <3>1. Grows(args, base, seq, n, h)
      BY ListingSteps, Zenon
    <3>2. QED
      BY <3>1, Zenon DEF Grows
  <2>2. QED
    BY <2>1 DEF PutIn
<1> HIDE DEF hit, r
<1>2. ASSUME NEW s, OrderedNames(s), NEW x
      PROVE  Len(s) \in Nat /\ Count(s, x) \in Nat
  <2>1. Len(s) \in Nat
    BY <1>2, SequenceLength DEF OrderedNames
  <2>2. QED
    BY <2>1, CountToType DEF Count
<1>3. 0 \in M
  <2>1. ASSUME NEW x
        PROVE  CountTo(seq, 0, x) = 0
    <3>1. {i \in 1 .. 0 : seq[i] = x} = {}
      OBVIOUS
    <3>2. QED
      BY <3>1, FS_EmptySet DEF CountTo
  <2>2. ASSUME NEW x
        PROVE  Count(base, x) = Count(base, x) + (IF hit(x) THEN CountTo(seq, 0, x) ELSE 0)
    BY <1>2, <2>1
  <2>3. QED
    BY <1>1, <2>2
<1>4. ASSUME NEW m \in 1 .. n, m - 1 \in M
      PROVE  m \in M
  <2> DEFINE s == r(m - 1)
             t == r(m)
  <2>1. /\ OrderedNames(s)
        /\ \A x : Count(s, x) =
              Count(base, x) + (IF hit(x) THEN CountTo(seq, m - 1, x) ELSE 0)
    BY <1>4
  <2>2. t = IF hit(seq[m]) THEN Append(s, seq[m]) ELSE s
    BY <1>1
  <2> HIDE DEF s, t
  <2>3. ASSUME NEW x
        PROVE  /\ CountTo(seq, m, x) =
                    CountTo(seq, m - 1, x) + (IF seq[m] = x THEN 1 ELSE 0)
               /\ CountTo(seq, m, x) \in Nat /\ CountTo(seq, m - 1, x) \in Nat
    <3>1. m \in Nat \ {0} /\ m - 1 \in Nat /\ m \in Nat
      OBVIOUS
    <3>2. CountTo(seq, m, x) =
            CountTo(seq, m - 1, x) + (IF seq[m] = x THEN 1 ELSE 0)
      BY <3>1, CountToNext
    <3>3. CountTo(seq, m, x) \in Nat
      BY <3>1, CountToType
    <3>4. CountTo(seq, m - 1, x) \in Nat
      BY <3>1, CountToType
    <3>5. QED
      BY <3>2, <3>3, <3>4
  <2>4. CASE hit(seq[m])
    <3>1. IsSequence(s) /\ Len(s) \in Nat
      BY <2>1, SequenceLength DEF OrderedNames
    <3>2. t = Append(s, seq[m])
      BY <2>2, <2>4
    <3>3. IsSequence(t) /\ With(t, s, Len(s) + 1, seq[m])
      BY <3>1, <3>2, AppendIs
    <3>4. OrderedNames(t)
      <4>1. /\ Len(t) = Len(s) + 1 /\ t[Len(s) + 1] = seq[m]
            /\ \A i \in 1 .. Len(s) : t[i] = s[i]
        <5>1. Len(s) + 1 - 1 = Len(s)
          BY <3>1
        <5>2. QED
          BY <3>3, <5>1 DEF With
      <4>2. ASSUME NEW i \in 1 .. Len(t)
            PROVE  Ordered(t[i])
        <5>1. i \in 1 .. Len(s) \/ i = Len(s) + 1
          BY <3>1, <4>1
        <5>2. QED
          BY <2>1, <4>1, <5>1 DEF OrderedNames
      <4>3. QED
        BY <3>3, <4>2 DEF OrderedNames
    <3>5. ASSUME NEW x
          PROVE  Count(t, x) = Count(base, x) + (IF hit(x) THEN CountTo(seq, m, x) ELSE 0)
      <4>1. Count(t, x) = Count(s, x) + (IF seq[m] = x THEN 1 ELSE 0)
        BY <3>1, <3>3, CountWith
      <4>2. Count(base, x) \in Nat
        BY <1>2
      <4>3. CASE seq[m] = x
        <5>1. hit(x)
          BY <2>4, <4>3
        <5>2. QED
          BY <2>1, <2>3, <4>1, <4>2, <4>3, <5>1
      <4>4. CASE seq[m] # x
        <5>1. CountTo(seq, m, x) = CountTo(seq, m - 1, x)
          BY <2>3, <4>4
        <5>2. Count(t, x) = Count(s, x)
          BY <1>2, <2>1, <4>1, <4>4
        <5>3. QED
          BY <2>1, <5>1, <5>2
      <4>5. QED
        BY <4>3, <4>4
    <3>6. m \in 0 .. n
      OBVIOUS
    <3>7. QED
      BY <3>4, <3>5, <3>6 DEF t
  <2>5. CASE ~hit(seq[m])
    <3>1. t = s
      BY <2>2, <2>5
    <3>2. ASSUME NEW x
          PROVE  Count(t, x) = Count(base, x) + (IF hit(x) THEN CountTo(seq, m, x) ELSE 0)
      <4>1. CASE hit(x)
        <5>1. seq[m] # x
          BY <2>5, <4>1
        <5>2. CountTo(seq, m, x) = CountTo(seq, m - 1, x)
          BY <2>3, <5>1
        <5>3. QED
          BY <2>1, <3>1, <5>2
      <4>2. QED
        BY <2>1, <3>1, <4>1
    <3>3. m \in 0 .. n
      OBVIOUS
    <3>4. QED
      BY <2>1, <3>1, <3>2, <3>3 DEF t
  <2>6. QED
    BY <2>4, <2>5
<1>5. n \in M
  <2> HIDE DEF M
  <2>1. \A m \in 0 .. n : m \in M
    BY <1>3, <1>4, Upwards
  <2>2. QED
    BY <2>1
<1>6. QED
  BY <1>5 DEF r, hit, TakesOf, Once, Grown

-----------------------------------------------------------------------------
\* A digit has one value.
LEMMA DigitsApart ==
  \A i, j \in 1 .. 10 : Digits[i] = Digits[j] => i = j
<1>1. /\ Digits[1] = "0" /\ Digits[2] = "1" /\ Digits[3] = "2" /\ Digits[4] = "3"
      /\ Digits[5] = "4" /\ Digits[6] = "5" /\ Digits[7] = "6" /\ Digits[8] = "7"
      /\ Digits[9] = "8" /\ Digits[10] = "9"
  BY DEF Digits
<1>2. \A i \in 1 .. 10 : \/ i = 1 \/ i = 2 \/ i = 3 \/ i = 4 \/ i = 5
                         \/ i = 6 \/ i = 7 \/ i = 8 \/ i = 9 \/ i = 10
  OBVIOUS
<1>3. QED
  BY <1>1, <1>2

LEMMA DigitIs ==
  ASSUME NEW i \in 1 .. 10
  PROVE  /\ IsDigit(Digits[i]) /\ DigitVal[Digits[i]] = i - 1
         /\ Digits[i] # "."
<1>1. Digits[i] \in {Digits[j] : j \in 1 .. 10}
  OBVIOUS
<1>2. (CHOOSE j \in 1 .. 10 : Digits[j] = Digits[i]) = i
  BY DigitsApart
<1>3. DigitVal[Digits[i]] = i - 1 /\ IsDigit(Digits[i])
  BY <1>1, <1>2 DEF DigitVal, IsDigit
<1>4. Digits[i] # "."
  <2>1. \/ i = 1 \/ i = 2 \/ i = 3 \/ i = 4 \/ i = 5
        \/ i = 6 \/ i = 7 \/ i = 8 \/ i = 9 \/ i = 10
    OBVIOUS
  <2>2. QED
    BY <2>1 DEF Digits
<1>5. QED
  BY <1>3, <1>4

LEMMA UserIs ==
  ASSUME NEW u \in 0 .. 31
  PROVE  LET d == UserDigits(u)
         IN
         /\ IsSequence(d) /\ Len(d) = 2 /\ IsDigit(d[1]) /\ IsDigit(d[2])
         /\ 10 * DigitVal[d[1]] + DigitVal[d[2]] = u
         /\ d[1] # "."
         /\ \E k, l \in 1 .. 10 : d[1] = Digits[k] /\ d[2] = Digits[l]
<1> DEFINE d == UserDigits(u)
           i == (u \div 10) + 1
           j == (u % 10) + 1
<1>1. i \in 1 .. 10 /\ j \in 1 .. 10 /\ 10 * (i - 1) + (j - 1) = u
  OBVIOUS
<1>2. d = <<Digits[i], Digits[j]>>
  BY DEF UserDigits
<1> HIDE DEF i, j, d
<1>3. d \in Seq({Digits[i], Digits[j]}) /\ Len(d) = 2 /\ d[1] = Digits[i] /\ d[2] = Digits[j]
  BY <1>2
<1>4. /\ IsDigit(d[1]) /\ DigitVal[d[1]] = i - 1 /\ d[1] # "."
      /\ IsDigit(d[2]) /\ DigitVal[d[2]] = j - 1
  BY <1>1, <1>3, DigitIs
<1>5. 10 * DigitVal[d[1]] + DigitVal[d[2]] = u
  BY <1>1, <1>4
<1>6. QED
  BY <1>1, <1>3, <1>4, <1>5 DEF IsSequence, d

LEMMA UpToSame ==
  ASSUME NEW a \in Nat, NEW b \in Nat, 1 .. a = 1 .. b
  PROVE  a = b
<1>1. (a > 0 => a \in 1 .. b) /\ (b > 0 => b \in 1 .. a)
  OBVIOUS
<1>2. QED
  BY <1>1

LEMMA JoinIs ==
  ASSUME NEW S, NEW s \in Seq(S), NEW t \in Seq(S)
  PROVE  /\ s \o t \in Seq(S) /\ Len(s \o t) = Len(s) + Len(t)
         /\ \A i \in 1 .. Len(s) : (s \o t)[i] = s[i]
         /\ \A i \in 1 .. Len(t) : (s \o t)[Len(s) + i] = t[i]
<1>1. Len(s) \in Nat /\ Len(t) \in Nat
  OBVIOUS
<1>2. s \o t \in Seq(S) /\ Len(s \o t) = Len(s) + Len(t)
  OBVIOUS
<1>3. \A i \in 1 .. Len(s) : (s \o t)[i] = s[i]
  OBVIOUS
<1>4. ASSUME NEW i \in 1 .. Len(t)
      PROVE  (s \o t)[Len(s) + i] = t[i]
  <2>1. Len(s) + i \in Len(s) + 1 .. Len(s) + Len(t) /\ Len(s) + i - Len(s) = i
    BY <1>1
  <2>2. QED
    BY <1>1, <2>1
<1>5. QED
  BY <1>2, <1>3, <1>4

\* What Cut leaves: all characters up to the first blank
LEMMA CutIs ==
  ASSUME NEW s, IsSequence(s), NEW c, c = Cut(s)
  PROVE  /\ IsSequence(c) /\ Len(c) <= Len(s)
         /\ \A i \in 1 .. Len(c) : c[i] = s[i] /\ c[i] # Blank
<1> DEFINE blanks == {i \in DOMAIN s : s[i] = Blank}
           least == CHOOSE i \in blanks : \A j \in blanks : i <= j
<1>1. PICK S : s \in Seq(S)
  BY DEF IsSequence
<1>2. Len(s) \in Nat /\ DOMAIN s = 1 .. Len(s)
  BY SequenceLength
<1>3. CASE blanks = {}
  BY <1>2, <1>3 DEF Cut
<1>4. CASE blanks # {}
  <2>1. blanks \in SUBSET Nat /\ blanks \in SUBSET (1 .. Len(s))
    BY <1>2
  <2>2. \E i \in blanks : \A j \in blanks : i <= j
    <3>1. PICK t : t \in blanks
      BY <1>4
    <3> HIDE DEF blanks
    <3>2. QED
      BY <2>1, <3>1, LeastNumber
  <2>3. least \in blanks /\ \A j \in blanks : least <= j
    <3> HIDE DEF blanks
    <3>1. QED
      BY <2>2
  <2>4. least \in 1 .. Len(s)
    BY <2>1, <2>3
  <2>5. Cut(s) = SubSeq(s, 1, least - 1)
    BY <1>4, Zenon DEF Cut
  <2> HIDE DEF least
  <2>6. /\ Len(c) = least - 1
        /\ \A i \in 1 .. least - 1 : c[i] = s[i]
    BY <1>1, <1>2, <2>4, <2>5
  <2>7. ASSUME NEW i \in 1 .. least - 1
        PROVE  s[i] # Blank
    <3>1. i \in 1 .. Len(s) /\ i < least /\ i \in Int /\ least \in Int
      BY <1>2, <2>4
    <3>2. i \notin blanks
      <4> HIDE DEF blanks
      <4>1. QED
        BY <2>3, <3>1
    <3>3. QED
      BY <1>2, <3>1, <3>2
  <2>8. QED
    BY <1>2, <2>4, <2>6, <2>7, CutIsSequence
<1>5. QED
  BY <1>3, <1>4

\* What is padded and comes out as it was has blanks behind its characters only.
LEMMA PaddedIs ==
  ASSUME NEW s, IsSequence(s), NEW n \in Nat, NEW c, c = Cut(s), Padded(c, n) = s
  PROVE  /\ Len(s) = n /\ IsSequence(c) /\ Len(c) \in 0 .. n
         /\ \A i \in 1 .. Len(c) : c[i] = s[i] /\ c[i] # Blank
         /\ \A i \in Len(c) + 1 .. n : s[i] = Blank
<1>1. /\ IsSequence(c) /\ Len(c) <= Len(s)
      /\ \A i \in 1 .. Len(c) : c[i] = s[i] /\ c[i] # Blank
  BY CutIs
<1>2. Len(c) \in Nat /\ Len(s) \in Nat /\ DOMAIN s = 1 .. Len(s)
  BY <1>1, SequenceLength
<1>3. s = [i \in 1 .. n |-> IF i <= Len(c) THEN c[i] ELSE Blank]
  BY Zenon DEF Padded
<1>4. 1 .. n = 1 .. Len(s)
  BY <1>2, <1>3
<1>5. n = Len(s)
  BY <1>2, <1>4, UpToSame, Zenon
<1>6. \A i \in Len(c) + 1 .. n : s[i] = Blank
  <2>1. \A i \in Len(c) + 1 .. n : i \in 1 .. n /\ ~(i <= Len(c))
    BY <1>2
  <2>2. QED
    BY <1>3, <2>1
<1>7. QED
  BY <1>1, <1>2, <1>5, <1>6

LEMMA PaddedSame ==
  ASSUME NEW s, NEW t, Len(s) = Len(t), Len(s) \in Nat, NEW n \in Nat,
         \A i \in 1 .. Len(s) : s[i] = t[i]
  PROVE  Padded(s, n) = Padded(t, n)
<1>1. \A i \in 1 .. n : i <= Len(s) => i \in 1 .. Len(s)
  OBVIOUS
<1>2. QED
  BY <1>1 DEF Padded

\* A letter in lower case is no other character than a letter.
LettersAreLetters ==
  /\ NameLen \in Nat \ {0} /\ ExtLen \in Nat
  /\ DOMAIN Upper \cap (Special \cup {Blank}) = {}

Show(s, uppercase) == [i \in DOMAIN s |-> IF uppercase THEN s[i] ELSE ToLower(s[i])]

LEMMA ShowIs ==
  ASSUME NEW s, IsSequence(s), NEW uppercase, NEW t, t = Show(s, uppercase)
  PROVE  /\ IsSequence(t) /\ Len(t) = Len(s)
         /\ \A i \in 1 .. Len(s) : t[i] = IF uppercase THEN s[i] ELSE ToLower(s[i])
<1>1. Len(s) \in Nat /\ DOMAIN s = 1 .. Len(s)
  BY SequenceLength
<1>2. t = [i \in 1 .. Len(s) |-> IF uppercase THEN s[i] ELSE ToLower(s[i])]
  BY <1>1, Zenon DEF Show
<1>3. t = [i \in 1 .. Len(s) |-> t[i]]
  BY <1>2, Zenon
<1>4. IsSequence(t)
  BY <1>1, <1>3, ShownAs
<1>5. Len(t) \in Nat /\ DOMAIN t = 1 .. Len(t)
  BY <1>4, SequenceLength
<1>6. DOMAIN t = 1 .. Len(s)
  BY <1>2
<1>7. Len(t) = Len(s)
  <2>1. 1 .. Len(t) = 1 .. Len(s)
    BY <1>5, <1>6
  <2>2. QED
    BY <1>1, <1>5, <2>1, UpToSame, Zenon
<1>8. QED
  BY <1>2, <1>4, <1>7

\* How a name is put together
Spelt(full, u, c, x) ==
  /\ IsSequence(full)
  /\ Len(full) = 2 + Len(c) + (IF Len(x) = 0 THEN 0 ELSE Len(x) + 1)
  /\ \A i \in 1 .. 2 : full[i] = UserDigits(u)[i]
  /\ \A i \in 1 .. Len(c) : full[2 + i] = c[i]
  /\ Len(x) > 0 => full[3 + Len(c)] = "."
  /\ \A i \in 1 .. Len(x) : full[3 + Len(c) + i] = x[i]

LEMMA ListedParts ==
  ASSUME NEW e, e.user \in 0 .. 31, IsSequence(e.name), IsSequence(e.ext),
         NEW uppercase
  PROVE  Spelt(ListedName(e, uppercase), e.user, Show(Cut(e.name), uppercase),
               Show(Cut(e.ext), uppercase))
<1> DEFINE full == ListedName(e, uppercase)
           c == Show(Cut(e.name), uppercase)
           x == Show(Cut(e.ext), uppercase)
           u == UserDigits(e.user)
           dotted == <<".">> \o x
           tail == IF x = <<>> THEN <<>> ELSE dotted
           front == u \o c
<1>1. IsSequence(u) /\ Len(u) = 2
  BY UserIs
<1>2. /\ IsSequence(c) /\ Len(c) \in Nat
      /\ IsSequence(x) /\ Len(x) \in Nat
  <2>1. IsSequence(Cut(e.name)) /\ IsSequence(Cut(e.ext))
    BY CutIsSequence
  <2>2. IsSequence(c) /\ IsSequence(x)
    BY <2>1, ShowIs
  <2>3. QED
    BY <2>2, SequenceLength
<1>3. full = u \o c \o tail
  <2>1. full = UserDigits(e.user) \o c \o (IF x = <<>> THEN <<>> ELSE <<".">> \o x)
    BY DEF ListedName, Show
  <2>2. QED
    BY <2>1
<1> HIDE DEF u, full, c, x
<1>4. PICK S : u \in Seq(S) /\ c \in Seq(S) /\ x \in Seq(S) /\ "." \in S
  <2>1. PICK A : u \in Seq(A)
    BY <1>1 DEF IsSequence
  <2>2. PICK B : c \in Seq(B)
    BY <1>2 DEF IsSequence
  <2>3. PICK C : x \in Seq(C)
    BY <1>2 DEF IsSequence
  <2> DEFINE T == A \cup B \cup C \cup {"."}
  <2>4. A \in SUBSET T /\ B \in SUBSET T /\ C \in SUBSET T /\ "." \in T
    OBVIOUS
  <2> HIDE DEF T
  <2>5. u \in Seq(T) /\ c \in Seq(T) /\ x \in Seq(T)
    BY <2>1, <2>2, <2>3, <2>4
  <2>6. QED
    BY <2>4, <2>5
<1>5. /\ dotted \in Seq(S) /\ Len(dotted) = Len(x) + 1 /\ dotted[1] = "."
      /\ \A i \in 1 .. Len(x) : dotted[1 + i] = x[i]
  <2>1. <<".">> \in Seq(S) /\ Len(<<".">>) = 1 /\ <<".">>[1] = "."
    BY <1>4
  <2>2. QED
    BY <1>2, <1>4, <2>1
<1>6. x = <<>> <=> Len(x) = 0
  BY <1>4
<1> HIDE DEF dotted
<1>7. /\ tail \in Seq(S) /\ Len(tail) = IF Len(x) = 0 THEN 0 ELSE Len(x) + 1
      /\ Len(x) > 0 => tail[1] = "."
      /\ \A i \in 1 .. Len(x) : tail[1 + i] = x[i]
  <2>1. CASE Len(x) = 0
    BY <1>2, <1>4, <1>6, <2>1
  <2>2. CASE Len(x) # 0
    <3>1. tail = dotted
      BY <1>6, <2>2
    <3> HIDE DEF tail
    <3>2. QED
      BY <1>5, <2>2, <3>1
  <2>3. QED
    BY <2>1, <2>2
<1> HIDE DEF tail
<1>8. /\ front \in Seq(S) /\ Len(front) = 2 + Len(c)
      /\ \A i \in 1 .. 2 : front[i] = u[i]
      /\ \A i \in 1 .. Len(c) : front[2 + i] = c[i]
  <2>1. u \in Seq(S) /\ c \in Seq(S)
    BY <1>4
  <2>2. /\ front \in Seq(S) /\ Len(front) = Len(u) + Len(c)
        /\ \A i \in 1 .. Len(u) : front[i] = u[i]
        /\ \A i \in 1 .. Len(c) : front[Len(u) + i] = c[i]
    BY <2>1, JoinIs
  <2> HIDE DEF front
  <2>3. QED
    BY <1>1, <2>2
<1>9. full = front \o tail
  BY <1>3
<1> HIDE DEF front
<1>10. /\ full \in Seq(S) /\ Len(full) = 2 + Len(c) + Len(tail)
       /\ \A i \in 1 .. 2 + Len(c) : full[i] = front[i]
       /\ \A i \in 1 .. Len(tail) : full[2 + Len(c) + i] = tail[i]
  <2>1. /\ full \in Seq(S) /\ Len(full) = Len(front) + Len(tail)
        /\ \A i \in 1 .. Len(front) : full[i] = front[i]
        /\ \A i \in 1 .. Len(tail) : full[Len(front) + i] = tail[i]
    <3>1. front \in Seq(S) /\ tail \in Seq(S)
      BY <1>7, <1>8
    <3>2. /\ front \o tail \in Seq(S) /\ Len(front \o tail) = Len(front) + Len(tail)
          /\ \A i \in 1 .. Len(front) : (front \o tail)[i] = front[i]
          /\ \A i \in 1 .. Len(tail) : (front \o tail)[Len(front) + i] = tail[i]
      BY <3>1, JoinIs
    <3>3. QED
      BY <1>9, <3>2, Zenon
  <2>2. QED
    BY <1>8, <2>1
<1>11. \A i \in 1 .. 2 : full[i] = u[i]
  <2>1. \A i \in 1 .. 2 : i \in 1 .. 2 + Len(c)
    BY <1>2
  <2>2. QED
    BY <1>8, <1>10, <2>1
<1>12. \A i \in 1 .. Len(c) : full[2 + i] = c[i]
  <2>1. \A i \in 1 .. Len(c) : 2 + i \in 1 .. 2 + Len(c)
    BY <1>2
  <2>2. QED
    BY <1>8, <1>10, <2>1
<1>13. \A i \in 1 .. Len(x) : full[3 + Len(c) + i] = x[i]
  <2>1. \A i \in 1 .. Len(x) : 1 + i \in 1 .. Len(tail) /\ 2 + Len(c) + (1 + i) = 3 + Len(c) + i
    BY <1>2, <1>7
  <2>2. QED
    BY <1>7, <1>10, <2>1
<1>14. Len(x) > 0 => full[3 + Len(c)] = "."
  <2>1. Len(x) > 0 => 1 \in 1 .. Len(tail) /\ 2 + Len(c) + 1 = 3 + Len(c)
    BY <1>2, <1>7
  <2>2. QED
    BY <1>7, <1>10, <2>1
<1>15. QED
  BY <1>7, <1>10, <1>11, <1>12, <1>13, <1>14 DEF Spelt, IsSequence, u, full, c, x

LEMMA SubSeqIs ==
  ASSUME NEW s, IsSequence(s), NEW m \in 1 .. Len(s) + 1, NEW n \in m - 1 .. Len(s)
  PROVE  /\ IsSequence(SubSeq(s, m, n)) /\ Len(SubSeq(s, m, n)) = n + 1 - m
         /\ \A i \in 1 .. n + 1 - m : SubSeq(s, m, n)[i] = s[m - 1 + i]
<1>1. PICK S : s \in Seq(S)
  BY DEF IsSequence
<1>2. Len(s) \in Nat
  BY <1>1
<1>3. /\ SubSeq(s, m, n) \in Seq(S) /\ Len(SubSeq(s, m, n)) = n + 1 - m
      /\ \A i \in 1 .. n + 1 - m : SubSeq(s, m, n)[i] = s[m - 1 + i]
  BY <1>1, <1>2
<1>4. QED
  BY <1>3 DEF IsSequence

LEMMA ShownBack ==
  ASSUME LettersAreLetters, NEW c, c \notin DOMAIN Upper, NEW uppercase,
         NEW d, d = IF uppercase THEN c ELSE ToLower(c)
  PROVE  /\ ToUpper(d) = c
         /\ c \notin Special => d \notin Special
         /\ c # Blank => d # Blank
<1>1. CASE \E l \in DOMAIN Upper : Upper[l] = c
  <2> DEFINE small == CHOOSE l \in DOMAIN Upper : Upper[l] = c
  <2>1. small \in DOMAIN Upper /\ Upper[small] = c
    BY <1>1
  <2>2. ToLower(c) = small
    BY <1>1 DEF ToLower
  <2> HIDE DEF small
  <2>3. small \notin Special /\ small # Blank
    BY <2>1 DEF LettersAreLetters
  <2>4. ToUpper(small) = c /\ ToUpper(c) = c
    BY <2>1 DEF ToUpper
  <2>5. d = c \/ d = small
    BY <2>2
  <2>6. QED
    BY <2>3, <2>4, <2>5
<1>2. CASE ~\E l \in DOMAIN Upper : Upper[l] = c
  BY <1>2 DEF ToUpper, ToLower
<1>3. QED
  BY <1>1, <1>2

\* Parts cn and cx of a file of user u, shown as sn and sx in its name
HasParts(full, u, cn, cx, sn, sx, N, X) ==
  /\ u \in 0 .. 31 /\ IsSequence(full)
  /\ N \in 0 .. NameLen /\ X \in 0 .. ExtLen /\ (N > 0 \/ X > 0)
  /\ Len(cn) = N /\ Len(cx) = X
  /\ \A i \in 1 .. N : ToUpper(sn[i]) = cn[i] /\ sn[i] \notin Special /\ sn[i] # Blank
  /\ \A i \in 1 .. X : ToUpper(sx[i]) = cx[i] /\ sx[i] \notin Special /\ sx[i] # Blank
  /\ Len(full) = 2 + N + (IF X = 0 THEN 0 ELSE X + 1)
  /\ \A i \in 1 .. 2 : full[i] = UserDigits(u)[i]
  /\ \A i \in 1 .. N : full[2 + i] = sn[i]
  /\ X > 0 => full[3 + N] = "."
  /\ \A i \in 1 .. X : full[3 + N + i] = sx[i]

\* splitFilename undoes what cpmReaddir does to the parts of a name.
LEMMA SplitParts ==
  ASSUME NameLen \in Nat, ExtLen \in Nat, NEW u, NEW full,
         NEW cn, NEW cx, NEW sn, NEW sx, NEW N, NEW X,
         HasParts(full, u, cn, cx, sn, sx, N, X)
  PROVE  SplitFilename(full, MaxUser) =
           {[user |-> u, name |-> Padded(cn, NameLen), ext |-> Padded(cx, ExtLen)]}
<1> DEFINE rest == SubSeq(full, 3, Len(full))
           ends == {i \in 0 .. NameLen : i <= Len(rest) /\ (i = NameLen \/ i = Len(rest)
                                                        \/ rest[i + 1] = ".")}
           n == CHOOSE i \in ends : \A j \in ends : i <= j
           dot == n < Len(rest) /\ rest[n + 1] = "."
           tail == IF dot THEN SubSeq(rest, n + 2, Len(rest)) ELSE <<>>
           ext == SubSeq(tail, 1, IF Len(tail) < ExtLen THEN Len(tail) ELSE ExtLen)
           up(s) == [i \in DOMAIN s |-> ToUpper(s[i])]
<1>10. /\ \A i \in 1 .. N : /\ ToUpper(sn[i]) = cn[i] /\ sn[i] \notin Special
                            /\ sn[i] # Blank
       /\ \A i \in 1 .. X : /\ ToUpper(sx[i]) = cx[i] /\ sx[i] \notin Special
                            /\ sx[i] # Blank
  BY DEF HasParts
<1>11. /\ IsSequence(full)
       /\ Len(full) = 2 + N + (IF X = 0 THEN 0 ELSE X + 1)
       /\ \A i \in 1 .. 2 : full[i] = UserDigits(u)[i]
       /\ \A i \in 1 .. N : full[2 + i] = sn[i]
       /\ X > 0 => full[3 + N] = "."
       /\ \A i \in 1 .. X : full[3 + N + i] = sx[i]
  BY DEF HasParts
<1>12. /\ N \in 0 .. NameLen /\ X \in 0 .. ExtLen /\ N \in Nat /\ X \in Nat
       /\ NameLen \in Nat /\ ExtLen \in Nat /\ u \in 0 .. 31
       /\ (N > 0 \/ X > 0) /\ Len(cn) = N /\ Len(cx) = X
  BY DEF HasParts
<1>13. /\ IsSequence(rest) /\ Len(rest) = N + (IF X = 0 THEN 0 ELSE X + 1)
       /\ \A i \in 1 .. N : rest[i] = sn[i]
       /\ X > 0 => rest[N + 1] = "."
       /\ \A i \in 1 .. X : rest[N + 1 + i] = sx[i]
  <2>1. Len(full) \in Nat /\ Len(full) >= 2
    BY <1>11, <1>12
  <2>2. 3 \in 1 .. Len(full) + 1 /\ Len(full) \in 3 - 1 .. Len(full)
    BY <2>1
  <2>3. /\ IsSequence(rest) /\ Len(rest) = Len(full) + 1 - 3
        /\ \A i \in 1 .. Len(full) + 1 - 3 : rest[i] = full[3 - 1 + i]
    BY <1>11, <2>2, SubSeqIs
  <2> HIDE DEF rest
  <2>4. Len(rest) = N + (IF X = 0 THEN 0 ELSE X + 1)
    BY <1>11, <1>12, <2>3
  <2>5. \A i \in 1 .. Len(rest) : rest[i] = full[2 + i]
    BY <2>1, <2>3
  <2>6. \A i \in 1 .. N : rest[i] = sn[i]
    BY <1>11, <1>12, <2>4, <2>5
  <2>7. X > 0 => rest[N + 1] = "."
    <3>1. X > 0 => N + 1 \in 1 .. Len(rest) /\ 2 + (N + 1) = 3 + N
      BY <1>12, <2>4
    <3>2. QED
      BY <1>11, <2>5, <3>1
  <2>8. \A i \in 1 .. X : rest[N + 1 + i] = sx[i]
    <3> SUFFICES ASSUME NEW i \in 1 .. X PROVE rest[N + 1 + i] = sx[i]
      OBVIOUS
    <3>1. X \in Nat /\ N \in Nat /\ X # 0
      BY <1>12
    <3>2. Len(rest) = N + (X + 1)
      BY <2>4, <3>1
    <3>3. N + 1 + i \in 1 .. Len(rest) /\ 2 + (N + 1 + i) = 3 + N + i
      BY <3>1, <3>2
    <3>4. rest[N + 1 + i] = full[3 + N + i]
      BY <2>5, <3>3
    <3>5. QED
      BY <1>11, <3>4
  <2>9. QED
    BY <2>3, <2>4, <2>6, <2>7, <2>8
<1> HIDE DEF rest
<1>14. n = N
  <2>1. N \in ends
    BY <1>12, <1>13
  <2>2. ASSUME NEW j \in ends
        PROVE  N <= j
    <3> SUFFICES ASSUME j < N PROVE FALSE
      BY <1>12
    <3>1. j \in 0 .. NameLen /\ j + 1 \in 1 .. N
      BY <1>12
    <3>2. rest[j + 1] = sn[j + 1] /\ sn[j + 1] \notin Special
      BY <1>10, <1>13, <3>1
    <3>3. rest[j + 1] # "."
      BY <3>2 DEF Special
    <3>4. j # NameLen /\ j # Len(rest)
      BY <1>12, <1>13, <3>1
    <3>5. QED
      BY <3>3, <3>4
  <2>3. \A i \in ends : (\A j \in ends : i <= j) => i = N
    <3>1. \A i \in ends : i \in Int
      BY <1>12
    <3> HIDE DEF ends
    <3>2. QED
      BY <1>12, <2>1, <2>2, <3>1
  <2> HIDE DEF ends
  <2>4. QED
    BY <2>1, <2>2, <2>3
<1> HIDE DEF n
<1>15. dot <=> X > 0
  BY <1>12, <1>13, <1>14
<1>16. /\ IsSequence(tail) /\ Len(tail) = X
       /\ \A i \in 1 .. X : tail[i] = sx[i]
  <2>1. CASE X > 0
    <3> DEFINE L == Len(rest)
               m == N + 2
    <3>1. L = N + (X + 1) /\ N \in Nat /\ X \in Nat
      BY <1>12, <1>13, <2>1
    <3>2. tail = SubSeq(rest, m, L)
      BY <1>14, <1>15, <2>1
    <3>3. m = N + 2
      OBVIOUS
    <3> HIDE DEF tail, L, m
    <3>4. /\ m \in 1 .. L + 1 /\ L \in m - 1 .. L /\ L + 1 - m = X
          /\ \A i \in 1 .. X : m - 1 + i = N + 1 + i
      BY <3>1, <3>3
    <3>5. LET r == SubSeq(rest, m, L)
          IN /\ IsSequence(r) /\ Len(r) = L + 1 - m
             /\ \A i \in 1 .. L + 1 - m : r[i] = rest[m - 1 + i]
      BY <1>13, <3>4, SubSeqIs DEF L
    <3>6. /\ IsSequence(tail) /\ Len(tail) = X
          /\ \A i \in 1 .. X : tail[i] = rest[m - 1 + i]
      BY <3>2, <3>4, <3>5
    <3>7. \A i \in 1 .. X : rest[m - 1 + i] = sx[i]
      BY <1>13, <3>4
    <3>8. QED
      BY <3>6, <3>7
  <2>2. CASE ~(X > 0)
    <3>1. tail = <<>> /\ X = 0
      BY <1>12, <1>15, <2>2
    <3>2. <<>> \in Seq({}) /\ Len(<<>>) = 0
      OBVIOUS
    <3> HIDE DEF tail
    <3>3. QED
      BY <3>1, <3>2 DEF IsSequence
  <2>3. QED
    BY <2>1, <2>2
<1> HIDE DEF tail, dot
<1>17. /\ IsSequence(ext) /\ Len(ext) = X
       /\ \A i \in 1 .. X : ext[i] = sx[i]
  <2>1. ext = SubSeq(tail, 1, X)
    BY <1>12, <1>16
  <2>2. 1 \in 1 .. Len(tail) + 1 /\ X \in 1 - 1 .. Len(tail) /\ X + 1 - 1 = X
    BY <1>12, <1>16
  <2> HIDE DEF ext
  <2>3. /\ IsSequence(ext) /\ Len(ext) = X + 1 - 1
        /\ \A i \in 1 .. X + 1 - 1 : ext[i] = tail[1 - 1 + i]
    BY <1>16, <2>1, <2>2, SubSeqIs
  <2>4. \A i \in 1 .. X : 1 - 1 + i = i
    BY <1>12
  <2>5. QED
    BY <1>16, <2>2, <2>3, <2>4
<1> DEFINE part == SubSeq(rest, 1, n)
<1>18. /\ IsSequence(part) /\ Len(part) = N
       /\ \A i \in 1 .. N : part[i] = sn[i]
  <2>1. 1 \in 1 .. Len(rest) + 1 /\ N \in 1 - 1 .. Len(rest) /\ N + 1 - 1 = N
    <3> DEFINE L == Len(rest)
    <3>1. L = N \/ L = N + (X + 1)
      BY <1>12, <1>13
    <3> HIDE DEF L
    <3>2. 1 \in 1 .. L + 1 /\ N \in 1 - 1 .. L /\ N + 1 - 1 = N
      BY <1>12, <3>1
    <3>3. QED
      BY <3>2 DEF L
  <2>2. part = SubSeq(rest, 1, N)
    BY <1>14
  <2> HIDE DEF part
  <2>3. /\ IsSequence(part) /\ Len(part) = N + 1 - 1
        /\ \A i \in 1 .. N + 1 - 1 : part[i] = rest[1 - 1 + i]
    BY <1>13, <2>1, <2>2, SubSeqIs
  <2>4. \A i \in 1 .. N : 1 - 1 + i = i
    BY <1>12
  <2>5. QED
    BY <1>13, <2>1, <2>3, <2>4
<1> HIDE DEF ext, part
<1>19. ASSUME NEW s, IsSequence(s)
       PROVE  Len(up(s)) = Len(s) /\ \A i \in 1 .. Len(s) : up(s)[i] = ToUpper(s[i])
  <2> DEFINE t == up(s)
  <2>1. Len(s) \in Nat /\ DOMAIN s = 1 .. Len(s)
    BY <1>19, SequenceLength
  <2>2. t = [i \in 1 .. Len(s) |-> ToUpper(s[i])]
    BY <2>1, Zenon
  <2>3. t = [i \in 1 .. Len(s) |-> t[i]]
    BY <2>2, Zenon
  <2>4. DOMAIN t = 1 .. Len(s) /\ \A i \in 1 .. Len(s) : t[i] = ToUpper(s[i])
    BY <2>2
  <2> HIDE DEF t
  <2>5. IsSequence(t)
    BY <2>1, <2>3, ShownAs
  <2>6. Len(t) \in Nat /\ 1 .. Len(t) = 1 .. Len(s)
    BY <2>4, <2>5, SequenceLength
  <2>7. Len(t) = Len(s)
    BY <2>1, <2>6, UpToSame, Zenon
  <2>8. QED
    BY <2>4, <2>7 DEF t
<1>20. Padded(up(part), NameLen) = Padded(cn, NameLen)
  <2>1. Len(up(part)) = N /\ \A i \in 1 .. N : up(part)[i] = ToUpper(part[i])
    BY <1>18, <1>19
  <2> DEFINE t == up(part)
  <2>2. Len(t) = Len(cn) /\ Len(t) \in Nat /\ \A i \in 1 .. Len(t) : t[i] = cn[i]
    BY <1>10, <1>12, <1>18, <2>1
  <2> HIDE DEF t
  <2>3. Padded(t, NameLen) = Padded(cn, NameLen)
    BY <1>12, <2>2, PaddedSame
  <2>4. QED
    BY <2>3 DEF t
<1>21. Padded(up(ext), ExtLen) = Padded(cx, ExtLen)
  <2>1. Len(up(ext)) = X /\ \A i \in 1 .. X : up(ext)[i] = ToUpper(ext[i])
    BY <1>17, <1>19
  <2> DEFINE t == up(ext)
  <2>2. Len(t) = Len(cx) /\ Len(t) \in Nat /\ \A i \in 1 .. Len(t) : t[i] = cx[i]
    BY <1>10, <1>12, <1>17, <2>1
  <2> HIDE DEF t
  <2>3. Padded(t, ExtLen) = Padded(cx, ExtLen)
    BY ONLY ExtLen \in Nat, <2>2, PaddedSame
  <2>4. QED
    BY <2>3 DEF t
<1>22. /\ IsDigit(full[1]) /\ IsDigit(full[2])
       /\ 10 * DigitVal[full[1]] + DigitVal[full[2]] = u
  <2>1. full[1] = UserDigits(u)[1] /\ full[2] = UserDigits(u)[2]
    BY <1>11
  <2>2. QED
    BY <1>12, <2>1, UserIs
<1>23. Len(full) > 2 /\ u <= MaxUser
  <2>1. Len(full) > 2
    BY <1>11, <1>12
  <2>2. QED
    BY <1>12, <2>1 DEF MaxUser
<1>24. \A i \in 1 .. n : IsFileChar(i > 1, rest[i])
  BY <1>10, <1>13, <1>14 DEF IsFileChar
<1>25. \A i \in DOMAIN ext : IsFileChar(TRUE, ext[i])
  <2>1. DOMAIN ext = 1 .. X
    BY <1>17, SequenceLength
  <2>2. QED
    BY <1>10, <1>17, <2>1 DEF IsFileChar
<1>26. ~(dot /\ n = 0 /\ ext = <<>>)
  <2>1. ext = <<>> => Len(ext) = 0
    OBVIOUS
  <2>2. QED
    BY <1>12, <1>15, <1>17, <2>1
<1>27. SplitFilename(full, MaxUser) =
         IF /\ Len(full) > 2 /\ IsDigit(full[1]) /\ IsDigit(full[2])
            /\ 10 * DigitVal[full[1]] + DigitVal[full[2]] <= MaxUser
            /\ \A i \in 1 .. n : IsFileChar(i > 1, rest[i])
            /\ \A i \in DOMAIN ext : IsFileChar(TRUE, ext[i])
            /\ ~(dot /\ n = 0 /\ ext = <<>>)
         THEN {[user |-> 10 * DigitVal[full[1]] + DigitVal[full[2]],
                name |-> Padded(up(part), NameLen),
                ext |-> Padded(up(ext), ExtLen)]}
         ELSE {}
  BY Zenon DEF SplitFilename, n, rest, ext, dot, tail, part
<1> HIDE DEF up
<1>28. SplitFilename(full, MaxUser) =
         {[user |-> u, name |-> Padded(cn, NameLen), ext |-> Padded(cx, ExtLen)]}
  BY <1>20, <1>21, <1>22, <1>23, <1>24, <1>25, <1>26, <1>27
<1>29. QED
  BY <1>28

\* The program finds a file with a proper name by the name that it lists.
LEMMA SplitIs ==
  ASSUME LettersAreLetters, NEW e, Clean(e), e.user \in 0 .. 31,
         IsSequence(e.name), IsSequence(e.ext), NEW uppercase
  PROVE  SplitFilename(ListedName(e, uppercase), MaxUser) =
           {[user |-> e.user, name |-> e.name, ext |-> e.ext]}
<1> DEFINE full == ListedName(e, uppercase)
           cn == Cut(e.name)
           cx == Cut(e.ext)
           sn == Show(cn, uppercase)
           sx == Show(cx, uppercase)
           whole == {e.name[i] : i \in DOMAIN e.name} \cup {e.ext[i] : i \in DOMAIN e.ext}
<1>1. /\ whole \cap (Special \cup DOMAIN Upper) = {} /\ whole # {Blank}
      /\ Padded(cn, NameLen) = e.name /\ Padded(cx, ExtLen) = e.ext
  BY DEF Clean
<1>2. NameLen \in Nat \ {0} /\ ExtLen \in Nat
  BY DEF LettersAreLetters
<1>3. /\ Len(e.name) = NameLen /\ IsSequence(cn) /\ Len(cn) \in 0 .. NameLen
      /\ \A i \in 1 .. Len(cn) : cn[i] = e.name[i] /\ cn[i] # Blank
      /\ \A i \in Len(cn) + 1 .. NameLen : e.name[i] = Blank
  BY <1>1, <1>2, PaddedIs
<1>4. /\ Len(e.ext) = ExtLen /\ IsSequence(cx) /\ Len(cx) \in 0 .. ExtLen
      /\ \A i \in 1 .. Len(cx) : cx[i] = e.ext[i] /\ cx[i] # Blank
      /\ \A i \in Len(cx) + 1 .. ExtLen : e.ext[i] = Blank
  BY <1>1, <1>2, PaddedIs
<1>5. DOMAIN e.name = 1 .. NameLen /\ DOMAIN e.ext = 1 .. ExtLen
  BY <1>3, <1>4, SequenceLength
<1>6. Len(cn) > 0 \/ Len(cx) > 0
  <2> SUFFICES ASSUME ~(Len(cn) > 0 \/ Len(cx) > 0) PROVE FALSE
    OBVIOUS
  <2>1. /\ \A i \in 1 .. NameLen : e.name[i] = Blank
        /\ \A i \in 1 .. ExtLen : e.ext[i] = Blank
        /\ 1 \in 1 .. NameLen
    BY <1>2, <1>3, <1>4
  <2>2. whole = {Blank}
    BY <1>5, <2>1
  <2>3. QED
    BY <1>1, <2>2
<1>7. /\ \A i \in 1 .. Len(cn) : cn[i] \notin DOMAIN Upper /\ cn[i] \notin Special
      /\ \A i \in 1 .. Len(cx) : cx[i] \notin DOMAIN Upper /\ cx[i] \notin Special
  <2>1. \A i \in 1 .. Len(cn) : i \in DOMAIN e.name
    BY <1>2, <1>3, <1>5
  <2>2. \A i \in 1 .. Len(cx) : i \in DOMAIN e.ext
    BY <1>2, <1>4, <1>5
  <2>3. \A i \in 1 .. Len(cn) : cn[i] \in whole
    BY <1>3, <2>1
  <2>4. \A i \in 1 .. Len(cx) : cx[i] \in whole
    BY <1>4, <2>2
  <2> HIDE DEF whole
  <2>5. QED
    BY <1>1, <2>3, <2>4
<1> HIDE DEF cn, cx, whole
<1>8. /\ IsSequence(sn) /\ Len(sn) = Len(cn)
      /\ \A i \in 1 .. Len(cn) : sn[i] = IF uppercase THEN cn[i] ELSE ToLower(cn[i])
  BY <1>3, ShowIs
<1>9. /\ IsSequence(sx) /\ Len(sx) = Len(cx)
      /\ \A i \in 1 .. Len(cx) : sx[i] = IF uppercase THEN cx[i] ELSE ToLower(cx[i])
  BY <1>4, ShowIs
<1>10. /\ \A i \in 1 .. Len(cn) : /\ ToUpper(sn[i]) = cn[i] /\ sn[i] \notin Special
                                   /\ sn[i] # Blank
       /\ \A i \in 1 .. Len(cx) : /\ ToUpper(sx[i]) = cx[i] /\ sx[i] \notin Special
                                   /\ sx[i] # Blank
  <2>1. ASSUME NEW i \in 1 .. Len(cn)
        PROVE  ToUpper(sn[i]) = cn[i] /\ sn[i] \notin Special /\ sn[i] # Blank
    <3>1. /\ cn[i] \notin DOMAIN Upper /\ cn[i] \notin Special /\ cn[i] # Blank
          /\ sn[i] = IF uppercase THEN cn[i] ELSE ToLower(cn[i])
      BY <1>3, <1>7, <1>8
    <3> HIDE DEF sn
    <3>2. QED
      BY <3>1, ShownBack
  <2>2. ASSUME NEW i \in 1 .. Len(cx)
        PROVE  ToUpper(sx[i]) = cx[i] /\ sx[i] \notin Special /\ sx[i] # Blank
    <3>1. /\ cx[i] \notin DOMAIN Upper /\ cx[i] \notin Special /\ cx[i] # Blank
          /\ sx[i] = IF uppercase THEN cx[i] ELSE ToLower(cx[i])
      BY <1>4, <1>7, <1>9
    <3> HIDE DEF sx
    <3>2. QED
      BY <3>1, ShownBack
  <2>3. QED
    BY <2>1, <2>2
<1>11. /\ IsSequence(full)
       /\ Len(full) = 2 + Len(sn) + (IF Len(sx) = 0 THEN 0 ELSE Len(sx) + 1)
       /\ \A i \in 1 .. 2 : full[i] = UserDigits(e.user)[i]
       /\ \A i \in 1 .. Len(sn) : full[2 + i] = sn[i]
       /\ Len(sx) > 0 => full[3 + Len(sn)] = "."
       /\ \A i \in 1 .. Len(sx) : full[3 + Len(sn) + i] = sx[i]
  <2>1. e.user \in 0 .. 31 /\ IsSequence(e.name) /\ IsSequence(e.ext)
    OBVIOUS
  <2>2. Spelt(full, e.user, sn, sx)
    BY <2>1, ListedParts DEF cn, cx
  <2> HIDE DEF full, sn, sx
  <2>3. QED
    BY <2>2 DEF Spelt
<1> HIDE DEF full, sn, sx
<1> DEFINE N == Len(cn)
           X == Len(cx)
<1>12. /\ N \in 0 .. NameLen /\ X \in 0 .. ExtLen /\ (N > 0 \/ X > 0)
       /\ Len(sn) = N /\ Len(sx) = X /\ NameLen \in Nat /\ ExtLen \in Nat
       /\ e.user \in 0 .. 31
  BY <1>2, <1>3, <1>4, <1>6, <1>8, <1>9
<1>13. /\ Len(full) = 2 + N + (IF X = 0 THEN 0 ELSE X + 1)
       /\ \A i \in 1 .. N : full[2 + i] = sn[i]
       /\ X > 0 => full[3 + N] = "."
       /\ \A i \in 1 .. X : full[3 + N + i] = sx[i]
  BY <1>11, <1>12
<1>14. /\ Len(cn) = N /\ Len(cx) = X
       /\ \A i \in 1 .. N : /\ ToUpper(sn[i]) = cn[i] /\ sn[i] \notin Special
                            /\ sn[i] # Blank
       /\ \A i \in 1 .. X : /\ ToUpper(sx[i]) = cx[i] /\ sx[i] \notin Special
                            /\ sx[i] # Blank
  BY <1>10
<1>15. IsSequence(full) /\ \A i \in 1 .. 2 : full[i] = UserDigits(e.user)[i]
  BY <1>11
<1> HIDE DEF N, X
<1>16. SplitFilename(full, MaxUser) =
         {[user |-> e.user, name |-> Padded(cn, NameLen), ext |-> Padded(cx, ExtLen)]}
  <2>1. HasParts(full, e.user, cn, cx, sn, sx, N, X)
    BY <1>12, <1>13, <1>14, <1>15 DEF HasParts
  <2>2. QED
    BY <1>12, <2>1, SplitParts
<1>17. QED
  BY <1>1, <1>16 DEF full

\* The characters that strcmp has an order of
Known == {Ascii[i] : i \in 1 .. Len(Ascii)}

\* A directory has no entry twice, and its characters have an order.
FilesAreListed ==
  /\ IsSequence(Ascii)
  /\ \A typed \in Arguments : IsSequence(typed)
  /\ {"."} \cup {Digits[i] : i \in 1 .. 10} \subseteq Known
  /\ \A d \in Directories :
       /\ \A s \in DOMAIN d :
            /\ d[s] = [user |-> d[s].user, name |-> d[s].name, ext |-> d[s].ext]
            /\ d[s].user \in 0 .. 31
            /\ \A c \in {d[s].name[i] : i \in DOMAIN d[s].name}
                        \cup {d[s].ext[i] : i \in DOMAIN d[s].ext} :
                 {c, ToLower(c)} \subseteq Known
       /\ \A s, t \in DOMAIN d : d[s] = d[t] => s = t

LEMMA RankIs ==
  ASSUME FilesAreListed, NEW c \in Known
  PROVE  Rank(c) \in Int
<1>1. DOMAIN Ascii = 1 .. Len(Ascii) /\ Len(Ascii) \in Nat
  BY SequenceLength DEF FilesAreListed
<1>2. \E i \in DOMAIN Ascii : Ascii[i] = c
  BY <1>1 DEF Known
<1>3. Rank(c) \in DOMAIN Ascii
  BY <1>2 DEF Rank
<1>4. QED
  BY <1>1, <1>3

\* The characters of what is shown of a part of a name
LEMMA ShownKnown ==
  ASSUME NEW s, IsSequence(s), NEW uppercase, NEW t, t = Show(Cut(s), uppercase),
         \A c \in {s[i] : i \in DOMAIN s} : {c, ToLower(c)} \subseteq Known
  PROVE  IsSequence(t) /\ Len(t) \in Nat /\ \A i \in 1 .. Len(t) : t[i] \in Known
<1> DEFINE c == Cut(s)
<1>1. /\ IsSequence(c) /\ Len(c) <= Len(s)
      /\ \A i \in 1 .. Len(c) : c[i] = s[i]
  BY CutIs
<1>2. Len(c) \in Nat /\ Len(s) \in Nat /\ DOMAIN s = 1 .. Len(s)
  BY <1>1, SequenceLength
<1> HIDE DEF c
<1>3. /\ IsSequence(t) /\ Len(t) = Len(c)
      /\ \A i \in 1 .. Len(c) : t[i] = IF uppercase THEN c[i] ELSE ToLower(c[i])
  BY <1>1, ShowIs DEF c
<1>4. \A i \in 1 .. Len(c) : i \in DOMAIN s
  BY <1>1, <1>2
<1>5. \A i \in 1 .. Len(c) : t[i] \in Known
  BY <1>1, <1>3, <1>4
<1>6. QED
  BY <1>2, <1>3, <1>5

LEMMA ListedOrdered ==
  ASSUME NamesAreTexts, FilesAreListed, NEW d \in Directories, NEW s \in DOMAIN d,
         NEW uppercase
  PROVE  /\ Ordered(ListedName(d[s], uppercase))
         /\ Len(ListedName(d[s], uppercase)) \in Nat
         /\ Len(ListedName(d[s], uppercase)) >= 2
         /\ \A i \in 1 .. 2 : ListedName(d[s], uppercase)[i] = UserDigits(d[s].user)[i]
<1> DEFINE e == d[s]
           full == ListedName(e, uppercase)
           c == Show(Cut(e.name), uppercase)
           x == Show(Cut(e.ext), uppercase)
<1>1. e.user \in 0 .. 31 /\ IsSequence(e.name) /\ IsSequence(e.ext)
  BY DEF NamesAreTexts, FilesAreListed
<1>2. /\ \A z \in {e.name[i] : i \in DOMAIN e.name} : {z, ToLower(z)} \subseteq Known
      /\ \A z \in {e.ext[i] : i \in DOMAIN e.ext} : {z, ToLower(z)} \subseteq Known
  <2>1. \A z \in {e.name[i] : i \in DOMAIN e.name} \cup {e.ext[i] : i \in DOMAIN e.ext} :
          {z, ToLower(z)} \subseteq Known
    BY DEF FilesAreListed
  <2> DEFINE A == {e.name[i] : i \in DOMAIN e.name}
             B == {e.ext[i] : i \in DOMAIN e.ext}
  <2>2. \A z \in A \cup B : {z, ToLower(z)} \subseteq Known
    BY <2>1
  <2> HIDE DEF A, B
  <2>3. /\ \A z \in A : {z, ToLower(z)} \subseteq Known
        /\ \A z \in B : {z, ToLower(z)} \subseteq Known
    BY <2>2
  <2>4. QED
    BY <2>3 DEF A, B
<1>3. "." \in Known /\ \A k \in 1 .. 10 : Digits[k] \in Known
  BY DEF FilesAreListed
<1> HIDE DEF e
<1>4. Spelt(full, e.user, c, x)
  BY <1>1, ListedParts
<1>5. /\ IsSequence(c) /\ Len(c) \in Nat /\ \A i \in 1 .. Len(c) : c[i] \in Known
      /\ IsSequence(x) /\ Len(x) \in Nat /\ \A i \in 1 .. Len(x) : x[i] \in Known
  BY <1>1, <1>2, ShownKnown
<1>6. UserDigits(e.user)[1] \in Known /\ UserDigits(e.user)[2] \in Known
  <2>1. \E k, l \in 1 .. 10 : /\ UserDigits(e.user)[1] = Digits[k]
                              /\ UserDigits(e.user)[2] = Digits[l]
    BY <1>1, UserIs
  <2>2. QED
    BY <1>3, <2>1
<1> HIDE DEF full, c, x
<1>7. /\ IsSequence(full)
      /\ Len(full) = 2 + Len(c) + (IF Len(x) = 0 THEN 0 ELSE Len(x) + 1)
      /\ \A i \in 1 .. 2 : full[i] = UserDigits(e.user)[i]
      /\ \A i \in 1 .. Len(c) : full[2 + i] = c[i]
      /\ Len(x) > 0 => full[3 + Len(c)] = "."
      /\ \A i \in 1 .. Len(x) : full[3 + Len(c) + i] = x[i]
  BY <1>4 DEF Spelt
<1>8. ASSUME NEW i \in 1 .. Len(full)
      PROVE  full[i] \in Known
  <2>1. CASE i \in 1 .. 2
    <3>1. i = 1 \/ i = 2
      BY <2>1
    <3>2. QED
      BY <1>6, <1>7, <2>1, <3>1
  <2>2. CASE i - 2 \in 1 .. Len(c)
    <3>1. i = 2 + (i - 2)
      BY <2>2
    <3>2. QED
      BY <1>5, <1>7, <2>2, <3>1
  <2>3. CASE i = 3 + Len(c) /\ Len(x) > 0
    BY <1>3, <1>7, <2>3
  <2>4. CASE i - (3 + Len(c)) \in 1 .. Len(x)
    <3>1. i = 3 + Len(c) + (i - (3 + Len(c)))
      BY <1>5, <2>4
    <3>2. QED
      BY <1>5, <1>7, <2>4, <3>1
  <2>5. \/ i \in 1 .. 2
        \/ i - 2 \in 1 .. Len(c)
        \/ i = 3 + Len(c) /\ Len(x) > 0
        \/ i - (3 + Len(c)) \in 1 .. Len(x)
    <3> DEFINE N == Len(c)
               X == Len(x)
    <3>1. N \in Nat /\ X \in Nat /\ i \in Int /\ i >= 1
          /\ i <= 2 + N + (IF X = 0 THEN 0 ELSE X + 1)
      <4> DEFINE L == Len(full)
      <4>1. i \in 1 .. L /\ N \in Nat /\ X \in Nat
            /\ L = 2 + N + (IF X = 0 THEN 0 ELSE X + 1)
        BY <1>5, <1>7
      <4> HIDE DEF L, N, X
      <4>2. QED
        BY <4>1
    <3> HIDE DEF N, X
    <3>2. \/ i \in 1 .. 2
          \/ i - 2 \in 1 .. N
          \/ i = 3 + N /\ X > 0
          \/ i - (3 + N) \in 1 .. X
      BY ONLY <3>1
    <3>3. QED
      BY <3>2 DEF N, X
  <2>6. QED
    BY <2>1, <2>2, <2>3, <2>4, <2>5
<1>9. Ordered(full)
  BY <1>7, <1>8, RankIs DEF Ordered
<1>10. Len(full) \in Nat /\ Len(full) >= 2
  <2> DEFINE N == Len(c)
             X == Len(x)
  <2>1. N \in Nat /\ X \in Nat /\ Len(full) = 2 + N + (IF X = 0 THEN 0 ELSE X + 1)
    BY <1>5, <1>7
  <2> HIDE DEF N, X
  <2>2. QED
    BY ONLY <2>1
<1>11. QED
  BY <1>7, <1>9, <1>10 DEF full, e

\* What cpmReaddir gives, name for name
LEMMA ReaddirIs ==
  ASSUME IsSequence(ls.dir), NEW names, names = ReaddirNames
  PROVE  /\ IsSequence(names) /\ Len(names) = Len(ls.dir) + 2
         /\ names[1] = <<".">> /\ names[2] = <<".", ".">>
         /\ \A s \in 1 .. Len(ls.dir) :
              names[s + 2] = ListedName(ls.dir[s], ls.uppercase)
<1> DEFINE files == [i \in DOMAIN ls.dir |-> ListedName(ls.dir[i], ls.uppercase)]
           roots == <<<<".">>, <<".", ".">>>>
<1>1. Len(ls.dir) \in Nat /\ DOMAIN ls.dir = 1 .. Len(ls.dir)
  BY SequenceLength
<1>2. IsSequence(files)
  <2>1. files = [i \in 1 .. Len(ls.dir) |-> files[i]]
    BY <1>1, Zenon
  <2> HIDE DEF files
  <2>2. QED
    BY <1>1, <2>1, ShownAs
<1>3. Len(files) = Len(ls.dir)
  <2>1. Len(files) \in Nat /\ DOMAIN files = 1 .. Len(files)
    BY <1>2, SequenceLength
  <2>2. DOMAIN files = 1 .. Len(ls.dir)
    BY <1>1
  <2> HIDE DEF files
  <2>3. QED
    BY <1>1, <2>1, <2>2, UpToSame
<1>4. roots \in Seq({<<".">>, <<".", ".">>}) /\ Len(roots) = 2
      /\ roots[1] = <<".">> /\ roots[2] = <<".", ".">>
  OBVIOUS
<1>5. names = roots \o files
  BY DEF ReaddirNames
<1>6. \A s \in 1 .. Len(ls.dir) : files[s] = ListedName(ls.dir[s], ls.uppercase)
  BY <1>1
<1> HIDE DEF files, roots
<1>7. PICK S : files \in Seq(S)
  BY <1>2 DEF IsSequence
<1> DEFINE T == S \cup {<<".">>, <<".", ".">>}
<1>8. roots \in Seq(T) /\ files \in Seq(T)
  BY <1>4, <1>7
<1> HIDE DEF T
<1>9. /\ names \in Seq(T) /\ Len(names) = Len(roots) + Len(files)
      /\ \A i \in 1 .. Len(roots) : names[i] = roots[i]
      /\ \A i \in 1 .. Len(files) : names[Len(roots) + i] = files[i]
  BY <1>5, <1>8, JoinIs
<1>10. IsSequence(names)
  BY <1>9 DEF IsSequence
<1>11. \A s \in 1 .. Len(ls.dir) : names[s + 2] = files[s]
  <2>1. \A s \in 1 .. Len(ls.dir) : s + 2 = 2 + s
    OBVIOUS
  <2>2. QED
    BY <1>3, <1>4, <1>9, <2>1
<1>12. 1 \in 1 .. Len(roots) /\ 2 \in 1 .. Len(roots)
  BY <1>4
<1>13. QED
  BY <1>1, <1>3, <1>4, <1>6, <1>9, <1>10, <1>11, <1>12

FileName(s) == ListedName(ls.dir[s], ls.uppercase)

\* A proper name belongs to one file that splitFilename and the search find.
LEMMA FoundIs ==
  ASSUME NamesAreTexts, LettersAreLetters, FilesAreListed, ls.dir \in Directories,
         NEW s \in DOMAIN ls.dir, Clean(ls.dir[s])
  PROVE  /\ SplitFilename(FileName(s), MaxUser) = {ls.dir[s]}
         /\ {t \in DOMAIN ls.dir : ls.dir[t] \in SplitFilename(FileName(s), MaxUser)} = {s}
<1>1. /\ ls.dir[s].user \in 0 .. 31 /\ IsSequence(ls.dir[s].name)
      /\ IsSequence(ls.dir[s].ext)
      /\ ls.dir[s] = [user |-> ls.dir[s].user, name |-> ls.dir[s].name,
                      ext |-> ls.dir[s].ext]
  BY DEF NamesAreTexts, FilesAreListed
<1>2. SplitFilename(FileName(s), MaxUser) =
        {[user |-> ls.dir[s].user, name |-> ls.dir[s].name, ext |-> ls.dir[s].ext]}
  BY <1>1, SplitIs DEF FileName
<1>3. SplitFilename(FileName(s), MaxUser) = {ls.dir[s]}
  BY <1>1, <1>2
<1>4. \A t \in DOMAIN ls.dir : ls.dir[t] = ls.dir[s] => t = s
  BY DEF FilesAreListed
<1>5. QED
  BY <1>3, <1>4

\* cpmReaddir gives a proper name once.
LEMMA AloneOnce ==
  ASSUME NamesAreTexts, LettersAreLetters, FilesAreListed, ls.dir \in Directories,
         NEW s \in DOMAIN ls.dir, Alone(s), NEW i \in 1 .. Len(ReaddirNames)
  PROVE  ReaddirNames[i] = FileName(s) <=> i = s + 2
<1> DEFINE N == Len(ls.dir)
<1>1. IsSequence(ls.dir)
  BY DEF NamesAreTexts
<1>2. N \in Nat /\ DOMAIN ls.dir = 1 .. N
  BY <1>1, SequenceLength
<1>3. /\ IsSequence(ReaddirNames) /\ Len(ReaddirNames) = N + 2
      /\ ReaddirNames[1] = <<".">> /\ ReaddirNames[2] = <<".", ".">>
      /\ \A t \in 1 .. N : ReaddirNames[t + 2] = FileName(t)
  BY <1>1, ReaddirIs DEF FileName
<1>4. FileName(s)[1] # "."
  <2>1. FileName(s)[1] = UserDigits(ls.dir[s].user)[1]
    <3>1. 1 \in 1 .. 2
      OBVIOUS
    <3>2. QED
      BY <3>1, ListedOrdered DEF FileName
  <2>2. ls.dir[s].user \in 0 .. 31
    BY DEF FilesAreListed
  <2>3. QED
    BY <2>1, <2>2, UserIs
<1>5. ASSUME NEW t \in 1 .. N, FileName(t) = FileName(s)
      PROVE  t = s
  <2>1. CASE ~Clean(ls.dir[t])
    BY <1>2, <1>5, <2>1 DEF Alone, FileName
  <2>2. CASE Clean(ls.dir[t])
    <3>1. Clean(ls.dir[s])
      BY DEF Alone
    <3>2. {ls.dir[t]} = {ls.dir[s]}
      BY <1>2, <1>5, <2>2, <3>1, FoundIs
    <3>3. ls.dir[t] = ls.dir[s] /\ t \in DOMAIN ls.dir
      BY <1>2, <3>2
    <3>4. QED
      BY <3>3 DEF FilesAreListed
  <2>3. QED
    BY <2>1, <2>2
<1> HIDE DEF N
<1>6. s \in 1 .. N
  BY <1>2
<1>7. CASE i = 1 \/ i = 2
  <2>1. ReaddirNames[i][1] = "."
    BY <1>3, <1>7
  <2>2. i # s + 2
    BY <1>2, <1>6, <1>7
  <2>3. QED
    BY <1>4, <2>1, <2>2
<1>8. CASE i - 2 \in 1 .. N
  <2> DEFINE t == i - 2
  <2>1. t \in 1 .. N /\ i = t + 2
    BY <1>2, <1>8
  <2> HIDE DEF t
  <2>2. ReaddirNames[i] = FileName(t)
    BY <1>3, <2>1
  <2>3. t = s <=> i = s + 2
    BY <1>2, <1>6, <2>1
  <2>4. QED
    BY <1>5, <2>1, <2>2, <2>3
<1>9. i = 1 \/ i = 2 \/ i - 2 \in 1 .. N
  BY <1>2, <1>3
<1>10. QED
  BY <1>7, <1>8, <1>9

\* Every name that cpmReaddir gives has an order.
LEMMA ReaddirOrdered ==
  ASSUME NamesAreTexts, FilesAreListed, ls.dir \in Directories,
         NEW i \in 1 .. Len(ReaddirNames)
  PROVE  Ordered(ReaddirNames[i])
<1> DEFINE N == Len(ls.dir)
<1>1. IsSequence(ls.dir)
  BY DEF NamesAreTexts
<1>2. N \in Nat /\ DOMAIN ls.dir = 1 .. N
  BY <1>1, SequenceLength
<1>3. /\ IsSequence(ReaddirNames) /\ Len(ReaddirNames) = N + 2
      /\ ReaddirNames[1] = <<".">> /\ ReaddirNames[2] = <<".", ".">>
      /\ \A t \in 1 .. N : ReaddirNames[t + 2] = FileName(t)
  BY <1>1, ReaddirIs DEF FileName
<1>4. \A t \in 1 .. N : Ordered(FileName(t))
  BY <1>2, ListedOrdered DEF FileName
<1>5. Ordered(<<".">>) /\ Ordered(<<".", ".">>)
  <2>1. Rank(".") \in Int
    BY RankIs DEF FilesAreListed
  <2>2. <<".">> \in Seq({"."}) /\ <<".", ".">> \in Seq({"."})
    OBVIOUS
  <2>3. IsSequence(<<".">>) /\ IsSequence(<<".", ".">>)
    BY <2>2 DEF IsSequence
  <2>4. /\ \A k \in 1 .. Len(<<".">>) : <<".">>[k] = "."
        /\ \A k \in 1 .. Len(<<".", ".">>) : <<".", ".">>[k] = "."
    OBVIOUS
  <2>5. QED
    BY <2>1, <2>3, <2>4 DEF Ordered
<1> HIDE DEF N
<1>6. i = 1 \/ i = 2 \/ (i - 2 \in 1 .. N /\ i = (i - 2) + 2)
  BY <1>2, <1>3
<1>7. QED
  BY <1>3, <1>4, <1>5, <1>6

-----------------------------------------------------------------------------
\* How many of the first g patterns select a name
Hit(typed, x)     == [k \in DOMAIN typed |-> TakesOf(x, typed[k])]
Hits(typed, g, x) == CountTo(Hit(typed, x), g, 1)

\* A user and a name are due in the order of the loops.
Less(a, b) == a[1] < b[1] \/ (a[1] = b[1] /\ a[2] < b[2])
Due(names, last) ==
  {at \in (0 .. last) \X (1 .. Len(names)) :
     SubSeq(names[at[2]], 1, 2) = UserDigits(at[1])}

\* The lines that were printed are what was due up to the last of them.
Printed(printed, names, last, upto, place) ==
  /\ IsSequence(printed)
  /\ \A l \in 1 .. Len(printed) :
       /\ place[l] \in Due(names, last) /\ ~Less(upto, place[l])
       /\ printed[l].user = place[l][1] /\ printed[l].name = names[place[l][2]]
       /\ \A k \in 1 .. l - 1 : Less(place[k], place[l])
  /\ \A at \in Due(names, last) :
       Less(upto, at) \/ \E l \in 1 .. Len(printed) : place[l] = at

\* Names that stand alone are there once for each of the first g patterns.
Counted(names, g) ==
  \A s \in DOMAIN ls.dir :
    Alone(s) => Count(names, FileName(s)) = Hits(ls.typed, g, FileName(s))

LsShape ==
  /\ DOMAIN ls = {"phase", "dir", "typed", "args", "uppercase", "style", "unsorted",
                  "names", "user", "i", "file", "printed"}
  /\ ls.phase \in {"glob", "list", "end"}
  /\ ls.dir \in Directories /\ ls.typed \in Arguments

GlobState ==
  /\ ls.printed = <<>> /\ ls.user = 0 /\ ls.i = 0
  /\ OrderedNames(ls.names)
  /\ \E g \in 0 .. Len(ls.typed) :
       /\ ls.args = SubSeq(ls.typed, g + 1, Len(ls.typed))
       /\ Counted(ls.names, g)

StatsAreTrue ==
  ls.style = "long" =>
    \A l \in 1 .. Len(ls.printed) : \A s \in DOMAIN ls.dir :
      Alone(s) /\ ls.printed[l].name = FileName(s) => ls.printed[l].stat = s

ListState ==
  /\ OrderedNames(ls.names)
  /\ ls.style # "dir" /\ ~ls.unsorted => Ascending(ls.names)
  /\ Counted(ls.names, Len(ls.typed))
  /\ ls.user \in Int /\ ls.i \in Int
  /\ \E place : Printed(ls.printed, ls.names, MaxListed, <<ls.user, ls.i>>, place)
  /\ StatsAreTrue

ListInv ==
  /\ Mounted => def = NoReader
  /\ ls # NoListing =>
       /\ Mounted /\ LsShape
       /\ ls.phase = "glob" => GlobState
       /\ ls.phase \in {"list", "end"} => ListState
       /\ ls.phase = "end" => Remaining = {}

LEMMA NoneCounted ==
  ASSUME NEW names, NEW x
  PROVE  CountTo(names, 0, x) = 0
<1>1. {i \in 1 .. 0 : names[i] = x} = {}
  OBVIOUS
<1>2. QED
  BY <1>1, FS_EmptySet DEF CountTo

LEMMA ListingBegins ==
  ASSUME FilesAreListed, LsStart
  PROVE  LsShape' /\ GlobState' /\ ls'.phase = "glob"
<1>1. PICK d \in Directories, typed \in Arguments, uppercase \in BOOLEAN,
           style \in {"dir", "short", "long"}, unsorted \in BOOLEAN :
        ls' = [phase |-> "glob", dir |-> d, typed |-> typed, args |-> typed,
               uppercase |-> uppercase, style |-> style, unsorted |-> unsorted,
               names |-> <<>>, user |-> 0, i |-> 0, file |-> NoStat,
               printed |-> <<>>]
  BY DEF LsStart
<1>2. LsShape'
  BY <1>1 DEF LsShape
<1>3. OrderedNames(<<>>)
  <2>1. <<>> \in Seq({}) /\ Len(<<>>) = 0
    OBVIOUS
  <2>2. QED
    BY <2>1 DEF OrderedNames, IsSequence
<1>4. Len(typed) \in Nat /\ typed = SubSeq(typed, 0 + 1, Len(typed))
  <2>1. PICK S : typed \in Seq(S)
    BY DEF FilesAreListed, IsSequence
  <2>2. QED
    BY <2>1
<1>5. Counted(<<>>, 0)'
  <2>1. \A x : Count(<<>>, x) = 0
    BY NoneCounted DEF Count
  <2>2. \A x : Hits(typed, 0, x) = 0
    BY NoneCounted DEF Hits
  <2>3. ls'.typed = typed
    BY <1>1
  <2>4. QED
    BY <2>1, <2>2, <2>3 DEF Counted
<1>6. 0 \in 0 .. Len(typed)
  BY <1>4
<1>7. /\ ls'.phase = "glob" /\ ls'.printed = <<>> /\ ls'.user = 0 /\ ls'.i = 0
      /\ ls'.names = <<>> /\ ls'.typed = typed /\ ls'.args = typed
  BY <1>1
<1>8. GlobState'
  BY <1>3, <1>4, <1>5, <1>6, <1>7 DEF GlobState
<1>9. QED
  BY <1>2, <1>7, <1>8

\* One pattern more
LEMMA HitsNext ==
  ASSUME NEW typed, Len(typed) \in Nat, DOMAIN typed = 1 .. Len(typed),
         NEW g \in 0 .. Len(typed) - 1, NEW x
  PROVE  Hits(typed, g + 1, x) =
           Hits(typed, g, x) + TakesOf(x, typed[g + 1])
<1> DEFINE f == Hit(typed, x)
<1>1. g + 1 \in Nat \ {0} /\ (g + 1) - 1 = g /\ g + 1 \in DOMAIN typed
  OBVIOUS
<1>2. f[g + 1] = TakesOf(x, typed[g + 1]) /\ f[g + 1] \in {0, 1}
  BY <1>1 DEF Hit, TakesOf
<1> HIDE DEF f
<1>3. CountTo(f, g + 1, 1) = CountTo(f, g, 1) + (IF f[g + 1] = 1 THEN 1 ELSE 0)
  BY <1>1, CountToNext
<1>4. QED
  BY <1>2, <1>3 DEF f, Hits

LEMMA ListingGlobs ==
  ASSUME NamesAreTexts, LettersAreLetters, FilesAreListed, LsShape, GlobState, Glob
  PROVE  LsShape' /\ GlobState' /\ ls'.phase = "glob"
<1> PICK n : n = Len(ReaddirNames)
  OBVIOUS
<1>1. ls.dir \in Directories /\ ls.typed \in Arguments /\ IsSequence(ls.dir)
      /\ IsSequence(ls.typed)
  BY DEF LsShape, NamesAreTexts, FilesAreListed
<1>2. IsSequence(ReaddirNames)
  BY <1>1, ReaddirIs
<1>3. n \in Nat /\ DOMAIN ReaddirNames = 1 .. n
  BY <1>2, SequenceLength
<1>4. PICK h : /\ IsListing(ls.args, ls.names, ReaddirNames, n, h)
               /\ ls' = [ls EXCEPT !.args = Tail(@), !.names = h[1 .. n]]
  BY <1>3, GlobBy
<1>5. ls.phase = "glob" /\ ls.args # <<>>
  BY DEF Glob
<1>6. /\ OrderedNames(h[1 .. n])
      /\ \A x : Once(ReaddirNames, n, x) =>
           Grown(h[1 .. n], ls.names, x, Head(ls.args))
  <2>1. \A i \in 1 .. n : Ordered(ReaddirNames[i])
    BY <1>1, ReaddirOrdered
  <2>2. OrderedNames(ls.names)
    BY DEF GlobState
  <2> DEFINE seq == ReaddirNames
             base == ls.names
             args == ls.args
  <2>3. /\ args # <<>> /\ OrderedNames(base) /\ IsListing(args, base, seq, n, h)
        /\ \A i \in 1 .. n : Ordered(seq[i])
    BY <1>4, <1>5, <2>1, <2>2
  <2> HIDE DEF seq, base, args
  <2>4. OrderedNames(h[1 .. n])
    BY <1>3, <2>3, GlobIs
  <2>5. \A x : Once(seq, n, x) => Grown(h[1 .. n], base, x, Head(args))
    BY <1>3, <2>3, GlobIs
  <2>6. QED
    BY <2>4, <2>5 DEF seq, base, args
<1>7. PICK g \in 0 .. Len(ls.typed) :
        /\ ls.args = SubSeq(ls.typed, g + 1, Len(ls.typed))
        /\ Counted(ls.names, g)
  BY DEF GlobState
<1>8. PICK S : ls.typed \in Seq(S)
  BY <1>1 DEF IsSequence
<1>9. /\ g \in 0 .. Len(ls.typed) - 1 /\ Head(ls.args) = ls.typed[g + 1]
      /\ Tail(ls.args) = SubSeq(ls.typed, (g + 1) + 1, Len(ls.typed))
      /\ Len(ls.typed) \in Nat
  <2> DEFINE typed == ls.typed
             args == ls.args
  <2>1. typed \in Seq(S) /\ args = SubSeq(typed, g + 1, Len(typed)) /\ args # <<>>
        /\ g \in 0 .. Len(typed) /\ Len(typed) \in Nat
    BY <1>5, <1>7, <1>8
  <2> HIDE DEF typed, args
  <2>2. g # Len(typed)
    <3>1. Len(typed) + 1 > Len(typed)
      BY <2>1
    <3>2. SubSeq(typed, Len(typed) + 1, Len(typed)) = <<>>
      BY <2>1
    <3>3. QED
      BY <2>1, <3>2
  <2>3. g + 1 \in 1 .. Len(typed)
    BY <2>1, <2>2
  <2>4. Head(args) = typed[g + 1] /\ Tail(args) = SubSeq(typed, (g + 1) + 1, Len(typed))
    BY <2>1, <2>3, HeadTailOfSubSeq
  <2>5. QED
    BY <2>1, <2>3, <2>4 DEF typed, args
<1>10. ASSUME NEW s \in DOMAIN ls.dir, Alone(s)
       PROVE  Count(h[1 .. n], FileName(s)) = Hits(ls.typed, g + 1, FileName(s))
  <2>1. \A i \in 1 .. n : ReaddirNames[i] = FileName(s) <=> i = s + 2
    BY <1>1, <1>10, AloneOnce
  <2>2. s + 2 \in 1 .. n
    <3>1. Len(ls.dir) \in Nat /\ DOMAIN ls.dir = 1 .. Len(ls.dir) /\ n = Len(ls.dir) + 2
      BY <1>1, SequenceLength, ReaddirIs
    <3>2. QED
      BY <3>1
  <2>3. Grown(h[1 .. n], ls.names, FileName(s), Head(ls.args))
    <3>1. Once(ReaddirNames, n, FileName(s))
      BY <1>3, <2>1, <2>2, CountedOnce
    <3>2. QED
      BY <1>6, <3>1
  <2>4. Count(ls.names, FileName(s)) = Hits(ls.typed, g, FileName(s))
    BY <1>7, <1>10 DEF Counted
  <2>5. Hits(ls.typed, g + 1, FileName(s)) =
          Hits(ls.typed, g, FileName(s))
            + TakesOf(FileName(s), ls.typed[g + 1])
    <3>1. DOMAIN ls.typed = 1 .. Len(ls.typed)
      BY <1>8
    <3>2. QED
      BY <1>9, <3>1, HitsNext
  <2>6. QED
    BY <1>9, <2>3, <2>4, <2>5 DEF Grown
<1>11. /\ DOMAIN ls' = DOMAIN ls /\ ls'.phase = "glob" /\ ls'.dir = ls.dir
       /\ ls'.typed = ls.typed /\ ls'.uppercase = ls.uppercase
       /\ ls'.printed = ls.printed /\ ls'.user = ls.user /\ ls'.i = ls.i
       /\ ls'.args = Tail(ls.args) /\ ls'.names = h[1 .. n]
  BY <1>4, <1>5 DEF LsShape
<1>12. LsShape'
  BY <1>11 DEF LsShape
<1>13. Counted(h[1 .. n], g + 1)'
  BY <1>10, <1>11 DEF Counted, Alone, FileName
<1>14. g + 1 \in 0 .. Len(ls.typed)
  BY <1>9
<1>15. GlobState'
  BY <1>6, <1>9, <1>11, <1>13, <1>14 DEF GlobState
<1>16. QED
  BY <1>11, <1>12, <1>15

LEMMA LastUser == MaxListed \in {15, 31}
BY DEF MaxListed

LEMMA ListingSorts ==
  ASSUME FilesAreListed, LsShape, GlobState, Sort, UNCHANGED geo
  PROVE  LsShape' /\ ListState' /\ ls'.phase = "list"
<1>1. ls.phase = "glob" /\ ls.args = <<>>
  BY DEF Sort
<1>2. PICK names : /\ names = IF ls.style = "dir" \/ ls.unsorted THEN ls.names
                              ELSE Sorted(ls.names)
                   /\ ls' = [ls EXCEPT !.phase = "list", !.names = names]
  BY DEF Sort
<1>3. OrderedNames(ls.names)
  BY DEF GlobState
<1>4. /\ OrderedNames(names)
      /\ ls.style # "dir" /\ ~ls.unsorted => Ascending(names)
      /\ \A x : Count(names, x) = Count(ls.names, x)
  <2>1. CASE ls.style = "dir" \/ ls.unsorted
    BY <1>2, <1>3, <2>1
  <2>2. CASE ~(ls.style = "dir" \/ ls.unsorted)
    BY <1>2, <1>3, <2>2, SortedIs
  <2>3. QED
    BY <2>1, <2>2
<1>5. PICK g \in 0 .. Len(ls.typed) :
        /\ ls.args = SubSeq(ls.typed, g + 1, Len(ls.typed))
        /\ Counted(ls.names, g)
  BY DEF GlobState
<1>6. g = Len(ls.typed)
  <2> DEFINE typed == ls.typed
  <2>1. PICK S : typed \in Seq(S)
    BY DEF LsShape, FilesAreListed, IsSequence
  <2>2. g \in 0 .. Len(typed) /\ Len(typed) \in Nat /\ SubSeq(typed, g + 1, Len(typed)) = <<>>
    BY <1>1, <1>5, <2>1
  <2> HIDE DEF typed
  <2>3. Len(SubSeq(typed, g + 1, Len(typed))) = Len(typed) - g
    BY <2>1, <2>2
  <2>4. Len(SubSeq(typed, g + 1, Len(typed))) = 0
    <3>1. Len(<<>>) = 0
      OBVIOUS
    <3>2. QED
      BY <2>2, <3>1, Zenon
  <2>5. QED
    BY <2>2, <2>3, <2>4 DEF typed
<1>7. /\ DOMAIN ls' = DOMAIN ls /\ ls'.phase = "list" /\ ls'.dir = ls.dir
      /\ ls'.typed = ls.typed /\ ls'.uppercase = ls.uppercase
      /\ ls'.printed = <<>> /\ ls'.user = 0 /\ ls'.i = 0
      /\ ls'.names = names /\ ls'.style = ls.style /\ ls'.unsorted = ls.unsorted
  BY <1>1, <1>2 DEF LsShape, GlobState
<1>8. LsShape'
  BY <1>7 DEF LsShape
<1>9. Counted(ls.names, Len(ls.typed))
  BY <1>5, <1>6
<1>10. Counted(names, Len(ls.typed))
  BY <1>4, <1>9 DEF Counted
<1>11. Counted(names, Len(ls.typed))'
  BY <1>7, <1>10 DEF Counted, Alone, FileName
<1>12. \A last : Printed(<<>>, names, last, <<0, 0>>, <<>>)
  <2> SUFFICES ASSUME NEW last PROVE Printed(<<>>, names, last, <<0, 0>>, <<>>)
    OBVIOUS
  <2>1. <<>> \in Seq({}) /\ Len(<<>>) = 0
    OBVIOUS
  <2>2. IsSequence(<<>>)
    BY <2>1 DEF IsSequence
  <2>3. ASSUME NEW at \in Due(names, last)
        PROVE  Less(<<0, 0>>, at)
    <3>1. at[1] \in 0 .. last /\ at[2] \in 1 .. Len(names)
      BY <2>3 DEF Due
    <3>2. at[1] = 0 \/ 0 < at[1]
      BY <3>1
    <3>3. 0 < at[2]
      BY <3>1
    <3>4. QED
      BY <3>2, <3>3 DEF Less
  <2>4. QED
    BY <2>1, <2>2, <2>3 DEF Printed
<1>13. StatsAreTrue'
  <2>1. 1 .. Len(ls'.printed) = {}
    BY <1>7
  <2>2. QED
    BY <2>1 DEF StatsAreTrue
<1>14. ListState'
  BY <1>4, <1>7, <1>11, <1>12, <1>13 DEF ListState
<1>15. QED
  BY <1>7, <1>8, <1>14

LEMMA LessOver ==
  ASSUME NEW a \in Int \X Int, NEW b \in Int \X Int, NEW c \in Int \X Int,
         ~Less(b, a), Less(b, c)
  PROVE  Less(a, c) /\ ~Less(c, a)
BY DEF Less

\* The loops come to what is due in its order.
LEMMA FirstDue ==
  ASSUME NEW last \in Nat, NEW n \in Nat, NEW D \in SUBSET ((0 .. last) \X (1 .. n)),
         NEW t \in D
  PROVE  NextOf(D) \in D /\ \A y \in D : y = NextOf(D) \/ Less(NextOf(D), y)
<1> DEFINE U == {x[1] : x \in D}
<1>1. \A x \in D : x[1] \in Nat /\ x[2] \in Nat /\ x = <<x[1], x[2]>>
  OBVIOUS
<1>2. U \in SUBSET Nat /\ t[1] \in U
  BY <1>1
<1>3. PICK u \in U : \A v \in U : u <= v
  <2> HIDE DEF U
  <2>1. QED
    BY <1>2, LeastNumber
<1> DEFINE I == {x[2] : x \in {y \in D : y[1] = u}}
<1>4. PICK x \in D : x[1] = u
  OBVIOUS
<1>5. I \in SUBSET Nat /\ x[2] \in I
  BY <1>1, <1>4
<1>6. PICK i \in I : \A j \in I : i <= j
  <2> HIDE DEF I
  <2>1. QED
    BY <1>5, LeastNumber
<1>7. PICK z \in D : z[1] = u /\ z[2] = i
  OBVIOUS
<1>8. ASSUME NEW y \in D
      PROVE  z[1] < y[1] \/ (z[1] = y[1] /\ z[2] <= y[2])
  <2>1. z[1] <= y[1] /\ z[1] \in Nat /\ y[1] \in Nat
    BY <1>1, <1>3, <1>7
  <2>2. z[1] = y[1] => z[2] <= y[2]
    BY <1>6, <1>7
  <2>3. QED
    BY <2>1, <2>2
<1>9. /\ NextOf(D) \in D
      /\ \A y \in D : NextOf(D)[1] < y[1] \/ (NextOf(D)[1] = y[1] /\ NextOf(D)[2] <= y[2])
  BY <1>8 DEF NextOf
<1>10. PICK w : w = NextOf(D)
  OBVIOUS
<1>11. ASSUME NEW y \in D
       PROVE  y = w \/ Less(w, y)
  <2>1. /\ w \in D
        /\ w[1] < y[1] \/ (w[1] = y[1] /\ w[2] <= y[2])
    BY <1>9, <1>10
  <2>2. /\ w[1] \in Nat /\ w[2] \in Nat /\ w = <<w[1], w[2]>>
        /\ y[1] \in Nat /\ y[2] \in Nat /\ y = <<y[1], y[2]>>
    BY <1>1, <2>1
  <2>3. CASE w[1] < y[1]
    BY <2>3 DEF Less
  <2>4. CASE w[1] = y[1] /\ w[2] < y[2]
    BY <2>4 DEF Less
  <2>5. CASE w[1] = y[1] /\ w[2] = y[2]
    BY <2>2, <2>5
  <2>6. QED
    BY <2>1, <2>2, <2>3, <2>4, <2>5
<1>12. QED
  BY <1>9, <1>10, <1>11

LEMMA RemainingIs ==
  ASSUME OrderedNames(ls.names)
  PROVE  Remaining = {at \in Due(ls.names, MaxListed) : Less(<<ls.user, ls.i>>, at)}
<1>1. DOMAIN ls.names = 1 .. Len(ls.names)
  BY SequenceLength DEF OrderedNames
<1>2. \A at : Less(<<ls.user, ls.i>>, at)
                <=> ls.user < at[1] \/ (ls.user = at[1] /\ ls.i < at[2])
  BY DEF Less
<1>3. QED
  BY <1>1, <1>2 DEF Remaining, Due

\* One line more
LEMMA PrintedMore ==
  ASSUME NEW printed, NEW names, NEW last \in Nat, NEW upto \in Int \X Int, NEW place,
         Printed(printed, names, last, upto, place), Len(names) \in Nat,
         NEW at \in Due(names, last), Less(upto, at),
         \A y \in Due(names, last) : Less(upto, y) => y = at \/ Less(at, y),
         NEW line, line.user = at[1], line.name = names[at[2]]
  PROVE  \E p : Printed(Append(printed, line), names, last, at, p)
<1> DEFINE L == Len(printed)
           p == [l \in 1 .. L + 1 |-> IF l = L + 1 THEN at ELSE place[l]]
           D == Due(names, last)
           more == Append(printed, line)
<1>1. /\ IsSequence(printed)
      /\ \A l \in 1 .. L :
           /\ place[l] \in D /\ ~Less(upto, place[l])
           /\ printed[l].user = place[l][1] /\ printed[l].name = names[place[l][2]]
           /\ \A k \in 1 .. l - 1 : Less(place[k], place[l])
      /\ \A y \in D : Less(upto, y) \/ \E l \in 1 .. L : place[l] = y
  BY DEF Printed
<1>2. D \subseteq Int \X Int
  BY DEF Due
<1>3. L \in Nat
  BY <1>1, SequenceLength
<1>4. /\ IsSequence(more) /\ Len(more) = L + 1
      /\ \A l \in 1 .. L : more[l] = printed[l]
      /\ more[L + 1] = line
  <2>1. IsSequence(more) /\ With(more, printed, L + 1, line)
    BY <1>1, AppendIs
  <2> HIDE DEF more
  <2>2. (L + 1) - 1 = L
    BY <1>3
  <2>3. QED
    BY <2>1, <2>2 DEF With
<1>5. ~Less(at, at)
  BY <1>2 DEF Less
<1>6. \A l \in 1 .. L : Less(place[l], at) /\ ~Less(at, place[l])
  <2>1. ASSUME NEW l \in 1 .. L
        PROVE  Less(place[l], at) /\ ~Less(at, place[l])
    <3>1. place[l] \in Int \X Int /\ at \in Int \X Int /\ ~Less(upto, place[l])
      BY <1>1, <1>2
    <3>2. QED
      BY <3>1, LessOver
  <2>2. QED
    BY <2>1
<1>7. /\ \A l \in 1 .. L : p[l] = place[l]
      /\ p[L + 1] = at
  BY <1>3
<1>8. \A y \in D : Less(at, y) \/ \E l \in 1 .. L + 1 : p[l] = y
  <2>1. ASSUME NEW y \in D
        PROVE  Less(at, y) \/ \E l \in 1 .. L + 1 : p[l] = y
    <3>1. 1 .. L \subseteq 1 .. L + 1 /\ L + 1 \in 1 .. L + 1
      BY <1>3
    <3> HIDE DEF p, L
    <3>2. CASE Less(upto, y)
      BY <1>7, <3>1, <3>2
    <3>3. CASE ~Less(upto, y)
      BY <1>1, <1>7, <3>1, <3>3
    <3>4. QED
      BY <3>2, <3>3
  <2>2. QED
    BY <2>1
<1>9. ASSUME NEW l \in 1 .. L + 1
      PROVE  /\ p[l] \in D /\ ~Less(at, p[l])
             /\ more[l].user = p[l][1] /\ more[l].name = names[p[l][2]]
             /\ \A k \in 1 .. l - 1 : Less(p[k], p[l])
  <2>1. CASE l = L + 1
    <3>1. \A k \in 1 .. l - 1 : k \in 1 .. L
      BY <1>3, <2>1
    <3>2. /\ p[l] = at /\ more[l] = line
      BY <1>4, <1>7, <2>1
    <3> HIDE DEF p, more, L, D
    <3>3. \A k \in 1 .. l - 1 : Less(p[k], p[l])
      BY <1>6, <1>7, <3>1, <3>2
    <3>4. QED
      BY <1>5, <3>2, <3>3 DEF D
  <2>2. CASE l \in 1 .. L
    <3>1. \A k \in 1 .. l - 1 : k \in 1 .. L
      BY <1>3, <2>2
    <3>2. p[l] = place[l] /\ more[l] = printed[l]
      BY <1>4, <1>7, <2>2
    <3> HIDE DEF p, more, L, D
    <3>3. \A k \in 1 .. l - 1 : Less(p[k], p[l])
      BY <1>1, <1>7, <2>2, <3>1, <3>2
    <3>4. QED
      BY <1>1, <1>6, <2>2, <3>2, <3>3
  <2>3. l = L + 1 \/ l \in 1 .. L
    <3> HIDE DEF L
    <3>1. QED
      BY <1>3
  <2>4. QED
    BY <2>1, <2>2, <2>3
<1> HIDE DEF p, more, D
<1>10. Printed(more, names, last, at, p)
  BY <1>4, <1>8, <1>9 DEF Printed, D
<1>11. QED
  BY <1>10 DEF more

LEMMA ListingPrints ==
  ASSUME NamesAreTexts, LettersAreLetters, FilesAreListed, LsShape, ListState,
         PrintLine, UNCHANGED geo
  PROVE  LsShape' /\ ListState' /\ ls'.phase = "list"
<1> DEFINE D == Due(ls.names, MaxListed)
           upto == <<ls.user, ls.i>>
<1>1. PICK at : at = NextOf(Remaining)
  OBVIOUS
<1>2. PICK name, stat :
        /\ name = ls.names[at[2]] /\ stat = Looked(name)
        /\ ls' = [ls EXCEPT !.user = at[1], !.i = at[2], !.file = stat,
                            !.printed = Append(@, [user |-> at[1], name |-> name,
                                                   stat |-> stat])]
  BY <1>1 DEF PrintLine
<1>3. ls.phase = "list" /\ Remaining # {}
  BY DEF PrintLine
<1>4. OrderedNames(ls.names) /\ Len(ls.names) \in Nat
  BY SequenceLength DEF ListState, OrderedNames
<1>5. Remaining = {y \in D : Less(upto, y)}
  BY <1>4, RemainingIs
<1>6. MaxListed \in Nat
  BY LastUser
<1>7. at \in Remaining /\ \A y \in Remaining : y = at \/ Less(at, y)
  <2>1. Remaining \in SUBSET ((0 .. MaxListed) \X (1 .. Len(ls.names)))
    BY <1>5 DEF Due
  <2>2. QED
    BY <1>1, <1>3, <1>4, <1>6, <2>1, FirstDue
<1>8. at \in D /\ Less(upto, at) /\ \A y \in D : Less(upto, y) => y = at \/ Less(at, y)
  BY <1>5, <1>7
<1>9. at[1] \in Int /\ at[2] \in Int /\ at = <<at[1], at[2]>>
  BY <1>8 DEF Due
<1> DEFINE line == [user |-> at[1], name |-> name, stat |-> stat]
<1>10. PICK place : Printed(ls.printed, ls.names, MaxListed, upto, place)
  BY DEF ListState
<1>11. \E p : Printed(Append(ls.printed, line), ls.names, MaxListed, at, p)
  <2>1. upto \in Int \X Int
    BY DEF ListState
  <2>2. line.user = at[1] /\ line.name = ls.names[at[2]]
    BY <1>2
  <2> HIDE DEF line, upto
  <2>3. QED
    BY <1>4, <1>6, <1>8, <1>10, <2>1, <2>2, PrintedMore
<1>12. /\ DOMAIN ls' = DOMAIN ls /\ ls'.phase = "list" /\ ls'.dir = ls.dir
       /\ ls'.typed = ls.typed /\ ls'.uppercase = ls.uppercase
       /\ ls'.printed = Append(ls.printed, line) /\ ls'.user = at[1] /\ ls'.i = at[2]
       /\ ls'.names = ls.names /\ ls'.style = ls.style /\ ls'.unsorted = ls.unsorted
  BY <1>2, <1>3 DEF LsShape
<1>13. LsShape'
  BY <1>12 DEF LsShape
<1>14. Counted(ls.names, Len(ls.typed))'
  BY <1>12 DEF ListState, Counted, Alone, FileName
<1>15. ASSUME ls.style = "long", NEW l \in 1 .. Len(Append(ls.printed, line)),
              NEW s \in DOMAIN ls.dir, Alone(s),
              Append(ls.printed, line)[l].name = FileName(s)
       PROVE  Append(ls.printed, line)[l].stat = s
  <2> DEFINE more == Append(ls.printed, line)
  <2>1. IsSequence(ls.printed) /\ Len(ls.printed) \in Nat
    BY <1>10, SequenceLength DEF Printed
  <2>2. With(more, ls.printed, Len(ls.printed) + 1, line)
    <3> HIDE DEF line
    <3>1. QED
      BY <2>1, AppendIs
  <2> HIDE DEF more
  <2>3. /\ Len(more) = Len(ls.printed) + 1 /\ more[Len(ls.printed) + 1] = line
        /\ \A k \in 1 .. Len(ls.printed) : more[k] = ls.printed[k]
    <3>1. (Len(ls.printed) + 1) - 1 = Len(ls.printed)
      BY <2>1
    <3>2. QED
      BY <2>2, <3>1 DEF With
  <2>4. CASE l = Len(ls.printed) + 1
    <3>1. more[l].name = name /\ more[l].stat = stat
      BY <2>3, <2>4
    <3>2. name = FileName(s)
      BY <1>15, <3>1 DEF more
    <3>3. {t \in DOMAIN ls.dir : ls.dir[t] \in SplitFilename(name, MaxUser)} = {s}
      BY <1>15, <3>2, FoundIs DEF LsShape, Alone
    <3>4. stat = s
      BY <1>2, <1>15, <3>3 DEF Looked
    <3>5. QED
      BY <3>1, <3>4 DEF more
  <2>5. CASE l \in 1 .. Len(ls.printed)
    BY <1>15, <2>3, <2>5 DEF more, ListState, StatsAreTrue
  <2>6. QED
    BY <2>1, <2>3, <2>4, <2>5 DEF more
<1>16. StatsAreTrue'
  <2> HIDE DEF line
  <2>1. QED
    BY <1>12, <1>15 DEF StatsAreTrue, Alone, FileName
<1>17. MaxListed' = MaxListed
  BY DEF MaxListed
<1>18. \E p : Printed(ls.printed, ls.names, MaxListed, <<ls.user, ls.i>>, p)'
  <2> HIDE DEF line
  <2>1. ls'.printed = Append(ls.printed, line) /\ <<ls'.user, ls'.i>> = at
    BY <1>9, <1>12
  <2>2. QED
    BY <1>11, <1>12, <1>17, <2>1
<1>19. ListState'
  <2> HIDE DEF line
  <2>1. /\ OrderedNames(ls'.names)
        /\ ls'.style # "dir" /\ ~ls'.unsorted => Ascending(ls'.names)
        /\ ls'.user \in Int /\ ls'.i \in Int
    BY <1>9, <1>12 DEF ListState
  <2>2. QED
    BY <1>14, <1>16, <1>18, <2>1 DEF ListState
<1>20. QED
  BY <1>12, <1>13, <1>19

LEMMA ListingEnds ==
  ASSUME LsShape, ListState, LsEnd, UNCHANGED geo
  PROVE  LsShape' /\ ListState' /\ ls'.phase = "end" /\ Remaining' = {}
<1>1. /\ DOMAIN ls' = DOMAIN ls /\ ls'.phase = "end" /\ ls'.dir = ls.dir
      /\ ls'.typed = ls.typed /\ ls'.uppercase = ls.uppercase
      /\ ls'.printed = ls.printed /\ ls'.user = ls.user /\ ls'.i = ls.i
      /\ ls'.names = ls.names /\ ls'.style = ls.style /\ ls'.unsorted = ls.unsorted
  BY DEF LsEnd, LsShape
<1>2. MaxListed' = MaxListed
  BY DEF MaxListed
<1>3. LsShape'
  BY <1>1 DEF LsShape
<1>4. Counted(ls.names, Len(ls.typed))'
  BY <1>1 DEF ListState, Counted, Alone, FileName
<1>5. StatsAreTrue'
  BY <1>1 DEF ListState, StatsAreTrue, Alone, FileName
<1>6. ListState'
  BY <1>1, <1>2, <1>4, <1>5 DEF ListState
<1>7. Remaining = {}
  BY DEF LsEnd
<1>8. Remaining' = {}
  BY <1>1, <1>2, <1>7 DEF Remaining
<1>9. QED
  BY <1>1, <1>3, <1>6, <1>8

LEMMA ListingStays ==
  ASSUME LsShape, UNCHANGED <<ls, geo>>
  PROVE  /\ LsShape'
         /\ GlobState => GlobState'
         /\ ListState => ListState'
         /\ Remaining' = Remaining
<1>1. MaxListed' = MaxListed
  BY DEF MaxListed
<1>2. \A names, g : Counted(names, g) => Counted(names, g)'
  BY DEF Counted, Alone, FileName
<1>3. GlobState => GlobState'
  BY <1>2 DEF GlobState
<1>4. StatsAreTrue => StatsAreTrue'
  BY DEF StatsAreTrue, Alone, FileName
<1>5. ListState => ListState'
  BY <1>1, <1>2, <1>4 DEF ListState
<1>6. Remaining' = Remaining
  BY <1>1 DEF Remaining
<1>7. QED
  BY <1>3, <1>5, <1>6 DEF LsShape

LEMMA ListNext ==
  ASSUME NamesAreTexts, LettersAreLetters, FilesAreListed, ListInv,
         [ReadersNext]_allvars
  PROVE  ListInv'
<1>1. CASE UNCHANGED <<def, geo, ls>>
  <2>1. Mounted' = Mounted
    BY <1>1 DEF Mounted
  <2>2. CASE ls = NoListing
    BY <1>1, <2>1, <2>2 DEF ListInv
  <2>3. CASE ls # NoListing
    <3>1. LsShape
      BY <2>3 DEF ListInv
    <3>2. /\ LsShape' /\ Remaining' = Remaining
          /\ GlobState => GlobState'
          /\ ListState => ListState'
      BY <1>1, <3>1, ListingStays
    <3>3. /\ Mounted /\ def = NoReader
          /\ ls.phase = "glob" => GlobState
          /\ ls.phase \in {"list", "end"} => ListState
          /\ ls.phase = "end" => Remaining = {}
      BY <2>3 DEF ListInv
    <3>4. /\ Mounted' /\ def' = NoReader
          /\ ls'.phase = "glob" => GlobState'
          /\ ls'.phase \in {"list", "end"} => ListState'
          /\ ls'.phase = "end" => Remaining' = {}
      <4>1. ls' = ls /\ def' = def /\ geo' = geo
        BY <1>1
      <4>2. Mounted' /\ def' = NoReader
        BY <3>3, <4>1 DEF Mounted
      <4>3. ls'.phase = "glob" => GlobState'
        BY <3>2, <3>3, <4>1
      <4>4. ls'.phase \in {"list", "end"} => ListState'
        BY <3>2, <3>3, <4>1
      <4>5. ls'.phase = "end" => Remaining' = {}
        BY <3>2, <3>3, <4>1
      <4>6. QED
        BY <4>2, <4>3, <4>4, <4>5
    <3>5. QED
      BY <3>2, <3>4 DEF ListInv
  <2>4. QED
    BY <2>2, <2>3
<1>2. CASE Definition
  <2>1. def # NoReader
    <3>1. def.phase # "none"
      BY <1>2 DEF Definition, DefStep, OpenDef, SkipLine, SetLine, RefuseLine, EndDef,
                  EndOfText, CheckDef, AmsReadSuper, Inside, Outside, MoreText,
                  SetGeometry
    <3>2. QED
      BY <3>1 DEF NoReader
  <2>2. ~Mounted /\ ls = NoListing /\ ls' = ls
    BY <1>2, <2>1 DEF ListInv, Definition, work
  <2>3. Mounted' => def' = NoReader
    BY <1>2, <2>2 DEF Definition, SetGeometry, Mounted
  <2>4. QED
    BY <2>2, <2>3 DEF ListInv
<1>3. CASE LsStart /\ UNCHANGED <<def, geo>> /\ Mounted
  <2>1. LsShape' /\ GlobState' /\ ls'.phase = "glob"
    BY <1>3, ListingBegins
  <2>2. Mounted' /\ def' = NoReader
    BY <1>3 DEF ListInv, Mounted
  <2>3. QED
    BY <2>1, <2>2 DEF ListInv
<1>4. CASE LsStep /\ UNCHANGED <<def, geo>>
  <2>1. ls # NoListing
    <3>1. ls.phase # "none"
      BY <1>4 DEF LsStep, Glob, Sort, PrintLine, LsEnd
    <3>2. QED
      BY <3>1 DEF NoListing
  <2>2. /\ LsShape /\ Mounted /\ def = NoReader
        /\ ls.phase = "glob" => GlobState
        /\ ls.phase = "list" => ListState
    BY <2>1 DEF ListInv
  <2>3. Mounted' /\ def' = NoReader
    BY <1>4, <2>2 DEF Mounted
  <2>4. CASE Glob
    <3>1. GlobState
      BY <2>2, <2>4 DEF Glob
    <3>2. LsShape' /\ GlobState' /\ ls'.phase = "glob"
      BY <2>2, <2>4, <3>1, ListingGlobs
    <3>3. QED
      BY <2>3, <3>2 DEF ListInv
  <2>5. CASE Sort
    <3>1. GlobState
      BY <2>2, <2>5 DEF Sort
    <3>2. LsShape' /\ ListState' /\ ls'.phase = "list"
      BY <1>4, <2>2, <2>5, <3>1, ListingSorts
    <3>3. QED
      BY <2>3, <3>2 DEF ListInv
  <2>6. CASE PrintLine
    <3>1. ListState
      BY <2>2, <2>6 DEF PrintLine
    <3>2. LsShape' /\ ListState' /\ ls'.phase = "list"
      BY <1>4, <2>2, <2>6, <3>1, ListingPrints
    <3>3. QED
      BY <2>3, <3>2 DEF ListInv
  <2>7. CASE LsEnd
    <3>1. ListState
      BY <2>2, <2>7 DEF LsEnd
    <3>2. LsShape' /\ ListState' /\ ls'.phase = "end" /\ Remaining' = {}
      BY <1>4, <2>2, <2>7, <3>1, ListingEnds
    <3>3. QED
      BY <2>3, <3>2 DEF ListInv
  <2>8. QED
    BY <1>4, <2>4, <2>5, <2>6, <2>7 DEF LsStep
<1>5. QED
  BY <1>1, <1>2, <1>3, <1>4 DEF ReadersNext, Begin, Work, work, allvars

\* What is printed of a file with a proper name
LEMMA LinesCounted ==
  ASSUME NamesAreTexts, FilesAreListed, LsShape, ListState, Remaining = {},
         NEW s \in DOMAIN ls.dir, Alone(s)
  PROVE  Cardinality(LinesOf(FileName(s))) =
           IF ls.dir[s].user > MaxListed THEN 0
           ELSE Cardinality({k \in DOMAIN ls.typed : Matches(FileName(s), ls.typed[k])})
<1> PICK name : name = FileName(s)
  OBVIOUS
<1> PICK u : u = ls.dir[s].user
  OBVIOUS
<1> DEFINE D == Due(ls.names, MaxListed)
           upto == <<ls.user, ls.i>>
           L == Len(ls.printed)
           lines == {l \in 1 .. L : ls.printed[l].name = name}
           places == {i \in 1 .. Len(ls.names) : ls.names[i] = name}
<1>1. PICK place : Printed(ls.printed, ls.names, MaxListed, upto, place)
  BY DEF ListState
<1>2. /\ IsSequence(ls.printed)
      /\ \A l \in 1 .. L :
           /\ place[l] \in D
           /\ ls.printed[l].name = ls.names[place[l][2]]
           /\ \A k \in 1 .. l - 1 : Less(place[k], place[l])
      /\ \A at \in D : Less(upto, at) \/ \E l \in 1 .. L : place[l] = at
  BY <1>1 DEF Printed
<1>3. L \in Nat /\ DOMAIN ls.printed = 1 .. L
  BY <1>2, SequenceLength
<1>4. OrderedNames(ls.names) /\ Len(ls.names) \in Nat
  BY SequenceLength DEF ListState, OrderedNames
<1>5. \A at \in D : \E l \in 1 .. L : place[l] = at
  <2>1. \A at \in D : ~Less(upto, at)
    BY <1>4, RemainingIs
  <2>2. QED
    BY <1>2, <2>1
<1>6. LinesOf(FileName(s)) = lines
  BY <1>3 DEF LinesOf
<1>7. /\ u \in 0 .. 31 /\ MaxListed \in 0 .. 31
      /\ \A v \in 0 .. MaxListed : v \in 0 .. 31
      /\ ~(u > MaxListed) <=> u \in 0 .. MaxListed
  <2>1. u \in 0 .. 31
    BY DEF FilesAreListed, LsShape
  <2>2. CASE MaxListed = 15
    BY <2>1, <2>2
  <2>3. CASE MaxListed = 31
    BY <2>1, <2>3
  <2>4. QED
    BY <2>2, <2>3, LastUser
<1>8. SubSeq(name, 1, 2) = UserDigits(u)
  <2>1. /\ IsSequence(name) /\ Len(name) \in Nat /\ Len(name) >= 2
        /\ \A i \in 1 .. 2 : name[i] = UserDigits(u)[i]
    BY ListedOrdered DEF LsShape, FileName, Ordered
  <2> DEFINE a == SubSeq(name, 1, 2)
             b == UserDigits(u)
  <2>2. 1 \in 1 .. Len(name) + 1 /\ 2 \in 1 - 1 .. Len(name) /\ 2 + 1 - 1 = 2
    BY <2>1
  <2>3. IsSequence(a) /\ Len(a) = 2 /\ \A i \in 1 .. 2 : a[i] = name[1 - 1 + i]
    BY <2>1, <2>2, SubSeqIs
  <2>4. IsSequence(b) /\ Len(b) = 2
    BY <1>7, UserIs
  <2>5. a[1] = b[1] /\ a[2] = b[2]
    BY <2>1, <2>3
  <2> HIDE DEF a, b
  <2>6. PICK A : a \in Seq(A)
    BY <2>3 DEF IsSequence
  <2>7. PICK B : b \in Seq(B)
    BY <2>4 DEF IsSequence
  <2>8. a = b
    BY <2>3, <2>4, <2>5, <2>6, <2>7
  <2>9. QED
    BY <2>8 DEF a, b
<1>9. \A v \in 0 .. 31 : UserDigits(v) = UserDigits(u) => v = u
  <2>1. ASSUME NEW v \in 0 .. 31, UserDigits(v) = UserDigits(u)
        PROVE  v = u
    <3> DEFINE c == UserDigits(v)
               d == UserDigits(u)
    <3>1. /\ 10 * DigitVal[c[1]] + DigitVal[c[2]] = v
          /\ 10 * DigitVal[d[1]] + DigitVal[d[2]] = u
      BY <1>7, UserIs
    <3>2. c = d
      BY <2>1
    <3> HIDE DEF c, d
    <3>3. QED
      BY <3>1, <3>2
  <2>2. QED
    BY <2>1
<1>10. \A l \in lines : /\ place[l][1] = u /\ place[l][2] \in places
                        /\ place[l] = <<place[l][1], place[l][2]>>
                        /\ u \in 0 .. MaxListed
  <2>1. ASSUME NEW l \in lines
        PROVE  /\ place[l][1] = u /\ place[l][2] \in places
               /\ place[l] = <<place[l][1], place[l][2]>>
               /\ u \in 0 .. MaxListed
    <3>1. l \in 1 .. L /\ ls.names[place[l][2]] = name
      BY <1>2
    <3>2. place[l] \in D
      BY <1>2, <3>1
    <3>3. /\ place[l][1] \in 0 .. MaxListed /\ place[l][2] \in 1 .. Len(ls.names)
          /\ place[l] = <<place[l][1], place[l][2]>>
          /\ SubSeq(ls.names[place[l][2]], 1, 2) = UserDigits(place[l][1])
      BY <3>2 DEF Due
    <3>4. place[l][1] \in 0 .. 31
      BY <1>7, <3>3
    <3>5. place[l][1] = u
      BY <1>8, <1>9, <3>1, <3>3, <3>4
    <3>6. QED
      BY <3>1, <3>3, <3>5
  <2>2. QED
    BY <2>1
<1>11. CASE u > MaxListed
  <2>1. lines = {}
    <3> HIDE DEF lines
    <3>1. ~(u \in 0 .. MaxListed)
      BY <1>7, <1>11
    <3>2. QED
      BY <1>10, <3>1
  <2>2. QED
    BY <1>6, <1>11, <2>1, FS_EmptySet
<1>12. CASE ~(u > MaxListed)
  <2>1. Cardinality(lines) = Cardinality(places)
    <3> DEFINE f == [l \in lines |-> place[l][2]]
    <3>1. f \in [lines -> places]
      <4> HIDE DEF lines, places
      <4>1. QED
        BY <1>10
    <3>2. ASSUME NEW k \in lines, NEW l \in lines, f[k] = f[l]
          PROVE  k = l
      <4>1. place[k] = place[l]
        <5> HIDE DEF lines, places
        <5>1. place[k][1] = place[l][1] /\ place[k][2] = place[l][2]
          BY <1>10, <3>2
        <5>2. QED
          BY <1>10, <5>1
      <4>2. k \in 1 .. L /\ l \in 1 .. L
        OBVIOUS
      <4>3. place[l] \in Int \X Int
        BY <1>2, <4>2 DEF Due
      <4>4. ~Less(place[l], place[l])
        BY <4>3 DEF Less
      <4>5. k \notin 1 .. l - 1
        BY <1>2, <4>1, <4>2, <4>4
      <4>6. l \notin 1 .. k - 1
        BY <1>2, <4>1, <4>2, <4>4
      <4> HIDE DEF L
      <4>7. QED
        BY <1>3, <4>2, <4>5, <4>6
    <3>3. ASSUME NEW i \in places
          PROVE  \E l \in lines : f[l] = i
      <4>1. i \in 1 .. Len(ls.names) /\ ls.names[i] = name
        OBVIOUS
      <4>2. u \in 0 .. MaxListed
        BY <1>7, <1>12
      <4>3. <<u, i>> \in D
        BY <1>8, <4>1, <4>2 DEF Due
      <4>4. PICK l \in 1 .. L : place[l] = <<u, i>>
        BY <1>5, <4>3
      <4>5. place[l][2] = i
        BY <4>4
      <4>6. l \in lines
        BY <1>2, <4>1, <4>5
      <4>7. QED
        BY <4>5, <4>6
    <3> HIDE DEF f
    <3>4. f \in Bijection(lines, places)
      <4> HIDE DEF lines, places
      <4>1. QED
        BY <3>1, <3>2, <3>3 DEF Bijection, Injection, Surjection, IsInjective
    <3>5. IsFiniteSet(lines)
      <4>1. IsFiniteSet({l \in 1 .. L : ls.printed[l].name = name})
        <5>1. 1 .. L \subseteq Nat /\ IsFiniteSet(1 .. L)
          BY <1>3, FS_Interval
        <5>2. QED
          BY <5>1, FS_Subset
      <4>2. QED
        BY <4>1
    <3>6. ExistsBijection(lines, places)
      BY <3>4 DEF ExistsBijection
    <3>7. QED
      <4> HIDE DEF lines, places
      <4>1. QED
        BY <3>5, <3>6, FS_Bijection
  <2>2. Cardinality(places) = Hits(ls.typed, Len(ls.typed), name)
    BY DEF ListState, Counted, Count, CountTo
  <2>3. Hits(ls.typed, Len(ls.typed), name) =
          Cardinality({k \in DOMAIN ls.typed : Matches(name, ls.typed[k])})
    <3>1. DOMAIN ls.typed = 1 .. Len(ls.typed)
      BY SequenceLength DEF FilesAreListed, LsShape
    <3>2. {k \in 1 .. Len(ls.typed) : Hit(ls.typed, name)[k] = 1}
            = {k \in DOMAIN ls.typed : Matches(name, ls.typed[k])}
      BY <3>1 DEF Hit, TakesOf
    <3>3. QED
      BY <3>2 DEF Hits, CountTo
  <2>4. QED
    BY <1>6, <1>12, <2>1, <2>2, <2>3
<1>13. QED
  BY <1>11, <1>12

\* The lines are in the order of users and names.
LEMMA LinesOrdered ==
  ASSUME ListState, NEW k \in DOMAIN ls.printed, NEW l \in DOMAIN ls.printed, k < l
  PROVE  \/ ls.printed[k].user < ls.printed[l].user
         \/ /\ ls.printed[k].user = ls.printed[l].user
            /\ ~ls.unsorted /\ ls.style # "dir" =>
                 ~Before(ls.printed[l].name, ls.printed[k].name)
<1> DEFINE L == Len(ls.printed)
           D == Due(ls.names, MaxListed)
<1>1. PICK place : Printed(ls.printed, ls.names, MaxListed, <<ls.user, ls.i>>, place)
  BY DEF ListState
<1>2. /\ IsSequence(ls.printed)
      /\ \A m \in 1 .. L :
           /\ place[m] \in D
           /\ ls.printed[m].user = place[m][1] /\ ls.printed[m].name = ls.names[place[m][2]]
           /\ \A n \in 1 .. m - 1 : Less(place[n], place[m])
  BY <1>1 DEF Printed
<1>3. L \in Nat /\ DOMAIN ls.printed = 1 .. L
  BY <1>2, SequenceLength
<1> HIDE DEF L
<1>4. k \in 1 .. L /\ l \in 1 .. L /\ k \in 1 .. l - 1
  BY <1>3
<1>5. Less(place[k], place[l]) /\ place[k] \in D /\ place[l] \in D
  BY <1>2, <1>4
<1>6. CASE place[k][1] < place[l][1]
  BY <1>2, <1>4, <1>6
<1>7. CASE place[k][1] = place[l][1] /\ place[k][2] < place[l][2]
  <2>1. place[l][2] \in 1 .. Len(ls.names) /\ place[k][2] \in 1 .. Len(ls.names)
    BY <1>5 DEF Due
  <2>2. Len(ls.names) \in Nat
    BY SequenceLength DEF ListState, OrderedNames
  <2>3. place[k][2] \in 1 .. place[l][2] - 1
    BY <1>7, <2>1, <2>2
  <2>4. ~ls.unsorted /\ ls.style # "dir" =>
          ~Before(ls.names[place[l][2]], ls.names[place[k][2]])
    BY <2>1, <2>3 DEF ListState, Ascending
  <2>5. QED
    BY <1>2, <1>4, <1>7, <2>4
<1>8. QED
  BY <1>5, <1>6, <1>7 DEF Less

\* cpmls prints a file with a proper name once for each pattern that names it,
\* in the order of users and names, and with what the entry of the file says,
\* whatever else is in the directory and whatever the patterns are: globbing,
\* sorting and the loops lose no name, take none twice, and splitFilename leads
\* back to the entry that the name was made of.
THEOREM ListingIsTrue ==
  ASSUME NamesAreTexts, LettersAreLetters, FilesAreListed
  PROVE  ReadersSpec => []LinesAreTrue
<1>1. ReadersInit => ListInv
  BY DEF ReadersInit, Idle, ListInv, Mounted
<1>2. ListInv /\ [ReadersNext]_allvars => ListInv'
  BY ListNext
<1>3. ListInv => LinesAreTrue
  <2> SUFFICES ASSUME ListInv, ls.phase = "end" PROVE LinesAreTrue
    BY DEF LinesAreTrue
  <2>1. LsShape /\ ListState /\ Remaining = {}
    BY DEF ListInv, NoListing
  <2>2. ASSUME NEW s \in DOMAIN ls.dir, Alone(s)
        PROVE  /\ Cardinality(LinesOf(FileName(s))) =
                    IF ls.dir[s].user > MaxListed THEN 0
                    ELSE Cardinality({k \in DOMAIN ls.typed :
                                        Matches(FileName(s), ls.typed[k])})
               /\ \A l \in LinesOf(FileName(s)) :
                    ls.style = "long" => ls.printed[l].stat = s
    <3>1. Cardinality(LinesOf(FileName(s))) =
            IF ls.dir[s].user > MaxListed THEN 0
            ELSE Cardinality({k \in DOMAIN ls.typed :
                                Matches(FileName(s), ls.typed[k])})
      BY <2>1, <2>2, LinesCounted
    <3>2. DOMAIN ls.printed = 1 .. Len(ls.printed)
      BY <2>1, SequenceLength DEF ListState, Printed
    <3>3. \A l \in LinesOf(FileName(s)) :
            ls.style = "long" => ls.printed[l].stat = s
      BY <2>1, <2>2, <3>2 DEF ListState, StatsAreTrue, LinesOf
    <3>4. QED
      BY <3>1, <3>3
  <2>3. \A k, l \in DOMAIN ls.printed :
          k < l => \/ ls.printed[k].user < ls.printed[l].user
                   \/ /\ ls.printed[k].user = ls.printed[l].user
                      /\ ~ls.unsorted /\ ls.style # "dir" =>
                           ~Before(ls.printed[l].name, ls.printed[k].name)
    BY <2>1, LinesOrdered
  <2>4. QED
    BY <2>2, <2>3, Zenon DEF LinesAreTrue, FileName
<1>4. QED
  BY <1>1, <1>2, <1>3, PTL DEF ReadersSpec

=============================================================================
