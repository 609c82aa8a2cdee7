----------------------------- MODULE MCReaders -----------------------------
(* Files of definitions, directories, texts and times for TLC.             *)
EXTENDS Readers

\* CP/M 2.2, with a skew that divides the sectors and a directory that does
\* not end with a track
Small == <<Line("seclen", 128), Line("tracks", 3), Line("sectrk", 4),
           Line("blocksize", 512), Line("maxdir", 8), Line("boottrk", 1),
           Line("skew", 2)>>

\* the same a track further on in the image file
Shifted == Small \o <<Offset(1, "T")>>

\* CP/M 3, sectors of 256 bytes in a table, blocks that cross tracks
Large == <<Line("maxdir", 32), Line("seclen", 256), Line("tracks", 2),
           Line("sectrk", 3), Line("blocksize", 512), Line("boottrk", 0),
           Line("dirblks", 2), Line("skewtab", <<1, 0, 2>>), Line("os", "3")>>

\* the order of Small turned round, P2DOS
Dated == <<Line("os", "p2dos"), Line("boottrk", 1), Line("maxdir", 16),
           Line("logicalextents", 2), Line("blocksize", 512),
           Line("sectrk", 4), Line("tracks", 3), Line("seclen", 128)>>

Begin1(name) == <<Line("diskdef", name)>>
End1         == <<Word("end")>>
Def(name, body) == Begin1(name) \o body \o End1

DefFiles ==
  { Def("small", Small) \o Def("large", Large),
    Def("large", Large) \o <<Word("nonsense")>> \o Def("small", Small),
    Def("dated", Dated) \o Def("small", Dated),
    Def("large", Shifted) \o Def("large", Large),
    \* without an end the next definition is part of the first
    Begin1("other") \o Small \o Def("small", Dated) \o Def("small", Small),
    Begin1("small") \o Dated \o Begin1("large") \o Large \o End1,
    \* an offset that comes too early, a system and a size that are unknown
    Def("large", <<Offset(1, "T")>> \o Small) \o Def("small", Small),
    Def("small", <<Line("os", "4")>> \o Small),
    Def("small", <<Line("blocksize", 0)>>) \o Def("large", Large),
    Def("small", <<Word("nonsense")>>),
    Def("large", Small \o <<Offset(1, "X")>>),
    Def("small", Small \o <<Line("tracks", 0)>>) \o Def("large", Small \o <<Line("colour", 1)>>),
    Def("other", Large) \o Def("small", SubSeq(Small, 1, 5)) }

Names2 == {"small", "large", "amstrad", "auto"}

\* two sides with one cylinder, two blocks of 1K behind a reserved track
Amstrad == {NoSpec, [sides |-> 2, cylinders |-> 1, sectors |-> 4, reserved |-> 1,
                     sectorShift |-> 2, blockShift |-> 3, dirBlocks |-> 1]}

-----------------------------------------------------------------------------
Letters   == [c \in {"a", "b"} |-> IF c = "a" THEN "A" ELSE "B"]
InOrder   == <<" ", "*", ".">> \o Digits \o <<"?", "A", "B", "a", "b">>

F(user, name, ext) == [user |-> user, name |-> Padded(name, NameLen),
                       ext |-> Padded(ext, ExtLen)]
Dirs ==
  { <<>>,
    <<F(1, <<"B">>, <<"A">>), F(0, <<"B", "A">>, <<>>), F(0, <<"A">>, <<"B">>)>>,
    <<F(0, <<>>, <<"A">>), F(0, <<"A">>, <<>>), F(17, <<"A">>, <<>>)>>,
    \* lower case, and a blank inside
    <<F(0, <<"A">>, <<"A">>), F(0, <<"b">>, <<"A">>), F(0, <<" ", "B">>, <<>>),
      F(12, <<"B">>, <<>>)>> }

Patterns ==
  { <<"*">>, <<"0", ":", "*">>, <<"1", ":", "?", ".", "a">>, <<"a", "*">>,
    <<"*", ".", "*">>, <<"*", "b">>, <<"*", "*", "b">>, <<"1", "7", ":", "A">>,
    <<"?", "?">>, <<".", "A">> }
Typed == {<<p>> : p \in Patterns} \cup {<<p, q>> : p \in {<<"*", "b">>}, q \in Patterns}

Texts == UNION {[1 .. n -> {CR, LF, SUB, Letter}] : n \in 0 .. 3}

Moments ==
  {d * Day + m - Zone :
     m \in {0, 23 * 60 + 59},
     d \in {NewYear(1979), NewYear(1981) - 1, NewYear(2000), NewYear(2000) + 59,
            NewYear(2001) - 1, NewYear(2068) + 58, NewYear(2101), NewYear(2024) + 180}}
=============================================================================
