------------------------------- MODULE Names -------------------------------
(***************************************************************************)
(* File names and patterns in src/src/cpmfs.c: splitFilename, the names    *)
(* that cpmReaddir makes, and match, which compares them with what the     *)
(* user has typed.                                                         *)
(*                                                                         *)
(* Characters are strings of length one, bit 7 is left out.  Upper is the  *)
(* small alphabet of letters that names are made of.                       *)
(***************************************************************************)
EXTENDS Integers, Sequences

Seqs == INSTANCE SequencesExt

CONSTANTS
  NameLen,     \* 8 in the code
  ExtLen,      \* 3 in the code
  Upper        \* a function from lower case letters to upper case ones

Blank    == " "
Digits   == <<"0", "1", "2", "3", "4", "5", "6", "7", "8", "9">>
DigitVal == [c \in {Digits[i] : i \in 1 .. 10} |->
               (CHOOSE i \in 1 .. 10 : Digits[i] = c) - 1]
IsDigit(c) == c \in DOMAIN DigitVal

ToUpper(c) == IF c \in DOMAIN Upper THEN Upper[c] ELSE c
ToLower(c) == IF \E l \in DOMAIN Upper : Upper[l] = c
              THEN CHOOSE l \in DOMAIN Upper : Upper[l] = c ELSE c

Special == {"<", ">", ".", ",", ";", ":", "=", "?", "*", "[", "]"}

\* ISFILECHAR
IsFileChar(notFirst, c) == c \notin Special /\ (notFirst \/ c # Blank)

\* A string that is filled up with blanks, and one that ends at the first.
Padded(s, n) == [i \in 1 .. n |-> IF i <= Len(s) THEN s[i] ELSE Blank]
Cut(s) ==
  LET blanks == {i \in DOMAIN s : s[i] = Blank}
  IN IF blanks = {} THEN s
     ELSE SubSeq(s, 1, (CHOOSE i \in blanks : \A j \in blanks : i <= j) - 1)

UserDigits(user) == <<Digits[(user \div 10) + 1], Digits[(user % 10) + 1]>>

\* the name of a file in cpmReaddir
ListedName(entry, uppercase) ==
  LET show(s) == [i \in DOMAIN s |-> IF uppercase THEN s[i] ELSE ToLower(s[i])]
      ext == show(Cut(entry.ext))
  IN UserDigits(entry.user) \o show(Cut(entry.name))
       \o (IF ext = <<>> THEN <<>> ELSE <<".">> \o ext)

\* splitFilename: the entries that a name stands for, which are one or none.
\* What does not fit into name or extension is ignored.
SplitFilename(full, maxUser) ==
  LET rest == SubSeq(full, 3, Len(full))
      ends == {i \in 0 .. NameLen : i <= Len(rest) /\ (i = NameLen \/ i = Len(rest)
                                                   \/ rest[i + 1] = ".")}
      n    == CHOOSE i \in ends : \A j \in ends : i <= j
      dot  == n < Len(rest) /\ rest[n + 1] = "."
      tail == IF dot THEN SubSeq(rest, n + 2, Len(rest)) ELSE <<>>
      ext  == SubSeq(tail, 1, IF Len(tail) < ExtLen THEN Len(tail) ELSE ExtLen)
      up(s) == [i \in DOMAIN s |-> ToUpper(s[i])]
  IN IF /\ Len(full) > 2 /\ IsDigit(full[1]) /\ IsDigit(full[2])
        /\ 10 * DigitVal[full[1]] + DigitVal[full[2]] <= maxUser
        /\ \A i \in 1 .. n : IsFileChar(i > 1, rest[i])
        /\ \A i \in DOMAIN ext : IsFileChar(TRUE, ext[i])
        /\ ~(dot /\ n = 0 /\ ext = <<>>)
     THEN {[user |-> 10 * DigitVal[full[1]] + DigitVal[full[2]],
            name |-> Padded(up(SubSeq(rest, 1, n)), NameLen),
            ext  |-> Padded(up(ext), ExtLen)]}
     ELSE {}

-----------------------------------------------------------------------------
(* recmatch and match                                                      *)

\* fault: a star stands for at least one character
RecMatchSome(a, pattern) ==
  LET m[j \in 1 .. Len(pattern) + 1] ==
        {i \in 1 .. Len(a) + 1 :
           IF j > Len(pattern) THEN i > Len(a)
           ELSE IF pattern[j] = "*" THEN \E k \in i + 1 .. Len(a) + 1 : k \in m[j + 1]
           ELSE /\ i <= Len(a)
                /\ pattern[j] = "?" \/ ToLower(pattern[j]) = ToLower(a[i])
                /\ i + 1 \in m[j + 1]}
  IN 1 \in m[1]

\* m[j]: the calls for the pattern from j on that return 1, each with its place
\* in the name.  first: nothing of the pattern was used up in this call.  A star
\* that a call begins with matches everything in front of a dot, whatever comes
\* after.
RecMatch(a, pattern) ==
  LET m[j \in 1 .. Len(pattern) + 1] ==
        {call \in (1 .. Len(a) + 1) \X BOOLEAN :
           LET i == call[1]
               first == call[2]
           IN IF j > Len(pattern) THEN i > Len(a)
              ELSE IF pattern[j] = "*"
              THEN \/ first /\ i <= Len(a) /\ a[i] = "."
                   \/ \E k \in i .. Len(a) : <<k, TRUE>> \in m[j + 1]
                   \/ <<Len(a) + 1, FALSE>> \in m[j + 1]
              ELSE /\ i <= Len(a)
                   /\ pattern[j] = "?" \/ ToLower(pattern[j]) = ToLower(a[i])
                   /\ <<i + 1, FALSE>> \in m[j + 1]}
  IN <<1, TRUE>> \in m[1]

\* With a user in front of it, or without one.
FullPattern(pattern) ==
  LET at(i) == i <= Len(pattern) /\ pattern[i] = ":"
      digit(i) == i <= Len(pattern) /\ IsDigit(pattern[i])
      after(i) == SubSeq(pattern, i + 1, Len(pattern))
  IN IF digit(1) /\ at(2) THEN <<"0", pattern[1]>> \o after(2)
     ELSE IF digit(1) /\ digit(2) /\ at(3)
     THEN <<pattern[1], pattern[2]>> \o after(3)
     ELSE <<"?", "?">> \o pattern

Matches(a, pattern) == RecMatch(a, FullPattern(pattern))

\* What a pattern means to sh(1): the places in a name that the pattern can
\* have got to, one character of the pattern after the other.
Selects(pattern, a) ==
  LET same(x, y) == ToLower(x) = ToLower(y)
      step(places, c) ==
        IF c = "*" THEN {k \in 0 .. Len(a) : \E p \in places : p <= k}
        ELSE {p + 1 : p \in {q \in places : /\ q < Len(a)
                                            /\ c = "?" \/ same(c, a[q + 1])}}
  IN Len(a) \in Seqs!FoldLeft(step, {0}, FullPattern(pattern))

NoDoubleStar(pattern) ==
  \A i \in 1 .. Len(pattern) - 1 : pattern[i] # "*" \/ pattern[i + 1] # "*"

\* A name as CP/M makes it: upper case, and blanks at the end only.
Clean(entry) ==
  LET whole == {entry.name[i] : i \in DOMAIN entry.name}
               \cup {entry.ext[i] : i \in DOMAIN entry.ext}
  IN /\ whole \cap (Special \cup DOMAIN Upper) = {} /\ whole # {Blank}
     /\ Padded(Cut(entry.name), NameLen) = entry.name
     /\ Padded(Cut(entry.ext), ExtLen) = entry.ext

=============================================================================
