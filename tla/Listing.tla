------------------------------ MODULE Listing ------------------------------
(***************************************************************************)
(* src/src/cpmls.c on a directory: cpmglob, the sort, and the loops over   *)
(* users and names that all its styles of output have in common.           *)
(*                                                                         *)
(* Abstracted: each file has one entry; the size, the attributes and the   *)
(* dates of a line are the entry they were taken from.  [passwd] and       *)
(* [label] are left out: they are matched, sorted to the front, and never  *)
(* printed.                                                                *)
(***************************************************************************)
EXTENDS Geometry, Names

CONSTANTS
  Directories,   \* sequences of entries, a user, a name and an extension
  Arguments,     \* sequences of patterns
  Ascii          \* the characters of names in their order

VARIABLES
  ls             \* the locals of main and of the function for the style

NoListing == [phase |-> "none"]
NoStat    == 0                     \* a struct cpmInode that nothing was put in

\* every type but a bare isx has CPMFS_HI_USER, and begins as that of 2.2
MaxUser   == 31
MaxListed == IF geo.os \cap {"3", "mpm"} # {} THEN 15 ELSE 31

\* What cpmReaddir gives: the root twice, and the files.
ReaddirNames ==
  <<<<".">>, <<".", ".">>>>
    \o [i \in DOMAIN ls.dir |-> ListedName(ls.dir[i], ls.uppercase)]

LsStart ==
  \E d \in Directories, typed \in Arguments, uppercase \in BOOLEAN,
     style \in {"dir", "short", "long"}, unsorted \in BOOLEAN :
    ls' = [phase |-> "glob", dir |-> d, typed |-> typed, args |-> typed,
           uppercase |-> uppercase, style |-> style, unsorted |-> unsorted,
           names |-> <<>>, user |-> 0, i |-> 0, file |-> NoStat,
           printed |-> <<>>]

\* cpmglob: one pattern after the other, over all names in their order.
Glob ==
  /\ ls.phase = "glob"
  /\ ls.args # <<>>
  /\ LET add(names, name) == IF Matches(name, Head(ls.args))
                             THEN Append(names, name) ELSE names
     IN ls' = [ls EXCEPT !.args = Tail(@),
                         !.names = Seqs!FoldLeft(add, @, ReaddirNames)]

\* strcmp
Rank(c) == CHOOSE i \in DOMAIN Ascii : Ascii[i] = c

Before(a, b) ==
  \E n \in 0 .. Len(a) :
    /\ n < Len(b)
    /\ \A k \in 1 .. n : a[k] = b[k]
    /\ n < Len(a) => Rank(a[n + 1]) < Rank(b[n + 1])

\* qsort with namecmp.  As names that compare equal are equal, it does not
\* matter in which way: each is put in front of the first that it comes before.
Inserted(names, name) ==
  LET places == {n \in 1 .. Len(names) + 1 :
                   n > Len(names) \/ Before(name, names[n])}
  IN Seqs!InsertAt(names, Seqs!Min(places), name)

Sorted(names) == Seqs!FoldLeft(Inserted, <<>>, names)

\* olddir never sorts.
Sort ==
  /\ ls.phase = "glob"
  /\ ls.args = <<>>
  /\ ls' = [ls EXCEPT !.phase = "list",
              !.names = IF ls.style = "dir" \/ ls.unsorted THEN @
                        ELSE Sorted(@)]

\* fault: names are taken as they come, user or not
RemainingFlat ==
  {at \in {0} \X DOMAIN ls.names :
     ls.names[at[2]][1] # "." /\ at[2] > ls.i}

\* The users and names the loops still come to: those that match.
Remaining ==
  {at \in (0 .. MaxListed) \X DOMAIN ls.names :
     /\ SubSeq(ls.names[at[2]], 1, 2) = UserDigits(at[1])
     /\ at[1] > ls.user \/ (at[1] = ls.user /\ at[2] > ls.i)}

NextOf(S) ==
  CHOOSE x \in S : \A y \in S : x[1] < y[1] \/ (x[1] = y[1] /\ x[2] <= y[2])

\* The result of cpmNamei is not looked at: when the name can not be opened,
\* the struct cpmInode is that of the file before.
Looked(name) ==
  LET found == {s \in DOMAIN ls.dir :
                  ls.dir[s] \in SplitFilename(name, MaxUser)}
  IN IF ls.style # "long" \/ found = {} THEN ls.file
     ELSE CHOOSE s \in found : TRUE

PrintLine ==
  /\ ls.phase = "list"
  /\ Remaining # {}
  /\ LET at == NextOf(Remaining)
         name == ls.names[at[2]]
     IN ls' = [ls EXCEPT !.user = at[1], !.i = at[2], !.file = Looked(name),
                         !.printed = Append(@, [user |-> at[1], name |-> name,
                                                stat |-> Looked(name)])]

LsEnd ==
  /\ ls.phase = "list"
  /\ Remaining = {}
  /\ ls' = [ls EXCEPT !.phase = "end"]

LsStep == Glob \/ Sort \/ PrintLine \/ LsEnd

-----------------------------------------------------------------------------
(* Correctness                                                             *)

\* A pattern selects the files that it selects in sh(1), which is what
\* cpmcp.1 says of them, unless it has two stars in a row.
PatternsSelect ==
  ls.phase = "glob" =>
    \A name \in {ReaddirNames[i] : i \in DOMAIN ReaddirNames} :
      \A k \in DOMAIN ls.typed :
        NoDoubleStar(ls.typed[k]) =>
          Matches(name, ls.typed[k]) = Selects(ls.typed[k], name)

LinesOf(name) == {l \in DOMAIN ls.printed : ls.printed[l].name = name}

Alone(s) ==
  /\ Clean(ls.dir[s])
  /\ \A t \in DOMAIN ls.dir \ {s} :
       ~Clean(ls.dir[t]) => ListedName(ls.dir[t], ls.uppercase)
                              # ListedName(ls.dir[s], ls.uppercase)

\* A file with a proper name is listed once for each pattern that names it, if
\* its user is one that has files, with what its own entry says, by user and
\* name, however many other files there are and whatever their names.
LinesAreTrue ==
  ls.phase = "end" =>
    /\ \A s \in DOMAIN ls.dir :
         LET name == ListedName(ls.dir[s], ls.uppercase)
         IN Alone(s) =>
              /\ Cardinality(LinesOf(name)) =
                   IF ls.dir[s].user > MaxListed THEN 0
                   ELSE Cardinality({k \in DOMAIN ls.typed :
                                       Matches(name, ls.typed[k])})
              /\ \A l \in LinesOf(name) :
                   ls.style = "long" => ls.printed[l].stat = s
    /\ \A k, l \in DOMAIN ls.printed :
         LET a == ls.printed[k]
             b == ls.printed[l]
         IN k < l => \/ a.user < b.user
                     \/ /\ a.user = b.user
                        /\ ~ls.unsorted /\ ls.style # "dir" =>
                             ~Before(b.name, a.name)

=============================================================================
