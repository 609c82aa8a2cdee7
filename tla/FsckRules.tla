----------------------------- MODULE FsckRules -----------------------------
(***************************************************************************)
(* What src/src/fsck.cpm.c looks for in a directory, without the order in  *)
(* which it asks and repairs (see Fsck).                                   *)
(*                                                                         *)
(* Abstracted: a name with a byte that fsck refuses, and an extent byte    *)
(* out of range, which leads to the same question, is a name in BadNames.  *)
(* The attributes of a disc label or password entry stand for its mode     *)
(* byte and for an unprintable password.                                   *)
(***************************************************************************)
EXTENDS CpmFS

CONSTANTS
  DsDates,     \* CPMFS_DS_DATES: cpmCheckDs found a DateStamper file
  BadNames     \* names that fsck refuses

ASSUME RulesAssumption == DsDates \in BOOLEAN /\ BadNames \subseteq Names

Label == 32                              \* status 0x20, disc label

\* fsck compares the whole of sb->type, so that a DateStamper file makes the
\* disk one of no known system
IsP2dos == Cpm3Dates /\ ~HasXfcbs /\ ~DsDates
IsDr3   == Cpm3Dates /\ HasXfcbs /\ ~DsDates
IsMpm   == MpmDates /\ ~DsDates

\* The five branches of phase 1.
HoldsFile(entry)     == entry.status <= (IF IsP2dos THEN 31 ELSE 15)
HoldsDates(entry)    == (IsP2dos \/ IsDr3) /\ entry.status = Sfcb
HoldsLabel(entry)    == (IsDr3 \/ IsMpm) /\ entry.status = Label
HoldsPassword(entry) == HasXfcbs /\ entry.status \in 16 .. 31
HoldsNothing(entry)  == entry.status = Free

\* The pointers of the logical extent that the entry counts the records of.
CountedPtrs(entry) ==
  LET part == entry.extno % Extents
  IN {i \in PtrIx : /\ (part * NPtr) \div Extents <= i
                    /\ i < ((part + 1) * NPtr) \div Extents}

UsedBlocks(entry) == Cardinality({i \in CountedPtrs(entry) : entry.ptr[i] # 0})

RecordBlocks(entry) == (entry.blkcnt * RecLen + BlkSiz - 1) \div BlkSiz

\* the questions about an entry, in the order in which they are asked
Checks == <<"name", "lrc", "block", "count", "mode", "password", "status">>

BadBlock(entry) == \E b \in Refs(entry) : b < DirBlks \/ b >= Size

\* Whether a check finds fault with an entry.  Dates are only warned of.
Fails(entry, check) ==
  \/ /\ check = "name" /\ entry.name \in BadNames
     /\ HoldsFile(entry) \/ HoldsPassword(entry)
  \/ check = "lrc" /\ HoldsFile(entry) /\ entry.lrc > RecLen
  \/ check = "block" /\ HoldsFile(entry) /\ BadBlock(entry)
  \/ check = "count" /\ HoldsFile(entry) /\ RecordBlocks(entry) # UsedBlocks(entry)
  \/ check = "mode" /\ IsDr3 /\ HoldsLabel(entry)
                    /\ {"create", "access"} \subseteq entry.attr
  \/ /\ check = "password" /\ "unprintable" \in entry.attr
     /\ HoldsLabel(entry) \/ HoldsPassword(entry)
  \/ /\ check = "status"
     /\ ~ (\/ HoldsFile(entry) \/ HoldsDates(entry) \/ HoldsLabel(entry)
           \/ HoldsPassword(entry) \/ HoldsNothing(entry))

\* fault: whatever is wrong with a file, it is removed
RepairsRemove(entry, check) == {[entry EXCEPT !.status = Free]}

\* What becomes of an entry when the question is answered with yes; whoever
\* says no to time stamps on creation is asked about time stamps on access.
Repairs(entry, check) ==
  CASE check = "lrc"      -> {[entry EXCEPT !.lrc = 0]}
    [] check = "mode"     -> {[entry EXCEPT !.attr = @ \ {bit}] :
                                bit \in {"access", "create"}}
    [] check = "password" -> {[entry EXCEPT !.attr = @ \ {"unprintable"}]}
    [] OTHER              -> {[entry EXCEPT !.status = Free]}

-----------------------------------------------------------------------------
(* Phase 2                                                                 *)

\* fault: blocks are compared between different entries only
DoubleBlocksApart(d) ==
  \E s, t \in Slot : \E i, j \in PtrIx :
    /\ s # t
    /\ HoldsFile(d[s]) /\ HoldsFile(d[t])
    /\ d[s].ptr[i] # 0 /\ d[s].ptr[i] = d[t].ptr[j]

DoubleBlocks(d) ==
  \E s, t \in Slot : \E i, j \in PtrIx :
    /\ <<s, i>> # <<t, j>>
    /\ HoldsFile(d[s]) /\ HoldsFile(d[t])
    /\ d[s].ptr[i] # 0 /\ d[s].ptr[i] = d[t].ptr[j]

\* Extents are compared as logical ones.
DoubleExtents(d) ==
  \E s, t \in Slot :
    /\ s # t
    /\ HoldsFile(d[s]) /\ HoldsFile(d[t])
    /\ d[s].status = d[t].status /\ d[s].name = d[t].name
    /\ d[s].extno = d[t].extno

\* fsck finds nothing to complain of.
Passes(d) ==
  /\ \A s \in Slot, k \in DOMAIN Checks : ~Fails(d[s], Checks[k])
  /\ ~DoubleBlocks(d)
  /\ ~DoubleExtents(d)

=============================================================================
