-------------------------------- MODULE Fsck --------------------------------
(***************************************************************************)
(* src/src/fsck.cpm.c as a session: mount, phase 1 entry by entry and      *)
(* question by question, phase 2, cpmSync and cpmUmount.  Whoever answers  *)
(* the questions may end the program at each of them; with -n there are    *)
(* none.  Sessions follow one another on the same image.                   *)
(***************************************************************************)
EXTENDS FsckRules, Sequences

CONSTANTS Damaged       \* images that fsck is given

ASSUME FsckAssumption == Damaged \subseteq [Slot -> Entry]

VARIABLES
  ck,     \* the locals of fsck() and main()
  told    \* what the last session said when it ended

fsckvars == <<dir, alv, dirty, disk, fd, wr, ck, told>>

\* extent and asked: the entry, and the last question about it that is done
Locals == [phase : {"none", "extents", "connectivity", "end"},
           norepair : BOOLEAN, extent : Slot, asked : 0 .. Len(Checks),
           ret : SUBSET {"MODIFIED", "BROKEN"}]

NotRunning == [phase |-> "none", norepair |-> FALSE, extent |-> 0,
               asked |-> 0, ret |-> {}]

FsckTypeOK ==
  /\ TypeOK
  /\ ck \in Locals
  /\ told \in {"nothing", "clean", "modified", "broken"}

FsckInit ==
  /\ disk \in Damaged
  /\ dir = disk
  /\ alv = AlvInit(disk)
  /\ dirty = FALSE
  /\ fd = [h \in Handles |-> Closed]
  /\ \E h \in Handles : wr = Returned(h, "all")
  /\ ck = NotRunning
  /\ told = "nothing"

\* main up to fsck(); the image was read when the last session ended
Run(norepair) ==
  /\ ck.phase = "none"
  /\ ck' = [NotRunning EXCEPT !.phase = "extents", !.norepair = norepair]
  /\ UNCHANGED <<dir, alv, dirty, disk, fd, wr, told>>

\* The next check that finds fault with the entry, if there is one.
Fault ==
  Firsts({k \in DOMAIN Checks :
            k > ck.asked /\ Fails(dir[ck.extent], Checks[k])})

\* The answer to a question of check k is yes.
Repair(k) ==
  /\ ck.phase = "extents" /\ ~ck.norepair
  /\ k \in Fault
  /\ \E entry \in Repairs(dir[ck.extent], Checks[k]) :
       dir' = [dir EXCEPT ![ck.extent] = entry]
  /\ ck' = [ck EXCEPT !.asked = k, !.ret = @ \cup {"MODIFIED"}]
  /\ UNCHANGED <<alv, dirty, disk, fd, wr, told>>

\* The answer is no, or nobody is asked.
Decline(k) ==
  /\ ck.phase = "extents"
  /\ k \in Fault
  /\ ck' = [ck EXCEPT !.asked = k, !.ret = @ \cup {"BROKEN"}]
  /\ UNCHANGED <<dir, alv, dirty, disk, fd, wr, told>>

\* fault: the last entry is not the end
NextEntryPast ==
  /\ ck.phase = "extents"
  /\ Fault = {}
  /\ ck' = IF ck.extent < MaxDir
           THEN [ck EXCEPT !.extent = @ + 1, !.asked = 0]
           ELSE [ck EXCEPT !.phase = "connectivity"]
  /\ UNCHANGED <<dir, alv, dirty, disk, fd, wr, told>>

\* fault: the loop starts again after each entry
NextEntryAgain ==
  /\ ck.phase = "extents"
  /\ Fault = {}
  /\ ck' = [ck EXCEPT !.extent = 0, !.asked = 0]
  /\ UNCHANGED <<dir, alv, dirty, disk, fd, wr, told>>

NextEntry ==
  /\ ck.phase = "extents"
  /\ Fault = {}
  /\ ck' = IF ck.extent < MaxDir - 1
           THEN [ck EXCEPT !.extent = @ + 1, !.asked = 0]
           ELSE [ck EXCEPT !.phase = "connectivity"]
  /\ UNCHANGED <<dir, alv, dirty, disk, fd, wr, told>>

Connectivity ==
  /\ ck.phase = "connectivity"
  /\ ck' = [ck EXCEPT !.phase = "end",
                      !.ret = @ \cup (IF DoubleBlocks(dir) \/ DoubleExtents(dir)
                                      THEN {"BROKEN"} ELSE {})]
  /\ UNCHANGED <<dir, alv, dirty, disk, fd, wr, told>>

\* cpmSync and cpmUmount.  Nothing in fsck sets dirtyDirectory.
End ==
  /\ ck.phase = "end"
  /\ disk' = IF dirty THEN dir ELSE disk
  /\ Mount
  /\ told' = IF "BROKEN" \in ck.ret THEN "broken"
             ELSE IF "MODIFIED" \in ck.ret THEN "modified" ELSE "clean"
  /\ ck' = NotRunning
  /\ UNCHANGED wr

\* The input ends at a question: exit(1).
Hangup ==
  /\ ck.phase = "extents" /\ ~ck.norepair
  /\ Fault # {}
  /\ UNCHANGED disk
  /\ Mount
  /\ told' = "nothing"
  /\ ck' = NotRunning
  /\ UNCHANGED wr

FsckStep ==
  \/ \E k \in DOMAIN Checks : Repair(k) \/ Decline(k)
  \/ NextEntry \/ Connectivity \/ End \/ Hangup

FsckNext == (\E norepair \in BOOLEAN : Run(norepair)) \/ FsckStep

\* Somebody answers each question.
FsckSpec == FsckInit /\ [][FsckNext]_fsckvars /\ WF_fsckvars(FsckStep)

-----------------------------------------------------------------------------
(* Correctness                                                             *)

\* A directory that fsck is through with and has not called broken, repaired
\* or not, holds no two files that share a block and none with a block
\* outside the data area, and another check would find nothing: a repair
\* never makes a new fault behind the entry it has got to.
VerdictIsSound ==
  ck.phase = "end" /\ "BROKEN" \notin ck.ret =>
    NotShared(dir) /\ InDataArea(dir) /\ Passes(dir)

\* fsck removes no entry that cpmfs takes for a file and nothing is wrong
\* with: it has a good name and size, and its blocks are there.
GoodFilesStay ==
  [][ \A s \in FileSlots(dir) :
        /\ dir[s].name \notin BadNames
        /\ Refs(dir[s]) \subseteq DirBlks .. Size - 1
        /\ RecordBlocks(dir[s]) = UsedBlocks(dir[s])
        /\ dir[s].status <= 15
        => dir'[s].ptr = dir[s].ptr /\ dir'[s].status = dir[s].status ]_vars

\* Every check comes to an end.
CheckEnds == ck.phase # "none" ~> ck.phase = "none"

\* fsck.cpm.1 says that fsck.cpm is used "to check and repair a CP/M file
\* system", and fsck that the file system is MODIFIED: it then passes.
RepairsLast == told = "modified" => Passes(disk)

=============================================================================
