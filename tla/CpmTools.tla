------------------------------ MODULE CpmTools ------------------------------
(***************************************************************************)
(* The programs that change an image through the file system: cpmcp (from  *)
(* the host to CP/M), cpmrm, cpmchattr and cpmchmod.  Each is a session:   *)
(* cpmReadSuper, one round of calls per argument, and cpmUmount, whose     *)
(* cpmSync writes the directory back sector by sector.  Sessions follow    *)
(* one another; each may die between any two steps, and a failing sector   *)
(* write ends a cpmSync early and goes unnoticed, which leaves the same    *)
(* image.                                                                  *)
(*                                                                         *)
(* The calls are the actions of CpmFS.  Host files are their sizes.        *)
(***************************************************************************)
EXTENDS FsckRules

CONSTANTS
  Chunk,     \* bytes cpmcp reads per round, 2048 in the code
  TextModes, \* whether cpmcp is given -t
  MaxArgs    \* bound: files a session works on

ASSUME ToolAssumption ==
  /\ Chunk \in Nat \ {0} /\ MaxArgs \in Nat
  /\ Chunk < MaxCount
  /\ TextModes \subseteq BOOLEAN

VARIABLES
  tool,    \* the running program: what it is, and where its main has got to
  copied   \* bytes written to the files that cpmcp copied without a complaint

fsvars   == <<dir, alv, dirty, disk, fd, wr>>
toolvars == <<dir, alv, dirty, disk, fd, wr, tool, copied>>

Files  == Users \X Names
None   == -1
NoFile == <<-1, NoName>>

\* step: "args" before an argument, "sync" in cpmUmount.
Tool == [prog : {"none", "cpmcp", "cpmrm", "cpmchattr", "cpmchmod"},
         step : {"args", "open", "chunk", "write", "attr", "sync"},
         text : BOOLEAN, args : 0 .. MaxArgs, file : Files \cup {NoFile},
         eof : BOOLEAN, sec : 0 .. MaxDir]

NoTool == [prog |-> "none", step |-> "args", text |-> FALSE, args |-> 0,
           file |-> NoFile, eof |-> FALSE, sec |-> 0]

\* the one struct cpmInode and struct cpmFile of each main
ino == CHOOSE h \in Handles : TRUE

ToolsTypeOK == tool \in Tool /\ copied \in [Files -> Nat \cup {None}]

ToolsInit ==
  /\ Init
  /\ tool = NoTool
  /\ copied = [f \in Files |-> None]

At(prog, step) == tool.prog = prog /\ tool.step = step /\ Quiet

\* fault: main goes round once more
ArgAgain == tool.args >= 0

Arg == tool.args > 0

\* main up to its loop; the image was read when the last session ended
Start(prog, text) ==
  /\ tool.prog = "none"
  /\ tool' = [NoTool EXCEPT !.prog = prog, !.text = text, !.args = MaxArgs]
  /\ UNCHANGED <<fsvars, copied>>

NextArg == tool' = [tool EXCEPT !.step = "args", !.args = @ - 1,
                                !.file = NoFile, !.eof = FALSE]

-----------------------------------------------------------------------------
(* cpmcp                                                                   *)

CopyCreat(f) ==
  /\ At("cpmcp", "args") /\ Arg
  /\ \/ CreatPlain(ino, f[1], f[2])
     \/ CreatWithXfcb(ino, f[1], f[2])
  /\ tool' = [tool EXCEPT !.step = "open", !.file = f]
  /\ UNCHANGED copied

\* cpmCreat fails but leaves an entry behind
CopyCreatHalf(f) ==
  /\ At("cpmcp", "args") /\ Arg
  /\ CreatHalf(ino, f[1], f[2])
  /\ NextArg
  /\ UNCHANGED copied

CopyOpen ==
  /\ At("cpmcp", "open")
  /\ Open(ino)
  /\ tool' = [tool EXCEPT !.step = "chunk"]
  /\ UNCHANGED copied

\* What a round of the reading loop fills the buffer with.  In text mode a
\* newline takes two bytes, so the last of them may exceed the half buffer,
\* and the end of the file takes one.
ChunkSizes(text, eof) ==
  CASE text  /\ eof  -> 1 .. Chunk
    [] text  /\ ~eof -> {Chunk, Chunk + 1}
    [] ~text /\ eof  -> 0 .. Chunk - 1
    [] ~text /\ ~eof -> {Chunk}

\* The bound MaxPos is on host files: it leaves room for their last chunk.
CopyChunk ==
  /\ At("cpmcp", "chunk")
  /\ \E eof \in BOOLEAN : \E n \in ChunkSizes(tool.text, eof) :
       /\ ~eof => fd[ino].pos + n + Chunk <= MaxPos
       /\ \/ n > 0 /\ WriteBegin(ino, n)
          \/ n = 0 /\ wr' = [wr EXCEPT !.got = "all"]
                   /\ UNCHANGED <<dir, alv, dirty, disk, fd>>
       /\ tool' = [tool EXCEPT !.step = "write", !.eof = eof]
  /\ UNCHANGED copied

CopyWrite ==
  /\ tool.step = "write"
  /\ WriteStep
  /\ UNCHANGED <<tool, copied>>

CopyAgain ==
  /\ At("cpmcp", "write")
  /\ wr.got = "all" /\ ~tool.eof
  /\ tool' = [tool EXCEPT !.step = "chunk"]
  /\ UNCHANGED <<fsvars, copied>>

\* the file is copied; with -p its times are set
CopyDone ==
  /\ At("cpmcp", "write")
  /\ wr.got = "all" /\ tool.eof
  /\ Utime(ino) \/ UNCHANGED fsvars
  /\ copied' = [copied EXCEPT ![tool.file] = fd[ino].pos]
  /\ NextArg

\* "can not write": what was written of the file stays
CopyFailed ==
  /\ At("cpmcp", "write")
  /\ wr.got = "less"
  /\ NextArg
  /\ UNCHANGED <<fsvars, copied>>

-----------------------------------------------------------------------------
(* cpmrm, cpmchattr, cpmchmod                                              *)

Remove(f) ==
  /\ At("cpmrm", "args") /\ Arg
  /\ Unlink(f[1], f[2])
  /\ copied' = [copied EXCEPT ![f] = None]
  /\ NextArg

LookUp(f) ==
  /\ At("cpmchattr", "args") \/ At("cpmchmod", "args")
  /\ Arg
  /\ Namei(ino, f[1], f[2])
  /\ tool' = [tool EXCEPT !.step = "attr", !.file = f]
  /\ UNCHANGED copied

ChangeAttr ==
  /\ \/ At("cpmchattr", "attr") /\ \E a \in SUBSET Attrs : AttrSet(ino, a)
     \/ At("cpmchmod", "attr") /\ \E writable \in Modes : Chmod(ino, writable)
  /\ NextArg
  /\ UNCHANGED copied

-----------------------------------------------------------------------------
(* the end of a session                                                    *)

\* The next session starts from the image.
Gone(survivors) ==
  /\ Mount
  /\ tool' = NoTool
  /\ copied' = survivors

\* cpmUmount of an unchanged directory
Leave ==
  /\ tool.prog # "none" /\ tool.step = "args" /\ Quiet
  /\ ~dirty
  /\ UNCHANGED disk
  /\ Gone(copied)
  /\ Finish(wr.got)

Umount ==
  /\ tool.prog # "none" /\ tool.step = "args" /\ Quiet
  /\ dirty
  /\ tool' = [tool EXCEPT !.step = "sync"]
  /\ UNCHANGED <<fsvars, copied>>

\* one round of writeBlock's loop, within that of cpmSync
Synced == [s \in Slot |-> IF s \div PerSec = tool.sec THEN dir[s] ELSE disk[s]]

\* fault: the loop of cpmSync ends one sector early
LastDirSecShort == (MaxDir - 1) \div PerSec - 1

LastDirSec == (MaxDir - 1) \div PerSec

SyncSector ==
  /\ tool.step = "sync" /\ tool.sec < LastDirSec
  /\ disk' = Synced
  /\ tool' = [tool EXCEPT !.sec = @ + 1]
  /\ UNCHANGED <<dir, alv, dirty, fd, wr, copied>>

SyncLast ==
  /\ tool.step = "sync" /\ tool.sec = LastDirSec
  /\ disk' = Synced
  /\ Gone(copied)
  /\ Finish(wr.got)

Die ==
  /\ tool.prog # "none"
  /\ UNCHANGED disk
  /\ Gone([f \in Files |-> None])
  /\ Finish("less")

ToolStep ==
  \/ \E f \in Files : CopyCreat(f) \/ CopyCreatHalf(f) \/ Remove(f) \/ LookUp(f)
  \/ CopyOpen \/ CopyChunk \/ CopyWrite \/ CopyAgain \/ CopyDone \/ CopyFailed
  \/ ChangeAttr
  \/ Leave \/ Umount \/ SyncSector \/ SyncLast

ToolsNext ==
  \/ \E text \in TextModes : Start("cpmcp", text)
  \/ Start("cpmrm", FALSE) \/ Start("cpmchattr", FALSE)
  \/ Start("cpmchmod", FALSE)
  \/ ToolStep
  \/ Die

\* A program that was started runs on.
ToolsSpec == ToolsInit /\ [][ToolsNext]_toolvars /\ WF_toolvars(ToolStep)

-----------------------------------------------------------------------------
(* Correctness                                                             *)

\* The image never holds two files that share a block, nor a file with a
\* block outside the data area or with two entries for an extent, not even if
\* a session dies between two sectors of cpmSync: no session both frees and
\* reuses.
ImageIsSound == Sound(disk)

\* Whatever the programs leave on the image, fsck.cpm has nothing to say
\* against it: the sizes that cpmWrite records agree with the blocks.
ImagePassesFsck == Passes(disk)

\* cpmWrite puts data only into blocks that no file of the image has, so the
\* death of cpmcp costs no file that was there before.
OldFilesAreSafe ==
  wr.phase = "fill" =>
    \A s \in FileSlots(disk) : dir[wr.extent].ptr[PtrAt(Pos)] \notin Refs(disk[s])

\* Between two calls of a session the allocation vector is exactly what
\* cpmReadSuper would compute: no block is lost, none is free twice.
AlvExact == Quiet => alv = AlvInit(dir)

\* A file that cpmcp copied has the size of what was written to it.
SizeAgrees ==
  \A f \in Files :
    copied[f] # None =>
      \A s \in Highest(dir, Match(dir, f[1], f[2])) : SizeOf(dir[s]) = copied[f]

\* A copied file stays on the image until cpmrm erases it or a session dies.
CopiesStay ==
  \A f \in Files : copied[f] # None => Match(dir, f[1], f[2]) # {}

\* The entries of f agree on its attributes.
Agree(d, f) ==
  \A s, t \in Match(d, f[1], f[2]) : d[s].attr = d[t].attr

\* The entries of a file agree on its attributes, or are what the session found
\* on the image: no call makes them differ, cpmchattr and cpmchmod reach every
\* entry whatever its place in the directory.  Only a cpmSync that is cut short
\* leaves a file with both, and the next call that sets attributes heals it.
AttrsAgree ==
  \A f \in Files :
    \/ Agree(dir, f)
    \/ \A s \in Match(dir, f[1], f[2]) :
         s \in Match(disk, f[1], f[2]) /\ dir[s].attr = disk[s].attr

\* Every session ends.
SessionEnds == tool.prog # "none" ~> tool.prog = "none"

=============================================================================
