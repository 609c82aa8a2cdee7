--------------------------- MODULE CpmToolsProofs ---------------------------
(* Theorems about CpmTools: what the programs leave on an image, for every  *)
(* geometry, host file and point of death.                                  *)
EXTENDS CpmTools, DirectoryProofs

USE DEF NoSlot, Unset, Free, Sfcb

-----------------------------------------------------------------------------
(* Types                                                                   *)

Programs == {"none", "cpmcp", "cpmrm", "cpmchattr", "cpmchmod"}
Places   == {"args", "open", "chunk", "write", "attr", "sync"}

\* where main is, whatever the directory holds
Course ==
  /\ ToolsTypeOK
  /\ tool.prog = "none" => tool = NoTool
  /\ wr.phase # "idle" =>
       tool.prog = "cpmcp" /\ tool.step = "write" /\ wr.h = ino
  /\ tool.step \in {"open", "chunk", "write"} => tool.prog = "cpmcp"
  /\ tool.step \in {"open", "chunk", "write", "attr"} =>
       tool.args > 0 /\ tool.file \in Files
  /\ tool.step = "attr" => tool.prog \in {"cpmchattr", "cpmchmod"}
  /\ tool.sec <= LastDirSec
  /\ tool.step # "sync" => tool.sec = 0

LEMMA Tools ==
  /\ PerSec \in Nat \ {0} /\ Chunk \in Nat \ {0} /\ MaxArgs \in Nat
  /\ Chunk < MaxCount /\ MaxCount \in Nat
  /\ LastDirSec \in 0 .. MaxDir
<1>1. /\ PerSec \in Nat \ {0} /\ Chunk \in Nat \ {0} /\ MaxArgs \in Nat
      /\ Chunk < MaxCount /\ MaxCount \in Nat
  BY ToolAssumption, InputAssumption, Geometry
     DEF ToolAssumption, InputAssumption
<1>2. MaxDir \in Nat \ {0}
  BY Geometry
<1>3. \A a \in Nat, b \in Nat \ {0} : a \div b \in 0 .. a
  BY Z3
<1>4. MaxDir - 1 \in Nat
  BY <1>2
<1>5. LastDirSec \in 0 .. MaxDir - 1
  BY <1>1, <1>3, <1>4 DEF LastDirSec
<1>6. QED
  BY <1>1, <1>2, <1>5

LEMMA InoType ==
  ASSUME TypeOK PROVE ino \in Handles
<1>1. wr.h \in Handles
  BY DEF TypeOK, WriteCall
<1>2. QED
  BY <1>1, Zenon DEF ino

LEMMA ChunkType ==
  ASSUME NEW text \in BOOLEAN, NEW eof \in BOOLEAN,
         NEW n \in ChunkSizes(text, eof)
  PROVE  n \in 0 .. Chunk + 1
<1>1. CASE text /\ eof
  <2>1. n \in 1 .. Chunk
    BY <1>1, Zenon DEF ChunkSizes
  <2>2. QED
    BY <2>1, Tools
<1>2. CASE text /\ ~eof
  <2>1. n \in {Chunk, Chunk + 1}
    BY <1>2, Zenon DEF ChunkSizes
  <2>2. QED
    BY <2>1, Tools
<1>3. CASE ~text /\ eof
  <2>1. n \in 0 .. Chunk - 1
    BY <1>3, Zenon DEF ChunkSizes
  <2>2. QED
    BY <2>1, Tools
<1>4. CASE ~text /\ ~eof
  <2>1. n \in {Chunk}
    BY <1>4, Zenon DEF ChunkSizes
  <2>2. QED
    BY <2>1, Tools
<1>5. QED
  BY <1>1, <1>2, <1>3, <1>4

LEMMA ToolFields ==
  ASSUME NEW t \in Tool
  PROVE  /\ t.prog \in Programs /\ t.step \in Places /\ t.text \in BOOLEAN
         /\ t.args \in 0 .. MaxArgs /\ t.file \in Files \cup {NoFile}
         /\ t.eof \in BOOLEAN /\ t.sec \in 0 .. MaxDir
  BY DEF Tool, Programs, Places

\* A record of type Tool, field by field.
IsTool(t, prog, step, args, file, sec) ==
  /\ t \in Tool
  /\ t.prog = prog /\ t.step = step /\ t.args = args /\ t.file = file
  /\ t.sec = sec

LEMMA SetField ==
  ASSUME NEW t \in Tool, NEW prog, NEW step, NEW args, NEW file,
         NEW sec, IsTool(t, prog, step, args, file, sec)
  PROVE  /\ \A a \in Programs :
              IsTool([t EXCEPT !.prog = a], a, step, args, file, sec)
         /\ \A a \in Places :
              IsTool([t EXCEPT !.step = a], prog, a, args, file, sec)
         /\ \A a \in BOOLEAN :
              IsTool([t EXCEPT !.text = a], prog, step, args, file, sec)
         /\ \A a \in 0 .. MaxArgs :
              IsTool([t EXCEPT !.args = a], prog, step, a, file, sec)
         /\ \A a \in Files \cup {NoFile} :
              IsTool([t EXCEPT !.file = a], prog, step, args, a, sec)
         /\ \A a \in BOOLEAN :
              IsTool([t EXCEPT !.eof = a], prog, step, args, file, sec)
         /\ \A a \in 0 .. MaxDir :
              IsTool([t EXCEPT !.sec = a], prog, step, args, file, a)
<1>1. ASSUME NEW a \in Programs
      PROVE  IsTool([t EXCEPT !.prog = a], a, step, args, file, sec)
  BY DEF IsTool, Tool, Programs
<1>2. ASSUME NEW a \in Places
      PROVE  IsTool([t EXCEPT !.step = a], prog, a, args, file, sec)
  BY DEF IsTool, Tool, Places
<1>3. ASSUME NEW a \in BOOLEAN
      PROVE  IsTool([t EXCEPT !.text = a], prog, step, args, file, sec)
  BY DEF IsTool, Tool
<1>4. ASSUME NEW a \in 0 .. MaxArgs
      PROVE  IsTool([t EXCEPT !.args = a], prog, step, a, file, sec)
  BY DEF IsTool, Tool
<1>5. ASSUME NEW a \in Files \cup {NoFile}
      PROVE  IsTool([t EXCEPT !.file = a], prog, step, args, a, sec)
  BY DEF IsTool, Tool
<1>6. ASSUME NEW a \in BOOLEAN
      PROVE  IsTool([t EXCEPT !.eof = a], prog, step, args, file, sec)
  BY DEF IsTool, Tool
<1>7. ASSUME NEW a \in 0 .. MaxDir
      PROVE  IsTool([t EXCEPT !.sec = a], prog, step, args, file, a)
  BY DEF IsTool, Tool
<1>8. QED
  BY <1>1, <1>2, <1>3, <1>4, <1>5, <1>6, <1>7

\* tool after each kind of step
LEMMA Updates ==
  ASSUME ToolsTypeOK
  PROVE  /\ \A prog \in Programs, text \in BOOLEAN :
              tool' = [NoTool EXCEPT !.prog = prog, !.text = text,
                                     !.args = MaxArgs]
              => IsTool(tool', prog, "args", MaxArgs, NoFile, 0)
         /\ NextArg /\ tool.args > 0 =>
              IsTool(tool', tool.prog, "args", tool.args - 1,
                     NoFile, tool.sec)
         /\ \A a \in Places, f \in Files :
              tool' = [tool EXCEPT !.step = a, !.file = f]
              => IsTool(tool', tool.prog, a, tool.args, f, tool.sec)
         /\ \A a \in Places :
              tool' = [tool EXCEPT !.step = a]
              => IsTool(tool', tool.prog, a, tool.args, tool.file,
                        tool.sec)
         /\ \A a \in Places, e \in BOOLEAN :
              tool' = [tool EXCEPT !.step = a, !.eof = e]
              => IsTool(tool', tool.prog, a, tool.args, tool.file,
                        tool.sec)
         /\ tool' = [tool EXCEPT !.sec = tool.sec + 1] /\ tool.sec < LastDirSec
              => IsTool(tool', tool.prog, tool.step, tool.args,
                        tool.file, tool.sec + 1)
<1>1. IsTool(tool, tool.prog, tool.step, tool.args, tool.file,
             tool.sec)
  BY DEF IsTool, ToolsTypeOK
<1>2. IsTool(NoTool, "none", "args", 0, NoFile, 0)
  <2>1. 0 \in 0 .. MaxArgs /\ 0 \in 0 .. MaxDir
    BY Tools, Geometry
  <2>2. NoTool \in Tool
    BY <2>1 DEF NoTool, Tool
  <2>3. QED
    BY <2>2 DEF IsTool, NoTool
<1>3. \A t, prog, step, args, file, sec :
        IsTool(t, prog, step, args, file, sec) => t \in Tool
  BY DEF IsTool
<1>4. MaxArgs \in 0 .. MaxArgs
  BY Tools
<1>5. "args" \in Places
  BY DEF Places
<1>6. ASSUME NEW prog \in Programs, NEW text \in BOOLEAN,
             tool' = [NoTool EXCEPT !.prog = prog, !.text = text,
                                    !.args = MaxArgs]
      PROVE  IsTool(tool', prog, "args", MaxArgs, NoFile, 0)
  <2> DEFINE t1 == [NoTool EXCEPT !.prog = prog]
             t2 == [t1 EXCEPT !.text = text]
             t3 == [t2 EXCEPT !.args = MaxArgs]
  <2>1. tool' = t3
    BY <1>6
  <2>2. IsTool(t1, prog, "args", 0, NoFile, 0)
    BY <1>2, <1>3, SetField
  <2> HIDE DEF t1
  <2>3. IsTool(t2, prog, "args", 0, NoFile, 0)
    BY <1>3, <2>2, SetField, Zenon
  <2> HIDE DEF t2
  <2>4. IsTool(t3, prog, "args", MaxArgs, NoFile, 0)
    BY <1>3, <1>4, <2>3, SetField
  <2> HIDE DEF t3
  <2>5. QED
    BY <2>1, <2>4
<1>7. ASSUME NextArg, tool.args > 0
      PROVE  IsTool(tool', tool.prog, "args", tool.args - 1,
                    NoFile, tool.sec)
  <2> DEFINE t1 == [tool EXCEPT !.step = "args"]
             t2 == [t1 EXCEPT !.args = tool.args - 1]
             t3 == [t2 EXCEPT !.file = NoFile]
             t4 == [t3 EXCEPT !.eof = FALSE]
  <2>1. tool' = t4
    BY <1>7 DEF NextArg
  <2>2. tool.args - 1 \in 0 .. MaxArgs
    <3>1. tool.args \in 0 .. MaxArgs
      BY ToolFields DEF ToolsTypeOK
    <3>2. QED
      BY <1>7, <3>1, Tools
  <2>3. IsTool(t1, tool.prog, "args", tool.args, tool.file, tool.sec)
    BY <1>1, <1>3, <1>5, SetField
  <2> HIDE DEF t1
  <2>4. IsTool(t2, tool.prog, "args", tool.args - 1, tool.file,
               tool.sec)
    BY <1>3, <2>2, <2>3, SetField
  <2> HIDE DEF t2
  <2>5. IsTool(t3, tool.prog, "args", tool.args - 1, NoFile, tool.sec)
    BY <1>3, <2>4, SetField
  <2> HIDE DEF t3
  <2>6. IsTool(t4, tool.prog, "args", tool.args - 1, NoFile, tool.sec)
    BY <1>3, <2>5, SetField
  <2> HIDE DEF t4
  <2>7. QED
    BY <2>1, <2>6
<1>8. ASSUME NEW a \in Places, NEW f \in Files,
             tool' = [tool EXCEPT !.step = a, !.file = f]
      PROVE  IsTool(tool', tool.prog, a, tool.args, f, tool.sec)
  <2> DEFINE t1 == [tool EXCEPT !.step = a]
             t2 == [t1 EXCEPT !.file = f]
  <2>1. tool' = t2
    BY <1>8
  <2>2. IsTool(t1, tool.prog, a, tool.args, tool.file, tool.sec)
    BY <1>1, <1>3, SetField
  <2> HIDE DEF t1
  <2>3. IsTool(t2, tool.prog, a, tool.args, f, tool.sec)
    BY <1>3, <2>2, SetField
  <2> HIDE DEF t2
  <2>4. QED
    BY <2>1, <2>3
<1>9. ASSUME NEW a \in Places, tool' = [tool EXCEPT !.step = a]
      PROVE  IsTool(tool', tool.prog, a, tool.args, tool.file,
                    tool.sec)
  BY <1>1, <1>3, <1>9, SetField
<1>10. ASSUME NEW a \in Places, NEW e \in BOOLEAN,
              tool' = [tool EXCEPT !.step = a, !.eof = e]
       PROVE  IsTool(tool', tool.prog, a, tool.args, tool.file,
                     tool.sec)
  <2> DEFINE t1 == [tool EXCEPT !.step = a]
             t2 == [t1 EXCEPT !.eof = e]
  <2>1. tool' = t2
    BY <1>10
  <2>2. IsTool(t1, tool.prog, a, tool.args, tool.file, tool.sec)
    BY <1>1, <1>3, SetField
  <2> HIDE DEF t1
  <2>3. IsTool(t2, tool.prog, a, tool.args, tool.file, tool.sec)
    BY <1>3, <2>2, SetField
  <2> HIDE DEF t2
  <2>4. QED
    BY <2>1, <2>3
<1>11. ASSUME tool' = [tool EXCEPT !.sec = tool.sec + 1], tool.sec < LastDirSec
       PROVE  IsTool(tool', tool.prog, tool.step, tool.args,
                     tool.file, tool.sec + 1)
  <2>1. tool.sec \in 0 .. MaxDir
    BY ToolFields DEF ToolsTypeOK
  <2>2. tool.sec + 1 \in 0 .. MaxDir
    BY <1>11, <2>1, Tools, Geometry
  <2>3. QED
    BY <1>1, <1>3, <1>11, <2>2, SetField
<1>12. QED
  BY <1>6, <1>7, <1>8, <1>9, <1>10, <1>11

-----------------------------------------------------------------------------
(* Steps.  A step of a program is a call of the file system, a step of     *)
(* cpmWrite, nothing to the file system, a round of cpmSync, or the end of *)
(* the session.                                                            *)

EmptyChunk == /\ Quiet /\ wr' = [wr EXCEPT !.got = "all"]
              /\ UNCHANGED <<dir, alv, dirty, disk, fd>>

Ended == /\ \/ disk' = disk
            \/ tool.step = "sync" /\ tool.sec = LastDirSec /\ disk' = Synced
         /\ Mount
         /\ \E got \in {"all", "less"} : Finish(got)

LEMMA StepKinds ==
  ASSUME TypeOK, Course, ToolsNext
  PROVE  \/ Call \/ WriteStep \/ UNCHANGED vars
         \/ EmptyChunk \/ SyncSector \/ Ended
<1>0. ino \in Handles
  BY InoType
<1>1. ASSUME NEW prog, NEW text, Start(prog, text) PROVE UNCHANGED vars
  BY <1>1 DEF Start, fsvars, vars
<1>2. ASSUME NEW f \in Files,
             CopyCreat(f) \/ CopyCreatHalf(f) \/ Remove(f) \/ LookUp(f)
      PROVE  Call
  <2>1. f[1] \in Users /\ f[2] \in Names
    BY DEF Files
  <2>2. QED
    BY <1>0, <1>2, <2>1 DEF CopyCreat, CopyCreatHalf, Remove, LookUp, Call
<1>3. CASE CopyOpen
  BY <1>0, <1>3 DEF CopyOpen, Call
<1>4. CASE CopyChunk
  <2>0. PICK eof \in BOOLEAN : \E n \in ChunkSizes(tool.text, eof) :
          \/ n > 0 /\ WriteBegin(ino, n)
          \/ /\ n = 0 /\ wr' = [wr EXCEPT !.got = "all"]
             /\ UNCHANGED <<dir, alv, dirty, disk, fd>>
    BY <1>4 DEF CopyChunk
  <2>1. PICK n \in ChunkSizes(tool.text, eof) :
          \/ n > 0 /\ WriteBegin(ino, n)
          \/ /\ n = 0 /\ wr' = [wr EXCEPT !.got = "all"]
             /\ UNCHANGED <<dir, alv, dirty, disk, fd>>
    BY <2>0
  <2>2. n \in 0 .. Chunk + 1
    BY ChunkType, ToolFields DEF Course, ToolsTypeOK
  <2>3. n > 0 => n \in 1 .. MaxCount
    BY <2>2, Tools
  <2>4. CASE n > 0 /\ WriteBegin(ino, n)
    BY <1>0, <2>3, <2>4 DEF Call
  <2>5. CASE /\ n = 0 /\ wr' = [wr EXCEPT !.got = "all"]
             /\ UNCHANGED <<dir, alv, dirty, disk, fd>>
    BY <1>4, <2>5 DEF CopyChunk, At, EmptyChunk
  <2>6. QED
    BY <2>1, <2>4, <2>5
<1>5. CASE CopyWrite
  BY <1>5 DEF CopyWrite
<1>6. CASE CopyAgain \/ CopyFailed \/ Umount
  BY <1>6 DEF CopyAgain, CopyFailed, Umount, fsvars, vars
<1>7. CASE CopyDone
  BY <1>0, <1>7 DEF CopyDone, Call, fsvars, vars
<1>8. CASE ChangeAttr
  BY <1>0, <1>8 DEF ChangeAttr, Call
<1>9. CASE Leave
  <2>1. wr.got \in {"all", "less"}
    BY DEF TypeOK, WriteCall
  <2>2. QED
    BY <1>9, <2>1 DEF Leave, Gone, Ended
<1>10. CASE SyncLast
  <2>1. wr.got \in {"all", "less"}
    BY DEF TypeOK, WriteCall
  <2>2. QED
    BY <1>10, <2>1 DEF SyncLast, Gone, Ended
<1>11. CASE Die
  BY <1>11 DEF Die, Gone, Ended
<1>12. QED
  BY <1>1, <1>2, <1>3, <1>4, <1>5, <1>6, <1>7, <1>8, <1>9, <1>10, <1>11
     DEF ToolsNext, ToolStep

LEMMA SyncedType ==
  ASSUME TypeOK PROVE Synced \in [Slot -> Entry]
  BY DEF TypeOK, Synced

LEMMA EndedType ==
  ASSUME TypeOK, Ended PROVE TypeOK' /\ wr'.phase = "idle"
<1>1. disk' \in [Slot -> Entry]
  BY SyncedType DEF Ended, TypeOK
<1>2. dir' = disk' /\ alv' = AlvInit(disk') /\ dirty' = FALSE
      /\ fd' = [h \in Handles |-> Closed]
  BY DEF Ended, Mount
<1>3. alv' \subseteq Block
  BY <1>1, <1>2, AlvInitType
<1>4. fd' \in [Handles -> Inode] /\ \A h \in Handles : fd'[h].file = "none"
  BY <1>2 DEF Closed, InodeOf, Inode
<1>5. wr' \in WriteCall /\ wr'.phase = "idle"
  BY DEF Ended, Finish, Returned, WriteCall, TypeOK
<1>6. QED
  BY <1>1, <1>2, <1>3, <1>4, <1>5 DEF TypeOK, IsOpen

LEMMA ToolsTypeStep ==
  ASSUME TypeOK, Course, [ToolsNext]_toolvars
  PROVE  TypeOK'
<1>1. CASE Call \/ WriteStep \/ UNCHANGED vars
  BY <1>1, TypeStep DEF Next
<1>2. CASE EmptyChunk
  <2>1. wr' \in WriteCall /\ wr'.phase = "idle"
    BY <1>2 DEF EmptyChunk, TypeOK, WriteCall, Quiet
  <2>2. QED
    BY <1>2, <2>1 DEF EmptyChunk, TypeOK, IsOpen
<1>3. CASE SyncSector
  BY <1>3, SyncedType DEF SyncSector, TypeOK, IsOpen
<1>4. CASE Ended
  BY <1>4, EndedType
<1>5. CASE UNCHANGED toolvars
  <2>1. UNCHANGED vars
    BY <1>5 DEF toolvars, vars
  <2>2. QED
    BY <1>1, <2>1
<1>6. QED
  BY <1>1, <1>2, <1>3, <1>4, <1>5, StepKinds

LEMMA WriteFrame ==
  ASSUME WriteStep
  PROVE  wr.phase # "idle" /\ wr'.h = wr.h /\ disk' = disk
<1>1. CASE ExtentFound \/ ExtentAdded
  <2>1. wr.phase = "extent" /\ disk' = disk /\ \E s : UseExtent(s)
    BY <1>1 DEF ExtentFound, ExtentAdded
  <2>2. QED
    BY <2>1 DEF UseExtent, Go
<1>2. CASE ExtentDenied \/ BlockUnreadable \/ BlockDenied
  BY <1>2 DEF ExtentDenied, BlockUnreadable, BlockDenied, Finish, Returned
<1>3. CASE BlockFound \/ BlockAllocated
  BY <1>3 DEF BlockFound, BlockAllocated, UseBlock, Go
<1>4. CASE Filled
  <2>1. wr.phase = "fill" /\ disk' = disk
    BY <1>4 DEF Filled
  <2>2. \/ Finish("all")
        \/ \E phase, count, extno : Go(phase, wr.h, count, wr.extent, extno)
    BY <1>4 DEF Filled
  <2>3. QED
    BY <2>1, <2>2 DEF Finish, Returned, Go
<1>5. QED
  BY <1>1, <1>2, <1>3, <1>4 DEF WriteStep

LEMMA CourseInit == ToolsInit => TypeOK /\ Course
<1> SUFFICES ASSUME ToolsInit PROVE TypeOK /\ Course
  OBVIOUS
<1>1. TypeOK
  BY InitType DEF ToolsInit
<1>2. wr.phase = "idle"
  BY DEF ToolsInit, Init, Returned
<1>3. tool = NoTool /\ NoTool \in Tool
  <2>1. 0 \in 0 .. MaxArgs /\ 0 \in 0 .. MaxDir
    BY Tools, Geometry
  <2>2. QED
    BY <2>1 DEF ToolsInit, NoTool, Tool
<1>4. /\ tool.prog = "none" /\ tool.step = "args" /\ tool.sec = 0
  BY <1>3 DEF NoTool
<1>5. copied \in [Files -> Nat \cup {None}]
  BY DEF ToolsInit
<1>6. QED
  BY <1>1, <1>2, <1>3, <1>4, <1>5, Tools DEF Course, ToolsTypeOK

\* Where main gets to in a step that does not end the session.
LEMMA CourseOn ==
  ASSUME TypeOK, Course, NEW prog, NEW step, NEW args, NEW file, NEW sec,
         IsTool(tool', prog, step, args, file, sec),
         copied' \in [Files -> Nat \cup {None}],
         prog # "none",
         wr'.phase # "idle" => prog = "cpmcp" /\ step = "write" /\ wr'.h = ino,
         step \in {"open", "chunk", "write"} => prog = "cpmcp",
         step \in {"open", "chunk", "write", "attr"} => args > 0 /\ file \in Files,
         step = "attr" => prog \in {"cpmchattr", "cpmchmod"},
         sec <= LastDirSec,
         step # "sync" => sec = 0
  PROVE  Course'
<1>1. ToolsTypeOK'
  BY DEF ToolsTypeOK, IsTool
<1>2. /\ tool'.prog = prog /\ tool'.step = step /\ tool'.args = args
      /\ tool'.file = file /\ tool'.sec = sec
  BY DEF IsTool
<1>3. LastDirSec' = LastDirSec /\ ino' = ino
  BY DEF LastDirSec, ino
<1>4. QED
  BY <1>1, <1>2, <1>3 DEF Course

LEMMA CourseEnd ==
  ASSUME tool' = NoTool, copied' \in [Files -> Nat \cup {None}],
         wr'.phase = "idle"
  PROVE  Course'
<1>1. 0 \in 0 .. MaxArgs /\ 0 \in 0 .. MaxDir
  BY Tools, Geometry
<1>2. NoTool \in Tool
  BY <1>1 DEF NoTool, Tool
<1>3. LastDirSec' = LastDirSec /\ ino' = ino
  BY DEF LastDirSec, ino
<1>4. QED
  BY <1>2, <1>3, Tools DEF Course, ToolsTypeOK, NoTool

LEMMA CourseStep ==
  ASSUME TypeOK, Course, [ToolsNext]_toolvars
  PROVE  Course'
<1>1. /\ ToolsTypeOK /\ tool \in Tool
      /\ copied \in [Files -> Nat \cup {None}]
      /\ tool.step \in Places /\ tool.args \in 0 .. MaxArgs
      /\ tool.prog \in Programs /\ tool.sec \in 0 .. MaxDir
  BY ToolFields DEF Course, ToolsTypeOK
<1>2. ASSUME tool' = NoTool, copied' \in [Files -> Nat \cup {None}],
             wr'.phase = "idle"
      PROVE  Course'
  BY <1>2, CourseEnd
<1>3. ASSUME NEW prog \in Programs \ {"none"}, NEW text \in BOOLEAN,
             Start(prog, text)
      PROVE  Course'
  <2>1. IsTool(tool', prog, "args", MaxArgs, NoFile, 0)
    BY <1>1, <1>3, Updates DEF Start
  <2>2. wr' = wr /\ copied' = copied /\ wr.phase = "idle"
    BY <1>3 DEF Start, fsvars, Course
  <2>3. QED
    BY <1>1, <2>1, <2>2, CourseOn, Tools
<1>4. ASSUME tool.prog # "none", tool.step # "sync", tool.args > 0, NextArg,
             wr'.phase = "idle", copied' \in [Files -> Nat \cup {None}]
      PROVE  Course'
  <2>1. IsTool(tool', tool.prog, "args", tool.args - 1, NoFile, tool.sec)
    BY <1>1, <1>4, Updates
  <2>2. tool.sec = 0 /\ 0 <= LastDirSec
    BY <1>1, <1>4, Tools DEF Course
  <2>3. QED
    BY <1>4, <2>1, <2>2, CourseOn
<1>5. ASSUME NEW f \in Files, CopyCreat(f)
      PROVE  Course'
  <2>1. IsTool(tool', tool.prog, "open", tool.args, f, tool.sec)
    BY <1>1, <1>5, Updates DEF CopyCreat, Places
  <2>2. /\ wr' = wr /\ copied' = copied /\ wr.phase = "idle"
        /\ tool.prog = "cpmcp" /\ tool.args > 0 /\ tool.sec = 0
    BY <1>5 DEF CopyCreat, CreatPlain, CreatWithXfcb, At, Arg, Quiet, Course
  <2>3. QED
    BY <1>1, <2>1, <2>2, CourseOn, Tools
<1>6. ASSUME NEW f \in Files, CopyCreatHalf(f)
      PROVE  Course'
  BY <1>1, <1>4, <1>6 DEF CopyCreatHalf, CreatHalf, At, Arg, Quiet
<1>7. ASSUME NEW f \in Files, Remove(f)
      PROVE  Course'
  BY <1>1, <1>4, <1>7 DEF Remove, Unlink, At, Arg, Quiet
<1>8. ASSUME NEW f \in Files, LookUp(f)
      PROVE  Course'
  <2>1. IsTool(tool', tool.prog, "attr", tool.args, f, tool.sec)
    BY <1>1, <1>8, Updates DEF LookUp, Places
  <2>2. /\ wr' = wr /\ copied' = copied /\ wr.phase = "idle"
        /\ tool.prog \in {"cpmchattr", "cpmchmod"} /\ tool.args > 0
        /\ tool.sec = 0
    BY <1>8 DEF LookUp, Namei, At, Arg, Quiet, Course
  <2>3. QED
    BY <1>1, <2>1, <2>2, CourseOn, Tools
<1>9. ASSUME CopyOpen
      PROVE  Course'
  <2>1. IsTool(tool', tool.prog, "chunk", tool.args, tool.file, tool.sec)
    BY <1>1, <1>9, Updates DEF CopyOpen, Places
  <2>2. /\ wr' = wr /\ copied' = copied /\ wr.phase = "idle"
        /\ tool.prog = "cpmcp" /\ tool.args > 0 /\ tool.file \in Files
        /\ tool.sec = 0
    BY <1>9 DEF CopyOpen, Open, At, Quiet, Course
  <2>3. QED
    BY <1>1, <2>1, <2>2, CourseOn, Tools
<1>10. ASSUME CopyChunk
       PROVE  Course'
  <2>1. IsTool(tool', tool.prog, "write", tool.args, tool.file, tool.sec)
    BY <1>1, <1>10, Updates DEF CopyChunk, Places
  <2>2. /\ copied' = copied
        /\ tool.prog = "cpmcp" /\ tool.args > 0 /\ tool.file \in Files
        /\ tool.sec = 0 /\ wr.phase = "idle"
    BY <1>10 DEF CopyChunk, At, Quiet, Course
  <2>3. (\E n : WriteBegin(ino, n)) \/ wr' = [wr EXCEPT !.got = "all"]
    BY <1>10 DEF CopyChunk
  <2>4. wr'.phase = "idle" \/ wr'.h = ino
    BY <2>2, <2>3 DEF WriteBegin, Go, TypeOK, WriteCall
  <2>5. QED
    BY <1>1, <2>1, <2>2, <2>4, CourseOn, Tools
<1>11. ASSUME CopyWrite
       PROVE  Course'
  <2>1. tool' = tool /\ copied' = copied /\ wr'.h = wr.h /\ wr.phase # "idle"
    BY <1>11, WriteFrame DEF CopyWrite
  <2>2. LastDirSec' = LastDirSec /\ ino' = ino
    BY DEF LastDirSec, ino
  <2>3. QED
    BY <2>1, <2>2 DEF Course, ToolsTypeOK
<1>12. ASSUME CopyAgain
       PROVE  Course'
  <2>1. IsTool(tool', tool.prog, "chunk", tool.args, tool.file, tool.sec)
    BY <1>1, <1>12, Updates DEF CopyAgain, Places
  <2>2. /\ wr' = wr /\ copied' = copied /\ wr.phase = "idle"
        /\ tool.prog = "cpmcp" /\ tool.args > 0 /\ tool.file \in Files
        /\ tool.sec = 0
    BY <1>12 DEF CopyAgain, fsvars, At, Quiet, Course
  <2>3. QED
    BY <1>1, <2>1, <2>2, CourseOn, Tools
<1>13. ASSUME CopyDone
       PROVE  Course'
  <2>1. fd[ino].pos \in Nat
    BY InoType DEF TypeOK, Inode
  <2>2. copied' \in [Files -> Nat \cup {None}]
    BY <1>1, <1>13, <2>1 DEF CopyDone
  <2>3. wr' = wr
    BY <1>13 DEF CopyDone, Utime, fsvars
  <2>4. QED
    BY <1>4, <1>13, <2>2, <2>3 DEF CopyDone, At, Quiet, Course
<1>14. ASSUME CopyFailed
       PROVE  Course'
  BY <1>1, <1>4, <1>14 DEF CopyFailed, At, Quiet, Course, fsvars
<1>15. ASSUME ChangeAttr
       PROVE  Course'
  <2>1. wr' = wr
    BY <1>15 DEF ChangeAttr, AttrSet, Chmod
  <2>2. QED
    BY <1>1, <1>4, <1>15, <2>1 DEF ChangeAttr, At, Quiet, Course
<1>16. ASSUME Leave \/ SyncLast \/ Die
       PROVE  Course'
  <2>1. tool' = NoTool /\ copied' \in [Files -> Nat \cup {None}]
    BY <1>1, <1>16 DEF Leave, SyncLast, Die, Gone
  <2>2. wr'.phase = "idle"
    BY <1>16 DEF Leave, SyncLast, Die, Finish, Returned
  <2>3. QED
    BY <1>2, <2>1, <2>2
<1>17. ASSUME Umount
       PROVE  Course'
  <2>1. IsTool(tool', tool.prog, "sync", tool.args, tool.file, tool.sec)
    BY <1>1, <1>17, Updates DEF Umount, Places
  <2>2. /\ wr' = wr /\ copied' = copied /\ wr.phase = "idle"
        /\ tool.prog # "none" /\ tool.sec = 0
    BY <1>17 DEF Umount, fsvars, Quiet, Course
  <2>3. QED
    BY <1>1, <2>1, <2>2, CourseOn, Tools
<1>18. ASSUME SyncSector
       PROVE  Course'
  <2>1. /\ IsTool(tool', tool.prog, tool.step, tool.args, tool.file,
                  tool.sec + 1)
        /\ tool.sec < LastDirSec
    BY <1>1, <1>18, Updates DEF SyncSector
  <2>2. /\ wr' = wr /\ copied' = copied /\ tool.step = "sync"
        /\ wr.phase = "idle"
    BY <1>18 DEF SyncSector, Course
  <2>3. tool.prog # "none"
    BY <2>2 DEF Course, NoTool
  <2>4. tool.sec + 1 <= LastDirSec
    BY <1>1, <2>1, Tools, Geometry
  <2>5. QED
    BY <1>1, <2>1, <2>2, <2>3, <2>4, CourseOn
<1>19. ASSUME UNCHANGED toolvars
       PROVE  Course'
  <2>1. LastDirSec' = LastDirSec /\ ino' = ino
    BY DEF LastDirSec, ino
  <2>2. QED
    BY <1>19, <2>1 DEF toolvars, Course, ToolsTypeOK
<1>20. \A text \in TextModes : text \in BOOLEAN
  BY ToolAssumption DEF ToolAssumption
<1>21. QED
  BY <1>3, <1>5, <1>6, <1>7, <1>8, <1>9, <1>10, <1>11, <1>12, <1>13, <1>14,
     <1>15, <1>16, <1>17, <1>18, <1>19, <1>20
     DEF ToolsNext, ToolStep, Programs

\* The variables of the programs keep their types, whatever is copied, removed
\* or changed and wherever a program dies.
THEOREM ToolsTypeCorrect == ToolsSpec => []ToolsTypeOK
<1>1. ToolsInit => TypeOK /\ Course
  BY CourseInit
<1>2. TypeOK /\ Course /\ [ToolsNext]_toolvars => TypeOK' /\ Course'
  BY ToolsTypeStep, CourseStep
<1>3. Course => ToolsTypeOK
  BY DEF Course
<1>4. QED
  BY <1>1, <1>2, <1>3, PTL DEF ToolsSpec

-----------------------------------------------------------------------------
(* Sessions.  A session either adds (cpmcp) or takes away (the others): of  *)
(* the image and the buffer one is always within the other, and so is any   *)
(* mixture of their sectors that cpmSync leaves when it is cut short.       *)

\* b is the entry a, with blocks added where a had none
Grown(a, b) == /\ SameExtent(a, b)
               /\ \A i \in PtrIx : a.ptr[i] # 0 => b.ptr[i] = a.ptr[i]

Within(e, d) ==
  \A s \in FileSlots(e) : s \in FileSlots(d) /\ Grown(e[s], d[s])

\* Sound, with extents that are apart
Disjoint(d) == NotShared(d) /\ InDataArea(d) /\ Apart(d)

LEMMA GrownOrder ==
  /\ \A a : Grown(a, a)
  /\ \A a, b, c : Grown(a, b) /\ Grown(b, c) => Grown(a, c)
  BY DEF Grown, SameExtent

LEMMA GrownStatus ==
  ASSUME NEW d, NEW e, NEW s \in Slot, Grown(d[s], e[s])
  PROVE  s \in FileSlots(d) <=> s \in FileSlots(e)
  BY DEF Grown, SameExtent, FileSlots

LEMMA WithinOrder ==
  /\ \A d : Within(d, d)
  /\ \A c, d, e : Within(c, d) /\ Within(d, e) => Within(c, e)
  BY GrownOrder, Zenon DEF Within

\* Whatever is within a sound directory is sound.
LEMMA WithinSound ==
  ASSUME NEW d, NEW e, Within(e, d), Disjoint(d)
  PROVE  Disjoint(e)
<1>1. \A s \in FileSlots(e) :
        /\ s \in FileSlots(d) /\ SameExtent(e[s], d[s])
        /\ \A i \in PtrIx : e[s].ptr[i] # 0 => d[s].ptr[i] = e[s].ptr[i]
  BY DEF Within, Grown
<1>2. NotShared(e)
  <2> SUFFICES ASSUME NEW s \in FileSlots(e), NEW t \in FileSlots(e),
                      NEW i \in PtrIx, NEW j \in PtrIx,
                      e[s].ptr[i] # 0, e[s].ptr[i] = e[t].ptr[j]
               PROVE  s = t /\ i = j
    BY DEF NotShared
  <2>1. s \in FileSlots(d) /\ d[s].ptr[i] = e[s].ptr[i]
    BY <1>1
  <2>2. t \in FileSlots(d) /\ d[t].ptr[j] = e[t].ptr[j]
    BY <1>1
  <2>3. QED
    BY <2>1, <2>2, NotSharedUse DEF Disjoint
<1>3. InDataArea(e)
  <2>1. \A s \in FileSlots(e) : Refs(e[s]) \subseteq Refs(d[s])
    BY <1>1 DEF Refs
  <2>2. QED
    BY <1>1, <2>1 DEF InDataArea, Disjoint
<1>4. Apart(e)
  <2>1. Stand(d, e)
    BY <1>1 DEF Stand, SameExtent
  <2>2. QED
    BY <2>1, StandApart DEF Disjoint
<1>5. QED
  BY <1>2, <1>3, <1>4 DEF Disjoint

\* A directory each entry of which is from one of two, of which one is within
\* the other, is between them.
LEMMA MixedWithin ==
  ASSUME NEW d, NEW e, NEW m, Within(e, d),
         \A s \in Slot : m[s] = e[s] \/ m[s] = d[s]
  PROVE  Within(e, m) /\ Within(m, d)
<1>1. ASSUME NEW s \in FileSlots(e)
      PROVE  s \in FileSlots(m) /\ Grown(e[s], m[s])
  <2>1. s \in Slot /\ s \in FileSlots(d) /\ Grown(e[s], d[s])
    BY DEF FileSlots, Within
  <2>2. QED
    BY <2>1, GrownOrder DEF FileSlots
<1>2. ASSUME NEW s \in FileSlots(m)
      PROVE  s \in FileSlots(d) /\ Grown(m[s], d[s])
  <2>1. s \in Slot
    BY DEF FileSlots
  <2>2. CASE m[s] = d[s]
    BY <2>1, <2>2, GrownOrder DEF FileSlots
  <2>3. CASE m[s] = e[s]
    BY <2>1, <2>3 DEF FileSlots, Within
  <2>4. QED
    BY <2>1, <2>2, <2>3
<1>3. QED
  BY <1>1, <1>2 DEF Within

\* What is put into free slots, or added to entries, takes nothing away.
Added(d, e) == \A s \in Slot : d[s].status = Free \/ Grown(d[s], e[s])

LEMMA AddedWithin ==
  ASSUME NEW c, NEW d, NEW e, Within(c, d), Added(d, e)
  PROVE  Within(c, e)
<1> SUFFICES ASSUME NEW s \in FileSlots(c)
             PROVE  s \in FileSlots(e) /\ Grown(c[s], e[s])
  BY DEF Within
<1>1. s \in Slot /\ s \in FileSlots(d) /\ Grown(c[s], d[s])
  BY DEF FileSlots, Within
<1>2. d[s].status # Free
  BY <1>1, FreeIsNoFile DEF FreeSlots
<1>3. Grown(d[s], e[s])
  BY <1>1, <1>2 DEF Added
<1>4. QED
  BY <1>1, <1>3, GrownOrder, GrownStatus

\* An entry for a file that is not there
LEMMA CreatEffect ==
  ASSUME TypeOK, ~MpmDates, NEW h \in Handles, NEW u \in Users, NEW n \in Names,
         \/ CreatPlain(h, u, n) \/ CreatWithXfcb(h, u, n)
         \/ CreatHalf(h, u, n)
  PROVE  /\ CreatPlain(h, u, n)
         /\ Match(dir, u, n) = {}
         /\ \E s \in Slot : /\ dir[s].status = Free
                            /\ dir' = [dir EXCEPT ![s] = NewEntry(u, n)]
                            /\ \E x : Created(h, s, x)
         /\ NewEntry(u, n) \in Entry
         /\ dirty' = TRUE /\ alv' = alv /\ disk' = disk /\ wr' = wr
<1>1. CreatPlain(h, u, n)
  BY GeometryAssumption DEF CreatWithXfcb, CreatHalf, GeometryAssumption
<1>2. PICK s \in FreeSlots(dir) : /\ dir' = [dir EXCEPT ![s] = NewEntry(u, n)]
                                  /\ \E x : Created(h, s, x)
  BY <1>1 DEF CreatPlain, Restamped, Firsts
<1>3. s \in Slot /\ dir[s].status = Free
  BY DEF FreeSlots
<1>4. NewEntry(u, n) \in Entry
  BY NewEntryType, StatusTypes
<1>5. QED
  BY <1>1, <1>2, <1>3, <1>4 DEF CreatPlain

\* What a step of cpmWrite does to the entries.
LEMMA WriteEffect ==
  ASSUME TypeOK, Regular, ~MpmDates, Place, WriteStep
  PROVE  \A s \in Slot :
           \/ Grown(dir[s], dir'[s])
           \/ /\ dir[s].status = Free
              /\ dir'[s] = Extended(Own, Pos \div Logical)
<1>0. wr.phase # "idle" /\ dir \in [Slot -> Entry]
  BY WriteFrame DEF TypeOK
<1>1. CASE dir' = dir
  BY <1>1, GrownOrder
<1>2. CASE ExtentAdded
  <2>1. PICK s \in FreeSlots(dir) :
          dir' = [dir EXCEPT ![s] = Extended(Own, Pos \div Logical)]
    BY <1>2 DEF ExtentAdded, Restamped, Firsts
  <2> DEFINE new == Extended(Own, Pos \div Logical)
  <2>2. \A t \in Slot : dir'[t] = IF t = s THEN new ELSE dir[t]
    BY <1>0, <2>1
  <2> HIDE DEF new
  <2>3. dir[s].status = Free
    BY DEF FreeSlots
  <2>4. QED
    BY <2>2, <2>3, GrownOrder DEF new
<1>3. CASE BlockAllocated
  <2>1. PICK b \in Block : dir' = [dir EXCEPT ![wr.extent].ptr[PtrAt(Pos)] = b]
    BY <1>3 DEF BlockAllocated, Restamped, Firsts
  <2>2. dir[wr.extent] \in Entry /\ PtrAt(Pos) \in PtrIx /\ wr.phase = "block"
    BY <1>0, <1>3, WriteLocals, PtrAtType DEF BlockAllocated
  <2> DEFINE i == PtrAt(Pos)
             new == [dir[wr.extent] EXCEPT !.ptr[i] = b]
  <2>3. dir[wr.extent].ptr[i] = 0
    BY <1>3 DEF BlockAllocated, Cell
  <2> HIDE DEF i
  <2>4. /\ new.status = dir[wr.extent].status
        /\ new.name = dir[wr.extent].name /\ new.extno = dir[wr.extent].extno
        /\ \A j \in PtrIx : new.ptr[j] = IF j = i THEN b
                                         ELSE dir[wr.extent].ptr[j]
    <3>1. i \in PtrIx /\ b \in Nat
      BY <2>1, <2>2 DEF i, Block
    <3>2. QED
      BY <2>2, <3>1, PtrSetFields
  <2>5. dir' = [dir EXCEPT ![wr.extent] = new]
    BY <2>1 DEF i
  <2> HIDE DEF new
  <2>6. \A t \in Slot : dir'[t] = IF t = wr.extent THEN new ELSE dir[t]
    BY <1>0, <2>5
  <2>7. Grown(dir[wr.extent], new)
    BY <2>3, <2>4 DEF Grown, SameExtent
  <2>8. QED
    BY <2>6, <2>7, GrownOrder
<1>4. CASE Filled
  <2>1. PICK last \in PtrIx :
          dir' = [dir EXCEPT ![wr.extent] =
                    Recorded(@, wr.extno + (last * BlkSiz) \div ExtCap,
                             Pos + Room(Pos, wr.count))]
    BY <1>4 DEF Filled, Restamped, Last
  <2>2. /\ wr.extno \in Nat /\ wr.extno < 2048 /\ dir[wr.extent] \in Entry
        /\ dir[wr.extent].extno \div Extents = wr.extno \div Extents
    BY <1>0, <1>4, WriteLocals DEF Filled, Place
  <2>3. wr.extno + (last * BlkSiz) \div ExtCap = wr.extno
    BY <2>2, LastWithin
  <2> DEFINE new == Recorded(dir[wr.extent], wr.extno, Pos + Room(Pos, wr.count))
  <2>4. dir' = [dir EXCEPT ![wr.extent] = new]
    BY <2>1, <2>3
  <2>5. /\ new.status = dir[wr.extent].status
        /\ new.name = dir[wr.extent].name
        /\ new.extno = wr.extno
        /\ new.ptr = dir[wr.extent].ptr
    <3>1. wr.extno % 2048 = wr.extno
      BY <2>2
    <3>2. QED
      BY <3>1 DEF Recorded
  <2> HIDE DEF new
  <2>6. \A t \in Slot : dir'[t] = IF t = wr.extent THEN new ELSE dir[t]
    BY <1>0, <2>4
  <2>7. Grown(dir[wr.extent], new)
    BY <2>2, <2>5 DEF Grown, SameExtent
  <2>8. QED
    BY <2>6, <2>7, GrownOrder
<1>5. QED
  BY <1>1, <1>2, <1>3, <1>4 DEF WriteStep, ExtentFound, ExtentDenied,
                                BlockFound, BlockUnreadable, BlockDenied

LEMMA UnlinkWithin ==
  ASSUME TypeOK, NEW u, NEW n, Unlink(u, n)
  PROVE  Within(dir', dir) /\ disk' = disk /\ wr' = wr
<1>1. PICK gone : dir' = [s \in Slot |-> IF s \in gone
                                         THEN [dir[s] EXCEPT !.status = Free]
                                         ELSE dir[s]]
  BY ZenonT(30) DEF Unlink, Erased
<1>2. \A s \in Slot : dir'[s].status = Free \/ dir'[s] = dir[s]
  BY <1>1 DEF TypeOK, Entry
<1>3. ASSUME NEW s \in FileSlots(dir')
      PROVE  s \in FileSlots(dir) /\ Grown(dir'[s], dir[s])
  <2>1. s \in Slot /\ dir'[s].status # Free
    BY Geometry DEF FileSlots
  <2>2. dir'[s] = dir[s]
    BY <1>2, <2>1
  <2>3. QED
    BY <2>1, <2>2, GrownOrder DEF FileSlots
<1>4. QED
  BY <1>3 DEF Within, Unlink

LEMMA AttrSetEffect ==
  ASSUME TypeOK, NEW h \in Handles, NEW a, AttrSet(h, a)
  PROVE  /\ \A s \in Slot : /\ dir'[s].status = dir[s].status
                            /\ dir'[s].name = dir[s].name
                            /\ dir'[s].extno = dir[s].extno
                            /\ dir'[s].ptr = dir[s].ptr
         /\ disk' = disk /\ alv' = alv /\ wr' = wr /\ dirty' = TRUE
<1>1. PICK S : dir' = [s \in Slot |-> IF s \in S THEN [dir[s] EXCEPT !.attr = a]
                                      ELSE dir[s]]
  BY DEF AttrSet
<1>2. \A s \in Slot : dir'[s].status = dir[s].status /\ dir'[s].name = dir[s].name
  BY <1>1 DEF TypeOK, Entry
<1>3. \A s \in Slot : dir'[s].extno = dir[s].extno /\ dir'[s].ptr = dir[s].ptr
  BY <1>1 DEF TypeOK, Entry
<1>4. QED
  BY <1>2, <1>3 DEF AttrSet

\* Every action of the programs, as far as directory and image go
LEMMA SessionSteps ==
  ASSUME TypeOK, Course, Regular, ~MpmDates, Place, ToolsNext
  PROVE  \/ /\ tool.prog = "cpmcp" /\ tool'.prog = "cpmcp"
            /\ disk' = disk /\ Added(dir, dir')
         \/ /\ tool.prog \notin {"none", "cpmcp"} /\ tool'.prog = tool.prog
            /\ disk' = disk /\ Within(dir', dir)
         \/ /\ dir' = dir /\ disk' = disk
            /\ tool'.prog = tool.prog \/ tool.prog = "none"
         \/ SyncSector /\ tool'.prog = tool.prog /\ tool.prog # "none"
         \/ Ended /\ tool'.prog = "none"
<1> DEFINE Same == tool'.prog = tool.prog
<1>0. /\ ToolsTypeOK /\ ino \in Handles
      /\ \A prog, step, args, file, sec :
           IsTool(tool', prog, step, args, file, sec) => tool'.prog = prog
  BY InoType DEF Course, IsTool
<1>1. ASSUME NEW prog, NEW text, Start(prog, text)
      PROVE  dir' = dir /\ disk' = disk /\ tool.prog = "none"
  BY <1>1 DEF Start, fsvars
<1>2. ASSUME NextArg, tool.args > 0 PROVE Same
  BY <1>0, <1>2, Updates
<1>3. ASSUME NEW f \in Files, CopyCreat(f) \/ CopyCreatHalf(f)
      PROVE  /\ tool.prog = "cpmcp" /\ Same
             /\ disk' = disk /\ Added(dir, dir')
  <2>1. PICK u \in Users, n \in Names :
          \/ CreatPlain(ino, u, n) \/ CreatWithXfcb(ino, u, n)
          \/ CreatHalf(ino, u, n)
    BY <1>3 DEF CopyCreat, CopyCreatHalf, Files
  <2>2. PICK s \in Slot : /\ dir[s].status = Free
                          /\ dir' = [dir EXCEPT ![s] = NewEntry(u, n)]
    BY <1>0, <2>1, CreatEffect
  <2>3. \A t \in Slot : t = s \/ dir'[t] = dir[t]
    BY <2>2 DEF TypeOK
  <2>4. Added(dir, dir')
    BY <2>2, <2>3, GrownOrder DEF Added
  <2>5. disk' = disk
    BY <1>0, <2>1, CreatEffect
  <2>6. Same
    <3>1. CASE CopyCreat(f)
      BY <1>0, <3>1, Updates DEF CopyCreat, Places
    <3>2. CASE CopyCreatHalf(f)
      BY <1>2, <3>2 DEF CopyCreatHalf, Arg
    <3>3. QED
      BY <1>3, <3>1, <3>2
  <2>7. tool.prog = "cpmcp"
    BY <1>3 DEF CopyCreat, CopyCreatHalf, At
  <2>8. QED
    BY <2>4, <2>5, <2>6, <2>7
<1>4. ASSUME NEW f \in Files, Remove(f)
      PROVE  /\ tool.prog \notin {"none", "cpmcp"} /\ Same
             /\ disk' = disk /\ Within(dir', dir)
  BY <1>2, <1>4, UnlinkWithin DEF Remove, Arg, At
<1>5. ASSUME NEW f \in Files, LookUp(f)
      PROVE  dir' = dir /\ disk' = disk /\ Same
  BY <1>0, <1>5, Updates DEF LookUp, Namei, Places
<1>6. ASSUME CopyOpen
      PROVE  dir' = dir /\ disk' = disk /\ Same
  BY <1>0, <1>6, Updates DEF CopyOpen, Open, Places
<1>7. ASSUME CopyChunk
      PROVE  dir' = dir /\ disk' = disk /\ Same
  <2>1. Same
    BY <1>0, <1>7, Updates DEF CopyChunk, Places
  <2>2. QED
    BY <1>7, <2>1 DEF CopyChunk, WriteBegin
<1>8. ASSUME CopyWrite
      PROVE  /\ tool.prog = "cpmcp" /\ Same
             /\ disk' = disk /\ Added(dir, dir')
  BY <1>8, WriteFrame, WriteEffect DEF CopyWrite, Course, Added
<1>9. ASSUME CopyAgain
      PROVE  dir' = dir /\ disk' = disk /\ Same
  BY <1>0, <1>9, Updates DEF CopyAgain, fsvars, Places
<1>10. ASSUME CopyDone
       PROVE  dir' = dir /\ disk' = disk /\ Same
  <2>1. dir' = dir /\ disk' = disk
    BY <1>10 DEF CopyDone, fsvars, Utime, Restamped
  <2>2. QED
    BY <1>2, <1>10, <2>1 DEF CopyDone, At, Course
<1>11. ASSUME CopyFailed
       PROVE  dir' = dir /\ disk' = disk /\ Same
  BY <1>2, <1>11 DEF CopyFailed, fsvars, At, Course
<1>12. ASSUME ChangeAttr
       PROVE  /\ tool.prog \notin {"none", "cpmcp"} /\ Same
              /\ disk' = disk /\ Within(dir', dir)
  <2>1. PICK a : AttrSet(ino, a)
    BY <1>12 DEF ChangeAttr, Chmod
  <2>2. /\ \A s \in Slot : dir'[s].status = dir[s].status /\ Grown(dir'[s], dir[s])
        /\ disk' = disk
    BY <1>0, <2>1, AttrSetEffect DEF Grown, SameExtent
  <2>3. Within(dir', dir)
    BY <2>2 DEF Within, FileSlots
  <2>4. QED
    BY <1>2, <1>12, <2>2, <2>3 DEF ChangeAttr, At, Course
<1>13. ASSUME Umount
       PROVE  dir' = dir /\ disk' = disk /\ Same
  BY <1>0, <1>13, Updates DEF Umount, fsvars, Places
<1>14. ASSUME SyncSector
       PROVE  SyncSector /\ Same /\ tool.prog # "none"
  <2>1. tool.step = "sync" /\ tool.sec < LastDirSec
        /\ tool' = [tool EXCEPT !.sec = tool.sec + 1]
    BY <1>14 DEF SyncSector
  <2>2. Same
    BY <1>0, <2>1, Updates, ZenonT(30)
  <2>3. tool.prog # "none"
    BY <2>1 DEF Course, NoTool
  <2>4. QED
    BY <1>14, <2>2, <2>3
<1>15. ASSUME Leave \/ SyncLast \/ Die
       PROVE  Ended /\ tool'.prog = "none"
  <2>1. wr.got \in {"all", "less"}
    BY DEF TypeOK, WriteCall
  <2>2. tool'.prog = "none"
    BY <1>15 DEF Leave, SyncLast, Die, Gone, NoTool
  <2>3. Ended
    BY <1>15, <2>1 DEF Leave, SyncLast, Die, Gone, Ended
  <2>4. QED
    BY <2>2, <2>3
<1> HIDE DEF Same
<1>16. QED
  BY <1>1, <1>3, <1>4, <1>5, <1>6, <1>7, <1>8, <1>9, <1>10, <1>11, <1>12,
     <1>13, <1>14, <1>15
     DEF ToolsNext, ToolStep, Same

\* The buffer and the image, while a session lasts and between two.
Between ==
  /\ tool.prog = "cpmcp" => Within(disk, dir)
  /\ tool.prog # "cpmcp" => Within(dir, disk)
  /\ tool.prog = "none" => dir = disk

\* ImageIsSound is not inductive: what cpmSync puts together of two sound
\* directories need not be sound.  It is because one is within the other.
SessionInv == Course /\ Owned /\ UniqueInv /\ Disjoint(disk) /\ Between

LEMMA SyncedBetween ==
  ASSUME SessionInv
  PROVE  /\ Disjoint(Synced)
         /\ tool.prog = "cpmcp" => Within(Synced, dir)
         /\ tool.prog # "cpmcp" => Within(dir, Synced) /\ Within(Synced, disk)
<1>1. Disjoint(dir) /\ Disjoint(disk)
  BY DEF SessionInv, Owned, UniqueInv, BlocksAreOwned, Disjoint
<1>2. \A s \in Slot : Synced[s] = dir[s] \/ Synced[s] = disk[s]
  BY DEF Synced
<1>3. CASE tool.prog = "cpmcp"
  <2>1. Within(disk, dir)
    BY <1>3 DEF SessionInv, Between
  <2>2. Within(Synced, dir)
    BY <1>2, <2>1, MixedWithin
  <2>3. QED
    BY <1>1, <1>3, <2>2, WithinSound
<1>4. CASE tool.prog # "cpmcp"
  <2>1. Within(dir, disk)
    BY <1>4 DEF SessionInv, Between
  <2>2. Within(dir, Synced) /\ Within(Synced, disk)
    BY <1>2, <2>1, MixedWithin
  <2>3. QED
    BY <1>1, <1>4, <2>2, WithinSound
<1>5. QED
  BY <1>3, <1>4

LEMMA SessionInit ==
  ASSUME ToolsInit
  PROVE  SessionInv
<1>1. Init /\ TypeOK /\ Course
  BY CourseInit DEF ToolsInit
<1>2. Owned /\ UniqueInv
  BY <1>1, OwnedInit, UniqueInit
<1>3. Between
  BY <1>1, WithinOrder DEF Init, Between
<1>4. Disjoint(disk)
  BY <1>1, <1>2 DEF Init, Owned, UniqueInv, BlocksAreOwned, Disjoint
<1>5. QED
  BY <1>1, <1>2, <1>3, <1>4 DEF SessionInv

LEMMA DisjointNext ==
  ASSUME Disjoint(disk') PROVE Disjoint(disk)'
  BY DEF Disjoint, NotShared, InDataArea, Apart, SameExtent, FileSlots, Refs,
         MaxFileUser, Slot, PtrIx

\* Directory and image stay sound.
LEMMA EndedHeld ==
  ASSUME SessionInv, Ended
  PROVE  Owned' /\ UniqueInv' /\ Disjoint(disk')
<1>0. TypeOK' /\ wr'.phase = "idle"
  BY EndedType DEF SessionInv, Owned
<1>1. Disjoint(disk')
  <2>1. CASE disk' = disk
    BY <2>1 DEF SessionInv
  <2>2. CASE disk' = Synced
    BY <2>2, SyncedBetween
  <2>3. QED
    BY <2>1, <2>2 DEF Ended
<1>2. dir' = disk' /\ alv' = AlvInit(disk')
  BY DEF Ended, Mount
<1>3. AlvCovers'
  BY <1>0, <1>1, <1>2, MountCovers DEF TypeOK, AlvCovers, Covers, Disjoint
<1>4. QED
  BY <1>0, <1>1, <1>2, <1>3
     DEF Owned, UniqueInv, Disjoint, BlocksAreOwned, Place

LEMMA HeldStep ==
  ASSUME Regular, ~MpmDates, SessionInv, [ToolsNext]_toolvars
  PROVE  Owned' /\ UniqueInv'
<1>0. TypeOK /\ TypeOK'
  BY ToolsTypeStep DEF SessionInv, Owned
<1>1. CASE Call \/ WriteStep \/ UNCHANGED vars
  <2>1. [Next]_vars
    BY <1>1 DEF Next
  <2>2. QED
    BY <2>1, OwnedStep, UniqueStep DEF SessionInv, Regular
<1>2. CASE EmptyChunk
  <2>1. wr'.phase = "idle"
    BY <1>0, <1>2 DEF EmptyChunk, Quiet, TypeOK, WriteCall
  <2>2. UNCHANGED <<dir, alv, disk>>
    BY <1>2 DEF EmptyChunk
  <2>3. BlocksAreOwned' /\ AlvCovers' /\ NotShared(disk') /\ InDataArea(disk')
    BY <2>2 DEF SessionInv, Owned, BlocksAreOwned, AlvCovers, Disjoint
  <2>4. Apart(dir') /\ Apart(disk')
    BY <2>2 DEF SessionInv, UniqueInv, Disjoint
  <2>5. QED
    BY <1>0, <2>1, <2>3, <2>4 DEF Owned, UniqueInv, Place
<1>3. CASE SyncSector
  <2>1. UNCHANGED <<dir, alv, fd, wr>> /\ disk' = Synced
    BY <1>3 DEF SyncSector
  <2>2. BlocksAreOwned' /\ AlvCovers' /\ Place' /\ Apart(dir')
    BY <2>1 DEF SessionInv, Owned, UniqueInv, BlocksAreOwned, AlvCovers, Place, Pos
  <2>3. Disjoint(disk')
    BY <2>1, SyncedBetween
  <2>4. QED
    BY <1>0, <2>2, <2>3 DEF Owned, UniqueInv, Disjoint
<1>4. CASE Ended
  BY <1>4, EndedHeld
<1>5. CASE UNCHANGED toolvars
  BY <1>1, <1>5 DEF toolvars, vars
<1>6. QED
  BY <1>0, <1>1, <1>2, <1>3, <1>4, <1>5, StepKinds DEF SessionInv

LEMMA BetweenStep ==
  ASSUME Regular, ~MpmDates, SessionInv, [ToolsNext]_toolvars
  PROVE  Between'
<1>0. TypeOK /\ Course /\ Place
  BY DEF SessionInv, Owned, UniqueInv
<1>1. CASE /\ tool.prog = "cpmcp" /\ tool'.prog = "cpmcp"
           /\ disk' = disk /\ Added(dir, dir')
  <2>1. Within(disk, dir')
    BY <1>1, AddedWithin DEF SessionInv, Between
  <2>2. QED
    BY <1>1, <2>1 DEF Between
<1>2. CASE /\ tool.prog \notin {"none", "cpmcp"} /\ tool'.prog = tool.prog
           /\ disk' = disk /\ Within(dir', dir)
  <2>1. Within(dir', disk)
    BY <1>2, WithinOrder DEF SessionInv, Between
  <2>2. QED
    BY <1>2, <2>1 DEF Between
<1>3. CASE /\ dir' = dir /\ disk' = disk
           /\ tool'.prog = tool.prog \/ tool.prog = "none"
  BY <1>3, WithinOrder DEF SessionInv, Between
<1>4. CASE SyncSector /\ tool'.prog = tool.prog /\ tool.prog # "none"
  <2>1. dir' = dir /\ disk' = Synced
    BY <1>4 DEF SyncSector
  <2>2. QED
    BY <1>4, <2>1, SyncedBetween DEF Between
<1>5. CASE Ended /\ tool'.prog = "none"
  BY <1>5, WithinOrder DEF Ended, Mount, Between
<1>6. CASE UNCHANGED toolvars
  BY <1>6 DEF toolvars, SessionInv, Between
<1>7. QED
  BY <1>0, <1>1, <1>2, <1>3, <1>4, <1>5, <1>6, SessionSteps

LEMMA ImageStep ==
  ASSUME Regular, ~MpmDates, SessionInv, [ToolsNext]_toolvars
  PROVE  Disjoint(disk')
<1>0. TypeOK /\ Course /\ Place
  BY DEF SessionInv, Owned, UniqueInv
<1>1. CASE disk' = disk
  BY <1>1 DEF SessionInv
<1>2. CASE SyncSector
  BY <1>2, SyncedBetween DEF SyncSector
<1>3. CASE Ended
  BY <1>3, EndedHeld
<1>4. CASE UNCHANGED toolvars
  BY <1>1, <1>4 DEF toolvars
<1>5. QED
  BY <1>0, <1>1, <1>2, <1>3, <1>4, SessionSteps

LEMMA SessionStep ==
  ASSUME Regular, ~MpmDates, SessionInv, [ToolsNext]_toolvars
  PROVE  SessionInv'
<1>1. Course'
  BY CourseStep DEF SessionInv, Owned
<1>2. Disjoint(disk)'
  BY ImageStep, DisjointNext
<1>3. QED
  BY <1>1, <1>2, HeldStep, BetweenStep DEF SessionInv

\* The death of a program between any two steps, in particular between two
\* sectors of cpmSync, never leaves an image on which files share a block
\* or have one outside the data area or two entries for an extent.
THEOREM ImageStaysSound ==
  ASSUME Regular, ~MpmDates
  PROVE  ToolsSpec => []ImageIsSound
<1>1. ToolsInit => SessionInv
  BY SessionInit
<1>2. SessionInv /\ [ToolsNext]_toolvars => SessionInv'
  BY SessionStep
<1>3. SessionInv => ImageIsSound
  BY ApartIsUnique DEF SessionInv, Owned, TypeOK, Disjoint, ImageIsSound, Sound
<1>4. QED
  BY <1>1, <1>2, <1>3, PTL DEF ToolsSpec

-----------------------------------------------------------------------------
(* The file that cpmcp writes                                              *)

IsOf(entry, f) == entry.status = f[1] /\ entry.name = f[2]

\* It is not on the image, and the handle and the extent that cpmWrite works
\* on are its.
Target ==
  tool.step \in {"open", "chunk", "write"} =>
    /\ Match(disk, tool.file[1], tool.file[2]) = {}
    /\ fd[ino].slot \in Slot
    /\ IsOf(dir[fd[ino].slot], tool.file)
    /\ wr.phase \in {"block", "fill"} => IsOf(dir[wr.extent], tool.file)

\* cpmWrite keeps to the file of its handle.
LEMMA WriteAim ==
  ASSUME TypeOK, Regular, ~MpmDates, Place, WriteStep, NEW f, IsOf(Own, f),
         wr.phase \in {"block", "fill"} => IsOf(dir[wr.extent], f)
  PROVE  /\ \A s \in Slot : IsOf(dir[s], f) => IsOf(dir'[s], f)
         /\ fd'[wr.h].slot = fd[wr.h].slot
         /\ wr'.phase \in {"block", "fill"} => IsOf(dir'[wr'.extent], f)
<1>0. wr.phase # "idle" /\ dir \in [Slot -> Entry] /\ wr.h \in Handles
  BY WriteFrame DEF TypeOK, WriteCall
<1>1. \A extno : IsOf(Extended(Own, extno), f)
  BY DEF IsOf, Extended
<1>2. ASSUME NEW s \in Slot, IsOf(dir[s], f)
      PROVE  IsOf(dir'[s], f)
  <2>1. CASE Grown(dir[s], dir'[s])
    BY <1>2, <2>1 DEF Grown, SameExtent, IsOf
  <2>2. QED
    BY <1>1, <2>1, WriteEffect
<1>3. fd'[wr.h].slot = fd[wr.h].slot
  <2>1. CASE Filled
    BY <1>0, <2>1 DEF Filled, TypeOK, Inode
  <2>2. CASE ~Filled
    BY <2>2 DEF WriteStep, ExtentFound, ExtentAdded, ExtentDenied, BlockFound,
                BlockUnreadable, BlockAllocated, BlockDenied
  <2>3. QED
    BY <2>1, <2>2
<1>4. wr'.phase \in {"block", "fill"} => IsOf(dir'[wr'.extent], f)
  <2>1. CASE ExtentFound
    <3>1. PICK s \in Extent : UseExtent(s) /\ dir' = dir
      BY <2>1 DEF ExtentFound
    <3>2. IsOf(dir[s], f)
      BY DEF Extent, Firsts, MatchExtent, Match, IsOf
    <3>3. QED
      BY <3>1, <3>2 DEF UseExtent, Go
  <2>2. CASE ExtentAdded
    <3>1. PICK s \in FreeSlots(dir) :
            /\ dir' = [dir EXCEPT ![s] = Extended(Own, Pos \div Logical)]
            /\ UseExtent(s)
      BY <2>2 DEF ExtentAdded, Restamped, Firsts
    <3>2. dir'[s] = Extended(Own, Pos \div Logical)
      BY <1>0, <3>1 DEF FreeSlots
    <3>3. QED
      BY <1>1, <3>1, <3>2 DEF UseExtent, Go
  <2>3. CASE ExtentDenied \/ BlockUnreadable \/ BlockDenied
    BY <2>3 DEF ExtentDenied, BlockUnreadable, BlockDenied, Finish, Returned
  <2>4. CASE BlockFound \/ BlockAllocated
    <3>1. wr.phase = "block" /\ wr'.extent = wr.extent
      BY <2>4 DEF BlockFound, BlockAllocated, UseBlock, Go
    <3>2. wr.extent \in Slot
      BY <1>0, <3>1, WriteLocals
    <3>3. QED
      BY <1>2, <3>1, <3>2
  <2>5. CASE Filled
    <3>1. wr.phase = "fill"
      BY <2>5 DEF Filled
    <3>2. \/ Finish("all")
          \/ \E phase, count, extno : Go(phase, wr.h, count, wr.extent, extno)
      BY <2>5 DEF Filled
    <3>3. wr'.phase = "idle" \/ wr'.extent = wr.extent
      BY <3>2 DEF Finish, Returned, Go
    <3>4. wr.extent \in Slot
      BY <1>0, <3>1, WriteLocals
    <3>5. QED
      BY <1>2, <3>1, <3>3, <3>4
  <2>6. QED
    BY <2>1, <2>2, <2>3, <2>4, <2>5 DEF WriteStep
<1>5. QED
  BY <1>2, <1>3, <1>4

\* What is not in the buffer is not on an image that is within it.
LEMMA MatchWithin ==
  ASSUME NEW d, NEW e, Within(e, d), NEW u, u <= MaxFileUser, u <= MaxStatus,
         NEW n, Match(d, u, n) = {}
  PROVE  Match(e, u, n) = {}
<1> SUFFICES ASSUME NEW s \in Match(e, u, n) PROVE FALSE
  OBVIOUS
<1>1. s \in FileSlots(e) /\ e[s].status = u /\ e[s].name = n /\ s \in Slot
  BY DEF Match, FileSlots
<1>2. d[s].status = u /\ d[s].name = n
  BY <1>1 DEF Within, Grown, SameExtent
<1>3. s \in Match(d, u, n)
  BY <1>1, <1>2 DEF Match
<1>4. QED
  BY <1>3

LEMMA TargetStep ==
  ASSUME Regular, ~MpmDates, SessionInv, Target, [ToolsNext]_toolvars
  PROVE  Target'
<1>0. /\ TypeOK /\ Course /\ Place /\ ToolsTypeOK /\ ino \in Handles
      /\ \A prog, step, args, file, sec :
           IsTool(tool', prog, step, args, file, sec)
             => tool'.step = step /\ tool'.file = file
      /\ ino' = ino
  BY InoType DEF SessionInv, Owned, UniqueInv, Course, IsTool, ino
<1>1. ASSUME tool'.step \notin {"open", "chunk", "write"} PROVE Target'
  BY <1>1 DEF Target
<1>2. ASSUME NEW f \in Files, CopyCreat(f)
      PROVE  Target'
  <2>1. tool'.step = "open" /\ tool'.file = f
    BY <1>0, <1>2, Updates, ZenonT(30) DEF CopyCreat, Places
  <2>2. PICK u \in Users, n \in Names : u = f[1] /\ n = f[2]
    BY DEF Files
  <2>3. CreatPlain(ino, u, n) \/ CreatWithXfcb(ino, u, n)
    BY <1>2, <2>2 DEF CopyCreat
  <2>4. /\ Match(dir, u, n) = {} /\ disk' = disk /\ wr' = wr
        /\ NewEntry(u, n) \in Entry
    BY <1>0, <2>3, CreatEffect, ZenonT(30)
  <2>5. PICK s \in Slot : /\ dir' = [dir EXCEPT ![s] = NewEntry(u, n)]
                          /\ fd'[ino].slot = s
    <3>1. PICK s \in Slot : /\ dir' = [dir EXCEPT ![s] = NewEntry(u, n)]
                            /\ \E x : Created(ino, s, x)
      BY <1>0, <2>3, CreatEffect
    <3>2. fd'[ino].slot = s
      BY <1>0, <3>1 DEF Created, InodeOf, TypeOK
    <3>3. QED
      BY <3>1, <3>2
  <2>6. IsOf(dir'[s], f)
    BY <1>0, <2>2, <2>5 DEF TypeOK, IsOf, NewEntry
  <2>7. Match(disk, u, n) = {}
    <3>1. Within(disk, dir)
      BY <1>2 DEF CopyCreat, At, SessionInv, Between
    <3>2. u <= MaxFileUser /\ u <= MaxStatus
      BY UserStatus
    <3>3. QED
      BY <2>4, <3>1, <3>2, MatchWithin
  <2>8. wr'.phase = "idle"
    BY <1>2, <2>4 DEF CopyCreat, At, Quiet
  <2>9. Match(disk', tool'.file[1], tool'.file[2]) = {}
    BY <2>1, <2>2, <2>4, <2>7 DEF Match
  <2>10. QED
    BY <1>0, <2>1, <2>5, <2>6, <2>8, <2>9 DEF Target
<1>3. ASSUME tool.step \in {"open", "chunk", "write"}, tool'.file = tool.file,
             dir' = dir, disk' = disk, fd'[ino].slot = fd[ino].slot,
             wr'.phase \notin {"block", "fill"}
      PROVE  Target'
  <2>1. Match(disk', tool'.file[1], tool'.file[2]) = {}
    BY <1>3 DEF Target, Match
  <2>2. QED
    BY <1>0, <1>3, <2>1 DEF Target
<1>4. ASSUME CopyOpen PROVE Target'
  <2>1. tool'.file = tool.file
    BY <1>0, <1>4, Updates DEF CopyOpen, Places
  <2>2. fd'[ino].slot = fd[ino].slot
    <3>1. fd' = [fd EXCEPT ![ino].file = "open", ![ino].pos = 0]
      BY <1>4 DEF CopyOpen, Open
    <3>2. QED
      BY <1>0, <3>1 DEF TypeOK, Inode
  <2>3. QED
    BY <1>3, <1>4, <2>1, <2>2 DEF CopyOpen, Open, At, Quiet
<1>5. ASSUME CopyChunk PROVE Target'
  <2>1. tool'.file = tool.file
    BY <1>0, <1>5, Updates, ZenonT(30) DEF CopyChunk, Places
  <2>2. /\ dir' = dir /\ disk' = disk /\ fd' = fd
        /\ tool.step = "chunk" /\ wr.phase = "idle"
    BY <1>5 DEF CopyChunk, WriteBegin, At, Quiet
  <2>3. (\E n : WriteBegin(ino, n)) \/ wr' = [wr EXCEPT !.got = "all"]
    BY <1>5 DEF CopyChunk
  <2>4. wr'.phase \notin {"block", "fill"}
    BY <1>0, <2>2, <2>3 DEF WriteBegin, Go, TypeOK, WriteCall
  <2>5. QED
    BY <1>3, <2>1, <2>2, <2>4
<1>6. ASSUME CopyAgain PROVE Target'
  <2>1. tool'.file = tool.file
    BY <1>0, <1>6, Updates DEF CopyAgain, Places
  <2>2. QED
    BY <1>3, <1>6, <2>1 DEF CopyAgain, At, Quiet, fsvars
<1>7. ASSUME CopyWrite PROVE Target'
  <2>1. /\ tool.step = "write" /\ WriteStep /\ tool' = tool
        /\ disk' = disk /\ wr.phase # "idle" /\ wr'.h = wr.h /\ wr.h = ino
    BY <1>0, <1>7, WriteFrame DEF CopyWrite, Course
  <2>2. /\ Match(disk, tool.file[1], tool.file[2]) = {}
        /\ fd[ino].slot \in Slot
        /\ IsOf(dir[fd[ino].slot], tool.file)
        /\ wr.phase \in {"block", "fill"} => IsOf(dir[wr.extent], tool.file)
    BY <2>1 DEF Target
  <2>3. IsOf(Own, tool.file)
    BY <2>1, <2>2 DEF Own
  <2>4. /\ \A s \in Slot : IsOf(dir[s], tool.file) => IsOf(dir'[s], tool.file)
        /\ fd'[wr.h].slot = fd[wr.h].slot
        /\ wr'.phase \in {"block", "fill"} => IsOf(dir'[wr'.extent], tool.file)
    BY <1>0, <2>1, <2>2, <2>3, WriteAim
  <2>5. Match(disk', tool'.file[1], tool'.file[2]) = {}
    BY <2>1, <2>2 DEF Match
  <2>6. IsOf(dir'[fd'[ino].slot], tool.file) /\ fd'[ino].slot \in Slot
    BY <2>1, <2>2, <2>4
  <2>7. QED
    BY <1>0, <2>1, <2>4, <2>5, <2>6 DEF Target
<1>8. ASSUME UNCHANGED toolvars PROVE Target'
  <2>1. CASE tool.step \in {"open", "chunk", "write"}
    BY <1>0, <1>8, <2>1 DEF toolvars, Target, Match
  <2>2. CASE tool.step \notin {"open", "chunk", "write"}
    BY <1>1, <1>8, <2>2 DEF toolvars
  <2>3. QED
    BY <2>1, <2>2
<1>9. ASSUME \E prog, text : Start(prog, text)
      PROVE  Target'
  BY <1>1, <1>9 DEF Start, NoTool
<1>10. ASSUME NextArg, tool.args > 0
       PROVE  Target'
  <2>1. tool'.step = "args"
    BY <1>0, <1>10, Updates
  <2>2. QED
    BY <1>1, <2>1
<1>11. ASSUME NEW f \in Files, CopyCreatHalf(f) \/ Remove(f)
       PROVE  Target'
  BY <1>10, <1>11 DEF CopyCreatHalf, Remove, Arg
<1>12. ASSUME NEW f \in Files, LookUp(f)
       PROVE  Target'
  BY <1>0, <1>1, <1>12, Updates, ZenonT(30) DEF LookUp, Places
<1>13. ASSUME CopyDone \/ CopyFailed \/ ChangeAttr
       PROVE  Target'
  BY <1>0, <1>10, <1>13 DEF CopyDone, CopyFailed, ChangeAttr, At, Course
<1>14. ASSUME Leave \/ SyncLast \/ Die
       PROVE  Target'
  BY <1>1, <1>14 DEF Leave, SyncLast, Die, Gone, NoTool
<1>15. ASSUME Umount
       PROVE  Target'
  BY <1>0, <1>1, <1>15, Updates, ZenonT(30) DEF Umount, Places
<1>16. ASSUME SyncSector
       PROVE  Target'
  <2>1. tool.step = "sync" /\ tool.sec < LastDirSec
        /\ tool' = [tool EXCEPT !.sec = tool.sec + 1]
    BY <1>16 DEF SyncSector
  <2>2. tool'.step = "sync"
    <3>1. IsTool(tool', tool.prog, tool.step, tool.args, tool.file,
                 tool.sec + 1)
      BY <1>0, <2>1, Updates
    <3>2. QED
      BY <2>1, <3>1 DEF IsTool
  <2>3. QED
    BY <1>1, <2>2
<1>17. QED
  BY <1>2, <1>4, <1>5, <1>6, <1>7, <1>8, <1>9, <1>11, <1>12, <1>13, <1>14,
     <1>15, <1>16
     DEF ToolsNext, ToolStep

\* cpmWrite fills a block of the new file, which no file of the image has.
LEMMA TargetSafe ==
  ASSUME Regular, SessionInv, Target
  PROVE  OldFilesAreSafe
<1> SUFFICES ASSUME wr.phase = "fill", NEW s \in FileSlots(disk),
                    dir[wr.extent].ptr[PtrAt(Pos)] \in Refs(disk[s])
             PROVE  FALSE
  BY DEF OldFilesAreSafe
<1>1. TypeOK /\ Course /\ Between /\ NotShared(dir)
  BY DEF SessionInv, Owned, BlocksAreOwned
<1>2. /\ tool.prog = "cpmcp" /\ tool.step = "write" /\ tool.file \in Files
      /\ wr.extent \in Slot /\ Pos \in Nat
  BY <1>1, WriteLocals DEF Course
<1>3. /\ Match(disk, tool.file[1], tool.file[2]) = {}
      /\ IsOf(dir[wr.extent], tool.file)
  BY <1>2 DEF Target
<1>4. tool.file[1] <= MaxFileUser /\ tool.file[1] <= MaxStatus
  BY <1>2, UserStatus DEF Files
<1>5. wr.extent \in FileSlots(dir) /\ PtrAt(Pos) \in PtrIx
  BY <1>2, <1>3, <1>4, PtrAtType DEF FileSlots, IsOf
<1>6. PICK j \in PtrIx : /\ disk[s].ptr[j] # 0
                         /\ disk[s].ptr[j] = dir[wr.extent].ptr[PtrAt(Pos)]
  BY DEF Refs
<1>7. /\ s \in FileSlots(dir) /\ SameExtent(disk[s], dir[s])
      /\ dir[s].ptr[j] = disk[s].ptr[j]
  BY <1>1, <1>2, <1>6 DEF Between, Within, Grown
<1>8. s = wr.extent
  BY <1>1, <1>5, <1>6, <1>7, NotSharedUse
<1>9. disk[s].status = tool.file[1] /\ disk[s].name = tool.file[2] /\ s \in Slot
  BY <1>2, <1>3, <1>7, <1>8 DEF SameExtent, IsOf
<1>10. s \in Match(disk, tool.file[1], tool.file[2])
  BY <1>4, <1>9 DEF Match
<1>11. QED
  BY <1>3, <1>10

\* Whatever dies while cpmcp writes, the files that were on the image keep
\* their data: no byte of it is ever written over.
THEOREM OldFilesStaySafe ==
  ASSUME Regular, ~MpmDates
  PROVE  ToolsSpec => []OldFilesAreSafe
<1>1. ToolsInit => SessionInv /\ Target
  BY SessionInit DEF ToolsInit, NoTool, Target
<1>2. SessionInv /\ Target /\ [ToolsNext]_toolvars => SessionInv' /\ Target'
  BY SessionStep, TargetStep
<1>3. SessionInv /\ Target => OldFilesAreSafe
  BY TargetSafe
<1>4. QED
  BY <1>1, <1>2, <1>3, PTL DEF ToolsSpec

-----------------------------------------------------------------------------
(* The allocation vector                                                   *)

\* It is exact at each step of cpmWrite as well.
Exact == alv = AlvInit(dir)

\* Entries that hold the same blocks
SameBlocks(d, e) ==
  \A s \in Slot :
    \/ /\ d[s].status <= MaxStatus <=> e[s].status <= MaxStatus
       /\ e[s].ptr = d[s].ptr
    \/ ~(d[s].status <= MaxStatus) /\ e[s].ptr = ZeroPtrs

LEMMA AlvSame ==
  ASSUME NEW d, NEW e, SameBlocks(d, e)
  PROVE  AlvInit(e) = AlvInit(d)
<1>1. Refs([ptr |-> ZeroPtrs]) = {}
  BY DEF Refs, ZeroPtrs
<1>2. ASSUME NEW s \in Slot, NEW b
      PROVE  /\ d[s].status <= MaxStatus /\ b \in Refs(d[s])
             <=> e[s].status <= MaxStatus /\ b \in Refs(e[s])
  BY DEF SameBlocks, Refs, ZeroPtrs
<1>3. QED
  BY <1>2 DEF AlvInit

LEMMA FreeNotTaken == ~(Free <= MaxStatus)
  BY Geometry

LEMMA WriteExact ==
  ASSUME TypeOK, Regular, ~MpmDates, Place, WriteStep, Exact,
         wr.phase \in {"block", "fill"} =>
           dir[wr.extent].status <= MaxStatus
  PROVE  Exact'
<1>0. wr.phase # "idle" /\ dir \in [Slot -> Entry]
  BY WriteFrame DEF TypeOK
<1>1. CASE dir' = dir /\ alv' = alv
  BY <1>1 DEF Exact, AlvInit
<1>2. CASE ExtentAdded
  <2>1. PICK s \in FreeSlots(dir) :
          dir' = [dir EXCEPT ![s] = Extended(Own, Pos \div Logical)]
    BY <1>2 DEF ExtentAdded, Restamped, Firsts
  <2>2. \A t \in Slot : IF t = s THEN dir'[t].ptr = ZeroPtrs
                                 ELSE dir'[t] = dir[t]
    BY <1>0, <2>1 DEF Extended
  <2>3. ~(dir[s].status <= MaxStatus)
    BY FreeNotTaken DEF FreeSlots
  <2>4. SameBlocks(dir, dir')
    BY <2>2, <2>3 DEF SameBlocks
  <2>5. QED
    BY <1>2, <2>4, AlvSame DEF ExtentAdded, Exact
<1>3. CASE BlockAllocated
  <2>1. PICK b \in Block :
          /\ b \notin alv /\ alv' = alv \cup {b}
          /\ dir' = [dir EXCEPT ![wr.extent].ptr[PtrAt(Pos)] = b]
    BY <1>3 DEF BlockAllocated, Restamped, Firsts
  <2>2. /\ dir[wr.extent] \in Entry /\ PtrAt(Pos) \in PtrIx
        /\ wr.extent \in Slot
        /\ wr.phase = "block"
    BY <1>0, <1>3, WriteLocals, PtrAtType DEF BlockAllocated
  <2> DEFINE i == PtrAt(Pos)
             new == [dir[wr.extent] EXCEPT !.ptr[i] = b]
  <2>3. dir[wr.extent].ptr[i] = 0
    BY <1>3 DEF BlockAllocated, Cell
  <2> HIDE DEF i
  <2>4. i \in PtrIx /\ b \in Nat
    BY <2>1, <2>2 DEF i, Block
  <2>5. /\ new.status = dir[wr.extent].status
        /\ \A j \in PtrIx : new.ptr[j] = IF j = i THEN b
                                         ELSE dir[wr.extent].ptr[j]
    BY <2>2, <2>4, PtrSetFields
  <2>6. dir' = [dir EXCEPT ![wr.extent] = new]
    BY <2>1 DEF i
  <2> HIDE DEF new
  <2>7. \A t \in Slot : dir'[t] = IF t = wr.extent THEN new ELSE dir[t]
    BY <1>0, <2>6
  <2>8. b # 0
    <3>1. 0 \in AlvInit(dir)
      BY Geometry DEF AlvInit
    <3>2. QED
      BY <2>1, <3>1 DEF Exact
  <2>9. Refs(new) = Refs(dir[wr.extent]) \cup {b}
    <3>1. i \in PtrIx
      BY <2>2 DEF i
    <3>2. QED
      BY <2>3, <2>5, <2>8, <3>1 DEF Refs
  <2>10. dir[wr.extent].status <= MaxStatus
    BY <2>2
  <2>11. AlvInit(dir') = AlvInit(dir) \cup {b}
    <3>1. \A c : (\E t \in Slot : /\ dir'[t].status <= MaxStatus
                                  /\ c \in Refs(dir'[t]))
                 <=> \/ c = b
                     \/ \E t \in Slot : /\ dir[t].status <= MaxStatus
                                        /\ c \in Refs(dir[t])
      BY <2>2, <2>5, <2>7, <2>9, <2>10
    <3>2. QED
      BY <3>1 DEF AlvInit
  <2>12. QED
    BY <2>1, <2>11 DEF Exact
<1>4. CASE Filled
  <2>1. PICK extno, pos :
          dir' = [dir EXCEPT ![wr.extent] = Recorded(dir[wr.extent], extno, pos)]
    BY <1>4 DEF Filled, Restamped
  <2>2. \A s \in Slot : /\ dir'[s].ptr = dir[s].ptr
                        /\ dir'[s].status = dir[s].status
    BY <1>0, <2>1 DEF Recorded
  <2>3. SameBlocks(dir, dir')
    BY <2>2 DEF SameBlocks
  <2>4. QED
    BY <1>4, <2>3, AlvSame DEF Filled, Exact
<1>5. QED
  BY <1>1, <1>2, <1>3, <1>4 DEF WriteStep, ExtentFound, ExtentDenied,
                                BlockFound, BlockUnreadable, BlockDenied

LEMMA ExactStep ==
  ASSUME Regular, ~MpmDates, SessionInv, Target, Exact, [ToolsNext]_toolvars
  PROVE  Exact'
<1>0. /\ TypeOK /\ Course /\ Place /\ ino \in Handles
      /\ dir \in [Slot -> Entry]
  BY InoType DEF SessionInv, Owned, UniqueInv, TypeOK
<1>1. ASSUME dir' = dir, alv' = alv PROVE Exact'
  BY <1>1 DEF Exact, AlvInit
<1>2. ASSUME NEW prog, NEW text, Start(prog, text) PROVE Exact'
  BY <1>1, <1>2 DEF Start, fsvars
<1>3. ASSUME NEW f \in Files, CopyCreat(f) \/ CopyCreatHalf(f)
      PROVE  Exact'
  <2>1. PICK u \in Users, n \in Names :
          \/ CreatPlain(ino, u, n) \/ CreatWithXfcb(ino, u, n)
          \/ CreatHalf(ino, u, n)
    BY <1>3 DEF CopyCreat, CopyCreatHalf, Files
  <2>2. alv' = alv
    BY <1>0, <2>1, CreatEffect
  <2>3. PICK s \in Slot : /\ dir[s].status = Free
                          /\ dir' = [dir EXCEPT ![s] = NewEntry(u, n)]
    BY <1>0, <2>1, CreatEffect
  <2>4. \A t \in Slot : IF t = s THEN dir'[t].ptr = ZeroPtrs
                                 ELSE dir'[t] = dir[t]
    BY <1>0, <2>3 DEF NewEntry
  <2>5. SameBlocks(dir, dir')
    BY <2>3, <2>4, FreeNotTaken DEF SameBlocks
  <2>6. QED
    BY <2>2, <2>5, AlvSame DEF Exact
<1>4. ASSUME NEW f \in Files, Remove(f) PROVE Exact'
  BY <1>4 DEF Remove, Unlink, Exact, AlvInit
<1>5. ASSUME NEW f \in Files, LookUp(f) PROVE Exact'
  BY <1>1, <1>5 DEF LookUp, Namei
<1>6. CASE CopyOpen
  BY <1>1, <1>6 DEF CopyOpen, Open
<1>7. CASE CopyChunk
  BY <1>1, <1>7 DEF CopyChunk, WriteBegin
<1>8. CASE CopyWrite
  <2>1. /\ WriteStep /\ wr.phase # "idle" /\ tool.step = "write"
        /\ tool.file \in Files
    BY <1>0, <1>8, WriteFrame DEF CopyWrite, Course
  <2>2. tool.file[1] <= MaxStatus
    BY <2>1, UserStatus DEF Files
  <2>3. wr.phase \in {"block", "fill"} => dir[wr.extent].status <= MaxStatus
    BY <2>1, <2>2 DEF Target, IsOf
  <2>4. QED
    BY <1>0, <2>1, <2>3, WriteExact
<1>9. CASE CopyAgain \/ CopyFailed \/ Umount
  BY <1>1, <1>9 DEF CopyAgain, CopyFailed, Umount, fsvars
<1>10. CASE CopyDone
  BY <1>1, <1>10 DEF CopyDone, Utime, Restamped, fsvars
<1>11. CASE ChangeAttr
  <2>1. PICK a : AttrSet(ino, a)
    BY <1>11 DEF ChangeAttr, Chmod
  <2>2. SameBlocks(dir, dir') /\ alv' = alv
    BY <1>0, <2>1, AttrSetEffect DEF SameBlocks
  <2>3. QED
    BY <2>2, AlvSame DEF Exact
<1>12. CASE SyncSector
  BY <1>1, <1>12 DEF SyncSector
<1>13. CASE Leave \/ SyncLast \/ Die
  <2>1. dir' = disk' /\ alv' = AlvInit(disk')
    BY <1>13 DEF Leave, SyncLast, Die, Gone, Mount
  <2>2. QED
    BY <2>1 DEF Exact, AlvInit
<1>14. CASE UNCHANGED toolvars
  BY <1>1, <1>14 DEF toolvars
<1>15. QED
  BY <1>2, <1>3, <1>4, <1>5, <1>6, <1>7, <1>8, <1>9, <1>10, <1>11, <1>12,
     <1>13, <1>14
     DEF ToolsNext, ToolStep

\* No block is lost, and none that is in use is free: at each step of a session
\* the allocation vector is what cpmReadSuper would make of the directory.
THEOREM VectorExact ==
  ASSUME Regular, ~MpmDates
  PROVE  ToolsSpec => []AlvExact
<1>1. ASSUME ToolsInit PROVE SessionInv /\ Target /\ Exact
  <2>1. SessionInv
    BY <1>1, SessionInit
  <2>2. Target
    BY <1>1 DEF ToolsInit, NoTool, Target
  <2>3. dir = disk /\ alv = AlvInit(disk)
    BY <1>1 DEF ToolsInit, Init
  <2>4. Exact
    BY <2>3 DEF Exact, AlvInit
  <2>5. QED
    BY <2>1, <2>2, <2>4
<1>2. SessionInv /\ Target /\ Exact /\ [ToolsNext]_toolvars
        => SessionInv' /\ Target' /\ Exact'
  BY SessionStep, TargetStep, ExactStep
<1>3. Exact => AlvExact
  BY DEF Exact, AlvExact
<1>4. QED
  BY <1>1, <1>2, <1>3, PTL DEF ToolsSpec

-----------------------------------------------------------------------------
(* Copied files                                                            *)

\* What has changed in the buffer is on its way to the image, and cpmSync has
\* written the sectors it is past.
Saved ==
  /\ ~dirty => dir = disk /\ tool.step \in {"args", "attr"}
  /\ tool.step = "sync" =>
       \A s \in Slot : s \div PerSec < tool.sec => disk[s] = dir[s]

\* No entry of a file changes hands.
Carries(d, e) ==
  \A s \in Slot : d[s].status <= MaxStatus =>
                    e[s].status = d[s].status /\ e[s].name = d[s].name

LEMMA CarriesMatch ==
  ASSUME NEW d, NEW e, Carries(d, e), NEW u, NEW n, Match(d, u, n) # {}
  PROVE  Match(e, u, n) # {}
<1>1. PICK s \in Slot : /\ d[s].status <= MaxStatus /\ d[s].status = u
                        /\ d[s].name = n
  BY DEF Match
<1>2. s \in Match(e, u, n)
  BY <1>1 DEF Carries, Match
<1>3. QED
  BY <1>2

LEMMA CopiesCarried ==
  ASSUME CopiesStay, copied' = copied, Carries(dir, dir')
  PROVE  CopiesStay'
<1> SUFFICES ASSUME NEW f \in Files, copied'[f] # None
             PROVE  Match(dir', f[1], f[2]) # {}
  BY DEF CopiesStay, None, Match
<1>1. Match(dir, f[1], f[2]) # {}
  BY DEF CopiesStay
<1>2. QED
  BY <1>1, CarriesMatch

LEMMA AddedCarries ==
  ASSUME NEW d, NEW e, Added(d, e)
  PROVE  Carries(d, e)
  BY FreeNotTaken DEF Added, Grown, SameExtent, Carries

\* The slots in order, by sectors
LEMMA SectorOfSlot ==
  ASSUME NEW s \in Slot
  PROVE  s \div PerSec \in 0 .. LastDirSec
<1>1. PerSec \in Nat \ {0} /\ MaxDir \in Nat \ {0} /\ s \in 0 .. MaxDir - 1
  BY Tools, Geometry DEF Slot
<1>2. /\ MaxDir - 1 = PerSec * LastDirSec + ((MaxDir - 1) % PerSec)
      /\ (MaxDir - 1) % PerSec < PerSec
  <2>1. ASSUME NEW a \in Nat, NEW b \in Nat \ {0}
        PROVE  a = b * (a \div b) + (a % b) /\ a % b < b
    BY <2>1, Z3
  <2>2. MaxDir - 1 \in Nat
    BY <1>1
  <2>3. QED
    BY <1>1, <2>1, <2>2 DEF LastDirSec
<1>3. LastDirSec \in Nat
  BY Tools, <1>1
<1>4. s < PerSec * LastDirSec + PerSec /\ PerSec * LastDirSec \in Nat
  BY <1>1, <1>2, <1>3
<1>5. PerSec * LastDirSec + PerSec = (LastDirSec + 1) * PerSec
  BY <1>1, <1>3
<1>6. s \div PerSec < LastDirSec + 1
  BY <1>1, <1>3, <1>4, <1>5, DivLess
<1>7. s \div PerSec \in Nat
  BY <1>1, DivMod
<1>8. QED
  BY <1>3, <1>6, <1>7

\* After its last round cpmSync has written the whole directory.
LEMMA SyncWrites ==
  ASSUME TypeOK, Course, Saved, tool.step = "sync"
  PROVE  /\ \A s \in Slot : s \div PerSec < tool.sec + 1 => Synced[s] = dir[s]
         /\ tool.sec = LastDirSec => Synced = dir
<1>0. tool.sec \in Nat /\ dir \in [Slot -> Entry]
  BY ToolFields DEF TypeOK, Course, ToolsTypeOK
<1>1. ASSUME NEW s \in Slot, s \div PerSec < tool.sec + 1
      PROVE  Synced[s] = dir[s]
  <2>1. s \div PerSec \in Nat
    BY SectorOfSlot, Tools
  <2>2. s \div PerSec = tool.sec \/ s \div PerSec < tool.sec
    BY <1>0, <1>1, <2>1
  <2>3. QED
    BY <2>2 DEF Synced, Saved
<1>2. ASSUME tool.sec = LastDirSec PROVE Synced = dir
  <2>1. \A s \in Slot : Synced[s] = dir[s]
    BY <1>0, <1>1, <1>2, SectorOfSlot
  <2>2. QED
    BY <1>0, <2>1 DEF Synced
<1>3. QED
  BY <1>1, <1>2

LEMMA SavedStays ==
  ASSUME Regular, ~MpmDates, SessionInv, Saved, [ToolsNext]_toolvars
  PROVE  Saved'
<1>0. /\ TypeOK /\ Course /\ ToolsTypeOK /\ ino \in Handles
      /\ TypeOK' /\ tool'.sec \in Nat
      /\ \A prog, step, args, file, sec :
           IsTool(tool', prog, step, args, file, sec)
             => tool'.step = step /\ tool'.sec = sec
  <2>1. TypeOK /\ Course /\ ToolsTypeOK /\ ino \in Handles
    BY InoType DEF SessionInv, Owned, Course
  <2>2. TypeOK' /\ Course'
    BY <2>1, ToolsTypeStep, CourseStep
  <2>3. tool'.sec \in Nat
    BY <2>2 DEF Course, ToolsTypeOK, Tool
  <2>4. QED
    BY <2>1, <2>2, <2>3 DEF IsTool
<1>1. ASSUME dirty', tool'.step # "sync" PROVE Saved'
  BY <1>1 DEF Saved
<1>2. ASSUME dir' = disk', tool'.step = "args" PROVE Saved'
  BY <1>2 DEF Saved
<1>3. ASSUME tool.step # "sync", tool'.step \in {"args", "attr"},
             dir' = dir, disk' = disk, dirty' = dirty
      PROVE  Saved'
  BY <1>3 DEF Saved
<1>4. ASSUME NextArg, tool.args > 0 PROVE tool'.step = "args"
  BY <1>0, <1>4, Updates
<1>5. ASSUME NEW prog, NEW text, Start(prog, text) PROVE Saved'
  <2>1. tool.step # "sync" /\ tool'.step = "args"
    BY <1>0, <1>5 DEF Start, Course, NoTool
  <2>2. QED
    BY <1>3, <1>5, <2>1 DEF Start, fsvars
<1>6. ASSUME NEW f \in Files, CopyCreat(f) \/ CopyCreatHalf(f)
      PROVE  Saved'
  <2>1. dirty'
    BY <1>6 DEF CopyCreat, CopyCreatHalf, CreatPlain, CreatWithXfcb, CreatHalf
  <2>2. tool'.step # "sync"
    <3>1. CASE CopyCreat(f)
      BY <1>0, <3>1, Updates DEF CopyCreat, Places
    <3>2. CASE CopyCreatHalf(f)
      BY <1>4, <3>2 DEF CopyCreatHalf, Arg
    <3>3. QED
      BY <1>6, <3>1, <3>2
  <2>3. QED
    BY <1>1, <2>1, <2>2
<1>7. ASSUME NEW f \in Files, Remove(f) PROVE Saved'
  BY <1>1, <1>4, <1>7 DEF Remove, Unlink, Arg
<1>8. ASSUME NEW f \in Files, LookUp(f) PROVE Saved'
  <2>1. tool.step = "args" /\ tool'.step = "attr"
    BY <1>0, <1>8, Updates DEF LookUp, At, Places
  <2>2. QED
    BY <1>3, <1>8, <2>1 DEF LookUp, Namei
<1>9. ASSUME tool.step \in {"open", "chunk", "write"}, dirty => dirty',
             tool'.step # "sync"
      PROVE  Saved'
  BY <1>1, <1>9 DEF Saved
<1>10. ASSUME CopyOpen PROVE Saved'
  <2>1. tool'.step = "chunk"
    BY <1>0, <1>10, Updates DEF CopyOpen, Places
  <2>2. QED
    BY <1>9, <1>10, <2>1 DEF CopyOpen, Open, At
<1>11. ASSUME CopyChunk PROVE Saved'
  <2>1. tool'.step = "write"
    BY <1>0, <1>11, Updates DEF CopyChunk, Places
  <2>2. QED
    BY <1>9, <1>11, <2>1 DEF CopyChunk, WriteBegin, At
<1>12. ASSUME CopyWrite PROVE Saved'
  <2>1. tool' = tool /\ tool.step = "write" /\ (dirty => dirty')
    BY <1>0, <1>12, WriteDirty DEF CopyWrite
  <2>2. QED
    BY <1>9, <2>1
<1>13. ASSUME CopyAgain PROVE Saved'
  <2>1. tool'.step = "chunk"
    BY <1>0, <1>13, Updates DEF CopyAgain, Places
  <2>2. QED
    BY <1>9, <1>13, <2>1 DEF CopyAgain, fsvars, At
<1>14. ASSUME CopyDone \/ CopyFailed PROVE Saved'
  <2>1. tool.step = "write" /\ tool'.step = "args"
    BY <1>0, <1>4, <1>14 DEF CopyDone, CopyFailed, At, Course
  <2>2. dirty => dirty'
    BY <1>14 DEF CopyDone, CopyFailed, Utime, fsvars
  <2>3. QED
    BY <1>9, <2>1, <2>2
<1>15. ASSUME ChangeAttr PROVE Saved'
  <2>1. tool'.step = "args"
    BY <1>0, <1>4, <1>15 DEF ChangeAttr, At, Course
  <2>2. dirty'
    BY <1>15 DEF ChangeAttr, Chmod, AttrSet
  <2>3. QED
    BY <1>1, <2>1, <2>2
<1>16. ASSUME Leave \/ SyncLast \/ Die PROVE Saved'
  <2>1. dir' = disk' /\ tool'.step = "args"
    BY <1>16 DEF Leave, SyncLast, Die, Gone, Mount, NoTool
  <2>2. QED
    BY <1>2, <2>1
<1>17. ASSUME Umount PROVE Saved'
  <2>1. tool.sec = 0 /\ tool'.step = "sync" /\ tool'.sec = tool.sec /\ dirty'
    BY <1>0, <1>17, Updates DEF Umount, Course, fsvars, Places
  <2>2. \A s \in Slot : ~(s \div PerSec < 0)
    BY SectorOfSlot, Tools
  <2>3. QED
    BY <2>1, <2>2 DEF Saved
<1>18. ASSUME SyncSector PROVE Saved'
  <2>1. /\ tool.step = "sync" /\ tool.sec < LastDirSec
        /\ tool' = [tool EXCEPT !.sec = tool.sec + 1]
        /\ disk' = Synced /\ dir' = dir /\ dirty' = dirty
    BY <1>18 DEF SyncSector
  <2>2. tool'.step = "sync" /\ tool'.sec = tool.sec + 1
    <3>1. IsTool(tool', tool.prog, tool.step, tool.args, tool.file,
                 tool.sec + 1)
      BY <1>0, <2>1, Updates
    <3>2. QED
      BY <2>1, <3>1 DEF IsTool
  <2>3. dirty
    BY <2>1 DEF Saved
  <2>4. QED
    BY <1>0, <2>1, <2>2, <2>3, SyncWrites DEF Saved
<1>19. ASSUME UNCHANGED toolvars PROVE Saved'
  BY <1>19 DEF toolvars, Saved
<1>20. QED
  BY <1>5, <1>6, <1>7, <1>8, <1>10, <1>11, <1>12, <1>13, <1>14, <1>15, <1>16,
     <1>17, <1>18, <1>19
     DEF ToolsNext, ToolStep

LEMMA CopiesStep ==
  ASSUME Regular, ~MpmDates, SessionInv, Target, Saved, CopiesStay,
         [ToolsNext]_toolvars
  PROVE  CopiesStay'
<1>0. /\ TypeOK /\ Course /\ Place /\ ToolsTypeOK /\ ino \in Handles
      /\ dir \in [Slot -> Entry]
  BY InoType DEF SessionInv, Owned, UniqueInv, Course, TypeOK
<1>1. ASSUME dir' = dir, copied' = copied PROVE CopiesStay'
  BY <1>1, CopiesCarried DEF Carries
<1>2. ASSUME NEW prog, NEW text, Start(prog, text) PROVE CopiesStay'
  BY <1>1, <1>2 DEF Start, fsvars
<1>3. ASSUME NEW f \in Files, CopyCreat(f) \/ CopyCreatHalf(f)
      PROVE  CopiesStay'
  <2>1. PICK u \in Users, n \in Names :
          \/ CreatPlain(ino, u, n) \/ CreatWithXfcb(ino, u, n)
          \/ CreatHalf(ino, u, n)
    BY <1>3 DEF CopyCreat, CopyCreatHalf, Files
  <2>2. PICK s \in Slot : /\ dir[s].status = Free
                          /\ dir' = [dir EXCEPT ![s] = NewEntry(u, n)]
    BY <1>0, <2>1, CreatEffect
  <2>3. \A t \in Slot : t = s \/ dir'[t] = dir[t]
    BY <1>0, <2>2
  <2>4. Carries(dir, dir')
    BY <2>2, <2>3, FreeNotTaken DEF Carries
  <2>5. QED
    BY <1>3, <2>4, CopiesCarried DEF CopyCreat, CopyCreatHalf
<1>4. ASSUME NEW f \in Files, Remove(f) PROVE CopiesStay'
  <2>1. PICK u \in Users, n \in Names : u = f[1] /\ n = f[2] /\ f = <<u, n>>
    BY DEF Files
  <2>2. Unlink(u, n) /\ copied' = [copied EXCEPT ![f] = None]
    BY <1>4, <2>1 DEF Remove
  <2>3. PICK gone :
          /\ gone \subseteq Match(dir, u, n)
               \cup (IF HasXfcbs THEN Match(dir, u + 16, n) ELSE {})
          /\ Erased(gone)
    BY <2>2 DEF Unlink, Firsts
  <2> SUFFICES ASSUME NEW g \in Files, copied'[g] # None
               PROVE  Match(dir', g[1], g[2]) # {}
    BY DEF CopiesStay, None, Match
  <2>4. g # f /\ copied[g] # None
    BY <1>0, <2>2 DEF ToolsTypeOK
  <2>5. PICK w \in Users, m \in Names : w = g[1] /\ m = g[2] /\ g = <<w, m>>
    BY DEF Files
  <2>6. PICK s \in Slot : /\ dir[s].status <= MaxStatus /\ dir[s].status = w
                          /\ dir[s].name = m
    BY <2>4, <2>5 DEF CopiesStay, Match
  <2>7. s \notin gone
    <3>1. s \notin Match(dir, u, n)
      BY <2>1, <2>4, <2>5, <2>6 DEF Match
    <3>2. HasXfcbs => s \notin Match(dir, u + 16, n)
      <4>1. HasXfcbs => w \in 0 .. 15 /\ u \in 0 .. 15
        BY DEF Regular
      <4>2. QED
        BY <2>6, <4>1 DEF Match
    <3>3. QED
      BY <2>3, <3>1, <3>2
  <2>8. dir'[s] = dir[s]
    BY <2>3, <2>7 DEF Erased
  <2>9. s \in Match(dir', w, m)
    BY <2>6, <2>8 DEF Match
  <2>10. QED
    BY <2>5, <2>9
<1>5. ASSUME NEW f \in Files, LookUp(f) PROVE CopiesStay'
  BY <1>1, <1>5 DEF LookUp, Namei
<1>6. CASE CopyOpen
  BY <1>1, <1>6 DEF CopyOpen, Open
<1>7. CASE CopyChunk
  BY <1>1, <1>7 DEF CopyChunk, WriteBegin
<1>8. CASE CopyWrite
  <2>1. WriteStep /\ copied' = copied
    BY <1>8 DEF CopyWrite
  <2>2. Added(dir, dir')
    BY <1>0, <2>1, WriteEffect DEF Added
  <2>3. QED
    BY <2>1, <2>2, AddedCarries, CopiesCarried
<1>9. CASE CopyAgain \/ CopyFailed \/ Umount
  BY <1>1, <1>9 DEF CopyAgain, CopyFailed, Umount, fsvars
<1>10. CASE CopyDone
  <2>1. /\ dir' = dir /\ tool.step = "write"
        /\ copied' = [copied EXCEPT ![tool.file] = fd[ino].pos]
    BY <1>10 DEF CopyDone, Utime, Restamped, fsvars, At
  <2>2. PICK u \in Users, n \in Names : u = tool.file[1] /\ n = tool.file[2]
    BY <1>0, <2>1 DEF Course, Files
  <2>3. fd[ino].slot \in Match(dir, u, n)
    <3>1. /\ fd[ino].slot \in Slot
          /\ dir[fd[ino].slot].status = u /\ dir[fd[ino].slot].name = n
      BY <2>1, <2>2 DEF Target, IsOf
    <3>2. u <= MaxStatus
      BY UserStatus
    <3>3. QED
      BY <3>1, <3>2 DEF Match
  <2> SUFFICES ASSUME NEW g \in Files, copied'[g] # None
               PROVE  Match(dir', g[1], g[2]) # {}
    BY DEF CopiesStay, None, Match
  <2>4. CASE g = tool.file
    BY <2>1, <2>2, <2>3, <2>4 DEF Match
  <2>5. CASE g # tool.file
    <3>1. copied[g] # None
      BY <1>0, <2>1, <2>5 DEF ToolsTypeOK
    <3>2. Match(dir, g[1], g[2]) # {}
      BY <3>1 DEF CopiesStay
    <3>3. QED
      BY <2>1, <3>2 DEF Match
  <2>6. QED
    BY <2>4, <2>5
<1>11. CASE ChangeAttr
  <2>1. PICK a : AttrSet(ino, a)
    BY <1>11 DEF ChangeAttr, Chmod
  <2>2. Carries(dir, dir')
    BY <1>0, <2>1, AttrSetEffect DEF Carries
  <2>3. QED
    BY <1>11, <2>2, CopiesCarried DEF ChangeAttr
<1>12. CASE SyncSector
  BY <1>1, <1>12 DEF SyncSector
<1>13. CASE Leave
  BY <1>1, <1>13 DEF Leave, Gone, Mount, Saved
<1>14. CASE SyncLast
  <2>1. disk' = Synced /\ dir' = disk' /\ copied' = copied
        /\ tool.step = "sync" /\ tool.sec = LastDirSec
    BY <1>14 DEF SyncLast, Gone, Mount
  <2>2. dir' = dir
    BY <1>0, <2>1, SyncWrites
  <2>3. QED
    BY <1>1, <2>1, <2>2
<1>15. CASE Die
  BY <1>15 DEF Die, Gone, CopiesStay
<1>16. CASE UNCHANGED toolvars
  BY <1>1, <1>16 DEF toolvars
<1>17. QED
  BY <1>2, <1>3, <1>4, <1>5, <1>6, <1>7, <1>8, <1>9, <1>10, <1>11, <1>12,
     <1>13, <1>14, <1>15, <1>16
     DEF ToolsNext, ToolStep

\* What cpmcp copied stays on the image: no later session costs it an entry
\* unless cpmrm is told to, and the blocks that cpmSync writes one after the
\* other add up to the directory in core.
THEOREM CopiesKept ==
  ASSUME Regular, ~MpmDates
  PROVE  ToolsSpec => []CopiesStay
<1> DEFINE Inv == SessionInv /\ Target /\ Saved /\ CopiesStay
<1>1. ASSUME ToolsInit PROVE Inv
  <2>1. SessionInv
    BY <1>1, SessionInit
  <2>2. Target /\ tool.step = "args" /\ \A f \in Files : copied[f] = None
    BY <1>1 DEF ToolsInit, NoTool, Target
  <2>3. dir = disk
    BY <1>1 DEF ToolsInit, Init
  <2>4. QED
    BY <2>1, <2>2, <2>3 DEF Saved, CopiesStay
<1>2. Inv /\ [ToolsNext]_toolvars => Inv'
  BY SessionStep, TargetStep, SavedStays, CopiesStep
<1>3. Inv => CopiesStay
  OBVIOUS
<1>4. QED
  BY <1>1, <1>2, <1>3, PTL DEF ToolsSpec

=============================================================================
