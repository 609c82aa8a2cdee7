----------------------------- MODULE CpmVolume -----------------------------
(***************************************************************************)
(* The data blocks of an image under the sessions of CpmTools: what        *)
(* cpmWrite puts into its block buffer and on the image, and what cpmRead  *)
(* gets back.  Host files come in versions; byte p of version v differs    *)
(* from every other byte of every version.                                 *)
(***************************************************************************)
EXTENDS CpmTools, Sequences

CONSTANTS
  HostSize,    \* how many bytes of each host file go to CP/M
  HostFiles    \* pairs of a name and a host file that cpmcp copies to it

ASSUME VolumeAssumption ==
  /\ DOMAIN HostSize \subseteq Nat \ {0}
  /\ \A v \in DOMAIN HostSize : HostSize[v] \in Nat
  /\ HostFiles \subseteq Files \X DOMAIN HostSize
  /\ ~MakeXfcbs                    \* cpmCreat makes the file or fails

VARIABLES
  data,    \* what the blocks of the image hold
  buf,     \* buffer, start and end of the running cpmWrite
  host,    \* the host file that is being copied
  made     \* the host file that each file was copied from

volvars == <<dir, alv, dirty, disk, fd, wr, tool, copied, data, buf, host, made>>

Versions   == DOMAIN HostSize
HostNames  == {h[1] : h \in HostFiles}
Offset     == 0 .. BlkSiz - 1
Junk       == -1                         \* an uninitialised byte
HostByte(v, p) == v * (MaxPos + 1) + p
Byte       == {Junk} \cup 0 .. 255
LastSector == (BlkSiz - 1) \div SecLength
NoBuf      == [bytes |-> [i \in Offset |-> Junk], start |-> 0, end |-> 0]

VolTypeOK ==
  /\ ToolsTypeOK
  /\ DOMAIN data = Block /\ \A b \in Block : DOMAIN data[b] = Offset
  /\ buf \in [bytes : [Offset -> Byte], start : 0 .. LastSector,
              end : 0 .. LastSector]
  /\ host \in Versions \cup {0}
  /\ made \in [Files -> Versions \cup {0}]

-----------------------------------------------------------------------------
(* cpmWrite                                                                *)

\* The sectors of an existing block that the call touches.
Touched(pos, count) ==
  [start |-> (pos % BlkSiz) \div SecLength,
   end   |-> (IF (pos % BlkSiz) + count >= BlkSiz THEN BlkSiz - 1
              ELSE (pos % BlkSiz) + count - 1) \div SecLength]

\* fault: the sector in which the bytes begin is not read
ReadBeforeNone(pos, count) == {}

\* Those of them that are read first, because the call fills them partly.
\* Nothing is read when the bytes begin at a sector boundary and end in the
\* same sector.
ReadBefore(pos, count) ==
  LET t == Touched(pos, count)
  IN {s \in {t.start} : pos % SecLength # 0}
     \cup {s \in {t.end} : /\ t.end # t.start
                          /\ (pos % BlkSiz) + count < BlkSiz
                          /\ (pos + count) % SecLength # 0}

\* the buffer of a block that was allocated, and of one that was there
Cleared == [bytes |-> [i \in Offset |-> 0], start |-> 0, end |-> LastSector]
Loaded(pos, count) ==
  [bytes |-> [i \in Offset |->
                IF i \div SecLength \in ReadBefore(pos, count)
                THEN data[Cell][i] ELSE buf.bytes[i]],
   start |-> Touched(pos, count).start, end |-> Touched(pos, count).end]

Stuffed ==
  [i \in Offset |->
     IF /\ Pos % BlkSiz <= i
        /\ i < (Pos % BlkSiz) + Room(Pos, wr.count)
     THEN HostByte(host, Pos - (Pos % BlkSiz) + i)
     ELSE buf.bytes[i]]

\* writeBlock: whole sectors
Store ==
  data' = [data EXCEPT ![Cell] =
             [i \in Offset |-> IF i \div SecLength \in buf.start .. buf.end
                               THEN Stuffed[i] ELSE @[i]]]

VolWrite ==
  /\ tool.step = "write"
  /\ UNCHANGED <<tool, copied, host, made>>
  /\ \/ /\ \/ ExtentFound \/ ExtentAdded \/ ExtentDenied
           \/ BlockUnreadable \/ BlockDenied
        /\ UNCHANGED <<data, buf>>
     \/ BlockFound /\ buf' = Loaded(Pos, wr.count) /\ UNCHANGED data
     \/ BlockAllocated /\ buf' = Cleared /\ UNCHANGED data
     \/ Filled /\ Store /\ buf' = [buf EXCEPT !.bytes = Stuffed]

-----------------------------------------------------------------------------
(* the other steps of a session                                            *)

VolCreat ==
  /\ \E h \in HostFiles : CopyCreat(h[1]) /\ host' = h[2]
  /\ UNCHANGED <<data, buf, made>>

\* The buffer of a cpmWrite is one of its locals.
VolChunk ==
  /\ CopyChunk
  /\ LET pos == Pos' + wr'.count
     IN /\ pos <= HostSize[host]
        /\ tool'.eof => pos = HostSize[host]
        /\ tool.text /\ ~tool'.eof => pos < HostSize[host]
  /\ buf' = NoBuf
  /\ UNCHANGED <<data, host, made>>

VolDone ==
  /\ CopyDone
  /\ made' = [made EXCEPT ![tool.file] = host]
  /\ host' = 0 /\ buf' = NoBuf
  /\ UNCHANGED data

VolFailed == CopyFailed /\ host' = 0 /\ buf' = NoBuf /\ UNCHANGED <<data, made>>

\* Steps that do not write to blocks.  cpmchattr and cpmchmod, which have no
\* others, are left out here.
VolQuiet ==
  /\ \/ CopyOpen \/ CopyAgain
     \/ Umount \/ SyncSector
     \/ \E text \in TextModes : Start("cpmcp", text)
     \/ Start("cpmrm", FALSE)
  /\ UNCHANGED <<data, buf, host, made>>

VolRemove ==
  /\ \E f \in Files : Remove(f) /\ made' = [made EXCEPT ![f] = 0]
  /\ UNCHANGED <<data, buf, host>>

\* cpmUmount
VolEnd ==
  /\ Leave \/ SyncLast
  /\ buf' = NoBuf /\ host' = 0
  /\ UNCHANGED made

VolDie ==
  /\ Die
  /\ buf' = NoBuf /\ host' = 0
  /\ made' = [f \in Files |-> 0]
  /\ UNCHANGED data

VolInit ==
  /\ ToolsInit
  /\ data = [b \in Block |-> [i \in Offset |-> 0]]
  /\ buf = NoBuf
  /\ host = 0
  /\ made = [f \in Files |-> 0]

-----------------------------------------------------------------------------
(* cpmRead                                                                 *)

\* The block that holds byte p of a file of directory d.
BlockAt(d, f, p) ==
  LET own == Firsts(MatchExtent(d, f[1], f[2], p \div Logical))
  IN {d[s].ptr[PtrAt(p)] : s \in own} \ {0}

NotThere == <<-2>>                      \* no file reads like this

\* What cpmNamei, cpmOpen and cpmRead give of a file.  Where there is no
\* extent or no block, a file reads as zeros.
Contents(d, f) ==
  LET high == Highest(d, Match(d, f[1], f[2]))
      size == SizeOf(d[CHOOSE s \in high : TRUE])
      read == [n \in 0 .. (size - 1) \div BlkSiz |-> BlockAt(d, f, n * BlkSiz)]
  IN IF high = {} THEN NotThere
     ELSE [i \in 1 .. size |->
             LET b == read[(i - 1) \div BlkSiz]
             IN IF b = {} THEN 0
                ELSE data[CHOOSE x \in b : TRUE][(i - 1) % BlkSiz]]

\* A file that cpmcp copied without a complaint reads as what was copied, for
\* as long as nobody removes it: no later session, however it ends, writes to
\* its blocks, and no partly filled sector takes bytes of the buffer along.
CopyIsFaithful ==
  \A f \in HostNames :
    copied[f] # None =>
      Contents(dir, f) = [i \in 1 .. copied[f] |-> HostByte(made[f], i - 1)]

\* The files of the image and of the running program are a file store.
Promise == INSTANCE FileStore WITH
  File   <- HostNames,
  Absent <- NotThere,
  live   <- [f \in HostNames |-> Contents(dir, f)],
  saved  <- [f \in HostNames |-> Contents(disk, f)]

IsFileStore == Promise!Spec

=============================================================================
