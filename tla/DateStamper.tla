---------------------------- MODULE DateStamper ----------------------------
(***************************************************************************)
(* The DateStamper table of an image: the file !!!TIME&.DAT in the first   *)
(* directory entry, whose blocks are those behind the directory.  They are *)
(* read by cpmCheckDs when the image is mounted and written by syncDs at   *)
(* the end of cpmSync, not through the file.                               *)
(*                                                                         *)
(* Abstracted: the three dates of a stamp are one byte, the time of a copy *)
(* is the version of the host file.                                        *)
(***************************************************************************)
EXTENDS CpmVolume

CONSTANTS
  DsName,    \* the name !!!TIME&.DAT
  DsPer,     \* stamps of a record; 8 in the code
  PerBlk     \* directory entries of a block, blksiz / 32

ASSUME StamperAssumption ==
  /\ DsName \in Names /\ DsPer \in Nat \ {0}
  /\ PerBlk \in Nat \ {0}

VARIABLES
  ds,        \* sb->ds, NoTable unless sb->type has CPMFS_DS_DATES
  dirtyDs    \* sb->dirtyDs

dsvars == <<dir, alv, dirty, disk, fd, wr, tool, copied, data, buf, host, made,
            ds, dirtyDs>>

DsRecLen == DsPer + 1                          \* the stamps and the checksum
DsRecs   == (MaxDir + DsPer - 1) \div DsPer
DsBlks   == (DsRecs * DsRecLen + BlkSiz - 1) \div BlkSiz
DsOffset == (MaxDir + PerBlk - 1) \div PerBlk    \* dsoffset
DsBytes  == 0 .. DsBlks * BlkSiz - 1
Tabled   == DsOffset .. DsOffset + DsBlks - 1    \* the blocks of the table
NoTable  == <<>>

\* where the stamp of an entry lies
StampAt(s) == (s \div DsPer) * DsRecLen + (s % DsPer)

Functions == INSTANCE Functions

Cksum(table, r) ==
  Functions!SumFunctionOnSet(table, r * DsRecLen .. r * DsRecLen + DsPer - 1)
    % 256

-----------------------------------------------------------------------------
(* cpmCheckDs, updateDsStamps, syncDs                                      *)

TableOf(blocks) ==
  [i \in DsBytes |-> blocks[DsOffset + i \div BlkSiz][i % BlkSiz]]

\* What a mount of directory d finds.
CheckDs(d, blocks) ==
  LET table == TableOf(blocks)
  IN IF /\ d[0].status = 0 /\ d[0].name = DsName
        /\ \A r \in 0 .. DsRecs - 1 :
             table[r * DsRecLen + DsPer] = Cksum(table, r)
     THEN table ELSE NoTable

\* fault: the mark of an earlier image stays
CheckDsStale == ds' = CheckDs(dir', data') /\ UNCHANGED dirtyDs

CheckDsMounted == ds' = CheckDs(dir', data') /\ dirtyDs' = FALSE

\* fault: the stamp of the inode's entry is set
UpdateFirst(s, version) ==
  /\ ds' = IF ds = NoTable THEN ds ELSE [ds EXCEPT ![StampAt(0)] = version]
  /\ dirtyDs' = (dirtyDs \/ ds # NoTable)

UpdateDsStamps(s, version) ==
  /\ ds' = IF ds = NoTable THEN ds ELSE [ds EXCEPT ![StampAt(s)] = version]
  /\ dirtyDs' = (dirtyDs \/ ds # NoTable)

Summed ==
  [i \in DsBytes |-> IF i % DsRecLen = DsPer /\ i \div DsRecLen < DsRecs
                     THEN Cksum(ds, i \div DsRecLen) ELSE ds[i]]

\* The blocks once syncDs has written the table up to byte end.
TableTo(end) ==
  [b \in Block |-> IF b \in Tabled
                   THEN [i \in Offset |->
                           LET at == (b - DsOffset) * BlkSiz + i
                           IN IF at < end THEN Summed[at] ELSE data[b][i]]
                   ELSE data[b]]

\* syncDs
SyncDs == data' = IF dirtyDs THEN TableTo(DsBlks * BlkSiz) ELSE data

\* where the sectors of the table begin
DsSectors == {n * SecLength : n \in 0 .. (DsBlks * BlkSiz - 1) \div SecLength}

-----------------------------------------------------------------------------
(* The steps of a session                                                  *)

StampedCreat == VolCreat /\ UpdateDsStamps(fd'[ino].slot, host')

\* cpmWrite stamps where it adds an extent or a block, and after each fill.
StampedWrite ==
  /\ VolWrite
  /\ IF wr.phase = "fill" \/ dir' # dir
     THEN UpdateDsStamps(IF wr.phase = "extent" THEN wr'.extent ELSE wr.extent, host)
     ELSE UNCHANGED <<ds, dirtyDs>>

\* With -p, cpmUtime stamps the entry of the inode.
StampedDone ==
  /\ VolDone
  /\ UpdateDsStamps(fd[ino].slot, host) \/ UNCHANGED <<ds, dirtyDs>>

\* The table is written after the directory.
StampedEnd == VolEnd /\ SyncDs /\ CheckDsMounted

\* The process dies in between, or a sector of the table can not be written.
DieUnstamped ==
  /\ tool.step = "sync" /\ tool.sec = LastDirSec
  /\ dirtyDs
  /\ disk' = Synced
  /\ Gone([f \in Files |-> None])
  /\ Finish("less")
  /\ buf' = NoBuf /\ host' = 0
  /\ made' = [f \in Files |-> 0]
  /\ \E end \in DsSectors : data' = TableTo(end)
  /\ CheckDsMounted

StampedDie == VolDie /\ CheckDsMounted

DsInit == VolInit /\ ds = CheckDs(dir, data) /\ dirtyDs = FALSE

DsNext ==
  \/ StampedCreat \/ StampedWrite \/ StampedDone \/ StampedEnd
  \/ (VolChunk \/ VolFailed \/ VolQuiet \/ VolRemove) /\ UNCHANGED <<ds, dirtyDs>>
  \/ DieUnstamped \/ StampedDie

DsSpec == DsInit /\ [][DsNext]_dsvars

-----------------------------------------------------------------------------
(* Correctness                                                             *)

DsTypeOK ==
  /\ VolTypeOK
  /\ ds = NoTable \/ ds \in [DsBytes -> Byte]
  /\ dirtyDs \in BOOLEAN
  /\ dirtyDs => ds # NoTable

\* The entry that cpmNamei finds for a copied file has the stamp of its copy,
\* in the same session and in every later one, as long as there is a table.
StampsFollow ==
  ds # NoTable =>
    \A f \in HostNames : \A s \in Lowest(dir, Match(dir, f[1], f[2])) :
      copied[f] # None => ds[StampAt(s)] = made[f]

=============================================================================
