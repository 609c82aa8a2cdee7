# Verification of cpmtools3

cpmtools reads and writes CP/M disk images. Its programs share one library,
`src/src/cpmfs.c`, that reads the directory of an image into memory, works on
it there, writes data blocks at once and the directory when the image is
unmounted. This project models the library as a state machine, the programs as
sessions of calls on it, and the programs around it that make, check, list and
show images. It checks the models with TLC on small volumes and proves the
central invariants with TLAPS for volumes of every size.

Line numbers refer to `src/src/cpmfs.c` unless another file is named.

## Inventory

| part | state | operations | what makes it correct | modelled |
|---|---|---|---|---|
| core (`cpmfs.c`, `cpmfs.h`, `cpmdir.h`) | `dir[]`, `alv`, `dirtyDirectory`; `cpmInode` and `cpmFile` of callers; directory on the image | `cpmReadSuper`, `cpmNamei`, `cpmOpen`, `cpmCreat`, `cpmWrite`, `cpmUnlink`, `cpmRename`, `cpmAttrSet`, `cpmChmod`, `cpmUtime`, `cpmSync`, `cpmUmount` | no block belongs to two files or to a file and the directory; the allocation vector covers all blocks in use; a file has one entry per extent; a change is saved; a call on one file leaves the others alone | `CpmFS` |
| `cpmcp`, `cpmrm`, `cpmchattr`, `cpmchmod` | one inode, one file, the argument they work on | one session each | the image is sound whenever the program dies, a copy has the right size, attributes reach the whole file, the program ends | `CpmTools` |
| contents of files (1828-2087) | the block buffer of `cpmWrite`, the data blocks | `cpmRead`, `cpmWrite` | what was written is read back, now and in every later session | `CpmVolume`, `FileStore` |
| DateStamper (555, 1063, 1327) | `ds[]`, `dirtyDs`, blocks behind the directory | `cpmCheckDs`, `updateDsStamps`, `syncDs` | the stamps follow their files; the table does not go over anything else | `DateStamper` |
| native time stamps (493-642) | SFCB entries (CP/M 3), XFCB entries (MP/M) | `updateTimeStamps`, `readTimeStamps`, conversions | stamps of one file leave others alone; a conversion and its inverse agree | `Stamps`, `CpmFS` |
| disk definitions (775-1058, `cpmautofs.c`) | parameters of the superblock | `diskdefReadSuper`, `amsReadSuper`, `autoReadSuper` | a definition means the same wherever it stands | `DiskDefs` |
| geometry and sector I/O (371-453, 1114-1178, `device_posix.c`) | skew table, size, directory blocks | `cpmReadSuper`, `readBlock`, `writeBlock` | distinct blocks go to distinct sectors, reading and writing agree where | `Geometry` |
| names and patterns (87-158, 646-770) | none | `splitFilename`, `match`, `cpmglob` | a pattern selects what it describes | `Names`, `Listing` |
| `fsck.cpm` | the directory, what it says | two passes, questions, repairs | what it does not call broken is sound; a good file is never removed | `FsckRules`, `Fsck` |
| `mkfs.cpm` | the image | system tracks, directory, label, stamp file | the result mounts as an empty volume | `Mkfs` |
| `cpmls` | the names, the inode it looks at | globbing, sorting, listing | each file is listed once, with its own data | `Listing` |
| `fsed.cpm` | position, buffer | the keys | the sector shown is the one the position names | `Viewer` |
| text mode of `cpmcp` | two buffers, a pending return | both directions | texts survive the way to CP/M and back | `HostText` |
| libdsk and Win32 devices, getopt, build files | | | | no |

The parts interact by plain calls: there are no threads, callbacks or locks.
Programs share state only through the image. What is hard is therefore not
interleaving but

* the order of persistence: data first and directly, the directory last and
  sector by sector, with nothing that makes the two atomic (crashes);
* long sequences of legal calls on state kept twice (`dir` and `alv`, `dir` and
  the image, an inode and its entry, the DateStamper table and the entries whose
  index it is ordered by), with handles that outlive their files;
* calls that fail half way, for a full directory, a full disk or a bad read;
* sizes split over three fields that must agree at every boundary, sectors that
  are read and written in part, texts cut by buffers;
* files whose entries lie in any order, and entries that are not files
  (passwords, dates, labels) in the same table;
* the same arithmetic done twice in different ways: sectors of a block by
  `readBlock` and `writeBlock`, days by `unix2cpm_time` and `cpm2unix_time`,
  block counts by `cpmWrite` and `fsck.cpm`.

`PROJECT.json` lists the hazards at their lines.

## Modules

| module | extends | models |
|---|---|---|
| `CpmFS` | | the core: state, calls, `cpmWrite` in steps, mount, sync, crash |
| `FsckRules` | `CpmFS` | what `fsck.cpm` objects to in a directory |
| `CpmTools` | `FsckRules` | the four programs on `CpmFS`, session after session |
| `CpmVolume` | `CpmTools` | data blocks, the buffer of `cpmWrite`, `cpmRead` |
| `FileStore` | | abstract: what the programs promise of files |
| `DateStamper` | `CpmVolume` | the table of time stamps behind the directory |
| `Fsck` | `FsckRules` | sessions of `fsck.cpm` |
| `DiskDefs` | | the file `diskdefs` line by line; the boot sector of Amstrad disks |
| `Geometry` | `DiskDefs` | the mounted geometry, the places of blocks |
| `Viewer`, `Mkfs` | `Geometry` | `fsed.cpm`, `mkfs.cpm` |
| `Names` | | names and patterns as functions |
| `Listing` | `Geometry`, `Names` | `cpmglob` and `cpmls` |
| `HostText`, `Stamps` | | text conversion; time stamps as bytes |
| `Readers` | the last seven | mounting an image and one of these programs on it |
| `CpmFSProofs`, `DirectoryProofs` | `CpmFS`, and the first | theorems on the core |
| `CpmToolsProofs`, `SizeProofs` | `CpmTools` and `DirectoryProofs`, and the first | theorems on the programs; the second on sizes, `fsck.cpm` and attributes |
| `VolumeProofs` | `DateStamper` and `SizeProofs` | theorems on the contents of files |
| `FsckProofs` | `Fsck` and `CpmFSProofs` | theorems on `fsck.cpm` |
| `ReadersProofs` | `Readers` | theorems on definitions, geometry, `mkfs.cpm`, patterns, `cpmls`, `fsed.cpm`, text conversion and stamps |
| `Division` | | lemmas on quotients and remainders |
| `MCCpmFS`, `MCCpmTools`, `MCDateStamper`, `MCFsck`, `MCReaders` | | images, names, texts and times for TLC |

Definitions marked `fault` stand beside the ones they differ from by a plausible
mistake. No specification uses them; they show that a property would notice.

### CpmFS

Variables: `dir` (`sb->dir`), `alv` (the set of blocks whose bit is set),
`dirty` (`dirtyDirectory`), `disk` (the directory on the image), `fd` (inode and
file behind each handle), `wr` (the locals of a running `cpmWrite`).

An entry keeps its status, name, attributes, extent number, `blkcnt`, `lrc` and
pointers. Names are model values: upper and lower case, padding and bit 7 are
resolved before. The geometry, the bits of `type` and the label's
`cmakexfcbs` are constants, so one module covers CP/M 2.2, P2DOS, CP/M 3, MP/M
and ISX.

Each call is one action; a call that fails without changing anything is a
stuttering step. The exception is `cpmWrite`, whose rounds write data to the
image: `ExtentFound`/`ExtentAdded`/`ExtentDenied` are the branch at 1950,
`BlockFound`/`BlockUnreadable`/`BlockAllocated`/`BlockDenied` the one at 1976,
`Filled` the rest of the loop. No other call comes between, `Crash` may.

`cpmSync` writes the blocks of the directory in order (1368) and each block sector by
sector (435), so what is on the image when it stops is `Written(n)`, the first `n`
sectors of the new directory and the rest of the old one. `Sync` writes all of them,
`SyncFailed` returns -1 before the last one and leaves `dirtyDirectory` set, so that
it can be repeated. `Crash` is a death anywhere, in `cpmSync` too, and equally
`cpmUmount`, which does not look at what `cpmSync` returns. A client that erases a
file and uses its blocks again in one session can leave a directory on the image in
which two entries share a block. That is what the code does; such an image is for
`fsck.cpm`, and `Crash` starts the next session on sound ones (`Sound`), mixtures
of two directories among them. That the programs never leave another is
`ImageIsSound` of `CpmTools`.

Handles stand for pairs of `cpmInode` and `cpmFile`. They are not reset when a
file is erased or renamed, as in the code. Two values are uninitialised in the
code: `ino->attr` after `cpmCreat` is any set of attributes, and `ino->xfcb`
after `cpmNamei` is `Unset`. On MP/M a stamp through an `Unset` xfcb would write
anywhere in memory; guards of `Open`, `Utime` and `Unlink` exclude these calls,
which no program makes.

### CpmTools

`tool` holds the running program and the place in its `main`, `copied` is a
history variable: the bytes written to each file that `cpmcp` copied without
complaint. `cpmcp` creates, opens, writes chunks of 2048 bytes (2049 in text
mode, when the last byte is a newline), stamps and goes on to the next argument
after any failure; `cpmrm`, `cpmchattr` and `cpmchmod` make one or two calls per
argument. The session ends with `cpmSync`, one sector of the directory per step
(`SyncSector`, the loops of `cpmSync` and `writeBlock`). `Die` may happen anywhere.
A write error in `cpmSync` also stops it between two sectors, so it is covered by
`Die`.

The library calls are the actions of `CpmFS`, conjoined with the program's own
steps. `Rename` and two handles occur in no program; they are checked in `CpmFS`.

### CpmVolume, FileStore, DateStamper

`CpmVolume` adds what the blocks hold. `data` maps blocks to bytes, `buf` is the
buffer of the running `cpmWrite` with the sectors `start` to `end` it will write,
`host` the host file that is being copied, and the history variable `made` which
one each file was copied from. Each byte of each host file is a number of its own, so that a byte
in the wrong place shows. `Loaded` reads the sectors the code reads (2011-2026)
and leaves the other bytes of the buffer as they are, `Junk` at first;
`Store` writes whole sectors. `Contents` is what `cpmNamei`, `cpmOpen` and
`cpmRead` give together. Devices accept what they are given.

`FileStore` says what a user may count on: bytes are only appended, a file is
only changed by copying to it or removing it, files become permanent whole and
one by one, and a program that dies takes back whole files. `IsFileStore`
instantiates it with `live` as the files read through `dir` and `saved` as those
read through `disk`. Steps in which nothing can be read differently stutter; a
step of `cpmSync` saves the files whose entries lie in that sector.

`DateStamper` adds `ds` and `dirtyDs`. Mounting looks for a file of the right
name in the first entry and for valid checksums in the blocks behind the
directory, not in those the entry points to. A stamp is one byte there; it is
five BCD pairs in `Stamps`. `DieUnstamped` is a death behind the directory and before
the last sector of the table, which is also what remains when `syncDs` fails: the
image then holds the first sectors of the new table and the rest of the old one.

### FsckRules, Fsck

`FsckRules` has the conditions of both phases and the repair each question
offers. `Fsck` goes through the entries as the program does: the next check that
finds fault asks, the answer is yes (`Repair`), no (`Decline`, also `-n`), or the
end of the input (`Hangup`). Each change is seen by the checks behind it. Bad
names, bad extent bytes and bad passwords are members of small sets. Dates, which
are only warned of, oversized .COM files and the statistics are left out.

### Readers

`Readers` starts with a file of definitions and a format name. `DiskDefs` reads a
line per step, as `diskdefReadSuper` does: settings accumulate in the superblock,
`end` computes what is derived, `diskdef` resets. Then `Geometry` mounts, or the
program exits or is aborted by an assertion. On the mounted geometry one of five
activities takes place:

* `Viewer`: the position of `fsed.cpm` and the sector its buffer was loaded from,
  key by key; a sector may be unreadable, and the buffer then keeps what it had,
  which is nothing at first. `Dumped` and `Decoded` are the sectors on the screen: the
  dump is left out while `reload` is set, the directory entry is not.
* `Listing`: `cpmglob`, the sort, and the loops over users and names that all
  styles of `cpmls` share. `Names` gives matching, splitting and listing of names
  on sequences of characters.
* `Mkfs`: each write of `mkfs.cpm` to an image file that is new or holds old data;
  a write may fail. The directory is read back through the skew table.
* `HostText`: `cpmcp -t` and `-b` to CP/M, byte by byte and round by round, and
  back through `cpmToUnix`.
* `Stamps`: files stamped one after the other, read back from the bytes of their
  SFCB and of the DateStamper table. The calendar of the C library is modelled on
  its own, in the proleptic Gregorian rule, with summer time.

## Runs

The bounds are in the configurations: `MaxPos` limits the bytes of a file,
`MaxCount` those of a `cpmWrite`, `MaxArgs` the files of a session. Records,
sectors, blocks and logical extents are 1 to 4 bytes, chosen so that each
boundary lies inside the bound and both disk and directory fill up. A sound
violation needs two files, or one file and the directory, and a block or entry
that changes hands: two names and two or three data blocks are enough for that,
and more blocks only repeat the first-free search.

`OneSession` stops a behaviour when the image has changed. It is used where a
second session adds only a different initial image; `handles` and all runs of
the programs go without it. Handles are symmetric in `handles`.

| run | distinct states | shows |
|---|---|---|
| `extents` | 440,500 | one file, two logical extents per entry, an image with entries in reverse order, read-only files, full disk, unreadable blocks: `ExtentsAreUnique`, `ListedOnce`, `AlvCovers`, `PointersStay`, types |
| `handles` | 761,022 | MP/M, two handles, two files, a directory of two sectors, `cpmSync` that fails or is cut and unlimited sessions on what is left; XFCBs made with files and overwritten with dates that look like block numbers: `BlocksAreOwned`, `AlvCovers` |
| `cpm3` | 787,322 | two files, password and date entries: `BlocksAreOwned`, `CleanMeansSaved`, `OneFileAtATime` |
| `crash` | 2,126,622 | programs on two files, a directory of three sectors, death anywhere: `ImageIsSound`, `OldFilesAreSafe`, `AlvExact`, `CopiesStay` |
| `copies` | 207,410 | files of two entries on an MP/M volume, binary mode, a directory of two sectors: `SizeAgrees`, `AttrsAgree`, `SessionEnds`; and `ImagePassesFsck`: `fsck.cpm` has nothing to say of what the programs leave |
| `volume` | 133,452 | `cpmcp -t`, `cpmcp -t -p` and `cpmrm` on a volume with a DateStamper file, which may be removed as well, death anywhere: `CopyIsFaithful`, `StampsFollow`, `IsFileStore` |
| `fsck` | 31,822 | `fsck.cpm` on 256 directories that combine sound, bad, duplicate, label, password and date entries, all answers: `VerdictIsSound`, `GoodFilesStay`, `CheckEnds` |
| `readers` | 315,129 | a dozen files of definitions and an Amstrad superblock, then each of the programs: one property for each, see below |
| `text`, `repairs`, `stamper`, `viewer` | | one counterexample each |

All runs but `handles` and `copies` have one entry per sector (`PerSec = 1`), so that any
prefix of the changed entries may reach the image. These two have two, and three
entries in all, so that in `copies` a `cpmSync` can be cut between two entries of one
file. Then a file may have entries with old and with new attributes.
`AttrsAgree` therefore says what the calls are responsible for: the entries of a
file agree, or they are those which the session found on the image, untouched. It is
violated by a call that sets the attributes of some entries of a file, or that makes an
entry unlike the others; a file left half changed is whole again after the next
`cpmchattr`.

A death ends what is known of copies: `Die` clears `copied`, so `SizeAgrees`,
`CopiesStay`, `CopyIsFaithful` and `StampsFollow` speak of files copied since the last
death, over any number of sessions that ended well. Of older files, after a death,
`ImageIsSound`, `OldFilesAreSafe`, `ImagePassesFsck` and, for contents, `IsFileStore`
speak. Of the hazard at 1376, a table of time stamps that is a session behind the
directory or half written, only `IsFileStore` says something: no file is hurt. The
stamps may be old ones, and a half written table is taken for a good one, since each
record has its own checksum and a sector (128 bytes or more in `src/diskdefs`) holds
whole records. In `volume` a sector is half a record, so a table that fails its
checksums and is not used by the next mount occurs as well.

`CleanMeansSaved` makes one exception: an extent entered before the disk was
found full (1957-1989) is not marked for saving. It holds no block, so losing it
loses nothing. A `cpmSync` that took back the mark before it fails would violate it;
`cpm3` cuts it at every sector. `OldFilesAreSafe` is a property of the programs only: a
caller of the library that erases and writes in one session overwrites blocks that
the image still gives to the erased file.

`volume` has four blocks of two sectors: two for the directory, one for the table,
and one that is free, two after the DateStamper file was removed. A chunk may
begin or end at, before or behind a sector boundary; a file of two bytes fits one
block, one of five needs two and is denied while the table is there. Each file has
one entry, so that "whole files, one by one" is what a sector of `cpmSync` can do; a
file with entries in two sectors of the directory could be saved in part, and
`FileStore` does not hold of it. `StampsFollow` includes that the entry of a
removed file may be taken by another, whose stamp must then replace the old one.

The properties of `readers`, each about the whole way from the text to the result:

* `DefinitionAlone`: the format that comes out is what the lines of the first
  definition of that name say, whatever stands before it and in whatever order.
* `BlocksApart`: reading and writing agree on the sectors of each block, no two
  blocks share one, none lies in the system tracks or beyond the image. The
  geometries include skews that divide the sectors of a track, skew tables, blocks
  that cross tracks, and an offset.
* `SectorShown`: what `fsed.cpm` dumps is the sector of its position, also behind
  sectors that could not be read. The entry it decodes is that of its position as long as
  the last sector asked for could be read; the run `viewer` shows that it is not
  otherwise.
* `PatternsSelect`: matching agrees with the definition of patterns in `Selects`.
* `LinesAreTrue`: a file with a proper name is listed once per pattern that names
  it, ordered, with its own data.
* `MadeIsEmpty`: old data never comes through a fresh directory.
* `TextReturns`, `StampsReturn`: what goes to CP/M comes back.

Texts of up to three bytes against buffers of two and three place every kind of
byte at every boundary; the times are ends of years, of February and of centuries
and the limits of both representations; two stamps are enough to disturb a
neighbour in an SFCB.

### What the code does not do

The four violations:

* `text` (`SizeAgrees`): a `cpmWrite` that crosses 16K inside an entry of several
  logical extents leaves the entry's extent number behind (2066-2070), and the
  file is 16K short when it is read again. `cpmcp -t` makes such calls. In binary
  mode all chunks are 2048 bytes and none crosses; `copies` shows that.
* `repairs` (`RepairsLast`): `fsck.cpm` repairs in core, says `MODIFIED`, and
  never sets `dirtyDirectory`, without which `cpmSync` writes nothing.
* `stamper` (`CopyIsFaithful`): `mkfs.cpm -t` prepares a DateStamper table that
  `cpmSync` does not write, because the mounted type lacks its bit. What it
  leaves, an entry without blocks and zeros behind the directory, is taken for a
  table by the next mount, and `syncDs` writes that over the first file.
* `viewer` (`EntryShown`): where a sector of the directory cannot be read, `fsed.cpm`
  says so and does not dump it, but decodes the directory entry from what the buffer
  holds (`src/src/fsed.cpm.c:329-743`): the sector read before, or memory that was
  never written. It is shown under the new position and entry number.

Met while modelling and stated as limits of the properties:

* `cpmAttrSet` reaches only entries behind that of the lowest extent (2208-2216).
  The programs create entries in order, so `AttrsAgree` holds of their images, also
  where the directory was saved in part.
* `cpmReaddir` and `cpmNamei` number the same file differently (1762).
* Dates in XFCBs are marked as blocks (316); no block is given out twice for it,
  but space is lost.
* When bytes begin at a sector boundary and end in the same sector, nothing is
  read before it is written, and the end of the sector is uninitialised memory,
  contrary to the comment at 2044. It lies behind the end of the file as long as
  files are only appended to, which is what `CopyIsFaithful` needs.
* Where the last definition has no `end`, the size of the disk is uninitialised
  (818). `DefinitionAlone` says that a format that is read has its `end`; none
  of the texts given leaves it out at the end of the file.
* `amsReadSuper` does not correct an extent count of 0 (1050), which blocks below
  1K give.
* `mkfs.cpm` ignores the offset of a format; `MadeIsEmpty` excludes it.
* `**` in a pattern matches across the dot (655); `NoDoubleStar` excludes it.
* `cpmls -d` never sorts (`src/src/cpmls.c:45`); two names that begin with `[`
  have no order (21).
* `cpmls` prints the data of the previous file for a name it cannot open (342);
  `Clean` names are those it can.
* `cpmToUnix` drops the byte behind a carriage return that no line feed follows
  (`src/src/cpmcp.c:81`); `Convertible` texts have none.
* `fsck.cpm` compares the whole of `type`; with a DateStamper file, users 16 to 31
  of a P2DOS disk are bad to it. `GoodFilesStay` is stated of users 0 to 15.
* A DateStamper year has two digits: times from 2070 come back as 1970 and later.

### Fairness

`Spec` has weak fairness of `WriteStep`: `cpmWrite` is a loop in one process and
waits for nothing. `ToolsSpec` has weak fairness of `ToolStep`, every step of a
program that was started, but not of `Start` and not of `Die`. Nothing else
disables a program's next step, so weak fairness is enough, and `SessionEnds`
holds because host files and argument lists are finite and each round of
`cpmWrite` makes progress. `RoomLess`, where a round may write nothing, breaks it.
`FsckSpec` has weak fairness of `FsckStep`: somebody answers each question, or
the input ends. The other specifications state safety only.

## Proofs

The theorems hold for all values of the constants that satisfy the assumptions
of the modules and the hypotheses each theorem states. The assumptions, which
TLC evaluates in every run: positive sizes, a logical extent is a multiple of the
block size, the capacity of an entry fits its pointers, `maxdir` is a multiple
of four where entries hold dates (all definitions in `src/diskdefs` but
`altdsdd`), and the images that are mounted are sound (`ImageAssumption`): files do not
share blocks, stay in the data area and have one entry for each extent. Images that
are not are for `fsck.cpm`, and `FsckProofs` assumes nothing of them.

The hypotheses, and why the code meets them:

* `~MpmDates`: dates written to an XFCB go over its pointers, and the invariants
  are then about something other than blocks. `handles` checks that case.
* `HasXfcbs => Users \subseteq 0 .. 15`: where users 16 to 31 are passwords, a file
  created as user 16 would be an XFCB to the rest of the code.
* `Regular` adds that the extents of an entry are as long as its pointers reach
  (all definitions but `td143ssdd8`, see `ExtCap`), and that a file has less than
  2048 extents, 32M, behind which `xl` and `xh` wrap (2069).
* `Covering` adds that extents are made of whole records.
* `Straight`: an entry holds one extent, or `cpmcp` copies in binary mode and 16K
  is a multiple of its 2048 bytes. Without it `SizeAgrees` is false, which the run
  `text` shows.
* `Whole`: blocks are made of whole sectors (all definitions in `src/diskdefs`), and
  no host file is called like the table of DateStamper, which `cpmcp` would then
  overwrite.
* `OwnsTable` of the images mounted: where the first entry is the DateStamper file,
  it has the blocks that `syncDs` writes to. `mkfs.cpm -t` makes an image of which
  this is false, and there `CopyIsFaithful` is false too, which the run `stamper`
  shows.
* `Brief`: the directory is one sector, or no file that is copied exceeds one entry and
  none on the image does. Elsewhere `cpmSync` can save a part of a file, and
  `IsFileStore` is false.
* `Checkable`: blocks are made of whole records, the users are those that
  `fsck.cpm` allows for the format, the status bytes it takes for files are those
  that the programs take for files, and no name given to `cpmcp` has a character
  that `fsck.cpm` objects to. The images mounted pass to begin with.
* `Orderly`, for `AttributesAgree` only: on the images mounted to begin with, the entries
  of a file lie in the order of their extents. Elsewhere `cpmAttrSet` misses some and
  `AttrsAgree` is false (see above). Nothing is asked of their attributes, nor of how
  many sectors the directory has.
* `DefinitionsAreWhole`: in a file of definitions each one has its `end`, block sizes
  are numbers, and the logical extents are not negative. A definition gives its
  offset once, and where that is in sectors or tracks, it does not give their sizes
  a second time behind it: the offset is multiplied where its line is read (787), so
  such a definition would not be free of the order of its lines. The 140 definitions
  of `src/diskdefs` have all of this.
* `FormatsFit`: settings are integers, the system tracks are on the disk, a skew is
  not negative, and a table of sectors has each sector of a track once. This holds
  of `src/diskdefs` too. Nothing is asked of what `cpmReadSuper` refuses.
* `FormatsHoldDirectory`, for `FreshIsEmpty` only: blocks are made of whole sectors and
  sectors of records of 128 bytes, the directory fits behind the system tracks, and
  the first sector of a track is one of the directory's. Where the first sector is
  not, the label that `mkfs.cpm` writes to it would be in no entry. All of
  `src/diskdefs` has this.
* `DirectoriesFit`, for `ReadersKeepTypes` only: the blocks of a directory, as given or as
  computed, are at least one and on the disk, and an Amstrad boot sector is of a
  format with at least one logical extent. The program takes these settings as they
  are. All of `src/diskdefs` has this.
* `NamesAreTexts`: names and patterns are sequences of characters.
* `LettersAreLetters` and `FilesAreListed`, for `ListingIsTrue` only: letters of lower
  case are none of the special characters, names have at least one place, every
  character that can be in a name has its place in the order of `strcmp`, users are 0
  to 31, and no two entries of a directory are equal, which is the abstraction of
  `Listing`, where a file has one entry.
* `TimesAreClear`: the zone is one that exists, the times are those the calendar of
  CP/M can hold, and none is in the hour that comes twice when the summer ends. Both
  formats store local time, in which that hour is ambiguous.
* `SizesAreNumbers`: the numbers in a file of definitions and in a boot sector are
  integers. Nothing is said of their sign or of how they fit together; what the
  program checks before it mounts is enough.
* `TextsAreFiles`: a return, a line feed and an end-of-file mark are three bytes,
  and `cpmRead` is asked for at least one byte.

### The core

* `TypeCorrect`. It includes that a running `cpmWrite` has an open file on a real
  entry and bytes left to write, and that `PtrAt` stays inside the pointers of an
  entry (`PtrAtType`), which rests on `ExtCap <= NPtr * BlkSiz`.
* `BlocksOwned`, `AllocationCovers`. The inductive invariant `Owned` is the two with
  `TypeOK` and a third part: the image is sound as well, unless `dirtyDirectory` is
  set. None is inductive alone: a block is handed out by looking at `alv`, so the
  first needs the second; a session that has nothing to write leaves the next one the
  image as it is, so both need the third. A `cpmSync` that fails leaves a mixture of
  two directories on the image, of which nothing is known but that the session still
  has to write. The argument has two parts. All steps but `BlockAllocated` and
  the start of a session only let file entries of the new directory inherit the
  pointers of file entries of the old one, slot by slot (`Inherits`); this keeps all
  three (`InheritsSound`). `BlockAllocated` adds one pointer to a block outside `alv`
  (`AllocationSound`). That a `cpmSync` that succeeds has written all of the directory is
  `WholeWritten`.
* `PointersKept`, from the same case analysis.
* `ExtentsUnique`, `FilesListedOnce`. `ExtentsAreUnique` speaks of the directory
  only. What keeps it is that `cpmWrite` enters an extent after a search that found
  none (1950) and that later changes of the number stay inside the physical
  extent; `Place` says the second: the entry a call writes to has the physical
  extent of its position. Stale handles write to entries of other files, so
  `Place` says nothing of names. `UniqueInv` is `Place` and `Apart`, the property
  in core and, unless there is something to write, on the image.
* `CleanIsSaved`. `SavedInv` says of every step of a `cpmWrite`, not only between
  calls, that what the image lacks while `dirtyDirectory` is not set is an extent
  without blocks, or is being filled and will be marked (1990, 2052).
* `OneFileChanges`: an action property, from `TypeOK` and each action.

### The programs

`SessionInv` is `Owned`, `UniqueInv`, `Course` (where in its `main` a program can be)
and `Between`: in a session of `cpmcp` the file entries of the image are within those
in core, with the same extents and no other pointers (`Within`), and in a session
of any other program those in core are within the image. That is what makes
`ImageIsSound` hold of an image that is partly the old and partly the new
directory: a mixture of two directories one of which is within the other lies
between them, and what is within a sound directory is sound. No session both
erases and allocates.

* `ToolsTypeCorrect` from `Course`; `ImageStaysSound` from `SessionInv`.
* `OldFilesStaySafe` adds `Target`: the file that is being written is not on the
  image, and the entry of a running `cpmWrite` is one of that file.
* `VectorExact` adds `Exact`, which says of `alv` the same at each step of a
  `cpmWrite`.
* `CopiesKept` adds `Saved`: sectors of the directory that `cpmSync` has passed are
  equal in core and on the image, and a clean session has nothing to write.
* `SizesAgree` adds `Ends`: of a file of `n` bytes, the highest entry has a number,
  a `blkcnt` and a `lrc` that give `n`, also where `n` is the end of a record, block,
  extent or entry; `TargetEnd` says it of the file that is being written, at the
  position of its handle. `Chunks` says where in an extent a chunk of `cpmcp` lies.

* `ProgramsPassFsck`. `CountInv` says that all entries pass, on the image and in core,
  but the one that `cpmWrite` is filling, which is not marked for saving before
  its counts are right. Of that one, and of the entry that the next `cpmWrite` goes on
  with, `TargetFull` says that it has as many pointers as the position of the handle
  needs, no more and no less; that its record count gives the same number of blocks
  in the arithmetic of `fsck.cpm` is `BlocksOfRecords`. The entries are looked at one
  by one, so this holds of directories of any number of sectors, and where a
  program dies between two of them.
* `AttributesAgree`. `cpmAttrSet` begins at the entry `cpmNamei` finds, that of the
  lowest extent, and only goes forward. So `AttrsInv` says that the entries of a file
  lie in the order of their extents (`Orderly`), in core and on the image. What keeps
  it is how `cpmcp` makes entries: it takes the first free one, and all entries of
  the file it is writing are in front of every free one (`TargetFore`), as none is
  freed in a session that copies. `AttrFirst` says that the entry which `cpmchattr` and
  `cpmchmod` looked up is the first of its file. A `cpmSync` that is cut leaves each
  entry of the image as it was or as it is in core, and one of the two directories is
  within the other, so the order stays (`OrderlyKept`), while attributes may differ on
  the image from then on, and in core only as they do there (`SettledSync`). `Settled`
  is the property with the image as an argument.

### The contents of files

* `CopiesFaithful`. `ContentInv` is `SizeInv`, which says where a file ends and that
  no two entries stand for one extent, and four parts. `CopiesHeld`: each byte of
  a copied file is in the block of its pointer. `TargetHeld`: so are the bytes
  that `cpmcp` has written of the file it is writing. `Ready`: when `cpmWrite` is
  about to store, every sector it stores holds, in front of the new bytes, what
  the file held, and takes in all of the new bytes; that is where the choice of
  the sectors to read first (2004) matters. It says nothing of the bytes behind
  the new ones, which may be anything (see above). `TableInv`: the blocks of the
  DateStamper table belong to its entry, so that `syncDs` writes to no file.
  A step that stores changes one block (`StoreEffect`), whose pointer is in one
  entry (`CellIsOwn`); all other steps let entries grow (`HoldsGrown`). That
  `cpmRead` finds the block follows from `Apart`, and that it reads neither less
  nor more from `CopiesEnd`.
* `StampsRight`. `StampsFollow` speaks of the entry that `cpmNamei` finds, which
  another one may become, so `StampInv` says of all entries of a copied file, and
  of the file that is being written, that they have its stamp (`DatedInv`). A call
  of `cpmWrite` touches one entry, and stamps that one (`OneEntry`). `CheckedInv`
  says that a table that is not marked dirty is the one a mount of this image would
  find: nothing but `syncDs` writes to the blocks of the table (`WriteSpares`), and
  an entry 0 that is the DateStamper file is never made by these programs. That
  `syncDs` writes stamps and sums next to each other and loses neither is
  `StampPlace` and `StampOwn`: each entry has a place of its own in the table, which
  is no sum's, and `TablePlace`: reading the blocks back gives the table.

* `FilesAreAStore`: the refinement of `FileStore`, step by step. `Reads` is `Contents`
  with the blocks as an argument, so that it speaks of the state after a step as
  well; `ReadsSame` says that it goes by the entries and blocks of the one file
  alone, `WholeReads` that of a file that is all there it gives each byte. The file
  that is being written reads as the first bytes of the host file (`TargetReads`,
  from `ContentInv`), which makes a call of `cpmWrite` an `Extend` or nothing. The
  others keep their entries and blocks, those on the image too, as they are within
  those in core (`WriteKeepsBlocks`). The end of a session and a death behind the
  directory are a `Save`, any other death a `Forget`, and a sector of `cpmSync` saves
  the files that have their entry in it. The last needs `Brief`, kept by `BriefInv`:
  a file that is written never reaches a second entry (`EndsShort`), and the one in
  core and the one on the image are in one place (`Lone`).

### fsck.cpm

* `FsckTypeCorrect`, `VerdictSound`. `FsckInv` says that the checks that are behind
  the program find no fault with the directory as it is now, unless it was called
  broken: a repair never brings back a fault that an earlier check has passed. It
  also says that the entries in core have the pointers of the image.
* `GoodFilesKept`: an action property, from the condition of each question.

### Definitions, geometry, and the other programs

* `DefinitionStandsAlone`. `DefInv` says of each line what is known when it is the next
  one: inside the definition that is looked for, each setting is what the last of
  its lines so far gives, or the default; elsewhere nothing was set. Two definitions of
  one name, lines outside of any, and settings that `setGeometry` adds at the `end`
  are the cases of its steps.
* `BlocksLieApart`. `GeoInv` adds that the settings fit, and from `SetGeometry` on that
  the mounted geometry is laid out by them. Two things are behind it. A skew table
  has each sector once (`SkewIsTrack`), for every skew: the table grows by sectors
  that are not in it yet, and one that is free is always found, as the search from
  any sector passes all of the track. And the place of a block, in tracks and
  sectors, is one number in units of sectors (`Nth`), which is split one way only.
  Recursive functions exist because a first number for which they do not would
  have one before it (`LeastNumber`); that takes the place of an induction, which
  the provers cannot do.
* `FreshIsEmpty`. `MkInv` says how far `mkfs.cpm` has come, in whole records behind the
  system tracks, and what these records hold. It writes in the order of the file and
  the directory is read in the order of the skew table, so the rest is where a
  record of the directory is in the file (`RecordIs`): two of them are never in one
  place (`RecordsApart`), all are in the tracks written (`RecordInside`), and the one
  with the label is one of them (`FirstThere`).
* `PatternsAreSound`. `recmatch` is a table of its calls, `Selects` a fold over the
  pattern; both exist for patterns of every length by the argument above. What
  is proved of a pattern from its j-th character on is carried to the one before it:
  the table has a call there exactly if the rest of the pattern selects the rest of
  the name. The condition `first`, which stops a star at the beginning of a name,
  tells nothing, because no pattern begins with a star once the user number is in
  front of it, and no star follows another.
* `ListingIsTrue`. `ListInv` counts: while `cpmglob` runs, a name that only one entry has
  is in the list as often as the patterns up to now select it (`GlobIs`); sorting
  keeps the count of every name and orders them (`SortedIs`); and what is printed is
  what was due, in the order of the loops, up to the user and name they are at
  (`Printed`). At the end nothing is left, so lines and places in the list
  correspond one to one (`LinesCounted`). That the right entry is behind each line is
  `SplitIs`: `splitFilename` undoes what `cpmReaddir` does to a proper name, with the
  name in either case. The condition `Alone` is needed: an entry with lower case or
  with a blank inside can be listed under the name of another file.
* `ReadersKeepTypes`. `TypeInv` is `GeoInv`, `TextInv`, `StampInv` and the types of what each
  program works with. The mounted geometry is where it rests on the rest: that the
  skew table is a list of the sectors of a track, that there are blocks and that the
  directory is inside of them follows from what was read and what `cpmReadSuper`
  checks. `MaxRound` bounds the bytes that `cpmcp`
  has in hand: a line feed that comes last in a full buffer goes one byte past `RoundIn`.
* `SectorIsShown`. `ViewInv` says that the buffer holds the sector of the position
  whenever it is shown. The buffer is kept while the position stays in one
  quotient by the length of a sector, and the skew applies behind the system
  tracks only, so the proof needs `OneSector`: two positions with one quotient
  are of one track and on one side of the end of the system tracks. That the settings a
  mounted format has are numbers is carried through the reading of the
  definitions, with `ReaderOK`.
* `TextComesBack`. `TextInv` says, on the way in, that the file and the buffer
  together spell the bytes read so far; on the way out, that what is left of both
  is the CP/M form of the bytes not yet written, or, where a return is pending,
  the second half of one (`ToCome`). `Spells` is not recursive: a function gives
  the place where the form of each byte ends. Neither refers to the lengths of
  the two buffers, which is why they may be anything.
* `TimesReturn`. `StampInv` says that the bytes of each stamp are those of its time, in
  an SFCB and in the table, so that a stamp next to it was left alone. The rest
  is calendar. `unix2cpm_time` counts days by years, `cpm2unix_time` by the days up
  to a year (`DaysUpTo`), whose sum has a closed form; a day has one year and one
  month, as both are intervals that follow each other; two BCD digits give back
  what they were made of; and local time gives back the time outside of the hour
  that comes twice.

### Only model-checked

* `SessionEnds`, `CheckEnds`: liveness is out of reach of the prover.
* `DsTypeOK`: restricts the sum of the table, which recurs over sets of places. No other
  proof depends on the type of the bytes.
* The MP/M case of `BlocksAreOwned`.

## Not modelled

* `cpmStatFS`, and the pseudo files `[passwd]` and `[label]`: they count or print
  what the directory holds and change nothing. Passwords are not read either.
* The information and map screens of `fsed.cpm` and the columns and totals of
  `cpmls`: layout.
* libdsk and Win32 devices: other drivers behind `device.h`, not part of the POSIX
  build. `getopt`: vendored.
* Two programs at once on one image. Nothing locks it (1188), so the last one to
  unmount undoes the directory of the other; every property above is false of that.
* Device writes that fail inside `cpmWrite` (2049): the code does not look at the
  result, and a copy is then incomplete without a complaint.
* Files of 32M, after which extent numbers wrap (2069), formats whose entries hold
  less than 16K (1944), and reopening a file to write less than it holds (2066),
  which no program does.
* Allocation failures of `malloc`: the programs stop before anything is changed.

## Plan

Model: entries of a file in several directory blocks with a `FileStore` that
allows files to be saved in part; failing device writes; two programs at once.
