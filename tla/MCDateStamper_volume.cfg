SPECIFICATION DsSpec
CONSTANTS
  A = A
  B = B
  NoName = NoName
  MaxDir = 3
  Size = 4
  DirBlks = 2
  BlkSiz = 4
  SecLength = 2
  PerSec = 1
  NPtr = 2
  Extents = 1
  Logical = 8
  RecLen = 1
  MaxStatus = 31
  HasXfcbs = FALSE
  Cpm3Dates = FALSE
  MpmDates = FALSE
  MakeXfcbs = FALSE
  ExactSize = FALSE
  Users <- OneUser
  Names <- Names3
  Handles = {h1}
  Attrs <- NoAttrs
  Images <- StampedImage
  Stamps <- NoStamps
  MaxCount = 4
  MaxPos = 7
  Chunk = 2
  TextModes <- TextMode
  MaxArgs = 1
  DsDates = FALSE
  BadNames <- NoNames
  DsName = B
  DsPer = 3
  PerBlk = 2
  HostSize <- Sizes
  HostFiles <- AThenC
  C = C
INVARIANTS
  DsTypeOK
  CopyIsFaithful
  StampsFollow
PROPERTIES
  IsFileStore
