SPECIFICATION ToolsSpec
CONSTANTS
  A = A
  B = B
  NoName = NoName
  MaxDir = 3
  Size = 4
  DirBlks = 1
  BlkSiz = 2
  SecLength = 2
  PerSec = 1
  NPtr = 1
  Extents = 1
  Logical = 2
  RecLen = 1
  MaxStatus = 31
  HasXfcbs = FALSE
  Cpm3Dates = FALSE
  MpmDates = FALSE
  MakeXfcbs = FALSE
  ExactSize = FALSE
  Users <- OneUser
  Names <- TwoNames
  Handles = {h1}
  Attrs <- NoAttrs
  Images <- EmptyImage
  Stamps <- NoStamps
  MaxCount = 3
  MaxPos = 4
  Chunk = 2
  TextModes <- BothModes
  MaxArgs = 2
  DsDates = FALSE
  BadNames <- NoNames
INVARIANTS
  ToolsTypeOK
  ImageIsSound
  OldFilesAreSafe
  AlvExact
  CopiesStay
