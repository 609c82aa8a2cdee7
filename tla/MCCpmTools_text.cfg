SPECIFICATION ToolsSpec
CONSTANTS
  A = A
  B = B
  NoName = NoName
  MaxDir = 3
  Size = 7
  DirBlks = 1
  BlkSiz = 2
  SecLength = 2
  PerSec = 1
  NPtr = 4
  Extents = 2
  Logical = 4
  RecLen = 1
  MaxStatus = 31
  HasXfcbs = FALSE
  Cpm3Dates = FALSE
  MpmDates = FALSE
  MakeXfcbs = FALSE
  ExactSize = FALSE
  Users <- OneUser
  Names <- OneName
  Handles = {h1}
  Attrs <- NoAttrs
  Images <- EmptyImage
  Stamps <- NoStamps
  MaxCount = 3
  MaxPos = 11
  Chunk = 2
  TextModes <- TextMode
  MaxArgs = 2
  DsDates = FALSE
  BadNames <- NoNames
INVARIANTS
  SizeAgrees
