SPECIFICATION ToolsSpec
CONSTANTS
  A = A
  B = B
  NoName = NoName
  MaxDir = 3
  Size = 5
  DirBlks = 1
  BlkSiz = 2
  SecLength = 2
  PerSec = 2
  NPtr = 2
  Extents = 2
  Logical = 2
  RecLen = 1
  MaxStatus = 31
  HasXfcbs = TRUE
  Cpm3Dates = FALSE
  MpmDates = TRUE
  MakeXfcbs = TRUE
  ExactSize = FALSE
  Users <- OneUser
  Names <- TwoNames
  Handles = {h1}
  Attrs <- RO
  Images <- EmptyImage
  Stamps <- DateStamps
  MaxCount = 3
  MaxPos = 7
  Chunk = 2
  TextModes <- Binary
  MaxArgs = 1
  DsDates = FALSE
  BadNames <- NoNames
INVARIANTS
  SizeAgrees
  AttrsAgree
  ImagePassesFsck
PROPERTIES
  SessionEnds
