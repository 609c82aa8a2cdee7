SPECIFICATION FsckSpec
CONSTANTS
  A = A
  B = B
  NoName = NoName
  MaxDir = 4
  Size = 4
  DirBlks = 1
  BlkSiz = 1
  SecLength = 1
  PerSec = 1
  NPtr = 2
  Extents = 1
  Logical = 2
  RecLen = 1
  MaxStatus = 31
  HasXfcbs = TRUE
  Cpm3Dates = TRUE
  MpmDates = FALSE
  MakeXfcbs = FALSE
  ExactSize = FALSE
  Users <- OneUser
  Names <- TwoNames
  Handles = {h1}
  Attrs <- Marks
  Images <- EmptyImage
  Stamps <- NoStamps
  MaxCount = 1
  MaxPos = 1
  DsDates = FALSE
  BadNames <- BadName
  Damaged <- FaultyImages
INVARIANTS
  RepairsLast
