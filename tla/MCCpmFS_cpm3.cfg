SPECIFICATION Spec
CONSTANTS
  A = A
  B = B
  NoName = NoName
  MaxDir = 4
  Size = 3
  DirBlks = 1
  BlkSiz = 1
  SecLength = 1
  PerSec = 1
  NPtr = 1
  Extents = 1
  Logical = 1
  RecLen = 1
  MaxStatus = 31
  HasXfcbs = TRUE
  Cpm3Dates = TRUE
  MpmDates = FALSE
  MakeXfcbs = FALSE
  ExactSize = FALSE
  Users <- OneUser
  Names <- TwoNames
  Handles = {h1}
  Attrs <- NoAttrs
  Images <- DatedImages
  Stamps <- NoStamps
  MaxCount = 2
  MaxPos = 2
INVARIANTS
  BlocksAreOwned
  CleanMeansSaved
PROPERTIES
  OneFileAtATime
CONSTRAINT
  OneSession
