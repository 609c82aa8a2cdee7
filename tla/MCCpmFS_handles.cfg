SPECIFICATION Spec
CONSTANTS
  A = A
  B = B
  NoName = NoName
  MaxDir = 3
  Size = 3
  DirBlks = 1
  BlkSiz = 1
  SecLength = 1
  PerSec = 2
  NPtr = 1
  Extents = 1
  Logical = 1
  RecLen = 1
  MaxStatus = 31
  HasXfcbs = TRUE
  Cpm3Dates = FALSE
  MpmDates = TRUE
  MakeXfcbs = TRUE
  ExactSize = FALSE
  Users <- OneUser
  Names <- TwoNames
  Handles = {h1, h2}
  Attrs <- NoAttrs
  Images <- EmptyImage
  Stamps <- DateStamps
  MaxCount = 1
  MaxPos = 2
INVARIANTS
  BlocksAreOwned
  AlvCovers
SYMMETRY
  HandleSymmetry
