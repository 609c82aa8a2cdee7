SPECIFICATION Spec
CONSTANTS
  A = A
  B = B
  NoName = NoName
  MaxDir = 3
  Size = 4
  DirBlks = 1
  BlkSiz = 2
  SecLength = 2
  PerSec = 1
  NPtr = 2
  Extents = 2
  Logical = 2
  RecLen = 2
  MaxStatus = 31
  HasXfcbs = FALSE
  Cpm3Dates = FALSE
  MpmDates = FALSE
  MakeXfcbs = FALSE
  ExactSize = FALSE
  Users <- OneUser
  Names <- OneName
  Handles = {h1}
  Attrs <- RO
  Images <- PlainImages
  Stamps <- NoStamps
  MaxCount = 5
  MaxPos = 6
INVARIANTS
  TypeOK
  ExtentsAreUnique
  ListedOnce
  AlvCovers
PROPERTIES
  PointersStay
CONSTRAINT
  OneSession
