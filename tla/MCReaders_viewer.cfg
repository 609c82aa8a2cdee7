SPECIFICATION ReadersSpec
CONSTANTS
  DefTexts <- DefFiles
  Formats <- Names2
  BootSpecs <- Amstrad
  NoSector = NoSector
  Unreadable = TRUE
  CR = CR
  LF = LF
  SUB = SUB
  Letter = Letter
  HostTexts <- Texts
  RoundIn = 2
  RoundOut = 3
  NameLen = 2
  ExtLen = 1
  Upper <- Letters
  Directories <- Dirs
  Arguments <- Typed
  Ascii <- InOrder
  Zone = 60
  Times <- Moments
  MaxStamps = 2
CHECK_DEADLOCK FALSE
INVARIANTS
  EntryShown
