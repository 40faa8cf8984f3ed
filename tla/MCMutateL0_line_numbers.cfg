SPECIFICATION Spec
CONSTANTS
  RtlFiles <- MCRtlFiles
  Act4Files <- MCAct4Files
  Exported <- MCExported
  Checkouts <- MCCheckouts
  EditedFiles <- MCRtlFiles
  EditLines <- MCEditLines
  MaxEdits = 1
  MutateFrom = 0
CHECK_DEADLOCK FALSE
INVARIANT KeepsEveryNewline
