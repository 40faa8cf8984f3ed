SPECIFICATION Spec
CONSTANTS
  RtlFiles <- MCRtlFiles
  Act4Files <- MCAct4Files
  Exported <- MCExported
  Checkouts <- MCCheckouts
  EditedFiles <- MCRtlFiles
  EditLines <- MCEditLines
  MaxEdits = 2
  MutateFrom = 1
CHECK_DEADLOCK FALSE
INVARIANTS
  MutateTypeOK
  ExcludesTheRule
  LinesStayInPlace
  WaiversStayInSimulation
  PassIsConclusive
