SPECIFICATION Spec
CONSTANTS
  Trees <- MCTrees
  DEFAULT_PROGS <- MCProgs
  ResetProg <- MCResetProg
  Binaries <- MCBinaries
  handler <- MCHandler
  Leftovers <- MCLeftovers
  files_f <- MCFiles
  LineTarget = 95
  ToggleTarget = 50
  MaxChanges = 1
CHECK_DEADLOCK FALSE
INVARIANTS
  RegressionTypeOK
  LockstepMeansAgreement
  CoverageMeansMet
  ClassifiedMeansExplained
  HarnessSeparates
  SailMutantsAreCaught
  MutatePassIsHealthy
