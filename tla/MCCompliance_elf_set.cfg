SPECIFICATION Spec
CONSTANTS
  DutRamSize = 4
  IoBase = 4
  Tests <- MCTests
  SuiteOf <- MCSuiteOf
  HandWritten <- MCHandWritten
  Revisions <- MCRevisions
  Defaults <- MCDefaults
  Overrides <- MCOverrides
  Settings <- MCSettings
  Checkout <- MCCheckout
  MaxEvents = 2
CHECK_DEADLOCK FALSE
INVARIANTS
  ComplianceTypeOK
  PassIsTheLastExport
  PassIsFresh
  DevicesClearOfRam
PROPERTIES
  ExportPasses
