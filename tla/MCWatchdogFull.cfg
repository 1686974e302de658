\* Processes that die at any step and are started again, with or without
\* --dry-run, and the log-watcher's rows in between.
CONSTANTS
  breach_threshold = 2
  recovery_threshold = 1
  CounterCap = 2
  None = None
  DryRunModes = {FALSE, TRUE}
  slack_enabled = TRUE
  MaxFaults = 1
  MaxLogRows = 2
  MaxCrashes = 2
SPECIFICATION Spec
INVARIANTS
  TypeOK
  RestartIsOnRecord
  ActionTruthful
  ClosedOwnRowHasAction
  OrphansAccountedFor
  AlertsPaired
  RecoveryFindsARow
  RecoverySparesOrphans
PROPERTIES
  RowsOnlyAdvance
  LifecycleSpec
