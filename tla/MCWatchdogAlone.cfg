\* The watchdog as the only writer, in one life of the process.
CONSTANTS
  breach_threshold = 2
  recovery_threshold = 2
  CounterCap = 2
  None = None
  DryRunModes = {FALSE}
  slack_enabled = TRUE
  MaxFaults = 4
  MaxLogRows = 0
  MaxCrashes = 0
SPECIFICATION FairSpec
INVARIANTS
  HealthyMeansClosed
PROPERTIES
  PersistentFaultIsHandled
  RecoveryIsRecorded
