\* The smallest race with the log-watcher: one row of its own.
CONSTANTS
  breach_threshold = 2
  recovery_threshold = 1
  CounterCap = 2
  None = None
  DryRunModes = {FALSE}
  slack_enabled = TRUE
  MaxFaults = 1
  MaxLogRows = 1
  MaxCrashes = 0
SPECIFICATION Spec
INVARIANT RecoveryClosesOwnIncident
