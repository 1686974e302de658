\* A kill, an outage, a failing restart and a watchdog that dies, together.
CONSTANTS
  symbols <- MCSymbols
  max_attempts = 2
  Prices = 1
  MaxLost = 0
  NoPrice = NoPrice
  breach_threshold = 2
  recovery_threshold = 1
  CounterCap = 2
  None = None
  DryRunModes = {FALSE}
  slack_enabled = FALSE
  MaxFaults = 8
  MaxLogRows = 0
  MaxCrashes = 1
  MaxOutages = 1
  MaxKills = 1
  MaxRestartErrs = 1
  MaxTroubles = 2
SPECIFICATION SystemFairSpec
PROPERTIES IsWatchdog KillIsRecovered
