\* One outage of one server; nothing is killed.
CONSTANTS
  symbols <- MCSymbols
  max_attempts = 2
  Prices = 1
  MaxLost = 0
  NoPrice = NoPrice
  breach_threshold = 2
  recovery_threshold = 1
  CounterCap = 2
  None = None
  DryRunModes = {FALSE}
  slack_enabled = FALSE
  MaxFaults = 6
  MaxLogRows = 0
  MaxCrashes = 0
  MaxOutages = 1
  MaxKills = 0
  MaxRestartErrs = 0
  MaxTroubles = 2
SPECIFICATION MCStackUpSpec
PROPERTIES OutageSelfHeals
