\* One outage, with the default settings of both programs.
CONSTANTS
  cap_seconds = 8
  max_attempts = 10
  connect_timeout = 3
  error_burst_count = 5
  error_burst_window = 20
  conn_fail_count = 3
  conn_fail_window = 60
  cooldown = 120
  Never = Never
  MaxTime = 200
  MaxOutages = 1
SPECIFICATION Spec
INVARIANT OutageIsAnErrorBurst
CHECK_DEADLOCK FALSE
