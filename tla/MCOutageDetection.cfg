\* Two outages, scaled down: retries after 1, 2 and 4 seconds.
CONSTANTS
  cap_seconds = 4
  max_attempts = 4
  connect_timeout = 1
  error_burst_count = 5
  error_burst_window = 6
  conn_fail_count = 3
  conn_fail_window = 14
  cooldown = 16
  Never = Never
  MaxTime = 36
  MaxOutages = 2
SPECIFICATION Spec
INVARIANTS TypeOK OutageStaysOnRecord NoFalseAlarm
CHECK_DEADLOCK FALSE
