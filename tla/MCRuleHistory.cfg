\* A rule of three records within 3 seconds, records up to 2 seconds out of order.
SPECIFICATION Spec
CONSTANTS
  cooldown = 2
  Never = Never
  threshold = 3
  window = 3
  Skew = 2
  MaxGap = 3
  MaxRecords = 7
INVARIANTS TypeOK FiresAreSpaced FiresAreBursts NoBurstMissed
CHECK_DEADLOCK FALSE
