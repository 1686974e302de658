\* The log is written in pieces, truncated and removed while it is followed or
\* replayed.
SPECIFICATION FairSpec
CONSTANTS
  Modes = {"follow", "replay"}
  MaxLines = 4
  MaxTruncations = 2
  MaxRotations = 2
INVARIANTS TypeOK NoGarbage
PROPERTIES StreamSpec SeesWhatIsWritten
CHECK_DEADLOCK FALSE
