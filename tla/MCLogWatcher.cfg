\* Two lives of the process, each following or replaying a log of three kinds of line.
SPECIFICATION FairSpec
CONSTANTS
  cooldown = 2
  Never = Never
  threshold = 2
  window = 1
  Modes = {"follow", "replay"}
  DryRunModes = {FALSE, TRUE}
  MaxLines = 4
  MaxGap = 1
  MaxLives = 2
INVARIANTS TypeOK RowsAreDue RowsAreSpaced
PROPERTIES DueIsRecorded
CHECK_DEADLOCK FALSE
