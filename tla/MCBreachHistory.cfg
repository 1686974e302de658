\* Two thresholds that differ, so that a swap of the two shows.
CONSTANTS
  breach_threshold = 3
  recovery_threshold = 2
  CounterCap = 4
  None = None
  Clock = {1, 4}
  MaxPolls = 8
SPECIFICATION Spec
INVARIANTS
  TypeOK
  OpenIffConfirmed
  StartIsConfirmingPoll
  DecisionsAreEdges
CHECK_DEADLOCK FALSE
