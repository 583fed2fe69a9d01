\* Two lines are enough: both arrive, one Receive reads both.
CONSTANTS
  MaxLines = 2
  MaxSends = 0
SPECIFICATION Spec
INVARIANT
  NoLineLost
CHECK_DEADLOCK FALSE
