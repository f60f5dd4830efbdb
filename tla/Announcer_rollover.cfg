SPECIFICATION Spec
CONSTANTS
  b1 = b1
  b2 = b2
  Clear = Clear
  p1 = p1
  p2 = p2
  Boss <- MCBoss
  Order <- MCOrder
  Poll <- MCOnePoll
  MaxAttempts = 2
  MaxFaults = 0
  Team = FALSE
  SuppressClear = FALSE
  Partial = FALSE
INVARIANTS RolloverEarnsItsClear
