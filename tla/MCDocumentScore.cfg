SPECIFICATION DocVerdictsSpec
CONSTANTS
  Points = {p1, p2}
  Papers = {d1, d2}
  MaxTries = 2
INVARIANT UnableIsNotScored
CHECK_DEADLOCK FALSE
