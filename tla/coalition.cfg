\* Two requests under one reference, a partner that loses calls, a process that dies.
SPECIFICATION Spec
CHECK_DEADLOCK FALSE
CONSTANTS
  r1 = r1  p1 = p1  p2 = p2
  Sessions = {p1, p2}
  Keys <- MCKeys
  CanReverse = TRUE
  MaxCrashes = 1
  MaxReversals = 2
INVARIANTS TypeOK SentByOneRequest LocalFollows
PROPERTIES Settles
