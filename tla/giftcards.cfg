\* Two requests at once on a card, a lock that lapses, and the job.
SPECIFICATION Spec
CHECK_DEADLOCK FALSE
CONSTANTS
  p1 = p1  p2 = p2
  one = one  all = all  back = back  cancel = cancel
  Sessions = {p1, p2}
  Requests = {one, all, back, cancel}
  Op <- MCOp
  Amount <- MCAmount
  Initial = 2
  NoOne = NoOne
  MaxLapses = 2
  MaxCrashes = 1
INVARIANTS TypeOK NothingBeyondCard StatusAgrees
PROPERTIES DueCardsExpire
