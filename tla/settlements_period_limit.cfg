\* Two requests of one member, each for a voucher that fits the limit alone.
\* The system stops when everything has been settled.
CHECK_DEADLOCK FALSE
SPECIFICATION Spec
CONSTANTS
  d1 = d1  d2 = d2  clerk = clerk
  a = a  b = b  c = c
  v = v  l = l  r = r  g = g
  Sessions = {d1, d2}
  Admins = {a, b, c}
  Workflow <- TwoSteps
  Vouchers = {v, l}
  Legacy = {}
  Rewards = {}
  Plain = {}
  Routes <- MembersRoutes
  Points = 2
  Stock = 0
  Limit = 1
INVARIANT PeriodLimit
