\* Two clerks on one voucher from before the workflows: one completes it, the
\* other cancels it.
\* The system stops when everything has been settled.
CHECK_DEADLOCK FALSE
SPECIFICATION Spec
CONSTANTS
  d1 = d1  d2 = d2  clerk = clerk
  a = a  b = b  c = c
  v = v  l = l  r = r  g = g
  Sessions = {d1, d2}
  Admins = {a, b, c}
  Workflow <- TwoSteps
  Vouchers = {l}
  Legacy = {l}
  Rewards = {}
  Plain = {}
  Routes <- ClerksRoutes
  Points = 0
  Stock = 0
  Limit = 1
INVARIANT RefundedIffVoid
