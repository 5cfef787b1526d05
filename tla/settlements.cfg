\* Approvers, a clerk and the member on a voucher, a voucher from before the
\* workflows, a redemption with a workflow and one without.
\* The system stops when everything has been settled.
CHECK_DEADLOCK FALSE
SPECIFICATION Spec
CONSTANTS
  d1 = d1  d2 = d2  clerk = clerk
  a = a  b = b  c = c
  v = v  l = l  r = r  g = g
  Sessions = {d1, d2, clerk}
  Admins = {a, b, c}
  Workflow <- TwoSteps
  Vouchers = {v, l}
  Legacy = {l}
  Rewards = {r, g}
  Plain = {g}
  Routes <- MCRoutes
  Points = 1
  Stock = 1
  Limit = 1
SYMMETRY Symmetric
INVARIANTS TypeOK RefundedIffVoid ApprovalAgrees Quorum NeverStuck PeriodLimit
PROPERTIES ImplementsOutcomes
