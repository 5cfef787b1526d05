\* An administrator and the member, beside the daily job.
SPECIFICATION Spec
CONSTANTS
  job = job  admin = admin  user = user
  g1 = g1  g2 = g2  s1 = s1  r1 = r1
  Sessions = {admin, user}
  Job = job
  Rosters <- MCRosters
  Grants = {g1, g2}
  Amount <- MCAmount
  Expiry <- MCExpiry
  Spends = {s1}
  Cost <- MCCost
  Runs = {r1}
  Horizon = 2
  MaxLots = 4
INVARIANTS TypeOK LotsBackBalance ExpiryConserved
PROPERTIES FirstToExpireFirst DueLotsLapse LeaversLeave
