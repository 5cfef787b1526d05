\* Finance, the manager with two windows, the approvers, the timer, and a giver.
SPECIFICATION Spec
CHECK_DEADLOCK FALSE
CONSTANTS
  finance = finance  manager = manager
  fund = fund  auto = auto  back = back
  small = small  large = large
  Sessions = {finance, manager}
  Rosters <- MCRosters
  Requests = {fund, auto, back}
  Type <- MCType
  Size <- MCSize
  Windows <- MCWindows
  Horizon = 2
  MaxCycles = 2
  MaxFaults = 1
  Budgets = {1, 2}
  Created = {2}
  Awards = {1, 2}
  MaxVersions = 2
  MaxBatches = 2
  Gives = {small, large}
  To <- MCTo
  Points <- MCPoints
  AllowanceAmount = 3
  CycleLength = 1
  PairLimit = 2
  PairPeriod = 1
INVARIANTS TypeOK AllocationCovered EscrowConserved ApprovedAsShown ClosedHoldsNothing PairLimitKept SpentWithinAllowance
PROPERTIES NothingFromOver OverCyclesClose
