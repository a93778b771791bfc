SPECIFICATION SystemSpec
CONSTANTS
  PayCalls = {c1, c2}
  Withdrawals = {w1}
  Purchases = {p1}
  BuilderSlots = 2
  Deposit = 2
  MaxBatches = 2
  MaxStops = 1
  NoKey = NoKey
  ShopCalls = {g1, g2}
  GasOrders = {k1, k2}
  PackageGas = 1
  StartGas = 1
  MaxSpends = 2
  TopTier = 2
  MaxTierSets = 1
  MaxPayouts = 2
  MaxHalts = 1
  f1 = f1
  FwdCalls = {f1, f2}
  MaxDeposits = 1
  MaxSent = 2
  MaxFaults = 1
  VWorkers = {v1, v2}
  VBuys = {"b1", "b2"}
  VSells = {"s1"}
  VCloses = {"m1"}
  VAddsOn = {"b2"}
  VDust = 1
  VTarget = 2
  VCash = 3
  VRetries = 0
  MaxThrows = 2
  r1 = r1
  r2 = r2
  RiskRows <- MCRiskRows
  SellRows <- MCSellRows
  RobotOf <- MCRobotOf
  UserCap = 1
  RobotCap = 1
  MaxFails = 2
  MaxTries = 2
  Traders = {"api", "worker"}
  MaxIncome = 2
  MaxMishaps = 1
CHECK_DEADLOCK FALSE
INVARIANTS
  SystemTypeOK PaidIffCredited GrantedTwiceNeedsOverlap ClaimedIsPaid
  DebitsMatchTransfers VirtualConserved OpenLotsCanClose
  WarnedBesideBalance
PROPERTIES
  SecondBatchNeedsRateLimit SecondOpenNeedsOverlap
  OverspendNeedsOverlap PaidAgainNeedsLostAnswer TierDropNeedsOverlap
  DepositsForwarded FilledStaysFilled
  CapExceededNeedsOverlap BuysResume PauseLiftedByLateRow
