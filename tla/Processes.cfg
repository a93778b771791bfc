SPECIFICATION ProcessesSpec
CONSTANTS
  Robots = {b1, b2}
  EditCalls = {e1, e2}
  NoRobot = NoRobot
  MaxEdits = 2
  MaxOutages = 1
  MaxHits = 1
  Links = {n1, n2, n3, n4}
  NoLink = NoLink
  QueueWorkers = 1
  QueueLimit = 2
  o1 = o1
  o2 = o2
  Owners = {o1, o2}
  CronRuns = {"initial", "interval"}
  CronKey = "cron"
  AnalyzeKey = "analyses"
  NoOwner = NoOwner
  Wallets = {"a1", "a2"}
  Passes = {1, 2}
  QueueMax = 2
  MaxAsks = 2
  MaxRuns = 2
CHECK_DEADLOCK FALSE
INVARIANTS ProcessesTypeOK LeftOutNeedsLoss SideBySideNeedsTwoWakes LostNeedsCrossing
PROPERTIES SubscribersReturn ShutdownEnds LeaseGranted PendingEnds BoardAgrees
