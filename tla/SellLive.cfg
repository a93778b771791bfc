CONSTANTS
  t1 = t1
  s1 = s1
  s2 = s2
  u1 = u1
  a1 = a1
  w1 = w1
  w2 = w2
  Trades = {t1}
  Subs = {s1}
  Users = {u1}
  UserOf <- OneUser
  Side <- AllSell
  ApiSlots = {a1}
  WorkerSlots = {w1}
  MaxRetries = 1
  VirtualFollowers = FALSE
  MaxSignals = 1
  MaxCrashes = 1
  MaxChanges = 1
  MaxReads = 0
  MaxOld = 1
SPECIFICATION FairSpec
PROPERTY TradesProcessed
CHECK_DEADLOCK FALSE
