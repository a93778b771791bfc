SPECIFICATION LotsSpec
CONSTANTS
    Buys = {1, 2}
    EntrySize <- MCEntrySize
    LotSub <- MCLotSub
    SellSub <- MCSellSub
    SellRows = {r1}
    Execs = {e1, e2}
    Workers = {w1, w2}
    Dust = 1
    MaxTries = 2
    MaxOps = 3
    MaxDay = 2
    NoKey = NoKey
INVARIANT LotAccounted
PROPERTY ExcessNeedsOverlap SummaryDriftNeedsOverlap
CHECK_DEADLOCK FALSE
SYMMETRY MCSymmetry
