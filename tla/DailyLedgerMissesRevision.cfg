SPECIFICATION SettleSpec
CONSTANTS
    Tokens = {1, 2}
    Jobs = {"sweep", "route"}
    MaxTx = 1
    MaxExec = 3
    MaxRuns = 2
    MaxFaults = 1
    MaxFailures = 1
    None = None
INVARIANT DailyExact
CHECK_DEADLOCK FALSE
