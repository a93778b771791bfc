SPECIFICATION SettleFairSpec
CONSTANTS
    Tokens = {1, 2}
    Jobs = {"sweep", "route"}
    MaxTx = 1
    MaxExec = 4
    MaxRuns = 1
    MaxFaults = 1
    MaxFailures = 1
    None = None
INVARIANT RedeemPaid
PROPERTY WinnerWaitsForRedeem SharedTxRepaired
CHECK_DEADLOCK FALSE
