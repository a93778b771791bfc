SPECIFICATION SettleSpec
CONSTANTS
    Tokens = {1}
    Jobs = {"sweep"}
    MaxTx = 1
    MaxExec = 2
    MaxRuns = 1
    MaxFaults = 1
    MaxFailures = 1
    None = None
PROPERTY MissingIsNotFlat
CHECK_DEADLOCK FALSE
