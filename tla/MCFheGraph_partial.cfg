CONSTANTS
    N = 8
    MaxLevel = 2
    BtpOutputLevel = 1
    BtpRotations <- MCBtpRotations
    StepLists <- MCStepLists
    DropCounts = {1, 2}
    BtpSupported = TRUE
    CatchErrors = TRUE
    ClientNodes <- MCArithNodes
    ClientIds = {}
    RescaleFloor = 0
    MaxData = 4
    MaxCompute = 3
    Mistakes = {"stale_input", "missing_output"}
SPECIFICATION ArithSpec
PROPERTY FailedCallLeavesGraphUnchanged
CHECK_DEADLOCK FALSE
