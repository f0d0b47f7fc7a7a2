CONSTANTS
    N = 8
    MaxLevel = 1
    BtpOutputLevel = 1
    BtpRotations <- MCBtpRotations
    StepLists <- MCStepLists
    DropCounts = {1}
    BtpSupported = TRUE
    CatchErrors = FALSE
    ClientNodes <- MCDupIdNodes
    ClientIds = {"x"}
    RescaleFloor = 0
    MaxData = 3
    MaxCompute = 2
    Mistakes = {}
SPECIFICATION DupIdSpec
INVARIANTS
    OperandsAreInputs
CHECK_DEADLOCK FALSE
