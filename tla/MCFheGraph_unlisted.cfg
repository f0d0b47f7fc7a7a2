CONSTANTS
    N = 8
    MaxLevel = 2
    BtpOutputLevel = 1
    BtpRotations <- MCBtpRotations
    StepLists <- MCStepLists
    DropCounts = {1}
    BtpSupported = TRUE
    CatchErrors = FALSE
    ClientNodes <- MCDupIdNodes
    ClientIds = {}
    RescaleFloor = 0
    MaxData = 6
    MaxCompute = 3
    Mistakes = {"stale_output"}
SPECIFICATION ArithSpec
INVARIANT EmittedOutputsInGraph
CHECK_DEADLOCK FALSE
