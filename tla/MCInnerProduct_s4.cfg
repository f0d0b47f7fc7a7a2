CONSTANTS
    N = 8
    MaxLevel = 2
    BtpOutputLevel = 1
    BtpRotations <- IPBtpRotations
    BtpSupported = TRUE
    CatchErrors = FALSE
    ClientNodes = {}
    ClientIds = {}
    RescaleFloor = 0
    DropCounts = {1}
    StepLists = {}
    MaxData = 0
    MaxCompute = 0
    Mistakes = {"stale_input", "missing_output"}
    MaxLen = 5
    CtForms <- IPCtForms
    PtClasses = {"BfvPtRingt", "CkksPtRingt"}
    Levels = {1}
    InitCalls <- S4Calls
SPECIFICATION IPSpec
INVARIANT SpecGreedySlicing
