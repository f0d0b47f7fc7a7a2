CONSTANTS
    N = 8
    MaxLevel = 2
    BtpOutputLevel = 1
    BtpRotations <- IPBtpRotations
    BtpSupported = TRUE
    CatchErrors = FALSE
    ClientNodes = {}
    ClientIds = {}
    RescaleFloor = 0
    DropCounts = {1}
    StepLists = {}
    MaxData = 0
    MaxCompute = 0
    Mistakes = {"stale_input", "missing_output"}
    MaxLen = 24
    CtForms <- IPCtForms
    PtClasses = {"BfvPt", "BfvPtRingt", "BfvCmpPtRingt", "BfvPtMul", "CkksPt", "CkksPtRingt", "CkksPtMul"}
    Levels = {1}
SPECIFICATION IPSpec
INVARIANTS EveryProductSummedOnce CompressedBlocksInOrder ResultFollowsOperands
