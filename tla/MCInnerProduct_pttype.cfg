CONSTANTS
    N = 8
    MaxLevel = 2
    BtpOutputLevel = 1
    BtpRotations <- IPBtpRotations
    BtpSupported = TRUE
    CatchErrors = FALSE
    ClientNodes = {}
    ClientIds = {}
    RescaleFloor = 0
    DropCounts = {1}
    StepLists = {}
    MaxData = 0
    MaxCompute = 0
    Mistakes = {"stale_input", "missing_output"}
    MaxLen = 5
    CtForms <- IPCtForms
    PtClasses = {"BfvPtRingt", "BfvCmpPtRingt", "CkksPtRingt"}
    Levels = {1}
SPECIFICATION IPSpec
INVARIANT InnerProductTaskFinalizes
