CONSTANTS
    N = 8
    MaxLevel = 2
    BtpOutputLevel = 1
    BtpRotations <- MCBtpRotations
    StepLists <- MCStepLists
    DropCounts = {1, 2}
    BtpSupported = TRUE
    CatchErrors = FALSE
    ClientNodes <- MCKeyNodes
    ClientIds = {}
    RescaleFloor = 0
    MaxData = 6
    MaxCompute = 4
    Mistakes = {"stale_input", "missing_output"}
SPECIFICATION KeysSpec
INVARIANTS
    TypeOK
    KeyLevelCoversUses
    EmittedKeysAreInputs
    RotationOutputsRotatedBy
    NafMatchesReference
    RotateColsRotatesBy
    KeyNameIdentifiesRotation
    BootstrapKeySetsAsSpecified
PROPERTY
    ImplementsTaskContext
CHECK_DEADLOCK FALSE
