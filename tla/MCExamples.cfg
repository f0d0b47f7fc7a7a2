CONSTANTS
    N = 16384
    MaxLevel = 4
    BtpOutputLevel = 0
    BtpRotations <- ExBtpRotations
    BtpSupported = TRUE
    CatchErrors = FALSE
    ClientNodes = {}
    ClientIds = {}
    RescaleFloor = 0
    DropCounts = {1}
    StepLists = {}
    MaxData = 0
    MaxCompute = 64
    Mistakes = {}
    NOp = 2
    Scripts = {"bfv_mult", "bfv_poly_7", "ckks_euclidean_distance", "ckks_logistic_regression",
               "benchmark_gpu", "conv_1_1_32_32_5_5", "conv_1_1_64_64_5_5",
               "conv_1_32_32_32_3_3", "conv_4_4_32_32_3_3", "conv_32_1_32_32_3_3"}
SPECIFICATION ExSpec
INVARIANTS
    NextStatementSucceeds
    RotationOutputsRotatedBy
    SignatureDescribesEveryNode
