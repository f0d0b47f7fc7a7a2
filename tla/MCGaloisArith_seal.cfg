CONSTANTS
    Degrees = {8, 16, 32}
    StepBound = 3
SPECIFICATION Spec
INVARIANT SealSkipsIdentityRotations
