CONSTANTS
    EnvNames <- MCEnvNames
    Vals <- MCVals
SPECIFICATION Spec
INVARIANT StreamCountPositive
CHECK_DEADLOCK FALSE
