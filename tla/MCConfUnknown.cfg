CONSTANTS
    EnvNames <- MCEnvNames
    Vals <- MCVals
SPECIFICATION Spec
INVARIANT UnknownWarned
CHECK_DEADLOCK FALSE
