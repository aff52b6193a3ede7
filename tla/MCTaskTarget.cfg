CONSTANTS
    t1 = t1
    t2 = t2
    t3 = t3
    t4 = t4
    t5 = t5
    Tasks <- MCTasksValid
    Descr <- MCDescrValid
    NDevices <- MCNDevices
    Present <- MCPresent
    MaxYield <- MCMaxYield
SPECIFICATION Spec

INVARIANT TargetRespected
CHECK_DEADLOCK FALSE
