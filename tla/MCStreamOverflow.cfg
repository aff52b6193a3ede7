CONSTANTS
    Capacity <- OvCapacity
    Concurrency <- OvConcurrency
    MaxInstr <- OvMaxInstr
SPECIFICATION Spec
INVARIANT NoLostInstruction
CHECK_DEADLOCK FALSE
