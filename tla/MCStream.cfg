CONSTANTS
    Capacity <- MCCapacity
    Concurrency <- MCConcurrency
    MaxInstr <- MCMaxInstr
SPECIFICATION Spec
INVARIANT TypeOK
INVARIANT NoLostInstruction
PROPERTY EveryInstructionFires
PROPERTY ImplementsContract
CHECK_DEADLOCK FALSE
