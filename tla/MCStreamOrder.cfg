CONSTANTS
    Capacity <- MCCapacity
    Concurrency <- MCConcurrency
    MaxInstr <- MCMaxInstr
SPECIFICATION Spec
INVARIANT FiredInOrder
CHECK_DEADLOCK FALSE
