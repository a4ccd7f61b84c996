SPECIFICATION Spec
CONSTANTS
    Threads <- NodeThreads
    Operations <- NodeOperations
INVARIANTS NoOtherDeadlock
CHECK_DEADLOCK FALSE
