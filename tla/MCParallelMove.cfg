SPECIFICATION FairSpec
CONSTANTS
    a = a
    b = b
    c = c
    d = d
    r10 = r10
    r11 = r11
    imm = imm
    Reg <- MCReg
    Scratch <- MCScratch
    Operand <- MCOperand
    MaxMoves = 4
INVARIANTS
    ParallelResult
    PendingSourceIntact
PROPERTIES
    Termination
    ImplementsParallelAssign
CHECK_DEADLOCK FALSE
