SPECIFICATION Spec
CONSTANTS
    a = a
    b = b
    c = c
    d = d
    r10 = r10
    r11 = r11
    imm = imm
    Reg <- MCReg
    Scratch <- MCScratch
    Operand <- MCOperand
    MaxMoves = 2
INVARIANTS
    CallsCompile
CHECK_DEADLOCK FALSE
