SPECIFICATION RangeSpec
CONSTANTS
    x = x
    y = y
    N = 1
    Vreg <- TwoLoopsVreg
    Inputs <- TwoLoops
INVARIANTS
    WritesMeetTheLive
CHECK_DEADLOCK FALSE
