SPECIFICATION Spec
CONSTANTS
    Inputs <- RealFunctions
    Order <- X86Order
    ArgReg <- X86ArgReg
    Reserved <- X86Reserved
    CallerSaved <- X86CallerSaved
    ReturnReg = 0
INVARIANTS
    ParamsAvoidClobbers
    NotOverwritten
CHECK_DEADLOCK FALSE
