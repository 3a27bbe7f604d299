SPECIFICATION FairSpec
CONSTANTS
    N = 4
    LastTime = 3
    MaxParams = 2
    Inputs <- StraightLine
    Order <- MCOrderSmall
    ArgReg <- MCArgReg
    Reserved <- MCReserved
    CallerSaved <- MCCallerSaved
    ReturnReg = 0
INVARIANTS
    ProperColouring
    ClobbersAvoided
    SurvivesCalls
    SlotOwnersApart
PROPERTIES
    ColoursKept
    Termination
CHECK_DEADLOCK FALSE
