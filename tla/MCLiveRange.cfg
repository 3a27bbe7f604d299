SPECIFICATION RangeFairSpec
CONSTANTS
    x = x
    y = y
    N = 3
    Vreg <- MCVreg
    Inputs <- Functions
INVARIANTS
    WritesMeetTheLive
    ParametersMeet
    NothingSuperfluous
    EquationsSolved
    LiveIsReadLater
PROPERTIES
    Termination
CHECK_DEADLOCK FALSE
