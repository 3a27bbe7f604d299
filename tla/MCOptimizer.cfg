SPECIFICATION LiveSpec
CONSTANTS
    Operand <- MCOperand
    None = None
    Programs <- MCPrograms
INVARIANTS
    ReadersListed
    ReadsAreDefined
    SameEffects
    DeadCodeGone
PROPERTY
    Termination
CHECK_DEADLOCK FALSE
