SPECIFICATION Spec
CONSTANTS
    Operand <- CaseOperand
    None = None
    Programs <- GlobalTwice
INVARIANT
    UndefinedIsUnused
CHECK_DEADLOCK FALSE
