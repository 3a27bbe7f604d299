SPECIFICATION Spec
CONSTANTS
    Operand <- CaseOperand
    None = None
    Programs <- ImpureCall
INVARIANT
    EffectsStay
CHECK_DEADLOCK FALSE
