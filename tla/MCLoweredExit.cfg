SPECIFICATION RunSpec
CONSTANTS
    None = None
    Var <- MCVar
    Programs <- ExitOnly
INVARIANTS
    VisibleIsWritten
CHECK_DEADLOCK FALSE
