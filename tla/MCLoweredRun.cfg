SPECIFICATION RunSpec
CONSTANTS
    None = None
    Var <- MCVar
    Programs <- Functions
INVARIANTS
    BlocksFit
    VisibleIsWritten
PROPERTY
    ImplementsSource
CHECK_DEADLOCK FALSE
