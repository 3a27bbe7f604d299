SPECIFICATION Spec
CONSTANTS
    Chars <- MCChars
    Letters = {"f", "n", "x", "b"}
    Code <- MCCode
    Keywords <- MCKeywords
    Texts <- MCTexts
    Capacity = 1
    IntBits = 8
INVARIANTS
    TextIsRead
    LiteralsArrive
\* Reading stops at the end of the text.
CHECK_DEADLOCK FALSE
