SPECIFICATION AnalysisSpec
CONSTANTS
    Names <- MCNames
    Identifiers <- MCNames
    Literals <- MCLiterals
    Chars <- MCChars
    Texts <- MCTexts
    EmptyTexts = {}
    Basic <- MCBasic
    Quoted <- MCQuoted
    MaxRounds = 1
    KnownNames = {}
    MacroFiles = {}
    PlainFiles <- MCPlainFiles
INVARIANTS
    PassedFits
    TakenIsInMemory
