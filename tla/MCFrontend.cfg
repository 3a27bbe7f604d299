SPECIFICATION Spec
CONSTANTS
    Names <- MCNames
    Identifiers <- MCNames
    Literals <- MCLiterals
    Chars <- MCChars
    Texts <- MCTexts
    EmptyTexts <- MCEmptyTexts
    Basic <- MCBasic
    Quoted <- MCQuoted
    MaxRounds = 6
    KnownNames <- MCKnown
    MacroFiles <- MCMacroFiles
    PlainFiles <- MCPlainFiles
INVARIANTS
    ParsesTheGrammar
    AcceptedIsWellScoped
PROPERTIES
    RoundsKeepTheMeaning
    EveryFileEnds
