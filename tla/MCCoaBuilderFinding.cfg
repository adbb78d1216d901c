CONSTANTS
    Program <- MCProgram
    None = None
INIT BuilderInit
NEXT BuilderNext
INVARIANT DerivedFallbackOnlyForHundreds
CHECK_DEADLOCK FALSE
