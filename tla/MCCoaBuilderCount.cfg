CONSTANTS
    Program <- MCProgram
    None = None
INIT BuilderInit
NEXT BuilderNext
INVARIANT DescriptionMatchesCount
CHECK_DEADLOCK FALSE
