CONSTANTS
    Program <- MCProgram
    None = None
INIT BuilderInit
NEXT BuilderNext
INVARIANTS
    CodesUnique
    ForestWellFormed
CHECK_DEADLOCK FALSE
