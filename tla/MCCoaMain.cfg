CONSTANTS
    Program <- MCProgram
    None = None
    MaxRuns = 2
SPECIFICATION Spec
INVARIANTS
    TypeOK
    OutputInv
    SuccessImpliesCompleteFile
    FileIsPrefixOfDocument
    BreakdownMatchesDocument
    TallyInv
PROPERTIES
    OutputSpec
    FileChangesOnlyByDump
CHECK_DEADLOCK FALSE
