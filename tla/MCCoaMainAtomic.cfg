CONSTANTS
    Program <- MCProgram
    None = None
    MaxRuns = 2
SPECIFICATION Spec
INVARIANT
    EndedRunLeavesWholeFile
CHECK_DEADLOCK FALSE
