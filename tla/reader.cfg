SPECIFICATION Spec
CONSTANTS
    Runs <- AllRuns
    Hints = {"zero", "garbage"}
INVARIANTS
    OutputsAsWritten
    LegalFilesAreRead
CHECK_DEADLOCK FALSE
