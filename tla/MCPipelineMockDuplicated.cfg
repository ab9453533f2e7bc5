\* One run: does the mock-provider move add a CRITICAL audit finding?
CONSTANTS
    fCons = fCons  fLib = fLib  fCaesar = fCaesar  fVal = fVal
    Absent = Absent  NoBackup = NoBackup
    Files <- MCFiles
    BypassList <- MCBypassList
    UnwrapList <- MCUnwrapList
    CaesarFile = fCaesar
    LibFile = fLib
    ValidationFile = fVal
    TestNamed = {}
    UnderscoreTest = {}
    InitContent <- MCInitContent
    Seconds = {0}
    MaxRuns = 1
    Kills = {FALSE}
SPECIFICATION Spec
INVARIANT RemediationAddsNoCritical
\* the remediator exits after its last run
CHECK_DEADLOCK FALSE
