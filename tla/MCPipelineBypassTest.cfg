\* One run: does the test suite accept the gating the remediator writes?
CONSTANTS
    fCons = fCons  fLib = fLib  fCaesar = fCaesar  fVal = fVal
    Absent = Absent  NoBackup = NoBackup
    Files <- MCFiles
    BypassList <- MCBypassList
    UnwrapList <- MCUnwrapList
    CaesarFile = fCaesar
    LibFile = fLib
    ValidationFile = fVal
    TestNamed = {}
    UnderscoreTest = {}
    InitContent <- MCInitContent
    Seconds = {0}
    MaxRuns = 1
    Kills = {FALSE}
SPECIFICATION Spec
INVARIANT GatedBypassesPassTest
\* the remediator exits after its last run
CHECK_DEADLOCK FALSE
