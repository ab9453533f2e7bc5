\* Two remediator runs, a second apart or in the same second, killed at any point.
CONSTANTS
    fCons = fCons  fLib = fLib  fCaesar = fCaesar  fVal = fVal
    Absent = Absent  NoBackup = NoBackup
    Files <- MCFiles
    BypassList <- MCBypassList
    UnwrapList <- MCUnwrapList
    CaesarFile = fCaesar
    LibFile = fLib
    ValidationFile = fVal
    TestNamed = {}
    UnderscoreTest = {}
    InitContent <- MCInitContent
    Seconds = {0, 1}
    MaxRuns = 2
    Kills = {FALSE, TRUE}
SPECIFICATION Spec
INVARIANT TypeOK
INVARIANT NoTestingCallAfterFix
\* the remediator exits after its last run
CHECK_DEADLOCK FALSE
