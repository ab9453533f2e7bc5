\* rg installed and the checked files present: a HIGH line the theater
\* audit counts costs 5 points. Does production_ready still imply no HIGH line?
CONSTANTS
    fCa = fCa  fDns = fDns  fCons = fCons  fApi = fApi
    tBypass = tBypass  tCfgTest = tCfgTest  tHsmComment = tHsmComment
    tLocalhost = tLocalhost  tMock = tMock  tPlain = tPlain
    Files <- MCFiles
    Dir <- MCDir
    TestNamed = {}
    FileTexts <- MCFileTexts
    MaxLines = 3
    Matches <- MCMatches
    CfgTest <- MCCfgTest
    RgInstalled = {TRUE}
    ZonesExist = {TRUE}
    ValidatorExists = {TRUE}
    CargoHsm = {FALSE}
SPECIFICATION Spec
INVARIANT ReadyOnlyWhenNoBlockingViolation
\* the audit runs once and exits
CHECK_DEADLOCK FALSE
