CONSTANTS
    t1 = t1
    t2 = t2
    NoReport = NoReport
    Running = Running
    Files <- MCFiles
    InScope <- MCInScope
    FalconFiles <- MCFalconFiles
    Texts <- MCTexts
    MaxLines = 2
    Rules <- MCRules
    PatternSeverity <- MCPatternSeverity
    Matches <- MCMatches
    Has <- MCHas

SPECIFICATION Spec
INVARIANT TypeOK
INVARIANT ReportCountsMatchFileSystem
INVARIANT ExitStatusGatesDeployment
PROPERTY ImplementsScanReportSpec
\* main exits once the reports are written; nothing runs after that.
CHECK_DEADLOCK FALSE
