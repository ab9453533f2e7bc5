CONSTANTS
    f1 = f1
    f2 = f2
    t1 = t1
    t2 = t2
    t3 = t3
    NoReport = NoReport
    NoViolation = NoViolation
    Running = Running
    RustFiles <- MCRustFiles
    Texts <- MCTexts
    MaxLines = 2
    Rules <- MCRules
    Severity <- MCSeverity
    RuleCheck <- MCRuleCheck
    Matches <- MCMatches
    CargoResults = {"ok", "failed", "timeout", "missing"}

SPECIFICATION Spec
INVARIANT TypeOK
INVARIANT ExitStatusGatesDeployment
\* The validator is a batch process: once it has exited nothing is enabled.
CHECK_DEADLOCK FALSE
