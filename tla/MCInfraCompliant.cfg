CONSTANTS
    NoFault = NoFault
    Running = Running
    NoReport = NoReport
    Accounts <- MCAccounts
    FaultyCalls <- MCFaultyCalls

SPECIFICATION Spec
INVARIANT CompliantAccountPasses
\* The validator is a script: it stops once it has exited.
CHECK_DEADLOCK FALSE
