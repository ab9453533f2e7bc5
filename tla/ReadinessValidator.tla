------------------------- MODULE ReadinessValidator -------------------------
(***************************************************************************)
(* SECURITY_PRODUCTION_READINESS_VALIDATOR.py: TrustChainSecurityValidator *)
(* and main.                                                               *)
(*                                                                         *)
(* run_complete_security_audit calls the check methods in a fixed order.   *)
(* Each one calls _scan_for_pattern once per pattern, with the check's     *)
(* SecurityLevel.  _scan_for_pattern is the same rule-major loop as the    *)
(* quantum audit's: for each call, rglob("*.rs") re-enumerates trustchain/ *)
(* src, every file is read whole, and a file whose open or readlines      *)
(* raises is skipped after a printed warning.  That loop is taken from      *)
(* PatternScan by INSTANCE, with every yielded path in scope.              *)
(*                                                                         *)
(* After the scans, check_compilation_security runs cargo check.  Only     *)
(* TimeoutExpired is caught: a missing cargo or a missing trustchain       *)
(* directory raises FileNotFoundError, and the process ends with a        *)
(* traceback and status 1.  generate_security_report tallies the           *)
(* violations.  main then writes the report file and exits with 0 exactly *)
(* when production_ready holds.  The tree and cargo's verdict on it are   *)
(* inputs fixed in Init.                                                   *)
(***************************************************************************)
EXTENDS Integers, Sequences, SequencesExt, FiniteSets

CONSTANTS
    RustFiles,      \* the paths rglob("*.rs") yields under trustchain/src
    Texts,          \* the distinct line texts files are made of
    MaxLines,       \* longest file considered
    Rules,          \* the patterns, in the order the checks scan for them
    Severity,       \* Severity[r]: the SecurityLevel passed with pattern r
    RuleCheck,      \* RuleCheck[r]: the check method that scans for r
    Matches,        \* <<r, t>> \in Matches: re.search(r, t, re.IGNORECASE)
    CargoResults    \* what `cargo check --all-targets` may do on the tree

CONSTANTS NoReport, NoViolation, Running   \* model values

VARIABLES
    content, readable, pending, pattern, todo, findings,  \* as in PatternScan
    cargo,      \* cargo check's outcome on this tree (input, constant)
    build,      \* the COMPILATION_FAILURE or BUILD_TIMEOUT violation, if any
    stage,      \* where run_complete_security_audit and main are
    report,     \* the report dict generate_security_report returns
    saved,      \* SECURITY_VIOLATIONS_REPORT.json was written
    exitCode    \* the process exit status, Running while it runs

scanVars == <<content, readable, pending, pattern, todo, findings>>
validatorVars == <<cargo, build, stage, report, saved>>
vars == <<scanVars, validatorVars, exitCode>>

Scan == INSTANCE PatternScan WITH Files <- RustFiles, InScope <- RustFiles

\* SecurityLevel: this validator has no INFO level.
Levels == {"CRITICAL", "HIGH", "MEDIUM", "LOW"}

\* The check methods in the order run_complete_security_audit calls them,
\* and the SecurityLevel each passes with its patterns.
CheckOrder == <<"placeholder", "dummy_signature", "weak_crypto", "hsm", "auto_consensus",
                "test_proofs", "transport", "storage", "test_data">>
CheckLevel == [placeholder |-> "CRITICAL", dummy_signature |-> "CRITICAL",
               weak_crypto |-> "HIGH", hsm |-> "CRITICAL", auto_consensus |-> "CRITICAL",
               test_proofs |-> "HIGH", transport |-> "CRITICAL", storage |-> "CRITICAL",
               test_data |-> "MEDIUM"]

CheckIndex(c) == CHOOSE k \in DOMAIN CheckOrder : CheckOrder[k] = c

ASSUME \A r \in DOMAIN Severity : Severity[r] = CheckLevel[RuleCheck[r]]
ASSUME \A i, j \in DOMAIN Rules :
          i < j => CheckIndex(RuleCheck[Rules[i]]) <= CheckIndex(RuleCheck[Rules[j]])
ASSUME CargoResults \subseteq {"ok", "failed", "timeout", "missing"}

\* check_compilation_security: a non-zero return code appends a CRITICAL
\* COMPILATION_FAILURE; subprocess.TimeoutExpired appends a HIGH
\* BUILD_TIMEOUT.
BuildLevel == [COMPILATION_FAILURE |-> "CRITICAL", BUILD_TIMEOUT |-> "HIGH"]

\* Mutant: the timeout is recorded under the cargo error's type name.
BuildViolationTimeoutExpired(c) ==
    CASE c = "failed"  -> "COMPILATION_FAILURE"
      [] c = "timeout" -> "TimeoutExpired"
      [] OTHER         -> NoViolation

BuildViolation(c) ==
    CASE c = "failed"  -> "COMPILATION_FAILURE"
      [] c = "timeout" -> "BUILD_TIMEOUT"
      [] OTHER         -> NoViolation

\* generate_security_report's severity_counts over self.violations: the
\* pattern findings, then the build violation appended after them.
SeverityCounts(fs, b) ==
    [s \in Levels |-> Scan!CountOf(fs, s) + IF b /= NoViolation /\ BuildLevel[b] = s THEN 1 ELSE 0]

\* Mutant: only CRITICAL violations block production.
ValidatorReadyCritOnly(counts) == counts["CRITICAL"] = 0

ValidatorReady(counts) == counts["CRITICAL"] = 0 /\ counts["HIGH"] = 0

ValidatorReport(fs, b) ==
    LET counts == SeverityCounts(fs, b)
    IN  [counts |-> counts,
         total  |-> Len(fs) + IF b = NoViolation THEN 0 ELSE 1,
         ready  |-> ValidatorReady(counts)]

-----------------------------------------------------------------------------
Init ==
    /\ content \in [RustFiles -> BoundedSeq(Texts, MaxLines)]
    /\ readable \in SUBSET RustFiles
    /\ pending = Rules
    /\ pattern = NoReport
    /\ todo = {}
    /\ findings = <<>>
    /\ cargo \in CargoResults
    /\ build = NoViolation
    /\ stage = "scan"
    /\ report = NoReport
    /\ saved = FALSE
    /\ exitCode = Running

\* One step of a check method's _scan_for_pattern call: the next pattern's
\* rglob pass starts, or the pass yields a file that is scanned or skipped.
ScanForPattern ==
    /\ stage = "scan"
    /\ \/ Scan!StartPattern
       \/ \E f \in RustFiles : Scan!ScanFile(f) \/ Scan!ReadFails(f)
    /\ UNCHANGED <<validatorVars, exitCode>>

\* check_compilation_security once every pattern is done: cargo ran.
CheckCompilation ==
    /\ stage = "scan" /\ pending = <<>> /\ todo = {}
    /\ cargo /= "missing"
    /\ build' = BuildViolation(cargo)
    /\ stage' = "report"
    /\ UNCHANGED <<scanVars, cargo, report, saved, exitCode>>

\* subprocess.run raises FileNotFoundError, which nothing catches.
CargoNotFound ==
    /\ stage = "scan" /\ pending = <<>> /\ todo = {}
    /\ cargo = "missing"
    /\ stage' = "done"
    /\ exitCode' = 1
    /\ UNCHANGED <<scanVars, cargo, build, report, saved>>

GenerateSecurityReport ==
    /\ stage = "report"
    /\ report' = ValidatorReport(findings, build)
    /\ stage' = "save"
    /\ UNCHANGED <<scanVars, cargo, build, saved, exitCode>>

\* main: json.dump to the report file (open may raise, ending the process
\* with status 1), then exit(0) if production_ready else exit(1).
SaveAndExit(ok) ==
    /\ stage = "save"
    /\ saved' = ok
    /\ exitCode' = IF ok /\ report.ready THEN 0 ELSE 1
    /\ stage' = "done"
    /\ UNCHANGED <<scanVars, cargo, build, report>>

Next ==
    \/ ScanForPattern
    \/ CheckCompilation
    \/ CargoNotFound
    \/ GenerateSecurityReport
    \/ \E ok \in BOOLEAN : SaveAndExit(ok)

Spec == Init /\ [][Next]_vars /\ WF_vars(Next)

-----------------------------------------------------------------------------
TypeOK ==
    /\ Scan!TypeOK
    /\ cargo \in CargoResults
    /\ build \in {NoViolation, "COMPILATION_FAILURE", "BUILD_TIMEOUT"}
    /\ stage \in {"scan", "report", "save", "done"}
    /\ report \in {NoReport} \cup [counts : [Levels -> Nat], total : Nat, ready : BOOLEAN]
    /\ saved \in BOOLEAN
    /\ exitCode \in {Running, 0, 1}

\* Some CRITICAL or HIGH pattern matches a line of a .rs file that can be
\* read.
BlockingMatch ==
    \E r \in DOMAIN Severity, f \in RustFiles \cap readable :
        /\ Severity[r] \in {"CRITICAL", "HIGH"}
        /\ \E k \in DOMAIN Rules : Rules[k] = r
        /\ \E i \in 1..Len(content[f]) : <<r, content[f][i]>> \in Matches

(***************************************************************************)
(* The exit status is the deployment gate: once the process has ended, it  *)
(* exited 0 exactly when the report file was written, cargo check passed,  *)
(* and no CRITICAL or HIGH pattern matches any line of a readable .rs      *)
(* file.  This holds whatever order rglob yields files in on each of the   *)
(* pattern passes, and through every crash path.                           *)
(***************************************************************************)
ExitStatusGatesDeployment ==
    stage = "done" => (exitCode = 0 <=> saved /\ cargo = "ok" /\ ~BlockingMatch)

=============================================================================
