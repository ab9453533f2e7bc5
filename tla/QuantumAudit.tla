---------------------------- MODULE QuantumAudit ----------------------------
(***************************************************************************)
(* QUANTUM_CERTIFICATE_SECURITY_AUDIT.py as a whole: run_complete_audit,  *)
(* the named-file audits (_audit_file with the four check functions), the *)
(* FALCON-1024 rglob check, the pattern passes, generate_security_report  *)
(* and main's save and exit.                                              *)
(*                                                                         *)
(* run_complete_audit awaits the six audit_* methods in order.  The first *)
(* four call _audit_file on a fixed list of paths, and audit_quantum_     *)
(* cryptography then calls _check_falcon_1024_implementation, which       *)
(* rglobs for quantum_security.rs.  The other _check_* methods they call  *)
(* are `pass`.  The last two audits are the pattern passes; that loop is  *)
(* PatternScan's, taken by INSTANCE.  Every finding goes to the one list  *)
(* self.findings, so a file finding is a PatternScan Finding whose rule   *)
(* is the check that produced it.                                          *)
(*                                                                         *)
(* The check functions test `literal in content`: a line is a model value  *)
(* and the literals each line holds are the constant relation Has.  None  *)
(* of the literals has a newline, so content holds one exactly when a     *)
(* line does.  The audit never awaits anything that suspends; the awaits  *)
(* are plain calls.  The statistics counters are printed and never read,  *)
(* so they are left out.                                                   *)
(***************************************************************************)
EXTENDS Integers, Sequences, SequencesExt, FiniteSets

CONSTANTS
    Files,          \* paths under project_root (rglob("*") yields them)
    InScope,        \* those with suffix .rs, .ts, .tsx, .js or .sol
    FalconFiles,    \* those rglob("**/quantum_security.rs") yields
    Texts,          \* the distinct line texts files are made of
    MaxLines,       \* longest file considered
    Rules,          \* the _scan_for_pattern patterns, in call order
    PatternSeverity,\* PatternSeverity[r]: the severity passed with r
    Matches,        \* <<r, t>> \in Matches: re.search(r, t, re.IGNORECASE)
    Has             \* <<t, s>> \in Has: the literal s is a substring of t

CONSTANTS NoReport, Running   \* model values

VARIABLES
    content, readable, pending, pattern, todo, findings, report,  \* as in PatternScan
    plan,       \* the _audit_file calls and the FALCON check still to run
    falconTodo, \* quantum_security.rs files the FALCON rglob has still to yield
    saved,      \* both report files were written
    exitCode    \* the process exit status, Running while it runs

scanVars == <<content, readable, pending, pattern, todo, findings, report>>
vars == <<scanVars, plan, falconTodo, saved, exitCode>>

\* The SecuritySeverity of every finding the check functions append.
FileCheckSeverity ==
    [nist_level |-> "MEDIUM", entropy |-> "HIGH", falcon_simulated |-> "CRITICAL",
     mock_material |-> "CRITICAL", permissive |-> "HIGH", ct_storage |-> "HIGH",
     auto_consensus |-> "CRITICAL", no_proof_validation |-> "CRITICAL",
     api_no_auth |-> "HIGH", xss |-> "HIGH", falcon_rglob |-> "CRITICAL"]

ASSUME DOMAIN PatternSeverity \cap DOMAIN FileCheckSeverity = {}
ASSUME FalconFiles \subseteq InScope
\* A line holding mock_public_key or mock_signature holds mock_, and one
\* holding certificate_validation: 'permissive' holds permissive.
ASSUME \A t \in Texts :
          /\ (<<t, "mock_public_key">> \in Has \/ <<t, "mock_signature">> \in Has)
                => <<t, "mock_">> \in Has
          /\ <<t, "certificate_validation: 'permissive'">> \in Has => <<t, "permissive">> \in Has

AllSeverity == PatternSeverity @@ FileCheckSeverity

Scan == INSTANCE PatternScan WITH Severity <- AllSeverity

\* The audit_* methods' file lists and calls, in run_complete_audit's order.
FileStep(p, c) == [kind |-> "file", path |-> p, check |-> c]
FalconStep == [kind |-> "falcon", path |-> "", check |-> ""]

AuditPlan ==
    << FileStep("hypermesh/src/consensus/src/detection/quantum_security.rs", "quantum"),
       FileStep("hypermesh/core/shared/src/crypto.rs", "quantum"),
       FileStep("trustchain/src/crypto/certificate.rs", "quantum"),
       FileStep("ui/frontend/components/trustchain/QuantumSecuritySettings.tsx", "quantum"),
       FalconStep,
       FileStep("trustchain/src/ca/certificate_manager.rs", "certificate"),
       FileStep("trustchain/src/ca/certificate_authority.rs", "certificate"),
       FileStep("trustchain/src/ca/certificate_store.rs", "certificate"),
       FileStep("hypermesh/src/security/src/certificates.rs", "certificate"),
       FileStep("ui/frontend/components/trustchain/CertificateOverview.tsx", "certificate"),
       FileStep("hypermesh/core/consensus/src/consensus_manager.rs", "consensus"),
       FileStep("hypermesh/core/runtime/src/consensus_validation.rs", "consensus"),
       FileStep("caesar/caes-token/contracts/hypermesh/ConsensusProofEngine.sol", "consensus"),
       FileStep("ui/frontend/lib/api/hooks/useCertificates.ts", "api"),
       FileStep("ui/frontend/components/modules/trustchain/hooks/useQuantumSecurity.ts", "api") >>

\* The planned paths for which `".tsx" in file_path` holds.
TsxPaths == {"ui/frontend/components/trustchain/QuantumSecuritySettings.tsx",
             "ui/frontend/components/trustchain/CertificateOverview.tsx"}

(***************************************************************************)
(* The check functions over the lines of file f.                          *)
(***************************************************************************)
In(f, s) == \E i \in 1..Len(content[f]) : <<content[f][i], s>> \in Has

\* Mutant: enumerate(lines) without start=1, numbering lines from 0.
FirstLineFromZero(f, s) ==
    LET hits == {i \in 1..Len(content[f]) : <<content[f][i], s>> \in Has}
    IN  IF hits = {} THEN 0 ELSE Min(hits) - 1

\* next((i for i, line in enumerate(lines, 1) if s in line), 0)
FirstLine(f, s) ==
    LET hits == {i \in 1..Len(content[f]) : <<content[f][i], s>> \in Has}
    IN  IF hits = {} THEN 0 ELSE Min(hits)

Hit(rule, f, line) == <<[rule |-> rule, file |-> f, line |-> line]>>
If(cond, rule, f, line) == IF cond THEN Hit(rule, f, line) ELSE <<>>

CheckQuantumSecurity(f) ==
    If(In(f, "NIST levels 1-5") /\ In(f, "nist_level: u8"),
       "nist_level", f, FirstLine(f, "nist_level: u8"))
    \o If(In(f, "entropy_quality: f64") /\ FirstLine(f, "entropy_quality: 0.95") = 0,
          "entropy", f, 1)
    \o If(In(f, "simulate_falcon_validation"),
          "falcon_simulated", f, FirstLine(f, "simulate_falcon_validation"))

\* The Ok(())/store_entry finding needs both on one line; line_num > 0.
StoreLine(f) ==
    LET hits == {i \in 1..Len(content[f]) : <<content[f][i], "Ok(())">> \in Has
                                            /\ <<content[f][i], "store_entry">> \in Has}
    IN  IF hits = {} THEN 0 ELSE Min(hits)

CheckCertificateSecurity(f) ==
    If(In(f, "mock_public_key") \/ In(f, "mock_signature"),
       "mock_material", f, FirstLine(f, "mock_"))
    \o If(In(f, "certificate_validation: 'permissive'"),
          "permissive", f, FirstLine(f, "permissive"))
    \o If(In(f, "Ok(())") /\ In(f, "store_entry") /\ StoreLine(f) > 0,
          "ct_storage", f, StoreLine(f))

CheckConsensusSecurity(f) ==
    If(In(f, "Ok(ConsensusResult::Valid)"),
       "auto_consensus", f, FirstLine(f, "Ok(ConsensusResult::Valid)"))
    \o If(In(f, "validate_certificate_request") /\ In(f, "Placeholder"),
          "no_proof_validation", f, FirstLine(f, "Placeholder"))

CheckApiSecurity(f) ==
    If(f \in TsxPaths /\ In(f, "fetch(") /\ ~In(f, "Authorization"),
       "api_no_auth", f, FirstLine(f, "fetch("))
    \o If(In(f, "dangerouslySetInnerHTML"),
          "xss", f, FirstLine(f, "dangerouslySetInnerHTML"))

CheckFindings(c, f) ==
    CASE c = "quantum"     -> CheckQuantumSecurity(f)
      [] c = "certificate" -> CheckCertificateSecurity(f)
      [] c = "consensus"   -> CheckConsensusSecurity(f)
      [] c = "api"         -> CheckApiSecurity(f)

-----------------------------------------------------------------------------
Init ==
    /\ Scan!Init
    /\ plan = AuditPlan
    /\ falconTodo = {}
    /\ saved = FALSE
    /\ exitCode = Running

NextStep == Head(plan)

\* _audit_file: the path exists and open/read succeed; the check function
\* appends its findings.
AuditFile ==
    /\ falconTodo = {} /\ plan /= <<>> /\ NextStep.kind = "file"
    /\ NextStep.path \in Files /\ NextStep.path \in readable
    /\ findings' = findings \o CheckFindings(NextStep.check, NextStep.path)
    /\ plan' = Tail(plan)
    /\ UNCHANGED <<content, readable, pending, pattern, todo, report, falconTodo, saved, exitCode>>

\* Mutant: a missing or unreadable file ends the audit instead of only
\* the one _audit_file call.
AuditFileSkippedAll ==
    /\ falconTodo = {} /\ plan /= <<>> /\ NextStep.kind = "file"
    /\ NextStep.path \notin Files \cap readable
    /\ plan' = <<>>
    /\ UNCHANGED <<scanVars, falconTodo, saved, exitCode>>

\* _audit_file: "File not found", or the read raised and the except
\* printed the error; either way nothing is appended.
AuditFileSkipped ==
    /\ falconTodo = {} /\ plan /= <<>> /\ NextStep.kind = "file"
    /\ NextStep.path \notin Files \cap readable
    /\ plan' = Tail(plan)
    /\ UNCHANGED <<scanVars, falconTodo, saved, exitCode>>

\* _check_falcon_1024_implementation: list(rglob(...)) is taken up front.
StartFalconCheck ==
    /\ falconTodo = {} /\ plan /= <<>> /\ NextStep.kind = "falcon"
    /\ falconTodo' = FalconFiles
    /\ plan' = Tail(plan)
    /\ UNCHANGED <<scanVars, saved, exitCode>>

\* One file of that list, in rglob's order: a CRITICAL finding at line 1
\* if it simulates FALCON; a read error is swallowed by the bare except.
CheckFalconFile(f) ==
    /\ f \in falconTodo
    /\ falconTodo' = falconTodo \ {f}
    /\ findings' = findings \o If(f \in readable /\ In(f, "simulate_falcon_validation"),
                                  "falcon_rglob", f, 1)
    /\ UNCHANGED <<content, readable, pending, pattern, todo, report, plan, saved, exitCode>>

\* audit_configuration_security and audit_production_readiness: one step
\* of a _scan_for_pattern pass.
ScanForPattern ==
    /\ plan = <<>> /\ falconTodo = {}
    /\ \/ Scan!StartPattern
       \/ \E f \in Files : Scan!ScanFile(f) \/ Scan!ReadFails(f) \/ Scan!SkipFile(f)
    /\ UNCHANGED <<plan, falconTodo, saved, exitCode>>

GenerateSecurityReport ==
    /\ plan = <<>> /\ falconTodo = {}
    /\ Scan!GenerateReport
    /\ UNCHANGED <<plan, falconTodo, saved, exitCode>>

\* Mutant: a failed write is swallowed and the exit status still follows
\* production_ready.
SaveAndExitIgnoringWrite(ok) ==
    /\ report /= NoReport /\ exitCode = Running
    /\ saved' = ok
    /\ exitCode' = IF report.ready THEN 0 ELSE 1
    /\ UNCHANGED <<scanVars, plan, falconTodo>>

\* main: json.dump the report, write the executive summary (either open may
\* raise, ending the process with status 1), then exit(0) if
\* production_ready else exit(1).
SaveAndExit(ok) ==
    /\ report /= NoReport /\ exitCode = Running
    /\ saved' = ok
    /\ exitCode' = IF ok /\ report.ready THEN 0 ELSE 1
    /\ UNCHANGED <<scanVars, plan, falconTodo>>

Next ==
    \/ AuditFile
    \/ AuditFileSkipped
    \/ StartFalconCheck
    \/ \E f \in FalconFiles : CheckFalconFile(f)
    \/ ScanForPattern
    \/ GenerateSecurityReport
    \/ \E ok \in BOOLEAN : SaveAndExit(ok)

Spec == Init /\ [][Next]_vars /\ WF_vars(Next)

-----------------------------------------------------------------------------
TypeOK ==
    /\ Scan!TypeOK
    /\ plan \in Seq({FalconStep} \cup [kind : {"file"}, path : STRING, check : STRING])
    /\ falconTodo \subseteq FalconFiles
    /\ saved \in BOOLEAN
    /\ exitCode \in {Running, 0, 1}

\* What the tree holds, independent of the order anything is visited in:
\* every (pattern, readable in-scope file, line) whose text matches, and
\* the findings the named audits and the FALCON check derive from the
\* planned files that exist and can be read.
PatternMatches ==
    {<<r, f, i>> \in (DOMAIN PatternSeverity) \X (InScope \cap readable) \X (1..MaxLines) :
        /\ r \in Range(Rules)
        /\ i <= Len(content[f])
        /\ <<r, content[f][i]>> \in Matches}

AuditedFindings ==
    UNION {Range(CheckFindings(AuditPlan[k].check, AuditPlan[k].path)) :
              k \in {j \in DOMAIN AuditPlan : /\ AuditPlan[j].kind = "file"
                                              /\ AuditPlan[j].path \in Files \cap readable}}
    \cup {[rule |-> "falcon_rglob", file |-> f, line |-> 1] :
              f \in {g \in FalconFiles \cap readable : In(g, "simulate_falcon_validation")}}

(***************************************************************************)
(* The report's per-severity counts are exactly the pattern matches in the *)
(* tree plus the findings the named-file audits and the FALCON check owe:  *)
(* each planned file that exists and reads is audited once, each rglob     *)
(* result once, each pattern pass visits every in-scope file once, and a  *)
(* missing or unreadable file adds nothing and stops nothing.              *)
(***************************************************************************)
ReportCountsMatchFileSystem ==
    report /= NoReport =>
        \A s \in Scan!Severities :
            report.counts[s] =
                Cardinality({m \in PatternMatches : PatternSeverity[m[1]] = s})
                + Cardinality({x \in AuditedFindings : FileCheckSeverity[x.rule] = s})

\* Some CRITICAL or HIGH finding is owed by the tree.
Blocking ==
    \/ \E m \in PatternMatches : PatternSeverity[m[1]] \in {"CRITICAL", "HIGH"}
    \/ \E x \in AuditedFindings : FileCheckSeverity[x.rule] \in {"CRITICAL", "HIGH"}

(***************************************************************************)
(* The exit status is the deployment gate spec.md section 6 names: once    *)
(* main has exited, the status is 0 exactly when both report files were    *)
(* written and the tree owes no CRITICAL or HIGH finding, whatever order   *)
(* the rglob passes yield files in and whichever files are missing or     *)
(* unreadable.                                                              *)
(***************************************************************************)
ExitStatusGatesDeployment ==
    exitCode /= Running => (exitCode = 0 <=> saved /\ ~Blocking)

(***************************************************************************)
(* The pattern passes implement ScanReportSpec: the pattern findings,      *)
(* tallied as generate_security_report tallies them, are the report the   *)
(* spec derives in one step from the file system, whatever order rglob    *)
(* yields files in, and that report is eventually produced.               *)
(***************************************************************************)
PatternFindings == SelectSeq(findings, LAMBDA x : x.rule \in DOMAIN PatternSeverity)

PatternReport == IF report = NoReport THEN NoReport ELSE Scan!SecurityReport(PatternFindings)

Abstract == INSTANCE ScanReportSpec
               WITH RuleSet <- Range(Rules), Severity <- PatternSeverity, report <- PatternReport

ImplementsScanReportSpec == Abstract!Spec
====
