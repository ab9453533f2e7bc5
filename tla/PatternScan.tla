---------------------------- MODULE PatternScan ----------------------------
(***************************************************************************)
(* The pattern-major source scanner of QUANTUM_CERTIFICATE_SECURITY_AUDIT  *)
(* (_scan_for_pattern, generate_security_report) and of                    *)
(* SECURITY_PRODUCTION_READINESS_VALIDATOR, which has the same loop.       *)
(*                                                                         *)
(* For every pattern, in the order the check methods call                  *)
(* _scan_for_pattern, the scanner re-enumerates the tree with rglob, skips *)
(* files outside the extension allow-list, reads each remaining file whole *)
(* (a read or decode error skips the file: readlines fails before any     *)
(* finding is appended) and appends one finding per matching line.  When   *)
(* every pattern is done the findings are tallied by severity and the      *)
(* verdict, recommendation and remediation priorities are derived.        *)
(*                                                                         *)
(* The file system is an input: Init chooses the lines of every file and  *)
(* which files can be read; neither changes during the run.  A line is a  *)
(* model value and "re.search(pattern, line, re.IGNORECASE)" is the        *)
(* constant relation Matches.                                              *)
(***************************************************************************)
EXTENDS Integers, Sequences, SequencesExt, FiniteSets

CONSTANTS
    Files,      \* paths rglob("*") yields under the scan root
    InScope,    \* the files whose suffix is in the allow-list
    Texts,      \* the distinct line texts files are made of
    MaxLines,   \* longest file considered
    Rules,      \* the patterns, in the order the checks scan for them
    Severity,   \* Severity[r]: the SecuritySeverity passed with pattern r
    Matches     \* <<r, t>> \in Matches: pattern r matches line text t

Severities == {"CRITICAL", "HIGH", "MEDIUM", "LOW", "INFO"}

ASSUME InScope \subseteq Files
ASSUME MaxLines \in Nat
ASSUME Rules \in Seq(DOMAIN Severity) /\ Severity \in [DOMAIN Severity -> Severities]
ASSUME Matches \subseteq (DOMAIN Severity) \X Texts

CONSTANT NoReport  \* a model value: no report yet, no pattern yet

VARIABLES
    content,    \* content[f]: the lines of file f (input, constant)
    readable,   \* the files open/readlines succeed on (input, constant)
    pending,    \* patterns whose _scan_for_pattern call has not started
    pattern,    \* the pattern being scanned for
    todo,       \* files the current rglob pass has still to yield
    findings,   \* self.findings, in append order
    report      \* the report dict, once generate_security_report ran

vars == <<content, readable, pending, pattern, todo, findings, report>>

RuleIds == DOMAIN Severity
Finding == [rule : RuleIds, file : Files, line : Nat \ {0}]

(***************************************************************************)
(* The findings one pass appends for file f: the lines in order, each     *)
(* numbered from 1 as enumerate(lines, 1) does.                           *)
(***************************************************************************)
LineFindings(r, f) ==
    LET hits == SelectSeq([i \in 1..Len(content[f]) |-> i],
                          LAMBDA i : <<r, content[f][i]>> \in Matches)
    IN  [k \in 1..Len(hits) |-> [rule |-> r, file |-> f, line |-> hits[k]]]

(***************************************************************************)
(* generate_security_report: severity tally, status, readiness,           *)
(* recommendation and remediation priorities.                             *)
(***************************************************************************)
CountOf(fs, s) == Len(SelectSeq(fs, LAMBDA x : Severity[x.rule] = s))

SecurityStatus(crit, high) ==
    IF crit > 0 THEN "CRITICAL_VULNERABILITIES_FOUND"
    ELSE IF high > 0 THEN "HIGH_RISK_VULNERABILITIES_FOUND"
    ELSE "ACCEPTABLE_RISK_LEVEL"

\* Mutant: only critical findings block deployment (security_audit.py's rule).
ProductionReadyCritOnly(crit, high) == crit = 0

ProductionReady(crit, high) == crit = 0 /\ high = 0

DeploymentRecommendation(ready, crit, high) ==
    IF crit > 0 THEN "BLOCKED"
    ELSE IF high > 0 THEN "AT_RISK"
    ELSE IF ready THEN "APPROVED"
    ELSE "FURTHER_REVIEW"

RemediationPriorities(crit, high) ==
    (IF crit > 0 THEN <<[priority |-> 1, count |-> crit, timeline |-> "Immediate"]>>
                 ELSE <<>>)
    \o (IF high > 0 THEN <<[priority |-> 2, count |-> high, timeline |-> "Urgent"]>>
                    ELSE <<>>)

SecurityReport(fs) ==
    LET crit  == CountOf(fs, "CRITICAL")
        high  == CountOf(fs, "HIGH")
        ready == ProductionReady(crit, high)
    IN  [counts         |-> [s \in Severities |-> CountOf(fs, s)],
         total          |-> Len(fs),
         status         |-> SecurityStatus(crit, high),
         ready          |-> ready,
         recommendation |-> DeploymentRecommendation(ready, crit, high),
         priorities     |-> RemediationPriorities(crit, high)]

-----------------------------------------------------------------------------
Init ==
    /\ content \in [Files -> BoundedSeq(Texts, MaxLines)]
    /\ readable \in SUBSET Files
    /\ pending = Rules
    /\ pattern = NoReport
    /\ todo = {}
    /\ findings = <<>>
    /\ report = NoReport

\* The next check method calls _scan_for_pattern; rglob starts a new pass.
StartPattern ==
    /\ todo = {} /\ pending /= <<>>
    /\ pattern' = Head(pending)
    /\ pending' = Tail(pending)
    /\ todo' = Files
    /\ UNCHANGED <<content, readable, findings, report>>

\* rglob yields f in an order the file system decides; f is in scope and
\* readlines succeeds, so every matching line is appended.
ScanFile(f) ==
    /\ f \in todo /\ f \in InScope /\ f \in readable
    /\ todo' = todo \ {f}
    /\ findings' = findings \o LineFindings(pattern, f)
    /\ UNCHANGED <<content, readable, pending, pattern, report>>

\* open or readlines raises: the bare except skips the whole file.
ReadFails(f) ==
    /\ f \in todo /\ f \in InScope /\ f \notin readable
    /\ todo' = todo \ {f}
    /\ UNCHANGED <<content, readable, pending, pattern, findings, report>>

\* A path whose suffix is not in the allow-list.
SkipFile(f) ==
    /\ f \in todo /\ f \notin InScope
    /\ todo' = todo \ {f}
    /\ UNCHANGED <<content, readable, pending, pattern, findings, report>>

GenerateReport ==
    /\ todo = {} /\ pending = <<>> /\ report = NoReport
    /\ report' = SecurityReport(findings)
    /\ UNCHANGED <<content, readable, pending, pattern, todo, findings>>

Next ==
    \/ StartPattern
    \/ \E f \in Files : ScanFile(f) \/ ReadFails(f) \/ SkipFile(f)
    \/ GenerateReport

Spec == Init /\ [][Next]_vars /\ WF_vars(Next)

-----------------------------------------------------------------------------
TypeOK ==
    /\ content \in [Files -> Seq(Texts)]
    /\ readable \subseteq Files
    /\ pending \in Seq(RuleIds)
    /\ todo \subseteq Files
    /\ findings \in Seq(Finding)
    /\ report = NoReport \/ report.total \in Nat
=============================================================================
