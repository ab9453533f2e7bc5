--------------------------- MODULE ScanReportSpec ---------------------------
(***************************************************************************)
(* What the rule-based scanner promises (spec.md sections 4.3 to 4.6), as  *)
(* one atomic step from the file system to the report: every rule tested  *)
(* on every line of every readable in-scope file, a severity histogram of *)
(* the matches, the verdict by fixed precedence (CRITICAL, then HIGH, else *)
(* acceptable; deployment-ready only in the last case), a recommendation  *)
(* looked up from the status, and the priority list CRITICAL -> immediate,*)
(* HIGH -> urgent.  The order findings are discovered in is not part of  *)
(* the promise.                                                            *)
(***************************************************************************)
EXTENDS Integers, Sequences, SequencesExt, FiniteSets

CONSTANTS Files, InScope, Texts, MaxLines, RuleSet, Severity, Matches

Severities == {"CRITICAL", "HIGH", "MEDIUM", "LOW", "INFO"}
CONSTANT NoReport

VARIABLES content, readable, report

Matched ==
    {<<r, f, i>> \in RuleSet \X (InScope \cap readable) \X (1..MaxLines) :
        i <= Len(content[f]) /\ <<r, content[f][i]>> \in Matches}

Histogram == [s \in Severities |->
                Cardinality({m \in Matched : Severity[m[1]] = s})]

Status(h) ==
    CASE h["CRITICAL"] > 0 -> "CRITICAL_VULNERABILITIES_FOUND"
      [] h["CRITICAL"] = 0 /\ h["HIGH"] > 0 -> "HIGH_RISK_VULNERABILITIES_FOUND"
      [] OTHER -> "ACCEPTABLE_RISK_LEVEL"

Recommendation ==
    [ CRITICAL_VULNERABILITIES_FOUND  |-> "BLOCKED",
      HIGH_RISK_VULNERABILITIES_FOUND |-> "AT_RISK",
      ACCEPTABLE_RISK_LEVEL           |-> "APPROVED" ]

Priorities(h) ==
    SelectSeq(<< [priority |-> 1, count |-> h["CRITICAL"], timeline |-> "Immediate"],
                 [priority |-> 2, count |-> h["HIGH"], timeline |-> "Urgent"] >>,
              LAMBDA p : p.count > 0)

Report(h) ==
    [counts         |-> h,
     total          |-> Cardinality(Matched),
     status         |-> Status(h),
     ready          |-> Status(h) = "ACCEPTABLE_RISK_LEVEL",
     recommendation |-> Recommendation[Status(h)],
     priorities     |-> Priorities(h)]

Init ==
    /\ content \in [Files -> BoundedSeq(Texts, MaxLines)]
    /\ readable \in SUBSET Files
    /\ report = NoReport

Scan ==
    /\ report = NoReport
    /\ report' = Report(Histogram)
    /\ UNCHANGED <<content, readable>>

Spec == Init /\ [][Scan]_<<content, readable, report>> /\ WF_<<content, readable, report>>(Scan)
=============================================================================
