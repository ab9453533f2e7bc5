-------------------------- MODULE TrustChainAudit --------------------------
(***************************************************************************)
(* trustchain/security_audit.py: TrustChainSecurityAuditor.audit_all runs *)
(* six category audits in order over trustchain/src, then                 *)
(* generate_report folds their result dicts into a score, a              *)
(* production_ready flag and the exit status.                             *)
(*                                                                         *)
(* Searches go through _search_pattern, which runs ripgrep; if rg cannot  *)
(* be started the bare except returns no matches.  A line is a model      *)
(* value; Matches says which of the script's regexes it matches and       *)
(* CfgTest which lines contain "#[cfg(test)]".  content.find(line) is     *)
(* modelled as the first line with the same text (a match inside a longer *)
(* line is not modelled).                                                  *)
(***************************************************************************)
EXTENDS Integers, Sequences, SequencesExt, FiniteSets

CONSTANTS
    Files,          \* the .rs files under trustchain/src
    Dir,            \* Dir[f]: "ca", "dns", "consensus", "api" or "other"
    TestNamed,      \* files whose path contains "test"
    FileTexts,      \* FileTexts[f]: the line texts file f may contain
    MaxLines,
    Matches,        \* <<pattern name, text>>: the regex matches the line
    CfgTest,        \* texts that contain "#[cfg(test)]"
    RgInstalled,    \* whether subprocess.run(["rg", ...]) can start
    ZonesExist,     \* whether src/dns/production_zones.rs exists
    ValidatorExists,\* whether src/consensus/validator.rs exists
    CargoHsm        \* whether Cargo.toml names aws-sdk-cloudhsm or pkcs11

Phases == <<"theater", "hsm", "dns", "consensus", "api", "readiness", "report", "done">>

VARIABLES
    content, rg, zones, validator, cargoHsm,   \* inputs, fixed by Init
    phase,      \* the next step audit_all takes
    results,    \* the result dict of each category audit run so far
    report      \* generate_report's result

vars == <<content, rg, zones, validator, cargoHsm, phase, results, report>>

(***************************************************************************)
(* _search_pattern(pattern, path): one match per matching line of every   *)
(* file under the directory, or nothing when rg is missing.               *)
(***************************************************************************)
Search(on, p, dirs) ==
    IF ~on THEN {}
    ELSE {<<f, i>> \in Files \X (1..MaxLines) :
            Dir[f] \in dirs /\ i <= Len(content[f]) /\ <<p, content[f][i]>> \in Matches}

AllDirs == {"ca", "dns", "consensus", "api", "other"}

\* A violation: [severity, file, line, pattern].
Viol(sev, p, m) == [sev |-> sev, file |-> m[1], line |-> m[2], pattern |-> p]
ViolsOf(on, pats, dirs, Keep(_)) ==
    UNION {{Viol(pats[p], p, m) : m \in {mm \in Search(on, p, dirs) : Keep(mm)}} : p \in DOMAIN pats}

TheaterPatterns == [default_for_testing |-> "CRITICAL", mock_impl |-> "HIGH",
                    stub |-> "HIGH", hardcoded |-> "MEDIUM"]
HsmPatterns == [hsm_imports |-> "CRITICAL", hsm_config |-> "CRITICAL",
                hsm_operations |-> "HIGH"]
DnsPatterns == [localhost_refs |-> "HIGH", stub_resolvers |-> "HIGH",
                hardcoded_ips |-> "MEDIUM"]

CountSev(vs, s) == Cardinality({v \in vs : v.sev = s})

\* audit_security_theater: all of src; critical and high are counted.
TheaterViols(on) == ViolsOf(on, TheaterPatterns, AllDirs, LAMBDA m : TRUE)
TheaterResult ==
    LET vs == TheaterViols(rg)
    IN  [total |-> Cardinality(vs), critical |-> CountSev(vs, "CRITICAL"),
         high |-> CountSev(vs, "HIGH"), viols |-> vs]

\* audit_hsm_dependencies: Cargo.toml, then src/ca.
HsmViols(on) == ViolsOf(on, HsmPatterns, {"ca"}, LAMBDA m : TRUE)
HsmResult ==
    LET vs == HsmViols(rg)
              \cup (IF cargoHsm THEN {[sev |-> "CRITICAL", file |-> "Cargo.toml",
                                       line |-> 0, pattern |-> "cargo_dependency"]}
                    ELSE {})
    IN  [total |-> Cardinality(vs), viols |-> vs]

\* audit_dns_infrastructure: src/dns, skipping test files and lines that
\* carry #[cfg(test)].
DnsViols(on) == ViolsOf(on, DnsPatterns, {"dns"},
                         LAMBDA m : m[1] \notin TestNamed /\ content[m[1]][m[2]] \notin CfgTest)
DnsResult ==
    LET vs == DnsViols(rg)
    IN  [total |-> Cardinality(vs), viols |-> vs]

\* content.find(line), as a line index: the first line with this text.
FirstIndex(f, t) == CHOOSE j \in 1..Len(content[f]) :
                        content[f][j] = t /\ \A k \in 1..(j - 1) : content[f][k] /= t

\* "#[cfg(test)]" not in content[:content.find(line)].
NoCfgTestBefore(f, t) == \A k \in 1..(FirstIndex(f, t) - 1) : content[f][k] \notin CfgTest

\* audit_consensus_validation: files read directly (no rg).
ConsensusResult ==
    LET vs == {[sev |-> "CRITICAL", file |-> f, line |-> i, pattern |-> "testing_bypass"] :
                 <<f, i>> \in {<<f, i>> \in Files \X (1..MaxLines) :
                     /\ Dir[f] = "consensus" /\ i <= Len(content[f])
                     /\ <<"default_for_testing", content[f][i]>> \in Matches
                     /\ NoCfgTestBefore(f, content[f][i])}}
    IN  [total |-> Cardinality(vs), viols |-> vs]

\* audit_api_security: src/api/handlers.rs read directly; no total key.
ApiResult ==
    LET vs == {[sev |-> "HIGH", file |-> f, line |-> i, pattern |-> "mock_response"] :
                 <<f, i>> \in {<<f, i>> \in Files \X (1..MaxLines) :
                     Dir[f] = "api" /\ i <= Len(content[f])
                     /\ <<"mock_response", content[f][i]>> \in Matches}}
    IN  [mock_responses |-> Cardinality(vs), viols |-> vs]

\* check_production_readiness.
ReadinessChecks ==
    [no_testing_bypasses |->
        {m \in Search(rg, "default_for_testing", AllDirs) :
            m[1] \notin TestNamed /\ content[m[1]][m[2]] \notin CfgTest} = {},
     no_mock_implementations |-> Cardinality(Search(rg, "mock_impl", {"api"})) < 5,
     real_dns_infrastructure |-> zones,
     no_hsm_dependencies |-> Cardinality(Search(rg, "hsm_config", {"ca"})) < 10,
     consensus_validation |-> validator]

\* generate_report: only result dicts with a "critical"/"high" key count.
Score(r) == LET s == 100 - 10 * r.theater.critical - 5 * r.theater.high
           IN  IF s < 0 THEN 0 ELSE s

GenerateReport(r) ==
    LET checks == r.readiness
        ready == (\A c \in DOMAIN checks : checks[c]) /\ Score(r) >= 70
    IN  [score |-> Score(r), ready |-> ready,
         total |-> r.theater.total + r.hsm.total + r.dns.total + r.consensus.total]

-----------------------------------------------------------------------------
\* Every source tree whose file f holds at most MaxLines lines of FileTexts[f].
RECURSIVE Trees(_)
Trees(S) ==
    IF S = {} THEN {[f \in {} |-> <<>>]}
    ELSE LET f == CHOOSE g \in S : TRUE
         IN  {[g \in S |-> IF g = f THEN c ELSE rest[g]] :
                c \in BoundedSeq(FileTexts[f], MaxLines), rest \in Trees(S \ {f})}

Init ==
    /\ content \in Trees(Files)
    /\ rg \in RgInstalled /\ zones \in ZonesExist
    /\ validator \in ValidatorExists /\ cargoHsm \in CargoHsm
    /\ phase = 1
    /\ results = <<>>
    /\ report = <<>>

Step(name, value) ==
    /\ Phases[phase] = name
    /\ results' = results @@ (name :> value)
    /\ phase' = phase + 1
    /\ UNCHANGED <<content, rg, zones, validator, cargoHsm, report>>

AuditSecurityTheater == Step("theater", TheaterResult)
AuditHsmDependencies == Step("hsm", HsmResult)
AuditDnsInfrastructure == Step("dns", DnsResult)
AuditConsensusValidation == Step("consensus", ConsensusResult)
AuditApiSecurity == Step("api", ApiResult)
CheckProductionReadiness == Step("readiness", ReadinessChecks)

Report ==
    /\ Phases[phase] = "report"
    /\ report' = GenerateReport(results)
    /\ phase' = phase + 1
    /\ UNCHANGED <<content, rg, zones, validator, cargoHsm, results>>

Next ==
    \/ AuditSecurityTheater \/ AuditHsmDependencies \/ AuditDnsInfrastructure
    \/ AuditConsensusValidation \/ AuditApiSecurity \/ CheckProductionReadiness
    \/ Report

Spec == Init /\ [][Next]_vars

-----------------------------------------------------------------------------
(***************************************************************************)
(* Every CRITICAL or HIGH violation the category audits define, computed  *)
(* from the files themselves (as if every search ran).                    *)
(***************************************************************************)
BlockingInTree ==
    LET all == TheaterViols(TRUE) \cup HsmViols(TRUE) \cup DnsViols(TRUE)
               \cup ConsensusResult.viols \cup ApiResult.viols
               \cup (IF cargoHsm THEN {[sev |-> "CRITICAL"]} ELSE {})
    IN  {v \in all : v.sev \in {"CRITICAL", "HIGH"}}

\* spec.md 4.5: deployment-ready only when no CRITICAL and no HIGH finding
\* exists.  The script exits 0 exactly when report.production_ready holds.
ReadyOnlyWhenNoBlockingViolation ==
    phase = Len(Phases) => (report.ready => BlockingInTree = {})
=============================================================================
