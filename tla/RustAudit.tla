----------------------------- MODULE RustAudit -----------------------------
(***************************************************************************)
(* security_audit.py: SecurityAuditor.scan_project and scan_rust_file.    *)
(* The audit is a pure function of the tree: every line of every scanned  *)
(* .rs file is tested against each rule, so it is written as operators   *)
(* over a tree (file -> sequence of lines, or Absent).                    *)
(*                                                                         *)
(* A line is named by what it holds; the names the rules tell apart are:  *)
(*   "call"       let p = ConsensusProof::default_for_testing();          *)
(*   "def"        pub fn default_for_testing() -> Self {                  *)
(*   "cfgdef"     #[cfg(test)] pub fn default_for_testing() on one line   *)
(*   "mockdoc"    /// Mock Crypto Exchange Provider                       *)
(*   "mockstruct" pub struct MockCryptoExchangeProvider;                  *)
(*   "mockimpl"   impl CryptoExchangeProvider for MockCryptoExchangeProvider {*)
(*   "unwrap", "v_re_unwrap"  a statement ending in .unwrap();            *)
(*   "testattr"   #[test]                                                 *)
(*   "v_traversal" a line holding "../"                                   *)
(* Any other name matches no rule.                                        *)
(***************************************************************************)
EXTENDS Integers, Sequences, FiniteSets

CONSTANTS
    Files,      \* the .rs files under the project root, backups excluded
    TestNamed,  \* files whose name contains "test" (scan_project drops them)
    Absent      \* a file that does not exist

\* MOCK_CRYPTOGRAPHY, TEST_BYPASS, PLACEHOLDER_SECURITY, HARDCODED_SECRET,
\* COMMAND_INJECTION: the lines that match a CRITICAL rule.
CriticalLines == {"call", "def", "cfgdef", "mockdoc", "mockstruct", "mockimpl"}
UnwrapLines == {"unwrap", "v_re_unwrap"}
TraversalLines == {"v_traversal"}

\* content.find(line): the first line with the same text.
FirstAt(c, t) == CHOOSE j \in 1..Len(c) : c[j] = t /\ \A k \in 1..(j - 1) : c[k] /= t

\* UNWRAP_PANIC: '#[test]' not in content[:content.find(line)].
UnwrapFlagged(c, i) ==
    /\ c[i] \in UnwrapLines
    /\ \A k \in 1..(FirstAt(c, c[i]) - 1) : c[k] /= "testattr"

\* scan_project: rglob("*.rs") without target/, test-named files and backups.
Scanned(tree) == {f \in Files : tree[f] /= Absent /\ f \notin TestNamed}

\* scan_rust_file's violations, as <<file, line>> pairs per severity.
LinesWhere(tree, Flagged(_, _)) ==
    UNION {{<<f, i>> : i \in {j \in 1..Len(tree[f]) : Flagged(tree[f], j)}} : f \in Scanned(tree)}

CriticalFindings(tree) == LinesWhere(tree, LAMBDA c, i : c[i] \in CriticalLines)

HighFindings(tree) ==
    LinesWhere(tree, LAMBDA c, i : UnwrapFlagged(c, i) \/ c[i] \in TraversalLines)

\* main: the exit status is 1 exactly when a CRITICAL violation was found.
AuditPasses(tree) == CriticalFindings(tree) = {}
=============================================================================
