------------------------- MODULE SecurityTestSuite -------------------------
(***************************************************************************)
(* security_test_suite.py: the tests whose verdict depends on the tree the *)
(* remediator rewrites.  Lines are named as in RustAudit.                  *)
(***************************************************************************)
EXTENDS Integers, Sequences

CONSTANTS
    Files,
    UnderscoreTest, \* files named *_test.rs (grep --exclude)
    Absent

\* Lines grep 'default_for_testing' prints; "cfgdef" is
\* "#[cfg(test)] pub fn default_for_testing()" written on one line.
BypassGrepLines == {"call", "def", "cfgdef"}
CfgTestOnLine == {"cfgdef"}

\* test_security_bypasses: grep -r default_for_testing over the .rs files,
\* then drop the output lines that themselves contain #[cfg(test)].
BypassViolations(tree) ==
    UNION {{<<f, i>> : i \in {j \in 1..Len(tree[f]) :
                                 tree[f][j] \in BypassGrepLines \ CfgTestOnLine}} :
           f \in {g \in Files : tree[g] /= Absent /\ g \notin UnderscoreTest}}

TestSecurityBypasses(tree) == BypassViolations(tree) = {}

=============================================================================
