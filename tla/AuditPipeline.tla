--------------------------- MODULE AuditPipeline ---------------------------
(***************************************************************************)
(* The remediator and the two tools that judge its work, on one tree:     *)
(* security_remediation.py rewrites the sources, then security_audit.py   *)
(* (RustAudit) and security_test_suite.py (SecurityTestSuite) are run on  *)
(* what it left.  The remediator's own report tells the user to "Run      *)
(* security audit again to verify fixes".                                 *)
(***************************************************************************)
EXTENDS Remediation

CONSTANTS TestNamed, UnderscoreTest

Audit == INSTANCE RustAudit
Suite == INSTANCE SecurityTestSuite

\* The files of files_to_fix that fix_test_bypasses has finished this run.
BypassDone ==
    IF pc.step = "bypass" THEN {BypassList[k] : k \in 1..(pc.k - 1)}
    ELSE IF pc.step = "idle" THEN {}
    ELSE {BypassList[k] : k \in DOMAIN BypassList}

\* fix_test_bypasses leaves no ConsensusProof::default_for_testing() call
\* in a file it has processed, whatever later passes or kills do to it.
NoTestingCallAfterFix ==
    \A f \in BypassDone : tree[f] /= Absent => \A i \in 1..Len(tree[f]) : tree[f][i] /= "call"

\* A completed remediation never leaves security_audit.py more CRITICAL
\* violations than the tree it started from: moving the mock provider,
\* gating definitions and writing validation.rs add none.
RemediationAddsNoCritical ==
    pc.step = "done" =>
        Cardinality(Audit!CriticalFindings(tree)) <= Cardinality(Audit!CriticalFindings(start))

\* Every file the remediator changed can be restored to what it held before
\* the first run from some .security_backup_* directory, as the report's
\* "To restore: cp -r <backup>/* ." promises.
OriginalsRecoverable ==
    \A f \in Files :
        orig[f] /= Absent /\ tree[f] /= orig[f] => \E s \in Seconds : backups[s][f] = orig[f]

\* Once a completed run has gated every default_for_testing definition with
\* #[cfg(test)] and replaced every call, test_security_bypasses, which is
\* written to "filter out #[cfg(test)] guarded instances", passes.
GatedBypassesPassTest ==
    LET gated == \A f \in Files : tree[f] /= Absent =>
                    \A i \in 1..Len(tree[f]) :
                        /\ tree[f][i] /= "call"
                        /\ tree[f][i] = "def" => i > 1 /\ tree[f][i - 1] = "cfg"
    IN  pc.step = "done" /\ gated => Suite!TestSecurityBypasses(tree)
=============================================================================
