--------------------------- MODULE MCQuantumAudit ---------------------------
(* Model values and small constants for checking QuantumAudit with TLC.   *)
EXTENDS QuantumAudit

CONSTANTS t1, t2

\* Two of the planned files exist (the FALCON target, which the rglob also
\* finds, and the certificate manager) next to a README the pattern passes
\* skip by suffix.  The other thirteen planned paths are missing.
QuantumRs == "hypermesh/src/consensus/src/detection/quantum_security.rs"
CertManagerRs == "trustchain/src/ca/certificate_manager.rs"
MCFiles == {QuantumRs, CertManagerRs, "README.md"}
MCInScope == {QuantumRs, CertManagerRs}
MCFalconFiles == {QuantumRs}
\* t1 calls simulate_falcon_validation, declares entropy_quality: f64 and
\* matches the "localhost" pattern (so it is HIGH but not CRITICAL outside
\* the FALCON target); t2 holds mock_public_key, and the "mock_" pattern
\* matches it.
MCTexts == {t1, t2}
MCHas == {<<t1, "simulate_falcon_validation">>, <<t1, "entropy_quality: f64">>,
          <<t2, "mock_public_key">>, <<t2, "mock_">>}
\* _check_test_certificates' localhost (HIGH), then
\* _check_mock_implementations' mock_ (CRITICAL), in the order the audits
\* call them.
MCRules == <<"localhost", "mock_">>
MCPatternSeverity == [r \in {"localhost", "mock_"} |->
                        IF r = "mock_" THEN "CRITICAL" ELSE "HIGH"]
MCMatches == {<<"mock_", t2>>, <<"localhost", t1>>}
=============================================================================
