------------------------- MODULE MCTrustChainAudit -------------------------
(* One file per audited directory of trustchain/src, each holding up to   *)
(* three lines drawn from the lines that matter to that directory's audit. *)
EXTENDS TrustChainAudit

CONSTANTS fCa, fDns, fCons, fApi,
          tBypass, tCfgTest, tHsmComment, tLocalhost, tMock, tPlain

MCFiles == {fCa, fDns, fCons, fApi}
MCDir == (fCa :> "ca") @@ (fDns :> "dns") @@ (fCons :> "consensus") @@ (fApi :> "api")
MCFileTexts == (fCa :> {tHsmComment, tPlain}) @@ (fDns :> {tLocalhost, tPlain})
               @@ (fCons :> {tBypass, tCfgTest}) @@ (fApi :> {tMock, tPlain})
\* tBypass: "let proof = ConsensusProof::default_for_testing();"
\* tHsmComment: "// HSM support removed"   (matches use.*hsm|HSM only)
\* tLocalhost: "let addr = \"localhost:53\";"
\* tMock: "let resp = mock_response();"  (\bmock_ and "mock" in line.lower())
MCMatches == {<<"default_for_testing", tBypass>>, <<"hsm_imports", tHsmComment>>,
              <<"localhost_refs", tLocalhost>>, <<"mock_impl", tMock>>,
              <<"mock_response", tMock>>}
MCCfgTest == {tCfgTest}
\* The same tree without the api mock line, which the security-theater
\* audit would count as HIGH.
=============================================================================
