----------------------- MODULE MCReadinessValidator -----------------------
(* Two .rs files, three line texts and one pattern from each of three     *)
(* check methods, one per SecurityLevel that reaches the tally.           *)
EXTENDS ReadinessValidator

CONSTANTS f1, f2, t1, t2, t3

MCRustFiles == {f1, f2}
\* t1: todo!("HSM signing") -- matches r"todo!\(".
\* t2: let nodes = peers.len(); -- matches r"DES", since re.IGNORECASE
\*     finds "des" inside "nodes".
\* t3: let url = "http://localhost:8080"; -- matches r"localhost".
MCTexts == {t1, t2, t3}
MCRules == <<"todo!\\(", "DES", "localhost">>
MCRuleCheck == [r \in {"todo!\\(", "DES", "localhost"} |->
                  CASE r = "todo!\\(" -> "placeholder"
                    [] r = "DES" -> "weak_crypto"
                    [] r = "localhost" -> "test_data"]
MCSeverity == [r \in DOMAIN MCRuleCheck |-> CheckLevel[MCRuleCheck[r]]]
MCMatches == {<<"todo!\\(", t1>>, <<"DES", t2>>, <<"localhost", t3>>}
=============================================================================
