------------------------ MODULE MCTrustChainServer ------------------------
(* The root CA, one sample AAAA record and small id pools.               *)
EXTENDS TrustChainServer

CONSTANTS c1, c2, r1, r2, p1, s1

MCCertIds == {"trustchain-root-ca", c1, c2}
MCRecordIds == {"dns-hypermesh", r1}
MCInitRecords == [r \in {"dns-hypermesh"} |-> [type |-> "AAAA", status |-> "active"]]
MCPolicyIds == {p1}
=============================================================================
