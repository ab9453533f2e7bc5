--------------------------- MODULE MCStoqServer ---------------------------
(* One sample connection, two fresh connection ids, one pool, two        *)
(* benchmarks, and a metrics buffer small enough to be trimmed.          *)
EXTENDS StoqServer

CONSTANTS k1, k2, p1, b1, b2

MCConnIds == {"conn-001", k1, k2}
MCInitConns == <<"conn-001">>
MCBenchIds == {b1, b2}
=============================================================================
