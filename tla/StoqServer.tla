---------------------------- MODULE StoqServer ----------------------------
(***************************************************************************)
(* The connection, pool, benchmark, metrics and transport-setting state   *)
(* of stoq_simple_server.py (class STOQState, its FastAPI handlers, the   *)
(* generate_metrics_background task and the execute_benchmark background *)
(* task).                                                                  *)
(*                                                                         *)
(* Unlike the other servers, this one really suspends: create_connection  *)
(* awaits asyncio.sleep(0.1) between inserting a "connecting" connection  *)
(* and marking it "connected", execute_benchmark sleeps for the test's    *)
(* duration before it records the result, and the metrics task sleeps    *)
(* between rounds.  Each stretch of code between two awaits is one atomic *)
(* action, so other requests interleave at exactly those points.  A      *)
(* metric is the id of the connection it was generated for; the random   *)
(* numbers in it are left out.                                            *)
(***************************************************************************)
EXTENDS Naturals, Sequences, SequencesExt

CONSTANTS
    ConnIds,        \* every connection id the run may use
    InitConns,      \* the sample connections, in insertion order
    PoolIds,        \* connection pool ids
    BenchIds,       \* benchmark test ids
    BenchTypes,     \* BenchmarkRequest.type values
    Strategies,     \* pool strategy values clients send
    CongestionCtls, \* congestion_control values clients send
    MetricsCap,     \* the 1000 of "Keep only last 1000 metrics"
    MaxRounds,      \* bound on metrics rounds
    MaxRequests     \* bound on the number of requests served

CONSTANTS Unused   \* model value: id never used

ASSUME Range(InitConns) \subseteq ConnIds /\ MetricsCap \in Nat \ {0}
ASSUME CongestionCtls \subseteq {"bbr", "cubic", "reno"}

VARIABLES
    conns,          \* state.connections: id -> status
    order,          \* the insertion order of state.connections' keys
    connecting,     \* create_connection calls suspended in their sleep
    pools,          \* state.connection_pools
    benches,        \* state.running_benchmarks: id -> [type, status]
    benchTasks,     \* execute_benchmark tasks not yet finished
    metrics,        \* state.performance_metrics
    settings,       \* state.transport_settings (two of its fields)
    rounds,         \* metrics rounds so far
    served          \* requests answered so far

vars == <<conns, order, connecting, pools, benches, benchTasks, metrics,
          settings, rounds, served>>

ConnStatus == {"connecting", "connected", "disconnected"}

\* ConnectionPool, reduced to its strategy and active_connections.
PoolRec == [strategy : Strategies, active : Nat]

\* TransportSettings.congestion_control: pattern "^(bbr|cubic|reno)$".
CongestionControls == {"bbr", "cubic", "reno"}

Request == served < MaxRequests /\ served' = served + 1

-----------------------------------------------------------------------------
\* STOQState.__init__: the sample connections (connected), the default
\* pool, no benchmarks or metrics, and the default transport settings.
Init ==
    /\ conns = [c \in ConnIds |-> IF c \in Range(InitConns) THEN "connected" ELSE Unused]
    /\ order = InitConns
    /\ connecting = {}
    /\ pools = [p \in PoolIds |-> Unused]
    /\ benches = [b \in BenchIds |-> Unused]
    /\ benchTasks = {}
    /\ metrics = <<>>
    /\ settings = [congestion_control |-> "bbr", keep_alive |-> TRUE]
    /\ rounds = 0
    /\ served = 0

\* create_connection up to its await: insert the connection as
\* "connecting" under a fresh uuid.
CreateConnection(c) ==
    /\ Request
    /\ conns[c] = Unused
    /\ conns' = [conns EXCEPT ![c] = "connecting"]
    /\ order' = Append(order, c)
    /\ connecting' = connecting \cup {c}
    /\ UNCHANGED <<pools, benches, benchTasks, metrics, settings, rounds>>

\* create_connection after asyncio.sleep(0.1): connection.status =
\* "connected", whatever happened to the connection meanwhile.
ConnectionEstablished(c) ==
    /\ c \in connecting
    /\ conns' = [conns EXCEPT ![c] = "connected"]
    /\ connecting' = connecting \ {c}
    /\ UNCHANGED <<order, pools, benches, benchTasks, metrics, settings, rounds, served>>

\* close_connection: 404 for an unknown id, else mark it disconnected.
CloseConnection(c) ==
    /\ Request
    /\ conns[c] /= Unused
    /\ conns' = [conns EXCEPT ![c] = "disconnected"]
    /\ UNCHANGED <<order, connecting, pools, benches, benchTasks, metrics, settings, rounds>>

\* create_connection_pool: any max_connections the client sends, nothing
\* active.
CreateConnectionPool(p, s) ==
    /\ Request
    /\ pools[p] = Unused
    /\ pools' = [pools EXCEPT ![p] = [strategy |-> s, active |-> 0]]
    /\ UNCHANGED <<conns, order, connecting, benches, benchTasks, metrics, settings, rounds>>

\* run_benchmark: record it as running and schedule execute_benchmark.
RunBenchmark(b, t) ==
    /\ Request
    /\ benches[b] = Unused
    /\ benches' = [benches EXCEPT ![b] = [type |-> t, status |-> "running"]]
    /\ benchTasks' = benchTasks \cup {b}
    /\ UNCHANGED <<conns, order, connecting, pools, metrics, settings, rounds>>

\* execute_benchmark after asyncio.sleep(test.duration): every type gets
\* results (the last branch is a catch-all) and the benchmark completes.
ExecuteBenchmark(b) ==
    /\ b \in benchTasks
    /\ benches' = [benches EXCEPT ![b].status = "completed"]
    /\ benchTasks' = benchTasks \ {b}
    /\ UNCHANGED <<conns, order, connecting, pools, metrics, settings, rounds, served>>

\* update_transport_settings: every field the client set replaces the
\* stored one; the model lets clients set congestion_control and
\* keep_alive.
UpdateTransportSettings(cc, ka) ==
    /\ Request
    /\ settings' = [congestion_control |-> cc, keep_alive |-> ka]
    /\ UNCHANGED <<conns, order, connecting, pools, benches, benchTasks, metrics, rounds>>

\* One metric for connection c appended to m, then "if len(...) > 1000:
\* keep the last 1000".
AppendTrimmed(m, c) ==
    LET m2 == Append(m, c)
    IN  IF Len(m2) > MetricsCap THEN SubSeq(m2, Len(m2) - MetricsCap + 1, Len(m2)) ELSE m2

\* One round of generate_metrics_background between two sleeps: a metric
\* for every key of state.connections, in insertion order, whatever the
\* connection's status.
MetricsRound ==
    /\ rounds < MaxRounds
    /\ rounds' = rounds + 1
    /\ metrics' = FoldLeft(AppendTrimmed, metrics, order)
    /\ UNCHANGED <<conns, order, connecting, pools, benches, benchTasks, settings, served>>

Next ==
    \/ \E c \in ConnIds : CreateConnection(c) \/ ConnectionEstablished(c) \/ CloseConnection(c)
    \/ \E p \in PoolIds, s \in Strategies : CreateConnectionPool(p, s)
    \/ \E b \in BenchIds, t \in BenchTypes : RunBenchmark(b, t)
    \/ \E b \in BenchIds : ExecuteBenchmark(b)
    \/ \E cc \in CongestionCtls, ka \in BOOLEAN : UpdateTransportSettings(cc, ka)
    \/ MetricsRound

\* The event loop resumes every task whose sleep has ended: a suspended
\* create_connection and a scheduled execute_benchmark each eventually run.
Fairness ==
    /\ \A c \in ConnIds : WF_vars(ConnectionEstablished(c))
    /\ \A b \in BenchIds : WF_vars(ExecuteBenchmark(b))

Spec == Init /\ [][Next]_vars /\ Fairness

-----------------------------------------------------------------------------
TypeOK ==
    /\ conns \in [ConnIds -> ConnStatus \cup {Unused}]
    /\ order \in Seq(ConnIds)
    /\ connecting \subseteq ConnIds
    /\ pools \in [PoolIds -> PoolRec \cup {Unused}]
    /\ benches \in [BenchIds -> [type : BenchTypes, status : {"running", "completed"}] \cup {Unused}]
    /\ benchTasks \subseteq BenchIds
    /\ metrics \in Seq(ConnIds) /\ Len(metrics) <= MetricsCap
    /\ settings \in [congestion_control : CongestionControls, keep_alive : BOOLEAN]
    /\ rounds \in 0..MaxRounds
    /\ served \in 0..MaxRequests

\* A closed connection stays closed: once close_connection marks it
\* disconnected, no later step reports it connected again.
ClosedStaysClosed ==
    [][\A c \in ConnIds : conns[c] = "disconnected" => conns'[c] = "disconnected"]_vars

=============================================================================
