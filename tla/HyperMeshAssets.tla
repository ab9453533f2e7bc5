-------------------------- MODULE HyperMeshAssets --------------------------
(***************************************************************************)
(* The asset, allocation, VM-execution and catalog state of               *)
(* hypermesh_simple_server.py (class HyperMeshState and the FastAPI       *)
(* handlers that change it).                                              *)
(*                                                                         *)
(* Every handler is an `async def` without an await in its body (install  *)
(* awaits create_vm_asset, which itself never suspends), so on uvicorn's  *)
(* single event loop each request runs to completion: one handler is one  *)
(* atomic action and concurrent clients interleave at handler boundaries. *)
(* Ids come from uuid4 and are never reused: an id is "unused", in use, or *)
(* "deleted".  Names, descriptions, addresses, proofs and timestamps are  *)
(* left out; capacities keep their values.                                *)
(***************************************************************************)
EXTENDS Integers, Sequences, FiniteSets, FiniteSetsExt

CONSTANTS
    AssetIds,       \* every asset id the run may use
    InitAssets,     \* the sample assets: id -> record
    AllocIds,       \* every allocation id the run may use
    InitAllocs,     \* the sample allocations: id -> record
    ExecIds,        \* VM execution ids
    Apps,           \* catalog application ids
    AssetTypes,     \* AssetType values create_asset is called with
    Amounts,        \* AllocationRequest.amount values clients send
    Updates,        \* PUT bodies clients send to update_asset: records over
                    \* status, type and the allocation dict (total,
                    \* allocated, available, replaced together)
    ProxyIds,       \* remote proxy ids
    ProxyStatuses,  \* status values clients PUT through update_remote_proxy
    Nodes,          \* node ids byzantine reports name
    MaxHistory      \* bound on consensus_history and byzantine_detections

CONSTANTS Unused, Deleted, None   \* model values: id never used, asset deleted, no link

ASSUME DOMAIN InitAssets \subseteq AssetIds /\ DOMAIN InitAllocs \subseteq AllocIds
ASSUME Amounts \subseteq Int
ASSUME MaxHistory \in Nat

VARIABLES
    assets,         \* state.assets (plus unused / deleted ids)
    allocations,    \* state.allocations
    executions,     \* state.vm_executions
    catalog,        \* state.catalog_applications: status and asset link
                    \* (its only writer raises first, so it keeps its Init)
    proxies,        \* state.remote_proxies: target asset and status
    history,        \* state.consensus_history: the asset of each record
    detections      \* state.byzantine_detections: the node of each record

records == <<proxies, history, detections>>
vars == <<assets, allocations, executions, catalog, records>>

AssetStatus == {"available", "allocated"} \cup {u.status : u \in {u \in Updates : "status" \in DOMAIN u}}
AssetRec == [type : AssetTypes \cup {"vm"}, status : AssetStatus,
             total : Int, allocated : Int, available : Int]
AllocRec == [asset : AssetIds, amount : Int, status : {"active", "completed"},
             exec : BOOLEAN]
ExecStatus == {"starting", "running", "completed", "cancelled"}
\* CatalogApplication, reduced to its status and its asset_id link.
CatalogRec == [status : {"Available", "Installed"}, asset : AssetIds \cup {None}]
ExecRec == [vm : AssetIds, alloc : AllocIds, status : ExecStatus]
\* RemoteProxy, reduced to target_asset_id and status.
ProxyRec == [target : AssetIds, status : ProxyStatuses \cup {"active"}]

Exists(a) == assets[a] \notin {Unused, Deleted}
Live(x) == allocations[x] /= Unused

ActiveOn(a) == {x \in AllocIds : Live(x) /\ allocations[x].asset = a
                                 /\ allocations[x].status = "active"}

\* _initialize_catalog_apps: every sample app is "Available" and linked to
\* no asset.
InitCatalog == [p \in Apps |-> [status |-> "Available", asset |-> None]]

-----------------------------------------------------------------------------
Init ==
    /\ assets = [a \in AssetIds |-> IF a \in DOMAIN InitAssets THEN InitAssets[a] ELSE Unused]
    /\ allocations = [x \in AllocIds |-> IF x \in DOMAIN InitAllocs THEN InitAllocs[x] ELSE Unused]
    /\ executions = [e \in ExecIds |-> Unused]
    /\ catalog = InitCatalog
    /\ proxies = [p \in ProxyIds |-> Unused]
    /\ history = <<>>
    /\ detections = <<>>

\* POST /api/v1/assets: a fresh asset with 100 percent capacity free.
NewAsset(t) == [type |-> t, status |-> "available", total |-> 100,
                allocated |-> 0, available |-> 100]

CreateAsset(a, t) ==
    /\ assets[a] = Unused
    /\ assets' = [assets EXCEPT ![a] = NewAsset(t)]
    /\ UNCHANGED <<allocations, executions, catalog, records>>

\* PUT /api/v1/assets/{id}: setattr of every key of the body that names a
\* field but id and created_at, with no check of the value.  A body may
\* change the status, the type, or the whole allocation dict.
UpdateAsset(a, upd) ==
    /\ Exists(a)
    /\ LET old == assets[a]
       IN  assets' = [assets EXCEPT ![a] =
                        [f \in DOMAIN old |-> IF f \in DOMAIN upd THEN upd[f] ELSE old[f]]]
    /\ UNCHANGED <<allocations, executions, catalog, records>>

\* Mutant: the active-allocation check is dropped.
DeleteAssetUnguarded(a) ==
    /\ Exists(a)
    /\ assets' = [assets EXCEPT ![a] = Deleted]
    /\ UNCHANGED <<allocations, executions, catalog, records>>

\* DELETE /api/v1/assets/{id}: refused while an allocation on it is active.
DeleteAsset(a) ==
    /\ Exists(a)
    /\ ActiveOn(a) = {}
    /\ assets' = [assets EXCEPT ![a] = Deleted]
    /\ UNCHANGED <<allocations, executions, catalog, records>>

\* POST /api/v1/allocations: the asset must be "available" and amount must
\* not exceed available_capacity; the new allocation ends up "active" and
\* the capacity moves from available to allocated.
RequestAllocation(a, x, n) ==
    /\ Exists(a) /\ allocations[x] = Unused
    /\ assets[a].status = "available"
    /\ ~(n > assets[a].available)
    /\ LET avail == assets[a].available - n
       IN  assets' = [assets EXCEPT
                        ![a].allocated = @ + n,
                        ![a].available = avail,
                        ![a].status = IF avail <= 0 THEN "allocated" ELSE @]
    /\ allocations' = [allocations EXCEPT
                        ![x] = [asset |-> a, amount |-> n, status |-> "active", exec |-> FALSE]]
    /\ UNCHANGED <<executions, catalog, records>>

\* Mutant: the released allocation is marked "released", a status the
\* server's other handlers never use.
ReleaseAllocationMarkReleased(x) ==
    /\ Live(x) /\ allocations[x].status = "active"
    /\ LET a == allocations[x].asset
           n == allocations[x].amount
           avail == assets[a].available + n
       IN  assets' = [assets EXCEPT
                        ![a].allocated = @ - n,
                        ![a].available = avail,
                        ![a].status = IF @ = "allocated" /\ avail > 0 THEN "available" ELSE @]
    /\ allocations' = [allocations EXCEPT ![x].status = "released"]
    /\ UNCHANGED <<executions, catalog, records>>

\* POST /api/v1/allocations/{id}/release.
ReleaseAllocation(x) ==
    /\ Live(x) /\ allocations[x].status = "active"
    /\ LET a == allocations[x].asset
           n == allocations[x].amount
           avail == assets[a].available + n
       IN  assets' = [assets EXCEPT
                        ![a].allocated = @ - n,
                        ![a].available = avail,
                        ![a].status = IF @ = "allocated" /\ avail > 0 THEN "available" ELSE @]
    /\ allocations' = [allocations EXCEPT ![x].status = "completed"]
    /\ UNCHANGED <<executions, catalog, records>>

\* POST /api/v1/assets/vm: one instance of capacity.
NewVMAsset == [type |-> "vm", status |-> "available", total |-> 1,
               allocated |-> 0, available |-> 1]

CreateVMAsset(a) ==
    /\ assets[a] = Unused
    /\ assets' = [assets EXCEPT ![a] = NewVMAsset]
    /\ UNCHANGED <<allocations, executions, catalog, records>>

\* POST /api/v1/catalog/install: create_vm_asset inserts the VM asset, then
\* Asset(**asdict(vm_asset)) raises TypeError on the VMAsset-only fields
\* vm_config and catalog_metadata.  general_exception_handler answers 500
\* and the lines that link the app and mark it "Installed" never run.
InstallCatalogApp(p, a) ==
    /\ assets[a] = Unused
    /\ assets' = [assets EXCEPT ![a] = NewVMAsset]
    /\ UNCHANGED <<allocations, executions, catalog, records>>

\* POST /api/v1/vm/execute: the asset must exist and be a VM; an "active"
\* allocation of one instance is recorded and the execution starts.
ExecuteVM(a, x, e) ==
    /\ Exists(a) /\ assets[a].type = "vm"
    /\ allocations[x] = Unused /\ executions[e] = Unused
    /\ allocations' = [allocations EXCEPT
                        ![x] = [asset |-> a, amount |-> 1, status |-> "active", exec |-> TRUE]]
    /\ executions' = [executions EXCEPT ![e] = [vm |-> a, alloc |-> x, status |-> "starting"]]
    /\ UNCHANGED <<assets, catalog, records>>

\* GET /api/v1/vm/executions/{id} advances the simulated run: starting
\* becomes running; running completes when random() > 0.7, else stays.
PollExecution(e) ==
    /\ executions[e] /= Unused
    /\ executions[e].status \in {"starting", "running"}
    /\ executions' = [executions EXCEPT ![e].status =
                        IF @ = "starting" THEN "running" ELSE "completed"]
    /\ UNCHANGED <<assets, allocations, catalog, records>>

\* Mutant: cancel without the terminal-status check.
CancelExecutionAlways(e) ==
    /\ executions[e] /= Unused
    /\ executions' = [executions EXCEPT ![e].status = "cancelled"]
    /\ UNCHANGED <<assets, allocations, catalog, records>>

\* POST /api/v1/vm/executions/{id}/cancel: a no-op answer once terminal.
CancelExecution(e) ==
    /\ executions[e] /= Unused
    /\ executions[e].status \notin {"completed", "failed", "cancelled"}
    /\ executions' = [executions EXCEPT ![e].status = "cancelled"]
    /\ UNCHANGED <<assets, allocations, catalog, records>>

\* POST /api/v1/consensus/validate: 404 unless the asset exists; the four
\* generated proofs are always valid and the record is appended.
ValidateConsensus(a) ==
    /\ Exists(a) /\ Len(history) < MaxHistory
    /\ history' = Append(history, a)
    /\ UNCHANGED <<assets, allocations, executions, catalog, proxies, detections>>

\* POST /api/v1/byzantine/report: any node id is recorded, unchecked.
ReportByzantine(n) ==
    /\ Len(detections) < MaxHistory
    /\ detections' = Append(detections, n)
    /\ UNCHANGED <<assets, allocations, executions, catalog, proxies, history>>

\* POST /api/v1/proxy/create: 404 unless the asset exists.
CreateRemoteProxy(a, p) ==
    /\ Exists(a) /\ proxies[p] = Unused
    /\ proxies' = [proxies EXCEPT ![p] = [target |-> a, status |-> "active"]]
    /\ UNCHANGED <<assets, allocations, executions, catalog, history, detections>>

\* PUT /api/v1/proxy/{id}: setattr of every key that names a field but id,
\* with no check of the value: target_asset_id may name any id, and status
\* any string.
UpdateRemoteProxy(p, a, s) ==
    /\ proxies[p] /= Unused
    /\ \E upd \in {[proxies[p] EXCEPT !.target = a], [proxies[p] EXCEPT !.status = s]} :
          proxies' = [proxies EXCEPT ![p] = upd]
    /\ UNCHANGED <<assets, allocations, executions, catalog, history, detections>>

Next ==
    \/ \E a \in AssetIds, t \in AssetTypes : CreateAsset(a, t)
    \/ \E a \in AssetIds, upd \in Updates : UpdateAsset(a, upd)
    \/ \E a \in AssetIds : DeleteAsset(a) \/ CreateVMAsset(a)
    \/ \E a \in AssetIds, x \in AllocIds, n \in Amounts : RequestAllocation(a, x, n)
    \/ \E x \in AllocIds : ReleaseAllocation(x)
    \/ \E p \in Apps, a \in AssetIds : InstallCatalogApp(p, a)
    \/ \E a \in AssetIds, x \in AllocIds, e \in ExecIds : ExecuteVM(a, x, e)
    \/ \E e \in ExecIds : PollExecution(e) \/ CancelExecution(e)
    \/ \E a \in AssetIds : ValidateConsensus(a)
    \/ \E n \in Nodes : ReportByzantine(n)
    \/ \E a \in AssetIds, p \in ProxyIds : CreateRemoteProxy(a, p)
    \/ \E p \in ProxyIds, a \in AssetIds, s \in ProxyStatuses : UpdateRemoteProxy(p, a, s)

Spec == Init /\ [][Next]_vars

-----------------------------------------------------------------------------
TypeOK ==
    /\ assets \in [AssetIds -> AssetRec \cup {Unused, Deleted}]
    /\ allocations \in [AllocIds -> AllocRec \cup {Unused}]
    /\ executions \in [ExecIds -> ExecRec \cup {Unused}]
    /\ catalog \in [Apps -> CatalogRec]
    /\ proxies \in [ProxyIds -> ProxyRec \cup {Unused}]
    /\ history \in Seq(AssetIds) /\ detections \in Seq(Nodes)

\* An allocation that is still active always refers to an asset that
\* exists: delete_asset's check for active allocations must hold up against
\* allocations made by request_allocation and by execute_vm_asset, and
\* against releases, installs and deletes in any order.
ActiveAllocationsOnLiveAssets ==
    \A x \in AllocIds :
        Live(x) /\ allocations[x].status = "active" => Exists(allocations[x].asset)

Terminal == {"completed", "cancelled"}

\* A VM execution only moves forward (starting, running, then completed or
\* cancelled) and a finished execution is never changed again, whether
\* the client polls or cancels it.
ExecutionLifecycle ==
    [][\A e \in ExecIds :
         executions[e] /= Unused /\ executions'[e] /= executions[e] =>
            \/ executions[e].status = "starting" /\ executions'[e].status \in {"running", "cancelled"}
            \/ executions[e].status = "running" /\ executions'[e].status \in Terminal]_executions

=============================================================================
