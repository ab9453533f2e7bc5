------------------------ MODULE MCHyperMeshAssets ------------------------
(* The server's sample state (HyperMeshState._initialize_sample_assets,  *)
(* reduced to the CPU pool and its allocation) plus small id pools.      *)
EXTENDS HyperMeshAssets, TLC

CONSTANTS a1, x1, x2, x3, e1, e2, p1

MCAssetIds == {"asset-cpu-001", a1}
MCInitAssets == [a \in {"asset-cpu-001"} |->
                   [type |-> "cpu", status |-> "available", total |-> 100,
                    allocated |-> 25, available |-> 75]]
MCAllocIds == {"alloc-001", x1, x2}
MCInitAllocs == [x \in {"alloc-001"} |->
                   [asset |-> "asset-cpu-001", amount |-> 25, status |-> "active", exec |-> FALSE]]
\* A third fresh allocation id: enough for an execution's allocation plus
\* two request_allocation calls on the same VM.
MCAllocIdsWide == MCAllocIds \cup {x3}
MCExecIds == {e1, e2}
MCApps == {"catalog-julia-001"}
\* AllocationRequest.amount is Union[int, float] with no bound: besides a
\* small and a pool-sized request, a client may send a negative amount.
MCAmounts == {1, 75, -50}
\* update_asset bodies: the two statuses an operator sets and a retype to
\* "vm", which lets execute_vm_asset run on a former CPU asset.
MCUpdates == {[status |-> "maintenance"], [status |-> "available"], [type |-> "vm"]}
\* ... and an allocation dict that resets the capacity to the default.
MCUpdatesWide == MCUpdates \cup {[total |-> 100, allocated |-> 0, available |-> 100]}
\* Fresh ids are uuid4 strings: nothing in the server tells one unused id
\* from another, so permuting the unused allocation and execution
\* ids maps behaviours to behaviours.
MCSymmetry == Permutations({x1, x2}) \cup Permutations({e1, e2})
=============================================================================
