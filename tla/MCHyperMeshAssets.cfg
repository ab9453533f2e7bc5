CONSTANTS
    a1 = a1
    x1 = x1
    x2 = x2
    x3 = x3
    e1 = e1
    e2 = e2
    p1 = p1
    Unused = Unused
    Deleted = Deleted
    None = None
    AssetIds <- MCAssetIds
    InitAssets <- MCInitAssets
    AllocIds <- MCAllocIds
    InitAllocs <- MCInitAllocs
    ExecIds <- MCExecIds
    Apps <- MCApps
    AssetTypes = {"cpu"}
    Amounts = {1, 75}
    Updates <- MCUpdates
    ProxyIds = {p1}
    ProxyStatuses = {"inactive"}
    Nodes = {"node-001"}
    MaxHistory = 1

SPECIFICATION Spec
SYMMETRY MCSymmetry
INVARIANT TypeOK
INVARIANT ActiveAllocationsOnLiveAssets
PROPERTY ExecutionLifecycle
\* The server stays up waiting for requests; a state with nothing enabled
\* only means the bounded id pools are used up.
CHECK_DEADLOCK FALSE
