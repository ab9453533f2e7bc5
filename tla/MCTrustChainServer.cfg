CONSTANTS
    c1 = c1
    c2 = c2
    r1 = r1
    r2 = r2
    p1 = p1
    s1 = s1
    Unused = Unused
    None = None
    Deleted = Deleted
    RootId = "trustchain-root-ca"
    CertIds <- MCCertIds
    Subjects = {s1}
    RecordIds <- MCRecordIds
    InitRecords <- MCInitRecords
    RecordTypes = {"AAAA", "A"}
    DnsStatuses = {"failed"}
    PolicyIds <- MCPolicyIds
    MaxRequests = 5

SPECIFICATION Spec
INVARIANT TypeOK
INVARIANT RevokedNeverValidatesAgain
\* The server keeps serving; nothing is enabled only once MaxRequests
\* requests have been answered.
CHECK_DEADLOCK FALSE
