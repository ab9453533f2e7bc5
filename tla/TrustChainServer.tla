------------------------- MODULE TrustChainServer -------------------------
(***************************************************************************)
(* The certificate, DNS-record and rotation-policy state of               *)
(* trustchain_simple_server.py (class TrustChainState and the FastAPI     *)
(* handlers), with the request statistics that the handlers, the          *)
(* HTTPException handler and the track_requests middleware all update.    *)
(*                                                                         *)
(* No handler awaits inside its body, so each request runs to completion  *)
(* on the event loop: one request is one atomic action, middleware and    *)
(* exception handler included.  Ids come from uuid4 and are never reused, *)
(* so a fresh id is any id still Unused.  Subjects, domains and record    *)
(* types are model values; keys, fingerprints and timestamps are left out.*)
(***************************************************************************)
EXTENDS Naturals, FiniteSets

CONSTANTS
    RootId,         \* "trustchain-root-ca"
    CertIds,        \* every certificate id the run may use
    Subjects,       \* CertificateRequest.subject values
    RecordIds,      \* DNS record ids
    InitRecords,    \* the sample records: id -> record
    RecordTypes,    \* record_type values clients send
    DnsStatuses,    \* status values clients PUT through update_dns_record
    PolicyIds,      \* rotation policy ids
    MaxRequests     \* bound on the number of requests served

CONSTANTS Unused, Deleted, None   \* model values: id never used, record deleted, no validation yet

ASSUME RootId \in CertIds /\ DOMAIN InitRecords \subseteq RecordIds

VARIABLES
    certs,          \* state.certificates
    records,        \* state.dns_records
    policies,       \* state.rotation_policies
    stats,          \* the request counters of state.stats
    served,         \* requests answered so far
    wasRevoked,     \* history: certificates ever revoked
    lastValidation  \* history: the last validate_certificate answer

vars == <<certs, records, policies, stats, served, wasRevoked, lastValidation>>

CertRec == [subject : Subjects \cup {"root"}, status : {"active", "expired", "revoked"},
            level : {"root", "leaf"}]
RecordRec == [type : RecordTypes, status : DnsStatuses \cup {"active"}]
PolicyRec == [cert : CertIds, enabled : BOOLEAN, scheduled : BOOLEAN]

Present(c) == certs[c] /= Unused

-----------------------------------------------------------------------------
\* TrustChainState.__init__: the root CA and the sample DNS records.
Init ==
    /\ certs = [c \in CertIds |->
                  IF c = RootId THEN [subject |-> "root", status |-> "active", level |-> "root"]
                  ELSE Unused]
    /\ records = [r \in RecordIds |-> IF r \in DOMAIN InitRecords THEN InitRecords[r] ELSE Unused]
    /\ policies = [p \in PolicyIds |-> Unused]
    /\ stats = [total |-> 0, ok |-> 0, failed |-> 0, ca |-> 0, ct |-> 0, dns |-> 0]
    /\ served = 0
    /\ wasRevoked = {}
    /\ lastValidation = None

\* update_stats(success, service_type) on a stats record.
UpdateStats(s, success, svc) ==
    [s EXCEPT !.total = @ + 1,
              !.ok = IF success THEN @ + 1 ELSE @,
              !.failed = IF success THEN @ ELSE @ + 1,
              !.ca = IF svc = "ca" THEN @ + 1 ELSE @,
              !.ct = IF svc = "ct" THEN @ + 1 ELSE @,
              !.dns = IF svc = "dns" THEN @ + 1 ELSE @]

\* One request: the handler's own update_stats(service_type=svc) at its top
\* (counted as a success, svc "none" when the handler has none), then, if it
\* raised an HTTPException, http_exception_handler's update_stats(False),
\* then track_requests' update_stats(True) on the response it got back.
Account(svc, err) ==
    LET s1 == IF svc = "none" THEN stats ELSE UpdateStats(stats, TRUE, svc)
        s2 == IF err THEN UpdateStats(s1, FALSE, "general") ELSE s1
    IN  /\ served < MaxRequests
        /\ served' = served + 1
        /\ stats' = UpdateStats(s2, TRUE, "general")

\* A request whose handler only reads: /health, /stats, /api/v1/status,
\* GET certificates, trust hierarchy, DNS records, resolve, rotation
\* policies and history.
ReadRequest(svc) ==
    /\ Account(svc, FALSE)
    /\ UNCHANGED <<certs, records, policies, wasRevoked, lastValidation>>

\* A handler's 404 for an id not in its dict.
NotFound(svc) ==
    /\ Account(svc, TRUE)
    /\ UNCHANGED <<certs, records, policies, wasRevoked, lastValidation>>

GetCertificate(c) ==
    /\ IF Present(c) THEN Account("ca", FALSE) ELSE Account("ca", TRUE)
    /\ UNCHANGED <<certs, records, policies, wasRevoked, lastValidation>>

\* Mutant: new certificates start "pending", a status the dataclass lists.
CreateCertificatePending(n, subj) ==
    /\ ~Present(n)
    /\ certs' = [certs EXCEPT ![n] = [subject |-> subj, status |-> "pending", level |-> "leaf"]]
    /\ Account("ca", FALSE)
    /\ UNCHANGED <<records, policies, wasRevoked, lastValidation>>

\* POST /api/v1/certificates: an active leaf under a fresh id.
CreateCertificate(n, subj) ==
    /\ ~Present(n)
    /\ certs' = [certs EXCEPT ![n] = [subject |-> subj, status |-> "active", level |-> "leaf"]]
    /\ Account("ca", FALSE)
    /\ UNCHANGED <<records, policies, wasRevoked, lastValidation>>

RevokeCertificate(c) ==
    \/ ~Present(c) /\ NotFound("ca")
    \/ /\ Present(c)
       /\ certs' = [certs EXCEPT ![c].status = "revoked"]
       /\ wasRevoked' = wasRevoked \cup {c}
       /\ Account("ca", FALSE)
       /\ UNCHANGED <<records, policies, lastValidation>>

\* POST .../validate: valid exactly when this certificate's status is
\* active; the chain it reports is never looked at.
ValidateCertificate(c) ==
    \/ ~Present(c) /\ NotFound("ct")
    \/ /\ Present(c)
       /\ lastValidation' = [cert |-> c, valid |-> certs[c].status = "active",
                             revokedBefore |-> c \in wasRevoked]
       /\ Account("ct", FALSE)
       /\ UNCHANGED <<certs, records, policies, wasRevoked>>

\* Mutant: the new certificate is the one marked expired, the old one
\* is reactivated.
ExecuteRotationSwapped(c, n) ==
    \/ ~Present(c) /\ NotFound("ca")
    \/ /\ Present(c) /\ ~Present(n)
       /\ certs' = [certs EXCEPT ![n] = [certs[c] EXCEPT !.status = "expired"],
                                 ![c].status = "active"]
       /\ Account("ca", FALSE)
       /\ UNCHANGED <<records, policies, wasRevoked, lastValidation>>

\* POST /api/v1/rotation/execute: whatever the old certificate's status,
\* a new active one with its subject and trust level replaces it and the
\* old one is marked expired.
ExecuteRotation(c, n) ==
    \/ ~Present(c) /\ NotFound("ca")
    \/ /\ Present(c) /\ ~Present(n)
       /\ certs' = [certs EXCEPT ![n] = [certs[c] EXCEPT !.status = "active"],
                                 ![c].status = "expired"]
       /\ Account("ca", FALSE)
       /\ UNCHANGED <<records, policies, wasRevoked, lastValidation>>

\* POST /api/v1/dns/records: an active record under a fresh id.
CreateDnsRecord(r, t) ==
    /\ records[r] = Unused
    /\ records' = [records EXCEPT ![r] = [type |-> t, status |-> "active"]]
    /\ Account("dns", FALSE)
    /\ UNCHANGED <<certs, policies, wasRevoked, lastValidation>>

\* PUT /api/v1/dns/records/{id}: setattr of any field but id; the model
\* lets clients set record_type and status.
UpdateDnsRecord(r, t, st) ==
    \/ records[r] \in {Unused, Deleted} /\ NotFound("dns")
    \/ /\ records[r] \notin {Unused, Deleted}
       /\ records' = [records EXCEPT ![r] = [type |-> t, status |-> st]]
       /\ Account("dns", FALSE)
       /\ UNCHANGED <<certs, policies, wasRevoked, lastValidation>>

DeleteDnsRecord(r) ==
    \/ records[r] \in {Unused, Deleted} /\ NotFound("dns")
    \/ /\ records[r] \notin {Unused, Deleted}
       /\ records' = [records EXCEPT ![r] = Deleted]
       /\ Account("dns", FALSE)
       /\ UNCHANGED <<certs, policies, wasRevoked, lastValidation>>

\* POST /api/v1/rotation/policies: certificate_id is not looked up;
\* next_rotation is set only when the policy is enabled.
CreateRotationPolicy(p, c, en) ==
    /\ policies[p] = Unused
    /\ policies' = [policies EXCEPT ![p] = [cert |-> c, enabled |-> en, scheduled |-> en]]
    /\ Account("ca", FALSE)
    /\ UNCHANGED <<certs, records, wasRevoked, lastValidation>>

\* PUT /api/v1/rotation/policies/{id}: setattr of enabled leaves
\* next_rotation as it was.
UpdateRotationPolicy(p, en) ==
    \/ policies[p] = Unused /\ NotFound("ca")
    \/ /\ policies[p] /= Unused
       /\ policies' = [policies EXCEPT ![p].enabled = en]
       /\ Account("ca", FALSE)
       /\ UNCHANGED <<certs, records, wasRevoked, lastValidation>>

\* POST /auth/certificate: 401 unless the text holds "BEGIN CERTIFICATE";
\* the handler itself calls no update_stats.
AuthenticateCertificate(wellFormed) ==
    /\ Account("none", ~wellFormed)
    /\ UNCHANGED <<certs, records, policies, wasRevoked, lastValidation>>

Next ==
    \/ \E svc \in {"general", "ca", "dns"} : ReadRequest(svc)
    \/ \E c \in CertIds : GetCertificate(c) \/ RevokeCertificate(c) \/ ValidateCertificate(c)
    \/ \E n \in CertIds, subj \in Subjects : CreateCertificate(n, subj)
    \/ \E c, n \in CertIds : ExecuteRotation(c, n)
    \/ \E r \in RecordIds, t \in RecordTypes : CreateDnsRecord(r, t)
    \/ \E r \in RecordIds, t \in RecordTypes, st \in DnsStatuses \cup {"active"} :
           UpdateDnsRecord(r, t, st)
    \/ \E r \in RecordIds : DeleteDnsRecord(r)
    \/ \E p \in PolicyIds, c \in CertIds, en \in BOOLEAN : CreateRotationPolicy(p, c, en)
    \/ \E p \in PolicyIds, en \in BOOLEAN : UpdateRotationPolicy(p, en)
    \/ \E ok \in BOOLEAN : AuthenticateCertificate(ok)

Spec == Init /\ [][Next]_vars

-----------------------------------------------------------------------------
TypeOK ==
    /\ certs \in [CertIds -> CertRec \cup {Unused}]
    /\ records \in [RecordIds -> RecordRec \cup {Unused, Deleted}]
    /\ policies \in [PolicyIds -> PolicyRec \cup {Unused}]
    /\ stats \in [{"total", "ok", "failed", "ca", "ct", "dns"} -> 0..(3 * MaxRequests)]
    /\ served \in 0..MaxRequests
    /\ wasRevoked \subseteq CertIds
    /\ lastValidation \in [cert : CertIds, valid : BOOLEAN, revokedBefore : BOOLEAN] \cup {None}

\* A certificate that was ever revoked is never again reported valid by
\* validate_certificate: revoke_certificate and execute_rotation may move
\* it to revoked or expired, but no handler makes an existing certificate
\* active again.
RevokedNeverValidatesAgain ==
    lastValidation /= None /\ lastValidation.revokedBefore => ~lastValidation.valid
=============================================================================
