--------------------------- MODULE InfraValidator ---------------------------
(***************************************************************************)
(* validate-production-infrastructure.py: InfrastructureValidator and     *)
(* main.                                                                   *)
(*                                                                         *)
(* run_full_validation calls six validate_* methods in order.  Each builds *)
(* a result with status "FAIL", then inside one try block makes boto3      *)
(* calls and appends an issue for every requirement the answer does not   *)
(* meet; a missing resource returns early.  Any exception that reaches    *)
(* the outer except appends "<component> validation error" and ends the   *)
(* method.  Some calls have their own except: a ClientError there becomes *)
(* an issue and the method goes on.  The status becomes "PASS" only when  *)
(* no issue was appended.  The report is then written, and the process    *)
(* exits 1 unless every component passed.                                  *)
(*                                                                         *)
(* The AWS account is an input fixed in Init: the set of requirements it  *)
(* fails, and at most one call that raises, with a ClientError or with    *)
(* another exception.  A method is a sequence of steps that one           *)
(* operator runs; each step is the code's call, early return or check.    *)
(* Resource ids, counts and the details dict are left out.                *)
(***************************************************************************)
EXTENDS Integers, Sequences

CONSTANTS
    Accounts,       \* the sets of defects the AWS account may have
    FaultyCalls,    \* the boto3 calls that may raise
    NoFault,        \* model value: no call raises
    Running,        \* model value: the process has not exited
    NoReport        \* model value: no report file was written

VARIABLES
    account,    \* the requirements the account does not meet (input)
    fault,      \* <<call, "client" or "other">> that raises, or NoFault
    pc,         \* the index of the next validate_* method
    results,    \* the results list of run_full_validation
    saved,      \* the report written to PRODUCTION_INFRASTRUCTURE_VALIDATION_*.md
    exitCode    \* the process exit status, Running while it runs

vars == <<account, fault, pc, results, saved, exitCode>>

(***************************************************************************)
(* Steps.  "call": a boto3 call whose exceptions reach the outer except.   *)
(* "gate": a missing resource, issue and return.  "check": an issue when   *)
(* the requirement d fails (unless the requirement u already failed: the  *)
(* else branch of a previous check).  "guarded": a call in its own        *)
(* try/except ClientError.  "soft": a call in its own try/except          *)
(* Exception.  "keys": the KMS key loop.  "absent": a method the boto3    *)
(* client does not have, which raises AttributeError whatever the account *)
(* holds.                                                                  *)
(***************************************************************************)
Call(c) == [k |-> "call", c |-> c]
Gate(d) == [k |-> "gate", d |-> d]
Check(d) == [k |-> "check", d |-> d, u |-> "none"]
CheckElse(d, u) == [k |-> "check", d |-> d, u |-> u]
Guarded(c, d) == [k |-> "guarded", c |-> c, d |-> d]

VpcSteps ==
    << Call("describe_vpcs"), Gate("vpc_missing"), Check("no_ipv6_cidr"),
       Call("describe_subnets"), Check("few_public_subnets"), Check("few_private_subnets"),
       Call("describe_internet_gateways"), Check("no_internet_gateway"),
       Call("describe_flow_logs"), Check("no_flow_logs") >>

HsmSteps ==
    << Call("describe_clusters"), Gate("hsm_cluster_missing"), Check("hsm_not_active"),
       Check("few_active_hsms"), Check("hsm_no_certificates"), Check("hsm_single_az") >>

\* get_bucket_location re-raises every ClientError but NoSuchBucket.
CtSteps ==
    << Call("get_bucket_location"), Gate("ct_bucket_missing"),
       Guarded("get_bucket_encryption", "ct_no_encryption"),
       Guarded("get_bucket_versioning", "ct_no_versioning"),
       Guarded("get_bucket_lifecycle_configuration", "ct_no_lifecycle"),
       Guarded("get_public_access_block", "ct_public_access") >>

LbSteps ==
    << Call("describe_load_balancers"), Gate("alb_missing"), Check("alb_not_dualstack"),
       Check("alb_no_security_groups"), Call("describe_listeners"),
       Check("no_https_listener"), CheckElse("https_listener_no_certificate", "no_https_listener"),
       Call("describe_target_groups"), Call("describe_target_health"),
       Check("no_healthy_targets"), Guarded("get_web_acl_for_resource", "waf_missing") >>

\* describe_log_groups belongs to the CloudWatch Logs client, not to the
\* boto3.client('cloudwatch') it is called on.
MonitoringSteps ==
    << Call("describe_alarms"), Check("missing_hsm_cluster_alarm"),
       Check("missing_high_cpu_alarm"), Check("missing_high_cert_ops_alarm"),
       [k |-> "absent", c |-> "describe_log_groups"],
       Call("list_metrics"), Check("no_custom_metrics") >>

\* Open security-group rules are looked for in IpRanges only; Ipv6Ranges
\* (the defect "sg_open_ipv6") is never read.
SecuritySteps ==
    << Call("list_keys"), [k |-> "keys"], [k |-> "soft", c |-> "describe_parameters"],
       Call("describe_security_groups"), Check("sg_open_ipv4_non_443") >>

\* validation_functions, in run_full_validation's order.
Validators ==
    << [name |-> "VPC", steps |-> VpcSteps],
       [name |-> "CloudHSM", steps |-> HsmSteps],
       [name |-> "Certificate Transparency Storage", steps |-> CtSteps],
       [name |-> "Load Balancer", steps |-> LbSteps],
       [name |-> "Monitoring", steps |-> MonitoringSteps],
       [name |-> "Security", steps |-> SecuritySteps] >>

Raises(c, how) == fault = <<c, how>>
RaisesAny(c) == Raises(c, "client") \/ Raises(c, "other")

\* The KMS loop: a key whose describe_key raises is skipped by a bare
\* except; a key whose get_key_rotation_status raises is counted as not
\* rotated.  The issue is raised when fewer keys rotate than were found.
KeysIssue ==
    /\ ~RaisesAny("describe_key")
    /\ "key_no_rotation" \in account \/ RaisesAny("get_key_rotation_status")

(***************************************************************************)
(* One validate_* method: the issues appended before it returns.           *)
(***************************************************************************)
RECURSIVE RunSteps(_, _, _)
RunSteps(steps, name, issues) ==
    IF steps = <<>> THEN issues
    ELSE LET s     == Head(steps)
             error == Append(issues, name \o " validation error")
             go(is) == RunSteps(Tail(steps), name, is)
         IN  CASE s.k = "call"   -> IF RaisesAny(s.c) THEN error ELSE go(issues)
               [] s.k = "absent" -> error
               [] s.k = "gate"   -> IF s.d \in account THEN Append(issues, s.d) ELSE go(issues)
               [] s.k = "check"  ->
                    go(IF s.d \in account /\ s.u \notin account THEN Append(issues, s.d) ELSE issues)
               [] s.k = "guarded" ->
                    IF Raises(s.c, "other") THEN error
                    ELSE go(IF Raises(s.c, "client") THEN Append(issues, "error checking " \o s.c)
                            ELSE IF s.d \in account THEN Append(issues, s.d) ELSE issues)
               [] s.k = "soft"   ->
                    go(IF RaisesAny(s.c) THEN Append(issues, "error checking " \o s.c) ELSE issues)
               [] s.k = "keys"   ->
                    go(IF KeysIssue THEN Append(issues, "key_no_rotation") ELSE issues)

\* The result dict: status "PASS" only when no issue was appended.
Validate(v) ==
    LET issues == RunSteps(v.steps, v.name, <<>>)
    IN  [component |-> v.name, status |-> IF issues = <<>> THEN "PASS" ELSE "FAIL",
         issues |-> issues]

\* generate_validation_report: the overall status, the counts, and either
\* the "Remediation Required" list of failed components or "Infrastructure
\* Ready".
ValidationReport(rs) ==
    LET failed == SelectSeq(rs, LAMBDA r : r.status = "FAIL")
    IN  [overall     |-> IF failed = <<>> THEN "PASS" ELSE "FAIL",
         total       |-> Len(rs),
         passed      |-> Len(rs) - Len(failed),
         remediation |-> [i \in 1..Len(failed) |-> failed[i].component]]

-----------------------------------------------------------------------------
Init ==
    /\ account \in Accounts
    /\ fault \in {NoFault} \cup (FaultyCalls \X {"client", "other"})
    /\ pc = 1
    /\ results = <<>>
    /\ saved = NoReport
    /\ exitCode = Running

\* run_full_validation's loop body: the method's result is appended.  The
\* loop's own except is not reached: every method catches Exception itself.
RunValidator ==
    /\ pc <= Len(Validators)
    /\ results' = Append(results, Validate(Validators[pc]))
    /\ pc' = pc + 1
    /\ UNCHANGED <<account, fault, saved, exitCode>>

\* The report is generated and written; open(report_filename, 'w') may
\* raise, and the traceback ends the process with status 1.  Otherwise the
\* process exits 1 unless every component passed.
FinishValidation(ok) ==
    /\ pc = Len(Validators) + 1 /\ exitCode = Running
    /\ saved' = IF ok THEN ValidationReport(results) ELSE NoReport
    /\ exitCode' = IF ok /\ \A i \in 1..Len(results) : results[i].status = "PASS" THEN 0 ELSE 1
    /\ UNCHANGED <<account, fault, pc, results>>

Next ==
    \/ RunValidator
    \/ \E ok \in BOOLEAN : FinishValidation(ok)

Spec == Init /\ [][Next]_vars /\ WF_vars(Next)

-----------------------------------------------------------------------------
TypeOK ==
    /\ pc \in 1..(Len(Validators) + 1)
    /\ Len(results) = pc - 1
    /\ exitCode \in {Running, 0, 1}

\* An account that meets every requirement the validator checks, where no
\* AWS call fails, passes: main exits 0 and the report says "Infrastructure
\* Ready".  run_full_validation logs "All infrastructure components passed
\* validation!" for exactly this case.
CompliantAccountPasses ==
    exitCode /= Running /\ account = {} /\ fault = NoFault => exitCode = 0
=============================================================================
