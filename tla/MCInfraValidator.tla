-------------------------- MODULE MCInfraValidator --------------------------
(* A compliant account, accounts with one defect each (one the validator  *)
(* reports, one behind an early return, one a method raises on, one it   *)
(* never reads), and one call of each kind that may raise.               *)
EXTENDS InfraValidator

MCAccounts == {{}, {"no_flow_logs"}, {"vpc_missing"}, {"key_no_rotation"}, {"sg_open_ipv6"}}
MCFaultyCalls == {"describe_vpcs", "get_bucket_encryption", "describe_key", "describe_parameters"}
=============================================================================
