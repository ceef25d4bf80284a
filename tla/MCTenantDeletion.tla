-------------------------- MODULE MCTenantDeletion --------------------------
(***************************************************************************)
(* Two clients who register with one email, one of which is deleted with   *)
(* its two spans; S3 lists one name at a time.                             *)
(***************************************************************************)
EXTENDS TenantDeletion

MCEmailOf == [c \in Clients |-> "a@x"]
=============================================================================
