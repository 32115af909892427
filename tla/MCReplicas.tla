----------------------------- MODULE MCReplicas -----------------------------
(***************************************************************************)
(* Replicas on small instances: processes are alike, and so are users.     *)
(***************************************************************************)
EXTENDS Replicas
=============================================================================
