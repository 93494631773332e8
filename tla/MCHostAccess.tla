------------------------------ MODULE MCHostAccess ------------------------------
(* The access model with one user beside the owner and two keys for the host. *)
EXTENDS HostAccess
================================================================================
