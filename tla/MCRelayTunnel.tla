----------------------------- MODULE MCRelayTunnel -----------------------------
(* Instance of RelayTunnel for TLC. *)
EXTENDS RelayTunnel
================================================================================
