-------------------------- MODULE MCGracefulUpgrade --------------------------
(* Two sessions of one project. *)
EXTENDS GracefulUpgrade
================================================================================
