---------------------------- MODULE MCLocalClients ----------------------------
(* Instances of LocalClients for TLC. *)
EXTENDS LocalClients

CONSTANTS k1, k2
=============================================================================
