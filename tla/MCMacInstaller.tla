---------------------------- MODULE MCMacInstaller ----------------------------
(* Instances of MacInstaller for TLC. *)
EXTENDS MacInstaller

CONSTANTS v1, v2, v3, s1, s2
=============================================================================
