---------------------------- MODULE MCUnixEndpoint ----------------------------
(* Instances of UnixEndpoint for TLC. *)
EXTENDS UnixEndpoint

CONSTANTS d1, d2, d3

=============================================================================
