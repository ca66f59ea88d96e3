---------------------------- MODULE MCIpcConnection ---------------------------
(* Instances of IpcConnection for TLC. *)
EXTENDS IpcConnection

CONSTANTS i1, i2, i3
=============================================================================
