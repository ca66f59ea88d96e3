------------------------------ MODULE MCDatabase ------------------------------
(* An instance of Database for TLC: the daemon with two threads and a      *)
(* command line process.                                                   *)
EXTENDS Database, TLC

CONSTANTS daemon, cli, request, task, command, t1, t2

Threads == (request :> daemon) @@ (task :> daemon) @@ (command :> cli)
=============================================================================
