--------------------------- MODULE MCServerProcess ---------------------------
(* Small instances of ServerProcess: two users, two servers (the second one *)
(* can only be spawned while hooks run), one line of log.                  *)
EXTENDS ServerProcess

CONSTANTS u1, u2
=============================================================================
