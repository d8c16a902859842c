--------------------------- MODULE MCRpcConnector ---------------------------
(* Small instances of RpcConnector for TLC.                                *)
EXTENDS RpcConnector, TLC

CONSTANTS c1, c2, t1, r1

(* The callers are interchangeable: nothing in the module names one.       *)
CallerSymmetry == Permutations({c1, c2})
=============================================================================
