---------------------------- MODULE MCCoreServer ----------------------------
(* Small instances of CoreServer: a definer of two examples that mention   *)
(* one name, and a verifier of one run.                                    *)
EXTENDS CoreServer

CONSTANTS e1, e2, n1, yes, no, c1, m1, m2, r1
=============================================================================
