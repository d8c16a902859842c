---------------------------- MODULE MCExampleRuns ----------------------------
(* Small instances of ExampleRuns: two threads, two examples, one state    *)
(* handler next to the trigger.                                            *)
EXTENDS ExampleRuns, TLC

CONSTANTS u1, u2, s1

UserSymmetry == Permutations({u1, u2})
=============================================================================
