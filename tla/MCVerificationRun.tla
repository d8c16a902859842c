-------------------------- MODULE MCVerificationRun --------------------------
(* Small instances of VerificationRun: a run of two tests, whose adds race,*)
(* and after it a run of one test, which meets what the first run left.    *)
EXTENDS VerificationRun, TLC

CONSTANTS n1, n2

TwoRuns == {<<1, n1>>, <<1, n2>>, <<2, n1>>}
OneTest == {<<1, n1>>}
=============================================================================
