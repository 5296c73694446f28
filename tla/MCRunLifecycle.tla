---------------------------- MODULE MCRunLifecycle ----------------------------
(* Two runs of the program, two processors, a few rows.                    *)
EXTENDS RunLifecycle, TLC

CONSTANT row
=============================================================================
