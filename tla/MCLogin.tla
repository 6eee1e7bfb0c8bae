------------------------------ MODULE MCLogin -------------------------------
(* Instances of Login: who runs the command, and how.                        *)
EXTENDS Login

CONSTANTS c1, c2

\* Users and scripts, with and without --auth-code.
AnyRun == [interactive : BOOLEAN, coded : BOOLEAN]
=============================================================================
