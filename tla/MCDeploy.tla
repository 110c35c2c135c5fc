------------------------------- MODULE MCDeploy -------------------------------
(***************************************************************************)
(* Three items: app and main.py, and the scripts that the project does not *)
(* have yet.  Two releases that can be installed, one with a file too many *)
(* and two that must be refused.                                           *)
(***************************************************************************)
EXTENDS Integers, ServiceUpdate

CONSTANTS good, better, cluttered, partial, broken

MCReleases == {good, better, cluttered, partial, broken}
MCHolds == [r \in MCReleases |-> IF r = partial THEN {1, 2} ELSE 1..3]
MCFails    == [r \in MCReleases |-> IF r = broken THEN {"agent"} ELSE {}]

=============================================================================
