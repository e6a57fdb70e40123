------------------------ MODULE MCCommandScheduler ------------------------
(* The command scheduler with two deferred operations.                     *)
EXTENDS CommandScheduler

CONSTANTS a, b

TwoOps == {a, b}
=============================================================================
