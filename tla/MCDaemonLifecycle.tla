------------------------- MODULE MCDaemonLifecycle -------------------------
(***************************************************************************)
(* Instance of DaemonLifecycle: two shells and an app.                     *)
(***************************************************************************)
EXTENDS DaemonLifecycle, TLC

CONSTANTS c1, c2, a1

Shells == Permutations(Cli)
=============================================================================
