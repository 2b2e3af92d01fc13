------------------------ MODULE MCWorkspaceRegistry ------------------------
(***************************************************************************)
(* Instance of WorkspaceRegistry: one directory opened and closed by two   *)
(* callers at once, a terminal, two runs of the indexer over a file of     *)
(* three overlapping windows (one of them blank) and a binary.             *)
(***************************************************************************)
EXTENDS WorkspaceRegistry, TLC

CONSTANTS src, logo, p, i1, i2, i3, t1, c1, c2, r1, r2
MCLines == (src :> <<"text", "blank", "blank", "blank", "blank", "text", "blank", "text">>) @@ (logo :> Binary)
MCSymmetry == Permutations(Opener) \cup Permutations(Run) \cup Permutations(Id)
=============================================================================
