---------------------------- MODULE MCRoleFiles ----------------------------
(***************************************************************************)
(* Instance of RoleFiles: a role with a plain name (qa) that is also in    *)
(* the shared library, and one whose name is not its file's (pm, as        *)
(* "Product Manager" becomes product-manager.yaml), so that delete_role    *)
(* looks for a file that never was.                                        *)
(***************************************************************************)
EXTENDS RoleFiles, TLC

CONSTANTS qa, pm, v0, v1, v2, k0, k1, qaFile, pmFile, libFile, c1, c2

MCFileOf == (qa :> qaFile) @@ (pm :> pmFile)
MCOwnFiles == (qa :> {qaFile}) @@ (pm :> {})
R(n, v) == [name |-> n, body |-> v, kick |-> k0]
MCTeam == {{R(qa, v1), R(pm, v1)}, {R(qa, v2)}}
MCPlan == {qa :> k1, pm :> k1, (qa :> k1) @@ (pm :> k1)}
Library0 == (libFile :> R(qa, v0))
MCFirstDisk ==
  {Library0 @@ (qaFile :> Absent) @@ (pmFile :> Absent),
   Library0 @@ (qaFile :> R(qa, v1)) @@ (pmFile :> R(pm, v1))}
MCSymmetry == Permutations(Call)
=============================================================================
