---------------------------- MODULE MCCostLedger ----------------------------
(***************************************************************************)
(* Instance of CostLedger. Two roles are launched in the workspace's       *)
(* directory, qa with claude, uiDev with codex. Earlier there were a       *)
(* launch of qa, whose session, if it has one, the new launch goes on      *)
(* with, and one of uiDash in a worktree; the worktrees of uiDev and       *)
(* uiDash (ui_dev, ui-dev) escape alike.                                   *)
(***************************************************************************)
EXTENDS CostLedger, TLC

CONSTANTS qa, uiDev, uiDash, l1, l2, l3, l4, ws, tree

P(r, v, d) == [role |-> r, vendor |-> v, dir |-> d]
MCPlan == (l1 :> P(qa, "claude", Here)) @@ (l2 :> P(uiDev, "codex", Here))
          @@ (l3 :> P(uiDash, "claude", uiDash)) @@ (l4 :> P(qa, "claude", Here))
MCLines == (l1 :> 1) @@ (l2 :> 1) @@ (l3 :> 1) @@ (l4 :> 2)
MCEscape == (Here :> ws) @@ (uiDev :> tree) @@ (uiDash :> tree) @@ (qa :> qa)
=============================================================================
