--------------------------- MODULE MCToolApproval ---------------------------
(***************************************************************************)
(* Instances of ToolApproval: chats of a role that asks, a chat of a role  *)
(* whose policy is silent, as in the shipped team templates, and headless  *)
(* turns of an auto and of a manual role.                                  *)
(***************************************************************************)
EXTENDS ToolApproval, TLC

CONSTANTS chat, chat2, bare, auto, manual, read, write, shell

MCTool == {read, write, shell}
MCReadOnly == {read}
MCBatches == {<<read>>, <<write, write>>, <<shell>>}
UnsetBatches == {<<read>>, <<write, write>>}
Policy(p) == (read :> "unset") @@ (write :> p) @@ (shell :> "allow")
MCPerm == [r \in Run |-> IF r = bare THEN Policy("unset") ELSE Policy("ask")]
=============================================================================
