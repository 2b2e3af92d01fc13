---------------------------- MODULE MCPtyStream ----------------------------
(* One client, a channel and a scrollback shorter than the run.            *)
EXTENDS PtyStream, TLC

CONSTANT c1
=============================================================================
