--------------------------- MODULE MCIdleWatcher ---------------------------
(***************************************************************************)
(* Instances of IdleWatcher.                                               *)
(*                                                                         *)
(* qa declares the exclusive pair passing/failing, failing is a blocker;   *)
(* dev declares ready.  A terminal for each.                               *)
(***************************************************************************)
EXTENDS IdleWatcher, TLC

CONSTANTS dev, qa, ready, passing, failing, requested, planned, kickoff,
          c1, t1, t2, noTerm

MCRole == {dev, qa}
MCTopic == {ready, passing, failing, requested, planned, kickoff}
MCBlocker == {failing}
MCPublishes == (dev :> {ready}) @@ (qa :> {passing, failing})
NoSubscribes == (dev :> {}) @@ (qa :> {})
MCReports == {<<"user", failing>>}

MCEndsWith == [x \in MCTopic |-> {x}]
MCPairs == {<<passing, failing>>}
QaTerminal == t1 :> qa
DevTerminal == t1 :> dev

L(k, x) == [kind |-> k, topic |-> x]
QaLines == {L("marker", failing), L("header", NoTopic)}
\* The live instance: dev alone, and no more topics than it takes.
LiveRole == {dev}
LiveTopic == {ready, requested, planned}
LivePublishes == dev :> {ready}
LiveSubscribes == dev :> {}
LiveEndsWith == [x \in LiveTopic |-> {x}]
LiveLines == {L("marker", ready), L("dangling", NoTopic)}
=============================================================================
