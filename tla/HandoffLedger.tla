--------------------------- MODULE HandoffLedger ---------------------------
(***************************************************************************)
(* What the event bus of the daemon promises, with the tasks, the clients  *)
(* and the clock taken away.                                               *)
(*                                                                         *)
(*   log    the workspace's events, oldest first, an event's position      *)
(*          being its id; the log is kept whole, or at a start of the      *)
(*          daemon dropped whole, and never cut or rewritten               *)
(*   woken  the pairs <<role, id>> for which a headless turn of that role  *)
(*          is running because of that event                               *)
(*                                                                         *)
(* An event that comes from outside (a client, a chat, a terminal) may     *)
(* wake the roles that subscribe to its topic, all of them, in the very    *)
(* step that records it, and never its publisher.  An event the daemon     *)
(* writes by itself (a headless turn, the PM) wakes nobody.                *)
(***************************************************************************)
EXTENDS Naturals, Sequences

CONSTANTS Entry,        \* the events that may be recorded
          External(_),  \* is this an event that came from outside?
          Audience(_)   \* the roles that must react to an event

VARIABLES log, woken

ledger == <<log, woken>>

Init == log = <<>> /\ woken = {}

\* The entry a step adds to the log, when it adds one.
Added == log'[Len(log) + 1]

Record ==
  /\ Len(log') = Len(log) + 1
  /\ Added \in Entry
  /\ log' = Append(log, Added)

\* An outside event is recorded and wakes its whole audience, or, when the
\* daemon or the caller is lost half-way, nobody.
Announce ==
  /\ Record
  /\ External(Added)
  /\ \/ woken' = woken \cup {<<r, Len(log')>> : r \in Audience(Added)}
     \/ woken' = woken

\* The daemon's own events are recorded only; the turn that wrote one may
\* end with it.
Note ==
  /\ Record
  /\ ~External(Added)
  /\ woken' \subseteq woken

\* Turns end: one by one, or all together when the daemon stops.
Settle ==
  /\ woken' \subseteq woken
  /\ UNCHANGED log

\* The daemon starts on an empty database: nobody is awake then.
StartOver == log' = <<>> /\ woken' = {}

Next == Announce \/ Note \/ Settle \/ StartOver

Spec == Init /\ [][Next]_ledger
=============================================================================
