------------------------------ MODULE Consent ------------------------------
(***************************************************************************)
(* What asking a person before a tool runs promises, with the runs, the    *)
(* approvals map, the channels and the cards taken away.                   *)
(*                                                                         *)
(*   issued   the ids handed out so far                                    *)
(*   asked    the calls a person may still decide                          *)
(*   allowed  the calls a person has allowed and that have not ended yet   *)
(*   acted    the calls that acted on the workspace after being allowed    *)
(*                                                                         *)
(* Every question has an id of its own.  An answer decides one question,   *)
(* and only the first one counts: a call that was allowed acts once or     *)
(* never, a call that was refused, dropped or lost in a restart can        *)
(* neither be allowed nor act any more.                                    *)
(***************************************************************************)
CONSTANTS Call,   \* the calls that may be asked about
          Id(_)   \* the id of a call

VARIABLES issued, asked, allowed, acted

consent == <<issued, asked, allowed, acted>>

Init == issued = {} /\ asked = {} /\ allowed = {} /\ acted = {}

Ask ==
  \E c \in asked' \ asked :
    /\ c \in Call
    /\ Id(c) \notin issued
    /\ issued' = issued \cup {Id(c)}
    /\ asked' = asked \cup {c}
    /\ UNCHANGED <<allowed, acted>>

Allow(c) ==
  /\ asked' = asked \ {c}
  /\ allowed' = allowed \cup {c}
  /\ UNCHANGED <<issued, acted>>

\* A call that was allowed is carried out, and is done with.
Act(c) ==
  /\ allowed' = allowed \ {c}
  /\ acted' = acted \cup {c}
  /\ UNCHANGED <<issued, asked>>

\* The person refuses, or the run is gone, or the call is not carried out.
Lapse(c) ==
  /\ asked' = asked \ {c}
  /\ allowed' = allowed \ {c}
  /\ UNCHANGED <<issued, acted>>

\* The daemon stops: what was allowed may have acted, all the rest lapses.
Stop ==
  /\ asked' = {} /\ allowed' = {}
  /\ acted \subseteq acted' /\ acted' \subseteq acted \cup allowed
  /\ UNCHANGED issued

Next ==
  \/ Ask
  \/ \E c \in asked : Allow(c) \/ Lapse(c)
  \/ \E c \in allowed : Act(c) \/ Lapse(c)
  \/ Stop

Spec == Init /\ [][Next]_consent
=============================================================================
