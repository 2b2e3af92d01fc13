----------------------------- MODULE MCEventBus -----------------------------
(***************************************************************************)
(* Instances of EventBus.  Two roles in a subscription cycle: dev          *)
(* publishes `built` and reacts to `failing`, qa publishes `failing` (a    *)
(* blocker) and reacts to `built`.                                         *)
(***************************************************************************)
EXTENDS EventBus, TLC

CONSTANTS dev, qa, built, failing, requested, planned, kickoff, c1

MCRole == {dev, qa}
MCTopic == {built, failing, requested, planned, kickoff}
MCBlocker == {failing}
MCPublishes == (dev :> {built}) @@ (qa :> {failing})
MCSubscribes == (dev :> {failing}) @@ (qa :> {built})
MCReports == {<<dev, built>>, <<"user", failing>>}

=============================================================================
