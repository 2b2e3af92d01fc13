--------------------------- MODULE MCWaitForEvent ---------------------------
(***************************************************************************)
(* Instances of WaitForEvent: dev and qa wait for each other's topic.      *)
(***************************************************************************)
EXTENDS WaitForEvent, TLC

CONSTANTS dev, qa, built, tested

MCWants == (dev :> {tested}) @@ (qa :> {built})
MCMakes == (dev :> {built}) @@ (qa :> {tested})
=============================================================================
