---------------------------- MODULE MCTeamGraph ----------------------------
(***************************************************************************)
(* Instance of TeamGraph. Its topics are equal, suffixes of one another,   *)
(* alike in their last two segments or in the last one only, or foreign to *)
(* each other: tests.passing, qa.tests.passing, ci.tests.passing, passing, *)
(* ui.passing, and feature.requested, which comes from outside.            *)
(***************************************************************************)
EXTENDS TeamGraph, FiniteSets

CONSTANTS pm, dev, tests, passing, qa, ci, ui, feature, requested

Order ==
  << <<ci, tests, passing>>, <<feature, requested>>, <<passing>>,
     <<qa, tests, passing>>, <<tests, passing>>, <<ui, passing>> >>
MCTopic == {Order[i] : i \in DOMAIN Order}
MCRank == [t \in MCTopic |-> CHOOSE i \in DOMAIN Order : Order[i] = t]
MCExternal == {<<feature, requested>>}

UpTo(k, s) == {x \in SUBSET s : Cardinality(x) <= k}
Neatly(topics) == {Neat(t) : t \in topics}
MCRawTeam ==
  {(pm :> [pubs |-> p, subs |-> r]) @@ (dev :> [pubs |-> q, subs |-> s]) :
     p \in UpTo(2, Neatly(MCTopic)) \cup {{[topic |-> <<tests, passing>>, form |-> "spaced"]}},
     q \in UpTo(1, Neatly({<<passing>>, <<ui, passing>>})),
     r \in UpTo(1, Neatly({<<passing>>, <<feature, requested>>})),
     s \in UpTo(2, Neatly(MCTopic)) \cup {{[topic |-> <<tests, passing>>, form |-> "cased"]}}}

\* When asked again, it may only add capitals and blanks.
MCNextTeam ==
  {(pm :> [pubs |-> {[topic |-> <<tests, passing>>, form |-> f]}, subs |-> {}]) @@
   (dev :> [pubs |-> {}, subs |-> {[topic |-> t, form |-> g]}]) :
     f \in {"neat", "cased", "spaced"}, g \in {"cased", "spaced"},
     t \in {<<tests, passing>>, <<qa, tests, passing>>}}
=============================================================================
