----------------------------- MODULE TeamGraph -----------------------------
(***************************************************************************)
(* The handoff graph of one project's team: what the PM (a language model) *)
(* proposes, how propose_from_idea, refine_proposal and analyze repair it  *)
(* (repair_team_graph, crates/usta-pm/src/lib.rs), and whom dispatch_event *)
(* (crates/usta-daemon/src/main.rs) then wakes, by exact match.            *)
(*                                                                         *)
(* A topic is the sequence of its dotted segments, in lower case; a        *)
(* spelling is a topic as it is written: neat, cased (in capitals), or     *)
(* spaced (with blanks around it).                                         *)
(*                                                                         *)
(*   stage   none, proposed (shown to the user), or live (in role files)   *)
(*   asked   the team the PM came up with, before the repair               *)
(*   team    the team that is shown, or live                               *)
(***************************************************************************)
EXTENDS Naturals, SequencesExt

CONSTANTS
  Name,      \* role names
  Word,      \* segments of topics
  Topic,     \* topics
  Rank,      \* the order of String::sort
  External,  \* is_external_topic
  RawTeam,   \* teams the PM may come up with at first
  NextTeam,  \* teams it may come up with when asked again
  NoTopic

Spelling == [topic: Topic, form: {"neat", "cased", "spaced"}]
Topics == [pubs: SUBSET Spelling, subs: SUBSET Spelling]

ASSUME GraphAssumption ==
  /\ Topic \subseteq Seq(Word) \ {<<>>}  \* split leaves at least one
  /\ Rank \in [Topic -> Nat]
  /\ \A t, u \in Topic : Rank[t] = Rank[u] => t = u
  /\ External \subseteq Topic
  /\ RawTeam \cup NextTeam \subseteq [Name -> Topics]
  /\ NoTopic \notin Topic

VARIABLES stage, asked, team

graphVars == <<stage, asked, team>>

NoTeam == [n \in Name |-> [pubs |-> {}, subs |-> {}]]

-----------------------------------------------------------------------------
Neat(t) == [topic |-> t, form |-> "neat"]

\* Mutant of NormTopic: the blanks stay.
NormTopicLower(s) == IF s.form = "cased" THEN Neat(s.topic) ELSE s

\* norm_topic
NormTopic(s) == Neat(s.topic)

\* The last two segments; only for topics that have two.
LastTwo(t) == SubSeq(t, Len(t) - 1, Len(t))

\* Mutant of Related: one common segment at the end is enough.
RelatedByLast(sub, p) ==
  \/ IsStrictSuffix(sub, p) \/ IsStrictSuffix(p, sub)
  \/ Len(sub) >= 1 /\ IsSuffix(<<sub[Len(sub)]>>, p)

\* find_producer: dotted suffix in either direction, or the same last two.
Related(sub, p) ==
  \/ IsStrictSuffix(sub, p) \/ IsStrictSuffix(p, sub)
  \/ Len(sub) >= 2 /\ IsSuffix(LastTwo(sub), p)

FirstOf(topics) == CHOOSE p \in topics : \A q \in topics : Rank[p] <= Rank[q]

\* The code tries what is equal first, and then once more in Kept.
FindProducer(sub, published) ==
  LET related == {p \in published : Related(sub, p)}
  IN IF sub \in published THEN sub
     ELSE IF related = {} THEN NoTopic ELSE FirstOf(related)

Published(t) == UNION {{s.topic : s \in t[n].pubs} : n \in Name}

\* Mutant of Kept: what comes from outside is not known.
KeptInside(sub, published) == FindProducer(sub, published)

\* Mutant of Kept: what nobody produces stays.
KeptOrphan(sub, published) ==
  IF FindProducer(sub, published) = NoTopic THEN sub ELSE FindProducer(sub, published)

\* What becomes of one subscription: itself, its producer's spelling, or nothing.
Kept(sub, published) ==
  IF sub \in External \cup published THEN sub ELSE FindProducer(sub, published)

Rewritten(subs, published) == {[s EXCEPT !.topic = Kept(@, published)] : s \in subs}

\* repair_team_graph
Repaired(raw) ==
  [n \in Name |->
    [pubs |-> {NormTopic(s) : s \in raw[n].pubs},
     subs |-> {s \in Rewritten({NormTopic(s) : s \in raw[n].subs}, Published(raw)) :
                 s.topic # NoTopic}]]

-----------------------------------------------------------------------------
\* to_lowercase, on both sides: blanks count.
Lowered(s) == IF s.form = "cased" THEN Neat(s.topic) ELSE s

\* dispatch_event: whom role n wakes by publishing s, in whatever spelling its
\* model comes up with.
Woken(n, s) == {m \in Name \ {n} : \E sub \in team[m].subs : Lowered(sub) = Lowered(s)}

-----------------------------------------------------------------------------
GraphInit ==
  /\ stage = "none"
  /\ asked = NoTeam /\ team = NoTeam

PmAnswers(raw, then) ==
  /\ asked' = raw /\ team' = Repaired(raw) /\ stage' = then

\* propose_project, and propose_from_idea behind it. (Whatever fails, from the
\* request to the parsing of the answer, leaves things as they are.)
ProposeProject(raw) == stage = "none" /\ PmAnswers(raw, "proposed")

\* With the user's answers to the PM's questions.
RefineProposal(raw) == stage = "proposed" /\ PmAnswers(raw, "proposed")

ScaffoldProject ==
  /\ stage = "proposed" /\ stage' = "live"
  /\ UNCHANGED <<asked, team>>

\* analyze, for a workspace that is there, then the new files in place of the old.
ApplyTeam(raw) == stage # "proposed" /\ PmAnswers(raw, "live")

GraphNext ==
  \/ \E raw \in RawTeam : ProposeProject(raw)
  \/ \E raw \in NextTeam : RefineProposal(raw) \/ ApplyTeam(raw)
  \/ ScaffoldProject

GraphSpec == GraphInit /\ [][GraphNext]_graphVars

-----------------------------------------------------------------------------
\* repair_team_graph: every subscribe maps exactly onto some role's publish,
\* spelling included; only what comes from outside the team has no producer.
EverySubscriptionProduced ==
  \A n \in Name : \A s \in team[n].subs :
    s.topic \in External \/ \E m \in Name : s \in team[m].pubs

\* find_producer's comment, as a definition: one ends with the other, or the
\* topic that is published ends with the last two segments of the other.
EndsWith(t, s) == \E i \in 1..Len(t) : SubSeq(t, i, Len(t)) = s
Alike(sub, p) ==
  EndsWith(p, sub) \/ EndsWith(sub, p) \/ (Len(sub) >= 2 /\ EndsWith(p, LastTwo(sub)))

\* No subscription to the outside goes, nor one for which anything alike is
\* published; and none appears that the role did not ask for.
NothingWantedIsDropped ==
  \A n \in Name :
    /\ \A s \in asked[n].subs :
         \/ \E k \in team[n].subs : Alike(s.topic, k.topic)
         \/ /\ s.topic \notin External
            /\ \A p \in Published(asked) : ~Alike(s.topic, p)
    /\ \A k \in team[n].subs : \E s \in asked[n].subs : Alike(s.topic, k.topic)

\* The repair and the dispatch agree: when a role publishes a topic it has
\* declared, the exact match wakes every other role that asked for that topic,
\* however the PM spelled it on either side, and besides those only roles that
\* asked for something alike that nobody publishes.
WokenAsAsked ==
  stage = "live" => \A n \in Name, e \in Spelling : Lowered(e) \in team[n].pubs =>
    /\ {m \in Name \ {n} : \E s \in asked[m].subs : s.topic = e.topic} \subseteq Woken(n, e)
    /\ \A m \in Woken(n, e) : \E s \in asked[m].subs :
         s.topic = e.topic \/ (Alike(s.topic, e.topic) /\ s.topic \notin Published(asked))
=============================================================================
