------------------------------ MODULE EventBus ------------------------------
(***************************************************************************)
(* The inter-agent event bus of one workspace inside ustad: the events     *)
(* table, the publish_event handler, the fan-out to headless role turns,   *)
(* the handoffs of interactive role chats, and the PM calls a blocker      *)
(* starts (crates/usta-daemon/src/main.rs, crates/usta-core/src/db.rs).    *)
(*                                                                         *)
(*   clock       wall clock, now_ms()                                      *)
(*   events      the events table in id order, see Event                   *)
(*   publishing  publish_event calls between reading the clock and the     *)
(*               insert: the workspace lookup and `git status` run there   *)
(*   chats       role_chat streams, one per client at most                 *)
(*   turns       running tasks of run_role_headless                        *)
(*   pm          running PM tasks (spawn_auto_orchestrate_issue, the plan  *)
(*               of a scaffold), each named by the id of its event         *)
(*                                                                         *)
(* Topics stand for their lower-case spelling.  `via` is a history field:  *)
(* it remembers which code path recorded an event; the table has no such   *)
(* column.                                                                 *)
(*                                                                         *)
(* Assumed: an insert into a table that could be opened succeeds.  Except  *)
(* in publish_event the code ignores its error and goes on.  That the      *)
(* table cannot be opened at a start is modelled, see RestartAnew.         *)
(***************************************************************************)
EXTENDS Naturals, Sequences, FiniteSets

CONSTANTS
  Role, Topic,
  Publishes,         \* handoff_topics.publishes of each role
  Subscribes,        \* handoff_topics.subscribes of each role
  Served,            \* the roles whose default provider is registered
  Blocker,           \* the topics is_blocker_topic accepts
  FeatureRequested,  \* the topic feature.requested
  PlanReady,         \* the topic issue.plan.ready
  KickoffReady,      \* the topic kickoff.plan.ready
  PmServed,          \* is the "anthropic" provider registered?
  Client,            \* callers of publish_event and role_chat
  Reports,           \* the <<sender, topic>> pairs callers publish
  ChatRoles,         \* the roles callers chat with, naming a registered provider
  MaxClock, MaxEvents, MaxHandoffs   \* bounds

Sender == Role \cup {"user", "pm"}

ASSUME BusAssumption ==
  /\ Publishes \in [Role -> SUBSET Topic]
  /\ Subscribes \in [Role -> SUBSET Topic]
  /\ Served \subseteq Role
  /\ Blocker \subseteq Topic
  /\ FeatureRequested \in Topic \ Blocker
  /\ PlanReady \in Topic \ Blocker
  /\ KickoffReady \in Topic \ Blocker
  /\ PmServed \in BOOLEAN
  /\ Reports \subseteq Sender \X Topic
  /\ ChatRoles \subseteq Role
  /\ MaxClock \in Nat \ {0} /\ MaxEvents \in Nat /\ MaxHandoffs \in Nat

VARIABLES clock, events, publishing, chats, turns, pm

busVars == <<clock, events, publishing, chats, turns, pm>>

Via == {"rpc", "chat", "watcher", "headless", "pm", "feature", "scaffold"}

Time == 0..MaxClock

Event == [from : Sender, topic : Topic, at : Time, via : Via]

\* An interactive chat or a headless turn: `done` once its stream has ended,
\* `todo` the handoffs of the answer that are still to be recorded.
Chatting == [client : Client, role : Role, todo : Seq(Topic), done : BOOLEAN]
Turn == [role : Role, cause : Nat, todo : Seq(Topic), done : BOOLEAN]
Call == [client : Client, from : Sender, topic : Topic, at : Time]

\* A task whose stream has ended still has a handoff to record.
BusTypeOK ==
  /\ clock \in Time
  /\ events \in Seq(Event)
  /\ publishing \subseteq Call
  /\ chats \subseteq Chatting
  /\ turns \subseteq Turn
  /\ pm \subseteq Nat
  /\ \A k \in chats \cup turns : k.done => k.todo # <<>>

BusInit ==
  /\ clock = 1
  /\ events = <<>>
  /\ publishing = {}
  /\ chats = {}
  /\ turns = {}
  /\ pm = {}

-----------------------------------------------------------------------------
(* insert_event, dispatch_event and what an answer may hand off            *)

NextId == Len(events) + 1

Insert(f, x, ms, v) ==
  /\ Len(events) < MaxEvents
  /\ events' = Append(events, [from |-> f, topic |-> x, at |-> ms, via |-> v])

Audience(f, x) == {r \in Served \ {f} : x \in Subscribes[r]}

Dispatch(f, x) ==
  turns' = turns \cup
    {[role |-> r, cause |-> NextId, todo |-> <<>>, done |-> FALSE] :
       r \in Audience(f, x)}

\* The topics of the [[handoff: ...]] markers that are recorded: a role that
\* declares nothing may hand off anything.
Allowed(r) == IF Publishes[r] = {} THEN Topic ELSE Publishes[r]

Answers(r) == UNION {[1..n -> Allowed(r)] : n \in 0..MaxHandoffs}

\* Mutant of Recorded: a task is kept when it has nothing left to record.
RecordedNeverEnds(tasks, t) == (tasks \ {t}) \cup {[t EXCEPT !.todo = Tail(@)]}

\* The same task with the first of its handoffs recorded; it ends with the
\* last one.
Recorded(tasks, t) ==
  (tasks \ {t}) \cup
    (IF Len(t.todo) > 1 THEN {[t EXCEPT !.todo = Tail(@)]} ELSE {})

\* The same task when its stream ends with the handoffs hs.
Answered(tasks, t, hs) ==
  (tasks \ {t}) \cup
    (IF hs = <<>> THEN {} ELSE {[t EXCEPT !.todo = hs, !.done = TRUE]})

-----------------------------------------------------------------------------
(* publish_event                                                           *)

\* The handler takes its time stamp first ...
PublishBegin(c, f, x) ==
  /\ \A p \in publishing : p.client # c
  /\ publishing' = publishing \cup
       {[client |-> c, from |-> f, topic |-> x, at |-> clock]}
  /\ UNCHANGED <<clock, events, chats, turns, pm>>

\* Mutant of PublishCommit: the roles are woken first, and the insert may be
\* lost with the caller.
PublishFansOutFirst(p) ==
  /\ \/ Insert(p.from, p.topic, p.at, "rpc")
     \/ UNCHANGED events
  /\ Dispatch(p.from, p.topic)
  /\ pm' = IF p.topic \in Blocker /\ PmServed THEN pm \cup {NextId} ELSE pm
  /\ publishing' = publishing \ {p}
  /\ UNCHANGED <<clock, chats>>

\* ... and inserts, fans out and starts the PM on a blocker later.
PublishCommit(p) ==
  /\ Insert(p.from, p.topic, p.at, "rpc")
  /\ Dispatch(p.from, p.topic)
  /\ pm' = IF p.topic \in Blocker /\ PmServed THEN pm \cup {NextId} ELSE pm
  /\ publishing' = publishing \ {p}
  /\ UNCHANGED <<clock, chats>>

\* The caller goes away and the handler is dropped at one of its awaits: an
\* insert that already runs on the blocking pool still lands.
PublishDropped(p) ==
  /\ publishing' = publishing \ {p}
  /\ \/ Insert(p.from, p.topic, p.at, "rpc")
     \/ UNCHANGED events
  /\ UNCHANGED <<clock, chats, turns, pm>>

-----------------------------------------------------------------------------
(* role_chat                                                               *)

ChatStart(c, r) ==
  /\ \A k \in chats : k.client # c
  /\ chats' = chats \cup {[client |-> c, role |-> r, todo |-> <<>>, done |-> FALSE]}
  /\ UNCHANGED <<clock, events, publishing, turns, pm>>

ChatAnswer(k, hs) ==
  /\ ~k.done
  /\ chats' = Answered(chats, k, hs)
  /\ UNCHANGED <<clock, events, publishing, turns, pm>>

\* One handoff of the answer: recorded, then fanned out.  A blocker starts
\* no PM here.
ChatHandoff(k) ==
  /\ k.done
  /\ Insert(k.role, Head(k.todo), clock, "chat")
  /\ Dispatch(k.role, Head(k.todo))
  /\ chats' = Recorded(chats, k)
  /\ UNCHANGED <<clock, publishing, pm>>

\* The stream fails, or the client closes it: nothing more is recorded, save
\* an insert already under way.
ChatLost(k) ==
  /\ chats' = chats \ {k}
  /\ \/ UNCHANGED events
     \/ k.done /\ Insert(k.role, Head(k.todo), clock, "chat")
  /\ UNCHANGED <<clock, publishing, turns, pm>>

-----------------------------------------------------------------------------
(* run_role_headless                                                       *)

TurnAnswer(t, hs) ==
  /\ ~t.done
  /\ turns' = Answered(turns, t, hs)
  /\ UNCHANGED <<clock, events, publishing, chats, pm>>

\* The provider refuses the request.
TurnFail(t) ==
  /\ ~t.done
  /\ turns' = turns \ {t}
  /\ UNCHANGED <<clock, events, publishing, chats, pm>>

\* Mutant of TurnHandoff: the handoffs of a headless turn are fanned out too.
TurnHandoffDispatched(t) ==
  /\ t.done
  /\ Insert(t.role, Head(t.todo), clock, "headless")
  /\ turns' = Recorded(turns, t) \cup
       {[role |-> r, cause |-> NextId, todo |-> <<>>, done |-> FALSE] :
          r \in Audience(t.role, Head(t.todo))}
  /\ UNCHANGED <<clock, publishing, chats, pm>>

\* "Record (but do not re-dispatch) this role's own handoffs."
TurnHandoff(t) ==
  /\ t.done
  /\ Insert(t.role, Head(t.todo), clock, "headless")
  /\ turns' = Recorded(turns, t)
  /\ UNCHANGED <<clock, publishing, chats, pm>>

-----------------------------------------------------------------------------
(* The PM: spawn_auto_orchestrate_issue, orchestrate_feature and the task  *)
(* scaffold_project leaves behind                                          *)

PlanTopic(j) == IF events[j].via = "scaffold" THEN KickoffReady ELSE PlanReady

\* Mutant of PmPlan: the plan's own event starts the PM again.
PmPlanFeedsPm(j) ==
  /\ Insert("pm", PlanTopic(j), clock, "pm")
  /\ pm' = (pm \ {j}) \cup {NextId}
  /\ UNCHANGED <<clock, publishing, chats, turns>>

PmPlan(j) ==
  /\ Insert("pm", PlanTopic(j), clock, "pm")
  /\ pm' = pm \ {j}
  /\ UNCHANGED <<clock, publishing, chats, turns>>

PmFail(j) ==
  /\ pm' = pm \ {j}
  /\ UNCHANGED <<clock, events, publishing, chats, turns>>

\* orchestrate_feature records the request once the PM has answered, without
\* fanning it out.
FeaturePlanned ==
  /\ Insert("user", FeatureRequested, clock, "feature")
  /\ UNCHANGED <<clock, publishing, chats, turns, pm>>

\* A scaffolded project requests its feature before the PM is asked.
Scaffold ==
  /\ Insert("user", FeatureRequested, clock, "scaffold")
  /\ pm' = IF PmServed THEN pm \cup {NextId} ELSE pm
  /\ UNCHANGED <<clock, publishing, chats, turns>>

-----------------------------------------------------------------------------

Tick ==
  /\ clock < MaxClock
  /\ clock' = clock + 1
  /\ UNCHANGED <<events, publishing, chats, turns, pm>>

\* The daemon stops and is started again: the table survives, tasks do not.
Restart ==
  /\ publishing' = {}
  /\ chats' = {}
  /\ turns' = {}
  /\ pm' = {}
  /\ UNCHANGED <<clock, events>>

\* Db::open cannot open the database (or bring it up to its schema): the file
\* is renamed away and the daemon starts with empty tables, ids from 1.
RestartAnew ==
  /\ events' = <<>>
  /\ publishing' = {}
  /\ chats' = {}
  /\ turns' = {}
  /\ pm' = {}
  /\ UNCHANGED clock

BusStep ==
  \/ \E c \in Client, p \in Reports : PublishBegin(c, p[1], p[2])
  \/ \E p \in publishing : PublishCommit(p) \/ PublishDropped(p)
  \/ \E c \in Client, r \in ChatRoles : ChatStart(c, r)
  \/ \E k \in chats :
       ChatHandoff(k) \/ ChatLost(k) \/ \E hs \in Answers(k.role) : ChatAnswer(k, hs)
  \/ \E t \in turns :
       TurnFail(t) \/ TurnHandoff(t) \/ \E hs \in Answers(t.role) : TurnAnswer(t, hs)
  \/ \E j \in pm : PmPlan(j) \/ PmFail(j)
  \/ FeaturePlanned
  \/ Scaffold
  \/ Tick

BusNext == BusStep \/ Restart \/ RestartAnew

BusSpec == BusInit /\ [][BusNext]_busVars

-----------------------------------------------------------------------------
(* Properties                                                              *)

Outside == {"rpc", "chat", "watcher"}

\* No storms.  Whatever the subscriptions (cycles included), a headless turn
\* only ever runs because of an event a person's client, chat or terminal
\* published, never because of one a headless turn or the PM recorded; and
\* the role it runs for subscribes to that event and did not publish it.
DispatchDepthOne ==
  \A t \in turns :
    /\ t.cause \in 1..Len(events)
    /\ events[t.cause].via \in Outside
    /\ t.role \in Audience(events[t.cause].from, events[t.cause].topic)

\* The PM answers blockers and scaffolds, it does not feed itself: at any time
\* the plans it has announced and the calls it is running are no more than the
\* blockers published and the projects scaffolded so far.
Count(S(_)) == Cardinality({i \in 1..Len(events) : S(events[i])})

PlansAnswerBlockers ==
  LET IsPlan(e) == e.via = "pm"
      IsCause(e) == e.via = "scaffold" \/ (e.via = "rpc" /\ e.topic \in Blocker)
  IN Count(IsPlan) + Cardinality(pm) <= Count(IsCause)

\* The bus keeps the promise of HandoffLedger.
LedgerExternal(e) == e.via \in Outside
LedgerAudience(e) == Audience(e.from, e.topic)
Woken == {<<t.role, t.cause>> : t \in turns}

Ledger == INSTANCE HandoffLedger WITH
  Entry <- Event, External <- LedgerExternal, Audience <- LedgerAudience,
  log <- events, woken <- Woken

ImplementsLedger == Ledger!Spec
=============================================================================
