------------------------- MODULE IdleWatcher_proofs -------------------------
(***************************************************************************)
(* Proofs about the bus (EventBus: every team, every set of topics and     *)
(* subscriptions) and about the watcher that publishes on it (IdleWatcher: *)
(* every set of terminals and of lines they print), for every bound.  The  *)
(* theorems about the bus alone come first; the watcher's rest on their    *)
(* lemmas.                                                                 *)
(***************************************************************************)
EXTENDS IdleWatcher, FiniteSetTheorems, WellFoundedInduction, TLAPS

USE BusAssumption

-----------------------------------------------------------------------------
(* Lemmas about the operators                                              *)

\* What a role may hand off is a sequence of topics.
LEMMA AnswersType == \A r \in Role : Answers(r) \subseteq Seq(Topic)
  <1> SUFFICES ASSUME NEW r \in Role, NEW n \in 0..MaxHandoffs,
                      NEW hs \in [1..n -> Allowed(r)]
               PROVE  hs \in Seq(Topic)
    BY DEF Answers
  <1>1. Allowed(r) \subseteq Topic
    BY DEF Allowed
  <1>2. n \in Nat /\ hs \in [1..n -> Topic]
    BY <1>1
  <1> QED BY <1>2

\* What remains of a task once one handoff is recorded, or once its stream
\* has ended: tasks of the same kind, never one that is done with nothing to
\* record.
LEMMA TasksKept ==
  ASSUME NEW T, NEW tasks \in SUBSET T, NEW k \in tasks,
         T = Chatting \/ T = Turn,
         \A j \in tasks : j.done => j.todo # <<>>
  PROVE  /\ k.todo \in Seq(Topic)
         /\ Recorded(tasks, k) \subseteq T
         /\ \A j \in Recorded(tasks, k) : j.done => j.todo # <<>>
         /\ \A hs \in Seq(Topic) :
              /\ Answered(tasks, k, hs) \subseteq T
              /\ \A j \in Answered(tasks, k, hs) : j.done => j.todo # <<>>
  <1>1. k.todo \in Seq(Topic)
    BY DEF Chatting, Turn
  <1>2. ASSUME Len(k.todo) > 1
        PROVE  /\ [k EXCEPT !.todo = Tail(@)] \in T
               /\ [k EXCEPT !.todo = Tail(@)].todo # <<>>
    <2>1. Tail(k.todo) \in Seq(Topic) /\ Len(Tail(k.todo)) = Len(k.todo) - 1
      BY <1>1, <1>2
    <2>2. Tail(k.todo) # <<>>
      <3> DEFINE rest == Tail(k.todo)
      <3>1. rest \in Seq(Topic) /\ Len(rest) > 0
        BY <1>1, <1>2, <2>1
      <3> HIDE DEF rest
      <3>2. rest # <<>>
        BY <3>1
      <3> QED BY <3>2 DEF rest
    <2> QED BY <1>1, <2>1, <2>2 DEF Chatting, Turn
  <1>3. ASSUME NEW hs \in Seq(Topic)
        PROVE  /\ [k EXCEPT !.todo = hs, !.done = TRUE] \in T
               /\ [k EXCEPT !.todo = hs, !.done = TRUE].todo = hs
    BY <1>1, <1>3 DEF Chatting, Turn
  <1> QED BY <1>1, <1>2, <1>3 DEF Recorded, Answered

\* The same for a chat.
LEMMA ChatKept ==
  ASSUME chats \subseteq Chatting, \A j \in chats : j.done => j.todo # <<>>, NEW k \in chats
  PROVE  /\ k.todo \in Seq(Topic)
         /\ Recorded(chats, k) \subseteq Chatting
         /\ \A j \in Recorded(chats, k) : j.done => j.todo # <<>>
         /\ \A hs \in Seq(Topic) :
              /\ Answered(chats, k, hs) \subseteq Chatting
              /\ \A j \in Answered(chats, k, hs) : j.done => j.todo # <<>>
  <1>1. chats \in SUBSET Chatting /\ (Chatting = Chatting \/ Chatting = Turn)
    OBVIOUS
  <1> QED BY <1>1, TasksKept

\* The same for a headless turn.
LEMMA TurnKept ==
  ASSUME turns \subseteq Turn, \A j \in turns : j.done => j.todo # <<>>, NEW k \in turns
  PROVE  /\ k.todo \in Seq(Topic)
         /\ Recorded(turns, k) \subseteq Turn
         /\ \A j \in Recorded(turns, k) : j.done => j.todo # <<>>
         /\ \A hs \in Seq(Topic) :
              /\ Answered(turns, k, hs) \subseteq Turn
              /\ \A j \in Answered(turns, k, hs) : j.done => j.todo # <<>>
  <1>1. turns \in SUBSET Turn /\ (Turn = Chatting \/ Turn = Turn)
    OBVIOUS
  <1> QED BY <1>1, TasksKept

\* Recording an event keeps the table well typed, and older entries as they
\* were.
LEMMA InsertType ==
  ASSUME events \in Seq(Event),
         NEW f \in Sender, NEW x \in Topic, NEW ms \in Time, NEW v \in Via,
         Insert(f, x, ms, v)
  PROVE  /\ events' \in Seq(Event)
         /\ Len(events') = Len(events) + 1
         /\ Len(events') = NextId /\ NextId \in Nat
         /\ \A i \in 1..Len(events) : events'[i] = events[i]
         /\ events'[NextId] = [from |-> f, topic |-> x, at |-> ms, via |-> v]
  <1> DEFINE e == [from |-> f, topic |-> x, at |-> ms, via |-> v]
  <1>1. e \in Event /\ events' = Append(events, e)
    BY DEF Event, Insert
  <1> HIDE DEF e
  <1>2. events' \in Seq(Event) /\ Len(events') = Len(events) + 1 /\ events'[Len(events) + 1] = e
        /\ \A i \in 1..Len(events) : events'[i] = events[i]
    BY <1>1
  <1> QED BY <1>2 DEF NextId, e

\* The fan-out adds idle turns of the new event's audience only.
LEMMA DispatchType ==
  ASSUME events \in Seq(Event), turns \subseteq Turn,
         NEW f, NEW x, Dispatch(f, x)
  PROVE  /\ turns' \subseteq Turn
         /\ \A t \in turns' \ turns :
              t.cause = NextId /\ t.role \in Audience(f, x) /\ ~t.done
  <1>1. NextId \in Nat
    BY DEF NextId
  <1>2. Audience(f, x) \subseteq Role
    BY DEF Audience
  <1>3. \A r \in Role :
          [role |-> r, cause |-> NextId, todo |-> <<>>, done |-> FALSE] \in Turn
    BY <1>1 DEF Turn
  <1>4. \A t \in turns' : t \in turns \/ \E r \in Audience(f, x) :
          t = [role |-> r, cause |-> NextId, todo |-> <<>>, done |-> FALSE]
    BY DEF Dispatch
  <1> QED BY <1>2, <1>3, <1>4

-----------------------------------------------------------------------------
(* The bus: every action keeps the types                                   *)

\* Every step of the bus keeps the types.
LEMMA BusTypeStep == BusTypeOK /\ [BusNext]_busVars => BusTypeOK'
  <1> SUFFICES ASSUME BusTypeOK, [BusNext]_busVars
               PROVE  BusTypeOK'
    OBVIOUS
  <1> USE DEF BusTypeOK
  <1>1. ASSUME NEW c \in Client, NEW p \in Reports, PublishBegin(c, p[1], p[2])
        PROVE  BusTypeOK'
    <2>1. [client |-> c, from |-> p[1], topic |-> p[2], at |-> clock] \in Call
      BY DEF Call
    <2> QED BY <1>1, <2>1 DEF PublishBegin
  <1>2. ASSUME NEW p \in publishing, PublishCommit(p)
        PROVE  BusTypeOK'
    <2>1. /\ Insert(p.from, p.topic, p.at, "rpc") /\ Dispatch(p.from, p.topic)
          /\ pm' \subseteq pm \cup {NextId} /\ publishing' \subseteq publishing
          /\ clock' = clock /\ chats' = chats
      BY <1>2 DEF PublishCommit
    <2>2. p.from \in Sender /\ p.topic \in Topic /\ p.at \in Time
      BY DEF Call
    <2>3. events' \in Seq(Event) /\ NextId \in Nat
      BY <2>1, <2>2, InsertType DEF Via
    <2>4. turns' \subseteq Turn /\ \A t \in turns' \ turns : ~t.done
      BY <2>1, DispatchType
    <2>5. publishing' \subseteq Call /\ pm' \subseteq Nat
      BY <2>1, <2>3
    <2>6. \A k \in (chats \cup turns)' : k.done => k.todo # <<>>
      BY <2>1, <2>4
    <2> QED BY <2>1, <2>3, <2>4, <2>5, <2>6
  <1>3. ASSUME NEW p \in publishing, PublishDropped(p)
        PROVE  BusTypeOK'
    <2>1. p.from \in Sender /\ p.topic \in Topic /\ p.at \in Time
      BY DEF Call
    <2>2. events' \in Seq(Event)
      BY <1>3, <2>1, InsertType DEF PublishDropped, Via
    <2> QED BY <1>3, <2>2 DEF PublishDropped
  <1>4. ASSUME NEW c \in Client, NEW r \in ChatRoles, ChatStart(c, r)
        PROVE  BusTypeOK'
    <2> DEFINE k == [client |-> c, role |-> r, todo |-> <<>>, done |-> FALSE]
    <2>1. k \in Chatting /\ ~k.done
      BY DEF Chatting
    <2>2. chats' = chats \cup {k} /\ UNCHANGED <<clock, events, publishing, turns, pm>>
      BY <1>4 DEF ChatStart
    <2> HIDE DEF k
    <2> QED BY <2>1, <2>2
  <1>5. ASSUME NEW k \in chats, NEW hs \in Answers(k.role), ChatAnswer(k, hs)
        PROVE  BusTypeOK'
    <2>1. hs \in Seq(Topic)
      BY AnswersType DEF Chatting
    <2>2. /\ Answered(chats, k, hs) \subseteq Chatting
          /\ \A j \in Answered(chats, k, hs) : j.done => j.todo # <<>>
      BY <2>1, ChatKept
    <2> QED BY <1>5, <2>2 DEF ChatAnswer
  <1>6. ASSUME NEW k \in chats, ChatHandoff(k)
        PROVE  BusTypeOK'
    <2>1. /\ k.done /\ Insert(k.role, Head(k.todo), clock, "chat")
          /\ Dispatch(k.role, Head(k.todo)) /\ chats' = Recorded(chats, k)
          /\ UNCHANGED <<clock, publishing, pm>>
      BY <1>6 DEF ChatHandoff
    <2>2. /\ k.todo \in Seq(Topic)
          /\ Recorded(chats, k) \subseteq Chatting
          /\ \A j \in Recorded(chats, k) : j.done => j.todo # <<>>
      BY ChatKept
    <2>3. k.role \in Sender /\ Head(k.todo) \in Topic
      BY <2>1, <2>2 DEF Chatting, Sender
    <2>4. events' \in Seq(Event)
      BY <2>1, <2>3, InsertType DEF Via
    <2>5. turns' \subseteq Turn /\ \A t \in turns' \ turns : ~t.done
      BY <2>1, DispatchType
    <2>6. chats' \subseteq Chatting /\ \A j \in chats' : j.done => j.todo # <<>>
      BY <2>1, <2>2
    <2>7. \A j \in turns' : j.done => j.todo # <<>>
      BY <2>5
    <2>8. clock' \in Time /\ publishing' \subseteq Call /\ pm' \subseteq Nat
      BY <2>1
    <2> QED BY <2>4, <2>5, <2>6, <2>7, <2>8
  <1>7. ASSUME NEW k \in chats, ChatLost(k)
        PROVE  BusTypeOK'
    <2>1. k.todo \in Seq(Topic)
      BY ChatKept
    <2>2. k.role \in Sender /\ (k.done => Head(k.todo) \in Topic)
      BY <2>1 DEF Chatting, Sender
    <2>3. events' \in Seq(Event)
      BY <1>7, <2>2, InsertType DEF ChatLost, Via
    <2>4. chats' \subseteq chats /\ UNCHANGED <<clock, publishing, turns, pm>>
      BY <1>7 DEF ChatLost
    <2> QED BY <2>3, <2>4
  <1>8. ASSUME NEW t \in turns, TurnFail(t)
        PROVE  BusTypeOK'
    BY <1>8 DEF TurnFail
  <1>9. ASSUME NEW t \in turns, TurnHandoff(t)
        PROVE  BusTypeOK'
    <2>1. /\ t.done /\ Insert(t.role, Head(t.todo), clock, "headless")
          /\ turns' = Recorded(turns, t)
          /\ UNCHANGED <<clock, publishing, chats, pm>>
      BY <1>9 DEF TurnHandoff
    <2>2. /\ t.todo \in Seq(Topic)
          /\ Recorded(turns, t) \subseteq Turn
          /\ \A j \in Recorded(turns, t) : j.done => j.todo # <<>>
      BY TurnKept
    <2>3. t.role \in Sender /\ Head(t.todo) \in Topic
      BY <2>1, <2>2 DEF Turn, Sender
    <2>4. events' \in Seq(Event)
      BY <2>1, <2>3, InsertType DEF Via
    <2> QED BY <2>1, <2>2, <2>4
  <1>10. ASSUME NEW t \in turns, NEW hs \in Answers(t.role), TurnAnswer(t, hs)
         PROVE  BusTypeOK'
    <2>1. hs \in Seq(Topic)
      BY AnswersType DEF Turn
    <2>2. /\ Answered(turns, t, hs) \subseteq Turn
          /\ \A j \in Answered(turns, t, hs) : j.done => j.todo # <<>>
      BY <2>1, TurnKept
    <2> QED BY <1>10, <2>2 DEF TurnAnswer
  <1>11. ASSUME NEW j \in pm, PmPlan(j) \/ PmFail(j)
         PROVE  BusTypeOK'
    <2>1. events' \in Seq(Event)
      BY <1>11, InsertType DEF PmPlan, PmFail, PlanTopic, Sender, Via
    <2> QED BY <1>11, <2>1 DEF PmPlan, PmFail
  <1>12. ASSUME FeaturePlanned \/ Scaffold
         PROVE  BusTypeOK'
    <2>1. events' \in Seq(Event) /\ NextId \in Nat
      BY <1>12, InsertType DEF FeaturePlanned, Scaffold, Sender, Via
    <2> QED BY <1>12, <2>1 DEF FeaturePlanned, Scaffold
  <1>13. ASSUME Tick
         PROVE  BusTypeOK'
    BY <1>13 DEF Tick, Time
  <1>14. ASSUME Restart \/ RestartAnew
         PROVE  BusTypeOK'
    <2>1. <<>> \in Seq(Event)
      OBVIOUS
    <2>2. CASE Restart
      BY <2>2 DEF Restart
    <2>3. CASE RestartAnew
      BY <2>1, <2>3 DEF RestartAnew
    <2> QED BY <1>14, <2>2, <2>3
  <1>15. CASE UNCHANGED busVars
    BY <1>15 DEF busVars
  <1> QED
    BY <1>1, <1>2, <1>3, <1>4, <1>5, <1>6, <1>7, <1>8, <1>9, <1>10, <1>11,
       <1>12, <1>13, <1>14, <1>15 DEF BusNext, BusStep

\* Type correctness of the bus.
THEOREM BusTypeCorrect == BusSpec => []BusTypeOK
  <1>1. BusInit => BusTypeOK
    BY DEF BusInit, BusTypeOK, Time
  <1> QED BY <1>1, BusTypeStep, PTL DEF BusSpec

-----------------------------------------------------------------------------
(* The bus implements the ledger                                           *)

\* What one step records, for the ledger: the entry itself and its id.
LEMMA InsertRecords ==
  ASSUME events \in Seq(Event),
         NEW f \in Sender, NEW x \in Topic, NEW ms \in Time, NEW v \in Via,
         Insert(f, x, ms, v)
  PROVE  /\ Ledger!Record
         /\ Ledger!Added.from = f /\ Ledger!Added.topic = x /\ Ledger!Added.via = v
         /\ Len(events') = NextId
  <1> DEFINE e == [from |-> f, topic |-> x, at |-> ms, via |-> v]
  <1>1. e \in Event /\ events' = Append(events, e)
    BY DEF Event, Insert
  <1>2. /\ Len(events') = NextId /\ NextId = Len(events) + 1
        /\ events'[NextId] = e
    BY InsertType DEF NextId
  <1> QED BY <1>1, <1>2 DEF Ledger!Record, Ledger!Added

\* A fan-out wakes the audience for the event being recorded, all of it.
LEMMA DispatchWakes ==
  ASSUME NEW f, NEW x, Dispatch(f, x)
  PROVE  Woken' = Woken \cup {<<r, NextId>> : r \in Audience(f, x)}
  <1> DEFINE idle(r) == [role |-> r, cause |-> NextId, todo |-> <<>>, done |-> FALSE]
             fresh == {idle(r) : r \in Audience(f, x)}
  <1>1. turns' = turns \cup fresh
    BY DEF Dispatch
  <1>2. {<<t.role, t.cause>> : t \in fresh} = {<<r, NextId>> : r \in Audience(f, x)}
    <2>1. \A r : idle(r).role = r /\ idle(r).cause = NextId
      OBVIOUS
    <2> QED BY <2>1
  <1> HIDE DEF fresh
  <1> QED BY <1>1, <1>2 DEF Woken

\* Working on a turn wakes nobody.
LEMMA WorkWakesNobody ==
  ASSUME turns \subseteq Turn, NEW t \in turns,
         \/ turns' = Recorded(turns, t)
         \/ \E hs : turns' = Answered(turns, t, hs)
         \/ turns' \subseteq turns
  PROVE  Woken' \subseteq Woken
  <1>1. \A hs : /\ [t EXCEPT !.todo = hs, !.done = TRUE].role = t.role
                /\ [t EXCEPT !.todo = hs, !.done = TRUE].cause = t.cause
    BY DEF Turn
  <1>2. /\ [t EXCEPT !.todo = Tail(@)].role = t.role
        /\ [t EXCEPT !.todo = Tail(@)].cause = t.cause
    BY DEF Turn
  <1>3. ASSUME NEW u \in turns' PROVE \E w \in turns : u.role = w.role /\ u.cause = w.cause
    BY <1>1, <1>2 DEF Recorded, Answered
  <1> QED BY <1>3 DEF Woken

\* An event from outside is announced, with or without its fan-out.
LEMMA OutsideEventAnnounced ==
  ASSUME events \in Seq(Event),
         NEW f \in Sender, NEW x \in Topic, NEW ms \in Time, NEW v \in Outside,
         Insert(f, x, ms, v), Dispatch(f, x) \/ UNCHANGED turns
  PROVE  Ledger!Announce
  <1>1. /\ Ledger!Record
        /\ Ledger!Added.from = f /\ Ledger!Added.topic = x /\ Ledger!Added.via = v
        /\ Len(events') = NextId
    BY InsertRecords DEF Outside, Via
  <1>2. \/ Woken' = Woken \cup {<<r, NextId>> : r \in Audience(f, x)}
        \/ Woken' = Woken
    BY DispatchWakes DEF Woken
  <1> QED BY <1>1, <1>2 DEF Ledger!Announce, LedgerExternal, LedgerAudience

\* The steps of the ledger that keep the log.
LedgerKeeps == Ledger!Announce \/ Ledger!Note \/ Ledger!Settle

\* Unless the daemon starts on an empty database, every step of the bus is a
\* step of the ledger that keeps the log.
LEMMA BusKeepsLog ==
  BusTypeOK /\ [BusStep \/ Restart]_busVars => LedgerKeeps
  <1> SUFFICES ASSUME BusTypeOK, [BusStep \/ Restart]_busVars
               PROVE  LedgerKeeps
    OBVIOUS
  <1> USE DEF BusTypeOK
  <1>a. ASSUME NEW f \in Sender, NEW x \in Topic, NEW ms \in Time, NEW v \in Outside,
               Insert(f, x, ms, v), Dispatch(f, x) \/ UNCHANGED turns
        PROVE  LedgerKeeps
    BY <1>a, OutsideEventAnnounced DEF LedgerKeeps
  <1>b. ASSUME NEW f \in Sender, NEW x \in Topic, NEW ms \in Time, NEW v \in Via \ Outside,
               Insert(f, x, ms, v), Woken' \subseteq Woken
        PROVE  LedgerKeeps
    <2>1. Ledger!Record /\ Ledger!Added.via = v
      BY <1>b, InsertRecords
    <2> QED BY <1>b, <2>1 DEF LedgerKeeps, Ledger!Note, LedgerExternal
  <1>c. ASSUME UNCHANGED events, Woken' \subseteq Woken
        PROVE  LedgerKeeps
    BY <1>c DEF LedgerKeeps, Ledger!Settle
  <1>d. UNCHANGED turns => Woken' \subseteq Woken
    BY DEF Woken
  <1>1. ASSUME NEW c \in Client, NEW p \in Reports, PublishBegin(c, p[1], p[2])
        PROVE  LedgerKeeps
    BY <1>1, <1>c, <1>d DEF PublishBegin
  <1>2. ASSUME NEW p \in publishing, PublishCommit(p) \/ PublishDropped(p)
        PROVE  LedgerKeeps
    <2>1. p.from \in Sender /\ p.topic \in Topic /\ p.at \in Time /\ "rpc" \in Outside
      BY DEF Call, Outside
    <2>2. CASE PublishCommit(p)
      BY <2>1, <2>2, <1>a DEF PublishCommit
    <2>3. CASE PublishDropped(p)
      BY <2>1, <2>3, <1>a, <1>c, <1>d DEF PublishDropped
    <2> QED BY <1>2, <2>2, <2>3
  <1>3. ASSUME NEW c \in Client, NEW r \in ChatRoles, ChatStart(c, r)
        PROVE  LedgerKeeps
    BY <1>3, <1>c, <1>d DEF ChatStart
  <1>4. ASSUME NEW k \in chats, NEW hs \in Answers(k.role), ChatAnswer(k, hs)
        PROVE  LedgerKeeps
    BY <1>4, <1>c, <1>d DEF ChatAnswer
  <1>5. ASSUME NEW k \in chats, ChatHandoff(k) \/ ChatLost(k)
        PROVE  LedgerKeeps
    <2>1. k.todo \in Seq(Topic) /\ k.role \in Sender /\ "chat" \in Outside
      BY ChatKept DEF Chatting, Sender, Outside
    <2>2. k.done => Head(k.todo) \in Topic
      BY <2>1
    <2>3. CASE ChatHandoff(k)
      BY <2>1, <2>2, <2>3, <1>a DEF ChatHandoff
    <2>4. CASE ChatLost(k)
      BY <2>1, <2>2, <2>4, <1>a, <1>c, <1>d DEF ChatLost
    <2> QED BY <1>5, <2>3, <2>4
  <1>6. ASSUME NEW t \in turns, TurnFail(t)
        PROVE  LedgerKeeps
    BY <1>6, <1>c, WorkWakesNobody DEF TurnFail
  <1>7. ASSUME NEW t \in turns, TurnHandoff(t)
        PROVE  LedgerKeeps
    <2>1. t.todo \in Seq(Topic) /\ t.role \in Sender /\ "headless" \in Via \ Outside
      BY TurnKept DEF Turn, Sender, Outside, Via
    <2>2. Head(t.todo) \in Topic
      BY <1>7, <2>1 DEF TurnHandoff
    <2>3. Woken' \subseteq Woken
      BY <1>7, WorkWakesNobody DEF TurnHandoff
    <2> QED BY <1>7, <2>1, <2>2, <2>3, <1>b DEF TurnHandoff
  <1>8. ASSUME NEW t \in turns, NEW hs \in Answers(t.role), TurnAnswer(t, hs)
        PROVE  LedgerKeeps
    BY <1>8, <1>c, WorkWakesNobody DEF TurnAnswer
  <1>9. ASSUME NEW j \in pm, PmPlan(j) \/ PmFail(j)
        PROVE  LedgerKeeps
    <2>1. "pm" \in Sender /\ "pm" \in Via \ Outside
      BY DEF Sender, Via, Outside
    <2> QED BY <1>9, <2>1, <1>b, <1>c, <1>d DEF PmPlan, PmFail, PlanTopic
  <1>10. ASSUME FeaturePlanned \/ Scaffold
         PROVE  LedgerKeeps
    <2>1. "user" \in Sender /\ {"feature", "scaffold"} \subseteq Via \ Outside
      BY DEF Sender, Via, Outside
    <2> QED BY <1>10, <2>1, <1>b, <1>d DEF FeaturePlanned, Scaffold
  <1>11. ASSUME Tick \/ Restart
         PROVE  LedgerKeeps
    <2>1. Woken' \subseteq Woken
      BY <1>11 DEF Tick, Restart, Woken
    <2> QED BY <1>11, <2>1, <1>c DEF Tick, Restart
  <1>12. CASE UNCHANGED busVars
    BY <1>12, <1>c, <1>d DEF busVars
  <1> QED
    BY <1>1, <1>2, <1>3, <1>4, <1>5, <1>6, <1>7, <1>8, <1>9, <1>10, <1>11, <1>12
       DEF BusStep

\* Every step of the bus is a step of the ledger.
LEMMA BusLedgerStep ==
  BusTypeOK /\ [BusNext]_busVars => [Ledger!Next]_(Ledger!ledger)
  <1> SUFFICES ASSUME BusTypeOK, [BusNext]_busVars
               PROVE  Ledger!Next
    OBVIOUS
  <1>1. CASE [BusStep \/ Restart]_busVars
    BY <1>1, BusKeepsLog DEF LedgerKeeps, Ledger!Next
  <1>2. CASE RestartAnew
    BY <1>2 DEF RestartAnew, Woken, Ledger!StartOver, Ledger!Next
  <1> QED BY <1>1, <1>2 DEF BusNext

\* The bus keeps the promise of HandoffLedger: the events are kept whole, or
\* at a start on a new database dropped whole, and never rewritten; only events
\* from outside wake roles, and they wake the whole audience in the step that
\* records them or nobody.
THEOREM BusImplementsLedger == BusSpec => ImplementsLedger
  <1>1. BusInit => Ledger!Init
    BY DEF BusInit, Ledger!Init, Woken
  <1> QED BY <1>1, BusLedgerStep, BusTypeCorrect, PTL DEF BusSpec, ImplementsLedger, Ledger!Spec

-----------------------------------------------------------------------------
(* No storms                                                               *)

\* Any step the ledger allows keeps every running turn tied to an event from
\* outside that its role subscribes to.
LEMMA LedgerStepKeepsDepth ==
  ASSUME events \in Seq(Event), [Ledger!Next]_(Ledger!ledger), DispatchDepthOne
  PROVE  DispatchDepthOne'
  <1> DEFINE Fine(w) == /\ w[2] \in 1..Len(events)
                        /\ events[w[2]].via \in Outside
                        /\ w[1] \in Audience(events[w[2]].from, events[w[2]].topic)
  <1>1. \A w \in Woken : Fine(w)
    BY DEF DispatchDepthOne, Woken
  <1>2. ASSUME \A w \in Woken' : Fine(w)'
        PROVE  DispatchDepthOne'
    <2>1. \A t \in turns' : <<t.role, t.cause>> \in Woken'
      BY DEF Woken
    <2>2. ASSUME NEW t \in turns'
          PROVE  /\ t.cause \in 1..Len(events')
                 /\ events'[t.cause].via \in Outside
                 /\ t.role \in Audience(events'[t.cause].from, events'[t.cause].topic)
      <3> DEFINE w == <<t.role, t.cause>>
      <3>1. w \in Woken' /\ w[1] = t.role /\ w[2] = t.cause
        BY <2>1
      <3> HIDE DEF w
      <3> QED BY <1>2, <3>1 DEF Audience
    <2> QED BY <2>2 DEF DispatchDepthOne
  <1>0. CASE Ledger!StartOver
    <2>1. Woken' = {}
      BY <1>0 DEF Ledger!StartOver
    <2> QED BY <1>2, <2>1
  <1>3. ASSUME ~Ledger!StartOver
        PROVE  /\ Len(events') \in Nat /\ Len(events) <= Len(events')
               /\ \A i \in 1..Len(events) : events'[i] = events[i]
    <2>1. CASE Ledger!Record
      BY <2>1 DEF Ledger!Record, Ledger!Added
    <2>2. CASE UNCHANGED events
      BY <2>2
    <2> QED BY <1>3, <2>1, <2>2 DEF Ledger!Next, Ledger!Announce, Ledger!Note, Ledger!Settle, Ledger!ledger
  <1>4. ~Ledger!StartOver => \A w \in Woken : Fine(w)'
    BY <1>1, <1>3
  <1>5. CASE Ledger!Announce /\ ~Ledger!StartOver
    <2>1. ASSUME NEW w \in Woken', w \notin Woken
          PROVE  Fine(w)'
      <3>1. /\ Len(events') = Len(events) + 1
            /\ events'[Len(events')].via \in Outside
            /\ w \in {<<r, Len(events')>> : r \in
                  Audience(events'[Len(events')].from, events'[Len(events')].topic)}
        BY <1>5, <2>1 DEF Ledger!Announce, Ledger!Record, Ledger!Added,
                          LedgerExternal, LedgerAudience
      <3>2. w[2] = Len(events') /\ Len(events') \in 1..Len(events')
            /\ w[1] \in Audience(events'[Len(events')].from, events'[Len(events')].topic)
        BY <3>1
      <3>3. \A f, x : Audience(f, x)' = Audience(f, x)
        BY DEF Audience
      <3> QED BY <3>1, <3>2, <3>3
    <2> QED BY <1>2, <1>4, <1>5, <2>1
  <1>6. CASE Woken' \subseteq Woken /\ ~Ledger!StartOver
    BY <1>2, <1>4, <1>6
  <1> QED BY <1>0, <1>5, <1>6 DEF Ledger!Next, Ledger!Note, Ledger!Settle, Ledger!ledger

\* No storms: a headless turn only runs because of an event from outside.
THEOREM NoStorms == BusSpec => []DispatchDepthOne
  <1>1. BusInit => DispatchDepthOne
    BY DEF BusInit, DispatchDepthOne
  <1>2. BusTypeOK /\ [BusNext]_busVars /\ DispatchDepthOne => DispatchDepthOne'
    BY BusLedgerStep, LedgerStepKeepsDepth DEF BusTypeOK
  <1> QED BY <1>1, <1>2, BusTypeCorrect, PTL DEF BusSpec

-----------------------------------------------------------------------------
(* The PM does not feed itself                                             *)

PlanIds(table) == {i \in 1..Len(table) : table[i].via = "pm"}

IsCause(e) == e.via = "scaffold" \/ (e.via = "rpc" /\ e.topic \in Blocker)
CauseIds(table) == {i \in 1..Len(table) : IsCause(table[i])}

\* PlansAnswerBlockers, and what lets it be counted step by step.
PmInv ==
  /\ IsFiniteSet(pm) /\ pm \subseteq 1..Len(events)
  /\ Cardinality(PlanIds(events)) + Cardinality(pm) <= Cardinality(CauseIds(events))

\* What a step may do to the table and the PM's calls: empty both; let calls
\* end, with an event or without; start one with a cause; end one with a plan.
PmStep ==
  \/ events' = <<>> /\ pm' = {}
  \/ events' = events /\ pm' \subseteq pm
  \/ \E e \in Event :
       /\ events' = Append(events, e)
       /\ \/ e.via # "pm" /\ pm' \subseteq pm
          \/ IsCause(e) /\ pm' \subseteq pm \cup {NextId}
          \/ e.via = "pm" /\ \E j \in pm : pm' = pm \ {j}

\* The events of either kind are finitely many.
LEMMA IdsFinite ==
  ASSUME NEW table \in Seq(Event)
  PROVE  /\ IsFiniteSet(PlanIds(table)) /\ IsFiniteSet(CauseIds(table))
         /\ Cardinality(PlanIds(table)) \in Nat /\ Cardinality(CauseIds(table)) \in Nat
  <1>1. Len(table) \in Nat
    OBVIOUS
  <1>2. IsFiniteSet(1..Len(table))
    BY <1>1, FS_Interval
  <1>3. PlanIds(table) \subseteq 1..Len(table) /\ CauseIds(table) \subseteq 1..Len(table)
    BY DEF PlanIds, CauseIds
  <1>4. IsFiniteSet(PlanIds(table)) /\ IsFiniteSet(CauseIds(table))
    BY <1>2, <1>3, FS_Subset
  <1> QED BY <1>4, FS_CardinalityType

\* One more event is one more plan, or one more cause, or neither.
LEMMA IdsAppended ==
  ASSUME NEW table \in Seq(Event), NEW e \in Event
  PROVE  /\ Cardinality(PlanIds(Append(table, e))) =
              Cardinality(PlanIds(table)) + (IF e.via = "pm" THEN 1 ELSE 0)
         /\ Cardinality(CauseIds(Append(table, e))) =
              Cardinality(CauseIds(table)) + (IF IsCause(e) THEN 1 ELSE 0)
  <1> DEFINE longer == Append(table, e)
             n == Len(table) + 1
  <1>1. /\ Len(table) \in Nat /\ Len(longer) = n
        /\ longer[n] = e
        /\ \A i \in 1..Len(table) : longer[i] = table[i]
    OBVIOUS
  <1>2. 1..n = (1..Len(table)) \cup {n} /\ n \notin 1..Len(table)
    BY <1>1
  <1> HIDE DEF longer, n
  <1>3. PlanIds(longer) =
          IF e.via = "pm" THEN PlanIds(table) \cup {n} ELSE PlanIds(table)
    BY <1>1, <1>2 DEF PlanIds
  <1>4. CauseIds(longer) =
          IF IsCause(e) THEN CauseIds(table) \cup {n} ELSE CauseIds(table)
    <2>1. \A i \in 1..Len(table) : IsCause(longer[i]) <=> IsCause(table[i])
      BY <1>1
    <2>2. IsCause(longer[n]) <=> IsCause(e)
      BY <1>1
    <2> HIDE DEF IsCause
    <2> QED BY <1>1, <1>2, <2>1, <2>2 DEF CauseIds
  <1>5. n \notin PlanIds(table) /\ n \notin CauseIds(table)
    BY <1>2 DEF PlanIds, CauseIds
  <1>6. /\ Cardinality(PlanIds(table) \cup {n}) = Cardinality(PlanIds(table)) + 1
        /\ Cardinality(CauseIds(table) \cup {n}) = Cardinality(CauseIds(table)) + 1
    BY <1>5, IdsFinite, FS_AddElement
  <1>7. Cardinality(PlanIds(table)) \in Nat /\ Cardinality(CauseIds(table)) \in Nat
    BY IdsFinite
  <1> QED BY <1>3, <1>4, <1>6, <1>7 DEF longer

\* Every step is one of the four.
LEMMA EveryStepPmStep == BusTypeOK /\ [BusNext]_busVars => PmStep
  <1> SUFFICES ASSUME BusTypeOK, [BusNext]_busVars
               PROVE  PmStep
    OBVIOUS
  <1> USE DEF BusTypeOK
  <1>1. ASSUME NEW f \in Sender, NEW x \in Topic, NEW ms \in Time, NEW v \in Via,
               Insert(f, x, ms, v)
        PROVE  \E e \in Event : /\ e.via = v /\ e.topic = x
                                /\ events' = Append(events, e)
    <2> DEFINE e == [from |-> f, topic |-> x, at |-> ms, via |-> v]
    <2>1. e \in Event /\ events' = Append(events, e) /\ e.via = v /\ e.topic = x
      BY <1>1 DEF Insert, Event
    <2> QED BY <2>1
  <1>2. ASSUME NEW p \in publishing, PublishCommit(p)
        PROVE  PmStep
    <2>1. p.from \in Sender /\ p.topic \in Topic /\ p.at \in Time
      BY DEF Call
    <2>2. PICK e \in Event : /\ e.via = "rpc" /\ e.topic = p.topic
                             /\ events' = Append(events, e)
      BY <1>1, <1>2, <2>1 DEF PublishCommit, Via
    <2>3. CASE p.topic \in Blocker
      BY <1>2, <2>2, <2>3 DEF PublishCommit, PmStep, IsCause
    <2>4. CASE p.topic \notin Blocker
      BY <1>2, <2>2, <2>4 DEF PublishCommit, PmStep
    <2> QED BY <2>3, <2>4
  <1>3. ASSUME NEW p \in publishing, PublishDropped(p)
        PROVE  PmStep
    <2>1. p.from \in Sender /\ p.topic \in Topic /\ p.at \in Time
      BY DEF Call
    <2>2. pm' = pm /\ (events' = events \/ Insert(p.from, p.topic, p.at, "rpc"))
      BY <1>3 DEF PublishDropped
    <2>3. CASE events' = events
      BY <2>2, <2>3 DEF PmStep
    <2>4. CASE Insert(p.from, p.topic, p.at, "rpc")
      <3>1. \E e \in Event : e.via = "rpc" /\ events' = Append(events, e)
        BY <1>1, <2>1, <2>4 DEF Via
      <3> QED BY <2>2, <3>1 DEF PmStep
    <2> QED BY <2>2, <2>3, <2>4
  <1>4. ASSUME NEW k \in chats, ChatHandoff(k) \/ ChatLost(k)
        PROVE  PmStep
    <2>1. /\ pm' = pm
          /\ events' = events \/ (k.done /\ Insert(k.role, Head(k.todo), clock, "chat"))
      BY <1>4 DEF ChatHandoff, ChatLost
    <2>2. CASE events' = events
      BY <2>1, <2>2 DEF PmStep
    <2>3. CASE k.done /\ Insert(k.role, Head(k.todo), clock, "chat")
      <3>1. k.todo \in Seq(Topic) /\ k.todo # <<>> /\ k.role \in Sender
        BY <2>3 DEF Chatting, Sender
      <3>2. Head(k.todo) \in Topic
        BY <3>1
      <3>3. \E e \in Event : e.via = "chat" /\ events' = Append(events, e)
        BY <1>1, <2>3, <3>1, <3>2 DEF Via
      <3> QED BY <2>1, <3>3 DEF PmStep
    <2> QED BY <2>1, <2>2, <2>3
  <1>5. ASSUME NEW t \in turns, TurnHandoff(t)
        PROVE  PmStep
    <2>1. t.todo \in Seq(Topic) /\ t.todo # <<>> /\ t.role \in Sender
      BY <1>5 DEF TurnHandoff, Turn, Sender
    <2>2. Head(t.todo) \in Topic
      BY <2>1
    <2>3. \E e \in Event : e.via = "headless" /\ events' = Append(events, e)
      BY <1>1, <1>5, <2>1, <2>2 DEF TurnHandoff, Via
    <2> QED BY <1>5, <2>3 DEF TurnHandoff, PmStep
  <1>6. ASSUME NEW j \in pm, PmPlan(j)
        PROVE  PmStep
    <2>1. PlanTopic(j) \in Topic /\ "pm" \in Sender
      BY DEF PlanTopic, BusAssumption, Sender
    <2>2. \E e \in Event : e.via = "pm" /\ events' = Append(events, e)
      BY <1>1, <1>6, <2>1 DEF PmPlan, Via
    <2> QED BY <1>6, <2>2 DEF PmPlan, PmStep
  <1>7. CASE FeaturePlanned
    <2>1. FeatureRequested \in Topic /\ "user" \in Sender
      BY DEF BusAssumption, Sender
    <2>2. \E e \in Event : e.via = "feature" /\ events' = Append(events, e)
      BY <1>1, <1>7, <2>1 DEF FeaturePlanned, Via
    <2> QED BY <1>7, <2>2 DEF FeaturePlanned, PmStep
  <1>8. CASE Scaffold
    <2>1. FeatureRequested \in Topic /\ "user" \in Sender
      BY DEF BusAssumption, Sender
    <2>2. \E e \in Event : e.via = "scaffold" /\ events' = Append(events, e)
      BY <1>1, <1>8, <2>1 DEF Scaffold, Via
    <2> QED BY <1>8, <2>2 DEF Scaffold, PmStep, IsCause
  <1>9. ASSUME events' = events, pm' \subseteq pm
        PROVE  PmStep
    BY <1>9 DEF PmStep
  <1>10. ASSUME NEW c \in Client, NEW p \in Reports, PublishBegin(c, p[1], p[2])
         PROVE  PmStep
    BY <1>9, <1>10 DEF PublishBegin
  <1>11. ASSUME NEW c \in Client, NEW r \in ChatRoles, ChatStart(c, r)
         PROVE  PmStep
    BY <1>9, <1>11 DEF ChatStart
  <1>12. ASSUME NEW k \in chats, NEW hs \in Answers(k.role), ChatAnswer(k, hs)
         PROVE  PmStep
    BY <1>9, <1>12 DEF ChatAnswer
  <1>13. ASSUME NEW t \in turns, TurnFail(t) \/ \E hs \in Answers(t.role) : TurnAnswer(t, hs)
         PROVE  PmStep
    BY <1>9, <1>13 DEF TurnFail, TurnAnswer
  <1>14. ASSUME NEW j \in pm, PmFail(j)
         PROVE  PmStep
    BY <1>9, <1>14 DEF PmFail
  <1>15. CASE Tick \/ Restart \/ UNCHANGED busVars
    BY <1>9, <1>15 DEF Tick, Restart, busVars
  <1>16. CASE RestartAnew
    BY <1>16 DEF RestartAnew, PmStep
  <1> QED BY <1>2, <1>3, <1>4, <1>5, <1>6, <1>7, <1>8, <1>10, <1>11, <1>12, <1>13,
             <1>14, <1>15, <1>16 DEF BusNext, BusStep

\* An empty table has no plan and no cause.
LEMMA EmptyCounts ==
  /\ IsFiniteSet({})
  /\ Cardinality(PlanIds(<<>>)) + Cardinality({}) <= Cardinality(CauseIds(<<>>))
  <1>1. PlanIds(<<>>) = {} /\ CauseIds(<<>>) = {}
    BY DEF PlanIds, CauseIds
  <1>2. IsFiniteSet({}) /\ Cardinality({}) = 0
    BY FS_EmptySet
  <1>3. 0 + 0 <= 0
    OBVIOUS
  <1> QED BY <1>1, <1>2, <1>3

\* Each of the four keeps the count.
LEMMA PmStepKeepsCount == BusTypeOK /\ PmInv /\ PmStep => PmInv'
  <1> SUFFICES ASSUME BusTypeOK, PmInv, PmStep
               PROVE  PmInv'
    OBVIOUS
  <1>1. events \in Seq(Event) /\ Len(events) \in Nat
    BY DEF BusTypeOK
  <1>2. /\ IsFiniteSet(pm) /\ Cardinality(pm) \in Nat /\ pm \subseteq 1..Len(events)
        /\ Cardinality(PlanIds(events)) + Cardinality(pm) <= Cardinality(CauseIds(events))
    BY FS_CardinalityType DEF PmInv
  <1>3. Cardinality(PlanIds(events)) \in Nat /\ Cardinality(CauseIds(events)) \in Nat
    BY <1>1, IdsFinite
  <1>4. ASSUME pm' \subseteq pm
        PROVE  IsFiniteSet(pm') /\ Cardinality(pm') \in Nat /\ Cardinality(pm') <= Cardinality(pm)
    <2>1. IsFiniteSet(pm') /\ Cardinality(pm') <= Cardinality(pm)
      BY <1>2, <1>4, FS_Subset
    <2> QED BY <2>1, FS_CardinalityType
  <1>5. CASE events' = events /\ pm' \subseteq pm
    BY <1>2, <1>3, <1>4, <1>5 DEF PmInv
  <1>6. ASSUME NEW e \in Event, events' = Append(events, e),
               \/ e.via # "pm" /\ pm' \subseteq pm
               \/ IsCause(e) /\ pm' \subseteq pm \cup {NextId}
               \/ e.via = "pm" /\ \E j \in pm : pm' = pm \ {j}
        PROVE  PmInv'
    <2>1. /\ Cardinality(PlanIds(events')) =
               Cardinality(PlanIds(events)) + (IF e.via = "pm" THEN 1 ELSE 0)
          /\ Cardinality(CauseIds(events')) =
               Cardinality(CauseIds(events)) + (IF IsCause(e) THEN 1 ELSE 0)
      BY <1>1, <1>6, IdsAppended
    <2>2. NextId = Len(events) + 1 /\ Len(events') = NextId
      BY <1>1, <1>6 DEF NextId
    <2>3. CASE e.via # "pm" /\ pm' \subseteq pm
      <3>1. pm' \subseteq 1..Len(events')
        BY <1>1, <1>2, <2>2, <2>3
      <3> QED BY <1>2, <1>3, <1>4, <2>1, <2>3, <3>1 DEF PmInv
    <2>4. CASE IsCause(e) /\ pm' \subseteq pm \cup {NextId}
      <3>1. pm' \subseteq 1..Len(events')
        BY <1>1, <1>2, <2>2, <2>4
      <3>2. /\ IsFiniteSet(pm \cup {NextId})
            /\ Cardinality(pm \cup {NextId}) <= Cardinality(pm) + 1
        <4>1. /\ IsFiniteSet(pm \cup {NextId})
              /\ Cardinality(pm \cup {NextId}) =
                   IF NextId \in pm THEN Cardinality(pm) ELSE Cardinality(pm) + 1
          <5> DEFINE n == NextId
          <5> HIDE DEF n
          <5>1. /\ IsFiniteSet(pm \cup {n})
                /\ Cardinality(pm \cup {n}) =
                     IF n \in pm THEN Cardinality(pm) ELSE Cardinality(pm) + 1
            BY <1>2, FS_AddElement
          <5> QED BY <5>1 DEF n
        <4> QED BY <1>2, <4>1
      <3>3. IsFiniteSet(pm') /\ Cardinality(pm') <= Cardinality(pm \cup {NextId})
        BY <2>4, <3>2, FS_Subset
      <3>4. Cardinality(pm') \in Nat /\ Cardinality(pm \cup {NextId}) \in Nat
        BY <3>2, <3>3, FS_CardinalityType
      <3>5. e.via # "pm"
        BY <2>4 DEF IsCause
      <3> QED BY <1>2, <1>3, <2>1, <2>4, <3>1, <3>2, <3>3, <3>4, <3>5 DEF PmInv
    <2>5. CASE e.via = "pm" /\ \E j \in pm : pm' = pm \ {j}
      <3>1. PICK j \in pm : pm' = pm \ {j}
        BY <2>5
      <3>2. IsFiniteSet(pm') /\ Cardinality(pm') = Cardinality(pm) - 1
        BY <1>2, <3>1, FS_RemoveElement
      <3>3. pm' \subseteq 1..Len(events')
        BY <1>1, <1>2, <2>2, <3>1
      <3>4. ~IsCause(e)
        BY <2>5 DEF IsCause
      <3> QED BY <1>2, <1>3, <2>1, <2>5, <3>2, <3>3, <3>4 DEF PmInv
    <2> QED BY <1>6, <2>3, <2>4, <2>5
  <1>7. CASE events' = <<>> /\ pm' = {}
    BY <1>7, EmptyCounts DEF PmInv
  <1> QED BY <1>5, <1>6, <1>7 DEF PmStep

\* The PM answers blockers and scaffolds and never itself: its plans and the
\* calls it is running are no more than the causes published so far.
THEOREM PmNeverFeedsItself == BusSpec => []PlansAnswerBlockers
  <1>1. BusInit => PmInv
    BY EmptyCounts DEF BusInit, PmInv
  <1>2. BusTypeOK /\ PmInv /\ [BusNext]_busVars => PmInv'
    BY EveryStepPmStep, PmStepKeepsCount
  <1>3. PmInv => PlansAnswerBlockers
    BY DEF PmInv, PlansAnswerBlockers, Count, PlanIds, CauseIds, IsCause
  <1> QED BY <1>1, <1>2, <1>3, BusTypeCorrect, PTL DEF BusSpec

-----------------------------------------------------------------------------
(* The watcher: lemmas about its operators                                 *)

\* A nonempty set of naturals no larger than n has a greatest member.
LEMMA GreatestMember ==
  ASSUME NEW n \in Nat, NEW B, B \subseteq 0..n, B # {}
  PROVE  \E m \in B : \A k \in B : k <= m
  <1> DEFINE C == {n - k : k \in B}
  <1>1. C \subseteq Nat /\ C # {}
    <2>1. \A k \in B : n - k \in Nat /\ n - k \in C
      OBVIOUS
    <2> QED BY <2>1
  <1> DEFINE Less == {p \in Nat \X Nat : p[1] < p[2]}
  <1>a. IsWellFoundedOn(Less, Nat)
    BY NatLessThanWellFounded, Zenon DEF OpToRel
  <1>2. PICK c \in C : \A d \in C : ~(<<d, c>> \in Less)
    <2> HIDE DEF C, Less
    <2> QED BY <1>1, <1>a, WFMin
  <1>3. \A d \in C : c <= d
    <2> HIDE DEF C
    <2> SUFFICES ASSUME NEW d \in C
                 PROVE  c <= d
      OBVIOUS
    <2>1. c \in Nat /\ d \in Nat
      BY <1>1
    <2>2. d < c => <<d, c>> \in Less
      BY <2>1
    <2>3. ~(<<d, c>> \in Less)
      BY <1>2, Zenon
    <2>4. ~(d < c)
      BY <2>2, <2>3
    <2> QED BY <2>1, <2>4
  <1>4. PICK m \in B : c = n - m
    OBVIOUS
  <1>5. ASSUME NEW k \in B
        PROVE  k <= m
    <2>1. n - k \in C
      OBVIOUS
    <2> QED BY <1>3, <1>4, <2>1
  <1> QED BY <1>5

\* The latest blocker's time bounds that of every blocker in the window.
LEMMA LatestBlockerIsLatest ==
  ASSUME events \in Seq(Event)
  PROVE  /\ LatestBlocker \in Time
         /\ \A j \in Window : Reopens(events[j].topic) => events[j].at <= LatestBlocker
  <1> DEFINE B == {events[i].at : i \in {j \in Window : Reopens(events[j].topic)}}
  <1>1. \A i \in Window : events[i] \in Event
    BY DEF Window
  <1>2. B \subseteq 0..MaxClock
    BY <1>1 DEF Event, Time
  <1>3. LatestBlocker = IF B = {} THEN 0 ELSE CHOOSE m \in B : \A k \in B : k <= m
    BY DEF LatestBlocker
  <1>4. B # {} => \E m \in B : \A k \in B : k <= m
    <2>1. MaxClock \in Nat
      BY BusAssumption
    <2> HIDE DEF B
    <2> QED BY <1>2, <2>1, GreatestMember
  <1>5. LatestBlocker \in Time /\ \A k \in B : k <= LatestBlocker
    <2>1. 0 \in Time
      BY BusAssumption DEF Time
    <2> HIDE DEF B
    <2> QED BY <1>2, <1>3, <1>4, <2>1 DEF Time
  <1> QED BY <1>5


\* A tail is made of printed lines.
LEMMA LastLinesType ==
  ASSUME NEW s \in Seq(Line)
  PROVE  LastLines(s) \in Seq(Line)
  <1> DEFINE lo == IF Len(s) > TailLines THEN Len(s) - TailLines + 1 ELSE 1
  <1>1. lo \in Int /\ lo >= 1 /\ Len(s) \in Nat
    BY WatcherAssumption
  <1>2. LastLines(s) = SubSeq(s, lo, Len(s))
    BY DEF LastLines
  <1> HIDE DEF lo
  <1> QED BY <1>1, <1>2

\* Decoding keeps the lines that name a claimed topic as they are.
LEMMA DecodedClaims ==
  ASSUME NEW s \in Seq(Line)
  PROVE  MarkerTopics(Decoded(s)) \subseteq Topic /\ AnnouncedTopics(Decoded(s)) \subseteq Topic
  <1>1. Len(Decoded(s)) = Len(s)
    BY DEF Decoded
  <1>2. ASSUME NEW i \in 1..Len(s), Decoded(s)[i].kind \in {"marker", "announce", "mention"}
        PROVE  Decoded(s)[i].topic \in Topic
    <2>1. s[i] \in Line
      OBVIOUS
    <2>2. CASE s[i].kind = "bullet"
      <3>1. Decoded(s)[i] = [s[i] EXCEPT !.kind = "other"]
        BY <2>2 DEF Decoded
      <3>2. Decoded(s)[i].kind = "other"
        BY <2>1, <3>1, WatcherAssumption
      <3> QED BY <1>2, <3>2
    <2>3. CASE s[i].kind # "bullet"
      <3>1. Decoded(s)[i] = s[i]
        BY <2>3 DEF Decoded
      <3> QED BY <1>2, <2>1, <3>1, WatcherAssumption
    <2> QED BY <2>2, <2>3
  <1> QED BY <1>1, <1>2 DEF MarkerTopics, AnnouncedTopics, Named

\* Whatever the tail says, only topics are published, and none the role has
\* published since the latest blocker.
LEMMA UnpublishedType ==
  ASSUME term \in Term, tail \in Seq(Line)
  PROVE  Unpublished \subseteq Topic /\ Unpublished \cap MineTopics(RoleOf[term]) = {}
  <1> DEFINE r == RoleOf[term]
             s == Decoded(tail)
  <1>1. r \in Role /\ Publishes[r] \subseteq Topic
    BY BusAssumption, WatcherAssumption
  <1>2. MarkerTopics(s) \subseteq Topic /\ AnnouncedTopics(s) \subseteq Topic
    BY DecodedClaims
  <1>3. Unpublished \subseteq CandidatePool(s, r, FilesChanged) \ MineTopics(r)
    BY DEF Unpublished, Consistent
  <1> HIDE DEF r, s
  <1>4. CandidatePool(s, r, FilesChanged) \subseteq Topic
    BY <1>1, <1>2 DEF CandidatePool, ExplicitPool, Declared, BareTopics
  <1> QED BY <1>3, <1>4 DEF r

-----------------------------------------------------------------------------
(* The watcher: every action keeps the types                               *)

\* The watcher's own event is one the bus could have recorded.
LEMMA PublishType ==
  ASSUME TypeOK, NEW x \in Topic, Publish(x)
  PROVE  /\ BusTypeOK'
         /\ NextId \in Nat
         /\ Len(events') = NextId
         /\ \A i \in 1..Len(events) : events'[i] = events[i]
         /\ events'[NextId] =
              [from |-> RoleOf[term], topic |-> x, at |-> now, via |-> "watcher"]
  <1>1. /\ events \in Seq(Event) /\ turns \subseteq Turn /\ now \in Time
        /\ RoleOf[term] \in Sender /\ "watcher" \in Via
    BY WatcherAssumption DEF TypeOK, BusTypeOK, Publish, Sender, Via
  <1>2. Insert(RoleOf[term], x, now, "watcher") /\ Dispatch(RoleOf[term], x)
        /\ UNCHANGED <<clock, publishing, chats, pm>>
    BY DEF Publish
  <1>3. /\ events' \in Seq(Event) /\ NextId \in Nat /\ Len(events') = NextId
        /\ \A i \in 1..Len(events) : events'[i] = events[i]
        /\ events'[NextId] =
             [from |-> RoleOf[term], topic |-> x, at |-> now, via |-> "watcher"]
    BY <1>1, <1>2, InsertType
  <1>4. turns' \subseteq Turn /\ \A t \in turns' : t \in turns \/ ~t.done
    BY <1>1, <1>2, DispatchType
  <1>5. BusTypeOK'
    BY <1>2, <1>3, <1>4 DEF TypeOK, BusTypeOK
  <1> QED BY <1>3, <1>5

\* Leaving a terminal leaves the scan's variables empty.
LEMMA EndScanType ==
  ASSUME EndScan
  PROVE  /\ stage' \in {"sleep", "pick"}
         /\ term' = NoTerm /\ seen' \in Time /\ tail' \in Seq(Line) /\ fire' \subseteq Topic
  <1>1. 0 \in Time
    BY BusAssumption DEF Time
  <1> QED BY <1>1 DEF EndScan

\* Every step of the watcher and the bus keeps the types.
LEMMA WatchTypeStep == TypeOK /\ [Next]_vars => TypeOK'
  <1> SUFFICES ASSUME TypeOK, [Next]_vars
               PROVE  TypeOK'
    OBVIOUS
  <1> USE DEF TypeOK
  <1>0. 0 \in Time /\ clock \in Time
    BY BusAssumption DEF Time, BusTypeOK
  <1>1. ASSUME BusStep, UNCHANGED <<termVars, watchVars>>
        PROVE  TypeOK'
    <2>1. BusTypeOK'
      BY <1>1, BusTypeStep DEF BusNext
    <2> QED BY <1>1, <2>1 DEF termVars, watchVars, scanVars
  <1>u. ASSUME UNCHANGED busVars
        PROVE  BusTypeOK'
    BY <1>u, BusTypeStep
  <1>2. ASSUME NEW t \in Term, NEW l \in Line, Emit(t, l)
        PROVE  TypeOK'
    BY <1>2, <1>0, <1>u DEF Emit, watchVars, scanVars
  <1>3. ASSUME NEW t \in Term, CloseTerminal(t)
        PROVE  TypeOK'
    BY <1>3, <1>u DEF CloseTerminal, watchVars, scanVars
  <1>4. ASSUME WriteFile \/ Commit
        PROVE  TypeOK'
    BY <1>4, <1>0, <1>u DEF WriteFile, Commit, watchVars, scanVars
  <1>5. ASSUME Wake
        PROVE  TypeOK'
    BY <1>5, <1>0, <1>u DEF Wake, termVars, scanVars, Stages
  <1>6. ASSUME NEW t \in Term, ReadIdle(t)
        PROVE  TypeOK'
    BY <1>6, <1>u DEF ReadIdle, termVars, Stages
  <1>7. ASSUME ReadTail
        PROVE  TypeOK'
    <2>1. LastLines(log[term]) \in Seq(Line) /\ UNCHANGED <<fired, now, queue, auto>>
          /\ UNCHANGED <<busVars, termVars>>
      BY <1>7, LastLinesType DEF ReadTail
    <2>2. CASE EndScan
      BY <1>u, <2>1, <2>2, EndScanType DEF termVars, Stages
    <2>3. CASE stage' = "decide" /\ tail' = LastLines(log[term]) /\ UNCHANGED <<term, seen, fire>>
      BY <1>7, <1>u, <2>1, <2>3 DEF ReadTail, termVars, Stages
    <2> QED BY <1>7, <2>2, <2>3 DEF ReadTail
  <1>p. ASSUME Panic
        PROVE  TypeOK'
    BY <1>p, <1>0, <1>u DEF Panic, termVars, Stages
  <1>8. ASSUME Decide
        PROVE  TypeOK'
    <2> DEFINE F == IF Stale THEN {} ELSE {x \in Unpublished : ~Recent(term, x)}
    <2>1. /\ F \subseteq Topic /\ UNCHANGED <<now, queue, auto>> /\ UNCHANGED <<busVars, termVars>>
          /\ term \in Term
          /\ fired' = [fired EXCEPT ![term] = [x \in Topic |-> IF x \in F THEN now ELSE @[x]]]
          /\ EndScan \/ (stage' = "publish" /\ fire' = F /\ UNCHANGED <<term, seen, tail>>)
      BY <1>8, UnpublishedType DEF Decide
    <2> HIDE DEF F
    <2>2. [x \in Topic |-> IF x \in F THEN now ELSE fired[term][x]] \in [Topic -> Time]
      BY <2>1
    <2>3. fired' \in [Term -> [Topic -> Time]]
      BY <2>1, <2>2
    <2>4. CASE EndScan
      BY <1>u, <2>1, <2>3, <2>4, EndScanType DEF termVars, Stages
    <2>5. CASE stage' = "publish" /\ fire' = F /\ UNCHANGED <<term, seen, tail>>
      BY <1>u, <2>1, <2>3, <2>5 DEF termVars, Stages
    <2> QED BY <2>1, <2>4, <2>5
  <1>9. ASSUME NEW x \in Topic, Publish(x)
        PROVE  TypeOK'
    <2>1. BusTypeOK' /\ NextId \in Nat
      BY <1>9, PublishType
    <2>2. /\ UNCHANGED <<fired, now, queue>> /\ UNCHANGED termVars
          /\ term \in Term /\ auto' = auto \cup {[id |-> NextId, term |-> term, seen |-> seen]}
          /\ EndScan \/ (fire' \subseteq fire /\ UNCHANGED <<stage, term, seen, tail>>)
      BY <1>9 DEF Publish
    <2>3. auto' \subseteq [id : Nat, term : Term, seen : Time]
      BY <2>1, <2>2
    <2>4. CASE EndScan
      BY <2>1, <2>2, <2>3, <2>4, EndScanType DEF termVars, Stages
    <2>5. CASE fire' \subseteq fire /\ UNCHANGED <<stage, term, seen, tail>>
      BY <2>1, <2>2, <2>3, <2>5 DEF termVars, Stages
    <2> QED BY <2>2, <2>4, <2>5
  <1>10. ASSUME DaemonRestart
         PROVE  TypeOK'
    <2>1. BusTypeOK'
      BY <1>10, BusTypeStep DEF DaemonRestart, BusNext
    <2> QED BY <1>10, <1>0, <2>1 DEF DaemonRestart, WatcherStarts, termVars, Never, Stages
  <1>12. ASSUME DaemonRestartAnew
         PROVE  TypeOK'
    <2>1. BusTypeOK'
      BY <1>12, BusTypeStep DEF DaemonRestartAnew, BusNext
    <2> QED BY <1>12, <1>0, <2>1 DEF DaemonRestartAnew, WatcherStarts, Never, Stages
  <1>11. CASE UNCHANGED vars
    BY <1>11, <1>u DEF vars, termVars, watchVars, scanVars
  <1> QED
    BY <1>1, <1>2, <1>3, <1>4, <1>5, <1>6, <1>7, <1>p, <1>8, <1>9, <1>10, <1>11, <1>12
       DEF Next

\* The watcher and the bus keep their variables in their types.
THEOREM WatcherTypeCorrect == Spec => []TypeOK
  <1>1. Init => TypeOK
    BY BusAssumption DEF Init, TypeOK, BusInit, BusTypeOK, Never, Time, Stages
  <1> QED BY <1>1, WatchTypeStep, PTL DEF Spec

-----------------------------------------------------------------------------
(* One announcement per output                                             *)

\* The watcher writes to the bus only when it publishes.
LEMMA StepIsBusOrPublish ==
  [Next]_vars => \/ [BusStep \/ Restart]_busVars
                 \/ \E x \in Topic : Publish(x)
                 \/ DaemonRestartAnew /\ RestartAnew
  BY DEF Next, vars, Emit, CloseTerminal, WriteFile, Commit, Wake, ReadIdle, ReadTail,
         Panic, Decide, DaemonRestart, DaemonRestartAnew

\* Only the watcher's own steps touch what it remembers; all others at most
\* add events, except the restart on an empty database.
LEMMA EventsKept ==
  ASSUME TypeOK, [Next]_vars, ~DaemonRestartAnew
  PROVE  /\ Len(events') \in Nat /\ Len(events) \in Nat /\ Len(events) <= Len(events')
         /\ \A i \in 1..Len(events) : events'[i] = events[i]
  <1>1. CASE [BusStep \/ Restart]_busVars
    <2>1. LedgerKeeps
      BY <1>1, BusKeepsLog DEF TypeOK
    <2>2. events' = events \/ Ledger!Record
      BY <2>1 DEF LedgerKeeps, Ledger!Announce, Ledger!Note, Ledger!Settle
    <2>3. events \in Seq(Event)
      BY DEF TypeOK, BusTypeOK
    <2> QED BY <2>2, <2>3 DEF Ledger!Record, Ledger!Added
  <1>2. ASSUME NEW x \in Topic, Publish(x)
        PROVE  Len(events') = Len(events) + 1 /\ Len(events) \in Nat
               /\ \A i \in 1..Len(events) : events'[i] = events[i]
    <2>1. events \in Seq(Event)
      BY DEF TypeOK, BusTypeOK
    <2>2. Len(events') = NextId /\ \A i \in 1..Len(events) : events'[i] = events[i]
      BY <1>2, PublishType
    <2> QED BY <2>1, <2>2 DEF NextId
  <1>3. [BusStep \/ Restart]_busVars \/ \E x \in Topic : Publish(x)
    BY StepIsBusOrPublish
  <1> QED BY <1>1, <1>2, <1>3

\* What is about to be published was not published for the same output by an
\* event in the window.
LEMMA DecideIsNew ==
  ASSUME TypeOK, ScanRemembers, Decide, stage' = "publish",
         NEW a \in auto, a.term = term, a.seen = seen, a.id \in Window
  PROVE  events[a.id].topic \notin fire'
  <1>1. /\ ~Stale /\ fire' \subseteq Unpublished
        /\ term \in Term /\ tail \in Seq(Line) /\ seen \in Time /\ events \in Seq(Event)
    BY DEF Decide, EndScan, TypeOK, BusTypeOK
  <1>2. LatestBlocker \in Time
    BY <1>1, LatestBlockerIsLatest
  <1>3. a.id \in 1..Len(events) /\ events[a.id].from = RoleOf[term] /\ events[a.id].at > seen
    BY DEF ScanRemembers
  <1>4. events[a.id].at \in Time
    <2>1. events[a.id] \in Event
      BY <1>1, <1>3
    <2> QED BY <2>1 DEF Event
  <1>5. events[a.id].at > LatestBlocker
    BY <1>1, <1>2, <1>3, <1>4 DEF Stale, Time
  <1>6. events[a.id].topic \in MineTopics(RoleOf[term])
    BY <1>3, <1>5 DEF MineTopics
  <1> QED BY <1>1, <1>6, UnpublishedType

Remembered == ScanRemembers /\ OncePerOutput

\* What has left the window does not come back: events are only added.
LEMMA WindowSlides ==
  ASSUME TypeOK, [Next]_vars, ~DaemonRestartAnew, NEW i \in 1..Len(events), i \in Window'
  PROVE  i \in Window
  <1>1. Len(events') \in Nat /\ Len(events) \in Nat /\ Len(events) <= Len(events')
    BY EventsKept
  <1>2. EventWindow \in Nat /\ i + EventWindow > Len(events')
    BY WatcherAssumption DEF Window
  <1> QED BY <1>1, <1>2 DEF Window

\* Steps that write no event in the watcher's name.
LEMMA QuietStep ==
  ASSUME TypeOK, [Next]_vars, ~DaemonRestartAnew, Remembered, auto' = auto,
         stage' \in {"decide", "publish"} => now' > seen',
         stage' = "publish" =>
           \A a \in auto : a.term = term' /\ a.seen = seen' /\ a.id \in Window =>
             events[a.id].topic \notin fire'
  PROVE  Remembered'
  <1>1. /\ Len(events') \in Nat /\ Len(events) \in Nat /\ Len(events) <= Len(events')
        /\ \A i \in 1..Len(events) : events'[i] = events[i]
    BY EventsKept
  <1>2. \A a \in auto : /\ a.id \in 1..Len(events) /\ a.id \in 1..Len(events')
                        /\ events'[a.id] = events[a.id]
                        /\ a.id \in Window' => a.id \in Window
    BY <1>1, WindowSlides DEF Remembered, ScanRemembers
  <1>3. ScanRemembers'
    BY <1>2 DEF Remembered, ScanRemembers
  <1>4. OncePerOutput'
    BY <1>2 DEF Remembered, OncePerOutput
  <1> QED BY <1>3, <1>4 DEF Remembered

\* Every step keeps what the watcher remembers.
LEMMA RememberedStep == TypeOK /\ Remembered /\ [Next]_vars => Remembered'
  <1> SUFFICES ASSUME TypeOK, Remembered, [Next]_vars
               PROVE  Remembered'
    OBVIOUS
  <1>8. CASE DaemonRestartAnew
    BY <1>8 DEF DaemonRestartAnew, WatcherStarts, Remembered, ScanRemembers, OncePerOutput
  <1> SUFFICES ASSUME ~DaemonRestartAnew
               PROVE  Remembered'
    BY <1>8
  <1>e. Len(events) \in Nat /\ Len(events') \in Nat /\ Len(events) <= Len(events')
    BY EventsKept
  <1>1. CASE UNCHANGED watchVars
    BY <1>1, QuietStep DEF watchVars, scanVars, Remembered, ScanRemembers
  <1>2. CASE auto' = auto /\ stage' \in {"sleep", "pick", "tail", "gone"}
    BY <1>2, QuietStep
  <1>3. CASE ReadTail
    <2>1. CASE EndScan
      BY <1>3, <2>1, <1>2, EndScanType DEF ReadTail
    <2>2. CASE stage' = "decide" /\ now >= seen + IdleRequired(Decoded(LastLines(log[term])))
               /\ UNCHANGED <<seen, now>>
      <3>1. /\ now \in Nat /\ seen \in Nat
            /\ \A s : IdleRequired(s) \in Nat /\ IdleRequired(s) > 0
        BY BusAssumption, WatcherAssumption DEF TypeOK, Time, IdleRequired
      <3>2. now' > seen'
        BY <2>2, <3>1
      <3> QED BY <1>3, <2>2, <3>2, QuietStep DEF ReadTail
    <2>3. \A s : IdleRequired(s) \in Nat
      BY WatcherAssumption DEF IdleRequired
    <2>4. now \in Nat /\ seen \in Nat
      BY BusAssumption DEF TypeOK, Time
    <2>5. now < seen + IdleRequired(Decoded(LastLines(log[term])))
            \/ now >= seen + IdleRequired(Decoded(LastLines(log[term])))
      BY <2>3, <2>4
    <2> QED BY <1>3, <2>1, <2>2, <2>5 DEF ReadTail
  <1>4. CASE Decide
    <2>1. CASE EndScan
      BY <1>4, <2>1, <1>2, EndScanType DEF Decide
    <2>2. CASE stage' = "publish" /\ UNCHANGED <<term, seen, tail>>
      <3>1. now' > seen' /\ auto' = auto /\ events' = events
        BY <1>4, <2>2 DEF Decide, Remembered, ScanRemembers, busVars
      <3>2. \A a \in auto : a.term = term' /\ a.seen = seen' /\ a.id \in Window =>
              events[a.id].topic \notin fire'
        BY <1>4, <2>2, <3>1, DecideIsNew DEF Remembered
      <3> QED BY <2>2, <3>1, <3>2, QuietStep
    <2> QED BY <1>4, <2>1, <2>2 DEF Decide
  <1>5. ASSUME NEW x \in Topic, Publish(x)
        PROVE  Remembered'
    <2> DEFINE new == [id |-> NextId, term |-> term, seen |-> seen]
    <2>1. /\ NextId \in Nat /\ Len(events') = NextId /\ NextId = Len(events) + 1
          /\ \A i \in 1..Len(events) : events'[i] = events[i]
          /\ events'[NextId].from = RoleOf[term] /\ events'[NextId].topic = x
          /\ events'[NextId].at = now
      <3>1. /\ NextId \in Nat /\ Len(events') = NextId
            /\ \A i \in 1..Len(events) : events'[i] = events[i]
            /\ events'[NextId] =
                 [from |-> RoleOf[term], topic |-> x, at |-> now, via |-> "watcher"]
        BY <1>5, PublishType
      <3> QED BY <3>1 DEF NextId
    <2>2. /\ auto' = auto \cup {new} /\ stage = "publish" /\ x \in fire /\ now' = now
          /\ \/ stage' \in {"sleep", "pick"}
             \/ fire' = fire \ {x} /\ UNCHANGED <<stage, term, seen, tail>>
      BY <1>5 DEF Publish, EndScan
    <2>3. new.id = NextId /\ new.term = term /\ new.seen = seen
      OBVIOUS
    <2> HIDE DEF new
    <2>4. \A a \in auto : a.id \in 1..Len(events) /\ a.id # NextId /\ events'[a.id] = events[a.id]
      BY <1>e, <2>1 DEF Remembered, ScanRemembers
    <2>5. now > seen
      BY <2>2 DEF Remembered, ScanRemembers
    <2>6. \A a \in auto' :
            /\ a.id \in 1..Len(events')
            /\ events'[a.id].from = RoleOf[a.term]
            /\ events'[a.id].at > a.seen
      BY <1>e, <2>1, <2>2, <2>3, <2>4, <2>5 DEF Remembered, ScanRemembers
    <2>7. ASSUME NEW a \in auto, a.term = term, a.seen = seen, events[a.id].topic \in fire
          PROVE  a.id + EventWindow < NextId
      <3>1. a.id \notin Window /\ a.id \in 1..Len(events)
        BY <2>2, <2>7 DEF Remembered, ScanRemembers
      <3>2. a.id + EventWindow <= Len(events)
        BY <1>e, <3>1, WatcherAssumption DEF Window
      <3> QED BY <1>e, <2>1, <3>1, <3>2, WatcherAssumption
    <2>8. \A a \in auto' : a.id <= NextId
      BY <1>e, <2>1, <2>2, <2>3, <2>4
    <2>9. OncePerOutput'
      <3>1. ASSUME NEW a \in auto', NEW b \in auto',
                   a.term = b.term, a.seen = b.seen, events'[a.id].topic = events'[b.id].topic
            PROVE  a.id >= b.id \/ a.id + EventWindow < b.id
        <4>1. CASE a \in auto /\ b \in auto
          BY <3>1, <4>1, <2>4 DEF Remembered, OncePerOutput
        <4>2. CASE a \in auto /\ b = new
          BY <3>1, <4>2, <2>1, <2>2, <2>3, <2>4, <2>7
        <4>3. CASE a = new
          <5>1. a.id = NextId /\ b.id <= NextId /\ b.id \in Nat
            BY <4>3, <1>e, <2>1, <2>2, <2>3, <2>4, <2>8
          <5> QED BY <5>1, <2>1
        <4> QED BY <2>2, <4>1, <4>2, <4>3
      <3> QED BY <3>1 DEF OncePerOutput
    <2>10. stage' = "publish" =>
             \A a \in auto' : a.term = term' /\ a.seen = seen' /\ a.id \in Window' =>
               events'[a.id].topic \notin fire'
      <3> SUFFICES ASSUME stage' = "publish",
                          NEW a \in auto', a.term = term', a.seen = seen', a.id \in Window'
                   PROVE  events'[a.id].topic \notin fire'
        OBVIOUS
      <3>1. fire' = fire \ {x} /\ UNCHANGED <<term, seen>>
        BY <2>2
      <3>2. CASE a = new
        BY <2>1, <2>3, <3>1, <3>2
      <3>3. CASE a \in auto
        <4>1. a.id \in Window
          BY <2>4, <3>3, WindowSlides
        <4> QED BY <2>2, <2>4, <3>1, <3>3, <4>1 DEF Remembered, ScanRemembers
      <3> QED BY <2>2, <3>2, <3>3
    <2>11. stage' \in {"decide", "publish"} => now' > seen'
      BY <2>2, <2>5
    <2>12. ScanRemembers'
      BY <2>6, <2>10, <2>11 DEF ScanRemembers
    <2> QED BY <2>9, <2>12 DEF Remembered
  <1>6. CASE DaemonRestart
    BY <1>6, <1>2 DEF DaemonRestart, WatcherStarts
  <1>7. CASE Wake \/ Panic \/ \E t \in Term : ReadIdle(t)
    BY <1>7, <1>2 DEF Wake, Panic, ReadIdle
  <1> QED
    BY <1>1, <1>3, <1>4, <1>5, <1>6, <1>7
       DEF Next, Emit, CloseTerminal, WriteFile, Commit, vars

\* What the watcher remembers, and what follows from it, holds throughout.
LEMMA AlwaysRemembered == Spec => []Remembered
  <1>1. Init => Remembered
    BY DEF Init, Remembered, ScanRemembers, OncePerOutput
  <1> QED BY <1>1, RememberedStep, WatcherTypeCorrect, PTL DEF Spec

\* Whatever the bus and the terminals do between the watcher's reads: what it
\* wrote stays on the bus in its role's name and is newer than the output it
\* was read from, and nothing it is about to write was written for this output.
THEOREM NothingForgotten == Spec => []ScanRemembers
  <1>1. Remembered => ScanRemembers
    BY DEF Remembered
  <1> QED BY <1>1, AlwaysRemembered, PTL

\* A terminal that prints nothing more makes the watcher publish a topic again
\* only past a full window of other events, for every team, interleaving,
\* restart and blocker, and however full the bus is.
THEOREM NoRepeats == Spec => []OncePerOutput
  <1>1. Remembered => OncePerOutput
    BY DEF Remembered
  <1> QED BY <1>1, AlwaysRemembered, PTL

-----------------------------------------------------------------------------
(* The watcher plays by the bus's rules                                    *)

\* Every step of the watcher is a step of the ledger, or none.
LEMMA WatchLedgerStep == TypeOK /\ [Next]_vars => [Ledger!Next]_(Ledger!ledger)
  <1> SUFFICES ASSUME TypeOK, [Next]_vars
               PROVE  [Ledger!Next]_(Ledger!ledger)
    OBVIOUS
  <1>1. CASE [BusStep \/ Restart]_busVars \/ RestartAnew
    BY <1>1, BusLedgerStep DEF TypeOK, BusNext
  <1>2. ASSUME NEW x \in Topic, Publish(x)
        PROVE  Ledger!Next
    <2>1. /\ events \in Seq(Event) /\ RoleOf[term] \in Sender /\ now \in Time
          /\ "watcher" \in Outside
          /\ Insert(RoleOf[term], x, now, "watcher") /\ Dispatch(RoleOf[term], x)
      BY <1>2, WatcherAssumption DEF TypeOK, BusTypeOK, Publish, Sender, Outside
    <2> QED BY <2>1, OutsideEventAnnounced DEF Ledger!Next
  <1>3. \/ [BusStep \/ Restart]_busVars \/ RestartAnew
        \/ \E x \in Topic : Publish(x)
    BY StepIsBusOrPublish
  <1> QED BY <1>1, <1>2, <1>3

\* With the watcher publishing in its roles' names, the bus still keeps the
\* promise of HandoffLedger.
THEOREM WatcherImplementsLedger == Spec => ImplementsLedger
  <1>1. Init => Ledger!Init
    BY DEF Init, BusInit, Ledger!Init, Woken
  <1> QED BY <1>1, WatchLedgerStep, WatcherTypeCorrect, PTL
          DEF Spec, ImplementsLedger, Ledger!Spec

\* And there still are no storms.
THEOREM WatcherNoStorms == Spec => []DispatchDepthOne
  <1>1. Init => DispatchDepthOne
    BY DEF Init, BusInit, DispatchDepthOne
  <1>2. TypeOK /\ [Next]_vars /\ DispatchDepthOne => DispatchDepthOne'
    BY WatchLedgerStep, LedgerStepKeepsDepth DEF TypeOK, BusTypeOK
  <1> QED BY <1>1, <1>2, WatcherTypeCorrect, PTL DEF Spec
=============================================================================
