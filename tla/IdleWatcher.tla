---------------------------- MODULE IdleWatcher ----------------------------
(***************************************************************************)
(* spawn_idle_watcher of crates/usta-daemon/src/main.rs composed with the  *)
(* bus it publishes on.  Every POLL_SECS one task reads the mirrored       *)
(* output of each open role terminal and, when the terminal has gone quiet *)
(* and its tail claims a completion, publishes the claimed topics in the   *)
(* role's name.                                                            *)
(*                                                                         *)
(*   open       terminals whose row has no closed_unix_ms                  *)
(*   log        term_log of each terminal, one entry per line              *)
(*   lastMs     MAX(created_unix_ms) of its term_log, 0 when it is empty   *)
(*   wroteMs    mtime of the newest file of the workspace; in a git        *)
(*              workspace of the newest uncommitted one; 0 when none       *)
(*   fired      last_fired: when (terminal, topic) was last published      *)
(*   stage      where the task stands in its loop                          *)
(*   now        the clock as read at the start of the round                *)
(*   queue      terminals of the round still to be scanned                 *)
(*   term       the terminal being scanned                                 *)
(*   seen       its lastMs as read for the idle check                      *)
(*   tail       its tail as read after that                                *)
(*   fire       topics about to be published for it                        *)
(*   auto       history: [id, term, seen] of every event the watcher wrote *)
(*                                                                         *)
(* The task awaits the database between all these steps, so terminals and  *)
(* the bus move on in between.  A tail is the sequence of its telling      *)
(* lines.  The order in which a round takes terminals, and topics of one   *)
(* terminal, is left open.  Some tails make the task panic, see Panic: it  *)
(* is not started again before the daemon is.                              *)
(***************************************************************************)
EXTENDS EventBus

CONSTANTS
  Term, RoleOf,    \* terminals and the role each was started for
  EndsWith,        \* EndsWith[x]: the topics that are a suffix of x, x included
  ExclusivePairs,  \* exclusive_pairs
  Line,            \* the lines terminals print, see LineKind
  HasFiles,        \* do the roles write files?
  Git,             \* does the workspace root have a .git directory?
  NoTerm,
  Poll, StrongIdle, WeakIdle, Dedupe,  \* 10 s, 8 s, 60 s, 5 min
  TailLines,       \* TAIL_BYTES, in lines
  EventWindow,     \* 200, the limit of list_events
  MaxLines         \* bound

\* marker    [[handoff: <topic> | <summary>]]
\* announce  Event <topic> published
\* mention   Event <topic> with no "published" on the line
\* dangling  Event with a blank after it and no further text
\* bare      the topic alone on its line
\* header    Files Created: / Files Modified:
\* bullet    a done line that starts with the agent's bullet or a check mark
\* other     anything else, which may name a topic
LineKind == {"marker", "announce", "mention", "dangling", "bare", "header", "bullet",
             "other"}

NoTopic == "none"

ASSUME WatcherAssumption ==
  /\ RoleOf \in [Term -> Role]
  /\ NoTerm \notin Term
  /\ EndsWith \in [Topic -> SUBSET Topic]
  /\ \A x \in Topic : x \in EndsWith[x]
  /\ ExclusivePairs \subseteq Topic \X Topic
  /\ Line \subseteq [kind : LineKind, topic : Topic \cup {NoTopic}]
  /\ \A l \in Line : l.kind \in {"marker", "announce", "mention"} => l.topic \in Topic
  /\ \A l \in Line : l.kind = "dangling" => l.topic = NoTopic
  /\ HasFiles \in BOOLEAN /\ Git \in BOOLEAN
  /\ Poll \in Nat /\ WeakIdle \in Nat /\ Dedupe \in Nat
  /\ StrongIdle \in Nat \ {0} /\ StrongIdle <= WeakIdle
  /\ TailLines \in Nat /\ EventWindow \in Nat /\ MaxLines \in Nat

VARIABLES open, log, lastMs, wroteMs,
          fired, stage, now, queue, term, seen, tail, fire, auto

termVars == <<open, log, lastMs, wroteMs>>
scanVars == <<term, seen, tail, fire>>
watchVars == <<fired, stage, now, queue, scanVars, auto>>
vars == <<busVars, termVars, watchVars>>

\* "gone": the task has panicked.
Stages == {"sleep", "pick", "tail", "decide", "publish", "gone"}

TypeOK ==
  /\ BusTypeOK
  /\ open \subseteq Term
  /\ log \in [Term -> Seq(Line)]
  /\ lastMs \in [Term -> Time]
  /\ wroteMs \in Time
  /\ fired \in [Term -> [Topic -> Time]]
  /\ stage \in Stages
  /\ now \in Time
  /\ queue \subseteq Term
  /\ term \in Term \cup {NoTerm}
  /\ stage \in {"tail", "decide", "publish"} => term \in Term
  /\ seen \in Time
  /\ tail \in Seq(Line)
  /\ fire \subseteq Topic
  /\ auto \subseteq [id : Nat, term : Term, seen : Time]

Never == [t \in Term |-> [x \in Topic |-> 0]]

Init ==
  /\ BusInit
  /\ open = Term
  /\ log = [t \in Term |-> <<>>]
  /\ lastMs = [t \in Term |-> 0]
  /\ wroteMs = 0
  /\ fired = Never
  /\ stage = "sleep" /\ now = 0 /\ queue = {}
  /\ term = NoTerm /\ seen = 0 /\ tail = <<>> /\ fire = {}
  /\ auto = {}

-----------------------------------------------------------------------------
(* Terminals                                                               *)

\* The mirror task appends output to term_log, stamped when it is written;
\* what it has buffered is written even after the row was closed.  (It is
\* refused for terminals of a database that was lost; no round reads them.)
Emit(t, l) ==
  /\ Len(log[t]) < MaxLines
  /\ log' = [log EXCEPT ![t] = Append(@, l)]
  /\ lastMs' = [lastMs EXCEPT ![t] = clock]
  /\ UNCHANGED <<busVars, watchVars, open, wroteMs>>

CloseTerminal(t) ==
  /\ t \in open
  /\ open' = open \ {t}
  /\ UNCHANGED <<busVars, watchVars, log, lastMs, wroteMs>>

WriteFile ==
  /\ HasFiles
  /\ wroteMs' = clock
  /\ UNCHANGED <<busVars, watchVars, open, log, lastMs>>

Commit ==
  /\ HasFiles /\ Git
  /\ wroteMs' = 0
  /\ UNCHANGED <<busVars, watchVars, open, log, lastMs>>

-----------------------------------------------------------------------------
(* What a tail claims                                                      *)

LastLines(s) == SubSeq(s, IF Len(s) > TailLines THEN Len(s) - TailLines + 1 ELSE 1, Len(s))

\* The escape-stripping loop copies the tail byte by byte, which turns every
\* character outside ASCII into several others: a bullet or a check mark is
\* no longer one when strong_markers is searched.
Decoded(s) ==
  [i \in 1..Len(s) |-> IF s[i].kind = "bullet" THEN [s[i] EXCEPT !.kind = "other"] ELSE s[i]]

Named(s, kinds) == {s[i].topic : i \in {j \in 1..Len(s) : s[j].kind \in kinds}}

MarkerTopics(s) == Named(s, {"marker"})

\* "Event <topic>" with "published" anywhere after it.
AnnouncedTopics(s) ==
  {s[i].topic : i \in {j \in 1..Len(s) :
     /\ s[j].kind \in {"announce", "mention"}
     /\ \E k \in j..Len(s) : s[k].kind = "announce"}}

\* The loop that looks for announcements steps over at least one byte behind
\* each "event ".  Behind the last one there is none.
Dangling(s) == s # <<>> /\ s[Len(s)].kind = "dangling"

BareTopics(s, r) == Named(s, {"bare"}) \cap Publishes[r]

HasKeyword(s) == \E i \in 1..Len(s) : s[i].kind \in {"bullet", "header"}

StrongSignal(s) == \E i \in 1..Len(s) : s[i].kind \in {"marker", "announce"}

\* declared_ok: equal to a declared topic, or one is a suffix of the other.
DeclaredOk(r, x) ==
  \E p \in Publishes[r] : p \in EndsWith[x] \/ x \in EndsWith[p]

Declared(r, S) == {x \in S : DeclaredOk(r, x)}

\* The topics of the best source the tail has.
ExplicitPool(s, r) ==
  IF MarkerTopics(s) # {} THEN Declared(r, MarkerTopics(s))
  ELSE IF AnnouncedTopics(s) # {} THEN Declared(r, AnnouncedTopics(s))
  ELSE BareTopics(s, r)

CandidatePool(s, r, filesChanged) ==
  IF ExplicitPool(s, r) # {} THEN ExplicitPool(s, r)
  ELSE IF HasKeyword(s) /\ filesChanged THEN Publishes[r]
  ELSE {}

\* rfind of the topic in the tail, 0 when it does not occur.
LastPos(s, x) ==
  LET P == {i \in 1..Len(s) : s[i].topic # NoTopic /\ x \in EndsWith[s[i].topic]}
  IN IF P = {} THEN 0 ELSE CHOOSE i \in P : \A j \in P : j <= i

\* Of each mutually exclusive pair keep the topic that occurs later.
Dropped(s, pair) ==
  LET a == pair[1]
      b == pair[2]
  IN IF LastPos(s, a) > LastPos(s, b) \/ LastPos(s, b) = 0 THEN b ELSE a

Consistent(s, S) ==
  S \ {Dropped(s, pair) : pair \in {p \in ExclusivePairs : p[1] \in S /\ p[2] \in S}}

-----------------------------------------------------------------------------
(* What the bus says                                                       *)

\* list_events(ws, [], 0, 200): the newest ones.
Window == {i \in 1..Len(events) : i + EventWindow > Len(events)}

Reopens(x) == x \in Blocker \cup {FeatureRequested}

\* created_unix_ms of the latest blocker, 0 when there is none.
LatestBlocker ==
  LET B == {events[i].at : i \in {j \in Window : Reopens(events[j].topic)}}
  IN IF B = {} THEN 0 ELSE CHOOSE m \in B : \A n \in B : n <= m

MineTopics(r) ==
  {events[i].topic : i \in {j \in Window :
     events[j].from = r /\ events[j].at > LatestBlocker}}

\* collect_changed_files_since; every terminal was opened at time 0.
FilesChanged == IF Git THEN wroteMs > 0 ELSE wroteMs > 0 /\ wroteMs >= LatestBlocker

\* Mutants of Stale: the check is missing; output as old as the blocker is
\* stale.
NeverStale == FALSE
StaleOnTie == LatestBlocker > 0 /\ seen <= LatestBlocker

Stale == LatestBlocker > 0 /\ seen < LatestBlocker

Recent(t, x) == fired[t][x] > 0 /\ now - fired[t][x] < Dedupe

Unpublished ==
  LET r == RoleOf[term]
      s == Decoded(tail)
  IN Consistent(s, CandidatePool(s, r, FilesChanged) \ MineTopics(r))

-----------------------------------------------------------------------------
(* The loop                                                                *)

\* Mutant of EndScan: the loop stays where it was.
EndScanInPlace ==
  /\ stage' = stage
  /\ term' = NoTerm /\ seen' = 0 /\ tail' = <<>> /\ fire' = {}

\* `continue` to the next terminal, or to the sleep after the last one.
EndScan ==
  /\ stage' = IF queue = {} THEN "sleep" ELSE "pick"
  /\ term' = NoTerm /\ seen' = 0 /\ tail' = <<>> /\ fire' = {}

Wake ==
  /\ stage = "sleep"
  /\ clock >= now + Poll
  /\ now' = clock
  /\ queue' = open
  /\ stage' = IF open = {} THEN "sleep" ELSE "pick"
  /\ UNCHANGED <<busVars, termVars, fired, scanVars, auto>>

\* last_term_log_ms of the next terminal; one that never printed is skipped.
ReadIdle(t) ==
  /\ stage = "pick" /\ t \in queue
  /\ queue' = queue \ {t}
  /\ IF lastMs[t] = 0
       THEN /\ stage' = IF queue = {t} THEN "sleep" ELSE "pick"
            /\ UNCHANGED <<term, seen>>
       ELSE /\ stage' = "tail"
            /\ term' = t /\ seen' = lastMs[t]
  /\ UNCHANGED <<busVars, termVars, fired, now, tail, fire, auto>>

\* Mutant of IdleRequired: a strong signal needs no quiet time.
NoQuietRequired(s) == IF StrongSignal(s) THEN 0 ELSE WeakIdle

\* How long a terminal with this tail must have been quiet.
IdleRequired(s) == IF StrongSignal(s) THEN StrongIdle ELSE WeakIdle

\* read_term_log, then the idle check against the time read before.
ReadTail ==
  /\ stage = "tail"
  /\ LET s == LastLines(log[term]) IN
       IF now < seen + IdleRequired(Decoded(s))
         THEN EndScan
         ELSE /\ stage' = "decide"
              /\ tail' = s
              /\ UNCHANGED <<term, seen, fire>>
  /\ UNCHANGED <<busVars, termVars, fired, now, queue, auto>>

Panics == Publishes[RoleOf[term]] # {} /\ ~Stale /\ Dangling(Decoded(tail))

\* after[token_len.max(1)..] of an empty rest.
Panic ==
  /\ stage = "decide"
  /\ Panics
  /\ stage' = "gone" /\ queue' = {}
  /\ term' = NoTerm /\ seen' = 0 /\ tail' = <<>> /\ fire' = {}
  /\ UNCHANGED <<busVars, termVars, fired, now, auto>>

\* Workspace, role and events are read; the topics to publish are settled
\* and entered in last_fired.
Decide ==
  /\ stage = "decide"
  /\ ~Panics
  /\ LET F == IF Stale THEN {} ELSE {x \in Unpublished : ~Recent(term, x)} IN
       /\ fired' = [fired EXCEPT ![term] =
                      [x \in Topic |-> IF x \in F THEN now ELSE @[x]]]
       /\ IF F = {}
            THEN EndScan
            ELSE /\ stage' = "publish"
                 /\ fire' = F
                 /\ UNCHANGED <<term, seen, tail>>
  /\ UNCHANGED <<busVars, termVars, now, queue, auto>>

\* One topic: insert_event with the round's clock, then dispatch_event.
Publish(x) ==
  /\ stage = "publish" /\ x \in fire
  /\ Insert(RoleOf[term], x, now, "watcher")
  /\ Dispatch(RoleOf[term], x)
  /\ auto' = auto \cup {[id |-> NextId, term |-> term, seen |-> seen]}
  /\ IF fire = {x}
       THEN EndScan
       ELSE fire' = fire \ {x} /\ UNCHANGED <<stage, term, seen, tail>>
  /\ UNCHANGED <<clock, publishing, chats, pm, termVars, fired, now, queue>>

\* The watcher is a task of the daemon: a restart forgets its round and
\* last_fired.  Rows of open terminals stay open.
\* Bound: a restart leaves time for one more round.
WatcherStarts ==
  /\ clock < MaxClock
  /\ fired' = Never
  /\ stage' = "sleep" /\ now' = clock /\ queue' = {}
  /\ term' = NoTerm /\ seen' = 0 /\ tail' = <<>> /\ fire' = {}

DaemonRestart ==
  /\ Restart
  /\ WatcherStarts
  /\ UNCHANGED <<termVars, auto>>

\* The same on an empty database, which knows of no terminal.
DaemonRestartAnew ==
  /\ RestartAnew
  /\ WatcherStarts
  /\ open' = {}
  /\ log' = [t \in Term |-> <<>>]
  /\ lastMs' = [t \in Term |-> 0]
  /\ auto' = {}
  /\ UNCHANGED wroteMs

Next ==
  \/ BusStep /\ UNCHANGED <<termVars, watchVars>>
  \/ \E t \in Term, l \in Line : Emit(t, l)
  \/ \E t \in Term : CloseTerminal(t)
  \/ WriteFile
  \/ Commit
  \/ Wake
  \/ \E t \in Term : ReadIdle(t)
  \/ ReadTail
  \/ Panic
  \/ Decide
  \/ \E x \in Topic : Publish(x)
  \/ DaemonRestart
  \/ DaemonRestartAnew

Spec == Init /\ [][Next]_vars

\* The watcher's loop never waits for a person, and time passes.  Nothing is
\* assumed of terminals, clients or providers, nor that a daemon whose watcher
\* is gone is ever restarted.
Fairness ==
  /\ WF_vars(Tick /\ UNCHANGED <<termVars, watchVars>>)
  /\ WF_vars(Wake)
  /\ WF_vars(\E t \in Term : ReadIdle(t))
  /\ WF_vars(ReadTail)
  /\ WF_vars(Panic \/ Decide)
  /\ WF_vars(\E x \in Topic : Publish(x))

FairSpec == Spec /\ Fairness

-----------------------------------------------------------------------------
(* Properties                                                              *)

\* A terminal that prints nothing more makes the watcher publish a topic again
\* only when the earlier announcement is no longer among the 200 newest events,
\* which is all the watcher reads - whatever else happens: blockers (its own
\* included), clients publishing at the same moment, other terminals of the
\* role, restarts that forget last_fired.
OncePerOutput ==
  \A a, b \in auto :
    a.term = b.term /\ a.seen = b.seen /\ events[a.id].topic = events[b.id].topic
      => a.id >= b.id \/ a.id + EventWindow < b.id

\* What OncePerOutput rests on.  An event the watcher wrote carries the name
\* of the terminal's role and is stamped later than the output it was read
\* from, so it still counts as published once blockers no older than that
\* output are set aside; and no topic about to be published was already
\* published for this very output, by an event still in the window.
ScanRemembers ==
  /\ \A a \in auto :
       /\ a.id \in 1..Len(events)
       /\ events[a.id].from = RoleOf[a.term]
       /\ events[a.id].at > a.seen
  /\ stage \in {"decide", "publish"} => now > seen
  /\ stage = "publish" =>
       \A a \in auto : a.term = term /\ a.seen = seen /\ a.id \in Window =>
         events[a.id].topic \notin fire

\* A completion a terminal claims explicitly, newer than the latest blocker and
\* not yet on the bus.  (Claims of topics of an exclusive pair may lose to the
\* other one; a claim made too late for the clock bound is not judged.)
Outstanding(t, x) ==
  /\ t \in open
  /\ x \in ExplicitPool(LastLines(log[t]), RoleOf[t])
  /\ \A p \in ExclusivePairs : x # p[1] /\ x # p[2]
  /\ lastMs[t] >= LatestBlocker
  /\ x \notin MineTopics(RoleOf[t])
  /\ lastMs[t] + Dedupe <= MaxClock
  /\ Len(events) < MaxEvents

\* Such a claim is announced without anyone's help, or the watcher is gone:
\* also when the daemon is restarted between deciding to publish and
\* publishing, and when last_fired holds a claim back that was made again
\* after a blocker.
ClaimsReachBus ==
  \A t \in Term, x \in Topic :
    Outstanding(t, x) ~> (~Outstanding(t, x) \/ stage = "gone")

=============================================================================
