---------------------------- MODULE WaitForEvent ----------------------------
(***************************************************************************)
(* The wait_for_event tool of the MCP stdio server (crates/usta-mcp) that  *)
(* runs beside each agent: a poll of the daemon's list_events with a       *)
(* deadline.                                                               *)
(*                                                                         *)
(*   clock     real time; a nap and a timeout take several ticks           *)
(*   log       the events table: topic and time of arrival, by id          *)
(*   pc        idle, base (about to read the baseline), check (about to    *)
(*             look at the deadline), poll, nap, done                      *)
(*   after     the baseline: newest matching id when the call was made     *)
(*   deadline  when the call gives up                                      *)
(*   wakeAt    when the current nap ends                                   *)
(*   answer    how the last call ended: with an event, at its deadline, or *)
(*             because a request to the daemon failed                      *)
(*   got       the last event each agent was given, kept as history        *)
(*                                                                         *)
(* The server answers one request at a time, so an agent that waits does   *)
(* not publish.                                                            *)
(***************************************************************************)
EXTENDS Naturals, Sequences, FiniteSets

CONSTANTS
  Agent, Topic,
  Wants,      \* the topics each agent waits for
  Makes,      \* the topics each agent publishes when it is not waiting
  Outside,    \* the topics others publish at any time
  Timeout,    \* timeout_seconds, at least 1
  Nap,        \* the 1500 ms between polls
  Limit,      \* 10
  MaxClock, MaxEvents  \* bounds

ASSUME WaitAssumption ==
  /\ Wants \in [Agent -> SUBSET Topic]
  /\ Makes \in [Agent -> SUBSET Topic]
  /\ Outside \subseteq Topic
  /\ Timeout \in Nat \ {0} /\ Nap \in Nat \ {0} /\ Limit \in Nat \ {0}
  /\ MaxClock \in Nat /\ MaxEvents \in Nat

VARIABLES clock, log, pc, after, deadline, wakeAt, answer, got

waitVars == <<pc, after, deadline, wakeAt, answer, got>>
vars == <<clock, log, waitVars>>

Init ==
  /\ clock = 0
  /\ log = <<>>
  /\ pc = [a \in Agent |-> "idle"]
  /\ after = [a \in Agent |-> 0]
  /\ deadline = [a \in Agent |-> 0]
  /\ wakeAt = [a \in Agent |-> 0]
  /\ answer = [a \in Agent |-> "none"]
  /\ got = [a \in Agent |-> 0]

-----------------------------------------------------------------------------
(* list_events(topics, after_id, limit): the newest `limit` matches, oldest *)
(* of them first                                                           *)

Matches(a, from) == {i \in from + 1 .. Len(log) : log[i].topic \in Wants[a]}

\* Mutant of Newest: the oldest `limit` matches.
Oldest(a, from, limit) ==
  {i \in Matches(a, from) : Cardinality({j \in Matches(a, from) : j < i}) < limit}

Newest(a, from, limit) ==
  {i \in Matches(a, from) : Cardinality({j \in Matches(a, from) : j > i}) < limit}

Least(S) == CHOOSE m \in S : \A n \in S : m <= n

\* The baseline request has limit 1.
Baseline(a) == IF Matches(a, 0) = {} THEN 0 ELSE Least(Newest(a, 0, 1))

-----------------------------------------------------------------------------

Waiting(a) == pc[a] \in {"base", "check", "poll", "nap"}

\* Bound: only calls whose deadline and last nap fall within MaxClock.
Call(a) ==
  /\ ~Waiting(a)
  /\ Wants[a] # {}
  /\ clock + Timeout + Nap <= MaxClock
  /\ pc' = [pc EXCEPT ![a] = "base"]
  /\ answer' = [answer EXCEPT ![a] = "none"]
  /\ UNCHANGED <<clock, log, after, deadline, wakeAt, got>>

\* The deadline runs from the answer to the baseline request.
ReadBase(a) ==
  /\ pc[a] = "base"
  /\ after' = [after EXCEPT ![a] = Baseline(a)]
  /\ deadline' = [deadline EXCEPT ![a] = clock + Timeout]
  /\ pc' = [pc EXCEPT ![a] = "check"]
  /\ UNCHANGED <<clock, log, wakeAt, answer, got>>

\* Mutant of Check: the deadline is never looked at.
CheckNothing(a) ==
  /\ pc[a] = "check"
  /\ pc' = [pc EXCEPT ![a] = "poll"]
  /\ UNCHANGED <<clock, log, after, deadline, wakeAt, answer, got>>

Check(a) ==
  /\ pc[a] = "check"
  /\ IF clock >= deadline[a]
       THEN /\ answer' = [answer EXCEPT ![a] = "timeout"]
            /\ pc' = [pc EXCEPT ![a] = "done"]
       ELSE /\ pc' = [pc EXCEPT ![a] = "poll"]
            /\ UNCHANGED answer
  /\ UNCHANGED <<clock, log, after, deadline, wakeAt, got>>

\* Mutant of Poll: the last of the matches is taken instead of the first.
PollLast(a) ==
  /\ pc[a] = "poll"
  /\ IF Matches(a, after[a]) # {}
       THEN LET e == CHOOSE m \in Matches(a, after[a]) :
                       \A n \in Matches(a, after[a]) : m >= n IN
            /\ answer' = [answer EXCEPT ![a] = "event"]
            /\ got' = [got EXCEPT ![a] = e]
            /\ pc' = [pc EXCEPT ![a] = "done"]
            /\ UNCHANGED wakeAt
       ELSE /\ wakeAt' = [wakeAt EXCEPT ![a] = clock + Nap]
            /\ pc' = [pc EXCEPT ![a] = "nap"]
            /\ UNCHANGED <<answer, got>>
  /\ UNCHANGED <<clock, log, after, deadline>>

\* The first of the newest `Limit` matches after the baseline, or a nap.
Poll(a) ==
  /\ pc[a] = "poll"
  /\ IF Matches(a, after[a]) # {}
       THEN LET e == Least(Newest(a, after[a], Limit)) IN
            /\ answer' = [answer EXCEPT ![a] = "event"]
            /\ got' = [got EXCEPT ![a] = e]
            /\ pc' = [pc EXCEPT ![a] = "done"]
            /\ UNCHANGED wakeAt
       ELSE /\ wakeAt' = [wakeAt EXCEPT ![a] = clock + Nap]
            /\ pc' = [pc EXCEPT ![a] = "nap"]
            /\ UNCHANGED <<answer, got>>
  /\ UNCHANGED <<clock, log, after, deadline>>

Wake(a) ==
  /\ pc[a] = "nap"
  /\ clock >= wakeAt[a]
  /\ pc' = [pc EXCEPT ![a] = "check"]
  /\ wakeAt' = [wakeAt EXCEPT ![a] = 0]
  /\ UNCHANGED <<clock, log, after, deadline, answer, got>>

\* The daemon is gone or refuses the request: the tool answers with an error.
Fail(a) ==
  /\ pc[a] \in {"base", "poll"}
  /\ answer' = [answer EXCEPT ![a] = "error"]
  /\ pc' = [pc EXCEPT ![a] = "done"]
  /\ UNCHANGED <<clock, log, after, deadline, wakeAt, got>>

-----------------------------------------------------------------------------

Arrive(x) ==
  /\ Len(log) < MaxEvents
  /\ log' = Append(log, [topic |-> x, at |-> clock])
  /\ UNCHANGED <<clock, waitVars>>

PublishOwn(a) == ~Waiting(a) /\ \E x \in Makes[a] : Arrive(x)

PublishOutside == \E x \in Outside : Arrive(x)

\* The deadline is looked at as soon as a request or a nap is over.  Bound:
\* time stands still for a call whose deadline, or next nap, would leave
\* MaxClock.
Tick ==
  /\ clock < MaxClock
  /\ \A a \in Agent :
       /\ pc[a] # "check"
       /\ pc[a] = "base" => clock + Timeout + Nap < MaxClock
       /\ pc[a] = "poll" => clock + Nap < MaxClock
  /\ clock' = clock + 1
  /\ UNCHANGED <<log, waitVars>>

Step(a) == ReadBase(a) \/ Check(a) \/ Poll(a) \/ Wake(a)

Next ==
  \/ \E a \in Agent : Call(a) \/ Step(a) \/ Fail(a) \/ PublishOwn(a)
  \/ PublishOutside
  \/ Tick

Spec == Init /\ [][Next]_vars

\* The daemon answers requests, the server keeps polling and time passes;
\* agents need never call or publish anything.  (Strong fairness, because the
\* guards of Tick hold time back while a request is under way.)
Fairness == SF_vars(Tick) /\ \A a \in Agent : WF_vars(Step(a))

FairSpec == Spec /\ Fairness

-----------------------------------------------------------------------------
(* Properties                                                              *)

\* A call returns an event that arrived after its baseline and that it asked
\* for.  It returns the first such event, unless so many arrived within one
\* nap that the newest Limit of them hid the earlier ones.
FirstNewMatch ==
  \A a \in Agent : answer[a] = "event" =>
    /\ got[a] \in Matches(a, after[a])
    /\ \/ \A i \in Matches(a, after[a]) : i >= got[a]
       \/ Cardinality(Matches(a, got[a] - 1)) >= Limit

\* Calling again never returns an event the agent was given before, nor an
\* older one, although the baseline starts from the table at every call.
NoEventTwice ==
  [][\A a \in Agent :
       answer'[a] = "event" /\ answer[a] # "event" => got'[a] > got[a]]_vars

\* Two agents that wait for each other's topics both get an answer, and so
\* does everyone else who calls: nobody waits for ever.
EveryWaitEnds == \A a \in Agent : Waiting(a) ~> ~Waiting(a)

=============================================================================
