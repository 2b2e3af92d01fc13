------------------------- MODULE WaitForEvent_proofs -------------------------
(***************************************************************************)
(* FirstNewMatch and NoEventTwice hold for any agents and topics, any      *)
(* timeout, nap and limit, and any traffic on the bus.                     *)
(*                                                                         *)
(* What an agent was given stays below the baseline of its next call,      *)
(* because the baseline is the newest match; and the least of the newest   *)
(* Limit matches is the least of all, or there are Limit of them from it   *)
(* on.                                                                     *)
(***************************************************************************)
EXTENDS WaitForEvent, FiniteSetTheorems, WellFoundedInduction, TLAPS

WaitTypeOK ==
  /\ clock \in Nat
  /\ log \in Seq([topic: Topic, at: Nat])
  /\ pc \in [Agent -> {"idle", "base", "check", "poll", "nap", "done"}]
  /\ after \in [Agent -> Nat]
  /\ answer \in [Agent -> {"none", "event", "timeout", "error"}]
  /\ got \in [Agent -> Nat]

\* Matches and FirstNewMatch of any table.
In(table, a, from) == {i \in from + 1 .. Len(table) : table[i].topic \in Wants[a]}

First(table, a, from, given) ==
  /\ given \in In(table, a, from)
  /\ \/ \A i \in In(table, a, from) : i >= given
     \/ Cardinality(In(table, a, given - 1)) >= Limit

\* An answer stays until the next call, and a baseline is past what was given.
GivenBelow ==
  \A a \in Agent :
    /\ answer[a] = "event" => pc[a] = "done" /\ First(log, a, after[a], got[a])
    /\ got[a] # 0 => got[a] \in In(log, a, 0)
    /\ pc[a] \in {"check", "poll", "nap"} => got[a] <= after[a]

WaitInv == WaitTypeOK /\ GivenBelow

-----------------------------------------------------------------------------
(* numbers *)

\* A nonempty set of naturals has a least member.
LEMMA LeastIsLeast ==
  ASSUME NEW S, S \subseteq Nat, S # {}
  PROVE  Least(S) \in S /\ \A n \in S : Least(S) <= n
<1> DEFINE Less == {p \in Nat \X Nat : p[1] < p[2]}
<1>1. IsWellFoundedOn(Less, Nat)
  BY NatLessThanWellFounded, Zenon DEF OpToRel
<1>2. PICK m \in S : \A n \in S : <<n, m>> \notin Less
  <2> HIDE DEF Less
  <2> QED BY <1>1, WFMin
<1>3. ASSUME NEW n \in S PROVE m <= n
  <2>1. n < m => <<n, m>> \in Less
    OBVIOUS
  <2>2. <<n, m>> \notin Less
    BY <1>2, Zenon
  <2>3. ~(n < m)
    BY <2>1, <2>2
  <2> QED BY <2>3
<1> QED
  BY <1>3 DEF Least

\* Below a number they have a greatest one.
LEMMA GreatestMember ==
  ASSUME NEW n \in Nat, NEW S, S \subseteq 0..n, S # {}
  PROVE  \E m \in S : \A k \in S : k <= m
<1> DEFINE T == {n - k : k \in S}
<1>1. T \subseteq Nat /\ T # {}
  <2>1. \A k \in S : n - k \in Nat /\ n - k \in T
    OBVIOUS
  <2> QED BY <2>1
<1>2. PICK c \in T : \A t \in T : c <= t
  <2> HIDE DEF T
  <2> QED BY <1>1, LeastIsLeast
<1>3. PICK m \in S : c = n - m
  BY <1>2
<1>4. ASSUME NEW k \in S PROVE k <= m
  <2>1. n - k \in T /\ n - m \in T
    OBVIOUS
  <2>2. c <= n - k
    BY <1>2, <2>1
  <2>3. k \in Nat /\ m \in Nat
    OBVIOUS
  <2> QED BY <1>3, <2>2, <2>3
<1> QED BY <1>4

-----------------------------------------------------------------------------
(* list_events *)

\* Matches are among the ids of the table.
LEMMA MatchesType ==
  ASSUME WaitTypeOK, NEW a \in Agent, NEW from \in Nat
  PROVE  /\ Matches(a, from) \subseteq 1..Len(log) /\ Len(log) \in Nat
         /\ IsFiniteSet(Matches(a, from))
         /\ \A i \in Matches(a, from) : i > from
<1>1. Len(log) \in Nat
  BY DEF WaitTypeOK
<1>2. Matches(a, from) \subseteq 1..Len(log)
  BY <1>1 DEF Matches
<1>3. IsFiniteSet(1..Len(log))
  BY <1>1, FS_Interval
<1>4. IsFiniteSet(Matches(a, from))
  BY <1>2, <1>3, FS_Subset
<1> QED
  BY <1>1, <1>2, <1>4 DEF Matches

\* Of some matches the greatest is among the newest; so the newest are not empty.
LEMMA NewestFound ==
  ASSUME WaitTypeOK, NEW a \in Agent, NEW from \in Nat, NEW limit \in Nat \ {0},
         Matches(a, from) # {}
  PROVE  /\ Newest(a, from, limit) \subseteq Matches(a, from)
         /\ Least(Newest(a, from, limit)) \in Newest(a, from, limit)
         /\ \A i \in Newest(a, from, limit) : Least(Newest(a, from, limit)) <= i
<1> DEFINE M == Matches(a, from)
<1>1. M \subseteq 0..Len(log) /\ Len(log) \in Nat /\ M # {}
  BY MatchesType
<1>2. PICK m \in M : \A k \in M : k <= m
  <2> HIDE DEF M
  <2> QED BY <1>1, GreatestMember
<1>3. {j \in M : j > m} = {}
  BY <1>1, <1>2
<1>4. m \in Newest(a, from, limit)
  BY <1>3, FS_EmptySet DEF Newest
<1>5. Newest(a, from, limit) \subseteq Nat /\ Newest(a, from, limit) \subseteq M
  BY <1>1 DEF Newest
<1> QED
  BY <1>4, <1>5, LeastIsLeast

\* The newest match is past all others.
LEMMA BaselineIsPast ==
  ASSUME WaitTypeOK, NEW a \in Agent
  PROVE  Baseline(a) \in Nat /\ \A i \in Matches(a, 0) : i <= Baseline(a)
<1>1. CASE Matches(a, 0) = {}
  BY <1>1 DEF Baseline
<1>2. CASE Matches(a, 0) # {}
  <2> DEFINE b == Least(Newest(a, 0, 1))
  <2>1. Baseline(a) = b
    BY <1>2 DEF Baseline
  <2>2. b \in Newest(a, 0, 1) /\ b \in Matches(a, 0)
    BY <1>2, NewestFound
  <2>3. Cardinality({j \in Matches(a, 0) : j > b}) < 1
    BY <2>2 DEF Newest
  <2>4. IsFiniteSet({j \in Matches(a, 0) : j > b})
    BY MatchesType, FS_Subset
  <2>5. {j \in Matches(a, 0) : j > b} = {}
    BY <2>3, <2>4, FS_EmptySet, FS_CardinalityType
  <2>6. \A i \in Matches(a, 0) : i \in Nat /\ i <= b
    BY <2>2, <2>5, MatchesType
  <2> QED
    BY <2>1, <2>2, <2>6
<1> QED
  BY <1>1, <1>2

\* What a poll returns is the first match, or there are Limit from it on.
LEMMA PollFirst ==
  ASSUME WaitTypeOK, NEW a \in Agent, NEW from \in Nat, Matches(a, from) # {}
  PROVE  LET e == Least(Newest(a, from, Limit))
         IN /\ e \in Matches(a, from)
            /\ \/ \A i \in Matches(a, from) : i >= e
               \/ Cardinality(Matches(a, e - 1)) >= Limit
<1> DEFINE M == Matches(a, from)
           N == Newest(a, from, Limit)
           e == Least(N)
           earlier == {i \in M : i < e}
<1>1. N \subseteq M /\ e \in N /\ \A i \in N : e <= i
  BY NewestFound, WaitAssumption DEF WaitAssumption
<1>2. M \subseteq 1..Len(log) /\ Len(log) \in Nat /\ IsFiniteSet(M) /\ \A i \in M : i > from
  BY MatchesType
<1>3. CASE earlier = {}
  BY <1>1, <1>2, <1>3
<1>4. CASE earlier # {}
  <2>1. PICK k \in earlier : \A i \in earlier : i <= k
    <3>1. earlier \subseteq 0..Len(log)
      BY <1>2
    <3> HIDE DEF earlier
    <3> QED BY <1>2, <1>4, <3>1, GreatestMember
  <2>2. k \in M /\ k \notin N
    BY <1>1, <1>2, <2>1
  <2>3. ~(Cardinality({j \in M : j > k}) < Limit)
    BY <2>2 DEF Newest
  <2>4. {j \in M : j > k} = Matches(a, e - 1)
    <3>1. e \in Nat /\ e > from /\ \A j \in M : j \in Nat
      BY <1>1, <1>2
    <3>2. \A j \in M : j > k <=> j >= e
      BY <1>2, <2>1, <3>1
    <3>3. Matches(a, e - 1) = {j \in M : j >= e}
      BY <1>2, <3>1 DEF Matches
    <3> QED
      BY <3>2, <3>3
  <2>5. IsFiniteSet({j \in M : j > k})
    BY <1>2, FS_Subset
  <2>6. Cardinality({j \in M : j > k}) \in Nat
    BY <2>5, FS_CardinalityType
  <2>7. Cardinality(Matches(a, e - 1)) >= Limit
    BY <2>3, <2>4, <2>6, WaitAssumption DEF WaitAssumption
  <2> QED
    BY <1>1, <2>7
<1> QED
  BY <1>3, <1>4

-----------------------------------------------------------------------------
(* steps *)

\* A new event is past all ids so far, and hides none.
LEMMA FirstStays ==
  ASSUME NEW table \in Seq([topic: Topic, at: Nat]), NEW e \in [topic: Topic, at: Nat],
         NEW a \in Agent, NEW from \in Nat
  PROVE  /\ In(table, a, from) \subseteq In(Append(table, e), a, from)
         /\ \A given \in Nat :
              First(table, a, from, given) => First(Append(table, e), a, from, given)
<1> DEFINE longer == Append(table, e)
<1>1. /\ Len(table) \in Nat /\ Len(longer) = Len(table) + 1
      /\ \A i \in 1..Len(table) : longer[i] = table[i]
  OBVIOUS
<1> HIDE DEF longer
<1>2. ASSUME NEW n \in Nat
      PROVE  /\ In(table, a, n) \in SUBSET In(longer, a, n)
             /\ \A i \in In(longer, a, n) : i \in In(table, a, n) \/ i = Len(table) + 1
             /\ In(longer, a, n) \in SUBSET (1..Len(longer))
  BY <1>1, <1>2 DEF In
<1>3. ASSUME NEW given \in Nat, First(table, a, from, given)
      PROVE  First(longer, a, from, given)
  <2>1. given \in In(longer, a, from) /\ given \in 1..Len(table)
    BY <1>1, <1>2, <1>3 DEF First, In
  <2>2. CASE \A i \in In(table, a, from) : i >= given
    <3>1. \A i \in In(longer, a, from) : i >= given
      BY <1>1, <1>2, <2>1, <2>2
    <3> QED
      BY <2>1, <3>1 DEF First
  <2>3. CASE Cardinality(In(table, a, given - 1)) >= Limit
    <3>1. given - 1 \in Nat
      BY <1>1, <2>1
    <3> DEFINE short == In(table, a, given - 1)
               long == In(longer, a, given - 1)
    <3>2. short \in SUBSET long /\ long \in SUBSET (1..Len(longer))
      BY <1>2, <3>1
    <3> HIDE DEF short, long
    <3>3. IsFiniteSet(1..Len(longer))
      BY <1>1, FS_Interval
    <3>4. IsFiniteSet(long)
      BY <3>2, <3>3, FS_Subset
    <3>5. Cardinality(short) <= Cardinality(long) /\ IsFiniteSet(short)
      BY <3>2, <3>4, FS_Subset
    <3>6. Cardinality(short) \in Nat /\ Cardinality(long) \in Nat
      BY <3>4, <3>5, FS_CardinalityType
    <3>7. Cardinality(short) >= Limit
      BY <2>3 DEF short
    <3>8. Cardinality(long) >= Limit
      BY <3>5, <3>6, <3>7, WaitAssumption DEF WaitAssumption
    <3> QED
      BY <2>1, <3>8 DEF First, long
  <2> QED
    BY <1>3, <2>2, <2>3 DEF First
<1> QED
  BY <1>2, <1>3 DEF longer

\* A new event is behind everything that was read or given.
LEMMA ArriveKeeps ==
  ASSUME WaitInv, NEW x \in Topic, Arrive(x)
  PROVE  WaitInv'
<1>0. WaitTypeOK /\ GivenBelow
  BY DEF WaitInv
<1> DEFINE e == [topic |-> x, at |-> clock]
<1>1. /\ log' = Append(log, e) /\ e \in [topic: Topic, at: Nat]
      /\ UNCHANGED <<clock, pc, after, deadline, wakeAt, answer, got>>
  BY <1>0 DEF Arrive, waitVars, WaitTypeOK
<1> HIDE DEF e
<1>2. WaitTypeOK'
  BY <1>0, <1>1 DEF WaitTypeOK
<1>3. log \in Seq([topic: Topic, at: Nat]) /\ \A a \in Agent : after[a] \in Nat /\ got[a] \in Nat
  BY <1>0 DEF WaitTypeOK
<1>4. ASSUME NEW a \in Agent
      PROVE  /\ In(log, a, 0) \subseteq In(log', a, 0)
             /\ First(log, a, after[a], got[a]) => First(log', a, after[a], got[a])
  BY <1>1, <1>3, FirstStays
<1>5. GivenBelow'
  BY <1>0, <1>1, <1>4 DEF GivenBelow
<1> QED
  BY <1>2, <1>5 DEF WaitInv

\* Of the steps of a call, the baseline and the poll matter; and a poll that
\* finds an event returns a newer one than before.
LEMMA StepKeeps ==
  ASSUME WaitInv, NEW a \in Agent, Call(a) \/ Step(a) \/ Fail(a)
  PROVE  /\ WaitInv'
         /\ \A b \in Agent : answer'[b] = "event" /\ answer[b] # "event" => got'[b] > got[b]
<1>0. WaitTypeOK /\ GivenBelow
  BY DEF WaitInv
<1>1. clock' = clock /\ log' = log
  BY DEF Call, Step, ReadBase, Check, Poll, Wake, Fail
<1>2. CASE ReadBase(a)
  <2>1. /\ pc[a] = "base" /\ after' = [after EXCEPT ![a] = Baseline(a)]
        /\ pc' = [pc EXCEPT ![a] = "check"] /\ answer' = answer /\ got' = got
    BY <1>2 DEF ReadBase
  <2>2. Baseline(a) \in Nat /\ \A i \in In(log, a, 0) : i <= Baseline(a)
    BY <1>0, BaselineIsPast DEF In, Matches
  <2>3. WaitTypeOK'
    BY <1>0, <1>1, <2>1, <2>2 DEF WaitTypeOK
  <2>4. got[a] <= Baseline(a)
    BY <1>0, <2>2 DEF GivenBelow, WaitTypeOK
  <2>5. GivenBelow'
    <3> SUFFICES ASSUME NEW b \in Agent
                 PROVE  /\ answer[b] = "event"
                            => pc'[b] = "done" /\ First(log, b, after'[b], got[b])
                        /\ got[b] # 0 => got[b] \in In(log, b, 0)
                        /\ pc'[b] \in {"check", "poll", "nap"} => got[b] <= after'[b]
      BY <1>1, <2>1 DEF GivenBelow
    <3>1. CASE b = a
      BY <1>0, <2>1, <2>4, <3>1 DEF GivenBelow, WaitTypeOK
    <3>2. CASE b # a
      BY <1>0, <2>1, <3>2 DEF GivenBelow, WaitTypeOK
    <3> QED
      BY <3>1, <3>2
  <2> QED
    BY <2>1, <2>3, <2>5 DEF WaitInv
<1>3. CASE Poll(a) /\ Matches(a, after[a]) # {}
  <2> DEFINE e == Least(Newest(a, after[a], Limit))
  <2>1. /\ pc[a] = "poll" /\ after' = after /\ pc' = [pc EXCEPT ![a] = "done"]
        /\ answer' = [answer EXCEPT ![a] = "event"] /\ got' = [got EXCEPT ![a] = e]
    BY <1>3 DEF Poll
  <2> HIDE DEF e
  <2>2. after[a] \in Nat
    BY <1>0 DEF WaitTypeOK
  <2>3. First(log, a, after[a], e)
    BY <1>0, <1>3, <2>2, PollFirst DEF First, In, Matches, e
  <2>4. e \in Nat /\ e > after[a] /\ e \in In(log, a, 0)
    BY <1>0, <2>2, <2>3 DEF First, In, WaitTypeOK
  <2>5. got[a] \in Nat /\ e > got[a]
    BY <1>0, <2>1, <2>2, <2>4 DEF GivenBelow, WaitTypeOK
  <2>6. WaitTypeOK'
    BY <1>0, <1>1, <2>1, <2>4 DEF WaitTypeOK
  <2>7. GivenBelow'
    <3> SUFFICES ASSUME NEW b \in Agent
                 PROVE  /\ answer'[b] = "event"
                            => pc'[b] = "done" /\ First(log, b, after[b], got'[b])
                        /\ got'[b] # 0 => got'[b] \in In(log, b, 0)
                        /\ pc'[b] \in {"check", "poll", "nap"} => got'[b] <= after[b]
      BY <1>1, <2>1 DEF GivenBelow
    <3>1. CASE b = a
      BY <1>0, <2>1, <2>3, <2>4, <3>1 DEF WaitTypeOK
    <3>2. CASE b # a
      BY <1>0, <2>1, <3>2 DEF GivenBelow, WaitTypeOK
    <3> QED
      BY <3>1, <3>2
  <2>8. \A b \in Agent : answer'[b] = "event" /\ answer[b] # "event" => got'[b] > got[b]
    BY <1>0, <2>1, <2>5 DEF WaitTypeOK
  <2> QED
    BY <2>6, <2>7, <2>8 DEF WaitInv
<1>4. CASE ~ReadBase(a) /\ ~(Poll(a) /\ Matches(a, after[a]) # {})
  <2>1. /\ after' = after /\ got' = got
        /\ \E p \in {"base", "check", "poll", "nap", "done"},
              w \in {"none", "timeout", "error", answer[a]} :
             /\ pc' = [pc EXCEPT ![a] = p] /\ answer' = [answer EXCEPT ![a] = w]
             /\ p \in {"check", "poll", "nap"} => pc[a] \in {"check", "poll", "nap"}
             /\ w = "event" => pc[a] \in {"check", "poll", "nap", "base"}
    BY <1>0, <1>4 DEF Call, Step, Check, Poll, Wake, Fail, Waiting, WaitTypeOK
  <2>2. WaitTypeOK'
    BY <1>0, <1>1, <2>1 DEF WaitTypeOK
  <2>3. answer[a] = "event" => pc[a] = "done"
    BY <1>0 DEF GivenBelow
  <2>4. ASSUME NEW b \in Agent
        PROVE  /\ answer'[b] = "event" => answer[b] = "event" /\ pc'[b] = "done"
               /\ pc'[b] \in {"check", "poll", "nap"} => pc[b] \in {"check", "poll", "nap"}
    <3>1. CASE b = a
      BY <1>0, <2>1, <2>3, <3>1 DEF WaitTypeOK
    <3>2. CASE b # a
      BY <1>0, <2>1, <3>2 DEF GivenBelow, WaitTypeOK
    <3> QED
      BY <3>1, <3>2
  <2>5. GivenBelow'
    BY <1>0, <1>1, <2>1, <2>4 DEF GivenBelow
  <2> QED
    BY <2>2, <2>4, <2>5 DEF WaitInv
<1> QED
  BY <1>2, <1>3, <1>4

\* Every step keeps WaitInv, and what a call is given is newer than the last.
LEMMA WaitStep ==
  ASSUME WaitInv, [Next]_vars
  PROVE  /\ WaitInv'
         /\ \A a \in Agent : answer'[a] = "event" /\ answer[a] # "event" => got'[a] > got[a]
<1>1. ASSUME NEW x \in Topic, Arrive(x) PROVE WaitInv' /\ answer' = answer
  BY <1>1, ArriveKeeps DEF Arrive, waitVars
<1>2. ASSUME NEW a \in Agent, PublishOwn(a) PROVE WaitInv' /\ answer' = answer
  BY <1>1, <1>2, WaitAssumption DEF PublishOwn, WaitAssumption
<1>3. CASE PublishOutside
  BY <1>1, <1>3, WaitAssumption DEF PublishOutside, WaitAssumption
<1>4. CASE Tick \/ UNCHANGED vars
  <2>1. clock' \in {clock, clock + 1} /\ UNCHANGED <<log, pc, after, answer, got>>
    BY <1>4 DEF Tick, vars, waitVars
  <2>2. WaitTypeOK' /\ GivenBelow'
    BY <2>1 DEF WaitInv, WaitTypeOK, GivenBelow
  <2> QED
    BY <2>1, <2>2 DEF WaitInv
<1>5. ASSUME NEW a \in Agent, Call(a) \/ Step(a) \/ Fail(a)
      PROVE  /\ WaitInv'
             /\ \A b \in Agent : answer'[b] = "event" /\ answer[b] # "event" => got'[b] > got[b]
  BY <1>5, StepKeeps
<1> QED
  BY <1>2, <1>3, <1>4, <1>5 DEF Next

\* Nothing is on the bus and nobody waits.
LEMMA WaitInitInv ==
  Init => WaitInv
  BY DEF Init, WaitInv, WaitTypeOK, GivenBelow

-----------------------------------------------------------------------------
\* A call returns a match that arrived after its baseline, and the first one,
\* unless Limit of them hid the earlier ones.
THEOREM FirstMatchReturned ==
  Spec => []FirstNewMatch
<1>1. WaitInv /\ [Next]_vars => WaitInv'
  BY WaitStep
<1>2. WaitInv => FirstNewMatch
  BY DEF WaitInv, GivenBelow, First, In, FirstNewMatch, Matches
<1> QED
  BY WaitInitInv, <1>1, <1>2, PTL DEF Spec

\* What an agent is given by a call is newer than all it was given before.
THEOREM NeverTwice ==
  Spec => NoEventTwice
<1>1. WaitInv /\ [Next]_vars => WaitInv'
  BY WaitStep
<1>2. WaitInv /\ [Next]_vars =>
        [\A a \in Agent :
           answer'[a] = "event" /\ answer[a] # "event" => got'[a] > got[a]]_vars
  BY WaitStep
<1> QED
  BY WaitInitInv, <1>1, <1>2, PTL DEF Spec, NoEventTwice
=============================================================================
