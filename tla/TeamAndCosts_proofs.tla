------------------------ MODULE TeamAndCosts_proofs ------------------------
(***************************************************************************)
(* Proofs about what the daemon works out from its tables and files: the   *)
(* team that repair_team_graph makes of the PM's answer (TeamGraph), and   *)
(* the role that attribute puts a session down to, and the sums that add   *)
(* makes of them (CostLedger).                                             *)
(*                                                                         *)
(* Both pick a least element, by the order of strings or by the distance   *)
(* in time; the ledger is a fold.  The induction both need is stated for a *)
(* set of numbers, or of subsets, instead of a predicate.                  *)
(*                                                                         *)
(* Every set of names, topics and teams; every set of launches, roles and  *)
(* directories, every slack and lag.                                       *)
(***************************************************************************)
EXTENDS TeamGraph, CostLedger, FiniteSetTheorems, WellFoundedInduction, TLAPS

-----------------------------------------------------------------------------
(* Induction                                                               *)

\* A nonempty set of naturals has a least member.
LEMMA LeastMember ==
  ASSUME NEW S, S \subseteq Nat, S # {}
  PROVE  \E m \in S : \A k \in S : m <= k
<1> DEFINE Less == {x \in Nat \X Nat : x[1] < x[2]}
<1>1. IsWellFoundedOn(Less, Nat)
  BY NatLessThanWellFounded, Zenon DEF OpToRel
<1>2. PICK m \in S : \A k \in S : ~(<<k, m>> \in Less)
  <2> HIDE DEF Less
  <2> QED
    BY <1>1, WFMin
<1>3. ASSUME NEW k \in S
      PROVE  m <= k
  <2>1. m \in Nat /\ k \in Nat
    OBVIOUS
  <2>2. k < m => <<k, m>> \in Less
    BY <2>1
  <2>3. ~(<<k, m>> \in Less)
    BY <1>2, Zenon
  <2> QED
    BY <2>1, <2>2, <2>3
<1> QED
  BY <1>3

\* Induction over the naturals, for a set of them.
LEMMA Steps ==
  ASSUME NEW P, 0 \in P, \A n \in Nat : n \in P => n + 1 \in P
  PROVE  Nat \subseteq P
<1> SUFFICES ASSUME Nat \ P # {}
             PROVE  FALSE
  OBVIOUS
<1>1. PICK m \in Nat \ P : \A k \in Nat \ P : m <= k
  BY LeastMember
<1>2. m # 0 /\ m - 1 \in Nat
  BY <1>1
<1>3. m - 1 \in P
  BY <1>1, <1>2
<1> QED
  BY <1>1, <1>2, <1>3

\* Induction over a finite set, for a set of its subsets.
LEMMA FiniteSteps ==
  ASSUME NEW S, IsFiniteSet(S), NEW P, {} \in P,
         \A s \in SUBSET S, x \in S : s \in P /\ x \notin s => s \cup {x} \in P
  PROVE  S \in P
<1> DEFINE N == {n \in Nat : \A s \in SUBSET S : Cardinality(s) = n => s \in P}
<1>1. \A s \in SUBSET S : IsFiniteSet(s) /\ Cardinality(s) \in Nat
  BY FS_Subset, FS_CardinalityType
<1>2. 0 \in N
  BY <1>1, FS_EmptySet
<1>3. ASSUME NEW n \in Nat, n \in N
      PROVE  n + 1 \in N
  <2> SUFFICES ASSUME NEW s \in SUBSET S, Cardinality(s) = n + 1
               PROVE  s \in P
    OBVIOUS
  <2>1. s # {}
    BY FS_EmptySet
  <2>2. PICK x \in s : TRUE
    BY <2>1
  <2>3. Cardinality(s \ {x}) = n
    <3>1. Cardinality(s \ {x}) = Cardinality(s) - 1
      BY <1>1, <2>2, FS_RemoveElement
    <3> QED
      BY <3>1
  <2>4. s \ {x} \in P /\ (s \ {x}) \cup {x} = s
    BY <1>3, <2>2, <2>3
  <2> QED
    BY <2>2, <2>4
<1>4. Nat \subseteq N
  <2> HIDE DEF N
  <2> QED
    BY <1>2, <1>3, Steps
<1> QED
  BY <1>1, <1>4

\* What is defined by taking a chosen element away, again and again, exists: on
\* a finite set, with values in V.
Folding(S, base, c, h, g) ==
  \A s \in SUBSET S : g[s] = IF s = {} THEN base ELSE h[<<c[s], g[s \ {c[s]}]>>]

LEMMA FoldExists ==
  ASSUME NEW S, IsFiniteSet(S), NEW V, NEW base \in V,
         NEW c, \A s \in SUBSET S : s # {} => c[s] \in s,
         NEW h, \A x \in S, v \in V : h[<<x, v>>] \in V
  PROVE  \E g \in [SUBSET S -> V] : Folding(S, base, c, h, g)
<1> DEFINE Level(n) == {s \in SUBSET S : Cardinality(s) <= n}
           Solves(g, n) ==
             \A s \in Level(n) : g[s] = IF s = {} THEN base ELSE h[<<c[s], g[s \ {c[s]}]>>]
           N == {n \in Nat : \E g \in [Level(n) -> V] : Solves(g, n)}
<1>1. \A s \in SUBSET S : IsFiniteSet(s) /\ Cardinality(s) \in Nat
  BY FS_Subset, FS_CardinalityType
<1>2. 0 \in N
  <2> DEFINE g == [s \in Level(0) |-> base]
  <2>1. \A s \in Level(0) : s = {}
    BY <1>1, FS_EmptySet
  <2>2. g \in [Level(0) -> V] /\ Solves(g, 0)
    BY <2>1
  <2> QED
    BY <2>2
<1>3. ASSUME NEW n \in Nat, n \in N
      PROVE  n + 1 \in N
  <2>1. PICK g \in [Level(n) -> V] : Solves(g, n)
    BY <1>3
  <2> DEFINE next(s) == IF s = {} THEN base ELSE h[<<c[s], g[s \ {c[s]}]>>]
             f == [s \in Level(n + 1) |-> next(s)]
  <2>2. ASSUME NEW s \in Level(n + 1), s # {}
        PROVE  c[s] \in s /\ c[s] \in S /\ s \ {c[s]} \in Level(n) /\ g[s \ {c[s]}] \in V
    <3>1. c[s] \in s /\ c[s] \in S
      BY <2>2
    <3>2. Cardinality(s \ {c[s]}) = Cardinality(s) - 1
      BY <1>1, <3>1, FS_RemoveElement
    <3> QED
      BY <1>1, <2>1, <3>1, <3>2
  <2>3. \A s \in Level(n) : s \in Level(n + 1) /\ f[s] = g[s]
    BY <1>1, <2>1
  <2>4. f \in [Level(n + 1) -> V]
    BY <2>2
  <2>5. Solves(f, n + 1)
    <3> SUFFICES ASSUME NEW s \in Level(n + 1)
                 PROVE  f[s] = IF s = {} THEN base ELSE h[<<c[s], f[s \ {c[s]}]>>]
      OBVIOUS
    <3>1. CASE s = {}
      BY <3>1
    <3>2. CASE s # {}
      <4>1. f[s \ {c[s]}] = g[s \ {c[s]}]
        BY <2>2, <2>3, <3>2
      <4> QED
        BY <3>2, <4>1
    <3> QED
      BY <3>1, <3>2
  <2> HIDE DEF f
  <2>6. \E e \in [Level(n + 1) -> V] : Solves(e, n + 1)
    <3> HIDE DEF Level
    <3> QED
      BY <2>4, <2>5
  <2> HIDE DEF Level, Solves
  <2> QED
    BY <2>6
<1>4. Nat \subseteq N
  <2> HIDE DEF N
  <2> QED
    BY <1>2, <1>3, Steps
<1>5. Level(Cardinality(S)) = SUBSET S /\ Cardinality(S) \in Nat
  BY <1>1, FS_Subset
<1>6. PICK g \in [SUBSET S -> V] : Solves(g, Cardinality(S))
  <2> HIDE DEF Level
  <2> QED
    BY <1>4, <1>5
<1> QED
  BY <1>5, <1>6 DEF Folding

\* The library's listing of a finite set has every member once.
LEMMA SetListed ==
  ASSUME NEW A, IsFiniteSet(A)
  PROVE  /\ Cardinality(A) \in Nat
         /\ SetToSeq(A) \in [1..Cardinality(A) -> A]
         /\ \A i, j \in 1..Cardinality(A) : SetToSeq(A)[i] = SetToSeq(A)[j] => i = j
         /\ SetToSeq(A) \in Surjection(1..Cardinality(A), A)
<1> DEFINE n == Cardinality(A)
<1>1. n \in Nat
  BY FS_CardinalityType
<1>2. PICK f \in Bijection(1..n, A) : TRUE
  BY FS_CardinalityType DEF ExistsBijection
<1>3. f \in [1..n -> A] /\ IsInjective(f)
  BY <1>2 DEF Bijection, Injection
<1>4. SetToSeq(A) \in [1..n -> A] /\ IsInjective(SetToSeq(A))
  BY <1>3 DEF SetToSeq
<1>5. SetToSeq(A) \in Injection(1..n, A)
  BY <1>4 DEF Injection
<1>6. IsFiniteSet(1..n) /\ Cardinality(1..n) = n
  BY <1>1, FS_Interval
<1>7. SetToSeq(A) \in Surjection(1..n, A)
  BY <1>1, <1>5, <1>6, FS_Injection
<1>8. \A i, j \in 1..n : SetToSeq(A)[i] = SetToSeq(A)[j] => i = j
  BY <1>4 DEF IsInjective
<1> QED
  BY <1>1, <1>4, <1>7, <1>8

-----------------------------------------------------------------------------
(* Teams: suffixes                                                         *)

\* s is what t ends with, position by position.
TailOf(s, t) == Len(s) <= Len(t) /\ \A j \in 1..Len(s) : s[j] = t[Len(t) - Len(s) + j]

\* The library's definition says so, by way of reversal ...
LEMMA SuffixIsTail ==
  ASSUME NEW W, NEW s \in Seq(W), NEW t \in Seq(W)
  PROVE  IsSuffix(s, t) <=> TailOf(s, t)
<1> DEFINE m == Len(s)
           n == Len(t)
           rs == Reverse(s)
           rt == Reverse(t)
<1>1. m \in Nat /\ n \in Nat
  OBVIOUS
<1>2. /\ rs \in Seq(W) /\ Len(rs) = m /\ \A i \in 1..m : rs[i] = s[(m - i) + 1]
      /\ rt \in Seq(W) /\ Len(rt) = n /\ \A i \in 1..n : rt[i] = t[(n - i) + 1]
  BY DEF Reverse
<1> HIDE DEF rs, rt
<1>3. IsSuffix(s, t) <=> IsPrefix(rs, rt)
  BY DEF IsSuffix, rs, rt
<1>4. IsPrefix(rs, rt) <=> m <= n /\ SubSeq(rs, 1, m) = SubSeq(rt, 1, m)
  BY <1>2 DEF IsPrefix
<1>5. ASSUME m <= n
      PROVE  SubSeq(rs, 1, m) = SubSeq(rt, 1, m) <=> \A i \in 1..m : rs[i] = rt[i]
  <2>1. SubSeq(rs, 1, m) \in Seq(W) /\ Len(SubSeq(rs, 1, m)) = m
        /\ \A i \in 1..m : SubSeq(rs, 1, m)[i] = rs[i]
    BY <1>1, <1>2
  <2>2. SubSeq(rt, 1, m) \in Seq(W) /\ Len(SubSeq(rt, 1, m)) = m
        /\ \A i \in 1..m : SubSeq(rt, 1, m)[i] = rt[i]
    BY <1>1, <1>2, <1>5
  <2> QED
    BY <2>1, <2>2
<1>6. ASSUME m <= n
      PROVE  (\A i \in 1..m : rs[i] = rt[i]) <=> \A j \in 1..m : s[j] = t[n - m + j]
  <2>1. ASSUME \A i \in 1..m : rs[i] = rt[i], NEW j \in 1..m
        PROVE  s[j] = t[n - m + j]
    <3>1. (m - j) + 1 \in 1..m /\ (m - j) + 1 \in 1..n
      BY <1>1, <1>6
    <3>2. rs[(m - j) + 1] = rt[(m - j) + 1]
      BY <2>1, <3>1
    <3>3. (m - ((m - j) + 1)) + 1 = j /\ (n - ((m - j) + 1)) + 1 = n - m + j
      BY <1>1
    <3> QED
      BY <1>2, <3>1, <3>2, <3>3
  <2>2. ASSUME \A j \in 1..m : s[j] = t[n - m + j], NEW i \in 1..m
        PROVE  rs[i] = rt[i]
    <3>1. i \in 1..n /\ (m - i) + 1 \in 1..m /\ n - m + ((m - i) + 1) = (n - i) + 1
      BY <1>1, <1>6
    <3> QED
      BY <1>2, <2>2, <3>1
  <2> QED
    BY <2>1, <2>2
<1> QED
  BY <1>3, <1>4, <1>5, <1>6 DEF TailOf

\* ... and so does EndsWith, for what is not empty.
LEMMA EndsWithIsTail ==
  ASSUME NEW W, NEW s \in Seq(W), s # <<>>, NEW t \in Seq(W)
  PROVE  EndsWith(t, s) <=> TailOf(s, t)
<1> DEFINE m == Len(s)
           n == Len(t)
<1>1. m \in Nat /\ n \in Nat /\ m >= 1
  OBVIOUS
<1>2. ASSUME NEW i \in 1..n
      PROVE  /\ SubSeq(t, i, n) \in Seq(W) /\ Len(SubSeq(t, i, n)) = n - i + 1
             /\ \A j \in 1..(n - i + 1) : SubSeq(t, i, n)[j] = t[i + j - 1]
  BY <1>1
<1>3. ASSUME NEW i \in 1..n, SubSeq(t, i, n) = s
      PROVE  TailOf(s, t)
  <2>1. m = n - i + 1 /\ m <= n /\ \A j \in 1..m : s[j] = t[i + j - 1]
    <3> DEFINE u == SubSeq(t, i, n)
    <3>1. u = s /\ Len(u) = n - i + 1 /\ \A j \in 1..(n - i + 1) : u[j] = t[i + j - 1]
      BY <1>2, <1>3
    <3> HIDE DEF u
    <3>2. m = n - i + 1 /\ \A j \in 1..m : s[j] = t[i + j - 1]
      BY <3>1
    <3> QED
      BY <1>1, <3>2
  <2>2. ASSUME NEW j \in 1..m
        PROVE  s[j] = t[n - m + j]
    <3>1. i + j - 1 = n - m + j
      BY <1>1, <2>1
    <3> QED
      BY <2>1, <3>1
  <2> QED
    BY <2>1, <2>2 DEF TailOf
<1>4. ASSUME TailOf(s, t)
      PROVE  \E i \in 1..n : SubSeq(t, i, n) = s
  <2> DEFINE i == n - m + 1
  <2>1. m <= n /\ i \in 1..n /\ n - i + 1 = m
    BY <1>1, <1>4 DEF TailOf
  <2>2. ASSUME NEW j \in 1..m
        PROVE  SubSeq(t, i, n)[j] = s[j]
    <3>1. i + j - 1 = n - m + j
      BY <1>1
    <3> QED
      BY <1>2, <1>4, <2>1, <3>1 DEF TailOf
  <2>3. SubSeq(t, i, n) \in Seq(W) /\ Len(SubSeq(t, i, n)) = Len(s)
    BY <1>2, <2>1
  <2> HIDE DEF i
  <2>4. SubSeq(t, i, n) = s
    <3> DEFINE u == SubSeq(t, i, n)
    <3> HIDE DEF u
    <3>1. u \in Seq(W) /\ Len(u) = Len(s) /\ \A j \in 1..Len(s) : u[j] = s[j]
      BY <2>2, <2>3 DEF u
    <3>2. u = s
      BY <3>1
    <3> QED
      BY <3>2 DEF u
  <2> QED
    BY <2>1, <2>4
<1> QED
  BY <1>3, <1>4 DEF EndsWith

\* Hence a topic is related to another one exactly if they are alike.
LEMMA RelatedIsAlike ==
  ASSUME NEW sub \in Topic, NEW p \in Topic
  PROVE  /\ Alike(sub, p) <=> sub = p \/ Related(sub, p)
         /\ Alike(sub, sub)
<1>1. sub \in Seq(Word) /\ sub # <<>> /\ p \in Seq(Word) /\ p # <<>>
  BY GraphAssumption
<1>2. TailOf(sub, sub) /\ TailOf(p, p)
  BY <1>1 DEF TailOf
<1>3. ASSUME Len(sub) >= 2
      PROVE  LastTwo(sub) \in Seq(Word) /\ LastTwo(sub) # <<>>
  <2>1. Len(sub) - 1 \in 1..Len(sub) /\ Len(sub) \in Nat
    BY <1>1, <1>3
  <2>2. LastTwo(sub) \in Seq(Word) /\ Len(LastTwo(sub)) = 2
    BY <1>1, <2>1 DEF LastTwo
  <2> DEFINE two == LastTwo(sub)
  <2>3. two \in Seq(Word) /\ Len(two) > 0
    BY <2>2
  <2> HIDE DEF two
  <2>4. two # <<>>
    BY <2>3
  <2> QED
    BY <2>2, <2>4 DEF two
<1>4. /\ IsSuffix(sub, p) <=> EndsWith(p, sub)
      /\ IsSuffix(p, sub) <=> EndsWith(sub, p)
      /\ EndsWith(sub, sub) /\ EndsWith(p, p)
  BY <1>1, <1>2, SuffixIsTail, EndsWithIsTail
<1>5. Len(sub) >= 2 => (IsSuffix(LastTwo(sub), p) <=> EndsWith(p, LastTwo(sub)))
  BY <1>1, <1>3, SuffixIsTail, EndsWithIsTail
<1> QED
  BY <1>4, <1>5 DEF Alike, Related, IsStrictSuffix

-----------------------------------------------------------------------------
(* Teams: what the repair makes of them                                    *)

\* The order of String::sort has a first of any topics there are.
LEMMA FirstOfThem ==
  ASSUME NEW topics, topics \subseteq Topic, topics # {}
  PROVE  FirstOf(topics) \in topics
<1> DEFINE R == {Rank[p] : p \in topics}
<1>1. R \subseteq Nat /\ R # {}
  BY GraphAssumption
<1>2. PICK m \in R : \A k \in R : m <= k
  <2> HIDE DEF R
  <2> QED
    BY <1>1, LeastMember
<1>3. PICK p \in topics : Rank[p] = m
  OBVIOUS
<1>4. \A q \in topics : Rank[p] <= Rank[q]
  BY <1>2, <1>3
<1> QED
  BY <1>4 DEF FirstOf

\* find_producer: equal, or related; nothing only when nothing is.
LEMMA ProducerFound ==
  ASSUME NEW sub \in Topic, NEW published, published \subseteq Topic
  PROVE  \/ /\ FindProducer(sub, published) \in published
            /\ Alike(sub, FindProducer(sub, published))
         \/ /\ FindProducer(sub, published) = NoTopic
            /\ \A p \in published : ~Alike(sub, p)
<1> DEFINE related == {p \in published : Related(sub, p)}
<1>1. FindProducer(sub, published) =
        IF sub \in published THEN sub
        ELSE IF related = {} THEN NoTopic ELSE FirstOf(related)
  BY DEF FindProducer
<1>2. related # {} => FirstOf(related) \in related
  BY FirstOfThem
<1>3. \A p \in published : Alike(sub, p) <=> sub = p \/ Related(sub, p)
  BY RelatedIsAlike
<1>4. CASE sub \in published
  BY <1>1, <1>4, RelatedIsAlike
<1>5. CASE sub \notin published /\ related = {}
  BY <1>1, <1>3, <1>5
<1>6. CASE sub \notin published /\ related # {}
  BY <1>1, <1>2, <1>3, <1>6
<1> QED
  BY <1>4, <1>5, <1>6

\* The team is what the repair makes of what was asked for.
GraphInv ==
  /\ asked \in [Name -> Topics]
  /\ team = Repaired(asked)

\* It always is.
LEMMA GraphInvariant == GraphSpec => []GraphInv
<1>1. GraphInit => GraphInv
  <2> SUFFICES ASSUME GraphInit
               PROVE  GraphInv
    OBVIOUS
  <2>1. [pubs |-> {}, subs |-> {}] \in Topics
    BY DEF Topics
  <2>2. asked = NoTeam /\ team = NoTeam /\ NoTeam \in [Name -> Topics]
    BY <2>1 DEF GraphInit, NoTeam
  <2>3. \A n \in Name : asked[n].pubs = {} /\ asked[n].subs = {}
    BY <2>2 DEF NoTeam
  <2>4. Repaired(asked) = NoTeam
    BY <2>3 DEF Repaired, Rewritten, NoTeam
  <2> QED
    BY <2>2, <2>4 DEF GraphInv
<1>2. GraphInv /\ [GraphNext]_graphVars => GraphInv'
  <2> SUFFICES ASSUME GraphInv, [GraphNext]_graphVars
               PROVE  GraphInv'
    OBVIOUS
  <2>1. ASSUME NEW raw \in RawTeam \cup NextTeam,
               ProposeProject(raw) \/ RefineProposal(raw) \/ ApplyTeam(raw)
        PROVE  GraphInv'
    <3>1. raw \in [Name -> Topics]
      BY GraphAssumption
    <3> QED
      BY <2>1, <3>1 DEF GraphInv, ProposeProject, RefineProposal, ApplyTeam, PmAnswers
  <2>2. CASE ScaffoldProject \/ UNCHANGED graphVars
    BY <2>2 DEF GraphInv, ScaffoldProject, graphVars
  <2> QED
    BY <2>1, <2>2 DEF GraphNext
<1> QED
  BY <1>1, <1>2, PTL DEF GraphSpec

\* What is known of a repaired team: its publishes are those asked for, spelled
\* neatly, its subscribes what Kept made of those asked for.
LEMMA TeamIsRepaired ==
  ASSUME GraphInv
  PROVE  /\ Published(asked) \subseteq Topic
         /\ \A n \in Name :
              /\ asked[n].pubs \subseteq Spelling /\ asked[n].subs \subseteq Spelling
              /\ team[n].pubs = {Neat(s.topic) : s \in asked[n].pubs}
              /\ team[n].subs = {k \in {Neat(Kept(s.topic, Published(asked))) : s \in asked[n].subs} :
                                    k.topic # NoTopic}
<1>1. \A n \in Name : asked[n].pubs \subseteq Spelling /\ asked[n].subs \subseteq Spelling
  BY DEF GraphInv, Topics
<1>2. Published(asked) \subseteq Topic
  BY <1>1 DEF Published, Spelling
<1>3. ASSUME NEW n \in Name
      PROVE  /\ team[n].pubs = {NormTopic(s) : s \in asked[n].pubs}
             /\ team[n].subs =
                  {s \in Rewritten({NormTopic(s) : s \in asked[n].subs}, Published(asked)) :
                     s.topic # NoTopic}
  BY DEF GraphInv, Repaired
<1>4. ASSUME NEW x, NEW y
      PROVE  [Neat(x) EXCEPT !.topic = y] = Neat(y) /\ Neat(x).topic = x
  BY DEF Neat
<1>5. ASSUME NEW n \in Name
      PROVE  Rewritten({NormTopic(s) : s \in asked[n].subs}, Published(asked)) =
               {Neat(Kept(s.topic, Published(asked))) : s \in asked[n].subs}
  <2>1. Rewritten({NormTopic(s) : s \in asked[n].subs}, Published(asked)) =
          {[k EXCEPT !.topic = Kept(k.topic, Published(asked))] :
             k \in {Neat(s.topic) : s \in asked[n].subs}}
    BY DEF Rewritten, NormTopic
  <2>2. @ = {[Neat(s.topic) EXCEPT !.topic = Kept(Neat(s.topic).topic, Published(asked))] :
               s \in asked[n].subs}
    OBVIOUS
  <2>3. @ = {Neat(Kept(s.topic, Published(asked))) : s \in asked[n].subs}
    BY <1>4
  <2> QED
    BY <2>1, <2>2, <2>3
<1> QED
  BY <1>1, <1>2, <1>3, <1>5 DEF NormTopic

\* What Kept makes of a subscription, case by case.
LEMMA KeptCases ==
  ASSUME NEW sub \in Topic, NEW published, published \subseteq Topic
  PROVE  \/ sub \in External \cup published /\ Kept(sub, published) = sub
         \/ /\ sub \notin External \cup published
            /\ Kept(sub, published) \in published /\ Alike(sub, Kept(sub, published))
         \/ /\ sub \notin External \cup published
            /\ Kept(sub, published) = NoTopic /\ \A p \in published : ~Alike(sub, p)
  BY ProducerFound DEF Kept

-----------------------------------------------------------------------------
(* Teams: the theorems                                                     *)

\* Whatever the PM comes up with, in however many rounds: every subscription of
\* the team is produced by a role, spelled alike, or comes from outside.
THEOREM NoDeadSubscriptions == GraphSpec => []EverySubscriptionProduced
<1>1. GraphInv => EverySubscriptionProduced
  <2> SUFFICES ASSUME GraphInv, NEW n \in Name, NEW k \in team[n].subs
               PROVE  k.topic \in External \/ \E m \in Name : k \in team[m].pubs
    BY DEF EverySubscriptionProduced
  <2> DEFINE P == Published(asked)
  <2>1. PICK s \in asked[n].subs : k = Neat(Kept(s.topic, P)) /\ k.topic # NoTopic
    BY TeamIsRepaired
  <2>2. s.topic \in Topic /\ P \subseteq Topic /\ k.topic = Kept(s.topic, P)
    BY <2>1, TeamIsRepaired DEF Spelling, Neat
  <2>3. k.topic \in External \/ k.topic \in P
    BY <2>1, <2>2, KeptCases
  <2>4. ASSUME k.topic \in P
        PROVE  \E m \in Name : k \in team[m].pubs
    <3>1. PICK m \in Name : \E q \in asked[m].pubs : q.topic = k.topic
      BY <2>4 DEF Published
    <3>2. Neat(k.topic) \in team[m].pubs
      BY <3>1, TeamIsRepaired
    <3> QED
      BY <2>1, <2>2, <3>2
  <2> QED
    BY <2>3, <2>4
<1> QED
  BY <1>1, GraphInvariant, PTL

\* The repair drops no subscription that something could serve, and invents
\* none.
THEOREM NothingWantedLost == GraphSpec => []NothingWantedIsDropped
<1>1. GraphInv => NothingWantedIsDropped
  <2> SUFFICES ASSUME GraphInv, NEW n \in Name
               PROVE  /\ \A s \in asked[n].subs :
                           \/ \E k \in team[n].subs : Alike(s.topic, k.topic)
                           \/ /\ s.topic \notin External
                              /\ \A p \in Published(asked) : ~Alike(s.topic, p)
                      /\ \A k \in team[n].subs : \E s \in asked[n].subs : Alike(s.topic, k.topic)
    BY DEF NothingWantedIsDropped
  <2> DEFINE P == Published(asked)
  <2>1. P \subseteq Topic /\ NoTopic \notin Topic
    BY TeamIsRepaired, GraphAssumption
  <2>2. ASSUME NEW s \in asked[n].subs
        PROVE  s.topic \in Topic /\ (Kept(s.topic, P) # NoTopic => Alike(s.topic, Kept(s.topic, P)))
    <3>1. s.topic \in Topic
      BY TeamIsRepaired DEF Spelling
    <3> QED
      BY <2>1, <3>1, KeptCases, RelatedIsAlike
  <2>3. ASSUME NEW s \in asked[n].subs
        PROVE  \/ \E k \in team[n].subs : Alike(s.topic, k.topic)
               \/ s.topic \notin External /\ \A p \in P : ~Alike(s.topic, p)
    <3> DEFINE k == Neat(Kept(s.topic, P))
    <3>1. k.topic = Kept(s.topic, P)
      BY DEF Neat
    <3>2. CASE Kept(s.topic, P) # NoTopic
      <4>1. k \in team[n].subs
        BY <3>1, <3>2, TeamIsRepaired
      <4> QED
        BY <2>2, <3>1, <3>2, <4>1
    <3>3. CASE Kept(s.topic, P) = NoTopic
      BY <2>1, <2>2, <3>3, KeptCases
    <3> QED
      BY <3>2, <3>3
  <2>4. ASSUME NEW k \in team[n].subs
        PROVE  \E s \in asked[n].subs : Alike(s.topic, k.topic)
    <3>1. PICK s \in asked[n].subs : k = Neat(Kept(s.topic, P)) /\ k.topic # NoTopic
      BY TeamIsRepaired
    <3>2. k.topic = Kept(s.topic, P)
      BY <3>1 DEF Neat
    <3> QED
      BY <2>2, <3>1, <3>2
  <2> QED
    BY <2>3, <2>4
<1> QED
  BY <1>1, GraphInvariant, PTL

\* Publishing a declared topic wakes every other role that asked for it, and
\* besides those only roles that asked for something alike without a producer.
THEOREM RightRolesWoken == GraphSpec => []WokenAsAsked
<1>1. GraphInv => WokenAsAsked
  <2> SUFFICES ASSUME GraphInv, NEW n \in Name, NEW e \in Spelling, Lowered(e) \in team[n].pubs
               PROVE  /\ {m \in Name \ {n} : \E s \in asked[m].subs : s.topic = e.topic}
                           \subseteq Woken(n, e)
                      /\ \A m \in Woken(n, e) : \E s \in asked[m].subs :
                           \/ s.topic = e.topic
                           \/ Alike(s.topic, e.topic) /\ s.topic \notin Published(asked)
    BY DEF WokenAsAsked
  <2> DEFINE P == Published(asked)
  <2>0. \A x, y : Neat(x).topic = x /\ Lowered(Neat(x)) = Neat(x) /\ (Neat(x) = Neat(y) => x = y)
    BY DEF Neat, Lowered
  <2>1. PICK q \in asked[n].pubs : Lowered(e) = Neat(q.topic)
    BY TeamIsRepaired
  <2>2. Lowered(e).topic = e.topic
    BY <2>0 DEF Lowered
  <2>3. e.topic \in P /\ e.topic \in Topic /\ Lowered(e) = Neat(e.topic)
    BY <2>0, <2>1, <2>2, TeamIsRepaired DEF Published, Spelling
  <2>4. P \subseteq Topic /\ NoTopic \notin Topic
    BY TeamIsRepaired, GraphAssumption
  <2>5. ASSUME NEW m \in Name \ {n}, NEW s \in asked[m].subs, s.topic = e.topic
        PROVE  m \in Woken(n, e)
    <3>1. Kept(s.topic, P) = e.topic
      BY <2>3, <2>5 DEF Kept
    <3>2. Neat(e.topic).topic # NoTopic
      BY <2>0, <2>3, <2>4
    <3>3. Neat(e.topic) \in team[m].subs
      BY <3>1, <3>2, TeamIsRepaired
    <3> QED
      BY <2>0, <2>3, <3>3 DEF Woken
  <2>6. ASSUME NEW m \in Woken(n, e)
        PROVE  \E s \in asked[m].subs :
                 s.topic = e.topic \/ (Alike(s.topic, e.topic) /\ s.topic \notin P)
    <3>1. PICK sub \in team[m].subs : Lowered(sub) = Lowered(e)
      BY DEF Woken
    <3>2. m \in Name
      BY DEF Woken
    <3>3. PICK s \in asked[m].subs : sub = Neat(Kept(s.topic, P))
      BY <3>2, TeamIsRepaired
    <3>4. Kept(s.topic, P) = e.topic /\ s.topic \in Topic
      BY <2>0, <2>3, <3>1, <3>2, <3>3, TeamIsRepaired DEF Spelling
    <3> QED
      BY <2>3, <2>4, <3>4, KeptCases
  <2> QED
    BY <2>5, <2>6 DEF Woken
<1> QED
  BY <1>1, GraphInvariant, PTL

-----------------------------------------------------------------------------
(* Costs: the nearest launch                                               *)

\* Of any terminals one is nearest, whatever ties there are in distance and in
\* time of launch.
LEMMA NearestExists ==
  ASSUME NEW terms, NEW I, I \subseteq Nat, I # {},
         \A i \in I : terms[i].created \in Int, NEW t \in Int
  PROVE  \E i \in I : \A j \in I : Nearer(terms, i, j, t)
<1> DEFINE D(i) == Apart(t, terms[i].created)
           Ds == {D(i) : i \in I}
<1>1. ASSUME NEW i \in I
      PROVE  D(i) \in Nat
  <2>1. terms[i].created \in Int
    OBVIOUS
  <2> QED
    BY <2>1 DEF Apart
<1>2. PICK d \in Ds : \A e \in Ds : d <= e
  <2>1. Ds \subseteq Nat /\ Ds # {}
    BY <1>1
  <2> HIDE DEF Ds
  <2> QED
    BY <2>1, LeastMember
<1> DEFINE I1 == {i \in I : D(i) = d}
           L(i) == t + d - terms[i].created
           Ls == {L(i) : i \in I1}
<1>3. d \in Nat /\ I1 # {} /\ \A i \in I : d <= D(i)
  BY <1>1, <1>2
<1>4. \A i \in I1 : L(i) \in Nat
  <2> SUFFICES ASSUME NEW i \in I1
               PROVE  L(i) \in Nat
    OBVIOUS
  <2>1. terms[i].created \in Int /\ Apart(t, terms[i].created) = d
    OBVIOUS
  <2> QED
    BY <2>1 DEF Apart
<1>5. PICK c \in Ls : \A e \in Ls : c <= e
  <2>1. Ls \subseteq Nat /\ Ls # {}
    BY <1>3, <1>4
  <2> HIDE DEF Ls
  <2> QED
    BY <2>1, LeastMember
<1> DEFINE I2 == {i \in I1 : L(i) = c}
<1>6. I2 # {} /\ I2 \subseteq Nat /\ \A i \in I1 : c <= L(i)
  BY <1>5
<1>7. PICK k \in I2 : \A i \in I2 : k <= i
  <2> HIDE DEF I2
  <2> QED
    BY <1>6, LeastMember
<1>8. ASSUME NEW j \in I
      PROVE  Nearer(terms, k, j, t)
  <2>1. terms[k].created \in Int /\ terms[j].created \in Int /\ k \in I /\ D(k) = d /\ L(k) = c
    OBVIOUS
  <2>2. d <= D(j) /\ D(j) \in Nat
    BY <1>1, <1>3
  <2>3. CASE d < D(j)
    BY <2>1, <2>3 DEF Nearer
  <2>4. CASE D(j) = d /\ c < L(j)
    <3>1. terms[k].created > terms[j].created
      BY <1>3, <2>1, <2>4
    <3> QED
      BY <2>1, <2>4, <3>1 DEF Nearer
  <2>5. CASE D(j) = d /\ c = L(j)
    <3>1. terms[k].created = terms[j].created
      BY <1>3, <2>1, <2>5
    <3>2. j \in I2
      BY <2>5
    <3>3. k <= j
      BY <1>7, <3>2
    <3> QED
      BY <2>1, <2>5, <3>1, <3>3 DEF Nearer
  <2>6. D(j) = d => c <= L(j)
    BY <1>6
  <2>7. c \in Nat /\ (D(j) = d => L(j) \in Nat)
    BY <1>4, <2>1
  <2> HIDE DEF D, L
  <2>8. d < D(j) \/ D(j) = d
    BY <1>3, <2>2
  <2>9. D(j) = d => c < L(j) \/ c = L(j)
    BY <2>6, <2>7
  <2> QED
    BY <2>3, <2>4, <2>5, <2>8, <2>9
<1> QED
  BY <1>8

\* Only one is.
LEMMA NearestUnique ==
  ASSUME NEW terms, NEW i \in Nat, NEW j \in Nat, NEW t \in Int,
         terms[i].created \in Int, terms[j].created \in Int,
         Nearer(terms, i, j, t), Nearer(terms, j, i, t)
  PROVE  i = j
<1>1. Apart(t, terms[i].created) \in Nat /\ Apart(t, terms[j].created) \in Nat
  BY DEF Apart
<1> QED
  BY <1>1 DEF Nearer

\* So what attribute answers is the role of the nearest one.
LEMMA AttributeNearest ==
  ASSUME NEW terms, DOMAIN terms \subseteq Nat, NEW t \in Int,
         \A i \in DOMAIN terms : terms[i].created \in Int
  PROVE  LET inside == {i \in DOMAIN terms : Window(terms[i], t)}
         IN  \/ inside = {} /\ Attribute(terms, t) = Nobody
             \/ \E i \in inside : /\ \A j \in inside : Nearer(terms, i, j, t)
                                  /\ Attribute(terms, t) = PlanOf[terms[i].launch].role
<1> DEFINE inside == {i \in DOMAIN terms : Window(terms[i], t)}
           nearest == CHOOSE i \in inside : \A j \in inside : Nearer(terms, i, j, t)
<1>1. Attribute(terms, t) = IF inside = {} THEN Nobody ELSE PlanOf[terms[nearest].launch].role
  BY DEF Attribute
<1>2. inside # {} => nearest \in inside /\ \A j \in inside : Nearer(terms, nearest, j, t)
  <2> SUFFICES ASSUME inside # {}
               PROVE  nearest \in inside /\ \A j \in inside : Nearer(terms, nearest, j, t)
    OBVIOUS
  <2>1. inside \subseteq Nat /\ \A i \in inside : terms[i].created \in Int
    OBVIOUS
  <2> HIDE DEF inside
  <2>2. \E i \in inside : \A j \in inside : Nearer(terms, i, j, t)
    BY <2>1, NearestExists
  <2> QED
    BY <2>2
<1> QED
  BY <1>1, <1>2

\* Two tables that agree on who was there agree on whose session it was.
LEMMA SameAttribution ==
  ASSUME NEW terms, NEW others, NEW t \in Int,
         DOMAIN terms \subseteq Nat, DOMAIN others \subseteq Nat,
         \A i \in DOMAIN terms : terms[i].created \in Int,
         \A i \in DOMAIN others : others[i].created \in Int,
         {i \in DOMAIN terms : Window(terms[i], t)} = {i \in DOMAIN others : Window(others[i], t)},
         \A i \in DOMAIN terms : Window(terms[i], t) =>
           terms[i].created = others[i].created /\ terms[i].launch = others[i].launch
  PROVE  Attribute(terms, t) = Attribute(others, t)
<1> DEFINE inside == {i \in DOMAIN terms : Window(terms[i], t)}
<1>1. inside = {i \in DOMAIN others : Window(others[i], t)} /\ inside \subseteq Nat
      /\ \A i \in inside : /\ terms[i].created = others[i].created
                           /\ terms[i].launch = others[i].launch /\ terms[i].created \in Int
  OBVIOUS
<1>2. \/ inside = {} /\ Attribute(terms, t) = Nobody
      \/ \E i \in inside : /\ \A j \in inside : Nearer(terms, i, j, t)
                           /\ Attribute(terms, t) = PlanOf[terms[i].launch].role
  BY AttributeNearest
<1>3. \/ inside = {} /\ Attribute(others, t) = Nobody
      \/ \E i \in inside : /\ \A j \in inside : Nearer(others, i, j, t)
                           /\ Attribute(others, t) = PlanOf[others[i].launch].role
  BY <1>1, AttributeNearest
<1> HIDE DEF inside
<1>4. CASE inside = {}
  BY <1>2, <1>3, <1>4
<1>5. CASE inside # {}
  <2>1. PICK i \in inside : /\ \A j \in inside : Nearer(terms, i, j, t)
                            /\ Attribute(terms, t) = PlanOf[terms[i].launch].role
    BY <1>2, <1>5
  <2>2. PICK k \in inside : /\ \A j \in inside : Nearer(others, k, j, t)
                            /\ Attribute(others, t) = PlanOf[others[k].launch].role
    BY <1>3, <1>5
  <2>3. Nearer(terms, i, k, t) /\ Nearer(terms, k, i, t)
    BY <1>1, <2>1, <2>2 DEF Nearer
  <2>4. i = k
    BY <1>1, <2>3, NearestUnique
  <2> QED
    BY <1>1, <2>1, <2>2, <2>4
<1> QED
  BY <1>4, <1>5

-----------------------------------------------------------------------------
(* Costs: where a history can be                                           *)

\* Times, and the rows of the table.
Instant == Int \cup {NoTime}
TermRow == [launch: Launch, created: Int, closed: Instant]

CostTypes ==
  /\ now \in Nat
  /\ launch \in [Launch -> Instant]
  /\ rows \in Seq(TermRow)
  /\ session \in [Launch -> [start: Instant, mtime: Instant, lines: Seq(Nat)]]
  /\ writes \in [Launch -> Launch \cup {Nowhere, Latest}]

\* A child that has no row yet was launched no longer ago than MaxLag.
LaunchesInv ==
  \A l \in Launch : launch[l] # NoTime =>
    launch[l] <= now /\ (RowOf(l) = {} => now <= launch[l] + MaxLag)

\* Hence a row is not much later than its launch.
RowsInv ==
  \A i \in DOMAIN rows :
    LET at == launch[rows[i].launch] IN
      at # NoTime /\ at <= rows[i].created /\ rows[i].created <= at + MaxLag

\* A session begins between the launch of its terminal and the end of it. Of
\* codex's it is written only then.
SessionsInv ==
  \A l \in Launch : session[l] # NoSession =>
    /\ launch[l] # NoTime /\ session[l].start # NoTime /\ session[l].mtime # NoTime
    /\ launch[l] <= session[l].start /\ session[l].start <= session[l].mtime /\ session[l].mtime <= now
    /\ \A i \in RowOf(l) : rows[i].closed # NoTime =>
         /\ session[l].start <= rows[i].closed
         /\ PlanOf[l].vendor = "codex" => session[l].mtime <= rows[i].closed

\* A launch writes to a session there is, and to another's only with claude.
WritesInv ==
  \A l \in Launch : writes[l] \in Launch =>
    /\ session[writes[l]] # NoSession
    /\ writes[l] # l => PlanOf[writes[l]].vendor = "claude"

\* A row of the table is a row.
LEMMA RowType ==
  ASSUME CostTypes, NEW i \in DOMAIN rows
  PROVE  /\ i \in Nat /\ rows[i] \in TermRow
         /\ rows[i].created \in Int /\ rows[i].launch \in Launch /\ rows[i].closed \in Instant
<1>1. rows \in Seq(TermRow)
  BY DEF CostTypes
<1>2. i \in Nat /\ rows[i] \in TermRow
  BY <1>1
<1> QED
  BY <1>2 DEF TermRow

CostInv == CostTypes /\ LaunchesInv /\ RowsInv /\ SessionsInv /\ WritesInv

\* The table begins with one row for each of the earlier launches.
LEMMA EarlierListed ==
  /\ Cardinality(Earlier) \in Nat
  /\ SetToSeq(Earlier) \in [1..Cardinality(Earlier) -> Earlier]
  /\ SetToSeq(Earlier) \in Surjection(1..Cardinality(Earlier), Earlier)
<1>1. IsFiniteSet(Earlier)
  BY CostAssumption, FS_Subset
<1> QED
  BY <1>1, SetListed

\* The history begins with the earlier launches over, and nothing else.
LEMMA CostInvInit == CostInit => CostInv
<1> SUFFICES ASSUME CostInit
             PROVE  CostInv
  OBVIOUS
<1> DEFINE n == Cardinality(Earlier)
           row(i) == [launch |-> SetToSeq(Earlier)[i], created |-> Past, closed |-> Past]
           old == [start |-> Past, mtime |-> Past, lines |-> <<1>>]
<1> PICK begun \in SUBSET Earlier :
      /\ session = [l \in Launch |-> IF l \in begun THEN old ELSE NoSession]
      /\ writes = [l \in Launch |-> IF l \in begun THEN l ELSE Nowhere]
  BY DEF CostInit
<1>1. /\ now = 0
      /\ launch = [l \in Launch |-> IF l \in Earlier THEN Past ELSE NoTime]
      /\ rows = [i \in 1..n |-> row(i)]
      /\ session = [l \in Launch |-> IF l \in begun THEN old ELSE NoSession]
      /\ writes = [l \in Launch |-> IF l \in begun THEN l ELSE Nowhere]
  BY DEF CostInit
<1>2. /\ Past \in Int /\ Past < 0 /\ Earlier \subseteq Launch /\ MaxLag \in Nat /\ NoTime \notin Int
      /\ Nowhere \notin Launch
  BY CostAssumption DEF Past
<1> HIDE DEF Past
<1>3. n \in Nat /\ \A i \in 1..n : SetToSeq(Earlier)[i] \in Earlier
  BY EarlierListed
<1>4. \A i \in 1..n : row(i) \in TermRow /\ row(i).launch \in Earlier
                      /\ row(i).created = Past /\ row(i).closed = Past
  BY <1>2, <1>3 DEF TermRow, Instant
<1>5. /\ old \in [start: Instant, mtime: Instant, lines: Seq(Nat)]
      /\ NoSession \in [start: Instant, mtime: Instant, lines: Seq(Nat)]
      /\ old.start = Past /\ old.mtime = Past
  BY <1>2 DEF Instant, NoSession
<1> HIDE DEF row, old
<1>6. rows \in Seq(TermRow) /\ Len(rows) = n /\ DOMAIN rows = 1..n /\ \A i \in 1..n : rows[i] = row(i)
  BY <1>1, <1>3, <1>4
<1>7. CostTypes
  BY <1>1, <1>2, <1>5, <1>6 DEF CostTypes, Instant
<1>8. RowsInv
  BY <1>1, <1>2, <1>4, <1>6 DEF RowsInv
<1>9. ASSUME NEW l \in Earlier
      PROVE  RowOf(l) # {}
  <2>1. PICK i \in 1..n : SetToSeq(Earlier)[i] = l
    BY EarlierListed DEF Surjection
  <2>2. row(i).launch = l
    BY <2>1 DEF row
  <2> QED
    BY <1>6, <2>2 DEF RowOf
<1>10. LaunchesInv
  BY <1>1, <1>2, <1>9 DEF LaunchesInv
<1>11. SessionsInv
  <2> SUFFICES ASSUME NEW l \in Launch, session[l] # NoSession
               PROVE  /\ launch[l] # NoTime /\ session[l].start # NoTime /\ session[l].mtime # NoTime
                      /\ launch[l] <= session[l].start /\ session[l].start <= session[l].mtime
                      /\ session[l].mtime <= now
                      /\ \A i \in RowOf(l) : rows[i].closed # NoTime =>
                           session[l].start <= rows[i].closed /\ session[l].mtime <= rows[i].closed
    BY DEF SessionsInv
  <2>1. l \in Earlier /\ launch[l] = Past /\ session[l] = old
    BY <1>1
  <2>2. \A i \in RowOf(l) : rows[i].closed = Past
    BY <1>4, <1>6 DEF RowOf
  <2>3. session[l].start = Past /\ session[l].mtime = Past /\ Past # NoTime /\ Past <= now
    BY <1>1, <1>2, <1>5, <2>1
  <2> QED
    BY <1>2, <2>1, <2>2, <2>3
<1>12. WritesInv
  <2> SUFFICES ASSUME NEW l \in Launch, writes[l] \in Launch
               PROVE  session[l] # NoSession /\ writes[l] = l
    BY DEF WritesInv
  <2>1. l \in Earlier /\ writes[l] = l /\ session[l] = old
    BY <1>1, <1>2
  <2> QED
    BY <1>2, <1>5, <2>1 DEF NoSession
<1> QED
  BY <1>7, <1>8, <1>10, <1>11, <1>12 DEF CostInv

\* What a row written now adds.
LEMMA RowAdded ==
  ASSUME rows \in Seq(TermRow), NEW r \in TermRow, rows' = Append(rows, r)
  PROVE  /\ rows' \in Seq(TermRow) /\ DOMAIN rows = 1..Len(rows) /\ Len(rows) \in Nat
         /\ DOMAIN rows' = 1..(Len(rows) + 1) /\ rows'[Len(rows) + 1] = r
         /\ \A i \in DOMAIN rows : i \in DOMAIN rows' /\ rows'[i] = rows[i]
         /\ \A l : RowOf(l)' = IF r.launch = l THEN RowOf(l) \cup {Len(rows) + 1} ELSE RowOf(l)
<1>1. /\ rows' \in Seq(TermRow) /\ DOMAIN rows = 1..Len(rows) /\ Len(rows) \in Nat
      /\ DOMAIN rows' = 1..(Len(rows) + 1) /\ rows'[Len(rows) + 1] = r
      /\ \A i \in DOMAIN rows : i \in DOMAIN rows' /\ rows'[i] = rows[i]
  OBVIOUS
<1>2. \A i \in DOMAIN rows' : i \in DOMAIN rows \/ i = Len(rows) + 1
  BY <1>1
<1>3. Len(rows) + 1 \in DOMAIN rows'
  BY <1>1
<1> QED
  BY <1>1, <1>2, <1>3 DEF RowOf

\* What the end of a terminal changes.
LEMMA RowClosed ==
  ASSUME CostTypes, NEW l \in Launch, NEW i \in RowOf(l), ~Closed(l),
         rows' = [rows EXCEPT ![i].closed = now]
  PROVE  /\ rows' \in Seq(TermRow) /\ DOMAIN rows' = DOMAIN rows
         /\ i \in DOMAIN rows /\ rows[i].closed = NoTime /\ rows[i].launch = l /\ rows'[i].closed = now
         /\ \A j \in DOMAIN rows :
              /\ rows'[j].launch = rows[j].launch /\ rows'[j].created = rows[j].created
              /\ j # i => rows'[j] = rows[j]
         /\ \A k : RowOf(k)' = RowOf(k)
<1>1. i \in DOMAIN rows /\ rows[i].closed = NoTime /\ rows[i].launch = l /\ rows[i] \in TermRow
  BY DEF RowOf, Closed, CostTypes
<1>2. now \in Instant /\ rows \in Seq(TermRow)
  BY DEF CostTypes, Instant
<1> DEFINE r == [rows[i] EXCEPT !.closed = now]
<1>3. r \in TermRow /\ r.closed = now /\ r.launch = rows[i].launch /\ r.created = rows[i].created
  BY <1>1, <1>2 DEF TermRow
<1>4. rows' = [rows EXCEPT ![i] = r]
  OBVIOUS
<1> HIDE DEF r
<1>5. /\ rows' \in Seq(TermRow) /\ DOMAIN rows' = DOMAIN rows /\ rows'[i] = r
      /\ \A j \in DOMAIN rows : j # i => rows'[j] = rows[j]
  BY <1>1, <1>2, <1>3, <1>4
<1>6. \A j \in DOMAIN rows : rows'[j].launch = rows[j].launch /\ rows'[j].created = rows[j].created
  BY <1>3, <1>5
<1> QED
  BY <1>1, <1>3, <1>5, <1>6 DEF RowOf

\* Steps that touch no row.
LEMMA RowsUntouched ==
  ASSUME rows' = rows
  PROVE  \A l : RowOf(l)' = RowOf(l) /\ (Closed(l)' <=> Closed(l))
  BY DEF RowOf, Closed

\* Every step keeps it.
LEMMA CostInvStep == CostInv /\ [CostNext]_costVars => CostInv'
<1> SUFFICES ASSUME CostInv, [CostNext]_costVars
             PROVE  CostInv'
  OBVIOUS
<1>0. /\ CostTypes /\ LaunchesInv /\ RowsInv /\ SessionsInv /\ WritesInv
      /\ NoTime \notin Int /\ MaxLag \in Nat /\ now \in Nat /\ now # NoTime
      /\ Nowhere \notin Launch /\ Latest \notin Launch
  BY CostAssumption DEF CostInv, CostTypes
<1>t. \A l \in Launch : launch[l] # NoTime => launch[l] \in Int
  BY <1>0 DEF CostTypes, Instant
<1>r. \A i \in DOMAIN rows : rows[i] \in TermRow /\ rows[i].created \in Int /\ rows[i].launch \in Launch
  BY <1>0, RowType
<1>1. ASSUME NEW l \in Launch, CreateTerminal(l)
      PROVE  CostInv'
  <2>1. /\ launch[l] = NoTime /\ launch' = [launch EXCEPT ![l] = now]
        /\ UNCHANGED <<now, rows, session>> /\ \A k : RowOf(k)' = RowOf(k)
        /\ writes' = [writes EXCEPT ![l] = IF Continues(l) THEN Latest ELSE Nowhere]
    BY <1>1, RowsUntouched DEF CreateTerminal
  <2>2. launch' \in [Launch -> Instant] /\ launch'[l] = now
        /\ \A k \in Launch : k # l => launch'[k] = launch[k]
    BY <1>0, <2>1 DEF CostTypes, Instant
  <2>3. \A i \in DOMAIN rows : rows[i].launch # l
    BY <1>0, <2>1 DEF RowsInv
  <2>4. session[l] = NoSession
    BY <1>0, <2>1 DEF SessionsInv
  <2>w. /\ writes' \in [Launch -> Launch \cup {Nowhere, Latest}]
        /\ writes'[l] \notin Launch /\ \A k \in Launch : k # l => writes'[k] = writes[k]
    BY <1>0, <2>1 DEF CostTypes
  <2>5. CostTypes'
    BY <1>0, <2>1, <2>2, <2>w DEF CostTypes
  <2>6. LaunchesInv'
    BY <1>0, <2>1, <2>2 DEF LaunchesInv
  <2>7. RowsInv'
    BY <1>0, <1>r, <2>1, <2>2, <2>3 DEF RowsInv
  <2>8. SessionsInv'
    BY <1>0, <2>1, <2>2, <2>4 DEF SessionsInv
  <2>9. WritesInv'
    BY <1>0, <2>1, <2>w DEF WritesInv
  <2> QED
    BY <2>5, <2>6, <2>7, <2>8, <2>9 DEF CostInv
<1>2. ASSUME NEW l \in Launch, InsertRow(l)
      PROVE  CostInv'
  <2> DEFINE r == [launch |-> l, created |-> now, closed |-> NoTime]
  <2>1. /\ launch[l] # NoTime /\ RowOf(l) = {} /\ rows' = Append(rows, r)
        /\ UNCHANGED <<now, launch, session, writes>>
    BY <1>2 DEF InsertRow
  <2>2. r \in TermRow /\ r.launch = l /\ r.created = now /\ r.closed = NoTime
    BY <1>0 DEF TermRow, Instant
  <2> HIDE DEF r
  <2>3. /\ rows' \in Seq(TermRow) /\ DOMAIN rows = 1..Len(rows) /\ Len(rows) \in Nat
        /\ DOMAIN rows' = 1..(Len(rows) + 1) /\ rows'[Len(rows) + 1] = r
        /\ \A i \in DOMAIN rows : i \in DOMAIN rows' /\ rows'[i] = rows[i]
        /\ \A k : RowOf(k)' = IF r.launch = k THEN RowOf(k) \cup {Len(rows) + 1} ELSE RowOf(k)
    BY <1>0, <2>1, <2>2, RowAdded DEF CostTypes
  <2>4. \A i \in DOMAIN rows' : i \in DOMAIN rows \/ i = Len(rows) + 1
    BY <2>3
  <2>5. launch[l] <= now /\ now <= launch[l] + MaxLag
    BY <1>0, <2>1 DEF LaunchesInv
  <2>6. CostTypes'
    BY <1>0, <2>1, <2>3 DEF CostTypes
  <2>7. LaunchesInv'
    <3>1. \A k : RowOf(k)' = {} => RowOf(k) = {}
      BY <2>3
    <3> QED
      BY <1>0, <2>1, <3>1 DEF LaunchesInv
  <2>8. RowsInv'
    <3> SUFFICES ASSUME NEW i \in DOMAIN rows'
                 PROVE  /\ launch[rows'[i].launch] # NoTime
                        /\ launch[rows'[i].launch] <= rows'[i].created
                        /\ rows'[i].created <= launch[rows'[i].launch] + MaxLag
      BY <2>1 DEF RowsInv
    <3>1. CASE i \in DOMAIN rows
      BY <1>0, <2>3, <3>1 DEF RowsInv
    <3>2. CASE i = Len(rows) + 1
      BY <2>1, <2>2, <2>3, <2>5, <3>2
    <3> QED
      BY <2>4, <3>1, <3>2
  <2>9. SessionsInv'
    <3>1. ASSUME NEW k \in Launch, NEW i \in RowOf(k)', rows'[i].closed # NoTime
          PROVE  i \in RowOf(k) /\ rows[i].closed = rows'[i].closed
      <4>1. i \in RowOf(k) \/ i = Len(rows) + 1
        BY <2>3, <3>1
      <4>2. i # Len(rows) + 1
        BY <2>2, <2>3, <3>1
      <4>3. i \in DOMAIN rows
        BY <4>1, <4>2 DEF RowOf
      <4> QED
        BY <2>3, <4>1, <4>2, <4>3
    <3> QED
      BY <1>0, <2>1, <3>1 DEF SessionsInv
  <2>10. WritesInv'
    BY <1>0, <2>1 DEF WritesInv
  <2> QED
    BY <2>6, <2>7, <2>8, <2>9, <2>10 DEF CostInv
<1>3. ASSUME NEW l \in Launch, CloseTerminal(l)
      PROVE  CostInv'
  <2>1. PICK i \in RowOf(l) : rows' = [rows EXCEPT ![i].closed = now]
    BY <1>3 DEF CloseTerminal
  <2>2. ~Closed(l) /\ UNCHANGED <<now, launch, session, writes>>
    BY <1>3 DEF CloseTerminal
  <2>3. /\ rows' \in Seq(TermRow) /\ DOMAIN rows' = DOMAIN rows
        /\ i \in DOMAIN rows /\ rows[i].launch = l /\ rows'[i].closed = now
        /\ \A j \in DOMAIN rows :
             /\ rows'[j].launch = rows[j].launch /\ rows'[j].created = rows[j].created
             /\ j # i => rows'[j] = rows[j]
        /\ \A k : RowOf(k)' = RowOf(k)
    BY <1>0, <2>1, <2>2, RowClosed
  <2>4. CostTypes' /\ LaunchesInv' /\ RowsInv'
    BY <1>0, <2>2, <2>3 DEF CostTypes, LaunchesInv, RowsInv
  <2>5. SessionsInv'
    <3>1. ASSUME NEW k \in Launch, session[k] # NoSession, NEW j \in RowOf(k), rows'[j].closed # NoTime
          PROVE  /\ session[k].start <= rows'[j].closed
                 /\ PlanOf[k].vendor = "codex" => session[k].mtime <= rows'[j].closed
      <4>1. CASE j = i
        <5>1. /\ session[k].start # NoTime /\ session[k].mtime # NoTime
              /\ session[k].start <= session[k].mtime /\ session[k].mtime <= now
          BY <1>0, <3>1 DEF SessionsInv
        <5>2. session[k].start \in Int /\ session[k].mtime \in Int
          BY <1>0, <5>1 DEF CostTypes, Instant
        <5> QED
          BY <1>0, <2>3, <4>1, <5>1, <5>2
      <4>2. CASE j # i
        BY <1>0, <2>3, <3>1, <4>2 DEF SessionsInv, RowOf
      <4> QED
        BY <4>1, <4>2
    <3> QED
      BY <1>0, <2>2, <2>3, <3>1 DEF SessionsInv
  <2>6. WritesInv'
    BY <1>0, <2>2 DEF WritesInv
  <2> QED
    BY <2>4, <2>5, <2>6 DEF CostInv
<1>4. ASSUME NEW l \in Launch, UNCHANGED <<now, launch, rows>>,
             launch[l] # NoTime,
             session' \in [Launch -> [start: Instant, mtime: Instant, lines: Seq(Nat)]],
             \A k \in Launch : k # l => session'[k] = session[k],
             session'[l].start \in Int, session'[l].mtime = now,
             launch[l] <= session'[l].start, session'[l].start <= now,
             \/ ~Closed(l)
             \/ /\ session[l] # NoSession /\ session'[l].start = session[l].start
                /\ PlanOf[l].vendor # "codex"
      PROVE  LaunchesInv' /\ RowsInv' /\ SessionsInv' /\ session'[l] # NoSession
  <2>1. \A k : RowOf(k)' = RowOf(k)
    BY <1>4, RowsUntouched
  <2>2. LaunchesInv' /\ RowsInv'
    BY <1>0, <1>4, <2>1 DEF LaunchesInv, RowsInv
  <2>3. \A i \in RowOf(l) : rows[i].closed # NoTime =>
          /\ session'[l].start <= rows[i].closed
          /\ PlanOf[l].vendor = "codex" => session'[l].mtime <= rows[i].closed
    <3>1. CASE ~Closed(l)
      BY <3>1 DEF Closed
    <3>2. CASE Closed(l)
      BY <1>0, <1>4, <3>2 DEF SessionsInv
    <3> QED
      BY <3>1, <3>2
  <2>4. session'[l].start # NoTime /\ session'[l].mtime # NoTime /\ session'[l].mtime <= now
    BY <1>0, <1>4
  <2>5. SessionsInv'
    BY <1>0, <1>4, <2>1, <2>3, <2>4 DEF SessionsInv
  <2>6. session'[l] # NoSession
    BY <2>4 DEF NoSession
  <2> QED
    BY <2>2, <2>5, <2>6
<1>5. ASSUME NEW l \in Launch, BeginSession(l)
      PROVE  CostInv'
  <2> DEFINE s == [start |-> now, mtime |-> now, lines |-> <<>>]
  <2>1. s \in [start: Instant, mtime: Instant, lines: Seq(Nat)] /\ s.start = now /\ s.mtime = now
    BY <1>0 DEF Instant
  <2>2. /\ launch[l] # NoTime /\ ~Closed(l)
        /\ session' = [session EXCEPT ![l] = s] /\ writes' = [writes EXCEPT ![l] = l]
        /\ UNCHANGED <<now, launch, rows>>
    BY <1>5 DEF BeginSession
  <2> HIDE DEF s
  <2>3. /\ session' \in [Launch -> [start: Instant, mtime: Instant, lines: Seq(Nat)]]
        /\ session'[l] = s /\ \A k \in Launch : k # l => session'[k] = session[k]
    BY <1>0, <2>1, <2>2 DEF CostTypes
  <2>4. launch[l] <= s.start /\ s.start <= now /\ s.start \in Int
    BY <1>0, <2>1, <2>2 DEF LaunchesInv
  <2>5. LaunchesInv' /\ RowsInv' /\ SessionsInv' /\ session'[l] # NoSession
    BY <1>4, <2>1, <2>2, <2>3, <2>4
  <2>6. /\ writes' \in [Launch -> Launch \cup {Nowhere, Latest}]
        /\ writes'[l] = l /\ \A k \in Launch : k # l => writes'[k] = writes[k]
    BY <1>0, <2>2 DEF CostTypes
  <2>7. CostTypes'
    BY <1>0, <2>2, <2>3, <2>6 DEF CostTypes
  <2>8. WritesInv'
    BY <1>0, <2>3, <2>5, <2>6 DEF WritesInv
  <2> QED
    BY <2>5, <2>7, <2>8 DEF CostInv
<1>9. ASSUME NEW l \in Launch, ResumeSession(l)
      PROVE  CostInv'
  <2>1. UNCHANGED <<now, launch, rows, session>> /\ \A k : RowOf(k)' = RowOf(k)
    BY <1>9, RowsUntouched DEF ResumeSession
  <2>2. PICK k \in ProjectLogs(PlanOf[l].dir) : writes' = [writes EXCEPT ![l] = k]
    BY <1>9 DEF ResumeSession
  <2>3. k \in Launch /\ PlanOf[k].vendor = "claude" /\ session[k] # NoSession
    BY DEF ProjectLogs
  <2>4. /\ writes' \in [Launch -> Launch \cup {Nowhere, Latest}]
        /\ writes'[l] = k /\ \A j \in Launch : j # l => writes'[j] = writes[j]
    BY <1>0, <2>2, <2>3 DEF CostTypes
  <2>5. CostTypes' /\ LaunchesInv' /\ RowsInv' /\ SessionsInv'
    BY <1>0, <2>1, <2>4 DEF CostTypes, LaunchesInv, RowsInv, SessionsInv
  <2>6. WritesInv'
    BY <1>0, <2>1, <2>3, <2>4 DEF WritesInv
  <2> QED
    BY <2>5, <2>6 DEF CostInv
<1>6. ASSUME NEW l \in Launch, LogLine(l)
      PROVE  CostInv'
  <2> DEFINE k == writes[l]
             n == IF PlanOf[k].vendor = "claude" THEN 1 ELSE Len(session[k].lines) + 1
             lines == Append(session[k].lines, n)
  <2>1. /\ k \in Launch /\ ~Closed(l) /\ UNCHANGED <<now, launch, rows, writes>>
        /\ session' = [session EXCEPT ![k].mtime = now, ![k].lines = lines]
    BY <1>6 DEF LogLine
  <2>w. session[k] # NoSession /\ (k # l => PlanOf[k].vendor = "claude")
    BY <1>0, <2>1 DEF WritesInv
  <2>5. lines \in Seq(Nat)
    <3>1. session[k].lines \in Seq(Nat) /\ Len(session[k].lines) \in Nat
      BY <1>0, <2>1 DEF CostTypes
    <3>2. n \in Nat
      BY <3>1
    <3> HIDE DEF n, k
    <3> QED
      BY <3>1, <3>2
  <2> HIDE DEF lines, n, k
  <2>2. /\ launch[k] # NoTime /\ session[k].start # NoTime /\ launch[k] <= session[k].start
        /\ session[k].start <= session[k].mtime /\ session[k].mtime <= now
        /\ session[k].mtime # NoTime
    BY <1>0, <2>1, <2>w DEF SessionsInv
  <2>3. session[k].start \in Int /\ session[k].mtime \in Int
    BY <1>0, <2>1, <2>2 DEF CostTypes, Instant
  <2>4. session[k].start <= now
    BY <1>0, <2>2, <2>3
  <2>6. /\ session' \in [Launch -> [start: Instant, mtime: Instant, lines: Seq(Nat)]]
        /\ session'[k].start = session[k].start /\ session'[k].mtime = now
        /\ \A j \in Launch : j # k => session'[j] = session[j]
    <3> DEFINE T == [start: Instant, mtime: Instant, lines: Seq(Nat)]
               written == [session EXCEPT ![k].mtime = now]
    <3>1. session \in [Launch -> T] /\ now \in Instant
      BY <1>0 DEF CostTypes, Instant
    <3>2. /\ written \in [Launch -> T]
          /\ written[k].start = session[k].start /\ written[k].mtime = now
          /\ \A j \in Launch : j # k => written[j] = session[j]
      BY <2>1, <3>1
    <3>3. session' = [written EXCEPT ![k].lines = lines]
      BY <2>1, <3>1
    <3> HIDE DEF written, T
    <3>4. /\ session' \in [Launch -> T] /\ session'[k].start = written[k].start
          /\ session'[k].mtime = written[k].mtime
          /\ \A j \in Launch : j # k => session'[j] = written[j]
      <4>1. /\ written \in [Launch -> [start: Instant, mtime: Instant, lines: Seq(Nat)]]
            /\ k \in Launch /\ lines \in Seq(Nat)
        BY <2>1, <2>5, <3>2 DEF T
      <4>2. written[k] \in [start: Instant, mtime: Instant, lines: Seq(Nat)]
        BY <4>1
      <4> DEFINE longer == [written[k] EXCEPT !.lines = lines]
      <4>3. /\ longer \in [start: Instant, mtime: Instant, lines: Seq(Nat)]
            /\ longer.start = written[k].start /\ longer.mtime = written[k].mtime
        BY <4>1, <4>2
      <4>4. session' = [written EXCEPT ![k] = longer]
        BY <3>3
      <4> HIDE DEF longer
      <4> QED
        BY <4>1, <4>3, <4>4 DEF T
    <3> QED
      BY <3>2, <3>4 DEF T
  <2>7. ~Closed(k) \/ PlanOf[k].vendor # "codex"
    BY <2>1, <2>w
  <2>8. LaunchesInv' /\ RowsInv' /\ SessionsInv' /\ session'[k] # NoSession
    BY <1>4, <2>1, <2>w, <2>2, <2>3, <2>4, <2>6, <2>7
  <2>9. CostTypes'
    BY <1>0, <2>1, <2>6 DEF CostTypes
  <2>10. WritesInv'
    BY <1>0, <2>1, <2>6, <2>8 DEF WritesInv
  <2> QED
    BY <2>8, <2>9, <2>10 DEF CostInv
<1>7. CASE Tick
  <2>1. /\ now' = now + 1 /\ UNCHANGED <<launch, rows, session, writes>>
        /\ \A l \in Launch : ~Overdue(l) /\ \A k : RowOf(k)' = RowOf(k)
    BY <1>7, RowsUntouched DEF Tick
  <2>2. CostTypes' /\ RowsInv'
    BY <1>0, <2>1 DEF CostTypes, RowsInv
  <2>3. LaunchesInv'
    <3> SUFFICES ASSUME NEW l \in Launch, launch[l] # NoTime
                 PROVE  launch[l] <= now + 1 /\ (RowOf(l) = {} => now + 1 <= launch[l] + MaxLag)
      BY <2>1 DEF LaunchesInv
    <3>1. launch[l] \in Int /\ launch[l] <= now /\ (RowOf(l) = {} => now <= launch[l] + MaxLag)
      BY <1>0, <1>t DEF LaunchesInv
    <3>2. RowOf(l) = {} => launch[l] + MaxLag # now
      BY <2>1 DEF Overdue
    <3> QED
      BY <1>0, <3>1, <3>2
  <2>4. SessionsInv'
    <3>1. ASSUME NEW l \in Launch, session[l] # NoSession
          PROVE  session[l].mtime <= now + 1
      <4>1. session[l].mtime <= now /\ session[l].mtime # NoTime
        BY <1>0, <3>1 DEF SessionsInv
      <4>2. session[l].mtime \in Int
        BY <1>0, <4>1 DEF CostTypes, Instant
      <4> QED
        BY <1>0, <4>1, <4>2
    <3> QED
      BY <1>0, <2>1, <3>1 DEF SessionsInv
  <2>5. WritesInv'
    BY <1>0, <2>1 DEF WritesInv
  <2> QED
    BY <2>2, <2>3, <2>4, <2>5 DEF CostInv
<1>8. CASE UNCHANGED costVars
  <2>1. UNCHANGED <<now, launch, rows, session, writes>>
    BY <1>8 DEF costVars
  <2> QED
    BY <1>0, <2>1 DEF CostInv, CostTypes, LaunchesInv, RowsInv, SessionsInv, WritesInv, RowOf
<1> QED
  BY <1>1, <1>2, <1>3, <1>5, <1>6, <1>7, <1>8, <1>9 DEF CostNext

\* Hence it always holds.
LEMMA CostInvariant == CostSpec => []CostInv
  BY CostInvInit, CostInvStep, PTL DEF CostSpec

-----------------------------------------------------------------------------
(* Costs: the theorems                                                     *)

\* What stands for the start of a session is a time between the launch of its
\* terminal and the end of it.
LEMMA StartType ==
  ASSUME CostInv, NEW l \in Launch, session[l] # NoSession
  PROVE  /\ StartOf(l) \in Int /\ launch[l] \in Int /\ launch[l] <= StartOf(l)
         /\ \A i \in RowOf(l) : rows[i].closed # NoTime => StartOf(l) <= rows[i].closed
<1>1. /\ launch[l] # NoTime /\ session[l].start # NoTime /\ session[l].mtime # NoTime
      /\ launch[l] <= session[l].start /\ session[l].start <= session[l].mtime
      /\ \A i \in RowOf(l) : rows[i].closed # NoTime =>
           /\ session[l].start <= rows[i].closed
           /\ PlanOf[l].vendor = "codex" => session[l].mtime <= rows[i].closed
  BY DEF CostInv, SessionsInv
<1>2. launch[l] \in Int /\ session[l].start \in Int /\ session[l].mtime \in Int
  BY <1>1 DEF CostInv, CostTypes, Instant
<1>3. PlanOf[l].vendor # "claude" => PlanOf[l].vendor = "codex"
  BY CostAssumption DEF Vendor
<1>4. launch[l] <= session[l].mtime
  BY <1>1, <1>2
<1> QED
  BY <1>1, <1>2, <1>3, <1>4 DEF StartOf

\* A session that began longer ago than the slack stays where it was put: no
\* launch, no end of a terminal, in whatever number and order, moves it.
THEOREM PastSettled == CostSpec => PastStays
<1> DEFINE Stays ==
      \A l \in Launch :
        (session[l] # NoSession /\ StartOf(l)' = StartOf(l) /\ StartOf(l) + Slack < now) =>
          Attribute(rows', StartOf(l)) = Attribute(rows, StartOf(l))
<1>1. CostInv /\ [CostNext]_costVars => Stays
  <2> SUFFICES ASSUME CostInv, [CostNext]_costVars,
                      NEW l \in Launch, session[l] # NoSession, StartOf(l) + Slack < now
               PROVE  Attribute(rows', StartOf(l)) = Attribute(rows, StartOf(l))
    OBVIOUS
  <2> DEFINE t == StartOf(l)
  <2>1. t \in Int
    BY StartType
  <2>2. CostTypes /\ now \in Nat /\ Slack \in Nat /\ NoTime \notin Int
    BY CostAssumption DEF CostInv, CostTypes
  <2>3. \A i \in DOMAIN rows : i \in Nat /\ rows[i].created \in Int /\ rows[i].closed \in Instant
    BY <2>2, RowType
  <2>4. t + Slack < now
    OBVIOUS
  <2> HIDE DEF t
  <2>5. CASE rows' = rows
    BY <2>5
  <2>6. ASSUME NEW k \in Launch, InsertRow(k)
        PROVE  Attribute(rows', t) = Attribute(rows, t)
    <3> DEFINE r == [launch |-> k, created |-> now, closed |-> NoTime]
               n == Len(rows) + 1
    <3>1. rows' = Append(rows, r)
      BY <2>6 DEF InsertRow
    <3>2. r \in TermRow /\ r.created = now
      BY <2>2 DEF TermRow, Instant
    <3>3. ~Window(r, t)
      BY <2>1, <2>2, <2>4, <3>2 DEF Window
    <3> HIDE DEF r
    <3>4. /\ rows' \in Seq(TermRow) /\ n \in Nat
          /\ DOMAIN rows = 1..Len(rows) /\ Len(rows) \in Nat /\ DOMAIN rows' = 1..n /\ rows'[n] = r
          /\ \A i \in DOMAIN rows : i \in DOMAIN rows' /\ rows'[i] = rows[i]
      BY <2>2, <3>1, <3>2, RowAdded DEF CostTypes
    <3>5. \A i \in DOMAIN rows' : i \in Nat /\ (i \in DOMAIN rows \/ i = n)
      BY <3>4
    <3>6. \A i \in DOMAIN rows' : rows'[i].created \in Int
      BY <2>2, <2>3, <3>2, <3>4, <3>5
    <3>7. {i \in DOMAIN rows' : Window(rows'[i], t)} = {i \in DOMAIN rows : Window(rows[i], t)}
      BY <3>3, <3>4, <3>5
    <3>8. \A i \in DOMAIN rows : rows[i].created = rows'[i].created /\ rows[i].launch = rows'[i].launch
      BY <3>4
    <3> QED
      BY <2>1, <2>3, <3>5, <3>6, <3>7, <3>8, SameAttribution
  <2>7. ASSUME NEW k \in Launch, CloseTerminal(k)
        PROVE  Attribute(rows', t) = Attribute(rows, t)
    <3>1. PICK i \in RowOf(k) : rows' = [rows EXCEPT ![i].closed = now]
      BY <2>7 DEF CloseTerminal
    <3>2. ~Closed(k)
      BY <2>7 DEF CloseTerminal
    <3>3. /\ DOMAIN rows' = DOMAIN rows
          /\ i \in DOMAIN rows /\ rows[i].closed = NoTime /\ rows'[i].closed = now
          /\ \A j \in DOMAIN rows :
               /\ rows'[j].launch = rows[j].launch /\ rows'[j].created = rows[j].created
               /\ j # i => rows'[j] = rows[j]
      BY <2>2, <3>1, <3>2, RowClosed
    <3>4. t <= now + Slack
      BY <2>1, <2>2, <2>4
    <3>5. \A j \in DOMAIN rows : Window(rows'[j], t) <=> Window(rows[j], t)
      BY <3>3, <3>4 DEF Window
    <3>6. {j \in DOMAIN rows' : Window(rows'[j], t)} = {j \in DOMAIN rows : Window(rows[j], t)}
      BY <3>3, <3>5
    <3> QED
      BY <2>1, <2>3, <3>3, <3>6, SameAttribution
  <2>8. rows' = rows \/ \E k \in Launch : InsertRow(k) \/ CloseTerminal(k)
    BY DEF CostNext, costVars, CreateTerminal, BeginSession, ResumeSession, LogLine, Tick
  <2> QED
    BY <2>5, <2>6, <2>7, <2>8 DEF t
<1>2. Stays => [Stays]_costVars
  OBVIOUS
<1> QED
  BY <1>1, <1>2, CostInvariant, PTL DEF CostSpec, PastStays

\* Where children get their row and begin their session within the slack, the
\* nearest launch is one of the right role: every row whose launch is another
\* role's is further away than the terminal's own, in every table get_costs can
\* have read.
THEOREM SpacedAttribution ==
  ASSUME MaxLag <= Slack
  PROVE  CostSpec => []SpacedSessionsRight
<1>1. CostInv => SpacedSessionsRight
  <2> SUFFICES ASSUME CostInv,
                      NEW k \in Launch,
                      NEW l \in Spent("claude") \cup Spent("codex"), NEW t \in 0..now,
                      PlanOf[l].role = PlanOf[k].role,
                      PlanOf[l].dir = Here, Spaced(l), StartOf(l) <= launch[l] + MaxLag,
                      NEW own \in RowOf(l), rows[own].created <= t
               PROVE  Attribute(AsOf(t), StartOf(l)) = PlanOf[k].role
    BY DEF SpacedSessionsRight
  <2> DEFINE s == StartOf(l)
             terms == AsOf(t)
             inside == {i \in DOMAIN terms : Window(terms[i], s)}
  <2>1. /\ CostTypes /\ RowsInv /\ MaxLag \in Nat /\ Slack \in Nat /\ NoTime \notin Int
    BY CostAssumption DEF CostInv
  <2>2. l \in Launch /\ session[l] # NoSession
    <3>1. l \in Launch /\ Tokens(l) > 0
      BY DEF Spent
    <3>2. session[l] = NoSession => Tokens(l) = 0
      BY DEF Tokens, NoSession
    <3> QED
      BY <3>1, <3>2
  <2>3. /\ s \in Int /\ launch[l] \in Int /\ launch[l] <= s /\ s <= launch[l] + MaxLag
        /\ \A i \in RowOf(l) : rows[i].closed # NoTime => s <= rows[i].closed
    BY <2>2, StartType
  <2>4. /\ DOMAIN terms = {i \in DOMAIN rows : rows[i].created <= t}
        /\ \A i \in DOMAIN terms :
             /\ i \in DOMAIN rows /\ i \in Nat
             /\ terms[i].created = rows[i].created /\ terms[i].launch = rows[i].launch
             /\ terms[i].created \in Int
             /\ terms[i].closed = NoTime \/ terms[i].closed = rows[i].closed
    <3> SUFFICES ASSUME NEW i \in {j \in DOMAIN rows : rows[j].created <= t}
                 PROVE  /\ i \in Nat /\ rows[i].created \in Int
                        /\ terms[i].created = rows[i].created /\ terms[i].launch = rows[i].launch
                        /\ terms[i].closed = NoTime \/ terms[i].closed = rows[i].closed
      BY DEF AsOf
    <3>1. i \in Nat /\ rows[i] \in TermRow /\ rows[i].created \in Int
      BY <2>1, RowType
    <3>2. terms[i] = IF rows[i].closed # NoTime /\ rows[i].closed > t
                       THEN [rows[i] EXCEPT !.closed = NoTime] ELSE rows[i]
      BY DEF AsOf
    <3> QED
      BY <3>1, <3>2 DEF TermRow
  <2>5. ASSUME NEW i \in DOMAIN terms
        PROVE  LET at == launch[terms[i].launch] IN
                 /\ terms[i].launch \in Launch /\ at \in Int /\ at # NoTime
                 /\ at <= terms[i].created /\ terms[i].created <= at + MaxLag
    <3>1. i \in DOMAIN rows /\ rows[i].launch \in Launch /\ terms[i].launch = rows[i].launch
      BY <2>1, <2>4, RowType
    <3>2. launch[rows[i].launch] # NoTime
      BY <2>1, <3>1 DEF RowsInv
    <3>3. launch[rows[i].launch] \in Int
      BY <2>1, <3>1, <3>2 DEF CostTypes, Instant
    <3> QED
      BY <2>1, <2>4, <3>1, <3>2, <3>3 DEF RowsInv
  <2>6. own \in DOMAIN terms /\ terms[own].launch = l
    BY <2>4 DEF RowOf
  <2> HIDE DEF terms, s
  <2>7. own \in inside
    <3>1. terms[own].created <= launch[l] + MaxLag /\ terms[own].created \in Int
      BY <2>4, <2>5, <2>6
    <3>2. s >= terms[own].created - Slack
      BY <2>1, <2>3, <3>1
    <3>3. terms[own].closed = NoTime \/ s <= terms[own].closed + Slack
      <4>1. ASSUME terms[own].closed # NoTime
            PROVE  terms[own].closed \in Int /\ s <= terms[own].closed
        <5>1. terms[own].closed = rows[own].closed /\ rows[own].closed \in Instant
          BY <2>1, <2>4, <2>6, <4>1, RowType
        <5> QED
          BY <2>3, <4>1, <5>1 DEF Instant
      <4> QED
        BY <2>1, <2>3, <4>1
    <3> QED
      BY <2>6, <3>2, <3>3 DEF Window
  <2>8. Apart(s, terms[own].created) <= MaxLag /\ Apart(s, terms[own].created) \in Nat
    BY <2>1, <2>3, <2>4, <2>5, <2>6 DEF Apart
  <2>9. ASSUME NEW i \in DOMAIN terms, PlanOf[terms[i].launch].role # PlanOf[l].role
        PROVE  Apart(s, terms[i].created) > MaxLag /\ Apart(s, terms[i].created) \in Nat
    <3> DEFINE at == launch[terms[i].launch]
    <3>1. /\ terms[i].launch \in Launch \ {l} /\ at \in Int /\ at # NoTime
          /\ at <= terms[i].created /\ terms[i].created <= at + MaxLag /\ terms[i].created \in Int
      BY <2>4, <2>5, <2>9
    <3>2. Apart(at, launch[l]) > 2 * MaxLag
      BY <2>9, <3>1 DEF Spaced
    <3> HIDE DEF at
    <3>3. at > launch[l] + 2 * MaxLag \/ launch[l] > at + 2 * MaxLag
      BY <2>1, <2>3, <3>1, <3>2 DEF Apart
    <3>4. terms[i].created > s + MaxLag \/ s > terms[i].created + MaxLag
      BY <2>1, <2>3, <3>1, <3>3
    <3> QED
      BY <2>1, <2>3, <3>1, <3>4 DEF Apart
  <2>10. PICK i \in inside : /\ \A j \in inside : Nearer(terms, i, j, s)
                             /\ Attribute(terms, s) = PlanOf[terms[i].launch].role
    <3>1. DOMAIN terms \subseteq Nat /\ \A i \in DOMAIN terms : terms[i].created \in Int
      BY <2>4
    <3> QED
      BY <2>3, <2>7, <3>1, AttributeNearest
  <2>11. Apart(s, terms[i].created) <= Apart(s, terms[own].created)
    <3>1. Apart(s, terms[i].created) \in Nat
      BY <2>3, <2>4 DEF Apart
    <3>2. Nearer(terms, i, own, s)
      BY <2>7, <2>10
    <3> QED
      BY <2>8, <3>1, <3>2 DEF Nearer
  <2>12. PlanOf[terms[i].launch].role = PlanOf[l].role
    BY <2>1, <2>8, <2>9, <2>10, <2>11
  <2> QED
    BY <2>10, <2>12 DEF terms, s
<1> QED
  BY <1>1, CostInvariant, PTL

-----------------------------------------------------------------------------
(* Sums over finite sets                                                   *)

Taken(s) == CHOOSE x \in s : TRUE
Summing(f, S, g) == [s \in SUBSET S |-> IF s = {} THEN 0 ELSE f[Taken(s)] + g[s \ {Taken(s)}]]

\* The library's sum takes one element after another.
LEMMA SumUnfolded ==
  ASSUME NEW f, NEW S, IsFiniteSet(S), \A x \in S : f[x] \in Nat
  PROVE  \E g \in [SUBSET S -> Nat] : g = Summing(f, S, g) /\ SumFunctionOnSet(f, S) = g[S]
<1> DEFINE c == [s \in SUBSET S |-> Taken(s)]
           h == [x \in S \X Nat |-> f[x[1]] + x[2]]
<1>1. \A s \in SUBSET S : s # {} => c[s] \in s /\ c[s] = Taken(s)
  BY DEF Taken
<1>2. \A x \in S, v \in Nat : h[<<x, v>>] \in Nat /\ h[<<x, v>>] = f[x] + v
  OBVIOUS
<1>3. PICK g \in [SUBSET S -> Nat] : Folding(S, 0, c, h, g)
  <2>1. \A s \in SUBSET S : s # {} => c[s] \in s
    BY <1>1
  <2>2. \A x \in S, v \in Nat : h[<<x, v>>] \in Nat
    BY <1>2
  <2>3. 0 \in Nat /\ IsFiniteSet(S)
    OBVIOUS
  <2> HIDE DEF c, h
  <2> QED
    BY <2>1, <2>2, <2>3, FoldExists
<1>4. g = Summing(f, S, g)
  <2> SUFFICES ASSUME NEW s \in SUBSET S
               PROVE  g[s] = IF s = {} THEN 0 ELSE f[Taken(s)] + g[s \ {Taken(s)}]
    BY DEF Summing
  <2>1. g[s] = IF s = {} THEN 0 ELSE h[<<c[s], g[s \ {c[s]}]>>]
    BY <1>3 DEF Folding
  <2>2. CASE s # {}
    <3>1. c[s] \in S /\ s \ {c[s]} \in SUBSET S
      BY <1>1, <2>2
    <3>2. g[s \ {c[s]}] \in Nat
      BY <3>1
    <3> HIDE DEF c, h
    <3> QED
      BY <1>1, <1>2, <2>1, <2>2, <3>1, <3>2
  <2> QED
    BY <2>1, <2>2
<1> DEFINE it == CHOOSE e : e = Summing(f, S, e)
<1>5. SumFunctionOnSet(f, S) = it[S]
  BY DEF SumFunctionOnSet, FoldFunctionOnSet, MapThenFoldSet, Summing, Taken
<1>6. it = Summing(f, S, it)
  BY <1>4
<1>7. it \in [SUBSET S -> Nat]
  <2> DEFINE N == {n \in Nat : \A s \in SUBSET S : Cardinality(s) = n => it[s] \in Nat}
  <2> HIDE DEF it
  <2>1. \A s \in SUBSET S : IsFiniteSet(s) /\ Cardinality(s) \in Nat
    BY FS_Subset, FS_CardinalityType
  <2>2. \A s \in SUBSET S : it[s] = IF s = {} THEN 0 ELSE f[Taken(s)] + it[s \ {Taken(s)}]
    BY <1>6 DEF Summing
  <2>3. 0 \in N
    BY <2>1, <2>2, FS_EmptySet
  <2>4. ASSUME NEW n \in Nat, n \in N
        PROVE  n + 1 \in N
    <3> SUFFICES ASSUME NEW s \in SUBSET S, Cardinality(s) = n + 1
                 PROVE  it[s] \in Nat
      OBVIOUS
    <3>1. s # {}
      BY FS_EmptySet
    <3>2. Taken(s) \in s
      BY <3>1 DEF Taken
    <3>3. Cardinality(s \ {Taken(s)}) = Cardinality(s) - 1
      BY <2>1, <3>2, FS_RemoveElement
    <3>4. it[s \ {Taken(s)}] \in Nat
      BY <2>4, <3>3
    <3> QED
      BY <2>2, <3>1, <3>2, <3>4
  <2>5. Nat \subseteq N
    <3> HIDE DEF N
    <3> QED
      BY <2>3, <2>4, Steps
  <2>6. \A s \in SUBSET S : it[s] \in Nat
    BY <2>1, <2>5
  <2> QED
    BY <1>6, <2>6 DEF Summing
<1> HIDE DEF it
<1> QED
  BY <1>5, <1>6, <1>7

\* Two solutions agree where both are defined.
LEMMA SumsAgree ==
  ASSUME NEW f, NEW S, IsFiniteSet(S), NEW T \in SUBSET S,
         NEW g, g = Summing(f, S, g), NEW h, h = Summing(f, T, h)
  PROVE  g[T] = h[T]
<1> DEFINE N == {n \in Nat : \A s \in SUBSET T : Cardinality(s) = n => g[s] = h[s]}
<1>1. \A s \in SUBSET T : IsFiniteSet(s) /\ Cardinality(s) \in Nat
  BY FS_Subset, FS_CardinalityType
<1>2. \A s \in SUBSET T : /\ g[s] = IF s = {} THEN 0 ELSE f[Taken(s)] + g[s \ {Taken(s)}]
                         /\ h[s] = IF s = {} THEN 0 ELSE f[Taken(s)] + h[s \ {Taken(s)}]
  BY DEF Summing
<1>3. 0 \in N
  BY <1>1, <1>2, FS_EmptySet
<1>4. ASSUME NEW n \in Nat, n \in N
      PROVE  n + 1 \in N
  <2> SUFFICES ASSUME NEW s \in SUBSET T, Cardinality(s) = n + 1
               PROVE  g[s] = h[s]
    OBVIOUS
  <2>1. s # {}
    BY FS_EmptySet
  <2>2. Taken(s) \in s
    BY <2>1 DEF Taken
  <2>3. Cardinality(s \ {Taken(s)}) = Cardinality(s) - 1
    BY <1>1, <2>2, FS_RemoveElement
  <2>4. g[s \ {Taken(s)}] = h[s \ {Taken(s)}]
    BY <1>4, <2>3
  <2> QED
    BY <1>2, <2>1, <2>4
<1>5. Nat \subseteq N
  <2> HIDE DEF N
  <2> QED
    BY <1>3, <1>4, Steps
<1> QED
  BY <1>1, <1>5

\* A sum is a natural number, and the element the fold takes first counts once.
LEMMA SumTaken ==
  ASSUME NEW f, NEW S, IsFiniteSet(S), \A x \in S : f[x] \in Nat
  PROVE  /\ SumFunctionOnSet(f, S) \in Nat
         /\ S = {} => SumFunctionOnSet(f, S) = 0
         /\ S # {} => /\ Taken(S) \in S
                      /\ SumFunctionOnSet(f, S) = f[Taken(S)] + SumFunctionOnSet(f, S \ {Taken(S)})
<1> DEFINE T == S \ {Taken(S)}
<1>1. PICK g \in [SUBSET S -> Nat] : g = Summing(f, S, g) /\ SumFunctionOnSet(f, S) = g[S]
  BY SumUnfolded
<1>2. g[S] = IF S = {} THEN 0 ELSE f[Taken(S)] + g[T]
  BY <1>1 DEF Summing
<1>3. S # {} => Taken(S) \in S
  BY DEF Taken
<1>4. T \in SUBSET S /\ IsFiniteSet(T) /\ \A x \in T : f[x] \in Nat
  BY FS_Subset
<1> HIDE DEF T
<1>5. PICK h \in [SUBSET T -> Nat] : h = Summing(f, T, h) /\ SumFunctionOnSet(f, T) = h[T]
  BY <1>4, SumUnfolded
<1>6. g[T] = h[T]
  BY <1>1, <1>4, <1>5, SumsAgree
<1> QED
  BY <1>1, <1>2, <1>3, <1>5, <1>6 DEF T

\* So does any other element.
LEMMA SumElement ==
  ASSUME NEW f, NEW S, IsFiniteSet(S), \A x \in S : f[x] \in Nat, NEW x \in S
  PROVE  SumFunctionOnSet(f, S) = f[x] + SumFunctionOnSet(f, S \ {x})
<1> DEFINE N == {n \in Nat : \A s \in SUBSET S : Cardinality(s) = n =>
                   \A y \in s : SumFunctionOnSet(f, s) = f[y] + SumFunctionOnSet(f, s \ {y})}
<1>1. \A s \in SUBSET S : IsFiniteSet(s) /\ Cardinality(s) \in Nat
  BY FS_Subset, FS_CardinalityType
<1>2. 0 \in N
  BY <1>1, FS_EmptySet
<1>3. ASSUME NEW n \in Nat, n \in N
      PROVE  n + 1 \in N
  <2> SUFFICES ASSUME NEW s \in SUBSET S, Cardinality(s) = n + 1, NEW y \in s
               PROVE  SumFunctionOnSet(f, s) = f[y] + SumFunctionOnSet(f, s \ {y})
    OBVIOUS
  <2> DEFINE t == Taken(s)
  <2>1. t \in s /\ SumFunctionOnSet(f, s) = f[t] + SumFunctionOnSet(f, s \ {t})
    BY <1>1, SumTaken
  <2> HIDE DEF t
  <2>2. CASE t = y
    BY <2>1, <2>2
  <2>3. CASE t # y
    <3>1. Cardinality(s \ {t}) = n /\ Cardinality(s \ {y}) = n
      <4>1. Cardinality(s \ {t}) = Cardinality(s) - 1
        BY <1>1, <2>1, FS_RemoveElement
      <4>2. Cardinality(s \ {y}) = Cardinality(s) - 1
        BY <1>1, <2>1, FS_RemoveElement
      <4> QED
        BY <4>1, <4>2
    <3>2. SumFunctionOnSet(f, s \ {t}) = f[y] + SumFunctionOnSet(f, (s \ {t}) \ {y})
      BY <1>3, <2>1, <2>3, <3>1
    <3>3. SumFunctionOnSet(f, s \ {y}) = f[t] + SumFunctionOnSet(f, (s \ {y}) \ {t})
      BY <1>3, <2>1, <2>3, <3>1
    <3>4. (s \ {t}) \ {y} = (s \ {y}) \ {t}
      OBVIOUS
    <3>5. f[t] \in Nat /\ f[y] \in Nat /\ SumFunctionOnSet(f, (s \ {t}) \ {y}) \in Nat
      <4>1. (s \ {t}) \ {y} \in SUBSET S
        OBVIOUS
      <4> QED
        BY <1>1, <2>1, <4>1, SumTaken
    <3> QED
      BY <2>1, <3>2, <3>3, <3>4, <3>5
  <2> QED
    BY <2>2, <2>3
<1>4. Nat \subseteq N
  <2> HIDE DEF N
  <2> QED
    BY <1>2, <1>3, Steps
<1>5. S \in SUBSET S /\ Cardinality(S) \in Nat
  BY <1>1
<1> QED
  BY <1>4, <1>5

\* Of one more element.
LEMMA SumAdded ==
  ASSUME NEW f, NEW S, IsFiniteSet(S), NEW x, x \notin S, \A y \in S \cup {x} : f[y] \in Nat
  PROVE  /\ SumFunctionOnSet(f, S \cup {x}) = f[x] + SumFunctionOnSet(f, S)
         /\ SumFunctionOnSet(f, S) \in Nat /\ SumFunctionOnSet(f, S \cup {x}) \in Nat
<1>1. IsFiniteSet(S \cup {x}) /\ (S \cup {x}) \ {x} = S
  BY FS_AddElement
<1>2. SumFunctionOnSet(f, S \cup {x}) = f[x] + SumFunctionOnSet(f, (S \cup {x}) \ {x})
  BY <1>1, SumElement
<1>3. SumFunctionOnSet(f, S) \in Nat /\ SumFunctionOnSet(f, S \cup {x}) \in Nat
  BY <1>1, SumTaken
<1> QED
  BY <1>1, <1>2, <1>3

\* A sum depends on the summands only.
LEMMA SumSame ==
  ASSUME NEW f, NEW g, NEW S, IsFiniteSet(S), \A x \in S : f[x] \in Nat /\ g[x] = f[x]
  PROVE  SumFunctionOnSet(g, S) = SumFunctionOnSet(f, S)
<1> DEFINE P == {s \in SUBSET S : SumFunctionOnSet(g, s) = SumFunctionOnSet(f, s)}
<1>1. {} \in P
  BY FS_EmptySet, SumTaken
<1>2. ASSUME NEW s \in SUBSET S, NEW x \in S, s \in P, x \notin s
      PROVE  s \cup {x} \in P
  <2>1. IsFiniteSet(s)
    BY FS_Subset
  <2>2. SumFunctionOnSet(f, s \cup {x}) = f[x] + SumFunctionOnSet(f, s)
    BY <1>2, <2>1, SumAdded
  <2>3. SumFunctionOnSet(g, s \cup {x}) = g[x] + SumFunctionOnSet(g, s)
    BY <1>2, <2>1, SumAdded
  <2> QED
    BY <1>2, <2>2, <2>3
<1>3. S \in P
  <2> HIDE DEF P
  <2> QED
    BY <1>1, <1>2, FiniteSteps
<1> QED
  BY <1>3

\* A sum over two sets that have nothing in common.
LEMMA SumUnion ==
  ASSUME NEW f, NEW S, IsFiniteSet(S), NEW T, IsFiniteSet(T), S \cap T = {},
         \A x \in S \cup T : f[x] \in Nat
  PROVE  SumFunctionOnSet(f, S \cup T) = SumFunctionOnSet(f, S) + SumFunctionOnSet(f, T)
<1> DEFINE P == {s \in SUBSET S :
                   SumFunctionOnSet(f, s \cup T) = SumFunctionOnSet(f, s) + SumFunctionOnSet(f, T)}
<1>1. SumFunctionOnSet(f, T) \in Nat
  BY SumTaken
<1>2. {} \in P
  <2>1. SumFunctionOnSet(f, {}) = 0
    BY FS_EmptySet, SumTaken
  <2>2. {} \cup T = T
    OBVIOUS
  <2> QED
    BY <1>1, <2>1, <2>2
<1>3. ASSUME NEW s \in SUBSET S, NEW x \in S, s \in P, x \notin s
      PROVE  s \cup {x} \in P
  <2>1. IsFiniteSet(s) /\ IsFiniteSet(s \cup T)
    BY FS_Subset, FS_Union
  <2>2. SumFunctionOnSet(f, s \cup {x}) = f[x] + SumFunctionOnSet(f, s) /\ SumFunctionOnSet(f, s) \in Nat
    BY <1>3, <2>1, SumAdded
  <2>3. x \notin s \cup T /\ (s \cup T) \cup {x} = (s \cup {x}) \cup T
    BY <1>3
  <2>4. \A y \in (s \cup T) \cup {x} : f[y] \in Nat
    OBVIOUS
  <2>5. SumFunctionOnSet(f, (s \cup T) \cup {x}) = f[x] + SumFunctionOnSet(f, s \cup T)
    BY <2>1, <2>3, <2>4, SumAdded
  <2> QED
    BY <1>1, <1>3, <2>2, <2>3, <2>5
<1>4. S \in P
  <2> HIDE DEF P
  <2> QED
    BY <1>2, <1>3, FiniteSteps
<1> QED
  BY <1>4

\* Numbering the elements anew does not change a sum.
LEMMA SumRenumbered ==
  ASSUME NEW f, NEW A, IsFiniteSet(A), NEW B, NEW q \in [A -> B],
         \A a, b \in A : q[a] = q[b] => a = b, \A x \in B : \E a \in A : q[a] = x,
         \A x \in B : f[x] \in Nat, NEW g, \A a \in A : g[a] = f[q[a]]
  PROVE  SumFunctionOnSet(g, A) = SumFunctionOnSet(f, B)
<1> DEFINE Image(s) == {q[a] : a \in s}
           P == {s \in SUBSET A : /\ IsFiniteSet(Image(s))
                                  /\ SumFunctionOnSet(g, s) = SumFunctionOnSet(f, Image(s))}
<1>1. {} \in P
  <2>1. Image({}) = {}
    OBVIOUS
  <2>2. SumFunctionOnSet(g, {}) = 0 /\ SumFunctionOnSet(f, {}) = 0
    BY FS_EmptySet, SumTaken
  <2> QED
    BY <2>1, <2>2, FS_EmptySet
<1>2. ASSUME NEW s \in SUBSET A, NEW x \in A, s \in P, x \notin s
      PROVE  s \cup {x} \in P
  <2> DEFINE i == Image(s)
  <2>1. IsFiniteSet(s) /\ IsFiniteSet(i) /\ q[x] \notin i
    BY <1>2, FS_Subset
  <2>2. Image(s \cup {x}) = i \cup {q[x]} /\ i \subseteq B
    OBVIOUS
  <2>3. \A y \in A : g[y] = f[q[y]] /\ g[y] \in Nat
    OBVIOUS
  <2>4. SumFunctionOnSet(g, s) = SumFunctionOnSet(f, i)
    BY <1>2
  <2> HIDE DEF i
  <2>5. SumFunctionOnSet(g, s \cup {x}) = g[x] + SumFunctionOnSet(g, s)
    BY <1>2, <2>1, <2>3, SumAdded
  <2>6. \A y \in i \cup {q[x]} : f[y] \in Nat
    BY <2>2
  <2>7. SumFunctionOnSet(f, i \cup {q[x]}) = f[q[x]] + SumFunctionOnSet(f, i)
    BY <2>1, <2>6, SumAdded
  <2>8. IsFiniteSet(i \cup {q[x]})
    BY <2>1, FS_AddElement
  <2> QED
    BY <2>2, <2>3, <2>4, <2>5, <2>7, <2>8
<1>3. A \in P
  <2> HIDE DEF P
  <2> QED
    BY <1>1, <1>2, FiniteSteps
<1>4. Image(A) = B
  OBVIOUS
<1> QED
  BY <1>3, <1>4

\* A sum of equal summands.
LEMMA SumConstant ==
  ASSUME NEW f, NEW S, IsFiniteSet(S), NEW k \in Nat, \A x \in S : f[x] = k
  PROVE  SumFunctionOnSet(f, S) = k * Cardinality(S)
<1> DEFINE P == {s \in SUBSET S : SumFunctionOnSet(f, s) = k * Cardinality(s)}
<1>1. {} \in P
  <2>1. SumFunctionOnSet(f, {}) = 0
    BY FS_EmptySet, SumTaken
  <2>2. Cardinality({}) = 0
    BY FS_EmptySet
  <2>3. k * 0 = 0
    OBVIOUS
  <2> QED
    BY <2>1, <2>2, <2>3
<1>2. ASSUME NEW s \in SUBSET S, NEW x \in S, s \in P, x \notin s
      PROVE  s \cup {x} \in P
  <2>1. IsFiniteSet(s) /\ Cardinality(s) \in Nat
    BY FS_Subset, FS_CardinalityType
  <2>2. Cardinality(s \cup {x}) = Cardinality(s) + 1
    BY <1>2, <2>1, FS_AddElement
  <2>3. SumFunctionOnSet(f, s \cup {x}) = k + SumFunctionOnSet(f, s)
    BY <1>2, <2>1, SumAdded
  <2>4. k * (Cardinality(s) + 1) = k + k * Cardinality(s)
    BY <2>1
  <2> QED
    BY <1>2, <2>2, <2>3, <2>4
<1>3. S \in P
  <2> HIDE DEF P
  <2> QED
    BY <1>1, <1>2, FiniteSteps
<1> QED
  BY <1>3

\* One summand more.
LEMMA SumBumped ==
  ASSUME NEW S, IsFiniteSet(S), NEW f \in [S -> Nat], NEW x \in S, NEW k \in Nat
  PROVE  SumFunctionOnSet([f EXCEPT ![x] = @ + k], S) = SumFunctionOnSet(f, S) + k
<1> DEFINE g == [f EXCEPT ![x] = @ + k]
           T == S \ {x}
<1>1. g \in [S -> Nat] /\ g[x] = f[x] + k /\ \A y \in T : g[y] = f[y]
  OBVIOUS
<1> HIDE DEF g
<1>2. IsFiniteSet(T) /\ \A y \in T : f[y] \in Nat
  BY FS_Subset
<1>3. SumFunctionOnSet(f, S) = f[x] + SumFunctionOnSet(f, T) /\ SumFunctionOnSet(f, T) \in Nat
  <2>1. \A y \in S : f[y] \in Nat
    OBVIOUS
  <2>2. SumFunctionOnSet(f, S) = f[x] + SumFunctionOnSet(f, T)
    BY <2>1, SumElement
  <2> HIDE DEF T
  <2>3. SumFunctionOnSet(f, T) \in Nat
    BY <1>2, SumTaken
  <2> QED
    BY <2>2, <2>3
<1>4. SumFunctionOnSet(g, S) = g[x] + SumFunctionOnSet(g, T)
  BY <1>1, SumElement
<1>5. SumFunctionOnSet(g, T) = SumFunctionOnSet(f, T)
  BY <1>1, <1>2, SumSame
<1> QED
  BY <1>1, <1>3, <1>4, <1>5 DEF g

\* A sum over the positions of the listing is a sum over the set.
LEMMA SumListed ==
  ASSUME NEW A, IsFiniteSet(A), NEW f, \A x \in A : f[x] \in Nat
  PROVE  SumFunctionOnSet([j \in 1..Cardinality(A) |-> f[SetToSeq(A)[j]]], 1..Cardinality(A))
           = SumFunctionOnSet(f, A)
<1> DEFINE n == Cardinality(A)
           q == SetToSeq(A)
           J == 1..n
<1>1. /\ n \in Nat /\ q \in [J -> A] /\ \A i, j \in J : q[i] = q[j] => i = j
      /\ q \in Surjection(J, A)
  BY SetListed
<1>2. \A x \in A : \E j \in J : q[j] = x
  BY <1>1 DEF Surjection
<1>3. IsFiniteSet(J)
  BY <1>1, FS_Interval
<1> DEFINE g == [j \in J |-> f[q[j]]]
<1>4. \A j \in J : g[j] = f[q[j]]
  OBVIOUS
<1> HIDE DEF n, q, J, g
<1>5. SumFunctionOnSet(g, J) = SumFunctionOnSet(f, A)
  BY <1>1, <1>2, <1>3, <1>4, SumRenumbered
<1> QED
  BY <1>5 DEF n, q, J, g

\* A sum over one list after another.
LEMMA SumShifted ==
  ASSUME NEW m \in Nat, NEW n \in Nat, NEW f \in [1..(m + n) -> Nat],
         NEW g, \A j \in 1..n : g[j] = f[m + j]
  PROVE  SumFunctionOnSet(f, 1..(m + n)) = SumFunctionOnSet(f, 1..m) + SumFunctionOnSet(g, 1..n)
<1> DEFINE I == 1..m
           J == 1..n
           K == (m + 1)..(m + n)
           q == [j \in J |-> m + j]
<1>1. /\ 1..(m + n) = I \cup K /\ I \cap K = {}
      /\ \A j \in J : m + j \in K
  OBVIOUS
<1>2. \A j \in I \cup K : f[j] \in Nat
  BY <1>1
<1>3. IsFiniteSet(I) /\ IsFiniteSet(J)
  BY FS_Interval
<1>4. IsFiniteSet(K)
  <2>1. m + 1 \in Int /\ m + n \in Int
    OBVIOUS
  <2> QED
    BY <2>1, FS_Interval
<1>5. /\ q \in [J -> K] /\ \A i, j \in J : q[i] = q[j] => i = j
      /\ \A k \in K : \E j \in J : q[j] = k
  <2>1. q \in [J -> K]
    BY <1>1
  <2>2. \A i, j \in J : q[i] = q[j] => i = j
    OBVIOUS
  <2>3. ASSUME NEW k \in K
        PROVE  \E j \in J : q[j] = k
    <3>1. k - m \in J /\ q[k - m] = k
      OBVIOUS
    <3> QED
      BY <3>1
  <2> HIDE DEF q, K, J
  <2> QED
    BY <2>1, <2>2, <2>3
<1>6. \A j \in J : g[j] = f[q[j]]
  OBVIOUS
<1> HIDE DEF I, J, K, q
<1>7. SumFunctionOnSet(f, I \cup K) = SumFunctionOnSet(f, I) + SumFunctionOnSet(f, K)
  BY <1>1, <1>2, <1>3, <1>4, SumUnion
<1>8. SumFunctionOnSet(f, K) = SumFunctionOnSet(g, J)
  <2>1. \A k \in K : f[k] \in Nat
    BY <1>2
  <2> QED
    BY <1>3, <1>5, <1>6, <2>1, SumRenumbered
<1> QED
  BY <1>1, <1>7, <1>8 DEF I, J

\* The positions of one list after another.
LEMMA Concatenated ==
  ASSUME NEW V, NEW m \in Nat, NEW n \in Nat, NEW C \in [1..m -> V], NEW D \in [1..n -> V]
  PROVE  /\ C \o D \in [1..(m + n) -> V]
         /\ \A j \in 1..m : (C \o D)[j] = C[j]
         /\ \A j \in 1..n : (C \o D)[m + j] = D[j]
<1>1. C \in Seq(V) /\ Len(C) = m /\ D \in Seq(V) /\ Len(D) = n
  OBVIOUS
<1>2. C \o D \in Seq(V) /\ Len(C \o D) = m + n
  BY <1>1
<1>3. C \o D \in [1..(m + n) -> V]
  <2> DEFINE es == C \o D
  <2>1. es \in Seq(V) /\ Len(es) = m + n
    BY <1>2
  <2> HIDE DEF es
  <2>2. es \in [1..(m + n) -> V]
    BY <2>1
  <2> QED
    BY <2>2 DEF es
<1>4. \A j \in 1..m : (C \o D)[j] = C[j]
  BY <1>1
<1>5. \A j \in 1..n : (C \o D)[m + j] = D[j]
  BY <1>1
<1> QED
  BY <1>3, <1>4, <1>5

\* A sum over pairs, taken by their second component.
LEMMA SumByPartner ==
  ASSUME NEW D, IsFiniteSet(D), NEW L, IsFiniteSet(L), NEW R, R \subseteq D \X L,
         NEW w \in [L -> Nat], NEW f, \A x \in R : f[x] = w[x[2]],
         NEW g, \A l \in L : g[l] = w[l] * Cardinality({d \in D : <<d, l>> \in R})
  PROVE  SumFunctionOnSet(f, R) = SumFunctionOnSet(g, L)
<1> DEFINE Partners(l) == {d \in D : <<d, l>> \in R}
           Pairs(l) == {x \in R : x[2] = l}
           Within(s) == {x \in R : x[2] \in s}
           P == {s \in SUBSET L : SumFunctionOnSet(f, Within(s)) = SumFunctionOnSet(g, s)}
<1>1. IsFiniteSet(R)
  BY FS_Product, FS_Subset
<1>2. \A x \in R : x[2] \in L /\ f[x] = w[x[2]] /\ f[x] \in Nat
  OBVIOUS
<1>3. ASSUME NEW l \in L
      PROVE  /\ IsFiniteSet(Pairs(l)) /\ Cardinality(Pairs(l)) = Cardinality(Partners(l))
             /\ Cardinality(Partners(l)) \in Nat
  <2> DEFINE q == [d \in Partners(l) |-> <<d, l>>]
  <2>1. IsFiniteSet(Partners(l)) /\ Cardinality(Partners(l)) \in Nat
    BY FS_Subset, FS_CardinalityType
  <2>2. q \in Bijection(Partners(l), Pairs(l))
    <3>1. q \in [Partners(l) -> Pairs(l)]
      OBVIOUS
    <3>2. \A a, b \in Partners(l) : q[a] = q[b] => a = b
      OBVIOUS
    <3>3. ASSUME NEW x \in Pairs(l)
          PROVE  \E d \in Partners(l) : q[d] = x
      <4>1. x = <<x[1], x[2]>> /\ x[1] \in D /\ x[2] = l /\ x \in R
        OBVIOUS
      <4>2. x[1] \in Partners(l) /\ q[x[1]] = x
        BY <4>1
      <4> QED
        BY <4>2
    <3> HIDE DEF q, Partners, Pairs
    <3> QED
      BY <3>1, <3>2, <3>3 DEF Bijection, Injection, Surjection, IsInjective
  <2>3. IsFiniteSet(Pairs(l)) /\ Cardinality(Pairs(l)) = Cardinality(Partners(l))
    <3> HIDE DEF q, Partners, Pairs
    <3> QED
      BY <2>1, <2>2, FS_Bijection DEF ExistsBijection
  <2> QED
    BY <2>1, <2>3
<1>4. \A l \in L : g[l] = w[l] * Cardinality(Partners(l)) /\ g[l] \in Nat
  <2>1. \A a, b \in Nat : a * b \in Nat
    OBVIOUS
  <2> QED
    BY <1>3, <2>1
<1>5. {} \in P
  <2>1. SumFunctionOnSet(f, {}) = 0 /\ SumFunctionOnSet(g, {}) = 0
    BY FS_EmptySet, SumTaken
  <2>2. Within({}) = {}
    OBVIOUS
  <2> QED
    BY <2>1, <2>2
<1>6. ASSUME NEW s \in SUBSET L, NEW l \in L, s \in P, l \notin s
      PROVE  s \cup {l} \in P
  <2>1. /\ Within(s \cup {l}) = Within(s) \cup Pairs(l) /\ Within(s) \cap Pairs(l) = {}
        /\ Within(s) \subseteq R /\ Pairs(l) \subseteq R
    BY <1>6
  <2>2. \A x \in Pairs(l) : f[x] = w[l]
    BY <1>2
  <2>3. SumFunctionOnSet(f, Within(s)) = SumFunctionOnSet(g, s)
    BY <1>6
  <2>4. IsFiniteSet(Within(s)) /\ IsFiniteSet(s)
    BY <1>1, <2>1, FS_Subset
  <2> HIDE DEF Within, Pairs, Partners
  <2>5. SumFunctionOnSet(f, Within(s) \cup Pairs(l))
          = SumFunctionOnSet(f, Within(s)) + SumFunctionOnSet(f, Pairs(l))
    BY <1>2, <1>3, <2>1, <2>4, SumUnion
  <2>6. SumFunctionOnSet(f, Pairs(l)) = g[l]
    <3>1. w[l] \in Nat
      OBVIOUS
    <3>2. SumFunctionOnSet(f, Pairs(l)) = w[l] * Cardinality(Pairs(l))
      BY <1>3, <2>2, <3>1, SumConstant
    <3> QED
      BY <1>3, <1>4, <3>2
  <2>7. SumFunctionOnSet(g, s \cup {l}) = g[l] + SumFunctionOnSet(g, s)
        /\ SumFunctionOnSet(g, s) \in Nat
    BY <1>4, <1>6, <2>4, SumAdded
  <2>8. SumFunctionOnSet(f, Within(s \cup {l})) = SumFunctionOnSet(g, s \cup {l})
    <3>1. g[l] \in Nat
      BY <1>4
    <3>2. SumFunctionOnSet(f, Within(s \cup {l})) = SumFunctionOnSet(g, s) + g[l]
      BY <2>1, <2>3, <2>5, <2>6, Zenon
    <3> QED
      BY <2>7, <3>1, <3>2
  <2> QED
    BY <2>8
<1>7. L \in P
  <2> HIDE DEF P
  <2> QED
    BY <1>5, <1>6, FiniteSteps
<1>8. Within(L) = R
  BY <1>2
<1> QED
  BY <1>7, <1>8

-----------------------------------------------------------------------------
(* Costs: the accounts                                                     *)

\* What the ledger has for a role, and what a session brings.
Account == Role \cup {Nobody}
Usage == [vendor: Vendor \cup {"none", "mixed"}, tokens: Nat, sessions: Nat]
SessionEntry == [vendor: Vendor, tokens: Nat, role: Account]

Adding(es, g) ==
  [s \in SUBSET DOMAIN es |->
     IF s = {} THEN [r \in Account |-> NoUsage] ELSE Add(g[s \ {Max(s)}], es[Max(s)])]

\* One session is added to one account.
LEMMA AddEntry ==
  ASSUME NEW v \in [Account -> Usage], NEW e \in SessionEntry
  PROVE  /\ Add(v, e) \in [Account -> Usage]
         /\ [r \in Account |-> Add(v, e)[r].tokens]
              = [[r \in Account |-> v[r].tokens] EXCEPT ![e.role] = @ + e.tokens]
         /\ [r \in Account |-> Add(v, e)[r].sessions]
              = [[r \in Account |-> v[r].sessions] EXCEPT ![e.role] = @ + 1]
<1>1. /\ e.role \in Account /\ e.tokens \in Nat /\ e.vendor \in Vendor
      /\ \A r \in Account : v[r] \in Usage /\ v[r].tokens \in Nat /\ v[r].sessions \in Nat
  BY DEF SessionEntry, Usage
<1> DEFINE u == [vendor |-> IF v[e.role].sessions > 0 /\ v[e.role].vendor # e.vendor
                              THEN "mixed" ELSE e.vendor,
                 tokens |-> v[e.role].tokens + e.tokens,
                 sessions |-> v[e.role].sessions + 1]
<1>2. Add(v, e) = [v EXCEPT ![e.role] = u]
  BY DEF Add
<1>3. u \in Usage /\ u.tokens = v[e.role].tokens + e.tokens /\ u.sessions = v[e.role].sessions + 1
  BY <1>1 DEF Usage
<1> HIDE DEF u
<1> QED
  BY <1>1, <1>2, <1>3

\* A nonempty set of positions has a last one.
LEMMA GreatestMember ==
  ASSUME NEW n \in Nat, NEW s \in SUBSET (1..n), s # {}
  PROVE  Max(s) \in s
<1> DEFINE Far == {n - y : y \in s}
<1>1. \A y \in s : y \in Nat /\ n - y \in Nat
  OBVIOUS
<1>2. Far \subseteq Nat /\ Far # {}
  BY <1>1
<1>3. PICK m \in Far : \A k \in Far : m <= k
  <2> HIDE DEF Far
  <2> QED
    BY <1>2, LeastMember
<1>4. PICK x \in s : m = n - x
  BY <1>3
<1>5. \A y \in s : n - x <= n - y
  BY <1>3, <1>4
<1>6. \A y \in s : x >= y
  BY <1>1, <1>5
<1> QED
  BY <1>4, <1>6 DEF Max

\* The library's fold over a sequence adds the entries one after the other.
LEMMA LedgerFolds ==
  ASSUME NEW n \in Nat, NEW es \in [1..n -> SessionEntry]
  PROVE  \E g : /\ g[1..0] = [r \in Account |-> NoUsage]
                /\ \A k \in Nat : k < n => g[1..(k + 1)] = Add(g[1..k], es[k + 1])
                /\ FoldLeft(Add, [r \in Account |-> NoUsage], es) = g[1..n]
<1> DEFINE S == 1..n
           V == [Account -> Usage]
           base == [r \in Account |-> NoUsage]
           c == [s \in SUBSET S |-> Max(s)]
           h == [x \in S \X V |-> Add(x[2], es[x[1]])]
<1>1. ASSUME NEW s \in SUBSET S, s # {}
      PROVE  c[s] \in s /\ c[s] = Max(s)
  BY <1>1, GreatestMember
<1>2. \A x \in S, v \in V : h[<<x, v>>] \in V /\ h[<<x, v>>] = Add(v, es[x])
  BY AddEntry
<1>3. base \in V
  BY DEF NoUsage, Usage
<1>4. PICK g \in [SUBSET S -> V] : Folding(S, base, c, h, g)
  <2>1. IsFiniteSet(S)
    BY FS_Interval
  <2>2. \A s \in SUBSET S : s # {} => c[s] \in s
    BY <1>1
  <2>3. \A x \in S, v \in V : h[<<x, v>>] \in V
    BY <1>2
  <2> HIDE DEF S, V, base, c, h
  <2> QED
    BY <1>3, <2>1, <2>2, <2>3, FoldExists
<1>5. g = Adding(es, g)
  <2> SUFFICES ASSUME NEW s \in SUBSET S
               PROVE  g[s] = IF s = {} THEN base ELSE Add(g[s \ {Max(s)}], es[Max(s)])
    BY DEF Adding
  <2>1. g[s] = IF s = {} THEN base ELSE h[<<c[s], g[s \ {c[s]}]>>]
    BY <1>4 DEF Folding
  <2>2. CASE s # {}
    <3>1. c[s] \in S /\ s \ {c[s]} \in SUBSET S /\ c[s] = Max(s)
      BY <1>1, <2>2
    <3>2. g[s \ {c[s]}] \in V
      BY <3>1
    <3> HIDE DEF c, h, V, base, S
    <3> QED
      BY <1>2, <2>1, <2>2, <3>1, <3>2
  <2> QED
    BY <2>1, <2>2
<1> DEFINE it == CHOOSE e : e = Adding(es, e)
<1>6. FoldLeft(Add, base, es) = it[S]
  BY DEF FoldLeft, MapThenFoldSet, Adding
<1>7. it = Adding(es, it)
  BY <1>5
<1> HIDE DEF it
<1>8. it[1..0] = base
  BY <1>7 DEF Adding
<1>9. ASSUME NEW k \in Nat, k < n
      PROVE  it[1..(k + 1)] = Add(it[1..k], es[k + 1])
  <2>1. 1..(k + 1) \in SUBSET S /\ 1..(k + 1) # {}
    BY <1>9
  <2>2. Max(1..(k + 1)) = k + 1
    BY DEF Max
  <2>3. (1..(k + 1)) \ {k + 1} = 1..k
    OBVIOUS
  <2> QED
    BY <1>7, <2>1, <2>2, <2>3 DEF Adding
<1> QED
  BY <1>6, <1>8, <1>9

\* So what the accounts add up to is what the sessions add up to.
LEMMA LedgerSums ==
  ASSUME NEW n \in Nat, NEW es \in [1..n -> SessionEntry]
  PROVE  LET ledger == FoldLeft(Add, [r \in Account |-> NoUsage], es)
         IN  /\ ledger \in [Account -> Usage]
             /\ SumFunctionOnSet([r \in Account |-> ledger[r].tokens], Account)
                  = SumFunctionOnSet([j \in 1..n |-> es[j].tokens], 1..n)
             /\ SumFunctionOnSet([r \in Account |-> ledger[r].sessions], Account) = n
<1>1. PICK g : /\ g[1..0] = [r \in Account |-> NoUsage]
               /\ \A k \in Nat : k < n => g[1..(k + 1)] = Add(g[1..k], es[k + 1])
               /\ FoldLeft(Add, [r \in Account |-> NoUsage], es) = g[1..n]
  BY LedgerFolds
<1> DEFINE f == [j \in 1..n |-> es[j].tokens]
           tokens(v) == [r \in Account |-> v[r].tokens]
           sessions(v) == [r \in Account |-> v[r].sessions]
           P == {k \in Nat : k <= n =>
                   /\ g[1..k] \in [Account -> Usage]
                   /\ SumFunctionOnSet(tokens(g[1..k]), Account) = SumFunctionOnSet(f, 1..k)
                   /\ SumFunctionOnSet(sessions(g[1..k]), Account) = k}
<1>2. IsFiniteSet(Account)
  BY CostAssumption, FS_AddElement DEF Account
<1>3. \A j \in 1..n : f[j] = es[j].tokens /\ f[j] \in Nat
  BY DEF SessionEntry
<1> HIDE DEF f
<1>4. 0 \in P
  <2> DEFINE v == [r \in Account |-> NoUsage]
  <2>1. v \in [Account -> Usage] /\ \A r \in Account : tokens(v)[r] = 0 /\ sessions(v)[r] = 0
    BY DEF NoUsage, Usage
  <2>2. g[1..0] = v
    BY <1>1
  <2>3. Cardinality(Account) \in Nat
    BY <1>2, FS_CardinalityType
  <2> HIDE DEF v, tokens, sessions
  <2>4. SumFunctionOnSet(tokens(v), Account) = 0 * Cardinality(Account)
    BY <1>2, <2>1, SumConstant
  <2>5. SumFunctionOnSet(sessions(v), Account) = 0 * Cardinality(Account)
    BY <1>2, <2>1, SumConstant
  <2>6. SumFunctionOnSet(f, {}) = 0
    BY FS_EmptySet, SumTaken
  <2>7. 1..0 = {}
    OBVIOUS
  <2>8. 0 * Cardinality(Account) = 0
    BY <2>3
  <2> QED
    BY <2>1, <2>2, <2>4, <2>5, <2>6, <2>7, <2>8
<1>5. ASSUME NEW k \in Nat, k \in P
      PROVE  k + 1 \in P
  <2> SUFFICES ASSUME k + 1 <= n
               PROVE  /\ g[1..(k + 1)] \in [Account -> Usage]
                      /\ SumFunctionOnSet(tokens(g[1..(k + 1)]), Account) = SumFunctionOnSet(f, 1..(k + 1))
                      /\ SumFunctionOnSet(sessions(g[1..(k + 1)]), Account) = k + 1
    OBVIOUS
  <2> DEFINE v == g[1..k]
             e == es[k + 1]
  <2>1. /\ v \in [Account -> Usage]
        /\ SumFunctionOnSet(tokens(v), Account) = SumFunctionOnSet(f, 1..k)
        /\ SumFunctionOnSet(sessions(v), Account) = k
    BY <1>5
  <2>2. k < n /\ k + 1 \in 1..n /\ e \in SessionEntry /\ f[k + 1] = e.tokens
    BY <1>3
  <2>3. g[1..(k + 1)] = Add(v, e)
    BY <1>1, <2>2
  <2>4. /\ tokens(v) \in [Account -> Nat] /\ sessions(v) \in [Account -> Nat]
        /\ e.role \in Account /\ e.tokens \in Nat
    BY <2>1, <2>2 DEF Usage, SessionEntry
  <2> HIDE DEF v, e
  <2>5. /\ Add(v, e) \in [Account -> Usage]
        /\ tokens(Add(v, e)) = [tokens(v) EXCEPT ![e.role] = @ + e.tokens]
        /\ sessions(Add(v, e)) = [sessions(v) EXCEPT ![e.role] = @ + 1]
    BY <2>1, <2>2, AddEntry
  <2> HIDE DEF tokens, sessions
  <2>6. SumFunctionOnSet(tokens(Add(v, e)), Account) = SumFunctionOnSet(tokens(v), Account) + e.tokens
    <3>1. SumFunctionOnSet([tokens(v) EXCEPT ![e.role] = @ + e.tokens], Account)
            = SumFunctionOnSet(tokens(v), Account) + e.tokens
      BY <1>2, <2>4, SumBumped
    <3> QED
      BY <2>5, <3>1
  <2>7. SumFunctionOnSet(sessions(Add(v, e)), Account) = SumFunctionOnSet(sessions(v), Account) + 1
    <3> DEFINE one == 1
    <3>1. one \in Nat
      OBVIOUS
    <3>2. sessions(Add(v, e)) = [sessions(v) EXCEPT ![e.role] = @ + one]
      BY <2>5
    <3> HIDE DEF one
    <3>3. SumFunctionOnSet([sessions(v) EXCEPT ![e.role] = @ + one], Account)
            = SumFunctionOnSet(sessions(v), Account) + one
      BY <1>2, <2>4, <3>1, SumBumped
    <3> QED
      BY <3>2, <3>3 DEF one
  <2>8. SumFunctionOnSet(f, 1..(k + 1)) = f[k + 1] + SumFunctionOnSet(f, 1..k)
        /\ SumFunctionOnSet(f, 1..k) \in Nat
    <3>1. 1..(k + 1) = (1..k) \cup {k + 1} /\ k + 1 \notin 1..k
      OBVIOUS
    <3>2. \A y \in (1..k) \cup {k + 1} : f[y] \in Nat
      BY <1>3
    <3>3. IsFiniteSet(1..k)
      BY FS_Interval
    <3> QED
      BY <3>1, <3>2, <3>3, SumAdded
  <2> QED
    BY <2>1, <2>2, <2>3, <2>4, <2>5, <2>6, <2>7, <2>8
<1>6. n \in P
  <2> HIDE DEF P
  <2> QED
    BY <1>4, <1>5, Steps
<1>7. n <= n
  OBVIOUS
<1>8. /\ g[1..n] \in [Account -> Usage]
      /\ SumFunctionOnSet(tokens(g[1..n]), Account) = SumFunctionOnSet(f, 1..n)
      /\ SumFunctionOnSet(sessions(g[1..n]), Account) = n
  BY <1>6, <1>7
<1> HIDE DEF P
<1> QED
  BY <1>1, <1>8 DEF f

-----------------------------------------------------------------------------
(* Costs: what the sessions add up to                                      *)

\* What a session cost is a number of tokens.
LEMMA TokensType ==
  ASSUME CostInv, NEW l \in Launch
  PROVE  Tokens(l) \in Nat
<1> DEFINE s == session[l].lines
<1>1. s \in Seq(Nat)
  BY DEF CostInv, CostTypes
<1>2. Tokens(l) = IF s = <<>> THEN 0 ELSE IF PlanOf[l].vendor = "claude" THEN SumFunction(s) ELSE s[Len(s)]
  BY DEF Tokens
<1> HIDE DEF s
<1>3. Len(s) \in Nat /\ DOMAIN s = 1..Len(s) /\ \A j \in DOMAIN s : s[j] \in Nat
  BY <1>1
<1>4. SumFunction(s) \in Nat
  <2>1. IsFiniteSet(DOMAIN s)
    BY <1>3, FS_Interval
  <2>2. SumFunctionOnSet(s, DOMAIN s) \in Nat
    BY <1>3, <2>1, SumTaken
  <2> QED
    BY <2>2 DEF SumFunction
<1>5. s # <<>> => s[Len(s)] \in Nat
  BY <1>1, <1>3
<1> QED
  BY <1>2, <1>4, <1>5

\* A session is put down to a role, or to nobody.
LEMMA EntryType ==
  ASSUME CostInv, NEW l \in Launch, Tokens(l) > 0, NEW dir \in Dir
  PROVE  Entry(l, dir, rows) \in SessionEntry /\ Entry(l, dir, rows).tokens = Tokens(l)
<1>1. Tokens(l) \in Nat
  BY TokensType
<1>2. PlanOf[l].vendor \in Vendor
  BY CostAssumption
<1>3. dir # Here => dir \in Account
  BY DEF Dir, Account
<1>4. Attribute(rows, StartOf(l)) \in Account
  <2>1. session[l] # NoSession
    <3>1. session[l] = NoSession => Tokens(l) = 0
      BY DEF Tokens, NoSession
    <3> QED
      BY <3>1
  <2>2. StartOf(l) \in Int
    BY <2>1, StartType
  <2>3. \A i \in DOMAIN rows : /\ i \in Nat /\ rows[i].created \in Int
                               /\ PlanOf[rows[i].launch].role \in Role
    BY RowType, CostAssumption DEF CostInv
  <2>4. \/ Attribute(rows, StartOf(l)) = Nobody
        \/ \E i \in DOMAIN rows : Attribute(rows, StartOf(l)) = PlanOf[rows[i].launch].role
    BY <2>2, <2>3, AttributeNearest
  <2> QED
    BY <2>3, <2>4 DEF Account
<1> QED
  BY <1>1, <1>2, <1>3, <1>4 DEF Entry, SessionEntry

\* What some sessions should add up to.
SumTimes(L) == SumFunctionOnSet([l \in L |-> Times(l)], L)
SumCosts(L) == SumFunctionOnSet([l \in L |-> Tokens(l) * Times(l)], L)

\* How often a session is counted is a number.
LEMMA TimesType ==
  ASSUME NEW l \in Launch
  PROVE  /\ Times(l) \in Nat
         /\ IsFiniteSet(Worktree \cup {Here})
<1>1. IsFiniteSet(Worktree \cup {Here})
  <2>1. IsFiniteSet(Worktree)
    BY CostAssumption, FS_Subset
  <2> QED
    BY <2>1, FS_AddElement
<1>2. IsFiniteSet({d \in Worktree \cup {Here} : Escape[d] = Escape[PlanOf[l].dir]})
  BY <1>1, FS_Subset
<1>3. Cardinality({d \in Worktree \cup {Here} : Escape[d] = Escape[PlanOf[l].dir]}) \in Nat
  BY <1>2, FS_CardinalityType
<1> QED
  BY <1>1, <1>3 DEF Times

\* claude's sessions: one entry for every directory whose path escapes like the
\* one the session ran in.
LEMMA ClaudeListed ==
  ASSUME CostInv
  PROVE  \E m \in Nat :
           /\ ClaudeEntries(rows) \in [1..m -> SessionEntry]
           /\ SumFunctionOnSet([j \in 1..m |-> ClaudeEntries(rows)[j].tokens], 1..m)
                = SumCosts(Spent("claude"))
           /\ m = SumTimes(Spent("claude"))
<1> DEFINE D == Worktree \cup {Here}
           L == Spent("claude")
           R == {x \in D \X L : Escape[x[1]] = Escape[PlanOf[x[2]].dir]}
           m == Cardinality(R)
           q == SetToSeq(R)
           C == ClaudeEntries(rows)
           Partners(l) == {d \in D : <<d, l>> \in R}
<1>1. /\ IsFiniteSet(L) /\ L \subseteq Launch
      /\ \A l \in L : PlanOf[l].vendor = "claude" /\ Tokens(l) > 0 /\ Tokens(l) \in Nat
  BY CostAssumption, TokensType, FS_Subset DEF Spent
<1>2. IsFiniteSet(D) /\ D \subseteq Dir
  <2>1. IsFiniteSet(Worktree) /\ Worktree \subseteq Role
    BY CostAssumption, FS_Subset
  <2>2. IsFiniteSet(D)
    BY <2>1, FS_AddElement
  <2> QED
    BY <2>1, <2>2 DEF Dir
<1>3. C = [i \in 1..m |-> Entry(q[i][2], q[i][1], rows)]
  BY DEF ClaudeEntries
<1>4. R \subseteq D \X L
  OBVIOUS
<1>5. ASSUME NEW l \in L
      PROVE  Times(l) = Cardinality(Partners(l)) /\ Times(l) \in Nat
  <2>1. Partners(l) = {d \in Worktree \cup {Here} : Escape[d] = Escape[PlanOf[l].dir]}
    OBVIOUS
  <2> QED
    BY <1>1, <2>1, TimesType DEF Times
<1> HIDE DEF R, L, D, C
<1>6. IsFiniteSet(R)
  BY <1>1, <1>2, <1>4, FS_Product, FS_Subset
<1>7. m \in Nat /\ q \in [1..m -> R]
  BY <1>6, SetListed
<1>8. \A x \in R : /\ x[1] \in D /\ x[2] \in L
                   /\ Entry(x[2], x[1], rows) \in SessionEntry
                   /\ Entry(x[2], x[1], rows).tokens = Tokens(x[2])
  <2>1. \A x \in R : x[1] \in D /\ x[2] \in L
    BY <1>4
  <2> QED
    BY <1>1, <1>2, <2>1, EntryType
<1>9. C \in [1..m -> SessionEntry] /\ \A j \in 1..m : C[j].tokens = Tokens(q[j][2])
  BY <1>3, <1>7, <1>8
<1>10. SumFunctionOnSet([j \in 1..m |-> C[j].tokens], 1..m) = SumCosts(L)
  <2> DEFINE w == [l \in L |-> Tokens(l)]
             f == [x \in R |-> w[x[2]]]
  <2>1. w \in [L -> Nat] /\ \A x \in R : f[x] = Tokens(x[2]) /\ f[x] \in Nat
    BY <1>1, <1>8
  <2>2. [j \in 1..m |-> C[j].tokens] = [j \in 1..m |-> f[q[j]]]
    BY <1>7, <1>9, <2>1
  <2>3. SumFunctionOnSet([j \in 1..m |-> f[q[j]]], 1..m) = SumFunctionOnSet(f, R)
    <3> HIDE DEF f
    <3> QED
      BY <1>6, <2>1, SumListed
  <2> DEFINE g == [l \in L |-> Tokens(l) * Times(l)]
  <2>4. SumFunctionOnSet(f, R) = SumFunctionOnSet(g, L)
    <3>1. \A l \in L : g[l] = w[l] * Cardinality({d \in D : <<d, l>> \in R})
      BY <1>5
    <3>2. \A x \in R : f[x] = w[x[2]]
      OBVIOUS
    <3> HIDE DEF w, f, g
    <3> QED
      BY <1>1, <1>2, <1>4, <2>1, <3>1, <3>2, SumByPartner
  <2>5. SumFunctionOnSet(g, L) = SumCosts(L)
    BY DEF SumCosts
  <2> HIDE DEF f, w, g
  <2> QED
    BY <2>2, <2>3, <2>4, <2>5 DEF SumCosts
<1>11. m = SumTimes(L)
  <2> DEFINE w == [l \in L |-> 1]
             f == [x \in R |-> w[x[2]]]
  <2>1. w \in [L -> Nat] /\ \A x \in R : f[x] = 1
    BY <1>8
  <2>2. SumFunctionOnSet(f, R) = 1 * m
    <3> HIDE DEF f, m
    <3> DEFINE one == 1
    <3>1. one \in Nat /\ \A x \in R : f[x] = one
      BY <2>1
    <3> HIDE DEF one
    <3>2. SumFunctionOnSet(f, R) = one * Cardinality(R)
      BY <1>6, <3>1, SumConstant
    <3> QED
      BY <3>2 DEF one, m
  <2> DEFINE g == [l \in L |-> Times(l)]
  <2>3. SumFunctionOnSet(f, R) = SumFunctionOnSet(g, L)
    <3>1. \A l \in L : g[l] = w[l] * Cardinality({d \in D : <<d, l>> \in R})
      BY <1>5
    <3>2. \A x \in R : f[x] = w[x[2]]
      OBVIOUS
    <3> HIDE DEF w, f, g
    <3> QED
      BY <1>1, <1>2, <1>4, <2>1, <3>1, <3>2, SumByPartner
  <2>4. SumFunctionOnSet(g, L) = SumTimes(L)
    BY DEF SumTimes
  <2>5. 1 * m = m
    BY <1>7
  <2> HIDE DEF f, w, g, m
  <2> QED
    BY <2>2, <2>3, <2>4, <2>5 DEF SumTimes
<1> HIDE DEF m
<1> QED
  BY <1>7, <1>9, <1>10, <1>11 DEF C, L

\* codex's sessions: one entry for each that is opened.
LEMMA CodexListed ==
  ASSUME CostInv, NEW S
  PROVE  \E n \in Nat :
           /\ CodexEntries(rows, S) \in [1..n -> SessionEntry]
           /\ SumFunctionOnSet([j \in 1..n |-> CodexEntries(rows, S)[j].tokens], 1..n)
                = SumCosts(Spent("codex") \cap S)
           /\ n = SumTimes(Spent("codex") \cap S)
<1> DEFINE L == Spent("codex") \cap S
           n == Cardinality(L)
           q == SetToSeq(L)
           C == CodexEntries(rows, S)
<1>1. /\ IsFiniteSet(L) /\ L \subseteq Launch
      /\ \A l \in L : PlanOf[l].vendor = "codex" /\ Tokens(l) > 0 /\ Tokens(l) \in Nat
  BY CostAssumption, TokensType, FS_Subset DEF Spent
<1>2. C = [i \in DOMAIN q |-> Entry(q[i], PlanOf[q[i]].dir, rows)]
  BY DEF CodexEntries
<1>3. \A l \in L : Times(l) = 1
  BY <1>1 DEF Times
<1> HIDE DEF L, C
<1>4. n \in Nat /\ q \in [1..n -> L]
  BY <1>1, SetListed
<1>5. \A l \in L : /\ Entry(l, PlanOf[l].dir, rows) \in SessionEntry
                   /\ Entry(l, PlanOf[l].dir, rows).tokens = Tokens(l)
  <2>1. \A l \in L : PlanOf[l].dir \in Dir
    BY <1>1, CostAssumption
  <2> QED
    BY <1>1, <2>1, EntryType
<1>6. C \in [1..n -> SessionEntry] /\ \A j \in 1..n : C[j].tokens = Tokens(q[j])
  BY <1>2, <1>4, <1>5
<1>7. SumFunctionOnSet([j \in 1..n |-> C[j].tokens], 1..n) = SumCosts(L)
  <2> DEFINE f == [l \in L |-> Tokens(l) * Times(l)]
  <2>1. \A l \in L : f[l] = Tokens(l) /\ f[l] \in Nat
    BY <1>1, <1>3
  <2>2. [j \in 1..n |-> C[j].tokens] = [j \in 1..n |-> f[q[j]]]
    BY <1>4, <1>6, <2>1
  <2>3. SumFunctionOnSet([j \in 1..n |-> f[q[j]]], 1..n) = SumFunctionOnSet(f, L)
    <3> HIDE DEF f
    <3> QED
      BY <1>1, <2>1, SumListed
  <2> QED
    BY <2>2, <2>3 DEF SumCosts
<1>8. n = SumTimes(L)
  <2> DEFINE f == [l \in L |-> Times(l)]
             one == 1
  <2>1. one \in Nat /\ \A l \in L : f[l] = one
    BY <1>3
  <2> HIDE DEF f, one, n
  <2>2. SumFunctionOnSet(f, L) = one * Cardinality(L)
    BY <1>1, <2>1, SumConstant
  <2>3. SumFunctionOnSet(f, L) = n
    BY <1>4, <2>2 DEF one, n
  <2> QED
    BY <2>3 DEF SumTimes, f
<1> HIDE DEF n
<1> QED
  BY <1>4, <1>6, <1>7, <1>8 DEF C, L

\* Below the cap a scan opens all of codex's logs.
LEMMA AllVisited ==
  ASSUME CostInv, NEW e \in 0..Elsewhere, NEW S \in Visits(e), Cardinality(CodexLogs) + e <= Cap
  PROVE  Spent("codex") \subseteq S
<1>1. IsFiniteSet(CodexLogs) /\ S \subseteq CodexLogs
  BY CostAssumption, FS_Subset DEF CodexLogs, Visits
<1>2. /\ IsFiniteSet(S) /\ Cardinality(S) \in Nat /\ Cardinality(CodexLogs) \in Nat
      /\ e \in Nat /\ Cap \in Nat
  BY <1>1, CostAssumption, FS_Subset, FS_CardinalityType
<1>3. Cardinality(S) >= Cardinality(CodexLogs)
  <2> DEFINE all == Cardinality(CodexLogs) + e
  <2>1. Cardinality(S) \in ((IF all <= Cap THEN all ELSE Cap) - e)..(IF all <= Cap THEN all ELSE Cap)
    BY DEF Visits
  <2>2. Cardinality(S) \in (all - e)..all
    BY <2>1
  <2> QED
    BY <1>2, <2>2
<1>4. S = CodexLogs
  <2>1. Cardinality(S) <= Cardinality(CodexLogs) /\ (Cardinality(S) = Cardinality(CodexLogs) => S = CodexLogs)
    BY <1>1, FS_Subset
  <2> QED
    BY <1>2, <1>3, <2>1
<1>5. ASSUME NEW l \in Spent("codex")
      PROVE  l \in CodexLogs
  <2>1. l \in Launch /\ PlanOf[l].vendor = "codex" /\ Tokens(l) > 0
    BY DEF Spent
  <2>2. session[l] = NoSession => Tokens(l) = 0
    BY DEF Tokens, NoSession
  <2> QED
    BY <2>1, <2>2 DEF CodexLogs
<1> QED
  BY <1>4, <1>5

\* Nothing a scan opens is lost and nothing is counted twice: whatever the
\* sessions, their directories and their vendors, and whatever role each of them
\* is put down to, the accounts add up to what those logs say; and below the cap
\* these are all logs.
THEOREM NoTokenLost == CostSpec => []TokensConserved
<1>1. CostInv => TokensConserved
  <2> SUFFICES ASSUME CostInv, NEW others \in 0..Elsewhere, NEW S \in Visits(others)
               PROVE  LET ledger == Ledger(rows, S)
                          counted == Spent("claude") \cup (Spent("codex") \cap S)
                      IN  /\ SumFunction([r \in DOMAIN ledger |-> ledger[r].tokens])
                               = SumFunction([l \in counted |-> Tokens(l) * Times(l)])
                          /\ SumFunction([r \in DOMAIN ledger |-> ledger[r].sessions])
                               = SumFunction([l \in counted |-> Times(l)])
                          /\ Cardinality(CodexLogs) + others <= Cap => Spent("codex") \subseteq S
    BY DEF TokensConserved
  <2> DEFINE A == Spent("claude")
             B == Spent("codex") \cap S
             all == A \cup B
             cost == [l \in all |-> Tokens(l) * Times(l)]
             often == [l \in all |-> Times(l)]
             C == ClaudeEntries(rows)
             E == CodexEntries(rows, S)
             empty == [r \in Account |-> NoUsage]
             ledger == FoldLeft(Add, empty, C \o E)
  <2>1. PICK m \in Nat : /\ C \in [1..m -> SessionEntry]
                         /\ SumFunctionOnSet([j \in 1..m |-> C[j].tokens], 1..m) = SumCosts(A)
                         /\ m = SumTimes(A)
    BY ClaudeListed
  <2>2. PICK n \in Nat : /\ E \in [1..n -> SessionEntry]
                         /\ SumFunctionOnSet([j \in 1..n |-> E[j].tokens], 1..n) = SumCosts(B)
                         /\ n = SumTimes(B)
    BY CodexListed
  <2>3. /\ IsFiniteSet(A) /\ IsFiniteSet(B) /\ A \cap B = {}
        /\ \A l \in all : l \in Launch /\ Tokens(l) \in Nat /\ Times(l) \in Nat
    BY CostAssumption, TokensType, TimesType, FS_Subset DEF Spent
  <2>4. \A l \in all : /\ cost[l] = Tokens(l) * Times(l) /\ cost[l] \in Nat
                       /\ often[l] = Times(l) /\ often[l] \in Nat
    <3>1. \A a, b \in Nat : a * b \in Nat
      OBVIOUS
    <3> QED
      BY <2>3, <3>1
  <2>5. SumFunction(cost) = SumCosts(A) + SumCosts(B)
    <3> DEFINE inA == [l \in A |-> Tokens(l) * Times(l)]
               inB == [l \in B |-> Tokens(l) * Times(l)]
    <3>1. (\A l \in A : cost[l] = inA[l]) /\ (\A l \in B : cost[l] = inB[l]) /\ DOMAIN cost = A \cup B
      OBVIOUS
    <3> HIDE DEF cost, inA, inB, A, B
    <3>2. SumFunctionOnSet(cost, A \cup B) = SumFunctionOnSet(cost, A) + SumFunctionOnSet(cost, B)
      BY <2>3, <2>4, SumUnion
    <3>3. SumFunctionOnSet(cost, A) = SumFunctionOnSet(inA, A)
      BY <2>3, <2>4, <3>1, SumSame
    <3>4. SumFunctionOnSet(cost, B) = SumFunctionOnSet(inB, B)
      BY <2>3, <2>4, <3>1, SumSame
    <3> QED
      BY <3>1, <3>2, <3>3, <3>4 DEF SumFunction, SumCosts, inA, inB
  <2>6. SumFunction(often) = SumTimes(A) + SumTimes(B)
    <3> DEFINE inA == [l \in A |-> Times(l)]
               inB == [l \in B |-> Times(l)]
    <3>1. (\A l \in A : often[l] = inA[l]) /\ (\A l \in B : often[l] = inB[l]) /\ DOMAIN often = A \cup B
      OBVIOUS
    <3> HIDE DEF often, inA, inB, A, B
    <3>2. SumFunctionOnSet(often, A \cup B) = SumFunctionOnSet(often, A) + SumFunctionOnSet(often, B)
      BY <2>3, <2>4, SumUnion
    <3>3. SumFunctionOnSet(often, A) = SumFunctionOnSet(inA, A)
      BY <2>3, <2>4, <3>1, SumSame
    <3>4. SumFunctionOnSet(often, B) = SumFunctionOnSet(inB, B)
      BY <2>3, <2>4, <3>1, SumSame
    <3> QED
      BY <3>1, <3>2, <3>3, <3>4 DEF SumFunction, SumTimes, inA, inB
  <2>7. /\ C \o E \in [1..(m + n) -> SessionEntry]
        /\ SumFunctionOnSet([j \in 1..(m + n) |-> (C \o E)[j].tokens], 1..(m + n)) = SumCosts(A) + SumCosts(B)
    <3> DEFINE fc == [j \in 1..m |-> C[j].tokens]
               fe == [j \in 1..n |-> E[j].tokens]
               f == [j \in 1..(m + n) |-> (C \o E)[j].tokens]
    <3> HIDE DEF C, E, A, B
    <3>1. /\ C \o E \in [1..(m + n) -> SessionEntry]
          /\ \A j \in 1..m : (C \o E)[j] = C[j]
          /\ \A j \in 1..n : (C \o E)[m + j] = E[j]
      <4>1. C \in [1..m -> SessionEntry] /\ E \in [1..n -> SessionEntry]
        BY <2>1, <2>2
      <4>2. C \o E \in [1..(m + n) -> SessionEntry]
        BY <4>1, Concatenated
      <4>3. \A j \in 1..m : (C \o E)[j] = C[j]
        BY <4>1, Concatenated
      <4>4. \A j \in 1..n : (C \o E)[m + j] = E[j]
        BY <4>1, Concatenated
      <4> QED
        BY <4>2, <4>3, <4>4
    <3>2. f \in [1..(m + n) -> Nat]
      <4>1. \A e \in SessionEntry : e.tokens \in Nat
        BY DEF SessionEntry
      <4>2. \A j \in 1..(m + n) : (C \o E)[j] \in SessionEntry
        BY <3>1
      <4> QED
        BY <4>1, <4>2
    <3>3. \A j \in 1..m : fc[j] = f[j] /\ f[j] \in Nat
      <4>1. \A j \in 1..m : j \in 1..(m + n)
        OBVIOUS
      <4>2. \A j \in 1..m : fc[j] = f[j]
        BY <3>1, <4>1
      <4> HIDE DEF f, fc
      <4> QED
        BY <3>2, <4>1, <4>2
    <3>4. \A j \in 1..n : m + j \in 1..(m + n) /\ fe[j] = f[m + j]
      BY <3>1
    <3> HIDE DEF f, fc, fe
    <3>5. SumFunctionOnSet(f, 1..(m + n)) = SumFunctionOnSet(f, 1..m) + SumFunctionOnSet(fe, 1..n)
      <4>1. f \in [1..(m + n) -> Nat]
        BY <3>2
      <4>2. \A j \in 1..n : fe[j] = f[m + j]
        BY <3>4
      <4>3. m \in Nat /\ n \in Nat
        OBVIOUS
      <4> QED
        BY <4>1, <4>2, <4>3, SumShifted
    <3>6. IsFiniteSet(1..m)
      BY FS_Interval
    <3>7. SumFunctionOnSet(fc, 1..m) = SumFunctionOnSet(f, 1..m)
      BY <3>3, <3>6, SumSame
    <3> QED
      BY <2>1, <2>2, <3>1, <3>5, <3>7 DEF f, fc, fe
  <2>8. /\ ledger \in [Account -> Usage]
        /\ SumFunctionOnSet([r \in Account |-> ledger[r].tokens], Account) = SumCosts(A) + SumCosts(B)
        /\ SumFunctionOnSet([r \in Account |-> ledger[r].sessions], Account) = m + n
    <3> DEFINE es == C \o E
    <3>1. es \in [1..(m + n) -> SessionEntry] /\ m + n \in Nat
      BY <2>7
    <3> HIDE DEF es
    <3>2. /\ FoldLeft(Add, empty, es) \in [Account -> Usage]
          /\ SumFunctionOnSet([r \in Account |-> FoldLeft(Add, empty, es)[r].tokens], Account)
               = SumFunctionOnSet([j \in 1..(m + n) |-> es[j].tokens], 1..(m + n))
          /\ SumFunctionOnSet([r \in Account |-> FoldLeft(Add, empty, es)[r].sessions], Account) = m + n
      BY <3>1, LedgerSums
    <3> QED
      BY <2>7, <3>2 DEF es
  <2>9. Ledger(rows, S) = ledger
    BY DEF Ledger, Account
  <2>10. DOMAIN ledger = Account
    BY <2>8
  <2>11. Cardinality(CodexLogs) + others <= Cap => Spent("codex") \subseteq S
    BY AllVisited
  <2>12. /\ SumFunction([r \in Account |-> ledger[r].tokens]) = SumFunction(cost)
         /\ SumFunction([r \in Account |-> ledger[r].sessions]) = SumFunction(often)
    <3> HIDE DEF ledger, cost, often, A, B
    <3>1. /\ SumFunction([r \in Account |-> ledger[r].tokens]) = SumCosts(A) + SumCosts(B)
          /\ SumFunction([r \in Account |-> ledger[r].sessions]) = m + n
      BY <2>8 DEF SumFunction
    <3> QED
      BY <2>1, <2>2, <2>5, <2>6, <3>1
  <2> HIDE DEF ledger
  <2> QED
    BY <2>9, <2>10, <2>11, <2>12
<1> QED
  BY <1>1, CostInvariant, PTL
=============================================================================
