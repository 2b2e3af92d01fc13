------------------------ MODULE ToolApproval_proofs ------------------------
(***************************************************************************)
(* EffectsLicensed and CardsAnswerable hold for every set of runs, every   *)
(* policy and any number of turns and calls.  The inductive invariant adds *)
(* what ties a waiting run, its card and its entry in the approvals map    *)
(* together: ids are never used twice, so an answer reaches the one call   *)
(* its card was made for.  With it, every step maps to a step of Consent   *)
(* or to none.                                                             *)
(***************************************************************************)
EXTENDS ToolApproval, TLAPS

\* Ids in use are below nextId; a card's id is its own, and a run whose card
\* is not out yet shares its id with nobody.
FreshIds ==
  /\ \A i \in approvals : i < nextId
  /\ \A c \in cards : c.id < nextId
  /\ \A r \in Run : Asked(r) => call[r].id < nextId
  /\ \A c, d \in cards : c.id = d.id => c = d
  /\ \A r \in Run : stage[r] = "asking" => \A c \in cards : c.id # call[r].id
  /\ \A r, q \in Run :
       stage[r] = "asking" /\ stage[q] = "asking" /\ call[r].id = call[q].id => r = q
  /\ \A r \in Run : stage[r] = "waiting" => call[r] \in cards

\* A reply is in the channel exactly when the card has been answered, and it
\* is "allow" only when its first answer was.
RepliesFaithful ==
  \A r \in Run :
    /\ stage[r] = "asking" => reply[r] = "none"
    /\ stage[r] = "waiting" => (reply[r] = "none" <=> call[r] \notin clicked)
    /\ stage[r] = "waiting" /\ reply[r] = "allow" => call[r] \in granted

\* What runs was let through by the gate or allowed by a person.
RunningLicensed ==
  \A r \in Run : stage[r] = "running" =>
    call[r] \in granted \/ Verdict(r, call[r].tool) = "run"

ToolInv ==
  /\ ToolTypeOK
  /\ FreshIds
  /\ RepliesFaithful
  /\ CardsAnswerable
  /\ RunningLicensed
  /\ EffectsLicensed

\* The tail of a list of more than one call is a list of at least one.
LEMMA TailNotEmpty ==
  ASSUME NEW s \in Seq(Tool), s # <<>>
  PROVE  /\ Head(s) \in Tool
         /\ Tail(s) \in Seq(Tool)
         /\ Len(s) > 1 => Tail(s) # <<>>
  OBVIOUS

\* A call the gate let through is licensed if execute goes ahead with it.
LEMMA RunVerdictLicensed ==
  ASSUME ToolAssumption, NEW r \in Run, NEW t \in Tool, NEW c,
         c.run = r, c.tool = t, Executes(r, t),
         Verdict(r, t) = "run" \/ c \in granted
  PROVE  Licensed(c)
  BY DEF ToolAssumption, Executes, Verdict, Gate, Licensed

\* Nothing holds before the first run has started.
LEMMA ToolInitInv ==
  ToolInit => ToolInv
  BY ToolAssumption DEF ToolInit, ToolInv, ToolTypeOK, FreshIds, RepliesFaithful,
    CardsAnswerable, RunningLicensed, EffectsLicensed, Card, Asked, Stage

-----------------------------------------------------------------------------

\* A step that moves one run to another stage.
LEMMA OneStage ==
  ASSUME stage \in [Run -> Stage], NEW r \in Run, NEW s \in Stage,
         stage' = [stage EXCEPT ![r] = s]
  PROVE  /\ stage' \in [Run -> Stage]
         /\ stage'[r] = s
         /\ \A q \in Run : q # r => stage'[q] = stage[q]
  OBVIOUS

\* Leaving calls, cards and replies alone keeps what ties them together, as
\* long as no run starts to ask or wait.
LEMMA SameCalls ==
  ASSUME ToolInv,
         \A q \in Run : stage'[q] \in {"asking", "waiting"} => stage'[q] = stage[q],
         UNCHANGED <<call, reply, approvals, nextId, cards, clicked, granted>>
  PROVE  FreshIds' /\ RepliesFaithful' /\ CardsAnswerable'
<1>1. /\ \A i \in approvals' : i < nextId'
      /\ \A c \in cards' : c.id < nextId'
      /\ \A c, d \in cards' : c.id = d.id => c = d
  BY DEF ToolInv, FreshIds
<1>2. \A r \in Run : Asked(r)' => Asked(r)
  BY DEF Asked
<1>3. /\ \A r \in Run : Asked(r)' => call'[r].id < nextId'
      /\ \A r \in Run : stage'[r] = "asking" => \A c \in cards' : c.id # call'[r].id
      /\ \A r \in Run : stage'[r] = "waiting" => call'[r] \in cards'
  BY <1>2 DEF ToolInv, FreshIds
<1>4. \A r, q \in Run :
        stage'[r] = "asking" /\ stage'[q] = "asking" /\ call'[r].id = call'[q].id => r = q
  BY DEF ToolInv, FreshIds
<1>5. FreshIds'
  BY <1>1, <1>3, <1>4 DEF FreshIds
<1>6. RepliesFaithful'
  BY DEF ToolInv, RepliesFaithful
<1>7. CardsAnswerable'
  BY <1>2 DEF ToolInv, CardsAnswerable
<1> QED
  BY <1>5, <1>6, <1>7

\* Leaving calls, cards and replies alone keeps the invariant, as long as no
\* run starts to ask, wait or run.
LEMMA QuietStep ==
  ASSUME ToolInv, ToolTypeOK',
         \A q \in Run : stage'[q] \in {"asking", "waiting", "running"} => stage'[q] = stage[q],
         UNCHANGED <<call, reply, approvals, nextId, cards, clicked, granted, effects>>
  PROVE  ToolInv'
<1>1. FreshIds' /\ RepliesFaithful' /\ CardsAnswerable'
  BY SameCalls
<1>2. RunningLicensed'
  BY DEF ToolInv, RunningLicensed
<1>3. EffectsLicensed'
  BY DEF ToolInv, EffectsLicensed, Licensed
<1> QED
  BY <1>1, <1>2, <1>3 DEF ToolInv

\* Starting a run, a model turn and the end of a run leave calls alone.
LEMMA LoopStepInv ==
  ASSUME ToolInv, NEW r \in Run,
         Start(r) \/ End(r) \/ \E ts \in Batches : Reply(r, ts)
  PROVE  ToolInv'
<1>0. ToolTypeOK
  BY DEF ToolInv
<1>1. CASE Start(r) \/ End(r)
  <2>1. PICK s \in {"thinking", "over"} : stage' = [stage EXCEPT ![r] = s]
    BY <1>1 DEF Start, End
  <2>2. /\ stage' \in [Run -> Stage]
        /\ stage'[r] = s
        /\ \A q \in Run : q # r => stage'[q] = stage[q]
    BY <1>0, <2>1, OneStage DEF ToolTypeOK, Stage
  <2>3. UNCHANGED <<turn, todo, call, reply, approvals, nextId, cards, clicked, granted, effects>>
    BY <1>1 DEF Start, End
  <2>4. ToolTypeOK'
    BY <1>0, <2>2, <2>3 DEF ToolTypeOK
  <2> QED
    BY <2>2, <2>3, <2>4, QuietStep
<1>2. ASSUME NEW ts \in Batches, Reply(r, ts)
      PROVE  ToolInv'
  <2>1. ts \in Seq(Tool) /\ ts # <<>>
    BY <1>2, ToolAssumption DEF Reply
  <2>2. /\ stage' \in [Run -> Stage]
        /\ stage'[r] = "gating"
        /\ \A q \in Run : q # r => stage'[q] = stage[q]
    BY <1>0, <1>2, OneStage DEF ToolTypeOK, Stage, Reply
  <2>3. /\ turn' \in [Run -> Nat]
        /\ todo' \in [Run -> Seq(Tool)]
        /\ todo'[r] = ts
        /\ \A q \in Run : q # r => todo'[q] = todo[q]
    BY <1>0, <1>2, <2>1 DEF ToolTypeOK, Reply
  <2>4. UNCHANGED <<call, reply, approvals, nextId, cards, clicked, granted, effects>>
    BY <1>2 DEF Reply
  <2>5. ToolTypeOK'
    BY <1>0, <2>1, <2>2, <2>3, <2>4 DEF ToolTypeOK
  <2> QED
    BY <2>2, <2>4, <2>5, QuietStep
<1> QED
  BY <1>1, <1>2

\* AfterCall leaves the run between two calls or between two model turns.
LEMMA AfterCallStage ==
  ASSUME ToolTypeOK, NEW r \in Run, todo[r] # <<>>, AfterCall(r)
  PROVE  /\ stage' \in [Run -> Stage]
         /\ todo' \in [Run -> Seq(Tool)]
         /\ stage'[r] \in {"gating", "thinking"}
         /\ \A q \in Run : q # r => stage'[q] = stage[q]
         /\ \A q \in Run :
              stage'[q] \in {"gating", "asking", "waiting", "running"} => todo'[q] # <<>>
<1>1. /\ Tail(todo[r]) \in Seq(Tool)
      /\ Len(todo[r]) > 1 => Tail(todo[r]) # <<>>
  BY TailNotEmpty DEF ToolTypeOK
<1>2. PICK s \in {"gating", "thinking"} :
        /\ stage' = [stage EXCEPT ![r] = s]
        /\ s = "gating" => Len(todo[r]) > 1
  BY DEF AfterCall
<1>3. /\ stage' \in [Run -> Stage]
      /\ stage'[r] = s
      /\ \A q \in Run : q # r => stage'[q] = stage[q]
  BY <1>2, OneStage DEF ToolTypeOK, Stage
<1>4. /\ todo' \in [Run -> Seq(Tool)]
      /\ todo'[r] = Tail(todo[r])
      /\ \A q \in Run : q # r => todo'[q] = todo[q]
  BY <1>1 DEF ToolTypeOK, AfterCall
<1> QED
  BY <1>1, <1>2, <1>3, <1>4 DEF ToolTypeOK

\* A refused call, by the gate or by the person, changes nothing else.
LEMMA RefusalInv ==
  ASSUME ToolInv, NEW r \in Run, todo[r] # <<>>, AfterCall(r),
         UNCHANGED <<turn, call, reply, approvals, nextId, cards, clicked, granted, effects>>
  PROVE  ToolInv'
<1>0. ToolTypeOK
  BY DEF ToolInv
<1>1. /\ stage' \in [Run -> Stage]
      /\ todo' \in [Run -> Seq(Tool)]
      /\ stage'[r] \in {"gating", "thinking"}
      /\ \A q \in Run : q # r => stage'[q] = stage[q]
      /\ \A q \in Run :
           stage'[q] \in {"gating", "asking", "waiting", "running"} => todo'[q] # <<>>
  BY <1>0, AfterCallStage
<1>2. ToolTypeOK'
  BY <1>0, <1>1 DEF ToolTypeOK
<1> QED
  BY <1>1, <1>2, QuietStep

-----------------------------------------------------------------------------

\* The gate lets a call through.
LEMMA RunAtOnceInv ==
  ASSUME ToolInv, NEW r \in Run, RunAtOnce(r)
  PROVE  ToolInv'
<1>0. ToolTypeOK
  BY DEF ToolInv
<1>1. /\ stage' \in [Run -> Stage]
      /\ stage'[r] = "running"
      /\ \A q \in Run : q # r => stage'[q] = stage[q]
  BY <1>0, OneStage DEF ToolTypeOK, Stage, RunAtOnce
<1>2. stage[r] = "gating" /\ todo[r] # <<>> /\ Head(todo[r]) \in Tool
  BY <1>0, TailNotEmpty DEF ToolTypeOK, RunAtOnce
<1>3. CallOf(r, 0) \in Card /\ CallOf(r, 0).run = r /\ CallOf(r, 0).tool = Head(todo[r])
  BY <1>2 DEF CallOf, Card
<1>4. /\ call' \in [Run -> Card \cup {[id |-> 0]}]
      /\ call'[r] = CallOf(r, 0)
      /\ \A q \in Run : q # r => call'[q] = call[q]
  BY <1>0, <1>3 DEF ToolTypeOK, RunAtOnce
<1>5. UNCHANGED <<turn, todo, reply, approvals, nextId, cards, clicked, granted, effects>>
  BY DEF RunAtOnce
<1>6. ToolTypeOK'
  BY <1>0, <1>1, <1>2, <1>3, <1>4, <1>5 DEF ToolTypeOK
<1>7. FreshIds' /\ RepliesFaithful' /\ CardsAnswerable'
  <2>1. FreshIds'
    BY <1>1, <1>4, <1>5 DEF ToolInv, FreshIds, Asked
  <2>2. RepliesFaithful'
    BY <1>1, <1>4, <1>5 DEF ToolInv, RepliesFaithful
  <2>3. CardsAnswerable'
    BY <1>1, <1>4, <1>5 DEF ToolInv, CardsAnswerable, Asked
  <2> QED
    BY <2>1, <2>2, <2>3
<1>8. RunningLicensed'
  <2>1. Verdict(r, call'[r].tool) = "run"
    BY <1>3, <1>4 DEF RunAtOnce
  <2> QED
    BY <1>1, <1>4, <1>5, <2>1 DEF ToolInv, RunningLicensed
<1>9. EffectsLicensed'
  BY <1>5 DEF ToolInv, EffectsLicensed, Licensed
<1> QED
  BY <1>6, <1>7, <1>8, <1>9 DEF ToolInv

\* A call is registered under a fresh id.
LEMMA AskInv ==
  ASSUME ToolInv, NEW r \in Run, Ask(r)
  PROVE  ToolInv'
<1>0. ToolTypeOK
  BY DEF ToolInv
<1>1. /\ stage' \in [Run -> Stage]
      /\ stage'[r] = "asking"
      /\ \A q \in Run : q # r => stage'[q] = stage[q]
  BY <1>0, OneStage DEF ToolTypeOK, Stage, Ask
<1>2. stage[r] = "gating" /\ todo[r] # <<>> /\ Head(todo[r]) \in Tool /\ nextId \in Nat \ {0}
  BY <1>0, TailNotEmpty DEF ToolTypeOK, Ask
<1>3. CallOf(r, nextId) \in Card /\ CallOf(r, nextId).run = r /\ CallOf(r, nextId).id = nextId
  BY <1>2 DEF CallOf, Card
<1>4. /\ call' \in [Run -> Card \cup {[id |-> 0]}]
      /\ call'[r] = CallOf(r, nextId)
      /\ \A q \in Run : q # r => call'[q] = call[q]
  BY <1>0, <1>3 DEF ToolTypeOK, Ask
<1>5. /\ reply' \in [Run -> {"none", "allow", "deny"}]
      /\ reply'[r] = "none"
      /\ \A q \in Run : q # r => reply'[q] = reply[q]
  BY <1>0 DEF ToolTypeOK, Ask
<1>6. /\ approvals' = approvals \cup {nextId}
      /\ nextId' = nextId + 1
      /\ UNCHANGED <<turn, todo, cards, clicked, granted, effects>>
  BY DEF Ask
<1>7. ToolTypeOK'
  BY <1>0, <1>1, <1>2, <1>3, <1>4, <1>5, <1>6 DEF ToolTypeOK
<1>8. FreshIds'
  <2>1. \A q \in Run : q # r /\ Asked(q) => call[q].id \in Nat /\ call[q].id < nextId
    BY <1>0 DEF ToolInv, ToolTypeOK, FreshIds, Asked, Card
  <2>2. \A c \in cards : c.id \in Nat /\ c.id < nextId
    BY <1>0 DEF ToolInv, ToolTypeOK, FreshIds, Card
  <2>3. \A i \in approvals : i \in Nat /\ i < nextId
    BY <1>0 DEF ToolInv, ToolTypeOK, FreshIds
  <2> QED
    BY <1>1, <1>2, <1>3, <1>4, <1>6, <2>1, <2>2, <2>3 DEF ToolInv, FreshIds, Asked
<1>9. RepliesFaithful'
  BY <1>1, <1>4, <1>5, <1>6 DEF ToolInv, RepliesFaithful
<1>10. CardsAnswerable'
  <2>1. \A q \in Run : q # r /\ Asked(q) => call[q].id # nextId
    BY <1>0, <1>2 DEF ToolInv, ToolTypeOK, FreshIds, Asked, Card
  <2> QED
    BY <1>1, <1>3, <1>4, <1>5, <1>6, <2>1 DEF ToolInv, CardsAnswerable, Asked
<1>11. RunningLicensed'
  BY <1>1, <1>4, <1>6 DEF ToolInv, RunningLicensed
<1>12. EffectsLicensed'
  BY <1>6 DEF ToolInv, EffectsLicensed, Licensed
<1> QED
  BY <1>7, <1>8, <1>9, <1>10, <1>11, <1>12 DEF ToolInv

\* The card reaches the client: nobody has clicked it yet.
LEMMA ShowInv ==
  ASSUME ToolInv, NEW r \in Run, Show(r)
  PROVE  ToolInv'
<1>0. ToolTypeOK
  BY DEF ToolInv
<1>1. /\ stage' \in [Run -> Stage]
      /\ stage[r] = "asking"
      /\ stage'[r] = "waiting"
      /\ \A q \in Run : q # r => stage'[q] = stage[q]
  BY <1>0, OneStage DEF ToolTypeOK, Stage, Show
<1>2. call[r] \in Card /\ call[r].run = r
  BY <1>0, <1>1 DEF ToolTypeOK
<1>3. /\ cards' = cards \cup {call[r]}
      /\ UNCHANGED <<turn, todo, call, reply, approvals, nextId, clicked, granted, effects>>
  BY DEF Show
<1>4. ToolTypeOK'
  BY <1>0, <1>1, <1>2, <1>3 DEF ToolTypeOK
<1>5. FreshIds'
  BY <1>1, <1>2, <1>3 DEF ToolInv, FreshIds, Asked
<1>6. RepliesFaithful'
  <2>1. call[r] \notin clicked
    BY <1>0, <1>1 DEF ToolInv, ToolTypeOK, FreshIds
  <2> QED
    BY <1>1, <1>3, <2>1 DEF ToolInv, RepliesFaithful
<1>7. CardsAnswerable' /\ RunningLicensed'
  BY <1>1, <1>3 DEF ToolInv, CardsAnswerable, RunningLicensed, Asked
<1>8. EffectsLicensed'
  BY <1>3 DEF ToolInv, EffectsLicensed, Licensed
<1> QED
  BY <1>4, <1>5, <1>6, <1>7, <1>8 DEF ToolInv

\* An answer reaches the run the card was made for, and no other.
LEMMA ApproveToolInv ==
  ASSUME ToolInv, NEW c \in cards, NEW allow \in BOOLEAN, ApproveTool(c, allow)
  PROVE  ToolInv'
<1>0. ToolTypeOK /\ c \in Card /\ c.run \in Run
  BY DEF ToolInv, ToolTypeOK, Card
<1>1. /\ approvals' = approvals \ {c.id}
      /\ clicked' = clicked \cup {c}
      /\ UNCHANGED <<stage, turn, todo, call, nextId, cards, effects>>
  BY DEF ApproveTool
<1>2. \A q \in Run : Asked(q) /\ call[q].id = c.id => q = c.run /\ Awaited(c)
  <2> SUFFICES ASSUME NEW q \in Run, Asked(q), call[q].id = c.id
               PROVE  q = c.run /\ Awaited(c)
    OBVIOUS
  <2>1. stage[q] = "waiting"
    BY DEF ToolInv, FreshIds, Asked
  <2>2. call[q] = c
    BY <2>1 DEF ToolInv, FreshIds
  <2> QED
    BY <1>0, <2>1, <2>2 DEF ToolTypeOK, Awaited
<1>3. /\ reply' \in [Run -> {"none", "allow", "deny"}]
      /\ \A q \in Run : q # c.run => reply'[q] = reply[q]
      /\ ~Awaited(c) => reply' = reply
  BY <1>0 DEF ToolTypeOK, ApproveTool
<1>4. granted \subseteq granted' /\ granted' \subseteq granted \cup {c} /\ granted' \subseteq clicked'
  BY <1>0 DEF ToolTypeOK, ApproveTool
<1>5. ToolTypeOK'
  BY <1>0, <1>1, <1>3, <1>4 DEF ToolTypeOK
<1>6. FreshIds'
  BY <1>1 DEF ToolInv, FreshIds, Asked
<1>7. RepliesFaithful' /\ CardsAnswerable'
  <2>1. ASSUME Awaited(c), reply[c.run] = "none"
        PROVE  /\ reply'[c.run] = (IF allow THEN "allow" ELSE "deny")
               /\ allow => c \in granted'
    <3>1. c.id \in approvals /\ c \notin clicked
      BY <1>0, <2>1 DEF ToolInv, RepliesFaithful, CardsAnswerable, Awaited, Asked
    <3> QED
      BY <1>0, <2>1, <3>1 DEF ApproveTool, ToolTypeOK
  <2>2. ASSUME Awaited(c), reply[c.run] # "none"
        PROVE  reply' = reply
    BY <1>0, <2>2 DEF ToolInv, CardsAnswerable, Awaited, Asked, ApproveTool
  <2>3. ASSUME NEW q \in Run, Asked(q), q # c.run \/ ~Awaited(c)
        PROVE  reply'[q] = reply[q] /\ call[q].id # c.id /\ call[q] # c
    BY <1>2, <1>3, <2>3
  <2>4. ASSUME NEW q \in Run, Asked(q)
        PROVE  /\ stage[q] = "asking" => reply'[q] = "none"
               /\ stage[q] = "waiting" => (reply'[q] = "none" <=> call[q] \notin clicked')
               /\ stage[q] = "waiting" /\ reply'[q] = "allow" => call[q] \in granted'
               /\ reply'[q] = "none" <=> call[q].id \in approvals'
    <3>1. CASE q # c.run \/ ~Awaited(c)
      BY <1>1, <1>4, <2>3, <2>4, <3>1 DEF ToolInv, RepliesFaithful, CardsAnswerable
    <3>2. CASE q = c.run /\ Awaited(c)
      <4>1. stage[q] = "waiting" /\ call[q] = c
        BY <3>2 DEF Awaited
      <4>2. reply'[q] # "none" /\ (reply'[q] = "allow" => c \in granted')
        BY <1>4, <2>1, <2>2, <3>2, <4>1 DEF ToolInv, RepliesFaithful
      <4> QED
        BY <1>1, <4>1, <4>2
    <3> QED
      BY <3>1, <3>2
  <2> QED
    BY <1>1, <2>4 DEF RepliesFaithful, CardsAnswerable, Asked
<1>8. RunningLicensed'
  BY <1>1, <1>4 DEF ToolInv, RunningLicensed
<1>9. EffectsLicensed'
  BY <1>1, <1>4 DEF ToolInv, EffectsLicensed, Licensed
<1> QED
  BY <1>5, <1>6, <1>7, <1>8, <1>9 DEF ToolInv

\* The executor takes the answer: a call it runs was granted.
LEMMA ResumeInv ==
  ASSUME ToolInv, NEW r \in Run, Resume(r)
  PROVE  ToolInv'
<1>0. ToolTypeOK /\ stage[r] = "waiting" /\ todo[r] # <<>>
  BY DEF ToolInv, ToolTypeOK, Resume
<1>1. UNCHANGED <<turn, call, reply, approvals, nextId, cards, clicked, granted, effects>>
  BY DEF Resume
<1>2. CASE reply[r] # "allow"
  BY <1>0, <1>1, <1>2, RefusalInv DEF Resume
<1>3. CASE reply[r] = "allow"
  <2>1. /\ stage' \in [Run -> Stage]
        /\ stage'[r] = "running"
        /\ todo' = todo
        /\ \A q \in Run : q # r => stage'[q] = stage[q]
    BY <1>0, <1>3, OneStage DEF ToolTypeOK, Stage, Resume
  <2>2. ToolTypeOK'
    BY <1>0, <1>1, <2>1 DEF ToolTypeOK
  <2>3. FreshIds' /\ RepliesFaithful' /\ CardsAnswerable'
    BY <1>1, <2>1, SameCalls
  <2>4. RunningLicensed'
    BY <1>0, <1>1, <1>3, <2>1 DEF ToolInv, RepliesFaithful, RunningLicensed
  <2>5. EffectsLicensed'
    BY <1>1 DEF ToolInv, EffectsLicensed, Licensed
  <2> QED
    BY <2>2, <2>3, <2>4, <2>5 DEF ToolInv
<1> QED
  BY <1>2, <1>3

\* Whatever lands of the calls under way is licensed, and it is calls that
\* land.
LEMMA LandingLicensed ==
  ASSUME ToolInv, NEW rs, rs \subseteq Run, NEW landed, landed \subseteq MayLand(rs),
         effects' = effects \cup landed, UNCHANGED granted
  PROVE  EffectsLicensed' /\ effects' \subseteq Card
<1>1. ASSUME NEW q \in Run, stage[q] = "running", Executes(q, call[q].tool)
      PROVE  Licensed(call[q]) /\ call[q] \in Card
  <2>1. call[q] \in Card /\ call[q].run = q /\ call[q].tool \in Tool
    BY <1>1 DEF ToolInv, ToolTypeOK, Card
  <2>2. call[q] \in granted \/ Verdict(q, call[q].tool) = "run"
    BY <1>1 DEF ToolInv, RunningLicensed
  <2> QED
    BY <1>1, <2>1, <2>2, RunVerdictLicensed, ToolAssumption
<1>2. \A e \in landed : Licensed(e) /\ e \in Card
  BY <1>1 DEF MayLand
<1>3. \A e \in effects : Licensed(e) /\ e \in Card
  BY DEF ToolInv, EffectsLicensed, ToolTypeOK
<1> QED
  BY <1>2, <1>3 DEF EffectsLicensed, Licensed

\* execute comes to its end.
LEMMA FinishInv ==
  ASSUME ToolInv, NEW r \in Run, Finish(r)
  PROVE  ToolInv'
<1>0. ToolTypeOK /\ stage[r] = "running" /\ todo[r] # <<>>
  BY DEF ToolInv, ToolTypeOK, Finish
<1>1. UNCHANGED <<turn, call, reply, approvals, nextId, cards, clicked, granted>>
  BY DEF Finish
<1>2. /\ stage' \in [Run -> Stage]
      /\ todo' \in [Run -> Seq(Tool)]
      /\ stage'[r] \in {"gating", "thinking"}
      /\ \A q \in Run : q # r => stage'[q] = stage[q]
      /\ \A q \in Run :
           stage'[q] \in {"gating", "asking", "waiting", "running"} => todo'[q] # <<>>
  BY <1>0, AfterCallStage DEF Finish
<1>3. PICK landed : landed \subseteq MayLand({r}) /\ effects' = effects \cup landed
  <2>1. CASE Executes(r, call[r].tool)
    <3>1. {call[r]} \subseteq MayLand({r})
      BY <1>0, <2>1 DEF MayLand
    <3> QED
      BY <2>1, <3>1 DEF Finish
  <2>2. CASE ~Executes(r, call[r].tool)
    <3>1. {} \subseteq MayLand({r}) /\ effects' = effects \cup {}
      BY <2>2 DEF Finish
    <3> QED
      BY <3>1
  <2> QED
    BY <2>1, <2>2
<1>4. EffectsLicensed' /\ effects' \subseteq Card
  BY <1>1, <1>3, LandingLicensed
<1>5. ToolTypeOK'
  BY <1>0, <1>1, <1>2, <1>4 DEF ToolTypeOK
<1>6. FreshIds' /\ RepliesFaithful' /\ CardsAnswerable'
  BY <1>1, <1>2, SameCalls
<1>7. RunningLicensed'
  BY <1>1, <1>2 DEF ToolInv, RunningLicensed
<1> QED
  BY <1>4, <1>5, <1>6, <1>7 DEF ToolInv

\* A client that leaves: its run is over, its entry stays in the map.
LEMMA CutShortInv ==
  ASSUME ToolInv, NEW r \in Run, CutShort(r)
  PROVE  ToolInv'
<1>0. ToolTypeOK
  BY DEF ToolInv
<1>1. UNCHANGED <<turn, todo, call, reply, approvals, nextId, cards, clicked, granted>>
  BY DEF CutShort
<1>2. /\ stage' \in [Run -> Stage]
      /\ stage'[r] = "over"
      /\ \A q \in Run : q # r => stage'[q] = stage[q]
  BY <1>0, OneStage DEF ToolTypeOK, Stage, CutShort
<1>3. EffectsLicensed' /\ effects' \subseteq Card
  BY <1>1, LandingLicensed DEF CutShort
<1>4. ToolTypeOK'
  BY <1>0, <1>1, <1>2, <1>3 DEF ToolTypeOK
<1>5. FreshIds' /\ RepliesFaithful' /\ CardsAnswerable'
  BY <1>1, <1>2, SameCalls
<1>6. RunningLicensed'
  BY <1>1, <1>2 DEF ToolInv, RunningLicensed
<1> QED
  BY <1>3, <1>4, <1>5, <1>6 DEF ToolInv

\* A restart empties the map and ends every run.
LEMMA ToolRestartInv ==
  ASSUME ToolInv, ToolRestart
  PROVE  ToolInv'
<1>0. ToolTypeOK
  BY DEF ToolInv
<1>1. /\ approvals' = {}
      /\ UNCHANGED <<turn, todo, call, reply, nextId, cards, clicked, granted>>
  BY DEF ToolRestart
<1>2. stage' \in [Run -> Stage] /\ \A q \in Run : stage'[q] \in {"new", "over"}
  BY <1>0 DEF ToolTypeOK, Stage, ToolRestart, Open
<1>3. EffectsLicensed' /\ effects' \subseteq Card
  BY <1>1, LandingLicensed DEF ToolRestart
<1>4. ToolTypeOK'
  BY <1>0, <1>1, <1>2, <1>3 DEF ToolTypeOK
<1>5. FreshIds' /\ RepliesFaithful' /\ CardsAnswerable'
  <2>1. FreshIds'
    BY <1>1, <1>2 DEF ToolInv, FreshIds, Asked
  <2> QED
    BY <1>2, <2>1 DEF RepliesFaithful, CardsAnswerable, Asked
<1>6. RunningLicensed'
  BY <1>2 DEF RunningLicensed
<1> QED
  BY <1>3, <1>4, <1>5, <1>6 DEF ToolInv

-----------------------------------------------------------------------------

\* Every step keeps the invariant.
LEMMA ToolStepInv ==
  ToolInv /\ [ToolNext]_toolVars => ToolInv'
<1> SUFFICES ASSUME ToolInv, [ToolNext]_toolVars
             PROVE  ToolInv'
  OBVIOUS
<1>1. ASSUME NEW r \in Run, Start(r) \/ Loop(r)
      PROVE  ToolInv'
  <2>1. CASE Start(r) \/ End(r) \/ \E ts \in Batches : Reply(r, ts)
    BY <2>1, LoopStepInv
  <2>2. CASE Refuse(r)
    <3>1. todo[r] # <<>> /\ AfterCall(r)
      BY <2>2 DEF ToolInv, ToolTypeOK, Refuse
    <3> QED
      BY <2>2, <3>1, RefusalInv DEF Refuse
  <2>3. CASE RunAtOnce(r) \/ Ask(r) \/ Show(r)
    BY <2>3, RunAtOnceInv, AskInv, ShowInv
  <2>4. CASE Resume(r) \/ Finish(r)
    BY <2>4, ResumeInv, FinishInv
  <2> QED
    BY <1>1, <2>1, <2>2, <2>3, <2>4 DEF Loop
<1>2. ASSUME NEW r \in Run, CutShort(r)
      PROVE  ToolInv'
  BY <1>2, CutShortInv
<1>3. ASSUME NEW c \in cards, NEW allow \in BOOLEAN, ApproveTool(c, allow)
      PROVE  ToolInv'
  BY <1>3, ApproveToolInv
<1>4. CASE ToolRestart
  BY <1>4, ToolRestartInv
<1>5. CASE UNCHANGED toolVars
  <2>1. ToolTypeOK'
    BY <1>5 DEF ToolInv, ToolTypeOK, toolVars
  <2> QED
    BY <1>5, <2>1, QuietStep DEF toolVars
<1> QED
  BY <1>1, <1>2, <1>3, <1>4, <1>5 DEF ToolNext, Drop, CapPanics

\* The inductive invariant holds throughout.
LEMMA ToolInvariant ==
  ToolSpec => []ToolInv
<1>1. ToolInit => ToolInv
  BY ToolInitInv
<1>2. ToolInv /\ [ToolNext]_toolVars => ToolInv'
  BY ToolStepInv
<1> QED
  BY <1>1, <1>2, PTL DEF ToolSpec

\* The variables of the approval machinery keep their types, and a run with a
\* call under way has that call at the head of its list.
THEOREM ToolTypeCorrect ==
  ToolSpec => []ToolTypeOK
<1>1. ToolInv => ToolTypeOK
  BY DEF ToolInv
<1> QED
  BY <1>1, ToolInvariant, PTL

\* No tool changes the workspace without a licence: the role's policy, the
\* auto role's headless turn, or a person's own first "allow" for that card.
THEOREM NoUnlicensedEffect ==
  ToolSpec => []EffectsLicensed
<1>1. ToolInv => EffectsLicensed
  BY DEF ToolInv
<1> QED
  BY <1>1, ToolInvariant, PTL

\* A chat that asked can be answered until it has its reply: whatever other
\* chats ask, and whatever cards are answered, its sender stays in the map.
THEOREM EveryCardAnswerable ==
  ToolSpec => []CardsAnswerable
<1>1. ToolInv => CardsAnswerable
  BY DEF ToolInv
<1> QED
  BY <1>1, ToolInvariant, PTL

-----------------------------------------------------------------------------
(* Consent                                                                 *)

\* What is asked and allowed for the runs other than r, and r's own question.
AskedElsewhere(r) == {call[q] : q \in {p \in Run \ {r} : Decidable(p)}}
ApprovedElsewhere(r) == {call[q] : q \in {p \in Run \ {r} : UnderWay(p)}}

SameElsewhere(r) ==
  \A q \in Run \ {r} :
    stage'[q] = stage[q] /\ call'[q] = call[q] /\ reply'[q] = reply[q]

\* A step of one run changes what is asked and allowed for that run only, and
\* its call is nobody else's.
LEMMA OneRun ==
  ASSUME ToolTypeOK, NEW r \in Run, SameElsewhere(r)
  PROVE  /\ Undecided = AskedElsewhere(r) \cup (IF Decidable(r) THEN {call[r]} ELSE {})
         /\ Approved = ApprovedElsewhere(r) \cup (IF UnderWay(r) THEN {call[r]} ELSE {})
         /\ Undecided' = AskedElsewhere(r) \cup (IF Decidable(r)' THEN {call'[r]} ELSE {})
         /\ Approved' = ApprovedElsewhere(r) \cup (IF UnderWay(r)' THEN {call'[r]} ELSE {})
         /\ Decidable(r) \/ UnderWay(r) =>
              call[r] \notin AskedElsewhere(r) /\ call[r] \notin ApprovedElsewhere(r)
         /\ ~(Decidable(r) /\ UnderWay(r))
<1>1. \A q \in Run \ {r} : (Decidable(q)' <=> Decidable(q)) /\ (UnderWay(q)' <=> UnderWay(q))
  BY DEF SameElsewhere, Decidable, UnderWay, Asked
<1>2. /\ Undecided = AskedElsewhere(r) \cup (IF Decidable(r) THEN {call[r]} ELSE {})
      /\ Approved = ApprovedElsewhere(r) \cup (IF UnderWay(r) THEN {call[r]} ELSE {})
  BY DEF Undecided, Approved, AskedElsewhere, ApprovedElsewhere
<1>3. Undecided' = AskedElsewhere(r) \cup (IF Decidable(r)' THEN {call'[r]} ELSE {})
  BY <1>1 DEF Undecided, AskedElsewhere, SameElsewhere
<1>4. Approved' = ApprovedElsewhere(r) \cup (IF UnderWay(r)' THEN {call'[r]} ELSE {})
  BY <1>1 DEF Approved, ApprovedElsewhere, SameElsewhere
<1>5. \A q \in Run : Decidable(q) \/ UnderWay(q) => call[q].run = q
  BY DEF Decidable, UnderWay, Asked, ToolTypeOK
<1>6. Decidable(r) \/ UnderWay(r) =>
        call[r] \notin AskedElsewhere(r) /\ call[r] \notin ApprovedElsewhere(r)
  BY <1>5 DEF AskedElsewhere, ApprovedElsewhere
<1>7. ~(Decidable(r) /\ UnderWay(r))
  BY DEF Decidable, UnderWay, Asked
<1> QED
  BY <1>2, <1>3, <1>4, <1>6, <1>7

\* A step that asks nothing new settles at most one call: it is allowed, acts
\* or lapses.
LEMMA OneRunSettles ==
  ASSUME ToolTypeOK, NEW r \in Run, SameElsewhere(r), UNCHANGED nextId,
         Decidable(r)' => Decidable(r),
         UnderWay(r)' => UnderWay(r) \/ Decidable(r),
         Decidable(r)' \/ UnderWay(r)' => call'[r] = call[r],
         \/ ActedOn' = ActedOn
         \/ UnderWay(r) /\ ~UnderWay(r)' /\ ActedOn' = ActedOn \cup {call[r]}
  PROVE  Person!Next \/ UNCHANGED Person!consent
<1>1. /\ Undecided = AskedElsewhere(r) \cup (IF Decidable(r) THEN {call[r]} ELSE {})
      /\ Approved = ApprovedElsewhere(r) \cup (IF UnderWay(r) THEN {call[r]} ELSE {})
      /\ Undecided' = AskedElsewhere(r) \cup (IF Decidable(r)' THEN {call'[r]} ELSE {})
      /\ Approved' = ApprovedElsewhere(r) \cup (IF UnderWay(r)' THEN {call'[r]} ELSE {})
      /\ Decidable(r) \/ UnderWay(r) =>
           call[r] \notin AskedElsewhere(r) /\ call[r] \notin ApprovedElsewhere(r)
      /\ ~(Decidable(r) /\ UnderWay(r))
  BY OneRun
<1>2. UNCHANGED (1..nextId - 1)
  OBVIOUS
<1>3. ~(Decidable(r)' /\ UnderWay(r)')
  BY DEF Decidable, UnderWay, Asked
<1>4. CASE ~Decidable(r) /\ ~UnderWay(r)
  BY <1>1, <1>2, <1>4 DEF Person!consent
<1>5. CASE Decidable(r)
  <2>1. call[r] \in Undecided /\ ActedOn' = ActedOn
    BY <1>1, <1>5
  <2>2. CASE Decidable(r)'
    BY <1>1, <1>2, <1>3, <1>5, <2>1, <2>2 DEF Person!consent
  <2>3. CASE UnderWay(r)'
    <3>1. Person!Allow(call[r])
      BY <1>1, <1>2, <1>3, <1>5, <2>1, <2>3 DEF Person!Allow
    <3> QED
      BY <2>1, <3>1 DEF Person!Next
  <2>4. CASE ~Decidable(r)' /\ ~UnderWay(r)'
    <3>1. Person!Lapse(call[r])
      BY <1>1, <1>2, <1>5, <2>1, <2>4 DEF Person!Lapse
    <3> QED
      BY <2>1, <3>1 DEF Person!Next
  <2> QED
    BY <2>2, <2>3, <2>4
<1>6. CASE UnderWay(r)
  <2>1. call[r] \in Approved /\ ~Decidable(r)'
    BY <1>1, <1>6
  <2>2. CASE UnderWay(r)'
    BY <1>1, <1>2, <1>6, <2>1, <2>2 DEF Person!consent
  <2>3. CASE ~UnderWay(r)' /\ ActedOn' = ActedOn
    <3>1. Person!Lapse(call[r])
      BY <1>1, <1>2, <1>6, <2>1, <2>3 DEF Person!Lapse
    <3> QED
      BY <2>1, <3>1 DEF Person!Next
  <2>4. CASE ~UnderWay(r)' /\ ActedOn' = ActedOn \cup {call[r]}
    <3>1. Person!Act(call[r])
      BY <1>1, <1>2, <1>6, <2>1, <2>4 DEF Person!Act
    <3> QED
      BY <2>1, <3>1 DEF Person!Next
  <2> QED
    BY <2>2, <2>3, <2>4
<1> QED
  BY <1>4, <1>5, <1>6

\* A run that goes on without a call, or ends, may have carried out its call.
LEMMA RunMovesOn ==
  ASSUME ToolTypeOK, NEW r \in Run, stage'[r] \notin {"asking", "waiting", "running"},
         \A q \in Run : q # r => stage'[q] = stage[q],
         UNCHANGED <<call, reply, nextId>>,
         \/ effects' = effects
         \/ stage[r] = "running" /\ effects' = effects \cup {call[r]}
  PROVE  Person!Next \/ UNCHANGED Person!consent
<1>1. SameElsewhere(r)
  BY DEF SameElsewhere
<1>2. ~Decidable(r)' /\ ~UnderWay(r)'
  BY DEF Decidable, UnderWay, Asked
<1>3. \/ ActedOn' = ActedOn
      \/ UnderWay(r) /\ ActedOn' = ActedOn \cup {call[r]}
  BY DEF ActedOn, UnderWay
<1> QED
  BY <1>1, <1>2, <1>3, OneRunSettles

\* What lands of one run is nothing or its call.
LEMMA LandingOfOne ==
  ASSUME NEW r \in Run, NEW landed, landed \subseteq MayLand({r}),
         effects' = effects \cup landed
  PROVE  \/ effects' = effects
         \/ stage[r] = "running" /\ effects' = effects \cup {call[r]}
  BY DEF MayLand

\* Finish carries the call out or leaves it.
LEMMA FinishOfOne ==
  ASSUME NEW r \in Run, Finish(r)
  PROVE  \/ effects' = effects
         \/ stage[r] = "running" /\ effects' = effects \cup {call[r]}
  BY DEF Finish

\* A question is new: its id was never used, and the call is nobody else's.
LEMMA AskConsent ==
  ASSUME ToolInv, NEW r \in Run, Ask(r)
  PROVE  Person!Ask
<1>0. ToolTypeOK /\ stage[r] = "gating" /\ todo[r] # <<>>
  BY DEF ToolInv, ToolTypeOK, Ask
<1>1. /\ nextId \in Nat \ {0} /\ nextId' = nextId + 1
      /\ Head(todo[r]) \in Tool
  BY <1>0, TailNotEmpty DEF ToolTypeOK, Ask
<1> DEFINE c == CallOf(r, nextId)
<1>2. c \in Card /\ c.run = r /\ CardId(c) = nextId
  BY <1>1 DEF CallOf, Card, CardId
<1>3. stage'[r] = "asking" /\ call'[r] = c /\ reply'[r] = "none"
  BY <1>0 DEF ToolTypeOK, Ask
<1>4. SameElsewhere(r)
  BY <1>0 DEF ToolTypeOK, Ask, SameElsewhere
<1> HIDE DEF c
<1>5. ~Decidable(r) /\ ~UnderWay(r) /\ Decidable(r)' /\ ~UnderWay(r)'
  BY <1>0, <1>3 DEF Decidable, UnderWay, Asked
<1>6. Undecided = AskedElsewhere(r) /\ Undecided' = AskedElsewhere(r) \cup {c}
  BY <1>0, <1>3, <1>4, <1>5, OneRun
<1>7. Approved' = Approved /\ ActedOn' = ActedOn
  <2>1. Approved' = Approved
    BY <1>0, <1>4, <1>5, OneRun
  <2> QED
    BY <2>1 DEF ActedOn, Ask
<1>8. c \notin AskedElsewhere(r)
  <2>1. \A q \in Run : Decidable(q) => call[q].run = q
    BY <1>0 DEF Decidable, Asked, ToolTypeOK
  <2> QED
    BY <1>2, <2>1 DEF AskedElsewhere
<1>9. /\ CardId(c) \notin 1..nextId - 1
      /\ 1..nextId' - 1 = (1..nextId - 1) \cup {CardId(c)}
  BY <1>1, <1>2
<1>10. c \in Undecided' \ Undecided /\ Undecided' = Undecided \cup {c}
  BY <1>6, <1>8
<1> QED
  BY <1>2, <1>7, <1>9, <1>10 DEF Person!Ask

\* An answer decides the question it was given to, if that is still open.
LEMMA ApproveToolConsent ==
  ASSUME ToolInv, NEW c \in cards, NEW allow \in BOOLEAN, ApproveTool(c, allow)
  PROVE  Person!Next \/ UNCHANGED Person!consent
<1>0. ToolTypeOK /\ c.run \in Run
  BY DEF ToolInv, ToolTypeOK, Card
<1>1. UNCHANGED <<stage, call, nextId, effects>>
  BY DEF ApproveTool
<1>2. \/ reply' = reply
      \/ /\ Awaited(c) /\ c.id \in approvals
         /\ reply' = [reply EXCEPT ![c.run] = IF allow THEN "allow" ELSE "deny"]
  BY DEF ApproveTool
<1>3. SameElsewhere(c.run)
  BY <1>0, <1>1, <1>2 DEF SameElsewhere, ToolTypeOK
<1>4. reply'[c.run] # reply[c.run] => Decidable(c.run) /\ reply'[c.run] # "none"
  BY <1>0, <1>2 DEF ToolTypeOK, ToolInv, CardsAnswerable, Awaited, Asked, Decidable
<1>5. Decidable(c.run)' => Decidable(c.run)
  BY <1>1, <1>4 DEF Decidable, Asked
<1>6. UnderWay(c.run)' => UnderWay(c.run) \/ Decidable(c.run)
  BY <1>1, <1>4 DEF UnderWay
<1>7. ActedOn' = ActedOn
  BY <1>1 DEF ActedOn
<1> QED
  BY <1>0, <1>1, <1>3, <1>5, <1>6, <1>7, OneRunSettles

\* After a restart nobody is asked any more, and what was allowed acted or not.
LEMMA ToolRestartConsent ==
  ASSUME ToolInv, ToolRestart
  PROVE  Person!Stop
<1>0. ToolTypeOK
  BY DEF ToolInv
<1>1. \A q \in Run : stage'[q] \in {"new", "over"}
  BY <1>0 DEF ToolTypeOK, Stage, ToolRestart, Open
<1>2. Undecided' = {} /\ Approved' = {}
  BY <1>1 DEF Undecided, Approved, Decidable, UnderWay, Asked
<1>3. effects \subseteq effects' /\ effects' \subseteq effects \cup MayLand(Run)
  BY DEF ToolRestart
<1>4. \A e \in MayLand(Run) : e.id # 0 => e \in Approved
  BY DEF MayLand, Approved, UnderWay
<1>5. ActedOn \subseteq ActedOn' /\ ActedOn' \subseteq ActedOn \cup Approved
  BY <1>3, <1>4 DEF ActedOn
<1>6. UNCHANGED (1..nextId - 1)
  BY DEF ToolRestart
<1> QED
  BY <1>2, <1>5, <1>6 DEF Person!Stop

\* Every step of the runs and the clients is a step of Consent, or none.
LEMMA ToolConsentStep ==
  ToolInv /\ [ToolNext]_toolVars => [Person!Next]_(Person!consent)
<1> SUFFICES ASSUME ToolInv, [ToolNext]_toolVars
             PROVE  Person!Next \/ UNCHANGED Person!consent
  OBVIOUS
<1>0. ToolTypeOK
  BY DEF ToolInv
<1>1. ASSUME NEW r \in Run, Start(r) \/ End(r) \/ \E ts \in Batches : Reply(r, ts)
      PROVE  Person!Next \/ UNCHANGED Person!consent
  <2>1. PICK s \in {"thinking", "over", "gating"} : stage' = [stage EXCEPT ![r] = s]
    BY <1>1 DEF Start, End, Reply
  <2>2. /\ stage'[r] \notin {"asking", "waiting", "running"}
        /\ \A q \in Run : q # r => stage'[q] = stage[q]
    BY <1>0, <2>1, OneStage DEF ToolTypeOK, Stage
  <2>3. UNCHANGED <<call, reply, nextId, effects>>
    BY <1>1 DEF Start, End, Reply
  <2> QED
    BY <1>0, <2>2, <2>3, RunMovesOn
<1>2. ASSUME NEW r \in Run, AfterCall(r), todo[r] # <<>>, UNCHANGED <<call, reply, nextId>>,
             \/ effects' = effects
             \/ stage[r] = "running" /\ effects' = effects \cup {call[r]}
      PROVE  Person!Next \/ UNCHANGED Person!consent
  <2>1. /\ stage'[r] \notin {"asking", "waiting", "running"}
        /\ \A q \in Run : q # r => stage'[q] = stage[q]
    BY <1>0, <1>2, AfterCallStage
  <2> QED
    BY <1>0, <1>2, <2>1, RunMovesOn
<1>3. ASSUME NEW r \in Run, Refuse(r) \/ Finish(r)
      PROVE  Person!Next \/ UNCHANGED Person!consent
  <2>1. todo[r] # <<>> /\ AfterCall(r) /\ UNCHANGED <<call, reply, nextId>>
    BY <1>0, <1>3 DEF ToolTypeOK, Refuse, Finish
  <2>2. \/ effects' = effects
        \/ stage[r] = "running" /\ effects' = effects \cup {call[r]}
    BY <1>3, FinishOfOne DEF Refuse
  <2> QED
    BY <1>2, <2>1, <2>2
<1>4. ASSUME NEW r \in Run, RunAtOnce(r)
      PROVE  Person!Next \/ UNCHANGED Person!consent
  <2>1. SameElsewhere(r) /\ UNCHANGED nextId /\ ActedOn' = ActedOn
    BY <1>0, <1>4 DEF ToolTypeOK, RunAtOnce, SameElsewhere, ActedOn
  <2>2. stage'[r] = "running" /\ call'[r] = CallOf(r, 0)
    BY <1>0, <1>4 DEF ToolTypeOK, RunAtOnce
  <2>3. ~Decidable(r)' /\ ~UnderWay(r)'
    BY <2>2 DEF Decidable, UnderWay, Asked, CallOf
  <2> QED
    BY <1>0, <2>1, <2>3, OneRunSettles
<1>5. ASSUME NEW r \in Run, Show(r) \/ Resume(r)
      PROVE  Person!Next \/ UNCHANGED Person!consent
  <2>1. UNCHANGED <<call, reply, nextId, effects>>
    BY <1>5 DEF Show, Resume
  <2>2. ActedOn' = ActedOn
    BY <2>1 DEF ActedOn
  <2>3. CASE Show(r)
    <3>1. stage[r] = "asking" /\ stage'[r] = "waiting" /\ SameElsewhere(r)
      BY <1>0, <2>1, <2>3 DEF ToolTypeOK, Show, SameElsewhere
    <3>2. reply[r] = "none"
      BY <3>1 DEF ToolInv, RepliesFaithful
    <3>3. Decidable(r) /\ ~UnderWay(r)'
      BY <2>1, <3>1, <3>2 DEF Decidable, UnderWay, Asked
    <3> QED
      BY <1>0, <2>1, <2>2, <3>1, <3>3, OneRunSettles
  <2>4. CASE Resume(r) /\ reply[r] = "allow"
    <3>1. stage[r] = "waiting" /\ stage'[r] = "running" /\ SameElsewhere(r)
      BY <1>0, <2>1, <2>4 DEF ToolTypeOK, Resume, SameElsewhere
    <3>2. UnderWay(r) /\ ~Decidable(r)'
      BY <2>4, <3>1 DEF Decidable, UnderWay, Asked
    <3> QED
      BY <1>0, <2>1, <2>2, <3>1, <3>2, OneRunSettles
  <2>5. CASE Resume(r) /\ reply[r] # "allow"
    <3>1. AfterCall(r) /\ todo[r] # <<>>
      BY <1>0, <2>5 DEF ToolTypeOK, Resume
    <3> QED
      BY <1>2, <2>1, <3>1
  <2> QED
    BY <1>5, <2>3, <2>4, <2>5
<1>6. ASSUME NEW r \in Run, Ask(r)
      PROVE  Person!Next \/ UNCHANGED Person!consent
  BY <1>6, AskConsent DEF Person!Next
<1>7. ASSUME NEW r \in Run, CutShort(r)
      PROVE  Person!Next \/ UNCHANGED Person!consent
  <2>1. /\ stage'[r] \notin {"asking", "waiting", "running"}
        /\ \A q \in Run : q # r => stage'[q] = stage[q]
        /\ UNCHANGED <<call, reply, nextId>>
    BY <1>0, <1>7 DEF ToolTypeOK, CutShort
  <2>2. \/ effects' = effects
        \/ stage[r] = "running" /\ effects' = effects \cup {call[r]}
    BY <1>7, LandingOfOne DEF CutShort
  <2> QED
    BY <1>0, <2>1, <2>2, RunMovesOn
<1>8. ASSUME NEW c \in cards, NEW allow \in BOOLEAN, ApproveTool(c, allow)
      PROVE  Person!Next \/ UNCHANGED Person!consent
  BY <1>8, ApproveToolConsent
<1>9. CASE ToolRestart
  BY <1>9, ToolRestartConsent DEF Person!Next
<1>10. CASE UNCHANGED toolVars
  <2>1. UNCHANGED Undecided /\ UNCHANGED Approved /\ UNCHANGED ActedOn
    BY <1>10 DEF toolVars, Undecided, Approved, ActedOn, Decidable, UnderWay, Asked
  <2> QED
    BY <1>10, <2>1 DEF toolVars, Person!consent
<1> QED
  BY <1>1, <1>3, <1>4, <1>5, <1>6, <1>7, <1>8, <1>9, <1>10 DEF ToolNext, Loop, Drop, CapPanics

\* The approvals implement Consent: an approval is for one call, counts only
\* as its first answer, lets the call act once, and lapses with its run.
THEOREM ApprovalsImplementConsent ==
  ToolSpec => ImplementsConsent
<1>1. ToolInit => Person!Init
  <2> SUFFICES ASSUME ToolInit PROVE Person!Init
    OBVIOUS
  <2>1. Undecided = {} /\ Approved = {} /\ ActedOn = {}
    BY DEF ToolInit, Undecided, Approved, ActedOn, Decidable, UnderWay, Asked
  <2>2. 1..nextId - 1 = {}
    BY DEF ToolInit
  <2> QED
    BY <2>1, <2>2 DEF Person!Init
<1> QED
  BY <1>1, ToolConsentStep, ToolInvariant, PTL DEF ToolSpec, ImplementsConsent, Person!Spec

\* A question that was put and is neither open nor under way any more: it was
\* refused, carried out, or its run is gone.
Settled(c) == c.id \in 1..nextId - 1 /\ c \notin Undecided /\ c \notin Approved

StaySettled ==
  \A c \in Card : Settled(c) => Settled(c)' /\ (c \in effects' => c \in effects)

\* What is settled stays settled, and the call does not act any more: not by a
\* late click, another card's answer, a new model turn or a restart.
THEOREM SettledForGood ==
  ToolSpec => [][StaySettled]_toolVars
<1>1. ToolInv /\ [ToolNext]_toolVars => StaySettled
  <2> SUFFICES ASSUME ToolInv, [ToolNext]_toolVars, NEW c \in Card, Settled(c)
               PROVE  Settled(c)' /\ (c \in effects' => c \in effects)
    BY DEF StaySettled
  <2>1. Person!Next \/ UNCHANGED Person!consent
    BY ToolConsentStep
  <2>2. /\ c.id \in 1..nextId - 1 /\ c \notin Undecided /\ c \notin Approved
        /\ c.id # 0
    BY DEF Settled
  <2>3. /\ c.id \in 1..nextId' - 1 /\ c \notin Undecided' /\ c \notin Approved'
        /\ (c \in ActedOn' => c \in ActedOn)
    <3>1. CASE Person!Ask
      <4>1. PICK d \in Undecided' \ Undecided :
              /\ CardId(d) \notin 1..nextId - 1
              /\ 1..nextId' - 1 = (1..nextId - 1) \cup {CardId(d)}
              /\ Undecided' = Undecided \cup {d}
              /\ Approved' = Approved /\ ActedOn' = ActedOn
        BY <3>1 DEF Person!Ask
      <4>2. d # c
        BY <2>2, <4>1 DEF CardId
      <4> QED
        BY <2>2, <4>1, <4>2
    <3>2. ASSUME NEW d \in Undecided, Person!Allow(d) \/ Person!Lapse(d)
          PROVE  <2>3!:
      BY <2>2, <3>2 DEF Person!Allow, Person!Lapse
    <3>3. ASSUME NEW d \in Approved, Person!Act(d) \/ Person!Lapse(d)
          PROVE  <2>3!:
      BY <2>2, <3>3 DEF Person!Act, Person!Lapse
    <3>4. CASE Person!Stop
      BY <2>2, <3>4 DEF Person!Stop
    <3>5. CASE UNCHANGED Person!consent
      BY <2>2, <3>5 DEF Person!consent
    <3> QED
      BY <2>1, <3>1, <3>2, <3>3, <3>4, <3>5 DEF Person!Next
  <2> QED
    BY <2>2, <2>3 DEF Settled, ActedOn
<1> QED
  BY <1>1, ToolInvariant, PTL DEF ToolSpec
=============================================================================
