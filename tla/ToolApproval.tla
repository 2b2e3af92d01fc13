---------------------------- MODULE ToolApproval ----------------------------
(***************************************************************************)
(* Tool calls of a role's agentic answer: the gate, the approval a person  *)
(* gives through approve_tool, and the execution (role_chat,               *)
(* run_role_headless and approve_tool in usta-daemon/src/main.rs,          *)
(* usta-daemon/src/toolexec.rs, the agent loop of                          *)
(* usta-providers/src/anthropic.rs).                                       *)
(*                                                                         *)
(* A run is one answer: a role_chat a client follows, or a headless turn.  *)
(* It calls its tools one at a time, inside the stream its owner polls.    *)
(*                                                                         *)
(*   stage      new, thinking (the model's turn), gating (a call is about  *)
(*              to be gated), asking, waiting (for the answer), running    *)
(*              (execute is at work), over                                 *)
(*   turn       model turns so far                                         *)
(*   todo       the tools of this model turn still to be called            *)
(*   call       the call under way; its id is 0 when nobody was asked      *)
(*   reply      what the call's one-shot channel holds                     *)
(*   approvals  ids whose sender is in the daemon's approvals map          *)
(*   nextId     next unused id (a fresh uuid in the code)                  *)
(*   cards      approval cards the client has received                     *)
(*   clicked    cards somebody has answered at least once                  *)
(*   granted    cards whose first answer was "allow" and came while the    *)
(*              run was waiting for it                                     *)
(*   effects    tool calls that acted on the workspace                     *)
(*                                                                         *)
(* clicked, granted and effects are history.                               *)
(***************************************************************************)
EXTENDS Naturals, Sequences, FiniteSets

CONSTANTS
  Run,
  Headless,   \* the runs of run_role_headless
  Autonomous, \* the runs of a role whose autonomy is "auto"
  Tool,
  ReadOnly,   \* fs_read, list_dir, grep
  MayHang,    \* the tools whose execution may never end: no call has a
              \* timeout, and shell runs whatever command the model writes
  Perm,       \* the permission that governs a tool, "unset" when there is none
  MaxTurns,   \* 20
  Batches     \* bound: the lists of calls a model turn may ask for

ASSUME ToolAssumption ==
  /\ Headless \subseteq Run
  /\ Autonomous \subseteq Run
  /\ ReadOnly \subseteq Tool
  /\ MayHang \subseteq Tool
  /\ Perm \in [Run -> [Tool -> {"allow", "ask", "deny", "unset"}]]
  /\ MaxTurns \in Nat
  /\ Batches \subseteq Seq(Tool)

VARIABLES
  stage, turn, todo, call, reply, approvals, nextId, cards, clicked, granted,
  effects

toolVars == <<stage, turn, todo, call, reply, approvals, nextId, cards,
              clicked, granted, effects>>

Stage == {"new", "thinking", "gating", "asking", "waiting", "running", "over"}

Card == [run : Run, tool : Tool, id : Nat]

Open(r) == stage[r] \notin {"new", "over"}

ToolTypeOK ==
  /\ stage \in [Run -> Stage]
  /\ turn \in [Run -> Nat]
  /\ todo \in [Run -> Seq(Tool)]
  /\ call \in [Run -> Card \cup {[id |-> 0]}]
  /\ reply \in [Run -> {"none", "allow", "deny"}]
  /\ approvals \subseteq Nat
  /\ nextId \in Nat \ {0}
  /\ cards \subseteq Card
  /\ clicked \subseteq cards
  /\ granted \subseteq clicked
  /\ effects \subseteq Card
  /\ \A r \in Run :
       /\ stage[r] \in {"gating", "asking", "waiting", "running"} => todo[r] # <<>>
       /\ stage[r] \in {"asking", "waiting", "running"} => call[r] \in Card /\ call[r].run = r

ToolInit ==
  /\ stage = [r \in Run |-> "new"]
  /\ turn = [r \in Run |-> 0]
  /\ todo = [r \in Run |-> <<>>]
  /\ call = [r \in Run |-> [id |-> 0]]
  /\ reply = [r \in Run |-> "none"]
  /\ approvals = {}
  /\ nextId = 1
  /\ cards = {}
  /\ clicked = {}
  /\ granted = {}
  /\ effects = {}

-----------------------------------------------------------------------------
(* toolexec.rs                                                             *)

Gate(r, t) ==
  CASE t \in ReadOnly \/ Perm[r][t] = "allow" -> "allowed"
    [] t \notin ReadOnly /\ Perm[r][t] \in {"ask", "unset"} -> "ask"
    [] OTHER -> "denied"

\* Does execute go ahead (perm_allows with default_deny)?
Executes(r, t) == t \in ReadOnly \/ Perm[r][t] \in {"allow", "ask"}

\* Mutant of Verdict: a headless turn asks like a chat does.
VerdictAsksAnyway(r, t) ==
  CASE Gate(r, t) = "allowed" \/ (Gate(r, t) = "ask" /\ r \in Headless \cap Autonomous) -> "run"
    [] Gate(r, t) = "denied" -> "refuse"
    [] OTHER -> "ask"

\* What becomes of a call: a headless turn has nobody to ask.
Verdict(r, t) ==
  CASE Gate(r, t) = "allowed" \/ (Gate(r, t) = "ask" /\ r \in Headless \cap Autonomous) -> "run"
    [] Gate(r, t) = "ask" /\ r \notin Headless -> "ask"
    [] OTHER -> "refuse"

-----------------------------------------------------------------------------
(* The agent loop                                                          *)

Start(r) ==
  /\ stage[r] = "new"
  /\ stage' = [stage EXCEPT ![r] = "thinking"]
  /\ UNCHANGED <<turn, todo, call, reply, approvals, nextId, cards, clicked,
                 granted, effects>>

\* The model's turn is complete and asks for the tools ts.
Reply(r, ts) ==
  /\ stage[r] = "thinking"
  /\ turn[r] < MaxTurns
  /\ ts # <<>>
  /\ stage' = [stage EXCEPT ![r] = "gating"]
  /\ turn' = [turn EXCEPT ![r] = @ + 1]
  /\ todo' = [todo EXCEPT ![r] = ts]
  /\ UNCHANGED <<call, reply, approvals, nextId, cards, clicked, granted, effects>>

\* The model asks for no tool, the turns are used up, or the provider fails.
End(r) ==
  /\ stage[r] = "thinking"
  /\ stage' = [stage EXCEPT ![r] = "over"]
  /\ UNCHANGED <<turn, todo, call, reply, approvals, nextId, cards, clicked,
                 granted, effects>>

\* The result of the call is handed to the model, the next call is gated.
AfterCall(r) ==
  /\ todo' = [todo EXCEPT ![r] = Tail(@)]
  /\ stage' = [stage EXCEPT ![r] = IF Len(todo[r]) > 1 THEN "gating" ELSE "thinking"]

CallOf(r, id) == [run |-> r, tool |-> Head(todo[r]), id |-> id]

Refuse(r) ==
  /\ stage[r] = "gating"
  /\ Verdict(r, Head(todo[r])) = "refuse"
  /\ AfterCall(r)
  /\ UNCHANGED <<turn, call, reply, approvals, nextId, cards, clicked, granted,
                 effects>>

RunAtOnce(r) ==
  /\ stage[r] = "gating"
  /\ Verdict(r, Head(todo[r])) = "run"
  /\ call' = [call EXCEPT ![r] = CallOf(r, 0)]
  /\ stage' = [stage EXCEPT ![r] = "running"]
  /\ UNCHANGED <<turn, todo, reply, approvals, nextId, cards, clicked, granted,
                 effects>>

\* Mutant of Ask: a call is registered under the number of its model turn.
AskByTurn(r) ==
  /\ stage[r] = "gating"
  /\ Verdict(r, Head(todo[r])) = "ask"
  /\ call' = [call EXCEPT ![r] = CallOf(r, turn[r])]
  /\ reply' = [reply EXCEPT ![r] = "none"]
  /\ approvals' = approvals \cup {turn[r]}
  /\ nextId' = nextId + 1
  /\ stage' = [stage EXCEPT ![r] = "asking"]
  /\ UNCHANGED <<turn, todo, cards, clicked, granted, effects>>

\* The sender goes into the map before the card is queued for the client.
Ask(r) ==
  /\ stage[r] = "gating"
  /\ Verdict(r, Head(todo[r])) = "ask"
  /\ call' = [call EXCEPT ![r] = CallOf(r, nextId)]
  /\ reply' = [reply EXCEPT ![r] = "none"]
  /\ approvals' = approvals \cup {nextId}
  /\ nextId' = nextId + 1
  /\ stage' = [stage EXCEPT ![r] = "asking"]
  /\ UNCHANGED <<turn, todo, cards, clicked, granted, effects>>

\* The select loop forwards the card to the client.
Show(r) ==
  /\ stage[r] = "asking"
  /\ cards' = cards \cup {call[r]}
  /\ stage' = [stage EXCEPT ![r] = "waiting"]
  /\ UNCHANGED <<turn, todo, call, reply, approvals, nextId, clicked, granted,
                 effects>>

-----------------------------------------------------------------------------
(* approve_tool                                                            *)

Awaited(c) == stage[c.run] = "waiting" /\ call[c.run] = c

\* Mutant of ApproveTool: the entry stays, a later answer replaces the first.
ApproveAgain(c, allow) ==
  /\ reply' = IF c.id \in approvals /\ Awaited(c)
                THEN [reply EXCEPT ![c.run] = IF allow THEN "allow" ELSE "deny"]
                ELSE reply
  /\ clicked' = clicked \cup {c}
  /\ granted' = IF allow /\ Awaited(c) /\ c \notin clicked
                  THEN granted \cup {c} ELSE granted
  /\ UNCHANGED <<stage, turn, todo, call, approvals, nextId, cards, effects>>

\* Anybody may answer a card, more than once, and after its run is over.  The
\* map holds the sender of a run that is gone until its card is answered.
ApproveTool(c, allow) ==
  /\ approvals' = approvals \ {c.id}
  /\ reply' = IF c.id \in approvals /\ Awaited(c)
                THEN [reply EXCEPT ![c.run] = IF allow THEN "allow" ELSE "deny"]
                ELSE reply
  /\ clicked' = clicked \cup {c}
  /\ granted' = IF allow /\ Awaited(c) /\ c \notin clicked
                  THEN granted \cup {c} ELSE granted
  /\ UNCHANGED <<stage, turn, todo, call, nextId, cards, effects>>

\* The executor wakes up with the reply.
Resume(r) ==
  /\ stage[r] = "waiting"
  /\ reply[r] # "none"
  /\ IF reply[r] = "allow"
       THEN stage' = [stage EXCEPT ![r] = "running"] /\ UNCHANGED todo
       ELSE AfterCall(r)
  /\ UNCHANGED <<turn, call, reply, approvals, nextId, cards, clicked, granted,
                 effects>>

\* Mutant of Finish: the call is handed to execute once more.
FinishRetries(r) ==
  /\ stage[r] = "running"
  /\ effects' = IF Executes(r, call[r].tool) THEN effects \cup {call[r]} ELSE effects
  /\ AfterCall(r) \/ UNCHANGED <<stage, todo>>
  /\ UNCHANGED <<turn, call, reply, approvals, nextId, cards, clicked, granted>>

\* execute checks the permission again, and acts.
Finish(r) ==
  /\ stage[r] = "running"
  /\ effects' = IF Executes(r, call[r].tool) THEN effects \cup {call[r]} ELSE effects
  /\ AfterCall(r)
  /\ UNCHANGED <<turn, call, reply, approvals, nextId, cards, clicked, granted>>

-----------------------------------------------------------------------------
(* Runs that are cut short                                                 *)

\* What execute has under way may still land: a write on the blocking pool, a
\* shell that is not killed.
MayLand(rs) ==
  {call[r] : r \in {q \in rs : stage[q] = "running" /\ Executes(q, call[q].tool)}}

CutShort(r) ==
  /\ Open(r)
  /\ \E landed \in SUBSET MayLand({r}) : effects' = effects \cup landed
  /\ stage' = [stage EXCEPT ![r] = "over"]
  /\ UNCHANGED <<turn, todo, call, reply, approvals, nextId, cards, clicked, granted>>

\* The client stops following the chat: the stream is dropped where it is.
Drop(r) == r \notin Headless /\ CutShort(r)

\* The output of a tool is longer than MAX_OUTPUT and cutting it there would
\* split a character: cap panics, and the run's task with it.
CapPanics(r) == stage[r] = "running" /\ CutShort(r)

ToolRestart ==
  /\ \E landed \in SUBSET MayLand(Run) : effects' = effects \cup landed
  /\ stage' = [r \in Run |-> IF Open(r) THEN "over" ELSE stage[r]]
  /\ approvals' = {}
  /\ UNCHANGED <<turn, todo, call, reply, nextId, cards, clicked, granted>>

-----------------------------------------------------------------------------

Loop(r) ==
  \/ End(r)
  \/ \E ts \in Batches : Reply(r, ts)
  \/ Refuse(r)
  \/ RunAtOnce(r)
  \/ Ask(r)
  \/ Show(r)
  \/ Resume(r)
  \/ Finish(r)

ToolNext ==
  \/ \E r \in Run : Start(r) \/ Loop(r) \/ Drop(r) \/ CapPanics(r)
  \/ \E c \in cards, allow \in BOOLEAN : ApproveTool(c, allow)
  \/ ToolRestart

ToolSpec == ToolInit /\ [][ToolNext]_toolVars

HeldByCommand(r) == stage[r] = "running" /\ call[r].tool \in MayHang

\* The stream of a run is polled until it ends, the provider answers and a
\* tool comes back, unless it is one that may hang; people need never answer
\* a card.
ToolFairness == \A r \in Run : WF_toolVars(Loop(r) /\ ~HeldByCommand(r))

FairToolSpec == ToolSpec /\ ToolFairness

-----------------------------------------------------------------------------
(* Properties                                                              *)

\* A tool that changes the workspace acts only when the role's policy allows
\* it outright, when it is left to ask and the role is an auto role's headless
\* turn, or when a person allowed this very card of this very run, as its
\* first answer and while the run was waiting for it.  A card answered twice,
\* answered for another run, or answered after the client had left, is no
\* licence.
Licensed(e) ==
  \/ e.tool \in ReadOnly
  \/ Perm[e.run][e.tool] = "allow"
  \/ Perm[e.run][e.tool] = "ask" /\ e.run \in Headless \cap Autonomous
  \/ Perm[e.run][e.tool] = "ask" /\ e \in granted

EffectsLicensed == \A e \in effects : Licensed(e)

\* A chat that asked can be answered: its sender stays in the map until its
\* own reply is in the channel, whatever other chats ask and whatever cards
\* are answered meanwhile, and goes from it with the reply.
Asked(r) == stage[r] \in {"asking", "waiting"}

CardsAnswerable ==
  \A r \in Run : Asked(r) => (reply[r] = "none" <=> call[r].id \in approvals)

\* Only a person or a command can hold up a run, and a person only a chat:
\* every run that starts keeps reaching its end, a card on the client's screen
\* that nobody has answered, or a tool that does not come back.
HeldByPerson(r) == r \notin Headless /\ stage[r] = "waiting" /\ call[r] \notin clicked

RunsHeldByPeopleOrCommands ==
  \A r \in Run : Open(r) ~> (~Open(r) \/ HeldByPerson(r) \/ HeldByCommand(r))

\* The approvals implement Consent: every question has an id of its own, the
\* first answer decides it and no later one, a call somebody allowed acts at
\* most once, and what was refused, dropped with its client or lost in a
\* restart never acts, whoever clicks the card afterwards.
CardId(c) == c.id

Decidable(r) == Asked(r) /\ reply[r] = "none"

UnderWay(r) ==
  \/ stage[r] = "waiting" /\ reply[r] = "allow"
  \/ stage[r] = "running" /\ call[r].id # 0

Undecided == {call[r] : r \in {q \in Run : Decidable(q)}}
Approved == {call[r] : r \in {q \in Run : UnderWay(q)}}
ActedOn == {e \in effects : e.id # 0}

Person == INSTANCE Consent WITH
  Call <- Card, Id <- CardId, issued <- 1..nextId - 1,
  asked <- Undecided, allowed <- Approved, acted <- ActedOn

ImplementsConsent == Person!Spec

\* What perm_allows says of its caller: "Ask is treated as allow here because
\* approval is handled upstream in the daemon (gate()); execute() only runs
\* after the user approved".  A call a person allowed is carried out.
ApprovedCallsAct ==
  \A r \in Run : stage[r] = "running" /\ call[r] \in granted => Executes(r, call[r].tool)

=============================================================================
