----------------------------- MODULE Transcript -----------------------------
(***************************************************************************)
(* What a terminal's output promises to whoever reads it, with the         *)
(* threads, the channel, the buffers and the tasks taken away.             *)
(*                                                                         *)
(*   said       the chunks the terminal has put out so far: 1, 2, ...      *)
(*   kept       what the table has of them                                 *)
(*   missed     the chunks that failed to get into the table               *)
(*   forgotten  is the workspace gone, and with it the table's part?       *)
(*   shown      what each watching client was sent                         *)
(*   ahead      the chunk a watching client is due next, 0 for the others  *)
(*   live       the clients that were sent their replay                    *)
(*                                                                         *)
(* As long as the workspace is there the table is only added to, in order, *)
(* and between its chunks only missed ones are missing.  A workspace goes  *)
(* when it is closed, or with everybody watching when the daemon starts on *)
(* a new database, and nothing is kept of it.  A client's replay is the end *)
(* of the output, up to the chunk said last; from then on it is sent what  *)
(* it is due, chunk by chunk and in order, or told that it missed some.    *)
(***************************************************************************)
EXTENDS Integers, Sequences

CONSTANTS Client, Lag   \* the message "lagged n chunks"

VARIABLES said, kept, missed, forgotten, shown, ahead, live

watching == <<shown, ahead, live>>
transcript == <<said, kept, missed, forgotten, watching>>

Init ==
  /\ said = 0 /\ kept = <<>> /\ missed = {} /\ forgotten = FALSE
  /\ shown = [c \in Client |-> <<>>]
  /\ ahead = [c \in Client |-> 0]
  /\ live = {}

\* Chunks in order, with only missed ones missing between them and none from
\* the future.
Stretch(s) ==
  /\ \A i \in 1..Len(s) : s[i] \in 1..said
  /\ \A i \in 1..Len(s) - 1 : s[i] < s[i + 1] /\ s[i] + 1 .. s[i + 1] - 1 \subseteq missed

\* The end of the output, behind what the previous session left (0).
UpToDate(s) ==
  /\ \A i \in 1..Len(s) : s[i] \in 0..said
  /\ \A i \in 1..Len(s) - 1 : s[i + 1] = s[i] + 1 \/ (s[i] = 0 /\ s[i + 1] = 0)
  /\ said > 0 => s # <<>> /\ s[Len(s)] = said

Speak == said' = said + 1 /\ UNCHANGED <<kept, missed, forgotten, watching>>

Store ==
  /\ ~forgotten
  /\ Len(kept) <= Len(kept') /\ \A i \in 1..Len(kept) : kept'[i] = kept[i]
  /\ Stretch(kept')
  /\ UNCHANGED <<said, missed, forgotten, watching>>

Miss ==
  /\ missed \subseteq missed' /\ missed' \subseteq missed \cup 1..said
  /\ UNCHANGED <<said, kept, forgotten, watching>>

Forget == kept' = <<>> /\ forgotten' = TRUE /\ UNCHANGED <<said, missed, watching>>

\* The client is due what is said from now on; a chunk being said may still
\* be ahead of it.
Attach(c) ==
  /\ ahead[c] = 0
  /\ \E n \in {said, said + 1} \ {0} : ahead' = [ahead EXCEPT ![c] = n]
  /\ UNCHANGED <<said, kept, missed, forgotten, shown, live>>

Replay(c) ==
  /\ ahead[c] # 0 /\ c \notin live
  /\ live' = live \cup {c}
  /\ \A d \in Client \ {c} : shown'[d] = shown[d]
  /\ UpToDate(shown'[c])
  /\ UNCHANGED <<said, kept, missed, forgotten, ahead>>

Show(c) ==
  /\ c \in live /\ ahead[c] <= said
  /\ shown' = [shown EXCEPT ![c] = Append(@, ahead[c])]
  /\ ahead' = [ahead EXCEPT ![c] = @ + 1]
  /\ UNCHANGED <<said, kept, missed, forgotten, live>>

Skip(c) ==
  /\ c \in live
  /\ shown' = [shown EXCEPT ![c] = Append(@, Lag)]
  /\ \E n \in ahead[c] + 1 .. said : ahead' = [ahead EXCEPT ![c] = n]
  /\ UNCHANGED <<said, kept, missed, forgotten, live>>

Away(gone) ==
  /\ shown' = [c \in Client |-> IF c \in gone THEN <<>> ELSE shown[c]]
  /\ ahead' = [c \in Client |-> IF c \in gone THEN 0 ELSE ahead[c]]
  /\ live' = live \ gone

\* Clients go, one or, with the daemon, all of them.
Leave(gone) == Away(gone) /\ UNCHANGED <<said, kept, missed, forgotten>>

StartOver ==
  /\ kept' = <<>> /\ forgotten' = TRUE
  /\ Away(Client)
  /\ UNCHANGED <<said, missed>>

Next ==
  \/ Speak \/ Store \/ Miss \/ Forget \/ StartOver
  \/ \E c \in Client : Attach(c) \/ Replay(c) \/ Show(c) \/ Skip(c)
  \/ \E gone \in SUBSET Client : Leave(gone)

Spec == Init /\ [][Next]_transcript
=============================================================================
