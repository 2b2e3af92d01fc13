----------------------------- MODULE PtyStream -----------------------------
(***************************************************************************)
(* The output of one terminal: the pty's reader thread, its scrollback and *)
(* broadcast channel (crates/usta-core/src/pty.rs), the task of            *)
(* create_terminal that mirrors the output into the term_log table, and    *)
(* the streams of attached clients (create_terminal, close_terminal,       *)
(* close_workspace and stream_pty in crates/usta-daemon/src/main.rs).      *)
(*                                                                         *)
(* The chunks the reader thread reads are numbered 1, 2, ...; the channel  *)
(* carries them in that order, so a receiver is the number it reads next.  *)
(* A chunk 0 stands for what the log of the previous session replays.      *)
(*                                                                         *)
(*   setup       how far create_terminal is                                *)
(*   opened      is the workspace's row there?                             *)
(*   row, log    the terminal's row, and its term_log                      *)
(*   listed      is the terminal in PtyManager's map?                      *)
(*   reader      reading, holding (a chunk is in the scrollback and not    *)
(*               yet sent), or gone                                        *)
(*   closed      Terminal.closed                                           *)
(*   got, sent   chunks in the scrollback so far, and sent                 *)
(*   scrollback  the last Keep chunks                                      *)
(*   mirror      none, on, writing, ending (the write after its loop), gone *)
(*   mnext, buf  the mirror's receiver and its buffer                      *)
(*   lost        history: the chunks of writes to term_log that failed     *)
(*   client      away, subscribed (the scrollback is not copied yet), on,  *)
(*               or told (the exit message ended the stream)               *)
(*   cnext       the client's receiver                                     *)
(*   view        what the client was sent; replayed of it are the replay   *)
(***************************************************************************)
EXTENDS Integers, Sequences

CONSTANTS
  Client,
  Capacity,   \* of the broadcast channel, 256
  Keep,       \* SCROLLBACK_CAP, in chunks
  PriorLen,   \* chunks replayed from the previous session
  MaxChunks   \* bound

ASSUME PtyAssumption ==
  /\ Capacity \in Nat \ {0}
  /\ Keep \in Nat \ {0}
  /\ PriorLen \in Nat
  /\ MaxChunks \in Nat

VARIABLES setup, opened, row, log, listed, reader, closed, got, sent, scrollback,
          mirror, mnext, buf, lost, client, cnext, view, replayed

table == <<opened, row, log>>
pty == <<reader, closed, got, sent, scrollback>>
mirrorVars == <<mirror, mnext, buf, lost>>
streams == <<client, cnext, view, replayed>>
ptyVars == <<setup, listed, table, pty, mirrorVars, streams>>

\* In a view, the message "lagged n chunks".
Lag == -1

Chunk == 1..MaxChunks
Old == {0} \cup Chunk

Flags ==
  /\ opened \in BOOLEAN /\ row \in BOOLEAN /\ listed \in BOOLEAN /\ closed \in BOOLEAN
  /\ row => opened

OutputTypes ==
  /\ setup \in {"created", "seeded", "mirrored", "done", "dropped"}
  /\ log \in Seq(Chunk) /\ buf \in Seq(Chunk)
  /\ reader \in {"reading", "holding", "gone"}
  /\ got \in 0..MaxChunks /\ sent \in 0..MaxChunks
  /\ scrollback \in Seq(Old)
  /\ mirror \in {"none", "on", "writing", "ending", "gone"}
  /\ mnext \in 1..MaxChunks + 1
  /\ lost \subseteq Chunk
  /\ mirror \in {"writing", "ending"} => buf # <<>>

StreamTypes ==
  /\ client \in [Client -> {"away", "subscribed", "on", "told"}]
  /\ cnext \in [Client -> 1..MaxChunks + 1]
  /\ view \in [Client -> Seq(Old \cup {Lag})]
  /\ replayed \in [Client -> Nat]

PtyTypeOK == Flags /\ OutputTypes /\ StreamTypes

PtyInit ==
  /\ setup = "created"
  /\ listed = TRUE
  /\ opened = TRUE
  /\ row = FALSE
  /\ log = <<>>
  /\ reader = "reading"
  /\ closed = FALSE
  /\ got = 0
  /\ sent = 0
  /\ scrollback = <<>>
  /\ mirror = "none"
  /\ mnext = 1
  /\ buf = <<>>
  /\ lost = {}
  /\ client = [c \in Client |-> "away"]
  /\ cnext = [c \in Client |-> 1]
  /\ view = [c \in Client |-> <<>>]
  /\ replayed = [c \in Client |-> 0]

\* Mutant of LastKept: the buffer is cut at the wrong end.
LastKeptFront(s) == IF Len(s) > Keep THEN SubSeq(s, 1, Keep) ELSE s

\* What does not fit any more goes from the front.
LastKept(s) == IF Len(s) > Keep THEN SubSeq(s, Len(s) - Keep + 1, Len(s)) ELSE s

-----------------------------------------------------------------------------
(* The threads of the pty                                                  *)

\* A chunk goes into the scrollback first, under its lock ...
Read ==
  /\ reader = "reading"
  /\ got < MaxChunks
  /\ got' = got + 1
  /\ scrollback' = LastKept(Append(scrollback, got + 1))
  /\ reader' = "holding"
  /\ UNCHANGED <<setup, listed, closed, sent, table, mirrorVars, streams>>

\* ... and is then sent to whoever is subscribed.
Send ==
  /\ reader = "holding"
  /\ sent' = got
  /\ reader' = "reading"
  /\ UNCHANGED <<setup, listed, closed, got, scrollback, table, mirrorVars, streams>>

ReaderEnds ==
  /\ reader = "reading"
  /\ reader' = "gone"
  /\ closed' = TRUE
  /\ UNCHANGED <<setup, listed, got, sent, scrollback, table, mirrorVars, streams>>

\* The wait thread reaps the child, or the writer thread fails: output may
\* follow.
Reaped ==
  /\ ~closed
  /\ closed' = TRUE
  /\ UNCHANGED <<setup, listed, reader, got, sent, scrollback, table, mirrorVars, streams>>

-----------------------------------------------------------------------------
(* create_terminal                                                         *)

\* prepend_scrollback with the log of the previous terminal.
Seed ==
  /\ setup = "created"
  /\ scrollback' = LastKept([i \in 1..PriorLen |-> 0] \o scrollback)
  /\ setup' = "seeded"
  /\ UNCHANGED <<listed, reader, closed, got, sent, table, mirrorVars, streams>>

StartMirror ==
  /\ setup = "seeded"
  /\ mirror' = "on"
  /\ mnext' = sent + 1
  /\ setup' = "mirrored"
  /\ UNCHANGED <<listed, buf, lost, table, pty, streams>>

\* The row is inserted last.  Its foreign key refuses it when the workspace
\* was closed meanwhile, and the database may fail; the caller is told.
InsertRow ==
  /\ setup = "mirrored"
  /\ row' \in {FALSE, opened}
  /\ setup' = IF row' THEN "done" ELSE "dropped"
  /\ UNCHANGED <<listed, opened, log, pty, mirrorVars, streams>>

\* The caller goes away at one of the awaits; an insert under way lands.
CreateDropped ==
  /\ setup \in {"created", "mirrored"}
  /\ row' \in {FALSE, opened /\ setup = "mirrored"}
  /\ setup' = "dropped"
  /\ UNCHANGED <<listed, opened, log, pty, mirrorVars, streams>>

-----------------------------------------------------------------------------
(* The mirror task                                                         *)

Lagged(next) == next + Capacity <= sent
Pending(next) == next <= sent /\ ~Lagged(next)

\* Every sender is dropped: the reader thread's, and the terminal's own, which
\* the map, create_terminal and every attached stream keep alive (the input
\* pump of a stream, until its client has gone).
ChannelClosed ==
  /\ reader = "gone"
  /\ ~listed
  /\ setup \in {"done", "dropped"}
  /\ \A c \in Client : client[c] = "away"

\* A chunk is buffered; the buffer is written when it is large or the last
\* write is half a second ago.
MirrorRecv ==
  /\ mirror = "on"
  /\ Pending(mnext)
  /\ buf' = Append(buf, mnext)
  /\ mnext' = mnext + 1
  /\ mirror' \in {"on", "writing"}
  /\ UNCHANGED <<setup, listed, lost, table, pty, streams>>

\* Mutant of MirrorTimer: a quiet terminal is never flushed.
MirrorTimerNever == FALSE /\ UNCHANGED ptyVars

\* Nothing has come for 750 ms.
MirrorTimer ==
  /\ mirror = "on"
  /\ buf # <<>>
  /\ mirror' = "writing"
  /\ UNCHANGED <<setup, listed, table, pty, mnext, buf, lost, streams>>

AfterWrite ==
  /\ buf' = <<>>
  /\ mirror' = IF mirror = "writing" THEN "on" ELSE "gone"
  /\ UNCHANGED <<setup, listed, opened, row, mnext, pty, streams>>

\* append_term_log.
MirrorWrite ==
  /\ mirror \in {"writing", "ending"}
  /\ row
  /\ log' = log \o buf
  /\ lost' = lost
  /\ AfterWrite

\* The write fails, for want of a row (not yet, or no longer) or because the
\* database is busy, full or broken: the error is ignored, and what was taken
\* out of the buffer is gone.
MirrorWriteFails ==
  /\ mirror \in {"writing", "ending"}
  /\ lost' = lost \cup {buf[i] : i \in 1..Len(buf)}
  /\ log' = log
  /\ AfterWrite

\* Mutant of MirrorBreak: the mirror goes on after a lag, as the streams do.
MirrorResumes ==
  /\ mirror = "on"
  /\ Lagged(mnext)
  /\ mnext' = sent - Capacity + 1
  /\ UNCHANGED <<setup, listed, table, pty, mirror, buf, lost, streams>>

\* Any error of recv ends the loop, a lag as well as the end of the channel.
MirrorBreak ==
  /\ mirror = "on"
  /\ Lagged(mnext) \/ (ChannelClosed /\ mnext > sent)
  /\ mirror' = IF buf = <<>> THEN "gone" ELSE "ending"
  /\ UNCHANGED <<setup, listed, table, pty, mnext, buf, lost, streams>>

-----------------------------------------------------------------------------
(* stream_pty                                                              *)

\* Clients know a terminal by create_terminal's answer or by its row.
Announced == setup = "done" \/ row

Attach(c) ==
  /\ client[c] = "away" /\ listed /\ Announced
  /\ client' = [client EXCEPT ![c] = "subscribed"]
  /\ cnext' = [cnext EXCEPT ![c] = sent + 1]
  /\ UNCHANGED <<setup, listed, table, pty, mirrorVars, view, replayed>>

Snapshot(c) ==
  /\ client[c] = "subscribed"
  /\ client' = [client EXCEPT ![c] = "on"]
  /\ view' = [view EXCEPT ![c] = scrollback]
  /\ replayed' = [replayed EXCEPT ![c] = Len(scrollback)]
  /\ UNCHANGED <<setup, listed, table, pty, mirrorVars, cnext>>

Recv(c) ==
  /\ client[c] = "on"
  /\ Pending(cnext[c])
  /\ view' = [view EXCEPT ![c] = Append(@, cnext[c])]
  /\ cnext' = [cnext EXCEPT ![c] = @ + 1]
  /\ UNCHANGED <<setup, listed, table, pty, mirrorVars, client, replayed>>

\* Mutant of RecvLagged: the client is not told.
RecvLaggedSilent(c) ==
  /\ client[c] = "on"
  /\ Lagged(cnext[c])
  /\ cnext' = [cnext EXCEPT ![c] = sent - Capacity + 1]
  /\ UNCHANGED <<setup, listed, table, pty, mirrorVars, client, view, replayed>>

\* The client is told how many chunks it missed, and goes on with the oldest
\* one the channel still has.
RecvLagged(c) ==
  /\ client[c] = "on"
  /\ Lagged(cnext[c])
  /\ view' = [view EXCEPT ![c] = Append(@, Lag)]
  /\ cnext' = [cnext EXCEPT ![c] = sent - Capacity + 1]
  /\ UNCHANGED <<setup, listed, table, pty, mirrorVars, client, replayed>>

\* 250 ms without a chunk, and the terminal is closed.
Exit(c) ==
  /\ client[c] = "on"
  /\ closed
  /\ client' = [client EXCEPT ![c] = "told"]
  /\ UNCHANGED <<setup, listed, table, pty, mirrorVars, cnext, view, replayed>>

\* The client disconnects, or starts over.
Leave(c) ==
  /\ client[c] # "away"
  /\ client' = [client EXCEPT ![c] = "away"]
  /\ cnext' = [cnext EXCEPT ![c] = 1]
  /\ view' = [view EXCEPT ![c] = <<>>]
  /\ replayed' = [replayed EXCEPT ![c] = 0]
  /\ UNCHANGED <<setup, listed, table, pty, mirrorVars>>

-----------------------------------------------------------------------------
(* Closing                                                                 *)

\* close_terminal takes the terminal out of the map; its row stays.
CloseTerminal ==
  /\ listed /\ Announced
  /\ listed' = FALSE
  /\ UNCHANGED <<setup, table, pty, mirrorVars, streams>>

\* close_workspace deletes the workspace's row, the cascades those of its
\* terminals and their logs; the terminal itself runs on.
CloseWorkspace ==
  /\ opened
  /\ opened' = FALSE /\ row' = FALSE /\ log' = <<>>
  /\ UNCHANGED <<setup, listed, pty, mirrorVars, streams>>

\* The daemon stops, and what the mirror had buffered is lost.
DaemonStops ==
  /\ setup' = "dropped"
  /\ listed' = FALSE
  /\ reader' = "gone" /\ closed' = TRUE
  /\ mirror' = "gone" /\ buf' = <<>>
  /\ client' = [c \in Client |-> "away"]
  /\ cnext' = [c \in Client |-> 1]
  /\ view' = [c \in Client |-> <<>>]
  /\ replayed' = [c \in Client |-> 0]
  /\ UNCHANGED <<got, sent, scrollback, mnext, lost>>

PtyRestart == DaemonStops /\ UNCHANGED table

\* It comes up with a new database, the old one being unreadable.
PtyRestartAnew == DaemonStops /\ opened' = FALSE /\ row' = FALSE /\ log' = <<>>

-----------------------------------------------------------------------------

MirrorNext ==
  MirrorRecv \/ MirrorTimer \/ MirrorWrite \/ MirrorWriteFails \/ MirrorBreak

StreamNext(c) ==
  Attach(c) \/ Snapshot(c) \/ Recv(c) \/ RecvLagged(c) \/ Exit(c) \/ Leave(c)

PtyNext ==
  \/ Read \/ Send \/ ReaderEnds \/ Reaped
  \/ Seed \/ StartMirror \/ InsertRow \/ CreateDropped
  \/ MirrorNext
  \/ \E c \in Client : StreamNext(c)
  \/ CloseTerminal \/ CloseWorkspace \/ PtyRestart \/ PtyRestartAnew

PtySpec == PtyInit /\ [][PtyNext]_ptyVars

\* The mirror's task is polled and its writes come back.
FairPtySpec == PtySpec /\ WF_ptyVars(MirrorNext)

-----------------------------------------------------------------------------
(* Properties                                                              *)

\* What a client is shown has no silent hole: each item is followed by the
\* next chunk, or the client is told that it lagged.  Only where the replay
\* meets the live output may chunks come twice, those that were read between
\* the subscription and the copy of the scrollback.
Continues(a, b) == b = a + 1 \/ (a = 0 /\ b = 0) \/ a = Lag \/ b = Lag

Shown(v, seam) ==
  \A i \in 1..Len(v) - 1 :
    Continues(v[i], v[i + 1]) \/ (i = seam /\ v[i + 1] <= v[i])

ViewFaithful == \A c \in Client : Shown(view[c], replayed[c])

\* What the table and the mirror's buffer hold of a terminal is in order and
\* has no hole but one a failed write has made, however the channel overflows
\* and wherever the daemon stops: a lag ends the log, it never leaves a gap.
NoOtherHole(s) ==
  \A i \in 1..Len(s) - 1 : s[i] < s[i + 1] /\ s[i] + 1 .. s[i + 1] - 1 \subseteq lost

LogFaithful == NoOtherHole(log \o buf)

\* As long as the mirror runs and the terminal has its row, what was sent to
\* the channel gets into the table or is lost with a write that failed, be the
\* terminal quiet afterwards or busy.
EveryChunkLogged ==
  \A n \in Chunk :
    (mirror = "on" /\ mnext <= n /\ n <= sent) ~>
      (~row \/ mirror = "gone" \/ n \in lost \/ \E i \in 1..Len(log) : log[i] = n)

\* The threads, the channel and the tasks together implement Transcript: the
\* table is only added to while it is kept, misses only what a failed write
\* lost and keeps nothing of a closed workspace; a replay reaches up to the
\* chunk read last, and what follows it comes in order, whoever attaches, lags
\* or leaves.
Due == [c \in Client |-> IF client[c] = "away" THEN 0 ELSE cnext[c]]
Watching == {c \in Client : client[c] \in {"on", "told"}}

Output == INSTANCE Transcript WITH
  said <- got, kept <- log, missed <- lost, forgotten <- ~opened, shown <- view,
  ahead <- Due, live <- Watching

ImplementsTranscript == Output!Spec
=============================================================================
