-------------------------- MODULE PtyStream_proofs --------------------------
(***************************************************************************)
(* Theorems about PtyStream: types, what a client is shown, what the table *)
(* holds, and that the whole implements Transcript.                        *)
(***************************************************************************)
EXTENDS PtyStream, TLAPS

-----------------------------------------------------------------------------
(* Sequences                                                               *)

\* What is kept of a sequence: a suffix of it, all of it when it is short.
LEMMA LastKeptSuffix ==
  ASSUME NEW S, NEW s \in Seq(S)
  PROVE  /\ LastKept(s) \in Seq(S)
         /\ Len(LastKept(s)) = IF Len(s) > Keep THEN Keep ELSE Len(s)
         /\ \A i \in 1..Len(LastKept(s)) :
              LastKept(s)[i] = s[Len(s) - Len(LastKept(s)) + i]
<1>1. Keep \in Nat \ {0} /\ Len(s) \in Nat
  BY PtyAssumption
<1>2. CASE Len(s) > Keep
  <2>1. LastKept(s) = SubSeq(s, Len(s) - Keep + 1, Len(s))
    BY <1>2 DEF LastKept
  <2> QED
    BY <1>1, <1>2, <2>1
<1>3. CASE ~(Len(s) > Keep)
  BY <1>1, <1>3 DEF LastKept
<1> QED
  BY <1>2, <1>3

-----------------------------------------------------------------------------
(* Types                                                                   *)

\* The types hold at the start.
LEMMA TypeInit ==
  PtyInit => PtyTypeOK
<1> SUFFICES ASSUME PtyInit
             PROVE  PtyTypeOK
  OBVIOUS
<1>1. Flags
  BY Zenon DEF PtyInit, Flags
<1>2. OutputTypes /\ StreamTypes
  BY PtyAssumption DEF PtyInit, OutputTypes, StreamTypes
<1> QED
  BY <1>1, <1>2 DEF PtyTypeOK

\* Every step keeps the types of what is on or off: terminal, row, mirror.
LEMMA FlagsStep ==
  Flags /\ [PtyNext]_ptyVars => Flags'
<1> SUFFICES ASSUME Flags, [PtyNext]_ptyVars
             PROVE  Flags'
  OBVIOUS
<1> USE DEF Flags, table, pty, mirrorVars, streams
<1>1. CASE Read \/ Send
  BY <1>1 DEF Read, Send
<1>1a. CASE ReaderEnds
  BY <1>1a DEF ReaderEnds
<1>1b. CASE Reaped
  BY <1>1b DEF Reaped
<1>2. CASE Seed \/ StartMirror
  BY <1>2 DEF Seed, StartMirror
<1>3. CASE InsertRow
  <2>1. UNCHANGED <<opened, listed, closed>>
    BY <1>3 DEF InsertRow
  <2>2. CASE row' = FALSE
    BY <2>1, <2>2, Zenon
  <2>3. CASE row' = opened
    BY <2>1, <2>3, Zenon
  <2> QED
    BY <1>3, <2>2, <2>3 DEF InsertRow
<1>4. CASE CreateDropped
  BY <1>4 DEF CreateDropped
<1>5. CASE MirrorNext
  BY <1>5 DEF MirrorNext, MirrorRecv, MirrorTimer, MirrorWrite, MirrorWriteFails, AfterWrite,
              MirrorBreak
<1>6. ASSUME NEW c \in Client, StreamNext(c)
      PROVE  Flags'
  BY <1>6 DEF StreamNext, Attach, Snapshot, Recv, RecvLagged, Exit, Leave
<1>7. CASE CloseTerminal
  BY <1>7 DEF CloseTerminal
<1>7a. CASE CloseWorkspace
  BY <1>7a DEF CloseWorkspace
<1>8. CASE PtyRestart \/ PtyRestartAnew
  <2>1. listed' = FALSE /\ closed' = TRUE
    BY <1>8, Zenon DEF PtyRestart, PtyRestartAnew, DaemonStops
  <2>2. CASE PtyRestart
    BY <2>1, <2>2, Zenon DEF PtyRestart
  <2>3. CASE PtyRestartAnew
    BY <2>1, <2>3, Zenon DEF PtyRestartAnew
  <2> QED
    BY <1>8, <2>2, <2>3
<1>9. CASE UNCHANGED ptyVars
  BY <1>9 DEF ptyVars
<1> QED
  BY <1>1, <1>1a, <1>1b, <1>2, <1>3, <1>4, <1>5, <1>6, <1>7, <1>7a, <1>8, <1>9 DEF PtyNext

\* Every step keeps the types of the output, the log and the buffer.
LEMMA OutputTypesStep ==
  OutputTypes /\ [PtyNext]_ptyVars => OutputTypes'
<1> SUFFICES ASSUME OutputTypes, [PtyNext]_ptyVars
             PROVE  OutputTypes'
  OBVIOUS
<1> USE PtyAssumption DEF OutputTypes, table, pty, mirrorVars, streams
<1>1. CASE Read
  <2>1. got + 1 \in 0..MaxChunks /\ got + 1 \in Old
    BY <1>1 DEF Read, Old, Chunk
  <2>2. Append(scrollback, got + 1) \in Seq(Old)
    BY <2>1
  <2>3. LastKept(Append(scrollback, got + 1)) \in Seq(Old)
    BY <2>2, LastKeptSuffix, Zenon
  <2> QED
    BY <1>1, <2>1, <2>3 DEF Read
<1>2. CASE Send \/ ReaderEnds \/ Reaped
  BY <1>2 DEF Send, ReaderEnds, Reaped
<1>3. CASE Seed
  <2> DEFINE prior == [i \in 1..PriorLen |-> 0]
  <2>1. prior \in Seq(Old)
    BY DEF Old
  <2> HIDE DEF prior
  <2>2. prior \o scrollback \in Seq(Old)
    BY <2>1
  <2>3. LastKept(prior \o scrollback) \in Seq(Old)
    BY <2>2, LastKeptSuffix, Zenon
  <2> QED
    BY <1>3, <2>3 DEF Seed, prior
<1>4. CASE StartMirror
  BY <1>4 DEF StartMirror
<1>5. CASE InsertRow \/ CreateDropped
  BY <1>5 DEF InsertRow, CreateDropped
<1>6. CASE MirrorRecv
  <2>1. mnext \in Chunk /\ mnext + 1 \in 1..MaxChunks + 1
    BY <1>6 DEF MirrorRecv, Pending, Chunk
  <2>2. Append(buf, mnext) \in Seq(Chunk) /\ Append(buf, mnext) # <<>>
    BY <2>1
  <2> QED
    BY <1>6, <2>1, <2>2 DEF MirrorRecv
<1>7. CASE MirrorTimer \/ MirrorBreak
  BY <1>7 DEF MirrorTimer, MirrorBreak
<1>8. CASE MirrorWrite \/ MirrorWriteFails
  <2>1. log \o buf \in Seq(Chunk) /\ <<>> \in Seq(Chunk)
    OBVIOUS
  <2>2. {buf[i] : i \in 1..Len(buf)} \subseteq Chunk
    OBVIOUS
  <2> QED
    BY <1>8, <2>1, <2>2 DEF MirrorWrite, MirrorWriteFails, AfterWrite
<1>9. ASSUME NEW c \in Client, StreamNext(c)
      PROVE  OutputTypes'
  BY <1>9 DEF StreamNext, Attach, Snapshot, Recv, RecvLagged, Exit, Leave
<1>10. CASE CloseTerminal
  BY <1>10 DEF CloseTerminal
<1>11. CASE CloseWorkspace
  BY <1>11 DEF CloseWorkspace
<1>12. CASE PtyRestart \/ PtyRestartAnew
  <2>1. /\ setup' = "dropped" /\ reader' = "gone" /\ mirror' = "gone" /\ buf' = <<>>
        /\ UNCHANGED <<got, sent, scrollback, mnext, lost>>
        /\ log' = log \/ log' = <<>>
    BY <1>12 DEF PtyRestart, PtyRestartAnew, DaemonStops
  <2>2. <<>> \in Seq(Chunk)
    OBVIOUS
  <2> QED
    BY <2>1, <2>2
<1>13. CASE UNCHANGED ptyVars
  BY <1>13 DEF ptyVars
<1> QED
  BY <1>1, <1>2, <1>3, <1>4, <1>5, <1>6, <1>7, <1>8, <1>9, <1>10, <1>11, <1>12, <1>13
     DEF PtyNext, MirrorNext

\* Every step keeps the types of what the clients have.
LEMMA StreamTypesStep ==
  OutputTypes /\ StreamTypes /\ [PtyNext]_ptyVars => StreamTypes'
<1> SUFFICES ASSUME OutputTypes, StreamTypes, [PtyNext]_ptyVars
             PROVE  StreamTypes'
  OBVIOUS
<1> USE DEF StreamTypes, streams
<1>1. ASSUME NEW c \in Client, StreamNext(c)
      PROVE  StreamTypes'
  <2>0. sent \in 0..MaxChunks /\ scrollback \in Seq(Old) /\ MaxChunks \in Nat
        /\ Capacity \in Nat \ {0}
    BY PtyAssumption DEF OutputTypes
  <2>1. CASE Attach(c)
    BY <2>0, <2>1 DEF Attach
  <2>2. CASE Snapshot(c)
    <3>1. scrollback \in Seq(Old \cup {Lag}) /\ Len(scrollback) \in Nat
      BY <2>0
    <3> QED
      BY <2>2, <3>1 DEF Snapshot
  <2>3. CASE Recv(c)
    <3>1. cnext[c] \in Old /\ cnext[c] + 1 \in 1..MaxChunks + 1
      BY <2>0, <2>3 DEF Recv, Pending, Old, Chunk
    <3>2. Append(view[c], cnext[c]) \in Seq(Old \cup {Lag})
      BY <3>1
    <3> QED
      BY <2>3, <3>1, <3>2 DEF Recv
  <2>4. CASE RecvLagged(c)
    <3>1. sent - Capacity + 1 \in 1..MaxChunks + 1
      BY <2>0, <2>4 DEF RecvLagged, Lagged
    <3>2. Append(view[c], Lag) \in Seq(Old \cup {Lag})
      OBVIOUS
    <3> QED
      BY <2>4, <3>1, <3>2 DEF RecvLagged
  <2>5. CASE Exit(c)
    BY <2>5 DEF Exit
  <2>6. CASE Leave(c)
    BY <2>0, <2>6 DEF Leave
  <2> QED
    BY <1>1, <2>1, <2>2, <2>3, <2>4, <2>5, <2>6 DEF StreamNext
<1>2. CASE PtyRestart \/ PtyRestartAnew
  <2>1. /\ client' = [c \in Client |-> "away"] /\ cnext' = [c \in Client |-> 1]
        /\ view' = [c \in Client |-> <<>>] /\ replayed' = [c \in Client |-> 0]
    BY <1>2 DEF PtyRestart, PtyRestartAnew, DaemonStops
  <2>2. 1 \in 1..MaxChunks + 1 /\ <<>> \in Seq(Old \cup {Lag}) /\ 0 \in Nat
    BY PtyAssumption
  <2> QED
    BY <2>1, <2>2
<1>3. CASE UNCHANGED streams
  BY <1>3
<1> QED
  BY <1>1, <1>2, <1>3
     DEF PtyNext, ptyVars, Read, Send, ReaderEnds, Reaped, Seed, StartMirror, InsertRow,
         CreateDropped, MirrorNext, MirrorRecv, MirrorTimer, MirrorWrite, MirrorWriteFails,
         AfterWrite, MirrorBreak, CloseTerminal, CloseWorkspace

\* Types, for any channel, scrollback and number of clients.
THEOREM PtyTypeCorrect == PtySpec => []PtyTypeOK
<1>1. PtyInit => PtyTypeOK
  BY TypeInit
<1>2. PtyTypeOK /\ [PtyNext]_ptyVars => PtyTypeOK'
  BY FlagsStep, OutputTypesStep, StreamTypesStep DEF PtyTypeOK
<1> QED
  BY <1>1, <1>2, PTL DEF PtySpec

-----------------------------------------------------------------------------
(* The table                                                               *)

\* A chunk is in the sequence or among the missing.
Accounted(s, n, missing) == n \in missing \/ \E k \in 1..Len(s) : s[k] = n

\* The sequence is in order, and accounts for what lies between its chunks ...
Orderly(s, missing) ==
  \A i, j \in 1..Len(s) : i < j =>
    s[i] < s[j] /\ \A n \in s[i]..s[j] : Accounted(s, n, missing)

\* ... and from its first one up to the one that comes next.
UpTo(s, next, missing) ==
  \A i \in 1..Len(s) :
    s[i] < next /\ \A n \in s[i]..next - 1 : Accounted(s, n, missing)

\* What the mirror has taken from the channel is stored, buffered or lost, up to
\* where it reads next as long as it runs; there is no log without a row, no row
\* before the mirror.
LogInv ==
  /\ Orderly(log \o buf, lost)
  /\ mirror \in {"on", "writing"} => UpTo(log \o buf, mnext, lost)
  /\ setup \in {"created", "seeded"} => mirror = "none" /\ log = <<>> /\ buf = <<>>

NoRowNoLog ==
  /\ ~row => log = <<>>
  /\ setup \in {"created", "seeded", "mirrored"} => ~row

\* An orderly sequence has no hole but where chunks were lost.
LEMMA OrderlyNoHole ==
  ASSUME NEW s \in Seq(Int), Orderly(s, lost)
  PROVE  NoOtherHole(s)
<1> SUFFICES ASSUME NEW i \in 1..Len(s) - 1
             PROVE  s[i] < s[i + 1] /\ s[i] + 1 .. s[i + 1] - 1 \subseteq lost
  BY DEF NoOtherHole
<1>1. Len(s) \in Nat /\ i \in 1..Len(s) /\ i + 1 \in 1..Len(s) /\ i < i + 1
  OBVIOUS
<1>2. s[i] < s[i + 1]
  BY <1>1 DEF Orderly
<1>3. ASSUME NEW n \in s[i] + 1 .. s[i + 1] - 1
      PROVE  n \in lost
  <2>1. s[i] \in Int /\ s[i + 1] \in Int
    BY <1>1
  <2>2. n \in s[i]..s[i + 1]
    BY <2>1
  <2>3. Accounted(s, n, lost)
    BY <1>1, <2>2 DEF Orderly
  <2>4. ASSUME NEW k \in 1..Len(s), s[k] = n
        PROVE  FALSE
    <3>1. k <= i => s[k] <= s[i]
      BY <1>1, <2>1 DEF Orderly
    <3>2. i + 1 <= k => s[i + 1] <= s[k]
      BY <1>1, <2>1 DEF Orderly
    <3>3. k <= i \/ i + 1 <= k
      BY <1>1
    <3> QED
      BY <2>1, <2>4, <3>1, <3>2, <3>3
  <2> QED
    BY <2>3, <2>4 DEF Accounted
<1> QED
  BY <1>2, <1>3

\* The chunk that comes next goes on.
LEMMA AppendOrderly ==
  ASSUME NEW s \in Seq(Int), NEW n \in Int, NEW missing, Orderly(s, missing),
         UpTo(s, n, missing)
  PROVE  Orderly(Append(s, n), missing) /\ UpTo(Append(s, n), n + 1, missing)
<1> DEFINE t == Append(s, n)
<1>0. /\ Len(s) \in Nat /\ Len(t) = Len(s) + 1 /\ t[Len(t)] = n
      /\ \A i \in 1..Len(s) : t[i] = s[i] /\ s[i] \in Int
  OBVIOUS
<1> HIDE DEF t
<1>1. ASSUME NEW m, Accounted(s, m, missing)
      PROVE  Accounted(t, m, missing)
  BY <1>0, <1>1 DEF Accounted
<1>2. Accounted(t, n, missing)
  <2>1. Len(t) \in 1..Len(t)
    BY <1>0
  <2> QED
    BY <1>0, <2>1 DEF Accounted
<1>3. ASSUME NEW i \in 1..Len(s)
      PROVE  t[i] < n /\ \A m \in t[i]..n : Accounted(t, m, missing)
  <2>1. t[i] = s[i] /\ s[i] < n /\ s[i] \in Int
    BY <1>0 DEF UpTo
  <2>2. ASSUME NEW m \in t[i]..n
        PROVE  Accounted(t, m, missing)
    <3>1. CASE m = n
      BY <1>2, <3>1
    <3>2. CASE m # n
      <4>1. m \in s[i]..n - 1
        BY <2>1, <3>2
      <4> QED
        BY <1>1, <4>1 DEF UpTo
    <3> QED
      BY <3>1, <3>2
  <2> QED
    BY <2>1, <2>2
<1>4. Orderly(t, missing)
  <2> SUFFICES ASSUME NEW i \in 1..Len(t), NEW j \in 1..Len(t), i < j
               PROVE  t[i] < t[j] /\ \A m \in t[i]..t[j] : Accounted(t, m, missing)
    BY DEF Orderly
  <2>1. i \in 1..Len(s) /\ (j \in 1..Len(s) \/ j = Len(t))
    BY <1>0
  <2>2. CASE j \in 1..Len(s)
    <3>1. t[i] = s[i] /\ t[j] = s[j]
      BY <1>0, <2>1, <2>2
    <3>2. s[i] < s[j] /\ \A m \in s[i]..s[j] : Accounted(s, m, missing)
      BY <2>1, <2>2 DEF Orderly
    <3> QED
      BY <1>1, <3>1, <3>2
  <2>3. CASE j = Len(t)
    <3>1. t[j] = n
      BY <1>0, <2>3
    <3> QED
      BY <1>3, <2>1, <3>1
  <2> QED
    BY <2>1, <2>2, <2>3
<1>5. UpTo(t, n + 1, missing)
  <2> SUFFICES ASSUME NEW i \in 1..Len(t)
               PROVE  t[i] < n + 1 /\ \A m \in t[i]..n : Accounted(t, m, missing)
    <3>1. n + 1 - 1 = n
      OBVIOUS
    <3> QED
      BY <3>1 DEF UpTo
  <2>1. CASE i = Len(t)
    <3>1. t[i] = n
      BY <1>0, <2>1
    <3>2. \A m \in n..n : m = n
      OBVIOUS
    <3>3. n < n + 1
      OBVIOUS
    <3> QED
      BY <1>2, <3>1, <3>2, <3>3
  <2>2. CASE i # Len(t)
    <3>1. i \in 1..Len(s)
      BY <1>0, <2>2
    <3>2. t[i] \in Int /\ t[i] < n
      BY <1>0, <1>3, <3>1
    <3> QED
      BY <1>3, <3>1, <3>2
  <2> QED
    BY <2>1, <2>2
<1> QED
  BY <1>4, <1>5 DEF t

\* The front of an orderly sequence is orderly, and accounts for what follows it
\* once the rest is lost.
LEMMA FrontOrderly ==
  ASSUME NEW s \in Seq(Int), NEW t \in Seq(Int), NEW missing, Orderly(s \o t, missing)
  PROVE  /\ Orderly(s, missing)
         /\ Orderly(s, missing \cup {t[i] : i \in 1..Len(t)})
         /\ \A next \in Int : UpTo(s \o t, next, missing)
              => UpTo(s, next, missing \cup {t[i] : i \in 1..Len(t)})
<1> DEFINE gone == {t[i] : i \in 1..Len(t)}
<1>0. /\ Len(s) \in Nat /\ Len(t) \in Nat /\ Len(s \o t) = Len(s) + Len(t)
      /\ \A i \in 1..Len(s) : (s \o t)[i] = s[i]
      /\ \A i \in 1..Len(t) : (s \o t)[Len(s) + i] = t[i]
      /\ \A i \in 1..Len(s \o t) : (s \o t)[i] \in Int
  OBVIOUS
<1>1. ASSUME NEW n, Accounted(s \o t, n, missing)
      PROVE  Accounted(s, n, missing \cup gone)
  <2> SUFFICES ASSUME NEW k \in 1..Len(s \o t), (s \o t)[k] = n, k \notin 1..Len(s)
               PROVE  n \in gone
    BY <1>0, <1>1 DEF Accounted
  <2>1. k - Len(s) \in 1..Len(t) /\ k = Len(s) + (k - Len(s))
    BY <1>0
  <2>2. t[k - Len(s)] = n
    BY <1>0, <2>1
  <2> QED
    BY <2>1, <2>2
<1>2. ASSUME NEW i \in 1..Len(s), NEW j \in 1..Len(s), i < j
      PROVE  /\ s[i] < s[j]
             /\ \A n \in s[i]..s[j] : Accounted(s, n, missing)
             /\ \A n \in s[i]..s[j] : Accounted(s, n, missing \cup gone)
  <2>1. /\ i \in 1..Len(s \o t) /\ j \in 1..Len(s \o t)
        /\ (s \o t)[i] = s[i] /\ (s \o t)[j] = s[j] /\ s[i] \in Int /\ s[j] \in Int
    BY <1>0
  <2>2. s[i] < s[j] /\ \A n \in s[i]..s[j] : Accounted(s \o t, n, missing)
    BY <1>2, <2>1 DEF Orderly
  <2>3. ASSUME NEW n \in s[i]..s[j], NEW k \in 1..Len(s \o t), (s \o t)[k] = n
        PROVE  k \in 1..Len(s)
    <3> SUFFICES ASSUME j < k
                 PROVE  FALSE
      BY <1>0
    <3>1. (s \o t)[j] < (s \o t)[k]
      BY <2>1 DEF Orderly
    <3> QED
      BY <2>1, <2>3, <3>1
  <2>4. \A n \in s[i]..s[j] : Accounted(s, n, missing)
    BY <1>0, <2>2, <2>3 DEF Accounted
  <2> QED
    BY <1>1, <2>2, <2>4
<1>3. ASSUME NEW next \in Int, UpTo(s \o t, next, missing), NEW i \in 1..Len(s)
      PROVE  s[i] < next /\ \A n \in s[i]..next - 1 : Accounted(s, n, missing \cup gone)
  <2>1. i \in 1..Len(s \o t) /\ (s \o t)[i] = s[i]
    BY <1>0
  <2>2. s[i] < next /\ \A n \in s[i]..next - 1 : Accounted(s \o t, n, missing)
    BY <1>3, <2>1 DEF UpTo
  <2> QED
    BY <1>1, <2>2
<1>4. Orderly(s, missing) /\ Orderly(s, missing \cup gone)
  BY <1>2 DEF Orderly
<1>5. \A next \in Int : UpTo(s \o t, next, missing) => UpTo(s, next, missing \cup gone)
  BY <1>3 DEF UpTo
<1> QED
  BY <1>4, <1>5

\* So is what remains when the front is dropped.
LEMMA BackOrderly ==
  ASSUME NEW s \in Seq(Int), NEW t \in Seq(Int), NEW missing, Orderly(s \o t, missing)
  PROVE  /\ Orderly(t, missing)
         /\ \A next \in Int : UpTo(s \o t, next, missing) => UpTo(t, next, missing)
<1>0. /\ Len(s) \in Nat /\ Len(t) \in Nat /\ Len(s \o t) = Len(s) + Len(t)
      /\ \A i \in 1..Len(t) : Len(s) + i \in 1..Len(s \o t) /\ (s \o t)[Len(s) + i] = t[i]
      /\ \A i \in 1..Len(s \o t) : (s \o t)[i] \in Int
  OBVIOUS
<1>1. ASSUME NEW i \in 1..Len(t), NEW n \in Int, t[i] <= n, Accounted(s \o t, n, missing)
      PROVE  Accounted(t, n, missing)
  <2> SUFFICES ASSUME NEW k \in 1..Len(s \o t), (s \o t)[k] = n
               PROVE  \E l \in 1..Len(t) : t[l] = n
    BY <1>1 DEF Accounted
  <2>1. ~(k < Len(s) + i)
    <3> SUFFICES ASSUME k < Len(s) + i
                 PROVE  FALSE
      OBVIOUS
    <3>1. (s \o t)[k] < (s \o t)[Len(s) + i]
      BY <1>0 DEF Orderly
    <3> QED
      BY <1>0, <1>1, <3>1
  <2>2. k - Len(s) \in 1..Len(t) /\ k = Len(s) + (k - Len(s))
    BY <1>0, <2>1
  <2>3. t[k - Len(s)] = n
    BY <1>0, <2>2
  <2> QED
    BY <2>2, <2>3
<1>2. Orderly(t, missing)
  <2> SUFFICES ASSUME NEW i \in 1..Len(t), NEW j \in 1..Len(t), i < j
               PROVE  t[i] < t[j] /\ \A n \in t[i]..t[j] : Accounted(t, n, missing)
    BY DEF Orderly
  <2>1. /\ Len(s) + i \in 1..Len(s \o t) /\ Len(s) + j \in 1..Len(s \o t)
        /\ (s \o t)[Len(s) + i] = t[i] /\ (s \o t)[Len(s) + j] = t[j]
        /\ Len(s) + i < Len(s) + j /\ t[i] \in Int /\ t[j] \in Int
    BY <1>0
  <2>2. t[i] < t[j] /\ \A n \in t[i]..t[j] : Accounted(s \o t, n, missing)
    BY <2>1 DEF Orderly
  <2>3. \A n \in t[i]..t[j] : n \in Int /\ t[i] <= n
    BY <2>1
  <2> QED
    BY <1>1, <2>2, <2>3
<1>3. ASSUME NEW next \in Int, UpTo(s \o t, next, missing)
      PROVE  UpTo(t, next, missing)
  <2> SUFFICES ASSUME NEW i \in 1..Len(t)
               PROVE  t[i] < next /\ \A n \in t[i]..next - 1 : Accounted(t, n, missing)
    BY DEF UpTo
  <2>1. Len(s) + i \in 1..Len(s \o t) /\ (s \o t)[Len(s) + i] = t[i] /\ t[i] \in Int
    BY <1>0
  <2>2. t[i] < next /\ \A n \in t[i]..next - 1 : Accounted(s \o t, n, missing)
    BY <1>3, <2>1 DEF UpTo
  <2>3. \A n \in t[i]..next - 1 : n \in Int /\ t[i] <= n
    BY <2>1
  <2> QED
    BY <1>1, <2>2, <2>3
<1> QED
  BY <1>2, <1>3

\* Every step keeps it that without a row there is no log.
LEMMA NoRowNoLogStep ==
  Flags /\ NoRowNoLog /\ [PtyNext]_ptyVars => NoRowNoLog'
<1> SUFFICES ASSUME Flags, NoRowNoLog, [PtyNext]_ptyVars
             PROVE  NoRowNoLog'
  OBVIOUS
<1> USE DEF NoRowNoLog, table, pty, mirrorVars, streams
<1>1. CASE Read
  BY <1>1 DEF Read
<1>2. CASE Send
  BY <1>2 DEF Send
<1>3. CASE ReaderEnds
  BY <1>3 DEF ReaderEnds
<1>4. CASE Reaped
  BY <1>4 DEF Reaped
<1>5. CASE Seed
  BY <1>5 DEF Seed
<1>6. CASE StartMirror
  BY <1>6 DEF StartMirror
<1>7. CASE InsertRow
  BY <1>7 DEF InsertRow
<1>8. CASE CreateDropped
  BY <1>8 DEF CreateDropped
<1>9. CASE MirrorRecv \/ MirrorTimer \/ MirrorBreak
  BY <1>9 DEF MirrorRecv, MirrorTimer, MirrorBreak
<1>10. CASE MirrorWrite \/ MirrorWriteFails
  BY <1>10 DEF MirrorWrite, MirrorWriteFails, AfterWrite
<1>11. ASSUME NEW c \in Client, StreamNext(c)
       PROVE  NoRowNoLog'
  BY <1>11 DEF StreamNext, Attach, Snapshot, Recv, RecvLagged, Exit, Leave
<1>12. CASE CloseTerminal
  BY <1>12 DEF CloseTerminal
<1>13. CASE CloseWorkspace
  BY <1>13 DEF CloseWorkspace
<1>14. CASE PtyRestart \/ PtyRestartAnew
  BY <1>14 DEF PtyRestart, PtyRestartAnew, DaemonStops
<1>15. CASE UNCHANGED ptyVars
  BY <1>15 DEF ptyVars
<1> QED
  BY <1>1, <1>2, <1>3, <1>4, <1>5, <1>6, <1>7, <1>8, <1>9, <1>10, <1>11, <1>12, <1>13,
     <1>14, <1>15 DEF PtyNext, MirrorNext

\* A step that leaves the log and what the mirror has read alone.
LEMMA LogInvSame ==
  ASSUME LogInv, UNCHANGED <<log, buf, mnext, lost>>,
         mirror' \in {"on", "writing"} => mirror \in {"on", "writing"},
         setup' \in {"created", "seeded"} => setup \in {"created", "seeded"} /\ mirror' = mirror
  PROVE  LogInv'
BY DEF LogInv, Orderly, UpTo, Accounted

\* A step after which log and buffer together are orderly.
LEMMA LogInvNew ==
  ASSUME NEW s, log' \o buf' = s, Orderly(s, lost'),
         mirror' \in {"on", "writing"} => UpTo(s, mnext', lost'),
         setup' \notin {"created", "seeded"}
  PROVE  LogInv'
<1>1. Orderly(log \o buf, lost)'
  BY DEF Orderly, Accounted
<1>2. mirror' \in {"on", "writing"} => UpTo(log \o buf, mnext, lost)'
  BY DEF UpTo, Accounted
<1> QED
  BY <1>1, <1>2 DEF LogInv

\* Every step keeps log and buffer in order, with only lost chunks missing.
LEMMA LogInvStep ==
  OutputTypes /\ NoRowNoLog /\ LogInv /\ [PtyNext]_ptyVars => LogInv'
<1> SUFFICES ASSUME OutputTypes, NoRowNoLog, LogInv, [PtyNext]_ptyVars
             PROVE  LogInv'
  OBVIOUS
<1>0. /\ log \in Seq(Int) /\ buf \in Seq(Int) /\ log \o buf \in Seq(Int)
      /\ mnext \in Int
  BY PtyAssumption DEF OutputTypes, Chunk
<1>0a. /\ Orderly(log \o buf, lost)
       /\ mirror \in {"on", "writing"} => UpTo(log \o buf, mnext, lost)
  BY DEF LogInv
<1>0b. \A s \in Seq(Int) : s \o <<>> = s /\ <<>> \o s = s
  OBVIOUS
<1>1. CASE Read \/ Send \/ ReaderEnds \/ Reaped \/ Seed \/ InsertRow \/ CreateDropped
           \/ CloseTerminal \/ (\E c \in Client : StreamNext(c)) \/ UNCHANGED ptyVars
  <2>1. /\ UNCHANGED <<log, buf, mnext, lost, mirror>>
        /\ setup' \in {"created", "seeded"} => setup \in {"created", "seeded"}
    BY <1>1 DEF Read, Send, ReaderEnds, Reaped, Seed, InsertRow, CreateDropped, CloseTerminal,
         StreamNext, Attach, Snapshot, Recv, RecvLagged, Exit, Leave, ptyVars, table, mirrorVars
  <2> QED
    BY <2>1, LogInvSame
<1>2. CASE StartMirror
  <2>1. log' = <<>> /\ buf' = <<>> /\ setup' = "mirrored"
    BY <1>2 DEF StartMirror, LogInv, table, mirrorVars
  <2>2. log' \o buf' = <<>>
    BY <2>1
  <2> QED
    BY <2>1, <2>2, LogInvNew DEF Orderly, UpTo
<1>3. CASE MirrorTimer \/ MirrorBreak
  <2>1. /\ UNCHANGED <<log, buf, mnext, lost>>
        /\ mirror = "on" /\ mirror' \in {"writing", "gone", "ending"}
        /\ setup' \notin {"created", "seeded"}
    BY <1>3 DEF MirrorTimer, MirrorBreak, table, LogInv
  <2> QED
    BY <2>1, LogInvSame
<1>4. CASE MirrorRecv
  <2>1. /\ UNCHANGED <<log, lost>> /\ buf' = Append(buf, mnext) /\ mnext' = mnext + 1
        /\ mirror = "on"
        /\ setup' \notin {"created", "seeded"}
    BY <1>4 DEF MirrorRecv, table, LogInv
  <2>2. log' \o buf' = Append(log \o buf, mnext)
    BY <1>0, <2>1
  <2>3. UpTo(log \o buf, mnext, lost)
    BY <1>0a, <2>1
  <2>4. /\ Orderly(Append(log \o buf, mnext), lost')
        /\ UpTo(Append(log \o buf, mnext), mnext', lost')
    BY <1>0, <1>0a, <2>1, <2>3, AppendOrderly
  <2> QED
    BY <2>1, <2>2, <2>4, LogInvNew
<1>5. CASE MirrorWrite
  <2>1. /\ log' = log \o buf /\ buf' = <<>> /\ UNCHANGED <<mnext, lost>>
        /\ mirror \in {"writing", "ending"}
        /\ mirror' = IF mirror = "writing" THEN "on" ELSE "gone"
        /\ setup' \notin {"created", "seeded"}
    BY <1>5 DEF MirrorWrite, AfterWrite, LogInv
  <2>2. log' \o buf' = log \o buf
    BY <1>0, <1>0b, <2>1
  <2> QED
    BY <1>0a, <2>1, <2>2, LogInvNew
<1>6. CASE MirrorWriteFails
  <2>1. /\ log' = log /\ buf' = <<>> /\ mnext' = mnext
        /\ lost' = lost \cup {buf[i] : i \in 1..Len(buf)}
        /\ mirror \in {"writing", "ending"}
        /\ mirror' = IF mirror = "writing" THEN "on" ELSE "gone"
        /\ setup' \notin {"created", "seeded"}
    BY <1>6 DEF MirrorWriteFails, AfterWrite, LogInv
  <2>2. log' \o buf' = log
    BY <1>0, <1>0b, <2>1
  <2>3. /\ Orderly(log, lost')
        /\ UpTo(log \o buf, mnext, lost) => UpTo(log, mnext, lost')
    BY <1>0, <1>0a, <2>1, FrontOrderly
  <2> QED
    BY <1>0a, <2>1, <2>2, <2>3, LogInvNew
<1>7. CASE CloseWorkspace
  <2>1. log' = <<>> /\ UNCHANGED <<buf, mnext, lost, mirror, setup>>
    BY <1>7 DEF CloseWorkspace, mirrorVars
  <2>2. log' \o buf' = buf
    BY <1>0, <1>0b, <2>1
  <2>3. /\ Orderly(buf, lost)
        /\ UpTo(log \o buf, mnext, lost) => UpTo(buf, mnext, lost)
    BY <1>0, <1>0a, BackOrderly
  <2>4. CASE setup \in {"created", "seeded"}
    <3>1. UNCHANGED <<log, buf, mnext, lost, mirror, setup>>
      BY <2>1, <2>4 DEF LogInv
    <3> QED
      BY <3>1, LogInvSame
  <2>5. CASE setup \notin {"created", "seeded"}
    BY <1>0a, <2>1, <2>2, <2>3, <2>5, LogInvNew
  <2> QED
    BY <2>4, <2>5
<1>8. CASE PtyRestart \/ PtyRestartAnew
  <2>1. /\ log' \in {log, <<>>} /\ buf' = <<>> /\ lost' = lost
        /\ mirror' = "gone" /\ setup' = "dropped"
    BY <1>8 DEF PtyRestart, PtyRestartAnew, DaemonStops, table
  <2>2. log' \o buf' \in {log, <<>>}
    BY <1>0, <1>0b, <2>1
  <2>3. Orderly(log, lost)
    BY <1>0, <1>0a, FrontOrderly
  <2>4. Orderly(<<>>, lost)
    BY DEF Orderly
  <2> QED
    BY <2>1, <2>2, <2>3, <2>4, LogInvNew
<1> QED
  BY <1>1, <1>2, <1>3, <1>4, <1>5, <1>6, <1>7, <1>8 DEF PtyNext, MirrorNext

\* What log and buffer hold has no other hole, and neither has the log alone.
LEMMA LogInvFaithful ==
  OutputTypes /\ LogInv => LogFaithful /\ NoOtherHole(log)
<1> SUFFICES ASSUME OutputTypes, LogInv
             PROVE  LogFaithful /\ NoOtherHole(log)
  OBVIOUS
<1>1. log \in Seq(Int) /\ buf \in Seq(Int) /\ log \o buf \in Seq(Int)
  BY PtyAssumption DEF OutputTypes, Chunk
<1>2. Orderly(log \o buf, lost)
  BY DEF LogInv
<1>3. Orderly(log, lost)
  BY <1>1, <1>2, FrontOrderly
<1> QED
  BY <1>1, <1>2, <1>3, OrderlyNoHole DEF LogFaithful

\* Whatever the writes, lags, closings and restarts, the table and the mirror's
\* buffer hold the terminal's output in order, and between two chunks only those
\* of failed writes are missing: a lag or a stop ends the log, it leaves no gap.
THEOREM LogHolesExplained == PtySpec => []LogFaithful
<1>1. PtyInit => LogInv
  BY DEF PtyInit, LogInv, Orderly, UpTo
<1>2. PtyInit => NoRowNoLog
  BY Zenon DEF PtyInit, NoRowNoLog
<1>3. PtyTypeOK /\ LogInv => LogFaithful
  BY LogInvFaithful DEF PtyTypeOK
<1>4. PtyTypeOK => Flags /\ OutputTypes
  BY DEF PtyTypeOK
<1> QED
  BY <1>1, <1>2, <1>3, <1>4, PtyTypeCorrect, NoRowNoLogStep, LogInvStep, PTL DEF PtySpec

-----------------------------------------------------------------------------
(* What a client is shown                                                  *)

\* The scrollback ends with the chunk read last, and holds consecutive chunks
\* below it down to the previous session's.
Numbered(s, last) ==
  \A i \in 1..Len(s) :
    s[i] = IF last - Len(s) + i > 0 THEN last - Len(s) + i ELSE 0

ScrollbackInv ==
  /\ Numbered(scrollback, got)
  /\ setup = "created" => Len(scrollback) = IF got < Keep THEN got ELSE Keep

\* The channel is never ahead of the scrollback.
SentInv ==
  /\ sent <= got
  /\ reader = "reading" => sent = got

\* The view so far, and the chunk that comes next.
StreamInv(v, seam, next) ==
  /\ Shown(v, seam)
  /\ seam \in 0..Len(v)
  /\ \/ Len(v) = 0
     \/ Len(v) > seam /\ v[Len(v)] \in {Lag, next - 1}
     \/ Len(v) = seam /\ v[Len(v)] # Lag /\ next <= v[Len(v)] + 1

ClientInv(c) ==
  /\ client[c] = "away" => view[c] = <<>>
  /\ client[c] = "subscribed" => view[c] = <<>> /\ cnext[c] <= got + 1
  /\ client[c] \in {"on", "told"} => StreamInv(view[c], replayed[c], cnext[c])

\* A suffix of a numbered sequence is numbered.
LEMMA NumberedSuffix ==
  ASSUME NEW s \in Seq(Old), NEW last \in Nat, Numbered(s, last)
  PROVE  Numbered(LastKept(s), last)
<1>1. /\ Len(LastKept(s)) \in Nat
      /\ Len(LastKept(s)) <= Len(s)
      /\ Len(s) \in Nat
      /\ \A i \in 1..Len(LastKept(s)) : LastKept(s)[i] = s[Len(s) - Len(LastKept(s)) + i]
  BY LastKeptSuffix, PtyAssumption
<1> SUFFICES ASSUME NEW i \in 1..Len(LastKept(s))
             PROVE  LastKept(s)[i] = IF last - Len(LastKept(s)) + i > 0
                                       THEN last - Len(LastKept(s)) + i ELSE 0
  BY DEF Numbered
<1> DEFINE k == Len(s) - Len(LastKept(s)) + i
<1>2. k \in 1..Len(s) /\ last - Len(s) + k = last - Len(LastKept(s)) + i
  BY <1>1
<1>3. s[k] = IF last - Len(s) + k > 0 THEN last - Len(s) + k ELSE 0
  BY <1>2 DEF Numbered
<1> QED
  BY <1>1, <1>2, <1>3

\* Every step keeps the channel behind the scrollback.
LEMMA SentInvStep ==
  OutputTypes /\ SentInv /\ [PtyNext]_ptyVars => SentInv'
<1> SUFFICES ASSUME OutputTypes, SentInv, [PtyNext]_ptyVars
             PROVE  SentInv'
  OBVIOUS
<1>0. got \in Nat /\ sent \in Nat
  BY PtyAssumption DEF OutputTypes
<1>1. CASE Read
  BY <1>0, <1>1 DEF SentInv, Read
<1>2. CASE Send
  BY <1>0, <1>2 DEF SentInv, Send
<1>3. CASE ReaderEnds
  BY <1>0, <1>3 DEF SentInv, ReaderEnds
<1>4. CASE PtyRestart \/ PtyRestartAnew
  BY <1>0, <1>4 DEF SentInv, PtyRestart, PtyRestartAnew, DaemonStops
<1>5. CASE UNCHANGED <<reader, got, sent>>
  BY <1>5 DEF SentInv
<1> QED
  BY <1>1, <1>2, <1>3, <1>4, <1>5
     DEF PtyNext, ptyVars, pty, Reaped, Seed, StartMirror, InsertRow, CreateDropped,
         MirrorNext, MirrorRecv, MirrorTimer, MirrorWrite, MirrorWriteFails, AfterWrite,
         MirrorBreak, StreamNext, Attach, Snapshot, Recv, RecvLagged, Exit, Leave,
         CloseTerminal, CloseWorkspace

\* Every step keeps the scrollback numbered.
LEMMA ScrollbackInvStep ==
  OutputTypes /\ ScrollbackInv /\ [PtyNext]_ptyVars => ScrollbackInv'
<1> SUFFICES ASSUME OutputTypes, ScrollbackInv, [PtyNext]_ptyVars
             PROVE  ScrollbackInv'
  OBVIOUS
<1>0. /\ got \in 0..MaxChunks /\ scrollback \in Seq(Old) /\ Len(scrollback) \in Nat
      /\ Keep \in Nat \ {0} /\ PriorLen \in Nat /\ MaxChunks \in Nat
  BY PtyAssumption DEF OutputTypes
<1>1. CASE Read
  <2> DEFINE s == Append(scrollback, got + 1)
  <2>1. /\ got' = got + 1 /\ got < MaxChunks
        /\ scrollback' = LastKept(s)
        /\ setup' = setup
    BY <1>1 DEF Read
  <2>2. s \in Seq(Old) /\ Len(s) = Len(scrollback) + 1
    BY <1>0, <2>1 DEF Old, Chunk
  <2>3. Numbered(s, got + 1)
    <3>1. \A i \in 1..Len(scrollback) : s[i] = scrollback[i]
      BY <1>0
    <3>2. s[Len(scrollback) + 1] = got + 1
      BY <1>0
    <3> HIDE DEF s
    <3>3. \A i \in 1..Len(scrollback) :
            scrollback[i] = IF got - Len(scrollback) + i > 0 THEN got - Len(scrollback) + i ELSE 0
      BY DEF ScrollbackInv, Numbered
    <3> QED
      BY <1>0, <2>2, <3>1, <3>2, <3>3 DEF Numbered
  <2>4. Numbered(LastKept(s), got + 1)
    <3> HIDE DEF s
    <3>1. got + 1 \in Nat
      BY <1>0
    <3> QED
      BY <2>2, <2>3, <3>1, NumberedSuffix
  <2>5. Len(LastKept(s)) = IF Len(s) > Keep THEN Keep ELSE Len(s)
    BY <2>2, LastKeptSuffix, Zenon
  <2>6. setup' = "created" => Len(LastKept(s)) = IF got + 1 < Keep THEN got + 1 ELSE Keep
    BY <1>0, <2>1, <2>2, <2>5 DEF ScrollbackInv
  <2> QED
    BY <2>1, <2>4, <2>6 DEF ScrollbackInv
<1>2. CASE Seed
  <2> DEFINE prior == [i \in 1..PriorLen |-> 0]
             s == prior \o scrollback
  <2>1. scrollback' = LastKept(s) /\ got' = got /\ setup = "created" /\ setup' = "seeded"
    BY <1>2 DEF Seed
  <2>2. prior \in Seq(Old) /\ Len(prior) = PriorLen
    BY <1>0 DEF Old
  <2>3. \A i \in 1..PriorLen : prior[i] = 0
    OBVIOUS
  <2> HIDE DEF prior
  <2>4. /\ s \in Seq(Old) /\ Len(s) = PriorLen + Len(scrollback)
        /\ \A i \in 1..PriorLen : s[i] = 0
        /\ \A i \in PriorLen + 1 .. Len(s) : s[i] = scrollback[i - PriorLen]
    BY <1>0, <2>2, <2>3
  <2> HIDE DEF s
  <2>5. CASE got <= Len(scrollback)
    <3>1. Numbered(s, got)
      <4>1. Len(scrollback) = got
        BY <1>0, <2>1, <2>5 DEF ScrollbackInv
      <4>2. \A i \in 1..Len(scrollback) : scrollback[i] = i
        BY <1>0, <4>1 DEF ScrollbackInv, Numbered
      <4> QED
        BY <1>0, <2>4, <4>1, <4>2 DEF Numbered
    <3> QED
      BY <1>0, <2>1, <2>4, <3>1, NumberedSuffix DEF ScrollbackInv
  <2>6. CASE ~(got <= Len(scrollback))
    <3>1. Len(scrollback) = Keep
      BY <1>0, <2>1, <2>6 DEF ScrollbackInv
    <3>2. /\ Len(LastKept(s)) = Keep
          /\ \A i \in 1..Keep : LastKept(s)[i] = s[Len(s) - Keep + i]
      <4>1. /\ Len(LastKept(s)) = IF Len(s) > Keep THEN Keep ELSE Len(s)
            /\ \A i \in 1..Len(LastKept(s)) : LastKept(s)[i] = s[Len(s) - Len(LastKept(s)) + i]
        BY <2>4, LastKeptSuffix
      <4>2. Len(LastKept(s)) = Keep
        BY <1>0, <2>4, <3>1, <4>1
      <4> QED
        BY <4>1, <4>2, Zenon
    <3>3. \A i \in 1..Keep : LastKept(s)[i] = scrollback[i]
      BY <1>0, <2>4, <3>1, <3>2
    <3>4. Numbered(LastKept(s), got)
      BY <1>0, <3>1, <3>2, <3>3 DEF ScrollbackInv, Numbered
    <3> QED
      BY <2>1, <3>4 DEF ScrollbackInv
  <2> QED
    BY <2>5, <2>6
<1>3. CASE UNCHANGED <<scrollback, got>> /\ (setup' = "created" => setup = "created")
  BY <1>3 DEF ScrollbackInv, Numbered
<1> QED
  BY <1>1, <1>2, <1>3
     DEF PtyNext, ptyVars, pty, Send, ReaderEnds, Reaped, StartMirror, InsertRow,
         CreateDropped, MirrorNext, MirrorRecv, MirrorTimer, MirrorWrite, MirrorWriteFails,
         AfterWrite, MirrorBreak, StreamNext, Attach, Snapshot, Recv, RecvLagged, Exit, Leave,
         CloseTerminal, CloseWorkspace, PtyRestart, PtyRestartAnew, DaemonStops

\* The replay meets the live output.
LEMMA ReplayMeets ==
  ASSUME NEW s \in Seq(Old), NEW last \in Nat, NEW next \in Nat,
         Numbered(s, last), next <= last + 1
  PROVE  StreamInv(s, Len(s), next)
<1>0. Len(s) \in Nat /\ Lag \notin Old
  BY PtyAssumption DEF Lag, Old, Chunk
<1>1. Shown(s, Len(s))
  <2> SUFFICES ASSUME NEW i \in 1..Len(s) - 1
               PROVE  Continues(s[i], s[i + 1])
    BY DEF Shown
  <2>1. i \in 1..Len(s) /\ i + 1 \in 1..Len(s)
    BY <1>0
  <2>2. /\ s[i] = IF last - Len(s) + i > 0 THEN last - Len(s) + i ELSE 0
        /\ s[i + 1] = IF last - Len(s) + (i + 1) > 0 THEN last - Len(s) + (i + 1) ELSE 0
    BY <2>1 DEF Numbered
  <2> QED
    BY <1>0, <2>1, <2>2 DEF Continues
<1>2. Len(s) > 0 => s[Len(s)] # Lag /\ next <= s[Len(s)] + 1
  <2> SUFFICES ASSUME Len(s) > 0
               PROVE  s[Len(s)] # Lag /\ next <= s[Len(s)] + 1
    OBVIOUS
  <2>1. Len(s) \in 1..Len(s)
    BY <1>0
  <2>2. s[Len(s)] = IF last > 0 THEN last ELSE 0
    BY <1>0, <2>1 DEF Numbered
  <2> QED
    BY <1>0, <2>1, <2>2 DEF Lag
<1> QED
  BY <1>0, <1>1, <1>2 DEF StreamInv

\* The next chunk, or the message that some were missed, goes on from there.
LEMMA StreamGrows ==
  ASSUME NEW v \in Seq(Int), NEW seam \in Nat, NEW next \in Nat \ {0}, NEW after \in Nat,
         StreamInv(v, seam, next),
         NEW x \in Int, (x = next /\ after = next + 1) \/ x = Lag
  PROVE  StreamInv(Append(v, x), seam, after)
<1>0. Len(v) \in Nat /\ Len(Append(v, x)) = Len(v) + 1 /\ Append(v, x)[Len(v) + 1] = x
      /\ \A i \in 1..Len(v) : Append(v, x)[i] = v[i]
  OBVIOUS
<1>1. \A i \in 1..Len(v) - 1 : Continues(v[i], v[i + 1]) \/ (i = seam /\ v[i + 1] <= v[i])
  BY DEF StreamInv, Shown
<1>2. Len(v) > 0 => Continues(v[Len(v)], x) \/ (Len(v) = seam /\ x <= v[Len(v)])
  <2> SUFFICES ASSUME Len(v) > 0
               PROVE  Continues(v[Len(v)], x) \/ (Len(v) = seam /\ x <= v[Len(v)])
    OBVIOUS
  <2>1. v[Len(v)] \in Int
    BY <1>0
  <2>2. \/ v[Len(v)] \in {Lag, next - 1}
        \/ Len(v) = seam /\ next <= v[Len(v)] + 1
    BY <1>0 DEF StreamInv
  <2> QED
    BY <2>1, <2>2 DEF Continues
<1>3. Shown(Append(v, x), seam)
  <2> SUFFICES ASSUME NEW i \in 1..Len(v)
               PROVE  \/ Continues(Append(v, x)[i], Append(v, x)[i + 1])
                      \/ i = seam /\ Append(v, x)[i + 1] <= Append(v, x)[i]
    BY <1>0 DEF Shown
  <2>1. CASE i = Len(v)
    BY <1>0, <1>2, <2>1
  <2>2. CASE i # Len(v)
    <3>1. i \in 1..Len(v) - 1 /\ i + 1 \in 1..Len(v)
      BY <1>0, <2>2
    <3> QED
      BY <1>0, <1>1, <3>1
  <2> QED
    BY <2>1, <2>2
<1>4. seam \in 0..Len(v)
  BY DEF StreamInv
<1>5. x \in {Lag, after - 1}
  OBVIOUS
<1> QED
  BY <1>0, <1>3, <1>4, <1>5 DEF StreamInv

\* A client nothing happened to, while the scrollback may have grown.
LEMMA ClientSame ==
  ASSUME NEW c \in Client, ClientInv(c), got \in Nat, got' \in Nat, got <= got',
         cnext[c] \in Nat,
         client'[c] = client[c], view'[c] = view[c], cnext'[c] = cnext[c],
         replayed'[c] = replayed[c]
  PROVE  ClientInv(c)'
BY DEF ClientInv, StreamInv, Shown

\* Every step keeps what a client was shown without a silent hole.
LEMMA ClientInvStep ==
  /\ OutputTypes /\ StreamTypes /\ SentInv /\ ScrollbackInv /\ (\A c \in Client : ClientInv(c))
  /\ [PtyNext]_ptyVars
  => (\A c \in Client : ClientInv(c))'
<1> SUFFICES ASSUME OutputTypes, StreamTypes, SentInv, ScrollbackInv,
                    \A c \in Client : ClientInv(c),
                    [PtyNext]_ptyVars,
                    NEW d \in Client
             PROVE  ClientInv(d)'
  OBVIOUS
<1>0. /\ got \in Nat /\ sent \in Nat /\ sent <= got /\ Capacity \in Nat /\ Lag \in Int
      /\ cnext[d] \in Nat \ {0} /\ view[d] \in Seq(Int) /\ replayed[d] \in Nat
      /\ scrollback \in Seq(Old)
  <2>1. view[d] \in Seq(Old \cup {Lag})
    BY DEF StreamTypes
  <2>2. Old \cup {Lag} \subseteq Int
    BY DEF Old, Lag, Chunk
  <2>3. view[d] \in Seq(Int)
    BY <2>1, <2>2
  <2> QED
    BY <2>3, PtyAssumption DEF OutputTypes, StreamTypes, SentInv, Lag
<1>1. ASSUME NEW c \in Client, StreamNext(c)
      PROVE  ClientInv(d)'
  <2>1. got' = got
    BY <1>1 DEF StreamNext, Attach, Snapshot, Recv, RecvLagged, Exit, Leave, pty
  <2>2. CASE c # d
    <3>1. /\ client'[d] = client[d] /\ view'[d] = view[d] /\ cnext'[d] = cnext[d]
          /\ replayed'[d] = replayed[d]
      BY <1>1, <2>2
         DEF StreamTypes, StreamNext, Attach, Snapshot, Recv, RecvLagged, Exit, Leave
    <3> QED
      BY <1>0, <2>1, <3>1, ClientSame
  <2>3. CASE c = d
    <3>0. ClientInv(d)
      OBVIOUS
    <3>1. CASE Attach(d)
      <4>1. /\ client'[d] = "subscribed" /\ view'[d] = view[d] /\ cnext'[d] = sent + 1
            /\ client[d] = "away"
        BY <3>1 DEF Attach, StreamTypes
      <4> QED
        BY <1>0, <2>1, <3>0, <4>1 DEF ClientInv
    <3>2. CASE Snapshot(d)
      <4>1. /\ client'[d] = "on" /\ view'[d] = scrollback /\ cnext'[d] = cnext[d]
            /\ client[d] = "subscribed" /\ replayed'[d] = Len(scrollback)
        BY <3>2 DEF Snapshot, StreamTypes
      <4>2. cnext[d] <= got + 1
        BY <3>0, <4>1 DEF ClientInv
      <4>3. StreamInv(scrollback, Len(scrollback), cnext[d])
        BY <1>0, <4>2, ReplayMeets DEF ScrollbackInv
      <4> QED
        BY <4>1, <4>3 DEF ClientInv
    <3>3. CASE Recv(d)
      <4>1. /\ client'[d] = "on" /\ view'[d] = Append(view[d], cnext[d])
            /\ cnext'[d] = cnext[d] + 1 /\ client[d] = "on" /\ replayed'[d] = replayed[d]
        BY <3>3 DEF Recv, StreamTypes
      <4>2. StreamInv(view[d], replayed[d], cnext[d])
        BY <3>0, <4>1 DEF ClientInv
      <4>3. StreamInv(Append(view[d], cnext[d]), replayed[d], cnext[d] + 1)
        BY <1>0, <4>2, StreamGrows
      <4> QED
        BY <4>1, <4>3 DEF ClientInv
    <3>4. CASE RecvLagged(d)
      <4>1. /\ client'[d] = "on" /\ view'[d] = Append(view[d], Lag)
            /\ cnext'[d] = sent - Capacity + 1 /\ client[d] = "on"
            /\ replayed'[d] = replayed[d] /\ cnext[d] + Capacity <= sent
        BY <3>4 DEF RecvLagged, Lagged, StreamTypes
      <4>2. StreamInv(view[d], replayed[d], cnext[d])
        BY <3>0, <4>1 DEF ClientInv
      <4>3. sent - Capacity + 1 \in Nat
        BY <1>0, <4>1
      <4>4. StreamInv(Append(view[d], Lag), replayed[d], sent - Capacity + 1)
        BY <1>0, <4>2, <4>3, StreamGrows
      <4> QED
        BY <4>1, <4>4 DEF ClientInv
    <3>5. CASE Exit(d)
      <4>1. /\ client'[d] = "told" /\ client[d] = "on" /\ view'[d] = view[d]
            /\ cnext'[d] = cnext[d] /\ replayed'[d] = replayed[d]
        BY <3>5 DEF Exit, StreamTypes
      <4>2. StreamInv(view[d], replayed[d], cnext[d])
        BY <3>0, <4>1 DEF ClientInv
      <4> QED
        BY <4>1, <4>2 DEF ClientInv
    <3>6. CASE Leave(d)
      <4>1. client'[d] = "away" /\ view'[d] = <<>>
        BY <3>6 DEF Leave, StreamTypes
      <4> QED
        BY <4>1 DEF ClientInv
    <3> QED
      BY <1>1, <2>3, <3>1, <3>2, <3>3, <3>4, <3>5, <3>6 DEF StreamNext
  <2> QED
    BY <2>2, <2>3
<1>2. CASE PtyRestart \/ PtyRestartAnew
  <2>1. client'[d] = "away" /\ view'[d] = <<>>
    BY <1>2 DEF PtyRestart, PtyRestartAnew, DaemonStops
  <2> QED
    BY <2>1 DEF ClientInv
<1>3. CASE UNCHANGED streams /\ got' \in {got, got + 1}
  <2>1. ClientInv(d) /\ got' \in Nat /\ got <= got'
    BY <1>0, <1>3
  <2>2. UNCHANGED <<client, cnext, view, replayed>>
    BY <1>3 DEF streams
  <2> QED
    BY <1>0, <2>1, <2>2, ClientSame
<1> QED
  BY <1>1, <1>2, <1>3
     DEF PtyNext, ptyVars, pty, Read, Send, ReaderEnds, Reaped, Seed, StartMirror, InsertRow,
         CreateDropped, MirrorNext, MirrorRecv, MirrorTimer, MirrorWrite, MirrorWriteFails,
         AfterWrite, MirrorBreak, CloseTerminal, CloseWorkspace

\* Whoever attaches whenever, and however slow a client is, what it is shown
\* has no hole it is not told of.
THEOREM NoSilentHoles == PtySpec => []ViewFaithful
<1>1. PtyInit => SentInv /\ ScrollbackInv
  BY PtyAssumption DEF PtyInit, SentInv, ScrollbackInv, Numbered
<1>2. PtyInit => \A c \in Client : ClientInv(c)
  BY DEF PtyInit, ClientInv
<1>3. (\A c \in Client : ClientInv(c)) /\ StreamTypes => ViewFaithful
  <2> SUFFICES ASSUME StreamTypes, NEW c \in Client, ClientInv(c)
               PROVE  Shown(view[c], replayed[c])
    BY DEF ViewFaithful
  <2>1. CASE view[c] = <<>>
    BY <2>1 DEF Shown
  <2>2. CASE view[c] # <<>>
    BY <2>2 DEF ClientInv, StreamInv, StreamTypes
  <2> QED
    BY <2>1, <2>2
<1>4. PtyTypeOK => OutputTypes /\ StreamTypes
  BY DEF PtyTypeOK
<1> QED
  BY <1>1, <1>2, <1>3, <1>4, PtyTypeCorrect, SentInvStep, ScrollbackInvStep, ClientInvStep, PTL
     DEF PtySpec

-----------------------------------------------------------------------------
(* Transcript                                                              *)

\* At most one chunk is read and not yet sent, a replay of some output is not
\* empty, and what the mirror has taken or stored had been sent.
OneHeld == got <= sent + 1

ReplayNotEmpty == got > 0 => Len(scrollback) > 0

Taken ==
  /\ \A i \in 1..Len(log) : log[i] <= sent
  /\ \A i \in 1..Len(buf) : buf[i] <= sent

\* Every step keeps the reader at most one chunk ahead of the channel.
LEMMA OneHeldStep ==
  OutputTypes /\ SentInv /\ OneHeld /\ [PtyNext]_ptyVars => OneHeld'
<1> SUFFICES ASSUME OutputTypes, SentInv, OneHeld, [PtyNext]_ptyVars
             PROVE  OneHeld'
  OBVIOUS
<1>0. got \in Nat /\ sent \in Nat
  BY PtyAssumption DEF OutputTypes
<1>1. CASE Read
  BY <1>0, <1>1 DEF SentInv, OneHeld, Read
<1>2. CASE Send
  BY <1>0, <1>2 DEF OneHeld, Send
<1>3. CASE UNCHANGED <<got, sent>>
  BY <1>3 DEF OneHeld
<1> QED
  BY <1>1, <1>2, <1>3
     DEF PtyNext, ptyVars, pty, ReaderEnds, Reaped, Seed, StartMirror, InsertRow,
         CreateDropped, MirrorNext, MirrorRecv, MirrorTimer, MirrorWrite, MirrorWriteFails,
         AfterWrite, MirrorBreak, StreamNext, Attach, Snapshot, Recv, RecvLagged, Exit, Leave,
         CloseTerminal, CloseWorkspace, PtyRestart, PtyRestartAnew, DaemonStops

\* What is kept of a sequence that is not empty is not empty.
LEMMA LastKeptNotEmpty ==
  ASSUME NEW S, NEW s \in Seq(S), Len(s) > 0
  PROVE  Len(LastKept(s)) > 0
<1>1. Len(LastKept(s)) = IF Len(s) > Keep THEN Keep ELSE Len(s)
  BY LastKeptSuffix, Zenon
<1> QED
  BY <1>1, PtyAssumption

\* Every step keeps something to replay once there was output.
LEMMA ReplayNotEmptyStep ==
  OutputTypes /\ ReplayNotEmpty /\ [PtyNext]_ptyVars => ReplayNotEmpty'
<1> SUFFICES ASSUME OutputTypes, ReplayNotEmpty, [PtyNext]_ptyVars
             PROVE  ReplayNotEmpty'
  OBVIOUS
<1>0. /\ got \in 0..MaxChunks /\ scrollback \in Seq(Old) /\ Len(scrollback) \in Nat
      /\ PriorLen \in Nat /\ MaxChunks \in Nat
  BY PtyAssumption DEF OutputTypes
<1>1. CASE Read
  <2> DEFINE s == Append(scrollback, got + 1)
  <2>1. s \in Seq(Old) /\ Len(s) > 0
    BY <1>0, <1>1 DEF Read, Old, Chunk
  <2> HIDE DEF s
  <2>2. Len(LastKept(s)) > 0
    BY <2>1, LastKeptNotEmpty
  <2> QED
    BY <1>1, <2>2 DEF Read, s, ReplayNotEmpty
<1>2. CASE Seed /\ got > 0
  <2> DEFINE prior == [i \in 1..PriorLen |-> 0]
             s == prior \o scrollback
  <2>1. prior \in Seq(Old) /\ Len(prior) \in Nat
    BY <1>0 DEF Old
  <2> HIDE DEF prior
  <2>2. s \in Seq(Old) /\ Len(s) > 0
    BY <1>0, <1>2, <2>1 DEF ReplayNotEmpty
  <2> HIDE DEF s
  <2>3. Len(LastKept(s)) > 0
    BY <2>2, LastKeptNotEmpty
  <2> QED
    BY <1>2, <2>3 DEF Seed, s, prior, ReplayNotEmpty
<1>3. CASE Seed /\ ~(got > 0)
  BY <1>3 DEF Seed, ReplayNotEmpty
<1>4. CASE UNCHANGED <<scrollback, got>>
  BY <1>4 DEF ReplayNotEmpty
<1> QED
  BY <1>1, <1>2, <1>3, <1>4
     DEF PtyNext, ptyVars, pty, Send, ReaderEnds, Reaped, StartMirror, InsertRow,
         CreateDropped, MirrorNext, MirrorRecv, MirrorTimer, MirrorWrite, MirrorWriteFails,
         AfterWrite, MirrorBreak, StreamNext, Attach, Snapshot, Recv, RecvLagged, Exit, Leave,
         CloseTerminal, CloseWorkspace, PtyRestart, PtyRestartAnew, DaemonStops

\* Every step keeps it that nothing is taken before it was sent.
LEMMA TakenStep ==
  OutputTypes /\ SentInv /\ Taken /\ [PtyNext]_ptyVars => Taken'
<1> SUFFICES ASSUME OutputTypes, SentInv, Taken, [PtyNext]_ptyVars
             PROVE  Taken'
  OBVIOUS
<1>0. /\ got \in Nat /\ sent \in Nat /\ sent <= got /\ mnext \in Int
      /\ log \in Seq(Int) /\ buf \in Seq(Int)
      /\ \A i \in 1..Len(log) : log[i] <= sent
      /\ \A i \in 1..Len(buf) : buf[i] <= sent
  BY PtyAssumption DEF OutputTypes, Chunk, SentInv, Taken
<1>1. CASE Send
  <2>1. sent' \in Nat /\ sent <= sent' /\ UNCHANGED <<log, buf>>
    BY <1>0, <1>1 DEF Send, table, mirrorVars
  <2>2. /\ \A i \in 1..Len(log) : log[i] \in Int
        /\ \A i \in 1..Len(buf) : buf[i] \in Int
    BY <1>0
  <2> QED
    BY <1>0, <2>1, <2>2 DEF Taken
<1>2. CASE MirrorRecv
  <2>1. UNCHANGED <<sent, log>> /\ buf' = Append(buf, mnext) /\ mnext <= sent
    BY <1>2 DEF MirrorRecv, Pending, pty, table
  <2>2. \A i \in 1..Len(buf') : buf'[i] <= sent
    BY <1>0, <2>1
  <2> QED
    BY <1>0, <2>1, <2>2 DEF Taken
<1>3. CASE MirrorWrite \/ MirrorWriteFails
  <2>1. buf' = <<>> /\ sent' = sent
    BY <1>3 DEF MirrorWrite, MirrorWriteFails, AfterWrite, pty
  <2>2. log' = log \o buf \/ log' = log
    BY <1>3 DEF MirrorWrite, MirrorWriteFails
  <2>3. \A i \in 1..Len(log') : log'[i] <= sent
    <3>1. CASE log' = log \o buf
      <4>1. /\ Len(log \o buf) = Len(log) + Len(buf)
            /\ \A i \in 1..Len(log) : (log \o buf)[i] = log[i]
            /\ \A i \in Len(log) + 1 .. Len(log \o buf) : (log \o buf)[i] = buf[i - Len(log)]
            /\ Len(log) \in Nat /\ Len(buf) \in Nat
        BY <1>0
      <4> QED
        BY <1>0, <3>1, <4>1
    <3>2. CASE log' = log
      BY <1>0, <3>2
    <3> QED
      BY <2>2, <3>1, <3>2
  <2> QED
    BY <2>1, <2>3 DEF Taken
<1>4. CASE UNCHANGED sent /\ (log' = log \/ log' = <<>>) /\ (buf' = buf \/ buf' = <<>>)
  BY <1>0, <1>4 DEF Taken
<1> QED
  BY <1>1, <1>2, <1>3, <1>4
     DEF PtyNext, ptyVars, pty, table, mirrorVars, Read, ReaderEnds, Reaped, Seed, StartMirror,
         InsertRow, CreateDropped, MirrorNext, MirrorTimer, MirrorBreak, StreamNext, Attach,
         Snapshot, Recv, RecvLagged, Exit, Leave, CloseTerminal, CloseWorkspace, PtyRestart,
         PtyRestartAnew, DaemonStops

\* What a numbered scrollback replays is the end of the output.
LEMMA ReplayUpToDate ==
  ASSUME NEW s \in Seq(Old), got \in Nat, Numbered(s, got), got > 0 => Len(s) > 0
  PROVE  Output!UpToDate(s)
<1>0. Len(s) \in Nat
  OBVIOUS
<1>1. \A i \in 1..Len(s) : s[i] = IF got - Len(s) + i > 0 THEN got - Len(s) + i ELSE 0
  BY DEF Numbered
<1>2. \A i \in 1..Len(s) : s[i] \in 0..got
  BY <1>0, <1>1
<1>3. ASSUME NEW i \in 1..Len(s) - 1
      PROVE  s[i + 1] = s[i] + 1 \/ (s[i] = 0 /\ s[i + 1] = 0)
  <2>1. i \in 1..Len(s) /\ i + 1 \in 1..Len(s)
    BY <1>0
  <2> QED
    BY <1>0, <1>1, <2>1
<1>4. ASSUME got > 0
      PROVE  s # <<>> /\ s[Len(s)] = got
  <2>1. Len(s) \in 1..Len(s)
    BY <1>0, <1>4
  <2> QED
    BY <1>0, <1>1, <1>4, <2>1
<1> QED
  BY <1>2, <1>3, <1>4 DEF Output!UpToDate

\* A step of one client's stream changes what that client is due, and whether
\* it watches, and nobody else's.
LEMMA OneStream ==
  ASSUME NEW c \in Client, client'[c] # "away",
         \A d \in Client : d # c => client'[d] = client[d] /\ cnext'[d] = cnext[d]
  PROVE  /\ Due' = [Due EXCEPT ![c] = cnext'[c]]
         /\ client'[c] \in {"on", "told"} => Watching' = Watching \cup {c}
         /\ client'[c] = client[c] => Watching' = Watching
         /\ client'[c] = "subscribed" /\ client[c] = "away" => Watching' = Watching
<1>1. Due' = [Due EXCEPT ![c] = cnext'[c]]
  BY DEF Due
<1>2. /\ client'[c] \in {"on", "told"} => Watching' = Watching \cup {c}
      /\ client'[c] = client[c] => Watching' = Watching
      /\ client'[c] = "subscribed" /\ client[c] = "away" => Watching' = Watching
  BY DEF Watching
<1> QED
  BY <1>1, <1>2

\* What happens on a client's stream is what the transcript lets happen to it.
LEMMA StreamTranscript ==
  ASSUME PtyTypeOK, SentInv, OneHeld, ReplayNotEmpty, ScrollbackInv,
         NEW c \in Client, StreamNext(c)
  PROVE  Output!Next \/ UNCHANGED Output!transcript
<1>0. /\ client \in [Client -> {"away", "subscribed", "on", "told"}]
      /\ cnext \in [Client -> 1..MaxChunks + 1]
      /\ view \in [Client -> Seq(Old \cup {Lag})]
      /\ got \in Nat /\ sent \in Nat /\ sent <= got /\ got <= sent + 1
      /\ MaxChunks \in Nat /\ Capacity \in Nat \ {0} /\ scrollback \in Seq(Old)
  BY PtyAssumption DEF PtyTypeOK, OutputTypes, StreamTypes, SentInv, OneHeld
<1>1. UNCHANGED <<got, log, lost, ~opened>>
  BY DEF StreamNext, Attach, Snapshot, Recv, RecvLagged, Exit, Leave, pty, table, mirrorVars
<1>2. \A d \in Client : d # c => client'[d] = client[d] /\ cnext'[d] = cnext[d]
  BY <1>0 DEF StreamNext, Attach, Snapshot, Recv, RecvLagged, Exit, Leave
<1>3. client[c] # "away" => Due[c] = cnext[c] /\ Due = [Due EXCEPT ![c] = cnext[c]]
  BY DEF Due
<1>4. CASE Attach(c)
  <2>1. /\ client[c] = "away" /\ client'[c] = "subscribed" /\ cnext'[c] = sent + 1
        /\ view' = view
    BY <1>0, <1>4 DEF Attach
  <2>2. Due[c] = 0 /\ Due' = [Due EXCEPT ![c] = sent + 1] /\ Watching' = Watching
    BY <1>2, <2>1, OneStream DEF Due
  <2>3. sent + 1 \in {got, got + 1} \ {0}
    BY <1>0
  <2>4. Output!Attach(c)
    BY <1>1, <2>1, <2>2, <2>3 DEF Output!Attach
  <2> QED
    BY <2>4 DEF Output!Next
<1>5. CASE Snapshot(c)
  <2>1. /\ client[c] = "subscribed" /\ client'[c] = "on" /\ cnext' = cnext
        /\ view'[c] = scrollback /\ \A d \in Client \ {c} : view'[d] = view[d]
    BY <1>0, <1>5 DEF Snapshot
  <2>2. Due' = Due /\ Watching' = Watching \cup {c}
    BY <1>2, <1>3, <2>1, OneStream
  <2>3. Due[c] # 0 /\ c \notin Watching
    BY <1>0, <1>3, <2>1 DEF Watching
  <2>4. Output!UpToDate(scrollback)
    BY <1>0, ReplayUpToDate DEF ScrollbackInv, ReplayNotEmpty
  <2>5. Output!UpToDate(view'[c])
    BY <2>1, <2>4
  <2>6. Output!Replay(c)
    BY <1>1, <2>1, <2>2, <2>3, <2>5 DEF Output!Replay
  <2> QED
    BY <2>6 DEF Output!Next
<1>6. CASE Recv(c)
  <2>1. /\ client[c] = "on" /\ client' = client /\ cnext'[c] = cnext[c] + 1
        /\ cnext[c] <= sent
        /\ view' = [view EXCEPT ![c] = Append(@, cnext[c])]
    BY <1>0, <1>6 DEF Recv, Pending
  <2>2. Due' = [Due EXCEPT ![c] = cnext[c] + 1] /\ Watching' = Watching
    BY <1>2, <2>1, OneStream
  <2>3. c \in Watching /\ Due[c] = cnext[c] /\ cnext[c] <= got
    BY <1>0, <1>3, <2>1 DEF Watching
  <2>4. Output!Show(c)
    BY <1>1, <2>1, <2>2, <2>3 DEF Output!Show
  <2> QED
    BY <2>4 DEF Output!Next
<1>7. CASE RecvLagged(c)
  <2> DEFINE n == sent - Capacity + 1
  <2>1. /\ client[c] = "on" /\ client' = client /\ cnext'[c] = n
        /\ cnext[c] + Capacity <= sent
        /\ view' = [view EXCEPT ![c] = Append(@, Lag)]
    BY <1>0, <1>7 DEF RecvLagged, Lagged
  <2>2. n \in cnext[c] + 1 .. got
    BY <1>0, <2>1
  <2> HIDE DEF n
  <2>3. Due' = [Due EXCEPT ![c] = n] /\ Watching' = Watching
    BY <1>2, <2>1, OneStream
  <2>4. c \in Watching /\ Due[c] = cnext[c]
    BY <1>3, <2>1 DEF Watching
  <2>5. Output!Skip(c)
    BY <1>1, <2>1, <2>2, <2>3, <2>4 DEF Output!Skip
  <2> QED
    BY <2>5 DEF Output!Next
<1>8. CASE Exit(c)
  <2>1. /\ client[c] = "on" /\ client'[c] = "told" /\ cnext' = cnext /\ view' = view
    BY <1>0, <1>8 DEF Exit
  <2>2. Due' = Due /\ Watching' = Watching \cup {c} /\ c \in Watching
    BY <1>2, <1>3, <2>1, OneStream DEF Watching
  <2> QED
    BY <1>1, <2>1, <2>2 DEF Output!transcript, Output!watching
<1>9. CASE Leave(c)
  <2>1. /\ client'[c] = "away" /\ view'[c] = <<>>
        /\ view' = [d \in Client |-> IF d \in {c} THEN <<>> ELSE view[d]]
    BY <1>0, <1>9 DEF Leave
  <2>2. Due' = [d \in Client |-> IF d \in {c} THEN 0 ELSE Due[d]]
    BY <1>2, <2>1 DEF Due
  <2>3. Watching' = Watching \ {c}
    BY <1>2, <2>1 DEF Watching
  <2>4. Output!Leave({c})
    BY <1>1, <2>1, <2>2, <2>3 DEF Output!Leave, Output!Away
  <2>5. {c} \in SUBSET Client
    OBVIOUS
  <2> QED
    BY <2>4, <2>5 DEF Output!Next
<1> QED
  BY <1>4, <1>5, <1>6, <1>7, <1>8, <1>9 DEF StreamNext

\* A write of the mirror lengthens what the table has, and only while the
\* workspace is there.
LEMMA WriteTranscript ==
  ASSUME PtyTypeOK, SentInv, Taken, LogInv, MirrorWrite
  PROVE  Output!Next
<1>0. /\ log \in Seq(Chunk) /\ buf \in Seq(Chunk)
      /\ log \in Seq(Int) /\ buf \in Seq(Int) /\ log \o buf \in Seq(Int)
      /\ got \in Nat /\ sent \in Nat /\ sent <= got
      /\ row => opened
  BY PtyAssumption DEF PtyTypeOK, OutputTypes, Flags, SentInv, Chunk
<1>1. UNCHANGED <<got, lost, ~opened, view, Due, Watching>>
  BY DEF MirrorWrite, AfterWrite, pty, streams, Due, Watching
<1>2. log' = log \o buf /\ ~(~opened)
  BY <1>0 DEF MirrorWrite
<1>3. /\ Len(log \o buf) = Len(log) + Len(buf)
      /\ \A i \in 1..Len(log) : (log \o buf)[i] = log[i]
      /\ \A i \in Len(log) + 1 .. Len(log \o buf) : (log \o buf)[i] = buf[i - Len(log)]
      /\ Len(log) \in Nat /\ Len(buf) \in Nat
  BY <1>0
<1>4. /\ \A i \in 1..Len(log) : log[i] \in 1..got
      /\ \A i \in 1..Len(buf) : buf[i] \in 1..got
  <2>1. /\ \A i \in 1..Len(log) : log[i] \in Chunk
        /\ \A i \in 1..Len(buf) : buf[i] \in Chunk
    BY <1>0
  <2>2. \A n \in Chunk : n <= sent => n \in 1..got
    BY <1>0 DEF Chunk, PtyTypeOK, OutputTypes
  <2> QED
    BY <2>1, <2>2 DEF Taken
<1>5. \A i \in 1..Len(log \o buf) : (log \o buf)[i] \in 1..got
  BY <1>3, <1>4
<1>6. LogFaithful
  BY LogInvFaithful DEF PtyTypeOK
<1>7. Output!Stretch(log \o buf)
  BY <1>5, <1>6 DEF Output!Stretch, LogFaithful, NoOtherHole
<1>8. Output!Stretch(log')
  BY <1>2, <1>7
<1>9. Output!Store
  BY <1>1, <1>2, <1>3, <1>8 DEF Output!Store, Output!watching
<1> QED
  BY <1>9 DEF Output!Next

\* A write that fails misses what was in the buffer, all of it said before.
LEMMA FailureTranscript ==
  ASSUME PtyTypeOK, SentInv, Taken, MirrorWriteFails
  PROVE  Output!Next
<1>0. buf \in Seq(Chunk) /\ got \in Nat /\ sent \in Nat /\ sent <= got
  BY PtyAssumption DEF PtyTypeOK, OutputTypes, SentInv
<1>1. /\ UNCHANGED <<got, log, ~opened, view, Due, Watching>>
      /\ lost' = lost \cup {buf[i] : i \in 1..Len(buf)}
  BY DEF MirrorWriteFails, AfterWrite, pty, streams, Due, Watching
<1>2. \A i \in 1..Len(buf) : buf[i] \in 1..got
  <2>1. \A i \in 1..Len(buf) : buf[i] \in Chunk
    BY <1>0
  <2>2. \A n \in Chunk : n <= sent => n \in 1..got
    BY <1>0, PtyAssumption DEF Chunk
  <2> QED
    BY <2>1, <2>2 DEF Taken
<1>3. Output!Miss
  BY <1>1, <1>2 DEF Output!Miss, Output!watching
<1> QED
  BY <1>3 DEF Output!Next

\* Every step of the terminal is a step of the transcript, or none.
LEMMA PtyTranscriptStep ==
  /\ PtyTypeOK /\ SentInv /\ OneHeld /\ ReplayNotEmpty /\ Taken /\ LogInv /\ ScrollbackInv
  /\ [PtyNext]_ptyVars
  => [Output!Next]_(Output!transcript)
<1> SUFFICES ASSUME PtyTypeOK, SentInv, OneHeld, ReplayNotEmpty, Taken, LogInv, ScrollbackInv,
                    [PtyNext]_ptyVars
             PROVE  Output!Next \/ UNCHANGED Output!transcript
  OBVIOUS
<1>0. UNCHANGED streams => UNCHANGED <<view, Due, Watching>>
  BY DEF streams, Due, Watching
<1>1. CASE Read
  <2>1. Output!Speak
    BY <1>0, <1>1 DEF Read, table, mirrorVars, Output!Speak, Output!watching
  <2> QED
    BY <2>1 DEF Output!Next
<1>2. CASE CloseWorkspace
  <2>1. Output!Forget
    BY <1>0, <1>2 DEF CloseWorkspace, pty, mirrorVars, Output!Forget, Output!watching
  <2> QED
    BY <2>1 DEF Output!Next
<1>3. CASE MirrorWrite
  BY <1>3, WriteTranscript
<1>3a. CASE MirrorWriteFails
  BY <1>3a, FailureTranscript
<1>4. ASSUME NEW c \in Client, StreamNext(c)
      PROVE  Output!Next \/ UNCHANGED Output!transcript
  BY <1>4, StreamTranscript
<1>5. CASE PtyRestart \/ PtyRestartAnew
  <2>1. /\ \A c \in Client : client'[c] = "away"
        /\ view' = [c \in Client |-> IF c \in Client THEN <<>> ELSE view[c]]
        /\ UNCHANGED <<got, lost>>
    BY <1>5 DEF PtyRestart, PtyRestartAnew, DaemonStops
  <2>2. Due' = [c \in Client |-> IF c \in Client THEN 0 ELSE Due[c]]
    BY <2>1 DEF Due
  <2>3. Watching' = Watching \ Client
    BY <2>1 DEF Watching
  <2>4. Output!Away(Client)
    BY <2>1, <2>2, <2>3 DEF Output!Away
  <2>5. CASE PtyRestart
    <3>1. Output!Leave(Client)
      BY <2>1, <2>4, <2>5 DEF PtyRestart, table, Output!Leave
    <3>2. Client \in SUBSET Client
      OBVIOUS
    <3> QED
      BY <3>1, <3>2 DEF Output!Next
  <2>6. CASE PtyRestartAnew
    <3>1. Output!StartOver
      BY <2>1, <2>4, <2>6 DEF PtyRestartAnew, Output!StartOver
    <3> QED
      BY <3>1 DEF Output!Next
  <2> QED
    BY <1>5, <2>5, <2>6
<1>6. CASE UNCHANGED <<got, log, lost, opened, streams>>
  BY <1>0, <1>6 DEF Output!transcript, Output!watching
<1> QED
  BY <1>1, <1>2, <1>3, <1>3a, <1>4, <1>5, <1>6
     DEF PtyNext, ptyVars, pty, table, mirrorVars, Send, ReaderEnds, Reaped, Seed, StartMirror,
         InsertRow, CreateDropped, MirrorNext, MirrorRecv, MirrorTimer, MirrorBreak,
         CloseTerminal

\* The invariant under which the terminal follows the transcript.
TranscriptInv ==
  /\ PtyTypeOK /\ SentInv /\ OneHeld /\ ReplayNotEmpty /\ Taken /\ LogInv /\ NoRowNoLog
  /\ ScrollbackInv

\* It holds throughout.
LEMMA TranscriptInvariant == PtySpec => []TranscriptInv
<1>1. PtyInit => SentInv /\ ScrollbackInv
  BY PtyAssumption DEF PtyInit, SentInv, ScrollbackInv, Numbered
<1>2. PtyInit => OneHeld /\ ReplayNotEmpty /\ Taken
  BY DEF PtyInit, OneHeld, ReplayNotEmpty, Taken
<1>3. PtyInit => LogInv
  BY DEF PtyInit, LogInv, Orderly, UpTo
<1>4. PtyInit => NoRowNoLog
  BY Zenon DEF PtyInit, NoRowNoLog
<1>5. PtyTypeOK => Flags /\ OutputTypes
  BY DEF PtyTypeOK
<1> QED
  BY <1>1, <1>2, <1>3, <1>4, <1>5, PtyTypeCorrect, SentInvStep, ScrollbackInvStep,
     OneHeldStep, ReplayNotEmptyStep, TakenStep, NoRowNoLogStep, LogInvStep, PTL
     DEF PtySpec, TranscriptInv

\* The threads, the channel and the tasks implement Transcript, for any number
\* of clients and every capacity: while it is kept the table is only added to and
\* misses only what failed writes lost, a replay reaches up to the chunk read
\* last, and what follows comes in order or is announced as missed.
THEOREM PtyImplementsTranscript == PtySpec => ImplementsTranscript
<1>1. PtyInit => Output!Init
  BY DEF PtyInit, Output!Init, Due, Watching
<1>2. TranscriptInv /\ [PtyNext]_ptyVars => [Output!Next]_(Output!transcript)
  BY PtyTranscriptStep DEF TranscriptInv
<1> QED
  BY <1>1, <1>2, TranscriptInvariant, PTL DEF PtySpec, ImplementsTranscript, Output!Spec

\* While the workspace's row is there the table loses nothing: what it holds stays
\* at its place through lags, failed writes and restarts on the same database.
LogStays ==
  opened' => Len(log) <= Len(log') /\ \A i \in 1..Len(log) : log'[i] = log[i]

THEOREM TableOnlyGrows == PtySpec => [][LogStays]_ptyVars
<1>1. TranscriptInv /\ [PtyNext]_ptyVars => LogStays
  <2> SUFFICES ASSUME TranscriptInv, [PtyNext]_ptyVars, opened'
               PROVE  Len(log) <= Len(log') /\ \A i \in 1..Len(log) : log'[i] = log[i]
    BY DEF LogStays
  <2>0. Len(log) \in Nat
    BY DEF TranscriptInv, PtyTypeOK, OutputTypes
  <2>1. Output!Next \/ UNCHANGED Output!transcript
    BY PtyTranscriptStep DEF TranscriptInv
  <2>2. CASE log' = log
    BY <2>0, <2>2
  <2>3. CASE Output!Store
    BY <2>3 DEF Output!Store
  <2>4. CASE Output!Forget \/ Output!StartOver
    BY <2>4 DEF Output!Forget, Output!StartOver
  <2> QED
    BY <2>1, <2>2, <2>3, <2>4
       DEF Output!Next, Output!Speak, Output!Miss, Output!Attach, Output!Replay, Output!Show,
         Output!Skip, Output!Leave, Output!transcript
<1> QED
  BY <1>1, TranscriptInvariant, PTL DEF PtySpec
=============================================================================
