---------------------- MODULE WorkspaceRegistry_proofs ----------------------
(***************************************************************************)
(* The properties of WorkspaceRegistry hold for any directories, files and *)
(* terminals, any window and batch, and for any number of calls and runs   *)
(* of the indexer at the same time, with restarts anywhere.                *)
(*                                                                         *)
(* TablesInv is enough for what belongs to a workspace; RegistryInv adds   *)
(* which ids belong to which directory (IdsAgree) and where each window of *)
(* a run of the indexer is (RunsInv).                                      *)
(***************************************************************************)
EXTENDS WorkspaceRegistry, WellFoundedInduction, TLAPS

\* The rows, and the calls that are about to insert one.
TablesTypeOK ==
  /\ rows \subseteq [id: Id, path: Path]
  /\ terms \subseteq [id: Term, ws: Id, open: {"yes", "no"}]
  /\ open \in [Opener -> [pc: OpenPc, path: Path, id: Id \cup {NoId}]]
  /\ \A c \in Opener : open[c].pc \in {"found", "fresh"} => open[c].id \in Id
  /\ create \in [Term -> Id \cup {NoId}]

OneRowPerPath == \A q, r \in rows : q.path = r.path => q = r

TablesInv == TablesTypeOK /\ OneRowPerPath /\ NoOrphanRows

\* Steps that leave all but the chunks alone, and insert those only where there
\* is a row.
LEMMA ChunksOnly ==
  ASSUME TablesInv, UNCHANGED <<rows, terms, open, create>>, DOMAIN chunks' = DOMAIN chunks,
         \A k \in DOMAIN chunks : chunks'[k] > 0 => chunks[k] > 0 \/ HasRow(k[1])
  PROVE  TablesInv'
<1>1. TablesTypeOK' /\ OneRowPerPath'
  BY DEF TablesInv, TablesTypeOK, OneRowPerPath
<1>2. NoOrphanRows'
  BY DEF TablesInv, NoOrphanRows, HasRow
<1> QED
  BY <1>1, <1>2 DEF TablesInv

\* After the cascade nothing is without its row.
LEMMA CascadeKeeps ==
  ASSUME Cascade(rows')
  PROVE  NoOrphanRows' /\ terms' \subseteq terms
<1>1. /\ terms' = {t \in terms : \E r \in rows' : r.id = t.ws}
      /\ chunks' = [k \in DOMAIN chunks |->
                      IF \E r \in rows' : r.id = k[1] THEN chunks[k] ELSE 0]
  BY DEF Cascade
<1>2. \A k \in DOMAIN chunks' : chunks'[k] > 0 => \E r \in rows' : r.id = k[1]
  BY <1>1
<1> QED
  BY <1>1, <1>2 DEF NoOrphanRows, HasRow

\* Opening looks for the row, or takes a new id.
LEMMA LookUpKeeps ==
  ASSUME TablesInv, NEW c \in Opener, NEW p \in Path, LookUp(c, p)
  PROVE  TablesInv' /\ UNCHANGED <<rows, terms>>
<1>1. UNCHANGED <<rows, terms, chunks, create>>
  BY DEF LookUp
<1>2. \E i \in Id, pc \in {"found", "fresh"} :
        open' = [open EXCEPT ![c] = [pc |-> pc, path |-> p, id |-> i]]
  BY DEF LookUp, IdsFor, TablesInv, TablesTypeOK
<1>3. TablesTypeOK'
  BY <1>1, <1>2 DEF TablesInv, TablesTypeOK, OpenPc
<1>4. OneRowPerPath' /\ NoOrphanRows'
  BY <1>1 DEF TablesInv, OneRowPerPath, NoOrphanRows, HasRow
<1> QED
  BY <1>1, <1>3, <1>4 DEF TablesInv

\* The upsert adds a row only for a path that has none.
LEMMA UpsertKeeps ==
  ASSUME TablesInv, NEW c \in Opener, Upsert(c)
  PROVE  TablesInv' /\ rows \subseteq rows' /\ terms' = {t \in terms : \E q \in rows' : q.id = t.ws}
<1> DEFINE row == [id |-> open[c].id, path |-> open[c].path]
<1>0. TablesTypeOK /\ OneRowPerPath
  BY DEF TablesInv
<1>1. /\ rows' = IF \E r \in rows : r.path = open[c].path THEN rows ELSE rows \cup {row}
      /\ Cascade(rows') /\ open' = [open EXCEPT ![c].pc = "done"] /\ create' = create
  BY DEF Upsert, Upserted, IdsFor
<1>2. row \in [id: Id, path: Path] /\ row.path = open[c].path
  BY <1>0 DEF TablesTypeOK, Upsert
<1>3. OneRowPerPath'
  BY <1>0, <1>1, <1>2 DEF OneRowPerPath
<1>4. open' \in [Opener -> [pc: OpenPc, path: Path, id: Id \cup {NoId}]]
  BY <1>0, <1>1 DEF TablesTypeOK, OpenPc
<1>5. \A b \in Opener : open'[b].pc \in {"found", "fresh"} => open'[b].id \in Id
  BY <1>0, <1>1 DEF TablesTypeOK
<1>6. NoOrphanRows' /\ terms' \subseteq terms
  BY <1>1, CascadeKeeps
<1>7. TablesTypeOK'
  BY <1>0, <1>1, <1>2, <1>4, <1>5, <1>6 DEF TablesTypeOK
<1>8. rows \subseteq rows' /\ terms' = {t \in terms : \E q \in rows' : q.id = t.ws}
  BY <1>1 DEF Cascade
<1> QED
  BY <1>3, <1>6, <1>7, <1>8 DEF TablesInv

\* Closing takes the row, and what hangs on it.
LEMMA CloseKeeps ==
  ASSUME TablesInv, NEW i \in Id, CloseWorkspace(i)
  PROVE  TablesInv' /\ rows' \subseteq rows /\ terms' = {t \in terms : \E q \in rows' : q.id = t.ws}
<1>1. rows' = {r \in rows : r.id # i} /\ Cascade(rows') /\ UNCHANGED <<create, open>>
  BY DEF CloseWorkspace, openVars
<1>2. NoOrphanRows' /\ terms' \subseteq terms
  BY <1>1, CascadeKeeps
<1>3. TablesTypeOK' /\ OneRowPerPath'
  BY <1>1, <1>2 DEF TablesInv, TablesTypeOK, OneRowPerPath
<1> QED
  BY <1>1, <1>2, <1>3 DEF TablesInv, Cascade

\* A terminal is inserted only where there is a row.
LEMMA TerminalKeeps ==
  ASSUME TablesInv, NEW t \in Term,
         \/ \E i \in Id : CreateTerminal(t, i)
         \/ InsertTerminal(t) \/ CloseTerminal(t)
  PROVE  /\ TablesInv' /\ rows' = rows
         /\ \A s \in terms : \E u \in terms' : u.id = s.id /\ u.ws = s.ws
<1>0. TablesTypeOK /\ OneRowPerPath /\ NoOrphanRows
  BY DEF TablesInv
<1>1. UNCHANGED <<rows, chunks, open>>
  BY DEF CreateTerminal, InsertTerminal, CloseTerminal, openVars
<1>2. ASSUME terms' \subseteq [id: Term, ws: Id, open: {"yes", "no"}],
             create' \in [Term -> Id \cup {NoId}], \A s \in terms' : HasRow(s.ws)
      PROVE  TablesInv'
  BY <1>0, <1>1, <1>2 DEF TablesInv, TablesTypeOK, OneRowPerPath, NoOrphanRows, HasRow
<1>3. CASE \E i \in Id : CreateTerminal(t, i)
  <2>1. terms' = terms /\ create' \in [Term -> Id \cup {NoId}]
    BY <1>0, <1>3 DEF CreateTerminal, TablesTypeOK
  <2> QED
    BY <1>0, <1>1, <1>2, <2>1 DEF TablesTypeOK, NoOrphanRows
<1>4. CASE InsertTerminal(t)
  <2> DEFINE row == [id |-> t, ws |-> create[t], open |-> "yes"]
  <2>1. /\ create[t] \in Id /\ create' \in [Term -> Id \cup {NoId}]
        /\ terms' = IF HasRow(create[t]) THEN terms \cup {row} ELSE terms
    BY <1>0, <1>4 DEF InsertTerminal, TablesTypeOK
  <2>2. row \in [id: Term, ws: Id, open: {"yes", "no"}] /\ row.ws = create[t]
    BY <2>1
  <2> HIDE DEF row
  <2>3. terms' \subseteq [id: Term, ws: Id, open: {"yes", "no"}]
    BY <1>0, <2>1, <2>2 DEF TablesTypeOK
  <2>4. \A s \in terms' : HasRow(s.ws)
    BY <1>0, <2>1, <2>2 DEF NoOrphanRows
  <2> QED
    BY <1>1, <1>2, <2>1, <2>3, <2>4
<1>5. CASE CloseTerminal(t)
  <2> DEFINE closed(s) == IF s.id = t THEN [s EXCEPT !.open = "no"] ELSE s
  <2>1. terms' = {closed(s) : s \in terms} /\ create' = create
    BY <1>5 DEF CloseTerminal
  <2>2. ASSUME NEW s \in terms
        PROVE  /\ closed(s) \in [id: Term, ws: Id, open: {"yes", "no"}]
               /\ closed(s).id = s.id /\ closed(s).ws = s.ws
    BY <1>0, <2>2 DEF TablesTypeOK
  <2> HIDE DEF closed
  <2>3. terms' \subseteq [id: Term, ws: Id, open: {"yes", "no"}]
    BY <2>1, <2>2
  <2>4. \A s \in terms' : HasRow(s.ws)
    BY <1>0, <2>1, <2>2 DEF NoOrphanRows
  <2>5. \A s \in terms : \E u \in terms' : u.id = s.id /\ u.ws = s.ws
    BY <2>1, <2>2
  <2>6. create' \in [Term -> Id \cup {NoId}]
    BY <1>0, <2>1 DEF TablesTypeOK
  <2> QED
    BY <1>1, <1>2, <2>3, <2>4, <2>5, <2>6
<1> QED
  BY <1>3, <1>4, <1>5

\* The indexer clears chunks, and inserts one while its workspace has a row.
LEMMA IndexKeeps ==
  ASSUME TablesInv, NEW r \in Run,
         \/ \E i \in Id : IndexWorkspace(r, i)
         \/ \E f \in File : ReadFile(r, f) \/ ReadFails(r, f)
         \/ \E w \in AllWindows : TakeWindow(r, w)
         \/ ClearIndex(r) \/ LastFlush(r)
         \/ InsertChunk(r) \/ IndexFails(r) \/ Finish(r)
  PROVE  /\ TablesInv' /\ UNCHANGED <<rows, terms>>
         /\ ClearIndex(r) \/ InsertChunk(r) \/ chunks' = chunks
<1>1. UNCHANGED <<rows, terms, open, create>>
  BY DEF IndexWorkspace, ReadFile, ReadFails, ClearIndex, TakeWindow, LastFlush, InsertChunk,
    IndexFails, Finish, openVars
<1>2. CASE ClearIndex(r)
  <2>1. chunks' = [k \in DOMAIN chunks |-> IF k[1] = index[r].ws THEN 0 ELSE chunks[k]]
    BY <1>2 DEF ClearIndex, Cleared
  <2>2. \A k \in DOMAIN chunks : chunks'[k] > 0 => chunks[k] > 0
    BY <2>1
  <2>3. TablesInv'
    BY <1>1, <2>1, <2>2, ChunksOnly
  <2> QED
    BY <1>1, <1>2, <2>3
<1>3. CASE InsertChunk(r)
  <2> DEFINE key == <<index[r].ws, Head(index[r].batch)>>
  <2>1. chunks' = [chunks EXCEPT ![key] = @ + 1] /\ HasRow(key[1])
    BY <1>3 DEF InsertChunk
  <2>2. \A k \in DOMAIN chunks : k # key => chunks'[k] = chunks[k]
    BY <2>1
  <2>3. DOMAIN chunks' = DOMAIN chunks
    BY <2>1
  <2> HIDE DEF key
  <2>4. TablesInv'
    BY <1>1, <2>1, <2>2, <2>3, ChunksOnly
  <2> QED
    BY <1>1, <1>3, <2>4
<1>4. CASE ~ClearIndex(r) /\ ~InsertChunk(r)
  <2>1. chunks' = chunks
    BY <1>4 DEF IndexWorkspace, ReadFile, ReadFails, TakeWindow, LastFlush, IndexFails, Finish
  <2> QED
    BY <1>1, <2>1, ChunksOnly
<1> QED
  BY <1>1, <1>2, <1>3, <1>4

\* Calls are gone after a restart, and the tables as they were, or empty.
LEMMA RestartKeeps ==
  ASSUME TablesInv, RegistryRestart \/ RegistryRestartAnew
  PROVE  TablesInv'
<1>1. \/ UNCHANGED <<rows, terms, chunks>>
      \/ rows' = {} /\ terms' = {} /\ chunks' = NoChunks
  BY DEF RegistryRestart, RegistryRestartAnew
<1>2. open' = [c \in Opener |-> Idle] /\ create' = [t \in Term |-> NoId]
  BY DEF RegistryRestart, RegistryRestartAnew, DaemonStops
<1>3. Idle \in [pc: OpenPc, path: Path, id: Id \cup {NoId}] /\ Idle.pc = "idle"
  BY RegistryAssumption DEF Idle, OpenPc, RegistryAssumption
<1>4. TablesTypeOK'
  BY <1>1, <1>2, <1>3 DEF TablesInv, TablesTypeOK
<1>5. OneRowPerPath'
  BY <1>1 DEF TablesInv, OneRowPerPath
<1>6. NoOrphanRows'
  <2>1. CASE UNCHANGED <<rows, terms, chunks>>
    BY <2>1 DEF TablesInv, NoOrphanRows, HasRow
  <2>2. CASE terms' = {} /\ chunks' = NoChunks
    <3>1. \A k \in DOMAIN chunks' : chunks'[k] = 0
      BY <2>2 DEF NoChunks
    <3> QED BY <2>2, <3>1 DEF NoOrphanRows
  <2> QED BY <1>1, <2>1, <2>2
<1> QED
  BY <1>4, <1>5, <1>6 DEF TablesInv

-----------------------------------------------------------------------------
\* Every step keeps the invariant of the tables.
LEMMA RegistryStep ==
  ASSUME TablesInv, [RegistryNext]_registryVars
  PROVE  TablesInv'
<1>2. ASSUME NEW c \in Opener, NEW p \in Path, OpenWorkspace(c, p) \/ ScaffoldProject(c, p)
      PROVE  TablesInv'
  BY <1>2, LookUpKeeps DEF OpenWorkspace, ScaffoldProject
<1>3. ASSUME NEW c \in Opener, Upsert(c) PROVE TablesInv'
  BY <1>3, UpsertKeeps
<1>4. ASSUME NEW i \in Id, CloseWorkspace(i) PROVE TablesInv'
  BY <1>4, CloseKeeps
<1>5. ASSUME NEW t \in Term,
             \/ \E i \in Id : CreateTerminal(t, i)
             \/ InsertTerminal(t) \/ CloseTerminal(t)
      PROVE  TablesInv'
  BY <1>5, TerminalKeeps
<1>6. ASSUME NEW r \in Run,
             \/ \E i \in Id : IndexWorkspace(r, i)
             \/ \E f \in File : ReadFile(r, f) \/ ReadFails(r, f)
             \/ \E w \in AllWindows : TakeWindow(r, w)
             \/ ClearIndex(r) \/ LastFlush(r)
             \/ InsertChunk(r) \/ IndexFails(r) \/ Finish(r)
      PROVE  TablesInv'
  BY <1>6, IndexKeeps
<1>7. CASE RegistryRestart \/ RegistryRestartAnew
  BY <1>7, RestartKeeps
<1>8. CASE UNCHANGED registryVars
  <2>1. UNCHANGED <<rows, terms, chunks, open, create>>
    BY <1>8 DEF registryVars
  <2> QED
    BY <2>1, ChunksOnly
<1> QED
  BY <1>2, <1>3, <1>4, <1>5, <1>6, <1>7, <1>8 DEF RegistryNext

\* The tables are empty at first.
LEMMA RegistryInitInv ==
  RegistryInit => TablesInv
<1> SUFFICES ASSUME RegistryInit PROVE TablesInv
  OBVIOUS
<1>1. Idle \in [pc: OpenPc, path: Path, id: Id \cup {NoId}] /\ Idle.pc = "idle"
  BY RegistryAssumption DEF Idle, OpenPc, RegistryAssumption
<1>2. TablesTypeOK
  BY <1>1 DEF RegistryInit, TablesTypeOK
<1>3. OneRowPerPath /\ NoOrphanRows
  BY DEF RegistryInit, OneRowPerPath, NoOrphanRows, NoChunks
<1> QED
  BY <1>2, <1>3 DEF TablesInv

-----------------------------------------------------------------------------
\* No terminal and no chunk is left in its table without the row of its
\* workspace, though the calls that insert them looked it up before it was closed.
THEOREM NoOrphans ==
  RegistrySpec => []NoOrphanRows
<1>1. TablesInv /\ [RegistryNext]_registryVars => TablesInv'
  BY RegistryStep
<1>2. TablesInv => NoOrphanRows
  BY DEF TablesInv
<1> QED
  BY RegistryInitInv, <1>1, <1>2, PTL DEF RegistrySpec

-----------------------------------------------------------------------------
(* windows *)

\* The lines of a file are counted.
LEMMA LinesCounted ==
  ASSUME NEW f \in File, Lines[f] # Binary
  PROVE  Lines[f] \in Seq({"text", "blank"}) /\ Len(Lines[f]) \in Nat /\ DOMAIN Lines[f] = 1..Len(Lines[f])
BY RegistryAssumption DEF RegistryAssumption

\* A window is of the file it was cut from.
LEMMA WindowsType ==
  ASSUME NEW f \in File, NEW w \in Windows(f)
  PROVE  w \in AllWindows /\ w.file = f
<1>1. w \in AllWindows
  BY DEF AllWindows
<1>2. w.file = f
  BY DEF Windows
<1> QED
  BY <1>1, <1>2

\* A nonempty set of naturals has a least member.
LEMMA LeastMember ==
  ASSUME NEW S, S \subseteq Nat, S # {}
  PROVE  \E m \in S : \A n \in S : m <= n
<1> DEFINE Less == {p \in Nat \X Nat : p[1] < p[2]}
<1>1. IsWellFoundedOn(Less, Nat)
  BY NatLessThanWellFounded, Zenon DEF OpToRel
<1>2. PICK m \in S : \A n \in S : <<n, m>> \notin Less
  <2> HIDE DEF Less
  <2> QED BY <1>1, WFMin
<1>3. ASSUME NEW n \in S PROVE m <= n
  <2>1. n < m => <<n, m>> \in Less
    OBVIOUS
  <2>2. <<n, m>> \notin Less
    BY <1>2, Zenon
  <2> QED BY <2>1, <2>2
<1> QED BY <1>3

\* The chunker leaves no line of text out: every one is in a window.
THEOREM ChunkerCovers ==
  ASSUME NEW f \in File, NEW k \in TextLines(f)
  PROVE  \E w \in Windows(f) : w.first <= k /\ k <= w.end
<1> DEFINE n == Len(Lines[f])
           step == Window - Overlap
           end(i) == IF i + Window <= n THEN i + Window ELSE n
           multiples == {j * step : j \in 0..n}
           starts == {i \in multiples : i < n /\ (i = 0 \/ end(i - step) < n)}
           before == {j \in 0..n : j * step < k /\ k <= end(j * step)}
<1>1. Lines[f] # Binary /\ n \in Nat /\ k \in 1..n /\ Lines[f][k] = "text"
  BY LinesCounted DEF TextLines
<1>2. Window \in Nat /\ Overlap \in Nat /\ step \in Nat /\ step >= 1 /\ step <= Window
  BY RegistryAssumption DEF RegistryAssumption
<1> HIDE DEF n, step
<1>3. before # {}
  <2> DEFINE past == {j \in Nat : k <= (j + 1) * step}
  <2>1. k - 1 \in past
    <3>1. k - 1 \in Nat /\ k * step >= k
      BY <1>1, <1>2
    <3> QED BY <3>1, <1>1
  <2>2. PICK j \in past : \A i \in past : j <= i
    <3>1. past \subseteq Nat /\ past # {}
      BY <2>1
    <3> HIDE DEF past
    <3> QED BY <3>1, LeastMember
  <2>3. j * step < k
    <3>1. CASE j = 0
      BY <3>1, <1>1, <1>2
    <3>2. CASE j # 0
      <4>1. j - 1 \in Nat /\ j - 1 \notin past
        BY <3>2, <2>2
      <4>2. ~(k <= ((j - 1) + 1) * step)
        BY <4>1
      <4>3. (j - 1) + 1 = j
        BY <2>2
      <4> QED BY <4>2, <4>3, <1>1, <1>2
    <3> QED BY <3>1, <3>2
  <2>4. (j + 1) * step = j * step + step /\ j * step \in Nat /\ j <= j * step
    BY <1>2
  <2>5. k <= end(j * step)
    BY <1>1, <1>2, <2>2, <2>4
  <2>6. j \in 0..n
    BY <1>1, <2>2, <2>3, <2>4
  <2> QED BY <2>3, <2>5, <2>6
<1>4. PICK j \in before : \A i \in before : j <= i
  <2>1. before \subseteq Nat
    OBVIOUS
  <2> HIDE DEF before
  <2> QED BY <1>3, <2>1, LeastMember
<1>5. j \in 0..n /\ j * step \in Nat /\ j * step < k /\ k <= end(j * step)
  BY <1>1, <1>2, <1>4
<1>6. j * step \in starts
  <2>1. CASE j = 0
    BY <2>1, <1>1, <1>2, <1>5
  <2>2. CASE j # 0
    <3>1. j - 1 \in 0..n /\ j - 1 \notin before
      BY <1>1, <1>4, <1>5, <2>2
    <3>2. (j - 1) * step = j * step - step
      BY <1>1, <1>2, <1>5
    <3>3. (j - 1) * step < k
      BY <1>1, <1>2, <1>5, <3>2
    <3>4. ~(k <= end((j - 1) * step))
      BY <3>1, <3>3
    <3>5. (j - 1) * step \in Int /\ end((j - 1) * step) < n
      BY <1>1, <1>2, <1>5, <3>2, <3>4
    <3>6. end(j * step - step) < n
      BY <3>2, <3>5
    <3>7. j * step < n /\ j * step \in multiples
      BY <1>1, <1>5
    <3> QED BY <3>6, <3>7
  <2> QED BY <2>1, <2>2
<1> DEFINE i == j * step
           w == [file |-> f, first |-> i + 1, end |-> end(i)]
<1>7. k \in i + 1..end(i)
  BY <1>1, <1>2, <1>5
<1>8. w \in Windows(f)
  <2>1. i \in {h \in starts : \E l \in h + 1..end(h) : Lines[f][l] = "text"}
    BY <1>1, <1>6, <1>7
  <2> QED BY <1>1, <2>1 DEF Windows, n, step
<1>9. w.first <= k /\ k <= w.end
  BY <1>7, <1>5, <1>1, <1>2
<1> QED BY <1>8, <1>9

-----------------------------------------------------------------------------
(* what the runs of the indexer keep *)

\* A run, when ids are the workspace ids given out.
RunOf(ids) ==
  [pc: RunPc, ws: ids \cup {NoId}, todo: SUBSET File, rest: SUBSET AllWindows,
   batch: Seq(AllWindows), flush: {"yes", "no"}, skipped: SUBSET File,
   last: {"yes", "no"}, alone: {"yes", "no"}]

\* What a run holds at each stage.
Shaped(s) ==
  /\ s.pc # "idle" => s.ws # NoId
  /\ s.pc # "walking" => s.todo = {} /\ s.rest = {} /\ s.batch = <<>>
  /\ s.flush = "yes" => s.pc = "walking" /\ s.batch # <<>>
  /\ s.flush = "no" => Len(s.batch) < Batch
  /\ Len(s.batch) <= Batch
  /\ s.last = "yes" \/ s.alone = "yes" => s.pc \in {"walking", "finished"}

\* A window that is still to be inserted.
Coming(s, w) == w \in s.rest \/ \E i \in 1..Len(s.batch) : s.batch[i] = w

\* Every line is in a file not read yet, or skipped, in a window that is coming, or
\* in the table.
Covered(s, table) ==
  s.last = "yes" =>
    \A f \in File \ (s.todo \cup s.skipped) : \A k \in TextLines(f) :
      \E w \in Windows(f) : /\ w.first <= k /\ k <= w.end
                            /\ Coming(s, w) \/ table[<<s.ws, w>>] > 0

\* A window is in one place only: its unread file, the rest, the batch, the table.
Exact(s, table) ==
  s.alone = "yes" =>
    /\ \A i, j \in 1..Len(s.batch) : s.batch[i] = s.batch[j] => i = j
    /\ \A i \in 1..Len(s.batch) : s.batch[i] \notin s.rest
    /\ \A w \in AllWindows :
         /\ table[<<s.ws, w>>] <= 1
         /\ Coming(s, w) => table[<<s.ws, w>>] = 0
         /\ w.file \in s.todo => ~Coming(s, w) /\ table[<<s.ws, w>>] = 0

RunsInv ==
  /\ chunks \in [Id \X AllWindows -> Nat] /\ issued \subseteq Id
  /\ index \in [Run -> RunOf(issued)]
  /\ \A r \in Run : Shaped(index[r]) /\ Covered(index[r], chunks) /\ Exact(index[r], chunks)

Pending(c) == open[c].pc \in {"found", "fresh"}

\* An id belongs to one directory, in the table and with those who will insert
\* it; and a terminal that is being created is in no row.
IdsAgree ==
  /\ rows \subseteq [id: issued, path: Path]
  /\ \A q, r \in rows : (q.id = r.id \/ q.path = r.path) => q = r
  /\ open \in [Opener -> [pc: OpenPc, path: Path, id: issued \cup {NoId}]]
  /\ \A c \in Opener : Pending(c) => open[c].id \in issued
  /\ \A c \in Opener, r \in rows : Pending(c) /\ open[c].id = r.id => open[c].path = r.path
  /\ \A c, d \in Opener : Pending(c) /\ Pending(d) /\ open[c].id = open[d].id =>
       open[c].path = open[d].path

TermsInv ==
  /\ terms \subseteq [id: Term, ws: issued, open: {"yes", "no"}]
  /\ \A s, t \in terms : s.id = t.id => s = t
  /\ create \in [Term -> issued \cup {NoId}]
  /\ \A t \in Term : create[t] # NoId => \A s \in terms : s.id # t

\* The whole invariant.
RegistryInv ==
  /\ TablesInv /\ IdsAgree /\ TermsInv /\ RunsInv
  /\ opens \in 0..MaxOpens /\ runs \in 0..MaxRuns

-----------------------------------------------------------------------------
(* the indexer's runs *)

\* What other calls do to a run: they may take its marks.
Weakened(s, t) ==
  t \in {s, [s EXCEPT !.alone = "no"], [s EXCEPT !.last = "no", !.alone = "no"]}

\* A run nobody has taken the marks of stays right when others change the table.
LEMMA WeakenedRun ==
  ASSUME NEW ids, ids \subseteq Id, NEW s \in RunOf(ids), NEW t, Weakened(s, t),
         NEW c \in [Id \X AllWindows -> Nat], NEW d \in [Id \X AllWindows -> Nat],
         Shaped(s), Covered(s, c), Exact(s, c),
         t.last = "yes" => \A w \in AllWindows : c[<<s.ws, w>>] > 0 => d[<<s.ws, w>>] > 0,
         t.alone = "yes" => \A w \in AllWindows : d[<<s.ws, w>>] = c[<<s.ws, w>>]
  PROVE  t \in RunOf(ids) /\ Shaped(t) /\ Covered(t, d) /\ Exact(t, d)
<1>1. t \in RunOf(ids)
  BY DEF RunOf, Weakened
<1>2. /\ t.pc = s.pc /\ t.ws = s.ws /\ t.todo = s.todo /\ t.rest = s.rest
      /\ t.batch = s.batch /\ t.flush = s.flush /\ t.skipped = s.skipped
      /\ t.last = "yes" => s.last = "yes"
      /\ t.alone = "yes" => s.alone = "yes"
  BY DEF RunOf, Weakened
<1>3. Shaped(t)
  BY <1>2 DEF Shaped
<1>4. \A w : Coming(t, w) <=> Coming(s, w)
  BY <1>2 DEF Coming
<1>5. Covered(t, d)
  <2> SUFFICES ASSUME t.last = "yes", NEW f \in File \ (t.todo \cup t.skipped), NEW k \in TextLines(f)
               PROVE  \E w \in Windows(f) : /\ w.first <= k /\ k <= w.end
                                            /\ Coming(t, w) \/ d[<<t.ws, w>>] > 0
    BY DEF Covered
  <2>1. PICK w \in Windows(f) : /\ w.first <= k /\ k <= w.end
                                /\ Coming(s, w) \/ c[<<s.ws, w>>] > 0
    BY <1>2 DEF Covered
  <2>2. w \in AllWindows
    BY WindowsType
  <2> QED BY <2>1, <2>2, <1>2, <1>4
<1>6. Exact(t, d)
  BY <1>2, <1>4 DEF Exact
<1> QED
  BY <1>1, <1>3, <1>5, <1>6

\* Runs that do not take a step themselves.
LEMMA OtherRuns ==
  ASSUME RunsInv, chunks' \in [Id \X AllWindows -> Nat], issued \subseteq issued', issued' \subseteq Id,
         NEW k \in Run, Weakened(index[k], index'[k]),
         index'[k].last = "yes" => \A w \in AllWindows :
           chunks[<<index[k].ws, w>>] > 0 => chunks'[<<index[k].ws, w>>] > 0,
         index'[k].alone = "yes" => \A w \in AllWindows :
           chunks'[<<index[k].ws, w>>] = chunks[<<index[k].ws, w>>]
  PROVE  /\ index'[k] \in RunOf(issued') /\ Shaped(index'[k])
         /\ Covered(index'[k], chunks') /\ Exact(index'[k], chunks')
<1>1. /\ index[k] \in RunOf(issued) /\ chunks \in [Id \X AllWindows -> Nat]
      /\ Shaped(index[k]) /\ Covered(index[k], chunks) /\ Exact(index[k], chunks)
  BY DEF RunsInv
<1>2. index[k] \in RunOf(issued')
  BY <1>1 DEF RunOf
<1> QED
  BY <1>1, <1>2, WeakenedRun

\* Who changes neither the table nor a run.
LEMMA RunsUntouched ==
  ASSUME RunsInv, chunks' = chunks, index' = index, issued \subseteq issued', issued' \subseteq Id
  PROVE  RunsInv'
<1>1. ASSUME NEW k \in Run
      PROVE  /\ index'[k] \in RunOf(issued') /\ Shaped(index'[k])
             /\ Covered(index'[k], chunks') /\ Exact(index'[k], chunks')
  BY OtherRuns DEF RunsInv, Weakened
<1> QED
  BY <1>1 DEF RunsInv

\* A run without marks promises nothing.
LEMMA UnmarkedRun ==
  ASSUME NEW s, s.last = "no", s.alone = "no", NEW table
  PROVE  Covered(s, table) /\ Exact(s, table)
BY DEF Covered, Exact

\* A run that is over, or has not begun, promises nothing.
LEMMA RestingRun ==
  /\ Resting \in RunOf(issued) /\ Shaped(Resting)
  /\ Covered(Resting, chunks) /\ Exact(Resting, chunks)
<1>1. Resting \in RunOf(issued)
  BY DEF Resting, RunOf, RunPc
<1>2. Shaped(Resting)
  BY RegistryAssumption DEF Resting, Shaped, RegistryAssumption
<1>3. Resting.last = "no" /\ Resting.alone = "no"
  BY DEF Resting
<1> QED
  BY <1>1, <1>2, <1>3, UnmarkedRun

\* One run takes a step, and the others keep the table they rely on.
LEMMA OneRunSteps ==
  ASSUME RunsInv, chunks' = chunks, issued' = issued, NEW r \in Run, NEW s,
         index' = [index EXCEPT ![r] = s],
         s \in RunOf(issued), Shaped(s), Covered(s, chunks), Exact(s, chunks)
  PROVE  RunsInv'
<1>1. ASSUME NEW k \in Run
      PROVE  /\ index'[k] \in RunOf(issued) /\ Shaped(index'[k])
             /\ Covered(index'[k], chunks) /\ Exact(index'[k], chunks)
  BY DEF RunsInv
<1>2. index' \in [Run -> RunOf(issued)]
  BY <1>1 DEF RunsInv
<1> QED
  BY <1>1, <1>2 DEF RunsInv

\* A new run has nothing yet.
LEMMA IndexWorkspaceRuns ==
  ASSUME RunsInv, IdsAgree, NEW r \in Run, NEW i \in Id, IndexWorkspace(r, i)
  PROVE  RunsInv'
<1> DEFINE s == [Resting EXCEPT !.pc = "found", !.ws = i]
<1>1. index' = [index EXCEPT ![r] = s] /\ chunks' = chunks /\ issued' = issued
  BY DEF IndexWorkspace, openVars
<1>2. i \in issued /\ i # NoId
  BY RegistryAssumption DEF IndexWorkspace, HasRow, IdsAgree, RegistryAssumption
<1>3. s \in RunOf(issued)
  <2>1. Resting \in RunOf(issued)
    BY RestingRun
  <2> QED BY <2>1, <1>2 DEF RunOf, RunPc
<1>4. Shaped(s)
  BY <1>2, RegistryAssumption DEF Resting, Shaped, RegistryAssumption
<1>5. s.last = "no" /\ s.alone = "no"
  BY DEF Resting
<1>6. Covered(s, chunks) /\ Exact(s, chunks)
  <2> HIDE DEF s
  <2> QED BY <1>5, UnmarkedRun
<1> HIDE DEF s
<1> QED
  BY <1>1, <1>3, <1>4, <1>6, OneRunSteps

\* Clearing takes the marks of the other runs of the workspace.
LEMMA ClearIndexRuns ==
  ASSUME RunsInv, NEW r \in Run, ClearIndex(r)
  PROVE  RunsInv'
<1> DEFINE s == [index[r] EXCEPT !.pc = "walking", !.todo = File, !.last = "yes", !.alone = "yes"]
           after == [index EXCEPT ![r] = s]
<1>0. index[r] \in RunOf(issued) /\ Shaped(index[r]) /\ index[r].pc = "found"
      /\ chunks \in [Id \X AllWindows -> Nat] /\ issued \subseteq Id
      /\ index \in [Run -> RunOf(issued)]
  BY DEF RunsInv, ClearIndex
<1>1. /\ index' = Disturbs(r, "clear", after) /\ issued' = issued
      /\ chunks' = [k \in DOMAIN chunks |-> IF k[1] = index[r].ws THEN 0 ELSE chunks[k]]
  BY <1>0 DEF ClearIndex, Cleared, openVars
<1>2. /\ s \in RunOf(issued) /\ s.pc = "walking" /\ s.todo = File /\ s.ws = index[r].ws
      /\ s.rest = {} /\ s.batch = <<>> /\ s.flush = "no"
  BY <1>0 DEF RunOf, RunPc, Shaped
<1>3. Shaped(s)
  BY <1>0, <1>2 DEF Shaped
<1>c. chunks' \in [Id \X AllWindows -> Nat]
  BY <1>0, <1>1
<1>d. index[r].ws \in Id
  BY <1>0 DEF Shaped, RunOf
<1>e. /\ \A w \in AllWindows : chunks'[<<index[r].ws, w>>] = 0
      /\ \A w \in AllWindows, i \in Id : i # index[r].ws => chunks'[<<i, w>>] = chunks[<<i, w>>]
  BY <1>0, <1>1, <1>d
<1>4. Covered(s, chunks')
  BY <1>2 DEF Covered
<1>5. Exact(s, chunks')
  <2>1. \A w : ~Coming(s, w)
    BY <1>2 DEF Coming
  <2> QED BY <1>2, <1>e, <2>1 DEF Exact
<1>6. ASSUME NEW k \in Run, k # r
      PROVE  /\ Weakened(index[k], index'[k])
             /\ index[k].ws = index[r].ws => index'[k].last = "no" /\ index'[k].alone = "no"
  <2>1. after[k] = index[k] /\ after[r].ws = index[r].ws
    BY <1>0, <1>2, <1>6
  <2>2. index'[k] = IF index[k].ws # index[r].ws THEN index[k]
                    ELSE [index[k] EXCEPT !.last = "no", !.alone = "no"]
    <3> HIDE DEF after, s
    <3> QED BY <1>1, <1>6, <2>1 DEF Disturbs
  <2> QED BY <1>0, <2>2 DEF Weakened, RunOf
<1>7. index'[r] = s /\ DOMAIN index' = Run
  <2>1. after[r] = s
    BY <1>0
  <2> HIDE DEF after, s
  <2> QED BY <1>1, <2>1 DEF Disturbs
<1> HIDE DEF s, after
<1>8. ASSUME NEW k \in Run
      PROVE  /\ index'[k] \in RunOf(issued') /\ Shaped(index'[k])
             /\ Covered(index'[k], chunks') /\ Exact(index'[k], chunks')
  <2>1. CASE k = r
    BY <2>1, <1>1, <1>2, <1>3, <1>4, <1>5, <1>7
  <2>2. CASE k # r
    <3>1. index'[k].last = "yes" \/ index'[k].alone = "yes" =>
            \A w \in AllWindows : chunks'[<<index[k].ws, w>>] = chunks[<<index[k].ws, w>>]
      <4> SUFFICES ASSUME index'[k].last = "yes" \/ index'[k].alone = "yes", NEW w \in AllWindows
                   PROVE  chunks'[<<index[k].ws, w>>] = chunks[<<index[k].ws, w>>]
        OBVIOUS
      <4>1. index[k].ws # index[r].ws
        BY <1>6, <2>2
      <4>2. index[k] \in RunOf(issued) /\ Shaped(index[k])
        BY DEF RunsInv
      <4>3. index[k].last = "yes" \/ index[k].alone = "yes"
        BY <1>6, <2>2, <4>2 DEF Weakened, RunOf
      <4>4. index[k].ws \in Id
        BY <4>2, <4>3, <1>0 DEF Shaped, RunOf
      <4> QED BY <1>e, <4>1, <4>4
    <3> QED BY <3>1, <1>c, <1>1, <1>0, <1>6, <2>2, OtherRuns
  <2> QED BY <2>1, <2>2
<1>9. index' \in [Run -> RunOf(issued')]
  <2>1. index' = [k \in Run |-> index'[k]]
    BY <1>1, <1>7 DEF Disturbs
  <2> QED BY <1>8, <2>1
<1> QED
  BY <1>0, <1>1, <1>8, <1>9, <1>c DEF RunsInv

\* What is read is cut into windows: every line is in one.
LEMMA ReadFileRuns ==
  ASSUME RunsInv, NEW r \in Run, NEW f \in File, ReadFile(r, f)
  PROVE  RunsInv'
<1> DEFINE s == [index[r] EXCEPT !.todo = @ \ {f}, !.rest = Windows(f)]
<1>0. /\ index \in [Run -> RunOf(issued)] /\ index[r] \in RunOf(issued)
      /\ Shaped(index[r]) /\ Covered(index[r], chunks) /\ Exact(index[r], chunks)
      /\ index[r].pc = "walking" /\ index[r].rest = {} /\ f \in index[r].todo
  BY DEF RunsInv, ReadFile
<1>1. index' = [index EXCEPT ![r] = s] /\ chunks' = chunks /\ issued' = issued
  BY <1>0 DEF ReadFile, openVars
<1>2. Windows(f) \subseteq AllWindows
  BY WindowsType
<1>3. /\ s \in RunOf(issued) /\ s.pc = "walking" /\ s.ws = index[r].ws /\ s.batch = index[r].batch
      /\ s.todo = index[r].todo \ {f} /\ s.rest = Windows(f) /\ s.flush = index[r].flush
      /\ s.skipped = index[r].skipped
      /\ s.last = index[r].last /\ s.alone = index[r].alone
  BY <1>0, <1>2 DEF RunOf
<1> HIDE DEF s
<1>4. Shaped(s)
  BY <1>0, <1>3 DEF Shaped
<1>5. \A w : Coming(s, w) <=> Coming(index[r], w) \/ w \in Windows(f)
  BY <1>0, <1>3 DEF Coming
<1>6. Covered(s, chunks)
  <2> SUFFICES ASSUME s.last = "yes", NEW g \in File \ (s.todo \cup s.skipped), NEW k \in TextLines(g)
               PROVE  \E w \in Windows(g) : /\ w.first <= k /\ k <= w.end
                                            /\ Coming(s, w) \/ chunks[<<s.ws, w>>] > 0
    BY DEF Covered
  <2>1. CASE g = f
    BY <2>1, <1>5, ChunkerCovers
  <2>2. CASE g # f
    <3>1. g \in File \ (index[r].todo \cup index[r].skipped)
      BY <2>2, <1>3
    <3> QED BY <3>1, <1>0, <1>3, <1>5 DEF Covered
  <2> QED BY <2>1, <2>2
<1>7. Exact(s, chunks)
  <2> SUFFICES ASSUME s.alone = "yes" PROVE Exact(s, chunks)
    BY DEF Exact
  <2>1. \A w \in Windows(f) : w \in AllWindows /\ w.file = f /\ ~Coming(index[r], w)
                              /\ chunks[<<index[r].ws, w>>] = 0
    BY <1>0, <1>3, WindowsType DEF Exact
  <2>2. \A i \in 1..Len(s.batch) : s.batch[i] \notin s.rest
    BY <2>1, <1>3 DEF Coming
  <2> QED BY <2>1, <2>2, <1>0, <1>3, <1>5 DEF Exact
<1> QED
  BY <1>1, <1>3, <1>4, <1>6, <1>7, OneRunSteps

\* Of a file that is skipped nothing is promised.
LEMMA ReadFailsRuns ==
  ASSUME RunsInv, NEW r \in Run, NEW f \in File, ReadFails(r, f)
  PROVE  RunsInv'
<1> DEFINE s == [index[r] EXCEPT !.todo = @ \ {f}, !.skipped = @ \cup {f}]
<1>0. /\ index \in [Run -> RunOf(issued)] /\ index[r] \in RunOf(issued)
      /\ Shaped(index[r]) /\ Covered(index[r], chunks) /\ Exact(index[r], chunks)
      /\ index[r].pc = "walking" /\ f \in index[r].todo
  BY DEF RunsInv, ReadFails
<1>1. index' = [index EXCEPT ![r] = s] /\ chunks' = chunks /\ issued' = issued
  BY <1>0 DEF ReadFails, openVars
<1>2. /\ s \in RunOf(issued) /\ s.pc = "walking" /\ s.ws = index[r].ws /\ s.batch = index[r].batch
      /\ s.todo = index[r].todo \ {f} /\ s.skipped = index[r].skipped \cup {f}
      /\ s.rest = index[r].rest /\ s.flush = index[r].flush
      /\ s.last = index[r].last /\ s.alone = index[r].alone
  BY <1>0 DEF RunOf
<1> HIDE DEF s
<1>3. Shaped(s)
  BY <1>0, <1>2 DEF Shaped
<1>4. \A w : Coming(s, w) <=> Coming(index[r], w)
  BY <1>2 DEF Coming
<1>5. Covered(s, chunks)
  <2>1. s.todo \cup s.skipped = index[r].todo \cup index[r].skipped
    BY <1>0, <1>2
  <2> QED BY <2>1, <1>0, <1>2, <1>4 DEF Covered
<1>6. Exact(s, chunks)
  BY <1>0, <1>2, <1>4 DEF Exact
<1> QED
  BY <1>1, <1>2, <1>3, <1>5, <1>6, OneRunSteps

\* The next window goes from the rest to the batch.
LEMMA TakeWindowRuns ==
  ASSUME RunsInv, NEW r \in Run, NEW w \in AllWindows, TakeWindow(r, w)
  PROVE  RunsInv'
<1> DEFINE full == IF Len(index[r].batch) + 1 >= Batch THEN "yes" ELSE "no"
           s == [index[r] EXCEPT !.batch = Append(@, w), !.rest = @ \ {w}, !.flush = full]
<1>0. /\ index \in [Run -> RunOf(issued)] /\ index[r] \in RunOf(issued)
      /\ Shaped(index[r]) /\ Covered(index[r], chunks) /\ Exact(index[r], chunks)
      /\ index[r].pc = "walking" /\ index[r].flush = "no" /\ w \in index[r].rest
      /\ index[r].batch \in Seq(AllWindows)
  BY DEF RunsInv, TakeWindow, RunOf
<1>1. index' = [index EXCEPT ![r] = s] /\ chunks' = chunks /\ issued' = issued
  BY <1>0 DEF TakeWindow, openVars
<1>2. /\ s \in RunOf(issued) /\ s.pc = "walking" /\ s.ws = index[r].ws
      /\ s.batch = Append(index[r].batch, w) /\ s.flush = full
      /\ s.todo = index[r].todo /\ s.rest = index[r].rest \ {w} /\ s.skipped = index[r].skipped
      /\ s.last = index[r].last /\ s.alone = index[r].alone
  <2>1. Append(index[r].batch, w) \in Seq(AllWindows) /\ full \in {"yes", "no"}
    BY <1>0
  <2> HIDE DEF full
  <2> QED BY <1>0, <2>1 DEF RunOf
<1> HIDE DEF s
<1>3. /\ Len(index[r].batch) \in Nat /\ Len(s.batch) = Len(index[r].batch) + 1
      /\ \A i \in 1..Len(index[r].batch) : s.batch[i] = index[r].batch[i]
      /\ s.batch[Len(s.batch)] = w
  BY <1>0, <1>2
<1>4. Shaped(s)
  <2>1. Len(index[r].batch) < Batch /\ Batch \in Nat
    BY <1>0, RegistryAssumption DEF Shaped, RegistryAssumption
  <2>2. Len(s.batch) <= Batch /\ (s.flush = "no" => Len(s.batch) < Batch) /\ s.batch # <<>>
    <3>1. Len(s.batch) <= Batch
      BY <1>3, <2>1
    <3>2. s.flush = "no" => Len(s.batch) < Batch
      BY <1>2, <1>3, <2>1
    <3>3. Len(s.batch) # 0
      BY <1>3
    <3> QED BY <3>1, <3>2, <3>3
  <2>3. s.ws # NoId
    BY <1>0, <1>2 DEF Shaped
  <2> QED BY <1>2, <2>2, <2>3 DEF Shaped
<1>5. \A v : Coming(s, v) <=> Coming(index[r], v)
  <2>1. ASSUME NEW v, Coming(s, v) PROVE Coming(index[r], v)
    BY <2>1, <1>0, <1>2, <1>3 DEF Coming
  <2>2. ASSUME NEW v, Coming(index[r], v) PROVE Coming(s, v)
    <3>1. CASE v = w
      BY <3>1, <1>3 DEF Coming
    <3>2. CASE v # w /\ v \in index[r].rest
      BY <3>2, <1>2 DEF Coming
    <3>3. CASE \E i \in 1..Len(index[r].batch) : index[r].batch[i] = v
      BY <3>3, <1>3 DEF Coming
    <3> QED BY <2>2, <3>1, <3>2, <3>3 DEF Coming
  <2> QED BY <2>1, <2>2
<1>6. Covered(s, chunks)
  BY <1>0, <1>2, <1>5 DEF Covered
<1>7. Exact(s, chunks)
  <2> SUFFICES ASSUME s.alone = "yes" PROVE Exact(s, chunks)
    BY DEF Exact
  <2>1. \A i \in 1..Len(index[r].batch) : index[r].batch[i] # w
    BY <1>0, <1>2 DEF Exact
  <2>2. \A i, j \in 1..Len(s.batch) : s.batch[i] = s.batch[j] => i = j
    BY <1>0, <1>2, <1>3, <2>1 DEF Exact
  <2>3. \A i \in 1..Len(s.batch) : s.batch[i] \notin s.rest
    BY <1>0, <1>2, <1>3 DEF Exact
  <2> QED BY <2>2, <2>3, <1>0, <1>2, <1>5 DEF Exact
<1> QED
  BY <1>1, <1>2, <1>4, <1>6, <1>7, OneRunSteps

\* Stages that move no window.
LEMMA StageRuns ==
  ASSUME RunsInv, NEW r \in Run, LastFlush(r) \/ IndexFails(r) \/ Finish(r)
  PROVE  RunsInv'
<1>0. /\ index \in [Run -> RunOf(issued)] /\ index[r] \in RunOf(issued)
      /\ Shaped(index[r]) /\ Covered(index[r], chunks) /\ Exact(index[r], chunks)
      /\ chunks' = chunks /\ issued' = issued
  BY DEF RunsInv, LastFlush, IndexFails, Finish, openVars
<1>1. CASE LastFlush(r)
  <2> DEFINE s == [index[r] EXCEPT !.flush = "yes"]
  <2>1. index' = [index EXCEPT ![r] = s]
    BY <1>0, <1>1 DEF LastFlush
  <2>2. s \in RunOf(issued) /\ Shaped(s)
    BY <1>0, <1>1 DEF RunOf, Shaped, LastFlush, AllRead
  <2>3. Covered(s, chunks) /\ Exact(s, chunks)
    BY <1>0 DEF RunOf, Covered, Exact, Coming
  <2> HIDE DEF s
  <2> QED BY <1>0, <2>1, <2>2, <2>3, OneRunSteps
<1>2. CASE Finish(r)
  <2> DEFINE s == [index[r] EXCEPT !.pc = "finished"]
  <2>1. index' = [index EXCEPT ![r] = s]
    BY <1>0, <1>2 DEF Finish
  <2>2. s \in RunOf(issued) /\ Shaped(s)
    BY <1>0, <1>2 DEF RunOf, RunPc, Shaped, Finish, AllRead
  <2>3. Covered(s, chunks) /\ Exact(s, chunks)
    BY <1>0 DEF RunOf, Covered, Exact, Coming
  <2> HIDE DEF s
  <2> QED BY <1>0, <2>1, <2>2, <2>3, OneRunSteps
<1>3. CASE IndexFails(r)
  BY <1>0, <1>3, RestingRun, OneRunSteps DEF IndexFails
<1> QED
  BY <1>1, <1>2, <1>3

\* The first window of the batch goes into the table, where only this run loses it.
LEMMA InsertChunkRuns ==
  ASSUME RunsInv, NEW r \in Run, InsertChunk(r)
  PROVE  RunsInv'
<1> DEFINE old == index[r]
           w == Head(old.batch)
           more == IF Len(old.batch) = 1 THEN "no" ELSE "yes"
           s == [old EXCEPT !.batch = Tail(@), !.flush = more]
           after == [index EXCEPT ![r] = s]
<1>0. /\ index \in [Run -> RunOf(issued)] /\ old \in RunOf(issued) /\ issued \subseteq Id
      /\ Shaped(old) /\ Covered(old, chunks) /\ Exact(old, chunks)
      /\ old.flush = "yes" /\ old.pc = "walking" /\ old.batch # <<>> /\ old.ws \in Id
      /\ old.batch \in Seq(AllWindows) /\ chunks \in [Id \X AllWindows -> Nat]
  BY DEF RunsInv, InsertChunk, RunOf, Shaped
<1>1. /\ index' = Disturbs(r, "insert", after) /\ issued' = issued
      /\ chunks' = [chunks EXCEPT ![<<old.ws, w>>] = @ + 1]
  BY <1>0 DEF InsertChunk, openVars
<1>2. /\ s \in RunOf(issued) /\ s.pc = "walking" /\ s.ws = old.ws /\ s.batch = Tail(old.batch)
      /\ s.todo = old.todo /\ s.rest = old.rest /\ s.flush = more /\ s.skipped = old.skipped
      /\ s.last = old.last /\ s.alone = old.alone
  <2>1. Tail(old.batch) \in Seq(AllWindows) /\ more \in {"yes", "no"}
    BY <1>0
  <2> HIDE DEF more
  <2> QED BY <1>0, <2>1 DEF RunOf
<1>3. after[r] = s /\ \A k \in Run : k # r => after[k] = index[k]
  BY <1>0
<1>4. /\ Len(old.batch) \in Nat /\ Len(old.batch) >= 1 /\ Len(s.batch) = Len(old.batch) - 1
      /\ \A i \in 1..Len(s.batch) : s.batch[i] = old.batch[i + 1]
      /\ w = old.batch[1] /\ w \in AllWindows
  <2> HIDE DEF s
  <2> QED BY <1>0, <1>2
<1> HIDE DEF s, after, w
<1>5. Shaped(s)
  <2>1. Batch \in Nat /\ Len(old.batch) <= Batch
    BY <1>0, RegistryAssumption DEF Shaped, RegistryAssumption
  <2>2. Len(s.batch) < Batch
    BY <1>4, <2>1
  <2>3. s.flush = "yes" => s.batch # <<>>
    <3>1. s.flush = "yes" => Len(s.batch) # 0
      BY <1>2, <1>4
    <3> QED BY <3>1
  <2>4. s.ws # NoId
    BY <1>0, <1>2 DEF Shaped
  <2>5. Len(s.batch) <= Batch
    BY <1>4, <2>1, <2>2
  <2> QED BY <1>2, <2>2, <2>3, <2>4, <2>5 DEF Shaped
<1>6. \A v : Coming(old, v) <=> v = w \/ Coming(s, v)
  <2>1. ASSUME NEW v, Coming(s, v) PROVE Coming(old, v)
    BY <2>1, <1>2, <1>4 DEF Coming
  <2>2. Coming(old, w)
    BY <1>4 DEF Coming
  <2>3. ASSUME NEW v, Coming(old, v), v # w PROVE Coming(s, v)
    <3>1. CASE v \in old.rest
      BY <3>1, <1>2 DEF Coming
    <3>2. ASSUME NEW i \in 1..Len(old.batch), old.batch[i] = v PROVE Coming(s, v)
      <4>1. i # 1 /\ i - 1 \in 1..Len(s.batch)
        BY <3>2, <2>3, <1>4
      <4>2. s.batch[i - 1] = old.batch[(i - 1) + 1] /\ (i - 1) + 1 = i
        BY <1>4, <4>1
      <4> QED BY <3>2, <4>1, <4>2 DEF Coming
    <3> QED BY <2>3, <3>1, <3>2 DEF Coming
  <2> QED BY <2>1, <2>2, <2>3
<1>7. /\ chunks' \in [Id \X AllWindows -> Nat]
      /\ chunks'[<<old.ws, w>>] = chunks[<<old.ws, w>>] + 1
      /\ \A i \in Id, v \in AllWindows :
           <<i, v>> # <<old.ws, w>> => chunks'[<<i, v>>] = chunks[<<i, v>>]
  BY <1>0, <1>1, <1>4
<1>8. \A i \in Id, v \in AllWindows : chunks[<<i, v>>] \in Nat
  BY <1>0
<1>9. \A v \in AllWindows : chunks[<<old.ws, v>>] > 0 \/ v = w => chunks'[<<old.ws, v>>] > 0
  <2> SUFFICES ASSUME NEW v \in AllWindows, chunks[<<old.ws, v>>] > 0 \/ v = w
               PROVE  chunks'[<<old.ws, v>>] > 0
    OBVIOUS
  <2>1. CASE v = w
    BY <2>1, <1>0, <1>4, <1>7, <1>8
  <2>2. CASE v # w
    BY <2>2, <1>0, <1>7
  <2> QED BY <2>1, <2>2
<1>10. Covered(s, chunks')
  <2> SUFFICES ASSUME s.last = "yes", NEW f \in File \ (s.todo \cup s.skipped), NEW k \in TextLines(f)
               PROVE  \E v \in Windows(f) : /\ v.first <= k /\ k <= v.end
                                            /\ Coming(s, v) \/ chunks'[<<s.ws, v>>] > 0
    BY DEF Covered
  <2>1. PICK v \in Windows(f) : /\ v.first <= k /\ k <= v.end
                                /\ Coming(old, v) \/ chunks[<<old.ws, v>>] > 0
    BY <1>0, <1>2 DEF Covered
  <2>2. v \in AllWindows
    BY WindowsType
  <2> QED BY <2>1, <2>2, <1>2, <1>6, <1>9
<1>11. Exact(s, chunks')
  <2> SUFFICES ASSUME s.alone = "yes" PROVE Exact(s, chunks')
    BY DEF Exact
  <2>1. \A i, j \in 1..Len(s.batch) : s.batch[i] = s.batch[j] => i = j
    <3> SUFFICES ASSUME NEW i \in 1..Len(s.batch), NEW j \in 1..Len(s.batch), s.batch[i] = s.batch[j]
                 PROVE  i = j
      OBVIOUS
    <3>1. i + 1 \in 1..Len(old.batch) /\ j + 1 \in 1..Len(old.batch)
          /\ old.batch[i + 1] = old.batch[j + 1]
      BY <1>4
    <3>2. i + 1 = j + 1
      BY <3>1, <1>0, <1>2 DEF Exact
    <3> QED BY <3>2
  <2>2. \A i \in 1..Len(s.batch) : s.batch[i] \notin s.rest /\ s.batch[i] # w
    <3> SUFFICES ASSUME NEW i \in 1..Len(s.batch)
                 PROVE  s.batch[i] \notin s.rest /\ s.batch[i] # w
      OBVIOUS
    <3>1. i + 1 \in 1..Len(old.batch) /\ 1 \in 1..Len(old.batch) /\ i + 1 # 1
          /\ s.batch[i] = old.batch[i + 1]
      BY <1>4
    <3> QED BY <3>1, <1>0, <1>2, <1>4 DEF Exact
  <2>3. ~Coming(s, w) /\ w.file \notin s.todo /\ chunks[<<old.ws, w>>] = 0
    <3>1. Coming(old, w) /\ w \notin old.rest
      BY <1>0, <1>2, <1>4, <1>6 DEF Exact
    <3> QED BY <3>1, <2>2, <1>0, <1>2, <1>4 DEF Exact, Coming
  <2>4. ASSUME NEW v \in AllWindows
        PROVE  /\ chunks'[<<s.ws, v>>] <= 1
               /\ Coming(s, v) => chunks'[<<s.ws, v>>] = 0
               /\ v.file \in s.todo => ~Coming(s, v) /\ chunks'[<<s.ws, v>>] = 0
    <3>1. CASE v = w
      BY <3>1, <2>3, <1>2, <1>7
    <3>2. CASE v # w
      <4>1. chunks'[<<s.ws, v>>] = chunks[<<old.ws, v>>]
        BY <3>2, <1>0, <1>2, <1>7
      <4> QED BY <4>1, <1>0, <1>2, <1>6 DEF Exact
    <3> QED BY <3>1, <3>2
  <2> QED BY <2>1, <2>2, <2>4 DEF Exact
<1>12. index'[r] = s /\ DOMAIN index' = Run
  BY <1>1, <1>3 DEF Disturbs
<1>13. ASSUME NEW k \in Run, k # r
       PROVE  /\ Weakened(index[k], index'[k])
              /\ index[k].ws = old.ws => index'[k].alone = "no"
  <2>1. index'[k] = IF index[k].ws # old.ws THEN index[k] ELSE [index[k] EXCEPT !.alone = "no"]
    BY <1>1, <1>2, <1>3, <1>13 DEF Disturbs
  <2> QED BY <1>0, <2>1 DEF Weakened, RunOf
<1>14. ASSUME NEW k \in Run
       PROVE  /\ index'[k] \in RunOf(issued') /\ Shaped(index'[k])
              /\ Covered(index'[k], chunks') /\ Exact(index'[k], chunks')
  <2>1. CASE k = r
    BY <2>1, <1>1, <1>2, <1>5, <1>10, <1>11, <1>12
  <2>2. CASE k # r
    <3>0. index[k] \in RunOf(issued) /\ Shaped(index[k])
      BY DEF RunsInv
    <3>1. index'[k].last = "yes" => \A v \in AllWindows :
            chunks[<<index[k].ws, v>>] > 0 => chunks'[<<index[k].ws, v>>] > 0
      <4> SUFFICES ASSUME index'[k].last = "yes", NEW v \in AllWindows, chunks[<<index[k].ws, v>>] > 0
                   PROVE  chunks'[<<index[k].ws, v>>] > 0
        OBVIOUS
      <4>1. index[k].last = "yes"
        BY <1>13, <2>2, <3>0 DEF Weakened, RunOf
      <4>2. index[k].ws \in Id
        BY <3>0, <4>1, <1>0 DEF Shaped, RunOf
      <4> QED BY <4>2, <1>7, <1>9
    <3>2. index'[k].alone = "yes" => \A v \in AllWindows :
            chunks'[<<index[k].ws, v>>] = chunks[<<index[k].ws, v>>]
      <4> SUFFICES ASSUME index'[k].alone = "yes", NEW v \in AllWindows
                   PROVE  chunks'[<<index[k].ws, v>>] = chunks[<<index[k].ws, v>>]
        OBVIOUS
      <4>1. index[k].alone = "yes" /\ index[k].ws # old.ws
        BY <1>13, <2>2, <3>0 DEF Weakened, RunOf
      <4>2. index[k].ws \in Id
        BY <3>0, <4>1, <1>0 DEF Shaped, RunOf
      <4> QED BY <4>1, <4>2, <1>7
    <3> QED BY <3>1, <3>2, <1>7, <1>1, <1>0, <1>13, <2>2, OtherRuns
  <2> QED BY <2>1, <2>2
<1>15. index' \in [Run -> RunOf(issued')]
  <2>1. index' = [k \in Run |-> index'[k]]
    BY <1>1, <1>12 DEF Disturbs
  <2> QED BY <1>14, <2>1
<1> QED
  BY <1>0, <1>1, <1>7, <1>14, <1>15 DEF RunsInv

-----------------------------------------------------------------------------
(* opening and closing *)

\* Opening again takes no chunk away.
LEMMA UpsertRuns ==
  ASSUME TablesInv, RunsInv, NEW c \in Opener, Upsert(c)
  PROVE  RunsInv'
<1>1. /\ rows \subseteq rows' /\ index' = index /\ issued' = issued
      /\ chunks' = [k \in DOMAIN chunks |-> IF \E r \in rows' : r.id = k[1] THEN chunks[k] ELSE 0]
  BY UpsertKeeps DEF Upsert, Cascade, indexVars
<1>2. \A k \in DOMAIN chunks : chunks'[k] = chunks[k]
  BY <1>1 DEF TablesInv, NoOrphanRows, HasRow, RunsInv
<1>3. chunks' = chunks
  BY <1>1, <1>2 DEF RunsInv
<1> QED
  BY <1>1, <1>3, RunsUntouched DEF RunsInv

\* Closing takes the chunks of one workspace, and the marks of its runs.
LEMMA CloseRuns ==
  ASSUME TablesInv, RunsInv, NEW i \in Id, CloseWorkspace(i)
  PROVE  RunsInv'
<1>1. /\ rows' = {r \in rows : r.id # i} /\ issued' = issued
      /\ index' = [r \in Run |-> IF index[r].ws = i THEN [index[r] EXCEPT !.last = "no", !.alone = "no"]
                                 ELSE index[r]]
      /\ chunks' = [k \in DOMAIN chunks |-> IF \E r \in rows' : r.id = k[1] THEN chunks[k] ELSE 0]
  BY DEF CloseWorkspace, Cascade, Untouched, openVars
<1>2. chunks \in [Id \X AllWindows -> Nat] /\ chunks' \in [Id \X AllWindows -> Nat] /\ issued \subseteq Id
  BY <1>1 DEF RunsInv
<1>3. \A j \in Id, w \in AllWindows : j # i => chunks'[<<j, w>>] = chunks[<<j, w>>]
  <2> SUFFICES ASSUME NEW j \in Id, NEW w \in AllWindows, j # i
               PROVE  chunks'[<<j, w>>] = chunks[<<j, w>>]
    OBVIOUS
  <2>1. <<j, w>> \in DOMAIN chunks /\ chunks[<<j, w>>] \in Nat
    BY <1>2
  <2>2. CASE \E r \in rows : r.id = j
    <3>1. \E r \in rows' : r.id = j
      BY <2>2, <1>1
    <3> QED BY <3>1, <2>1, <1>1
  <2>3. CASE ~\E r \in rows : r.id = j
    <3>1. chunks[<<j, w>>] = 0
      BY <2>1, <2>3 DEF TablesInv, NoOrphanRows, HasRow
    <3>2. ~\E r \in rows' : r.id = j
      BY <2>3, <1>1
    <3> QED BY <3>1, <3>2, <2>1, <1>1
  <2> QED BY <2>2, <2>3
<1>4. ASSUME NEW k \in Run
      PROVE  /\ index'[k] \in RunOf(issued') /\ Shaped(index'[k])
             /\ Covered(index'[k], chunks') /\ Exact(index'[k], chunks')
  <2>0. index[k] \in RunOf(issued) /\ Shaped(index[k])
    BY DEF RunsInv
  <2>1. Weakened(index[k], index'[k])
    BY <1>1 DEF Weakened
  <2>2. index'[k].last = "yes" \/ index'[k].alone = "yes" => index[k].ws # i /\ index'[k] = index[k]
    BY <1>1, <2>0 DEF RunOf
  <2>3. index'[k].last = "yes" \/ index'[k].alone = "yes" =>
          \A w \in AllWindows : chunks'[<<index[k].ws, w>>] = chunks[<<index[k].ws, w>>]
    <3>1. index'[k].last = "yes" \/ index'[k].alone = "yes" => index[k].ws \in Id
      BY <2>0, <2>2, <1>2 DEF Shaped, RunOf
    <3> QED BY <3>1, <2>2, <1>3
  <2> QED BY <2>1, <2>3, <1>1, <1>2, OtherRuns
<1>5. index' \in [Run -> RunOf(issued')]
  BY <1>1, <1>4
<1> QED
  BY <1>1, <1>2, <1>4, <1>5 DEF RunsInv

-----------------------------------------------------------------------------
(* ids *)

\* Who looks up a directory gets the id of its row, or one nobody has.
LEMMA LookUpIds ==
  ASSUME IdsAgree, TermsInv, issued \subseteq Id, NEW c \in Opener, NEW p \in Path, LookUp(c, p)
  PROVE  IdsAgree' /\ TermsInv' /\ issued \subseteq issued' /\ issued' \subseteq Id
<1>1. UNCHANGED <<rows, terms, create>>
  BY DEF LookUp
<1>2. PICK i \in Id, pc \in {"found", "fresh"} :
        /\ open' = [open EXCEPT ![c] = [pc |-> pc, path |-> p, id |-> i]]
        /\ issued' = issued \cup {i}
        /\ \/ \E r \in rows : r.id = i /\ r.path = p
           \/ i \notin issued
  <2>1. CASE IdsFor(p) # {}
    <3>1. PICK i \in IdsFor(p) : open' = [open EXCEPT ![c] = [pc |-> "found", path |-> p, id |-> i]]
                                 /\ issued' = issued
      BY <2>1 DEF LookUp
    <3>2. PICK r \in rows : r.path = p /\ r.id = i
      BY DEF IdsFor
    <3>3. i \in issued /\ i \in Id
      BY <3>2 DEF IdsAgree
    <3> QED BY <3>1, <3>2, <3>3
  <2>2. CASE IdsFor(p) = {}
    BY <2>2 DEF LookUp
  <2> QED BY <2>1, <2>2
<1>3. open' \in [Opener -> [pc: OpenPc, path: Path, id: issued' \cup {NoId}]]
  BY <1>2 DEF IdsAgree, OpenPc
<1>4. rows' \subseteq [id: issued', path: Path]
  BY <1>1, <1>2 DEF IdsAgree
<1>5. /\ open'[c].id = i /\ open'[c].path = p
      /\ \A d \in Opener : d # c => open'[d] = open[d]
  BY <1>2 DEF IdsAgree
<1>6. \A d \in Opener : Pending(d)' => open'[d].id \in issued'
  BY <1>2, <1>5 DEF IdsAgree, Pending
<1>7. \A d \in Opener, r \in rows' : Pending(d)' /\ open'[d].id = r.id => open'[d].path = r.path
  <2> SUFFICES ASSUME NEW d \in Opener, NEW r \in rows, Pending(d)', open'[d].id = r.id
               PROVE  open'[d].path = r.path
    BY <1>1
  <2>1. CASE d = c
    BY <2>1, <1>2, <1>5 DEF IdsAgree
  <2>2. CASE d # c
    BY <2>2, <1>5 DEF IdsAgree, Pending
  <2> QED BY <2>1, <2>2
<1>8. \A d, e \in Opener : Pending(d)' /\ Pending(e)' /\ open'[d].id = open'[e].id =>
        open'[d].path = open'[e].path
  <2>1. ASSUME NEW d \in Opener, d # c, Pending(d)', open'[d].id = i PROVE open'[d].path = p
    BY <2>1, <1>2, <1>5 DEF IdsAgree, Pending
  <2> QED BY <2>1, <1>5 DEF IdsAgree, Pending
<1>9. IdsAgree'
  BY <1>1, <1>3, <1>4, <1>6, <1>7, <1>8 DEF IdsAgree
<1>10. TermsInv'
  <2>1. create' \in [Term -> issued' \cup {NoId}]
    BY <1>1, <1>2 DEF TermsInv
  <2>2. terms' \subseteq [id: Term, ws: issued', open: {"yes", "no"}]
    BY <1>1, <1>2 DEF TermsInv
  <2> QED BY <2>1, <2>2, <1>1 DEF TermsInv
<1> QED
  BY <1>2, <1>9, <1>10

\* The upsert inserts an id that is in no other row.
LEMMA UpsertIds ==
  ASSUME IdsAgree, NEW c \in Opener, Upsert(c)
  PROVE  IdsAgree'
<1> DEFINE row == [id |-> open[c].id, path |-> open[c].path]
<1>1. /\ rows' = IF \E r \in rows : r.path = open[c].path THEN rows ELSE rows \cup {row}
      /\ open' = [open EXCEPT ![c].pc = "done"] /\ issued' = issued
      /\ open[c].id \in issued /\ Pending(c)
  BY DEF Upsert, Upserted, IdsFor, IdsAgree, Pending
<1>2. row \in [id: issued, path: Path] /\ row.id = open[c].id /\ row.path = open[c].path
  BY <1>1 DEF IdsAgree
<1> HIDE DEF row
<1>3. rows' \subseteq [id: issued', path: Path]
  BY <1>1, <1>2 DEF IdsAgree
<1>4. \A q, r \in rows' : (q.id = r.id \/ q.path = r.path) => q = r
  <2>1. ASSUME ~\E r \in rows : r.path = open[c].path, NEW q \in rows
        PROVE  q.id # row.id /\ q.path # row.path
    BY <2>1, <1>1, <1>2 DEF IdsAgree
  <2> QED BY <2>1, <1>1 DEF IdsAgree
<1>5. open' \in [Opener -> [pc: OpenPc, path: Path, id: issued' \cup {NoId}]]
  BY <1>1 DEF IdsAgree, OpenPc
<1>6. \A d \in Opener : /\ Pending(d)' => Pending(d)
                        /\ open'[d].id = open[d].id /\ open'[d].path = open[d].path
  BY <1>1 DEF IdsAgree, Pending
<1>7. \A d \in Opener, r \in rows' : Pending(d)' /\ open'[d].id = r.id => open'[d].path = r.path
  <2> SUFFICES ASSUME NEW d \in Opener, NEW r \in rows', Pending(d), open[d].id = r.id
               PROVE  open[d].path = r.path
    BY <1>6
  <2>1. CASE r \in rows
    BY <2>1 DEF IdsAgree
  <2>2. CASE r = row
    BY <2>2, <1>1, <1>2 DEF IdsAgree
  <2> QED BY <2>1, <2>2, <1>1
<1> QED
  BY <1>1, <1>3, <1>4, <1>5, <1>6, <1>7 DEF IdsAgree

\* Rows may go, and no call changes its mind.
LEMMA CloseIds ==
  ASSUME IdsAgree, TermsInv, rows' \subseteq rows, terms' \subseteq terms,
         UNCHANGED <<open, issued, create>>
  PROVE  IdsAgree' /\ TermsInv'
<1>1. IdsAgree'
  BY DEF IdsAgree, Pending
<1>2. TermsInv'
  BY DEF TermsInv
<1> QED BY <1>1, <1>2

\* A terminal's id is used once.
LEMMA TerminalIds ==
  ASSUME IdsAgree, TermsInv, NEW t \in Term,
         \/ \E i \in Id : CreateTerminal(t, i)
         \/ InsertTerminal(t) \/ CloseTerminal(t)
  PROVE  IdsAgree' /\ TermsInv' /\ UNCHANGED <<chunks, index, issued, opens, runs>>
<1>1. UNCHANGED <<rows, chunks, openVars, indexVars>>
  BY DEF CreateTerminal, InsertTerminal, CloseTerminal
<1>2. IdsAgree'
  BY <1>1 DEF IdsAgree, Pending, openVars
<1>3. CASE \E i \in Id : CreateTerminal(t, i)
  <2>1. PICK i \in Id : CreateTerminal(t, i)
    BY <1>3
  <2>2. i \in issued /\ terms' = terms /\ create' = [create EXCEPT ![t] = i] /\ \A s \in terms : s.id # t
    BY <2>1 DEF CreateTerminal, HasRow, IdsAgree
  <2>3. create' \in [Term -> issued \cup {NoId}]
    BY <2>2 DEF TermsInv
  <2>4. \A u \in Term : create'[u] # NoId => \A s \in terms' : s.id # u
    BY <2>2 DEF TermsInv
  <2> QED BY <1>1, <1>2, <2>2, <2>3, <2>4 DEF TermsInv, openVars, indexVars
<1>4. CASE InsertTerminal(t)
  <2> DEFINE row == [id |-> t, ws |-> create[t], open |-> "yes"]
  <2>1. /\ create[t] # NoId /\ create[t] \in issued /\ create' = [create EXCEPT ![t] = NoId]
        /\ terms' \in {terms, terms \cup {row}} /\ \A s \in terms : s.id # t
    BY <1>4 DEF InsertTerminal, TermsInv
  <2>2. row \in [id: Term, ws: issued, open: {"yes", "no"}] /\ row.id = t
    BY <2>1
  <2> HIDE DEF row
  <2>3. terms' \subseteq [id: Term, ws: issued, open: {"yes", "no"}]
    BY <2>1, <2>2 DEF TermsInv
  <2>4. \A s, u \in terms' : s.id = u.id => s = u
    BY <2>1, <2>2 DEF TermsInv
  <2>5. create' \in [Term -> issued \cup {NoId}]
    BY <2>1 DEF TermsInv
  <2>6. \A u \in Term : create'[u] # NoId => \A s \in terms' : s.id # u
    BY <2>1, <2>2 DEF TermsInv
  <2> QED BY <1>1, <1>2, <2>3, <2>4, <2>5, <2>6 DEF TermsInv, openVars, indexVars
<1>5. CASE CloseTerminal(t)
  <2> DEFINE closed(s) == IF s.id = t THEN [s EXCEPT !.open = "no"] ELSE s
  <2>1. terms' = {closed(s) : s \in terms} /\ create' = create
    BY <1>5 DEF CloseTerminal
  <2>2. ASSUME NEW s \in terms
        PROVE  closed(s) \in [id: Term, ws: issued, open: {"yes", "no"}] /\ closed(s).id = s.id
    BY <2>2 DEF TermsInv
  <2> HIDE DEF closed
  <2>3. terms' \subseteq [id: Term, ws: issued, open: {"yes", "no"}]
    BY <2>1, <2>2
  <2>4. \A s, u \in terms' : s.id = u.id => s = u
    BY <2>1, <2>2 DEF TermsInv
  <2>5. \A u \in Term : create'[u] # NoId => \A s \in terms' : s.id # u
    BY <2>1, <2>2 DEF TermsInv
  <2> QED BY <1>1, <1>2, <2>1, <2>3, <2>4, <2>5 DEF TermsInv, openVars, indexVars
<1> QED
  BY <1>3, <1>4, <1>5

-----------------------------------------------------------------------------
\* Every step keeps ids, types and what the runs of the indexer promise.
LEMMA RegistryInvStep ==
  ASSUME RegistryInv, [RegistryNext]_registryVars
  PROVE  RegistryInv'
<1>0. TablesInv /\ IdsAgree /\ TermsInv /\ RunsInv /\ opens \in 0..MaxOpens /\ runs \in 0..MaxRuns
      /\ MaxOpens \in Nat /\ MaxRuns \in Nat /\ issued \subseteq Id
  BY RegistryAssumption DEF RegistryInv, RunsInv, RegistryAssumption
<1>t. TablesInv'
  BY <1>0, RegistryStep
<1>1. ASSUME NEW c \in Opener, NEW p \in Path, OpenWorkspace(c, p) \/ ScaffoldProject(c, p)
      PROVE  RegistryInv'
  <2>1. LookUp(c, p)
    BY <1>1 DEF OpenWorkspace, ScaffoldProject
  <2>2. IdsAgree' /\ TermsInv' /\ issued \subseteq issued' /\ issued' \subseteq Id
    BY <1>0, <2>1, LookUpIds
  <2>3. UNCHANGED <<chunks, index, runs>> /\ opens' = opens + 1 /\ opens < MaxOpens
    BY <2>1 DEF LookUp, indexVars
  <2>4. RunsInv'
    BY <1>0, <2>2, <2>3, RunsUntouched
  <2>5. opens' \in 0..MaxOpens
    BY <1>0, <2>3
  <2> QED BY <1>0, <1>t, <2>2, <2>3, <2>4, <2>5 DEF RegistryInv
<1>2. ASSUME NEW c \in Opener, Upsert(c) PROVE RegistryInv'
  <2>1. terms' \subseteq terms /\ UNCHANGED <<issued, opens, create, runs>>
    BY <1>0, <1>2, UpsertKeeps DEF Upsert, indexVars
  <2>2. TermsInv'
    BY <1>0, <2>1 DEF TermsInv
  <2> QED BY <1>0, <1>2, <1>t, <2>1, <2>2, UpsertIds, UpsertRuns DEF RegistryInv
<1>3. ASSUME NEW i \in Id, CloseWorkspace(i) PROVE RegistryInv'
  <2>1. rows' \subseteq rows /\ terms' \subseteq terms /\ UNCHANGED <<create, runs, open, issued, opens>>
    BY <1>0, <1>3, CloseKeeps DEF CloseWorkspace, openVars
  <2> QED BY <1>0, <1>3, <1>t, <2>1, CloseIds, CloseRuns DEF RegistryInv
<1>4. ASSUME NEW t \in Term,
             \/ \E i \in Id : CreateTerminal(t, i)
             \/ InsertTerminal(t) \/ CloseTerminal(t)
      PROVE  RegistryInv'
  <2>1. IdsAgree' /\ TermsInv' /\ UNCHANGED <<chunks, index, issued, opens, runs>>
    BY <1>0, <1>4, TerminalIds
  <2>2. RunsInv'
    BY <1>0, <2>1, RunsUntouched
  <2> QED BY <1>0, <1>t, <2>1, <2>2 DEF RegistryInv
<1>i. ASSUME UNCHANGED <<rows, terms, open, issued, create, opens>>, RunsInv', runs' \in 0..MaxRuns
      PROVE  RegistryInv'
  <2>1. IdsAgree' /\ TermsInv'
    BY <1>0, <1>i, CloseIds
  <2> QED BY <1>0, <1>i, <1>t, <2>1 DEF RegistryInv
<1>5. ASSUME NEW r \in Run, NEW i \in Id, IndexWorkspace(r, i) PROVE RegistryInv'
  <2>1. UNCHANGED <<rows, terms, open, issued, create, opens>> /\ runs' \in 0..MaxRuns
    BY <1>0, <1>5 DEF IndexWorkspace, openVars
  <2> QED BY <1>0, <1>5, <1>i, <2>1, IndexWorkspaceRuns
<1>6. ASSUME NEW r \in Run,
             \/ \E f \in File : ReadFile(r, f) \/ ReadFails(r, f)
             \/ \E w \in AllWindows : TakeWindow(r, w)
             \/ ClearIndex(r) \/ LastFlush(r) \/ InsertChunk(r) \/ IndexFails(r) \/ Finish(r)
      PROVE  RegistryInv'
  <2>1. UNCHANGED <<rows, terms, open, issued, create, opens, runs>>
    BY <1>6 DEF ReadFile, ReadFails, TakeWindow, ClearIndex, LastFlush, InsertChunk, IndexFails, Finish, openVars
  <2>2. RunsInv'
    BY <1>0, <1>6, ReadFileRuns, ReadFailsRuns, TakeWindowRuns, ClearIndexRuns, StageRuns, InsertChunkRuns
  <2> QED BY <1>0, <1>i, <2>1, <2>2
<1>7. CASE RegistryRestart \/ RegistryRestartAnew
  <2>1. /\ UNCHANGED <<issued, opens, runs>>
        /\ open' = [c \in Opener |-> Idle] /\ create' = [t \in Term |-> NoId]
        /\ index' = [r \in Run |-> Resting]
        /\ \/ UNCHANGED <<rows, terms, chunks>>
           \/ rows' = {} /\ terms' = {} /\ chunks' = NoChunks
    BY <1>7 DEF RegistryRestart, RegistryRestartAnew, DaemonStops
  <2>2. Idle \in [pc: OpenPc, path: Path, id: issued \cup {NoId}] /\ Idle.pc = "idle"
    BY RegistryAssumption DEF Idle, OpenPc, RegistryAssumption
  <2>3. IdsAgree'
    BY <1>0, <2>1, <2>2 DEF IdsAgree, Pending
  <2>4. TermsInv'
    BY <1>0, <2>1 DEF TermsInv
  <2>5. chunks' \in [Id \X AllWindows -> Nat]
    BY <1>0, <2>1 DEF RunsInv, NoChunks
  <2>6. /\ Resting \in RunOf(issued) /\ Shaped(Resting)
        /\ Covered(Resting, chunks') /\ Exact(Resting, chunks')
    BY RestingRun, UnmarkedRun DEF Resting
  <2>7. RunsInv'
    BY <1>0, <2>1, <2>5, <2>6 DEF RunsInv
  <2> QED BY <1>0, <1>t, <2>1, <2>3, <2>4, <2>7 DEF RegistryInv
<1>8. CASE UNCHANGED registryVars
  <2>1. UNCHANGED <<rows, terms, chunks, issued, open, create, index, opens, runs>>
    BY <1>8 DEF registryVars
  <2>2. RunsInv'
    BY <1>0, <2>1, RunsUntouched
  <2> QED BY <1>0, <1>i, <2>1, <2>2
<1> QED
  BY <1>1, <1>2, <1>3, <1>4, <1>5, <1>6, <1>7, <1>8 DEF RegistryNext

\* At first there is nothing to disagree about.
LEMMA RegistryInitAll ==
  RegistryInit => RegistryInv
<1> SUFFICES ASSUME RegistryInit PROVE RegistryInv
  OBVIOUS
<1>1. TablesInv
  BY RegistryInitInv
<1>2. Idle \in [pc: OpenPc, path: Path, id: issued \cup {NoId}] /\ Idle.pc = "idle"
  BY RegistryAssumption DEF Idle, OpenPc, RegistryAssumption
<1>3. IdsAgree
  BY <1>2 DEF RegistryInit, IdsAgree, Pending
<1>4. TermsInv
  BY DEF RegistryInit, TermsInv
<1>5. chunks \in [Id \X AllWindows -> Nat] /\ issued \subseteq Id
  BY DEF RegistryInit, NoChunks
<1>6. RunsInv
  BY <1>5, RestingRun DEF RegistryInit, RunsInv
<1>7. opens \in 0..MaxOpens /\ runs \in 0..MaxRuns
  BY RegistryAssumption DEF RegistryInit, RegistryAssumption
<1> QED
  BY <1>1, <1>3, <1>4, <1>6, <1>7 DEF RegistryInv

\* So the invariant holds throughout.
LEMMA RegistryAlways == RegistrySpec => []RegistryInv
BY RegistryInitAll, RegistryInvStep, PTL DEF RegistrySpec

\* The tables, the calls and the runs of the indexer have their types: a path and
\* an id have one row, though no call looks again before it inserts.
THEOREM RegistryTypeCorrect == RegistrySpec => []RegistryTypeOK
<1>1. RegistryInv => RegistryTypeOK
  BY DEF RegistryInv, IdsAgree, TermsInv, RunsInv, RunOf, Shaped, RegistryTypeOK
<1> QED BY <1>1, RegistryAlways, PTL

\* A step that is neither a closing nor a new database takes no row, and none
\* that hangs on it; and no chunk but by clearing the workspace.
LEMMA StepTakesNothing ==
  ASSUME RegistryInv, RegistryNext
  PROVE  TakesNothing
<1>0. /\ TablesInv /\ TablesTypeOK /\ NoOrphanRows
      /\ DOMAIN chunks = Id \X AllWindows /\ \A k \in DOMAIN chunks : chunks[k] \in Nat
  BY DEF RegistryInv, RunsInv, TablesInv
<1>1. ASSUME UNCHANGED <<rows, terms>>,
             \A k \in DOMAIN chunks : chunks'[k] < chunks[k] => Clears(k[1])
      PROVE  TakesNothing
  BY <1>1 DEF TakesNothing
<1>n. ASSUME UNCHANGED <<rows, terms, chunks>> PROVE TakesNothing
  <2>1. \A k \in DOMAIN chunks : ~(chunks'[k] < chunks[k])
    BY <1>0, <1>n
  <2> QED BY <1>1, <1>n, <2>1
<1>2. ASSUME NEW c \in Opener, NEW p \in Path, OpenWorkspace(c, p) \/ ScaffoldProject(c, p)
      PROVE  TakesNothing
  BY <1>2, <1>n DEF OpenWorkspace, ScaffoldProject, LookUp
<1>3. ASSUME NEW c \in Opener, Upsert(c) PROVE TakesNothing
  <2>1. /\ rows \subseteq rows' /\ terms' = {t \in terms : \E q \in rows' : q.id = t.ws}
        /\ chunks' = [k \in DOMAIN chunks |-> IF \E r \in rows' : r.id = k[1] THEN chunks[k] ELSE 0]
    BY <1>0, <1>3, UpsertKeeps DEF Upsert, Cascade
  <2>2. terms \subseteq terms'
    BY <1>0, <2>1 DEF NoOrphanRows, HasRow
  <2>3. \A k \in DOMAIN chunks : ~(chunks'[k] < chunks[k])
    BY <1>0, <2>1 DEF NoOrphanRows, HasRow
  <2> QED BY <2>1, <2>2, <2>3 DEF TakesNothing
<1>4. ASSUME NEW i \in Id, CloseWorkspace(i) PROVE TakesNothing
  <2>1. RowGoes(i)
    BY <1>4 DEF RowGoes
  <2>2. /\ rows' = {r \in rows : r.id # i}
        /\ terms' = {t \in terms : \E q \in rows' : q.id = t.ws}
        /\ chunks' = [k \in DOMAIN chunks |-> IF \E r \in rows' : r.id = k[1] THEN chunks[k] ELSE 0]
    BY <1>4 DEF CloseWorkspace, Cascade
  <2>3. \A r \in rows : r \notin rows' => r.id = i
    BY <2>2
  <2>4. \A t \in terms : t.ws = i \/ t \in terms'
    BY <1>0, <2>2 DEF NoOrphanRows, HasRow
  <2>5. \A k \in DOMAIN chunks : chunks'[k] < chunks[k] => k[1] = i
    <3> SUFFICES ASSUME NEW k \in DOMAIN chunks, k[1] # i PROVE ~(chunks'[k] < chunks[k])
      OBVIOUS
    <3>1. chunks[k] > 0 => \E r \in rows' : r.id = k[1]
      BY <1>0, <2>2 DEF NoOrphanRows, HasRow
    <3> QED BY <1>0, <2>2, <3>1
  <2> HIDE DEF TakesNothing
  <2>6. \A r \in rows : r \notin rows' => RowGoes(r.id)
    BY <2>1, <2>3
  <2>7. \A t \in terms : RowGoes(t.ws) \/ \E s \in terms' : s.id = t.id /\ s.ws = t.ws
    BY <2>1, <2>4
  <2>8. \A k \in DOMAIN chunks : chunks'[k] < chunks[k] => RowGoes(k[1])
    BY <2>1, <2>5
  <2> QED BY <2>6, <2>7, <2>8 DEF TakesNothing
<1>5. ASSUME NEW t \in Term,
             \/ \E i \in Id : CreateTerminal(t, i)
             \/ InsertTerminal(t) \/ CloseTerminal(t)
      PROVE  TakesNothing
  <2>1. /\ rows' = rows /\ \A s \in terms : \E u \in terms' : u.id = s.id /\ u.ws = s.ws
    BY <1>0, <1>5, TerminalKeeps
  <2>2. chunks' = chunks
    BY <1>5 DEF CreateTerminal, InsertTerminal, CloseTerminal
  <2>3. \A k \in DOMAIN chunks : ~(chunks'[k] < chunks[k])
    BY <1>0, <2>2
  <2> QED BY <2>1, <2>3 DEF TakesNothing
<1>6. ASSUME NEW r \in Run,
             \/ \E i \in Id : IndexWorkspace(r, i)
             \/ \E f \in File : ReadFile(r, f) \/ ReadFails(r, f)
             \/ \E w \in AllWindows : TakeWindow(r, w)
             \/ ClearIndex(r) \/ LastFlush(r)
             \/ InsertChunk(r) \/ IndexFails(r) \/ Finish(r)
      PROVE  TakesNothing
  <2>1. UNCHANGED <<rows, terms>> /\ (ClearIndex(r) \/ InsertChunk(r) \/ chunks' = chunks)
    BY <1>0, <1>6, IndexKeeps
  <2>2. CASE ClearIndex(r)
    <3>1. chunks' = [k \in DOMAIN chunks |-> IF k[1] = index[r].ws THEN 0 ELSE chunks[k]]
      BY <2>2 DEF ClearIndex, Cleared
    <3>2. \A k \in DOMAIN chunks : chunks'[k] < chunks[k] => k[1] = index[r].ws
      BY <1>0, <3>1
    <3>3. \A k \in DOMAIN chunks : chunks'[k] < chunks[k] => Clears(k[1])
      BY <2>2, <3>2 DEF Clears
    <3> QED BY <1>1, <2>1, <3>3
  <2>3. CASE InsertChunk(r)
    <3> DEFINE key == <<index[r].ws, Head(index[r].batch)>>
    <3>1. chunks' = [chunks EXCEPT ![key] = @ + 1]
      BY <2>3 DEF InsertChunk
    <3> HIDE DEF key
    <3>2. \A k \in DOMAIN chunks : ~(chunks'[k] < chunks[k])
      BY <1>0, <3>1
    <3> QED BY <1>1, <2>1, <3>2
  <2>4. CASE chunks' = chunks
    BY <1>n, <2>1, <2>4
  <2> QED BY <2>1, <2>2, <2>3, <2>4
<1>7. CASE RegistryRestart
  BY <1>7, <1>n DEF RegistryRestart
<1>8. CASE RegistryRestartAnew
  <2>1. \A i : RowGoes(i)
    BY <1>8 DEF RowGoes
  <2> QED BY <2>1 DEF TakesNothing
<1> QED
  BY <1>2, <1>3, <1>4, <1>5, <1>6, <1>7, <1>8 DEF RegistryNext

\* Opening a workspace again takes nothing away from it: its row, its id and its
\* terminals go only when it is closed or the daemon starts on a new database, and
\* its chunks only then or when a run of the indexer clears them.
THEOREM ReopeningKeeps == RegistrySpec => ReopeningKeepsAll
<1>1. RegistryInv /\ [RegistryNext]_registryVars => [TakesNothing]_registryVars
  BY StepTakesNothing
<1> QED
  BY <1>1, RegistryAlways, PTL DEF RegistrySpec, ReopeningKeepsAll

\* When a run of the indexer has reported that it is done, every line of every file
\* it could read and took for text is in a chunk in the table, however runs and
\* closings overlap, unless another run has cleared the index since.
THEOREM DoneCovers == RegistrySpec => []DoneMeansCovered
<1>1. RegistryInv => DoneMeansCovered
  <2> SUFFICES ASSUME RegistryInv, NEW r \in Run, index[r].pc = "finished", index[r].last = "yes",
                      NEW f \in File \ index[r].skipped, NEW k \in TextLines(f)
               PROVE  \E w \in ChunksOf(index[r].ws) : w.file = f /\ w.first <= k /\ k <= w.end
    BY DEF DoneMeansCovered
  <2>1. Shaped(index[r]) /\ Covered(index[r], chunks)
    BY DEF RegistryInv, RunsInv
  <2>2. index[r].todo = {} /\ \A w : ~Coming(index[r], w)
    BY <2>1 DEF Shaped, Coming
  <2>3. PICK w \in Windows(f) : w.first <= k /\ k <= w.end /\ chunks[<<index[r].ws, w>>] > 0
    BY <2>1, <2>2 DEF Covered
  <2> QED BY <2>3, WindowsType DEF ChunksOf
<1> QED BY <1>1, RegistryAlways, PTL

\* A run that nobody got in the way of leaves no chunk twice.
THEOREM LoneRunsExact == RegistrySpec => []LoneRunExact
<1>1. RegistryInv => LoneRunExact
  BY DEF RegistryInv, RunsInv, Exact, LoneRunExact
<1> QED BY <1>1, RegistryAlways, PTL
=============================================================================
