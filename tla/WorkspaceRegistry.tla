------------------------- MODULE WorkspaceRegistry -------------------------
(***************************************************************************)
(* The tables of the daemon's database that refer to a workspace's row, and *)
(* the calls that open, close, index and use it                            *)
(* (crates/usta-daemon/src/main.rs, crates/usta-core/src/db.rs,            *)
(* crates/usta-index/src/).  The tables events and chat_messages name a    *)
(* workspace without referring to its row, stay when it is closed, and are *)
(* not modelled here.                                                      *)
(*                                                                         *)
(* The database has one connection behind a lock, taken anew for each      *)
(* statement: an action is one statement, and calls interleave in between. *)
(*                                                                         *)
(*   rows     the table workspaces                                         *)
(*   terms    the table terminals                                          *)
(*   chunks   the table chunks: how often each chunk is in it              *)
(*   issued   workspace ids given out so far (uuids: never twice)          *)
(*   open     the calls that open a workspace                              *)
(*   create   the calls that create a terminal, by the terminal's id       *)
(*   index    the runs of the indexer:                                     *)
(*     todo   files it has not walked over yet                             *)
(*     rest   windows of the file it has read, not in the batch yet; the   *)
(*            first of them is the next                                    *)
(*     batch  windows to be embedded, and then inserted one by one         *)
(*   and, for the properties only,                                         *)
(*     skipped  texts this run could not read                              *)
(*     last   has nobody cleared the workspace's chunks since this run did? *)
(*     alone  and has nobody inserted any either?                          *)
(***************************************************************************)
EXTENDS Naturals, Sequences

CONSTANTS
  Path,      \* directories that can be opened
  Id,        \* workspace ids
  Term,      \* terminal ids
  File,      \* files of each directory, as the walker yields them
  Lines,     \* their lines, text or blank; or Binary, for those the indexer takes
             \* for no text: all that is no UTF-8, and some texts of over 8 KiB
  Window, Overlap,  \* of the chunker, in lines
  Batch,     \* chunks embedded at once
  Opener, Run,      \* calls at the same time
  MaxOpens, MaxRuns,  \* bounds
  Binary, NoId

ASSUME RegistryAssumption ==
  /\ Lines \in [File -> Seq({"text", "blank"}) \cup {Binary}]
  /\ Window \in Nat /\ Overlap \in Nat /\ Overlap < Window
  /\ Batch \in Nat \ {0}
  /\ MaxOpens \in Nat /\ MaxRuns \in Nat
  /\ Path # {} /\ NoId \notin Id

VARIABLES rows, terms, chunks, issued, open, create, index, opens, runs

registryVars == <<rows, terms, chunks, issued, open, create, index, opens, runs>>
openVars == <<open, opens, issued>>
indexVars == <<index, runs>>

\* Mutant of Windows: the rest of a file shorter than a window is dropped.
WindowsWhole(f) ==
  IF Lines[f] = Binary THEN {}
  ELSE LET step == Window - Overlap
           starts == {i \in {j * step : j \in 0..Len(Lines[f])} : i + Window <= Len(Lines[f])}
       IN {[file |-> f, first |-> i + 1, end |-> i + Window] : i \in starts}

\* chunk: windows that overlap, up to the first that ends with the file; those
\* with nothing but blanks are skipped. (is_probably_text skips whole files, and
\* among them texts whose first 8192 bytes end inside a character.)
Windows(f) ==
  IF Lines[f] = Binary THEN {}
  ELSE LET n == Len(Lines[f])
           step == Window - Overlap
           end(i) == IF i + Window <= n THEN i + Window ELSE n
           starts == {i \in {j * step : j \in 0..n} : i < n /\ (i = 0 \/ end(i - step) < n)}
       IN {[file |-> f, first |-> i + 1, end |-> end(i)] :
             i \in {j \in starts : \E k \in j + 1..end(j) : Lines[f][k] = "text"}}

AllWindows == UNION {Windows(f) : f \in File}
NoChunks == [k \in Id \X AllWindows |-> 0]

HasRow(id) == \E r \in rows : r.id = id
IdsFor(p) == {r.id : r \in {q \in rows : q.path = p}}

Idle == [pc |-> "idle", path |-> CHOOSE p \in Path : TRUE, id |-> NoId]
Resting == [pc |-> "idle", ws |-> NoId, todo |-> {}, rest |-> {}, batch |-> <<>>,
            flush |-> "no", skipped |-> {}, last |-> "no", alone |-> "no"]

RegistryInit ==
  /\ rows = {} /\ terms = {}
  /\ chunks = NoChunks
  /\ issued = {}
  /\ open = [c \in Opener |-> Idle]
  /\ create = [t \in Term |-> NoId]
  /\ index = [r \in Run |-> Resting]
  /\ opens = 0 /\ runs = 0

OpenPc == {"idle", "found", "fresh", "done"}
RunPc == {"idle", "found", "walking", "finished"}

RegistryTypeOK ==
  /\ rows \subseteq [id: issued, path: Path]
  /\ \A q, r \in rows : (q.id = r.id \/ q.path = r.path) => q = r
  /\ terms \subseteq [id: Term, ws: issued, open: {"yes", "no"}]
  /\ \A s, t \in terms : s.id = t.id => s = t
  /\ chunks \in [Id \X AllWindows -> Nat]
  /\ issued \subseteq Id
  /\ open \in [Opener -> [pc: OpenPc, path: Path, id: issued \cup {NoId}]]
  /\ create \in [Term -> issued \cup {NoId}]
  /\ index \in [Run -> [pc: RunPc, ws: issued \cup {NoId}, todo: SUBSET File,
                       rest: SUBSET AllWindows, batch: Seq(AllWindows),
                       flush: {"yes", "no"}, skipped: SUBSET File,
                       last: {"yes", "no"}, alone: {"yes", "no"}]]
  /\ \A r \in Run : Len(index[r].batch) <= Batch
  /\ opens \in 0..MaxOpens /\ runs \in 0..MaxRuns

-----------------------------------------------------------------------------
\* get_workspace_by_path; if there is no row, a new id.
LookUp(c, p) ==
  /\ open[c].pc \in {"idle", "done"}
  /\ opens < MaxOpens /\ opens' = opens + 1
  /\ IF IdsFor(p) # {}
       THEN /\ \E i \in IdsFor(p) : open' = [open EXCEPT ![c] = [pc |-> "found", path |-> p, id |-> i]]
            /\ UNCHANGED issued
       ELSE \E i \in Id \ issued :
              /\ open' = [open EXCEPT ![c] = [pc |-> "fresh", path |-> p, id |-> i]]
              /\ issued' = issued \cup {i}
  /\ UNCHANGED <<rows, terms, chunks, create, indexVars>>

OpenWorkspace(c, p) == LookUp(c, p)

\* Its second half, once the role files are written.
ScaffoldProject(c, p) == LookUp(c, p)

\* Mutant of Upserted: INSERT OR REPLACE.
Replaced(id, p) == {r \in rows : r.path # p} \cup {[id |-> id, path |-> p]}

\* Mutant of Upserted: a plain INSERT, into a table that has no UNIQUE(path).
Inserted(id, p) == rows \cup {[id |-> id, path |-> p]}

\* ON CONFLICT(path) DO UPDATE: the row that is there stays, but for its date.
Upserted(id, p) ==
  IF IdsFor(p) # {} THEN rows ELSE rows \cup {[id |-> id, path |-> p]}

\* What a row takes with it when it goes.
Cascade(left) ==
  /\ terms' = {t \in terms : \E r \in left : r.id = t.ws}
  /\ chunks' = [k \in DOMAIN chunks |-> IF \E r \in left : r.id = k[1] THEN chunks[k] ELSE 0]

\* upsert_workspace, and the answer: the id that was looked up.
Upsert(c) ==
  /\ open[c].pc \in {"found", "fresh"}
  /\ rows' = Upserted(open[c].id, open[c].path)
  /\ Cascade(rows')
  /\ open' = [open EXCEPT ![c].pc = "done"]
  /\ UNCHANGED <<issued, opens, create, indexVars>>

Untouched(i) ==
  [r \in Run |-> IF index[r].ws = i THEN [index[r] EXCEPT !.last = "no", !.alone = "no"]
                 ELSE index[r]]

\* Mutant of CloseWorkspace: no PRAGMA foreign_keys.
CloseKeepsRest(i) ==
  /\ HasRow(i)
  /\ rows' = {r \in rows : r.id # i}
  /\ index' = Untouched(i)
  /\ UNCHANGED <<terms, chunks, create, runs, openVars>>

\* Whatever runs in the workspace goes on; its files stay, the rows go.
CloseWorkspace(i) ==
  /\ HasRow(i)
  /\ rows' = {r \in rows : r.id # i}
  /\ Cascade(rows')
  /\ index' = Untouched(i)
  /\ UNCHANGED <<create, runs, openVars>>

-----------------------------------------------------------------------------
\* create_terminal finds the workspace and starts the child ...
CreateTerminal(t, i) ==
  /\ create[t] = NoId /\ \A s \in terms : s.id # t
  /\ HasRow(i)
  /\ create' = [create EXCEPT ![t] = i]
  /\ UNCHANGED <<rows, terms, chunks, openVars, indexVars>>

\* ... and then inserts the row, which is refused if the workspace has been
\* closed (the child runs on, in no table).
InsertTerminal(t) ==
  /\ create[t] # NoId
  /\ terms' = IF HasRow(create[t])
                THEN terms \cup {[id |-> t, ws |-> create[t], open |-> "yes"]} ELSE terms
  /\ create' = [create EXCEPT ![t] = NoId]
  /\ UNCHANGED <<rows, chunks, openVars, indexVars>>

CloseTerminal(t) ==
  /\ \E s \in terms : s.id = t /\ s.open = "yes"
  /\ terms' = {IF s.id = t THEN [s EXCEPT !.open = "no"] ELSE s : s \in terms}
  /\ UNCHANGED <<rows, chunks, create, openVars, indexVars>>

-----------------------------------------------------------------------------
\* index_workspace of the daemon finds the row.
IndexWorkspace(r, i) ==
  /\ index[r].pc \in {"idle", "finished"}
  /\ HasRow(i)
  /\ runs < MaxRuns /\ runs' = runs + 1
  /\ index' = [index EXCEPT ![r] = [Resting EXCEPT !.pc = "found", !.ws = i]]
  /\ UNCHANGED <<rows, terms, chunks, create, openVars>>

Disturbs(r, field, after) ==
  [k \in Run |->
    IF k = r \/ after[k].ws # after[r].ws THEN after[k]
    ELSE IF field = "clear" THEN [after[k] EXCEPT !.last = "no", !.alone = "no"]
    ELSE [after[k] EXCEPT !.alone = "no"]]

\* Mutant of Cleared: the chunks of the run before stay.
ClearedNothing(i) == chunks

Cleared(i) == [k \in DOMAIN chunks |-> IF k[1] = i THEN 0 ELSE chunks[k]]

\* clear_index, and then the walk begins.
ClearIndex(r) ==
  /\ index[r].pc = "found"
  /\ chunks' = Cleared(index[r].ws)
  /\ index' = Disturbs(r, "clear",
       [index EXCEPT ![r].pc = "walking", ![r].todo = File, ![r].last = "yes", ![r].alone = "yes"])
  /\ UNCHANGED <<rows, terms, create, runs, openVars>>

\* The next file; one that is taken for no text has no windows.
ReadFile(r, f) ==
  /\ index[r].pc = "walking" /\ index[r].flush = "no" /\ index[r].rest = {}
  /\ f \in index[r].todo
  /\ index' = [index EXCEPT ![r].todo = @ \ {f}, ![r].rest = Windows(f)]
  /\ UNCHANGED <<rows, terms, chunks, create, runs, openVars>>

\* A text that is gone since, or cannot be read, is skipped, and the run goes on.
\* (Of what is no text ReadFile takes nothing either.)
ReadFails(r, f) ==
  /\ index[r].pc = "walking" /\ index[r].flush = "no" /\ index[r].rest = {}
  /\ f \in index[r].todo /\ Lines[f] # Binary
  /\ index' = [index EXCEPT ![r].todo = @ \ {f}, ![r].skipped = @ \cup {f}]
  /\ UNCHANGED <<rows, terms, chunks, create, runs, openVars>>

\* The next window of a file goes into the batch; a full batch is flushed.
TakeWindow(r, w) ==
  /\ index[r].pc = "walking" /\ index[r].flush = "no"
  /\ w \in index[r].rest /\ \A v \in index[r].rest : w.first <= v.first
  /\ index' = [index EXCEPT ![r].batch = Append(@, w),
                            ![r].rest = @ \ {w},
                            ![r].flush = IF Len(index[r].batch) + 1 >= Batch THEN "yes" ELSE "no"]
  /\ UNCHANGED <<rows, terms, chunks, create, runs, openVars>>

AllRead(r) ==
  index[r].pc = "walking" /\ index[r].flush = "no" /\ index[r].todo = {} /\ index[r].rest = {}

\* The last flush, of what there is.
LastFlush(r) ==
  /\ AllRead(r) /\ index[r].batch # <<>>
  /\ index' = [index EXCEPT ![r].flush = "yes"]
  /\ UNCHANGED <<rows, terms, chunks, create, runs, openVars>>

\* insert_chunk, while the workspace has its row.
InsertChunk(r) ==
  /\ index[r].flush = "yes" /\ HasRow(index[r].ws)
  /\ chunks' = [chunks EXCEPT ![<<index[r].ws, Head(index[r].batch)>>] = @ + 1]
  /\ index' = Disturbs(r, "insert",
       [index EXCEPT ![r].batch = Tail(@), ![r].flush = IF Len(index[r].batch) = 1 THEN "no" ELSE "yes"])
  /\ UNCHANGED <<rows, terms, create, runs, openVars>>

\* The embedder fails, or an insert does: always, once the workspace is closed.
IndexFails(r) ==
  /\ index[r].flush = "yes"
  /\ index' = [index EXCEPT ![r] = Resting]
  /\ UNCHANGED <<rows, terms, chunks, create, runs, openVars>>

Finish(r) ==
  /\ AllRead(r) /\ index[r].batch = <<>>
  /\ index' = [index EXCEPT ![r].pc = "finished"]
  /\ UNCHANGED <<rows, terms, chunks, create, runs, openVars>>

\* The daemon stops, and its calls with it.
DaemonStops ==
  /\ open' = [c \in Opener |-> Idle]
  /\ create' = [t \in Term |-> NoId]
  /\ index' = [r \in Run |-> Resting]
  /\ UNCHANGED <<issued, opens, runs>>

RegistryRestart == DaemonStops /\ UNCHANGED <<rows, terms, chunks>>

\* Db::open cannot open the database, moves it away and begins a new one.
RegistryRestartAnew ==
  DaemonStops /\ rows' = {} /\ terms' = {} /\ chunks' = NoChunks

RegistryNext ==
  \/ \E c \in Opener, p \in Path : OpenWorkspace(c, p) \/ ScaffoldProject(c, p)
  \/ \E c \in Opener : Upsert(c)
  \/ \E i \in Id : CloseWorkspace(i)
  \/ \E t \in Term, i \in Id : CreateTerminal(t, i)
  \/ \E t \in Term : InsertTerminal(t) \/ CloseTerminal(t)
  \/ \E r \in Run, i \in Id : IndexWorkspace(r, i)
  \/ \E r \in Run, f \in File : ReadFile(r, f) \/ ReadFails(r, f)
  \/ \E r \in Run, w \in AllWindows : TakeWindow(r, w)
  \/ \E r \in Run : ClearIndex(r) \/ LastFlush(r)
                    \/ InsertChunk(r) \/ IndexFails(r) \/ Finish(r)
  \/ RegistryRestart \/ RegistryRestartAnew

RegistrySpec == RegistryInit /\ [][RegistryNext]_registryVars

-----------------------------------------------------------------------------
\* "Reuse existing row if any": opening a workspace again, scaffolding over it,
\* or both at once, takes nothing away from it. A workspace's row goes, and its
\* id with it, only when it is closed (or the daemon starts on a new database), a
\* terminal only with the row, and a chunk only with the row or when a run of the
\* indexer clears that workspace.
RowGoes(i) == CloseWorkspace(i) \/ RegistryRestartAnew
Clears(i) == \E r \in Run : index[r].ws = i /\ ClearIndex(r)

TakesNothing ==
  /\ \A r \in rows : r \notin rows' => RowGoes(r.id)
  /\ \A t \in terms : RowGoes(t.ws) \/ \E s \in terms' : s.id = t.id /\ s.ws = t.ws
  /\ \A k \in DOMAIN chunks : chunks'[k] < chunks[k] => RowGoes(k[1]) \/ Clears(k[1])

ReopeningKeepsAll == [][TakesNothing]_registryVars

\* No terminal and no chunk outlives the row of its workspace, though terminals
\* are created and chunks inserted by calls that looked it up before it was
\* closed.
NoOrphanRows ==
  /\ \A t \in terms : HasRow(t.ws)
  /\ \A k \in DOMAIN chunks : chunks[k] > 0 => HasRow(k[1])

ChunksOf(i) == {w \in AllWindows : chunks[<<i, w>>] > 0}
TextLines(f) == IF Lines[f] = Binary THEN {} ELSE {k \in DOMAIN Lines[f] : Lines[f][k] = "text"}

\* Once a run has reported that it is done, every line of every file it could read
\* and took for text can be found, whatever other runs of the same workspace do at
\* the same time, as long as none of them clears the index after this one did.
\* (Of the files it skipped the report says nothing.)
DoneMeansCovered ==
  \A r \in Run : (index[r].pc = "finished" /\ index[r].last = "yes") =>
    \A f \in File \ index[r].skipped : \A k \in TextLines(f) :
      \E w \in ChunksOf(index[r].ws) : w.file = f /\ w.first <= k /\ k <= w.end

\* And no chunk is found twice if no other run got in between; what an earlier
\* run left behind, finished or not, is gone.
LoneRunExact ==
  \A r \in Run : (index[r].pc = "finished" /\ index[r].alone = "yes") =>
    \A w \in AllWindows : chunks[<<index[r].ws, w>>] <= 1

=============================================================================
