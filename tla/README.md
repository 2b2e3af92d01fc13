# A formal model of Usta

Usta is a macOS application and a daemon, `ustad`, that run a team of AI roles
on one project. The roles work in terminals or chats and coordinate through an
event bus in the daemon's SQLite database. This directory models the parts of
the daemon whose correctness depends on the order of events: TLA+ modules, the
TLC configurations that check them on small instances, and proofs, checked by
TLAPS, that hold for every instance.

Paths below are relative to `crates/`; `main.rs` alone is
`usta-daemon/src/main.rs`.

## 1. Inventory

| Component | Code | State | Operations | What is hard | Correct when |
|---|---|---|---|---|---|
| Event bus, headless fan-out | `main.rs` 586-802, 1995-2015, 2805-2902; `usta-core/src/db.rs` 488-558 | `events` table, running turns | `publish_event`, `list_events`, `dispatch_event`, `run_role_headless` | subscription cycles; lost callers; restarts between insert and turns; late inserts | an outside event wakes its audience once; nothing cascades; an event that is recorded stays as it is, until the database as a whole is made anew |
| Idle watcher | `main.rs` 161-532 | `last_fired` in memory; reads `terminals`, `term_log`, `events`, file times | one loop, every 10 s | every read is a separate await; restarts; a panic that ends the loop; clock stamps out of order; text heuristics | what a terminal claims reaches the bus once, in the role's name, and only if declared, as long as the loop lives |
| MCP server | `usta-mcp/src/main.rs` | one request at a time | `publish_event`, `list_events`, `wait_for_event` | timeout against a late event; agents waiting for each other | a wait returns the first new match or times out; nothing twice |
| Tool calls, approvals | `usta-daemon/src/toolexec.rs`; `main.rs` 740-759, 1913-1983, 2904-2913; `usta-providers/src/anthropic.rs` 309-463 | approvals map, one-shot channels, the agent loop | gate, ask, `approve_tool`, execute | answers that are late, repeated, or for another run; clients that leave; commands that never end | nothing acts without its own licence; only people and commands hold up a run |
| Role chat | `main.rs` 1808-2030 | the stream | stream, tools, handoffs | dropped streams | as the two above |
| PM | `usta-pm/src/*.rs`; `main.rs` 605-665, 2930-3120 | role YAML, PM tasks | propose, refine, analyze, orchestrate issue / feature, regenerate kickoff | feeds the bus it reacts to; read-modify-write over an LLM call; a model's spelling of topics against exact matching | does not feed itself; changes kickoffs and nothing else; its topic graph wakes whom it meant |
| Roles | `usta-roles/src/lib.rs`; `main.rs` 76-113, 974-984, 1163-1189, 2095-2252, 2489-2561, 2657-2706 | YAML files in three layers | load, add, delete, apply, scaffold, import, export | files rewritten by several tasks, without locks and not atomically; removals that fail unnoticed | a workspace's role is never shadowed; a replacement leaves its team, and besides it only files it could not remove |
| Registry, database | `usta-core/src/db.rs`, `workspace.rs`; `main.rs` 1215-1293 | SQLite tables | open, close, list | check-then-insert; cascades under running work; a database made anew | one row per path; opening again loses nothing; no terminal or chunk outlives its workspace |
| Terminals, PTY | `usta-core/src/pty.rs`; `main.rs` 1360-1725 | scrollback, 256-chunk broadcast channel, mirror task | create, stream, close, replay | lag; subscribe and snapshot; exit against the last output; writes whose errors are ignored | a client sees every byte in order or is told of a gap; the log has no hole but a failed write's |
| Providers | `usta-providers/src/*.rs` | rate-limit snapshot, semaphore | chat, agent loop, retry | stale snapshot; streams cut short | gate respected; bounded retries |
| Indexer | `usta-index/src/*.rs`; `main.rs` 1727-1772 | `chunks` table | clear, walk, chunk, embed, insert | concurrent runs; a workspace closed meanwhile; files that cannot be read | what is done covers every line of the texts it could read; a run alone leaves one copy of each chunk |
| Costs | `usta-daemon/src/costs.rs`; `main.rs` 2611-2654 | none: logs of the CLI agents, terminals | scan, attribute, add | two sources read one after the other, tied by time only; sessions taken up again by `--continue`; a cap on what is read | every token of a log that is opened once; to the role that spent it; the past stays |
| Skills, tools | `usta-core/src/skills.rs`, `tools.rs` | static tables | render | - | - |
| CLI, daemon start-up, the app's spawner | `usta-cli/src/*.rs`; `main.rs` 1087, 3181-3246; `apps/mac/.../DaemonSpawner.swift`, `App.swift` | pid file, socket file, processes | start, stop, doctor, probe, remove, bind, restart | check-then-act on files by three programs, each of which may end anywhere | one daemon, in reach of those who started it; in the end one serves |
| macOS app | `apps/mac/Sources/UstaMac` (`WorkspaceBus.swift`, ...) | cached event list, role states | poll, infer | cache keys, guards against repeated regeneration | the view follows the bus |

How they interact. Clients call the daemon by gRPC over a Unix socket. Agents
in terminals call the MCP server, which calls the daemon. Every path that
records an event inserts into the same table: `publish_event`, a chat's
handoffs, a headless turn's handoffs, the PM, and the idle watcher, which
reads the terminals' mirrored output. Three of these fan the event out to
subscribed roles as headless turns. Tool calls of a chat reach a person
through the stream of that chat and come back through `approve_tool`. The role
files are the configuration of everything else: who publishes and subscribes to
what, which provider answers, what a tool call may do. The PM, a client and
`import_team` write them, every handler reads them anew. `close_workspace` only
deletes rows: what runs in a workspace finds out at its next write.

The database is opened once, at the daemon's start. If that fails, or the schema
cannot be brought up to date, `Db::open` (`db.rs` 159-171) moves the file away
and starts an empty one. The modules that restart the daemon over a table
(`EventBus`, `IdleWatcher`, `PtyStream`, `WorkspaceRegistry`) therefore have two
restarts: one that keeps the table, and one, `...RestartAnew`, that empties it.

`PROJECT.json` lists every hazard at its line, with the properties that cover
it or a note why none does.

## 2. Modules

| Module | What it is |
|---|---|
| `HandoffLedger` | abstract specification: a log, and who is awake because of which entry |
| `Consent` | abstract specification: questions to a person, and what was allowed and acted |
| `Transcript` | abstract specification: a terminal's output, as the table and the watching clients have it |
| `EventBus` | the bus: table, `publish_event`, chats, headless turns, PM tasks, restarts |
| `IdleWatcher` | `EXTENDS EventBus`: the watcher's loop over terminals, composed with every action of the bus |
| `WaitForEvent` | the MCP server's waiting call, with time |
| `ToolApproval` | tool calls: gate, approvals map, execution, lost clients |
| `PtyStream` | one terminal's output: reader thread, scrollback, channel, mirror, attached clients |
| `RoleFiles` | the role files of a workspace under the shared library, and all handlers that read or write them |
| `TeamGraph` | the topic graph the PM proposes, its repair, and the dispatch by exact match |
| `WorkspaceRegistry` | workspaces, terminals, chunks: calls that open, close, use and index a directory |
| `DaemonLifecycle` | start-up of the daemon, the CLI's start and stop, the app's spawner |
| `CostLedger` | whose tokens: session logs against the table of terminals |
| `MC*` | instances for TLC |
| `*_proofs` | theorems: `IdleWatcher_proofs` holds those of the bus too, `TeamAndCosts_proofs` those of `TeamGraph` and `CostLedger` |

### EventBus

`events` is the table in id order, an id being a position. An action is an
await-to-await section of a handler.

* `publish_event` is `PublishBegin` (it reads the clock first, 2811-2828) and
  `PublishCommit` (insert, fan-out and the PM on a blocker) or `PublishDropped`
  (the caller is gone: tonic drops the handler, but an insert that already runs
  on the blocking pool still lands, and nobody is woken).
* A chat is `ChatStart`, `ChatAnswer`, one `ChatHandoff` per marker, `ChatLost`.
  A headless turn is created by `Dispatch` and runs `TurnAnswer`,
  `TurnHandoff` or `TurnFail`.
* The PM's tasks are named by the event that started them: `PmPlan`, `PmFail`.
  `FeaturePlanned` and `Scaffold` are the two places that record
  `feature.requested`.
* `Restart` empties every task and keeps the table; `RestartAnew` empties the
  table too, and ids start again from 1. `HandoffLedger` allows for this with
  `StartOver`: the log goes as a whole, with everybody who was awake, or stays.

The field `via` of an event remembers which path recorded it; the table has no
such column, and no action reads it except to tell a scaffold's plan topic.
Assumed: an insert into a table that could be opened succeeds. The code ignores
its error everywhere except in `publish_event` (`main.rs` 465, 656, 797, 2001,
2779, 2794, 3028), so an event whose insert fails is lost with no notice.

### IdleWatcher

One loop, one action per await: `Wake` (list open terminals), `ReadIdle`
(`last_term_log_ms`), `ReadTail` (`read_term_log`, then the idle check against
the time read before), `Decide` (workspace, role, events; the topics are
settled and entered in `last_fired`), one `Publish` per topic (insert with the
round's clock, fan-out). Terminals, files and the whole bus move in between.
`Panic` takes the place of `Decide` when the tail ends with "event ": the slice
of `main.rs:361` panics, and the task is `gone`, for all terminals, until the
daemon is started again. `DaemonRestart` and `DaemonRestartAnew` are the two
restarts; after the second no terminal is in the table.

A tail is a sequence of telling lines (`LineKind`); the operators `Decoded`,
`MarkerTopics`, `AnnouncedTopics`, `BareTopics`, `ExplicitPool`,
`CandidatePool`, `Consistent` and `DeclaredOk` are the text heuristics on that
abstraction. Substring search for a topic (`rfind`) is abstracted to suffixes.
"published" is taken to occur only on announcing lines. The order in which a
round takes terminals, and one terminal's topics, is left open.

### WaitForEvent

Two agents, each with its own MCP server, and outsiders. `ReadBase` takes the
baseline, then `Check` (deadline), `Poll` (the first of the newest ten matches
after the baseline, or a nap), `Wake`. `Fail` is a failed request. Time
advances in ticks anywhere between steps except between a nap and the deadline
check that follows it. The database is taken not to be made anew during a wait.

### ToolApproval

A run is one agentic answer: a chat, or a headless turn. Its model turns ask
for tools, which are taken one at a time: `Refuse`, `RunAtOnce` or `Ask`, by
`Verdict`. `Ask` puts the sender into the map and the id into the call in one
step, because nobody can know the id before the card is sent; `Show` forwards
the card. `ApproveTool` may be called for any card ever shown, any number of
times. `Drop` ends a chat anywhere and leaves its map entry, and a tool that was
running may still land (`CutShort`); `CapPanics` does the same to any run whose
tool's output `cap` cannot cut; `ToolRestart` does so for everything. A tool in
`MayHang`, which is `shell`, may never come back: `toolexec.rs` 257-263 waits for
the command without a limit.

`Consent` is what is left when runs, channels and cards are taken away: `Ask`
with an id never used before, `Allow`, `Act`, `Lapse`, and `Stop`. A call is
asked about (`Undecided`) while its run waits and no reply is in the channel,
allowed (`Approved`) from the reply on until its tool has come back, if it ever
does, and acted when an effect bears its id.

### PtyStream

One terminal, from `create_terminal` to the end of its output. Chunks are
numbered as the reader thread reads them, and the broadcast channel carries
them in that order, so a receiver is a number; `Lagged` and `Pending` are what
tokio's channel does with a receiver that is behind. The reader thread's two
steps are `Read` (scrollback, under its lock) and `Send`; other threads come
in between. `create_terminal` is `Seed` (the log of the previous terminal is
put in front of the scrollback), `StartMirror`, `InsertRow`, and `CreateDropped`
when its caller goes away. The mirror task's select loop is `MirrorRecv`,
`MirrorTimer`, `MirrorWrite`, `MirrorBreak`. `MirrorWriteFails` may come in place
of any write: the error is ignored (`main.rs` 1552, 1564) and the buffer was
emptied before, so its chunks are in `lost` for good and the log may go on behind
them. Without a row (foreign key) a write always fails. `stream_pty` is `Attach`
(subscribe) and `Snapshot` (copy of the scrollback), then `Recv`, `RecvLagged`
and `Exit`; `Leave` ends it. `CloseWorkspace` deletes the rows by cascade
and leaves the terminal running, as the code does. A chunk is the unit: the
scrollback's cap and a client's replay cut chunks in two in the code, and
between chunks here. `Exit` may come whenever the terminal is closed, because
both arms of the select may be ready.

`PtyRestart` keeps the table and `PtyRestartAnew` empties it, the workspace's row
included.

`Transcript` keeps of this: what was said, what the table has of it, what failed
to get there (`Miss`), and per client what it was shown and what it is due. It
demands that the table is only added to, in order and with no hole but what was
missed (`Store`), and loses everything with its workspace (`Forget`) or its
database (`StartOver`) and nothing otherwise; that a replay is the end of the output up to the
chunk read last (`Replay`, `UpToDate`), though the client was subscribed before
the copy was taken; and that from then on it is sent what it is due (`Show`) or
told of a gap (`Skip`).

### RoleFiles

No lock protects the role files, so an action is one call into the file system:
a listing, the reading or removal of one file, the opening (which truncates) and
the filling of one. A handler is a record in `call`: it begins (`ApplyTeam`,
`ScaffoldProject`, `ImportTeam`, `AddRole`, `DeleteRole`, `ListRoles`,
`ExportTeam`, and the five calls of the PM), then removes, loads, thinks and
writes as its code does. `Replace` is `purge_role_yamls` followed by
`write_role` for each role; `Layered` is the insertion into the library, the
later role of a name winning; `Visible` is what `list_roles` leaves of it.
`RemoveFails` leaves a file where it is, which the purge ignores (`main.rs` 975,
980), as it does a directory it cannot list: that is every removal failing.
`WriteFails` ends a handler in the middle of its team, or loses one of the PM's
writes, whose errors the code ignores. `Fill` after a concurrent writer may
leave a mixture (`Mixed`) and does nothing to a file removed while it was open.
`shared` is the library the daemon read at its start; the PM's writes go to a
role's `source`, which may lie in it. A role is a name, a kickoff and the rest
(`body`).

### TeamGraph

A topic is the sequence of its segments, a spelling is neat, cased or padded.
`Repaired` is `repair_team_graph`: `NormTopic`, the set of published topics,
then `Kept` for each subscription (itself, a producer's spelling by
`FindProducer`, or nothing). `Woken` is `dispatch_event`'s exact match on lower
case. The user's part is the order: propose, refine any number of times,
scaffold; or apply a team to a workspace that is there. `add_role` and
`import_team` do not repair and are not part of this module.

### WorkspaceRegistry

The database has one connection behind a lock taken for each statement, so an
action is one statement. `LookUp` and `Upsert` are the halves of
`open_workspace`, and of the end of `scaffold_project`; `Cascade` is the foreign
keys. `CreateTerminal` and `InsertTerminal` enclose the child's start. A run of
the indexer is `IndexWorkspace`, `ClearIndex`, then `ReadFile`, `TakeWindow`,
`InsertChunk` while a batch is flushed, `LastFlush`, `Finish` or `IndexFails`.
`ReadFails` skips a file that cannot be read (`usta-index/src/lib.rs` 92-95) and
remembers it in `skipped`. What counts as text is `is_probably_text`'s verdict:
it takes a long text for none when both cuts of its sample split a character, and
`Binary` stands for such a file too. `RegistryRestart` keeps the tables,
`RegistryRestartAnew` empties them. The tables `events` and `chat_messages` have
no foreign key (`db.rs` 63-71, 91-99): their rows stay after `close_workspace`,
and are not in this module.
`Windows` is the chunker. What is left of a file is a set of windows, of which
`TakeWindow` takes the earliest. Chunks are counted, since the table has no key
that would keep one from being there twice.

### DaemonLifecycle

An action is one look at or one change of a file, a socket or a process.
`Exists`, `Probe`, `RemoveStale`, `Bind`, `Listen` are `main` up to the first
accepted connection; `bind` of `UnixListener` is two system calls, so a socket
file is there before anybody can connect to it. `Start*`, `Stop*` and `Doctor*`
are `daemon_ctl`; a child that has died is a `Zombie`, alive to `kill(pid, 0)`,
for as long as the CLI that spawned it runs. `App*` are the spawner: the probe,
`pkill` over every daemon of the socket, the removal of the socket file a
quarter of a second later whosever it is, and the spawn. Every program may end at
every step: `Crash` (a daemon), `CliEnds` (a command that is killed, or a call of
which fails: the log, the spawn, the pid file), `AppGivesUp` (the app quits, or
finds nothing to spawn). A command that ends between its spawn and the write of
the pid file leaves a daemon that file does not name (`unnamed`); an app that
ends between the removal of the socket file and its spawn may leave one that
nobody can reach. `doctor` lives some 400 ms longer than a `start`
(`usta-cli/src/main.rs` 271-274), which the wait before `StartEnds` may take too.
`early`, `wiped`, `mixed`, `unnamed` and `killed` remember what has happened, for the properties; no action
reads them. Writing the pid file is one step, though a reader might find it
truncated, which it would take for no pid.

### CostLedger

A launch is a role's terminal with the agent in it; its session is the log that
agent begins, and `writes` says whose log it writes. That is another one's if
`create_terminal` adds `--continue` (`Continues`: the role had a terminal here,
and there is a log for the workspace's own directory): claude then goes on with
the log of its directory that was written last (`ResumeSession`), or dies if
there is none. A claude log adds up, a codex log counts up. The scan itself is an
operator of the state, `Ledger`: directories first (`ClaudeEntries`,
`CodexEntries`), then times (`Attribute`, with `Window` and `Nearer`). `AsOf` is
the table of terminals as `get_costs` read it at an earlier moment. A scan opens
at most `Cap` codex logs, those of other workspaces among them, in the order the
directories are read; `Visits` has every set of logs it may get to. Tokens are
of one kind and have no price; a log line that is half written does not count.
`Overdue` holds time back for at most `MaxLag`, the assumption that a child gets
its row and starts its session soon. A history is that of one workspace row;
logs can be read, and all sessions are begun in role terminals.

## 3. What is checked

Each passing run's property has a mutant in `PROJECT.json`: an operator in the
module (its comment says "Mutant of ...") that puts a plausible bug into one
definition, under which TLC finds the property violated.

| Run | Question | Bounds |
|---|---|---|
| `bus` | `DispatchDepthOne`: no storm, whatever the cycle. `PlansAnswerBlockers`: the PM's plans and calls never exceed the blockers and scaffolds. `ImplementsLedger`: refinement of `HandoffLedger`. | 2 roles subscribed to each other, 1 client, 2 time units, 3 events, 2 handoffs per answer. Three events are enough for an outside event, a turn's handoff and what that would wake, and for two concurrent causes. |
| `watcher` | `OncePerOutput`: one output announces a topic once, and again only past a full window of other events. `ScanRemembers`: why. | 1 terminal with an exclusive pair one of which is a blocker, named or, in a git workspace, inferred from a header; 1 client that publishes blockers with old stamps, files and commits, 3 time units, 3 events, 2 lines, restarts of both kinds; the dedupe time is 1, shorter than the run, and the window of newest events 2, so the first event can leave it. A repeat past the window would be a fourth event: that part is proved, not run |
| `watcher_live` | `ClaimsReachBus`: an explicit claim gets to the bus, unless the watcher has panicked. | 1 terminal with 2 lines, markers and the line that makes it panic, 4 time units, 3 events, a dedupe time of 2: a claim, a feature requested by scaffolding or by a call, and the claim made again, which `last_fired` holds back for a while |
| `wait` | `FirstNewMatch`, `NoEventTwice`; `EveryWaitEnds`, with agents that wait for each other | 2 agents, 3 events with a window of 2, 4 ticks: calls that follow each other, and one that polls twice before its deadline |
| `approval` | `EffectsLicensed`, `CardsAnswerable`; `RunsHeldByPeopleOrCommands`; `ImplementsConsent`: refinement of `Consent`, an approval is for one call, once | 2 chats that ask and a manual headless turn that would have to, a model turn of one read, two writes or a command that may never end, cards answered any number of times |
| `pty` | `ViewFaithful`: no client misses a chunk without being told. `LogFaithful`: the table has no hole but a failed write's. `EveryChunkLogged`: what is sent gets into the table while the mirror runs, or was in a write that failed. `ImplementsTranscript`: refinement of `Transcript`. | 1 client that may come back, a channel and a scrollback of 2, 4 chunks, 1 chunk of history: every receiver can lag, and the scrollback is trimmed |
| `rolefiles` | `OverridesWin`: who lists a team during a rewrite never gets a shared role in place of the workspace's. `UndisturbedTeam`: a replacement that no other writer overlaps leaves its team and no other file but those it failed to remove, whatever crashes left before. `PlansChangeKickoffsOnly`, `LibraryKeepsDefinitions`: the PM's writes change kickoffs, here and in the shared library. | 2 handlers at once, 3 in all, so that a third can clean up after two; 2 roles, one shared, one whose file is not named as it is; 2 teams, failing removals and writes, restarts |
| `teamgraph` | `EverySubscriptionProduced`, `NothingWantedIsDropped`: the repair closes the graph and drops nothing that has a producer. `WokenAsAsked`: repaired spelling and exact match together wake whom the PM meant. | 2 roles, 6 topics that are equal, suffixes of each other, alike in two or in one segment, or external; up to 2 publishes and 2 subscribes a role; 3 spellings |
| `registry` | `ReopeningKeepsAll`, `NoOrphanRows`: check-then-insert and cascades under running calls. `DoneMeansCovered`, `LoneRunExact`: what an index that is done holds of the files it did not skip. | 1 directory, 3 ids, 2 openers, 1 terminal, 2 runs over a file of 3 windows (one blank, two overlapping) and a binary, batches shorter than the file, reads that fail, restarts of both kinds |
| `lifecycle` | `StompedInRacesOnly`: when a live daemon loses its socket. `StopReachesAll`: no orphan while commands do not overlap. `ServedWhenQuiet`: those that give way to each other do not all give way. | 2 shells, 1 app, 3 commands or crashes and 1 launch or restart, each of which may end anywhere: up to 4 daemons, three of which can be between probe and bind |
| `costs` | `TokensConserved`: each session counted as often as its paths say, whichever logs the capped scan gets to. `SpacedSessionsRight`: attribution by time with rows that are late or already closed, and with `--continue`. `PastStays`: no later launch takes over what is past. | 4 launches, two of them over before the history begins, with or without a session; 2 vendors, 2 worktrees that escape alike, a cap of 1 codex log and up to 1 of another workspace, 4 time units with a slack of 2 and a lag of 1: windows overlap, sessions begin on either side of one, and a claude agent begins its own or goes on with the earlier one |

The watcher's instances run with no provider registered, so that its
announcements wake nobody; that the composition with the fan-out implements the
ledger and does not cascade is proved (section 4), and `bus` runs the fan-out.

Deadlock checking is off except in `registry` and `teamgraph`: the bounds on events,
clock, turns, calls and chunks stop the other instances in the end.

### Disagreements between the code and what it says

One is a run, `approval_unset`: "execute() only runs after the user approved"
(`toolexec.rs:95`), and yet a role without a `permissions` entry, which is every
generated role and the shipped templates, is asked for, allowed, and refused.

The models contain these too, without a run of their own:

* The bus. Blockers "should auto-fire OrchestrateIssue" (`main.rs:590`), but only
  `publish_event` looks: one handed off by a chat or announced by the watcher
  starts no PM. Headless turns of auto roles write, which the comment at
  `main.rs:587` denies (`Verdict`, `Licensed`).
* The watcher. Output that ends with "event " makes it panic (`main.rs:361`): no
  terminal's completion is announced until the daemon is restarted, though
  "every 10s" it should look (`main.rs:161`). In a git workspace any uncommitted
  file counts as written "since the blocker" (`main.rs:408`, against 489), so a
  topic nobody named is published for files that are older. "A hallucinated topic never escapes onto the bus"
  (`main.rs:369`), but it does when a declared one ends with it. Of an exclusive
  pair the later claim wins (`main.rs:417`), but when it is already on the bus
  the withdrawn one follows it. `Decoded` destroys the bullet and check marks the
  strong markers start with (`main.rs:248`, against 175).
* `wait_for_event` looks at its deadline before its last poll, so "no matching
  event" may be said of an event that is in the table (`usta-mcp/src/main.rs:139`).
* Terminals. One burst longer than the channel ends the mirror for good
  (`main.rs:1556`, against 1534). A write that fails leaves a hole in the log, of
  which nobody is told (`main.rs` 1552, 1564). A terminal whose row is refused, because its
  workspace was closed meanwhile, leaves its child running in no table.
* Role files. The PM's plans and `regenerate_kickoff` write to a role's source,
  bundled and user files included, from a copy read before the model was asked:
  edits made meanwhile are lost, a role deleted meanwhile comes back.
  `delete_role` looks for the name as it is, files are named by `sanitize_name`;
  two names with one sanitised form share a file, and the later role wins.
  `export_team` between a purge and the first write exports the whole library. A
  replacement that cannot remove an old role's file says it has succeeded, and the
  role stays in the team (`main.rs` 975, 980).
* The topic graph. The repair may point a role at its own topic, whose event
  the dispatch does not give to its publisher.
* The registry. Of two callers that open a new directory at once, one is told an
  id that is in no table (`main.rs:1225`, "Reuse existing row if any, else insert").
  A row that is closed between lookup and upsert comes back with its old id.
  Runs of the indexer that overlap can leave a chunk in the table twice. A run
  that has skipped files it could not read reports that it is done. A workspace
  that is closed leaves its events and chat messages behind.
* Start-up. "We refuse rather than stomp." (`main.rs:3199`): starts that overlap
  can leave two daemons serving, each with its watcher; `StompedInRacesOnly` says
  exactly when. `start` never reports that the daemon "died during startup"
  (`daemon_ctl.rs:76`): a dead child is a zombie of the CLI that waits for it.
  Beside a daemon the app has started it prints "started" for a child that
  refuses, since it asks the pid file and not the socket, and a stale socket file
  satisfies its wait. A start that fails to write the pid file, or is killed before,
  leaves a daemon that `stop` does not find (`daemon_ctl.rs` 62-69), and an app that
  quits between taking the socket file and its spawn can leave a daemon that
  serves where nobody can connect (`DaemonSpawner.swift` 128, 165-166).
* Costs. Worktrees such as `ui_dev` and `ui-dev` escape to one directory, and
  claude's sessions there are counted for both. A codex session is dated by its
  last write, so a long one moves to whoever launched later. A role launched again
  "resumes its last session" (`main.rs:1436`): roles without a worktree share a
  directory, so it goes on with that of whichever role wrote last, and what it
  spends is put down to that role. Whether there is a session is judged by the
  workspace's directory and not by the worktree the child runs in
  (`main.rs:1452`), so the death by "No conversation" that the check is for
  (`main.rs:1446`) still happens. Past 3000 codex logs of whatever workspace the
  scan stops (`costs.rs:231`), and what is left is not counted.

### Fairness

* `IdleWatcher.Fairness`: time passes, and the watcher's task, which never
  blocks on anything but the local database, takes its next step, be it the panic.
  Nothing is assumed of terminals, clients or providers, nor that a daemon whose
  watcher is gone is ever restarted.
* `WaitForEvent.Fairness`: time passes and the server goes on polling, which
  supposes that a request to the daemon gets some answer. Fairness of `Tick` is
  strong because its bound on the clock holds it back while a request is under
  way. Agents need never call or publish.
* `ToolApproval.ToolFairness`: the stream of a run is polled, the provider
  answers or fails, tools return, except those that may hang: `HeldByCommand` is
  left out of the fairness. Nobody need answer a card.
* `PtyStream.FairPtySpec`: the mirror's task is polled and its database calls
  return, with success or not. Nothing is assumed of the child, the reader thread
  or the clients.

The other modules state no liveness: their handlers end by themselves or fail.
`ServedWhenQuiet` says of `DaemonLifecycle` what is left of it without fairness:
no step of a daemon or of an app waits for anybody, so a moment at which none is
on its way comes as soon as no more are started.

## 4. What is proved

All theorems hold for every value of the constants that satisfies the module's
named assumption (`BusAssumption`, `WatcherAssumption`, `WaitAssumption`,
`ToolAssumption`, `PtyAssumption`, `FilesAssumption`, `LifecycleAssumption`,
`RegistryAssumption`, `GraphAssumption`, `CostAssumption`): any team,
subscription graph, set of topics, permission policy, any number of terminals,
clients, calls, handlers, shells, indexer runs and launches, any channel,
scrollback, timeout, window, slack, lag and cap. Two theorems assume more:
`ReplacementsComplete` and `SpacedAttribution`, as said there. TLC evaluates the
assumptions in the runs of section 3. What the modules assume of the code is said
in sections 2 and 6.

* `IdleWatcher_proofs`, the bus: `BusTypeCorrect`; `BusImplementsLedger`, by a
  step lemma that maps each action to `Announce`, `Note`, `Settle`, `StartOver` or a
  stutter; `NoStorms`, which needs the type invariant and that the ledger only
  grows while anybody is awake, so the cause of a turn stays the event it was.
  `PmNeverFeedsItself`: every step of the bus is one of three things to the PM
  (`PmStep`), and each keeps plans plus running calls below the causes; that ids
  in `pm` are ids of the table is what makes a new call one more.
* `IdleWatcher_proofs`, the watcher: `WatcherTypeCorrect`;
  `WatcherImplementsLedger` and `WatcherNoStorms`, which reuse the bus lemmas for
  the steps of the bus; `NothingForgotten` and `NoRepeats`, from the inductive
  invariant `Remembered == ScanRemembers /\ OncePerOutput`. `OncePerOutput` alone is not
  inductive. The argument goes through time: a topic is published with the
  round's clock, which is later than the output it was read from (that is what
  the idle check gives); output older than the latest blocker is set aside as
  stale; so every event already written for this output that is still in the
  window is later than the latest blocker, hence among the role's own events the
  scan leaves out, whatever `last_fired` has forgotten. `ScanRemembers` says
  exactly this, for the scan in progress. The events read in `Decide` may leave
  the window before the publication and none comes back (`WindowSlides`), so
  nothing bounds the bus: a repeat is more than a window away from what it
  repeats.
* `ToolApproval_proofs`: `ToolTypeCorrect`, `NoUnlicensedEffect`,
  `EveryCardAnswerable`, from the invariant `ToolInv`. Its additions:
  `FreshIds` (ids in use are below `nextId`, a card's id is its own, a run whose
  card is not out shares its id with nobody), `RepliesFaithful` (a reply is in
  the channel exactly when the card was answered, and is "allow" only if its
  first answer was), `RunningLicensed`. The lemma that matters is
  `ApproveToolInv`: an answer reaches the run its card was made for and no other.
  `ApprovalsImplementConsent`: a step of one run changes what is asked and
  allowed for that run only, because a call carries its run (`OneRun`), so it
  settles at most one question (`OneRunSettles`), and each action falls under
  that lemma. `Ask` is a new question because ids are fresh, `ApproveTool`
  decides one only while no reply is there (`CardsAnswerable`). `SettledForGood`
  follows from `Consent`: a question that is settled stays so, and its call
  does not act any more.
* `PtyStream_proofs`: `PtyTypeCorrect`; `NoSilentHoles`, from three
  invariants: the scrollback in closed form (`Numbered`: its items count down
  from the chunk read last to the previous session's), `SentInv` (the channel
  is never ahead of the scrollback), and `ClientInv` (what a receiver reads
  next follows what its client was shown last, or lies inside the replay);
  `LogHolesExplained`, from `LogInv`: log and buffer together are in order and end
  before what the mirror reads next, and whatever is missing between two chunks,
  or behind the last, is in `lost`, where only a failed write puts it.
  `PtyImplementsTranscript`
  adds that the reader is at most one chunk ahead of the channel (`OneHeld`),
  that there is something to replay once there was output (`ReplayNotEmpty`),
  and that the mirror has taken nothing that was not sent (`Taken`);
  `TableOnlyGrows` follows from it.
* `WaitForEvent_proofs`: `FirstMatchReturned`, `NeverTwice`, from `GivenBelow`:
  what an agent was given lies below the baseline of its next call, because the
  baseline is the newest match. That the window of the newest `Limit` matches
  either holds the least match or is full is a cardinality argument
  (`FS_Subset`) on a least element, whose existence comes from
  well-foundedness.
* `RoleFiles_proofs`: `FilesTypeCorrect`, `OverridesAlwaysWin`,
  `LibraryDefinitionsKept`, from `FilesInv`. For readers: a file that was whole
  all along is either still to be loaded or loaded under the workspace's scope,
  and only workspace files come after it. For writers: whatever is queued for a
  file of the shared library has the definition of the role that is there
  (`Harmless`), since a PM call copies it from the library and replaces its
  kickoff only. `ReplacementsComplete` and `KickoffsOnly` need `SoloInv` on top:
  beside a handler that is alone only readers run (`Solitude`), so what it has
  removed, loaded and written so far is what the disk shows (`ReplaceOK`,
  `PlanOK`), and the file it has open is empty until it fills it (`OpenOK`).
  What a removal failed on is in `left`, and is all that stays besides the team.
  `ReplacementsComplete` assumes `OneFileEach`: two roles of a team whose names
  `sanitize_name` maps to one file do overwrite each other. The library agrees
  with the disk a plan begins with because nobody ever removes a shared file
  (`SharedThere`).
* `WorkspaceRegistry_proofs`: `NoOrphans`, `ReopeningKeeps`,
  `RegistryTypeCorrect`, `DoneCovers`, `LoneRunsExact`, from `RegistryInv`. That
  a path has one row (part of `IdsAgree`), though nothing in `open_workspace`
  looks again between its two statements, is due to the second being an upsert
  by path; that an id has one path needs that callers about to insert agree with
  each other and with the table. For the indexer, `Covered` follows each line:
  it lies in a file not read yet or skipped, in a window that is still coming, or in
  the table; a cascade takes the index of a run to pieces only together with the
  claim (`last`) that it is whole. `Exact` follows each window: it is in one
  place only. `ChunkerCovers` is the geometry they rest on: the earliest window
  that begins before a line and reaches it is one the chunker cuts, because the
  one before it ended too early to be the last.
* `DaemonLifecycle_proofs`: `LifecycleTypeCorrect`, `StompingNeedsRace`,
  `StopFindsAll`, `OneServes`. Stomping: a daemon whose file is still in place knows all
  those that are about to remove a stale file (`StaleKnown`), so the one that
  then removes its file is in `early`. Stopping: while no two commands have
  overlapped, what the one under way has read of the pid file is what the file
  still holds (`CommandInv`), and the daemons it has not found are `unnamed`.
  Serving: `SuccessorInv`, that somebody is on its way to a file that is free
  (`FreeWanted`) or a dead daemon's (`DeadWanted`). It survives each daemon that
  gives up: a bind fails only on a file that is not free, a removal only on one
  somebody else has freed; and every kill or app that gives up asks for a new start.
* `TeamAndCosts_proofs`, the team: `NoDeadSubscriptions`, `NothingWantedLost`,
  `RightRolesWoken`, from `GraphInv`: the team the user is shown is `Repaired` of
  the one the PM asked for, at every stage of the dialogue. The rest is about
  one application of the repair. The library defines a suffix by reversal, the
  lemmas `SuffixIsTail` and `EndsWithIsTail` put it into positions, and
  `RelatedIsAlike` concludes that a topic is alike one it equals or is related
  to, and no other. That `FindProducer` finds one (`ProducerFound`) needs a least
  rank, hence well-foundedness. `KeptCases` says what becomes of a subscription.
* `TeamAndCosts_proofs`, the costs: `PastSettled` and `SpacedAttribution`, from
  `CostInv`: a row is at most `MaxLag` later than its launch, since time waits
  for a child without a row; a session lies between its launch and the end of its
  terminal; and (`WritesInv`) a launch writes to a session there is, and to
  another launch's only if it is claude's. `Attribute` chooses the nearest launch: that there is one is
  shown by taking the least member three times (the distance, among those the
  latest, among those the last row), and it is the only one (`NearestUnique`),
  so a choice does not depend on rows that are further away (`SameAttribution`).
  `SpacedAttribution` assumes `MaxLag <= Slack`: an agent's session and row
  exist within the slack of its launch, 15 seconds in the code. Without it, the
  property is false. `NoTokenLost`: the accounts, which a fold over a sequence
  of sessions fills, add up to the sum over the sessions the scan has opened,
  which are all when there are not more codex logs than the cap (`AllVisited`). The library's
  induction theorems take an operator and cannot be instantiated, so the
  induction is done on a set: of the numbers (`Steps`) or the subsets
  (`FiniteSteps`) for which a statement holds, by the least one outside it.
  With it, `FoldExists` builds the function a fold is defined by, and
  `SumUnfolded` the rule that a sum over a set is a member's value and the rest,
  whichever member; `SumUnion`, `SumRenumbered`, `SumConstant` and
  `SumByPartner` follow. Then `LedgerSums`: adding a session to an account adds
  its tokens to the sum of the accounts; `ClaudeListed`: the claude sessions are
  listed by directory, and a session comes once for every directory that
  escapes as its own does; `CodexListed`: the codex sessions come once.

Only model-checked:

* All liveness (`ClaimsReachBus`, `EveryWaitEnds`, `RunsHeldByPeopleOrCommands`,
  `EveryChunkLogged`): fairness and `ENABLED` are outside what
  the prover handles. So is anything about RECURSIVE operators; none is used.

## 5. Plan

Every safety property a passing run checks is proved. What is left, by what it
would add:

1. `WorkspaceBusUI`: the role states the app infers, with their cache.
2. The registry as the refinement of a table of directories, in which opening,
   closing and indexing are single steps where the code allows it.

## 6. Not modelled, and why

* Prompts, summaries, agent and chat messages: data no property tells apart.
* The rate gate and retries of the Anthropic provider (`anthropic.rs` 22-165):
  the gate looks once at a snapshot of the quota, sleeps, and goes on without
  looking again, and its permit is given back before the answer's stream is read.
  What it protects is a quota the provider keeps; a refusal is retried a bounded
  number of times. That is timing against a foreign clock, with nothing in the
  daemon's state to relate it to.
* Worktrees and merges: git's behaviour. `CostLedger` takes the set of worktrees
  as given.
* Skills and tool registries: static tables.
* Search in the index: a ranking by a float. Embedding: a library.
* Prices in the cost ledger; logs it cannot read, which it skips; sessions people
  begin themselves, in no role's terminal; and rows of a workspace closed and
  opened again.
* The rows of `events` and `chat_messages` that stay when their workspace is
  closed: these tables have no foreign key (`db.rs` 63-71, 91-99), and no module
  closes a workspace under the bus.
* Failed inserts of events, as said under `EventBus`.
* Wire formats of the providers, JSON-RPC framing, the protocol's messages.
* Views of the app, and the role states it infers: they follow the event list,
  and a wrong one lasts until the next poll.
* Input to and resizing of terminals; the command lines of agents.
