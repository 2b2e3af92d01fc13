----------------------------- MODULE RoleFiles -----------------------------
(***************************************************************************)
(* The role files of one workspace, <ws>/.usta/roles/*.yaml, under the     *)
(* library of built-in and user roles that all workspaces share            *)
(* (crates/usta-roles/src/lib.rs), and every handler of the daemon that    *)
(* reads or writes them (crates/usta-daemon/src/main.rs).                  *)
(*                                                                         *)
(* The daemon runs its handlers on several threads and nothing locks these *)
(* files, so an action is one call into the file system.                   *)
(*                                                                         *)
(*   disk     what each file holds                                         *)
(*   shared   UstaSvc.roles, the library read when the daemon started      *)
(*   call     the handlers under way, each at most one at a time:          *)
(*     op, pc   which handler, and how far it is                           *)
(*     lib      the role library it has loaded                             *)
(*     todo     files it has listed and not yet loaded or removed          *)
(*     queue    the writes it still has to make                            *)
(*     open     the write whose file it has open, of those in queue        *)
(*     linked   does the open file still have its name?                    *)
(*     left     files it should have removed and could not                 *)
(*   and, for the properties only,                                         *)
(*     steady   workspace files that held a role from the first step of    *)
(*              its load on, and were not touched since                    *)
(*     team     the team a replacement writes                              *)
(*     before   the disk when a plan began                                 *)
(*     alone    has no other writer run since it began?                    *)
(*   begun    calls so far                                                 *)
(***************************************************************************)
EXTENDS Naturals

CONSTANTS
  Name,       \* role names
  Body,       \* everything in a role but its name and kickoff
  Kick,       \* kickoff texts
  File,       \* paths of role files
  WsFile,     \* those in the workspace; the others are the shared library's
  UserFile,   \* those in the user's directories, which override the bundled
  FileOf,     \* sanitize_name: the workspace file write_role uses for a name
  OwnFiles,   \* what delete_role tries for a name: name.yaml and name.yml
  Team,       \* teams a client or the PM comes up with: sets of roles
  Plan,       \* what the PM may answer: new kickoffs for some names
  FirstDisk,  \* what may be on disk at the start
  Call,       \* handlers that can run at the same time
  MaxCalls,   \* bound
  Absent,     \* no such file, or no such role
  Empty,      \* a file that fs::write has truncated and not yet written
  Mixed,      \* the end of one text behind another
  NoWrite

Role == [name: Name, body: Body, kick: Kick]
Content == Role \cup {Absent, Empty, Mixed}
Write == [file: File, role: Role]

ASSUME FilesAssumption ==
  /\ WsFile \subseteq File
  /\ UserFile \subseteq File \ WsFile
  /\ FileOf \in [Name -> WsFile]
  /\ OwnFiles \in [Name -> SUBSET WsFile]
  /\ Team \subseteq SUBSET Role
  /\ \A tasks \in Plan : DOMAIN tasks \subseteq Name /\ \A n \in DOMAIN tasks : tasks[n] \in Kick
  /\ FirstDisk \subseteq [File -> Role \cup {Absent}]
  /\ MaxCalls \in Nat
  /\ {Absent, Empty, Mixed} \cap Role = {}
  /\ Absent \notin {Empty, Mixed}
  /\ Absent \notin Write /\ Absent \notin [role: Role, file: File]
  /\ NoWrite \notin Write

VARIABLES disk, shared, call, begun

filesVars == <<disk, shared, call, begun>>

Op == {"replace", "merge", "delete", "read", "plan", "kickoff"}
PmOp == {"plan", "kickoff"}
Pc == {"idle", "removing", "writing", "loading", "thinking"}

\* A loaded role knows its file (source); its scope is where that file is.
Loaded == [role: Role, file: File]
Library == [Name -> Loaded \cup {Absent}]
Scoped(lib, n) == lib[n] # Absent /\ lib[n].file \in WsFile
None == [n \in Name |-> Absent]

CallState ==
  [op: Op, pc: Pc, lib: Library, todo: SUBSET File, queue: SUBSET Write,
   open: Write \cup {NoWrite}, linked: {"yes", "no"}, steady: SUBSET WsFile,
   left: SUBSET File, team: SUBSET Role, before: [File -> Content], alone: {"yes", "no"}]

FilesTypeOK ==
  /\ disk \in [File -> Content]
  /\ shared \in Library
  /\ call \in [Call -> CallState]
  /\ begun \in 0..MaxCalls

-----------------------------------------------------------------------------
\* load_defaults: the bundled directories, then the user's over them.
LoadDefaults(d) ==
  [n \in Name |->
    LET holding(fs) == {f \in fs : d[f] \in Role /\ d[f].name = n}
        bundled == holding(File \ (WsFile \cup UserFile))
        users == holding(UserFile)
        f == CHOOSE g \in IF users # {} THEN users ELSE bundled : TRUE
    IN IF users \cup bundled = {} THEN Absent ELSE [role |-> d[f], file |-> f]]

\* Mutant of Listed: the purge, and the loader, go by what can be read.
ListedReadable(d, fs) == {f \in fs : d[f] \in Role}

\* load_dir lists a directory once, and load_file then reads file by file.
Listed(d, fs) == {f \in fs : d[f] # Absent}
Readable(d, fs) == {f \in fs : d[f] \in Role}

\* Mutant of Layered: the first role of a name stays.
LayeredFirst(lib, f, role) ==
  IF lib[role.name] # Absent THEN lib
  ELSE [lib EXCEPT ![role.name] = [role |-> role, file |-> f]]

\* Mutant of Layered: source stays that of the role it replaces.
LayeredKeepsSource(lib, f, role) ==
  [lib EXCEPT ![role.name] = [role |-> role, file |-> IF @ = Absent THEN f ELSE @.file]]

\* insert: a role found later replaces one of the same name.
Layered(lib, f, role) == [lib EXCEPT ![role.name] = [role |-> role, file |-> f]]

\* list_roles and export_team: a workspace that has roles shows only those.
Visible(lib) ==
  IF \E n \in Name : Scoped(lib, n)
    THEN [n \in Name |-> IF Scoped(lib, n) THEN lib[n] ELSE Absent]
    ELSE lib

Busy(c) == call[c].pc # "idle"
Writes(o) == o # "read"
WritersBut(c) == {k \in Call \ {c} : Busy(k) /\ Writes(call[k].op)}

NoFiles == [f \in File |-> Absent]

Idle ==
  [op |-> "read", pc |-> "idle", lib |-> None, todo |-> {}, queue |-> {},
   open |-> NoWrite, linked |-> "no", steady |-> {}, left |-> {},
   team |-> {}, before |-> NoFiles, alone |-> "no"]

FilesInit ==
  /\ disk \in FirstDisk
  /\ shared = LoadDefaults(disk)
  /\ call = [c \in Call |-> Idle]
  /\ begun = 0

-----------------------------------------------------------------------------
TeamWrites(team) == {[file |-> FileOf[r.name], role |-> r] : r \in team}

\* A handler starts. For the ghosts: it is alone if no writer is under way,
\* and a writer ends the solitude of the others.
Begin(c, o, p, lib, todo, team) ==
  /\ ~Busy(c)
  /\ begun < MaxCalls
  /\ begun' = begun + 1
  /\ call' = [k \in Call |->
       IF k # c THEN [call[k] EXCEPT !.alone = IF Writes(o) THEN "no" ELSE @]
       ELSE [op |-> o, pc |-> p, lib |-> lib, todo |-> todo, queue |-> TeamWrites(team),
             open |-> NoWrite, linked |-> "no", left |-> {},
             steady |-> IF o = "read" THEN Readable(disk, WsFile) ELSE {},
             team |-> IF o = "replace" THEN team ELSE {},
             before |-> IF o \in PmOp THEN disk ELSE NoFiles,
             alone |-> IF WritersBut(c) = {} THEN "yes" ELSE "no"]]
  /\ UNCHANGED <<disk, shared>>

\* purge_role_yamls lists the directory and removes each file; then write_role
\* for each role of the team.
Replace(c, team) == Begin(c, "replace", "removing", None, Listed(disk, WsFile), team)
Merge(c, team) == Begin(c, "merge", "writing", None, {}, team)

\* After the PM's analysis, which may take minutes and may fail.
ApplyTeam(c, team) == Replace(c, team)

\* In a new directory or in one that is somebody's workspace already.
ScaffoldProject(c, team) == Replace(c, team)

ImportTeam(c, team) == Replace(c, team) \/ Merge(c, team)

AddRole(c, r) == Merge(c, {r})

\* The paths are formed from the name as it is, not from sanitize_name.
DeleteRole(c, n) == Begin(c, "delete", "removing", None, OwnFiles[n], {})

\* effective_roles and with_workspace.
Load(c, o) == Begin(c, o, "loading", shared, Listed(disk, WsFile), {})

ListRoles(c) == Load(c, "read")
ExportTeam(c) == Load(c, "read")

\* The five calls of the PM that end in new kickoffs: for an issue or a feature
\* by request, for a blocker or a scaffold on their own, and for one role.
OrchestrateIssue(c) == Load(c, "plan")
OrchestrateFeature(c) == Load(c, "plan")
BlockerPublished(c) == Load(c, "plan")
PlanScaffold(c) == Load(c, "plan")
RegenerateKickoff(c) == Load(c, "kickoff")

-----------------------------------------------------------------------------
\* Somebody but c touches file f. Handles on a file that loses its name go on
\* writing into a file nobody can find.
Touched(f, unlinks) ==
  [k \in Call |->
    [call[k] EXCEPT
      !.steady = @ \ {f},
      !.linked = IF unlinks /\ call[k].open # NoWrite /\ call[k].open.file = f
                   THEN "no" ELSE @]]

RemoveOne(c, f) ==
  /\ call[c].pc = "removing" /\ f \in call[c].todo
  /\ disk' = [disk EXCEPT ![f] = Absent]
  /\ call' = [Touched(f, TRUE) EXCEPT ![c].todo = @ \ {f}]
  /\ UNCHANGED <<shared, begun>>

\* The error is ignored, that of listing the directory too: the file stays, and
\* the handler goes on.
RemoveFails(c, f) ==
  /\ call[c].pc = "removing" /\ f \in call[c].todo
  /\ call' = [call EXCEPT ![c].todo = @ \ {f}, ![c].left = @ \cup {f}]
  /\ UNCHANGED <<disk, shared, begun>>

RemoveDone(c) ==
  /\ call[c].pc = "removing" /\ call[c].todo = {}
  /\ call' = [call EXCEPT ![c] = IF @.op = "delete" THEN Idle ELSE [@ EXCEPT !.pc = "writing"]]
  /\ UNCHANGED <<disk, shared, begun>>

\* fs::write opens the file, which creates or truncates it ...
OpenFile(c, w) ==
  /\ call[c].pc = "writing" /\ call[c].open = NoWrite
  /\ w \in call[c].queue
  /\ disk' = [disk EXCEPT ![w.file] = Empty]
  /\ call' = [Touched(w.file, FALSE) EXCEPT ![c].open = w, ![c].linked = "yes"]
  /\ UNCHANGED <<shared, begun>>

\* ... and writes from its start. If somebody else has written since, and more,
\* the end of the other text stays.
Outcome(c) ==
  IF disk[call[c].open.file] = Empty THEN {call[c].open.role}
  ELSE {call[c].open.role, Mixed}

Closed(c, after) ==
  [after EXCEPT ![c].queue = @ \ {call[c].open}, ![c].open = NoWrite, ![c].linked = "no"]

Fill(c) ==
  /\ call[c].open # NoWrite
  /\ LET f == call[c].open.file
     IN IF call[c].linked = "no"
          THEN disk' = disk /\ call' = Closed(c, call)
          ELSE /\ \E x \in Outcome(c) : disk' = [disk EXCEPT ![f] = x]
               /\ call' = Closed(c, Touched(f, FALSE))
  /\ UNCHANGED <<shared, begun>>

\* The disk is full, or the directory is gone. The PM's writes ignore it and
\* go on; write_role's error ends the others in the middle of their team.
WriteFails(c, w) ==
  /\ call[c].pc = "writing" /\ w \in call[c].queue
  /\ call[c].open \in {NoWrite, w}
  /\ call' = [call EXCEPT ![c] =
       IF @.op \notin PmOp THEN Idle
       ELSE [@ EXCEPT !.queue = call[c].queue \ {w}, !.open = NoWrite,
                      !.linked = "no", !.alone = "no"]]
  /\ UNCHANGED <<disk, shared, begun>>

Written(c) == call[c].pc = "writing" /\ call[c].queue = {}

WriteDone(c) ==
  /\ Written(c)
  /\ call' = [call EXCEPT ![c] = Idle]
  /\ UNCHANGED <<disk, shared, begun>>

-----------------------------------------------------------------------------
\* A file that is gone since the listing, or does not parse, is skipped.
LoadOne(c, f) ==
  /\ call[c].pc = "loading" /\ f \in call[c].todo
  /\ call' = [call EXCEPT
       ![c].todo = @ \ {f},
       ![c].lib = IF disk[f] \in Role THEN Layered(@, f, disk[f]) ELSE @]
  /\ UNCHANGED <<disk, shared, begun>>

AllLoaded(c) == call[c].pc = "loading" /\ call[c].todo = {}

LoadDone(c) ==
  /\ AllLoaded(c)
  /\ call' = [call EXCEPT ![c] =
       IF @.op = "read" THEN Idle ELSE [@ EXCEPT !.pc = "thinking"]]
  /\ UNCHANGED <<disk, shared, begun>>

\* Mutant of PlanWrites: roles are written where write_role would put them.
PlanWritesByName(lib, tasks) ==
  {[file |-> FileOf[n], role |-> [lib[n].role EXCEPT !.kick = tasks[n]]] :
     n \in {m \in DOMAIN tasks : lib[m] # Absent}}

\* Mutant of PlanWrites: the place a role came from goes into its file.
PlanWritesSource(lib, tasks) ==
  {[file |-> lib[n].file, role |-> lib[n]] : n \in {m \in DOMAIN tasks : lib[m] # Absent}}

\* The provider names roles and gives each a new kickoff. Whichever of them are
\* in the library, the shared one included, are written back to their source as
\* they were loaded, kickoff apart.
PlanWrites(lib, tasks) ==
  {[file |-> lib[n].file, role |-> [lib[n].role EXCEPT !.kick = tasks[n]]] :
     n \in {m \in DOMAIN tasks : lib[m] # Absent}}

NewKickoffs(c, tasks) ==
  /\ call[c].pc = "thinking"
  /\ call' = [call EXCEPT ![c].pc = "writing", ![c].queue = PlanWrites(call[c].lib, tasks),
                          ![c].lib = None]
  /\ UNCHANGED <<disk, shared, begun>>

PmAnswers(c, tasks) == call[c].op = "plan" /\ NewKickoffs(c, tasks)

KickoffAnswer(c, n, k) ==
  /\ call[c].op = "kickoff" /\ call[c].lib[n] # Absent
  /\ NewKickoffs(c, [m \in {n} |-> k])

\* No such role, no such provider, a failed request, an answer without JSON.
PmFails(c) ==
  /\ call[c].pc = "thinking"
  /\ call' = [call EXCEPT ![c] = Idle]
  /\ UNCHANGED <<disk, shared, begun>>

\* The daemon stops and starts: calls are gone, open files stay as they are.
FilesRestart ==
  /\ \E c \in Call : Busy(c)
  /\ shared' = LoadDefaults(disk)
  /\ call' = [c \in Call |-> Idle]
  /\ UNCHANGED <<disk, begun>>

FilesStep(c) ==
  \/ \E team \in Team : ApplyTeam(c, team) \/ ScaffoldProject(c, team) \/ ImportTeam(c, team)
  \/ \E team \in Team : \E r \in team : AddRole(c, r)
  \/ \E n \in Name : DeleteRole(c, n)
  \/ ListRoles(c) \/ ExportTeam(c)
  \/ OrchestrateIssue(c) \/ OrchestrateFeature(c) \/ BlockerPublished(c) \/ PlanScaffold(c)
  \/ RegenerateKickoff(c)
  \/ \E f \in File : RemoveOne(c, f) \/ RemoveFails(c, f) \/ LoadOne(c, f)
  \/ RemoveDone(c) \/ Fill(c) \/ WriteDone(c) \/ LoadDone(c) \/ PmFails(c)
  \/ \E w \in call[c].queue : OpenFile(c, w) \/ WriteFails(c, w)
  \/ \E tasks \in Plan : PmAnswers(c, tasks)
  \/ \E n \in Name, k \in Kick : KickoffAnswer(c, n, k)

FilesNext == (\E c \in Call : FilesStep(c)) \/ FilesRestart

FilesSpec == FilesInit /\ [][FilesNext]_filesVars

-----------------------------------------------------------------------------
\* with_workspace says that workspace roles override others with the same name.
\* Whoever lists or exports the team while others rewrite it gets the
\* workspace's own role for every file that was whole all the time, never the
\* shared one of the same name with its other permissions; and once one file is
\* whole, no shared role at all.
OverridesWin ==
  \A c \in Call : (AllLoaded(c) /\ call[c].op = "read") =>
    LET shown == Visible(call[c].lib)
    IN /\ \A f \in call[c].steady : Scoped(shown, disk[f].name)
       /\ call[c].steady # {} => \A n \in Name : shown[n] = Absent \/ Scoped(shown, n)

\* apply_team, scaffold_project and an import that replaces leave their team
\* behind, each role in a file that can be read, whatever was there before
\* (files a crash or two earlier writers damaged included), and nothing else but
\* the files they failed to remove, unless another writer ran at the same time:
\* they report success however many those are. (No two names of a team may share a file:
\* sanitize_name can map two names to one, and the later role wins.)
UndisturbedTeam ==
  \A c \in Call : (Written(c) /\ call[c].op = "replace" /\ call[c].alone = "yes") =>
    /\ \A f \in WsFile \ call[c].left : disk[f] \in call[c].team \cup {Absent}
    /\ \A r \in call[c].team : disk[FileOf[r.name]] = r

SameDefinition(x, y) == x = y \/ (x \in Role /\ y \in Role /\ x.name = y.name /\ x.body = y.body)

\* The PM's calls write a role back to the file it came from, with nothing but
\* its kickoff changed: with no other writer between the call's reading and its
\* last write, every file holds the definition it held before, and no file
\* appears. (A file that was unreadable may get its role back from the daemon's
\* memory.)
PlansChangeKickoffsOnly ==
  \A c \in Call : (Written(c) /\ call[c].op \in PmOp /\ call[c].alone = "yes") =>
    \A f \in File :
      call[c].before[f] \in Role \cup {Absent} => SameDefinition(disk[f], call[c].before[f])

\* The PM may write into the shared library, which every workspace uses. It
\* never changes what a role of the library is, whoever else writes, fails or
\* restarts: a workspace's version of a role does not get out of its workspace.
LibraryKeepsDefinitions ==
  \A n \in Name : shared[n] # Absent =>
    LET d == disk[shared[n].file]
    IN d \in Role => SameDefinition(d, shared[n].role)
=============================================================================
