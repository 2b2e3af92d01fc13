-------------------------- MODULE RoleFiles_proofs --------------------------
(***************************************************************************)
(* Four properties of RoleFiles hold for any files, names,                 *)
(* teams and plans, and for any number of handlers at the same time, with  *)
(* failing writes and restarts anywhere.                                   *)
(*                                                                         *)
(* Readers: a file that was whole all along is still to be loaded, or its  *)
(* role is in the reader's library under the workspace's scope, and stays  *)
(* so because only workspace files are loaded after.  Writers: whatever is *)
(* queued for a file of the shared library is that very role.              *)
(*                                                                         *)
(* UndisturbedTeam and PlansChangeKickoffsOnly follow what a handler that  *)
(* no other writer overlaps has done so far, part by part: nobody but it   *)
(* changes the disk.                                                       *)
(***************************************************************************)
EXTENDS RoleFiles, TLAPS

\* The library in memory knows each role by its name, and no two by one file.
SharedWellFormed ==
  /\ \A n \in Name : shared[n] # Absent =>
       shared[n].role.name = n /\ shared[n].file \in File \ WsFile
  /\ \A n, m \in Name :
       shared[n] # Absent /\ shared[m] # Absent /\ shared[n].file = shared[m].file => n = m

\* What a handler has loaded is the workspace's, or the shared role itself.
LoadedWellFormed ==
  \A c \in Call, n \in Name : call[c].lib[n] # Absent =>
    /\ call[c].lib[n].role.name = n
    /\ call[c].lib[n].file \in WsFile \/ call[c].lib[n] = shared[n]

\* A write that changes no definition of the shared library.
Harmless(w) ==
  \/ w.file \in WsFile
  \/ \E n \in Name :
       /\ shared[n] # Absent
       /\ w.file = shared[n].file
       /\ SameDefinition(w.role, shared[n].role)

WritesHarmless ==
  \A c \in Call :
    /\ call[c].todo \subseteq WsFile
    /\ \A w \in call[c].queue : Harmless(w)
    /\ call[c].open # NoWrite => call[c].pc = "writing" /\ call[c].open \in call[c].queue

\* A reader's steady files are whole, and loaded or still to be loaded.
SteadyFound ==
  \A c \in Call : \A f \in call[c].steady :
    /\ disk[f] \in Role
    /\ call[c].op = "read"
    /\ call[c].pc = "loading" =>
         f \in call[c].todo \/ Scoped(call[c].lib, disk[f].name)

FilesInv ==
  /\ FilesTypeOK
  /\ SharedWellFormed
  /\ LoadedWellFormed
  /\ WritesHarmless
  /\ LibraryKeepsDefinitions
  /\ SteadyFound

\* Every handler begins with an empty library or the shared one, and has only
\* workspace files to visit; and it begins with the part its call begins with.
Starts(c) ==
  \E o \in Op, p \in {"removing", "writing", "loading"}, lib \in {None, shared},
     todo \in SUBSET WsFile, team \in SUBSET Role :
    /\ Begin(c, o, p, lib, todo, team)
    /\ o = "read" => p = "loading" /\ todo = Listed(disk, WsFile)
    /\ o = "replace" => p = "removing" /\ todo = Listed(disk, WsFile) /\ team \in Team
    /\ o \in PmOp => p = "loading" /\ lib = shared
    /\ p = "removing" => o \in {"replace", "delete"}
    /\ p = "loading" => o \in PmOp \cup {"read"}
    /\ p = "writing" => o = "merge"

\* All eleven calls begin like that.
LEMMA BeginningsStart ==
  ASSUME FilesTypeOK, NEW c \in Call
  PROVE  /\ \A team \in Team : ApplyTeam(c, team) \/ ScaffoldProject(c, team)
                                 \/ ImportTeam(c, team) => Starts(c)
         /\ \A team \in Team : \A r \in team : AddRole(c, r) => Starts(c)
         /\ \A n \in Name : DeleteRole(c, n) => Starts(c)
         /\ ListRoles(c) \/ ExportTeam(c) \/ OrchestrateIssue(c) \/ OrchestrateFeature(c)
              \/ BlockerPublished(c) \/ PlanScaffold(c) \/ RegenerateKickoff(c) => Starts(c)
<1>1. Listed(disk, WsFile) \in SUBSET WsFile
  BY DEF Listed
<1>2. ASSUME NEW team \in SUBSET Role
      PROVE  (team \in Team /\ Replace(c, team)) \/ Merge(c, team) => Starts(c)
  BY <1>1 DEF Replace, Merge, Starts, Op, PmOp
<1>3. \A team \in Team : team \in SUBSET Role /\ \A r \in team : {r} \in SUBSET Role
  BY FilesAssumption DEF FilesAssumption
<1>4. ASSUME NEW n \in Name, DeleteRole(c, n) PROVE Starts(c)
  <2>1. OwnFiles[n] \in SUBSET WsFile
    BY FilesAssumption DEF FilesAssumption
  <2> QED
    BY <1>4, <2>1 DEF DeleteRole, Starts, Op, PmOp
<1>5. ASSUME NEW o \in PmOp \cup {"read"}, Load(c, o) PROVE Starts(c)
  BY <1>1, <1>5 DEF Load, Starts, Op, PmOp
<1> QED
  BY <1>2, <1>3, <1>4, <1>5 DEF ApplyTeam, ScaffoldProject, ImportTeam, AddRole, ListRoles,
    ExportTeam, OrchestrateIssue, OrchestrateFeature, BlockerPublished, PlanScaffold,
    RegenerateKickoff, PmOp

-----------------------------------------------------------------------------
(* types *)

\* load_defaults finds for each name a role of that name, in a shared file.
LEMMA DefaultsAreRoles ==
  ASSUME disk \in [File -> Content]
  PROVE  /\ LoadDefaults(disk) \in Library
         /\ \A n \in Name : LoadDefaults(disk)[n] # Absent =>
              /\ LoadDefaults(disk)[n].role.name = n
              /\ LoadDefaults(disk)[n].file \in File \ WsFile
              /\ disk[LoadDefaults(disk)[n].file] = LoadDefaults(disk)[n].role
<1> SUFFICES ASSUME NEW n \in Name
             PROVE  LET l == LoadDefaults(disk)[n]
                    IN /\ l \in Loaded \cup {Absent}
                       /\ l # Absent =>
                            /\ l.role.name = n
                            /\ l.file \in File \ WsFile
                            /\ disk[l.file] = l.role
  BY DEF LoadDefaults, Library
<1> DEFINE holding(fs) == {f \in fs : disk[f] \in Role /\ disk[f].name = n}
           bundled == holding(File \ (WsFile \cup UserFile))
           users == holding(UserFile)
           found == IF users # {} THEN users ELSE bundled
           g == CHOOSE f \in found : TRUE
<1>1. LoadDefaults(disk)[n] =
        IF users \cup bundled = {} THEN Absent ELSE [role |-> disk[g], file |-> g]
  BY DEF LoadDefaults
<1>2. CASE users \cup bundled = {}
  BY <1>1, <1>2
<1>3. CASE users \cup bundled # {}
  <2>1. g \in found
    BY <1>3
  <2>2. g \in File \ WsFile /\ disk[g] \in Role /\ disk[g].name = n
    BY <2>1, FilesAssumption DEF FilesAssumption
  <2>3. LoadDefaults(disk)[n] = [role |-> disk[g], file |-> g]
    BY <1>1, <1>3
  <2> QED
    BY <2>2, <2>3 DEF Loaded
<1> QED
  BY <1>2, <1>3

\* A handler that is not running, and a disk without files, have the right shape.
LEMMA IdleType ==
  Idle \in CallState /\ NoFiles \in [File -> Content]
  BY DEF Idle, CallState, Op, Pc, None, Library, NoFiles, Content

\* A handler that begins has the right shape, and so have the others.
LEMMA BeginType ==
  ASSUME FilesTypeOK, NEW c \in Call, Starts(c)
  PROVE  FilesTypeOK'
<1>1. PICK o \in Op, p \in {"removing", "writing", "loading"}, lib \in {None, shared},
           todo \in SUBSET WsFile, team \in SUBSET Role : Begin(c, o, p, lib, todo, team)
  BY DEF Starts
<1>2. /\ lib \in Library
      /\ todo \in SUBSET File
      /\ TeamWrites(team) \in SUBSET Write
  BY <1>1, FilesAssumption
  DEF FilesTypeOK, None, Library, TeamWrites, Write, FilesAssumption, Role
<1>3. ASSUME NEW k \in Call PROVE call'[k] \in CallState
  <2>1. CASE k = c
    BY <1>1, <1>2, <2>1, IdleType, FilesAssumption
    DEF Begin, CallState, Pc, Readable, FilesTypeOK, FilesAssumption
  <2>2. CASE k # c
    <3>1. call'[k] = [call[k] EXCEPT !.alone = IF o # "read" THEN "no" ELSE @]
      BY <1>1, <2>2 DEF Begin, Writes
    <3>2. call[k] \in CallState
      BY DEF FilesTypeOK
    <3>3. (IF o # "read" THEN "no" ELSE call[k].alone) \in {"yes", "no"}
      BY <3>2 DEF CallState
    <3> QED
      BY <3>1, <3>2, <3>3 DEF CallState
  <2> QED
    BY <2>1, <2>2
<1>4. call' \in [Call -> CallState]
  BY <1>1, <1>3 DEF Begin
<1>5. begun' \in 0..MaxCalls
  BY <1>1, FilesAssumption DEF Begin, FilesTypeOK, FilesAssumption
<1> QED
  BY <1>1, <1>4, <1>5 DEF Begin, FilesTypeOK

\* A beginning keeps the invariant: what it queues goes into the workspace, and
\* all the files it finds whole are still to be loaded.
LEMMA StartsKeeps ==
  ASSUME FilesInv, NEW c \in Call, Starts(c)
  PROVE  FilesInv'
<1>0. /\ FilesTypeOK /\ SharedWellFormed /\ LoadedWellFormed /\ WritesHarmless
      /\ LibraryKeepsDefinitions /\ SteadyFound
  BY DEF FilesInv
<1>1. PICK o \in Op, p \in {"removing", "writing", "loading"}, lib \in {None, shared},
           todo \in SUBSET WsFile, team \in SUBSET Role :
        /\ Begin(c, o, p, lib, todo, team)
        /\ o = "read" => p = "loading" /\ todo = Listed(disk, WsFile)
  BY DEF Starts
<1>2. disk' = disk /\ shared' = shared
  BY <1>1 DEF Begin
<1>3. /\ call'[c].op = o /\ call'[c].pc = p /\ call'[c].lib = lib /\ call'[c].todo = todo
      /\ call'[c].queue = TeamWrites(team) /\ call'[c].open = NoWrite
      /\ call'[c].steady = IF o = "read" THEN Readable(disk, WsFile) ELSE {}
  BY <1>1 DEF Begin
<1>4. ASSUME NEW k \in Call, k # c
      PROVE  /\ call'[k].op = call[k].op /\ call'[k].pc = call[k].pc
             /\ call'[k].lib = call[k].lib /\ call'[k].todo = call[k].todo
             /\ call'[k].queue = call[k].queue /\ call'[k].open = call[k].open
             /\ call'[k].steady = call[k].steady
  <2>1. call'[k] = [call[k] EXCEPT !.alone = IF o # "read" THEN "no" ELSE @]
    BY <1>1, <1>4 DEF Begin, Writes
  <2>2. call[k] \in CallState
    BY <1>0 DEF FilesTypeOK
  <2> QED
    BY <2>1, <2>2 DEF CallState
<1>5. FilesTypeOK'
  BY <1>0, BeginType
<1>6. SharedWellFormed'
  BY <1>0, <1>2 DEF SharedWellFormed
<1>7. LoadedWellFormed'
  <2> SUFFICES ASSUME NEW k \in Call, NEW n \in Name, call'[k].lib[n] # Absent
               PROVE  /\ call'[k].lib[n].role.name = n
                      /\ call'[k].lib[n].file \in WsFile \/ call'[k].lib[n] = shared[n]
    BY <1>2 DEF LoadedWellFormed
  <2>1. CASE k = c
    BY <1>0, <1>3, <2>1 DEF None, SharedWellFormed
  <2>2. CASE k # c
    BY <1>0, <1>4, <2>2 DEF LoadedWellFormed
  <2> QED
    BY <2>1, <2>2
<1>8. WritesHarmless'
  <2> SUFFICES ASSUME NEW k \in Call
               PROVE  /\ call'[k].todo \subseteq WsFile
                      /\ \A w \in call'[k].queue : Harmless(w)
                      /\ call'[k].open # NoWrite =>
                             call'[k].pc = "writing" /\ call'[k].open \in call'[k].queue
    BY <1>2 DEF WritesHarmless, Harmless
  <2>1. \A w \in TeamWrites(team) : Harmless(w)
    BY FilesAssumption DEF TeamWrites, Harmless, FilesAssumption, Role
  <2>2. CASE k = c
    BY <1>3, <2>1, <2>2
  <2>3. CASE k # c
    BY <1>0, <1>4, <2>3 DEF WritesHarmless
  <2> QED
    BY <2>2, <2>3
<1>9. LibraryKeepsDefinitions'
  BY <1>0, <1>2 DEF LibraryKeepsDefinitions
<1>10. SteadyFound'
  <2> SUFFICES ASSUME NEW k \in Call, NEW f \in call'[k].steady
               PROVE  /\ disk[f] \in Role
                      /\ call'[k].op = "read"
                      /\ call'[k].pc = "loading" =>
                           f \in call'[k].todo \/ Scoped(call'[k].lib, disk[f].name)
    BY <1>2 DEF SteadyFound, Scoped
  <2>1. CASE k = c
    <3>1. o = "read" /\ f \in Readable(disk, WsFile) /\ todo = Listed(disk, WsFile)
      BY <1>1, <1>3, <2>1
    <3>2. f \in todo
      BY <3>1, FilesAssumption DEF Readable, Listed, FilesAssumption
    <3> QED
      BY <1>3, <2>1, <3>1, <3>2 DEF Readable
  <2>2. CASE k # c
    BY <1>0, <1>4, <2>2 DEF SteadyFound
  <2> QED
    BY <2>1, <2>2
<1> QED
  BY <1>5, <1>6, <1>7, <1>8, <1>9, <1>10 DEF FilesInv

-----------------------------------------------------------------------------
(* steps of handlers that have begun *)

\* What none of them does: bring a role of another name or from elsewhere into
\* a library, visit more files, queue or write anything that is not harmless,
\* or lose sight of a steady file.
Gentle ==
  /\ FilesTypeOK' /\ shared' = shared
  /\ \A k \in Call, n \in Name :
       \/ call'[k].lib[n] \in {Absent, call[k].lib[n]}
       \/ call'[k].lib[n].role.name = n /\ call'[k].lib[n].file \in WsFile
  /\ \A k \in Call :
       /\ call'[k].todo \subseteq call[k].todo
       /\ \A w \in call'[k].queue : w \in call[k].queue \/ Harmless(w)
       /\ call'[k].open # NoWrite =>
              call'[k].pc = "writing" /\ call'[k].open \in call'[k].queue
  /\ \A g \in File :
       \/ disk'[g] = disk[g] \/ g \in WsFile \/ disk'[g] \notin Role
       \/ \E k \in Call : \E w \in call[k].queue : w.file = g /\ w.role = disk'[g]
  /\ \A k \in Call : \A f \in call'[k].steady :
       /\ f \in call[k].steady /\ disk'[f] = disk[f] /\ call'[k].op = call[k].op
       /\ call'[k].pc = "loading" =>
            /\ call[k].pc = "loading"
            /\ \/ f \in call'[k].todo \/ Scoped(call'[k].lib, disk[f].name)
               \/ f \notin call[k].todo /\ ~Scoped(call[k].lib, disk[f].name)

\* Gentle steps keep the invariant.
LEMMA GentleKeeps ==
  ASSUME FilesInv, Gentle
  PROVE  FilesInv'
<1>0. /\ FilesTypeOK /\ SharedWellFormed /\ LoadedWellFormed /\ WritesHarmless
      /\ LibraryKeepsDefinitions /\ SteadyFound /\ FilesTypeOK' /\ shared' = shared
  BY DEF FilesInv, Gentle
<1>1. SharedWellFormed'
  BY <1>0 DEF SharedWellFormed
<1>2. LoadedWellFormed'
  BY <1>0 DEF LoadedWellFormed, Gentle
<1>3. WritesHarmless'
  <2>1. ASSUME NEW k \in Call, NEW w \in call'[k].queue PROVE Harmless(w)'
    <3>1. Harmless(w)
      BY <1>0 DEF WritesHarmless, Gentle
    <3> QED
      BY <1>0, <3>1 DEF Harmless
  <2> QED
    BY <1>0, <2>1 DEF WritesHarmless, Gentle
<1>4. LibraryKeepsDefinitions'
  <2> SUFFICES ASSUME NEW n \in Name, shared[n] # Absent, disk'[shared[n].file] \in Role
               PROVE  SameDefinition(disk'[shared[n].file], shared[n].role)
    BY <1>0 DEF LibraryKeepsDefinitions
  <2> DEFINE g == shared[n].file
  <2>1. g \in File \ WsFile
    BY <1>0 DEF SharedWellFormed
  <2>2. CASE disk'[g] = disk[g]
    BY <1>0, <2>2 DEF LibraryKeepsDefinitions
  <2>3. CASE disk'[g] # disk[g]
    <3>1. PICK k \in Call : \E w \in call[k].queue : w.file = g /\ w.role = disk'[g]
      BY <2>1, <2>3 DEF Gentle
    <3>2. PICK w \in call[k].queue : w.file = g /\ w.role = disk'[g]
      BY <3>1
    <3>3. Harmless(w)
      BY <1>0 DEF WritesHarmless
    <3>4. PICK m \in Name : /\ shared[m] # Absent /\ w.file = shared[m].file
                            /\ SameDefinition(w.role, shared[m].role)
      BY <2>1, <3>2, <3>3 DEF Harmless
    <3>5. m = n
      BY <1>0, <3>2, <3>4 DEF SharedWellFormed
    <3> QED
      BY <3>2, <3>4, <3>5
  <2> QED
    BY <2>2, <2>3
<1>5. SteadyFound'
  <2> SUFFICES ASSUME NEW k \in Call, NEW f \in call'[k].steady
               PROVE  /\ disk'[f] \in Role
                      /\ call'[k].op = "read"
                      /\ call'[k].pc = "loading" =>
                           f \in call'[k].todo \/ Scoped(call'[k].lib, disk'[f].name)
    BY DEF SteadyFound, Scoped
  <2>1. f \in call[k].steady /\ disk'[f] = disk[f] /\ call'[k].op = call[k].op
    BY DEF Gentle
  <2>2. disk[f] \in Role /\ call[k].op = "read"
    BY <1>0, <2>1 DEF SteadyFound
  <2>3. call[k].pc = "loading" => f \in call[k].todo \/ Scoped(call[k].lib, disk[f].name)
    BY <1>0, <2>1 DEF SteadyFound
  <2>4. call'[k].pc = "loading" =>
          f \in call'[k].todo \/ Scoped(call'[k].lib, disk[f].name)
    BY <2>3 DEF Gentle
  <2> QED
    BY <2>1, <2>2, <2>4
<1> QED
  BY <1>0, <1>1, <1>2, <1>3, <1>4, <1>5 DEF FilesInv
-----------------------------------------------------------------------------
(* each of the steps *)

\* Touching a file changes nothing of a handler but two fields.
LEMMA TouchedFields ==
  ASSUME FilesTypeOK, NEW f \in File, NEW k \in Call
  PROVE  /\ \E l \in {"yes", "no"} :
              Touched(f, TRUE)[k] = [call[k] EXCEPT !.steady = @ \ {f}, !.linked = l]
         /\ \E l \in {"yes", "no"} :
              Touched(f, FALSE)[k] = [call[k] EXCEPT !.steady = @ \ {f}, !.linked = l]
<1>1. call[k] \in CallState
  BY DEF FilesTypeOK
<1>2. Touched(f, FALSE)[k] = [call[k] EXCEPT !.steady = @ \ {f}, !.linked = call[k].linked]
  BY <1>1 DEF Touched
<1>3. CASE call[k].open # NoWrite /\ call[k].open.file = f
  <2>1. Touched(f, TRUE)[k] = [call[k] EXCEPT !.steady = @ \ {f}, !.linked = "no"]
    BY <1>1, <1>3 DEF Touched
  <2> QED
    BY <1>1, <1>2, <2>1 DEF CallState
<1>4. CASE ~(call[k].open # NoWrite /\ call[k].open.file = f)
  <2>1. Touched(f, TRUE)[k] = [call[k] EXCEPT !.steady = @ \ {f}, !.linked = call[k].linked]
    BY <1>1, <1>4 DEF Touched
  <2> QED
    BY <1>1, <1>2, <2>1 DEF CallState
<1> QED
  BY <1>3, <1>4

\* The same for all handlers at once.
LEMMA TouchedType ==
  ASSUME FilesTypeOK, NEW f \in File, NEW t \in {Touched(f, TRUE), Touched(f, FALSE)}
  PROVE  /\ t \in [Call -> CallState]
         /\ \A k \in Call :
              /\ t[k].op = call[k].op /\ t[k].pc = call[k].pc /\ t[k].lib = call[k].lib
              /\ t[k].todo = call[k].todo /\ t[k].queue = call[k].queue
              /\ t[k].open = call[k].open /\ t[k].steady = call[k].steady \ {f}
<1>1. ASSUME NEW k \in Call
      PROVE  /\ t[k] \in CallState
             /\ t[k].op = call[k].op /\ t[k].pc = call[k].pc /\ t[k].lib = call[k].lib
             /\ t[k].todo = call[k].todo /\ t[k].queue = call[k].queue
             /\ t[k].open = call[k].open /\ t[k].steady = call[k].steady \ {f}
  <2>1. PICK l \in {"yes", "no"} : t[k] = [call[k] EXCEPT !.steady = @ \ {f}, !.linked = l]
    BY TouchedFields
  <2>2. call[k] \in CallState
    BY DEF FilesTypeOK
  <2> QED
    BY <2>1, <2>2 DEF CallState
<1>2. DOMAIN t = Call /\ t = [k \in Call |-> t[k]]
  BY DEF Touched
<1> QED
  BY <1>1, <1>2

\* A step that touches a file: what it does to its own handler, given as x, and
\* to the file.
LEMMA TouchGentle ==
  ASSUME FilesInv, NEW c \in Call, NEW f \in File, NEW d \in Content, NEW x \in CallState,
         NEW t \in {Touched(f, TRUE), Touched(f, FALSE)},
         call' = [t EXCEPT ![c] = x], disk' = [disk EXCEPT ![f] = d],
         shared' = shared, begun' = begun,
         x.op = call[c].op, x.pc = call[c].pc, x.lib = call[c].lib,
         x.steady = call[c].steady \ {f},
         x.todo \subseteq call[c].todo, call[c].todo \subseteq x.todo \cup {f},
         x.queue \subseteq call[c].queue, x.open # NoWrite =>
                x.pc = "writing" /\ x.open \in x.queue,
         \/ d \notin Role \/ f \in WsFile
         \/ \E w \in call[c].queue : w.file = f /\ w.role = d
  PROVE  Gentle
<1>0. FilesTypeOK /\ WritesHarmless
  BY DEF FilesInv
<1>1. /\ t \in [Call -> CallState]
      /\ \A k \in Call :
           /\ t[k].op = call[k].op /\ t[k].pc = call[k].pc /\ t[k].lib = call[k].lib
           /\ t[k].todo = call[k].todo /\ t[k].queue = call[k].queue
           /\ t[k].open = call[k].open /\ t[k].steady = call[k].steady \ {f}
  BY <1>0, TouchedType
<1>2. FilesTypeOK'
  BY <1>0, <1>1 DEF FilesTypeOK
<1>3. ASSUME NEW k \in Call
      PROVE  /\ call'[k].op = call[k].op /\ call'[k].pc = call[k].pc
             /\ call'[k].lib = call[k].lib /\ call'[k].steady = call[k].steady \ {f}
             /\ call'[k].todo \subseteq call[k].todo
             /\ call[k].todo \subseteq call'[k].todo \cup {f}
             /\ call'[k].queue \subseteq call[k].queue
             /\ call'[k].open # NoWrite =>
                    call'[k].pc = "writing" /\ call'[k].open \in call'[k].queue
  <2>1. call'[k] = IF k = c THEN x ELSE t[k]
    BY <1>1
  <2>2. CASE k = c
    BY <2>1, <2>2
  <2>3. CASE k # c
    <3>1. call'[k] = t[k] /\ (call[k].open # NoWrite =>
           call[k].pc = "writing" /\ call[k].open \in call[k].queue)
      BY <1>0, <2>1, <2>3 DEF WritesHarmless
    <3> QED
      BY <1>1, <3>1
  <2> QED
    BY <2>2, <2>3
<1>4. ASSUME NEW k \in Call, NEW g \in call'[k].steady
      PROVE  /\ g \in call[k].steady /\ disk'[g] = disk[g] /\ call'[k].op = call[k].op
             /\ call'[k].pc = "loading" =>
                  /\ call[k].pc = "loading"
                  /\ \/ g \in call'[k].todo \/ Scoped(call'[k].lib, disk[g].name)
                     \/ g \notin call[k].todo /\ ~Scoped(call[k].lib, disk[g].name)
  <2>1. g \in call[k].steady /\ g # f
    BY <1>3, <1>4
  <2>2. disk'[g] = disk[g]
    BY <1>0, <2>1 DEF FilesTypeOK
  <2>3. call'[k].lib = call[k].lib /\ (g \in call[k].todo => g \in call'[k].todo)
    BY <1>3, <2>1
  <2>4. \/ g \in call'[k].todo \/ Scoped(call'[k].lib, disk[g].name)
        \/ g \notin call[k].todo /\ ~Scoped(call[k].lib, disk[g].name)
    BY <2>3
  <2> QED
    BY <1>3, <2>1, <2>2, <2>4
<1>5. ASSUME NEW g \in File
      PROVE  \/ disk'[g] = disk[g] \/ g \in WsFile \/ disk'[g] \notin Role
             \/ \E k \in Call : \E w \in call[k].queue : w.file = g /\ w.role = disk'[g]
  <2>1. disk'[g] = IF g = f THEN d ELSE disk[g]
    BY <1>0 DEF FilesTypeOK
  <2> QED
    BY <2>1
<1>6. \A k \in Call, n \in Name : call'[k].lib[n] \in {Absent, call[k].lib[n]}
  BY <1>3
<1>7. \A k \in Call :
       /\ call'[k].todo \subseteq call[k].todo
       /\ \A w \in call'[k].queue : w \in call[k].queue
       /\ call'[k].open # NoWrite =>
              call'[k].pc = "writing" /\ call'[k].open \in call'[k].queue
  BY <1>3
<1> QED
  BY <1>2, <1>4, <1>5, <1>6, <1>7 DEF Gentle

\* A step that touches no file.
LEMMA CallGentle ==
  ASSUME FilesInv, NEW c \in Call, NEW x \in CallState,
         call' = [call EXCEPT ![c] = x], UNCHANGED <<disk, shared, begun>>,
         \A n \in Name : \/ x.lib[n] \in {Absent, call[c].lib[n]}
                         \/ x.lib[n].role.name = n /\ x.lib[n].file \in WsFile,
         x.todo \subseteq call[c].todo,
         \A w \in x.queue : w \in call[c].queue \/ Harmless(w),
         x.open # NoWrite => x.pc = "writing" /\ x.open \in x.queue,
         \A f \in x.steady :
           /\ f \in call[c].steady /\ x.op = call[c].op
           /\ x.pc = "loading" =>
                /\ call[c].pc = "loading"
                /\ \/ f \in x.todo \/ Scoped(x.lib, disk[f].name)
                   \/ f \notin call[c].todo /\ ~Scoped(call[c].lib, disk[f].name)
  PROVE  Gentle
<1>0. FilesTypeOK /\ WritesHarmless
  BY DEF FilesInv
<1>1. FilesTypeOK'
  BY <1>0 DEF FilesTypeOK
<1>2. \A k \in Call : call'[k] = IF k = c THEN x ELSE call[k]
  BY <1>0 DEF FilesTypeOK
<1>3. ASSUME NEW k \in Call, k # c
      PROVE  /\ call'[k] = call[k]
             /\ call[k].open # NoWrite =>
                    call[k].pc = "writing" /\ call[k].open \in call[k].queue
  BY <1>0, <1>2, <1>3 DEF WritesHarmless
<1>4. call'[c] = x
  BY <1>2
<1>5. \A k \in Call, n \in Name :
       \/ call'[k].lib[n] \in {Absent, call[k].lib[n]}
       \/ call'[k].lib[n].role.name = n /\ call'[k].lib[n].file \in WsFile
  BY <1>3, <1>4
<1>6. \A k \in Call :
       /\ call'[k].todo \subseteq call[k].todo
       /\ \A w \in call'[k].queue : w \in call[k].queue \/ Harmless(w)
       /\ call'[k].open # NoWrite =>
              call'[k].pc = "writing" /\ call'[k].open \in call'[k].queue
  BY <1>3, <1>4
<1>7. ASSUME NEW k \in Call, NEW f \in call'[k].steady
      PROVE  /\ f \in call[k].steady /\ disk'[f] = disk[f] /\ call'[k].op = call[k].op
             /\ call'[k].pc = "loading" =>
                  /\ call[k].pc = "loading"
                  /\ \/ f \in call'[k].todo \/ Scoped(call'[k].lib, disk[f].name)
                     \/ f \notin call[k].todo /\ ~Scoped(call[k].lib, disk[f].name)
  <2>1. CASE k = c
    BY <1>4, <1>7, <2>1
  <2>2. CASE k # c
    <3>1. call'[k] = call[k]
      BY <1>3, <2>2
    <3>2. \/ f \in call'[k].todo \/ Scoped(call'[k].lib, disk[f].name)
          \/ f \notin call[k].todo /\ ~Scoped(call[k].lib, disk[f].name)
      BY <3>1
    <3> QED
      BY <3>1, <3>2, <1>7
  <2> QED
    BY <2>1, <2>2
<1> QED
  BY <1>1, <1>5, <1>6, <1>7 DEF Gentle

\* Removals only concern workspace files.
LEMMA RemoveGentle ==
  ASSUME FilesInv, NEW c \in Call, NEW f \in File, RemoveOne(c, f)
  PROVE  Gentle
<1>0. FilesTypeOK /\ WritesHarmless /\ call[c] \in CallState
  BY DEF FilesInv, FilesTypeOK
<1>1. f \in WsFile /\ Absent \in Content
  BY <1>0 DEF WritesHarmless, RemoveOne, Content
<1>2. PICK l \in {"yes", "no"} :
        Touched(f, TRUE)[c] = [call[c] EXCEPT !.steady = @ \ {f}, !.linked = l]
  BY <1>0, TouchedFields
<1> DEFINE x == [Touched(f, TRUE)[c] EXCEPT !.todo = @ \ {f}]
<1>3. /\ x \in CallState
      /\ x.op = call[c].op /\ x.pc = call[c].pc /\ x.lib = call[c].lib
      /\ x.steady = call[c].steady \ {f} /\ x.todo = call[c].todo \ {f}
      /\ x.queue = call[c].queue /\ x.open = call[c].open
  <2>1. x = [call[c] EXCEPT !.steady = @ \ {f}, !.linked = l, !.todo = @ \ {f}]
    BY <1>0, <1>2 DEF CallState
  <2> HIDE DEF x
  <2> QED
    BY <1>0, <2>1 DEF CallState
<1>4. call' = [Touched(f, TRUE) EXCEPT ![c] = x]
  BY DEF RemoveOne, Touched
<1>5. x.open # NoWrite => x.pc = "writing" /\ x.open \in x.queue
  BY <1>0, <1>3 DEF WritesHarmless
<1>6. disk' = [disk EXCEPT ![f] = Absent] /\ shared' = shared /\ begun' = begun
  BY DEF RemoveOne
<1> HIDE DEF x
<1>7. x.todo \subseteq call[c].todo /\ call[c].todo \subseteq x.todo \cup {f}
  BY <1>3
<1> QED
  BY <1>1, <1>3, <1>4, <1>5, <1>6, <1>7, TouchGentle

\* A removal that fails touches no file.
LEMMA RemoveFailsGentle ==
  ASSUME FilesInv, NEW c \in Call, NEW f \in File, RemoveFails(c, f)
  PROVE  Gentle
<1>0. FilesTypeOK /\ WritesHarmless /\ call[c] \in CallState /\ call[c].pc = "removing"
  BY DEF FilesInv, FilesTypeOK, RemoveFails
<1> DEFINE x == [call[c] EXCEPT !.todo = @ \ {f}, !.left = @ \cup {f}]
<1>1. /\ x \in CallState
      /\ x.op = call[c].op /\ x.pc = "removing" /\ x.lib = call[c].lib
      /\ x.steady = call[c].steady /\ x.todo \subseteq call[c].todo
      /\ x.queue = call[c].queue /\ x.open = call[c].open
  BY <1>0 DEF CallState
<1>2. call' = [call EXCEPT ![c] = x] /\ UNCHANGED <<disk, shared, begun>>
  BY DEF RemoveFails
<1> HIDE DEF x
<1>3. call[c].open = NoWrite
  BY <1>0 DEF WritesHarmless
<1> QED
  BY <1>1, <1>2, <1>3, CallGentle

\* A truncated file holds no role.
LEMMA OpenGentle ==
  ASSUME FilesInv, NEW c \in Call, NEW w \in call[c].queue, OpenFile(c, w)
  PROVE  Gentle
<1>0. FilesTypeOK /\ call[c] \in CallState /\ call[c].pc = "writing"
  BY DEF FilesInv, FilesTypeOK, OpenFile
<1> DEFINE f == w.file
<1>1. w \in Write /\ f \in File /\ Empty \in Content /\ Empty \notin Role
  BY <1>0, FilesAssumption DEF CallState, Write, Content, FilesAssumption
<1>2. PICK l \in {"yes", "no"} :
        Touched(f, FALSE)[c] = [call[c] EXCEPT !.steady = @ \ {f}, !.linked = l]
  BY <1>0, <1>1, TouchedFields
<1> DEFINE x == [Touched(f, FALSE)[c] EXCEPT !.open = w, !.linked = "yes"]
<1>3. /\ x \in CallState
      /\ x.op = call[c].op /\ x.pc = call[c].pc /\ x.lib = call[c].lib
      /\ x.steady = call[c].steady \ {f} /\ x.todo = call[c].todo
      /\ x.queue = call[c].queue /\ x.open = w
  <2>1. x = [call[c] EXCEPT !.steady = @ \ {f}, !.open = w, !.linked = "yes"]
    BY <1>0, <1>2 DEF CallState
  <2> HIDE DEF x, f
  <2> QED
    BY <1>0, <1>1, <2>1 DEF CallState
<1>4. call' = [Touched(f, FALSE) EXCEPT ![c] = x]
  BY DEF OpenFile, Touched
<1>6. disk' = [disk EXCEPT ![f] = Empty] /\ shared' = shared /\ begun' = begun
  BY DEF OpenFile
<1> HIDE DEF x, f
<1>7. x.todo \subseteq call[c].todo /\ call[c].todo \subseteq x.todo \cup {f}
  BY <1>3
<1>8. x.pc = "writing" /\ x.open \in x.queue
  BY <1>0, <1>3
<1> QED
  BY <1>1, <1>3, <1>4, <1>6, <1>7, <1>8, TouchGentle

\* What is written was in the queue, unless it is no role or nobody finds it.
LEMMA FillGentle ==
  ASSUME FilesInv, NEW c \in Call, Fill(c)
  PROVE  Gentle
<1>0. FilesTypeOK /\ WritesHarmless /\ call[c] \in CallState
  BY DEF FilesInv, FilesTypeOK
<1> DEFINE w == call[c].open
           f == w.file
<1>1. w # NoWrite /\ w \in call[c].queue /\ shared' = shared /\ begun' = begun
  BY <1>0 DEF Fill, WritesHarmless
<1>2. w \in Write /\ f \in File /\ w.role \in Role
  BY <1>0, <1>1 DEF CallState, Write
<1>3. CASE call[c].linked = "no"
  <2> DEFINE x == [call[c] EXCEPT !.queue = @ \ {w}, !.open = NoWrite, !.linked = "no"]
  <2>1. /\ x \in CallState
        /\ x.op = call[c].op /\ x.pc = call[c].pc /\ x.lib = call[c].lib
        /\ x.steady = call[c].steady /\ x.todo = call[c].todo
        /\ x.queue = call[c].queue \ {w} /\ x.open = NoWrite
    BY <1>0 DEF CallState
  <2>2. call' = [call EXCEPT ![c] = x] /\ disk' = disk
    BY <1>0, <1>3 DEF Fill, Closed, FilesTypeOK
  <2> HIDE DEF x
  <2>3. \A g \in x.steady :
          \/ g \in x.todo \/ Scoped(x.lib, disk[g].name)
          \/ g \notin call[c].todo /\ ~Scoped(call[c].lib, disk[g].name)
    BY <2>1
  <2> QED
    BY <1>1, <2>1, <2>2, <2>3, CallGentle
<1>4. CASE call[c].linked # "no"
  <2>1. PICK d \in Outcome(c) : disk' = [disk EXCEPT ![f] = d]
    BY <1>4 DEF Fill
  <2>2. d \in Content /\ (d \notin Role \/ w.role = d)
    BY <1>2, <2>1, FilesAssumption DEF Outcome, Content, FilesAssumption
  <2>3. PICK l \in {"yes", "no"} :
          Touched(f, FALSE)[c] = [call[c] EXCEPT !.steady = @ \ {f}, !.linked = l]
    BY <1>0, <1>2, TouchedFields
  <2> DEFINE x == [Touched(f, FALSE)[c] EXCEPT !.queue = @ \ {w}, !.open = NoWrite,
                                               !.linked = "no"]
  <2>4. /\ x \in CallState
        /\ x.op = call[c].op /\ x.pc = call[c].pc /\ x.lib = call[c].lib
        /\ x.steady = call[c].steady \ {f} /\ x.todo = call[c].todo
        /\ x.queue = call[c].queue \ {w} /\ x.open = NoWrite
    <3>1. x = [call[c] EXCEPT !.steady = @ \ {f}, !.queue = @ \ {w}, !.open = NoWrite,
                              !.linked = "no"]
      BY <1>0, <2>3 DEF CallState
    <3> HIDE DEF x, f, w
    <3> QED
      BY <1>0, <3>1 DEF CallState
  <2>5. call' = [Touched(f, FALSE) EXCEPT ![c] = x]
    BY <1>4 DEF Fill, Closed, Touched
  <2> HIDE DEF x
  <2>6. x.todo \subseteq call[c].todo /\ call[c].todo \subseteq x.todo \cup {f}
    BY <2>4
  <2>7. \/ d \notin Role \/ f \in WsFile
        \/ \E v \in call[c].queue : v.file = f /\ v.role = d
    BY <1>1, <2>2
  <2> QED
    BY <1>1, <1>2, <2>1, <2>2, <2>4, <2>5, <2>6, <2>7, TouchGentle
<1> QED
  BY <1>3, <1>4

\* A handler that ends, whatever it was doing.
LEMMA EndGentle ==
  ASSUME FilesInv, NEW c \in Call, call' = [call EXCEPT ![c] = Idle],
         UNCHANGED <<disk, shared, begun>>
  PROVE  Gentle
<1>1. /\ \A n \in Name : Idle.lib[n] = Absent
      /\ Idle.todo = {} /\ Idle.queue = {} /\ Idle.open = NoWrite /\ Idle.steady = {}
  BY DEF Idle, None
<1> QED
  BY <1>1, IdleType, CallGentle, ZenonT(60)

\* A handler that goes on to another part of its work, with what it has.
LEMMA NextPartGentle ==
  ASSUME FilesInv, NEW c \in Call, NEW p \in Pc, p # "loading", call[c].open = NoWrite,
         call' = [call EXCEPT ![c] = [@ EXCEPT !.pc = p]], UNCHANGED <<disk, shared, begun>>
  PROVE  Gentle
<1>0. FilesTypeOK /\ WritesHarmless /\ call[c] \in CallState
  BY DEF FilesInv, FilesTypeOK
<1> DEFINE x == [call[c] EXCEPT !.pc = p]
<1>1. /\ x \in CallState
      /\ x.op = call[c].op /\ x.pc = p /\ x.lib = call[c].lib
      /\ x.steady = call[c].steady /\ x.todo = call[c].todo
      /\ x.queue = call[c].queue /\ x.open = call[c].open
  BY <1>0 DEF CallState
<1>2. x.open # NoWrite => x.pc = "writing" /\ x.open \in x.queue
  BY <1>0, <1>1 DEF WritesHarmless
<1>3. call' = [call EXCEPT ![c] = x]
  BY <1>0 DEF FilesTypeOK
<1> HIDE DEF x
<1> QED
  BY <1>1, <1>2, <1>3, CallGentle

\* A failed write is only dropped.
LEMMA WriteFailsGentle ==
  ASSUME FilesInv, NEW c \in Call, NEW w \in call[c].queue, WriteFails(c, w)
  PROVE  Gentle
<1>0. FilesTypeOK /\ call[c] \in CallState /\ call[c].pc = "writing"
  BY DEF FilesInv, FilesTypeOK, WriteFails
<1>1. CASE call[c].op \notin PmOp
  <2>1. call' = [call EXCEPT ![c] = Idle] /\ UNCHANGED <<disk, shared, begun>>
    BY <1>1 DEF WriteFails
  <2> QED
    BY <2>1, EndGentle
<1>2. CASE call[c].op \in PmOp
  <2> DEFINE x == [call[c] EXCEPT !.queue = @ \ {w}, !.open = NoWrite, !.linked = "no",
                                  !.alone = "no"]
  <2>1. /\ x \in CallState
        /\ x.op = call[c].op /\ x.pc = "writing" /\ x.lib = call[c].lib
        /\ x.steady = call[c].steady /\ x.todo = call[c].todo
        /\ x.queue = call[c].queue \ {w} /\ x.open = NoWrite
    BY <1>0 DEF CallState
  <2>2. call' = [call EXCEPT ![c] = x] /\ UNCHANGED <<disk, shared, begun>>
    BY <1>2 DEF WriteFails
  <2> HIDE DEF x
  <2> QED
    BY <2>1, <2>2, CallGentle
<1> QED
  BY <1>1, <1>2

\* A loaded role comes from a workspace file, and is the steady role of it.
LEMMA LoadOneGentle ==
  ASSUME FilesInv, NEW c \in Call, NEW f \in File, LoadOne(c, f)
  PROVE  Gentle
<1>0. FilesTypeOK /\ WritesHarmless /\ call[c] \in CallState /\ call[c].pc = "loading"
  BY DEF FilesInv, FilesTypeOK, LoadOne
<1>1. f \in WsFile /\ f \in call[c].todo
  BY <1>0 DEF LoadOne, WritesHarmless
<1> DEFINE lib == IF disk[f] \in Role THEN Layered(call[c].lib, f, disk[f]) ELSE call[c].lib
           x == [call[c] EXCEPT !.todo = @ \ {f}, !.lib = lib]
<1>2. /\ lib \in Library
      /\ \A n \in Name : \/ lib[n] = call[c].lib[n]
                         \/ lib[n].role.name = n /\ lib[n].file \in WsFile /\ lib[n] \in Loaded
      /\ disk[f] \in Role => lib[disk[f].name] \in Loaded /\ lib[disk[f].name].file = f
  <2>1. CASE disk[f] \in Role
    <3>1. disk[f].name \in Name /\ call[c].lib \in Library
      BY <1>0, <2>1 DEF Role, CallState
    <3>2. [role |-> disk[f], file |-> f] \in Loaded
      BY <2>1 DEF Loaded
    <3>3. lib = [call[c].lib EXCEPT ![disk[f].name] = [role |-> disk[f], file |-> f]]
      BY <2>1 DEF Layered
    <3> QED
      BY <1>1, <3>1, <3>2, <3>3 DEF Library
  <2>2. CASE disk[f] \notin Role
    BY <1>0, <2>2 DEF CallState
  <2> QED
    BY <2>1, <2>2
<1> HIDE DEF lib
<1>3. /\ x \in CallState
      /\ x.op = call[c].op /\ x.pc = "loading" /\ x.lib = lib
      /\ x.steady = call[c].steady /\ x.todo = call[c].todo \ {f}
      /\ x.queue = call[c].queue /\ x.open = call[c].open
  BY <1>0, <1>2 DEF CallState
<1>4. call' = [call EXCEPT ![c] = x] /\ UNCHANGED <<disk, shared, begun>>
  BY DEF LoadOne, lib
<1>5. x.open # NoWrite => x.pc = "writing" /\ x.open \in x.queue
  BY <1>0, <1>3 DEF WritesHarmless
<1> HIDE DEF x
<1>6. ASSUME NEW g \in x.steady
      PROVE  \/ g \in x.todo \/ Scoped(x.lib, disk[g].name)
             \/ g \notin call[c].todo /\ ~Scoped(call[c].lib, disk[g].name)
  <2>1. disk[g] \in Role /\ disk[g].name \in Name
    BY <1>3 DEF FilesInv, SteadyFound, Role
  <2>2. Absent \notin Loaded
    BY FilesAssumption DEF FilesAssumption, Loaded
  <2>3. CASE g = f
    BY <1>1, <1>2, <1>3, <2>1, <2>2, <2>3 DEF Scoped
  <2>4. CASE g # f
    BY <1>2, <1>3, <2>1, <2>2, <2>4 DEF Scoped
  <2> QED
    BY <2>3, <2>4
<1>7. \A n \in Name : \/ x.lib[n] \in {Absent, call[c].lib[n]}
                      \/ x.lib[n].role.name = n /\ x.lib[n].file \in WsFile
  BY <1>2, <1>3
<1>8. x.todo \subseteq call[c].todo /\ \A w \in x.queue : w \in call[c].queue
  BY <1>3
<1>9. \A g \in x.steady : g \in call[c].steady /\ x.op = call[c].op
  BY <1>3
<1> QED
  BY <1>0, <1>3, <1>4, <1>5, <1>6, <1>7, <1>8, <1>9, CallGentle

\* The PM's answer, for roles the handler has loaded.
LEMMA NewKickoffsGentle ==
  ASSUME FilesInv, NEW c \in Call, NEW tasks, DOMAIN tasks \subseteq Name,
         \A n \in DOMAIN tasks : tasks[n] \in Kick, NewKickoffs(c, tasks)
  PROVE  Gentle
<1>0. /\ FilesTypeOK /\ WritesHarmless /\ LoadedWellFormed /\ call[c] \in CallState
      /\ call[c].pc = "thinking" /\ call[c].open = NoWrite
  BY DEF FilesInv, FilesTypeOK, NewKickoffs, WritesHarmless
<1> DEFINE lib == call[c].lib
           writes == PlanWrites(lib, tasks)
<1>1. ASSUME NEW w \in writes PROVE w \in Write /\ Harmless(w)
  <2>1. PICK n \in DOMAIN tasks :
          /\ lib[n] # Absent
          /\ w = [file |-> lib[n].file, role |-> [lib[n].role EXCEPT !.kick = tasks[n]]]
    BY DEF PlanWrites
  <2>2. n \in Name /\ lib[n] \in Loaded
    BY <1>0, <2>1 DEF CallState, Library
  <2>3. lib[n].role \in Role /\ lib[n].file \in File
    BY <2>2 DEF Loaded
  <2>4. /\ w.role \in Role /\ w.role.name = lib[n].role.name /\ w.role.body = lib[n].role.body
        /\ w.file = lib[n].file
    BY <2>1, <2>3 DEF Role
  <2>5. w \in Write
    BY <2>1, <2>3, <2>4 DEF Write
  <2>6. lib[n].file \in WsFile \/ lib[n] = shared[n]
    BY <1>0, <2>1, <2>2 DEF LoadedWellFormed
  <2>7. Harmless(w)
    BY <2>1, <2>2, <2>3, <2>4, <2>6 DEF Harmless, SameDefinition
  <2> QED
    BY <2>5, <2>7
<1> HIDE DEF writes
<1> DEFINE x == [call[c] EXCEPT !.pc = "writing", !.queue = writes, !.lib = None]
<1>2. None \in Library /\ \A n \in Name : None[n] = Absent
  BY DEF None, Library
<1>3. /\ x \in CallState
      /\ x.op = call[c].op /\ x.pc = "writing" /\ x.lib = None
      /\ x.steady = call[c].steady /\ x.todo = call[c].todo
      /\ x.queue = writes /\ x.open = call[c].open
  BY <1>0, <1>1, <1>2 DEF CallState, Pc
<1>4. call' = [call EXCEPT ![c] = x] /\ UNCHANGED <<disk, shared, begun>>
  BY <1>0 DEF NewKickoffs, writes, FilesTypeOK
<1> HIDE DEF x
<1>5. \A n \in Name : x.lib[n] = Absent
  BY <1>2, <1>3
<1>6. \A w \in x.queue : Harmless(w)
  BY <1>1, <1>3
<1>7. x.pc # "loading" /\ x.open = NoWrite
  BY <1>0, <1>3
<1> QED
  BY <1>3, <1>4, <1>5, <1>6, <1>7, CallGentle
-----------------------------------------------------------------------------
\* The daemon starts with the library that is on disk.
LEMMA FilesInitInv ==
  FilesInit => FilesInv
<1> SUFFICES ASSUME FilesInit PROVE FilesInv
  OBVIOUS
<1>1. disk \in [File -> Role \cup {Absent}]
  BY FilesAssumption DEF FilesInit, FilesAssumption
<1>2. \A c \in Call : call[c] = Idle
  BY DEF FilesInit
<1>3. FilesTypeOK
  <2>1. disk \in [File -> Content] /\ begun \in 0..MaxCalls /\ call \in [Call -> CallState]
    BY <1>1, IdleType, FilesAssumption DEF FilesInit, Content, FilesAssumption
  <2>2. LoadDefaults(disk) \in Library
    BY <2>1, DefaultsAreRoles
  <2> QED
    BY <2>1, <2>2 DEF FilesTypeOK, FilesInit
<1>4. \A n \in Name : shared[n] # Absent =>
        /\ shared[n].role.name = n /\ shared[n].file \in File \ WsFile
        /\ disk[shared[n].file] = shared[n].role
  BY <1>3, DefaultsAreRoles DEF FilesInit, FilesTypeOK
<1>5. SharedWellFormed /\ LibraryKeepsDefinitions
  BY <1>4 DEF SharedWellFormed, LibraryKeepsDefinitions, SameDefinition
<1>6. LoadedWellFormed /\ WritesHarmless /\ SteadyFound
  BY <1>2 DEF Idle, None, LoadedWellFormed, WritesHarmless, SteadyFound
<1> QED
  BY <1>3, <1>5, <1>6 DEF FilesInv

\* After a restart the library is what is on disk.
LEMMA RestartKeeps ==
  ASSUME FilesInv, FilesRestart
  PROVE  FilesInv'
<1>1. FilesTypeOK /\ shared' = LoadDefaults(disk) /\ disk' = disk /\ begun' = begun
  BY DEF FilesInv, FilesRestart
<1>2. call' \in [Call -> CallState] /\ \A c \in Call : call'[c] = Idle
  BY IdleType DEF FilesRestart
<1>3. FilesTypeOK'
  BY <1>1, <1>2, DefaultsAreRoles DEF FilesTypeOK
<1>4. \A n \in Name : shared'[n] # Absent =>
        /\ shared'[n].role.name = n /\ shared'[n].file \in File \ WsFile
        /\ disk'[shared'[n].file] = shared'[n].role
  BY <1>1, DefaultsAreRoles DEF FilesTypeOK
<1>5. SharedWellFormed' /\ LibraryKeepsDefinitions'
  BY <1>4 DEF SharedWellFormed, LibraryKeepsDefinitions, SameDefinition
<1>6. LoadedWellFormed' /\ WritesHarmless' /\ SteadyFound'
  BY <1>2 DEF Idle, None, LoadedWellFormed, WritesHarmless, SteadyFound
<1> QED
  BY <1>3, <1>5, <1>6 DEF FilesInv

\* Every step of a handler is a beginning or gentle.
LEMMA StepKeeps ==
  ASSUME FilesInv, NEW c \in Call, FilesStep(c)
  PROVE  FilesInv'
<1>0. FilesTypeOK /\ call[c] \in CallState
  BY DEF FilesInv, FilesTypeOK
<1>1. ASSUME Starts(c) PROVE FilesInv'
  BY <1>1, StartsKeeps
<1>2. ASSUME Gentle PROVE FilesInv'
  BY <1>2, GentleKeeps
<1>3. ASSUME NEW team \in Team,
             ApplyTeam(c, team) \/ ScaffoldProject(c, team) \/ ImportTeam(c, team)
      PROVE  FilesInv'
  BY <1>0, <1>1, <1>3, BeginningsStart
<1>4. ASSUME NEW team \in Team, NEW r \in team, AddRole(c, r) PROVE FilesInv'
  BY <1>0, <1>1, <1>4, BeginningsStart
<1>5. ASSUME NEW n \in Name, DeleteRole(c, n) PROVE FilesInv'
  BY <1>0, <1>1, <1>5, BeginningsStart
<1>6. ASSUME ListRoles(c) \/ ExportTeam(c) \/ OrchestrateIssue(c) \/ OrchestrateFeature(c)
               \/ BlockerPublished(c) \/ PlanScaffold(c) \/ RegenerateKickoff(c)
      PROVE  FilesInv'
  BY <1>0, <1>1, <1>6, BeginningsStart
<1>7. ASSUME NEW f \in File, RemoveOne(c, f) \/ RemoveFails(c, f) \/ LoadOne(c, f)
      PROVE  FilesInv'
  BY <1>2, <1>7, RemoveGentle, RemoveFailsGentle, LoadOneGentle
<1>8. CASE Fill(c)
  BY <1>2, <1>8, FillGentle
<1>9. CASE RemoveDone(c)
  <2>1. /\ call[c].pc = "removing" /\ UNCHANGED <<disk, shared, begun>>
        /\ \/ call' = [call EXCEPT ![c] = Idle]
           \/ call' = [call EXCEPT ![c] = [@ EXCEPT !.pc = "writing"]]
    BY <1>9 DEF RemoveDone
  <2>2. call[c].open = NoWrite
    BY <2>1 DEF FilesInv, WritesHarmless
  <2> QED
    BY <1>2, <2>1, <2>2, EndGentle, NextPartGentle DEF Pc
<1>10. CASE LoadDone(c)
  <2>1. /\ call[c].pc = "loading" /\ UNCHANGED <<disk, shared, begun>>
        /\ \/ call' = [call EXCEPT ![c] = Idle]
           \/ call' = [call EXCEPT ![c] = [@ EXCEPT !.pc = "thinking"]]
    BY <1>10 DEF LoadDone, AllLoaded
  <2>2. call[c].open = NoWrite
    BY <2>1 DEF FilesInv, WritesHarmless
  <2> QED
    BY <1>2, <2>1, <2>2, EndGentle, NextPartGentle DEF Pc
<1>11. CASE WriteDone(c) \/ PmFails(c)
  BY <1>2, <1>11, EndGentle DEF WriteDone, PmFails
<1>12. ASSUME NEW w \in call[c].queue, OpenFile(c, w) \/ WriteFails(c, w) PROVE FilesInv'
  BY <1>2, <1>12, OpenGentle, WriteFailsGentle
<1>13. ASSUME NEW tasks \in Plan, PmAnswers(c, tasks) PROVE FilesInv'
  BY <1>2, <1>13, NewKickoffsGentle, FilesAssumption DEF PmAnswers, FilesAssumption
<1>14. ASSUME NEW n \in Name, NEW k \in Kick, KickoffAnswer(c, n, k) PROVE FilesInv'
  <2> DEFINE tasks == [m \in {n} |-> k]
  <2>1. NewKickoffs(c, tasks)
    BY <1>14 DEF KickoffAnswer
  <2>2. DOMAIN tasks \subseteq Name /\ \A m \in DOMAIN tasks : tasks[m] \in Kick
    OBVIOUS
  <2> HIDE DEF tasks
  <2> QED
    BY <1>2, <2>1, <2>2, NewKickoffsGentle
<1> QED
  BY <1>3, <1>4, <1>5, <1>6, <1>7, <1>8, <1>9, <1>10, <1>11, <1>12, <1>13, <1>14
  DEF FilesStep

\* The inductive invariant.
LEMMA FilesInvariant ==
  FilesSpec => []FilesInv
<1>1. FilesInv /\ [FilesNext]_filesVars => FilesInv'
  <2> SUFFICES ASSUME FilesInv, [FilesNext]_filesVars PROVE FilesInv'
    OBVIOUS
  <2>1. ASSUME NEW c \in Call, FilesStep(c) PROVE FilesInv'
    BY <2>1, StepKeeps
  <2>2. CASE FilesRestart
    BY <2>2, RestartKeeps
  <2>3. CASE UNCHANGED filesVars
    BY <2>3 DEF filesVars, FilesInv, FilesTypeOK, SharedWellFormed, LoadedWellFormed,
      WritesHarmless, Harmless, LibraryKeepsDefinitions, SteadyFound, Scoped
  <2> QED
    BY <2>1, <2>2, <2>3 DEF FilesNext
<1> QED
  BY FilesInitInv, <1>1, PTL DEF FilesSpec

-----------------------------------------------------------------------------
\* The disk, the library and the handlers keep their shapes.
THEOREM FilesTypeCorrect ==
  FilesSpec => []FilesTypeOK
<1>1. FilesInv => FilesTypeOK
  BY DEF FilesInv
<1> QED
  BY FilesInvariant, <1>1, PTL

\* Whoever lists the team while others rewrite it sees the workspace's own role
\* for every file that was whole all the time.
THEOREM OverridesAlwaysWin ==
  FilesSpec => []OverridesWin
<1>1. FilesInv => OverridesWin
  <2> SUFFICES ASSUME FilesInv, NEW c \in Call, AllLoaded(c)
               PROVE  /\ \A f \in call[c].steady : Scoped(Visible(call[c].lib), disk[f].name)
                      /\ call[c].steady # {} =>
                           \A n \in Name : \/ Visible(call[c].lib)[n] = Absent
                                           \/ Scoped(Visible(call[c].lib), n)
    BY DEF OverridesWin
  <2> DEFINE lib == call[c].lib
  <2>1. ASSUME NEW f \in call[c].steady
        PROVE  disk[f].name \in Name /\ Scoped(lib, disk[f].name)
    BY DEF FilesInv, SteadyFound, AllLoaded, Role
  <2>2. CASE call[c].steady = {}
    BY <2>2
  <2>3. CASE call[c].steady # {}
    <3>1. Visible(lib) = [n \in Name |-> IF Scoped(lib, n) THEN lib[n] ELSE Absent]
      BY <2>1, <2>3 DEF Visible
    <3> QED
      BY <2>1, <3>1 DEF Scoped
  <2> QED
    BY <2>2, <2>3
<1> QED
  BY FilesInvariant, <1>1, PTL

\* The PM's writes never change what a role of the shared library is.
THEOREM LibraryDefinitionsKept ==
  FilesSpec => []LibraryKeepsDefinitions
<1>1. FilesInv => LibraryKeepsDefinitions
  BY DEF FilesInv
<1> QED
  BY FilesInvariant, <1>1, PTL

-----------------------------------------------------------------------------
(* handlers that no other writer overlaps *)

\* Which parts a handler goes through.
PhaseOK(c) ==
  /\ call[c].pc = "idle" => call[c].op = "read"
  /\ call[c].pc = "removing" => call[c].op \in {"replace", "delete"}
  /\ call[c].pc = "loading" => call[c].op \in PmOp \cup {"read"}
  /\ call[c].pc = "thinking" => call[c].op \in PmOp
  /\ call[c].pc = "writing" => call[c].op # "read"

\* Beside a handler that is alone only readers run.
Solitude ==
  \A c, k \in Call : call[c].alone = "yes" /\ k # c => call[k].op = "read"

\* The file being written is there for its writer to fill.
OpenOK(c) ==
  call[c].open # NoWrite =>
    call[c].linked = "yes" /\ disk[call[c].open.file] = Empty

\* No two roles of a team go into one file.
OneFileEach == \A team \in Team : \A r, s \in team : FileOf[r.name] = FileOf[s.name] => r = s

\* A replacement on its own: what it has not removed yet is still to be removed, or
\* could not be; then what else is on disk is its team's, and what is not there yet
\* is queued.
ReplaceOK(c) ==
  OneFileEach /\ call[c].op = "replace" /\ call[c].alone = "yes" =>
    /\ call[c].team \in Team
    /\ call[c].queue \subseteq TeamWrites(call[c].team)
    /\ call[c].pc = "removing" =>
         /\ call[c].queue = TeamWrites(call[c].team)
         /\ \A f \in WsFile : disk[f] # Absent => f \in call[c].todo \cup call[c].left
    /\ call[c].pc = "writing" =>
         /\ OpenOK(c)
         /\ \A f \in WsFile \ call[c].left :
              \/ disk[f] \in call[c].team \cup {Absent}
              \/ call[c].open # NoWrite /\ call[c].open.file = f
         /\ \A r \in call[c].team :
              \/ [file |-> FileOf[r.name], role |-> r] \in call[c].queue
              \/ disk[FileOf[r.name]] = r

\* A role that may go into file f of that disk.
Fits(role, d, f) == d[f] \in Role \cup {Absent} => SameDefinition(role, d[f])

\* A plan on its own: what it has loaded, will write and has written is what the
\* disk held when it began.
PlanOK(c) ==
  call[c].op \in PmOp /\ call[c].alone = "yes" =>
    /\ call[c].pc \in {"loading", "thinking"} =>
         /\ disk = call[c].before
         /\ \A n \in Name : call[c].lib[n] # Absent =>
              Fits(call[c].lib[n].role, call[c].before, call[c].lib[n].file)
    /\ call[c].pc = "writing" =>
         /\ OpenOK(c)
         /\ \A w \in call[c].queue : Fits(w.role, call[c].before, w.file)
         /\ \A f \in File :
              \/ call[c].open # NoWrite /\ call[c].open.file = f
              \/ Fits(disk[f], call[c].before, f)

\* Nobody removes a file of the shared library.
SharedThere == \A n \in Name : shared[n] # Absent => disk[shared[n].file] # Absent

SoloInv ==
  /\ \A c \in Call : PhaseOK(c) /\ ReplaceOK(c) /\ PlanOK(c)
  /\ Solitude
  /\ SharedThere

\* A step of k that is no beginning: nobody's call or solitude begins, and a
\* reader's step is nobody else's business.
OwnStep(k) ==
  /\ shared' = shared
  /\ \A c \in Call : call'[c].alone = "yes" => call[c].alone = "yes"
  /\ \A c \in Call : call'[c].op \in {call[c].op, "read"}
  /\ \A c \in Call \ {k} : call'[c].op = call[c].op /\ call'[c].pc = call[c].pc
  /\ call[k].op = "read" => disk' = disk /\ \A c \in Call \ {k} : call'[c] = call[c]

\* After such a step only k itself is to be looked at.
LEMMA OwnStepKeeps ==
  ASSUME SoloInv, NEW k \in Call, OwnStep(k), SharedThere',
         PhaseOK(k)', ReplaceOK(k)', PlanOK(k)'
  PROVE  SoloInv'
<1>1. Solitude'
  BY DEF SoloInv, Solitude, OwnStep
<1>2. ASSUME NEW c \in Call, c # k PROVE PhaseOK(c)' /\ ReplaceOK(c)' /\ PlanOK(c)'
  <2>1. PhaseOK(c)'
    BY <1>2 DEF SoloInv, PhaseOK, OwnStep
  <2>2. CASE call'[c].alone # "yes"
    BY <2>1, <2>2 DEF ReplaceOK, PlanOK
  <2>3. CASE call'[c].alone = "yes"
    <3>1. call[k].op = "read"
      BY <1>2, <2>3 DEF SoloInv, Solitude, OwnStep
    <3>2. disk' = disk /\ call'[c] = call[c]
      BY <1>2, <3>1 DEF OwnStep
    <3> QED
      BY <2>1, <3>2 DEF SoloInv, ReplaceOK, PlanOK, OpenOK
  <2> QED
    BY <2>2, <2>3
<1> QED
  BY <1>1, <1>2 DEF SoloInv

\* A step of k that touches no file, and leaves k as x.
LEMMA QuietStep ==
  ASSUME FilesInv, SoloInv, NEW k \in Call, NEW x \in CallState,
         call' = [call EXCEPT ![k] = x], UNCHANGED <<disk, shared, begun>>,
         x.op \in {call[k].op, "read"}, x.alone \in {call[k].alone, "no"}
  PROVE  OwnStep(k) /\ SharedThere' /\ call'[k] = x
<1>1. \A c \in Call : call'[c] = IF c = k THEN x ELSE call[c]
  BY DEF FilesInv, FilesTypeOK
<1>2. SharedThere'
  BY DEF SoloInv, SharedThere
<1> QED
  BY <1>1, <1>2 DEF OwnStep

\* A handler that ends.
LEMMA EndSolo ==
  ASSUME FilesInv, SoloInv, NEW k \in Call, call' = [call EXCEPT ![k] = Idle],
         UNCHANGED <<disk, shared, begun>>
  PROVE  SoloInv'
<1>1. Idle \in CallState /\ Idle.op = "read" /\ Idle.alone = "no" /\ Idle.pc = "idle"
  BY IdleType DEF Idle
<1>2. OwnStep(k) /\ SharedThere' /\ call'[k] = Idle
  BY <1>1, QuietStep
<1>3. PhaseOK(k)' /\ ReplaceOK(k)' /\ PlanOK(k)'
  BY <1>1, <1>2 DEF PhaseOK, ReplaceOK, PlanOK
<1> QED
  BY <1>2, <1>3, OwnStepKeeps

\* A step of a writer k that leaves d in file f, and k as x.
LEMMA TouchSolo ==
  ASSUME FilesInv, SoloInv, NEW k \in Call, NEW f \in File, NEW d \in Content,
         NEW x \in CallState,
         NEW t \in {Touched(f, TRUE), Touched(f, FALSE)},
         call' = [t EXCEPT ![k] = x], disk' = [disk EXCEPT ![f] = d],
         shared' = shared, call[k].op # "read",
         x.op = call[k].op, x.alone = call[k].alone,
         d # Absent \/ f \in WsFile
  PROVE  OwnStep(k) /\ SharedThere' /\ call'[k] = x
<1>0. FilesTypeOK /\ SharedWellFormed
  BY DEF FilesInv
<1>1. DOMAIN t = Call
  BY DEF Touched
<1>2. call'[k] = x /\ \A c \in Call \ {k} : call'[c] = t[c]
  BY <1>1 DEF Touched
<1>3. ASSUME NEW c \in Call
      PROVE  t[c].op = call[c].op /\ t[c].pc = call[c].pc /\ t[c].alone = call[c].alone
  <2>1. PICK l \in {"yes", "no"} : t[c] = [call[c] EXCEPT !.steady = @ \ {f}, !.linked = l]
    <3>1. /\ \E l \in {"yes", "no"} :
               Touched(f, TRUE)[c] = [call[c] EXCEPT !.steady = @ \ {f}, !.linked = l]
          /\ \E l \in {"yes", "no"} :
               Touched(f, FALSE)[c] = [call[c] EXCEPT !.steady = @ \ {f}, !.linked = l]
      BY <1>0, TouchedFields, ZenonT(60)
    <3>2. t = Touched(f, TRUE) \/ t = Touched(f, FALSE)
      OBVIOUS
    <3> QED
      BY <3>1, <3>2, ZenonT(60)
  <2>2. call[c] \in CallState
    BY <1>0 DEF FilesTypeOK
  <2> QED
    BY <2>1, <2>2 DEF CallState
<1>4. OwnStep(k)
  BY <1>2, <1>3 DEF OwnStep
<1>5. SharedThere'
  <2> SUFFICES ASSUME NEW n \in Name, shared[n] # Absent
               PROVE  disk'[shared[n].file] # Absent
    BY DEF SharedThere
  <2>1. shared[n].file \in File \ WsFile /\ disk[shared[n].file] # Absent
    BY <1>0 DEF SoloInv, SharedThere, SharedWellFormed
  <2> QED
    BY <1>0, <2>1 DEF FilesTypeOK
<1> QED
  BY <1>2, <1>4, <1>5

\* The removal of a file that was listed.
LEMMA RemoveSolo ==
  ASSUME FilesInv, SoloInv, NEW k \in Call, NEW f \in File, RemoveOne(k, f)
  PROVE  SoloInv'
<1>0. /\ FilesTypeOK /\ WritesHarmless /\ call[k] \in CallState
      /\ PhaseOK(k) /\ ReplaceOK(k) /\ call[k].pc = "removing"
  BY DEF FilesInv, FilesTypeOK, RemoveOne, SoloInv
<1>1. f \in WsFile /\ Absent \in Content /\ call[k].op \in {"replace", "delete"}
  BY <1>0 DEF WritesHarmless, RemoveOne, Content, PhaseOK
<1>2. PICK l \in {"yes", "no"} :
        Touched(f, TRUE)[k] = [call[k] EXCEPT !.steady = @ \ {f}, !.linked = l]
  BY <1>0, TouchedFields
<1> DEFINE x == [Touched(f, TRUE)[k] EXCEPT !.todo = @ \ {f}]
<1>3. /\ x \in CallState
      /\ x.op = call[k].op /\ x.pc = call[k].pc /\ x.todo = call[k].todo \ {f}
      /\ x.queue = call[k].queue /\ x.team = call[k].team /\ x.alone = call[k].alone
      /\ x.left = call[k].left
  <2>1. x = [call[k] EXCEPT !.steady = @ \ {f}, !.linked = l, !.todo = @ \ {f}]
    BY <1>0, <1>2 DEF CallState
  <2> HIDE DEF x
  <2> QED
    BY <1>0, <2>1 DEF CallState
<1>4. call' = [Touched(f, TRUE) EXCEPT ![k] = x]
  BY DEF RemoveOne, Touched
<1>5. disk' = [disk EXCEPT ![f] = Absent] /\ shared' = shared
  BY DEF RemoveOne
<1> HIDE DEF x
<1>6. OwnStep(k) /\ SharedThere' /\ call'[k] = x
  <2>1. call[k].op # "read" /\ Touched(f, TRUE) \in {Touched(f, TRUE), Touched(f, FALSE)}
    BY <1>1
  <2> QED
    BY <1>1, <1>3, <1>4, <1>5, <2>1, TouchSolo, ZenonT(60)
<1>7. PhaseOK(k)'
  BY <1>0, <1>3, <1>6 DEF PhaseOK
<1>8. ReplaceOK(k)'
  <2> SUFFICES ASSUME OneFileEach, call[k].op = "replace", call[k].alone = "yes"
               PROVE  /\ call[k].team \in Team
                      /\ call[k].queue = TeamWrites(call[k].team)
                      /\ \A g \in WsFile :
                           disk'[g] # Absent => g \in (call[k].todo \ {f}) \cup call[k].left
    BY <1>0, <1>3, <1>6 DEF ReplaceOK
  <2> QED
    BY <1>0, <1>5, FilesAssumption DEF ReplaceOK, FilesTypeOK, FilesAssumption
<1>9. PlanOK(k)'
  BY <1>1, <1>3, <1>6 DEF PlanOK, PmOp
<1> QED
  BY <1>6, <1>7, <1>8, <1>9, OwnStepKeeps

\* A file that could not be removed is one of those left.
LEMMA RemoveFailsSolo ==
  ASSUME FilesInv, SoloInv, NEW k \in Call, NEW f \in File, RemoveFails(k, f)
  PROVE  SoloInv'
<1>0. /\ FilesTypeOK /\ call[k] \in CallState /\ PhaseOK(k) /\ ReplaceOK(k)
      /\ call[k].pc = "removing" /\ call[k].op \in {"replace", "delete"}
      /\ UNCHANGED <<disk, shared, begun>>
  BY DEF FilesInv, FilesTypeOK, RemoveFails, SoloInv, PhaseOK
<1> DEFINE x == [call[k] EXCEPT !.todo = @ \ {f}, !.left = @ \cup {f}]
<1>1. /\ x \in CallState
      /\ x.op = call[k].op /\ x.pc = "removing" /\ x.todo = call[k].todo \ {f}
      /\ x.left = call[k].left \cup {f}
      /\ x.queue = call[k].queue /\ x.team = call[k].team /\ x.alone = call[k].alone
  BY <1>0 DEF CallState
<1>2. call' = [call EXCEPT ![k] = x]
  BY DEF RemoveFails
<1> HIDE DEF x
<1>3. OwnStep(k) /\ SharedThere' /\ call'[k] = x
  BY <1>0, <1>1, <1>2, QuietStep
<1>4. PhaseOK(k)' /\ PlanOK(k)'
  BY <1>0, <1>1, <1>3 DEF PhaseOK, PlanOK, PmOp
<1>5. ReplaceOK(k)'
  <2> SUFFICES ASSUME OneFileEach, call[k].op = "replace", call[k].alone = "yes"
               PROVE  /\ call[k].team \in Team
                      /\ call[k].queue = TeamWrites(call[k].team)
                      /\ \A g \in WsFile : disk[g] # Absent =>
                           g \in (call[k].todo \ {f}) \cup (call[k].left \cup {f})
    BY <1>0, <1>1, <1>3 DEF ReplaceOK
  <2> QED
    BY <1>0 DEF ReplaceOK
<1> QED
  BY <1>3, <1>4, <1>5, OwnStepKeeps

\* Once the removals are done, what is on disk is what could not be removed.
LEMMA RemoveDoneSolo ==
  ASSUME FilesInv, SoloInv, NEW k \in Call, RemoveDone(k)
  PROVE  SoloInv'
<1>0. /\ FilesTypeOK /\ call[k] \in CallState /\ PhaseOK(k) /\ ReplaceOK(k)
      /\ call[k].pc = "removing" /\ call[k].todo = {} /\ call[k].open = NoWrite
      /\ UNCHANGED <<disk, shared, begun>>
  BY DEF FilesInv, FilesTypeOK, WritesHarmless, RemoveDone, SoloInv
<1>1. CASE call[k].op = "delete"
  <2>1. call' = [call EXCEPT ![k] = Idle]
    BY <1>1 DEF RemoveDone
  <2> QED
    BY <1>0, <2>1, EndSolo
<1>2. CASE call[k].op = "replace"
  <2> DEFINE x == [call[k] EXCEPT !.pc = "writing"]
  <2>1. /\ x \in CallState
        /\ x.op = "replace" /\ x.pc = "writing" /\ x.open = NoWrite
        /\ x.queue = call[k].queue /\ x.team = call[k].team /\ x.alone = call[k].alone
        /\ x.left = call[k].left
    BY <1>0, <1>2 DEF CallState, Pc
  <2>2. call' = [call EXCEPT ![k] = x]
    BY <1>0, <1>2 DEF RemoveDone, FilesTypeOK
  <2> HIDE DEF x
  <2>3. OwnStep(k) /\ SharedThere' /\ call'[k] = x
    BY <1>0, <1>2, <2>1, <2>2, QuietStep
  <2>4. PhaseOK(k)' /\ PlanOK(k)'
    BY <2>1, <2>3 DEF PhaseOK, PlanOK, PmOp
  <2>5. ReplaceOK(k)'
    <3> SUFFICES ASSUME OneFileEach, call[k].alone = "yes"
                 PROVE  /\ call[k].team \in Team
                        /\ call[k].queue = TeamWrites(call[k].team)
                        /\ \A f \in WsFile \ call[k].left : disk[f] = Absent
                        /\ \A r \in call[k].team :
                             [file |-> FileOf[r.name], role |-> r] \in call[k].queue
      BY <1>0, <2>1, <2>3 DEF ReplaceOK, OpenOK
    <3>1. call[k].queue = TeamWrites(call[k].team)
      BY <1>0, <1>2 DEF ReplaceOK
    <3> QED
      BY <1>0, <1>2, <3>1 DEF ReplaceOK, TeamWrites
  <2> QED
    BY <2>3, <2>4, <2>5, OwnStepKeeps
<1> QED
  BY <1>0, <1>1, <1>2 DEF PhaseOK

\* A file that is truncated is the one that is open.
LEMMA OpenSolo ==
  ASSUME FilesInv, SoloInv, NEW k \in Call, NEW w \in call[k].queue, OpenFile(k, w)
  PROVE  SoloInv'
<1>0. /\ FilesTypeOK /\ call[k] \in CallState /\ PhaseOK(k) /\ ReplaceOK(k) /\ PlanOK(k)
      /\ call[k].pc = "writing" /\ call[k].open = NoWrite
  BY DEF FilesInv, FilesTypeOK, OpenFile, SoloInv
<1> DEFINE f == w.file
<1>1. /\ w \in Write /\ f \in File /\ w.role \in Role /\ w # NoWrite
      /\ Empty \in Content /\ call[k].op # "read"
  BY <1>0, FilesAssumption DEF CallState, Write, Content, FilesAssumption, PhaseOK
<1>2. PICK l \in {"yes", "no"} :
        Touched(f, FALSE)[k] = [call[k] EXCEPT !.steady = @ \ {f}, !.linked = l]
  BY <1>0, <1>1, TouchedFields
<1> DEFINE x == [Touched(f, FALSE)[k] EXCEPT !.open = w, !.linked = "yes"]
<1>3. /\ x \in CallState
      /\ x.op = call[k].op /\ x.pc = "writing" /\ x.open = w /\ x.linked = "yes"
      /\ x.queue = call[k].queue /\ x.team = call[k].team /\ x.alone = call[k].alone
      /\ x.before = call[k].before /\ x.left = call[k].left
  <2>1. x = [call[k] EXCEPT !.steady = @ \ {f}, !.open = w, !.linked = "yes"]
    BY <1>0, <1>2 DEF CallState
  <2> HIDE DEF x, f
  <2> QED
    BY <1>0, <1>1, <2>1 DEF CallState
<1>4. call' = [Touched(f, FALSE) EXCEPT ![k] = x]
  BY DEF OpenFile, Touched
<1>5. disk' = [disk EXCEPT ![f] = Empty] /\ shared' = shared
  BY DEF OpenFile
<1>6. \A g \in File : disk'[g] = IF g = f THEN Empty ELSE disk[g]
  BY <1>0, <1>5 DEF FilesTypeOK
<1> HIDE DEF x
<1>7. OwnStep(k) /\ SharedThere' /\ call'[k] = x
  <2>1. Touched(f, FALSE) \in {Touched(f, TRUE), Touched(f, FALSE)}
    OBVIOUS
  <2>2. Empty # Absent \/ f \in WsFile
    BY FilesAssumption DEF FilesAssumption
  <2> HIDE DEF f
  <2> QED
    BY <1>1, <1>3, <1>4, <1>5, <2>1, <2>2, TouchSolo, ZenonT(60)
<1>8. PhaseOK(k)'
  BY <1>0, <1>1, <1>3, <1>7 DEF PhaseOK
<1>9. ReplaceOK(k)'
  <2> SUFFICES ASSUME OneFileEach, call[k].op = "replace", call[k].alone = "yes"
               PROVE  /\ call[k].team \in Team
                      /\ call[k].queue \subseteq TeamWrites(call[k].team)
                      /\ disk'[f] = Empty
                      /\ \A g \in WsFile \ call[k].left :
                           disk'[g] \in call[k].team \cup {Absent} \/ f = g
                      /\ \A r \in call[k].team :
                           \/ [file |-> FileOf[r.name], role |-> r] \in call[k].queue
                           \/ disk'[FileOf[r.name]] = r
    BY <1>1, <1>3, <1>7 DEF ReplaceOK, OpenOK
  <2>0. \A r, s \in call[k].team : FileOf[r.name] = FileOf[s.name] => r = s
    BY <1>0 DEF ReplaceOK, OneFileEach
  <2>1. /\ call[k].team \in Team
        /\ call[k].queue \subseteq TeamWrites(call[k].team)
        /\ \A g \in WsFile \ call[k].left : disk[g] \in call[k].team \cup {Absent}
        /\ \A r \in call[k].team :
             \/ [file |-> FileOf[r.name], role |-> r] \in call[k].queue
             \/ disk[FileOf[r.name]] = r
    BY <1>0 DEF ReplaceOK
  <2>2. \A g \in WsFile \ call[k].left : disk'[g] \in call[k].team \cup {Absent} \/ f = g
    BY <1>6, <2>1, FilesAssumption DEF FilesAssumption
  <2>3. PICK q \in call[k].team : w = [file |-> FileOf[q.name], role |-> q]
    BY <2>1 DEF TeamWrites
  <2>4. ASSUME NEW r \in call[k].team
        PROVE  \/ [file |-> FileOf[r.name], role |-> r] \in call[k].queue
               \/ disk'[FileOf[r.name]] = r
    <3>1. r.name \in Name /\ FileOf[r.name] \in File
      <4>1. r \in Role
        BY <1>0 DEF CallState
      <4> QED
        BY <4>1, FilesAssumption DEF FilesAssumption, Role
    <3>2. CASE FileOf[r.name] = f
      <4>1. r = q
        BY <2>1, <2>3, <3>2, <2>0
      <4> QED
        BY <2>3, <4>1
    <3>3. CASE FileOf[r.name] # f
      BY <1>6, <2>1, <3>1, <3>3
    <3> QED
      BY <3>2, <3>3
  <2> QED
    BY <1>1, <1>6, <2>1, <2>2, <2>4
<1>10. PlanOK(k)'
  <2> SUFFICES ASSUME call[k].op \in PmOp, call[k].alone = "yes"
               PROVE  /\ disk'[f] = Empty
                      /\ \A v \in call[k].queue : Fits(v.role, call[k].before, v.file)
                      /\ \A g \in File : f = g \/ Fits(disk'[g], call[k].before, g)
    BY <1>1, <1>3, <1>7 DEF PlanOK, OpenOK
  <2>1. /\ \A v \in call[k].queue : Fits(v.role, call[k].before, v.file)
        /\ \A g \in File : Fits(disk[g], call[k].before, g)
    BY <1>0 DEF PlanOK
  <2> QED
    BY <1>1, <1>6, <2>1
<1> QED
  BY <1>7, <1>8, <1>9, <1>10, OwnStepKeeps

\* What is written was queued, and the file was empty unless somebody else wrote.
LEMMA FillSolo ==
  ASSUME FilesInv, SoloInv, NEW k \in Call, Fill(k)
  PROVE  SoloInv'
<1>0. /\ FilesTypeOK /\ WritesHarmless /\ call[k] \in CallState
      /\ PhaseOK(k) /\ ReplaceOK(k) /\ PlanOK(k)
  BY DEF FilesInv, FilesTypeOK, SoloInv
<1> DEFINE w == call[k].open
           f == w.file
<1>1. /\ w # NoWrite /\ w \in call[k].queue /\ call[k].pc = "writing"
      /\ call[k].op # "read" /\ shared' = shared /\ begun' = begun
  BY <1>0 DEF Fill, WritesHarmless, PhaseOK
<1>2. w \in Write /\ f \in File /\ w.role \in Role
  BY <1>0, <1>1 DEF CallState, Write
<1>3. CASE call[k].linked = "no"
  <2> DEFINE x == [call[k] EXCEPT !.queue = @ \ {w}, !.open = NoWrite, !.linked = "no"]
  <2>1. /\ x \in CallState
        /\ x.op = call[k].op /\ x.pc = "writing" /\ x.alone = call[k].alone
    BY <1>0, <1>1 DEF CallState
  <2>2. call' = [call EXCEPT ![k] = x] /\ disk' = disk
    BY <1>0, <1>3 DEF Fill, Closed, FilesTypeOK
  <2> HIDE DEF x
  <2>3. OwnStep(k) /\ SharedThere' /\ call'[k] = x
    BY <1>1, <2>1, <2>2, QuietStep
  <2>4. PhaseOK(k)'
    BY <1>1, <2>1, <2>3 DEF PhaseOK
  <2>5. ReplaceOK(k)'
    BY <1>0, <1>1, <1>3, <2>1, <2>3 DEF ReplaceOK, OpenOK
  <2>6. PlanOK(k)'
    BY <1>0, <1>1, <1>3, <2>1, <2>3 DEF PlanOK, OpenOK
  <2> QED
    BY <2>3, <2>4, <2>5, <2>6, OwnStepKeeps
<1>4. CASE call[k].linked # "no"
  <2>1. PICK d \in Outcome(k) : disk' = [disk EXCEPT ![f] = d]
    BY <1>4 DEF Fill
  <2>2. /\ d \in Content /\ d # Absent
        /\ disk[f] = Empty => d = w.role
    BY <1>2, <2>1, FilesAssumption DEF Outcome, Content, FilesAssumption
  <2>3. PICK l \in {"yes", "no"} :
          Touched(f, FALSE)[k] = [call[k] EXCEPT !.steady = @ \ {f}, !.linked = l]
    BY <1>0, <1>2, TouchedFields
  <2> DEFINE x == [Touched(f, FALSE)[k] EXCEPT !.queue = @ \ {w}, !.open = NoWrite,
                                               !.linked = "no"]
  <2>4. /\ x \in CallState
        /\ x.op = call[k].op /\ x.pc = "writing" /\ x.open = NoWrite
        /\ x.queue = call[k].queue \ {w} /\ x.team = call[k].team
        /\ x.alone = call[k].alone /\ x.before = call[k].before /\ x.left = call[k].left
    <3>1. x = [call[k] EXCEPT !.steady = @ \ {f}, !.queue = @ \ {w}, !.open = NoWrite,
                              !.linked = "no"]
      BY <1>0, <2>3 DEF CallState
    <3> HIDE DEF x, f, w
    <3> QED
      BY <1>0, <1>1, <3>1 DEF CallState
  <2>5. call' = [Touched(f, FALSE) EXCEPT ![k] = x]
    BY <1>4 DEF Fill, Closed, Touched
  <2>6. \A g \in File : disk'[g] = IF g = f THEN d ELSE disk[g]
    BY <1>0, <2>1 DEF FilesTypeOK
  <2> HIDE DEF x
  <2>7. OwnStep(k) /\ SharedThere' /\ call'[k] = x
    <3>1. Touched(f, FALSE) \in {Touched(f, TRUE), Touched(f, FALSE)}
      OBVIOUS
    <3> HIDE DEF f
    <3> QED
      BY <1>1, <1>2, <2>1, <2>2, <2>4, <2>5, <3>1, TouchSolo, ZenonT(60)
  <2>8. PhaseOK(k)'
    BY <1>1, <2>4, <2>7 DEF PhaseOK
  <2>9. ReplaceOK(k)'
    <3> SUFFICES ASSUME OneFileEach, call[k].op = "replace", call[k].alone = "yes"
                 PROVE  /\ call[k].team \in Team
                        /\ call[k].queue \ {w} \subseteq TeamWrites(call[k].team)
                        /\ \A g \in WsFile \ call[k].left :
                             disk'[g] \in call[k].team \cup {Absent}
                        /\ \A r \in call[k].team :
                             \/ [file |-> FileOf[r.name], role |-> r] \in call[k].queue \ {w}
                             \/ disk'[FileOf[r.name]] = r
      BY <2>4, <2>7 DEF ReplaceOK, OpenOK
    <3>1. \A r, s \in call[k].team : FileOf[r.name] = FileOf[s.name] => r = s
      BY <1>0 DEF ReplaceOK, OneFileEach
    <3>2. /\ call[k].team \in Team
          /\ call[k].queue \subseteq TeamWrites(call[k].team)
          /\ disk[f] = Empty
          /\ \A g \in WsFile \ call[k].left : disk[g] \in call[k].team \cup {Absent} \/ f = g
          /\ \A r \in call[k].team :
               \/ [file |-> FileOf[r.name], role |-> r] \in call[k].queue
               \/ disk[FileOf[r.name]] = r
      BY <1>0, <1>1 DEF ReplaceOK, OpenOK
    <3>3. PICK q \in call[k].team : w = [file |-> FileOf[q.name], role |-> q]
      BY <1>1, <3>2 DEF TeamWrites
    <3>4. d = q
      BY <2>2, <3>2, <3>3
    <3>5. \A g \in WsFile \ call[k].left : disk'[g] \in call[k].team \cup {Absent}
      BY <2>6, <3>2, <3>4, FilesAssumption DEF FilesAssumption
    <3>6. ASSUME NEW r \in call[k].team
          PROVE  \/ [file |-> FileOf[r.name], role |-> r] \in call[k].queue \ {w}
                 \/ disk'[FileOf[r.name]] = r
      <4>1. r.name \in Name /\ FileOf[r.name] \in File
        <5>1. r \in Role
          BY <1>0 DEF CallState
        <5> QED
          BY <5>1, FilesAssumption DEF FilesAssumption, Role
      <4>2. CASE FileOf[r.name] = f
        <5>1. r = q
          BY <3>1, <3>3, <4>2
        <5> QED
          BY <2>6, <3>4, <4>1, <4>2, <5>1
      <4>3. CASE FileOf[r.name] # f
        <5>1. /\ [file |-> FileOf[r.name], role |-> r] # w
              /\ disk'[FileOf[r.name]] = disk[FileOf[r.name]]
          BY <2>6, <3>3, <4>1, <4>3
        <5> QED
          BY <3>2, <5>1
      <4> QED
        BY <4>2, <4>3
    <3> QED
      BY <3>2, <3>5, <3>6
  <2>10. PlanOK(k)'
    <3> SUFFICES ASSUME call[k].op \in PmOp, call[k].alone = "yes"
                 PROVE  /\ \A v \in call[k].queue : Fits(v.role, call[k].before, v.file)
                        /\ \A g \in File : Fits(disk'[g], call[k].before, g)
      BY <2>4, <2>7 DEF PlanOK, OpenOK
    <3>1. /\ disk[f] = Empty
          /\ \A v \in call[k].queue : Fits(v.role, call[k].before, v.file)
          /\ \A g \in File : f = g \/ Fits(disk[g], call[k].before, g)
      BY <1>0, <1>1 DEF PlanOK, OpenOK
    <3>2. d = w.role
      BY <2>2, <3>1
    <3> QED
      BY <1>1, <2>6, <3>1, <3>2
  <2> QED
    BY <2>7, <2>8, <2>9, <2>10, OwnStepKeeps
<1> QED
  BY <1>3, <1>4

\* After a failure nothing is promised.
LEMMA WriteFailsSolo ==
  ASSUME FilesInv, SoloInv, NEW k \in Call, NEW w \in call[k].queue, WriteFails(k, w)
  PROVE  SoloInv'
<1>0. /\ FilesTypeOK /\ call[k] \in CallState /\ PhaseOK(k) /\ call[k].pc = "writing"
      /\ UNCHANGED <<disk, shared, begun>>
  BY DEF FilesInv, FilesTypeOK, WriteFails, SoloInv
<1>1. CASE call[k].op \notin PmOp
  <2>1. call' = [call EXCEPT ![k] = Idle]
    BY <1>1 DEF WriteFails
  <2> QED
    BY <1>0, <2>1, EndSolo
<1>2. CASE call[k].op \in PmOp
  <2> DEFINE x == [call[k] EXCEPT !.queue = @ \ {w}, !.open = NoWrite, !.linked = "no",
                                  !.alone = "no"]
  <2>1. x \in CallState /\ x.op = call[k].op /\ x.pc = "writing" /\ x.alone = "no"
    BY <1>0 DEF CallState
  <2>2. call' = [call EXCEPT ![k] = x]
    BY <1>2 DEF WriteFails
  <2> HIDE DEF x
  <2>3. OwnStep(k) /\ SharedThere' /\ call'[k] = x
    BY <1>0, <2>1, <2>2, QuietStep
  <2>4. PhaseOK(k)' /\ ReplaceOK(k)' /\ PlanOK(k)'
    BY <1>0, <2>1, <2>3 DEF PhaseOK, ReplaceOK, PlanOK
  <2> QED
    BY <2>3, <2>4, OwnStepKeeps
<1> QED
  BY <1>1, <1>2

\* What a plan loads is on the disk it began with.
LEMMA LoadOneSolo ==
  ASSUME FilesInv, SoloInv, NEW k \in Call, NEW f \in File, LoadOne(k, f)
  PROVE  SoloInv'
<1>0. /\ FilesTypeOK /\ call[k] \in CallState /\ PhaseOK(k) /\ PlanOK(k)
      /\ call[k].pc = "loading" /\ UNCHANGED <<disk, shared, begun>>
  BY DEF FilesInv, FilesTypeOK, LoadOne, SoloInv
<1> DEFINE lib == IF disk[f] \in Role THEN Layered(call[k].lib, f, disk[f]) ELSE call[k].lib
           x == [call[k] EXCEPT !.todo = @ \ {f}, !.lib = lib]
<1>1. /\ lib \in Library
      /\ \A n \in Name : \/ lib[n] = call[k].lib[n]
                         \/ /\ disk[f] \in Role
                            /\ lib[n] = [role |-> disk[f], file |-> f]
  <2>1. CASE disk[f] \in Role
    <3>1. disk[f].name \in Name /\ call[k].lib \in Library
      BY <1>0, <2>1 DEF Role, CallState
    <3>2. [role |-> disk[f], file |-> f] \in Loaded
      BY <2>1 DEF Loaded
    <3>3. lib = [call[k].lib EXCEPT ![disk[f].name] = [role |-> disk[f], file |-> f]]
      BY <2>1 DEF Layered
    <3> QED
      BY <2>1, <3>1, <3>2, <3>3 DEF Library
  <2>2. CASE disk[f] \notin Role
    BY <1>0, <2>2 DEF CallState
  <2> QED
    BY <2>1, <2>2
<1> HIDE DEF lib
<1>2. /\ x \in CallState
      /\ x.op = call[k].op /\ x.pc = "loading" /\ x.lib = lib
      /\ x.alone = call[k].alone /\ x.before = call[k].before
  BY <1>0, <1>1 DEF CallState
<1>3. call' = [call EXCEPT ![k] = x]
  BY DEF LoadOne, lib
<1> HIDE DEF x
<1>4. OwnStep(k) /\ SharedThere' /\ call'[k] = x
  BY <1>0, <1>2, <1>3, QuietStep
<1>5. PhaseOK(k)' /\ ReplaceOK(k)'
  BY <1>0, <1>2, <1>4 DEF PhaseOK, ReplaceOK, PmOp
<1>6. PlanOK(k)'
  <2> SUFFICES ASSUME call[k].op \in PmOp, call[k].alone = "yes"
               PROVE  /\ disk = call[k].before
                      /\ \A n \in Name : lib[n] # Absent =>
                           Fits(lib[n].role, call[k].before, lib[n].file)
    BY <1>0, <1>2, <1>4 DEF PlanOK
  <2>1. /\ disk = call[k].before
        /\ \A n \in Name : call[k].lib[n] # Absent =>
             Fits(call[k].lib[n].role, call[k].before, call[k].lib[n].file)
    BY <1>0 DEF PlanOK
  <2>2. Fits(disk[f], disk, f)
    BY DEF Fits, SameDefinition
  <2>3. ASSUME NEW n \in Name, lib[n] # Absent
        PROVE  Fits(lib[n].role, call[k].before, lib[n].file)
    <3>1. CASE lib[n] = call[k].lib[n]
      BY <2>1, <2>3, <3>1
    <3>2. CASE lib[n] = [role |-> disk[f], file |-> f]
      BY <2>1, <2>2, <3>2
    <3> QED
      BY <1>1, <3>1, <3>2
  <2> QED
    BY <2>1, <2>3
<1> QED
  BY <1>4, <1>5, <1>6, OwnStepKeeps

\* A reader has its answer, a plan goes on with what it has loaded.
LEMMA LoadDoneSolo ==
  ASSUME FilesInv, SoloInv, NEW k \in Call, LoadDone(k)
  PROVE  SoloInv'
<1>0. /\ FilesTypeOK /\ call[k] \in CallState /\ PhaseOK(k) /\ PlanOK(k)
      /\ call[k].pc = "loading" /\ UNCHANGED <<disk, shared, begun>>
  BY DEF FilesInv, FilesTypeOK, LoadDone, AllLoaded, SoloInv
<1>1. CASE call[k].op = "read"
  <2>1. call' = [call EXCEPT ![k] = Idle]
    BY <1>1 DEF LoadDone
  <2> QED
    BY <1>0, <2>1, EndSolo
<1>2. CASE call[k].op # "read"
  <2> DEFINE x == [call[k] EXCEPT !.pc = "thinking"]
  <2>1. /\ x \in CallState
        /\ x.op = call[k].op /\ x.pc = "thinking" /\ x.lib = call[k].lib
        /\ x.alone = call[k].alone /\ x.before = call[k].before
    BY <1>0 DEF CallState, Pc
  <2>2. call' = [call EXCEPT ![k] = x]
    BY <1>0, <1>2 DEF LoadDone, FilesTypeOK
  <2> HIDE DEF x
  <2>3. OwnStep(k) /\ SharedThere' /\ call'[k] = x
    BY <1>0, <2>1, <2>2, QuietStep
  <2>4. PhaseOK(k)' /\ ReplaceOK(k)'
    BY <1>0, <1>2, <2>1, <2>3 DEF PhaseOK, ReplaceOK, PmOp
  <2>5. PlanOK(k)'
    BY <1>0, <2>1, <2>3 DEF PlanOK
  <2> QED
    BY <2>3, <2>4, <2>5, OwnStepKeeps
<1> QED
  BY <1>1, <1>2

\* Another kickoff is the same definition.
LEMMA NewKickoffsSolo ==
  ASSUME FilesInv, SoloInv, NEW k \in Call, NEW tasks, DOMAIN tasks \subseteq Name,
         \A n \in DOMAIN tasks : tasks[n] \in Kick, NewKickoffs(k, tasks)
  PROVE  SoloInv'
<1>0. /\ FilesTypeOK /\ call[k] \in CallState /\ PhaseOK(k) /\ PlanOK(k)
      /\ call[k].pc = "thinking" /\ call[k].open = NoWrite
      /\ UNCHANGED <<disk, shared, begun>>
  BY DEF FilesInv, FilesTypeOK, NewKickoffs, WritesHarmless, SoloInv
<1> DEFINE lib == call[k].lib
           writes == PlanWrites(lib, tasks)
<1>1. ASSUME NEW w \in writes
      PROVE  /\ w \in Write
             /\ \E n \in Name : /\ lib[n] # Absent /\ w.file = lib[n].file
                                /\ SameDefinition(w.role, lib[n].role)
  <2>1. PICK n \in DOMAIN tasks :
          /\ lib[n] # Absent
          /\ w = [file |-> lib[n].file, role |-> [lib[n].role EXCEPT !.kick = tasks[n]]]
    BY DEF PlanWrites
  <2>2. n \in Name /\ lib[n] \in Loaded
    BY <1>0, <2>1 DEF CallState, Library
  <2>3. lib[n].role \in Role /\ lib[n].file \in File
    BY <2>2 DEF Loaded
  <2>4. /\ w.role \in Role /\ w.role.name = lib[n].role.name /\ w.role.body = lib[n].role.body
        /\ w.file = lib[n].file
    BY <2>1, <2>3 DEF Role
  <2>5. w \in Write
    BY <2>1, <2>3, <2>4 DEF Write
  <2> QED
    BY <2>1, <2>2, <2>3, <2>4, <2>5 DEF SameDefinition
<1> HIDE DEF writes
<1> DEFINE x == [call[k] EXCEPT !.pc = "writing", !.queue = writes, !.lib = None]
<1>2. /\ x \in CallState
      /\ x.op = call[k].op /\ x.pc = "writing" /\ x.open = NoWrite /\ x.queue = writes
      /\ x.alone = call[k].alone /\ x.before = call[k].before
  BY <1>0, <1>1 DEF CallState, Pc, None, Library
<1>3. call' = [call EXCEPT ![k] = x]
  BY <1>0 DEF NewKickoffs, writes, FilesTypeOK
<1> HIDE DEF x
<1>4. OwnStep(k) /\ SharedThere' /\ call'[k] = x
  BY <1>0, <1>2, <1>3, QuietStep
<1>5. call[k].op \in PmOp
  BY <1>0 DEF PhaseOK
<1>6. PhaseOK(k)' /\ ReplaceOK(k)'
  BY <1>2, <1>4, <1>5 DEF PhaseOK, ReplaceOK, PmOp
<1>7. PlanOK(k)'
  <2> SUFFICES ASSUME call[k].alone = "yes"
               PROVE  /\ \A w \in writes : Fits(w.role, call[k].before, w.file)
                      /\ \A f \in File : Fits(disk[f], call[k].before, f)
    BY <1>0, <1>2, <1>4 DEF PlanOK, OpenOK
  <2>1. /\ disk = call[k].before
        /\ \A n \in Name : lib[n] # Absent =>
             Fits(lib[n].role, call[k].before, lib[n].file)
    BY <1>0, <1>5 DEF PlanOK
  <2>2. \A f \in File : Fits(disk[f], disk, f)
    BY DEF Fits, SameDefinition
  <2>3. ASSUME NEW w \in writes PROVE Fits(w.role, call[k].before, w.file)
    <3>1. PICK n \in Name : /\ lib[n] # Absent /\ w.file = lib[n].file
                            /\ SameDefinition(w.role, lib[n].role)
      BY <1>1
    <3>2. Fits(lib[n].role, call[k].before, w.file)
      BY <2>1, <3>1
    <3> QED
      BY <3>1, <3>2 DEF Fits, SameDefinition
  <2> QED
    BY <2>1, <2>2, <2>3
<1> QED
  BY <1>4, <1>6, <1>7, OwnStepKeeps

\* A handler that begins finds the disk it begins with, and the library agrees
\* with it; one that writes ends the solitude of the others.
LEMMA StartsSolo ==
  ASSUME FilesInv, SoloInv, NEW k \in Call, Starts(k)
  PROVE  SoloInv'
<1>0. FilesTypeOK /\ LibraryKeepsDefinitions /\ SharedWellFormed /\ Solitude /\ SharedThere
  BY DEF FilesInv, SoloInv
<1>1. PICK o \in Op, p \in {"removing", "writing", "loading"}, lib \in {None, shared},
           todo \in SUBSET WsFile, team \in SUBSET Role :
        /\ Begin(k, o, p, lib, todo, team)
        /\ o = "replace" => p = "removing" /\ todo = Listed(disk, WsFile) /\ team \in Team
        /\ o \in PmOp => p = "loading" /\ lib = shared
        /\ p = "removing" => o \in {"replace", "delete"}
        /\ p = "loading" => o \in PmOp \cup {"read"}
        /\ p = "writing" => o = "merge"
  BY DEF Starts
<1>2. disk' = disk /\ shared' = shared
  BY <1>1 DEF Begin
<1>3. /\ call'[k].op = o /\ call'[k].pc = p /\ call'[k].lib = lib /\ call'[k].todo = todo
      /\ call'[k].queue = TeamWrites(team)
      /\ call'[k].team = IF o = "replace" THEN team ELSE {}
      /\ call'[k].before = IF o \in PmOp THEN disk ELSE NoFiles
      /\ call'[k].alone = "yes" => WritersBut(k) = {}
  BY <1>1 DEF Begin
<1>4. ASSUME NEW c \in Call, c # k
      PROVE  /\ call'[c].op = call[c].op /\ call'[c].pc = call[c].pc
             /\ call'[c].alone = "yes" => o = "read" /\ call'[c] = call[c]
  <2>1. call'[c] = [call[c] EXCEPT !.alone = IF o # "read" THEN "no" ELSE @]
    BY <1>1, <1>4 DEF Begin, Writes
  <2>2. call[c] \in CallState
    BY <1>0 DEF FilesTypeOK
  <2>3. CASE o = "read"
    BY <2>1, <2>2, <2>3 DEF CallState
  <2>4. CASE o # "read"
    BY <2>1, <2>2, <2>4 DEF CallState
  <2> QED
    BY <2>3, <2>4
<1>5. SharedThere'
  BY <1>0, <1>2 DEF SharedThere
<1>6. Solitude'
  <2> SUFFICES ASSUME NEW c \in Call, NEW j \in Call, call'[c].alone = "yes", j # c
               PROVE  call'[j].op = "read"
    BY DEF Solitude
  <2>1. CASE c = k
    <3>1. WritersBut(k) = {} /\ call'[j].op = call[j].op
      BY <1>3, <1>4, <2>1
    <3>2. call[j].pc = "idle" \/ call[j].op = "read"
      BY <2>1, <3>1 DEF WritersBut, Busy, Writes
    <3> QED
      BY <3>1, <3>2 DEF SoloInv, PhaseOK
  <2>2. CASE c # k
    <3>1. o = "read" /\ call'[c] = call[c]
      BY <1>4, <2>2
    <3>2. call[j].op = "read"
      BY <1>0, <3>1 DEF Solitude
    <3> QED
      BY <1>3, <1>4, <3>1, <3>2
  <2> QED
    BY <2>1, <2>2
<1>7. PhaseOK(k)'
  BY <1>1, <1>3 DEF PhaseOK, PmOp
<1>8. ReplaceOK(k)'
  <2> SUFFICES ASSUME o = "replace"
               PROVE  /\ team \in Team
                      /\ p = "removing"
                      /\ \A f \in WsFile : disk[f] # Absent => f \in todo
    BY <1>2, <1>3 DEF ReplaceOK
  <2> QED
    BY <1>1 DEF Listed
<1>9. PlanOK(k)'
  <2> SUFFICES ASSUME o \in PmOp
               PROVE  /\ p = "loading"
                      /\ \A n \in Name : shared[n] # Absent =>
                           Fits(shared[n].role, disk, shared[n].file)
    BY <1>1, <1>2, <1>3 DEF PlanOK
  <2>1. ASSUME NEW n \in Name, shared[n] # Absent
        PROVE  Fits(shared[n].role, disk, shared[n].file)
    <3>1. disk[shared[n].file] # Absent
      BY <1>0, <2>1 DEF SharedThere
    <3>2. disk[shared[n].file] \in Role =>
            SameDefinition(disk[shared[n].file], shared[n].role)
      BY <1>0, <2>1 DEF LibraryKeepsDefinitions
    <3> QED
      BY <3>1, <3>2 DEF Fits, SameDefinition
  <2> QED
    BY <1>1, <2>1
<1>10. ASSUME NEW c \in Call, c # k PROVE PhaseOK(c)' /\ ReplaceOK(c)' /\ PlanOK(c)'
  <2>1. PhaseOK(c)'
    BY <1>4, <1>10 DEF SoloInv, PhaseOK
  <2>2. CASE call'[c].alone # "yes"
    BY <2>1, <2>2 DEF ReplaceOK, PlanOK
  <2>3. CASE call'[c].alone = "yes"
    <3>1. call'[c] = call[c]
      BY <1>4, <1>10, <2>3
    <3> QED
      BY <1>2, <2>1, <3>1 DEF SoloInv, ReplaceOK, PlanOK, OpenOK
  <2> QED
    BY <2>2, <2>3
<1> QED
  BY <1>5, <1>6, <1>7, <1>8, <1>9, <1>10 DEF SoloInv

\* With nobody at work there is nothing to keep but the library's files.
LEMMA AllIdleSolo ==
  ASSUME \A c \in Call : call[c] = Idle, SharedThere
  PROVE  SoloInv
<1>1. Idle.op = "read" /\ Idle.pc = "idle" /\ Idle.alone = "no"
  BY DEF Idle
<1> QED
  BY <1>1 DEF SoloInv, PhaseOK, Solitude, ReplaceOK, PlanOK

\* The library was read from the files that are there.
LEMMA SoloInitInv ==
  FilesInit => SoloInv
<1> SUFFICES ASSUME FilesInit PROVE SoloInv
  OBVIOUS
<1>1. disk \in [File -> Content] /\ shared = LoadDefaults(disk)
  BY FilesInitInv DEF FilesInv, FilesTypeOK, FilesInit
<1>2. \A n \in Name : shared[n] # Absent =>
        shared[n].file \in File /\ disk[shared[n].file] = shared[n].role
  BY <1>1, DefaultsAreRoles
<1>3. \A n \in Name : shared[n] # Absent => shared[n].role \in Role
  BY <1>1, DefaultsAreRoles DEF Library, Loaded
<1>4. SharedThere
  BY <1>2, <1>3, FilesAssumption DEF SharedThere, FilesAssumption
<1>5. \A c \in Call : call[c] = Idle
  BY DEF FilesInit
<1> QED
  BY <1>4, <1>5, AllIdleSolo

\* So it is after a restart.
LEMMA RestartSolo ==
  ASSUME FilesInv, FilesRestart
  PROVE  SoloInv'
<1>1. disk \in [File -> Content] /\ shared' = LoadDefaults(disk) /\ disk' = disk
  BY DEF FilesInv, FilesTypeOK, FilesRestart
<1>2. \A n \in Name : shared'[n] # Absent =>
        shared'[n].file \in File /\ disk'[shared'[n].file] = shared'[n].role
  BY <1>1, DefaultsAreRoles
<1>3. \A n \in Name : shared'[n] # Absent => shared'[n].role \in Role
  BY <1>1, DefaultsAreRoles DEF Library, Loaded
<1>4. SharedThere'
  BY <1>2, <1>3, FilesAssumption DEF SharedThere, FilesAssumption
<1>5. \A c \in Call : call'[c] = Idle
  BY DEF FilesRestart
<1>6. Idle.op = "read" /\ Idle.pc = "idle" /\ Idle.alone = "no"
  BY DEF Idle
<1> QED
  BY <1>4, <1>5, <1>6 DEF SoloInv, PhaseOK, Solitude, ReplaceOK, PlanOK

\* Every step of a handler.
LEMMA StepSolo ==
  ASSUME FilesInv, SoloInv, NEW c \in Call, FilesStep(c)
  PROVE  SoloInv'
<1>0. FilesTypeOK
  BY DEF FilesInv
<1>1. ASSUME Starts(c) PROVE SoloInv'
  BY <1>1, StartsSolo
<1>2. ASSUME NEW team \in Team,
             ApplyTeam(c, team) \/ ScaffoldProject(c, team) \/ ImportTeam(c, team)
      PROVE  SoloInv'
  BY <1>0, <1>1, <1>2, BeginningsStart
<1>3. ASSUME NEW team \in Team, NEW r \in team, AddRole(c, r) PROVE SoloInv'
  BY <1>0, <1>1, <1>3, BeginningsStart
<1>4. ASSUME NEW n \in Name, DeleteRole(c, n) PROVE SoloInv'
  BY <1>0, <1>1, <1>4, BeginningsStart
<1>5. ASSUME ListRoles(c) \/ ExportTeam(c) \/ OrchestrateIssue(c) \/ OrchestrateFeature(c)
               \/ BlockerPublished(c) \/ PlanScaffold(c) \/ RegenerateKickoff(c)
      PROVE  SoloInv'
  BY <1>0, <1>1, <1>5, BeginningsStart
<1>6. ASSUME NEW f \in File, RemoveOne(c, f) \/ RemoveFails(c, f) \/ LoadOne(c, f)
      PROVE  SoloInv'
  BY <1>6, RemoveSolo, RemoveFailsSolo, LoadOneSolo
<1>7. CASE RemoveDone(c) \/ Fill(c) \/ LoadDone(c)
  BY <1>7, RemoveDoneSolo, FillSolo, LoadDoneSolo
<1>8. CASE WriteDone(c) \/ PmFails(c)
  BY <1>8, EndSolo DEF WriteDone, PmFails
<1>9. ASSUME NEW w \in call[c].queue, OpenFile(c, w) \/ WriteFails(c, w) PROVE SoloInv'
  BY <1>9, OpenSolo, WriteFailsSolo
<1>10. ASSUME NEW tasks \in Plan, PmAnswers(c, tasks) PROVE SoloInv'
  BY <1>10, NewKickoffsSolo, FilesAssumption DEF PmAnswers, FilesAssumption
<1>11. ASSUME NEW n \in Name, NEW k \in Kick, KickoffAnswer(c, n, k) PROVE SoloInv'
  <2> DEFINE tasks == [m \in {n} |-> k]
  <2>1. NewKickoffs(c, tasks)
    BY <1>11 DEF KickoffAnswer
  <2>2. DOMAIN tasks \subseteq Name /\ \A m \in DOMAIN tasks : tasks[m] \in Kick
    OBVIOUS
  <2> HIDE DEF tasks
  <2> QED
    BY <2>1, <2>2, NewKickoffsSolo
<1> QED
  BY <1>2, <1>3, <1>4, <1>5, <1>6, <1>7, <1>8, <1>9, <1>10, <1>11 DEF FilesStep

\* The inductive invariant, on top of FilesInv.
LEMMA SoloInvariant ==
  FilesSpec => [](FilesInv /\ SoloInv)
<1>1. FilesInv /\ SoloInv /\ [FilesNext]_filesVars => SoloInv'
  <2> SUFFICES ASSUME FilesInv, SoloInv, [FilesNext]_filesVars PROVE SoloInv'
    OBVIOUS
  <2>1. ASSUME NEW c \in Call, FilesStep(c) PROVE SoloInv'
    BY <2>1, StepSolo
  <2>2. CASE FilesRestart
    BY <2>2, RestartSolo
  <2>3. CASE UNCHANGED filesVars
    BY <2>3 DEF filesVars, SoloInv, PhaseOK, Solitude, ReplaceOK, PlanOK, OpenOK, SharedThere
  <2> QED
    BY <2>1, <2>2, <2>3 DEF FilesNext
<1> QED
  BY FilesInvariant, SoloInitInv, <1>1, PTL DEF FilesSpec

\* A replacement that no other writer overlaps leaves its team, and nothing else
\* but the files it failed to remove, whatever was on disk before.
THEOREM ReplacementsComplete ==
  ASSUME OneFileEach
  PROVE  FilesSpec => []UndisturbedTeam
<1>1. FilesInv /\ SoloInv => UndisturbedTeam
  <2> SUFFICES ASSUME FilesInv, SoloInv, NEW c \in Call,
                      Written(c), call[c].op = "replace", call[c].alone = "yes"
               PROVE  /\ \A f \in WsFile \ call[c].left : disk[f] \in call[c].team \cup {Absent}
                      /\ \A r \in call[c].team : disk[FileOf[r.name]] = r
    BY DEF UndisturbedTeam
  <2>1. call[c].pc = "writing" /\ call[c].queue = {} /\ call[c].open = NoWrite
    BY DEF Written, FilesInv, WritesHarmless
  <2> QED
    BY <2>1 DEF SoloInv, ReplaceOK
<1> QED
  BY SoloInvariant, <1>1, PTL

\* The PM's calls change kickoffs and nothing else, as long as nobody else
\* writes between their reading and their last write.
THEOREM KickoffsOnly ==
  FilesSpec => []PlansChangeKickoffsOnly
<1>1. FilesInv /\ SoloInv => PlansChangeKickoffsOnly
  <2> SUFFICES ASSUME FilesInv, SoloInv, NEW c \in Call,
                      Written(c), call[c].op \in PmOp, call[c].alone = "yes",
                      NEW f \in File, call[c].before[f] \in Role \cup {Absent}
               PROVE  SameDefinition(disk[f], call[c].before[f])
    BY DEF PlansChangeKickoffsOnly
  <2>1. call[c].pc = "writing" /\ call[c].queue = {} /\ call[c].open = NoWrite
    BY DEF Written, FilesInv, WritesHarmless
  <2> QED
    BY <2>1 DEF SoloInv, PlanOK, Fits
<1> QED
  BY SoloInvariant, <1>1, PTL
=============================================================================
