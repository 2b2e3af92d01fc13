----------------------- MODULE DaemonLifecycle_proofs -----------------------
(***************************************************************************)
(* StompedInRacesOnly, StopReachesAll and ServedWhenQuiet hold for any     *)
(* number of shells, apps, commands and launches.                          *)
(*                                                                         *)
(* Stomping: a daemon whose file is still there knows, in early, all those *)
(* that are about to remove a stale file.  Stopping: while no two commands *)
(* have overlapped, what the one command under way goes by is what the pid *)
(* file holds, and what it has found out about running daemons is true.    *)
(* Serving: whenever nobody holds the socket file, or a dead daemon does,  *)
(* somebody is on its way who will find out.                               *)
(***************************************************************************)
EXTENDS DaemonLifecycle, TLAPS

AtSocket(d) == daemon[d] \in {"bound", "listening"}

\* Everybody who takes the file of such a daemon for stale is known to it.
StaleKnown ==
  \A d, e \in Pid : AtSocket(d) /\ sock = d /\ daemon[e] = "stale" => e \in early[d]

\* StompedInRacesOnly, from the bind on.
OwnsOrRaced ==
  \A d \in Pid : AtSocket(d) => sock = d \/ d \in wiped \/ early[d] # {}

SocketInv == StaleKnown /\ OwnsOrRaced

\* Those that `stop` is to reach.
Tracked(d) == Running(d) /\ d \notin unnamed

\* What the one command under way knows.
Knows(c) ==
  /\ cli[c].pc \in {"startRead", "waiting", "stopRead", "killing"} => cli[c].pid = pidFile
  /\ cli[c].pc \in {"spawning", "stopping"} => \A d \in Pid : ~Tracked(d)
  /\ cli[c].pc = "spawned" => \A d \in Pid : Tracked(d) => d = cli[c].pid

Named(d) == pidFile = d \/ \E c \in Cli : cli[c] = [pc |-> "spawned", pid |-> d]

CommandInv ==
  mixed = "no" =>
    /\ \A b, c \in Cli : cli[b].pc # "idle" /\ cli[c].pc # "idle" => b = c
    /\ \A c \in Cli : Knows(c)
    /\ \A d \in Pid : Tracked(d) => Named(d)

-----------------------------------------------------------------------------
(* types *)

\* A daemon that has been born goes on to another phase.
LEMMA BecomeType ==
  ASSUME LifecycleTypeOK, NEW d \in Pid, NEW phase \in Phase \ {"unborn"},
         daemon[d] # "unborn", Become(d, phase), spawned' = spawned
  PROVE  /\ daemon' \in [Pid -> Phase]
         /\ \A e \in Pid : daemon'[e] = "unborn" <=> e > spawned'
         /\ \A e \in Pid : e # d => daemon'[e] = daemon[e]
         /\ daemon'[d] = phase
  BY DEF LifecycleTypeOK, Become

\* Each step of a daemon keeps the types.
LEMMA DaemonType ==
  ASSUME LifecycleTypeOK, NEW d \in Pid, DaemonStep(d)
  PROVE  LifecycleTypeOK'
<1> USE DEF Phase
<1>0. d # NoPid
  BY LifecycleAssumption DEF Pid, NoPid, LifecycleAssumption
<1>1. CASE Exists(d)
  <2>1. PICK phase \in {"binding", "probing"} : Become(d, phase)
    BY <1>1 DEF Exists
  <2>2. daemon[d] = "opening" /\ UNCHANGED <<sock, early, unchangedByDaemon>>
    BY <1>1 DEF Exists
  <2> QED
    BY <2>1, <2>2, BecomeType DEF LifecycleTypeOK, unchangedByDaemon
<1>2. CASE Probe(d)
  <2>1. PICK phase \in {"dead", "stale"} : Become(d, phase)
    BY <1>2 DEF Probe
  <2>2. daemon[d] = "probing" /\ UNCHANGED <<sock, unchangedByDaemon>>
    BY <1>2 DEF Probe
  <2>3. early' \in [Pid -> SUBSET Pid]
    BY <1>2 DEF Probe, LifecycleTypeOK
  <2> QED
    BY <2>1, <2>2, <2>3, BecomeType DEF LifecycleTypeOK, unchangedByDaemon
<1>3. CASE RemoveStale(d)
  <2>1. PICK phase \in {"dead", "binding"} : Become(d, phase)
    BY <1>3 DEF RemoveStale
  <2>2. daemon[d] = "stale" /\ sock' = NoPid /\ UNCHANGED <<early, unchangedByDaemon>>
    BY <1>3 DEF RemoveStale
  <2> QED
    BY <2>1, <2>2, BecomeType DEF LifecycleTypeOK, unchangedByDaemon
<1>4. CASE Bind(d)
  <2>1. CASE sock = NoPid
    <3>1. /\ daemon[d] = "binding" /\ Become(d, "bound") /\ sock' = d
          /\ UNCHANGED unchangedByDaemon /\ early' \in [Pid -> SUBSET Pid]
      BY <1>4, <2>1 DEF Bind, LifecycleTypeOK
    <3> QED
      BY <3>1, BecomeType DEF LifecycleTypeOK, unchangedByDaemon
  <2>2. CASE sock # NoPid
    <3>1. /\ daemon[d] = "binding" /\ Become(d, "dead")
          /\ UNCHANGED <<sock, early, unchangedByDaemon>>
      BY <1>4, <2>2 DEF Bind
    <3> QED
      BY <3>1, BecomeType DEF LifecycleTypeOK, unchangedByDaemon
  <2> QED
    BY <2>1, <2>2
<1>5. CASE Listen(d)
  <2>1. /\ daemon[d] = "bound" /\ Become(d, "listening")
        /\ UNCHANGED <<sock, early, unchangedByDaemon>>
    BY <1>5 DEF Listen
  <2> QED
    BY <2>1, BecomeType DEF LifecycleTypeOK, unchangedByDaemon
<1> QED
  BY <1>1, <1>2, <1>3, <1>4, <1>5 DEF DaemonStep

\* What spawning and killing do to the daemons.
ProcsType ==
  /\ daemon' \in [Pid -> Phase]
  /\ spawned' \in 0..MaxCli + MaxApp /\ killed' \in 0..spawned'
  /\ \A d \in Pid : daemon'[d] = "unborn" <=> d > spawned'
  /\ sock # NoPid => daemon'[sock] \in {"bound", "listening", "dead"}

\* A new process is one that has not been born yet.
LEMMA SpawnType ==
  ASSUME LifecycleTypeOK, Spawn
  PROVE  /\ ProcsType /\ spawned + 1 \in Pid
         /\ daemon'[spawned + 1] = "opening" /\ daemon[spawned + 1] = "unborn"
         /\ \A d \in Pid : d # spawned + 1 => daemon'[d] = daemon[d]
<1>1. /\ spawned + 1 \in Pid /\ daemon' = [daemon EXCEPT ![spawned + 1] = "opening"]
      /\ spawned' = spawned + 1 /\ killed' = killed
  BY DEF Spawn, Become
<1>2. spawned \in Nat /\ killed \in 0..spawned /\ spawned + 1 \in 0..MaxCli + MaxApp
  BY <1>1, LifecycleAssumption DEF LifecycleTypeOK, Pid, LifecycleAssumption
<1>3. \A d \in Pid : d \in Nat
  BY LifecycleAssumption DEF Pid, LifecycleAssumption
<1>4. daemon[spawned + 1] = "unborn"
  BY <1>1, <1>2 DEF LifecycleTypeOK
<1>5. ASSUME NEW d \in Pid PROVE daemon'[d] = "unborn" <=> d > spawned'
  <2>1. CASE d = spawned + 1
    <3>1. ~(d > spawned') /\ daemon'[d] = "opening"
      BY <1>1, <1>2, <2>1 DEF LifecycleTypeOK
    <3> QED
      BY <3>1
  <2>2. CASE d # spawned + 1
    <3>1. (d > spawned' <=> d > spawned) /\ daemon'[d] = daemon[d]
      BY <1>1, <1>2, <1>3, <2>2 DEF LifecycleTypeOK
    <3> QED
      BY <3>1 DEF LifecycleTypeOK
  <2> QED
    BY <2>1, <2>2
<1>6. sock # NoPid => daemon'[sock] \in {"bound", "listening", "dead"}
  BY <1>1, <1>4 DEF LifecycleTypeOK
<1> QED
  BY <1>1, <1>2, <1>4, <1>5, <1>6 DEF ProcsType, LifecycleTypeOK, Phase

\* Only what runs dies.
LEMMA KillType ==
  ASSUME LifecycleTypeOK, NEW pids, Kill(pids)
  PROVE  /\ ProcsType
         /\ \A d \in Pid : \/ daemon'[d] = daemon[d] /\ ~(d \in pids /\ Running(d))
                           \/ daemon'[d] = "dead" /\ d \in pids /\ Running(d)
<1>1. \A d \in Pid : \/ daemon'[d] = daemon[d] /\ ~(d \in pids /\ Running(d))
                     \/ daemon'[d] = "dead" /\ d \in pids /\ Running(d)
  BY DEF Kill
<1>2. daemon' \in [Pid -> Phase]
  BY DEF Kill, LifecycleTypeOK, Phase
<1>3. spawned' = spawned /\ killed' \in 0..spawned
  BY LifecycleAssumption DEF Kill, LifecycleTypeOK, LifecycleAssumption
<1>4. \A d \in Pid : daemon'[d] = "unborn" <=> d > spawned'
  BY <1>1, <1>3 DEF LifecycleTypeOK, Running
<1>5. sock # NoPid => daemon'[sock] \in {"bound", "listening", "dead"}
  BY <1>1 DEF LifecycleTypeOK
<1> QED
  BY <1>1, <1>2, <1>3, <1>4, <1>5 DEF ProcsType, LifecycleTypeOK

\* Most steps leave the processes alone.
LEMMA SameProcsType ==
  ASSUME LifecycleTypeOK, UNCHANGED procVars
  PROVE  ProcsType
  BY DEF procVars, LifecycleTypeOK, ProcsType

\* A crash keeps the types.
LEMMA CrashType ==
  ASSUME LifecycleTypeOK, NEW d \in Pid, Crash(d)
  PROVE  LifecycleTypeOK'
<1>1. ProcsType
  BY KillType DEF Crash
<1>2. calls' \in [cli: 0..MaxCli, app: 0..MaxApp]
  BY LifecycleAssumption DEF Crash, LifecycleTypeOK, LifecycleAssumption
<1>3. UNCHANGED <<sock, pidFile, cli, app, mixed, early, wiped, unnamed>>
  BY DEF Crash, raceVars
<1> QED
  BY <1>1, <1>2, <1>3 DEF LifecycleTypeOK, ProcsType

\* Each step of the CLI keeps the types.
LEMMA CliType ==
  ASSUME LifecycleTypeOK, NEW c \in Cli,
         StartDaemon(c) \/ Doctor(c) \/ StopDaemon(c) \/ CliStep(c) \/ CliEnds(c)
  PROVE  LifecycleTypeOK'
<1> DEFINE Good(x) == x \in [pc: CliPc, pid: Pid \cup {NoPid}]
<1>0. /\ Good(cli[c]) /\ Good(Resting) /\ pidFile \in Pid \cup {NoPid}
      /\ \A pc \in CliPc : Good([cli[c] EXCEPT !.pc = pc])
      /\ \A pc \in CliPc, pid \in Pid \cup {NoPid} : Good([pc |-> pc, pid |-> pid])
  BY DEF LifecycleTypeOK, Resting, CliPc
<1>1. ASSUME ProcsType, UNCHANGED <<sock, app, early, wiped>>, unnamed' \in SUBSET (Pid \cup {NoPid}),
             mixed' \in {"yes", "no"},
             calls' \in [cli: 0..MaxCli, app: 0..MaxApp], pidFile' \in Pid \cup {NoPid},
             \E x : Good(x) /\ cli' = [cli EXCEPT ![c] = x]
      PROVE  LifecycleTypeOK'
  <2>1. cli' \in [Cli -> [pc: CliPc, pid: Pid \cup {NoPid}]]
    BY <1>1 DEF LifecycleTypeOK
  <2> QED
    BY <1>1, <2>1 DEF LifecycleTypeOK, ProcsType
<1>2. ASSUME NEW pc \in CliPc, NEW pid \in Pid \cup {NoPid}, Command(c, pc, pid),
             UNCHANGED <<pidFile, procVars, unchangedByCli>>
      PROVE  LifecycleTypeOK'
  <2>1. calls' \in [cli: 0..MaxCli, app: 0..MaxApp]
    BY <1>2, LifecycleAssumption DEF Command, LifecycleTypeOK, LifecycleAssumption
  <2>2. mixed' \in {"yes", "no"}
    BY <1>2 DEF Command, LifecycleTypeOK
  <2>3. cli' = [cli EXCEPT ![c] = [pc |-> pc, pid |-> pid]]
    BY <1>2 DEF Command
  <2>4. ProcsType
    BY <1>2, SameProcsType
  <2> QED
    BY <1>0, <1>1, <1>2, <2>1, <2>2, <2>3, <2>4 DEF unchangedByCli, raceVars, LifecycleTypeOK
<1>3. CASE StartDaemon(c)
  BY <1>0, <1>2, <1>3 DEF StartDaemon, CliPc
<1>4. CASE Doctor(c)
  BY <1>0, <1>2, <1>4 DEF Doctor, CliPc
<1>5. CASE StopDaemon(c)
  BY <1>0, <1>2, <1>5 DEF StopDaemon, CliPc
<1>6. ASSUME ProcsType, UNCHANGED <<calls, mixed, unchangedByCli>>,
             pidFile' \in Pid \cup {NoPid},
             \E x : Good(x) /\ cli' = [cli EXCEPT ![c] = x]
      PROVE  LifecycleTypeOK'
  <2>1. /\ mixed' \in {"yes", "no"} /\ calls' \in [cli: 0..MaxCli, app: 0..MaxApp]
        /\ UNCHANGED <<sock, app, early, wiped>> /\ unnamed' \in SUBSET (Pid \cup {NoPid})
    BY <1>6 DEF LifecycleTypeOK, unchangedByCli, raceVars
  <2> QED
    BY <1>1, <1>6, <2>1
<1>7. ASSUME UNCHANGED <<pidFile, calls, mixed, procVars, unchangedByCli>>,
             \E x : Good(x) /\ cli' = [cli EXCEPT ![c] = x]
      PROVE  LifecycleTypeOK'
  <2>1. ProcsType
    BY <1>7, SameProcsType
  <2> QED
    BY <1>0, <1>6, <1>7, <2>1
<1>8. ASSUME NEW pc \in CliPc, Goto(c, pc)
      PROVE  \E x : Good(x) /\ cli' = [cli EXCEPT ![c] = x]
  <2>1. cli' = [cli EXCEPT ![c] = [cli[c] EXCEPT !.pc = pc]]
    BY <1>8 DEF Goto, LifecycleTypeOK
  <2> QED
    BY <1>0, <2>1
<1>9. CASE DoctorReads(c)
  <2>1. cli' = [cli EXCEPT ![c] = [pc |-> "startRead", pid |-> pidFile]]
    BY <1>9 DEF DoctorReads
  <2>2. UNCHANGED <<pidFile, calls, mixed, procVars, unchangedByCli>>
    BY <1>9 DEF DoctorReads
  <2>3. Good([pc |-> "startRead", pid |-> pidFile])
    BY <1>0 DEF CliPc, LifecycleTypeOK
  <2> QED
    BY <1>7, <2>1, <2>2, <2>3
<1>10. CASE StartProbes(c) \/ StartEnds(c)
  <2>1. UNCHANGED <<pidFile, calls, mixed, procVars, unchangedByCli>>
    BY <1>10 DEF StartProbes, StartEnds
  <2>2. cli' = [cli EXCEPT ![c] = Resting] \/ Goto(c, "spawning")
    BY <1>10 DEF StartProbes, StartEnds
  <2>3. Good(Resting) /\ "spawning" \in CliPc
    BY <1>0 DEF CliPc, Resting
  <2> QED
    BY <1>7, <1>8, <2>1, <2>2, <2>3
<1>11. CASE StartSpawns(c)
  <2>1. ProcsType /\ spawned + 1 \in Pid
    BY <1>11, SpawnType DEF StartSpawns
  <2>2. cli' = [cli EXCEPT ![c] = [pc |-> "spawned", pid |-> spawned + 1]]
    BY <1>11 DEF StartSpawns
  <2>3. UNCHANGED <<pidFile, calls, mixed, unchangedByCli>>
    BY <1>11 DEF StartSpawns
  <2>4. Good([pc |-> "spawned", pid |-> spawned + 1]) /\ pidFile' \in Pid \cup {NoPid}
    BY <1>0, <2>1, <2>3 DEF CliPc, LifecycleTypeOK
  <2> QED
    BY <1>6, <2>1, <2>2, <2>3, <2>4
<1>12. CASE StartWrites(c)
  <2>1. /\ Goto(c, "waiting") /\ pidFile' = cli[c].pid
        /\ UNCHANGED <<calls, mixed, procVars, unchangedByCli>>
    BY <1>12 DEF StartWrites
  <2> QED
    BY <1>0, <1>6, <1>8, <2>1, SameProcsType DEF CliPc
<1>13. CASE StopProbes(c)
  <2>1. UNCHANGED <<pidFile, calls, mixed, procVars, unchangedByCli>>
    BY <1>13 DEF StopProbes
  <2>2. Goto(c, "killing") \/ Goto(c, "stopping")
    BY <1>13 DEF StopProbes
  <2> QED
    BY <1>7, <1>8, <2>1, <2>2 DEF CliPc
<1>14. CASE StopKills(c)
  <2>1. ProcsType
    BY <1>14, KillType DEF StopKills
  <2>2. cli' = [cli EXCEPT ![c] = Resting] \/ Goto(c, "stopping")
    BY <1>14 DEF StopKills
  <2>3. UNCHANGED <<pidFile, calls, mixed, unchangedByCli>>
    BY <1>14 DEF StopKills
  <2> QED
    BY <1>0, <1>6, <1>8, <2>1, <2>2, <2>3 DEF CliPc
<1>15. CASE StopForgets(c)
  <2>1. /\ cli' = [cli EXCEPT ![c] = Resting] /\ pidFile' = NoPid
        /\ UNCHANGED <<calls, mixed, procVars, unchangedByCli>>
    BY <1>15 DEF StopForgets
  <2> QED
    BY <1>0, <1>6, <2>1, SameProcsType
<1>16. CASE CliEnds(c)
  <2>1. /\ cli' = [cli EXCEPT ![c] = Resting] /\ pidFile' \in {pidFile, NoPid}
        /\ unnamed' \in {unnamed, unnamed \cup {cli[c].pid}}
        /\ cli[c].pc # "spawned" => unnamed' = unnamed
        /\ UNCHANGED <<sock, app, early, wiped, calls, mixed, procVars>>
    BY <1>16 DEF CliEnds
  <2>2. unnamed' \in SUBSET (Pid \cup {NoPid})
    BY <1>0, <2>1 DEF LifecycleTypeOK
  <2>3. /\ pidFile' \in Pid \cup {NoPid} /\ mixed' \in {"yes", "no"}
        /\ calls' \in [cli: 0..MaxCli, app: 0..MaxApp]
    BY <2>1 DEF LifecycleTypeOK
  <2> QED
    BY <1>0, <1>1, <2>1, <2>2, <2>3, SameProcsType
<1> QED
  BY <1>3, <1>4, <1>5, <1>9, <1>10, <1>11, <1>12, <1>13, <1>14, <1>15, <1>16 DEF CliStep

\* Each step of the app keeps the types.
LEMMA AppType ==
  ASSUME LifecycleTypeOK, NEW a \in App, AppLaunch(a) \/ AppRestart(a) \/ AppStep(a) \/ AppGivesUp(a)
  PROVE  LifecycleTypeOK'
<1>0. UNCHANGED unchangedByApp /\ app' \in [App -> AppPc] /\ mixed' \in {"yes", "no"}
  BY DEF AppLaunch, AppRestart, AppStep, AppProbes, AppRemoves, AppSpawnsAgain, AppRuns,
    AppGivesUp, AppGoto, AppPc, LifecycleTypeOK
<1>1. calls' \in [cli: 0..MaxCli, app: 0..MaxApp]
  <2>1. CASE AppLaunch(a) \/ AppRestart(a)
    BY <2>1, LifecycleAssumption
    DEF AppLaunch, AppRestart, AppCall, LifecycleTypeOK, LifecycleAssumption
  <2>2. CASE AppStep(a) \/ AppGivesUp(a)
    BY <2>2 DEF AppStep, AppRemoves, AppSpawnsAgain, AppRuns, AppGivesUp, LifecycleTypeOK
  <2> QED
    BY <2>1, <2>2
<1>2. CASE AppLaunch(a) \/ AppSpawnsAgain(a)
  <2>1. ProcsType /\ UNCHANGED <<sock, wiped>>
    BY <1>2, SameProcsType DEF AppLaunch, AppSpawnsAgain, AppProbes
  <2> QED
    BY <1>0, <1>1, <2>1 DEF LifecycleTypeOK, ProcsType, unchangedByApp
<1>3. CASE AppRestart(a)
  <2>1. ProcsType /\ UNCHANGED <<sock, wiped>>
    BY <1>3, KillType DEF AppRestart
  <2> QED
    BY <1>0, <1>1, <2>1 DEF LifecycleTypeOK, ProcsType, unchangedByApp
<1>4. CASE AppRemoves(a)
  <2>1. ProcsType /\ sock' = NoPid /\ wiped' \in SUBSET Pid
    BY <1>4, SameProcsType DEF AppRemoves, LifecycleTypeOK
  <2> QED
    BY <1>0, <1>1, <2>1 DEF LifecycleTypeOK, ProcsType, unchangedByApp
<1>5. CASE AppRuns(a)
  <2>1. ProcsType /\ UNCHANGED <<sock, wiped>>
    BY <1>5, SpawnType DEF AppRuns
  <2> QED
    BY <1>0, <1>1, <2>1 DEF LifecycleTypeOK, ProcsType, unchangedByApp
<1>6. CASE AppGivesUp(a)
  <2>1. /\ killed' \in {killed, spawned} /\ spawned \in Nat
        /\ UNCHANGED <<sock, wiped, daemon, spawned>>
    BY <1>6, LifecycleAssumption DEF AppGivesUp, LifecycleTypeOK, LifecycleAssumption
  <2>2. killed' \in 0..spawned
    BY <2>1 DEF LifecycleTypeOK
  <2> QED
    BY <1>0, <1>1, <2>1, <2>2 DEF LifecycleTypeOK, unchangedByApp
<1> QED
  BY <1>2, <1>3, <1>4, <1>5, <1>6 DEF AppStep

-----------------------------------------------------------------------------
(* the socket file *)

\* Steps that leave the file alone and bring nobody to it or to judging it.
LEMMA AwayFromSocket ==
  ASSUME SocketInv, UNCHANGED <<sock, early, wiped>>,
         \A d \in Pid : (AtSocket(d)' => AtSocket(d)) /\ (daemon'[d] = "stale" => daemon[d] = "stale")
  PROVE  SocketInv'
<1>1. StaleKnown'
  <2> SUFFICES ASSUME NEW d \in Pid, NEW e \in Pid, AtSocket(d)', sock = d, daemon'[e] = "stale"
               PROVE  e \in early[d]
    BY DEF StaleKnown
  <2> QED
    BY DEF SocketInv, StaleKnown
<1>2. OwnsOrRaced'
  BY DEF SocketInv, OwnsOrRaced
<1> QED
  BY <1>1, <1>2 DEF SocketInv

\* Of the daemons' steps, the probe, the removal and the bind matter.
LEMMA DaemonSocket ==
  ASSUME LifecycleTypeOK, SocketInv, NEW d \in Pid, DaemonStep(d)
  PROVE  SocketInv'
<1>0. /\ daemon \in [Pid -> Phase] /\ early \in [Pid -> SUBSET Pid] /\ d # NoPid
      /\ StaleKnown /\ OwnsOrRaced
  BY LifecycleAssumption DEF LifecycleTypeOK, SocketInv, Pid, NoPid, LifecycleAssumption
<1>1. CASE Exists(d)
  <2>1. daemon' \in {[daemon EXCEPT ![d] = "binding"], [daemon EXCEPT ![d] = "probing"]}
    BY <1>1 DEF Exists, Become
  <2>2. UNCHANGED <<sock, early, wiped>>
    BY <1>1 DEF Exists, unchangedByDaemon
  <2> QED
    BY <1>0, <2>1, <2>2, AwayFromSocket DEF AtSocket
<1>2. CASE Probe(d)
  <2>1. sock' = sock /\ wiped' = wiped
    BY <1>2 DEF Probe, unchangedByDaemon
  <2>2. CASE Reachable
    <3>1. daemon' = [daemon EXCEPT ![d] = "dead"] /\ early' = early
      BY <1>2, <2>2 DEF Probe, Become
    <3> QED
      BY <1>0, <2>1, <3>1, AwayFromSocket DEF AtSocket
  <2>3. CASE ~Reachable
    <3>1. /\ daemon[d] = "probing" /\ daemon' = [daemon EXCEPT ![d] = "stale"]
          /\ early' = IF sock # NoPid /\ daemon[sock] = "bound"
                        THEN [early EXCEPT ![sock] = @ \cup {d}] ELSE early
      BY <1>2, <2>3 DEF Probe, Become
    <3>2. \A e \in Pid : /\ AtSocket(e)' <=> AtSocket(e)
                         /\ early[e] \subseteq early'[e]
                         /\ daemon'[e] = "stale" => e = d \/ daemon[e] = "stale"
      BY <1>0, <3>1 DEF AtSocket
    <3>3. ASSUME NEW e \in Pid, AtSocket(e), sock = e PROVE d \in early'[e]
      <4>1. e # NoPid
        BY LifecycleAssumption DEF Pid, NoPid, LifecycleAssumption
      <4> QED
        BY <1>0, <2>3, <3>1, <3>3, <4>1 DEF AtSocket, Reachable
    <3>4. StaleKnown'
      BY <1>0, <2>1, <3>2, <3>3 DEF StaleKnown
    <3>5. OwnsOrRaced'
      BY <1>0, <2>1, <3>2 DEF OwnsOrRaced
    <3> QED
      BY <3>4, <3>5 DEF SocketInv
  <2> QED
    BY <2>2, <2>3
<1>3. CASE RemoveStale(d)
  <2>1. /\ daemon[d] = "stale" /\ sock' = NoPid /\ early' = early /\ wiped' = wiped
        /\ daemon' \in {[daemon EXCEPT ![d] = "dead"], [daemon EXCEPT ![d] = "binding"]}
    BY <1>3 DEF RemoveStale, unchangedByDaemon, Become
  <2>2. \A e \in Pid : AtSocket(e)' => AtSocket(e) /\ e # NoPid
    BY <1>0, <2>1, LifecycleAssumption DEF AtSocket, Pid, NoPid, LifecycleAssumption
  <2>3. ASSUME NEW e \in Pid, AtSocket(e) PROVE e \in wiped \/ early[e] # {}
    BY <1>0, <2>1, <2>3 DEF StaleKnown, OwnsOrRaced
  <2> QED
    BY <2>1, <2>2, <2>3 DEF SocketInv, StaleKnown, OwnsOrRaced
<1>4. CASE Bind(d)
  <2>1. CASE sock = NoPid
    <3>1. /\ daemon' = [daemon EXCEPT ![d] = "bound"] /\ sock' = d /\ wiped' = wiped
          /\ early' = [early EXCEPT ![d] = {e \in Pid : daemon[e] = "stale"}]
      BY <1>4, <2>1 DEF Bind, Become, unchangedByDaemon
    <3>2. ASSUME NEW e \in Pid, e # d, AtSocket(e)' PROVE e \in wiped \/ early'[e] # {}
      <4>1. AtSocket(e) /\ early'[e] = early[e] /\ e # NoPid
        BY <1>0, <3>1, <3>2, LifecycleAssumption
        DEF AtSocket, Pid, NoPid, LifecycleAssumption
      <4> QED
        BY <1>0, <2>1, <4>1 DEF OwnsOrRaced
    <3>3. \A e \in Pid : daemon'[e] = "stale" => e \in early'[d]
      BY <1>0, <3>1
    <3> QED
      BY <3>1, <3>2, <3>3 DEF SocketInv, StaleKnown, OwnsOrRaced
  <2>2. CASE sock # NoPid
    <3>1. daemon' = [daemon EXCEPT ![d] = "dead"] /\ UNCHANGED <<sock, early, wiped>>
      BY <1>4, <2>2 DEF Bind, Become, unchangedByDaemon
    <3> QED
      BY <1>0, <3>1, AwayFromSocket DEF AtSocket
  <2> QED
    BY <2>1, <2>2
<1>5. CASE Listen(d)
  <2>1. /\ daemon[d] = "bound" /\ daemon' = [daemon EXCEPT ![d] = "listening"]
        /\ UNCHANGED <<sock, early, wiped>>
    BY <1>5 DEF Listen, Become, unchangedByDaemon
  <2> QED
    BY <1>0, <2>1, AwayFromSocket DEF AtSocket
<1> QED
  BY <1>1, <1>2, <1>3, <1>4, <1>5 DEF DaemonStep

\* Of the others' steps, only the app's removal matters.
LEMMA OthersSocket ==
  ASSUME LifecycleTypeOK, SocketInv,
         \/ \E d \in Pid : Crash(d)
         \/ \E c \in Cli : StartDaemon(c) \/ Doctor(c) \/ StopDaemon(c) \/ CliStep(c) \/ CliEnds(c)
         \/ \E a \in App : AppLaunch(a) \/ AppRestart(a) \/ AppStep(a) \/ AppGivesUp(a)
  PROVE  SocketInv'
<1>1. ASSUME Spawn PROVE \A d \in Pid : (AtSocket(d)' => AtSocket(d))
                           /\ (daemon'[d] = "stale" => daemon[d] = "stale")
  BY <1>1, SpawnType DEF AtSocket
<1>2. ASSUME NEW pids, Kill(pids) PROVE \A d \in Pid : (AtSocket(d)' => AtSocket(d))
                           /\ (daemon'[d] = "stale" => daemon[d] = "stale")
  BY <1>2, KillType DEF AtSocket
<1>3. ASSUME NEW d \in Pid, Crash(d) PROVE SocketInv'
  BY <1>2, <1>3, AwayFromSocket DEF Crash, raceVars
<1>4. ASSUME NEW c \in Cli,
             StartDaemon(c) \/ Doctor(c) \/ StopDaemon(c) \/ CliStep(c) \/ CliEnds(c)
      PROVE  SocketInv'
  <2>1. UNCHANGED <<sock, early, wiped>>
    BY <1>4 DEF StartDaemon, Doctor, StopDaemon, CliStep, DoctorReads, StartProbes, StartSpawns,
      StartWrites, StartEnds, StopProbes, StopKills, StopForgets, CliEnds, unchangedByCli, raceVars
  <2>2. UNCHANGED daemon \/ Spawn \/ \E pids : Kill(pids)
    BY <1>4 DEF StartDaemon, Doctor, StopDaemon, CliStep, DoctorReads, StartProbes, StartSpawns,
      StartWrites, StartEnds, StopProbes, StopKills, StopForgets, CliEnds, procVars
  <2> QED
    BY <1>1, <1>2, <2>1, <2>2, AwayFromSocket DEF AtSocket
<1>5. ASSUME NEW a \in App,
             \/ AppLaunch(a) \/ AppRestart(a) \/ AppSpawnsAgain(a) \/ AppRuns(a)
             \/ AppGivesUp(a)
      PROVE  SocketInv'
  <2>1. UNCHANGED <<sock, early, wiped>>
    BY <1>5 DEF AppLaunch, AppRestart, AppSpawnsAgain, AppRuns, AppGivesUp, AppProbes,
      unchangedByApp
  <2>2. UNCHANGED daemon \/ Spawn \/ \E pids : Kill(pids)
    BY <1>5 DEF AppLaunch, AppRestart, AppSpawnsAgain, AppRuns, AppGivesUp, AppProbes, procVars
  <2> QED
    BY <1>1, <1>2, <2>1, <2>2, AwayFromSocket DEF AtSocket
<1>6. ASSUME NEW a \in App, AppRemoves(a) PROVE SocketInv'
  <2>1. /\ sock' = NoPid /\ wiped' = wiped \cup ({sock} \ {NoPid})
        /\ UNCHANGED <<daemon, early>>
    BY <1>6 DEF AppRemoves, procVars, unchangedByApp
  <2>2. \A d \in Pid : d # NoPid
    BY LifecycleAssumption DEF Pid, NoPid, LifecycleAssumption
  <2> QED
    BY <2>1, <2>2 DEF SocketInv, StaleKnown, OwnsOrRaced, AtSocket
<1> QED
  BY <1>3, <1>4, <1>5, <1>6 DEF AppStep

-----------------------------------------------------------------------------
(* the pid file *)

\* Steps of others than the CLI, which start nothing while mixed is "no".
LEMMA AwayFromCommands ==
  ASSUME CommandInv, UNCHANGED <<cli, pidFile, unnamed>>, mixed' = "no" => mixed = "no",
         mixed' = "no" => \A d \in Pid : Tracked(d)' => Tracked(d)
  PROVE  CommandInv'
<1> SUFFICES ASSUME mixed' = "no"
             PROVE  /\ \A b, c \in Cli : cli'[b].pc # "idle" /\ cli'[c].pc # "idle" => b = c
                    /\ \A c \in Cli : Knows(c)'
                    /\ \A d \in Pid : Tracked(d)' => Named(d)'
  BY DEF CommandInv
<1> QED
  BY DEF CommandInv, Knows, Named

\* What it takes for a daemon to be named otherwise than by the file.
LEMMA NamedBy ==
  ASSUME NEW d, Named(d), pidFile # d
  PROVE  \E c \in Cli : cli[c].pc = "spawned" /\ cli[c].pid = d
<1>1. PICK c \in Cli : cli[c] = [pc |-> "spawned", pid |-> d]
  BY DEF Named
<1>2. cli[c].pc = "spawned" /\ cli[c].pid = d
  BY <1>1
<1> QED
  BY <1>2

\* A daemon does not start another.
LEMMA DaemonCommands ==
  ASSUME LifecycleTypeOK, CommandInv, NEW d \in Pid, DaemonStep(d) \/ Crash(d)
  PROVE  CommandInv'
<1>1. CASE DaemonStep(d)
  <2>1. UNCHANGED <<cli, pidFile, mixed, unnamed>>
    BY <1>1 DEF DaemonStep, Exists, Probe, RemoveStale, Bind, Listen, unchangedByDaemon
  <2>2. Running(d) /\ \E phase : daemon' = [daemon EXCEPT ![d] = phase]
    BY <1>1 DEF DaemonStep, Exists, Probe, RemoveStale, Bind, Listen, Become, Running
  <2>3. \A e \in Pid : Tracked(e)' => Tracked(e)
    BY <2>1, <2>2 DEF Tracked, Running, LifecycleTypeOK
  <2> QED
    BY <2>1, <2>3, AwayFromCommands
<1>2. CASE Crash(d)
  <2>1. UNCHANGED <<cli, pidFile, mixed, unnamed>> /\ Kill({d})
    BY <1>2 DEF Crash, raceVars
  <2>2. \A e \in Pid : Tracked(e)' => Tracked(e)
    BY <2>1, KillType DEF Tracked, Running
  <2> QED
    BY <2>1, <2>2, AwayFromCommands
<1> QED
  BY <1>1, <1>2

\* Nor does the app while mixed is "no".
LEMMA AppCommands ==
  ASSUME LifecycleTypeOK, CommandInv, NEW a \in App,
         AppLaunch(a) \/ AppRestart(a) \/ AppStep(a) \/ AppGivesUp(a)
  PROVE  CommandInv'
<1>1. UNCHANGED <<cli, pidFile, unnamed>> /\ (mixed' = "no" => mixed = "no")
  BY DEF AppLaunch, AppRestart, AppStep, AppProbes, AppRemoves, AppSpawnsAgain, AppRuns,
    AppGivesUp, unchangedByApp
<1>2. mixed' = "no" => \A d \in Pid : Tracked(d)' => Tracked(d)
  <2>1. mixed' = "no" => UNCHANGED daemon \/ Kill(Pid)
    BY DEF AppLaunch, AppRestart, AppStep, AppProbes, AppRemoves, AppSpawnsAgain, AppRuns,
      AppGivesUp, procVars
  <2> QED
    BY <1>1, <2>1, KillType DEF Tracked, Running
<1> QED
  BY <1>1, <1>2, AwayFromCommands

\* A command that begins, or goes on, when no other is under way.
LEMMA CliCommands ==
  ASSUME LifecycleTypeOK, CommandInv, NEW c \in Cli,
         StartDaemon(c) \/ Doctor(c) \/ StopDaemon(c) \/ CliStep(c) \/ CliEnds(c)
  PROVE  CommandInv'
<1> SUFFICES ASSUME mixed' = "no"
             PROVE  /\ \A a, b \in Cli : cli'[a].pc # "idle" /\ cli'[b].pc # "idle" => a = b
                    /\ \A b \in Cli : Knows(b)'
                    /\ \A d \in Pid : Tracked(d)' => Named(d)'
  BY DEF CommandInv
<1> DEFINE Fields == [pc: CliPc, pid: Pid \cup {NoPid}]
<1>0. cli \in [Cli -> Fields] /\ daemon \in [Pid -> Phase]
  BY DEF LifecycleTypeOK
<1>1. ASSUME mixed = "no", \A b \in Cli : b # c => cli[b].pc = "idle",
             NEW x \in Fields, cli' = [cli EXCEPT ![c] = x], Knows(c)',
             \A d \in Pid : Tracked(d)' => Named(d)'
      PROVE  /\ \A a, b \in Cli : cli'[a].pc # "idle" /\ cli'[b].pc # "idle" => a = b
             /\ \A b \in Cli : Knows(b)'
             /\ \A d \in Pid : Tracked(d)' => Named(d)'
  <2>1. \A b \in Cli : b # c => cli'[b].pc = "idle"
    BY <1>0, <1>1
  <2>2. \A b \in Cli : b # c => Knows(b)'
    BY <2>1 DEF Knows
  <2> QED
    BY <1>1, <2>1, <2>2
<1>2. ASSUME NEW pc \in CliPc, NEW pid \in Pid \cup {NoPid}, Command(c, pc, pid)
      PROVE  /\ mixed = "no" /\ \A b \in Cli : cli[b].pc = "idle"
             /\ [pc |-> pc, pid |-> pid] \in Fields
             /\ cli' = [cli EXCEPT ![c] = [pc |-> pc, pid |-> pid]]
  BY <1>2 DEF Command
<1>3. ASSUME NEW pc \in {"start", "startRead", "stopRead"}, NEW pid \in Pid \cup {NoPid},
             pc # "start" => pid = pidFile,
             Command(c, pc, pid), UNCHANGED <<pidFile, procVars, unnamed>>
      PROVE  /\ \A a, b \in Cli : cli'[a].pc # "idle" /\ cli'[b].pc # "idle" => a = b
             /\ \A b \in Cli : Knows(b)'
             /\ \A d \in Pid : Tracked(d)' => Named(d)'
  <2>1. /\ mixed = "no" /\ \A b \in Cli : cli[b].pc = "idle"
        /\ [pc |-> pc, pid |-> pid] \in Fields
        /\ cli' = [cli EXCEPT ![c] = [pc |-> pc, pid |-> pid]]
    BY <1>2, <1>3 DEF CliPc
  <2>2. cli'[c].pc = pc /\ cli'[c].pid = pid
    BY <1>0, <2>1
  <2>3. Knows(c)'
    BY <1>3, <2>2 DEF Knows
  <2>4. \A d \in Pid : Tracked(d)' => pidFile' = d
    BY <1>3, <2>1, NamedBy DEF CommandInv, Tracked, Running, procVars
  <2> QED
    BY <1>1, <2>1, <2>3, <2>4 DEF Named
<1>4. CASE StartDaemon(c) \/ Doctor(c) \/ StopDaemon(c)
  <2>1. pidFile \in Pid \cup {NoPid} /\ NoPid \in Pid \cup {NoPid}
    BY DEF LifecycleTypeOK
  <2> QED
    BY <1>3, <1>4, <2>1 DEF StartDaemon, Doctor, StopDaemon, unchangedByCli, raceVars
<1>5. CASE CliStep(c)
  <2>1. /\ mixed = "no" /\ cli[c].pc # "idle"
        /\ UNCHANGED <<mixed, unnamed>>
    BY <1>5 DEF CliStep, DoctorReads, StartProbes, StartSpawns, StartWrites, StartEnds,
      StopProbes, StopKills, StopForgets, unchangedByCli, raceVars
  <2>2. /\ \A b \in Cli : b # c => cli[b].pc = "idle"
        /\ Knows(c) /\ \A d \in Pid : Tracked(d) => Named(d)
    BY <2>1 DEF CommandInv
  <2>3. ASSUME NEW d \in Pid, Named(d), pidFile # d
        PROVE  cli[c].pc = "spawned" /\ cli[c].pid = d
    <3>1. PICK b \in Cli : cli[b].pc = "spawned" /\ cli[b].pid = d
      BY <2>3, NamedBy
    <3>2. b = c
      BY <2>2, <3>1
    <3> QED
      BY <3>1, <3>2
  <2>4. Resting \in Fields /\ Resting.pc = "idle"
    BY DEF Resting, CliPc
  <2>5. CASE DoctorReads(c)
    <3> DEFINE x == [pc |-> "startRead", pid |-> pidFile]
    <3>1. /\ cli' = [cli EXCEPT ![c] = x] /\ x \in Fields /\ pidFile' = pidFile
          /\ daemon' = daemon /\ cli[c].pc = "start"
      BY <2>5 DEF DoctorReads, LifecycleTypeOK, CliPc, procVars
    <3>2. cli'[c] = x
      BY <1>0, <3>1
    <3>3. Knows(c)'
      BY <3>1, <3>2 DEF Knows
    <3>4. \A d \in Pid : Tracked(d)' => Named(d)'
      BY <2>1, <2>2, <2>3, <3>1 DEF Named, Tracked, Running
    <3> QED
      BY <1>1, <2>1, <2>2, <3>1, <3>3, <3>4
  <2>6. CASE StartProbes(c)
    <3>1. /\ pidFile' = pidFile /\ daemon' = daemon /\ cli[c].pc = "startRead"
          /\ cli[c].pid = pidFile
      BY <2>1, <2>2, <2>6 DEF StartProbes, procVars, Knows
    <3>2. \A d \in Pid : Tracked(d)' => Named(d)'
      BY <2>1, <2>2, <2>3, <3>1 DEF Named, Tracked, Running
    <3>3. CASE IsAlive(cli[c].pid)
      <4>1. cli' = [cli EXCEPT ![c] = Resting] /\ cli'[c].pc = "idle"
        BY <1>0, <2>4, <2>6, <3>3 DEF StartProbes
      <4>2. Knows(c)'
        BY <4>1 DEF Knows
      <4> QED
        BY <1>1, <2>1, <2>2, <2>4, <3>2, <4>1, <4>2
    <3>4. CASE ~IsAlive(cli[c].pid)
      <4> DEFINE x == [cli[c] EXCEPT !.pc = "spawning"]
      <4>1. /\ cli' = [cli EXCEPT ![c] = x] /\ x \in Fields
            /\ x.pc = "spawning"
        BY <1>0, <2>6, <3>4 DEF StartProbes, Goto, CliPc
      <4>2. cli'[c].pc = "spawning"
        BY <1>0, <4>1
      <4>3. \A d \in Pid : d # NoPid /\ ~Tracked(d)
        BY <2>1, <2>2, <2>3, <3>1, <3>4, LifecycleAssumption
        DEF IsAlive, Tracked, Pid, NoPid, LifecycleAssumption
      <4>4. Knows(c)'
        BY <2>1, <3>1, <4>2, <4>3 DEF Knows, Tracked, Running
      <4> HIDE DEF x
      <4> QED
        BY <1>1, <2>1, <2>2, <3>2, <4>1, <4>4
    <3> QED
      BY <3>3, <3>4
  <2>7. CASE StartSpawns(c)
    <3> DEFINE x == [pc |-> "spawned", pid |-> spawned + 1]
    <3>1. /\ cli' = [cli EXCEPT ![c] = x] /\ Spawn /\ pidFile' = pidFile
          /\ cli[c].pc = "spawning"
      BY <2>7 DEF StartSpawns
    <3>2. /\ spawned + 1 \in Pid /\ \A d \in Pid : d # spawned + 1 => daemon'[d] = daemon[d]
      BY <3>1, SpawnType
    <3>3. x \in Fields /\ x.pc = "spawned" /\ x.pid = spawned + 1 /\ cli'[c] = x
      BY <1>0, <3>1, <3>2 DEF CliPc
    <3>4. \A d \in Pid : Tracked(d)' => d = spawned + 1
      BY <2>1, <2>2, <3>1, <3>2 DEF Knows, Tracked, Running
    <3>5. Knows(c)'
      BY <3>3, <3>4 DEF Knows
    <3>6. \A d \in Pid : Tracked(d)' => Named(d)'
      BY <3>3, <3>4 DEF Named
    <3> HIDE DEF x
    <3> QED
      BY <1>1, <2>1, <2>2, <3>1, <3>3, <3>5, <3>6
  <2>8. CASE StartWrites(c)
    <3> DEFINE x == [cli[c] EXCEPT !.pc = "waiting"]
    <3>1. /\ cli' = [cli EXCEPT ![c] = x] /\ x \in Fields
          /\ x.pc = "waiting" /\ x.pid = cli[c].pid
          /\ pidFile' = cli[c].pid /\ daemon' = daemon /\ cli[c].pc = "spawned"
      BY <1>0, <2>8 DEF StartWrites, Goto, CliPc, procVars
    <3>2. cli'[c] = x
      BY <1>0, <3>1
    <3> HIDE DEF x
    <3>3. Knows(c)'
      BY <3>1, <3>2 DEF Knows
    <3>4. \A d \in Pid : Tracked(d)' => Named(d)'
      BY <2>1, <2>2, <3>1 DEF Knows, Named, Tracked, Running
    <3> QED
      BY <1>1, <2>1, <2>2, <3>1, <3>3, <3>4
  <2>9. CASE StartEnds(c)
    <3>1. /\ pidFile' = pidFile /\ daemon' = daemon /\ cli[c].pc = "waiting"
          /\ cli' = [cli EXCEPT ![c] = Resting] /\ cli'[c].pc = "idle"
      BY <1>0, <2>4, <2>9 DEF StartEnds, procVars
    <3>2. \A d \in Pid : Tracked(d)' => Named(d)'
      BY <2>1, <2>2, <2>3, <3>1 DEF Named, Tracked, Running
    <3>3. Knows(c)'
      BY <3>1 DEF Knows
    <3> QED
      BY <1>1, <2>1, <2>2, <2>4, <3>1, <3>2, <3>3
  <2>10. CASE StopProbes(c)
    <3>1. /\ pidFile' = pidFile /\ daemon' = daemon /\ cli[c].pc = "stopRead"
          /\ cli[c].pid = pidFile
      BY <2>1, <2>2, <2>10 DEF StopProbes, procVars, Knows
    <3>2. \A d \in Pid : Tracked(d)' => Named(d)'
      BY <2>1, <2>2, <2>3, <3>1 DEF Named, Tracked, Running
    <3> DEFINE pc == IF IsAlive(cli[c].pid) THEN "killing" ELSE "stopping"
               x == [cli[c] EXCEPT !.pc = pc]
    <3>3. pc \in CliPc /\ cli' = [cli EXCEPT ![c] = x]
      BY <1>0, <2>10 DEF StopProbes, Goto, CliPc
    <3>4. x \in Fields /\ x.pc = pc /\ x.pid = pidFile /\ cli'[c] = x
      BY <1>0, <3>1, <3>3
    <3>5. pc = "stopping" => \A d \in Pid : d # NoPid /\ ~Tracked(d)
      BY <2>1, <2>2, <2>3, <3>1, LifecycleAssumption
      DEF IsAlive, Tracked, Pid, NoPid, LifecycleAssumption
    <3>6. pc \in {"killing", "stopping"}
      OBVIOUS
    <3> HIDE DEF x, pc
    <3>7. Knows(c)'
      BY <2>1, <3>1, <3>4, <3>5, <3>6 DEF Knows, Tracked, Running
    <3> QED
      BY <1>1, <2>1, <2>2, <3>2, <3>3, <3>4, <3>7
  <2>11. CASE StopKills(c)
    <3>1. /\ pidFile' = pidFile /\ Kill({cli[c].pid}) /\ cli[c].pc = "killing"
          /\ cli[c].pid = pidFile
      BY <2>1, <2>2, <2>11 DEF StopKills, Knows
    <3>2. \A d \in Pid : ~Tracked(d)'
      BY <2>1, <2>2, <2>3, <3>1, KillType DEF Tracked, Running
    <3>3. CASE IsAlive(cli[c].pid)
      <4> DEFINE x == [cli[c] EXCEPT !.pc = "stopping"]
      <4>1. cli' = [cli EXCEPT ![c] = x] /\ x \in Fields /\ x.pc = "stopping"
        BY <1>0, <2>11, <3>3 DEF StopKills, Goto, CliPc
      <4>2. cli'[c].pc = "stopping"
        BY <1>0, <4>1
      <4>3. Knows(c)'
        BY <2>1, <3>2, <4>2 DEF Knows
      <4> HIDE DEF x
      <4> QED
        BY <1>1, <2>1, <2>2, <3>2, <4>1, <4>3
    <3>4. CASE ~IsAlive(cli[c].pid)
      <4>1. cli' = [cli EXCEPT ![c] = Resting] /\ cli'[c].pc = "idle"
        BY <1>0, <2>4, <2>11, <3>4 DEF StopKills
      <4>2. Knows(c)'
        BY <4>1 DEF Knows
      <4> QED
        BY <1>1, <2>1, <2>2, <2>4, <3>2, <4>1, <4>2
    <3> QED
      BY <3>3, <3>4
  <2>12. CASE StopForgets(c)
    <3>1. /\ daemon' = daemon /\ cli[c].pc = "stopping"
          /\ cli' = [cli EXCEPT ![c] = Resting] /\ cli'[c].pc = "idle"
      BY <1>0, <2>4, <2>12 DEF StopForgets, procVars
    <3>2. \A d \in Pid : ~Tracked(d)'
      BY <2>1, <2>2, <3>1 DEF Knows, Tracked, Running
    <3>3. Knows(c)'
      BY <3>1 DEF Knows
    <3> QED
      BY <1>1, <2>1, <2>2, <2>4, <3>1, <3>2, <3>3
  <2> QED
    BY <1>5, <2>5, <2>6, <2>7, <2>8, <2>9, <2>10, <2>11, <2>12 DEF CliStep
<1>6. CASE CliEnds(c)
  <2>1. /\ mixed = "no" /\ cli[c].pc # "idle" /\ daemon' = daemon
        /\ cli' = [cli EXCEPT ![c] = Resting]
        /\ IF cli[c].pc = "spawned" THEN unnamed' = unnamed \cup {cli[c].pid}
           ELSE unnamed' = unnamed /\ pidFile' = pidFile
    BY <1>6 DEF CliEnds, procVars
  <2>2. /\ \A b \in Cli : b # c => cli[b].pc = "idle"
        /\ Knows(c) /\ \A d \in Pid : Tracked(d) => Named(d)
    BY <2>1 DEF CommandInv
  <2>3. Resting \in Fields /\ cli'[c].pc = "idle"
    BY <1>0, <2>1 DEF Resting, CliPc
  <2>4. Knows(c)'
    BY <2>3 DEF Knows
  <2>5. ASSUME NEW d \in Pid, Tracked(d)' PROVE pidFile' = d
    <3>1. Tracked(d) /\ (cli[c].pc = "spawned" => d # cli[c].pid)
      BY <2>1, <2>5 DEF Tracked, Running
    <3>2. cli[c].pc # "spawned"
      BY <2>2, <3>1 DEF Knows
    <3>3. pidFile = d
      BY <2>2, <3>1, <3>2, NamedBy
    <3> QED
      BY <2>1, <3>2, <3>3
  <2> QED
    BY <1>1, <2>1, <2>2, <2>3, <2>4, <2>5 DEF Named
<1> QED
  BY <1>4, <1>5, <1>6

-----------------------------------------------------------------------------
(* the daemon that serves in the end *)

\* Where the socket file is free, somebody who has not looked at it in vain is
\* about to take it.
FreeWanted ==
  sock = NoPid =>
    \/ \E a \in App : Replacing(a)
    \/ \E d \in Pid : daemon[d] \in {"opening", "binding"}

\* Where it is a dead daemon's, somebody is about to find that out.
DeadWanted ==
  sock # NoPid /\ daemon[sock] = "dead" =>
    \E d \in Pid : daemon[d] \in {"opening", "probing", "stale"}

SuccessorInv == spawned > killed => FreeWanted /\ DeadWanted

\* Of the daemons' steps, only those that give up the place matter: the bind
\* that fails leaves a file that is not free, the removal that fails a file
\* somebody else has freed.
LEMMA DaemonSuccessor ==
  ASSUME LifecycleTypeOK, SuccessorInv, NEW d \in Pid, DaemonStep(d)
  PROVE  SuccessorInv'
<1>0. daemon \in [Pid -> Phase] /\ d # NoPid /\ sock \in Pid \cup {NoPid}
      /\ (sock # NoPid => daemon[sock] \in {"bound", "listening", "dead"})
  BY LifecycleAssumption DEF LifecycleTypeOK, Pid, NoPid, LifecycleAssumption
<1> SUFFICES ASSUME (spawned > killed)' PROVE FreeWanted' /\ DeadWanted'
  BY DEF SuccessorInv
<1>1. UNCHANGED <<spawned, killed, app>>
  BY DEF DaemonStep, Exists, Probe, RemoveStale, Bind, Listen, unchangedByDaemon
<1>2. FreeWanted /\ DeadWanted
  BY <1>1 DEF SuccessorInv
<1>3. CASE Exists(d)
  <2>1. /\ daemon[d] = "opening" /\ sock' = sock
        /\ daemon' = [daemon EXCEPT ![d] = IF sock = NoPid THEN "binding" ELSE "probing"]
    BY <1>3 DEF Exists, Become
  <2> QED
    BY <1>0, <1>1, <1>2, <2>1 DEF FreeWanted, DeadWanted, Replacing
<1>4. CASE Probe(d)
  <2>1. /\ daemon[d] = "probing" /\ sock' = sock
        /\ daemon' = [daemon EXCEPT ![d] = IF Reachable THEN "dead" ELSE "stale"]
    BY <1>4 DEF Probe, Become
  <2>2. sock # NoPid => daemon'[sock] = daemon[sock]
    BY <1>0, <2>1
  <2>3. FreeWanted'
    BY <1>0, <1>1, <1>2, <2>1 DEF FreeWanted, Replacing
  <2>4. DeadWanted'
    BY <1>0, <1>2, <2>1, <2>2 DEF DeadWanted, Reachable
  <2> QED
    BY <2>3, <2>4
<1>5. CASE RemoveStale(d)
  <2>1. /\ daemon[d] = "stale" /\ sock' = NoPid
        /\ daemon' = [daemon EXCEPT ![d] = IF sock = NoPid THEN "dead" ELSE "binding"]
    BY <1>5 DEF RemoveStale, Become
  <2> QED
    BY <1>0, <1>1, <1>2, <2>1 DEF FreeWanted, DeadWanted, Replacing
<1>6. CASE Bind(d)
  <2>1. /\ daemon[d] = "binding"
        /\ sock = NoPid => sock' = d /\ daemon' = [daemon EXCEPT ![d] = "bound"]
        /\ sock # NoPid => sock' = sock /\ daemon' = [daemon EXCEPT ![d] = "dead"]
    BY <1>6 DEF Bind, Become
  <2> QED
    BY <1>0, <1>2, <2>1 DEF FreeWanted, DeadWanted
<1>7. CASE Listen(d)
  <2>1. daemon[d] = "bound" /\ sock' = sock /\ daemon' = [daemon EXCEPT ![d] = "listening"]
    BY <1>7 DEF Listen, Become
  <2> QED
    BY <1>0, <1>1, <1>2, <2>1 DEF FreeWanted, DeadWanted, Replacing
<1> QED
  BY <1>3, <1>4, <1>5, <1>6, <1>7 DEF DaemonStep

\* A daemon that is spawned will look at the file, whatever is there.
LEMMA SpawnSuccessor ==
  ASSUME LifecycleTypeOK, Spawn
  PROVE  SuccessorInv'
<1>1. spawned + 1 \in Pid /\ daemon'[spawned + 1] = "opening"
  BY SpawnType
<1> QED
  BY <1>1 DEF SuccessorInv, FreeWanted, DeadWanted

\* After a kill nothing is asked before the next spawn.
LEMMA KillSuccessor ==
  ASSUME LifecycleTypeOK, SuccessorInv, NEW pids, Kill(pids), sock' = sock,
         \A a \in App : Replacing(a) => Replacing(a)'
  PROVE  SuccessorInv'
<1>1. CASE \E d \in pids : Running(d)
  <2>1. killed' = spawned /\ spawned' = spawned /\ spawned \in Nat
    BY <1>1, LifecycleAssumption DEF Kill, LifecycleTypeOK, LifecycleAssumption
  <2> QED
    BY <2>1 DEF SuccessorInv
<1>2. CASE ~ \E d \in pids : Running(d)
  <2>1. daemon' = daemon /\ killed' = killed /\ spawned' = spawned
    BY <1>2 DEF Kill, LifecycleTypeOK
  <2> QED
    BY <2>1 DEF SuccessorInv, FreeWanted, DeadWanted
<1> QED
  BY <1>1, <1>2

\* Nor do the steps matter that leave daemons and the file alone.
LEMMA SameSuccessor ==
  ASSUME SuccessorInv, UNCHANGED <<daemon, spawned, killed, sock>>,
         \A a \in App : Replacing(a) => Replacing(a)'
  PROVE  SuccessorInv'
  BY DEF SuccessorInv, FreeWanted, DeadWanted

LEMMA OthersSuccessor ==
  ASSUME LifecycleTypeOK, SuccessorInv,
         \/ \E d \in Pid : Crash(d)
         \/ \E c \in Cli : StartDaemon(c) \/ Doctor(c) \/ StopDaemon(c) \/ CliStep(c) \/ CliEnds(c)
         \/ \E a \in App : AppLaunch(a) \/ AppRestart(a) \/ AppStep(a) \/ AppGivesUp(a)
  PROVE  SuccessorInv'
<1>1. ASSUME NEW d \in Pid, Crash(d) PROVE SuccessorInv'
  <2>1. Kill({d}) /\ sock' = sock /\ app' = app
    BY <1>1 DEF Crash
  <2> QED
    BY <2>1, KillSuccessor DEF Replacing
<1>2. ASSUME NEW c \in Cli, StartDaemon(c) \/ Doctor(c) \/ StopDaemon(c) \/ CliStep(c) \/ CliEnds(c)
      PROVE  SuccessorInv'
  <2>1. sock' = sock /\ app' = app
    BY <1>2 DEF StartDaemon, Doctor, StopDaemon, CliStep, DoctorReads, StartProbes, StartSpawns,
      StartWrites, StartEnds, StopProbes, StopKills, StopForgets, CliEnds, unchangedByCli
  <2>2. CASE StartSpawns(c)
    BY <2>2, SpawnSuccessor DEF StartSpawns
  <2>3. CASE StopKills(c)
    <3>1. Kill({cli[c].pid})
      BY <2>3 DEF StopKills
    <3> QED
      BY <2>1, <3>1, KillSuccessor DEF Replacing
  <2>4. CASE UNCHANGED procVars
    BY <2>1, <2>4, SameSuccessor DEF procVars, Replacing
  <2> QED
    BY <1>2, <2>2, <2>3, <2>4
    DEF StartDaemon, Doctor, StopDaemon, CliStep, DoctorReads, StartProbes, StartWrites,
      StartEnds, StopProbes, StopForgets, CliEnds
<1>3. ASSUME NEW a \in App, AppLaunch(a) \/ AppRestart(a) \/ AppStep(a) \/ AppGivesUp(a)
      PROVE  SuccessorInv'
  <2>0. app \in [App -> AppPc]
    BY DEF LifecycleTypeOK
  <2>1. CASE AppLaunch(a)
    <3>1. app[a] = "idle" /\ UNCHANGED <<daemon, spawned, killed, sock>>
          /\ \E pc : app' = [app EXCEPT ![a] = pc]
      BY <2>1 DEF AppLaunch, AppProbes, AppGoto, procVars
    <3> QED
      BY <2>0, <3>1, SameSuccessor DEF Replacing
  <2>2. CASE AppRestart(a)
    <3>1. app[a] = "idle" /\ Kill(Pid) /\ sock' = sock /\ app' = [app EXCEPT ![a] = "killed"]
      BY <2>2 DEF AppRestart, AppGoto
    <3> QED
      BY <2>0, <3>1, KillSuccessor DEF Replacing
  <2>3. CASE AppRemoves(a)
    <3>1. sock' = NoPid /\ app' = [app EXCEPT ![a] = "cleared"]
      BY <2>3 DEF AppRemoves, AppGoto
    <3>2. Replacing(a)'
      BY <2>0, <3>1 DEF Replacing
    <3> QED
      BY <3>1, <3>2 DEF SuccessorInv, FreeWanted, DeadWanted
  <2>4. CASE AppSpawnsAgain(a)
    <3>1. /\ UNCHANGED <<daemon, spawned, killed, sock>>
          /\ app' = [app EXCEPT ![a] = IF Reachable THEN "idle" ELSE "again"]
      BY <2>4 DEF AppSpawnsAgain, AppProbes, AppGoto, procVars
    <3>2. CASE Reachable
      <4>1. sock # NoPid /\ daemon[sock] # "dead"
        BY <3>2 DEF Reachable
      <4> QED
        BY <3>1, <4>1 DEF SuccessorInv, FreeWanted, DeadWanted
    <3>3. CASE ~Reachable
      <4>1. Replacing(a)'
        BY <2>0, <3>1, <3>3 DEF Replacing
      <4> QED
        BY <3>1, <4>1 DEF SuccessorInv, FreeWanted, DeadWanted
    <3> QED
      BY <3>2, <3>3
  <2>5. CASE AppRuns(a)
    BY <2>5, SpawnSuccessor DEF AppRuns
  <2>6. CASE AppGivesUp(a)
    <3>1. /\ UNCHANGED <<daemon, spawned, sock>> /\ app' = [app EXCEPT ![a] = "idle"]
          /\ killed' = IF Replacing(a) THEN spawned ELSE killed
      BY <2>6 DEF AppGivesUp, AppGoto, Replacing
    <3>2. CASE Replacing(a)
      <4>1. ~(spawned > killed)'
        BY <3>1, <3>2, LifecycleAssumption DEF LifecycleTypeOK, LifecycleAssumption
      <4> QED
        BY <4>1 DEF SuccessorInv
    <3>3. CASE ~Replacing(a)
      BY <2>0, <3>1, <3>3, SameSuccessor DEF Replacing
    <3> QED
      BY <3>2, <3>3
  <2> QED
    BY <1>3, <2>1, <2>2, <2>3, <2>4, <2>5, <2>6 DEF AppStep
<1> QED
  BY <1>1, <1>2, <1>3

-----------------------------------------------------------------------------
LifecycleInv == LifecycleTypeOK /\ SocketInv /\ CommandInv /\ SuccessorInv

\* Nothing runs at first.
LEMMA LifecycleInitInv ==
  LifecycleInit => LifecycleInv
<1> SUFFICES ASSUME LifecycleInit PROVE LifecycleInv
  OBVIOUS
<1>1. \A d \in Pid : d > 0
  BY LifecycleAssumption DEF Pid, LifecycleAssumption
<1>2. LifecycleTypeOK
  BY <1>1, LifecycleAssumption
  DEF LifecycleInit, LifecycleTypeOK, LifecycleAssumption, Phase, CliPc, AppPc, Resting, NoPid
<1>3. SocketInv
  BY DEF LifecycleInit, SocketInv, StaleKnown, OwnsOrRaced, AtSocket
<1>4. CommandInv
  BY DEF LifecycleInit, CommandInv, Knows, Tracked, Running, Resting
<1>5. SuccessorInv
  BY DEF LifecycleInit, SuccessorInv
<1> QED
  BY <1>2, <1>3, <1>4, <1>5 DEF LifecycleInv

\* The inductive invariant.
LEMMA LifecycleInvariant ==
  LifecycleSpec => []LifecycleInv
<1>1. LifecycleInv /\ [LifecycleNext]_lifecycleVars => LifecycleInv'
  <2> SUFFICES ASSUME LifecycleInv, [LifecycleNext]_lifecycleVars PROVE LifecycleInv'
    OBVIOUS
  <2>0. LifecycleTypeOK /\ SocketInv /\ CommandInv /\ SuccessorInv
    BY DEF LifecycleInv
  <2>1. ASSUME NEW d \in Pid, DaemonStep(d) PROVE LifecycleInv'
    BY <2>0, <2>1, DaemonType, DaemonSocket, DaemonCommands, DaemonSuccessor DEF LifecycleInv
  <2>2. ASSUME NEW d \in Pid, Crash(d) PROVE LifecycleInv'
    BY <2>0, <2>2, CrashType, OthersSocket, DaemonCommands, OthersSuccessor DEF LifecycleInv
  <2>3. ASSUME NEW c \in Cli,
               StartDaemon(c) \/ Doctor(c) \/ StopDaemon(c) \/ CliStep(c) \/ CliEnds(c)
        PROVE  LifecycleInv'
    BY <2>0, <2>3, CliType, OthersSocket, CliCommands, OthersSuccessor DEF LifecycleInv
  <2>4. ASSUME NEW a \in App, AppLaunch(a) \/ AppRestart(a) \/ AppStep(a) \/ AppGivesUp(a)
        PROVE  LifecycleInv'
    BY <2>0, <2>4, AppType, OthersSocket, AppCommands, OthersSuccessor DEF LifecycleInv
  <2>5. CASE UNCHANGED lifecycleVars
    <3>1. LifecycleTypeOK'
      BY <2>0, <2>5 DEF lifecycleVars, LifecycleTypeOK
    <3>2. SocketInv'
      BY <2>0, <2>5 DEF lifecycleVars, SocketInv, StaleKnown, OwnsOrRaced, AtSocket
    <3>3. CommandInv'
      BY <2>0, <2>5 DEF lifecycleVars, CommandInv, Knows, Named, Tracked, Running
    <3>4. SuccessorInv'
      BY <2>0, <2>5 DEF lifecycleVars, SuccessorInv, FreeWanted, DeadWanted, Replacing
    <3> QED
      BY <3>1, <3>2, <3>3, <3>4 DEF LifecycleInv
  <2> QED
    BY <2>1, <2>2, <2>3, <2>4, <2>5 DEF LifecycleNext
<1> QED
  BY LifecycleInitInv, <1>1, PTL DEF LifecycleSpec

-----------------------------------------------------------------------------
\* Daemons, files, commands and the app keep their shapes, and whoever is in
\* the socket file has bound it.
THEOREM LifecycleTypeCorrect ==
  LifecycleSpec => []LifecycleTypeOK
<1>1. LifecycleInv => LifecycleTypeOK
  BY DEF LifecycleInv
<1> QED
  BY LifecycleInvariant, <1>1, PTL

\* A daemon that accepts connections owns the socket file, unless the app took
\* it or another daemon had judged an older file stale before.
THEOREM StompingNeedsRace ==
  LifecycleSpec => []StompedInRacesOnly
<1>1. LifecycleInv => StompedInRacesOnly
  BY DEF LifecycleInv, SocketInv, OwnsOrRaced, AtSocket, StompedInRacesOnly
<1> QED
  BY LifecycleInvariant, <1>1, PTL

\* While no two commands overlap and the app starts nothing, the pid file, or
\* the start under way, names every daemon that runs, but for those whose start
\* ended before it wrote the file.
THEOREM StopFindsAll ==
  LifecycleSpec => []StopReachesAll
<1>1. LifecycleInv => StopReachesAll
  BY DEF LifecycleInv, CommandInv, Named, Tracked, StopReachesAll
<1> QED
  BY LifecycleInvariant, <1>1, PTL

\* Whenever no daemon is on its way up and no app about to spawn one, a daemon
\* serves, if one was started after the last kill and the last time an app took
\* the socket file and gave up.
THEOREM OneServes ==
  LifecycleSpec => []ServedWhenQuiet
<1>1. LifecycleInv => ServedWhenQuiet
  <2> SUFFICES ASSUME LifecycleInv, spawned > killed, \A d \in Pid : ~OnItsWay(d),
                      \A a \in App : ~Replacing(a)
               PROVE  Reachable
    BY DEF ServedWhenQuiet
  <2>1. FreeWanted /\ DeadWanted
    BY DEF LifecycleInv, SuccessorInv
  <2>2. sock \in Pid /\ sock # NoPid
    BY <2>1 DEF FreeWanted, OnItsWay, LifecycleInv, LifecycleTypeOK
  <2>3. daemon[sock] \in {"bound", "listening", "dead"} /\ daemon[sock] # "dead"
    BY <2>1, <2>2 DEF DeadWanted, OnItsWay, LifecycleInv, LifecycleTypeOK
  <2> QED
    BY <2>2, <2>3 DEF OnItsWay, Reachable
<1> QED
  BY LifecycleInvariant, <1>1, PTL
=============================================================================
