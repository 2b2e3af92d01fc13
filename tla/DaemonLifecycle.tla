-------------------------- MODULE DaemonLifecycle --------------------------
(***************************************************************************)
(* How the daemon comes up and goes away: the start-up of ustad            *)
(* (crates/usta-daemon/src/main.rs main), `ustacli daemon start`, `stop`   *)
(* and `doctor` (crates/usta-cli/src/daemon_ctl.rs), and the spawner of    *)
(* the macOS app (apps/mac/Sources/UstaMac/DaemonSpawner.swift).           *)
(*                                                                         *)
(* All of them meet in two files only, and an action is one look at or one *)
(* change of a file, a socket or a process. Daemons, commands and apps may *)
(* end after each of them.                                                 *)
(*                                                                         *)
(*   daemon   what each daemon process is about to do                      *)
(*   sock     the socket file: the daemon that bound it, or NoPid          *)
(*   pidFile  the pid in the CLI's pid file, or NoPid                      *)
(*   cli      the CLI commands                                             *)
(*   app      the app's launches and restarts of the daemon                *)
(*   spawned  daemons started so far (pids are never reused), calls: bound *)
(*   and, for the properties only,                                         *)
(*     early  those that judged the socket file stale before it listened   *)
(*     wiped  daemons whose socket file the app removed                    *)
(*     unnamed  daemons whose start ended before it wrote the pid file     *)
(*     mixed  have two CLI commands overlapped, or the app spawned?        *)
(*     killed daemons started before the last time one was killed, or the  *)
(*            app gave up between taking the socket file and its spawn     *)
(***************************************************************************)
EXTENDS Naturals, FiniteSets

CONSTANTS
  Cli,       \* shells in which the CLI runs
  App,       \* running apps
  MaxCli, MaxApp  \* bounds: commands and crashes, launches and restarts

ASSUME LifecycleAssumption ==
  MaxCli \in Nat /\ MaxApp \in Nat

\* A command and a launch start one daemon at most.
Pid == 1..MaxCli + MaxApp
NoPid == 0

VARIABLES daemon, sock, pidFile, cli, app, spawned, calls,
          early, wiped, unnamed, mixed, killed

procVars == <<daemon, spawned, killed>>
raceVars == <<early, wiped, unnamed>>
lifecycleVars ==
  <<daemon, sock, pidFile, cli, app, spawned, calls, early, wiped, unnamed, mixed, killed>>

Phase == {"unborn", "opening", "probing", "stale", "binding",
          "bound", "listening", "dead"}
CliPc == {"idle", "start", "startRead", "spawning", "spawned", "waiting",
          "stopRead", "killing", "stopping"}
AppPc == {"idle", "free", "killed", "cleared", "again"}

Resting == [pc |-> "idle", pid |-> NoPid]

LifecycleInit ==
  /\ daemon = [d \in Pid |-> "unborn"]
  /\ sock = NoPid /\ pidFile = NoPid
  /\ cli = [c \in Cli |-> Resting]
  /\ app = [a \in App |-> "idle"]
  /\ spawned = 0 /\ killed = 0
  /\ calls = [cli |-> 0, app |-> 0]
  /\ early = [d \in Pid |-> {}] /\ wiped = {} /\ unnamed = {}
  /\ mixed = "no"

LifecycleTypeOK ==
  /\ daemon \in [Pid -> Phase]
  /\ sock \in Pid \cup {NoPid} /\ pidFile \in Pid \cup {NoPid}
  /\ cli \in [Cli -> [pc: CliPc, pid: Pid \cup {NoPid}]]
  /\ app \in [App -> AppPc]
  /\ spawned \in 0..MaxCli + MaxApp /\ killed \in 0..spawned
  /\ \A d \in Pid : daemon[d] = "unborn" <=> d > spawned
  /\ calls \in [cli: 0..MaxCli, app: 0..MaxApp]
  /\ early \in [Pid -> SUBSET Pid] /\ wiped \in SUBSET Pid
  /\ unnamed \in SUBSET (Pid \cup {NoPid})
  /\ mixed \in {"yes", "no"}
  \* who is in the socket file got as far as binding it
  /\ sock # NoPid => daemon[sock] \in {"bound", "listening", "dead"}

-----------------------------------------------------------------------------
Running(d) == daemon[d] \notin {"unborn", "dead"}

\* A connect succeeds: the file is there and its daemon accepts.
Reachable == sock # NoPid /\ daemon[sock] = "listening"

\* kill(pid, 0): also true of a child that died and that the CLI which spawned
\* it, still running, has not waited for.
Zombie(d) == \E c \in Cli : cli[c].pid = d /\ cli[c].pc \in {"spawned", "waiting"}
IsAlive(d) == d # NoPid /\ (Running(d) \/ Zombie(d))

Become(d, phase) == daemon' = [daemon EXCEPT ![d] = phase]
Goto(c, pc) == cli' = [cli EXCEPT ![c].pc = pc]

\* Command::spawn, Process.run: the next pid.
Spawn ==
  /\ spawned + 1 \in Pid
  /\ Become(spawned + 1, "opening")
  /\ spawned' = spawned + 1
  /\ UNCHANGED killed

\* SIGTERM, for which the daemon has no handler: it dies, its socket file stays.
Kill(pids) ==
  /\ daemon' = [d \in Pid |-> IF d \in pids /\ Running(d) THEN "dead" ELSE daemon[d]]
  /\ killed' = IF \E d \in pids : Running(d) THEN spawned ELSE killed
  /\ UNCHANGED spawned

-----------------------------------------------------------------------------
(* ustad *)
unchangedByDaemon == <<pidFile, cli, app, spawned, calls, mixed, killed, wiped, unnamed>>

\* Db::open (both attempts at it failing is a crash here), then
\* socket_path.exists().
Exists(d) ==
  /\ daemon[d] = "opening"
  /\ Become(d, IF sock = NoPid THEN "binding" ELSE "probing")
  /\ UNCHANGED <<sock, early, unchangedByDaemon>>

\* Mutant of Probe: the file is taken for stale without connecting to it.
ProbeSkipped(d) ==
  /\ daemon[d] = "probing" /\ Become(d, "stale")
  /\ UNCHANGED <<sock, early, unchangedByDaemon>>

\* Mutant of Probe: a socket file is taken for a live daemon.
ProbeTrustsFile(d) ==
  /\ daemon[d] = "probing" /\ Become(d, "dead")
  /\ UNCHANGED <<sock, early, unchangedByDaemon>>

\* probe_socket_alive: refuse if something accepts.
Probe(d) ==
  /\ daemon[d] = "probing"
  /\ IF Reachable
       THEN Become(d, "dead") /\ UNCHANGED early
       ELSE /\ Become(d, "stale")
            /\ early' = IF sock # NoPid /\ daemon[sock] = "bound"
                          THEN [early EXCEPT ![sock] = @ \cup {d}] ELSE early
  /\ UNCHANGED <<sock, unchangedByDaemon>>

\* remove_file of the stale socket, which fails if it is gone already.
RemoveStale(d) ==
  /\ daemon[d] = "stale"
  /\ Become(d, IF sock = NoPid THEN "dead" ELSE "binding")
  /\ sock' = NoPid
  /\ UNCHANGED <<early, unchangedByDaemon>>

\* Mutant of Bind: the file is created first, and bound in a second step.
BindTouches(d) ==
  /\ daemon[d] = "binding" /\ sock = NoPid
  /\ sock' = d
  /\ UNCHANGED <<daemon, early, unchangedByDaemon>>

\* bind, which fails if the file exists.
Bind(d) ==
  /\ daemon[d] = "binding"
  /\ IF sock = NoPid
       THEN /\ Become(d, "bound") /\ sock' = d
            /\ early' = [early EXCEPT ![d] = {e \in Pid : daemon[e] = "stale"}]
       ELSE Become(d, "dead") /\ UNCHANGED <<sock, early>>
  /\ UNCHANGED unchangedByDaemon

\* The second half of UnixListener::bind; from here on connections are accepted.
Listen(d) ==
  /\ daemon[d] = "bound" /\ Become(d, "listening")
  /\ UNCHANGED <<sock, early, unchangedByDaemon>>

DaemonStep(d) ==
  Exists(d) \/ Probe(d) \/ RemoveStale(d) \/ Bind(d) \/ Listen(d)

Crash(d) ==
  /\ Running(d) /\ calls.cli < MaxCli
  /\ Kill({d})
  /\ calls' = [calls EXCEPT !.cli = @ + 1]
  /\ UNCHANGED <<sock, pidFile, cli, app, mixed, raceVars>>

-----------------------------------------------------------------------------
(* ustacli *)
unchangedByCli == <<sock, app, raceVars>>

\* A command begins: at `pc`, with the pid file's pid if it reads that first.
Command(c, pc, pid) ==
  /\ cli[c].pc = "idle" /\ calls.cli < MaxCli
  /\ calls' = [calls EXCEPT !.cli = @ + 1]
  /\ mixed' = IF \E o \in Cli : cli[o].pc # "idle" THEN "yes" ELSE mixed
  /\ cli' = [cli EXCEPT ![c] = [pc |-> pc, pid |-> pid]]

\* daemon start
StartDaemon(c) == Command(c, "startRead", pidFile) /\ UNCHANGED <<pidFile, procVars, unchangedByCli>>

\* doctor starts a daemon if it cannot connect.
Doctor(c) ==
  /\ ~Reachable
  /\ Command(c, "start", NoPid) /\ UNCHANGED <<pidFile, procVars, unchangedByCli>>

DoctorReads(c) ==
  /\ cli[c].pc = "start"
  /\ cli' = [cli EXCEPT ![c] = [pc |-> "startRead", pid |-> pidFile]]
  /\ UNCHANGED <<pidFile, calls, mixed, procVars, unchangedByCli>>

\* Mutant of StartProbes: the pid file is not asked, only the socket.
StartProbesSocket(c) ==
  /\ cli[c].pc = "startRead"
  /\ IF Reachable THEN cli' = [cli EXCEPT ![c] = Resting] ELSE Goto(c, "spawning")
  /\ UNCHANGED <<pidFile, calls, mixed, procVars, unchangedByCli>>

\* "daemon already running" if the pid is alive.
StartProbes(c) ==
  /\ cli[c].pc = "startRead"
  /\ IF IsAlive(cli[c].pid) THEN cli' = [cli EXCEPT ![c] = Resting] ELSE Goto(c, "spawning")
  /\ UNCHANGED <<pidFile, calls, mixed, procVars, unchangedByCli>>

StartSpawns(c) ==
  /\ cli[c].pc = "spawning"
  /\ Spawn
  /\ cli' = [cli EXCEPT ![c] = [pc |-> "spawned", pid |-> spawned + 1]]
  /\ UNCHANGED <<pidFile, calls, mixed, unchangedByCli>>

StartWrites(c) ==
  /\ cli[c].pc = "spawned" /\ Goto(c, "waiting")
  /\ pidFile' = cli[c].pid
  /\ UNCHANGED <<calls, mixed, procVars, unchangedByCli>>

\* The wait ends when a socket file is there, or after 40 polls; either way the
\* answer is the pid. (The third way out, a child that is not alive, does not
\* occur: see Zombie.) The process then exits, and with it a zombie: `doctor`
\* some time later, which the wait here may take as well.
StartEnds(c) ==
  /\ cli[c].pc = "waiting"
  /\ cli' = [cli EXCEPT ![c] = Resting]
  /\ UNCHANGED <<pidFile, calls, mixed, procVars, unchangedByCli>>

\* daemon stop; "no pid file" if there is none.
StopDaemon(c) ==
  /\ pidFile # NoPid
  /\ Command(c, "stopRead", pidFile)
  /\ UNCHANGED <<pidFile, procVars, unchangedByCli>>

\* A pid that is not alive is only taken out of the file.
StopProbes(c) ==
  /\ cli[c].pc = "stopRead"
  /\ Goto(c, IF IsAlive(cli[c].pid) THEN "killing" ELSE "stopping")
  /\ UNCHANGED <<pidFile, calls, mixed, procVars, unchangedByCli>>

\* SIGTERM, which fails if the process is gone by now.
StopKills(c) ==
  /\ cli[c].pc = "killing"
  /\ IF IsAlive(cli[c].pid) THEN Goto(c, "stopping") ELSE cli' = [cli EXCEPT ![c] = Resting]
  /\ Kill({cli[c].pid})
  /\ UNCHANGED <<pidFile, calls, mixed, unchangedByCli>>

\* After a wait of up to a second the pid file goes, whatever it holds by now.
StopForgets(c) ==
  /\ cli[c].pc = "stopping"
  /\ cli' = [cli EXCEPT ![c] = Resting]
  /\ pidFile' = NoPid
  /\ UNCHANGED <<calls, mixed, procVars, unchangedByCli>>

\* Ctrl-C, a kill, or a call that fails: opening the log, the spawn, the write of
\* the pid file, which empties it first, or its removal.
CliEnds(c) ==
  /\ cli[c].pc # "idle"
  /\ cli' = [cli EXCEPT ![c] = Resting]
  /\ IF cli[c].pc = "spawned"
       THEN unnamed' = unnamed \cup {cli[c].pid} /\ pidFile' \in {pidFile, NoPid}
       ELSE UNCHANGED <<unnamed, pidFile>>
  /\ UNCHANGED <<sock, app, early, wiped, calls, mixed, procVars>>

CliStep(c) ==
  \/ DoctorReads(c) \/ StartProbes(c) \/ StartSpawns(c) \/ StartWrites(c) \/ StartEnds(c)
  \/ StopProbes(c) \/ StopKills(c) \/ StopForgets(c)

-----------------------------------------------------------------------------
(* UstaMac *)
unchangedByApp == <<pidFile, cli, early, unnamed>>

AppGoto(a, pc) == app' = [app EXCEPT ![a] = pc]
AppCall == calls.app < MaxApp /\ calls' = [calls EXCEPT !.app = @ + 1]

\* spawn: refuse if something accepts on the socket (isSocketAlive).
AppProbes(a, free) ==
  /\ AppGoto(a, IF Reachable THEN "idle" ELSE free)
  /\ UNCHANGED <<sock, wiped, mixed, procVars, unchangedByApp>>

\* The app is launched.
AppLaunch(a) == app[a] = "idle" /\ AppCall /\ AppProbes(a, "free")

\* stopByProbe, by the Restart button or on finding a stale daemon: pkill -f
\* takes every daemon of this socket, whoever started it.
AppRestart(a) ==
  /\ app[a] = "idle" /\ AppCall
  /\ Kill(Pid)
  /\ AppGoto(a, "killed")
  /\ UNCHANGED <<sock, wiped, mixed, unchangedByApp>>

\* ... then, a quarter of a second later, the socket file, whosever it is by now.
AppRemoves(a) ==
  /\ app[a] = "killed" /\ AppGoto(a, "cleared")
  /\ sock' = NoPid
  /\ wiped' = wiped \cup ({sock} \ {NoPid})
  /\ UNCHANGED <<calls, mixed, procVars, unchangedByApp>>

AppSpawnsAgain(a) == app[a] = "cleared" /\ AppProbes(a, "again") /\ UNCHANGED calls

AppRuns(a) ==
  /\ app[a] \in {"free", "again"} /\ AppGoto(a, "idle")
  /\ Spawn
  /\ mixed' = "yes"
  /\ UNCHANGED <<sock, wiped, calls, unchangedByApp>>

\* The app quits, or its spawn finds no binary or fails. Nobody puts the socket
\* file back.
AppGivesUp(a) ==
  /\ app[a] # "idle" /\ AppGoto(a, "idle")
  /\ killed' = IF app[a] \in {"cleared", "again"} THEN spawned ELSE killed
  /\ UNCHANGED <<sock, wiped, calls, mixed, daemon, spawned, unchangedByApp>>

AppStep(a) == AppRemoves(a) \/ AppSpawnsAgain(a) \/ AppRuns(a)

-----------------------------------------------------------------------------
LifecycleNext ==
  \/ \E d \in Pid : DaemonStep(d) \/ Crash(d)
  \/ \E c \in Cli : StartDaemon(c) \/ Doctor(c) \/ StopDaemon(c) \/ CliStep(c) \/ CliEnds(c)
  \/ \E a \in App : AppLaunch(a) \/ AppRestart(a) \/ AppStep(a) \/ AppGivesUp(a)

LifecycleSpec == LifecycleInit /\ [][LifecycleNext]_lifecycleVars

-----------------------------------------------------------------------------
\* A daemon that accepts connections owns the socket file, unless the app took
\* the file, or another daemon had judged an older file stale before this one
\* listened: without such an overlap nobody stomps a live daemon, and there is
\* one idle watcher (main.rs main).
StompedInRacesOnly ==
  \A d \in Pid : daemon[d] = "listening" => sock = d \/ d \in wiped \/ early[d] # {}

\* As long as CLI commands do not overlap and the app starts nothing, every
\* daemon is within reach of `stop` and `status`: the pid file names it, or its
\* start is about to (daemon_ctl.rs start, stop). Only one whose start ended
\* between its spawn and the write of the pid file is not.
StopReachesAll ==
  mixed = "no" =>
    \A d \in Pid \ unnamed : Running(d) =>
      pidFile = d \/ \E c \in Cli : cli[c] = [pc |-> "spawned", pid |-> d]

\* However starts, stops, restarts and crashes race: whenever no daemon is on its
\* way up and no app between taking the socket file and its spawn, and if a daemon
\* was started after the last kill, and after the last time an app took the file
\* and gave up, there is one that can be reached. Those that give way to each
\* other never all give way.
OnItsWay(d) == daemon[d] \in {"opening", "probing", "stale", "binding", "bound"}
Replacing(a) == app[a] \in {"cleared", "again"}

ServedWhenQuiet ==
  (spawned > killed /\ (\A d \in Pid : ~OnItsWay(d)) /\ (\A a \in App : ~Replacing(a)))
    => Reachable
=============================================================================
