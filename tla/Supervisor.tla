----------------------------- MODULE Supervisor -----------------------------
(***************************************************************************)
(* The supervisor of seidrum-daemon (daemon.rs): it spawns the kernel and   *)
(* the plugins, restarts what crashes after a backoff, and starts and stops *)
(* plugins for requests on the bus.  The same files (PID files and stopped  *)
(* markers) are used by the commands `plugin start` and `plugin stop`,      *)
(* which are processes of their own.                                        *)
(*                                                                          *)
(* The daemon waits in one select!.  check_processes is one of its branches *)
(* and is dropped wherever it waits when another branch is ready: in its    *)
(* first second and in the backoff before a restart.                        *)
(*                                                                          *)
(* There is one daemon at a time, its files can be written, and the number  *)
(* of a process is not reused.                                              *)
(***************************************************************************)
EXTENDS Integers

CONSTANTS
  Supervised,   \* the plugins that plugins.yaml enables
  Pids,         \* bound: the process ids there are, numbers from 1
  MaxRestarts,  \* MAX_RESTARTS
  MaxRequests,  \* bound on requests to the daemon, and on uses of the command line
  MaxDeaths     \* bound on ends of the daemon without a shutdown, and on shutdowns

ASSUME SupervisorAssumption ==
  /\ Pids \subseteq Nat \ {0} /\ "kernel" \notin Supervised
  /\ MaxRestarts \in Nat /\ MaxRequests \in Nat /\ MaxDeaths \in Nat

VARIABLES
  daemon,    \* where the daemon is, and the process it is working on
  entry,     \* processes: name -> its ManagedProcess, if it has one
  process,   \* the processes of the operating system
  pidFile,   \* name -> the process its PID file names, 0 for no file
  marker,    \* the names that have a stopped marker
  cli,       \* where a `plugin start` or `plugin stop` is
  requests, deaths,
  stopState  \* history: name -> a stop on the bus since the last start was
             \* asked for ("asked"), and answered with success ("done")

supervisorVars ==
  <<daemon, entry, process, pidFile, marker, cli, requests, deaths, stopState>>
files == <<pidFile, marker>>
bounds == <<requests, deaths>>

Managed == {"kernel"} \cup Supervised

NoEntry == [managed |-> FALSE, pid |-> 0, restart_count |-> 0, window |-> FALSE]
NewEntry(pid) == [managed |-> TRUE, pid |-> pid, restart_count |-> 0, window |-> FALSE]
DaemonOff == [pc |-> "off", name |-> "kernel", pid |-> 0, todo |-> {}]
IdleCli == [pc |-> "idle", name |-> "kernel", pid |-> 0]

DaemonAt(pc) == daemon' = [daemon EXCEPT !.pc = pc]

-----------------------------------------------------------------------------
(* Processes                                                                *)

(* An exited child that nobody has waited for still has its process id. *)
is_process_alive(pid) == pid # 0 /\ process[pid].state \in {"running", "zombie"}

(* SIGKILL ends a process that runs; SIGTERM may be handled or ignored. *)
Signalled(ps, sig) ==
  [q \in Pids |-> IF q \in ps /\ process[q].state = "running" /\ process[q].signal # "kill"
                  THEN [process[q] EXCEPT !.signal = sig] ELSE process[q]]

(* Children whose handles are dropped are reaped as soon as they have exited. *)
Dropped(ps, procs) ==
  [q \in Pids |-> IF q \in ps /\ procs[q].state = "zombie"
                  THEN [procs[q] EXCEPT !.state = "gone"] ELSE procs[q]]

Unused == {q \in Pids : process[q].state = "unused"}

(* ManagedProcess::spawn, as far as the files go: the new process is in the *)
(* PID file and the stopped marker is removed.                              *)
spawn(n, q) ==
  /\ q \in Unused /\ \A r \in Unused : q <= r
  /\ process' = [process EXCEPT ![q] = [name |-> n, state |-> "running", signal |-> "none"]]
  /\ pidFile' = [pidFile EXCEPT ![n] = q]
  /\ marker' = marker \ {n}

(* A process ends: by itself, or by a signal.  It is a zombie while the     *)
(* daemon holds its handle.                                                 *)
Exit(q) ==
  /\ process[q].state = "running"
  /\ process' = [process EXCEPT ![q].state =
       IF \E n \in Managed : entry[n].pid = q THEN "zombie" ELSE "gone"]
  /\ UNCHANGED <<daemon, entry, files, cli, bounds, stopState>>

-----------------------------------------------------------------------------
(* start: the kernel, then each plugin that is not marked as stopped.  PID  *)
(* files that are there already are not looked at.                          *)

StartKernel ==
  /\ daemon.pc = "off" /\ deaths < MaxDeaths
  /\ \E q \in Unused : spawn("kernel", q) /\ entry' = [entry EXCEPT !["kernel"] = NewEntry(q)]
  /\ daemon' = [DaemonOff EXCEPT !.pc = "plugins", !.todo = Supervised]
  /\ UNCHANGED <<cli, bounds, stopState>>

StartNextPlugin ==
  /\ daemon.pc = "plugins"
  /\ \E n \in daemon.todo :
       /\ daemon' = [daemon EXCEPT !.todo = @ \ {n}]
       /\ \/ n \in marker /\ UNCHANGED <<entry, process, files>>
          \/ /\ n \notin marker
             /\ \E q \in Unused : spawn(n, q) /\ entry' = [entry EXCEPT ![n] = NewEntry(q)]
  /\ UNCHANGED <<cli, bounds, stopState>>

(* Connected to the bus, in the loop. *)
EnterLoop ==
  /\ daemon.pc = "plugins" /\ daemon.todo = {}
  /\ DaemonAt("select")
  /\ UNCHANGED <<entry, process, files, cli, bounds, stopState>>

-----------------------------------------------------------------------------
(* check_processes                                                          *)

(* The second is over. *)
CheckBegins ==
  /\ daemon.pc = "select"
  /\ daemon' = [daemon EXCEPT !.pc = "check", !.todo = {n \in Managed : entry[n].managed}]
  /\ UNCHANGED <<entry, process, files, cli, bounds, stopState>>

CheckEnds ==
  /\ daemon.pc = "check" /\ daemon.todo = {}
  /\ DaemonAt("select")
  /\ UNCHANGED <<entry, process, files, cli, bounds, stopState>>

(* The kernel is the first of the processes. *)
CheckTakes(n) ==
  /\ daemon.pc = "check" /\ n \in daemon.todo
  /\ "kernel" \in daemon.todo => n = "kernel"

CheckFindsNothing(n) ==
  /\ CheckTakes(n)
  /\ entry[n].pid # 0 => process[entry[n].pid].state = "running"
  /\ daemon' = [daemon EXCEPT !.todo = @ \ {n}]
  /\ UNCHANGED <<entry, process, files, cli, bounds, stopState>>

(* should_restart: the window of five minutes may be over or not. *)
should_restart(e, over) ==
  LET count == IF over THEN 0 ELSE e.restart_count
  IN  [e EXCEPT !.pid = 0, !.restart_count = IF count >= MaxRestarts THEN count ELSE count + 1,
                !.window = (e.window /\ ~over) \/ count < MaxRestarts]

(* The child has exited.  It is restarted after the backoff, unless it is   *)
(* marked as stopped or has been restarted too often.                       *)
CheckFindsExit(n) ==
  /\ CheckTakes(n)
  /\ entry[n].pid # 0 /\ process[entry[n].pid].state = "zombie"
  /\ process' = Dropped({entry[n].pid}, process)
  /\ pidFile' = [pidFile EXCEPT ![n] = 0]
  /\ \/ /\ n \in marker
        /\ entry' = [entry EXCEPT ![n].pid = 0]
        /\ daemon' = [daemon EXCEPT !.todo = @ \ {n}]
     \/ /\ n \notin marker
        /\ \E over \in {FALSE, entry[n].window} :
             LET e == should_restart(entry[n], over)
                 allowed == over \/ entry[n].restart_count < MaxRestarts
             IN  /\ entry' = [entry EXCEPT ![n] = e]
                 /\ daemon' = [daemon EXCEPT !.todo = @ \ {n}, !.name = n,
                                             !.pc = IF allowed THEN "backoff" ELSE "check"]
  /\ UNCHANGED <<marker, cli, bounds, stopState>>

(* The backoff is over: spawn, or log that it failed. *)
BackoffEnds ==
  /\ daemon.pc = "backoff"
  /\ \/ \E q \in Unused : /\ spawn(daemon.name, q)
                          /\ entry' = [entry EXCEPT ![daemon.name].pid = q]
     \/ UNCHANGED <<entry, process, files>>
  /\ DaemonAt("check")
  /\ UNCHANGED <<cli, bounds, stopState>>

-----------------------------------------------------------------------------
(* Requests on the bus, for a plugin of plugins.yaml or for an unknown one. *)
(* Taking one drops check_processes, and with it a restart that waits.      *)

Waiting == daemon.pc \in {"select", "backoff"}

Requested == requests < MaxRequests /\ requests' = requests + 1

UnknownRequested ==
  /\ Waiting /\ Requested
  /\ DaemonAt("select")
  /\ UNCHANGED <<entry, process, files, cli, deaths, stopState>>

(* handle_plugin_start: nothing if it runs already. *)
handle_plugin_start(n) ==
  /\ Waiting /\ Requested
  /\ stopState' = [stopState EXCEPT ![n] = "no"]
  /\ \/ /\ is_process_alive(pidFile[n])
        /\ DaemonAt("select") /\ UNCHANGED marker
     \/ /\ ~is_process_alive(pidFile[n])
        /\ marker' = marker \ {n}
        /\ daemon' = [daemon EXCEPT !.pc = "spawn", !.name = n]
  /\ UNCHANGED <<entry, process, pidFile, cli, deaths>>

(* The new process takes the place of the old entry; on an error the old    *)
(* entry stays.                                                             *)
StartSpawns ==
  /\ daemon.pc = "spawn"
  /\ \/ \E q \in Unused :
          /\ spawn(daemon.name, q)
          /\ entry' = [entry EXCEPT ![daemon.name] = NewEntry(q)]
     \/ UNCHANGED <<entry, process, files>>
  /\ DaemonAt("select")
  /\ UNCHANGED <<cli, bounds, stopState>>

Forget(n) == entry' = [entry EXCEPT ![n] = NoEntry]

(* Unless a start from the command line is under way. *)
StopAsked(n) ==
  stopState' = [stopState EXCEPT ![n] = IF cli.pc = "spawn" /\ cli.name = n THEN @ ELSE "asked"]

(* Mutant: the stopped marker is written by the command line only. *)
HandleStopUnmarked(n) ==
  /\ Waiting /\ Requested
  /\ \/ /\ ~is_process_alive(pidFile[n])
        /\ DaemonAt("select")
        /\ UNCHANGED <<entry, process, files, stopState>>
     \/ /\ is_process_alive(pidFile[n])
        /\ process' = Signalled({pidFile[n]}, "term")
        /\ daemon' = [daemon EXCEPT !.pc = "stopping", !.name = n, !.pid = pidFile[n]]
        /\ StopAsked(n)
        /\ UNCHANGED <<entry, files>>
  /\ UNCHANGED <<cli, deaths>>

(* handle_plugin_stop: no PID file, a stale one, or mark it and signal. *)
handle_plugin_stop(n) ==
  /\ Waiting /\ Requested
  /\ \/ /\ pidFile[n] = 0
        /\ DaemonAt("select")
        /\ UNCHANGED <<entry, process, files, stopState>>
     \/ /\ pidFile[n] # 0 /\ ~is_process_alive(pidFile[n])
        /\ pidFile' = [pidFile EXCEPT ![n] = 0]
        /\ Forget(n) /\ process' = Dropped({entry[n].pid}, process)
        /\ DaemonAt("select")
        /\ UNCHANGED <<marker, stopState>>
     \/ /\ is_process_alive(pidFile[n])
        /\ marker' = marker \cup {n}
        /\ process' = Signalled({pidFile[n]}, "term")
        /\ daemon' = [daemon EXCEPT !.pc = "stopping", !.name = n, !.pid = pidFile[n]]
        /\ StopAsked(n)
        /\ UNCHANGED <<entry, pidFile>>
  /\ UNCHANGED <<cli, deaths>>

(* It has ended within five seconds, or is killed then; the entry is removed *)
(* and the answer is success.                                                *)
StopEnds ==
  LET n == daemon.name
  IN  /\ daemon.pc = "stopping"
      /\ process' = Dropped({entry[n].pid},
                            IF is_process_alive(daemon.pid) THEN Signalled({daemon.pid}, "kill") ELSE process)
      /\ pidFile' = [pidFile EXCEPT ![n] = 0]
      /\ Forget(n)
      /\ stopState' = [stopState EXCEPT ![n] = IF @ = "asked" THEN "done" ELSE @]
      /\ DaemonAt("select")
      /\ UNCHANGED <<marker, cli, bounds>>

-----------------------------------------------------------------------------
(* The end of the daemon                                                    *)

PluginPids == {entry[n].pid : n \in Supervised}

(* SIGINT or SIGTERM, in the loop: SIGTERM to the plugins. *)
Shutdown ==
  /\ Waiting
  /\ process' = Signalled(PluginPids, "term")
  /\ DaemonAt("plugins stop")
  /\ UNCHANGED <<entry, files, cli, bounds, stopState>>

(* They have ended, or ten seconds are over: SIGKILL, then the kernel. *)
ShutdownKernel ==
  /\ daemon.pc = "plugins stop"
  /\ process' = [q \in Pids |-> IF q = entry["kernel"].pid THEN Signalled({q}, "term")[q]
                                ELSE Signalled(PluginPids, "kill")[q]]
  /\ DaemonAt("kernel stops")
  /\ UNCHANGED <<entry, files, cli, bounds, stopState>>

Leave ==
  /\ daemon' = DaemonOff
  /\ entry' = [n \in Managed |-> NoEntry]
  /\ process' = Dropped(Pids, process)
  /\ deaths' = deaths + 1
  /\ UNCHANGED <<marker, cli, requests, stopState>>

(* The kernel has ended, or five seconds are over: it is not killed. *)
ShutdownEnds ==
  /\ daemon.pc = "kernel stops"
  /\ pidFile' = [n \in Managed |-> IF entry[n].managed THEN 0 ELSE pidFile[n]]
  /\ Leave

(* The daemon is killed, or stopped before it is in its loop: its children   *)
(* go on, and so do their PID files.                                         *)
DaemonDies == daemon.pc # "off" /\ UNCHANGED pidFile /\ Leave

-----------------------------------------------------------------------------
(* The command line                                                         *)

(* start_plugin: the marker goes first. *)
start_plugin(n) ==
  /\ cli.pc = "idle" /\ Requested
  /\ marker' = marker \ {n}
  /\ stopState' = [stopState EXCEPT ![n] = "no"]
  /\ cli' = [cli EXCEPT !.pc = IF is_process_alive(pidFile[n]) THEN "idle" ELSE "spawn", !.name = n]
  /\ UNCHANGED <<daemon, entry, process, pidFile, deaths>>

CliSpawns ==
  /\ cli.pc = "spawn"
  /\ \/ \E q \in Unused : spawn(cli.name, q)
     \/ UNCHANGED <<process, files>>
  /\ cli' = IdleCli
  /\ UNCHANGED <<daemon, entry, bounds, stopState>>

(* stop_plugin: look, then mark and signal. *)
stop_plugin(n) ==
  /\ cli.pc = "idle" /\ Requested
  /\ \/ ~is_process_alive(pidFile[n]) /\ pidFile' = [pidFile EXCEPT ![n] = 0] /\ UNCHANGED cli
     \/ /\ is_process_alive(pidFile[n])
        /\ cli' = [pc |-> "mark", name |-> n, pid |-> pidFile[n]]
        /\ UNCHANGED pidFile
  /\ UNCHANGED <<daemon, entry, process, marker, deaths, stopState>>

CliMarks ==
  /\ cli.pc = "mark"
  /\ marker' = marker \cup {cli.name}
  /\ process' = Signalled({cli.pid}, "term")
  /\ cli' = [cli EXCEPT !.pc = "wait"]
  /\ UNCHANGED <<daemon, entry, pidFile, bounds, stopState>>

(* It has ended, or is killed; the PID file is removed, whatever it names. *)
CliStopEnds ==
  /\ cli.pc = "wait"
  /\ process' = IF is_process_alive(cli.pid) THEN Signalled({cli.pid}, "kill") ELSE process
  /\ pidFile' = [pidFile EXCEPT ![cli.name] = 0]
  /\ cli' = IdleCli
  /\ UNCHANGED <<daemon, entry, marker, bounds, stopState>>

-----------------------------------------------------------------------------
SupervisorInit ==
  /\ daemon = DaemonOff
  /\ entry = [n \in Managed |-> NoEntry]
  /\ process = [q \in Pids |-> [name |-> "kernel", state |-> "unused", signal |-> "none"]]
  /\ pidFile = [n \in Managed |-> 0] /\ marker = {}
  /\ cli = IdleCli
  /\ requests = 0 /\ deaths = 0
  /\ stopState = [n \in Supervised |-> "no"]

DaemonStep ==
  \/ StartKernel \/ StartNextPlugin \/ EnterLoop
  \/ CheckBegins \/ CheckEnds \/ BackoffEnds
  \/ \E n \in Managed : CheckFindsNothing(n) \/ CheckFindsExit(n)
  \/ UnknownRequested \/ StartSpawns \/ StopEnds
  \/ \E n \in Supervised : handle_plugin_start(n) \/ handle_plugin_stop(n)
  \/ Shutdown \/ ShutdownKernel \/ ShutdownEnds \/ DaemonDies

CliStep ==
  \/ \E n \in Supervised : start_plugin(n) \/ stop_plugin(n)
  \/ CliSpawns \/ CliMarks \/ CliStopEnds

SupervisorNext == DaemonStep \/ CliStep \/ (\E q \in Pids : Exit(q))

-----------------------------------------------------------------------------
(* A plugin that the daemon has stopped on request stays stopped until      *)
(* somebody asks for it again: no crash noticed late, no restart that was   *)
(* waiting, no command line stop at the same time and no new start of the   *)
(* daemon brings it back (daemon.rs: handle_plugin_stop, check_processes,   *)
(* start).                                                                  *)
StopSticks ==
  [][\A q \in Pids :
       process[q].state = "unused" /\ process'[q].state = "running"
         => process'[q].name \notin {n \in Supervised : stopState[n] = "done"}]_supervisorVars

SupervisorSpec == SupervisorInit /\ [][SupervisorNext]_supervisorVars
=============================================================================
