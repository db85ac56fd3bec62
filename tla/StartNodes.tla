------------------------------ MODULE StartNodes ------------------------------
(***************************************************************************)
(* start-nodes.js, the launcher of the Selenium nodes, and the service     *)
(* manager that runs it again when it exits.                               *)
(*                                                                         *)
(* A run of the launcher first runs the driver update script and waits for *)
(* it, under a timeout; then it reads the configuration, spawns one        *)
(* process per configured node and waits for the first thing to go wrong:  *)
(* a node that exits or cannot be spawned, a SIGTERM, the daily restart.   *)
(* Every one of these ends the whole run.                                  *)
(*                                                                         *)
(* JavaScript callbacks are atomic, signals are not: until the SIGTERM     *)
(* handler is installed, at the very end of main(), a SIGTERM kills the    *)
(* launcher on the spot, between two spawns as well.                       *)
(*                                                                         *)
(* The processes of every run are kept, so that what an earlier run left   *)
(* behind is visible to the later ones.                                    *)
(***************************************************************************)
EXTENDS Naturals, FiniteSets

CONSTANTS
    Nodes,     \* the node processes a configuration may ask for
    Managers,  \* what may run the launcher: some of AllManagers
    MaxRuns    \* bound: launcher runs

\* systemd on Linux, log-wrapper.js on macOS, WinSW on Windows.
AllManagers == {"systemd", "logwrapper", "winsw"}

ASSUME ManagersAssumption == Managers \subseteq AllManagers
ASSUME MaxRunsAssumption  == MaxRuns \in Nat
ASSUME NodesAssumption    == "launcher" \notin Nodes

Runs == 1 .. MaxRuns

VARIABLES
    manager,   \* what runs the launcher, the same for ever
    run,       \* number of the current run, 0 before the first
    phase,     \* where the current run is
    updater,   \* run -> its driver update script
    timedOut,  \* the current run's update timer has fired
    node,      \* run -> node -> its process
    safari,    \* runs whose nodes left a Safari under automation (macOS)
    toSpawn,   \* configured nodes that main() has yet to spawn
    daily,     \* the daily restart timer is set
    sigterm,   \* a SIGTERM waits for the event loop to run its handler
    exitCode,  \* how the last run ended
    stopping,  \* the manager was asked to stop the service
    cut        \* history: runs whose launcher was cut off, killed outright or
               \* by a spawn that threw

vars == <<manager, run, phase, updater, timedOut, node, safari, toSpawn, daily,
          sigterm, exitCode, stopping, cut>>

Phases   == {"down", "updating", "launching", "running", "exited", "stopped"}
Updaters == {"none", "running", "ok", "bad", "unspawned"}
NodeStates == {"none", "up", "told", "gone", "unspawned"}
Codes    == {"none", "0", "1", "2", "signal"}

TypeOK ==
    /\ manager \in Managers
    /\ run \in 0 .. MaxRuns
    /\ phase \in Phases
    /\ updater \in [Runs -> Updaters]
    /\ timedOut \in BOOLEAN
    /\ node \in [Runs -> [Nodes -> NodeStates]]
    /\ safari \in SUBSET Runs
    /\ toSpawn \in SUBSET Nodes
    /\ daily \in BOOLEAN
    /\ sigterm \in BOOLEAN
    /\ exitCode \in Codes
    /\ stopping \in BOOLEAN
    /\ cut \in SUBSET Runs

Init ==
    /\ manager \in Managers
    /\ run = 0
    /\ phase = "down"
    /\ updater = [r \in Runs |-> "none"]
    /\ timedOut = FALSE
    /\ node = [r \in Runs |-> [n \in Nodes |-> "none"]]
    /\ safari = {}
    /\ toSpawn = {}
    /\ daily = FALSE
    /\ sigterm = FALSE
    /\ exitCode = "none"
    /\ stopping = FALSE
    /\ cut = {}

Live(r) == {n \in Nodes : node[r][n] \in {"up", "told"}}
Started(r) == {n \in Nodes : node[r][n] # "none"}
LauncherAlive == phase \in {"updating", "launching", "running"}

-----------------------------------------------------------------------------
(* What is done to processes.                                              *)

\* Mutated: the processes that were never spawned drop out of the list.
StopSpawnedProcesses(ns) ==
    [n \in {m \in Nodes : ns[m] # "unspawned"} |->
        IF ns[n] = "up" THEN "told" ELSE ns[n]]

\* SIGTERM to node processes.
Told(ns) == [n \in Nodes |-> IF ns[n] = "up" THEN "told" ELSE ns[n]]

\* stopAllProcesses(): SIGTERM, which a node may take its time to obey, or on
\* Windows taskkill /T /F, which leaves it no choice.
StopAllProcesses(ns) ==
    [n \in Nodes |-> IF ns[n] # "up" THEN ns[n]
                     ELSE IF manager = "winsw" THEN "gone" ELSE "told"]

\* SIGKILL to node processes.
Killed(ns) ==
    [n \in Nodes |-> IF ns[n] \in {"up", "told"} THEN "gone" ELSE ns[n]]

\* Mutated: the signal goes to something else than what runs the update.
SpareUpdate(u) == u

\* killDriverUpdate(), and any other signal the script does not survive.
\* Nothing happens to a script that is already gone.
KillUpdate(u) == IF u = "running" THEN "bad" ELSE u

-----------------------------------------------------------------------------
(* The ways a run ends.                                                    *)

\* process.exit(code) while the driver update is awaited: no node exists and
\* no 'exit' handler is installed yet.
ExitBeforeLaunch(code) ==
    /\ phase' = "exited"
    /\ exitCode' = code
    /\ UNCHANGED <<manager, run, updater, timedOut, node, toSpawn, daily,
                   sigterm, stopping, safari, cut>>

\* Mutated: without the 'exit' handler.
ExitUnhandled(code) ==
    /\ phase' = "exited"
    /\ exitCode' = code
    /\ daily' = FALSE
    /\ sigterm' = FALSE
    /\ UNCHANGED <<manager, run, updater, timedOut, node, toSpawn, stopping,
                   safari, cut>>

\* process.exit(code) once main() is over: the 'exit' handler stops the nodes.
ExitAfterLaunch(code) ==
    /\ phase' = "exited"
    /\ exitCode' = code
    /\ node' = [node EXCEPT ![run] = StopAllProcesses(@)]
    /\ daily' = FALSE
    /\ sigterm' = FALSE
    /\ UNCHANGED <<manager, run, updater, timedOut, toSpawn, stopping, safari,
                   cut>>

-----------------------------------------------------------------------------
(* The driver update.                                                      *)

\* Mutated: Safari is left to the manager, in whose process group it is not.
SpareSafari(runs) == runs

\* killStaleSafariAutomation(): pkill of what earlier runs left of Safari.
KillStaleSafari(runs) == IF manager = "logwrapper" THEN {} ELSE runs

\* The manager starts a run: main() clears out Safari and spawns the script at
\* once.  The promise is rejected alike when the spawn is reported to have
\* failed and when it throws.
Start ==
    /\ phase = "down"
    /\ run < MaxRuns
    /\ run' = run + 1
    /\ phase' = "updating"
    /\ \E u \in {"running", "unspawned"} :
          updater' = [updater EXCEPT ![run'] = u]
    /\ timedOut' = FALSE
    /\ safari' = KillStaleSafari(safari)
    /\ exitCode' = "none"
    /\ UNCHANGED <<manager, node, toSpawn, daily, sigterm, stopping, cut>>

\* A script ends, its launcher still there or not: with exit code 0, or with
\* another code or a signal.
UpdateEnds(r) ==
    /\ updater[r] = "running"
    /\ \E u \in {"ok", "bad"} : updater' = [updater EXCEPT ![r] = u]
    /\ UNCHANGED <<manager, run, phase, timedOut, node, toSpawn, daily,
                   sigterm, exitCode, stopping, safari, cut>>

\* The ten minutes are over before the 'exit' event was handled.
UpdateTimeout ==
    /\ phase = "updating"
    /\ ~ timedOut
    /\ timedOut' = TRUE
    /\ updater' = [updater EXCEPT ![run] = KillUpdate(@)]
    /\ UNCHANGED <<manager, run, phase, node, toSpawn, daily, sigterm,
                   exitCode, stopping, safari, cut>>

\* Mutated: without the test of timedOut.
UpdateFailedUntimed == updater[run] \in {"bad", "unspawned"}

\* The script's 'exit' or 'error' event rejects the promise.
UpdateFailed == timedOut \/ updater[run] \in {"bad", "unspawned"}

\* ... and main().catch() exits.
UpdateRejected ==
    /\ phase = "updating"
    /\ updater[run] # "running"
    /\ UpdateFailed
    /\ ExitBeforeLaunch("1")

\* The promise is resolved and main() reads the configuration, which may be
\* unreadable or incomplete.
ConfigRejected ==
    /\ phase = "updating"
    /\ updater[run] # "running"
    /\ ~ UpdateFailed
    /\ ExitBeforeLaunch("1")

\* A good configuration: main() goes on to launch its nodes.
ConfigRead ==
    /\ phase = "updating"
    /\ updater[run] # "running"
    /\ ~ UpdateFailed
    /\ phase' = "launching"
    /\ toSpawn' \in SUBSET Nodes
    /\ daily' \in BOOLEAN
    /\ UNCHANGED <<manager, run, updater, timedOut, node, sigterm, exitCode,
                   stopping, safari, cut>>

-----------------------------------------------------------------------------
(* The nodes.                                                              *)

Spawn(n) ==
    /\ phase = "launching"
    /\ n \in toSpawn
    /\ toSpawn' = toSpawn \ {n}
    /\ \E s \in {"up", "unspawned"} : node' = [node EXCEPT ![run][n] = s]
    /\ UNCHANGED <<manager, run, phase, updater, timedOut, daily, sigterm,
                   exitCode, stopping, safari, cut>>

\* spawn() reports some failures by an 'error' event and throws the others, such
\* as a lack of memory: main().catch() exits in the middle of the loop, with no
\* 'exit' handler installed for the nodes that are up.
SpawnThrows ==
    /\ phase = "launching"
    /\ toSpawn # {}
    /\ phase' = "exited"
    /\ exitCode' = "1"
    /\ toSpawn' = {}
    /\ daily' = FALSE
    /\ cut' = cut \cup {run}
    /\ UNCHANGED <<manager, run, updater, timedOut, node, sigterm, stopping,
                   safari>>

\* main() returns, its signal and exit handlers installed.
Launched ==
    /\ phase = "launching"
    /\ toSpawn = {}
    /\ phase' = "running"
    /\ UNCHANGED <<manager, run, updater, timedOut, node, toSpawn, daily,
                   sigterm, exitCode, stopping, safari, cut>>

\* A node process ends, for whatever reason.
NodeEnds(r, n) ==
    /\ n \in Live(r)
    /\ node' = [node EXCEPT ![r][n] = "gone"]
    /\ UNCHANGED <<manager, run, phase, updater, timedOut, toSpawn, daily,
                   sigterm, exitCode, stopping, safari, cut>>

\* A node's driver opens a Safari for automation, which the system makes a
\* process of nobody's group; it ends when its driver ends it, or not at all.
SafariOpens(r) ==
    /\ manager = "logwrapper"
    /\ Live(r) # {}
    /\ safari' = safari \cup {r}
    /\ UNCHANGED <<manager, run, phase, updater, timedOut, node, toSpawn, daily,
                   sigterm, exitCode, stopping, cut>>

SafariEnds(r) ==
    /\ r \in safari
    /\ safari' = safari \ {r}
    /\ UNCHANGED <<manager, run, phase, updater, timedOut, node, toSpawn, daily,
                   sigterm, exitCode, stopping, cut>>

\* Mutated: without the 'error' handler.
NodeExited ==
    /\ phase = "running"
    /\ \E n \in Nodes : node[run][n] = "gone"
    /\ ExitAfterLaunch("1")

\* The 'exit' or 'error' event of a node.
NodeLost ==
    /\ phase = "running"
    /\ \E n \in Nodes : node[run][n] \in {"gone", "unspawned"}
    /\ ExitAfterLaunch("1")

\* Mutated: the restart exits with success.
DailyExit ==
    /\ phase = "running"
    /\ daily
    /\ ExitAfterLaunch("0")

\* The daily restart timer: an exit that every manager answers by a start.
DailyRestart ==
    /\ phase = "running"
    /\ daily
    /\ ExitAfterLaunch("2")

\* The SIGTERM handler.
Quit ==
    /\ phase = "running"
    /\ sigterm
    /\ ExitAfterLaunch("0")

\* A configuration without nodes: nothing keeps the event loop going.
NothingToDo ==
    /\ phase = "running"
    /\ Started(run) = {}
    /\ ~ daily
    /\ ExitAfterLaunch("0")

-----------------------------------------------------------------------------
(* The manager, and others who end the launcher.                           *)

\* What a SIGTERM does to the launcher: the handler is queued once it is
\* installed, until then the default action kills it with nothing cleaned up.
TermLauncher ==
    IF phase = "running"
    THEN /\ sigterm' = TRUE
         /\ UNCHANGED <<phase, exitCode, toSpawn, daily>>
    ELSE /\ phase' = "exited"
         /\ exitCode' = "signal"
         /\ toSpawn' = {}
         /\ daily' = FALSE
         /\ UNCHANGED sigterm

OperatorTerm ==
    /\ manager # "winsw"
    /\ LauncherAlive
    /\ ~ sigterm
    /\ TermLauncher
    /\ UNCHANGED <<manager, run, updater, timedOut, node, stopping, safari,
                   cut>>

\* SIGKILL, the OOM killer, the task manager.
Crash ==
    /\ LauncherAlive
    /\ phase' = "exited"
    /\ exitCode' = "signal"
    /\ toSpawn' = {}
    /\ daily' = FALSE
    /\ sigterm' = FALSE
    /\ cut' = cut \cup {run}
    /\ UNCHANGED <<manager, run, updater, timedOut, node, stopping, safari>>

\* systemctl stop: SIGTERM to every process of the unit's control group, the
\* update script's own process group included.
\* log-wrapper quits: SIGTERM to the launcher's process group, which the
\* script left.
\* net stop: WinSW kills the process tree.
StopService ==
    /\ LauncherAlive
    /\ ~ stopping
    /\ stopping' = TRUE
    /\ IF manager = "winsw"
       THEN /\ phase' = "exited"
            /\ exitCode' = "signal"
            /\ toSpawn' = {}
            /\ daily' = FALSE
            /\ sigterm' = FALSE
            /\ node' = [node EXCEPT ![run] = Killed(@)]
       ELSE /\ TermLauncher
            /\ node' = [node EXCEPT ![run] = Told(@)]
    /\ updater' = IF manager = "logwrapper" THEN updater
                  ELSE [updater EXCEPT ![run] = KillUpdate(@)]
    /\ UNCHANGED <<manager, run, timedOut, safari, cut>>

\* The service is started again, unless it was asked to stop or, under WinSW,
\* the exit was a success.
Restarted == ~ stopping /\ ~ (manager = "winsw" /\ exitCode = "0")

\* The manager sees the end of a run.  systemd kills what is left in the
\* control group, log-wrapper what is left in the process group, WinSW nothing.
Collect ==
    /\ phase = "exited"
    /\ node' = IF manager = "winsw" THEN node
               ELSE [node EXCEPT ![run] = Killed(@)]
    /\ updater' = IF manager = "systemd"
                  THEN [updater EXCEPT ![run] = KillUpdate(@)]
                  ELSE updater
    /\ phase' = IF Restarted THEN "down" ELSE "stopped"
    /\ UNCHANGED <<manager, run, timedOut, toSpawn, daily, sigterm, exitCode,
                   stopping, safari, cut>>

\* The operator starts a stopped service again.
StartService ==
    /\ phase = "stopped"
    /\ phase' = "down"
    /\ stopping' = FALSE
    /\ UNCHANGED <<manager, run, updater, timedOut, node, toSpawn, daily,
                   sigterm, exitCode, safari, cut>>

-----------------------------------------------------------------------------
Settle == UpdateRejected \/ ConfigRejected \/ ConfigRead

Launch == Launched \/ SpawnThrows \/ \E n \in Nodes : Spawn(n)

Event == NodeLost \/ DailyRestart \/ Quit \/ NothingToDo

Next ==
    \/ Start \/ UpdateTimeout \/ Settle \/ Launch \/ Event
    \/ \E r \in Runs : UpdateEnds(r) \/ SafariOpens(r) \/ SafariEnds(r)
    \/ \E r \in Runs, n \in Nodes : NodeEnds(r, n)
    \/ OperatorTerm \/ Crash \/ StopService \/ Collect \/ StartService

\* The manager does start the service, timers do fire and the event loop does
\* run.  Nothing makes the update script, or a node, ever end by itself.
Fairness ==
    /\ WF_vars(Start)
    /\ WF_vars(UpdateTimeout)
    /\ WF_vars(Settle)
    /\ WF_vars(Launch)
    /\ WF_vars(Event)
    /\ WF_vars(Collect)

Spec == Init /\ [][Next]_vars
FairSpec == Spec /\ Fairness

-----------------------------------------------------------------------------
(* Safety.                                                                 *)

\* Nodes are only launched by a run whose driver update succeeded, and in
\* time: a run that was told by its timer to give up never launches, not even
\* when the script turns out to have finished (start-nodes.js:325-337, 386).
LaunchNeedsUpdate ==
    /\ \A r \in Runs : Started(r) # {} => updater[r] = "ok"
    /\ run \in Runs /\ Started(run) # {} => ~ timedOut

\* Once all nodes were spawned, a launcher that exits by its own decision leaves
\* none behind that was not told to stop, whichever event made it exit
\* (start-nodes.js:502-538).  One whose launch a spawn cut short tells nobody.
NoUntendedNode ==
    phase = "exited" /\ exitCode \in {"0", "1", "2"} /\ run \notin cut =>
        \A n \in Nodes : node[run][n] # "up"

\* WinSW kills nothing when a launcher has ended, so it has lost the processes
\* of a run that was cut off.
Lost(r) == manager = "winsw" /\ r \in cut

\* Two runs never have node processes at the same time: what one run left
\* behind, also one that was cut off amid its launch, is gone before the next
\* one launches, unless it is lost (start-nodes.js:213-244,
\* log-wrapper.js:158-160).
OneSetOfNodes ==
    \A r, s \in Runs :
        Live(r) # {} /\ Live(s) # {} => r = s \/ Lost(r) \/ Lost(s)

\* A stopped service has no process left, neither a node nor a driver update
\* (log-wrapper.js:165-166).
StoppedMeansGone ==
    phase = "stopped" =>
        \A r \in Runs : Live(r) = {} /\ updater[r] # "running"

\* ... and that is so wherever it is stopped and however its launcher died
\* before, but for what WinSW has lost and for a driver update that log-wrapper
\* cannot find (start-nodes.js:233-235, 299-302).
StopLeavesNothing ==
    phase = "stopped" =>
        \A r \in Runs : ~ Lost(r) =>
            /\ Live(r) = {}
            /\ updater[r] = "running" => manager = "logwrapper"

\* There is never more than one driver update: two of them would install
\* into the same directory (start-nodes.js:386).  Not so under log-wrapper,
\* where a launcher killed during the update leaves it behind, nor under WinSW
\* if it is lost.
OneUpdate ==
    manager # "logwrapper" =>
        \A r, s \in Runs :
            updater[r] = "running" /\ updater[s] = "running" =>
                r = s \/ Lost(r) \/ Lost(s)

\* A run finds no Safari under automation that an earlier run has left, not
\* even one opened by nodes that outlived their launcher: every Safari session
\* would fail (start-nodes.js:344-347).
NoStaleSafari ==
    LauncherAlive => safari \subseteq {run}

\* A launcher of nodes that was shut down politely, which is what its exit
\* code 0 says, is not started again (start-nodes.js:523-526).
PoliteExitStays ==
    [][phase = "exited" /\ exitCode = "0" /\ Started(run) # {}
           => phase' # "down"]_vars

-----------------------------------------------------------------------------
(* Liveness.                                                               *)

\* A driver update that hangs does not wedge the service: the run goes on or
\* ends (start-nodes.js:284-288, 309-315).
UpdateSettles == phase = "updating" ~> phase # "updating"

\* A node that is lost takes its run down, whether it exited or never came up
\* (start-nodes.js:509-518).
LostNodeEndsRun ==
    \A n \in Nodes :
        phase = "running" /\ node[run][n] \in {"gone", "unspawned"}
            ~> phase # "running"

\* The daily restart brings the service back, under a manager that only
\* restarts on failure as well (start-nodes.js:489-499,
\* shaka-lab-node-svc.yml:32-36).
DailyRestartReturns ==
    phase = "running" /\ daily /\ run < MaxRuns
        ~> phase = "updating" \/ stopping

-----------------------------------------------------------------------------
(* The manager and the launcher as a supervisor of the nodes, whose epochs *)
(* are the runs and whose processes are those of every run that are not    *)
(* lost.  The service is closing from when it is asked to stop, or ends    *)
(* under a manager that does not start it again, until the manager has     *)
(* seen its end.                                                           *)

Closing == stopping \/ (phase = "exited" /\ ~ Restarted)

Mode == IF phase = "stopped" THEN "off"
        ELSE IF Closing THEN "closing" ELSE "serving"

Alive == {x \in Runs \X Nodes : x[2] \in Live(x[1]) /\ ~ Lost(x[1])}
         \cup (IF LauncherAlive THEN {<<run, "launcher">>} ELSE {})

Supervisor == INSTANCE ServiceSupervisor WITH
    Procs <- Nodes \cup {"launcher"},
    Leader <- "launcher",
    MaxEpoch <- MaxRuns,
    mode <- Mode,
    epoch <- run,
    live <- Alive

\* A run never begins with a process of an earlier one around, nothing is left
\* of a service that has stopped, and as long as it is served a run is followed
\* by the next (start-nodes.js:213-244, 520-538, shaka-lab-node.service:26).
SupervisorSpec == Supervisor!Spec
=============================================================================
