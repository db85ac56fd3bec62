------------------------------ MODULE LogWrapper ------------------------------
(***************************************************************************)
(* log-wrapper.js, which runs the node service on macOS, restarts it and   *)
(* kills what it leaves behind, and the scripts stop-services.sh and       *)
(* restart-services.sh that end it and start it again.                     *)
(*                                                                         *)
(* The service is a process group per spawn: the spawned Leader and what   *)
(* it, or what it has forked, forks.  A process of it may take its time to *)
(* obey SIGTERM, or ignore it; SIGKILL is immediate.                       *)
(*                                                                         *)
(* The wrapper is event driven.  One of its callbacks is split in two,     *)
(* spawnChild(): between the spawn and the writing of the child PID file   *)
(* the stop script can read the file.  Until the signal handlers are       *)
(* installed, after the first spawnChild(), a signal kills the wrapper.    *)
(***************************************************************************)
EXTENDS Naturals

CONSTANTS
    Procs,     \* the processes a service may consist of
    Leader,    \* the spawned one
    Stubborn,  \* those that may ignore SIGTERM
    MaxGen,    \* bound: spawns of the service
    Faults     \* what may go wrong: see FaultKinds

\* The wrapper is killed outright; a log file cannot be reopened or written;
\* the service cannot be spawned; the child PID file cannot be written; a
\* signal arrives before the handlers are installed or after they have run.
FaultKinds == {"crash", "log", "spawn", "file", "signal"}

ASSUME ProcsAssumption  == Leader \in Procs /\ Stubborn \subseteq Procs \ {Leader}
ASSUME MaxGenAssumption == MaxGen \in Nat
ASSUME FaultsAssumption == Faults \subseteq FaultKinds

Gens == 1 .. MaxGen
Signals == {"SIGINT", "SIGTERM"}

VARIABLES
    wrapper,       \* "down", "boot" (no signal handler yet) or "up"
    quitting,
    handlers,      \* signals whose once() handler is still installed
    pending,       \* signals waiting for the event loop to run their handler
    gen,           \* spawns so far; also names the last spawn's process group
    base,          \* history: the value of gen when the wrapper started
    childGroupId,  \* 0 for null
    child,         \* the group whose Leader's 'exit' is yet to be handled, or 0
    writing,       \* spawnChild() has spawned and not yet written the PID file
    timer,         \* the timer of the next spawn is set
    proc,          \* group -> process -> its state
    pidFile,       \* the wrapper's PID file exists
    childPidFile,  \* the group the child PID file names, 0 if there is none
    script         \* where stop-services.sh or restart-services.sh is

wrapperVars == <<wrapper, quitting, handlers, pending, gen, base,
                 childGroupId, child, writing, timer>>
vars == <<wrapper, quitting, handlers, pending, gen, base, childGroupId,
          child, writing, timer, proc, pidFile, childPidFile, script>>

TypeOK ==
    /\ wrapper \in {"down", "boot", "up"}
    /\ quitting \in BOOLEAN
    /\ handlers \in SUBSET Signals
    /\ pending \in SUBSET Signals
    /\ gen \in 0 .. MaxGen
    /\ base \in 0 .. MaxGen
    /\ childGroupId \in 0 .. MaxGen
    /\ child \in 0 .. MaxGen
    /\ writing \in BOOLEAN
    /\ timer \in BOOLEAN
    /\ proc \in [Gens -> [Procs -> {"none", "up", "told", "gone"}]]
    /\ pidFile \in BOOLEAN
    /\ childPidFile \in 0 .. MaxGen
    /\ script \in {"idle", "stopping", "restarting", "sleeping"}

Init ==
    /\ wrapper = "down"
    /\ quitting = FALSE
    /\ handlers = {}
    /\ pending = {}
    /\ gen = 0
    /\ base = 0
    /\ childGroupId = 0
    /\ child = 0
    /\ writing = FALSE
    /\ timer = FALSE
    /\ proc = [g \in Gens |-> [p \in Procs |-> "none"]]
    /\ pidFile = FALSE
    /\ childPidFile = 0
    /\ script = "idle"

IsLive(s) == s \in {"up", "told"}
Live(g) == {p \in Procs : IsLive(proc[g][p])}

\* A callback or the main program may run.
Ready == wrapper = "up" /\ ~ writing

-----------------------------------------------------------------------------
(* Signals to a process group.                                             *)

\* Mutated: the group is forgotten with its processes.
Forgotten(g) == [h \in Gens \ {g} |-> proc[h]]

\* proc after SIGTERM to group g; g may be 0, for no group.
Terminated(g) ==
    [h \in Gens |-> [p \in Procs |->
        IF h = g /\ proc[h][p] = "up" THEN "told" ELSE proc[h][p]]]

\* proc after SIGKILL to group g.
Killed(g) ==
    [h \in Gens |-> [p \in Procs |->
        IF h = g /\ IsLive(proc[h][p]) THEN "gone" ELSE proc[h][p]]]

-----------------------------------------------------------------------------
(* The life of the wrapper.                                                *)

\* main() up to the first spawnChild(): the PID file is written.
Boot ==
    /\ wrapper = "down"
    /\ gen < MaxGen
    /\ wrapper' = "boot"
    /\ quitting' = FALSE
    /\ handlers' = {}
    /\ pending' = {}
    /\ base' = gen
    /\ childGroupId' = 0
    /\ child' = 0
    /\ writing' = FALSE
    /\ timer' = FALSE
    /\ pidFile' = TRUE
    /\ UNCHANGED <<gen, proc, childPidFile>>

\* The wrapper process is gone, and with it everything it had in memory.
Gone ==
    /\ wrapper' = "down"
    /\ quitting' = FALSE
    /\ handlers' = {}
    /\ pending' = {}
    /\ childGroupId' = 0
    /\ child' = 0
    /\ writing' = FALSE
    /\ timer' = FALSE
    /\ UNCHANGED <<gen, base>>

\* process.exit(): the 'exit' handler sends SIGTERM to the service.
Exit ==
    /\ Gone
    /\ proc' = Terminated(childGroupId)
    /\ UNCHANGED <<pidFile, childPidFile, script>>

\* The end of main(): the handlers are installed.
Installed == IF wrapper = "boot" THEN Signals ELSE handlers

-----------------------------------------------------------------------------
(* Spawning the service.                                                   *)

\* Mutated: the previous service is asked, not forced, to stop.
SpawnProcAsk ==
    [Terminated(childGroupId) EXCEPT ![gen + 1][Leader] = "up"]

\* What spawnChild() does up to the writing of the child PID file: nothing of
\* the previous service survives, the new one is its Leader.
SpawnProc ==
    [Killed(childGroupId) EXCEPT ![gen + 1][Leader] = "up"]

Spawned ==
    /\ gen < MaxGen
    /\ gen' = gen + 1
    /\ proc' = SpawnProc
    /\ childGroupId' = gen'
    /\ child' = gen'
    /\ writing' = TRUE
    /\ UNCHANGED <<wrapper, quitting, handlers, pending, base, pidFile,
                   childPidFile, script>>

\* spawn() gave no PID: an 'error' event that is only logged will follow.
SpawnFailed ==
    /\ "spawn" \in Faults
    /\ proc' = Killed(childGroupId)
    /\ wrapper' = "up"
    /\ handlers' = Installed
    /\ UNCHANGED <<quitting, pending, gen, base, childGroupId, child, writing,
                   pidFile, childPidFile, script>>

FirstSpawn ==
    /\ wrapper = "boot"
    /\ ~ writing
    /\ Spawned \/ SpawnFailed
    /\ UNCHANGED timer

\* Mutated: the file is written by main() and not again by spawnChild().
WriteFirstPid ==
    /\ writing
    /\ writing' = FALSE
    /\ childPidFile' = IF wrapper = "boot" THEN childGroupId ELSE childPidFile
    /\ wrapper' = "up"
    /\ handlers' = Installed
    /\ UNCHANGED <<quitting, pending, gen, base, childGroupId, child, timer,
                   proc, pidFile, script>>

\* The rest of spawnChild(), and of main() if it was the first call.
WriteChildPid ==
    /\ writing
    /\ writing' = FALSE
    /\ \/ childPidFile' = childGroupId
       \/ "file" \in Faults /\ UNCHANGED childPidFile
    /\ wrapper' = "up"
    /\ handlers' = Installed
    /\ UNCHANGED <<quitting, pending, gen, base, childGroupId, child, timer,
                   proc, pidFile, script>>

\* Mutated: no timer is set.
ChildExitForGood ==
    /\ Ready
    /\ child # 0
    /\ proc[child][Leader] = "gone"
    /\ child' = 0
    /\ proc' = Terminated(childGroupId)
    /\ UNCHANGED <<wrapper, quitting, handlers, pending, gen, base, timer,
                   childGroupId, writing, pidFile, childPidFile, script>>

\* The 'exit' event of the service.
ChildExit ==
    /\ Ready
    /\ child # 0
    /\ proc[child][Leader] = "gone"
    /\ child' = 0
    /\ proc' = Terminated(childGroupId)
    /\ timer' = (timer \/ ~ quitting)
    /\ UNCHANGED <<wrapper, quitting, handlers, pending, gen, base,
                   childGroupId, writing, pidFile, childPidFile, script>>

\* Mutated: without the test of quitting.
RespawnAnyway ==
    /\ Ready
    /\ timer
    /\ timer' = FALSE
    /\ Spawned \/ SpawnFailed

\* The five seconds are over.  Once quitting, spawnChild() does nothing.
Respawn ==
    /\ Ready
    /\ timer
    /\ timer' = FALSE
    /\ \/ quitting /\ UNCHANGED <<wrapper, quitting, handlers, pending, gen,
             base, childGroupId, child, writing, proc, pidFile, childPidFile,
             script>>
       \/ ~ quitting /\ (Spawned \/ SpawnFailed)

-----------------------------------------------------------------------------
(* The end of the wrapper.                                                 *)

\* quit(), from the handler of a signal.
Quit ==
    /\ Ready
    /\ \E s \in pending :
          \/ /\ childGroupId = 0
             /\ Exit
          \/ /\ childGroupId # 0
             /\ quitting' = TRUE
             /\ pending' = pending \ {s}
             /\ handlers' = handlers \ {s}
             /\ proc' = Terminated(childGroupId)
             /\ UNCHANGED <<wrapper, gen, base, childGroupId, child, writing,
                            timer, pidFile, childPidFile, script>>

\* Mutated: the processes are asked once more.
QuitAsking ==
    /\ Ready
    /\ quitting
    /\ Gone
    /\ proc' = Terminated(childGroupId)
    /\ UNCHANGED <<pidFile, childPidFile, script>>

\* The poll finds the group empty or the second over, whichever comes first:
\* the time is not modelled, so this may happen at any moment.
QuitDone ==
    /\ Ready
    /\ quitting
    /\ Gone
    /\ proc' = Killed(childGroupId)
    /\ UNCHANGED <<pidFile, childPidFile, script>>

\* Nothing is left to wait for: only after a spawn that failed.
Drained ==
    /\ Ready
    /\ child = 0 /\ ~ timer /\ ~ quitting
    /\ Exit

\* process.exit(1) because a log file cannot be reopened or written.
LogFailure ==
    /\ "log" \in Faults
    /\ Ready
    /\ Exit

Crash ==
    /\ "crash" \in Faults
    /\ wrapper # "down"
    /\ Gone
    /\ UNCHANGED <<proc, pidFile, childPidFile, script>>

-----------------------------------------------------------------------------
(* Signals to the wrapper, and the scripts.                                *)

\* s is sent to the wrapper: its handler, if it is installed, will run; if it
\* is not, or has run, the signal kills the wrapper at once.
Signal(s) ==
    IF wrapper = "down" THEN UNCHANGED wrapperVars
    ELSE IF s \in handlers
    THEN /\ pending' = pending \cup {s}
         /\ UNCHANGED <<wrapper, quitting, handlers, gen, base, childGroupId,
                        child, writing, timer>>
    ELSE "signal" \in Faults /\ Gone

\* Someone else sends a signal: a keyboard, the end of the login session.
SignalWrapper(s) ==
    /\ wrapper # "down"
    /\ Signal(s)
    /\ UNCHANGED <<proc, pidFile, childPidFile, script>>

\* The app is opened: at login, or by the installation.
OpenApp ==
    /\ script = "idle"
    /\ Boot
    /\ UNCHANGED script

\* stop-services.sh, by itself or called by restart-services.sh: the wrapper
\* its PID file names is sent SIGTERM ...
ScriptStop ==
    /\ script = "idle"
    /\ script' \in {"stopping", "restarting"}
    /\ IF pidFile THEN Signal("SIGTERM") ELSE UNCHANGED wrapperVars
    /\ pidFile' = FALSE
    /\ UNCHANGED <<proc, childPidFile>>

\* ... and so is the process group the child PID file names.
ScriptStopChild ==
    /\ script \in {"stopping", "restarting"}
    /\ script' = IF script = "stopping" THEN "idle" ELSE "sleeping"
    /\ proc' = Terminated(childPidFile)
    /\ childPidFile' = 0
    /\ UNCHANGED <<wrapperVars, pidFile>>

\* restart-services.sh has slept two seconds, in which a wrapper that was sent
\* SIGTERM is done quitting, and opens the app.
ScriptOpen ==
    /\ script = "sleeping"
    /\ script' = "idle"
    /\ Boot

-----------------------------------------------------------------------------
(* The service.                                                            *)

Fork(g, p) ==
    /\ Live(g) # {}
    /\ p # Leader
    /\ proc[g][p] = "none"
    /\ proc' = [proc EXCEPT ![g][p] = "up"]
    /\ UNCHANGED <<wrapperVars, pidFile, childPidFile, script>>

\* A process ends, told to or not.
Die(g, p) ==
    /\ IsLive(proc[g][p])
    /\ proc' = [proc EXCEPT ![g][p] = "gone"]
    /\ UNCHANGED <<wrapperVars, pidFile, childPidFile, script>>

Obey(g, p) == proc[g][p] = "told" /\ Die(g, p)

-----------------------------------------------------------------------------
Next ==
    \/ OpenApp \/ FirstSpawn \/ WriteChildPid \/ ChildExit \/ Respawn
    \/ Quit \/ QuitDone \/ Drained \/ LogFailure \/ Crash
    \/ \E s \in Signals : SignalWrapper(s)
    \/ ScriptStop \/ ScriptStopChild \/ ScriptOpen
    \/ \E g \in Gens, p \in Procs : Fork(g, p) \/ Die(g, p)

\* The event loop runs, timers fire, a script that was started goes on, and a
\* process that does not ignore SIGTERM obeys it.  Nothing makes a process of
\* the service end by itself, nor anyone start or stop anything.
Fairness ==
    /\ WF_vars(FirstSpawn)
    /\ WF_vars(WriteChildPid)
    /\ WF_vars(ChildExit)
    /\ WF_vars(Respawn)
    /\ WF_vars(Quit)
    /\ WF_vars(QuitDone)
    /\ WF_vars(Drained)
    /\ WF_vars(ScriptStopChild)
    /\ WF_vars(ScriptOpen)
    /\ \A g \in Gens : \A p \in Procs \ Stubborn : WF_vars(Obey(g, p))

Spec == Init /\ [][Next]_vars
FairSpec == Spec /\ Fairness

-----------------------------------------------------------------------------
(* Properties.                                                             *)

\* Of the services that one wrapper has spawned only the last has processes:
\* what ignored the SIGTERM of its end does not survive the next spawn,
\* whatever goes wrong (log-wrapper.js:158-160).
OwnOneGeneration ==
    wrapper # "down" =>
        \A g \in base + 1 .. gen : Live(g) # {} => g = childGroupId

\* A wrapper that is quitting spawns no service any more, not even when the
\* timer of the next spawn was already set (log-wrapper.js:154-156).
QuitIsFinal == [][quitting => gen' = gen]_vars

\* While the wrapper is at work and nobody has asked it to stop, the child PID
\* file names the service it runs, so that stop-services.sh finds the service
\* should the wrapper be gone by then (log-wrapper.js:37-39, 170-178).
StopCanFind ==
    Ready /\ ~ quitting /\ pending = {} /\ childGroupId # 0 =>
        childPidFile = childGroupId

\* A service that has ended is spawned again, unless the wrapper has been told
\* to quit: it does not just end with the service (log-wrapper.js:193-204).
ServiceReturns ==
    \A g \in 1 .. MaxGen - 1 :
        Ready /\ child = g /\ proc[g][Leader] = "gone"
            ~> gen > g \/ quitting

\* stop-services.sh ends every process of the service, also those that ignore
\* SIGTERM (log-wrapper.js:214-234, stop-services.sh:30-54).
StopStops == script = "stopping" ~> \A g \in Gens : Live(g) = {}

\* The wrapper implements a supervisor whose epochs are its spawns.
Supervisor == INSTANCE ServiceSupervisor WITH
    MaxEpoch <- MaxGen,
    mode  <- IF wrapper = "down" THEN "off"
             ELSE IF quitting THEN "closing" ELSE "serving",
    epoch <- gen,
    live  <- {x \in Gens \X Procs : IsLive(proc[x[1]][x[2]])}

\* Epochs never overlap, a quitting wrapper leaves nothing behind, and an epoch
\* that ended is followed by another one or by the end of the wrapper.
SupervisorSpec == Supervisor!Spec
=============================================================================
