--------------------------- MODULE LogWrapperProofs ---------------------------
(* The safety of log-wrapper.js, for any service and any faults.           *)
EXTENDS LogWrapper, TLAPS

USE ProcsAssumption, MaxGenAssumption, FaultsAssumption

\* A wrapper quits only once its handlers are installed, which QuitIsFinal
\* needs because the first spawn is not behind a test of quitting; and none
\* writes a file after its end.
FlagsOfTheLiving ==
    /\ quitting => wrapper = "up"
    /\ writing => wrapper # "down"

IInv == TypeOK /\ FlagsOfTheLiving /\ OwnOneGeneration

-----------------------------------------------------------------------------
(* Signals to a process group.                                             *)

ProcStates == {"none", "up", "told", "gone"}
ProcTable == [Gens -> [Procs -> ProcStates]]

\* SIGTERM leaves a process table, and no process begins or ends at once.
LEMMA TerminatedLive ==
    ASSUME proc \in ProcTable, NEW g
    PROVE  /\ Terminated(g) \in ProcTable
           /\ \A h \in Gens : \A p \in Procs :
                 IsLive(Terminated(g)[h][p]) <=> IsLive(proc[h][p])
<1>1. Terminated(g) \in ProcTable
  BY DEF Terminated, ProcTable, ProcStates
<1>2. ASSUME NEW h \in Gens, NEW p \in Procs
      PROVE  IsLive(Terminated(g)[h][p]) <=> IsLive(proc[h][p])
  BY DEF Terminated, ProcTable, ProcStates, IsLive
<1> QED BY <1>1, <1>2

\* SIGKILL leaves a process table in which the group is empty and the others
\* are what they were.
LEMMA KilledLive ==
    ASSUME proc \in ProcTable, NEW g
    PROVE  /\ Killed(g) \in ProcTable
           /\ \A h \in Gens : \A p \in Procs :
                 IsLive(Killed(g)[h][p]) <=> h # g /\ IsLive(proc[h][p])
<1>1. Killed(g) \in ProcTable
  BY DEF Killed, ProcTable, ProcStates
<1>2. ASSUME NEW h \in Gens, NEW p \in Procs
      PROVE  IsLive(Killed(g)[h][p]) <=> h # g /\ IsLive(proc[h][p])
  BY DEF Killed, ProcTable, ProcStates, IsLive
<1> QED BY <1>1, <1>2

-----------------------------------------------------------------------------
(* Steps that keep the invariant, by what they do to the state.            *)

\* A wrapper that is gone has no obligations.
LEMMA GoneInv ==
    ASSUME IInv, Gone, proc' \in ProcTable, pidFile' \in BOOLEAN,
           childPidFile' \in 0 .. MaxGen,
           script' \in {"idle", "stopping", "restarting", "sleeping"}
    PROVE  IInv'
<1>1. TypeOK'
  <2>1. gen' \in 0 .. MaxGen /\ base' \in 0 .. MaxGen
    BY DEF IInv, TypeOK, Gone
  <2>2. 0 \in 0 .. MaxGen /\ {} \in SUBSET Signals
    OBVIOUS
  <2> QED BY <2>1, <2>2 DEF TypeOK, Gone, ProcTable, ProcStates
<1>2. FlagsOfTheLiving' /\ OwnOneGeneration'
  BY DEF FlagsOfTheLiving, OwnOneGeneration, Gone
<1> QED BY <1>1, <1>2 DEF IInv

\* No process begins and the wrapper's groups stay what they are.
LEMMA NoBirth ==
    ASSUME OwnOneGeneration, TypeOK, UNCHANGED <<gen, base, childGroupId>>,
           wrapper' # "down" => wrapper # "down",
           \A h \in Gens : \A p \in Procs :
               IsLive(proc'[h][p]) => IsLive(proc[h][p])
    PROVE  OwnOneGeneration'
<1> SUFFICES ASSUME wrapper' # "down", NEW g \in base + 1 .. gen, Live(g)' # {}
             PROVE  g = childGroupId
  BY DEF OwnOneGeneration
<1>1. g \in Gens
  BY DEF TypeOK, Gens
<1>2. Live(g) # {}
  BY <1>1 DEF Live
<1> QED BY <1>2 DEF OwnOneGeneration

\* A spawn kills the one group of the wrapper's own that may have processes.
LEMMA SpawnedInv ==
    ASSUME IInv, Spawned, wrapper # "down", timer' \in BOOLEAN
    PROVE  IInv'
<1> USE DEF IInv
<1>1. proc \in ProcTable
  BY DEF TypeOK, ProcTable, ProcStates
<1>2. gen + 1 \in Gens
  BY DEF Spawned, TypeOK, Gens
<1>3. proc' = [Killed(childGroupId) EXCEPT ![gen + 1][Leader] = "up"]
  BY DEF Spawned, SpawnProc
<1>4. TypeOK'
  <2>1. proc' \in ProcTable
    BY <1>1, <1>2, <1>3, KilledLive DEF ProcTable, ProcStates
  <2> QED BY <1>2, <2>1 DEF TypeOK, Spawned, ProcTable, ProcStates, Gens
<1>5. FlagsOfTheLiving'
  BY DEF Spawned, FlagsOfTheLiving
<1>6. OwnOneGeneration'
  <2> SUFFICES ASSUME NEW g \in (base + 1 .. gen)', Live(g)' # {}
               PROVE  g = childGroupId'
    BY DEF OwnOneGeneration
  <2>1. /\ gen' = gen + 1 /\ base' = base /\ childGroupId' = gen + 1
        /\ gen \in Nat /\ base \in Nat
    BY DEF Spawned, TypeOK
  <2>2. CASE g = gen + 1
    BY <2>1, <2>2
  <2>3. CASE g # gen + 1
    <3>1. g \in base + 1 .. gen /\ g \in Gens
      BY <2>1, <2>3, <1>2 DEF Gens
    <3>2. proc'[g] = Killed(childGroupId)[g]
      BY <1>1, <1>2, <1>3, <2>3, <3>1, KilledLive DEF ProcTable
    <3>3. PICK p \in Procs : IsLive(Killed(childGroupId)[g][p])
      BY <3>2 DEF Live
    <3>4. g # childGroupId /\ IsLive(proc[g][p])
      BY <1>1, <3>1, <3>3, KilledLive
    <3> QED BY <3>1, <3>4 DEF OwnOneGeneration, Live
  <2> QED BY <2>2, <2>3
<1> QED BY <1>4, <1>5, <1>6

\* Neither does one that fails begin a process.
LEMMA SpawnFailedInv ==
    ASSUME IInv, SpawnFailed, wrapper # "down", timer' \in BOOLEAN
    PROVE  IInv'
<1> USE DEF IInv
<1>1. proc \in ProcTable
  BY DEF TypeOK, ProcTable, ProcStates
<1>2. proc' = Killed(childGroupId)
  BY DEF SpawnFailed
<1>3. /\ proc' \in ProcTable
      /\ \A h \in Gens : \A p \in Procs :
            IsLive(proc'[h][p]) => IsLive(proc[h][p])
  BY <1>1, <1>2, KilledLive
<1>4. TypeOK'
  BY <1>3 DEF TypeOK, SpawnFailed, Installed, ProcTable, ProcStates
<1>5. FlagsOfTheLiving'
  BY DEF SpawnFailed, FlagsOfTheLiving
<1>6. OwnOneGeneration'
  BY <1>3, NoBirth DEF SpawnFailed
<1> QED BY <1>4, <1>5, <1>6

\* What a signal does to the wrapper.
LEMMA SignalInv ==
    ASSUME IInv, NEW s \in Signals, Signal(s), proc' = proc,
           pidFile' \in BOOLEAN, childPidFile' \in 0 .. MaxGen,
           script' \in {"idle", "stopping", "restarting", "sleeping"}
    PROVE  IInv'
<1>1. proc' \in ProcTable
  BY DEF IInv, TypeOK, ProcTable, ProcStates
<1>2. CASE wrapper = "down" \/ s \in handlers
  <2>1. TypeOK'
    BY <1>1, <1>2 DEF IInv, TypeOK, Signal, wrapperVars, ProcTable, ProcStates
  <2>2. FlagsOfTheLiving'
    BY <1>2 DEF IInv, FlagsOfTheLiving, Signal, wrapperVars
  <2>3. OwnOneGeneration'
    BY <1>2, NoBirth DEF IInv, Signal, wrapperVars
  <2> QED BY <2>1, <2>2, <2>3 DEF IInv
<1>3. CASE wrapper # "down" /\ s \notin handlers
  BY <1>1, <1>3, GoneInv DEF Signal
<1> QED BY <1>2, <1>3

\* A step of the service, of a script or of nobody: the wrapper takes no part.
LEMMA BystanderInv ==
    ASSUME IInv, UNCHANGED wrapperVars, proc' \in ProcTable,
           \A h \in Gens : \A p \in Procs :
               IsLive(proc'[h][p]) =>
                   IsLive(proc[h][p]) \/ (Live(h) # {} /\ p # Leader),
           pidFile' \in BOOLEAN, childPidFile' \in 0 .. MaxGen,
           script' \in {"idle", "stopping", "restarting", "sleeping"}
    PROVE  IInv'
<1>1. TypeOK'
  BY DEF IInv, TypeOK, wrapperVars, ProcTable, ProcStates
<1>2. FlagsOfTheLiving'
  BY DEF IInv, FlagsOfTheLiving, wrapperVars
<1>3. OwnOneGeneration'
  <2> SUFFICES ASSUME wrapper # "down", NEW g \in base + 1 .. gen, Live(g)' # {}
               PROVE  g = childGroupId
    BY DEF OwnOneGeneration, wrapperVars
  <2>1. g \in Gens
    BY DEF IInv, TypeOK, Gens
  <2>2. Live(g) # {}
    BY <2>1 DEF Live
  <2> QED BY <2>2 DEF IInv, OwnOneGeneration
<1> QED BY <1>1, <1>2, <1>3 DEF IInv

-----------------------------------------------------------------------------
(* The invariant.                                                          *)

\* The invariant holds initially.
LEMMA InitInv == Init => IInv
<1> SUFFICES ASSUME Init PROVE IInv
  OBVIOUS
<1>1. proc \in [Gens -> [Procs -> {"none", "up", "told", "gone"}]]
  BY DEF Init
<1>2. 0 \in 0 .. MaxGen /\ {} \in SUBSET Signals
  OBVIOUS
<1>3. TypeOK
  BY <1>1, <1>2 DEF Init, TypeOK
<1> QED BY <1>3 DEF Init, IInv, FlagsOfTheLiving, OwnOneGeneration

\* Starting anew, the wrapper has spawned nothing that it could keep apart.
LEMMA BootInv ==
    ASSUME IInv, Boot, script' \in {"idle", "stopping", "restarting", "sleeping"}
    PROVE  IInv'
<1>1. TypeOK'
  <2>1. 0 \in 0 .. MaxGen /\ {} \in SUBSET Signals
    OBVIOUS
  <2> QED BY <2>1 DEF IInv, TypeOK, Boot
<1>2. FlagsOfTheLiving'
  BY DEF FlagsOfTheLiving, Boot
<1>3. OwnOneGeneration'
  BY DEF IInv, TypeOK, OwnOneGeneration, Boot
<1> QED BY <1>1, <1>2, <1>3 DEF IInv

\* A step preserves the invariant: one step of the proof per action.
LEMMA StepInv == IInv /\ [Next]_vars => IInv'
<1> SUFFICES ASSUME IInv, [Next]_vars PROVE IInv'
  OBVIOUS
<1> USE DEF Ready
<1>0. /\ TypeOK /\ FlagsOfTheLiving /\ OwnOneGeneration
      /\ proc \in ProcTable
  BY DEF IInv, TypeOK, ProcTable, ProcStates
<1>1. CASE OpenApp
  BY <1>0, <1>1, BootInv DEF OpenApp, TypeOK
<1>2. CASE ScriptOpen
  BY <1>2, BootInv DEF ScriptOpen
<1>3. CASE FirstSpawn
  BY <1>0, <1>3, SpawnedInv, SpawnFailedInv DEF FirstSpawn, TypeOK
<1>4. CASE WriteChildPid
  <2>1. TypeOK'
    BY <1>0, <1>4 DEF WriteChildPid, Installed, TypeOK
  <2>2. FlagsOfTheLiving'
    BY <1>0, <1>4 DEF WriteChildPid, FlagsOfTheLiving
  <2>3. OwnOneGeneration'
    BY <1>0, <1>4, NoBirth DEF WriteChildPid, FlagsOfTheLiving
  <2> QED BY <2>1, <2>2, <2>3 DEF IInv
<1>5. CASE ChildExit
  <2>1. /\ proc' \in ProcTable
        /\ \A h \in Gens : \A p \in Procs :
              IsLive(proc'[h][p]) => IsLive(proc[h][p])
    BY <1>0, <1>5, TerminatedLive DEF ChildExit
  <2>2. TypeOK'
    <3>1. 0 \in 0 .. MaxGen /\ timer' \in BOOLEAN
      BY <1>5 DEF ChildExit
    <3> QED BY <1>0, <1>5, <2>1, <3>1 DEF ChildExit, TypeOK, ProcTable, ProcStates
  <2>3. FlagsOfTheLiving'
    BY <1>0, <1>5 DEF ChildExit, FlagsOfTheLiving
  <2>4. OwnOneGeneration'
    BY <1>0, <1>5, <2>1, NoBirth DEF ChildExit
  <2> QED BY <2>2, <2>3, <2>4 DEF IInv
<1>6. CASE Respawn
  <2>1. wrapper # "down" /\ timer' \in BOOLEAN
    BY <1>6 DEF Respawn
  <2>2. CASE Spawned
    BY <2>1, <2>2, SpawnedInv
  <2>3. CASE SpawnFailed
    BY <2>1, <2>3, SpawnFailedInv
  <2>4. CASE quitting /\ UNCHANGED <<wrapper, quitting, handlers, pending, gen,
              base, childGroupId, child, writing, proc, pidFile, childPidFile,
              script>>
    <3>1. TypeOK'
      BY <1>0, <2>1, <2>4 DEF TypeOK
    <3>2. FlagsOfTheLiving'
      BY <1>0, <2>4 DEF FlagsOfTheLiving
    <3>3. OwnOneGeneration'
      BY <1>0, <2>4, NoBirth
    <3> QED BY <3>1, <3>2, <3>3 DEF IInv
  <2> QED BY <1>6, <2>2, <2>3, <2>4 DEF Respawn
<1>7. CASE Quit
  <2>1. PICK s \in pending :
          \/ childGroupId = 0 /\ Exit
          \/ /\ quitting' = TRUE
             /\ pending' = pending \ {s}
             /\ handlers' = handlers \ {s}
             /\ proc' = Terminated(childGroupId)
             /\ UNCHANGED <<wrapper, gen, base, childGroupId, child, writing,
                            timer, pidFile, childPidFile, script>>
    BY <1>7 DEF Quit
  <2>2. /\ Terminated(childGroupId) \in ProcTable
        /\ \A h \in Gens : \A p \in Procs :
              IsLive(Terminated(childGroupId)[h][p]) => IsLive(proc[h][p])
    BY <1>0, TerminatedLive
  <2>3. CASE Exit
    BY <1>0, <2>2, <2>3, GoneInv DEF Exit, TypeOK
  <2>4. CASE ~ Exit
    <3>1. TypeOK'
      BY <1>0, <2>1, <2>2, <2>4 DEF TypeOK, ProcTable, ProcStates
    <3>2. FlagsOfTheLiving'
      BY <1>0, <1>7, <2>1, <2>4 DEF Quit, FlagsOfTheLiving
    <3>3. OwnOneGeneration'
      BY <1>0, <2>1, <2>2, <2>4, NoBirth
    <3> QED BY <3>1, <3>2, <3>3 DEF IInv
  <2> QED BY <2>3, <2>4
<1>8. CASE QuitDone
  BY <1>0, <1>8, KilledLive, GoneInv DEF QuitDone, TypeOK
<1>9. CASE Drained \/ LogFailure
  <2>1. Exit
    BY <1>9 DEF Drained, LogFailure
  <2> QED BY <1>0, <2>1, TerminatedLive, GoneInv DEF Exit, TypeOK
<1>10. CASE Crash
  BY <1>0, <1>10, GoneInv DEF Crash, TypeOK
<1>11. CASE \E s \in Signals : SignalWrapper(s)
  BY <1>0, <1>11, SignalInv DEF SignalWrapper, TypeOK
<1>12. CASE ScriptStop
  <2>1. /\ pidFile' \in BOOLEAN /\ childPidFile' \in 0 .. MaxGen
        /\ script' \in {"idle", "stopping", "restarting", "sleeping"}
        /\ proc' = proc
    BY <1>0, <1>12 DEF ScriptStop, TypeOK
  <2>2. CASE pidFile
    BY <1>12, <2>1, <2>2, SignalInv DEF ScriptStop, Signals
  <2>3. CASE ~ pidFile
    BY <1>0, <1>12, <2>1, <2>3, BystanderInv DEF ScriptStop
  <2> QED BY <2>2, <2>3
<1>13. CASE ScriptStopChild
  <2>1. /\ pidFile' \in BOOLEAN /\ childPidFile' \in 0 .. MaxGen
        /\ script' \in {"idle", "stopping", "restarting", "sleeping"}
        /\ UNCHANGED wrapperVars
    BY <1>0, <1>13 DEF ScriptStopChild, TypeOK
  <2>2. /\ proc' \in ProcTable
        /\ \A h \in Gens : \A p \in Procs :
              IsLive(proc'[h][p]) => IsLive(proc[h][p])
    BY <1>0, <1>13, TerminatedLive DEF ScriptStopChild
  <2> QED BY <2>1, <2>2, BystanderInv
<1>14. ASSUME NEW g \in Gens, NEW p \in Procs, Fork(g, p) \/ Die(g, p)
       PROVE  IInv'
  <2>1. proc' \in ProcTable
    BY <1>0, <1>14 DEF Fork, Die, ProcTable, ProcStates
  <2>2. \A h \in Gens : \A q \in Procs :
          IsLive(proc'[h][q]) =>
              IsLive(proc[h][q]) \/ (Live(h) # {} /\ q # Leader)
    BY <1>0, <1>14 DEF Fork, Die, ProcTable, IsLive
  <2> QED BY <1>0, <1>14, <2>1, <2>2, BystanderInv DEF Fork, Die, TypeOK
<1>15. CASE UNCHANGED vars
  BY <1>0, <1>15, BystanderInv DEF vars, wrapperVars, TypeOK
<1> QED BY <1>1, <1>2, <1>3, <1>4, <1>5, <1>6, <1>7, <1>8, <1>9, <1>10, <1>11,
           <1>12, <1>13, <1>14, <1>15 DEF Next

\* The inductive invariant holds of every behaviour.
THEOREM InvariantHolds == Spec => []IInv
BY InitInv, StepInv, PTL DEF Spec

\* Every variable keeps its type.
THEOREM TypeCorrect == Spec => []TypeOK
<1>1. IInv => TypeOK
  BY DEF IInv
<1> QED BY InvariantHolds, <1>1, PTL

\* Whatever fails, and however many processes of the service ignore SIGTERM,
\* of a wrapper's services only the last has processes.
THEOREM OneGenerationPerWrapper == Spec => []OwnOneGeneration
<1>1. IInv => OwnOneGeneration
  BY DEF IInv
<1> QED BY InvariantHolds, <1>1, PTL

-----------------------------------------------------------------------------
(* No spawn after quit().                                                  *)

\* No action of a wrapper that is quitting spawns a service.
LEMMA QuittingStep ==
    IInv /\ [Next]_vars => [quitting => gen' = gen]_vars
<1> SUFFICES ASSUME IInv, Next, quitting PROVE gen' = gen
  BY DEF vars
<1>1. wrapper = "up"
  BY DEF IInv, FlagsOfTheLiving
<1>2. ~ FirstSpawn /\ ~ Boot
  BY <1>1 DEF FirstSpawn, Boot
<1>3. CASE Respawn
  BY <1>3 DEF Respawn
<1>4. ASSUME NEW s \in Signals, Signal(s) PROVE gen' = gen
  BY <1>4 DEF Signal, wrapperVars, Gone
<1>5. CASE ScriptStop \/ \E s \in Signals : SignalWrapper(s)
  BY <1>4, <1>5 DEF ScriptStop, SignalWrapper, wrapperVars, Signals
<1>6. CASE Quit \/ QuitDone \/ Drained \/ LogFailure \/ Crash
  BY <1>6 DEF Quit, QuitDone, Drained, LogFailure, Crash, Exit, Gone
<1>7. CASE WriteChildPid \/ ChildExit \/ ScriptStopChild
  BY <1>7 DEF WriteChildPid, ChildExit, ScriptStopChild, wrapperVars
<1>8. CASE \E g \in Gens, p \in Procs : Fork(g, p) \/ Die(g, p)
  BY <1>8 DEF Fork, Die, wrapperVars
<1> QED BY <1>2, <1>3, <1>5, <1>6, <1>7, <1>8 DEF Next, OpenApp, ScriptOpen

\* A wrapper that is quitting spawns no service any more.
THEOREM NoSpawnAfterQuit == Spec => QuitIsFinal
<1> QED BY InvariantHolds, QuittingStep, PTL DEF Spec, QuitIsFinal

-----------------------------------------------------------------------------
(* What stop-services.sh finds, as long as the child PID file can be       *)
(* written.                                                                *)

\* A wrapper whose PID file the script has taken has been told to stop, so the
\* script that goes on with the child PID file meets no wrapper that needs it;
\* and a wrapper that has not spawned yet has no group to be found.
Findable ==
    /\ wrapper # "down" /\ ~ pidFile => quitting \/ pending # {}
    /\ script # "idle" => ~ pidFile
    /\ wrapper = "boot" => handlers = {}
    /\ wrapper = "boot" /\ ~ writing => childGroupId = 0
    /\ StopCanFind

\* A step keeps the service findable: one step of the proof per action.
LEMMA FindableStep ==
    ASSUME "file" \notin Faults, IInv, Findable, [Next]_vars
    PROVE  Findable'
<1> USE DEF Ready, Findable, StopCanFind
<1>1. CASE OpenApp
  BY <1>1 DEF OpenApp, Boot
<1>2. CASE ScriptOpen
  BY <1>2 DEF ScriptOpen, Boot
<1>3. CASE FirstSpawn
  BY <1>3 DEF FirstSpawn, Spawned, SpawnFailed
<1>4. CASE WriteChildPid
  BY <1>4 DEF WriteChildPid, IInv, FlagsOfTheLiving
<1>5. CASE ChildExit
  BY <1>5 DEF ChildExit
<1>6. CASE Respawn
  <2>1. CASE Spawned
    BY <1>6, <2>1 DEF Respawn, Spawned
  <2>2. CASE SpawnFailed
    BY <1>6, <2>2 DEF Respawn, SpawnFailed
  <2> QED BY <1>6, <2>1, <2>2 DEF Respawn
<1>7. CASE Quit
  BY <1>7 DEF Quit, Exit, Gone
<1>8. CASE QuitDone \/ Drained \/ LogFailure \/ Crash
  BY <1>8 DEF QuitDone, Drained, LogFailure, Crash, Exit, Gone
<1>9. ASSUME NEW s \in Signals, Signal(s), UNCHANGED <<childPidFile>>,
             script' # "idle" => ~ pidFile',
             pidFile' = pidFile
      PROVE  Findable'
  BY <1>9 DEF Signal, wrapperVars, Gone
<1>10. CASE \E s \in Signals : SignalWrapper(s)
  BY <1>9, <1>10 DEF SignalWrapper
<1>11. CASE ScriptStop
  <2>1. CASE pidFile
    <3>1. Signal("SIGTERM") /\ ~ pidFile' /\ UNCHANGED childPidFile
      BY <1>11, <2>1 DEF ScriptStop
    <3> QED BY <3>1 DEF Signal, wrapperVars, Gone
  <2>2. CASE ~ pidFile
    BY <1>11, <2>2 DEF ScriptStop, wrapperVars
  <2> QED BY <2>1, <2>2
<1>12. CASE ScriptStopChild
  BY <1>12 DEF ScriptStopChild, wrapperVars
<1>13. CASE \E g \in Gens, p \in Procs : Fork(g, p) \/ Die(g, p)
  BY <1>13 DEF Fork, Die, wrapperVars
<1>14. CASE UNCHANGED vars
  BY <1>14 DEF vars
<1> QED BY <1>1, <1>2, <1>3, <1>4, <1>5, <1>6, <1>7, <1>8, <1>10, <1>11,
           <1>12, <1>13, <1>14 DEF Next

\* While the wrapper is at work and nobody has asked it to stop, the child PID
\* file names its service, under every fault but a file that cannot be written.
THEOREM ScriptsFindService ==
    ASSUME "file" \notin Faults
    PROVE  Spec => []StopCanFind
<1>1. Init => Findable
  BY DEF Init, Findable, StopCanFind, Ready
<1>2. IInv /\ Findable /\ [Next]_vars => Findable'
  BY FindableStep
<1>3. Findable => StopCanFind
  BY DEF Findable
<1> QED BY <1>1, <1>2, <1>3, InvariantHolds, PTL DEF Spec

-----------------------------------------------------------------------------
(* The safety part of the refinement: a wrapper that is not killed, and    *)
(* whose spawns and log files do not fail, takes the steps of a            *)
(* ServiceSupervisor.                                                      *)

\* The states of the supervisor.
Mode == IF wrapper = "down" THEN "off"
        ELSE IF quitting THEN "closing" ELSE "serving"
Alive == {x \in Gens \X Procs : IsLive(proc[x[1]][x[2]])}

\* The first spawn has been made.
Begun == wrapper = "up" \/ writing

\* No processes but those of the last spawn, and none without a wrapper; a
\* wrapper that has spawned waits for its service to end or for the timer, and
\* sets the timer only behind the end.
Supervising ==
    /\ \A g \in Gens : Live(g) # {} => g = gen /\ wrapper # "down" /\ Begun
    /\ Begun => childGroupId = gen /\ gen # 0
    /\ Begun /\ child = 0 => ~ IsLive(proc[gen][Leader])
    /\ Begun /\ ~ quitting => child # 0 \/ timer
    /\ child \in {0, gen}
    /\ timer => child = 0 /\ wrapper = "up"
    /\ wrapper = "boot" /\ ~ writing => childGroupId = 0

Tame == Faults \subseteq {"file"}

\* Processes are the same to the supervisor if they live on in the same group.
LEMMA SameAlive ==
    ASSUME \A g \in Gens : \A p \in Procs :
               IsLive(proc'[g][p]) <=> IsLive(proc[g][p])
    PROVE  /\ Alive' = Alive
           /\ \A g \in Gens : Live(g)' = Live(g)
BY DEF Alive, Live

\* Nothing begins before the app is opened.
LEMMA SupervisingInit == Init => Supervising
<1> SUFFICES ASSUME Init PROVE Supervising
  OBVIOUS
<1>1. \A g \in Gens : Live(g) = {}
  BY DEF Init, Live, IsLive
<1> QED BY <1>1 DEF Init, Supervising, Begun

\* A spawn begins the next epoch, alone: the group that is killed was the only
\* one left.
LEMMA SpawnBegins ==
    ASSUME IInv, Supervising, Spawned, ~ quitting,
           \/ wrapper = "boot" /\ ~ writing
           \/ wrapper = "up" /\ child = 0,
           timer' = FALSE
    PROVE  Supervising' /\ Supervisor!Begin
<1>1. proc \in ProcTable
  BY DEF IInv, TypeOK, ProcTable, ProcStates
<1>2. /\ gen + 1 \in Gens /\ gen \in Nat /\ gen' = gen + 1 /\ gen < MaxGen
      /\ childGroupId' = gen + 1 /\ child' = gen + 1 /\ writing'
      /\ UNCHANGED <<wrapper, quitting, pending>>
  BY DEF Spawned, IInv, TypeOK, Gens
<1>3. proc' = [Killed(childGroupId) EXCEPT ![gen + 1][Leader] = "up"]
  BY DEF Spawned, SpawnProc
<1>4. ASSUME NEW g \in Gens, NEW p \in Procs
      PROVE  ~ IsLive(Killed(childGroupId)[g][p])
  <2>1. CASE ~ IsLive(proc[g][p])
    BY <1>1, <2>1, KilledLive
  <2>2. CASE IsLive(proc[g][p])
    <3>1. g = gen /\ Begun
      BY <2>2 DEF Supervising, Live
    <3> QED BY <1>1, <3>1, KilledLive DEF Supervising
  <2> QED BY <2>1, <2>2
<1>5. \A g \in Gens : \A p \in Procs :
        IsLive(proc'[g][p]) <=> g = gen + 1 /\ p = Leader
  <2>1. Killed(childGroupId) \in ProcTable
    BY <1>1, KilledLive
  <2>2. IsLive("up")
    BY DEF IsLive
  <2> QED BY <1>2, <1>3, <1>4, <2>1, <2>2 DEF ProcTable
<1>6. Supervising'
  BY <1>2, <1>5 DEF Supervising, Begun, Live
<1>7. Alive' = {<<gen + 1, Leader>>}
  BY <1>2, <1>5 DEF Alive
<1>8. <<gen, Leader>> \notin Alive
  <2>1. CASE wrapper = "up" /\ child = 0
    BY <2>1 DEF Supervising, Begun, Alive
  <2>2. CASE wrapper = "boot" /\ ~ writing
    BY <2>2 DEF Supervising, Begun, Alive, Live
  <2> QED BY <2>1, <2>2
<1>9. Mode = "serving" /\ Mode' = "serving"
  BY <1>2 DEF Mode
<1> QED BY <1>2, <1>6, <1>7, <1>8, <1>9 DEF Supervisor!Begin, Mode, Alive

\* The end of quit() leaves nothing.
LEMMA QuitCloses ==
    ASSUME IInv, Supervising, QuitDone
    PROVE  Supervising' /\ Supervisor!Closed
<1>1. proc \in ProcTable /\ gen \in Nat /\ wrapper = "up"
  BY DEF IInv, TypeOK, ProcTable, ProcStates, QuitDone, Ready
<1>2. /\ proc' = Killed(childGroupId) /\ quitting /\ wrapper' = "down"
      /\ child' = 0 /\ ~ writing' /\ ~ timer' /\ gen' = gen /\ ~ quitting'
  BY DEF QuitDone, Gone
<1>3. ASSUME NEW g \in Gens, NEW p \in Procs PROVE ~ IsLive(proc'[g][p])
  <2>1. CASE ~ IsLive(proc[g][p])
    BY <1>1, <1>2, <2>1, KilledLive
  <2>2. CASE IsLive(proc[g][p])
    <3>1. g = gen /\ Begun
      BY <2>2 DEF Supervising, Live
    <3> QED BY <1>1, <1>2, <3>1, KilledLive DEF Supervising
  <2> QED BY <2>1, <2>2
<1>4. Supervising'
  BY <1>2, <1>3 DEF Supervising, Begun, Live
<1>5. Alive' = {}
  BY <1>3 DEF Alive
<1> QED BY <1>1, <1>2, <1>4, <1>5 DEF Supervisor!Closed, Alive

\* A service that has processes may get more of them.
LEMMA ForkGrows ==
    ASSUME IInv, Supervising, NEW g \in Gens, NEW p \in Procs, Fork(g, p)
    PROVE  Supervising' /\ Supervisor!Grow
<1>1. proc \in ProcTable
  BY DEF IInv, TypeOK, ProcTable, ProcStates
<1>2. /\ Live(g) # {} /\ p # Leader /\ proc' = [proc EXCEPT ![g][p] = "up"]
      /\ UNCHANGED wrapperVars
  BY DEF Fork
<1>3. g = gen /\ Begun
  BY <1>2 DEF Supervising
<1>4. \A h \in Gens : \A q \in Procs :
        IsLive(proc'[h][q]) <=> IsLive(proc[h][q]) \/ (h = g /\ q = p)
  <2>1. IsLive("up")
    BY DEF IsLive
  <2> QED BY <1>1, <1>2, <2>1 DEF ProcTable
<1>5. Supervising'
  <2>1. \A h \in Gens : Live(h)' # {} => h = gen' /\ wrapper' # "down" /\ Begun'
    <3>1. ASSUME NEW h \in Gens, Live(h)' # {} PROVE Live(h) # {}
      BY <1>2, <1>4, <3>1 DEF Live
    <3> QED BY <1>2, <3>1 DEF Supervising, Begun, wrapperVars
  <2>2. ~ IsLive(proc[gen][Leader]) => ~ IsLive(proc'[gen][Leader])
    BY <1>2, <1>3, <1>4
  <2> QED BY <1>2, <2>1, <2>2 DEF Supervising, Begun, wrapperVars
<1>6. Alive' = Alive \cup {<<gen, p>>}
  BY <1>3, <1>4 DEF Alive
<1>7. Alive # {}
  <2>1. PICK q \in Procs : IsLive(proc[g][q])
    BY <1>2 DEF Live
  <2>2. <<g, q>> \in Alive
    BY <2>1 DEF Alive
  <2> QED BY <2>2
<1>8. UNCHANGED <<Mode, gen>>
  BY <1>2 DEF Mode, wrapperVars
<1> QED BY <1>2, <1>5, <1>6, <1>7, <1>8 DEF Supervisor!Grow, Alive, Mode

\* A process that ends is missed by nobody.
LEMMA DieShrinks ==
    ASSUME IInv, Supervising, NEW g \in Gens, NEW p \in Procs, Die(g, p)
    PROVE  Supervising' /\ Supervisor!Shrink
<1>1. proc \in ProcTable
  BY DEF IInv, TypeOK, ProcTable, ProcStates
<1>2. /\ IsLive(proc[g][p]) /\ proc' = [proc EXCEPT ![g][p] = "gone"]
      /\ UNCHANGED wrapperVars
  BY DEF Die
<1>3. \A h \in Gens : \A q \in Procs :
        IsLive(proc'[h][q]) <=> IsLive(proc[h][q]) /\ ~ (h = g /\ q = p)
  <2>1. ~ IsLive("gone")
    BY DEF IsLive
  <2> QED BY <1>1, <1>2, <2>1 DEF ProcTable
<1>4. Supervising'
  <2>1. \A h \in Gens : Live(h)' # {} => Live(h) # {}
    BY <1>3 DEF Live
  <2>2. Begun => gen \in Gens
    BY DEF Supervising, IInv, TypeOK, Gens
  <2> QED BY <1>2, <1>3, <2>1, <2>2 DEF Supervising, Begun, wrapperVars
<1>5. Alive' = Alive \ {<<g, p>>} /\ <<g, p>> \in Alive
  BY <1>2, <1>3 DEF Alive
<1>6. UNCHANGED <<Mode, gen>>
  BY <1>2 DEF Mode, wrapperVars
<1> QED BY <1>4, <1>5, <1>6 DEF Supervisor!Shrink, Alive, Mode

\* To open the app is to serve again, and nothing is left of earlier services.
LEMMA BootOpens ==
    ASSUME IInv, Supervising, Boot
    PROVE  Supervising' /\ Supervisor!Open
<1>1. /\ wrapper = "down" /\ wrapper' = "boot" /\ ~ quitting' /\ ~ timer'
      /\ childGroupId' = 0 /\ child' = 0 /\ ~ writing' /\ gen' = gen
      /\ proc' = proc
  BY DEF Boot
<1>2. \A g \in Gens : Live(g) = {}
  BY <1>1 DEF Supervising
<1>3. Alive = {} /\ Alive' = {}
  BY <1>1, <1>2 DEF Alive, Live
<1>4. Supervising'
  BY <1>1, <1>2 DEF Supervising, Begun, Live
<1> QED BY <1>1, <1>3, <1>4 DEF Supervisor!Open, Alive

\* The signals that handlers take, and that a script sends, are hidden.
LEMMA SignalHidden ==
    ASSUME Tame, Supervising, NEW s, Signal(s)
    PROVE  UNCHANGED <<wrapper, quitting, gen, base, childGroupId, child,
                       writing, timer>>
BY DEF Tame, Signal, wrapperVars

\* So is every step in which no process begins or ends and the wrapper neither
\* spawns, starts nor quits.
LEMMA Hidden ==
    ASSUME IInv, Supervising,
           \A g \in Gens : \A p \in Procs :
               IsLive(proc'[g][p]) <=> IsLive(proc[g][p]),
           UNCHANGED <<wrapper, quitting, gen, childGroupId, child, writing,
                       timer>>
    PROVE  Supervising' /\ UNCHANGED Supervisor!vars
<1>1. Alive' = Alive /\ \A g \in Gens : Live(g)' = Live(g)
  BY SameAlive
<1>2. Begun => gen \in Gens
  BY DEF Supervising, IInv, TypeOK, Gens
<1>3. Supervising'
  BY <1>1, <1>2, ProcsAssumption DEF Supervising, Begun
<1>4. UNCHANGED <<Mode, gen>>
  BY DEF Mode
<1> QED BY <1>1, <1>3, <1>4 DEF Supervisor!vars, Alive, Mode

\* Every step is one of the supervisor's, or hidden: one step per action.
LEMMA SupervisorStep ==
    ASSUME Tame, IInv, Supervising, [Next]_vars
    PROVE  Supervising' /\ [Supervisor!Next]_(Supervisor!vars)
<1> USE DEF Ready
<1>0. proc \in ProcTable /\ gen \in Nat /\ gen \in 0 .. MaxGen
  BY DEF IInv, TypeOK, ProcTable, ProcStates
<1>t. ASSUME NEW h
      PROVE  \A g \in Gens : \A p \in Procs :
                 IsLive(Terminated(h)[g][p]) <=> IsLive(proc[g][p])
  BY <1>0, TerminatedLive
<1>1. CASE OpenApp \/ ScriptOpen
  BY <1>1, BootOpens DEF OpenApp, ScriptOpen, Supervisor!Next
<1>2. CASE FirstSpawn
  <2>1. /\ Spawned /\ wrapper = "boot" /\ ~ writing /\ ~ quitting
        /\ timer' = FALSE
    BY <1>2 DEF FirstSpawn, SpawnFailed, Tame, Supervising, IInv,
                FlagsOfTheLiving, TypeOK
  <2> QED BY <2>1, SpawnBegins DEF Supervisor!Next
<1>3. CASE WriteChildPid
  <2>1. /\ wrapper' = "up" /\ wrapper # "down" /\ writing /\ ~ writing'
        /\ UNCHANGED <<quitting, gen, childGroupId, child, timer, proc>>
    BY <1>3 DEF WriteChildPid, IInv, FlagsOfTheLiving
  <2>2. Supervising'
    BY <2>1 DEF Supervising, Begun, Live
  <2>3. UNCHANGED <<Mode, gen, Alive>>
    BY <2>1 DEF Mode, Alive
  <2> QED BY <2>2, <2>3 DEF Supervisor!vars, Mode, Alive
<1>4. CASE ChildExit
  <2>1. /\ wrapper = "up" /\ ~ writing /\ child # 0 /\ child' = 0
        /\ proc[child][Leader] = "gone"
        /\ proc' = Terminated(childGroupId)
        /\ timer' = (timer \/ ~ quitting)
        /\ UNCHANGED <<wrapper, quitting, gen, childGroupId, writing>>
    BY <1>4 DEF ChildExit
  <2>2. Alive' = Alive /\ \A g \in Gens : Live(g)' = Live(g)
    BY <1>t, <2>1, SameAlive
  <2>3. ~ IsLive(proc'[gen][Leader])
    <3>1. child = gen /\ gen \in Gens
      BY <1>0, <2>1 DEF Supervising, Gens
    <3>2. ~ IsLive(proc[gen][Leader])
      BY <2>1, <3>1 DEF IsLive
    <3> QED BY <1>t, <2>1, <3>1, <3>2
  <2>4. Supervising'
    BY <2>1, <2>2, <2>3 DEF Supervising, Begun
  <2>5. UNCHANGED <<Mode, gen>>
    BY <2>1 DEF Mode
  <2> QED BY <2>2, <2>4, <2>5 DEF Supervisor!vars, Mode, Alive
<1>5. CASE Respawn
  <2>1. timer /\ ~ timer' /\ wrapper = "up" /\ child = 0
    BY <1>5 DEF Respawn, Supervising
  <2>2. CASE quitting
    <3>1. UNCHANGED <<wrapper, quitting, gen, childGroupId, child, writing,
                      proc>>
      BY <1>5, <2>2 DEF Respawn
    <3>2. Supervising'
      BY <2>1, <2>2, <3>1 DEF Supervising, Begun, Live
    <3>3. UNCHANGED <<Mode, gen, Alive>>
      BY <3>1 DEF Mode, Alive
    <3> QED BY <3>2, <3>3 DEF Supervisor!vars, Mode, Alive
  <2>3. CASE ~ quitting
    <3>1. Spawned
      BY <1>5, <2>3 DEF Respawn, SpawnFailed, Tame
    <3>2. timer' = FALSE
      BY <1>5 DEF Respawn
    <3> QED BY <2>1, <2>3, <3>1, <3>2, SpawnBegins DEF Supervisor!Next
  <2> QED BY <2>2, <2>3
<1>6. CASE Quit
  <2>1. Begun /\ childGroupId # 0 /\ wrapper = "up"
    BY <1>6 DEF Quit, Supervising, Begun
  <2>2. /\ quitting' = TRUE /\ proc' = Terminated(childGroupId)
        /\ UNCHANGED <<wrapper, gen, childGroupId, child, writing, timer>>
    BY <1>6, <2>1 DEF Quit
  <2>3. Alive' = Alive /\ \A g \in Gens : Live(g)' = Live(g)
    BY <1>t, <2>2, SameAlive
  <2>4. Supervising'
    <3>1. gen \in Gens
      BY <1>0, <2>1 DEF Supervising, Gens
    <3>2. IsLive(proc'[gen][Leader]) <=> IsLive(proc[gen][Leader])
      BY <1>t, <2>2, <3>1
    <3> QED BY <2>1, <2>2, <2>3, <3>2 DEF Supervising, Begun
  <2>5. CASE quitting
    <3>1. UNCHANGED <<Mode, gen>>
      BY <2>2, <2>5 DEF Mode
    <3> QED BY <2>3, <2>4, <3>1 DEF Supervisor!vars, Mode, Alive
  <2>6. CASE ~ quitting
    <3>1. Mode = "serving" /\ Mode' = "closing" /\ gen' = gen
      BY <2>1, <2>2, <2>6 DEF Mode
    <3>2. Supervisor!Close
      BY <2>3, <3>1 DEF Supervisor!Close, Mode, Alive
    <3> QED BY <2>4, <3>2 DEF Supervisor!Next
  <2> QED BY <2>5, <2>6
<1>7. CASE QuitDone
  BY <1>7, QuitCloses DEF Supervisor!Next
<1>8. ~ Drained /\ ~ LogFailure /\ ~ Crash
  BY DEF Drained, LogFailure, Crash, Tame, Supervising, Begun
<1>9. CASE \E s \in Signals : SignalWrapper(s)
  <2>1. PICK s \in Signals : SignalWrapper(s)
    BY <1>9
  <2>2. Signal(s) /\ proc' = proc
    BY <2>1 DEF SignalWrapper
  <2> QED BY <2>2, SignalHidden, Hidden
<1>10. CASE ScriptStop
  <2>1. Signal("SIGTERM") \/ UNCHANGED wrapperVars
    BY <1>10 DEF ScriptStop
  <2>2. UNCHANGED <<wrapper, quitting, gen, childGroupId, child, writing,
                    timer>>
    BY <2>1, SignalHidden DEF wrapperVars
  <2> QED BY <1>10, <2>2, Hidden DEF ScriptStop
<1>11. CASE ScriptStopChild
  BY <1>t, <1>11, Hidden DEF ScriptStopChild, wrapperVars
<1>12. ASSUME NEW g \in Gens, NEW p \in Procs, Fork(g, p) \/ Die(g, p)
       PROVE  Supervising' /\ [Supervisor!Next]_(Supervisor!vars)
  BY <1>12, ForkGrows, DieShrinks DEF Supervisor!Next
<1>13. CASE UNCHANGED vars
  BY <1>13, Hidden DEF vars
<1> QED BY <1>1, <1>2, <1>3, <1>4, <1>5, <1>6, <1>7, <1>8, <1>9, <1>10, <1>11,
           <1>12, <1>13 DEF Next

\* Epochs of the service never overlap, an app that is opened finds nothing of
\* an earlier one, and a quitting wrapper leaves nothing behind: the wrapper
\* implements the supervisor, for any service and any number of spawns.
THEOREM WrapperSupervises ==
    ASSUME Faults \subseteq {"file"}
    PROVE  Spec => Supervisor!Safety
<1>1. Tame
  BY DEF Tame
<1>2. Init => Supervisor!Init
  <2>1. Init => Alive = {}
    BY DEF Init, Alive, IsLive
  <2> QED BY <2>1 DEF Init, Supervisor!Init, Alive
<1>3. IInv /\ Supervising /\ [Next]_vars =>
          Supervising' /\ [Supervisor!Next]_(Supervisor!vars)
  BY <1>1, SupervisorStep
<1> QED BY <1>2, <1>3, SupervisingInit, InvariantHolds, PTL
        DEF Spec, Supervisor!Safety
=============================================================================
