--------------------------- MODULE StartNodesProofs ---------------------------
(* The safety of start-nodes.js, for any nodes and any number of runs.     *)
EXTENDS StartNodes, TLAPS

USE ManagersAssumption, MaxRunsAssumption

ProcTable == [Runs -> [Nodes -> NodeStates]]

\* A run is 0 only before the first one, a run that is still to come has
\* neither a script nor nodes, and the launcher of a run that goes on was not
\* cut off.
Fresh ==
    /\ LauncherAlive \/ phase \in {"exited", "stopped"} => run \in Runs
    /\ LauncherAlive => run \notin cut
    /\ \A r \in cut : r <= run
    /\ \A r \in Runs : r > run =>
          updater[r] = "none" /\ \A n \in Nodes : node[r][n] = "none"

\* Nodes come after the update only.
Order ==
    /\ phase = "updating" =>
          updater[run] # "none" /\ \A n \in Nodes : node[run][n] = "none"
    /\ phase \in {"launching", "running"} => updater[run] = "ok" /\ ~ timedOut

IInv == TypeOK /\ Fresh /\ Order /\ LaunchNeedsUpdate /\ NoUntendedNode

-----------------------------------------------------------------------------
(* What is done to processes.                                              *)

\* What is done to the nodes of a run spawns none of them, and revives none.
LEMMA NodeOps ==
    ASSUME NEW ns \in [Nodes -> NodeStates]
    PROVE  /\ StopAllProcesses(ns) \in [Nodes -> NodeStates]
           /\ Told(ns) \in [Nodes -> NodeStates]
           /\ Killed(ns) \in [Nodes -> NodeStates]
           /\ \A n \in Nodes :
                 /\ StopAllProcesses(ns)[n] = "none" <=> ns[n] = "none"
                 /\ Told(ns)[n] = "none" <=> ns[n] = "none"
                 /\ Killed(ns)[n] = "none" <=> ns[n] = "none"
                 /\ StopAllProcesses(ns)[n] # "up"
                 /\ Told(ns)[n] # "up"
                 /\ Killed(ns)[n] \notin {"up", "told"}
                 /\ StopAllProcesses(ns)[n] \in {"up", "told"} =>
                        ns[n] \in {"up", "told"}
BY DEF StopAllProcesses, Told, Killed, NodeStates

\* Killing an update makes none of one, nor a success of one.
LEMMA KillUpdateOps ==
    ASSUME NEW u \in Updaters
    PROVE  /\ KillUpdate(u) \in Updaters
           /\ KillUpdate(u) = "ok" <=> u = "ok"
           /\ KillUpdate(u) = "none" <=> u = "none"
BY DEF KillUpdate, Updaters

-----------------------------------------------------------------------------
\* The invariant holds initially.
LEMMA InitInv == Init => IInv
<1> SUFFICES ASSUME Init PROVE IInv
  OBVIOUS
<1>1. TypeOK
  <2>1. 0 \in 0 .. MaxRuns
    OBVIOUS
  <2>2. updater \in [Runs -> Updaters] /\ node \in [Runs -> [Nodes -> NodeStates]]
    BY DEF Init, Updaters, NodeStates
  <2> QED BY <2>1, <2>2 DEF Init, TypeOK, Phases, Codes
<1> QED BY <1>1 DEF Init, IInv, Fresh, Order, LaunchNeedsUpdate,
           NoUntendedNode, Started, LauncherAlive, Runs

\* A step preserves the invariant: one step of the proof per action.
LEMMA StepInv == IInv /\ [Next]_vars => IInv'
<1> SUFFICES ASSUME IInv, [Next]_vars PROVE IInv'
  OBVIOUS
<1> USE DEF IInv, Phases, Updaters, Codes
<1>1. CASE Start
  <2>1. run + 1 \in Runs /\ run' = run + 1
    BY <1>1 DEF Start, TypeOK, Runs
  <2>2. PICK u \in {"running", "unspawned"} :
            updater' = [updater EXCEPT ![run + 1] = u]
    BY <1>1, <2>1 DEF Start
  <2>3. TypeOK'
    <3>0. safari' \in SUBSET Runs
      BY <1>1 DEF Start, KillStaleSafari, TypeOK
    <3>1. run' \in 0 .. MaxRuns
      BY <2>1 DEF Runs
    <3>2. updater' \in [Runs -> Updaters]
      BY <2>1, <2>2 DEF TypeOK
    <3> QED BY <1>1, <3>0, <3>1, <3>2 DEF Start, TypeOK
  <2>4. \A n \in Nodes : node[run + 1][n] = "none"
    BY <2>1 DEF Fresh, TypeOK, Runs
  <2>5. Fresh'
    BY <1>1, <2>1, <2>2 DEF Start, TypeOK, Fresh, Runs, LauncherAlive
  <2>6. Order'
    BY <1>1, <2>1, <2>2, <2>4 DEF Start, Order, TypeOK
  <2>7. LaunchNeedsUpdate'
    BY <1>1, <2>1, <2>2, <2>4 DEF Start, LaunchNeedsUpdate, Started, TypeOK
  <2>8. NoUntendedNode'
    BY <1>1 DEF Start, NoUntendedNode
  <2> QED BY <2>3, <2>5, <2>6, <2>7, <2>8
<1>2. ASSUME NEW r \in Runs, UpdateEnds(r) PROVE IInv'
  <2>1. PICK u \in {"ok", "bad"} : updater' = [updater EXCEPT ![r] = u]
    BY <1>2 DEF UpdateEnds
  <2>2. /\ updater[r] = "running"
        /\ UNCHANGED <<run, phase, timedOut, node, exitCode, cut>>
    BY <1>2 DEF UpdateEnds
  <2>3. TypeOK'
    BY <1>2, <2>1 DEF UpdateEnds, TypeOK
  <2>4. Fresh' /\ Order'
    BY <2>1, <2>2 DEF Fresh, Order, TypeOK, LauncherAlive
  <2>5. LaunchNeedsUpdate' /\ NoUntendedNode'
    BY <2>1, <2>2 DEF LaunchNeedsUpdate, NoUntendedNode, Started, TypeOK
  <2> QED BY <2>3, <2>4, <2>5
<1>3. CASE UpdateTimeout
  <2>1. run \in Runs /\ updater[run] \in Updaters
    BY <1>3 DEF UpdateTimeout, Fresh, LauncherAlive, TypeOK
  <2>2. TypeOK'
    BY <1>3, <2>1, KillUpdateOps DEF UpdateTimeout, TypeOK
  <2>3. Fresh' /\ Order' /\ NoUntendedNode'
    BY <1>3, <2>1, KillUpdateOps DEF UpdateTimeout, Fresh, Order,
       NoUntendedNode, TypeOK, LauncherAlive, Runs
  <2>4. LaunchNeedsUpdate'
    BY <1>3, <2>1, KillUpdateOps
    DEF UpdateTimeout, LaunchNeedsUpdate, Order, Started, TypeOK
  <2> QED BY <2>2, <2>3, <2>4
<1>4. CASE UpdateRejected \/ ConfigRejected
  <2>1. ExitBeforeLaunch("1") /\ phase = "updating" /\ run \in Runs
    BY <1>4 DEF UpdateRejected, ConfigRejected, Fresh, LauncherAlive
  <2>2. TypeOK'
    BY <2>1 DEF ExitBeforeLaunch, TypeOK
  <2>3. Fresh' /\ Order' /\ LaunchNeedsUpdate' /\ NoUntendedNode'
    BY <2>1 DEF ExitBeforeLaunch, Fresh, Order, LaunchNeedsUpdate,
                NoUntendedNode, Started, LauncherAlive
  <2> QED BY <2>2, <2>3
<1>5. CASE ConfigRead
  <2>1. run \in Runs /\ updater[run] = "ok" /\ ~ timedOut
    BY <1>5 DEF ConfigRead, UpdateFailed, Fresh, Order, LauncherAlive, TypeOK
  <2>2. TypeOK'
    BY <1>5 DEF ConfigRead, TypeOK
  <2>3. Fresh' /\ Order' /\ LaunchNeedsUpdate' /\ NoUntendedNode'
    BY <1>5, <2>1 DEF ConfigRead, Fresh, Order, LaunchNeedsUpdate,
                      NoUntendedNode, Started, LauncherAlive
  <2> QED BY <2>2, <2>3
<1>6. ASSUME NEW n \in Nodes, Spawn(n) PROVE IInv'
  <2>1. PICK s \in {"up", "unspawned"} : node' = [node EXCEPT ![run][n] = s]
    BY <1>6 DEF Spawn
  <2>2. run \in Runs /\ phase = "launching"
    BY <1>6 DEF Spawn, Fresh, LauncherAlive
  <2>3. TypeOK'
    <3>1. node' \in [Runs -> [Nodes -> NodeStates]]
      BY <2>1, <2>2 DEF TypeOK, NodeStates
    <3> QED BY <1>6, <3>1 DEF Spawn, TypeOK
  <2>4. Fresh'
    BY <1>6, <2>1, <2>2 DEF Spawn, Fresh, TypeOK, LauncherAlive, Runs
  <2>5. Order' /\ NoUntendedNode'
    BY <1>6, <2>2 DEF Spawn, Order, NoUntendedNode
  <2>6. LaunchNeedsUpdate'
    BY <1>6, <2>1, <2>2
    DEF Spawn, LaunchNeedsUpdate, Order, Started, TypeOK
  <2> QED BY <2>3, <2>4, <2>5, <2>6
<1>7. CASE Launched
  <2>1. TypeOK'
    BY <1>7 DEF Launched, TypeOK
  <2>2. Fresh' /\ Order' /\ LaunchNeedsUpdate' /\ NoUntendedNode'
    BY <1>7 DEF Launched, Fresh, Order, LaunchNeedsUpdate, NoUntendedNode,
                Started, LauncherAlive
  <2> QED BY <2>1, <2>2
<1>8. ASSUME NEW r \in Runs, NEW n \in Nodes, NodeEnds(r, n) PROVE IInv'
  <2>1. /\ node[r][n] \in {"up", "told"}
        /\ node' = [node EXCEPT ![r][n] = "gone"]
        /\ UNCHANGED <<run, phase, updater, timedOut, exitCode, cut>>
    BY <1>8 DEF NodeEnds, Live
  <2>2. TypeOK'
    <3>1. node' \in [Runs -> [Nodes -> NodeStates]]
      BY <2>1 DEF TypeOK, NodeStates
    <3> QED BY <1>8, <3>1 DEF NodeEnds, TypeOK
  <2>3. \A q \in Runs : \A m \in Nodes :
           /\ node'[q][m] = "none" <=> node[q][m] = "none"
           /\ node'[q][m] = "up" => node[q][m] = "up"
    BY <2>1 DEF TypeOK
  <2>4. run \in Runs \/ phase \in {"down", "stopped"}
    BY DEF Fresh, LauncherAlive, TypeOK
  <2>5. Fresh' /\ Order' /\ LaunchNeedsUpdate' /\ NoUntendedNode'
    BY <2>1, <2>3, <2>4 DEF Fresh, Order, LaunchNeedsUpdate, NoUntendedNode,
                            Started, LauncherAlive, Runs
  <2> QED BY <2>2, <2>5
<1>9. CASE NodeLost \/ DailyRestart \/ Quit \/ NothingToDo
  <2>1. PICK code \in {"0", "1", "2"} : ExitAfterLaunch(code)
    BY <1>9 DEF NodeLost, DailyRestart, Quit, NothingToDo
  <2>2. run \in Runs /\ phase = "running" /\ node[run] \in [Nodes -> NodeStates]
    BY <1>9 DEF NodeLost, DailyRestart, Quit, NothingToDo, Fresh,
                LauncherAlive, TypeOK
  <2>3. node' = [node EXCEPT ![run] = StopAllProcesses(node[run])]
    BY <2>1 DEF ExitAfterLaunch
  <2>4. node' \in [Runs -> [Nodes -> NodeStates]]
    BY <2>2, <2>3, NodeOps DEF TypeOK
  <2>5. TypeOK'
    BY <2>1, <2>4 DEF ExitAfterLaunch, TypeOK
  <2>6. \A q \in Runs : \A m \in Nodes :
           /\ node'[q][m] = "none" <=> node[q][m] = "none"
           /\ q = run => node'[q][m] # "up"
    BY <2>2, <2>3, NodeOps DEF TypeOK
  <2>7. Fresh' /\ Order' /\ LaunchNeedsUpdate' /\ NoUntendedNode'
    BY <2>1, <2>2, <2>6 DEF ExitAfterLaunch, Fresh, Order, LaunchNeedsUpdate,
                            NoUntendedNode, Started, LauncherAlive
  <2> QED BY <2>5, <2>7
<1>10. CASE OperatorTerm
  <2>1. /\ TermLauncher /\ UNCHANGED <<manager, run, updater, timedOut, node,
                                        stopping, safari, cut>>
        /\ LauncherAlive /\ run \in Runs
    BY <1>10 DEF OperatorTerm, Fresh
  <2>2. TypeOK'
    BY <2>1 DEF TermLauncher, TypeOK
  <2>3. Fresh' /\ Order' /\ LaunchNeedsUpdate' /\ NoUntendedNode'
    BY <2>1 DEF TermLauncher, Fresh, Order, LaunchNeedsUpdate, NoUntendedNode,
                Started, LauncherAlive
  <2> QED BY <2>2, <2>3
<1>11. CASE Crash \/ SpawnThrows
  <2>1. /\ UNCHANGED <<manager, run, updater, timedOut, node, stopping, safari>>
        /\ LauncherAlive /\ run \in Runs /\ phase' = "exited"
        /\ cut' = cut \cup {run} /\ toSpawn' = {} /\ daily' = FALSE
        /\ exitCode' \in Codes /\ sigterm' \in BOOLEAN
    BY <1>11 DEF Crash, SpawnThrows, Fresh, LauncherAlive, TypeOK
  <2>2. TypeOK'
    BY <2>1 DEF TypeOK
  <2>3. \A r \in cut' : r <= run'
    BY <2>1 DEF Fresh, Runs
  <2>4. Fresh' /\ Order' /\ LaunchNeedsUpdate' /\ NoUntendedNode'
    BY <2>1, <2>3 DEF Fresh, Order, LaunchNeedsUpdate, NoUntendedNode,
                      Started, LauncherAlive
  <2> QED BY <2>2, <2>4
<1>12. CASE StopService
  <2>1. /\ LauncherAlive /\ run \in Runs
        /\ UNCHANGED <<manager, run, timedOut, safari, cut>>
        /\ node[run] \in [Nodes -> NodeStates] /\ updater[run] \in Updaters
    BY <1>12 DEF StopService, Fresh, TypeOK
  <2>2. \/ node' = [node EXCEPT ![run] = Killed(node[run])]
        \/ node' = [node EXCEPT ![run] = Told(node[run])]
    BY <1>12 DEF StopService
  <2>3. node' \in [Runs -> [Nodes -> NodeStates]]
    BY <2>1, <2>2, NodeOps DEF TypeOK
  <2>4. \/ updater' = updater
        \/ updater' = [updater EXCEPT ![run] = KillUpdate(updater[run])]
    BY <1>12 DEF StopService
  <2>5. updater' \in [Runs -> Updaters]
    BY <2>1, <2>4, KillUpdateOps DEF TypeOK
  <2>6. /\ phase' \in {phase, "exited"}
        /\ phase' = "exited" => exitCode' = "signal"
        /\ phase' # "exited" => exitCode' = exitCode
        /\ exitCode' \in Codes /\ daily' \in BOOLEAN /\ sigterm' \in BOOLEAN
        /\ toSpawn' \in SUBSET Nodes /\ stopping' \in BOOLEAN
    BY <1>12, <2>1 DEF StopService, TermLauncher, TypeOK, LauncherAlive
  <2>7. TypeOK'
    BY <2>1, <2>3, <2>5, <2>6 DEF TypeOK
  <2>8. \A q \in Runs :
           /\ \A m \in Nodes : node'[q][m] = "none" <=> node[q][m] = "none"
           /\ updater'[q] = "ok" <=> updater[q] = "ok"
           /\ updater'[q] = "none" <=> updater[q] = "none"
    BY <2>1, <2>2, <2>4, NodeOps, KillUpdateOps DEF TypeOK
  <2>9. Fresh' /\ Order' /\ LaunchNeedsUpdate' /\ NoUntendedNode'
    BY <2>1, <2>6, <2>8 DEF Fresh, Order, LaunchNeedsUpdate, NoUntendedNode,
                            Started, LauncherAlive
  <2> QED BY <2>7, <2>9
<1>13. CASE Collect
  <2>1. /\ phase = "exited" /\ run \in Runs
        /\ UNCHANGED <<run, timedOut, exitCode, cut>>
        /\ node[run] \in [Nodes -> NodeStates] /\ updater[run] \in Updaters
        /\ phase' \in {"stopped", "down"}
    BY <1>13 DEF Collect, Fresh, TypeOK
  <2>2. \/ node' = node
        \/ node' = [node EXCEPT ![run] = Killed(node[run])]
    BY <1>13 DEF Collect
  <2>3. node' \in [Runs -> [Nodes -> NodeStates]]
    BY <2>1, <2>2, NodeOps DEF TypeOK
  <2>4. \/ updater' = updater
        \/ updater' = [updater EXCEPT ![run] = KillUpdate(updater[run])]
    BY <1>13 DEF Collect
  <2>5. updater' \in [Runs -> Updaters]
    BY <2>1, <2>4, KillUpdateOps DEF TypeOK
  <2>6. TypeOK'
    BY <1>13, <2>1, <2>3, <2>5 DEF Collect, TypeOK
  <2>7. \A q \in Runs :
           /\ \A m \in Nodes : node'[q][m] = "none" <=> node[q][m] = "none"
           /\ updater'[q] = "ok" <=> updater[q] = "ok"
           /\ updater'[q] = "none" <=> updater[q] = "none"
    BY <2>1, <2>2, <2>4, NodeOps, KillUpdateOps DEF TypeOK
  <2>8. Fresh' /\ Order' /\ LaunchNeedsUpdate' /\ NoUntendedNode'
    BY <2>1, <2>7 DEF Fresh, Order, LaunchNeedsUpdate, NoUntendedNode,
                      Started, LauncherAlive
  <2> QED BY <2>6, <2>8
<1>14. CASE StartService
  <2>1. TypeOK'
    BY <1>14 DEF StartService, TypeOK
  <2>2. Fresh' /\ Order' /\ LaunchNeedsUpdate' /\ NoUntendedNode'
    BY <1>14 DEF StartService, Fresh, Order, LaunchNeedsUpdate, NoUntendedNode,
                 Started, LauncherAlive
  <2> QED BY <2>1, <2>2
<1>15. CASE UNCHANGED vars
  <2>1. TypeOK'
    BY <1>15 DEF vars, TypeOK
  <2>2. Fresh' /\ Order' /\ LaunchNeedsUpdate' /\ NoUntendedNode'
    BY <1>15 DEF vars, Fresh, Order, LaunchNeedsUpdate, NoUntendedNode,
                 Started, LauncherAlive
  <2> QED BY <2>1, <2>2
<1>16. ASSUME NEW r \in Runs, SafariOpens(r) \/ SafariEnds(r) PROVE IInv'
  <2>1. TypeOK'
    BY <1>16 DEF SafariOpens, SafariEnds, TypeOK
  <2>2. Fresh' /\ Order' /\ LaunchNeedsUpdate' /\ NoUntendedNode'
    BY <1>16 DEF SafariOpens, SafariEnds, Fresh, Order, LaunchNeedsUpdate,
                 NoUntendedNode, Started, LauncherAlive
  <2> QED BY <2>1, <2>2
<1> QED BY <1>1, <1>2, <1>3, <1>4, <1>5, <1>6, <1>7, <1>8, <1>9, <1>10, <1>11,
           <1>12, <1>13, <1>14, <1>15, <1>16 DEF Next, Settle, Launch, Event

\* The inductive invariant holds of every behaviour.
THEOREM InvariantHolds == Spec => []IInv
BY InitInv, StepInv, PTL DEF Spec

\* Every variable keeps its type.
THEOREM TypeCorrect == Spec => []TypeOK
<1>1. IInv => TypeOK
  BY DEF IInv
<1> QED BY InvariantHolds, <1>1, PTL

\* No node is launched by a run whose driver update failed or was timed out.
THEOREM LaunchAfterUpdate == Spec => []LaunchNeedsUpdate
<1>1. IInv => LaunchNeedsUpdate
  BY DEF IInv
<1> QED BY InvariantHolds, <1>1, PTL

\* A launcher that has spawned all its nodes has told every one of them to
\* stop when it exits, however it comes to that.
THEOREM ExitTellsNodes == Spec => []NoUntendedNode
<1>1. IInv => NoUntendedNode
  BY DEF IInv
<1> QED BY InvariantHolds, <1>1, PTL

-----------------------------------------------------------------------------
(* Nothing of a run outlives it, but for what WinSW, which cleans up       *)
(* nothing, has lost of a run that was cut off.                            *)

\* Only the current run has node processes, and it has none any more once the
\* manager has seen its end.
NoLeftovers ==
    /\ \A r \in Runs :
          Live(r) # {} /\ ~ Lost(r) => r = run /\ phase \notin {"down", "stopped"}
    /\ manager = "winsw" =>
          /\ phase = "exited" /\ ~ Lost(run) => Live(run) = {}
          /\ \A r \in Runs : \A n \in Nodes : node[r][n] # "told"

\* The same of driver updates, where the manager can find them.
OwnUpdate ==
    manager # "logwrapper" =>
        \A r \in Runs : updater[r] = "running" /\ ~ Lost(r) =>
            /\ r = run /\ phase \notin {"down", "stopped"}
            /\ ~ (manager = "winsw" /\ phase = "exited")

\* Only on macOS Safari is opened for automation.
NoOtherSafari == manager # "logwrapper" => safari = {}

CInv == NoLeftovers /\ OwnUpdate /\ NoOtherSafari /\ NoStaleSafari

\* An update that a step kills, or that succeeds or fails, was running before.
LEMMA NoUpdateBorn ==
    ASSUME OwnUpdate, manager' = manager, run' = run, cut' = cut,
           phase' \in {"down", "stopped"} => phase' = phase,
           manager = "winsw" /\ phase' = "exited" =>
               \/ phase = "exited"
               \/ \A r \in Runs : updater'[r] = "running" => Lost(r),
           \A r \in Runs : updater'[r] = "running" => updater[r] = "running"
    PROVE  OwnUpdate'
BY DEF OwnUpdate, Lost

\* A step that spawns no node and ends no run, or whose run has none left.
LEMMA NoNodeBorn ==
    ASSUME NoLeftovers, manager' = manager, run' = run, cut' = cut,
           phase' \in {"down", "stopped"} => phase' = phase,
           manager = "winsw" /\ phase' = "exited" =>
               \/ phase = "exited"
               \/ \A n \in Nodes : node'[run][n] \notin {"up", "told"},
           \A r \in Runs : \A n \in Nodes :
               node'[r][n] \in {"up", "told"} => node[r][n] \in {"up", "told"},
           manager = "winsw" => \A r \in Runs : \A n \in Nodes :
               node'[r][n] = "told" => node[r][n] = "told",
           run \in Runs \/ phase' # "exited"
    PROVE  NoLeftovers'
BY DEF NoLeftovers, Live, Lost

\* A step that opens no Safari and starts no run.
LEMMA NoSafariOpened ==
    ASSUME NoOtherSafari, NoStaleSafari, safari' \subseteq safari,
           manager' = manager, run' = run,
           LauncherAlive' => LauncherAlive
    PROVE  NoOtherSafari' /\ NoStaleSafari'
BY DEF NoOtherSafari, NoStaleSafari

\* A step keeps the past gone: one step of the proof per action.
LEMMA CleanStep == IInv /\ CInv /\ [Next]_vars => CInv'
<1> SUFFICES ASSUME IInv, CInv, [Next]_vars PROVE CInv'
  OBVIOUS
<1> USE DEF CInv
<1>0. TypeOK /\ Fresh /\ Order
  BY DEF IInv
<1>1. CASE Start
  <2>1. run + 1 \in Runs /\ run' = run + 1 /\ phase = "down"
        /\ phase' = "updating" /\ UNCHANGED <<manager, node, cut>>
    BY <1>0, <1>1 DEF Start, TypeOK, Runs
  <2>2. PICK u \in {"running", "unspawned"} :
            updater' = [updater EXCEPT ![run + 1] = u]
    BY <1>1, <2>1 DEF Start
  <2>3. NoLeftovers'
    BY <2>1 DEF NoLeftovers, Live, Lost
  <2>4. OwnUpdate'
    BY <1>0, <2>1, <2>2 DEF OwnUpdate, Lost, TypeOK
  <2>5. safari' = {}
    BY <1>1 DEF Start, KillStaleSafari, NoOtherSafari
  <2> QED BY <2>3, <2>4, <2>5 DEF NoOtherSafari, NoStaleSafari
<1>2. ASSUME NEW n \in Nodes, Spawn(n) PROVE CInv'
  <2>1. /\ phase = "launching" /\ phase' = phase /\ run' = run
        /\ UNCHANGED <<manager, updater, safari, cut>>
        /\ \E s \in {"up", "unspawned"} : node' = [node EXCEPT ![run][n] = s]
    BY <1>2 DEF Spawn
  <2>2. \A r \in Runs \ {run} : node'[r] = node[r]
    BY <1>0, <2>1 DEF TypeOK
  <2>3. NoLeftovers'
    BY <2>1, <2>2 DEF NoLeftovers, Live, Lost
  <2> QED BY <2>1, <2>3, NoUpdateBorn, NoSafariOpened DEF LauncherAlive
<1>3. ASSUME NEW r \in Runs, NEW n \in Nodes, NodeEnds(r, n) PROVE CInv'
  <2>1. \A q \in Runs : \A m \in Nodes :
            /\ node'[q][m] \in {"up", "told"} => node[q][m] \in {"up", "told"}
            /\ node'[q][m] = "told" => node[q][m] = "told"
    BY <1>0, <1>3 DEF NodeEnds, TypeOK
  <2>2. UNCHANGED <<manager, run, phase, updater, safari, cut>>
    BY <1>3 DEF NodeEnds
  <2>3. run \in Runs \/ phase # "exited"
    BY <1>0 DEF Fresh
  <2> QED BY <2>1, <2>2, <2>3, NoNodeBorn, NoUpdateBorn, NoSafariOpened
          DEF LauncherAlive
<1>4. CASE NodeLost \/ DailyRestart \/ Quit \/ NothingToDo
  <2>1. PICK code \in {"0", "1", "2"} : ExitAfterLaunch(code)
    BY <1>4 DEF NodeLost, DailyRestart, Quit, NothingToDo
  <2>2. /\ run \in Runs /\ node[run] \in [Nodes -> NodeStates]
        /\ phase = "running" /\ updater[run] = "ok"
    BY <1>0, <1>4 DEF NodeLost, DailyRestart, Quit, NothingToDo, Fresh, Order,
                      LauncherAlive, TypeOK
  <2>3. /\ phase' = "exited"
        /\ UNCHANGED <<manager, run, updater, safari, cut>>
        /\ node' = [node EXCEPT ![run] = StopAllProcesses(node[run])]
    BY <2>1 DEF ExitAfterLaunch
  <2>4. \A q \in Runs : \A m \in Nodes :
            node'[q][m] \in {"up", "told"} => node[q][m] \in {"up", "told"}
    BY <1>0, <2>2, <2>3, NodeOps DEF TypeOK
  <2>5. manager = "winsw" =>
            /\ \A m \in Nodes : node'[run][m] \notin {"up", "told"}
            /\ \A q \in Runs : \A m \in Nodes :
                   node'[q][m] = "told" => node[q][m] = "told"
    BY <1>0, <2>2, <2>3 DEF StopAllProcesses, TypeOK, NoLeftovers
  <2>6. manager = "winsw" => \A r \in Runs : updater[r] = "running" => Lost(r)
    BY <2>2 DEF OwnUpdate
  <2> QED BY <2>2, <2>3, <2>4, <2>5, <2>6, NoNodeBorn, NoUpdateBorn,
             NoSafariOpened DEF LauncherAlive
<1>5. CASE StopService
  <2>1. /\ LauncherAlive /\ run \in Runs /\ node[run] \in [Nodes -> NodeStates]
        /\ updater[run] \in Updaters /\ UNCHANGED <<manager, run, safari, cut>>
        /\ phase' = phase \/ phase' = "exited"
    BY <1>0, <1>5 DEF StopService, TermLauncher, Fresh, TypeOK
  <2>2. /\ manager = "winsw" =>
               node' = [node EXCEPT ![run] = Killed(node[run])]
        /\ manager # "winsw" =>
               node' = [node EXCEPT ![run] = Told(node[run])]
    BY <1>5 DEF StopService
  <2>3. \A q \in Runs : \A m \in Nodes :
            node'[q][m] \in {"up", "told"} => node[q][m] \in {"up", "told"}
    BY <1>0, <2>1, <2>2 DEF Told, Killed, TypeOK
  <2>4. manager = "winsw" =>
            /\ \A m \in Nodes : node'[run][m] \notin {"up", "told"}
            /\ \A q \in Runs : \A m \in Nodes :
                   node'[q][m] = "told" => node[q][m] = "told"
    BY <1>0, <2>1, <2>2 DEF Killed, TypeOK
  <2>5. NoLeftovers'
    BY <2>1, <2>3, <2>4, NoNodeBorn DEF LauncherAlive
  <2>6. manager # "logwrapper" =>
            updater' = [updater EXCEPT ![run] = KillUpdate(updater[run])]
    BY <1>5 DEF StopService
  <2>7. OwnUpdate'
    BY <1>0, <2>1, <2>6 DEF OwnUpdate, Lost, KillUpdate, TypeOK, LauncherAlive
  <2> QED BY <2>1, <2>5, <2>7, NoSafariOpened DEF LauncherAlive
<1>6. CASE Collect
  <2>1. /\ phase = "exited" /\ run \in Runs /\ phase' \in {"down", "stopped"}
        /\ node[run] \in [Nodes -> NodeStates] /\ updater[run] \in Updaters
        /\ UNCHANGED <<manager, run, safari, cut>>
    BY <1>0, <1>6 DEF Collect, Fresh, TypeOK
  <2>2. /\ manager = "winsw" => node' = node
        /\ manager # "winsw" =>
               node' = [node EXCEPT ![run] = Killed(node[run])]
    BY <1>6 DEF Collect
  <2>3. \A q \in Runs : \A m \in Nodes :
            node'[q][m] \in {"up", "told"} => Lost(q)
    BY <1>0, <2>1, <2>2 DEF Killed, TypeOK, NoLeftovers, Live, Lost
  <2>4. manager = "winsw" =>
            \A q \in Runs : \A m \in Nodes : node'[q][m] # "told"
    BY <2>2 DEF NoLeftovers
  <2>5. NoLeftovers'
    BY <2>1, <2>3, <2>4 DEF NoLeftovers, Live, Lost
  <2>6. /\ manager = "systemd" =>
               updater' = [updater EXCEPT ![run] = KillUpdate(updater[run])]
        /\ manager = "winsw" => updater' = updater
    BY <1>6 DEF Collect
  <2>7. manager # "logwrapper" => manager \in {"systemd", "winsw"}
    BY <1>0 DEF TypeOK, AllManagers
  <2>8. manager # "logwrapper" =>
            \A q \in Runs : updater'[q] = "running" => Lost(q)
    BY <1>0, <2>1, <2>6, <2>7 DEF OwnUpdate, KillUpdate, TypeOK, Lost
  <2>9. OwnUpdate'
    BY <2>1, <2>8 DEF OwnUpdate, Lost
  <2> QED BY <2>1, <2>5, <2>9, NoSafariOpened DEF LauncherAlive
<1>7. ASSUME NEW r \in Runs, SafariOpens(r) PROVE CInv'
  <2>1. /\ UNCHANGED <<manager, run, phase, updater, node, cut>>
        /\ manager = "logwrapper" /\ r = run /\ safari' = safari \cup {r}
    BY <1>7 DEF SafariOpens, NoLeftovers, Lost
  <2>2. NoLeftovers' /\ OwnUpdate'
    BY <2>1 DEF NoLeftovers, OwnUpdate, Live, Lost
  <2> QED BY <2>1, <2>2 DEF NoOtherSafari, NoStaleSafari, LauncherAlive
<1>8. ASSUME /\ UNCHANGED <<manager, run, node>> /\ safari' \subseteq safari
             /\ LauncherAlive' => LauncherAlive
             /\ cut \subseteq cut'
             /\ phase' \in {"down", "stopped"} => phase \in {"down", "stopped"}
             /\ manager = "winsw" /\ phase' = "exited" =>
                    phase \in {"exited", "updating"} \/ run \in cut'
             /\ \A r \in Runs : updater'[r] = "running" =>
                    /\ updater[r] = "running"
                    /\ manager = "winsw" /\ phase' = "exited" =>
                           phase = "exited" \/ run \in cut' \/ r \in cut'
      PROVE  CInv'
  <2>1. \A r \in Runs : Lost(r) => Lost(r)'
    BY <1>8 DEF Lost
  <2>2. NoLeftovers'
    BY <1>0, <1>8, <2>1 DEF NoLeftovers, Live, Order, Lost
  <2>3. OwnUpdate'
    BY <1>8, <2>1 DEF OwnUpdate, Lost
  <2> QED BY <1>8, <2>2, <2>3, NoSafariOpened
<1>9. CASE UpdateRejected \/ ConfigRejected
  <2>1. /\ ExitBeforeLaunch("1") /\ phase = "updating" /\ run \in Runs
        /\ updater[run] # "running"
    BY <1>0, <1>9 DEF UpdateRejected, ConfigRejected, Fresh, LauncherAlive
  <2>2. manager = "winsw" =>
            \A r \in Runs : updater[r] = "running" => r \in cut
    BY <2>1 DEF OwnUpdate, Lost
  <2> QED BY <1>8, <2>1, <2>2 DEF ExitBeforeLaunch, LauncherAlive
<1>10. ASSUME NEW r \in Runs, UpdateEnds(r) PROVE CInv'
  <2>1. \A q \in Runs : updater'[q] = "running" => updater[q] = "running"
    BY <1>0, <1>10 DEF UpdateEnds, TypeOK
  <2> QED BY <1>8, <1>10, <2>1 DEF UpdateEnds, LauncherAlive
<1>11. CASE UpdateTimeout
  <2>1. \A q \in Runs : updater'[q] = "running" => updater[q] = "running"
    BY <1>0, <1>11 DEF UpdateTimeout, KillUpdate, TypeOK
  <2> QED BY <1>8, <1>11, <2>1 DEF UpdateTimeout, LauncherAlive
<1>12. CASE ConfigRead \/ Launched \/ StartService \/ UNCHANGED vars
             \/ \E r \in Runs : SafariEnds(r)
  BY <1>8, <1>12 DEF ConfigRead, Launched, StartService, vars, SafariEnds,
     LauncherAlive
<1>13. CASE OperatorTerm \/ Crash \/ SpawnThrows
  <2>1. /\ LauncherAlive /\ cut \subseteq cut'
        /\ manager # "winsw" \/ run \in cut'
        /\ UNCHANGED <<manager, run, node, updater, safari>>
        /\ phase' = phase \/ phase' = "exited"
    BY <1>13 DEF OperatorTerm, Crash, SpawnThrows, TermLauncher, LauncherAlive
  <2> QED BY <1>8, <2>1 DEF LauncherAlive
<1> QED BY <1>1, <1>2, <1>3, <1>4, <1>5, <1>6, <1>7, <1>9, <1>10, <1>11, <1>12,
           <1>13 DEF Next, Settle, Launch, Event

\* What CInv says holds of every behaviour.
LEMMA CleanHolds == Spec => []CInv
<1>1. Init => CInv
  BY DEF Init, CInv, NoLeftovers, OwnUpdate, NoOtherSafari, NoStaleSafari,
         Live, LauncherAlive
<1>2. IInv /\ CInv /\ [Next]_vars => CInv'
  BY CleanStep
<1> QED BY InvariantHolds, <1>1, <1>2, PTL DEF Spec

\* No two runs have nodes at the same time, whether launchers crash, spawns
\* throw or nodes ignore what they are told, but for what WinSW has lost.
THEOREM NodesOfOneRun == Spec => []OneSetOfNodes
<1>1. CInv => OneSetOfNodes
  BY DEF CInv, NoLeftovers, OneSetOfNodes
<1> QED BY CleanHolds, <1>1, PTL

\* A stopped service has neither nodes nor, but under log-wrapper, a driver
\* update left that WinSW has not lost.
THEOREM StopIsClean == Spec => []StopLeavesNothing
<1>1. CInv => StopLeavesNothing
  BY DEF CInv, NoLeftovers, OwnUpdate, StopLeavesNothing
<1> QED BY CleanHolds, <1>1, PTL

\* Driver updates never overlap, but under log-wrapper or if WinSW has lost one.
THEOREM UpdatesOfOneRun == Spec => []OneUpdate
<1>1. CInv => OneUpdate
  BY DEF CInv, OwnUpdate, OneUpdate
<1> QED BY CleanHolds, <1>1, PTL

\* A run never meets a Safari that an earlier run has left under automation.
THEOREM FreshSafari == Spec => []NoStaleSafari
<1>1. CInv => NoStaleSafari
  BY DEF CInv
<1> QED BY CleanHolds, <1>1, PTL

\* Nothing at all is left of a stopped service under systemd, which finds every
\* process by its control group.
THEOREM StopIsComplete ==
    ASSUME Managers \subseteq {"systemd"}
    PROVE  Spec => []StoppedMeansGone
<1>1. TypeOK /\ StopLeavesNothing => StoppedMeansGone
  BY DEF TypeOK, StopLeavesNothing, StoppedMeansGone, Lost
<1> QED BY TypeCorrect, StopIsClean, <1>1, PTL

-----------------------------------------------------------------------------
(* The safety part of the refinement: every step of the launcher and its   *)
(* manager is a step of a ServiceSupervisor.                               *)

\* A service that is about to be run was not asked to stop.
Wanted == phase = "down" => ~ stopping

\* Only the manager runs a service again.
LEMMA WantedStep == Wanted /\ [Next]_vars => Wanted'
BY DEF Wanted, vars, Next, Start, UpdateTimeout, Settle, UpdateRejected,
       ConfigRejected, ConfigRead, Launch, Launched, Spawn, SpawnThrows, Event,
       NodeLost,
       DailyRestart, Quit, NothingToDo, UpdateEnds, SafariOpens, SafariEnds,
       NodeEnds, OperatorTerm, Crash, StopService, TermLauncher, Collect,
       Restarted, StartService, ExitBeforeLaunch, ExitAfterLaunch

\* A step of which processes end at most, and with which the service at most
\* begins to close.
LEMMA Fades ==
    ASSUME run' = run, manager' = manager, cut \subseteq cut',
           LauncherAlive' => LauncherAlive,
           \A r \in Runs : \A n \in Nodes :
               node'[r][n] \in {"up", "told"} => node[r][n] \in {"up", "told"},
           Mode' = Mode \/ (Mode = "serving" /\ Mode' = "closing")
    PROVE  Supervisor!Next
<1>1. Alive' \subseteq Alive
  <2>1. ASSUME NEW x \in Alive' PROVE x \in Alive
    <3>1. CASE x \in Runs \X Nodes /\ x[2] \in Live(x[1])' /\ ~ Lost(x[1])'
      BY <3>1 DEF Live, Alive, Lost
    <3>2. CASE LauncherAlive' /\ x = <<run', "launcher">>
      BY <3>2 DEF Alive
    <3> QED BY <2>1, <3>1, <3>2 DEF Alive
  <2> QED BY <2>1
<1> QED BY <1>1 DEF Supervisor!Next, Supervisor!Shrink, Supervisor!Close

\* Every step is a step of the supervisor: one step of the proof per action.
LEMMA SupervisorStep ==
    ASSUME IInv, CInv, CInv', Wanted, [Next]_vars
    PROVE  [Supervisor!Next]_(Supervisor!vars)
<1>0. TypeOK /\ Fresh /\ Order /\ NoLeftovers /\ NoLeftovers'
  BY DEF IInv, CInv
<1>1. CASE Start
  <2>1. /\ phase = "down" /\ phase' = "updating" /\ run < MaxRuns
        /\ run' = run + 1 /\ UNCHANGED <<manager, node, stopping, cut>>
    BY <1>1 DEF Start
  <2>2. \A r \in Runs : ~ Lost(r) \/ ~ Lost(r)' => Live(r) = {} /\ Live(r)' = {}
    BY <1>0, <2>1 DEF NoLeftovers, Live, Lost
  <2>3. Alive = {} /\ Alive' = {<<run', "launcher">>}
    BY <2>1, <2>2 DEF Alive, LauncherAlive
  <2>4. Mode = "serving" /\ Mode' = "serving"
    BY <2>1 DEF Mode, Closing, Wanted
  <2> QED BY <2>1, <2>3, <2>4 DEF Supervisor!Next, Supervisor!Begin
<1>2. ASSUME NEW n \in Nodes, Spawn(n)
      PROVE  Supervisor!Next
  <2>1. /\ phase = "launching" /\ phase' = phase /\ run' = run /\ run \in Runs
        /\ run \notin cut /\ UNCHANGED <<manager, exitCode, stopping, cut>>
    BY <1>0, <1>2 DEF Spawn, Fresh, LauncherAlive
  <2>2. PICK s \in {"up", "unspawned"} : node' = [node EXCEPT ![run][n] = s]
    BY <1>2 DEF Spawn
  <2>3. Mode' = Mode
    BY <2>1 DEF Mode, Closing
  <2>4. CASE s = "unspawned"
    <3>1. \A r \in Runs : \A m \in Nodes :
            node'[r][m] \in {"up", "told"} => node[r][m] \in {"up", "told"}
      BY <1>0, <2>1, <2>2, <2>4 DEF TypeOK
    <3> QED BY <2>1, <2>3, <3>1, Fades DEF LauncherAlive
  <2>5. CASE s = "up"
    <3>1. \A r \in Runs : \A m \in Nodes :
            m \in Live(r)' <=> m \in Live(r) \/ (r = run /\ m = n)
      BY <1>0, <2>1, <2>2, <2>5 DEF TypeOK, Live
    <3>2. LauncherAlive /\ LauncherAlive'
      BY <2>1 DEF LauncherAlive
    <3>3. Alive' = Alive \cup {<<run, n>>} /\ Alive # {}
      <4> DEFINE A == {x \in Runs \X Nodes : x[2] \in Live(x[1]) /\ ~ Lost(x[1])}
      <4>1. A' = A \cup {<<run, n>>}
        BY <2>1, <3>1 DEF Lost
      <4>2. Alive = A \cup {<<run, "launcher">>}
            /\ Alive' = A' \cup {<<run, "launcher">>}
        BY <2>1, <3>2 DEF Alive
      <4> HIDE DEF A
      <4> QED BY <4>1, <4>2
    <3>4. n \in (Nodes \cup {"launcher"}) \ {"launcher"}
      BY NodesAssumption
    <3> QED BY <2>1, <2>3, <3>3, <3>4 DEF Supervisor!Next, Supervisor!Grow
  <2> QED BY <2>4, <2>5
<1>3. ASSUME NEW r \in Runs, NEW n \in Nodes, NodeEnds(r, n)
      PROVE  Supervisor!Next
  <2>1. \A q \in Runs : \A m \in Nodes :
            node'[q][m] \in {"up", "told"} => node[q][m] \in {"up", "told"}
    BY <1>0, <1>3 DEF NodeEnds, TypeOK
  <2>2. UNCHANGED <<manager, run, phase, exitCode, stopping, cut>>
    BY <1>3 DEF NodeEnds
  <2> QED BY <2>1, <2>2, Fades DEF LauncherAlive, Mode, Closing, Restarted
<1>4. CASE NodeLost \/ DailyRestart \/ Quit \/ NothingToDo
  <2>1. PICK code \in {"0", "1", "2"} : ExitAfterLaunch(code)
    BY <1>4 DEF NodeLost, DailyRestart, Quit, NothingToDo
  <2>2. phase = "running" /\ run \in Runs /\ node[run] \in [Nodes -> NodeStates]
    BY <1>0, <1>4 DEF NodeLost, DailyRestart, Quit, NothingToDo, Fresh,
                      LauncherAlive, TypeOK
  <2>3. /\ phase' = "exited" /\ UNCHANGED <<manager, run, stopping, cut>>
        /\ node' = [node EXCEPT ![run] = StopAllProcesses(node[run])]
    BY <2>1 DEF ExitAfterLaunch
  <2>4. \A q \in Runs : \A m \in Nodes :
            node'[q][m] \in {"up", "told"} => node[q][m] \in {"up", "told"}
    BY <1>0, <2>2, <2>3, NodeOps DEF TypeOK
  <2> QED BY <2>2, <2>3, <2>4, Fades DEF LauncherAlive, Mode, Closing
<1>5. CASE StopService
  <2>1. /\ LauncherAlive /\ run \in Runs /\ node[run] \in [Nodes -> NodeStates]
        /\ ~ stopping /\ stopping' /\ UNCHANGED <<manager, run, cut>>
        /\ phase' = phase \/ phase' = "exited"
    BY <1>0, <1>5 DEF StopService, TermLauncher, Fresh, TypeOK
  <2>2. \/ node' = [node EXCEPT ![run] = Killed(node[run])]
        \/ node' = [node EXCEPT ![run] = Told(node[run])]
    BY <1>5 DEF StopService
  <2>3. \A q \in Runs : \A m \in Nodes :
            node'[q][m] \in {"up", "told"} => node[q][m] \in {"up", "told"}
    BY <1>0, <2>1, <2>2 DEF Told, Killed, TypeOK
  <2> QED BY <2>1, <2>3, Fades DEF LauncherAlive, Mode, Closing
<1>6. CASE Collect
  <2>1. /\ phase = "exited" /\ UNCHANGED <<run, stopping>>
        /\ phase' = IF Restarted THEN "down" ELSE "stopped"
    BY <1>6 DEF Collect
  <2>2. \A r \in Runs : ~ Lost(r)' => Live(r)' = {}
    BY <1>0, <2>1 DEF NoLeftovers
  <2>3. Alive' = {}
    BY <2>1, <2>2 DEF Alive, LauncherAlive
  <2>4. CASE Restarted
    <3>1. Mode = "serving" /\ Mode' = "serving"
      BY <2>1, <2>4 DEF Mode, Closing, Restarted
    <3> QED BY <2>1, <2>3, <3>1 DEF Supervisor!Next, Supervisor!Shrink
  <2>5. CASE ~ Restarted
    <3>1. Mode = "closing" /\ Mode' = "off"
      BY <2>1, <2>5 DEF Mode, Closing
    <3> QED BY <2>1, <2>3, <3>1 DEF Supervisor!Next, Supervisor!Closed
  <2> QED BY <2>4, <2>5
<1>7. CASE StartService
  <2>1. /\ phase = "stopped" /\ phase' = "down" /\ ~ stopping'
        /\ UNCHANGED <<manager, run, node, cut>>
    BY <1>7 DEF StartService
  <2>2. \A r \in Runs : ~ Lost(r) \/ ~ Lost(r)' => Live(r) = {} /\ Live(r)' = {}
    BY <1>0, <2>1 DEF NoLeftovers, Live, Lost
  <2>3. Alive = {} /\ Alive' = {}
    BY <2>1, <2>2 DEF Alive, LauncherAlive
  <2>4. Mode = "off" /\ Mode' = "serving"
    BY <2>1 DEF Mode, Closing
  <2> QED BY <2>1, <2>3, <2>4 DEF Supervisor!Next, Supervisor!Open
<1>8. ASSUME /\ UNCHANGED <<manager, run, node, stopping>> /\ cut \subseteq cut'
             /\ \/ UNCHANGED <<phase, exitCode>>
                \/ {phase, phase'} \subseteq {"updating", "launching", "running"}
                \/ LauncherAlive /\ phase' = "exited"
      PROVE  Supervisor!Next
  BY <1>8, Fades DEF LauncherAlive, Mode, Closing, Restarted
<1>9. CASE UpdateTimeout \/ UpdateRejected \/ ConfigRejected \/ ConfigRead
             \/ Launched \/ SpawnThrows \/ OperatorTerm \/ Crash
             \/ UNCHANGED vars
             \/ \E r \in Runs : UpdateEnds(r) \/ SafariOpens(r) \/ SafariEnds(r)
  BY <1>8, <1>9 DEF UpdateTimeout, UpdateRejected, ConfigRejected, ConfigRead,
     ExitBeforeLaunch, Launched, SpawnThrows, OperatorTerm, TermLauncher,
     Crash, vars, UpdateEnds, SafariOpens, SafariEnds, LauncherAlive
<1> QED BY <1>1, <1>2, <1>3, <1>4, <1>5, <1>6, <1>7, <1>9
        DEF Next, Settle, Launch, Event

\* Whatever nodes are configured, however nodes and launchers fail, and
\* whatever is signalled: a run never begins with a process of an earlier one
\* around, and nothing is left of a service that has stopped, but for what WinSW
\* has lost.
THEOREM LauncherSupervises == Spec => Supervisor!Safety
<1>1. Init => Wanted /\ Supervisor!Init
  BY DEF Init, Wanted, Supervisor!Init, Mode, Closing, Alive, Live,
         LauncherAlive
<1>2. IInv /\ CInv /\ CInv' /\ Wanted /\ [Next]_vars =>
          [Supervisor!Next]_(Supervisor!vars)
  BY SupervisorStep
<1> QED BY <1>1, <1>2, WantedStep, InvariantHolds, CleanHolds, PTL
        DEF Spec, Supervisor!Safety
=============================================================================
