-------------------------- MODULE GithubRunnerProofs --------------------------
(***************************************************************************)
(* Proofs about GithubRunner, for any number of faults and prunes.  What a *)
(* container is started on is settled by the commands the script has left  *)
(* behind: the invariant says which commands come after which effects.     *)
(***************************************************************************)
EXTENDS GithubRunner, TLAPS

\* From the wipe on the folders are fresh, from the copy on the externals are
\* there, and nobody else touches either.
Prepared ==
    /\ nested /\ step \in {"create", "cp", "rmtemp", "run"} => folders = "fresh"
    /\ nested /\ step \in {"rmtemp", "run"} => externals = "copied"

IInv == TypeOK /\ Prepared

\* The invariant holds initially.
LEMMA InitInv == Init => IInv
BY BoundAssumption DEF Init, IInv, TypeOK, Prepared, Commands

\* A script that ends, by itself or not, has nothing to show.
LEMMA FailsInv ==
  ASSUME IInv, NEW cmd, Fails(cmd), faults' \in 0 .. MaxFaults,
         externals' \in {"partial", "copied"}
  PROVE  IInv'
BY DEF IInv, TypeOK, Prepared, Fails, Commands

\* A step preserves the invariant: one step of the proof per action.
LEMMA StepInv == IInv /\ [Next]_vars => IInv'
<1> SUFFICES ASSUME IInv, [Next]_vars PROVE IInv'
  OBVIOUS
<1> USE BoundAssumption
<1>1. CASE Restart
  BY <1>1 DEF IInv, TypeOK, Prepared, Restart, Commands
<1>2. CASE DockerStop
  BY <1>2 DEF IInv, TypeOK, Prepared, DockerStop, Fault, Commands
<1>3. CASE DockerRm
  BY <1>3 DEF IInv, TypeOK, Prepared, DockerRm, Commands
<1>4. CASE DockerPull
  BY <1>4 DEF IInv, TypeOK, Prepared, DockerPull, Commands
<1>5. CASE Wipe
  BY <1>5 DEF IInv, TypeOK, Prepared, Wipe, Commands
<1>6. CASE Create
  <2>1. CASE Fails("create") /\ UNCHANGED <<externals, faults>>
    BY <2>1, FailsInv DEF IInv, TypeOK
  <2> QED
    BY <1>6, <2>1 DEF IInv, TypeOK, Prepared, Create, Commands
<1>7. CASE Copy
  <2>1. CASE Fails("cp") /\ UNCHANGED <<externals, faults>>
    BY <2>1, FailsInv DEF IInv, TypeOK
  <2> QED
    BY <1>7, <2>1 DEF IInv, TypeOK, Prepared, Copy, Commands
<1>8. CASE RmTemp
  <2>1. CASE Fails("rmtemp") /\ UNCHANGED <<externals, faults>>
    BY <2>1, FailsInv DEF IInv, TypeOK
  <2> QED
    BY <1>8, <2>1 DEF IInv, TypeOK, Prepared, RmTemp, Commands
<1>9. CASE Run
  <2>1. CASE Fails("run") /\ UNCHANGED <<externals, faults>>
    BY <2>1, FailsInv DEF IInv, TypeOK
  <2> QED
    BY <1>9, <2>1 DEF IInv, TypeOK, Prepared, Run, Commands
<1>10. CASE Detach
  BY <1>10, FailsInv DEF Detach, IInv, TypeOK
<1>11. CASE CommandFails
  BY <1>11, FailsInv DEF CommandFails, Fault, IInv, TypeOK
<1>12. CASE RunnerEnds \/ Removed
  BY <1>12 DEF IInv, TypeOK, Prepared, RunnerEnds, Removed, Commands
<1>13. CASE Prune
  BY <1>13 DEF IInv, TypeOK, Prepared, Prune, Commands
<1>14. CASE Crash \/ Reboot
  BY <1>14 DEF IInv, TypeOK, Prepared, Crash, Reboot, HalfRun, Fault,
     Commands
<1>15. CASE StopService \/ StartService
  BY <1>15 DEF IInv, TypeOK, Prepared, StopService, StartService,
     HalfRun, Commands
<1>16. CASE UNCHANGED vars
  BY <1>16 DEF vars, IInv, TypeOK, Prepared
<1> QED
  BY <1>1, <1>2, <1>3, <1>4, <1>5, <1>6, <1>7, <1>8, <1>9, <1>10, <1>11,
     <1>12, <1>13, <1>14, <1>15, <1>16 DEF Next, Script

\* The inductive invariant holds of every behaviour.
THEOREM InvariantHolds == Spec => []IInv
BY InitInv, StepInv, PTL DEF Spec

\* Every variable keeps its type.
THEOREM TypeCorrect == Spec => []TypeOK
<1>1. IInv => TypeOK
  BY DEF IInv
<1> QED BY InvariantHolds, <1>1, PTL

\* The only step that starts a container is docker run.
LEMMA OnlyRunStarts ==
  ASSUME Next, container # "running", container' = "running"
  PROVE  Run /\ step = "run"
BY DEF Next, Script, Restart, DockerStop, DockerRm, DockerPull, Wipe, Create,
       Copy, RmTemp, Run, Detach, Fails, CommandFails, RunnerEnds, Removed,
       Prune, Crash, Reboot, HalfRun, StopService, StartService

\* Every container is started on fresh folders and all of the externals,
\* whatever failed before and is pruned meanwhile.
THEOREM StartsFresh == Spec => FreshStart
<1>1. IInv /\ [Next]_vars =>
        [nested /\ container # "running" /\ container' = "running"
           => folders = "fresh" /\ externals = "copied"]_vars
  BY OnlyRunStarts DEF IInv, Prepared
<1> QED BY InvariantHolds, <1>1, PTL DEF Spec, FreshStart
=============================================================================
