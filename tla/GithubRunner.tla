----------------------------- MODULE GithubRunner -----------------------------
(***************************************************************************)
(* One instance of the GitHub runner service: systemd runs start-runner.sh *)
(* again and again, each run of the script cleans up, prepares and runs    *)
(* one docker container, which takes one job and ends.  A daily cron job   *)
(* prunes the containers that are not running.                             *)
(*                                                                         *)
(* Instances differ in the names of their containers and share nothing     *)
(* else; with nested containers they would share folders of the host, and  *)
(* then there may only be one (README.md:58).                              *)
(***************************************************************************)
EXTENDS Naturals

CONSTANTS
    MaxFaults, \* bound: failures, crashes and reboots
    MaxPrunes  \* bound: runs of the cron job

ASSUME BoundAssumption == MaxFaults \in Nat /\ MaxPrunes \in Nat

VARIABLES
    nested,     \* SUPPORT_NESTED_CONTAINERS, as the script last read it
    step,       \* the command start-runner.sh is at; "attached" to the container
                \* it runs, "waiting" to be run again, "off" if stopped
    container,  \* the one docker knows by the instance's name
    folders,    \* MAPPED_FOLDERS: "used" by a job, or "fresh"
    externals,  \* "partial" or "copied"
    faults,     \* failures, crashes and reboots so far
    prunes      \* runs of the cron job so far

vars == <<nested, step, container, folders, externals, faults, prunes>>

Commands == {"stop", "rm", "pull", "wipe", "create", "cp", "rmtemp", "run"}

TypeOK ==
    /\ nested \in BOOLEAN
    /\ step \in Commands \cup {"waiting", "attached", "off"}
    /\ container \in {"none", "created", "running", "removing", "exited"}
    /\ folders \in {"fresh", "used"}
    /\ externals \in {"partial", "copied"}
    /\ faults \in 0 .. MaxFaults
    /\ prunes \in 0 .. MaxPrunes
    /\ step = "attached" => container \notin {"created", "exited"}

Init ==
    /\ nested \in BOOLEAN
    /\ step = "off"
    /\ container = "none"
    /\ folders = "used"
    /\ externals = "partial"
    /\ faults = 0
    /\ prunes = 0

Fault == faults < MaxFaults /\ faults' = faults + 1

-----------------------------------------------------------------------------
(* start-runner.sh, a command at a time.                                   *)

\* set -e: a command that fails ends the script.
Fails(cmd) ==
    /\ step = cmd
    /\ step' = "waiting"
    /\ UNCHANGED <<nested, container, folders, prunes>>

\* Restart=always, after half a minute.
Restart ==
    /\ step = "waiting"
    /\ step' = "stop"
    /\ UNCHANGED <<nested, container, folders, externals, faults, prunes>>

\* docker stop || true: a runner ends and docker, as told by --rm, begins to
\* remove it.  It may refuse to die.
DockerStop ==
    /\ step = "stop"
    /\ step' = "rm"
    /\ \/ /\ container' = IF container = "running" THEN "removing" ELSE container
          /\ UNCHANGED faults
       \/ Fault /\ UNCHANGED container
    /\ UNCHANGED <<nested, folders, externals, prunes>>

\* Mutated: without docker rm.
NoDockerRm ==
    /\ step = "rm"
    /\ step' = "pull"
    /\ UNCHANGED <<nested, container, folders, externals, faults, prunes>>

\* docker rm || true: what is running, or is being removed, stays.
DockerRm ==
    /\ step = "rm"
    /\ step' = "pull"
    /\ container' = IF container \in {"created", "exited"} THEN "none"
                    ELSE container
    /\ UNCHANGED <<nested, folders, externals, faults, prunes>>

\* The image, and the configuration, which may have changed meanwhile.
DockerPull ==
    /\ step = "pull"
    /\ nested' \in BOOLEAN
    /\ step' = IF nested' THEN "wipe" ELSE "run"
    /\ UNCHANGED <<container, folders, externals, faults, prunes>>

\* Mutated: mkdir -p without rm -rf.
KeepFolders ==
    /\ step = "wipe"
    /\ step' = "create"
    /\ externals' = "partial"
    /\ UNCHANGED <<nested, container, folders, faults, prunes>>

\* rm -rf and mkdir -p: new directories.  A container that is still there has
\* the old ones, of which nobody will see what it does to them.
Wipe ==
    /\ step = "wipe"
    /\ step' = "create"
    /\ folders' = "fresh"
    /\ externals' = "partial"
    /\ UNCHANGED <<nested, container, faults, prunes>>

\* docker container create --name: the name must be free.
Create ==
    \/ /\ step = "create" /\ container = "none"
       /\ step' = "cp"
       /\ container' = "created"
       /\ UNCHANGED <<nested, folders, externals, faults, prunes>>
    \/ container # "none" /\ Fails("create") /\ UNCHANGED <<externals, faults>>

\* docker cp: the container must still be there.
Copy ==
    \/ /\ step = "cp" /\ container = "created"
       /\ step' = "rmtemp"
       /\ externals' = "copied"
       /\ UNCHANGED <<nested, container, folders, faults, prunes>>
    \/ container # "created" /\ Fails("cp") /\ UNCHANGED <<externals, faults>>

RmTemp ==
    \/ /\ step = "rmtemp" /\ container = "created"
       /\ step' = "run"
       /\ container' = "none"
       /\ UNCHANGED <<nested, folders, externals, faults, prunes>>
    \/ container # "created" /\ Fails("rmtemp") /\ UNCHANGED <<externals, faults>>

\* docker run --rm --name
Run ==
    \/ /\ step = "run" /\ container = "none"
       /\ step' = "attached"
       /\ container' = "running"
       /\ folders' = IF nested THEN "used" ELSE folders
       /\ UNCHANGED <<nested, externals, faults, prunes>>
    \/ container # "none" /\ Fails("run") /\ UNCHANGED <<externals, faults>>

\* The container has ended, and with it docker run.
Detach ==
    /\ container # "running"
    /\ Fails("attached")
    /\ UNCHANGED <<externals, faults>>

\* Any command but the first two may fail for reasons of its own, and a copy
\* halfway.
CommandFails ==
    /\ Fault
    /\ \E cmd \in Commands \ {"stop", "rm"} : Fails(cmd)
    /\ externals' = IF step = "cp" THEN "partial" ELSE externals

-----------------------------------------------------------------------------
(* Docker.                                                                 *)

\* Mutated: without --rm.
RunnerKept ==
    /\ container = "running"
    /\ container' = "exited"
    /\ UNCHANGED <<nested, step, folders, externals, faults, prunes>>

\* A job is done, or the container ends otherwise: EPHEMERAL, --rm.
RunnerEnds ==
    /\ container = "running"
    /\ container' = "removing"
    /\ UNCHANGED <<nested, step, folders, externals, faults, prunes>>

Removed ==
    /\ container = "removing"
    /\ container' = "none"
    /\ UNCHANGED <<nested, step, folders, externals, faults, prunes>>

\* docker system prune -af, once a day.
Prune ==
    /\ prunes < MaxPrunes
    /\ prunes' = prunes + 1
    /\ container' = IF container \in {"created", "exited"} THEN "none"
                    ELSE container
    /\ UNCHANGED <<nested, step, folders, externals, faults>>

-----------------------------------------------------------------------------
(* systemd and its administrator.                                          *)

\* docker run is cut off after it has created the container.
HalfRun == step = "run" /\ container = "none" /\ container' = "created"

\* The script is killed, docker run with it: docker keeps the container.
Crash ==
    /\ Fault
    /\ step \in Commands \cup {"attached"}
    /\ step' = "waiting"
    /\ HalfRun \/ UNCHANGED container
    /\ UNCHANGED <<nested, folders, externals, prunes>>

\* The target is enabled: the service comes back.  Of a container that was
\* running, or not yet removed, docker finds a rest or not.
Reboot ==
    /\ Fault
    /\ step' = "waiting"
    /\ \/ container \notin {"running", "removing"} /\ UNCHANGED container
       \/ HalfRun
       \/ container \in {"running", "removing"} /\ container' \in {"none", "exited"}
    /\ UNCHANGED <<nested, folders, externals, prunes>>

\* systemctl stop: SIGTERM to the script and to docker run, which passes it on
\* to the container; a container may still outlive them.
StopService ==
    /\ step # "off"
    /\ step' = "off"
    /\ \/ HalfRun \/ UNCHANGED container
       \/ step = "attached" /\ container = "running" /\ container' = "removing"
    /\ UNCHANGED <<nested, folders, externals, faults, prunes>>

StartService ==
    /\ step = "off"
    /\ step' = "waiting"
    /\ UNCHANGED <<nested, container, folders, externals, faults, prunes>>

-----------------------------------------------------------------------------
Script == \/ DockerStop \/ DockerRm \/ DockerPull \/ Wipe \/ Create \/ Copy
          \/ RmTemp \/ Run \/ Detach

Next == \/ Restart \/ Script \/ CommandFails
        \/ RunnerEnds \/ Removed \/ Prune
        \/ Crash \/ Reboot \/ StopService \/ StartService

\* systemd restarts the script, its commands end, and docker removes what it
\* is to remove.  No job need ever come or end.
Fairness == WF_vars(Restart) /\ WF_vars(Script) /\ WF_vars(Removed)

Spec == Init /\ [][Next]_vars
FairSpec == Spec /\ Fairness

-----------------------------------------------------------------------------
(* Properties.                                                             *)

\* With nested containers every container is started on folders that no job
\* has used before and with all of the externals, however the run before it
\* ended and whatever is pruned meanwhile (start-runner.sh:107-140).
FreshStart ==
    [][nested /\ container # "running" /\ container' = "running"
           => folders = "fresh" /\ externals = "copied"]_vars

\* A service that is not stopped comes to run a container of its own again: no
\* leftover of an earlier run holds its name for ever (start-runner.sh:55-58).
RunnerReturns == step = "waiting" ~> step \in {"attached", "off"}
=============================================================================
