--------------------------- MODULE ServiceSupervisor ---------------------------
(***************************************************************************)
(* What is promised to whoever runs a service: while it is served, it is   *)
(* begun again whenever it has ended; every process belongs to the latest  *)
(* epoch of the service, so an epoch never begins with processes of an     *)
(* earlier one around; and once it has closed down, no process is left.    *)
(*                                                                         *)
(* log-wrapper.js promises it of the service it wraps, and the service     *)
(* managers and start-nodes.js together promise it of the nodes.           *)
(***************************************************************************)
EXTENDS Naturals

CONSTANTS Procs,    \* the processes an epoch of the service may consist of
          Leader,   \* the one that is spawned
          MaxEpoch  \* bound: epochs

VARIABLES mode,     \* "off", "serving" or "closing"
          epoch,    \* epochs begun so far
          live      \* the processes alive, each with its epoch

vars == <<mode, epoch, live>>

\* A service may be enabled at boot.
Init == mode \in {"off", "serving"} /\ epoch = 0 /\ live = {}

Open ==
    /\ mode = "off"
    /\ live = {}
    /\ mode' = "serving"
    /\ UNCHANGED <<epoch, live>>

Begin ==
    /\ mode = "serving"
    /\ <<epoch, Leader>> \notin live
    /\ epoch < MaxEpoch
    /\ epoch' = epoch + 1
    /\ live' = {<<epoch', Leader>>}
    /\ UNCHANGED mode

Grow ==
    /\ live # {}
    /\ \E p \in Procs \ {Leader} : live' = live \cup {<<epoch, p>>}
    /\ UNCHANGED <<mode, epoch>>

\* Processes end, one or several at once.
Shrink ==
    /\ live' \subseteq live
    /\ UNCHANGED <<mode, epoch>>

\* The service is told to stop, or ends for good.
Close ==
    /\ mode = "serving"
    /\ mode' = "closing"
    /\ live' \subseteq live
    /\ UNCHANGED epoch

Closed ==
    /\ mode = "closing"
    /\ mode' = "off"
    /\ live' = {}
    /\ UNCHANGED epoch

Next == Open \/ Begin \/ Grow \/ Shrink \/ Close \/ Closed

\* What never happens; and, with fairness, what does.
Safety == Init /\ [][Next]_vars
Spec == Safety /\ WF_vars(Begin) /\ WF_vars(Closed)
=============================================================================
