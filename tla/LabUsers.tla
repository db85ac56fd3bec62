------------------------------- MODULE LabUsers -------------------------------
(***************************************************************************)
(* The labuser tools of the gateway, which administrators run by hand, at  *)
(* the same time if they like.  All but labuser-create are one command     *)
(* each; labuser-create looks for a free user number first and gives it    *)
(* away last, and any of its commands may fail and end it.                 *)
(*                                                                         *)
(* What samba-tool does to the directory is external: it refuses a user    *)
(* that exists, or does not; anything else it may refuse as well, a number *)
(* that is in use perhaps, but nothing here relies on that.                *)
(***************************************************************************)
EXTENDS Naturals

CONSTANTS
    Names,      \* of users
    Admins,     \* who run the tools, one at a time each
    MinNumber,  \* minimum_user_id
    MaxNumber   \* bound: user numbers

ASSUME NumberAssumption ==
    MinNumber \in Nat \ {0} /\ MaxNumber \in Nat /\ MinNumber <= MaxNumber

Numbers == MinNumber .. MaxNumber

VARIABLES
    users,      \* in the directory
    labusers,   \* members of the group that is searched
    labadmins,  \* members of the other one
    number,     \* name -> uidNumber, 0 if there is none
    script,     \* administrator -> the labuser-create that is run
    alone       \* history: numbered by a creation that no other overlapped

vars == <<users, labusers, labadmins, number, script, alone>>

Steps == {"idle", "add", "group", "number"}

TypeOK ==
    /\ users \in SUBSET Names
    /\ labusers \in SUBSET users
    /\ labadmins \in SUBSET users
    /\ number \in [Names -> {0} \cup Numbers]
    /\ script \in [Admins -> [at : Steps, user : Names, id : Numbers,
                              alone : BOOLEAN]]
    /\ alone \in SUBSET Names

Init ==
    /\ users = {} /\ labusers = {} /\ labadmins = {}
    /\ number = [u \in Names |-> 0]
    /\ script \in [Admins -> [at : {"idle"}, user : Names, id : {MinNumber},
                              alone : {TRUE}]]
    /\ alone = {}

Active == {a \in Admins : script[a].at # "idle"}

-----------------------------------------------------------------------------
(* labuser-create.                                                         *)

\* Mutated: without the test of -z.
FollowsAny(id, taken) ==
    IF taken = {} THEN id = 1
    ELSE id - 1 \in taken /\ \A n \in taken : n < id

\* Mutated: head -1 instead of tail -1.
FollowsLeast(id, taken) ==
    IF taken = {} THEN id = MinNumber
    ELSE id - 1 \in taken /\ \A n \in taken : id - 1 <= n

\* user_id for the numbers found: the largest and one, or the minimum.
Follows(id, taken) ==
    IF taken = {} THEN id = MinNumber
    ELSE id - 1 \in taken /\ \A n \in taken : n < id

\* ldbsearch: the numbers of the members of labusers.
Taken == {number[u] : u \in labusers} \ {0}

Create(a, u) ==
    /\ script[a].at = "idle"
    /\ \E id \in 0 .. MaxNumber :
          /\ Follows(id, Taken)
          /\ script' = [b \in Admins |->
                IF b = a
                THEN [at |-> "add", user |-> u, id |-> id, alone |-> Active = {}]
                ELSE [script[b] EXCEPT !.alone = @ /\ b \notin Active]]
    /\ UNCHANGED <<users, labusers, labadmins, number, alone>>

\* set -e, and the end.
Ends(a) == script' = [script EXCEPT ![a].at = "idle"]

\* Mutated: without set -e.
IfRefused(a) == script' = [script EXCEPT ![a].at = "group"]

\* What is next when the user is there already.
Refused(a) == Ends(a)

AddUser(a) ==
    LET u == script[a].user IN
    /\ script[a].at = "add"
    /\ \/ /\ u \notin users
          /\ users' = users \cup {u}
          /\ script' = [script EXCEPT ![a].at = "group"]
       \/ u \in users /\ Refused(a) /\ UNCHANGED users
    /\ UNCHANGED <<labusers, labadmins, number, alone>>

AddToGroup(a) ==
    LET u == script[a].user IN
    /\ script[a].at = "group"
    /\ u \in users
    /\ labusers' = labusers \cup {u}
    /\ script' = [script EXCEPT ![a].at = "number"]
    /\ UNCHANGED <<users, labadmins, number, alone>>

AddNumber(a) ==
    LET u == script[a].user IN
    /\ script[a].at = "number"
    /\ u \in users
    /\ number' = [number EXCEPT ![u] = script[a].id]
    /\ alone' = IF script[a].alone THEN alone \cup {u} ELSE alone \ {u}
    /\ Ends(a)
    /\ UNCHANGED <<users, labusers, labadmins>>

\* A command that fails, or a script that is broken off.
Fails(a) ==
    /\ script[a].at # "idle"
    /\ Ends(a)
    /\ UNCHANGED <<users, labusers, labadmins, number, alone>>

-----------------------------------------------------------------------------
(* The other tools.                                                        *)

Delete(u) ==
    /\ u \in users
    /\ users' = users \ {u}
    /\ labusers' = labusers \ {u}
    /\ labadmins' = labadmins \ {u}
    /\ number' = [number EXCEPT ![u] = 0]
    /\ alone' = alone \ {u}
    /\ UNCHANGED script

MakeAdmin(u) ==
    /\ u \in users \ labadmins
    /\ labadmins' = labadmins \cup {u}
    /\ UNCHANGED <<users, labusers, number, script, alone>>

RemoveAdmin(u) ==
    /\ u \in labadmins
    /\ labadmins' = labadmins \ {u}
    /\ UNCHANGED <<users, labusers, number, script, alone>>

Next ==
    \/ \E a \in Admins : AddUser(a) \/ AddToGroup(a) \/ AddNumber(a) \/ Fails(a)
    \/ \E a \in Admins, u \in Names : Create(a, u)
    \/ \E u \in Names : Delete(u) \/ MakeAdmin(u) \/ RemoveAdmin(u)

Spec == Init /\ [][Next]_vars

-----------------------------------------------------------------------------
\* Two users of one number are one user to every machine of the lab.  However
\* creations failed and users were deleted before, two share a number only if
\* one of them was created while another creation was under way
\* (labuser-create:11-21, 31).
UniqueNumbers ==
    \A u, v \in Names : u # v /\ number[u] # 0 /\ number[u] = number[v] =>
        u \notin alone \/ v \notin alone

\* The files of a user are those of its number, so a user keeps it, also if
\* someone creates the user again by mistake: set -e is all that sees to it
\* (labuser-create:4, 28).
NumberKept ==
    [][\A u \in users : u \in users' /\ number[u] # 0 /\ number'[u] # number[u]
           => u \notin alone']_vars
=============================================================================
