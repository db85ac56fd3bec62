---------------------------- MODULE LabUsersProofs ----------------------------
(* The numbers of any users, created by any number of administrators.      *)
EXTENDS LabUsers, TLAPS

USE NumberAssumption

\* Who has a number is in the directory; who got it undisturbed is in the group
\* whose numbers are looked at.
Accounts ==
    /\ \A u \in Names : number[u] # 0 => u \in users
    /\ \A u \in alone : u \in labusers /\ number[u] # 0

\* While a creation is the only one, its number stays free and its user its own.
Undisturbed ==
    \A a \in Admins : a \in Active /\ script[a].alone =>
        /\ Active = {a}
        /\ \A u \in alone : number[u] < script[a].id
        /\ script[a].at \in {"group", "number"} => number[script[a].user] = 0
        /\ script[a].at = "number" /\ script[a].user \in users =>
               script[a].user \in labusers

IInv == TypeOK /\ Accounts /\ Undisturbed /\ UniqueNumbers

\* The invariant holds initially.
LEMMA InitInv == Init => IInv
<1> SUFFICES ASSUME Init PROVE IInv
  OBVIOUS
<1>1. Active = {}
  BY DEF Init, Active
<1>2. TypeOK
  <2>1. MinNumber \in Numbers
    BY DEF Numbers
  <2>2. script \in [Admins -> [at : Steps, user : Names, id : Numbers,
                              alone : BOOLEAN]]
    BY <2>1 DEF Init, Steps
  <2> QED BY <2>2 DEF Init, TypeOK
<1> QED BY <1>1, <1>2 DEF Init, IInv, Accounts, Undisturbed, UniqueNumbers

\* A number that follows the ones found is a user's number above all of them.
LEMMA NextNumber ==
    ASSUME TypeOK, NEW id \in 0 .. MaxNumber, Follows(id, Taken)
    PROVE  id \in Numbers /\ \A u \in labusers : number[u] # 0 => number[u] < id
BY DEF TypeOK, Follows, Taken, Numbers

\* A step that ends a script, and no more than removes users, disturbs nothing.
LEMMA Quiet ==
    ASSUME IInv, users' \subseteq users, labusers' \subseteq users',
           labadmins' \subseteq users',
           alone' = alone \cap users', labusers' = labusers \cap users',
           number' = [u \in Names |-> IF u \in users' THEN number[u] ELSE 0],
           \/ script' = script
           \/ \E a \in Admins : Ends(a)
    PROVE  IInv'
<1>1. script' \in [Admins -> [at : Steps, user : Names, id : Numbers,
                               alone : BOOLEAN]]
  BY DEF IInv, TypeOK, Ends, Steps
<1>2. TypeOK'
  BY <1>1 DEF IInv, TypeOK
<1>3. Accounts' /\ UniqueNumbers'
  BY DEF IInv, TypeOK, Accounts, UniqueNumbers
<1>4. \A a \in Admins : a \in Active' => a \in Active /\ script'[a] = script[a]
  BY DEF IInv, TypeOK, Active, Ends
<1>5. Undisturbed'
  <2> SUFFICES ASSUME NEW a \in Admins, a \in Active', script'[a].alone
               PROVE  /\ Active' = {a}
                      /\ \A u \in alone' : number'[u] < script'[a].id
                      /\ script'[a].at \in {"group", "number"} =>
                             number'[script'[a].user] = 0
                      /\ script'[a].at = "number" /\ script'[a].user \in users' =>
                             script'[a].user \in labusers'
    BY DEF Undisturbed
  <2>1. a \in Active /\ script'[a] = script[a] /\ script[a].alone
        /\ script[a].user \in Names
    BY <1>4 DEF IInv, TypeOK
  <2>2. Active' = {a}
    BY <1>4, <2>1 DEF IInv, Undisturbed, Active
  <2> QED BY <2>1, <2>2 DEF IInv, TypeOK, Undisturbed
<1> QED BY <1>2, <1>3, <1>5 DEF IInv

\* A step preserves the invariant: one step of the proof per action.
LEMMA StepInv == IInv /\ [Next]_vars => IInv'
<1> SUFFICES ASSUME IInv, [Next]_vars PROVE IInv'
  OBVIOUS
<1> USE DEF IInv
<1>1. ASSUME NEW a \in Admins, NEW u \in Names, Create(a, u) PROVE IInv'
  <2>1. PICK id \in 0 .. MaxNumber :
           /\ Follows(id, Taken)
           /\ script' = [b \in Admins |->
                IF b = a
                THEN [at |-> "add", user |-> u, id |-> id, alone |-> Active = {}]
                ELSE [script[b] EXCEPT !.alone = @ /\ b \notin Active]]
    BY <1>1 DEF Create
  <2>2. UNCHANGED <<users, labusers, labadmins, number, alone>>
    BY <1>1 DEF Create
  <2>3. id \in Numbers /\ \A v \in alone : number[v] < id
    BY <2>1, NextNumber DEF Accounts
  <2>4. TypeOK'
    <3>1. ASSUME NEW b \in Admins
          PROVE  script'[b] \in [at : Steps, user : Names, id : Numbers,
                                 alone : BOOLEAN]
      <4>1. CASE b = a
        BY <2>1, <2>3, <4>1 DEF Steps
      <4>2. CASE b # a
        <5>1. script'[b] = [script[b] EXCEPT !.alone = @ /\ b \notin Active]
          BY <2>1, <4>2
        <5>2. (script[b].alone /\ b \notin Active) \in BOOLEAN
          OBVIOUS
        <5> QED BY <5>1, <5>2 DEF TypeOK
      <4> QED BY <4>1, <4>2
    <3> QED BY <2>1, <2>2, <3>1 DEF TypeOK
  <2>5. \A b \in Admins : b # a /\ b \in Active' => b \in Active /\ ~ script'[b].alone
    BY <2>1 DEF TypeOK, Active
  <2>6. a \in Active' /\ script'[a].at = "add" /\ script'[a].id = id
        /\ (script'[a].alone => Active' = {a})
    BY <2>1, <2>5 DEF Active
  <2>7. Undisturbed'
    BY <2>2, <2>3, <2>5, <2>6 DEF Undisturbed
  <2>8. Accounts' /\ UniqueNumbers'
    BY <2>2 DEF Accounts, UniqueNumbers
  <2> QED BY <2>4, <2>7, <2>8
<1>2. ASSUME NEW a \in Admins, AddUser(a) \/ AddToGroup(a) \/ AddNumber(a)
      PROVE  IInv'
  <2> DEFINE u == script[a].user
  <2>0. u \in Names /\ script[a].id \in Numbers /\ script[a].id # 0
    BY DEF TypeOK, Numbers
  <2>1. CASE AddUser(a) /\ u \in users
    <3>1. Ends(a) /\ UNCHANGED <<users, labusers, labadmins, number, alone>>
      BY <2>1 DEF AddUser, Refused
    <3> QED BY <3>1, Quiet DEF TypeOK, Accounts
  <2>2. ASSUME NEW at \in Steps, script[a].at # "idle",
               script' = [script EXCEPT ![a].at = at]
        PROVE  /\ script' \in [Admins -> [at : Steps, user : Names,
                                          id : Numbers, alone : BOOLEAN]]
               /\ script'[a] = [script[a] EXCEPT !.at = at]
               /\ \A b \in Admins : b # a => script'[b] = script[b]
               /\ \A b \in Active' : b \in Active
               /\ a \in Active
    BY <2>2 DEF TypeOK, Active
  <2>3. CASE AddUser(a) /\ u \notin users
    <3>1. /\ users' = users \cup {u} /\ script' = [script EXCEPT ![a].at = "group"]
          /\ UNCHANGED <<labusers, labadmins, number, alone>>
          /\ script[a].at # "idle"
      BY <2>3 DEF AddUser
    <3>2. TypeOK'
      BY <2>0, <2>2, <3>1 DEF TypeOK, Steps
    <3>3. Accounts' /\ UniqueNumbers'
      BY <3>1 DEF Accounts, UniqueNumbers
    <3>4. Undisturbed'
      BY <2>0, <2>2, <2>3, <3>1 DEF Undisturbed, Accounts, Active, TypeOK, Steps
    <3> QED BY <3>2, <3>3, <3>4
  <2>4. CASE AddToGroup(a)
    <3>1. /\ labusers' = labusers \cup {u} /\ u \in users
          /\ script' = [script EXCEPT ![a].at = "number"]
          /\ UNCHANGED <<users, labadmins, number, alone>>
          /\ script[a].at = "group"
      BY <2>4 DEF AddToGroup
    <3>2. TypeOK'
      BY <2>0, <2>2, <3>1 DEF TypeOK, Steps
    <3>3. Accounts' /\ UniqueNumbers'
      BY <3>1 DEF Accounts, UniqueNumbers
    <3>4. Undisturbed'
      BY <2>0, <2>2, <3>1 DEF Undisturbed, Active, TypeOK, Steps
    <3> QED BY <3>2, <3>3, <3>4
  <2>5. CASE AddNumber(a)
    <3>1. /\ number' = [number EXCEPT ![u] = script[a].id] /\ u \in users
          /\ alone' = IF script[a].alone THEN alone \cup {u} ELSE alone \ {u}
          /\ script' = [script EXCEPT ![a].at = "idle"]
          /\ UNCHANGED <<users, labusers, labadmins>>
          /\ script[a].at = "number"
      BY <2>5 DEF AddNumber, Ends
    <3>2. TypeOK'
      BY <2>0, <2>2, <3>1 DEF TypeOK, Steps
    <3>3. script[a].alone => /\ u \in labusers
                             /\ \A v \in alone : number[v] < script[a].id
      BY <2>2, <3>1 DEF Undisturbed, Active
    <3>4. Accounts'
      BY <2>0, <3>1, <3>3 DEF Accounts, TypeOK
    <3>5. UniqueNumbers'
      BY <2>0, <3>1, <3>3 DEF UniqueNumbers, Accounts, TypeOK, Numbers
    <3>6. Undisturbed'
      BY <2>0, <2>2, <3>1 DEF Undisturbed, Active, TypeOK, Steps
    <3> QED BY <3>2, <3>4, <3>5, <3>6
  <2> QED BY <1>2, <2>1, <2>3, <2>4, <2>5
<1>3. ASSUME NEW a \in Admins, Fails(a) PROVE IInv'
  BY <1>3, Quiet DEF Fails, TypeOK, Accounts
<1>4. ASSUME NEW u \in Names, Delete(u) PROVE IInv'
  BY <1>4, Quiet DEF Delete, TypeOK, Accounts
<1>5. ASSUME NEW u \in Names, MakeAdmin(u) \/ RemoveAdmin(u) PROVE IInv'
  BY <1>5, Quiet DEF MakeAdmin, RemoveAdmin, TypeOK, Accounts
<1>6. CASE UNCHANGED vars
  BY <1>6, Quiet DEF vars, TypeOK, Accounts
<1> QED BY <1>1, <1>2, <1>3, <1>4, <1>5, <1>6 DEF Next

\* The inductive invariant holds of every behaviour.
THEOREM InvariantHolds == Spec => []IInv
BY InitInv, StepInv, PTL DEF Spec

\* Every variable keeps its type.
THEOREM TypeCorrect == Spec => []TypeOK
<1>1. IInv => TypeOK
  BY DEF IInv
<1> QED BY InvariantHolds, <1>1, PTL

\* Users created one after the other have numbers of their own, whatever
\* fails halfway and whoever is deleted in between.
THEOREM NumbersUnique == Spec => []UniqueNumbers
<1>1. IInv => UniqueNumbers
  BY DEF IInv
<1> QED BY InvariantHolds, <1>1, PTL

\* No user's number is changed by a creation that no other one overlaps.
THEOREM NumbersKept == Spec => NumberKept
<1>1. IInv /\ [Next]_vars =>
         [\A u \in users : u \in users' /\ number[u] # 0 /\ number'[u] # number[u]
             => u \notin alone']_vars
  <2> SUFFICES ASSUME IInv, Next, NEW u \in users, u \in users',
                      number[u] # 0, number'[u] # number[u]
               PROVE  u \notin alone'
    BY DEF vars
  <2> USE DEF IInv
  <2>1. PICK a \in Admins : AddNumber(a)
    BY DEF Next, Create, AddUser, AddToGroup, Fails, Delete, MakeAdmin,
           RemoveAdmin, TypeOK
  <2>2. u = script[a].user /\ a \in Active
    BY <2>1 DEF AddNumber, Active, TypeOK
  <2>3. ~ script[a].alone
    BY <2>1, <2>2 DEF Undisturbed, AddNumber
  <2> QED BY <2>1, <2>2, <2>3 DEF AddNumber
<1> QED BY InvariantHolds, <1>1, PTL DEF Spec, NumberKept
=============================================================================
