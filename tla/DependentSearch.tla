--------------------------- MODULE DependentSearch ---------------------------
(***************************************************************************)
(* GetDependentBackups(includeIndirect = true) of pkg/walg/backups.go as   *)
(* the loop it is: a queue of backups still to look at and a map of those  *)
(* already found.  Dependents defines what it has to return; here the loop *)
(* is shown to return it.  The queue is a set: the search takes its        *)
(* elements in any order, the code's first-in first-out order included.    *)
(***************************************************************************)
EXTENDS Dependents

CONSTANT Names        \* the backup names that can occur

VARIABLES
    backupList,       \* the names in the list
    root,             \* the backup whose dependents are wanted
    depsQueue, knownDependencies

vars == <<backupList, root, depsQueue, knownDependencies>>

Init ==
    /\ backupList \in SUBSET Names /\ root \in Names
    /\ depsQueue = findDirectDependencies(root, backupList)
    /\ knownDependencies = depsQueue

(* Mutant of Process: the new dependencies are found but not looked at. *)
ProcessDirectOnly(d) ==
    /\ d \in depsQueue
    /\ knownDependencies' = knownDependencies \cup findDirectDependencies(d, backupList)
    /\ depsQueue' = depsQueue \ {d}
    /\ UNCHANGED <<backupList, root>>

(* Mutant of Process: the element stays in the queue. *)
ProcessAgain(d) ==
    LET new == findDirectDependencies(d, backupList) \ knownDependencies
    IN  /\ d \in depsQueue
        /\ knownDependencies' = knownDependencies \cup new
        /\ depsQueue' = depsQueue \cup new
        /\ UNCHANGED <<backupList, root>>

(* One turn of the loop. *)
Process(d) ==
    LET new == findDirectDependencies(d, backupList) \ knownDependencies
    IN  /\ d \in depsQueue
        /\ knownDependencies' = knownDependencies \cup new
        /\ depsQueue' = (depsQueue \ {d}) \cup new
        /\ UNCHANGED <<backupList, root>>

Next == \E d \in depsQueue : Process(d)

Spec == Init /\ [][Next]_vars
FairSpec == Spec /\ WF_vars(Next)

-----------------------------------------------------------------------------
(* When the queue is empty the map holds exactly the dependents, direct    *)
(* and indirect, of the backup: the deletion guard of deleteWALGBackup and *)
(* the annotations rest on it.                                             *)
SearchCorrect ==
    depsQueue = {} => knownDependencies = GetDependentBackups(root, backupList)

(* The loop ends.  A backup is never queued twice. *)
SearchEnds == <>(depsQueue = {})

(* The loop's invariant: what is known is in the list, holds the direct    *)
(* dependents, is part of every closed set that holds them, and is closed  *)
(* except for what is still queued.                                        *)
Least ==
    \A S \in SUBSET backupList :
       (/\ findDirectDependencies(root, backupList) \subseteq S
        /\ ClosedUnder(S, backupList)) => knownDependencies \subseteq S
SearchInv ==
    /\ depsQueue \subseteq knownDependencies /\ knownDependencies \subseteq backupList
    /\ findDirectDependencies(root, backupList) \subseteq knownDependencies
    /\ \A m \in knownDependencies \ depsQueue :
          findDirectDependencies(m, backupList) \subseteq knownDependencies
    /\ Least
=============================================================================
