------------------------ MODULE DependentSearchProofs ------------------------
(* The search returns what Dependents defines, for every list of names. *)
EXTENDS DependentSearch, TLAPS

LEMMA DirectInList ==
    \A n, list : findDirectDependencies(n, list) \subseteq list
BY DEF findDirectDependencies

LEMMA SearchInvInit == Init => SearchInv
<1> SUFFICES ASSUME Init PROVE SearchInv OBVIOUS
<1>1. knownDependencies \subseteq backupList
  BY DirectInList DEF Init
<1>2. Least
  BY DEF Init, Least
<1> QED BY <1>1, <1>2 DEF Init, SearchInv

LEMMA SearchInvNext == SearchInv /\ [Next]_vars => SearchInv'
<1> SUFFICES ASSUME SearchInv, [Next]_vars PROVE SearchInv' OBVIOUS
<1>1. CASE UNCHANGED vars
  BY <1>1 DEF vars, SearchInv, Least
<1>2. ASSUME NEW d \in depsQueue, Process(d) PROVE SearchInv'
  <2> DEFINE direct == findDirectDependencies(d, backupList)
             new == direct \ knownDependencies
  <2>1. /\ knownDependencies' = knownDependencies \cup new
        /\ depsQueue' = (depsQueue \ {d}) \cup new
        /\ backupList' = backupList /\ root' = root
    BY <1>2 DEF Process
  <2>2. new \subseteq backupList
    BY DirectInList
  <2>3. depsQueue' \subseteq knownDependencies' /\ knownDependencies' \subseteq backupList'
    BY <2>1, <2>2 DEF SearchInv
  <2>4. \A m \in knownDependencies' \ depsQueue' :
           findDirectDependencies(m, backupList) \subseteq knownDependencies'
    <3> TAKE m \in knownDependencies' \ depsQueue'
    <3>1. CASE m = d
      BY <3>1, <2>1
    <3>2. CASE m # d
      <4>1. m \in knownDependencies \ depsQueue
        BY <3>2, <2>1
      <4> QED BY <4>1, <2>1 DEF SearchInv
    <3> QED BY <3>1, <3>2
  <2>5. Least'
    <3> SUFFICES ASSUME NEW S \in SUBSET backupList,
                        findDirectDependencies(root, backupList) \subseteq S,
                        ClosedUnder(S, backupList)
                 PROVE  knownDependencies' \subseteq S
      BY <2>1 DEF Least
    <3>1. knownDependencies \subseteq S
      BY DEF SearchInv, Least
    <3>2. d \in S
      BY <3>1 DEF SearchInv
    <3>3. direct \subseteq S
      BY <3>2 DEF ClosedUnder
    <3> QED BY <2>1, <3>1, <3>3
  <2>6. findDirectDependencies(root, backupList) \subseteq knownDependencies'
    BY <2>1 DEF SearchInv
  <2> HIDE DEF direct, new
  <2> QED BY <2>1, <2>3, <2>4, <2>5, <2>6 DEF SearchInv
<1> QED BY <1>1, <1>2 DEF Next

(* GetDependentBackups returns all direct and indirect dependents and      *)
(* nothing else, whatever list of names it is given.                       *)
THEOREM SearchReturnsDependents == Spec => []SearchCorrect
<1>1. SearchInv => SearchCorrect
  <2> SUFFICES ASSUME SearchInv, depsQueue = {}
               PROVE  knownDependencies = GetDependentBackups(root, backupList)
    BY DEF SearchCorrect
  <2>1. ClosedUnder(knownDependencies, backupList)
    BY DEF SearchInv, ClosedUnder
  <2>2. GetDependentBackups(root, backupList) \subseteq knownDependencies
    BY <2>1 DEF SearchInv, GetDependentBackups
  <2>3. knownDependencies \subseteq GetDependentBackups(root, backupList)
    BY DEF SearchInv, Least, GetDependentBackups
  <2> QED BY <2>2, <2>3
<1> QED BY <1>1, SearchInvInit, SearchInvNext, PTL DEF Spec
=============================================================================
