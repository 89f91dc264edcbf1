------------------------- MODULE ClusterPluginProofs -------------------------
(***************************************************************************)
(* Proofs about ClusterPlugin, for any Clusters, configs, specs and        *)
(* recovery targets, any storage and any number of changes and failures.   *)
(***************************************************************************)
EXTENDS ClusterPlugin, WellFoundedInduction, TLAPS

(* What Pre has read is a config with one of its specs; targets stay.      *)
ReadsTyped ==
    /\ DOMAIN spec = Configs /\ DOMAIN seen = Clusters
    /\ target \in [Clusters -> Targets \cup {Nil}]
    /\ \A c \in Clusters : \A config \in Range(seen[c]) :
         config.name \in Configs /\ config.spec \in Specs[config.name]

(* No bootstrap Job has a sidecar in normal mode, and what runs for a      *)
(* recovery has a source.                                                  *)
JobsRight ==
    \A c \in Clusters :
      /\ job[c] # "normal"
      /\ job[c] = "recovery" \/ rpc[c] # "idle" => RecoveryOf[c] \in Configs

(* The first backup choice, as made of the list.                           *)
Best(b, list, t) ==
    b \in list /\ Reaches(b, t) /\ \A d \in list : Reaches(d, t) => d <= b

(* A backup once chosen stays the choice, and only that one is restored.   *)
ChoiceKept ==
    \A c \in Clusters :
      /\ rpc[c] \in {"fetch", "done"} => Best(rbackup[c], rlist[c], target[c])
      /\ restored[c] # NoBackup => rpc[c] = "done" /\ restored[c] = rbackup[c]

(* A key is generated only for a config that can ask for one, and before   *)
(* any backup is stored under that config.                                 *)
Asks(k) == \E s \in Specs[k] : Generated(s)
KeysAsked ==
    /\ \A c \in Clusters : pc[c] \in Configs => Asks(pc[c])
    /\ \A k \in Configs : key[k] # 0 => Asks(k)
    /\ \A k \in Configs : Asks(k) /\ store[k] # {} => key[k] # 0

(* Users do not turn the generated encryption of a config on or off.       *)
SteadyEncryption ==
    \A k \in Configs : \A s, t \in Specs[k] : Generated(s) <=> Generated(t)

TypeInv == TypeOK /\ ReadsTyped /\ JobsRight

-----------------------------------------------------------------------------
(* The choice of a backup.                                                 *)

LEMMA BackupsAreNumbers == Backups = 1..Len(Finish) /\ Len(Finish) \in Nat
BY ClusterAssumption DEF Backups

(* A set of backups that is not empty has a last one.                      *)
LEMMA LastBackup ==
    ASSUME NEW list \in SUBSET Backups, list # {}
    PROVE  /\ Last(list) = Max(list) /\ Max(list) \in list
           /\ \A b \in list : b <= Max(list)
<1> DEFINE n == Len(Finish)
           fromEnd == { n - b : b \in list }
<1>1. n \in Nat /\ \A b \in list : b \in 1..n
  BY BackupsAreNumbers
<1>2. fromEnd \subseteq Nat /\ fromEnd # {}
  BY <1>1
<1>3. \E x \in fromEnd : \A y \in fromEnd : <<y, x>> \notin {ss \in Nat \X Nat : ss[1] < ss[2]}
  <2> HIDE DEF fromEnd
  <2>1. IsWellFoundedOn({ss \in Nat \X Nat : ss[1] < ss[2]}, Nat)
    BY NatLessThanWellFounded, Zenon DEF OpToRel
  <2> QED BY <1>2, <2>1, WFMin, Zenon
<1>4. PICK b \in list : \A y \in fromEnd : ~(y < n - b)
  BY <1>2, <1>3
<1>6. \A d \in list : b >= d
  <2> TAKE d \in list
  <2> ~(n - d < n - b)
    BY <1>4
  <2> QED BY <1>1
<1>7. Max(list) \in list /\ \A d \in list : Max(list) >= d
  BY <1>6 DEF Max
<1> QED BY <1>1, <1>7 DEF Last

LEMMA LastOfNone == Last({}) = NoBackup
BY DEF Last

(* The timeline of a backup is always read as 0, so that every one fits.   *)
LEMMA TimelinesMatch == \A b, tli : HasMatchingTimeline(b, tli)
BY DEF HasMatchingTimeline, Timeline

(* The four searches of FindMostSuitableBackupForRecovery find the best of *)
(* the listed backups, or that none of them will do.                       *)
LEMMA SuitableIsBest ==
    ASSUME NEW t \in Targets \cup {Nil}, NEW list \in SUBSET Backups,
           NEW b, b = FindMostSuitableBackupForRecovery(list, t)
    PROVE  /\ b # NoBackup => Best(b, list, t)
           /\ b = NoBackup => \A d \in list : ~Reaches(d, t)
<1> USE TimelinesMatch
<1>0. \A d \in Backups : d \in Nat /\ d # NoBackup
  BY BackupsAreNumbers DEF NoBackup
<1>1. ASSUME NEW S \in SUBSET list, b = Last(S), \A d \in list : Reaches(d, t) <=> d \in S
      PROVE  /\ b # NoBackup => Best(b, list, t)
             /\ b = NoBackup => \A d \in list : ~Reaches(d, t)
  <2>1. CASE S = {}
    BY <1>1, <2>1, LastOfNone
  <2>2. CASE S # {}
    <3>1. b = Max(S) /\ Max(S) \in S /\ \A d \in S : d <= Max(S)
      BY <1>1, <2>2, LastBackup
    <3> QED BY <1>0, <1>1, <3>1 DEF Best
  <2> QED BY <2>1, <2>2
<1>2. CASE t = Nil
  <2>1. b = Last(list)
    BY <1>2 DEF FindMostSuitableBackupForRecovery
  <2>2. \A d \in list : Reaches(d, t) <=> d \in list
    BY <1>2 DEF Reaches
  <2> QED BY <1>1, <2>1, <2>2
<1>3. CASE t # Nil /\ t.backup # Nil
  <2>1. b = IF t.backup \in list THEN t.backup ELSE NoBackup
    BY <1>3 DEF FindMostSuitableBackupForRecovery
  <2>2. \A d \in list : Reaches(d, t) <=> d = t.backup
    BY <1>3 DEF Reaches
  <2> QED BY <1>0, <2>1, <2>2 DEF Best
<1>4. CASE t # Nil /\ t.backup = Nil /\ t.time # Nil
  <2> DEFINE S == { d \in list : Finish[d] # Nil /\ HasMatchingTimeline(d, t.tli) /\ Finish[d] <= t.time }
  <2>1. b = Last(S)
    BY <1>4 DEF FindMostSuitableBackupForRecovery, findClosestBackupFromTargetTime
  <2>2. \A d \in list : Reaches(d, t) <=> d \in S
    BY <1>4, EncodingAssumption DEF Reaches
  <2> QED BY <1>1, <2>1, <2>2
<1>5. CASE t # Nil /\ t.backup = Nil /\ t.time = Nil /\ t.lsn # Nil
  <2> DEFINE S == { d \in list : HasMatchingTimeline(d, t.tli) /\ FinishLSN[d] < t.lsn }
  <2>1. b = Last(S)
    BY <1>5 DEF FindMostSuitableBackupForRecovery, findClosestBackupFromTargetLSN
  <2>2. \A d \in list : Reaches(d, t) <=> d \in S
    BY <1>5 DEF Reaches
  <2> QED BY <1>1, <2>1, <2>2
<1>6. CASE t # Nil /\ t.backup = Nil /\ t.time = Nil /\ t.lsn = Nil
  <2> DEFINE S == { d \in list : HasMatchingTimeline(d, t.tli) }
  <2>1. b = Last(S)
    BY <1>6 DEF FindMostSuitableBackupForRecovery, findLatestBackupFromTimeline
  <2>2. \A d \in list : Reaches(d, t) <=> d \in S
    BY <1>6 DEF Reaches
  <2> QED BY <1>1, <2>1, <2>2
<1> QED BY <1>2, <1>3, <1>4, <1>5, <1>6

-----------------------------------------------------------------------------
(* What Pre and the hooks read.                                            *)

LEMMA NothingRead == Range(<<>>) = {}
BY DEF Range

LEMMA RangeOfTwo ==
    ASSUME NEW a, NEW b, NEW p \in {<<>>, <<a>>}, NEW q \in {<<>>, <<b>>}, NEW x \in Range(p \o q)
    PROVE  (p = <<a>> /\ x = a) \/ (q = <<b>> /\ x = b)
<1>1. CASE p = <<>> /\ q = <<>>
  <2> Range(p \o q) = {}
    BY <1>1 DEF Range
  <2> QED OBVIOUS
<1>2. CASE p = <<a>> /\ q = <<>>
  <2> Range(p \o q) = {a}
    BY <1>2 DEF Range
  <2> QED BY <1>2
<1>3. CASE p = <<>> /\ q = <<b>>
  <2> Range(p \o q) = {b}
    BY <1>3 DEF Range
  <2> QED BY <1>3
<1>4. CASE p = <<a>> /\ q = <<b>>
  <2> Range(p \o q) = {a, b}
    BY <1>4 DEF Range
  <2> QED BY <1>4
<1> QED BY <1>1, <1>2, <1>3, <1>4

LEMMA ConfigsRead ==
    ASSUME TypeOK, NEW c \in Clusters,
           Found(GetBackupConfigForCluster(c) \o GetBackupConfigForClusterRecovery(c)),
           NEW config \in Range(GetBackupConfigForCluster(c) \o GetBackupConfigForClusterRecovery(c))
    PROVE  config.name \in Configs /\ config.spec \in Specs[config.name]
<1> DEFINE a == [name |-> ArchiveOf[c], spec |-> spec[ArchiveOf[c]]]
           r == [name |-> RecoveryOf[c], spec |-> spec[RecoveryOf[c]]]
<1>1. ArchiveOf[c] \in Configs /\ RecoveryOf[c] \in Configs \cup {Nil}
  BY ClusterAssumption
<1>2. \/ config = a
      \/ config = r /\ RecoveryOf[c] # Nil
  <2>1. GetBackupConfigForCluster(c) \in {<<>>, <<a>>}
    BY DEF GetBackupConfigForCluster
  <2>2. /\ GetBackupConfigForClusterRecovery(c) \in {<<>>, <<r>>}
        /\ RecoveryOf[c] = Nil => GetBackupConfigForClusterRecovery(c) = <<>>
    BY DEF GetBackupConfigForClusterRecovery
  <2>3. <<>> # <<r>>
    OBVIOUS
  <2> HIDE DEF a, r
  <2> QED BY <2>1, <2>2, <2>3, RangeOfTwo
<1>3. config.spec # Nil
  BY DEF Found
<1>4. config.name \in Configs /\ config.spec = spec[config.name]
  BY <1>1, <1>2
<1> QED BY <1>3, <1>4 DEF TypeOK

-----------------------------------------------------------------------------
(* Types.                                                                  *)

LEMMA TypeInvInit == Init => TypeInv
BY ClusterAssumption, BackupsAreNumbers, NothingRead
   DEF Init, TypeInv, TypeOK, ReadsTyped, JobsRight, NoBackup

LEMMA TypeInvStutters == TypeInv /\ UNCHANGED vars => TypeInv'
BY DEF TypeInv, TypeOK, ReadsTyped, JobsRight, vars, configVars, roleVars, preVars, restoreVars, walVars, storeVars

LEMMA EventTypes == TypeOK /\ Event => events' \in 0..MaxEvents
BY ClusterAssumption DEF TypeOK, Event

LEMMA RestoreTypes ==
    ASSUME TypeInv, NEW c \in Clusters, NEW place \in {"idle", "secrets", "list", "fetch", "done"},
           place # "idle" => RecoveryOf[c] \in Configs,
           NEW s, NEW k, NEW list \in SUBSET Backups, NEW b \in Backups \cup {NoBackup},
           RestoreGoes(c, place, s, k, list, b)
    PROVE  /\ rpc' \in [Clusters -> {"idle", "secrets", "list", "fetch", "done"}]
           /\ rlist' \in [Clusters -> SUBSET Backups]
           /\ rbackup' \in [Clusters -> Backups \cup {NoBackup}]
           /\ \A d \in Clusters : rpc'[d] # "idle" => RecoveryOf[d] \in Configs
BY DEF TypeInv, TypeOK, JobsRight, RestoreGoes

LEMMA RestoreStepTypes ==
    ASSUME TypeInv, NEW c \in Clusters, RestoreStep(c)
    PROVE  /\ rpc' \in [Clusters -> {"idle", "secrets", "list", "fetch", "done"}]
           /\ rlist' \in [Clusters -> SUBSET Backups]
           /\ rbackup' \in [Clusters -> Backups \cup {NoBackup}]
           /\ restored' \in [Clusters -> Backups \cup {NoBackup}]
           /\ \A d \in Clusters : rpc'[d] # "idle" => RecoveryOf[d] \in Configs
<1> DEFINE list == store[RecoveryOf[c]]
           b == FindMostSuitableBackupForRecovery(list, target[c])
           e == EncryptionKey(RecoveryOf[c], rspec[c])
<1>1. RecoveryOf[c] \in Configs
  BY DEF RestoreStep, Restore, RestoreSecrets, GetBackupsList, BackupFetch, TypeInv, JobsRight
<1>2. list \in SUBSET Backups /\ target[c] \in Targets \cup {Nil}
  BY <1>1 DEF TypeInv, TypeOK, ReadsTyped
<1>3. b \in Backups \cup {NoBackup}
  BY <1>2, SuitableIsBest DEF Best
<1>4. /\ rlist[c] \in SUBSET Backups /\ rbackup[c] \in Backups \cup {NoBackup}
      /\ restored' \in {restored, [restored EXCEPT ![c] = rbackup[c]]}
  BY DEF RestoreStep, Restore, RestoreSecrets, GetBackupsList, BackupFetch, TypeInv, TypeOK
<1>5. restored' \in [Clusters -> Backups \cup {NoBackup}]
  BY <1>4 DEF TypeInv, TypeOK
<1>6. \/ RestoreGoes(c, "idle", Nil, 0, {}, NoBackup)
      \/ RestoreGoes(c, "secrets", spec[RecoveryOf[c]], 0, {}, NoBackup)
      \/ RestoreGoes(c, "list", rspec[c], e, {}, NoBackup)
      \/ RestoreGoes(c, "fetch", Nil, rkey[c], list, b)
      \/ RestoreGoes(c, "done", Nil, rkey[c], rlist[c], rbackup[c])
  BY DEF RestoreStep, Restore, RestoreSecrets, GetBackupsList, BackupFetch, RestoreEnds
<1> HIDE DEF list, b, e
<1>7. CASE RestoreGoes(c, "idle", Nil, 0, {}, NoBackup)
  BY <1>5, <1>7, RestoreTypes
<1>8. CASE RestoreGoes(c, "secrets", spec[RecoveryOf[c]], 0, {}, NoBackup)
  BY <1>1, <1>5, <1>8, RestoreTypes
<1>9. CASE RestoreGoes(c, "list", rspec[c], e, {}, NoBackup)
  BY <1>1, <1>5, <1>9, RestoreTypes
<1>10. CASE RestoreGoes(c, "fetch", Nil, rkey[c], list, b)
  BY <1>1, <1>2, <1>3, <1>5, <1>10, RestoreTypes
<1>11. CASE RestoreGoes(c, "done", Nil, rkey[c], rlist[c], rbackup[c])
  BY <1>1, <1>4, <1>5, <1>11, RestoreTypes
<1> QED BY <1>6, <1>7, <1>8, <1>9, <1>10, <1>11

(* Pre and the hooks go to another place, and what they have read stays    *)
(* or is forgotten.                                                        *)
LEMMA PreTypes ==
    ASSUME TypeInv, NEW c \in Clusters, NEW place \in {"idle", "secrets", "binding", "hooks"} \cup Configs,
           Goes(c, place), seen' \in {seen, [seen EXCEPT ![c] = <<>>]}
    PROVE  /\ pc' \in [Clusters -> {"idle", "secrets", "binding", "hooks"} \cup Configs]
           /\ DOMAIN seen' = Clusters
           /\ \A d \in Clusters : \A config \in Range(seen'[d]) :
                config.name \in Configs /\ config.spec \in Specs[config.name]
<1>1. pc' \in [Clusters -> {"idle", "secrets", "binding", "hooks"} \cup Configs]
  BY DEF TypeInv, TypeOK, Goes
<1>2. CASE seen' = seen
  BY <1>1, <1>2 DEF TypeInv, ReadsTyped
<1>3. CASE seen' = [seen EXCEPT ![c] = <<>>]
  <2>1. DOMAIN seen' = Clusters /\ \A d \in Clusters : seen'[d] = IF d = c THEN <<>> ELSE seen[d]
    BY <1>3 DEF TypeInv, ReadsTyped
  <2> QED BY <1>1, <2>1, NothingRead DEF TypeInv, ReadsTyped
<1> QED BY <1>2, <1>3

LEMMA TypeInvStep ==
    ASSUME TypeInv, Next
    PROVE  TypeInv'
<1> USE ClusterAssumption, BackupsAreNumbers, NothingRead, EventTypes
    DEF TypeInv, TypeOK, ReadsTyped, JobsRight, configVars, roleVars, preVars, restoreVars, walVars, storeVars, Goes, Requeue, AfterPre
<1>1. ASSUME NEW k \in Configs, ChangeSpec(k) PROVE TypeInv'
  BY <1>1 DEF ChangeSpec
<1>2. ASSUME NEW k \in Configs, NEW b \in Backups, DeleteBackup(k, b) PROVE TypeInv'
  BY <1>2 DEF DeleteBackup
<1>3. ASSUME NEW c \in Clusters, AddPlugin(c) PROVE TypeInv'
  BY <1>3 DEF AddPlugin
<1>4. ASSUME NEW c \in Clusters, RoleSync(c) PROVE TypeInv'
  BY <1>4 DEF RoleSync
<1>5. ASSUME NEW c \in Clusters, Pre(c) PROVE TypeInv'
  <2> DEFINE configs == GetBackupConfigForCluster(c) \o GetBackupConfigForClusterRecovery(c)
  <2>1. seen' = [seen EXCEPT ![c] = configs] /\ Found(configs)
    BY <1>5 DEF Pre
  <2>2. \A config \in Range(configs) : config.name \in Configs /\ config.spec \in Specs[config.name]
    BY <2>1, ConfigsRead
  <2> HIDE DEF configs
  <2>3. ReadsTyped'
    <3>1. DOMAIN seen' = Clusters /\ \A d \in Clusters : seen'[d] = IF d = c THEN configs ELSE seen[d]
      BY <2>1
    <3> QED BY <1>5, <2>2, <3>1 DEF Pre
  <2> QED BY <1>5, <2>3 DEF Pre
<1>6. ASSUME NEW c \in Clusters, ensureEncryptionSecret(c) PROVE TypeInv'
  BY <1>6 DEF ensureEncryptionSecret, Missing
<1>7. ASSUME NEW c \in Clusters, NEW k \in Configs, CreateSecret(c, k) PROVE TypeInv'
  <2>1. key' \in [Configs -> Nat] /\ keys' \in Nat
    <3>1. CASE key[k] = 0
      <4>1. keys' = keys + 1 /\ key' = [key EXCEPT ![k] = keys']
        BY <1>7, <3>1 DEF CreateSecret
      <4>2. keys' \in Nat
        BY <4>1
      <4> QED BY <4>1, <4>2
    <3>2. CASE key[k] # 0
      BY <1>7, <3>2 DEF CreateSecret
    <3> QED BY <3>1, <3>2
  <2>2. Goes(c, "idle") \/ Goes(c, "secrets")
    BY <1>7 DEF CreateSecret
  <2>3. seen' \in {seen, [seen EXCEPT ![c] = <<>>]}
    BY <1>7 DEF CreateSecret
  <2> QED BY <1>7, <2>1, <2>2, <2>3, PreTypes DEF CreateSecret
<1>8. ASSUME NEW c \in Clusters, ensureRole(c) PROVE TypeInv'
  <2>1. /\ \E place \in {"idle", "binding", "hooks"} : Goes(c, place)
        /\ seen' = [seen EXCEPT ![c] = <<>>]
    BY <1>8 DEF ensureRole
  <2> QED BY <1>8, <2>1, PreTypes DEF ensureRole
<1>9. ASSUME NEW c \in Clusters, ensureRoleBinding(c) PROVE TypeInv'
  BY <1>9 DEF ensureRoleBinding
<1>10. ASSUME NEW c \in Clusters, PreFails(c) PROVE TypeInv'
  BY <1>10 DEF PreFails
<1>11. ASSUME NEW c \in Clusters, reconcileJob(c) PROVE TypeInv'
  BY <1>11 DEF reconcileJob, getCNPGJobRole, reconcilePodSpecWithPluginSidecar, injectPluginSidecarPodSpec
<1>12. ASSUME NEW c \in Clusters, reconcilePod(c) PROVE TypeInv'
  BY <1>12 DEF reconcilePod, reconcilePodSpecWithPluginSidecar, injectPluginSidecarPodSpec
<1>13. ASSUME NEW c \in Clusters, FinishJob(c) PROVE TypeInv'
  BY <1>13 DEF FinishJob
<1>14. ASSUME NEW c \in Clusters, Restore(c) PROVE TypeInv'
  BY <1>14 DEF Restore, RestoreGoes, RestoreLeaves, NoBackup
<1>15. ASSUME NEW c \in Clusters, RestoreSecrets(c) PROVE TypeInv'
  BY <1>15, RestoreStepTypes DEF RestoreStep, RestoreSecrets, RestoreLeaves
<1>16. ASSUME NEW c \in Clusters, GetBackupsList(c) PROVE TypeInv'
  BY <1>16, RestoreStepTypes DEF RestoreStep, GetBackupsList, RestoreLeaves
<1>17. ASSUME NEW c \in Clusters, BackupFetch(c) PROVE TypeInv'
  BY <1>17, RestoreStepTypes DEF RestoreStep, BackupFetch, RestoreLeaves
<1>18. ASSUME NEW c \in Clusters, RestoreFails(c) PROVE TypeInv'
  BY <1>18 DEF RestoreFails, RestoreEnds, RestoreGoes, RestoreLeaves, NoBackup
<1>19. ASSUME NEW c \in Clusters, ArchiveWAL(c) PROVE TypeInv'
  BY <1>19 DEF ArchiveWAL
<1>20. ASSUME NEW c \in Clusters, RestoreWAL(c) PROVE TypeInv'
  BY <1>20 DEF RestoreWAL
<1>21. ASSUME NEW c \in Clusters, BackupPush(c) PROVE TypeInv'
  <2> DEFINE k == InUseBy(c)
             b == pushed[k] + 1
             e == EncryptionKey(k, spec[k])
  <2>1. k \in Configs
    BY <1>21 DEF BackupPush, InUseBy
  <2>2. e \in Nat
    BY <2>1 DEF EncryptionKey
  <2> HIDE DEF k, b, e
  <2>3. /\ b \in Backups /\ pushed' = [pushed EXCEPT ![k] = b]
        /\ store' = [store EXCEPT ![k] = @ \cup {b}]
        /\ lock' = [lock EXCEPT ![k][b] = e]
    BY <1>21 DEF BackupPush, k, b, e
  <2>4. pushed' \in [Configs -> 0..Len(Finish)] /\ store' \in [Configs -> SUBSET Backups]
    <3>1. b \in 0..Len(Finish)
      BY <2>3
    <3>2. pushed' \in [Configs -> 0..Len(Finish)]
      BY <2>1, <2>3, <3>1
    <3>3. store[k] \cup {b} \in SUBSET Backups
      BY <2>1, <2>3
    <3>4. store' \in [Configs -> SUBSET Backups]
      BY <2>1, <2>3, <3>3
    <3> QED BY <3>2, <3>4
  <2>5. lock' \in [Configs -> [Backups -> Nat]]
    <3>1. [lock[k] EXCEPT ![b] = e] \in [Backups -> Nat]
      BY <2>1, <2>2
    <3>2. lock' = [lock EXCEPT ![k] = [lock[k] EXCEPT ![b] = e]]
      BY <2>1, <2>3, Zenon
    <3> QED BY <2>1, <3>1, <3>2
  <2> QED BY <1>21, <2>4, <2>5 DEF BackupPush
<1> QED BY <1>1, <1>2, <1>3, <1>4, <1>5, <1>6, <1>7, <1>8, <1>9, <1>10, <1>11, <1>12, <1>13, <1>14, <1>15, <1>16, <1>17, <1>18, <1>19, <1>20, <1>21 DEF Next, Operator, RestoreStep

LEMMA TypeInvAlways == Spec => []TypeInv
BY TypeInvInit, TypeInvStep, TypeInvStutters, PTL DEF Spec

(* Type correctness: places, modes, backups and keys stay what they are    *)
(* declared to be; the sidecar of an instance Pod never runs in recovery   *)
(* mode, whatever the mode of the Job that bootstrapped the Cluster.       *)
THEOREM ClusterTypeCorrect == Spec => []TypeOK
<1>1. TypeInv => TypeOK
  BY DEF TypeInv
<1> QED BY <1>1, TypeInvAlways, PTL

-----------------------------------------------------------------------------
(* WAL files under recovery.                                               *)

SourceInv == DOMAIN replayed = Clusters /\ RecoversFromSource

LEMMA SourceStep ==
    ASSUME TypeInv, SourceInv, Next
    PROVE  SourceInv'
<1>1. ASSUME NEW c \in Clusters, ArchiveWAL(c)
      PROVE  SourceInv'
  <2>1. job[c] = "done"
    BY <1>1 DEF ArchiveWAL, Mode, TypeInv, JobsRight
  <2>2. (job[c] # "done") = FALSE
    BY <2>1
  <2>3. /\ archived' \in {archived, archived \cup {[cluster |-> c, recovering |-> FALSE]}}
        /\ replayed' = replayed
    BY <1>1, <2>2, Zenon DEF ArchiveWAL
  <2>4. [cluster |-> c, recovering |-> FALSE].recovering = FALSE
    OBVIOUS
  <2> QED BY <2>3, <2>4 DEF SourceInv, RecoversFromSource
<1>2. ASSUME NEW c \in Clusters, RestoreWAL(c)
      PROVE  SourceInv'
  <2>1. InUseBy(c) = RecoveryOf[c]
    BY <1>2 DEF RestoreWAL, Mode, InUseBy, TypeInv, JobsRight
  <2>2. /\ DOMAIN replayed' = Clusters /\ archived' = archived
        /\ \A d \in Clusters :
             replayed'[d] = IF d = c THEN replayed[c] \cup {RecoveryOf[c]} ELSE replayed[d]
    BY <1>2, <2>1 DEF RestoreWAL, SourceInv
  <2> QED BY <2>2 DEF SourceInv, RecoversFromSource
<1>3. CASE UNCHANGED walVars
  BY <1>3 DEF walVars, SourceInv, RecoversFromSource
<1>4. \/ \E c \in Clusters : ArchiveWAL(c) \/ RestoreWAL(c)
      \/ UNCHANGED walVars
  BY DEF Next, ChangeSpec, DeleteBackup, AddPlugin, RoleSync, Operator, Pre,
         ensureEncryptionSecret, CreateSecret, ensureRole, ensureRoleBinding, reconcileJob,
         reconcilePod, PreFails, FinishJob, RestoreStep, Restore, RestoreSecrets, GetBackupsList,
         BackupFetch, RestoreFails, RestoreLeaves, BackupPush
<1> QED BY <1>1, <1>2, <1>3, <1>4

(* A Cluster under recovery gets WAL files from its recovery source only   *)
(* and archives none: the Job's sidecar runs in recovery mode, in which    *)
(* the sidecar uses the config of the source, until the Job has ended.     *)
THEOREM RecoveryUsesSource == Spec => []RecoversFromSource
<1>1. Init => SourceInv
  BY DEF Init, SourceInv, RecoversFromSource
<1>2. SourceInv /\ UNCHANGED vars => SourceInv'
  BY DEF vars, walVars, SourceInv, RecoversFromSource
<1>3. SourceInv => RecoversFromSource
  BY DEF SourceInv
<1> QED BY <1>1, <1>2, <1>3, SourceStep, TypeInvAlways, PTL DEF Spec

-----------------------------------------------------------------------------
(* The restored backup.                                                    *)

LEMMA ChoiceStep ==
    ASSUME TypeInv, ChoiceKept, Next
    PROVE  ChoiceKept'
<1>0. target' = target
  BY DEF Next, ChangeSpec, DeleteBackup, AddPlugin, RoleSync, Operator, Pre,
         ensureEncryptionSecret, CreateSecret, ensureRole, ensureRoleBinding, reconcileJob,
         reconcilePod, PreFails, FinishJob, RestoreStep, Restore, RestoreSecrets, GetBackupsList,
         BackupFetch, RestoreFails, RestoreLeaves, BackupPush, ArchiveWAL, RestoreWAL, configVars
<1>1. ASSUME NEW c \in Clusters, RestoreStep(c) \/ RestoreFails(c)
      PROVE  ChoiceKept'
  <2>1. ASSUME NEW d \in Clusters \ {c}
        PROVE  /\ rpc'[d] = rpc[d] /\ rbackup'[d] = rbackup[d]
               /\ rlist'[d] = rlist[d] /\ restored'[d] = restored[d]
    BY <1>1 DEF RestoreStep, Restore, RestoreSecrets, GetBackupsList, BackupFetch, RestoreFails,
                RestoreEnds, RestoreGoes, TypeInv, TypeOK
  <2>2. CASE rpc'[c] \in {"idle", "secrets", "list"} /\ rpc[c] # "done" /\ restored' = restored
    BY <1>0, <2>1, <2>2 DEF ChoiceKept
  <2>3. CASE /\ GetBackupsList(c)
             /\ FindMostSuitableBackupForRecovery(store[RecoveryOf[c]], target[c]) # NoBackup
    <3> DEFINE list == store[RecoveryOf[c]]
               b == FindMostSuitableBackupForRecovery(list, target[c])
    <3>1. rpc[c] = "list" /\ restored' = restored
      BY <2>3 DEF GetBackupsList
    <3>2. rpc'[c] = "fetch" /\ rlist'[c] = list /\ rbackup'[c] = b
      BY <2>3 DEF GetBackupsList, RestoreGoes, TypeInv, TypeOK
    <3>3. list \in SUBSET Backups /\ target[c] \in Targets \cup {Nil}
      BY <3>1 DEF TypeInv, TypeOK, JobsRight, ReadsTyped
    <3>4. b # NoBackup
      BY <2>3
    <3> HIDE DEF list, b
    <3>5. Best(b, list, target[c])
      BY <3>3, <3>4, SuitableIsBest DEF b
    <3> QED BY <1>0, <2>1, <3>1, <3>2, <3>5 DEF ChoiceKept
  <2>4. CASE /\ rpc[c] = "fetch" /\ rpc'[c] = "done"
             /\ rlist'[c] = rlist[c] /\ rbackup'[c] = rbackup[c] /\ restored'[c] = rbackup[c]
    BY <1>0, <2>1, <2>4 DEF ChoiceKept
  <2>5. \/ rpc'[c] \in {"idle", "secrets", "list"} /\ rpc[c] # "done" /\ restored' = restored
        \/ /\ GetBackupsList(c)
           /\ FindMostSuitableBackupForRecovery(store[RecoveryOf[c]], target[c]) # NoBackup
        \/ /\ rpc[c] = "fetch" /\ rpc'[c] = "done"
           /\ rlist'[c] = rlist[c] /\ rbackup'[c] = rbackup[c] /\ restored'[c] = rbackup[c]
    <3> USE DEF RestoreEnds, RestoreGoes, TypeInv, TypeOK
    <3>1. CASE Restore(c) \/ RestoreSecrets(c)
      BY <3>1 DEF Restore, RestoreSecrets
    <3>2. CASE GetBackupsList(c)
      BY <3>2 DEF GetBackupsList
    <3>3. CASE BackupFetch(c)
      BY <3>3 DEF BackupFetch
    <3>4. CASE RestoreFails(c)
      BY <3>4 DEF RestoreFails
    <3> QED BY <1>1, <3>1, <3>2, <3>3, <3>4 DEF RestoreStep
  <2> QED BY <2>2, <2>3, <2>4, <2>5
<1>2. CASE UNCHANGED restoreVars
  BY <1>0, <1>2 DEF restoreVars, ChoiceKept
<1>3. \/ \E c \in Clusters : RestoreStep(c) \/ RestoreFails(c)
      \/ UNCHANGED restoreVars
  BY DEF Next, ChangeSpec, DeleteBackup, AddPlugin, RoleSync, Operator, Pre,
         ensureEncryptionSecret, CreateSecret, ensureRole, ensureRoleBinding, reconcileJob,
         reconcilePod, PreFails, FinishJob, BackupPush, ArchiveWAL, RestoreWAL
<1> QED BY <1>1, <1>2, <1>3

(* A Cluster whose target leaves the timeline open, or names a backup, is  *)
(* restored from the last of the listed backups that the target allows,    *)
(* however long the fetch takes and whatever is pushed or removed          *)
(* meanwhile; the Job asks for no second restore.                          *)
THEOREM BestBackupChosen == Spec => []BestBackupRestored
<1>1. Init => ChoiceKept
  BY DEF Init, ChoiceKept
<1>2. ChoiceKept /\ UNCHANGED vars => ChoiceKept'
  BY DEF vars, configVars, restoreVars, ChoiceKept
<1>3. ChoiceKept => BestBackupRestored
  BY DEF ChoiceKept, BestBackupRestored, Best
<1> QED BY <1>1, <1>2, <1>3, ChoiceStep, TypeInvAlways, PTL DEF Spec

-----------------------------------------------------------------------------
(* The generated keys.                                                     *)

KeyInv == KeysAsked /\ KeysFit

(* A sidecar that has got past the prefetch of a config with a generated   *)
(* key has the key.                                                        *)
LEMMA PrefetchedKey ==
    ASSUME NEW c, NEW k, NEW s, Generated(s), Prefetch(c, k, s)
    PROVE  key[k] # 0
<1>1. Secret(Own[k]) \in EncryptionSecret(s, Own[k])
  BY DEF Generated, EncryptionSecret, Encrypted, GetBackupConfigEncryptionSecretName
<1>2. Secret(Own[k]) \in Reads(s, Own[k])
  BY <1>1, SMT DEF Reads
<1> QED BY <1>2 DEF Prefetch, PrefetchSecretsData

LEMMA KeyInvStep ==
    ASSUME SteadyEncryption, TypeInv, KeyInv, Next
    PROVE  KeyInv'
<1> USE DEF KeyInv, KeysAsked, KeysFit
<1>1. ASSUME NEW c \in Clusters, ensureEncryptionSecret(c)
      PROVE  KeyInv'
  <2>1. PICK config \in Missing(c) : Goes(c, config.name)
    BY <1>1 DEF ensureEncryptionSecret
  <2>2. config.name \in Configs /\ Asks(config.name)
    BY <2>1 DEF Missing, Asks, TypeInv, ReadsTyped
  <2>3. UNCHANGED <<key, store, lock>> /\ pc' = [pc EXCEPT ![c] = config.name]
    BY <1>1, <2>1 DEF ensureEncryptionSecret, configVars, storeVars, Goes
  <2> QED BY <2>2, <2>3 DEF TypeInv, TypeOK
<1>2. ASSUME NEW c \in Clusters, NEW k \in Configs, CreateSecret(c, k)
      PROVE  KeyInv'
  <2>1. UNCHANGED <<store, lock>> /\ \E place \in {"idle", "secrets"} : pc' = [pc EXCEPT ![c] = place]
    BY <1>2 DEF CreateSecret, storeVars, Goes, Requeue
  <2>2. \A d \in Clusters : pc'[d] \in Configs => pc'[d] = pc[d]
    BY <2>1, EncodingAssumption DEF TypeInv, TypeOK
  <2>3. Asks(k)
    BY <1>2 DEF CreateSecret
  <2>4. CASE key[k] # 0
    BY <1>2, <2>1, <2>2, <2>4 DEF CreateSecret
  <2>5. CASE key[k] = 0
    <3>1. \A j \in Configs : key'[j] = IF j = k THEN keys + 1 ELSE key[j]
      BY <1>2, <2>5 DEF CreateSecret, TypeInv, TypeOK
    <3>2. keys + 1 # 0
      BY DEF TypeInv, TypeOK
    <3>3. store[k] = {}
      BY <2>3, <2>5
    <3> QED BY <2>1, <2>2, <2>3, <3>1, <3>2, <3>3
  <2> QED BY <2>4, <2>5
<1>3. ASSUME NEW c \in Clusters, BackupPush(c)
      PROVE  KeyInv'
  <2> DEFINE k == InUseBy(c)
             b == pushed[k] + 1
             e == EncryptionKey(k, spec[k])
  <2>1. /\ Mode(c) = "normal" /\ b \in Backups /\ getBackupConfig(c)
        /\ UNCHANGED <<key, pc>>
    BY <1>3 DEF BackupPush, configVars, preVars
  <2>2. k \in Configs
    BY <2>1, ClusterAssumption DEF InUseBy
  <2>3. spec[k] \in Specs[k] /\ Prefetch(c, k, spec[k])
    BY <2>1, <2>2 DEF getBackupConfig, GetConfig, TypeInv, TypeOK
  <2>4. e = key[k] /\ (Asks(k) => key[k] # 0)
    <3>1. CASE Generated(spec[k])
      BY <2>3, <3>1, PrefetchedKey DEF EncryptionKey
    <3>2. CASE ~Generated(spec[k])
      BY <2>2, <2>3, <3>2 DEF EncryptionKey, SteadyEncryption, Asks
    <3> QED BY <3>1, <3>2
  <2> HIDE DEF k, b, e
  <2>5. store' = [store EXCEPT ![k] = @ \cup {b}] /\ lock' = [lock EXCEPT ![k][b] = e]
    BY <1>3 DEF BackupPush, k, b, e
  <2>6. \A j \in Configs : store'[j] = IF j = k THEN store[k] \cup {b} ELSE store[j]
    BY <2>2, <2>5 DEF TypeInv, TypeOK
  <2>7. \A j \in Configs, d \in Backups :
          lock'[j][d] = IF j = k /\ d = b THEN e ELSE lock[j][d]
    BY <2>1, <2>2, <2>5 DEF TypeInv, TypeOK
  <2>8. \A j \in Configs : \A d \in store'[j] : d \in Backups
    BY <2>1, <2>6 DEF TypeInv, TypeOK
  <2> QED BY <2>1, <2>2, <2>4, <2>6, <2>7, <2>8
<1>4. ASSUME NEW k \in Configs, NEW b \in Backups, DeleteBackup(k, b)
      PROVE  KeyInv'
  <2>1. UNCHANGED <<key, pc, lock>> /\ \A j \in Configs : store'[j] \subseteq store[j]
    BY <1>4 DEF DeleteBackup, configVars, preVars, TypeInv, TypeOK
  <2> QED BY <2>1
<1>5. CASE /\ UNCHANGED <<key, storeVars>>
           /\ \A c \in Clusters : pc'[c] \in Configs => pc'[c] = pc[c]
  BY <1>5 DEF storeVars
<1>6. \/ \E c \in Clusters : \/ ensureEncryptionSecret(c) \/ BackupPush(c)
                             \/ \E k \in Configs : CreateSecret(c, k)
      \/ \E k \in Configs, b \in Backups : DeleteBackup(k, b)
      \/ /\ UNCHANGED <<key, storeVars>>
         /\ \A c \in Clusters : pc'[c] \in Configs => pc'[c] = pc[c]
  <2>1. ASSUME NEW c \in Clusters, NEW place \in {"idle", "secrets", "binding", "hooks"}, Goes(c, place)
        PROVE  \A d \in Clusters : pc'[d] \in Configs => pc'[d] = pc[d]
    BY <2>1, EncodingAssumption DEF Goes, TypeInv, TypeOK
  <2>2. ASSUME NEW c \in Clusters,
               \/ Pre(c) \/ ensureRole(c) \/ ensureRoleBinding(c) \/ PreFails(c)
               \/ reconcileJob(c) \/ reconcilePod(c)
        PROVE  /\ UNCHANGED <<key, storeVars>>
               /\ Goes(c, "idle") \/ Goes(c, "secrets") \/ Goes(c, "binding") \/ Goes(c, "hooks")
    BY <2>2 DEF Pre, ensureRole, ensureRoleBinding, PreFails, reconcileJob, reconcilePod,
                Requeue, AfterPre, configVars
  <2>3. ASSUME NEW c \in Clusters,
               \/ AddPlugin(c) \/ RoleSync(c) \/ FinishJob(c) \/ RestoreStep(c) \/ RestoreFails(c)
               \/ ArchiveWAL(c) \/ RestoreWAL(c)
        PROVE  UNCHANGED <<key, storeVars, pc>>
    BY <2>3 DEF AddPlugin, RoleSync, FinishJob, RestoreStep, Restore, RestoreSecrets, GetBackupsList,
                BackupFetch, RestoreFails, RestoreLeaves, ArchiveWAL, RestoreWAL, configVars, preVars
  <2>4. ASSUME NEW k \in Configs, ChangeSpec(k)
        PROVE  UNCHANGED <<key, storeVars, pc>>
    BY <2>4 DEF ChangeSpec, preVars
  <2> QED BY <2>1, <2>2, <2>3, <2>4 DEF Next, Operator
<1> QED BY <1>1, <1>2, <1>3, <1>4, <1>5, <1>6

(* If users do not turn its encryption on or off, every backup stored      *)
(* under a config can be read with the key in the Secret of that config.   *)
(* No backup is pushed before the Secret is there, and of the Pre calls    *)
(* that find it missing at once one creates it.                            *)
THEOREM StoredBackupsReadable ==
    ASSUME SteadyEncryption
    PROVE  Spec => []KeysFit
<1>1. Init => KeyInv
  BY EncodingAssumption DEF Init, KeyInv, KeysAsked, KeysFit
<1>2. KeyInv /\ UNCHANGED vars => KeyInv'
  BY DEF vars, configVars, preVars, storeVars, KeyInv, KeysAsked, KeysFit
<1>3. TypeInv /\ KeyInv /\ Next => KeyInv'
  BY KeyInvStep
<1>4. KeyInv => KeysFit
  BY DEF KeyInv
<1> QED BY <1>1, <1>2, <1>3, <1>4, TypeInvAlways, PTL DEF Spec
=============================================================================
