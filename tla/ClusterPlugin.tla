---------------------------- MODULE ClusterPlugin ----------------------------
(***************************************************************************)
(* What the plugin does for CNPG Clusters.  In the operator: Pre, called   *)
(* by CNPG in every reconcile of a Cluster, makes encryption keys, the     *)
(* Role and its binding; the lifecycle hook puts the sidecar into recovery *)
(* Jobs and instance Pods.  In the sidecar, whose reads that Role limits:  *)
(* the restore of a base backup, and the archive and restore of WAL files. *)
(*                                                                         *)
(* Backups are numbered in the order wal-g lists them.  The objects users  *)
(* make are taken to exist (ReferenceProtection is about those); the       *)
(* generated encryption Secrets are there once `key' is not 0.             *)
(***************************************************************************)
EXTENDS References, Naturals, Sequences, FiniteSetsExt, Functions

CONSTANTS
    Clusters,
    Configs,
    ArchiveOf,    \* the config of a Cluster's plugin entry
    RecoveryOf,   \* the config of a Cluster's recovery source, or Nil
    Own,          \* name of the encryption Secret generated for a config
    Specs,        \* Specs[k]: specs users may give to config k
    Start,        \* the specs there may be at the start, Nil for a missing config
    Targets,      \* recovery targets
    Finish,       \* Finish[b]: finish time of backup b, Nil if it cannot be parsed
    FinishLSN,
    MaxEvents     \* bound: changes by users and by other clusters, failed calls

Backups == DOMAIN Finish
NoBackup == 0

ASSUME ClusterAssumption ==
    /\ ArchiveOf \in [Clusters -> Configs] /\ RecoveryOf \in [Clusters -> Configs \cup {Nil}]
    /\ Finish \in Seq(Nat \cup {Nil}) /\ FinishLSN \in [Backups -> Nat]
    /\ \A k \in Configs : Nil \notin Specs[k]
    /\ \A s \in Start : /\ DOMAIN s = Configs
                        /\ \A k \in Configs : s[k] \in Specs[k] \cup {Nil}
    /\ MaxEvents \in Nat

(* Nil and the places of Pre are not names of configs or numbers.  A       *)
(* target names a backup or not; CNPG admits a time or an LSN, not both.   *)
ASSUME EncodingAssumption ==
    /\ Nil \notin Configs \cup Nat /\ Configs \cap {"idle", "secrets", "binding", "hooks"} = {}
    /\ \A t \in Targets : t # Nil =>
         /\ t.backup \in Backups \cup {Nil}
         /\ t.time \in Nat \cup {Nil} /\ t.lsn \in Nat \cup {Nil} /\ (t.time = Nil \/ t.lsn = Nil)

VARIABLES
    spec,        \* the BackupConfigs, Nil if not there
    key, keys,   \* the generated encryption keys, 0 if not there; keys made so far
    archiving,   \* Clusters with the plugin entry
    target,      \* the Clusters' recovery targets, or Nil
    role, rolecache, bound,   \* Roles, the operator's copies of them, RoleBindings
    pc, seen,    \* Pre and the hooks: place, or the config whose key is made; configs read
    job, pod,    \* a Cluster's bootstrap Job and instance Pod: the sidecar's mode
    rpc, rspec, rkey, rlist, rbackup,   \* the running Restore
    restored,    \* the backup a Cluster was restored from
    replayed,    \* history: archives a Cluster under recovery got WAL files from
    archived,    \* history: Clusters with a recovery source that sent WAL files, before its end?
    store, pushed,            \* the backups in the storage of each config
    lock,        \* the key each of them is encrypted with
    events

configVars == <<spec, key, keys, archiving, target>>
roleVars == <<role, rolecache, bound>>
preVars == <<pc, seen>>
restoreVars == <<rpc, rspec, rkey, rlist, rbackup, restored>>
walVars == <<replayed, archived>>
storeVars == <<store, pushed, lock>>
vars == <<configVars, roleVars, preVars, job, pod, restoreVars, walVars, storeVars, events>>

Event == events < MaxEvents /\ events' = events + 1

Init ==
    /\ spec \in Start
    /\ key = [k \in Configs |-> 0] /\ keys = 0
    /\ archiving \in { {c \in Clusters : RecoveryOf[c] = Nil}, Clusters }
    /\ target \in { t \in [Clusters -> Targets \cup {Nil}] :
                      \A c \in Clusters : RecoveryOf[c] = Nil => t[c] = Nil }
    /\ role = [c \in Clusters |-> Nil] /\ rolecache = role /\ bound = {}
    /\ pc = [c \in Clusters |-> "idle"]
    /\ seen = [c \in Clusters |-> <<>>]
    /\ job = [c \in Clusters |-> "none"] /\ pod = [c \in Clusters |-> "none"]
    /\ rpc = [c \in Clusters |-> "idle"] /\ rspec = [c \in Clusters |-> Nil]
    /\ rkey = [c \in Clusters |-> 0] /\ rlist = [c \in Clusters |-> {}]
    /\ rbackup = [c \in Clusters |-> NoBackup] /\ restored = rbackup
    /\ replayed = [c \in Clusters |-> {}] /\ archived = {}
    /\ store = [k \in Configs |-> {}] /\ pushed = [k \in Configs |-> 0]
    /\ lock = [k \in Configs |-> [b \in Backups |-> 0]]
    /\ events = 0

-----------------------------------------------------------------------------
(* Users create and change configs (only changes are bounded) and Clusters; *)
(* the informer.                                                           *)
ChangeSpec(k) ==
    /\ IF spec[k] = Nil THEN UNCHANGED events ELSE Event
    /\ \E s \in Specs[k] : s # spec[k] /\ validateBackupConfig(s) /\ spec' = [spec EXCEPT ![k] = s]
    /\ UNCHANGED <<key, keys, archiving, target, roleVars, preVars, job, pod, restoreVars, walVars, storeVars>>

AddPlugin(c) ==
    /\ Event /\ c \notin archiving
    /\ archiving' = archiving \cup {c}
    /\ UNCHANGED <<spec, key, keys, target, roleVars, preVars, job, pod, restoreVars, walVars, storeVars>>

RoleSync(c) ==
    /\ rolecache[c] # role[c]
    /\ rolecache' = [rolecache EXCEPT ![c] = role[c]]
    /\ UNCHANGED <<configVars, role, bound, preVars, job, pod, restoreVars, walVars,
                   storeVars, events>>

-----------------------------------------------------------------------------
(* Pre.  Every error makes CNPG reconcile the Cluster again.               *)
Goes(c, place) == pc' = [pc EXCEPT ![c] = place]
Requeue(c) == Goes(c, "idle") /\ seen' = [seen EXCEPT ![c] = <<>>]

GetBackupConfigForCluster(c) ==
    IF c \in archiving THEN <<[name |-> ArchiveOf[c], spec |-> spec[ArchiveOf[c]]]>> ELSE <<>>
GetBackupConfigForClusterRecovery(c) ==
    IF RecoveryOf[c] = Nil THEN <<>> ELSE <<[name |-> RecoveryOf[c], spec |-> spec[RecoveryOf[c]]]>>

Found(configs) == \A config \in Range(configs) : config.spec # Nil

(* The reads are the informer's.  Pre ends at a missing config.            *)
Pre(c) ==
    LET configs == GetBackupConfigForCluster(c) \o GetBackupConfigForClusterRecovery(c)
    IN  /\ pc[c] = "idle" /\ Found(configs)
        /\ Goes(c, "secrets") /\ seen' = [seen EXCEPT ![c] = configs]
        /\ UNCHANGED <<configVars, roleVars, job, pod, restoreVars, walVars, storeVars, events>>

(* A generated key's Secret that is missing is created, with a new random  *)
(* key, in a call that fails if another Cluster's Pre was faster.          *)
Generated(s) == s.encryption.method = "libsodium" /\ s.encryption.secret = Nil
Missing(c) == { config \in Range(seen[c]) : Generated(config.spec) /\ key[config.name] = 0 }

ensureEncryptionSecret(c) ==
    /\ pc[c] = "secrets"
    /\ \E config \in Missing(c) : Goes(c, config.name)
    /\ UNCHANGED <<configVars, roleVars, seen, job, pod, restoreVars, walVars, storeVars, events>>

(* Mutant of CreateSecret: written whether it is there or not. *)
WriteSecret(c, k) ==
    /\ pc[c] = k
    /\ keys' = keys + 1 /\ key' = [key EXCEPT ![k] = keys']
    /\ Goes(c, "secrets")
    /\ UNCHANGED <<spec, archiving, target, roleVars, seen, job, pod, restoreVars,
                   walVars, storeVars, events>>

CreateSecret(c, k) ==
    /\ pc[c] = k
    /\ IF key[k] = 0
         THEN /\ keys' = keys + 1 /\ key' = [key EXCEPT ![k] = keys']
              /\ Goes(c, "secrets") /\ UNCHANGED seen
         ELSE Requeue(c) /\ UNCHANGED <<key, keys>>
    /\ UNCHANGED <<spec, archiving, target, roleVars, job, pod, restoreVars,
                   walVars, storeVars, events>>

(* The rules of the Role for the configs read.  An existing Role, as the   *)
(* informer shows it, is patched if its rules differ.                      *)
ConfigRef(k) == [kind |-> "BackupConfig", name |-> k]
BuildRoleForBackupConfigs(configs) ==
    UNION { {ConfigRef(config.name)} \cup collectSecretsAndConfigMapsNames(config.spec, Own[config.name]) :
            config \in Range(configs) }

(* The hooks are next, unless CNPG waits for the Job. *)
AfterPre(c) == IF job[c] \in {"none", "done"} THEN "hooks" ELSE "idle"

(* Mutant of ensureRole: a Role once made is left alone. *)
ensureRoleExists(c) ==
    /\ pc[c] = "secrets" /\ Missing(c) = {}
    /\ IF role[c] = Nil
         THEN role' = [role EXCEPT ![c] = BuildRoleForBackupConfigs(seen[c])]
         ELSE UNCHANGED role
    /\ Goes(c, IF c \in bound THEN AfterPre(c) ELSE "binding")
    /\ seen' = [seen EXCEPT ![c] = <<>>]
    /\ UNCHANGED <<configVars, rolecache, bound, job, pod, restoreVars, walVars,
                   storeVars, events>>

ensureRole(c) ==
    LET rules == BuildRoleForBackupConfigs(seen[c])
    IN  /\ pc[c] = "secrets" /\ Missing(c) = {}
        /\ \/ /\ rolecache[c] = Nil /\ role[c] # Nil
              /\ Requeue(c) /\ UNCHANGED role
           \/ /\ rolecache[c] = Nil => role[c] = Nil
              /\ role' = IF rolecache[c] = rules THEN role ELSE [role EXCEPT ![c] = rules]
              /\ Goes(c, IF c \in bound THEN AfterPre(c) ELSE "binding")
              /\ seen' = [seen EXCEPT ![c] = <<>>]
        /\ UNCHANGED <<configVars, rolecache, bound, job, pod, restoreVars, walVars,
                       storeVars, events>>

(* The RoleBinding is read without lag: to find it missing although it is  *)
(* there would be a failed call (PreFails).                                *)
ensureRoleBinding(c) ==
    /\ pc[c] = "binding"
    /\ bound' = bound \cup {c} /\ Goes(c, AfterPre(c))
    /\ UNCHANGED <<configVars, role, rolecache, seen, job, pod, restoreVars, walVars,
                   storeVars, events>>

PreFails(c) ==
    /\ pc[c] # "idle"
    /\ Event
    /\ Requeue(c)
    /\ UNCHANGED <<configVars, roleVars, job, pod, restoreVars, walVars, storeVars>>

-----------------------------------------------------------------------------
(* The lifecycle hook, when CNPG goes on to make the Job that bootstraps   *)
(* the Cluster and then its Pod, or looks at the Pod again.  A Pod spec is *)
(* the mode its sidecar runs in, "plain" without one.                      *)
getCNPGJobRole(c) == IF RecoveryOf[c] = Nil THEN "initdb" ELSE "full-recovery"

(* A sidecar that is there already is left as it is. *)
injectPluginSidecarPodSpec(podSpec, mode) == IF podSpec = "plain" THEN mode ELSE podSpec

(* Mutant of reconcilePodSpecWithPluginSidecar: one mode for all. *)
AlwaysNormal(podSpec, jobRole) == injectPluginSidecarPodSpec(podSpec, "normal")

reconcilePodSpecWithPluginSidecar(podSpec, jobRole) ==
    injectPluginSidecarPodSpec(podSpec, IF jobRole = "full-recovery" THEN "recovery" ELSE "normal")

reconcileJob(c) ==
    /\ pc[c] = "hooks" /\ job[c] = "none"
    /\ job' = [job EXCEPT ![c] =
                 IF getCNPGJobRole(c) # "full-recovery" \/ GetBackupConfigForClusterRecovery(c) = <<>>
                   THEN "plain" ELSE reconcilePodSpecWithPluginSidecar("plain", "full-recovery")]
    /\ Requeue(c)
    /\ UNCHANGED <<configVars, roleVars, pod, restoreVars, walVars, storeVars, events>>

(* Mutant of reconcilePod: the role of the Job is taken for the Pod. *)
reconcilePodAsJob(c) ==
    /\ pc[c] = "hooks" /\ job[c] = "done"
    /\ pod' = [pod EXCEPT ![c] = reconcilePodSpecWithPluginSidecar("plain", getCNPGJobRole(c))]
    /\ Requeue(c)
    /\ UNCHANGED <<configVars, roleVars, job, restoreVars, walVars, storeVars, events>>

reconcilePod(c) ==
    /\ pc[c] = "hooks" /\ job[c] = "done"
    /\ LET podSpec == IF pod[c] = "none" THEN "plain" ELSE pod[c]
       IN  pod' = IF ~Found(GetBackupConfigForCluster(c)) THEN pod
                  ELSE [pod EXCEPT ![c] =
                          IF GetBackupConfigForCluster(c) = <<>> THEN podSpec
                          ELSE reconcilePodSpecWithPluginSidecar(podSpec, "postgres")]
    /\ Requeue(c)
    /\ UNCHANGED <<configVars, roleVars, job, restoreVars, walVars, storeVars, events>>

FinishJob(c) ==
    /\ job[c] = "plain" \/ (job[c] # "none" /\ restored[c] # NoBackup)
    /\ job[c] # "done" /\ job' = [job EXCEPT ![c] = "done"]
    /\ UNCHANGED <<configVars, roleVars, preVars, pod, restoreVars, walVars, storeVars, events>>

-----------------------------------------------------------------------------
(* The sidecar.  It reads a config and what the config refers to as far as *)
(* the Role allows and the Secret of a generated key is there.             *)
Readable(c, o) == c \in bound /\ role[c] # Nil /\ o \in role[c]

GetConfig(c, k) == spec[k] # Nil /\ Readable(c, ConfigRef(k))
Prefetch(c, k, s) ==
    /\ \A o \in Reads(s, Own[k]) : Readable(c, o)
    /\ PrefetchSecretsData(s, Own[k], IF key[k] = 0 /\ Generated(s)
                                        THEN Reads(s, Own[k]) \ {Secret(Own[k])} ELSE Reads(s, Own[k]))
EncryptionKey(k, s) == IF Generated(s) THEN key[k] ELSE 0

(* The choice of a backup.  Timeline parses "0x" and eight digits in base  *)
(* 16, which always fails, and the error is ignored: the filter lets every *)
(* backup pass.  A target without a timeline, or with "latest", has Nil.   *)
Timeline(b) == 0
HasMatchingTimeline(b, tli) == tli \in Nat => Timeline(b) <= tli

Last(backups) == IF backups = {} THEN NoBackup ELSE Max(backups)

findClosestBackupFromTargetTime(backups, time, tli) ==
    Last({ b \in backups : Finish[b] # Nil /\ HasMatchingTimeline(b, tli) /\ Finish[b] <= time })
findClosestBackupFromTargetLSN(backups, lsn, tli) ==
    Last({ b \in backups : HasMatchingTimeline(b, tli) /\ FinishLSN[b] < lsn })
findLatestBackupFromTimeline(backups, tli) ==
    Last({ b \in backups : HasMatchingTimeline(b, tli) })

(* Mutant of FindMostSuitableBackupForRecovery: the time is not looked at. *)
FindLatestBackup(backups, t) ==
    IF t # Nil /\ t.backup # Nil THEN (IF t.backup \in backups THEN t.backup ELSE NoBackup)
    ELSE Last(backups)

FindMostSuitableBackupForRecovery(backups, t) ==
    IF t = Nil THEN Last(backups)
    ELSE IF t.backup # Nil THEN (IF t.backup \in backups THEN t.backup ELSE NoBackup)
    ELSE IF t.time # Nil THEN findClosestBackupFromTargetTime(backups, t.time, t.tli)
    ELSE IF t.lsn # Nil THEN findClosestBackupFromTargetLSN(backups, t.lsn, t.tli)
    ELSE findLatestBackupFromTimeline(backups, t.tli)

(* Restore, called by the Job's main container, which calls again after an *)
(* error: config, Secrets, list and choice, fetch.                         *)
RestoreGoes(c, place, s, k, list, b) ==
    /\ rpc' = [rpc EXCEPT ![c] = place] /\ rspec' = [rspec EXCEPT ![c] = s]
    /\ rkey' = [rkey EXCEPT ![c] = k] /\ rlist' = [rlist EXCEPT ![c] = list]
    /\ rbackup' = [rbackup EXCEPT ![c] = b]
RestoreEnds(c) == RestoreGoes(c, "idle", Nil, 0, {}, NoBackup)
RestoreLeaves == UNCHANGED <<configVars, roleVars, preVars, job, pod, walVars, storeVars>>

Restore(c) ==
    /\ job[c] = "recovery" /\ rpc[c] = "idle" /\ restored[c] = NoBackup
    /\ GetConfig(c, RecoveryOf[c])
    /\ RestoreGoes(c, "secrets", spec[RecoveryOf[c]], 0, {}, NoBackup)
    /\ RestoreLeaves /\ UNCHANGED <<restored, events>>

RestoreSecrets(c) ==
    /\ rpc[c] = "secrets"
    /\ IF Prefetch(c, RecoveryOf[c], rspec[c])
         THEN RestoreGoes(c, "list", rspec[c], EncryptionKey(RecoveryOf[c], rspec[c]), {}, NoBackup)
         ELSE RestoreEnds(c)
    /\ RestoreLeaves /\ UNCHANGED <<restored, events>>

GetBackupsList(c) ==
    LET list == store[RecoveryOf[c]]
        b == FindMostSuitableBackupForRecovery(list, target[c])
    IN  /\ rpc[c] = "list"
        /\ IF b = NoBackup THEN RestoreEnds(c) ELSE RestoreGoes(c, "fetch", Nil, rkey[c], list, b)
        /\ RestoreLeaves /\ UNCHANGED <<restored, events>>

(* wal-g backup-fetch: the backup must still be there, and be encrypted    *)
(* with the key at hand.                                                   *)
BackupFetch(c) ==
    /\ rpc[c] = "fetch"
    /\ IF rbackup[c] \in store[RecoveryOf[c]] /\ lock[RecoveryOf[c]][rbackup[c]] = rkey[c]
         THEN /\ restored' = [restored EXCEPT ![c] = rbackup[c]]
              /\ RestoreGoes(c, "done", Nil, rkey[c], rlist[c], rbackup[c])
         ELSE RestoreEnds(c) /\ UNCHANGED restored
    /\ RestoreLeaves /\ UNCHANGED events

RestoreFails(c) ==
    /\ rpc[c] \in {"secrets", "list", "fetch"}
    /\ Event
    /\ RestoreEnds(c)
    /\ RestoreLeaves /\ UNCHANGED restored

-----------------------------------------------------------------------------
(* WAL files and backups of running instances.  The mode decides which     *)
(* config the sidecar uses; a failed call changes nothing.                 *)
Mode(c) == IF job[c] = "done" THEN pod[c] ELSE job[c]
InUseBy(c) == IF Mode(c) = "recovery" THEN RecoveryOf[c] ELSE ArchiveOf[c]
getBackupConfig(c) ==
    LET k == InUseBy(c)
    IN  /\ (Mode(c) = "recovery" \/ c \in archiving) /\ GetConfig(c, k) /\ Prefetch(c, k, spec[k])

ArchiveWAL(c) ==
    /\ Mode(c) = "normal" /\ getBackupConfig(c)
    /\ archived' = IF RecoveryOf[c] = Nil THEN archived
                   ELSE archived \cup {[cluster |-> c, recovering |-> job[c] # "done"]}
    /\ UNCHANGED <<configVars, roleVars, preVars, job, pod, restoreVars, replayed, storeVars, events>>

RestoreWAL(c) ==
    /\ Mode(c) \in {"normal", "recovery"} /\ job[c] # "done" /\ restored[c] # NoBackup
    /\ getBackupConfig(c)
    /\ replayed' = [replayed EXCEPT ![c] = @ \cup {InUseBy(c)}]
    /\ UNCHANGED <<configVars, roleVars, preVars, job, pod, restoreVars, archived, storeVars, events>>

(* A base backup by a Cluster whose archive another one recovers from, and *)
(* its removal.                                                            *)
BackupPush(c) ==
    LET k == InUseBy(c)
        b == pushed[k] + 1
    IN  /\ Mode(c) = "normal" /\ getBackupConfig(c)
        /\ \E d \in Clusters : RecoveryOf[d] = k
        /\ b \in Backups /\ pushed' = [pushed EXCEPT ![k] = b]
        /\ store' = [store EXCEPT ![k] = @ \cup {b}]
        /\ lock' = [lock EXCEPT ![k][b] = EncryptionKey(k, spec[k])]
        /\ UNCHANGED <<configVars, roleVars, preVars, job, pod, restoreVars, walVars, events>>

DeleteBackup(k, b) ==
    /\ Event /\ b \in store[k]
    /\ store' = [store EXCEPT ![k] = @ \ {b}]
    /\ UNCHANGED <<configVars, roleVars, preVars, job, pod, restoreVars, walVars, pushed, lock>>

-----------------------------------------------------------------------------
Operator(c) ==
    \/ Pre(c) \/ ensureEncryptionSecret(c) \/ (\E k \in Configs : CreateSecret(c, k))
    \/ ensureRole(c) \/ ensureRoleBinding(c)
    \/ reconcileJob(c) \/ reconcilePod(c)
RestoreStep(c) == Restore(c) \/ RestoreSecrets(c) \/ GetBackupsList(c) \/ BackupFetch(c)

Next ==
    \/ \E k \in Configs : ChangeSpec(k)
    \/ \E k \in Configs, b \in Backups : DeleteBackup(k, b)
    \/ \E c \in Clusters :
          \/ AddPlugin(c) \/ RoleSync(c) \/ Operator(c) \/ PreFails(c) \/ FinishJob(c)
          \/ RestoreStep(c) \/ RestoreFails(c)
          \/ ArchiveWAL(c) \/ RestoreWAL(c) \/ BackupPush(c)

Spec == Init /\ [][Next]_vars

(* CNPG reconciles a Cluster again after errors and whenever its Job or    *)
(* Pods change, the Job calls Restore again, informers deliver.  Nothing   *)
(* makes a Cluster push backups or a Job end.  All this is needed only of  *)
(* the Clusters that recover.                                              *)
Recovering == { c \in Clusters : RecoveryOf[c] # Nil }
Fairness ==
    \A c \in Recovering : WF_vars(Operator(c)) /\ WF_vars(RoleSync(c)) /\ WF_vars(RestoreStep(c))
FairSpec == Spec /\ Fairness

-----------------------------------------------------------------------------
TypeOK ==
    /\ key \in [Configs -> Nat] /\ keys \in Nat
    /\ \A k \in Configs : spec[k] \in Specs[k] \cup {Nil}
    /\ archiving \subseteq Clusters /\ bound \subseteq Clusters
    /\ pc \in [Clusters -> {"idle", "secrets", "binding", "hooks"} \cup Configs]
    /\ job \in [Clusters -> {"none", "plain", "recovery", "normal", "done"}]
    /\ pod \in [Clusters -> {"none", "plain", "normal"}]
    /\ rpc \in [Clusters -> {"idle", "secrets", "list", "fetch", "done"}]
    /\ rbackup \in [Clusters -> Backups \cup {NoBackup}] /\ restored \in [Clusters -> Backups \cup {NoBackup}]
    /\ rlist \in [Clusters -> SUBSET Backups] /\ store \in [Configs -> SUBSET Backups]
    /\ lock \in [Configs -> [Backups -> Nat]]
    /\ pushed \in [Configs -> 0..Len(Finish)] /\ events \in 0..MaxEvents

(* The backups a target allows: the one it names or, if it names none,     *)
(* those finished by its time, those that end before its LSN, or all.  Of  *)
(* the target's timeline it says nothing.                                  *)
Reaches(b, t) ==
    t # Nil => \/ t.backup # Nil /\ b = t.backup
               \/ /\ t.backup = Nil
                  /\ t.time # Nil => Finish[b] # Nil /\ Finish[b] <= t.time
                  /\ t.lsn # Nil => FinishLSN[b] < t.lsn

(* A Cluster is restored from a backup its target allows, and no later     *)
(* backup that was complete when Restore listed the storage would have     *)
(* done: the list is scanned from its end, and the storage goes on         *)
(* changing between the list and the fetch.  This is about targets that    *)
(* leave the timeline open or name the backup: for one with a timeline the *)
(* code may choose a backup of a later timeline, which HasMatchingTimeline *)
(* is there to exclude and, with Timeline always 0, does not.              *)
TimelineOpen(t) == t # Nil => t.backup # Nil \/ t.tli = Nil
BestBackupRestored ==
    \A c \in Clusters :
       restored[c] # NoBackup /\ TimelineOpen(target[c]) =>
          /\ Reaches(restored[c], target[c])
          /\ \A b \in rlist[c] : Reaches(b, target[c]) => b <= restored[c]

(* Every stored backup can be read with the key in its config's Secret,    *)
(* though the Pre calls of all Clusters that use the config may find the   *)
(* Secret missing at once: only one of them gets to create it.             *)
KeysFit == \A k \in Configs : \A b \in store[k] : lock[k][b] = key[k]

(* A Cluster under recovery gets WAL files from its recovery source only,  *)
(* and archives none of its own: the hook's mode makes the sidecar use the *)
(* right config, also if the Cluster has one for its own archive.          *)
RecoversFromSource ==
    /\ \A c \in Clusters : replayed[c] \subseteq {RecoveryOf[c]}
    /\ \A a \in archived : ~a.recovering

(* If the Cluster's configs and a backup its target allows are there to    *)
(* stay, the Cluster is restored.  For this the key must be made, the Role *)
(* must follow the config, whose references users change, although Pre     *)
(* compares with an outdated copy of it, and it must name everything the   *)
(* sidecar reads; a backup gone since the list means another try.          *)
Restorable(c) ==
    /\ spec[RecoveryOf[c]] # Nil /\ Found(GetBackupConfigForCluster(c))
    /\ \E b \in store[RecoveryOf[c]] : Reaches(b, target[c])
ClustersRecover ==
    \A c \in Recovering : <>[]Restorable(c) => <>(restored[c] # NoBackup)
=============================================================================
