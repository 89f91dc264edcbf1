--------------------------- MODULE StatusController ---------------------------
(***************************************************************************)
(* The BackupConfig status controller: periodic rounds, the shared queue   *)
(* and its workers, the in-flight set, the availability update and the     *)
(* throttled archive check whose unsaved result is kept for the next try.  *)
(*                                                                         *)
(* What the references of a config resolve to is one number, 0 when an     *)
(* object or a key is missing.  The archive fields of a status (integrity  *)
(* condition, consumed storage) carry the configuration they were scanned  *)
(* with; the times of Backups are left out.  Reads are of the stored       *)
(* object: a reconcile that starts from an older cached copy ends, like    *)
(* one overtaken by a change, with a refused update and nothing done.      *)
(***************************************************************************)
EXTENDS Naturals, Sequences, FiniteSets

CONSTANTS
    Configs,      \* names of BackupConfigs
    Present,      \* those that exist when the operator starts
    NoKey,        \* the key of an idle worker
    Workers,      \* the goroutines of the pool (3 in the code)
    QueueSize,    \* statusReconcileQueueSize (256 in the code)
    Versions,     \* PG major versions that may have an archive
    MaxSecret,    \* bound: contents the references may have
    MaxChanges,   \* bound: changes by users
    MaxFailures   \* bound: failed calls and checks, deadlines, restarts

ASSUME StatusAssumption ==
    /\ QueueSize \in Nat \ {0} /\ IsFiniteSet(Configs)
    /\ Present \subseteq Configs /\ NoKey \notin Configs /\ Versions \subseteq Nat \ {0}
    /\ MaxSecret \in Nat /\ MaxChanges \in Nat /\ MaxFailures \in Nat

VARIABLES
    config,      \* here, uid, generation of each BackupConfig
    status,      \* its status
    secret,      \* what its references resolve to
    queue, inFlight,
    checks,      \* archiveChecks
    wpc, wkey, wconfig, wstatus, wsecret, wscan,   \* the workers
    changes, fails

objVars == <<config, status, secret>>
workerVars == <<wpc, wkey, wconfig, wstatus, wsecret, wscan>>
vars == <<objVars, queue, inFlight, checks, workerVars, changes, fails>>

-----------------------------------------------------------------------------
(* An archiveCheck without its time: the configuration it is about. *)
Identity == [uid : Nat, gen : Nat, secret : Nat]
Id(c, s) == [uid |-> c.uid, gen |-> c.gen, secret |-> s]
NoId == [uid |-> 0, gen |-> 0, secret |-> 0]
NoConfig == [here |-> FALSE, uid |-> 0, gen |-> 0]

(* Conditions; "" is a condition that is not there. *)
CondStatus == {"", "True", "False", "Unknown"}
Cond(holds) == IF holds THEN "True" ELSE "False"
Phases == {"", "Healthy", "Degraded", "Failed", "Unknown"}
Status == [cred : CondStatus, read : CondStatus, write : CondStatus,
           wal : CondStatus, of : Identity, phase : Phases]
NoStatus == [cred |-> "", read |-> "", write |-> "", wal |-> "", of |-> NoId, phase |-> ""]

determinePhase(s) ==
    LET conds == {s.cred, s.read, s.write, s.wal} \ {""}
    IN  IF s.cred = "False" \/ (s.read = "False" /\ s.write = "False") THEN "Failed"
        ELSE IF conds = {"True"} THEN "Healthy"
        ELSE IF "False" \in conds THEN "Degraded"
        ELSE "Unknown"
WithPhase(s) == [s EXCEPT !.phase = determinePhase(s)]

(* A result of the archive scan, and what archiveChecks remembers: fresh   *)
(* until nextCheck, pending while the result is not saved.                 *)
Result == [wal : {"True", "False"}, of : Identity]
NoResult == [wal |-> "", of |-> NoId]
Check == [id : Identity, fresh : BOOLEAN, pending : Result \cup {NoResult}]
NoCheck == [id |-> NoId, fresh |-> FALSE, pending |-> NoResult]
Scanned(s) == s.wal \in {"True", "False"}

Change == changes < MaxChanges /\ changes' = changes + 1
CallFails == fails < MaxFailures /\ fails' = fails + 1

-----------------------------------------------------------------------------
Init ==
    /\ config = [k \in Configs |-> IF k \in Present THEN [here |-> TRUE, uid |-> 1, gen |-> 1]
                                                    ELSE NoConfig]
    /\ status = [k \in Configs |-> NoStatus]
    /\ secret = [k \in Configs |-> 1]
    /\ queue = <<>> /\ inFlight = {}
    /\ checks = [k \in Configs |-> NoCheck]
    /\ wpc = [w \in Workers |-> "idle"]
    /\ wkey = [w \in Workers |-> NoKey]
    /\ wconfig = [w \in Workers |-> NoConfig] /\ wstatus = [w \in Workers |-> NoStatus]
    /\ wsecret = [w \in Workers |-> 0] /\ wscan = [w \in Workers |-> NoResult]
    /\ changes = 0 /\ fails = 0

-----------------------------------------------------------------------------
(* Users. *)
CreateConfig(k) ==
    /\ ~config[k].here /\ Change
    /\ config' = [config EXCEPT ![k] = [here |-> TRUE, uid |-> @.uid + 1, gen |-> 1]]
    /\ status' = [status EXCEPT ![k] = NoStatus]
    /\ UNCHANGED <<secret, queue, inFlight, checks, workerVars, fails>>

DeleteConfig(k) ==
    /\ config[k].here /\ Change
    /\ config' = [config EXCEPT ![k].here = FALSE]
    /\ UNCHANGED <<status, secret, queue, inFlight, checks, workerVars, fails>>

EditConfig(k) ==
    /\ config[k].here /\ Change
    /\ config' = [config EXCEPT ![k].gen = @ + 1]
    /\ UNCHANGED <<status, secret, queue, inFlight, checks, workerVars, fails>>

ChangeSecret(k) ==
    /\ Change
    /\ \E s \in 0..MaxSecret : s # secret[k] /\ secret' = [secret EXCEPT ![k] = s]
    /\ UNCHANGED <<config, status, queue, inFlight, checks, workerVars, fails>>

-----------------------------------------------------------------------------
(* A tick.  Entries of deleted configs are dropped from archiveChecks; the *)
(* round is skipped while requests are pending; a request that finds the   *)
(* queue full is dropped.  The order of the list is arbitrary.             *)
Active == { k \in Configs : config[k].here }
Orders == { o \in [1..Cardinality(Active) -> Active] :
              \A i, j \in DOMAIN o : o[i] = o[j] => i = j }

(* Mutant of EnqueueStatusUpdate: a full queue takes more. *)
EnqueueUnbounded(order) == order

EnqueueStatusUpdate(order) ==
    SubSeq(order, 1, IF Len(order) < QueueSize THEN Len(order) ELSE QueueSize)

enqueueAllStatuses(first) ==
    /\ checks' = [k \in Configs |-> IF config[k].here THEN checks[k] ELSE NoCheck]
    /\ \/ queue # <<>> /\ UNCHANGED queue
       \/ /\ queue = <<>>
          /\ \E order \in Orders : /\ order # <<>> => order[1] = first
                                  /\ queue' = EnqueueStatusUpdate(order)
    /\ UNCHANGED <<objVars, inFlight, workerVars, changes, fails>>

(* The deadline of a check passes. *)
ArchiveIntervalPasses(k) ==
    /\ checks[k].fresh
    /\ checks' = [checks EXCEPT ![k].fresh = FALSE]
    /\ UNCHANGED <<objVars, queue, inFlight, workerVars, changes, fails>>

-----------------------------------------------------------------------------
(* Mutant of worker: the in-flight set is not looked at. *)
TakeAnyway(w) ==
    /\ wpc[w] = "idle" /\ queue # <<>>
    /\ queue' = Tail(queue)
    /\ inFlight' = inFlight \cup {Head(queue)}
    /\ wpc' = [wpc EXCEPT ![w] = "get"] /\ wkey' = [wkey EXCEPT ![w] = Head(queue)]
    /\ UNCHANGED <<objVars, checks, wconfig, wstatus, wsecret, wscan, changes, fails>>

(* worker and tryAcquire: a request for a config that is being reconciled  *)
(* is dropped.                                                             *)
worker(w) ==
    /\ wpc[w] = "idle" /\ queue # <<>>
    /\ queue' = Tail(queue)
    /\ IF Head(queue) \in inFlight
         THEN UNCHANGED <<inFlight, wpc, wkey>>
         ELSE /\ inFlight' = inFlight \cup {Head(queue)}
              /\ wpc' = [wpc EXCEPT ![w] = "get"]
              /\ wkey' = [wkey EXCEPT ![w] = Head(queue)]
    /\ UNCHANGED <<objVars, checks, wconfig, wstatus, wsecret, wscan, changes, fails>>

(* reconcileStatusByKey returns, with or without an error. *)
release(w) ==
    /\ inFlight' = inFlight \ {wkey[w]}
    /\ wpc' = [wpc EXCEPT ![w] = "idle"]
    /\ wconfig' = [wconfig EXCEPT ![w] = NoConfig]
    /\ wstatus' = [wstatus EXCEPT ![w] = NoStatus]
    /\ wsecret' = [wsecret EXCEPT ![w] = 0]
    /\ wscan' = [wscan EXCEPT ![w] = NoResult]
    /\ wkey' = [wkey EXCEPT ![w] = NoKey]

Goes(w, pc) == wpc' = [wpc EXCEPT ![w] = pc] /\ UNCHANGED <<inFlight, wkey>>

(* Get of the BackupConfig. *)
GetConfig(w) ==
    LET k == wkey[w]
    IN  /\ wpc[w] = "get"
        /\ \/ /\ config[k].here
              /\ wconfig' = [wconfig EXCEPT ![w] = config[k]]
              /\ wstatus' = [wstatus EXCEPT ![w] = status[k]]
              /\ Goes(w, "prefetch") /\ UNCHANGED <<wsecret, wscan, fails>>
           \/ ~config[k].here /\ release(w) /\ UNCHANGED fails
           \/ CallFails /\ release(w)
        /\ UNCHANGED <<objVars, queue, checks, changes>>

(* PrefetchSecretsData; any error means that the credentials are invalid. *)
PrefetchSecretsData(w) ==
    /\ wpc[w] = "prefetch"
    /\ \/ /\ secret[wkey[w]] # 0
          /\ wsecret' = [wsecret EXCEPT ![w] = secret[wkey[w]]]
          /\ Goes(w, "check") /\ UNCHANGED fails
       \/ secret[wkey[w]] = 0 /\ Goes(w, "invalid") /\ UNCHANGED <<wsecret, fails>>
       \/ CallFails /\ Goes(w, "invalid") /\ UNCHANGED wsecret
    /\ UNCHANGED <<objVars, queue, checks, wconfig, wstatus, wscan, changes>>

(* client.Status().Update is refused unless the copy is the stored object. *)
CanUpdate(w) == config[wkey[w]] = wconfig[w] /\ status[wkey[w]] = wstatus[w]

MarkCredentialsInvalid(w) ==
    LET k == wkey[w]
    IN  /\ wpc[w] = "invalid"
        /\ \/ /\ CanUpdate(w)
              /\ status' = [status EXCEPT ![k] = [@ EXCEPT !.cred = "False", !.phase = "Failed"]]
              /\ UNCHANGED fails
           \/ ~CanUpdate(w) /\ UNCHANGED <<status, fails>>
           \/ CallFails /\ UNCHANGED status
        /\ release(w)
        /\ UNCHANGED <<config, secret, queue, checks, changes>>

-----------------------------------------------------------------------------
WId(w) == Id(wconfig[w], wsecret[w])

(* Mutant of CurrentCheck: the resolved values are not compared. *)
SameObject(w) ==
    /\ checks[wkey[w]] # NoCheck
    /\ checks[wkey[w]].id.uid = wconfig[w].uid /\ checks[wkey[w]].id.gen = wconfig[w].gen

(* matchesConfig: what is remembered is about the config as this worker    *)
(* has read it.                                                            *)
CurrentCheck(w) == checks[wkey[w]] # NoCheck /\ checks[wkey[w]].id = WId(w)

(* Mutant of Throttled: the time of the next check is not looked at. *)
ThrottledForever(w) == CurrentCheck(w)

(* No scan before nextCheck; a pending result may be saved. *)
Throttled(w) == CurrentCheck(w) /\ checks[wkey[w]].fresh

(* Mutant of Available: credentials once invalid stay so. *)
AvailableKeepingCredentials(w, readable, writable) ==
    LET s == wstatus[w]
        pending == ~CurrentCheck(w) \/ s.wal = ""
    IN  WithPhase([s EXCEPT !.cred = IF @ = "" THEN "True" ELSE @,
                            !.read = Cond(readable), !.write = Cond(writable),
                            !.wal = IF pending THEN "Unknown" ELSE @,
                            !.of = IF pending THEN NoId ELSE @])

(* The status with the outcome of the storage checks: a result of the      *)
(* integrity check is kept only for the configuration it was made with.    *)
Available(w, readable, writable) ==
    LET s == wstatus[w]
        pending == ~CurrentCheck(w) \/ s.wal = ""
    IN  WithPhase([s EXCEPT !.cred = "True", !.read = Cond(readable), !.write = Cond(writable),
                            !.wal = IF pending THEN "Unknown" ELSE @,
                            !.of = IF pending THEN NoId ELSE @])

(* A failed check counts as a failure; the deadline may pass meanwhile.    *)
(* After the update comes reconcileArchiveStatus, if the storage can be    *)
(* read: nothing to do, save again, or scan.                               *)
UpdateAvailability(w) ==
    LET k == wkey[w]
    IN  /\ wpc[w] = "check"
        /\ \/ \E readable, writable \in BOOLEAN :
                /\ IF readable /\ writable THEN UNCHANGED fails ELSE CallFails
                /\ IF ~CanUpdate(w)
                     THEN release(w) /\ UNCHANGED status
                     ELSE /\ status' = [status EXCEPT ![k] = Available(w, readable, writable)]
                          /\ IF ~readable \/ (Throttled(w) /\ checks[k].pending = NoResult)
                               THEN release(w)
                               ELSE /\ IF Throttled(w)
                                         THEN /\ Goes(w, "resave")
                                              /\ wscan' = [wscan EXCEPT ![w] = checks[k].pending]
                                         ELSE Goes(w, "scan") /\ UNCHANGED wscan
                                    /\ wstatus' = [wstatus EXCEPT ![w] = NoStatus]
                                    /\ UNCHANGED <<wconfig, wsecret>>
           \/ CallFails /\ release(w) /\ UNCHANGED status
        /\ UNCHANGED <<config, secret, queue, checks, changes>>

(* The versions probed: those of the owned Backups' labels, unless their   *)
(* deletion keeps archives, they cannot be listed, there are none or one   *)
(* of the labels (0) is unknown.                                           *)
resolvePGVersions(ignore, listed, labels) ==
    IF ~ignore /\ listed /\ labels # {} /\ labels \subseteq Versions THEN labels ELSE Versions
Probes == { resolvePGVersions(ignore, listed, labels) :
              ignore \in BOOLEAN, listed \in BOOLEAN, labels \in SUBSET (Versions \cup {0}) }

(* A version whose archive cannot be shown is skipped and counts as sound. *)
reconcileWALStatus(shown) == Cond(\A v \in DOMAIN shown : shown[v] # "damaged")

Remember(w, result) ==
    checks' = [checks EXCEPT ![wkey[w]] = [id |-> WId(w), fresh |-> TRUE, pending |-> result]]

(* The scan; a deadline ends it and is remembered like a finished one. *)
ScanArchive(w) ==
    /\ wpc[w] = "scan"
    /\ \/ /\ \E vs \in Probes :
               \E shown \in [vs -> {"sound", "damaged", "unavailable"}] :
                  wscan' = [wscan EXCEPT ![w] = [wal |-> reconcileWALStatus(shown), of |-> WId(w)]]
          /\ Goes(w, "save")
          /\ UNCHANGED <<wconfig, wstatus, wsecret, checks, fails>>
       \/ CallFails /\ Remember(w, NoResult) /\ release(w)
    /\ UNCHANGED <<objVars, queue, changes>>

(* updateArchiveStatus writes only to the object and generation scanned.   *)
StillScanned(w) ==
    LET c == config[wkey[w]]
    IN  c.here /\ c.uid = wconfig[w].uid /\ c.gen = wconfig[w].gen

WriteResult(w) ==
    LET k == wkey[w]
    IN  status' = [status EXCEPT ![k] =
                     WithPhase([@ EXCEPT !.wal = wscan[w].wal, !.of = wscan[w].of])]

(* Conflicts are retried, so that reading and writing is one step.  The    *)
(* deadline may pass after the write: the result then counts as unsaved.   *)
SaveArchiveStatus(w) ==
    /\ wpc[w] = "save"
    /\ \/ StillScanned(w) /\ WriteResult(w) /\ Remember(w, NoResult) /\ UNCHANGED fails
       \/ StillScanned(w) /\ WriteResult(w) /\ Remember(w, wscan[w]) /\ CallFails
       \/ ~StillScanned(w) /\ UNCHANGED <<status, fails>> /\ Remember(w, wscan[w])
       \/ CallFails /\ UNCHANGED status /\ Remember(w, wscan[w])
    /\ release(w)
    /\ UNCHANGED <<config, secret, queue, changes>>

(* A pending result is saved without another scan. *)
SaveAgain(w) ==
    LET k == wkey[w]
    IN  /\ wpc[w] = "resave"
        /\ \/ /\ StillScanned(w) /\ WriteResult(w)
              /\ checks' = [checks EXCEPT ![k] = [id |-> WId(w), pending |-> NoResult,
                                                  fresh |-> @ = NoCheck \/ @.fresh]]
              /\ UNCHANGED fails
           \/ StillScanned(w) /\ WriteResult(w) /\ UNCHANGED checks /\ CallFails
           \/ ~StillScanned(w) /\ UNCHANGED <<status, checks, fails>>
           \/ CallFails /\ UNCHANGED <<status, checks>>
        /\ release(w)
        /\ UNCHANGED <<config, secret, queue, changes>>

(* The operator restarts, or another replica becomes the leader. *)
Restart ==
    /\ CallFails
    /\ queue' = <<>> /\ inFlight' = {}
    /\ checks' = [k \in Configs |-> NoCheck]
    /\ wpc' = [w \in Workers |-> "idle"] /\ wkey' = [w \in Workers |-> NoKey]
    /\ wconfig' = [w \in Workers |-> NoConfig] /\ wstatus' = [w \in Workers |-> NoStatus]
    /\ wsecret' = [w \in Workers |-> 0] /\ wscan' = [w \in Workers |-> NoResult]
    /\ UNCHANGED <<objVars, changes>>

-----------------------------------------------------------------------------
WorkerStep(w) ==
    \/ worker(w) \/ GetConfig(w) \/ PrefetchSecretsData(w) \/ MarkCredentialsInvalid(w)
    \/ UpdateAvailability(w) \/ ScanArchive(w) \/ SaveArchiveStatus(w) \/ SaveAgain(w)

ConfigStep(k) ==
    \/ CreateConfig(k) \/ DeleteConfig(k) \/ EditConfig(k) \/ ChangeSecret(k)
    \/ enqueueAllStatuses(k) \/ ArchiveIntervalPasses(k)

Next ==
    \/ \E k \in Configs : ConfigStep(k)
    \/ \E w \in Workers : WorkerStep(w)
    \/ Restart

Spec == Init /\ [][Next]_vars

(* Goroutines run, ticks recur, time passes.  The list comes from a Go map *)
(* in random order, so that every config is first again and again.         *)
Fairness ==
    /\ \A k \in Configs : SF_vars(enqueueAllStatuses(k)) /\ WF_vars(ArchiveIntervalPasses(k))
    /\ \A w \in Workers : WF_vars(WorkerStep(w))
FairSpec == Spec /\ Fairness

-----------------------------------------------------------------------------
WorkerPC == {"idle", "get", "prefetch", "invalid", "check", "scan", "save", "resave"}
Config == [here : BOOLEAN, uid : Nat, gen : Nat]

TypeOK ==
    /\ config \in [Configs -> Config] /\ status \in [Configs -> Status]
    /\ secret \in [Configs -> Nat]
    /\ queue \in Seq(Configs) /\ Len(queue) <= QueueSize /\ inFlight \subseteq Configs
    /\ checks \in [Configs -> Check]
    /\ wpc \in [Workers -> WorkerPC] /\ wkey \in [Workers -> Configs \cup {NoKey}]
    /\ wconfig \in [Workers -> Config] /\ wstatus \in [Workers -> Status]
    /\ wsecret \in [Workers -> Nat] /\ wscan \in [Workers -> Result \cup {NoResult}]
    /\ changes \in Nat /\ fails \in Nat

Busy(w) == wpc[w] # "idle"

(* The keys in flight are those of the busy workers, and no two workers    *)
(* reconcile the same config, whatever is requested and however            *)
(* reconciliations end.                                                    *)
OneWorkerPerConfig ==
    /\ inFlight = { wkey[w] : w \in { v \in Workers : Busy(v) } }
    /\ \A v, w \in Workers : Busy(v) /\ Busy(w) /\ wkey[v] = wkey[w] => v = w

OwnResultsWritten ==
    \A k \in Configs :
      status'[k] # status[k] /\ Scanned(status'[k]) /\ status'[k].cred = "True" =>
        \E w \in Workers : /\ Busy(w) /\ wkey[w] = k
                           /\ status'[k].of = Id(config[k], wsecret[w])

(* A write to a status leaves no integrity result in it but one that was   *)
(* obtained from the stored object and generation and with the values the  *)
(* writing worker has resolved: a Healthy or Degraded config is not so by  *)
(* the archive of an earlier configuration.  It needs the comparison of    *)
(* the remembered check, the one before a late write and the in-flight set.*)
OnlyOwnResults == [][OwnResultsWritten]_vars

(* Once nothing changes any more, the status shows whether the references  *)
(* resolve, though requests are dropped when the queue is full or the      *)
(* config is in flight and rounds are skipped while requests are pending.  *)
CredentialsShown ==
    \A k \in Configs :
      <>[](config[k].here => (status[k].cred = "True" <=> secret[k] # 0))

(* Then, too, the status holds a result for the current configuration:     *)
(* neither the throttle nor a result that could not be saved keeps an      *)
(* older one or none.                                                      *)
ArchiveChecked ==
    \A k \in Configs :
      <>[](config[k].here /\ secret[k] # 0 =>
             Scanned(status[k]) /\ status[k].of = Id(config[k], secret[k]))
=============================================================================
