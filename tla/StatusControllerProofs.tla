----------------------- MODULE StatusControllerProofs -----------------------
(***************************************************************************)
(* Proofs about StatusController, for any number of BackupConfigs and      *)
(* workers, any queue size and any number of changes and failures.         *)
(***************************************************************************)
EXTENDS StatusController, FiniteSetTheorems, TLAPS

(* A result in the status of a config, and one waiting to be saved, are    *)
(* about the configuration archiveChecks remembers.                        *)
CheckAgrees(k) ==
    /\ checks[k] # NoCheck /\ Scanned(status[k]) => status[k].of = checks[k].id
    /\ checks[k].pending # NoResult => checks[k].pending.of = checks[k].id

(* Past the availability update, a worker holds a result of, leaves in the *)
(* status only results of, and finds remembered only the configuration it  *)
(* has read.                                                               *)
WorkerAgrees(w) ==
    /\ wpc[w] \in {"scan", "save", "resave"} /\ Scanned(status[wkey[w]]) =>
         status[wkey[w]].of = WId(w)
    /\ wpc[w] \in {"save", "resave"} => wscan[w].of = WId(w)
    /\ wpc[w] = "resave" => checks[wkey[w]] = NoCheck \/ checks[wkey[w]].id = WId(w)

ResultInv ==
    /\ TypeOK /\ OneWorkerPerConfig
    /\ \A k \in Configs : CheckAgrees(k)
    /\ \A w \in Workers : WorkerAgrees(w)

-----------------------------------------------------------------------------
(* Types.                                                                  *)
LEMMA NothingTypes ==
    /\ NoConfig \in Config /\ NoStatus \in Status /\ NoId \in Identity
    /\ NoResult \in Result \cup {NoResult} /\ NoCheck \in Check
BY DEF NoConfig, Config, NoStatus, Status, CondStatus, Phases, NoId, Identity, NoCheck, Check

LEMMA IdType == \A c \in Config, s \in Nat : Id(c, s) \in Identity
BY DEF Config, Id, Identity

LEMMA PhaseType == \A s \in Status : WithPhase(s) \in Status
<1>1. \A s \in Status : determinePhase(s) \in Phases
  BY DEF determinePhase, Phases
<1> QED BY <1>1 DEF WithPhase, Status

(* The part of TypeOK about workers and the in-flight set. *)
WorkersTyped ==
    /\ inFlight \subseteq Configs
    /\ wpc \in [Workers -> WorkerPC] /\ wkey \in [Workers -> Configs \cup {NoKey}]
    /\ wconfig \in [Workers -> Config] /\ wstatus \in [Workers -> Status]
    /\ wsecret \in [Workers -> Nat] /\ wscan \in [Workers -> Result \cup {NoResult}]

LEMMA ReleaseType ==
    ASSUME TypeOK, NEW w \in Workers, release(w)
    PROVE  WorkersTyped'
<1>1. inFlight' \subseteq Configs BY DEF TypeOK, release
<1>2. wpc' \in [Workers -> WorkerPC] BY DEF TypeOK, release, WorkerPC
<1>3. wkey' \in [Workers -> Configs \cup {NoKey}] BY DEF TypeOK, release
<1>4. wconfig' \in [Workers -> Config] BY NothingTypes DEF TypeOK, release
<1>5. wstatus' \in [Workers -> Status] BY NothingTypes DEF TypeOK, release
<1>6. wsecret' \in [Workers -> Nat] BY DEF TypeOK, release
<1>7. wscan' \in [Workers -> Result \cup {NoResult}] BY NothingTypes DEF TypeOK, release
<1> QED BY <1>1, <1>2, <1>3, <1>4, <1>5, <1>6, <1>7 DEF WorkersTyped

LEMMA GoesType ==
    ASSUME TypeOK, NEW w \in Workers, NEW pc \in WorkerPC, Goes(w, pc)
    PROVE  /\ inFlight' \subseteq Configs /\ wpc' \in [Workers -> WorkerPC]
           /\ wkey' \in [Workers -> Configs \cup {NoKey}]
BY DEF TypeOK, Goes

LEMMA BusyKey ==
    ASSUME TypeOK, OneWorkerPerConfig, NEW w \in Workers, Busy(w)
    PROVE  wkey[w] \in Configs
BY DEF TypeOK, OneWorkerPerConfig

LEMMA QueueTypes ==
    ASSUME TypeOK, NEW order \in Orders
    PROVE  EnqueueStatusUpdate(order) \in Seq(Configs) /\ Len(EnqueueStatusUpdate(order)) <= QueueSize
<1>1. Active \subseteq Configs /\ IsFiniteSet(Active)
  BY StatusAssumption, FS_Subset DEF Active
<1>2. Cardinality(Active) \in Nat
  BY <1>1, FS_CardinalityType
<1>3. order \in Seq(Configs)
  BY <1>1, <1>2 DEF Orders
<1> DEFINE n == IF Len(order) < QueueSize THEN Len(order) ELSE QueueSize
<1>4. n \in 0..Len(order) /\ n <= QueueSize
  BY <1>3, StatusAssumption
<1>5. SubSeq(order, 1, n) \in Seq(Configs) /\ Len(SubSeq(order, 1, n)) = n
  <2> HIDE DEF n
  <2> QED BY <1>3, <1>4
<1> QED BY <1>4, <1>5 DEF EnqueueStatusUpdate

LEMMA TypeInit == Init => TypeOK
BY NothingTypes, StatusAssumption DEF Init, TypeOK, Config, WorkerPC

(* The rest of TypeOK. *)
StoreTyped ==
    /\ config \in [Configs -> Config] /\ status \in [Configs -> Status]
    /\ secret \in [Configs -> Nat]
    /\ queue \in Seq(Configs) /\ Len(queue) <= QueueSize
    /\ checks \in [Configs -> Check] /\ changes \in Nat /\ fails \in Nat

LEMMA TypeParts == TypeOK <=> StoreTyped /\ WorkersTyped
BY DEF TypeOK, StoreTyped, WorkersTyped

LEMMA AvailableType ==
    ASSUME TypeOK, NEW w \in Workers, NEW readable \in BOOLEAN, NEW writable \in BOOLEAN
    PROVE  Available(w, readable, writable) \in Status
<1> DEFINE pending == ~CurrentCheck(w) \/ wstatus[w].wal = ""
           wal == IF pending THEN "Unknown" ELSE wstatus[w].wal
           of == IF pending THEN NoId ELSE wstatus[w].of
<1>1. wstatus[w] \in Status BY DEF TypeOK
<1>2. wal \in CondStatus /\ of \in Identity
  BY <1>1, NothingTypes DEF Status, CondStatus
<1>3. Available(w, readable, writable) =
        WithPhase([wstatus[w] EXCEPT !.cred = "True", !.read = Cond(readable),
                                     !.write = Cond(writable), !.wal = wal, !.of = of])
  BY DEF Available
<1>4. Cond(readable) \in CondStatus /\ Cond(writable) \in CondStatus /\ "True" \in CondStatus
  BY DEF Cond, CondStatus
<1> HIDE DEF wal, of
<1>5. [wstatus[w] EXCEPT !.cred = "True", !.read = Cond(readable),
                         !.write = Cond(writable), !.wal = wal, !.of = of] \in Status
  BY <1>1, <1>2, <1>4 DEF Status
<1> QED BY <1>3, <1>5, PhaseType

LEMMA RememberType ==
    ASSUME TypeOK, NEW w \in Workers, NEW r \in Result \cup {NoResult}, Remember(w, r)
    PROVE  checks' \in [Configs -> Check]
<1>1. [id |-> WId(w), fresh |-> TRUE, pending |-> r] \in Check
  BY IdType DEF TypeOK, WId, Check
<1> QED BY <1>1 DEF Remember, TypeOK

LEMMA WriteType ==
    ASSUME TypeOK, NEW w \in Workers, wkey[w] \in Configs, WriteResult(w)
    PROVE  status' \in [Configs -> Status]
<1> DEFINE s == status[wkey[w]]
           t == [s EXCEPT !.wal = wscan[w].wal, !.of = wscan[w].of]
<1>1. s \in Status BY DEF TypeOK
<1>2. wscan[w].wal \in CondStatus /\ wscan[w].of \in Identity
  <2>1. wscan[w] \in Result \/ wscan[w] = NoResult BY DEF TypeOK
  <2>2. CASE wscan[w] \in Result BY <2>2 DEF Result, CondStatus
  <2>3. CASE wscan[w] = NoResult
    <3>1. NoResult.wal = "" /\ NoResult.of = NoId BY DEF NoResult
    <3> QED BY <2>3, <3>1, NothingTypes DEF CondStatus
  <2> QED BY <2>1, <2>2, <2>3
<1>3. t \in Status BY <1>1, <1>2 DEF Status
<1>4. WithPhase(t) \in Status BY <1>3, PhaseType
<1>5. status' = [status EXCEPT ![wkey[w]] = WithPhase(t)] BY DEF WriteResult
<1> QED BY <1>4, <1>5 DEF TypeOK

(* The configs, their statuses and secrets, the queue and the remembered   *)
(* checks keep their types.                                                *)
LEMMA StoreTypeNext ==
    ASSUME TypeOK, OneWorkerPerConfig, [Next]_vars
    PROVE  StoreTyped'
<1> USE DEF StoreTyped
<1>1. CASE UNCHANGED vars
  BY <1>1 DEF vars, objVars, TypeOK
<1>2. ASSUME NEW k \in Configs, CreateConfig(k) \/ DeleteConfig(k) \/ EditConfig(k) \/ ChangeSecret(k)
      PROVE  StoreTyped'
  <2>1. changes' \in Nat /\ UNCHANGED <<queue, checks, fails>>
    BY <1>2 DEF CreateConfig, DeleteConfig, EditConfig, ChangeSecret, Change, TypeOK
  <2>2. config' \in [Configs -> Config]
    <3>1. config[k] \in Config BY DEF TypeOK
    <3>2. /\ [here |-> TRUE, uid |-> config[k].uid + 1, gen |-> 1] \in Config
          /\ [config[k] EXCEPT !.here = FALSE] \in Config
          /\ [config[k] EXCEPT !.gen = config[k].gen + 1] \in Config
      <4>1. config[k].uid + 1 \in Nat /\ config[k].gen + 1 \in Nat BY <3>1 DEF Config
      <4> QED BY <3>1, <4>1 DEF Config
    <3>3. \/ config' = config
          \/ \E c \in Config : config' = [config EXCEPT ![k] = c]
      BY <1>2, <3>2 DEF CreateConfig, DeleteConfig, EditConfig, ChangeSecret
    <3> QED BY <3>3 DEF TypeOK
  <2>3. status' \in [Configs -> Status]
    <3>1. status' = status \/ status' = [status EXCEPT ![k] = NoStatus]
      BY <1>2 DEF CreateConfig, DeleteConfig, EditConfig, ChangeSecret
    <3> QED BY <3>1, NothingTypes DEF TypeOK
  <2>4. secret' \in [Configs -> Nat]
    <3>1. secret' = secret \/ \E c \in Nat : secret' = [secret EXCEPT ![k] = c]
      <4>1. 0..MaxSecret \subseteq Nat BY StatusAssumption
      <4> QED BY <1>2, <4>1 DEF CreateConfig, DeleteConfig, EditConfig, ChangeSecret
    <3> QED BY <3>1 DEF TypeOK
  <2> QED BY <2>1, <2>2, <2>3, <2>4 DEF TypeOK
<1>3. ASSUME NEW k \in Configs, enqueueAllStatuses(k) PROVE StoreTyped'
  <2>1. checks' \in [Configs -> Check]
    BY <1>3, NothingTypes DEF enqueueAllStatuses, TypeOK
  <2>2. queue' \in Seq(Configs) /\ Len(queue') <= QueueSize
    BY <1>3, QueueTypes DEF enqueueAllStatuses, TypeOK
  <2> QED BY <1>3, <2>1, <2>2 DEF enqueueAllStatuses, objVars, TypeOK
<1>4. ASSUME NEW k \in Configs, ArchiveIntervalPasses(k) PROVE StoreTyped'
  <2>1. [checks[k] EXCEPT !.fresh = FALSE] \in Check BY DEF TypeOK, Check
  <2> QED BY <1>4, <2>1 DEF ArchiveIntervalPasses, objVars, TypeOK
<1>5. ASSUME NEW w \in Workers, worker(w) PROVE StoreTyped'
  <2>1. queue \in Seq(Configs) /\ queue # <<>> /\ Len(queue) <= QueueSize /\ queue' = Tail(queue)
    BY <1>5 DEF worker, TypeOK
  <2>2. queue' \in Seq(Configs) /\ Len(queue') <= QueueSize
    BY <2>1, StatusAssumption
  <2> QED BY <1>5, <2>2 DEF worker, objVars, TypeOK
<1>6. ASSUME NEW w \in Workers, GetConfig(w) \/ PrefetchSecretsData(w) PROVE StoreTyped'
  <2>1. UNCHANGED <<objVars, queue, checks, changes>> BY <1>6 DEF GetConfig, PrefetchSecretsData
  <2>2. fails' \in Nat BY <1>6 DEF GetConfig, PrefetchSecretsData, CallFails, TypeOK
  <2> QED BY <2>1, <2>2 DEF objVars, TypeOK
<1>7. ASSUME NEW w \in Workers, MarkCredentialsInvalid(w) PROVE StoreTyped'
  <2>1. fails' \in Nat BY <1>7 DEF MarkCredentialsInvalid, CallFails, TypeOK
  <2>2. wkey[w] \in Configs BY <1>7, BusyKey DEF MarkCredentialsInvalid, Busy
  <2>3. [status[wkey[w]] EXCEPT !.cred = "False", !.phase = "Failed"] \in Status
    <3>1. status[wkey[w]] \in Status BY <2>2 DEF TypeOK
    <3> QED BY <3>1 DEF Status, CondStatus, Phases
  <2>4. status' \in [Configs -> Status]
    BY <1>7, <2>2, <2>3 DEF MarkCredentialsInvalid, TypeOK
  <2> QED BY <1>7, <2>1, <2>4 DEF MarkCredentialsInvalid, TypeOK
<1>8. ASSUME NEW w \in Workers, UpdateAvailability(w) PROVE StoreTyped'
  <2>1. fails' \in Nat BY <1>8 DEF UpdateAvailability, CallFails, TypeOK
  <2>2. \/ status' = status
        \/ \E readable, writable \in BOOLEAN :
             status' = [status EXCEPT ![wkey[w]] = Available(w, readable, writable)]
    BY <1>8 DEF UpdateAvailability
  <2>3. status' \in [Configs -> Status]
    <3>1. CASE status' = status BY <3>1 DEF TypeOK
    <3>2. ASSUME NEW r \in BOOLEAN, NEW q \in BOOLEAN,
                 status' = [status EXCEPT ![wkey[w]] = Available(w, r, q)]
          PROVE  status' \in [Configs -> Status]
      <4>1. Available(w, r, q) \in Status BY AvailableType
      <4> QED BY <3>2, <4>1 DEF TypeOK
    <3> QED BY <2>2, <3>1, <3>2
  <2> QED BY <1>8, <2>1, <2>3 DEF UpdateAvailability, TypeOK
<1>9. ASSUME NEW w \in Workers, ScanArchive(w) PROVE StoreTyped'
  <2>1. fails' \in Nat BY <1>9 DEF ScanArchive, CallFails, TypeOK
  <2>2. checks' = checks \/ Remember(w, NoResult) BY <1>9 DEF ScanArchive
  <2>3. checks' \in [Configs -> Check] BY <2>2, RememberType DEF TypeOK
  <2> QED BY <1>9, <2>1, <2>3 DEF ScanArchive, objVars, TypeOK
<1>10. ASSUME NEW w \in Workers, SaveArchiveStatus(w) PROVE StoreTyped'
  <2>1. fails' \in Nat BY <1>10 DEF SaveArchiveStatus, CallFails, TypeOK
  <2>2. wscan[w] \in Result \cup {NoResult} /\ wkey[w] \in Configs
    BY <1>10, BusyKey DEF SaveArchiveStatus, Busy, TypeOK
  <2>3. (Remember(w, NoResult) \/ Remember(w, wscan[w])) /\ (status' = status \/ WriteResult(w))
    BY <1>10 DEF SaveArchiveStatus
  <2>4. checks' \in [Configs -> Check] BY <2>2, <2>3, RememberType
  <2>5. status' \in [Configs -> Status] BY <2>2, <2>3, WriteType DEF TypeOK
  <2> QED BY <1>10, <2>1, <2>4, <2>5 DEF SaveArchiveStatus, TypeOK
<1>11. ASSUME NEW w \in Workers, SaveAgain(w) PROVE StoreTyped'
  <2>1. fails' \in Nat BY <1>11 DEF SaveAgain, CallFails, TypeOK
  <2>2. wkey[w] \in Configs BY <1>11, BusyKey DEF SaveAgain, Busy
  <2>3. \/ checks' = checks
        \/ \E f \in BOOLEAN : checks' = [checks EXCEPT ![wkey[w]] =
                                 [id |-> WId(w), pending |-> NoResult, fresh |-> f]]
    <3> DEFINE f == checks[wkey[w]] = NoCheck \/ checks[wkey[w]].fresh
    <3>1. f \in BOOLEAN OBVIOUS
    <3>2. \/ checks' = checks
          \/ checks' = [checks EXCEPT ![wkey[w]] =
                          [id |-> WId(w), pending |-> NoResult, fresh |-> f]]
      BY <1>11, <2>2 DEF SaveAgain, TypeOK
    <3> QED BY <3>1, <3>2
  <2>4. \A f \in BOOLEAN : [id |-> WId(w), pending |-> NoResult, fresh |-> f] \in Check
    BY IdType DEF TypeOK, WId, Check
  <2>5. checks' \in [Configs -> Check] BY <2>3, <2>4 DEF TypeOK
  <2>6. status' = status \/ WriteResult(w) BY <1>11 DEF SaveAgain
  <2>7. status' \in [Configs -> Status] BY <2>2, <2>6, WriteType DEF TypeOK
  <2> QED BY <1>11, <2>1, <2>5, <2>7 DEF SaveAgain, TypeOK
<1>12. CASE Restart
  <2>1. fails' \in Nat /\ UNCHANGED <<config, status, secret, changes>>
    BY <1>12 DEF Restart, CallFails, objVars, TypeOK
  <2>2. queue' \in Seq(Configs) /\ Len(queue') <= QueueSize
    BY <1>12, StatusAssumption DEF Restart
  <2>3. checks' \in [Configs -> Check] BY <1>12, NothingTypes DEF Restart
  <2> QED BY <2>1, <2>2, <2>3 DEF TypeOK
<1> QED BY <1>1, <1>2, <1>3, <1>4, <1>5, <1>6, <1>7, <1>8, <1>9, <1>10, <1>11, <1>12
        DEF Next, ConfigStep, WorkerStep

LEMMA RestartWorkers ==
    ASSUME Restart
    PROVE  WorkersTyped' /\ \A w \in Workers : ~Busy(w)'
BY NothingTypes DEF Restart, WorkersTyped, WorkerPC, Busy

(* A worker takes a key that is not in flight. *)
Takes(w) ==
    /\ ~Busy(w)
    /\ \E k \in Configs \ inFlight :
         /\ inFlight' = inFlight \cup {k}
         /\ wkey' = [wkey EXCEPT ![w] = k] /\ wpc' = [wpc EXCEPT ![w] = "get"]
    /\ UNCHANGED <<wconfig, wstatus, wsecret, wscan>>

(* A worker goes on with its key. *)
GoesOn(w) ==
    /\ Busy(w)
    /\ \E pc \in WorkerPC \ {"idle"} : Goes(w, pc)
    /\ \A v \in Workers \ {w} : /\ wconfig'[v] = wconfig[v] /\ wsecret'[v] = wsecret[v]
                               /\ wscan'[v] = wscan[v]
    /\ wconfig' \in [Workers -> Config] /\ wstatus' \in [Workers -> Status]
    /\ wsecret' \in [Workers -> Nat] /\ wscan' \in [Workers -> Result \cup {NoResult}]

LEMMA ScanResult ==
    ASSUME TypeOK, NEW w \in Workers, NEW shown
    PROVE  [wal |-> reconcileWALStatus(shown), of |-> WId(w)] \in Result
<1>1. reconcileWALStatus(shown) \in {"True", "False"} BY DEF reconcileWALStatus, Cond
<1> QED BY <1>1, IdType DEF TypeOK, WId, Result

(* What a step does to the workers: nothing, or one takes a key, goes on   *)
(* or releases, or all are lost.                                           *)
LEMMA WorkerMoves ==
    ASSUME TypeOK, OneWorkerPerConfig, [Next]_vars
    PROVE  \/ UNCHANGED <<inFlight, workerVars>>
           \/ \E w \in Workers : Takes(w) \/ GoesOn(w) \/ (Busy(w) /\ release(w))
           \/ Restart
<1> DEFINE Moves(w) == Takes(w) \/ GoesOn(w) \/ (Busy(w) /\ release(w))
<1>1. CASE UNCHANGED vars
  BY <1>1 DEF vars
<1>2. ASSUME NEW k \in Configs, ConfigStep(k) PROVE UNCHANGED <<inFlight, workerVars>>
  BY <1>2 DEF ConfigStep, CreateConfig, DeleteConfig, EditConfig, ChangeSecret,
     enqueueAllStatuses, ArchiveIntervalPasses
<1>3. ASSUME NEW w \in Workers, worker(w) PROVE UNCHANGED <<inFlight, workerVars>> \/ Moves(w)
  <2>1. queue \in Seq(Configs) /\ queue # <<>> BY <1>3 DEF worker, TypeOK
  <2>2. Head(queue) \in Configs BY <2>1
  <2> QED BY <1>3, <2>2 DEF worker, Takes, Busy, workerVars
<1>4. ASSUME NEW w \in Workers, GetConfig(w) PROVE Moves(w)
  <2>1. Busy(w) /\ wkey[w] \in Configs BY <1>4, BusyKey DEF GetConfig, Busy
  <2>2. CASE release(w) BY <2>1, <2>2
  <2>3. CASE /\ wconfig' = [wconfig EXCEPT ![w] = config[wkey[w]]]
             /\ wstatus' = [wstatus EXCEPT ![w] = status[wkey[w]]]
             /\ Goes(w, "prefetch") /\ UNCHANGED <<wsecret, wscan>>
    BY <2>1, <2>3 DEF GoesOn, WorkerPC, TypeOK
  <2> QED BY <1>4, <2>2, <2>3 DEF GetConfig
<1>5. ASSUME NEW w \in Workers, PrefetchSecretsData(w) PROVE Moves(w)
  <2>1. Busy(w) /\ wkey[w] \in Configs BY <1>5, BusyKey DEF PrefetchSecretsData, Busy
  <2>2. UNCHANGED <<wconfig, wstatus, wscan>> BY <1>5 DEF PrefetchSecretsData
  <2>3. wsecret' = wsecret \/ wsecret' = [wsecret EXCEPT ![w] = secret[wkey[w]]]
    BY <1>5 DEF PrefetchSecretsData
  <2>4. \E pc \in WorkerPC \ {"idle"} : Goes(w, pc) BY <1>5 DEF PrefetchSecretsData, WorkerPC
  <2> QED BY <2>1, <2>2, <2>3, <2>4 DEF GoesOn, TypeOK
<1>6. ASSUME NEW w \in Workers, MarkCredentialsInvalid(w) \/ SaveArchiveStatus(w) \/ SaveAgain(w)
      PROVE  Moves(w)
  BY <1>6 DEF MarkCredentialsInvalid, SaveArchiveStatus, SaveAgain, Busy
<1>7. ASSUME NEW w \in Workers, UpdateAvailability(w) PROVE Moves(w)
  <2>1. Busy(w) /\ wkey[w] \in Configs BY <1>7, BusyKey DEF UpdateAvailability, Busy
  <2>2. CASE release(w) BY <2>1, <2>2
  <2>3. CASE /\ \/ Goes(w, "resave") /\ wscan' = [wscan EXCEPT ![w] = checks[wkey[w]].pending]
                \/ Goes(w, "scan") /\ UNCHANGED wscan
             /\ wstatus' = [wstatus EXCEPT ![w] = NoStatus] /\ UNCHANGED <<wconfig, wsecret>>
    <3>1. checks[wkey[w]].pending \in Result \cup {NoResult} BY <2>1 DEF TypeOK, Check
    <3>2. wscan' \in [Workers -> Result \cup {NoResult}]
          /\ \A v \in Workers \ {w} : wscan'[v] = wscan[v]
      BY <2>3, <3>1 DEF TypeOK
    <3>3. wstatus' \in [Workers -> Status] BY <2>3, NothingTypes DEF TypeOK
    <3>4. \E pc \in WorkerPC \ {"idle"} : Goes(w, pc) BY <2>3 DEF WorkerPC
    <3> QED BY <2>1, <2>3, <3>2, <3>3, <3>4 DEF GoesOn, TypeOK
  <2> QED BY <1>7, <2>2, <2>3 DEF UpdateAvailability
<1>8. ASSUME NEW w \in Workers, ScanArchive(w) PROVE Moves(w)
  <2>1. Busy(w) BY <1>8 DEF ScanArchive, Busy
  <2>2. CASE release(w) BY <2>1, <2>2
  <2>3. ASSUME NEW shown,
               wscan' = [wscan EXCEPT ![w] = [wal |-> reconcileWALStatus(shown), of |-> WId(w)]],
               Goes(w, "save"), UNCHANGED <<wconfig, wstatus, wsecret>>
        PROVE  Moves(w)
    <3>1. wscan' \in [Workers -> Result \cup {NoResult}] BY <2>3, ScanResult DEF TypeOK
    <3>2. \A v \in Workers \ {w} : wscan'[v] = wscan[v] BY <2>3 DEF TypeOK
    <3>3. \E pc \in WorkerPC \ {"idle"} : Goes(w, pc) BY <2>3 DEF WorkerPC
    <3> QED BY <2>1, <2>3, <3>1, <3>2, <3>3 DEF GoesOn, TypeOK
  <2> QED BY <1>8, <2>2, <2>3 DEF ScanArchive
<1> QED BY <1>1, <1>2, <1>3, <1>4, <1>5, <1>6, <1>7, <1>8 DEF Next, WorkerStep

LEMMA WorkersNext ==
    ASSUME TypeOK, OneWorkerPerConfig, [Next]_vars
    PROVE  WorkersTyped' /\ OneWorkerPerConfig'
<1>1. CASE UNCHANGED <<inFlight, workerVars>>
  BY <1>1 DEF workerVars, TypeOK, WorkersTyped, OneWorkerPerConfig, Busy
<1>2. ASSUME NEW w \in Workers, Takes(w) PROVE WorkersTyped' /\ OneWorkerPerConfig'
  <2> PICK k \in Configs \ inFlight :
         /\ inFlight' = inFlight \cup {k}
         /\ wkey' = [wkey EXCEPT ![w] = k] /\ wpc' = [wpc EXCEPT ![w] = "get"]
    BY <1>2 DEF Takes
  <2>1. WorkersTyped'
    BY <1>2 DEF Takes, TypeOK, WorkersTyped, WorkerPC
  <2>2. \A v \in Workers : Busy(v)' <=> Busy(v) \/ v = w
    BY DEF Busy, TypeOK
  <2>3. \A v \in Workers : Busy(v) => v # w /\ wkey'[v] = wkey[v] /\ wkey[v] # k
    BY <1>2 DEF Takes, Busy, TypeOK, OneWorkerPerConfig
  <2>4. wkey'[w] = k BY DEF TypeOK
  <2> QED BY <2>1, <2>2, <2>3, <2>4 DEF OneWorkerPerConfig
<1>3. ASSUME NEW w \in Workers, GoesOn(w) PROVE WorkersTyped' /\ OneWorkerPerConfig'
  <2> PICK pc \in WorkerPC \ {"idle"} : Goes(w, pc) BY <1>3 DEF GoesOn
  <2>1. WorkersTyped' BY <1>3, GoesType DEF GoesOn, WorkersTyped
  <2>2. \A v \in Workers : Busy(v)' <=> Busy(v)
    BY <1>3 DEF GoesOn, Goes, Busy, TypeOK
  <2> QED BY <2>1, <2>2 DEF OneWorkerPerConfig, Goes
<1>4. ASSUME NEW w \in Workers, Busy(w), release(w) PROVE WorkersTyped' /\ OneWorkerPerConfig'
  <2>1. \A v \in Workers : Busy(v)' <=> Busy(v) /\ v # w
    BY <1>4 DEF release, Busy, TypeOK
  <2>2. \A v \in Workers : Busy(v) /\ v # w => wkey'[v] = wkey[v] /\ wkey[v] # wkey[w]
    BY <1>4 DEF release, TypeOK, OneWorkerPerConfig
  <2>3. inFlight' = inFlight \ {wkey[w]} BY <1>4 DEF release
  <2> QED BY <1>4, <2>1, <2>2, <2>3, ReleaseType DEF OneWorkerPerConfig
<1>5. CASE Restart
  BY <1>5, RestartWorkers DEF OneWorkerPerConfig, Restart
<1> QED BY <1>1, <1>2, <1>3, <1>4, <1>5, WorkerMoves

-----------------------------------------------------------------------------
(* Results.  A step of a worker that touches the status and the remembered *)
(* check of its own config only cannot disturb the others: this is what    *)
(* the in-flight set is for.                                               *)
OwnSteps(w) ==
    /\ Busy(w)
    /\ \A k \in Configs \ {wkey[w]} : status'[k] = status[k] /\ checks'[k] = checks[k]
    /\ \A v \in Workers \ {w} : /\ wpc'[v] = wpc[v] /\ wkey'[v] = wkey[v]
                               /\ wconfig'[v] = wconfig[v] /\ wsecret'[v] = wsecret[v]
                               /\ wscan'[v] = wscan[v]

LEMMA OthersAgree ==
    ASSUME ResultInv, NEW w \in Workers, OwnSteps(w), WorkerAgrees(w)',
           NEW key \in Configs, key = wkey[w], CheckAgrees(key)'
    PROVE  (\A k \in Configs : CheckAgrees(k)') /\ (\A v \in Workers : WorkerAgrees(v)')
<1>1. ASSUME NEW k \in Configs, k # wkey[w] PROVE CheckAgrees(k)'
  BY <1>1 DEF ResultInv, OwnSteps, CheckAgrees
<1>2. ASSUME NEW v \in Workers, v # w PROVE WorkerAgrees(v)'
  <2>1. CASE wpc[v] \in {"scan", "save", "resave"}
    <3>1. wkey[v] \in Configs /\ wkey[v] # wkey[w]
      BY <1>2, <2>1, BusyKey DEF ResultInv, OwnSteps, Busy, OneWorkerPerConfig
    <3> QED BY <1>2, <3>1 DEF ResultInv, OwnSteps, WorkerAgrees, WId
  <2>2. CASE wpc[v] \notin {"scan", "save", "resave"}
    BY <1>2, <2>2 DEF OwnSteps, WorkerAgrees
  <2> QED BY <2>1, <2>2
<1> QED BY <1>1, <1>2

LEMMA ReleaseOwn ==
    ASSUME TypeOK, NEW w \in Workers, Busy(w), release(w)
    PROVE  /\ WorkerAgrees(w)'
           /\ \A v \in Workers \ {w} : /\ wpc'[v] = wpc[v] /\ wkey'[v] = wkey[v]
                                      /\ wconfig'[v] = wconfig[v] /\ wsecret'[v] = wsecret[v]
                                      /\ wscan'[v] = wscan[v]
<1>1. wpc'[w] = "idle" BY DEF release, TypeOK
<1>2. WorkerAgrees(w)' BY <1>1 DEF WorkerAgrees
<1> QED BY <1>2 DEF release, TypeOK

(* What WriteResult leaves in the status. *)
LEMMA Written ==
    ASSUME TypeOK, NEW w \in Workers, wkey[w] \in Configs, WriteResult(w)
    PROVE  /\ status'[wkey[w]].of = wscan[w].of
           /\ \A k \in Configs \ {wkey[w]} : status'[k] = status[k]
<1> DEFINE t == [status[wkey[w]] EXCEPT !.wal = wscan[w].wal, !.of = wscan[w].of]
<1>1. status[wkey[w]] \in Status BY DEF TypeOK
<1>2. t.of = wscan[w].of BY <1>1 DEF Status
<1>3. DOMAIN t = {"cred", "read", "write", "wal", "of", "phase"}
  BY <1>1 DEF Status
<1>4. WithPhase(t) = [t EXCEPT !.phase = determinePhase(t)] BY DEF WithPhase
<1>5. WithPhase(t).of = t.of
  <2> HIDE DEF t
  <2> QED BY <1>3, <1>4
<1>6. status' = [status EXCEPT ![wkey[w]] = WithPhase(t)] BY DEF WriteResult
<1>7. status'[wkey[w]] = WithPhase(t) BY <1>6 DEF TypeOK
<1>8. \A k \in Configs \ {wkey[w]} : status'[k] = status[k] BY <1>6 DEF TypeOK
<1> HIDE DEF t
<1> QED BY <1>2, <1>5, <1>7, <1>8

(* What the availability update leaves there: a result of the integrity    *)
(* check only if it is about the configuration the worker has read.        *)
LEMMA AvailableResult ==
    ASSUME TypeOK, NEW w \in Workers, NEW r \in BOOLEAN, NEW q \in BOOLEAN,
           Scanned(Available(w, r, q))
    PROVE  /\ CurrentCheck(w) /\ Scanned(wstatus[w])
           /\ Available(w, r, q).of = wstatus[w].of
<1> DEFINE pending == ~CurrentCheck(w) \/ wstatus[w].wal = ""
           wal == IF pending THEN "Unknown" ELSE wstatus[w].wal
           of == IF pending THEN NoId ELSE wstatus[w].of
           t == [wstatus[w] EXCEPT !.cred = "True", !.read = Cond(r), !.write = Cond(q),
                                   !.wal = wal, !.of = of]
<1>1. wstatus[w] \in Status BY DEF TypeOK
<1>2. Available(w, r, q) = [t EXCEPT !.phase = determinePhase(t)] BY DEF Available, WithPhase
<1>3. t.wal = wal /\ t.of = of /\ DOMAIN t = {"cred", "read", "write", "wal", "of", "phase"}
  <2> HIDE DEF wal, of
  <2> QED BY <1>1 DEF Status
<1>4. Available(w, r, q).wal = wal /\ Available(w, r, q).of = of
  <2> HIDE DEF t, wal, of
  <2> QED BY <1>2, <1>3
<1>5. ~pending
  BY <1>4 DEF Scanned
<1> QED BY <1>4, <1>5 DEF Scanned

LEMMA RememberAgrees ==
    ASSUME TypeOK, NEW w \in Workers, wkey[w] \in Configs,
           NEW r \in Result \cup {NoResult}, Remember(w, r), r # NoResult => r.of = WId(w)
    PROVE  /\ checks'[wkey[w]].id = WId(w)
           /\ checks'[wkey[w]].pending # NoResult =>
                checks'[wkey[w]].pending.of = checks'[wkey[w]].id
           /\ \A k \in Configs \ {wkey[w]} : checks'[k] = checks[k]
<1>1. checks'[wkey[w]] = [id |-> WId(w), fresh |-> TRUE, pending |-> r]
  BY DEF Remember, TypeOK
<1>2. \A k \in Configs \ {wkey[w]} : checks'[k] = checks[k]
  BY DEF Remember, TypeOK
<1>3. checks'[wkey[w]].id = WId(w) /\ checks'[wkey[w]].pending = r
  BY <1>1
<1> QED BY <1>2, <1>3

(* One step per action: what a worker writes agrees with what it has read, *)
(* and what users and ticks change leaves status and checks in agreement.  *)
LEMMA ResultInvNext == ResultInv /\ [Next]_vars => ResultInv'
<1> SUFFICES ASSUME ResultInv, [Next]_vars PROVE ResultInv'
  OBVIOUS
<1> DEFINE Agree == (\A k \in Configs : CheckAgrees(k)) /\ (\A w \in Workers : WorkerAgrees(w))
<1>0. TypeOK /\ OneWorkerPerConfig /\ Agree BY DEF ResultInv
<1>k. \A w \in Workers : Busy(w) => wkey[w] \in Configs BY <1>0, BusyKey
<1>t. TypeOK' /\ OneWorkerPerConfig'
  <2>1. StoreTyped' BY <1>0, StoreTypeNext
  <2>2. WorkersTyped' /\ OneWorkerPerConfig' BY <1>0, WorkersNext
  <2> QED BY <2>1, <2>2 DEF TypeOK, StoreTyped, WorkersTyped
<1> SUFFICES Agree' BY <1>t DEF ResultInv
<1>s. NoStatus.wal = "" /\ NoCheck.pending = NoResult
  BY DEF NoStatus, NoCheck
<1>1. CASE UNCHANGED vars
  BY <1>0, <1>1 DEF vars, objVars, workerVars, CheckAgrees, WorkerAgrees, WId
<1>2. ASSUME NEW k \in Configs, CreateConfig(k) PROVE Agree'
  <2>1. UNCHANGED <<checks, workerVars>> /\ \A j \in Configs : j # k => status'[j] = status[j]
    BY <1>0, <1>2 DEF CreateConfig, TypeOK
  <2>2. ~Scanned(status'[k])
    BY <1>0, <1>2, <1>s DEF CreateConfig, TypeOK, Scanned
  <2>3. \A j \in Configs : CheckAgrees(j)'
    BY <1>0, <2>1, <2>2 DEF CheckAgrees
  <2>4. ASSUME NEW w \in Workers PROVE WorkerAgrees(w)'
    BY <1>0, <1>k, <2>1, <2>2 DEF WorkerAgrees, WId, Busy, workerVars
  <2> QED BY <2>3, <2>4
<1>3. ASSUME NEW k \in Configs, DeleteConfig(k) \/ EditConfig(k) \/ ChangeSecret(k) PROVE Agree'
  BY <1>0, <1>3 DEF DeleteConfig, EditConfig, ChangeSecret, workerVars, CheckAgrees,
     WorkerAgrees, WId
<1>4. ASSUME NEW k \in Configs, enqueueAllStatuses(k) PROVE Agree'
  <2>1. UNCHANGED <<status, workerVars>> /\ \A j \in Configs : checks'[j] \in {checks[j], NoCheck}
    BY <1>0, <1>4 DEF enqueueAllStatuses, objVars, TypeOK
  <2>2. \A j \in Configs : CheckAgrees(j)'
    BY <1>0, <1>s, <2>1 DEF CheckAgrees
  <2>3. ASSUME NEW w \in Workers PROVE WorkerAgrees(w)'
    BY <1>0, <1>k, <2>1 DEF WorkerAgrees, WId, Busy, workerVars
  <2> QED BY <2>2, <2>3
<1>5. ASSUME NEW k \in Configs, ArchiveIntervalPasses(k) PROVE Agree'
  <2>1. UNCHANGED <<status, workerVars>> /\ \A j \in Configs : j # k => checks'[j] = checks[j]
    BY <1>0, <1>5 DEF ArchiveIntervalPasses, objVars, TypeOK
  <2>2. checks[k] \in Check /\ checks'[k] = [checks[k] EXCEPT !.fresh = FALSE]
    BY <1>0, <1>5 DEF ArchiveIntervalPasses, TypeOK
  <2>3. checks'[k].id = checks[k].id /\ checks'[k].pending = checks[k].pending
    BY <2>2 DEF Check
  <2>4. checks[k] # NoCheck
    BY <1>5 DEF ArchiveIntervalPasses, NoCheck
  <2>5. \A j \in Configs : CheckAgrees(j)'
    BY <1>0, <2>1, <2>3, <2>4 DEF CheckAgrees
  <2>6. ASSUME NEW w \in Workers PROVE WorkerAgrees(w)'
    BY <1>0, <1>k, <2>1, <2>3, <2>4 DEF WorkerAgrees, WId, Busy, workerVars
  <2> QED BY <2>5, <2>6
<1>6. ASSUME NEW w \in Workers, worker(w) PROVE Agree'
  <2>1. UNCHANGED <<status, checks, wconfig, wsecret, wscan>>
    BY <1>6 DEF worker, objVars
  <2>2. \A v \in Workers : wpc'[v] \in {"scan", "save", "resave"} =>
          wpc'[v] = wpc[v] /\ wkey'[v] = wkey[v]
    BY <1>0, <1>6 DEF worker, TypeOK
  <2> QED BY <1>0, <2>1, <2>2 DEF CheckAgrees, WorkerAgrees, WId
<1>7. ASSUME NEW w \in Workers, GetConfig(w) \/ PrefetchSecretsData(w) PROVE Agree'
  <2>1. Busy(w) /\ wkey[w] \in Configs BY <1>7, <1>k DEF GetConfig, PrefetchSecretsData, Busy
  <2>2. UNCHANGED <<status, checks>> BY <1>7 DEF GetConfig, PrefetchSecretsData, objVars
  <2>3. CASE release(w)
    <3>1. OwnSteps(w) /\ WorkerAgrees(w)' BY <1>0, <2>1, <2>2, <2>3, ReleaseOwn DEF OwnSteps
    <3>2. CheckAgrees(wkey[w]) BY <1>0, <2>1
    <3>3. ASSUME NEW key \in Configs, key = wkey[w] PROVE CheckAgrees(key)'
      BY <2>2, <3>2, <3>3 DEF CheckAgrees
    <3> QED BY <2>1, <3>1, <3>3, OthersAgree
  <2>4. CASE ~release(w)
    <3>1. /\ wkey' = wkey /\ wscan' = wscan
          /\ \E pc \in {"prefetch", "check", "invalid"} : wpc' = [wpc EXCEPT ![w] = pc]
          /\ \A v \in Workers \ {w} : wconfig'[v] = wconfig[v] /\ wsecret'[v] = wsecret[v]
      BY <1>0, <1>7, <2>4 DEF GetConfig, PrefetchSecretsData, Goes, TypeOK
    <3>2. ASSUME NEW v \in Workers PROVE WorkerAgrees(v)'
      BY <1>0, <2>2, <3>1 DEF TypeOK, WorkerAgrees, WId
    <3>3. ASSUME NEW k \in Configs PROVE CheckAgrees(k)'
      BY <1>0, <2>2 DEF CheckAgrees
    <3> QED BY <3>2, <3>3
  <2> QED BY <2>3, <2>4
<1>8. ASSUME NEW w \in Workers, MarkCredentialsInvalid(w) PROVE Agree'
  <2> DEFINE key == wkey[w]
  <2>1. Busy(w) /\ key \in Configs /\ release(w) /\ checks' = checks
    BY <1>8, <1>k DEF MarkCredentialsInvalid, Busy
  <2>2. \/ status' = status
        \/ status' = [status EXCEPT ![key] = [status[key] EXCEPT !.cred = "False", !.phase = "Failed"]]
    BY <1>8 DEF MarkCredentialsInvalid
  <2>3. status'[key].wal = status[key].wal /\ status'[key].of = status[key].of
        /\ \A k \in Configs \ {key} : status'[k] = status[k]
    <3>1. status[key] \in Status BY <1>0, <2>1 DEF TypeOK
    <3>2. CASE status' = status BY <3>2
    <3>3. CASE status' = [status EXCEPT ![key] = [status[key] EXCEPT !.cred = "False", !.phase = "Failed"]]
      BY <1>0, <2>1, <3>1, <3>3 DEF TypeOK, Status
    <3> QED BY <2>2, <3>2, <3>3
  <2>4. OwnSteps(w) /\ WorkerAgrees(w)' BY <1>0, <2>1, <2>3, ReleaseOwn DEF OwnSteps
  <2>5. ASSUME NEW k \in Configs, k = key PROVE CheckAgrees(k)'
    BY <1>0, <2>1, <2>3, <2>5 DEF CheckAgrees, Scanned
  <2> QED BY <2>1, <2>4, <2>5, OthersAgree
<1>9. ASSUME NEW w \in Workers, UpdateAvailability(w) PROVE Agree'
  <2> DEFINE key == wkey[w]
  <2>1. Busy(w) /\ key \in Configs /\ checks' = checks
    BY <1>9, <1>k DEF UpdateAvailability, Busy
  <2>2. CASE status' = status /\ release(w)
    <3>1. OwnSteps(w) /\ WorkerAgrees(w)' BY <1>0, <2>1, <2>2, ReleaseOwn DEF OwnSteps
    <3>2. ASSUME NEW k \in Configs, k = key PROVE CheckAgrees(k)'
      BY <1>0, <2>1, <2>2, <3>2 DEF CheckAgrees
    <3> QED BY <2>1, <3>1, <3>2, OthersAgree
  <2>3. ASSUME NEW r \in BOOLEAN, NEW q \in BOOLEAN, CanUpdate(w),
               status' = [status EXCEPT ![key] = Available(w, r, q)],
               \/ release(w)
               \/ /\ \/ /\ Throttled(w) /\ checks[key].pending # NoResult /\ Goes(w, "resave")
                        /\ wscan' = [wscan EXCEPT ![w] = checks[key].pending]
                     \/ Goes(w, "scan") /\ UNCHANGED wscan
                  /\ UNCHANGED <<wconfig, wsecret>>
        PROVE  Agree'
    <3>1. status'[key] = Available(w, r, q) /\ \A k \in Configs \ {key} : status'[k] = status[k]
      BY <1>0, <2>1, <2>3 DEF TypeOK
    <3>2. Scanned(status'[key]) => checks[key].id = WId(w) /\ status'[key].of = WId(w)
      <4> SUFFICES ASSUME Scanned(status'[key])
                   PROVE  checks[key].id = WId(w) /\ status'[key].of = WId(w)
        OBVIOUS
      <4>1. CurrentCheck(w) /\ Scanned(wstatus[w]) /\ status'[key].of = wstatus[w].of
        BY <1>0, <3>1, AvailableResult
      <4>2. checks[key] # NoCheck /\ checks[key].id = WId(w) BY <4>1 DEF CurrentCheck
      <4>3. status[key] = wstatus[w] BY <2>3 DEF CanUpdate
      <4>4. CheckAgrees(key) BY <1>0, <2>1
      <4> QED BY <4>1, <4>2, <4>3, <4>4 DEF CheckAgrees
    <3>3. ASSUME NEW k \in Configs, k = key PROVE CheckAgrees(k)'
      BY <1>0, <2>1, <3>2, <3>3 DEF CheckAgrees
    <3>4. CASE release(w)
      <4>1. OwnSteps(w) /\ WorkerAgrees(w)' BY <1>0, <2>1, <3>1, <3>4, ReleaseOwn DEF OwnSteps
      <4> QED BY <2>1, <3>3, <4>1, OthersAgree
    <3>5. CASE Goes(w, "scan") /\ UNCHANGED <<wscan, wconfig, wsecret>>
      <4>1. OwnSteps(w) BY <1>0, <2>1, <3>1, <3>5 DEF OwnSteps, Goes, TypeOK
      <4>2. WorkerAgrees(w)' BY <1>0, <3>2, <3>5 DEF WorkerAgrees, WId, Goes, TypeOK
      <4> QED BY <2>1, <3>3, <4>1, <4>2, OthersAgree
    <3>6. CASE /\ Throttled(w) /\ checks[key].pending # NoResult /\ Goes(w, "resave")
               /\ wscan' = [wscan EXCEPT ![w] = checks[key].pending]
               /\ UNCHANGED <<wconfig, wsecret>>
      <4>1. OwnSteps(w) BY <1>0, <2>1, <3>1, <3>6 DEF OwnSteps, Goes, TypeOK
      <4>2. checks[key].id = WId(w) BY <3>6 DEF Throttled, CurrentCheck
      <4>3. checks[key].pending.of = WId(w) BY <1>0, <2>1, <3>6, <4>2 DEF CheckAgrees
      <4>4. /\ wkey' = wkey /\ WId(w)' = WId(w)
            /\ wscan'[w].of = WId(w) /\ wpc'[w] = "resave"
        BY <1>0, <3>6, <4>3 DEF WId, Goes, TypeOK
      <4>5. WorkerAgrees(w)' BY <2>1, <3>2, <4>2, <4>4 DEF WorkerAgrees
      <4> QED BY <2>1, <3>3, <4>1, <4>5, OthersAgree
    <3> QED BY <2>3, <3>4, <3>5, <3>6
  <2> QED BY <1>9, <2>2, <2>3 DEF UpdateAvailability
<1>10. ASSUME NEW w \in Workers, ScanArchive(w) PROVE Agree'
  <2> DEFINE key == wkey[w]
  <2>1. Busy(w) /\ key \in Configs /\ wpc[w] = "scan" /\ status' = status
    BY <1>10, <1>k DEF ScanArchive, Busy, objVars
  <2>2. Scanned(status[key]) => status[key].of = WId(w) BY <1>0, <2>1 DEF WorkerAgrees
  <2>3. CASE Remember(w, NoResult) /\ release(w)
    <3>1. /\ checks'[key].id = WId(w)
          /\ checks'[key].pending # NoResult => checks'[key].pending.of = checks'[key].id
          /\ \A k \in Configs \ {key} : checks'[k] = checks[k]
      BY <1>0, <2>1, <2>3, RememberAgrees
    <3>2. OwnSteps(w) /\ WorkerAgrees(w)' BY <1>0, <2>1, <2>3, <3>1, ReleaseOwn DEF OwnSteps
    <3>3. ASSUME NEW k \in Configs, k = key PROVE CheckAgrees(k)'
      BY <2>1, <2>2, <3>1, <3>3 DEF CheckAgrees
    <3> QED BY <2>1, <3>2, <3>3, OthersAgree
  <2>4. ASSUME NEW x, wscan' = [wscan EXCEPT ![w] = [wal |-> x, of |-> WId(w)]], Goes(w, "save"),
               UNCHANGED <<wconfig, wsecret, checks>>
        PROVE  Agree'
    <3>1. OwnSteps(w) BY <1>0, <2>1, <2>4 DEF OwnSteps, Goes, TypeOK
    <3>2. /\ wkey' = wkey /\ WId(w)' = WId(w)
          /\ wscan'[w].of = WId(w) /\ wpc'[w] = "save"
      <4>1. wscan'[w] = [wal |-> x, of |-> WId(w)] BY <1>0, <2>4 DEF TypeOK
      <4> QED BY <1>0, <2>4, <4>1 DEF WId, Goes, TypeOK
    <3>3. WorkerAgrees(w)' BY <2>1, <2>2, <3>2 DEF WorkerAgrees
    <3>4. ASSUME NEW k \in Configs, k = key PROVE CheckAgrees(k)'
      BY <1>0, <2>1, <2>4, <3>4 DEF CheckAgrees
    <3> QED BY <2>1, <3>1, <3>3, <3>4, OthersAgree
  <2> QED BY <1>10, <2>3, <2>4 DEF ScanArchive
<1>11. ASSUME NEW w \in Workers, SaveArchiveStatus(w) PROVE Agree'
  <2> DEFINE key == wkey[w]
  <2>1. Busy(w) /\ key \in Configs /\ wpc[w] = "save" /\ release(w)
    BY <1>11, <1>k DEF SaveArchiveStatus, Busy
  <2>2. wscan[w] \in Result \cup {NoResult} /\ wscan[w].of = WId(w)
        /\ (Scanned(status[key]) => status[key].of = WId(w))
    BY <1>0, <2>1 DEF WorkerAgrees, TypeOK
  <2>3. (Remember(w, NoResult) \/ Remember(w, wscan[w])) /\ (status' = status \/ WriteResult(w))
    BY <1>11 DEF SaveArchiveStatus
  <2>4. /\ checks'[key].id = WId(w)
        /\ checks'[key].pending # NoResult => checks'[key].pending.of = checks'[key].id
        /\ \A k \in Configs \ {key} : checks'[k] = checks[k]
    BY <1>0, <2>1, <2>2, <2>3, RememberAgrees
  <2>5. /\ Scanned(status'[key]) => status'[key].of = WId(w)
        /\ \A k \in Configs \ {key} : status'[k] = status[k]
    BY <1>0, <2>1, <2>2, <2>3, Written
  <2>6. OwnSteps(w) /\ WorkerAgrees(w)' BY <1>0, <2>1, <2>4, <2>5, ReleaseOwn DEF OwnSteps
  <2>7. ASSUME NEW k \in Configs, k = key PROVE CheckAgrees(k)'
    BY <2>4, <2>5, <2>7 DEF CheckAgrees
  <2> QED BY <2>1, <2>6, <2>7, OthersAgree
<1>12. ASSUME NEW w \in Workers, SaveAgain(w) PROVE Agree'
  <2> DEFINE key == wkey[w]
  <2>1. Busy(w) /\ key \in Configs /\ wpc[w] = "resave" /\ release(w)
    BY <1>12, <1>k DEF SaveAgain, Busy
  <2>2. /\ wscan[w].of = WId(w) /\ (Scanned(status[key]) => status[key].of = WId(w))
        /\ checks[key] = NoCheck \/ checks[key].id = WId(w)
    BY <1>0, <2>1 DEF WorkerAgrees
  <2>3. status' = status \/ WriteResult(w) BY <1>12 DEF SaveAgain
  <2>4. /\ Scanned(status'[key]) => status'[key].of = WId(w)
        /\ \A k \in Configs \ {key} : status'[k] = status[k]
    BY <1>0, <2>1, <2>2, <2>3, Written
  <2>5. /\ \/ checks'[key] = checks[key]
           \/ checks'[key].id = WId(w) /\ checks'[key].pending = NoResult
        /\ \A k \in Configs \ {key} : checks'[k] = checks[k]
    BY <1>0, <1>12, <2>1 DEF SaveAgain, TypeOK
  <2>6. OwnSteps(w) /\ WorkerAgrees(w)' BY <1>0, <2>1, <2>4, <2>5, ReleaseOwn DEF OwnSteps
  <2>7. ASSUME NEW k \in Configs, k = key PROVE CheckAgrees(k)'
    BY <1>0, <2>1, <2>2, <2>4, <2>5, <2>7 DEF CheckAgrees
  <2> QED BY <2>1, <2>6, <2>7, OthersAgree
<1>13. CASE Restart
  <2>1. ASSUME NEW w \in Workers PROVE WorkerAgrees(w)'
    BY <1>13, RestartWorkers DEF WorkerAgrees, Busy
  <2>2. ASSUME NEW k \in Configs PROVE CheckAgrees(k)'
    BY <1>13, <1>s DEF Restart, CheckAgrees
  <2> QED BY <2>1, <2>2
<1> QED BY <1>1, <1>2, <1>3, <1>4, <1>5, <1>6, <1>7, <1>8, <1>9, <1>10, <1>11, <1>12, <1>13
        DEF Next, ConfigStep, WorkerStep

LEMMA ResultInvInit == Init => ResultInv
<1> SUFFICES ASSUME Init PROVE ResultInv
  OBVIOUS
<1>1. TypeOK BY TypeInit
<1>2. OneWorkerPerConfig BY DEF Init, OneWorkerPerConfig, Busy
<1>3. NoStatus.wal = "" /\ NoCheck.pending = NoResult BY DEF NoStatus, NoCheck
<1>4. ASSUME NEW k \in Configs PROVE CheckAgrees(k)
  BY <1>3 DEF Init, CheckAgrees
<1>5. ASSUME NEW w \in Workers PROVE WorkerAgrees(w)
  BY DEF Init, WorkerAgrees
<1> QED BY <1>1, <1>2, <1>4, <1>5 DEF ResultInv

(* Statuses, the queue within its size, remembered checks and workers are  *)
(* always well formed.                                                     *)
THEOREM StatusTypeCorrect == Spec => []TypeOK
BY ResultInvInit, ResultInvNext, PTL DEF Spec, ResultInv

(* tryAcquire and release keep two workers from reconciling one config,    *)
(* and leave no config in flight that nobody works on.                     *)
THEOREM OneWorkerEach == Spec => []OneWorkerPerConfig
BY ResultInvInit, ResultInvNext, PTL DEF Spec, ResultInv

(* No status is written with an integrity result of another configuration, *)
(* neither by the availability update, which keeps results, nor by the     *)
(* archive check, which saves them late.                                   *)
THEOREM ResultsAreOwn == Spec => OnlyOwnResults
<1>1. ResultInv /\ [Next]_vars => [OwnResultsWritten]_vars
  <2> SUFFICES ASSUME ResultInv, Next, NEW k \in Configs,
                      status'[k] # status[k], Scanned(status'[k]), status'[k].cred = "True"
               PROVE  \E w \in Workers : /\ Busy(w) /\ wkey[w] = k
                                         /\ status'[k].of = Id(config[k], wsecret[w])
    BY DEF OwnResultsWritten
  <2>0. TypeOK /\ OneWorkerPerConfig BY DEF ResultInv
  <2>k. \A w \in Workers : Busy(w) => wkey[w] \in Configs BY <2>0, BusyKey
  <2>1. ASSUME NEW j \in Configs, ConfigStep(j) PROVE FALSE
    <3>1. status' = status \/ CreateConfig(j)
      BY <2>1 DEF ConfigStep, DeleteConfig, EditConfig, ChangeSecret, enqueueAllStatuses,
         ArchiveIntervalPasses, objVars
    <3>2. CreateConfig(j) /\ j = k BY <2>0, <3>1 DEF CreateConfig, TypeOK
    <3>3. status'[k] = NoStatus BY <2>0, <3>2 DEF CreateConfig, TypeOK
    <3>4. NoStatus.wal = "" BY DEF NoStatus
    <3> QED BY <3>3, <3>4 DEF Scanned
  <2>2. ASSUME NEW w \in Workers, MarkCredentialsInvalid(w) PROVE FALSE
    <3>1. wkey[w] \in Configs BY <2>2, <2>k DEF MarkCredentialsInvalid, Busy
    <3>2. status' = [status EXCEPT ![wkey[w]] =
                       [status[wkey[w]] EXCEPT !.cred = "False", !.phase = "Failed"]]
      BY <2>2 DEF MarkCredentialsInvalid
    <3>3. wkey[w] = k /\ status[k] \in Status BY <2>0, <3>1, <3>2 DEF TypeOK
    <3>4. status'[k].cred = "False" BY <2>0, <3>2, <3>3 DEF TypeOK, Status
    <3> QED BY <3>4
  <2>3. ASSUME NEW w \in Workers, UpdateAvailability(w)
        PROVE  Busy(w) /\ wkey[w] = k /\ status'[k].of = Id(config[k], wsecret[w])
    <3>1. Busy(w) /\ wkey[w] \in Configs BY <2>3, <2>k DEF UpdateAvailability, Busy
    <3>2. PICK r \in BOOLEAN, q \in BOOLEAN :
            CanUpdate(w) /\ status' = [status EXCEPT ![wkey[w]] = Available(w, r, q)]
      BY <2>3 DEF UpdateAvailability
    <3>3. wkey[w] = k /\ status'[k] = Available(w, r, q) BY <2>0, <3>1, <3>2 DEF TypeOK
    <3>4. CurrentCheck(w) /\ Scanned(wstatus[w]) /\ status'[k].of = wstatus[w].of
      BY <2>0, <3>3, AvailableResult
    <3>5. config[k] = wconfig[w] /\ status[k] = wstatus[w] BY <3>2, <3>3 DEF CanUpdate
    <3>6. CheckAgrees(k) BY DEF ResultInv
    <3> QED BY <3>1, <3>3, <3>4, <3>5, <3>6 DEF CheckAgrees, CurrentCheck, WId
  <2>4. ASSUME NEW w \in Workers, SaveArchiveStatus(w) \/ SaveAgain(w)
        PROVE  Busy(w) /\ wkey[w] = k /\ status'[k].of = Id(config[k], wsecret[w])
    <3>1. Busy(w) /\ wkey[w] \in Configs /\ wpc[w] \in {"save", "resave"}
      BY <2>4, <2>k DEF SaveArchiveStatus, SaveAgain, Busy
    <3>2. StillScanned(w) /\ WriteResult(w) BY <2>4 DEF SaveArchiveStatus, SaveAgain
    <3>3. wkey[w] = k /\ status'[k].of = wscan[w].of BY <2>0, <3>1, <3>2, Written
    <3>4. wscan[w].of = WId(w) BY <3>1 DEF ResultInv, WorkerAgrees
    <3>5. Id(wconfig[w], wsecret[w]) = Id(config[k], wsecret[w])
      BY <3>2, <3>3 DEF StillScanned, Id
    <3> QED BY <3>1, <3>3, <3>4, <3>5 DEF WId
  <2>5. ASSUME NEW w \in Workers,
               worker(w) \/ GetConfig(w) \/ PrefetchSecretsData(w) \/ ScanArchive(w)
        PROVE  FALSE
    BY <2>5 DEF worker, GetConfig, PrefetchSecretsData, ScanArchive, objVars
  <2>6. CASE Restart
    BY <2>6 DEF Restart, objVars
  <2> QED BY <2>1, <2>2, <2>3, <2>4, <2>5, <2>6 DEF Next, WorkerStep
<1> QED BY <1>1, ResultInvInit, ResultInvNext, PTL DEF Spec, OnlyOwnResults
=============================================================================
