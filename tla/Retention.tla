------------------------------ MODULE Retention ------------------------------
(***************************************************************************)
(* internal/controller/retention_controller.go: the periodic sweep that    *)
(* deletes old Backups of one BackupConfig.  A sweep decides on the list   *)
(* it got at its start: Backups go on being created, completed and deleted *)
(* while it deletes one Backup after the other.                            *)
(***************************************************************************)
EXTENDS Naturals, FiniteSets, Sequences, SequencesExt

CONSTANTS
    Backups,                 \* the Backup resources
    MinBackupsToKeep,        \* .spec.retention.minBackupsToKeep
    DeleteBackupsAfter,      \* .spec.retention.deleteBackupsAfter, in ticks
    IgnoreForManualBackups,  \* .spec.retention.ignoreForManualBackups
    Manual,                  \* the Backups with no other owner than the config
    Waiting,                 \* the Backups that may be pending for long before their push
    Incremental,             \* the Backups for which wal-g makes a delta
    UserDeletes,             \* may users delete Backups too?
    MaxTime,                 \* bound on the clock
    MaxFailures              \* bound on failed deletions and crashes

ASSUME RetentionAssumption ==
    /\ IsFiniteSet(Backups) /\ UNION {Manual, Waiting, Incremental} \subseteq Backups
    /\ MinBackupsToKeep \in Nat /\ DeleteBackupsAfter \in Nat \ {0}
    /\ {IgnoreForManualBackups, UserDeletes} \subseteq BOOLEAN
    /\ MaxTime \in Nat /\ MaxFailures \in Nat

VARIABLES
    now,       \* the clock of the API server, the operator and the instances
    phase,     \* status.phase; "none" before creation, "new" for the empty one
    created,   \* creationTimestamp
    started,   \* when wal-g began the push; in the status once completed
    deleting,  \* Backups with a deletion timestamp
    known,     \* those of them that the running sweep saw in its list or made itself
    sweep,     \* the sweep's progress
    todo,      \* Backups still to be deleted by this sweep, in order
    fails      \* failures so far

backupVars == <<phase, created, started>>
sweepVars == <<sweep, todo>>
deletions == <<deleting, known>>
vars == <<now, backupVars, deletions, sweepVars, fails>>

Init ==
    /\ now = 0
    /\ phase = [b \in Backups |-> "none"]
    /\ created = [b \in Backups |-> 0] /\ started = [b \in Backups |-> 0]
    /\ deleting = {} /\ known = {} /\ sweep = "idle" /\ todo = <<>> /\ fails = 0

-----------------------------------------------------------------------------
(* The Backups: CNPG and the instances.                                    *)

healthy == { b \in Backups : phase[b] = "completed" /\ b \notin deleting }

(* CNPG reacts to a new Backup within a tick. *)
Tick ==
    /\ now < MaxTime
    /\ \A b \in Backups \ deleting : phase[b] # "new"
    /\ now' = now + 1
    /\ UNCHANGED <<backupVars, deletions, sweepVars, fails>>

CreateBackup(b) ==
    /\ phase[b] = "none"
    /\ phase' = [phase EXCEPT ![b] = "new"]
    /\ created' = [created EXCEPT ![b] = now]
    /\ UNCHANGED <<now, started, deletions, sweepVars, fails>>

(* Another backup is running, or no instance can take this one. *)
SetPending(b) ==
    /\ b \in Waiting /\ phase[b] = "new"
    /\ phase' = [phase EXCEPT ![b] = "pending"]
    /\ UNCHANGED <<now, created, started, deletions, sweepVars, fails>>

StartPush(b) ==
    /\ phase[b] \in {"new", "pending"} /\ b \notin deleting
    /\ phase' = [phase EXCEPT ![b] = "running"]
    /\ started' = [started EXCEPT ![b] = now]
    /\ UNCHANGED <<now, created, deletions, sweepVars, fails>>

FinishPush(b) ==
    /\ phase[b] = "running"
    /\ \E p \in {"completed", "failed"} : phase' = [phase EXCEPT ![b] = p]
    /\ UNCHANGED <<now, created, started, deletions, sweepVars, fails>>

UserDelete(b) ==
    /\ UserDeletes /\ phase[b] # "none" /\ b \notin deleting
    /\ deleting' = deleting \cup {b}
    /\ UNCHANGED <<now, backupVars, known, sweepVars, fails>>

-----------------------------------------------------------------------------
(* The sweep.                                                              *)

(* A Backup as the list call returns it: StartedAt is known (not nil) only *)
(* of a completed one.                                                     *)
Copy(b) == [name |-> b, phase |-> phase[b], created |-> created[b],
            startedAt |-> IF phase[b] = "completed" THEN {started[b]} ELSE {}]

(* The comparison handed to sort.Slice. *)
Before(x, y) ==
    IF x.startedAt = {} \/ y.startedAt = {}
    THEN x.created < y.created
    ELSE \A s \in x.startedAt, t \in y.startedAt : s < t

(* sort.Slice sorts up to 12 elements by insertion: each element moves to  *)
(* the left for as long as it is before its neighbour.                     *)
Fits(x, done, p) ==
    /\ p # 0 => ~Before(x, done[p])
    /\ \A i \in (p + 1) .. Len(done) : Before(x, done[i])
Insert(done, x) ==
    LET p == CHOOSE p \in 0 .. Len(done) : Fits(x, done, p)
    IN  SubSeq(done, 1, p) \o <<x>> \o SubSeq(done, p + 1, Len(done))
InsertionSort(s) ==
    LET sorted[n \in 0 .. Len(s)] == IF n = 0 THEN <<>> ELSE Insert(sorted[n - 1], s[n])
    IN  sorted
SortBackups(s) == InsertionSort(s)[Len(s)]

BackupTime(x) == IF x.startedAt # {} THEN CHOOSE t \in x.startedAt : TRUE ELSE x.created

(* Older than now minus DeleteBackupsAfter. *)
BeforeThreshold(x) == BackupTime(x) + DeleteBackupsAfter < now

(* The healthy Backups of s after its i-th. *)
remainingSuccessfulBackups(s, i) ==
    Cardinality({ j \in (i + 1) .. Len(s) : s[j].phase = "completed" })

(* Mutant of shouldDeleteBackup: the Backup itself is counted among those  *)
(* that stay.                                                              *)
ShouldDeleteCountingItself(s, i) ==
    /\ s[i].phase \notin {"pending", "running"}
    /\ ~(s[i].phase = "completed" /\ 1 + remainingSuccessfulBackups(s, i) < MinBackupsToKeep)
    /\ ~(IgnoreForManualBackups /\ s[i].name \in Manual)
    /\ BeforeThreshold(s[i])

(* Mutant of shouldDeleteBackup: the healthy Backups on the wrong side of  *)
(* the sorted list are counted.                                            *)
ShouldDeleteNewest(s, i) ==
    /\ s[i].phase \notin {"pending", "running"}
    /\ ~(s[i].phase = "completed"
          /\ Cardinality({ j \in 1 .. (i - 1) : s[j].phase = "completed" }) < MinBackupsToKeep)
    /\ ~(IgnoreForManualBackups /\ s[i].name \in Manual)
    /\ BeforeThreshold(s[i])

(* Mutant of shouldDeleteBackup: the minimum keeps failed Backups too. *)
ShouldDeleteHealthyOnly(s, i) ==
    /\ s[i].phase \notin {"pending", "running"}
    /\ ~(remainingSuccessfulBackups(s, i) < MinBackupsToKeep)
    /\ ~(IgnoreForManualBackups /\ s[i].name \in Manual)
    /\ BeforeThreshold(s[i])

shouldDeleteBackup(s, i) ==
    /\ s[i].phase \notin {"pending", "running"}
    /\ ~(s[i].phase = "completed" /\ remainingSuccessfulBackups(s, i) < MinBackupsToKeep)
    /\ ~(IgnoreForManualBackups /\ s[i].name \in Manual)
    /\ BeforeThreshold(s[i])

(* The names of the Backups to delete among the first n of a sorted list,  *)
(* in the order of the list.                                               *)
Select(names, sorted, n) ==
    IF shouldDeleteBackup(sorted, n) THEN Append(names, sorted[n].name) ELSE names
Chosen(sorted) ==
    LET names[n \in 0 .. Len(sorted)] == IF n = 0 THEN <<>> ELSE Select(names[n - 1], sorted, n)
    IN  names
getBackupsToDelete(s) == LET sorted == SortBackups(s) IN Chosen(sorted)[Len(sorted)]

(* Mutant of relevant: no look at the deletion timestamp. *)
AllListed == { b \in Backups : phase[b] # "none" }

(* The Backups owned by the config and not being deleted, as they are      *)
(* listed: in the arbitrary order of the informer's index.                 *)
relevant == { b \in Backups : phase[b] # "none" /\ b \notin deleting }
Copies(s) == [i \in DOMAIN s |-> Copy(s[i])]

(* The ticker fires. *)
runRetentionForBackupConfig ==
    /\ sweep = "idle"
    /\ \E s \in SetToSeqs(relevant) : todo' = getBackupsToDelete(Copies(s))
    /\ sweep' = "deleting" /\ known' = deleting
    /\ UNCHANGED <<now, backupVars, deleting, fails>>

(* Delete of the next Backup: an error, also NotFound, is only logged. *)
DeleteNext ==
    /\ sweep = "deleting" /\ todo # <<>>
    /\ todo' = Tail(todo)
    /\ \/ /\ deleting' = deleting \cup {Head(todo)}
          /\ known' = known \cup {Head(todo)}
          /\ UNCHANGED fails
       \/ fails < MaxFailures /\ fails' = fails + 1 /\ UNCHANGED deletions
    /\ UNCHANGED <<now, backupVars, sweep>>

EndSweep ==
    /\ sweep = "deleting" /\ todo = <<>>
    /\ sweep' = "idle" /\ known' = {}
    /\ UNCHANGED <<now, backupVars, deleting, todo, fails>>

Crash ==
    /\ fails < MaxFailures /\ fails' = fails + 1
    /\ sweep # "idle"
    /\ sweep' = "idle" /\ todo' = <<>> /\ known' = {}
    /\ UNCHANGED <<now, backupVars, deleting>>

-----------------------------------------------------------------------------
Next ==
    \/ Tick
    \/ \E b \in Backups : CreateBackup(b) \/ SetPending(b) \/ StartPush(b) \/ FinishPush(b) \/ UserDelete(b)
    \/ runRetentionForBackupConfig \/ DeleteNext \/ EndSweep \/ Crash

Spec == Init /\ [][Next]_vars

(* The clock goes on, the ticker fires again and again, a sweep makes its  *)
(* calls, and CNPG starts what is not being deleted.                       *)
Fairness ==
    /\ WF_vars(Tick) /\ []<>(sweep = "deleting")
    /\ WF_vars(DeleteNext) /\ WF_vars(EndSweep)
    /\ \A b \in Backups : WF_vars(StartPush(b))
FairSpec == Spec /\ Fairness

-----------------------------------------------------------------------------
(* The completed Backups that stay as far as a sweep can know: not those   *)
(* deleted before its list call or by itself.  Of deletions by users after *)
(* that call it learns only from its next list.                            *)
remaining == { b \in Backups : phase[b] = "completed" /\ b \notin known }
taken == IF sweep = "deleting" THEN remaining \ remaining' ELSE {}

(* minBackupsToKeep: a sweep never takes a completed Backup, full or not,  *)
(* without leaving that many completed ones that it does not know to be    *)
(* deleted, whatever happened since the list call and whichever of the     *)
(* deletions failed.                                                       *)
EnoughKept ==
    [][ taken # {} => Cardinality(remaining') >= MinBackupsToKeep ]_vars

(* "Minimal number of full backups to keep" (backupconfig_types.go:225): a *)
(* full Backup is taken only when that many full ones are left.  The code  *)
(* counts the incremental ones too, so this fails (run retention_full).    *)
FullBackupsKept ==
    [][ taken \ Incremental # {} => Cardinality(remaining' \ Incremental) >= MinBackupsToKeep ]_vars

(* What they leave are the newest: at least minBackupsToKeep of them began *)
(* no earlier than the Backup taken ("one of the newest backups we want to *)
(* keep").  This needs every Backup to be pushed when it is created: with  *)
(* one that waits, whose creation time stands in for the missing StartedAt *)
(* in some comparisons only, the sort's comparison is not an order.        *)
NoneWaited ==
    \A b \in Backups : /\ phase[b] # "pending"
                       /\ phase[b] \notin {"none", "new"} => started[b] = created[b]
NewestKept ==
    [][ NoneWaited =>
          \A b \in taken :
            Cardinality({ c \in remaining' : started[c] >= started[b] }) >= MinBackupsToKeep ]_vars

(* A failed Backup, and a completed one with minBackupsToKeep newer ones,  *)
(* is deleted once it is old enough, unless the newer ones are deleted     *)
(* first: a failed deletion or a crash delays it only until a later sweep. *)
(* Again this needs Backups that are pushed when they are created.         *)
Spare(b) ==
    \/ phase[b] = "failed"
    \/ b \in healthy /\ MinBackupsToKeep <= Cardinality({ c \in healthy : started[c] > started[b] })
InReach(b) ==
    /\ created[b] + DeleteBackupsAfter < MaxTime /\ started[b] + DeleteBackupsAfter < MaxTime
    /\ ~(IgnoreForManualBackups /\ b \in Manual)
OldBackupsGo ==
    \A b \in Backups : (Spare(b) /\ InReach(b)) ~> (b \in deleting \/ ~Spare(b) \/ ~NoneWaited)

-----------------------------------------------------------------------------
(* The inductive invariant behind the first two properties.  A new Backup  *)
(* is too young for a sweep to delete it.  A sweep deletes only finished   *)
(* Backups, and for each completed one that it is still to delete there    *)
(* are minBackupsToKeep completed ones that are not ahead of it in the     *)
(* sweep and that the sweep does not know to be deleted; they are no       *)
(* older, unless a completed Backup had to wait.                           *)
Phases == {"none", "new", "pending", "running", "completed", "failed"}
TypeOK ==
    /\ now \in Nat /\ fails \in Nat
    /\ phase \in [Backups -> Phases]
    /\ created \in [Backups -> Nat] /\ started \in [Backups -> Nat]
    /\ deleting \subseteq Backups /\ known \subseteq deleting
    /\ sweep \in {"idle", "deleting"} /\ todo \in Seq(Backups)

NewAreYoung == \A b \in Backups \ deleting : phase[b] = "new" => created[b] = now

CompletedAtOnce == \A b \in Backups : phase[b] = "completed" => started[b] = created[b]
Protects(K, list, k) ==
    /\ K \subseteq remaining /\ Cardinality(K) >= MinBackupsToKeep
    /\ \A l \in 1 .. k : list[l] \notin K
    /\ CompletedAtOnce => \A c \in K : started[c] >= started[list[k]]
SweepSpares(list) ==
    \A k \in 1 .. Len(list) :
       /\ phase[list[k]] \in {"completed", "failed"}
       /\ phase[list[k]] = "completed" => \E K \in SUBSET Backups : Protects(K, list, k)

SweepInv == TypeOK /\ NewAreYoung /\ SweepSpares(todo)
=============================================================================
