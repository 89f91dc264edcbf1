---------------------------- MODULE ProcessReaper ----------------------------
(***************************************************************************)
(* internal/util/cmd: running wal-g as a child process next to a zombie    *)
(* reaper.  The reaper's wait4(-1) takes the exit status of every child,   *)
(* also of those Run waits for, and hands it over through a map from pid   *)
(* to channel.  Both sides of the map, and the fork itself, hold one lock, *)
(* so that startAndSubscribe, reapProcess and the unsubscription are       *)
(* atomic; cmd.Wait is not under it and may also collect its own child.    *)
(***************************************************************************)
CONSTANTS
    Commands,     \* calls of Run; also their processes and their channels
    Orphans,      \* other children: orphans adopted by this process
    Pids,         \* process ids; the kernel uses them again
    None          \* no pid, no channel, no status

ASSUME ReaperAssumption ==
    /\ Commands \cap Orphans = {}
    /\ None \notin Commands \cup Orphans \cup Pids
    /\ "timeout" \notin Commands \cup Orphans /\ "timeout" # None

Procs == Commands \cup Orphans

VARIABLES
    pc,            \* where each Run is
    expired,       \* is its context done?
    result,        \* what wait returned: a status (its process) or a timeout
    proc, pid,     \* the kernel's view of the processes
    subscribers,   \* pid -> channel (its command)
    ch,            \* the status in each channel of capacity 1
    sigchld, sigCh,\* SIGCHLD raised, and delivered to the reaper's channel
    reaper         \* the reaper's goroutine

runVars == <<pc, expired, result>>
vars == <<runVars, proc, pid, subscribers, ch, sigchld, sigCh, reaper>>

Living(q) == proc[q] \in {"alive", "zombie"}
FreePids == Pids \ { pid[q] : q \in { r \in Procs : Living(r) } }

Init ==
    /\ pc = [c \in Commands |-> "idle"]
    /\ expired = [c \in Commands |-> FALSE]
    /\ result = [c \in Commands |-> None]
    /\ proc = [q \in Procs |-> "none"] /\ pid = [q \in Procs |-> None]
    /\ subscribers = [p \in Pids |-> None] /\ ch = [c \in Commands |-> None]
    /\ sigchld = FALSE /\ sigCh = FALSE /\ reaper = "off"

-----------------------------------------------------------------------------
(* The kernel, and the contexts.                                           *)

ForkOrphan(o) ==
    /\ o \in Orphans /\ proc[o] = "none"
    /\ \E p \in FreePids : pid' = [pid EXCEPT ![o] = p]
    /\ proc' = [proc EXCEPT ![o] = "alive"]
    /\ UNCHANGED <<runVars, subscribers, ch, sigchld, sigCh, reaper>>

Exit(q) ==
    /\ proc[q] = "alive"
    /\ proc' = [proc EXCEPT ![q] = "zombie"]
    /\ sigchld' = TRUE
    /\ UNCHANGED <<runVars, pid, subscribers, ch, sigCh, reaper>>

(* signal.Notify: a non-blocking send into a channel of capacity 1, lost   *)
(* before the reaper has registered.                                       *)
DeliverSignal ==
    /\ sigchld
    /\ sigchld' = FALSE
    /\ sigCh' = (sigCh \/ reaper # "off")
    /\ UNCHANGED <<runVars, proc, pid, subscribers, ch, reaper>>

Expire(c) ==
    /\ ~expired[c] /\ pc[c] # "done"
    /\ expired' = [expired EXCEPT ![c] = TRUE]
    /\ UNCHANGED <<pc, result, proc, pid, subscribers, ch, sigchld, sigCh, reaper>>

(* exec.CommandContext's goroutine kills the process of an expired context. *)
Kill(c) == expired[c] /\ Exit(c)

-----------------------------------------------------------------------------
(* Run.                                                                    *)

(* Start of an expired context fails, as may any start. *)
StartFails(c) ==
    /\ pc[c] = "idle"
    /\ pc' = [pc EXCEPT ![c] = "done"]
    /\ UNCHANGED <<expired, result, proc, pid, subscribers, ch, sigchld, sigCh, reaper>>

(* Mutant of startAndSubscribe: the fork and the subscription are two      *)
(* steps, not one under the lock.                                          *)
StartThenSubscribe(c) ==
    \/ /\ pc[c] = "idle" /\ ~expired[c]
       /\ \E p \in FreePids : pid' = [pid EXCEPT ![c] = p]
       /\ proc' = [proc EXCEPT ![c] = "alive"]
       /\ pc' = [pc EXCEPT ![c] = "wait"]
       /\ UNCHANGED <<expired, result, subscribers, ch, sigchld, sigCh, reaper>>
    \/ /\ pc[c] = "wait"
       /\ subscribers' = [subscribers EXCEPT ![pid[c]] = c]
       /\ UNCHANGED <<pc, expired, result, proc, pid, ch, sigchld, sigCh, reaper>>

startAndSubscribe(c) ==
    /\ pc[c] = "idle" /\ ~expired[c]
    /\ \E p \in FreePids :
          /\ pid' = [pid EXCEPT ![c] = p]
          /\ subscribers' = [subscribers EXCEPT ![p] = c]
    /\ proc' = [proc EXCEPT ![c] = "alive"]
    /\ pc' = [pc EXCEPT ![c] = "wait"]
    /\ UNCHANGED <<expired, result, ch, sigchld, sigCh, reaper>>

(* wait: a select between the channel and the context; when both are ready *)
(* it takes either.                                                        *)
wait(c) ==
    /\ pc[c] = "wait"
    /\ \/ /\ ch[c] # None
          /\ result' = [result EXCEPT ![c] = ch[c]]
          /\ ch' = [ch EXCEPT ![c] = None]
       \/ /\ expired[c]
          /\ result' = [result EXCEPT ![c] = "timeout"]
          /\ UNCHANGED ch
    /\ pc' = [pc EXCEPT ![c] = "cmdWait"]
    /\ UNCHANGED <<expired, proc, pid, subscribers, sigchld, sigCh, reaper>>

(* cmd.Wait: returns when the process is over, and collects it if the      *)
(* reaper has not (the kernel answers by process handle, not by pid).      *)
cmdWait(c) ==
    /\ pc[c] = "cmdWait" /\ proc[c] # "alive"
    /\ proc' = [proc EXCEPT ![c] = "reaped"]
    /\ pc' = [pc EXCEPT ![c] = "unsubscribe"]
    /\ UNCHANGED <<expired, result, pid, subscribers, ch, sigchld, sigCh, reaper>>

(* Mutant of unsubscribeFromProcessExits: whoever holds the pid loses it. *)
UnsubscribePid(c) ==
    /\ pc[c] = "unsubscribe"
    /\ subscribers' = [subscribers EXCEPT ![pid[c]] = None]
    /\ pc' = [pc EXCEPT ![c] = "done"]
    /\ UNCHANGED <<expired, result, proc, pid, ch, sigchld, sigCh, reaper>>

(* Mutant of unsubscribeFromProcessExits: an expired Run leaves its entry. *)
UnsubscribeForgotten(c) ==
    /\ pc[c] = "unsubscribe"
    /\ pc' = [pc EXCEPT ![c] = "done"]
    /\ UNCHANGED <<expired, result, proc, pid, subscribers, ch, sigchld, sigCh, reaper>>

unsubscribeFromProcessExits(c) ==
    /\ pc[c] = "unsubscribe"
    /\ subscribers' = [subscribers EXCEPT ![pid[c]] = IF @ = c THEN None ELSE @]
    /\ pc' = [pc EXCEPT ![c] = "done"]
    /\ UNCHANGED <<expired, result, proc, pid, ch, sigchld, sigCh, reaper>>

-----------------------------------------------------------------------------
(* The reaper.                                                             *)

(* Registered for SIGCHLD, it collects what exited before. *)
StartReaper ==
    /\ reaper = "off" /\ reaper' = "reaping"
    /\ UNCHANGED <<runVars, proc, pid, subscribers, ch, sigchld, sigCh>>

TakeSignal ==
    /\ reaper = "waiting" /\ sigCh
    /\ sigCh' = FALSE /\ reaper' = "reaping"
    /\ UNCHANGED <<runVars, proc, pid, subscribers, ch, sigchld>>

(* The send would block, lock in hand, on a channel that is not empty. *)
notifyProcessExitLocked(q) ==
    LET s == subscribers[pid[q]]
    IN  IF s = None THEN UNCHANGED <<subscribers, ch>>
        ELSE /\ ch[s] = None
             /\ ch' = [ch EXCEPT ![s] = q]
             /\ subscribers' = [subscribers EXCEPT ![pid[q]] = None]

(* Mutant of reapProcess: one child for each signal. *)
ReapOne ==
    /\ reaper = "reaping"
    /\ \/ \E q \in Procs :
             /\ proc[q] = "zombie"
             /\ proc' = [proc EXCEPT ![q] = "reaped"]
             /\ notifyProcessExitLocked(q)
       \/ /\ \A q \in Procs : proc[q] # "zombie"
          /\ UNCHANGED <<proc, subscribers, ch>>
    /\ reaper' = "waiting"
    /\ UNCHANGED <<runVars, pid, sigchld, sigCh>>

(* wait4(-1, WNOHANG) until there is nothing more to collect. *)
reapProcess ==
    /\ reaper = "reaping"
    /\ \/ /\ \E q \in Procs :
                /\ proc[q] = "zombie"
                /\ proc' = [proc EXCEPT ![q] = "reaped"]
                /\ notifyProcessExitLocked(q)
          /\ UNCHANGED reaper
       \/ /\ \A q \in Procs : proc[q] # "zombie"
          /\ reaper' = "waiting"
          /\ UNCHANGED <<proc, subscribers, ch>>
    /\ UNCHANGED <<runVars, pid, sigchld, sigCh>>

-----------------------------------------------------------------------------
Run(c) == startAndSubscribe(c) \/ wait(c) \/ cmdWait(c) \/ unsubscribeFromProcessExits(c)

Next ==
    \/ \E o \in Orphans : ForkOrphan(o)
    \/ \E q \in Procs : Exit(q)
    \/ \E c \in Commands : Expire(c) \/ Kill(c) \/ StartFails(c) \/ Run(c)
    \/ DeliverSignal \/ StartReaper \/ TakeSignal \/ reapProcess

Spec == Init /\ [][Next]_vars

(* Goroutines run, signals arrive and a killed process dies; nothing makes *)
(* a command exit by itself or a context expire.                           *)
Fairness ==
    /\ \A c \in Commands :
          /\ WF_vars(Kill(c)) /\ WF_vars(wait(c))
          /\ WF_vars(cmdWait(c)) /\ WF_vars(unsubscribeFromProcessExits(c))
    /\ WF_vars(DeliverSignal) /\ WF_vars(StartReaper)
    /\ WF_vars(TakeSignal) /\ WF_vars(reapProcess)
FairSpec == Spec /\ Fairness

-----------------------------------------------------------------------------
TypeOK ==
    /\ pc \in [Commands -> {"idle", "wait", "cmdWait", "unsubscribe", "done"}]
    /\ expired \in [Commands -> BOOLEAN]
    /\ result \in [Commands -> Procs \cup {None, "timeout"}]
    /\ proc \in [Procs -> {"none", "alive", "zombie", "reaped"}]
    /\ pid \in [Procs -> Pids \cup {None}]
    /\ subscribers \in [Pids -> Commands \cup {None}]
    /\ ch \in [Commands -> Procs \cup {None}]
    /\ sigchld \in BOOLEAN /\ sigCh \in BOOLEAN
    /\ reaper \in {"off", "waiting", "reaping"}

(* Run never takes the exit status of another process for that of its own  *)
(* command, although pids are used again while old subscriptions linger.   *)
OwnStatus == \A c \in Commands : result[c] \in {None, "timeout", c}

(* While Run waits, the status is either still to come to the subscription *)
(* of its pid or already in its channel: no exit and no other Run's        *)
(* unsubscription loses it.                                                *)
StatusOnItsWay ==
    \A c \in Commands : pc[c] = "wait" =>
       \/ Living(c) /\ subscribers[pid[c]] = c /\ ch[c] = None
       \/ proc[c] = "reaped" /\ ch[c] = c

(* A subscription belongs to a Run that has not returned, and its channel  *)
(* is empty: the send under the lock cannot block.                         *)
SubscriptionsLive ==
    \A p \in Pids : subscribers[p] # None =>
       LET c == subscribers[p]
       IN  pid[c] = p /\ pc[c] \in {"wait", "cmdWait", "unsubscribe"} /\ ch[c] = None

(* A Run whose process is over or whose context is done returns: SIGCHLDs  *)
(* that come together, or before the reaper, do not leave it waiting.      *)
RunReturns ==
    \A c \in Commands :
       (pc[c] \in {"wait", "cmdWait"} /\ (proc[c] # "alive" \/ expired[c])) ~> pc[c] = "done"

(* Every zombie is collected. *)
ZombiesCollected == \A q \in Procs : proc[q] = "zombie" ~> proc[q] = "reaped"

(* The inductive invariant: besides the above, living processes have their *)
(* own pids, and nothing belongs to a Run that has not started.            *)
PidsDistinct ==
    /\ \A q \in Procs : proc[q] # "none" => pid[q] \in Pids
    /\ \A q, r \in Procs : Living(q) /\ Living(r) /\ pid[q] = pid[r] => q = r
RunStarted ==
    \A c \in Commands :
       /\ pc[c] = "idle" => proc[c] = "none" /\ ch[c] = None
       /\ pc[c] \in {"wait", "cmdWait", "unsubscribe"} => proc[c] # "none"
ReaperInv ==
    TypeOK /\ OwnStatus /\ StatusOnItsWay /\ SubscriptionsLive /\ PidsDistinct /\ RunStarted
=============================================================================
