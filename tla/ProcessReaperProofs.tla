------------------------- MODULE ProcessReaperProofs -------------------------
(* Proofs about ProcessReaper, for any number of commands and pids. *)
EXTENDS ProcessReaper, TLAPS

USE DEF Procs

LEMMA ReaperInvInit == Init => ReaperInv
<1> SUFFICES ASSUME Init PROVE ReaperInv OBVIOUS
<1>1. TypeOK BY DEF Init, TypeOK
<1>2. OwnStatus BY DEF Init, OwnStatus
<1>3. StatusOnItsWay BY DEF Init, StatusOnItsWay
<1>4. SubscriptionsLive BY DEF Init, SubscriptionsLive
<1>5. PidsDistinct BY DEF Init, PidsDistinct, Living
<1>6. RunStarted BY DEF Init, RunStarted
<1> QED BY <1>1, <1>2, <1>3, <1>4, <1>5, <1>6 DEF ReaperInv

(* A process that gets a free pid shares it with no living process. *)
LEMMA FreshPid ==
    ASSUME NEW p \in FreePids PROVE p \in Pids /\ \A q \in Procs : Living(q) => pid[q] # p
BY DEF FreePids

(* Exits change nothing but which living processes are zombies. *)
LEMMA ExitKeeps ==
    ASSUME ReaperInv, NEW q \in Procs, Exit(q) PROVE ReaperInv'
<1> USE ReaperAssumption DEF ReaperInv
<1>1. TypeOK' BY DEF Exit, TypeOK, runVars
<1>2. \A r \in Procs : /\ (Living(r))' <=> Living(r)
                       /\ (proc'[r] = "none") <=> (proc[r] = "none")
                       /\ (proc'[r] = "reaped") <=> (proc[r] = "reaped")
  BY DEF Exit, TypeOK, Living
<1>3. UNCHANGED <<pc, expired, result, pid, subscribers, ch>>
  BY DEF Exit, runVars
<1>4. OwnStatus' /\ SubscriptionsLive' BY <1>3 DEF OwnStatus, SubscriptionsLive
<1>5. StatusOnItsWay' BY <1>2, <1>3 DEF StatusOnItsWay
<1>6. PidsDistinct' BY <1>2, <1>3 DEF PidsDistinct
<1>7. RunStarted' BY <1>2, <1>3 DEF RunStarted
<1> QED BY <1>1, <1>4, <1>5, <1>6, <1>7

LEMMA ReaperInvNext == ReaperInv /\ [Next]_vars => ReaperInv'
<1> SUFFICES ASSUME ReaperInv, [Next]_vars PROVE ReaperInv' OBVIOUS
<1> USE ReaperAssumption DEF ReaperInv
<1>1. CASE UNCHANGED vars
  BY <1>1 DEF vars, runVars, TypeOK, OwnStatus, StatusOnItsWay, SubscriptionsLive,
     PidsDistinct, RunStarted, Living
<1>2. ASSUME NEW o \in Orphans, ForkOrphan(o) PROVE ReaperInv'
  <2>1. PICK p \in FreePids : pid' = [pid EXCEPT ![o] = p]
    BY <1>2 DEF ForkOrphan
  <2>2. p \in Pids /\ \A q \in Procs : Living(q) => pid[q] # p
    BY FreshPid
  <2>3. proc' = [proc EXCEPT ![o] = "alive"] /\ proc[o] = "none"
        /\ UNCHANGED <<pc, expired, result, subscribers, ch, sigchld, sigCh, reaper>>
    BY <1>2 DEF ForkOrphan, runVars
  <2>4. TypeOK' BY <2>1, <2>2, <2>3 DEF TypeOK
  <2>5. OwnStatus' /\ SubscriptionsLive'
    BY <2>1, <2>3 DEF OwnStatus, SubscriptionsLive, TypeOK
  <2>6. StatusOnItsWay' BY <2>1, <2>3 DEF StatusOnItsWay, TypeOK, Living
  <2>7. PidsDistinct' BY <2>1, <2>2, <2>3 DEF PidsDistinct, TypeOK, Living
  <2>8. RunStarted' BY <2>3 DEF RunStarted, TypeOK
  <2> QED BY <2>4, <2>5, <2>6, <2>7, <2>8
<1>3. ASSUME NEW q \in Procs, Exit(q) PROVE ReaperInv'
  BY <1>3, ExitKeeps
<1>4. ASSUME NEW c \in Commands, Expire(c) \/ StartFails(c) PROVE ReaperInv'
  <2>1. UNCHANGED <<result, proc, pid, subscribers, ch, sigchld, sigCh, reaper>>
    BY <1>4 DEF Expire, StartFails
  <2>2. /\ TypeOK'
        /\ pc' = pc \/ (pc[c] = "idle" /\ pc' = [pc EXCEPT ![c] = "done"])
    BY <1>4, <2>1 DEF Expire, StartFails, TypeOK
  <2>3. SubscriptionsLive'
    BY <2>1, <2>2 DEF SubscriptionsLive, TypeOK
  <2> QED BY <2>1, <2>2, <2>3 DEF TypeOK, OwnStatus, StatusOnItsWay, PidsDistinct, RunStarted, Living
<1>5. ASSUME NEW c \in Commands, startAndSubscribe(c) PROVE ReaperInv'
  <2>1. PICK p \in FreePids : /\ pid' = [pid EXCEPT ![c] = p]
                              /\ subscribers' = [subscribers EXCEPT ![p] = c]
    BY <1>5 DEF startAndSubscribe
  <2>2. p \in Pids /\ \A q \in Procs : Living(q) => pid[q] # p
    BY FreshPid
  <2>3. proc' = [proc EXCEPT ![c] = "alive"] /\ pc' = [pc EXCEPT ![c] = "wait"]
        /\ pc[c] = "idle" /\ UNCHANGED <<expired, result, ch, sigchld, sigCh, reaper>>
    BY <1>5 DEF startAndSubscribe
  <2>4. proc[c] = "none" /\ ch[c] = None
    BY <2>3 DEF RunStarted
  <2>5. TypeOK' BY <2>1, <2>2, <2>3 DEF TypeOK
  <2>6. OwnStatus' BY <2>3 DEF OwnStatus
  <2>7. StatusOnItsWay'
    BY <2>1, <2>2, <2>3, <2>4 DEF StatusOnItsWay, TypeOK, Living
  <2>8. SubscriptionsLive'
    BY <2>1, <2>2, <2>3, <2>4 DEF SubscriptionsLive, TypeOK
  <2>9. PidsDistinct' BY <2>1, <2>2, <2>3 DEF PidsDistinct, TypeOK, Living
  <2>10. RunStarted' BY <2>3 DEF RunStarted, TypeOK
  <2> QED BY <2>5, <2>6, <2>7, <2>8, <2>9, <2>10
<1>6. ASSUME NEW c \in Commands, wait(c) PROVE ReaperInv'
  <2>1. /\ pc[c] = "wait" /\ pc' = [pc EXCEPT ![c] = "cmdWait"]
        /\ UNCHANGED <<expired, proc, pid, subscribers, sigchld, sigCh, reaper>>
    BY <1>6 DEF wait
  <2>2. \/ /\ ch[c] # None /\ result' = [result EXCEPT ![c] = ch[c]]
           /\ ch' = [ch EXCEPT ![c] = None]
        \/ result' = [result EXCEPT ![c] = "timeout"] /\ ch' = ch
    BY <1>6 DEF wait
  <2>3. ch[c] # None => ch[c] = c
    BY <2>1 DEF StatusOnItsWay
  <2>4. TypeOK' BY <2>1, <2>2 DEF TypeOK
  <2>5. OwnStatus' BY <2>2, <2>3 DEF OwnStatus, TypeOK
  <2>6. StatusOnItsWay' BY <2>1, <2>2 DEF StatusOnItsWay, TypeOK, Living
  <2>7. SubscriptionsLive' BY <2>1, <2>2 DEF SubscriptionsLive, TypeOK
  <2>8. PidsDistinct' /\ RunStarted' BY <2>1, <2>2 DEF PidsDistinct, RunStarted, TypeOK, Living
  <2> QED BY <2>4, <2>5, <2>6, <2>7, <2>8
<1>7. ASSUME NEW c \in Commands, cmdWait(c) PROVE ReaperInv'
  <2>1. /\ pc[c] = "cmdWait" /\ proc' = [proc EXCEPT ![c] = "reaped"]
        /\ pc' = [pc EXCEPT ![c] = "unsubscribe"]
        /\ UNCHANGED <<expired, result, pid, subscribers, ch, sigchld, sigCh, reaper>>
    BY <1>7 DEF cmdWait
  <2>2. TypeOK' /\ OwnStatus' BY <2>1 DEF TypeOK, OwnStatus
  <2>3. StatusOnItsWay' BY <2>1 DEF StatusOnItsWay, TypeOK, Living
  <2>4. SubscriptionsLive' BY <2>1 DEF SubscriptionsLive, TypeOK
  <2>5. PidsDistinct' /\ RunStarted' BY <2>1 DEF PidsDistinct, RunStarted, TypeOK, Living
  <2> QED BY <2>2, <2>3, <2>4, <2>5
<1>8. ASSUME NEW c \in Commands, unsubscribeFromProcessExits(c) PROVE ReaperInv'
  <2>1. /\ pc[c] = "unsubscribe" /\ pc' = [pc EXCEPT ![c] = "done"]
        /\ subscribers' = [subscribers EXCEPT ![pid[c]] =
                              IF subscribers[pid[c]] = c THEN None ELSE subscribers[pid[c]]]
        /\ UNCHANGED <<expired, result, proc, pid, ch, sigchld, sigCh, reaper>>
    BY <1>8 DEF unsubscribeFromProcessExits
  <2>2. pid[c] \in Pids
    BY <2>1 DEF RunStarted, PidsDistinct
  <2>3. TypeOK' /\ OwnStatus' BY <2>1, <2>2 DEF TypeOK, OwnStatus
  <2>4. StatusOnItsWay' BY <2>1, <2>2 DEF StatusOnItsWay, TypeOK, Living
  <2>5. SubscriptionsLive' BY <2>1, <2>2 DEF SubscriptionsLive, TypeOK
  <2>6. PidsDistinct' /\ RunStarted' BY <2>1 DEF PidsDistinct, RunStarted, TypeOK, Living
  <2> QED BY <2>3, <2>4, <2>5, <2>6
<1>9. CASE DeliverSignal \/ StartReaper \/ TakeSignal
  <2>1. /\ UNCHANGED <<pc, expired, result, proc, pid, subscribers, ch>>
        /\ sigchld' \in BOOLEAN /\ sigCh' \in BOOLEAN
        /\ reaper' \in {"off", "waiting", "reaping"}
    BY <1>9 DEF DeliverSignal, StartReaper, TakeSignal, runVars, TypeOK
  <2> QED BY <2>1 DEF TypeOK, OwnStatus, StatusOnItsWay, SubscriptionsLive, PidsDistinct,
       RunStarted, Living
<1>10. CASE reapProcess
  <2>0. UNCHANGED <<pc, expired, result, pid, sigchld, sigCh>>
        /\ reaper' \in {"off", "waiting", "reaping"}
    BY <1>10 DEF reapProcess, runVars
  <2>1. CASE UNCHANGED <<proc, subscribers, ch>>
    BY <2>0, <2>1 DEF TypeOK, OwnStatus, StatusOnItsWay, SubscriptionsLive, PidsDistinct,
       RunStarted, Living
  <2>2. ASSUME NEW q \in Procs, proc[q] = "zombie", proc' = [proc EXCEPT ![q] = "reaped"],
               notifyProcessExitLocked(q)
        PROVE  ReaperInv'
    <3>1. pid[q] \in Pids /\ subscribers[pid[q]] \in Commands \cup {None}
      BY <2>2 DEF PidsDistinct, TypeOK
    <3>2. CASE subscribers[pid[q]] = None
      <4>1. UNCHANGED <<subscribers, ch>>
        BY <2>2, <3>2 DEF notifyProcessExitLocked
      <4>2. \A c \in Commands : pc[c] = "wait" => c # q
        BY <2>2, <3>2 DEF StatusOnItsWay
      <4>3. StatusOnItsWay' BY <2>0, <2>2, <4>1, <4>2 DEF StatusOnItsWay, TypeOK, Living
      <4>4. TypeOK' /\ OwnStatus' /\ SubscriptionsLive'
        BY <2>0, <2>2, <4>1 DEF TypeOK, OwnStatus, SubscriptionsLive
      <4>5. PidsDistinct' /\ RunStarted'
        BY <2>0, <2>2, <4>1 DEF PidsDistinct, RunStarted, TypeOK, Living
      <4> QED BY <4>3, <4>4, <4>5
    <3>3. CASE subscribers[pid[q]] # None
      <4> DEFINE s == subscribers[pid[q]]
      <4>1. /\ s \in Commands /\ ch' = [ch EXCEPT ![s] = q]
            /\ subscribers' = [subscribers EXCEPT ![pid[q]] = None]
        BY <2>2, <3>1, <3>3 DEF notifyProcessExitLocked
      <4>2. pid[s] = pid[q] /\ pc[s] \in {"wait", "cmdWait", "unsubscribe"} /\ ch[s] = None
        BY <3>1, <3>3 DEF SubscriptionsLive
      <4>3. pc[s] = "wait" => s = q
        BY <2>2, <4>1, <4>2 DEF StatusOnItsWay, PidsDistinct, Living
      <4>4. \A c \in Commands : pc[c] = "wait" /\ c # s => c # q
        BY <2>2, <4>1 DEF StatusOnItsWay
      <4>5. \A c \in Commands : pc[c] = "wait" /\ c # s /\ Living(c) => pid[c] # pid[q]
        BY <2>2, <4>4 DEF PidsDistinct, Living
      <4> HIDE DEF s
      <4>6. StatusOnItsWay'
        <5> SUFFICES ASSUME NEW c \in Commands, pc[c] = "wait"
                     PROVE  \/ (Living(c) /\ subscribers[pid[c]] = c /\ ch[c] = None)'
                            \/ proc'[c] = "reaped" /\ ch'[c] = c
          BY <2>0 DEF StatusOnItsWay
        <5>1. CASE c = s
          BY <5>1, <2>2, <4>1, <4>3 DEF TypeOK
        <5>2. CASE c # s
          <6>1. c # q /\ ch'[c] = ch[c] /\ proc'[c] = proc[c]
            BY <5>2, <2>2, <4>1, <4>4 DEF TypeOK
          <6>2. CASE Living(c) /\ subscribers[pid[c]] = c /\ ch[c] = None
            <7>1. pid[c] # pid[q]
              BY <6>2, <5>2, <4>5
            <7>2. subscribers'[pid[c]] = c
              BY <7>1, <6>2, <4>1, <2>0 DEF TypeOK, PidsDistinct, Living
            <7> QED BY <7>2, <6>1, <6>2, <2>0 DEF Living
          <6>3. CASE proc[c] = "reaped" /\ ch[c] = c
            BY <6>1, <6>3
          <6> QED BY <6>2, <6>3 DEF StatusOnItsWay
        <5> QED BY <5>1, <5>2
      <4>7. TypeOK' BY <2>0, <2>2, <3>1, <4>1 DEF TypeOK
      <4>8. OwnStatus' BY <2>0 DEF OwnStatus
      <4>9. SubscriptionsLive'
        <5> SUFFICES ASSUME NEW p \in Pids, subscribers'[p] # None
                     PROVE  /\ pid[subscribers'[p]] = p
                            /\ pc[subscribers'[p]] \in {"wait", "cmdWait", "unsubscribe"}
                            /\ ch'[subscribers'[p]] = None
          BY <2>0 DEF SubscriptionsLive
        <5>1. p # pid[q] /\ subscribers'[p] = subscribers[p]
          BY <3>1, <4>1 DEF TypeOK
        <5>2. pid[subscribers[p]] = p /\ ch[subscribers[p]] = None
              /\ pc[subscribers[p]] \in {"wait", "cmdWait", "unsubscribe"}
          BY <5>1 DEF SubscriptionsLive
        <5>3. subscribers[p] # s
          BY <5>1, <5>2, <4>2
        <5> QED BY <5>1, <5>2, <5>3, <4>1 DEF TypeOK
      <4>10. PidsDistinct'
        BY <2>0, <2>2 DEF PidsDistinct, TypeOK, Living
      <4>11. RunStarted'
        BY <2>0, <2>2, <4>1, <4>2 DEF RunStarted, TypeOK
      <4> QED BY <4>6, <4>7, <4>8, <4>9, <4>10, <4>11
    <3> QED BY <3>2, <3>3
  <2> QED BY <1>10, <2>1, <2>2 DEF reapProcess
<1> QED BY <1>1, <1>2, <1>3, <1>4, <1>5, <1>6, <1>7, <1>8, <1>9, <1>10 DEF Next, Run, Kill

(* The handover of exit statuses is right for any number of commands, pids *)
(* and orphans: no status is lost or confused, no send blocks.             *)
THEOREM ReaperCorrect == Spec => []ReaperInv
BY ReaperInvInit, ReaperInvNext, PTL DEF Spec

(* A Run reports the status of its own process or a timeout. *)
THEOREM StatusesAreOwn == Spec => []OwnStatus
BY ReaperCorrect, PTL DEF ReaperInv

(* The status of a process somebody waits for is never lost. *)
THEOREM StatusesArrive == Spec => []StatusOnItsWay
BY ReaperCorrect, PTL DEF ReaperInv

(* A subscription belongs to a Run that has not returned, is filed under   *)
(* that Run's pid, and its channel is empty: the send of reapProcess under *)
(* the lock never blocks.                                                  *)
THEOREM SubscriptionsStayLive == Spec => []SubscriptionsLive
BY ReaperCorrect, PTL DEF ReaperInv
=============================================================================
