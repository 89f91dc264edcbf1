------------------------- MODULE ResourceCacheProofs -------------------------
(***************************************************************************)
(* Proofs about ResourceCache, for any number of goroutines, watches,      *)
(* versions and faults.                                                    *)
(***************************************************************************)
EXTENDS ResourceCache, TLAPS

(* The watch a getter has opened is its own, and its goroutine is not      *)
(* started before the object is stored.                                    *)
OpenedByOne ==
    /\ \A g \in Getters : gpc[g] = "watching" => wpc[gwatch[g]] = "opened"
    /\ \A g, h \in Getters : gwatch[g] # NoWatch /\ gwatch[g] = gwatch[h] => g = h

WatchInv == TypeOK /\ OpenedByOne /\ EntryWatched

LEMMA EntryTypes ==
    /\ Missing \in [there : BOOLEAN, cached : Nat]
    /\ \A v \in Nat : Holding(v) \in [there : BOOLEAN, cached : Nat]
    /\ ~Missing.there
BY DEF Missing, Holding

LEMMA WatchInvInit == Init => WatchInv
<1> SUFFICES ASSUME Init PROVE WatchInv
  OBVIOUS
<1>1. TypeOK
  BY EntryTypes, CacheAssumption DEF Init, TypeOK, GetterPC
<1>2. OpenedByOne /\ EntryWatched
  BY EntryTypes DEF Init, OpenedByOne, EntryWatched
<1> QED BY <1>1, <1>2 DEF WatchInv

(* Clearing the entry sends the Gets that share it on with what they found. *)
LEMMA ClearType ==
    ASSUME TypeOK, clearEntryByKey
    PROVE  /\ entry' = Missing
           /\ gpc' \in [Getters -> GetterPC] /\ gobj' \in [Getters -> Nat]
           /\ \A g \in Getters : gpc'[g] = "watching" <=> gpc[g] = "watching"
<1>1. gobj' \in [Getters -> Nat]
  BY DEF TypeOK, clearEntryByKey
<1>2. gpc' \in [Getters -> GetterPC]
  BY DEF TypeOK, clearEntryByKey, GetterPC
<1>3. \A g \in Getters : gpc'[g] = "watching" <=> gpc[g] = "watching"
  BY DEF TypeOK, clearEntryByKey
<1> QED BY <1>1, <1>2, <1>3 DEF clearEntryByKey

LEMMA NotifyType ==
    ASSUME TypeOK, NEW v \in Nat, Notify(v)
    PROVE  events' \in [Watches -> Seq(Nat)]
<1>1. \A w \in Watches : events[w] \in Seq(Nat) /\ Append(events[w], v) \in Seq(Nat)
  BY DEF TypeOK
<1> QED BY <1>1 DEF Notify

(* One step per action.  Only StoreAndStart and an event of a watch whose  *)
(* goroutine runs make an entry; the end of such a watch takes it away.    *)
LEMMA WatchInvNext == WatchInv /\ [Next]_vars => WatchInv'
<1> SUFFICES ASSUME WatchInv, [Next]_vars PROVE WatchInv'
  OBVIOUS
<1> USE CacheAssumption DEF WatchInv
<1>1. CASE UNCHANGED vars
  BY <1>1 DEF vars, serverVars, getterVars, watchVars, TypeOK, OpenedByOne, EntryWatched
<1>2. CASE WriteObject
  <2>1. last + 1 \in Nat BY DEF TypeOK
  <2>2. events' \in [Watches -> Seq(Nat)] BY <1>2, <2>1, NotifyType DEF WriteObject
  <2> QED BY <1>2, <2>1, <2>2
          DEF WriteObject, getterVars, TypeOK, OpenedByOne, EntryWatched
<1>3. CASE DeleteObject
  <2>1. events' \in [Watches -> Seq(Nat)] BY <1>3, NotifyType DEF DeleteObject
  <2> QED BY <1>3, <2>1 DEF DeleteObject, getterVars, TypeOK, OpenedByOne, EntryWatched
<1>4. CASE WriteFails
  <2>1. UNCHANGED <<serverVars, gwatch, watchVars>> /\ faults' \in Nat
    BY <1>4 DEF WriteFails, Fault, TypeOK
  <2>2. /\ entry' = Missing
        /\ gpc' \in [Getters -> GetterPC] /\ gobj' \in [Getters -> Nat]
        /\ \A g \in Getters : gpc'[g] = "watching" <=> gpc[g] = "watching"
    BY <1>4, ClearType DEF WriteFails
  <2> QED BY <2>1, <2>2, EntryTypes
          DEF serverVars, watchVars, TypeOK, OpenedByOne, EntryWatched
<1>5. ASSUME NEW w \in Watches, EndWatch(w) PROVE WatchInv'
  <2>1. events' \in [Watches -> Seq(Nat)] /\ faults' \in Nat
    <3>1. CASE UNCHANGED <<events, faults>>
      BY <3>1 DEF TypeOK
    <3>2. CASE events[w] # <<>> /\ Fault /\ events' = [events EXCEPT ![w] = <<>>]
      <4>1. faults' \in Nat BY <3>2 DEF Fault, TypeOK
      <4>2. <<>> \in Seq(Nat) OBVIOUS
      <4> QED BY <3>2, <4>1, <4>2, Zenon DEF TypeOK
    <3> QED BY <1>5, <3>1, <3>2 DEF EndWatch
  <2>2. wpc' \in [Watches -> {"free", "opened", "running", "ended"}]
    BY <1>5 DEF EndWatch, TypeOK
  <2> QED BY <1>5, <2>1, <2>2
          DEF EndWatch, serverVars, getterVars, TypeOK, OpenedByOne, EntryWatched
<1>6. ASSUME NEW w \in Watches, HandleEvent(w) PROVE WatchInv'
  <2>1. Head(events[w]) \in Nat /\ Tail(events[w]) \in Seq(Nat)
    <3>1. events[w] \in Seq(Nat) /\ events[w] # <<>> BY <1>6 DEF HandleEvent, TypeOK
    <3> HIDE DEF WatchInv
    <3> QED BY <3>1
  <2>2. events' \in [Watches -> Seq(Nat)]
    <3> DEFINE rest == Tail(events[w])
    <3>1. events' = [events EXCEPT ![w] = rest] /\ rest \in Seq(Nat)
      BY <1>6, <2>1 DEF HandleEvent
    <3> HIDE DEF rest
    <3> QED BY <3>1 DEF TypeOK
  <2>3. entry' \in [there : BOOLEAN, cached : Nat]
    <3>1. CASE entry' = Holding(Head(events[w]))
      BY <2>1, <3>1, EntryTypes
    <3>2. CASE entry' = [entry EXCEPT !.cached = 0]
      BY <3>2 DEF TypeOK
    <3> QED BY <1>6, <3>1, <3>2 DEF HandleEvent, setToCache, removeFromCache
  <2> QED BY <1>6, <2>2, <2>3
          DEF HandleEvent, serverVars, getterVars, TypeOK, OpenedByOne, EntryWatched
<1>7. ASSUME NEW w \in Watches, WatchTerminated(w) PROVE WatchInv'
  <2>1. wpc' \in [Watches -> {"free", "opened", "running", "ended"}]
    BY <1>7 DEF WatchTerminated, TypeOK
  <2>2. /\ entry' = Missing
        /\ gpc' \in [Getters -> GetterPC] /\ gobj' \in [Getters -> Nat]
        /\ \A g \in Getters : gpc'[g] = "watching" <=> gpc[g] = "watching"
    BY <1>7, ClearType DEF WatchTerminated
  <2>3. TypeOK'
    BY <1>7, <2>1, <2>2, EntryTypes DEF WatchTerminated, serverVars, TypeOK
  <2>4. OpenedByOne'
    BY <1>7, <2>2 DEF WatchTerminated, TypeOK, OpenedByOne
  <2>5. EntryWatched'
    BY <2>2, EntryTypes DEF EntryWatched
  <2> QED BY <2>3, <2>4, <2>5
<1>8. ASSUME NEW g \in Getters, LookUp(g) PROVE WatchInv'
  <2>1. gpc' \in [Getters -> GetterPC] BY <1>8 DEF LookUp, TypeOK, GetterPC
  <2>2. \A h \in Getters : gpc'[h] = "watching" <=> gpc[h] = "watching"
    BY <1>8 DEF LookUp, TypeOK
  <2> QED BY <1>8, <2>1, <2>2
          DEF LookUp, serverVars, watchVars, TypeOK, OpenedByOne, EntryWatched
<1>9. ASSUME NEW g \in Getters, copyInto(g) PROVE WatchInv'
  <2>1. CASE Copied(g) # 0
    <3>1. /\ gpc[g] # "watching"
          /\ gpc' = [gpc EXCEPT ![g] = "idle"] /\ gobj' = [gobj EXCEPT ![g] = 0]
          /\ UNCHANGED <<object, last, entry, gwatch, wpc, events, faults>>
      BY <1>9, <2>1 DEF copyInto, serverVars, watchVars
    <3>2. gpc' \in [Getters -> GetterPC] /\ gobj' \in [Getters -> Nat]
      BY <3>1 DEF TypeOK, GetterPC
    <3>3. \A h \in Getters : gpc'[h] = "watching" <=> gpc[h] = "watching"
      BY <3>1 DEF TypeOK
    <3> QED BY <3>1, <3>2, <3>3 DEF TypeOK, OpenedByOne, EntryWatched
  <2>2. CASE Copied(g) = 0
    <3>1. /\ entry' = Missing
          /\ gpc' = [h \in Getters |-> "idle"] /\ gobj' = [h \in Getters |-> 0]
          /\ gwatch' = [h \in Getters |-> NoWatch]
          /\ wpc' = [w \in Watches |-> "free"] /\ events' = [w \in Watches |-> <<>>]
      BY <1>9, <2>2 DEF copyInto
    <3>2. events' \in [Watches -> Seq(Nat)]
      <4>1. <<>> \in Seq(Nat) OBVIOUS
      <4> QED BY <3>1, <4>1
    <3>3. TypeOK'
      BY <1>9, <3>1, <3>2, EntryTypes DEF copyInto, serverVars, TypeOK, GetterPC
    <3>4. OpenedByOne' /\ EntryWatched'
      BY <3>1, EntryTypes DEF OpenedByOne, EntryWatched
    <3> QED BY <3>3, <3>4
  <2> QED BY <2>1, <2>2
<1>10. ASSUME NEW g \in Getters, typedGet(g) PROVE WatchInv'
  <2>1. gpc' \in [Getters -> GetterPC]
    BY <1>10 DEF typedGet, TypeOK, GetterPC
  <2>2. gobj' \in [Getters -> Nat]
    BY <1>10 DEF typedGet, TypeOK
  <2>3. faults' \in Nat
    BY <1>10 DEF typedGet, Fault, TypeOK
  <2>4. \A h \in Getters : gpc'[h] = "watching" <=> gpc[h] = "watching"
    BY <1>10 DEF typedGet, TypeOK
  <2> QED BY <1>10, <2>1, <2>2, <2>3, <2>4
          DEF typedGet, serverVars, watchVars, TypeOK, OpenedByOne, EntryWatched
<1>11. ASSUME NEW g \in Getters, typedWatch(g) PROVE WatchInv'
  <2>1. CASE Fault /\ gpc' = [gpc EXCEPT ![g] = "idle"] /\ gobj' = [gobj EXCEPT ![g] = 0]
             /\ UNCHANGED <<gwatch, watchVars>>
    <3>1. gpc[g] = "got" /\ UNCHANGED <<object, last, entry, gwatch, wpc, events>>
      BY <1>11, <2>1 DEF typedWatch, serverVars, watchVars
    <3>2. gpc' \in [Getters -> GetterPC] /\ gobj' \in [Getters -> Nat]
      BY <2>1 DEF TypeOK, GetterPC
    <3>3. faults' \in Nat
      BY <2>1 DEF Fault, TypeOK
    <3>4. \A h \in Getters : gpc'[h] = "watching" <=> gpc[h] = "watching"
      BY <2>1, <3>1 DEF TypeOK
    <3> QED BY <3>1, <3>2, <3>3, <3>4 DEF TypeOK, OpenedByOne, EntryWatched
  <2>2. ASSUME NEW w \in Watches, wpc[w] = "free", wpc' = [wpc EXCEPT ![w] = "opened"],
               events' = [events EXCEPT ![w] = IF object = 0 THEN <<>> ELSE <<object>>],
               gwatch' = [gwatch EXCEPT ![g] = w], gpc' = [gpc EXCEPT ![g] = "watching"],
               UNCHANGED <<gobj, faults>>
        PROVE  WatchInv'
    <3>1. events' \in [Watches -> Seq(Nat)]
      <4>1. <<>> \in Seq(Nat) /\ <<object>> \in Seq(Nat) BY DEF TypeOK
      <4> QED BY <4>1, <2>2 DEF TypeOK
    <3>2. \A h \in Getters : gwatch[h] # w
      BY <2>2 DEF TypeOK, OpenedByOne
    <3>3. TypeOK'
      BY <1>11, <2>2, <3>1 DEF typedWatch, serverVars, TypeOK, GetterPC
    <3>4. OpenedByOne'
      BY <2>2, <3>2 DEF TypeOK, OpenedByOne
    <3>5. EntryWatched'
      BY <1>11, <2>2 DEF typedWatch, TypeOK, EntryWatched
    <3> QED BY <3>3, <3>4, <3>5
  <2> QED BY <1>11, <2>1, <2>2 DEF typedWatch
<1>12. ASSUME NEW g \in Getters, StoreAndStart(g) PROVE WatchInv'
  <2>1. gwatch[g] \in Watches BY <1>12 DEF StoreAndStart, TypeOK
  <2>2. TypeOK'
    <3>1. entry' \in [there : BOOLEAN, cached : Nat]
      BY <1>12, EntryTypes DEF StoreAndStart, setToCache, TypeOK
    <3> QED BY <1>12, <2>1, <3>1 DEF StoreAndStart, serverVars, TypeOK, GetterPC
  <2>3. OpenedByOne'
    BY <1>12, <2>1 DEF StoreAndStart, TypeOK, OpenedByOne
  <2>4. EntryWatched'
    BY <1>12, <2>1 DEF StoreAndStart, TypeOK, EntryWatched
  <2> QED BY <2>2, <2>3, <2>4
<1> QED BY <1>1, <1>2, <1>3, <1>4, <1>5, <1>6, <1>7, <1>8, <1>9, <1>10, <1>11, <1>12
        DEF Next, GetStep, WatchStep

(* The state of the caching client is always well formed. *)
THEOREM CacheTypeCorrect == Spec => []TypeOK
BY WatchInvInit, WatchInvNext, PTL DEF Spec, WatchInv

(* No order of misses, failed writes, panics and ends of watches leaves an *)
(* entry in the cache that no watch refreshes or clears.                   *)
THEOREM EntriesAreWatched == Spec => []EntryWatched
BY WatchInvInit, WatchInvNext, PTL DEF Spec, WatchInv
=============================================================================
