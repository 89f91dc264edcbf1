---------------------------- MODULE ResourceCache ----------------------------
(***************************************************************************)
(* The resource caching client of the instance sidecar, for one object of  *)
(* a managed kind: Get from the cache or, on a miss, a live query followed *)
(* by a watch whose goroutine keeps the entry up to date and clears it     *)
(* when the watch ends.  A failed write clears the entry and leaves the    *)
(* watch alone, so that several watches may feed one entry.  Handlers      *)
(* (GetSource) are not used by the program and left out.                   *)
(*                                                                         *)
(* An object is its version; 0 is no object, in an entry a nil `cached'.   *)
(* The API server, its watches and the network are external.               *)
(***************************************************************************)
EXTENDS Naturals, Sequences, FiniteSets

CONSTANTS
    Getters,     \* goroutines that call Get
    Watches,     \* bound: watches open at a time
    NoWatch,     \* not a watch
    MaxVersion,  \* bound: versions the object may have
    MaxFaults    \* bound: failed calls, lost events, failed writes

ASSUME CacheAssumption == MaxVersion \in Nat \ {0} /\ MaxFaults \in Nat /\ NoWatch \notin Watches

VARIABLES
    object,      \* stored version, 0 while it does not exist
    last,        \* last version used
    entry,       \* watchedObjects[objKey]
    gpc, gobj,   \* the getters: place and the object in hand
    gwatch,      \* the watch a getter has opened
    wpc, events, \* the watches: state and events to come
    faults

serverVars == <<object, last>>
getterVars == <<gpc, gobj, gwatch>>
watchVars == <<wpc, events>>
vars == <<serverVars, entry, getterVars, watchVars, faults>>

Versions == 1..MaxVersion
Missing == [there |-> FALSE, cached |-> 0]
Holding(v) == [there |-> TRUE, cached |-> v]
Fault == faults < MaxFaults /\ faults' = faults + 1

Init ==
    /\ object = 1 /\ last = 1
    /\ entry = Missing
    /\ gpc = [g \in Getters |-> "idle"] /\ gobj = [g \in Getters |-> 0]
    /\ gwatch = [g \in Getters |-> NoWatch]
    /\ wpc = [w \in Watches |-> "free"] /\ events = [w \in Watches |-> <<>>]
    /\ faults = 0

-----------------------------------------------------------------------------
(* The API server.  An event is the version it tells of, 0 for Deleted.    *)
Watching == { w \in Watches : wpc[w] \in {"opened", "running"} }
Notify(v) == events' = [w \in Watches |-> IF w \in Watching THEN Append(events[w], v)
                                                            ELSE events[w]]
WriteObject ==
    /\ last < MaxVersion
    /\ object' = last + 1 /\ last' = last + 1
    /\ Notify(last + 1)
    /\ UNCHANGED <<entry, getterVars, wpc, faults>>

DeleteObject ==
    /\ object # 0
    /\ object' = 0 /\ Notify(0)
    /\ UNCHANGED <<last, entry, getterVars, wpc, faults>>

(* A watch ends: after its time, or early with events that never come.     *)
EndWatch(w) ==
    /\ wpc[w] = "running"
    /\ wpc' = [wpc EXCEPT ![w] = "ended"]
    /\ \/ UNCHANGED <<events, faults>>
       \/ events[w] # <<>> /\ Fault /\ events' = [events EXCEPT ![w] = <<>>]
    /\ UNCHANGED <<serverVars, entry, getterVars>>

-----------------------------------------------------------------------------
(* The entry.  A Get that found it shares it until it copies the object;   *)
(* what is deleted from the map is not written any more.                   *)
setToCache(v) == entry' = Holding(v)
removeFromCache == entry' = [entry EXCEPT !.cached = 0]
clearEntryByKey ==
    /\ entry' = Missing
    /\ gobj' = [g \in Getters |-> IF gpc[g] = "hit" THEN entry.cached ELSE gobj[g]]
    /\ gpc' = [g \in Getters |-> IF gpc[g] = "hit" THEN "copy" ELSE gpc[g]]

(* getAndCreateWatchIfNeeded: look at the entry under the lock, then at    *)
(* `cached' without it.                                                    *)
LookUp(g) ==
    /\ gpc[g] = "idle"
    /\ \/ ~entry.there /\ gpc' = [gpc EXCEPT ![g] = "miss"]
       \/ entry.there /\ entry.cached = 0 /\ UNCHANGED gpc           \* NotFound
       \/ entry.there /\ entry.cached # 0 /\ gpc' = [gpc EXCEPT ![g] = "hit"]
    /\ UNCHANGED <<serverVars, entry, gobj, gwatch, watchVars, faults>>

(* What copyInto is given: `cached' is read again, and may be nil by now.  *)
Copied(g) == IF gpc[g] = "hit" THEN entry.cached ELSE gobj[g]

(* Reflection on a nil object panics and takes the process, with its cache *)
(* and watches, down.                                                      *)
copyInto(g) ==
    /\ gpc[g] \in {"hit", "copy"}
    /\ \/ /\ Copied(g) # 0
          /\ gpc' = [gpc EXCEPT ![g] = "idle"] /\ gobj' = [gobj EXCEPT ![g] = 0]
          /\ UNCHANGED <<entry, gwatch, watchVars>>
       \/ /\ Copied(g) = 0
          /\ entry' = Missing
          /\ gpc' = [h \in Getters |-> "idle"] /\ gobj' = [h \in Getters |-> 0]
          /\ gwatch' = [h \in Getters |-> NoWatch]
          /\ wpc' = [w \in Watches |-> "free"] /\ events' = [w \in Watches |-> <<>>]
    /\ UNCHANGED <<serverVars, faults>>

(* The live query. *)
typedGet(g) ==
    /\ gpc[g] = "miss"
    /\ \/ /\ object # 0
          /\ gobj' = [gobj EXCEPT ![g] = object] /\ gpc' = [gpc EXCEPT ![g] = "got"]
          /\ UNCHANGED faults
       \/ object = 0 /\ gpc' = [gpc EXCEPT ![g] = "idle"] /\ UNCHANGED <<gobj, faults>>
       \/ Fault /\ gpc' = [gpc EXCEPT ![g] = "idle"] /\ UNCHANGED gobj
    /\ UNCHANGED <<serverVars, entry, gwatch, watchVars>>

(* Mutant of typedWatch: its error is not looked at. *)
typedWatchUnchecked(g) ==
    /\ gpc[g] = "got"
    /\ gpc' = [gpc EXCEPT ![g] = "watching"]
    /\ \/ \E w \in Watches :
            /\ wpc[w] = "free"
            /\ wpc' = [wpc EXCEPT ![w] = "opened"]
            /\ events' = [events EXCEPT ![w] = IF object = 0 THEN <<>> ELSE <<object>>]
            /\ gwatch' = [gwatch EXCEPT ![g] = w]
            /\ UNCHANGED faults
       \/ Fault /\ UNCHANGED <<gwatch, watchVars>>
    /\ UNCHANGED <<serverVars, entry, gobj>>

(* A watch without a resource version starts with an Added event for the   *)
(* object, if it exists then.                                              *)
typedWatch(g) ==
    /\ gpc[g] = "got"
    /\ \/ \E w \in Watches :
            /\ wpc[w] = "free"
            /\ wpc' = [wpc EXCEPT ![w] = "opened"]
            /\ events' = [events EXCEPT ![w] = IF object = 0 THEN <<>> ELSE <<object>>]
            /\ gwatch' = [gwatch EXCEPT ![g] = w]
            /\ gpc' = [gpc EXCEPT ![g] = "watching"]
            /\ UNCHANGED <<gobj, faults>>
       \/ /\ Fault
          /\ gpc' = [gpc EXCEPT ![g] = "idle"] /\ gobj' = [gobj EXCEPT ![g] = 0]
          /\ UNCHANGED <<gwatch, watchVars>>
    /\ UNCHANGED <<serverVars, entry>>

(* The object is stored, whatever the entry holds now, and the goroutine   *)
(* of the watch is started.                                                *)
StoreAndStart(g) ==
    /\ gpc[g] = "watching"
    /\ setToCache(gobj[g])
    /\ wpc' = [wpc EXCEPT ![gwatch[g]] = "running"]
    /\ gpc' = [gpc EXCEPT ![g] = "idle"] /\ gobj' = [gobj EXCEPT ![g] = 0]
    /\ gwatch' = [gwatch EXCEPT ![g] = NoWatch]
    /\ UNCHANGED <<serverVars, events, faults>>

-----------------------------------------------------------------------------
(* updateCache: one event, Added and Modified alike.                       *)
HandleEvent(w) ==
    /\ wpc[w] \in {"running", "ended"} /\ events[w] # <<>>
    /\ events' = [events EXCEPT ![w] = Tail(@)]
    /\ \/ Head(events[w]) # 0 /\ setToCache(Head(events[w]))
       \/ Head(events[w]) = 0 /\ removeFromCache
    /\ UNCHANGED <<serverVars, getterVars, wpc, faults>>

(* Mutant of WatchTerminated: the entry stays. *)
WatchForgotten(w) ==
    /\ wpc[w] = "ended" /\ events[w] = <<>>
    /\ wpc' = [wpc EXCEPT ![w] = "free"]
    /\ UNCHANGED <<serverVars, entry, getterVars, events, faults>>

(* The channel is closed: the entry goes, whichever watch feeds it. *)
WatchTerminated(w) ==
    /\ wpc[w] = "ended" /\ events[w] = <<>>
    /\ wpc' = [wpc EXCEPT ![w] = "free"]
    /\ clearEntryByKey
    /\ UNCHANGED <<serverVars, gwatch, events, faults>>

(* Create, Update or Delete through the client fails. *)
WriteFails ==
    /\ Fault
    /\ clearEntryByKey
    /\ UNCHANGED <<serverVars, gwatch, watchVars>>

-----------------------------------------------------------------------------
GetStep(g) == LookUp(g) \/ copyInto(g) \/ typedGet(g) \/ typedWatch(g) \/ StoreAndStart(g)
WatchStep(w) == HandleEvent(w) \/ WatchTerminated(w)

Next ==
    \/ WriteObject \/ DeleteObject \/ WriteFails
    \/ \E w \in Watches : EndWatch(w) \/ WatchStep(w)
    \/ \E g \in Getters : GetStep(g)

Spec == Init /\ [][Next]_vars

(* Goroutines run and API servers end every watch after a time.  Nothing   *)
(* makes anyone call Get: a miss that has begun goes on.                   *)
Fairness ==
    /\ \A w \in Watches : WF_vars(EndWatch(w)) /\ WF_vars(WatchStep(w))
    /\ \A g \in Getters : WF_vars(gpc[g] # "idle" /\ GetStep(g))
FairSpec == Spec /\ Fairness

-----------------------------------------------------------------------------
GetterPC == {"idle", "hit", "copy", "miss", "got", "watching"}

TypeOK ==
    /\ object \in Nat /\ last \in Nat
    /\ entry \in [there : BOOLEAN, cached : Nat]
    /\ gpc \in [Getters -> GetterPC] /\ gobj \in [Getters -> Nat]
    /\ gwatch \in [Getters -> Watches \cup {NoWatch}]
    /\ \A g \in Getters : gpc[g] = "watching" <=> gwatch[g] # NoWatch
    /\ wpc \in [Watches -> {"free", "opened", "running", "ended"}]
    /\ events \in [Watches -> Seq(Nat)] /\ faults \in Nat

(* An entry is never left to itself: some watch on the object has not      *)
(* ended yet, or has and its goroutine is still to clear the entry.  No    *)
(* order of misses, failed writes and ends of watches leaves an object in  *)
(* the cache that nothing refreshes.                                       *)
EntryWatched == entry.there => \E w \in Watches : wpc[w] \in {"running", "ended"}

(* When the object does not change any more, neither an event missed       *)
(* between the live query and the watch nor a late event of an old watch   *)
(* stays in the cache: it holds the object as it is, or nothing.           *)
CacheCatchesUp == <>[](entry.there => entry.cached = object)
=============================================================================
