------------------------- MODULE ReferenceProtection -------------------------
(***************************************************************************)
(* The protection of referenced Secrets and ConfigMaps: the BackupConfig   *)
(* reconciler puts finalizers on what a config refers to, the Secret and   *)
(* the ConfigMap reconciler (one goroutine each) take them off what no     *)
(* config refers to.  All read through informer caches that lag behind the *)
(* API server and write with optimistic locking; the BackupConfig          *)
(* reconciler only logs failed writes to objects.                          *)
(*                                                                         *)
(* A resource version is compared for equality only: a copy of an object   *)
(* is fresh or not.  The rest of a config's deletion is BackupLifecycle's. *)
(***************************************************************************)
EXTENDS References, Naturals, FiniteSets

CONSTANTS
    Objects,      \* Secrets and ConfigMaps
    Configs,      \* names of BackupConfigs
    Specs,        \* specs users may write
    Own,          \* name of the encryption Secret generated for a config
    MaxEvents     \* bound: changes by users, failed calls, restarts

ASSUME ProtectionAssumption ==
    /\ Objects \subseteq [kind : {"Secret", "ConfigMap"}, name : {o.name : o \in Objects}]
    /\ Nil \notin Objects
    /\ MaxEvents \in Nat

VARIABLES
    objs, configs,          \* the API server
    ocache, fresh, ccache,  \* the informer caches; objects whose copy is current
    cqueue, oqueue,         \* work queues
    later,                  \* objects to be reconciled again in 30 s
    btodo, bconf, bobj,     \* BackupConfig reconciler: references left, config, copy
    rpc, rcopy,             \* object reconcilers: place and copy, by kind
    added,                  \* history: for which config and version a finalizer was added
    events

apiVars == <<objs, configs>>
cacheVars == <<ocache, fresh, ccache>>
queueVars == <<cqueue, oqueue, later>>
bVars == <<btodo, bconf, bobj>>
rVars == <<rpc, rcopy>>
vars == <<apiVars, cacheVars, queueVars, bVars, rVars, added, events>>

Kinds == {"Secret", "ConfigMap"}
Gone == [here |-> FALSE, fin |-> FALSE, dying |-> FALSE]
Object == [here : BOOLEAN, fin : BOOLEAN, dying : BOOLEAN]
NoCopy == [obj |-> Nil, fresh |-> FALSE, was |-> Gone]
Copy(o) == [obj |-> o, fresh |-> o \in fresh, was |-> ocache[o]]

NoConfig == [here |-> FALSE, dying |-> FALSE, fin |-> FALSE, ver |-> 0, spec |-> Nil]
NoOne == [config |-> Nil, ver |-> 0]

Event == events < MaxEvents /\ events' = events + 1

Refs(c, spec) == Protected(spec, Own[c]) \cap Objects
RefersTo(cs, c, o) == cs[c].here /\ o \in Refs(c, cs[c].spec)

Init ==
    /\ objs = [o \in Objects |-> [Gone EXCEPT !.here = TRUE]]
    /\ configs = [c \in Configs |-> NoConfig]
    /\ ocache = objs /\ fresh = Objects /\ ccache = configs
    /\ cqueue = {} /\ oqueue = {} /\ later = {}
    /\ btodo = {} /\ bconf = NoOne /\ bobj = NoCopy
    /\ rpc = [k \in Kinds |-> "idle"] /\ rcopy = [k \in Kinds |-> NoCopy]
    /\ added = [o \in Objects |-> {}]
    /\ events = 0

-----------------------------------------------------------------------------
(* A write to an object: every copy of it is outdated. *)
Outdated(copy, o) == IF copy.obj = o THEN [copy EXCEPT !.fresh = FALSE] ELSE copy
Write(o, new) ==
    /\ objs' = [objs EXCEPT ![o] = new]
    /\ fresh' = fresh \ {o}
    /\ UNCHANGED <<ocache, ccache>>

(* Users create, change and delete objects; the deletion of one with a     *)
(* finalizer waits.                                                        *)
ChangeObject(o) ==
    /\ Event
    /\ \/ ~objs[o].here /\ Write(o, [Gone EXCEPT !.here = TRUE]) /\ added' = [added EXCEPT ![o] = {}]
       \/ objs[o].here /\ Write(o, objs[o]) /\ UNCHANGED added
       \/ /\ objs[o].here /\ ~objs[o].dying
          /\ Write(o, IF objs[o].fin THEN [objs[o] EXCEPT !.dying = TRUE] ELSE Gone)
          /\ UNCHANGED added
    /\ bobj' = Outdated(bobj, o)
    /\ rcopy' = [k \in Kinds |-> Outdated(rcopy[k], o)]
    /\ UNCHANGED <<configs, queueVars, btodo, bconf, rpc>>

(* Users create and edit configs, past the webhook, and delete them.       *)
ChangeConfig(c) ==
    /\ Event
    /\ \/ \E s \in Specs :
            /\ validateBackupConfig(s)
            /\ configs' = [configs EXCEPT ![c].here = TRUE, ![c].spec = s, ![c].ver = events + 1]
       \/ /\ configs[c].here /\ ~configs[c].dying
          /\ configs' = [configs EXCEPT ![c] = IF @.fin THEN [@ EXCEPT !.dying = TRUE]
                                                        ELSE [NoConfig EXCEPT !.ver = events + 1]]
    /\ UNCHANGED <<objs, cacheVars, queueVars, bVars, rVars, added>>

(* The deletion of a config ends (BackupLifecycle). *)
FinishConfig(c) ==
    /\ configs[c].dying
    /\ Event
    /\ configs' = [configs EXCEPT ![c] = [NoConfig EXCEPT !.ver = events + 1]]
    /\ UNCHANGED <<objs, cacheVars, queueVars, bVars, rVars, added>>

-----------------------------------------------------------------------------
(* Informers; every event makes a request.  Status updates and the resync  *)
(* make requests for configs that have not changed otherwise.              *)
SyncConfig(c) ==
    /\ ccache[c] # configs[c]
    /\ ccache' = [ccache EXCEPT ![c] = configs[c]]
    /\ cqueue' = cqueue \cup {c}
    /\ UNCHANGED <<apiVars, ocache, fresh, oqueue, later, bVars, rVars, added, events>>

SyncObject(o) ==
    /\ o \notin fresh
    /\ ocache' = [ocache EXCEPT ![o] = objs[o]] /\ fresh' = fresh \cup {o}
    /\ oqueue' = oqueue \cup {o}
    /\ UNCHANGED <<apiVars, ccache, cqueue, later, bVars, rVars, added, events>>

ConfigEvent(c) ==
    /\ ccache[c].here
    /\ cqueue' = cqueue \cup {c}
    /\ UNCHANGED <<apiVars, cacheVars, oqueue, later, bVars, rVars, added, events>>

RequeueAfter(o) ==
    /\ o \in later
    /\ later' = later \ {o} /\ oqueue' = oqueue \cup {o}
    /\ UNCHANGED <<apiVars, cacheVars, cqueue, bVars, rVars, added, events>>

-----------------------------------------------------------------------------
(* The BackupConfig reconciler: its own finalizer first, where an error, a *)
(* conflict too, makes it start again; then the references.                *)
BIdle == btodo = {}

Reconcile(c) ==
    LET cfg == ccache[c]
        Begin == /\ btodo' = Refs(c, cfg.spec)
                 /\ bconf' = IF btodo' = {} THEN NoOne ELSE [config |-> c, ver |-> cfg.ver]
                 /\ cqueue' = cqueue \ {c}
    IN  /\ BIdle /\ c \in cqueue
        /\ \/ /\ ~cfg.here \/ cfg.dying
              /\ cqueue' = cqueue \ {c}
              /\ UNCHANGED <<configs, btodo, bconf>>
           \/ cfg.here /\ ~cfg.dying /\ cfg.fin /\ Begin /\ UNCHANGED configs
           \/ /\ cfg.here /\ ~cfg.dying /\ ~cfg.fin /\ configs[c] = cfg
              /\ configs' = [configs EXCEPT ![c].fin = TRUE]
              /\ Begin
        /\ UNCHANGED <<objs, cacheVars, oqueue, later, bobj, rVars, added, events>>

Left(rest) == btodo' = rest /\ bconf' = IF rest = {} THEN NoOne ELSE bconf

(* Mutant of GetReferenced: an object that is not there ends the loop. *)
GetReferencedOrStop(o) ==
    /\ o \in btodo /\ bobj = NoCopy
    /\ \/ ocache[o].here /\ ~ocache[o].fin /\ bobj' = Copy(o) /\ UNCHANGED <<btodo, bconf>>
       \/ ocache[o].here /\ ocache[o].fin /\ Left(btodo \ {o}) /\ UNCHANGED bobj
       \/ ~ocache[o].here /\ Left({}) /\ UNCHANGED bobj
    /\ UNCHANGED <<apiVars, cacheVars, queueVars, rVars, added, events>>

(* reconcileReferencedSecrets and -ConfigMaps: an object that is not there *)
(* or has the finalizer is passed over.  The order is of no consequence.   *)
GetReferenced(o) ==
    /\ o \in btodo /\ bobj = NoCopy
    /\ IF ocache[o].here /\ ~ocache[o].fin
         THEN bobj' = Copy(o) /\ UNCHANGED <<btodo, bconf>>
         ELSE Left(btodo \ {o}) /\ UNCHANGED bobj
    /\ UNCHANGED <<apiVars, cacheVars, queueVars, rVars, added, events>>

(* Refused for an outdated copy and, a finalizer, for a dying object; an   *)
(* error is logged and that is all.                                        *)
AddFinalizer ==
    LET o == bobj.obj
    IN  /\ bobj # NoCopy
        /\ \/ /\ bobj.fresh /\ ~objs[o].dying
              /\ Write(o, [objs[o] EXCEPT !.fin = TRUE])
              /\ added' = [added EXCEPT ![o] = @ \cup {bconf}]
              /\ rcopy' = [k \in Kinds |-> Outdated(rcopy[k], o)]
              /\ UNCHANGED events
           \/ /\ ~bobj.fresh \/ objs[o].dying
              /\ UNCHANGED <<objs, cacheVars, added, rcopy, events>>
           \/ Event /\ UNCHANGED <<objs, cacheVars, added, rcopy>>
        /\ Left(btodo \ {o}) /\ bobj' = NoCopy
        /\ UNCHANGED <<configs, queueVars, rpc>>

-----------------------------------------------------------------------------
(* Mutant of GetObject: NotFound is taken for an object. *)
GetObjectUnchecked(o) ==
    LET k == o.kind
    IN  /\ rpc[k] = "idle" /\ o \in oqueue
        /\ oqueue' = oqueue \ {o}
        /\ rpc' = [rpc EXCEPT ![k] = "list"] /\ rcopy' = [rcopy EXCEPT ![k] = Copy(o)]
        /\ UNCHANGED <<apiVars, cacheVars, cqueue, later, bVars, added, events>>

(* The reconciler of Secrets or ConfigMaps: get the object ...             *)
GetObject(o) ==
    LET k == o.kind
    IN  /\ rpc[k] = "idle" /\ o \in oqueue
        /\ oqueue' = oqueue \ {o}
        /\ \/ /\ ocache[o].here
              /\ rpc' = [rpc EXCEPT ![k] = "list"] /\ rcopy' = [rcopy EXCEPT ![k] = Copy(o)]
           \/ ~ocache[o].here /\ UNCHANGED rVars
        /\ UNCHANGED <<apiVars, cacheVars, cqueue, later, bVars, added, events>>

Idle(k) == rpc' = [rpc EXCEPT ![k] = "idle"] /\ rcopy' = [rcopy EXCEPT ![k] = NoCopy]

(* Mutant of isReferencedByAnyBackupConfig: configs being deleted, whose   *)
(* data is still to be removed with these credentials, do not count.       *)
isReferencedByLiveBackupConfig(o) ==
    \E c \in Configs : RefersTo(ccache, c, o) /\ ~ccache[c].dying

(* ... look for a config that refers to it, in the cache ...               *)
isReferencedByAnyBackupConfig(o) == \E c \in Configs : RefersTo(ccache, c, o)

(* Mutant of ListConfigs: a dying object that is referenced is left alone. *)
ListConfigsOnce(k) ==
    LET o == rcopy[k].obj
    IN  /\ rpc[k] = "list"
        /\ \/ /\ rcopy[k].was.fin /\ ~isReferencedByAnyBackupConfig(o)
              /\ rpc' = [rpc EXCEPT ![k] = "update"] /\ UNCHANGED rcopy
           \/ (~rcopy[k].was.fin \/ isReferencedByAnyBackupConfig(o)) /\ Idle(k)
        /\ UNCHANGED <<apiVars, cacheVars, queueVars, bVars, added, events>>

ListConfigs(k) ==
    LET o == rcopy[k].obj
        Waits == rcopy[k].was.fin /\ rcopy[k].was.dying
    IN  /\ rpc[k] = "list"
        /\ \/ /\ rcopy[k].was.fin /\ ~isReferencedByAnyBackupConfig(o)
              /\ rpc' = [rpc EXCEPT ![k] = "update"] /\ UNCHANGED <<later, rcopy>>
           \/ /\ ~rcopy[k].was.fin \/ isReferencedByAnyBackupConfig(o)
              /\ later' = IF Waits THEN later \cup {o} ELSE later
              /\ Idle(k)
        /\ UNCHANGED <<apiVars, cacheVars, cqueue, oqueue, bVars, added, events>>

(* ... and take the finalizer off; an error brings the object back into    *)
(* the queue.                                                              *)
RemoveFinalizer(k) ==
    LET o == rcopy[k].obj
    IN  /\ rpc[k] = "update"
        /\ \/ /\ rcopy[k].fresh
              /\ Write(o, IF objs[o].dying THEN Gone ELSE [objs[o] EXCEPT !.fin = FALSE])
              /\ bobj' = Outdated(bobj, o)
              /\ UNCHANGED <<oqueue, events>>
           \/ ~rcopy[k].fresh /\ oqueue' = oqueue \cup {o} /\ UNCHANGED <<objs, cacheVars, bobj, events>>
           \/ Event /\ oqueue' = oqueue \cup {o} /\ UNCHANGED <<objs, cacheVars, bobj>>
        /\ Idle(k)
        /\ UNCHANGED <<configs, cqueue, later, btodo, bconf, added>>

(* The operator restarts: caches are filled anew, everything is queued.    *)
Restart ==
    /\ Event
    /\ ocache' = objs /\ fresh' = Objects /\ ccache' = configs
    /\ cqueue' = { c \in Configs : configs[c].here } /\ later' = {}
    /\ oqueue' = { o \in Objects : objs[o].here }
    /\ btodo' = {} /\ bconf' = NoOne /\ bobj' = NoCopy
    /\ rpc' = [k \in Kinds |-> "idle"] /\ rcopy' = [k \in Kinds |-> NoCopy]
    /\ UNCHANGED <<apiVars, added>>

-----------------------------------------------------------------------------
ObjectStep(o) ==
    ChangeObject(o) \/ SyncObject(o) \/ RequeueAfter(o) \/ GetReferenced(o) \/ GetObject(o)
ConfigStep(c) ==
    ChangeConfig(c) \/ FinishConfig(c) \/ SyncConfig(c) \/ ConfigEvent(c) \/ Reconcile(c)

Next ==
    \/ \E o \in Objects : ObjectStep(o)
    \/ \E c \in Configs : ConfigStep(c)
    \/ \E k \in Kinds : ListConfigs(k) \/ RemoveFinalizer(k)
    \/ AddFinalizer \/ Restart

Spec == Init /\ [][Next]_vars

(* Informers catch up, timers fire, reconcilers run and their queues are   *)
(* first in, first out.  Events without a change are not promised.         *)
Fairness ==
    /\ \A o \in Objects : /\ WF_vars(SyncObject(o)) /\ WF_vars(RequeueAfter(o))
                          /\ WF_vars(GetReferenced(o)) /\ SF_vars(GetObject(o))
    /\ \A c \in Configs : WF_vars(SyncConfig(c)) /\ SF_vars(Reconcile(c))
    /\ \A k \in Kinds : WF_vars(ListConfigs(k)) /\ WF_vars(RemoveFinalizer(k))
    /\ WF_vars(AddFinalizer)
FairSpec == Spec /\ Fairness

-----------------------------------------------------------------------------
CopyType == [obj : Objects \cup {Nil}, fresh : BOOLEAN, was : Object]
ConfigType == [here : BOOLEAN, dying : BOOLEAN, fin : BOOLEAN, ver : Nat, spec : Specs \cup {Nil}]
ReaderType == [config : Configs \cup {Nil}, ver : Nat]

TypeOK ==
    /\ objs \in [Objects -> Object] /\ ocache \in [Objects -> Object] /\ fresh \subseteq Objects
    /\ configs \in [Configs -> ConfigType] /\ ccache \in [Configs -> ConfigType]
    /\ cqueue \subseteq Configs /\ oqueue \subseteq Objects /\ later \subseteq Objects
    /\ btodo \subseteq Objects /\ bconf \in ReaderType /\ bobj \in CopyType
    /\ rpc \in [Kinds -> {"idle", "list", "update"}] /\ rcopy \in [Kinds -> CopyType]
    /\ \A k \in Kinds : rpc[k] # "idle" => rcopy[k].obj # Nil /\ rcopy[k].was.here
    /\ added \in [Objects -> SUBSET ReaderType]
    /\ events \in Nat

(* A finalizer added for a config stays while that version of the config   *)
(* is there: no reconcile that began before, and none that sees the past   *)
(* in its cache, takes it off, and the object cannot be deleted.  It needs *)
(* the order Get, List, the cache the reconcilers share, and the optimistic*)
(* lock.                                                                   *)
AddedFinalizersHold ==
    \A o \in Objects : \A r \in added[o] :
      configs[r.config].here /\ configs[r.config].ver = r.ver => objs[o].here /\ objs[o].fin

(* When nothing changes any more, what is being deleted and not referred   *)
(* to goes, though the end of a reference makes no request for the object. *)
DyingObjectsGo ==
    <>[](\A o \in Objects : objs[o].dying => \E c \in Configs : RefersTo(configs, c, o))

EventsRecur == \A c \in Configs : WF_vars(ConfigEvent(c))

(* What a config refers to has a finalizer in the end, if events for the   *)
(* config recur: they make up for swallowed errors, for objects created    *)
(* after the config and for a finalizer taken off while it was admitted.   *)
ReferencedGetProtected ==
    EventsRecur =>
      <>[](\A c \in Configs, o \in Objects :
             RefersTo(configs, c, o) /\ ~configs[c].dying /\ objs[o].here /\ ~objs[o].dying
               => objs[o].fin)
=============================================================================
