---------------------- MODULE ReferenceProtectionProofs ----------------------
(***************************************************************************)
(* Proofs about ReferenceProtection, for any Secrets, ConfigMaps, configs  *)
(* and specs and any number of changes, failed calls and restarts.         *)
(***************************************************************************)
EXTENDS ReferenceProtection, TLAPS

(* A copy that counts as fresh is the stored object, and what the          *)
(* BackupConfig reconciler has in hand was there and is a reference left.  *)
CopiesTrue ==
    /\ \A o \in fresh : ocache[o] = objs[o]
    /\ bobj # NoCopy => /\ bobj.obj \in btodo /\ bobj.was.here
                        /\ bobj.fresh => bobj.was = objs[bobj.obj]

(* The cache shows a version of each config that was stored.               *)
CacheBehind ==
    \A c \in Configs :
      /\ ccache[c].ver <= configs[c].ver /\ configs[c].ver <= events
      /\ ccache[c].ver = configs[c].ver =>
           ccache[c].here = configs[c].here /\ ccache[c].spec = configs[c].spec

(* Configs cs are not older than the version r of one, and if they have    *)
(* that version, it refers to o.                                           *)
Shown(cs, r, o) ==
    /\ r.config \in Configs /\ r.ver <= cs[r.config].ver
    /\ r.ver = cs[r.config].ver => RefersTo(cs, r.config, o)

(* What the BackupConfig reconciler works on, and what it has worked on.   *)
ReadersShown ==
    /\ \A o \in btodo : Shown(ccache, bconf, o)
    /\ \A o \in Objects : \A r \in added[o] : Shown(ccache, r, o)

Current(r) == configs[r.config].here /\ configs[r.config].ver = r.ver

(* An update that will not be refused takes a finalizer off an object to   *)
(* which none was added for a config as it is.                             *)
UpdatesHarmless ==
    \A k \in Kinds : rpc[k] = "update" /\ rcopy[k].fresh =>
      \A r \in added[rcopy[k].obj] : ~Current(r)

ProtectionInv ==
    /\ TypeOK /\ CopiesTrue /\ CacheBehind /\ ReadersShown /\ UpdatesHarmless
    /\ AddedFinalizersHold

-----------------------------------------------------------------------------
(* Types.                                                                  *)
LEMMA NothingTypes ==
    /\ Gone \in Object /\ ~Gone.here /\ NoCopy \in CopyType /\ NoOne \in ReaderType
    /\ NoConfig \in ConfigType /\ NoConfig.ver = 0 /\ ~NoConfig.here
BY DEF Gone, Object, NoCopy, CopyType, NoOne, ReaderType, NoConfig, ConfigType

LEMMA CopyTypes ==
    ASSUME TypeOK, NEW o \in Objects
    PROVE  /\ Copy(o) \in CopyType
           /\ Copy(o).obj = o /\ Copy(o).was = ocache[o] /\ Copy(o).fresh = (o \in fresh)
BY DEF TypeOK, Copy, CopyType

LEMMA OutdatedTypes ==
    ASSUME NEW copy \in CopyType, NEW o
    PROVE  /\ Outdated(copy, o) \in CopyType
           /\ Outdated(copy, o).obj = copy.obj /\ Outdated(copy, o).was = copy.was
           /\ Outdated(copy, o).fresh => copy.fresh /\ copy.obj # o
           /\ copy.obj # o => Outdated(copy, o) = copy
BY DEF Outdated, CopyType

LEMMA RefsInObjects == \A c, spec : Refs(c, spec) \subseteq Objects
BY DEF Refs

LEMMA KindsOfObjects == \A o \in Objects : o.kind \in Kinds
BY ProtectionAssumption DEF Kinds

(* The last conjunct of TypeOK: a busy reconciler has an object in hand.   *)
Handed(pc, copies) == \A k \in Kinds : pc[k] # "idle" => copies[k].obj # Nil /\ copies[k].was.here

LEMMA CopiesOutdated ==
    ASSUME NEW copies \in [Kinds -> CopyType], NEW pc, Handed(pc, copies), NEW o
    PROVE  /\ [k \in Kinds |-> Outdated(copies[k], o)] \in [Kinds -> CopyType]
           /\ Handed(pc, [k \in Kinds |-> Outdated(copies[k], o)])
<1>1. \A k \in Kinds : copies[k] \in CopyType
  OBVIOUS
<1> QED BY <1>1, OutdatedTypes DEF Handed

LEMMA ObjectTypes ==
    ASSUME NEW x \in Object
    PROVE  /\ [x EXCEPT !.fin = TRUE] \in Object /\ [x EXCEPT !.fin = FALSE] \in Object
           /\ [x EXCEPT !.here = TRUE] \in Object /\ [x EXCEPT !.dying = TRUE] \in Object
           /\ [x EXCEPT !.fin = TRUE].fin /\ [x EXCEPT !.fin = TRUE].here = x.here
           /\ [x EXCEPT !.dying = TRUE].fin = x.fin /\ [x EXCEPT !.dying = TRUE].here = x.here
BY DEF Object

LEMMA Written ==
    ASSUME TypeOK, NEW o \in Objects, NEW new \in Object, Write(o, new)
    PROVE  /\ objs' \in [Objects -> Object] /\ objs'[o] = new /\ \A p \in Objects \ {o} : objs'[p] = objs[p]
           /\ fresh' = fresh \ {o} /\ fresh' \subseteq Objects /\ UNCHANGED <<ocache, ccache>>
BY DEF TypeOK, Write

LEMMA ConfigTypes ==
    ASSUME NEW x \in ConfigType, NEW s \in Specs, NEW n \in Nat
    PROVE  /\ [[[x EXCEPT !.here = TRUE] EXCEPT !.spec = s] EXCEPT !.ver = n] \in ConfigType
           /\ [x EXCEPT !.dying = TRUE] \in ConfigType /\ [x EXCEPT !.fin = TRUE] \in ConfigType
           /\ [NoConfig EXCEPT !.ver = n] \in ConfigType
BY NothingTypes DEF ConfigType

LEMMA TypeNext == TypeOK /\ [Next]_vars => TypeOK'
<1> SUFFICES ASSUME TypeOK, [Next]_vars PROVE TypeOK'
  OBVIOUS
<1> USE DEF apiVars, cacheVars, queueVars, bVars, rVars
<1>0. /\ objs \in [Objects -> Object] /\ bobj \in CopyType /\ rcopy \in [Kinds -> CopyType]
      /\ Handed(rpc, rcopy) /\ events \in Nat /\ MaxEvents \in Nat
  BY ProtectionAssumption DEF TypeOK, Handed
<1>1. ASSUME NEW o \in Objects, ChangeObject(o) PROVE TypeOK'
  <2>1. bobj' \in CopyType /\ rcopy' \in [Kinds -> CopyType] /\ Handed(rpc', rcopy')
    <3>1. /\ bobj' = Outdated(bobj, o) /\ rpc' = rpc
          /\ rcopy' = [k \in Kinds |-> Outdated(rcopy[k], o)]
      BY <1>1 DEF ChangeObject
    <3>2. Outdated(bobj, o) \in CopyType
      BY <1>0, OutdatedTypes
    <3>3. /\ [k \in Kinds |-> Outdated(rcopy[k], o)] \in [Kinds -> CopyType]
          /\ Handed(rpc, [k \in Kinds |-> Outdated(rcopy[k], o)])
      BY <1>0, CopiesOutdated
    <3> QED BY <3>1, <3>2, <3>3
  <2>2. /\ objs' \in [Objects -> Object] /\ fresh' \subseteq Objects
    <3>1. PICK new \in Object : Write(o, new)
      BY <1>1, <1>0, NothingTypes, ObjectTypes DEF ChangeObject
    <3> QED BY <3>1, Written
  <2>4. added' \in [Objects -> SUBSET ReaderType] /\ events' \in Nat
    BY <1>1, <1>0 DEF TypeOK, ChangeObject, Event
  <2>3. UNCHANGED <<configs, ocache, ccache, queueVars, btodo, bconf, rpc>>
    BY <1>1 DEF ChangeObject, Write
  <2> QED BY <2>1, <2>2, <2>3, <2>4 DEF TypeOK, Handed
<1>2. ASSUME NEW c \in Configs, ChangeConfig(c) \/ FinishConfig(c) PROVE TypeOK'
  <2>1. configs' \in [Configs -> ConfigType] /\ events' \in Nat
    <3>0. Event
      BY <1>2 DEF ChangeConfig, FinishConfig
    <3>1. events' = events + 1 /\ events + 1 \in Nat
      BY <3>0, <1>0 DEF Event
    <3>2. configs \in [Configs -> ConfigType]
      BY DEF TypeOK
    <3>3. PICK new \in ConfigType : configs' = [configs EXCEPT ![c] = new]
      <4>1. CASE \E s \in Specs : configs' = [configs EXCEPT ![c].here = TRUE, ![c].spec = s, ![c].ver = events + 1]
        BY <4>1, <3>1, <3>2, ConfigTypes
      <4>2. CASE configs' = [configs EXCEPT ![c] = IF @.fin THEN [@ EXCEPT !.dying = TRUE]
                                                   ELSE [NoConfig EXCEPT !.ver = events + 1]]
        <5>1. configs[c] \in ConfigType
          BY <3>2
        <5>2. [configs[c] EXCEPT !.dying = TRUE] \in ConfigType /\ [NoConfig EXCEPT !.ver = events + 1] \in ConfigType
          BY <5>1, <3>1, NothingTypes DEF ConfigType
        <5> QED BY <4>2, <5>2
      <4>3. CASE configs' = [configs EXCEPT ![c] = [NoConfig EXCEPT !.ver = events + 1]]
        <5>1. [NoConfig EXCEPT !.ver = events + 1] \in ConfigType
          BY <3>1, NothingTypes DEF ConfigType
        <5> QED BY <4>3, <5>1
      <4> QED BY <1>2, <4>1, <4>2, <4>3 DEF ChangeConfig, FinishConfig
    <3> QED BY <3>1, <3>2, <3>3
  <2> QED BY <1>2, <2>1 DEF TypeOK, ChangeConfig, FinishConfig
<1>3. ASSUME NEW c \in Configs, SyncConfig(c) \/ ConfigEvent(c) PROVE TypeOK'
  BY <1>3 DEF TypeOK, SyncConfig, ConfigEvent
<1>4. ASSUME NEW o \in Objects, SyncObject(o) \/ RequeueAfter(o) PROVE TypeOK'
  BY <1>4 DEF TypeOK, SyncObject, RequeueAfter
<1>5. ASSUME NEW c \in Configs, Reconcile(c) PROVE TypeOK'
  <2>1. configs' \in [Configs -> ConfigType]
    BY <1>5 DEF TypeOK, Reconcile, ConfigType
  <2>2. btodo' \subseteq Objects /\ bconf' \in ReaderType
    BY <1>5, RefsInObjects, NothingTypes DEF TypeOK, Reconcile, ReaderType, ConfigType
  <2>3. cqueue' \subseteq Configs
    BY <1>5 DEF TypeOK, Reconcile
  <2> QED BY <1>5, <2>1, <2>2, <2>3 DEF TypeOK, Reconcile
<1>6. ASSUME NEW o \in Objects, GetReferenced(o) PROVE TypeOK'
  BY <1>6, CopyTypes, NothingTypes DEF TypeOK, GetReferenced, Left
<1>7. CASE AddFinalizer
  <2>1. bobj' = NoCopy /\ btodo' \subseteq Objects /\ bconf' \in ReaderType
    BY <1>7, NothingTypes DEF TypeOK, AddFinalizer, Left
  <2>2. rcopy' \in [Kinds -> CopyType] /\ Handed(rpc', rcopy')
    <3>1. rpc' = rpc /\ (rcopy' = rcopy \/ rcopy' = [k \in Kinds |-> Outdated(rcopy[k], bobj.obj)])
      BY <1>7 DEF AddFinalizer
    <3> QED BY <1>0, <3>1, CopiesOutdated
  <2>3. objs' \in [Objects -> Object] /\ fresh' \subseteq Objects
    <3>1. CASE Write(bobj.obj, [objs[bobj.obj] EXCEPT !.fin = TRUE])
      <4>1. CASE bobj.obj \in Objects
        BY <1>0, <3>1, <4>1, ObjectTypes, Written
      <4>2. CASE bobj.obj \notin Objects
        BY <3>1, <4>2 DEF TypeOK, Write
      <4> QED BY <4>1, <4>2
    <3> QED BY <1>7, <3>1 DEF AddFinalizer, TypeOK
  <2>5. added' \in [Objects -> SUBSET ReaderType] /\ events' \in Nat
    BY <1>7, <1>0 DEF TypeOK, AddFinalizer, Event
  <2>4. UNCHANGED <<configs, ocache, ccache, queueVars, rpc>>
    BY <1>7 DEF AddFinalizer, Write
  <2> QED BY <2>1, <2>2, <2>3, <2>4, <2>5, NothingTypes DEF TypeOK, Handed
<1>8. ASSUME NEW o \in Objects, GetObject(o) PROVE TypeOK'
  <2>1. rpc' \in [Kinds -> {"idle", "list", "update"}] /\ rcopy' \in [Kinds -> CopyType]
    BY <1>8, KindsOfObjects, CopyTypes DEF TypeOK, GetObject
  <2>2. Handed(rpc', rcopy')
    BY <1>8, <1>0, KindsOfObjects, CopyTypes, ProtectionAssumption DEF TypeOK, GetObject, Handed
  <2> QED BY <1>8, <2>1, <2>2 DEF TypeOK, GetObject, Handed
<1>9. ASSUME NEW k \in Kinds, ListConfigs(k) PROVE TypeOK'
  <2>1. rcopy[k].obj \in Objects
    BY <1>9 DEF TypeOK, ListConfigs, CopyType
  <2>2. rpc' \in [Kinds -> {"idle", "list", "update"}] /\ rcopy' \in [Kinds -> CopyType]
    BY <1>9, NothingTypes DEF TypeOK, ListConfigs, Idle
  <2>3. Handed(rpc', rcopy')
    BY <1>9, <1>0 DEF TypeOK, ListConfigs, Handed, Idle
  <2>4. later' \subseteq Objects
    BY <1>9, <2>1 DEF TypeOK, ListConfigs
  <2> QED BY <1>9, <2>2, <2>3, <2>4 DEF TypeOK, ListConfigs, Handed
<1>10. ASSUME NEW k \in Kinds, RemoveFinalizer(k) PROVE TypeOK'
  <2>1. rcopy[k].obj \in Objects
    BY <1>10 DEF TypeOK, RemoveFinalizer, CopyType
  <2>2. /\ rpc' \in [Kinds -> {"idle", "list", "update"}] /\ rcopy' \in [Kinds -> CopyType]
        /\ Handed(rpc', rcopy')
    BY <1>10, <1>0, NothingTypes DEF TypeOK, RemoveFinalizer, Idle, Handed
  <2>3. bobj' \in CopyType
    BY <1>10, <1>0, OutdatedTypes DEF RemoveFinalizer
  <2>4. objs' \in [Objects -> Object] /\ fresh' \subseteq Objects
    <3>1. CASE \E new \in Object : Write(rcopy[k].obj, new)
      BY <3>1, <2>1, Written
    <3>2. CASE UNCHANGED <<objs, fresh>>
      BY <3>2 DEF TypeOK
    <3> QED BY <1>0, <1>10, <2>1, <3>1, <3>2, ObjectTypes, NothingTypes DEF RemoveFinalizer
  <2>6. oqueue' \subseteq Objects /\ events' \in Nat
    BY <1>10, <2>1, <1>0 DEF TypeOK, RemoveFinalizer, Event
  <2>5. UNCHANGED <<configs, ocache, ccache, cqueue, later, btodo, bconf, added>>
    BY <1>10 DEF RemoveFinalizer, Write
  <2> QED BY <2>2, <2>3, <2>4, <2>5, <2>6 DEF TypeOK, Handed
<1>11. CASE Restart
  BY <1>11, <1>0, NothingTypes DEF TypeOK, Restart, Event
<1>12. CASE UNCHANGED vars
  BY <1>12 DEF TypeOK, vars
<1> QED BY <1>1, <1>2, <1>3, <1>4, <1>5, <1>6, <1>7, <1>8, <1>9, <1>10, <1>11, <1>12
        DEF Next, ObjectStep, ConfigStep

LEMMA InitTypes == Init => TypeOK
<1> SUFFICES ASSUME Init PROVE TypeOK
  OBVIOUS
<1>1. [Gone EXCEPT !.here = TRUE] \in Object
  BY NothingTypes, ObjectTypes
<1> QED BY <1>1, NothingTypes DEF Init, TypeOK

(* Type correctness: every copy in hand is of a known object, and a busy   *)
(* reconciler of Secrets or ConfigMaps has got one that was there, since   *)
(* NotFound ends Reconcile before.                                         *)
THEOREM ProtectionTypeCorrect == Spec => []TypeOK
BY InitTypes, TypeNext, PTL DEF Spec

-----------------------------------------------------------------------------
(* What a step does to the configs and to the cache of them.               *)
SameVersion(x, y) == x.ver = y.ver /\ x.here = y.here /\ x.spec = y.spec

LEMMA ConfigsAfter ==
    ASSUME TypeOK, Next, NEW c \in Configs
    PROVE  /\ SameVersion(configs[c], configs'[c]) \/ (configs'[c].ver = events' /\ events' = events + 1)
           /\ ccache'[c] = ccache[c] \/ (ccache'[c] = configs[c] /\ configs' = configs)
           /\ events' = events \/ events' = events + 1
<1> USE DEF apiVars, cacheVars, queueVars, bVars, rVars
<1> DEFINE Goal == /\ \/ SameVersion(configs[c], configs'[c])
                      \/ configs'[c].ver = events' /\ events' = events + 1
                   /\ ccache'[c] = ccache[c] \/ (ccache'[c] = configs[c] /\ configs' = configs)
                   /\ events' = events \/ events' = events + 1
<1>0. /\ configs \in [Configs -> ConfigType] /\ events \in Nat /\ events + 1 \in Nat
      /\ ccache \in [Configs -> ConfigType]
  BY DEF TypeOK
<1>1. ASSUME NEW d \in Configs, ChangeConfig(d) \/ FinishConfig(d) PROVE Goal
  <2>1. Event /\ ccache' = ccache
    BY <1>1 DEF ChangeConfig, FinishConfig
  <2>2. events' = events + 1
    BY <2>1 DEF Event
  <2>3. CASE \E s \in Specs : configs' = [configs EXCEPT ![d].here = TRUE, ![d].spec = s, ![d].ver = events + 1]
    <3>1. PICK s \in Specs : configs' = [configs EXCEPT ![d].here = TRUE, ![d].spec = s, ![d].ver = events + 1]
      BY <2>3
    <3>2. CASE c = d
      <4>1. configs'[d].ver = events + 1
        BY <3>1, <1>0 DEF ConfigType
      <4> QED BY <3>2, <4>1, <2>1, <2>2
    <3>3. CASE c # d
      <4>1. configs'[c] = configs[c]
        BY <3>1, <3>3, <1>0
      <4> QED BY <4>1, <2>1, <2>2 DEF SameVersion
    <3> QED BY <3>2, <3>3
  <2>4. CASE configs' = [configs EXCEPT ![d] = IF @.fin THEN [@ EXCEPT !.dying = TRUE]
                                               ELSE [NoConfig EXCEPT !.ver = events + 1]]
    <3>1. configs[d] \in ConfigType /\ configs[c] \in ConfigType
      BY <1>0
    <3>2. SameVersion(configs[d], [configs[d] EXCEPT !.dying = TRUE])
      BY <3>1 DEF ConfigType, SameVersion
    <3>3. [NoConfig EXCEPT !.ver = events + 1].ver = events + 1
      BY DEF NoConfig
    <3> QED BY <2>4, <2>1, <2>2, <3>2, <3>3, <1>0 DEF SameVersion
  <2>5. CASE configs' = [configs EXCEPT ![d] = [NoConfig EXCEPT !.ver = events + 1]]
    <3>1. [NoConfig EXCEPT !.ver = events + 1].ver = events + 1
      BY DEF NoConfig
    <3> QED BY <2>5, <2>1, <2>2, <3>1, <1>0 DEF SameVersion
  <2> QED BY <1>1, <2>3, <2>4, <2>5 DEF ChangeConfig, FinishConfig
<1>2. ASSUME NEW d \in Configs, Reconcile(d) PROVE Goal
  <2>1. UNCHANGED <<ccache, events>> /\ (configs' = configs \/ configs' = [configs EXCEPT ![d].fin = TRUE])
    BY <1>2 DEF Reconcile
  <2>2. CASE configs' = configs
    BY <2>1, <2>2 DEF SameVersion
  <2>3. CASE configs' = [configs EXCEPT ![d].fin = TRUE]
    BY <2>1, <2>3, <1>0 DEF SameVersion, ConfigType
  <2> QED BY <2>1, <2>2, <2>3
<1>3. CASE configs' = configs /\ ccache' = ccache /\ (events' = events \/ Event)
  BY <1>3 DEF SameVersion, Event
<1>4. ASSUME NEW d \in Configs, SyncConfig(d) PROVE Goal
  BY <1>4, <1>0 DEF SyncConfig, SameVersion
<1>5. CASE Restart
  BY <1>5 DEF Restart, SameVersion, Event
<1>6. ASSUME NEW o \in Objects, ObjectStep(o) PROVE Goal
  <2>1. CASE ChangeObject(o)
    BY <2>1, <1>3 DEF ChangeObject, Write
  <2>2. CASE SyncObject(o)
    BY <2>2, <1>3 DEF SyncObject
  <2>3. CASE RequeueAfter(o) \/ GetReferenced(o) \/ GetObject(o)
    BY <2>3, <1>3 DEF RequeueAfter, GetReferenced, GetObject
  <2> QED BY <1>6, <2>1, <2>2, <2>3 DEF ObjectStep
<1>7. ASSUME NEW k \in Kinds, ListConfigs(k) \/ RemoveFinalizer(k) PROVE Goal
  BY <1>7, <1>3 DEF ListConfigs, RemoveFinalizer, Write
<1>8. CASE AddFinalizer
  BY <1>8, <1>3 DEF AddFinalizer, Write
<1>9. ASSUME NEW d \in Configs, ConfigEvent(d) PROVE Goal
  BY <1>9, <1>3 DEF ConfigEvent
<1> QED BY <1>1, <1>2, <1>4, <1>5, <1>6, <1>7, <1>8, <1>9 DEF Next, ConfigStep

LEMMA CacheBehindNext ==
    ASSUME TypeOK, CacheBehind, Next PROVE CacheBehind'
<1> SUFFICES ASSUME NEW c \in Configs
             PROVE  /\ ccache'[c].ver <= configs'[c].ver /\ configs'[c].ver <= events'
                    /\ ccache'[c].ver = configs'[c].ver =>
                         ccache'[c].here = configs'[c].here /\ ccache'[c].spec = configs'[c].spec
  BY DEF CacheBehind
<1>1. ccache[c].ver \in Nat /\ configs[c].ver \in Nat /\ events \in Nat
  BY DEF TypeOK, ConfigType
<1>2. /\ ccache[c].ver <= configs[c].ver /\ configs[c].ver <= events
      /\ ccache[c].ver = configs[c].ver =>
           ccache[c].here = configs[c].here /\ ccache[c].spec = configs[c].spec
  BY DEF CacheBehind
<1> QED BY <1>1, <1>2, ConfigsAfter DEF SameVersion

LEMMA ShownStays ==
    ASSUME TypeOK, CacheBehind, Next, NEW r \in ReaderType, NEW o, Shown(ccache, r, o)
    PROVE  Shown(ccache', r, o)
<1> DEFINE c == r.config
<1>1. /\ c \in Configs /\ r.ver \in Nat /\ r.ver <= ccache[c].ver
      /\ r.ver = ccache[c].ver => RefersTo(ccache, c, o)
  BY DEF Shown, ReaderType
<1>2. ccache[c].ver \in Nat /\ configs[c].ver \in Nat
  BY <1>1 DEF TypeOK, ConfigType
<1>3. /\ ccache[c].ver <= configs[c].ver
      /\ ccache[c].ver = configs[c].ver =>
           ccache[c].here = configs[c].here /\ ccache[c].spec = configs[c].spec
  BY <1>1 DEF CacheBehind
<1>4. ccache'[c] = ccache[c] \/ ccache'[c] = configs[c]
  BY <1>1, ConfigsAfter
<1>5. /\ r.ver <= ccache'[c].ver
      /\ r.ver = ccache'[c].ver =>
           /\ r.ver = ccache[c].ver /\ ccache'[c].here = ccache[c].here
           /\ ccache'[c].spec = ccache[c].spec
  BY <1>1, <1>2, <1>3, <1>4
<1> QED BY <1>1, <1>5 DEF Shown, RefersTo

LEMMA CurrentBefore ==
    ASSUME TypeOK, CacheBehind, Next, NEW r \in ReaderType, NEW o, Shown(ccache, r, o), Current(r)'
    PROVE  Current(r)
<1> DEFINE c == r.config
<1>1. c \in Configs /\ r.ver \in Nat /\ r.ver <= ccache[c].ver
  BY DEF Shown, ReaderType
<1>2. ccache[c].ver \in Nat /\ configs[c].ver \in Nat /\ events \in Nat
  BY <1>1 DEF TypeOK, ConfigType
<1>3. ccache[c].ver <= configs[c].ver /\ configs[c].ver <= events
  BY <1>1 DEF CacheBehind
<1>4. SameVersion(configs[c], configs'[c]) \/ configs'[c].ver = events + 1
  BY <1>1, ConfigsAfter
<1>5. configs'[c].here /\ configs'[c].ver = r.ver
  BY DEF Current
<1>6. SameVersion(configs[c], configs'[c])
  BY <1>1, <1>2, <1>3, <1>4, <1>5
<1> QED BY <1>5, <1>6, Zenon DEF Current, SameVersion

-----------------------------------------------------------------------------
(* Copies.                                                                 *)
LEMMA CopiesTrueNext ==
    ASSUME TypeOK, CopiesTrue, Next PROVE CopiesTrue'
<1> USE DEF apiVars, cacheVars, queueVars, bVars, rVars
<1>0. /\ objs \in [Objects -> Object] /\ bobj \in CopyType /\ fresh \subseteq Objects
      /\ \A o \in fresh : ocache[o] = objs[o]
      /\ bobj # NoCopy => /\ bobj.obj \in btodo /\ bobj.was.here
                          /\ bobj.fresh => bobj.was = objs[bobj.obj]
      /\ btodo \subseteq Objects /\ ~NoCopy.was.here
  BY DEF TypeOK, CopiesTrue, NoCopy, Gone
<1>1. ASSUME NEW o \in Objects, NEW new \in Object, Write(o, new), bobj' = Outdated(bobj, o), btodo' = btodo
      PROVE  CopiesTrue'
  <2>1. \A p \in fresh' : ocache'[p] = objs'[p]
    BY <1>0, <1>1, Written
  <2>2. /\ bobj'.obj = bobj.obj /\ bobj'.was = bobj.was
        /\ bobj'.fresh => bobj.fresh /\ bobj.obj # o
        /\ bobj.obj # o => bobj' = bobj
    BY <1>0, <1>1, OutdatedTypes
  <2>3. bobj' # NoCopy => bobj # NoCopy
    <3>1. NoCopy.obj # o
      BY <1>1, ProtectionAssumption DEF NoCopy
    <3> QED BY <1>1, <3>1 DEF Outdated
  <2>4. ASSUME bobj'.fresh, bobj' # NoCopy PROVE bobj'.was = objs'[bobj'.obj]
    <3>1. bobj # NoCopy /\ bobj.fresh /\ bobj.obj # o
      BY <2>2, <2>3, <2>4
    <3>2. bobj.was = objs[bobj.obj] /\ bobj.obj \in Objects
      BY <3>1, <1>0
    <3>3. objs'[bobj.obj] = objs[bobj.obj]
      BY <3>1, <3>2, <1>1, Written
    <3> QED BY <2>2, <3>2, <3>3
  <2> QED BY <1>0, <1>1, <2>1, <2>2, <2>3, <2>4 DEF CopiesTrue
<1>2. CASE UNCHANGED <<objs, ocache, fresh, btodo, bobj>>
  BY <1>2, <1>0 DEF CopiesTrue
<1>3. CASE bobj' = NoCopy /\ \A p \in fresh' : ocache'[p] = objs'[p]
  BY <1>3 DEF CopiesTrue
<1>4. ASSUME NEW o \in Objects, ObjectStep(o) PROVE CopiesTrue'
  <2>1. CASE ChangeObject(o)
    <3>1. PICK new \in Object : Write(o, new)
      BY <2>1, <1>0, NothingTypes, ObjectTypes DEF ChangeObject
    <3> QED BY <2>1, <3>1, <1>1 DEF ChangeObject
  <2>2. CASE SyncObject(o)
    BY <2>2, <1>0 DEF SyncObject, CopiesTrue, TypeOK
  <2>3. CASE RequeueAfter(o) \/ GetObject(o)
    BY <2>3, <1>2 DEF RequeueAfter, GetObject
  <2>4. CASE GetReferenced(o)
    <3>1. CASE bobj' = Copy(o) /\ ocache[o].here /\ btodo' = btodo
      BY <2>4, <3>1, <1>0, CopyTypes DEF GetReferenced, CopiesTrue
    <3>2. CASE bobj' = bobj
      BY <2>4, <3>2, <1>0 DEF GetReferenced, CopiesTrue
    <3> QED BY <2>4, <3>1, <3>2 DEF GetReferenced
  <2> QED BY <1>4, <2>1, <2>2, <2>3, <2>4 DEF ObjectStep
<1>5. ASSUME NEW c \in Configs, ConfigStep(c) PROVE CopiesTrue'
  <2>1. CASE Reconcile(c)
    <3>1. bobj = NoCopy
      BY <2>1, <1>0 DEF Reconcile, BIdle
    <3> QED BY <2>1, <3>1, <1>0, <1>3 DEF Reconcile
  <2>2. CASE ChangeConfig(c) \/ FinishConfig(c) \/ SyncConfig(c) \/ ConfigEvent(c)
    BY <2>2, <1>2 DEF ChangeConfig, FinishConfig, SyncConfig, ConfigEvent
  <2> QED BY <1>5, <2>1, <2>2 DEF ConfigStep
<1>6. ASSUME NEW k \in Kinds, ListConfigs(k) PROVE CopiesTrue'
  BY <1>6, <1>2 DEF ListConfigs
<1>7. ASSUME NEW k \in Kinds, RemoveFinalizer(k) PROVE CopiesTrue'
  <2>1. rcopy[k].obj \in Objects
    BY <1>7 DEF TypeOK, RemoveFinalizer, CopyType
  <2>2. CASE Write(rcopy[k].obj, IF objs[rcopy[k].obj].dying THEN Gone ELSE [objs[rcopy[k].obj] EXCEPT !.fin = FALSE])
             /\ bobj' = Outdated(bobj, rcopy[k].obj)
    <3>1. (IF objs[rcopy[k].obj].dying THEN Gone ELSE [objs[rcopy[k].obj] EXCEPT !.fin = FALSE]) \in Object
      BY <1>0, <2>1, ObjectTypes, NothingTypes
    <3> QED BY <1>7, <2>1, <2>2, <3>1, <1>1 DEF RemoveFinalizer
  <2> QED BY <1>7, <2>2, <1>2 DEF RemoveFinalizer
<1>8. CASE AddFinalizer
  <2>1. bobj.obj \in Objects /\ bobj' = NoCopy
    BY <1>8, <1>0 DEF AddFinalizer
  <2>2. CASE Write(bobj.obj, [objs[bobj.obj] EXCEPT !.fin = TRUE])
    <3>1. [objs[bobj.obj] EXCEPT !.fin = TRUE] \in Object
      BY <1>0, <2>1, ObjectTypes
    <3>2. \A p \in fresh' : ocache'[p] = objs'[p]
      BY <1>0, <2>1, <2>2, <3>1, Written
    <3> QED BY <2>1, <3>2, <1>3
  <2>3. CASE UNCHANGED <<objs, cacheVars>>
    BY <2>1, <2>3, <1>0, <1>3
  <2> QED BY <1>8, <2>2, <2>3 DEF AddFinalizer
<1>9. CASE Restart
  BY <1>9, <1>3 DEF Restart
<1> QED BY <1>4, <1>5, <1>6, <1>7, <1>8, <1>9 DEF Next

(* A reader is shown what it works on, and what it has worked on.          *)
LEMMA ReadersShownNext ==
    ASSUME TypeOK, CopiesTrue, CacheBehind, ReadersShown, Next PROVE ReadersShown'
<1> USE DEF apiVars, cacheVars, queueVars, bVars, rVars
<1>0. /\ btodo \subseteq Objects /\ bconf \in ReaderType
      /\ added \in [Objects -> SUBSET ReaderType]
      /\ \A o \in btodo : Shown(ccache', bconf, o)
      /\ \A o \in Objects : \A r \in added[o] : Shown(ccache', r, o)
  <2>1. /\ btodo \subseteq Objects /\ bconf \in ReaderType
        /\ added \in [Objects -> SUBSET ReaderType]
    BY DEF TypeOK
  <2>2. \A o \in Objects : \A r \in added[o] : r \in ReaderType
    BY <2>1
  <2> QED BY <2>1, <2>2, ShownStays DEF ReadersShown
<1>1. ASSUME btodo' \subseteq btodo, btodo' = {} \/ bconf' = bconf,
             \A o \in Objects : \A r \in added'[o] : r \in added[o] \/ (o \in btodo /\ r = bconf)
      PROVE  ReadersShown'
  <2>1. \A o \in btodo' : Shown(ccache', bconf, o)
    BY <1>0, <1>1
  <2>2. \A o \in btodo' : Shown(ccache', bconf', o)
    <3>1. CASE btodo' = {}
      BY <3>1
    <3>2. CASE bconf' = bconf
      BY <2>1, <3>2 DEF Shown
    <3> QED BY <1>1, <3>1, <3>2
  <2>3. \A o \in Objects : \A r \in added'[o] : Shown(ccache', r, o)
    BY <1>0, <1>1 DEF Shown
  <2> QED BY <2>2, <2>3 DEF ReadersShown
<1>2. CASE UNCHANGED <<btodo, bconf>> /\ \A o \in Objects : added'[o] \subseteq added[o]
  BY <1>1, <1>2
<1>3. ASSUME NEW o \in Objects, ObjectStep(o) PROVE ReadersShown'
  <2>1. CASE ChangeObject(o)
    <3>1. UNCHANGED <<btodo, bconf>> /\ (added' = added \/ added' = [added EXCEPT ![o] = {}])
      BY <2>1 DEF ChangeObject
    <3> QED BY <3>1, <1>0, <1>2
  <2>2. CASE SyncObject(o) \/ RequeueAfter(o) \/ GetObject(o)
    BY <2>2, <1>2 DEF SyncObject, RequeueAfter, GetObject
  <2>3. CASE GetReferenced(o)
    BY <2>3, <1>1 DEF GetReferenced, Left
  <2> QED BY <1>3, <2>1, <2>2, <2>3 DEF ObjectStep
<1>4. ASSUME NEW c \in Configs, ConfigStep(c) PROVE ReadersShown'
  <2>1. CASE Reconcile(c)
    <3>1. UNCHANGED <<ccache, added>>
      BY <2>1 DEF Reconcile
    <3>2. CASE UNCHANGED <<btodo, bconf>>
      BY <3>1, <3>2, <1>2
    <3>3. CASE /\ ccache[c].here /\ btodo' = Refs(c, ccache[c].spec)
               /\ bconf' = IF btodo' = {} THEN NoOne ELSE [config |-> c, ver |-> ccache[c].ver]
      <4>1. ccache[c].ver \in Nat
        BY DEF TypeOK, ConfigType
      <4>2. \A o \in btodo' : Shown(ccache', bconf', o)
        BY <3>1, <3>3, <4>1 DEF Shown, RefersTo
      <4> QED BY <1>0, <3>1, <4>2 DEF ReadersShown
    <3> QED BY <2>1, <3>2, <3>3 DEF Reconcile
  <2>2. CASE ChangeConfig(c) \/ FinishConfig(c) \/ SyncConfig(c) \/ ConfigEvent(c)
    BY <2>2, <1>2 DEF ChangeConfig, FinishConfig, SyncConfig, ConfigEvent
  <2> QED BY <1>4, <2>1, <2>2 DEF ConfigStep
<1>5. ASSUME NEW k \in Kinds, ListConfigs(k) \/ RemoveFinalizer(k) PROVE ReadersShown'
  BY <1>5, <1>2 DEF ListConfigs, RemoveFinalizer
<1>6. CASE AddFinalizer
  <2>1. bobj.obj \in btodo
    BY <1>6 DEF AddFinalizer, CopiesTrue
  <2>2. btodo' \subseteq btodo /\ (btodo' = {} \/ bconf' = bconf)
    BY <1>6 DEF AddFinalizer, Left
  <2>3. added' = added \/ added' = [added EXCEPT ![bobj.obj] = @ \cup {bconf}]
    BY <1>6 DEF AddFinalizer
  <2> QED BY <1>0, <1>1, <2>1, <2>2, <2>3
<1>7. CASE Restart
  BY <1>7, <1>1 DEF Restart
<1> QED BY <1>3, <1>4, <1>5, <1>6, <1>7 DEF Next

(* The cache shows that a current version refers to what was protected for *)
(* it, so that the list of an object reconciler finds it.                  *)
LEMMA CurrentListed ==
    ASSUME TypeOK, CacheBehind, NEW r \in ReaderType, NEW o, Shown(ccache, r, o), Current(r)
    PROVE  isReferencedByAnyBackupConfig(o)
<1> DEFINE c == r.config
<1>1. /\ c \in Configs /\ r.ver \in Nat /\ r.ver <= ccache[c].ver
      /\ r.ver = ccache[c].ver => RefersTo(ccache, c, o)
  BY DEF Shown, ReaderType
<1>2. ccache[c].ver \in Nat /\ configs[c].ver \in Nat /\ ccache[c].ver <= configs[c].ver
  BY <1>1 DEF TypeOK, ConfigType, CacheBehind
<1>3. configs[c].ver = r.ver
  BY DEF Current
<1> QED BY <1>1, <1>2, <1>3 DEF isReferencedByAnyBackupConfig

(* Updates under way.  Only a list begins one; a write to the object makes *)
(* its copy outdated.                                                      *)
LEMMA UpdatesHarmlessNext ==
    ASSUME TypeOK, CopiesTrue, CacheBehind, ReadersShown, UpdatesHarmless, Next
    PROVE  UpdatesHarmless'
<1> USE DEF apiVars, cacheVars, queueVars, bVars, rVars
<1>0. /\ rcopy \in [Kinds -> CopyType] /\ rpc \in [Kinds -> {"idle", "list", "update"}]
      /\ added \in [Objects -> SUBSET ReaderType]
      /\ \A k \in Kinds : rpc[k] = "update" => rcopy[k].obj \in Objects
      /\ \A k \in Kinds : rpc[k] = "list" => rcopy[k].obj \in Objects
  BY DEF TypeOK, CopyType
<1> DEFINE Keeps(k) ==
             rpc'[k] = "update" /\ rcopy'[k].fresh =>
               /\ rpc[k] = "update" /\ rcopy[k].fresh /\ rcopy'[k].obj = rcopy[k].obj
               /\ added'[rcopy[k].obj] \subseteq added[rcopy[k].obj]
<1> DEFINE Harmless(k) ==
             rpc'[k] = "update" /\ rcopy'[k].fresh =>
               \A r \in added'[rcopy'[k].obj] : ~Current(r)'
<1>1. ASSUME NEW k \in Kinds, Keeps(k) PROVE Harmless(k)
  <2> SUFFICES ASSUME rpc'[k] = "update", rcopy'[k].fresh, NEW r \in added'[rcopy'[k].obj], Current(r)'
               PROVE  FALSE
    OBVIOUS
  <2>1. /\ rpc[k] = "update" /\ rcopy[k].fresh /\ rcopy[k].obj \in Objects
        /\ r \in added[rcopy[k].obj]
    BY <1>0, <1>1
  <2>2. r \in ReaderType /\ Shown(ccache, r, rcopy[k].obj) /\ ~Current(r)
    BY <2>1, <1>0 DEF ReadersShown, UpdatesHarmless
  <2> QED BY <2>2, CurrentBefore
<1>2. CASE UNCHANGED <<rpc, rcopy>> /\ \A o \in Objects : added'[o] \subseteq added[o]
  BY <1>0, <1>1, <1>2 DEF UpdatesHarmless
<1>3. ASSUME NEW o, rpc' = rpc, rcopy' = [k \in Kinds |-> Outdated(rcopy[k], o)],
             \A p \in Objects \ {o} : added'[p] = added[p]
      PROVE  UpdatesHarmless'
  <2>1. ASSUME NEW k \in Kinds PROVE Keeps(k)
    <3>1. rcopy[k] \in CopyType /\ rcopy'[k] = Outdated(rcopy[k], o)
      BY <1>0, <1>3
    <3>2. /\ rcopy'[k].obj = rcopy[k].obj
          /\ rcopy'[k].fresh => rcopy[k].fresh /\ rcopy[k].obj # o
      BY <3>1, OutdatedTypes
    <3> QED BY <1>0, <1>3, <3>2
  <2> QED BY <1>1, <2>1 DEF UpdatesHarmless
<1>4. ASSUME NEW o \in Objects, ObjectStep(o) PROVE UpdatesHarmless'
  <2>1. CASE ChangeObject(o)
    <3>1. rpc' = rpc /\ rcopy' = [k \in Kinds |-> Outdated(rcopy[k], o)]
      BY <2>1 DEF ChangeObject
    <3>2. added' = added \/ added' = [added EXCEPT ![o] = {}]
      BY <2>1 DEF ChangeObject
    <3> QED BY <3>1, <3>2, <1>0, <1>3
  <2>2. CASE SyncObject(o) \/ RequeueAfter(o) \/ GetReferenced(o)
    BY <2>2, <1>2 DEF SyncObject, RequeueAfter, GetReferenced
  <2>3. CASE GetObject(o)
    <3>1. \A k \in Kinds : rpc'[k] = "update" => rpc[k] = "update" /\ rcopy'[k] = rcopy[k]
      BY <2>3, <1>0, KindsOfObjects DEF GetObject
    <3>2. added' = added
      BY <2>3 DEF GetObject
    <3> QED BY <3>1, <3>2, <1>1 DEF UpdatesHarmless
  <2> QED BY <1>4, <2>1, <2>2, <2>3 DEF ObjectStep
<1>5. ASSUME NEW c \in Configs, ConfigStep(c) PROVE UpdatesHarmless'
  <2>1. UNCHANGED <<rpc, rcopy, added>>
    BY <1>5 DEF ConfigStep, ChangeConfig, FinishConfig, SyncConfig, ConfigEvent, Reconcile
  <2> QED BY <2>1, <1>2
<1>6. ASSUME NEW j \in Kinds, ListConfigs(j) PROVE UpdatesHarmless'
  <2>1. /\ rpc[j] = "list" /\ UNCHANGED <<configs, added>>
        /\ \/ ~isReferencedByAnyBackupConfig(rcopy[j].obj) /\ rcopy' = rcopy
              /\ rpc' = [rpc EXCEPT ![j] = "update"]
           \/ rpc' = [rpc EXCEPT ![j] = "idle"] /\ rcopy' = [rcopy EXCEPT ![j] = NoCopy]
    BY <1>6 DEF ListConfigs, Idle
  <2>2. ASSUME NEW k \in Kinds PROVE Harmless(k)
    <3>1. CASE k # j
      BY <1>0, <1>1, <2>1, <3>1
    <3>2. CASE k = j
      <4> SUFFICES ASSUME rpc'[k] = "update", NEW r \in added'[rcopy'[k].obj], Current(r)'
                   PROVE  FALSE
        OBVIOUS
      <4>1. /\ ~isReferencedByAnyBackupConfig(rcopy[k].obj) /\ rcopy[k].obj \in Objects
            /\ r \in added[rcopy[k].obj]
        BY <1>0, <2>1, <3>2
      <4>2. r \in ReaderType /\ Shown(ccache, r, rcopy[k].obj)
        BY <4>1, <1>0 DEF ReadersShown
      <4>3. Current(r)
        BY <2>1 DEF Current
      <4> QED BY <4>1, <4>2, <4>3, CurrentListed
    <3> QED BY <3>1, <3>2
  <2> QED BY <2>2 DEF UpdatesHarmless
<1>7. ASSUME NEW j \in Kinds, RemoveFinalizer(j) PROVE UpdatesHarmless'
  <2>1. /\ UNCHANGED added /\ rpc' = [rpc EXCEPT ![j] = "idle"]
        /\ rcopy' = [rcopy EXCEPT ![j] = NoCopy]
    BY <1>7 DEF RemoveFinalizer, Idle
  <2>2. \A k \in Kinds : rpc'[k] = "update" => rpc[k] = "update" /\ rcopy'[k] = rcopy[k]
    BY <2>1, <1>0
  <2> QED BY <2>1, <2>2, <1>1 DEF UpdatesHarmless
<1>8. CASE AddFinalizer
  <2>1. CASE UNCHANGED <<rcopy, added>>
    BY <1>8, <2>1, <1>2 DEF AddFinalizer
  <2>2. CASE /\ added' = [added EXCEPT ![bobj.obj] = @ \cup {bconf}]
             /\ rcopy' = [k \in Kinds |-> Outdated(rcopy[k], bobj.obj)]
    <3>1. \A p \in Objects \ {bobj.obj} : added'[p] = added[p]
      BY <2>2, <1>0
    <3>2. rpc' = rpc
      BY <1>8 DEF AddFinalizer
    <3> QED BY <2>2, <3>1, <3>2, <1>3
  <2> QED BY <1>8, <2>1, <2>2 DEF AddFinalizer
<1>9. CASE Restart
  BY <1>9 DEF Restart, UpdatesHarmless
<1> QED BY <1>4, <1>5, <1>6, <1>7, <1>8, <1>9 DEF Next

LEMMA AddedHoldNext ==
    ASSUME ProtectionInv, Next PROVE AddedFinalizersHold'
<1> USE DEF apiVars, cacheVars, queueVars, bVars, rVars
<1>0. /\ TypeOK /\ CopiesTrue /\ CacheBehind /\ ReadersShown /\ UpdatesHarmless
      /\ AddedFinalizersHold
      /\ objs \in [Objects -> Object] /\ added \in [Objects -> SUBSET ReaderType]
  BY DEF ProtectionInv, TypeOK
<1>1. ASSUME NEW o \in Objects, NEW r \in added[o], Current(r)'
      PROVE  Current(r) /\ objs[o].here /\ objs[o].fin
  <2>1. r \in ReaderType /\ Shown(ccache, r, o)
    BY <1>0, <1>1 DEF ReadersShown
  <2>2. Current(r)
    BY <1>0, <1>1, <2>1, CurrentBefore
  <2> QED BY <1>0, <1>1, <2>2 DEF AddedFinalizersHold, Current
<1> DEFINE Holds(o) == \A r \in added'[o] : Current(r)' => objs'[o].here /\ objs'[o].fin
<1> SUFFICES ASSUME NEW o \in Objects PROVE Holds(o)
  BY DEF AddedFinalizersHold, Current
<1>2. CASE objs'[o] = objs[o] /\ added'[o] \subseteq added[o]
  BY <1>1, <1>2
<1>3. CASE ChangeObject(o)
  <2>1. CASE added' = [added EXCEPT ![o] = {}]
    BY <2>1, <1>0
  <2>2. CASE Write(o, objs[o]) /\ added' = added
    BY <2>2, <1>0, <1>2 DEF Write
  <2>3. CASE /\ Write(o, IF objs[o].fin THEN [objs[o] EXCEPT !.dying = TRUE] ELSE Gone)
             /\ added' = added
    <3> SUFFICES ASSUME NEW r \in added[o], Current(r)' PROVE objs'[o].here /\ objs'[o].fin
      BY <2>3
    <3>1. objs[o].here /\ objs[o].fin
      BY <1>1
    <3>2. objs'[o] = [objs[o] EXCEPT !.dying = TRUE]
      BY <2>3, <3>1, <1>0 DEF Write
    <3> QED BY <1>0, <3>1, <3>2 DEF Object
  <2> QED BY <1>3, <2>1, <2>2, <2>3 DEF ChangeObject
<1>4. ASSUME NEW p \in Objects, ChangeObject(p), p # o PROVE Holds(o)
  <2>1. objs'[o] = objs[o]
    <3>1. PICK new \in Object : Write(p, new)
      BY <1>4, <1>0, NothingTypes, ObjectTypes DEF ChangeObject
    <3> QED BY <1>0, <1>4, <3>1, Written
  <2>2. added' = added \/ added' = [added EXCEPT ![p] = {}]
    BY <1>4 DEF ChangeObject
  <2> QED BY <1>0, <1>4, <2>1, <2>2, <1>2
<1>5. ASSUME NEW k \in Kinds, RemoveFinalizer(k) PROVE Holds(o)
  <2>1. rpc[k] = "update" /\ rcopy[k].obj \in Objects /\ added' = added
    BY <1>5, <1>0 DEF TypeOK, RemoveFinalizer, CopyType
  <2>2. CASE rcopy[k].fresh /\ rcopy[k].obj = o
    <3>1. \A r \in added[o] : ~Current(r)
      BY <1>0, <2>1, <2>2 DEF UpdatesHarmless
    <3> QED BY <1>1, <2>1, <3>1
  <2>3. CASE ~rcopy[k].fresh
    BY <1>5, <1>2, <2>1, <2>3 DEF RemoveFinalizer
  <2>4. CASE rcopy[k].obj # o
    BY <1>0, <1>5, <1>2, <2>1, <2>4 DEF RemoveFinalizer, Write
  <2>5. CASE objs' = objs
    BY <2>1, <2>5, <1>2
  <2> QED BY <1>5, <2>2, <2>3, <2>4, <2>5 DEF RemoveFinalizer
<1>6. CASE AddFinalizer
  <2>1. bobj.obj \in Objects /\ bobj.was.here /\ (bobj.fresh => bobj.was = objs[bobj.obj])
    BY <1>0, <1>6 DEF AddFinalizer, CopiesTrue, TypeOK
  <2>2. CASE UNCHANGED <<objs, added>>
    BY <2>2, <1>2
  <2>3. CASE /\ bobj.fresh /\ Write(bobj.obj, [objs[bobj.obj] EXCEPT !.fin = TRUE])
             /\ added' = [added EXCEPT ![bobj.obj] = @ \cup {bconf}]
    <3>1. CASE bobj.obj = o
      <4>1. objs'[o] = [objs[o] EXCEPT !.fin = TRUE] /\ objs[o].here
        BY <1>0, <2>1, <2>3, <3>1 DEF Write
      <4> QED BY <1>0, <4>1 DEF Object
    <3>2. CASE bobj.obj # o
      BY <1>0, <2>1, <2>3, <3>2, <1>2 DEF Write
    <3> QED BY <3>1, <3>2
  <2> QED BY <1>6, <2>2, <2>3 DEF AddFinalizer
<1>7. ASSUME NEW c \in Configs, ConfigStep(c) PROVE Holds(o)
  <2>1. UNCHANGED <<objs, added>>
    BY <1>7 DEF ConfigStep, ChangeConfig, FinishConfig, SyncConfig, ConfigEvent, Reconcile
  <2> QED BY <2>1, <1>2
<1>8. ASSUME NEW p \in Objects, SyncObject(p) \/ RequeueAfter(p) \/ GetReferenced(p) \/ GetObject(p)
      PROVE  Holds(o)
  BY <1>8, <1>2 DEF SyncObject, RequeueAfter, GetReferenced, GetObject
<1>9. CASE Restart \/ \E k \in Kinds : ListConfigs(k)
  BY <1>9, <1>2 DEF Restart, ListConfigs
<1> QED BY <1>3, <1>4, <1>5, <1>6, <1>7, <1>8, <1>9 DEF Next, ObjectStep

-----------------------------------------------------------------------------
LEMMA ProtectionInvInit == Init => ProtectionInv
<1> SUFFICES ASSUME Init PROVE ProtectionInv
  OBVIOUS
<1>1. TypeOK
  BY InitTypes
<1>2. CopiesTrue
  BY DEF Init, CopiesTrue
<1>3. CacheBehind
  <2>1. \A c \in Configs : configs[c] = NoConfig /\ ccache[c] = NoConfig
    BY DEF Init
  <2>2. NoConfig.ver = 0 /\ events = 0
    BY DEF Init, NoConfig
  <2> QED BY <2>1, <2>2 DEF CacheBehind
<1>4. ReadersShown /\ UpdatesHarmless /\ AddedFinalizersHold
  BY DEF Init, ReadersShown, UpdatesHarmless, AddedFinalizersHold
<1> QED BY <1>1, <1>2, <1>3, <1>4 DEF ProtectionInv

LEMMA ProtectionInvNext == ProtectionInv /\ [Next]_vars => ProtectionInv'
<1> SUFFICES ASSUME ProtectionInv, [Next]_vars PROVE ProtectionInv'
  OBVIOUS
<1>1. CASE Next
  <2>1. CopiesTrue' /\ CacheBehind'
    BY <1>1, CopiesTrueNext, CacheBehindNext DEF ProtectionInv
  <2>2. ReadersShown' /\ UpdatesHarmless'
    BY <1>1, ReadersShownNext, UpdatesHarmlessNext DEF ProtectionInv
  <2> QED BY <1>1, <2>1, <2>2, TypeNext, AddedHoldNext DEF ProtectionInv
<1>2. CASE UNCHANGED vars
  <2> USE <1>2 DEF vars, apiVars, cacheVars, queueVars, bVars, rVars
  <2>1. TypeOK' /\ CopiesTrue' /\ CacheBehind'
    BY TypeNext DEF ProtectionInv, CopiesTrue, CacheBehind
  <2>2. ReadersShown' /\ UpdatesHarmless' /\ AddedFinalizersHold'
    BY DEF ProtectionInv, ReadersShown, UpdatesHarmless, Current, AddedFinalizersHold
  <2> QED BY <2>1, <2>2 DEF ProtectionInv
<1> QED BY <1>1, <1>2

(* A finalizer the BackupConfig reconciler added for a version of a config *)
(* stays on the Secret or ConfigMap while that version is stored, in every *)
(* interleaving with the object reconcilers and through every lag, failure *)
(* and restart: AddedFinalizersHold for any objects and configs.           *)
THEOREM AddedFinalizersStay == Spec => []AddedFinalizersHold
<1>1. ProtectionInv => AddedFinalizersHold
  BY DEF ProtectionInv
<1> QED BY <1>1, ProtectionInvInit, ProtectionInvNext, PTL DEF Spec
=============================================================================
