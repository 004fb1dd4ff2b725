-------------------------- MODULE EngineCacheProofs --------------------------
(***************************************************************************)
(* EngineCache for every set of calls and of database URLs: one database   *)
(* for the life of the process, and what calls that come after the first   *)
(* race get.                                                               *)
(*                                                                         *)
(* The argument: nothing runs before create_app has read valid settings,   *)
(* and nothing changes them afterwards; whoever was given an engine left   *)
(* one in the cache, and a cache that is full is never overwritten.        *)
(***************************************************************************)
EXTENDS EngineCache, TLAPS

-----------------------------------------------------------------------------
(* The inductive invariant. *)

\* Calls run in a process that started, with the settings it started with.
Started ==
  /\ process = "up" => settings \in PostgresUrl
  /\ process # "up" => settings = NULL
  /\ \A c \in Call : pc[c] # "idle" => process = "up"

\* Engines are built from those settings, by calls that went on with them.
BuiltFromSettings ==
  \A c \in Built : builtWith[c] = settings /\ pc[c] \in {"bind", "done"}

\* Who was given an engine found it in the cache or left one there; a session that
\* was opened found or left a factory.
CachesFilled ==
  /\ \A c \in Call : pc[c] \in {"bind", "done"} => engineCache # NULL
  /\ \A c \in SessionCall : pc[c] = "done" => factoryCache # NULL
  /\ factoryCache # NULL => engineCache # NULL
  /\ \A c \in Call \ SessionCall : pc[c] \notin {"session", "bind"}

Engines == engine \in [Call -> Call \cup {NULL}]

Inv == TypeOK /\ Engines /\ Started /\ BuiltFromSettings /\ CachesFilled

-----------------------------------------------------------------------------

LEMMA NullIsNoCall == NULL \notin Call /\ NULL \notin Url /\ SessionCall \subseteq Call
PROOF
BY CallAssumption DEF Call

\* What a store leaves in a cache: what was there, or the value.
LEMMA StoreFills ==
  ASSUME NEW cached, NEW value, value # NULL
  PROVE  /\ Stored(cached, value) # NULL /\ Stored(cached, value) \in {cached, value}
         /\ cached # NULL => Stored(cached, value) = cached
PROOF
BY DEF Stored

LEMMA InvInit == Init => Inv
PROOF
<1> SUFFICES ASSUME Init PROVE Inv
  OBVIOUS
<1>1. Built = {}
  BY DEF Init, Built
<1>2. TypeOK
  BY <1>1 DEF Init, TypeOK, Label
<1>3. Started /\ BuiltFromSettings /\ CachesFilled
  BY <1>1, NullIsNoCall DEF Init, Started, BuiltFromSettings, CachesFilled
<1> QED
  BY <1>2, <1>3 DEF Init, Engines, Inv

LEMMA CreateAppStep ==
  ASSUME Inv, CreateApp
  PROVE  Inv'
PROOF
<1>1. /\ process = "down"
      /\ UNCHANGED <<env, engineCache, factoryCache, builtWith, pc, engine>>
      /\ \/ env \in PostgresUrl /\ process' = "up" /\ settings' = env
         \/ process' = "failed" /\ settings' = settings
  BY DEF CreateApp
<1>2. \A c \in Call : pc[c] = "idle"
  BY <1>1 DEF Inv, Started
<1>3. Built = {} /\ Built' = {}
  BY <1>1, <1>2 DEF Inv, BuiltFromSettings, Built
<1>4. TypeOK'
  BY <1>1, <1>3, UrlAssumption DEF Inv, TypeOK
<1>5. Started'
  BY <1>1, <1>2 DEF Inv, Started
<1>6. BuiltFromSettings' /\ CachesFilled'
  BY <1>1, <1>3 DEF Inv, BuiltFromSettings, CachesFilled
<1> QED
  BY <1>1, <1>4, <1>5, <1>6 DEF Inv, Engines

LEMMA EditEnvStep ==
  ASSUME Inv, EditEnv
  PROVE  Inv'
PROOF
<1>1. /\ env' \in Url
      /\ UNCHANGED <<process, settings, engineCache, factoryCache, builtWith, pc, engine>>
  BY DEF EditEnv
<1>2. Built' = Built
  BY <1>1 DEF Built
<1>3. TypeOK'
  BY <1>1, <1>2 DEF Inv, TypeOK
<1>4. Started' /\ BuiltFromSettings' /\ CachesFilled'
  BY <1>1, <1>2 DEF Inv, Started, BuiltFromSettings, CachesFilled
<1> QED
  BY <1>1, <1>3, <1>4 DEF Inv, Engines

-----------------------------------------------------------------------------
(* A step of call c. *)

\* c goes to a label, has engine e and has built one for u, if not NULL.
Moves(c, label, e, u) ==
  /\ UNCHANGED <<process, env, settings>> /\ process = "up"
  /\ pc' = [pc EXCEPT ![c] = label]
  /\ engine' = [engine EXCEPT ![c] = e]
  /\ builtWith' = [builtWith EXCEPT ![c] = u]

Fits(c, label, e, u) ==
  /\ label \in Label /\ u \in {settings, NULL}
  /\ u # NULL => label \in {"bind", "done"}
  /\ builtWith[c] # NULL => u # NULL
  /\ e \in (IF label \in {"bind", "done"} THEN Built' ELSE {NULL})
  /\ c \notin SessionCall => label \notin {"session", "bind"}

\* What was stored stays stored, and what c was given is there.
Caches(c, label) ==
  /\ engineCache' \in Built' \cup {NULL} /\ factoryCache' \in Built' \cup {NULL}
  /\ engineCache # NULL \/ label \in {"bind", "done"} => engineCache' # NULL
  /\ factoryCache # NULL \/ (c \in SessionCall /\ label = "done") => factoryCache' # NULL
  /\ factoryCache' # NULL => engineCache' # NULL

LEMMA CallKeeps ==
  ASSUME Inv, NEW c \in Call, NEW label, NEW e, NEW u,
         Moves(c, label, e, u), Fits(c, label, e, u), Caches(c, label)
  PROVE  Inv'
PROOF
<1>1. /\ pc \in [Call -> Label] /\ engine \in [Call -> Call \cup {NULL}]
      /\ builtWith \in [Call -> Url \cup {NULL}]
      /\ process = "up" /\ settings \in PostgresUrl /\ env \in Url
  BY DEF Inv, TypeOK, Engines, Started, Moves
<1>2. settings \in Url /\ settings # NULL
  BY <1>1, UrlAssumption, NullIsNoCall
<1>3. UNCHANGED <<process, env, settings>>
  BY DEF Moves
<1>4. /\ pc'[c] = label /\ engine'[c] = e /\ builtWith'[c] = u
      /\ \A d \in Call \ {c} : pc'[d] = pc[d] /\ engine'[d] = engine[d]
                               /\ builtWith'[d] = builtWith[d]
  BY <1>1 DEF Moves
<1>5. Built \subseteq Built' /\ Built' \subseteq Built \cup {c} /\ (c \in Built' <=> u # NULL)
  BY <1>4 DEF Built, Fits
<1>6. pc' \in [Call -> Label] /\ builtWith' \in [Call -> Url \cup {NULL}]
  BY <1>1, <1>2 DEF Moves, Fits
<1>7. \A d \in Call : engine'[d] \in (IF pc'[d] \in {"bind", "done"} THEN Built' ELSE {NULL})
  <2>1. engine'[c] \in (IF pc'[c] \in {"bind", "done"} THEN Built' ELSE {NULL})
    BY <1>4 DEF Fits
  <2>2. \A d \in Call : engine[d] \in (IF pc[d] \in {"bind", "done"} THEN Built ELSE {NULL})
    BY DEF Inv, TypeOK
  <2> QED
    BY <1>4, <1>5, <2>1, <2>2
<1>8. TypeOK'
  BY <1>1, <1>3, <1>6, <1>7 DEF Caches, TypeOK
<1>9. Engines'
  <2>1. e \in Call \cup {NULL}
    BY DEF Fits, Built
  <2> QED
    BY <1>1, <2>1 DEF Engines, Moves
<1>10. Started'
  BY <1>1, <1>3 DEF Started
<1>11. BuiltFromSettings'
  <2>1. \A d \in Built : builtWith[d] = settings /\ pc[d] \in {"bind", "done"}
    BY DEF Inv, BuiltFromSettings
  <2>2. CASE u # NULL
    <3>1. builtWith'[c] = settings' /\ pc'[c] \in {"bind", "done"}
      BY <1>3, <1>4, <2>2 DEF Fits
    <3> QED
      BY <1>3, <1>4, <1>5, <2>1, <3>1 DEF BuiltFromSettings, Built
  <2>3. CASE u = NULL
    BY <1>3, <1>4, <1>5, <2>1, <2>3 DEF BuiltFromSettings, Built
  <2> QED
    BY <2>2, <2>3
<1>12. CachesFilled'
  <2>1. CachesFilled
    BY DEF Inv
  <2>2. \A d \in Call : pc'[d] \in {"bind", "done"} => engineCache' # NULL
    BY <1>4, <2>1 DEF CachesFilled, Caches
  <2>3. \A d \in SessionCall : pc'[d] = "done" => factoryCache' # NULL
    BY <1>4, <2>1, NullIsNoCall DEF CachesFilled, Caches
  <2>4. \A d \in Call \ SessionCall : pc'[d] \notin {"session", "bind"}
    BY <1>4, <2>1 DEF CachesFilled, Fits
  <2> QED
    BY <2>2, <2>3, <2>4 DEF CachesFilled, Caches
<1> QED
  BY <1>8, <1>9, <1>10, <1>11, <1>12 DEF Inv

\* The facts every step of c starts from.
LEMMA Before ==
  ASSUME Inv, NEW c \in Call
  PROVE  /\ pc[c] \in Label /\ (pc[c] # "idle" => process = "up")
         /\ engineCache \in Built \cup {NULL} /\ factoryCache \in Built \cup {NULL}
         /\ engine[c] \in (IF pc[c] \in {"bind", "done"} THEN Built ELSE {NULL})
         /\ builtWith[c] \in {settings, NULL}
         /\ builtWith[c] # NULL => pc[c] \in {"bind", "done"}
         /\ pc[c] \in {"session", "bind"} => c \in SessionCall
         /\ pc[c] \in {"bind", "done"} \/ factoryCache # NULL => engineCache # NULL
         /\ engine = [engine EXCEPT ![c] = engine[c]]
         /\ builtWith = [builtWith EXCEPT ![c] = builtWith[c]]
         /\ NULL \notin Built
PROOF
<1>1. TypeOK /\ Engines /\ Started /\ BuiltFromSettings /\ CachesFilled
  BY DEF Inv
<1>2. /\ pc[c] \in Label /\ engineCache \in Built \cup {NULL} /\ factoryCache \in Built \cup {NULL}
      /\ engine[c] \in (IF pc[c] \in {"bind", "done"} THEN Built ELSE {NULL})
  BY <1>1 DEF TypeOK
<1>3. /\ engine = [engine EXCEPT ![c] = engine[c]]
      /\ builtWith = [builtWith EXCEPT ![c] = builtWith[c]]
  BY <1>1 DEF TypeOK, Engines
<1>4. /\ builtWith[c] \in {settings, NULL}
      /\ builtWith[c] # NULL => pc[c] \in {"bind", "done"}
  BY <1>1 DEF BuiltFromSettings, Built
<1>5. /\ pc[c] # "idle" => process = "up"
      /\ pc[c] \in {"session", "bind"} => c \in SessionCall
      /\ pc[c] \in {"bind", "done"} \/ factoryCache # NULL => engineCache # NULL
  BY <1>1 DEF Started, CachesFilled
<1> QED
  BY <1>2, <1>3, <1>4, <1>5, NullIsNoCall DEF Built

LEMMA ArriveStep ==
  ASSUME Inv, NEW c \in Call, Arrive(c)
  PROVE  Inv'
PROOF
<1> DEFINE label == IF c \in SessionCall THEN "session" ELSE "engine"
<1>1. /\ process = "up" /\ pc[c] = "idle" /\ pc' = [pc EXCEPT ![c] = label]
      /\ UNCHANGED <<process, env, settings, engineCache, factoryCache, builtWith, engine>>
  BY DEF Arrive
<1>2. builtWith[c] = NULL /\ engine[c] = NULL /\ Built' = Built
  BY <1>1, Before DEF Built
<1>3. Moves(c, label, NULL, NULL)
  BY <1>1, <1>2, Before DEF Moves
<1>4. Fits(c, label, NULL, NULL)
  BY <1>1, <1>2 DEF Fits, Label
<1>5. Caches(c, label)
  BY <1>1, <1>2, Before DEF Caches
<1> QED
  BY <1>3, <1>4, <1>5, CallKeeps

\* A hit gives c the engine of the cached factory.
LEMMA LookupFactoryStep ==
  ASSUME Inv, NEW c \in Call, LookupFactory(c)
  PROVE  Inv'
PROOF
<1>1. /\ pc[c] = "session"
      /\ UNCHANGED <<process, env, settings, engineCache, factoryCache, builtWith>>
  BY DEF LookupFactory
<1>2. /\ builtWith[c] = NULL /\ engine[c] = NULL /\ Built' = Built /\ process = "up"
      /\ c \in SessionCall
  BY <1>1, Before DEF Built
<1>3. CASE factoryCache # NULL
  <2>1. engine' = [engine EXCEPT ![c] = factoryCache] /\ pc' = [pc EXCEPT ![c] = "done"]
    BY <1>3 DEF LookupFactory
  <2>2. Moves(c, "done", factoryCache, NULL)
    BY <1>1, <1>2, <2>1, Before DEF Moves
  <2>3. Fits(c, "done", factoryCache, NULL)
    BY <1>1, <1>2, <1>3, Before DEF Fits, Label
  <2>4. Caches(c, "done")
    BY <1>1, <1>2, <1>3, Before DEF Caches
  <2> QED
    BY <2>2, <2>3, <2>4, CallKeeps
<1>4. CASE factoryCache = NULL
  <2>1. engine' = engine /\ pc' = [pc EXCEPT ![c] = "engine"]
    BY <1>4 DEF LookupFactory
  <2>2. Moves(c, "engine", NULL, NULL)
    BY <1>1, <1>2, <2>1, Before DEF Moves
  <2>3. Fits(c, "engine", NULL, NULL)
    BY <1>1, <1>2, Before DEF Fits, Label
  <2>4. Caches(c, "engine")
    BY <1>1, <1>2, <1>4, Before DEF Caches
  <2> QED
    BY <2>2, <2>3, <2>4, CallKeeps
<1> QED
  BY <1>3, <1>4

\* A hit gives c the cached engine.
LEMMA LookupEngineStep ==
  ASSUME Inv, NEW c \in Call, LookupEngine(c)
  PROVE  Inv'
PROOF
<1>1. /\ pc[c] = "engine"
      /\ UNCHANGED <<process, env, settings, engineCache, factoryCache, builtWith>>
  BY DEF LookupEngine
<1>2. builtWith[c] = NULL /\ engine[c] = NULL /\ Built' = Built /\ process = "up"
  BY <1>1, Before DEF Built
<1>3. CASE engineCache # NULL
  <2>1. engine' = [engine EXCEPT ![c] = engineCache] /\ pc' = [pc EXCEPT ![c] = WithEngine(c)]
    BY <1>3 DEF LookupEngine
  <2>2. Moves(c, WithEngine(c), engineCache, NULL)
    BY <1>1, <1>2, <2>1, Before DEF Moves
  <2>3. Fits(c, WithEngine(c), engineCache, NULL)
    BY <1>1, <1>2, <1>3, Before DEF Fits, Label, WithEngine
  <2>4. Caches(c, WithEngine(c))
    BY <1>1, <1>2, <1>3, Before DEF Caches, WithEngine
  <2> QED
    BY <2>2, <2>3, <2>4, CallKeeps
<1>4. CASE engineCache = NULL
  <2>1. engine' = engine /\ pc' = [pc EXCEPT ![c] = "create"]
    BY <1>4 DEF LookupEngine
  <2>2. Moves(c, "create", NULL, NULL)
    BY <1>1, <1>2, <2>1, Before DEF Moves
  <2>3. Fits(c, "create", NULL, NULL)
    BY <1>1, <1>2, Before DEF Fits, Label
  <2>4. Caches(c, "create")
    BY <1>1, <1>2, <1>4, Before DEF Caches
  <2> QED
    BY <2>2, <2>3, <2>4, CallKeeps
<1> QED
  BY <1>3, <1>4

\* c builds an engine for the settings read at the start, and stores it if nobody
\* stored one meanwhile.
LEMMA CreateEngineStep ==
  ASSUME Inv, NEW c \in Call, CreateEngine(c)
  PROVE  Inv'
PROOF
<1>1. /\ pc[c] = "create" /\ pc' = [pc EXCEPT ![c] = WithEngine(c)]
      /\ builtWith' = [builtWith EXCEPT ![c] = settings]
      /\ engine' = [engine EXCEPT ![c] = c]
      /\ engineCache' = Stored(engineCache, c)
      /\ UNCHANGED <<process, env, settings, factoryCache>>
  BY DEF CreateEngine, SettingsUrl
<1>2. process = "up" /\ settings # NULL /\ builtWith \in [Call -> Url \cup {NULL}]
  <2>1. process = "up"
    BY <1>1, Before
  <2> QED
    BY <2>1, UrlAssumption, NullIsNoCall DEF Inv, Started, TypeOK
<1>3. Built' = Built \cup {c}
  BY <1>1, <1>2 DEF Built
<1>4. /\ engineCache' # NULL /\ engineCache' \in {engineCache, c}
      /\ engineCache # NULL => engineCache' = engineCache
  BY <1>1, StoreFills, NullIsNoCall
<1>5. Moves(c, WithEngine(c), c, settings)
  BY <1>1, <1>2 DEF Moves
<1>6. Fits(c, WithEngine(c), c, settings)
  BY <1>1, <1>2, <1>3 DEF Fits, Label, WithEngine
<1>7. Caches(c, WithEngine(c))
  <2>1. engineCache' \in Built' \cup {NULL} /\ factoryCache' \in Built' \cup {NULL}
    BY <1>1, <1>3, <1>4, Before
  <2>2. ~ (c \in SessionCall /\ WithEngine(c) = "done")
    BY DEF WithEngine
  <2> QED
    BY <1>1, <1>4, <2>1, <2>2 DEF Caches
<1> QED
  BY <1>5, <1>6, <1>7, CallKeeps

\* c binds a factory to the engine it was given, and stores it likewise.
LEMMA BindFactoryStep ==
  ASSUME Inv, NEW c \in Call, BindFactory(c)
  PROVE  Inv'
PROOF
<1>1. /\ pc[c] = "bind" /\ pc' = [pc EXCEPT ![c] = "done"]
      /\ factoryCache' = Stored(factoryCache, engine[c])
      /\ UNCHANGED <<process, env, settings, engineCache, builtWith, engine>>
  BY DEF BindFactory
<1>2. process = "up" /\ engine[c] \in Built /\ engine[c] # NULL /\ Built' = Built
  BY <1>1, Before DEF Built
<1>3. /\ factoryCache' # NULL /\ factoryCache' \in {factoryCache, engine[c]}
  BY <1>1, <1>2, StoreFills
<1>4. Moves(c, "done", engine[c], builtWith[c])
  BY <1>1, <1>2, Before DEF Moves
<1>5. Fits(c, "done", engine[c], builtWith[c])
  BY <1>1, <1>2, Before DEF Fits, Label
<1>6. Caches(c, "done")
  BY <1>1, <1>2, <1>3, Before DEF Caches
<1> QED
  BY <1>4, <1>5, <1>6, CallKeeps

LEMMA InvNext == Inv /\ [Next]_vars => Inv'
PROOF
<1> SUFFICES ASSUME Inv, [Next]_vars PROVE Inv'
  OBVIOUS
<1>1. CASE CreateApp \/ EditEnv
  BY <1>1, CreateAppStep, EditEnvStep
<1>2. ASSUME NEW c \in Call, Arrive(c) \/ CallStep(c)
      PROVE  Inv'
  BY <1>2, ArriveStep, LookupFactoryStep, LookupEngineStep, CreateEngineStep, BindFactoryStep
     DEF CallStep
<1>3. CASE UNCHANGED vars
  <2>1. UNCHANGED <<process, env, settings, engineCache, factoryCache, builtWith, pc, engine>>
    BY <1>3 DEF vars
  <2>2. Built' = Built
    BY <2>1 DEF Built
  <2>3. TypeOK' /\ Engines'
    BY <2>1, <2>2 DEF Inv, TypeOK, Engines
  <2>4. Started' /\ BuiltFromSettings' /\ CachesFilled'
    BY <2>1, <2>2 DEF Inv, Started, BuiltFromSettings, CachesFilled
  <2> QED
    BY <2>3, <2>4 DEF Inv
<1> QED
  BY <1>1, <1>2, <1>3 DEF Next

\* The inductive invariant of the three caches holds always.
THEOREM CacheInvariant == Spec => []Inv
PROOF
<1> QED
  BY InvInit, InvNext, PTL DEF Spec

\* Whatever happens to .env, every engine of the process connects to the database
\* whose URL create_app validated at the start.
THEOREM EnginesShareDatabase == Spec => []OneDatabase
PROOF
<1>1. Inv => OneDatabase
  BY DEF Inv, BuiltFromSettings, OneDatabase
<1> QED
  BY <1>1, CacheInvariant, PTL

-----------------------------------------------------------------------------
(* What a later call gets. *)

\* A call that meets a full engine cache before it builds one builds none.
MeetsEngine(d) == engineCache # NULL /\ pc[d] # "create" /\ d \notin Built

\* A session that meets a full factory cache is opened from it.
MeetsFactory(d) ==
  /\ factoryCache # NULL /\ pc[d] \in {"idle", "session", "done"}
  /\ pc[d] = "done" => engine[d] = factoryCache

LEMMA CachesStayFull ==
  ASSUME Inv, [Next]_vars
  PROVE  /\ engineCache # NULL => engineCache' = engineCache
         /\ factoryCache # NULL => factoryCache' = factoryCache
PROOF
BY DEF Next, vars, CreateApp, EditEnv, Arrive, CallStep, LookupFactory, LookupEngine,
       CreateEngine, BindFactory, Stored

\* Steps of other calls leave d where it is.
LEMMA OthersLeave ==
  ASSUME Inv, NEW c \in Call, NEW d \in Call, c # d, Arrive(c) \/ CallStep(c)
  PROVE  pc'[d] = pc[d] /\ engine'[d] = engine[d] /\ builtWith'[d] = builtWith[d]
PROOF
<1>1. /\ pc \in [Call -> Label] /\ engine \in [Call -> Call \cup {NULL}]
      /\ builtWith \in [Call -> Url \cup {NULL}]
  BY DEF Inv, TypeOK, Engines
<1> QED
  BY <1>1 DEF Arrive, CallStep, LookupFactory, LookupEngine, CreateEngine, BindFactory

LEMMA MeetsEngineStays ==
  ASSUME Inv, [Next]_vars, NEW d \in Call, MeetsEngine(d)
  PROVE  MeetsEngine(d)'
PROOF
<1>1. engineCache # NULL /\ engineCache' # NULL /\ pc[d] # "create" /\ builtWith[d] = NULL
      /\ pc \in [Call -> Label]
  BY CachesStayFull DEF MeetsEngine, Built, Inv, TypeOK
<1>2. CASE pc' = pc /\ builtWith' = builtWith
  BY <1>1, <1>2 DEF MeetsEngine, Built
<1>3. ASSUME NEW c \in Call, Arrive(c) \/ CallStep(c)
      PROVE  MeetsEngine(d)'
  <2>1. CASE c # d
    BY <1>1, <1>3, <2>1, OthersLeave DEF MeetsEngine, Built
  <2>2. CASE c = d
    <3>1. builtWith' = builtWith /\ pc'[d] # "create"
      BY <1>1, <1>3, <2>2 DEF Arrive, CallStep, LookupFactory, LookupEngine, CreateEngine,
         BindFactory, WithEngine
    <3> QED
      BY <1>1, <3>1 DEF MeetsEngine, Built
  <2> QED
    BY <2>1, <2>2
<1> QED
  BY <1>2, <1>3 DEF Next, CreateApp, EditEnv, vars

LEMMA MeetsFactoryStays ==
  ASSUME Inv, [Next]_vars, NEW d \in SessionCall, MeetsFactory(d)
  PROVE  MeetsFactory(d)'
PROOF
<1>1. /\ factoryCache # NULL /\ factoryCache' = factoryCache
      /\ pc[d] \in {"idle", "session", "done"} /\ (pc[d] = "done" => engine[d] = factoryCache)
      /\ pc \in [Call -> Label] /\ engine \in [Call -> Call \cup {NULL}] /\ d \in Call
  BY CachesStayFull, NullIsNoCall DEF MeetsFactory, Inv, TypeOK, Engines
<1>2. CASE pc' = pc /\ engine' = engine
  BY <1>1, <1>2 DEF MeetsFactory
<1>3. ASSUME NEW c \in Call, Arrive(c) \/ CallStep(c)
      PROVE  MeetsFactory(d)'
  <2>1. CASE c # d
    BY <1>1, <1>3, <2>1, OthersLeave DEF MeetsFactory
  <2>2. CASE c = d
    <3>1. CASE Arrive(d)
      BY <1>1, <3>1 DEF Arrive, MeetsFactory
    <3>2. CASE LookupFactory(d)
      BY <1>1, <3>2 DEF LookupFactory, MeetsFactory
    <3> QED
      BY <1>1, <1>3, <2>2, <3>1, <3>2 DEF CallStep, LookupEngine, CreateEngine, BindFactory
  <2> QED
    BY <2>1, <2>2
<1> QED
  BY <1>2, <1>3 DEF Next, CreateApp, EditEnv, vars

\* Once a call has been served, a call that arrives later finds the engine cache
\* full: the surplus engines of the first race stay the only ones.
THEOREM LateCallsReuse == Spec => LateCallsBuildNothing
PROOF
<1> SUFFICES ASSUME NEW c \in Call, NEW d \in Call
             PROVE  Spec => [](Served(c) /\ pc[d] = "idle" => [](d \notin Built))
  BY DEF LateCallsBuildNothing
<1>1. Inv /\ Served(c) /\ pc[d] = "idle" => MeetsEngine(d)
  BY DEF Inv, CachesFilled, BuiltFromSettings, Served, MeetsEngine
<1>2. Inv /\ MeetsEngine(d) /\ [Next]_vars => MeetsEngine(d)'
  BY MeetsEngineStays
<1>3. MeetsEngine(d) => d \notin Built
  BY DEF MeetsEngine
<1> QED
  BY <1>1, <1>2, <1>3, CacheInvariant, PTL DEF Spec

\* Once a session was opened, all sessions opened by later calls share one engine.
THEOREM LateSessionsShare == Spec => LateSessionsShareEngine
PROOF
<1> SUFFICES ASSUME NEW c \in SessionCall, NEW d \in SessionCall
             PROVE  Spec => [](Served(c) /\ pc[d] = "idle"
                                => [](Served(d) => engine[d] = factoryCache))
  BY DEF LateSessionsShareEngine
<1>1. Inv /\ Served(c) /\ pc[d] = "idle" => MeetsFactory(d)
  BY DEF Inv, CachesFilled, Served, MeetsFactory
<1>2. Inv /\ MeetsFactory(d) /\ [Next]_vars => MeetsFactory(d)'
  BY MeetsFactoryStays
<1>3. MeetsFactory(d) => (Served(d) => engine[d] = factoryCache)
  BY DEF MeetsFactory, Served
<1> QED
  BY <1>1, <1>2, <1>3, CacheInvariant, PTL DEF Spec
=============================================================================
