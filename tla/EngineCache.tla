----------------------------- MODULE EngineCache -----------------------------
(***************************************************************************)
(* Process start and the three lru_caches every call goes through: the     *)
(* settings (core/settings.py), the engine and the session factory         *)
(* (persistence/db.py).  Route handlers are plain functions, so calls run  *)
(* in worker threads and the first ones can meet inside a cached function. *)
(*                                                                         *)
(* lru_cache runs the function it wraps without holding its lock: lookup   *)
(* and store are one step each, and of two threads that both missed, the   *)
(* first to store wins and the other keeps its own result (external).      *)
(*                                                                         *)
(* An engine is the identity of the call that built it: one call builds at *)
(* most one.  A session factory is the engine it is bound to.              *)
(***************************************************************************)
EXTENDS Integers, FiniteSets

CONSTANTS SessionCall,   \* calls that open a session: every business route
          ProbeCall,     \* calls of /health, which use the engine itself
          Url,           \* what .env can name, PostgreSQL or not
          PostgresUrl,   \* the ones the settings validator accepts
          NULL

Call == SessionCall \cup ProbeCall

ASSUME CallAssumption == SessionCall \cap ProbeCall = {} /\ NULL \notin Call \cup Url
ASSUME UrlAssumption == PostgresUrl \subseteq Url

VARIABLES process,      \* the server process: "down", "up" or "failed"
          env,          \* the database URL that .env names now
          settings,     \* get_settings' cache: the URL read, or NULL
          engineCache,  \* build_engine's cache
          factoryCache, \* build_session_factory's cache
          builtWith,    \* builtWith[c]: the URL of the engine c built, or NULL
          pc,           \* pc[c]: where call c is
          engine        \* engine[c]: the engine c was given, and works with

vars == <<process, env, settings, engineCache, factoryCache, builtWith, pc, engine>>

Label == {"idle", "session", "engine", "create", "bind", "done"}

\* Mutant: a call that missed overwrites what another stored meanwhile.
StoredLast(cached, value) == value

\* The store of lru_cache: the key may have been filled since the lookup.
Stored(cached, value) == IF cached = NULL THEN value ELSE cached

-----------------------------------------------------------------------------

\* create_app reads the settings at import; invalid ones end the process.
CreateApp ==
  /\ process = "down"
  /\ IF env \in PostgresUrl
     THEN process' = "up" /\ settings' = env
     ELSE process' = "failed" /\ UNCHANGED settings
  /\ UNCHANGED <<env, engineCache, factoryCache, builtWith, pc, engine>>

\* The operator edits .env, at any time.
EditEnv ==
  /\ env' \in Url \ {env}
  /\ UNCHANGED <<process, settings, engineCache, factoryCache, builtWith, pc, engine>>

Arrive(c) ==
  /\ process = "up" /\ pc[c] = "idle"
  /\ pc' = [pc EXCEPT ![c] = IF c \in SessionCall THEN "session" ELSE "engine"]
  /\ UNCHANGED <<process, env, settings, engineCache, factoryCache, builtWith, engine>>

\* build_session_factory is called: a hit opens the session, a miss goes on.
LookupFactory(c) ==
  /\ pc[c] = "session"
  /\ IF factoryCache # NULL
     THEN /\ engine' = [engine EXCEPT ![c] = factoryCache]
          /\ pc' = [pc EXCEPT ![c] = "done"]
     ELSE pc' = [pc EXCEPT ![c] = "engine"] /\ UNCHANGED engine
  /\ UNCHANGED <<process, env, settings, engineCache, factoryCache, builtWith>>

WithEngine(c) == IF c \in SessionCall THEN "bind" ELSE "done"

\* Mutant: the engine is not cached.
LookupEngineNever(c) ==
  /\ pc[c] = "engine"
  /\ pc' = [pc EXCEPT ![c] = "create"]
  /\ UNCHANGED <<process, env, settings, engineCache, factoryCache, builtWith, engine>>

\* build_engine is called.
LookupEngine(c) ==
  /\ pc[c] = "engine"
  /\ IF engineCache # NULL
     THEN /\ engine' = [engine EXCEPT ![c] = engineCache]
          /\ pc' = [pc EXCEPT ![c] = WithEngine(c)]
     ELSE pc' = [pc EXCEPT ![c] = "create"] /\ UNCHANGED engine
  /\ UNCHANGED <<process, env, settings, engineCache, factoryCache, builtWith>>

\* Mutant: every reader of the settings reads the file again.
SettingsUrlUncached == env

\* get_settings, a hit since create_app.
SettingsUrl == settings

\* create_engine from the cached settings, and the store in build_engine's cache.
CreateEngine(c) ==
  /\ pc[c] = "create"
  /\ builtWith' = [builtWith EXCEPT ![c] = SettingsUrl]
  /\ engine' = [engine EXCEPT ![c] = c]
  /\ engineCache' = Stored(engineCache, c)
  /\ pc' = [pc EXCEPT ![c] = WithEngine(c)]
  /\ UNCHANGED <<process, env, settings, factoryCache>>

\* sessionmaker over the engine this call was given, and the store; the session
\* is opened from the call's own factory, stored or not.
BindFactory(c) ==
  /\ pc[c] = "bind"
  /\ factoryCache' = Stored(factoryCache, engine[c])
  /\ pc' = [pc EXCEPT ![c] = "done"]
  /\ UNCHANGED <<process, env, settings, engineCache, builtWith, engine>>

-----------------------------------------------------------------------------

Init ==
  /\ process = "down" /\ env \in Url
  /\ settings = NULL /\ engineCache = NULL /\ factoryCache = NULL
  /\ builtWith = [c \in Call |-> NULL]
  /\ pc = [c \in Call |-> "idle"]
  /\ engine = [c \in Call |-> NULL]

CallStep(c) == LookupFactory(c) \/ LookupEngine(c) \/ CreateEngine(c) \/ BindFactory(c)

Next == CreateApp \/ EditEnv \/ \E c \in Call : Arrive(c) \/ CallStep(c)

Spec == Init /\ [][Next]_vars

-----------------------------------------------------------------------------

Built == {c \in Call : builtWith[c] # NULL}
Served(c) == pc[c] = "done"

\* Caches hold engines that were built, and so does a call that has one.
TypeOK ==
  /\ process \in {"down", "up", "failed"} /\ env \in Url
  /\ settings \in PostgresUrl \cup {NULL}
  /\ engineCache \in Built \cup {NULL} /\ factoryCache \in Built \cup {NULL}
  /\ builtWith \in [Call -> Url \cup {NULL}]
  /\ pc \in [Call -> Label]
  /\ \A c \in Call : engine[c] \in (IF pc[c] \in {"bind", "done"} THEN Built ELSE {NULL})

\* Whatever .env says by the time the first call comes, every engine connects to
\* the one database the process was started with, and that was validated; and
\* whoever works with an engine works with one that was built.
OneDatabase ==
  /\ TypeOK
  /\ \A c, d \in Built : builtWith[c] = builtWith[d] /\ builtWith[c] = settings

\* Once any call has been served, a call that comes later builds no engine of its
\* own: the surplus of the first race is bounded by the calls that were in it.
LateCallsBuildNothing ==
  \A c, d \in Call : [](Served(c) /\ pc[d] = "idle" => [](d \notin Built))

\* Once a session was opened, every session opened by a later call uses one and
\* the same engine, whichever engine the racing first calls were given.
LateSessionsShareEngine ==
  \A c, d \in SessionCall :
    [](Served(c) /\ pc[d] = "idle" => [](Served(d) => engine[d] = factoryCache))

=============================================================================
