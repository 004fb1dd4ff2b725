--------------------------- MODULE ConnectionPool ---------------------------
(***************************************************************************)
(* The engine's connection pool and the server's worker threads: what      *)
(* build_engine (persistence/db.py) leaves to SQLAlchemy's QueuePool, and  *)
(* when get_session, the routes and the health probe take a connection and *)
(* give it back.  What the calls do in the database is in DecisionTraces;  *)
(* here a call is what it holds and what it waits for:                     *)
(*                                                                         *)
(*   CreateCall   one transaction; the connection goes back at its end     *)
(*   CommandCall  the same, after waiting for the row lock of its trace    *)
(*                with the connection in hand; all are on one trace        *)
(*   ReadCall     a transaction nobody ends: the connection goes back when *)
(*                the session is closed, after the answer was rendered     *)
(*   ProbeCall    /health, a connection of its own for SELECT 1            *)
(*                                                                         *)
(* A handler keeps its worker thread until it returns; the answer of a     *)
(* business route is then rendered in a worker again (external: FastAPI).  *)
(* The database may crash, which kills every connection, and come back.    *)
(***************************************************************************)
EXTENDS Integers, FiniteSets

CONSTANTS CreateCall, CommandCall, ReadCall, ProbeCall,
          Workers,       \* worker threads of the server
          PoolSize,      \* connections kept when idle
          MaxOverflow,   \* connections the pool may open beyond them
          MaxCrashes,    \* bound: crashes of the database
          NULL

Call == CreateCall \cup CommandCall \cup ReadCall \cup ProbeCall
Limit == PoolSize + MaxOverflow

ASSUME CallAssumption ==
  /\ IsFiniteSet(Call)
  /\ NULL \notin CommandCall \cup {"ok", "dberror", "timeout", "reachable", "unreachable"}
ASSUME SizeAssumption ==
  Workers \in Nat \ {0} /\ PoolSize \in Nat \ {0} /\ MaxOverflow \in Nat /\ MaxCrashes \in Nat

VARIABLES pc,       \* pc[c]: where call c is
          answer,   \* answer[c]: what its client was told
          conn,     \* conn[c]: the connection c has checked out, or "none"
          idle,     \* idle.live, idle.dead: connections in the pool's queue
          open,     \* the pool's counter of connections, checked out or idle
          rowLock,  \* the command that holds the row lock of the trace
          dbUp,     \* the database accepts connections
          crashes,  \* crashes so far
          seen      \* seen[c]: what happened while c was in flight (history)

vars == <<pc, answer, conn, idle, open, rowLock, dbUp, crashes, seen>>
database == <<dbUp, crashes, seen>>

InHandler == {"checkout", "waiting", "connecting", "locking", "working"}
Label == InHandler \cup {"idle", "queued", "returned", "closing", "done"}

InFlight == {c \in Call : pc[c] \notin {"idle", "done"}}
BusyWorkers == {c \in Call : pc[c] \in InHandler}
WorkerFree == Cardinality(BusyWorkers) < Workers
Idle == idle.live + idle.dead

-----------------------------------------------------------------------------

Arrive(c) ==
  /\ pc[c] = "idle"
  /\ pc' = [pc EXCEPT ![c] = "queued"]
  /\ LET together == InFlight \cup {c} IN
     seen' = [d \in Call |-> seen[d]
                \cup {x \in {"crowd"} : d \in together /\ Cardinality(together) > Limit}
                \cup {x \in {"outage"} : d = c /\ ~dbUp}]
  /\ UNCHANGED <<answer, conn, idle, open, rowLock, dbUp, crashes>>

\* A worker thread takes the call and runs it up to its first statement.
StartHandler(c) ==
  /\ pc[c] = "queued" /\ WorkerFree
  /\ pc' = [pc EXCEPT ![c] = "checkout"]
  /\ UNCHANGED <<answer, conn, idle, open, rowLock, database>>

\* Where a call goes on once it has its connection.
Connected(c) == IF c \in CommandCall THEN "locking" ELSE "working"

\* The exception leaves the handler: 500, or whatever it was, 503 from /health.
Refused(c, why) ==
  /\ pc' = [pc EXCEPT ![c] = "done"]
  /\ answer' = [answer EXCEPT ![c] = IF c \in ProbeCall THEN "unreachable" ELSE why]

\* A connection comes back: kept while the queue has room, closed otherwise.
GiveBack(c) ==
  /\ conn' = [conn EXCEPT ![c] = "none"]
  /\ IF Idle < PoolSize
     THEN idle' = [idle EXCEPT ![conn[c]] = @ + 1] /\ UNCHANGED open
     ELSE open' = open - 1 /\ UNCHANGED idle

-----------------------------------------------------------------------------
\* Checking a connection out of the pool.

\* Mutant: pool_pre_ping is off, a connection is handed out as it is.
PrePingOff(c, kind) ==
  /\ conn' = [conn EXCEPT ![c] = kind]
  /\ idle' = [idle EXCEPT ![kind] = @ - 1]
  /\ pc' = [pc EXCEPT ![c] = Connected(c)]
  /\ UNCHANGED answer

\* pool_pre_ping: a dead connection is replaced before it is handed out; when
\* that fails its record goes back to the queue and the call fails.
PrePing(c, kind) ==
  IF dbUp
  THEN /\ conn' = [conn EXCEPT ![c] = "live"]
       /\ idle' = [idle EXCEPT ![kind] = @ - 1]
       /\ pc' = [pc EXCEPT ![c] = Connected(c)]
       /\ UNCHANGED answer
  ELSE Refused(c, "dberror") /\ UNCHANGED <<conn, idle>>

TakeIdle(c) ==
  /\ pc[c] \in {"checkout", "waiting"}
  /\ \E kind \in {"live", "dead"} : idle[kind] > 0 /\ PrePing(c, kind)
  /\ UNCHANGED <<open, rowLock, database>>

\* Nothing idle: below the limit the call opens a connection, at it it waits.
OpenOrWait(c) ==
  /\ pc[c] = "checkout" /\ Idle = 0
  /\ IF open < Limit
     THEN open' = open + 1 /\ pc' = [pc EXCEPT ![c] = "connecting"]
     ELSE pc' = [pc EXCEPT ![c] = "waiting"] /\ UNCHANGED open
  /\ UNCHANGED <<answer, conn, idle, rowLock, database>>

\* Mutant: a failed attempt keeps its place in the counter.
ConnectKeepsPlace(c) ==
  /\ pc[c] = "connecting"
  /\ IF dbUp
     THEN /\ conn' = [conn EXCEPT ![c] = "live"]
          /\ pc' = [pc EXCEPT ![c] = Connected(c)]
          /\ UNCHANGED answer
     ELSE Refused(c, "dberror") /\ UNCHANGED conn
  /\ UNCHANGED <<open, idle, rowLock, database>>

\* A failed attempt gives its place up, without waking a call that waits.
Connect(c) ==
  /\ pc[c] = "connecting"
  /\ IF dbUp
     THEN /\ conn' = [conn EXCEPT ![c] = "live"]
          /\ pc' = [pc EXCEPT ![c] = Connected(c)]
          /\ UNCHANGED <<answer, open>>
     ELSE Refused(c, "dberror") /\ open' = open - 1 /\ UNCHANGED conn
  /\ UNCHANGED <<idle, rowLock, database>>

\* Mutant: there is no limit to the wait for a connection.
PoolTimeoutNever(c) == FALSE /\ UNCHANGED vars

\* The wait ends empty-handed: a place that was given up meanwhile is used.
PoolTimeout(c) ==
  /\ pc[c] = "waiting" /\ Idle = 0
  /\ IF open < Limit
     THEN /\ open' = open + 1 /\ pc' = [pc EXCEPT ![c] = "connecting"]
          /\ UNCHANGED answer
     ELSE Refused(c, "timeout") /\ UNCHANGED open
  /\ UNCHANGED <<conn, idle, rowLock, database>>

-----------------------------------------------------------------------------
\* The handlers, once connected.

\* find_trace_for_update: the wait for the row keeps connection and worker.
LockRow(c) ==
  /\ pc[c] = "locking" /\ conn[c] = "live" /\ rowLock = NULL
  /\ rowLock' = c
  /\ pc' = [pc EXCEPT ![c] = "working"]
  /\ UNCHANGED <<answer, conn, idle, open, database>>

\* session.begin() ends: lock and connection go with the transaction.
Commit(c) ==
  /\ pc[c] = "working" /\ conn[c] = "live" /\ c \in CommandCall \cup CreateCall
  /\ GiveBack(c)
  /\ rowLock' = IF rowLock = c THEN NULL ELSE rowLock
  /\ pc' = [pc EXCEPT ![c] = "returned"]
  /\ UNCHANGED <<answer, database>>

\* read_trace returns; the transaction its statements began stays open.
ReadRows(c) ==
  /\ pc[c] = "working" /\ conn[c] = "live" /\ c \in ReadCall
  /\ pc' = [pc EXCEPT ![c] = "returned"]
  /\ UNCHANGED <<answer, conn, idle, open, rowLock, database>>

\* health: SELECT 1 went through.
Probe(c) ==
  /\ pc[c] = "working" /\ conn[c] = "live" /\ c \in ProbeCall
  /\ GiveBack(c)
  /\ pc' = [pc EXCEPT ![c] = "done"]
  /\ answer' = [answer EXCEPT ![c] = "reachable"]
  /\ UNCHANGED <<rowLock, database>>

\* A statement meets a connection that died: rollback, the record goes back.
Broken(c) ==
  /\ pc[c] \in {"locking", "working"} /\ conn[c] = "dead"
  /\ GiveBack(c)
  /\ Refused(c, "dberror")
  /\ UNCHANGED <<rowLock, database>>

\* The answer is rendered in a worker and sent.
Render(c) ==
  /\ pc[c] = "returned" /\ WorkerFree
  /\ answer' = [answer EXCEPT ![c] = "ok"]
  /\ pc' = [pc EXCEPT ![c] = "closing"]
  /\ UNCHANGED <<conn, idle, open, rowLock, database>>

\* Mutant: the session is dropped, not closed.
CloseSessionNever(c) ==
  /\ pc[c] = "closing"
  /\ pc' = [pc EXCEPT ![c] = "done"]
  /\ UNCHANGED <<answer, conn, idle, open, rowLock, database>>

\* get_session goes on behind its yield and closes the session.
CloseSession(c) ==
  /\ pc[c] = "closing"
  /\ IF conn[c] = "none" THEN UNCHANGED <<conn, idle, open>> ELSE GiveBack(c)
  /\ pc' = [pc EXCEPT ![c] = "done"]
  /\ UNCHANGED <<answer, rowLock, database>>

-----------------------------------------------------------------------------

Crash ==
  /\ dbUp /\ crashes < MaxCrashes
  /\ dbUp' = FALSE /\ crashes' = crashes + 1
  /\ conn' = [c \in Call |-> IF conn[c] = "live" THEN "dead" ELSE conn[c]]
  /\ idle' = [live |-> 0, dead |-> Idle]
  /\ rowLock' = NULL
  /\ seen' = [c \in Call |-> IF c \in InFlight THEN seen[c] \cup {"outage"} ELSE seen[c]]
  /\ UNCHANGED <<pc, answer, open>>

Recover ==
  /\ ~dbUp
  /\ dbUp' = TRUE
  /\ UNCHANGED <<pc, answer, conn, idle, open, rowLock, crashes, seen>>

Init ==
  /\ pc = [c \in Call |-> "idle"]
  /\ answer = [c \in Call |-> NULL]
  /\ conn = [c \in Call |-> "none"]
  /\ idle = [live |-> 0, dead |-> 0] /\ open = 0
  /\ rowLock = NULL
  /\ dbUp \in BOOLEAN /\ crashes = 0
  /\ seen = [c \in Call |-> {}]

CallStep(c) ==
  \/ StartHandler(c) \/ TakeIdle(c) \/ OpenOrWait(c) \/ Connect(c) \/ PoolTimeout(c)
  \/ LockRow(c) \/ Commit(c) \/ ReadRows(c) \/ Probe(c) \/ Broken(c)
  \/ Render(c) \/ CloseSession(c)

Next == Crash \/ Recover \/ \E c \in Call : Arrive(c) \/ CallStep(c)

Spec == Init /\ [][Next]_vars

\* A call that could always go on does; nobody need call, the database need not
\* come back.  The wait for a connection is among the steps: it is timed.
FairSpec == Spec /\ \A c \in Call : WF_vars(CallStep(c))

-----------------------------------------------------------------------------

Holders == {c \in Call : conn[c] # "none" \/ pc[c] = "connecting"}

TypeOK ==
  /\ pc \in [Call -> Label]
  /\ answer \in [Call -> {NULL, "ok", "dberror", "timeout", "reachable", "unreachable"}]
  /\ conn \in [Call -> {"none", "live", "dead"}]
  /\ idle \in [live : 0..PoolSize, dead : 0..PoolSize] /\ Idle <= PoolSize
  /\ open \in 0..Limit
  /\ rowLock \in CommandCall \cup {NULL}
  /\ dbUp \in BOOLEAN /\ crashes \in 0..MaxCrashes
  /\ seen \in [Call -> SUBSET {"outage", "crowd"}]

\* No connection leaks on any path, failures and crashes included: the pool's
\* count is what lies idle, what calls hold and what is being opened, it stays
\* within the limit, and a call that is over holds nothing.
PoolAccounted == TypeOK /\ open = Idle + Cardinality(Holders) /\ Holders \subseteq InFlight

\* pool_pre_ping: after an outage the pool is full of dead connections, but only
\* calls that were in flight during an outage are told of a database error.
OnlyOutagesFail == \A c \in Call : answer[c] = "dberror" => "outage" \in seen[c]

\* As long as no more calls are in flight than the pool may open connections,
\* none times out, whatever happened before: the pool never shrinks for good.
OnlyCrowdsTimeOut ==
  \A c \in Call :
    /\ answer[c] = "timeout" => "crowd" \in seen[c]
    /\ answer[c] = "unreachable" => seen[c] # {}

\* A busy trace, a full pool or an outage delays a call but never stops it, not
\* even when every worker waits for a connection and those that hold the
\* connections wait for a worker.
EveryCallAnswered == \A c \in Call : pc[c] # "idle" ~> (pc[c] = "done" /\ answer[c] # NULL)

\* What the README says of /health, and its own 503 description: it tells a
\* reachable database from an unreachable one.
HealthTruthful == \A c \in ProbeCall : answer[c] = "unreachable" => "outage" \in seen[c]
=============================================================================
