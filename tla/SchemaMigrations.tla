-------------------------- MODULE SchemaMigrations --------------------------
(***************************************************************************)
(* The schema over time: the two Alembic revisions (alembic/versions), run *)
(* by an operator through alembic/env.py against a database that serves    *)
(* calls meanwhile, and the immutability triggers they install.            *)
(*                                                                         *)
(* A schema is a set of objects.  One alembic command is one transaction:  *)
(* its statements change a draft that nobody else sees until the commit.   *)
(* A statement locks the tables it changes against every call, a call its  *)
(* tables against every migration; locks last as long as transactions.     *)
(* Calls lock cases before events, dropping the events table locks events  *)
(* before cases: PostgreSQL ends such a deadlock by aborting one of them.  *)
(*                                                                         *)
(* The calls of the service are those of DecisionTraces, reduced to what   *)
(* meets the schema: two statements, the rows, the receipt of a key.       *)
(***************************************************************************)
EXTENDS Integers, Sequences, SequencesExt

CONSTANTS CreateCall, CommandCall, ReadCall, Trace, Key,
          MaxCommands,   \* bound: alembic commands
          MaxTampers,    \* bound: statements of an operator in psql
          MaxCrashes,    \* bound: crashes of the database
          NULL

Call == CreateCall \cup CommandCall \cup ReadCall

ASSUME NullAssumption == NULL \notin Key \cup Trace \cup {"refused"}
ASSUME CallAssumption == CreateCall \cap CommandCall = {}
ASSUME BoundAssumption == MaxCommands \in Nat /\ MaxTampers \in Nat /\ MaxCrashes \in Nat

VARIABLES schema,     \* the committed objects
          revision,   \* alembic_version: "base", "history" or "head"
          migration,  \* the running alembic command, or NULL
          outcome,    \* how the last alembic command ended
          cases,      \* the stored traces
          events,     \* events[t]: the control events of t, [key, sent]
          pc, request, answer,
          locks,      \* locks[c]: the tables call c has locked
          commands, tampers, crashes

vars == <<schema, revision, migration, outcome, cases, events, pc, request, answer,
          locks, commands, tampers, crashes>>
stored == <<schema, revision, cases, events>>
calls == <<pc, request, answer, locks>>
counters == <<commands, tampers, crashes>>

-----------------------------------------------------------------------------
\* The objects, and what PostgreSQL asks of their creation and removal.

Cases == "temporary_case_snapshots"
Decisions == "temporary_decision_snapshots"
Events == "temporary_audit_events"
TraceIndex == "ix_temporary_audit_events_trace_id"
ImmutableFunction == "temporary_history_immutable"
CasesTrigger == "trg_temporary_case_snapshots_immutable"
DecisionsTrigger == "trg_temporary_decision_snapshots_immutable"
EventsTrigger == "trg_temporary_audit_events_immutable"
KeyColumn == "idempotency_key"
FingerprintColumn == "command_fingerprint"
KeyIndex == "uq_temporary_audit_events_trace_idempotency"

TableFor ==
  [o \in {CasesTrigger, DecisionsTrigger, EventsTrigger} |->
     CASE o = CasesTrigger -> Cases
       [] o = DecisionsTrigger -> Decisions
       [] o = EventsTrigger -> Events]

\* What must be there before o, foreign keys and trigger functions included.
Needs(o) ==
  CASE o \in {Decisions, Events} -> {Cases}
    [] o \in {TraceIndex, KeyColumn, FingerprintColumn} -> {Events}
    [] o = KeyIndex -> {Events, KeyColumn}
    [] o \in DOMAIN TableFor -> {TableFor[o], ImmutableFunction}
    [] OTHER -> {}

\* Indexes, columns and triggers go with what they are on; nothing else cascades.
GoesWith(d, o) ==
  /\ o \in Needs(d) /\ o # ImmutableFunction
  /\ d \notin {Decisions, Events}

Create(o) == [verb |-> "create", object |-> o]
Drop(o) == [verb |-> "drop", object |-> o]
DropIfExists(o) == [verb |-> "drop_if_exists", object |-> o]

Possible(s, objects) ==
  LET o == s.object IN
  IF s.verb = "create"
  THEN o \notin objects /\ Needs(o) \subseteq objects
  ELSE /\ s.verb = "drop" => o \in objects
       /\ \A d \in objects : o \in Needs(d) => GoesWith(d, o)

After(s, objects) ==
  IF s.verb = "create"
  THEN objects \cup {s.object}
  ELSE objects \ ({s.object} \cup {d \in objects : GoesWith(d, s.object)})

\* The tables a statement locks, in order: dropping a table also locks the one
\* its foreign key points to.  Only tables that calls use in different orders
\* matter, so the decisions table is left out.
TablesLocked(s) ==
  CASE s = Drop(Events) -> <<Events, Cases>>
    [] s.object \in {Cases, CasesTrigger, Decisions} -> <<Cases>>
    [] s.object \in {ImmutableFunction, DecisionsTrigger} -> <<>>
    [] OTHER -> <<Events>>

-----------------------------------------------------------------------------
\* The revisions.

\* Mutant: one table is forgotten in the tuple of triggers.
HistoryUpgradeTwoTriggers ==
  <<Create(Cases), Create(Decisions), Create(Events), Create(TraceIndex),
    Create(ImmutableFunction), Create(CasesTrigger), Create(DecisionsTrigger)>>

\* Revision 6a1c2e3f9b4d.
HistoryUpgrade ==
  <<Create(Cases), Create(Decisions), Create(Events), Create(TraceIndex),
    Create(ImmutableFunction),
    Create(CasesTrigger), Create(DecisionsTrigger), Create(EventsTrigger)>>

\* Mutants: the function stays behind; the tables go in the order they came.
HistoryDowngradeKeepsFunction == <<Drop(Events), Drop(Decisions), Drop(Cases)>>
HistoryDowngradeCasesFirst ==
  <<Drop(Cases), Drop(Decisions), Drop(Events), DropIfExists(ImmutableFunction)>>

HistoryDowngrade ==
  <<Drop(Events), Drop(Decisions), Drop(Cases), DropIfExists(ImmutableFunction)>>

\* Revision 7b2d4f5a8c6e.
ControlUpgrade == <<Create(KeyColumn), Create(FingerprintColumn), Create(KeyIndex)>>

ControlDowngrade == <<Drop(KeyIndex), Drop(FingerprintColumn), Drop(KeyColumn)>>

Revision == <<"base", "history", "head">>
Up == [history |-> HistoryUpgrade, head |-> ControlUpgrade]
Down == [history |-> HistoryDowngrade, head |-> ControlDowngrade]

\* The statements that lead from one revision to another: Alembic walks the
\* chain of down_revisions.
Plan(from, to) ==
  CASE from = to -> <<>>
    [] from = "base" /\ to = "history" -> Up.history
    [] from = "base" /\ to = "head" -> Up.history \o Up.head
    [] from = "history" /\ to = "head" -> Up.head
    [] from = "head" /\ to = "history" -> Down.head
    [] from = "head" /\ to = "base" -> Down.head \o Down.history
    [] from = "history" /\ to = "base" -> Down.history

\* The columns of the second revision that every statement of the service on the
\* events table names, reads and inserts alike.
MappedColumns == {KeyColumn, FingerprintColumn}

\* What the service's models declare, and the triggers only migrations know of.
ModelSchema ==
  {Cases, Decisions, Events, TraceIndex, KeyColumn, FingerprintColumn, KeyIndex}
TriggerSchema == {ImmutableFunction} \cup DOMAIN TableFor

-----------------------------------------------------------------------------
\* The operator: alembic commands, and statements typed into psql.

\* run_migrations_online: the plan starts from the stored revision.
StartMigration(target) ==
  /\ migration = NULL /\ commands < MaxCommands
  /\ migration' = [target |-> target, todo |-> Plan(revision, target),
                   draft |-> schema, locked |-> {}]
  /\ outcome' = "running" /\ commands' = commands + 1
  /\ UNCHANGED <<stored, calls, tampers, crashes>>

EndMigration(how) == migration' = NULL /\ outcome' = how

\* The table the next statement waits to lock, if it has not locked all of its own.
ToLock ==
  IF migration = NULL \/ migration.todo = <<>> THEN {}
  ELSE LET tables == TablesLocked(Head(migration.todo))
           Missing(i) == tables[i] \notin migration.locked
       IN  {tables[i] : i \in {j \in DOMAIN tables :
                                Missing(j) /\ \A k \in 1..j - 1 : ~Missing(k)}}

LockForMigration ==
  /\ \E t \in ToLock :
       /\ \A c \in Call : t \notin locks[c]
       /\ migration' = [migration EXCEPT !.locked = @ \cup {t}]
  /\ UNCHANGED <<stored, calls, outcome, counters>>

\* One statement; a statement that is refused rolls the whole command back.
RunStatement ==
  /\ migration # NULL /\ migration.todo # <<>> /\ ToLock = {}
  /\ LET s == Head(migration.todo) IN
     IF Possible(s, migration.draft)
     THEN /\ migration' = [migration EXCEPT !.todo = Tail(@), !.draft = After(s, @)]
          /\ UNCHANGED outcome
     ELSE EndMigration("refused")
  /\ UNCHANGED <<stored, calls, counters>>

\* What the draft leaves of the rows.
KeptEvents(t) ==
  IF Events \notin migration.draft THEN <<>>
  ELSE IF KeyColumn \in migration.draft THEN events[t]
  ELSE [i \in DOMAIN events[t] |-> [events[t][i] EXCEPT !.key = NULL]]

CommitMigration ==
  /\ migration # NULL /\ migration.todo = <<>>
  /\ schema' = migration.draft /\ revision' = migration.target
  /\ cases' = IF Cases \in migration.draft THEN cases ELSE {}
  /\ events' = [t \in Trace |-> KeptEvents(t)]
  /\ EndMigration("done")
  /\ UNCHANGED <<calls, counters>>

LockedByMigration(t) == migration # NULL /\ t \in migration.locked

\* UPDATE or DELETE on the events of a trace, by hand: the trigger raises.
Tamper(t) ==
  /\ tampers < MaxTampers /\ events[t] # <<>>
  /\ ~LockedByMigration(Events)
  /\ tampers' = tampers + 1
  /\ events' = IF EventsTrigger \in schema THEN events
               ELSE [events EXCEPT ![t] = Front(@)]
  /\ UNCHANGED <<schema, revision, migration, outcome, cases, calls, commands, crashes>>

-----------------------------------------------------------------------------
\* The calls.

Arrive(c) ==
  /\ pc[c] = "idle"
  /\ \E t \in Trace, k \in Key : request' = [request EXCEPT ![c] = [trace |-> t, key |-> k]]
  /\ pc' = [pc EXCEPT ![c] = "cases"]
  /\ UNCHANGED <<stored, migration, outcome, answer, locks, counters>>

\* The transaction ends, one way or another, and with it its locks.
Answered(c, what) ==
  /\ pc' = [pc EXCEPT ![c] = "done"]
  /\ answer' = [answer EXCEPT ![c] = what]
  /\ locks' = [locks EXCEPT ![c] = {}]

\* FOR UPDATE: another command of the trace is under way.
RowLocked(c) ==
  c \in CommandCall /\ \E d \in CommandCall \ {c} :
    locks[d] # {} /\ request[d].trace = request[c].trace

\* The first statement: the case row, or the check that there is none.
UseCases(c) ==
  /\ pc[c] = "cases" /\ ~RowLocked(c)
  /\ IF Cases \notin schema THEN Answered(c, "error")
     ELSE /\ ~LockedByMigration(Cases)
          /\ IF (request[c].trace \in cases) = (c \in CreateCall)
             THEN Answered(c, "refused")
             ELSE /\ pc' = [pc EXCEPT ![c] = "events"]
                  /\ locks' = [locks EXCEPT ![c] = {Cases}]
                  /\ UNCHANGED answer
  /\ UNCHANGED <<stored, migration, outcome, request, counters>>

\* The statements on the events name every mapped column, so they fail where the
\* second revision is not applied.
UseEvents(c) ==
  /\ pc[c] = "events" /\ ~LockedByMigration(Events)
  /\ IF MappedColumns \subseteq schema
     THEN /\ pc' = [pc EXCEPT ![c] = "commit"]
          /\ locks' = [locks EXCEPT ![c] = @ \cup {Events}]
          /\ UNCHANGED answer
     ELSE Answered(c, "error")
  /\ UNCHANGED <<stored, migration, outcome, request, counters>>

\* Mutant: receipts are not looked up.
ReceiptNever(t, k) == FALSE

\* find_control_receipt: an event of the trace carries the key.
Receipt(t, k) == \E i \in DOMAIN events[t] : events[t][i].key = k

\* The rows of the call, committed with its answer.  What the unique index adds
\* to the lookup of the receipt is in DecisionTraces.
CommitCall(c) ==
  LET t == request[c].trace
      k == request[c].key
  IN
  /\ pc[c] = "commit"
  /\ \/ /\ c \in CreateCall /\ t \notin cases
        /\ cases' = cases \cup {t} /\ UNCHANGED events /\ Answered(c, "stored")
     \/ /\ c \in CreateCall /\ t \in cases
        /\ UNCHANGED <<cases, events>> /\ Answered(c, "refused")
     \/ /\ c \in CommandCall /\ ~Receipt(t, k)
        /\ events' = [events EXCEPT ![t] = Append(@, [key |-> k, sent |-> k])]
        /\ UNCHANGED cases /\ Answered(c, "stored")
     \/ /\ c \in CommandCall /\ Receipt(t, k)
        /\ UNCHANGED <<cases, events>> /\ Answered(c, "replayed")
     \/ /\ c \in ReadCall
        /\ UNCHANGED <<cases, events>> /\ Answered(c, "view")
  /\ UNCHANGED <<schema, revision, migration, outcome, request, counters>>

-----------------------------------------------------------------------------
\* PostgreSQL: deadlocks and crashes.

\* A call that holds cases waits for events, the migration the other way round.
DeadlockedWith(c) ==
  /\ migration # NULL /\ Events \in migration.locked
  /\ Cases \in ToLock
  /\ Cases \in locks[c] /\ pc[c] = "events"

\* Mutant: nobody looks for deadlocks.
BreakDeadlockNever(c) == FALSE /\ UNCHANGED vars

\* deadlock_timeout: one of the two is aborted and rolled back.
BreakDeadlock(c) ==
  /\ DeadlockedWith(c)
  /\ \/ EndMigration("deadlock") /\ UNCHANGED calls
     \/ Answered(c, "error") /\ UNCHANGED <<migration, outcome, request>>
  /\ UNCHANGED <<stored, counters>>

\* Every transaction under way is rolled back.
Crash ==
  /\ crashes < MaxCrashes /\ crashes' = crashes + 1
  /\ LET Running == {c \in Call : pc[c] \in {"events", "commit"}} IN
     /\ pc' = [c \in Call |-> IF c \in Running THEN "done" ELSE pc[c]]
     /\ answer' = [c \in Call |-> IF c \in Running THEN "error" ELSE answer[c]]
  /\ locks' = [c \in Call |-> {}]
  /\ IF migration = NULL THEN UNCHANGED <<migration, outcome>> ELSE EndMigration("crashed")
  /\ UNCHANGED <<stored, request, commands, tampers>>

-----------------------------------------------------------------------------

Init ==
  /\ schema = {} /\ revision = "base" /\ migration = NULL /\ outcome = NULL
  /\ cases = {} /\ events = [t \in Trace |-> <<>>]
  /\ pc = [c \in Call |-> "idle"] /\ request = [c \in Call |-> NULL]
  /\ answer = [c \in Call |-> NULL] /\ locks = [c \in Call |-> {}]
  /\ commands = 0 /\ tampers = 0 /\ crashes = 0

MigrationStep == LockForMigration \/ RunStatement \/ CommitMigration
CallStep(c) == UseCases(c) \/ UseEvents(c) \/ CommitCall(c)

Next ==
  \/ \E target \in ToSet(Revision) : StartMigration(target)
  \/ MigrationStep \/ Crash
  \/ \E t \in Trace : Tamper(t)
  \/ \E c \in Call : Arrive(c) \/ CallStep(c) \/ BreakDeadlock(c)

Spec == Init /\ [][Next]_vars

\* What runs goes on, and the server looks for deadlocks.
FairSpec ==
  /\ Spec /\ WF_vars(MigrationStep)
  /\ \A c \in Call : WF_vars(CallStep(c)) /\ WF_vars(BreakDeadlock(c))

-----------------------------------------------------------------------------

Receipts == [key : Key \cup {NULL}, sent : Key]
AnyObject == ModelSchema \cup TriggerSchema

TypeOK ==
  /\ schema \subseteq AnyObject /\ revision \in ToSet(Revision)
  /\ migration # NULL =>
       /\ migration.target \in ToSet(Revision) /\ migration.draft \subseteq AnyObject
       /\ migration.locked \subseteq {Cases, Events}
  /\ outcome \in {NULL, "running", "done", "refused", "deadlock", "crashed"}
  /\ cases \subseteq Trace /\ DOMAIN events = Trace
  /\ \A t \in Trace : /\ \A i \in DOMAIN events[t] : events[t][i] \in Receipts
                      /\ t \notin cases => events[t] = <<>>
  /\ pc \in [Call -> {"idle", "cases", "events", "commit", "done"}]
  /\ \A c \in Call : locks[c] # {} <=> pc[c] \in {"events", "commit"}

\* Whatever path of upgrades, downgrades, crashes and deadlocks led there, the
\* stored revision names the schema: at head it is what the service's models
\* declare and the triggers, and a downgrade to base is clean (README.md:98).
SchemaIsRevision ==
  /\ TypeOK
  /\ revision = "head" => schema = ModelSchema \cup TriggerSchema
  /\ revision = "history" =>
       schema = (ModelSchema \cup TriggerSchema) \ {KeyColumn, FingerprintColumn, KeyIndex}
  /\ revision = "base" => schema = {}

\* No statement of a migration is ever refused, from any revision to any other
\* and however many rows are stored.
MigrationsNeverRefused == outcome # "refused"

\* Stored traces and events outlive everything but a downgrade to base: calls,
\* crashes, statements by hand, and the migrations between the other revisions;
\* and new ones appear only while both revisions are in force and complete.
HistorySurvives ==
  [][/\ revision' = "base" \/ \A t \in cases :
          /\ t \in cases'
          /\ Len(events'[t]) >= Len(events[t])
          /\ \A i \in DOMAIN events[t] : events'[t][i].sent = events[t][i].sent
     /\ \A t \in Trace : (t \in cases' \ cases \/ Len(events'[t]) > Len(events[t]))
          => schema = ModelSchema \cup TriggerSchema]_vars

\* A key acts again only where a downgrade has erased the receipt of every
\* earlier time it acted.
KeyActsAgainOnlyIfErased ==
  \A t \in Trace : \A i, j \in DOMAIN events[t] :
    i < j /\ events[t][i].sent = events[t][j].sent => events[t][i].key = NULL

\* Every call is answered and every alembic command ends, although the two lock
\* the tables in opposite orders.
EverythingEnds ==
  /\ \A c \in Call : pc[c] # "idle" ~> pc[c] = "done"
  /\ migration # NULL ~> migration = NULL
=============================================================================
