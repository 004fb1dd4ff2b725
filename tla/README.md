# Verification of the OrganizationalAI backend

TLA+ models of `src/backend`, the TLC runs that check them and the TLAPS proofs
about them. The backend is a FastAPI service over PostgreSQL. It decides
synthetic expense cases with a fixed temporary policy, stores each decision as
an append-only trace, and lets a client pause, resume, review and undo on that
trace (the control deck).

## 1. The system

| Component | Code (`src/backend/app/`) | State it keeps | Operations |
| --- | --- | --- | --- |
| Control kernel | `domain/control.py` | none (pure) | replay events into a control state; plan the event of a command or refuse it |
| Command service | `application/control_deck.py`, `api/routes/control_deck.py`, `api/schemas/control_deck.py` | rows of `temporary_audit_events` | `submit_control` |
| Trace service | `application/temporary_history.py`, `api/routes/temporary_history.py` | rows of all three tables | `submit_trace`, `read_trace` |
| Tables, repository | `persistence/models`, `persistence/repositories` | the database | inserts, lookups, `SELECT ... FOR UPDATE` |
| Engine and sessions | `persistence/db.py` | cached engine and session factory, the pool's connections | `build_engine`, `build_session_factory`, `get_session` |
| Normalization | `policy/normalization.py` | none | `normalize_case`, `first_missing_field` |
| Evaluator, profile | `policy/evaluator.py`, `policy/profile.py` | none | `evaluate_case` |
| Records, enums | `domain/models.py`, `domain/enums.py` | none | structural validation |
| Error envelope | `api/errors.py` | none | exception to status code |
| Health probe | `api/health.py` | none | `health` |
| Settings, assembly | `core/settings.py`, `main.py` | cached settings | `create_app`, `get_settings` |
| Migrations | `backend/alembic` | the schema, `alembic_version` | upgrade, downgrade |

How they interact. Every route handler is a plain `def`, so each HTTP call runs
in a worker thread with a session of its own; calls meet only in the database.
`submit_trace` validates, normalizes and evaluates without touching the
database, then in one transaction checks the `case_id` and inserts a case, a
decision and three `SYSTEM` events. `submit_control` locks the case row, loads
the events, looks for a receipt of the idempotency key, replays the events with
the kernel, plans one event and inserts it. `read_trace` loads the case, then
its events. The control state is stored nowhere: every answer replays it. The
health probe goes past the session factory to the engine. An operator starts the
process, edits `.env`, and migrates the schema, possibly while calls run.

What is hard about it:

- two commands on one trace that plan from the same loaded rows;
- a retry of a command whose answer was lost, at once or after other commands;
- a commit that takes effect although the service sees a dead connection;
- an answer that is built before the commit that makes it true;
- two creations with one `case_id`; a read of several statements;
- a recovery path (`_resolve_idempotency_conflict`) that no live test reaches,
  because the row lock keeps it idle at PostgreSQL's usual isolation level, and
  an isolation level that nothing in the code pins;
- long histories: whether the reducer's stack, the recorded `prior_state`, the
  chain of events and the two guards of a reversal can drift apart;
- first calls that meet inside caches which do not serialize them;
- a small pool of connections that waiting calls keep hold of, and that a
  database restart fills with dead ones;
- migrations that lock the tables in the opposite order to the calls, and that
  erase what idempotency rests on.

`PROJECT.json` lists these, and the others, under `hazards`, each at its line,
with the properties that cover it.

## 2. The modules

| Module | What it is |
| --- | --- |
| `ControlKernel` | the reducer, the guard and the event row, as operators |
| `ControlDeck` | abstract: what the deck promises, with no event in sight |
| `ControlHistory` | one stored trace under commands that reach it one at a time; refines `ControlDeck` |
| `DecisionTraces` | the service: concurrent creations, commands and reads over one database |
| `Policy` | validation, normalization and evaluation, as operators |
| `RepairDialogue` | the question loop a client runs against the policy |
| `TraceLedger` | abstract: the service with every call a single step |
| `TraceRefinement` | the mapping under which `DecisionTraces` implements `TraceLedger` |
| `EngineCache` | process start, cached settings, engine and session factory under concurrent first calls |
| `ConnectionPool` | worker threads, pooled connections, database crashes, the health probe |
| `SchemaMigrations` | both revisions up and down, the triggers, running calls |
| `...Proofs` | the theorems about the module of that name; `DecisionTracesProofs` has the refinement of `TraceRefinement` too |
| `MC...` | instances for TLC |

`ControlHistory` and `DecisionTraces` both extend `ControlKernel`. The first is
the component as its transaction sees it; the second puts callers, statements,
locks and failures around it, and implements `TraceLedger`, which knows none of
them. `EngineCache`, `ConnectionPool` and `SchemaMigrations` are what surrounds
the service; each reduces the calls of `DecisionTraces` to the steps that meet
its own subject.

### ControlKernel and ControlHistory

The rows of a trace are a set, as in the table; the code sorts them by
`sequence_number` wherever it uses their order, and so does `Replay`, a
recursive function whose value at `n` is the projection after the rows
`1 .. n`. A projection is the derived state and the stack of events that can
still be reversed (`ControlProjection`). A stored history on which the reducer
would raise `ValueError` replays to `Corrupt`. `LegalCommand` joins every guard
of `plan_control_command`. A row keeps the columns that something is decided on
(`prior_state` and `target_event_id` are payload fields there); the wording,
`recorded_at`, the constant actor and the disposition are left out. Init is a
trace as `submit_trace` leaves it. One action per command appends the row that
`submit_control` computes; an illegal command (409) changes nothing and is a
stutter. Fresh ids are a `CHOOSE`: which unused uuid comes next does not matter.

### DecisionTraces

One action is one SQL statement or one commit of one call, so calls interleave
between any two statements. `pc[r]` says which statement call `r` runs next.
The database is the committed rows (`cases`, `events`) and `rowLock`; a case
and its decision are one row here, since one flush inserts both and neither is
ever changed. `loaded[r]` is what the session of `r` has read, `draft[r]` what
its transaction has written and not committed, together with the answer the
code has prepared before the commit.

| Code | Actions |
| --- | --- |
| `submit_trace` | `ArriveCreate`, `CaseIdExists`, `InsertTrace`, `Commit` |
| `find_trace_for_update` | `BeginControl` (no such trace), `LockTrace`, `LoadEvents` |
| `find_control_receipt` and the fingerprint | `ReplayReceipt`, `RefuseReusedKey` |
| guard and planned event | `RefuseIllegal`, `PlanEvent` |
| flush | `InsertEvent`, `InsertHitsSequence`, `InsertHitsKey` |
| `_resolve_idempotency_conflict` | `ResolveConflict` |
| `read_trace` | `ArriveRead`, `ReadCase`, `ReadEvents` |
| a connection lost in the transaction, or after its commit | `Abort`, `CommitLost` |

A retry is another call with the same body, so any number of controllers that
chose one body are a first attempt and its retries, in any order and overlap.
An insert waits while another transaction has a conflicting row uncommitted, as
a unique index does. `Isolation` is a constant because no code sets it: in READ
COMMITTED each statement sees what is committed when it starts, in REPEATABLE
READ what was committed at the first statement, except that unique indexes and
row locks always act on the present. What PostgreSQL and the driver do is
modelled from how the code uses them and is marked external in the map.

### TraceLedger and TraceRefinement

`TraceLedger` is what a client may rely on. Its state is a ledger of traces,
each the outcome of its decision and a log of control effects, and for each call
what it asked and was told. A call acts in one step; it may be told that it
failed although it acted (`connection_error`), which is all a lost connection
can do to it. A repeated key is shown the trace as its first use left it.
`TraceRefinement` reads the tables of `DecisionTraces` as a ledger: the fourth
and later rows of a trace are its effects, each with the state its prefix
replays to, and an answer is the state it shows and the number of effects. The
step in which a call is answered is its step in the ledger (the commit, a
refusal, the last statement of a read); every other statement is a stutter. So
calls are linearizable, and the theorems about the ledger hold of whatever
implements it.

### EngineCache

The server is down, up or failed. `CreateApp` reads and validates the settings
(`main.py:43` runs it at import). A session call goes through
`build_session_factory` to `build_engine`, a probe straight to `build_engine`.
`lru_cache` holds its lock for the lookup and for the store, not while the
function runs, so these are separate actions, and a thread that finds the key
filled at its store leaves it (`Stored`) and keeps its own result. An engine is
named by the call that built it.

### ConnectionPool

A call is where it is (`pc`), the connection it holds and what happened while it
was in flight (`seen`, a history variable that only properties read).
`WorkerFree` is the limit of worker threads; a handler keeps its worker, and the
rendering of an answer needs one again. The pool is SQLAlchemy's `QueuePool` as
`create_engine(..., pool_pre_ping=True)` configures it: idle connections, a
counter of open ones, a limit, a timed wait. A command waits for its row lock
with the connection in hand; a read ends no transaction and keeps its connection
until `get_session` closes the session, which is after the answer was rendered.
`Crash` kills every connection, `Recover` brings the server back.

### SchemaMigrations

A schema is a set of objects (tables, columns, indexes, function, triggers), a
revision a sequence of statements, and an alembic command the statements between
two revisions in one transaction over a draft (`env.py:55`). `Possible` and
`After` are PostgreSQL's rules for them: a column or a table must be there to be
used, a function cannot go while a trigger needs it, an index goes with its
table. Each statement takes its table locks, in its order, against the calls;
`BreakDeadlock` is the server's detector. `Tamper` is an `UPDATE` or `DELETE`
typed by hand, which the trigger refuses where there is one. Calls are creations,
commands and reads as two statements and a commit, with the receipt of their key.

### Policy and RepairDialogue

A text is absent, blank or `"text"`; dates are absent or present; amounts come
from a small set around zero and the limit. `NormalizeCase`, `FirstMissingFact`
and `EvaluateCase` follow the code line by line in control, with the wording of
reasons and questions left out: a question is named by the fact it asks for.
`RepairDialogue` closes the loop with a client (external) that supplies exactly
what it was asked for and submits again.

## 3. The runs

| Run | Instance | Shows |
| --- | --- | --- |
| `control_history` | nine event ids: six commands on one trace, every outcome | the safety properties of histories, the inductive invariant, the refinement of `ControlDeck` |
| `controls` | one trace, three control calls, four commands, one key or none, two dispositions, two outcomes, READ COMMITTED | the lock makes checks current, keys act once, a refusal leaves nothing and is true when it is given |
| `repeatable_read` | the same race, three commands, one outcome, REPEATABLE READ | the constraints and the recovery path keep histories legal and answers true |
| `answers` | two creations of one case id, two controls, one read, fairness | every call is answered; a read never shows less than an earlier answer |
| `ledger` | two creations of one case, three controls with one key or none, one read | what a client of the abstract service was shown stays true, its retries included; effects are never taken back |
| `ledger_refinement` | two creations of one case, two controls, one read, lost connections and commits, READ COMMITTED | the service implements the abstract one; whole traces, true refusals |
| `engine_cache` | three sessions and a probe, `.env` edited between two databases and a wrong URL | one database, a bounded surplus of engines |
| `pool` | a command, two reads and a probe, two workers, one connection and one overflow, one crash, fairness | no leaks; database errors only from outages, timeouts only from crowds; everyone is answered |
| `health_truthful` | a command, a read and a probe, one connection | violated, see below |
| `migrations` | one trace, one creation, two commands with one key, one read, four alembic commands, one statement by hand, one crash, fairness | migrations are all or nothing, never refused, and end; what happens to history |
| `repair_dialogue` | every submission over the bounded fields | the documented precedence, neutral normalization, the dialogue ends |
| `first_missing_field` | the same | violated, see below |

Why the bounds are enough. On one trace two racing commands reach every
conflict the code distinguishes; the third lets something happen between a call
and its retry. A command acts on one trace only and locks only that trace, so a
second trace adds no interaction; creations interact through `case_id` alone,
so two of one id are what can collide, beside commands and a read that find the
trace or not yet. Six commands hold and release a case
three times, more than the two steps after which histories repeat their shape
(section 4). Amounts 0, 1000 and 1001 are the invalid one and the two beside
the limit. The refinement has two commands (one that holds the case, one that
releases it) and no disposition; which commands are legal is checked against the
deck by `control_history`, and what the disposition adds to a fingerprint by
`controls`. In `engine_cache` three sessions are the two that race and one that
comes later. In `pool` there are two calls more than workers and than connections,
so both reads can wait for a worker with a connection in hand while two handlers
wait for connections. One crash kills whatever connections there are by then; the
second command that would wait for the first one's row is left to `answers`. A
pool of 5 and 10 behaves as one of 1 and 1 once it is full. Four alembic
commands are up, down, up and one more: the shortest way for a key to act, be
erased, and act again. Which commands went before does not matter to what follows
but through the revision, since that fixes the schema (`SchemaIsRevision`).
Symmetry is used where no liveness is checked.

Two things worth knowing that the runs show. `ConstraintsNeverFire` holds at
READ COMMITTED: the row lock alone serializes the commands of a trace, and the
recovery of a lost insert is never needed. At REPEATABLE READ the snapshot is
taken before the wait for the lock, so a command that waited plans from stale
rows; no history is harmed, but the caller sees a 500
(`integrity_error`), or a 409 for a command that is legal by now. The runs check
`ConstraintsNeverFire`, `LoadedIsCurrent` and `IllegalRefusalsTrue` only at READ
COMMITTED for that reason. `RefusalsJustified`, about duplicates and reused keys, holds at both
levels (section 4).

Fairness. `answers` assumes weak fairness of each received call's own next
statement: its thread goes on, and PostgreSQL grants a row lock or ends an
insert's wait once the other transaction is over. Nothing is assumed of
clients, nor of failures, so a lost connection is possible at every point and
never needed. No strong fairness is needed although calls queue on a lock: each
call passes once, so a waiting call is overtaken only finitely often.
`repair_dialogue` assumes a client that goes on answering. `pool` assumes of calls
that they go on when they can, the end of the timed wait for a connection included, and nothing of
the database's return: without that timeout two workers can wait for the
connection of a read that waits for a worker, for ever (the property's mutant).
`migrations` assumes that what runs goes on and that PostgreSQL looks for
deadlocks; without the latter a downgrade and a call stop each other.

What the runs of the surroundings show. Two racing first calls can build two
engines, never more than one each, and nothing later builds another
(`LateCallsBuildNothing`); all later sessions use one engine, and all engines
connect to the database the process was started with, whatever became of
`.env`. No path through the pool leaks a connection, and with the pre-ping a call
sees a database error only if it was in flight during an outage. Migrations
never get stuck on what an earlier one left; a service that meets the wrong
revision fails and stores nothing. A downgrade below the second revision erases
receipts, and that is the only way for a key to act twice
(`KeyActsAgainOnlyIfErased`).

One more observation: after a race of first calls the cached session factory can be
bound to the engine that lost the race, so that the probe tests one pool and the
sessions use another, where the docstring at `persistence/db.py:31` speaks of the
cached engine. `EngineCache` has the behaviour; both engines connect to one
database, so nothing is at stake but the surplus pool.

Two findings. `first_missing_field` (`policy/normalization.py:85`) ignores the
requester role and the expense object, which `backend/README.md:132` and the
contract count among the required facts; the run `first_missing_field` shows a
submission on which it and the evaluator name different facts. The evaluator,
which alone decides, follows the contract (`DecisionFollowsContract`). The test
`backend/tests/unit/policy/test_normalization.py:140` pins the helper's answer for an absent
expense, `expense.category`, so code and test agree against the document.
`health_truthful`: `backend/README.md:99` says that the probe tells a reachable
database from an unreachable one; since `health` turns every exception into 503
it also reports `unreachable` when the pool's own timeout ends its wait.

## 4. The proofs

Every safety property of every passing run, invariant or action property, is a
theorem for all values of the constants, and so are both refinements. Liveness
is not (last paragraph).

| Module | Theorems beside the invariant |
| --- | --- |
| `ControlKernelProofs` | lemmas about the reducer and the guard |
| `ControlHistoryProofs` | `TypeCorrect`, `ChainStaysIntact`, `ReplaysNeverFail`, `StackMatchesState`, `PriorStateIsTrue`, `ReversalsRestore`, `HeldCasesAreReleasable`, `HistoriesOnlyGrow`, `HistoryImplementsDeck` |
| `TraceLedgerProofs` | `LedgerTypes`, `LedgerOneTracePerCase`, `LedgerViewsStayTrue`, `LedgerOnlyGrows` |
| `DecisionTracesProofs` | `ServiceTypes`, `TracesAreWhole`, `StoredHistoriesStayLegal`, `KeysActOnce`, `ViewsStayCommittedPrefixes`, `ViewsShowOwnCommands`, `RefusalsLeaveNothing`, `RefusalsAreJustified`, `LoadedStaysCurrent`, `ConstraintsStaySilent`, `IllegalRefusalsStayTrue`, `EffectsStayAtomic`, `ReadsShowAnsweredViews`, `ServiceImplementsLedger` |
| `EngineCacheProofs` | `EnginesShareDatabase`, `LateCallsReuse`, `LateSessionsShare` |
| `ConnectionPoolProofs` | `NoConnectionLeaks`, `OnlyOutagesAreFelt`, `OnlyCrowdsWaitInVain` |
| `SchemaMigrationsProofs` | `RevisionNamesSchema`, `NoMigrationIsRefused`, `KeysActAgainOnlyIfErased`, `HistoryOutlivesMigrations` |
| `RepairDialogueProofs` | `SnapshotsDecideAlike`, `DecisionsFollowContract` |

The inductive invariants are results of their own: `HistoryInvariant`,
`InvAlways`, `CacheInvariant`, `PoolInvariant`, `MigrationInvariant`,
`DialogueInvariant`; that of the ledger is the conjunction of its type, of one
trace per case and of `ViewsStayTrue` with `CreatorsAnswered`.

### One history

Assumed: `NULL` is no control state and no event id, and there are at least three
event ids. None of the properties is inductive alone: whether an undo is
legal depends on a stack, and the stack on the whole history behind it. The
observation that makes it simple is that a history alternates. A pause or a
review is only legal in the state the decision gave the case, and then only
reversals are legal, which lead back to it. So what a history replays to can be
read off its last row: the start projection, or that one row pushed on it
(`SettledBy`). `ReplayClosed` says so for every prefix, `Alternating` says that
each reversal takes back the row right before it; with the intact chain these
make `LegalHistory`, which every legal command preserves (`LegalHistoryGrows`)
and which implies the rest in a few lines each.

`ControlKernelProofs` supplies what that needs of the kernel: the recursive
function `Replay` satisfies its equation (`ReplayEquation`, by well-founded
induction over sets of naturals), rows numbered `1 .. N` keep their place when
row `N + 1` is added (`NumberedExtend`), and what a prefix replays to does not
depend on what is appended (`ReplayPrefix`), which is also why the replay of an
idempotent answer can be recomputed for ever. `ControlHistory` and
`DecisionTraces` use the same lemmas.

### The ledger

Assumed: the kinds of calls are disjoint, `NULL` is none of the values, and
the commands are the code's four. The invariant adds one thing to the properties
(`CreatorsAnswered`): whose trace is stored has been answered, so nobody creates
twice. The rest rests on two facts about any step: requests and answers are
final (`AnswersStay`), and a log keeps what it has (`LogsGrow`), so what was ever
shown of its first `n` effects stays true (`PastState`), and each property only
has to be checked at the one effect or answer that a step adds. That an effect is
legal and that a key acts once are guards of the ledger, nothing to check there;
that the code keeps to them is `EffectsAreAtomic`, `KeyActsOnce` and the refinement
of `DecisionTraces`.

### The service

Assumed: the kinds of calls are disjoint (`RequestAssumption`), `NULL` is none of
the bodies, answers and keys (`NullIsNoValue`), and outcomes and commands are the
code's (`ChoiceAssumption`). Every theorem holds at both isolation levels except
four that have `Isolation = "READ COMMITTED"` as a hypothesis:
`LoadedStaysCurrent`, `ConstraintsStaySilent`, `IllegalRefusalsStayTrue` and
`ServiceImplementsLedger`. At
REPEATABLE READ they are false (section 3).

The argument. A call works on a prefix of the rows its trace has, and nobody
edits a row. The row it plans is numbered right after that prefix. So when the
unique constraint on `(trace_id, sequence_number)` lets the row in, the prefix is
the whole history: every commit extends a history that its command was checked
against, at either level, and the kernel's `LegalHistoryGrows` does the rest. The
invariant `Inv` says this of each call at each of its statements: what it may
hold as `loaded` and `draft` (`CreatorOK`, `ControllerOK`, `ReaderOK`), that
the rows of a stored trace are a legal history (`HistoriesOK`), and that each
row has an origin, the creation or one call that may have acted (`RowsOK`,
`OwnedBy`). The origin is what `KeyActsOnce` and `RefusedLeavesNothing` need:
a refused or unfinished call owns no row. At READ COMMITTED the row lock makes the
prefix the whole history earlier, from the moment it is loaded; that is a
conjunct of `ControllerOK`, and the constraints then have nothing to refuse.
`TypeOK` alone, or any of the properties alone, is not preserved: a commit is
right only because of what was true when the row was planned.

`ReadsShowAnsweredViews` compares two calls: what an answer given before a read
arrived has shown is in the tables when the read's first statement runs, and
stays in every snapshot it may read from (`Seen`, kept by every step).
`IllegalRefusalsStayTrue` follows from two facts: no statement but the guard's
refuses a command as illegal (`OnlyGuardRefuses`), and what the guard sees, after
the receipt lookup found nothing, is at READ COMMITTED the whole stored history,
because the call holds the row lock.

### The refinement

`ServiceImplementsLedger` proves `Spec => ImplementsLedger` under the further
assumption that `NULL` is no ledger entry and no client's answer
(`NullIsNoEntry`). The rows of a trace are counted from 1 to N (`Counted`, from
`LegalHistory`), so a ledger entry can be read off them; one more row appends one
effect and leaves the others, each computed from the rows up to its own
(`EntryGrows`); and
what the guard of the kernel allows, and where the planned event leads, is the
ledger's table `Leads` (`LeadsWhereLegal`). Then each statement that answers
nobody is a stutter (`SilentStep`), each refusal is the refusal of the ledger
in the state the tables have at that moment (`CreateRefused`, `UnknownRefused`,
`ReuseRefused`, `IllegalRefused`), a commit is the creation, the command or
the replay of its key (`CommitActs`), and a lost connection is a failure told.
The branches in which a constraint refuses an insert cannot be taken at READ
COMMITTED. At REPEATABLE READ a refusal may judge an old snapshot, which no atomic
service would do, so the theorem is for READ COMMITTED only. With the theorems
about the ledger it gives: whatever holds of atomic calls holds of the
interleaved statements.

### The surroundings

`EngineCache`: assumed are disjoint kinds of calls, `NULL` no call and no URL,
and accepted URLs among all URLs. Nothing runs before `create_app` has read
valid settings, and nothing changes them afterwards (`Started`); whoever was
given an engine left one in the cache, and a full cache is never overwritten
(`CachesFilled`). That makes `OneDatabase` a matter of what each engine was
built with, and the two late-call properties a matter of what a late call
finds.

`ConnectionPool`: assumed are finitely many calls and at least one connection.
The counter is not inductive alone. What a call holds can be read off where it is
(`Shape`), so every step moves one connection between the queue, a call and the
outside, and the counter with it (`Accounted`). A full counter and an empty queue
then mean that as many calls hold connections as the pool may open, so the call
that waits is one too many, and whenever there are that many in flight each has
met the crowd (`Crowds`). `Outages` says who may hold a dead connection: only a
call that was in flight during the outage.

`SchemaMigrations`: assumed are that `NULL` is no key, no trace and no refusal, that
creations are no commands, and that the bounds are naturals. Revisions are
sequences of statements, so the invariant has to say what the schema is in the
middle of one. Give every object its rank, the statement of the way up that
creates it (`Rank`), and the statement of the way down it goes with (`Gone`): a
migration at height k has created what ranks up to k, one at depth k has removed
what goes up to k (`SchemaKnown`), and what the next statement needs is read off
the ranks. `Locks` and `Seen` say which tables a migration has locked by then and
what calls have locked and checked, so that a call's rows and columns are not
taken from under it; `Keys` says that an event keeps the key it came with until a
downgrade erases it, and that a key that acted before has been erased.

`Policy` and `RepairDialogue`: assumed are integer amounts, and that absence, the
blank text and the wrong type are three values apart from all others. The
evaluator and the contract each name the least fact of a list; both are
shown to be the same nested choice (`First`), which normalization leaves
alone (`FirstNormalized`). The invariant carries these from operators to the
dialogue: what the client holds is always a submission, and its last answer is
the decision on it.

### Only model-checked

Liveness under fairness is out of the prover's reach: `EveryCallAnswered` of
`DecisionTraces` and of `ConnectionPool`, `EverythingEnds` of `SchemaMigrations`
and `RepairEnds` of `RepairDialogue` are TLC's. So are the two violations.

## 5. Not modelled

Wording, provenance markers, timestamps and JSON snapshots; length, blank and
NUL validation of texts. `recorded_at` is read before the row lock, so timestamps
can run backwards along a chain; nothing orders events by time and no property is
stated about it. Of settings and assembly: names, log level, router registration.
Alembic's offline mode only prints SQL. `TRUNCATE` fires no row trigger and
whoever owns the tables can drop the triggers; neither is a statement of the
program, and `Tamper` covers `UPDATE` and `DELETE` only. The scripts, container
files and empty packages are not part of the running program.

FastAPI, SQLAlchemy, psycopg2, Alembic and PostgreSQL are not in the repository.
They are modelled from how the code uses them, marked external in the map: worker
threads and the order of rendering and closing a session, `QueuePool`, `lru_cache`,
locks, snapshots, unique indexes, transactional DDL, the deadlock detector.
`ConnectionPool` has one trace and no snapshots, `SchemaMigrations` no second
isolation level; what two calls do to each other's rows is `DecisionTraces`.

## 6. Plan

1. Done: the kernel and one trace's history; the concurrent service and the
   abstract ledger; the policy and its dialogue; caches, pool and migrations.
   All are checked, and their safety properties and refinements proved.
2. `DecisionTraces` at REPEATABLE READ refines no atomic service; what it does
   refine, a ledger whose refusals may judge an earlier state, is worth stating
   and proving.
3. The long step proofs of `DecisionTracesProofs` repeat one pattern (the mover's
   shape, the others unchanged); a lemma for it would shorten them.
