--------------------------- MODULE DecisionTraces ---------------------------
(***************************************************************************)
(* The decision-trace service: concurrent HTTP calls that create a trace   *)
(* (submit_trace), apply a control command to it (submit_control) and read *)
(* it (read_trace), each in a worker thread with its own session, over one *)
(* PostgreSQL database.                                                    *)
(*                                                                         *)
(* One action is one SQL statement or commit of one call, so any two calls *)
(* interleave between statements.  A call can lose its connection at any   *)
(* point (Abort), also just after the commit took effect (CommitLost); a   *)
(* retry is another call with the same body.  A trace_id is the identity   *)
(* of the call that created it, an event id a call and a counter: both are *)
(* fresh by construction, as uuid4 values are.                             *)
(*                                                                         *)
(* Isolation is the server's default level: no code in app/ pins it.  In   *)
(* READ COMMITTED a statement sees what is committed when it starts, in    *)
(* REPEATABLE READ what was committed at its transaction's first one.      *)
(***************************************************************************)
EXTENDS ControlKernel

CONSTANTS Creator, Controller, Reader,    \* the calls, by the route they use
          CaseId, Key, Reason,            \* client-chosen values
          Outcomes,                       \* what their submissions evaluate to
          Commands, Dispositions,         \* what their control calls ask for
          Isolation                       \* the server's transaction isolation

Request == Creator \cup Controller \cup Reader

ASSUME RequestAssumption ==
  /\ Creator \cap Controller = {} /\ Creator \cap Reader = {} /\ Controller \cap Reader = {}
  /\ NULL \notin Request \cup Key \cup Dispositions
ASSUME ChoiceAssumption ==
  /\ Outcomes \subseteq Outcome /\ Commands \subseteq ControlCommand
  /\ Isolation \in {"READ COMMITTED", "REPEATABLE READ"}

VARIABLES cases,      \* committed case and decision snapshots, one row per trace
          events,     \* committed audit-event rows
          rowLock,    \* rowLock[t]: the call that holds t's case row FOR UPDATE
          pc,         \* pc[r]: the next statement of call r
          body,       \* body[r]: the request body
          loaded,     \* loaded[r]: the event rows call r has read
          draft,      \* draft[r]: the rows r has yet to commit, and the answer it will give
          answer      \* answer[r]: the HTTP response

database == <<cases, events>>
vars == <<cases, events, rowLock, pc, body, loaded, draft, answer>>

-----------------------------------------------------------------------------
(* Rows, bodies, answers. *)

CreateBody == [case_id : CaseId, outcome : Outcomes]
ReadBody == [trace_id : Creator]
ControlBody ==
  [trace_id        : Creator,
   command         : Commands,
   reason          : Reason,
   disposition     : Dispositions \cup {NULL},
   idempotency_key : Key \cup {NULL}]

\* The schema's model validator: a disposition exactly with record_demo_review.
ValidControl(b) == b.command = "record_demo_review" <=> b.disposition # NULL

CommandFingerprint(b) == <<b.trace_id, b.command, b.reason, b.disposition>>

\* One row of temporary_audit_events: the columns the kernel reads, and the rest.
StoredEvent(t, e, key, fingerprint) ==
  [trace_id |-> t, event |-> e, idempotency_key |-> key, command_fingerprint |-> fingerprint]

EventIds == {<<r, n>> : r \in Request, n \in 1..3}
CaseRow == [trace_id : Creator, case_id : CaseId, outcome : Outcomes]
EventRow ==
  [trace_id            : Creator,
   event               : [event_id          : EventIds,
                          sequence_number   : Nat \ {0},
                          previous_event_id : EventIds \cup {NULL},
                          action            : ControlAction \cup {SystemAction[n] : n \in 1..3},
                          prior_state       : ControlState \cup {NULL},
                          target_event_id   : EventIds \cup {NULL}],
   idempotency_key     : Key \cup {NULL},
   command_fingerprint : (Creator \X Commands \X Reason \X (Dispositions \cup {NULL})) \cup {NULL}]

KernelRows(rows) == {e.event : e \in rows}
TraceRows(t) == {e \in events : e.trace_id = t}
OutcomeOf(t) == (CHOOSE c \in cases : c.trace_id = t).outcome
Stored(t) == \E c \in cases : c.trace_id = t

NoDraft == [cases |-> {}, events |-> {}, answer |-> NULL]
View(rows) == [kind |-> "view", rows |-> rows]
Refusal(kind) == [kind |-> kind, rows |-> {}]

AnswerKind == {"view", "case_exists", "not_found", "invalid", "illegal", "key_conflict",
               "integrity_error", "connection_error"}
Answer == [kind : AnswerKind, rows : SUBSET EventRow]

ASSUME NullIsNoValue == NULL \notin CreateBody \cup ControlBody \cup ReadBody \cup Answer

\* Mutant: the row lock outlives the transaction.
FinishKeepsLock(r, a) ==
  /\ pc' = [pc EXCEPT ![r] = "done"]
  /\ answer' = [answer EXCEPT ![r] = a]
  /\ loaded' = [loaded EXCEPT ![r] = {}]
  /\ draft' = [draft EXCEPT ![r] = NoDraft]
  /\ UNCHANGED <<rowLock, body>>

\* The response goes out and the session closes: nothing of the call is left in
\* the database but what it committed, and its locks are gone.
Finish(r, a) ==
  /\ pc' = [pc EXCEPT ![r] = "done"]
  /\ answer' = [answer EXCEPT ![r] = a]
  /\ loaded' = [loaded EXCEPT ![r] = {}]
  /\ draft' = [draft EXCEPT ![r] = NoDraft]
  /\ rowLock' = [t \in Creator |-> IF rowLock[t] = r THEN NULL ELSE rowLock[t]]
  /\ UNCHANGED body

Goto(r, label) == pc' = [pc EXCEPT ![r] = label]

\* Mutant: every statement works on what the call read first.
VisibleFirstRead(r, t) == loaded[r]

\* The rows of trace t that a statement of call r sees when its transaction
\* already ran one, which left its snapshot in loaded[r].
Visible(r, t) == IF Isolation = "READ COMMITTED" THEN TraceRows(t) ELSE loaded[r]

\* What the first statement leaves in loaded[r]: a snapshot where one is kept.
Snapshot(t) == IF Isolation = "READ COMMITTED" THEN {} ELSE TraceRows(t)

-----------------------------------------------------------------------------
(* POST /api/temporary/decision-traces: submit_trace. *)

\* The body is validated, normalized and evaluated before the transaction.
ArriveCreate(r) ==
  /\ pc[r] = "idle"
  /\ \E b \in CreateBody : body' = [body EXCEPT ![r] = b]
  /\ Goto(r, "exists")
  /\ UNCHANGED <<database, rowLock, loaded, draft, answer>>

CaseIdExists(r) ==
  /\ pc[r] = "exists"
  /\ IF \E c \in cases : c.case_id = body[r].case_id
     THEN Finish(r, Refusal("case_exists"))
     ELSE /\ Goto(r, "insert_trace")
          /\ UNCHANGED <<rowLock, body, loaded, draft, answer>>
  /\ UNCHANGED database

NewCase(r) == [trace_id |-> r, case_id |-> body[r].case_id, outcome |-> body[r].outcome]
NewRows(r) ==
  {StoredEvent(r, e, NULL, NULL) : e \in SystemEvents(<<<<r, 1>>, <<r, 2>>, <<r, 3>>>>)}

\* Mutant: the unique constraint on case_id is missing.
CaseIdTakenNever(id, rows) == FALSE

CaseIdTaken(id, rows) == \E c \in rows : c.case_id = id

\* Mutant: a case_id that is only about to be stored counts as a duplicate.
InsertTraceNoWait(r) ==
  /\ pc[r] = "insert_trace"
  /\ IF \/ CaseIdTaken(body[r].case_id, cases)
        \/ \E q \in Creator \ {r} : CaseIdTaken(body[r].case_id, draft[q].cases)
     THEN Finish(r, Refusal("case_exists"))
     ELSE /\ Goto(r, "commit")
          /\ draft' = [draft EXCEPT ![r] = [cases  |-> {NewCase(r)},
                                            events |-> NewRows(r),
                                            answer |-> View(NewRows(r))]]
          /\ UNCHANGED <<rowLock, body, loaded, answer>>
  /\ UNCHANGED database

\* The flush waits while another transaction has the same case_id uncommitted.
InsertTrace(r) ==
  /\ pc[r] = "insert_trace"
  /\ \A q \in Creator \ {r} : ~ CaseIdTaken(body[r].case_id, draft[q].cases)
  /\ IF CaseIdTaken(body[r].case_id, cases)
     THEN Finish(r, Refusal("case_exists"))
     ELSE /\ Goto(r, "commit")
          /\ draft' = [draft EXCEPT ![r] = [cases  |-> {NewCase(r)},
                                            events |-> NewRows(r),
                                            answer |-> View(NewRows(r))]]
          /\ UNCHANGED <<rowLock, body, loaded, answer>>
  /\ UNCHANGED database

-----------------------------------------------------------------------------
(* POST /api/temporary/decision-traces/{trace_id}/controls: submit_control. *)

ArriveControl(r) ==
  /\ pc[r] = "idle"
  /\ \E b \in ControlBody :
       /\ body' = [body EXCEPT ![r] = b]
       /\ IF ValidControl(b)
          THEN Goto(r, "begin") /\ UNCHANGED answer
          ELSE Goto(r, "done") /\ answer' = [answer EXCEPT ![r] = Refusal("invalid")]
  /\ UNCHANGED <<database, rowLock, loaded, draft>>

\* SELECT ... FOR UPDATE starts: it finds no committed case, or goes for its lock.
BeginControl(r) ==
  /\ pc[r] = "begin"
  /\ IF ~ Stored(body[r].trace_id)
     THEN Finish(r, Refusal("not_found"))
     ELSE /\ Goto(r, "lock")
          /\ loaded' = [loaded EXCEPT ![r] = Snapshot(body[r].trace_id)]
          /\ UNCHANGED <<rowLock, body, draft, answer>>
  /\ UNCHANGED database

\* Mutant: the trace is read without FOR UPDATE.
LockFreeAlways(t) == TRUE

LockFree(t) == rowLock[t] = NULL

LockTrace(r) ==
  /\ pc[r] = "lock"
  /\ LockFree(body[r].trace_id)
  /\ rowLock' = [rowLock EXCEPT ![body[r].trace_id] = r]
  /\ Goto(r, "load")
  /\ UNCHANGED <<database, body, loaded, draft, answer>>

LoadEvents(r) ==
  /\ pc[r] = "load"
  /\ loaded' = [loaded EXCEPT ![r] = Visible(r, body[r].trace_id)]
  /\ Goto(r, "receipt")
  /\ UNCHANGED <<database, rowLock, body, draft, answer>>

Receipts(b, rows) ==
  {e \in rows : b.idempotency_key # NULL /\ e.idempotency_key = b.idempotency_key}

\* Mutant: an idempotent answer shows the trace as it is now.
ReplayedRowsAll(rows, receipt) == rows

ReplayedRows(rows, receipt) ==
  {e \in rows : e.event.sequence_number <= receipt.event.sequence_number}

\* find_control_receipt finds the key with the same command: nothing is appended.
ReplayReceipt(r) ==
  /\ pc[r] = "receipt"
  /\ \E receipt \in Receipts(body[r], Visible(r, body[r].trace_id)) :
       /\ receipt.command_fingerprint = CommandFingerprint(body[r])
       /\ draft' = [draft EXCEPT ![r].answer = View(ReplayedRows(loaded[r], receipt))]
  /\ Goto(r, "commit")
  /\ UNCHANGED <<database, rowLock, body, loaded, answer>>

\* Mutant: any use of a stored key is a conflict.
RefuseReusedKeyAlways(r) ==
  /\ pc[r] = "receipt"
  /\ Receipts(body[r], Visible(r, body[r].trace_id)) # {}
  /\ Finish(r, Refusal("key_conflict"))
  /\ UNCHANGED database

\* The key was used for another command of this trace.
RefuseReusedKey(r) ==
  /\ pc[r] = "receipt"
  /\ \E receipt \in Receipts(body[r], Visible(r, body[r].trace_id)) :
       receipt.command_fingerprint # CommandFingerprint(body[r])
  /\ Finish(r, Refusal("key_conflict"))
  /\ UNCHANGED database

LoadedProjection(r) ==
  ReduceControlState(OutcomeOf(body[r].trace_id), KernelRows(loaded[r]))

\* Mutant: a refused attempt is kept in the audit trail.
RefuseIllegalRecorded(r) ==
  /\ pc[r] = "receipt"
  /\ Receipts(body[r], Visible(r, body[r].trace_id)) = {}
  /\ ~ LegalCommand(LoadedProjection(r), body[r].command)
  /\ Finish(r, Refusal("illegal"))
  /\ LET rows    == KernelRows(loaded[r])
         refused == [action |-> "CONTROL_REFUSED", prior_state |-> NULL, target_event_id |-> NULL]
     IN  events' = events \cup {StoredEvent(body[r].trace_id, ControlEvent(<<r, 1>>, rows, refused),
                                            body[r].idempotency_key, NULL)}
  /\ UNCHANGED cases

\* Mutant: the guard is asked before the key is looked up.
RefuseIllegalFirst(r) ==
  /\ pc[r] = "receipt"
  /\ ~ LegalCommand(LoadedProjection(r), body[r].command)
  /\ Finish(r, Refusal("illegal"))
  /\ UNCHANGED database

\* No receipt, and the guard refuses the command; the key stays unused.
RefuseIllegal(r) ==
  /\ pc[r] = "receipt"
  /\ Receipts(body[r], Visible(r, body[r].trace_id)) = {}
  /\ ~ LegalCommand(LoadedProjection(r), body[r].command)
  /\ Finish(r, Refusal("illegal"))
  /\ UNCHANGED database

\* The row of the command of call r; one without a key keeps no fingerprint.
PlannedRow(r) ==
  LET b       == body[r]
      planned == PlanControlCommand(LoadedProjection(r), b.command)
  IN  StoredEvent(b.trace_id, ControlEvent(<<r, 1>>, KernelRows(loaded[r]), planned),
                  b.idempotency_key,
                  IF b.idempotency_key = NULL THEN NULL ELSE CommandFingerprint(b))

\* Mutant: nothing stops a second pause.
PlanEventRepauses(r) ==
  /\ pc[r] = "receipt"
  /\ Receipts(body[r], Visible(r, body[r].trace_id)) = {}
  /\ body[r].command = "pause" \/ LegalCommand(LoadedProjection(r), body[r].command)
  /\ draft' = [draft EXCEPT ![r] = [cases  |-> {},
                                    events |-> {PlannedRow(r)},
                                    answer |-> View(loaded[r] \cup {PlannedRow(r)})]]
  /\ Goto(r, "insert_event")
  /\ UNCHANGED <<database, rowLock, body, loaded, answer>>

\* No receipt, and the guard plans the next event.
PlanEvent(r) ==
  /\ pc[r] = "receipt"
  /\ Receipts(body[r], Visible(r, body[r].trace_id)) = {}
  /\ LegalCommand(LoadedProjection(r), body[r].command)
  /\ draft' = [draft EXCEPT ![r] = [cases  |-> {},
                                    events |-> {PlannedRow(r)},
                                    answer |-> View(loaded[r] \cup {PlannedRow(r)})]]
  /\ Goto(r, "insert_event")
  /\ UNCHANGED <<database, rowLock, body, loaded, answer>>

\* Mutant: the unique constraint on (trace_id, sequence_number) is missing.
SequenceTakenNever(row, rows) == FALSE

SequenceTaken(row, rows) ==
  \E e \in rows : /\ e.trace_id = row.trace_id
                  /\ e.event.sequence_number = row.event.sequence_number
KeyTaken(row, rows) ==
  \E e \in rows : /\ e.trace_id = row.trace_id
                  /\ row.idempotency_key # NULL
                  /\ e.idempotency_key = row.idempotency_key

Uncommitted(r) == UNION {draft[q].events : q \in {c \in Request \ {r} : pc[c] = "commit"}}

\* The flush passes both unique constraints of temporary_audit_events; it waits
\* while another transaction has a conflicting row uncommitted.
InsertEvent(r) ==
  /\ pc[r] = "insert_event"
  /\ \A row \in draft[r].events : /\ ~ SequenceTaken(row, events \cup Uncommitted(r))
                                  /\ ~ KeyTaken(row, events \cup Uncommitted(r))
  /\ Goto(r, "commit")
  /\ UNCHANGED <<database, rowLock, body, loaded, draft, answer>>

\* IntegrityError on the sequence constraint: not a key conflict, so re-raised.
\* Which of two violated constraints the server reports is its own choice.
InsertHitsSequence(r) ==
  /\ pc[r] = "insert_event"
  /\ \E row \in draft[r].events : SequenceTaken(row, events)
  /\ Finish(r, Refusal("integrity_error"))
  /\ UNCHANGED database

\* IntegrityError on the key index: rolled back, then looked up afresh.
InsertHitsKey(r) ==
  /\ pc[r] = "insert_event"
  /\ \E row \in draft[r].events : KeyTaken(row, events)
  /\ Goto(r, "resolve")
  /\ loaded' = [loaded EXCEPT ![r] = {}]
  /\ draft' = [draft EXCEPT ![r] = NoDraft]
  /\ rowLock' = [rowLock EXCEPT ![body[r].trace_id] = NULL]
  /\ UNCHANGED <<database, body, answer>>

\* Mutant: the lookup after a lost race does not compare the commands.
ResolveConflictAnyCommand(r) ==
  /\ pc[r] = "resolve"
  /\ LET same == Receipts(body[r], TraceRows(body[r].trace_id))
     IN  Finish(r, IF same = {} THEN Refusal("key_conflict")
                   ELSE View(ReplayedRows(TraceRows(body[r].trace_id),
                                          CHOOSE e \in same : TRUE)))
  /\ UNCHANGED database

\* Mutant: the lookup replays the rows of the transaction that was rolled back.
ResolveConflictRolledBack(r) ==
  /\ pc[r] = "resolve"
  /\ LET same == {e \in Receipts(body[r], TraceRows(body[r].trace_id)) :
                    e.command_fingerprint = CommandFingerprint(body[r])}
     IN  Finish(r, IF same = {} THEN Refusal("key_conflict")
                   ELSE View(ReplayedRows(loaded[r], CHOOSE e \in same : TRUE)))
  /\ UNCHANGED database

\* _resolve_idempotency_conflict, in a transaction and a snapshot of its own.
\* Its second statement only adds rows the replayed prefix leaves out.
ResolveConflict(r) ==
  /\ pc[r] = "resolve"
  /\ LET same == {e \in Receipts(body[r], TraceRows(body[r].trace_id)) :
                    e.command_fingerprint = CommandFingerprint(body[r])}
     IN  Finish(r, IF same = {} THEN Refusal("key_conflict")
                   ELSE View(ReplayedRows(TraceRows(body[r].trace_id),
                                          CHOOSE e \in same : TRUE)))
  /\ UNCHANGED database

-----------------------------------------------------------------------------
(* GET /api/temporary/decision-traces/{trace_id}: read_trace. *)

ArriveRead(r) ==
  /\ pc[r] = "idle"
  /\ \E b \in ReadBody : body' = [body EXCEPT ![r] = b]
  /\ Goto(r, "read_case")
  /\ UNCHANGED <<database, rowLock, loaded, draft, answer>>

ReadCase(r) ==
  /\ pc[r] = "read_case"
  /\ IF ~ Stored(body[r].trace_id)
     THEN Finish(r, Refusal("not_found"))
     ELSE /\ Goto(r, "read_events")
          /\ loaded' = [loaded EXCEPT ![r] = Snapshot(body[r].trace_id)]
          /\ UNCHANGED <<rowLock, body, draft, answer>>
  /\ UNCHANGED database

ReadEvents(r) ==
  /\ pc[r] = "read_events"
  /\ Finish(r, View(Visible(r, body[r].trace_id)))
  /\ UNCHANGED database

-----------------------------------------------------------------------------
(* The end of a transaction, and its failures. *)

\* The answer was built before the commit and is given only after it.
Commit(r) ==
  /\ pc[r] = "commit"
  /\ cases' = cases \cup draft[r].cases
  /\ events' = events \cup draft[r].events
  /\ Finish(r, draft[r].answer)

\* Mutant: the connection error escapes, and the call ends without an answer.
AbortUnanswered(r) ==
  /\ pc[r] \notin {"idle", "done"}
  /\ Finish(r, NULL)
  /\ UNCHANGED database

\* The connection is lost in mid-transaction: rolled back, answered 500.
Abort(r) ==
  /\ pc[r] \notin {"idle", "done"}
  /\ Finish(r, Refusal("connection_error"))
  /\ UNCHANGED database

\* The commit takes effect but the service never hears so: answered 500.
CommitLost(r) ==
  /\ pc[r] = "commit"
  /\ cases' = cases \cup draft[r].cases
  /\ events' = events \cup draft[r].events
  /\ Finish(r, Refusal("connection_error"))

-----------------------------------------------------------------------------

Init ==
  /\ cases = {} /\ events = {}
  /\ rowLock = [t \in Creator |-> NULL]
  /\ pc = [r \in Request |-> "idle"]
  /\ body = [r \in Request |-> NULL]
  /\ loaded = [r \in Request |-> {}]
  /\ draft = [r \in Request |-> NoDraft]
  /\ answer = [r \in Request |-> NULL]

CreateStep(r)  == CaseIdExists(r) \/ InsertTrace(r) \/ Commit(r)
ControlStep(r) == \/ BeginControl(r) \/ LockTrace(r) \/ LoadEvents(r)
                  \/ ReplayReceipt(r) \/ RefuseReusedKey(r) \/ RefuseIllegal(r) \/ PlanEvent(r)
                  \/ InsertEvent(r) \/ InsertHitsSequence(r) \/ InsertHitsKey(r)
                  \/ ResolveConflict(r) \/ Commit(r)
ReadStep(r)    == ReadCase(r) \/ ReadEvents(r)

AllAnswered == (\A r \in Request : pc[r] = "done") /\ UNCHANGED vars

Next ==
  \/ \E r \in Creator    : ArriveCreate(r) \/ CreateStep(r)
  \/ \E r \in Controller : ArriveControl(r) \/ ControlStep(r)
  \/ \E r \in Reader     : ArriveRead(r) \/ ReadStep(r)
  \/ \E r \in Request    : Abort(r) \/ CommitLost(r)
  \/ AllAnswered

Spec == Init /\ [][Next]_vars

\* A call that has been received runs on in its thread; clients need not call.
Fairness ==
  /\ \A r \in Creator    : WF_vars(CreateStep(r))
  /\ \A r \in Controller : WF_vars(ControlStep(r))
  /\ \A r \in Reader     : WF_vars(ReadStep(r))

FairSpec == Spec /\ Fairness

-----------------------------------------------------------------------------
(* What the service guarantees, whatever the calls and their interleaving. *)

Label == {"idle", "exists", "insert_trace", "begin", "lock", "load", "receipt",
          "insert_event", "resolve", "read_case", "read_events", "commit", "done"}

\* The rows of trace t numbered n or less.
RowsUpTo(t, n) == {e \in TraceRows(t) : e.event.sequence_number <= n}
ProjectionOf(t, rows) == ReduceControlState(OutcomeOf(t), KernelRows(rows))
LastRow(rows) == CHOOSE e \in rows : \A f \in rows :
                   f.event.sequence_number <= e.event.sequence_number
Succeeded(r) == answer[r] # NULL /\ answer[r].kind = "view"
Running == {r \in Request : pc[r] \notin {"idle", "done"}}
Refused(r, kind) == answer[r] # NULL /\ answer[r].kind = kind
TraceOf(r) == IF body[r] = NULL \/ r \in Creator THEN r ELSE body[r].trace_id

\* Tables, locks and calls hold values of their columns' and variables' types.
TypeOK ==
  /\ cases \subseteq CaseRow /\ events \subseteq EventRow
  /\ rowLock \in [Creator -> Controller \cup {NULL}]
  /\ pc \in [Request -> Label]
  /\ body \in [Request -> CreateBody \cup ControlBody \cup ReadBody \cup {NULL}]
  /\ answer \in [Request -> Answer \cup {NULL}]
  /\ \A r \in Request : answer[r] # NULL <=> pc[r] = "done"

\* A trace is stored whole or not at all: no event without its case, no case
\* without its three system events, and never two cases with one case_id.
TraceWhole ==
  /\ \A e \in events : Stored(e.trace_id)
  /\ \A c \in cases : \A n \in 1..3 :
       \E e \in TraceRows(c.trace_id) : /\ e.event.sequence_number = n
                                       /\ e.event.action = SystemAction[n]
  /\ \A c, d \in cases : c.case_id = d.case_id => c = d

\* Whatever raced to write them, the rows of a stored trace are one gapless
\* chain that replays without error, with at most one control left to reverse.
StoredHistoriesLegal ==
  \A c \in cases :
    LET rows == KernelRows(TraceRows(c.trace_id))
        last == MaxSequence(rows)
    IN  /\ {e.sequence_number : e \in rows} = 1..last
        /\ Cardinality(rows) = last
        /\ \A n \in 2..last :
             RowAt(rows, n).previous_event_id = RowAt(rows, n - 1).event_id
        /\ \A n \in 0..last : /\ Replay(c.outcome, rows)[n] # Corrupt
                              /\ Len(Replay(c.outcome, rows)[n].active) <= 1

\* An idempotency key acts at most once on a trace, and every call that succeeds
\* with it, first or retried, at once or much later, is shown the same rows.
KeyActsOnce ==
  /\ \A e, f \in events :
       /\ e.trace_id = f.trace_id
       /\ e.idempotency_key = f.idempotency_key /\ e.idempotency_key # NULL
       => e = f
  /\ \A q, r \in Controller :
       /\ Succeeded(q) /\ Succeeded(r)
       /\ body[q].trace_id = body[r].trace_id
       /\ body[q].idempotency_key = body[r].idempotency_key
       /\ body[q].idempotency_key # NULL
       => answer[q].rows = answer[r].rows

\* The rows shown by any successful answer are committed, though the answer was
\* built before the commit, and are the trace's history up to some row.
ViewsAreCommittedPrefixes ==
  \A r \in Request : Succeeded(r) =>
    LET rows == answer[r].rows
    IN  /\ rows # {}
        /\ rows = {e \in TraceRows(TraceOf(r)) :
                     e.event.sequence_number <= LastRow(rows).event.sequence_number}

\* A control call that succeeds is shown, as the last row, the effect of exactly
\* its own intent: recorded by itself, or by a call with the same key and body.
ViewShowsOwnCommand ==
  \A r \in Controller : Succeeded(r) =>
    \E q \in Controller :
      /\ LastRow(answer[r].rows).event.event_id = <<q, 1>>
      /\ LastRow(answer[r].rows).event.action = PlannedAction[body[r].command]
      /\ body[q] = body[r]
      /\ q = r \/ body[r].idempotency_key # NULL

\* A call that is refused, for whatever reason but a lost connection, has left
\* no row; so an illegal attempt does not use up its idempotency key either.
RefusedLeavesNothing ==
  \A r \in Request :
    pc[r] = "done" /\ ~ Succeeded(r) /\ ~ Refused(r, "connection_error") =>
      /\ \A c \in cases : c.trace_id # r
      /\ \A e \in events : e.event.event_id[1] # r

\* Between loading the events and inserting the next one, what a call has loaded
\* is what is stored: the row lock, taken first, makes the check current.
LoadedIsCurrent ==
  \A r \in Controller : pc[r] \in {"receipt", "insert_event"} =>
    loaded[r] = TraceRows(body[r].trace_id)

\* In READ COMMITTED the unique constraints of the event table never fire: the
\* lock alone serializes the commands of a trace, the recovery stays unused.
ConstraintsNeverFire ==
  \A r \in Controller : pc[r] # "resolve" /\ ~ Refused(r, "integrity_error")

\* A refusal has its reason: a duplicate is only reported when another call has
\* stored the case_id, a key conflict when the key did act for another command.
RefusalsJustified ==
  /\ \A r \in Creator : Refused(r, "case_exists") =>
       \E c \in cases : c.case_id = body[r].case_id /\ c.trace_id # r
  /\ \A r \in Controller : Refused(r, "key_conflict") =>
       \E q \in Controller : \E e \in TraceRows(body[r].trace_id) :
         /\ e.event.event_id = <<q, 1>>
         /\ body[q].idempotency_key = body[r].idempotency_key
         /\ body[q] # body[r]

\* In READ COMMITTED a command is refused as illegal only while it is: in the state
\* that its trace has at the moment of the refusal, and with a key that has not
\* acted.  So no call is turned down for what another was about to undo, and the
\* retry of a command that acted is never told that it may not.
IllegalRefusalsTrue ==
  [][\A r \in Controller : r \in Running /\ Refused(r, "illegal")' =>
       LET rows == TraceRows(body[r].trace_id)
       IN  /\ ~ LegalCommand(ProjectionOf(body[r].trace_id, rows), body[r].command)
           /\ Receipts(body[r], rows) = {}
    ]_vars

\* Rows appear only in these two ways: a trace with its first three rows, or one
\* row of the call that commits, for its command, which is legal in the state
\* the trace has at that moment.
EffectsAreAtomic ==
  [][events' # events =>
       \/ \E r \in Creator \cap Running :
            /\ ~ Stored(r) /\ cases' = cases \cup {NewCase(r)}
            /\ events' = events \cup NewRows(r)
       \/ \E r \in Controller \cap Running :
            LET t == body[r].trace_id
            IN  /\ LegalCommand(ProjectionOf(t, TraceRows(t)), body[r].command)
                /\ UNCHANGED cases
                /\ \E e \in events' \ events :
                     /\ events' = events \cup {e}
                     /\ e.trace_id = t
                     /\ e.event.event_id = <<r, 1>>
                     /\ e.event.action = PlannedAction[body[r].command]
                     /\ e.event.sequence_number = MaxSequence(KernelRows(TraceRows(t))) + 1
    ]_vars

\* Every call that was received is answered: no lock or uncommitted key is held
\* for ever, and nobody waits on a call that is gone.
EveryCallAnswered == \A r \in Request : pc[r] # "idle" ~> pc[r] = "done"

AnsweredBefore(q, r) == Succeeded(q) /\ pc[r] = "idle"
ShowsAllOf(q, r) ==
  Succeeded(q) /\ Succeeded(r) /\ TraceOf(r) = TraceOf(q) =>
    answer[q].rows \subseteq answer[r].rows

\* A read that arrives after an answer was given shows all that answer showed.
ReadsSeeAnsweredViews ==
  \A q \in Creator \cup Controller, r \in Reader :
    [](AnsweredBefore(q, r) => []ShowsAllOf(q, r))
=============================================================================
