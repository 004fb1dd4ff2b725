------------------------ MODULE DecisionTracesProofs ------------------------
(***************************************************************************)
(* DecisionTraces for every set of calls, case ids, keys and commands, and *)
(* for both isolation levels: the inductive invariant Inv and the safety   *)
(* properties that follow from it.                                         *)
(*                                                                         *)
(* The argument: a call works on a prefix of the rows its trace has, which *)
(* nobody edits.  The row it plans is numbered right after that prefix, so *)
(* when the unique constraint lets it in, the prefix is the whole history; *)
(* hence every commit extends a history that its command was checked       *)
(* against, at either isolation level.  The row lock makes the prefix the  *)
(* whole history earlier, from the moment it is loaded, at READ COMMITTED. *)
(*                                                                         *)
(* The last part proves the refinement of TraceRefinement: counted rows    *)
(* are a ledger entry, a new row is one more effect of it, what the guard  *)
(* allows is what the ledger allows, and so the step that answers a call   *)
(* is a step of the ledger and every other one a stutter.                  *)
(***************************************************************************)
EXTENDS TraceRefinement, ControlKernelProofs, FiniteSetTheorems, SequenceTheorems

-----------------------------------------------------------------------------
(* The inductive invariant. *)

HistoryLength(t) == MaxSequence(KernelRows(TraceRows(t)))

\* A trace and a case_id have one case, as its creator sent it.
CasesOK ==
  /\ \A c, d \in cases : c.trace_id = d.trace_id \/ c.case_id = d.case_id => c = d
  /\ \A c \in cases : c = NewCase(c.trace_id)

\* The call may have had an effect.
MayHaveActed(r) == pc[r] = "done" /\ answer[r].kind \in {"view", "connection_error"}

\* Row e is the effect of control call q.
OwnedBy(e, q) ==
  /\ MayHaveActed(q)
  /\ e.event.event_id = <<q, 1>>
  /\ e.event.action = PlannedAction[body[q].command]
  /\ e.trace_id = body[q].trace_id
  /\ e.idempotency_key = body[q].idempotency_key
  /\ e.command_fingerprint = IF body[q].idempotency_key = NULL THEN NULL
                             ELSE CommandFingerprint(body[q])

\* Rows belong to a stored trace, clash with no other row, and have an origin.
RowsOK ==
  /\ \A e \in events : Stored(e.trace_id)
  /\ \A e, f \in events :
       /\ e.trace_id = f.trace_id
       /\ \/ e.event.sequence_number = f.event.sequence_number
          \/ e.idempotency_key = f.idempotency_key /\ e.idempotency_key # NULL
       => e = f
  /\ \A e \in events : e \in NewRows(e.trace_id) \/ \E q \in Controller : OwnedBy(e, q)

\* The rows of each stored trace are a legal history that starts with its own.
HistoriesOK ==
  \A t \in Creator : Stored(t) =>
    /\ HistoryLength(t) \in Nat
    /\ LegalHistory(OutcomeOf(t), KernelRows(TraceRows(t)), HistoryLength(t))
    /\ NewRows(t) \subseteq events

IsPrefix(rows, t) == \E k \in 3..HistoryLength(t) : rows = RowsUpTo(t, k)

CreatedDraft(r) == [cases |-> {NewCase(r)}, events |-> NewRows(r), answer |-> View(NewRows(r))]
PlannedDraft(r) == [cases  |-> {},
                    events |-> {PlannedRow(r)},
                    answer |-> View(loaded[r] \cup {PlannedRow(r)})]

\* A creator stores nothing before its commit, and a case nobody else has then.
CreatorOK(r) ==
  /\ pc[r] \in {"idle", "exists", "insert_trace", "commit", "done"}
  /\ pc[r] # "idle" => body[r] \in CreateBody
  /\ pc[r] = "commit" =>
       /\ draft[r] = CreatedDraft(r)
       /\ ~ CaseIdTaken(body[r].case_id, cases)
       /\ \A q \in Creator \ {r} : pc[q] = "commit" => body[q].case_id # body[r].case_id
  /\ Stored(r) => MayHaveActed(r)
  /\ Succeeded(r) => Stored(r) /\ answer[r].rows = NewRows(r)
  /\ Refused(r, "case_exists") =>
       \E c \in cases : c.case_id = body[r].case_id /\ c.trace_id # r

\* The rows are the history up to the effect of this command: made by r itself,
\* or by a call with the same key and body.
ShownTo(r, rows) ==
  \E q \in Controller : \E e \in TraceRows(body[r].trace_id) :
    /\ OwnedBy(e, q) /\ body[q] = body[r]
    /\ q = r \/ body[r].idempotency_key # NULL
    /\ rows = RowsUpTo(body[r].trace_id, e.event.sequence_number)

\* The answer to a retried command waits for its commit.
Replays(r) ==
  /\ draft[r] = [cases |-> {}, events |-> {}, answer |-> View(draft[r].answer.rows)]
  /\ ShownTo(r, draft[r].answer.rows)

\* A new row waits to be inserted or committed; the guard let it through.
Plans(r) ==
  /\ draft[r] = PlannedDraft(r)
  /\ LegalCommand(LoadedProjection(r), body[r].command)
  /\ Receipts(body[r], loaded[r]) = {}

Apart(row, rows) == ~ SequenceTaken(row, rows) /\ ~ KeyTaken(row, rows)

\* The row of r clashes with no row that is stored or inserted.
Inserted(r) ==
  /\ Apart(PlannedRow(r), events)
  /\ \A q \in Controller \ {r} : pc[q] = "commit" => Apart(PlannedRow(r), draft[q].events)

\* What a control call has loaded, planned and been told.
ControllerOK(r) ==
  LET t == body[r].trace_id IN
  /\ pc[r] \in {"idle", "begin", "lock", "load", "receipt", "insert_event", "resolve",
                "commit", "done"}
  /\ pc[r] # "idle" => body[r] \in ControlBody
  /\ pc[r] \in {"lock", "load", "receipt", "insert_event", "commit"} => Stored(t)
  /\ pc[r] \in {"load", "receipt", "insert_event", "commit"} => rowLock[t] = r
  /\ pc[r] \in {"lock", "load"} /\ Isolation = "REPEATABLE READ" => IsPrefix(loaded[r], t)
  /\ pc[r] \in {"receipt", "insert_event", "commit"} =>
       /\ IsPrefix(loaded[r], t)
       /\ Isolation = "READ COMMITTED" => loaded[r] = TraceRows(t)
  /\ pc[r] = "insert_event" => Plans(r)
  /\ pc[r] = "commit" => Replays(r) \/ (Plans(r) /\ Inserted(r))
  /\ pc[r] = "resolve" => Receipts(body[r], TraceRows(t)) # {}
  /\ Succeeded(r) => ShownTo(r, answer[r].rows)
  /\ Refused(r, "key_conflict") =>
       \E q \in Controller : \E e \in TraceRows(t) :
         /\ OwnedBy(e, q)
         /\ body[q].idempotency_key = body[r].idempotency_key
         /\ body[q] # body[r]
  /\ Isolation = "READ COMMITTED" => pc[r] # "resolve" /\ ~ Refused(r, "integrity_error")

\* What a read has seen and shown.
ReaderOK(r) ==
  LET t == body[r].trace_id IN
  /\ pc[r] \in {"idle", "read_case", "read_events", "done"}
  /\ pc[r] # "idle" => body[r] \in ReadBody
  /\ pc[r] = "read_events" =>
       Stored(t) /\ (Isolation = "REPEATABLE READ" => IsPrefix(loaded[r], t))
  /\ Succeeded(r) => Stored(t) /\ IsPrefix(answer[r].rows, t)

\* Calls keep their rows to themselves, and none before they have planned them.
CallsShaped ==
  /\ loaded = [r \in Request |-> loaded[r]]
  /\ draft = [r \in Request |-> draft[r]]
  /\ \A r \in Request : pc[r] = "idle" => body[r] = NULL
  /\ \A r \in Request : pc[r] \notin {"insert_event", "commit"} => draft[r] = NoDraft

Inv ==
  /\ TypeOK /\ CallsShaped /\ CasesOK /\ RowsOK /\ HistoriesOK
  /\ \A r \in Creator : CreatorOK(r)
  /\ \A r \in Controller : ControllerOK(r)
  /\ \A r \in Reader : ReaderOK(r)

-----------------------------------------------------------------------------
(* Steps: who moves, and what may happen to the tables. *)

\* A step of call r leaves the other calls alone, and their locks.
Moves(r) ==
  /\ pc[r] # "done"
  /\ pc[r] # "idle" => body'[r] = body[r]
  /\ \A q \in Request \ {r} : /\ pc'[q] = pc[q] /\ body'[q] = body[q] /\ loaded'[q] = loaded[q]
                            /\ draft'[q] = draft[q] /\ answer'[q] = answer[q]
  /\ \A t \in Creator : \/ rowLock'[t] = rowLock[t]
                        \/ rowLock[t] \in {NULL, r} /\ rowLock'[t] \in {NULL, r}

\* A new trace is committed.
Creates(r) ==
  /\ r \in Creator /\ pc[r] = "commit" /\ ~ Stored(r)
  /\ cases' = cases \cup {NewCase(r)}
  /\ events' = events \cup NewRows(r)
  /\ pc'[r] = "done" /\ answer'[r] \in {View(NewRows(r)), Refusal("connection_error")}

\* One row is committed, planned on all the rows its trace has.
Appends(r) ==
  /\ r \in Controller /\ pc[r] = "commit" /\ Plans(r) /\ Inserted(r)
  /\ cases' = cases
  /\ events' = events \cup {PlannedRow(r)}
  /\ pc'[r] = "done"
  /\ answer'[r] \in {View(loaded[r] \cup {PlannedRow(r)}), Refusal("connection_error")}

TableStep(r) == UNCHANGED database \/ Creates(r) \/ Appends(r)

\* The types of the variables, without what they are about.
Typed ==
  /\ rowLock \in [Creator -> Controller \cup {NULL}]
  /\ pc \in [Request -> Label]
  /\ body \in [Request -> CreateBody \cup ControlBody \cup ReadBody \cup {NULL}]
  /\ DOMAIN answer = Request /\ answer = [r \in Request |-> answer[r]]
  /\ loaded = [r \in Request |-> loaded[r]]
  /\ draft = [r \in Request |-> draft[r]]

LEMMA InvTyped == ASSUME Inv PROVE Typed
PROOF
<1>1. answer = [r \in Request |-> answer[r]]
  BY DEF Inv, TypeOK
<1> QED
  BY <1>1 DEF Inv, TypeOK, CallsShaped, Typed

\* The kinds of calls are disjoint, and NULL is none of the values it stands by.
LEMMA Distinct ==
  /\ \A r \in Creator : r \in Request /\ r \notin Controller /\ r \notin Reader
  /\ \A r \in Controller : r \in Request /\ r \notin Creator /\ r \notin Reader
  /\ \A r \in Reader : r \in Request /\ r \notin Creator /\ r \notin Controller
  /\ \A r \in Request : r # NULL
  /\ NULL \notin Key /\ NULL \notin Dispositions
  /\ NULL \notin Answer
  /\ NULL \notin CreateBody /\ NULL \notin ControlBody /\ NULL \notin ReadBody
PROOF
BY RequestAssumption, NullIsNoValue DEF Request

\* The end of a call.
LEMMA FinishEnds ==
  ASSUME Typed, NEW r \in Request, NEW a, Finish(r, a), pc[r] # "done"
  PROVE  /\ Typed' /\ Moves(r) /\ body' = body
         /\ pc'[r] = "done" /\ answer'[r] = a /\ draft'[r] = NoDraft
PROOF
<1>1. /\ pc' = [pc EXCEPT ![r] = "done"]
      /\ answer' = [answer EXCEPT ![r] = a]
      /\ loaded' = [loaded EXCEPT ![r] = {}]
      /\ draft' = [draft EXCEPT ![r] = NoDraft]
      /\ rowLock' = [t \in Creator |-> IF rowLock[t] = r THEN NULL ELSE rowLock[t]]
      /\ body' = body
  BY DEF Finish
<1>2. /\ pc'[r] = "done" /\ answer'[r] = a /\ draft'[r] = NoDraft
      /\ \A q \in Request \ {r} : /\ pc'[q] = pc[q] /\ loaded'[q] = loaded[q]
                                /\ draft'[q] = draft[q] /\ answer'[q] = answer[q]
  BY <1>1 DEF Typed
<1>3. \A t \in Creator : rowLock'[t] = IF rowLock[t] = r THEN NULL ELSE rowLock[t]
  BY <1>1
<1>4. Moves(r)
  BY <1>1, <1>2, <1>3 DEF Moves
<1>5. Typed'
  <2>1. rowLock' \in [Creator -> Controller \cup {NULL}]
    BY <1>1 DEF Typed
  <2>2. pc' \in [Request -> Label]
    BY <1>1 DEF Typed, Label
  <2>3. /\ DOMAIN answer' = Request
        /\ answer' = [q \in Request |-> answer'[q]]
        /\ loaded' = [q \in Request |-> loaded'[q]]
        /\ draft' = [q \in Request |-> draft'[q]]
    BY <1>1 DEF Typed
  <2> QED
    BY <1>1, <2>1, <2>2, <2>3 DEF Typed
<1> QED
  BY <1>1, <1>2, <1>4, <1>5

-----------------------------------------------------------------------------
(* The rows of one trace. *)

\* The rows a trace is created with.
LEMMA NewRowsFacts ==
  ASSUME NEW t \in Creator
  PROVE  /\ NewRows(t) \subseteq EventRow
         /\ \A e \in NewRows(t) : /\ e.trace_id = t /\ e.idempotency_key = NULL
                                  /\ e.event.event_id[1] = t
                                  /\ e.event.sequence_number \in 1..3
         /\ \A n \in 1..3 : \E e \in NewRows(t) : /\ e.event.sequence_number = n
                                                 /\ e.event.action = SystemAction[n]
         /\ \A e, f \in NewRows(t) : e.event.sequence_number = f.event.sequence_number => e = f
         /\ KernelRows(NewRows(t)) = SystemEvents(<<<<t, 1>>, <<t, 2>>, <<t, 3>>>>)
PROOF
<1> DEFINE ids == <<<<t, 1>>, <<t, 2>>, <<t, 3>>>>
           row(n) == [event_id          |-> ids[n],
                      sequence_number   |-> n,
                      previous_event_id |-> IF n = 1 THEN NULL ELSE ids[n - 1],
                      action            |-> SystemAction[n],
                      prior_state       |-> NULL,
                      target_event_id   |-> NULL]
           stored(n) == StoredEvent(t, row(n), NULL, NULL)
<1>1. SystemEvents(ids) = {row(n) : n \in 1..3}
  BY DEF SystemEvents
<1>2. NewRows(t) = {stored(n) : n \in 1..3}
  BY <1>1 DEF NewRows
<1>3. ASSUME NEW n \in 1..3
      PROVE  ids[n] = <<t, n>> /\ (n # 1 => ids[n - 1] = <<t, n - 1>> /\ n - 1 \in 1..3)
  <2>1. n = 1 \/ n = 2 \/ n = 3
    OBVIOUS
  <2> QED
    BY <2>1
<1> HIDE DEF ids
<1>4. ASSUME NEW n \in 1..3 PROVE stored(n) \in EventRow
  <2>1. t \in Request
    BY Distinct
  <2>2. ids[n] \in EventIds /\ (n # 1 => ids[n - 1] \in EventIds)
    BY <1>3, <2>1 DEF EventIds
  <2>3. /\ n \in Nat \ {0}
        /\ SystemAction[n] \in ControlAction \cup {SystemAction[m] : m \in 1..3}
    OBVIOUS
  <2> QED
    BY <2>2, <2>3 DEF StoredEvent, EventRow
<1>5. ASSUME NEW n \in 1..3
      PROVE  /\ stored(n).trace_id = t /\ stored(n).idempotency_key = NULL
             /\ stored(n).event = row(n) /\ stored(n).event.event_id[1] = t
             /\ stored(n).event.sequence_number = n
             /\ stored(n).event.action = SystemAction[n]
  BY <1>3 DEF StoredEvent
<1> HIDE DEF stored, row
<1>6. KernelRows(NewRows(t)) = SystemEvents(ids)
  BY <1>1, <1>2, <1>5 DEF KernelRows
<1> QED
  BY <1>2, <1>4, <1>5, <1>6 DEF ids

LEMMA NewRowNumbered ==
  ASSUME NEW t \in Creator, NEW n \in 1..3
  PROVE  \E e \in NewRows(t) : e.event.sequence_number = n /\ e.event.action = SystemAction[n]
PROOF
BY NewRowsFacts, ZenonT(30)

\* The outcome of a stored trace is its case's.
LEMMA OutcomeKnown ==
  ASSUME Inv, NEW c \in cases
  PROVE  /\ c.trace_id \in Creator /\ Stored(c.trace_id)
         /\ OutcomeOf(c.trace_id) = c.outcome /\ c.outcome \in Outcome
PROOF
<1>1. c.trace_id \in Creator /\ c.outcome \in Outcome
  BY ChoiceAssumption DEF Inv, TypeOK, CaseRow
<1>2. \A d \in cases : d.trace_id = c.trace_id => d = c
  BY DEF Inv, CasesOK
<1>3. (CHOOSE d \in cases : d.trace_id = c.trace_id) = c
  BY <1>2
<1> QED
  BY <1>1, <1>3 DEF Stored, OutcomeOf

\* The rows of a stored trace have the numbers 1 .. N, and each belongs to one.
LEMMA StoredRows ==
  ASSUME Inv, NEW t \in Creator, Stored(t)
  PROVE  /\ HistoryLength(t) \in Nat /\ HistoryLength(t) >= 3
         /\ LegalHistory(OutcomeOf(t), KernelRows(TraceRows(t)), HistoryLength(t))
         /\ OutcomeOf(t) \in Outcome
         /\ \A e \in TraceRows(t) : /\ e \in EventRow /\ e \in events /\ e.trace_id = t
                                    /\ e.event.sequence_number \in 1..HistoryLength(t)
                                    /\ e.event = RowAt(KernelRows(TraceRows(t)),
                                                       e.event.sequence_number)
         /\ \A n \in 1..HistoryLength(t) : \E e \in TraceRows(t) : e.event.sequence_number = n
         /\ \A e, f \in TraceRows(t) : e.event.sequence_number = f.event.sequence_number => e = f
PROOF
<1> DEFINE rows == KernelRows(TraceRows(t))
           N == HistoryLength(t)
<1>1. N \in Nat /\ LegalHistory(OutcomeOf(t), rows, N)
  BY DEF Inv, HistoriesOK
<1>2. OutcomeOf(t) \in Outcome
  BY OutcomeKnown DEF Stored
<1>3. N >= 3 /\ Numbered(rows, N)
  BY <1>1 DEF LegalHistory, RowKinds
<1>4. \A e \in TraceRows(t) : e \in EventRow /\ e \in events /\ e.trace_id = t /\ e.event \in rows
  BY DEF Inv, TypeOK, TraceRows, KernelRows
<1>5. \A n \in 1..N : \E e \in TraceRows(t) : e.event.sequence_number = n
  BY <1>3 DEF Numbered, KernelRows
<1> HIDE DEF rows, N
<1>6. \A e \in TraceRows(t) : e.event.sequence_number \in 1..N
  BY <1>3, <1>4 DEF Numbered
<1>7. \A e \in TraceRows(t) : e.event = RowAt(rows, e.event.sequence_number)
  BY <1>1, <1>3, <1>4, <1>6, NumberedRow
<1>8. \A e, f \in TraceRows(t) : e.event.sequence_number = f.event.sequence_number => e = f
  BY <1>4 DEF Inv, RowsOK
<1> QED
  BY <1>1, <1>2, <1>3, <1>4, <1>5, <1>6, <1>7, <1>8 DEF rows, N

\* So do the first k of them.
LEMMA PrefixRows ==
  ASSUME Inv, NEW t \in Creator, Stored(t), NEW k \in 3..HistoryLength(t)
  PROVE  /\ k \in Nat
         /\ RowsUpTo(t, k) \subseteq TraceRows(t) /\ RowsUpTo(t, k) \subseteq EventRow
         /\ LegalHistory(OutcomeOf(t), KernelRows(RowsUpTo(t, k)), k)
         /\ \A n \in 1..k : RowAt(KernelRows(RowsUpTo(t, k)), n).event_id \in EventIds
         /\ MaxSequence(KernelRows(RowsUpTo(t, k))) = k
         /\ RowsUpTo(t, HistoryLength(t)) = TraceRows(t)
PROOF
<1> DEFINE rows == KernelRows(TraceRows(t))
           part == KernelRows(RowsUpTo(t, k))
           N == HistoryLength(t)
<1>1. /\ N \in Nat /\ LegalHistory(OutcomeOf(t), rows, N)
      /\ \A e \in TraceRows(t) : e \in EventRow /\ e.event.sequence_number \in 1..N
  BY StoredRows
<1>2. RowsUpTo(t, k) \subseteq TraceRows(t)
  BY DEF RowsUpTo
<1>3. part = {e \in rows : e.sequence_number <= k}
  BY DEF KernelRows, RowsUpTo
<1>4. \A e \in part : e.event_id \in EventIds
  BY <1>1, <1>2 DEF KernelRows, EventRow
<1>5. RowsUpTo(t, N) = TraceRows(t)
  BY <1>1 DEF RowsUpTo
<1> HIDE DEF rows, part, N
<1>6. k \in Nat /\ k \in 3..N
  BY DEF N
<1>7. LegalHistory(OutcomeOf(t), part, k)
  BY <1>1, <1>3, <1>6, LegalHistoryCut
<1>8. MaxSequence(part) = k
  BY <1>6, <1>7, HistorySettled
<1>9. \A n \in 1..k : RowAt(part, n) \in part
  BY <1>6, <1>7, NumberedRow DEF LegalHistory
<1> QED
  BY <1>1, <1>2, <1>4, <1>5, <1>6, <1>7, <1>8, <1>9 DEF part, N

\* The row a command plans on what it has loaded: typed, its own, and numbered
\* right after the prefix that is loaded.
LEMMA PlannedRowFacts ==
  ASSUME Inv, NEW r \in Controller, pc[r] \in {"receipt", "insert_event", "commit"},
         LegalCommand(LoadedProjection(r), body[r].command)
  PROVE  LET t   == body[r].trace_id
             row == PlannedRow(r)
         IN  /\ t \in Creator /\ Stored(t)
             /\ row \in EventRow /\ row.trace_id = t
             /\ row.idempotency_key = body[r].idempotency_key
             /\ row.command_fingerprint = IF body[r].idempotency_key = NULL THEN NULL
                                          ELSE CommandFingerprint(body[r])
             /\ row.event.event_id = <<r, 1>>
             /\ row.event.action = PlannedAction[body[r].command]
             /\ row.event = ControlEvent(<<r, 1>>, KernelRows(loaded[r]),
                                         PlanControlCommand(LoadedProjection(r), body[r].command))
             /\ \E k \in 3..HistoryLength(t) : /\ loaded[r] = RowsUpTo(t, k)
                                               /\ row.event.sequence_number = k + 1
PROOF
<1> DEFINE t == body[r].trace_id
           o == OutcomeOf(t)
           rows == KernelRows(loaded[r])
           p == LoadedProjection(r)
           command == body[r].command
           e == ControlEvent(<<r, 1>>, rows, PlanControlCommand(p, command))
           row == PlannedRow(r)
<1>1. body[r] \in ControlBody /\ Stored(t) /\ IsPrefix(loaded[r], t)
  BY DEF Inv, ControllerOK
<1>2. /\ t \in Creator /\ command \in Commands /\ command \in ControlCommand
      /\ body[r].reason \in Reason /\ body[r].disposition \in Dispositions \cup {NULL}
      /\ body[r].idempotency_key \in Key \cup {NULL}
  BY <1>1, ChoiceAssumption DEF ControlBody
<1>3. PICK k \in 3..HistoryLength(t) : loaded[r] = RowsUpTo(t, k)
  BY <1>1 DEF IsPrefix
<1>4. /\ k \in Nat /\ LegalHistory(o, rows, k) /\ o \in Outcome
      /\ \A n \in 1..k : RowAt(rows, n).event_id \in EventIds
  BY <1>1, <1>2, <1>3, PrefixRows, StoredRows
<1>5. p = ReduceControlState(o, rows)
  BY DEF LoadedProjection
<1>6. row = StoredEvent(t, e, body[r].idempotency_key,
                        IF body[r].idempotency_key = NULL THEN NULL
                        ELSE CommandFingerprint(body[r]))
  BY DEF PlannedRow
<1>7. /\ row.trace_id = t /\ row.event = e
      /\ row.idempotency_key = body[r].idempotency_key
      /\ row.command_fingerprint = IF body[r].idempotency_key = NULL THEN NULL
                                   ELSE CommandFingerprint(body[r])
  BY <1>6 DEF StoredEvent
<1>8. e = [event_id          |-> e.event_id,
           sequence_number   |-> e.sequence_number,
           previous_event_id |-> e.previous_event_id,
           action            |-> e.action,
           prior_state       |-> e.prior_state,
           target_event_id   |-> e.target_event_id]
  BY DEF ControlEvent
<1>9. LegalCommand(p, command)
  OBVIOUS
<1> HIDE DEF t, o, rows, p, command, e, row
<1>10. /\ e.event_id = <<r, 1>>
       /\ e.sequence_number = k + 1
       /\ e.previous_event_id = RowAt(rows, k).event_id
       /\ e.action = PlannedAction[command] /\ e.action \in ControlAction
       /\ e.prior_state = BaseControlState(o)
       /\ e.action \in ReversibleAction => e.target_event_id = NULL
       /\ e.action \in ReversingAction => e.target_event_id = RowAt(rows, k).event_id
  BY <1>2, <1>4, <1>5, <1>9, PlannedEvent DEF e
<1>11. e \in [event_id          : EventIds,
              sequence_number   : Nat \ {0},
              previous_event_id : EventIds \cup {NULL},
              action            : ControlAction \cup {SystemAction[n] : n \in 1..3},
              prior_state       : ControlState \cup {NULL},
              target_event_id   : EventIds \cup {NULL}]
  <2>1. <<r, 1>> \in EventIds
    BY Distinct DEF EventIds
  <2>2. k \in 1..k /\ k + 1 \in Nat \ {0}
    BY <1>3, <1>4
  <2>3. RowAt(rows, k).event_id \in EventIds
    BY <1>4, <2>2
  <2>4. e.prior_state \in ControlState
    BY <1>4, <1>10, NotCorrupt DEF ControlState
  <2>5. e.target_event_id \in EventIds \cup {NULL}
    BY <1>10, <2>3 DEF ControlAction
  <2> QED
    BY <1>8, <1>10, <2>1, <2>2, <2>3, <2>4, <2>5
<1>12. row \in EventRow
  <2>1. CommandFingerprint(body[r]) \in
          Creator \X Commands \X Reason \X (Dispositions \cup {NULL})
    BY <1>2 DEF CommandFingerprint, t, command
  <2> QED
    BY <1>2, <1>6, <1>11, <2>1 DEF StoredEvent, EventRow
<1> QED
  BY <1>1, <1>2, <1>3, <1>7, <1>10, <1>12 DEF t, o, rows, p, command, e, row

\* At its commit the prefix is the whole history, and the row continues it: the
\* number after any shorter prefix is taken.
LEMMA AppendsAtEnd ==
  ASSUME Inv, NEW r \in Controller, Appends(r)
  PROVE  LET t   == body[r].trace_id
             row == PlannedRow(r)
             N   == HistoryLength(t)
         IN  /\ loaded[r] = TraceRows(t)
             /\ row.event.sequence_number = N + 1
             /\ row \notin events
             /\ LegalHistory(OutcomeOf(t), KernelRows(TraceRows(t)) \cup {row.event}, N + 1)
PROOF
<1> DEFINE t == body[r].trace_id
           row == PlannedRow(r)
           N == HistoryLength(t)
           o == OutcomeOf(t)
           rows == KernelRows(TraceRows(t))
<1>1. /\ pc[r] = "commit" /\ Apart(row, events)
      /\ LegalCommand(LoadedProjection(r), body[r].command)
  BY DEF Appends, Plans, Inserted
<1>2. /\ t \in Creator /\ Stored(t) /\ row.trace_id = t
      /\ row.event = ControlEvent(<<r, 1>>, KernelRows(loaded[r]),
                                  PlanControlCommand(LoadedProjection(r), body[r].command))
      /\ \E k \in 3..N : loaded[r] = RowsUpTo(t, k) /\ row.event.sequence_number = k + 1
  BY <1>1, PlannedRowFacts
<1>3. PICK k \in 3..N : loaded[r] = RowsUpTo(t, k) /\ row.event.sequence_number = k + 1
  BY <1>2
<1>4. /\ N \in Nat /\ LegalHistory(o, rows, N) /\ o \in Outcome
      /\ \A e \in TraceRows(t) : e \in events /\ e.trace_id = t
      /\ \A n \in 1..N : \E e \in TraceRows(t) : e.event.sequence_number = n
  BY <1>2, StoredRows
<1>5. \A e \in events : e.trace_id = t => e.event.sequence_number # k + 1
  BY <1>1, <1>2, <1>3 DEF Apart, SequenceTaken
<1>6. k = N
  <2>1. k + 1 \notin 1..N
    BY <1>4, <1>5
  <2> HIDE DEF N
  <2> QED
    BY <1>3, <1>4, <2>1
<1>7. loaded[r] = TraceRows(t)
  BY <1>2, <1>3, <1>6, PrefixRows
<1>8. row \notin events
  BY <1>2, <1>3, <1>5
<1>9. LegalHistory(o, rows \cup {row.event}, N + 1)
  <2>1. body[r].command \in ControlCommand
    BY <1>1, ChoiceAssumption DEF Inv, ControllerOK, ControlBody
  <2>2. LoadedProjection(r) = ReduceControlState(o, rows)
    BY <1>7 DEF LoadedProjection
  <2>3. KernelRows(loaded[r]) = rows
    BY <1>7
  <2>4. PICK command, e : command = body[r].command /\ e = row.event
    OBVIOUS
  <2> HIDE DEF row, N, rows, o
  <2>5. /\ o \in Outcome /\ N \in Nat /\ LegalHistory(o, rows, N) /\ command \in ControlCommand
        /\ LegalCommand(ReduceControlState(o, rows), command)
        /\ e = ControlEvent(<<r, 1>>, rows,
                            PlanControlCommand(ReduceControlState(o, rows), command))
    BY <1>1, <1>2, <1>4, <2>1, <2>2, <2>3, <2>4
  <2> QED
    BY <2>4, <2>5, LegalHistoryGrows
<1> QED
  BY <1>3, <1>6, <1>7, <1>8, <1>9

-----------------------------------------------------------------------------
(* What a step leaves of the past, and that the tables stay well-formed. *)

\* Stored traces keep their outcome and all of their rows, in their order.
PastStays ==
  \A t \in Creator : Stored(t) =>
    /\ Stored(t)' /\ OutcomeOf(t)' = OutcomeOf(t)
    /\ TraceRows(t) \subseteq TraceRows(t)'
    /\ HistoryLength(t)' \in Nat /\ HistoryLength(t) <= HistoryLength(t)'
    /\ \A k \in 1..HistoryLength(t) : RowsUpTo(t, k)' = RowsUpTo(t, k)

TablesOK == cases \subseteq CaseRow /\ events \subseteq EventRow /\ CasesOK /\ RowsOK /\ HistoriesOK

\* Effects keep their owner, who has been answered and does not move again.
LEMMA OwnersStay ==
  ASSUME NEW r \in Request, Moves(r)
  PROVE  /\ \A q \in Controller : \A e : OwnedBy(e, q) =>
              /\ OwnedBy(e, q)' /\ body'[q] = body[q] /\ q # r
         /\ \A q \in Creator : MayHaveActed(q) => MayHaveActed(q)' /\ body'[q] = body[q] /\ q # r
PROOF
<1>1. \A q \in Request : MayHaveActed(q) => /\ MayHaveActed(q)' /\ body'[q] = body[q] /\ q # r
  BY DEF MayHaveActed, Moves
<1>2. \A q \in Controller : q \in Request
  BY Distinct
<1>3. \A q \in Creator : q \in Request
  BY Distinct
<1> QED
  BY <1>1, <1>2, <1>3 DEF OwnedBy

\* A step that commits nothing.
LEMMA UnchangedTables ==
  ASSUME Inv, NEW r \in Request, Moves(r), UNCHANGED database
  PROVE  /\ TablesOK' /\ PastStays
         /\ \A t \in Creator : TraceRows(t)' = TraceRows(t) /\ Stored(t)' = Stored(t)
PROOF
<1>1. cases' = cases /\ events' = events
  BY DEF database
<1>2. ASSUME NEW t \in Creator
      PROVE  /\ TraceRows(t)' = TraceRows(t) /\ Stored(t)' = Stored(t)
             /\ OutcomeOf(t)' = OutcomeOf(t) /\ HistoryLength(t)' = HistoryLength(t)
             /\ NewRows(t)' = NewRows(t)
             /\ \A k \in Nat : RowsUpTo(t, k)' = RowsUpTo(t, k)
  BY <1>1 DEF TraceRows, Stored, OutcomeOf, HistoryLength, RowsUpTo, NewRows
<1>3. PastStays
  <2> SUFFICES ASSUME NEW t \in Creator, Stored(t)
               PROVE  /\ Stored(t)' /\ OutcomeOf(t)' = OutcomeOf(t)
                      /\ TraceRows(t) \subseteq TraceRows(t)'
                      /\ HistoryLength(t)' \in Nat /\ HistoryLength(t) <= HistoryLength(t)'
                      /\ \A k \in 1..HistoryLength(t) : RowsUpTo(t, k)' = RowsUpTo(t, k)
    BY DEF PastStays
  <2>1. HistoryLength(t) \in Nat
    BY StoredRows
  <2> QED
    BY <1>2, <2>1
<1>4. CasesOK'
  <2>1. ASSUME NEW c \in cases PROVE c.trace_id \in Creator /\ NewCase(c.trace_id)' = NewCase(c.trace_id)
    <3>1. c.trace_id \in Creator /\ Stored(c.trace_id)
      BY OutcomeKnown
    <3>2. MayHaveActed(c.trace_id)
      BY <3>1 DEF Inv, CreatorOK
    <3> QED
      BY <3>1, <3>2, OwnersStay DEF NewCase
  <2> QED
    BY <1>1, <2>1 DEF Inv, CasesOK
<1>5. RowsOK'
  <2>1. \A e \in events : e.trace_id \in Creator
    BY DEF Inv, TypeOK, EventRow
  <2>2. \A e \in events : Stored(e.trace_id)'
    BY <1>2, <2>1 DEF Inv, RowsOK
  <2>3. \A e \in events : e \in NewRows(e.trace_id)' \/ \E q \in Controller : OwnedBy(e, q)'
    BY <1>2, <2>1, OwnersStay DEF Inv, RowsOK
  <2> QED
    BY <1>1, <2>2, <2>3 DEF Inv, RowsOK
<1>6. HistoriesOK'
  BY <1>1, <1>2 DEF Inv, HistoriesOK
<1> QED
  BY <1>1, <1>2, <1>3, <1>4, <1>5, <1>6 DEF Inv, TypeOK, TablesOK

\* A step that commits a new trace.
LEMMA CreatesTables ==
  ASSUME Inv, NEW r \in Creator, Moves(r), Creates(r)
  PROVE  /\ TablesOK' /\ PastStays
         /\ Stored(r)' /\ TraceRows(r)' = NewRows(r)
         /\ \A t \in Creator \ {r} : TraceRows(t)' = TraceRows(t) /\ Stored(t)' = Stored(t)
PROOF
<1> DEFINE ids == <<<<r, 1>>, <<r, 2>>, <<r, 3>>>>
<1>1. /\ cases' = cases \cup {NewCase(r)} /\ events' = events \cup NewRows(r)
      /\ pc[r] = "commit" /\ ~ Stored(r) /\ body'[r] = body[r] /\ r \in Request
  BY Distinct DEF Creates, Moves
<1>2. /\ body[r] \in CreateBody /\ ~ CaseIdTaken(body[r].case_id, cases)
  BY <1>1 DEF Inv, CreatorOK
<1>3. /\ NewCase(r) \in CaseRow /\ NewCase(r).trace_id = r
      /\ NewCase(r).case_id = body[r].case_id /\ NewCase(r).outcome \in Outcome
  BY <1>2, ChoiceAssumption DEF NewCase, CaseRow, CreateBody
<1>4. /\ cases \subseteq CaseRow /\ events \subseteq EventRow
      /\ \A c \in cases : c.trace_id \in Creator /\ c.trace_id # r
      /\ \A e \in events : e.trace_id \in Creator /\ e.trace_id # r /\ Stored(e.trace_id)
  BY <1>1 DEF Inv, TypeOK, CaseRow, EventRow, RowsOK, Stored
<1>5. ASSUME NEW t \in Creator \ {r}
      PROVE  TraceRows(t)' = TraceRows(t) /\ Stored(t)' = Stored(t)
  <2>1. \A e \in NewRows(r) : e.trace_id # t
    BY NewRowsFacts
  <2> QED
    BY <1>1, <1>3, <2>1 DEF TraceRows, Stored
<1>6. TraceRows(r)' = NewRows(r)
  <2>1. \A e \in NewRows(r) : e.trace_id = r
    BY NewRowsFacts
  <2> QED
    BY <1>1, <1>4, <2>1 DEF TraceRows
<1>7. ASSUME NEW c \in cases', NEW t, t = c.trace_id PROVE OutcomeOf(t)' = c.outcome
  <2>1. \A d \in cases' : d.trace_id = t => d = c
    BY <1>1, <1>3, <1>4, <1>7 DEF Inv, CasesOK
  <2>2. (CHOOSE d \in cases' : d.trace_id = t) = c
    BY <1>7, <2>1
  <2> QED
    BY <2>2 DEF OutcomeOf
<1>8. Stored(r)' /\ OutcomeOf(r)' = NewCase(r).outcome
  <2>1. NewCase(r) \in cases'
    BY <1>1
  <2> QED
    BY <1>3, <1>7, <2>1 DEF Stored
<1>9. ASSUME NEW t \in Creator, Stored(t)
      PROVE  /\ t # r /\ OutcomeOf(t)' = OutcomeOf(t) /\ HistoryLength(t)' = HistoryLength(t)
             /\ \A k \in Nat : RowsUpTo(t, k)' = RowsUpTo(t, k)
  <2>1. t # r
    BY <1>1, <1>9
  <2>2. PICK c \in cases : c.trace_id = t
    BY <1>9 DEF Stored
  <2>3. OutcomeOf(t) = c.outcome
    BY <2>2, OutcomeKnown
  <2>4. OutcomeOf(t)' = c.outcome
    BY <1>1, <1>7, <2>2
  <2> QED
    BY <1>5, <2>1, <2>3, <2>4 DEF HistoryLength, RowsUpTo
<1>10. PastStays
  <2> SUFFICES ASSUME NEW t \in Creator, Stored(t)
               PROVE  /\ Stored(t)' /\ OutcomeOf(t)' = OutcomeOf(t)
                      /\ TraceRows(t) \subseteq TraceRows(t)'
                      /\ HistoryLength(t)' \in Nat /\ HistoryLength(t) <= HistoryLength(t)'
                      /\ \A k \in 1..HistoryLength(t) : RowsUpTo(t, k)' = RowsUpTo(t, k)
    BY DEF PastStays
  <2>1. HistoryLength(t) \in Nat
    BY StoredRows
  <2> QED
    BY <1>5, <1>9, <2>1
<1>11. CasesOK'
  <2>1. ASSUME NEW c \in cases PROVE NewCase(c.trace_id)' = c
    <3>1. c.trace_id \in Creator /\ Stored(c.trace_id)
      BY OutcomeKnown
    <3>2. MayHaveActed(c.trace_id)
      BY <3>1 DEF Inv, CreatorOK
    <3>3. NewCase(c.trace_id) = c
      BY DEF Inv, CasesOK
    <3> QED
      BY <1>1, <3>1, <3>2, <3>3, OwnersStay DEF NewCase
  <2>2. NewCase(r)' = NewCase(r)
    BY <1>1 DEF NewCase
  <2>3. \A c, d \in cases' : c.trace_id = d.trace_id \/ c.case_id = d.case_id => c = d
    BY <1>1, <1>2, <1>3, <1>4 DEF Inv, CasesOK, CaseIdTaken
  <2> QED
    BY <1>1, <1>3, <2>1, <2>2, <2>3 DEF CasesOK
<1>12. RowsOK'
  <2>1. /\ \A e \in NewRows(r) : e.trace_id = r /\ e.idempotency_key = NULL
        /\ \A e, f \in NewRows(r) : e.event.sequence_number = f.event.sequence_number => e = f
    BY NewRowsFacts
  <2>2. \A t \in Creator : NewRows(t)' = NewRows(t)
    BY DEF NewRows
  <2>3. \A e \in events' : Stored(e.trace_id)'
    BY <1>1, <1>4, <1>5, <1>8, <2>1
  <2>4. \A e, f \in events' :
          /\ e.trace_id = f.trace_id
          /\ \/ e.event.sequence_number = f.event.sequence_number
             \/ e.idempotency_key = f.idempotency_key /\ e.idempotency_key # NULL
          => e = f
    <3>1. \A e, f \in events :
            /\ e.trace_id = f.trace_id
            /\ \/ e.event.sequence_number = f.event.sequence_number
               \/ e.idempotency_key = f.idempotency_key /\ e.idempotency_key # NULL
            => e = f
      BY DEF Inv, RowsOK
    <3> QED
      BY <1>1, <1>4, <2>1, <3>1
  <2>5. ASSUME NEW e \in events'
        PROVE  e \in NewRows(e.trace_id)' \/ \E q \in Controller : OwnedBy(e, q)'
    <3>1. CASE e \in NewRows(r)
      BY <2>1, <2>2, <3>1
    <3>2. CASE e \in events
      BY <1>1, <1>4, <2>2, <3>2, OwnersStay DEF Inv, RowsOK
    <3> QED
      BY <1>1, <3>1, <3>2
  <2> QED
    BY <2>3, <2>4, <2>5 DEF RowsOK
<1>13. HistoriesOK'
  <2>1. ASSUME NEW t \in Creator \ {r}, Stored(t)'
        PROVE  /\ HistoryLength(t)' \in Nat
               /\ LegalHistory(OutcomeOf(t), KernelRows(TraceRows(t)), HistoryLength(t))'
               /\ (NewRows(t) \subseteq events)'
    <3>1. Stored(t) /\ NewRows(t)' = NewRows(t)
      BY <1>5, <2>1 DEF NewRows
    <3> QED
      BY <1>1, <1>5, <1>9, <3>1 DEF Inv, HistoriesOK
  <2>2. /\ KernelRows(TraceRows(r)') = SystemEvents(ids)
        /\ LegalHistory(OutcomeOf(r)', SystemEvents(ids), 3)
    BY <1>3, <1>6, <1>8, NewRowsFacts, LegalHistoryStarts
  <2>3. HistoryLength(r)' = 3
    <3>1. MaxSequence(SystemEvents(ids)) = 3
      BY <2>2, HistorySettled
    <3> QED
      BY <2>2, <3>1 DEF HistoryLength
  <2>4. (NewRows(r) \subseteq events)'
    BY <1>1 DEF NewRows
  <2> QED
    BY <2>1, <2>2, <2>3, <2>4 DEF HistoriesOK
<1>14. cases' \subseteq CaseRow /\ events' \subseteq EventRow
  BY <1>1, <1>3, <1>4, NewRowsFacts
<1> QED
  BY <1>5, <1>6, <1>8, <1>10, <1>11, <1>12, <1>13, <1>14 DEF TablesOK

\* A step that commits one more row.
LEMMA AppendsTables ==
  ASSUME Inv, NEW r \in Controller, Moves(r), Appends(r),
         NEW t, t = body[r].trace_id,
         NEW row, row = PlannedRow(r),
         NEW N, N = HistoryLength(t)
  PROVE  /\ TablesOK' /\ PastStays
         /\ t \in Creator /\ N \in Nat /\ N >= 3 /\ Stored(t)
         /\ loaded[r] = TraceRows(t)
         /\ row.event.sequence_number = N + 1
         /\ TraceRows(t)' = TraceRows(t) \cup {row}
         /\ OwnedBy(row, r)'
         /\ RowsUpTo(t, N + 1)' = TraceRows(t)'
         /\ HistoryLength(t)' = N + 1
         /\ \A u \in Creator : Stored(u)' = Stored(u)
         /\ \A u \in Creator \ {t} : TraceRows(u)' = TraceRows(u)
PROOF
<1>1. /\ cases' = cases /\ events' = events \cup {row}
      /\ pc[r] = "commit" /\ pc'[r] = "done" /\ body'[r] = body[r] /\ r \in Request
      /\ answer'[r].kind \in {"view", "connection_error"}
      /\ Apart(row, events) /\ LegalCommand(LoadedProjection(r), body[r].command)
  BY Distinct DEF Appends, Moves, Plans, Inserted, View, Refusal
<1>2. /\ t \in Creator /\ Stored(t)
      /\ row \in EventRow /\ row.trace_id = t
      /\ row.idempotency_key = body[r].idempotency_key
      /\ row.command_fingerprint = IF body[r].idempotency_key = NULL THEN NULL
                                   ELSE CommandFingerprint(body[r])
      /\ row.event.event_id = <<r, 1>>
      /\ row.event.action = PlannedAction[body[r].command]
  BY <1>1, PlannedRowFacts
<1>3. /\ row.event.sequence_number = N + 1 /\ row \notin events
      /\ loaded[r] = TraceRows(t)
      /\ LegalHistory(OutcomeOf(t), KernelRows(TraceRows(t)) \cup {row.event}, N + 1)
  BY AppendsAtEnd
<1>4. OwnedBy(row, r)'
  <2>1. MayHaveActed(r)'
    BY <1>1 DEF MayHaveActed
  <2> QED
    BY <1>1, <1>2, <2>1 DEF OwnedBy
<1>5. /\ N \in Nat /\ N >= 3
      /\ \A e \in TraceRows(t) : e.event.sequence_number \in 1..N
  BY <1>2, StoredRows
<1>6. \A u \in Creator : Stored(u)' = Stored(u) /\ OutcomeOf(u)' = OutcomeOf(u)
  BY <1>1 DEF Stored, OutcomeOf
<1>7. ASSUME NEW u \in Creator, u # t
      PROVE  /\ TraceRows(u)' = TraceRows(u) /\ HistoryLength(u)' = HistoryLength(u)
             /\ \A k \in Nat : RowsUpTo(u, k)' = RowsUpTo(u, k)
  <2>1. TraceRows(u)' = TraceRows(u)
    BY <1>1, <1>2, <1>7 DEF TraceRows
  <2> QED
    BY <2>1 DEF HistoryLength, RowsUpTo
<1>8. /\ TraceRows(t)' = TraceRows(t) \cup {row}
      /\ KernelRows(TraceRows(t)') = KernelRows(TraceRows(t)) \cup {row.event}
  <2>1. TraceRows(t)' = TraceRows(t) \cup {row}
    BY <1>1, <1>2 DEF TraceRows
  <2> QED
    BY <2>1 DEF KernelRows
<1>9. HistoryLength(t)' = N + 1
  <2>1. N + 1 \in Nat
    BY <1>5
  <2>2. MaxSequence(KernelRows(TraceRows(t)) \cup {row.event}) = N + 1
    BY <1>3, <2>1, HistorySettled
  <2> QED
    BY <1>8, <2>2 DEF HistoryLength
<1>10. /\ \A k \in 1..N : RowsUpTo(t, k)' = RowsUpTo(t, k)
       /\ RowsUpTo(t, N + 1)' = TraceRows(t)'
  <2>2. \A k \in 1..N : ~ (N + 1 <= k)
    BY <1>5
  <2>3. \A e \in TraceRows(t) : e.event.sequence_number <= N + 1
    BY <1>5
  <2>5. N + 1 <= N + 1
    BY <1>5
  <2>6. \A k \in 1..N : {e \in TraceRows(t)' : e.event.sequence_number <= k}
                        = {e \in TraceRows(t) : e.event.sequence_number <= k}
    BY <1>3, <1>8, <2>2
  <2>7. {e \in TraceRows(t)' : e.event.sequence_number <= N + 1} = TraceRows(t)'
    BY <1>3, <1>8, <2>3, <2>5
  <2> QED
    BY <2>6, <2>7 DEF RowsUpTo
<1>11. PastStays
  <2> SUFFICES ASSUME NEW u \in Creator, Stored(u)
               PROVE  /\ Stored(u)' /\ OutcomeOf(u)' = OutcomeOf(u)
                      /\ TraceRows(u) \subseteq TraceRows(u)'
                      /\ HistoryLength(u)' \in Nat /\ HistoryLength(u) <= HistoryLength(u)'
                      /\ \A k \in 1..HistoryLength(u) : RowsUpTo(u, k)' = RowsUpTo(u, k)
    BY DEF PastStays
  <2>1. CASE u # t
    <3>1. HistoryLength(u) \in Nat
      BY StoredRows
    <3> QED
      BY <1>6, <1>7, <2>1, <3>1
  <2>2. CASE u = t
    <3>1. N <= N + 1 /\ N + 1 \in Nat
      BY <1>5
    <3> QED
      BY <1>6, <1>8, <1>9, <1>10, <2>2, <3>1
  <2> QED
    BY <2>1, <2>2
<1>12. CasesOK'
  <2>1. ASSUME NEW c \in cases PROVE NewCase(c.trace_id)' = c
    <3>1. c.trace_id \in Creator /\ Stored(c.trace_id)
      BY OutcomeKnown
    <3>2. MayHaveActed(c.trace_id)
      BY <3>1 DEF Inv, CreatorOK
    <3>3. NewCase(c.trace_id) = c
      BY DEF Inv, CasesOK
    <3> QED
      BY <1>1, <3>1, <3>2, <3>3, OwnersStay DEF NewCase
  <2> QED
    BY <1>1, <2>1 DEF Inv, CasesOK
<1>13. RowsOK'
  <2>1. \A u \in Creator : NewRows(u)' = NewRows(u)
    BY DEF NewRows
  <2>2. \A e \in events' : e.trace_id \in Creator /\ Stored(e.trace_id)'
    BY <1>1, <1>2, <1>6 DEF Inv, TypeOK, EventRow, RowsOK
  <2>3. \A e, f \in events :
          /\ e.trace_id = f.trace_id
          /\ \/ e.event.sequence_number = f.event.sequence_number
             \/ e.idempotency_key = f.idempotency_key /\ e.idempotency_key # NULL
          => e = f
    BY DEF Inv, RowsOK
  <2>4. \A e \in events : e.trace_id = row.trace_id =>
          /\ e.event.sequence_number # row.event.sequence_number
          /\ ~ (e.idempotency_key = row.idempotency_key /\ e.idempotency_key # NULL)
    BY <1>1 DEF Apart, SequenceTaken, KeyTaken
  <2>5. \A e, f \in events' :
          /\ e.trace_id = f.trace_id
          /\ \/ e.event.sequence_number = f.event.sequence_number
             \/ e.idempotency_key = f.idempotency_key /\ e.idempotency_key # NULL
          => e = f
    BY <1>1, <2>3, <2>4
  <2>6. ASSUME NEW e \in events'
        PROVE  e \in NewRows(e.trace_id)' \/ \E q \in Controller : OwnedBy(e, q)'
    <3>1. CASE e = row
      BY <1>4, <3>1
    <3>2. CASE e \in events
      BY <1>1, <2>1, <2>2, <3>2, OwnersStay DEF Inv, RowsOK
    <3> QED
      BY <1>1, <3>1, <3>2
  <2> QED
    BY <2>2, <2>5, <2>6 DEF RowsOK
<1>14. HistoriesOK'
  <2> SUFFICES ASSUME NEW u \in Creator, Stored(u)'
               PROVE  /\ HistoryLength(u)' \in Nat
                      /\ LegalHistory(OutcomeOf(u)', KernelRows(TraceRows(u)'), HistoryLength(u)')
                      /\ NewRows(u)' \subseteq events'
    BY DEF HistoriesOK
  <2>1. /\ HistoryLength(u) \in Nat
        /\ LegalHistory(OutcomeOf(u), KernelRows(TraceRows(u)), HistoryLength(u))
        /\ NewRows(u) \subseteq events
        /\ NewRows(u)' = NewRows(u)
    BY <1>6 DEF Inv, HistoriesOK, NewRows
  <2>2. CASE u # t
    BY <1>1, <1>6, <1>7, <2>1, <2>2
  <2>3. CASE u = t
    <3>1. N + 1 \in Nat
      BY <1>5
    <3> QED
      BY <1>1, <1>3, <1>6, <1>8, <1>9, <2>1, <2>3, <3>1
  <2> QED
    BY <2>2, <2>3
<1>15. cases' \subseteq CaseRow /\ events' \subseteq EventRow
  BY <1>1, <1>2 DEF Inv, TypeOK
<1> QED
  BY <1>2, <1>3, <1>4, <1>5, <1>6, <1>7, <1>8, <1>9, <1>10, <1>11, <1>12, <1>13, <1>14, <1>15
     DEF TablesOK

\* Whatever a step commits, it keeps the past and the tables' invariants.
LEMMA TableStepKeeps ==
  ASSUME Inv, NEW r \in Request, Moves(r), TableStep(r)
  PROVE  TablesOK' /\ PastStays
PROOF
<1>1. Creates(r) => r \in Creator
  BY DEF Creates
<1>2. Appends(r) => r \in Controller
  BY DEF Appends
<1> QED
  BY <1>1, <1>2, UnchangedTables, CreatesTables, AppendsTables DEF TableStep

-----------------------------------------------------------------------------
(* A step of one call leaves what holds of the others. *)

\* Nothing that is stored goes away.
LEMMA TablesGrow ==
  ASSUME NEW r, TableStep(r)
  PROVE  cases \subseteq cases' /\ events \subseteq events'
PROOF
BY DEF TableStep, Creates, Appends, database

\* A prefix of a history stays one.
LEMMA PrefixStays ==
  ASSUME Inv, PastStays, NEW t \in Creator, Stored(t), NEW rows, IsPrefix(rows, t)
  PROVE  IsPrefix(rows, t)'
PROOF
<1>1. PICK k \in 3..HistoryLength(t) : rows = RowsUpTo(t, k)
  BY DEF IsPrefix
<1>2. /\ HistoryLength(t) \in Nat /\ HistoryLength(t)' \in Nat
      /\ HistoryLength(t) <= HistoryLength(t)'
  BY StoredRows DEF PastStays
<1>3. k \in 1..HistoryLength(t) /\ k \in 3..HistoryLength(t)'
  BY <1>2
<1>4. RowsUpTo(t, k)' = rows
  BY <1>1, <1>3 DEF PastStays
<1> QED
  BY <1>3, <1>4 DEF IsPrefix

\* What an answer shows stays what it is.
LEMMA ShownStays ==
  ASSUME Inv, PastStays, NEW r \in Request, Moves(r),
         NEW q \in Controller, body'[q] = body[q], NEW rows, ShownTo(q, rows)
  PROVE  ShownTo(q, rows)'
PROOF
<1>1. PICK t : t = body[q].trace_id
  OBVIOUS
<1>2. PICK p \in Controller : \E e \in TraceRows(t) :
        /\ OwnedBy(e, p) /\ body[p] = body[q]
        /\ p = q \/ body[q].idempotency_key # NULL
        /\ rows = RowsUpTo(t, e.event.sequence_number)
  BY <1>1 DEF ShownTo
<1>3. PICK e \in TraceRows(t) :
        /\ OwnedBy(e, p) /\ body[p] = body[q]
        /\ p = q \/ body[q].idempotency_key # NULL
        /\ rows = RowsUpTo(t, e.event.sequence_number)
  BY <1>2
<1>4. e \in events /\ e.trace_id = t
  BY DEF TraceRows
<1>5. t \in Creator /\ Stored(t)
  BY <1>4 DEF Inv, TypeOK, EventRow, RowsOK
<1>6. e.event.sequence_number \in 1..HistoryLength(t)
  BY <1>5, StoredRows
<1>7. e \in TraceRows(t)' /\ rows = RowsUpTo(t, e.event.sequence_number)'
  BY <1>3, <1>5, <1>6 DEF PastStays
<1>8. OwnedBy(e, p)' /\ body'[p] = body[p]
  BY <1>3, OwnersStay
<1> QED
  BY <1>1, <1>3, <1>7, <1>8 DEF ShownTo

\* While a call holds the lock of a trace no other call adds to its rows.
LEMMA LockProtects ==
  ASSUME Inv, NEW r \in Request, Moves(r), TableStep(r),
         NEW q \in Request \ {r}, NEW t \in Creator, Stored(t), rowLock[t] = q
  PROVE  TraceRows(t)' = TraceRows(t)
PROOF
<1>1. CASE UNCHANGED database
  BY <1>1, UnchangedTables
<1>2. CASE Creates(r)
  <2>1. r \in Creator /\ t # r
    BY <1>2 DEF Creates
  <2> QED
    BY <1>2, <2>1, CreatesTables
<1>3. CASE Appends(r)
  <2>1. r \in Controller /\ rowLock[body[r].trace_id] = r
    BY <1>3 DEF Appends, Inv, ControllerOK
  <2>2. t # body[r].trace_id
    BY <2>1
  <2> QED
    BY <1>3, <2>1, <2>2, AppendsTables
<1> QED
  BY <1>1, <1>2, <1>3 DEF TableStep

\* Creators.
LEMMA CreatorsStay ==
  ASSUME Inv, NEW r \in Request, Moves(r), TableStep(r), r \in Creator => CreatorOK(r)',
         NEW q \in Creator \ {r}
  PROVE  CreatorOK(q)'
PROOF
<1>1. /\ CreatorOK(q) /\ q \in Request
      /\ pc'[q] = pc[q] /\ body'[q] = body[q] /\ draft'[q] = draft[q] /\ answer'[q] = answer[q]
  BY Distinct DEF Inv, Moves
<1>2. /\ cases \subseteq cases' /\ PastStays
  BY TablesGrow, TableStepKeeps
<1>3. /\ CreatedDraft(q)' = CreatedDraft(q) /\ NewRows(q)' = NewRows(q)
      /\ Succeeded(q)' = Succeeded(q) /\ Refused(q, "case_exists")' = Refused(q, "case_exists")
      /\ MayHaveActed(q)' = MayHaveActed(q)
  BY <1>1 DEF CreatedDraft, NewRows, NewCase, Succeeded, Refused, MayHaveActed
<1>4. Stored(q)' = Stored(q)
  <2>1. CASE UNCHANGED database
    BY <2>1, UnchangedTables
  <2>2. CASE Creates(r)
    BY <2>2, CreatesTables DEF Creates
  <2>3. CASE Appends(r)
    BY <2>3, AppendsTables DEF Appends
  <2> QED
    BY <2>1, <2>2, <2>3 DEF TableStep
<1>5. ASSUME pc[q] = "commit"
      PROVE  /\ ~ CaseIdTaken(body[q].case_id, cases')
             /\ \A p \in Creator \ {q} : pc'[p] = "commit" => body'[p].case_id # body[q].case_id
  <2>1. /\ ~ CaseIdTaken(body[q].case_id, cases)
        /\ \A p \in Creator \ {q} : pc[p] = "commit" => body[p].case_id # body[q].case_id
    BY <1>1, <1>5 DEF CreatorOK
  <2>2. ~ CaseIdTaken(body[q].case_id, cases')
    <3>1. CASE Creates(r)
      <4>1. r \in Creator \ {q} /\ pc[r] = "commit" /\ cases' = cases \cup {NewCase(r)}
        BY <3>1 DEF Creates
      <4>2. NewCase(r).case_id # body[q].case_id
        BY <2>1, <4>1 DEF NewCase
      <4> QED
        BY <2>1, <4>1, <4>2 DEF CaseIdTaken
    <3>2. CASE cases' = cases
      BY <2>1, <3>2
    <3> QED
      BY <3>1, <3>2 DEF TableStep, Appends, database
  <2>3. ASSUME NEW p \in Creator \ {q}, pc'[p] = "commit"
        PROVE  body'[p].case_id # body[q].case_id
    <3>1. CASE p = r
      BY <1>1, <1>5, <2>3, <3>1 DEF CreatorOK
    <3>2. CASE p # r
      BY <2>1, <2>3, <3>2, Distinct DEF Moves
    <3> QED
      BY <3>1, <3>2
  <2> QED
    BY <2>2, <2>3
<1> QED
  BY <1>1, <1>2, <1>3, <1>4, <1>5 DEF CreatorOK

\* Control calls.
LEMMA ControllersStay ==
  ASSUME Inv, NEW r \in Request, Moves(r), TableStep(r), r \in Controller => ControllerOK(r)',
         NEW q \in Controller \ {r}
  PROVE  ControllerOK(q)'
PROOF
<1>1. PICK t : t = body[q].trace_id
  OBVIOUS
<1>2. /\ ControllerOK(q) /\ q \in Request /\ q # NULL
      /\ pc'[q] = pc[q] /\ body'[q] = body[q] /\ loaded'[q] = loaded[q]
      /\ draft'[q] = draft[q] /\ answer'[q] = answer[q]
  BY Distinct DEF Inv, Moves
<1>3. events \subseteq events' /\ PastStays
  BY TablesGrow, TableStepKeeps
<1>4. pc[q] # "idle" => t \in Creator
  BY <1>1, <1>2 DEF ControllerOK, ControlBody
<1>5. ASSUME pc[q] \in {"lock", "load", "receipt", "insert_event", "commit"}
      PROVE  t \in Creator /\ Stored(t) /\ Stored(t)' /\ OutcomeOf(t)' = OutcomeOf(t)
  BY <1>1, <1>2, <1>3, <1>4, <1>5 DEF ControllerOK, PastStays
<1>6. ASSUME pc[q] \in {"load", "receipt", "insert_event", "commit"}
      PROVE  rowLock'[t] = q /\ TraceRows(t)' = TraceRows(t)
  <2>1. t \in Creator /\ Stored(t) /\ rowLock[t] = q
    BY <1>1, <1>2, <1>5, <1>6 DEF ControllerOK
  <2>2. rowLock'[t] = q
    BY <1>2, <2>1 DEF Moves
  <2> QED
    BY <1>2, <2>1, <2>2, LockProtects
<1>7. ASSUME pc[q] \in {"lock", "load", "receipt", "insert_event", "commit"},
             IsPrefix(loaded[q], t)
      PROVE  IsPrefix(loaded[q], t)'
  BY <1>2, <1>3, <1>5, <1>7, PrefixStays
<1>8. ASSUME pc[q] \in {"receipt", "insert_event", "commit"}
      PROVE  PlannedRow(q)' = PlannedRow(q) /\ Plans(q)' = Plans(q)
  <2>1. OutcomeOf(t)' = OutcomeOf(t)
    BY <1>5, <1>8
  <2>2. LoadedProjection(q)' = LoadedProjection(q)
    BY <1>1, <1>2, <2>1 DEF LoadedProjection
  <2>3. PlannedRow(q)' = PlannedRow(q)
    BY <1>2, <2>2 DEF PlannedRow
  <2> QED
    BY <1>2, <2>2, <2>3 DEF Plans, PlannedDraft
<1>9. ASSUME NEW rows, ShownTo(q, rows) PROVE ShownTo(q, rows)'
  BY <1>2, <1>3, <1>9, ShownStays
<1>10. Replays(q) => Replays(q)'
  BY <1>2, <1>9 DEF Replays
<1>11. ASSUME pc[q] = "commit", Plans(q), Inserted(q) PROVE Inserted(q)'
  <2> DEFINE row == PlannedRow(q)
  <2>1. row' = row
    BY <1>8, <1>11
  <2>2. /\ Apart(row, events)
        /\ \A p \in Controller \ {q} : pc[p] = "commit" => Apart(row, draft[p].events)
    BY <1>11 DEF Inserted
  <2>3. row.trace_id = t
    BY <1>1, <1>11, PlannedRowFacts DEF Plans
  <2> HIDE DEF row
  <2>4. Apart(row, events')
    <3>1. CASE events' = events
      BY <2>2, <3>1
    <3>2. CASE Creates(r)
      <4>1. r \in Creator /\ t # r /\ events' = events \cup NewRows(r)
        BY <1>5, <1>11, <3>2 DEF Creates
      <4>2. \A e \in NewRows(r) : e.trace_id = r
        BY <4>1, NewRowsFacts
      <4> QED
        BY <2>2, <2>3, <4>1, <4>2 DEF Apart, SequenceTaken, KeyTaken
    <3>3. CASE Appends(r)
      <4>1. r \in Controller \ {q} /\ pc[r] = "commit" /\ events' = events \cup {PlannedRow(r)}
        BY <3>3 DEF Appends
      <4>2. draft[r].events = {PlannedRow(r)}
        BY <3>3 DEF Appends, Plans, PlannedDraft
      <4> QED
        BY <2>2, <4>1, <4>2 DEF Apart, SequenceTaken, KeyTaken
    <3> QED
      BY <3>1, <3>2, <3>3 DEF TableStep, database
  <2>5. ASSUME NEW p \in Controller \ {q}, pc'[p] = "commit"
        PROVE  Apart(row, draft'[p].events)
    <3>1. CASE p # r
      BY <2>2, <2>5, <3>1, Distinct DEF Moves
    <3>2. CASE p = r
      <4>1. (Replays(r) \/ (Plans(r) /\ Inserted(r)))'
        BY <2>5, <3>2 DEF ControllerOK
      <4>2. CASE Replays(r)'
        BY <3>2, <4>2 DEF Replays, Apart, SequenceTaken, KeyTaken
      <4>3. CASE (Plans(r) /\ Inserted(r))'
        <5>1. draft'[r].events = {PlannedRow(r)'}
          BY <4>3 DEF Plans, PlannedDraft
        <5>2. draft[q].events = {row}
          BY <1>11 DEF Plans, PlannedDraft, row
        <5>3. Apart(PlannedRow(r)', {row})
          BY <1>2, <1>11, <3>2, <4>3, <5>2 DEF Inserted
        <5> QED
          BY <3>2, <5>1, <5>3 DEF Apart, SequenceTaken, KeyTaken
      <4> QED
        BY <4>1, <4>2, <4>3
    <3> QED
      BY <3>1, <3>2
  <2> QED
    BY <2>1, <2>4, <2>5 DEF Inserted, row
<1>12. ASSUME pc[q] = "resolve" PROVE (Receipts(body[q], TraceRows(t)) # {})'
  <2>1. Receipts(body[q], TraceRows(t)) # {}
    BY <1>1, <1>2, <1>12 DEF ControllerOK
  <2>2. TraceRows(t) \subseteq TraceRows(t)'
    BY <1>3 DEF TraceRows
  <2> QED
    BY <1>1, <1>2, <2>1, <2>2 DEF Receipts
<1>13. Succeeded(q)' => ShownTo(q, answer[q].rows)'
  <2>1. Succeeded(q)' => ShownTo(q, answer[q].rows)
    BY <1>2 DEF ControllerOK, Succeeded
  <2> QED
    BY <1>2, <1>9, <2>1
<1>14. ASSUME Refused(q, "key_conflict")'
       PROVE  \E p \in Controller : \E e \in TraceRows(t)' :
                /\ OwnedBy(e, p)'
                /\ body'[p].idempotency_key = body'[q].idempotency_key
                /\ body'[p] # body'[q]
  <2>1. Refused(q, "key_conflict")
    BY <1>2, <1>14 DEF Refused
  <2>2. PICK p \in Controller : \E e \in TraceRows(t) :
          /\ OwnedBy(e, p)
          /\ body[p].idempotency_key = body[q].idempotency_key
          /\ body[p] # body[q]
    BY <1>1, <1>2, <2>1 DEF ControllerOK
  <2>3. TraceRows(t) \subseteq TraceRows(t)'
    BY <1>3 DEF TraceRows
  <2> QED
    BY <1>2, <2>2, <2>3, OwnersStay
<1>15. (Refused(q, "integrity_error"))' = Refused(q, "integrity_error")
  BY <1>2 DEF Refused
<1>16. /\ pc[q] \in {"lock", "load"} /\ Isolation = "REPEATABLE READ" => IsPrefix(loaded[q], t)
       /\ pc[q] \in {"receipt", "insert_event", "commit"} =>
            /\ IsPrefix(loaded[q], t)
            /\ Isolation = "READ COMMITTED" => loaded[q] = TraceRows(t)
       /\ pc[q] = "insert_event" => Plans(q)
       /\ pc[q] = "commit" => Replays(q) \/ (Plans(q) /\ Inserted(q))
       /\ Isolation = "READ COMMITTED" => pc[q] # "resolve" /\ ~ Refused(q, "integrity_error")
       /\ pc[q] \in {"idle", "begin", "lock", "load", "receipt", "insert_event", "resolve",
                     "commit", "done"}
       /\ pc[q] # "idle" => body[q] \in ControlBody
  BY <1>1, <1>2 DEF ControllerOK
<1>17. /\ pc'[q] \in {"lock", "load"} /\ Isolation = "REPEATABLE READ" => IsPrefix(loaded[q], t)'
       /\ pc'[q] \in {"receipt", "insert_event", "commit"} =>
            /\ IsPrefix(loaded[q], t)'
            /\ Isolation = "READ COMMITTED" => loaded'[q] = TraceRows(t)'
  BY <1>2, <1>6, <1>7, <1>16
<1>18. /\ pc'[q] = "insert_event" => Plans(q)'
       /\ pc'[q] = "commit" => Replays(q)' \/ (Plans(q)' /\ Inserted(q)')
  BY <1>2, <1>8, <1>10, <1>11, <1>16
<1>19. /\ pc'[q] \in {"lock", "load", "receipt", "insert_event", "commit"} => Stored(t)'
       /\ pc'[q] \in {"load", "receipt", "insert_event", "commit"} => rowLock'[t] = q
  BY <1>2, <1>5, <1>6
<1> QED
  BY <1>1, <1>2, <1>12, <1>13, <1>14, <1>15, <1>16, <1>17, <1>18, <1>19, ZenonT(30) DEF ControllerOK

\* Reads.
LEMMA ReadersStay ==
  ASSUME Inv, NEW r \in Request, Moves(r), TableStep(r), NEW q \in Reader \ {r}
  PROVE  ReaderOK(q)'
PROOF
<1>1. PICK t : t = body[q].trace_id
  OBVIOUS
<1>2. /\ ReaderOK(q) /\ q \in Request
      /\ pc'[q] = pc[q] /\ body'[q] = body[q] /\ loaded'[q] = loaded[q] /\ answer'[q] = answer[q]
  BY Distinct DEF Inv, Moves
<1>3. PastStays
  BY TableStepKeeps
<1>4. Succeeded(q)' = Succeeded(q)
  BY <1>2 DEF Succeeded
<1>5. /\ pc[q] # "idle" => t \in Creator
      /\ Succeeded(q) => pc[q] = "done"
  BY <1>1, <1>2 DEF ReaderOK, ReadBody, Inv, TypeOK, Succeeded
<1>6. ASSUME t \in Creator, Stored(t)
      PROVE  Stored(t)' /\ \A rows : IsPrefix(rows, t) => IsPrefix(rows, t)'
  BY <1>3, <1>6, PrefixStays DEF PastStays
<1>7. /\ pc[q] \in {"idle", "read_case", "read_events", "done"}
      /\ pc[q] # "idle" => body[q] \in ReadBody
      /\ pc[q] = "read_events" =>
           Stored(t) /\ (Isolation = "REPEATABLE READ" => IsPrefix(loaded[q], t))
      /\ Succeeded(q) => Stored(t) /\ IsPrefix(answer[q].rows, t)
  BY <1>1, <1>2 DEF ReaderOK
<1>8. pc'[q] = "read_events" =>
        Stored(t)' /\ (Isolation = "REPEATABLE READ" => IsPrefix(loaded[q], t)')
  BY <1>2, <1>5, <1>6, <1>7
<1>9. Succeeded(q)' => Stored(t)' /\ IsPrefix(answer[q].rows, t)'
  BY <1>2, <1>4, <1>5, <1>6, <1>7
<1> QED
  BY <1>1, <1>2, <1>4, <1>7, <1>8, <1>9 DEF ReaderOK


-----------------------------------------------------------------------------
(* A step of a call: what is left to show of each action. *)

\* A call that has been received is answered when it is done, and only then.
Shaped(r) ==
  /\ pc[r] # "idle"
  /\ answer[r] \in Answer \cup {NULL} /\ (answer[r] # NULL <=> pc[r] = "done")
  /\ pc[r] \notin {"insert_event", "commit"} => draft[r] = NoDraft

CallOK(r) ==
  /\ r \in Creator => CreatorOK(r)
  /\ r \in Controller => ControllerOK(r)
  /\ r \in Reader => ReaderOK(r)

StepOf(r) == Moves(r) /\ TableStep(r) /\ Typed' /\ Shaped(r)' /\ CallOK(r)'

\* A step that does right by its own call does right by all of them.
LEMMA StepOfKeeps ==
  ASSUME Inv, NEW r \in Request, StepOf(r)
  PROVE  Inv'
PROOF
<1>1. Moves(r) /\ TableStep(r) /\ Typed' /\ Shaped(r)' /\ CallOK(r)'
  BY DEF StepOf
<1>2. TablesOK'
  BY <1>1, TableStepKeeps
<1>3. \A q \in Creator : CreatorOK(q)'
  <2>1. r \in Creator => CreatorOK(r)'
    BY <1>1 DEF CallOK
  <2>2. \A q \in Creator \ {r} : CreatorOK(q)'
    BY <1>1, <2>1, CreatorsStay
  <2> QED
    BY <2>1, <2>2
<1>4. \A q \in Controller : ControllerOK(q)'
  <2>1. r \in Controller => ControllerOK(r)'
    BY <1>1 DEF CallOK
  <2>2. \A q \in Controller \ {r} : ControllerOK(q)'
    BY <1>1, <2>1, ControllersStay
  <2> QED
    BY <2>1, <2>2
<1>5. \A q \in Reader : ReaderOK(q)'
  <2>1. r \in Reader => ReaderOK(r)'
    BY <1>1 DEF CallOK
  <2>2. \A q \in Reader \ {r} : ReaderOK(q)'
    BY <1>1, ReadersStay
  <2> QED
    BY <2>1, <2>2
<1>6. ASSUME NEW q \in Request
      PROVE  /\ answer'[q] \in Answer \cup {NULL} /\ (answer'[q] # NULL <=> pc'[q] = "done")
             /\ pc'[q] = "idle" => body'[q] = NULL
             /\ pc'[q] \notin {"insert_event", "commit"} => draft'[q] = NoDraft
  <2>1. CASE q = r
    BY <1>1, <2>1 DEF Shaped
  <2>2. CASE q # r
    BY <1>1, <2>2 DEF Moves, Inv, TypeOK, CallsShaped
  <2> QED
    BY <2>1, <2>2
<1>7. TypeOK'
  <2>1. answer' \in [Request -> Answer \cup {NULL}]
    BY <1>1, <1>6 DEF Typed
  <2> QED
    BY <1>1, <1>2, <1>6, <2>1 DEF TypeOK, Typed, TablesOK
<1>8. CallsShaped'
  BY <1>1, <1>6 DEF CallsShaped, Typed
<1> QED
  BY <1>2, <1>3, <1>4, <1>5, <1>7, <1>8 DEF Inv, TablesOK

LEMMA AnswersTyped ==
  /\ \A kind \in AnswerKind : Refusal(kind) \in Answer
  /\ \A rows : rows \subseteq EventRow => View(rows) \in Answer
PROOF
BY DEF Answer, AnswerKind, Refusal, View

\* A call goes on to its next statement.
LEMMA GoesOn ==
  ASSUME Inv, NEW r \in Request, NEW label \in Label \ {"idle", "done"}, Goto(r, label),
         pc[r] \notin {"idle", "done"},
         loaded' = loaded \/ \E rows : loaded' = [loaded EXCEPT ![r] = rows],
         draft' = draft \/ \E rows : draft' = [draft EXCEPT ![r] = rows],
         rowLock' = rowLock \/ \E t \in Creator : \E h \in {NULL, r} \cap (Controller \cup {NULL}) :
                                 /\ rowLock[t] \in {NULL, r}
                                 /\ rowLock' = [rowLock EXCEPT ![t] = h],
         UNCHANGED <<body, answer>>,
         label \in {"insert_event", "commit"} \/ draft'[r] = NoDraft
  PROVE  Moves(r) /\ Typed' /\ Shaped(r)' /\ pc'[r] = label /\ answer'[r] = NULL /\ body' = body
PROOF
<1>1. pc' = [pc EXCEPT ![r] = label] /\ body' = body /\ answer' = answer
  BY DEF Goto
<1>2. Typed /\ answer[r] = NULL
  BY InvTyped DEF Inv, TypeOK
<1>3. /\ pc'[r] = label /\ pc' \in [Request -> Label]
      /\ \A q \in Request \ {r} : pc'[q] = pc[q]
  BY <1>1, <1>2 DEF Typed
<1>4. /\ loaded' = [q \in Request |-> loaded'[q]]
      /\ \A q \in Request \ {r} : loaded'[q] = loaded[q]
  BY <1>2 DEF Typed
<1>5. /\ draft' = [q \in Request |-> draft'[q]]
      /\ \A q \in Request \ {r} : draft'[q] = draft[q]
  BY <1>2 DEF Typed
<1>6. /\ rowLock' \in [Creator -> Controller \cup {NULL}]
      /\ \A t \in Creator : \/ rowLock'[t] = rowLock[t]
                            \/ rowLock[t] \in {NULL, r} /\ rowLock'[t] \in {NULL, r}
  BY <1>2 DEF Typed
<1>7. Moves(r)
  BY <1>1, <1>3, <1>4, <1>5, <1>6 DEF Moves
<1>8. Typed'
  BY <1>1, <1>2, <1>3, <1>4, <1>5, <1>6 DEF Typed
<1>9. Shaped(r)'
  BY <1>1, <1>2, <1>3 DEF Shaped
<1> QED
  BY <1>1, <1>2, <1>3, <1>7, <1>8, <1>9

\* A call ends with an answer.
LEMMA AnswersWith ==
  ASSUME Inv, NEW r \in Request, NEW a \in Answer, Finish(r, a), pc[r] \notin {"idle", "done"}
  PROVE  /\ Moves(r) /\ Typed' /\ Shaped(r)' /\ body' = body
         /\ pc'[r] = "done" /\ answer'[r] = a
PROOF
<1>1. /\ Typed' /\ Moves(r) /\ body' = body
      /\ pc'[r] = "done" /\ answer'[r] = a /\ draft'[r] = NoDraft
  BY InvTyped, FinishEnds
<1>2. a # NULL
  BY Distinct
<1>3. Shaped(r)'
  BY <1>1, <1>2 DEF Shaped
<1> QED
  BY <1>1, <1>3

\* The key of call r has acted for another command of its trace.
KeySpent(r) ==
  \E q \in Controller : \E e \in TraceRows(body[r].trace_id) :
    /\ OwnedBy(e, q)
    /\ body[q].idempotency_key = body[r].idempotency_key
    /\ body[q] # body[r]

\* A creator that stored nothing has no row yet.
LEMMA NotStored ==
  ASSUME Inv, NEW r \in Creator, pc[r] # "done"
  PROVE  ~ Stored(r)
PROOF
BY DEF Inv, CreatorOK, MayHaveActed

\* A call ends without having committed anything.
LEMMA Refuses ==
  ASSUME Inv, NEW r \in Request, NEW kind \in AnswerKind \ {"view"},
         Finish(r, Refusal(kind)), UNCHANGED database, pc[r] \notin {"idle", "done"},
         r \in Creator /\ kind = "case_exists" => \E c \in cases : c.case_id = body[r].case_id,
         r \in Controller /\ kind = "key_conflict" => KeySpent(r),
         r \in Controller /\ kind = "integrity_error" => Isolation # "READ COMMITTED"
  PROVE  StepOf(r)
PROOF
<1>1. /\ Moves(r) /\ Typed' /\ Shaped(r)' /\ body' = body
      /\ pc'[r] = "done" /\ answer'[r] = Refusal(kind)
  BY AnswersTyped, AnswersWith
<1>2. TableStep(r) /\ cases' = cases /\ events' = events
  BY DEF TableStep, database
<1>3. ~ Succeeded(r)' /\ \A k : Refused(r, k)' => k = kind
  <2>1. Refusal(kind).kind = kind
    BY DEF Refusal
  <2>2. kind # "view"
    OBVIOUS
  <2>3. ASSUME NEW k, Refused(r, k)' PROVE k = kind
    BY <1>1, <2>1, <2>3 DEF Refused
  <2> QED
    BY <1>1, <2>1, <2>2, <2>3 DEF Succeeded
<1>4. ASSUME r \in Creator PROVE CreatorOK(r)'
  <2>1. ~ Stored(r) /\ ~ Stored(r)' /\ body[r] \in CreateBody
    BY <1>2, <1>4, NotStored DEF Stored, Inv, CreatorOK
  <2>2. Refused(r, "case_exists")' =>
          \E c \in cases' : c.case_id = body'[r].case_id /\ c.trace_id # r
    BY <1>1, <1>2, <1>3, <1>4, <2>1 DEF Stored
  <2> QED
    BY <1>1, <1>3, <2>1, <2>2 DEF CreatorOK
<1>5. ASSUME r \in Controller PROVE ControllerOK(r)'
  <2>1. body[r] \in ControlBody
    BY <1>5 DEF Inv, ControllerOK
  <2>2. ASSUME Refused(r, "key_conflict")' PROVE KeySpent(r)'
    <3>1. KeySpent(r)
      BY <1>3, <1>5, <2>2
    <3>2. PICK q \in Controller : \E e \in TraceRows(body[r].trace_id) :
            /\ OwnedBy(e, q)
            /\ body[q].idempotency_key = body[r].idempotency_key
            /\ body[q] # body[r]
      BY <3>1 DEF KeySpent
    <3>3. PICK e \in TraceRows(body[r].trace_id) :
            /\ OwnedBy(e, q)
            /\ body[q].idempotency_key = body[r].idempotency_key
            /\ body[q] # body[r]
      BY <3>2
    <3>4. OwnedBy(e, q)'
      BY <1>1, <3>3, OwnersStay
    <3>5. e \in TraceRows(body[r].trace_id)'
      BY <1>1, <1>2 DEF TraceRows
    <3> QED
      BY <1>1, <3>3, <3>4, <3>5 DEF KeySpent
  <2>3. Isolation = "READ COMMITTED" => ~ Refused(r, "integrity_error")'
    BY <1>3, <1>5
  <2> QED
    BY <1>1, <1>3, <2>1, <2>2, <2>3 DEF ControllerOK, KeySpent
<1>6. ASSUME r \in Reader PROVE ReaderOK(r)'
  BY <1>1, <1>3, <1>6 DEF Inv, ReaderOK
<1> QED
  BY <1>1, <1>2, <1>4, <1>5, <1>6 DEF StepOf, CallOK

-----------------------------------------------------------------------------
(* The actions of a call that commit nothing. *)

\* A call arrives.
LEMMA Arrives ==
  ASSUME Inv, NEW r \in Request, NEW b \in CreateBody \cup ControlBody \cup ReadBody,
         NEW label \in Label \ {"idle", "insert_event", "commit"}, pc[r] = "idle",
         body' = [body EXCEPT ![r] = b], Goto(r, label), UNCHANGED <<rowLock, loaded, draft>>,
         \/ answer' = answer /\ label # "done"
         \/ label = "done" /\ answer' = [answer EXCEPT ![r] = Refusal("invalid")]
  PROVE  /\ Moves(r) /\ Typed' /\ Shaped(r)' /\ pc'[r] = label /\ body'[r] = b
         /\ ~ Succeeded(r)' /\ \A kind : Refused(r, kind)' => kind = "invalid"
PROOF
<1>1. Typed /\ answer[r] = NULL /\ draft[r] = NoDraft
  BY InvTyped DEF Inv, TypeOK, CallsShaped
<1>2. /\ pc' = [pc EXCEPT ![r] = label] /\ pc'[r] = label /\ body'[r] = b
      /\ rowLock' = rowLock /\ loaded' = loaded /\ draft' = draft
      /\ pc' \in [Request -> Label]
      /\ body' \in [Request -> CreateBody \cup ControlBody \cup ReadBody \cup {NULL}]
  BY <1>1 DEF Goto, Typed
<1>3. /\ answer'[r] = IF label = "done" THEN Refusal("invalid") ELSE NULL
      /\ \A q \in Request \ {r} : answer'[q] = answer[q]
      /\ DOMAIN answer' = Request /\ answer' = [q \in Request |-> answer'[q]]
  BY <1>1 DEF Typed
<1>4. Refusal("invalid") \in Answer /\ Refusal("invalid") # NULL
  BY AnswersTyped, Distinct DEF AnswerKind
<1>5. Moves(r)
  BY <1>1, <1>2, <1>3 DEF Moves, Typed
<1>6. Typed'
  BY <1>1, <1>2, <1>3 DEF Typed
<1>7. Shaped(r)'
  BY <1>1, <1>2, <1>3, <1>4 DEF Shaped
<1>8. Refusal("invalid").kind = "invalid"
  BY DEF Refusal
<1>9. ~ Succeeded(r)'
  BY <1>3, <1>8 DEF Succeeded
<1>10. ASSUME NEW kind, Refused(r, kind)' PROVE kind = "invalid"
  BY <1>3, <1>8, <1>10 DEF Refused
<1> QED
  BY <1>2, <1>5, <1>6, <1>7, <1>9, <1>10

LEMMA StepArriveCreate ==
  ASSUME Inv, NEW r \in Creator, ArriveCreate(r)
  PROVE  StepOf(r)
PROOF
<1>1. r \in Request /\ r \notin Controller /\ r \notin Reader
  BY Distinct
<1>2. PICK b \in CreateBody : body' = [body EXCEPT ![r] = b]
  BY DEF ArriveCreate
<1>3. pc[r] = "idle" /\ Goto(r, "exists") /\ UNCHANGED <<rowLock, loaded, draft, answer, database>>
  BY DEF ArriveCreate
<1>4. "exists" \in Label \ {"idle", "insert_event", "commit"}
  BY DEF Label
<1>5. /\ Moves(r) /\ Typed' /\ Shaped(r)' /\ pc'[r] = "exists" /\ body'[r] = b
      /\ ~ Succeeded(r)' /\ \A kind : Refused(r, kind)' => kind = "invalid"
  BY <1>1, <1>2, <1>3, <1>4, Arrives
<1>6. ~ Stored(r)'
  BY <1>3, NotStored DEF Stored, database
<1>7. CreatorOK(r)'
  BY <1>5, <1>6 DEF CreatorOK
<1> QED
  BY <1>1, <1>3, <1>5, <1>7 DEF StepOf, CallOK, TableStep

LEMMA StepArriveControl ==
  ASSUME Inv, NEW r \in Controller, ArriveControl(r)
  PROVE  StepOf(r)
PROOF
<1>1. r \in Request /\ r \notin Creator /\ r \notin Reader
  BY Distinct
<1>2. PICK b \in ControlBody :
        /\ body' = [body EXCEPT ![r] = b]
        /\ IF ValidControl(b)
           THEN Goto(r, "begin") /\ UNCHANGED answer
           ELSE Goto(r, "done") /\ answer' = [answer EXCEPT ![r] = Refusal("invalid")]
  BY DEF ArriveControl
<1>3. pc[r] = "idle" /\ UNCHANGED <<rowLock, loaded, draft, database>>
  BY DEF ArriveControl
<1>4. {"begin", "done"} \subseteq Label \ {"idle", "insert_event", "commit"}
  BY DEF Label
<1>5. /\ Moves(r) /\ Typed' /\ Shaped(r)' /\ pc'[r] \in {"begin", "done"} /\ body'[r] = b
      /\ ~ Succeeded(r)' /\ \A kind : Refused(r, kind)' => kind = "invalid"
  <2>1. CASE ValidControl(b)
    BY <1>1, <1>2, <1>3, <1>4, <2>1, Arrives
  <2>2. CASE ~ ValidControl(b)
    BY <1>1, <1>2, <1>3, <1>4, <2>2, Arrives
  <2> QED
    BY <2>1, <2>2
<1>6. ~ Refused(r, "key_conflict")' /\ ~ Refused(r, "integrity_error")'
  BY <1>5
<1>7. ControllerOK(r)'
  BY <1>5, <1>6 DEF ControllerOK
<1> QED
  BY <1>1, <1>3, <1>5, <1>7 DEF StepOf, CallOK, TableStep

LEMMA StepArriveRead ==
  ASSUME Inv, NEW r \in Reader, ArriveRead(r)
  PROVE  StepOf(r)
PROOF
<1>1. r \in Request /\ r \notin Creator /\ r \notin Controller
  BY Distinct
<1>2. PICK b \in ReadBody : body' = [body EXCEPT ![r] = b]
  BY DEF ArriveRead
<1>3. /\ pc[r] = "idle" /\ Goto(r, "read_case")
      /\ UNCHANGED <<rowLock, loaded, draft, answer, database>>
  BY DEF ArriveRead
<1>4. "read_case" \in Label \ {"idle", "insert_event", "commit"}
  BY DEF Label
<1>5. /\ Moves(r) /\ Typed' /\ Shaped(r)' /\ pc'[r] = "read_case" /\ body'[r] = b
      /\ ~ Succeeded(r)'
  BY <1>1, <1>2, <1>3, <1>4, Arrives
<1>6. ReaderOK(r)'
  BY <1>5 DEF ReaderOK
<1> QED
  BY <1>1, <1>3, <1>5, <1>6 DEF StepOf, CallOK, TableStep

LEMMA StepCaseIdExists ==
  ASSUME Inv, NEW r \in Creator, CaseIdExists(r)
  PROVE  StepOf(r)
PROOF
<1>1. r \in Request /\ r \notin Controller /\ r \notin Reader
  BY Distinct
<1>2. pc[r] = "exists" /\ UNCHANGED database
  BY DEF CaseIdExists
<1>3. CASE \E c \in cases : c.case_id = body[r].case_id
  <2>1. Finish(r, Refusal("case_exists"))
    BY <1>3 DEF CaseIdExists
  <2>2. "case_exists" \in AnswerKind \ {"view"}
    BY DEF AnswerKind
  <2> QED
    BY <1>1, <1>2, <1>3, <2>1, <2>2, Refuses
<1>4. CASE ~ \E c \in cases : c.case_id = body[r].case_id
  <2>1. Goto(r, "insert_trace") /\ UNCHANGED <<rowLock, body, loaded, draft, answer>>
    BY <1>4 DEF CaseIdExists
  <2>2. "insert_trace" \in Label \ {"idle", "done"} /\ draft[r] = NoDraft
    BY <1>1, <1>2 DEF Label, Inv, CallsShaped
  <2>3. /\ Moves(r) /\ Typed' /\ Shaped(r)' /\ pc'[r] = "insert_trace"
        /\ answer'[r] = NULL /\ body' = body
    BY <1>1, <1>2, <2>1, <2>2, GoesOn
  <2>4. ~ Stored(r)'
    BY <1>2, NotStored DEF Stored, database
  <2>5. ~ Succeeded(r)' /\ ~ Refused(r, "case_exists")'
    BY <2>3 DEF Succeeded, Refused
  <2>6. body[r] \in CreateBody
    BY <1>2 DEF Inv, CreatorOK
  <2>7. CreatorOK(r)'
    BY <2>3, <2>4, <2>5, <2>6 DEF CreatorOK
  <2> QED
    BY <1>1, <1>2, <2>3, <2>7 DEF StepOf, CallOK, TableStep
<1> QED
  BY <1>3, <1>4

LEMMA StepInsertTrace ==
  ASSUME Inv, NEW r \in Creator, InsertTrace(r)
  PROVE  StepOf(r)
PROOF
<1>1. r \in Request /\ r \notin Controller /\ r \notin Reader
  BY Distinct
<1>2. /\ pc[r] = "insert_trace" /\ UNCHANGED database
      /\ \A q \in Creator \ {r} : ~ CaseIdTaken(body[r].case_id, draft[q].cases)
  BY DEF InsertTrace
<1>3. CASE CaseIdTaken(body[r].case_id, cases)
  <2>1. Finish(r, Refusal("case_exists")) /\ \E c \in cases : c.case_id = body[r].case_id
    BY <1>3 DEF InsertTrace, CaseIdTaken
  <2>2. "case_exists" \in AnswerKind \ {"view"}
    BY DEF AnswerKind
  <2> QED
    BY <1>1, <1>2, <2>1, <2>2, Refuses
<1>4. CASE ~ CaseIdTaken(body[r].case_id, cases)
  <2>1. /\ Goto(r, "commit") /\ UNCHANGED <<rowLock, body, loaded, answer>>
        /\ draft' = [draft EXCEPT ![r] = CreatedDraft(r)]
    BY <1>4 DEF InsertTrace, CreatedDraft
  <2>2. "commit" \in Label \ {"idle", "done"}
    BY DEF Label
  <2>3. /\ Moves(r) /\ Typed' /\ Shaped(r)' /\ pc'[r] = "commit"
        /\ answer'[r] = NULL /\ body' = body
    BY <1>1, <1>2, <2>1, <2>2, GoesOn
  <2>4. ~ Stored(r)'
    BY <1>2, NotStored DEF Stored, database
  <2>5. ~ Succeeded(r)' /\ ~ Refused(r, "case_exists")'
    BY <2>3 DEF Succeeded, Refused
  <2>6. body[r] \in CreateBody
    BY <1>2 DEF Inv, CreatorOK
  <2>7. draft'[r] = CreatedDraft(r)'
    <3>1. CreatedDraft(r)' = CreatedDraft(r)
      BY <2>3 DEF CreatedDraft, NewCase, NewRows
    <3> QED
      BY <1>1, <2>1, <3>1 DEF Inv, CallsShaped
  <2>8. ASSUME NEW q \in Creator \ {r}, pc'[q] = "commit"
        PROVE  body'[q].case_id # body'[r].case_id
    <3>1. pc[q] = "commit"
      BY <2>3, <2>8, Distinct DEF Moves
    <3>2. draft[q] = CreatedDraft(q)
      BY <3>1 DEF Inv, CreatorOK
    <3>3. draft[q].cases = {NewCase(q)}
      BY <3>2 DEF CreatedDraft
    <3>4. NewCase(q).case_id = body[q].case_id
      BY DEF NewCase
    <3> QED
      BY <1>2, <2>3, <3>3, <3>4 DEF CaseIdTaken
  <2>9. ~ CaseIdTaken(body'[r].case_id, cases')
    BY <1>2, <1>4, <2>3 DEF database
  <2>10. CreatorOK(r)'
    BY <2>3, <2>4, <2>5, <2>6, <2>7, <2>8, <2>9 DEF CreatorOK
  <2> QED
    BY <1>1, <1>2, <2>3, <2>10 DEF StepOf, CallOK, TableStep
<1> QED
  BY <1>3, <1>4

\* A call without an answer has neither succeeded nor been refused.
LEMMA Unanswered ==
  ASSUME NEW r, answer'[r] = NULL
  PROVE  /\ ~ Succeeded(r)' /\ ~ Refused(r, "case_exists")'
         /\ ~ Refused(r, "key_conflict")' /\ ~ Refused(r, "integrity_error")'
PROOF
BY DEF Succeeded, Refused

\* The whole history of a trace is a prefix of it.
LEMMA WholeIsPrefix ==
  ASSUME Inv, NEW t \in Creator, Stored(t)
  PROVE  IsPrefix(TraceRows(t), t)
PROOF
<1>1. HistoryLength(t) \in 3..HistoryLength(t)
  BY StoredRows
<1>2. RowsUpTo(t, HistoryLength(t)) = TraceRows(t)
  BY <1>1, PrefixRows
<1> QED
  BY <1>1, <1>2 DEF IsPrefix

\* Where nothing is committed, prefixes are as they were.
LEMMA PrefixUnchanged ==
  ASSUME UNCHANGED database, NEW t, NEW rows
  PROVE  /\ IsPrefix(rows, t)' <=> IsPrefix(rows, t)
         /\ Stored(t)' <=> Stored(t)
         /\ TraceRows(t)' = TraceRows(t) /\ OutcomeOf(t)' = OutcomeOf(t)
PROOF
<1>1. cases' = cases /\ events' = events
  BY DEF database
<1>2. TraceRows(t)' = TraceRows(t)
  BY <1>1 DEF TraceRows
<1>3. HistoryLength(t)' = HistoryLength(t)
  BY <1>2 DEF HistoryLength
<1>4. \A k : RowsUpTo(t, k)' = RowsUpTo(t, k)
  BY <1>2 DEF RowsUpTo
<1> QED
  BY <1>1, <1>2, <1>3, <1>4 DEF IsPrefix, Stored, OutcomeOf

LEMMA StepBeginControl ==
  ASSUME Inv, NEW r \in Controller, BeginControl(r)
  PROVE  StepOf(r)
PROOF
<1>1. r \in Request /\ r \notin Creator /\ r \notin Reader
  BY Distinct
<1>2. pc[r] = "begin" /\ UNCHANGED database /\ body[r] \in ControlBody
  BY DEF BeginControl, Inv, ControllerOK
<1> DEFINE t == body[r].trace_id
<1>3. CASE ~ Stored(t)
  <2>1. Finish(r, Refusal("not_found"))
    BY <1>3 DEF BeginControl
  <2>2. "not_found" \in AnswerKind \ {"view"}
    BY DEF AnswerKind
  <2> QED
    BY <1>1, <1>2, <2>1, <2>2, Refuses
<1>4. CASE Stored(t)
  <2>1. /\ Goto(r, "lock") /\ UNCHANGED <<rowLock, body, draft, answer>>
        /\ loaded' = [loaded EXCEPT ![r] = Snapshot(t)]
    BY <1>4 DEF BeginControl
  <2>2. /\ "lock" \in Label \ {"idle", "done"} /\ draft[r] = NoDraft
        /\ loaded'[r] = Snapshot(t) /\ t \in Creator
    BY <1>1, <1>2, <2>1 DEF Label, Inv, CallsShaped, ControlBody
  <2>3. /\ Moves(r) /\ Typed' /\ Shaped(r)' /\ pc'[r] = "lock"
        /\ answer'[r] = NULL /\ body' = body
    BY <1>1, <1>2, <2>1, <2>2, GoesOn
  <2>4. PICK u, rows : u = t /\ rows = loaded'[r]
    OBVIOUS
  <2>5. Isolation = "REPEATABLE READ" => IsPrefix(rows, u)
    BY <1>4, <2>2, <2>4, WholeIsPrefix DEF Snapshot
  <2>6. Stored(u)' /\ (Isolation = "REPEATABLE READ" => IsPrefix(rows, u)')
    BY <1>2, <1>4, <2>4, <2>5, PrefixUnchanged
  <2>7. ControllerOK(r)'
    BY <1>2, <2>3, <2>4, <2>6, Unanswered DEF ControllerOK
  <2> QED
    BY <1>1, <1>2, <2>3, <2>7 DEF StepOf, CallOK, TableStep
<1> QED
  BY <1>3, <1>4

LEMMA StepLockTrace ==
  ASSUME Inv, NEW r \in Controller, LockTrace(r)
  PROVE  StepOf(r)
PROOF
<1>1. r \in Request /\ r \notin Creator /\ r \notin Reader
  BY Distinct
<1>2. PICK t, rows : t = body[r].trace_id /\ rows = loaded[r]
  OBVIOUS
<1>3. /\ pc[r] = "lock" /\ UNCHANGED <<database, body, loaded, draft, answer>>
      /\ rowLock[t] = NULL /\ rowLock' = [rowLock EXCEPT ![t] = r] /\ Goto(r, "load")
  BY <1>2 DEF LockTrace, LockFree
<1>4. /\ body[r] \in ControlBody /\ t \in Creator /\ Stored(t)
      /\ Isolation = "REPEATABLE READ" => IsPrefix(rows, t)
  BY <1>2, <1>3 DEF Inv, ControllerOK, ControlBody
<1>5. "load" \in Label \ {"idle", "done"} /\ draft'[r] = NoDraft
  BY <1>1, <1>3 DEF Label, Inv, CallsShaped
<1>6. /\ Moves(r) /\ Typed' /\ Shaped(r)' /\ pc'[r] = "load"
      /\ answer'[r] = NULL /\ body' = body
  BY <1>1, <1>3, <1>4, <1>5, GoesOn
<1>7. rowLock'[t] = r
  BY <1>3, <1>4 DEF Inv, TypeOK
<1>8. Stored(t)' /\ (Isolation = "REPEATABLE READ" => IsPrefix(rows, t)') /\ loaded'[r] = rows
  BY <1>2, <1>3, <1>4, PrefixUnchanged
<1>9. ControllerOK(r)'
  BY <1>2, <1>4, <1>6, <1>7, <1>8, Unanswered DEF ControllerOK
<1> QED
  BY <1>1, <1>3, <1>6, <1>9 DEF StepOf, CallOK, TableStep

LEMMA StepLoadEvents ==
  ASSUME Inv, NEW r \in Controller, LoadEvents(r)
  PROVE  StepOf(r)
PROOF
<1>1. r \in Request /\ r \notin Creator /\ r \notin Reader
  BY Distinct
<1>2. PICK t, rows : t = body[r].trace_id /\ rows = Visible(r, body[r].trace_id)
  OBVIOUS
<1>3. /\ pc[r] = "load" /\ UNCHANGED <<database, rowLock, body, draft, answer>>
      /\ loaded' = [loaded EXCEPT ![r] = rows] /\ Goto(r, "receipt")
  BY <1>2 DEF LoadEvents
<1>4. /\ body[r] \in ControlBody /\ t \in Creator /\ Stored(t) /\ rowLock[t] = r
      /\ Isolation = "REPEATABLE READ" => IsPrefix(loaded[r], t)
  BY <1>2, <1>3 DEF Inv, ControllerOK, ControlBody
<1>5. /\ "receipt" \in Label \ {"idle", "done"} /\ draft'[r] = NoDraft
      /\ loaded'[r] = rows
  BY <1>1, <1>3 DEF Label, Inv, CallsShaped
<1>6. /\ Moves(r) /\ Typed' /\ Shaped(r)' /\ pc'[r] = "receipt"
      /\ answer'[r] = NULL /\ body' = body
  BY <1>1, <1>3, <1>4, <1>5, GoesOn
<1>7. IsPrefix(rows, t) /\ (Isolation = "READ COMMITTED" => rows = TraceRows(t))
  <2>1. CASE Isolation = "READ COMMITTED"
    BY <1>2, <1>4, <2>1, WholeIsPrefix DEF Visible
  <2>2. CASE Isolation = "REPEATABLE READ"
    BY <1>2, <1>4, <2>2 DEF Visible
  <2> QED
    BY <2>1, <2>2, ChoiceAssumption
<1>8. /\ Stored(t)' /\ IsPrefix(rows, t)'
      /\ Isolation = "READ COMMITTED" => rows = TraceRows(t)'
  BY <1>3, <1>4, <1>7, PrefixUnchanged
<1>9. ControllerOK(r)'
  BY <1>2, <1>3, <1>4, <1>5, <1>6, <1>8, Unanswered DEF ControllerOK
<1> QED
  BY <1>1, <1>3, <1>6, <1>9 DEF StepOf, CallOK, TableStep

\* What a call that has loaded its events sees is what it has loaded.
LEMMA SeesLoaded ==
  ASSUME Inv, NEW r \in Controller, pc[r] \in {"receipt", "insert_event", "commit"},
         NEW t, t = body[r].trace_id
  PROVE  /\ body[r] \in ControlBody /\ t \in Creator /\ Stored(t) /\ rowLock[t] = r
         /\ Visible(r, t) = loaded[r] /\ loaded[r] \subseteq TraceRows(t)
         /\ IsPrefix(loaded[r], t) /\ (Isolation = "READ COMMITTED" => loaded[r] = TraceRows(t))
PROOF
<1>1. /\ body[r] \in ControlBody /\ Stored(t) /\ rowLock[t] = r /\ IsPrefix(loaded[r], t)
      /\ Isolation = "READ COMMITTED" => loaded[r] = TraceRows(t)
  BY DEF Inv, ControllerOK
<1>2. t \in Creator
  BY <1>1 DEF ControlBody
<1>3. loaded[r] \subseteq TraceRows(t)
  BY <1>1 DEF IsPrefix, RowsUpTo
<1> QED
  BY <1>1, <1>2, <1>3 DEF Visible

\* A stored row with a key is the effect of the call that sent the key; the
\* fingerprints tell whether that was the same command.
LEMMA ReceiptOwner ==
  ASSUME Inv, NEW r \in Controller, body[r] \in ControlBody,
         NEW e \in Receipts(body[r], TraceRows(body[r].trace_id))
  PROVE  \E q \in Controller :
           /\ OwnedBy(e, q)
           /\ body[q].idempotency_key = body[r].idempotency_key
           /\ body[r].idempotency_key # NULL
           /\ body[q] = body[r] <=> e.command_fingerprint = CommandFingerprint(body[r])
PROOF
<1>1. /\ e \in events /\ e.trace_id = body[r].trace_id
      /\ e.idempotency_key = body[r].idempotency_key /\ body[r].idempotency_key # NULL
  BY DEF Receipts, TraceRows
<1>2. e.trace_id \in Creator
  BY <1>1 DEF ControlBody
<1>3. e \notin NewRows(e.trace_id)
  BY <1>1, <1>2, NewRowsFacts
<1>4. PICK q \in Controller : OwnedBy(e, q)
  BY <1>1, <1>3 DEF Inv, RowsOK
<1>5. body[q] \in ControlBody
  BY <1>4 DEF Inv, ControllerOK, OwnedBy, MayHaveActed
<1>6. /\ body[q].trace_id = body[r].trace_id
      /\ body[q].idempotency_key = body[r].idempotency_key
      /\ e.command_fingerprint = CommandFingerprint(body[q])
  BY <1>1, <1>4 DEF OwnedBy
<1>7. ASSUME CommandFingerprint(body[q]) = CommandFingerprint(body[r])
      PROVE  body[q] = body[r]
  <2>1. /\ body[q].command = body[r].command
        /\ body[q].reason = body[r].reason
        /\ body[q].disposition = body[r].disposition
    BY <1>7 DEF CommandFingerprint
  <2> QED
    BY <1>5, <1>6, <2>1 DEF ControlBody
<1> QED
  BY <1>1, <1>4, <1>6, <1>7

\* A receipt of the same command tells what to show.
LEMMA ReceiptShows ==
  ASSUME Inv, NEW r \in Controller, body[r] \in ControlBody, Stored(body[r].trace_id),
         NEW e \in Receipts(body[r], TraceRows(body[r].trace_id)),
         e.command_fingerprint = CommandFingerprint(body[r]),
         NEW rows, IsPrefix(rows, body[r].trace_id), e \in rows
  PROVE  ShownTo(r, ReplayedRows(rows, e))
PROOF
<1> DEFINE t == body[r].trace_id
<1>1. PICK k \in 3..HistoryLength(t) : rows = RowsUpTo(t, k)
  BY DEF IsPrefix
<1>2. t \in Creator /\ HistoryLength(t) \in Nat
  BY StoredRows DEF ControlBody
<1>3. /\ e \in TraceRows(t) /\ e.event.sequence_number <= k
      /\ \A f \in TraceRows(t) : f.event.sequence_number \in 1..HistoryLength(t)
  BY <1>1, <1>2, StoredRows DEF RowsUpTo
<1>4. ReplayedRows(rows, e) = RowsUpTo(t, e.event.sequence_number)
  <2>1. \A f \in TraceRows(t) : f.event.sequence_number <= e.event.sequence_number
                                  => f.event.sequence_number <= k
    BY <1>2, <1>3
  <2> QED
    BY <1>1, <2>1 DEF RowsUpTo, ReplayedRows
<1>5. PICK q \in Controller :
        /\ OwnedBy(e, q) /\ body[r].idempotency_key # NULL
        /\ body[q] = body[r] <=> e.command_fingerprint = CommandFingerprint(body[r])
  BY ReceiptOwner
<1> QED
  BY <1>3, <1>4, <1>5 DEF ShownTo

LEMMA StepReplayReceipt ==
  ASSUME Inv, NEW r \in Controller, ReplayReceipt(r)
  PROVE  StepOf(r)
PROOF
<1>1. r \in Request /\ r \notin Creator /\ r \notin Reader
  BY Distinct
<1>2. PICK t, rows : t = body[r].trace_id /\ rows = loaded[r]
  OBVIOUS
<1>3. /\ pc[r] = "receipt" /\ UNCHANGED <<database, rowLock, body, loaded, answer>>
      /\ Goto(r, "commit")
  BY DEF ReplayReceipt
<1>4. /\ body[r] \in ControlBody /\ t \in Creator /\ Stored(t) /\ rowLock[t] = r
      /\ Visible(r, t) = rows /\ rows \subseteq TraceRows(t) /\ IsPrefix(rows, t)
      /\ Isolation = "READ COMMITTED" => rows = TraceRows(t)
  BY <1>2, <1>3, SeesLoaded
<1>5. PICK receipt \in Receipts(body[r], rows) :
        /\ receipt.command_fingerprint = CommandFingerprint(body[r])
        /\ draft' = [draft EXCEPT ![r].answer = View(ReplayedRows(rows, receipt))]
  BY <1>2, <1>4 DEF ReplayReceipt
<1>6. PICK shown : shown = ReplayedRows(rows, receipt)
  OBVIOUS
<1>7. ShownTo(r, shown)
  <2>1. receipt \in rows /\ receipt \in Receipts(body[r], TraceRows(t))
    BY <1>4 DEF Receipts
  <2> QED
    BY <1>2, <1>4, <1>5, <1>6, <2>1, ReceiptShows
<1>8. /\ draft' = [draft EXCEPT ![r] = [cases |-> {}, events |-> {}, answer |-> View(shown)]]
      /\ draft'[r] = [cases |-> {}, events |-> {}, answer |-> View(shown)]
  <2>1. draft = [q \in Request |-> draft[q]] /\ draft[r] = NoDraft
    BY <1>1, <1>3 DEF Inv, CallsShaped
  <2>2. [NoDraft EXCEPT !.answer = View(shown)]
        = [cases |-> {}, events |-> {}, answer |-> View(shown)]
    BY DEF NoDraft
  <2>3. draft' = [draft EXCEPT ![r] = [draft[r] EXCEPT !.answer = View(shown)]]
    BY <1>5, <1>6
  <2> QED
    BY <1>1, <2>1, <2>2, <2>3
<1>9. "commit" \in Label \ {"idle", "done"}
  BY DEF Label
<1>10. /\ Moves(r) /\ Typed' /\ Shaped(r)' /\ pc'[r] = "commit"
      /\ answer'[r] = NULL /\ body' = body
  BY <1>1, <1>3, <1>8, <1>9, GoesOn
<1>11. ShownTo(r, shown)'
  <2>1. PastStays
    BY <1>1, <1>3, <1>10, UnchangedTables
  <2> QED
    BY <1>1, <1>7, <1>10, <2>1, ShownStays
<1>12. Replays(r)'
  BY <1>8, <1>11 DEF Replays, View
<1>13. /\ Stored(t)' /\ IsPrefix(rows, t)' /\ rowLock'[t] = r /\ loaded'[r] = rows
       /\ Isolation = "READ COMMITTED" => rows = TraceRows(t)'
  BY <1>2, <1>3, <1>4, PrefixUnchanged
<1>14. ControllerOK(r)'
  BY <1>2, <1>4, <1>10, <1>12, <1>13, Unanswered DEF ControllerOK
<1> QED
  BY <1>1, <1>3, <1>10, <1>14 DEF StepOf, CallOK, TableStep

LEMMA StepRefuseReusedKey ==
  ASSUME Inv, NEW r \in Controller, RefuseReusedKey(r)
  PROVE  StepOf(r)
PROOF
<1>1. r \in Request /\ r \notin Creator /\ r \notin Reader
  BY Distinct
<1>2. /\ UNCHANGED database /\ Finish(r, Refusal("key_conflict"))
      /\ \E e \in Receipts(body[r], Visible(r, body[r].trace_id)) :
           e.command_fingerprint # CommandFingerprint(body[r])
  BY DEF RefuseReusedKey
<1>3. pc[r] = "receipt"
  BY DEF RefuseReusedKey
<1>4. /\ body[r] \in ControlBody
      /\ Visible(r, body[r].trace_id) \subseteq TraceRows(body[r].trace_id)
  <2>1. PICK t : t = body[r].trace_id
    OBVIOUS
  <2>2. body[r] \in ControlBody /\ Visible(r, t) = loaded[r] /\ loaded[r] \subseteq TraceRows(t)
    BY <1>3, <2>1, SeesLoaded
  <2> QED
    BY <2>1, <2>2
<1>5. PICK e \in Receipts(body[r], TraceRows(body[r].trace_id)) :
        e.command_fingerprint # CommandFingerprint(body[r])
  BY <1>2, <1>4 DEF Receipts
<1>6. KeySpent(r)
  <2>1. e \in TraceRows(body[r].trace_id)
    BY DEF Receipts
  <2> QED
    BY <1>4, <1>5, <2>1, ReceiptOwner DEF KeySpent
<1>7. "key_conflict" \in AnswerKind \ {"view"}
  BY DEF AnswerKind
<1> QED
  BY <1>1, <1>2, <1>3, <1>6, <1>7, Refuses

LEMMA StepRefuseIllegal ==
  ASSUME Inv, NEW r \in Controller, RefuseIllegal(r)
  PROVE  StepOf(r)
PROOF
<1>1. r \in Request /\ r \notin Creator /\ r \notin Reader
  BY Distinct
<1>2. pc[r] = "receipt" /\ UNCHANGED database /\ Finish(r, Refusal("illegal"))
  BY DEF RefuseIllegal
<1>3. "illegal" \in AnswerKind \ {"view"}
  BY DEF AnswerKind
<1> QED
  BY <1>1, <1>2, <1>3, Refuses

LEMMA StepPlanEvent ==
  ASSUME Inv, NEW r \in Controller, PlanEvent(r)
  PROVE  StepOf(r)
PROOF
<1>1. r \in Request /\ r \notin Creator /\ r \notin Reader
  BY Distinct
<1>2. PICK t, rows : t = body[r].trace_id /\ rows = loaded[r]
  OBVIOUS
<1>3. /\ pc[r] = "receipt" /\ UNCHANGED <<database, rowLock, body, loaded, answer>>
      /\ Goto(r, "insert_event")
      /\ draft' = [draft EXCEPT ![r] = PlannedDraft(r)]
      /\ LegalCommand(LoadedProjection(r), body[r].command)
  BY DEF PlanEvent, PlannedDraft
<1>4. /\ body[r] \in ControlBody /\ t \in Creator /\ Stored(t) /\ rowLock[t] = r
      /\ Visible(r, t) = rows /\ rows \subseteq TraceRows(t) /\ IsPrefix(rows, t)
      /\ Isolation = "READ COMMITTED" => rows = TraceRows(t)
  BY <1>2, <1>3, SeesLoaded
<1>5. Receipts(body[r], rows) = {}
  BY <1>2, <1>4 DEF PlanEvent
<1>6. "insert_event" \in Label \ {"idle", "done"}
  BY DEF Label
<1>7. /\ Moves(r) /\ Typed' /\ Shaped(r)' /\ pc'[r] = "insert_event"
      /\ answer'[r] = NULL /\ body' = body
  BY <1>1, <1>3, <1>6, GoesOn
<1>8. Plans(r)'
  <2>1. draft'[r] = PlannedDraft(r)
    BY <1>1, <1>3 DEF Inv, CallsShaped
  <2>2. OutcomeOf(t)' = OutcomeOf(t)
    BY <1>3, PrefixUnchanged
  <2>3. LoadedProjection(r)' = LoadedProjection(r)
    BY <1>2, <1>3, <2>2 DEF LoadedProjection
  <2>4. PlannedRow(r)' = PlannedRow(r)
    BY <1>3, <2>3 DEF PlannedRow
  <2>5. PlannedDraft(r)' = PlannedDraft(r)
    BY <1>3, <2>4 DEF PlannedDraft
  <2>6. (Receipts(body[r], loaded[r]) = {})'
    BY <1>2, <1>3, <1>5
  <2> QED
    BY <1>3, <2>1, <2>3, <2>5, <2>6 DEF Plans
<1>9. /\ Stored(t)' /\ IsPrefix(rows, t)' /\ rowLock'[t] = r /\ loaded'[r] = rows
      /\ Isolation = "READ COMMITTED" => rows = TraceRows(t)'
  BY <1>2, <1>3, <1>4, PrefixUnchanged
<1>10. ControllerOK(r)'
  BY <1>2, <1>4, <1>7, <1>8, <1>9, Unanswered DEF ControllerOK
<1> QED
  BY <1>1, <1>3, <1>7, <1>10 DEF StepOf, CallOK, TableStep

LEMMA StepInsertEvent ==
  ASSUME Inv, NEW r \in Controller, InsertEvent(r)
  PROVE  StepOf(r)
PROOF
<1>1. r \in Request /\ r \notin Creator /\ r \notin Reader
  BY Distinct
<1>2. PICK t, rows, row : t = body[r].trace_id /\ rows = loaded[r] /\ row = PlannedRow(r)
  OBVIOUS
<1>3. /\ pc[r] = "insert_event" /\ Goto(r, "commit")
      /\ UNCHANGED <<database, rowLock, body, loaded, draft, answer>>
  BY DEF InsertEvent
<1>4. /\ body[r] \in ControlBody /\ t \in Creator /\ Stored(t) /\ rowLock[t] = r
      /\ IsPrefix(rows, t)
      /\ Isolation = "READ COMMITTED" => rows = TraceRows(t)
  BY <1>2, <1>3, SeesLoaded
<1>5. "commit" \in Label \ {"idle", "done"}
  BY DEF Label
<1>6. /\ Moves(r) /\ Typed' /\ Shaped(r)' /\ pc'[r] = "commit"
      /\ answer'[r] = NULL /\ body' = body
  BY <1>1, <1>3, <1>5, GoesOn
<1>7. /\ LoadedProjection(r)' = LoadedProjection(r) /\ PlannedRow(r)' = row
      /\ PlannedDraft(r)' = PlannedDraft(r)
  <2>1. OutcomeOf(t)' = OutcomeOf(t)
    BY <1>3, PrefixUnchanged
  <2>2. LoadedProjection(r)' = LoadedProjection(r)
    BY <1>2, <1>3, <2>1 DEF LoadedProjection
  <2>3. PlannedRow(r)' = PlannedRow(r)
    BY <1>3, <2>2 DEF PlannedRow
  <2> QED
    BY <1>2, <1>3, <2>2, <2>3 DEF PlannedDraft
<1>8. Plans(r) /\ Plans(r)'
  <2>1. Plans(r)
    BY <1>3 DEF Inv, ControllerOK
  <2> QED
    BY <1>3, <1>7, <2>1 DEF Plans
<1>9. draft[r].events = {row}
  BY <1>2, <1>8 DEF Plans, PlannedDraft
<1>10. Apart(row, events \cup Uncommitted(r))
  BY <1>9 DEF InsertEvent, Apart
<1>11. Apart(row, events)
  BY <1>10 DEF Apart, SequenceTaken, KeyTaken
<1>12. ASSUME NEW q \in Controller \ {r}, pc[q] = "commit"
       PROVE  Apart(row, draft[q].events)
  <2>1. draft[q].events \subseteq Uncommitted(r)
    BY <1>12, Distinct DEF Uncommitted
  <2> QED
    BY <1>10, <2>1 DEF Apart, SequenceTaken, KeyTaken
<1>13. Inserted(r)'
  <2>1. \A q \in Controller \ {r} : pc'[q] = pc[q]
    BY <1>6, Distinct DEF Moves
  <2>2. events' = events /\ draft' = draft
    BY <1>3 DEF database
  <2>3. \A q \in Controller \ {r} : pc'[q] = "commit" => Apart(row, draft'[q].events)
    BY <1>12, <2>1, <2>2
  <2> QED
    BY <1>7, <1>11, <2>2, <2>3 DEF Inserted
<1>14. /\ Stored(t)' /\ IsPrefix(rows, t)' /\ rowLock'[t] = r /\ loaded'[r] = rows
       /\ Isolation = "READ COMMITTED" => rows = TraceRows(t)'
  BY <1>2, <1>3, <1>4, PrefixUnchanged
<1>15. ControllerOK(r)'
  BY <1>2, <1>4, <1>6, <1>8, <1>13, <1>14, Unanswered DEF ControllerOK
<1> QED
  BY <1>1, <1>3, <1>6, <1>15 DEF StepOf, CallOK, TableStep

\* A row that was planned on all rows of its trace clashes with none of them.
LEMMA NoClash ==
  ASSUME Inv, NEW r \in Controller, pc[r] = "insert_event",
         loaded[r] = TraceRows(body[r].trace_id)
  PROVE  Apart(PlannedRow(r), events)
PROOF
<1>1. PICK t, row : t = body[r].trace_id /\ row = PlannedRow(r)
  OBVIOUS
<1>2. Plans(r)
  BY DEF Inv, ControllerOK
<1>3. /\ t \in Creator /\ Stored(t) /\ row.trace_id = t
      /\ row.idempotency_key = body[r].idempotency_key
      /\ \E k \in 3..HistoryLength(t) : /\ loaded[r] = RowsUpTo(t, k)
                                        /\ row.event.sequence_number = k + 1
  BY <1>1, <1>2, PlannedRowFacts DEF Plans
<1>4. PICK k \in Nat : /\ loaded[r] = RowsUpTo(t, k)
                       /\ row.event.sequence_number = k + 1
  <2>1. HistoryLength(t) \in Nat
    BY <1>3, StoredRows
  <2>2. \A k \in 3..HistoryLength(t) : k \in Nat
    BY <2>1
  <2> QED
    BY <1>3, <2>2
<1>5. loaded[r] = TraceRows(t)
  BY <1>1
<1>6. ~ SequenceTaken(row, events)
  <2>1. SUFFICES ASSUME NEW e \in TraceRows(t), e.event.sequence_number = k + 1
                 PROVE  FALSE
    BY <1>3, <1>4 DEF SequenceTaken, TraceRows
  <2>2. e.event.sequence_number <= k
    BY <1>4, <1>5 DEF RowsUpTo
  <2> QED
    BY <1>4, <2>1, <2>2
<1>7. ~ KeyTaken(row, events)
  BY <1>1, <1>2, <1>3, <1>5 DEF Plans, KeyTaken, Receipts, TraceRows
<1> QED
  BY <1>1, <1>6, <1>7 DEF Apart

LEMMA StepInsertHitsSequence ==
  ASSUME Inv, NEW r \in Controller, InsertHitsSequence(r)
  PROVE  StepOf(r)
PROOF
<1>1. r \in Request /\ r \notin Creator /\ r \notin Reader
  BY Distinct
<1>2. /\ pc[r] = "insert_event" /\ UNCHANGED database /\ Finish(r, Refusal("integrity_error"))
      /\ \E row \in draft[r].events : SequenceTaken(row, events)
  BY DEF InsertHitsSequence
<1>3. Isolation # "READ COMMITTED"
  <2>1. Plans(r)
    BY <1>2 DEF Inv, ControllerOK
  <2>2. draft[r].events = {PlannedRow(r)}
    BY <2>1 DEF Plans, PlannedDraft
  <2>3. loaded[r] # TraceRows(body[r].trace_id)
    BY <1>2, <2>2, NoClash DEF Apart
  <2> QED
    BY <1>2, <2>3 DEF Inv, ControllerOK
<1>4. "integrity_error" \in AnswerKind \ {"view"}
  BY DEF AnswerKind
<1> QED
  BY <1>1, <1>2, <1>3, <1>4, Refuses

LEMMA StepInsertHitsKey ==
  ASSUME Inv, NEW r \in Controller, InsertHitsKey(r)
  PROVE  StepOf(r)
PROOF
<1>1. r \in Request /\ r \notin Creator /\ r \notin Reader
  BY Distinct
<1>2. PICK t : t = body[r].trace_id
  OBVIOUS
<1>3. /\ pc[r] = "insert_event" /\ UNCHANGED <<database, body, answer>> /\ Goto(r, "resolve")
      /\ \E row \in draft[r].events : KeyTaken(row, events)
      /\ loaded' = [loaded EXCEPT ![r] = {}]
      /\ draft' = [draft EXCEPT ![r] = NoDraft]
      /\ rowLock' = [rowLock EXCEPT ![t] = NULL]
  BY <1>2 DEF InsertHitsKey
<1>4. body[r] \in ControlBody /\ t \in Creator /\ Stored(t) /\ rowLock[t] = r /\ Plans(r)
  BY <1>2, <1>3, SeesLoaded DEF Inv, ControllerOK
<1>5. "resolve" \in Label \ {"idle", "done"} /\ draft'[r] = NoDraft
  BY <1>1, <1>3 DEF Label, Inv, CallsShaped
<1>6. /\ Moves(r) /\ Typed' /\ Shaped(r)' /\ pc'[r] = "resolve"
      /\ answer'[r] = NULL /\ body' = body
  BY <1>1, <1>3, <1>4, <1>5, GoesOn
<1>7. KeyTaken(PlannedRow(r), events)
  BY <1>3, <1>4 DEF Plans, PlannedDraft
<1>8. Isolation # "READ COMMITTED"
  <2>1. loaded[r] # TraceRows(body[r].trace_id)
    BY <1>3, <1>7, NoClash DEF Apart
  <2> QED
    BY <1>3, <2>1 DEF Inv, ControllerOK
<1>9. Receipts(body[r], TraceRows(t)) # {}
  <2>1. PlannedRow(r).trace_id = t /\ PlannedRow(r).idempotency_key = body[r].idempotency_key
    BY <1>2, <1>3, <1>4, PlannedRowFacts DEF Plans
  <2> QED
    BY <1>7, <2>1 DEF KeyTaken, Receipts, TraceRows
<1>10. (Receipts(body[r], TraceRows(t)) # {})'
  BY <1>3, <1>9, PrefixUnchanged
<1>11. ControllerOK(r)'
  BY <1>2, <1>3, <1>4, <1>6, <1>8, <1>10, Unanswered DEF ControllerOK
<1> QED
  BY <1>1, <1>3, <1>6, <1>11 DEF StepOf, CallOK, TableStep

LEMMA StepResolveConflict ==
  ASSUME Inv, NEW r \in Controller, ResolveConflict(r)
  PROVE  StepOf(r)
PROOF
<1>1. r \in Request /\ r \notin Creator /\ r \notin Reader
  BY Distinct
<1>2. PICK t, rows, same :
        /\ t = body[r].trace_id /\ rows = TraceRows(t)
        /\ same = {e \in Receipts(body[r], TraceRows(body[r].trace_id)) :
                     e.command_fingerprint = CommandFingerprint(body[r])}
  OBVIOUS
<1>3. /\ pc[r] = "resolve" /\ UNCHANGED database
      /\ Finish(r, IF same = {} THEN Refusal("key_conflict")
                   ELSE View(ReplayedRows(rows, CHOOSE e \in same : TRUE)))
  BY <1>2 DEF ResolveConflict
<1>4. body[r] \in ControlBody /\ t \in Creator /\ Receipts(body[r], TraceRows(t)) # {}
  BY <1>2, <1>3 DEF Inv, ControllerOK, ControlBody
<1>5. CASE same = {}
  <2>1. PICK e \in Receipts(body[r], TraceRows(body[r].trace_id)) :
          e.command_fingerprint # CommandFingerprint(body[r])
    BY <1>2, <1>4, <1>5
  <2>2. KeySpent(r)
    <3>1. e \in TraceRows(body[r].trace_id)
      BY DEF Receipts
    <3> QED
      BY <1>4, <2>1, <3>1, ReceiptOwner DEF KeySpent
  <2>3. "key_conflict" \in AnswerKind \ {"view"}
    BY DEF AnswerKind
  <2>4. Finish(r, Refusal("key_conflict"))
    BY <1>3, <1>5
  <2> QED
    BY <1>1, <1>3, <2>2, <2>3, <2>4, Refuses
<1>6. CASE same # {}
  <2>1. PICK e \in same : e = CHOOSE f \in same : TRUE
    BY <1>6
  <2>2. PICK shown : shown = ReplayedRows(rows, e)
    OBVIOUS
  <2>3. /\ e \in Receipts(body[r], TraceRows(body[r].trace_id)) /\ e \in rows
        /\ e.command_fingerprint = CommandFingerprint(body[r])
    BY <1>2, <2>1 DEF Receipts
  <2>4. Stored(t) /\ IsPrefix(rows, t) /\ rows \subseteq EventRow
    <3>1. e \in events /\ e.trace_id = t
      BY <1>2, <2>3 DEF TraceRows
    <3>2. Stored(t)
      BY <3>1 DEF Inv, RowsOK
    <3> QED
      BY <1>2, <1>4, <3>2, WholeIsPrefix, StoredRows
  <2>5. ShownTo(r, shown)
    BY <1>2, <1>4, <2>2, <2>3, <2>4, ReceiptShows
  <2>6. Finish(r, View(shown)) /\ View(shown) \in Answer
    <3>1. shown \subseteq EventRow
      BY <2>2, <2>4 DEF ReplayedRows
    <3> QED
      BY <1>3, <1>6, <2>1, <2>2, <3>1, AnswersTyped
  <2>7. /\ Moves(r) /\ Typed' /\ Shaped(r)' /\ body' = body
        /\ pc'[r] = "done" /\ answer'[r] = View(shown)
    BY <1>1, <1>3, <2>6, AnswersWith
  <2>8. ShownTo(r, shown)'
    <3>1. PastStays
      BY <1>1, <1>3, <2>7, UnchangedTables
    <3> QED
      BY <1>1, <2>5, <2>7, <3>1, ShownStays
  <2>9. /\ ~ Refused(r, "key_conflict")' /\ ~ Refused(r, "integrity_error")'
        /\ (answer[r].rows = shown)'
    BY <2>7 DEF Refused, View
  <2>10. ShownTo(r, answer[r].rows)'
    BY <2>8, <2>9 DEF ShownTo
  <2>11. ControllerOK(r)'
    BY <1>4, <2>7, <2>9, <2>10 DEF ControllerOK
  <2> QED
    BY <1>1, <1>3, <2>7, <2>11 DEF StepOf, CallOK, TableStep
<1> QED
  BY <1>5, <1>6

LEMMA StepReadCase ==
  ASSUME Inv, NEW r \in Reader, ReadCase(r)
  PROVE  StepOf(r)
PROOF
<1>1. r \in Request /\ r \notin Creator /\ r \notin Controller
  BY Distinct
<1>2. PICK t : t = body[r].trace_id
  OBVIOUS
<1>3. pc[r] = "read_case" /\ UNCHANGED database /\ body[r] \in ReadBody /\ t \in Creator
  BY <1>2 DEF ReadCase, Inv, ReaderOK, ReadBody
<1>4. CASE ~ Stored(t)
  <2>1. Finish(r, Refusal("not_found"))
    BY <1>2, <1>4 DEF ReadCase
  <2>2. "not_found" \in AnswerKind \ {"view"}
    BY DEF AnswerKind
  <2> QED
    BY <1>1, <1>3, <2>1, <2>2, Refuses
<1>5. CASE Stored(t)
  <2>1. /\ Goto(r, "read_events") /\ UNCHANGED <<rowLock, body, draft, answer>>
        /\ loaded' = [loaded EXCEPT ![r] = Snapshot(t)]
    BY <1>2, <1>5 DEF ReadCase
  <2>2. /\ "read_events" \in Label \ {"idle", "done"} /\ draft[r] = NoDraft
        /\ loaded'[r] = Snapshot(t)
    BY <1>1, <1>3, <2>1 DEF Label, Inv, CallsShaped
  <2>3. /\ Moves(r) /\ Typed' /\ Shaped(r)' /\ pc'[r] = "read_events"
        /\ answer'[r] = NULL /\ body' = body
    BY <1>1, <1>3, <2>1, <2>2, GoesOn
  <2>4. PICK rows : rows = loaded'[r]
    OBVIOUS
  <2>5. Isolation = "REPEATABLE READ" => IsPrefix(rows, t)
    BY <1>3, <1>5, <2>2, <2>4, WholeIsPrefix DEF Snapshot
  <2>6. Stored(t)' /\ (Isolation = "REPEATABLE READ" => IsPrefix(rows, t)')
    BY <1>3, <1>5, <2>5, PrefixUnchanged
  <2>7. ReaderOK(r)'
    BY <1>2, <1>3, <2>3, <2>4, <2>6, Unanswered DEF ReaderOK
  <2> QED
    BY <1>1, <1>3, <2>3, <2>7 DEF StepOf, CallOK, TableStep
<1> QED
  BY <1>4, <1>5

LEMMA StepReadEvents ==
  ASSUME Inv, NEW r \in Reader, ReadEvents(r)
  PROVE  StepOf(r)
PROOF
<1>1. r \in Request /\ r \notin Creator /\ r \notin Controller
  BY Distinct
<1>2. PICK t, rows : t = body[r].trace_id /\ rows = Visible(r, body[r].trace_id)
  OBVIOUS
<1>3. /\ pc[r] = "read_events" /\ UNCHANGED database /\ Finish(r, View(rows))
  BY <1>2 DEF ReadEvents
<1>4. /\ body[r] \in ReadBody /\ t \in Creator /\ Stored(t)
      /\ Isolation = "REPEATABLE READ" => IsPrefix(loaded[r], t)
  BY <1>2, <1>3 DEF Inv, ReaderOK, ReadBody
<1>5. IsPrefix(rows, t)
  <2>1. CASE Isolation = "READ COMMITTED"
    BY <1>2, <1>4, <2>1, WholeIsPrefix DEF Visible
  <2>2. CASE Isolation = "REPEATABLE READ"
    BY <1>2, <1>4, <2>2 DEF Visible
  <2> QED
    BY <2>1, <2>2, ChoiceAssumption
<1>6. View(rows) \in Answer
  <2>1. rows \subseteq EventRow
    BY <1>4, <1>5, PrefixRows DEF IsPrefix
  <2> QED
    BY <2>1, AnswersTyped
<1>7. /\ Moves(r) /\ Typed' /\ Shaped(r)' /\ body' = body
      /\ pc'[r] = "done" /\ answer'[r] = View(rows)
  BY <1>1, <1>3, <1>6, AnswersWith
<1>8. Stored(t)' /\ IsPrefix(rows, t)'
  BY <1>3, <1>4, <1>5, PrefixUnchanged
<1>9. answer'[r].rows = rows
  BY <1>7 DEF View
<1>10. ReaderOK(r)'
  BY <1>2, <1>4, <1>7, <1>8, <1>9 DEF ReaderOK
<1> QED
  BY <1>1, <1>3, <1>7, <1>10 DEF StepOf, CallOK, TableStep

LEMMA StepAbort ==
  ASSUME Inv, NEW r \in Request, Abort(r)
  PROVE  StepOf(r)
PROOF
<1>1. /\ pc[r] \notin {"idle", "done"} /\ UNCHANGED database
      /\ Finish(r, Refusal("connection_error"))
  BY DEF Abort
<1>2. "connection_error" \in AnswerKind \ {"view"}
  BY DEF AnswerKind
<1> QED
  BY <1>1, <1>2, Refuses

-----------------------------------------------------------------------------
(* Commits, heard of or not. *)

\* The commit of call r, whose answer is either built before it or an error.
Commits(r, a) ==
  /\ pc[r] = "commit"
  /\ cases' = cases \cup draft[r].cases
  /\ events' = events \cup draft[r].events
  /\ Finish(r, a)
  /\ a \in {draft[r].answer, Refusal("connection_error")}

LEMMA StepCreatorCommits ==
  ASSUME Inv, NEW r \in Creator, NEW a, Commits(r, a)
  PROVE  StepOf(r)
PROOF
<1>1. r \in Request /\ r \notin Controller /\ r \notin Reader
  BY Distinct
<1>2. pc[r] = "commit" /\ Finish(r, a) /\ a \in {draft[r].answer, Refusal("connection_error")}
  BY DEF Commits
<1>3. body[r] \in CreateBody /\ draft[r] = CreatedDraft(r)
  BY <1>2 DEF Inv, CreatorOK
<1>4. /\ draft[r].answer = View(NewRows(r))
      /\ cases' = cases \cup {NewCase(r)} /\ events' = events \cup NewRows(r)
  BY <1>3 DEF Commits, CreatedDraft
<1>5. a \in Answer
  <2>1. View(NewRows(r)) \in Answer
    BY NewRowsFacts, AnswersTyped
  <2>2. Refusal("connection_error") \in Answer
    BY AnswersTyped DEF AnswerKind
  <2> QED
    BY <1>2, <1>4, <2>1, <2>2
<1>6. /\ Moves(r) /\ Typed' /\ Shaped(r)' /\ body' = body
      /\ pc'[r] = "done" /\ answer'[r] = a
  BY <1>1, <1>2, <1>5, AnswersWith
<1>7. Creates(r)
  BY <1>2, <1>4, <1>6, NotStored DEF Creates
<1>8. Stored(r)'
  BY <1>6, <1>7, CreatesTables
<1>9. a.kind \in {"view", "connection_error"} /\ (a.kind = "view" => a.rows = NewRows(r))
  BY <1>2, <1>4 DEF View, Refusal
<1>10. MayHaveActed(r)'
  BY <1>6, <1>9 DEF MayHaveActed
<1>11. /\ Succeeded(r)' => answer'[r].rows = NewRows(r)'
       /\ ~ Refused(r, "case_exists")'
  BY <1>6, <1>9 DEF Succeeded, Refused, NewRows
<1>12. CreatorOK(r)'
  BY <1>3, <1>6, <1>8, <1>10, <1>11 DEF CreatorOK
<1> QED
  BY <1>1, <1>6, <1>7, <1>12 DEF StepOf, CallOK, TableStep

LEMMA StepControllerCommits ==
  ASSUME Inv, NEW r \in Controller, NEW a, Commits(r, a)
  PROVE  StepOf(r)
PROOF
<1>1. r \in Request /\ r \notin Creator /\ r \notin Reader
  BY Distinct
<1>2. /\ pc[r] = "commit" /\ Finish(r, a)
      /\ a \in {draft[r].answer, Refusal("connection_error")}
  BY DEF Commits
<1>3. PICK t : t = body[r].trace_id
  OBVIOUS
<1>4. /\ body[r] \in ControlBody /\ t \in Creator /\ Stored(t)
      /\ Replays(r) \/ (Plans(r) /\ Inserted(r))
  BY <1>2, <1>3 DEF Inv, ControllerOK, ControlBody
<1>5. Refusal("connection_error") \in Answer /\ Refusal("connection_error").kind = "connection_error"
  BY AnswersTyped DEF AnswerKind, Refusal
<1>6. ASSUME NEW rows, draft[r].answer = View(rows), rows \subseteq EventRow, TableStep(r),
             Finish(r, a) /\ Moves(r) => ShownTo(r, rows)'
      PROVE  StepOf(r)
  <2>1. a \in Answer /\ a.kind \in {"view", "connection_error"} /\ (a.kind = "view" => a.rows = rows)
    BY <1>2, <1>5, <1>6, AnswersTyped DEF View
  <2>2. /\ Moves(r) /\ Typed' /\ Shaped(r)' /\ body' = body
        /\ pc'[r] = "done" /\ answer'[r] = a
    BY <1>1, <1>2, <2>1, AnswersWith
  <2>3. ~ Refused(r, "key_conflict")' /\ ~ Refused(r, "integrity_error")'
    BY <2>1, <2>2 DEF Refused
  <2>4. Succeeded(r)' => ShownTo(r, answer[r].rows)'
    <3>1. SUFFICES ASSUME Succeeded(r)' PROVE ShownTo(r, answer[r].rows)'
      OBVIOUS
    <3>2. answer'[r].rows = rows
      BY <2>1, <2>2, <3>1 DEF Succeeded
    <3>3. ShownTo(r, rows)'
      BY <1>2, <1>6, <2>2
    <3> QED
      BY <3>2, <3>3 DEF ShownTo
  <2>5. ControllerOK(r)'
    BY <1>4, <2>2, <2>3, <2>4 DEF ControllerOK
  <2> QED
    BY <1>1, <1>6, <2>2, <2>5 DEF StepOf, CallOK
<1>7. CASE Replays(r)
  <2>1. PICK rows : rows = draft[r].answer.rows
    OBVIOUS
  <2>2. /\ draft[r].cases = {} /\ draft[r].events = {} /\ draft[r].answer = View(rows)
        /\ ShownTo(r, rows)
    BY <1>7, <2>1 DEF Replays
  <2>3. UNCHANGED database /\ TableStep(r)
    BY <2>2 DEF Commits, database, TableStep
  <2>4. rows \subseteq EventRow
    BY <2>2 DEF ShownTo, RowsUpTo, TraceRows, Inv, TypeOK
  <2>5. ASSUME Finish(r, a), Moves(r) PROVE ShownTo(r, rows)'
    <3>1. PastStays
      BY <1>1, <2>3, <2>5, UnchangedTables
    <3>2. body' = body
      BY <2>5 DEF Finish
    <3> QED
      BY <1>1, <2>2, <2>5, <3>1, <3>2, ShownStays
  <2> QED
    BY <1>6, <2>2, <2>3, <2>4, <2>5
<1>8. CASE Plans(r) /\ Inserted(r)
  <2>1. PICK row, N, rows : /\ row = PlannedRow(r) /\ N = HistoryLength(t)
                            /\ rows = loaded[r] \cup {row}
    OBVIOUS
  <2>2. draft[r].cases = {} /\ draft[r].events = {row} /\ draft[r].answer = View(rows)
    BY <1>8, <2>1 DEF Plans, PlannedDraft
  <2>3. Appends(r)
    <3>1. cases' = cases /\ events' = events \cup {PlannedRow(r)}
      BY <2>1, <2>2 DEF Commits
    <3>2. pc'[r] = "done" /\ answer'[r] = a
      BY <1>1, <1>2, InvTyped DEF Finish, Typed
    <3>3. a \in {View(loaded[r] \cup {PlannedRow(r)}), Refusal("connection_error")}
      BY <1>2, <2>1, <2>2
    <3> QED
      BY <1>2, <1>8, <3>1, <3>2, <3>3 DEF Appends
  <2>4. rows \subseteq EventRow
    <3>1. row \in EventRow
      BY <1>2, <1>8, <2>1, PlannedRowFacts DEF Plans
    <3>2. loaded[r] \subseteq TraceRows(t)
      BY <1>2, <1>3, SeesLoaded
    <3> QED
      BY <2>1, <3>1, <3>2 DEF TraceRows, Inv, TypeOK
  <2>5. ASSUME Finish(r, a), Moves(r) PROVE ShownTo(r, rows)'
    <3>1. /\ loaded[r] = TraceRows(t) /\ row.event.sequence_number = N + 1
          /\ TraceRows(t)' = TraceRows(t) \cup {row} /\ OwnedBy(row, r)'
          /\ RowsUpTo(t, N + 1)' = TraceRows(t)'
      BY <1>3, <2>1, <2>3, <2>5, AppendsTables
    <3>2. PICK n : n = row.event.sequence_number
      OBVIOUS
    <3>3. row \in TraceRows(t)' /\ rows = RowsUpTo(t, n)'
      BY <2>1, <3>1, <3>2
    <3>4. body' = body
      BY <2>5 DEF Finish
    <3> QED
      BY <1>3, <3>1, <3>2, <3>3, <3>4 DEF ShownTo
  <2>6. TableStep(r)
    BY <2>3 DEF TableStep
  <2> QED
    BY <1>6, <2>2, <2>4, <2>5, <2>6
<1> QED
  BY <1>4, <1>7, <1>8

LEMMA StepCommit ==
  ASSUME Inv, NEW r \in Request, Commit(r) \/ CommitLost(r)
  PROVE  StepOf(r)
PROOF
<1>1. PICK a : Commits(r, a)
  BY DEF Commit, CommitLost, Commits
<1>2. r \notin Reader
  BY <1>1 DEF Commits, Inv, ReaderOK
<1> QED
  BY <1>1, <1>2, StepCreatorCommits, StepControllerCommits DEF Request

-----------------------------------------------------------------------------
(* The invariant, and what follows from it. *)

LEMMA InitInv ==
  ASSUME Init
  PROVE  Inv
PROOF
<1>1. /\ cases = {} /\ events = {} /\ rowLock = [t \in Creator |-> NULL]
      /\ pc = [r \in Request |-> "idle"] /\ body = [r \in Request |-> NULL]
      /\ loaded = [r \in Request |-> {}] /\ draft = [r \in Request |-> NoDraft]
      /\ answer = [r \in Request |-> NULL]
  BY DEF Init
<1>2. \A r \in Request : /\ pc[r] = "idle" /\ body[r] = NULL /\ answer[r] = NULL
                         /\ ~ Succeeded(r) /\ \A kind : ~ Refused(r, kind)
  BY <1>1 DEF Succeeded, Refused
<1>3. \A t : ~ Stored(t)
  BY <1>1 DEF Stored
<1>4. TypeOK
  BY <1>1, <1>2 DEF TypeOK, Label
<1>5. CallsShaped
  BY <1>1 DEF CallsShaped
<1>6. CasesOK /\ RowsOK /\ HistoriesOK
  BY <1>1, <1>3 DEF CasesOK, RowsOK, HistoriesOK
<1>7. \A r \in Creator : CreatorOK(r)
  BY <1>2, <1>3, Distinct DEF CreatorOK
<1>8. \A r \in Controller : ControllerOK(r)
  BY <1>2, Distinct DEF ControllerOK
<1>9. \A r \in Reader : ReaderOK(r)
  BY <1>2, Distinct DEF ReaderOK
<1> QED
  BY <1>4, <1>5, <1>6, <1>7, <1>8, <1>9 DEF Inv

\* Each step of a control call.
LEMMA ControlSteps ==
  ASSUME Inv, NEW r \in Controller, ArriveControl(r) \/ ControlStep(r)
  PROVE  StepOf(r)
PROOF
<1>1. CASE ArriveControl(r)
  BY <1>1, StepArriveControl
<1>2. CASE BeginControl(r) \/ LockTrace(r) \/ LoadEvents(r)
  BY <1>2, StepBeginControl, StepLockTrace, StepLoadEvents
<1>3. CASE ReplayReceipt(r) \/ RefuseReusedKey(r) \/ RefuseIllegal(r) \/ PlanEvent(r)
  BY <1>3, StepReplayReceipt, StepRefuseReusedKey, StepRefuseIllegal, StepPlanEvent
<1>4. CASE InsertEvent(r) \/ InsertHitsSequence(r) \/ InsertHitsKey(r) \/ ResolveConflict(r)
  BY <1>4, StepInsertEvent, StepInsertHitsSequence, StepInsertHitsKey, StepResolveConflict
<1>5. CASE Commit(r)
  BY <1>5, Distinct, StepCommit
<1> QED
  BY <1>1, <1>2, <1>3, <1>4, <1>5 DEF ControlStep

\* Every step but a stutter is the step of one call.
LEMMA NextSteps ==
  ASSUME Inv, Next, ~ UNCHANGED vars
  PROVE  \E r \in Request : StepOf(r)
PROOF
<1>1. ASSUME NEW r \in Creator, ArriveCreate(r) \/ CreateStep(r) PROVE StepOf(r)
  BY <1>1, Distinct, StepArriveCreate, StepCaseIdExists, StepInsertTrace, StepCommit DEF CreateStep
<1>2. ASSUME NEW r \in Controller, ArriveControl(r) \/ ControlStep(r) PROVE StepOf(r)
  BY <1>2, ControlSteps
<1>3. ASSUME NEW r \in Reader, ArriveRead(r) \/ ReadStep(r) PROVE StepOf(r)
  BY <1>3, StepArriveRead, StepReadCase, StepReadEvents DEF ReadStep
<1>4. ASSUME NEW r \in Request, Abort(r) \/ CommitLost(r) PROVE StepOf(r)
  BY <1>4, StepAbort, StepCommit
<1> QED
  BY <1>1, <1>2, <1>3, <1>4, Distinct DEF Next, AllAnswered

\* A stutter keeps the invariant.
LEMMA StutterKeeps ==
  ASSUME Inv, UNCHANGED vars
  PROVE  Inv'
PROOF
<1>1. /\ cases' = cases /\ events' = events /\ rowLock' = rowLock /\ pc' = pc
      /\ body' = body /\ loaded' = loaded /\ draft' = draft /\ answer' = answer
  BY DEF vars
<1>2. TypeOK'
  BY <1>1 DEF Inv, TypeOK
<1>3. CallsShaped'
  BY <1>1 DEF Inv, CallsShaped
<1>4. CasesOK'
  BY <1>1 DEF Inv, CasesOK, NewCase
<1>5. RowsOK'
  BY <1>1 DEF Inv, RowsOK, Stored, NewRows, OwnedBy, MayHaveActed
<1>6. HistoriesOK'
  BY <1>1 DEF Inv, HistoriesOK, Stored, NewRows, HistoryLength, TraceRows, OutcomeOf
<1>7. ASSUME NEW r \in Creator PROVE CreatorOK(r)'
  BY <1>1 DEF Inv, CreatorOK, CreatedDraft, NewCase, NewRows, Stored, MayHaveActed, Succeeded,
              Refused
<1>8. ASSUME NEW r \in Controller PROVE ControllerOK(r)'
  <2>1. ControllerOK(r)
    BY DEF Inv
  <2>2. \A t, rows : IsPrefix(rows, t)' <=> IsPrefix(rows, t)
    BY <1>1 DEF IsPrefix, RowsUpTo, HistoryLength, TraceRows
  <2>3. /\ PlannedRow(r)' = PlannedRow(r)
        /\ LoadedProjection(r)' = LoadedProjection(r)
    BY <1>1 DEF PlannedRow, LoadedProjection, OutcomeOf
  <2>4. (Plans(r)' <=> Plans(r)) /\ (Inserted(r)' <=> Inserted(r))
    BY <1>1, <2>3 DEF Plans, PlannedDraft, Inserted
  <2>5. \A rows : ShownTo(r, rows)' <=> ShownTo(r, rows)
    BY <1>1 DEF ShownTo, OwnedBy, MayHaveActed, RowsUpTo, TraceRows
  <2>6. Replays(r)' <=> Replays(r)
    BY <1>1, <2>5 DEF Replays
  <2>7. /\ Succeeded(r)' <=> Succeeded(r)
        /\ \A kind : Refused(r, kind)' <=> Refused(r, kind)
    BY <1>1 DEF Succeeded, Refused
  <2>8. PICK t, rows, shown : t = body[r].trace_id /\ rows = loaded[r] /\ shown = answer[r].rows
    OBVIOUS
  <2>9. /\ IsPrefix(rows, t)' <=> IsPrefix(rows, t)
        /\ ShownTo(r, shown)' <=> ShownTo(r, shown)
        /\ TraceRows(t)' = TraceRows(t) /\ (Stored(t)' <=> Stored(t))
    BY <1>1, <2>2, <2>5 DEF TraceRows, Stored
  <2>10. \A e, q : OwnedBy(e, q)' <=> OwnedBy(e, q)
    BY <1>1 DEF OwnedBy, MayHaveActed
  <2> QED
    BY <1>1, <2>1, <2>4, <2>6, <2>7, <2>8, <2>9, <2>10 DEF ControllerOK
<1>9. ASSUME NEW r \in Reader PROVE ReaderOK(r)'
  BY <1>1 DEF Inv, ReaderOK, Stored, IsPrefix, RowsUpTo, HistoryLength, TraceRows, Succeeded
<1> QED
  BY <1>2, <1>3, <1>4, <1>5, <1>6, <1>7, <1>8, <1>9 DEF Inv

LEMMA StepInv ==
  ASSUME Inv, [Next]_vars
  PROVE  Inv'
PROOF
<1>1. CASE UNCHANGED vars
  BY <1>1, StutterKeeps
<1>2. CASE ~ UNCHANGED vars
  BY <1>2, NextSteps, StepOfKeeps
<1> QED
  BY <1>1, <1>2

\* Inv holds always, at either isolation level.
THEOREM InvAlways == Spec => []Inv
PROOF
<1>1. Init => Inv
  BY InitInv
<1>2. Inv /\ [Next]_vars => Inv'
  BY StepInv
<1> QED
  BY <1>1, <1>2, PTL DEF Spec

\* Tables, locks, bodies and answers keep the types of their columns and fields.
THEOREM ServiceTypes == Spec => []TypeOK
PROOF
<1>1. Inv => TypeOK
  BY DEF Inv
<1> QED
  BY <1>1, InvAlways, PTL

\* A stored trace still has the rows it was created with.
LEMMA CreatedStored ==
  ASSUME Inv, NEW t \in Creator, Stored(t)
  PROVE  NewRows(t) \subseteq TraceRows(t)
PROOF
<1>1. NewRows(t) \subseteq events
  BY DEF Inv, HistoriesOK
<1>2. \A e \in NewRows(t) : e.trace_id = t
  BY NewRowsFacts
<1> QED
  BY <1>1, <1>2 DEF TraceRows

\* submit_trace stores a trace with all its rows or not at all, however many
\* creators race and whoever loses its connection.
THEOREM TracesAreWhole == Spec => []TraceWhole
PROOF
<1>1. Inv => TraceWhole
  <2> SUFFICES ASSUME Inv PROVE TraceWhole
    OBVIOUS
  <2>1. \A e \in events : Stored(e.trace_id)
    BY DEF Inv, RowsOK
  <2>2. ASSUME NEW c \in cases, NEW n \in 1..3
        PROVE  \E e \in TraceRows(c.trace_id) : /\ e.event.sequence_number = n
                                                /\ e.event.action = SystemAction[n]
    <3>1. PICK t \in Creator : t = c.trace_id /\ Stored(t)
      BY OutcomeKnown
    <3>2. PICK e \in NewRows(t) : e.event.sequence_number = n /\ e.event.action = SystemAction[n]
      BY NewRowNumbered
    <3>3. NewRows(t) \subseteq TraceRows(t)
      BY <3>1, CreatedStored
    <3> QED
      BY <3>1, <3>2, <3>3
  <2>3. \A c, d \in cases : c.case_id = d.case_id => c = d
    BY DEF Inv, CasesOK
  <2> QED
    BY <2>1, <2>2, <2>3 DEF TraceWhole
<1> QED
  BY <1>1, InvAlways, PTL

\* A legal history has as many rows as it has numbers.
LEMMA HistorySize ==
  ASSUME NEW rows, NEW N \in Nat, Numbered(rows, N)
  PROVE  Cardinality(rows) = N
PROOF
<1> DEFINE f == [n \in 1..N |-> RowAt(rows, n)]
<1>1. /\ {e.sequence_number : e \in rows} = 1..N
      /\ \A d, e \in rows : d.sequence_number = e.sequence_number => d = e
  BY DEF Numbered
<1>2. \A n \in 1..N : RowAt(rows, n) \in rows /\ RowAt(rows, n).sequence_number = n
  BY NumberedRow
<1>3. f \in [1..N -> rows]
  BY <1>2
<1>4. \A m, n \in 1..N : f[m] = f[n] => m = n
  BY <1>2
<1>5. \A e \in rows : \E n \in 1..N : f[n] = e
  <2>1. SUFFICES ASSUME NEW e \in rows PROVE \E n \in 1..N : f[n] = e
    OBVIOUS
  <2>2. e.sequence_number \in 1..N
    BY <1>1
  <2>3. RowAt(rows, e.sequence_number) = e
    BY <1>1, <1>2, <2>2
  <2> QED
    BY <2>2, <2>3
<1>6. f \in Bijection(1..N, rows)
  BY <1>3, <1>4, <1>5 DEF Bijection, Injection, Surjection, IsInjective
<1>7. ExistsBijection(1..N, rows)
  BY <1>6 DEF ExistsBijection
<1> QED
  BY <1>7, FS_CountingElements

\* Whatever raced to write them, the rows of a trace are a chain that replays
\* without error: the replay at every read (rebuild_control_trace) never fails.
THEOREM StoredHistoriesStayLegal == Spec => []StoredHistoriesLegal
PROOF
<1>1. Inv => StoredHistoriesLegal
  <2> SUFFICES ASSUME Inv, NEW c \in cases
               PROVE  LET rows == KernelRows(TraceRows(c.trace_id))
                          last == MaxSequence(rows)
                      IN  /\ {e.sequence_number : e \in rows} = 1..last
                          /\ Cardinality(rows) = last
                          /\ \A n \in 2..last :
                               RowAt(rows, n).previous_event_id = RowAt(rows, n - 1).event_id
                          /\ \A n \in 0..last : /\ Replay(c.outcome, rows)[n] # Corrupt
                                                /\ Len(Replay(c.outcome, rows)[n].active) <= 1
    BY DEF StoredHistoriesLegal
  <2>1. PICK t, rows, N : /\ t = c.trace_id /\ rows = KernelRows(TraceRows(t))
                          /\ N = HistoryLength(t)
    OBVIOUS
  <2>2. /\ t \in Creator /\ Stored(t) /\ OutcomeOf(t) = c.outcome /\ c.outcome \in Outcome
    BY <2>1, OutcomeKnown
  <2>3. N \in Nat /\ LegalHistory(c.outcome, rows, N)
    BY <2>1, <2>2, StoredRows
  <2>4. MaxSequence(rows) = N
    BY <2>3, HistorySettled
  <2>5. {e.sequence_number : e \in rows} = 1..N /\ Cardinality(rows) = N
    BY <2>3, HistorySize DEF LegalHistory, Numbered
  <2>6. ASSUME NEW n \in 2..N
        PROVE  RowAt(rows, n).previous_event_id = RowAt(rows, n - 1).event_id
    <3>1. n \in 1..N /\ n # 1
      BY <2>3
    <3> QED
      BY <2>3, <3>1 DEF LegalHistory, Linked
  <2>7. ASSUME NEW n \in 0..N
        PROVE  /\ Replay(c.outcome, rows)[n] # Corrupt
               /\ Len(Replay(c.outcome, rows)[n].active) <= 1
    <3>1. CASE Replay(c.outcome, rows)[n] = StartProjection(c.outcome)
      <4>1. StartProjection(c.outcome).active = <<>> /\ Len(<<>>) = 0
        BY DEF StartProjection
      <4>2. StartProjection(c.outcome) # Corrupt
        BY <2>2, NotCorrupt
      <4> QED
        BY <3>1, <4>1, <4>2
    <3>2. ASSUME NEW r, r.action \in ReversibleAction,
                 Replay(c.outcome, rows)[n] = Pushed(StartProjection(c.outcome), r)
          PROVE  /\ Replay(c.outcome, rows)[n] # Corrupt
                 /\ Len(Replay(c.outcome, rows)[n].active) <= 1
      <4>1. Len(Pushed(StartProjection(c.outcome), r).active) = 1
        BY <2>2, <3>2, PushedShape
      <4>2. Pushed(StartProjection(c.outcome), r) # Corrupt
        BY <2>2, <3>2, NotCorrupt
      <4> QED
        BY <3>2, <4>1, <4>2
    <3> QED
      BY <2>3, <3>1, <3>2, PrefixShape
  <2> QED
    BY <2>1, <2>4, <2>5, <2>6, <2>7
<1> QED
  BY <1>1, InvAlways, PTL

\* An idempotency key acts at most once on a trace: a retry of any call, at any
\* time, is shown what the first was shown.
THEOREM KeysActOnce == Spec => []KeyActsOnce
PROOF
<1>1. Inv => KeyActsOnce
  <2> SUFFICES ASSUME Inv PROVE KeyActsOnce
    OBVIOUS
  <2>1. \A e, f \in events :
          /\ e.trace_id = f.trace_id
          /\ e.idempotency_key = f.idempotency_key /\ e.idempotency_key # NULL
          => e = f
    BY DEF Inv, RowsOK
  <2>2. ASSUME NEW q \in Controller, NEW r \in Controller, Succeeded(q), Succeeded(r),
               body[q].trace_id = body[r].trace_id,
               body[q].idempotency_key = body[r].idempotency_key,
               body[q].idempotency_key # NULL
        PROVE  answer[q].rows = answer[r].rows
    <3>1. PICK t : t = body[q].trace_id /\ t = body[r].trace_id
      BY <2>2
    <3>2. PICK e \in TraceRows(t) : /\ e.idempotency_key = body[q].idempotency_key
                                    /\ answer[q].rows = RowsUpTo(t, e.event.sequence_number)
      <4>1. ShownTo(q, answer[q].rows)
        BY <2>2 DEF Inv, ControllerOK
      <4> QED
        BY <3>1, <4>1 DEF ShownTo, OwnedBy
    <3>3. PICK f \in TraceRows(t) : /\ f.idempotency_key = body[r].idempotency_key
                                    /\ answer[r].rows = RowsUpTo(t, f.event.sequence_number)
      <4>1. ShownTo(r, answer[r].rows)
        BY <2>2 DEF Inv, ControllerOK
      <4> QED
        BY <3>1, <4>1 DEF ShownTo, OwnedBy
    <3>4. e = f
      BY <2>1, <2>2, <3>2, <3>3 DEF TraceRows
    <3> QED
      BY <3>2, <3>3, <3>4
  <2> QED
    BY <2>1, <2>2 DEF KeyActsOnce
<1> QED
  BY <1>1, InvAlways, PTL

\* The last row of a prefix is the one with its number.
LEMMA PrefixLast ==
  ASSUME Inv, NEW t \in Creator, Stored(t), NEW e \in TraceRows(t)
  PROVE  /\ RowsUpTo(t, e.event.sequence_number) # {}
         /\ LastRow(RowsUpTo(t, e.event.sequence_number)) = e
PROOF
<1>1. PICK k, rows : k = e.event.sequence_number /\ rows = RowsUpTo(t, k)
  OBVIOUS
<1>2. /\ \A f \in TraceRows(t) : f.event.sequence_number \in Nat
      /\ \A f \in TraceRows(t) : f.event.sequence_number = k => f = e
  BY <1>1, StoredRows
<1>3. e \in rows /\ \A f \in rows : f \in TraceRows(t) /\ f.event.sequence_number <= k
  BY <1>1, <1>2 DEF RowsUpTo
<1>4. \A d \in rows : (\A f \in rows : f.event.sequence_number <= d.event.sequence_number) <=> d = e
  BY <1>1, <1>2, <1>3
<1>5. LastRow(rows) = e
  BY <1>3, <1>4 DEF LastRow
<1> QED
  BY <1>1, <1>3, <1>5

\* So the rows up to any stored row are what the property asks a view to be.
LEMMA PrefixIsView ==
  ASSUME Inv, NEW t \in Creator, Stored(t), NEW rows, IsPrefix(rows, t)
  PROVE  /\ rows # {}
         /\ rows = {e \in TraceRows(t) :
                      e.event.sequence_number <= LastRow(rows).event.sequence_number}
PROOF
<1>1. PICK k \in 3..HistoryLength(t) : rows = RowsUpTo(t, k)
  BY DEF IsPrefix
<1>2. k \in 1..HistoryLength(t)
  BY StoredRows
<1>3. PICK e \in TraceRows(t) : e.event.sequence_number = k
  BY <1>2, StoredRows
<1>4. rows # {} /\ LastRow(rows) = e
  BY <1>1, <1>3, PrefixLast
<1> QED
  BY <1>1, <1>3, <1>4 DEF RowsUpTo

\* What a successful control call is shown ends with a row of its command.
LEMMA ShownEnds ==
  ASSUME Inv, NEW r \in Controller, NEW rows, ShownTo(r, rows),
         NEW t, t = body[r].trace_id
  PROVE  /\ t \in Creator /\ Stored(t) /\ rows # {}
         /\ rows = RowsUpTo(t, LastRow(rows).event.sequence_number)
         /\ \E q \in Controller : /\ OwnedBy(LastRow(rows), q) /\ body[q] = body[r]
                                  /\ q = r \/ body[r].idempotency_key # NULL
PROOF
<1>1. PICK q \in Controller : \E e \in TraceRows(t) :
        /\ OwnedBy(e, q) /\ body[q] = body[r]
        /\ q = r \/ body[r].idempotency_key # NULL
        /\ rows = RowsUpTo(t, e.event.sequence_number)
  BY DEF ShownTo
<1>2. PICK e \in TraceRows(t) :
        /\ OwnedBy(e, q) /\ body[q] = body[r]
        /\ q = r \/ body[r].idempotency_key # NULL
        /\ rows = RowsUpTo(t, e.event.sequence_number)
  BY <1>1
<1>3. e \in events /\ e.trace_id = t
  BY DEF TraceRows
<1>4. t \in Creator /\ Stored(t)
  BY <1>3 DEF Inv, TypeOK, EventRow, RowsOK
<1>5. rows # {} /\ LastRow(rows) = e
  BY <1>2, <1>4, PrefixLast
<1> QED
  BY <1>2, <1>4, <1>5

\* The rows a creator is shown are all its trace starts with.
LEMMA CreatedIsPrefix ==
  ASSUME Inv, NEW t \in Creator, Stored(t)
  PROVE  IsPrefix(NewRows(t), t)
PROOF
<1>1. 3 \in 3..HistoryLength(t)
  BY StoredRows
<1>2. /\ \A e \in NewRows(t) : /\ e \in TraceRows(t) /\ e.event.sequence_number \in 1..3
      /\ \A n \in 1..3 : \E e \in NewRows(t) : e.event.sequence_number = n
  <2>1. NewRows(t) \subseteq TraceRows(t)
    BY CreatedStored
  <2>2. \A e \in NewRows(t) : e.event.sequence_number \in 1..3
    BY NewRowsFacts
  <2>3. ASSUME NEW n \in 1..3 PROVE \E e \in NewRows(t) : e.event.sequence_number = n
    <3>1. PICK e \in NewRows(t) : e.event.sequence_number = n /\ e.event.action = SystemAction[n]
      BY NewRowNumbered
    <3> QED
      BY <3>1
  <2> QED
    BY <2>1, <2>2, <2>3
<1>3. ASSUME NEW e \in TraceRows(t), e.event.sequence_number <= 3 PROVE e \in NewRows(t)
  <2>1. e.event.sequence_number \in 1..3
    BY <1>3, StoredRows
  <2>2. PICK f \in NewRows(t) : f.event.sequence_number = e.event.sequence_number
    BY <1>2, <2>1
  <2> QED
    BY <1>2, <2>2, StoredRows
<1>4. \A e \in NewRows(t) : e.event.sequence_number <= 3
  BY <1>2
<1>5. NewRows(t) = RowsUpTo(t, 3)
  BY <1>2, <1>3, <1>4 DEF RowsUpTo
<1> QED
  BY <1>1, <1>5 DEF IsPrefix

\* The first three rows of a stored trace are those it was created with.
LEMMA FirstRows ==
  ASSUME Inv, NEW t \in Creator, Stored(t),
         NEW e \in TraceRows(t), e.event.sequence_number \in 1..3
  PROVE  e \in NewRows(t)
PROOF
<1>1. PICK n \in 1..3 : n = e.event.sequence_number
  OBVIOUS
<1>2. PICK f \in NewRows(t) : f.event.sequence_number = n /\ f.event.action = SystemAction[n]
  BY NewRowNumbered
<1>3. f \in TraceRows(t)
  BY CreatedStored
<1> QED
  BY <1>1, <1>2, <1>3, StoredRows

\* The rows of a successful answer are the trace's history up to some row.
LEMMA AnswerIsPrefix ==
  ASSUME Inv, NEW r \in Request, Succeeded(r), NEW t, t = TraceOf(r)
  PROVE  /\ pc[r] = "done" /\ t \in Creator /\ Stored(t)
         /\ r \in Creator => t = r
         /\ r \notin Creator => t = body[r].trace_id
         /\ IsPrefix(answer[r].rows, t)
PROOF
<1>1. PICK rows : rows = answer[r].rows
  OBVIOUS
<1>2. pc[r] = "done"
  BY DEF Inv, TypeOK, Succeeded
<1>3. CASE r \in Creator
  <2>1. t = r /\ Stored(t) /\ rows = NewRows(t)
    BY <1>1, <1>3 DEF TraceOf, Inv, CreatorOK
  <2> QED
    BY <1>1, <1>2, <1>3, <2>1, CreatedIsPrefix
<1>4. CASE r \in Controller
  <2>1. t = body[r].trace_id
    BY <1>2, <1>4, Distinct DEF TraceOf, Inv, ControllerOK
  <2>2. ShownTo(r, rows)
    BY <1>1, <1>4 DEF Inv, ControllerOK
  <2>3. t \in Creator /\ Stored(t)
    BY <1>4, <2>1, <2>2, ShownEnds
  <2>4. PICK q \in Controller, e \in TraceRows(t) :
          OwnedBy(e, q) /\ rows = RowsUpTo(t, e.event.sequence_number)
    BY <2>1, <2>2 DEF ShownTo
  <2>5. e.event.sequence_number \in 1..HistoryLength(t) /\ HistoryLength(t) \in Nat
    BY <2>3, StoredRows
  <2>6. e.event.sequence_number >= 3
    <3>1. SUFFICES ASSUME e.event.sequence_number \in 1..3 PROVE FALSE
      BY <2>5
    <3>2. e \in NewRows(t)
      BY <2>3, <3>1, FirstRows
    <3>3. e.event.event_id[1] = t
      BY <2>3, <3>2, NewRowsFacts
    <3> QED
      BY <2>3, <2>4, <3>3, Distinct DEF OwnedBy
  <2> QED
    BY <1>1, <1>2, <1>4, <2>1, <2>3, <2>4, <2>5, <2>6, Distinct DEF IsPrefix
<1>5. CASE r \in Reader
  <2>1. t = body[r].trace_id /\ t \in Creator
    BY <1>2, <1>5, Distinct DEF TraceOf, Inv, ReaderOK, ReadBody
  <2>2. Stored(t) /\ IsPrefix(rows, t)
    BY <1>1, <1>5, <2>1 DEF Inv, ReaderOK
  <2> QED
    BY <1>1, <1>2, <1>5, <2>1, <2>2, Distinct
<1> QED
  BY <1>3, <1>4, <1>5 DEF Request

\* Every successful answer shows committed rows, the trace's history up to some
\* row: never a part of a transaction, never a row that is rolled back later.
THEOREM ViewsStayCommittedPrefixes == Spec => []ViewsAreCommittedPrefixes
PROOF
<1>1. Inv => ViewsAreCommittedPrefixes
  <2> SUFFICES ASSUME Inv, NEW r \in Request, Succeeded(r)
               PROVE  LET rows == answer[r].rows
                      IN  /\ rows # {}
                          /\ rows = {e \in TraceRows(TraceOf(r)) :
                                       e.event.sequence_number
                                         <= LastRow(rows).event.sequence_number}
    BY DEF ViewsAreCommittedPrefixes
  <2>1. PICK t, rows : t = TraceOf(r) /\ rows = answer[r].rows
    OBVIOUS
  <2> QED
    BY <2>1, AnswerIsPrefix, PrefixIsView
<1> QED
  BY <1>1, InvAlways, PTL

\* A control call that succeeds is shown its own command last, recorded by itself
\* or by a call with the same key and body.
THEOREM ViewsShowOwnCommands == Spec => []ViewShowsOwnCommand
PROOF
<1>1. Inv => ViewShowsOwnCommand
  <2> SUFFICES ASSUME Inv, NEW r \in Controller, Succeeded(r)
               PROVE  \E q \in Controller :
                        /\ LastRow(answer[r].rows).event.event_id = <<q, 1>>
                        /\ LastRow(answer[r].rows).event.action = PlannedAction[body[r].command]
                        /\ body[q] = body[r]
                        /\ q = r \/ body[r].idempotency_key # NULL
    BY DEF ViewShowsOwnCommand
  <2>1. PICK t, rows : t = body[r].trace_id /\ rows = answer[r].rows
    OBVIOUS
  <2>2. ShownTo(r, rows)
    BY <2>1 DEF Inv, ControllerOK
  <2>3. PICK q \in Controller : /\ OwnedBy(LastRow(rows), q) /\ body[q] = body[r]
                                /\ q = r \/ body[r].idempotency_key # NULL
    BY <2>1, <2>2, ShownEnds
  <2> QED
    BY <2>1, <2>3 DEF OwnedBy
<1> QED
  BY <1>1, InvAlways, PTL

\* A call that is refused, but for a lost connection, has left no row; so an
\* illegal attempt does not use up its idempotency key.
THEOREM RefusalsLeaveNothing == Spec => []RefusedLeavesNothing
PROOF
<1>1. Inv => RefusedLeavesNothing
  <2> SUFFICES ASSUME Inv, NEW r \in Request,
                      pc[r] = "done" /\ ~ Succeeded(r) /\ ~ Refused(r, "connection_error")
               PROVE  /\ \A c \in cases : c.trace_id # r
                      /\ \A e \in events : e.event.event_id[1] # r
    BY DEF RefusedLeavesNothing
  <2>1. ~ MayHaveActed(r)
    BY DEF Inv, TypeOK, Succeeded, Refused, MayHaveActed
  <2>2. \A t \in Creator : Stored(t) => t # r
    BY <2>1 DEF Inv, CreatorOK
  <2>3. \A c \in cases : c.trace_id # r
    BY <2>2, OutcomeKnown
  <2>4. ASSUME NEW e \in events PROVE e.event.event_id[1] # r
    <3>1. PICK t \in Creator : t = e.trace_id /\ Stored(t)
      BY DEF Inv, TypeOK, EventRow, RowsOK
    <3>2. CASE e \in NewRows(t)
      <4>1. e.event.event_id[1] = t
        BY <3>2, NewRowsFacts
      <4> QED
        BY <2>2, <3>1, <4>1
    <3>3. ASSUME NEW q \in Controller, OwnedBy(e, q) PROVE e.event.event_id[1] # r
      <4>1. e.event.event_id = <<q, 1>> /\ q # r
        BY <2>1, <3>3 DEF OwnedBy
      <4> QED
        BY <4>1
    <3> QED
      BY <3>1, <3>2, <3>3 DEF Inv, RowsOK
  <2> QED
    BY <2>3, <2>4
<1> QED
  BY <1>1, InvAlways, PTL

\* A duplicate is reported only when another call has stored the case_id, a key
\* conflict only when the key did act for another command: with the recovery
\* lookup of _resolve_idempotency_conflict too.
THEOREM RefusalsAreJustified == Spec => []RefusalsJustified
PROOF
<1>1. Inv => RefusalsJustified
  <2> SUFFICES ASSUME Inv PROVE RefusalsJustified
    OBVIOUS
  <2>1. \A r \in Creator : Refused(r, "case_exists") =>
          \E c \in cases : c.case_id = body[r].case_id /\ c.trace_id # r
    BY DEF Inv, CreatorOK
  <2>2. ASSUME NEW r \in Controller, Refused(r, "key_conflict")
        PROVE  \E q \in Controller : \E e \in TraceRows(body[r].trace_id) :
                 /\ e.event.event_id = <<q, 1>>
                 /\ body[q].idempotency_key = body[r].idempotency_key
                 /\ body[q] # body[r]
    <3>1. \E q \in Controller : \E e \in TraceRows(body[r].trace_id) :
            /\ OwnedBy(e, q)
            /\ body[q].idempotency_key = body[r].idempotency_key
            /\ body[q] # body[r]
      BY <2>2 DEF Inv, ControllerOK
    <3> QED
      BY <3>1 DEF OwnedBy
  <2> QED
    BY <2>1, <2>2 DEF RefusalsJustified
<1> QED
  BY <1>1, InvAlways, PTL

\* At READ COMMITTED the rows that were checked are the rows that are stored: the
\* lock of get_trace_for_update is taken before they are read, and kept.
THEOREM LoadedStaysCurrent ==
  ASSUME Isolation = "READ COMMITTED"
  PROVE  Spec => []LoadedIsCurrent
PROOF
<1>1. Inv => LoadedIsCurrent
  BY DEF Inv, ControllerOK, LoadedIsCurrent
<1> QED
  BY <1>1, InvAlways, PTL

\* At READ COMMITTED no command ever meets the unique constraints of the event
\* table: the recovery code of submit_control is not needed there.
THEOREM ConstraintsStaySilent ==
  ASSUME Isolation = "READ COMMITTED"
  PROVE  Spec => []ConstraintsNeverFire
PROOF
<1>1. Inv => ConstraintsNeverFire
  BY DEF Inv, ControllerOK, ConstraintsNeverFire
<1> QED
  BY <1>1, InvAlways, PTL

\* A row that is committed brings no refusal.
LEMMA CommitShows ==
  ASSUME Inv, NEW r \in Controller, Commit(r) \/ CommitLost(r)
  PROVE  answer'[r].kind \in {"view", "connection_error"}
PROOF
<1>1. r \in Request /\ Typed /\ pc[r] = "commit"
  BY Distinct, InvTyped DEF Commit, CommitLost
<1>2. draft[r].answer.kind = "view"
  <2>1. Replays(r) \/ Plans(r)
    BY <1>1 DEF Inv, ControllerOK
  <2>2. CASE Replays(r)
    <3>1. PICK rows : draft[r] = [cases |-> {}, events |-> {}, answer |-> View(rows)]
      BY <2>2 DEF Replays
    <3> QED
      BY <3>1 DEF View
  <2>3. CASE Plans(r)
    BY <2>3 DEF Plans, PlannedDraft, View
  <2> QED
    BY <2>1, <2>2, <2>3
<1>3. PICK a : Finish(r, a) /\ a.kind \in {"view", "connection_error"}
  BY <1>2 DEF Commit, CommitLost, Refusal
<1>4. answer'[r] = a
  BY <1>1, <1>3, FinishEnds
<1> QED
  BY <1>3, <1>4

\* No statement but the guard's refuses a command as illegal.
LEMMA OnlyGuardRefuses ==
  ASSUME Inv, NEW r \in Controller, ControlStep(r) \/ Abort(r) \/ CommitLost(r),
         pc[r] # "done", answer[r] = NULL, Refused(r, "illegal")'
  PROVE  RefuseIllegal(r)
PROOF
<1>1. r \in Request /\ Typed /\ answer'[r] # NULL /\ answer'[r].kind = "illegal"
  BY Distinct, InvTyped DEF Refused
<1>2. ASSUME NEW a, Finish(r, a), a.kind # "illegal" PROVE FALSE
  BY <1>1, <1>2, FinishEnds
<1>3. answer' # answer
  BY <1>1
<1>4. ASSUME NEW kind, Finish(r, Refusal(kind)) PROVE kind = "illegal"
  BY <1>2, <1>4 DEF Refusal
<1>5. ASSUME NEW rows, Finish(r, View(rows)) PROVE FALSE
  BY <1>2, <1>5 DEF View
<1>6. ~ (LockTrace(r) \/ LoadEvents(r) \/ ReplayReceipt(r) \/ PlanEvent(r) \/ InsertEvent(r)
         \/ InsertHitsKey(r))
  BY <1>3 DEF LockTrace, LoadEvents, ReplayReceipt, PlanEvent, InsertEvent, InsertHitsKey
<1>7. ~ BeginControl(r)
  BY <1>3, <1>4 DEF BeginControl
<1>8. ~ RefuseReusedKey(r) /\ ~ InsertHitsSequence(r) /\ ~ Abort(r)
  BY <1>4 DEF RefuseReusedKey, InsertHitsSequence, Abort
<1>9. ~ ResolveConflict(r)
  <2>1. SUFFICES ASSUME ResolveConflict(r) PROVE FALSE
    OBVIOUS
  <2>2. Finish(r, Refusal("key_conflict")) \/ \E rows : Finish(r, View(rows))
    BY <2>1 DEF ResolveConflict
  <2> QED
    BY <1>4, <1>5, <2>2
<1>10. ~ Commit(r) /\ ~ CommitLost(r)
  BY <1>1, CommitShows
<1> QED
  BY <1>6, <1>7, <1>8, <1>9, <1>10 DEF ControlStep

\* At READ COMMITTED an illegal-command refusal (409) is true when it is given, and
\* a key that has acted is never refused so: lock, load, receipt lookup and guard
\* of submit_control come in the one order that makes this hold.
THEOREM IllegalRefusalsStayTrue ==
  ASSUME Isolation = "READ COMMITTED"
  PROVE  Spec => IllegalRefusalsTrue
PROOF
<1> DEFINE True(r) == LET rows == TraceRows(body[r].trace_id)
                      IN  /\ ~ LegalCommand(ProjectionOf(body[r].trace_id, rows), body[r].command)
                          /\ Receipts(body[r], rows) = {}
<1>1. ASSUME Inv, [Next]_vars, NEW r \in Controller, r \in Running, Refused(r, "illegal")'
      PROVE  True(r)
  <2>1. r \in Request /\ pc[r] \notin {"idle", "done"} /\ answer[r] = NULL
    BY <1>1 DEF Running, Inv, TypeOK
  <2>2. answer' # answer
    BY <1>1, <2>1 DEF Refused
  <2>3. ControlStep(r) \/ Abort(r) \/ CommitLost(r)
    <3>1. ASSUME NEW q \in Request, StepOf(q) PROVE q = r
      BY <1>1, <2>1, <3>1 DEF StepOf, Moves, Refused
    <3>2. \A q \in Creator : ~ (ArriveCreate(q) \/ CreateStep(q))
      BY <1>1, <3>1, Distinct, StepArriveCreate, StepCaseIdExists, StepInsertTrace, StepCommit
         DEF CreateStep
    <3>3. \A q \in Reader : ~ (ArriveRead(q) \/ ReadStep(q))
      BY <1>1, <3>1, Distinct, StepArriveRead, StepReadCase, StepReadEvents DEF ReadStep
    <3>4. ASSUME NEW q \in Controller, ArriveControl(q) \/ ControlStep(q) PROVE ControlStep(r)
      <4>1. q = r
        BY <1>1, <3>1, <3>4, Distinct, ControlSteps
      <4> QED
        BY <2>1, <3>4, <4>1 DEF ArriveControl
    <3>5. ASSUME NEW q \in Request, Abort(q) \/ CommitLost(q) PROVE q = r
      BY <1>1, <3>1, <3>5, StepAbort, StepCommit
    <3> QED
      BY <1>1, <2>2, <3>2, <3>3, <3>4, <3>5 DEF Next, AllAnswered, vars
  <2>4. RefuseIllegal(r)
    BY <1>1, <2>1, <2>3, OnlyGuardRefuses
  <2>5. pc[r] = "receipt"
    BY <2>4 DEF RefuseIllegal
  <2>6. PICK t : t = body[r].trace_id
    OBVIOUS
  <2>7. Visible(r, t) = loaded[r] /\ loaded[r] = TraceRows(t)
    BY <1>1, <2>5, <2>6, SeesLoaded
  <2> QED
    BY <2>4, <2>6, <2>7 DEF RefuseIllegal, LoadedProjection, ProjectionOf
<1> HIDE DEF True
<1>2. Inv /\ [Next]_vars =>
        [\A r \in Controller : r \in Running /\ Refused(r, "illegal")' => True(r)]_vars
  BY <1>1
<1>3. Spec => [][\A r \in Controller : r \in Running /\ Refused(r, "illegal")' => True(r)]_vars
  BY <1>2, InvAlways, PTL DEF Spec
<1> QED
  BY <1>3 DEF IllegalRefusalsTrue, True

\* Whatever a step commits is a new trace with its first rows, or the one row of
\* a command that is legal in the state its trace has at that moment, at either
\* isolation level: at REPEATABLE READ the guard reads a snapshot that may be
\* old, but then the sequence constraint rejects the row.
THEOREM EffectsStayAtomic == Spec => EffectsAreAtomic
PROOF
<1> DEFINE Started ==
             \E r \in Creator \cap Running :
               /\ ~ Stored(r) /\ cases' = cases \cup {NewCase(r)}
               /\ events' = events \cup NewRows(r)
           Controlled ==
             \E r \in Controller \cap Running :
               LET t == body[r].trace_id
               IN  /\ LegalCommand(ProjectionOf(t, TraceRows(t)), body[r].command)
                   /\ UNCHANGED cases
                   /\ \E e \in events' \ events :
                        /\ events' = events \cup {e}
                        /\ e.trace_id = t
                        /\ e.event.event_id = <<r, 1>>
                        /\ e.event.action = PlannedAction[body[r].command]
                        /\ e.event.sequence_number = MaxSequence(KernelRows(TraceRows(t))) + 1
<1>1. ASSUME Inv, [Next]_vars, events' # events PROVE Started \/ Controlled
  <2>1. PICK r \in Request : StepOf(r)
    BY <1>1, NextSteps DEF vars
  <2>2. Creates(r) \/ Appends(r)
    BY <1>1, <2>1 DEF StepOf, TableStep, database
  <2>3. ASSUME Creates(r) PROVE Started
    BY <2>1, <2>3 DEF Creates, Running
  <2>4. ASSUME Appends(r) PROVE Controlled
    <3>1. PICK t, row, N : /\ t = body[r].trace_id /\ row = PlannedRow(r)
                           /\ N = HistoryLength(t)
      OBVIOUS
    <3>2. /\ r \in Controller \cap Running /\ pc[r] = "commit"
          /\ LegalCommand(LoadedProjection(r), body[r].command)
          /\ cases' = cases /\ events' = events \cup {row}
      BY <2>1, <2>4, <3>1 DEF Appends, Plans, Running
    <3>3. /\ loaded[r] = TraceRows(t) /\ row.event.sequence_number = N + 1
          /\ row \notin events
      BY <1>1, <2>4, <3>1, <3>2, AppendsAtEnd
    <3>4. /\ row.trace_id = t /\ row.event.event_id = <<r, 1>>
          /\ row.event.action = PlannedAction[body[r].command]
      BY <1>1, <3>1, <3>2, PlannedRowFacts
    <3>5. LegalCommand(ProjectionOf(t, TraceRows(t)), body[r].command)
      BY <3>1, <3>2, <3>3 DEF ProjectionOf, LoadedProjection
    <3>6. row \in events' \ events
      BY <3>2, <3>3
    <3> QED
      BY <3>1, <3>2, <3>3, <3>4, <3>5, <3>6 DEF HistoryLength
  <2> QED
    BY <2>2, <2>3, <2>4
<1>2. Inv /\ [Next]_vars => [events' # events => Started \/ Controlled]_vars
  BY <1>1
<1> QED
  BY <1>2, InvAlways, PTL DEF Spec, EffectsAreAtomic

-----------------------------------------------------------------------------
(* Reads and the answers that were given before them. *)

\* q was answered, and the snapshot or answer of the read r has all q was shown.
Seen(q, r) ==
  /\ Succeeded(q)
  /\ pc[r] = "read_events" /\ Isolation # "READ COMMITTED" /\ body[r].trace_id = TraceOf(q) =>
       answer[q].rows \subseteq loaded[r]
  /\ pc[r] = "done" => ShowsAllOf(q, r)

\* What a call was told is final, and so is what it was about.
LEMMA AnswerStays ==
  ASSUME Inv, NEW p \in Request, Moves(p), NEW q \in Request, pc[q] = "done"
  PROVE  /\ p # q /\ pc'[q] = "done" /\ answer'[q] = answer[q] /\ body'[q] = body[q]
         /\ TraceOf(q)' = TraceOf(q) /\ (Succeeded(q)' <=> Succeeded(q))
PROOF
<1>1. /\ p # q /\ pc'[q] = "done" /\ answer'[q] = answer[q] /\ body'[q] = body[q]
  BY DEF Moves
<1> QED
  BY <1>1 DEF TraceOf, Succeeded

LEMMA SeenStays ==
  ASSUME Inv, NEW p \in Request, Moves(p),
         NEW q \in Creator \cup Controller, NEW r \in Reader, p # r, Seen(q, r)
  PROVE  Seen(q, r)'
PROOF
<1>1. q \in Request /\ r \in Request /\ pc[q] = "done"
  BY Distinct DEF Inv, TypeOK, Seen, Succeeded
<1>2. /\ answer'[q] = answer[q] /\ TraceOf(q)' = TraceOf(q) /\ (Succeeded(q)' <=> Succeeded(q))
  BY <1>1, AnswerStays
<1>3. /\ pc'[r] = pc[r] /\ body'[r] = body[r] /\ loaded'[r] = loaded[r] /\ answer'[r] = answer[r]
  BY <1>1 DEF Moves
<1>4. TraceOf(r)' = TraceOf(r) /\ (Succeeded(r)' <=> Succeeded(r))
  BY <1>3 DEF TraceOf, Succeeded
<1> QED
  BY <1>2, <1>3, <1>4 DEF Seen, ShowsAllOf

\* A step of the read itself.
LEMMA ReadSees ==
  ASSUME Inv, NEW q \in Creator \cup Controller, NEW r \in Reader, Seen(q, r),
         ArriveRead(r) \/ ReadCase(r) \/ ReadEvents(r) \/ Abort(r)
  PROVE  Seen(q, r)'
PROOF
<1>1. /\ q \in Request /\ r \in Request /\ q # r /\ Succeeded(q) /\ pc[q] = "done"
      /\ r \notin Creator /\ r \notin Controller
  BY Distinct DEF Inv, TypeOK, Seen, Succeeded
<1>2. StepOf(r)
  BY <1>1, StepArriveRead, StepReadCase, StepReadEvents, StepAbort
<1>3. /\ answer'[q] = answer[q] /\ TraceOf(q)' = TraceOf(q) /\ Succeeded(q)'
  BY <1>1, <1>2, AnswerStays DEF StepOf
<1>4. PICK t : t = TraceOf(q)
  OBVIOUS
<1>5. answer[q].rows \subseteq TraceRows(t)
  BY <1>1, <1>4, AnswerIsPrefix, PrefixRows DEF IsPrefix
<1>6. CASE ArriveRead(r)
  <2>1. pc'[r] = "read_case"
    BY <1>1, <1>6, InvTyped DEF ArriveRead, Goto, Typed
  <2> QED
    BY <1>3, <2>1 DEF Seen
<1>7. ASSUME NEW kind, kind # "view", Finish(r, Refusal(kind)) PROVE Seen(q, r)'
  <2>1. pc'[r] = "done" /\ answer'[r] = Refusal(kind)
    BY <1>1, <1>7, InvTyped DEF Finish, Typed
  <2>2. ~ Succeeded(r)'
    BY <1>7, <2>1 DEF Succeeded, Refusal
  <2> QED
    BY <1>3, <2>1, <2>2 DEF Seen, ShowsAllOf
<1>8. CASE ReadCase(r) /\ Stored(body[r].trace_id)
  <2>1. /\ pc'[r] = "read_events" /\ loaded'[r] = Snapshot(body[r].trace_id) /\ body' = body
    BY <1>1, <1>8, InvTyped DEF ReadCase, Goto, Typed
  <2> QED
    BY <1>3, <1>4, <1>5, <2>1 DEF Seen, Snapshot
<1>9. CASE ReadEvents(r)
  <2>1. PICK rows : rows = Visible(r, body[r].trace_id)
    OBVIOUS
  <2>2. /\ pc[r] = "read_events" /\ pc'[r] = "done" /\ answer'[r] = View(rows) /\ body' = body
    BY <1>1, <1>9, <2>1, InvTyped DEF ReadEvents, Finish, Typed
  <2>3. body[r].trace_id = t => answer[q].rows \subseteq rows
    BY <1>4, <1>5, <2>1, <2>2 DEF Visible, Seen
  <2>4. TraceOf(r)' = body[r].trace_id
    BY <1>1, <2>2, Distinct DEF TraceOf, Inv, ReaderOK
  <2>5. answer'[r].rows = rows
    BY <2>2 DEF View
  <2> QED
    BY <1>3, <1>4, <2>2, <2>3, <2>4, <2>5 DEF Seen, ShowsAllOf
<1> QED
  BY <1>6, <1>7, <1>8, <1>9 DEF ReadCase, Abort

\* Every step but a stutter is the step of another call or one of the read's own.
LEMMA WhoSteps ==
  ASSUME Inv, Next, ~ UNCHANGED vars, NEW r \in Reader
  PROVE  \/ \E p \in Request \ {r} : StepOf(p)
         \/ ArriveRead(r) \/ ReadCase(r) \/ ReadEvents(r) \/ Abort(r)
PROOF
<1>1. ASSUME NEW p \in Creator, ArriveCreate(p) \/ CreateStep(p)
      PROVE  p \in Request \ {r} /\ StepOf(p)
  BY <1>1, Distinct, StepArriveCreate, StepCaseIdExists, StepInsertTrace, StepCommit DEF CreateStep
<1>2. ASSUME NEW p \in Controller, ArriveControl(p) \/ ControlStep(p)
      PROVE  p \in Request \ {r} /\ StepOf(p)
  BY <1>2, Distinct, ControlSteps
<1>3. ASSUME NEW p \in Reader, ArriveRead(p) \/ ReadStep(p) PROVE StepOf(p) /\ p \in Request
  BY <1>3, Distinct, StepArriveRead, StepReadCase, StepReadEvents DEF ReadStep
<1>4. ASSUME NEW p \in Request, Abort(p) \/ CommitLost(p) PROVE StepOf(p)
  BY <1>4, StepAbort, StepCommit
<1>5. ~ CommitLost(r)
  BY DEF CommitLost, Inv, ReaderOK
<1> QED
  BY <1>1, <1>2, <1>3, <1>4, <1>5 DEF Next, AllAnswered, ReadStep

\* A read that arrives after an answer was given shows all that answer showed,
\* whichever of the two statements of find_trace sees the rows.
THEOREM ReadsShowAnsweredViews == Spec => ReadsSeeAnsweredViews
PROOF
<1> SUFFICES ASSUME NEW q \in Creator \cup Controller, NEW r \in Reader
             PROVE  Spec => [](AnsweredBefore(q, r) => []ShowsAllOf(q, r))
  BY DEF ReadsSeeAnsweredViews
<1>1. AnsweredBefore(q, r) => Seen(q, r)
  BY DEF AnsweredBefore, Seen
<1>2. Inv /\ Seen(q, r) => ShowsAllOf(q, r)
  BY Distinct DEF Inv, TypeOK, Seen, ShowsAllOf, Succeeded
<1>3. Inv /\ [Next]_vars /\ Seen(q, r) => Seen(q, r)'
  <2> SUFFICES ASSUME Inv, [Next]_vars, Seen(q, r) PROVE Seen(q, r)'
    OBVIOUS
  <2>1. CASE UNCHANGED vars
    BY <2>1 DEF vars, Seen, ShowsAllOf, Succeeded, TraceOf
  <2>2. ASSUME NEW p \in Request \ {r}, StepOf(p) PROVE Seen(q, r)'
    BY <2>2, SeenStays DEF StepOf
  <2> QED
    BY <2>1, <2>2, WhoSteps, ReadSees
<1> QED
  BY <1>1, <1>2, <1>3, InvAlways, PTL DEF Spec

-----------------------------------------------------------------------------
(* Entries of the ledger, as functions of a trace's case and rows. *)

RowNumbered(rows, n) == CHOOSE e \in rows : e.event.sequence_number = n
FirstOf(rows, n) == {e \in rows : e.event.sequence_number <= n}
EffectOf(outcome, rows, n) ==
  [key    |-> RowNumbered(rows, n).idempotency_key,
   intent |-> RowNumbered(rows, n).command_fingerprint,
   state  |-> ReduceControlState(outcome, KernelRows(FirstOf(rows, n))).state]
EntryOf(case, rows) ==
  [case_id |-> case.case_id, outcome |-> case.outcome,
   log |-> [n \in 1..(Cardinality(rows) - 3) |-> EffectOf(case.outcome, rows, n + 3)]]
CaseOf(t) == CHOOSE c \in cases : c.trace_id = t

\* The rows have the numbers 1 .. N, each one.
Counted(rows, N) ==
  /\ \A e \in rows : e.event.sequence_number \in 1..N
  /\ \A n \in 1..N : \E e \in rows : e.event.sequence_number = n
  /\ \A e, f \in rows : e.event.sequence_number = f.event.sequence_number => e = f

LEMMA EntryShape ==
  ASSUME NEW case, NEW rows
  PROVE  EntryOf(case, rows) = [case_id |-> case.case_id, outcome |-> case.outcome,
                                log |-> EntryOf(case, rows).log]
PROOF
BY DEF EntryOf

LEMMA CountedRow ==
  ASSUME NEW rows, NEW N \in Nat, Counted(rows, N), NEW n \in 1..N
  PROVE  /\ RowNumbered(rows, n) \in rows
         /\ RowNumbered(rows, n).event.sequence_number = n
         /\ \A e \in rows : e.event.sequence_number = n => RowNumbered(rows, n) = e
PROOF
<1>1. \E e \in rows : e.event.sequence_number = n
  BY DEF Counted
<1>2. RowNumbered(rows, n) \in rows /\ RowNumbered(rows, n).event.sequence_number = n
  BY <1>1 DEF RowNumbered
<1> QED
  BY <1>2 DEF Counted

\* There are as many rows as numbers.
LEMMA CountedSize ==
  ASSUME NEW rows, NEW N \in Nat, Counted(rows, N)
  PROVE  Cardinality(rows) = N
PROOF
<1> DEFINE f == [n \in 1..N |-> RowNumbered(rows, n)]
<1>1. f \in [1..N -> rows]
  BY CountedRow
<1>2. \A m, n \in 1..N : f[m] = f[n] => m = n
  BY CountedRow
<1>3. ASSUME NEW e \in rows PROVE \E n \in 1..N : f[n] = e
  <2>1. e.event.sequence_number \in 1..N
    BY DEF Counted
  <2> QED
    BY <2>1, CountedRow
<1>4. f \in Bijection(1..N, rows)
  BY <1>1, <1>2, <1>3 DEF Bijection, Injection, Surjection, IsInjective
<1>5. ExistsBijection(1..N, rows)
  BY <1>4 DEF ExistsBijection
<1> QED
  BY <1>5, FS_CountingElements

\* The first k rows are counted too, and the same.
LEMMA CountedFirst ==
  ASSUME NEW rows, NEW N \in Nat, Counted(rows, N), NEW k \in 0..N
  PROVE  /\ Counted(FirstOf(rows, k), k)
         /\ FirstOf(rows, N) = rows
PROOF
<1>1. k \in Nat /\ k <= N
  OBVIOUS
<1>2. \A e \in rows : e.event.sequence_number \in 1..N
  BY DEF Counted
<1>3. \A e \in FirstOf(rows, k) : e.event.sequence_number \in 1..k
  BY <1>1, <1>2 DEF FirstOf
<1>4. ASSUME NEW n \in 1..k PROVE \E e \in FirstOf(rows, k) : e.event.sequence_number = n
  <2>1. n \in 1..N /\ n <= k
    BY <1>1
  <2>2. PICK e \in rows : e.event.sequence_number = n
    BY <2>1 DEF Counted
  <2> QED
    BY <2>1, <2>2 DEF FirstOf
<1>5. \A e, f \in FirstOf(rows, k) : e.event.sequence_number = f.event.sequence_number => e = f
  BY DEF Counted, FirstOf
<1>6. FirstOf(rows, N) = rows
  BY <1>2 DEF FirstOf
<1> QED
  BY <1>3, <1>4, <1>5, <1>6 DEF Counted

\* A row that continues the numbers.
LEMMA CountedGrows ==
  ASSUME NEW rows, NEW N \in Nat, Counted(rows, N), NEW M, M = N + 1,
         NEW row, row.event.sequence_number = M, NEW more, more = rows \cup {row}
  PROVE  Counted(more, M) /\ RowNumbered(more, M) = row
PROOF
<1>1. \A e \in rows : e.event.sequence_number \in 1..N
  BY DEF Counted
<1>2. Counted(more, M)
  <2>1. \A e \in more : e.event.sequence_number \in 1..(M)
    BY <1>1
  <2>2. ASSUME NEW n \in 1..(M) PROVE \E e \in more : e.event.sequence_number = n
    <3>1. CASE n = M
      BY <3>1
    <3>2. CASE n \in 1..N
      BY <3>2 DEF Counted
    <3> QED
      BY <3>1, <3>2
  <2>3. \A e, f \in more : e.event.sequence_number = f.event.sequence_number => e = f
    BY <1>1 DEF Counted
  <2> QED
    BY <2>1, <2>2, <2>3 DEF Counted
<1>3. M \in Nat /\ M \in 1..M
  OBVIOUS
<1>4. RowNumbered(more, M) = row
  BY <1>2, <1>3, CountedRow
<1> QED
  BY <1>2, <1>4

\* The log ends with the effect of the last row.
LEMMA LogEnds ==
  ASSUME NEW case, NEW rows, NEW N \in Nat, N > 3, Counted(rows, N)
  PROVE  /\ Len(EntryOf(case, rows).log) = N - 3
         /\ EntryOf(case, rows).log[N - 3] = EffectOf(case.outcome, rows, N)
PROOF
<1> DEFINE log == [n \in 1..(N - 3) |-> EffectOf(case.outcome, rows, n + 3)]
<1>1. EntryOf(case, rows) = [case_id |-> case.case_id, outcome |-> case.outcome, log |-> log]
  BY CountedSize DEF EntryOf
<1>2. N - 3 \in Nat /\ N - 3 \in 1..(N - 3) /\ (N - 3) + 3 = N
  OBVIOUS
<1>3. log[N - 3] = EffectOf(case.outcome, rows, N)
  BY <1>2
<1>4. Len(log) = N - 3
  BY <1>2
<1> HIDE DEF log
<1> QED
  BY <1>1, <1>3, <1>4

\* A row numbered next adds its effect to the log.
LEMMA EntryGrows ==
  ASSUME NEW case, NEW rows, NEW N \in Nat, N >= 3, Counted(rows, N), NEW M, M = N + 1,
         NEW row, row.event.sequence_number = M, NEW more, more = rows \cup {row}
  PROVE  EntryOf(case, more).log
           = Append(EntryOf(case, rows).log, EffectOf(case.outcome, more, M))
PROOF
<1>1. \A e \in rows : e.event.sequence_number \in 1..N
  BY DEF Counted
<1>2. Counted(more, N + 1) /\ RowNumbered(more, N + 1) = row
  BY CountedGrows
<1>3. N + 1 \in Nat /\ N + 1 \in 1..(N + 1)
  OBVIOUS
<1>4. ASSUME NEW n \in 1..N
      PROVE  EffectOf(case.outcome, more, n) = EffectOf(case.outcome, rows, n)
  <2>1. RowNumbered(rows, n) \in rows /\ RowNumbered(rows, n).event.sequence_number = n
    BY CountedRow
  <2>2. n \in 1..(N + 1) /\ ~ (N + 1 <= n)
    OBVIOUS
  <2>3. RowNumbered(more, n) = RowNumbered(rows, n)
    BY <1>2, <1>3, <2>1, <2>2, CountedRow
  <2>4. FirstOf(more, n) = FirstOf(rows, n)
    BY <2>2 DEF FirstOf
  <2> QED
    BY <2>3, <2>4 DEF EffectOf
<1>5. Cardinality(rows) = N /\ Cardinality(more) = N + 1
  BY <1>2, <1>3, CountedSize
<1> DEFINE S == {EffectOf(case.outcome, more, n + 3) : n \in 1..(N - 2)}
           short == [n \in 1..(N - 3) |-> EffectOf(case.outcome, rows, n + 3)]
           longer == [n \in 1..(N - 2) |-> EffectOf(case.outcome, more, n + 3)]
           new == EffectOf(case.outcome, more, N + 1)
<1>6. longer = Append(short, new)
  <2>1. /\ N - 3 \in Nat /\ N - 2 \in Nat /\ (N - 3) + 1 = N - 2 /\ (N - 2) + 3 = N + 1
        /\ N - 2 \in 1..(N - 2)
    OBVIOUS
  <2>2. \A n \in 1..(N - 3) : n + 3 \in 1..N /\ n \in 1..(N - 2)
    BY <2>1
  <2>3. \A n \in 1..(N - 3) : EffectOf(case.outcome, rows, n + 3)
                              = EffectOf(case.outcome, more, n + 3)
    BY <1>4, <2>2
  <2>4. \A n \in 1..(N - 3) : EffectOf(case.outcome, rows, n + 3) \in S
    BY <2>2, <2>3
  <2>5. new \in S
    BY <2>1
  <2>6. short \in Seq(S) /\ Len(short) = N - 3
    <3> HIDE DEF S
    <3> QED
      BY <2>1, <2>4
  <2>7. longer \in Seq(S) /\ Len(longer) = N - 2
    <3>1. \A n \in 1..(N - 2) : EffectOf(case.outcome, more, n + 3) \in S
      OBVIOUS
    <3> HIDE DEF S
    <3> QED
      BY <2>1, <3>1
  <2>8. \A n \in 1..(N - 3) : short[n] = longer[n]
    BY <2>2, <2>3
  <2>9. longer[N - 2] = new
    BY <2>1
  <2> HIDE DEF S, short, longer, new
  <2>10. /\ Append(short, new) \in Seq(S) /\ Len(Append(short, new)) = N - 2
         /\ \A n \in 1..(N - 3) : Append(short, new)[n] = short[n]
         /\ Append(short, new)[N - 2] = new
    BY <2>1, <2>5, <2>6, AppendProperties
  <2>11. \A n \in 1..(N - 2) : n \in 1..(N - 3) \/ n = N - 2
    BY <2>1
  <2> QED
    BY <2>7, <2>8, <2>9, <2>10, <2>11, SeqEqual
<1>7. EntryOf(case, rows) = [case_id |-> case.case_id, outcome |-> case.outcome, log |-> short]
  BY <1>5 DEF EntryOf
<1>8. EntryOf(case, more) = [case_id |-> case.case_id, outcome |-> case.outcome, log |-> longer]
  <2>1. (N + 1) - 3 = N - 2
    OBVIOUS
  <2> QED
    BY <1>5, <2>1 DEF EntryOf
<1> HIDE DEF short, longer, new
<1>9. EntryOf(case, rows).log = short /\ EntryOf(case, more).log = longer
  BY <1>7, <1>8
<1> QED
  BY <1>6, <1>9 DEF new
-----------------------------------------------------------------------------
(* The ledger's table of commands is the kernel's guard and planner. *)

LEMMA LeadsWhereLegal ==
  ASSUME NEW o \in Outcome, NEW rows, NEW N \in Nat, LegalHistory(o, rows, N),
         NEW command \in ControlCommand, NEW p, p = ReduceControlState(o, rows)
  PROVE  /\ LegalCommand(p, command) <=>
              Ledger!Leads(command, Ledger!Base(o), p.state) # {}
         /\ \A e : /\ LegalCommand(p, command) /\ e.action = PlannedAction[command]
                   => SettledBy(o, e).state \in Ledger!Leads(command, Ledger!Base(o), p.state)
PROOF
<1>1. PICK base : base = BaseControlState(o)
  OBVIOUS
<1>2. Ledger!Base(o) = base
  BY <1>1 DEF Ledger!Base, BaseControlState
<1>3. base \in {"AUTO_APPROVED", "AWAITING_INPUT", "AWAITING_REVIEW"}
  BY <1>1, NotCorrupt
<1>4. StartProjection(o).state = base
  BY <1>1 DEF StartProjection
<1>5. \A e : Pushed(StartProjection(o), e).state =
               IF e.action = "CASE_PAUSED" THEN "PAUSED" ELSE "DEMO_REVIEWED"
  BY DEF Pushed
<1>6. \A e : SettledBy(o, e).state =
               IF e.action = "CASE_PAUSED" THEN "PAUSED"
               ELSE IF e.action = "DEMO_REVIEW_RECORDED" THEN "DEMO_REVIEWED" ELSE base
  BY <1>4, <1>5 DEF SettledBy, ReversibleAction
<1>7. /\ PlannedAction["pause"] = "CASE_PAUSED"
      /\ PlannedAction["resume"] = "CASE_RESUMED"
      /\ PlannedAction["record_demo_review"] = "DEMO_REVIEW_RECORDED"
      /\ PlannedAction["undo"] = "CONTROL_COMPENSATED"
  BY DEF PlannedAction
<1>8. command \in {"pause", "resume", "record_demo_review", "undo"}
  BY DEF ControlCommand
<1>9. CASE p = StartProjection(o)
  <2>1. LegalCommand(p, command) <=>
          \/ command = "pause" /\ base # "AUTO_APPROVED"
          \/ command = "record_demo_review" /\ base = "AWAITING_REVIEW"
    <3>1. ASSUME LegalCommand(p, command)
          PROVE  \/ command = "pause" /\ base # "AUTO_APPROVED"
                 \/ command = "record_demo_review" /\ base = "AWAITING_REVIEW"
      BY <1>1, <1>9, <3>1, StartAllows
    <3>2. ASSUME \/ command = "pause" /\ base # "AUTO_APPROVED"
                 \/ command = "record_demo_review" /\ base = "AWAITING_REVIEW"
          PROVE  LegalCommand(p, command)
      BY <1>3, <1>4, <1>9, <3>2 DEF LegalCommand, AllowedStates
    <3> QED
      BY <3>1, <3>2
  <2>2. p.state = base
    BY <1>4, <1>9
  <2>3. Ledger!Leads(command, base, base) =
          IF command = "pause" /\ base # "AUTO_APPROVED" THEN {"PAUSED"}
          ELSE IF command = "record_demo_review" /\ base = "AWAITING_REVIEW"
          THEN {"DEMO_REVIEWED"} ELSE {}
    BY <1>3, <1>8 DEF Ledger!Leads
  <2>4. LegalCommand(p, command) <=> Ledger!Leads(command, base, base) # {}
    BY <2>1, <2>3
  <2>5. ASSUME NEW e, LegalCommand(p, command), e.action = PlannedAction[command]
        PROVE  SettledBy(o, e).state \in Ledger!Leads(command, base, base)
    BY <1>6, <1>7, <2>1, <2>3, <2>5
  <2> QED
    BY <1>2, <2>2, <2>4, <2>5
<1>10. ASSUME NEW r, r.action \in ReversibleAction, p = Pushed(StartProjection(o), r)
       PROVE  /\ LegalCommand(p, command) <=> Ledger!Leads(command, base, p.state) # {}
              /\ \A e : /\ LegalCommand(p, command) /\ e.action = PlannedAction[command]
                        => SettledBy(o, e).state \in Ledger!Leads(command, base, p.state)
  <2>1. LegalCommand(p, command) <=>
          command = "undo" \/ (command = "resume" /\ r.action = "CASE_PAUSED")
    BY <1>10, PushedAllows
  <2>2. /\ p.state = IF r.action = "CASE_PAUSED" THEN "PAUSED" ELSE "DEMO_REVIEWED"
        /\ p.state # base /\ p.state \in {"PAUSED", "DEMO_REVIEWED"}
        /\ p.state = "PAUSED" <=> r.action = "CASE_PAUSED"
    BY <1>3, <1>5, <1>10
  <2>3. Ledger!Leads(command, base, p.state) =
          IF command = "undo" \/ (command = "resume" /\ p.state = "PAUSED") THEN {base} ELSE {}
    BY <1>8, <2>2 DEF Ledger!Leads
  <2>4. LegalCommand(p, command) <=> Ledger!Leads(command, base, p.state) # {}
    BY <2>1, <2>2, <2>3
  <2>5. ASSUME NEW e, LegalCommand(p, command), e.action = PlannedAction[command]
        PROVE  SettledBy(o, e).state \in Ledger!Leads(command, base, p.state)
    BY <1>6, <1>7, <2>1, <2>2, <2>3, <2>5
  <2> QED
    BY <2>4, <2>5
<1> QED
  <2>1. N \in 0..N /\ p = Replay(o, rows)[N]
    BY HistorySettled
  <2>2. \/ p = StartProjection(o)
        \/ \E r : r.action \in ReversibleAction /\ p = Pushed(StartProjection(o), r)
    BY <2>1, PrefixShape
  <2> QED
    BY <1>2, <1>9, <1>10, <2>2

-----------------------------------------------------------------------------
(* What the tables say of a trace, and what the ledger has. *)

LEMMA StoredCounted ==
  ASSUME Inv, NEW t \in Creator, Stored(t), NEW N, N = HistoryLength(t)
  PROVE  /\ N \in Nat /\ N >= 3 /\ N - 3 \in Nat
         /\ Counted(TraceRows(t), N) /\ Cardinality(TraceRows(t)) = N
         /\ \A k \in 3..N : /\ RowsUpTo(t, k) = FirstOf(TraceRows(t), k)
                            /\ Cardinality(RowsUpTo(t, k)) = k
         /\ RowsUpTo(t, N) = TraceRows(t)
PROOF
<1>1. N \in Nat /\ N >= 3
  BY StoredRows
<1>2. Counted(TraceRows(t), N)
  BY StoredRows DEF Counted
<1>3. \A k : RowsUpTo(t, k) = FirstOf(TraceRows(t), k)
  BY DEF RowsUpTo, FirstOf
<1>4. ASSUME NEW k \in 3..N PROVE Cardinality(RowsUpTo(t, k)) = k
  <2>1. k \in 0..N /\ k \in Nat
    OBVIOUS
  <2>2. Counted(FirstOf(TraceRows(t), k), k)
    BY <1>1, <1>2, <2>1, CountedFirst
  <2> QED
    BY <1>3, <2>1, <2>2, CountedSize
<1>5. FirstOf(TraceRows(t), N) = TraceRows(t)
  <2>1. N \in 0..N
    BY <1>1
  <2> QED
    BY <1>1, <1>2, <2>1, CountedFirst
<1> QED
  BY <1>1, <1>2, <1>3, <1>4, <1>5, CountedSize

\* A trace's entry is read off its case and its rows alone.
LEMMA EntryRead ==
  ASSUME NEW t
  PROVE  LedgerEntry(t) = EntryOf(CaseOf(t), TraceRows(t)) /\ OutcomeOf(t) = CaseOf(t).outcome
PROOF
BY DEF LedgerEntry, EntryOf, EffectOf, RowOf, RowNumbered, ProjectionOf, RowsUpTo, FirstOf,
       OutcomeOf, CaseOf

LEMMA CaseFacts ==
  ASSUME Inv, NEW t \in Creator, Stored(t)
  PROVE  /\ CaseOf(t) \in cases /\ CaseOf(t) = NewCase(t)
         /\ CaseOf(t).case_id \in CaseId /\ CaseOf(t).outcome \in Outcomes
         /\ \A c \in cases : c.trace_id = t => c = CaseOf(t)
PROOF
<1>1. CaseOf(t) \in cases /\ CaseOf(t).trace_id = t
  BY DEF Stored, CaseOf
<1>2. CaseOf(t) = NewCase(t) /\ \A c \in cases : c.trace_id = t => c = CaseOf(t)
  BY <1>1 DEF Inv, CasesOK
<1>3. CaseOf(t) \in CaseRow
  BY <1>1 DEF Inv, TypeOK
<1> QED
  BY <1>1, <1>2, <1>3 DEF CaseRow

\* The state after the first k rows, as the k-th row says.
LEMMA StateAfter ==
  ASSUME Inv, NEW t \in Creator, Stored(t), NEW k \in 3..HistoryLength(t)
  PROVE  /\ ProjectionOf(t, RowsUpTo(t, k)).state \in ControlState
         /\ k = 3 => ProjectionOf(t, RowsUpTo(t, k)).state = BaseControlState(OutcomeOf(t))
PROOF
<1>1. PICK o, rows : o = OutcomeOf(t) /\ rows = KernelRows(RowsUpTo(t, k))
  OBVIOUS
<1>2. o \in Outcome /\ k \in Nat /\ LegalHistory(o, rows, k)
  BY <1>1, StoredRows, PrefixRows
<1>3. ReduceControlState(o, rows) = SettledBy(o, RowAt(rows, k)) /\ k \in 1..k
  BY <1>2, HistorySettled
<1>4. SettledBy(o, RowAt(rows, k)).state \in ControlState
  <2>1. BaseControlState(o) \in ControlState
    BY <1>2, NotCorrupt DEF ControlState
  <2> QED
    BY <2>1 DEF SettledBy, Pushed, StartProjection, ControlState
<1>5. ASSUME k = 3 PROVE SettledBy(o, RowAt(rows, k)).state = BaseControlState(o)
  <2>1. RowAt(rows, k).action \notin ControlAction
    BY <1>2, <1>3, <1>5 DEF LegalHistory, RowKinds
  <2> QED
    BY <2>1 DEF SettledBy, StartProjection, ControlAction
<1> QED
  BY <1>1, <1>3, <1>4, <1>5 DEF ProjectionOf

\* The entry has one effect for each row after the third.
LEMMA EntryFacts ==
  ASSUME Inv, NEW t \in Creator, Stored(t),
         NEW N, N = HistoryLength(t), NEW entry, entry = LedgerEntry(t)
  PROVE  /\ entry.case_id = CaseOf(t).case_id /\ entry.outcome = OutcomeOf(t)
         /\ DOMAIN entry.log = 1..(N - 3) /\ Len(entry.log) = N - 3
         /\ \A k \in 4..N : /\ entry.log[k - 3].key = RowNumbered(TraceRows(t), k).idempotency_key
                            /\ entry.log[k - 3].intent
                                 = RowNumbered(TraceRows(t), k).command_fingerprint
         /\ \A k \in 3..N : Ledger!StateAt(entry, k - 3) = ProjectionOf(t, RowsUpTo(t, k)).state
         /\ entry # NULL
PROOF
<1>1. PICK o, rows : o = OutcomeOf(t) /\ rows = TraceRows(t)
  OBVIOUS
<1>2. /\ N \in Nat /\ N >= 3 /\ N - 3 \in Nat /\ Counted(rows, N) /\ Cardinality(rows) = N
      /\ \A k \in 3..N : RowsUpTo(t, k) = FirstOf(rows, k)
  BY <1>1, StoredCounted
<1> DEFINE effects == [n \in 1..(N - 3) |-> EffectOf(o, rows, n + 3)]
<1>3. entry = [case_id |-> CaseOf(t).case_id, outcome |-> o, log |-> effects]
  BY <1>1, <1>2, EntryRead DEF EntryOf
<1>4. \A k \in 4..N : /\ k - 3 \in 1..(N - 3) /\ k \in 1..N /\ k \in 3..N /\ k - 3 # 0
                      /\ effects[k - 3] = EffectOf(o, rows, k)
  <2>1. \A k \in 4..N : k - 3 \in 1..(N - 3) /\ k \in 1..N /\ k \in 3..N /\ k - 3 # 0
                        /\ (k - 3) + 3 = k
    BY <1>2
  <2> QED
    BY <2>1
<1>5. \A k \in 3..N : EffectOf(o, rows, k).state = ProjectionOf(t, RowsUpTo(t, k)).state
  BY <1>1, <1>2 DEF EffectOf, ProjectionOf
<1>6. effects \in Seq(Ledger!EffectSet)
  <2>1. ASSUME NEW n \in 1..(N - 3) PROVE EffectOf(o, rows, n + 3) \in Ledger!EffectSet
    <3>1. n + 3 \in 1..N /\ n + 3 \in 3..N
      BY <1>2
    <3>2. RowNumbered(rows, n + 3) \in EventRow
      BY <1>1, <1>2, <3>1, CountedRow, StoredRows
    <3>3. EffectOf(o, rows, n + 3).state \in ControlState
      BY <1>5, <3>1, StateAfter
    <3>4. Ledger!State = ControlState
      BY DEF Ledger!State, ControlState
    <3> QED
      BY <3>2, <3>3, <3>4 DEF EffectOf, EventRow, Ledger!EffectSet, Ledger!IntentSet
  <2> HIDE DEF effects
  <2>2. effects = [n \in 1..(N - 3) |-> EffectOf(o, rows, n + 3)]
    BY DEF effects
  <2> QED
    BY <1>2, <2>1, <2>2
<1>7. Len(effects) = N - 3 /\ DOMAIN effects = 1..(N - 3)
  BY <1>2
<1>8. entry # NULL
  <2>1. CaseOf(t).case_id \in CaseId /\ o \in Outcomes
    BY <1>1, CaseFacts, EntryRead
  <2> HIDE DEF effects
  <2>2. entry \in Ledger!Entry
    BY <1>3, <1>6, <2>1 DEF Ledger!Entry
  <2> QED
    BY <2>2, NullIsNoEntry
<1>9. \A k \in 3..N : Ledger!StateAt(entry, k - 3) = ProjectionOf(t, RowsUpTo(t, k)).state
  <2>1. SUFFICES ASSUME NEW k \in 3..N
                 PROVE  Ledger!StateAt(entry, k - 3) = ProjectionOf(t, RowsUpTo(t, k)).state
    OBVIOUS
  <2>2. CASE k = 3
    <3>1. Ledger!StateAt(entry, k - 3) = Ledger!Base(entry.outcome)
      BY <2>2 DEF Ledger!StateAt
    <3>2. Ledger!Base(entry.outcome) = BaseControlState(o)
      BY <1>3 DEF Ledger!Base, BaseControlState
    <3> QED
      BY <1>1, <2>2, <3>1, <3>2, StateAfter
  <2>3. CASE k \in 4..N
    <3> HIDE DEF effects
    <3>1. Ledger!StateAt(entry, k - 3) = effects[k - 3].state
      BY <1>3, <1>4, <2>3 DEF Ledger!StateAt
    <3> QED
      BY <1>4, <1>5, <2>3, <3>1
  <2> QED
    BY <1>2, <2>2, <2>3
<1>10. \A k \in 4..N : /\ entry.log[k - 3].key = RowNumbered(rows, k).idempotency_key
                       /\ entry.log[k - 3].intent = RowNumbered(rows, k).command_fingerprint
  <2> SUFFICES ASSUME NEW k \in 4..N
               PROVE  /\ effects[k - 3].key = RowNumbered(rows, k).idempotency_key
                      /\ effects[k - 3].intent = RowNumbered(rows, k).command_fingerprint
    <3> HIDE DEF effects
    <3> QED
      BY <1>3
  <2> HIDE DEF effects
  <2>1. effects[k - 3] = EffectOf(o, rows, k)
    BY <1>4
  <2> QED
    BY <2>1 DEF EffectOf
<1> HIDE DEF effects
<1>11. entry.case_id = CaseOf(t).case_id /\ entry.outcome = o /\ entry.log = effects
  BY <1>3
<1> QED
  BY <1>1, <1>7, <1>8, <1>9, <1>10, <1>11

\* What a client reads in the first k rows is the ledger's view of their effects.
LEMMA ViewRead ==
  ASSUME Inv, NEW t \in Creator, Stored(t), NEW k \in 3..HistoryLength(t)
  PROVE  [kind |-> "view", trace |-> t, effects |-> Cardinality(RowsUpTo(t, k)) - 3,
          state |-> ProjectionOf(t, RowsUpTo(t, k)).state]
         = Ledger!View(t, LedgerEntry(t), k - 3)
PROOF
<1>1. Cardinality(RowsUpTo(t, k)) = k
  BY StoredCounted
<1>2. Ledger!StateAt(LedgerEntry(t), k - 3) = ProjectionOf(t, RowsUpTo(t, k)).state
  BY EntryFacts
<1> QED
  BY <1>1, <1>2 DEF Ledger!View

\* A call that was answered has an answer in the ledger.
LEMMA AnswerRead ==
  ASSUME Inv, NEW r \in Request
  PROVE  ClientAnswer(r) = NULL <=> answer[r] = NULL
PROOF
<1>1. SUFFICES ASSUME answer[r] # NULL PROVE ClientAnswer(r) \in ClientAnswers
  BY NullIsNoEntry DEF ClientAnswer
<1>2. answer[r] \in Answer
  BY <1>1 DEF Inv, TypeOK
<1>3. CASE ~ Succeeded(r)
  <2>1. ClientAnswer(r) = [kind |-> answer[r].kind, trace |-> NULL, effects |-> 0, state |-> NULL]
    BY <1>1, <1>3 DEF ClientAnswer
  <2> QED
    BY <1>2, <2>1 DEF ClientAnswers, Answer
<1>4. CASE Succeeded(r)
  <2>1. PICK t : t = TraceOf(r)
    OBVIOUS
  <2>2. t \in Creator /\ Stored(t) /\ IsPrefix(answer[r].rows, t)
    BY <1>4, <2>1, AnswerIsPrefix
  <2>3. PICK k \in 3..HistoryLength(t) : answer[r].rows = RowsUpTo(t, k)
    BY <2>2 DEF IsPrefix
  <2>4. /\ Cardinality(answer[r].rows) = k
        /\ ProjectionOf(t, answer[r].rows).state \in ControlState
    BY <2>2, <2>3, StoredCounted, StateAfter
  <2>5. k - 3 \in Nat
    BY <2>2, <2>3, StoredCounted
  <2>6. ClientAnswer(r) = [kind |-> "view", trace |-> t, effects |-> k - 3,
                           state |-> ProjectionOf(t, answer[r].rows).state]
    BY <1>1, <1>4, <2>1, <2>4 DEF ClientAnswer
  <2> QED
    BY <2>2, <2>4, <2>5, <2>6 DEF ClientAnswers, AnswerKind
<1> QED
  BY <1>3, <1>4

LEMMA PendingRead ==
  ASSUME Inv, NEW r \in Request
  PROVE  Ledger!Pending(r) <=> pc[r] \notin {"idle", "done"}
PROOF
<1>1. Ledger!Pending(r) <=> body[r] # NULL /\ ClientAnswer(r) = NULL
  BY DEF Ledger!Pending
<1>2. answer[r] # NULL <=> pc[r] = "done"
  BY DEF Inv, TypeOK
<1>3. pc[r] # "idle" => body[r] # NULL
  <2>1. CASE r \in Creator
    BY <2>1, Distinct DEF Inv, CreatorOK
  <2>2. CASE r \in Controller
    BY <2>2, Distinct DEF Inv, ControllerOK
  <2>3. CASE r \in Reader
    BY <2>3, Distinct DEF Inv, ReaderOK
  <2> QED
    BY <2>1, <2>2, <2>3 DEF Request
<1>4. pc[r] = "idle" => body[r] = NULL
  BY DEF Inv, CallsShaped
<1> QED
  BY <1>1, <1>2, <1>3, <1>4, AnswerRead

LEMMA StoredRead ==
  ASSUME Inv, NEW t \in Creator
  PROVE  Ledger!Stored(t) <=> Stored(t)
PROOF
BY EntryFacts DEF Ledger!Stored

-----------------------------------------------------------------------------
(* Steps of the service and what the ledger makes of them. *)

LedgerNow == [t \in Creator |-> IF Stored(t) THEN LedgerEntry(t) ELSE NULL]
AnswersNow == [r \in Request |-> ClientAnswer(r)]

LEMMA EntryReadNext ==
  ASSUME NEW t
  PROVE  LedgerEntry(t)' = EntryOf(CaseOf(t)', TraceRows(t)') /\ OutcomeOf(t)' = CaseOf(t)'.outcome
PROOF
BY DEF LedgerEntry, EntryOf, EffectOf, RowOf, RowNumbered, ProjectionOf, RowsUpTo, FirstOf,
       OutcomeOf, CaseOf

\* Where the tables stay, the ledger does.
LEMMA LedgerStays ==
  ASSUME UNCHANGED database
  PROVE  LedgerNow' = LedgerNow
PROOF
<1>1. ASSUME NEW t
      PROVE  /\ CaseOf(t)' = CaseOf(t) /\ TraceRows(t)' = TraceRows(t) /\ Stored(t)' = Stored(t)
  BY DEF database, CaseOf, TraceRows, Stored
<1>2. ASSUME NEW t PROVE LedgerEntry(t)' = LedgerEntry(t)
  BY <1>1, EntryRead, EntryReadNext
<1> QED
  BY <1>1, <1>2 DEF LedgerNow

\* The answers that were given stay what they are to a client.
LEMMA AnswersStay ==
  ASSUME Inv, NEW r \in Request, Moves(r), PastStays, NEW a, a = ClientAnswer(r)'
  PROVE  AnswersNow' = [AnswersNow EXCEPT ![r] = a]
PROOF
<1>1. ASSUME NEW q \in Request, q # r PROVE ClientAnswer(q)' = ClientAnswer(q)
  <2>1. answer'[q] = answer[q]
    BY <1>1 DEF Moves
  <2>2. CASE answer[q] = NULL
    BY <2>1, <2>2 DEF ClientAnswer
  <2>3. CASE answer[q] # NULL
    <3>1. pc[q] = "done"
      BY <2>3 DEF Inv, TypeOK
    <3>2. TraceOf(q)' = TraceOf(q) /\ (Succeeded(q)' <=> Succeeded(q))
      BY <3>1, AnswerStays
    <3>3. CASE ~ Succeeded(q)
      BY <2>1, <2>3, <3>2, <3>3 DEF ClientAnswer
    <3>4. CASE Succeeded(q)
      <4>1. PICK t : t = TraceOf(q)
        OBVIOUS
      <4>2. t \in Creator /\ Stored(t)
        BY <3>4, <4>1, AnswerIsPrefix
      <4>3. OutcomeOf(t)' = OutcomeOf(t)
        BY <4>2 DEF PastStays
      <4>4. ProjectionOf(TraceOf(q), answer[q].rows)' = ProjectionOf(TraceOf(q), answer[q].rows)
        BY <2>1, <3>2, <4>1, <4>3 DEF ProjectionOf, KernelRows
      <4> QED
        BY <2>1, <2>3, <3>2, <3>4, <4>4 DEF ClientAnswer
    <3> QED
      BY <3>3, <3>4
  <2> QED
    BY <2>2, <2>3
<1> QED
  BY <1>1 DEF AnswersNow

\* A call that has not been answered has no answer in the ledger.
LEMMA NoAnswerNext ==
  ASSUME NEW r, answer'[r] = NULL
  PROVE  ClientAnswer(r)' = NULL
PROOF
BY DEF ClientAnswer

\* A refusal is told as it is.
LEMMA RefusalRead ==
  ASSUME NEW r, NEW kind \in AnswerKind \ {"view"}, answer'[r] = Refusal(kind)
  PROVE  ClientAnswer(r)' = Ledger!Told(kind)
PROOF
<1>1. Refusal(kind) # NULL
  BY AnswersTyped, Distinct
<1>2. Refusal(kind).kind = kind
  BY DEF Refusal
<1>3. ~ Succeeded(r)'
  BY <1>2 DEF Succeeded
<1> QED
  BY <1>1, <1>2, <1>3 DEF ClientAnswer, Ledger!Told

LEMMA TellRead ==
  ASSUME NEW r, NEW a, AnswersNow' = [AnswersNow EXCEPT ![r] = a], body' = body
  PROVE  Ledger!Tell(r, a)
PROOF
BY DEF Ledger!Tell, AnswersNow

\* A call goes on, and its client sees nothing.
LEMMA SilentStep ==
  ASSUME Inv, NEW r \in Request, Moves(r), UNCHANGED database, body' = body,
         pc[r] \notin {"idle", "done"}, answer'[r] = NULL
  PROVE  UNCHANGED Ledger!vars
PROOF
<1>1. answer[r] = NULL
  BY DEF Inv, TypeOK
<1>2. PastStays /\ LedgerNow' = LedgerNow
  BY UnchangedTables, LedgerStays
<1>3. ClientAnswer(r)' = NULL /\ ClientAnswer(r) = NULL
  BY <1>1, NoAnswerNext, AnswerRead
<1>4. AnswersNow' = [AnswersNow EXCEPT ![r] = NULL]
  BY <1>2, <1>3, AnswersStay
<1>5. AnswersNow' = AnswersNow
  BY <1>3, <1>4 DEF AnswersNow
<1> QED
  BY <1>2, <1>5 DEF LedgerNow, AnswersNow, Ledger!vars

\* A refusal changes nothing but the answer of its call.
LEMMA RefusalTold ==
  ASSUME Inv, NEW r \in Request, Moves(r), UNCHANGED database, body' = body,
         NEW kind \in AnswerKind \ {"view"}, answer'[r] = Refusal(kind)
  PROVE  Ledger!Tell(r, Ledger!Told(kind)) /\ LedgerNow' = LedgerNow
PROOF
<1>1. PastStays /\ LedgerNow' = LedgerNow
  BY UnchangedTables, LedgerStays
<1>2. AnswersNow' = [AnswersNow EXCEPT ![r] = Ledger!Told(kind)]
  BY <1>1, RefusalRead, AnswersStay
<1> QED
  BY <1>1, <1>2, TellRead

\* A lost connection before the commit.
LEMMA FailTold ==
  ASSUME Inv, NEW r \in Request, Moves(r), UNCHANGED database, body' = body,
         pc[r] \notin {"idle", "done"}, answer'[r] = Refusal("connection_error")
  PROVE  Ledger!Fail(r)
PROOF
<1>1. Ledger!Tell(r, Ledger!Told("connection_error")) /\ LedgerNow' = LedgerNow
  BY RefusalTold DEF AnswerKind
<1>2. Ledger!Pending(r)
  BY PendingRead
<1> QED
  BY <1>1, <1>2 DEF Ledger!Fail, Ledger!Failure, LedgerNow

\* An arrival is a question, refused at once if it is no valid one.
LEMMA ArrivalRead ==
  ASSUME Inv, NEW r \in Request, Moves(r), UNCHANGED database, pc[r] = "idle"
  PROVE  /\ body[r] = NULL /\ LedgerNow' = LedgerNow
         /\ answer' = answer => AnswersNow' = AnswersNow
         /\ answer'[r] = Refusal("invalid") =>
              AnswersNow' = [AnswersNow EXCEPT ![r] = Ledger!Told("invalid")]
PROOF
<1>1. PastStays /\ LedgerNow' = LedgerNow
  BY UnchangedTables, LedgerStays
<1>2. body[r] = NULL /\ answer[r] = NULL
  BY DEF Inv, TypeOK, CallsShaped
<1>3. ASSUME answer' = answer PROVE AnswersNow' = AnswersNow
  <2>1. ClientAnswer(r)' = NULL /\ ClientAnswer(r) = NULL
    BY <1>2, <1>3, NoAnswerNext, AnswerRead
  <2>2. AnswersNow' = [AnswersNow EXCEPT ![r] = NULL]
    BY <1>1, <2>1, AnswersStay
  <2> QED
    BY <2>1, <2>2 DEF AnswersNow
<1>4. ASSUME answer'[r] = Refusal("invalid")
      PROVE  AnswersNow' = [AnswersNow EXCEPT ![r] = Ledger!Told("invalid")]
  <2>1. ClientAnswer(r)' = Ledger!Told("invalid")
    BY <1>4, RefusalRead DEF AnswerKind
  <2> QED
    BY <1>1, <2>1, AnswersStay
<1> QED
  BY <1>1, <1>2, <1>3, <1>4

LEMMA ArriveCreateAsks ==
  ASSUME Inv, NEW r \in Creator, ArriveCreate(r)
  PROVE  Ledger!Ask(r)
PROOF
<1>1. r \in Request /\ Moves(r) /\ pc[r] = "idle" /\ UNCHANGED database /\ answer' = answer
  BY Distinct, StepArriveCreate DEF ArriveCreate, StepOf
<1>2. body[r] = NULL /\ LedgerNow' = LedgerNow /\ AnswersNow' = AnswersNow
  BY <1>1, ArrivalRead
<1>3. PICK b \in CreateBody : body' = [body EXCEPT ![r] = b]
  BY DEF ArriveCreate
<1>4. b \in Ledger!Submission
  BY DEF CreateBody, Ledger!Submission
<1> QED
  BY <1>2, <1>3, <1>4 DEF Ledger!Ask, LedgerNow, AnswersNow

LEMMA ArriveReadAsks ==
  ASSUME Inv, NEW r \in Reader, ArriveRead(r)
  PROVE  Ledger!Ask(r)
PROOF
<1>1. r \in Request /\ Moves(r) /\ pc[r] = "idle" /\ UNCHANGED database /\ answer' = answer
  BY Distinct, StepArriveRead DEF ArriveRead, StepOf
<1>2. body[r] = NULL /\ LedgerNow' = LedgerNow /\ AnswersNow' = AnswersNow
  BY <1>1, ArrivalRead
<1>3. PICK b \in ReadBody : body' = [body EXCEPT ![r] = b]
  BY DEF ArriveRead
<1>4. b \in Ledger!Lookup
  BY DEF ReadBody, Ledger!Lookup
<1> QED
  BY <1>2, <1>3, <1>4 DEF Ledger!Ask, LedgerNow, AnswersNow

LEMMA ArriveControlAsks ==
  ASSUME Inv, NEW r \in Controller, ArriveControl(r)
  PROVE  Ledger!Ask(r)
PROOF
<1>1. r \in Request /\ Moves(r) /\ pc[r] = "idle" /\ UNCHANGED database
  BY Distinct, StepArriveControl DEF ArriveControl, StepOf
<1>2. PICK b \in ControlBody :
        /\ body' = [body EXCEPT ![r] = b]
        /\ IF ValidControl(b) THEN answer' = answer
           ELSE answer' = [answer EXCEPT ![r] = Refusal("invalid")]
  BY DEF ArriveControl
<1>3. body[r] = NULL /\ LedgerNow' = LedgerNow
  BY <1>1, ArrivalRead
<1>4. b \in Ledger!ControlBody /\ (Ledger!Valid(b) <=> ValidControl(b))
  BY DEF ControlBody, Ledger!ControlBody, Ledger!Valid, ValidControl
<1>5. CASE ValidControl(b)
  <2>1. AnswersNow' = AnswersNow
    BY <1>1, <1>2, <1>5, ArrivalRead
  <2> QED
    BY <1>2, <1>3, <1>4, <1>5, <2>1 DEF Ledger!Ask, LedgerNow, AnswersNow
<1>6. CASE ~ ValidControl(b)
  <2>1. answer'[r] = Refusal("invalid")
    BY <1>1, <1>2, <1>6, InvTyped DEF Typed
  <2>2. AnswersNow' = [AnswersNow EXCEPT ![r] = Ledger!Told("invalid")]
    BY <1>1, <2>1, ArrivalRead
  <2> QED
    BY <1>2, <1>3, <1>4, <1>6, <2>2 DEF Ledger!Ask, LedgerNow, AnswersNow
<1> QED
  BY <1>5, <1>6

\* A case_id is known to the ledger when a case has it.
LEMMA CaseRead ==
  ASSUME Inv, NEW id
  PROVE  Ledger!CaseKnown(id) <=> CaseIdTaken(id, cases)
PROOF
<1>1. ASSUME NEW t \in Creator, Stored(t)
      PROVE  LedgerNow[t].case_id = CaseOf(t).case_id /\ CaseOf(t) \in cases
  BY <1>1, EntryFacts, CaseFacts DEF LedgerNow
<1>2. Ledger!CaseKnown(id) <=> \E t \in Creator : Stored(t) /\ LedgerNow[t].case_id = id
  BY StoredRead DEF Ledger!CaseKnown, LedgerNow
<1>3. ASSUME NEW c \in cases
      PROVE  c.trace_id \in Creator /\ Stored(c.trace_id) /\ CaseOf(c.trace_id) = c
  BY OutcomeKnown, CaseFacts
<1> QED
  BY <1>1, <1>2, <1>3 DEF CaseIdTaken

\* A refused creation: at either of its checks of the case_id.
LEMMA CreateRefused ==
  ASSUME Inv, NEW r \in Creator, Moves(r), UNCHANGED database, body' = body,
         pc[r] \notin {"idle", "done"}, CaseIdTaken(body[r].case_id, cases),
         answer'[r] = Refusal("case_exists")
  PROVE  Ledger!RefuseCase(r)
PROOF
<1>1. r \in Request
  BY Distinct
<1>2. Ledger!Tell(r, Ledger!Told("case_exists")) /\ LedgerNow' = LedgerNow
  BY <1>1, RefusalTold DEF AnswerKind
<1>3. Ledger!Pending(r) /\ Ledger!CaseKnown(body[r].case_id)
  BY <1>1, PendingRead, CaseRead
<1> QED
  BY <1>2, <1>3 DEF Ledger!RefuseCase, LedgerNow

\* A control call or a read of a trace that is not stored.
LEMMA UnknownRefused ==
  ASSUME Inv, NEW r \in Controller \cup Reader, Moves(r), UNCHANGED database, body' = body,
         pc[r] \notin {"idle", "done"}, ~ Stored(body[r].trace_id),
         answer'[r] = Refusal("not_found")
  PROVE  Ledger!RefuseUnknown(r)
PROOF
<1>1. r \in Request /\ body[r].trace_id \in Creator
  <2>1. CASE r \in Controller
    BY <2>1, Distinct DEF Inv, ControllerOK, ControlBody
  <2>2. CASE r \in Reader
    BY <2>2, Distinct DEF Inv, ReaderOK, ReadBody
  <2> QED
    BY <2>1, <2>2
<1>2. Ledger!Tell(r, Ledger!Told("not_found")) /\ LedgerNow' = LedgerNow
  BY <1>1, RefusalTold DEF AnswerKind
<1>3. Ledger!Pending(r) /\ ~ Ledger!Stored(body[r].trace_id)
  BY <1>1, PendingRead, StoredRead
<1> QED
  BY <1>2, <1>3 DEF Ledger!RefuseUnknown, LedgerNow

\* Effects are numbered from the fourth row on; only those have keys.
LEMMA KeyedRow ==
  ASSUME Inv, NEW t \in Creator, Stored(t), NEW e \in TraceRows(t), e.idempotency_key # NULL,
         NEW n, n = e.event.sequence_number - 3
  PROVE  /\ e.event.sequence_number \in 4..HistoryLength(t)
         /\ n \in 1..(HistoryLength(t) - 3) /\ n \in DOMAIN LedgerEntry(t).log
         /\ LedgerEntry(t).log[n].key = e.idempotency_key
         /\ LedgerEntry(t).log[n].intent = e.command_fingerprint
PROOF
<1>1. PICK k : k = e.event.sequence_number
  OBVIOUS
<1>2. k \in 1..HistoryLength(t) /\ HistoryLength(t) \in Nat
  BY <1>1, StoredRows
<1>3. k \notin 1..3
  <2>1. SUFFICES ASSUME k \in 1..3 PROVE FALSE
    OBVIOUS
  <2>2. e \in NewRows(t)
    BY <1>1, <2>1, FirstRows
  <2> QED
    BY <2>2, NewRowsFacts
<1>4. k \in 4..HistoryLength(t) /\ n = k - 3 /\ n \in 1..(HistoryLength(t) - 3)
  BY <1>1, <1>2, <1>3
<1>5. RowNumbered(TraceRows(t), k) = e
  BY <1>1, <1>2, StoredCounted, CountedRow
<1>6. /\ LedgerEntry(t).log[k - 3].key = RowNumbered(TraceRows(t), k).idempotency_key
      /\ LedgerEntry(t).log[k - 3].intent = RowNumbered(TraceRows(t), k).command_fingerprint
      /\ DOMAIN LedgerEntry(t).log = 1..(HistoryLength(t) - 3)
  BY <1>4, EntryFacts
<1> QED
  BY <1>1, <1>4, <1>5, <1>6

\* The effects of a key are the receipts of the calls that sent it.
LEMMA ActedRead ==
  ASSUME Inv, NEW b \in ControlBody, Stored(b.trace_id), NEW t, t = b.trace_id
  PROVE  /\ Receipts(b, TraceRows(t)) = {} => Ledger!ActedAt(b) = {}
         /\ \A e \in Receipts(b, TraceRows(t)) : \E n \in Ledger!ActedAt(b) :
              /\ n = e.event.sequence_number - 3
              /\ Ledger!Log(t)[n].intent = e.command_fingerprint
PROOF
<1>1. t \in Creator /\ Ledger!Log(t) = LedgerEntry(t).log
  BY DEF ControlBody, Ledger!Log
<1>2. PICK N : N = HistoryLength(t)
  OBVIOUS
<1>3. N \in Nat /\ N >= 3 /\ Counted(TraceRows(t), N)
  BY <1>1, <1>2, StoredCounted
<1>4. ASSUME NEW n \in Ledger!ActedAt(b) PROVE Receipts(b, TraceRows(t)) # {}
  <2>1. /\ n \in DOMAIN LedgerEntry(t).log /\ b.idempotency_key # NULL
        /\ LedgerEntry(t).log[n].key = b.idempotency_key
    BY <1>1, <1>4 DEF Ledger!ActedAt
  <2>2. n \in 1..(N - 3)
    BY <1>1, <1>2, <2>1, EntryFacts
  <2>3. PICK k \in 4..N : n = k - 3
    <3>1. n + 3 \in 4..N /\ n = (n + 3) - 3
      BY <1>3, <2>2
    <3> QED
      BY <3>1
  <2>4. LedgerEntry(t).log[k - 3].key = RowNumbered(TraceRows(t), k).idempotency_key
    BY <1>1, <1>2, EntryFacts
  <2>5. RowNumbered(TraceRows(t), k) \in TraceRows(t)
    <3>1. k \in 1..N
      BY <2>3
    <3> QED
      BY <1>3, <3>1, CountedRow
  <2> QED
    BY <2>1, <2>3, <2>4, <2>5 DEF Receipts
<1>5. ASSUME NEW e \in Receipts(b, TraceRows(t))
      PROVE  \E n \in Ledger!ActedAt(b) : /\ n = e.event.sequence_number - 3
                                          /\ Ledger!Log(t)[n].intent = e.command_fingerprint
  <2>1. /\ e \in TraceRows(t) /\ b.idempotency_key # NULL
        /\ e.idempotency_key = b.idempotency_key
    BY DEF Receipts
  <2>2. PICK n : n = e.event.sequence_number - 3
    OBVIOUS
  <2>3. /\ n \in DOMAIN LedgerEntry(t).log
        /\ LedgerEntry(t).log[n].key = e.idempotency_key
        /\ LedgerEntry(t).log[n].intent = e.command_fingerprint
    BY <1>1, <2>1, <2>2, KeyedRow
  <2> QED
    BY <1>1, <2>1, <2>2, <2>3 DEF Ledger!ActedAt
<1> QED
  BY <1>4, <1>5

\* Where a command leads is where the guard allows it.
LEMMA LeadsRead ==
  ASSUME Inv, NEW b \in ControlBody, Stored(b.trace_id),
         NEW t, t = b.trace_id, NEW p, p = ProjectionOf(t, TraceRows(t))
  PROVE  /\ t \in Creator /\ b.command \in ControlCommand
         /\ Ledger!LeadsNow(b) = Ledger!Leads(b.command, Ledger!Base(OutcomeOf(t)), p.state)
         /\ LegalCommand(p, b.command) <=> Ledger!LeadsNow(b) # {}
PROOF
<1>1. t \in Creator /\ b.command \in ControlCommand
  BY ChoiceAssumption DEF ControlBody
<1>2. PICK N, entry : N = HistoryLength(t) /\ entry = LedgerEntry(t)
  OBVIOUS
<1>3. N \in Nat /\ N >= 3 /\ N \in 3..N /\ RowsUpTo(t, N) = TraceRows(t)
  BY <1>1, <1>2, StoredCounted
<1>4. /\ entry.outcome = OutcomeOf(t) /\ Len(entry.log) = N - 3
      /\ Ledger!StateAt(entry, N - 3) = p.state
  BY <1>1, <1>2, <1>3, EntryFacts
<1>5. Ledger!LeadsNow(b) = Ledger!Leads(b.command, Ledger!Base(OutcomeOf(t)), p.state)
  <2>1. Ledger!LeadsNow(b) =
          Ledger!Leads(b.command, Ledger!Base(entry.outcome),
                       Ledger!StateAt(entry, Len(entry.log)))
    BY <1>1, <1>2 DEF Ledger!LeadsNow
  <2> QED
    BY <1>4, <2>1
<1>6. LegalCommand(p, b.command) <=>
        Ledger!Leads(b.command, Ledger!Base(OutcomeOf(t)), p.state) # {}
  <2>1. /\ LegalHistory(OutcomeOf(t), KernelRows(TraceRows(t)), N)
        /\ OutcomeOf(t) \in Outcome
        /\ p = ReduceControlState(OutcomeOf(t), KernelRows(TraceRows(t)))
    BY <1>1, <1>2, StoredRows DEF ProjectionOf
  <2> QED
    BY <1>1, <1>3, <2>1, LeadsWhereLegal
<1> QED
  BY <1>1, <1>5, <1>6

ReadCommitted == Isolation = "READ COMMITTED"

\* At READ COMMITTED a call that has loaded its events judges the stored ones.
LEMMA SeesStored ==
  ASSUME Inv, ReadCommitted, NEW r \in Controller,
         pc[r] \in {"receipt", "insert_event", "commit"}, NEW t, t = body[r].trace_id
  PROVE  /\ body[r] \in ControlBody /\ t \in Creator /\ Stored(t)
         /\ loaded[r] = TraceRows(t) /\ Visible(r, t) = TraceRows(t)
         /\ LoadedProjection(r) = ProjectionOf(t, TraceRows(t))
PROOF
<1>1. /\ body[r] \in ControlBody /\ t \in Creator /\ Stored(t)
      /\ loaded[r] = TraceRows(t) /\ Visible(r, t) = loaded[r]
  BY SeesLoaded DEF ReadCommitted
<1> QED
  BY <1>1 DEF LoadedProjection, ProjectionOf

LEMMA IllegalRefused ==
  ASSUME Inv, ReadCommitted, NEW r \in Controller, Moves(r), body' = body,
         RefuseIllegal(r), answer'[r] = Refusal("illegal")
  PROVE  Ledger!RefuseIllegal(r)
PROOF
<1>1. PICK b, t : b = body[r] /\ t = b.trace_id
  OBVIOUS
<1>2. r \in Request /\ pc[r] = "receipt" /\ UNCHANGED database
  BY Distinct DEF RefuseIllegal
<1>3. /\ b \in ControlBody /\ t \in Creator /\ Stored(t) /\ Visible(r, t) = TraceRows(t)
      /\ LoadedProjection(r) = ProjectionOf(t, TraceRows(t))
  BY <1>1, <1>2, SeesStored
<1>4. /\ Receipts(b, TraceRows(t)) = {}
      /\ ~ LegalCommand(ProjectionOf(t, TraceRows(t)), b.command)
  BY <1>1, <1>3 DEF RefuseIllegal
<1>5. Ledger!ActedAt(b) = {} /\ Ledger!LeadsNow(b) = {}
  BY <1>1, <1>3, <1>4, ActedRead, LeadsRead
<1>6. Ledger!Pending(r) /\ Ledger!Stored(t)
  BY <1>2, <1>3, PendingRead, StoredRead
<1>7. Ledger!Tell(r, Ledger!Told("illegal")) /\ LedgerNow' = LedgerNow
  BY <1>2, RefusalTold DEF AnswerKind
<1> QED
  BY <1>1, <1>5, <1>6, <1>7 DEF Ledger!RefuseIllegal, LedgerNow

LEMMA ReuseRefused ==
  ASSUME Inv, ReadCommitted, NEW r \in Controller, Moves(r), body' = body,
         RefuseReusedKey(r), answer'[r] = Refusal("key_conflict")
  PROVE  Ledger!RefuseReuse(r)
PROOF
<1>1. PICK b, t : b = body[r] /\ t = b.trace_id
  OBVIOUS
<1>2. r \in Request /\ pc[r] = "receipt" /\ UNCHANGED database
  BY Distinct DEF RefuseReusedKey
<1>3. /\ b \in ControlBody /\ t \in Creator /\ Stored(t) /\ Visible(r, t) = TraceRows(t)
  BY <1>1, <1>2, SeesStored
<1>4. PICK e \in Receipts(b, TraceRows(t)) : e.command_fingerprint # CommandFingerprint(b)
  BY <1>1, <1>3 DEF RefuseReusedKey
<1>5. \E n \in Ledger!ActedAt(b) : Ledger!Log(t)[n].intent # Ledger!Intent(b)
  <2>1. PICK n \in Ledger!ActedAt(b) : /\ n = e.event.sequence_number - 3
                                       /\ Ledger!Log(t)[n].intent = e.command_fingerprint
    BY <1>1, <1>3, ActedRead
  <2>2. Ledger!Intent(b) = CommandFingerprint(b)
    BY DEF CommandFingerprint, Ledger!Intent
  <2> QED
    BY <1>4, <2>1, <2>2
<1>6. Ledger!Pending(r) /\ Ledger!Stored(t)
  BY <1>2, <1>3, PendingRead, StoredRead
<1>7. Ledger!Tell(r, Ledger!Told("key_conflict")) /\ LedgerNow' = LedgerNow
  BY <1>2, RefusalTold DEF AnswerKind
<1> QED
  BY <1>1, <1>5, <1>6, <1>7 DEF Ledger!RefuseReuse, LedgerNow

\* A view of the first k rows is the ledger's view of their effects.
LEMMA ViewTold ==
  ASSUME Inv, NEW r \in Request, Moves(r), UNCHANGED database, body' = body,
         NEW t \in Creator, t = TraceOf(r), Stored(t), NEW k \in 3..HistoryLength(t),
         answer'[r] = View(RowsUpTo(t, k))
  PROVE  Ledger!Tell(r, Ledger!View(t, LedgerEntry(t), k - 3)) /\ LedgerNow' = LedgerNow
PROOF
<1>1. PICK rows : rows = RowsUpTo(t, k)
  OBVIOUS
<1>2. PastStays /\ LedgerNow' = LedgerNow
  BY UnchangedTables, LedgerStays
<1>3. View(rows) # NULL
  <2>1. View(rows) \in Answer
    BY <1>1, PrefixRows, AnswersTyped
  <2> QED
    BY <2>1, Distinct
<1>4. TraceOf(r)' = t /\ Succeeded(r)' /\ answer'[r].rows = rows
  BY <1>1, <1>3 DEF TraceOf, Succeeded, View
<1>5. ProjectionOf(TraceOf(r), answer[r].rows)' = ProjectionOf(t, rows)
  <2>1. OutcomeOf(t)' = OutcomeOf(t)
    BY <1>2 DEF PastStays
  <2> QED
    BY <1>4, <2>1 DEF ProjectionOf, KernelRows
<1>6. ClientAnswer(r)' = [kind |-> "view", trace |-> t, effects |-> Cardinality(rows) - 3,
                          state |-> ProjectionOf(t, rows).state]
  BY <1>1, <1>3, <1>4, <1>5 DEF ClientAnswer
<1>7. ClientAnswer(r)' = Ledger!View(t, LedgerEntry(t), k - 3)
  BY <1>1, <1>6, ViewRead
<1>8. AnswersNow' = [AnswersNow EXCEPT ![r] = Ledger!View(t, LedgerEntry(t), k - 3)]
  BY <1>2, <1>7, AnswersStay
<1> QED
  BY <1>2, <1>8, TellRead

LEMMA ReadShown ==
  ASSUME Inv, ReadCommitted, NEW r \in Reader, Moves(r), body' = body,
         ReadEvents(r), answer'[r] = View(Visible(r, body[r].trace_id))
  PROVE  Ledger!Read(r)
PROOF
<1>1. PICK t, N : t = body[r].trace_id /\ N = HistoryLength(t)
  OBVIOUS
<1>2. r \in Request /\ pc[r] = "read_events" /\ UNCHANGED database
  BY Distinct DEF ReadEvents
<1>3. body[r] \in ReadBody /\ Stored(t) /\ t \in Creator
  BY <1>1, <1>2 DEF Inv, ReaderOK, ReadBody
<1>4. TraceOf(r) = t
  BY <1>1, <1>3, Distinct DEF TraceOf
<1>5. N \in 3..N /\ RowsUpTo(t, N) = TraceRows(t)
  <2>1. N \in Nat /\ N >= 3 /\ RowsUpTo(t, N) = TraceRows(t)
    BY <1>1, <1>3, StoredCounted
  <2> QED
    BY <2>1
<1>6. answer'[r] = View(RowsUpTo(t, N))
  BY <1>1, <1>5 DEF Visible, ReadCommitted
<1>7. Ledger!Tell(r, Ledger!View(t, LedgerEntry(t), N - 3)) /\ LedgerNow' = LedgerNow
  BY <1>1, <1>2, <1>3, <1>4, <1>5, <1>6, ViewTold
<1>8. Len(LedgerEntry(t).log) = N - 3
  BY <1>1, <1>3, EntryFacts
<1>9. Ledger!Pending(r) /\ Ledger!Stored(t)
  BY <1>2, <1>3, PendingRead, StoredRead
<1> QED
  BY <1>1, <1>3, <1>7, <1>8, <1>9 DEF Ledger!Read, Ledger!Log, LedgerNow

\* The commit of a retried command, which writes nothing.
LEMMA ReplayShown ==
  ASSUME Inv, NEW r \in Controller, Moves(r), body' = body, UNCHANGED database,
         pc[r] = "commit", NEW rows, ShownTo(r, rows), answer'[r] = View(rows)
  PROVE  Ledger!Replay(r)
PROOF
<1>1. PICK b, t : b = body[r] /\ t = b.trace_id
  OBVIOUS
<1>2. r \in Request /\ b \in ControlBody /\ t \in Creator /\ Stored(t)
  BY <1>1, Distinct, SeesLoaded
<1>3. PICK q \in Controller, e \in TraceRows(t) :
        /\ OwnedBy(e, q) /\ body[q] = b
        /\ q = r \/ b.idempotency_key # NULL
        /\ rows = RowsUpTo(t, e.event.sequence_number)
  BY <1>1 DEF ShownTo
<1>4. /\ b.idempotency_key # NULL /\ e.idempotency_key = b.idempotency_key
      /\ e.command_fingerprint = CommandFingerprint(b)
  <2>1. q # r
    BY <1>3 DEF OwnedBy, MayHaveActed
  <2> QED
    BY <1>3, <2>1 DEF OwnedBy
<1>5. PICK k : k = e.event.sequence_number
  OBVIOUS
<1>6. /\ k \in 4..HistoryLength(t) /\ k - 3 \in DOMAIN LedgerEntry(t).log
      /\ LedgerEntry(t).log[k - 3].key = b.idempotency_key
      /\ LedgerEntry(t).log[k - 3].intent = CommandFingerprint(b)
  BY <1>2, <1>4, <1>5, KeyedRow
<1>7. TraceOf(r) = t
  BY <1>1, <1>2, Distinct DEF TraceOf
<1>8. Ledger!Tell(r, Ledger!View(t, LedgerEntry(t), k - 3)) /\ LedgerNow' = LedgerNow
  <2>1. k \in 3..HistoryLength(t)
    BY <1>6
  <2> QED
    BY <1>2, <1>3, <1>5, <1>7, <2>1, ViewTold
<1>9. Ledger!Pending(r) /\ Ledger!Stored(t)
  BY <1>2, PendingRead, StoredRead
<1>10. /\ k - 3 \in Ledger!ActedAt(b) /\ Ledger!Log(t)[k - 3].intent = Ledger!Intent(b)
  <2>1. Ledger!Log(t) = LedgerEntry(t).log
    BY <1>2 DEF Ledger!Log
  <2>2. Ledger!Intent(b) = CommandFingerprint(b)
    BY DEF Ledger!Intent, CommandFingerprint
  <2> QED
    BY <1>1, <1>4, <1>6, <2>1, <2>2 DEF Ledger!ActedAt
<1> QED
  BY <1>1, <1>2, <1>8, <1>9, <1>10 DEF Ledger!Replay, LedgerNow

\* The first entry of a trace: no effect yet.
LEMMA EntryStarts ==
  ASSUME NEW t \in Creator, NEW case, case.outcome \in Outcome
  PROVE  /\ Counted(NewRows(t), 3) /\ Cardinality(NewRows(t)) = 3
         /\ EntryOf(case, NewRows(t)) =
              [case_id |-> case.case_id, outcome |-> case.outcome, log |-> <<>>]
         /\ ReduceControlState(case.outcome, KernelRows(NewRows(t))).state
              = BaseControlState(case.outcome)
PROOF
<1>1. Counted(NewRows(t), 3)
  <2>1. \A n \in 1..3 : \E e \in NewRows(t) : e.event.sequence_number = n
    <3>1. SUFFICES ASSUME NEW n \in 1..3
                   PROVE  \E e \in NewRows(t) : e.event.sequence_number = n
      OBVIOUS
    <3>2. PICK e \in NewRows(t) : e.event.sequence_number = n /\ e.event.action = SystemAction[n]
      BY NewRowNumbered
    <3> QED
      BY <3>2
  <2> QED
    BY <2>1, NewRowsFacts DEF Counted
<1>2. Cardinality(NewRows(t)) = 3
  BY <1>1, CountedSize
<1> DEFINE log == [n \in 1..(3 - 3) |-> EffectOf(case.outcome, NewRows(t), n + 3)]
           S == {EffectOf(case.outcome, NewRows(t), n + 3) : n \in 1..(3 - 3)}
<1>3. log = <<>>
  <2>1. \A n \in 1..(3 - 3) : EffectOf(case.outcome, NewRows(t), n + 3) \in S
    OBVIOUS
  <2> HIDE DEF S
  <2>2. log \in Seq(S) /\ Len(log) = 0
    BY <2>1
  <2> QED
    BY <2>2, EmptySeq
<1>4. EntryOf(case, NewRows(t)) = [case_id |-> case.case_id, outcome |-> case.outcome, log |-> log]
  BY <1>2 DEF EntryOf
<1>5. ReduceControlState(case.outcome, KernelRows(NewRows(t))) = StartProjection(case.outcome)
  <2>1. PICK ids : KernelRows(NewRows(t)) = SystemEvents(ids)
    BY NewRowsFacts
  <2> QED
    BY <2>1, LegalHistoryStarts
<1> HIDE DEF log
<1> QED
  BY <1>1, <1>2, <1>3, <1>4, <1>5 DEF StartProjection

\* What a creation commits is a new entry.
LEMMA EntryCreated ==
  ASSUME Inv, NEW r \in Creator, Moves(r), Creates(r), body' = body,
         NEW entry, entry = [case_id |-> body[r].case_id, outcome |-> body[r].outcome, log |-> <<>>]
  PROVE  /\ LedgerNow' = [LedgerNow EXCEPT ![r] = entry]
         /\ ProjectionOf(r, NewRows(r))'.state = Ledger!StateAt(entry, 0)
         /\ Cardinality(NewRows(r)) = 3
PROOF
<1>1. /\ r \in Request /\ ~ Stored(r) /\ cases' = cases \cup {NewCase(r)}
      /\ Stored(r)' /\ TraceRows(r)' = NewRows(r)
      /\ \A t \in Creator \ {r} : TraceRows(t)' = TraceRows(t) /\ Stored(t)' = Stored(t)
  BY Distinct, CreatesTables DEF Creates
<1>2. NewCase(r).trace_id = r
  BY DEF NewCase
<1>3. CaseOf(r)' = NewCase(r)
  <2>1. \A c \in cases' : c.trace_id = r <=> c = NewCase(r)
    BY <1>1, <1>2 DEF Stored
  <2>2. CaseOf(r)' \in cases' /\ CaseOf(r)'.trace_id = r
    BY <1>1, <1>2 DEF CaseOf
  <2> QED
    BY <2>1, <2>2
<1>4. ASSUME NEW t \in Creator \ {r}, Stored(t) PROVE LedgerEntry(t)' = LedgerEntry(t)
  <2>1. CaseOf(t) \in cases /\ CaseOf(t).trace_id = t
    BY <1>4 DEF Stored, CaseOf
  <2>2. CaseOf(t)' \in cases' /\ CaseOf(t)'.trace_id = t
    BY <1>1, <2>1 DEF CaseOf
  <2>3. CaseOf(t)' = CaseOf(t)
    BY <1>1, <1>2, <1>4, <2>2, CaseFacts
  <2> QED
    BY <1>1, <2>3, EntryRead, EntryReadNext
<1>5. PICK case : case = NewCase(r)
  OBVIOUS
<1>6. case.case_id = body[r].case_id /\ case.outcome = body[r].outcome /\ case.outcome \in Outcome
  <2>1. body[r] \in CreateBody
    BY DEF Creates, Inv, CreatorOK
  <2> QED
    BY <1>5, <2>1, ChoiceAssumption DEF NewCase, CreateBody
<1>7. /\ EntryOf(case, NewRows(r)) = entry
      /\ ReduceControlState(case.outcome, KernelRows(NewRows(r))).state
           = BaseControlState(case.outcome)
      /\ Cardinality(NewRows(r)) = 3
  BY <1>6, EntryStarts
<1>8. LedgerEntry(r)' = entry
  BY <1>1, <1>3, <1>5, <1>7, EntryReadNext
<1>9. LedgerNow' = [LedgerNow EXCEPT ![r] = entry]
  BY <1>1, <1>4, <1>8 DEF LedgerNow
<1>10. ProjectionOf(r, NewRows(r))'.state = Ledger!StateAt(entry, 0)
  <2>1. OutcomeOf(r)' = case.outcome
    BY <1>3, <1>5, EntryReadNext
  <2>2. NewRows(r)' = NewRows(r)
    BY DEF NewRows
  <2>3. ProjectionOf(r, NewRows(r))' = ReduceControlState(case.outcome, KernelRows(NewRows(r)))
    BY <2>1, <2>2 DEF ProjectionOf, KernelRows
  <2>4. Ledger!StateAt(entry, 0) = BaseControlState(entry.outcome)
    BY DEF Ledger!StateAt, Ledger!Base, BaseControlState
  <2> QED
    BY <1>6, <1>7, <2>3, <2>4
<1> QED
  BY <1>7, <1>9, <1>10

LEMMA CreateCommits ==
  ASSUME Inv, NEW r \in Creator, NEW a, Commits(r, a)
  PROVE  Ledger!Create(r)
PROOF
<1>1. /\ r \in Request /\ pc[r] = "commit" /\ draft[r] = CreatedDraft(r)
      /\ ~ CaseIdTaken(body[r].case_id, cases)
  BY Distinct DEF Commits, Inv, CreatorOK
<1>2. /\ cases' = cases \cup {NewCase(r)} /\ events' = events \cup NewRows(r)
      /\ a \in {View(NewRows(r)), Refusal("connection_error")}
  BY <1>1 DEF Commits, CreatedDraft
<1>3. /\ body' = body /\ pc'[r] = "done" /\ answer'[r] = a
  BY <1>1, InvTyped DEF Commits, Finish, Typed
<1>4. Moves(r)
  BY StepCreatorCommits DEF StepOf
<1>5. Creates(r) /\ PastStays
  <2>1. Creates(r)
    BY <1>1, <1>2, <1>3, NotStored DEF Creates
  <2> QED
    BY <1>4, <2>1, CreatesTables
<1>6. PICK entry :
        entry = [case_id |-> body[r].case_id, outcome |-> body[r].outcome, log |-> <<>>]
  OBVIOUS
<1>7. /\ LedgerNow' = [LedgerNow EXCEPT ![r] = entry]
      /\ ProjectionOf(r, NewRows(r))'.state = Ledger!StateAt(entry, 0)
      /\ Cardinality(NewRows(r)) = 3
  BY <1>3, <1>4, <1>5, <1>6, EntryCreated
<1>8. ClientAnswer(r)' \in {Ledger!View(r, entry, 0), Ledger!Failure}
  <2>1. CASE a = Refusal("connection_error")
    <3>1. ClientAnswer(r)' = Ledger!Told("connection_error")
      BY <1>3, <2>1, RefusalRead DEF AnswerKind
    <3> QED
      BY <3>1 DEF Ledger!Failure
  <2>2. CASE a = View(NewRows(r))
    <3>1. View(NewRows(r)) \in Answer
      BY NewRowsFacts, AnswersTyped
    <3>2. /\ answer'[r] # NULL /\ Succeeded(r)' /\ answer'[r].rows = NewRows(r)
          /\ TraceOf(r)' = r
      BY <1>3, <2>2, <3>1, Distinct DEF Succeeded, View, TraceOf
    <3>3. NewRows(r)' = NewRows(r)
      BY <1>3 DEF NewRows
    <3>4. ProjectionOf(TraceOf(r), answer[r].rows)' = ProjectionOf(r, NewRows(r))'
      BY <3>2, <3>3 DEF ProjectionOf, KernelRows
    <3>5. ClientAnswer(r)' = [kind |-> "view", trace |-> r, effects |-> 3 - 3,
                              state |-> Ledger!StateAt(entry, 0)]
      BY <1>7, <3>2, <3>4 DEF ClientAnswer
    <3> QED
      BY <3>5 DEF Ledger!View
  <2> QED
    BY <1>2, <2>1, <2>2
<1>9. \/ Ledger!Tell(r, Ledger!View(r, entry, 0)) \/ Ledger!Tell(r, Ledger!Failure)
  <2>1. PICK told : told = ClientAnswer(r)'
    OBVIOUS
  <2>2. AnswersNow' = [AnswersNow EXCEPT ![r] = told]
    BY <1>1, <1>4, <1>5, <2>1, AnswersStay
  <2> QED
    BY <1>3, <1>8, <2>1, <2>2, TellRead
<1>10. Ledger!Pending(r) /\ ~ Ledger!CaseKnown(body[r].case_id)
  BY <1>1, PendingRead, CaseRead
<1> QED
  BY <1>6, <1>7, <1>9, <1>10 DEF Ledger!Create, LedgerNow

\* What the entry of trace t becomes when command b leads to a state.
EntryWith(t, b, state) == [LedgerEntry(t) EXCEPT !.log = Append(@, Ledger!Effect(b, state))]

\* That is the new entry, and the last that the given rows tell.
EntryBecomes(t, b, state, entry, rows) ==
  /\ entry = EntryWith(t, b, state)
  /\ LedgerNow' = [LedgerNow EXCEPT ![t] = entry]
  /\ Len(entry.log) = Cardinality(rows) - 3
  /\ Ledger!StateAt(entry, Len(entry.log)) = state
  /\ ProjectionOf(t, rows)'.state = state

\* The row of a command is the effect the ledger appends.
LEMMA EntryAppended ==
  ASSUME Inv, NEW r \in Controller, Moves(r), Appends(r),
         NEW b, b = body[r], NEW t, t = b.trace_id, NEW row, row = PlannedRow(r),
         NEW more, more = loaded[r] \cup {row}
  PROVE  \E state \in Ledger!LeadsNow(b) : \E entry : EntryBecomes(t, b, state, entry, more)
PROOF
<1>1. PICK N, o, rows, p : /\ N = HistoryLength(t) /\ o = OutcomeOf(t) /\ rows = TraceRows(t)
                           /\ p = ProjectionOf(t, rows)
  OBVIOUS
<1>2. /\ pc[r] = "commit" /\ LegalCommand(LoadedProjection(r), b.command)
      /\ cases' = cases /\ b \in ControlBody
  BY Distinct, SeesLoaded DEF Appends, Plans
<1>3. /\ t \in Creator /\ N \in Nat /\ N >= 3 /\ Stored(t) /\ loaded[r] = rows
      /\ row.event.sequence_number = N + 1
      /\ TraceRows(t)' = rows \cup {row} /\ PastStays
      /\ \A u \in Creator : Stored(u)' = Stored(u)
      /\ \A u \in Creator \ {t} : TraceRows(u)' = TraceRows(u)
  BY <1>1, AppendsTables
<1>4. LoadedProjection(r) = p
  BY <1>1, <1>3 DEF LoadedProjection, ProjectionOf
<1>5. /\ row.idempotency_key = b.idempotency_key
      /\ row.command_fingerprint = IF b.idempotency_key = NULL THEN NULL ELSE CommandFingerprint(b)
      /\ row.event.action = PlannedAction[b.command]
      /\ row.event = ControlEvent(<<r, 1>>, KernelRows(rows), PlanControlCommand(p, b.command))
  BY <1>2, <1>3, <1>4, PlannedRowFacts
<1>6. more = rows \cup {row}
  BY <1>3
<1>7. PICK M : M = N + 1
  OBVIOUS
<1>8. /\ Counted(rows, N) /\ RowNumbered(more, M) = row /\ Counted(more, M)
       /\ FirstOf(more, M) = more /\ Cardinality(more) = M
  <2>1. Counted(rows, N)
    BY <1>1, <1>3, StoredCounted
  <2>2. row.event.sequence_number = M
    BY <1>3, <1>7
  <2>3. Counted(more, M) /\ RowNumbered(more, M) = row
    <3>1. N \in Nat /\ M = N + 1 /\ more = rows \cup {row}
      BY <1>3, <1>6, <1>7
    <3> QED
      BY <2>1, <2>2, <3>1, CountedGrows
  <2>4. M \in Nat /\ M \in 0..M
    BY <1>3, <1>7
  <2> QED
    BY <2>1, <2>3, <2>4, CountedFirst, CountedSize
<1>9. PICK state : state = SettledBy(o, row.event).state
  OBVIOUS
<1>10. ReduceControlState(o, KernelRows(more)).state = state
  <2>1. o \in Outcome /\ LegalHistory(o, KernelRows(rows), N) /\ p = ReduceControlState(o, KernelRows(rows))
    BY <1>1, <1>3, StoredRows DEF ProjectionOf
  <2>2. b.command \in ControlCommand
    BY <1>2, ChoiceAssumption DEF ControlBody
  <2>3. KernelRows(more) = KernelRows(rows) \cup {row.event}
    BY <1>6 DEF KernelRows
  <2>4. ReduceControlState(o, KernelRows(rows) \cup {row.event}) = SettledBy(o, row.event)
    BY <1>2, <1>3, <1>4, <1>5, <2>1, <2>2, LegalHistoryGrows
  <2> QED
    BY <1>9, <2>3, <2>4
<1>11. state \in Ledger!LeadsNow(b)
  <2>1. o \in Outcome /\ LegalHistory(o, KernelRows(rows), N) /\ p = ReduceControlState(o, KernelRows(rows))
    BY <1>1, <1>3, StoredRows DEF ProjectionOf
  <2>2. b.command \in ControlCommand
    BY <1>2, ChoiceAssumption DEF ControlBody
  <2>3. state \in Ledger!Leads(b.command, Ledger!Base(o), p.state)
    BY <1>2, <1>3, <1>4, <1>5, <1>9, <2>1, <2>2, LeadsWhereLegal
  <2> QED
    BY <1>1, <1>2, <1>3, <2>3, LeadsRead
<1>12. PICK case : case = CaseOf(t)
  OBVIOUS
<1>13. PICK new : new = EffectOf(o, more, M)
  OBVIOUS
<1>14. new = Ledger!Effect(b, state)
  <2>1. CommandFingerprint(b) = Ledger!Intent(b)
    BY DEF CommandFingerprint, Ledger!Intent
  <2> QED
    BY <1>5, <1>10, <1>13, <1>8, <2>1 DEF EffectOf, Ledger!Effect
<1>15. \A u : CaseOf(u)' = CaseOf(u)
  BY <1>2 DEF CaseOf
<1>16. /\ LedgerEntry(t) = EntryOf(case, rows) /\ LedgerEntry(t)' = EntryOf(case, more)
       /\ case.outcome = o /\ OutcomeOf(t)' = o
  BY <1>1, <1>3, <1>6, <1>12, <1>15, EntryRead, EntryReadNext
<1>17. PICK entry : entry = EntryWith(t, b, state)
  OBVIOUS
<1>18. EntryOf(case, more) = entry /\ Len(entry.log) = N - 2 /\ entry.log[N - 2] = new
  <2>1. row.event.sequence_number = M /\ new = EffectOf(case.outcome, more, M)
    BY <1>3, <1>7, <1>13, <1>16
  <2>2. PICK e, log, longer : /\ e = LedgerEntry(t) /\ log = EntryOf(case, rows).log
                             /\ longer = EntryOf(case, more).log
    OBVIOUS
  <2>3. longer = Append(log, new)
    <3>1. /\ N \in Nat /\ N >= 3 /\ M = N + 1 /\ more = rows \cup {row}
          /\ Counted(rows, N)
      BY <1>3, <1>6, <1>7, <1>8
    <3>2. EntryOf(case, more).log
            = Append(EntryOf(case, rows).log, EffectOf(case.outcome, more, M))
      BY <2>1, <3>1, EntryGrows
    <3> QED
      BY <2>1, <2>2, <3>2
  <2>4. e = [case_id |-> case.case_id, outcome |-> case.outcome, log |-> log]
    BY <1>16, <2>2, EntryShape
  <2>5. /\ e.log = log
        /\ \A x : [e EXCEPT !.log = x]
                  = [case_id |-> case.case_id, outcome |-> case.outcome, log |-> x]
    BY <2>4
  <2>6. entry = [case_id |-> case.case_id, outcome |-> case.outcome, log |-> longer]
    BY <1>17, <1>14, <2>2, <2>3, <2>5 DEF EntryWith
  <2>7. entry = EntryOf(case, more)
    BY <2>2, <2>6, EntryShape
  <2>8. M \in Nat /\ M > 3 /\ M - 3 = N - 2
    BY <1>3, <1>7
  <2> QED
    BY <1>8, <2>1, <2>7, <2>8, LogEnds
<1>19. LedgerNow' = [LedgerNow EXCEPT ![t] = entry]
  <2>1. \A u \in Creator \ {t} : LedgerEntry(u)' = LedgerEntry(u)
    BY <1>3, <1>15, EntryRead, EntryReadNext
  <2> QED
    BY <1>3, <1>16, <1>18, <2>1 DEF LedgerNow
<1>20. Ledger!StateAt(entry, N - 2) = state
  <2>1. N - 2 # 0
    BY <1>3
  <2>2. new.state = state
    BY <1>14 DEF Ledger!Effect
  <2>3. Ledger!StateAt(entry, N - 2) = entry.log[N - 2].state
    BY <2>1 DEF Ledger!StateAt
  <2> QED
    BY <1>18, <2>2, <2>3
<1>21. ProjectionOf(t, more)' = ReduceControlState(o, KernelRows(more))
  BY <1>16 DEF ProjectionOf, KernelRows
<1>22. Cardinality(more) - 3 = N - 2
  BY <1>3, <1>7, <1>8
<1> QED
  <2>1. EntryBecomes(t, b, state, entry, more)
    BY <1>10, <1>17, <1>18, <1>19, <1>20, <1>21, <1>22 DEF EntryBecomes
  <2> QED
    BY <1>11, <2>1

LEMMA AppendCommits ==
  ASSUME Inv, NEW r \in Controller, NEW a, Commits(r, a), Plans(r), Inserted(r)
  PROVE  Ledger!Control(r)
PROOF
<1>1. PICK b, t, row, more : /\ b = body[r] /\ t = b.trace_id /\ row = PlannedRow(r)
                             /\ more = loaded[r] \cup {row}
  OBVIOUS
<1>2. r \in Request /\ pc[r] = "commit" /\ draft[r] = PlannedDraft(r)
  BY Distinct DEF Commits, Plans
<1>3. /\ cases' = cases /\ events' = events \cup {row}
      /\ a \in {View(more), Refusal("connection_error")}
  BY <1>1, <1>2 DEF Commits, PlannedDraft
<1>4. /\ body' = body /\ pc'[r] = "done" /\ answer'[r] = a
  BY <1>2, InvTyped DEF Commits, Finish, Typed
<1>5. Moves(r)
  BY StepControllerCommits DEF StepOf
<1>6. Appends(r)
  BY <1>1, <1>2, <1>3, <1>4 DEF Appends
<1>7. PastStays /\ t \in Creator /\ Stored(t)
  <2>1. PICK N : N = HistoryLength(t)
    OBVIOUS
  <2>2. /\ PastStays /\ t \in Creator /\ Stored(t) /\ N \in Nat /\ N >= 3
        /\ loaded[r] = TraceRows(t) /\ TraceRows(t)' = TraceRows(t) \cup {row}
        /\ RowsUpTo(t, N + 1)' = TraceRows(t)' /\ HistoryLength(t)' = N + 1
    BY <1>1, <1>5, <1>6, <2>1, AppendsTables
  <2>3. N + 1 \in 3..(N + 1)
    BY <2>2
  <2> QED
    BY <1>1, <2>2, <2>3 DEF IsPrefix
<1>8. b \in ControlBody
  BY <1>1, <1>2, SeesLoaded
<1>9. PICK state \in Ledger!LeadsNow(b) : \E entry : EntryBecomes(t, b, state, entry, more)
  BY <1>1, <1>5, <1>6, EntryAppended
<1>10. PICK entry : EntryBecomes(t, b, state, entry, more)
  BY <1>9
<1>11. /\ entry = EntryWith(t, b, state)
       /\ LedgerNow' = [LedgerNow EXCEPT ![t] = entry]
       /\ Len(entry.log) = Cardinality(more) - 3
       /\ Ledger!StateAt(entry, Len(entry.log)) = state
       /\ ProjectionOf(t, more)'.state = state
  BY <1>10 DEF EntryBecomes
<1>12. ClientAnswer(r)' \in {Ledger!View(t, entry, Len(entry.log)), Ledger!Failure}
  <2>1. CASE a = Refusal("connection_error")
    <3>1. ClientAnswer(r)' = Ledger!Told("connection_error")
      BY <1>4, <2>1, RefusalRead DEF AnswerKind
    <3> QED
      BY <3>1 DEF Ledger!Failure
  <2>2. CASE a = View(more)
    <3>1. View(more) # NULL
      <4>1. row \in EventRow /\ TraceRows(t) \subseteq EventRow
        BY <1>1, <1>2, PlannedRowFacts DEF Plans, TraceRows, Inv, TypeOK
      <4>2. more \subseteq EventRow
        BY <1>1, <1>2, <1>7, <4>1, SeesLoaded
      <4> QED
        BY <4>2, AnswersTyped, Distinct
    <3>2. TraceOf(r)' = t
      BY <1>1, <1>4, <1>8, Distinct DEF TraceOf
    <3>3. /\ answer'[r] # NULL /\ Succeeded(r)' /\ answer'[r].rows = more
      BY <1>4, <2>2, <3>1 DEF Succeeded, View
    <3>4. ProjectionOf(TraceOf(r), answer[r].rows)' = ProjectionOf(t, more)'
      BY <3>2, <3>3 DEF ProjectionOf, KernelRows
    <3>5. ClientAnswer(r)' = [kind |-> "view", trace |-> t, effects |-> Len(entry.log),
                              state |-> Ledger!StateAt(entry, Len(entry.log))]
      BY <1>11, <3>2, <3>3, <3>4 DEF ClientAnswer
    <3> QED
      BY <3>5 DEF Ledger!View
  <2> QED
    BY <1>3, <2>1, <2>2
<1>13. \/ Ledger!Tell(r, Ledger!View(t, entry, Len(entry.log))) \/ Ledger!Tell(r, Ledger!Failure)
  <2>1. PICK told : told = ClientAnswer(r)'
    OBVIOUS
  <2>2. AnswersNow' = [AnswersNow EXCEPT ![r] = told]
    BY <1>2, <1>5, <1>7, <2>1, AnswersStay
  <2> QED
    BY <1>4, <1>12, <2>1, <2>2, TellRead
<1>14. Ledger!ActedAt(b) = {}
  <2>1. Receipts(b, TraceRows(t)) = {}
    <3>1. loaded[r] = TraceRows(t)
      BY <1>1, <1>5, <1>6, AppendsTables
    <3> QED
      BY <1>1, <3>1 DEF Plans
  <2> QED
    BY <1>1, <1>7, <1>8, <2>1, ActedRead
<1>15. Ledger!Pending(r) /\ Ledger!Stored(t)
  BY <1>2, <1>7, PendingRead, StoredRead
<1> QED
    <2>1. entry = [LedgerNow[t] EXCEPT !.log = Append(@, Ledger!Effect(b, state))]
    BY <1>7, <1>11 DEF EntryWith, LedgerNow
  <2>2. /\ Ledger!Pending(r) /\ Ledger!Stored(t) /\ Ledger!ActedAt(b) = {}
    BY <1>14, <1>15
  <2> QED
    BY <1>1, <1>11, <1>13, <2>1, <2>2 DEF Ledger!Control, LedgerNow

LEMMA ReplayCommits ==
  ASSUME Inv, NEW r \in Controller, NEW a, Commits(r, a), Replays(r)
  PROVE  Ledger!Act(r)
PROOF
<1>1. PICK rows : rows = draft[r].answer.rows
  OBVIOUS
<1>2. /\ r \in Request /\ pc[r] = "commit" /\ ShownTo(r, rows)
      /\ draft[r].cases = {} /\ draft[r].events = {} /\ draft[r].answer = View(rows)
  <2>1. draft[r] = [cases |-> {}, events |-> {}, answer |-> View(rows)]
    BY <1>1 DEF Replays
  <2> QED
    BY <1>1, <2>1, Distinct DEF Commits, Replays
<1>3. UNCHANGED database /\ a \in {View(rows), Refusal("connection_error")}
  BY <1>2 DEF Commits, database
<1>4. Moves(r) /\ body' = body /\ answer'[r] = a
  BY <1>2, InvTyped, FinishEnds DEF Commits
<1>5. CASE a = View(rows)
  BY <1>2, <1>3, <1>4, <1>5, ReplayShown DEF Ledger!Act
<1>6. CASE a = Refusal("connection_error")
  BY <1>2, <1>3, <1>4, <1>6, FailTold DEF Ledger!Act
<1> QED
  BY <1>3, <1>5, <1>6

LEMMA CommitActs ==
  ASSUME Inv, NEW r \in Request, Commit(r) \/ CommitLost(r)
  PROVE  Ledger!Act(r)
PROOF
<1>1. PICK a : Commits(r, a)
  BY DEF Commit, CommitLost, Commits
<1>2. r \in Creator \cup Controller /\ pc[r] = "commit"
  BY <1>1 DEF Commits, Inv, ReaderOK, Request
<1>3. CASE r \in Creator
  BY <1>1, <1>3, CreateCommits DEF Ledger!Act
<1>4. CASE r \in Controller
  <2>1. Replays(r) \/ (Plans(r) /\ Inserted(r))
    BY <1>2, <1>4 DEF Inv, ControllerOK
  <2> QED
    BY <1>1, <1>4, <2>1, ReplayCommits, AppendCommits DEF Ledger!Act
<1> QED
  BY <1>2, <1>3, <1>4

-----------------------------------------------------------------------------
(* Each step of a call is a step of the ledger, or none its clients notice. *)

Follows(r) == Ledger!Act(r) \/ UNCHANGED Ledger!vars

\* A call that only goes on to its next statement.
LEMMA GoesOnSilently ==
  ASSUME Inv, NEW r \in Request, StepOf(r), UNCHANGED <<database, body, answer>>,
         pc[r] \notin {"idle", "done"}
  PROVE  Follows(r)
PROOF
<1>1. answer'[r] = NULL /\ body' = body
  BY DEF Inv, TypeOK
<1> QED
  BY <1>1, SilentStep DEF StepOf, Follows

LEMMA CreateFollows ==
  ASSUME Inv, NEW r \in Creator, CaseIdExists(r) \/ InsertTrace(r)
  PROVE  Follows(r)
PROOF
<1>1. /\ r \in Request /\ pc[r] \notin {"idle", "done"} /\ UNCHANGED database
      /\ pc[r] # "done" /\ StepOf(r)
  BY Distinct, StepCaseIdExists, StepInsertTrace DEF CaseIdExists, InsertTrace
<1>2. ASSUME Finish(r, Refusal("case_exists")), CaseIdTaken(body[r].case_id, cases)
      PROVE  Follows(r)
  <2>1. Moves(r) /\ body' = body /\ answer'[r] = Refusal("case_exists")
    BY <1>1, <1>2, InvTyped, FinishEnds
  <2> QED
    BY <1>1, <1>2, <2>1, CreateRefused DEF Follows, Ledger!Act
<1>3. ASSUME UNCHANGED <<body, answer>> PROVE Follows(r)
  BY <1>1, <1>3, GoesOnSilently
<1> QED
  BY <1>2, <1>3 DEF CaseIdExists, InsertTrace, CaseIdTaken

LEMMA ReadFollows ==
  ASSUME Inv, ReadCommitted, NEW r \in Reader, ReadCase(r) \/ ReadEvents(r)
  PROVE  Follows(r)
PROOF
<1>1. /\ r \in Request /\ pc[r] \notin {"idle", "done"} /\ UNCHANGED database
      /\ pc[r] # "done" /\ StepOf(r)
  BY Distinct, StepReadCase, StepReadEvents DEF ReadCase, ReadEvents
<1>2. ASSUME Finish(r, Refusal("not_found")), ~ Stored(body[r].trace_id)
      PROVE  Follows(r)
  <2>1. Moves(r) /\ body' = body /\ answer'[r] = Refusal("not_found")
    BY <1>1, <1>2, InvTyped, FinishEnds
  <2> QED
    BY <1>1, <1>2, <2>1, UnknownRefused DEF Follows, Ledger!Act
<1>3. ASSUME UNCHANGED <<body, answer>> PROVE Follows(r)
  BY <1>1, <1>3, GoesOnSilently
<1>4. ASSUME ReadEvents(r) PROVE Follows(r)
  <2>1. PICK rows : rows = Visible(r, body[r].trace_id)
    OBVIOUS
  <2>2. Finish(r, View(rows))
    BY <1>4, <2>1 DEF ReadEvents
  <2>3. Moves(r) /\ body' = body /\ answer'[r] = View(rows)
    BY <1>1, <2>2, InvTyped, FinishEnds
  <2> QED
    BY <1>4, <2>1, <2>3, ReadShown DEF Follows, Ledger!Act
<1> QED
  BY <1>2, <1>3, <1>4 DEF ReadCase

LEMMA ControlFollows ==
  ASSUME Inv, ReadCommitted, NEW r \in Controller, ControlStep(r)
  PROVE  Follows(r)
PROOF
<1>1. r \in Request /\ StepOf(r)
  BY Distinct, ControlSteps
<1>2. CASE BeginControl(r)
  <2>1. pc[r] \notin {"idle", "done"} /\ pc[r] # "done" /\ UNCHANGED database
    BY <1>2 DEF BeginControl
  <2>2. ASSUME Finish(r, Refusal("not_found")), ~ Stored(body[r].trace_id)
        PROVE  Follows(r)
    <3>1. Moves(r) /\ body' = body /\ answer'[r] = Refusal("not_found")
      BY <1>1, <2>1, <2>2, InvTyped, FinishEnds
    <3> QED
      BY <1>1, <2>1, <2>2, <3>1, UnknownRefused DEF Follows, Ledger!Act
  <2>3. ASSUME UNCHANGED <<body, answer>> PROVE Follows(r)
    BY <1>1, <2>1, <2>3, GoesOnSilently
  <2> QED
    BY <1>2, <2>2, <2>3 DEF BeginControl
<1>3. CASE LockTrace(r) \/ LoadEvents(r) \/ ReplayReceipt(r) \/ PlanEvent(r) \/ InsertEvent(r)
  <2>1. UNCHANGED <<database, body, answer>> /\ pc[r] \notin {"idle", "done"}
    BY <1>3 DEF LockTrace, LoadEvents, ReplayReceipt, PlanEvent, InsertEvent
  <2> QED
    BY <1>1, <2>1, GoesOnSilently
<1>4. CASE RefuseReusedKey(r)
  <2>1. pc[r] # "done" /\ Finish(r, Refusal("key_conflict"))
    BY <1>4 DEF RefuseReusedKey
  <2>2. Moves(r) /\ body' = body /\ answer'[r] = Refusal("key_conflict")
    BY <1>1, <2>1, InvTyped, FinishEnds
  <2> QED
    BY <1>4, <2>2, ReuseRefused DEF Follows, Ledger!Act
<1>5. CASE RefuseIllegal(r)
  <2>1. pc[r] # "done" /\ Finish(r, Refusal("illegal"))
    BY <1>5 DEF RefuseIllegal
  <2>2. Moves(r) /\ body' = body /\ answer'[r] = Refusal("illegal")
    BY <1>1, <2>1, InvTyped, FinishEnds
  <2> QED
    BY <1>5, <2>2, IllegalRefused DEF Follows, Ledger!Act
<1>6. ~ (InsertHitsSequence(r) \/ InsertHitsKey(r) \/ ResolveConflict(r))
  <2>1. Inv'
    BY <1>1, StepOfKeeps
  <2>2. /\ pc[r] # "resolve" /\ pc'[r] # "resolve" /\ ~ Refused(r, "integrity_error")'
    BY <2>1 DEF Inv, ControllerOK, ReadCommitted
  <2>3. Typed
    BY InvTyped
  <2>4. ~ InsertHitsKey(r)
    BY <1>1, <2>2, <2>3 DEF InsertHitsKey, Goto, Typed
  <2>5. ~ InsertHitsSequence(r)
    <3>1. SUFFICES ASSUME InsertHitsSequence(r) PROVE FALSE
      OBVIOUS
    <3>2. answer'[r] = Refusal("integrity_error")
      BY <1>1, <2>3, <3>1 DEF InsertHitsSequence, Finish, Typed
    <3>3. Refusal("integrity_error") # NULL
      BY AnswersTyped, Distinct DEF AnswerKind
    <3> QED
      BY <2>2, <3>2, <3>3 DEF Refused, Refusal
  <2> QED
    BY <2>2, <2>4, <2>5 DEF ResolveConflict
<1>7. CASE Commit(r)
  BY <1>1, <1>7, CommitActs DEF Follows
<1> QED
  BY <1>2, <1>3, <1>4, <1>5, <1>6, <1>7 DEF ControlStep

LEMMA NextFollows ==
  ASSUME Inv, ReadCommitted, [Next]_vars
  PROVE  [Ledger!Next]_(Ledger!vars)
PROOF
<1>1. Request = Ledger!Call
  BY DEF Request, Ledger!Call
<1>2. ASSUME NEW r \in Request, Follows(r) PROVE [Ledger!Next]_(Ledger!vars)
  BY <1>1, <1>2 DEF Follows, Ledger!Next
<1>3. ASSUME NEW r \in Creator, ArriveCreate(r) \/ CreateStep(r) PROVE Follows(r)
  BY <1>3, Distinct, ArriveCreateAsks, CreateFollows, CommitActs
     DEF CreateStep, Follows, Ledger!Act
<1>4. ASSUME NEW r \in Controller, ArriveControl(r) \/ ControlStep(r) PROVE Follows(r)
  BY <1>4, ArriveControlAsks, ControlFollows DEF Follows, Ledger!Act
<1>5. ASSUME NEW r \in Reader, ArriveRead(r) \/ ReadStep(r) PROVE Follows(r)
  BY <1>5, ArriveReadAsks, ReadFollows DEF ReadStep, Follows, Ledger!Act
<1>6. ASSUME NEW r \in Request, Abort(r) \/ CommitLost(r) PROVE Follows(r)
  <2>1. CASE CommitLost(r)
    BY <2>1, CommitActs DEF Follows
  <2>2. CASE Abort(r)
    <3>1. /\ pc[r] \notin {"idle", "done"} /\ pc[r] # "done" /\ UNCHANGED database
          /\ Finish(r, Refusal("connection_error"))
      BY <2>2 DEF Abort
    <3>2. Moves(r) /\ body' = body /\ answer'[r] = Refusal("connection_error")
      BY <3>1, InvTyped, FinishEnds
    <3> QED
      BY <3>1, <3>2, FailTold DEF Follows, Ledger!Act
  <2> QED
    BY <1>6, <2>1, <2>2
<1>7. CASE UNCHANGED vars
  <2>1. UNCHANGED database /\ body' = body /\ answer' = answer
    BY <1>7 DEF vars, database
  <2>2. LedgerNow' = LedgerNow
    BY <2>1, LedgerStays
  <2>3. \A t : OutcomeOf(t)' = OutcomeOf(t)
    BY <2>1 DEF database, OutcomeOf
  <2>4. AnswersNow' = AnswersNow
    BY <2>1, <2>3 DEF AnswersNow, ClientAnswer, Succeeded, TraceOf, ProjectionOf
  <2> QED
    BY <2>1, <2>2, <2>4 DEF LedgerNow, AnswersNow, Ledger!vars
<1> QED
  BY <1>2, <1>3, <1>4, <1>5, <1>6, <1>7, Distinct DEF Next, AllAnswered

LEMMA InitFollows ==
  ASSUME Init
  PROVE  Ledger!Init
PROOF
<1>1. \A t : ~ Stored(t)
  BY DEF Init, Stored
<1>2. \A r \in Request : ClientAnswer(r) = NULL
  BY DEF Init, ClientAnswer
<1> QED
  BY <1>1, <1>2 DEF Init, Ledger!Init, Ledger!Call, Request

\* At READ COMMITTED, whatever the calls: statements, waits, lost connections and
\* lost commits of the service amount to the atomic calls of the ledger.
THEOREM ServiceImplementsLedger ==
  ASSUME Isolation = "READ COMMITTED"
  PROVE  Spec => ImplementsLedger
PROOF
<1>1. Init => Ledger!Init
  BY InitFollows
<1>2. Inv /\ [Next]_vars => [Ledger!Next]_(Ledger!vars)
  BY NextFollows DEF ReadCommitted
<1> QED
  BY <1>1, <1>2, InvAlways, PTL DEF Spec, ImplementsLedger, Ledger!Spec
=============================================================================
