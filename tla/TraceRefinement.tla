--------------------------- MODULE TraceRefinement ---------------------------
(* At READ COMMITTED the service of DecisionTraces implements TraceLedger:    *)
(* what the statements of a call do to the tables amounts to one step of the  *)
(* ledger, the one in which the call is answered.                             *)
EXTENDS DecisionTraces, TLC

\* The calls of a kind are interchangeable.
Symmetry == Permutations(Creator) \cup Permutations(Controller) \cup Permutations(Reader)

\* The row numbered n of trace t; the first three are the system's.
RowOf(t, n) == CHOOSE e \in TraceRows(t) : e.event.sequence_number = n

\* A stored trace as the ledger has it: one effect for each control event.
LedgerEntry(t) ==
  LET case == CHOOSE c \in cases : c.trace_id = t IN
  [case_id |-> case.case_id,
   outcome |-> case.outcome,
   log     |-> [n \in 1..(Cardinality(TraceRows(t)) - 3) |->
                  [key    |-> RowOf(t, n + 3).idempotency_key,
                   intent |-> RowOf(t, n + 3).command_fingerprint,
                   state  |-> ProjectionOf(t, RowsUpTo(t, n + 3)).state]]]

\* An answer as the client reads it: the state shown and how many effects.
ClientAnswer(r) ==
  IF answer[r] = NULL THEN NULL
  ELSE IF Succeeded(r)
  THEN [kind |-> "view", trace |-> TraceOf(r), effects |-> Cardinality(answer[r].rows) - 3,
        state |-> ProjectionOf(TraceOf(r), answer[r].rows).state]
  ELSE [kind |-> answer[r].kind, trace |-> NULL, effects |-> 0, state |-> NULL]

Ledger == INSTANCE TraceLedger WITH
  ledger <- [t \in Creator |-> IF Stored(t) THEN LedgerEntry(t) ELSE NULL],
  asked  <- body,
  answer <- [r \in Request |-> ClientAnswer(r)]

\* NULL is none of the values that take its place once there is one.
ClientAnswers ==
  [kind : AnswerKind, trace : Creator \cup {NULL}, effects : Nat, state : ControlState \cup {NULL}]
ASSUME NullIsNoEntry == NULL \notin Ledger!Entry \cup ClientAnswers

\* Every behaviour of the service, seen by its clients, is one of the ledger:
\* calls are atomic, at some moment between arrival and answer, however their
\* statements, lost connections and lost commits interleave.
ImplementsLedger == Ledger!Spec
=============================================================================
