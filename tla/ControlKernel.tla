--------------------------- MODULE ControlKernel ---------------------------
(***************************************************************************)
(* The pure control kernel (app/domain/control.py) and the pieces of the   *)
(* application layer that compute one audit-event row: the reducer that    *)
(* replays a trace's event rows into its control state, the guard that     *)
(* plans the next event, and the row that is appended.                     *)
(*                                                                         *)
(* The rows of one trace are a SET, as in the table: the code always sorts *)
(* them by sequence_number before it uses their order.  A row keeps the    *)
(* columns and payload fields that anything is ever decided on; wording,   *)
(* timestamps and the constant actor label are left out.                   *)
(***************************************************************************)
EXTENDS Integers, Sequences, FiniteSets, FiniteSetsExt

CONSTANT NULL      \* Python's None and SQL's NULL

Outcome == {"AUTO_APPROVED", "MISSING_FACT", "OUT_OF_POLICY", "AUTHORITY_EXCEEDED"}

ControlState ==
  {"AUTO_APPROVED", "AWAITING_INPUT", "AWAITING_REVIEW", "PAUSED", "DEMO_REVIEWED"}

ControlCommand == {"pause", "resume", "record_demo_review", "undo"}

ReversibleAction == {"CASE_PAUSED", "DEMO_REVIEW_RECORDED"}
ReversingAction  == {"CASE_RESUMED", "CONTROL_COMPENSATED"}
ControlAction    == ReversibleAction \cup ReversingAction
SystemAction     == <<"CASE_RECEIVED", "CASE_NORMALIZED", "DECISION_RECORDED">>

ASSUME NullAssumption == NULL \notin ControlState

-----------------------------------------------------------------------------
(* The reducer: a fold over the rows in sequence order. *)

BaseControlState(outcome) ==
  CASE outcome = "AUTO_APPROVED" -> "AUTO_APPROVED"
    [] outcome = "MISSING_FACT"  -> "AWAITING_INPUT"
    [] OTHER                     -> "AWAITING_REVIEW"

StartProjection(outcome) == [state |-> BaseControlState(outcome), active |-> <<>>]

\* The reducer raised ValueError: the stored rows are not a legal history.
Corrupt == [state |-> "CORRUPT", active |-> <<>>]

\* The top of the stack; None, and not evaluated here, when the stack is empty.
LatestReversible(p) == p.active[Len(p.active)]

\* Mutant: the stack entry remembers the new state instead of the replaced one.
PushedRemembersNew(p, e) ==
  LET next == IF e.action = "CASE_PAUSED" THEN "PAUSED" ELSE "DEMO_REVIEWED"
  IN  [state  |-> next,
       active |-> Append(p.active, [event_id    |-> e.event_id,
                                    action      |-> e.action,
                                    prior_state |-> next])]

Pushed(p, e) ==
  [state  |-> IF e.action = "CASE_PAUSED" THEN "PAUSED" ELSE "DEMO_REVIEWED",
   active |-> Append(p.active, [event_id    |-> e.event_id,
                                action      |-> e.action,
                                prior_state |-> p.state])]

\* Mutant: the reversed entry stays on the stack.
PoppedKeepsEntry(p) == [state |-> LatestReversible(p).prior_state, active |-> p.active]

Popped(p) ==
  [state  |-> LatestReversible(p).prior_state,
   active |-> SubSeq(p.active, 1, Len(p.active) - 1)]

\* Mutant: only pauses can be compensated.
CanPopOnlyPauses(p, e) ==
  p.active # <<>> /\ LatestReversible(p).action = "CASE_PAUSED"

\* A resume needs an active pause on top of the stack, a compensation any entry.
CanPop(p, e) ==
  /\ p.active # <<>>
  /\ e.action = "CASE_RESUMED" => LatestReversible(p).action = "CASE_PAUSED"

ApplyEvent(p, e) ==
  IF p = Corrupt \/ e.action \notin ControlAction THEN p
  ELSE IF e.action \in ReversibleAction THEN Pushed(p, e)
  ELSE IF CanPop(p, e) THEN Popped(p)
  ELSE Corrupt

RowAt(rows, n) == CHOOSE e \in rows : e.sequence_number = n

\* Sequence number n's turn: its row is applied, or there is none to apply.
ReplayStep(rows, p, n) ==
  IF \E e \in rows : e.sequence_number = n THEN ApplyEvent(p, RowAt(rows, n)) ELSE p

\* Replay(outcome, rows)[n] is the projection after the rows numbered 1 .. n.
Replay(outcome, rows) ==
  LET at[n \in Nat] ==
        IF n = 0 THEN StartProjection(outcome) ELSE ReplayStep(rows, at[n - 1], n)
  IN  at

MaxSequence(rows) == Max({0} \cup {e.sequence_number : e \in rows})

ReduceControlState(outcome, rows) == Replay(outcome, rows)[MaxSequence(rows)]

-----------------------------------------------------------------------------
(* The guard: which command is legal, and the event it plans. *)

\* Mutant: a case that waits for input may be reviewed.
AllowedStatesReviewsInput ==
  [pause              |-> {"AWAITING_INPUT", "AWAITING_REVIEW"},
   resume             |-> {"PAUSED"},
   record_demo_review |-> {"AWAITING_INPUT", "AWAITING_REVIEW"},
   undo               |-> {"PAUSED", "DEMO_REVIEWED"}]

\* Mutant: the guard of undo forgets recorded reviews.
AllowedStatesUndoPauses ==
  [pause              |-> {"AWAITING_INPUT", "AWAITING_REVIEW"},
   resume             |-> {"PAUSED"},
   record_demo_review |-> {"AWAITING_REVIEW"},
   undo               |-> {"PAUSED"}]

\* The states each command is allowed in (the _require_state calls).
AllowedStates ==
  [pause              |-> {"AWAITING_INPUT", "AWAITING_REVIEW"},
   resume             |-> {"PAUSED"},
   record_demo_review |-> {"AWAITING_REVIEW"},
   undo               |-> {"PAUSED", "DEMO_REVIEWED"}]

\* Legality needs the right state and, to reverse, something on the stack.
LegalCommand(p, command) ==
  /\ p.state \in AllowedStates[command]
  /\ command \in {"resume", "undo"} => p.active # <<>>
  /\ command = "resume" => LatestReversible(p).action = "CASE_PAUSED"

PlannedAction ==
  [pause              |-> "CASE_PAUSED",
   resume             |-> "CASE_RESUMED",
   record_demo_review |-> "DEMO_REVIEW_RECORDED",
   undo               |-> "CONTROL_COMPENSATED"]

\* Mutant: every planned event records the state it was planned in.
PlanControlCommandRecordsCurrent(p, command) ==
  LET latest   == LatestReversible(p)
      reverses == command \in {"resume", "undo"}
  IN  [action          |-> PlannedAction[command],
       prior_state     |-> p.state,
       target_event_id |-> IF reverses THEN latest.event_id ELSE NULL]

\* Only evaluated for a legal command.
PlanControlCommand(p, command) ==
  LET latest   == LatestReversible(p)
      reverses == command \in {"resume", "undo"}
  IN  [action          |-> PlannedAction[command],
       prior_state     |-> IF reverses THEN latest.prior_state ELSE p.state,
       target_event_id |-> IF reverses THEN latest.event_id ELSE NULL]

-----------------------------------------------------------------------------
(* The rows themselves. *)

\* The three SYSTEM events every trace starts with; ids is a triple of fresh ids.
SystemEvents(ids) ==
  {[event_id          |-> ids[n],
    sequence_number   |-> n,
    previous_event_id |-> IF n = 1 THEN NULL ELSE ids[n - 1],
    action            |-> SystemAction[n],
    prior_state       |-> NULL,
    target_event_id   |-> NULL] : n \in 1..3}

\* Mutant: numbering restarts at the count of control events.
NextSequenceSkipsSystem(rows) == MaxSequence(rows) - 2

NextSequence(rows) == MaxSequence(rows) + 1

PreviousEventId(rows) ==
  IF rows = {} THEN NULL ELSE RowAt(rows, MaxSequence(rows)).event_id

ControlEvent(id, rows, planned) ==
  [event_id          |-> id,
   sequence_number   |-> NextSequence(rows),
   previous_event_id |-> PreviousEventId(rows),
   action            |-> planned.action,
   prior_state       |-> planned.prior_state,
   target_event_id   |-> planned.target_event_id]

-----------------------------------------------------------------------------
(* What legal histories look like: the closed form of what their rows       *)
(* replay to, which the proofs carry from one appended row to the next.     *)

\* The rows are numbered 1 .. N, each number once.
Numbered(rows, N) ==
  /\ {e.sequence_number : e \in rows} = 1..N
  /\ \A e, f \in rows : e.sequence_number = f.sequence_number => e = f

\* Each row links to the one before it.
Linked(rows, N) ==
  \A n \in 1..N : RowAt(rows, n).previous_event_id =
                    IF n = 1 THEN NULL ELSE RowAt(rows, n - 1).event_id

\* The first three rows are the system's, all later ones are control events.
RowKinds(rows, N) ==
  /\ 3 <= N
  /\ \A n \in 1..N : RowAt(rows, n).action \in ControlAction <=> n > 3

\* The projection right after row e.
SettledBy(outcome, e) ==
  IF e.action \in ReversibleAction THEN Pushed(StartProjection(outcome), e)
  ELSE StartProjection(outcome)

\* Each prefix of the history replays to what its last row says.
ReplayClosed(outcome, rows, N) ==
  \A n \in 1..N : Replay(outcome, rows)[n] = SettledBy(outcome, RowAt(rows, n))

\* Pauses and reviews are made in the base state; each reversal takes back the
\* row right before it; both record the state the case was or is again in.
Alternating(outcome, rows, N) ==
  \A n \in 4..N :
    LET e == RowAt(rows, n) IN
    /\ e.prior_state = BaseControlState(outcome)
    /\ e.action \in ReversibleAction => Replay(outcome, rows)[n - 1] = StartProjection(outcome)
    /\ e.action \in ReversingAction =>
         /\ n - 1 \in 4..N
         /\ RowAt(rows, n - 1).action \in ReversibleAction
         /\ e.target_event_id = RowAt(rows, n - 1).event_id

\* The parts together are preserved by every command that is legal.
LegalHistory(outcome, rows, N) ==
  /\ Numbered(rows, N) /\ Linked(rows, N) /\ RowKinds(rows, N)
  /\ ReplayClosed(outcome, rows, N) /\ Alternating(outcome, rows, N)
=============================================================================
