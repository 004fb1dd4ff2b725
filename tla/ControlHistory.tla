--------------------------- MODULE ControlHistory ---------------------------
(***************************************************************************)
(* One stored trace under commands that reach it one at a time: what       *)
(* submit_control does inside its transaction once it holds the row lock.  *)
(* The only state is what the database keeps, the decision's outcome and   *)
(* the trace's event rows; the control state is always replayed from them. *)
(* DecisionTraces puts many callers and the database around it.            *)
(***************************************************************************)
EXTENDS ControlKernel

CONSTANT EventId             \* uuid4 values; their supply bounds a history

VARIABLES outcome,           \* temporary_decision_snapshots.outcome
          events             \* the trace's rows of temporary_audit_events

vars == <<outcome, events>>

ASSUME EventIdAssumption ==
  /\ NULL \notin EventId
  /\ \E a, b, c \in EventId : a # b /\ a # c /\ b # c

-----------------------------------------------------------------------------

UsedIds == {e.event_id : e \in events}

\* uuid4() never collides; which unused values it returns does not matter.
FreshId == CHOOSE id \in EventId : id \notin UsedIds
FirstIds ==
  CHOOSE ids \in EventId \X EventId \X EventId :
    ids[1] # ids[2] /\ ids[1] # ids[3] /\ ids[2] # ids[3]

Projection == ReduceControlState(outcome, events)

Init ==
  /\ outcome \in Outcome
  /\ events = SystemEvents(FirstIds)

\* A legal command appends one event; an illegal one (409) changes nothing.
SubmitControl(command) ==
  /\ EventId \ UsedIds # {}
  /\ LegalCommand(Projection, command)
  /\ LET planned == PlanControlCommand(Projection, command)
     IN  events' = events \cup {ControlEvent(FreshId, events, planned)}
  /\ UNCHANGED outcome

Pause            == SubmitControl("pause")
Resume           == SubmitControl("resume")
RecordDemoReview == SubmitControl("record_demo_review")
Undo             == SubmitControl("undo")

Next == Pause \/ Resume \/ RecordDemoReview \/ Undo

Spec == Init /\ [][Next]_vars

-----------------------------------------------------------------------------
(* What a stored history guarantees. *)

Length == MaxSequence(events)
Row(n) == RowAt(events, n)
After(n) == Replay(outcome, events)[n]    \* the projection after row n

EventRow ==
  [event_id          : EventId,
   sequence_number   : Nat \ {0},
   previous_event_id : EventId \cup {NULL},
   action            : ControlAction \cup {SystemAction[n] : n \in 1..3},
   prior_state       : ControlState \cup {NULL},
   target_event_id   : EventId \cup {NULL}]

\* Every stored row has the column types of temporary_audit_events.
TypeOK == outcome \in Outcome /\ events \subseteq EventRow

\* The rows are numbered 1 .. Length without gap or repetition, and each links
\* to the row before it: submit_control computes both from what it has loaded.
ChainIntact ==
  /\ {e.sequence_number : e \in events} = 1..Length
  /\ \A e, f \in events : e.sequence_number = f.sequence_number => e = f
  /\ \A n \in 1..Length :
       Row(n).previous_event_id = IF n = 1 THEN NULL ELSE Row(n - 1).event_id

\* Replaying a stored history never raises, neither the whole of it (reads and
\* commands) nor a prefix of it (the replay of an idempotent answer).
ReplayNeverFails == \A n \in 0..Length : After(n) # Corrupt

\* The reducer's stack never holds two entries, and holds one exactly while the
\* case is shown paused or reviewed; so the two guards of resume and undo, the
\* one on the state and the one on the stack, never disagree.
AtMostOneReversible ==
  \A n \in 0..Length :
    Len(After(n).active) = IF After(n).state \in {"PAUSED", "DEMO_REVIEWED"} THEN 1 ELSE 0

\* The prior_state written into a payload is what a reader of the history would
\* compute: the state a pause or review replaced, the state a reversal restored.
RecordedPriorStateTrue ==
  \A n \in 4..Length :
    Row(n).prior_state = IF Row(n).action \in ReversibleAction
                         THEN After(n - 1).state
                         ELSE After(n).state

\* A resume or compensation names one earlier pause or review that nothing has
\* reversed yet, and puts the whole projection back to just before that event.
ReversalRestores ==
  \A n \in 4..Length : Row(n).action \in ReversingAction =>
    \E m \in 4..(n - 1) :
      /\ Row(m).event_id = Row(n).target_event_id
      /\ Row(m).action \in ReversibleAction
      /\ After(n) = After(m - 1)
      /\ \A k \in (m + 1)..(n - 1) : Row(k).target_event_id # Row(m).event_id

\* A case that is shown paused can be resumed and undone, and one shown as
\* reviewed can be undone: no sequence of commands leaves it stuck there.
HeldCaseCanBeReleased ==
  /\ Projection.state = "PAUSED" =>
       LegalCommand(Projection, "resume") /\ LegalCommand(Projection, "undo")
  /\ Projection.state = "DEMO_REVIEWED" => LegalCommand(Projection, "undo")

\* A command only ever adds one row after the last; it never edits or drops one.
AppendOnly ==
  [][/\ events \subseteq events'
     /\ \E e \in events' : events' = events \cup {e} /\ e.sequence_number = Length + 1
    ]_vars

\* Seen only through its derived state, a stored history behaves as the deck.
Deck == INSTANCE ControlDeck WITH base  <- BaseControlState(outcome),
                                  state <- Projection.state
ImplementsControlDeck == Deck!Spec

-----------------------------------------------------------------------------

\* What every command preserves, and what implies the rest: the rows are typed
\* and have the closed form of ControlKernel.
IndInv ==
  /\ TypeOK
  /\ Length \in Nat
  /\ LegalHistory(outcome, events, Length)
=============================================================================
