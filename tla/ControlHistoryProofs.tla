------------------------ MODULE ControlHistoryProofs ------------------------
(***************************************************************************)
(* ControlHistory for every supply of event ids, so for histories of every *)
(* length: IndInv is an invariant of the specification, it implies each of *)
(* the module's safety properties, and the derived state is a ControlDeck. *)
(***************************************************************************)
EXTENDS ControlHistory, ControlKernelProofs

-----------------------------------------------------------------------------
(* The inductive invariant. *)

\* What the kernel's lemmas say of the trace's own rows.
LEMMA Settled ==
  ASSUME IndInv
  PROVE  /\ outcome \in Outcome
         /\ Length \in Nat /\ Length \in 1..Length /\ Length >= 3
         /\ Numbered(events, Length) /\ LegalHistory(outcome, events, Length)
         /\ Projection = SettledBy(outcome, Row(Length))
PROOF
BY HistorySettled DEF IndInv, TypeOK, LegalHistory, Projection, Row

\* The three system rows of a new trace satisfy the invariant.
LEMMA InitIndInv ==
  Init => IndInv /\ Length = 3 /\ Projection = StartProjection(outcome)
PROOF
<1> SUFFICES ASSUME Init
             PROVE  IndInv /\ Length = 3 /\ Projection = StartProjection(outcome)
  OBVIOUS
<1> DEFINE ids == FirstIds
<1>1. ids \in EventId \X EventId \X EventId
  <2>1. PICK a, b, c \in EventId : a # b /\ a # c /\ b # c
    BY EventIdAssumption
  <2>2. /\ <<a, b, c>> \in EventId \X EventId \X EventId
        /\ <<a, b, c>>[1] # <<a, b, c>>[2] /\ <<a, b, c>>[1] # <<a, b, c>>[3]
        /\ <<a, b, c>>[2] # <<a, b, c>>[3]
    BY <2>1
  <2> QED
    BY <2>2 DEF FirstIds
<1>2. ids[1] \in EventId /\ ids[2] \in EventId /\ ids[3] \in EventId
  BY <1>1
<1>3. outcome \in Outcome /\ events = SystemEvents(ids)
  BY DEF Init
<1> HIDE DEF ids
<1>4. /\ LegalHistory(outcome, events, 3)
      /\ ReduceControlState(outcome, events) = StartProjection(outcome)
  BY <1>3, LegalHistoryStarts
<1>5. Length = 3
  BY <1>4, HistorySettled DEF Length
<1>6. events \subseteq EventRow
  <2> SUFFICES ASSUME NEW n \in 1..3
               PROVE  [event_id          |-> ids[n],
                       sequence_number   |-> n,
                       previous_event_id |-> IF n = 1 THEN NULL ELSE ids[n - 1],
                       action            |-> SystemAction[n],
                       prior_state       |-> NULL,
                       target_event_id   |-> NULL] \in EventRow
    BY <1>3 DEF SystemEvents
  <2>1. n = 1 \/ n = 2 \/ n = 3
    OBVIOUS
  <2>2. ids[n] \in EventId /\ (n # 1 => ids[n - 1] \in EventId)
    BY <1>2, <2>1
  <2> QED
    BY <2>2 DEF EventRow
<1> QED
  BY <1>3, <1>4, <1>5, <1>6 DEF IndInv, TypeOK, Projection

\* A command keeps the invariant, and appends one row numbered after the last.
LEMMA StepIndInv ==
  ASSUME IndInv, NEW command \in ControlCommand, SubmitControl(command)
  PROVE  LET e == ControlEvent(FreshId, events, PlanControlCommand(Projection, command))
         IN  /\ IndInv'
             /\ outcome' = outcome
             /\ events' = events \cup {e}
             /\ e.sequence_number = Length + 1
             /\ Projection' = SettledBy(outcome, e)
PROOF
<1> DEFINE e == ControlEvent(FreshId, events, PlanControlCommand(Projection, command))
           last == Row(Length)
<1>1. /\ outcome \in Outcome /\ Length \in Nat /\ Length \in 1..Length
      /\ Numbered(events, Length) /\ LegalHistory(outcome, events, Length)
  BY Settled
<1>2. /\ outcome' = outcome /\ events' = events \cup {e}
      /\ LegalCommand(Projection, command)
  BY DEF SubmitControl
<1>3. FreshId \in EventId
  <2>1. EventId \ UsedIds # {}
    BY DEF SubmitControl
  <2> QED
    BY <2>1 DEF FreshId
<1>4. /\ e.event_id = FreshId
      /\ e.sequence_number = Length + 1
      /\ e.previous_event_id = last.event_id
      /\ e.action \in ControlAction
      /\ e.prior_state = BaseControlState(outcome)
      /\ e.action \in ReversibleAction => e.target_event_id = NULL
      /\ e.action \in ReversingAction => e.target_event_id = last.event_id
  BY <1>1, <1>2, PlannedEvent DEF Projection, Row
<1>5. /\ LegalHistory(outcome, events \cup {e}, Length + 1)
      /\ ReduceControlState(outcome, events \cup {e}) = SettledBy(outcome, e)
  BY <1>1, <1>2, LegalHistoryGrows DEF Projection
<1>6. last.event_id \in EventId
  <2>1. last \in events
    BY <1>1, NumberedRow DEF Row
  <2> QED
    BY <2>1 DEF IndInv, TypeOK, EventRow
<1>7. e = [event_id          |-> e.event_id,
           sequence_number   |-> e.sequence_number,
           previous_event_id |-> e.previous_event_id,
           action            |-> e.action,
           prior_state       |-> e.prior_state,
           target_event_id   |-> e.target_event_id]
  BY DEF ControlEvent
<1> HIDE DEF e, last
<1>8. e \in EventRow
  <2>1. BaseControlState(outcome) \in ControlState /\ Length + 1 \in Nat \ {0}
    BY <1>1, NotCorrupt DEF ControlState
  <2>2. e.target_event_id \in EventId \cup {NULL}
    BY <1>4, <1>6 DEF ControlAction
  <2> QED
    BY <1>3, <1>4, <1>6, <1>7, <2>1, <2>2 DEF EventRow
<1>9. Length' = Length + 1
  <2>1. Length + 1 \in Nat
    BY <1>1
  <2>2. MaxSequence(events \cup {e}) = Length + 1
    BY <1>5, <2>1, HistorySettled
  <2> QED
    BY <1>2, <2>2 DEF Length
<1>10. TypeOK'
  BY <1>1, <1>2, <1>8 DEF IndInv, TypeOK
<1>11. LegalHistory(outcome, events, Length)'
  BY <1>2, <1>5, <1>9
<1>12. IndInv'
  BY <1>1, <1>9, <1>10, <1>11 DEF IndInv
<1> QED
  BY <1>2, <1>4, <1>5, <1>12 DEF Projection, e

\* Every step of the specification is one submitted command.
LEMMA NextSubmits == Next => \E command \in ControlCommand : SubmitControl(command)
PROOF
BY DEF Next, Pause, Resume, RecordDemoReview, Undo, ControlCommand

\* Each prefix replays to the start projection or to one pause or review on it.
LEMMA AfterShape ==
  ASSUME IndInv, NEW n \in 0..Length
  PROVE  \/ After(n) = StartProjection(outcome)
         \/ \E r : r.action \in ReversibleAction /\ After(n) = Pushed(StartProjection(outcome), r)
PROOF
BY Settled, PrefixShape DEF After

-----------------------------------------------------------------------------
(* The theorems. *)

\* Every history that commands can produce satisfies the invariant.
THEOREM HistoryInvariant == Spec => []IndInv
PROOF
<1>1. Init => IndInv
  BY InitIndInv
<1>2. IndInv /\ [Next]_vars => IndInv'
  <2> SUFFICES ASSUME IndInv, [Next]_vars PROVE IndInv'
    OBVIOUS
  <2>1. CASE Next
    BY <2>1, NextSubmits, StepIndInv
  <2>2. CASE UNCHANGED vars
    BY <2>2 DEF vars, IndInv, TypeOK, Length
  <2> QED
    BY <2>1, <2>2
<1> QED
  BY <1>1, <1>2, PTL DEF Spec

\* Stored rows keep the column types of their table.
THEOREM TypeCorrect == Spec => []TypeOK
PROOF
<1>1. IndInv => TypeOK
  BY DEF IndInv
<1> QED
  BY <1>1, HistoryInvariant, PTL

\* The numbering and the previous_event_id chain that submit_control computes
\* from the rows it has loaded stay unbroken in histories of every length.
THEOREM ChainStaysIntact == Spec => []ChainIntact
PROOF
<1>1. IndInv => ChainIntact
  BY DEF IndInv, LegalHistory, Numbered, Linked, ChainIntact, Row
<1> QED
  BY <1>1, HistoryInvariant, PTL

\* No prefix of a history makes reduce_control_state raise, so neither a read nor
\* the replay of an old idempotent answer ever fails on stored rows.
THEOREM ReplaysNeverFail == Spec => []ReplayNeverFails
PROOF
<1>1. IndInv => ReplayNeverFails
  <2> SUFFICES ASSUME IndInv, NEW n \in 0..Length PROVE After(n) # Corrupt
    BY DEF ReplayNeverFails
  <2>1. outcome \in Outcome
    BY DEF IndInv, TypeOK
  <2> QED
    BY <2>1, AfterShape, NotCorrupt
<1> QED
  BY <1>1, HistoryInvariant, PTL

\* The reducer's stack is as deep as the state says: one entry when the case is
\* paused or reviewed, none otherwise.  Resume and undo guard on both.
THEOREM StackMatchesState == Spec => []AtMostOneReversible
PROOF
<1>1. IndInv => AtMostOneReversible
  <2> SUFFICES ASSUME IndInv, NEW n \in 0..Length
               PROVE  Len(After(n).active) =
                        IF After(n).state \in {"PAUSED", "DEMO_REVIEWED"} THEN 1 ELSE 0
    BY DEF AtMostOneReversible
  <2>1. outcome \in Outcome
    BY DEF IndInv, TypeOK
  <2>2. CASE After(n) = StartProjection(outcome)
    <3>1. After(n).active = <<>> /\ After(n).state = BaseControlState(outcome)
      BY <2>2 DEF StartProjection
    <3>2. After(n).state \notin {"PAUSED", "DEMO_REVIEWED"}
      BY <2>1, <3>1, NotCorrupt
    <3>3. Len(<<>>) = 0
      OBVIOUS
    <3> QED
      BY <3>1, <3>2, <3>3
  <2>3. ASSUME NEW r, r.action \in ReversibleAction,
               After(n) = Pushed(StartProjection(outcome), r)
        PROVE  After(n).state \in {"PAUSED", "DEMO_REVIEWED"} /\ Len(After(n).active) = 1
    BY <2>1, <2>3, PushedShape
  <2> QED
    BY <2>2, <2>3, AfterShape
<1> QED
  BY <1>1, HistoryInvariant, PTL

\* The prior_state written into an event's payload is the state a pause or review
\* replaced, or the one a reversal brought back: what a replay computes too.
THEOREM PriorStateIsTrue == Spec => []RecordedPriorStateTrue
PROOF
<1>1. IndInv => RecordedPriorStateTrue
  <2> SUFFICES ASSUME IndInv, NEW n \in 4..Length
               PROVE  Row(n).prior_state = IF Row(n).action \in ReversibleAction
                                           THEN After(n - 1).state ELSE After(n).state
    BY DEF RecordedPriorStateTrue
  <2>1. n \in 1..Length
    BY Settled
  <2>2. /\ Row(n).prior_state = BaseControlState(outcome)
        /\ Row(n).action \in ReversibleAction => After(n - 1) = StartProjection(outcome)
    BY DEF IndInv, LegalHistory, Alternating, Row, After
  <2>3. Row(n).action \notin ReversibleAction => After(n) = StartProjection(outcome)
    BY <2>1 DEF IndInv, LegalHistory, ReplayClosed, SettledBy, Row, After
  <2> QED
    BY <2>2, <2>3 DEF StartProjection
<1> QED
  BY <1>1, HistoryInvariant, PTL

\* A resume or compensation takes back one earlier pause or review that nothing
\* took back before, and leaves the projection as it was just before that event.
THEOREM ReversalsRestore == Spec => []ReversalRestores
PROOF
<1>1. IndInv => ReversalRestores
  <2> SUFFICES ASSUME IndInv, NEW n \in 4..Length, Row(n).action \in ReversingAction
               PROVE  \E m \in 4..(n - 1) :
                        /\ Row(m).event_id = Row(n).target_event_id
                        /\ Row(m).action \in ReversibleAction
                        /\ After(n) = After(m - 1)
                        /\ \A k \in (m + 1)..(n - 1) : Row(k).target_event_id # Row(m).event_id
    BY DEF ReversalRestores
  <2>1. Length \in Nat
    BY Settled
  <2>2. /\ n - 1 \in 4..Length
        /\ Row(n - 1).action \in ReversibleAction
        /\ Row(n).target_event_id = Row(n - 1).event_id
    BY DEF IndInv, LegalHistory, Alternating, Row, After
  <2>3. n - 1 \in 4..(n - 1) /\ n \in 1..Length /\ ((n - 1) + 1)..(n - 1) = {}
    BY <2>1, <2>2
  <2>4. After((n - 1) - 1) = StartProjection(outcome)
    BY <2>2 DEF IndInv, LegalHistory, Alternating, Row, After
  <2>5. After(n) = StartProjection(outcome)
    <3>1. Row(n).action \notin ReversibleAction
      BY DEF ReversingAction, ReversibleAction
    <3> QED
      BY <2>3, <3>1 DEF IndInv, LegalHistory, ReplayClosed, SettledBy, Row, After
  <2> QED
    BY <2>2, <2>3, <2>4, <2>5
<1> QED
  BY <1>1, HistoryInvariant, PTL

\* A paused case accepts resume and undo and a reviewed one accepts undo, however
\* long its history: the two guards of a reversal never lock a case in.
THEOREM HeldCasesAreReleasable == Spec => []HeldCaseCanBeReleased
PROOF
<1>1. IndInv => HeldCaseCanBeReleased
  <2> SUFFICES ASSUME IndInv PROVE HeldCaseCanBeReleased
    OBVIOUS
  <2>1. outcome \in Outcome /\ Projection = SettledBy(outcome, Row(Length))
    BY Settled DEF IndInv, TypeOK
  <2>2. CASE Row(Length).action \notin ReversibleAction
    <3>1. Projection.state = BaseControlState(outcome)
      BY <2>1, <2>2 DEF SettledBy, StartProjection
    <3>2. Projection.state \notin {"PAUSED", "DEMO_REVIEWED"}
      BY <2>1, <3>1, NotCorrupt
    <3> QED
      BY <3>2 DEF HeldCaseCanBeReleased
  <2>3. CASE Row(Length).action \in ReversibleAction
    <3>1. Projection = Pushed(StartProjection(outcome), Row(Length))
      BY <2>1, <2>3 DEF SettledBy
    <3>2. Projection.state = IF Row(Length).action = "CASE_PAUSED"
                             THEN "PAUSED" ELSE "DEMO_REVIEWED"
      BY <2>1, <2>3, <3>1, PushedShape
    <3>3. LegalCommand(Projection, "undo")
      BY <2>1, <2>3, <3>1, PushedAllows DEF ControlCommand
    <3>4. Row(Length).action = "CASE_PAUSED" => LegalCommand(Projection, "resume")
      BY <2>1, <2>3, <3>1, PushedAllows DEF ControlCommand
    <3> QED
      BY <3>2, <3>3, <3>4 DEF HeldCaseCanBeReleased
  <2> QED
    BY <2>2, <2>3
<1> QED
  BY <1>1, HistoryInvariant, PTL

\* A command adds exactly one row, numbered after the last, and edits none.
THEOREM HistoriesOnlyGrow == Spec => AppendOnly
PROOF
<1>1. IndInv /\ [Next]_vars =>
        [/\ events \subseteq events'
         /\ \E e \in events' : events' = events \cup {e} /\ e.sequence_number = Length + 1
        ]_vars
  <2> SUFFICES ASSUME IndInv, Next
               PROVE  /\ events \subseteq events'
                      /\ \E e \in events' :
                           events' = events \cup {e} /\ e.sequence_number = Length + 1
    OBVIOUS
  <2> QED
    BY NextSubmits, StepIndInv
<1> QED
  BY <1>1, HistoryInvariant, PTL DEF Spec, AppendOnly

-----------------------------------------------------------------------------
(* Refinement: with the events hidden, a history behaves as the deck. *)

\* A new history starts in the deck's initial state.
LEMMA DeckInit == Init => Deck!Init
PROOF
<1> SUFFICES ASSUME Init PROVE Deck!Init
  OBVIOUS
<1>1. IndInv
  BY InitIndInv
<1>2. outcome \in Outcome
  BY DEF Init
<1>3. Projection = StartProjection(outcome)
  BY InitIndInv
<1> QED
  BY <1>2, <1>3, NotCorrupt DEF Deck!Init, StartProjection

\* Each command is a step of the deck.
LEMMA DeckStep ==
  ASSUME IndInv, NEW command \in ControlCommand, SubmitControl(command)
  PROVE  Deck!Next
PROOF
<1> DEFINE e == ControlEvent(FreshId, events, PlanControlCommand(Projection, command))
<1>1. outcome' = outcome /\ Projection' = SettledBy(outcome, e)
  BY StepIndInv
<1>2. outcome \in Outcome /\ Projection.state \in AllowedStates[command]
  BY DEF IndInv, TypeOK, SubmitControl, LegalCommand
<1>3. e.action = PlannedAction[command]
  BY DEF ControlEvent, PlanControlCommand
<1> HIDE DEF e
<1>4. BaseControlState(outcome)' = BaseControlState(outcome)
  BY <1>1
<1>5. ASSUME e.action \in ReversibleAction
      PROVE  Projection'.state = IF e.action = "CASE_PAUSED" THEN "PAUSED" ELSE "DEMO_REVIEWED"
  BY <1>1, <1>2, <1>5, PushedShape DEF SettledBy
<1>6. ASSUME e.action \notin ReversibleAction
      PROVE  Projection'.state = BaseControlState(outcome)
  BY <1>1, <1>6 DEF SettledBy, StartProjection
<1>7. CASE command = "pause"
  <2>1. e.action = "CASE_PAUSED" /\ Projection.state \in {"AWAITING_INPUT", "AWAITING_REVIEW"}
    BY <1>2, <1>3, <1>7 DEF PlannedAction, AllowedStates
  <2> QED
    BY <1>4, <1>5, <2>1 DEF ReversibleAction, Deck!Next, Deck!Pause
<1>8. CASE command = "record_demo_review"
  <2>1. e.action = "DEMO_REVIEW_RECORDED" /\ Projection.state = "AWAITING_REVIEW"
    BY <1>2, <1>3, <1>8 DEF PlannedAction, AllowedStates
  <2> QED
    BY <1>4, <1>5, <2>1 DEF ReversibleAction, Deck!Next, Deck!RecordDemoReview
<1>9. CASE command \in {"resume", "undo"}
  <2>1. /\ e.action \notin ReversibleAction
        /\ Projection.state \in {"PAUSED", "DEMO_REVIEWED"}
    BY <1>2, <1>3, <1>9 DEF PlannedAction, AllowedStates, ReversibleAction
  <2> QED
    BY <1>4, <1>6, <2>1 DEF Deck!Next, Deck!Restore
<1> QED
  BY <1>7, <1>8, <1>9 DEF ControlCommand

\* Through its derived state alone a stored history implements ControlDeck.
THEOREM HistoryImplementsDeck == Spec => ImplementsControlDeck
PROOF
<1>1. Init => Deck!Init
  BY DeckInit
<1>2. IndInv /\ [Next]_vars => [Deck!Next]_(Deck!vars)
  <2> SUFFICES ASSUME IndInv, [Next]_vars PROVE [Deck!Next]_(Deck!vars)
    OBVIOUS
  <2>1. CASE Next
    BY <2>1, NextSubmits, DeckStep
  <2>2. CASE UNCHANGED vars
    BY <2>2 DEF vars, Deck!vars, Projection
  <2> QED
    BY <2>1, <2>2
<1> QED
  BY <1>1, <1>2, HistoryInvariant, PTL DEF Spec, ImplementsControlDeck, Deck!Spec
=============================================================================
