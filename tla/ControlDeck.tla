---------------------------- MODULE ControlDeck ----------------------------
(***************************************************************************)
(* What the control deck promises about ONE trace, with no event in sight: *)
(* a case can be held for input or review, paused and resumed, marked as   *)
(* demo-reviewed, and the latest of those two marks can be taken back,     *)
(* which returns the case to the state its original decision gave it.      *)
(* An automatically approved case is never touched.                        *)
(***************************************************************************)
VARIABLES base,              \* the state the stored decision maps to
          state              \* the state the case is shown in

vars == <<base, state>>

Init ==
  /\ base \in {"AUTO_APPROVED", "AWAITING_INPUT", "AWAITING_REVIEW"}
  /\ state = base

Pause ==
  /\ state \in {"AWAITING_INPUT", "AWAITING_REVIEW"}
  /\ state' = "PAUSED"
  /\ UNCHANGED base

RecordDemoReview ==
  /\ state = "AWAITING_REVIEW"
  /\ state' = "DEMO_REVIEWED"
  /\ UNCHANGED base

\* Resume and undo of a pause, and undo of a review, all lead back.
Restore ==
  /\ state \in {"PAUSED", "DEMO_REVIEWED"}
  /\ state' = base
  /\ UNCHANGED base

Next == Pause \/ RecordDemoReview \/ Restore

Spec == Init /\ [][Next]_vars
=============================================================================
