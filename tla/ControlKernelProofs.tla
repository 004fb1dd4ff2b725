------------------------ MODULE ControlKernelProofs ------------------------
(***************************************************************************)
(* Facts about the kernel's operators, for rows of any number: the reducer *)
(* satisfies its recursive equation, what it computes from the first N     *)
(* rows does not depend on the rows after them, and a history that begins  *)
(* with the system's rows and grows by legal commands keeps the closed     *)
(* form LegalHistory.                                                      *)
(***************************************************************************)
EXTENDS ControlKernel, WellFoundedInduction, TLAPS

-----------------------------------------------------------------------------
(* Induction, stated for a set so that it can be cited. *)

\* A set of naturals that holds 0 and is closed under successor holds them all.
LEMMA NatSetInduction ==
  ASSUME NEW T, T \subseteq Nat, 0 \in T, \A n \in T : n + 1 \in T
  PROVE  T = Nat
PROOF
<1>1. SUFFICES ASSUME Nat \ T # {} PROVE FALSE
  OBVIOUS
<1>2. PICK x \in Nat \ T : \A y \in Nat \ T : ~ (<<y, x>> \in OpToRel(<, Nat))
  <2>1. Nat \ T \subseteq Nat
    OBVIOUS
  <2> QED
    BY <1>1, <2>1, NatLessThanWellFounded, WFMin
<1>3. x # 0 /\ x - 1 \in Nat /\ x - 1 < x
  OBVIOUS
<1>4. <<x - 1, x>> \in OpToRel(<, Nat)
  BY <1>2, <1>3 DEF OpToRel
<1>5. x - 1 \in T
  BY <1>2, <1>3, <1>4
<1>6. (x - 1) + 1 = x
  OBVIOUS
<1> QED
  BY <1>2, <1>5, <1>6

-----------------------------------------------------------------------------
(* The reducer's recursive equation has a solution. *)

\* g solves the equation of Replay as far as n.
Solves(g, n, outcome, rows) ==
  g = [i \in 0..n |-> IF i = 0 THEN StartProjection(outcome)
                      ELSE ReplayStep(rows, g[i - 1], i)]

\* Two solutions agree wherever both are defined.
LEMMA SolutionsAgree ==
  ASSUME NEW outcome, NEW rows, NEW m \in Nat, NEW n \in Nat, m <= n,
         NEW g, NEW h, Solves(g, m, outcome, rows), Solves(h, n, outcome, rows)
  PROVE  \A i \in 0..m : g[i] = h[i]
PROOF
<1> DEFINE T == {i \in Nat : i <= m => g[i] = h[i]}
<1>1. 0 \in T
  BY DEF Solves
<1>2. ASSUME NEW i \in T PROVE i + 1 \in T
  <2>1. SUFFICES ASSUME i + 1 <= m PROVE g[i + 1] = h[i + 1]
    OBVIOUS
  <2>2. i + 1 \in 0..m /\ i + 1 \in 0..n /\ i + 1 # 0 /\ (i + 1) - 1 = i
    BY <2>1
  <2>3. g[i + 1] = ReplayStep(rows, g[i], i + 1)
    BY <2>2 DEF Solves
  <2>4. h[i + 1] = ReplayStep(rows, h[i], i + 1)
    BY <2>2 DEF Solves
  <2>5. g[i] = h[i]
    BY <2>1
  <2> QED
    BY <2>3, <2>4, <2>5
<1>3. T = Nat
  <2> HIDE DEF T
  <2>1. T \subseteq Nat
    BY DEF T
  <2> QED
    BY <1>1, <1>2, <2>1, NatSetInduction
<1> QED
  BY <1>3

\* There is a solution up to every n.
LEMMA SolutionExists ==
  ASSUME NEW outcome, NEW rows
  PROVE  \A n \in Nat : \E g : Solves(g, n, outcome, rows)
PROOF
<1> DEFINE T == {n \in Nat : \E g : Solves(g, n, outcome, rows)}
<1>1. 0 \in T
  <2>1. Solves([i \in 0..0 |-> StartProjection(outcome)], 0, outcome, rows)
    BY DEF Solves
  <2> QED
    BY <2>1
<1>2. ASSUME NEW n \in T PROVE n + 1 \in T
  <2>1. PICK g : Solves(g, n, outcome, rows)
    OBVIOUS
  <2> DEFINE h == [i \in 0..(n + 1) |->
                     IF i = n + 1 THEN ReplayStep(rows, g[n], n + 1) ELSE g[i]]
  <2>2. ASSUME NEW i \in 0..(n + 1)
        PROVE  h[i] = IF i = 0 THEN StartProjection(outcome)
                      ELSE ReplayStep(rows, h[i - 1], i)
    <3>1. CASE i = n + 1
      <4>1. i # 0 /\ i - 1 = n /\ n \in 0..(n + 1) /\ n # n + 1
        BY <3>1
      <4>2. h[i - 1] = g[n]
        BY <4>1
      <4> QED
        BY <3>1, <4>1, <4>2
    <3>2. CASE i = 0
      <4>1. 0 \in 0..n /\ 0 # n + 1
        OBVIOUS
      <4> QED
        BY <2>1, <3>2, <4>1 DEF Solves
    <3>3. CASE i # 0 /\ i # n + 1
      <4>1. i \in 0..n /\ i - 1 \in 0..(n + 1) /\ i - 1 # n + 1
        BY <3>3
      <4>2. h[i - 1] = g[i - 1] /\ h[i] = g[i]
        BY <3>3, <4>1
      <4>3. g[i] = ReplayStep(rows, g[i - 1], i)
        BY <2>1, <3>3, <4>1 DEF Solves
      <4> QED
        BY <3>3, <4>2, <4>3
    <3> QED
      BY <3>1, <3>2, <3>3
  <2>3. Solves(h, n + 1, outcome, rows)
    BY <2>2 DEF Solves
  <2> QED
    BY <2>3
<1>3. T = Nat
  <2> HIDE DEF T
  <2>1. T \subseteq Nat
    BY DEF T
  <2> QED
    BY <1>1, <1>2, <2>1, NatSetInduction
<1> QED
  BY <1>3

\* Replay satisfies the equation it is defined by.
LEMMA ReplayEquation ==
  ASSUME NEW outcome, NEW rows
  PROVE  Replay(outcome, rows) =
           [n \in Nat |-> IF n = 0 THEN StartProjection(outcome)
                          ELSE ReplayStep(rows, Replay(outcome, rows)[n - 1], n)]
PROOF
<1> DEFINE G(n) == CHOOSE g : Solves(g, n, outcome, rows)
           f    == [n \in Nat |-> G(n)[n]]
<1>1. \A n \in Nat : Solves(G(n), n, outcome, rows)
  BY SolutionExists
<1> HIDE DEF G
<1>2. ASSUME NEW n \in Nat
      PROVE  f[n] = IF n = 0 THEN StartProjection(outcome) ELSE ReplayStep(rows, f[n - 1], n)
  <2>1. CASE n = 0
    <3>1. G(0)[0] = StartProjection(outcome)
      BY <1>1 DEF Solves
    <3> QED
      BY <2>1, <3>1
  <2>2. CASE n # 0
    <3>1. n - 1 \in Nat /\ n - 1 <= n /\ n \in 0..n /\ n - 1 \in 0..(n - 1)
      BY <2>2
    <3>2. Solves(G(n), n, outcome, rows) /\ Solves(G(n - 1), n - 1, outcome, rows)
      BY <1>1, <3>1
    <3>3. G(n)[n] = ReplayStep(rows, G(n)[n - 1], n)
      BY <2>2, <3>1, <3>2 DEF Solves
    <3>4. G(n - 1)[n - 1] = G(n)[n - 1]
      BY <3>1, <3>2, SolutionsAgree
    <3> QED
      BY <2>2, <3>1, <3>3, <3>4
  <2> QED
    BY <2>1, <2>2
<1>3. f = [n \in Nat |-> IF n = 0 THEN StartProjection(outcome) ELSE ReplayStep(rows, f[n - 1], n)]
  <2>1. f = [n \in Nat |-> f[n]]
    OBVIOUS
  <2> HIDE DEF f
  <2> QED
    BY <1>2, <2>1
<1> HIDE DEF f
<1>4. Replay(outcome, rows) =
        CHOOSE at : at = [n \in Nat |-> IF n = 0 THEN StartProjection(outcome)
                                        ELSE ReplayStep(rows, at[n - 1], n)]
  BY DEF Replay
<1> QED
  BY <1>3, <1>4

\* One turn of the fold.
LEMMA ReplayTurn ==
  ASSUME NEW outcome, NEW rows
  PROVE  /\ Replay(outcome, rows)[0] = StartProjection(outcome)
         /\ \A n \in Nat : Replay(outcome, rows)[n + 1] =
                          ReplayStep(rows, Replay(outcome, rows)[n], n + 1)
PROOF
<1> DEFINE R == Replay(outcome, rows)
<1>1. R = [n \in Nat |-> IF n = 0 THEN StartProjection(outcome)
                        ELSE ReplayStep(rows, R[n - 1], n)]
  BY ReplayEquation
<1> HIDE DEF R
<1>2. R[0] = StartProjection(outcome)
  BY <1>1
<1>3. ASSUME NEW n \in Nat PROVE R[n + 1] = ReplayStep(rows, R[n], n + 1)
  <2>1. n + 1 \in Nat /\ n + 1 # 0 /\ (n + 1) - 1 = n
    OBVIOUS
  <2>2. R[n + 1] = ReplayStep(rows, R[(n + 1) - 1], n + 1)
    BY <1>1, <2>1
  <2> QED
    BY <2>1, <2>2
<1> QED
  BY <1>2, <1>3 DEF R

-----------------------------------------------------------------------------
(* Rows numbered 1 .. N. *)

LEMMA NumberedMax ==
  ASSUME NEW rows, NEW N \in Nat, Numbered(rows, N)
  PROVE  MaxSequence(rows) = N
PROOF
<1>1. {0} \cup {e.sequence_number : e \in rows} = 0..N
  BY DEF Numbered
<1>2. N \in 0..N /\ \A y \in 0..N : N >= y
  OBVIOUS
<1>3. \A x \in 0..N : (\A y \in 0..N : x >= y) => x = N
  OBVIOUS
<1>4. Max(0..N) = N
  BY <1>2, <1>3 DEF Max
<1> QED
  BY <1>1, <1>4 DEF MaxSequence

\* Row n exists, and is the only one with its number.
LEMMA NumberedRow ==
  ASSUME NEW rows, NEW N \in Nat, Numbered(rows, N), NEW n \in 1..N
  PROVE  /\ RowAt(rows, n) \in rows
         /\ RowAt(rows, n).sequence_number = n
         /\ \A e \in rows : e.sequence_number = n => e = RowAt(rows, n)
PROOF
<1>1. n \in {e.sequence_number : e \in rows}
  BY DEF Numbered
<1>2. \E e \in rows : e.sequence_number = n
  BY <1>1
<1>3. RowAt(rows, n) \in rows /\ RowAt(rows, n).sequence_number = n
  BY <1>2 DEF RowAt
<1> QED
  BY <1>3 DEF Numbered

\* Adding row N + 1 leaves the numbering intact and the first N rows where they are.
LEMMA NumberedExtend ==
  ASSUME NEW rows, NEW N \in Nat, Numbered(rows, N),
         NEW e, e.sequence_number = N + 1
  PROVE  /\ Numbered(rows \cup {e}, N + 1)
         /\ RowAt(rows \cup {e}, N + 1) = e
         /\ \A n \in 1..N : RowAt(rows \cup {e}, n) = RowAt(rows, n)
PROOF
<1> DEFINE more == rows \cup {e}
<1>1. \A f \in rows : f.sequence_number \in 1..N
  BY DEF Numbered
<1>2. {f.sequence_number : f \in more} = 1..(N + 1)
  <2>1. {f.sequence_number : f \in more} = {f.sequence_number : f \in rows} \cup {N + 1}
    OBVIOUS
  <2>2. (1..N) \cup {N + 1} = 1..(N + 1)
    OBVIOUS
  <2> QED
    BY <2>1, <2>2 DEF Numbered
<1>3. \A f, g \in more : f.sequence_number = g.sequence_number => f = g
  <2>1. N + 1 \notin 1..N
    OBVIOUS
  <2> QED
    BY <1>1, <2>1 DEF Numbered
<1>4. Numbered(more, N + 1)
  BY <1>2, <1>3 DEF Numbered
<1>5. RowAt(more, N + 1) = e
  <2>1. N + 1 \in 1..(N + 1) /\ N + 1 \in Nat
    OBVIOUS
  <2> HIDE DEF more
  <2>2. \A f \in more : f.sequence_number = N + 1 => f = RowAt(more, N + 1)
    BY <1>4, <2>1, NumberedRow
  <2>3. e \in more
    BY DEF more
  <2> QED
    BY <2>2, <2>3
<1>6. ASSUME NEW n \in 1..N PROVE RowAt(more, n) = RowAt(rows, n)
  <2>1. RowAt(rows, n) \in rows /\ RowAt(rows, n).sequence_number = n
    BY NumberedRow
  <2>2. n \in 1..(N + 1) /\ N + 1 \in Nat /\ RowAt(rows, n) \in more
    BY <2>1
  <2> HIDE DEF more
  <2>3. \A f \in more : f.sequence_number = n => f = RowAt(more, n)
    BY <1>4, <2>2, NumberedRow
  <2> QED
    BY <2>1, <2>2, <2>3
<1> QED
  BY <1>4, <1>5, <1>6

\* With rows numbered 1 .. N, each turn up to N applies one row.
LEMMA ReplayRow ==
  ASSUME NEW outcome, NEW rows, NEW N \in Nat, Numbered(rows, N), NEW n \in 1..N
  PROVE  Replay(outcome, rows)[n] = ApplyEvent(Replay(outcome, rows)[n - 1], RowAt(rows, n))
PROOF
<1>1. n - 1 \in Nat /\ (n - 1) + 1 = n
  OBVIOUS
<1>2. Replay(outcome, rows)[n] = ReplayStep(rows, Replay(outcome, rows)[n - 1], n)
  BY <1>1, ReplayTurn
<1>3. \E e \in rows : e.sequence_number = n
  BY NumberedRow
<1> QED
  BY <1>2, <1>3 DEF ReplayStep

\* Rows that agree up to number N replay to the same projections up to there.
LEMMA ReplayAgrees ==
  ASSUME NEW outcome, NEW rows, NEW N \in Nat, Numbered(rows, N),
         NEW more, NEW M \in Nat, Numbered(more, M), N <= M,
         \A n \in 1..N : RowAt(more, n) = RowAt(rows, n)
  PROVE  \A n \in 0..N : Replay(outcome, more)[n] = Replay(outcome, rows)[n]
PROOF
<1> DEFINE T == {n \in Nat : n <= N => Replay(outcome, more)[n] = Replay(outcome, rows)[n]}
<1>1. 0 \in T
  BY ReplayTurn
<1>2. ASSUME NEW n \in T PROVE n + 1 \in T
  <2>1. SUFFICES ASSUME n + 1 <= N
                 PROVE  Replay(outcome, more)[n + 1] = Replay(outcome, rows)[n + 1]
    OBVIOUS
  <2>2. n + 1 \in 1..N /\ n + 1 \in 1..M /\ (n + 1) - 1 = n
    BY <2>1
  <2>3. Replay(outcome, more)[n + 1] =
          ApplyEvent(Replay(outcome, more)[n], RowAt(more, n + 1))
    BY <2>2, ReplayRow
  <2>4. Replay(outcome, rows)[n + 1] =
          ApplyEvent(Replay(outcome, rows)[n], RowAt(rows, n + 1))
    BY <2>2, ReplayRow
  <2>5. Replay(outcome, more)[n] = Replay(outcome, rows)[n]
    BY <2>1
  <2> QED
    BY <2>2, <2>3, <2>4, <2>5
<1>3. T = Nat
  <2> HIDE DEF T
  <2>1. T \subseteq Nat
    BY DEF T
  <2> QED
    BY <1>1, <1>2, <2>1, NatSetInduction
<1> QED
  BY <1>3

\* What a prefix replays to does not depend on the row appended after it: the
\* answer to a retried command can be recomputed for ever.
LEMMA ReplayPrefix ==
  ASSUME NEW outcome, NEW rows, NEW N \in Nat, Numbered(rows, N),
         NEW e, e.sequence_number = N + 1
  PROVE  \A n \in 0..N : Replay(outcome, rows \cup {e})[n] = Replay(outcome, rows)[n]
PROOF
<1>1. N + 1 \in Nat /\ N <= N + 1
  OBVIOUS
<1> QED
  BY <1>1, NumberedExtend, ReplayAgrees

\* The rows numbered k or less of a numbered history.
LEMMA NumberedCut ==
  ASSUME NEW rows, NEW N \in Nat, Numbered(rows, N), NEW k \in 0..N,
         NEW part, part = {e \in rows : e.sequence_number <= k}
  PROVE  /\ Numbered(part, k)
         /\ \A n \in 1..k : RowAt(part, n) = RowAt(rows, n)
PROOF
<1>1. Numbered(part, k)
  <2>1. \A n \in 1..k : n \in 1..N /\ n <= k
    OBVIOUS
  <2>2. \A n \in 1..N : n <= k => n \in 1..k
    OBVIOUS
  <2>3. \A n \in 1..k : \E e \in part : e.sequence_number = n
    BY <2>1 DEF Numbered
  <2>4. \A e \in part : e.sequence_number \in 1..k
    BY <2>2 DEF Numbered
  <2>5. {e.sequence_number : e \in part} = 1..k
    BY <2>3, <2>4
  <2> QED
    BY <2>5 DEF Numbered
<1>2. ASSUME NEW n \in 1..k PROVE RowAt(part, n) = RowAt(rows, n)
  <2>1. n \in 1..N /\ k \in Nat
    OBVIOUS
  <2>2. RowAt(part, n) \in rows /\ RowAt(part, n).sequence_number = n
    BY <1>1, <2>1, NumberedRow
  <2> QED
    BY <2>1, <2>2, NumberedRow
<1> QED
  BY <1>1, <1>2

-----------------------------------------------------------------------------
(* What a projection allows, and what applying a planned event makes of it. *)

\* A projection with nothing on its stack lets a command only push.
LEMMA StartAllows ==
  ASSUME NEW o \in Outcome, NEW command \in ControlCommand,
         LegalCommand(StartProjection(o), command)
  PROVE  /\ command \in {"pause", "record_demo_review"}
         /\ BaseControlState(o) # "AUTO_APPROVED"
         /\ command = "record_demo_review" => BaseControlState(o) = "AWAITING_REVIEW"
PROOF
<1>1. /\ StartProjection(o).active = <<>>
      /\ StartProjection(o).state = BaseControlState(o)
  BY DEF StartProjection
<1>2. command \notin {"resume", "undo"}
  BY <1>1 DEF LegalCommand
<1>3. command = "pause" \/ command = "record_demo_review"
  BY <1>2 DEF ControlCommand
<1>4. StartProjection(o).state \in AllowedStates[command]
  BY DEF LegalCommand
<1> QED
  BY <1>1, <1>3, <1>4 DEF AllowedStates

\* A pause or a review e, pushed on an empty stack: what it looks like.
LEMMA PushedShape ==
  ASSUME NEW o \in Outcome, NEW e, e.action \in ReversibleAction
  PROVE  LET p == Pushed(StartProjection(o), e)
         IN  /\ p.state = IF e.action = "CASE_PAUSED" THEN "PAUSED" ELSE "DEMO_REVIEWED"
             /\ p.active # <<>> /\ Len(p.active) = 1
             /\ LatestReversible(p) = [event_id    |-> e.event_id,
                                       action      |-> e.action,
                                       prior_state |-> BaseControlState(o)]
             /\ Popped(p) = StartProjection(o)
PROOF
<1> DEFINE top == [event_id    |-> e.event_id,
                   action      |-> e.action,
                   prior_state |-> BaseControlState(o)]
           p == Pushed(StartProjection(o), e)
<1>1. Append(<<>>, top) = <<top>>
  OBVIOUS
<1>2. p = [state  |-> IF e.action = "CASE_PAUSED" THEN "PAUSED" ELSE "DEMO_REVIEWED",
           active |-> <<top>>]
  BY <1>1 DEF Pushed, StartProjection
<1> HIDE DEF p, top
<1>3. Len(<<top>>) = 1 /\ <<top>>[1] = top /\ <<top>> # <<>> /\ SubSeq(<<top>>, 1, 0) = <<>>
  OBVIOUS
<1>4. LatestReversible(p) = top
  BY <1>2, <1>3 DEF LatestReversible
<1>5. Popped(p) = StartProjection(o)
  <2>1. SubSeq(p.active, 1, Len(p.active) - 1) = <<>>
    BY <1>2, <1>3
  <2>2. LatestReversible(p).prior_state = BaseControlState(o)
    BY <1>4 DEF top
  <2> QED
    BY <2>1, <2>2 DEF Popped, StartProjection
<1> QED
  BY <1>2, <1>3, <1>4, <1>5 DEF p, top

\* The start projection and a pushed one are never the mark of corrupt rows.
LEMMA NotCorrupt ==
  ASSUME NEW o \in Outcome
  PROVE  /\ BaseControlState(o) \in {"AUTO_APPROVED", "AWAITING_INPUT", "AWAITING_REVIEW"}
         /\ StartProjection(o) # Corrupt
         /\ \A e : e.action \in ReversibleAction => Pushed(StartProjection(o), e) # Corrupt
PROOF
<1>1. BaseControlState(o) \in {"AUTO_APPROVED", "AWAITING_INPUT", "AWAITING_REVIEW"}
  BY DEF BaseControlState
<1>2. StartProjection(o).state # Corrupt.state
  BY <1>1 DEF StartProjection, Corrupt
<1>3. ASSUME NEW e, e.action \in ReversibleAction
      PROVE  Pushed(StartProjection(o), e).state # Corrupt.state
  <2>1. Pushed(StartProjection(o), e).state \in {"PAUSED", "DEMO_REVIEWED"}
    BY <1>3, PushedShape
  <2> QED
    BY <2>1 DEF Corrupt
<1> QED
  BY <1>1, <1>2, <1>3

\* With a pause or review r on the stack a command can only reverse it, and every
\* such command but the resume of a review is legal.
LEMMA PushedAllows ==
  ASSUME NEW o \in Outcome, NEW r, r.action \in ReversibleAction,
         NEW command \in ControlCommand
  PROVE  LegalCommand(Pushed(StartProjection(o), r), command) <=>
           \/ command = "undo"
           \/ command = "resume" /\ r.action = "CASE_PAUSED"
PROOF
<1> DEFINE p == Pushed(StartProjection(o), r)
<1>1. /\ p.state = IF r.action = "CASE_PAUSED" THEN "PAUSED" ELSE "DEMO_REVIEWED"
      /\ p.active # <<>> /\ LatestReversible(p).action = r.action
  BY PushedShape
<1> HIDE DEF p
<1>2. CASE command = "pause"
  BY <1>1, <1>2 DEF LegalCommand, AllowedStates, p
<1>3. CASE command = "record_demo_review"
  BY <1>1, <1>3 DEF LegalCommand, AllowedStates, p
<1>4. CASE command = "undo"
  BY <1>1, <1>4 DEF LegalCommand, AllowedStates, p
<1>5. CASE command = "resume"
  BY <1>1, <1>5 DEF LegalCommand, AllowedStates, ReversibleAction, p
<1> QED
  BY <1>2, <1>3, <1>4, <1>5 DEF ControlCommand, p

\* Applying a pause or review pushes it.
LEMMA ApplyPush ==
  ASSUME NEW o \in Outcome, NEW e, e.action \in ReversibleAction
  PROVE  ApplyEvent(StartProjection(o), e) = Pushed(StartProjection(o), e)
PROOF
BY NotCorrupt DEF ApplyEvent, ControlAction

\* Applying a reversal right after pause or review r takes r back.
LEMMA ApplyPop ==
  ASSUME NEW o \in Outcome, NEW r, r.action \in ReversibleAction,
         NEW e, e.action \in ReversingAction,
         e.action = "CASE_RESUMED" => r.action = "CASE_PAUSED"
  PROVE  ApplyEvent(Pushed(StartProjection(o), r), e) = StartProjection(o)
PROOF
<1> DEFINE p == Pushed(StartProjection(o), r)
<1>1. /\ p.active # <<>> /\ LatestReversible(p).action = r.action
      /\ Popped(p) = StartProjection(o)
  BY PushedShape
<1>2. p # Corrupt
  BY NotCorrupt
<1>3. e.action \in ControlAction /\ e.action \notin ReversibleAction
  BY DEF ControlAction, ReversingAction, ReversibleAction
<1> HIDE DEF p
<1>4. CanPop(p, e)
  BY <1>1 DEF CanPop
<1>5. ApplyEvent(p, e) = Popped(p)
  BY <1>2, <1>3, <1>4 DEF ApplyEvent
<1> QED
  BY <1>1, <1>5 DEF p

\* A system event leaves the projection alone.
LEMMA ApplySystem ==
  ASSUME NEW p, NEW e, e.action \notin ControlAction
  PROVE  ApplyEvent(p, e) = p
PROOF
BY DEF ApplyEvent

-----------------------------------------------------------------------------
(* Legal histories. *)

\* The whole history has settled by its last row.
LEMMA HistorySettled ==
  ASSUME NEW o, NEW rows, NEW N \in Nat, LegalHistory(o, rows, N)
  PROVE  /\ N \in 1..N /\ N >= 3
         /\ MaxSequence(rows) = N
         /\ ReduceControlState(o, rows) = Replay(o, rows)[N]
         /\ ReduceControlState(o, rows) = SettledBy(o, RowAt(rows, N))
         /\ Replay(o, rows)[0] = StartProjection(o)
PROOF
<1>1. N \in 1..N /\ N >= 3
  BY DEF LegalHistory, RowKinds
<1>2. MaxSequence(rows) = N
  BY NumberedMax DEF LegalHistory
<1>3. ReduceControlState(o, rows) = Replay(o, rows)[N]
  BY <1>2 DEF ReduceControlState
<1>4. Replay(o, rows)[N] = SettledBy(o, RowAt(rows, N))
  BY <1>1 DEF LegalHistory, ReplayClosed
<1>5. Replay(o, rows)[0] = StartProjection(o)
  BY ReplayTurn
<1> QED
  BY <1>1, <1>2, <1>3, <1>4, <1>5

\* A legal command plans an event that continues the closed form: it pushes onto
\* an empty stack, or takes back the pause or review in the last row.
LEMMA PlannedEvent ==
  ASSUME NEW o \in Outcome, NEW rows, NEW N \in Nat, LegalHistory(o, rows, N),
         NEW command \in ControlCommand, LegalCommand(ReduceControlState(o, rows), command),
         NEW id, NEW e,
         e = ControlEvent(id, rows, PlanControlCommand(ReduceControlState(o, rows), command))
  PROVE  /\ e.event_id = id
         /\ e.sequence_number = N + 1
         /\ e.previous_event_id = RowAt(rows, N).event_id
         /\ e.action = PlannedAction[command] /\ e.action \in ControlAction
         /\ ApplyEvent(ReduceControlState(o, rows), e) = SettledBy(o, e)
         /\ e.prior_state = BaseControlState(o)
         /\ e.action \in ReversibleAction =>
              ReduceControlState(o, rows) = StartProjection(o) /\ e.target_event_id = NULL
         /\ e.action \in ReversingAction =>
              /\ RowAt(rows, N).action \in ReversibleAction
              /\ e.target_event_id = RowAt(rows, N).event_id
PROOF
<1> DEFINE p == ReduceControlState(o, rows)
           last == RowAt(rows, N)
<1>1. N \in 1..N /\ MaxSequence(rows) = N /\ p = SettledBy(o, last)
  BY HistorySettled
<1>2. last \in rows
  BY <1>1, NumberedRow DEF LegalHistory
<1>3. /\ e.event_id = id
      /\ e.sequence_number = N + 1
      /\ e.previous_event_id = last.event_id
      /\ e.action = PlannedAction[command]
      /\ e.prior_state = PlanControlCommand(p, command).prior_state
      /\ e.target_event_id = PlanControlCommand(p, command).target_event_id
  BY <1>1, <1>2 DEF ControlEvent, PlanControlCommand, NextSequence, PreviousEventId
<1>4. LegalCommand(p, command)
  OBVIOUS
<1> HIDE DEF p, last
<1>5. CASE last.action \notin ReversibleAction
  <2>1. p = StartProjection(o)
    BY <1>1, <1>5 DEF SettledBy
  <2>2. command \in {"pause", "record_demo_review"}
    BY <1>4, <2>1, StartAllows
  <2>3. /\ e.action \in ReversibleAction /\ e.action \notin ReversingAction
    BY <1>3, <2>2 DEF PlannedAction, ReversibleAction, ReversingAction
  <2>4. e.prior_state = BaseControlState(o) /\ e.target_event_id = NULL
    BY <1>3, <2>1, <2>2 DEF PlanControlCommand, StartProjection
  <2>5. ApplyEvent(p, e) = SettledBy(o, e)
    BY <2>1, <2>3, ApplyPush DEF SettledBy
  <2> QED
    BY <1>3, <2>1, <2>3, <2>4, <2>5 DEF ControlAction, p, last
<1>6. CASE last.action \in ReversibleAction
  <2>1. p = Pushed(StartProjection(o), last)
    BY <1>1, <1>6 DEF SettledBy
  <2>2. command = "undo" \/ (command = "resume" /\ last.action = "CASE_PAUSED")
    BY <1>4, <1>6, <2>1, PushedAllows
  <2>3. /\ e.action \in ReversingAction /\ e.action \notin ReversibleAction
        /\ e.action = "CASE_RESUMED" => last.action = "CASE_PAUSED"
    BY <1>3, <2>2 DEF PlannedAction, ReversibleAction, ReversingAction
  <2>4. /\ LatestReversible(p).prior_state = BaseControlState(o)
        /\ LatestReversible(p).event_id = last.event_id
    BY <1>6, <2>1, PushedShape
  <2>5. e.prior_state = BaseControlState(o) /\ e.target_event_id = last.event_id
    BY <1>3, <2>2, <2>4 DEF PlanControlCommand
  <2>6. ApplyEvent(p, e) = SettledBy(o, e)
    BY <1>6, <2>1, <2>3, ApplyPop DEF SettledBy
  <2> QED
    BY <1>3, <1>6, <2>3, <2>5, <2>6 DEF ControlAction, p, last
<1> QED
  BY <1>5, <1>6

\* The three system rows of a new trace are a legal history.
LEMMA LegalHistoryStarts ==
  ASSUME NEW o \in Outcome, NEW ids
  PROVE  /\ LegalHistory(o, SystemEvents(ids), 3)
         /\ ReduceControlState(o, SystemEvents(ids)) = StartProjection(o)
PROOF
<1> DEFINE rows == SystemEvents(ids)
           row(n) == [event_id          |-> ids[n],
                      sequence_number   |-> n,
                      previous_event_id |-> IF n = 1 THEN NULL ELSE ids[n - 1],
                      action            |-> SystemAction[n],
                      prior_state       |-> NULL,
                      target_event_id   |-> NULL]
<1>1. rows = {row(n) : n \in 1..3}
  BY DEF SystemEvents
<1>2. /\ \A n \in 1..3 : row(n).sequence_number = n
      /\ \A n \in 2..3 : row(n).previous_event_id = row(n - 1).event_id
      /\ row(1).previous_event_id = NULL
  OBVIOUS
<1>3. \A n \in 1..3 : row(n).action \notin ControlAction
  <2>1. \A n \in 1..3 : n = 1 \/ n = 2 \/ n = 3
    OBVIOUS
  <2> QED
    BY <2>1 DEF SystemAction, ControlAction, ReversibleAction, ReversingAction
<1> HIDE DEF rows, row
<1>4. Numbered(rows, 3)
  <2>1. \A e \in rows : \E n \in 1..3 : e = row(n) /\ e.sequence_number = n
    BY <1>1, <1>2
  <2>2. {e.sequence_number : e \in rows} = 1..3
    BY <1>1, <1>2, <2>1
  <2> QED
    BY <2>1, <2>2 DEF Numbered
<1>5. \A n \in 1..3 : RowAt(rows, n) = row(n)
  BY <1>1, <1>2, <1>4, NumberedRow
<1>6. Linked(rows, 3)
  <2> SUFFICES ASSUME NEW n \in 1..3
               PROVE  row(n).previous_event_id =
                        IF n = 1 THEN NULL ELSE RowAt(rows, n - 1).event_id
    BY <1>5 DEF Linked
  <2>1. n # 1 => n \in 2..3 /\ n - 1 \in 1..3
    OBVIOUS
  <2> QED
    BY <1>2, <1>5, <2>1
<1>7. RowKinds(rows, 3)
  BY <1>3, <1>5 DEF RowKinds
<1>8. \A n \in 0..3 : Replay(o, rows)[n] = StartProjection(o)
  <2>1. Replay(o, rows)[0] = StartProjection(o)
    BY ReplayTurn
  <2>2. ASSUME NEW n \in 1..3 PROVE Replay(o, rows)[n] = Replay(o, rows)[n - 1]
    <3>1. Replay(o, rows)[n] = ApplyEvent(Replay(o, rows)[n - 1], RowAt(rows, n))
      BY <1>4, ReplayRow
    <3> QED
      BY <1>3, <1>5, <3>1, ApplySystem
  <2>3. /\ Replay(o, rows)[1] = Replay(o, rows)[1 - 1]
        /\ Replay(o, rows)[2] = Replay(o, rows)[2 - 1]
        /\ Replay(o, rows)[3] = Replay(o, rows)[3 - 1]
    BY <2>2
  <2>4. 1 - 1 = 0 /\ 2 - 1 = 1 /\ 3 - 1 = 2
    OBVIOUS
  <2>5. \A n \in 0..3 : n = 0 \/ n = 1 \/ n = 2 \/ n = 3
    OBVIOUS
  <2> QED
    BY <2>1, <2>3, <2>4, <2>5
<1>9. ReplayClosed(o, rows, 3)
  <2>1. \A n \in 1..3 : SettledBy(o, row(n)) = StartProjection(o)
    BY <1>3 DEF SettledBy, ControlAction
  <2> QED
    BY <1>5, <1>8, <2>1 DEF ReplayClosed
<1>10. Alternating(o, rows, 3)
  BY DEF Alternating
<1>11. LegalHistory(o, rows, 3)
  BY <1>4, <1>6, <1>7, <1>9, <1>10 DEF LegalHistory
<1>12. ReduceControlState(o, rows) = StartProjection(o)
  BY <1>8, <1>11, HistorySettled
<1> QED
  BY <1>11, <1>12 DEF rows

\* A command keeps a history legal: the first rows keep their place and what they
\* replay to, and the new row continues the closed form.
LEMMA LegalHistoryGrows ==
  ASSUME NEW o \in Outcome, NEW rows, NEW N \in Nat, LegalHistory(o, rows, N),
         NEW command \in ControlCommand, LegalCommand(ReduceControlState(o, rows), command),
         NEW id, NEW e,
         e = ControlEvent(id, rows, PlanControlCommand(ReduceControlState(o, rows), command))
  PROVE  /\ LegalHistory(o, rows \cup {e}, N + 1)
         /\ ReduceControlState(o, rows \cup {e}) = SettledBy(o, e)
PROOF
<1> DEFINE more == rows \cup {e}
           S(n) == RowAt(rows, n)
           R(n) == RowAt(more, n)
           B(n) == Replay(o, rows)[n]
           A(n) == Replay(o, more)[n]
<1>1. /\ N \in 1..N /\ N >= 3 /\ Numbered(rows, N)
      /\ ReduceControlState(o, rows) = B(N)
  BY HistorySettled DEF LegalHistory
<1>2. /\ e.sequence_number = N + 1
      /\ e.previous_event_id = S(N).event_id
      /\ e.action \in ControlAction
      /\ ApplyEvent(B(N), e) = SettledBy(o, e)
      /\ e.prior_state = BaseControlState(o)
      /\ e.action \in ReversibleAction => B(N) = StartProjection(o)
      /\ e.action \in ReversingAction => /\ S(N).action \in ReversibleAction
                                       /\ e.target_event_id = S(N).event_id
  BY <1>1, PlannedEvent
<1>3. /\ Numbered(more, N + 1)
      /\ R(N + 1) = e
      /\ \A n \in 1..N : R(n) = S(n)
  BY <1>1, <1>2, NumberedExtend
<1>4. \A n \in 0..N : A(n) = B(n)
  BY <1>1, <1>2, ReplayPrefix
<1> HIDE DEF more
<1>5. A(N + 1) = SettledBy(o, e)
  <2>1. N + 1 \in 1..(N + 1) /\ N + 1 \in Nat /\ (N + 1) - 1 = N /\ N \in 0..N
    BY <1>1
  <2>2. A(N + 1) = ApplyEvent(A((N + 1) - 1), R(N + 1))
    BY <1>3, <2>1, ReplayRow
  <2>3. A((N + 1) - 1) = B(N) /\ R(N + 1) = e
    BY <1>3, <1>4, <2>1
  <2> QED
    BY <1>2, <2>2, <2>3
<1>6. \A n \in 1..(N + 1) : n \in 1..N \/ n = N + 1
  BY <1>1
<1>7. /\ \A n \in 1..N : S(n).previous_event_id = IF n = 1 THEN NULL ELSE S(n - 1).event_id
      /\ \A n \in 1..N : S(n).action \in ControlAction <=> n > 3
      /\ \A n \in 1..N : B(n) = SettledBy(o, S(n))
      /\ \A n \in 4..N :
           /\ S(n).prior_state = BaseControlState(o)
           /\ S(n).action \in ReversibleAction => B(n - 1) = StartProjection(o)
           /\ S(n).action \in ReversingAction =>
                /\ n - 1 \in 4..N
                /\ S(n - 1).action \in ReversibleAction
                /\ S(n).target_event_id = S(n - 1).event_id
  BY DEF LegalHistory, Linked, RowKinds, ReplayClosed, Alternating
<1> HIDE DEF R, A, S, B
<1>8. Linked(more, N + 1)
  <2>1. ASSUME NEW n \in 1..(N + 1)
        PROVE  R(n).previous_event_id = IF n = 1 THEN NULL ELSE R(n - 1).event_id
    <3>1. CASE n \in 1..N
      <4>1. n # 1 => n - 1 \in 1..N
        BY <1>1, <3>1
      <4> QED
        BY <1>3, <1>7, <3>1, <4>1
    <3>2. CASE n = N + 1
      <4>1. n # 1 /\ n - 1 = N /\ N \in 1..N
        BY <1>1, <3>2
      <4>2. R(n) = e /\ R(n - 1) = S(N)
        BY <1>3, <3>2, <4>1
      <4> QED
        BY <1>2, <4>1, <4>2
    <3> QED
      BY <1>6, <3>1, <3>2
  <2> QED
    BY <2>1 DEF Linked, R
<1>9. RowKinds(more, N + 1)
  <2>1. ASSUME NEW n \in 1..(N + 1)
        PROVE  R(n).action \in ControlAction <=> n > 3
    <3>1. CASE n \in 1..N
      BY <1>3, <1>7, <3>1
    <3>2. CASE n = N + 1
      <4>1. n > 3 /\ R(n) = e
        BY <1>1, <1>3, <3>2
      <4> QED
        BY <1>2, <4>1
    <3> QED
      BY <1>6, <3>1, <3>2
  <2>2. 3 <= N + 1
    BY <1>1
  <2> QED
    BY <2>1, <2>2 DEF RowKinds, R
<1>10. ReplayClosed(o, more, N + 1)
  <2>1. ASSUME NEW n \in 1..(N + 1) PROVE A(n) = SettledBy(o, R(n))
    <3>1. CASE n \in 1..N
      <4>1. n \in 0..N
        BY <1>1, <3>1
      <4> QED
        BY <1>3, <1>4, <1>7, <3>1, <4>1
    <3>2. CASE n = N + 1
      BY <1>3, <1>5, <3>2
    <3> QED
      BY <1>6, <3>1, <3>2
  <2> QED
    BY <2>1 DEF ReplayClosed, R, A
<1>11. Alternating(o, more, N + 1)
  <2>1. ASSUME NEW n \in 4..(N + 1)
        PROVE  /\ R(n).prior_state = BaseControlState(o)
               /\ R(n).action \in ReversibleAction => A(n - 1) = StartProjection(o)
               /\ R(n).action \in ReversingAction =>
                    /\ n - 1 \in 4..(N + 1)
                    /\ R(n - 1).action \in ReversibleAction
                    /\ R(n).target_event_id = R(n - 1).event_id
    <3>1. CASE n \in 1..N
      <4>1. n \in 4..N /\ n - 1 \in 0..N /\ n - 1 \in 1..N
        BY <1>1, <3>1
      <4>2. n - 1 \in 4..N => n - 1 \in 4..(N + 1)
        BY <1>1
      <4>3. R(n) = S(n) /\ R(n - 1) = S(n - 1) /\ A(n - 1) = B(n - 1)
        BY <1>3, <1>4, <3>1, <4>1
      <4> QED
        BY <1>7, <4>1, <4>2, <4>3
    <3>2. CASE n = N + 1
      <4>1. n - 1 = N /\ N \in 1..N /\ N \in 0..N
        BY <1>1, <3>2
      <4>2. S(N).action \in ReversibleAction => N \in 4..(N + 1)
        <5>1. S(N).action \in ControlAction <=> N > 3
          BY <1>7, <4>1
        <5> QED
          BY <1>1, <5>1 DEF ControlAction
      <4>3. R(n) = e /\ R(n - 1) = S(N) /\ A(n - 1) = B(N)
        BY <1>3, <1>4, <3>2, <4>1
      <4> QED
        BY <1>2, <4>1, <4>2, <4>3
    <3> QED
      BY <1>6, <3>1, <3>2
  <2> QED
    BY <2>1 DEF Alternating, R, A
<1>12. LegalHistory(o, more, N + 1)
  BY <1>3, <1>8, <1>9, <1>10, <1>11 DEF LegalHistory
<1>13. ReduceControlState(o, more) = A(N + 1)
  BY <1>1, <1>12, HistorySettled DEF A
<1> QED
  BY <1>5, <1>12, <1>13 DEF more

\* Each prefix replays to the start projection or to one pause or review on top
\* of it; the two disjuncts carry every property of the projections below.
LEMMA PrefixShape ==
  ASSUME NEW o, NEW rows, NEW N \in Nat, LegalHistory(o, rows, N), NEW n \in 0..N
  PROVE  \/ Replay(o, rows)[n] = StartProjection(o)
         \/ \E r : /\ r.action \in ReversibleAction
                   /\ Replay(o, rows)[n] = Pushed(StartProjection(o), r)
PROOF
<1>1. CASE n = 0
  BY <1>1, HistorySettled
<1>2. CASE n # 0
  <2>1. n \in 1..N
    BY <1>2
  <2>2. Replay(o, rows)[n] = SettledBy(o, RowAt(rows, n))
    BY <2>1 DEF LegalHistory, ReplayClosed
  <2> QED
    BY <2>2 DEF SettledBy
<1> QED
  BY <1>1, <1>2
\* A legal history cut off after row k is one too, and its rows and projections
\* are those of the whole.
LEMMA LegalHistoryCut ==
  ASSUME NEW o, NEW rows, NEW N \in Nat, LegalHistory(o, rows, N), NEW k \in 3..N,
         NEW part, part = {e \in rows : e.sequence_number <= k}
  PROVE  /\ LegalHistory(o, part, k)
         /\ \A n \in 1..k : RowAt(part, n) = RowAt(rows, n)
         /\ \A n \in 0..k : Replay(o, part)[n] = Replay(o, rows)[n]
PROOF
<1>1. Numbered(rows, N) /\ k \in Nat /\ k \in 0..N /\ k <= N
  BY DEF LegalHistory
<1>2. /\ Numbered(part, k)
      /\ \A n \in 1..k : RowAt(part, n) = RowAt(rows, n)
  BY <1>1, NumberedCut
<1>3. \A n \in 0..k : Replay(o, part)[n] = Replay(o, rows)[n]
  <2>1. \A n \in 1..k : RowAt(rows, n) = RowAt(part, n)
    BY <1>2
  <2> QED
    BY <1>1, <1>2, <2>1, ReplayAgrees
<1>4. \A n \in 1..k : n \in 1..N /\ n \in 0..k /\ (n # 1 => n - 1 \in 1..k)
  BY <1>1
<1>5. Linked(part, k)
  <2>1. \A n \in 1..k : RowAt(rows, n).previous_event_id =
                           IF n = 1 THEN NULL ELSE RowAt(rows, n - 1).event_id
    BY <1>4 DEF LegalHistory, Linked
  <2> QED
    BY <1>2, <1>4, <2>1 DEF Linked
<1>6. RowKinds(part, k)
  BY <1>2, <1>4 DEF LegalHistory, RowKinds
<1>7. ReplayClosed(o, part, k)
  <2>1. \A n \in 1..k : Replay(o, rows)[n] = SettledBy(o, RowAt(rows, n))
    BY <1>4 DEF LegalHistory, ReplayClosed
  <2> QED
    BY <1>2, <1>3, <1>4, <2>1 DEF ReplayClosed
<1>8. Alternating(o, part, k)
  <2> SUFFICES ASSUME NEW n \in 4..k
               PROVE  LET e == RowAt(part, n) IN
                      /\ e.prior_state = BaseControlState(o)
                      /\ e.action \in ReversibleAction =>
                           Replay(o, part)[n - 1] = StartProjection(o)
                      /\ e.action \in ReversingAction =>
                           /\ n - 1 \in 4..k
                           /\ RowAt(part, n - 1).action \in ReversibleAction
                           /\ e.target_event_id = RowAt(part, n - 1).event_id
    BY DEF Alternating
  <2>1. /\ n \in 4..N /\ n \in 1..k /\ n - 1 \in 1..k /\ n - 1 \in 0..k
        /\ n - 1 \in 4..N => n - 1 \in 4..k
    BY <1>1
  <2>2. /\ RowAt(rows, n).prior_state = BaseControlState(o)
        /\ RowAt(rows, n).action \in ReversibleAction =>
             Replay(o, rows)[n - 1] = StartProjection(o)
        /\ RowAt(rows, n).action \in ReversingAction =>
             /\ n - 1 \in 4..N
             /\ RowAt(rows, n - 1).action \in ReversibleAction
             /\ RowAt(rows, n).target_event_id = RowAt(rows, n - 1).event_id
    BY <2>1 DEF LegalHistory, Alternating
  <2>3. /\ RowAt(part, n) = RowAt(rows, n) /\ RowAt(part, n - 1) = RowAt(rows, n - 1)
        /\ Replay(o, part)[n - 1] = Replay(o, rows)[n - 1]
    BY <1>2, <1>3, <2>1
  <2> QED
    BY <2>1, <2>2, <2>3
<1> QED
  BY <1>2, <1>3, <1>5, <1>6, <1>7, <1>8 DEF LegalHistory
=============================================================================
