------------------------ MODULE RepairDialogueProofs ------------------------
(***************************************************************************)
(* What the question loop decides, for every set of amounts.  The evaluator*)
(* and the contract each name the least missing fact of a list; both are   *)
(* shown to be the same nested choice, First, which normalization leaves   *)
(* alone.  The invariant that carries the results: what the client holds   *)
(* is a submission, and its last answer is the decision on that submission.*)
(***************************************************************************)
EXTENDS RepairDialogue, TLAPS

\* The least member of a set of integers is its only member below all others.
LEMMA MinIs ==
  ASSUME NEW S \in SUBSET Int, NEW i \in S, \A j \in S : i <= j
  PROVE  Min(S) = i
  <1>1. Min(S) \in S /\ \A j \in S : Min(S) <= j
    BY DEF Min
  <1>2. i <= Min(S) /\ Min(S) <= i /\ Min(S) \in Int /\ i \in Int
    BY <1>1
  <1> QED
    BY <1>2

\* The first fact of the fixed order that s lacks.
First(s) ==
  IF IsMissing(s.purpose) THEN "purpose"
  ELSE IF IsMissing(s.requester_role) THEN "requester_role"
  ELSE IF s.expense = NULL THEN "expense"
  ELSE IF IsMissing(s.expense.category) THEN "expense.category"
  ELSE IF IsMissing(s.expense.description) THEN "expense.description"
  ELSE IF IsMissing(s.expense.amount_vnd) THEN "expense.amount_vnd"
  ELSE IF IsMissing(s.expense.expense_date) THEN "expense.expense_date"
  ELSE IF IsMissing(s.expense.evidence_status) THEN "expense.evidence_status"
  ELSE NULL

\* The facts of a case, one after the other.
Facts(case) ==
  RequestFacts(case) \o
  IF case.expense = NULL THEN <<[path |-> "expense", value |-> NULL]>>
  ELSE ExpenseFacts(case.expense)

LEMMA FactsWithout ==
  ASSUME NEW case, case.expense = NULL
  PROVE  LET f == Facts(case)
         IN  /\ DOMAIN f = 1 .. 3
             /\ f[1].path = "purpose" /\ f[1].value = case.purpose
             /\ f[2].path = "requester_role" /\ f[2].value = case.requester_role
             /\ f[3].path = "expense" /\ f[3].value = NULL
  BY DEF Facts, RequestFacts

LEMMA FactsWith ==
  ASSUME NEW case, case.expense # NULL
  PROVE  LET f == Facts(case)
             e == case.expense
         IN  /\ DOMAIN f = 1 .. 7
             /\ f[1].path = "purpose" /\ f[1].value = case.purpose
             /\ f[2].path = "requester_role" /\ f[2].value = case.requester_role
             /\ f[3].path = "expense.category" /\ f[3].value = e.category
             /\ f[4].path = "expense.description" /\ f[4].value = e.description
             /\ f[5].path = "expense.amount_vnd" /\ f[5].value = e.amount_vnd
             /\ f[6].path = "expense.expense_date" /\ f[6].value = e.expense_date
             /\ f[7].path = "expense.evidence_status" /\ f[7].value = e.evidence_status
  <1> DEFINE r == RequestFacts(case)
             x == ExpenseFacts(case.expense)
             f == Facts(case)
  <1>1. /\ f[1] = r[1] /\ f[2] = r[2] /\ f[3] = x[1] /\ f[4] = x[2] /\ f[5] = x[3]
        /\ f[6] = x[4] /\ f[7] = x[5] /\ DOMAIN f = 1 .. 7
    BY DEF Facts, RequestFacts, ExpenseFacts
  <1>2. /\ r[1].path = "purpose" /\ r[1].value = case.purpose
        /\ r[2].path = "requester_role" /\ r[2].value = case.requester_role
    BY DEF RequestFacts
  <1>3. /\ x[1].path = "expense.category" /\ x[1].value = case.expense.category
        /\ x[2].path = "expense.description" /\ x[2].value = case.expense.description
        /\ x[3].path = "expense.amount_vnd" /\ x[3].value = case.expense.amount_vnd
        /\ x[4].path = "expense.expense_date" /\ x[4].value = case.expense.expense_date
        /\ x[5].path = "expense.evidence_status" /\ x[5].value = case.expense.evidence_status
    BY DEF ExpenseFacts
  <1> HIDE DEF r, x, f
  <1>4. f = Facts(case)
    BY DEF f
  <1> QED
    BY <1>1, <1>2, <1>3, <1>4

\* The evaluator's choice, in terms of one missing fact and those before it.
LEMMA FirstAt ==
  ASSUME NEW case, NEW i \in DOMAIN Facts(case), DOMAIN Facts(case) \subseteq Int,
         IsMissing(Facts(case)[i].value),
         \A j \in DOMAIN Facts(case) : IsMissing(Facts(case)[j].value) => i <= j
  PROVE  FirstMissingFact(case) = Facts(case)[i].path
  <1> DEFINE missing == {j \in DOMAIN Facts(case) : IsMissing(Facts(case)[j].value)}
  <1>1. Min(missing) = i
    BY MinIs
  <1>2. FirstMissingFact(case) = IF missing = {} THEN NULL ELSE Facts(case)[Min(missing)].path
    BY DEF FirstMissingFact, Facts
  <1> QED
    BY <1>1, <1>2

LEMMA FirstNone ==
  ASSUME NEW case, \A j \in DOMAIN Facts(case) : ~ IsMissing(Facts(case)[j].value)
  PROVE  FirstMissingFact(case) = NULL
  BY DEF FirstMissingFact, Facts

\* The evaluator asks for the first fact that is lacking.
LEMMA FirstMissingFactIs ==
  ASSUME NEW case
  PROVE  FirstMissingFact(case) = First(case)
  <1>1. CASE case.expense = NULL
    <2> DEFINE f == Facts(case)
    <2>1. /\ DOMAIN f = {1, 2, 3}
          /\ f[1].path = "purpose" /\ f[1].value = case.purpose
          /\ f[2].path = "requester_role" /\ f[2].value = case.requester_role
          /\ f[3].path = "expense" /\ f[3].value = NULL
      BY <1>1, FactsWithout
    <2> HIDE DEF f
    <2>2. IsMissing(f[3].value)
      BY <2>1 DEF IsMissing
    <2>3. CASE IsMissing(case.purpose)
      BY <2>1, <2>3, FirstAt DEF f, First
    <2>4. CASE ~ IsMissing(case.purpose) /\ IsMissing(case.requester_role)
      BY <2>1, <2>4, FirstAt DEF f, First
    <2>5. CASE ~ IsMissing(case.purpose) /\ ~ IsMissing(case.requester_role)
      BY <1>1, <2>1, <2>2, <2>5, FirstAt DEF f, First
    <2> QED
      BY <2>3, <2>4, <2>5
  <1>2. CASE case.expense # NULL
    <2> DEFINE f == Facts(case)
               e == case.expense
               M(i) == IsMissing(f[i].value)
    <2>1. /\ DOMAIN f = 1 .. 7
          /\ f[1].path = "purpose" /\ f[1].value = case.purpose
          /\ f[2].path = "requester_role" /\ f[2].value = case.requester_role
          /\ f[3].path = "expense.category" /\ f[3].value = e.category
          /\ f[4].path = "expense.description" /\ f[4].value = e.description
          /\ f[5].path = "expense.amount_vnd" /\ f[5].value = e.amount_vnd
          /\ f[6].path = "expense.expense_date" /\ f[6].value = e.expense_date
          /\ f[7].path = "expense.evidence_status" /\ f[7].value = e.evidence_status
      BY <1>2, FactsWith
    <2>2. First(case) = IF M(1) THEN f[1].path ELSE IF M(2) THEN f[2].path
                        ELSE IF M(3) THEN f[3].path ELSE IF M(4) THEN f[4].path
                        ELSE IF M(5) THEN f[5].path ELSE IF M(6) THEN f[6].path
                        ELSE IF M(7) THEN f[7].path ELSE NULL
      BY <1>2, <2>1 DEF First
    <2>3. ASSUME NEW i \in 1 .. 7, M(i), \A j \in 1 .. 7 : M(j) => i <= j
          PROVE  FirstMissingFact(case) = f[i].path
      BY <2>1, <2>3, FirstAt
    <2>4. ASSUME \A j \in 1 .. 7 : ~ M(j)
          PROVE  FirstMissingFact(case) = NULL
      BY <2>1, <2>4, FirstNone
    <2> HIDE DEF f, M
    <2> QED
      BY <2>2, <2>3, <2>4
  <1> QED
    BY <1>1, <1>2

-----------------------------------------------------------------------------
(* The contract's order. *)

\* The eight facts, at their places.
LEMMA FactAt ==
  /\ DOMAIN FactOrder = 1 .. 8
  /\ FactOrder[1] = "purpose" /\ FactOrder[2] = "requester_role"
  /\ FactOrder[3] = "expense" /\ FactOrder[4] = "expense.category"
  /\ FactOrder[5] = "expense.description" /\ FactOrder[6] = "expense.amount_vnd"
  /\ FactOrder[7] = "expense.expense_date" /\ FactOrder[8] = "expense.evidence_status"
  BY DEF FactOrder

Lacking(s) == {i \in DOMAIN FactOrder : Lacks(s, FactOrder[i])}

\* A submission's texts and tokens: what lacks in the contract is what is
\* missing to the evaluator.
LEMMA LacksIsMissing ==
  ASSUME NEW s \in Submission
  PROVE  /\ Lacks(s, "purpose") <=> IsMissing(s.purpose)
         /\ Lacks(s, "requester_role") <=> IsMissing(s.requester_role)
         /\ Lacks(s, "expense") <=> s.expense = NULL
         /\ s.expense # NULL =>
              /\ Lacks(s, "expense.category") <=> IsMissing(s.expense.category)
              /\ Lacks(s, "expense.description") <=> IsMissing(s.expense.description)
              /\ Lacks(s, "expense.amount_vnd") <=> IsMissing(s.expense.amount_vnd)
              /\ Lacks(s, "expense.expense_date") <=> IsMissing(s.expense.expense_date)
              /\ Lacks(s, "expense.evidence_status") <=> IsMissing(s.expense.evidence_status)
  <1>1. /\ Lacks(s, "purpose") <=> IsMissing(s.purpose)
        /\ Lacks(s, "requester_role") <=> IsMissing(s.requester_role)
        /\ Lacks(s, "expense") <=> s.expense = NULL
    BY DEF Lacks, IsMissing
  <1>2. ASSUME s.expense # NULL
        PROVE  /\ Lacks(s, "expense.category") <=> IsMissing(s.expense.category)
               /\ Lacks(s, "expense.description") <=> IsMissing(s.expense.description)
               /\ Lacks(s, "expense.amount_vnd") <=> IsMissing(s.expense.amount_vnd)
               /\ Lacks(s, "expense.expense_date") <=> IsMissing(s.expense.expense_date)
               /\ Lacks(s, "expense.evidence_status") <=> IsMissing(s.expense.evidence_status)
    <2>1. s.expense \in Expense
      BY <1>2 DEF Submission
    <2>2. /\ Blank # s.expense.category /\ Blank # s.expense.amount_vnd
          /\ Blank # s.expense.expense_date /\ Blank # s.expense.evidence_status
      BY <2>1, AmountsAssumption, AbsenceAssumption DEF Expense
    <2> QED
      BY <1>2, <2>2 DEF Lacks, IsMissing
  <1> QED
    BY <1>1, <1>2

\* No path is None, and each has a question.
LEMMA PathsAreValues ==
  ASSUME NEW i \in 1 .. 8
  PROVE  FactOrder[i] # NULL /\ QuestionFor(FactOrder[i]) = FactOrder[i]
  <1>1. QuestionPaths = {"purpose", "expense.category", "expense.description",
                         "expense.amount_vnd", "expense.expense_date",
                         "expense.evidence_status", "requester_role", "expense"}
    <2>1. DOMAIN MissingFieldPaths = {1, 2, 3, 4, 5, 6}
      BY DEF MissingFieldPaths
    <2>2. /\ MissingFieldPaths[1] = "purpose" /\ MissingFieldPaths[2] = "expense.category"
          /\ MissingFieldPaths[3] = "expense.description"
          /\ MissingFieldPaths[4] = "expense.amount_vnd"
          /\ MissingFieldPaths[5] = "expense.expense_date"
          /\ MissingFieldPaths[6] = "expense.evidence_status"
      BY DEF MissingFieldPaths
    <2> QED
      BY <2>1, <2>2 DEF QuestionPaths, EvaluatorOnlyPaths
  <1>2. FactOrder[i] \in QuestionPaths
    BY <1>1, FactAt
  <1> QED
    BY <1>2, AbsenceAssumption DEF QuestionFor

\* The contract's least lacking fact is the evaluator's.
LEMMA LackingIs ==
  ASSUME NEW s \in Submission
  PROVE  /\ Lacking(s) = {} <=> First(s) = NULL
         /\ Lacking(s) # {} => FactOrder[Min(Lacking(s))] = First(s)
  <1> DEFINE L(i) == Lacks(s, FactOrder[i])
             p(i) == FactOrder[i]
  <1>1. First(s) = IF L(1) THEN p(1) ELSE IF L(2) THEN p(2) ELSE IF L(3) THEN p(3)
                   ELSE IF L(4) THEN p(4) ELSE IF L(5) THEN p(5) ELSE IF L(6) THEN p(6)
                   ELSE IF L(7) THEN p(7) ELSE IF L(8) THEN p(8) ELSE NULL
    BY FactAt, LacksIsMissing DEF First
  <1>2. \A i \in 1 .. 8 : p(i) # NULL
    BY FactAt, PathsAreValues DEF p
  <1>3. Lacking(s) = {i \in 1 .. 8 : L(i)}
    BY FactAt DEF Lacking
  <1>4. ASSUME NEW i \in 1 .. 8, L(i), \A j \in 1 .. 8 : L(j) => i <= j
        PROVE  Lacking(s) # {} /\ FactOrder[Min(Lacking(s))] = p(i)
    <2>1. Min(Lacking(s)) = i
      BY <1>3, <1>4, MinIs
    <2> QED
      BY <1>3, <1>4, <2>1
  <1>5. ASSUME \A j \in 1 .. 8 : ~ L(j)
        PROVE  Lacking(s) = {}
    BY <1>3, <1>5
  <1> HIDE DEF L, p
  <1> QED
    BY <1>1, <1>2, <1>4, <1>5

-----------------------------------------------------------------------------
(* Normalization. *)

\* Layer 1 empties blank texts and touches nothing else.
LEMMA Normalized ==
  ASSUME NEW s \in Submission
  PROVE  LET n == NormalizeCase(s)
         IN  /\ n \in Submission
             /\ n.case_id = s.case_id /\ n.requester_role = s.requester_role
             /\ n.purpose = BlankToNone(s.purpose)
             /\ n.expense = NULL <=> s.expense = NULL
             /\ s.expense # NULL =>
                  /\ n.expense.category = s.expense.category
                  /\ n.expense.description = BlankToNone(s.expense.description)
                  /\ n.expense.amount_vnd = s.expense.amount_vnd
                  /\ n.expense.expense_date = s.expense.expense_date
                  /\ n.expense.evidence_status = s.expense.evidence_status
  <1> DEFINE n == NormalizeCase(s)
  <1>1. /\ s.purpose \in Text /\ s.case_id \in {Blank, "text"} /\ s.requester_role \in Text
        /\ s.expense \in Expense \cup {NULL}
    BY DEF Submission
  <1>2. BlankToNone(s.purpose) \in Text
    BY <1>1 DEF BlankToNone, Text
  <1>3. CASE s.expense = NULL
    <2>1. /\ n.case_id = s.case_id /\ n.requester_role = s.requester_role
          /\ n.purpose = BlankToNone(s.purpose) /\ n.expense = NULL
      BY <1>3 DEF NormalizeCase, Submission
    <2>2. n \in Submission
      BY <1>1, <1>2, <1>3 DEF NormalizeCase, Submission
    <2> QED
      BY <1>3, <2>1, <2>2
  <1>4. CASE s.expense # NULL
    <2> DEFINE x == NormalizeExpense(s.expense)
    <2>1. s.expense \in Expense
      BY <1>1, <1>4
    <2>2. BlankToNone(s.expense.description) \in Text
      BY <2>1 DEF Expense, BlankToNone, Text
    <2>3. /\ x \in Expense
          /\ x.category = s.expense.category
          /\ x.description = BlankToNone(s.expense.description)
          /\ x.amount_vnd = s.expense.amount_vnd
          /\ x.expense_date = s.expense.expense_date
          /\ x.evidence_status = s.expense.evidence_status
      BY <2>1, <2>2 DEF Expense, NormalizeExpense
    <2>4. n = [s EXCEPT !.purpose = BlankToNone(@), !.expense = x]
      BY <1>4 DEF NormalizeCase
    <2>5. x # NULL
      BY <2>3, AbsenceAssumption
    <2> HIDE DEF x, n
    <2>6. /\ n.case_id = s.case_id /\ n.requester_role = s.requester_role
          /\ n.purpose = BlankToNone(s.purpose) /\ n.expense = x
      BY <2>4 DEF Submission
    <2>7. n \in Submission
      BY <1>1, <1>2, <2>3, <2>4 DEF Submission
    <2> QED
      BY <1>4, <2>3, <2>5, <2>6, <2>7 DEF n
  <1> QED
    BY <1>3, <1>4

\* A blank text is lacking as much as an absent one.
LEMMA BlankIsMissing ==
  ASSUME NEW v
  PROVE  /\ IsMissing(BlankToNone(v)) <=> IsMissing(v)
         /\ BlankToNone(BlankToNone(v)) = BlankToNone(v)
  BY AbsenceAssumption DEF IsMissing, BlankToNone

LEMMA FirstNormalized ==
  ASSUME NEW s \in Submission
  PROVE  First(NormalizeCase(s)) = First(s)
  <1> DEFINE n == NormalizeCase(s)
  <1>1. /\ IsMissing(n.purpose) <=> IsMissing(s.purpose)
        /\ n.requester_role = s.requester_role
        /\ n.expense = NULL <=> s.expense = NULL
    BY Normalized, BlankIsMissing
  <1>2. s.expense # NULL =>
          /\ n.expense.category = s.expense.category
          /\ IsMissing(n.expense.description) <=> IsMissing(s.expense.description)
          /\ n.expense.amount_vnd = s.expense.amount_vnd
          /\ n.expense.expense_date = s.expense.expense_date
          /\ n.expense.evidence_status = s.expense.evidence_status
    BY Normalized, BlankIsMissing
  <1> HIDE DEF n
  <1>3. First(n) = First(s)
    BY <1>1, <1>2 DEF First
  <1> QED
    BY <1>3 DEF n

\* A case without a missing fact has an expense.
LEMMA CompleteHasExpense ==
  ASSUME NEW s, First(s) = NULL
  PROVE  s.expense # NULL
  BY FactAt, PathsAreValues DEF First

LEMMA NormalizedTwice ==
  ASSUME NEW s \in Submission
  PROVE  NormalizeCase(NormalizeCase(s)) = NormalizeCase(s)
  <1> DEFINE n == NormalizeCase(s)
  <1>1. /\ n \in Submission /\ BlankToNone(n.purpose) = n.purpose
        /\ n.expense = NULL <=> s.expense = NULL
    BY Normalized, BlankIsMissing
  <1>2. CASE s.expense = NULL
    <2>1. NormalizeCase(n) = [n EXCEPT !.purpose = n.purpose, !.expense = n.expense]
      BY <1>1, <1>2 DEF NormalizeCase
    <2> QED
      BY <1>1, <2>1 DEF Submission
  <1>3. CASE s.expense # NULL
    <2>1. n.expense \in Expense
      BY <1>1, <1>3 DEF Submission
    <2>2. BlankToNone(n.expense.description) = n.expense.description
      BY <1>3, Normalized, BlankIsMissing
    <2>3. NormalizeExpense(n.expense) = n.expense
      BY <2>1, <2>2 DEF Expense, NormalizeExpense
    <2>4. NormalizeCase(n) = [n EXCEPT !.purpose = n.purpose, !.expense = n.expense]
      BY <1>1, <1>3, <2>3 DEF NormalizeCase
    <2> QED
      BY <1>1, <2>4 DEF Submission
  <1> QED
    BY <1>2, <1>3

\* Layer 2 decides the submission and its normalized form alike.
LEMMA SameDecision ==
  ASSUME NEW s \in Submission
  PROVE  EvaluateCase(s, TmpDev001Profile) = EvaluateCase(NormalizeCase(s), TmpDev001Profile)
  <1> DEFINE n == NormalizeCase(s)
  <1>1. FirstMissingFact(n) = First(s) /\ FirstMissingFact(s) = First(s)
    BY FirstMissingFactIs, FirstNormalized
  <1>2. First(s) = NULL =>
          /\ n.expense.category = s.expense.category
          /\ n.expense.amount_vnd = s.expense.amount_vnd
          /\ n.expense.evidence_status = s.expense.evidence_status
    BY CompleteHasExpense, Normalized
  <1> HIDE DEF n
  <1>3. EvaluateCase(s, TmpDev001Profile) = EvaluateCase(n, TmpDev001Profile)
    BY <1>1, <1>2 DEF EvaluateCase
  <1> QED
    BY <1>3 DEF n

-----------------------------------------------------------------------------
(* The question loop. *)

\* The client always holds a submission, and the last answer is about it.
Inv ==
  /\ submission \in Submission
  /\ decision = NULL \/ decision = Decide(submission)

\* A question about one part of the expense is put to a case that has one, so
\* that the client who answers it holds a submission again.
LEMMA AnswerIsSubmission ==
  ASSUME NEW s \in Submission, Decide(s).outcome = "MISSING_FACT",
         NEW t \in Supplied(s, Decide(s).question)
  PROVE  t \in Submission
  <1> DEFINE n == NormalizeCase(s)
             q == Decide(s).question
  <1>1. Decide(s) = EvaluateCase(s, TmpDev001Profile)
    BY SameDecision DEF Decide, Invalid, Draft
  <1>2. FirstMissingFact(s) = First(s)
    BY FirstMissingFactIs
  <1>3. s.expense # NULL \/ q \in {"purpose", "requester_role", "expense"}
    <2>1. CASE First(s) = NULL
      BY <2>1, CompleteHasExpense
    <2>2. CASE First(s) # NULL
      <3>1. q = QuestionFor(First(s))
        BY <1>1, <1>2, <2>2 DEF EvaluateCase, Draft
      <3>2. First(s) \in {FactOrder[i] : i \in 1 .. 8}
        BY <2>2, FactAt DEF First
      <3>3. q = First(s)
        BY <3>1, <3>2, PathsAreValues
      <3> QED
        BY <3>3 DEF First
    <2> QED
      BY <2>1, <2>2
  <1> HIDE DEF q
  <1>4. /\ s.requester_role \in Text /\ s.purpose \in Text
        /\ s.expense \in Expense \cup {NULL}
    BY DEF Submission
  <1>5. CASE q = "purpose"
    BY <1>5 DEF q, Supplied, Submission, Text
  <1>6. CASE q = "requester_role"
    BY <1>6 DEF q, Supplied, Submission, Text
  <1>7. CASE q = "expense"
    BY <1>7 DEF q, Supplied, Submission
  <1>8. CASE q = "expense.category"
    BY <1>3, <1>4, <1>8 DEF q, Supplied, Submission, Expense
  <1>9. CASE q = "expense.description"
    BY <1>3, <1>4, <1>9 DEF q, Supplied, Submission, Expense, Text
  <1>10. CASE q = "expense.amount_vnd"
    BY <1>3, <1>4, <1>10 DEF q, Supplied, Submission, Expense
  <1>11. CASE q = "expense.expense_date"
    BY <1>3, <1>4, <1>11 DEF q, Supplied, Submission, Expense
  <1>12. CASE q = "expense.evidence_status"
    BY <1>3, <1>4, <1>12 DEF q, Supplied, Submission, Expense
  <1>13. CASE q = "proof"
    BY <1>3, <1>4, <1>13 DEF q, Supplied, Submission, Expense
  <1>14. CASE q \notin {"purpose", "requester_role", "expense", "expense.category",
                        "expense.description", "expense.amount_vnd",
                        "expense.expense_date", "expense.evidence_status", "proof"}
    BY <1>14 DEF q, Supplied
  <1> QED
    BY <1>5, <1>6, <1>7, <1>8, <1>9, <1>10, <1>11, <1>12, <1>13, <1>14

\* The invariant of the loop holds in every reachable state.
THEOREM DialogueInvariant == Spec => []Inv
  <1>1. Init => Inv
    BY DEF Init, Inv
  <1>2. Inv /\ [Next]_vars => Inv'
    <2> SUFFICES ASSUME Inv, [Next]_vars
                 PROVE  Inv'
      OBVIOUS
    <2>1. CASE Submit
      BY <2>1 DEF Submit, Inv
    <2>2. CASE Answer
      <3>1. decision = Decide(submission)
        BY <2>2 DEF Answer, Inv
      <3>2. submission' \in Submission
        BY <2>2, <3>1, AnswerIsSubmission DEF Answer, Inv
      <3> QED
        BY <2>2, <3>2 DEF Answer, Inv
    <2>3. CASE UNCHANGED vars
      BY <2>3 DEF vars, Inv
    <2> QED
      BY <2>1, <2>2, <2>3 DEF Next
  <1> QED
    BY <1>1, <1>2, PTL DEF Spec

\* The two snapshots that are stored with a trace decide alike, and a second
\* normalization is idle: every case the dialogue reaches, for all amounts.
THEOREM SnapshotsDecideAlike == Spec => []NormalizationNeutral
  <1>1. Inv => NormalizationNeutral
    BY NormalizedTwice, SameDecision DEF Inv, NormalizationNeutral
  <1> QED
    BY <1>1, DialogueInvariant, PTL

\* The evaluator's answer is the contract's: the first lacking fact in the fixed
\* order, and otherwise category before evidence before limit.
THEOREM DecisionsFollowContract == Spec => []DecisionFollowsContract
  <1>1. Inv => DecisionFollowsContract
    <2> SUFFICES ASSUME Inv, decision # NULL, decision # Invalid
                 PROVE  IF Lacking(submission) # {}
                        THEN decision = Draft("MISSING_FACT", "TMP-REQ-01",
                                              FactOrder[Min(Lacking(submission))])
                        ELSE LET met == Applicable(submission)
                             IN  decision.outcome =
                                   IF "category" \in met THEN "OUT_OF_POLICY"
                                   ELSE IF "evidence" \in met THEN "MISSING_FACT"
                                   ELSE IF "limit" \in met THEN "AUTHORITY_EXCEEDED"
                                   ELSE "AUTO_APPROVED"
      BY DEF DecisionFollowsContract, Lacking
    <2>1. submission \in Submission /\ decision = EvaluateCase(submission, TmpDev001Profile)
      BY SameDecision DEF Inv, Decide
    <2>2. FirstMissingFact(submission) = First(submission)
      BY FirstMissingFactIs
    <2>3. CASE Lacking(submission) # {}
      <3>1. First(submission) = FactOrder[Min(Lacking(submission))] /\ First(submission) # NULL
        BY <2>1, <2>3, LackingIs
      <3>2. First(submission) \in {FactOrder[i] : i \in 1 .. 8}
        BY <3>1, FactAt DEF First
      <3>3. QuestionFor(First(submission)) = First(submission)
        BY <3>2, PathsAreValues
      <3> QED
        BY <2>1, <2>2, <2>3, <3>1, <3>3 DEF EvaluateCase
    <2>4. CASE Lacking(submission) = {}
      <3>1. First(submission) = NULL
        BY <2>1, <2>4, LackingIs
      <3> QED
        BY <2>1, <2>2, <2>4, <3>1 DEF EvaluateCase, Draft, TmpDev001Profile, Applicable
    <2> QED
      BY <2>3, <2>4
  <1> QED
    BY <1>1, DialogueInvariant, PTL
=============================================================================
