--------------------------- MODULE RepairDialogue ---------------------------
(***************************************************************************)
(* The question loop the policy layer is built for: a client submits a     *)
(* case, is told which fact is missing, and submits it again with that one *)
(* fact supplied (under a new case_id: stored traces never change).  The   *)
(* service's part is validation, normalization and evaluation; the client  *)
(* is any that answers exactly what it was asked.                          *)
(***************************************************************************)
EXTENDS Policy

VARIABLES submission,        \* what the client holds and sends
          decision           \* the draft it was last answered, NULL while it waits

vars == <<submission, decision>>

Invalid == Draft("INPUT_INVALID", NULL, NULL)      \* the 422 answer

Init == submission \in Submission /\ decision = NULL

\* create_trace up to the database: validate, normalize, evaluate.
Decide(s) ==
  IF ValidSubmission(s) THEN EvaluateCase(NormalizeCase(s), TmpDev001Profile) ELSE Invalid

Submit ==
  /\ decision = NULL
  /\ decision' = Decide(submission)
  /\ UNCHANGED submission

\* s with the fact that question asks for supplied, in every possible way.
Supplied(s, question) ==
  CASE question = "purpose"        -> {[s EXCEPT !.purpose = "text"]}
    [] question = "requester_role" -> {[s EXCEPT !.requester_role = "text"]}
    [] question = "expense"        -> {[s EXCEPT !.expense = e] : e \in
                                         {x \in Expense : ValidExpense(x)}}
    [] question = "expense.category" ->
         {[s EXCEPT !.expense.category = c] : c \in {"TEST_ALLOWED", "TEST_BLOCKED"}}
    [] question = "expense.description" -> {[s EXCEPT !.expense.description = "text"]}
    [] question = "expense.amount_vnd" ->
         {[s EXCEPT !.expense.amount_vnd = a] : a \in {x \in Amounts : x > 0}}
    [] question = "expense.expense_date" -> {[s EXCEPT !.expense.expense_date = "date"]}
    [] question = "expense.evidence_status" ->
         {[s EXCEPT !.expense.evidence_status = v] : v \in {"PRESENT", "NOT_PROVIDED"}}
    [] question = "proof" -> {[s EXCEPT !.expense.evidence_status = "PRESENT"]}
    [] OTHER -> {s}

Answer ==
  /\ decision # NULL
  /\ decision.outcome = "MISSING_FACT"
  /\ submission' \in Supplied(submission, decision.question)
  /\ decision' = NULL

Settled == decision # NULL /\ decision.outcome # "MISSING_FACT"

Next == Submit \/ Answer \/ (Settled /\ UNCHANGED vars)

\* The service answers what it receives; the client of this loop keeps answering.
Spec == Init /\ [][Next]_vars /\ WF_vars(Submit) /\ WF_vars(Answer)

-----------------------------------------------------------------------------

FactOrder ==
  <<"purpose", "requester_role", "expense", "expense.category", "expense.description",
    "expense.amount_vnd", "expense.expense_date", "expense.evidence_status">>

\* Whether the raw submission lacks a fact; blank text is no text.
Lacks(s, fact) ==
  LET e == s.expense
  IN  CASE fact = "purpose"        -> s.purpose \in {NULL, Blank}
        [] fact = "requester_role" -> s.requester_role \in {NULL, Blank}
        [] fact = "expense"        -> e = NULL
        [] fact = "expense.category"        -> e = NULL \/ e.category = NULL
        [] fact = "expense.description"     -> e = NULL \/ e.description \in {NULL, Blank}
        [] fact = "expense.amount_vnd"      -> e = NULL \/ e.amount_vnd = NULL
        [] fact = "expense.expense_date"    -> e = NULL \/ e.expense_date = NULL
        [] fact = "expense.evidence_status" -> e = NULL \/ e.evidence_status = NULL

\* Every condition of the contract that a complete submission meets.
Applicable(s) ==
  {c \in {"category", "evidence", "limit"} :
     \/ c = "category" /\ s.expense.category # "TEST_ALLOWED"
     \/ c = "evidence" /\ s.expense.evidence_status # "PRESENT"
     \/ c = "limit"    /\ s.expense.amount_vnd > 1000}

\* The decision a valid submission gets, normalized or not, is the contract's:
\* the first lacking fact in its fixed order is asked for; with all facts there,
\* category comes before evidence, evidence before the limit, and 1000 passes.
DecisionFollowsContract ==
  decision # NULL /\ decision # Invalid =>
    LET lacking == {i \in DOMAIN FactOrder : Lacks(submission, FactOrder[i])}
    IN  IF lacking # {}
        THEN decision = Draft("MISSING_FACT", "TMP-REQ-01", FactOrder[Min(lacking)])
        ELSE LET met == Applicable(submission)
             IN  decision.outcome = IF "category" \in met THEN "OUT_OF_POLICY"
                                    ELSE IF "evidence" \in met THEN "MISSING_FACT"
                                    ELSE IF "limit" \in met THEN "AUTHORITY_EXCEEDED"
                                    ELSE "AUTO_APPROVED"

\* Normalization never changes a decision and changes nothing a second time, so
\* the decision can be recomputed from either of the two stored snapshots.
NormalizationNeutral ==
  ValidSubmission(submission) =>
    LET case == NormalizeCase(submission)
    IN  /\ NormalizeCase(case) = case
        /\ EvaluateCase(submission, TmpDev001Profile) = EvaluateCase(case, TmpDev001Profile)

\* A client that answers what it is asked is not asked for ever: no question
\* survives its answer, and every case is refused as invalid or decided.
RepairEnds == <>Settled

\* What backend/README.md says of first_missing_field: it identifies the first
\* absent required business fact, which is what the evaluator goes on to ask for.
FirstMissingFieldIsFirstFact ==
  ValidSubmission(submission) =>
    FirstMissingField(NormalizeCase(submission)) = FirstMissingFact(NormalizeCase(submission))
=============================================================================
