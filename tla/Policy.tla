------------------------------- MODULE Policy -------------------------------
(***************************************************************************)
(* From a submitted case to a decision draft: structural validation        *)
(* (domain/models.py), Layer 1 normalization and Layer 2 evaluation of the *)
(* one temporary profile (policy/).  All pure functions.  A text is absent *)
(* (NULL), whitespace only (Blank) or "text"; a date is absent or "date";  *)
(* the wording of reasons and questions is left out, a question is named   *)
(* by the fact or the permission it asks for.                              *)
(***************************************************************************)
EXTENDS Integers, Sequences, FiniteSets, FiniteSetsExt

CONSTANTS NULL, Blank,       \* None; text without a visible character
          NotInteger,        \* an amount of another JSON type, a boolean included
          Amounts            \* the integer amounts clients submit

ASSUME AmountsAssumption == Amounts \subseteq Int

Text == {NULL, Blank, "text"}

Expense ==
  [category        : {NULL, "TEST_ALLOWED", "TEST_BLOCKED"},
   description     : Text,
   amount_vnd      : Amounts \cup {NULL, NotInteger},
   expense_date    : {NULL, "date"},
   evidence_status : {NULL, "PRESENT", "NOT_PROVIDED"}]

\* Submissions as they arrive; an unknown field or enum token is refused likewise.
Submission ==
  [case_id : {Blank, "text"}, requester_role : Text, purpose : Text,
   expense : Expense \cup {NULL}]

\* The field validators of Expense and CaseSubmission.
ValidExpense(e) ==
  /\ e.amount_vnd # NotInteger
  /\ e.amount_vnd # NULL => e.amount_vnd > 0
ValidSubmission(s) ==
  /\ s.case_id # Blank
  /\ s.expense # NULL => ValidExpense(s.expense)

-----------------------------------------------------------------------------
(* Layer 1. *)

BlankToNone(text) == IF text = Blank THEN NULL ELSE text

NormalizeExpense(e) == [e EXCEPT !.description = BlankToNone(@)]

\* Mutant: an expense without a visible description is dropped altogether.
NormalizeCaseDropsExpense(s) ==
  [s EXCEPT !.purpose = BlankToNone(@),
            !.expense = IF s.expense = NULL \/ s.expense.description = Blank THEN NULL
                        ELSE NormalizeExpense(s.expense)]

NormalizeCase(s) ==
  [s EXCEPT !.purpose = BlankToNone(@),
            !.expense = IF s.expense = NULL THEN NULL ELSE NormalizeExpense(s.expense)]

RequestFacts(case) ==
  <<[path |-> "purpose", value |-> case.purpose],
    [path |-> "requester_role", value |-> case.requester_role]>>

ExpenseFacts(e) ==
  <<[path |-> "expense.category", value |-> e.category],
    [path |-> "expense.description", value |-> e.description],
    [path |-> "expense.amount_vnd", value |-> e.amount_vnd],
    [path |-> "expense.expense_date", value |-> e.expense_date],
    [path |-> "expense.evidence_status", value |-> e.evidence_status]>>

\* The keys of QUESTION_BY_FIELD_PATH, in order: Layer 1's MISSING_FIELD_PATHS.
MissingFieldPaths ==
  <<"purpose", "expense.category", "expense.description", "expense.amount_vnd",
    "expense.expense_date", "expense.evidence_status">>

FieldValue(case, path) ==
  IF path = "purpose" THEN case.purpose
  ELSE IF case.expense = NULL THEN NULL
  ELSE LET facts == ExpenseFacts(case.expense)
       IN  facts[CHOOSE i \in DOMAIN facts : facts[i].path = path].value

FirstMissingField(case) ==
  LET missing == {i \in DOMAIN MissingFieldPaths :
                    FieldValue(case, MissingFieldPaths[i]) = NULL}
  IN  IF missing = {} THEN NULL ELSE MissingFieldPaths[Min(missing)]

-----------------------------------------------------------------------------
(* Layer 2. *)

\* Mutant: only None counts as missing, as in Layer 1.
IsMissingOnlyNone(value) == value = NULL

IsMissing(value) == value = NULL \/ value = Blank

FirstMissingFact(case) ==
  LET facts   == RequestFacts(case) \o
                 IF case.expense = NULL THEN <<[path |-> "expense", value |-> NULL]>>
                 ELSE ExpenseFacts(case.expense)
      missing == {i \in DOMAIN facts : IsMissing(facts[i].value)}
  IN  IF missing = {} THEN NULL ELSE facts[Min(missing)].path

EvaluatorOnlyPaths == {"requester_role", "expense"}

\* Both tables together; a path in neither raises KeyError.
QuestionPaths == {MissingFieldPaths[i] : i \in DOMAIN MissingFieldPaths} \cup EvaluatorOnlyPaths

QuestionFor(path) == IF path \in QuestionPaths THEN path ELSE "KEY_ERROR"

\* None, a blank text and a wrongly typed amount are three values, and no integer,
\* token, expense or path is taken for one of them.
ASSUME AbsenceAssumption ==
  /\ NULL # Blank /\ NULL # NotInteger /\ Blank # NotInteger
  /\ \A v \in {NULL, Blank, NotInteger} :
       /\ v \notin Int
       /\ v \notin {"text", "date", "TEST_ALLOWED", "TEST_BLOCKED", "PRESENT", "NOT_PROVIDED"}
  /\ NULL \notin Expense \cup QuestionPaths

TmpDev001Profile ==
  [allowed_categories       |-> {"TEST_ALLOWED"},
   required_evidence_status |-> "PRESENT",
   auto_approve_limit_vnd   |-> 1000]

Draft(outcome, rule, question) ==
  [outcome |-> outcome, applied_rule_id |-> rule, question |-> question]

\* Mutant: the evidence rule is asked before the category rule.
EvaluateCaseEvidenceFirst(case, profile) ==
  LET fact == FirstMissingFact(case)
      e    == case.expense
  IN  IF fact # NULL
      THEN Draft("MISSING_FACT", "TMP-REQ-01", QuestionFor(fact))
      ELSE IF e.evidence_status # profile.required_evidence_status
      THEN Draft("MISSING_FACT", "TMP-EVD-01", "proof")
      ELSE IF e.category \notin profile.allowed_categories
      THEN Draft("OUT_OF_POLICY", "TMP-CAT-01", "exception")
      ELSE IF e.amount_vnd > profile.auto_approve_limit_vnd
      THEN Draft("AUTHORITY_EXCEEDED", "TMP-AUT-02", "approval")
      ELSE Draft("AUTO_APPROVED", "TMP-AUT-01", NULL)

\* First applicable rule wins.
EvaluateCase(case, profile) ==
  LET fact == FirstMissingFact(case)
      e    == case.expense
  IN  IF fact # NULL
      THEN Draft("MISSING_FACT", "TMP-REQ-01", QuestionFor(fact))
      ELSE IF e.category \notin profile.allowed_categories
      THEN Draft("OUT_OF_POLICY", "TMP-CAT-01", "exception")
      ELSE IF e.evidence_status # profile.required_evidence_status
      THEN Draft("MISSING_FACT", "TMP-EVD-01", "proof")
      ELSE IF e.amount_vnd > profile.auto_approve_limit_vnd
      THEN Draft("AUTHORITY_EXCEEDED", "TMP-AUT-02", "approval")
      ELSE Draft("AUTO_APPROVED", "TMP-AUT-01", NULL)
=============================================================================
