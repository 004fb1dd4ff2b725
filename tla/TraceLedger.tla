----------------------------- MODULE TraceLedger -----------------------------
(***************************************************************************)
(* What the decision-trace service promises its clients, with no rows,     *)
(* locks or transactions in sight: a ledger of traces, each the outcome of *)
(* its decision and the control effects since.  Every call acts on it in   *)
(* one step, at some moment between its arrival and its answer.            *)
(*                                                                         *)
(* A call may be told that it failed although its effect was recorded; it  *)
(* may also fail with none.  A control call repeated with its key is shown *)
(* what the first one did.                                                 *)
(***************************************************************************)
EXTENDS Integers, Sequences, FiniteSets

CONSTANTS Creator, Controller, Reader,    \* the calls; a creator names its trace
          CaseId, Key, Reason, Outcomes, Commands, Dispositions, NULL

Call == Creator \cup Controller \cup Reader

ASSUME CallAssumption ==
  /\ Creator \cap Controller = {} /\ Creator \cap Reader = {} /\ Controller \cap Reader = {}
  /\ NULL \notin Key \cup Dispositions
ASSUME CommandAssumption == Commands \subseteq {"pause", "resume", "record_demo_review", "undo"}

VARIABLES ledger,   \* ledger[t]: [case_id, outcome, log], or NULL before t is created
          asked,    \* asked[r]: the request of call r, NULL before it arrives
          answer    \* answer[r]: what r was told, NULL before

vars == <<ledger, asked, answer>>

-----------------------------------------------------------------------------

Submission == [case_id : CaseId, outcome : Outcomes]
ControlBody ==
  [trace_id : Creator, command : Commands, reason : Reason,
   disposition : Dispositions \cup {NULL}, idempotency_key : Key \cup {NULL}]
Lookup == [trace_id : Creator]

Valid(b) == b.command = "record_demo_review" <=> b.disposition # NULL
Intent(b) == <<b.trace_id, b.command, b.reason, b.disposition>>

Base(outcome) ==
  CASE outcome = "AUTO_APPROVED" -> "AUTO_APPROVED"
    [] outcome = "MISSING_FACT"  -> "AWAITING_INPUT"
    [] OTHER                     -> "AWAITING_REVIEW"

\* Where a command leads from a state, if anywhere.
Leads(command, base, state) ==
  CASE command = "pause" ->
         IF state = base /\ base # "AUTO_APPROVED" THEN {"PAUSED"} ELSE {}
    [] command = "record_demo_review" ->
         IF state = base /\ base = "AWAITING_REVIEW" THEN {"DEMO_REVIEWED"} ELSE {}
    [] command = "resume" -> IF state = "PAUSED" THEN {base} ELSE {}
    [] command = "undo"   -> IF state \in {"PAUSED", "DEMO_REVIEWED"} THEN {base} ELSE {}

Stored(t) == ledger[t] # NULL
Log(t) == ledger[t].log
StateAt(entry, n) == IF n = 0 THEN Base(entry.outcome) ELSE entry.log[n].state

LeadsNow(b) ==
  LET entry == ledger[b.trace_id]
  IN  Leads(b.command, Base(entry.outcome), StateAt(entry, Len(entry.log)))

\* The effects of a key: positions in the log of its trace.
ActedAt(b) ==
  {n \in DOMAIN Log(b.trace_id) :
     b.idempotency_key # NULL /\ Log(b.trace_id)[n].key = b.idempotency_key}

\* What an effect leaves behind; only a keyed one is compared with later calls.
Effect(b, state) ==
  [key    |-> b.idempotency_key,
   intent |-> IF b.idempotency_key = NULL THEN NULL ELSE Intent(b),
   state  |-> state]

\* What the first n effects of a trace make of it, as shown to a client.
View(t, entry, n) ==
  [kind |-> "view", trace |-> t, effects |-> n, state |-> StateAt(entry, n)]
Told(kind) == [kind |-> kind, trace |-> NULL, effects |-> 0, state |-> NULL]
Failure == Told("connection_error")

-----------------------------------------------------------------------------

Pending(r) == asked[r] # NULL /\ answer[r] = NULL

\* A request arrives; an invalid one is refused at the door.
Ask(r) ==
  /\ asked[r] = NULL
  /\ \/ r \in Creator /\ \E b \in Submission :
          asked' = [asked EXCEPT ![r] = b] /\ UNCHANGED answer
     \/ r \in Controller /\ \E b \in ControlBody :
          /\ asked' = [asked EXCEPT ![r] = b]
          /\ IF Valid(b) THEN UNCHANGED answer
             ELSE answer' = [answer EXCEPT ![r] = Told("invalid")]
     \/ r \in Reader /\ \E b \in Lookup :
          asked' = [asked EXCEPT ![r] = b] /\ UNCHANGED answer
  /\ UNCHANGED ledger

Tell(r, a) == answer' = [answer EXCEPT ![r] = a] /\ UNCHANGED asked

CaseKnown(id) == \E t \in Creator : Stored(t) /\ ledger[t].case_id = id

Create(r) ==
  /\ r \in Creator /\ Pending(r) /\ ~ CaseKnown(asked[r].case_id)
  /\ LET entry == [case_id |-> asked[r].case_id, outcome |-> asked[r].outcome, log |-> <<>>] IN
     /\ ledger' = [ledger EXCEPT ![r] = entry]
     /\ Tell(r, View(r, entry, 0)) \/ Tell(r, Failure)

RefuseCase(r) ==
  /\ r \in Creator /\ Pending(r) /\ CaseKnown(asked[r].case_id)
  /\ Tell(r, Told("case_exists"))
  /\ UNCHANGED ledger

\* A control call or a read of a trace the ledger does not have.
RefuseUnknown(r) ==
  /\ r \in Controller \cup Reader /\ Pending(r) /\ ~ Stored(asked[r].trace_id)
  /\ Tell(r, Told("not_found"))
  /\ UNCHANGED ledger

\* Mutant: undo deletes what it takes back.
ControlUndoDeletes(r) ==
  LET b == asked[r]
      t == b.trace_id
  IN
  /\ r \in Controller /\ Pending(r) /\ Stored(t) /\ ActedAt(b) = {}
  /\ \E state \in LeadsNow(b) :
       LET log   == IF b.command = "undo" THEN SubSeq(Log(t), 1, Len(Log(t)) - 1)
                    ELSE Append(Log(t), Effect(b, state))
           entry == [ledger[t] EXCEPT !.log = log]
       IN
       /\ ledger' = [ledger EXCEPT ![t] = entry]
       /\ Tell(r, View(t, entry, Len(entry.log))) \/ Tell(r, Failure)

Control(r) ==
  LET b == asked[r]
      t == b.trace_id
  IN
  /\ r \in Controller /\ Pending(r) /\ Stored(t) /\ ActedAt(b) = {}
  /\ \E state \in LeadsNow(b) :
       LET entry == [ledger[t] EXCEPT !.log = Append(@, Effect(b, state))] IN
       /\ ledger' = [ledger EXCEPT ![t] = entry]
       /\ Tell(r, View(t, entry, Len(entry.log))) \/ Tell(r, Failure)

RefuseIllegal(r) ==
  LET b == asked[r] IN
  /\ r \in Controller /\ Pending(r) /\ Stored(b.trace_id) /\ ActedAt(b) = {}
  /\ LeadsNow(b) = {}
  /\ Tell(r, Told("illegal"))
  /\ UNCHANGED ledger

\* Mutant: a repeated call is shown the trace as it is now.
ReplayNow(r) ==
  LET b == asked[r] IN
  /\ r \in Controller /\ Pending(r) /\ Stored(b.trace_id)
  /\ \E n \in ActedAt(b) :
       /\ Log(b.trace_id)[n].intent = Intent(b)
       /\ Tell(r, View(b.trace_id, ledger[b.trace_id], Len(Log(b.trace_id))))
  /\ UNCHANGED ledger

\* The key acted for the same intent: the trace is shown as it was then.
Replay(r) ==
  LET b == asked[r] IN
  /\ r \in Controller /\ Pending(r) /\ Stored(b.trace_id)
  /\ \E n \in ActedAt(b) : /\ Log(b.trace_id)[n].intent = Intent(b)
                           /\ Tell(r, View(b.trace_id, ledger[b.trace_id], n))
  /\ UNCHANGED ledger

\* The key acted for another intent.
RefuseReuse(r) ==
  LET b == asked[r] IN
  /\ r \in Controller /\ Pending(r) /\ Stored(b.trace_id)
  /\ \E n \in ActedAt(b) : Log(b.trace_id)[n].intent # Intent(b)
  /\ Tell(r, Told("key_conflict"))
  /\ UNCHANGED ledger

Read(r) ==
  /\ r \in Reader /\ Pending(r) /\ Stored(asked[r].trace_id)
  /\ LET t == asked[r].trace_id IN Tell(r, View(t, ledger[t], Len(Log(t))))
  /\ UNCHANGED ledger

Fail(r) == Pending(r) /\ Tell(r, Failure) /\ UNCHANGED ledger

-----------------------------------------------------------------------------

Init ==
  /\ ledger = [t \in Creator |-> NULL]
  /\ asked = [r \in Call |-> NULL]
  /\ answer = [r \in Call |-> NULL]

Act(r) ==
  \/ Ask(r) \/ Create(r) \/ RefuseCase(r) \/ RefuseUnknown(r) \/ Control(r)
  \/ RefuseIllegal(r) \/ Replay(r) \/ RefuseReuse(r) \/ Read(r) \/ Fail(r)

Next == \E r \in Call : Act(r)

Spec == Init /\ [][Next]_vars

-----------------------------------------------------------------------------

State == {"AUTO_APPROVED", "AWAITING_INPUT", "AWAITING_REVIEW", "PAUSED", "DEMO_REVIEWED"}
IntentSet == Creator \X Commands \X Reason \X (Dispositions \cup {NULL})
EffectSet == [key : Key \cup {NULL}, intent : IntentSet \cup {NULL}, state : State]
Entry == [case_id : CaseId, outcome : Outcomes, log : Seq(EffectSet)]
Kind == {"view", "invalid", "case_exists", "not_found", "illegal", "key_conflict",
         "connection_error"}
Answer == [kind : Kind, trace : Creator \cup {NULL}, effects : Nat, state : State \cup {NULL}]

ASSUME NullAssumption == NULL \notin Entry \cup Submission \cup ControlBody \cup Lookup \cup Answer

Shown(r) == answer[r] # NULL /\ answer[r].kind = "view"

\* The ledger, the requests and the answers keep their shapes, and nobody is
\* answered who did not ask.
TypeOK ==
  /\ ledger \in [Creator -> Entry \cup {NULL}]
  /\ asked \in [Call -> Submission \cup ControlBody \cup Lookup \cup {NULL}]
  /\ answer \in [Call -> Answer \cup {NULL}]
  /\ \A r \in Call : asked[r] # NULL =>
       asked[r] \in (IF r \in Creator THEN Submission
                    ELSE IF r \in Controller THEN ControlBody ELSE Lookup)
  /\ \A r \in Call : answer[r] # NULL => asked[r] # NULL

\* A case_id names one trace.
OneTracePerCase ==
  \A t, u \in Creator : Stored(t) /\ Stored(u) /\ ledger[t].case_id = ledger[u].case_id => t = u

\* What a client was shown stays true for ever: it is the state of its trace after
\* some number of effects, whatever effects follow; and who sent a key is shown
\* the effect of just that key and intent, so retries are shown the same.
ViewsStayTrue ==
  \A r \in Call : Shown(r) =>
    LET t == IF r \in Creator THEN r ELSE asked[r].trace_id
        n == answer[r].effects
    IN  /\ Stored(t) /\ n \in 0..Len(Log(t))
        /\ answer[r] = View(t, ledger[t], n)
        /\ r \in Controller /\ asked[r].idempotency_key # NULL =>
             n # 0 /\ Log(t)[n].key = asked[r].idempotency_key
                   /\ Log(t)[n].intent = Intent(asked[r])

\* No call takes anything back: stored traces keep their decision and effects.
HistoriesOnlyGrow ==
  [][\A t \in Creator : Stored(t) =>
       /\ ledger'[t] # NULL
       /\ ledger'[t].case_id = ledger[t].case_id /\ ledger'[t].outcome = ledger[t].outcome
       /\ Len(ledger'[t].log) >= Len(Log(t))
       /\ \A n \in DOMAIN Log(t) : ledger'[t].log[n] = Log(t)[n]]_vars
=============================================================================
