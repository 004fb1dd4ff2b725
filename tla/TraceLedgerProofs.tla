------------------------- MODULE TraceLedgerProofs -------------------------
(***************************************************************************)
(* Proofs about TraceLedger, for any number of calls, case ids and keys.   *)
(*                                                                         *)
(* Logs only get longer and requests stay as they arrived, so what was     *)
(* once said of an entry of a log stays true; each property is therefore   *)
(* checked at the one entry or answer that a step adds.                    *)
(***************************************************************************)
EXTENDS TraceLedger, TLAPS

\* Whose trace is stored has been answered, so nobody creates twice.
CreatorsAnswered == \A t \in Creator : Stored(t) => answer[t] # NULL

Inv == /\ TypeOK /\ CreatorsAnswered
       /\ OneTracePerCase /\ ViewsStayTrue

-----------------------------------------------------------------------------
(* States, views and requests have their types. *)

\* NULL is neither an entry of the ledger nor an answer nor a request.
LEMMA NullsAreNot ==
  /\ \A e \in Entry : e # NULL
  /\ \A a \in Answer : a # NULL
  /\ \A b \in Submission \cup ControlBody \cup Lookup : b # NULL
BY NullAssumption

\* A decision gives a case one of the five states.
LEMMA BaseState == ASSUME NEW outcome PROVE Base(outcome) \in State
  BY DEF Base, State

\* A command leads to one of the five states, if anywhere.
LEMMA LeadsState ==
  ASSUME NEW command \in Commands, NEW base \in State, NEW state
  PROVE  Leads(command, base, state) \subseteq State
<1>1. command \in {"pause", "resume", "record_demo_review", "undo"}
  BY CommandAssumption
<1> QED BY <1>1 DEF Leads, State

\* Every point of a log has a state.
LEMMA EntryState ==
  ASSUME NEW entry \in Entry, NEW n \in 0..Len(entry.log)
  PROVE  StateAt(entry, n) \in State
<1>1. CASE n = 0
  BY <1>1, BaseState DEF StateAt
<1>2. CASE n # 0
  <2>1. entry.log \in Seq(EffectSet) /\ n \in 1..Len(entry.log)
    BY <1>2 DEF Entry
  <2>2. entry.log[n] \in EffectSet
    BY <2>1
  <2> QED BY <1>2, <2>2 DEF StateAt, EffectSet
<1> QED BY <1>1, <1>2

\* A view of a log is an answer.
LEMMA ViewType ==
  ASSUME NEW t \in Creator, NEW entry \in Entry, NEW n \in 0..Len(entry.log)
  PROVE  View(t, entry, n) \in Answer
<1>1. StateAt(entry, n) \in State /\ n \in Nat
  BY EntryState DEF Entry
<1> QED BY <1>1 DEF View, Answer, Kind

\* So is anything that is told without one.
LEMMA ToldType == ASSUME NEW kind \in Kind PROVE Told(kind) \in Answer
  BY DEF Told, Answer

\* A call that waits for its answer asked what calls of its route ask.
LEMMA Requests ==
  ASSUME TypeOK, NEW r \in Call, Pending(r)
  PROVE  /\ r \in Creator => asked[r] \in Submission
         /\ r \in Controller => asked[r] \in ControlBody
         /\ r \in Reader => asked[r] \in Lookup
         /\ asked[r] # NULL /\ answer[r] = NULL
BY CallAssumption DEF TypeOK, Pending

\* One answer more, over a well-formed ledger.
LEMMA TellType ==
  ASSUME TypeOK, NEW r \in Call, Pending(r), NEW a \in Answer, Tell(r, a),
         ledger' \in [Creator -> Entry \cup {NULL}]
  PROVE  TypeOK'
<1>1. /\ answer' \in [Call -> Answer \cup {NULL}]
      /\ \A q \in Call : q # r => answer'[q] = answer[q]
      /\ asked' = asked
  BY DEF TypeOK, Tell
<1> QED BY <1>1 DEF TypeOK, Pending

\* What a creation puts into the ledger.
LEMMA NewEntryType ==
  ASSUME NEW b \in Submission
  PROVE  /\ [case_id |-> b.case_id, outcome |-> b.outcome, log |-> <<>>] \in Entry
         /\ [case_id |-> b.case_id, outcome |-> b.outcome, log |-> <<>>] # NULL
<1> DEFINE entry == [case_id |-> b.case_id, outcome |-> b.outcome, log |-> <<>>]
<1>1. b.case_id \in CaseId /\ b.outcome \in Outcomes
  BY DEF Submission
<1>2. <<>> \in Seq(EffectSet)
  OBVIOUS
<1>3. entry \in Entry
  BY <1>1, <1>2 DEF Entry
<1> QED BY <1>3, NullsAreNot

\* Appending to a sequence adds one element behind those it has.
LEMMA AppendedEntry ==
  ASSUME NEW S, NEW log \in Seq(S), NEW e \in S
  PROVE  /\ Len(Append(log, e)) = Len(log) + 1
         /\ \A n \in DOMAIN log : Append(log, e)[n] = log[n]
         /\ Append(log, e)[Len(log) + 1] = e
OBVIOUS

\* What a control call makes of an entry.
Longer(entry, effect) == [entry EXCEPT !.log = Append(@, effect)]

\* A longer entry has one effect more, and keeps the rest.
LEMMA LongerEntry ==
  ASSUME NEW entry \in Entry, NEW b \in ControlBody,
         NEW state \in Leads(b.command, Base(entry.outcome), StateAt(entry, Len(entry.log))),
         NEW longer, longer = Longer(entry, Effect(b, state))
  PROVE  /\ longer \in Entry /\ longer # NULL
         /\ longer.case_id = entry.case_id /\ longer.outcome = entry.outcome
         /\ Len(longer.log) = Len(entry.log) + 1
         /\ \A n \in DOMAIN entry.log : longer.log[n] = entry.log[n]
         /\ longer.log[Len(entry.log) + 1] = Effect(b, state)
         /\ Effect(b, state) \in EffectSet
<1>1. state \in State
  BY LeadsState, BaseState DEF ControlBody
<1>2. Intent(b) \in IntentSet
  BY DEF Intent, IntentSet, ControlBody
<1>3. Effect(b, state) \in EffectSet
  BY <1>1, <1>2 DEF Effect, EffectSet, ControlBody
<1>4. entry.log \in Seq(EffectSet)
  BY DEF Entry
<1>5. /\ longer.log = Append(entry.log, Effect(b, state))
      /\ longer.case_id = entry.case_id /\ longer.outcome = entry.outcome
  BY DEF Entry, Longer
<1>6. longer \in Entry
  <2>1. Append(entry.log, Effect(b, state)) \in Seq(EffectSet)
    BY <1>3, <1>4
  <2>2. longer = [case_id |-> entry.case_id, outcome |-> entry.outcome,
                  log |-> Append(entry.log, Effect(b, state))]
    BY DEF Entry, Longer
  <2>3. entry.case_id \in CaseId /\ entry.outcome \in Outcomes
    BY DEF Entry
  <2> QED BY <2>1, <2>2, <2>3 DEF Entry
<1>7. longer # NULL
  BY <1>6, NullsAreNot
<1>8. /\ Len(longer.log) = Len(entry.log) + 1
      /\ \A n \in DOMAIN entry.log : longer.log[n] = entry.log[n]
      /\ longer.log[Len(entry.log) + 1] = Effect(b, state)
  BY <1>3, <1>4, <1>5, AppendedEntry
<1> QED BY <1>3, <1>5, <1>6, <1>7, <1>8

-----------------------------------------------------------------------------
(* The two actions that write, and what the others leave alone. *)

\* A creation stores a new, empty trace of its own.
LEMMA CreateEffect ==
  ASSUME TypeOK, CreatorsAnswered, NEW r \in Call, Create(r)
  PROVE  /\ r \in Creator /\ ~ Stored(r) /\ Pending(r) /\ ~ CaseKnown(asked[r].case_id)
         /\ asked' = asked
         /\ \E entry \in Entry :
              /\ entry # NULL /\ entry.case_id = asked[r].case_id /\ entry.log = <<>>
              /\ ledger' = [ledger EXCEPT ![r] = entry]
              /\ \/ Tell(r, View(r, entry, 0)) \/ Tell(r, Failure)
<1>1. r \in Creator /\ Pending(r) /\ ~ CaseKnown(asked[r].case_id)
  BY DEF Create
<1>2. ~ Stored(r)
  BY <1>1 DEF CreatorsAnswered, Pending
<1>3. asked[r] \in Submission
  BY <1>1, Requests
<1> DEFINE entry == [case_id |-> asked[r].case_id, outcome |-> asked[r].outcome, log |-> <<>>]
<1>4. entry \in Entry /\ entry # NULL
  BY <1>3, NewEntryType
<1>5. /\ ledger' = [ledger EXCEPT ![r] = entry]
      /\ Tell(r, View(r, entry, 0)) \/ Tell(r, Failure)
  BY DEF Create
<1>6. asked' = asked
  BY <1>5 DEF Tell
<1>7. entry.case_id = asked[r].case_id /\ entry.log = <<>>
  OBVIOUS
<1> HIDE DEF entry
<1> QED BY <1>1, <1>2, <1>4, <1>5, <1>6, <1>7

\* A control call that acts makes one entry longer by its own effect.
LEMMA ControlEffect ==
  ASSUME TypeOK, NEW r \in Call, Control(r)
  PROVE  /\ r \in Controller /\ Pending(r) /\ asked[r] \in ControlBody
         /\ asked[r].trace_id \in Creator /\ Stored(asked[r].trace_id)
         /\ ActedAt(asked[r]) = {}
         /\ asked' = asked
         /\ \E state \in LeadsNow(asked[r]), entry \in Entry :
              LET t == asked[r].trace_id IN
              /\ ledger[t] \in Entry
              /\ entry = Longer(ledger[t], Effect(asked[r], state))
              /\ entry # NULL
              /\ ledger' = [ledger EXCEPT ![t] = entry]
              /\ Tell(r, View(t, entry, Len(entry.log))) \/ Tell(r, Failure)
<1> DEFINE b == asked[r]
           t == b.trace_id
<1>1. r \in Controller /\ Pending(r) /\ Stored(t) /\ ActedAt(b) = {}
  BY DEF Control
<1>2. b \in ControlBody /\ t \in Creator
  BY <1>1, Requests DEF ControlBody
<1>3. ledger[t] \in Entry
  BY <1>1, <1>2 DEF TypeOK, Stored
<1>4. PICK state \in LeadsNow(b) :
        LET entry == Longer(ledger[t], Effect(b, state)) IN
        /\ ledger' = [ledger EXCEPT ![t] = entry]
        /\ Tell(r, View(t, entry, Len(entry.log))) \/ Tell(r, Failure)
  BY DEF Control, Longer
<1> DEFINE entry == Longer(ledger[t], Effect(b, state))
<1>5. entry \in Entry /\ entry # NULL
  BY <1>2, <1>3, <1>4, LongerEntry DEF LeadsNow
<1>6. asked' = asked
  BY <1>4 DEF Tell
<1>7. /\ ledger' = [ledger EXCEPT ![t] = entry]
      /\ Tell(r, View(t, entry, Len(entry.log))) \/ Tell(r, Failure)
  BY <1>4
<1> QED BY <1>1, <1>2, <1>3, <1>5, <1>6, <1>7

\* A pending call that only gets an answer, or a request that arrives.
LEMMA LedgerKept ==
  ASSUME NEW r \in Call, Act(r), ~ Create(r), ~ Control(r)
  PROVE  ledger' = ledger
BY DEF Act, Ask, RefuseCase, RefuseUnknown, RefuseIllegal, Replay, RefuseReuse, Read, Fail

\* Every step keeps the types.
LEMMA TypeStep ==
  ASSUME TypeOK, CreatorsAnswered, [Next]_vars
  PROVE  TypeOK'
<1>1. CASE UNCHANGED vars
  BY <1>1 DEF TypeOK, vars
<1>2. ASSUME NEW r \in Call, Ask(r) PROVE TypeOK'
  <2>1. ledger' = ledger /\ asked[r] = NULL
    BY <1>2 DEF Ask
  <2>2. PICK b : /\ asked' = [asked EXCEPT ![r] = b]
                 /\ \/ r \in Creator /\ b \in Submission
                    \/ r \in Controller /\ b \in ControlBody
                    \/ r \in Reader /\ b \in Lookup
    BY <1>2 DEF Ask
  <2>3. answer' = answer \/ answer' = [answer EXCEPT ![r] = Told("invalid")]
    BY <1>2 DEF Ask
  <2>4. b # NULL
    BY <2>2, NullsAreNot
  <2>5. asked' \in [Call -> Submission \cup ControlBody \cup Lookup \cup {NULL}]
    BY <2>2 DEF TypeOK
  <2>6. Told("invalid") \in Answer
    BY ToldType DEF Kind
  <2>7. answer' \in [Call -> Answer \cup {NULL}]
    BY <2>3, <2>6 DEF TypeOK
  <2>8. \A q \in Call : asked'[q] # NULL =>
          asked'[q] \in (IF q \in Creator THEN Submission
                        ELSE IF q \in Controller THEN ControlBody ELSE Lookup)
    BY <2>2, CallAssumption DEF TypeOK
  <2>9. \A q \in Call : answer'[q] # NULL => asked'[q] # NULL
    BY <2>2, <2>3, <2>4 DEF TypeOK
  <2> QED BY <2>1, <2>5, <2>7, <2>8, <2>9 DEF TypeOK
<1>3. ASSUME NEW r \in Call, Create(r) PROVE TypeOK'
  <2>1. PICK entry \in Entry :
          /\ entry.log = <<>> /\ ledger' = [ledger EXCEPT ![r] = entry]
          /\ Tell(r, View(r, entry, 0)) \/ Tell(r, Failure)
    BY <1>3, CreateEffect
  <2>2. r \in Creator /\ Pending(r)
    BY <1>3, CreateEffect
  <2>3. View(r, entry, 0) \in Answer /\ Failure \in Answer
    BY <2>1, <2>2, ViewType, ToldType DEF Failure, Kind
  <2>4. ledger' \in [Creator -> Entry \cup {NULL}]
    BY <2>1 DEF TypeOK
  <2> QED BY <2>1, <2>2, <2>3, <2>4, TellType
<1>4. ASSUME NEW r \in Call, Control(r) PROVE TypeOK'
  <2> DEFINE t == asked[r].trace_id
  <2>1. PICK entry \in Entry :
          /\ ledger' = [ledger EXCEPT ![t] = entry]
          /\ Tell(r, View(t, entry, Len(entry.log))) \/ Tell(r, Failure)
    BY <1>4, ControlEffect
  <2>2. t \in Creator /\ Pending(r)
    BY <1>4, ControlEffect
  <2>3. View(t, entry, Len(entry.log)) \in Answer /\ Failure \in Answer
    <3>1. Len(entry.log) \in 0..Len(entry.log)
      BY DEF Entry
    <3> QED BY <2>2, <3>1, ViewType, ToldType DEF Failure, Kind
  <2>4. ledger' \in [Creator -> Entry \cup {NULL}]
    BY <2>1 DEF TypeOK
  <2> QED BY <2>1, <2>2, <2>3, <2>4, TellType
<1>5. ASSUME NEW r \in Call, Replay(r) PROVE TypeOK'
  <2> DEFINE t == asked[r].trace_id
  <2>1. Pending(r) /\ r \in Controller /\ Stored(t) /\ ledger' = ledger
    BY <1>5 DEF Replay
  <2>2. t \in Creator /\ ledger[t] \in Entry
    BY <2>1, Requests DEF ControlBody, TypeOK, Stored
  <2>3. PICK n \in DOMAIN Log(t) : Tell(r, View(t, ledger[t], n))
    BY <1>5 DEF Replay, ActedAt
  <2>4. n \in 0..Len(ledger[t].log)
    BY <2>2, <2>3 DEF Log, Entry
  <2>5. View(t, ledger[t], n) \in Answer
    BY <2>2, <2>4, ViewType
  <2> QED BY <2>1, <2>3, <2>5, TellType DEF TypeOK
<1>6. ASSUME NEW r \in Call, Read(r) PROVE TypeOK'
  <2> DEFINE t == asked[r].trace_id
  <2>1. Pending(r) /\ r \in Reader /\ Stored(t) /\ ledger' = ledger
    BY <1>6 DEF Read
  <2>2. t \in Creator /\ ledger[t] \in Entry
    BY <2>1, Requests DEF Lookup, TypeOK, Stored
  <2>3. Tell(r, View(t, ledger[t], Len(Log(t))))
    BY <1>6 DEF Read
  <2>4. Len(Log(t)) \in 0..Len(ledger[t].log)
    BY <2>2 DEF Log, Entry
  <2>5. View(t, ledger[t], Len(Log(t))) \in Answer
    BY <2>2, <2>4, ViewType
  <2> QED BY <2>1, <2>3, <2>5, TellType DEF TypeOK
<1>7. ASSUME NEW r \in Call,
             RefuseCase(r) \/ RefuseUnknown(r) \/ RefuseIllegal(r) \/ RefuseReuse(r) \/ Fail(r)
      PROVE TypeOK'
  <2>1. PICK kind \in Kind : Tell(r, Told(kind))
    BY <1>7 DEF RefuseCase, RefuseUnknown, RefuseIllegal, RefuseReuse, Fail, Failure, Kind
  <2>2. Pending(r) /\ ledger' = ledger
    BY <1>7 DEF RefuseCase, RefuseUnknown, RefuseIllegal, RefuseReuse, Fail
  <2>3. Told(kind) \in Answer
    BY ToldType
  <2> QED BY <2>1, <2>2, <2>3, TellType DEF TypeOK
<1> QED BY <1>1, <1>2, <1>3, <1>4, <1>5, <1>6, <1>7 DEF Next, Act

-----------------------------------------------------------------------------
(* What a step keeps: requests, answers, and the entries of every log. *)

\* Requests and answers are final.
LEMMA AnswersStay ==
  ASSUME TypeOK, CreatorsAnswered, [Next]_vars, NEW q \in Call
  PROVE  /\ asked[q] # NULL => asked'[q] = asked[q]
         /\ answer[q] # NULL => asked'[q] = asked[q] /\ answer'[q] = answer[q]
<1>1. answer[q] # NULL => asked[q] # NULL
  BY DEF TypeOK
<1>2. CASE UNCHANGED vars
  BY <1>2, <1>1 DEF vars
<1>3. ASSUME NEW r \in Call, Ask(r) PROVE asked[q] # NULL =>
        asked'[q] = asked[q] /\ answer'[q] = answer[q]
  <2>1. asked[r] = NULL
    BY <1>3 DEF Ask
  <2>2. /\ \E b : asked' = [asked EXCEPT ![r] = b]
        /\ answer' = answer \/ answer' = [answer EXCEPT ![r] = Told("invalid")]
    BY <1>3 DEF Ask
  <2> QED BY <2>1, <2>2 DEF TypeOK
<1>4. ASSUME NEW r \in Call, Act(r), ~ Ask(r) PROVE
        Pending(r) /\ \E a : Tell(r, a)
  BY <1>4, CreateEffect, ControlEffect
     DEF Act, RefuseCase, RefuseUnknown, RefuseIllegal, RefuseReuse, Replay, Read, Fail
<1>5. ASSUME NEW r \in Call, Act(r), ~ Ask(r) PROVE
        /\ asked'[q] = asked[q]
        /\ answer[q] # NULL => answer'[q] = answer[q]
  BY <1>5, <1>4 DEF Tell, Pending, TypeOK
<1> QED BY <1>1, <1>2, <1>3, <1>5 DEF Next

\* What a control call that acts does to the log of its trace.
LEMMA ControlLog ==
  ASSUME TypeOK, NEW r \in Call, Control(r), NEW t, t = asked[r].trace_id
  PROVE  /\ t \in Creator /\ Stored(t) /\ ledger[t] \in Entry
         /\ \A u \in Creator : u # t => ledger'[u] = ledger[u]
         /\ ledger'[t] \in Entry /\ ledger'[t] # NULL
         /\ ledger'[t].case_id = ledger[t].case_id /\ ledger'[t].outcome = ledger[t].outcome
         /\ Len(ledger'[t].log) = Len(ledger[t].log) + 1
         /\ \A n \in DOMAIN ledger[t].log : ledger'[t].log[n] = ledger[t].log[n]
         /\ \E state \in LeadsNow(asked[r]) :
              ledger'[t].log[Len(ledger[t].log) + 1] = Effect(asked[r], state)
         /\ \/ Tell(r, View(t, ledger'[t], Len(ledger'[t].log)))
            \/ Tell(r, Failure)
<1>1. /\ asked[r] \in ControlBody /\ t \in Creator /\ Stored(t) /\ ledger[t] \in Entry
  BY ControlEffect
<1>2. PICK state \in LeadsNow(asked[r]), entry \in Entry :
        /\ entry = Longer(ledger[t], Effect(asked[r], state))
        /\ ledger' = [ledger EXCEPT ![t] = entry]
        /\ Tell(r, View(t, entry, Len(entry.log))) \/ Tell(r, Failure)
  BY ControlEffect
<1>3. state \in Leads(asked[r].command, Base(ledger[t].outcome),
                      StateAt(ledger[t], Len(ledger[t].log)))
  BY DEF LeadsNow
<1>4. ledger'[t] = entry /\ \A u \in Creator : u # t => ledger'[u] = ledger[u]
  BY <1>1, <1>2 DEF TypeOK
<1> DEFINE old == ledger[t]
           body == asked[r]
<1>5. /\ entry # NULL
      /\ entry.case_id = old.case_id /\ entry.outcome = old.outcome
      /\ Len(entry.log) = Len(old.log) + 1
      /\ \A n \in DOMAIN old.log : entry.log[n] = old.log[n]
      /\ entry.log[Len(old.log) + 1] = Effect(body, state)
  <2>1. /\ old \in Entry /\ body \in ControlBody
        /\ state \in Leads(body.command, Base(old.outcome), StateAt(old, Len(old.log)))
        /\ entry = Longer(old, Effect(body, state))
    BY <1>1, <1>2, <1>3
  <2> HIDE DEF old, body
  <2> QED BY <2>1, LongerEntry
<1> QED BY <1>1, <1>2, <1>4, <1>5

\* A stored trace stays, with its decision and its effects.
LEMMA LogsGrow ==
  ASSUME TypeOK, CreatorsAnswered, [Next]_vars, NEW t \in Creator, Stored(t)
  PROVE  /\ ledger[t] \in Entry /\ ledger'[t] \in Entry /\ ledger'[t] # NULL
         /\ ledger'[t].case_id = ledger[t].case_id /\ ledger'[t].outcome = ledger[t].outcome
         /\ Len(ledger'[t].log) >= Len(ledger[t].log)
         /\ \A n \in DOMAIN ledger[t].log : ledger'[t].log[n] = ledger[t].log[n]
<1>1. ledger[t] \in Entry /\ ledger[t] # NULL
  BY DEF TypeOK, Stored
<1>2. Len(ledger[t].log) \in Nat
  BY <1>1 DEF Entry
<1>3. CASE ledger' = ledger
  BY <1>1, <1>2, <1>3
<1>4. ASSUME NEW r \in Call, Create(r) PROVE ledger'[t] = ledger[t]
  <2>1. ~ Stored(r) /\ \E entry : ledger' = [ledger EXCEPT ![r] = entry]
    BY <1>4, CreateEffect
  <2> QED BY <2>1 DEF TypeOK
<1>5. ASSUME NEW r \in Call, Control(r), asked[r].trace_id # t PROVE ledger'[t] = ledger[t]
  <2>1. \E entry : ledger' = [ledger EXCEPT ![asked[r].trace_id] = entry]
    BY <1>5, ControlEffect
  <2> QED BY <1>5, <2>1 DEF TypeOK
<1>6. ASSUME NEW r \in Call, Control(r), asked[r].trace_id = t
      PROVE  /\ ledger'[t] \in Entry /\ ledger'[t] # NULL
             /\ ledger'[t].case_id = ledger[t].case_id /\ ledger'[t].outcome = ledger[t].outcome
             /\ Len(ledger'[t].log) = Len(ledger[t].log) + 1
             /\ \A n \in DOMAIN ledger[t].log : ledger'[t].log[n] = ledger[t].log[n]
  BY <1>6, ControlLog
<1>7. ledger' = ledger \/ (\E r \in Call : Create(r)) \/ (\E r \in Call : Control(r))
  BY LedgerKept DEF Next, vars
<1> QED BY <1>1, <1>2, <1>3, <1>4, <1>5, <1>6, <1>7

\* As long as the effects before it stay, a state of the past does.
LEMMA PastState ==
  ASSUME NEW e, NEW f, f.outcome = e.outcome,
         \A n \in DOMAIN e.log : f.log[n] = e.log[n], NEW m \in 0..Len(e.log),
         e \in Entry
  PROVE  StateAt(f, m) = StateAt(e, m)
<1>1. m # 0 => m \in DOMAIN e.log
  BY DEF Entry
<1> QED BY <1>1 DEF StateAt

\* A trace appears by its own creation: empty, and of a case not yet known.
LEMMA NewTrace ==
  ASSUME TypeOK, CreatorsAnswered, [Next]_vars, NEW t \in Creator, ~ Stored(t), Stored(t)'
  PROVE  /\ Create(t) /\ Pending(t) /\ ~ CaseKnown(ledger'[t].case_id)
         /\ ledger'[t] \in Entry /\ ledger'[t].log = <<>>
         /\ \A u \in Creator : u # t => ledger'[u] = ledger[u]
         /\ Tell(t, View(t, ledger'[t], 0)) \/ Tell(t, Failure)
<1>1. PICK r \in Call : Create(r) \/ Control(r)
  BY LedgerKept DEF Next, vars, Stored
<1>2. ~ Control(r)
  <2>1. SUFFICES ASSUME Control(r) PROVE FALSE
    OBVIOUS
  <2>2. Stored(asked[r].trace_id) /\ \A u \in Creator : u # asked[r].trace_id => ledger'[u] = ledger[u]
    BY <2>1, ControlLog
  <2> QED BY <2>2 DEF Stored
<1>3. PICK entry \in Entry :
        /\ entry.case_id = asked[r].case_id /\ entry.log = <<>>
        /\ ledger' = [ledger EXCEPT ![r] = entry]
        /\ Tell(r, View(r, entry, 0)) \/ Tell(r, Failure)
  BY <1>1, <1>2, CreateEffect
<1>4. r \in Creator /\ Pending(r) /\ ~ CaseKnown(asked[r].case_id)
  BY <1>1, <1>2, CreateEffect
<1>5. /\ ledger'[r] = entry
      /\ \A u \in Creator : u # r => ledger'[u] = ledger[u]
  BY <1>3, <1>4 DEF TypeOK
<1>6. r = t
  BY <1>5 DEF Stored
<1> QED BY <1>1, <1>2, <1>3, <1>4, <1>5, <1>6

-----------------------------------------------------------------------------
(* Each invariant is kept. *)

\* Who creates a trace is answered in the same step.
LEMMA CreatorsAnsweredStep ==
  ASSUME TypeOK, CreatorsAnswered, [Next]_vars
  PROVE  CreatorsAnswered'
<1>1. SUFFICES ASSUME NEW t \in Creator, Stored(t)' PROVE answer'[t] # NULL
  BY DEF CreatorsAnswered
<1>2. CASE Stored(t)
  <2>1. answer[t] # NULL
    BY <1>2 DEF CreatorsAnswered
  <2> QED BY <2>1, AnswersStay DEF Call
<1>3. CASE ~ Stored(t)
  <2>1. /\ ledger'[t] \in Entry /\ ledger'[t].log = <<>>
        /\ Tell(t, View(t, ledger'[t], 0)) \/ Tell(t, Failure)
    BY <1>1, <1>3, NewTrace
  <2>2. View(t, ledger'[t], 0) \in Answer /\ Failure \in Answer
    BY <2>1, ViewType, ToldType DEF Failure, Kind
  <2> QED BY <2>1, <2>2, NullsAreNot DEF Tell, TypeOK, Call
<1> QED BY <1>2, <1>3

\* A creation goes ahead only for a case nobody has.
LEMMA OneTracePerCaseStep ==
  ASSUME TypeOK, CreatorsAnswered, OneTracePerCase, [Next]_vars
  PROVE  OneTracePerCase'
<1>1. SUFFICES ASSUME NEW t \in Creator, NEW u \in Creator, Stored(t)', Stored(u)',
                      ledger'[t].case_id = ledger'[u].case_id, t # u
               PROVE  FALSE
  BY DEF OneTracePerCase
<1>2. ASSUME NEW v \in Creator, Stored(v) PROVE ledger'[v].case_id = ledger[v].case_id
  BY <1>2, LogsGrow
<1>3. ASSUME NEW v \in Creator, ~ Stored(v), Stored(v)'
      PROVE  \A w \in Creator : w # v /\ Stored(w)' => ledger'[w].case_id # ledger'[v].case_id
  <2>1. ~ CaseKnown(ledger'[v].case_id) /\ \A w \in Creator : w # v => ledger'[w] = ledger[w]
    BY <1>3, NewTrace
  <2> QED BY <2>1 DEF CaseKnown, Stored
<1>4. Stored(t) /\ Stored(u)
  BY <1>1, <1>3
<1> QED BY <1>1, <1>2, <1>4 DEF OneTracePerCase

\* What ViewsStayTrue says of one answer.
ViewTrue(q) ==
  LET t == IF q \in Creator THEN q ELSE asked[q].trace_id
      n == answer[q].effects
  IN  /\ Stored(t) /\ n \in 0..Len(Log(t))
      /\ answer[q] = View(t, ledger[t], n)
      /\ q \in Controller /\ asked[q].idempotency_key # NULL =>
           n # 0 /\ Log(t)[n].key = asked[q].idempotency_key
                 /\ Log(t)[n].intent = Intent(asked[q])

\* An answer that was true stays true: what it counts stays in its place.
LEMMA OldViewsStayTrue ==
  ASSUME TypeOK, CreatorsAnswered, [Next]_vars, NEW q \in Call, answer[q] # NULL, ViewTrue(q)
  PROVE  ViewTrue(q)'
<1> DEFINE t == IF q \in Creator THEN q ELSE asked[q].trace_id
           n == answer[q].effects
<1>1. answer'[q] = answer[q] /\ asked'[q] = asked[q]
  BY AnswersStay
<1>2. t \in Creator
  <2>1. asked[q] \in (IF q \in Creator THEN Submission
                      ELSE IF q \in Controller THEN ControlBody ELSE Lookup)
    BY DEF TypeOK
  <2> QED BY <2>1 DEF ControlBody, Lookup
<1>3. /\ Stored(t) /\ n \in 0..Len(Log(t))
      /\ answer[q] = View(t, ledger[t], n)
      /\ q \in Controller /\ asked[q].idempotency_key # NULL =>
           n # 0 /\ Log(t)[n].key = asked[q].idempotency_key
                 /\ Log(t)[n].intent = Intent(asked[q])
  BY DEF ViewTrue
<1> HIDE DEF t, n
<1>4. /\ ledger[t] \in Entry /\ ledger'[t] \in Entry /\ ledger'[t] # NULL
      /\ ledger'[t].outcome = ledger[t].outcome
      /\ Len(ledger'[t].log) >= Len(ledger[t].log)
      /\ \A m \in DOMAIN ledger[t].log : ledger'[t].log[m] = ledger[t].log[m]
  BY <1>2, <1>3, LogsGrow
<1>5. /\ n \in 0..Len(ledger[t].log) /\ n \in 0..Len(ledger'[t].log)
      /\ n # 0 => n \in DOMAIN ledger[t].log
  BY <1>3, <1>4 DEF Log, Entry
<1>6. StateAt(ledger'[t], n) = StateAt(ledger[t], n)
  BY <1>4, <1>5, PastState
<1>7. answer'[q] = View(t, ledger'[t], n)
  BY <1>1, <1>3, <1>6 DEF View
<1>8. q \in Controller /\ asked'[q].idempotency_key # NULL =>
        n # 0 /\ ledger'[t].log[n].key = asked'[q].idempotency_key
              /\ ledger'[t].log[n].intent = Intent(asked'[q])
  BY <1>1, <1>3, <1>4, <1>5 DEF Log
<1>9. /\ t = IF q \in Creator THEN q ELSE asked'[q].trace_id
      /\ n = answer'[q].effects
  BY <1>1 DEF t, n
<1> QED BY <1>4, <1>5, <1>7, <1>8, <1>9 DEF ViewTrue, Stored, Log

\* Only the call that acts is answered.
LEMMA OthersWait ==
  ASSUME TypeOK, CreatorsAnswered, NEW r \in Call, NEW q \in Call, Act(r), q # r
  PROVE  answer'[q] = answer[q]
<1>1. CASE Ask(r)
  BY <1>1 DEF Ask, TypeOK
<1>2. CASE ~ Ask(r)
  <2>1. \E a : Tell(r, a)
    BY <1>2, CreateEffect, ControlEffect
       DEF Act, RefuseCase, RefuseUnknown, RefuseIllegal, RefuseReuse, Replay, Read, Fail
  <2> QED BY <2>1 DEF Tell, TypeOK
<1> QED BY <1>1, <1>2

\* What a call is shown is true when it is shown.
LEMMA NewViewsTrue ==
  ASSUME TypeOK, CreatorsAnswered, NEW q \in Call, Act(q), answer[q] = NULL, Shown(q)'
  PROVE  ViewTrue(q)'
<1> DEFINE t == asked[q].trace_id
<1>0. ASSUME NEW a, Tell(q, a) PROVE answer'[q] = a /\ asked' = asked
  BY <1>0 DEF Tell, TypeOK
<1>1. CASE Ask(q)
  <2>1. answer' = answer \/ answer' = [answer EXCEPT ![q] = Told("invalid")]
    BY <1>1 DEF Ask
  <2>2. answer'[q] = NULL \/ answer'[q] = Told("invalid")
    BY <2>1 DEF TypeOK
  <2> QED BY <2>2 DEF Shown, Told
<1>2. CASE Create(q)
  <2>1. q \in Creator /\ ~ Stored(q)
    BY <1>2, CreateEffect
  <2>2. PICK entry \in Entry :
          /\ entry # NULL /\ entry.log = <<>> /\ ledger' = [ledger EXCEPT ![q] = entry]
          /\ Tell(q, View(q, entry, 0)) \/ Tell(q, Failure)
    BY <1>2, CreateEffect
  <2>3. ledger'[q] = entry
    BY <2>1, <2>2 DEF TypeOK
  <2>4. answer'[q] = View(q, entry, 0)
    BY <1>0, <2>2 DEF Shown, Failure, Told
  <2>5. answer'[q].effects = 0 /\ 0 \in 0..Len(entry.log)
    BY <2>2, <2>4 DEF View
  <2>6. q \notin Controller
    BY <2>1, CallAssumption
  <2> QED BY <2>1, <2>2, <2>3, <2>4, <2>5, <2>6 DEF ViewTrue, Stored, Log
<1>3. CASE Control(q)
  <2>1. q \in Controller /\ q \notin Creator /\ asked' = asked
    BY <1>3, ControlEffect, CallAssumption
  <2>2. /\ ledger[t] \in Entry /\ ledger'[t] \in Entry /\ ledger'[t] # NULL
        /\ Len(ledger'[t].log) = Len(ledger[t].log) + 1
        /\ \/ Tell(q, View(t, ledger'[t], Len(ledger'[t].log)))
           \/ Tell(q, Failure)
    BY <1>3, ControlLog
  <2>3. PICK state \in LeadsNow(asked[q]) :
          ledger'[t].log[Len(ledger[t].log) + 1] = Effect(asked[q], state)
    BY <1>3, ControlLog
  <2> DEFINE n == Len(ledger'[t].log)
  <2>4. answer'[q] = View(t, ledger'[t], n)
    BY <1>0, <2>2 DEF Shown, Failure, Told
  <2>5. answer'[q].effects = n /\ n \in 0..Len(ledger'[t].log) /\ n # 0
    BY <2>2, <2>4 DEF View, Entry
  <2>6. /\ ledger'[t].log[n].key = asked[q].idempotency_key
        /\ asked[q].idempotency_key # NULL => ledger'[t].log[n].intent = Intent(asked[q])
    BY <2>2, <2>3 DEF Effect
  <2> HIDE DEF n
  <2> QED BY <2>1, <2>2, <2>4, <2>5, <2>6 DEF ViewTrue, Stored, Log
<1>4. CASE Replay(q)
  <2>1. Pending(q) /\ q \in Controller /\ Stored(t) /\ ledger' = ledger /\ q \notin Creator
    BY <1>4, CallAssumption DEF Replay
  <2>2. t \in Creator /\ ledger[t] \in Entry
    BY <2>1, Requests DEF ControlBody, TypeOK, Stored
  <2>3. PICK n \in ActedAt(asked[q]) :
          Log(t)[n].intent = Intent(asked[q]) /\ Tell(q, View(t, ledger[t], n))
    BY <1>4 DEF Replay
  <2>4. n \in DOMAIN Log(t) /\ Log(t)[n].key = asked[q].idempotency_key
    BY <2>3 DEF ActedAt
  <2>5. answer'[q] = View(t, ledger[t], n) /\ asked' = asked
    BY <1>0, <2>3
  <2>6. answer'[q].effects = n /\ n \in 0..Len(ledger[t].log) /\ n # 0
    BY <2>2, <2>4, <2>5 DEF View, Entry, Log
  <2> QED BY <2>1, <2>3, <2>4, <2>5, <2>6 DEF ViewTrue, Stored, Log
<1>5. CASE Read(q)
  <2>1. /\ Pending(q) /\ q \in Reader /\ Stored(t) /\ ledger' = ledger
        /\ q \notin Creator /\ q \notin Controller
    BY <1>5, CallAssumption DEF Read
  <2>2. t \in Creator /\ ledger[t] \in Entry
    BY <2>1, Requests DEF Lookup, TypeOK, Stored
  <2>3. Tell(q, View(t, ledger[t], Len(Log(t))))
    BY <1>5 DEF Read
  <2>4. answer'[q] = View(t, ledger[t], Len(Log(t))) /\ asked' = asked
    BY <1>0, <2>3
  <2>5. answer'[q].effects = Len(Log(t)) /\ Len(Log(t)) \in 0..Len(Log(t))
    BY <2>2, <2>4 DEF View, Entry, Log
  <2> QED BY <2>1, <2>4, <2>5 DEF ViewTrue, Stored, Log
<1>6. CASE RefuseCase(q) \/ RefuseUnknown(q) \/ RefuseIllegal(q) \/ RefuseReuse(q) \/ Fail(q)
  <2>1. PICK kind \in Kind \ {"view"} : Tell(q, Told(kind))
    BY <1>6 DEF RefuseCase, RefuseUnknown, RefuseIllegal, RefuseReuse, Fail, Failure, Kind
  <2>2. answer'[q] = Told(kind)
    BY <1>0, <2>1
  <2> QED BY <2>1, <2>2 DEF Shown, Told
<1> QED BY <1>1, <1>2, <1>3, <1>4, <1>5, <1>6 DEF Act

\* Old answers stay true and new ones are.
LEMMA ViewsStayTrueStep ==
  ASSUME TypeOK, CreatorsAnswered, ViewsStayTrue, [Next]_vars
  PROVE  ViewsStayTrue'
<1>1. SUFFICES ASSUME NEW q \in Call, Shown(q)' PROVE ViewTrue(q)'
  BY DEF ViewsStayTrue, ViewTrue
<1>2. CASE answer[q] # NULL
  <2>1. Shown(q)
    BY <1>1, <1>2, AnswersStay DEF Shown
  <2>2. ViewTrue(q)
    BY <2>1 DEF ViewsStayTrue, ViewTrue
  <2> QED BY <1>2, <2>2, OldViewsStayTrue
<1>3. CASE answer[q] = NULL
  <2>1. answer'[q] # answer[q]
    BY <1>1, <1>3 DEF Shown
  <2>2. Act(q)
    BY <2>1, OthersWait DEF Next, vars
  <2> QED BY <1>1, <1>3, <2>2, NewViewsTrue
<1> QED BY <1>2, <1>3

-----------------------------------------------------------------------------
(* The theorems. *)

\* The invariant holds in the initial state and is kept by every step.
LEMMA Invariance == Spec => []Inv
<1>1. Init => Inv
  <2>1. SUFFICES ASSUME Init PROVE Inv
    OBVIOUS
  <2>2. /\ \A t \in Creator : ~ Stored(t)
        /\ \A r \in Call : asked[r] = NULL /\ answer[r] = NULL
    BY <2>1 DEF Init, Stored, Call
  <2>3. TypeOK
    BY <2>1, <2>2 DEF Init, TypeOK
  <2> QED BY <2>2, <2>3
        DEF Inv, CreatorsAnswered, OneTracePerCase, ViewsStayTrue, Shown
<1>2. Inv /\ [Next]_vars => Inv'
  BY TypeStep, CreatorsAnsweredStep, OneTracePerCaseStep, ViewsStayTrueStep
  DEF Inv
<1> QED BY <1>1, <1>2, PTL DEF Spec

\* Ledger, requests and answers keep their shapes, and nobody is answered who
\* did not ask.
THEOREM LedgerTypes == Spec => []TypeOK
BY Invariance, PTL DEF Inv

\* However many creations race with one case_id, it names one trace.
THEOREM LedgerOneTracePerCase == Spec => []OneTracePerCase
BY Invariance, PTL DEF Inv

\* What a client was shown is true of its trace for ever, and a retry is shown
\* the effect of its own key and intent.
THEOREM LedgerViewsStayTrue == Spec => []ViewsStayTrue
BY Invariance, PTL DEF Inv

\* No call takes back a trace, its decision or an effect.
THEOREM LedgerOnlyGrows == Spec => HistoriesOnlyGrow
<1> DEFINE Grow == \A t \in Creator : Stored(t) =>
       /\ ledger'[t] # NULL
       /\ ledger'[t].case_id = ledger[t].case_id /\ ledger'[t].outcome = ledger[t].outcome
       /\ Len(ledger'[t].log) >= Len(Log(t))
       /\ \A n \in DOMAIN Log(t) : ledger'[t].log[n] = Log(t)[n]
<1>1. Inv /\ [Next]_vars => [Grow]_vars
  BY LogsGrow DEF Inv, Log
<1> HIDE DEF Grow
<1>2. Spec => [][Grow]_vars
  BY <1>1, Invariance, PTL DEF Spec
<1> QED BY <1>2 DEF HistoriesOnlyGrow, Grow
=============================================================================
