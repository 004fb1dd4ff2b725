------------------------ MODULE ConnectionPoolProofs ------------------------
(***************************************************************************)
(* ConnectionPool for every number of calls, workers, pooled connections   *)
(* and crashes: no connection leaks, and who is told of an outage or of a  *)
(* full pool has met one.                                                  *)
(*                                                                         *)
(* The argument: what a call holds can be read off where it is, so every   *)
(* step moves one connection between the queue, a call and the outside,    *)
(* and the counter with it.  A full counter and an empty queue then mean   *)
(* that as many calls hold connections as the pool may open, and the call  *)
(* that waits is one more in flight.                                       *)
(***************************************************************************)
EXTENDS ConnectionPool, FiniteSetTheorems, TLAPS

-----------------------------------------------------------------------------
(* The inductive invariant, in three parts. *)

\* What a call holds, by where it is.
Shape(c) ==
  /\ conn[c] # "none" => pc[c] \in {"locking", "working", "returned", "closing"}
  /\ pc[c] \in {"locking", "working"} => conn[c] # "none"
  /\ pc[c] = "locking" => c \in CommandCall

Accounted == TypeOK /\ open = Idle + Cardinality(Holders) /\ \A c \in Call : Shape(c)

\* Who holds a dead connection or is under way while the database is down has
\* met the outage.
Outages ==
  \A c \in Call :
    /\ conn[c] = "dead" => "outage" \in seen[c]
    /\ c \in InFlight /\ ~ dbUp => "outage" \in seen[c]
    /\ answer[c] = "dberror" => "outage" \in seen[c]

\* When more calls are in flight than the pool has connections, all have met.
Crowds ==
  /\ Cardinality(InFlight) > Limit => \A c \in InFlight : "crowd" \in seen[c]
  /\ \A c \in Call : /\ answer[c] = "timeout" => "crowd" \in seen[c]
                     /\ answer[c] = "unreachable" => seen[c] # {}

Inv == Accounted /\ Outages /\ Crowds

-----------------------------------------------------------------------------
(* Counting. *)

LEMMA FiniteCalls ==
  ASSUME NEW S, S \subseteq Call
  PROVE  IsFiniteSet(S) /\ Cardinality(S) \in Nat
PROOF
BY CallAssumption, FS_Subset, FS_CardinalityType

\* One call more, one call less.
LEMMA OneMore ==
  ASSUME NEW S, S \subseteq Call, NEW c \in Call, c \notin S
  PROVE  Cardinality(S \cup {c}) = Cardinality(S) + 1
PROOF
BY FiniteCalls, FS_AddElement

LEMMA OneLess ==
  ASSUME NEW S, S \subseteq Call, NEW c \in S
  PROVE  Cardinality(S \ {c}) = Cardinality(S) - 1 /\ Cardinality(S) >= 1
PROOF
<1>1. IsFiniteSet(S) /\ Cardinality(S) \in Nat /\ Cardinality(S \ {c}) \in Nat
  BY FiniteCalls
<1>2. Cardinality(S \ {c}) = Cardinality(S) - 1
  BY <1>1, FS_RemoveElement
<1> QED
  BY <1>1, <1>2

LEMMA FewerCalls ==
  ASSUME NEW S, NEW T, S \subseteq T, T \subseteq Call
  PROVE  Cardinality(S) <= Cardinality(T)
PROOF
BY FiniteCalls, FS_Subset

-----------------------------------------------------------------------------
(* A step of call c, seen from the pool. *)

Answers == {NULL, "ok", "dberror", "timeout", "reachable", "unreachable"}
Kinds == {"none", "live", "dead"}
Queues == [live : 0..PoolSize, dead : 0..PoolSize]

Holds(kind, label) == kind # "none" \/ label = "connecting"

\* The set of holders after a step that only c takes, and its size.
LEMMA HoldersAfter ==
  ASSUME Accounted, NEW c \in Call, NEW label, NEW kind,
         pc' = [pc EXCEPT ![c] = label], conn' = [conn EXCEPT ![c] = kind]
  PROVE  Cardinality(Holders') - Cardinality(Holders)
           = (IF Holds(kind, label) THEN 1 ELSE 0) - (IF c \in Holders THEN 1 ELSE 0)
PROOF
<1>1. pc \in [Call -> Label] /\ conn \in [Call -> Kinds]
  BY DEF Accounted, TypeOK, Kinds
<1>2. /\ pc'[c] = label /\ conn'[c] = kind
      /\ \A d \in Call \ {c} : pc'[d] = pc[d] /\ conn'[d] = conn[d]
  BY <1>1
<1>3. Holders \subseteq Call /\ Cardinality(Holders) \in Nat
  BY FiniteCalls DEF Holders
<1>4. CASE Holds(kind, label) /\ c \notin Holders
  <2>1. Holders' = Holders \cup {c}
    BY <1>2, <1>4 DEF Holders, Holds
  <2>2. Cardinality(Holders \cup {c}) = Cardinality(Holders) + 1
    BY <1>3, <1>4, OneMore
  <2> QED
    BY <1>3, <1>4, <2>1, <2>2
<1>5. CASE Holds(kind, label) /\ c \in Holders
  <2>1. Holders' = Holders
    BY <1>2, <1>5 DEF Holders, Holds
  <2> QED
    BY <1>3, <1>5, <2>1
<1>6. CASE ~ Holds(kind, label) /\ c \in Holders
  <2>1. Holders' = Holders \ {c}
    BY <1>2, <1>6 DEF Holders, Holds
  <2>2. Cardinality(Holders \ {c}) = Cardinality(Holders) - 1
    BY <1>3, <1>6, OneLess
  <2> QED
    BY <1>3, <1>6, <2>1, <2>2
<1>7. CASE ~ Holds(kind, label) /\ c \notin Holders
  <2>1. Holders' = Holders
    BY <1>2, <1>7 DEF Holders, Holds
  <2> QED
    BY <1>3, <1>7, <2>1
<1> QED
  BY <1>4, <1>5, <1>6, <1>7

\* c goes to a label, with one connection or none in hand.
Moves(c, label, kind, what) ==
  /\ c \in InFlight /\ UNCHANGED database
  /\ pc' = [pc EXCEPT ![c] = label]
  /\ conn' = [conn EXCEPT ![c] = kind]
  /\ answer' = [answer EXCEPT ![c] = what]

\* The two fit.
Fits(c, label, kind) ==
  /\ label \in Label \ {"idle"} /\ kind \in {"none", "live", conn[c]}
  /\ kind # "none" => label \in {"locking", "working", "returned", "closing"}
  /\ label \in {"locking", "working"} => kind # "none"
  /\ label = "locking" => c \in CommandCall

\* What it moved is counted.
Counts(c, label, kind) ==
  /\ rowLock' \in CommandCall \cup {NULL}
  /\ idle' \in Queues /\ Idle' <= PoolSize /\ open' \in Int /\ open' <= Limit
  /\ open' - Idle' = open - Idle + (IF Holds(kind, label) THEN 1 ELSE 0)
                                 - (IF c \in Holders THEN 1 ELSE 0)

\* Its client is told nothing that c has not met.
Tells(c, what) ==
  /\ what \in Answers
  /\ what = "dberror" => "outage" \in seen[c]
  /\ what = "timeout" => "crowd" \in seen[c]
  /\ what = "unreachable" => seen[c] # {}

Move(c, label, kind, what) ==
  Moves(c, label, kind, what) /\ Fits(c, label, kind) /\ Counts(c, label, kind) /\ Tells(c, what)

\* Such a step keeps the invariant.
LEMMA CallKeeps ==
  ASSUME Inv, NEW c \in Call, NEW label, NEW kind, NEW what, Move(c, label, kind, what)
  PROVE  Inv'
PROOF
<1> USE DEF Move, Moves, Fits, Counts, Tells
<1>1. TypeOK /\ open = Idle + Cardinality(Holders) /\ \A d \in Call : Shape(d)
  BY DEF Inv, Accounted
<1>2. /\ pc \in [Call -> Label] /\ conn \in [Call -> Kinds] /\ answer \in [Call -> Answers]
      /\ idle \in Queues /\ open \in Int /\ conn[c] \in Kinds
  BY <1>1, SizeAssumption DEF TypeOK, Kinds, Answers, Queues, Limit
<1>3. kind \in Kinds
  BY <1>2 DEF Kinds
<1>4. /\ pc'[c] = label /\ conn'[c] = kind /\ answer'[c] = what
      /\ \A d \in Call \ {c} : pc'[d] = pc[d] /\ conn'[d] = conn[d] /\ answer'[d] = answer[d]
  BY <1>2
<1>5. seen' = seen /\ dbUp' = dbUp /\ crashes' = crashes
  BY DEF database
<1>6. Idle \in Int /\ Idle' \in Nat
  BY <1>2, SizeAssumption DEF Queues, Idle
<1>7. Cardinality(Holders) \in Nat /\ Cardinality(Holders') \in Nat
  BY FiniteCalls DEF Holders
<1>8. open' = Idle' + Cardinality(Holders')
  <2>1. Cardinality(Holders') - Cardinality(Holders)
          = (IF Holds(kind, label) THEN 1 ELSE 0) - (IF c \in Holders THEN 1 ELSE 0)
    BY HoldersAfter DEF Inv
  <2> QED
    BY <1>1, <1>2, <1>6, <1>7, <2>1
<1>9. TypeOK'
  <2>1. open' \in 0..Limit
    BY <1>6, <1>7, <1>8, SizeAssumption DEF Limit
  <2>2. pc' \in [Call -> Label] /\ conn' \in [Call -> Kinds] /\ answer' \in [Call -> Answers]
    BY <1>2, <1>3
  <2> QED
    BY <1>1, <1>5, <2>1, <2>2 DEF TypeOK, Kinds, Answers, Queues
<1>10. \A d \in Call : Shape(d)'
  BY <1>1, <1>4 DEF Shape
<1>11. InFlight' \subseteq InFlight /\ InFlight \subseteq Call
  BY <1>4 DEF InFlight
<1>12. Outages'
  <2>1. Outages /\ (kind = "dead" => conn[c] = "dead")
    BY DEF Inv
  <2>2. \A d \in Call : conn'[d] = "dead" => "outage" \in seen'[d]
    BY <1>4, <1>5, <2>1 DEF Outages
  <2>3. \A d \in Call : d \in InFlight' /\ ~ dbUp' => "outage" \in seen'[d]
    BY <1>5, <1>11, <2>1 DEF Outages
  <2>4. \A d \in Call : answer'[d] = "dberror" => "outage" \in seen'[d]
    BY <1>4, <1>5, <2>1 DEF Outages
  <2> QED
    BY <2>2, <2>3, <2>4 DEF Outages
<1>13. Crowds'
  <2>1. Crowds
    BY DEF Inv
  <2>2. Cardinality(InFlight') > Limit => Cardinality(InFlight) > Limit
    BY <1>11, FewerCalls, FiniteCalls, SizeAssumption DEF Limit
  <2>3. Cardinality(InFlight') > Limit => \A d \in InFlight' : "crowd" \in seen'[d]
    BY <1>5, <1>11, <2>1, <2>2 DEF Crowds
  <2>4. \A d \in Call : /\ answer'[d] = "timeout" => "crowd" \in seen'[d]
                        /\ answer'[d] = "unreachable" => seen'[d] # {}
    BY <1>4, <1>5, <2>1 DEF Crowds
  <2> QED
    BY <2>3, <2>4 DEF Crowds
<1> QED
  BY <1>8, <1>9, <1>10, <1>12, <1>13 DEF Inv, Accounted

\* What GiveBack does to the counts: one connection fewer outside the queue.
LEMMA GivenBack ==
  ASSUME Inv, NEW c \in Call, conn[c] # "none", GiveBack(c)
  PROVE  /\ conn' = [conn EXCEPT ![c] = "none"] /\ c \in Holders
         /\ idle' \in Queues /\ Idle' <= PoolSize /\ open' \in Int /\ open' <= Limit
         /\ open' - Idle' = open - Idle - 1
PROOF
<1>1. /\ conn[c] \in {"live", "dead"} /\ idle \in Queues /\ Idle <= PoolSize
      /\ open \in 0..Limit /\ Limit \in Nat
  BY SizeAssumption DEF Inv, Accounted, TypeOK, Queues, Limit
<1>2. conn' = [conn EXCEPT ![c] = "none"] /\ c \in Holders
  BY DEF GiveBack, Holders
<1>3. CASE Idle < PoolSize
  <2>1. idle' = [idle EXCEPT ![conn[c]] = @ + 1] /\ open' = open
    BY <1>3 DEF GiveBack
  <2>2. CASE conn[c] = "live"
    BY <1>1, <1>2, <1>3, <2>1, <2>2, SizeAssumption DEF Queues, Idle
  <2>3. CASE conn[c] = "dead"
    BY <1>1, <1>2, <1>3, <2>1, <2>3, SizeAssumption DEF Queues, Idle
  <2> QED
    BY <1>1, <2>2, <2>3
<1>4. CASE ~ (Idle < PoolSize)
  <2>1. idle' = idle /\ open' = open - 1
    BY <1>4 DEF GiveBack
  <2> QED
    BY <1>1, <1>2, <2>1, SizeAssumption DEF Queues, Idle
<1> QED
  BY <1>3, <1>4

\* An unchanged function, as an update of c.
LEMMA Unmoved ==
  ASSUME Inv, NEW c \in Call
  PROVE  /\ conn = [conn EXCEPT ![c] = conn[c]]
         /\ answer = [answer EXCEPT ![c] = answer[c]]
PROOF
BY DEF Inv, Accounted, TypeOK

\* The facts every step of c starts from.
LEMMA Before ==
  ASSUME Inv, NEW c \in Call
  PROVE  /\ pc[c] \in Label /\ conn[c] \in Kinds /\ answer[c] \in Answers /\ Shape(c)
         /\ rowLock \in CommandCall \cup {NULL}
         /\ idle \in Queues /\ Idle \in Nat /\ Idle <= PoolSize
         /\ open \in Int /\ open <= Limit
         /\ answer[c] = "dberror" => "outage" \in seen[c]
         /\ answer[c] = "timeout" => "crowd" \in seen[c]
         /\ answer[c] = "unreachable" => seen[c] # {}
         /\ conn[c] = "dead" => "outage" \in seen[c]
         /\ c \in InFlight /\ ~ dbUp => "outage" \in seen[c]
         /\ c \in Holders <=> Holds(conn[c], pc[c])
PROOF
<1>1. TypeOK /\ Shape(c) /\ Outages /\ Crowds
  BY DEF Inv, Accounted
<1>2. /\ pc[c] \in Label /\ conn[c] \in Kinds /\ answer[c] \in Answers
      /\ rowLock \in CommandCall \cup {NULL}
  BY <1>1 DEF TypeOK, Kinds, Answers
<1>3. idle \in Queues /\ Idle \in Nat /\ Idle <= PoolSize /\ open \in Int /\ open <= Limit
  BY <1>1, SizeAssumption DEF TypeOK, Queues, Idle, Limit
<1> QED
  BY <1>1, <1>2, <1>3 DEF Outages, Crowds, Holders, Holds

-----------------------------------------------------------------------------
(* The steps of a call. *)

LEMMA StartHandlerStep ==
  ASSUME Inv, NEW c \in Call, StartHandler(c)
  PROVE  Inv'
PROOF
<1>1. pc[c] = "queued" /\ pc' = [pc EXCEPT ![c] = "checkout"]
      /\ UNCHANGED <<answer, conn, idle, open, rowLock, database>>
  BY DEF StartHandler
<1>2. conn[c] = "none" /\ c \in InFlight /\ c \notin Holders
  BY <1>1, Before DEF Shape, Holds, InFlight
<1>3. conn' = [conn EXCEPT ![c] = "none"] /\ answer' = [answer EXCEPT ![c] = answer[c]]
  BY <1>1, <1>2, Unmoved
<1>4. idle' = idle /\ Idle' = Idle /\ open' = open /\ rowLock' = rowLock
  BY <1>1 DEF Idle
<1>5. Moves(c, "checkout", "none", answer[c])
  BY <1>1, <1>2, <1>3, <1>4, Before DEF Moves, database
<1>6. Fits(c, "checkout", "none")
  BY <1>1, <1>2, <1>3, <1>4, Before DEF Fits, Label, InHandler
<1>7. Counts(c, "checkout", "none")
  BY <1>1, <1>2, <1>3, <1>4, Before DEF Counts, Holds
<1>8. Tells(c, answer[c])
  BY <1>1, <1>2, <1>3, <1>4, Before DEF Tells
<1> QED
  BY <1>5, <1>6, <1>7, <1>8, CallKeeps DEF Move

\* With the database up an idle connection, replaced if it is dead, goes from the
\* queue to c; with the database down nothing moves and c is told.
LEMMA TakeIdleStep ==
  ASSUME Inv, NEW c \in Call, TakeIdle(c)
  PROVE  Inv'
PROOF
<1>1. pc[c] \in {"checkout", "waiting"} /\ UNCHANGED <<open, rowLock, database>>
  BY DEF TakeIdle
<1>2. conn[c] = "none" /\ c \in InFlight /\ c \notin Holders
  BY <1>1, Before DEF Shape, Holds, InFlight
<1>3. PICK kind \in {"live", "dead"} : idle[kind] > 0 /\ PrePing(c, kind)
  BY DEF TakeIdle
<1>4. CASE dbUp
  <2>1. /\ conn' = [conn EXCEPT ![c] = "live"] /\ pc' = [pc EXCEPT ![c] = Connected(c)]
        /\ idle' = [idle EXCEPT ![kind] = @ - 1] /\ answer' = answer
    BY <1>3, <1>4 DEF PrePing
  <2>2. answer' = [answer EXCEPT ![c] = answer[c]]
    BY <2>1, Unmoved
  <2>3. idle' \in Queues /\ Idle' <= PoolSize /\ Idle' = Idle - 1
    <3>1. CASE kind = "live"
      BY <1>3, <2>1, <3>1, Before, SizeAssumption DEF Queues, Idle
    <3>2. CASE kind = "dead"
      BY <1>3, <2>1, <3>2, Before, SizeAssumption DEF Queues, Idle
    <3> QED
      BY <1>3, <3>1, <3>2
  <2>4. Connected(c) \in {"locking", "working"} /\ (Connected(c) = "locking" => c \in CommandCall)
    BY DEF Connected
  <2>5. open' = open /\ rowLock' = rowLock
    BY <1>1
  <2>6. open' - Idle' = open - Idle + 1
    BY <2>3, <2>5, Before
  <2>7. Moves(c, Connected(c), "live", answer[c])
    BY <1>1, <1>2, <2>1, <2>2, <2>3, <2>4, <2>5, <2>6, Before DEF Moves, database
  <2>8. Fits(c, Connected(c), "live")
    BY <1>1, <1>2, <2>1, <2>2, <2>3, <2>4, <2>5, <2>6, Before DEF Fits, Label, InHandler
  <2>9. Counts(c, Connected(c), "live")
    BY <1>1, <1>2, <2>1, <2>2, <2>3, <2>4, <2>5, <2>6, Before DEF Counts, Holds
  <2>10. Tells(c, answer[c])
    BY <1>1, <1>2, <2>1, <2>2, <2>3, <2>4, <2>5, <2>6, Before DEF Tells
  <2> QED
    BY <2>7, <2>8, <2>9, <2>10, CallKeeps DEF Move
<1>5. CASE ~ dbUp
  <2> DEFINE what == IF c \in ProbeCall THEN "unreachable" ELSE "dberror"
  <2>1. /\ pc' = [pc EXCEPT ![c] = "done"] /\ answer' = [answer EXCEPT ![c] = what]
        /\ conn' = conn /\ idle' = idle
    BY <1>3, <1>5 DEF PrePing, Refused
  <2>2. conn' = [conn EXCEPT ![c] = "none"]
    BY <1>2, <2>1, Unmoved
  <2>3. "outage" \in seen[c]
    BY <1>2, <1>5, Before
  <2>4. Idle' = Idle /\ open' = open /\ rowLock' = rowLock
    BY <1>1, <2>1 DEF Idle
  <2>5. what \in Answers \ {"timeout"}
    BY DEF Answers
  <2> HIDE DEF what
  <2>6. Moves(c, "done", "none", what)
    BY <1>1, <1>2, <2>1, <2>2, <2>3, <2>4, <2>5, Before DEF Moves, database
  <2>7. Fits(c, "done", "none")
    BY <1>1, <1>2, <2>1, <2>2, <2>3, <2>4, <2>5, Before DEF Fits, Label
  <2>8. Counts(c, "done", "none")
    BY <1>1, <1>2, <2>1, <2>2, <2>3, <2>4, <2>5, Before DEF Counts, Holds
  <2>9. Tells(c, what)
    BY <1>1, <1>2, <2>1, <2>2, <2>3, <2>4, <2>5, Before DEF Tells
  <2> QED
    BY <2>6, <2>7, <2>8, <2>9, CallKeeps DEF Move
<1> QED
  BY <1>4, <1>5

LEMMA OpenOrWaitStep ==
  ASSUME Inv, NEW c \in Call, OpenOrWait(c)
  PROVE  Inv'
PROOF
<1>1. /\ pc[c] = "checkout" /\ UNCHANGED <<answer, conn, idle, rowLock, database>>
      /\ Idle' = Idle
  BY DEF OpenOrWait, Idle
<1>2. conn[c] = "none" /\ c \in InFlight /\ c \notin Holders
  BY <1>1, Before DEF Shape, Holds, InFlight
<1>3. conn' = [conn EXCEPT ![c] = "none"] /\ answer' = [answer EXCEPT ![c] = answer[c]]
  BY <1>1, <1>2, Unmoved
<1>4. CASE open < Limit
  <2>1. open' = open + 1 /\ pc' = [pc EXCEPT ![c] = "connecting"]
    BY <1>4 DEF OpenOrWait
  <2>2. open' \in Int /\ open' <= Limit
    BY <1>4, <2>1, Before, SizeAssumption DEF Limit
  <2>3. Moves(c, "connecting", "none", answer[c])
    BY <1>1, <1>2, <1>3, <2>1, <2>2, Before DEF Moves, database
  <2>4. Fits(c, "connecting", "none")
    BY <1>1, <1>2, <1>3, <2>1, <2>2, Before DEF Fits, Label, InHandler
  <2>5. Counts(c, "connecting", "none")
    BY <1>1, <1>2, <1>3, <2>1, <2>2, Before DEF Counts, Holds
  <2>6. Tells(c, answer[c])
    BY <1>1, <1>2, <1>3, <2>1, <2>2, Before DEF Tells
  <2> QED
    BY <2>3, <2>4, <2>5, <2>6, CallKeeps DEF Move
<1>5. CASE ~ (open < Limit)
  <2>1. open' = open /\ pc' = [pc EXCEPT ![c] = "waiting"]
    BY <1>5 DEF OpenOrWait
  <2>2. Moves(c, "waiting", "none", answer[c])
    BY <1>1, <1>2, <1>3, <2>1, Before DEF Moves, database
  <2>3. Fits(c, "waiting", "none")
    BY <1>1, <1>2, <1>3, <2>1, Before DEF Fits, Label, InHandler
  <2>4. Counts(c, "waiting", "none")
    BY <1>1, <1>2, <1>3, <2>1, Before DEF Counts, Holds
  <2>5. Tells(c, answer[c])
    BY <1>1, <1>2, <1>3, <2>1, Before DEF Tells
  <2> QED
    BY <2>2, <2>3, <2>4, <2>5, CallKeeps DEF Move
<1> QED
  BY <1>4, <1>5

\* A failed attempt gives its place in the counter up.
LEMMA ConnectStep ==
  ASSUME Inv, NEW c \in Call, Connect(c)
  PROVE  Inv'
PROOF
<1>1. pc[c] = "connecting" /\ UNCHANGED <<idle, rowLock, database>> /\ Idle' = Idle
  BY DEF Connect, Idle
<1>2. conn[c] = "none" /\ c \in InFlight /\ c \in Holders
  BY <1>1, Before DEF Shape, Holds, InFlight
<1>3. CASE dbUp
  <2>1. /\ conn' = [conn EXCEPT ![c] = "live"] /\ pc' = [pc EXCEPT ![c] = Connected(c)]
        /\ answer' = answer /\ open' = open
    BY <1>3 DEF Connect
  <2>2. answer' = [answer EXCEPT ![c] = answer[c]]
    BY <2>1, Unmoved
  <2>3. Connected(c) \in {"locking", "working"} /\ (Connected(c) = "locking" => c \in CommandCall)
    BY DEF Connected
  <2>4. Moves(c, Connected(c), "live", answer[c])
    BY <1>1, <1>2, <2>1, <2>2, <2>3, Before DEF Moves, database
  <2>5. Fits(c, Connected(c), "live")
    BY <1>1, <1>2, <2>1, <2>2, <2>3, Before DEF Fits, Label, InHandler
  <2>6. Counts(c, Connected(c), "live")
    BY <1>1, <1>2, <2>1, <2>2, <2>3, Before DEF Counts, Holds
  <2>7. Tells(c, answer[c])
    BY <1>1, <1>2, <2>1, <2>2, <2>3, Before DEF Tells
  <2> QED
    BY <2>4, <2>5, <2>6, <2>7, CallKeeps DEF Move
<1>4. CASE ~ dbUp
  <2> DEFINE what == IF c \in ProbeCall THEN "unreachable" ELSE "dberror"
  <2>1. /\ pc' = [pc EXCEPT ![c] = "done"] /\ answer' = [answer EXCEPT ![c] = what]
        /\ conn' = conn /\ open' = open - 1
    BY <1>4 DEF Connect, Refused
  <2>2. conn' = [conn EXCEPT ![c] = "none"]
    BY <1>2, <2>1, Unmoved
  <2>3. "outage" \in seen[c]
    BY <1>2, <1>4, Before
  <2>4. open' \in Int /\ open' <= Limit /\ open' - Idle' = open - Idle - 1
    BY <1>1, <2>1, Before, SizeAssumption DEF Limit
  <2>5. what \in Answers \ {"timeout"}
    BY DEF Answers
  <2> HIDE DEF what
  <2>6. Moves(c, "done", "none", what)
    BY <1>1, <1>2, <2>1, <2>2, <2>3, <2>4, <2>5, Before DEF Moves, database
  <2>7. Fits(c, "done", "none")
    BY <1>1, <1>2, <2>1, <2>2, <2>3, <2>4, <2>5, Before DEF Fits, Label
  <2>8. Counts(c, "done", "none")
    BY <1>1, <1>2, <2>1, <2>2, <2>3, <2>4, <2>5, Before DEF Counts, Holds
  <2>9. Tells(c, what)
    BY <1>1, <1>2, <2>1, <2>2, <2>3, <2>4, <2>5, Before DEF Tells
  <2> QED
    BY <2>6, <2>7, <2>8, <2>9, CallKeeps DEF Move
<1> QED
  BY <1>3, <1>4

\* Who waits in vain is one more in flight than the connections all others hold.
LEMMA WaitedInACrowd ==
  ASSUME Inv, NEW c \in InFlight, c \notin Holders, Idle = 0, ~ (open < Limit)
  PROVE  "crowd" \in seen[c]
PROOF
<1>1. /\ open = Idle + Cardinality(Holders) /\ open <= Limit /\ open \in Int
      /\ Limit \in Nat
  BY Before, SizeAssumption DEF Inv, Accounted, TypeOK, Limit
<1>2. Holders \subseteq Call /\ InFlight \subseteq Call /\ Holders \cup {c} \subseteq InFlight
  <2>1. \A d \in Call : d \in Holders => d \in InFlight
    BY Before DEF Shape, Holders, InFlight, Inv, Accounted
  <2> QED
    BY <2>1 DEF Holders, InFlight
<1>3. Cardinality(Holders \cup {c}) = Cardinality(Holders) + 1
  BY <1>2, OneMore
<1>4. Cardinality(Holders \cup {c}) <= Cardinality(InFlight)
  BY <1>2, FewerCalls
<1>5. Cardinality(InFlight) > Limit
  BY <1>1, <1>2, <1>3, <1>4, FiniteCalls
<1> QED
  BY <1>5 DEF Inv, Crowds

LEMMA PoolTimeoutStep ==
  ASSUME Inv, NEW c \in Call, PoolTimeout(c)
  PROVE  Inv'
PROOF
<1>1. /\ pc[c] = "waiting" /\ Idle = 0 /\ UNCHANGED <<conn, idle, rowLock, database>>
      /\ Idle' = Idle
  BY DEF PoolTimeout, Idle
<1>2. conn[c] = "none" /\ c \in InFlight /\ c \notin Holders
  BY <1>1, Before DEF Shape, Holds, InFlight
<1>3. conn' = [conn EXCEPT ![c] = "none"]
  BY <1>1, <1>2, Unmoved
<1>4. CASE open < Limit
  <2>1. open' = open + 1 /\ pc' = [pc EXCEPT ![c] = "connecting"] /\ answer' = answer
    BY <1>4 DEF PoolTimeout
  <2>2. answer' = [answer EXCEPT ![c] = answer[c]]
    BY <2>1, Unmoved
  <2>3. open' \in Int /\ open' <= Limit
    BY <1>4, <2>1, Before, SizeAssumption DEF Limit
  <2>4. Moves(c, "connecting", "none", answer[c])
    BY <1>1, <1>2, <1>3, <2>1, <2>2, <2>3, Before DEF Moves, database
  <2>5. Fits(c, "connecting", "none")
    BY <1>1, <1>2, <1>3, <2>1, <2>2, <2>3, Before DEF Fits, Label, InHandler
  <2>6. Counts(c, "connecting", "none")
    BY <1>1, <1>2, <1>3, <2>1, <2>2, <2>3, Before DEF Counts, Holds
  <2>7. Tells(c, answer[c])
    BY <1>1, <1>2, <1>3, <2>1, <2>2, <2>3, Before DEF Tells
  <2> QED
    BY <2>4, <2>5, <2>6, <2>7, CallKeeps DEF Move
<1>5. CASE ~ (open < Limit)
  <2> DEFINE what == IF c \in ProbeCall THEN "unreachable" ELSE "timeout"
  <2>1. /\ pc' = [pc EXCEPT ![c] = "done"] /\ answer' = [answer EXCEPT ![c] = what]
        /\ open' = open
    BY <1>5 DEF PoolTimeout, Refused
  <2>2. "crowd" \in seen[c]
    BY <1>1, <1>2, <1>5, WaitedInACrowd
  <2>3. what \in Answers \ {"dberror"}
    BY DEF Answers
  <2> HIDE DEF what
  <2>4. Moves(c, "done", "none", what)
    BY <1>1, <1>2, <1>3, <2>1, <2>2, <2>3, Before DEF Moves, database
  <2>5. Fits(c, "done", "none")
    BY <1>1, <1>2, <1>3, <2>1, <2>2, <2>3, Before DEF Fits, Label
  <2>6. Counts(c, "done", "none")
    BY <1>1, <1>2, <1>3, <2>1, <2>2, <2>3, Before DEF Counts, Holds
  <2>7. Tells(c, what)
    BY <1>1, <1>2, <1>3, <2>1, <2>2, <2>3, Before DEF Tells
  <2> QED
    BY <2>4, <2>5, <2>6, <2>7, CallKeeps DEF Move
<1> QED
  BY <1>4, <1>5

\* Steps that only move c from one label to another, its connection in hand.
LEMMA LockRowStep ==
  ASSUME Inv, NEW c \in Call, LockRow(c)
  PROVE  Inv'
PROOF
<1>1. /\ pc[c] = "locking" /\ conn[c] = "live" /\ rowLock' = c
      /\ pc' = [pc EXCEPT ![c] = "working"]
      /\ UNCHANGED <<answer, conn, idle, open, database>> /\ Idle' = Idle
  BY DEF LockRow, Idle
<1>2. c \in CommandCall /\ c \in InFlight /\ c \in Holders
  BY <1>1, Before DEF Shape, Holds, InFlight
<1>3. conn' = [conn EXCEPT ![c] = "live"] /\ answer' = [answer EXCEPT ![c] = answer[c]]
  BY <1>1, Unmoved
<1>4. Moves(c, "working", "live", answer[c])
  BY <1>1, <1>2, <1>3, Before DEF Moves, database
<1>5. Fits(c, "working", "live")
  BY <1>1, <1>2, <1>3, Before DEF Fits, Label, InHandler
<1>6. Counts(c, "working", "live")
  BY <1>1, <1>2, <1>3, Before DEF Counts, Holds
<1>7. Tells(c, answer[c])
  BY <1>1, <1>2, <1>3, Before DEF Tells
<1> QED
  BY <1>4, <1>5, <1>6, <1>7, CallKeeps DEF Move

LEMMA ReadRowsStep ==
  ASSUME Inv, NEW c \in Call, ReadRows(c)
  PROVE  Inv'
PROOF
<1>1. /\ pc[c] = "working" /\ conn[c] = "live" /\ pc' = [pc EXCEPT ![c] = "returned"]
      /\ UNCHANGED <<answer, conn, idle, open, rowLock, database>> /\ Idle' = Idle
  BY DEF ReadRows, Idle
<1>2. c \in InFlight /\ c \in Holders
  BY <1>1, Before DEF Holds, InFlight
<1>3. conn' = [conn EXCEPT ![c] = "live"] /\ answer' = [answer EXCEPT ![c] = answer[c]]
  BY <1>1, Unmoved
<1>4. Moves(c, "returned", "live", answer[c])
  BY <1>1, <1>2, <1>3, Before DEF Moves, database
<1>5. Fits(c, "returned", "live")
  BY <1>1, <1>2, <1>3, Before DEF Fits, Label
<1>6. Counts(c, "returned", "live")
  BY <1>1, <1>2, <1>3, Before DEF Counts, Holds
<1>7. Tells(c, answer[c])
  BY <1>1, <1>2, <1>3, Before DEF Tells
<1> QED
  BY <1>4, <1>5, <1>6, <1>7, CallKeeps DEF Move

LEMMA RenderStep ==
  ASSUME Inv, NEW c \in Call, Render(c)
  PROVE  Inv'
PROOF
<1>1. /\ pc[c] = "returned" /\ pc' = [pc EXCEPT ![c] = "closing"]
      /\ answer' = [answer EXCEPT ![c] = "ok"]
      /\ UNCHANGED <<conn, idle, open, rowLock, database>> /\ Idle' = Idle
  BY DEF Render, Idle
<1>2. c \in InFlight /\ (c \in Holders <=> conn[c] # "none")
  BY <1>1, Before DEF Holds, InFlight
<1>3. conn' = [conn EXCEPT ![c] = conn[c]]
  BY <1>1, Unmoved
<1>4. Moves(c, "closing", conn[c], "ok")
  BY <1>1, <1>2, <1>3, Before DEF Moves, database
<1>5. Fits(c, "closing", conn[c])
  BY <1>1, <1>2, <1>3, Before DEF Fits, Label, Answers
<1>6. Counts(c, "closing", conn[c])
  BY <1>1, <1>2, <1>3, Before DEF Counts, Holds
<1>7. Tells(c, "ok")
  BY <1>1, <1>2, <1>3, Before DEF Tells, Answers
<1> QED
  BY <1>4, <1>5, <1>6, <1>7, CallKeeps DEF Move

\* Steps that give the connection back.
LEMMA CommitStep ==
  ASSUME Inv, NEW c \in Call, Commit(c)
  PROVE  Inv'
PROOF
<1>1. /\ pc[c] = "working" /\ conn[c] = "live" /\ GiveBack(c) /\ answer' = answer
      /\ rowLock' = (IF rowLock = c THEN NULL ELSE rowLock)
      /\ pc' = [pc EXCEPT ![c] = "returned"] /\ UNCHANGED database
  BY DEF Commit
<1>2. c \in InFlight
  BY <1>1 DEF InFlight
<1>3. answer' = [answer EXCEPT ![c] = answer[c]]
  BY <1>1, Unmoved
<1>4. rowLock' \in CommandCall \cup {NULL}
  BY <1>1, Before
<1>5. Moves(c, "returned", "none", answer[c])
  BY <1>1, <1>2, <1>3, <1>4, Before, GivenBack DEF Moves, database
<1>6. Fits(c, "returned", "none")
  BY <1>1, <1>2, <1>3, <1>4, Before, GivenBack DEF Fits, Label
<1>7. Counts(c, "returned", "none")
  BY <1>1, <1>2, <1>3, <1>4, Before, GivenBack DEF Counts, Holds
<1>8. Tells(c, answer[c])
  BY <1>1, <1>2, <1>3, <1>4, Before, GivenBack DEF Tells
<1> QED
  BY <1>5, <1>6, <1>7, <1>8, CallKeeps DEF Move

LEMMA ProbeStep ==
  ASSUME Inv, NEW c \in Call, Probe(c)
  PROVE  Inv'
PROOF
<1>1. /\ pc[c] = "working" /\ conn[c] = "live" /\ GiveBack(c)
      /\ answer' = [answer EXCEPT ![c] = "reachable"]
      /\ pc' = [pc EXCEPT ![c] = "done"] /\ UNCHANGED <<rowLock, database>>
  BY DEF Probe
<1>2. c \in InFlight
  BY <1>1 DEF InFlight
<1>3. Moves(c, "done", "none", "reachable")
  BY <1>1, <1>2, Before, GivenBack DEF Moves, database
<1>4. Fits(c, "done", "none")
  BY <1>1, <1>2, Before, GivenBack DEF Fits, Label, Answers
<1>5. Counts(c, "done", "none")
  BY <1>1, <1>2, Before, GivenBack DEF Counts, Holds
<1>6. Tells(c, "reachable")
  BY <1>1, <1>2, Before, GivenBack DEF Tells, Answers
<1> QED
  BY <1>3, <1>4, <1>5, <1>6, CallKeeps DEF Move

LEMMA BrokenStep ==
  ASSUME Inv, NEW c \in Call, Broken(c)
  PROVE  Inv'
PROOF
<1> DEFINE what == IF c \in ProbeCall THEN "unreachable" ELSE "dberror"
<1>1. /\ pc[c] \in {"locking", "working"} /\ conn[c] = "dead" /\ GiveBack(c)
      /\ answer' = [answer EXCEPT ![c] = what]
      /\ pc' = [pc EXCEPT ![c] = "done"] /\ UNCHANGED <<rowLock, database>>
  BY DEF Broken, Refused
<1>2. c \in InFlight /\ "outage" \in seen[c]
  BY <1>1, Before DEF InFlight
<1>3. what \in Answers \ {"timeout"}
  BY DEF Answers
<1> HIDE DEF what
<1>4. Moves(c, "done", "none", what)
  BY <1>1, <1>2, <1>3, Before, GivenBack DEF Moves, database
<1>5. Fits(c, "done", "none")
  BY <1>1, <1>2, <1>3, Before, GivenBack DEF Fits, Label
<1>6. Counts(c, "done", "none")
  BY <1>1, <1>2, <1>3, Before, GivenBack DEF Counts, Holds
<1>7. Tells(c, what)
  BY <1>1, <1>2, <1>3, Before, GivenBack DEF Tells
<1> QED
  BY <1>4, <1>5, <1>6, <1>7, CallKeeps DEF Move

LEMMA CloseSessionStep ==
  ASSUME Inv, NEW c \in Call, CloseSession(c)
  PROVE  Inv'
PROOF
<1>1. /\ pc[c] = "closing" /\ pc' = [pc EXCEPT ![c] = "done"]
      /\ UNCHANGED <<answer, rowLock, database>>
  BY DEF CloseSession
<1>2. c \in InFlight /\ (c \in Holders <=> conn[c] # "none")
  BY <1>1, Before DEF Holds, InFlight
<1>3. answer' = [answer EXCEPT ![c] = answer[c]]
  BY <1>1, Unmoved
<1>4. CASE conn[c] = "none"
  <2>1. UNCHANGED <<conn, idle, open>> /\ Idle' = Idle
    BY <1>4 DEF CloseSession, Idle
  <2>2. conn' = [conn EXCEPT ![c] = "none"]
    BY <1>4, <2>1, Unmoved
  <2>3. Moves(c, "done", "none", answer[c])
    BY <1>1, <1>2, <1>3, <1>4, <2>1, <2>2, Before DEF Moves, database
  <2>4. Fits(c, "done", "none")
    BY <1>1, <1>2, <1>3, <1>4, <2>1, <2>2, Before DEF Fits, Label
  <2>5. Counts(c, "done", "none")
    BY <1>1, <1>2, <1>3, <1>4, <2>1, <2>2, Before DEF Counts, Holds
  <2>6. Tells(c, answer[c])
    BY <1>1, <1>2, <1>3, <1>4, <2>1, <2>2, Before DEF Tells
  <2> QED
    BY <2>3, <2>4, <2>5, <2>6, CallKeeps DEF Move
<1>5. CASE conn[c] # "none"
  <2>1. GiveBack(c)
    BY <1>5 DEF CloseSession
  <2>2. Moves(c, "done", "none", answer[c])
    BY <1>1, <1>2, <1>3, <1>5, <2>1, Before, GivenBack DEF Moves, database
  <2>3. Fits(c, "done", "none")
    BY <1>1, <1>2, <1>3, <1>5, <2>1, Before, GivenBack DEF Fits, Label
  <2>4. Counts(c, "done", "none")
    BY <1>1, <1>2, <1>3, <1>5, <2>1, Before, GivenBack DEF Counts, Holds
  <2>5. Tells(c, answer[c])
    BY <1>1, <1>2, <1>3, <1>5, <2>1, Before, GivenBack DEF Tells
  <2> QED
    BY <2>2, <2>3, <2>4, <2>5, CallKeeps DEF Move
<1> QED
  BY <1>4, <1>5

-----------------------------------------------------------------------------
(* The steps of clients and of the database. *)

\* The call that arrives may be the one that makes a crowd: all in flight meet it.
LEMMA ArriveStep ==
  ASSUME Inv, NEW c \in Call, Arrive(c)
  PROVE  Inv'
PROOF
<1> DEFINE together == InFlight \cup {c}
           met(d) == seen[d] \cup {x \in {"crowd"} : d \in together /\ Cardinality(together) > Limit}
                             \cup {x \in {"outage"} : d = c /\ ~ dbUp}
<1>1. /\ pc[c] = "idle" /\ pc' = [pc EXCEPT ![c] = "queued"]
      /\ seen' = [d \in Call |-> met(d)]
      /\ UNCHANGED <<answer, conn, idle, open, rowLock, dbUp, crashes>>
  BY DEF Arrive
<1>2. TypeOK /\ open = Idle + Cardinality(Holders) /\ (\A d \in Call : Shape(d))
      /\ Outages /\ Crowds
  BY DEF Inv, Accounted
<1>3. pc \in [Call -> Label] /\ seen \in [Call -> SUBSET {"outage", "crowd"}]
  BY <1>2 DEF TypeOK
<1>4. pc'[c] = "queued" /\ \A d \in Call \ {c} : pc'[d] = pc[d]
  BY <1>1, <1>3
<1>5. \A d \in Call : seen'[d] = met(d) /\ seen[d] \subseteq seen'[d]
  BY <1>1
<1>6. InFlight' = together
  BY <1>1, <1>4 DEF InFlight
<1>7. TypeOK'
  <2>1. pc' \in [Call -> Label]
    BY <1>1, <1>3 DEF Label
  <2>2. seen' \in [Call -> SUBSET {"outage", "crowd"}]
    BY <1>1, <1>3
  <2> QED
    BY <1>1, <1>2, <2>1, <2>2 DEF TypeOK, Idle
<1>8. open' = Idle' + Cardinality(Holders')
  <2>1. Holders' = Holders
    BY <1>1, <1>4 DEF Holders
  <2> QED
    BY <1>1, <1>2, <2>1 DEF Idle
<1>9. \A d \in Call : Shape(d)'
  <2>1. Shape(c)'
    BY <1>1, <1>2, <1>4 DEF Shape
  <2> QED
    BY <1>1, <1>2, <1>4, <2>1 DEF Shape
<1>10. Outages'
  <2>1. ~ dbUp => "outage" \in seen'[c]
    BY <1>5
  <2>2. \A d \in Call : d \in InFlight' /\ ~ dbUp' => "outage" \in seen'[d]
    BY <1>1, <1>2, <1>5, <1>6, <2>1 DEF Outages
  <2>3. \A d \in Call : conn'[d] = "dead" \/ answer'[d] = "dberror" => "outage" \in seen'[d]
    BY <1>1, <1>2, <1>5 DEF Outages
  <2> QED
    BY <2>2, <2>3 DEF Outages
<1>11. Crowds'
  <2>1. Cardinality(InFlight') > Limit => \A d \in InFlight' : "crowd" \in seen'[d]
    BY <1>5, <1>6 DEF InFlight
  <2>2. \A d \in Call : /\ answer'[d] = "timeout" => "crowd" \in seen'[d]
                        /\ answer'[d] = "unreachable" => seen'[d] # {}
    BY <1>1, <1>2, <1>5 DEF Crowds
  <2> QED
    BY <2>1, <2>2 DEF Crowds
<1> QED
  BY <1>7, <1>8, <1>9, <1>10, <1>11 DEF Inv, Accounted

\* Every connection dies where it is; who holds one is in flight and meets it.
LEMMA CrashStep ==
  ASSUME Inv, Crash
  PROVE  Inv'
PROOF
<1>1. /\ dbUp' = FALSE /\ crashes < MaxCrashes /\ crashes' = crashes + 1
      /\ conn' = [c \in Call |-> IF conn[c] = "live" THEN "dead" ELSE conn[c]]
      /\ idle' = [live |-> 0, dead |-> Idle]
      /\ rowLock' = NULL
      /\ seen' = [c \in Call |-> IF c \in InFlight THEN seen[c] \cup {"outage"} ELSE seen[c]]
      /\ pc' = pc /\ answer' = answer /\ open' = open
  BY DEF Crash
<1>2. TypeOK /\ open = Idle + Cardinality(Holders) /\ (\A d \in Call : Shape(d))
      /\ Outages /\ Crowds
  BY DEF Inv, Accounted
<1>3. /\ pc \in [Call -> Label] /\ conn \in [Call -> Kinds]
      /\ seen \in [Call -> SUBSET {"outage", "crowd"}]
      /\ idle \in Queues /\ Idle \in Nat /\ Idle <= PoolSize
  BY <1>2, SizeAssumption DEF TypeOK, Kinds, Queues, Idle
<1>4. InFlight' = InFlight /\ InFlight \subseteq Call
  BY <1>1 DEF InFlight
<1>5. \A c \in Call : conn'[c] # "none" <=> conn[c] # "none"
  BY <1>1
<1>6. /\ \A c \in Call : seen[c] \subseteq seen'[c]
      /\ \A c \in InFlight : "outage" \in seen'[c]
  BY <1>1, <1>4
<1>7. Idle' = Idle
  BY <1>1, <1>3 DEF Idle
<1>8. TypeOK'
  <2>1. conn' \in [Call -> Kinds]
    BY <1>1, <1>3 DEF Kinds
  <2>2. seen' \in [Call -> SUBSET {"outage", "crowd"}]
    BY <1>1, <1>3
  <2>3. idle' \in Queues /\ Idle' <= PoolSize
    BY <1>1, <1>3, <1>7, SizeAssumption DEF Queues
  <2>4. crashes' \in 0..MaxCrashes
    BY <1>1, <1>2, SizeAssumption DEF TypeOK
  <2> QED
    BY <1>1, <1>2, <2>1, <2>2, <2>3, <2>4 DEF TypeOK, Kinds, Queues
<1>9. open' = Idle' + Cardinality(Holders')
  <2>1. Holders' = Holders
    BY <1>1, <1>5 DEF Holders
  <2> QED
    BY <1>1, <1>2, <1>7, <2>1
<1>10. \A d \in Call : Shape(d)'
  BY <1>1, <1>2, <1>5 DEF Shape
<1>11. Outages'
  <2>1. \A c \in Call : conn'[c] # "none" => c \in InFlight
    BY <1>2, <1>5 DEF Shape, InFlight
  <2>2. \A c \in Call : conn'[c] = "dead" => "outage" \in seen'[c]
    BY <1>6, <2>1
  <2>3. \A c \in Call : answer'[c] = "dberror" => "outage" \in seen'[c]
    BY <1>1, <1>2, <1>6 DEF Outages
  <2>4. \A c \in Call : c \in InFlight' /\ ~ dbUp' => "outage" \in seen'[c]
    BY <1>4, <1>6
  <2> QED
    BY <2>2, <2>3, <2>4 DEF Outages
<1>12. Crowds'
  BY <1>1, <1>2, <1>4, <1>6 DEF Crowds
<1> QED
  BY <1>8, <1>9, <1>10, <1>11, <1>12 DEF Inv, Accounted

LEMMA RecoverStep ==
  ASSUME Inv, Recover
  PROVE  Inv'
PROOF
<1>1. dbUp' = TRUE /\ UNCHANGED <<pc, answer, conn, idle, open, rowLock, crashes, seen>>
  BY DEF Recover
<1>2. InFlight' = InFlight /\ Holders' = Holders /\ Idle' = Idle
  BY <1>1 DEF InFlight, Holders, Idle
<1>3. Accounted'
  BY <1>1, <1>2 DEF Inv, Accounted, TypeOK, Shape
<1>4. Outages'
  BY <1>1, <1>2 DEF Inv, Outages
<1>5. Crowds'
  BY <1>1, <1>2 DEF Inv, Crowds
<1> QED
  BY <1>3, <1>4, <1>5 DEF Inv

-----------------------------------------------------------------------------
(* The theorems. *)

LEMMA InvInit ==
  Init => Inv
PROOF
<1> SUFFICES ASSUME Init PROVE Inv
  OBVIOUS
<1>1. Holders = {} /\ InFlight = {} /\ Idle = 0 /\ Limit \in Nat
  BY SizeAssumption DEF Init, Holders, InFlight, Idle, Limit
<1>2. Cardinality(Holders) = 0 /\ Cardinality(InFlight) = 0
  BY <1>1, FS_EmptySet
<1>3. TypeOK
  BY <1>1, SizeAssumption DEF Init, TypeOK, Label, InHandler
<1>4. Accounted
  BY <1>1, <1>2, <1>3 DEF Init, Accounted, Shape
<1>5. NULL \notin {"dberror", "timeout", "unreachable"}
  BY CallAssumption
<1>6. Outages /\ Crowds
  BY <1>1, <1>2, <1>5 DEF Init, Outages, Crowds
<1> QED
  BY <1>4, <1>6 DEF Inv

LEMMA InvNext ==
  Inv /\ [Next]_vars => Inv'
PROOF
<1> SUFFICES ASSUME Inv, [Next]_vars PROVE Inv'
  OBVIOUS
<1>1. CASE Crash
  BY <1>1, CrashStep
<1>2. CASE Recover
  BY <1>2, RecoverStep
<1>3. ASSUME NEW c \in Call, Arrive(c)
      PROVE  Inv'
  BY <1>3, ArriveStep
<1>4. ASSUME NEW c \in Call, CallStep(c)
      PROVE  Inv'
  BY <1>4, StartHandlerStep, TakeIdleStep, OpenOrWaitStep, ConnectStep, PoolTimeoutStep,
     LockRowStep, CommitStep, ReadRowsStep, ProbeStep, BrokenStep, RenderStep,
     CloseSessionStep DEF CallStep
<1>5. CASE UNCHANGED vars
  <2>1. UNCHANGED <<pc, answer, conn, idle, open, rowLock, dbUp, crashes, seen>>
    BY <1>5 DEF vars
  <2>2. InFlight' = InFlight /\ Holders' = Holders /\ Idle' = Idle
    BY <2>1 DEF InFlight, Holders, Idle
  <2>3. Accounted'
    BY <2>1, <2>2 DEF Inv, Accounted, TypeOK, Shape
  <2>4. Outages'
    BY <2>1, <2>2 DEF Inv, Outages
  <2>5. Crowds'
    BY <2>1, <2>2 DEF Inv, Crowds
  <2> QED
    BY <2>3, <2>4, <2>5 DEF Inv
<1> QED
  BY <1>1, <1>2, <1>3, <1>4, <1>5 DEF Next

\* The inductive invariant holds always.
THEOREM PoolInvariant == Spec => []Inv
PROOF
<1> QED
  BY InvInit, InvNext, PTL DEF Spec

\* No connection leaks: on every path of every call, failures, timeouts and crashes
\* of the database included, the pool's counter is what lies in its queue, what
\* calls hold and what is being opened, and a call that is over holds nothing.
THEOREM NoConnectionLeaks == Spec => []PoolAccounted
PROOF
<1>1. Inv => PoolAccounted
  BY DEF Inv, Accounted, PoolAccounted, Shape, Holders, InFlight
<1> QED
  BY <1>1, PoolInvariant, PTL

\* pool_pre_ping does what it is set for: dead connections left in the pool by an
\* outage cost no later call its answer.
THEOREM OnlyOutagesAreFelt == Spec => []OnlyOutagesFail
PROOF
<1>1. Inv => OnlyOutagesFail
  BY DEF Inv, Outages, OnlyOutagesFail
<1> QED
  BY <1>1, PoolInvariant, PTL

\* The pool never shrinks: a call that times out was in flight with more calls than
\* pool_size and max_overflow allow, and /health answers 503 only to a probe that
\* met such a crowd or an outage.
THEOREM OnlyCrowdsWaitInVain == Spec => []OnlyCrowdsTimeOut
PROOF
<1>1. Inv => OnlyCrowdsTimeOut
  BY DEF Inv, Crowds, OnlyCrowdsTimeOut
<1> QED
  BY <1>1, PoolInvariant, PTL
=============================================================================
