----------------------- MODULE SchemaMigrationsProofs -----------------------
(***************************************************************************)
(* SchemaMigrations for every set of calls, traces and keys and any number *)
(* of alembic commands, statements by hand and crashes: the revisions name *)
(* their schemas, no migration is refused, the history outlives all but a  *)
(* downgrade to base, and a key acts again only where one erased it.       *)
(*                                                                         *)
(* The argument: give every object its rank, the statement of the way up   *)
(* that creates it, and its rank on the way down, the statement it goes    *)
(* with.  A migration that has come to height k has created what ranks up  *)
(* to k, one that has come down to depth k has removed what ranks up to k, *)
(* and what the next statement needs or leaves behind can be read off the  *)
(* ranks.  The locks it took meanwhile keep every call away whose rows or  *)
(* columns it removes.                                                     *)
(***************************************************************************)
EXTENDS SchemaMigrations, SequenceTheorems, TLAPS

-----------------------------------------------------------------------------
(* The way up and the way down. *)

\* The statement of the way up that creates an object.
Rank(o) ==
  CASE o = Cases -> 1
    [] o = Decisions -> 2
    [] o = Events -> 3
    [] o = TraceIndex -> 4
    [] o = ImmutableFunction -> 5
    [] o = CasesTrigger -> 6
    [] o = DecisionsTrigger -> 7
    [] o = EventsTrigger -> 8
    [] o = KeyColumn -> 9
    [] o = FingerprintColumn -> 10
    [] o = KeyIndex -> 11

\* The statement of the way down it goes with, dropped itself or with its table.
Gone(o) ==
  CASE o = KeyIndex -> 1
    [] o = FingerprintColumn -> 2
    [] o = KeyColumn -> 3
    [] o \in {Events, TraceIndex, EventsTrigger} -> 4
    [] o \in {Decisions, DecisionsTrigger} -> 5
    [] o \in {Cases, CasesTrigger} -> 6
    [] o = ImmutableFunction -> 7

Dropped == {KeyIndex, FingerprintColumn, KeyColumn, Events, Decisions, Cases, ImmutableFunction}
DropOf(o) == IF o = ImmutableFunction THEN DropIfExists(o) ELSE Drop(o)

Revisions == {"base", "history", "head"}

\* How many statements up from base, and down from head, a revision is.
Height(r) == IF r = "head" THEN 11 ELSE IF r = "history" THEN 8 ELSE 0
Depth(r) == IF r = "head" THEN 0 ELSE IF r = "history" THEN 3 ELSE 7

UpTo(k) == {o \in AnyObject : Rank(o) <= k}
DownTo(k) == {o \in AnyObject : Gone(o) > k}

\* A plan climbs when its statements create, in order, what ranks above k, and
\* descends when they drop, in order, what goes below k.
Climbs(todo, k) ==
  \A i \in 1..Len(todo) :
    todo[i].object \in AnyObject /\ todo[i] = Create(todo[i].object)
    /\ Rank(todo[i].object) = k + i

Descends(todo, k) ==
  \A i \in 1..Len(todo) :
    todo[i].object \in Dropped /\ todo[i] = DropOf(todo[i].object)
    /\ Gone(todo[i].object) = k + i

\* A migration m, started from revision r, that has come to height or depth k.
Ascending(m, r, k) ==
  /\ k \in Height(r)..Height(m.target)
  /\ m.draft = UpTo(k)
  /\ Len(m.todo) = Height(m.target) - k
  /\ Climbs(m.todo, k)

Descending(m, r, k) ==
  /\ k \in Depth(r)..Depth(m.target) /\ Depth(r) < Depth(m.target)
  /\ m.draft = DownTo(k)
  /\ Len(m.todo) = Depth(m.target) - k
  /\ Descends(m.todo, k)
  /\ k > Depth(r) => Events \in m.locked
  /\ k > 3 => Cases \in m.locked

OnItsWay(m, r) ==
  (\E k \in 0..11 : Ascending(m, r, k)) \/ (\E k \in 0..7 : Descending(m, r, k))

-----------------------------------------------------------------------------
(* The inductive invariant. *)

Statement == [verb : {"create", "drop", "drop_if_exists"}, object : AnyObject]
Migration ==
  [target : Revisions, todo : Seq(Statement), draft : SUBSET AnyObject,
   locked : SUBSET {Cases, Events}]

Types ==
  /\ revision \in Revisions
  /\ migration # NULL => migration \in Migration
  /\ outcome \in {NULL, "running", "done", "deadlock", "crashed"}
  /\ cases \subseteq Trace /\ events \in [Trace -> Seq(Receipts)]
  /\ pc \in [Call -> {"idle", "cases", "events", "commit", "done"}]
  /\ DOMAIN request = Call
  /\ \A c \in Call : pc[c] # "idle" => request[c] \in [trace : Trace, key : Key]

\* The stored revision names the schema, and a running migration is on its way.
SchemaKnown ==
  /\ schema = UpTo(Height(revision)) /\ schema = DownTo(Depth(revision))
  /\ migration # NULL => OnItsWay(migration, revision)

\* Nothing is stored at base, and events only with their case.
Rows ==
  /\ revision = "base" => cases = {}
  /\ \A t \in Trace : t \notin cases => events[t] = <<>>

\* A call holds the locks of the statements it has run, and no migration has one.
LocksOf(label) ==
  IF label = "commit" THEN {Cases, Events} ELSE IF label = "events" THEN {Cases} ELSE {}

Locks ==
  /\ locks = [c \in Call |-> LocksOf(pc[c])]
  /\ migration # NULL => \A c \in Call : locks[c] \cap migration.locked = {}

\* What a call has seen in its transaction still holds.
Seen ==
  \A c \in Call :
    /\ pc[c] \in {"events", "commit"} =>
         revision # "base" /\ (c \notin CreateCall => request[c].trace \in cases)
    /\ pc[c] = "commit" => revision = "head"

\* An event keeps the key it came with until a downgrade erases it, and a key that
\* came before was erased.
Keys ==
  \A t \in Trace :
    /\ \A i \in 1..Len(events[t]) : events[t][i].key \in {NULL, events[t][i].sent}
    /\ \A i, j \in 1..Len(events[t]) :
         i < j /\ events[t][i].sent = events[t][j].sent => events[t][i].key = NULL

Inv == Types /\ SchemaKnown /\ Rows /\ Locks /\ Seen /\ Keys

-----------------------------------------------------------------------------
(* The objects, one by one. *)

LEMMA Objects ==
  AnyObject = {Cases, Decisions, Events, TraceIndex, ImmutableFunction, CasesTrigger,
               DecisionsTrigger, EventsTrigger, KeyColumn, FingerprintColumn, KeyIndex}
PROOF
BY DEF AnyObject, ModelSchema, TriggerSchema, TableFor

LEMMA Ranks ==
  ASSUME NEW o \in AnyObject
  PROVE  Rank(o) \in 1..11 /\ Gone(o) \in 1..7
PROOF
<1>1. Rank(o) \in 1..11
  BY Objects DEF Rank, Cases, Decisions, Events, TraceIndex, ImmutableFunction,
     CasesTrigger, DecisionsTrigger, EventsTrigger, KeyColumn, FingerprintColumn, KeyIndex
<1>2. Gone(o) \in 1..7
  BY Objects DEF Gone, Cases, Decisions, Events, TraceIndex, ImmutableFunction,
     CasesTrigger, DecisionsTrigger, EventsTrigger, KeyColumn, FingerprintColumn, KeyIndex
<1> QED
  BY <1>1, <1>2

\* No two objects have one rank; of those that go together one is dropped.
LEMMA OneOfARank ==
  ASSUME NEW o \in AnyObject, NEW d \in AnyObject
  PROVE  /\ Rank(o) = Rank(d) => o = d
         /\ Gone(o) = Gone(d) /\ d \in Dropped => o = d \/ GoesWith(o, d)
PROOF
<1>1. Rank(o) = Rank(d) => o = d
  BY Objects DEF Rank, Cases, Decisions, Events, TraceIndex, ImmutableFunction,
     CasesTrigger, DecisionsTrigger, EventsTrigger, KeyColumn, FingerprintColumn, KeyIndex
<1>2. Gone(o) = Gone(d) /\ d \in Dropped => o = d \/ GoesWith(o, d)
  BY Objects DEF Gone, Dropped, GoesWith, Needs, TableFor, Cases, Decisions, Events, TraceIndex, ImmutableFunction,
     CasesTrigger, DecisionsTrigger, EventsTrigger, KeyColumn, FingerprintColumn, KeyIndex
<1> QED
  BY <1>1, <1>2

\* What an object needs is created before it, and dropped with it or after it.
LEMMA NeedsRank ==
  ASSUME NEW o \in AnyObject, NEW d \in Needs(o)
  PROVE  d \in AnyObject /\ Rank(d) < Rank(o) /\ d \in Dropped /\ Gone(o) <= Gone(d)
PROOF
BY Objects DEF Rank, Gone, Dropped, Needs, TableFor, Cases, Decisions, Events, TraceIndex, ImmutableFunction,
     CasesTrigger, DecisionsTrigger, EventsTrigger, KeyColumn, FingerprintColumn, KeyIndex

\* The next statement of the way up is possible, and leads one step up.
LEMMA UpStep ==
  ASSUME NEW o \in AnyObject, NEW k \in Nat, Rank(o) = k + 1
  PROVE  Possible(Create(o), UpTo(k)) /\ After(Create(o), UpTo(k)) = UpTo(k + 1)
PROOF
<1>1. Create(o).verb = "create" /\ Create(o).object = o
  BY DEF Create
<1>2. o \notin UpTo(k)
  BY Ranks DEF UpTo
<1>3. Needs(o) \subseteq UpTo(k)
  BY Ranks, NeedsRank DEF UpTo
<1>4. UpTo(k) \cup {o} = UpTo(k + 1)
  <2>1. ASSUME NEW d \in AnyObject PROVE Rank(d) <= k + 1 <=> Rank(d) <= k \/ d = o
    BY Ranks, OneOfARank
  <2> QED
    BY <2>1 DEF UpTo
<1> QED
  BY <1>1, <1>2, <1>3, <1>4 DEF Possible, After

\* The next statement of the way down is possible, and leads one step down.
LEMMA DownStep ==
  ASSUME NEW o \in Dropped, NEW k \in Nat, Gone(o) = k + 1
  PROVE  Possible(DropOf(o), DownTo(k)) /\ After(DropOf(o), DownTo(k)) = DownTo(k + 1)
PROOF
<1>1. DropOf(o).verb # "create" /\ DropOf(o).object = o
  BY DEF DropOf, Drop, DropIfExists
<1>2. o \in AnyObject /\ o \in DownTo(k)
  BY Objects DEF Dropped, DownTo
<1>3. \A d \in DownTo(k) : o \in Needs(d) => GoesWith(d, o)
  <2> SUFFICES ASSUME NEW d \in DownTo(k), o \in Needs(d) PROVE GoesWith(d, o)
    OBVIOUS
  <2>1. d \in AnyObject /\ Gone(d) > k /\ Gone(d) <= k + 1 /\ Gone(d) \in 1..7
    BY NeedsRank, Ranks DEF DownTo
  <2>2. Gone(d) = Gone(o)
    BY <2>1
  <2>3. d # o
    BY <1>2, NeedsRank, Ranks
  <2> QED
    BY <1>2, <2>1, <2>2, <2>3, OneOfARank
<1>4. After(DropOf(o), DownTo(k)) = DownTo(k) \ ({o} \cup {d \in DownTo(k) : GoesWith(d, o)})
  BY <1>1 DEF After
<1>5. ASSUME NEW d \in AnyObject, Gone(d) > k
      PROVE  Gone(d) > k + 1 <=> ~ (d = o \/ GoesWith(d, o))
  <2>1. GoesWith(d, o) => Gone(d) <= k + 1
    BY NeedsRank DEF GoesWith
  <2>2. Gone(d) = k + 1 => d = o \/ GoesWith(d, o)
    BY <1>2, OneOfARank
  <2> QED
    BY <1>5, <2>1, <2>2, Ranks
<1>6. DownTo(k) \ ({o} \cup {d \in DownTo(k) : GoesWith(d, o)}) = DownTo(k + 1)
  <2>1. ASSUME NEW d \in AnyObject PROVE Gone(d) > k + 1 => Gone(d) > k
    BY Ranks
  <2> QED
    BY <1>5, <2>1 DEF DownTo
<1> QED
  BY <1>1, <1>2, <1>3, <1>4, <1>6 DEF Possible

-----------------------------------------------------------------------------
(* The revisions are heights and depths. *)

LEMMA RevisionSet == ToSet(Revision) = Revisions
PROOF
BY DEF ToSet, Revision, Revisions

\* Where the way up and the way down meet.
LEMMA Meeting ==
  ASSUME NEW r \in Revisions
  PROVE  /\ UpTo(Height(r)) = DownTo(Depth(r))
         /\ Height(r) \in 0..11 /\ Depth(r) \in 0..7
PROOF
<1>1. UpTo(11) = AnyObject /\ DownTo(0) = AnyObject
  BY Ranks DEF UpTo, DownTo
<1>2. UpTo(0) = {} /\ DownTo(7) = {}
  BY Ranks DEF UpTo, DownTo
<1>3. UpTo(8) = DownTo(3)
  <2>1. ASSUME NEW o \in AnyObject PROVE Rank(o) <= 8 <=> Gone(o) > 3
    BY Objects DEF Rank, Gone, Cases, Decisions, Events, TraceIndex, ImmutableFunction,
     CasesTrigger, DecisionsTrigger, EventsTrigger, KeyColumn, FingerprintColumn, KeyIndex
  <2> QED
    BY <2>1 DEF UpTo, DownTo
<1> QED
  BY <1>1, <1>2, <1>3 DEF Revisions, Height, Depth

LEMMA Revised ==
  /\ HistoryUpgrade \in Seq(Statement) /\ Len(HistoryUpgrade) = 8 /\ Climbs(HistoryUpgrade, 0)
  /\ ControlUpgrade \in Seq(Statement) /\ Len(ControlUpgrade) = 3 /\ Climbs(ControlUpgrade, 8)
  /\ ControlDowngrade \in Seq(Statement) /\ Len(ControlDowngrade) = 3
  /\ Descends(ControlDowngrade, 0)
  /\ HistoryDowngrade \in Seq(Statement) /\ Len(HistoryDowngrade) = 4
  /\ Descends(HistoryDowngrade, 3)
PROOF
<1>1. HistoryUpgrade \in Seq(Statement) /\ Len(HistoryUpgrade) = 8
  BY Objects DEF HistoryUpgrade, Statement, Create
<1>2. ControlUpgrade \in Seq(Statement) /\ Len(ControlUpgrade) = 3
  BY Objects DEF ControlUpgrade, Statement, Create
<1>3. ControlDowngrade \in Seq(Statement) /\ Len(ControlDowngrade) = 3
  BY Objects DEF ControlDowngrade, Statement, Drop
<1>4. HistoryDowngrade \in Seq(Statement) /\ Len(HistoryDowngrade) = 4
  BY Objects DEF HistoryDowngrade, Statement, Drop, DropIfExists
<1>5. Climbs(HistoryUpgrade, 0)
  <2> SUFFICES ASSUME NEW i \in 1..8
               PROVE  /\ HistoryUpgrade[i].object \in AnyObject
                      /\ HistoryUpgrade[i] = Create(HistoryUpgrade[i].object)
                      /\ Rank(HistoryUpgrade[i].object) = i
    BY <1>1 DEF Climbs
  <2>1. /\ i = 1 => HistoryUpgrade[i] = Create(Cases)
        /\ i = 2 => HistoryUpgrade[i] = Create(Decisions)
        /\ i = 3 => HistoryUpgrade[i] = Create(Events)
        /\ i = 4 => HistoryUpgrade[i] = Create(TraceIndex)
        /\ i = 5 => HistoryUpgrade[i] = Create(ImmutableFunction)
        /\ i = 6 => HistoryUpgrade[i] = Create(CasesTrigger)
        /\ i = 7 => HistoryUpgrade[i] = Create(DecisionsTrigger)
        /\ i = 8 => HistoryUpgrade[i] = Create(EventsTrigger)
    BY DEF HistoryUpgrade
  <2>2. PICK o \in AnyObject : HistoryUpgrade[i] = Create(o) /\ Rank(o) = i
    BY <2>1, Objects DEF Rank, Cases, Decisions, Events, TraceIndex, ImmutableFunction,
     CasesTrigger, DecisionsTrigger, EventsTrigger, KeyColumn, FingerprintColumn, KeyIndex
  <2>3. HistoryUpgrade[i].object = o
    BY <2>2 DEF Create
  <2> QED
    BY <2>2, <2>3
<1>6. Climbs(ControlUpgrade, 8)
  <2> SUFFICES ASSUME NEW i \in 1..3
               PROVE  /\ ControlUpgrade[i].object \in AnyObject
                      /\ ControlUpgrade[i] = Create(ControlUpgrade[i].object)
                      /\ Rank(ControlUpgrade[i].object) = 8 + i
    BY <1>2 DEF Climbs
  <2>1. /\ i = 1 => ControlUpgrade[i] = Create(KeyColumn)
        /\ i = 2 => ControlUpgrade[i] = Create(FingerprintColumn)
        /\ i = 3 => ControlUpgrade[i] = Create(KeyIndex)
    BY DEF ControlUpgrade
  <2>2. PICK o \in AnyObject : ControlUpgrade[i] = Create(o) /\ Rank(o) = 8 + i
    BY <2>1, Objects DEF Rank, Cases, Decisions, Events, TraceIndex, ImmutableFunction,
     CasesTrigger, DecisionsTrigger, EventsTrigger, KeyColumn, FingerprintColumn, KeyIndex
  <2>3. ControlUpgrade[i].object = o
    BY <2>2 DEF Create
  <2> QED
    BY <2>2, <2>3
<1>7. Descends(ControlDowngrade, 0)
  <2> SUFFICES ASSUME NEW i \in 1..3
               PROVE  /\ ControlDowngrade[i].object \in Dropped
                      /\ ControlDowngrade[i] = DropOf(ControlDowngrade[i].object)
                      /\ Gone(ControlDowngrade[i].object) = i
    BY <1>3 DEF Descends
  <2>1. /\ i = 1 => ControlDowngrade[i] = Drop(KeyIndex)
        /\ i = 2 => ControlDowngrade[i] = Drop(FingerprintColumn)
        /\ i = 3 => ControlDowngrade[i] = Drop(KeyColumn)
    BY DEF ControlDowngrade
  <2>2. PICK o \in Dropped : ControlDowngrade[i] = DropOf(o) /\ Gone(o) = i
    BY <2>1 DEF Dropped, DropOf, Gone, Cases, Decisions, Events, TraceIndex, ImmutableFunction,
     CasesTrigger, DecisionsTrigger, EventsTrigger, KeyColumn, FingerprintColumn, KeyIndex
  <2>3. ControlDowngrade[i].object = o
    BY <2>2 DEF DropOf, Drop, DropIfExists
  <2> QED
    BY <2>2, <2>3
<1>8. Descends(HistoryDowngrade, 3)
  <2> SUFFICES ASSUME NEW i \in 1..4
               PROVE  /\ HistoryDowngrade[i].object \in Dropped
                      /\ HistoryDowngrade[i] = DropOf(HistoryDowngrade[i].object)
                      /\ Gone(HistoryDowngrade[i].object) = 3 + i
    BY <1>4 DEF Descends
  <2>1. /\ i = 1 => HistoryDowngrade[i] = Drop(Events)
        /\ i = 2 => HistoryDowngrade[i] = Drop(Decisions)
        /\ i = 3 => HistoryDowngrade[i] = Drop(Cases)
        /\ i = 4 => HistoryDowngrade[i] = DropIfExists(ImmutableFunction)
    BY DEF HistoryDowngrade
  <2>2. PICK o \in Dropped : HistoryDowngrade[i] = DropOf(o) /\ Gone(o) = 3 + i
    BY <2>1 DEF Dropped, DropOf, Gone, Cases, Decisions, Events, TraceIndex, ImmutableFunction,
     CasesTrigger, DecisionsTrigger, EventsTrigger, KeyColumn, FingerprintColumn, KeyIndex
  <2>3. HistoryDowngrade[i].object = o
    BY <2>2 DEF DropOf, Drop, DropIfExists
  <2> QED
    BY <2>2, <2>3
<1> QED
  BY <1>1, <1>2, <1>3, <1>4, <1>5, <1>6, <1>7, <1>8

\* One way after the other.
LEMMA Joined ==
  ASSUME NEW a \in Seq(Statement), NEW b \in Seq(Statement), NEW k \in Nat
  PROVE  /\ Climbs(a, k) /\ Climbs(b, k + Len(a)) => Climbs(a \o b, k)
         /\ Descends(a, k) /\ Descends(b, k + Len(a)) => Descends(a \o b, k)
         /\ a \o b \in Seq(Statement) /\ Len(a \o b) = Len(a) + Len(b)
PROOF
<1>1. /\ a \o b \in Seq(Statement) /\ Len(a \o b) = Len(a) + Len(b)
      /\ Len(a) \in Nat /\ Len(b) \in Nat
  BY ConcatProperties, LenProperties
<1>2. /\ \A i \in 1..Len(a) : (a \o b)[i] = a[i]
      /\ \A i \in Len(a) + 1..Len(a) + Len(b) : (a \o b)[i] = b[i - Len(a)]
  BY <1>1
<1>3. Climbs(a, k) /\ Climbs(b, k + Len(a)) => Climbs(a \o b, k)
  <2> SUFFICES ASSUME Climbs(a, k), Climbs(b, k + Len(a)), NEW i \in 1..Len(a) + Len(b)
               PROVE  LET s == (a \o b)[i] IN
                      s.object \in AnyObject /\ s = Create(s.object) /\ Rank(s.object) = k + i
    BY <1>1 DEF Climbs
  <2>1. CASE i <= Len(a)
    BY <1>1, <1>2, <2>1 DEF Climbs
  <2>2. CASE i > Len(a)
    <3>1. i - Len(a) \in 1..Len(b) /\ k + Len(a) + (i - Len(a)) = k + i
      BY <1>1, <2>2
    <3> QED
      BY <1>1, <1>2, <2>2, <3>1 DEF Climbs
  <2> QED
    BY <1>1, <2>1, <2>2
<1>4. Descends(a, k) /\ Descends(b, k + Len(a)) => Descends(a \o b, k)
  <2> SUFFICES ASSUME Descends(a, k), Descends(b, k + Len(a)), NEW i \in 1..Len(a) + Len(b)
               PROVE  LET s == (a \o b)[i] IN
                      s.object \in Dropped /\ s = DropOf(s.object) /\ Gone(s.object) = k + i
    BY <1>1 DEF Descends
  <2>1. CASE i <= Len(a)
    BY <1>1, <1>2, <2>1 DEF Descends
  <2>2. CASE i > Len(a)
    <3>1. i - Len(a) \in 1..Len(b) /\ k + Len(a) + (i - Len(a)) = k + i
      BY <1>1, <2>2
    <3> QED
      BY <1>1, <1>2, <2>2, <3>1 DEF Descends
  <2> QED
    BY <1>1, <2>1, <2>2
<1> QED
  BY <1>1, <1>3, <1>4

\* Every plan climbs, or stays, or descends.
LEMMA Plans ==
  ASSUME NEW r \in Revisions, NEW target \in Revisions
  PROVE  /\ Plan(r, target) \in Seq(Statement)
         /\ \/ /\ Height(r) <= Height(target) /\ Climbs(Plan(r, target), Height(r))
               /\ Len(Plan(r, target)) = Height(target) - Height(r)
            \/ /\ Depth(r) < Depth(target) /\ Descends(Plan(r, target), Depth(r))
               /\ Len(Plan(r, target)) = Depth(target) - Depth(r)
PROOF
<1>1. CASE r = target
  <2>1. Plan(r, target) = <<>>
    BY <1>1 DEF Plan
  <2> QED
    BY <1>1, <2>1 DEF Climbs, Height, Revisions
<1>2. CASE r = "base" /\ target = "history"
  <2>1. Plan(r, target) = HistoryUpgrade
    BY <1>2 DEF Plan, Up
  <2> QED
    BY <1>2, <2>1, Revised DEF Height
<1>3. CASE r = "history" /\ target = "head"
  <2>1. Plan(r, target) = ControlUpgrade
    BY <1>3 DEF Plan, Up
  <2> QED
    BY <1>3, <2>1, Revised DEF Height
<1>4. CASE r = "base" /\ target = "head"
  <2> DEFINE p == HistoryUpgrade \o ControlUpgrade
  <2>1. Plan(r, target) = p
    BY <1>4 DEF Plan, Up
  <2>2. Climbs(ControlUpgrade, 0 + Len(HistoryUpgrade))
    BY Revised
  <2>3. p \in Seq(Statement) /\ Len(p) = Len(HistoryUpgrade) + Len(ControlUpgrade)
    BY Revised, Joined, 0 \in Nat
  <2>4. Climbs(p, 0)
    BY <2>2, Revised, Joined, 0 \in Nat
  <2>5. Len(p) = 11
    BY <2>3, Revised
  <2> HIDE DEF p
  <2> QED
    BY <1>4, <2>1, <2>3, <2>4, <2>5 DEF Height
<1>5. CASE r = "head" /\ target = "history"
  <2>1. Plan(r, target) = ControlDowngrade
    BY <1>5 DEF Plan, Down
  <2> QED
    BY <1>5, <2>1, Revised DEF Depth
<1>6. CASE r = "history" /\ target = "base"
  <2>1. Plan(r, target) = HistoryDowngrade
    BY <1>6 DEF Plan, Down
  <2> QED
    BY <1>6, <2>1, Revised DEF Depth
<1>7. CASE r = "head" /\ target = "base"
  <2> DEFINE p == ControlDowngrade \o HistoryDowngrade
  <2>1. Plan(r, target) = p
    BY <1>7 DEF Plan, Down
  <2>2. Descends(HistoryDowngrade, 0 + Len(ControlDowngrade))
    BY Revised
  <2>3. p \in Seq(Statement) /\ Len(p) = Len(ControlDowngrade) + Len(HistoryDowngrade)
    BY Revised, Joined, 0 \in Nat
  <2>4. Descends(p, 0)
    BY <2>2, Revised, Joined, 0 \in Nat
  <2>5. Len(p) = 7
    BY <2>3, Revised
  <2> HIDE DEF p
  <2> QED
    BY <1>7, <2>1, <2>3, <2>4, <2>5 DEF Depth
<1> QED
  BY <1>1, <1>2, <1>3, <1>4, <1>5, <1>6, <1>7 DEF Revisions

-----------------------------------------------------------------------------
(* What a migration has done, and what it has locked. *)

\* The next statement taken off a plan.
LEMMA NextStatement ==
  ASSUME NEW todo \in Seq(Statement), todo # <<>>, NEW k \in Nat
  PROVE  /\ Tail(todo) \in Seq(Statement) /\ Len(Tail(todo)) = Len(todo) - 1
         /\ Len(todo) >= 1 /\ Len(todo) \in Nat
         /\ Climbs(todo, k) =>
              /\ Climbs(Tail(todo), k + 1)
              /\ \E o \in AnyObject : Head(todo) = Create(o) /\ Rank(o) = k + 1
         /\ Descends(todo, k) =>
              /\ Descends(Tail(todo), k + 1)
              /\ \E o \in Dropped : Head(todo) = DropOf(o) /\ Gone(o) = k + 1
PROOF
<1>1. /\ Tail(todo) \in Seq(Statement) /\ Len(Tail(todo)) = Len(todo) - 1
      /\ Len(todo) >= 1 /\ Len(todo) \in Nat /\ Head(todo) = todo[1]
      /\ \A i \in 1..Len(todo) - 1 : Tail(todo)[i] = todo[i + 1]
  BY EmptySeq, LenProperties, HeadTailProperties
<1>2. ASSUME Climbs(todo, k)
      PROVE  /\ Climbs(Tail(todo), k + 1)
             /\ \E o \in AnyObject : Head(todo) = Create(o) /\ Rank(o) = k + 1
  <2>1. \E o \in AnyObject : Head(todo) = Create(o) /\ Rank(o) = k + 1
    BY <1>1, <1>2 DEF Climbs
  <2>2. Climbs(Tail(todo), k + 1)
    <3> SUFFICES ASSUME NEW i \in 1..Len(todo) - 1
                 PROVE  LET s == Tail(todo)[i] IN
                        s.object \in AnyObject /\ s = Create(s.object) /\ Rank(s.object) = k + 1 + i
      BY <1>1 DEF Climbs
    <3>1. i + 1 \in 1..Len(todo) /\ k + (i + 1) = k + 1 + i
      BY <1>1
    <3> QED
      BY <1>1, <1>2, <3>1 DEF Climbs
  <2> QED
    BY <2>1, <2>2
<1>3. ASSUME Descends(todo, k)
      PROVE  /\ Descends(Tail(todo), k + 1)
             /\ \E o \in Dropped : Head(todo) = DropOf(o) /\ Gone(o) = k + 1
  <2>1. \E o \in Dropped : Head(todo) = DropOf(o) /\ Gone(o) = k + 1
    BY <1>1, <1>3 DEF Descends
  <2>2. Descends(Tail(todo), k + 1)
    <3> SUFFICES ASSUME NEW i \in 1..Len(todo) - 1
                 PROVE  LET s == Tail(todo)[i] IN
                        s.object \in Dropped /\ s = DropOf(s.object) /\ Gone(s.object) = k + 1 + i
      BY <1>1 DEF Descends
    <3>1. i + 1 \in 1..Len(todo) /\ k + (i + 1) = k + 1 + i
      BY <1>1
    <3> QED
      BY <1>1, <1>3, <3>1 DEF Descends
  <2> QED
    BY <2>1, <2>2
<1> QED
  BY <1>1, <1>2, <1>3

\* A statement locks one table, two or none; it runs when all are locked.
LEMMA TablesOf ==
  ASSUME NEW s
  PROVE  TablesLocked(s) \in {<<>>, <<Cases>>, <<Events>>, <<Events, Cases>>}
PROOF
BY DEF TablesLocked

LEMMA Waiting ==
  ToLock \subseteq {Cases, Events}
PROOF
<1> SUFFICES ASSUME NEW t \in ToLock PROVE t \in {Cases, Events}
  OBVIOUS
<1>1. migration # NULL /\ migration.todo # <<>>
  BY DEF ToLock
<1>2. PICK i \in DOMAIN TablesLocked(Head(migration.todo)) :
        t = TablesLocked(Head(migration.todo))[i]
  BY <1>1 DEF ToLock
<1> QED
  BY <1>2, TablesOf

LEMMA AllLocked ==
  ASSUME migration # NULL, migration.todo # <<>>, ToLock = {}
  PROVE  /\ Head(migration.todo) = Drop(Events) => {Cases, Events} \subseteq migration.locked
         /\ Head(migration.todo) = Drop(KeyIndex) => Events \in migration.locked
PROOF
<1> DEFINE tables == TablesLocked(Head(migration.todo))
           Missing(i) == tables[i] \notin migration.locked
<1>1. {tables[i] : i \in {j \in DOMAIN tables : Missing(j) /\ \A k \in 1..j - 1 : ~ Missing(k)}} = {}
  BY DEF ToLock
<1>2. \A j \in DOMAIN tables : Missing(j) => \E k \in 1..j - 1 : Missing(k)
  BY <1>1
<1>3. CASE Head(migration.todo) = Drop(Events)
  <2>1. tables = <<Events, Cases>>
    BY <1>3 DEF TablesLocked, Drop, Cases, Decisions, Events, TraceIndex, ImmutableFunction,
     CasesTrigger, DecisionsTrigger, EventsTrigger, KeyColumn, FingerprintColumn, KeyIndex
  <2>2. ~ Missing(1)
    BY <1>2, <2>1
  <2>3. ~ Missing(2)
    BY <1>2, <2>1, <2>2
  <2> QED
    BY <1>3, <2>1, <2>2, <2>3 DEF Drop, KeyIndex, Events
<1>4. CASE Head(migration.todo) = Drop(KeyIndex)
  <2>1. tables = <<Events>>
    BY <1>4 DEF TablesLocked, Drop, Cases, Decisions, Events, TraceIndex, ImmutableFunction,
     CasesTrigger, DecisionsTrigger, EventsTrigger, KeyColumn, FingerprintColumn, KeyIndex
  <2>2. ~ Missing(1)
    BY <1>2, <2>1
  <2> QED
    BY <1>4, <2>1, <2>2 DEF Drop, KeyIndex, Events
<1> QED
  BY <1>3, <1>4

\* A migration that has run its plan has reached its target, and if it removed what
\* calls work with it has locked them out.
LEMMA Arrived ==
  ASSUME NEW m \in Migration, NEW r \in Revisions, OnItsWay(m, r), m.todo = <<>>
  PROVE  /\ m.draft = UpTo(Height(m.target)) /\ m.draft = DownTo(Depth(m.target))
         /\ r # "base" /\ m.target = "base" => Cases \in m.locked
         /\ r = "head" /\ m.target # "head" => Events \in m.locked
PROOF
<1>1. m.target \in Revisions /\ Len(m.todo) = 0
  BY DEF Migration
<1>2. ASSUME NEW k \in 0..11, Ascending(m, r, k)
      PROVE  /\ m.draft = UpTo(Height(m.target)) /\ Height(r) <= Height(m.target)
  <2>1. k = Height(m.target)
    BY <1>1, <1>2, Meeting DEF Ascending
  <2> QED
    BY <1>2, <2>1, Meeting DEF Ascending
<1>3. ASSUME NEW k \in 0..7, Descending(m, r, k)
      PROVE  /\ m.draft = DownTo(Depth(m.target))
             /\ Depth(m.target) > Depth(r) => Events \in m.locked
             /\ Depth(m.target) > 3 => Cases \in m.locked
             /\ Depth(r) < Depth(m.target)
  <2>1. k = Depth(m.target)
    BY <1>1, <1>3, Meeting DEF Descending
  <2> QED
    BY <1>3, <2>1 DEF Descending
<1>4. m.draft = UpTo(Height(m.target)) /\ m.draft = DownTo(Depth(m.target))
  BY <1>1, <1>2, <1>3, Meeting DEF OnItsWay
<1>5. r # "base" /\ m.target = "base" => Cases \in m.locked
  BY <1>1, <1>2, <1>3 DEF OnItsWay, Revisions, Height, Depth
<1>6. r = "head" /\ m.target # "head" => Events \in m.locked
  BY <1>1, <1>2, <1>3 DEF OnItsWay, Revisions, Height, Depth
<1> QED
  BY <1>4, <1>5, <1>6

\* Which objects are there at a revision.
LEMMA AtRevision ==
  ASSUME NEW r \in Revisions
  PROVE  /\ Cases \in UpTo(Height(r)) <=> r # "base"
         /\ Events \in UpTo(Height(r)) <=> r # "base"
         /\ EventsTrigger \in UpTo(Height(r)) <=> r # "base"
         /\ KeyColumn \in UpTo(Height(r)) <=> r = "head"
         /\ MappedColumns \subseteq UpTo(Height(r)) <=> r = "head"
         /\ UpTo(11) = AnyObject /\ UpTo(0) = {}
         /\ UpTo(8) = AnyObject \ {KeyColumn, FingerprintColumn, KeyIndex}
PROOF
<1>1. \A o \in AnyObject : o \in UpTo(Height(r)) <=> Rank(o) <= Height(r)
  BY DEF UpTo
<1>2. /\ {Cases, Events, EventsTrigger, KeyColumn, FingerprintColumn} \subseteq AnyObject
      /\ Rank(Cases) = 1 /\ Rank(Events) = 3 /\ Rank(EventsTrigger) = 8
      /\ Rank(KeyColumn) = 9 /\ Rank(FingerprintColumn) = 10
  BY Objects DEF Rank, Cases, Decisions, Events, TraceIndex, ImmutableFunction,
     CasesTrigger, DecisionsTrigger, EventsTrigger, KeyColumn, FingerprintColumn, KeyIndex
<1>3. UpTo(11) = AnyObject /\ UpTo(0) = {}
  BY Ranks DEF UpTo
<1>4. UpTo(8) = AnyObject \ {KeyColumn, FingerprintColumn, KeyIndex}
  <2>1. ASSUME NEW o \in AnyObject
        PROVE  Rank(o) <= 8 <=> o \notin {KeyColumn, FingerprintColumn, KeyIndex}
    BY Objects DEF Rank, Cases, Decisions, Events, TraceIndex, ImmutableFunction,
     CasesTrigger, DecisionsTrigger, EventsTrigger, KeyColumn, FingerprintColumn, KeyIndex
  <2> QED
    BY <2>1 DEF UpTo
<1> QED
  BY <1>1, <1>2, <1>3, <1>4 DEF Height, Revisions, MappedColumns

-----------------------------------------------------------------------------
(* The steps of the operator. *)

\* What the calls rely on is untouched when neither they nor the rows change.
LEMMA CallsUntouched ==
  ASSUME Inv, UNCHANGED <<stored, calls>>
  PROVE  Rows' /\ Seen' /\ Keys' /\ locks' = [c \in Call |-> LocksOf(pc'[c])]
PROOF
<1>1. UNCHANGED <<schema, revision, cases, events, pc, request, answer, locks>>
  BY DEF stored, calls
<1>2. Rows'
  BY <1>1 DEF Inv, Rows
<1>3. Seen'
  BY <1>1 DEF Inv, Seen
<1>4. Keys'
  BY <1>1 DEF Inv, Keys
<1> QED
  BY <1>1, <1>2, <1>3, <1>4 DEF Inv, Locks

\* The migration changes, nothing else that calls can see.
LEMMA MigrationKeeps ==
  ASSUME Inv, UNCHANGED <<stored, calls>>,
         migration' = NULL \/ (migration' \in Migration /\ OnItsWay(migration', revision)),
         outcome' \in {NULL, "running", "done", "deadlock", "crashed"},
         migration' # NULL => \A c \in Call : locks[c] \cap migration'.locked = {}
  PROVE  Inv'
PROOF
<1>1. UNCHANGED <<schema, revision, cases, events, pc, request, answer, locks>>
  BY DEF stored, calls
<1>2. Types'
  BY <1>1 DEF Inv, Types
<1>3. SchemaKnown'
  BY <1>1 DEF Inv, SchemaKnown
<1>4. Locks'
  BY <1>1, CallsUntouched DEF Locks
<1> QED
  BY <1>2, <1>3, <1>4, CallsUntouched DEF Inv

LEMMA StartMigrationStep ==
  ASSUME Inv, NEW target \in Revisions, StartMigration(target)
  PROVE  Inv'
PROOF
<1> DEFINE m == [target |-> target, todo |-> Plan(revision, target), draft |-> schema, locked |-> {}]
<1>1. migration' = m /\ outcome' = "running" /\ UNCHANGED <<stored, calls>>
  BY DEF StartMigration
<1>2. /\ revision \in Revisions /\ schema = UpTo(Height(revision))
      /\ schema = DownTo(Depth(revision))
  BY DEF Inv, Types, SchemaKnown
<1>3. m \in Migration
  <2>1. schema \subseteq AnyObject
    BY <1>2 DEF UpTo
  <2> QED
    BY <1>2, <2>1, Plans DEF Migration
<1>4. OnItsWay(m, revision)
  <2>1. CASE /\ Height(revision) <= Height(target) /\ Climbs(Plan(revision, target), Height(revision))
             /\ Len(Plan(revision, target)) = Height(target) - Height(revision)
    <3>1. Ascending(m, revision, Height(revision))
      BY <1>2, <2>1, Meeting DEF Ascending
    <3> QED
      BY <1>2, <3>1, Meeting DEF OnItsWay
  <2>2. CASE /\ Depth(revision) < Depth(target) /\ Descends(Plan(revision, target), Depth(revision))
             /\ Len(Plan(revision, target)) = Depth(target) - Depth(revision)
    <3>1. Depth(revision) <= 3
      BY <1>2, <2>2 DEF Depth, Revisions
    <3>2. Descending(m, revision, Depth(revision))
      BY <1>2, <2>2, <3>1, Meeting DEF Descending
    <3> QED
      BY <1>2, <3>2, Meeting DEF OnItsWay
  <2> QED
    BY <1>2, <2>1, <2>2, Plans
<1>5. \A c \in Call : locks[c] \cap m.locked = {}
  OBVIOUS
<1> HIDE DEF m
<1> QED
  BY <1>1, <1>3, <1>4, <1>5, MigrationKeeps

\* The facts every step of a migration starts from.
LEMMA Migrating ==
  ASSUME Inv, migration # NULL
  PROVE  /\ migration \in Migration /\ OnItsWay(migration, revision) /\ revision \in Revisions
         /\ outcome \in {NULL, "running", "done", "deadlock", "crashed"}
         /\ \A c \in Call : locks[c] \cap migration.locked = {}
PROOF
BY DEF Inv, Types, SchemaKnown, Locks

LEMMA LockForMigrationStep ==
  ASSUME Inv, LockForMigration
  PROVE  Inv'
PROOF
<1>1. PICK t \in ToLock : /\ \A c \in Call : t \notin locks[c]
                          /\ migration' = [migration EXCEPT !.locked = @ \cup {t}]
  BY DEF LockForMigration
<1>2. migration # NULL /\ UNCHANGED <<stored, calls, outcome>> /\ t \in {Cases, Events}
  BY <1>1, Waiting DEF LockForMigration, ToLock
<1>3. /\ migration' \in Migration /\ migration'.target = migration.target
      /\ migration'.todo = migration.todo /\ migration'.draft = migration.draft
      /\ migration'.locked = migration.locked \cup {t}
  BY <1>1, <1>2, Migrating DEF Migration
<1>4. OnItsWay(migration', revision)
  <2>1. ASSUME NEW k \in 0..11, Ascending(migration, revision, k)
        PROVE  Ascending(migration', revision, k)
    BY <1>3, <2>1 DEF Ascending
  <2>2. ASSUME NEW k \in 0..7, Descending(migration, revision, k)
        PROVE  Descending(migration', revision, k)
    BY <1>3, <2>2 DEF Descending
  <2> QED
    BY <1>2, <2>1, <2>2, Migrating DEF OnItsWay
<1>5. \A c \in Call : locks[c] \cap migration'.locked = {}
  BY <1>1, <1>2, <1>3, Migrating
<1> QED
  BY <1>2, <1>3, <1>4, <1>5, Migrating, MigrationKeeps

\* The next statement is possible, wherever the migration is.
LEMMA RunStatementStep ==
  ASSUME Inv, RunStatement
  PROVE  Inv'
PROOF
<1> DEFINE s == Head(migration.todo)
           m == [migration EXCEPT !.todo = Tail(@), !.draft = After(s, @)]
<1>1. /\ migration # NULL /\ migration.todo # <<>> /\ ToLock = {}
      /\ UNCHANGED <<stored, calls>>
      /\ IF Possible(s, migration.draft) THEN migration' = m /\ outcome' = outcome
         ELSE EndMigration("refused")
  BY DEF RunStatement
<1>2. /\ migration.target \in Revisions /\ migration.todo \in Seq(Statement)
      /\ revision \in Revisions
  BY <1>1, Migrating DEF Migration
<1>3. /\ m.target = migration.target /\ m.todo = Tail(migration.todo)
      /\ m.draft = After(s, migration.draft) /\ m.locked = migration.locked
      /\ (m.draft \subseteq AnyObject => m \in Migration)
  <2>1. Tail(migration.todo) \in Seq(Statement)
    BY <1>1, <1>2, NextStatement, 0 \in Nat
  <2> QED
    BY <1>1, <2>1, Migrating DEF Migration
<1>4. /\ Tail(migration.todo) \in Seq(Statement)
      /\ Len(Tail(migration.todo)) = Len(migration.todo) - 1
      /\ Len(migration.todo) >= 1 /\ Len(migration.todo) \in Nat
  BY <1>1, <1>2, NextStatement, 0 \in Nat
<1> HIDE DEF m
<1>5. ASSUME NEW k \in 0..11, Ascending(migration, revision, k)
      PROVE  /\ Possible(s, migration.draft) /\ m \in Migration
             /\ OnItsWay(m, revision)
  <2>1. /\ migration.draft = UpTo(k) /\ Climbs(migration.todo, k)
        /\ Len(migration.todo) = Height(migration.target) - k
        /\ k \in Height(revision)..Height(migration.target)
        /\ Height(revision) \in 0..11 /\ Height(migration.target) \in 0..11
    BY <1>2, <1>5, Meeting DEF Ascending
  <2>2. PICK o \in AnyObject : s = Create(o) /\ Rank(o) = k + 1
    BY <1>1, <1>2, <2>1, NextStatement
  <2>3. Possible(s, migration.draft) /\ m.draft = UpTo(k + 1)
    BY <1>3, <2>1, <2>2, UpStep
  <2>4. Climbs(m.todo, k + 1)
    BY <1>1, <1>2, <1>3, <2>1, NextStatement
  <2>5. Height(m.target) = Height(migration.target) /\ Len(m.todo) = Len(migration.todo) - 1
    BY <1>3, <1>4
  <2>6. /\ Len(m.todo) = Height(m.target) - (k + 1)
        /\ k + 1 \in Height(revision)..Height(m.target) /\ k + 1 \in 0..11
    <3>1. PICK h \in 0..11 : h = Height(migration.target)
      BY <2>1
    <3>2. PICK n \in Nat : n = Len(migration.todo)
      BY <1>4
    <3>3. n >= 1 /\ n = h - k /\ k \in Nat
      BY <1>4, <2>1, <3>1, <3>2
    <3> QED
      BY <2>1, <2>5, <3>1, <3>2, <3>3
  <2>7. Ascending(m, revision, k + 1)
    BY <2>3, <2>4, <2>6 DEF Ascending
  <2>8. m \in Migration
    BY <1>3, <2>3 DEF UpTo
  <2> QED
    BY <2>3, <2>6, <2>7, <2>8 DEF OnItsWay
<1>6. ASSUME NEW k \in 0..7, Descending(migration, revision, k)
      PROVE  /\ Possible(s, migration.draft) /\ m \in Migration
             /\ OnItsWay(m, revision)
  <2>1. /\ migration.draft = DownTo(k) /\ Descends(migration.todo, k)
        /\ Len(migration.todo) = Depth(migration.target) - k
        /\ k \in Depth(revision)..Depth(migration.target)
        /\ Depth(revision) < Depth(migration.target)
        /\ k > Depth(revision) => Events \in migration.locked
        /\ k > 3 => Cases \in migration.locked
        /\ Depth(revision) \in {0, 3, 7} /\ Depth(migration.target) \in 0..7
    BY <1>2, <1>6, Meeting DEF Descending, Depth
  <2>2. PICK o \in Dropped : s = DropOf(o) /\ Gone(o) = k + 1
    BY <1>1, <1>2, <2>1, NextStatement
  <2>3. Possible(s, migration.draft) /\ m.draft = DownTo(k + 1)
    BY <1>3, <2>1, <2>2, DownStep
  <2>4. Descends(m.todo, k + 1)
    BY <1>1, <1>2, <1>3, <2>1, NextStatement
  <2>5. Len(m.todo) = Depth(m.target) - (k + 1)
    BY <1>3, <1>4, <2>1
  <2>6. k + 1 \in Depth(revision)..Depth(m.target) /\ k + 1 \in 0..7
    BY <1>3, <1>4, <2>1
  <2>7. Events \in m.locked /\ (k + 1 > 3 => Cases \in m.locked)
    <3>1. CASE k = 0
      <4>1. s = Drop(KeyIndex)
        BY <2>2, <3>1 DEF Dropped, Gone, DropOf, Cases, Decisions, Events, TraceIndex, ImmutableFunction,
     CasesTrigger, DecisionsTrigger, EventsTrigger, KeyColumn, FingerprintColumn, KeyIndex
      <4> QED
        BY <1>1, <1>3, <3>1, <4>1, AllLocked
    <3>2. CASE k = 3
      <4>1. s = Drop(Events)
        BY <2>2, <3>2 DEF Dropped, Gone, DropOf, Cases, Decisions, Events, TraceIndex, ImmutableFunction,
     CasesTrigger, DecisionsTrigger, EventsTrigger, KeyColumn, FingerprintColumn, KeyIndex
      <4> QED
        BY <1>1, <1>3, <3>2, <4>1, AllLocked
    <3>3. CASE k \notin {0, 3}
      <4>1. k > Depth(revision) /\ (k + 1 > 3 => k > 3)
        BY <2>1, <2>6, <3>3
      <4> QED
        BY <1>3, <2>1, <4>1
    <3> QED
      BY <3>1, <3>2, <3>3
  <2>8. Descending(m, revision, k + 1)
    BY <1>3, <2>1, <2>3, <2>4, <2>5, <2>6, <2>7 DEF Descending
  <2>9. m \in Migration
    BY <1>3, <2>3 DEF DownTo
  <2> QED
    BY <2>3, <2>6, <2>8, <2>9 DEF OnItsWay
<1>7. Possible(s, migration.draft) /\ m \in Migration /\ OnItsWay(m, revision)
  BY <1>1, <1>5, <1>6, Migrating DEF OnItsWay
<1> QED
  BY <1>1, <1>3, <1>7, Migrating, MigrationKeeps

\* What the commit of a migration leaves of the events of a trace.
LEMMA Kept ==
  ASSUME Inv, NEW t \in Trace
  PROVE  /\ KeptEvents(t) \in Seq(Receipts)
         /\ Events \notin migration.draft => KeptEvents(t) = <<>>
         /\ Events \in migration.draft =>
              /\ Len(KeptEvents(t)) = Len(events[t])
              /\ \A i \in 1..Len(events[t]) :
                   /\ KeptEvents(t)[i].sent = events[t][i].sent
                   /\ KeptEvents(t)[i].key \in {NULL, events[t][i].key}
PROOF
<1>1. events[t] \in Seq(Receipts)
  BY DEF Inv, Types
<1>2. CASE Events \notin migration.draft
  BY <1>2 DEF KeptEvents
<1>3. CASE Events \in migration.draft /\ KeyColumn \in migration.draft
  BY <1>1, <1>3 DEF KeptEvents
<1>4. CASE Events \in migration.draft /\ KeyColumn \notin migration.draft
  <2>1. DOMAIN events[t] = 1..Len(events[t]) /\ Len(events[t]) \in Nat
    BY <1>1
  <2>2. KeptEvents(t) = [i \in 1..Len(events[t]) |-> [events[t][i] EXCEPT !.key = NULL]]
    BY <1>4, <2>1 DEF KeptEvents
  <2>3. ASSUME NEW e \in Receipts
        PROVE  /\ [e EXCEPT !.key = NULL] \in Receipts
               /\ [e EXCEPT !.key = NULL].sent = e.sent
               /\ [e EXCEPT !.key = NULL].key = NULL
    BY DEF Receipts
  <2>4. \A i \in 1..Len(events[t]) : events[t][i] \in Receipts
    BY <1>1, ElementOfSeq
  <2>5. KeptEvents(t) \in Seq(Receipts) /\ Len(KeptEvents(t)) = Len(events[t])
    BY <2>1, <2>2, <2>3, <2>4
  <2>6. \A i \in 1..Len(events[t]) :
          KeptEvents(t)[i].sent = events[t][i].sent /\ KeptEvents(t)[i].key = NULL
    BY <2>2, <2>3, <2>4
  <2> QED
    BY <1>4, <2>5, <2>6
<1> QED
  BY <1>2, <1>3, <1>4

\* The commit: the revision names the draft, and whoever worked with what it has
\* removed was locked out.
LEMMA CommitMigrationStep ==
  ASSUME Inv, CommitMigration
  PROVE  Inv'
PROOF
<1> DEFINE target == migration.target
           draft == migration.draft
<1>1. /\ migration # NULL /\ migration.todo = <<>>
      /\ schema' = draft /\ revision' = target
      /\ cases' = (IF Cases \in draft THEN cases ELSE {})
      /\ events' = [t \in Trace |-> KeptEvents(t)]
      /\ migration' = NULL /\ outcome' = "done"
      /\ UNCHANGED <<pc, request, answer, locks>>
  BY DEF CommitMigration, EndMigration, calls
<1>2. /\ migration \in Migration /\ OnItsWay(migration, revision) /\ revision \in Revisions
      /\ \A c \in Call : locks[c] \cap migration.locked = {}
      /\ target \in Revisions
  BY <1>1, Migrating DEF Migration
<1>3. /\ draft = UpTo(Height(target)) /\ draft = DownTo(Depth(target))
      /\ revision # "base" /\ target = "base" => Cases \in migration.locked
      /\ revision = "head" /\ target # "head" => Events \in migration.locked
  BY <1>1, <1>2, Arrived
<1>4. \A t \in Trace : events'[t] = KeptEvents(t)
  BY <1>1
<1> HIDE DEF target, draft
<1>5. (Cases \in draft <=> target # "base") /\ (Events \in draft <=> target # "base")
  BY <1>2, <1>3, AtRevision
<1>6. Types'
  <2>1. events' \in [Trace -> Seq(Receipts)]
    BY <1>1, Kept
  <2> QED
    BY <1>1, <1>2, <2>1 DEF Inv, Types
<1>7. SchemaKnown'
  BY <1>1, <1>3 DEF SchemaKnown
<1>8. Rows'
  <2>1. \A t \in Trace : t \notin cases' => events'[t] = <<>>
    <3>1. CASE target = "base"
      BY <1>5, <1>4, <3>1, Kept DEF draft
    <3>2. CASE target # "base"
      <4> SUFFICES ASSUME NEW t \in Trace, t \notin cases PROVE KeptEvents(t) = <<>>
        BY <1>1, <1>5, <1>4, <3>2
      <4>1. events[t] = <<>>
        BY DEF Inv, Rows
      <4>2. Len(KeptEvents(t)) = 0 /\ KeptEvents(t) \in Seq(Receipts)
        BY <1>5, <3>2, <4>1, Kept DEF draft
      <4> QED
        BY <4>2, EmptySeq
    <3> QED
      BY <3>1, <3>2
  <2> QED
    BY <1>1, <1>5, <2>1 DEF Rows
<1>9. Locks'
  BY <1>1 DEF Inv, Locks
<1>10. Seen'
  <2>1. ASSUME NEW c \in Call, pc[c] \in {"events", "commit"}
        PROVE  target # "base" /\ (c \notin CreateCall => request[c].trace \in cases')
    <3>1. Cases \in locks[c]
      BY <2>1 DEF Inv, Locks, LocksOf
    <3>2. revision # "base" /\ (c \notin CreateCall => request[c].trace \in cases)
      BY <2>1 DEF Inv, Seen
    <3> QED
      BY <1>1, <1>2, <1>3, <1>5, <3>1, <3>2
  <2>2. ASSUME NEW c \in Call, pc[c] = "commit"
        PROVE  target = "head"
    <3>1. Events \in locks[c] /\ revision = "head"
      BY <2>2 DEF Inv, Locks, LocksOf, Seen
    <3> QED
      BY <1>2, <1>3, <3>1
  <2> QED
    BY <1>1, <2>1, <2>2 DEF Seen
<1>11. Keys'
  <2> SUFFICES ASSUME NEW t \in Trace
               PROVE  LET e == events'[t] IN
                      /\ \A i \in 1..Len(e) : e[i].key \in {NULL, e[i].sent}
                      /\ \A i, j \in 1..Len(e) :
                           i < j /\ e[i].sent = e[j].sent => e[i].key = NULL
    BY DEF Keys
  <2>1. /\ \A i \in 1..Len(events[t]) : events[t][i].key \in {NULL, events[t][i].sent}
        /\ \A i, j \in 1..Len(events[t]) :
             i < j /\ events[t][i].sent = events[t][j].sent => events[t][i].key = NULL
    BY DEF Inv, Keys
  <2>2. CASE Events \notin migration.draft
    <3>1. events'[t] = <<>>
      BY <1>4, <2>2, Kept
    <3> QED
      BY <3>1
  <2>3. CASE Events \in migration.draft
    <3>1. /\ Len(events'[t]) = Len(events[t])
          /\ \A i \in 1..Len(events[t]) :
               /\ events'[t][i].sent = events[t][i].sent
               /\ events'[t][i].key \in {NULL, events[t][i].key}
      BY <1>4, <2>3, Kept
    <3> QED
      BY <2>1, <3>1
  <2> QED
    BY <2>2, <2>3
<1> QED
  BY <1>6, <1>7, <1>8, <1>9, <1>10, <1>11 DEF Inv

\* Statements by hand change nothing: where there are events their trigger is there.
LEMMA TamperChangesNothing ==
  ASSUME Inv, NEW t \in Trace, Tamper(t)
  PROVE  /\ UNCHANGED <<stored, migration, outcome, calls>>
PROOF
<1>1. events[t] # <<>>
      /\ UNCHANGED <<schema, revision, migration, outcome, cases, calls>>
      /\ (EventsTrigger \in schema => events' = events)
  BY DEF Tamper
<1>2. revision # "base" /\ revision \in Revisions /\ schema = UpTo(Height(revision))
  BY <1>1 DEF Inv, Rows, Types, SchemaKnown
<1>3. EventsTrigger \in schema
  BY <1>2, AtRevision
<1> QED
  BY <1>1, <1>3 DEF stored

LEMMA TamperStep ==
  ASSUME Inv, NEW t \in Trace, Tamper(t)
  PROVE  Inv'
PROOF
<1>1. UNCHANGED <<stored, migration, outcome, calls>>
  BY TamperChangesNothing
<1>2. migration' = migration /\ outcome' = outcome /\ UNCHANGED <<stored, calls>>
  BY <1>1
<1>3. outcome \in {NULL, "running", "done", "deadlock", "crashed"}
  BY DEF Inv, Types
<1> QED
  BY <1>2, <1>3, Migrating, MigrationKeeps

-----------------------------------------------------------------------------
(* The steps of the calls. *)

CallLabel == {"cases", "events", "commit", "done"}

\* c goes to a label; the rows may have grown.
Moves(c, label) ==
  /\ UNCHANGED <<schema, revision, migration, outcome, request>>
  /\ pc[c] # "idle" /\ label \in CallLabel
  /\ pc' = [pc EXCEPT ![c] = label]
  /\ locks' = [locks EXCEPT ![c] = LocksOf(label)]

\* What it locks is free, and what it has seen is so.
Sees(c, label) ==
  /\ migration # NULL => LocksOf(label) \cap migration.locked = {}
  /\ label \in {"events", "commit"} =>
       revision # "base" /\ (c \notin CreateCall => request[c].trace \in cases)
  /\ label = "commit" => revision = "head"

RowsGrow ==
  /\ cases \subseteq cases' /\ cases' \subseteq Trace
  /\ events' \in [Trace -> Seq(Receipts)]
  /\ Rows' /\ Keys'

LEMMA CallKeeps ==
  ASSUME Inv, NEW c \in Call, NEW label, Moves(c, label), Sees(c, label), RowsGrow
  PROVE  Inv'
PROOF
<1>1. /\ pc \in [Call -> CallLabel \cup {"idle"}] /\ locks = [d \in Call |-> LocksOf(pc[d])]
      /\ UNCHANGED <<schema, revision, migration, outcome, request>>
  BY DEF Inv, Types, Locks, Moves, CallLabel
<1>2. pc' \in [Call -> CallLabel \cup {"idle"}]
  BY <1>1 DEF Moves
<1>3. /\ pc'[c] = label /\ locks'[c] = LocksOf(label)
      /\ \A d \in Call \ {c} : pc'[d] = pc[d] /\ locks'[d] = locks[d]
  BY <1>1 DEF Moves
<1>4. Types'
  <2>1. \A d \in Call : pc'[d] # "idle" => request'[d] \in [trace : Trace, key : Key]
    BY <1>1, <1>3 DEF Inv, Types, Moves
  <2>2. Types
    BY DEF Inv
  <2> QED
    BY <1>1, <1>2, <2>1, <2>2 DEF Types, RowsGrow, CallLabel
<1>5. SchemaKnown'
  BY <1>1 DEF Inv, SchemaKnown
<1>6. Locks'
  <2>1. locks' = [d \in Call |-> LocksOf(pc'[d])]
    BY <1>1, <1>3 DEF Moves
  <2>2. migration' # NULL => \A d \in Call : locks'[d] \cap migration'.locked = {}
    BY <1>1, <1>3 DEF Inv, Locks, Sees
  <2> QED
    BY <2>1, <2>2 DEF Locks
<1>7. Seen'
  <2>1. ASSUME NEW d \in Call, pc'[d] \in {"events", "commit"}
        PROVE  revision' # "base" /\ (d \notin CreateCall => request'[d].trace \in cases')
    BY <1>1, <1>3, <2>1 DEF Inv, Seen, Sees, RowsGrow
  <2>2. ASSUME NEW d \in Call, pc'[d] = "commit"
        PROVE  revision' = "head"
    BY <1>1, <1>3, <2>2 DEF Inv, Seen, Sees
  <2> QED
    BY <2>1, <2>2 DEF Seen
<1> QED
  BY <1>4, <1>5, <1>6, <1>7 DEF Inv, RowsGrow

LEMMA RowsStay ==
  ASSUME Inv, UNCHANGED <<revision, cases, events>>
  PROVE  RowsGrow
PROOF
<1>1. Rows'
  BY DEF Inv, Rows
<1>2. Keys'
  BY DEF Inv, Keys
<1> QED
  BY <1>1, <1>2 DEF Inv, Types, RowsGrow

\* The end of a transaction, without rows.
LEMMA AnsweredKeeps ==
  ASSUME Inv, NEW c \in Call, NEW what, pc[c] # "idle", Answered(c, what),
         UNCHANGED <<stored, migration, outcome, request>>
  PROVE  Inv'
PROOF
<1>1. UNCHANGED <<schema, revision, cases, events>>
  BY DEF stored
<1>2. Moves(c, "done")
  BY <1>1 DEF Moves, Answered, CallLabel, LocksOf
<1>3. Sees(c, "done")
  BY DEF Sees, LocksOf
<1> QED
  BY <1>1, <1>2, <1>3, RowsStay, CallKeeps

LEMMA ArriveStep ==
  ASSUME Inv, NEW c \in Call, Arrive(c)
  PROVE  Inv'
PROOF
<1>1. PICK t \in Trace, k \in Key : request' = [request EXCEPT ![c] = [trace |-> t, key |-> k]]
  BY DEF Arrive
<1>2. /\ pc[c] = "idle" /\ pc' = [pc EXCEPT ![c] = "cases"]
      /\ UNCHANGED <<schema, revision, cases, events, migration, outcome, answer, locks>>
  BY DEF Arrive, stored
<1>3. Types /\ SchemaKnown /\ Rows /\ Locks /\ Seen /\ Keys
  BY DEF Inv
<1>4. /\ request'[c] = [trace |-> t, key |-> k] /\ pc'[c] = "cases" /\ DOMAIN request' = Call
      /\ \A d \in Call \ {c} : pc'[d] = pc[d] /\ request'[d] = request[d]
      /\ pc' \in [Call -> {"idle", "cases", "events", "commit", "done"}]
  BY <1>1, <1>2, <1>3 DEF Types
<1>5. Types'
  <2>1. \A d \in Call : pc'[d] # "idle" => request'[d] \in [trace : Trace, key : Key]
    BY <1>3, <1>4 DEF Types
  <2> QED
    BY <1>2, <1>3, <1>4, <2>1 DEF Types
<1>6. SchemaKnown' /\ Rows'
  BY <1>2, <1>3 DEF SchemaKnown, Rows
<1>7. Locks'
  <2>1. \A d \in Call : LocksOf(pc'[d]) = LocksOf(pc[d])
    BY <1>2, <1>4 DEF LocksOf
  <2> QED
    BY <1>2, <1>3, <2>1 DEF Locks
<1>8. Seen'
  BY <1>2, <1>3, <1>4 DEF Seen
<1>9. Keys'
  BY <1>2, <1>3 DEF Keys
<1> QED
  BY <1>5, <1>6, <1>7, <1>8, <1>9 DEF Inv

LEMMA UseCasesStep ==
  ASSUME Inv, NEW c \in Call, UseCases(c)
  PROVE  Inv'
PROOF
<1>1. pc[c] = "cases" /\ UNCHANGED <<stored, migration, outcome, request>>
  BY DEF UseCases
<1>2. CASE \E what : Answered(c, what)
  BY <1>1, <1>2, AnsweredKeeps
<1>3. CASE /\ Cases \in schema /\ ~ LockedByMigration(Cases)
           /\ (request[c].trace \in cases) # (c \in CreateCall)
           /\ pc' = [pc EXCEPT ![c] = "events"] /\ locks' = [locks EXCEPT ![c] = {Cases}]
  <2>1. UNCHANGED <<schema, revision, cases, events>>
    BY <1>1 DEF stored
  <2>2. Moves(c, "events")
    BY <1>1, <1>3, <2>1 DEF Moves, CallLabel, LocksOf
  <2>3. revision # "base"
    BY <1>3, AtRevision DEF Inv, Types, SchemaKnown
  <2>4. Sees(c, "events")
    BY <1>3, <2>3 DEF Sees, LocksOf, LockedByMigration
  <2> QED
    BY <2>1, <2>2, <2>4, RowsStay, CallKeeps
<1> QED
  BY <1>2, <1>3 DEF UseCases

LEMMA UseEventsStep ==
  ASSUME Inv, NEW c \in Call, UseEvents(c)
  PROVE  Inv'
PROOF
<1>1. /\ pc[c] = "events" /\ ~ LockedByMigration(Events)
      /\ UNCHANGED <<stored, migration, outcome, request>>
  BY DEF UseEvents
<1>2. CASE Answered(c, "error")
  BY <1>1, <1>2, AnsweredKeeps
<1>3. CASE /\ MappedColumns \subseteq schema /\ pc' = [pc EXCEPT ![c] = "commit"]
           /\ locks' = [locks EXCEPT ![c] = @ \cup {Events}]
  <2>1. UNCHANGED <<schema, revision, cases, events>>
    BY <1>1 DEF stored
  <2>2. locks[c] = {Cases} /\ locks' = [locks EXCEPT ![c] = {Cases, Events}]
        /\ (migration # NULL => {Cases} \cap migration.locked = {})
    BY <1>1, <1>3 DEF Inv, Locks, LocksOf
  <2>3. Moves(c, "commit")
    BY <1>1, <1>3, <2>1, <2>2 DEF Moves, CallLabel, LocksOf
  <2>4. revision = "head"
    BY <1>3, AtRevision DEF Inv, Types, SchemaKnown
  <2>5. Sees(c, "commit")
    BY <1>1, <2>2, <2>4 DEF Sees, LocksOf, LockedByMigration, Inv, Seen
  <2> QED
    BY <2>1, <2>3, <2>5, RowsStay, CallKeeps
<1> QED
  BY <1>2, <1>3 DEF UseEvents

\* A call commits with both revisions in force, and a command on a stored trace.
LEMMA Committing ==
  ASSUME Inv, NEW c \in Call, pc[c] = "commit"
  PROVE  /\ revision = "head" /\ schema = AnyObject
         /\ request[c].trace \in Trace /\ request[c].key \in Key
         /\ c \in CommandCall => request[c].trace \in cases
PROOF
<1>1. revision = "head" /\ (c \notin CreateCall => request[c].trace \in cases)
  BY DEF Inv, Seen
<1>2. c \in CommandCall => c \notin CreateCall
  BY CallAssumption
<1>3. schema = UpTo(11)
  BY <1>1 DEF Inv, SchemaKnown, Height
<1>4. request[c] \in [trace : Trace, key : Key]
  BY DEF Inv, Types
<1>5. UpTo(11) = AnyObject
  BY Ranks DEF UpTo
<1> QED
  BY <1>1, <1>2, <1>3, <1>4, <1>5

\* A new event and its key, where no receipt of the key is left.
LEMMA NewEvent ==
  ASSUME Inv, NEW t \in cases, NEW k \in Key, ~ Receipt(t, k), revision = "head",
         UNCHANGED <<revision, cases>>,
         events' = [events EXCEPT ![t] = Append(@, [key |-> k, sent |-> k])]
  PROVE  RowsGrow
PROOF
<1> DEFINE e == events[t]
           new == [key |-> k, sent |-> k]
<1>1. /\ events \in [Trace -> Seq(Receipts)] /\ cases \subseteq Trace /\ t \in Trace
      /\ e \in Seq(Receipts) /\ new \in Receipts
  BY DEF Inv, Types, Receipts
<1>2. /\ events'[t] = Append(e, new)
      /\ \A u \in Trace \ {t} : events'[u] = events[u]
  BY <1>1
<1>3. events' \in [Trace -> Seq(Receipts)]
  <2>1. Append(e, new) \in Seq(Receipts)
    BY <1>1, AppendProperties
  <2> HIDE DEF e, new
  <2>2. events' = [events EXCEPT ![t] = Append(e, new)]
    BY DEF e, new
  <2> QED
    BY <1>1, <2>1, <2>2
<1>4. /\ Len(e) \in Nat /\ Len(Append(e, new)) = Len(e) + 1 /\ Append(e, new)[Len(e) + 1] = new
      /\ \A i \in 1..Len(e) : Append(e, new)[i] = e[i]
  BY <1>1, AppendProperties, LenProperties
<1>5. Rows'
  BY <1>2 DEF Inv, Rows
<1>6. Keys'
  <2> SUFFICES ASSUME NEW u \in Trace
               PROVE  /\ \A i \in 1..Len(events'[u]) :
                           events'[u][i].key \in {NULL, events'[u][i].sent}
                      /\ \A i, j \in 1..Len(events'[u]) :
                           i < j /\ events'[u][i].sent = events'[u][j].sent
                             => events'[u][i].key = NULL
    BY DEF Keys
  <2>1. CASE u # t
    BY <1>2, <2>1 DEF Inv, Keys
  <2>2. CASE u = t
    <3>1. /\ \A i \in 1..Len(e) : e[i].key \in {NULL, e[i].sent}
          /\ \A i, j \in 1..Len(e) : i < j /\ e[i].sent = e[j].sent => e[i].key = NULL
      BY <1>1 DEF Inv, Keys
    <3>2. \A i \in 1..Len(e) : e[i].key # k
      BY <1>1 DEF Receipt
    <3>3. new.key = k /\ new.sent = k
      OBVIOUS
    <3> HIDE DEF e, new
    <3> DEFINE f == Append(e, new)
    <3>4. /\ Len(f) = Len(e) + 1 /\ f[Len(e) + 1] = new
          /\ \A i \in 1..Len(e) : f[i] = e[i]
      BY <1>4
    <3> HIDE DEF f
    <3>5. \A i \in 1..Len(f) : f[i].key \in {NULL, f[i].sent}
      <4> SUFFICES ASSUME NEW i \in 1..Len(f) PROVE f[i].key \in {NULL, f[i].sent}
        OBVIOUS
      <4>1. i \in 1..Len(e) \/ i = Len(e) + 1
        BY <1>4, <3>4
      <4> QED
        BY <3>1, <3>3, <3>4, <4>1
    <3>6. ASSUME NEW i \in 1..Len(f), NEW j \in 1..Len(f), i < j, f[i].sent = f[j].sent
          PROVE  f[i].key = NULL
      <4>1. i \in 1..Len(e) /\ f[i] = e[i] /\ (j \in 1..Len(e) \/ j = Len(e) + 1)
        BY <1>4, <3>4, <3>6
      <4>2. CASE j \in 1..Len(e)
        BY <3>1, <3>4, <3>6, <4>1, <4>2
      <4>3. CASE j = Len(e) + 1
        <5>1. e[i].sent = k
          BY <3>3, <3>4, <3>6, <4>1, <4>3
        <5> QED
          BY <3>1, <3>2, <4>1, <5>1
      <4> QED
        BY <4>1, <4>2, <4>3
    <3>7. events'[u] = f
      BY <1>2, <2>2 DEF f
    <3> QED
      BY <3>5, <3>6, <3>7
  <2> QED
    BY <2>1, <2>2
<1> QED
  BY <1>1, <1>3, <1>5, <1>6 DEF RowsGrow

LEMMA CommitCallStep ==
  ASSUME Inv, NEW c \in Call, CommitCall(c)
  PROVE  Inv'
PROOF
<1> DEFINE t == request[c].trace
           k == request[c].key
<1>1. /\ pc[c] = "commit" /\ UNCHANGED <<schema, revision, migration, outcome, request>>
      /\ \E what : Answered(c, what)
  BY DEF CommitCall
<1>2. revision = "head" /\ t \in Trace /\ k \in Key /\ (c \in CommandCall => t \in cases)
  BY <1>1, Committing
<1>3. Moves(c, "done") /\ Sees(c, "done")
  BY <1>1 DEF Moves, Sees, Answered, CallLabel, LocksOf
<1> HIDE DEF t, k
<1>4. CASE cases' = cases \cup {t} /\ events' = events
  <2>1. Rows'
    BY <1>1, <1>2, <1>4 DEF Inv, Rows
  <2>2. Keys'
    BY <1>4 DEF Inv, Keys
  <2>3. RowsGrow
    BY <1>2, <1>4, <2>1, <2>2 DEF RowsGrow, Inv, Types
  <2> QED
    BY <1>3, <2>3, CallKeeps
<1>5. CASE /\ c \in CommandCall /\ ~ Receipt(t, k) /\ cases' = cases
           /\ events' = [events EXCEPT ![t] = Append(@, [key |-> k, sent |-> k])]
  <2>1. RowsGrow
    BY <1>1, <1>2, <1>5, NewEvent
  <2> QED
    BY <1>3, <2>1, CallKeeps
<1>6. CASE UNCHANGED <<cases, events>>
  BY <1>1, <1>3, <1>6, RowsStay, CallKeeps
<1> QED
  BY <1>4, <1>5, <1>6 DEF CommitCall, t, k

LEMMA BreakDeadlockStep ==
  ASSUME Inv, NEW c \in Call, BreakDeadlock(c)
  PROVE  Inv'
PROOF
<1>1. UNCHANGED stored /\ pc[c] = "events"
  BY DEF BreakDeadlock, DeadlockedWith
<1>2. CASE EndMigration("deadlock") /\ UNCHANGED calls
  BY <1>1, <1>2, MigrationKeeps DEF EndMigration
<1>3. CASE Answered(c, "error") /\ UNCHANGED <<migration, outcome, request>>
  BY <1>1, <1>3, AnsweredKeeps
<1> QED
  BY <1>2, <1>3 DEF BreakDeadlock

\* A crash ends every transaction, the migration's and the calls'.
LEMMA CrashStep ==
  ASSUME Inv, Crash
  PROVE  Inv'
PROOF
<1> DEFINE Running == {c \in Call : pc[c] \in {"events", "commit"}}
<1>1. /\ UNCHANGED <<schema, revision, cases, events, request>>
      /\ pc' = [c \in Call |-> IF c \in Running THEN "done" ELSE pc[c]]
      /\ locks' = [c \in Call |-> {}]
      /\ migration' = NULL
      /\ outcome' = outcome \/ outcome' = "crashed"
  BY DEF Crash, EndMigration, stored
<1>2. Types /\ SchemaKnown /\ Rows /\ Keys
  BY DEF Inv
<1>3. \A c \in Call : pc'[c] \in {"idle", "cases", "done"} /\ (pc'[c] # "idle" => pc[c] # "idle")
  BY <1>1, <1>2 DEF Types
<1>4. Types'
  <2>1. pc' \in [Call -> {"idle", "cases", "events", "commit", "done"}]
    BY <1>1, <1>2 DEF Types
  <2> QED
    BY <1>1, <1>2, <1>3, <2>1 DEF Types
<1>5. SchemaKnown' /\ Rows'
  BY <1>1, <1>2 DEF SchemaKnown, Rows
<1>6. Locks' /\ Seen'
  BY <1>1, <1>3 DEF Locks, Seen, LocksOf
<1>7. Keys'
  BY <1>1, <1>2 DEF Keys
<1> QED
  BY <1>4, <1>5, <1>6, <1>7 DEF Inv

-----------------------------------------------------------------------------
(* The theorems. *)

LEMMA InvInit == Init => Inv
PROOF
<1> SUFFICES ASSUME Init PROVE Inv
  OBVIOUS
<1>1. Types
  BY DEF Init, Types, Revisions
<1>2. SchemaKnown
  <2>1. UpTo(0) = {} /\ DownTo(7) = {}
    BY Ranks DEF UpTo, DownTo
  <2> QED
    BY <2>1 DEF Init, SchemaKnown, Height, Depth
<1>3. Rows /\ Locks /\ Seen /\ Keys
  BY DEF Init, Rows, Locks, LocksOf, Seen, Keys
<1> QED
  BY <1>1, <1>2, <1>3 DEF Inv

LEMMA InvNext == Inv /\ [Next]_vars => Inv'
PROOF
<1> SUFFICES ASSUME Inv, [Next]_vars PROVE Inv'
  OBVIOUS
<1>1. ASSUME NEW target \in ToSet(Revision), StartMigration(target) PROVE Inv'
  BY <1>1, RevisionSet, StartMigrationStep
<1>2. CASE MigrationStep \/ Crash
  BY <1>2, LockForMigrationStep, RunStatementStep, CommitMigrationStep, CrashStep
     DEF MigrationStep
<1>3. ASSUME NEW t \in Trace, Tamper(t) PROVE Inv'
  BY <1>3, TamperStep
<1>4. ASSUME NEW c \in Call, Arrive(c) \/ CallStep(c) \/ BreakDeadlock(c) PROVE Inv'
  BY <1>4, ArriveStep, UseCasesStep, UseEventsStep, CommitCallStep, BreakDeadlockStep
     DEF CallStep
<1>5. CASE UNCHANGED vars
  <2>1. UNCHANGED <<stored, calls>> /\ migration' = migration /\ outcome' = outcome
    BY <1>5 DEF vars, stored, calls
  <2>2. outcome \in {NULL, "running", "done", "deadlock", "crashed"}
    BY DEF Inv, Types
  <2> QED
    BY <2>1, <2>2, Migrating, MigrationKeeps
<1> QED
  BY <1>1, <1>2, <1>3, <1>4, <1>5 DEF Next

\* The inductive invariant holds always, on every path of migrations and calls.
THEOREM MigrationInvariant == Spec => []Inv
PROOF
<1> QED
  BY InvInit, InvNext, PTL DEF Spec

\* Whatever path of upgrades, downgrades, deadlocks and crashes led there, the
\* stored revision names the schema: base is empty, head is what the service's
\* models declare with the triggers, history the same without the columns of keys.
THEOREM RevisionNamesSchema == Spec => []SchemaIsRevision
PROOF
<1>1. Inv => SchemaIsRevision
  <2> SUFFICES ASSUME Inv PROVE SchemaIsRevision
    OBVIOUS
  <2>1. schema = UpTo(Height(revision)) /\ revision \in Revisions
    BY DEF Inv, SchemaKnown, Types
  <2>2. /\ UpTo(11) = AnyObject /\ UpTo(0) = {}
        /\ UpTo(8) = AnyObject \ {KeyColumn, FingerprintColumn, KeyIndex}
    BY <2>1, AtRevision
  <2>3. schema \subseteq AnyObject
    BY <2>1 DEF UpTo
  <2>4. migration # NULL => /\ migration.target \in Revisions /\ migration.draft \subseteq AnyObject
                            /\ migration.locked \subseteq {Cases, Events}
    BY DEF Inv, Types, Migration
  <2>5. \A t \in Trace : /\ \A i \in DOMAIN events[t] : events[t][i] \in Receipts
                         /\ t \notin cases => events[t] = <<>>
    BY DEF Inv, Types, Rows
  <2>6. \A c \in Call : locks[c] # {} <=> pc[c] \in {"events", "commit"}
    BY DEF Inv, Locks, LocksOf
  <2>7. TypeOK
    BY <2>1, <2>3, <2>4, <2>5, <2>6, RevisionSet DEF TypeOK, Inv, Types
  <2> QED
    BY <2>1, <2>2, <2>7 DEF SchemaIsRevision, Height, AnyObject
<1> QED
  BY <1>1, MigrationInvariant, PTL

\* No statement of either revision, up or down, is ever refused.
THEOREM NoMigrationIsRefused == Spec => []MigrationsNeverRefused
PROOF
<1>1. Inv => MigrationsNeverRefused
  BY NullAssumption DEF Inv, Types, MigrationsNeverRefused
<1> QED
  BY <1>1, MigrationInvariant, PTL

\* A command is stored a second time under its key only where a downgrade of the
\* second revision has erased the key of every event that carried it.
THEOREM KeysActAgainOnlyIfErased == Spec => []KeyActsAgainOnlyIfErased
PROOF
<1>1. Inv => KeyActsAgainOnlyIfErased
  <2> SUFFICES ASSUME Inv, NEW t \in Trace, NEW i \in DOMAIN events[t], NEW j \in DOMAIN events[t],
                      i < j, events[t][i].sent = events[t][j].sent
               PROVE  events[t][i].key = NULL
    BY DEF KeyActsAgainOnlyIfErased
  <2>1. DOMAIN events[t] = 1..Len(events[t])
    BY DEF Inv, Types
  <2> QED
    BY <2>1 DEF Inv, Keys
<1> QED
  BY <1>1, MigrationInvariant, PTL

-----------------------------------------------------------------------------
(* The history, step by step. *)

\* The rows of a trace, and nothing of them lost.
Survives(t) ==
  /\ t \in cases'
  /\ Len(events'[t]) >= Len(events[t])
  /\ \A i \in DOMAIN events[t] : events'[t][i].sent = events[t][i].sent

Grows(t) == t \in cases' \ cases \/ Len(events'[t]) > Len(events[t])

LEMMA UnchangedSurvives ==
  ASSUME Inv, UNCHANGED <<cases, events>>
  PROVE  (\A t \in cases : Survives(t)) /\ (\A t \in Trace : ~ Grows(t))
PROOF
<1>1. \A t \in Trace : Len(events[t]) \in Nat
  BY LenProperties DEF Inv, Types
<1> QED
  BY <1>1 DEF Inv, Types, Survives, Grows

\* A downgrade to base aside, the commit of a migration keeps every row.
LEMMA MigrationSurvives ==
  ASSUME Inv, CommitMigration
  PROVE  /\ revision' = "base" \/ \A t \in cases : Survives(t)
         /\ \A t \in Trace : ~ Grows(t)
PROOF
<1>1. /\ migration # NULL /\ migration.todo = <<>> /\ revision' = migration.target
      /\ cases' = (IF Cases \in migration.draft THEN cases ELSE {})
      /\ \A t \in Trace : events'[t] = KeptEvents(t)
  BY DEF CommitMigration
<1>2. /\ migration.target \in Revisions /\ migration.draft = UpTo(Height(migration.target))
      /\ cases \subseteq Trace
  BY <1>1, Migrating, Arrived DEF Migration, Inv, Types
<1>3. /\ Cases \in migration.draft <=> migration.target # "base"
      /\ Events \in migration.draft <=> migration.target # "base"
  <2>1. /\ Cases \in UpTo(Height(migration.target)) <=> migration.target # "base"
        /\ Events \in UpTo(Height(migration.target)) <=> migration.target # "base"
    BY <1>2, AtRevision
  <2> QED
    BY <1>2, <2>1
<1>4. \A t \in Trace : /\ events[t] \in Seq(Receipts) /\ Len(events[t]) \in Nat
                       /\ DOMAIN events[t] = 1..Len(events[t])
  BY LenProperties DEF Inv, Types
<1>5. CASE migration.target = "base"
  <2>1. \A t \in Trace : events'[t] = <<>>
    BY <1>1, <1>3, <1>5, Kept
  <2>2. \A t \in Trace : Len(events'[t]) = 0
    BY <2>1
  <2> QED
    BY <1>1, <1>3, <1>4, <1>5, <2>2 DEF Grows
<1>6. CASE migration.target # "base"
  <2>1. \A t \in Trace : /\ Len(events'[t]) = Len(events[t])
                         /\ \A i \in 1..Len(events[t]) : events'[t][i].sent = events[t][i].sent
    BY <1>1, <1>3, <1>6, Kept
  <2>2. cases' = cases
    BY <1>1, <1>3, <1>6
  <2> QED
    BY <1>2, <1>4, <2>1, <2>2 DEF Survives, Grows
<1> QED
  BY <1>5, <1>6

\* A call adds rows at the end, with both revisions in force.
LEMMA CallSurvives ==
  ASSUME Inv, NEW c \in Call, CommitCall(c)
  PROVE  (\A t \in cases : Survives(t)) /\ schema = AnyObject
PROOF
<1> DEFINE u == request[c].trace
           k == request[c].key
           new == [key |-> k, sent |-> k]
<1>1. pc[c] = "commit"
  BY DEF CommitCall
<1>2. schema = AnyObject
  BY <1>1, Committing
<1>3. /\ events \in [Trace -> Seq(Receipts)] /\ cases \subseteq Trace
      /\ \A t \in Trace : Len(events[t]) \in Nat /\ DOMAIN events[t] = 1..Len(events[t])
  BY LenProperties DEF Inv, Types
<1>4. \/ cases' = cases \cup {u} /\ events' = events
      \/ cases' = cases /\ events' = [events EXCEPT ![u] = Append(@, new)]
      \/ cases' = cases /\ events' = events
  BY DEF CommitCall
<1>5. new \in Receipts
  BY <1>1, Committing DEF Receipts
<1> HIDE DEF u, new
<1>6. CASE events' = events
  BY <1>2, <1>3, <1>4, <1>6 DEF Survives
<1>7. CASE cases' = cases /\ events' = [events EXCEPT ![u] = Append(@, new)]
  <2> SUFFICES ASSUME NEW t \in cases PROVE Survives(t)
    BY <1>2
  <2>1. CASE t # u
    BY <1>3, <1>7, <2>1 DEF Survives
  <2>2. CASE t = u
    <3>1. events'[t] = Append(events[t], new)
      BY <1>3, <1>7, <2>2
    <3>2. /\ Len(Append(events[t], new)) = Len(events[t]) + 1
          /\ \A i \in 1..Len(events[t]) : Append(events[t], new)[i] = events[t][i]
      BY <1>3, <1>5, AppendProperties
    <3> QED
      BY <1>3, <1>7, <3>1, <3>2 DEF Survives
  <2> QED
    BY <2>1, <2>2
<1> QED
  BY <1>4, <1>6, <1>7

\* Stored traces and events outlive everything but a downgrade to base, and new
\* ones appear only while both revisions are in force and complete.
THEOREM HistoryOutlivesMigrations == Spec => HistorySurvives
PROOF
<1>1. ASSUME Inv, [Next]_vars
      PROVE  /\ revision' = "base" \/ \A t \in cases : Survives(t)
             /\ \A t \in Trace : Grows(t) => schema = AnyObject
  <2>1. CASE UNCHANGED <<cases, events>>
    BY <1>1, <2>1, UnchangedSurvives
  <2>2. CASE CommitMigration
    BY <1>1, <2>2, MigrationSurvives
  <2>3. ASSUME NEW c \in Call, CommitCall(c)
        PROVE  (\A t \in cases : Survives(t)) /\ schema = AnyObject
    BY <1>1, <2>3, CallSurvives
  <2>4. ASSUME NEW t \in Trace, Tamper(t) PROVE UNCHANGED <<cases, events>>
    BY <1>1, <2>4, TamperChangesNothing DEF stored
  <2>5. \/ UNCHANGED <<cases, events>> \/ CommitMigration
        \/ (\E c \in Call : CommitCall(c)) \/ (\E t \in Trace : Tamper(t))
    BY <1>1 DEF Next, MigrationStep, CallStep, StartMigration, LockForMigration, RunStatement,
       Crash, Arrive, UseCases, UseEvents, BreakDeadlock, stored, vars
  <2> QED
    BY <2>1, <2>2, <2>3, <2>4, <2>5
<1>2. ASSUME Inv, [Next]_vars
      PROVE  [/\ revision' = "base" \/ \A t \in cases :
                  /\ t \in cases'
                  /\ Len(events'[t]) >= Len(events[t])
                  /\ \A i \in DOMAIN events[t] : events'[t][i].sent = events[t][i].sent
              /\ \A t \in Trace : (t \in cases' \ cases \/ Len(events'[t]) > Len(events[t]))
                  => schema = ModelSchema \cup TriggerSchema]_vars
  BY <1>1, <1>2 DEF Survives, Grows, AnyObject
<1> QED
  BY <1>2, MigrationInvariant, PTL DEF Spec, HistorySurvives
=============================================================================
