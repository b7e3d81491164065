------------------------- MODULE BatchSchedulerProofs -------------------------
(***************************************************************************)
(* Proofs about BatchScheduler, for any number of queries and pages, any   *)
(* lengths of prompts and chunks.                                          *)
(*                                                                         *)
(* Nothing is assumed about the pace of the loop.  In the first part every *)
(* query that was added stands in one line: those that are ready for a     *)
(* batch, the one that is being prepared, those that wait, with consecutive*)
(* ids; a query in front of the line has begun, and none else has.  The    *)
(* second part is about what a query relies on as long as no chunk of its  *)
(* own is taken twice, whatever happens to the others.                     *)
(***************************************************************************)
EXTENDS BatchScheduler, FiniteSetTheorems, SequenceTheorems, TLAPS

\* What the variables range over.
FittingTasks == {t \in Tasks : t.start + t.length <= Prompt[t.query]}
BatchSet  == [prefill : SUBSET FittingTasks, decode : SUBSET Queries]
UpdateSet == [query : Queries, active_position : Nat, decode_done : BOOLEAN]
EventSet  ==
  {Add, Schedule, QueryDone}
    \cup {Prepare(q, first) : q \in Queries, first \in BOOLEAN}
    \cup {Prepared(q) : q \in Queries}
    \cup {Update(us) : us \in SUBSET UpdateSet}
    \cup {Taken(b) : b \in BatchSet}

QueryRanges ==
  /\ plan_status \in [Queries -> Statuses]
  /\ plan_position \in [Queries -> Nat]
  /\ \A q \in Queries : plan_position[q] <= Prompt[q]
  /\ kvc2_handle \in [Queries -> BOOLEAN] /\ block_index \in [Queries -> SUBSET Pages]
AdmitRanges ==
  /\ waiting \in Seq(Queries) /\ ready_queue \in Seq(Queries)
  /\ has_query_preparing \in BOOLEAN /\ wait_done_prepare \in Queries \cup {None}
  /\ query_id_counter \in Nat \ {0} /\ requests \in 0..MaxQueries
EngineRanges ==
  /\ engine \in {"put", "take", "report", "finish"}
  /\ batch \in BatchSet /\ upcoming \in BatchSet /\ updates \in SUBSET UpdateSet
  /\ active_position \in [Queries -> Nat] /\ ended \in SUBSET Queries
  /\ repeated \in SUBSET Queries
Ranges ==
  /\ events \in Seq(EventSet) /\ loop \in {"dequeue", "check", "crashed"}
  /\ QueryRanges /\ AdmitRanges /\ EngineRanges
  /\ active_query \in SUBSET Queries
  /\ next_batch \in [batch : BatchSet, fresh : BOOLEAN]

\* Each add_query is still an event, or has made an id.
AddsOf(s) == {i \in DOMAIN s : s[i].type = "Add"}
Counted == requests + 1 = query_id_counter + Cardinality(AddsOf(events))

\* The query being prepared is one event or the kept one.
InFlight(e)  == e.type \in {"Prepare", "Prepared"}
NoFlight(s)  == \A i \in DOMAIN s : ~InFlight(s[i])
OneFlight(s) == \E i \in DOMAIN s : InFlight(s[i]) /\ \A j \in DOMAIN s : InFlight(s[j]) => j = i
Preparation ==
  /\ has_query_preparing /\ wait_done_prepare = None => OneFlight(events)
  /\ ~has_query_preparing \/ wait_done_prepare # None => NoFlight(events)
  /\ wait_done_prepare # None \/ waiting # <<>> => has_query_preparing

\* The line: First is the id at its head, Current the one being prepared.
Begun(q) == plan_status[q] \in {"Prefill", "Decode", "Done"}
Current  == query_id_counter - Len(waiting) - 1
First    == query_id_counter - Len(waiting) - (IF has_query_preparing THEN 1 ELSE 0) - Len(ready_queue)
Line ==
  /\ First >= 1
  /\ \A i \in 1..Len(ready_queue) : ready_queue[i] = First + i - 1
  /\ \A i \in 1..Len(waiting) : waiting[i] = query_id_counter - Len(waiting) + i - 1
  /\ \A i \in DOMAIN events : InFlight(events[i]) => events[i].query = Current
  /\ wait_done_prepare # None => wait_done_prepare = Current
  /\ \A q \in Queries : Begun(q) <=> q < First

\* A query that is in a batch has begun.
TakenBatches == {events[i].batch : i \in {j \in DOMAIN events : events[j].type = "Taken"}}
Batches == {batch, upcoming, next_batch.batch} \cup TakenBatches
Members == \A b \in Batches : \A q \in QueryIds(b) : Begun(q)

LineInv == Ranges /\ Counted /\ Preparation /\ Line /\ Members

-----------------------------------------------------------------------------
(* Events and the queue of them *)

LEMMA QueriesAre == Queries \subseteq Nat \ {0} /\ None \notin Queries
BY BoundAssumption DEF Queries, None

LEMMA QueriesFinite ==
  ASSUME NEW S \in SUBSET Queries
  PROVE  IsFiniteSet(S) /\ Cardinality(S) \in Nat
<1>1. IsFiniteSet(Queries)
  BY BoundAssumption, FS_Interval DEF Queries
<1> QED
  BY <1>1, FS_Subset, FS_CardinalityType

LEMMA EventFields ==
  ASSUME NEW e \in EventSet
  PROVE  /\ e.type \in {"Add", "Schedule", "QueryStatus", "Prepare", "Prepared", "Update", "Taken"}
         /\ e.type \in {"Prepare", "Prepared"} => e.query \in Queries
         /\ e.type = "Prepare" => e = Prepare(e.query, e.first_try) /\ e.first_try \in BOOLEAN
         /\ e.type = "Prepared" => e = Prepared(e.query)
         /\ e.type = "Update" => e.updates \in SUBSET UpdateSet
         /\ e.type = "Taken" => e.batch \in BatchSet
<1>1. CASE e \in {Add, Schedule, QueryDone}
  BY <1>1 DEF Add, Schedule, QueryDone
<1>2. CASE e \in {Prepare(q, first) : q \in Queries, first \in BOOLEAN}
  <2>1. PICK q \in Queries, first \in BOOLEAN : e = Prepare(q, first)
    BY <1>2
  <2> QED
    BY <2>1 DEF Prepare
<1>3. CASE e \in {Prepared(q) : q \in Queries}
  BY <1>3 DEF Prepared
<1>4. CASE e \in {Update(us) : us \in SUBSET UpdateSet}
  <2>1. PICK us \in SUBSET UpdateSet : e = Update(us)
    BY <1>4
  <2> QED
    BY <2>1 DEF Update
<1>5. CASE e \in {Taken(b) : b \in BatchSet}
  <2>1. PICK b \in BatchSet : e = Taken(b)
    BY <1>5
  <2> QED
    BY <2>1 DEF Taken
<1> QED
  BY <1>1, <1>2, <1>3, <1>4, <1>5 DEF EventSet

LEMMA EventsMade ==
  /\ Add \in EventSet /\ Schedule \in EventSet /\ QueryDone \in EventSet
  /\ \A q \in Queries, first \in BOOLEAN : Prepare(q, first) \in EventSet
  /\ \A q \in Queries : Prepared(q) \in EventSet
  /\ \A us \in SUBSET UpdateSet : Update(us) \in EventSet
  /\ \A b \in BatchSet : Taken(b) \in EventSet
BY DEF EventSet

\* What a handler leaves of the queue.
LEMMA Enqueued ==
  ASSUME NEW s \in Seq(EventSet), s # <<>>, NEW new \in Seq(EventSet)
  PROVE  /\ Tail(s) \o new \in Seq(EventSet) /\ Head(s) = s[1] /\ Head(s) \in EventSet
         /\ Len(s) \in Nat \ {0} /\ Len(new) \in Nat
         /\ DOMAIN s = 1..Len(s) /\ DOMAIN new = 1..Len(new)
         /\ DOMAIN (Tail(s) \o new) = 1..(Len(s) - 1 + Len(new))
         /\ \A i \in 1..(Len(s) - 1) : (Tail(s) \o new)[i] = s[i + 1]
         /\ \A i \in 1..Len(new) : (Tail(s) \o new)[Len(s) - 1 + i] = new[i]
<1> DEFINE t == Tail(s)
           u == t \o new
<1>1. /\ Head(s) \in EventSet /\ t \in Seq(EventSet) /\ Len(t) = Len(s) - 1
      /\ \A i \in 1..Len(t) : t[i] = s[i + 1]
      /\ Len(s) \in Nat \ {0} /\ DOMAIN s = 1..Len(s) /\ Head(s) = s[1]
  BY HeadTailProperties, EmptySeq, LenProperties
<1>2. Len(new) \in Nat /\ DOMAIN new = 1..Len(new)
  BY LenProperties
<1> HIDE DEF t
<1>3. /\ u \in Seq(EventSet) /\ Len(u) = Len(t) + Len(new)
      /\ \A i \in 1..(Len(t) + Len(new)) : u[i] = IF i <= Len(t) THEN t[i] ELSE new[i - Len(t)]
  BY <1>1, ConcatProperties
<1> HIDE DEF u
<1>4. DOMAIN u = 1..(Len(s) - 1 + Len(new))
  BY <1>1, <1>3, LenProperties
<1>5. \A i \in 1..(Len(s) - 1) : u[i] = s[i + 1]
  <2> SUFFICES ASSUME NEW i \in 1..(Len(s) - 1) PROVE u[i] = s[i + 1]
    OBVIOUS
  <2>1. i \in 1..(Len(t) + Len(new)) /\ i <= Len(t) /\ i \in 1..Len(t)
    BY <1>1, <1>2
  <2> QED
    BY <1>1, <1>3, <2>1
<1>6. \A i \in 1..Len(new) : u[Len(s) - 1 + i] = new[i]
  <2> SUFFICES ASSUME NEW i \in 1..Len(new) PROVE u[Len(s) - 1 + i] = new[i]
    OBVIOUS
  <2>1. /\ Len(t) + i \in 1..(Len(t) + Len(new)) /\ ~(Len(t) + i <= Len(t))
        /\ (Len(t) + i) - Len(t) = i
    BY <1>1, <1>2
  <2> QED
    BY <1>1, <1>3, <2>1
<1> QED
  BY <1>1, <1>2, <1>3, <1>4, <1>5, <1>6 DEF t, u

LEMMA Appended ==
  ASSUME NEW s \in Seq(EventSet), NEW e \in EventSet
  PROVE  /\ Append(s, e) \in Seq(EventSet) /\ Len(s) \in Nat
         /\ DOMAIN s = 1..Len(s) /\ DOMAIN Append(s, e) = 1..(Len(s) + 1)
         /\ \A i \in 1..Len(s) : Append(s, e)[i] = s[i]
         /\ Append(s, e)[Len(s) + 1] = e
<1>1. /\ Append(s, e) \in Seq(EventSet) /\ Len(Append(s, e)) = Len(s) + 1
      /\ \A i \in 1..Len(s) : Append(s, e)[i] = s[i]
      /\ Append(s, e)[Len(s) + 1] = e
  BY AppendProperties
<1>2. Len(s) \in Nat /\ DOMAIN s = 1..Len(s)
  BY LenProperties
<1>3. DOMAIN Append(s, e) = 1..Len(Append(s, e))
  BY <1>1, LenProperties
<1> QED
  BY <1>1, <1>2, <1>3

\* A short sequence of events.
LEMMA OneEvent ==
  /\ <<>> \in Seq(EventSet) /\ Len(<<>>) = 0 /\ DOMAIN <<>> = {}
  /\ \A e \in EventSet :
       <<e>> \in Seq(EventSet) /\ Len(<<e>>) = 1 /\ <<e>>[1] = e /\ DOMAIN <<e>> = {1}
OBVIOUS

\* Any event of the queue after a handler was in it before, or is a new one.
LEMMA EventsAfter ==
  ASSUME NEW s \in Seq(EventSet), s # <<>>, NEW new \in Seq(EventSet),
         NEW i \in DOMAIN (Tail(s) \o new)
  PROVE  \/ i + 1 \in DOMAIN s /\ (Tail(s) \o new)[i] = s[i + 1]
         \/ \E j \in DOMAIN new : i = Len(s) - 1 + j /\ (Tail(s) \o new)[i] = new[j]
<1> DEFINE u == Tail(s) \o new
<1>1. /\ Len(s) \in Nat \ {0} /\ Len(new) \in Nat
      /\ DOMAIN s = 1..Len(s) /\ DOMAIN new = 1..Len(new) /\ DOMAIN u = 1..(Len(s) - 1 + Len(new))
      /\ \A k \in 1..(Len(s) - 1) : u[k] = s[k + 1]
      /\ \A k \in 1..Len(new) : u[Len(s) - 1 + k] = new[k]
  BY Enqueued
<1> HIDE DEF u
<1>2. CASE i <= Len(s) - 1
  <2>1. i \in 1..(Len(s) - 1) /\ i + 1 \in 1..Len(s)
    BY <1>1, <1>2 DEF u
  <2> QED
    BY <1>1, <2>1 DEF u
<1>3. CASE ~(i <= Len(s) - 1)
  <2>1. i - (Len(s) - 1) \in 1..Len(new) /\ i = Len(s) - 1 + (i - (Len(s) - 1))
    BY <1>1, <1>3 DEF u
  <2> QED
    BY <1>1, <2>1 DEF u
<1> QED
  BY <1>2, <1>3

\* And every event but the first is still there.
LEMMA EventsStay ==
  ASSUME NEW s \in Seq(EventSet), s # <<>>, NEW new \in Seq(EventSet), NEW i \in DOMAIN s, i # 1
  PROVE  i - 1 \in DOMAIN (Tail(s) \o new) /\ (Tail(s) \o new)[i - 1] = s[i]
<1> DEFINE u == Tail(s) \o new
<1>1. /\ Len(s) \in Nat \ {0} /\ Len(new) \in Nat
      /\ DOMAIN s = 1..Len(s) /\ DOMAIN u = 1..(Len(s) - 1 + Len(new))
      /\ \A k \in 1..(Len(s) - 1) : u[k] = s[k + 1]
  BY Enqueued
<1> HIDE DEF u
<1>2. i - 1 \in 1..(Len(s) - 1) /\ (i - 1) + 1 = i
  BY <1>1
<1>3. i - 1 \in DOMAIN u /\ u[i - 1] = s[i]
  BY <1>1, <1>2
<1> QED
  BY <1>3 DEF u

-----------------------------------------------------------------------------
(* The query being prepared *)

LEMMA FlightNone ==
  ASSUME NEW s \in Seq(EventSet), s # <<>>, NEW new \in Seq(EventSet),
         \A i \in DOMAIN s : i = 1 \/ ~InFlight(s[i]), NoFlight(new)
  PROVE  NoFlight(Tail(s) \o new)
<1>0. DOMAIN s = 1..Len(s) /\ Len(s) \in Nat /\ DOMAIN (Tail(s) \o new) \subseteq Nat \ {0}
  BY Enqueued
<1> DEFINE u == Tail(s) \o new
<1>1. ASSUME NEW i \in DOMAIN u PROVE ~InFlight(u[i])
  <2>1. \/ i + 1 \in DOMAIN s /\ u[i] = s[i + 1]
        \/ \E j \in DOMAIN new : u[i] = new[j]
    BY EventsAfter
  <2>2. i + 1 # 1
    BY <1>0
  <2> HIDE DEF u
  <2> QED
    BY <2>1, <2>2 DEF NoFlight
<1> QED
  BY <1>1 DEF NoFlight

LEMMA FlightKept ==
  ASSUME NEW s \in Seq(EventSet), s # <<>>, NEW new \in Seq(EventSet),
         ~InFlight(Head(s)), OneFlight(s), NoFlight(new)
  PROVE  OneFlight(Tail(s) \o new)
<1>0. /\ DOMAIN s = 1..Len(s) /\ Len(s) \in Nat /\ Head(s) = s[1]
      /\ DOMAIN (Tail(s) \o new) \subseteq Nat \ {0}
  BY Enqueued
<1> DEFINE u == Tail(s) \o new
<1>1. PICK i \in DOMAIN s : InFlight(s[i]) /\ \A j \in DOMAIN s : InFlight(s[j]) => j = i
  BY DEF OneFlight
<1>2. i # 1
  BY <1>0, <1>1
<1>3. i - 1 \in DOMAIN u /\ u[i - 1] = s[i]
  BY <1>2, EventsStay
<1>4. ASSUME NEW j \in DOMAIN u, InFlight(u[j]) PROVE j = i - 1
  <2>1. \/ j + 1 \in DOMAIN s /\ u[j] = s[j + 1]
        \/ \E k \in DOMAIN new : u[j] = new[k]
    BY EventsAfter
  <2> HIDE DEF u
  <2>2. j + 1 \in DOMAIN s /\ InFlight(s[j + 1])
    BY <1>4, <2>1 DEF NoFlight
  <2>3. j + 1 = i
    BY <1>1, <2>2
  <2> QED
    BY <1>0, <2>3 DEF u
<1> HIDE DEF u
<1>5. OneFlight(u)
  BY <1>1, <1>3, <1>4 DEF OneFlight
<1> QED
  BY <1>5 DEF u

LEMMA FlightSent ==
  ASSUME NEW s \in Seq(EventSet), s # <<>>, NEW e \in EventSet, InFlight(e),
         \A i \in DOMAIN s : i = 1 \/ ~InFlight(s[i])
  PROVE  OneFlight(Tail(s) \o <<e>>)
<1> DEFINE u == Tail(s) \o <<e>>
<1>0. /\ Len(s) \in Nat \ {0} /\ DOMAIN u = 1..Len(s)
      /\ u[Len(s)] = e
  <2>1. <<e>> \in Seq(EventSet) /\ Len(<<e>>) = 1 /\ <<e>>[1] = e
    BY OneEvent
  <2>2. /\ Len(s) \in Nat \ {0} /\ DOMAIN u = 1..(Len(s) - 1 + Len(<<e>>))
        /\ \A k \in 1..Len(<<e>>) : u[Len(s) - 1 + k] = <<e>>[k]
    BY <2>1, Enqueued
  <2> HIDE DEF u
  <2>3. Len(s) - 1 + Len(<<e>>) = Len(s) /\ u[Len(s) - 1 + 1] = e /\ Len(s) - 1 + 1 = Len(s)
    BY <2>1, <2>2
  <2> QED
    BY <2>2, <2>3
<1>1. ASSUME NEW j \in DOMAIN u, InFlight(u[j]) PROVE j = Len(s)
  <2>0. <<e>> \in Seq(EventSet) /\ DOMAIN <<e>> = {1}
    BY OneEvent
  <2>1. \/ j + 1 \in DOMAIN s /\ u[j] = s[j + 1]
        \/ \E k \in DOMAIN <<e>> : j = Len(s) - 1 + k
    BY <2>0, EventsAfter
  <2> HIDE DEF u
  <2>2. j + 1 # 1
    BY <1>0
  <2>3. \E k \in {1} : j = Len(s) - 1 + k
    BY <1>1, <2>0, <2>1, <2>2
  <2> QED
    BY <1>0, <2>3
<1> HIDE DEF u
<1>2. OneFlight(u)
  BY <1>0, <1>1 DEF OneFlight
<1> QED
  BY <1>2 DEF u

LEMMA FlightAppended ==
  ASSUME NEW s \in Seq(EventSet), NEW e \in EventSet, ~InFlight(e)
  PROVE  /\ NoFlight(s) => NoFlight(Append(s, e))
         /\ OneFlight(s) => OneFlight(Append(s, e))
<1> DEFINE u == Append(s, e)
<1>1. /\ Len(s) \in Nat /\ DOMAIN s = 1..Len(s) /\ DOMAIN u = 1..(Len(s) + 1)
      /\ \A i \in 1..Len(s) : u[i] = s[i]
      /\ u[Len(s) + 1] = e
  BY Appended
<1> HIDE DEF u
<1>2. NoFlight(s) => NoFlight(u)
  BY <1>1 DEF NoFlight
<1>3. OneFlight(s) => OneFlight(u)
  BY <1>1 DEF OneFlight
<1> QED
  BY <1>2, <1>3 DEF u

\* The head of the queue is the only one, if it is one.
LEMMA FlightAtHead ==
  ASSUME NEW s \in Seq(EventSet), s # <<>>, OneFlight(s), InFlight(Head(s))
  PROVE  \A i \in DOMAIN s : i = 1 \/ ~InFlight(s[i])
BY Enqueued, OneEvent DEF OneFlight

-----------------------------------------------------------------------------
(* The calls of add_query that are still events *)

LEMMA AddsFinite ==
  ASSUME NEW s \in Seq(EventSet)
  PROVE  IsFiniteSet(AddsOf(s)) /\ Cardinality(AddsOf(s)) \in Nat
<1>1. Len(s) \in Nat /\ AddsOf(s) \in SUBSET (1..Len(s))
  BY LenProperties DEF AddsOf
<1>2. IsFiniteSet(1..Len(s))
  BY <1>1, FS_Interval
<1> QED
  BY <1>1, <1>2, FS_Subset, FS_CardinalityType

LEMMA AddsAfter ==
  ASSUME NEW s \in Seq(EventSet), s # <<>>, NEW new \in Seq(EventSet), AddsOf(new) = {}
  PROVE  Cardinality(AddsOf(s)) =
           Cardinality(AddsOf(Tail(s) \o new)) + (IF Head(s).type = "Add" THEN 1 ELSE 0)
<1> DEFINE u == Tail(s) \o new
           A == AddsOf(s) \ {1}
           f == [i \in A |-> i - 1]
<1>0. /\ Len(s) \in Nat \ {0} /\ DOMAIN s = 1..Len(s) /\ Head(s) = s[1]
      /\ u \in Seq(EventSet) /\ DOMAIN u \subseteq Nat \ {0}
  BY Enqueued
<1>1. ASSUME NEW i \in A PROVE i \in Nat /\ i - 1 \in AddsOf(u)
  <2>1. i \in DOMAIN s /\ i # 1 /\ s[i].type = "Add"
    BY DEF AddsOf
  <2>2. i - 1 \in DOMAIN u /\ u[i - 1] = s[i]
    BY <2>1, EventsStay
  <2> HIDE DEF u
  <2> QED
    BY <1>0, <2>1, <2>2 DEF AddsOf
<1>2. ASSUME NEW j \in AddsOf(u) PROVE j + 1 \in A /\ j \in Nat
  <2>1. j \in DOMAIN u /\ u[j].type = "Add"
    BY DEF AddsOf
  <2>2. \/ j + 1 \in DOMAIN s /\ u[j] = s[j + 1]
        \/ \E k \in DOMAIN new : u[j] = new[k]
    BY <2>1, EventsAfter
  <2> HIDE DEF u
  <2>3. j + 1 \in AddsOf(s)
    BY <2>1, <2>2 DEF AddsOf
  <2> QED
    BY <1>0, <2>1, <2>3
<1> HIDE DEF u
<1>3. f \in Bijection(A, AddsOf(u))
  <2>1. f \in [A -> AddsOf(u)]
    BY <1>1
  <2>2. \A i, j \in A : f[i] = f[j] => i = j
    BY <1>1
  <2>3. \A j \in AddsOf(u) : \E i \in A : f[i] = j
    <3> SUFFICES ASSUME NEW j \in AddsOf(u) PROVE \E i \in A : f[i] = j
      OBVIOUS
    <3>1. j + 1 \in A /\ (j + 1) - 1 = j
      BY <1>2
    <3> QED
      BY <3>1
  <2> QED
    BY <2>1, <2>2, <2>3 DEF Bijection, Injection, Surjection, IsInjective
<1>4. IsFiniteSet(AddsOf(s)) /\ Cardinality(AddsOf(s)) \in Nat
  BY AddsFinite
<1>5. /\ IsFiniteSet(A)
      /\ Cardinality(A) = IF 1 \in AddsOf(s) THEN Cardinality(AddsOf(s)) - 1 ELSE Cardinality(AddsOf(s))
  BY <1>4, FS_RemoveElement
<1>6. Cardinality(AddsOf(u)) = Cardinality(A)
  <2> HIDE DEF f, A
  <2> QED
    BY <1>3, <1>5, FS_Bijection DEF ExistsBijection
<1>7. 1 \in AddsOf(s) <=> Head(s).type = "Add"
  BY <1>0 DEF AddsOf
<1> QED
  BY <1>4, <1>5, <1>6, <1>7 DEF u

LEMMA AddsAppended ==
  ASSUME NEW s \in Seq(EventSet), NEW e \in EventSet
  PROVE  Cardinality(AddsOf(Append(s, e))) =
           Cardinality(AddsOf(s)) + (IF e.type = "Add" THEN 1 ELSE 0)
<1> DEFINE u == Append(s, e)
<1>1. /\ Len(s) \in Nat /\ DOMAIN s = 1..Len(s) /\ DOMAIN u = 1..(Len(s) + 1)
      /\ \A i \in 1..Len(s) : u[i] = s[i]
      /\ u[Len(s) + 1] = e
  BY Appended
<1> HIDE DEF u
<1>2. Len(s) + 1 \notin AddsOf(s) /\ IsFiniteSet(AddsOf(s)) /\ Cardinality(AddsOf(s)) \in Nat
  <2>1. Len(s) + 1 \notin AddsOf(s)
    BY <1>1 DEF AddsOf
  <2> QED
    BY <2>1, AddsFinite
<1>3. CASE e.type = "Add"
  <2>1. AddsOf(u) = AddsOf(s) \cup {Len(s) + 1}
    BY <1>1, <1>3 DEF AddsOf
  <2> QED
    BY <1>2, <1>3, <2>1, FS_AddElement DEF u
<1>4. CASE e.type # "Add"
  <2>1. AddsOf(u) = AddsOf(s)
    BY <1>1, <1>4 DEF AddsOf
  <2> QED
    BY <1>2, <1>4, <2>1 DEF u
<1> QED
  BY <1>3, <1>4

-----------------------------------------------------------------------------
(* The helpers of the handlers *)

\* Only a request that is not yet an id can be the Add that is handled.
LEMMA AddHasId ==
  ASSUME LineInv, Handling("Add")
  PROVE  query_id_counter \in Queries
<1>1. events \in Seq(EventSet) /\ events # <<>> /\ Head(events).type = "Add"
  BY DEF LineInv, Ranges, Handling
<1>2. 1 \in AddsOf(events)
  BY <1>1, Enqueued DEF AddsOf
<1>3. IsFiniteSet(AddsOf(events)) /\ Cardinality(AddsOf(events)) \in Nat
  BY <1>1, AddsFinite
<1>4. Cardinality(AddsOf(events)) # 0
  BY <1>2, <1>3, FS_EmptySet
<1>5. /\ query_id_counter \in Nat \ {0} /\ requests \in 0..MaxQueries
      /\ requests + 1 = query_id_counter + Cardinality(AddsOf(events))
  BY DEF LineInv, Ranges, AdmitRanges, Counted
<1> QED
  BY <1>3, <1>4, <1>5, BoundAssumption DEF Queries

\* The query that a Prepare or Prepared names has its turn and has not begun.
LEMMA HeadIsCurrent ==
  ASSUME LineInv, events # <<>>, InFlight(Head(events))
  PROVE  /\ Head(events) \in EventSet /\ Head(events).query \in Queries
         /\ Head(events).query = Current /\ ~Begun(Head(events).query)
         /\ has_query_preparing /\ wait_done_prepare = None
         /\ \A i \in DOMAIN events : i = 1 \/ ~InFlight(events[i])
<1>1. /\ events \in Seq(EventSet) /\ has_query_preparing \in BOOLEAN
      /\ waiting \in Seq(Queries) /\ ready_queue \in Seq(Queries)
      /\ query_id_counter \in Nat \ {0}
  BY DEF LineInv, Ranges, AdmitRanges
<1>2. /\ Head(events) = events[1] /\ Head(events) \in EventSet
      /\ DOMAIN events = 1..Len(events) /\ Len(events) \in Nat \ {0}
  BY <1>1, Enqueued, OneEvent
<1>3. Head(events).query \in Queries
  BY <1>2, EventFields DEF InFlight
<1>4. has_query_preparing /\ wait_done_prepare = None /\ OneFlight(events)
  BY <1>2 DEF LineInv, Preparation, NoFlight
<1>5. \A i \in DOMAIN events : i = 1 \/ ~InFlight(events[i])
  BY <1>1, <1>4, FlightAtHead
<1>6. Head(events).query = Current
  BY <1>2 DEF LineInv, Line
<1>7. Current >= First
  <2>1. Len(waiting) \in Nat /\ Len(ready_queue) \in Nat
    BY <1>1, LenProperties
  <2> QED
    BY <1>1, <1>4, <2>1 DEF Current, First
<1>8. ~Begun(Head(events).query)
  <2>1. First \in Int /\ Current \in Int
    BY <1>1, LenProperties DEF Current, First
  <2>2. ~(Current < First)
    BY <1>7, <2>1
  <2> QED
    BY <1>3, <1>6, <2>2 DEF LineInv, Line
<1> QED
  BY <1>2, <1>3, <1>4, <1>5, <1>6, <1>8

LEMMA MinIs ==
  ASSUME NEW a \in Nat, NEW b \in Nat
  PROVE  MinOf(a, b) \in Nat /\ MinOf(a, b) <= a /\ MinOf(a, b) <= b
BY DEF MinOf

\* A batch for the queries in S.
BatchFor(b, S, status, position) ==
  /\ b \in BatchSet
  /\ b.decode = {q \in S : status[q] = "Decode"}
  /\ \A q \in S : status[q] = "Prefill" => \E t \in b.prefill : t.query = q
  /\ \A t \in b.prefill : /\ t \in FittingTasks /\ t.query \in S
                          /\ status[t.query] = "Prefill" /\ t.start = position[t.query]
  /\ \A t, u \in b.prefill : t.query = u.query => t = u

LEMMA BatchOfIs ==
  ASSUME NEW S \in SUBSET Queries, NEW status \in [Queries -> Statuses],
         NEW position \in [Queries -> Nat], \A q \in Queries : position[q] <= Prompt[q]
  PROVE  BatchFor(BatchOf(S, status, position), S, status, position)
<1>0. PICK b : b = BatchOf(S, status, position)
  OBVIOUS
<1> DEFINE filling == {q \in S : status[q] = "Prefill"}
           decoding == {q \in S : status[q] = "Decode"}
<1>1. PICK length : /\ length \in {Chunk, 2 * Chunk}
                    /\ b = [prefill |-> {[query |-> q, start |-> position[q],
                                          length |-> MinOf(length, Prompt[q] - position[q])] : q \in filling},
                            decode |-> decoding]
  BY <1>0 DEF BatchOf
<1>2. length \in Nat
  BY <1>1, ChunkAssumption
<1> DEFINE task(q) == [query |-> q, start |-> position[q],
                       length |-> MinOf(length, Prompt[q] - position[q])]
<1>3. ASSUME NEW q \in filling PROVE task(q) \in FittingTasks
  <2>1. /\ q \in Queries /\ position[q] \in Nat /\ Prompt[q] \in Nat /\ position[q] <= Prompt[q]
        /\ Prompt[q] - position[q] \in Nat
    BY LengthAssumption
  <2>2. PICK m : m = MinOf(length, Prompt[q] - position[q])
    OBVIOUS
  <2>3. m \in Nat /\ m <= Prompt[q] - position[q]
    BY <1>2, <2>1, <2>2, MinIs
  <2>4. position[q] + m <= Prompt[q]
    BY <2>1, <2>3
  <2> QED
    BY <2>1, <2>2, <2>3, <2>4 DEF FittingTasks, Tasks
<1>4. b.prefill = {task(q) : q \in filling} /\ b.decode = decoding /\ b = [prefill |-> b.prefill, decode |-> b.decode]
  BY <1>1
<1>5. \A q \in filling : task(q).query = q /\ task(q).start = position[q]
  OBVIOUS
<1>6. b.prefill \in SUBSET FittingTasks
  <2> HIDE DEF task, filling
  <2> QED
    BY <1>3, <1>4
<1>7. \A t \in b.prefill : \E q \in filling : t = task(q)
  BY <1>4
<1>8. \A t, u \in b.prefill : t.query = u.query => t = u
  <2> HIDE DEF task, filling
  <2> QED
    BY <1>5, <1>7
<1>9. \A t \in b.prefill : t.query \in filling /\ t.start = position[t.query]
  <2> HIDE DEF task, filling
  <2> QED
    BY <1>5, <1>7
<1>10. \A q \in filling : \E t \in b.prefill : t.query = q
  <2> HIDE DEF task, filling
  <2> QED
    BY <1>4, <1>5
<1>11. decoding \in SUBSET Queries
  OBVIOUS
<1>12. BatchFor(b, S, status, position)
  BY <1>4, <1>6, <1>8, <1>9, <1>10, <1>11 DEF BatchSet, BatchFor
<1> QED
  BY <1>0, <1>12

\* What strategy_schedule admits: the first n of those that are ready.
LEMMA AdmittedIs ==
  ASSUME Ranges
  PROVE  /\ Admitted \in Seq(Queries) /\ Len(Admitted) \in 0..Len(ready_queue)
         /\ \A i \in 1..Len(Admitted) : Admitted[i] = ready_queue[i]
         /\ Len(ready_queue) \in Nat
         /\ LET c == Cardinality(InPrefill(active_query)) IN
            Len(Admitted) > 0 => c + Len(Admitted) <= MaxPrefill
         /\ LET c == Cardinality(active_query) IN
            Len(Admitted) > 0 => c + Len(Admitted) <= MaxBatch
<1> DEFINE c == Cardinality(InPrefill(active_query))
           d == Cardinality(active_query)
           room(have, limit) == IF have < limit THEN limit - have ELSE 0
           n == MinOf(Len(ready_queue), MinOf(room(c, MaxPrefill), room(d, MaxBatch)))
<1>1. ready_queue \in Seq(Queries) /\ active_query \in SUBSET Queries
  BY DEF Ranges, AdmitRanges
<1>2. c \in Nat /\ d \in Nat
  BY <1>1, QueriesFinite DEF InPrefill
<1>3. MaxPrefill \in Nat /\ MaxBatch \in Nat /\ Len(ready_queue) \in Nat
  BY <1>1, BatchAssumption, LenProperties
<1>4. Admitted = SubSeq(ready_queue, 1, n)
  BY DEF Admitted
<1> HIDE DEF c, d
<1>5. /\ room(c, MaxPrefill) \in Nat /\ room(d, MaxBatch) \in Nat
      /\ room(c, MaxPrefill) > 0 => room(c, MaxPrefill) = MaxPrefill - c
      /\ room(d, MaxBatch) > 0 => room(d, MaxBatch) = MaxBatch - d
  BY <1>2, <1>3
<1> HIDE DEF room
<1>6. /\ n \in Nat /\ n <= Len(ready_queue) /\ n <= room(c, MaxPrefill) /\ n <= room(d, MaxBatch)
  <2>1. PICK m : m = MinOf(room(c, MaxPrefill), room(d, MaxBatch))
    OBVIOUS
  <2>2. m \in Nat /\ m <= room(c, MaxPrefill) /\ m <= room(d, MaxBatch)
    BY <1>5, <2>1, MinIs
  <2>3. n = MinOf(Len(ready_queue), m)
    BY <2>1
  <2>4. n \in Nat /\ n <= Len(ready_queue) /\ n <= m
    BY <1>3, <2>2, <2>3, MinIs
  <2> HIDE DEF n
  <2> QED
    BY <1>5, <2>2, <2>4
<1> HIDE DEF n
<1>7. \A i \in 1..n : ready_queue[i] \in Queries
  BY <1>1, <1>3, <1>6, ElementOfSeq
<1>8. /\ SubSeq(ready_queue, 1, n) \in Seq(Queries)
      /\ Len(SubSeq(ready_queue, 1, n)) = IF 1 <= n THEN n - 1 + 1 ELSE 0
      /\ \A i \in 1..(n - 1 + 1) : SubSeq(ready_queue, 1, n)[i] = ready_queue[1 + i - 1]
  BY <1>6, <1>7, SubSeqProperties
<1>9. Len(Admitted) = n
  BY <1>4, <1>6, <1>8
<1>10. \A i \in 1..n : Admitted[i] = ready_queue[i]
  BY <1>4, <1>6, <1>8
<1>11. n > 0 => c + n <= MaxPrefill /\ d + n <= MaxBatch
  BY <1>2, <1>3, <1>5, <1>6
<1> QED
  BY <1>3, <1>4, <1>6, <1>8, <1>9, <1>10, <1>11 DEF c, d

\* What stays in ready_queue.
LEMMA RestIs ==
  ASSUME Ranges, NEW r, r = SubSeq(ready_queue, Len(Admitted) + 1, Len(ready_queue))
  PROVE  /\ r \in Seq(Queries) /\ Len(r) = Len(ready_queue) - Len(Admitted)
         /\ \A i \in 1..Len(r) : r[i] = ready_queue[Len(Admitted) + i]
<1>1. /\ ready_queue \in Seq(Queries) /\ Len(ready_queue) \in Nat
      /\ Len(Admitted) \in 0..Len(ready_queue)
  BY AdmittedIs DEF Ranges, AdmitRanges
<1> DEFINE m == Len(Admitted) + 1
           n == Len(ready_queue)
<1>2. m \in Int /\ n \in Int /\ \A i \in m..n : ready_queue[i] \in Queries
  BY <1>1, ElementOfSeq
<1>3. /\ SubSeq(ready_queue, m, n) \in Seq(Queries)
      /\ Len(SubSeq(ready_queue, m, n)) = IF m <= n THEN n - m + 1 ELSE 0
      /\ \A i \in 1..(n - m + 1) : SubSeq(ready_queue, m, n)[i] = ready_queue[m + i - 1]
  BY <1>2, SubSeqProperties
<1> QED
  BY <1>1, <1>3

-----------------------------------------------------------------------------
(* The variables keep their ranges. *)

LEMMA HandlerEvents ==
  ASSUME Ranges, NEW type, Handling(type), NEW new \in Seq(EventSet), Enqueuing(new)
  PROVE  /\ events \in Seq(EventSet) /\ events # <<>> /\ Head(events).type = type
         /\ Head(events) \in EventSet
         /\ events' = Tail(events) \o new /\ events' \in Seq(EventSet)
         /\ loop' \in {"dequeue", "check"}
<1>1. events \in Seq(EventSet) /\ events # <<>> /\ Head(events).type = type
  BY DEF Ranges, Handling
<1> QED
  BY <1>1, Enqueued DEF Enqueuing

Entering == {Admitted[i] : i \in DOMAIN Admitted}

LEMMA EnteringIs ==
  ASSUME Ranges
  PROVE  /\ Entering = {ready_queue[i] : i \in 1..Len(Admitted)}
         /\ Entering \in SUBSET Queries
<1>1. /\ Admitted \in Seq(Queries) /\ Len(Admitted) \in 0..Len(ready_queue)
      /\ \A i \in 1..Len(Admitted) : Admitted[i] = ready_queue[i]
  BY AdmittedIs
<1>2. DOMAIN Admitted = 1..Len(Admitted) /\ \A i \in 1..Len(Admitted) : Admitted[i] \in Queries
  BY <1>1, LenProperties, ElementOfSeq
<1> QED
  BY <1>1, <1>2 DEF Entering

LEMMA ScheduleEffect ==
  ASSUME Ranges, HandleSchedule
  PROVE  /\ events # <<>> /\ Head(events).type = "Schedule" /\ events' = Tail(events) \o <<>>
         /\ events' \in Seq(EventSet)
         /\ ready_queue' = SubSeq(ready_queue, Len(Admitted) + 1, Len(ready_queue))
         /\ ready_queue' \in Seq(Queries)
         /\ active_query' = active_query \cup Entering /\ active_query' \in SUBSET Queries
         /\ QueryRanges' /\ kvc2_handle' = kvc2_handle /\ block_index' = block_index
         /\ \A q \in Queries : plan_status'[q] = IF q \in Entering THEN "Prefill" ELSE plan_status[q]
         /\ \A q \in Queries : plan_position'[q] = IF q \in Entering THEN 0 ELSE plan_position[q]
         /\ next_batch' = [batch |-> next_batch'.batch, fresh |-> TRUE]
         /\ next_batch'.batch = BatchOf(active_query', plan_status', plan_position')
         /\ next_batch'.batch \in BatchSet
<1>0. events \in Seq(EventSet) /\ QueryRanges /\ active_query \in SUBSET Queries
  BY DEF Ranges
<1>1. events # <<>> /\ Head(events).type = "Schedule" /\ events' = Tail(events)
  BY DEF HandleSchedule, Handling
<1>2. Tail(events) \in Seq(EventSet)
  BY <1>0, <1>1, HeadTailProperties
<1>3. events' = Tail(events) \o <<>>
  BY <1>1, <1>2, ConcatEmptySeq
<1>4. /\ ready_queue' = SubSeq(ready_queue, Len(Admitted) + 1, Len(ready_queue))
      /\ active_query' = active_query \cup Entering
      /\ plan_status' = [q \in Queries |-> IF q \in Entering THEN "Prefill" ELSE plan_status[q]]
      /\ plan_position' = [q \in Queries |-> IF q \in Entering THEN 0 ELSE plan_position[q]]
      /\ next_batch' = [batch |-> BatchOf(active_query', plan_status', plan_position'), fresh |-> TRUE]
      /\ kvc2_handle' = kvc2_handle /\ block_index' = block_index
  BY DEF HandleSchedule, Entering
<1>5. ready_queue' \in Seq(Queries)
  BY <1>4, RestIs
<1>6. Entering \in SUBSET Queries
  BY EnteringIs
<1>7. plan_status' \in [Queries -> Statuses]
  BY <1>0, <1>4 DEF QueryRanges, Statuses
<1>8. plan_position' \in [Queries -> Nat] /\ \A q \in Queries : plan_position'[q] <= Prompt[q]
  BY <1>0, <1>4, LengthAssumption DEF QueryRanges
<1>9. next_batch'.batch = BatchOf(active_query', plan_status', plan_position')
  BY <1>4
<1>10. next_batch'.batch \in BatchSet
  <2>1. active_query' \in SUBSET Queries
    BY <1>0, <1>4, <1>6
  <2> QED
    <3>1. BatchFor(next_batch'.batch, active_query', plan_status', plan_position')
      BY <1>7, <1>8, <1>9, <2>1, BatchOfIs
    <3> QED
      BY <3>1 DEF BatchFor
<1>11. QueryRanges'
  BY <1>0, <1>4, <1>7, <1>8 DEF QueryRanges
<1> QED
  BY <1>0, <1>1, <1>2, <1>3, <1>4, <1>5, <1>6, <1>9, <1>10, <1>11

\* The task of a query of the batch is one of the batch's.
LEMMA TaskOf ==
  ASSUME NEW b \in BatchSet, NEW q, \E t \in b.prefill : t.query = q
  PROVE  (CHOOSE t \in b.prefill : t.query = q) \in {t \in b.prefill : t.query = q}
OBVIOUS

LEMMA TakenEffect ==
  ASSUME Ranges, HandleTaken
  PROVE  /\ events # <<>> /\ Head(events).type = "Taken" /\ Head(events) \in EventSet
         /\ Head(events).batch \in BatchSet
         /\ events' = Tail(events) \o <<>>
         /\ QueryRanges' /\ kvc2_handle' = kvc2_handle /\ block_index' = block_index
         /\ \A q \in Queries :
              \/ plan_status'[q] = plan_status[q] /\ plan_position'[q] = plan_position[q]
              \/ /\ plan_status'[q] \in {plan_status[q], "Decode"}
                 /\ \E t \in Head(events).batch.prefill :
                      t.query = q /\ plan_position'[q] = t.start + t.length
         /\ active_query' =
              active_query \cup {q \in QueryIds(Head(events).batch) : plan_status'[q] # "Done"}
         /\ active_query' \in SUBSET Queries
<1> DEFINE b == Head(events).batch
           task(q) == CHOOSE t \in b.prefill : t.query = q
           planned == {t.query : t \in {t \in b.prefill : t.length # 0}}
           position(q) == task(q).start + task(q).length
<1>0. QueryRanges /\ active_query \in SUBSET Queries
  BY DEF Ranges
<1>1. /\ events # <<>> /\ Head(events).type = "Taken" /\ Head(events) \in EventSet
      /\ events' = Tail(events) \o <<>>
  BY OneEvent, HandlerEvents DEF HandleTaken
<1>2. b \in BatchSet
  BY <1>1, EventFields
<1>3. /\ plan_position' = [q \in Queries |-> IF q \in planned THEN position(q) ELSE plan_position[q]]
      /\ plan_status' = [q \in Queries |-> IF q \in planned /\ position(q) = Prompt[q]
                                           THEN "Decode" ELSE plan_status[q]]
      /\ active_query' = active_query \cup {q \in QueryIds(b) : plan_status'[q] # "Done"}
      /\ kvc2_handle' = kvc2_handle /\ block_index' = block_index
  BY DEF HandleTaken
<1>4. ASSUME NEW q \in planned
      PROVE  /\ q \in Queries /\ task(q) \in b.prefill /\ task(q).query = q
             /\ position(q) \in Nat /\ position(q) <= Prompt[q]
  <2>1. \E t \in b.prefill : t.query = q
    OBVIOUS
  <2>2. task(q) \in {t \in b.prefill : t.query = q}
    BY <1>2, <2>1, TaskOf
  <2> HIDE DEF task, b
  <2>3. task(q) \in FittingTasks /\ task(q) \in b.prefill /\ task(q).query = q
    BY <1>2, <2>2 DEF BatchSet
  <2>4. /\ task(q).query \in Queries /\ task(q).start \in Nat /\ task(q).length \in Nat
        /\ task(q).start + task(q).length <= Prompt[task(q).query]
    BY <2>3 DEF FittingTasks, Tasks
  <2> QED
    BY <2>3, <2>4
<1>5. QueryIds(b) \subseteq Queries
  BY <1>2 DEF QueryIds, BatchSet, FittingTasks, Tasks
<1> HIDE DEF b, task, planned, position
<1>6. plan_status' \in [Queries -> Statuses] /\ plan_position' \in [Queries -> Nat]
      /\ \A q \in Queries : plan_position'[q] <= Prompt[q]
  BY <1>0, <1>3, <1>4 DEF QueryRanges, Statuses
<1>7. ASSUME NEW q \in Queries
      PROVE  \/ plan_status'[q] = plan_status[q] /\ plan_position'[q] = plan_position[q]
             \/ /\ plan_status'[q] \in {plan_status[q], "Decode"}
                /\ \E t \in b.prefill : t.query = q /\ plan_position'[q] = t.start + t.length
  BY <1>3, <1>4 DEF position
<1>8. QueryRanges'
  BY <1>0, <1>3, <1>6 DEF QueryRanges
<1> QED
  BY <1>0, <1>1, <1>2, <1>3, <1>5, <1>7, <1>8 DEF b

\* Where the engine stands in a query after the batch that ran.
LEMMA FinishEffect ==
  ASSUME Ranges, EngineFinish
  PROVE  /\ \A q \in QueryIds(batch) : q \in Queries /\ Advanced(q) \in Nat
         /\ updates' \in SUBSET UpdateSet /\ active_position' \in [Queries -> Nat]
         /\ \A q \in Queries : active_position'[q] =
              IF q \in QueryIds(batch) THEN Advanced(q) ELSE active_position[q]
         /\ \A u \in updates' : /\ u.query \in QueryIds(batch)
                                /\ u.active_position = Advanced(u.query)
                                /\ u.decode_done \in MayStop(u.query)
<1>0. batch \in BatchSet /\ active_position \in [Queries -> Nat]
  BY DEF Ranges, EngineRanges
<1>1. ASSUME NEW q \in QueryIds(batch) PROVE q \in Queries /\ Advanced(q) \in Nat
  <2>1. q \in Queries
    BY <1>0 DEF QueryIds, BatchSet, FittingTasks, Tasks
  <2>2. CASE q \in batch.decode
    BY <1>0, <2>1, <2>2 DEF Advanced
  <2>3. CASE q \notin batch.decode
    <3>1. \E t \in batch.prefill : t.query = q
      BY <2>3 DEF QueryIds
    <3>2. (CHOOSE t \in batch.prefill : t.query = q) \in batch.prefill
      BY <1>0, <3>1, TaskOf
    <3>3. (CHOOSE t \in batch.prefill : t.query = q) \in Tasks
      BY <1>0, <3>2 DEF BatchSet, FittingTasks
    <3>4. (CHOOSE t \in batch.prefill : t.query = q).length \in Nat
      BY <3>3 DEF Tasks
    <3> QED
      BY <1>0, <2>1, <2>3, <3>4 DEF Advanced
  <2> QED
    BY <2>1, <2>2, <2>3
<1>2. PICK stop \in [QueryIds(batch) -> BOOLEAN] :
        /\ \A q \in QueryIds(batch) : stop[q] \in MayStop(q)
        /\ updates' = {[query |-> q, active_position |-> Advanced(q), decode_done |-> stop[q]]
                         : q \in QueryIds(batch)}
  BY DEF EngineFinish
<1>3. active_position' = [q \in Queries |-> IF q \in QueryIds(batch) THEN Advanced(q)
                                            ELSE active_position[q]]
  BY DEF EngineFinish
<1> HIDE DEF EngineFinish
<1>4. updates' \in SUBSET UpdateSet
  BY <1>1, <1>2 DEF UpdateSet
<1>5. \A u \in updates' : /\ u.query \in QueryIds(batch)
                          /\ u.active_position = Advanced(u.query)
                          /\ u.decode_done \in MayStop(u.query)
  BY <1>2
<1> QED
  BY <1>0, <1>1, <1>3, <1>4, <1>5

\* A step that only stops the loop, or nothing at all.
Still == /\ UNCHANGED <<events, query_id_counter, queryVars, admitVars, active_query, next_batch,
                        requests, engineVars>>
         /\ loop' \in {loop, "crashed"}

LEMMA StillSteps == HandleUpdateCrash \/ Gone \/ UNCHANGED vars => Still
BY Zenon DEF HandleUpdateCrash, Gone, vars, Still


LEMMA RangesStep == LineInv /\ [Next]_vars => Ranges'
<1> SUFFICES ASSUME LineInv, [Next]_vars PROVE Ranges'
  OBVIOUS
<1>0. /\ events \in Seq(EventSet) /\ loop \in {"dequeue", "check", "crashed"}
      /\ QueryRanges /\ AdmitRanges /\ EngineRanges
      /\ active_query \in SUBSET Queries
      /\ next_batch \in [batch : BatchSet, fresh : BOOLEAN]
      /\ Ranges
  BY DEF LineInv, Ranges
<1>1. CASE AddQuery
  <2>1. events' \in Seq(EventSet)
    BY <1>0, <1>1, EventsMade, Appended DEF AddQuery
  <2>2. requests' \in 0..MaxQueries
    BY <1>0, <1>1, BoundAssumption DEF AddQuery, AdmitRanges
  <2> QED
    BY <1>0, <1>1, <2>1, <2>2 DEF AddQuery, Ranges, QueryRanges, AdmitRanges, EngineRanges,
       queryVars, admitVars, engineVars
<1>2. CASE HandleAdd
  <2>1. query_id_counter \in Queries
    BY <1>2, AddHasId DEF HandleAdd
  <2>a. waiting \in Seq(Queries)
    BY <1>0 DEF AdmitRanges
  <2>2. waiting \in Seq(Queries) /\ Append(waiting, query_id_counter) \in Seq(Queries)
        /\ Append(waiting, query_id_counter) # <<>>
    BY <2>1, <2>a, AppendProperties
  <2>3. waiting' \in Seq(Queries)
    BY <1>2, <2>2, HeadTailProperties DEF HandleAdd
  <2>4. events' \in Seq(EventSet) /\ loop' \in {"dequeue", "check"}
    <3>1. CASE has_query_preparing
      BY <1>0, <1>2, <3>1, OneEvent, HandlerEvents DEF HandleAdd
    <3>2. CASE ~has_query_preparing
      <4>1. Head(Append(waiting, query_id_counter)) \in Queries
        BY <2>2, HeadTailProperties
      <4>2. <<Prepare(Head(Append(waiting, query_id_counter)), TRUE)>> \in Seq(EventSet)
        BY <4>1, EventsMade, OneEvent
      <4> QED
        BY <1>0, <1>2, <3>2, <4>2, HandlerEvents DEF HandleAdd
    <3> QED
      BY <3>1, <3>2
  <2>5. query_id_counter' \in Nat \ {0}
    BY <1>0, <1>2 DEF HandleAdd, AdmitRanges
  <2> QED
    BY <1>0, <1>2, <2>3, <2>4, <2>5 DEF HandleAdd, Ranges, QueryRanges, AdmitRanges, EngineRanges,
       queryVars, engineVars
<1>3. CASE HandlePrepareFirst
  <2> DEFINE q == Head(events).query
  <2>1. q \in Queries
    BY <1>3, HeadIsCurrent DEF HandlePrepareFirst, Handling, InFlight
  <2>2. events' \in Seq(EventSet) /\ loop' \in {"dequeue", "check"}
    <3>1. <<Prepared(q)>> \in Seq(EventSet) /\ <<Prepare(q, FALSE)>> \in Seq(EventSet)
      BY <2>1, EventsMade, OneEvent
    <3> QED
      BY <1>0, <1>3, <3>1, HandlerEvents DEF HandlePrepareFirst
  <2>3. /\ plan_status' \in [Queries -> Statuses]
        /\ kvc2_handle' \in [Queries -> BOOLEAN] /\ block_index' \in [Queries -> SUBSET Pages]
    <3>1. LowestFree(Need[q]) \in SUBSET Pages
      BY DEF LowestFree, FreePages
    <3>2. /\ plan_status' = [plan_status EXCEPT ![q] = "Preparing"]
          /\ \/ /\ kvc2_handle' = [kvc2_handle EXCEPT ![q] = TRUE]
                /\ block_index' = [block_index EXCEPT ![q] = LowestFree(Need[q])]
             \/ kvc2_handle' = kvc2_handle /\ block_index' = block_index
      BY <1>3 DEF HandlePrepareFirst
    <3>3. plan_status' \in [Queries -> Statuses]
      BY <1>0, <3>2 DEF QueryRanges, Statuses
    <3>4. kvc2_handle' \in [Queries -> BOOLEAN] /\ block_index' \in [Queries -> SUBSET Pages]
      BY <1>0, <3>1, <3>2 DEF QueryRanges
    <3> QED
      BY <3>3, <3>4
  <2> QED
    BY <1>0, <1>3, <2>2, <2>3 DEF HandlePrepareFirst, Ranges, QueryRanges, AdmitRanges,
       EngineRanges, admitVars, engineVars
<1>4. CASE HandlePrepareAgain
  <2>1. Head(events).query \in Queries
    BY <1>4, HeadIsCurrent DEF HandlePrepareAgain, Handling, InFlight
  <2>2. events' \in Seq(EventSet) /\ loop' \in {"dequeue", "check"}
    BY <1>0, <1>4, OneEvent, HandlerEvents DEF HandlePrepareAgain
  <2> QED
    BY <1>0, <1>4, <2>1, <2>2 DEF HandlePrepareAgain, Ranges, QueryRanges, AdmitRanges,
       EngineRanges, queryVars, engineVars
<1>5. CASE HandlePrepared
  <2>1. Head(events).query \in Queries
    BY <1>5, HeadIsCurrent DEF HandlePrepared, Handling, InFlight
  <2>2. ready_queue' \in Seq(Queries)
    BY <1>0, <1>5, <2>1, AppendProperties DEF HandlePrepared, AdmitRanges
  <2>3. waiting' \in Seq(Queries) /\ events' \in Seq(EventSet) /\ loop' \in {"dequeue", "check"}
    <3>1. CASE waiting = <<>>
      BY <1>0, <1>5, <3>1, OneEvent, HandlerEvents DEF HandlePrepared, AdmitRanges
    <3>2. CASE waiting # <<>>
      <4>1. Head(waiting) \in Queries /\ Tail(waiting) \in Seq(Queries)
        BY <1>0, <3>2, HeadTailProperties DEF AdmitRanges
      <4>2. <<Prepare(Head(waiting), TRUE)>> \in Seq(EventSet)
        BY <4>1, EventsMade, OneEvent
      <4> QED
        BY <1>0, <1>5, <3>2, <4>1, <4>2, HandlerEvents DEF HandlePrepared
    <3> QED
      BY <3>1, <3>2
  <2>4. has_query_preparing' \in BOOLEAN
    BY <1>0, <1>5 DEF HandlePrepared, AdmitRanges
  <2> QED
    BY <1>0, <1>5, <2>2, <2>3, <2>4 DEF HandlePrepared, Ranges, QueryRanges, AdmitRanges,
       EngineRanges, queryVars, engineVars
<1>6. CASE HandleUpdate
  <2> DEFINE done == FinishedBy(Head(events).updates)
             new == [i \in 1..Cardinality(done) |-> QueryDone]
  <2>1. Head(events) \in EventSet /\ Head(events).type = "Update" /\ events # <<>>
    BY <1>0, <1>6, Enqueued, OneEvent DEF HandleUpdate, Handling
  <2>2. done \in SUBSET Queries
    BY <2>1, EventFields DEF FinishedBy, UpdateSet
  <2>3. new \in Seq(EventSet)
    <3>1. Cardinality(done) \in Nat
      BY <2>2, QueriesFinite
    <3> HIDE DEF done
    <3> QED
      BY <3>1, EventsMade
  <2>4. events' \in Seq(EventSet) /\ loop' \in {"dequeue", "check"}
    BY <1>0, <1>6, <2>3, HandlerEvents DEF HandleUpdate
  <2> HIDE DEF new
  <2>5. /\ plan_status' = [q \in Queries |-> IF q \in done THEN "Done" ELSE plan_status[q]]
        /\ kvc2_handle' = [q \in Queries |-> kvc2_handle[q] /\ q \notin done]
        /\ active_query' = {q \in active_query : plan_status'[q] # "Done"}
    BY <1>6 DEF HandleUpdate
  <2> HIDE DEF done
  <2>6. plan_status' \in [Queries -> Statuses] /\ kvc2_handle' \in [Queries -> BOOLEAN]
    BY <1>0, <2>5 DEF QueryRanges, Statuses
  <2> QED
    BY <1>0, <1>6, <2>4, <2>5, <2>6 DEF HandleUpdate, Ranges, QueryRanges, AdmitRanges,
       EngineRanges, admitVars, engineVars
<1>7. CASE HandleQueryStatus
  <2>1. CASE wait_done_prepare = None
    <3>1. events' \in Seq(EventSet) /\ loop' \in {"dequeue", "check"}
      BY <1>0, <1>7, <2>1, OneEvent, HandlerEvents DEF HandleQueryStatus
    <3> QED
      BY <1>0, <1>7, <3>1 DEF HandleQueryStatus, Ranges, QueryRanges, AdmitRanges, EngineRanges,
         queryVars, engineVars
  <2>2. CASE wait_done_prepare # None
    <3>1. wait_done_prepare \in Queries
      BY <1>0, <2>2 DEF AdmitRanges
    <3>2. <<Prepare(wait_done_prepare, TRUE)>> \in Seq(EventSet)
      BY <3>1, EventsMade, OneEvent
    <3>3. events' \in Seq(EventSet) /\ loop' \in {"dequeue", "check"}
      BY <1>0, <1>7, <2>2, <3>2, HandlerEvents DEF HandleQueryStatus
    <3> QED
      BY <1>0, <1>7, <3>3 DEF HandleQueryStatus, Ranges, QueryRanges, AdmitRanges, EngineRanges,
         queryVars, engineVars
  <2> QED
    BY <2>1, <2>2
<1>8. CASE HandleTaken
  <2>1. events' \in Seq(EventSet) /\ loop' \in {"dequeue", "check"}
    BY <1>0, <1>8, OneEvent, HandlerEvents DEF HandleTaken
  <2>2. QueryRanges' /\ active_query' \in SUBSET Queries
    BY <1>0, <1>8, TakenEffect
  <2> QED
    BY <1>0, <1>8, <2>1, <2>2 DEF HandleTaken, Ranges, AdmitRanges, EngineRanges, admitVars, engineVars
<1>9. CASE HandleSchedule
  <2>1. /\ events' \in Seq(EventSet) /\ QueryRanges' /\ active_query' \in SUBSET Queries
        /\ ready_queue' \in Seq(Queries)
        /\ next_batch' = [batch |-> next_batch'.batch, fresh |-> TRUE]
        /\ next_batch'.batch \in BatchSet
    BY <1>0, <1>9, ScheduleEffect
  <2>2. next_batch' \in [batch : BatchSet, fresh : BOOLEAN]
    <3>1. PICK b : b = next_batch'.batch
      OBVIOUS
    <3>2. next_batch' = [batch |-> b, fresh |-> TRUE] /\ b \in BatchSet
      BY <2>1, <3>1
    <3> QED
      BY <3>2
  <2> QED
    BY <1>0, <1>9, <2>1, <2>2 DEF HandleSchedule, Ranges, AdmitRanges, EngineRanges, engineVars
<1>10. CASE LoopCheck
  <2>1. events' \in Seq(EventSet) /\ loop' = "dequeue"
    BY <1>0, <1>10, EventsMade, OneEvent DEF LoopCheck
  <2> QED
    BY <1>0, <1>10, <2>1 DEF LoopCheck, Ranges, QueryRanges, AdmitRanges, EngineRanges,
       queryVars, admitVars, engineVars
<1>11. CASE EnginePut
  <2>1. Update(updates) \in EventSet
    BY <1>0, EventsMade DEF EngineRanges
  <2>2. events' \in Seq(EventSet)
    BY <1>0, <1>11, <2>1, Appended DEF EnginePut
  <2>3. ended' \in SUBSET Queries
    BY <1>0, <1>11 DEF EnginePut, EngineRanges, UpdateSet
  <2> QED
    BY <1>0, <1>11, <2>2, <2>3 DEF EnginePut, Ranges, QueryRanges, AdmitRanges, EngineRanges,
       queryVars, admitVars
<1>12. CASE EngineTake
  <2>1. repeated' \in SUBSET Queries
    BY <1>0, <1>12 DEF EngineTake, EngineRanges, BatchSet, FittingTasks, Tasks
  <2> QED
    BY <1>0, <1>12, <2>1 DEF EngineTake, Ranges, QueryRanges, AdmitRanges, EngineRanges,
       queryVars, admitVars
<1>13. CASE EngineReport
  <2>1. Taken(upcoming) \in EventSet
    BY <1>0, EventsMade DEF EngineRanges
  <2>2. events' \in Seq(EventSet)
    BY <1>0, <1>13, <2>1, Appended DEF EngineReport
  <2> QED
    BY <1>0, <1>13, <2>2 DEF EngineReport, Ranges, QueryRanges, AdmitRanges, EngineRanges,
       queryVars, admitVars
<1>14. CASE EngineFinish
  <2>1. updates' \in SUBSET UpdateSet /\ active_position' \in [Queries -> Nat]
    BY <1>0, <1>14, FinishEffect
  <2>2. NoBatch \in BatchSet
    BY DEF NoBatch, BatchSet
  <2>3. /\ engine' = "put" /\ batch' = upcoming /\ upcoming' = NoBatch
        /\ UNCHANGED <<events, loop, query_id_counter, queryVars, admitVars, active_query,
                       next_batch, requests, ended, repeated>>
    BY <1>14 DEF EngineFinish
  <2> QED
    BY <1>0, <2>1, <2>2, <2>3 DEF Ranges, QueryRanges, AdmitRanges, EngineRanges, queryVars, admitVars
<1>15. CASE Still
  BY <1>0, <1>15 DEF Still, Ranges, QueryRanges, AdmitRanges, EngineRanges, queryVars, admitVars, engineVars
<1> QED
  BY <1>1, <1>2, <1>3, <1>4, <1>5, <1>6, <1>7, <1>8, <1>9, <1>10, <1>11, <1>12, <1>13, <1>14, <1>15,
     StillSteps DEF Next, EventLoop, Engine

-----------------------------------------------------------------------------
(* What a step does to the queue of events *)

LEMMA EventsStep ==
  ASSUME LineInv, [Next]_vars
  PROVE  \/ events' = events /\ (LoopCheck \/ EngineTake \/ EngineFinish \/ Still)
         \/ AddQuery /\ events' = Append(events, Add)
         \/ EnginePut /\ events' = Append(events, Update(updates))
         \/ EngineReport /\ events' = Append(events, Taken(upcoming))
         \/ LoopCheck /\ events' = Append(events, Schedule)
         \/ /\ events # <<>> /\ loop = "dequeue" /\ EventLoop /\ ~HandleUpdateCrash
            /\ \E new \in Seq(EventSet) :
                 /\ events' = Tail(events) \o new
                 /\ \A i \in DOMAIN new : new[i].type \in {"Prepare", "Prepared", "QueryStatus"}
                 /\ \A i \in DOMAIN new : new[i].type = "Prepared" => kvc2_handle'[new[i].query]
<1> DEFINE Handled ==
      /\ events # <<>>
      /\ \E new \in Seq(EventSet) :
           /\ events' = Tail(events) \o new
           /\ \A i \in DOMAIN new : new[i].type \in {"Prepare", "Prepared", "QueryStatus"}
           /\ \A i \in DOMAIN new : new[i].type = "Prepared" => kvc2_handle'[new[i].query]
<1>0. Ranges /\ AdmitRanges
  BY DEF LineInv, Ranges
<1>a. /\ <<>> \in Seq(EventSet) /\ DOMAIN <<>> = {}
      /\ \A q \in Queries, first \in BOOLEAN :
           <<Prepare(q, first)>> \in Seq(EventSet) /\ DOMAIN <<Prepare(q, first)>> = {1}
      /\ \A q \in Queries : <<Prepared(q)>> \in Seq(EventSet) /\ DOMAIN <<Prepared(q)>> = {1}
  BY OneEvent, EventsMade
<1>b. /\ \A q \in Queries, first \in BOOLEAN : <<Prepare(q, first)>>[1].type = "Prepare"
      /\ \A q \in Queries : <<Prepared(q)>>[1].query = q /\ <<Prepared(q)>>[1].type = "Prepared"
  BY DEF Prepare, Prepared
<1>c. events # <<>> /\ events' = Tail(events) \o <<>> => Handled
  BY <1>a
<1>d. ASSUME NEW q \in Queries, NEW first \in BOOLEAN, events # <<>>,
             events' = Tail(events) \o <<Prepare(q, first)>>
      PROVE  Handled
  <2>1. PICK new : new = <<Prepare(q, first)>>
    OBVIOUS
  <2>2. new \in Seq(EventSet) /\ DOMAIN new = {1} /\ new[1].type = "Prepare"
    BY <1>a, <1>b, <2>1
  <2> QED
    BY <1>d, <2>1, <2>2
<1>e. ASSUME NEW q \in Queries, events # <<>>, events' = Tail(events) \o <<Prepared(q)>>,
             kvc2_handle'[q]
      PROVE  Handled
  <2>1. PICK new : new = <<Prepared(q)>>
    OBVIOUS
  <2>2. new \in Seq(EventSet) /\ DOMAIN new = {1} /\ new[1].type = "Prepared" /\ new[1].query = q
    BY <1>a, <1>b, <2>1
  <2> QED
    BY <1>e, <2>1, <2>2
<1>1. ASSUME HandleAdd PROVE Handled
  <2>1. events # <<>>
    BY <1>1 DEF HandleAdd, Handling
  <2>2. CASE has_query_preparing
    BY <1>1, <1>c, <2>1, <2>2 DEF HandleAdd, Enqueuing
  <2>3. CASE ~has_query_preparing
    <3>1. query_id_counter \in Queries
      BY <1>1, AddHasId DEF HandleAdd
    <3>2. Append(waiting, query_id_counter) \in Seq(Queries) /\ Append(waiting, query_id_counter) # <<>>
      BY <1>0, <3>1, AppendProperties DEF AdmitRanges
    <3>3. Head(Append(waiting, query_id_counter)) \in Queries
      BY <3>2, HeadTailProperties
    <3>4. events' = Tail(events) \o <<Prepare(Head(Append(waiting, query_id_counter)), TRUE)>>
      BY <1>1, <2>3 DEF HandleAdd, Enqueuing
    <3> HIDE DEF Handled
    <3> QED
      BY <1>d, <2>1, <3>3, <3>4
  <2> QED
    BY <2>2, <2>3
<1>2. ASSUME HandlePrepareFirst PROVE Handled
  <2>1. events # <<>> /\ Head(events).query \in Queries
    BY <1>2, HeadIsCurrent DEF HandlePrepareFirst, Handling, InFlight
  <2>2. \/ events' = Tail(events) \o <<Prepared(Head(events).query)>>
           /\ kvc2_handle' = [kvc2_handle EXCEPT ![Head(events).query] = TRUE]
        \/ events' = Tail(events) \o <<Prepare(Head(events).query, FALSE)>>
    BY <1>2 DEF HandlePrepareFirst, Enqueuing
  <2>3. kvc2_handle \in [Queries -> BOOLEAN]
    BY <1>0 DEF Ranges, QueryRanges
  <2> HIDE DEF Handled
  <2> QED
    BY <1>d, <1>e, <2>1, <2>2, <2>3
<1>3. ASSUME HandlePrepareAgain \/ HandleTaken PROVE Handled
  BY <1>3, <1>c DEF HandlePrepareAgain, HandleTaken, Handling, Enqueuing
<1>4. ASSUME HandlePrepared PROVE Handled
  <2>1. events # <<>>
    BY <1>4 DEF HandlePrepared, Handling
  <2>2. CASE waiting = <<>>
    BY <1>4, <1>c, <2>1, <2>2 DEF HandlePrepared, Enqueuing
  <2>3. CASE waiting # <<>>
    <3>1. Head(waiting) \in Queries
      BY <1>0, <2>3, HeadTailProperties DEF AdmitRanges
    <3>2. events' = Tail(events) \o <<Prepare(Head(waiting), TRUE)>>
      BY <1>4, <2>3 DEF HandlePrepared, Enqueuing
    <3> HIDE DEF Handled
    <3> QED
      BY <1>d, <2>1, <3>1, <3>2
  <2> QED
    BY <2>2, <2>3
<1>5. ASSUME HandleQueryStatus PROVE Handled
  <2>1. events # <<>>
    BY <1>5 DEF HandleQueryStatus, Handling
  <2>2. CASE wait_done_prepare = None
    BY <1>5, <1>c, <2>1, <2>2 DEF HandleQueryStatus, Enqueuing
  <2>3. CASE wait_done_prepare # None
    <3>1. wait_done_prepare \in Queries
      BY <1>0, <2>3 DEF AdmitRanges
    <3>2. events' = Tail(events) \o <<Prepare(wait_done_prepare, TRUE)>>
      BY <1>5, <2>3 DEF HandleQueryStatus, Enqueuing
    <3> HIDE DEF Handled
    <3> QED
      BY <1>d, <2>1, <3>1, <3>2
  <2> QED
    BY <2>2, <2>3
<1>6. ASSUME HandleUpdate PROVE Handled
  <2> DEFINE done == FinishedBy(Head(events).updates)
             new == [i \in 1..Cardinality(done) |-> QueryDone]
  <2>1. Head(events) \in EventSet /\ Head(events).type = "Update" /\ events # <<>>
    BY <1>0, <1>6, OneEvent, Enqueued DEF HandleUpdate, Handling, Ranges
  <2>2. done \in SUBSET Queries
    BY <2>1, EventFields DEF FinishedBy, UpdateSet
  <2>3. Cardinality(done) \in Nat
    BY <2>2, QueriesFinite
  <2>4. events' = Tail(events) \o new
    BY <1>6 DEF HandleUpdate, Enqueuing
  <2> HIDE DEF done
  <2>5. new \in Seq(EventSet) /\ DOMAIN new = 1..Cardinality(done)
    BY <2>3, EventsMade
  <2>6. \A i \in DOMAIN new : new[i].type = "QueryStatus"
    BY DEF QueryDone
  <2> QED
    BY <2>1, <2>4, <2>5, <2>6
<1>7. ASSUME HandleSchedule PROVE Handled
  BY <1>0, <1>7, <1>c, ScheduleEffect
<1>8. ASSUME LoopCheck PROVE events' = events \/ events' = Append(events, Schedule)
  BY <1>8 DEF LoopCheck
<1> HIDE DEF Handled
<1>9. \/ ~EventLoop
      \/ Still
      \/ Handled /\ loop = "dequeue" /\ ~HandleUpdateCrash
      \/ LoopCheck /\ (events' = events \/ events' = Append(events, Schedule))
  <2>1. ASSUME \/ HandleAdd \/ HandlePrepareFirst \/ HandlePrepareAgain \/ HandlePrepared
               \/ HandleUpdate \/ HandleQueryStatus \/ HandleTaken \/ HandleSchedule
        PROVE  loop = "dequeue"
    BY <2>1 DEF HandleAdd, HandlePrepareFirst, HandlePrepareAgain, HandlePrepared,
       HandleUpdate, HandleQueryStatus, HandleTaken, HandleSchedule, Handling
  <2> QED
    BY <1>1, <1>2, <1>3, <1>4, <1>5, <1>6, <1>7, <1>8, <2>1, StillSteps DEF EventLoop
<1>10. AddQuery => events' = Append(events, Add)
  BY DEF AddQuery
<1>11. Engine => \/ EnginePut /\ events' = Append(events, Update(updates))
                 \/ EngineReport /\ events' = Append(events, Taken(upcoming))
                 \/ events' = events /\ (EngineTake \/ EngineFinish)
  BY DEF Engine, EnginePut, EngineReport, EngineTake, EngineFinish
<1>12. Still => events' = events
  BY DEF Still
<1> QED
  BY <1>9, <1>10, <1>11, <1>12, StillSteps DEF Next, Handled

\* The event at the head of the queue decides which handler runs.
LEMMA HandlerOfHead ==
  ASSUME EventLoop, loop = "dequeue"
  PROVE  /\ Head(events).type = "Add" => HandleAdd
         /\ HandleAdd => Head(events).type = "Add"
         /\ ~HandleAdd => UNCHANGED <<requests, query_id_counter>>
         /\ UNCHANGED <<requests, engineVars>>
<1>1. ~LoopCheck
  BY DEF LoopCheck
<1>2. HandleAdd => Head(events).type = "Add" /\ UNCHANGED <<requests, engineVars>>
  <2>1. HandleAdd => Handling("Add")
    BY DEF HandleAdd
  <2>2. HandleAdd => requests' = requests
    BY DEF HandleAdd
  <2>3. HandleAdd => engineVars' = engineVars
    BY DEF HandleAdd, engineVars
  <2> QED
    BY <2>1, <2>2, <2>3 DEF Handling
<1>3. EventLoop /\ ~HandleAdd => Head(events).type # "Add" /\ UNCHANGED <<requests, query_id_counter, engineVars>>
  BY <1>1, Zenon DEF EventLoop, HandlePrepareFirst, HandlePrepareAgain, HandlePrepared,
     HandleUpdate, HandleUpdateCrash, HandleQueryStatus, HandleTaken, HandleSchedule, Handling
<1> QED
  BY <1>2, <1>3


LEMMA CountedStep == LineInv /\ [Next]_vars => Counted'
<1> SUFFICES ASSUME LineInv, [Next]_vars PROVE Counted'
  OBVIOUS
<1> DEFINE n == Cardinality(AddsOf(events))
           m == Cardinality(AddsOf(events'))
<1>0. /\ events \in Seq(EventSet) /\ requests + 1 = query_id_counter + n /\ requests \in 0..MaxQueries
      /\ query_id_counter \in Nat \ {0} /\ n \in Nat /\ updates \in SUBSET UpdateSet
      /\ upcoming \in BatchSet
  BY AddsFinite DEF LineInv, Ranges, AdmitRanges, EngineRanges, Counted
<1>1. CASE events' = events /\ (LoopCheck \/ EngineTake \/ EngineFinish \/ Still)
  <2>1. UNCHANGED <<requests, query_id_counter>>
    BY <1>1 DEF LoopCheck, EngineTake, EngineFinish, Still
  <2> QED
    BY <1>0, <1>1, <2>1 DEF Counted
<1>2. CASE AddQuery /\ events' = Append(events, Add)
  <2>1. m = n + 1
    BY <1>0, <1>2, AddsAppended, EventsMade DEF Add
  <2>2. requests' = requests + 1 /\ query_id_counter' = query_id_counter
    BY <1>2 DEF AddQuery
  <2> HIDE DEF n, m
  <2> QED
    BY <1>0, <2>1, <2>2 DEF Counted, n, m
<1>3. ASSUME NEW e \in EventSet, e.type # "Add", events' = Append(events, e),
             UNCHANGED <<requests, query_id_counter>>
      PROVE  Counted'
  BY <1>0, <1>3, AddsAppended DEF Counted
<1>4. CASE EnginePut /\ events' = Append(events, Update(updates))
  BY <1>0, <1>3, <1>4, EventsMade DEF EnginePut, Update
<1>5. CASE EngineReport /\ events' = Append(events, Taken(upcoming))
  BY <1>0, <1>3, <1>5, EventsMade DEF EngineReport, Taken
<1>6. CASE LoopCheck /\ events' = Append(events, Schedule)
  BY <1>0, <1>3, <1>6, EventsMade DEF LoopCheck, Schedule
<1>7. ASSUME events # <<>>, loop = "dequeue", EventLoop, ~HandleUpdateCrash,
             NEW new \in Seq(EventSet),
             events' = Tail(events) \o new,
             \A i \in DOMAIN new : new[i].type \in {"Prepare", "Prepared", "QueryStatus"}
      PROVE  Counted'
  <2>1. AddsOf(new) = {}
    BY <1>7 DEF AddsOf
  <2>2. Tail(events) \o new \in Seq(EventSet)
    BY <1>0, <1>7, Enqueued
  <2>3. m \in Nat /\ n = m + (IF Head(events).type = "Add" THEN 1 ELSE 0)
    BY <1>0, <1>7, <2>1, <2>2, AddsAfter, AddsFinite
  <2> HIDE DEF n, m
  <2>4. CASE HandleAdd
    <3>1. Head(events).type = "Add" /\ query_id_counter' = query_id_counter + 1 /\ requests' = requests
      BY <2>4 DEF HandleAdd, Handling
    <3> QED
      BY <1>0, <2>3, <3>1 DEF Counted, n, m
  <2>5. CASE ~HandleAdd
    <3>1. Head(events).type # "Add" /\ query_id_counter' = query_id_counter /\ requests' = requests
      BY <1>7, <2>5, HandlerOfHead
    <3> QED
      BY <1>0, <2>3, <3>1 DEF Counted, n, m
  <2> QED
    BY <2>4, <2>5
<1> QED
  BY <1>1, <1>2, <1>4, <1>5, <1>6, <1>7, EventsStep

-----------------------------------------------------------------------------
(* The query being prepared, step by step *)

\* A handler of another event, that enqueues nothing in flight.
LEMMA FlightUntouched ==
  ASSUME NEW s \in Seq(EventSet), s # <<>>, ~InFlight(Head(s)),
         NEW new \in Seq(EventSet), NoFlight(new)
  PROVE  /\ OneFlight(s) => OneFlight(Tail(s) \o new)
         /\ NoFlight(s) => NoFlight(Tail(s) \o new)
<1>1. NoFlight(s) => \A i \in DOMAIN s : i = 1 \/ ~InFlight(s[i])
  BY DEF NoFlight
<1> QED
  BY <1>1, FlightKept, FlightNone

LEMMA NoneNew == <<>> \in Seq(EventSet) /\ NoFlight(<<>>)
BY OneEvent DEF NoFlight

LEMMA PreparationStep == LineInv /\ [Next]_vars => Preparation'
<1> SUFFICES ASSUME LineInv, [Next]_vars PROVE Preparation'
  OBVIOUS
<1>0. /\ events \in Seq(EventSet) /\ updates \in SUBSET UpdateSet /\ upcoming \in BatchSet
      /\ waiting \in Seq(Queries) /\ has_query_preparing \in BOOLEAN
      /\ wait_done_prepare \in Queries \cup {None} /\ None \notin Queries
      /\ Preparation
  BY QueriesAre DEF LineInv, Ranges, AdmitRanges, EngineRanges
<1>a. ASSUME events # <<>>, ~InFlight(Head(events)), NEW new \in Seq(EventSet), NoFlight(new),
             events' = Tail(events) \o new, UNCHANGED admitVars
      PROVE  Preparation'
  BY <1>0, <1>a, FlightUntouched DEF Preparation, admitVars
<1>b. ASSUME NEW e \in EventSet, ~InFlight(e), events' = Append(events, e), UNCHANGED admitVars
      PROVE  Preparation'
  BY <1>0, <1>b, FlightAppended DEF Preparation, admitVars
<1>1. CASE AddQuery
  BY <1>b, <1>1, EventsMade DEF AddQuery, Add, InFlight
<1>2. CASE HandleAdd
  <2>1. events # <<>> /\ ~InFlight(Head(events))
    BY <1>2 DEF HandleAdd, Handling, InFlight
  <2>2. has_query_preparing' = TRUE /\ wait_done_prepare' = wait_done_prepare
    BY <1>2 DEF HandleAdd
  <2>3. CASE has_query_preparing
    <3>1. events' = Tail(events) \o <<>>
      BY <1>2, <2>3 DEF HandleAdd, Enqueuing
    <3> QED
      BY <1>0, <2>1, <2>2, <2>3, <3>1, NoneNew, FlightUntouched DEF Preparation
  <2>4. CASE ~has_query_preparing
    <3>1. query_id_counter \in Queries
      BY <1>2, AddHasId DEF HandleAdd
    <3>2. Append(waiting, query_id_counter) \in Seq(Queries) /\ Append(waiting, query_id_counter) # <<>>
      BY <1>0, <3>1, AppendProperties
    <3>3. Head(Append(waiting, query_id_counter)) \in Queries
      BY <3>2, HeadTailProperties
    <3>4. PICK e : e = Prepare(Head(Append(waiting, query_id_counter)), TRUE)
      OBVIOUS
    <3>5. e \in EventSet /\ InFlight(e) /\ events' = Tail(events) \o <<e>>
      BY <1>2, <2>4, <3>3, <3>4, EventsMade DEF HandleAdd, Enqueuing, InFlight, Prepare
    <3>6. wait_done_prepare = None /\ NoFlight(events)
      BY <1>0, <2>4 DEF Preparation
    <3>7. \A i \in DOMAIN events : i = 1 \/ ~InFlight(events[i])
      BY <3>6 DEF NoFlight
    <3>8. OneFlight(events')
      BY <1>0, <2>1, <3>5, <3>7, FlightSent
    <3> QED
      BY <2>2, <3>6, <3>8 DEF Preparation
  <2> QED
    BY <2>3, <2>4
<1>3. CASE HandlePrepareFirst
  <2>1. /\ events # <<>> /\ Head(events).query \in Queries
        /\ has_query_preparing /\ wait_done_prepare = None
        /\ \A i \in DOMAIN events : i = 1 \/ ~InFlight(events[i])
    BY <1>3, HeadIsCurrent DEF HandlePrepareFirst, Handling, InFlight
  <2>2. \/ events' = Tail(events) \o <<Prepared(Head(events).query)>>
        \/ events' = Tail(events) \o <<Prepare(Head(events).query, FALSE)>>
    BY <1>3 DEF HandlePrepareFirst, Enqueuing
  <2>3. PICK e \in EventSet : InFlight(e) /\ events' = Tail(events) \o <<e>>
    BY <2>1, <2>2, EventsMade DEF InFlight, Prepare, Prepared
  <2>4. OneFlight(events')
    BY <1>0, <2>1, <2>3, FlightSent
  <2>5. UNCHANGED <<waiting, has_query_preparing, wait_done_prepare>>
    BY <1>3 DEF HandlePrepareFirst, admitVars
  <2> QED
    BY <2>1, <2>4, <2>5 DEF Preparation
<1>4. CASE HandlePrepareAgain
  <2>1. /\ events # <<>> /\ Head(events).query \in Queries
        /\ has_query_preparing
        /\ \A i \in DOMAIN events : i = 1 \/ ~InFlight(events[i])
    BY <1>4, HeadIsCurrent DEF HandlePrepareAgain, Handling, InFlight
  <2>2. events' = Tail(events) \o <<>> /\ wait_done_prepare' = Head(events).query
        /\ UNCHANGED has_query_preparing
    BY <1>4 DEF HandlePrepareAgain, Enqueuing
  <2>3. NoFlight(events')
    BY <1>0, <2>1, <2>2, NoneNew, FlightNone
  <2> QED
    BY <1>0, <2>1, <2>2, <2>3 DEF Preparation
<1>5. CASE HandlePrepared
  <2>1. /\ events # <<>> /\ has_query_preparing /\ wait_done_prepare = None
        /\ \A i \in DOMAIN events : i = 1 \/ ~InFlight(events[i])
    BY <1>5, HeadIsCurrent DEF HandlePrepared, Handling, InFlight
  <2>2. CASE waiting = <<>>
    <3>1. events' = Tail(events) \o <<>> /\ has_query_preparing' = FALSE
          /\ UNCHANGED <<waiting, wait_done_prepare>>
      BY <1>5, <2>2 DEF HandlePrepared, Enqueuing
    <3>2. NoFlight(events')
      BY <1>0, <2>1, <3>1, NoneNew, FlightNone
    <3> QED
      BY <2>1, <2>2, <3>1, <3>2 DEF Preparation
  <2>3. CASE waiting # <<>>
    <3>1. Head(waiting) \in Queries
      BY <1>0, <2>3, HeadTailProperties
    <3>2. PICK e : e = Prepare(Head(waiting), TRUE)
      OBVIOUS
    <3>3. e \in EventSet /\ InFlight(e) /\ events' = Tail(events) \o <<e>>
          /\ UNCHANGED <<has_query_preparing, wait_done_prepare>>
      BY <1>5, <2>3, <3>1, <3>2, EventsMade DEF HandlePrepared, Enqueuing, InFlight, Prepare
    <3>4. OneFlight(events')
      BY <1>0, <2>1, <3>3, FlightSent
    <3> QED
      BY <2>1, <3>3, <3>4 DEF Preparation
  <2> QED
    BY <2>2, <2>3
<1>6. CASE HandleUpdate
  <2>1. events # <<>> /\ Head(events).type = "Update" /\ UNCHANGED admitVars
    BY <1>6 DEF HandleUpdate, Handling
  <2>2. PICK new \in Seq(EventSet) : events' = Tail(events) \o new /\ NoFlight(new)
    <3>1. PICK done : done = FinishedBy(Head(events).updates)
      OBVIOUS
    <3>2. events' = Tail(events) \o [i \in 1..Cardinality(done) |-> QueryDone]
      BY <1>6, <3>1 DEF HandleUpdate, Enqueuing
    <3>3. Head(events) \in EventSet
      BY <1>0, <2>1, OneEvent, Enqueued
    <3>4. done \in SUBSET Queries
      BY <2>1, <3>1, <3>3, EventFields DEF FinishedBy, UpdateSet
    <3>5. Cardinality(done) \in Nat
      BY <3>4, QueriesFinite
    <3>6. [i \in 1..Cardinality(done) |-> QueryDone] \in Seq(EventSet)
      BY <3>5, EventsMade
    <3>7. NoFlight([i \in 1..Cardinality(done) |-> QueryDone])
      BY DEF NoFlight, InFlight, QueryDone
    <3> QED
      BY <3>2, <3>6, <3>7
  <2> QED
    BY <1>a, <2>1, <2>2 DEF InFlight
<1>7. CASE HandleQueryStatus
  <2>1. events # <<>> /\ ~InFlight(Head(events)) /\ wait_done_prepare' = None
        /\ UNCHANGED <<has_query_preparing, waiting>>
    BY <1>7 DEF HandleQueryStatus, Handling, InFlight
  <2>2. CASE wait_done_prepare = None
    <3>1. events' = Tail(events) \o <<>>
      BY <1>7, <2>2 DEF HandleQueryStatus, Enqueuing
    <3> QED
      BY <1>0, <2>1, <2>2, <3>1, NoneNew, FlightUntouched DEF Preparation
  <2>3. CASE wait_done_prepare # None
    <3>1. has_query_preparing /\ NoFlight(events) /\ wait_done_prepare \in Queries
      BY <1>0, <2>3 DEF Preparation
    <3>2. PICK e : e = Prepare(wait_done_prepare, TRUE)
      OBVIOUS
    <3>3. e \in EventSet /\ InFlight(e) /\ events' = Tail(events) \o <<e>>
      BY <1>7, <2>3, <3>1, <3>2, EventsMade DEF HandleQueryStatus, Enqueuing, InFlight, Prepare
    <3>4. \A i \in DOMAIN events : i = 1 \/ ~InFlight(events[i])
      BY <3>1 DEF NoFlight
    <3>5. OneFlight(events')
      BY <1>0, <2>1, <3>3, <3>4, FlightSent
    <3> QED
      BY <2>1, <3>1, <3>5 DEF Preparation
  <2> QED
    BY <2>2, <2>3
<1>8. CASE HandleTaken
  BY <1>a, <1>8, NoneNew DEF HandleTaken, Handling, Enqueuing, InFlight
<1>9. CASE HandleSchedule
  <2>1. events # <<>> /\ Head(events).type = "Schedule" /\ events' = Tail(events) \o <<>>
    BY <1>9, ScheduleEffect DEF LineInv
  <2>2. UNCHANGED <<waiting, has_query_preparing, wait_done_prepare>>
    BY <1>9 DEF HandleSchedule
  <2>3. ~InFlight(Head(events))
    BY <2>1 DEF InFlight
  <2> QED
    BY <1>0, <2>1, <2>2, <2>3, NoneNew, FlightUntouched DEF Preparation
<1>10. CASE LoopCheck
  <2>1. UNCHANGED admitVars /\ (events' = events \/ events' = Append(events, Schedule))
    BY <1>10 DEF LoopCheck
  <2>2. CASE events' = events
    BY <1>0, <2>1, <2>2 DEF Preparation, admitVars
  <2>3. CASE events' = Append(events, Schedule)
    BY <1>b, <2>1, <2>3, EventsMade DEF InFlight, Schedule
  <2> QED
    BY <2>1, <2>2, <2>3
<1>11. CASE EnginePut
  BY <1>0, <1>b, <1>11, EventsMade DEF EnginePut, Update, InFlight
<1>12. CASE EngineReport
  BY <1>0, <1>b, <1>12, EventsMade DEF EngineReport, Taken, InFlight
<1>13. CASE EngineTake \/ EngineFinish \/ Still
  <2>1. UNCHANGED <<events, waiting, has_query_preparing, wait_done_prepare>>
    BY <1>13 DEF EngineTake, EngineFinish, Still, admitVars
  <2> QED
    BY <1>0, <2>1 DEF Preparation
<1> QED
  BY <1>1, <1>2, <1>3, <1>4, <1>5, <1>6, <1>7, <1>8, <1>9, <1>10, <1>11, <1>12, <1>13,
     StillSteps DEF Next, EventLoop, Engine

-----------------------------------------------------------------------------
(* The line, step by step *)

\* All events in flight name the same query.
Names(s, q) == \A i \in DOMAIN s : InFlight(s[i]) => s[i].query = q

LEMMA NamesAfter ==
  ASSUME NEW s \in Seq(EventSet), s # <<>>, NEW new \in Seq(EventSet), NEW q,
         Names(s, q) \/ (\A i \in DOMAIN s : i = 1 \/ ~InFlight(s[i])), Names(new, q)
  PROVE  Names(Tail(s) \o new, q)
<1> DEFINE u == Tail(s) \o new
<1>0. DOMAIN u \subseteq Nat \ {0}
  BY Enqueued
<1>1. ASSUME NEW i \in DOMAIN u, InFlight(u[i]) PROVE u[i].query = q
  <2>1. \/ i + 1 \in DOMAIN s /\ u[i] = s[i + 1]
        \/ \E j \in DOMAIN new : u[i] = new[j]
    BY EventsAfter
  <2>2. i + 1 # 1
    BY <1>0
  <2> HIDE DEF u
  <2> QED
    BY <1>1, <2>1, <2>2 DEF Names
<1> QED
  BY <1>1 DEF Names

LEMMA NamesAppended ==
  ASSUME NEW s \in Seq(EventSet), NEW e \in EventSet, ~InFlight(e), NEW q, Names(s, q)
  PROVE  Names(Append(s, e), q)
<1> DEFINE u == Append(s, e)
<1>1. /\ Len(s) \in Nat /\ DOMAIN s = 1..Len(s) /\ DOMAIN u = 1..(Len(s) + 1)
      /\ \A i \in 1..Len(s) : u[i] = s[i]
      /\ u[Len(s) + 1] = e
  BY Appended
<1> HIDE DEF u
<1>2. Names(u, q)
  BY <1>1 DEF Names
<1> QED
  BY <1>2 DEF u

LEMMA NoneNames == \A q : <<>> \in Seq(EventSet) /\ Names(<<>>, q)
BY OneEvent DEF Names

LEMMA OneNames ==
  ASSUME NEW q \in Queries
  PROVE  /\ <<Prepared(q)>> \in Seq(EventSet) /\ Names(<<Prepared(q)>>, q)
         /\ \A first \in BOOLEAN : <<Prepare(q, first)>> \in Seq(EventSet) /\ Names(<<Prepare(q, first)>>, q)
BY OneEvent, EventsMade DEF Names, Prepared, Prepare

\* The parts of Line: who waits, who is prepared, who is ready, who has begun.
Ready == \A i \in 1..Len(ready_queue) : ready_queue[i] = First + i - 1
Wait  == \A i \in 1..Len(waiting) : waiting[i] = query_id_counter - Len(waiting) + i - 1
Turn  == Names(events, Current) /\ (wait_done_prepare # None => wait_done_prepare = Current)
Front == First >= 1 /\ \A q \in Queries : Begun(q) <=> q < First

LEMMA LineParts == Line <=> Ready /\ Wait /\ Turn /\ Front
BY DEF Line, Ready, Wait, Turn, Front, Names

LEMMA LineNumbers ==
  ASSUME LineInv
  PROVE  /\ query_id_counter \in Nat \ {0} /\ Len(waiting) \in Nat /\ Len(ready_queue) \in Nat
         /\ Current \in Int /\ First \in Int /\ Current = query_id_counter - Len(waiting) - 1
         /\ has_query_preparing => First = Current - Len(ready_queue)
         /\ ~has_query_preparing => First = Current - Len(ready_queue) + 1
         /\ has_query_preparing \in BOOLEAN
BY LenProperties DEF LineInv, Ranges, AdmitRanges, Current, First

\* A step that leaves the line alone, but for the events.
LEMMA LineUntouched ==
  ASSUME LineInv, Turn', UNCHANGED <<query_id_counter, waiting, has_query_preparing, ready_queue>>,
         \A q \in Queries : Begun(q)' <=> Begun(q)
  PROVE  Line'
<1>1. Ready /\ Wait /\ Front
  BY LineParts DEF LineInv
<1>2. First' = First
  BY DEF First
<1>3. Ready' /\ Wait' /\ Front'
  BY <1>1, <1>2 DEF Ready, Wait, Front
<1> QED
  BY <1>3, LineParts DEF Ready, Wait, Turn, Front, Line, Names

\* A query of a batch that was taken has begun.
LEMMA TakenBegun ==
  ASSUME LineInv, events # <<>>, Head(events).type = "Taken"
  PROVE  \A q \in QueryIds(Head(events).batch) : Begun(q)
<1>1. Head(events) = events[1] /\ 1 \in DOMAIN events
  BY OneEvent, Enqueued DEF LineInv, Ranges
<1>2. Head(events).batch \in Batches
  BY <1>1 DEF Batches, TakenBatches
<1> QED
  BY <1>2 DEF LineInv, Members

LEMMA LineStep == LineInv /\ [Next]_vars => Line'
<1> SUFFICES ASSUME LineInv, [Next]_vars PROVE Line'
  OBVIOUS
<1>0. /\ events \in Seq(EventSet) /\ updates \in SUBSET UpdateSet /\ upcoming \in BatchSet
      /\ waiting \in Seq(Queries) /\ ready_queue \in Seq(Queries)
      /\ wait_done_prepare \in Queries \cup {None} /\ None \notin Queries
      /\ plan_status \in [Queries -> Statuses]
      /\ Preparation /\ Ranges
  BY QueriesAre DEF LineInv, Ranges, QueryRanges, AdmitRanges, EngineRanges
<1>p. Ready /\ Wait /\ Turn /\ Front
  BY LineParts DEF LineInv
<1>q. Ready' /\ Wait' /\ Turn' /\ Front' => Line'
  BY DEF Line, Ready, Wait, Turn, Front, Names
<1>b. ASSUME NEW e \in EventSet, ~InFlight(e), events' = Append(events, e),
             UNCHANGED <<query_id_counter, admitVars, plan_status>>
      PROVE  Line'
  <2>1. Current' = Current /\ wait_done_prepare' = wait_done_prepare
    BY <1>b DEF Current, admitVars
  <2>2. Turn'
    BY <1>0, <1>p, <1>b, <2>1, NamesAppended DEF Turn
  <2> QED
    BY <1>b, <2>2, LineUntouched DEF admitVars, Begun
<1>1. CASE AddQuery
  BY <1>b, <1>1, EventsMade DEF AddQuery, Add, InFlight, queryVars
<1>2. CASE HandleAdd
  <2> DEFINE c == query_id_counter
             w == Len(waiting)
             r == Len(ready_queue)
  <2>0. /\ c \in Nat \ {0} /\ w \in Nat /\ r \in Nat /\ Current = c - w - 1
        /\ First \in Int /\ Current \in Int
        /\ has_query_preparing => First = Current - r
        /\ ~has_query_preparing => First = Current - r + 1
    BY LineNumbers
  <2>1. /\ events # <<>> /\ ~InFlight(Head(events)) /\ c \in Queries
        /\ has_query_preparing' = TRUE /\ query_id_counter' = c + 1
        /\ UNCHANGED <<wait_done_prepare, ready_queue, plan_status>>
    BY <1>2, AddHasId DEF HandleAdd, Handling, InFlight, queryVars
  <2>2. CASE has_query_preparing
    <3>1. events' = Tail(events) \o <<>> /\ waiting' = Append(waiting, c)
      BY <1>2, <2>2 DEF HandleAdd, Enqueuing
    <3>2. /\ Len(waiting') = w + 1 /\ \A i \in 1..w : waiting'[i] = waiting[i]
          /\ waiting'[w + 1] = c
      BY <1>0, <2>1, <3>1, AppendProperties
    <3>3. Current' = Current /\ First' = First
      BY <2>0, <2>1, <2>2, <3>2 DEF Current, First
    <3>4. Turn'
      BY <1>0, <1>p, <2>1, <3>1, <3>3, NoneNames, NamesAfter DEF Turn
    <3>5. Wait'
      <4> SUFFICES ASSUME NEW i \in 1..(w + 1)
                   PROVE  waiting'[i] = (c + 1) - (w + 1) + i - 1
        BY <2>1, <3>2 DEF Wait
      <4>1. CASE i \in 1..w
        BY <1>p, <2>0, <3>2, <4>1 DEF Wait
      <4>2. CASE i = w + 1
        BY <2>0, <3>2, <4>2
      <4> QED
        BY <2>0, <4>1, <4>2
    <3>6. Ready' /\ Front'
      BY <1>p, <2>1, <3>3 DEF Ready, Front, Begun
    <3> QED
      BY <1>q, <3>4, <3>5, <3>6
  <2>3. CASE ~has_query_preparing
    <3>1. waiting = <<>> /\ wait_done_prepare = None /\ NoFlight(events)
      BY <1>0, <2>3 DEF Preparation
    <3>2. w = 0 /\ Append(waiting, c) = <<c>>
      BY <3>1
    <3>3. Tail(<<c>>) = <<>> /\ Head(<<c>>) = c
      OBVIOUS
    <3>4. waiting' = <<>> /\ events' = Tail(events) \o <<Prepare(c, TRUE)>>
      BY <1>2, <2>3, <3>2, <3>3 DEF HandleAdd, Enqueuing
    <3>5. Len(waiting') = 0
      BY <3>4
    <3>6. Current' = c /\ First' = First
      BY <2>0, <2>1, <2>3, <3>2, <3>5 DEF Current, First
    <3>7. Names(events', c)
      <4>1. \A i \in DOMAIN events : i = 1 \/ ~InFlight(events[i])
        BY <3>1 DEF NoFlight
      <4>2. <<Prepare(c, TRUE)>> \in Seq(EventSet) /\ Names(<<Prepare(c, TRUE)>>, c)
        BY <2>1, OneNames
      <4> QED
        BY <1>0, <2>1, <3>4, <4>1, <4>2, NamesAfter
    <3>8. Turn'
      BY <2>1, <3>1, <3>6, <3>7 DEF Turn
    <3>9. Ready' /\ Front' /\ Wait'
      BY <1>p, <2>1, <3>5, <3>6 DEF Ready, Front, Begun, Wait
    <3> QED
      BY <1>q, <3>8, <3>9
  <2> QED
    BY <2>2, <2>3
<1>3. CASE HandlePrepareFirst
  <2> DEFINE q == Head(events).query
  <2>1. /\ events # <<>> /\ q \in Queries /\ q = Current /\ ~Begun(q)
        /\ wait_done_prepare = None
        /\ \A i \in DOMAIN events : i = 1 \/ ~InFlight(events[i])
    BY <1>3, HeadIsCurrent DEF HandlePrepareFirst, Handling, InFlight
  <2>2. /\ UNCHANGED <<query_id_counter, waiting, has_query_preparing, ready_queue, wait_done_prepare>>
        /\ \/ events' = Tail(events) \o <<Prepared(q)>>
           \/ events' = Tail(events) \o <<Prepare(q, FALSE)>>
        /\ plan_status' = [plan_status EXCEPT ![q] = "Preparing"]
    BY <1>3 DEF HandlePrepareFirst, Enqueuing, admitVars
  <2>3. Names(events', q)
    <3>1. /\ <<Prepared(q)>> \in Seq(EventSet) /\ Names(<<Prepared(q)>>, q)
          /\ <<Prepare(q, FALSE)>> \in Seq(EventSet) /\ Names(<<Prepare(q, FALSE)>>, q)
      BY <2>1, OneNames
    <3>2. CASE events' = Tail(events) \o <<Prepared(q)>>
      BY <1>0, <2>1, <3>1, <3>2, NamesAfter
    <3>3. CASE events' = Tail(events) \o <<Prepare(q, FALSE)>>
      BY <1>0, <2>1, <3>1, <3>3, NamesAfter
    <3> QED
      BY <2>2, <3>2, <3>3
  <2>4. Turn'
    BY <2>1, <2>2, <2>3 DEF Turn, Current
  <2> HIDE DEF q
  <2>5. \A x \in Queries : Begun(x)' <=> Begun(x)
    BY <1>0, <2>1, <2>2 DEF Begun
  <2> QED
    BY <2>2, <2>4, <2>5, LineUntouched
<1>4. CASE HandlePrepareAgain
  <2>1. /\ events # <<>> /\ Head(events).query = Current
        /\ \A i \in DOMAIN events : i = 1 \/ ~InFlight(events[i])
    BY <1>4, HeadIsCurrent DEF HandlePrepareAgain, Handling, InFlight
  <2>2. /\ UNCHANGED <<query_id_counter, waiting, has_query_preparing, ready_queue, plan_status>>
        /\ events' = Tail(events) \o <<>> /\ wait_done_prepare' = Head(events).query
    BY <1>4 DEF HandlePrepareAgain, Enqueuing, queryVars
  <2>3. Current' = Current /\ Names(events', Current)
    BY <1>0, <2>1, <2>2, NoneNames, NamesAfter DEF Current
  <2>4. Turn'
    BY <2>1, <2>2, <2>3 DEF Turn
  <2> QED
    BY <2>2, <2>4, LineUntouched DEF Begun
<1>5. CASE HandlePrepared
  <2> DEFINE c == query_id_counter
             w == Len(waiting)
             r == Len(ready_queue)
             q == Head(events).query
  <2>1. /\ events # <<>> /\ q \in Queries /\ q = Current /\ has_query_preparing
        /\ wait_done_prepare = None
        /\ \A i \in DOMAIN events : i = 1 \/ ~InFlight(events[i])
    BY <1>5, HeadIsCurrent DEF HandlePrepared, Handling, InFlight
  <2>2. /\ c \in Nat \ {0} /\ w \in Nat /\ r \in Nat /\ Current = c - w - 1
        /\ First \in Int /\ Current \in Int /\ First = Current - r
    BY <2>1, LineNumbers
  <2>3. /\ UNCHANGED <<query_id_counter, wait_done_prepare, plan_status>>
        /\ ready_queue' = Append(ready_queue, q)
    BY <1>5 DEF HandlePrepared, queryVars
  <2>4. /\ Len(ready_queue') = r + 1 /\ ready_queue'[r + 1] = Current
        /\ \A i \in 1..r : ready_queue'[i] = ready_queue[i]
    BY <1>0, <2>1, <2>3, AppendProperties
  <2>5. First' = First => Ready' /\ Front'
    <3>1. \A i \in 1..(r + 1) : ready_queue'[i] = First + i - 1
      <4> SUFFICES ASSUME NEW i \in 1..(r + 1) PROVE ready_queue'[i] = First + i - 1
        OBVIOUS
      <4>1. CASE i \in 1..r
        BY <1>p, <2>4, <4>1 DEF Ready
      <4>2. CASE i = r + 1
        BY <2>2, <2>4, <4>2
      <4> QED
        BY <2>2, <4>1, <4>2
    <3> QED
      BY <1>p, <2>3, <2>4, <3>1 DEF Ready, Front, Begun
  <2>6. CASE waiting = <<>>
    <3>1. /\ has_query_preparing' = FALSE /\ events' = Tail(events) \o <<>>
          /\ waiting' = <<>> /\ w = 0 /\ Len(waiting') = 0
      BY <1>5, <2>6 DEF HandlePrepared, Enqueuing
    <3>2. First' = First /\ Current' = Current
      BY <2>2, <2>3, <2>4, <3>1 DEF First, Current
    <3>3. Turn'
      BY <1>0, <2>1, <2>3, <3>1, <3>2, NoneNames, NamesAfter DEF Turn
    <3>4. Wait'
      BY <3>1 DEF Wait
    <3> QED
      BY <1>q, <2>5, <3>2, <3>3, <3>4
  <2>7. CASE waiting # <<>>
    <3>1. /\ has_query_preparing' = TRUE /\ waiting' = Tail(waiting)
          /\ events' = Tail(events) \o <<Prepare(Head(waiting), TRUE)>>
      BY <1>5, <2>1, <2>7 DEF HandlePrepared, Enqueuing
    <3>2. /\ Len(waiting') = w - 1 /\ w \in Nat \ {0} /\ Head(waiting) = waiting[1]
          /\ Head(waiting) \in Queries
          /\ \A i \in 1..(w - 1) : waiting'[i] = waiting[i + 1]
      BY <1>0, <2>7, <3>1, HeadTailProperties, EmptySeq
    <3>3. Head(waiting) = c - w /\ First' = First /\ Current' = c - w
      <4>1. waiting[1] = c - w + 1 - 1
        BY <1>p, <3>2 DEF Wait
      <4>2. Head(waiting) = c - w
        BY <2>2, <3>2, <4>1
      <4> QED
        BY <2>1, <2>2, <2>3, <2>4, <3>1, <3>2, <4>2 DEF First, Current
    <3>4. Turn'
      <4>1. <<Prepare(Head(waiting), TRUE)>> \in Seq(EventSet)
            /\ Names(<<Prepare(Head(waiting), TRUE)>>, Head(waiting))
        BY <3>2, OneNames
      <4>2. Names(events', Head(waiting))
        BY <1>0, <2>1, <3>1, <4>1, NamesAfter
      <4> QED
        BY <2>1, <2>3, <3>3, <4>2 DEF Turn
    <3>5. Wait'
      <4> SUFFICES ASSUME NEW i \in 1..(w - 1) PROVE waiting'[i] = c - (w - 1) + i - 1
        BY <2>3, <3>2 DEF Wait
      <4>1. waiting'[i] = waiting[i + 1] /\ i + 1 \in 1..w
        BY <3>2
      <4>2. waiting[i + 1] = c - w + (i + 1) - 1
        BY <1>p, <4>1 DEF Wait
      <4> QED
        BY <2>2, <4>1, <4>2
    <3> QED
      BY <1>q, <2>5, <3>3, <3>4, <3>5
  <2> QED
    BY <2>6, <2>7
<1>6. CASE HandleUpdate
  <2>1. events # <<>> /\ Head(events).type = "Update"
        /\ UNCHANGED <<query_id_counter, waiting, has_query_preparing, ready_queue, wait_done_prepare>>
    BY <1>6 DEF HandleUpdate, Handling, admitVars
  <2>2. PICK done : done = FinishedBy(Head(events).updates)
    OBVIOUS
  <2>3. Head(events) \in EventSet
    BY <1>0, <2>1, OneEvent, Enqueued
  <2>4. done \in SUBSET Queries /\ \A q \in done : Running(q)
    BY <2>1, <2>2, <2>3, EventFields DEF FinishedBy, UpdateSet
  <2>5. /\ events' = Tail(events) \o [i \in 1..Cardinality(done) |-> QueryDone]
        /\ plan_status' = [q \in Queries |-> IF q \in done THEN "Done" ELSE plan_status[q]]
    BY <1>6, <2>2 DEF HandleUpdate, Enqueuing
  <2>6. PICK new : new = [i \in 1..Cardinality(done) |-> QueryDone]
    OBVIOUS
  <2>7. new \in Seq(EventSet)
    <3>1. Cardinality(done) \in Nat
      BY <2>4, QueriesFinite
    <3> QED
      BY <2>6, <3>1, EventsMade
  <2>8. Names(new, Current)
    BY <2>6 DEF Names, InFlight, QueryDone
  <2>9. Turn'
    BY <1>0, <1>p, <2>1, <2>5, <2>6, <2>7, <2>8, NamesAfter DEF Turn, Current
  <2>10. \A q \in Queries : Begun(q)' <=> Begun(q)
    BY <1>0, <2>4, <2>5 DEF Begun, Running
  <2> QED
    BY <2>1, <2>9, <2>10, LineUntouched
<1>7. CASE HandleQueryStatus
  <2>1. events # <<>> /\ wait_done_prepare' = None
        /\ UNCHANGED <<query_id_counter, waiting, has_query_preparing, ready_queue, plan_status>>
    BY <1>7 DEF HandleQueryStatus, Handling, queryVars
  <2>2. Current' = Current
    BY <2>1 DEF Current
  <2>3. Names(events', Current)
    <3>1. CASE wait_done_prepare = None
      <4>1. events' = Tail(events) \o <<>>
        BY <1>7, <3>1 DEF HandleQueryStatus, Enqueuing
      <4> QED
        BY <1>0, <1>p, <2>1, <4>1, NoneNames, NamesAfter DEF Turn
    <3>2. CASE wait_done_prepare # None
      <4>1. events' = Tail(events) \o <<Prepare(wait_done_prepare, TRUE)>>
        BY <1>7, <3>2 DEF HandleQueryStatus, Enqueuing
      <4>2. wait_done_prepare = Current /\ wait_done_prepare \in Queries
        BY <1>0, <1>p, <3>2 DEF Turn
      <4>3. <<Prepare(wait_done_prepare, TRUE)>> \in Seq(EventSet)
            /\ Names(<<Prepare(wait_done_prepare, TRUE)>>, Current)
        BY <4>2, OneNames
      <4> QED
        BY <1>0, <1>p, <2>1, <4>1, <4>3, NamesAfter DEF Turn
    <3> QED
      BY <3>1, <3>2
  <2>4. Turn'
    BY <2>1, <2>2, <2>3 DEF Turn
  <2> QED
    BY <2>1, <2>4, LineUntouched DEF Begun
<1>8. CASE HandleTaken
  <2>1. /\ events # <<>> /\ Head(events).type = "Taken" /\ events' = Tail(events) \o <<>>
        /\ \A q \in Queries :
             \/ plan_status'[q] = plan_status[q]
             \/ /\ plan_status'[q] = "Decode"
                /\ \E t \in Head(events).batch.prefill : t.query = q
    BY <1>0, <1>8, TakenEffect
  <2>2. UNCHANGED <<query_id_counter, waiting, has_query_preparing, ready_queue, wait_done_prepare>>
    BY <1>8 DEF HandleTaken, admitVars
  <2>3. Turn'
    BY <1>0, <1>p, <2>1, <2>2, NoneNames, NamesAfter DEF Turn, Current
  <2>4. \A q \in Queries : (\E t \in Head(events).batch.prefill : t.query = q) => Begun(q)
    BY <2>1, TakenBegun DEF QueryIds
  <2>5. \A q \in Queries : Begun(q)' <=> Begun(q)
    BY <2>1, <2>4 DEF Begun
  <2> QED
    BY <2>2, <2>3, <2>5, LineUntouched
<1>9. CASE HandleSchedule
  <2> DEFINE n == Len(Admitted)
             r == Len(ready_queue)
  <2>1. /\ events # <<>> /\ events' = Tail(events) \o <<>>
        /\ ready_queue' = SubSeq(ready_queue, n + 1, r)
        /\ \A q \in Queries : plan_status'[q] = IF q \in Entering THEN "Prefill" ELSE plan_status[q]
    BY <1>0, <1>9, ScheduleEffect
  <2>2. UNCHANGED <<query_id_counter, waiting, has_query_preparing, wait_done_prepare>>
    BY <1>9 DEF HandleSchedule
  <2>3. n \in 0..r /\ r \in Nat
    BY <1>0, AdmittedIs
  <2>4. Entering = {ready_queue[i] : i \in 1..n}
    BY <1>0, EnteringIs
  <2>5. Len(ready_queue') = r - n /\ \A i \in 1..(r - n) : ready_queue'[i] = ready_queue[n + i]
    BY <1>0, <2>1, RestIs
  <2>6. First \in Int /\ First' = First + n /\ Current' = Current
    <3> HIDE DEF n, r
    <3>1. Len(ready_queue') = r - n /\ Len(waiting) \in Nat /\ query_id_counter \in Nat
      BY <2>5, LineNumbers
    <3>2. Current' = Current
      BY <2>2 DEF Current
    <3> QED
      BY <2>2, <2>3, <3>1, <3>2 DEF First, r
  <2> HIDE DEF n
  <2>7. Ready'
    <3> SUFFICES ASSUME NEW i \in 1..(r - n) PROVE ready_queue'[i] = First + n + i - 1
      BY <2>5, <2>6 DEF Ready
    <3>1. ready_queue'[i] = ready_queue[n + i] /\ n + i \in 1..r
      BY <2>3, <2>5
    <3>2. ready_queue[n + i] = First + (n + i) - 1
      BY <1>p, <3>1 DEF Ready
    <3> QED
      BY <2>3, <2>6, <3>1, <3>2
  <2>8. Front'
    <3>1. First + n >= 1
      BY <1>p, <2>3, <2>6 DEF Front
    <3>2. ASSUME NEW q \in Queries PROVE Begun(q)' <=> q < First + n
      <4>0. q \in Nat
        BY QueriesAre
      <4>1. q \in Entering <=> First <= q /\ q < First + n
        <5>1. \A i \in 1..n : ready_queue[i] = First + i - 1
          BY <1>p, <2>3 DEF Ready
        <5>2. ASSUME q \in Entering PROVE First <= q /\ q < First + n
          <6>1. PICK i \in 1..n : q = First + i - 1
            BY <2>4, <5>1, <5>2
          <6> QED
            BY <2>3, <2>6, <6>1
        <5>3. ASSUME First <= q, q < First + n PROVE q \in Entering
          <6>1. q - First + 1 \in 1..n /\ First + (q - First + 1) - 1 = q
            BY <2>3, <2>6, <4>0, <5>3
          <6> QED
            BY <2>4, <5>1, <6>1
        <5> QED
          BY <5>2, <5>3
      <4>2. Begun(q)' <=> q \in Entering \/ Begun(q)
        BY <2>1 DEF Begun
      <4>3. Begun(q) <=> q < First
        BY <1>p DEF Front
      <4> QED
        BY <2>3, <2>6, <4>0, <4>1, <4>2, <4>3
    <3> QED
      BY <2>6, <3>1, <3>2 DEF Front
  <2>9. Wait'
    BY <1>p, <2>2 DEF Wait
  <2>10. Turn'
    BY <1>0, <1>p, <2>1, <2>2, <2>6, NoneNames, NamesAfter DEF Turn
  <2> QED
    BY <1>q, <2>7, <2>8, <2>9, <2>10
<1>10. CASE LoopCheck
  <2>1. UNCHANGED <<query_id_counter, admitVars, plan_status>>
        /\ (events' = events \/ events' = Append(events, Schedule))
    BY <1>10 DEF LoopCheck, queryVars
  <2>2. CASE events' = events
    BY <1>p, <2>1, <2>2, LineUntouched DEF admitVars, Turn, Current, Begun
  <2>3. CASE events' = Append(events, Schedule)
    BY <1>b, <2>1, <2>3, EventsMade DEF InFlight, Schedule
  <2> QED
    BY <2>1, <2>2, <2>3
<1>11. CASE EnginePut
  BY <1>0, <1>b, <1>11, EventsMade DEF EnginePut, Update, InFlight, queryVars
<1>12. CASE EngineReport
  BY <1>0, <1>b, <1>12, EventsMade DEF EngineReport, Taken, InFlight, queryVars
<1>13. CASE EngineTake \/ EngineFinish \/ Still
  <2>1. UNCHANGED <<events, query_id_counter, waiting, has_query_preparing, ready_queue,
                    wait_done_prepare, plan_status>>
    BY <1>13 DEF EngineTake, EngineFinish, Still, admitVars, queryVars
  <2> QED
    BY <1>p, <2>1, LineUntouched DEF Turn, Current, Begun
<1> QED
  BY <1>1, <1>2, <1>3, <1>4, <1>5, <1>6, <1>7, <1>8, <1>9, <1>10, <1>11, <1>12, <1>13,
     StillSteps DEF Next, EventLoop, Engine

-----------------------------------------------------------------------------
(* The batches, step by step *)

\* Who has begun stays so.
LEMMA BegunStays ==
  ASSUME LineInv, [Next]_vars, NEW q \in Queries, Begun(q)
  PROVE  Begun(q)'
<1>0. Ranges /\ plan_status \in [Queries -> Statuses]
  BY DEF LineInv, Ranges, QueryRanges
<1>1. CASE HandlePrepareFirst
  <2>1. ~Begun(Head(events).query)
    BY <1>1, HeadIsCurrent DEF HandlePrepareFirst, Handling, InFlight
  <2>2. \E s \in Statuses : plan_status' = [plan_status EXCEPT ![Head(events).query] = s]
    BY <1>1 DEF HandlePrepareFirst, Statuses
  <2>3. plan_status'[q] = plan_status[q]
    BY <1>0, <2>1, <2>2
  <2> QED
    BY <2>3 DEF Begun
<1>2. CASE HandleUpdate
  BY <1>0, <1>2 DEF HandleUpdate, Begun
<1>3. CASE HandleTaken
  <2>1. plan_status'[q] \in {plan_status[q], "Decode"}
    BY <1>0, <1>3, TakenEffect
  <2> QED
    BY <2>1 DEF Begun
<1>4. CASE HandleSchedule
  <2>1. plan_status'[q] \in {plan_status[q], "Prefill"}
    BY <1>0, <1>4, ScheduleEffect
  <2> QED
    BY <2>1 DEF Begun
<1>5. CASE UNCHANGED plan_status
  BY <1>5 DEF Begun
<1> QED
  BY <1>1, <1>2, <1>3, <1>4, <1>5, StillSteps DEF Next, EventLoop, Engine, AddQuery, HandleAdd,
     HandlePrepareAgain, HandlePrepared, HandleQueryStatus, LoopCheck, EnginePut, EngineTake,
     EngineReport, EngineFinish, Still, queryVars

\* Batches come from the scheduler, and only move on from there.
LEMMA BatchesStep ==
  ASSUME LineInv, [Next]_vars, NEW b \in Batches'
  PROVE  b \in Batches \/ b = NoBatch \/ (HandleSchedule /\ b = next_batch'.batch)
<1>0. events \in Seq(EventSet) /\ updates \in SUBSET UpdateSet /\ upcoming \in BatchSet
  BY DEF LineInv, Ranges, EngineRanges
<1>1. CASE b \in TakenBatches'
  <2>0. PICK i \in DOMAIN events' : events'[i].type = "Taken" /\ b = events'[i].batch
    BY <1>1 DEF TakenBatches
  <2>a. ASSUME NEW j \in DOMAIN events, events'[i] = events[j] PROVE b \in Batches
    BY <2>0, <2>a DEF Batches, TakenBatches
  <2>b. ASSUME NEW e \in EventSet, events' = Append(events, e) PROVE b \in Batches \/ events'[i] = e
    <3>1. (i \in DOMAIN events /\ events'[i] = events[i]) \/ events'[i] = e
      BY <1>0, <2>0, <2>b, Appended
    <3> QED
      BY <2>a, <3>1
  <2>1. CASE events' = events
    BY <2>0, <2>1, <2>a
  <2>2. CASE events' = Append(events, Add)
    BY <2>0, <2>2, <2>b, EventsMade DEF Add
  <2>3. CASE events' = Append(events, Update(updates))
    BY <1>0, <2>0, <2>3, <2>b, EventsMade DEF Update
  <2>4. CASE events' = Append(events, Taken(upcoming))
    <3>1. b \in Batches \/ events'[i] = Taken(upcoming)
      BY <1>0, <2>4, <2>b, EventsMade
    <3> QED
      BY <2>0, <3>1 DEF Taken, Batches
  <2>5. CASE events' = Append(events, Schedule)
    BY <2>0, <2>5, <2>b, EventsMade DEF Schedule
  <2>6. ASSUME events # <<>>, NEW new \in Seq(EventSet), events' = Tail(events) \o new,
               \A j \in DOMAIN new : new[j].type \in {"Prepare", "Prepared", "QueryStatus"}
        PROVE  b \in Batches
    <3>1. \/ i + 1 \in DOMAIN events /\ events'[i] = events[i + 1]
          \/ \E j \in DOMAIN new : events'[i] = new[j]
      BY <1>0, <2>0, <2>6, EventsAfter
    <3>2. ~\E j \in DOMAIN new : events'[i] = new[j]
      BY <2>0, <2>6
    <3> QED
      BY <2>a, <3>1, <3>2
  <2> QED
    BY <2>1, <2>2, <2>3, <2>4, <2>5, <2>6, EventsStep
<1>2. CASE b \in {batch', upcoming', next_batch'.batch}
  <2>1. CASE HandleSchedule
    BY <1>2, <2>1 DEF HandleSchedule, engineVars, Batches
  <2>2. CASE EngineTake
    <3>1. next_batch'.batch = next_batch.batch
      BY <2>2 DEF EngineTake, LineInv, Ranges
    <3> QED
      BY <1>2, <2>2, <3>1 DEF EngineTake, Batches
  <2>3. CASE EngineFinish
    BY <1>2, <2>3 DEF EngineFinish, Batches
  <2>4. CASE UNCHANGED <<batch, upcoming, next_batch>>
    BY <1>2, <2>4 DEF Batches
  <2> QED
    BY <2>1, <2>2, <2>3, <2>4, StillSteps DEF Next, EventLoop, Engine, AddQuery, HandleAdd, HandlePrepareFirst,
       HandlePrepareAgain, HandlePrepared, HandleUpdate, HandleQueryStatus, HandleTaken, LoopCheck,
       EnginePut, EngineReport, Still, engineVars
<1> QED
  BY <1>1, <1>2 DEF Batches

LEMMA BatchesAre ==
  ASSUME Ranges, NEW b \in Batches
  PROVE  b \in BatchSet /\ QueryIds(b) \subseteq Queries
<1>1. events \in Seq(EventSet)
  BY DEF Ranges
<1>2. CASE b \in TakenBatches
  <2>1. PICK i \in DOMAIN events : events[i].type = "Taken" /\ b = events[i].batch
    BY <1>2 DEF TakenBatches
  <2>2. events[i] \in EventSet
    BY <1>1, LenProperties, ElementOfSeq
  <2> QED
    BY <2>1, <2>2, EventFields DEF QueryIds, BatchSet, FittingTasks, Tasks
<1>3. CASE b \in {batch, upcoming, next_batch.batch}
  BY <1>3 DEF Ranges, EngineRanges, QueryIds, BatchSet, FittingTasks, Tasks
<1> QED
  BY <1>2, <1>3 DEF Batches

\* The batch that HandleSchedule makes.
LEMMA NewBatch ==
  ASSUME Ranges, HandleSchedule
  PROVE  /\ BatchFor(next_batch'.batch, active_query', plan_status', plan_position')
         /\ \A q \in QueryIds(next_batch'.batch) :
              q \in active_query' /\ plan_status'[q] \in {"Prefill", "Decode"}
<1>1. /\ active_query' \in SUBSET Queries /\ QueryRanges'
      /\ next_batch'.batch = BatchOf(active_query', plan_status', plan_position')
  BY ScheduleEffect
<1>2. /\ plan_status' \in [Queries -> Statuses] /\ plan_position' \in [Queries -> Nat]
      /\ \A q \in Queries : plan_position'[q] <= Prompt[q]
  BY <1>1 DEF QueryRanges
<1>3. BatchFor(next_batch'.batch, active_query', plan_status', plan_position')
  BY <1>1, <1>2, BatchOfIs
<1> QED
  BY <1>3 DEF QueryIds, BatchFor

LEMMA NothingInNoBatch == NoBatch.prefill = {} /\ NoBatch.decode = {} /\ QueryIds(NoBatch) = {}
BY DEF NoBatch, QueryIds

LEMMA MembersStep == LineInv /\ [Next]_vars => Members'
<1> SUFFICES ASSUME LineInv, [Next]_vars, NEW b \in Batches', NEW q \in QueryIds(b) PROVE Begun(q)'
  BY DEF Members
<1>0. Ranges
  BY DEF LineInv
<1>1. CASE b \in Batches
  BY <1>0, <1>1, BatchesAre, BegunStays DEF LineInv, Members
<1>2. CASE b = NoBatch
  BY <1>2, NothingInNoBatch
<1>3. CASE HandleSchedule /\ b = next_batch'.batch
  BY <1>0, <1>3, NewBatch DEF Begun
<1> QED
  BY <1>1, <1>2, <1>3, BatchesStep

-----------------------------------------------------------------------------
(* The line is kept. *)

LEMMA LineInit == Init => LineInv
<1> SUFFICES ASSUME Init PROVE LineInv
  OBVIOUS
<1>1. NoBatch \in BatchSet
  BY DEF NoBatch, BatchSet
<1>2. /\ events = <<>> /\ DOMAIN events = {} /\ events \in Seq(EventSet)
      /\ waiting = <<>> /\ ready_queue = <<>> /\ Len(waiting) = 0 /\ Len(ready_queue) = 0
      /\ waiting \in Seq(Queries) /\ ready_queue \in Seq(Queries)
  BY DEF Init
<1>3. Ranges
  <2>1. QueryRanges
    BY LengthAssumption DEF Init, QueryRanges, Statuses
  <2>2. AdmitRanges
    <3>1. 1 \in Nat \ {0} /\ 0 \in 0..MaxQueries
      BY BoundAssumption
    <3> QED
      BY <1>2, <3>1 DEF Init, AdmitRanges
  <2>3. EngineRanges
    BY <1>1 DEF Init, EngineRanges
  <2> QED
    BY <1>1, <1>2, <2>1, <2>2, <2>3 DEF Init, Ranges
<1>4. Counted
  <2>1. AddsOf(events) = {}
    BY <1>2 DEF AddsOf
  <2>2. Cardinality(AddsOf(events)) = 0
    BY <2>1, FS_EmptySet
  <2>3. requests = 0 /\ query_id_counter = 1
    BY DEF Init
  <2> HIDE DEF Init
  <2> QED
    BY <2>2, <2>3 DEF Counted
<1>5. Preparation
  BY <1>2 DEF Init, Preparation, NoFlight
<1>6. Line
  <2>1. First = 1
    BY <1>2 DEF First, Init
  <2>2. \A q \in Queries : ~Begun(q)
    BY DEF Init, Begun
  <2>3. \A q \in Queries : ~(q < 1)
    BY QueriesAre
  <2> QED
    BY <1>2, <2>1, <2>2, <2>3 DEF Line, Init
<1>7. Members
  <2>1. Batches = {NoBatch}
    BY <1>2 DEF Init, Batches, TakenBatches
  <2> QED
    BY <2>1, NothingInNoBatch DEF Members
<1> QED
  BY <1>3, <1>4, <1>5, <1>6, <1>7 DEF LineInv

THEOREM LineInvariance == Spec => []LineInv
<1>1. LineInv /\ [Next]_vars => LineInv'
  BY RangesStep, CountedStep, PreparationStep, LineStep, MembersStep DEF LineInv
<1> QED
  BY <1>1, LineInit, PTL DEF Spec

(* At any time one query at most is being prepared, as one event or as the *)
(* kept one, and none is forgotten while others wait: the assertion of     *)
(* strategy_prepare that it does not overwrite wait_done_prepare.          *)
THEOREM PreparesOne == Spec => []OnePreparing
<1>1. LineInv => OnePreparing
  <2> SUFFICES ASSUME LineInv PROVE OnePreparing
    OBVIOUS
  <2> DEFINE inFlight == {i \in DOMAIN events : events[i].type \in {"Prepare", "Prepared"}}
  <2>1. Preparation
    BY DEF LineInv
  <2>2. CASE has_query_preparing /\ wait_done_prepare = None
    <3>1. PICK i \in DOMAIN events :
            InFlight(events[i]) /\ \A j \in DOMAIN events : InFlight(events[j]) => j = i
      BY <2>1, <2>2 DEF Preparation, OneFlight
    <3>2. inFlight = {i}
      BY <3>1 DEF InFlight
    <3>3. Cardinality(inFlight) = 1
      BY <3>2, FS_Singleton
    <3> QED
      BY <2>1, <2>2, <3>3 DEF OnePreparing, Preparation
  <2>3. CASE ~has_query_preparing \/ wait_done_prepare # None
    <3>1. inFlight = {}
      BY <2>1, <2>3 DEF Preparation, NoFlight, InFlight
    <3>2. Cardinality(inFlight) = 0
      BY <3>1, FS_EmptySet
    <3> HIDE DEF inFlight
    <3>3. Cardinality(inFlight) + (IF wait_done_prepare = None THEN 0 ELSE 1)
            = (IF has_query_preparing THEN 1 ELSE 0)
      BY <2>1, <2>3, <3>2 DEF Preparation
    <3> QED
      BY <2>1, <3>3 DEF OnePreparing, Preparation, inFlight
  <2> QED
    BY <2>2, <2>3
<1> QED
  BY <1>1, LineInvariance, PTL

(* Queries enter the batches in the order of their ids, however often a    *)
(* prepare fails and is tried again.                                       *)
THEOREM ServedInOrder == Spec => []FirstComeFirstServed
<1>1. LineInv => FirstComeFirstServed
  <2> SUFFICES ASSUME LineInv, NEW q \in Queries, NEW r \in Queries, q < r, Begun(r) PROVE Begun(q)
    BY DEF FirstComeFirstServed, Begun
  <2>1. First \in Int /\ q \in Nat /\ r \in Nat
    BY LineNumbers, QueriesAre
  <2>2. r < First
    BY DEF LineInv, Line
  <2>3. q < First
    BY <2>1, <2>2
  <2> QED
    BY <2>3 DEF LineInv, Line
<1> QED
  BY <1>1, LineInvariance, PTL

-----------------------------------------------------------------------------
(***************************************************************************)
(* The second part is about single queries.  Whatever the pace of the loop,*)
(* the plan and the tasks in the batches are never ahead of what the engine*)
(* will have reached (Behind), a query that fills its prompt is active     *)
(* (Active), whoever waits for a batch has its pages (Loaded) and no two   *)
(* queries hold a page in common (Apart).                                  *)
(*                                                                         *)
(* Of a query no chunk of which was taken again, one chunk at most is taken*)
(* and not yet accounted for, it is of the batch taken last, and the batch *)
(* that waits for the engine would repeat it (Reported); it goes on where  *)
(* the plan stands (Ahead), and the engine's position, with what it still  *)
(* holds, is the plan's (Positions).  So the query is never found done by a*)
(* late update while it fills its prompt (UpdatesSafe), does not come back *)
(* once it is done and keeps its handle until then (Loaded); and when a    *)
(* batch is made it shares no page with a query that runs (Clear).         *)
(***************************************************************************)

\* The tokens of a query's prompt that a batch computes.
Has(b, q)   == \E t \in b.prefill : t.query = q
Takes(b, q) == IF Has(b, q) THEN (CHOOSE t \in b.prefill : t.query = q).length ELSE 0

\* A batch has one task per query, and two at most; who decodes has left prefill.
Made ==
  \A b \in Batches :
    /\ \A t, u \in b.prefill : t.query = u.query => t = u
    /\ \A q \in b.decode : plan_status[q] \in {"Decode", "Done"} /\ ~Has(b, q)
    /\ Cardinality(b.prefill) <= 2

\* What the engine will have reached in a query after the batch that runs, and after the next.
AfterBatch(q)    == active_position[q] + Takes(batch, q)
AfterUpcoming(q) == AfterBatch(q) + Takes(upcoming, q)
Behind ==
  /\ engine \in {"put", "take"} => upcoming = NoBatch
  /\ \A q \in Queries : /\ plan_position[q] <= AfterUpcoming(q)
                        /\ plan_status[q] = "Prefill" => plan_position[q] < Prompt[q]
                        /\ ~Begun(q) => active_position[q] = 0
  /\ \A t \in batch.prefill : t.start <= active_position[t.query]
  /\ \A t \in upcoming.prefill : t.start <= AfterBatch(t.query)
  /\ \A t \in next_batch.batch.prefill : t.start <= AfterUpcoming(t.query)
  /\ \A b \in TakenBatches : \A t \in b.prefill : t.start + t.length <= AfterUpcoming(t.query)

\* The batch taken last, and whether the loop has yet to account for a chunk of a query.
LastTaken       == IF engine \in {"report", "finish"} THEN upcoming ELSE batch
ReportsOn(e, q) == e.type = "Taken" /\ Has(e.batch, q)
Awaits(q)       == \/ engine = "report" /\ Has(upcoming, q)
                   \/ \E i \in DOMAIN events : ReportsOn(events[i], q)
Reported ==
  \A q \in Queries \ repeated :
    /\ engine = "report" /\ Has(upcoming, q) => \A i \in DOMAIN events : ~ReportsOn(events[i], q)
    /\ \A i, j \in DOMAIN events : ReportsOn(events[i], q) /\ ReportsOn(events[j], q) => i = j
    /\ \A i \in DOMAIN events : ReportsOn(events[i], q) => events[i].batch = LastTaken
    /\ Awaits(q) /\ next_batch.fresh => Has(next_batch.batch, q)
Ahead ==
  \A q \in Queries \ repeated : Awaits(q) => \A t \in LastTaken.prefill :
    t.query = q => plan_status[q] = "Prefill" /\ plan_position[q] = t.start
Positions ==
  \A q \in Queries \ repeated :
    /\ plan_status[q] = "Prefill" =>
         AfterUpcoming(q) = plan_position[q] + (IF Awaits(q) THEN Takes(LastTaken, q) ELSE 0)
    /\ \A t \in upcoming.prefill : t.query = q => t.start = AfterBatch(q) /\ q \notin batch.decode
    /\ \A t \in batch.prefill : t.query = q => t.start = active_position[q]

UpdateOf(s, u) == \E i \in DOMAIN s : s[i].type = "Update" /\ u \in s[i].updates
Harmless(u) ==
  /\ Begun(u.query)
  /\ u.query \notin repeated /\ plan_status[u.query] = "Prefill"
       => ~u.decode_done /\ u.active_position < Prompt[u.query]
UpdatesSafe ==
  /\ \A u \in updates : Harmless(u)
  /\ \A i \in DOMAIN events : events[i].type = "Update" => \A u \in events[i].updates : Harmless(u)

Active ==
  /\ \A q \in active_query : Running(q)
  /\ \A q \in Queries : plan_status[q] = "Prefill" => q \in active_query
  /\ \A b \in Batches : \A q \in QueryIds(b) : q \in active_query \/ plan_status[q] = "Done"
  /\ Cardinality(active_query \ repeated) <= MaxBatch
  /\ Cardinality(InPrefill(active_query)) <= MaxPrefill

\* Who has a handle.
Loaded ==
  /\ \A i \in 1..Len(ready_queue) : kvc2_handle[ready_queue[i]]
  /\ \A i \in DOMAIN events : events[i].type = "Prepared" => kvc2_handle[events[i].query]
  /\ \A q \in Queries : plan_status[q] = "Done" => ~kvc2_handle[q]
  /\ \A q \in Queries \ repeated : Running(q) => kvc2_handle[q]
  /\ loop = "crashed" => repeated # {}
Apart == \A q, r \in Queries : q # r => Held(q) \cap Held(r) = {}

Share(q, r) == q # r /\ Running(r) /\ block_index[q] \cap Held(r) # {}
Clear ==
  \A q \in Queries \ repeated, r \in Queries : Share(q, r) =>
    /\ \A b \in Batches : q \in QueryIds(b) => r \notin QueryIds(b)
    /\ q \in QueryIds(batch) => active_position[r] = 0
    /\ q \in QueryIds(upcoming) => active_position[r] = 0 /\ r \notin QueryIds(batch)
    /\ q \notin QueryIds(next_batch.batch)

QueryInv == /\ Made /\ Behind /\ Reported /\ Ahead /\ Positions
            /\ UpdatesSafe /\ Active /\ Loaded /\ Apart /\ Clear

-----------------------------------------------------------------------------
(* Who takes a step, and what becomes of the reports *)

Quiet == UNCHANGED <<queryVars, active_query, next_batch, engineVars>>

LEMMA Steps ==
  ASSUME [Next]_vars
  PROVE  \/ HandleSchedule \/ HandleTaken \/ HandleUpdate \/ HandlePrepareFirst
         \/ EnginePut \/ EngineTake \/ EngineReport \/ EngineFinish
         \/ Quiet
BY StillSteps DEF Next, EventLoop, Engine, AddQuery, HandleAdd, HandlePrepareAgain, HandlePrepared,
   HandleQueryStatus, LoopCheck, Still, Quiet

\* The history only grows, and only when the engine takes a batch.
LEMMA RepeatedGrows ==
  ASSUME [Next]_vars
  PROVE  repeated \subseteq repeated' /\ (~EngineTake => repeated' = repeated)
<1>1. HandleSchedule \/ HandleTaken \/ HandleUpdate \/ HandlePrepareFirst \/ Quiet
        => repeated' = repeated
  BY DEF HandleSchedule, HandleTaken, HandleUpdate, HandlePrepareFirst, Quiet, engineVars
<1>2. EnginePut \/ EngineReport \/ EngineFinish => repeated' = repeated
  BY DEF EnginePut, EngineReport, EngineFinish
<1>3. EngineTake => repeated \subseteq repeated'
  BY DEF EngineTake
<1> QED
  BY <1>1, <1>2, <1>3, Steps

\* An update or a report in the queue was there before, or was made by the engine.
LEMMA EventOrigin ==
  ASSUME LineInv, [Next]_vars
  PROVE  \E d \in {0, 1} : \A i \in DOMAIN events' : events'[i].type \in {"Taken", "Update"} =>
           \/ i \in Nat /\ i + d \in DOMAIN events /\ events'[i] = events[i + d]
           \/ EngineReport /\ i = Len(events) + 1 /\ events'[i] = Taken(upcoming)
           \/ EnginePut /\ events'[i] = Update(updates)
<1> DEFINE From(i, d) ==
      \/ i \in Nat /\ i + d \in DOMAIN events /\ events'[i] = events[i + d]
      \/ EngineReport /\ i = Len(events) + 1 /\ events'[i] = Taken(upcoming)
      \/ EnginePut /\ events'[i] = Update(updates)
           All(d) == \A i \in DOMAIN events' : events'[i].type \in {"Taken", "Update"} => From(i, d)
<1> SUFFICES All(0) \/ All(1)
  OBVIOUS
<1>0. events \in Seq(EventSet) /\ updates \in SUBSET UpdateSet /\ upcoming \in BatchSet
      /\ Len(events) \in Nat /\ DOMAIN events = 1..Len(events)
  BY LenProperties DEF LineInv, Ranges, EngineRanges
<1>1. ASSUME events' = events PROVE All(0)
  BY <1>0, <1>1
<1>2. ASSUME NEW e \in EventSet, events' = Append(events, e),
             \/ e.type \notin {"Taken", "Update"}
             \/ EngineReport /\ e = Taken(upcoming)
             \/ EnginePut /\ e = Update(updates)
      PROVE  All(0)
  <2> SUFFICES ASSUME NEW i \in DOMAIN events', events'[i].type \in {"Taken", "Update"} PROVE From(i, 0)
    OBVIOUS
  <2>1. /\ DOMAIN events' = 1..(Len(events) + 1) /\ \A j \in 1..Len(events) : events'[j] = events[j]
        /\ events'[Len(events) + 1] = e
    BY <1>0, <1>2, Appended
  <2>2. CASE i \in 1..Len(events)
    <3>1. i \in Nat /\ i + 0 = i
      BY <1>0, <2>2
    <3> QED
      BY <1>0, <2>1, <2>2, <3>1
  <2>3. CASE i = Len(events) + 1
    BY <1>2, <2>1, <2>3
  <2> QED
    BY <1>0, <2>1, <2>2, <2>3
<1>3. ASSUME events # <<>>, NEW new \in Seq(EventSet), events' = Tail(events) \o new,
             \A i \in DOMAIN new : new[i].type \in {"Prepare", "Prepared", "QueryStatus"}
      PROVE  All(1)
  <2> SUFFICES ASSUME NEW i \in DOMAIN events', events'[i].type \in {"Taken", "Update"} PROVE From(i, 1)
    OBVIOUS
  <2>1. \/ i + 1 \in DOMAIN events /\ events'[i] = events[i + 1]
        \/ \E j \in DOMAIN new : events'[i] = new[j]
    BY <1>0, <1>3, EventsAfter
  <2>2. DOMAIN events' = 1..(Len(events) - 1 + Len(new)) /\ Len(new) \in Nat
    BY <1>0, <1>3, Enqueued
  <2>3. i \in Nat
    BY <1>0, <2>2
  <2> QED
    BY <1>3, <2>1, <2>3
<1>4. /\ Add \in EventSet /\ Add.type = "Add" /\ Schedule \in EventSet /\ Schedule.type = "Schedule"
      /\ Update(updates) \in EventSet /\ Taken(upcoming) \in EventSet
  BY <1>0, EventsMade DEF Add, Schedule
<1> HIDE DEF All
<1> QED
  BY <1>1, <1>2, <1>3, <1>4, EventsStep

\* A report stays in the queue until it is handled.
LEMMA TakenFate ==
  ASSUME LineInv, [Next]_vars, NEW i \in DOMAIN events, events[i].type = "Taken",
         HandleTaken => i # 1
  PROVE  \E j \in DOMAIN events' : events'[j] = events[i]
<1>0. events \in Seq(EventSet) /\ updates \in SUBSET UpdateSet /\ upcoming \in BatchSet
      /\ Len(events) \in Nat /\ DOMAIN events = 1..Len(events)
  BY LenProperties DEF LineInv, Ranges, EngineRanges
<1>1. CASE events' = events
  BY <1>1
<1>2. ASSUME NEW e \in EventSet, events' = Append(events, e)
      PROVE  \E j \in DOMAIN events' : events'[j] = events[i]
  <2>1. DOMAIN events' = 1..(Len(events) + 1) /\ \A j \in 1..Len(events) : events'[j] = events[j]
    BY <1>0, <1>2, Appended
  <2> QED
    BY <1>0, <2>1
<1>3. ASSUME events # <<>>, loop = "dequeue", EventLoop, ~HandleUpdateCrash,
             NEW new \in Seq(EventSet), events' = Tail(events) \o new
      PROVE  \E j \in DOMAIN events' : events'[j] = events[i]
  <2>1. Head(events).type = "Taken" => HandleTaken
    BY <1>3 DEF EventLoop, HandleAdd, HandlePrepareFirst, HandlePrepareAgain, HandlePrepared,
       HandleUpdate, HandleQueryStatus, HandleSchedule, LoopCheck, Handling
  <2>2. Head(events) = events[1]
    BY <1>0, <1>3, Enqueued
  <2>3. i # 1
    BY <2>1, <2>2
  <2> QED
    BY <1>0, <1>3, <2>3, EventsStay
<1>4. Add \in EventSet /\ Schedule \in EventSet /\ Update(updates) \in EventSet /\ Taken(upcoming) \in EventSet
  BY <1>0, EventsMade
<1> QED
  BY <1>1, <1>2, <1>3, <1>4, EventsStep


-----------------------------------------------------------------------------
(* What a step does to a query *)

LEMMA EnteringNew ==
  ASSUME LineInv, NEW q \in Entering
  PROVE  q \in Queries /\ ~Begun(q) /\ \A b \in Batches : q \notin QueryIds(b)
<1>1. PICK i \in 1..Len(Admitted) : q = ready_queue[i]
  BY EnteringIs DEF LineInv
<1>2. Len(Admitted) \in 0..Len(ready_queue) /\ Len(ready_queue) \in Nat
  BY AdmittedIs DEF LineInv
<1>3. i \in 1..Len(ready_queue) /\ i >= 1
  BY <1>1, <1>2
<1>4. q = First + i - 1
  BY <1>1, <1>3 DEF LineInv, Line
<1>5. q \in Queries /\ First \in Int
  BY EnteringIs, LineNumbers DEF LineInv
<1>6. ~(q < First)
  BY <1>3, <1>4, <1>5
<1>7. ~Begun(q)
  BY <1>5, <1>6 DEF LineInv, Line
<1> QED
  BY <1>5, <1>7 DEF LineInv, Members

\* A query begins, decodes and is done; only a report can take it back to decoding.
LEMMA StatusStep ==
  ASSUME LineInv, [Next]_vars, NEW q \in Queries
  PROVE  \/ plan_status'[q] = plan_status[q]
         \/ HandlePrepareFirst /\ ~Begun(q) /\ ~Begun(q)'
         \/ HandleSchedule /\ ~Begun(q) /\ q \in Entering /\ plan_status'[q] = "Prefill"
         \/ /\ HandleTaken /\ Begun(q) /\ plan_status'[q] = "Decode"
            /\ Has(Head(events).batch, q)
         \/ HandleUpdate /\ Running(q) /\ plan_status'[q] = "Done"
<1>0. Ranges /\ plan_status \in [Queries -> Statuses]
  BY DEF LineInv, Ranges, QueryRanges
<1>1. CASE HandleSchedule
  <2>1. plan_status'[q] = IF q \in Entering THEN "Prefill" ELSE plan_status[q]
    BY <1>0, <1>1, ScheduleEffect
  <2> QED
    BY <1>1, <2>1, EnteringNew
<1>2. CASE HandleTaken
  <2>1. \/ plan_status'[q] = plan_status[q]
        \/ /\ plan_status'[q] \in {plan_status[q], "Decode"}
           /\ \E t \in Head(events).batch.prefill : t.query = q
    BY <1>0, <1>2, TakenEffect
  <2>2. Has(Head(events).batch, q) => Begun(q)
    BY <1>0, <1>2, TakenEffect, TakenBegun DEF Has, QueryIds
  <2> QED
    BY <1>2, <2>1, <2>2 DEF Has
<1>3. CASE HandleUpdate
  <2>1. plan_status'[q] = IF q \in FinishedBy(Head(events).updates) THEN "Done" ELSE plan_status[q]
    BY <1>3 DEF HandleUpdate
  <2>2. q \in FinishedBy(Head(events).updates) => Running(q)
    BY DEF FinishedBy
  <2> QED
    BY <1>3, <2>1, <2>2
<1>4. CASE HandlePrepareFirst
  <2>1. ~Begun(Head(events).query)
    BY <1>4, HeadIsCurrent DEF HandlePrepareFirst, Handling, InFlight
  <2>2. plan_status' = [plan_status EXCEPT ![Head(events).query] = "Preparing"]
    BY <1>4 DEF HandlePrepareFirst
  <2>3. q # Head(events).query => plan_status'[q] = plan_status[q]
    BY <1>0, <2>2
  <2>4. q = Head(events).query => plan_status'[q] = "Preparing"
    BY <1>0, <2>2
  <2> QED
    BY <1>4, <2>1, <2>3, <2>4 DEF Begun
<1>5. CASE UNCHANGED plan_status
  BY <1>5
<1> QED
  BY <1>1, <1>2, <1>3, <1>4, <1>5, Steps DEF EnginePut, EngineTake, EngineReport, EngineFinish,
     Quiet, queryVars

\* Pages are given to a query that has not begun, from those that are free.
LEMMA PagesStep ==
  ASSUME LineInv, [Next]_vars, NEW q \in Queries
  PROVE  \/ block_index'[q] = block_index[q]
         \/ HandlePrepareFirst /\ ~Begun(q) /\ q = Head(events).query /\ block_index'[q] \subseteq FreePages
<1>0. Ranges /\ block_index \in [Queries -> SUBSET Pages]
  BY DEF LineInv, Ranges, QueryRanges
<1>1. CASE HandleSchedule
  BY <1>1 DEF HandleSchedule
<1>2. CASE HandleTaken
  BY <1>2 DEF HandleTaken
<1>3. CASE HandlePrepareFirst
  <2>1. ~Begun(Head(events).query)
    BY <1>3, HeadIsCurrent DEF HandlePrepareFirst, Handling, InFlight
  <2>2. \/ block_index' = block_index
        \/ block_index' = [block_index EXCEPT ![Head(events).query] = LowestFree(Need[Head(events).query])]
    BY <1>3 DEF HandlePrepareFirst
  <2>3. \A n : LowestFree(n) \subseteq FreePages
    BY DEF LowestFree
  <2> QED
    BY <1>0, <1>3, <2>1, <2>2, <2>3
<1>4. CASE HandleUpdate \/ EnginePut \/ EngineTake \/ EngineReport \/ EngineFinish \/ Quiet
  BY <1>4 DEF HandleUpdate, EnginePut, EngineTake, EngineReport, EngineFinish, Quiet, queryVars
<1> QED
  BY <1>1, <1>2, <1>3, <1>4, Steps

\* A handle comes with the pages, and goes when the query is found done.
LEMMA HandleStep ==
  ASSUME LineInv, [Next]_vars, NEW q \in Queries
  PROVE  \/ kvc2_handle'[q] = kvc2_handle[q]
         \/ HandlePrepareFirst /\ ~Begun(q) /\ q = Head(events).query /\ kvc2_handle'[q]
         \/ HandleUpdate /\ Running(q) /\ plan_status'[q] = "Done" /\ ~kvc2_handle'[q]
<1>0. Ranges /\ kvc2_handle \in [Queries -> BOOLEAN]
  BY DEF LineInv, Ranges, QueryRanges
<1>1. CASE HandlePrepareFirst
  <2>1. ~Begun(Head(events).query)
    BY <1>1, HeadIsCurrent DEF HandlePrepareFirst, Handling, InFlight
  <2>2. \/ kvc2_handle' = kvc2_handle
        \/ kvc2_handle' = [kvc2_handle EXCEPT ![Head(events).query] = TRUE]
    BY <1>1 DEF HandlePrepareFirst
  <2> QED
    BY <1>0, <1>1, <2>1, <2>2
<1>2. CASE HandleUpdate
  <2> DEFINE done == FinishedBy(Head(events).updates)
  <2>1. /\ kvc2_handle' = [r \in Queries |-> kvc2_handle[r] /\ r \notin done]
        /\ plan_status' = [r \in Queries |-> IF r \in done THEN "Done" ELSE plan_status[r]]
    BY <1>2 DEF HandleUpdate
  <2>2. q \in done => Running(q)
    BY DEF FinishedBy
  <2> HIDE DEF done
  <2>3. CASE q \in done
    BY <1>2, <2>1, <2>2, <2>3
  <2>4. CASE q \notin done
    <3>1. kvc2_handle'[q] <=> kvc2_handle[q]
      BY <2>1, <2>4
    <3>2. kvc2_handle'[q] \in BOOLEAN /\ kvc2_handle[q] \in BOOLEAN
      BY <1>0, <2>1
    <3> QED
      BY <3>1, <3>2
  <2> QED
    BY <2>3, <2>4
<1>3. CASE HandleSchedule \/ HandleTaken
  BY <1>3 DEF HandleSchedule, HandleTaken
<1>4. CASE EnginePut \/ EngineTake \/ EngineReport \/ EngineFinish \/ Quiet
  BY <1>4 DEF EnginePut, EngineTake, EngineReport, EngineFinish, Quiet, queryVars
<1> QED
  BY <1>1, <1>2, <1>3, <1>4, Steps

LEMMA TakesIs ==
  ASSUME NEW b \in BatchSet
  PROVE  /\ \A q : Takes(b, q) \in Nat
         /\ \A q : q \notin QueryIds(b) => Takes(b, q) = 0
         /\ (\A t, u \in b.prefill : t.query = u.query => t = u)
              => \A t \in b.prefill : Takes(b, t.query) = t.length
         /\ \A q \in QueryIds(b) \ b.decode :
              Takes(b, q) = (CHOOSE t \in b.prefill : t.query = q).length
<1>1. ASSUME NEW q, \E t \in b.prefill : t.query = q
      PROVE  (CHOOSE t \in b.prefill : t.query = q) \in {t \in b.prefill : t.query = q}
  BY <1>1, TaskOf
<1>2. \A t \in b.prefill : t.length \in Nat
  BY DEF BatchSet, FittingTasks, Tasks
<1>3. \A q : (\E t \in b.prefill : t.query = q) => Takes(b, q) = (CHOOSE t \in b.prefill : t.query = q).length
  BY DEF Takes, Has
<1>4. \A q : ~(\E t \in b.prefill : t.query = q) => Takes(b, q) = 0
  BY DEF Takes, Has
<1>5. ASSUME NEW q PROVE Takes(b, q) \in Nat
  <2>1. CASE \E t \in b.prefill : t.query = q
    <3>1. PICK u : u = CHOOSE t \in b.prefill : t.query = q
      OBVIOUS
    <3>2. u \in b.prefill /\ Takes(b, q) = u.length
      BY <1>1, <1>3, <2>1, <3>1
    <3> QED
      BY <1>2, <3>2
  <2>2. CASE ~\E t \in b.prefill : t.query = q
    BY <1>4, <2>2
  <2> QED
    BY <2>1, <2>2
<1>6. ASSUME NEW q, q \notin QueryIds(b) PROVE Takes(b, q) = 0
  BY <1>4, <1>6 DEF QueryIds
<1>7. ASSUME \A t, u \in b.prefill : t.query = u.query => t = u, NEW t \in b.prefill
      PROVE  Takes(b, t.query) = t.length
  <2>1. PICK v : v = CHOOSE w \in b.prefill : w.query = t.query
    OBVIOUS
  <2>2. v \in {w \in b.prefill : w.query = t.query} /\ Takes(b, t.query) = v.length
    BY <1>1, <1>3, <2>1
  <2> QED
    BY <1>7, <2>2
<1>8. ASSUME NEW q \in QueryIds(b) \ b.decode
      PROVE  Takes(b, q) = (CHOOSE t \in b.prefill : t.query = q).length
  BY <1>3 DEF QueryIds
<1> QED
  BY <1>5, <1>6, <1>7, <1>8

\* What the loop accounts for moves the plan to the end of the task.
LEMMA TakenOf ==
  ASSUME Ranges, HandleTaken, NEW q \in Queries
  PROVE  \/ /\ plan_status'[q] = plan_status[q] /\ plan_position'[q] = plan_position[q]
            /\ Takes(Head(events).batch, q) = 0
         \/ \E t \in Head(events).batch.prefill :
              /\ t.query = q /\ t.length = Takes(Head(events).batch, q)
              /\ plan_position'[q] = t.start + t.length
              /\ plan_status'[q] = IF plan_position'[q] = Prompt[q] THEN "Decode" ELSE plan_status[q]
<1> DEFINE b == Head(events).batch
           task(r) == CHOOSE t \in b.prefill : t.query = r
           planned == {t.query : t \in {t \in b.prefill : t.length # 0}}
<1>1. b \in BatchSet
  BY TakenEffect
<1>a. QueryRanges
  BY DEF Ranges
<1>2. /\ plan_position'[q] = IF q \in planned THEN task(q).start + task(q).length ELSE plan_position[q]
      /\ plan_status'[q] = IF q \in planned /\ task(q).start + task(q).length = Prompt[q]
                           THEN "Decode" ELSE plan_status[q]
  BY DEF HandleTaken
<1>3. CASE \E t \in b.prefill : t.query = q
  <2>1. PICK t : t = task(q)
    OBVIOUS
  <2>2. t \in b.prefill /\ t.query = q
    BY <1>1, <1>3, <2>1, TaskOf
  <2>3. t.length = Takes(b, q)
    BY <1>3, <2>1 DEF Takes, Has
  <2>4. CASE q \in planned
    <3>1. /\ plan_position'[q] = t.start + t.length
          /\ plan_status'[q] = IF t.start + t.length = Prompt[q] THEN "Decode" ELSE plan_status[q]
      BY <1>2, <2>1, <2>4
    <3> QED
      BY <2>2, <2>3, <3>1
  <2>5. CASE q \notin planned
    <3>1. t.length = 0
      BY <2>2, <2>5
    <3> QED
      BY <1>2, <2>3, <2>5, <3>1
  <2> QED
    BY <2>4, <2>5
<1>4. CASE ~\E t \in b.prefill : t.query = q
  <2>1. q \notin planned /\ Takes(b, q) = 0
    BY <1>4 DEF Takes, Has
  <2> HIDE DEF planned, task
  <2> QED
    BY <1>2, <2>1
<1> QED
  BY <1>3, <1>4

\* The loop handles one event at a time.
LEMMA HandlersApart ==
  /\ ~(HandleUpdate /\ HandleSchedule) /\ ~(HandleUpdate /\ HandleTaken)
  /\ ~(HandleTaken /\ HandleSchedule)
BY DEF HandleUpdate, HandleSchedule, HandleTaken, Handling

\* Only the end of a batch moves the engine.
LEMMA EngineStill ==
  ASSUME [Next]_vars
  PROVE  /\ ~EngineFinish => UNCHANGED <<batch, active_position, updates>>
         /\ ~EngineFinish /\ ~EngineTake => upcoming' = upcoming
         /\ EngineFinish => batch' = upcoming /\ upcoming' = NoBatch
         /\ EngineTake => upcoming' = next_batch.batch
         /\ EngineTake \/ EngineFinish \/ EnginePut \/ EngineReport
              => UNCHANGED <<plan_status, plan_position, kvc2_handle, block_index, active_query>>
         /\ ~HandleSchedule /\ ~EngineTake => next_batch' = next_batch
<1>1. HandleSchedule \/ HandleTaken \/ HandleUpdate \/ HandlePrepareFirst \/ Quiet
        => UNCHANGED <<batch, active_position, updates, upcoming>>
  BY DEF HandleSchedule, HandleTaken, HandleUpdate, HandlePrepareFirst, Quiet, engineVars
<1>2. HandleTaken \/ HandleUpdate \/ HandlePrepareFirst \/ Quiet => next_batch' = next_batch
  BY DEF HandleTaken, HandleUpdate, HandlePrepareFirst, Quiet
<1>3. /\ EngineTake \/ EnginePut \/ EngineReport => UNCHANGED <<batch, active_position, updates>>
      /\ EnginePut \/ EngineReport => upcoming' = upcoming
      /\ EnginePut \/ EngineReport \/ EngineFinish => next_batch' = next_batch
      /\ EngineFinish => batch' = upcoming /\ upcoming' = NoBatch
      /\ EngineTake => upcoming' = next_batch.batch
  BY DEF EngineTake, EnginePut, EngineReport, EngineFinish
<1>4. EngineTake \/ EngineFinish \/ EnginePut \/ EngineReport
        => UNCHANGED <<plan_status, plan_position, kvc2_handle, block_index, active_query>>
  BY DEF EngineTake, EnginePut, EngineReport, EngineFinish, queryVars
<1> QED
  BY <1>1, <1>2, <1>3, <1>4, Steps

\* The members of a batch are queries that have begun.
LEMMA MembersBegun ==
  ASSUME LineInv
  PROVE  /\ \A b \in Batches : \A q \in QueryIds(b) : q \in Queries /\ Begun(q)
         /\ batch \in Batches /\ upcoming \in Batches /\ LastTaken \in Batches
         /\ next_batch.batch \in Batches /\ \A b \in Batches : b \in BatchSet
         /\ \A b \in Batches : \A t \in b.prefill : t.query \in QueryIds(b)
         /\ \A b \in TakenBatches : b \in Batches
BY BatchesAre DEF LineInv, Members, Batches, LastTaken, QueryIds

-----------------------------------------------------------------------------
(* The reports on one query *)

LEMMA HeadOfTaken ==
  ASSUME LineInv, HandleTaken
  PROVE  /\ Head(events) = events[1] /\ 1 \in DOMAIN events /\ Head(events).type = "Taken"
         /\ Head(events).batch \in Batches /\ DOMAIN events' \subseteq Nat \ {0}
         /\ UNCHANGED <<engine, batch, upcoming, next_batch, repeated>>
         /\ \A i \in DOMAIN events' : i + 1 \in DOMAIN events /\ events'[i] = events[i + 1]
<1>1. /\ events # <<>> /\ Head(events).type = "Taken" /\ events' = Tail(events) \o <<>>
      /\ events \in Seq(EventSet) /\ <<>> \in Seq(EventSet) /\ DOMAIN <<>> = {}
  BY TakenEffect, OneEvent DEF LineInv, Ranges
<1>2. /\ Head(events) = events[1] /\ Len(events) \in Nat \ {0} /\ DOMAIN events = 1..Len(events)
      /\ DOMAIN events' = 1..(Len(events) - 1 + Len(<<>>)) /\ Len(<<>>) \in Nat
  BY <1>1, Enqueued
<1>3. 1 \in DOMAIN events /\ DOMAIN events' \subseteq Nat \ {0}
  BY <1>2
<1>4. Head(events).batch \in Batches
  BY <1>1, <1>2, <1>3 DEF Batches, TakenBatches
<1>5. UNCHANGED <<engine, batch, upcoming, next_batch, repeated>>
  BY DEF HandleTaken, engineVars
<1>6. \A i \in DOMAIN events' : i + 1 \in DOMAIN events /\ events'[i] = events[i + 1]
  BY <1>1, EventsAfter
<1> QED
  BY <1>1, <1>2, <1>3, <1>4, <1>5, <1>6

LEMMA AwaitsLast ==
  ASSUME Reported, NEW q \in Queries \ repeated, Awaits(q)
  PROVE  Has(LastTaken, q)
BY DEF Reported, Awaits, ReportsOn, LastTaken

\* The loop accounts for the chunk of a query: it was of the batch taken last.
LEMMA ReportHandled ==
  ASSUME LineInv, Reported, HandleTaken, NEW q \in Queries \ repeated,
         Has(Head(events).batch, q)
  PROVE  /\ Awaits(q) /\ ~Awaits(q)'
         /\ Head(events).batch = LastTaken /\ LastTaken' = LastTaken
<1>1. ReportsOn(events[1], q) /\ 1 \in DOMAIN events
  BY HeadOfTaken DEF ReportsOn
<1>2. Awaits(q) /\ Head(events).batch = LastTaken
  BY <1>1, HeadOfTaken DEF Awaits, Reported
<1>3. ~(engine = "report" /\ Has(upcoming, q))
  BY <1>1 DEF Reported
<1>4. ASSUME NEW i \in DOMAIN events', ReportsOn(events'[i], q) PROVE FALSE
  <2>1. i + 1 \in DOMAIN events /\ events'[i] = events[i + 1] /\ i \in Nat \ {0}
    BY HeadOfTaken
  <2>2. i + 1 = 1
    BY <1>1, <1>4, <2>1 DEF Reported
  <2> QED
    BY <2>1, <2>2
<1>5. ReportsOn(events[1], q)' <=> ReportsOn(events'[1], q)
  BY DEF ReportsOn, Has
<1>6. ~Awaits(q)'
  <2>1. engine' = engine /\ upcoming' = upcoming
    BY HeadOfTaken
  <2>2. Awaits(q)' <=> \/ engine' = "report" /\ Has(upcoming', q)
                       \/ \E i \in DOMAIN events' : ReportsOn(events'[i], q)
    BY DEF Awaits, ReportsOn, Has
  <2> QED
    BY <1>3, <1>4, <2>1, <2>2
<1> QED
  BY <1>2, <1>6, HeadOfTaken DEF LastTaken

\* Between a batch that is taken and its report nothing is forgotten of a query.
LEMMA AwaitsStep ==
  ASSUME LineInv, Reported, [Next]_vars, NEW q \in Queries \ repeated'
  PROVE  /\ q \in Queries \ repeated
         /\ EngineTake => /\ ~Awaits(q) /\ LastTaken' = next_batch.batch
                          /\ Awaits(q)' <=> Has(next_batch.batch, q)
                          /\ \A t \in next_batch.batch.prefill : t.query = q =>
                               plan_status[q] = "Prefill" /\ plan_position[q] = t.start
         /\ ~EngineTake => LastTaken' = LastTaken
         /\ ~EngineTake /\ ~(HandleTaken /\ Has(Head(events).batch, q))
              => (Awaits(q)' <=> Awaits(q))
<1>0. q \in Queries \ repeated
  BY RepeatedGrows
<1>a. Awaits(q)' <=> \/ engine' = "report" /\ Has(upcoming', q)
                     \/ \E i \in DOMAIN events' : ReportsOn(events'[i], q)
  BY DEF Awaits, ReportsOn, Has
<1>1. ASSUME EngineTake
      PROVE  /\ ~Awaits(q) /\ LastTaken' = next_batch.batch
             /\ Awaits(q)' <=> Has(next_batch.batch, q)
             /\ \A t \in next_batch.batch.prefill : t.query = q =>
                  plan_status[q] = "Prefill" /\ plan_position[q] = t.start
  <2>1. /\ engine = "take" /\ next_batch.fresh /\ engine' = "report" /\ events' = events
        /\ upcoming' = next_batch.batch
        /\ repeated' = repeated \cup {t.query : t \in {t \in next_batch.batch.prefill : ~GoesOn(t)}}
    BY <1>1 DEF EngineTake
  <2>2. ASSUME NEW t \in next_batch.batch.prefill, t.query = q
        PROVE  /\ plan_status[q] = "Prefill" /\ plan_position[q] = t.start
               /\ \A i \in DOMAIN events : ~ReportsOn(events[i], q)
    <3>1. GoesOn(t)
      BY <2>1, <2>2
    <3> QED
      BY <2>2, <3>1 DEF GoesOn, ReportsOn, Has
  <2>3. ~Awaits(q)
    <3>1. CASE Has(next_batch.batch, q)
      BY <2>1, <2>2, <3>1 DEF Has, Awaits
    <3>2. CASE ~Has(next_batch.batch, q)
      BY <1>0, <2>1, <3>2 DEF Reported
    <3> QED
      BY <3>1, <3>2
  <2>4. Awaits(q)' <=> Has(next_batch.batch, q)
    BY <1>a, <2>1, <2>3 DEF Awaits
  <2> QED
    BY <2>1, <2>2, <2>3, <2>4 DEF LastTaken
<1>2. ASSUME ~EngineTake
      PROVE  \/ EnginePut /\ engine = "put" /\ engine' = "take" /\ UNCHANGED <<batch, upcoming>>
             \/ EngineReport /\ engine = "report" /\ engine' = "finish" /\ UNCHANGED <<batch, upcoming>>
             \/ EngineFinish /\ engine = "finish" /\ engine' = "put" /\ batch' = upcoming
             \/ ~EnginePut /\ ~EngineReport /\ ~EngineFinish /\ UNCHANGED <<engine, batch, upcoming>>
  <2>1. HandleSchedule \/ HandleTaken \/ HandleUpdate \/ HandlePrepareFirst \/ Quiet
          => engine' = engine /\ batch' = batch /\ upcoming' = upcoming
    BY DEF HandleSchedule, HandleTaken, HandleUpdate, HandlePrepareFirst, Quiet, engineVars
  <2>2. /\ EnginePut => engine = "put" /\ engine' = "take" /\ UNCHANGED <<batch, upcoming>>
        /\ EngineReport => engine = "report" /\ engine' = "finish" /\ UNCHANGED <<batch, upcoming>>
        /\ EngineFinish => engine = "finish" /\ engine' = "put" /\ batch' = upcoming
    BY DEF EnginePut, EngineReport, EngineFinish
  <2> QED
    BY <1>2, <2>1, <2>2, Steps
<1>3. ~EngineTake => LastTaken' = LastTaken
  BY <1>2 DEF LastTaken
<1>4. ASSUME ~EngineTake, ~(HandleTaken /\ Has(Head(events).batch, q))
      PROVE  Awaits(q)' <=> Awaits(q)
  <2>1. ASSUME NEW i \in DOMAIN events, ReportsOn(events[i], q)
        PROVE  \E j \in DOMAIN events' : ReportsOn(events'[j], q)
    <3>1. HandleTaken => i # 1
      BY <1>4, <2>1, HeadOfTaken DEF ReportsOn
    <3>2. \E j \in DOMAIN events' : events'[j] = events[i]
      BY <2>1, <3>1, TakenFate DEF ReportsOn
    <3> QED
      BY <2>1, <3>2
  <2>2. CASE EngineReport
    <3>1. events' = Append(events, Taken(upcoming)) /\ events \in Seq(EventSet) /\ Taken(upcoming) \in EventSet
      BY <2>2, EventsMade DEF EngineReport, LineInv, Ranges, EngineRanges
    <3>2. /\ Len(events) + 1 \in DOMAIN events' /\ events'[Len(events) + 1] = Taken(upcoming)
          /\ \A i \in DOMAIN events' : \/ i \in DOMAIN events /\ events'[i] = events[i]
                                       \/ events'[i] = Taken(upcoming)
      <4>1. /\ DOMAIN events = 1..Len(events) /\ DOMAIN events' = 1..(Len(events) + 1)
            /\ \A i \in 1..Len(events) : events'[i] = events[i]
            /\ events'[Len(events) + 1] = Taken(upcoming) /\ Len(events) \in Nat
        BY <3>1, Appended
      <4> QED
        BY <4>1
    <3>3. ReportsOn(Taken(upcoming), q) <=> Has(upcoming, q)
      BY DEF ReportsOn, Taken
    <3>4. engine = "report" /\ engine' = "finish"
      BY <2>2 DEF EngineReport
    <3> QED
      BY <1>a, <2>1, <3>2, <3>3, <3>4 DEF Awaits
  <2>3. CASE ~EngineReport
    <3>1. engine' = "report" <=> engine = "report"
      BY <1>2, <1>4, <2>3
    <3>2. engine = "report" => upcoming' = upcoming
      BY <1>2, <1>4, <2>3
    <3>3. ASSUME NEW i \in DOMAIN events', ReportsOn(events'[i], q)
          PROVE  \E j \in DOMAIN events : ReportsOn(events[j], q)
      <4>1. \A us : Update(us).type # "Taken"
        BY DEF Update
      <4>2. \E j \in DOMAIN events : events'[i] = events[j]
        BY <2>3, <3>3, <4>1, EventOrigin DEF ReportsOn
      <4> QED
        BY <3>3, <4>2
    <3> QED
      BY <1>a, <2>1, <3>1, <3>2, <3>3 DEF Awaits
  <2> QED
    BY <2>2, <2>3
<1> QED
  BY <1>0, <1>1, <1>3, <1>4

LEMMA ReportedStep ==
  ASSUME LineInv, Reported, Ahead, Active, [Next]_vars
  PROVE  Reported'
<1> SUFFICES ASSUME NEW q \in Queries \ repeated'
             PROVE  /\ engine' = "report" /\ Has(upcoming', q)
                         => \A i \in DOMAIN events' : ~ReportsOn(events'[i], q)
                    /\ \A i, j \in DOMAIN events' :
                         ReportsOn(events'[i], q) /\ ReportsOn(events'[j], q) => i = j
                    /\ \A i \in DOMAIN events' : ReportsOn(events'[i], q) => events'[i].batch = LastTaken'
                    /\ Awaits(q)' /\ next_batch'.fresh => Has(next_batch'.batch, q)
  BY DEF Reported, ReportsOn, Has
<1>0. q \in Queries \ repeated
  BY RepeatedGrows
<1>1. PICK d \in {0, 1} : \A i \in DOMAIN events' : ReportsOn(events'[i], q) =>
        \/ i \in Nat /\ i + d \in DOMAIN events /\ events'[i] = events[i + d]
        \/ EngineReport /\ i = Len(events) + 1 /\ events'[i] = Taken(upcoming)
  <2>1. \A us : Update(us).type # "Taken"
    BY DEF Update
  <2> QED
    BY <2>1, EventOrigin DEF ReportsOn
<1>2. EngineTake => /\ \A i \in DOMAIN events' : ~ReportsOn(events'[i], q)
                    /\ ~next_batch'.fresh
  <2>1. EngineTake => events' = events /\ ~next_batch'.fresh
    BY DEF EngineTake, LineInv, Ranges
  <2> QED
    BY <2>1, AwaitsStep DEF Awaits
<1>3. EngineReport => /\ engine = "report" /\ engine' = "finish" /\ LastTaken = upcoming
                      /\ Has(upcoming, q) => \A i \in DOMAIN events : ~ReportsOn(events[i], q)
  BY <1>0 DEF EngineReport, Reported, LastTaken
<1>4. ReportsOn(Taken(upcoming), q) => Has(upcoming, q)
  BY DEF ReportsOn, Taken
<1>5. ASSUME engine' = "report", Has(upcoming', q), NEW i \in DOMAIN events', ReportsOn(events'[i], q)
      PROVE  FALSE
  <2>1. ~EngineTake /\ ~EngineReport
    BY <1>2, <1>3, <1>5
  <2>2. engine = "report" /\ upcoming' = upcoming
    <3>1. HandleSchedule \/ HandleTaken \/ HandleUpdate \/ HandlePrepareFirst \/ Quiet
            => engine' = engine /\ upcoming' = upcoming
      BY DEF HandleSchedule, HandleTaken, HandleUpdate, HandlePrepareFirst, Quiet, engineVars
    <3>2. EnginePut \/ EngineFinish => engine' # "report"
      BY DEF EnginePut, EngineFinish
    <3> QED
      BY <1>5, <2>1, <3>1, <3>2, Steps
  <2> QED
    BY <1>0, <1>1, <1>5, <2>1, <2>2 DEF Reported
<1>6. ASSUME NEW i \in DOMAIN events', NEW j \in DOMAIN events',
             ReportsOn(events'[i], q), ReportsOn(events'[j], q)
      PROVE  i = j
  <2>1. CASE EngineReport /\ Has(upcoming, q)
    BY <1>1, <1>3, <1>6, <2>1
  <2>2. CASE ~(EngineReport /\ Has(upcoming, q))
    <3>1. /\ i \in Nat /\ i + d \in DOMAIN events /\ ReportsOn(events[i + d], q)
          /\ j \in Nat /\ j + d \in DOMAIN events /\ ReportsOn(events[j + d], q)
      BY <1>1, <1>4, <1>6, <2>2
    <3>2. i + d = j + d
      BY <1>0, <3>1 DEF Reported
    <3> QED
      BY <3>1, <3>2
  <2> QED
    BY <2>1, <2>2
<1>7. ASSUME NEW i \in DOMAIN events', ReportsOn(events'[i], q) PROVE events'[i].batch = LastTaken'
  <2>1. LastTaken' = LastTaken
    BY <1>2, <1>7, AwaitsStep
  <2>2. CASE EngineReport /\ events'[i] = Taken(upcoming)
    BY <1>3, <2>1, <2>2 DEF Taken
  <2>3. CASE i + d \in DOMAIN events /\ events'[i] = events[i + d]
    BY <1>0, <1>7, <2>1, <2>3 DEF Reported
  <2> QED
    BY <1>1, <1>7, <2>2, <2>3
<1>8. ASSUME Awaits(q)', next_batch'.fresh PROVE Has(next_batch'.batch, q)
  <2>1. ~EngineTake
    BY <1>2, <1>8
  <2>2. Awaits(q)
    BY <1>0, <1>8, <2>1, AwaitsStep, ReportHandled
  <2>3. CASE HandleSchedule
    <3>1. plan_status[q] = "Prefill" /\ q \in active_query
      BY <1>0, <2>2, AwaitsLast DEF Ahead, Has, Active
    <3>2. q \in active_query' /\ plan_status'[q] = "Prefill"
      BY <1>0, <2>3, <3>1, ScheduleEffect DEF LineInv
    <3> QED
      BY <2>3, <3>2, NewBatch DEF BatchFor, Has, LineInv
  <2>4. CASE ~HandleSchedule
    BY <1>0, <1>8, <2>1, <2>2, <2>4, EngineStill DEF Reported
  <2> QED
    BY <2>3, <2>4
<1> QED
  BY <1>5, <1>6, <1>7, <1>8

-----------------------------------------------------------------------------
(* The active queries and the batches made of them *)

\* The queries that enter are as many as were admitted.
LEMMA EnteringCount ==
  ASSUME LineInv
  PROVE  /\ IsFiniteSet(Entering) /\ Cardinality(Entering) \in Nat
         /\ Cardinality(Entering) <= Len(Admitted)
<1>1. Entering = {ready_queue[i] : i \in 1..Len(Admitted)} /\ Entering \in SUBSET Queries
  BY EnteringIs DEF LineInv
<1>2. Len(Admitted) \in Nat
  BY AdmittedIs DEF LineInv
<1> DEFINE f == [i \in 1..Len(Admitted) |-> ready_queue[i]]
<1>3. f \in Surjection(1..Len(Admitted), Entering)
  BY <1>1 DEF Surjection
<1> HIDE DEF f
<1>4. Cardinality(Entering) <= Len(Admitted)
  BY <1>2, <1>3, FS_SurjCardinalityBound DEF ExistsSurjection
<1> QED
  BY <1>1, <1>4, QueriesFinite

\* Only a query of which a chunk was taken again comes back, and it decodes then.
LEMMA ReturnRepeated ==
  ASSUME LineInv, Reported, Ahead, Active, HandleTaken, NEW q \in active_query' \ active_query
  PROVE  q \in repeated /\ plan_status'[q] = "Decode"
<1>0. [Next]_vars
  BY DEF Next, EventLoop
<1>1. /\ q \in QueryIds(Head(events).batch) /\ plan_status'[q] # "Done"
      /\ Head(events).batch \in Batches
  BY TakenEffect, HeadOfTaken DEF LineInv
<1>2. q \in Queries /\ plan_status[q] = "Done"
  BY <1>1, MembersBegun DEF Active
<1>3. plan_status'[q] = "Decode" /\ Has(Head(events).batch, q)
  BY <1>0, <1>1, <1>2, StatusStep DEF Begun
<1>4. q \in repeated
  BY <1>2, <1>3, ReportHandled DEF Ahead, Has
<1> QED
  BY <1>3, <1>4

LEMMA ActiveStep ==
  ASSUME LineInv, Reported, Ahead, Active, [Next]_vars
  PROVE  Active'
<1>0. Ranges /\ active_query \in SUBSET Queries /\ active_query' \in SUBSET Queries
      /\ repeated \subseteq repeated'
  <2>1. Ranges'
    BY RangesStep
  <2> QED
    BY <2>1, RepeatedGrows DEF LineInv, Ranges
<1>1. \/ HandleSchedule /\ active_query' = active_query \cup Entering
      \/ HandleUpdate /\ active_query' = {q \in active_query : plan_status'[q] # "Done"}
      \/ HandleTaken /\ active_query' = active_query
           \cup {q \in QueryIds(Head(events).batch) : plan_status'[q] # "Done"}
      \/ ~HandleUpdate /\ ~HandleSchedule /\ ~HandleTaken /\ active_query' = active_query
  <2>1. HandleSchedule => active_query' = active_query \cup Entering
    BY <1>0, ScheduleEffect
  <2>2. HandleTaken => active_query' = active_query
           \cup {q \in QueryIds(Head(events).batch) : plan_status'[q] # "Done"}
    BY <1>0, TakenEffect
  <2>3. HandleUpdate => active_query' = {q \in active_query : plan_status'[q] # "Done"}
    BY DEF HandleUpdate
  <2>4. HandlePrepareFirst \/ EnginePut \/ EngineTake \/ EngineReport \/ EngineFinish \/ Quiet
          => active_query' = active_query
    BY DEF HandlePrepareFirst, EnginePut, EngineTake, EngineReport, EngineFinish, Quiet
  <2> QED
    BY <2>1, <2>2, <2>3, <2>4, Steps
<1>2. ASSUME NEW q \in active_query'
      PROVE  /\ Running(q)' /\ (plan_status'[q] = "Prefill" => q \in InPrefill(active_query) \/ q \in Entering)
             /\ q \notin repeated' => q \in (active_query \ repeated) \/ q \in Entering
  <2>1. q \in Queries
    BY <1>0
  <2>2. CASE q \in active_query
    <3>1. Running(q)
      BY <2>2 DEF Active
    <3>2. HandleUpdate => plan_status'[q] # "Done"
      BY <1>1, <1>2, HandlersApart
    <3> QED
      BY <1>0, <2>1, <2>2, <3>1, <3>2, StatusStep DEF Running, Begun, InPrefill
  <2>3. CASE q \in Entering /\ HandleSchedule
    BY <1>0, <2>1, <2>3, ScheduleEffect DEF Running
  <2>4. CASE q \notin active_query /\ HandleTaken
    BY <1>0, <1>2, <2>4, ReturnRepeated DEF Running
  <2> QED
    BY <1>1, <1>2, <2>2, <2>3, <2>4
<1>3. ASSUME NEW b \in Batches', NEW q \in QueryIds(b)
      PROVE  q \in active_query' \/ plan_status'[q] = "Done"
  <2>1. CASE b \in Batches
    <3>1. q \in Queries /\ (q \in active_query \/ plan_status[q] = "Done")
      BY <1>0, <2>1, BatchesAre DEF Active
    <3>2. plan_status[q] = "Done" =>
            plan_status'[q] = "Done" \/ (HandleTaken /\ q \in QueryIds(Head(events).batch))
      BY <3>1, StatusStep DEF Begun, Has, QueryIds
    <3> QED
      BY <1>1, <3>1, <3>2, HandlersApart
  <2>2. CASE b = NoBatch
    BY <2>2, NothingInNoBatch
  <2>3. CASE HandleSchedule /\ b = next_batch'.batch
    BY <1>0, <2>3, NewBatch
  <2> QED
    BY <2>1, <2>2, <2>3, BatchesStep
<1>4. ASSUME NEW q \in Queries, plan_status'[q] = "Prefill" PROVE q \in active_query'
  <2>1. CASE HandleSchedule /\ q \in Entering
    BY <1>0, <2>1, ScheduleEffect
  <2>2. CASE ~(HandleSchedule /\ q \in Entering)
    <3>1. q \in active_query
      BY <1>4, <2>2, StatusStep DEF Active, Begun
    <3> QED
      BY <1>1, <1>4, <3>1
  <2> QED
    BY <2>1, <2>2
<1> DEFINE P == InPrefill(active_query)
           A == active_query \ repeated
<1>5. /\ IsFiniteSet(A) /\ IsFiniteSet(P) /\ Cardinality(A) \in Nat /\ Cardinality(P) \in Nat
      /\ Cardinality(A) <= MaxBatch /\ Cardinality(P) <= MaxPrefill
      /\ Cardinality(active_query) \in Nat /\ Cardinality(A) <= Cardinality(active_query)
  <2>1. P \in SUBSET Queries /\ A \in SUBSET Queries /\ A \in SUBSET active_query
    BY <1>0 DEF InPrefill
  <2> QED
    BY <1>0, <2>1, QueriesFinite, FS_Subset DEF Active
<1>6. /\ IsFiniteSet(Entering) /\ Cardinality(Entering) \in Nat /\ Cardinality(Entering) <= Len(Admitted)
      /\ Len(Admitted) \in Nat
      /\ Len(Admitted) > 0 => Cardinality(P) + Len(Admitted) <= MaxPrefill
                              /\ Cardinality(active_query) + Len(Admitted) <= MaxBatch
  BY <1>0, EnteringCount, AdmittedIs
<1> HIDE DEF P, A
<1>7. MaxBatch \in Nat /\ MaxPrefill \in Nat
  BY BatchAssumption
<1>8. /\ Cardinality(A \cup Entering) <= MaxBatch /\ Cardinality(P \cup Entering) <= MaxPrefill
      /\ IsFiniteSet(A \cup Entering) /\ IsFiniteSet(P \cup Entering)
  <2>1. \A S, T : IsFiniteSet(S) /\ IsFiniteSet(T) =>
          /\ IsFiniteSet(S \cup T)
          /\ Cardinality(S \cup T) = Cardinality(S) + Cardinality(T) - Cardinality(S \cap T)
    BY FS_Union
  <2>2. A \cap Entering \in SUBSET A /\ P \cap Entering \in SUBSET P
    OBVIOUS
  <2>3. Cardinality(A \cap Entering) \in Nat /\ Cardinality(P \cap Entering) \in Nat
    BY <1>5, <2>2, FS_Subset, FS_CardinalityType
  <2>4. /\ IsFiniteSet(A \cup Entering) /\ IsFiniteSet(P \cup Entering)
        /\ Cardinality(A \cup Entering) = Cardinality(A) + Cardinality(Entering) - Cardinality(A \cap Entering)
        /\ Cardinality(P \cup Entering) = Cardinality(P) + Cardinality(Entering) - Cardinality(P \cap Entering)
    BY <1>5, <1>6, <2>1
  <2>5. CASE Len(Admitted) > 0
    BY <1>5, <1>6, <1>7, <2>3, <2>4, <2>5
  <2>6. CASE Len(Admitted) = 0
    BY <1>5, <1>6, <1>7, <2>3, <2>4, <2>6
  <2> QED
    BY <1>6, <2>4, <2>5, <2>6
<1> DEFINE A1 == active_query' \ repeated'
           P1 == InPrefill(active_query)'
<1>9. A1 \in SUBSET (A \cup Entering) /\ P1 \in SUBSET (P \cup Entering)
  BY <1>2 DEF A, P, InPrefill
<1> HIDE DEF A1, P1
<1>10. /\ IsFiniteSet(A1) /\ Cardinality(A1) <= Cardinality(A \cup Entering)
       /\ IsFiniteSet(P1) /\ Cardinality(P1) <= Cardinality(P \cup Entering)
  BY <1>8, <1>9, FS_Subset
<1>11. /\ Cardinality(A1) \in Nat /\ Cardinality(P1) \in Nat
       /\ Cardinality(A \cup Entering) \in Nat /\ Cardinality(P \cup Entering) \in Nat
  BY <1>8, <1>10, FS_CardinalityType
<1>12. Cardinality(A1) <= MaxBatch /\ Cardinality(P1) <= MaxPrefill
  BY <1>7, <1>8, <1>10, <1>11
<1>13. \A b \in Batches' : QueryIds(b)' = QueryIds(b)
  BY DEF QueryIds
<1> QED
  BY <1>2, <1>3, <1>4, <1>12, <1>13 DEF Active, A1, P1

LEMMA MadeStep ==
  ASSUME LineInv, Made, Active', [Next]_vars
  PROVE  Made'
<1> SUFFICES ASSUME NEW b \in Batches'
             PROVE  /\ \A t, u \in b.prefill : t.query = u.query => t = u
                    /\ \A q \in b.decode : plan_status'[q] \in {"Decode", "Done"} /\ ~Has(b, q)
                    /\ Cardinality(b.prefill) <= 2
  BY DEF Made, Has
<1>1. CASE b \in Batches
  <2>1. ASSUME NEW q \in b.decode PROVE plan_status'[q] \in {"Decode", "Done"}
    <3>1. q \in Queries /\ plan_status[q] \in {"Decode", "Done"}
      BY <1>1, MembersBegun DEF Made, QueryIds
    <3> QED
      BY <3>1, StatusStep DEF Begun
  <2> QED
    BY <1>1, <2>1 DEF Made
<1>2. CASE b = NoBatch
  <2>1. Cardinality({}) = 0 /\ 0 <= 2
    BY FS_EmptySet
  <2> QED
    BY <1>2, <2>1, NothingInNoBatch
<1>3. CASE HandleSchedule /\ b = next_batch'.batch
  <2>1. BatchFor(b, active_query', plan_status', plan_position')
    BY <1>3, NewBatch DEF LineInv
  <2> DEFINE T == InPrefill(active_query)'
             f == [t \in b.prefill |-> t.query]
  <2>2. f \in Injection(b.prefill, T)
    <3>1. \A t \in b.prefill : t.query \in T
      BY <2>1 DEF BatchFor, InPrefill
    <3>2. \A t, u \in b.prefill : t.query = u.query => t = u
      BY <2>1 DEF BatchFor
    <3> HIDE DEF T
    <3> QED
      BY <3>1, <3>2 DEF Injection, IsInjective
  <2>3. IsFiniteSet(T) /\ Cardinality(T) \in Nat /\ Cardinality(T) <= 2
    <3>1. Ranges'
      BY RangesStep
    <3>2. T \in SUBSET Queries
      BY <3>1 DEF Ranges, InPrefill
    <3>3. Cardinality(T) <= MaxPrefill
      BY DEF Active
    <3> HIDE DEF T
    <3>4. IsFiniteSet(T) /\ Cardinality(T) \in Nat
      BY <3>2, QueriesFinite
    <3> QED
      BY <3>3, <3>4, BatchAssumption
  <2> HIDE DEF T, f
  <2>4. IsFiniteSet(b.prefill) /\ Cardinality(b.prefill) <= Cardinality(T)
    BY <2>2, <2>3, FS_Injection
  <2>5. Cardinality(b.prefill) <= 2
    BY <2>3, <2>4, FS_CardinalityType
  <2>6. \A q \in b.decode : plan_status'[q] \in {"Decode", "Done"} /\ ~Has(b, q)
    BY <2>1 DEF BatchFor, Has
  <2> QED
    BY <2>1, <2>5, <2>6 DEF BatchFor
<1> QED
  BY <1>1, <1>2, <1>3, BatchesStep

-----------------------------------------------------------------------------
(* Plan, engine and device, whatever was repeated *)

LEMMA PositionStep ==
  ASSUME LineInv, [Next]_vars, NEW q \in Queries
  PROVE  \/ plan_position'[q] = plan_position[q]
         \/ HandleSchedule /\ q \in Entering /\ plan_position'[q] = 0
         \/ /\ HandleTaken
            /\ \E t \in Head(events).batch.prefill :
                 t.query = q /\ plan_position'[q] = t.start + t.length
<1>1. CASE HandleSchedule
  <2>1. plan_position'[q] = IF q \in Entering THEN 0 ELSE plan_position[q]
    BY <1>1, ScheduleEffect DEF LineInv
  <2> QED
    BY <1>1, <2>1
<1>2. CASE HandleTaken
  BY <1>2, TakenEffect DEF LineInv
<1>3. CASE ~HandleSchedule /\ ~HandleTaken
  BY <1>3, Steps DEF HandleUpdate, HandlePrepareFirst, EnginePut, EngineTake, EngineReport,
     EngineFinish, Quiet, queryVars
<1> QED
  BY <1>1, <1>2, <1>3

\* What the device has done for a query that it did not decode.
LEMMA FinishAdvances ==
  ASSUME LineInv, EngineFinish, NEW q \in Queries, q \notin batch.decode
  PROVE  active_position'[q] = active_position[q] + Takes(batch, q)
<1>1. batch \in BatchSet /\ active_position \in [Queries -> Nat]
  BY DEF LineInv, Ranges, EngineRanges
<1>2. active_position'[q] = IF q \in QueryIds(batch) THEN Advanced(q) ELSE active_position[q]
  BY FinishEffect DEF LineInv
<1>3. CASE q \in QueryIds(batch)
  BY <1>1, <1>2, <1>3, TakesIs DEF Advanced
<1>4. CASE q \notin QueryIds(batch)
  <2>1. Takes(batch, q) = 0
    BY <1>1, <1>4, TakesIs
  <2> QED
    BY <1>1, <1>2, <1>4, <2>1
<1> QED
  BY <1>3, <1>4

\* The tokens of the batches are numbers, and an empty batch has none.
LEMMA TakesNat ==
  ASSUME LineInv
  PROVE  /\ batch \in BatchSet /\ upcoming \in BatchSet /\ next_batch.batch \in BatchSet
         /\ LastTaken \in {batch, upcoming}
         /\ active_position \in [Queries -> Nat] /\ plan_position \in [Queries -> Nat]
         /\ \A q : /\ Takes(batch, q) \in Nat /\ Takes(upcoming, q) \in Nat
                   /\ Takes(LastTaken, q) \in Nat /\ Takes(next_batch.batch, q) \in Nat
         /\ \A q : Takes(NoBatch, q) = 0
<1>1. /\ batch \in BatchSet /\ upcoming \in BatchSet /\ next_batch.batch \in BatchSet
      /\ LastTaken \in {batch, upcoming}
      /\ active_position \in [Queries -> Nat] /\ plan_position \in [Queries -> Nat]
  BY DEF LineInv, Ranges, QueryRanges, EngineRanges, LastTaken
<1>2. NoBatch \in BatchSet /\ \A q : q \notin QueryIds(NoBatch)
  BY NothingInNoBatch DEF NoBatch, BatchSet
<1> QED
  BY <1>1, <1>2, TakesIs

\* What the engine will have reached never shrinks.
LEMMA ReachStep ==
  ASSUME LineInv, Made, Behind, [Next]_vars, NEW q \in Queries
  PROVE  /\ active_position'[q] >= active_position[q]
         /\ AfterBatch(q)' >= AfterBatch(q) /\ AfterUpcoming(q)' >= AfterUpcoming(q)
         /\ EngineFinish => active_position'[q] >= AfterBatch(q) /\ AfterBatch(q)' >= AfterUpcoming(q)
         /\ EngineTake => AfterUpcoming(q) = AfterBatch(q)
         /\ active_position[q] \in Nat /\ AfterBatch(q) \in Nat /\ AfterUpcoming(q) \in Nat
         /\ active_position'[q] \in Nat /\ AfterBatch(q)' \in Nat /\ AfterUpcoming(q)' \in Nat
<1> DEFINE A0 == active_position[q]  T1 == Takes(batch, q)   T2 == Takes(upcoming, q)
           B0 == active_position'[q] U1 == Takes(batch', q)  U2 == Takes(upcoming', q)
<1>1. /\ AfterBatch(q) = A0 + T1 /\ AfterUpcoming(q) = A0 + T1 + T2
      /\ AfterBatch(q)' = B0 + U1 /\ AfterUpcoming(q)' = B0 + U1 + U2
  BY DEF AfterBatch, AfterUpcoming
<1>2. A0 \in Nat /\ T1 \in Nat /\ T2 \in Nat /\ Takes(NoBatch, q) = 0
      /\ Takes(next_batch.batch, q) \in Nat
  BY TakesNat
<1>3. CASE EngineTake
  <2>1. /\ upcoming = NoBatch /\ upcoming' = next_batch.batch
        /\ batch' = batch /\ active_position' = active_position /\ ~EngineFinish
    BY <1>3 DEF EngineTake, EngineFinish, Behind
  <2> QED
    BY <1>1, <1>2, <2>1
<1>4. CASE EngineFinish
  <2>1. batch' = upcoming /\ upcoming' = NoBatch /\ ~EngineTake
    BY <1>4 DEF EngineFinish, EngineTake
  <2>2. B0 >= A0 + T1 /\ B0 \in Nat
    <3>1. CASE q \in batch.decode
      <4>1. T1 = 0
        BY <3>1 DEF Made, Batches, Takes
      <4>2. B0 = Advanced(q)
        BY <1>4, <3>1, FinishEffect DEF LineInv, QueryIds
      <4>3. Advanced(q) = A0 + 1
        BY <3>1 DEF Advanced
      <4> QED
        BY <1>2, <4>1, <4>2, <4>3
    <3>2. CASE q \notin batch.decode
      BY <1>2, <1>4, <3>2, FinishAdvances
    <3> QED
      BY <3>1, <3>2
  <2> QED
    BY <1>1, <1>2, <2>1, <2>2
<1>5. CASE ~EngineTake /\ ~EngineFinish
  <2>1. batch' = batch /\ upcoming' = upcoming /\ active_position' = active_position
    BY <1>5, EngineStill
  <2> QED
    BY <1>1, <1>2, <1>5, <2>1
<1> QED
  BY <1>3, <1>4, <1>5

LEMMA BehindStep ==
  ASSUME LineInv, Made, Behind, [Next]_vars
  PROVE  Behind'
<1>0. /\ plan_position \in [Queries -> Nat] /\ \A q \in Queries : plan_position'[q] <= Prompt[q]
      /\ plan_position' \in [Queries -> Nat] /\ Prompt \in [Queries -> Nat \ {0}]
  <2>1. Ranges /\ Ranges'
    BY RangesStep DEF LineInv
  <2> QED
    BY <2>1, LengthAssumption DEF Ranges, QueryRanges
<1>1. engine' \in {"put", "take"} => upcoming' = NoBatch
  <2>1. CASE EngineFinish
    BY <2>1 DEF EngineFinish
  <2>2. CASE EnginePut \/ EngineTake \/ EngineReport
    BY <2>2 DEF EnginePut, EngineTake, EngineReport, Behind
  <2>3. HandleSchedule \/ HandleTaken \/ HandleUpdate \/ HandlePrepareFirst \/ Quiet
          => engine' = engine /\ upcoming' = upcoming
    BY DEF HandleSchedule, HandleTaken, HandleUpdate, HandlePrepareFirst, Quiet, engineVars
  <2> QED
    BY <2>1, <2>2, <2>3, Steps DEF Behind
<1>2. ASSUME NEW q \in Queries
      PROVE  plan_position'[q] <= AfterUpcoming(q)'
  <2>1. plan_position'[q] = 0 \/ plan_position'[q] <= AfterUpcoming(q)
    <3>1. CASE plan_position'[q] = plan_position[q]
      BY <3>1 DEF Behind
    <3>2. CASE HandleTaken /\ \E t \in Head(events).batch.prefill :
                 t.query = q /\ plan_position'[q] = t.start + t.length
      <4>1. Head(events).batch \in TakenBatches
        BY <3>2, HeadOfTaken DEF TakenBatches
      <4> QED
        BY <3>2, <4>1 DEF Behind
    <3> QED
      BY <3>1, <3>2, PositionStep
  <2> QED
    BY <1>0, <2>1, ReachStep
<1>3. ASSUME NEW q \in Queries, plan_status'[q] = "Prefill"
      PROVE  plan_position'[q] < Prompt[q]
  <2>1. CASE HandleSchedule /\ q \in Entering
    BY <1>0, <2>1, ScheduleEffect DEF LineInv
  <2>2. CASE ~(HandleSchedule /\ q \in Entering)
    <3>1. plan_position[q] < Prompt[q]
      BY <1>3, <2>2, StatusStep DEF Behind, Begun
    <3>2. CASE HandleTaken
      <4>1. plan_position'[q] = plan_position[q] \/ plan_position'[q] # Prompt[q]
        BY <1>3, <3>2, TakenOf DEF LineInv
      <4> QED
        BY <1>0, <3>1, <4>1
    <3>3. CASE ~HandleTaken
      BY <2>2, <3>1, <3>3, PositionStep
    <3> QED
      BY <3>2, <3>3
  <2> QED
    BY <2>1, <2>2
<1>4. ASSUME NEW q \in Queries, ~Begun(q)' PROVE active_position'[q] = 0
  <2>1. ~Begun(q) /\ active_position[q] = 0
    BY <1>4, BegunStays DEF Behind
  <2>2. q \notin QueryIds(batch)
    BY <2>1, MembersBegun
  <2>3. CASE EngineFinish
    BY <2>1, <2>2, <2>3, FinishEffect DEF LineInv
  <2>4. CASE ~EngineFinish
    BY <2>1, <2>4, EngineStill
  <2> QED
    BY <2>3, <2>4
<1>a. \A b \in Batches : \A t \in b.prefill : t.query \in Queries /\ t.start \in Nat /\ t.length \in Nat
  <2>1. \A b \in Batches : b \in BatchSet
    BY MembersBegun
  <2> QED
    BY <2>1 DEF BatchSet, FittingTasks, Tasks
<1>5. ASSUME NEW t \in batch'.prefill PROVE t.start <= active_position'[t.query]
  <2>1. CASE EngineFinish
    <3>1. t \in upcoming.prefill /\ t.query \in Queries /\ t.start \in Nat
      BY <1>5, <1>a, <2>1, EngineStill, MembersBegun
    <3>2. t.start <= AfterBatch(t.query)
      BY <3>1 DEF Behind
    <3> QED
      BY <2>1, <3>1, <3>2, ReachStep
  <2>2. CASE ~EngineFinish
    BY <1>5, <2>2, EngineStill DEF Behind
  <2> QED
    BY <2>1, <2>2
<1>6. ASSUME NEW t \in upcoming'.prefill PROVE t.start <= AfterBatch(t.query)'
  <2>1. CASE EngineTake
    <3>1. t \in next_batch.batch.prefill /\ t.query \in Queries /\ t.start \in Nat
      BY <1>6, <1>a, <2>1, EngineStill, MembersBegun
    <3>2. t.start <= AfterUpcoming(t.query)
      BY <3>1 DEF Behind
    <3> QED
      BY <2>1, <3>1, <3>2, ReachStep
  <2>2. CASE EngineFinish
    BY <1>6, <2>2, EngineStill, NothingInNoBatch
  <2>3. CASE ~EngineTake /\ ~EngineFinish
    <3>1. t \in upcoming.prefill /\ t.query \in Queries /\ t.start \in Nat
      BY <1>6, <1>a, <2>3, EngineStill, MembersBegun
    <3>2. t.start <= AfterBatch(t.query)
      BY <3>1 DEF Behind
    <3> QED
      BY <3>1, <3>2, ReachStep
  <2> QED
    BY <2>1, <2>2, <2>3
<1>7. ASSUME NEW t \in next_batch'.batch.prefill PROVE t.start <= AfterUpcoming(t.query)'
  <2>1. CASE HandleSchedule
    <3>1. t.query \in Queries /\ t.start = plan_position'[t.query]
      BY <1>7, <2>1, NewBatch DEF BatchFor, LineInv, FittingTasks, Tasks
    <3> QED
      BY <1>2, <3>1
  <2>2. CASE ~HandleSchedule
    <3>1. next_batch'.batch = next_batch.batch
      BY <2>2, EngineStill DEF EngineTake, LineInv, Ranges
    <3>2. t \in next_batch.batch.prefill /\ t.query \in Queries /\ t.start \in Nat
      BY <1>7, <1>a, <3>1, MembersBegun
    <3>3. t.start <= AfterUpcoming(t.query)
      BY <3>2 DEF Behind
    <3> QED
      BY <3>2, <3>3, ReachStep
  <2> QED
    BY <2>1, <2>2
<1>8. ASSUME NEW b \in TakenBatches', NEW t \in b.prefill
      PROVE  t.start + t.length <= AfterUpcoming(t.query)'
  <2>1. PICK i \in DOMAIN events' : events'[i].type = "Taken" /\ b = events'[i].batch
    BY DEF TakenBatches
  <2>2. \/ \E j \in DOMAIN events : events'[i] = events[j]
        \/ events'[i] = Taken(upcoming)
    <3>1. \A us : Update(us).type # "Taken"
      BY DEF Update
    <3> QED
      BY <2>1, <3>1, EventOrigin
  <2>3. b \in TakenBatches \/ b = upcoming
    BY <2>1, <2>2 DEF TakenBatches, Taken
  <2>4. t.query \in Queries /\ t.start \in Nat /\ t.length \in Nat
    BY <1>a, <2>3, MembersBegun
  <2>5. t.start + t.length <= AfterUpcoming(t.query)
    <3>1. CASE b \in TakenBatches
      BY <3>1 DEF Behind
    <3>2. CASE b = upcoming
      <4>1. t.start <= AfterBatch(t.query)
        BY <3>2 DEF Behind
      <4>2. Takes(upcoming, t.query) = t.length
        BY <3>2, TakesIs, MembersBegun DEF Made
      <4>3. AfterBatch(t.query) \in Nat
        BY <2>4, ReachStep
      <4> QED
        BY <2>4, <4>1, <4>2, <4>3 DEF AfterUpcoming
    <3> QED
      BY <2>3, <3>1, <3>2
  <2> QED
    BY <2>4, <2>5, ReachStep
<1> QED
  BY <1>1, <1>2, <1>3, <1>4, <1>5, <1>6, <1>7, <1>8 DEF Behind

-----------------------------------------------------------------------------
(* A query no chunk of which was taken again *)

\* What is handed in finds no such query done while it fills its prompt.
LEMMA NotFinished ==
  ASSUME LineInv, UpdatesSafe, HandleUpdate, NEW q \in FinishedBy(Head(events).updates),
         q \notin repeated
  PROVE  q \in Queries /\ plan_status[q] = "Decode"
<1>1. /\ events \in Seq(EventSet) /\ events # <<>> /\ Head(events).type = "Update"
  BY DEF HandleUpdate, Handling, LineInv, Ranges
<1>2. /\ Head(events) = events[1] /\ Head(events) \in EventSet /\ 1 \in DOMAIN events
  <2>1. Head(events) = events[1] /\ Head(events) \in EventSet /\ Len(events) \in Nat \ {0} /\ DOMAIN events = 1..Len(events)
    BY <1>1, Enqueued, OneEvent
  <2> QED
    BY <2>1
<1>3. PICK u \in Head(events).updates :
        /\ u.query = q /\ Running(q)
        /\ u.decode_done \/ u.active_position = Estimated[q] - 1
  BY DEF FinishedBy
<1>4. u \in UpdateSet
  BY <1>1, <1>2, <1>3, EventFields
<1>5. q \in Queries /\ u.active_position \in Nat
  BY <1>3, <1>4 DEF UpdateSet
<1>6. Harmless(u)
  BY <1>1, <1>2 DEF UpdatesSafe
<1>7. Prompt[q] \in Nat /\ Estimated[q] \in Nat /\ Prompt[q] + 1 <= Estimated[q]
  BY <1>5, LengthAssumption
<1>8. plan_status[q] # "Prefill"
  BY <1>3, <1>5, <1>6, <1>7 DEF Harmless
<1> QED
  BY <1>3, <1>5, <1>8 DEF Running

\* It begins, fills its prompt, decodes and is done, and never goes back.
LEMMA OnceStep ==
  ASSUME LineInv, Reported, Ahead, UpdatesSafe, [Next]_vars, NEW q \in Queries \ repeated'
  PROVE  \/ plan_status'[q] = plan_status[q]
         \/ HandlePrepareFirst /\ ~Begun(q) /\ ~Begun(q)'
         \/ HandleSchedule /\ ~Begun(q) /\ q \in Entering /\ plan_status'[q] = "Prefill"
         \/ HandleTaken /\ plan_status[q] = "Prefill" /\ plan_status'[q] = "Decode"
         \/ HandleUpdate /\ plan_status[q] = "Decode" /\ plan_status'[q] = "Done"
<1>0. q \in Queries \ repeated
  BY RepeatedGrows
<1>1. ASSUME HandleTaken, Has(Head(events).batch, q) PROVE plan_status[q] = "Prefill"
  BY <1>0, <1>1, ReportHandled DEF Ahead, Has
<1>2. ASSUME HandleUpdate, plan_status'[q] # plan_status[q] PROVE plan_status[q] = "Decode"
  <2>1. q \in FinishedBy(Head(events).updates)
    BY <1>2 DEF HandleUpdate
  <2> QED
    BY <1>0, <1>2, <2>1, NotFinished
<1> QED
  BY <1>1, <1>2, StatusStep

LEMMA AheadStep ==
  ASSUME LineInv, Reported, Ahead, UpdatesSafe, [Next]_vars
  PROVE  Ahead'
<1> SUFFICES ASSUME NEW q \in Queries \ repeated', Awaits(q)', NEW t \in LastTaken'.prefill, t.query = q
             PROVE  plan_status'[q] = "Prefill" /\ plan_position'[q] = t.start
  BY DEF Ahead
<1>0. q \in Queries \ repeated
  BY RepeatedGrows
<1>1. CASE EngineTake
  BY <1>1, AwaitsStep, EngineStill
<1>2. CASE ~EngineTake
  <2>1. ~(HandleTaken /\ Has(Head(events).batch, q))
    BY <1>0, ReportHandled
  <2>2. Awaits(q) /\ LastTaken' = LastTaken
    BY <1>2, <2>1, AwaitsStep
  <2>3. plan_status[q] = "Prefill" /\ plan_position[q] = t.start /\ Begun(q)
    BY <1>0, <2>2 DEF Ahead, Begun
  <2>4. plan_status'[q] = "Prefill"
    BY <1>0, <2>1, <2>3, StatusStep, OnceStep DEF Begun
  <2>5. plan_position'[q] = plan_position[q]
    BY <1>0, <2>1, <2>3, PositionStep, EnteringNew DEF Has
  <2> QED
    BY <2>3, <2>4, <2>5
<1> QED
  BY <1>1, <1>2

LEMMA PositionsStep ==
  ASSUME LineInv, Reported, Made, Ahead, Behind, Positions, UpdatesSafe, [Next]_vars
  PROVE  Positions'
<1> SUFFICES ASSUME NEW q \in Queries \ repeated'
             PROVE  /\ plan_status'[q] = "Prefill" =>
                         AfterUpcoming(q)' = plan_position'[q] + (IF Awaits(q)' THEN Takes(LastTaken', q) ELSE 0)
                    /\ \A t \in upcoming'.prefill : t.query = q =>
                         t.start = AfterBatch(q)' /\ q \notin batch'.decode
                    /\ \A t \in batch'.prefill : t.query = q => t.start = active_position'[q]
  BY DEF Positions
<1>0. q \in Queries \ repeated /\ q \in Queries
  BY RepeatedGrows
<1> DEFINE A0 == active_position[q]  T1 == Takes(batch, q)   T2 == Takes(upcoming, q)
           B0 == active_position'[q] U1 == Takes(batch', q)  U2 == Takes(upcoming', q)
<1>1. /\ AfterBatch(q) = A0 + T1 /\ AfterUpcoming(q) = A0 + T1 + T2
      /\ AfterBatch(q)' = B0 + U1 /\ AfterUpcoming(q)' = B0 + U1 + U2
  BY DEF AfterBatch, AfterUpcoming
<1>2. A0 \in Nat /\ T1 \in Nat /\ T2 \in Nat /\ Takes(NoBatch, q) = 0
      /\ Takes(next_batch.batch, q) \in Nat /\ Takes(LastTaken, q) \in Nat /\ plan_position[q] \in Nat
  BY <1>0, TakesNat
<1>3. ASSUME NEW t \in upcoming'.prefill, t.query = q
      PROVE  t.start = AfterBatch(q)' /\ q \notin batch'.decode
  <2>1. CASE EngineTake
    <3>1. /\ t \in next_batch.batch.prefill /\ upcoming = NoBatch
          /\ batch' = batch /\ active_position' = active_position
      BY <1>3, <2>1 DEF EngineTake, Behind
    <3>2. plan_status[q] = "Prefill" /\ plan_position[q] = t.start /\ ~Awaits(q)
      BY <1>3, <2>1, <3>1, AwaitsStep
    <3>3. AfterUpcoming(q) = plan_position[q] + 0
      BY <1>0, <3>2 DEF Positions
    <3>4. q \notin batch.decode
      BY <3>2, MembersBegun DEF Made
    <3> QED
      BY <1>1, <1>2, <3>1, <3>2, <3>3, <3>4
  <2>2. CASE EngineFinish
    BY <1>3, <2>2, EngineStill, NothingInNoBatch
  <2>3. CASE ~EngineTake /\ ~EngineFinish
    <3>1. batch' = batch /\ upcoming' = upcoming /\ active_position' = active_position
      BY <2>3, EngineStill
    <3> QED
      BY <1>0, <1>1, <1>3, <3>1 DEF Positions
  <2> QED
    BY <2>1, <2>2, <2>3
<1>4. ASSUME NEW t \in batch'.prefill, t.query = q PROVE t.start = active_position'[q]
  <2>1. CASE EngineFinish
    <3>1. t \in upcoming.prefill
      BY <1>4, <2>1, EngineStill
    <3>2. t.start = A0 + T1 /\ q \notin batch.decode
      BY <1>0, <1>1, <1>4, <3>1 DEF Positions
    <3> QED
      BY <1>0, <2>1, <3>2, FinishAdvances
  <2>2. CASE ~EngineFinish
    BY <1>0, <1>4, <2>2, EngineStill DEF Positions
  <2> QED
    BY <2>1, <2>2
<1>5. ASSUME plan_status'[q] = "Prefill"
      PROVE  B0 + U1 + U2 = plan_position'[q] + (IF Awaits(q)' THEN Takes(LastTaken', q) ELSE 0)
  <2>1. CASE HandleSchedule /\ q \in Entering
    <3>1. ~Begun(q) /\ active_position[q] = 0 /\ q \notin QueryIds(batch) /\ q \notin QueryIds(upcoming)
      BY <1>0, <2>1, EnteringNew, MembersBegun DEF Behind
    <3>2. T1 = 0 /\ T2 = 0 /\ Takes(LastTaken, q) = 0
      BY <3>1, TakesNat, TakesIs
    <3>3. plan_position'[q] = 0
      BY <1>0, <2>1, ScheduleEffect DEF LineInv
    <3>4. ~EngineTake /\ ~EngineFinish
      BY <2>1, <3>1, <1>5, EngineStill DEF Begun
    <3>5. batch' = batch /\ upcoming' = upcoming /\ LastTaken' = LastTaken /\ active_position' = active_position
      BY <3>4, EngineStill, AwaitsStep
    <3> QED
      BY <3>1, <3>2, <3>3, <3>5
  <2>2. CASE ~(HandleSchedule /\ q \in Entering)
    <3>1. plan_status[q] = "Prefill"
      BY <1>0, <1>5, <2>2, StatusStep DEF Begun
    <3>2. A0 + T1 + T2 = plan_position[q] + (IF Awaits(q) THEN Takes(LastTaken, q) ELSE 0)
      BY <1>0, <1>1, <3>1 DEF Positions
    <3>3. CASE EngineTake
      <4>1. upcoming = NoBatch /\ batch' = batch /\ active_position' = active_position
        BY <3>3 DEF EngineTake, Behind
      <4>2. /\ ~Awaits(q) /\ LastTaken' = next_batch.batch /\ upcoming' = next_batch.batch
            /\ Awaits(q)' <=> Has(next_batch.batch, q)
            /\ plan_position' = plan_position
        BY <3>3, EngineStill, AwaitsStep
      <4>3. ~Has(next_batch.batch, q) => Takes(next_batch.batch, q) = 0
        BY DEF Takes
      <4> QED
        BY <1>2, <3>2, <4>1, <4>2, <4>3
    <3>4. CASE EngineFinish
      <4>1. q \notin batch.decode
        BY <3>1, MembersBegun DEF Made
      <4>2. B0 = A0 + T1
        BY <1>0, <3>4, <4>1, FinishAdvances
      <4>3. /\ batch' = upcoming /\ upcoming' = NoBatch /\ plan_position' = plan_position
            /\ ~EngineTake /\ ~HandleTaken
        <5>1. ~EngineTake
          BY <3>4 DEF EngineFinish, EngineTake
        <5>2. ~HandleTaken
          BY <3>4 DEF EngineFinish, HandleTaken, engineVars
        <5> QED
          BY <3>4, <5>1, <5>2, EngineStill
      <4>4. LastTaken' = LastTaken /\ (Awaits(q)' <=> Awaits(q))
        BY <4>3, AwaitsStep
      <4> QED
        BY <1>2, <3>2, <4>2, <4>3, <4>4
    <3>5. CASE ~EngineTake /\ ~EngineFinish
      <4>1. /\ batch' = batch /\ upcoming' = upcoming /\ active_position' = active_position
            /\ LastTaken' = LastTaken
        BY <3>5, EngineStill, AwaitsStep
      <4>2. CASE HandleTaken /\ Has(Head(events).batch, q)
        <5>1. Awaits(q) /\ ~Awaits(q)' /\ Head(events).batch = LastTaken
          BY <1>0, <4>2, ReportHandled
        <5>2. plan_position'[q] = plan_position[q] + Takes(LastTaken, q)
          <6>1. CASE /\ plan_position'[q] = plan_position[q] /\ Takes(Head(events).batch, q) = 0
            BY <1>2, <5>1, <6>1
          <6>2. CASE \E t \in Head(events).batch.prefill :
                       /\ t.query = q /\ t.length = Takes(Head(events).batch, q)
                       /\ plan_position'[q] = t.start + t.length
            BY <1>0, <5>1, <6>2 DEF Ahead
          <6> QED
            BY <1>0, <4>2, <6>1, <6>2, TakenOf DEF LineInv
        <5> QED
          BY <1>2, <3>2, <4>1, <5>1, <5>2
      <4>3. CASE ~(HandleTaken /\ Has(Head(events).batch, q))
        <5>1. plan_position'[q] = plan_position[q] /\ (Awaits(q)' <=> Awaits(q))
          BY <1>0, <2>2, <3>5, <4>3, PositionStep, AwaitsStep DEF Has
        <5> QED
          BY <3>2, <4>1, <5>1
      <4> QED
        BY <4>2, <4>3
    <3> QED
      BY <3>3, <3>4, <3>5
  <2> QED
    BY <2>1, <2>2
<1> QED
  BY <1>1, <1>3, <1>4, <1>5

LEMMA UpdatesSafeStep ==
  ASSUME LineInv, Made, Behind, Positions, UpdatesSafe, [Next]_vars
  PROVE  UpdatesSafe'
<1>0. updates \in SUBSET UpdateSet /\ events \in Seq(EventSet)
  BY DEF LineInv, Ranges, EngineRanges
<1>1. ASSUME NEW u \in UpdateSet, Harmless(u) PROVE Harmless(u)'
  <2>1. u.query \in Queries /\ Begun(u.query)
    BY <1>1 DEF UpdateSet, Harmless
  <2>2. Begun(u.query)'
    BY <2>1, BegunStays
  <2>3. plan_status'[u.query] = "Prefill" => plan_status[u.query] = "Prefill"
    BY <2>1, StatusStep
  <2> QED
    BY <1>1, <2>2, <2>3, RepeatedGrows DEF Harmless
<1>2. ASSUME NEW u \in updates' PROVE Harmless(u)'
  <2>1. CASE EngineFinish
    <3>1. /\ u.query \in QueryIds(batch) /\ u.active_position = Advanced(u.query)
          /\ u.decode_done \in MayStop(u.query)
      BY <2>1, FinishEffect DEF LineInv
    <3>2. u.query \in Queries /\ Begun(u.query) /\ plan_status' = plan_status /\ repeated' = repeated
      BY <2>1, <3>1, MembersBegun, EngineStill DEF EngineFinish
    <3>3. ASSUME u.query \notin repeated, plan_status[u.query] = "Prefill"
          PROVE  ~u.decode_done /\ u.active_position < Prompt[u.query]
      <4> DEFINE q == u.query
      <4>1. q \notin batch.decode
        BY <3>3, MembersBegun DEF Made
      <4>2. u.active_position = active_position[q] + Takes(batch, q)
        BY <3>1, <4>1, TakesIs, TakesNat DEF Advanced
      <4>3. LastTaken = upcoming
        BY <2>1 DEF LastTaken, EngineFinish
      <4>4. active_position[q] + Takes(batch, q) + Takes(upcoming, q)
              = plan_position[q] + (IF Awaits(q) THEN Takes(LastTaken, q) ELSE 0)
        BY <3>2, <3>3 DEF Positions, AfterUpcoming, AfterBatch
      <4>5. plan_position[q] < Prompt[q] /\ Prompt[q] \in Nat
        BY <3>2, <3>3, LengthAssumption DEF Behind
      <4>6. /\ active_position[q] \in Nat /\ Takes(batch, q) \in Nat /\ Takes(upcoming, q) \in Nat
            /\ plan_position[q] \in Nat
        BY <3>2, TakesNat
      <4>7. ~u.decode_done
        BY <3>1, <4>1 DEF MayStop
      <4> HIDE DEF q
      <4>8. active_position[q] + Takes(batch, q) <= plan_position[q]
        BY <4>3, <4>4, <4>6
      <4> QED
        BY <4>2, <4>5, <4>6, <4>7, <4>8 DEF q
    <3> QED
      BY <3>2, <3>3 DEF Harmless, Begun
  <2>2. CASE ~EngineFinish
    <3>1. u \in updates
      BY <2>2, EngineStill
    <3> QED
      BY <1>0, <1>1, <3>1 DEF UpdatesSafe
  <2> QED
    BY <2>1, <2>2
<1>3. ASSUME NEW i \in DOMAIN events', events'[i].type = "Update", NEW u \in events'[i].updates
      PROVE  Harmless(u)'
  <2>1. \A b : Taken(b).type # "Update"
    BY DEF Taken
  <2>2. \/ \E j \in DOMAIN events : events'[i] = events[j]
        \/ events'[i] = Update(updates)
    BY <1>3, <2>1, EventOrigin
  <2>3. CASE events'[i] = Update(updates)
    BY <1>0, <1>1, <1>3, <2>3 DEF UpdatesSafe, Update
  <2>4. ASSUME NEW j \in DOMAIN events, events'[i] = events[j] PROVE Harmless(u)'
    <3>1. events[j] \in EventSet /\ events[j].type = "Update"
      BY <1>0, <1>3, <2>4, LenProperties, ElementOfSeq
    <3>2. u \in UpdateSet
      BY <1>3, <2>4, <3>1, EventFields
    <3> QED
      BY <1>1, <1>3, <2>4, <3>1, <3>2 DEF UpdatesSafe
  <2> QED
    BY <2>2, <2>3, <2>4
<1> QED
  BY <1>2, <1>3 DEF UpdatesSafe

-----------------------------------------------------------------------------
(* Who has a handle, and who shares pages with whom *)

LEMMA HeldStep ==
  ASSUME LineInv, [Next]_vars, NEW q \in Queries
  PROVE  \/ Held(q)' \subseteq Held(q)
         \/ HandlePrepareFirst /\ ~Begun(q) /\ Held(q)' \subseteq FreePages
<1>0. kvc2_handle \in [Queries -> BOOLEAN] /\ block_index \in [Queries -> SUBSET Pages]
  BY DEF LineInv, Ranges, QueryRanges
<1>1. CASE HandlePrepareFirst
  <2>1. ~Begun(Head(events).query)
    BY <1>1, HeadIsCurrent DEF HandlePrepareFirst, Handling, InFlight
  <2>2. \/ kvc2_handle' = kvc2_handle /\ block_index' = block_index
        \/ block_index' = [block_index EXCEPT ![Head(events).query] = LowestFree(Need[Head(events).query])]
           /\ kvc2_handle' = [kvc2_handle EXCEPT ![Head(events).query] = TRUE]
    BY <1>1 DEF HandlePrepareFirst
  <2>3. \A n : LowestFree(n) \subseteq FreePages
    BY DEF LowestFree
  <2>4. CASE q = Head(events).query
    BY <1>0, <1>1, <2>1, <2>2, <2>3, <2>4 DEF Held
  <2>5. CASE q # Head(events).query
    BY <1>0, <2>2, <2>5 DEF Held
  <2> QED
    BY <2>4, <2>5
<1>2. CASE ~HandlePrepareFirst
  <2>1. block_index'[q] = block_index[q]
    BY <1>2, PagesStep
  <2>2. kvc2_handle'[q] = kvc2_handle[q] \/ ~kvc2_handle'[q]
    BY <1>2, HandleStep
  <2> QED
    BY <2>1, <2>2 DEF Held
<1> QED
  BY <1>1, <1>2

LEMMA ApartStep ==
  ASSUME LineInv, Apart, [Next]_vars
  PROVE  Apart'
<1>1. ASSUME NEW q \in Queries, Held(q)' \subseteq FreePages, HandlePrepareFirst, ~Begun(q)
      PROVE  q = Head(events).query \/ Held(q)' \subseteq Held(q)
  <2>1. q # Head(events).query => kvc2_handle'[q] = kvc2_handle[q] /\ block_index'[q] = block_index[q]
    BY <1>1, PagesStep DEF HandlePrepareFirst, LineInv, Ranges, QueryRanges
  <2> QED
    BY <2>1 DEF Held
<1>2. ASSUME NEW q \in Queries PROVE FreePages \cap Held(q) = {}
  BY DEF FreePages
<1> SUFFICES ASSUME NEW q \in Queries, NEW r \in Queries, q # r PROVE Held(q)' \cap Held(r)' = {}
  BY DEF Apart
<1>3. Held(q) \cap Held(r) = {} /\ FreePages \cap Held(q) = {} /\ FreePages \cap Held(r) = {}
  BY <1>2 DEF Apart
<1>4. \/ Held(q)' \subseteq Held(q) /\ Held(r)' \subseteq Held(r)
      \/ Held(q)' \subseteq FreePages /\ Held(r)' \subseteq Held(r)
      \/ Held(q)' \subseteq Held(q) /\ Held(r)' \subseteq FreePages
  BY <1>1, HeldStep
<1> QED
  BY <1>3, <1>4

\* A prepare that succeeded was announced before, or has just got its handle.
LEMMA PreparedOrigin ==
  ASSUME LineInv, [Next]_vars, NEW i \in DOMAIN events', events'[i].type = "Prepared"
  PROVE  \/ \E j \in DOMAIN events : events'[i] = events[j]
         \/ kvc2_handle'[events'[i].query]
<1>0. events \in Seq(EventSet) /\ updates \in SUBSET UpdateSet /\ upcoming \in BatchSet
  BY DEF LineInv, Ranges, EngineRanges
<1>1. ASSUME NEW e \in EventSet, events' = Append(events, e), e.type # "Prepared"
      PROVE  \E j \in DOMAIN events : events'[i] = events[j]
  BY <1>0, <1>1, Appended
<1>2. ASSUME events # <<>>, NEW new \in Seq(EventSet), events' = Tail(events) \o new,
             \A j \in DOMAIN new : new[j].type = "Prepared" => kvc2_handle'[new[j].query]
      PROVE  \/ \E j \in DOMAIN events : events'[i] = events[j]
             \/ kvc2_handle'[events'[i].query]
  <2>1. \/ \E j \in DOMAIN events : events'[i] = events[j]
        \/ \E j \in DOMAIN new : events'[i] = new[j]
    BY <1>0, <1>2, EventsAfter
  <2> QED
    BY <1>2, <2>1
<1>3. /\ Add \in EventSet /\ Add.type # "Prepared" /\ Schedule \in EventSet /\ Schedule.type # "Prepared"
      /\ Update(updates) \in EventSet /\ Update(updates).type # "Prepared"
      /\ Taken(upcoming) \in EventSet /\ Taken(upcoming).type # "Prepared"
  BY <1>0, EventsMade DEF Add, Schedule, Update, Taken
<1>4. events' = events => \E j \in DOMAIN events : events'[i] = events[j]
  OBVIOUS
<1> QED
  BY <1>1, <1>2, <1>3, <1>4, EventsStep

\* The queries that stand in the line have not begun.
LEMMA LineNotBegun ==
  ASSUME LineInv
  PROVE  /\ \A i \in 1..Len(ready_queue) : ready_queue[i] \in Queries /\ ~Begun(ready_queue[i])
         /\ \A i \in DOMAIN events : events[i].type = "Prepared" =>
              events[i].query \in Queries /\ ~Begun(events[i].query)
<1>1. First \in Int /\ Current \in Int /\ Len(ready_queue) \in Nat
      /\ (has_query_preparing => First <= Current)
  BY LineNumbers
<1>2. ready_queue \in Seq(Queries) /\ events \in Seq(EventSet)
  BY DEF LineInv, Ranges, AdmitRanges
<1>3. \A q \in Queries : Begun(q) => q < First
  BY DEF LineInv, Line
<1>4. ASSUME NEW i \in 1..Len(ready_queue) PROVE ready_queue[i] \in Queries /\ ~Begun(ready_queue[i])
  <2>1. ready_queue[i] \in Queries /\ ready_queue[i] = First + i - 1
    BY <1>2, ElementOfSeq DEF LineInv, Line
  <2> QED
    BY <1>1, <1>3, <2>1
<1>5. ASSUME NEW i \in DOMAIN events, events[i].type = "Prepared"
      PROVE  events[i].query \in Queries /\ ~Begun(events[i].query)
  <2>1. events[i] \in EventSet /\ InFlight(events[i])
    BY <1>2, <1>5, LenProperties, ElementOfSeq DEF InFlight
  <2>2. events[i].query \in Queries /\ events[i].query = Current
    BY <1>5, <2>1, EventFields DEF LineInv, Line
  <2>3. has_query_preparing
    BY <2>1 DEF LineInv, Preparation, NoFlight, Ranges, AdmitRanges
  <2> QED
    BY <1>1, <1>3, <2>2, <2>3
<1> QED
  BY <1>4, <1>5

LEMMA LoadedStep ==
  ASSUME LineInv, Reported, Ahead, UpdatesSafe, Loaded, [Next]_vars
  PROVE  Loaded'
<1>0. /\ Ranges /\ kvc2_handle \in [Queries -> BOOLEAN] /\ ready_queue \in Seq(Queries)
      /\ events \in Seq(EventSet)
  BY DEF LineInv, Ranges, QueryRanges, AdmitRanges
<1>1. ASSUME NEW q \in Queries, ~Begun(q), kvc2_handle[q] PROVE kvc2_handle'[q]
  <2>1. ~Running(q)
    BY <1>1 DEF Running, Begun
  <2> QED
    BY <1>1, <2>1, HandleStep
<1>2. ASSUME NEW i \in 1..Len(ready_queue') PROVE kvc2_handle'[ready_queue'[i]]
  <2>1. \A j \in 1..Len(ready_queue) : kvc2_handle'[ready_queue[j]]
    BY <1>1, LineNotBegun DEF Loaded
  <2>2. CASE HandlePrepared
    <3> DEFINE q == Head(events).query
    <3>1. /\ events # <<>> /\ Head(events).type = "Prepared" /\ ready_queue' = Append(ready_queue, q)
          /\ kvc2_handle' = kvc2_handle
      BY <2>2 DEF HandlePrepared, Handling, queryVars
    <3>2. Head(events) = events[1] /\ 1 \in DOMAIN events
      <4>1. Head(events) = events[1] /\ Len(events) \in Nat \ {0} /\ DOMAIN events = 1..Len(events)
        BY <1>0, <3>1, Enqueued, OneEvent
      <4> QED
        BY <4>1
    <3>3. kvc2_handle'[q] /\ q \in Queries
      BY <3>1, <3>2, LineNotBegun DEF Loaded
    <3>4. \/ i \in 1..Len(ready_queue) /\ ready_queue'[i] = ready_queue[i]
          \/ ready_queue'[i] = q
      BY <1>0, <3>1, <3>3, AppendProperties
    <3> QED
      BY <2>1, <3>3, <3>4
  <2>3. CASE HandleSchedule
    <3>1. ready_queue' = SubSeq(ready_queue, Len(Admitted) + 1, Len(ready_queue))
      BY <1>0, <2>3, ScheduleEffect
    <3>2. /\ Len(ready_queue') = Len(ready_queue) - Len(Admitted)
          /\ \A j \in 1..Len(ready_queue') : ready_queue'[j] = ready_queue[Len(Admitted) + j]
      BY <1>0, <3>1, RestIs
    <3>3. Len(Admitted) \in 0..Len(ready_queue) /\ Len(ready_queue) \in Nat
      BY <1>0, AdmittedIs
    <3>4. Len(Admitted) + i \in 1..Len(ready_queue)
      BY <3>2, <3>3
    <3> QED
      BY <2>1, <3>2, <3>4
  <2>4. CASE ready_queue' = ready_queue
    BY <2>1, <2>4
  <2> QED
    BY <2>2, <2>3, <2>4, StillSteps DEF Next, EventLoop, Engine, AddQuery, HandleAdd, HandlePrepareFirst,
       HandlePrepareAgain, HandleUpdate, HandleQueryStatus, HandleTaken, LoopCheck, EnginePut,
       EngineTake, EngineReport, EngineFinish, Still, admitVars
<1>3. ASSUME NEW i \in DOMAIN events', events'[i].type = "Prepared"
      PROVE  kvc2_handle'[events'[i].query]
  <2>1. ASSUME NEW j \in DOMAIN events, events'[i] = events[j] PROVE kvc2_handle'[events'[i].query]
    BY <1>1, <1>3, <2>1, LineNotBegun DEF Loaded
  <2> QED
    BY <1>3, <2>1, PreparedOrigin
<1>4. ASSUME NEW q \in Queries, plan_status'[q] = "Done" PROVE ~kvc2_handle'[q]
  <2>1. CASE HandleUpdate
    BY <1>4, <2>1 DEF HandleUpdate, Loaded
  <2>2. CASE ~HandleUpdate
    <3>1. plan_status[q] = "Done"
      BY <1>4, <2>2, StatusStep DEF Begun
    <3> QED
      BY <2>2, <3>1, HandleStep DEF Loaded, Begun
  <2> QED
    BY <2>1, <2>2
<1>5. ASSUME NEW q \in Queries \ repeated', Running(q)' PROVE kvc2_handle'[q]
  <2>0. q \in Queries \ repeated
    BY RepeatedGrows
  <2>1. CASE HandleSchedule /\ q \in Entering
    <3>1. \E i \in 1..Len(Admitted) : q = ready_queue[i]
      BY <1>0, <2>1, EnteringIs
    <3>2. Len(Admitted) \in 0..Len(ready_queue) /\ Len(ready_queue) \in Nat
      BY <1>0, AdmittedIs
    <3>3. kvc2_handle[q] /\ ~Begun(q)
      BY <3>1, <3>2, EnteringNew, <2>1 DEF Loaded
    <3> QED
      BY <1>1, <2>0, <3>3
  <2>2. CASE ~(HandleSchedule /\ q \in Entering)
    <3>1. Running(q)
      BY <1>5, <2>2, OnceStep DEF Running, Begun
    <3>2. kvc2_handle[q] /\ plan_status'[q] # "Done"
      BY <1>5, <2>0, <3>1 DEF Loaded, Running
    <3> QED
      BY <2>0, <3>2, HandleStep
  <2> QED
    BY <2>1, <2>2
<1>6. ASSUME loop' = "crashed" PROVE repeated' # {}
  <2>1. CASE HandleUpdateCrash
    <3>1. PICK u \in Head(events).updates : Running(u.query) /\ ~kvc2_handle[u.query]
      BY <2>1 DEF HandleUpdateCrash, HandleLost
    <3>2. Head(events) \in EventSet /\ Head(events).type = "Update"
      BY <1>0, <2>1, Enqueued, OneEvent DEF HandleUpdateCrash, Handling
    <3>3. u.query \in Queries
      BY <3>1, <3>2, EventFields DEF UpdateSet
    <3>4. u.query \in repeated
      BY <3>1, <3>3 DEF Loaded
    <3> QED
      BY <3>4, RepeatedGrows
  <2>2. CASE ~HandleUpdateCrash
    <3>1. loop = "crashed"
      BY <1>6, <2>2 DEF Next, EventLoop, Engine, AddQuery, HandleAdd, HandlePrepareFirst,
         HandlePrepareAgain, HandlePrepared, HandleUpdate, HandleQueryStatus, HandleTaken,
         HandleSchedule, LoopCheck, EnginePut, EngineTake, EngineReport, EngineFinish, Enqueuing,
         Handling, Gone, vars
    <3> QED
      BY <3>1, RepeatedGrows DEF Loaded
  <2> QED
    BY <2>1, <2>2
<1> QED
  BY <1>2, <1>3, <1>4, <1>5, <1>6 DEF Loaded

\* Who comes to share pages with a query in a batch enters a batch now.
LEMMA ShareStep ==
  ASSUME LineInv, Loaded, [Next]_vars, NEW q \in Queries, NEW r \in Queries, Begun(q), Share(q, r)'
  PROVE  Share(q, r) \/ (HandleSchedule /\ r \in Entering)
<1>1. /\ q # r /\ Running(r)' /\ block_index'[q] \cap Held(r)' # {}
      /\ block_index'[q] = block_index[q]
  BY PagesStep DEF Share
<1>2. ASSUME Begun(r), Running(r) PROVE Share(q, r)
  <2>1. Held(r)' \subseteq Held(r)
    BY <1>2, HeldStep
  <2> QED
    BY <1>1, <1>2, <2>1 DEF Share
<1>3. ASSUME plan_status[r] = "Done" PROVE FALSE
  <2>1. ~kvc2_handle[r] /\ Begun(r) /\ ~Running(r)
    BY <1>3 DEF Loaded, Begun, Running
  <2>2. Held(r)' \subseteq Held(r)
    BY <2>1, HeldStep
  <2> QED
    BY <1>1, <2>1, <2>2 DEF Held
<1>4. \/ HandleSchedule /\ r \in Entering
      \/ Begun(r)
  BY <1>1, StatusStep DEF Running, Begun
<1> QED
  BY <1>2, <1>3, <1>4 DEF Begun, Running

LEMMA ClearStep ==
  ASSUME LineInv, Behind, Loaded, Loaded', Clear, Apart', [Next]_vars
  PROVE  Clear'
<1>a. \A b \in Batches' : QueryIds(b)' = QueryIds(b)
  BY DEF QueryIds
<1> SUFFICES ASSUME NEW q \in Queries \ repeated', NEW r \in Queries, Share(q, r)'
             PROVE  /\ \A b \in Batches' : q \in QueryIds(b) => r \notin QueryIds(b)
                    /\ q \in QueryIds(batch') => active_position'[r] = 0
                    /\ q \in QueryIds(upcoming') => active_position'[r] = 0 /\ r \notin QueryIds(batch')
                    /\ q \notin QueryIds(next_batch'.batch)
  BY <1>a DEF Clear, QueryIds
<1>0. q \in Queries \ repeated /\ Ranges
  BY RepeatedGrows DEF LineInv
<1>1. ASSUME NEW b \in Batches, q \in QueryIds(b)
      PROVE  \/ Share(q, r)
             \/ HandleSchedule /\ active_position[r] = 0 /\ \A c \in Batches : r \notin QueryIds(c)
  <2>1. Begun(q)
    BY <1>1, MembersBegun
  <2> QED
    BY <1>0, <2>1, ShareStep, EnteringNew DEF Behind
<1>2. q \notin QueryIds(next_batch'.batch)
  <2>1. CASE HandleSchedule
    <3> SUFFICES ASSUME q \in QueryIds(next_batch'.batch) PROVE FALSE
      OBVIOUS
    <3>1. Running(q)'
      BY <1>0, <2>1, NewBatch DEF Running
    <3>2. Held(q)' = block_index'[q]
      BY <3>1 DEF Loaded, Held
    <3> QED
      BY <1>0, <3>2 DEF Apart, Share
  <2>2. CASE ~HandleSchedule
    <3>1. next_batch'.batch = next_batch.batch
      BY <1>0, <2>2, EngineStill DEF EngineTake, Ranges
    <3>2. next_batch.batch \in Batches
      BY MembersBegun
    <3> QED
      BY <1>0, <1>1, <2>2, <3>1, <3>2 DEF Clear
  <2> QED
    BY <2>1, <2>2
<1>3. ASSUME NEW b \in Batches', q \in QueryIds(b) PROVE r \notin QueryIds(b)
  <2>1. CASE b \in Batches
    BY <1>0, <1>1, <1>3, <2>1 DEF Clear
  <2>2. CASE b = NoBatch
    BY <1>3, <2>2, NothingInNoBatch
  <2>3. CASE b = next_batch'.batch
    BY <1>2, <1>3, <2>3
  <2> QED
    BY <2>1, <2>2, <2>3, BatchesStep
<1>4. ASSUME q \in QueryIds(batch') PROVE active_position'[r] = 0
  <2>1. CASE EngineFinish
    <3>1. q \in QueryIds(upcoming) /\ ~HandleSchedule
      BY <1>4, <2>1, EngineStill DEF EngineFinish, HandleSchedule, engineVars
    <3>2. Share(q, r)
      BY <1>1, <3>1, MembersBegun
    <3>3. active_position[r] = 0 /\ r \notin QueryIds(batch)
      BY <1>0, <3>1, <3>2 DEF Clear
    <3> QED
      BY <1>0, <2>1, <3>3, FinishEffect
  <2>2. CASE ~EngineFinish
    <3>1. q \in QueryIds(batch) /\ active_position' = active_position
      BY <1>4, <2>2, EngineStill
    <3> QED
      BY <1>0, <1>1, <3>1, MembersBegun DEF Clear
  <2> QED
    BY <2>1, <2>2
<1>5. ASSUME q \in QueryIds(upcoming') PROVE active_position'[r] = 0 /\ r \notin QueryIds(batch')
  <2>1. CASE EngineTake
    <3>1. q \in QueryIds(next_batch.batch) /\ ~HandleSchedule
      BY <1>5, <2>1, EngineStill DEF EngineTake, HandleSchedule, engineVars
    <3> QED
      BY <1>0, <1>1, <3>1, MembersBegun DEF Clear
  <2>2. CASE EngineFinish
    BY <1>5, <2>2, EngineStill, NothingInNoBatch
  <2>3. CASE ~EngineTake /\ ~EngineFinish
    <3>1. q \in QueryIds(upcoming) /\ active_position' = active_position /\ batch' = batch
      BY <1>5, <2>3, EngineStill
    <3> QED
      BY <1>0, <1>1, <3>1, MembersBegun DEF Clear
  <2> QED
    BY <2>1, <2>2, <2>3
<1> QED
  BY <1>2, <1>3, <1>4, <1>5

-----------------------------------------------------------------------------
(* The invariant of the queries, and what it is for *)

LEMMA QueryInit == Init => QueryInv
<1> SUFFICES ASSUME Init PROVE QueryInv
  OBVIOUS
<1>1. /\ events = <<>> /\ DOMAIN events = {} /\ engine = "put" /\ upcoming = NoBatch /\ batch = NoBatch
      /\ next_batch.batch = NoBatch /\ updates = {} /\ active_query = {} /\ repeated = {}
      /\ loop = "dequeue" /\ ready_queue = <<>> /\ Len(ready_queue) = 0
      /\ \A q \in Queries : /\ plan_status[q] = "Received" /\ block_index[q] = {}
                            /\ active_position[q] = 0 /\ plan_position[q] = 0 /\ ~kvc2_handle[q]
  BY DEF Init
<1>2. /\ TakenBatches = {} /\ Batches = {NoBatch} /\ NoBatch.prefill = {} /\ NoBatch.decode = {}
      /\ QueryIds(NoBatch) = {}
  BY <1>1, NothingInNoBatch DEF Batches, TakenBatches
<1>3. \A q : ~Has(NoBatch, q) /\ Takes(NoBatch, q) = 0
  BY <1>2 DEF Has, Takes
<1>4. \A q : ~Awaits(q)
  BY <1>1, <1>3 DEF Awaits
<1>5. Made
  <2>1. Cardinality({}) = 0 /\ 0 <= 2
    BY FS_EmptySet
  <2> QED
    BY <1>2, <2>1 DEF Made
<1>6. Behind
  <2>1. \A q \in Queries : AfterUpcoming(q) = 0
    BY <1>1, <1>3 DEF AfterUpcoming, AfterBatch
  <2> QED
    BY <1>1, <1>2, <2>1 DEF Behind
<1>7. Reported /\ Ahead
  BY <1>1, <1>4 DEF Reported, Ahead
<1>8. Positions
  BY <1>1, <1>2 DEF Positions
<1>9. UpdatesSafe
  BY <1>1 DEF UpdatesSafe
<1>10. Active
  <2>1. /\ InPrefill(active_query) = {} /\ active_query \ repeated = {} /\ Cardinality({}) = 0
        /\ 0 <= MaxBatch /\ 0 <= MaxPrefill
    BY <1>1, FS_EmptySet, BatchAssumption DEF InPrefill
  <2> QED
    BY <1>1, <1>2, <2>1 DEF Active
<1>11. Loaded
  BY <1>1 DEF Loaded, Running
<1>12. Apart
  BY <1>1 DEF Apart, Held
<1>13. Clear
  BY <1>1 DEF Clear, Share, Running
<1> QED
  BY <1>5, <1>6, <1>7, <1>8, <1>9, <1>10, <1>11, <1>12, <1>13 DEF QueryInv

THEOREM QueryInvariance == Spec => [](LineInv /\ QueryInv)
<1>1. LineInv /\ QueryInv /\ [Next]_vars => QueryInv'
  <2> SUFFICES ASSUME LineInv, QueryInv, [Next]_vars PROVE QueryInv'
    OBVIOUS
  <2>1. Made /\ Behind /\ Reported /\ Ahead /\ Positions /\ UpdatesSafe /\ Active /\ Loaded /\ Apart /\ Clear
    BY DEF QueryInv
  <2>2. Active'
    BY <2>1, ActiveStep
  <2>3. Apart' /\ Loaded'
    BY <2>1, ApartStep, LoadedStep
  <2>4. Behind' /\ Reported' /\ Ahead' /\ Positions' /\ UpdatesSafe'
    BY <2>1, BehindStep, ReportedStep, AheadStep, PositionsStep, UpdatesSafeStep
  <2>5. Made' /\ Clear'
    BY <2>1, <2>2, <2>3, MadeStep, ClearStep
  <2> QED
    BY <2>2, <2>3, <2>4, <2>5 DEF QueryInv
<1> QED
  BY <1>1, QueryInit, LineInvariance, PTL DEF Spec

\* The batches and the updates are what TypeOK asks for.
LEMMA BatchesTyped ==
  ASSUME LineInv, Made, NEW b \in Batches
  PROVE  IsBatch(b)
<1>1. b \in BatchSet /\ Cardinality(b.prefill) <= 2
  BY MembersBegun DEF Made
<1> QED
  BY <1>1 DEF IsBatch, BatchSet, FittingTasks

LEMMA EventsTyped ==
  ASSUME LineInv, Made, NEW i \in DOMAIN events
  PROVE  IsEvent(events[i])
<1>1. events[i] \in EventSet
  BY LenProperties, ElementOfSeq DEF LineInv, Ranges
<1>2. CASE events[i].type = "Taken"
  <2>1. events[i].batch \in Batches
    BY <1>2 DEF Batches, TakenBatches
  <2> QED
    BY <1>2, <2>1, BatchesTyped DEF IsEvent
<1>3. CASE events[i].type = "Update"
  BY <1>1, <1>3, EventFields DEF IsEvent, IsUpdates, UpdateSet
<1>4. CASE events[i].type \notin {"Taken", "Update"}
  <2>1. ASSUME NEW us PROVE events[i] # Update(us)
    BY <1>4 DEF Update
  <2>2. ASSUME NEW b PROVE events[i] # Taken(b)
    BY <1>4 DEF Taken
  <2>3. events[i] \in {Add, Schedule, QueryDone}
          \cup {Prepare(q, first) : q \in Queries, first \in BOOLEAN}
          \cup {Prepared(q) : q \in Queries}
    BY <1>1, <2>1, <2>2 DEF EventSet
  <2> QED
    BY <2>3 DEF IsEvent
<1> QED
  BY <1>2, <1>3, <1>4

(* Every variable stays in its range: a batch has at most two prefill      *)
(* tasks (the assertion of gen_batch_query_todo) and no more queries are   *)
(* active than max_batch_size, but for those a late report brings back.    *)
THEOREM TypeCorrect == Spec => []TypeOK
<1>1. LineInv /\ QueryInv => TypeOK
  <2> SUFFICES ASSUME LineInv, QueryInv PROVE TypeOK
    OBVIOUS
  <2>1. Ranges /\ Counted /\ Made /\ Active
    BY DEF LineInv, QueryInv
  <2>2. query_id_counter \in 1..(MaxQueries + 1)
    <3>1. Cardinality(AddsOf(events)) \in Nat
      BY <2>1, AddsFinite DEF Ranges
    <3> QED
      BY <2>1, <3>1, BoundAssumption DEF Counted, Ranges, AdmitRanges
  <2>3. /\ plan_status \in [Queries -> Statuses] /\ kvc2_handle \in [Queries -> BOOLEAN]
        /\ \A q \in Queries : plan_position[q] \in 0..Prompt[q] /\ block_index[q] \subseteq Pages
    BY <2>1, LengthAssumption DEF Ranges, QueryRanges
  <2>4. IsBatch(batch) /\ IsBatch(upcoming) /\ IsBatch(next_batch.batch)
    BY <2>1, MembersBegun, BatchesTyped
  <2>5. IsUpdates(updates)
    BY <2>1 DEF Ranges, EngineRanges, IsUpdates, UpdateSet
  <2>6. \A i \in DOMAIN events : IsEvent(events[i])
    BY <2>1, EventsTyped
  <2>7. active_query \subseteq Queries /\ Cardinality(active_query \ repeated) <= MaxBatch
    BY <2>1 DEF Ranges, Active
  <2>8. /\ waiting \in Seq(Queries) /\ ready_queue \in Seq(Queries)
        /\ has_query_preparing \in BOOLEAN /\ wait_done_prepare \in Queries \cup {None}
        /\ requests \in 0..MaxQueries
    BY <2>1 DEF Ranges, AdmitRanges
  <2>9. /\ loop \in {"dequeue", "check", "crashed"} /\ next_batch.fresh \in BOOLEAN
        /\ engine \in {"put", "take", "report", "finish"}
        /\ active_position \in [Queries -> Nat] /\ ended \subseteq Queries /\ repeated \subseteq Queries
    BY <2>1 DEF Ranges, EngineRanges
  <2> QED
    BY <2>2, <2>3, <2>4, <2>5, <2>6, <2>7, <2>8, <2>9 DEF TypeOK
<1> QED
  BY <1>1, QueryInvariance, PTL

(* No prefill task on the device starts after the place the engine has     *)
(* reached in its query, at whatever pace the loop accounts for what was   *)
(* taken; and it starts at that place if no chunk of the query was taken   *)
(* again.                                                                  *)
THEOREM PrefillGoesOn == Spec => []PrefillContinues
<1>1. LineInv /\ QueryInv => PrefillContinues
  <2> SUFFICES ASSUME LineInv, QueryInv, NEW t \in batch.prefill
               PROVE  /\ t.start <= active_position[t.query]
                      /\ t.query \notin repeated => t.start = active_position[t.query]
    BY DEF PrefillContinues
  <2>1. t.query \in Queries
    BY MembersBegun
  <2> QED
    BY <2>1 DEF QueryInv, Behind, Positions
<1> QED
  BY <1>1, QueryInvariance, PTL

(* A query of which no chunk was taken again has its handle while it runs, *)
(* and when a batch still names it whose pages were released, that batch   *)
(* writes on no page that another query has written to, nor on one of the  *)
(* same batch.                                                             *)
THEOREM WritesOwnPages == Spec => []NoForeignWrite
<1>1. LineInv /\ QueryInv => NoForeignWrite
  <2> SUFFICES ASSUME LineInv, QueryInv, NEW q \in Queries \ repeated
               PROVE  /\ Running(q) => kvc2_handle[q]
                      /\ q \in QueryIds(batch) => \A r \in Queries \ {q} :
                           Running(r) /\ block_index[q] \cap Held(r) # {}
                             => active_position[r] = 0 /\ r \notin QueryIds(batch)
    BY DEF NoForeignWrite
  <2>1. Running(q) => kvc2_handle[q]
    BY DEF QueryInv, Loaded
  <2>2. ASSUME q \in QueryIds(batch), NEW r \in Queries \ {q}, Running(r),
               block_index[q] \cap Held(r) # {}
        PROVE  active_position[r] = 0 /\ r \notin QueryIds(batch)
    <3>1. Share(q, r) /\ Clear /\ batch \in Batches
      BY <2>2, MembersBegun DEF Share, QueryInv
    <3> QED
      BY <2>2, <3>1 DEF Clear
  <2> QED
    BY <2>1, <2>2
<1> QED
  BY <1>1, QueryInvariance, PTL

(* Two queries that have their handles hold no page in common, late        *)
(* reports and repeated chunks or not.                                     *)
THEOREM PagesApart == Spec => []Apart
<1>1. QueryInv => Apart
  BY DEF QueryInv
<1> QED
  BY <1>1, QueryInvariance, PTL

\* A query goes from prefill to decoding and from there to done.
Advancing ==
  \A q \in Queries \ repeated' :
    /\ plan_status[q] = "Prefill" => plan_status'[q] \in {"Prefill", "Decode"}
    /\ plan_status[q] = "Decode"  => plan_status'[q] \in {"Decode", "Done"}
    /\ plan_status[q] = "Done"    => plan_status'[q] = "Done"
    /\ plan_status'[q] = "Decode" => plan_status[q] \in {"Prefill", "Decode"}

\* What the loop accounts for goes on where it stands in the prompt.
TakenInOrder ==
  HandleTaken => \A t \in Head(events).batch.prefill : t.query \notin repeated =>
                   plan_status[t.query] = "Prefill" /\ plan_position[t.query] = t.start

\* The call through a lost handle comes after a chunk was taken again.
CrashExplained == loop = "crashed" => repeated # {}

(* Only a query of which a chunk was taken again is brought back by a late *)
(* report once it decodes or is done.  For all others the prefill tasks of *)
(* a batch that the loop accounts for are of queries in prefill, which is  *)
(* the assertion that to_status keeps in a comment.                        *)
THEOREM NobodyComesBack == Spec => [][Advancing /\ TakenInOrder]_vars
<1>1. LineInv /\ QueryInv /\ [Next]_vars => Advancing /\ TakenInOrder
  <2> SUFFICES ASSUME LineInv, QueryInv, [Next]_vars PROVE Advancing /\ TakenInOrder
    OBVIOUS
  <2>1. Reported /\ Ahead /\ UpdatesSafe
    BY DEF QueryInv
  <2>2. Advancing
    BY <2>1, OnceStep DEF Advancing, Begun
  <2>3. ASSUME HandleTaken, NEW t \in Head(events).batch.prefill, t.query \notin repeated
        PROVE  plan_status[t.query] = "Prefill" /\ plan_position[t.query] = t.start
    <3>1. t.query \in Queries /\ Has(Head(events).batch, t.query)
      BY <2>3, HeadOfTaken, MembersBegun DEF Has
    <3>2. Awaits(t.query) /\ Head(events).batch = LastTaken
      BY <2>1, <2>3, <3>1, ReportHandled
    <3> QED
      BY <2>1, <2>3, <3>1, <3>2 DEF Ahead
  <2> QED
    BY <2>2, <2>3 DEF TakenInOrder
<1> QED
  BY <1>1, QueryInvariance, PTL DEF Spec

(* The scheduler ends in a call through a lost handle only after a chunk   *)
(* of some query was taken again.                                          *)
THEOREM CrashHasCause == Spec => []CrashExplained
<1>1. QueryInv => CrashExplained
  BY DEF QueryInv, Loaded, CrashExplained
<1> QED
  BY <1>1, QueryInvariance, PTL
=============================================================================
