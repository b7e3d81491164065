---------------------------- MODULE BatchScheduler ----------------------------
(***************************************************************************)
(* The serving scheduler of archive/csrc/balance_serve/sched and the       *)
(* engine that runs its batches (Engine.loop of balance_serve.py and the   *)
(* query_manager).  An event loop owns the queries and handles one event   *)
(* of a multi-producer queue at a time; clients add queries; the engine    *)
(* hands in the updates of the batch before the last, takes the newest     *)
(* batch out of a flagged pointer and reports it as taken, while the last  *)
(* batch still runs.  The key-value store is in its gpu_only mode: a query *)
(* gets all its pages at once or is told to try again.                     *)
(*                                                                         *)
(* Nothing makes the engine wait until the loop has accounted for the batch*)
(* it took last: a batch made before that is as good as any, and its chunks*)
(* are then computed twice.  The history variable repeated, which no action*)
(* reads, holds the queries this has happened to; the properties say what  *)
(* such a query can no longer rely on, and that the others are unharmed.   *)
(***************************************************************************)
EXTENDS Naturals, Sequences, FiniteSets

CONSTANTS
  MaxQueries,   \* bound: the number of add_query calls
  MaxBatch,     \* settings.max_batch_size
  MaxPrefill,   \* queries in prefill: 1 for FCFS_single_prefill, 2 for FCFS
  Chunk,        \* settings.recommended_chunk_prefill_token_count
  Prompt,       \* prompt_length of each query
  Estimated,    \* estimated_length of each query
  Need,         \* the pages of each query: div_up(estimated_length, page_size)
  NumPages      \* total_kvcache_pages

Queries == 1..MaxQueries
Pages == 1..NumPages

ASSUME BoundAssumption == MaxQueries \in Nat /\ NumPages \in Nat
\* With a max_batch_size of 2 a second query that decodes trips an assertion (see BatchOf).
ASSUME BatchAssumption == MaxBatch \in Nat \ (0..2) /\ MaxPrefill \in {1, 2}
ASSUME ChunkAssumption == Chunk \in Nat \ {0}
ASSUME LengthAssumption ==
  /\ Prompt \in [Queries -> Nat \ {0}] /\ Estimated \in [Queries -> Nat]
  /\ \A q \in Queries : Prompt[q] + 1 <= Estimated[q]
ASSUME NeedAssumption == Need \in [Queries -> 1..NumPages]

VARIABLES
  events,          \* event_loop_queue
  loop,            \* the event loop: about to dequeue, to look at the queue's size, or gone
  query_id_counter,
  plan_status, plan_position, kvc2_handle, block_index,  \* of each query; has it a handle
  waiting,         \* FCFS_single_prefill::queue
  ready_queue, has_query_preparing,
  wait_done_prepare,  \* the query whose prepare waits for a Done; 0 for none
  active_query,
  next_batch,      \* the pointer with its flag: [batch, fresh]
  requests,        \* add_query calls made so far
  engine,          \* where Engine.loop is
  batch, upcoming, \* self.batch, and next_batch of Engine.loop
  updates,         \* self.updates
  active_position, \* of each query in the query_manager; 0 before it is added
  ended,           \* the queries whose stream got its final None
  repeated         \* history: the queries of which the engine took a chunk again

queryVars  == <<plan_status, plan_position, kvc2_handle, block_index>>
admitVars  == <<waiting, ready_queue, has_query_preparing, wait_done_prepare>>
engineVars == <<engine, batch, upcoming, updates, active_position, ended, repeated>>
vars == <<events, loop, query_id_counter, queryVars, admitVars, active_query,
          next_batch, requests, engineVars>>

None == 0
MinOf(a, b) == IF a < b THEN a ELSE b

Add         == [type |-> "Add"]
Schedule    == [type |-> "Schedule"]
QueryDone   == [type |-> "QueryStatus"]
Prepare(q, first_try) == [type |-> "Prepare", query |-> q, first_try |-> first_try]
Prepared(q) == [type |-> "Prepared", query |-> q]
Update(us)  == [type |-> "Update", updates |-> us]
Taken(b)    == [type |-> "Taken", batch |-> b]

\* A batch: prefill tasks [query, start, length] and the queries that decode.
NoBatch == [prefill |-> {}, decode |-> {}]
QueryIds(b) == {t.query : t \in b.prefill} \cup b.decode

Statuses == {"Received", "Preparing", "Ready", "Prefill", "Decode", "Done"}

Running(q) == plan_status[q] \in {"Prefill", "Decode"}
\* Mutated: the pages of a query count once it runs.
HeldRunning(q) == IF Running(q) THEN block_index[q] ELSE {}

\* The handle keeps the pages; block_index goes on naming them when it is gone.
Held(q) == IF kvc2_handle[q] THEN block_index[q] ELSE {}
FreePages == Pages \ UNION {Held(q) : q \in Queries}

Init ==
  /\ events = <<>> /\ loop = "dequeue" /\ query_id_counter = 1
  /\ plan_status = [q \in Queries |-> "Received"]
  /\ plan_position = [q \in Queries |-> 0]
  /\ kvc2_handle = [q \in Queries |-> FALSE] /\ block_index = [q \in Queries |-> {}]
  /\ waiting = <<>> /\ ready_queue = <<>>
  /\ has_query_preparing = FALSE /\ wait_done_prepare = None
  /\ active_query = {} /\ next_batch = [batch |-> NoBatch, fresh |-> FALSE]
  /\ requests = 0
  /\ engine = "put" /\ batch = NoBatch /\ upcoming = NoBatch /\ updates = {}
  /\ active_position = [q \in Queries |-> 0] /\ ended = {} /\ repeated = {}

-----------------------------------------------------------------------------
(* Clients: add_query enqueues and waits for the promise of its id. *)

AddQuery ==
  /\ requests < MaxQueries /\ loop # "crashed"
  /\ requests' = requests + 1
  /\ events' = Append(events, Add)
  /\ UNCHANGED <<loop, query_id_counter, queryVars, admitVars, active_query, next_batch,
                 engineVars>>

-----------------------------------------------------------------------------
(* The event loop.  A handler takes the head of the queue and appends what *)
(* it enqueues; the loop then looks at the size of the queue.              *)

Handling(type) == loop = "dequeue" /\ events # <<>> /\ Head(events).type = type
Enqueuing(new) == events' = Tail(events) \o new /\ loop' = "check"

\* A new query waits, and is prepared at once when no other is.
HandleAdd ==
  /\ Handling("Add")
  /\ query_id_counter' = query_id_counter + 1
  /\ has_query_preparing' = TRUE
  /\ IF has_query_preparing
     THEN /\ waiting' = Append(waiting, query_id_counter)
          /\ Enqueuing(<<>>)
     ELSE LET q == Append(waiting, query_id_counter) IN
          /\ waiting' = Tail(q)
          /\ Enqueuing(<<Prepare(Head(q), TRUE)>>)
  /\ UNCHANGED <<queryVars, ready_queue, wait_done_prepare, active_query, next_batch,
                 requests, engineVars>>

\* The free pages gpu_only_alloc_col picks: the first ones, or none if too few.
LowestFree(n) ==
  {p \in FreePages : Cardinality({r \in FreePages : r < p}) < n}

\* Mutated: a query that finds no pages lets the next that waits go first.
HandlePrepareRotating ==
  /\ Handling("Prepare") /\ Head(events).first_try
  /\ LET q == Head(events).query IN
     IF Need[q] <= Cardinality(FreePages)
     THEN /\ kvc2_handle' = [kvc2_handle EXCEPT ![q] = TRUE]
          /\ block_index' = [block_index EXCEPT ![q] = LowestFree(Need[q])]
          /\ Enqueuing(<<Prepared(q)>>)
          /\ UNCHANGED waiting
     ELSE /\ waiting' = Tail(Append(waiting, q))
          /\ Enqueuing(<<Prepare(Head(Append(waiting, q)), waiting # <<>>)>>)
          /\ UNCHANGED <<kvc2_handle, block_index>>
  /\ plan_status' = [plan_status EXCEPT ![Head(events).query] = "Preparing"]
  /\ UNCHANGED <<query_id_counter, plan_position, ready_queue, has_query_preparing,
                 wait_done_prepare, active_query, next_batch, requests, engineVars>>

\* to_status(Preparing): the lookup answers at once, with pages or with nothing.  The
\* answer comes within the call, which sets Preparing at its end: Ready is overwritten.
HandlePrepareFirst ==
  /\ Handling("Prepare") /\ Head(events).first_try
  /\ LET q == Head(events).query IN
     IF Need[q] <= Cardinality(FreePages)
     THEN /\ kvc2_handle' = [kvc2_handle EXCEPT ![q] = TRUE]
          /\ block_index' = [block_index EXCEPT ![q] = LowestFree(Need[q])]
          /\ Enqueuing(<<Prepared(q)>>)
     ELSE /\ UNCHANGED <<kvc2_handle, block_index>>
          /\ Enqueuing(<<Prepare(q, FALSE)>>)
  /\ plan_status' = [plan_status EXCEPT ![Head(events).query] = "Preparing"]
  /\ UNCHANGED <<query_id_counter, plan_position, admitVars, active_query, next_batch,
                 requests, engineVars>>

\* A failed prepare is kept until some query is done.
HandlePrepareAgain ==
  /\ Handling("Prepare") /\ ~Head(events).first_try
  /\ wait_done_prepare' = Head(events).query
  /\ Enqueuing(<<>>)
  /\ UNCHANGED <<query_id_counter, queryVars, waiting, ready_queue, has_query_preparing,
                 active_query, next_batch, requests, engineVars>>

\* Mutated: the next query is prepared, and has_query_preparing goes down with it.
HandlePreparedResets ==
  /\ Handling("Prepared")
  /\ ready_queue' = Append(ready_queue, Head(events).query)
  /\ has_query_preparing' = FALSE
  /\ waiting' = IF waiting = <<>> THEN <<>> ELSE Tail(waiting)
  /\ Enqueuing(IF waiting = <<>> THEN <<>> ELSE <<Prepare(Head(waiting), TRUE)>>)
  /\ UNCHANGED <<query_id_counter, queryVars, wait_done_prepare, active_query, next_batch,
                 requests, engineVars>>

\* The query is ready for a batch, and the next one is prepared.
HandlePrepared ==
  /\ Handling("Prepared")
  /\ ready_queue' = Append(ready_queue, Head(events).query)
  /\ IF waiting = <<>>
     THEN /\ has_query_preparing' = FALSE
          /\ UNCHANGED waiting
          /\ Enqueuing(<<>>)
     ELSE /\ waiting' = Tail(waiting)
          /\ Enqueuing(<<Prepare(Head(waiting), TRUE)>>)
          /\ UNCHANGED has_query_preparing
  /\ UNCHANGED <<query_id_counter, queryVars, wait_done_prepare, active_query, next_batch,
                 requests, engineVars>>

\* absorb_update: the running queries of an update that are done with it.
FinishedBy(us) ==
  {u.query : u \in {v \in us : Running(v.query)
                       /\ (v.decode_done \/ v.active_position = Estimated[v.query] - 1)}}

\* absorb_update hands the tokens of a running query to its handle, which may be gone.
HandleLost(us) == \E u \in us : Running(u.query) /\ ~kvc2_handle[u.query]

\* Done queries release their pages, announce themselves and leave.
HandleUpdate ==
  /\ Handling("Update") /\ ~HandleLost(Head(events).updates)
  /\ LET done == FinishedBy(Head(events).updates) IN
     /\ plan_status' = [q \in Queries |-> IF q \in done THEN "Done" ELSE plan_status[q]]
     /\ kvc2_handle' = [q \in Queries |-> kvc2_handle[q] /\ q \notin done]
     /\ active_query' = {q \in active_query : plan_status'[q] # "Done"}
     /\ Enqueuing([i \in 1..Cardinality(done) |-> QueryDone])
  /\ UNCHANGED <<query_id_counter, plan_position, block_index, admitVars, next_batch,
                 requests, engineVars>>

\* A virtual call through a null handle ends the process.
HandleUpdateCrash ==
  /\ Handling("Update") /\ HandleLost(Head(events).updates)
  /\ loop' = "crashed"
  /\ UNCHANGED <<events, query_id_counter, queryVars, admitVars, active_query, next_batch,
                 requests, engineVars>>

\* Mutated: the kept prepare is not marked as a first try again.
HandleQueryStatusAgain ==
  /\ Handling("QueryStatus")
  /\ wait_done_prepare' = None
  /\ Enqueuing(IF wait_done_prepare = None THEN <<>>
               ELSE <<Prepare(wait_done_prepare, FALSE)>>)
  /\ UNCHANGED <<query_id_counter, queryVars, waiting, ready_queue, has_query_preparing,
                 active_query, next_batch, requests, engineVars>>

\* The prepare that waits for a Done gets another try.
HandleQueryStatus ==
  /\ Handling("QueryStatus")
  /\ wait_done_prepare' = None
  /\ Enqueuing(IF wait_done_prepare = None THEN <<>>
               ELSE <<Prepare(wait_done_prepare, TRUE)>>)
  /\ UNCHANGED <<query_id_counter, queryVars, waiting, ready_queue, has_query_preparing,
                 active_query, next_batch, requests, engineVars>>

\* Mutated: the plan is set to the length of the task, not to its end.
HandleTakenLength ==
  /\ Handling("Taken")
  /\ LET b == Head(events).batch
         task(q) == CHOOSE t \in b.prefill : t.query = q
         planned == {t.query : t \in {t \in b.prefill : t.length # 0}} IN
     /\ plan_position' = [q \in Queries |-> IF q \in planned THEN task(q).length
                                            ELSE plan_position[q]]
     /\ plan_status' = [q \in Queries |-> IF q \in planned /\ task(q).length = Prompt[q]
                                          THEN "Decode" ELSE plan_status[q]]
     /\ active_query' = active_query \cup {q \in QueryIds(b) : plan_status'[q] # "Done"}
     /\ Enqueuing(<<>>)
  /\ UNCHANGED <<query_id_counter, kvc2_handle, block_index, admitVars, next_batch, requests,
                 engineVars>>

\* The plan moves on by what the engine took, also for a query that is done by now.  Where
\* a decode stands in the plan (absorb_decode_task) is never read again and left out.
HandleTaken ==
  /\ Handling("Taken")
  /\ LET b == Head(events).batch
         task(q) == CHOOSE t \in b.prefill : t.query = q
         planned == {t.query : t \in {t \in b.prefill : t.length # 0}}
         position(q) == task(q).start + task(q).length IN
     /\ plan_position' = [q \in Queries |-> IF q \in planned THEN position(q)
                                            ELSE plan_position[q]]
     /\ plan_status' = [q \in Queries |-> IF q \in planned /\ position(q) = Prompt[q]
                                          THEN "Decode" ELSE plan_status[q]]
     /\ active_query' = active_query \cup {q \in QueryIds(b) : plan_status'[q] # "Done"}
     /\ Enqueuing(<<>>)
  /\ UNCHANGED <<query_id_counter, kvc2_handle, block_index, admitVars, next_batch, requests,
                 engineVars>>

InPrefill(S) == {q \in S : plan_status[q] = "Prefill"}

\* strategy_schedule: as many ready queries as there is room for, in order.
Admitted ==
  LET room(have, limit) == IF have < limit THEN limit - have ELSE 0
      n == MinOf(Len(ready_queue),
                 MinOf(room(Cardinality(InPrefill(active_query)), MaxPrefill),
                       room(Cardinality(active_query), MaxBatch)))
  IN  SubSeq(ready_queue, 1, n)

\* Mutated: a chunk is not cut off at the end of the prompt.
BatchOfWholeChunks(S, status, position) ==
  [prefill |-> {[query |-> q, start |-> position[q], length |-> 2 * Chunk]
                  : q \in {r \in S : status[r] = "Prefill"}},
   decode  |-> {q \in S : status[q] = "Decode"}]

\* gen_batch_query_todo, for queries with these statuses and positions.  It asserts that fewer
\* than 2 * (MaxBatch - 1) queries decode, which is more than MaxBatch: only queries that came
\* back after they were done can exceed it.  That abort, after which nothing happens, is left out.
BatchOf(S, status, position) ==
  LET filling  == {q \in S : status[q] = "Prefill"}
      decoding == {q \in S : status[q] = "Decode"}
      crowded  == \/ Cardinality(filling) >= 2
                  \/ Cardinality(filling) = 1 /\ MaxBatch - 2 < Cardinality(decoding)
      length   == IF crowded THEN Chunk ELSE 2 * Chunk
  IN  [prefill |-> {[query |-> q, start |-> position[q],
                     length |-> MinOf(length, Prompt[q] - position[q])] : q \in filling},
       decode  |-> decoding]

\* A new batch replaces the old one, taken or not; in gpu_only mode nothing is
\* matched and prefill starts at 0.  The loop enqueues no Schedule after one.
HandleSchedule ==
  /\ Handling("Schedule")
  /\ LET admitted == {Admitted[i] : i \in DOMAIN Admitted} IN
     /\ ready_queue' = SubSeq(ready_queue, Len(Admitted) + 1, Len(ready_queue))
     /\ active_query' = active_query \cup admitted
     /\ plan_status' = [q \in Queries |-> IF q \in admitted THEN "Prefill" ELSE plan_status[q]]
     /\ plan_position' = [q \in Queries |-> IF q \in admitted THEN 0 ELSE plan_position[q]]
     /\ next_batch' = [batch |-> BatchOf(active_query', plan_status', plan_position'),
                        fresh |-> TRUE]
  /\ events' = Tail(events)
  /\ UNCHANGED <<loop, query_id_counter, kvc2_handle, block_index, waiting,
                 has_query_preparing, wait_done_prepare, requests, engineVars>>

\* An event that leaves the queue empty is followed by a Schedule.
LoopCheck ==
  /\ loop = "check"
  /\ loop' = "dequeue"
  /\ events' = IF events = <<>> THEN <<Schedule>> ELSE events
  /\ UNCHANGED <<query_id_counter, queryVars, admitVars, active_query, next_batch,
                 requests, engineVars>>

EventLoop ==
  \/ HandleAdd \/ HandlePrepareFirst \/ HandlePrepareAgain \/ HandlePrepared
  \/ HandleUpdate \/ HandleUpdateCrash \/ HandleQueryStatus \/ HandleTaken \/ HandleSchedule \/ LoopCheck

-----------------------------------------------------------------------------
(* The engine.  Its batch runs on the device from EngineFinish on; the     *)
(* tokens of the batch before go to the clients, and its updates to the    *)
(* scheduler, while it runs.  The loop, the pointer and update_last_batch  *)
(* are in one process: when it has crashed, the engine's call never ends.  *)

EnginePut ==
  /\ engine = "put" /\ loop # "crashed"
  /\ engine' = "take"
  /\ ended' = ended \cup {u.query : u \in {v \in updates : v.decode_done}}
  /\ events' = Append(events, Update(updates))
  /\ UNCHANGED <<loop, query_id_counter, queryVars, admitVars, active_query, next_batch,
                 requests, batch, upcoming, updates, active_position, repeated>>

\* The loop has accounted for every chunk of the query that was taken, and the task goes on
\* where the plan stands.
GoesOn(t) ==
  /\ \A i \in DOMAIN events :
       events[i].type = "Taken" => \A u \in events[i].batch.prefill : u.query # t.query
  /\ plan_status[t.query] = "Prefill" /\ plan_position[t.query] = t.start

\* The busy wait of update_last_batch: touch_load takes the flag down.  Any batch will do.
EngineTake ==
  /\ engine = "take" /\ loop # "crashed" /\ next_batch.fresh
  /\ engine' = "report"
  /\ upcoming' = next_batch.batch
  /\ next_batch' = [next_batch EXCEPT !.fresh = FALSE]
  /\ repeated' = repeated \cup {t.query : t \in {t \in next_batch.batch.prefill : ~GoesOn(t)}}
  /\ UNCHANGED <<events, loop, query_id_counter, queryVars, admitVars, active_query,
                 requests, batch, updates, active_position, ended>>

EngineReport ==
  /\ engine = "report" /\ loop # "crashed"
  /\ engine' = "finish"
  /\ events' = Append(events, Taken(upcoming))
  /\ UNCHANGED <<loop, query_id_counter, queryVars, admitVars, active_query, next_batch,
                 requests, batch, upcoming, updates, active_position, ended, repeated>>

\* Where query_manager.update leaves a query of the batch that ran.
Advanced(q) ==
  active_position[q] + IF q \in batch.decode THEN 1
                       ELSE (CHOOSE t \in batch.prefill : t.query = q).length

\* check_stop: near its estimated length a query must stop, before it may.
MayStop(q) == IF q \in batch.decode
              THEN IF Advanced(q) >= Estimated[q] - 2 THEN {TRUE} ELSE BOOLEAN
              ELSE {FALSE}

\* The device is done: query_manager.update makes the updates, and the batch
\* taken meanwhile is the next to run.
EngineFinish ==
  /\ engine = "finish"
  /\ engine' = "put"
  /\ \E stop \in [QueryIds(batch) -> BOOLEAN] :
       /\ \A q \in QueryIds(batch) : stop[q] \in MayStop(q)
       /\ updates' = {[query |-> q, active_position |-> Advanced(q), decode_done |-> stop[q]]
                        : q \in QueryIds(batch)}
  /\ active_position' = [q \in Queries |-> IF q \in QueryIds(batch) THEN Advanced(q)
                                            ELSE active_position[q]]
  /\ batch' = upcoming /\ upcoming' = NoBatch
  /\ UNCHANGED <<events, loop, query_id_counter, queryVars, admitVars, active_query,
                 next_batch, requests, ended, repeated>>

Engine == EnginePut \/ EngineTake \/ EngineReport \/ EngineFinish

\* What is left when the scheduler's process is gone: nobody is answered any more.
Gone == loop = "crashed" /\ engine # "finish" /\ UNCHANGED vars

Next == AddQuery \/ EventLoop \/ Engine \/ Gone

Spec == Init /\ [][Next]_vars

\* The event loop's thread and the engine's process each keep running.
FairSpec == Spec /\ WF_vars(EventLoop) /\ WF_vars(Engine)

-----------------------------------------------------------------------------

Tasks == [query : Queries, start : Nat, length : Nat]
IsBatch(b) == /\ b.prefill \subseteq Tasks /\ b.decode \subseteq Queries
              /\ Cardinality(b.prefill) <= 2  \* an assertion of gen_batch_query_todo
IsUpdates(us) ==
  us \subseteq [query : Queries, active_position : Nat, decode_done : BOOLEAN]
IsEvent(e) ==
  \/ e \in {Add, Schedule, QueryDone}
  \/ e \in {Prepare(q, first) : q \in Queries, first \in BOOLEAN}
  \/ e \in {Prepared(q) : q \in Queries}
  \/ e.type = "Update" /\ IsUpdates(e.updates)
  \/ e.type = "Taken" /\ IsBatch(e.batch)

(* Every variable stays in the range its C++ or Python type gives it, and  *)
(* no more queries are active than max_batch_size, but for those that come *)
(* back after they were done.                                              *)
TypeOK ==
  /\ \A i \in DOMAIN events : IsEvent(events[i])
  /\ loop \in {"dequeue", "check", "crashed"} /\ query_id_counter \in 1..(MaxQueries + 1)
  /\ plan_status \in [Queries -> Statuses] /\ kvc2_handle \in [Queries -> BOOLEAN]
  /\ \A q \in Queries : plan_position[q] \in 0..Prompt[q] /\ block_index[q] \subseteq Pages
  /\ waiting \in Seq(Queries) /\ ready_queue \in Seq(Queries)
  /\ has_query_preparing \in BOOLEAN /\ wait_done_prepare \in Queries \cup {None}
  /\ active_query \subseteq Queries /\ repeated \subseteq Queries
  /\ Cardinality(active_query \ repeated) <= MaxBatch
  /\ IsBatch(next_batch.batch) /\ next_batch.fresh \in BOOLEAN
  /\ requests \in 0..MaxQueries
  /\ engine \in {"put", "take", "report", "finish"}
  /\ IsBatch(batch) /\ IsBatch(upcoming) /\ IsUpdates(updates)
  /\ active_position \in [Queries -> Nat] /\ ended \subseteq Queries

(* The query being prepared is one event or the kept one, never two and    *)
(* never lost while others wait: strategy_prepare asserts that it does not *)
(* overwrite wait_done_prepare.                                            *)
OnePreparing ==
  LET inFlight == {i \in DOMAIN events : events[i].type \in {"Prepare", "Prepared"}} IN
  /\ Cardinality(inFlight) + (IF wait_done_prepare = None THEN 0 ELSE 1)
       = (IF has_query_preparing THEN 1 ELSE 0)
  /\ waiting # <<>> => has_query_preparing

(* Queries enter the batches in the order of their ids, also when a        *)
(* prepare fails and is tried again (FCFS).                                *)
FirstComeFirstServed ==
  \A q, r \in Queries : q < r /\ plan_status[r] \in {"Prefill", "Decode", "Done"}
                        => plan_status[q] \in {"Prefill", "Decode", "Done"}

(* A prefill task of the batch on the device never starts after the place  *)
(* the engine has reached in that query: no chunk of a prompt is skipped,  *)
(* however late the loop accounts for what was taken.  And it starts at    *)
(* that very place, the first one that has no kvcache, unless a chunk of   *)
(* this same query was taken twice: chunks of others do not matter.        *)
PrefillContinues ==
  \A t \in batch.prefill :
    /\ t.start <= active_position[t.query]
    /\ t.query \notin repeated => t.start = active_position[t.query]

(* A query that runs still has its handle, and so its pages; absorb_update *)
(* calls through it.  And a batch that was taken before a query of it was  *)
(* found done writes to the pages that query has released; whoever holds   *)
(* them since has not written there yet, and is not in the same batch.     *)
(* Only a query of which a chunk was taken again may break this.           *)
NoForeignWrite ==
  \A q \in Queries \ repeated :
    /\ Running(q) => kvc2_handle[q]
    /\ q \in QueryIds(batch) => \A r \in Queries \ {q} :
         Running(r) /\ block_index[q] \cap Held(r) # {}
           => active_position[r] = 0 /\ r \notin QueryIds(batch)

(* From some point on every query that was added is done, its stream      *)
(* ended with None and its pages free again, however often its prepare     *)
(* failed; unless one of its chunks is taken again, or the scheduler       *)
(* crashes, which it does for such a query only.                           *)
EveryQueryFinishes ==
  <>[](\A q \in Queries : query_id_counter > q =>
         \/ plan_status[q] = "Done" /\ Held(q) = {} /\ q \in ended
         \/ q \in repeated \/ (loop = "crashed" /\ repeated # {}))
=============================================================================
