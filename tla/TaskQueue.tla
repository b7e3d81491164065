------------------------------ MODULE TaskQueue ------------------------------
(***************************************************************************)
(* kt-kernel/cpu_backend/task_queue.{h,cpp}: the queue through which every *)
(* CPU operator call of KTransformers runs.  Any number of client threads  *)
(* (the Python thread and the thread that runs CUDA host functions) call   *)
(* enqueue and sync; one worker thread runs the tasks.                     *)
(*                                                                         *)
(* The queue is a singly linked list that starts with a dummy node.  A     *)
(* producer announces its task in `pending', swaps the tail pointer and    *)
(* only then links its node behind the previous tail: between the swap and *)
(* the link the list is broken in two, and the worker must wait at the     *)
(* break.  One atomic operation of the code is one action here.            *)
(*                                                                         *)
(* A node is named by the task it carries.  `order', `ran' and `issued'    *)
(* are history variables: no guard reads them.                             *)
(***************************************************************************)
EXTENDS Naturals, Sequences, FiniteSets

CONSTANTS
  Producers,      \* the threads that call enqueue and sync
  Tasks,          \* the closures they submit, each at most once
  Allowances,     \* the values of allow_n_pending that clients pass to sync
  Dummy,          \* the node the constructor allocates
  NULL            \* the null pointer

ASSUME ProducersAssumption  == IsFiniteSet(Producers)
ASSUME AllowancesAssumption == Allowances \subseteq Nat
ASSUME NodesAssumption      == Dummy \notin Tasks /\ NULL \notin Tasks /\ NULL # Dummy
ASSUME NullAssumption       == NULL \notin Allowances

Nodes == Tasks \union {Dummy}

VARIABLES
  next,       \* Node::next
  head,       \* TaskQueue::head, read by the destructor only
  tail,       \* TaskQueue::tail
  done,       \* TaskQueue::done
  pending,    \* TaskQueue::pending
  freed,      \* the nodes that were deleted
  pc,         \* where each client thread is
  node,       \* enqueue's local `node'
  prev,       \* enqueue's local `prev'
  allow,      \* sync's argument
  wpc,        \* where the worker thread is
  curr,       \* worker's local `curr'
  wnext,      \* worker's local `next'
  dpc,        \* where the destructor is
  order,      \* history: the nodes in the order of the tail exchanges
  ran,        \* history: the tasks in the order the worker started them
  issued      \* history: the tasks of each producer, in its program order

listVars     == <<next, head, tail, freed>>
clientVars   == <<pc, node, prev, allow>>
workerVars   == <<wpc, curr, wnext>>
historyVars  == <<order, ran, issued>>
vars == <<listVars, done, pending, clientVars, workerVars, dpc, historyVars>>

Init ==
  /\ next = [n \in Nodes |-> NULL]
  /\ head = Dummy
  /\ tail = Dummy
  /\ done = FALSE
  /\ pending = 0
  /\ freed = {}
  /\ pc = [p \in Producers |-> "idle"]
  /\ node = [p \in Producers |-> NULL]
  /\ prev = [p \in Producers |-> NULL]
  /\ allow = [p \in Producers |-> 0]
  /\ wpc = "top"
  /\ curr = Dummy
  /\ wnext = NULL
  /\ dpc = "alive"
  /\ order = <<Dummy>>
  /\ ran = <<>>
  /\ issued = [p \in Producers |-> <<>>]

-----------------------------------------------------------------------------
(* enqueue(task) *)

Submitted == {node[p] : p \in {q \in Producers : pc[q] = "swap"}}
               \union {order[i] : i \in 2..Len(order)}

\* pending.fetch_add(1); node = new Node(task)
EnqueueAnnounce(p, t) ==
  /\ dpc = "alive"
  /\ pc[p] = "idle"
  /\ t \notin Submitted
  /\ pending' = pending + 1
  /\ node' = [node EXCEPT ![p] = t]
  /\ pc' = [pc EXCEPT ![p] = "swap"]
  /\ UNCHANGED <<listVars, done, prev, allow, workerVars, dpc, historyVars>>

\* prev = tail.exchange(node)
EnqueueSwap(p) ==
  /\ pc[p] = "swap"
  /\ prev' = [prev EXCEPT ![p] = tail]
  /\ tail' = node[p]
  /\ pc' = [pc EXCEPT ![p] = "link"]
  /\ order' = Append(order, node[p])
  /\ issued' = [issued EXCEPT ![p] = Append(@, node[p])]
  /\ UNCHANGED <<next, head, freed, done, pending, node, allow, workerVars, dpc, ran>>

\* Mutated: the node is linked behind what is the tail now.
EnqueueLinkAtTail(p) ==
  /\ pc[p] = "link"
  /\ next' = [next EXCEPT ![tail] = node[p]]
  /\ pc' = [pc EXCEPT ![p] = "idle"]
  /\ UNCHANGED <<head, tail, freed, done, pending, node, prev, allow, workerVars, dpc,
                 historyVars>>

\* prev->next.store(node)
EnqueueLink(p) ==
  /\ pc[p] = "link"
  /\ next' = [next EXCEPT ![prev[p]] = node[p]]
  /\ pc' = [pc EXCEPT ![p] = "idle"]
  /\ UNCHANGED <<head, tail, freed, done, pending, node, prev, allow, workerVars, dpc,
                 historyVars>>

(* sync(allow_n_pending): call, then spin on `pending' *)

SyncCall(p, n) ==
  /\ dpc = "alive"
  /\ pc[p] = "idle"
  /\ allow' = [allow EXCEPT ![p] = n]
  /\ pc' = [pc EXCEPT ![p] = "sync"]
  /\ UNCHANGED <<listVars, done, pending, node, prev, workerVars, dpc, historyVars>>

\* Mutated: `>=' for `>' in the loop condition, one task too many.
SyncReturnEarly(p) ==
  /\ pc[p] = "sync"
  /\ pending <= allow[p] + 1
  /\ pc' = [pc EXCEPT ![p] = "idle"]
  /\ UNCHANGED <<listVars, done, pending, node, prev, allow, workerVars, dpc, historyVars>>

SyncReturn(p) ==
  /\ pc[p] = "sync"
  /\ pending <= allow[p]
  /\ pc' = [pc EXCEPT ![p] = "idle"]
  /\ UNCHANGED <<listVars, done, pending, node, prev, allow, workerVars, dpc, historyVars>>

-----------------------------------------------------------------------------
(* worker() *)

\* while (!done)
WorkerCheck ==
  /\ wpc = "top"
  /\ wpc' = IF done THEN "exited" ELSE "peek"
  /\ UNCHANGED <<listVars, done, pending, clientVars, curr, wnext, dpc, historyVars>>

\* next = curr->next; a null pointer sends the loop round again
WorkerPeekNothing ==
  /\ wpc = "peek"
  /\ next[curr] = NULL
  /\ wpc' = "top"
  /\ UNCHANGED <<listVars, done, pending, clientVars, curr, wnext, dpc, historyVars>>

\* next = curr->next; next->task() starts
WorkerStart ==
  /\ wpc = "peek"
  /\ next[curr] # NULL
  /\ wnext' = next[curr]
  /\ ran' = Append(ran, next[curr])
  /\ wpc' = "busy"
  /\ UNCHANGED <<listVars, done, pending, clientVars, curr, dpc, order, issued>>

\* next->task() returns
WorkerFinish ==
  /\ wpc = "busy"
  /\ wpc' = "retire"
  /\ UNCHANGED <<listVars, done, pending, clientVars, curr, wnext, dpc, historyVars>>

\* Mutated: the node that was run is deleted in place of the one before it.
WorkerRetireNext ==
  /\ wpc = "retire"
  /\ freed' = freed \union {wnext}
  /\ curr' = wnext
  /\ head' = wnext
  /\ wpc' = "count"
  /\ UNCHANGED <<next, tail, done, pending, clientVars, wnext, dpc, historyVars>>

\* Mutated: `curr = next' is forgotten.
WorkerRetireStays ==
  /\ wpc = "retire"
  /\ head' = wnext
  /\ wpc' = "count"
  /\ UNCHANGED <<next, tail, freed, done, pending, clientVars, curr, wnext, dpc, historyVars>>

\* delete curr; curr = next; head.store(curr)
WorkerRetire ==
  /\ wpc = "retire"
  /\ freed' = freed \union {curr}
  /\ curr' = wnext
  /\ head' = wnext
  /\ wpc' = "count"
  /\ UNCHANGED <<next, tail, done, pending, clientVars, wnext, dpc, historyVars>>

\* Mutated: the decrement is forgotten.
WorkerNoCount ==
  /\ wpc = "count"
  /\ wpc' = "top"
  /\ UNCHANGED <<listVars, done, pending, clientVars, curr, wnext, dpc, historyVars>>

\* pending.fetch_sub(1)
WorkerCount ==
  /\ wpc = "count"
  /\ pending' = pending - 1
  /\ wpc' = "top"
  /\ UNCHANGED <<listVars, done, clientVars, curr, wnext, dpc, historyVars>>

Worker ==
  WorkerCheck \/ WorkerPeekNothing \/ WorkerStart \/ WorkerFinish \/ WorkerRetire \/ WorkerCount

-----------------------------------------------------------------------------
(* ~TaskQueue(): no client is inside the queue any more (C++ object life-  *)
(* time); tasks that still wait are dropped with their nodes.              *)

\* done.store(true); workerThread.join() starts
DestroyStop ==
  /\ dpc = "alive"
  /\ \A p \in Producers : pc[p] = "idle"
  /\ done' = TRUE
  /\ dpc' = "join"
  /\ UNCHANGED <<listVars, pending, clientVars, workerVars, historyVars>>

\* join() returns; node = head.load()
DestroyJoin ==
  /\ dpc = "join"
  /\ wpc = "exited"
  /\ dpc' = "sweep"
  /\ UNCHANGED <<listVars, done, pending, clientVars, workerVars, historyVars>>

\* one round of `while (node)'; `head' stands for the local `node' from here on
DestroySweep ==
  /\ dpc = "sweep"
  /\ head # NULL
  /\ freed' = freed \union {head}
  /\ head' = next[head]
  /\ UNCHANGED <<next, tail, done, pending, clientVars, workerVars, dpc, historyVars>>

\* Mutated: the nodes of dropped tasks stay behind.
DestroyReturnEarly ==
  /\ dpc = "sweep"
  /\ dpc' = "gone"
  /\ UNCHANGED <<listVars, done, pending, clientVars, workerVars, historyVars>>

DestroyReturn ==
  /\ dpc = "sweep"
  /\ head = NULL
  /\ dpc' = "gone"
  /\ UNCHANGED <<listVars, done, pending, clientVars, workerVars, historyVars>>

\* The object is gone for good.
Gone == dpc = "gone" /\ UNCHANGED vars

Destructor == DestroyStop \/ DestroyJoin \/ DestroySweep \/ DestroyReturn

Client(p) ==
  \/ \E t \in Tasks : EnqueueAnnounce(p, t)
  \/ EnqueueSwap(p)
  \/ EnqueueLink(p)
  \/ \E n \in Allowances : SyncCall(p, n)
  \/ SyncReturn(p)

Next ==
  \/ \E p \in Producers : Client(p)
  \/ Worker
  \/ Destructor
  \/ Gone

Spec == Init /\ [][Next]_vars

(* The operating system schedules every thread, tasks return, and a thread *)
(* inside enqueue, sync or the destructor goes on.  Nothing obliges a      *)
(* client to make a new call or to destroy the queue.                      *)
Fairness ==
  /\ WF_vars(Worker)
  /\ WF_vars(DestroyJoin \/ DestroySweep \/ DestroyReturn)
  /\ \A p \in Producers : WF_vars(EnqueueSwap(p) \/ EnqueueLink(p) \/ SyncReturn(p))

FairSpec == Spec /\ Fairness

-----------------------------------------------------------------------------
(* Derived state *)

Allocated == Submitted \union {Dummy}

\* The number of tasks whose effects are complete.
Complete == Len(ran) - (IF wpc = "busy" THEN 1 ELSE 0)

Completed == {ran[i] : i \in 1..Complete}

(* Every variable has its type. *)
TypeOK ==
  /\ next \in [Nodes -> Nodes \union {NULL}]
  /\ head \in Nodes \union {NULL}
  /\ tail \in Nodes
  /\ done \in BOOLEAN
  /\ pending \in Nat
  /\ freed \in SUBSET Nodes
  /\ pc \in [Producers -> {"idle", "swap", "link", "sync"}]
  /\ node \in [Producers -> Tasks \union {NULL}]
  /\ prev \in [Producers -> Nodes \union {NULL}]
  /\ allow \in [Producers -> Nat]
  /\ wpc \in {"top", "peek", "busy", "retire", "count", "exited"}
  /\ curr \in Nodes
  /\ wnext \in Nodes \union {NULL}
  /\ dpc \in {"alive", "join", "sweep", "gone"}
  /\ order \in Seq(Nodes)
  /\ ran \in Seq(Nodes)
  /\ issued \in [Producers -> Seq(Tasks)]

(* No thread holds a pointer it will still follow to a node that was       *)
(* deleted: not a producer between its exchange and its link (the worker   *)
(* must not have passed the break in the list), not the worker, and not    *)
(* the destructor (no double free).                                        *)
NoUseAfterFree ==
  /\ \A p \in Producers : pc[p] = "link" => {prev[p], node[p]} \cap freed = {}
  /\ wpc # "exited" => curr \notin freed
  /\ wpc \in {"busy", "retire"} => wnext \notin freed
  /\ dpc = "sweep" => head \notin freed

(* When a sync(n) call returns, every client's tasks have completed except *)
(* at most the last n that client submitted: this is what the deferred     *)
(* experts (sync with one task pending) rely on.  It needs the count to be *)
(* announced before the exchange, decremented after the run, and the order *)
(* of the runs to be the order of the exchanges.                           *)
SyncHonoured ==
  [][\A p, q \in Producers :
       pc[p] = "sync" /\ pc'[p] = "idle" =>
         \A i \in 1..Len(issued[q]) : i + allow[p] <= Len(issued[q]) => issued[q][i] \in Completed]_vars

(* Destruction gives back every node that was ever allocated, the dummy    *)
(* and the nodes of dropped tasks included.                                *)
NothingLeaks == dpc = "gone" => freed = Allocated

(* A task that was submitted runs to its end unless the queue is destroyed *)
(* first: the worker never stays at a break in the list.                   *)
EveryTaskRuns == \A t \in Tasks : t \in Submitted ~> (t \in Completed \/ done)

(* A call of sync comes back, and so does the destructor: the worker sees  *)
(* `done' and is joined.                                                   *)
CallsReturn ==
  /\ \A p \in Producers : pc[p] = "sync" ~> pc[p] = "idle"
  /\ dpc # "alive" ~> dpc = "gone"

(* The queue implements the executor its clients reason about. *)
Executor == INSTANCE FifoExecutor WITH
  Clients   <- Producers,
  None      <- NULL,
  announced <- [p \in Producers |-> IF pc[p] = "swap" THEN node[p] ELSE NULL],
  queue     <- SubSeq(order, Len(ran) + 2, Len(order)),
  active    <- IF wpc = "busy" THEN wnext ELSE NULL,
  finished  <- Completed,
  waiting   <- [p \in Producers |-> IF pc[p] = "sync" THEN allow[p] ELSE NULL],
  phase     <- IF dpc = "alive" THEN "open" ELSE IF dpc = "join" THEN "closing" ELSE "closed"

ImplementsExecutor == Executor!Spec
=============================================================================
