----------------------------- MODULE SftTaskQueue -----------------------------
(***************************************************************************)
(* kt-sft/csrc/ktransformers_ext/cpu_backend/task_queue.{h,cpp}: the task  *)
(* queue of the fine-tuning back end.  A std::queue under a mutex, a       *)
(* condition variable on which the worker sleeps, and an atomic flag on    *)
(* which sync spins without the mutex.                                     *)
(*                                                                         *)
(* The constructor starts the worker before it stores the two flags, and   *)
(* neither has an initialiser: what the worker can read from exit_flag     *)
(* until then is the constant Garbage.                                     *)
(***************************************************************************)
EXTENDS Naturals, Sequences, FiniteSets, SequencesExt

CONSTANTS
  Clients,       \* the threads that call enqueue and sync
  Tasks,         \* the closures they submit, each at most once
  Garbage,       \* what an uninitialised exit_flag may hold
  MaxSpurious,   \* bound: the spurious wakeups of the condition variable
  NULL

ASSUME ClientsAssumption  == IsFiniteSet(Clients)
ASSUME NullAssumption     == NULL \notin Tasks \union Clients \union {0}
ASSUME MutexAssumption    == {"worker", "destructor"} \cap (Clients \union {NULL}) = {}
ASSUME GarbageAssumption  == Garbage \subseteq BOOLEAN /\ Garbage # {}
ASSUME SpuriousAssumption == MaxSpurious \in Nat

VARIABLES
  tasks,       \* TaskQueue::tasks
  mutex,       \* who holds TaskQueue::mutex, or NULL
  sync_flag,
  exit_flag,
  cpc,         \* where the constructor is
  call, node,    \* where each client is, and enqueue's argument
  wpc, task,   \* where the worker is, and processTasks' local `task'
  dpc,         \* where the destructor is
  spurious,    \* the number of spurious wakeups so far
  ran,         \* history: the tasks in the order they were started
  issued       \* history: the tasks whose enqueue has stored the flag, per client

flagVars   == <<sync_flag, exit_flag>>
clientVars == <<call, node>>
workerVars == <<wpc, task>>
historyVars == <<ran, issued>>
queueVars == <<tasks, mutex, flagVars, cpc, clientVars, workerVars, dpc, spurious, historyVars>>

QueueInit ==
  /\ tasks = <<>>
  /\ mutex = NULL
  /\ sync_flag \in BOOLEAN
  /\ exit_flag \in Garbage
  /\ cpc = "store_sync"
  /\ call = [c \in Clients |-> "idle"]
  /\ node = [c \in Clients |-> NULL]
  /\ wpc = "lock"
  /\ task = NULL
  /\ dpc = "alive"
  /\ spurious = 0
  /\ ran = <<>>
  /\ issued = [c \in Clients |-> <<>>]

-----------------------------------------------------------------------------
(* TaskQueue(): the worker thread already runs *)

StoreSync ==
  /\ cpc = "store_sync"
  /\ sync_flag' = TRUE
  /\ cpc' = "store_exit"
  /\ UNCHANGED <<tasks, mutex, exit_flag, clientVars, workerVars, dpc, spurious, historyVars>>

StoreExitFlag ==
  /\ cpc = "store_exit"
  /\ exit_flag' = FALSE
  /\ cpc' = "done"
  /\ UNCHANGED <<tasks, mutex, sync_flag, clientVars, workerVars, dpc, spurious, historyVars>>

Constructor == StoreSync \/ StoreExitFlag

Usable == cpc = "done" /\ dpc = "alive"

-----------------------------------------------------------------------------
(* enqueue(task) and sync() *)

Submitted == {node[c] : c \in {d \in Clients : call[d] \in {"lock", "push", "flag"}}}
               \union UNION {ToSet(issued[c]) : c \in Clients}

EnqueueCall(c, t) ==
  /\ Usable
  /\ call[c] = "idle"
  /\ t \notin Submitted
  /\ node' = [node EXCEPT ![c] = t]
  /\ call' = [call EXCEPT ![c] = "lock"]
  /\ UNCHANGED <<tasks, mutex, flagVars, cpc, workerVars, dpc, spurious, historyVars>>

EnqueueLock(c) ==
  /\ call[c] = "lock"
  /\ mutex = NULL
  /\ mutex' = c
  /\ call' = [call EXCEPT ![c] = "push"]
  /\ UNCHANGED <<tasks, flagVars, cpc, node, workerVars, dpc, spurious, historyVars>>

\* Mutated: what is pushed was moved from.
EnqueuePushMoved(c) ==
  /\ call[c] = "push"
  /\ tasks' = Append(tasks, NULL)
  /\ call' = [call EXCEPT ![c] = "flag"]
  /\ UNCHANGED <<mutex, flagVars, cpc, node, workerVars, dpc, spurious, historyVars>>

\* tasks.push(task)
EnqueuePush(c) ==
  /\ call[c] = "push"
  /\ tasks' = Append(tasks, node[c])
  /\ call' = [call EXCEPT ![c] = "flag"]
  /\ UNCHANGED <<mutex, flagVars, cpc, node, workerVars, dpc, spurious, historyVars>>

\* sync_flag.store(false)
EnqueueFlag(c) ==
  /\ call[c] = "flag"
  /\ sync_flag' = FALSE
  /\ issued' = [issued EXCEPT ![c] = Append(@, node[c])]
  /\ call' = [call EXCEPT ![c] = "unlock"]
  /\ UNCHANGED <<tasks, mutex, exit_flag, cpc, node, workerVars, dpc, spurious, ran>>

EnqueueUnlock(c) ==
  /\ call[c] = "unlock"
  /\ mutex' = NULL
  /\ call' = [call EXCEPT ![c] = "notify"]
  /\ UNCHANGED <<tasks, flagVars, cpc, node, workerVars, dpc, spurious, historyVars>>

\* Mutated: nobody is woken.
EnqueueSilent(c) ==
  /\ call[c] = "notify"
  /\ call' = [call EXCEPT ![c] = "idle"]
  /\ UNCHANGED <<tasks, mutex, flagVars, cpc, node, workerVars, dpc, spurious, historyVars>>

\* cv.notify_one(): a sleeping worker wakes and wants the mutex back
EnqueueNotify(c) ==
  /\ call[c] = "notify"
  /\ wpc' = IF wpc = "asleep" THEN "lock" ELSE wpc
  /\ call' = [call EXCEPT ![c] = "idle"]
  /\ UNCHANGED <<tasks, mutex, flagVars, cpc, node, task, dpc, spurious, historyVars>>

SyncCall(c) ==
  /\ Usable
  /\ call[c] = "idle"
  /\ call' = [call EXCEPT ![c] = "sync"]
  /\ UNCHANGED <<tasks, mutex, flagVars, cpc, node, workerVars, dpc, spurious, historyVars>>

SyncReturn(c) ==
  /\ call[c] = "sync"
  /\ sync_flag
  /\ call' = [call EXCEPT ![c] = "idle"]
  /\ UNCHANGED <<tasks, mutex, flagVars, cpc, node, workerVars, dpc, spurious, historyVars>>

\* while (!sync_flag.load()) ;
SyncSpin(c) ==
  /\ call[c] = "sync"
  /\ ~sync_flag
  /\ UNCHANGED queueVars

-----------------------------------------------------------------------------
(* processTasks() *)

\* mutex.lock(), or the relocking at the end of a wait
WorkerLock ==
  /\ wpc = "lock"
  /\ mutex = NULL
  /\ mutex' = "worker"
  /\ wpc' = "check"
  /\ UNCHANGED <<tasks, flagVars, cpc, clientVars, task, dpc, spurious, historyVars>>

\* the predicate of the wait is false: sleep, and release the mutex with it
WorkerSleep ==
  /\ wpc = "check"
  /\ tasks = <<>> /\ ~exit_flag
  /\ mutex' = NULL
  /\ wpc' = "asleep"
  /\ UNCHANGED <<tasks, flagVars, cpc, clientVars, task, dpc, spurious, historyVars>>

WorkerWakesSpuriously ==
  /\ wpc = "asleep"
  /\ spurious < MaxSpurious
  /\ spurious' = spurious + 1
  /\ wpc' = "lock"
  /\ UNCHANGED <<tasks, mutex, flagVars, cpc, clientVars, task, dpc, historyVars>>

\* Mutated: `continue' for `return'.
WorkerExitNever ==
  /\ wpc = "check"
  /\ exit_flag /\ tasks = <<>>
  /\ mutex' = NULL
  /\ wpc' = "lock"
  /\ UNCHANGED <<tasks, flagVars, cpc, clientVars, task, dpc, spurious, historyVars>>

\* return, with the mutex held
WorkerExit ==
  /\ wpc = "check"
  /\ exit_flag /\ tasks = <<>>
  /\ wpc' = "exited"
  /\ UNCHANGED <<tasks, mutex, flagVars, cpc, clientVars, task, dpc, spurious, historyVars>>

\* task = tasks.front(); tasks.pop(); mutex.unlock(); task() starts
WorkerStart ==
  /\ wpc = "check"
  /\ tasks # <<>>
  /\ task' = Head(tasks)
  /\ tasks' = Tail(tasks)
  /\ ran' = Append(ran, Head(tasks))
  /\ mutex' = NULL
  /\ wpc' = "busy"
  /\ UNCHANGED <<flagVars, cpc, clientVars, dpc, spurious, issued>>

\* task() returns
WorkerFinish ==
  /\ wpc = "busy"
  /\ wpc' = "relock"
  /\ UNCHANGED <<tasks, mutex, flagVars, cpc, clientVars, task, dpc, spurious, historyVars>>

WorkerRelock ==
  /\ wpc = "relock"
  /\ mutex = NULL
  /\ mutex' = "worker"
  /\ wpc' = "report"
  /\ UNCHANGED <<tasks, flagVars, cpc, clientVars, task, dpc, spurious, historyVars>>

\* Mutated: reports although tasks are waiting.
WorkerReportAlways ==
  /\ wpc = "report"
  /\ sync_flag' = TRUE
  /\ mutex' = NULL
  /\ wpc' = "lock"
  /\ UNCHANGED <<tasks, exit_flag, cpc, clientVars, task, dpc, spurious, historyVars>>

\* if (tasks.empty()) sync_flag.store(true); mutex.unlock()
WorkerReport ==
  /\ wpc = "report"
  /\ sync_flag' = (sync_flag \/ tasks = <<>>)
  /\ mutex' = NULL
  /\ wpc' = "lock"
  /\ UNCHANGED <<tasks, exit_flag, cpc, clientVars, task, dpc, spurious, historyVars>>

Worker ==
  \/ WorkerLock \/ WorkerSleep \/ WorkerExit \/ WorkerStart
  \/ WorkerFinish \/ WorkerRelock \/ WorkerReport

-----------------------------------------------------------------------------
(* ~TaskQueue(): no client is inside any more *)

DestroyLock ==
  /\ Usable
  /\ \A c \in Clients : call[c] = "idle"
  /\ mutex = NULL
  /\ mutex' = "destructor"
  /\ dpc' = "flag"
  /\ UNCHANGED <<tasks, flagVars, cpc, clientVars, workerVars, spurious, historyVars>>

\* exit_flag.store(true); mutex.unlock()
DestroyFlag ==
  /\ dpc = "flag"
  /\ exit_flag' = TRUE
  /\ mutex' = NULL
  /\ dpc' = "notify"
  /\ UNCHANGED <<tasks, sync_flag, cpc, clientVars, workerVars, spurious, historyVars>>

\* cv.notify_all()
DestroyNotify ==
  /\ dpc = "notify"
  /\ wpc' = IF wpc = "asleep" THEN "lock" ELSE wpc
  /\ dpc' = "join"
  /\ UNCHANGED <<tasks, mutex, flagVars, cpc, clientVars, task, spurious, historyVars>>

\* worker.join() returns
DestroyJoin ==
  /\ dpc = "join"
  /\ wpc = "exited"
  /\ dpc' = "gone"
  /\ UNCHANGED <<tasks, mutex, flagVars, cpc, clientVars, workerVars, spurious, historyVars>>

QueueGone == dpc = "gone" /\ UNCHANGED queueVars

Client(c) ==
  \/ \E t \in Tasks : EnqueueCall(c, t)
  \/ EnqueueLock(c) \/ EnqueuePush(c) \/ EnqueueFlag(c) \/ EnqueueUnlock(c) \/ EnqueueNotify(c)
  \/ SyncCall(c) \/ SyncSpin(c) \/ SyncReturn(c)

QueueNext ==
  \/ Constructor
  \/ \E c \in Clients : Client(c)
  \/ Worker \/ WorkerWakesSpuriously
  \/ DestroyLock \/ DestroyFlag \/ DestroyNotify \/ DestroyJoin
  \/ QueueGone

QueueSpec == QueueInit /\ [][QueueNext]_queueVars

(* Threads are scheduled and tasks return.  Nothing obliges a client to    *)
(* make a call or to destroy the queue.                                    *)
QueueFairness ==
  /\ WF_queueVars(Constructor)
  /\ WF_queueVars(Worker)
  /\ \A c \in Clients :
       WF_queueVars(EnqueueLock(c) \/ EnqueuePush(c) \/ EnqueueFlag(c) \/ EnqueueUnlock(c)
                 \/ EnqueueNotify(c) \/ SyncReturn(c))
  /\ WF_queueVars(DestroyFlag \/ DestroyNotify \/ DestroyJoin)

FairQueueSpec == QueueSpec /\ QueueFairness

-----------------------------------------------------------------------------
(* Properties *)

Completed == ToSet(ran) \ (IF wpc = "busy" THEN {task} ELSE {})

QueueTypeOK ==
  /\ tasks \in Seq(Tasks)
  /\ mutex \in Clients \union {"worker", "destructor", NULL}
  /\ sync_flag \in BOOLEAN /\ exit_flag \in BOOLEAN
  /\ cpc \in {"store_sync", "store_exit", "done"}
  /\ call \in [Clients -> {"idle", "lock", "push", "flag", "unlock", "notify", "sync"}]
  /\ node \in [Clients -> Tasks \union {NULL}]
  /\ wpc \in {"lock", "check", "asleep", "busy", "relock", "report", "exited"}
  /\ task \in Tasks \union {NULL}
  /\ dpc \in {"alive", "flag", "notify", "join", "gone"}
  /\ spurious \in 0..MaxSpurious
  /\ ran \in Seq(Tasks) /\ issued \in [Clients -> Seq(Tasks)]

(* What submit promises, and the tests of the operators rely on: a         *)
(* submitted task is run, and completes.                                   *)
EveryTaskRuns == \A t \in Tasks : t \in Submitted ~> t \in Completed

(* A sync comes back once the tasks are done, and so does the destructor:  *)
(* no wakeup is lost and the flag is raised again.                         *)
QueueCallsReturn ==
  /\ \A c \in Clients : call[c] = "sync" ~> call[c] = "idle"
  /\ dpc = "flag" ~> dpc = "gone"

(* This queue, too, implements the executor its clients reason about, with *)
(* no allowance in sync.  A task takes its place in the order when the     *)
(* mutex is released.                                                      *)
Placing == \E c \in Clients : call[c] \in {"flag", "unlock"}

Unplaced == [c \in Clients |-> IF call[c] = "unlock" THEN node[c] ELSE NULL]
InOrder  == IF Placing THEN Front(tasks) ELSE tasks
Current  == IF wpc = "busy" THEN task ELSE NULL
Blocked  == [c \in Clients |-> IF call[c] = "sync" THEN 0 ELSE NULL]
Phase    == IF dpc \in {"alive", "flag"} THEN "open"
            ELSE IF wpc = "exited" THEN "closed" ELSE "closing"

Executor == INSTANCE FifoExecutor WITH
  Allowances <- {0}, None <- NULL,
  announced <- Unplaced, queue <- InOrder, active <- Current, finished <- Completed,
  waiting <- Blocked, phase <- Phase

ImplementsExecutor == Executor!Spec
=============================================================================
