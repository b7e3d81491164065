------------------------------- MODULE NumaMoe -------------------------------
(***************************************************************************)
(* A tensor-parallel MoE operator on the backend of kt-kernel: TP_MOE of   *)
(* operators/moe-tp.hpp and operators/amx/moe.hpp, the NumaJobDistributor  *)
(* and WorkerPool of cpu_backend/worker_pool.cpp, and CPUInfer around      *)
(* them.  A job is handed to one thread per NUMA node, through a status    *)
(* word each; two threads hand out jobs: Python, which constructs a        *)
(* layer's parts, and the worker of the task queue, which loads weights    *)
(* and runs forwards.  The nodes' partial sums lie in a buffer that all    *)
(* layers share, and the worker merges them on the pool of node 0.  The    *)
(* task queue is the one FifoExecutor describes, with Python as client.    *)
(***************************************************************************)
EXTENDS Naturals, Sequences

CONSTANTS
  NumaCount,    \* config.subpool_count
  Layers,
  LocalLen,     \* of each layer: the memory its local outputs need
  MaxForwards,  \* bound: the number of forwards
  None          \* nullptr, and no task

Nodes == 0..(NumaCount - 1)
Callers == {"python", "worker"}
Forwards == 1..MaxForwards

ASSUME NodesAssumption == NumaCount \in Nat \ {0}
ASSUME LengthAssumption == LocalLen \in [Layers -> Nat \ {0}]
ASSUME BoundAssumption == MaxForwards \in Nat
ASSUME NoneAssumption ==
  None \notin Layers \cup Forwards /\ None \notin {"WAITING", "WORKING", "EXIT"}

VARIABLES
  status,        \* NumaJobDistributor: a word per node, None before it exists
  compute_func,  \* the job handed out last: [kind, layer, id]
  node,          \* where each node's thread is
  pc, at,        \* of each caller: where it is, and the node it is at
  queue, active, \* the task queue: what waits, and what runs
  tps,           \* the nodes on which a layer has its part
  weights,       \* the nodes on which the part has its weights
  weights_loaded,
  object_requests, size,  \* of shared_mem_buffer: the layers it serves, its length
  current,       \* the layers whose local_output_numa points into the buffer
  local_output,  \* whose partial sum each node's region holds
  layer,         \* the layer Python loads
  usable,        \* the layers whose load_weights has returned to Python
  submitted,     \* forwards so far
  times,         \* history: how often each node computed the present job
  merged         \* history: the partial sums each forward was merged from

distributorVars == <<status, compute_func, node, times>>
queueVars == <<queue, active>>
layerVars == <<tps, weights, weights_loaded>>
bufferVars == <<object_requests, size, current, local_output>>
clientVars == <<layer, usable, submitted>>
vars == <<distributorVars, pc, at, queueVars, layerVars, bufferVars, clientVars, merged>>

Job(kind, l, id) == [kind |-> kind, layer |-> l, id |-> id]
NoJob == Job("none", None, None)

Init ==
  /\ status = [i \in Nodes |-> None] /\ compute_func = NoJob
  /\ node = [i \in Nodes |-> "unborn"]
  /\ pc = [c \in Callers |-> IF c = "python" THEN "spawn" ELSE "idle"]
  /\ at = [c \in Callers |-> 0]
  /\ queue = <<>> /\ active = NoJob
  /\ tps = [l \in Layers |-> {}] /\ weights = [l \in Layers |-> {}]
  /\ weights_loaded = [l \in Layers |-> FALSE]
  /\ object_requests = {} /\ size = 0 /\ current = {}
  /\ local_output = [i \in Nodes |-> None]
  /\ layer = None /\ usable = {} /\ submitted = 0
  /\ times = [i \in Nodes |-> 0]
  /\ merged = [f \in Forwards |-> None]

Goto(c, label, i) == pc' = [pc EXCEPT ![c] = label] /\ at' = [at EXCEPT ![c] = i]

-----------------------------------------------------------------------------
(* NumaJobDistributor::init *)

Spawn ==
  /\ pc["python"] = "spawn" /\ at["python"] < NumaCount
  /\ node' = [node EXCEPT ![at["python"]] = "born"]
  /\ IF at["python"] + 1 < NumaCount THEN Goto("python", "spawn", at["python"] + 1)
                                     ELSE Goto("python", "barrier", 0)
  /\ UNCHANGED <<status, compute_func, times, queueVars, layerVars, bufferVars, clientVars,
                 merged>>

\* Mutated: the constructor does not wait for the threads.
ReadyEarly ==
  /\ pc["python"] = "barrier"
  /\ Goto("python", "idle", 0)
  /\ UNCHANGED <<distributorVars, queueVars, layerVars, bufferVars, clientVars, merged>>

\* ready_bar: the constructor goes on when every thread has arrived.
Ready ==
  /\ pc["python"] = "barrier"
  /\ \A i \in Nodes : node[i] \notin {"unborn", "born"}
  /\ Goto("python", "idle", 0)
  /\ UNCHANGED <<distributorVars, queueVars, layerVars, bufferVars, clientVars, merged>>

-----------------------------------------------------------------------------
(* NumaJobDistributor::worker_thread(i) *)

NodeBegin(i) ==
  /\ node[i] = "born"
  /\ status' = [status EXCEPT ![i] = "WAITING"]
  /\ node' = [node EXCEPT ![i] = "barrier"]
  /\ UNCHANGED <<compute_func, times, pc, at, queueVars, layerVars, bufferVars, clientVars,
                 merged>>

NodeReady(i) ==
  /\ node[i] = "barrier" /\ pc["python"] # "spawn"
  /\ \A j \in Nodes : node[j] \notin {"unborn", "born"}
  /\ node' = [node EXCEPT ![i] = "poll"]
  /\ UNCHANGED <<status, compute_func, times, pc, at, queueVars, layerVars, bufferVars,
                 clientVars, merged>>

NodePoll(i) ==
  /\ node[i] = "poll" /\ status[i] # "WAITING"
  /\ node' = [node EXCEPT ![i] = IF status[i] = "WORKING" THEN "compute" ELSE "gone"]
  /\ UNCHANGED <<status, compute_func, times, pc, at, queueVars, layerVars, bufferVars,
                 clientVars, merged>>

\* Nothing to do: the thread looks again, after 50 ms sleeping in between.
NodePollAgain(i) == node[i] = "poll" /\ status[i] = "WAITING" /\ UNCHANGED vars

\* compute_func(i): constructs the layer's part for this node, loads its weights, or
\* runs its forward into local_output_numa[i], with jobs on the node's own pool.
NodeCompute(i) ==
  /\ node[i] = "compute"
  /\ node' = [node EXCEPT ![i] = "store"]
  /\ times' = [times EXCEPT ![i] = @ + 1]
  /\ LET l == compute_func.layer IN
     /\ tps' = IF compute_func.kind = "new" THEN [tps EXCEPT ![l] = @ \cup {i}] ELSE tps
     /\ weights' = IF compute_func.kind = "load" /\ i \in tps[l]
                   THEN [weights EXCEPT ![l] = @ \cup {i}] ELSE weights
     /\ local_output' =
          IF compute_func.kind = "forward" /\ i \in weights[l] /\ l \in current
          THEN [local_output EXCEPT ![i] = compute_func.id] ELSE local_output
  /\ UNCHANGED <<status, compute_func, pc, at, queueVars, weights_loaded, object_requests,
                 size, current, clientVars, merged>>

NodeStore(i) ==
  /\ node[i] = "store"
  /\ status' = [status EXCEPT ![i] = "WAITING"]
  /\ node' = [node EXCEPT ![i] = "poll"]
  /\ UNCHANGED <<compute_func, times, pc, at, queueVars, layerVars, bufferVars, clientVars,
                 merged>>

Node(i) == NodeBegin(i) \/ NodeReady(i) \/ NodePoll(i) \/ NodeCompute(i) \/ NodeStore(i)

-----------------------------------------------------------------------------
(* do_numa_job, for either caller *)

\* The function is stored first; nobody is told of it yet.
Call(c, job) ==
  /\ compute_func' = job
  /\ times' = [i \in Nodes |-> 0]
  /\ Goto(c, "arm", 0)
  /\ UNCHANGED <<status, node>>

Arm(c) ==
  /\ pc[c] = "arm"
  /\ status' = [status EXCEPT ![at[c]] = "WORKING"]
  /\ IF at[c] + 1 < NumaCount THEN Goto(c, "arm", at[c] + 1) ELSE Goto(c, "await", 0)
  /\ UNCHANGED <<compute_func, times, node, queueVars, layerVars, bufferVars, clientVars,
                 merged>>

Await(c) ==
  /\ pc[c] = "await" /\ at[c] < NumaCount
  /\ status[at[c]] # "WORKING"
  /\ Goto(c, "await", at[c] + 1)
  /\ UNCHANGED <<distributorVars, queueVars, layerVars, bufferVars, clientVars, merged>>

Returned(c) == pc[c] = "await" /\ at[c] = NumaCount

-----------------------------------------------------------------------------
(* Python: load_weights of a layer's wrapper, and its forwards *)

Finished == queue = <<>> /\ active = NoJob

\* A layer is loaded when no forward is under way; the constructor makes its parts.
LoadLayer(l) ==
  /\ pc["python"] = "idle" /\ l \notin usable
  /\ active.kind # "forward" /\ \A i \in DOMAIN queue : queue[i].kind # "forward"
  /\ layer' = l
  /\ Call("python", Job("new", l, None))
  /\ UNCHANGED <<queueVars, layerVars, bufferVars, usable, submitted, merged>>

\* Mutated: only the new layer gets the address of a buffer that was replaced.
AllocNewOnly ==
  /\ Returned("python")
  /\ object_requests' = object_requests \cup {layer}
  /\ size' = IF LocalLen[layer] > size THEN LocalLen[layer] ELSE size
  /\ current' = IF LocalLen[layer] > size THEN {layer} ELSE current \cup {layer}
  /\ local_output' = IF LocalLen[layer] > size THEN [i \in Nodes |-> None] ELSE local_output
  /\ Goto("python", "submit", 0)
  /\ UNCHANGED <<distributorVars, queueVars, layerVars, clientVars, merged>>

\* shared_mem_buffer.alloc: a larger request replaces the buffer, and every object
\* that was ever served gets the new addresses.
Alloc ==
  /\ Returned("python")
  /\ object_requests' = object_requests \cup {layer}
  /\ size' = IF LocalLen[layer] > size THEN LocalLen[layer] ELSE size
  /\ current' = IF LocalLen[layer] > size THEN object_requests' ELSE current \cup {layer}
  /\ local_output' = IF LocalLen[layer] > size THEN [i \in Nodes |-> None] ELSE local_output
  /\ Goto("python", "submit", 0)
  /\ UNCHANGED <<distributorVars, queueVars, layerVars, clientVars, merged>>

SubmitLoad ==
  /\ pc["python"] = "submit"
  /\ queue' = Append(queue, Job("load", layer, None))
  /\ Goto("python", "sync", 0)
  /\ UNCHANGED <<distributorVars, active, layerVars, bufferVars, clientVars, merged>>

\* Mutated: load_weights does not wait for its task.
SyncNothing ==
  /\ pc["python"] = "sync"
  /\ usable' = usable \cup {layer} /\ layer' = None
  /\ Goto("python", "idle", 0)
  /\ UNCHANGED <<distributorVars, queueVars, layerVars, bufferVars, submitted, merged>>

Sync ==
  /\ pc["python"] = "sync" /\ Finished
  /\ usable' = usable \cup {layer} /\ layer' = None
  /\ Goto("python", "idle", 0)
  /\ UNCHANGED <<distributorVars, queueVars, layerVars, bufferVars, submitted, merged>>

\* A forward is submitted and not waited for.
SubmitForward(l) ==
  /\ pc["python"] = "idle" /\ l \in usable /\ submitted < MaxForwards
  /\ submitted' = submitted + 1
  /\ queue' = Append(queue, Job("forward", l, submitted + 1))
  /\ UNCHANGED <<distributorVars, pc, at, active, layerVars, bufferVars, layer, usable, merged>>

-----------------------------------------------------------------------------
(* The worker of the task queue: TP_MOE::load_weights and forward *)

\* From BF16, the parts are first copied out with a job on each node's pool in turn;
\* the other sources are read by the nodes.
StartLoad ==
  /\ pc["worker"] = "idle" /\ queue # <<>> /\ Head(queue).kind = "load"
  /\ active' = Head(queue) /\ queue' = Tail(queue)
  /\ \/ Goto("worker", "copy", 0) /\ UNCHANGED distributorVars
     \/ Call("worker", active')
  /\ UNCHANGED <<layerVars, bufferVars, clientVars, merged>>

CopyPart ==
  /\ pc["worker"] = "copy"
  /\ IF at["worker"] + 1 < NumaCount
     THEN Goto("worker", "copy", at["worker"] + 1) /\ UNCHANGED distributorVars
     ELSE Call("worker", active)
  /\ UNCHANGED <<queueVars, layerVars, bufferVars, clientVars, merged>>

Loaded ==
  /\ Returned("worker") /\ active.kind = "load"
  /\ weights_loaded' = [weights_loaded EXCEPT ![active.layer] = TRUE]
  /\ active' = NoJob
  /\ Goto("worker", "idle", 0)
  /\ UNCHANGED <<distributorVars, queue, tps, weights, bufferVars, clientVars, merged>>

\* "Not Loaded" is thrown where nothing catches it, so the program ends: no step.
StartForward ==
  /\ pc["worker"] = "idle" /\ queue # <<>> /\ Head(queue).kind = "forward"
  /\ weights_loaded[Head(queue).layer]
  /\ active' = Head(queue) /\ queue' = Tail(queue)
  /\ Call("worker", active')
  /\ UNCHANGED <<layerVars, bufferVars, clientVars, merged>>

StartMerge ==
  /\ Returned("worker") /\ active.kind = "forward"
  /\ Goto("worker", "merge", 0)
  /\ UNCHANGED <<distributorVars, queueVars, layerVars, bufferVars, clientVars, merged>>

\* merge_results adds the parts up, with a job on the pool of node 0.
Merge ==
  /\ pc["worker"] = "merge"
  /\ merged' = [merged EXCEPT ![active.id] = local_output]
  /\ active' = NoJob
  /\ Goto("worker", "idle", 0)
  /\ UNCHANGED <<distributorVars, queue, layerVars, bufferVars, clientVars>>

-----------------------------------------------------------------------------
(* ~CPUInfer: the backend goes before the task queue *)

\* Python lets go of it when nothing is under way; the nodes' pools go first.
Destroy ==
  /\ pc["python"] = "idle" /\ Finished
  /\ Goto("python", "exit", 0)
  /\ UNCHANGED <<distributorVars, queueVars, layerVars, bufferVars, clientVars, merged>>

\* Mutated: the last thread is not told to leave.
StoreExitShort ==
  /\ pc["python"] = "exit"
  /\ status' = [status EXCEPT ![at["python"]] = IF at["python"] + 1 < NumaCount
                                                THEN "EXIT" ELSE @]
  /\ IF at["python"] + 1 < NumaCount THEN Goto("python", "exit", at["python"] + 1)
                                     ELSE Goto("python", "join", 0)
  /\ UNCHANGED <<compute_func, times, node, queueVars, layerVars, bufferVars, clientVars,
                 merged>>

StoreExit ==
  /\ pc["python"] = "exit"
  /\ status' = [status EXCEPT ![at["python"]] = "EXIT"]
  /\ IF at["python"] + 1 < NumaCount THEN Goto("python", "exit", at["python"] + 1)
                                     ELSE Goto("python", "join", 0)
  /\ UNCHANGED <<compute_func, times, node, queueVars, layerVars, bufferVars, clientVars,
                 merged>>

\* The threads of the nodes are joined, then the task queue is deleted.
Join ==
  /\ pc["python"] = "join" /\ \A i \in Nodes : node[i] = "gone"
  /\ Goto("python", "gone", 0)
  /\ UNCHANGED <<distributorVars, queueVars, layerVars, bufferVars, clientVars, merged>>

Gone == pc["python"] = "gone" /\ UNCHANGED vars

-----------------------------------------------------------------------------

Python == \/ Spawn \/ Ready \/ Arm("python") \/ Await("python") \/ Alloc \/ SubmitLoad
          \/ Sync \/ StoreExit \/ Join
Worker == \/ StartLoad \/ CopyPart \/ Loaded \/ StartForward \/ Arm("worker")
          \/ Await("worker") \/ StartMerge \/ Merge

Next ==
  \/ Python \/ Worker \/ \E i \in Nodes : Node(i) \/ NodePollAgain(i)
  \/ \E l \in Layers : LoadLayer(l) \/ SubmitForward(l)
  \/ Destroy \/ Gone

Spec == Init /\ [][Next]_vars

\* Threads keep running; nothing makes Python load, submit or destroy.
FairSpec == /\ Spec /\ WF_vars(Python) /\ WF_vars(Worker)
            /\ \A i \in Nodes : WF_vars(Node(i))

-----------------------------------------------------------------------------

Jobs == [kind : {"none", "new", "load", "forward"}, layer : Layers \cup {None},
         id : Forwards \cup {None}]

(* Every variable stays in its range.                                      *)
TypeOK ==
  /\ status \in [Nodes -> {None, "WAITING", "WORKING", "EXIT"}] /\ compute_func \in Jobs
  /\ node \in [Nodes -> {"unborn", "born", "barrier", "poll", "compute", "store", "gone"}]
  /\ pc \in [Callers -> {"spawn", "barrier", "idle", "arm", "await", "submit", "sync", "copy",
                         "merge", "exit", "join", "gone"}]
  /\ at \in [Callers -> 0..NumaCount]
  /\ queue \in Seq(Jobs) /\ active \in Jobs
  /\ tps \in [Layers -> SUBSET Nodes] /\ weights \in [Layers -> SUBSET Nodes]
  /\ weights_loaded \in [Layers -> BOOLEAN]
  /\ object_requests \in SUBSET Layers /\ size \in Nat /\ current \in SUBSET Layers
  /\ local_output \in [Nodes -> Forwards \cup {None}]
  /\ layer \in Layers \cup {None} /\ usable \in SUBSET Layers /\ submitted \in 0..MaxForwards
  /\ times \in [Nodes -> Nat]
  /\ merged \in [Forwards -> [Nodes -> Forwards \cup {None}] \cup {None}]

(* A node's pool has one caller at a time, as InNumaPool requires, though  *)
(* the node's own thread and the task queue's worker both call it; and a   *)
(* job, or the destructor, finds the status words of all nodes made.       *)
BackendInOrder ==
  /\ \A i \in Nodes :
       ~ /\ node[i] = "compute" /\ compute_func.kind # "new"
         /\ pc["worker"] \in {"copy", "merge"} /\ at["worker"] = i
  /\ \A c \in Callers : pc[c] \in {"arm", "exit"} => status[at[c]] # None

(* A forward is merged from the partial sums all nodes computed for it,    *)
(* although the layers share the memory they lie in, and a layer loaded    *)
(* later may have replaced it.                                             *)
ForwardsSound ==
  \A f \in Forwards : merged[f] # None => \A i \in Nodes : merged[f][i] = f

(* The distributor implements the fork-join its callers are written        *)
(* against, one job at a time, although two threads call it and only the   *)
(* synchronisation in Python keeps them apart.                             *)
NodeTasks == IF compute_func = NoJob THEN 0 ELSE NumaCount

Abstract == INSTANCE ForkJoin WITH
              JobSizes <- {NumaCount}, size <- NodeTasks,
              running <- \E c \in Callers : pc[c] \in {"arm", "await"},
              times <- [i \in 0..(NodeTasks - 1) |-> times[i]]

ImplementsForkJoin == Abstract!Spec

(* The constructor, a load, every forward and the destructor come to an    *)
(* end.                                                                    *)
CallsReturn ==
  /\ (pc["python"] \notin {"idle", "gone"}) ~> (pc["python"] \in {"idle", "gone"})
  /\ \A f \in Forwards : (submitted >= f) ~> (merged[f] # None)
=============================================================================
