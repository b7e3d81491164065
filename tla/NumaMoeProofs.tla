---------------------------- MODULE NumaMoeProofs ----------------------------
(***************************************************************************)
(* Proofs about NumaMoe, for any number of NUMA nodes, layers, lengths and *)
(* forwards: the distributor implements ForkJoin, the pools have one       *)
(* caller, and every forward merges its own partial sums.                  *)
(*                                                                         *)
(* The argument: Python and the queue's worker never hand out jobs at the  *)
(* same time, because what is queued or running is a forward while Python  *)
(* is idle, and the load Python waits for while it is in sync (Clients).   *)
(* So a status word says WORKING only within the present caller's job, and *)
(* tells whether the node has computed it (Handshake).  What a job leaves  *)
(* on the nodes that computed it then holds for all of them when it        *)
(* returns (Effects), and a layer becomes usable with all its parts and    *)
(* weights there and its pointers in the shared buffer (Loading).          *)
(***************************************************************************)
EXTENDS NumaMoe, TLAPS

Busy(c) == pc[c] \in {"arm", "await"}

\* A task in the queue is one that Python's place allows.
Expected(j) ==
  \/ /\ pc["python"] = "idle"
     /\ \E l \in usable, f \in Forwards : j = Job("forward", l, f)
  \/ pc["python"] = "sync" /\ j = Job("load", layer, None)

Clients ==
  /\ pc["python"] \in {"spawn", "barrier", "idle", "arm", "await", "submit", "sync", "exit",
                       "join", "gone"}
  /\ pc["worker"] \in {"idle", "copy", "arm", "await", "merge"}
  /\ \A c \in Callers : pc[c] \in {"spawn", "arm", "copy", "merge", "exit"} => at[c] < NumaCount
  /\ \A k \in 1..Len(queue) : Expected(queue[k])
  /\ IF active = NoJob THEN pc["worker"] = "idle"
     ELSE pc["worker"] # "idle" /\ Expected(active)
  /\ pc["worker"] = "copy" => active.kind = "load"
  /\ pc["worker"] = "merge" => active.kind = "forward"
  /\ Busy("python") => compute_func = Job("new", layer, None)
  /\ Busy("worker") => compute_func = active

\* Node i has been told of the job of caller c.
Armed(c, i) == pc[c] = "await" \/ i < at[c]

\* What node i's status word says.
Word(i) ==
  /\ status[i] = None <=> node[i] \in {"unborn", "born"}
  /\ node[i] \in {"compute", "store"} => status[i] = "WORKING"
  /\ status[i] = "WORKING" => \E c \in Callers : Busy(c)
  /\ pc["python"] \notin {"spawn", "barrier"} => status[i] # None
  /\ pc["python"] \notin {"exit", "join", "gone"} => status[i] # "EXIT"

\* How far node i is with the job of caller c.
Progress(c, i) ==
  /\ ~Armed(c, i) => status[i] = "WAITING" /\ times[i] = 0
  /\ Armed(c, i) =>
       \/ status[i] = "WORKING" /\ times[i] = 0 /\ node[i] # "store"
       \/ status[i] = "WORKING" /\ times[i] = 1 /\ node[i] = "store"
       \/ status[i] = "WAITING" /\ times[i] = 1
  /\ pc[c] = "await" /\ i < at[c] => status[i] # "WORKING"

Handshake ==
  /\ \A i \in Nodes : Word(i)
  /\ \A c \in Callers, i \in Nodes : Busy(c) => Progress(c, i)
  /\ pc["python"] = "spawn" => \A i \in Nodes : i >= at["python"] => node[i] = "unborn"

\* The layers, and the one Python loads.
Loading ==
  /\ current \subseteq object_requests
  /\ \A l \in usable : weights[l] = Nodes /\ l \in current
  /\ pc["python"] \in {"arm", "await", "submit", "sync"} => layer \in Layers
  /\ pc["python"] \in {"submit", "sync"} => tps[layer] = Nodes /\ layer \in current
  /\ pc["python"] = "sync" => queue # <<>> \/ active # NoJob \/ weights[layer] = Nodes

\* What the present job has done on the nodes that computed it.
Effects ==
  /\ \A i \in Nodes :
       /\ Busy("python") /\ times[i] = 1 => i \in tps[layer]
       /\ Busy("worker") /\ active.kind = "load" /\ times[i] = 1 => i \in weights[active.layer]
       /\ Busy("worker") /\ active.kind = "forward" /\ times[i] = 1 =>
            local_output[i] = active.id
       /\ pc["worker"] = "merge" => local_output[i] = active.id
  /\ ForwardsSound

IInv == TypeOK /\ Clients /\ Handshake /\ Loading /\ Effects

-----------------------------------------------------------------------------

\* The nodes are numbered from 0.
LEMMA NodesAre == 0 \in Nodes /\ \A i \in Nodes : i \in Nat /\ i < NumaCount
BY NodesAssumption DEF Nodes

LEMMA Initially == Init => IInv
<1> SUFFICES ASSUME Init PROVE IInv
  OBVIOUS
<1> USE NodesAre, NodesAssumption, NoneAssumption
<1>1. TypeOK
  <2>1. NoJob \in Jobs /\ queue \in Seq(Jobs)
    BY DEF Init, NoJob, Job, Jobs
  <2>2. tps \in [Layers -> SUBSET Nodes] /\ weights \in [Layers -> SUBSET Nodes]
        /\ weights_loaded \in [Layers -> BOOLEAN]
    BY DEF Init
  <2>3. pc \in [Callers -> {"spawn", "idle"}] /\ at \in [Callers -> 0..NumaCount]
    BY DEF Init
  <2> QED
    BY <2>1, <2>2, <2>3, BoundAssumption DEF Init, TypeOK
<1>2. Clients
  BY DEF Init, Clients, Callers, Busy
<1>3. Handshake
  BY DEF Init, Handshake, Word, Callers, Busy
<1>4. Loading /\ Effects
  BY DEF Init, Loading, Effects, ForwardsSound, Callers, Busy
<1> QED
  BY <1>1, <1>2, <1>3, <1>4 DEF IInv

\* The jobs that are handed out are jobs.
LEMMA JobsAre ==
  /\ NoJob \in Jobs
  /\ \A l \in Layers : Job("new", l, None) \in Jobs /\ Job("load", l, None) \in Jobs
  /\ \A l \in Layers, f \in Forwards : Job("forward", l, f) \in Jobs
BY DEF Jobs, Job, NoJob

\* Whom a caller addresses is a node; a node is at most NumaCount, too.
LEMMA Addressed ==
  ASSUME TypeOK, Clients, NEW c \in Callers,
         pc[c] \in {"spawn", "arm", "copy", "merge", "exit"}
  PROVE  at[c] \in Nodes /\ at[c] + 1 \in 0..NumaCount
BY NodesAssumption DEF TypeOK, Clients, Nodes

LEMMA TypeStep ==
  ASSUME IInv, [Next]_vars
  PROVE  TypeOK'
<1> USE NodesAre, NodesAssumption, JobsAre DEF TypeOK, Goto, distributorVars, queueVars,
      layerVars, bufferVars, clientVars, Callers, IInv
<1>1. CASE Spawn
  <2>1. at["python"] \in Nodes /\ at["python"] + 1 \in 0..NumaCount
    BY <1>1, Addressed DEF Spawn
  <2> QED
    BY <1>1, <2>1 DEF Spawn
<1>2. CASE Ready
  BY <1>2 DEF Ready
<1>3. ASSUME NEW i \in Nodes, NodeBegin(i) PROVE TypeOK'
  BY <1>3 DEF NodeBegin
<1>4. ASSUME NEW i \in Nodes, NodeReady(i) PROVE TypeOK'
  BY <1>4 DEF NodeReady
<1>5. ASSUME NEW i \in Nodes, NodePoll(i) PROVE TypeOK'
  BY <1>5 DEF NodePoll
<1>6. ASSUME NEW i \in Nodes, NodeCompute(i) PROVE TypeOK'
  <2>1. tps' \in [Layers -> SUBSET Nodes]
    BY <1>6 DEF NodeCompute
  <2>2. weights' \in [Layers -> SUBSET Nodes]
    BY <1>6 DEF NodeCompute
  <2>3. local_output' \in [Nodes -> Forwards \cup {None}]
    BY <1>6 DEF NodeCompute, Jobs
  <2>4. node' \in [Nodes -> {"unborn", "born", "barrier", "poll", "compute", "store", "gone"}]
        /\ times' \in [Nodes -> Nat]
    BY <1>6 DEF NodeCompute
  <2> QED
    BY <1>6, <2>1, <2>2, <2>3, <2>4 DEF NodeCompute
<1>7. ASSUME NEW i \in Nodes, NodeStore(i) PROVE TypeOK'
  BY <1>7 DEF NodeStore
<1>8. ASSUME NEW c \in Callers, Arm(c) PROVE TypeOK'
  <2>1. at[c] \in Nodes /\ at[c] + 1 \in 0..NumaCount
    BY <1>8, Addressed DEF Arm
  <2>2. status' \in [Nodes -> {None, "WAITING", "WORKING", "EXIT"}]
    BY <1>8, <2>1 DEF Arm
  <2> QED
    BY <1>8, <2>1, <2>2 DEF Arm
<1>9. ASSUME NEW c \in Callers, Await(c) PROVE TypeOK'
  BY <1>9 DEF Await
<1>10. ASSUME NEW l \in Layers, LoadLayer(l) PROVE TypeOK'
  BY <1>10 DEF LoadLayer, Call
<1>11. CASE Alloc
  <2>1. layer \in Layers
    BY <1>11 DEF Alloc, Returned, Loading
  <2>2. size' \in Nat
    BY <1>11, <2>1, LengthAssumption DEF Alloc
  <2>3. local_output' \in [Nodes -> Forwards \cup {None}]
    BY <1>11 DEF Alloc
  <2> QED
    BY <1>11, <2>1, <2>2, <2>3 DEF Alloc
<1>12. CASE SubmitLoad
  BY <1>12 DEF SubmitLoad, Loading
<1>13. CASE Sync
  BY <1>13 DEF Sync, Loading
<1>14. ASSUME NEW l \in Layers, SubmitForward(l) PROVE TypeOK'
  <2>1. submitted + 1 \in Forwards /\ submitted + 1 \in 0..MaxForwards
    BY <1>14, BoundAssumption DEF SubmitForward, Forwards
  <2> QED
    BY <1>14, <2>1 DEF SubmitForward
<1>15. CASE StartLoad
  BY <1>15 DEF StartLoad, Call
<1>16. CASE CopyPart
  BY <1>16, Addressed DEF CopyPart, Call
<1>17. CASE Loaded
  <2>1. weights_loaded' \in [Layers -> BOOLEAN]
    BY Zenon, <1>17 DEF Loaded
  <2> QED
    BY <1>17, <2>1 DEF Loaded
<1>18. CASE StartForward
  BY <1>18 DEF StartForward, Call
<1>19. CASE StartMerge
  BY <1>19 DEF StartMerge
<1>20. CASE Merge
  <2>1. merged' \in [Forwards -> [Nodes -> Forwards \cup {None}] \cup {None}]
    BY <1>20 DEF Merge
  <2> QED
    BY <1>20, <2>1 DEF Merge
<1>21. CASE Destroy \/ Join
  BY <1>21 DEF Destroy, Join
<1>22. CASE StoreExit
  <2>1. at["python"] \in Nodes /\ at["python"] + 1 \in 0..NumaCount
    BY <1>22, Addressed DEF StoreExit
  <2>2. status' \in [Nodes -> {None, "WAITING", "WORKING", "EXIT"}]
    BY <1>22, <2>1 DEF StoreExit
  <2> QED
    BY <1>22, <2>1, <2>2 DEF StoreExit
<1>23. CASE UNCHANGED vars
  BY <1>23 DEF vars
<1> QED
  BY <1>1, <1>2, <1>3, <1>4, <1>5, <1>6, <1>7, <1>8, <1>9, <1>10, <1>11, <1>12, <1>13, <1>14,
     <1>15, <1>16, <1>17, <1>18, <1>19, <1>20, <1>21, <1>22, <1>23
     DEF Next, Python, Worker, Node, Gone, NodePollAgain

\* While Python is elsewhere than idle or in sync, the queue and its worker rest.
LEMMA Alone ==
  ASSUME TypeOK, Clients
  PROVE  /\ pc["python"] \notin {"idle", "sync"} =>
              queue = <<>> /\ active = NoJob /\ pc["worker"] = "idle"
         /\ \A c, d \in Callers : Busy(c) /\ Busy(d) => c = d
<1>1. ASSUME pc["python"] \notin {"idle", "sync"}
      PROVE  queue = <<>> /\ active = NoJob /\ pc["worker"] = "idle"
  <2>1. \A j : ~Expected(j)
    BY <1>1 DEF Expected
  <2>2. ~(1 \in 1..Len(queue))
    BY <2>1 DEF Clients
  <2>3. Len(queue) \in Nat
    BY DEF TypeOK
  <2>4. queue = <<>>
    BY <2>2, <2>3 DEF TypeOK
  <2> QED
    BY <2>1, <2>4 DEF Clients
<1> QED
  BY <1>1 DEF Busy, Callers

\* What is left of the queue is as expected as the queue.
LEMMA TailExpected ==
  ASSUME TypeOK, Clients, queue # <<>>
  PROVE  /\ Expected(Head(queue))
         /\ \A k \in 1..Len(Tail(queue)) : Expected(Tail(queue)[k])
<1>1. Len(queue) \in Nat /\ Len(queue) # 0 /\ Len(Tail(queue)) = Len(queue) - 1
  BY DEF TypeOK
<1>2. Head(queue) = queue[1] /\ 1 \in 1..Len(queue)
  BY <1>1 DEF TypeOK
<1>3. ASSUME NEW k \in 1..Len(Tail(queue)) PROVE Expected(Tail(queue)[k])
  <2>1. Tail(queue)[k] = queue[k + 1] /\ k + 1 \in 1..Len(queue)
    BY <1>1 DEF TypeOK
  <2> QED
    BY <2>1 DEF Clients
<1> QED
  BY <1>2, <1>3 DEF Clients

LEMMA ClientsStep ==
  ASSUME IInv, [Next]_vars
  PROVE  Clients'
<1> USE NodesAre, NodesAssumption DEF Goto, distributorVars, queueVars, layerVars, bufferVars,
      clientVars, Callers, IInv
<1>0. TypeOK /\ Clients
  OBVIOUS
<1>1. CASE Spawn \/ Ready
  BY <1>0, <1>1, Alone DEF Spawn, Ready, Clients, Expected, Busy, TypeOK
<1>2. ASSUME NEW i \in Nodes,
             NodeBegin(i) \/ NodeReady(i) \/ NodePoll(i) \/ NodeCompute(i) \/ NodeStore(i)
      PROVE  Clients'
  BY <1>0, <1>2 DEF NodeBegin, NodeReady, NodePoll, NodeCompute, NodeStore, Clients, Expected,
     Busy
<1>3. ASSUME NEW c \in Callers, Arm(c) \/ Await(c) PROVE Clients'
  <2>1. \A d \in Callers : Busy(d)' <=> Busy(d)
    BY <1>0, <1>3 DEF Arm, Await, Busy, TypeOK
  <2>2. \A d \in Callers : d # c => pc'[d] = pc[d] /\ at'[d] = at[d]
    BY <1>0, <1>3 DEF Arm, Await, TypeOK
  <2>3. pc[c] \in {"arm", "await"} /\ pc'[c] \in {"arm", "await"}
        /\ (pc'[c] = "arm" => at'[c] < NumaCount)
    BY <1>0, <1>3 DEF Arm, Await, TypeOK
  <2>4. UNCHANGED <<queue, active, usable, layer, compute_func>>
    BY <1>3 DEF Arm, Await
  <2> QED
    BY <1>0, <2>1, <2>2, <2>3, <2>4 DEF Clients, Expected
<1>4. ASSUME NEW l \in Layers, LoadLayer(l) PROVE Clients'
  <2>1. queue = <<>> /\ active = NoJob
    <3>1. \A k \in 1..Len(queue) : queue[k].kind = "forward"
      <4>1. pc["python"] = "idle"
        BY <1>4 DEF LoadLayer
      <4>2. ASSUME NEW k \in 1..Len(queue) PROVE queue[k].kind = "forward"
        <5>1. PICK ll \in usable, f \in Forwards : queue[k] = Job("forward", ll, f)
          BY <4>1 DEF Clients, Expected
        <5> QED
          BY <5>1 DEF Job
      <4> QED
        BY <4>2
    <3>2. Len(queue) = 0
      BY <1>4, <3>1 DEF LoadLayer, TypeOK
    <3>3. active = NoJob
      BY <1>4 DEF LoadLayer, Clients, Expected, Job
    <3> QED
      BY <3>2, <3>3 DEF TypeOK
  <2> QED
    BY <1>0, <1>4, <2>1 DEF LoadLayer, Call, Clients, Expected, Busy, TypeOK
<1>5. CASE Alloc
  BY <1>0, <1>5, Alone DEF Alloc, Returned, Clients, Expected, Busy, TypeOK
<1>6. CASE SubmitLoad
  BY <1>0, <1>6, Alone DEF SubmitLoad, Clients, Expected, Busy, TypeOK
<1>7. CASE Sync \/ Destroy
  BY <1>0, <1>7 DEF Sync, Destroy, Finished, Clients, Expected, Busy, TypeOK
<1>8. ASSUME NEW l \in Layers, SubmitForward(l) PROVE Clients'
  <2>1. submitted + 1 \in Forwards
    BY <1>8, BoundAssumption DEF SubmitForward, Forwards, TypeOK
  <2>2. \A k \in 1..Len(queue') : Expected(queue'[k])
    BY <1>8, <2>1 DEF SubmitForward, Clients, Expected, TypeOK
  <2>3. \A j : Expected(j) <=> Expected(j)'
    BY <1>8 DEF SubmitForward, Expected
  <2> QED
    BY <1>0, <1>8, <2>2, <2>3 DEF SubmitForward, Clients, Busy
<1>9. CASE StartLoad \/ StartForward
  <2>1. queue # <<>> /\ active' = Head(queue) /\ queue' = Tail(queue)
    BY <1>9 DEF StartLoad, StartForward
  <2>2. \A j : Expected(j) <=> Expected(j)'
    BY <1>0, <1>9 DEF StartLoad, StartForward, Expected, Call, TypeOK
  <2>3. Expected(Head(queue)) /\ \A k \in 1..Len(Tail(queue)) : Expected(Tail(queue)[k])
    BY <2>1, TailExpected
  <2>4. Head(queue) # NoJob
    BY <2>3 DEF Expected, Job, NoJob
  <2>5. pc["python"] \in {"idle", "sync"}
    BY <2>3 DEF Expected
  <2>6. CASE StartLoad
    BY <1>0, <2>1, <2>2, <2>3, <2>4, <2>5, <2>6 DEF StartLoad, Call, Clients, Busy, TypeOK
  <2>7. CASE StartForward
    BY <1>0, <2>1, <2>2, <2>3, <2>4, <2>5, <2>7 DEF StartForward, Call, Clients, Busy, TypeOK
  <2> QED
    BY <1>9, <2>6, <2>7
<1>10. CASE CopyPart
  <2>1. pc["python"] \in {"idle", "sync"}
    BY <1>0, <1>10, Alone DEF CopyPart
  <2> QED
    BY <1>0, <1>10, <2>1 DEF CopyPart, Call, Clients, Expected, Busy, TypeOK
<1>11. CASE Loaded \/ StartMerge \/ Merge
  <2>1. pc["python"] \in {"idle", "sync"}
    BY <1>0, <1>11, Alone DEF Loaded, StartMerge, Merge, Returned
  <2> QED
    BY <1>0, <1>11, <2>1 DEF Loaded, StartMerge, Merge, Returned, Clients, Expected, Busy, TypeOK
<1>12. CASE StoreExit \/ Join
  BY <1>0, <1>12, Alone DEF StoreExit, Join, Clients, Expected, Busy, TypeOK
<1>13. CASE UNCHANGED vars
  BY <1>0, <1>13 DEF vars, Clients, Expected, Busy
<1> QED
  BY <1>1, <1>2, <1>3, <1>4, <1>5, <1>6, <1>7, <1>8, <1>9, <1>10, <1>11, <1>12, <1>13
     DEF Next, Python, Worker, Node, Gone, NodePollAgain

LEMMA HandshakeStep ==
  ASSUME IInv, [Next]_vars
  PROVE  Handshake'
<1> USE NodesAre, NodesAssumption, NoneAssumption DEF Goto, distributorVars, queueVars,
      layerVars, bufferVars, clientVars, Callers, IInv
<1>0. TypeOK /\ Clients /\ Handshake
  OBVIOUS
<1>1. CASE Spawn
  <2>1. at["python"] \in Nodes /\ node[at["python"]] = "unborn"
    BY <1>0, <1>1, Addressed DEF Spawn, Handshake
  <2>2. \A i \in Nodes : Word(i)'
    BY <1>0, <1>1, <2>1, Alone DEF Spawn, Handshake, Word, Busy, TypeOK
  <2>3. \A c \in Callers : ~Busy(c)'
    BY <1>0, <1>1, Alone DEF Spawn, Busy, TypeOK
  <2>4. pc'["python"] = "spawn" => \A i \in Nodes : i >= at'["python"] => node'[i] = "unborn"
    BY <1>0, <1>1, <2>1 DEF Spawn, Handshake, TypeOK
  <2> QED
    BY <2>2, <2>3, <2>4 DEF Handshake
<1>2. CASE Ready
  BY <1>0, <1>2, Alone DEF Ready, Handshake, Word, Progress, Armed, Busy, TypeOK
<1>3. ASSUME NEW i \in Nodes, NodeBegin(i) \/ NodeReady(i) \/ NodePoll(i) PROVE Handshake'
  <2>1. CASE NodeBegin(i)
    BY <1>0, <2>1 DEF NodeBegin, Handshake, Word, Progress, Armed, Busy, TypeOK
  <2>2. CASE NodeReady(i)
    BY <1>0, <2>2 DEF NodeReady, Handshake, Word, Progress, Armed, Busy, TypeOK
  <2>3. CASE NodePoll(i)
    BY <1>0, <2>3 DEF NodePoll, Handshake, Word, Progress, Armed, Busy, TypeOK
  <2> QED
    BY <1>3, <2>1, <2>2, <2>3
<1>4. ASSUME NEW i \in Nodes, NodeCompute(i) PROVE Handshake'
  BY <1>0, <1>4 DEF NodeCompute, Handshake, Word, Progress, Armed, Busy, TypeOK
<1>5. ASSUME NEW i \in Nodes, NodeStore(i) PROVE Handshake'
  BY <1>0, <1>5 DEF NodeStore, Handshake, Word, Progress, Armed, Busy, TypeOK
<1>6. ASSUME NEW c \in Callers, Arm(c) PROVE Handshake'
  <2>1. at[c] \in Nodes /\ Progress(c, at[c]) /\ Word(at[c]) /\ Busy(c)
    BY <1>0, <1>6, Addressed DEF Arm, Handshake, Busy
  <2>2. Busy(c)' /\ \A d \in Callers : Busy(d)' => d = c
    BY <1>0, <1>6, <2>1, Alone DEF Arm, Busy, TypeOK
  <2>3. status[at[c]] = "WAITING" /\ times[at[c]] = 0 /\ node[at[c]] # "store"
    BY <1>0, <1>6, <2>1 DEF Arm, Progress, Armed, Word, TypeOK
  <2>4. \A i \in Nodes : Word(i)'
    BY <1>0, <1>6, <2>1, <2>2, <2>3 DEF Arm, Handshake, Word, TypeOK
  <2>5. ASSUME NEW i \in Nodes PROVE Progress(c, i)'
    <3>1. status'[i] = (IF i = at[c] THEN "WORKING" ELSE status[i])
          /\ node' = node /\ times' = times
      BY <1>0, <1>6, <2>1 DEF Arm, TypeOK
    <3>2. Progress(c, i)
      BY <1>0, <2>1 DEF Handshake
    <3>3. CASE at[c] + 1 < NumaCount
      <4>1. pc'[c] = "arm" /\ at'[c] = at[c] + 1
        BY <1>0, <1>6, <3>3 DEF Arm, TypeOK
      <4>2. i < at[c] + 1 <=> i < at[c] \/ i = at[c]
        <5>1. at[c] \in Nat /\ i \in Nat
          BY <2>1
        <5> QED
          BY <5>1
      <4>3. pc[c] = "arm"
        BY <1>6, <2>3, <3>1, <4>1 DEF Arm, Await
      <4> QED
        BY <2>1, <2>3, <3>1, <3>2, <4>1, <4>2, <4>3 DEF Progress, Armed
    <3>4. CASE ~(at[c] + 1 < NumaCount)
      <4>1. pc'[c] = "await" /\ at'[c] = 0
        BY <1>0, <1>6, <3>4 DEF Arm, TypeOK
      <4>2. \A j \in Nodes : j = at[c] \/ j < at[c]
        BY <1>0, <2>1, <3>4 DEF Nodes, TypeOK
      <4> QED
        BY <1>0, <1>6, <2>1, <2>3, <3>1, <3>2, <4>1, <4>2 DEF Arm, Progress, Armed, TypeOK
    <3> QED
      BY <3>3, <3>4
  <2>6. pc'["python"] # "spawn"
    BY <1>0, <1>6, <2>1, <2>2, Alone DEF Arm, TypeOK
  <2> QED
    BY <2>2, <2>4, <2>5, <2>6 DEF Handshake
<1>7. ASSUME NEW c \in Callers, Await(c) PROVE Handshake'
  BY <1>0, <1>7, Alone DEF Await, Handshake, Word, Progress, Armed, Busy, TypeOK
<1>8. ASSUME NEW c \in Callers, NEW job, Call(c, job), ~Busy("python"), ~Busy("worker"),
             pc["python"] \notin {"spawn", "barrier", "exit", "join", "gone"}
      PROVE  Handshake'
  BY <1>0, <1>8 DEF Call, Handshake, Word, Progress, Armed, Busy, TypeOK
<1>9. ASSUME NEW l \in Layers, LoadLayer(l) PROVE Handshake'
  <2>1. ~Busy("python") /\ ~Busy("worker")
    <3>1. active = NoJob
      BY <1>9 DEF LoadLayer, Clients, Expected, Job
    <3> QED
      BY <1>9, <3>1 DEF LoadLayer, Clients, Busy
  <2> QED
    BY <1>8, <1>9, <2>1 DEF LoadLayer
<1>10. CASE Alloc \/ SubmitLoad \/ Sync \/ Destroy
  <2>1. ~Busy("python")' /\ ~Busy("worker")'
    BY <1>0, <1>10, Alone DEF Alloc, SubmitLoad, Sync, Destroy, Finished, Returned, Busy,
       Clients, TypeOK
  <2>2. \A i \in Nodes : Busy("python") \/ Busy("worker") => status[i] # "WORKING"
    <3>1. CASE Alloc
      BY <1>0, <3>1, Alone DEF Alloc, Returned, Handshake, Progress, Busy
    <3>2. CASE SubmitLoad \/ Sync \/ Destroy
      BY <1>0, <3>2, Alone DEF SubmitLoad, Sync, Destroy, Finished, Clients, Busy
    <3> QED
      BY <1>10, <3>1, <3>2
  <2>3. /\ pc["python"] \notin {"spawn", "barrier", "exit", "join", "gone"}
        /\ pc'["python"] # "spawn" /\ UNCHANGED <<status, node>>
    BY <1>0, <1>10 DEF Alloc, SubmitLoad, Sync, Destroy, Returned, TypeOK
  <2>4. \A i \in Nodes : Word(i)'
    BY <1>0, <2>1, <2>2, <2>3 DEF Handshake, Word
  <2> QED
    BY <2>1, <2>3, <2>4 DEF Handshake
<1>11. ASSUME NEW l \in Layers, SubmitForward(l) PROVE Handshake'
  BY <1>0, <1>11 DEF SubmitForward, Handshake, Word, Progress, Armed, Busy
<1>12. CASE StartLoad \/ StartForward \/ CopyPart
  <2>1. pc["python"] \in {"idle", "sync"}
    BY <1>12, Alone DEF StartLoad, StartForward, CopyPart
  <2>2. ~Busy("python") /\ ~Busy("worker")
    BY <1>12, <2>1 DEF StartLoad, StartForward, CopyPart, Busy
  <2>3. CASE \E job : Call("worker", job)
    BY <1>8, <2>1, <2>2, <2>3
  <2>4. CASE \E k : Goto("worker", "copy", k) /\ UNCHANGED distributorVars
    BY <1>0, <2>1, <2>2, <2>4 DEF Handshake, Word, Progress, Armed, Busy, TypeOK
  <2> QED
    BY <1>12, <2>3, <2>4 DEF StartLoad, StartForward, CopyPart
<1>13. CASE Loaded \/ StartMerge \/ Merge
  <2>1. pc["python"] \in {"idle", "sync"}
    BY <1>13, Alone DEF Loaded, StartMerge, Merge, Returned
  <2> QED
    BY <1>0, <1>13, <2>1 DEF Loaded, StartMerge, Merge, Returned, Handshake, Word, Progress,
       Armed, Busy, TypeOK
<1>14. CASE StoreExit
  <2>0. at["python"] \in Nodes
    BY <1>0, <1>14, Addressed DEF StoreExit
  <2>1. \A c \in Callers : ~Busy(c) /\ ~Busy(c)'
    BY <1>0, <1>14, Alone DEF StoreExit, Busy, TypeOK
  <2>2. \A i \in Nodes : Word(i)'
    BY <1>0, <1>14, <2>0, <2>1 DEF StoreExit, Handshake, Word, TypeOK
  <2>3. pc'["python"] # "spawn"
    BY <1>0, <1>14 DEF StoreExit, TypeOK
  <2> QED
    BY <2>1, <2>2, <2>3 DEF Handshake
<1>15. CASE Join
  BY <1>0, <1>15, Alone DEF Join, Handshake, Word, Progress, Armed, Busy, TypeOK
<1>16. CASE UNCHANGED vars
  BY <1>0, <1>16 DEF vars, Handshake, Word, Progress, Armed, Busy
<1> QED
  BY <1>1, <1>2, <1>3, <1>4, <1>5, <1>6, <1>7, <1>9, <1>10, <1>11, <1>12, <1>13, <1>14, <1>15,
     <1>16 DEF Next, Python, Worker, Node, Gone, NodePollAgain

\* When a job has returned, all nodes have computed it.
LEMMA AllComputed ==
  ASSUME TypeOK, Handshake, NEW c \in Callers, Returned(c)
  PROVE  \A i \in Nodes : times[i] = 1
<1> SUFFICES ASSUME NEW i \in Nodes PROVE times[i] = 1
  OBVIOUS
<1>1. Progress(c, i) /\ pc[c] = "await" /\ i < at[c]
  BY NodesAre DEF Handshake, Returned, Busy
<1> QED
  BY <1>1 DEF Progress, Armed

\* A node computes within a caller's job, once.
LEMMA Computing ==
  ASSUME TypeOK, Clients, Handshake, NEW i \in Nodes, node[i] = "compute"
  PROVE  /\ times[i] = 0 /\ pc["worker"] \notin {"copy", "merge"}
         /\ Busy("python") \/ Busy("worker")
         /\ ~(Busy("python") /\ Busy("worker"))
<1>1. PICK c \in Callers : Busy(c)
  BY DEF Handshake, Word
<1>2. Progress(c, i) /\ status[i] = "WORKING"
  BY <1>1 DEF Handshake, Word
<1>3. times[i] = 0
  BY <1>2 DEF Progress
<1> QED
  BY <1>1, <1>3, Alone DEF Callers, Busy

\* What the worker is at: a forward of a usable layer, or the load Python waits for.
LEMMA ActiveIs ==
  ASSUME TypeOK, Clients, Loading, active # NoJob
  PROVE  \/ /\ active.kind = "forward" /\ active.id \in Forwards /\ pc["python"] = "idle"
            /\ active.layer \in usable
         \/ /\ active.kind = "load" /\ pc["python"] = "sync"
            /\ active.layer = layer /\ layer \in Layers /\ tps[layer] = Nodes
<1>1. Expected(active)
  BY DEF Clients
<1>2. CASE pc["python"] = "idle"
  <2>1. PICK l \in usable, f \in Forwards : active = Job("forward", l, f)
    BY <1>1, <1>2 DEF Expected
  <2> QED
    BY <1>2, <2>1 DEF Job
<1>3. CASE pc["python"] = "sync"
  BY <1>1, <1>3 DEF Expected, Job, Loading
<1> QED
  BY <1>1, <1>2, <1>3 DEF Expected

LEMMA LoadingStep ==
  ASSUME IInv, [Next]_vars
  PROVE  Loading'
<1> USE NodesAre, NodesAssumption, NoneAssumption DEF Goto, distributorVars, queueVars,
      layerVars, bufferVars, clientVars, Callers, IInv
<1>0. TypeOK /\ Clients /\ Handshake /\ Loading /\ Effects
  OBVIOUS
<1>1. CASE Spawn \/ Ready \/ Destroy \/ StoreExit \/ Join
  BY <1>0, <1>1 DEF Spawn, Ready, Destroy, StoreExit, Join, Loading, TypeOK
<1>2. ASSUME NEW i \in Nodes, NodeBegin(i) \/ NodeReady(i) \/ NodePoll(i) \/ NodeStore(i)
      PROVE  Loading'
  BY <1>0, <1>2 DEF NodeBegin, NodeReady, NodePoll, NodeStore, Loading
<1>3. ASSUME NEW i \in Nodes, NodeCompute(i) PROVE Loading'
  <2>1. \A l \in Layers : (weights[l] = Nodes => weights'[l] = Nodes)
                          /\ (tps[l] = Nodes => tps'[l] = Nodes)
    BY <1>0, <1>3 DEF NodeCompute, TypeOK
  <2> QED
    BY <1>0, <1>3, <2>1 DEF NodeCompute, Loading, TypeOK
<1>4. ASSUME NEW c \in Callers, Arm(c) \/ Await(c) PROVE Loading'
  BY <1>0, <1>4, Alone DEF Arm, Await, Loading, TypeOK
<1>5. ASSUME NEW l \in Layers, LoadLayer(l) PROVE Loading'
  BY <1>0, <1>5 DEF LoadLayer, Call, Loading, TypeOK
<1>6. CASE Alloc
  <2>1. layer \in Layers /\ Busy("python")
    BY <1>0, <1>6 DEF Alloc, Returned, Loading, Busy
  <2>2. tps[layer] = Nodes
    <3>1. \A i \in Nodes : times[i] = 1
      BY <1>0, <1>6, AllComputed DEF Alloc
    <3>2. \A i \in Nodes : i \in tps[layer]
      BY <1>0, <2>1, <3>1 DEF Effects
    <3>3. tps[layer] \subseteq Nodes
      BY <1>0, <2>1 DEF TypeOK
    <3> QED
      BY <3>2, <3>3
  <2>3. current \subseteq current' /\ layer \in current' /\ current' \subseteq object_requests'
    BY <1>0, <1>6, <2>1 DEF Alloc, Loading
  <2> QED
    BY <1>0, <1>6, <2>1, <2>2, <2>3 DEF Alloc, Loading, TypeOK
<1>7. CASE SubmitLoad
  <2>1. queue' # <<>>
    BY <1>0, <1>7 DEF SubmitLoad, TypeOK
  <2> QED
    BY <1>0, <1>7, <2>1 DEF SubmitLoad, Loading, TypeOK
<1>8. CASE Sync
  BY <1>0, <1>8 DEF Sync, Finished, Loading, TypeOK
<1>9. ASSUME NEW l \in Layers, SubmitForward(l) PROVE Loading'
  BY <1>0, <1>9 DEF SubmitForward, Loading
<1>10. CASE StartLoad \/ StartForward
  <2>1. active' # NoJob
    BY <1>0, <1>10, TailExpected DEF StartLoad, StartForward, Expected, Job, NoJob
  <2> QED
    BY <1>0, <1>10, <2>1 DEF StartLoad, StartForward, Call, Loading, TypeOK
<1>11. CASE CopyPart \/ StartMerge
  BY <1>0, <1>11 DEF CopyPart, StartMerge, Call, Loading, TypeOK
<1>12. CASE Loaded
  <2>1. active # NoJob /\ Busy("worker")
    BY <1>0, <1>12 DEF Loaded, Returned, Clients, Busy
  <2>2. active.layer = layer /\ layer \in Layers
    BY <1>0, <1>12, <2>1, ActiveIs DEF Loaded
  <2>3. weights[layer] = Nodes
    <3>1. \A i \in Nodes : times[i] = 1
      BY <1>0, <1>12, AllComputed DEF Loaded
    <3>2. \A i \in Nodes : i \in weights[layer]
      BY <1>0, <1>12, <2>1, <2>2, <3>1 DEF Loaded, Effects
    <3>3. weights[layer] \subseteq Nodes
      BY <1>0, <2>2 DEF TypeOK
    <3> QED
      BY <3>2, <3>3
  <2> QED
    BY <1>0, <1>12, <2>3 DEF Loaded, Loading, TypeOK
<1>13. CASE Merge
  <2>1. pc["python"] = "idle"
    BY <1>0, <1>13, ActiveIs DEF Merge, Clients
  <2> QED
    BY <1>0, <1>13, <2>1 DEF Merge, Loading, TypeOK
<1>14. CASE UNCHANGED vars
  BY <1>0, <1>14 DEF vars, Loading
<1> QED
  BY <1>1, <1>2, <1>3, <1>4, <1>5, <1>6, <1>7, <1>8, <1>9, <1>10, <1>11, <1>12, <1>13, <1>14
     DEF Next, Python, Worker, Node, Gone, NodePollAgain

LEMMA EffectsStep ==
  ASSUME IInv, [Next]_vars
  PROVE  Effects'
<1> USE NodesAre, NodesAssumption, NoneAssumption DEF Goto, distributorVars, queueVars,
      layerVars, bufferVars, clientVars, Callers, IInv
<1>0. TypeOK /\ Clients /\ Handshake /\ Loading /\ Effects
  OBVIOUS
<1>1. CASE Spawn \/ Ready \/ SubmitLoad \/ Sync \/ Destroy \/ StoreExit \/ Join
  <2>1. ~Busy("python")' /\ pc'["worker"] = pc["worker"]
    BY <1>0, <1>1 DEF Spawn, Ready, SubmitLoad, Sync, Destroy, StoreExit, Join, Busy, TypeOK
  <2>2. UNCHANGED <<times, weights, local_output, active, merged>>
    BY <1>1 DEF Spawn, Ready, SubmitLoad, Sync, Destroy, StoreExit, Join
  <2> QED
    BY <1>0, <2>1, <2>2 DEF Effects, ForwardsSound, Busy
<1>2. ASSUME NEW i \in Nodes, NodeBegin(i) \/ NodeReady(i) \/ NodePoll(i) \/ NodeStore(i)
      PROVE  Effects'
  BY <1>0, <1>2 DEF NodeBegin, NodeReady, NodePoll, NodeStore, Effects, ForwardsSound, Busy
<1>3. ASSUME NEW i \in Nodes, NodeCompute(i) PROVE Effects'
  <2>1. times[i] = 0 /\ pc["worker"] # "merge" /\ (Busy("python") \/ Busy("worker"))
        /\ ~(Busy("python") /\ Busy("worker"))
    BY <1>0, <1>3, Computing DEF NodeCompute
  <2>2. UNCHANGED <<compute_func, pc, layer, active, merged>>
    BY <1>3 DEF NodeCompute
  <2>3. \A j \in Nodes : times'[j] = IF j = i THEN 1 ELSE times[j]
    BY <1>0, <1>3, <2>1 DEF NodeCompute, TypeOK
  <2>4. CASE Busy("python")
    <3>1. compute_func = Job("new", layer, None) /\ layer \in Layers
      BY <1>0, <2>4 DEF Clients, Loading, Busy
    <3>2. tps' = [tps EXCEPT ![layer] = @ \cup {i}]
      BY <1>3, <3>1 DEF NodeCompute, Job
    <3>3. \A j \in Nodes : times'[j] = 1 => j \in tps'[layer]
      BY <1>0, <2>3, <2>4, <3>1, <3>2 DEF Effects, TypeOK
    <3> QED
      BY <1>0, <2>1, <2>2, <2>4, <3>3 DEF Effects, ForwardsSound, Busy
  <2>5. CASE Busy("worker") /\ active.kind = "load"
    <3>1. compute_func = active /\ active # NoJob
      BY <1>0, <2>5 DEF Clients, Busy
    <3>2. active.layer \in Layers /\ tps[active.layer] = Nodes
      BY <1>0, <2>5, <3>1, ActiveIs
    <3>3. weights' = [weights EXCEPT ![active.layer] = @ \cup {i}]
      BY <1>3, <2>5, <3>1, <3>2 DEF NodeCompute
    <3>4. \A j \in Nodes : times'[j] = 1 => j \in weights'[active.layer]
      BY <1>0, <2>3, <2>5, <3>2, <3>3 DEF Effects, TypeOK
    <3> QED
      BY <1>0, <2>1, <2>2, <2>5, <3>4 DEF Effects, ForwardsSound, Busy
  <2>6. CASE Busy("worker") /\ active.kind = "forward"
    <3>1. compute_func = active /\ active # NoJob
      BY <1>0, <2>6 DEF Clients, Busy
    <3>2. active.layer \in usable
      BY <1>0, <2>6, <3>1, ActiveIs
    <3>3. i \in weights[active.layer] /\ active.layer \in current
      BY <1>0, <3>2 DEF Loading
    <3>4. local_output' = [local_output EXCEPT ![i] = active.id]
      BY <1>3, <2>6, <3>1, <3>3 DEF NodeCompute
    <3>5. \A j \in Nodes : times'[j] = 1 => local_output'[j] = active.id
      BY <1>0, <2>3, <2>6, <3>4 DEF Effects, TypeOK
    <3> QED
      BY <1>0, <2>1, <2>2, <2>6, <3>5 DEF Effects, ForwardsSound, Busy
  <2>7. Busy("worker") => active.kind \in {"load", "forward"}
    BY <1>0, ActiveIs DEF Clients, Busy
  <2> QED
    BY <2>1, <2>4, <2>5, <2>6, <2>7
<1>4. ASSUME NEW c \in Callers, Arm(c) \/ Await(c) PROVE Effects'
  <2>1. \A d \in Callers : (Busy(d)' <=> Busy(d)) /\ (pc'[d] = "merge" <=> pc[d] = "merge")
    BY <1>0, <1>4 DEF Arm, Await, Busy, TypeOK
  <2> QED
    BY <1>0, <1>4, <2>1 DEF Arm, Await, Effects, ForwardsSound
<1>5. ASSUME NEW c \in Callers, NEW job, Call(c, job), pc["worker"] # "merge",
             UNCHANGED merged
      PROVE  Effects'
  <2>1. \A i \in Nodes : times'[i] = 0
    BY <1>5 DEF Call
  <2>2. pc'["worker"] # "merge"
    BY <1>0, <1>5 DEF Call, TypeOK
  <2> QED
    BY <1>0, <1>5, <2>1, <2>2 DEF Effects, ForwardsSound
<1>6. ASSUME NEW l \in Layers, LoadLayer(l) PROVE Effects'
  <2>1. pc["worker"] # "merge"
    BY <1>0, <1>6 DEF LoadLayer, Clients
  <2> QED
    BY <1>5, <1>6, <2>1 DEF LoadLayer
<1>7. CASE Alloc
  <2>1. pc["worker"] = "idle"
    BY <1>0, <1>7, Alone DEF Alloc, Returned
  <2> QED
    BY <1>0, <1>7, <2>1 DEF Alloc, Effects, ForwardsSound, Busy, TypeOK
<1>8. ASSUME NEW l \in Layers, SubmitForward(l) PROVE Effects'
  BY <1>0, <1>8 DEF SubmitForward, Effects, ForwardsSound, Busy
<1>9. CASE StartLoad \/ StartForward \/ CopyPart
  <2>1. pc["worker"] # "merge" /\ UNCHANGED <<merged, tps, weights, local_output, layer>>
    BY <1>9 DEF StartLoad, StartForward, CopyPart
  <2>2. CASE \E job : Call("worker", job)
    BY <1>5, <2>1, <2>2
  <2>3. CASE \E k : Goto("worker", "copy", k) /\ UNCHANGED distributorVars
    BY <1>0, <2>1, <2>3 DEF Effects, ForwardsSound, Busy, TypeOK
  <2> QED
    BY <1>9, <2>2, <2>3 DEF StartLoad, StartForward, CopyPart
<1>10. CASE Loaded
  BY <1>0, <1>10 DEF Loaded, Effects, ForwardsSound, Busy, TypeOK
<1>11. CASE StartMerge
  <2>1. \A i \in Nodes : local_output[i] = active.id
    BY <1>0, <1>11, AllComputed DEF StartMerge, Returned, Effects, Busy
  <2> QED
    BY <1>0, <1>11, <2>1 DEF StartMerge, Effects, ForwardsSound, Busy, TypeOK
<1>12. CASE Merge
  <2>1. \A i \in Nodes : local_output[i] = active.id
    BY <1>0, <1>12 DEF Merge, Effects
  <2>2. ForwardsSound'
    BY <1>0, <1>12, <2>1 DEF Merge, Effects, ForwardsSound, TypeOK
  <2> QED
    BY <1>0, <1>12, <2>2 DEF Merge, Effects, Busy, TypeOK
<1>13. CASE UNCHANGED vars
  BY <1>0, <1>13 DEF vars, Effects, ForwardsSound, Busy
<1> QED
  BY <1>1, <1>2, <1>3, <1>4, <1>6, <1>7, <1>8, <1>9, <1>10, <1>11, <1>12, <1>13
     DEF Next, Python, Worker, Node, Gone, NodePollAgain

\* The invariant is inductive, and holds throughout.
LEMMA Invariance == Spec => []IInv
<1>1. IInv /\ [Next]_vars => IInv'
  BY TypeStep, ClientsStep, HandshakeStep, LoadingStep, EffectsStep DEF IInv
<1> QED
  BY Initially, <1>1, PTL DEF Spec

-----------------------------------------------------------------------------

(* Every variable of the distributor, the queue, the layers and the shared *)
(* buffer keeps its type, for any number of nodes, layers and forwards.    *)
THEOREM TypeCorrect == Spec => []TypeOK
<1>1. IInv => TypeOK
  BY DEF IInv
<1> QED
  BY Invariance, <1>1, PTL

(* No node's pool is ever called by the node's own thread and by the task  *)
(* queue's worker at once, and the status words a job or the destructor    *)
(* stores into exist.                                                      *)
THEOREM BackendUsedInOrder == Spec => []BackendInOrder
<1>1. IInv => BackendInOrder
  <2> SUFFICES ASSUME IInv PROVE BackendInOrder
    OBVIOUS
  <2>1. ASSUME NEW i \in Nodes, node[i] = "compute"
        PROVE  pc["worker"] \notin {"copy", "merge"}
    BY <2>1, Computing DEF IInv
  <2>2. ASSUME NEW c \in Callers, pc[c] \in {"arm", "exit"} PROVE status[at[c]] # None
    <3>1. at[c] \in Nodes
      BY <2>2, Addressed DEF IInv
    <3>2. pc["python"] \notin {"spawn", "barrier"}
      BY <2>2, Alone DEF IInv, Callers
    <3> QED
      BY <3>1, <3>2 DEF IInv, Handshake, Word
  <2> QED
    BY <2>1, <2>2 DEF BackendInOrder
<1> QED
  BY Invariance, <1>1, PTL

(* Every forward merges the partial sums that all nodes computed for it,   *)
(* though the layers share one buffer, which a larger layer may replace.   *)
THEOREM ForwardsMergeTheirOwn == Spec => []ForwardsSound
<1>1. IInv => ForwardsSound
  BY DEF IInv, Effects
<1> QED
  BY Invariance, <1>1, PTL

\* While a job is under way it has a task per node.
LEMMA BusyTasks ==
  ASSUME IInv, NEW c \in Callers, Busy(c)
  PROVE  NodeTasks = NumaCount
BY DEF IInv, Clients, Callers, Busy, NodeTasks, Job, NoJob

\* The nodes are the tasks of a job.
LEMMA TasksAre == 0..(NumaCount - 1) = Nodes
BY DEF Nodes

(* do_numa_job is a fork-join over the nodes: every node computes the job  *)
(* handed out exactly once between call and return, with Python and the    *)
(* queue's worker as callers of the same distributor.                      *)
THEOREM Refinement == Spec => ImplementsForkJoin
<1> USE NodesAre, NodesAssumption
<1>1. Init => Abstract!Init
  BY DEF Init, Abstract!Init, Abstract!Untouched, NodeTasks, Callers
<1>2. ASSUME IInv, IInv', [Next]_vars PROVE [Abstract!Next]_(Abstract!vars)
  <2> USE <1>2 DEF Goto, distributorVars, queueVars, layerVars, bufferVars, clientVars
  <2> DEFINE running == \E c \in Callers : pc[c] \in {"arm", "await"}
  <2>0. TypeOK /\ Clients /\ Handshake /\ Loading
    BY DEF IInv
  <2>1. (running <=> running') /\ UNCHANGED <<compute_func, times>>
          => UNCHANGED Abstract!vars
    BY DEF Abstract!vars, NodeTasks, NoJob
  <2>2. ASSUME NEW c \in Callers, NEW job, job # NoJob, Call(c, job), ~running
        PROVE  [Abstract!Next]_(Abstract!vars)
    <3>1. running' /\ NodeTasks' = NumaCount
      BY <2>0, <2>2 DEF Call, NodeTasks, TypeOK
    <3>2. [i \in 0..(NodeTasks - 1) |-> times[i]]' = [i \in 0..(NumaCount - 1) |-> 0]
      BY <2>2, <3>1, TasksAre DEF Call
    <3>3. Abstract!Call(NumaCount)
      BY <2>2, <3>1, <3>2 DEF Abstract!Call, Abstract!Untouched
    <3> QED
      BY <3>3 DEF Abstract!Next
  <2>3. ASSUME NEW c \in Callers, Returned(c), ~running', UNCHANGED <<compute_func, times>>
        PROVE  [Abstract!Next]_(Abstract!vars)
    <3>1. running /\ NodeTasks = NumaCount
      BY <2>3, BusyTasks DEF Returned, Busy
    <3>2. \A i \in 0..(NumaCount - 1) : times[i] = 1
      BY <2>0, <2>3, AllComputed, TasksAre
    <3>3. Abstract!Return
      BY <2>3, <3>1, <3>2 DEF Abstract!Return, NodeTasks
    <3> QED
      BY <3>3 DEF Abstract!Next
  <2>4. ASSUME NEW i \in Nodes, NodeCompute(i) PROVE [Abstract!Next]_(Abstract!vars)
    <3>1. times[i] = 0 /\ \E c \in Callers : Busy(c)
      BY <2>0, <2>4, Computing DEF NodeCompute, Callers
    <3>2. running /\ running' /\ NodeTasks = NumaCount /\ NodeTasks' = NumaCount
      BY <2>4, <3>1, BusyTasks DEF NodeCompute, Busy, NodeTasks
    <3>3. [j \in Nodes |-> times[j]]' = [[j \in Nodes |-> times[j]] EXCEPT ![i] = 1]
      <4>1. times \in [Nodes -> Nat] /\ times' = [times EXCEPT ![i] = 1]
        BY <2>0, <2>4, <3>1 DEF NodeCompute, TypeOK
      <4>2. [j \in Nodes |-> times[j]] = times /\ [j \in Nodes |-> times'[j]] = times'
        BY <4>1
      <4> QED
        BY <4>1, <4>2
    <3>4. Abstract!Compute(i)
      BY <3>1, <3>2, <3>3, TasksAre DEF Abstract!Compute
    <3> QED
      BY <3>2, <3>4, TasksAre DEF Abstract!Next
  <2>5. CASE Spawn \/ Ready \/ SubmitLoad \/ Sync \/ Destroy \/ StoreExit \/ Join
    BY <2>0, <2>1, <2>5, Alone DEF Spawn, Ready, SubmitLoad, Sync, Destroy, StoreExit, Join,
       Callers, TypeOK
  <2>6. ASSUME NEW i \in Nodes, NodeBegin(i) \/ NodeReady(i) \/ NodePoll(i) \/ NodeStore(i)
        PROVE  [Abstract!Next]_(Abstract!vars)
    BY <2>1, <2>6 DEF NodeBegin, NodeReady, NodePoll, NodeStore
  <2>7. ASSUME NEW c \in Callers, Arm(c) \/ Await(c) PROVE [Abstract!Next]_(Abstract!vars)
    <3>1. running /\ running'
      BY <2>0, <2>7 DEF Arm, Await, TypeOK
    <3> QED
      BY <2>1, <2>7, <3>1 DEF Arm, Await
  <2>8. ASSUME NEW l \in Layers, LoadLayer(l) PROVE [Abstract!Next]_(Abstract!vars)
    <3>1. active = NoJob
      BY <2>0, <2>8 DEF LoadLayer, Clients, Expected, Job
    <3>2. ~running
      BY <2>0, <2>8, <3>1 DEF LoadLayer, Clients, Callers
    <3> QED
      BY <2>2, <2>8, <3>2 DEF LoadLayer, Callers, Job, NoJob
  <2>9. CASE Alloc
    BY <2>0, <2>3, <2>9, Alone DEF Alloc, Returned, Callers, TypeOK
  <2>10. ASSUME NEW l \in Layers, SubmitForward(l) PROVE [Abstract!Next]_(Abstract!vars)
    BY <2>1, <2>10 DEF SubmitForward
  <2>11. CASE StartLoad \/ StartForward \/ CopyPart
    <3>1. ~running
      BY <2>0, <2>11, Alone DEF StartLoad, StartForward, CopyPart, Callers
    <3>2. active' # NoJob
      BY <2>0, <2>11, TailExpected DEF StartLoad, StartForward, CopyPart, Clients, Expected,
         Job, NoJob
    <3>3. CASE Call("worker", active')
      BY <2>2, <3>1, <3>2, <3>3 DEF Callers
    <3>4. CASE \E k : Goto("worker", "copy", k) /\ UNCHANGED distributorVars
      BY <2>0, <2>1, <3>1, <3>4 DEF Callers, TypeOK
    <3> QED
      BY <2>11, <3>3, <3>4 DEF StartLoad, StartForward, CopyPart
  <2>12. CASE Loaded \/ StartMerge
    <3>1. pc["python"] \notin {"arm", "await"}
      BY <2>0, <2>12, Alone DEF Loaded, StartMerge, Returned
    <3> QED
      BY <2>0, <2>3, <2>12, <3>1 DEF Loaded, StartMerge, Returned, Callers, TypeOK
  <2>13. CASE Merge
    BY <2>0, <2>1, <2>13 DEF Merge, Callers, TypeOK
  <2>14. CASE UNCHANGED vars
    BY <2>1, <2>14 DEF vars
  <2> QED
    BY <2>4, <2>5, <2>6, <2>7, <2>8, <2>9, <2>10, <2>11, <2>12, <2>13, <2>14
       DEF Next, Python, Worker, Node, Gone, NodePollAgain, Callers
<1> QED
  BY <1>1, <1>2, Invariance, PTL DEF Spec, ImplementsForkJoin, Abstract!Spec
=============================================================================
