----------------------------- MODULE SftMoeProofs -----------------------------
(***************************************************************************)
(* Proofs about SftMoe, for any number of layers, of any shape, and        *)
(* forwards of any length.                                                 *)
(*                                                                         *)
(* The shared buffer: alloc moves every group it remembers, remembers the  *)
(* group it is called for, and a layer is ready only when both its groups  *)
(* are remembered.                                                         *)
(*                                                                         *)
(* The activations: as long as a layer runs no forward between a forward   *)
(* and its backward, the cache of a layer holds those of the last node of  *)
(* the layer, a forward under way up to the tokens it has done.            *)
(*                                                                         *)
(* The memory: which fields still hold what was written to them follows    *)
(* from the stage (SoundInv).  Both groups start at the beginning of the   *)
(* buffer, so a field of one may lie over fields of the other; those of    *)
(* backward_many lie apart from each other, and from every transposed      *)
(* matrix that ends before they begin.                                     *)
(***************************************************************************)
EXTENDS SftMoe, TLAPS

Groups == {"s", "m"}
Backward == {"transpose", "backward", "middle", "input", "reduce"}

Remembered ==
  /\ hist_requests_ \subseteq Layers \X Groups
  /\ life \in [Layers -> {"absent", "half", "ready", "gone"}]
  /\ \A l \in Layers : life[l] = "half" => <<l, "s">> \in hist_requests_
  /\ PointersCurrent

-----------------------------------------------------------------------------

\* What alloc does to the pointers, whether or not the buffer grows.
LEMMA Alloc ==
  ASSUME NEW l \in Layers, NEW g \in Groups, Remembered, alloc(l, g)
  PROVE  /\ hist_requests_' = hist_requests_ \cup {<<l, g>>}
         /\ \A r \in hist_requests_' : pointer'[r[1]][r[2]] = generation'
<1>1. hist_requests_' = hist_requests_ \cup {<<l, g>>}
  BY DEF alloc
<1>2. ASSUME NEW r \in hist_requests_' PROVE pointer'[r[1]][r[2]] = generation'
  <2>1. /\ r \in Layers \X Groups /\ r[1] \in Layers /\ r[2] \in {"s", "m"} /\ r = <<r[1], r[2]>>
        /\ r # <<l, g>> => r \in hist_requests_
    BY <1>1, <1>2 DEF Remembered, Groups
  <2>2. r # <<l, g>> => pointer[r[1]][r[2]] = generation
    BY <2>1 DEF Remembered, PointersCurrent
  <2> DEFINE grow  == Total(requests(l, g)) > size_
             now   == IF grow THEN generation + 1 ELSE generation
             moved == {<<l, g>>} \union (IF grow THEN hist_requests_ ELSE {})
  <2>3. generation' = now
    BY DEF alloc
  <2>4. pointer'[r[1]][r[2]] = IF <<r[1], r[2]>> \in moved THEN now ELSE pointer[r[1]][r[2]]
    BY <2>1 DEF alloc
  <2> QED
    BY <2>1, <2>2, <2>3, <2>4
<1> QED
  BY <1>1, <1>2

LEMMA RememberedStep ==
  ASSUME Remembered, [Next]_vars
  PROVE  Remembered'
<1> DEFINE same == UNCHANGED <<generation, hist_requests_, pointer, life>>
<1>0. ASSUME same PROVE Remembered'
  BY <1>0 DEF Remembered, PointersCurrent
<1>1. ASSUME NEW l \in Layers, ConstructS(l) PROVE Remembered'
  <2>1. life[l] = "absent" /\ alloc(l, "s") /\ life' = [life EXCEPT ![l] = "half"]
    BY <1>1 DEF ConstructS
  <2>2. /\ hist_requests_' = hist_requests_ \cup {<<l, "s">>}
        /\ \A r \in hist_requests_' : pointer'[r[1]][r[2]] = generation'
    BY <2>1, Alloc DEF Groups
  <2> QED
    BY <2>1, <2>2 DEF Remembered, PointersCurrent, Groups
<1>2. ASSUME NEW l \in Layers, ConstructM(l) PROVE Remembered'
  <2>1. life[l] = "half" /\ alloc(l, "m") /\ life' = [life EXCEPT ![l] = "ready"]
    BY <1>2 DEF ConstructM
  <2>2. /\ hist_requests_' = hist_requests_ \cup {<<l, "m">>}
        /\ \A r \in hist_requests_' : pointer'[r[1]][r[2]] = generation'
    BY <2>1, Alloc DEF Groups
  <2> QED
    BY <2>1, <2>2 DEF Remembered, PointersCurrent, Groups
<1>3. ASSUME NEW l \in Layers, Destruct(l) PROVE Remembered'
  <2>1. /\ hist_requests_' = hist_requests_ \ {<<l, "s">>, <<l, "m">>}
        /\ life' = [life EXCEPT ![l] = "gone"] /\ UNCHANGED <<pointer, generation>>
    BY <1>3 DEF Destruct
  <2>2. \A r \in hist_requests_' : r \in hist_requests_ /\ r[1] # l
    BY <2>1 DEF Remembered, Groups
  <2> QED
    BY <2>1, <2>2 DEF Remembered, PointersCurrent, Groups
<1>4. ASSUME NEW l \in Layers, warm_up(l) PROVE Remembered'
  BY <1>0, <1>4 DEF warm_up
<1>5. ASSUME NEW l \in Layers, NEW q \in QLens, SubmitForward(l, q) PROVE Remembered'
  BY <1>0, <1>5 DEF SubmitForward, bufferVars
<1>6. ASSUME NEW i \in DOMAIN nodes, SubmitBackward(i) PROVE Remembered'
  BY <1>0, <1>6 DEF SubmitBackward, bufferVars
<1>7. CASE Worker
  BY <1>0, <1>7 DEF Worker, forward_many, forward_one, get_transpose, Gather, Middle, Input,
                    Reduce, Stage, backward_one, BackwardReturn, Finish
<1>8. CASE UNCHANGED vars
  BY <1>0, <1>8 DEF vars, bufferVars
<1> QED
  BY <1>1, <1>2, <1>3, <1>4, <1>5, <1>6, <1>7, <1>8 DEF Next, Construct, Over

(* Growing the buffer for a later layer leaves no earlier one with a       *)
(* pointer into the freed allocation, and alloc never writes a pointer of  *)
(* a layer that was destroyed: for any layers, in any order of             *)
(* construction and destruction.                                           *)
THEOREM PointersStayCurrent == Spec => []PointersCurrent
<1>1. Init => Remembered
  BY DEF Init, Remembered, PointersCurrent, Groups
<1>2. Remembered /\ [Next]_vars => Remembered'
  BY RememberedStep
<1>3. Remembered => PointersCurrent
  BY DEF Remembered
<1> QED
  BY <1>1, <1>2, <1>3, PTL DEF Spec

-----------------------------------------------------------------------------
\* The node that is worked on.
TaskInv ==
  /\ nodes \in Seq([layer : Layers, qlen : QLens])
  /\ pc \in {"idle", "forward"} \cup Backward
  /\ pc # "idle" => task \in DOMAIN nodes /\ done \in 0..nodes[task].qlen

\* No node after node i is of the same layer.
LastOfLayer(i) == \A j \in DOMAIN nodes : nodes[j].layer = nodes[i].layer => j <= i

\* The tokens of node i whose activations are in the cache.
Cached(i) == IF pc = "forward" /\ task = i THEN done ELSE nodes[i].qlen

Nodes == TaskInv /\ (pc # "idle" => LastOfLayer(task))

Caches ==
  /\ fw_cache_ \in [Layers -> Seq(Nat \cup {None})]
  /\ \A i \in DOMAIN nodes : nodes[i].qlen <= Len(fw_cache_[nodes[i].layer])
  /\ \A i \in DOMAIN nodes : LastOfLayer(i) =>
       \A t \in 1..Cached(i) : fw_cache_[nodes[i].layer][t] = i

OwnInv == Nodes /\ Caches /\ own = TRUE

\* A node, its layer and its length.
LEMMA NodeIs ==
  ASSUME TaskInv, NEW i \in DOMAIN nodes
  PROVE  /\ i \in Nat \ {0} /\ nodes[i].layer \in Layers /\ nodes[i].qlen \in Nat \ {0}
         /\ DOMAIN nodes = 1..Len(nodes) /\ Len(nodes) \in Nat
<1> DEFINE Node == [layer : Layers, qlen : QLens]
<1>1. nodes \in Seq(Node)
  BY DEF Nodes, TaskInv
<1>2. DOMAIN nodes = 1..Len(nodes) /\ Len(nodes) \in Nat /\ nodes[i] \in Node
  <2> HIDE DEF Node
  <2> QED
    BY <1>1
<1>3. nodes[i].layer \in Layers /\ nodes[i].qlen \in QLens
  BY <1>2
<1>4. i \in Nat \ {0}
  <2> HIDE DEF Node
  <2> QED
    BY <1>2
<1>5. nodes[i].qlen \in Nat \ {0}
  BY <1>3, QLensAssumption
<1> HIDE DEF Node
<1> QED
  BY <1>2, <1>3, <1>4, <1>5

\* The tokens of a stage are some that the task has yet to do.
LEMMA StageTokens ==
  ASSUME TaskInv, pc # "idle"
  PROVE  /\ remaining \in Nat /\ group_len \in 0..remaining
         /\ done + remaining = nodes[task].qlen /\ layer \in Layers /\ done \in Nat
<1>1. nodes[task].qlen \in Nat /\ done \in 0..nodes[task].qlen /\ layer \in Layers
  BY NodeIs DEF Nodes, TaskInv, layer
<1> QED
  BY <1>1, GroupAssumption DEF remaining, group_len

\* What a forward writes of its n next tokens: they are the node's, the others stay.
LEMMA CacheWritten ==
  ASSUME Nodes, Caches, pc # "idle", NEW n \in 0..remaining, WriteCache(n)
  PROVE  /\ fw_cache_' \in [Layers -> Seq(Nat \cup {None})]
         /\ \A l \in Layers : Len(fw_cache_'[l]) = Len(fw_cache_[l])
         /\ \A l \in Layers : l # layer => fw_cache_'[l] = fw_cache_[l]
         /\ \A t \in 1..Len(fw_cache_[layer]) : fw_cache_'[layer][t] =
              IF t \in (done + 1)..(done + n) THEN task ELSE fw_cache_[layer][t]
<1> DEFINE c == fw_cache_[layer]
           new == [t \in DOMAIN c |-> IF t \in (done + 1)..(done + n) THEN task ELSE c[t]]
<1>1. layer \in Layers /\ task \in Nat /\ c \in Seq(Nat \cup {None})
  BY StageTokens, NodeIs DEF Nodes, TaskInv, Caches
<1>2. DOMAIN c = 1..Len(c) /\ Len(c) \in Nat /\ \A t \in 1..Len(c) : c[t] \in Nat \cup {None}
  BY <1>1
<1>3. fw_cache_' = [fw_cache_ EXCEPT ![layer] = new]
  BY DEF WriteCache
<1>4. new \in Seq(Nat \cup {None}) /\ Len(new) = Len(c)
  <2>1. new \in [1..Len(c) -> Nat \cup {None}]
    BY <1>1, <1>2
  <2> QED
    BY <1>2, <2>1
<1>5. fw_cache_'[layer] = new /\ \A l \in Layers : l # layer => fw_cache_'[l] = fw_cache_[l]
  BY <1>1, <1>3 DEF Caches
<1>6. fw_cache_' \in [Layers -> Seq(Nat \cup {None})]
  <2> HIDE DEF new
  <2> QED
    BY <1>1, <1>3, <1>4 DEF Caches
<1>7. \A t \in 1..Len(c) : new[t] = IF t \in (done + 1)..(done + n) THEN task ELSE c[t]
  BY <1>2
<1> HIDE DEF new
<1> QED
  BY <1>1, <1>4, <1>5, <1>6, <1>7

\* A backward reads the activations of its own forward.
LEMMA ReadsOwn ==
  ASSUME OwnInv, pc \in Backward, NEW n \in 0..remaining, ReadCache(n)
  PROVE  own'
<1>1. /\ task \in DOMAIN nodes /\ LastOfLayer(task) /\ pc # "idle" /\ Cached(task) = nodes[task].qlen
  BY DEF OwnInv, Nodes, TaskInv, Backward, Cached
<1>2. \A t \in 1..nodes[task].qlen : fw_cache_[layer][t] = task
  BY <1>1 DEF OwnInv, Caches, layer
<1>3. \A t \in 1..n : done + t \in 1..nodes[task].qlen
  BY <1>1, StageTokens DEF OwnInv, Nodes
<1> QED
  BY <1>2, <1>3 DEF ReadCache, OwnInv

LEMMA OwnInit == Init => OwnInv
<1> SUFFICES ASSUME Init PROVE OwnInv
  OBVIOUS
<1>1. nodes = <<>> /\ pc = "idle" /\ own = TRUE /\ fw_cache_ = [l \in Layers |-> <<>>]
  BY DEF Init
<1>2. DOMAIN nodes = {}
  BY <1>1
<1> QED
  BY <1>1, <1>2 DEF OwnInv, Nodes, TaskInv, Caches

\* A step of a task that writes nothing into the cache, or of Python between tasks.
LEMMA OwnKept ==
  ASSUME OwnInv, UNCHANGED <<fw_cache_, nodes>>, own',
         pc' \in {"idle"} \cup Backward,
         pc' # "idle" => /\ task' \in DOMAIN nodes /\ LastOfLayer(task')
                         /\ done' \in 0..nodes[task'].qlen,
         pc # "forward"
  PROVE  OwnInv'
<1>1. Nodes'
  BY DEF OwnInv, Nodes, TaskInv, LastOfLayer, Backward
<1>2. \A i \in DOMAIN nodes : Cached(i)' = Cached(i)
  BY DEF Cached, Backward
<1>3. Caches'
  BY <1>2 DEF OwnInv, Caches, LastOfLayer
<1>4. own' = TRUE
  BY DEF ReadCache, OwnInv
<1> QED
  BY <1>1, <1>3, <1>4 DEF OwnInv

\* A new forward: its layer's cache is long enough, and its node is the last of the layer.
LEMMA OwnSubmit ==
  ASSUME OwnInv, NEW l \in Layers, NEW qlen \in QLens, SubmitForward(l, qlen)
  PROVE  OwnInv'
<1> DEFINE Node == [layer : Layers, qlen : QLens]
           new == [layer |-> l, qlen |-> qlen]
           more == [t \in 1..(qlen - Len(fw_cache_[l])) |-> None]
<1>1. /\ pc = "idle" /\ nodes' = Append(nodes, new) /\ task' = Len(nodes) + 1
      /\ done' = 0 /\ pc' = "forward" /\ fw_cache_' = [fw_cache_ EXCEPT ![l] = @ \o more]
      /\ own' = own
  BY DEF SubmitForward, Idle, ensure_fwd_cache, historyVars
<1>2. nodes \in Seq(Node) /\ new \in Node /\ qlen \in Nat \ {0}
  BY QLensAssumption DEF OwnInv, Nodes, TaskInv
<1>3. /\ nodes' \in Seq(Node) /\ Len(nodes) \in Nat /\ DOMAIN nodes = 1..Len(nodes)
      /\ DOMAIN nodes' = 1..(Len(nodes) + 1) /\ nodes'[Len(nodes) + 1] = new
      /\ \A i \in DOMAIN nodes : nodes'[i] = nodes[i]
  <2> HIDE DEF Node, new
  <2> QED
    BY <1>1, <1>2
<1>4. /\ nodes'[task'].layer = l /\ nodes'[task'].qlen = qlen
      /\ nodes'[Len(nodes) + 1].layer = l /\ Len(nodes) + 1 \in DOMAIN nodes'
  BY <1>1, <1>3
<1>5. Nodes'
  <2>1. LastOfLayer(task)'
    BY <1>1, <1>3 DEF LastOfLayer
  <2>2. done' \in 0..nodes'[task'].qlen /\ task' \in DOMAIN nodes'
    BY <1>1, <1>2, <1>3, <1>4
  <2> QED
    BY <1>1, <1>3, <2>1, <2>2 DEF Nodes, TaskInv
<1>6. /\ fw_cache_[l] \in Seq(Nat \cup {None}) /\ fw_cache_'[l] = fw_cache_[l] \o more
      /\ \A m \in Layers : m # l => fw_cache_'[m] = fw_cache_[m]
  BY <1>1 DEF OwnInv, Caches
<1>7. more \in Seq(Nat \cup {None}) /\ Len(fw_cache_[l]) + Len(more) >= qlen
  <2>1. Len(fw_cache_[l]) \in Nat
    BY <1>6
  <2>2. CASE qlen <= Len(fw_cache_[l])
    <3>1. more = <<>>
      BY <1>2, <2>1, <2>2
    <3> HIDE DEF more
    <3> QED
      BY <1>2, <2>1, <2>2, <3>1
  <2>3. CASE qlen > Len(fw_cache_[l])
    <3>1. PICK n \in Nat : n = qlen - Len(fw_cache_[l])
      <4> HIDE DEF more, new, Node
      <4>1. qlen - Len(fw_cache_[l]) \in Nat
        BY <1>2, <2>1, <2>3
      <4> QED
        BY <4>1
    <3>2. more \in [1..n -> Nat \cup {None}]
      BY <3>1
    <3> HIDE DEF more
    <3>3. more \in Seq(Nat \cup {None}) /\ Len(more) = n
      BY <3>2
    <3> QED
      BY <1>2, <2>1, <3>1, <3>3
  <2> HIDE DEF more
  <2> QED
    BY <1>2, <2>1, <2>2, <2>3
<1>8. /\ fw_cache_'[l] \in Seq(Nat \cup {None})
      /\ Len(fw_cache_'[l]) >= qlen /\ Len(fw_cache_'[l]) >= Len(fw_cache_[l])
  <2> HIDE DEF more
  <2> QED
    BY <1>2, <1>6, <1>7
<1>9. fw_cache_' \in [Layers -> Seq(Nat \cup {None})]
  <2>1. fw_cache_' = [m \in Layers |-> IF m = l THEN fw_cache_'[l] ELSE fw_cache_[m]]
    <3> HIDE DEF more
    <3> QED
      BY <1>1 DEF OwnInv, Caches
  <2> QED
    BY <1>8, <2>1 DEF OwnInv, Caches
<1>10. ASSUME NEW i \in DOMAIN nodes' PROVE nodes'[i].qlen <= Len(fw_cache_'[nodes'[i].layer])
  <2>1. CASE i = Len(nodes) + 1
    BY <1>1, <1>4, <1>8, <2>1
  <2>2. CASE i # Len(nodes) + 1
    <3>1. i \in DOMAIN nodes /\ nodes'[i] = nodes[i]
      BY <1>3, <2>2
    <3>2. /\ nodes[i].qlen \in Nat /\ nodes[i].layer \in Layers
          /\ nodes[i].qlen <= Len(fw_cache_[nodes[i].layer])
      BY <3>1, NodeIs DEF OwnInv, Caches, Nodes
    <3>3. \A m \in Layers : Len(fw_cache_[m]) \in Nat /\ Len(fw_cache_'[m]) \in Nat
      BY <1>9 DEF OwnInv, Caches
    <3>4. Len(fw_cache_[nodes[i].layer]) <= Len(fw_cache_'[nodes[i].layer])
      <4>1. CASE nodes[i].layer = l
        BY <1>8, <4>1
      <4>2. CASE nodes[i].layer # l
        BY <1>6, <3>2, <3>3, <4>2
      <4> QED
        BY <4>1, <4>2
    <3> QED
      BY <3>1, <3>2, <3>3, <3>4
  <2> QED
    BY <2>1, <2>2
<1>11. ASSUME NEW i \in DOMAIN nodes', LastOfLayer(i)', NEW t \in 1..Cached(i)'
       PROVE  fw_cache_'[nodes'[i].layer][t] = i
  <2>1. i # Len(nodes) + 1
    <3>1. t \in 1..(IF pc' = "forward" /\ task' = i THEN done' ELSE nodes'[i].qlen)
      BY <1>11 DEF Cached
    <3> QED
      BY <1>1, <3>1
  <2>2. i \in DOMAIN nodes /\ nodes'[i] = nodes[i] /\ i < Len(nodes) + 1
    BY <1>3, <2>1
  <2>3. nodes[i].layer # l
    <3>1. nodes'[i].layer = l => Len(nodes) + 1 <= i
      BY <1>4, <1>11 DEF LastOfLayer
    <3>2. i \in Nat
      BY <1>3, <2>2
    <3> QED
      BY <1>3, <2>2, <3>1, <3>2
  <2>4. LastOfLayer(i)
    BY <1>3, <1>11, <2>2 DEF LastOfLayer
  <2>5. Cached(i) = nodes[i].qlen /\ Cached(i)' = nodes[i].qlen
    BY <1>1, <2>1, <2>2 DEF Cached
  <2>6. fw_cache_[nodes[i].layer][t] = i
    BY <1>11, <2>2, <2>4, <2>5 DEF OwnInv, Caches
  <2>7. nodes[i].layer \in Layers
    BY <2>2, NodeIs DEF OwnInv, Nodes
  <2> QED
    BY <1>6, <2>2, <2>3, <2>6, <2>7
<1> QED
  BY <1>1, <1>5, <1>9, <1>10, <1>11 DEF OwnInv, Caches

\* A group of tokens, or the rest of them, of a forward.
LEMMA OwnForward ==
  ASSUME OwnInv, forward_many \/ forward_one
  PROVE  OwnInv'
<1> USE DEF OwnInv
<1>1. pc = "forward" /\ UNCHANGED <<nodes, own>>
  BY DEF forward_many, forward_one, historyVars
<1>2. /\ task \in DOMAIN nodes /\ LastOfLayer(task) /\ remaining \in Nat /\ group_len \in 0..remaining
      /\ done \in Nat /\ done + remaining = nodes[task].qlen /\ layer \in Layers
      /\ nodes[task].qlen <= Len(fw_cache_[layer])
  BY <1>1, StageTokens DEF Nodes, TaskInv, Caches, layer
<1>3. PICK n \in 0..remaining :
        /\ WriteCache(n)
        /\ \/ pc' = "forward" /\ task' = task /\ done' = done + n
           \/ pc' = "idle" /\ n = remaining /\ task' = None
  BY <1>2 DEF forward_many, forward_one
<1>4. done + n \in 0..nodes[task].qlen
  BY <1>2, <1>3
<1>5. Nodes'
  BY <1>1, <1>2, <1>3, <1>4 DEF Nodes, TaskInv, LastOfLayer
<1>6. /\ fw_cache_' \in [Layers -> Seq(Nat \cup {None})]
      /\ \A l \in Layers : Len(fw_cache_'[l]) = Len(fw_cache_[l])
      /\ \A l \in Layers : l # layer => fw_cache_'[l] = fw_cache_[l]
      /\ \A t \in 1..Len(fw_cache_[layer]) : fw_cache_'[layer][t] =
           IF t \in (done + 1)..(done + n) THEN task ELSE fw_cache_[layer][t]
  BY <1>1, <1>3, CacheWritten
<1>7. \A i \in DOMAIN nodes : nodes[i].qlen <= Len(fw_cache_'[nodes[i].layer])
  BY <1>6, NodeIs DEF Caches, Nodes
<1>8. ASSUME NEW i \in DOMAIN nodes, LastOfLayer(i), NEW t \in 1..Cached(i)'
      PROVE  fw_cache_'[nodes[i].layer][t] = i
  <2>1. CASE i = task
    <3>1. Cached(i)' = done + n /\ Cached(i) = done
      <4>1. pc' = "idle" => done + n = nodes[task].qlen
        BY <1>2, <1>3
      <4> QED
        BY <1>1, <1>3, <2>1, <4>1 DEF Cached
    <3>2. t \in 1..(done + n) /\ t \in 1..Len(fw_cache_[layer]) /\ nodes[i].layer = layer
      <4>1. Len(fw_cache_[layer]) \in Nat /\ nodes[task].qlen \in Nat
        BY <1>2, NodeIs DEF Caches, Nodes
      <4>2. t \in 1..(done + n)
        BY <1>8, <2>1, <3>1
      <4> QED
        BY <1>2, <1>3, <1>4, <2>1, <4>1, <4>2 DEF layer
    <3>3. t \in (done + 1)..(done + n) \/ t \in 1..done
      BY <1>2, <1>3, <3>2
    <3>4. \A u \in 1..done : fw_cache_[layer][u] = task
      BY <1>2, <2>1, <3>1 DEF Caches, layer
    <3> QED
      BY <1>6, <2>1, <3>2, <3>3, <3>4
  <2>2. CASE i # task
    <3>1. i \in Nat /\ task \in Nat /\ nodes[i].layer \in Layers
      BY <1>2, NodeIs DEF Nodes
    <3>2. nodes[i].layer # layer
      BY <1>2, <1>8, <2>2, <3>1 DEF LastOfLayer, layer
    <3>3. Cached(i) = nodes[i].qlen /\ Cached(i)' = nodes[i].qlen
      BY <1>1, <1>3, <2>2 DEF Cached
    <3>4. fw_cache_[nodes[i].layer][t] = i
      BY <1>8, <3>3 DEF Caches
    <3> QED
      BY <1>6, <3>1, <3>2, <3>4
  <2> QED
    BY <2>1, <2>2
<1>9. Caches'
  <2>1. \A i \in DOMAIN nodes : LastOfLayer(i)' <=> LastOfLayer(i)
    BY <1>1 DEF LastOfLayer
  <2> QED
    BY <1>1, <1>6, <1>7, <1>8, <2>1 DEF Caches
<1> QED
  BY <1>1, <1>5, <1>9

LEMMA OwnStep ==
  ASSUME Overlapping = FALSE, OwnInv, [Next]_vars
  PROVE  OwnInv'
<1> USE DEF OwnInv
<1>0. ASSUME UNCHANGED <<fw_cache_, nodes, taskVars, own>> PROVE OwnInv'
  BY <1>0 DEF Nodes, TaskInv, Caches, LastOfLayer, Cached, taskVars
<1>1. ASSUME NEW l \in Layers, Construct(l) \/ Destruct(l) \/ warm_up(l) PROVE OwnInv'
  BY <1>0, <1>1 DEF Construct, ConstructS, ConstructM, Destruct, warm_up, historyVars
<1>2. ASSUME NEW l \in Layers, NEW qlen \in QLens, SubmitForward(l, qlen) PROVE OwnInv'
  BY <1>2, OwnSubmit
<1>3. ASSUME NEW i \in DOMAIN nodes, SubmitBackward(i) PROVE OwnInv'
  <2>1. /\ pc = "idle" /\ task' = i /\ done' = 0 /\ pc' = "transpose"
        /\ UNCHANGED <<fw_cache_, nodes, own>>
        /\ \A j \in (i + 1)..Len(nodes) : nodes[j].layer # nodes[i].layer
    BY <1>3 DEF SubmitBackward, Idle, historyVars
  <2>2. LastOfLayer(i)
    <3>1. DOMAIN nodes = 1..Len(nodes) /\ Len(nodes) \in Nat /\ i \in Nat
      BY NodeIs
    <3> QED
      BY <2>1, <3>1 DEF LastOfLayer
  <2>3. nodes[i].qlen \in Nat
    BY NodeIs DEF Nodes
  <2> QED
    BY <2>1, <2>2, <2>3, OwnKept DEF Backward
<1>4. CASE forward_many \/ forward_one
  BY <1>4, OwnForward
<1>5. ASSUME pc \in Backward PROVE pc # "idle" /\ pc # "forward" /\ task \in DOMAIN nodes /\ LastOfLayer(task)
  BY <1>5 DEF Nodes, TaskInv, Backward
<1>6. CASE get_transpose \/ Gather
  <2>1. pc \in Backward /\ pc' \in Backward /\ UNCHANGED <<task, done, own, fw_cache_, nodes>>
    BY <1>6 DEF get_transpose, Gather, Stage, historyVars, Backward
  <2> QED
    BY <1>5, <2>1, OwnKept DEF Nodes, TaskInv
<1>7. CASE Middle \/ Input
  <2>1. pc \in Backward /\ pc' \in Backward /\ UNCHANGED <<task, done, fw_cache_, nodes>>
    BY <1>7 DEF Middle, Input, Stage, Backward
  <2>2. own'
    <3>1. CASE Middle
      <4>1. ReadCache(group_len) /\ group_len \in 0..remaining
        BY <1>5, <2>1, <3>1, StageTokens DEF Middle, Nodes
      <4> QED
        BY <2>1, <4>1, ReadsOwn
    <3>2. CASE Input
      BY <3>2 DEF Input
    <3> QED
      BY <1>7, <3>1, <3>2
  <2> QED
    BY <1>5, <2>1, <2>2, OwnKept DEF Nodes, TaskInv
<1>8. CASE Reduce
  <2>1. /\ pc \in Backward /\ pc' \in Backward /\ UNCHANGED <<task, own, fw_cache_, nodes>>
        /\ done' = done + group_len
    BY <1>8 DEF Reduce, Stage, Backward
  <2>2. done' \in 0..nodes[task].qlen
    <3>1. /\ remaining \in Nat /\ group_len \in 0..remaining
          /\ done + remaining = nodes[task].qlen /\ done \in Nat
      BY <1>5, <2>1, StageTokens DEF Nodes
    <3> QED
      BY <2>1, <3>1
  <2> QED
    BY <1>5, <2>1, <2>2, OwnKept DEF Nodes, TaskInv
<1>9. CASE backward_one \/ BackwardReturn
  <2>1. pc \in Backward /\ pc' = "idle" /\ UNCHANGED <<fw_cache_, nodes>>
    BY <1>9 DEF backward_one, BackwardReturn, Finish, Backward
  <2>2. own'
    <3>1. CASE backward_one
      <4>1. ReadCache(remaining) /\ remaining \in 0..remaining
        BY <1>5, <2>1, <3>1, StageTokens DEF backward_one, Nodes
      <4> QED
        BY <2>1, <4>1, ReadsOwn
    <3>2. CASE BackwardReturn
      BY <3>2 DEF BackwardReturn, historyVars
    <3> QED
      BY <1>9, <3>1, <3>2
  <2> QED
    BY <1>5, <2>1, <2>2, OwnKept
<1>10. CASE UNCHANGED vars
  BY <1>0, <1>10 DEF vars, historyVars
<1> QED
  BY <1>1, <1>2, <1>3, <1>4, <1>6, <1>7, <1>8, <1>9, <1>10 DEF Next, Worker, Over

(* A backward differentiates its own forward: when no layer runs forward   *)
(* again before its backward, every cached activation that a backward      *)
(* reads is the one its forward left, for any lengths of forwards and      *)
(* groups, also when a longer forward has left the cache larger.           *)
THEOREM BackwardReadsOwn == ASSUME Overlapping = FALSE PROVE Spec => []ActivationsOwn
<1>1. OwnInv /\ [Next]_vars => OwnInv'
  BY OwnStep
<1>2. OwnInv => ActivationsOwn
  BY DEF OwnInv, ActivationsOwn
<1> QED
  BY OwnInit, <1>1, <1>2, PTL DEF Spec

-----------------------------------------------------------------------------
(* The shared memory *)

Names == Transposed \cup {"s_scratch", "m_forward"} \cup Gradients

\* Every group that a layer has asked for fits into the buffer; no constructor
\* is half way while a task runs, and a task's layer is not destroyed.
SizeInv ==
  /\ \A l \in Layers : life[l] \in {"half", "ready"} => Total(requests(l, "s")) <= size_
  /\ \A l \in Layers : life[l] = "ready" => Total(requests(l, "m")) <= size_
  /\ \A l \in Layers : life[l] = "half" => pc = "idle"
  /\ pc # "idle" => life[layer] = "ready"

TypeInv == TypeOK /\ TaskInv /\ SizeInv

\* Stage by stage, what the fields hold.
SoundInv ==
  /\ OnlyOverlapSpoils
  /\ pc \in {"backward", "middle", "input", "reduce"} =>
       \A f \in Transposed : Overlapped(layer, f) \/ Intact(memory, f)
  /\ pc = "middle" => Intact(memory, "m_output_grad") /\ Intact(memory, "m_index")
  /\ pc = "input" => Intact(memory, "m_mid_grad")
  /\ pc = "reduce" => Intact(memory, "m_input_grad")

\* The lengths that matter: of a transposed matrix, of forward_many's fields, of
\* a field of backward_many, and of the part of it that a group of tokens uses.
WLen(l) == WeightLen[l]
FLen(l) == ForwardLen[l]
DLen(l) == GroupMax * GradLen[l]
LLen    == group_len * GradLen[layer]

\* The lengths of the fields, and of the groups.
LEMMA Lengths ==
  ASSUME NEW l \in Layers
  PROVE  /\ WLen(l) \in Nat \ {0} /\ FLen(l) \in Nat \ {0} /\ DLen(l) \in Nat
         /\ Total(requests(l, "s")) = 3 * WLen(l) + 1
         /\ Total(requests(l, "m")) = FLen(l) + 5 * DLen(l)
<1> PICK W, F, D : W = WLen(l) /\ F = FLen(l) /\ D = DLen(l)
  OBVIOUS
<1>1. W \in Nat \ {0} /\ F \in Nat \ {0} /\ D \in Nat
  BY LengthsAssumption, GroupAssumption DEF WLen, FLen, DLen
<1>2. PICK s : s = requests(l, "s")
  OBVIOUS
<1>3. PICK m : m = requests(l, "m")
  OBVIOUS
<1>4. /\ Len(s) = 4 /\ s[1].length = W /\ s[2].length = W /\ s[3].length = W /\ s[4].length = 1
  BY <1>1, <1>2 DEF requests, Field, WLen
<1>5. /\ Len(m) = 6 /\ m[1].length = F /\ m[2].length = D /\ m[3].length = D
      /\ m[4].length = D /\ m[5].length = D /\ m[6].length = D
  BY <1>1, <1>3 DEF requests, Field, FLen, DLen
<1>6. Total(s) = 3 * W + 1
  BY <1>1, <1>4 DEF arrange, Total
<1>7. Total(m) = F + 5 * D
  BY <1>1, <1>5 DEF arrange, Total
<1> QED
  BY <1>1, <1>2, <1>3, <1>6, <1>7

\* Where the fields of a layer are.
LEMMA Layout ==
  ASSUME NEW l \in Layers, NEW n \in Nat
  PROVE  /\ Prefix(l, "gate_t", n) = 0..(n - 1)
         /\ Prefix(l, "up_t", n) = WLen(l)..(WLen(l) + n - 1)
         /\ Prefix(l, "down_t", n) = (2 * WLen(l))..(2 * WLen(l) + n - 1)
         /\ Prefix(l, "s_scratch", n) = (3 * WLen(l))..(3 * WLen(l) + n - 1)
         /\ Prefix(l, "m_forward", n) = 0..(n - 1)
         /\ Prefix(l, "m_output_grad", n) = FLen(l)..(FLen(l) + n - 1)
         /\ Prefix(l, "m_mid_grad", n) = (FLen(l) + DLen(l))..(FLen(l) + DLen(l) + n - 1)
         /\ Prefix(l, "m_input_grad", n) = (FLen(l) + 2 * DLen(l))..(FLen(l) + 2 * DLen(l) + n - 1)
         /\ Prefix(l, "m_index", n) = (FLen(l) + 3 * DLen(l))..(FLen(l) + 3 * DLen(l) + n - 1)
         /\ Prefix(l, "m_grad_input", n) = (FLen(l) + 4 * DLen(l))..(FLen(l) + 4 * DLen(l) + n - 1)
<1> PICK W, F, D : W = WLen(l) /\ F = FLen(l) /\ D = DLen(l)
  OBVIOUS
<1>1. W \in Nat \ {0} /\ F \in Nat \ {0} /\ D \in Nat
  BY Lengths
<1>2. PICK s : s = requests(l, "s")
  OBVIOUS
<1>3. PICK m : m = requests(l, "m")
  OBVIOUS
<1>4. /\ DOMAIN s = 1..4
      /\ s[1].name = "gate_t" /\ s[2].name = "up_t" /\ s[3].name = "down_t" /\ s[4].name = "s_scratch"
      /\ s[1].length = W /\ s[2].length = W /\ s[3].length = W /\ s[4].length = 1
  BY <1>1, <1>2 DEF requests, Field, WLen
<1>5. /\ DOMAIN m = 1..6
      /\ m[1].name = "m_forward" /\ m[2].name = "m_output_grad" /\ m[3].name = "m_mid_grad"
      /\ m[4].name = "m_input_grad" /\ m[5].name = "m_index" /\ m[6].name = "m_grad_input"
  BY <1>1, <1>3 DEF requests, Field
<1>50. /\ m[1].length = F /\ m[2].length = D /\ m[3].length = D
       /\ m[4].length = D /\ m[5].length = D /\ m[6].length = D
  BY <1>1, <1>3 DEF requests, Field, FLen, DLen
<1>6. arrange(s, 1) = 0 /\ arrange(s, 2) = W /\ arrange(s, 3) = 2 * W /\ arrange(s, 4) = 3 * W
  BY <1>1, <1>4 DEF arrange
<1>7. /\ arrange(m, 1) = 0 /\ arrange(m, 2) = F /\ arrange(m, 3) = F + D
      /\ arrange(m, 4) = F + 2 * D /\ arrange(m, 5) = F + 3 * D /\ arrange(m, 6) = F + 4 * D
  BY <1>1, <1>50 DEF arrange
<1>8. 1..4 = {1, 2, 3, 4} /\ 1..6 = {1, 2, 3, 4, 5, 6}
  OBVIOUS
<1>9. /\ (CHOOSE i \in DOMAIN s : s[i].name = "gate_t") = 1
      /\ (CHOOSE i \in DOMAIN s : s[i].name = "up_t") = 2
      /\ (CHOOSE i \in DOMAIN s : s[i].name = "down_t") = 3
      /\ (CHOOSE i \in DOMAIN s : s[i].name = "s_scratch") = 4
  BY <1>4, <1>8
<1>10. /\ (CHOOSE i \in DOMAIN m : m[i].name = "m_forward") = 1
       /\ (CHOOSE i \in DOMAIN m : m[i].name = "m_output_grad") = 2
       /\ (CHOOSE i \in DOMAIN m : m[i].name = "m_mid_grad") = 3
       /\ (CHOOSE i \in DOMAIN m : m[i].name = "m_input_grad") = 4
       /\ (CHOOSE i \in DOMAIN m : m[i].name = "m_index") = 5
       /\ (CHOOSE i \in DOMAIN m : m[i].name = "m_grad_input") = 6
  BY <1>5, <1>8
<1>11. /\ Prefix(l, "gate_t", n) = 0..(0 + n - 1)
       /\ Prefix(l, "up_t", n) = W..(W + n - 1)
       /\ Prefix(l, "down_t", n) = (2 * W)..(2 * W + n - 1)
       /\ Prefix(l, "s_scratch", n) = (3 * W)..(3 * W + n - 1)
  BY <1>2, <1>6, <1>9 DEF Prefix, Transposed
<1>12. /\ Prefix(l, "m_forward", n) = 0..(0 + n - 1)
       /\ Prefix(l, "m_output_grad", n) = F..(F + n - 1)
       /\ Prefix(l, "m_mid_grad", n) = (F + D)..(F + D + n - 1)
       /\ Prefix(l, "m_input_grad", n) = (F + 2 * D)..(F + 2 * D + n - 1)
       /\ Prefix(l, "m_index", n) = (F + 3 * D)..(F + 3 * D + n - 1)
       /\ Prefix(l, "m_grad_input", n) = (F + 4 * D)..(F + 4 * D + n - 1)
  BY <1>3, <1>7, <1>10 DEF Prefix, Transposed
<1>13. 0 + n - 1 = n - 1
  OBVIOUS
<1>14. Prefix(l, "gate_t", n) = 0..(n - 1) /\ Prefix(l, "m_forward", n) = 0..(n - 1)
  BY <1>11, <1>12, <1>13
<1> QED
  BY <1>11, <1>12, <1>14

\* The cells of a task's fields.
LEMMA CellsAre ==
  ASSUME TypeInv, pc # "idle"
  PROVE  /\ WLen(layer) \in Nat \ {0} /\ FLen(layer) \in Nat \ {0} /\ DLen(layer) \in Nat /\ LLen \in Nat /\ LLen <= DLen(layer)
         /\ 3 * WLen(layer) + 1 <= size_ /\ FLen(layer) + 5 * DLen(layer) <= size_
         /\ Cells("gate_t") = 0..(WLen(layer) - 1)
         /\ Cells("up_t") = WLen(layer)..(WLen(layer) + WLen(layer) - 1)
         /\ Cells("down_t") = (2 * WLen(layer))..(2 * WLen(layer) + WLen(layer) - 1)
         /\ Cells("s_scratch") = (3 * WLen(layer))..(3 * WLen(layer))
         /\ Cells("m_forward") = 0..(FLen(layer) - 1)
         /\ Cells("m_output_grad") = FLen(layer)..(FLen(layer) + LLen - 1)
         /\ Cells("m_mid_grad") = (FLen(layer) + DLen(layer))..(FLen(layer) + DLen(layer) + LLen - 1)
         /\ Cells("m_input_grad") = (FLen(layer) + 2 * DLen(layer))..(FLen(layer) + 2 * DLen(layer) + LLen - 1)
         /\ Cells("m_index") = (FLen(layer) + 3 * DLen(layer))..(FLen(layer) + 3 * DLen(layer) + LLen - 1)
         /\ Cells("m_grad_input") = (FLen(layer) + 4 * DLen(layer))..(FLen(layer) + 4 * DLen(layer) + LLen - 1)
<1> PICK W, F, D, L : W = WLen(layer) /\ F = FLen(layer) /\ D = DLen(layer) /\ L = LLen
  OBVIOUS
<1>1. layer \in Layers /\ remaining \in Nat /\ group_len \in 0..remaining
  BY StageTokens DEF TypeInv
<1>2. W \in Nat \ {0} /\ F \in Nat \ {0} /\ D \in Nat /\ L \in Nat /\ L <= D
  <2>1. W \in Nat \ {0} /\ F \in Nat \ {0} /\ D \in Nat
    BY <1>1, Lengths
  <2>2. PICK g, G, M : g = group_len /\ G = GradLen[layer] /\ M = GroupMax
    OBVIOUS
  <2>3. g \in Nat /\ G \in Nat /\ M \in Nat /\ g <= M
    BY <1>1, <2>2, LengthsAssumption, GroupAssumption DEF group_len
  <2>4. g * G <= M * G /\ g * G \in Nat
    BY <2>3
  <2>5. L = g * G /\ D = M * G
    BY <2>2 DEF LLen, DLen
  <2> QED
    BY <2>1, <2>4, <2>5
<1>3. Total(requests(layer, "s")) <= size_ /\ Total(requests(layer, "m")) <= size_
  BY <1>1 DEF TypeInv, SizeInv
<1>4. /\ 3 * W + 1 <= size_ /\ F + 5 * D <= size_
  BY <1>1, <1>3, Lengths
<1>5. /\ Cells("gate_t") = Prefix(layer, "gate_t", W) /\ Cells("up_t") = Prefix(layer, "up_t", W)
      /\ Cells("down_t") = Prefix(layer, "down_t", W)
      /\ Cells("s_scratch") = Prefix(layer, "s_scratch", 1)
      /\ Cells("m_forward") = Prefix(layer, "m_forward", F)
  BY DEF Cells, Length, Transposed, WLen, FLen
<1>50. \A f \in Gradients : Cells(f) = Prefix(layer, f, L)
  BY DEF Cells, Length, Transposed, Gradients, LLen
<1>6. /\ Cells("gate_t") = 0..(W - 1)
      /\ Cells("up_t") = W..(W + W - 1)
      /\ Cells("down_t") = (2 * W)..(2 * W + W - 1)
  BY <1>1, <1>2, <1>5, Layout
<1>7. /\ Cells("s_scratch") = (3 * W)..(3 * W + 1 - 1) /\ Cells("m_forward") = 0..(F - 1)
  BY <1>1, <1>2, <1>5, Layout
<1>8. /\ Cells("m_output_grad") = F..(F + L - 1)
      /\ Cells("m_mid_grad") = (F + D)..(F + D + L - 1)
      /\ Cells("m_input_grad") = (F + 2 * D)..(F + 2 * D + L - 1)
      /\ Cells("m_index") = (F + 3 * D)..(F + 3 * D + L - 1)
      /\ Cells("m_grad_input") = (F + 4 * D)..(F + 4 * D + L - 1)
  <2>1. /\ Cells("m_output_grad") = Prefix(layer, "m_output_grad", L)
        /\ Cells("m_mid_grad") = Prefix(layer, "m_mid_grad", L)
        /\ Cells("m_input_grad") = Prefix(layer, "m_input_grad", L)
        /\ Cells("m_index") = Prefix(layer, "m_index", L)
        /\ Cells("m_grad_input") = Prefix(layer, "m_grad_input", L)
    BY <1>50 DEF Gradients
  <2> QED
    BY <1>1, <1>2, <2>1, Layout
<1>9. 3 * W + 1 - 1 = 3 * W
  BY <1>2
<1> QED
  BY <1>2, <1>4, <1>6, <1>7, <1>8, <1>9

\* A task's fields are in the buffer.
LEMMA CellsIn ==
  ASSUME TypeInv, pc # "idle", NEW f \in Names
  PROVE  Cells(f) \subseteq DOMAIN memory
<1>1. DOMAIN memory = 0..(size_ - 1) /\ size_ \in Nat
  BY DEF TypeInv, TypeOK
<1>0. PICK W, F, D, L : W = WLen(layer) /\ F = FLen(layer) /\ D = DLen(layer) /\ L = LLen
  OBVIOUS
<1>2. /\ W \in Nat \ {0} /\ F \in Nat \ {0} /\ D \in Nat /\ L \in Nat /\ L <= D
      /\ 3 * W + 1 <= size_ /\ F + 5 * D <= size_
  BY <1>0, CellsAre
<1>3. /\ Cells("gate_t") \subseteq 0..(size_ - 1) /\ Cells("up_t") \subseteq 0..(size_ - 1)
      /\ Cells("down_t") \subseteq 0..(size_ - 1) /\ Cells("s_scratch") \subseteq 0..(size_ - 1)
      /\ Cells("m_forward") \subseteq 0..(size_ - 1)
  <2>1. /\ Cells("gate_t") = 0..(W - 1) /\ Cells("up_t") = W..(W + W - 1)
        /\ Cells("down_t") = (2 * W)..(2 * W + W - 1)
        /\ Cells("s_scratch") = (3 * W)..(3 * W) /\ Cells("m_forward") = 0..(F - 1)
    BY <1>0, CellsAre
  <2> QED
    BY <1>1, <1>2, <2>1
<1>4. Cells("m_output_grad") \subseteq 0..(size_ - 1) /\ Cells("m_mid_grad") \subseteq 0..(size_ - 1)
  <2>1. /\ Cells("m_output_grad") = F..(F + L - 1) /\ Cells("m_mid_grad") = (F + D)..(F + D + L - 1)
    BY <1>0, CellsAre
  <2> QED
    BY <1>1, <1>2, <2>1
<1>5. /\ Cells("m_input_grad") \subseteq 0..(size_ - 1) /\ Cells("m_index") \subseteq 0..(size_ - 1)
      /\ Cells("m_grad_input") \subseteq 0..(size_ - 1)
  <2>1. /\ Cells("m_input_grad") = (F + 2 * D)..(F + 2 * D + L - 1)
        /\ Cells("m_index") = (F + 3 * D)..(F + 3 * D + L - 1)
        /\ Cells("m_grad_input") = (F + 4 * D)..(F + 4 * D + L - 1)
    BY <1>0, CellsAre
  <2> QED
    BY <1>1, <1>2, <2>1
<1> QED
  BY <1>1, <1>3, <1>4, <1>5 DEF Names, Transposed, Gradients

\* The fields of a group do not overlap, nor do those of backward_many with a
\* transposed matrix that ends before them.
LEMMA CellsApart ==
  ASSUME TypeInv, pc # "idle"
  PROVE  /\ \A f, g \in Transposed \cup {"s_scratch"} : f # g => Cells(f) \cap Cells(g) = {}
         /\ \A f, g \in Gradients : f # g => Cells(f) \cap Cells(g) = {}
         /\ \A f \in Transposed : ~Overlapped(layer, f) =>
              \A g \in Gradients : Cells(f) \cap Cells(g) = {}
<1>0. PICK W, F, D, L : W = WLen(layer) /\ F = FLen(layer) /\ D = DLen(layer) /\ L = LLen
  OBVIOUS
<1>1. W \in Nat \ {0} /\ F \in Nat \ {0} /\ D \in Nat /\ L \in Nat /\ L <= D
  BY <1>0, CellsAre
<1>2. /\ Cells("gate_t") = 0..(W - 1)
      /\ Cells("up_t") = W..(W + W - 1)
      /\ Cells("down_t") = (2 * W)..(2 * W + W - 1)
      /\ Cells("s_scratch") = (3 * W)..(3 * W)
  BY <1>0, CellsAre
<1>3. \A f, g \in Transposed \cup {"s_scratch"} : f # g => Cells(f) \cap Cells(g) = {}
  <2>1. /\ Cells("gate_t") \cap Cells("up_t") = {} /\ Cells("gate_t") \cap Cells("down_t") = {}
        /\ Cells("gate_t") \cap Cells("s_scratch") = {} /\ Cells("up_t") \cap Cells("down_t") = {}
        /\ Cells("up_t") \cap Cells("s_scratch") = {} /\ Cells("down_t") \cap Cells("s_scratch") = {}
    BY <1>1, <1>2
  <2> QED
    BY <2>1 DEF Transposed
\* The fields of backward_many by their positions, and the cells of each.
<1> DEFINE place == [f \in Gradients |->
                       CASE f = "m_output_grad" -> 0 [] f = "m_mid_grad" -> 1
                         [] f = "m_input_grad" -> 2 [] f = "m_index" -> 3 [] OTHER -> 4]
           from(f) == F + place[f] * D
<1>4. \A f \in Gradients : place[f] \in 0..4
  BY DEF Gradients
<1>5. \A f, g \in Gradients : f # g => place[f] # place[g]
  BY DEF Gradients
<1>6. ASSUME NEW f \in Gradients PROVE Cells(f) = from(f)..(from(f) + L - 1)
  <2>1. /\ Cells("m_output_grad") = F..(F + L - 1)
        /\ Cells("m_mid_grad") = (F + D)..(F + D + L - 1)
        /\ Cells("m_input_grad") = (F + 2 * D)..(F + 2 * D + L - 1)
        /\ Cells("m_index") = (F + 3 * D)..(F + 3 * D + L - 1)
        /\ Cells("m_grad_input") = (F + 4 * D)..(F + 4 * D + L - 1)
    BY <1>0, CellsAre
  <2>2. /\ place["m_output_grad"] = 0 /\ place["m_mid_grad"] = 1 /\ place["m_input_grad"] = 2
        /\ place["m_index"] = 3 /\ place["m_grad_input"] = 4
    BY DEF Gradients
  <2>3. 0 * D = 0 /\ 1 * D = D /\ F + 0 = F
    BY <1>1
  <2> HIDE DEF place
  <2>4. CASE f \in {"m_output_grad", "m_mid_grad"}
    BY <2>1, <2>2, <2>3, <2>4
  <2>5. CASE f \in {"m_input_grad", "m_index", "m_grad_input"}
    BY <2>1, <2>2, <2>5
  <2> QED
    BY <2>4, <2>5 DEF Gradients
<1> HIDE DEF place
<1>7. \A f \in Gradients : \A c \in Cells(f) : c \in Nat /\ c >= from(f) /\ c < from(f) + D
  <2> SUFFICES ASSUME NEW f \in Gradients, NEW c \in Cells(f)
               PROVE  c \in Nat /\ c >= from(f) /\ c < from(f) + D
    OBVIOUS
  <2>1. PICK k \in Nat : k = from(f)
    BY <1>1, <1>4
  <2>2. Cells(f) = k..(k + L - 1)
    BY <1>6, <2>1
  <2>3. c \in k..(k + L - 1) /\ k \in Nat
    BY <2>2
  <2>4. c \in Nat /\ c >= k /\ c < k + D
    BY <1>1, <2>3
  <2> QED
    BY <2>1, <2>4
<1>8. ASSUME NEW f \in Gradients, NEW g \in Gradients, f # g PROVE Cells(f) \cap Cells(g) = {}
  <2>1. PICK i \in 0..4, j \in 0..4 : i = place[f] /\ j = place[g] /\ i # j
    BY <1>4, <1>5, <1>8
  <2>2. F + i * D + D <= F + j * D \/ F + j * D + D <= F + i * D
    <3>1. i + 1 <= j \/ j + 1 <= i
      BY <2>1
    <3>2. ASSUME NEW a \in 0..4, NEW b \in 0..4, a + 1 <= b PROVE F + a * D + D <= F + b * D
      <4>1. b \in {a + 1, a + 2, a + 3, a + 4} /\ a \in {0, 1, 2, 3, 4} /\ b \in {0, 1, 2, 3, 4}
        BY <3>2
      <4> QED
        BY <1>1, <3>2, <4>1
    <3> QED
      BY <3>1, <3>2
  <2>3. \A c \in Cells(f) : c \in Nat /\ c >= F + i * D /\ c < F + i * D + D
    BY <1>7, <2>1
  <2>4. \A c \in Cells(g) : c \in Nat /\ c >= F + j * D /\ c < F + j * D + D
    BY <1>7, <2>1
  <2>5. F + i * D \in Nat /\ F + j * D \in Nat
    BY <1>1
  <2> QED
    BY <1>1, <2>2, <2>3, <2>4, <2>5
<1>9. ASSUME NEW f \in Transposed, ~Overlapped(layer, f), NEW g \in Gradients
      PROVE  Cells(f) \cap Cells(g) = {}
  <2>1. Cells(f) \cap F..(F + 5 * D - 1) = {}
    <3>1. layer \in Layers
      BY StageTokens DEF TypeInv
    <3>2. Cells(f) = Prefix(layer, f, WeightLen[layer])
      BY DEF Cells, Length, Transposed
    <3>3. Total(requests(layer, "m")) = F + 5 * D /\ ForwardLen[layer] = F
      BY <1>0, <3>1, Lengths DEF FLen
    <3>4. Prefix(layer, f, WeightLen[layer]) \cap ForwardLen[layer]..(Total(requests(layer, "m")) - 1) = {}
      BY <1>9 DEF Overlapped
    <3>5. ForwardLen[layer]..(Total(requests(layer, "m")) - 1) = F..(F + 5 * D - 1)
      <4>1. PICK m : m = Total(requests(layer, "m"))
        OBVIOUS
      <4>2. m = F + 5 * D
        BY <3>3, <4>1
      <4>3. m - 1 = F + 5 * D - 1
        BY <1>1, <4>2
      <4> QED
        BY <3>3, <4>1, <4>3
    <3> QED
      BY <3>2, <3>4, <3>5
  <2>2. Cells(g) \subseteq F..(F + 5 * D - 1)
    <3>1. PICK i \in 0..4 : i = place[g]
      BY <1>4
    <3>2. \A c \in Cells(g) : c \in Nat /\ c >= F + i * D /\ c < F + i * D + D
      BY <1>7, <3>1
    <3>3. F <= F + i * D /\ F + i * D + D <= F + 5 * D /\ i * D \in Nat
      <4>1. i \in {0, 1, 2, 3, 4}
        BY <3>1
      <4> QED
        BY <1>1, <4>1
    <3> QED
      BY <1>1, <3>2, <3>3
  <2> QED
    BY <2>1, <2>2
<1> QED
  BY <1>3, <1>8, <1>9

\* What a stage writes, and what it leaves.
LEMMA Written ==
  ASSUME NEW names, Write(names), NEW f, Cells(f) \subseteq DOMAIN memory,
         \A g \in names : g # f => Cells(f) \cap Cells(g) = {},
         f \in names \/ Intact(memory, f)
  PROVE  Intact(memory', f)
<1>1. ASSUME f \in names, NEW c \in Cells(f) PROVE memory'[c] = Tag(f)
  <2>1. \A g \in names : c \in Cells(g) => g = f
    BY <1>1
  <2>2. (CHOOSE g \in names : c \in Cells(g)) = f
    BY <1>1, <2>1
  <2> QED
    BY <1>1, <2>2 DEF Write, Overwrite
<1>2. ASSUME f \notin names, NEW c \in Cells(f) PROVE memory'[c] = memory[c]
  <2>1. ~ \E g \in names : c \in Cells(g)
    BY <1>2
  <2> QED
    BY <1>2, <2>1 DEF Write, Overwrite
<1> QED
  BY <1>1, <1>2 DEF Intact

-----------------------------------------------------------------------------

\* What alloc does to the buffer.
LEMMA AllocTypes ==
  ASSUME TypeInv, NEW l \in Layers, NEW g \in Groups, alloc(l, g)
  PROVE  /\ size_' \in Nat /\ generation' \in Nat /\ DOMAIN memory' = 0..(size_' - 1)
         /\ size_ <= size_' /\ Total(requests(l, g)) <= size_'
         /\ hist_requests_' \subseteq Layers \X {"s", "m"}
         /\ pointer' \in [Layers -> [{"s", "m"} -> 0..generation' \union {None}]]
<1>1. /\ size_ \in Nat /\ generation \in Nat /\ DOMAIN memory = 0..(size_ - 1)
      /\ hist_requests_ \subseteq Layers \X {"s", "m"}
      /\ pointer \in [Layers -> [{"s", "m"} -> 0..generation \union {None}]]
  BY DEF TypeInv, TypeOK
<1>2. PICK need : need = Total(requests(l, g))
  OBVIOUS
<1>3. need \in Nat
  <2>1. WLen(l) \in Nat /\ FLen(l) \in Nat /\ DLen(l) \in Nat
    BY Lengths
  <2>2. need = 3 * WLen(l) + 1 \/ need = FLen(l) + 5 * DLen(l)
    BY <1>2, Lengths DEF Groups
  <2> QED
    BY <2>1, <2>2
<1>4. /\ size_' = IF need > size_ THEN need ELSE size_
      /\ generation' = IF need > size_ THEN generation + 1 ELSE generation
      /\ memory' = IF need > size_ THEN [c \in 0..(need - 1) |-> None] ELSE memory
      /\ hist_requests_' = hist_requests_ \union {<<l, g>>}
  BY <1>2 DEF alloc
<1>5. size_' \in Nat /\ generation' \in Nat /\ size_ <= size_' /\ need <= size_' /\ generation <= generation'
  BY <1>1, <1>3, <1>4
<1>6. DOMAIN memory' = 0..(size_' - 1)
  BY <1>1, <1>4
<1>7. hist_requests_' \subseteq Layers \X {"s", "m"}
  BY <1>1, <1>4 DEF Groups
<1>8. pointer' \in [Layers -> [{"s", "m"} -> 0..generation' \union {None}]]
  <2> DEFINE moved == {<<l, g>>} \union (IF need > size_ THEN hist_requests_ ELSE {})
  <2>1. pointer' = [m \in Layers |-> [h \in {"s", "m"} |->
                      IF <<m, h>> \in moved THEN generation' ELSE pointer[m][h]]]
    BY <1>2, <1>4 DEF alloc
  <2> HIDE DEF moved
  <2>2. 0..generation \subseteq 0..generation' /\ generation' \in 0..generation'
    BY <1>1, <1>5
  <2>3. \A m \in Layers, h \in {"s", "m"} : pointer[m][h] \in 0..generation' \union {None}
    BY <1>1, <2>2
  <2> QED
    BY <2>1, <2>2, <2>3
<1> QED
  BY <1>2, <1>5, <1>6, <1>7, <1>8

LEMMA TypeInit == Init => TypeInv
<1> SUFFICES ASSUME Init PROVE TypeInv
  OBVIOUS
<1> USE DEF Init
<1>1. DOMAIN nodes = {} /\ DOMAIN memory = {} /\ 0..(0 - 1) = {}
  OBVIOUS
<1>2. nodes \in Seq([layer : Layers, qlen : QLens]) /\ Len(nodes) = 0
  OBVIOUS
<1>3. fw_cache_ \in [Layers -> Seq(DOMAIN nodes \union {None})]
  OBVIOUS
<1>4. TypeOK
  BY <1>1, <1>2, <1>3, BoundAssumption DEF TypeOK
<1> QED
  BY <1>2, <1>4 DEF TypeInv, TaskInv, SizeInv

\* A constructor's step, when it has its memory.
LEMMA TypeConstruct ==
  ASSUME TypeInv, NEW l \in Layers, ConstructS(l) \/ ConstructM(l)
  PROVE  TypeInv'
<1>1. PICK g \in Groups : /\ alloc(l, g)
                          /\ \/ g = "s" /\ Idle /\ life' = [life EXCEPT ![l] = "half"]
                             \/ g = "m" /\ life[l] = "half" /\ life' = [life EXCEPT ![l] = "ready"]
  BY DEF ConstructS, ConstructM, Groups
<1>2. UNCHANGED <<fw_cache_, nodes, task, done, pc, spoiled, own>> /\ pc = "idle"
  BY DEF ConstructS, ConstructM, Idle, TypeInv, SizeInv, taskVars, historyVars
<1>3. /\ size_' \in Nat /\ generation' \in Nat /\ DOMAIN memory' = 0..(size_' - 1)
      /\ size_ <= size_' /\ Total(requests(l, g)) <= size_'
      /\ hist_requests_' \subseteq Layers \X {"s", "m"}
      /\ pointer' \in [Layers -> [{"s", "m"} -> 0..generation' \union {None}]]
  BY <1>1, AllocTypes
<1>4. life' \in [Layers -> {"absent", "half", "ready", "gone"}]
  BY <1>1 DEF TypeInv, TypeOK
<1>5. TypeOK'
  BY <1>2, <1>3, <1>4 DEF TypeInv, TypeOK
<1>6. TaskInv'
  BY <1>2 DEF TypeInv, TaskInv
<1>7. SizeInv'
  <2>1. ASSUME NEW m \in Layers, NEW h \in Groups, Total(requests(m, h)) <= size_
        PROVE  Total(requests(m, h)) <= size_'
    <3>1. WLen(m) \in Nat /\ FLen(m) \in Nat /\ DLen(m) \in Nat
      BY Lengths
    <3>2. Total(requests(m, h)) \in Nat
      <4>1. Total(requests(m, h)) = 3 * WLen(m) + 1 \/ Total(requests(m, h)) = FLen(m) + 5 * DLen(m)
        BY Lengths DEF Groups
      <4> QED
        BY <3>1, <4>1
    <3>3. size_ \in Nat
      BY DEF TypeInv, TypeOK
    <3> QED
      BY <1>3, <2>1, <3>2, <3>3
  <2>2. life \in [Layers -> {"absent", "half", "ready", "gone"}]
    BY DEF TypeInv, TypeOK
  <2>3. ASSUME NEW m \in Layers, life'[m] \in {"half", "ready"} PROVE Total(requests(m, "s")) <= size_'
    <3>1. CASE m = l /\ g = "s"
      BY <1>3, <3>1
    <3>2. CASE ~(m = l /\ g = "s")
      BY <1>1, <2>1, <2>2, <2>3, <3>2 DEF TypeInv, SizeInv, Groups
    <3> QED
      BY <3>1, <3>2
  <2>4. ASSUME NEW m \in Layers, life'[m] = "ready" PROVE Total(requests(m, "m")) <= size_'
    <3>1. CASE m = l /\ g = "m"
      BY <1>3, <3>1
    <3>2. CASE ~(m = l /\ g = "m")
      BY <1>1, <2>1, <2>2, <2>4, <3>2 DEF TypeInv, SizeInv, Groups
    <3> QED
      BY <3>1, <3>2
  <2> QED
    BY <1>2, <2>3, <2>4 DEF SizeInv
<1> QED
  BY <1>5, <1>6, <1>7 DEF TypeInv

\* What a stage of a task does to the types.
LEMMA TypeWorker ==
  ASSUME TypeInv, Worker
  PROVE  TypeInv'
<1>0. /\ nodes \in Seq([layer : Layers, qlen : QLens]) /\ fw_cache_ \in [Layers -> Seq(DOMAIN nodes \union {None})]
      /\ spoiled \subseteq Layers \X (Transposed \union Gradients) /\ own \in BOOLEAN
  BY DEF TypeInv, TypeOK
<1>1. pc \in {"forward"} \cup Backward /\ pc # "idle"
  BY DEF Worker, forward_many, forward_one, get_transpose, Gather, Middle, Input, Reduce, Stage,
         backward_one, BackwardReturn, Backward
<1>2. /\ remaining \in Nat /\ group_len \in 0..remaining /\ done + remaining = nodes[task].qlen
      /\ layer \in Layers /\ done \in Nat /\ task \in DOMAIN nodes /\ nodes[task].qlen \in Nat
  BY <1>1, StageTokens, NodeIs DEF TypeInv, TaskInv
<1>3. UNCHANGED <<size_, generation, hist_requests_, pointer, life, nodes>>
  BY DEF Worker, forward_many, forward_one, get_transpose, Gather, Middle, Input, Reduce, Stage,
         backward_one, BackwardReturn, Finish
<1>4. DOMAIN memory' = DOMAIN memory
  BY DEF Worker, forward_many, forward_one, get_transpose, Gather, Middle, Input, Reduce,
         backward_one, BackwardReturn, Write, Overwrite
<1>5. fw_cache_' = fw_cache_ \/ \E n \in Nat : WriteCache(n)
  BY <1>2 DEF Worker, forward_many, forward_one, get_transpose, Gather, Middle, Input, Reduce, Stage,
         backward_one, BackwardReturn, Finish
<1>6. spoiled' \subseteq Layers \X (Transposed \union Gradients)
  <2>1. spoiled' = spoiled \/ \E names \in SUBSET (Transposed \union Gradients) : Read(names)
    BY DEF Worker, forward_many, forward_one, get_transpose, Gather, Middle, Input, Reduce,
           backward_one, BackwardReturn, historyVars, Transposed, Gradients
  <2> QED
    BY <1>0, <1>2, <2>1 DEF Read
<1>7. own' \in BOOLEAN
  <2>1. own' = own \/ \E n : ReadCache(n)
    BY DEF Worker, forward_many, forward_one, get_transpose, Gather, Middle, Input, Reduce,
           backward_one, BackwardReturn, historyVars
  <2> QED
    BY <1>0, <2>1 DEF ReadCache
<1>8. /\ pc' \in {"idle", "forward"} \cup Backward
      /\ \/ pc' # "idle" /\ task' = task /\ done' \in {done, done + group_len}
         \/ pc' = "idle" /\ task' = None /\ done' = 0
  BY DEF Worker, forward_many, forward_one, get_transpose, Gather, Middle, Input, Reduce, Stage,
         backward_one, BackwardReturn, Finish, Backward
<1>9. fw_cache_' \in [Layers -> Seq(DOMAIN nodes \union {None})]
  <2>1. CASE fw_cache_' = fw_cache_
    BY <1>0, <2>1
  <2>2. ASSUME NEW n \in Nat, WriteCache(n) PROVE fw_cache_' \in [Layers -> Seq(DOMAIN nodes \union {None})]
    <3>1. PICK S : S = DOMAIN nodes \union {None}
      OBVIOUS
    <3> DEFINE c == fw_cache_[layer]
               new == [t \in DOMAIN c |-> IF t \in (done + 1)..(done + n) THEN task ELSE c[t]]
    <3>2. c \in Seq(S) /\ task \in S
      BY <1>0, <1>2, <3>1
    <3>3. DOMAIN c = 1..Len(c) /\ Len(c) \in Nat /\ \A t \in 1..Len(c) : c[t] \in S
      BY <3>2
    <3>4. new \in [1..Len(c) -> S]
      BY <3>2, <3>3
    <3>5. new \in Seq(S)
      <4> HIDE DEF new, c
      <4> QED
        BY <3>3, <3>4
    <3>6. fw_cache_' = [fw_cache_ EXCEPT ![layer] = new]
      BY <2>2 DEF WriteCache
    <3> HIDE DEF new
    <3> QED
      BY <1>0, <1>2, <3>1, <3>5, <3>6
  <2> QED
    BY <1>5, <2>1, <2>2
<1>10. done' \in 0..nodes[task].qlen
  BY <1>2, <1>8
<1>11. TypeOK'
  <2>1. done' \in Nat /\ task' \in DOMAIN nodes \union {None}
    BY <1>2, <1>8, <1>10
  <2>2. pc' \in {"idle", "forward", "transpose", "backward", "middle", "input", "reduce"}
    BY <1>8 DEF Backward
  <2> QED
    BY <1>3, <1>4, <1>6, <1>7, <1>9, <2>1, <2>2 DEF TypeInv, TypeOK
<1>12. TaskInv'
  BY <1>2, <1>3, <1>8, <1>10 DEF TypeInv, TaskInv
<1>13. SizeInv'
  BY <1>1, <1>3, <1>8 DEF TypeInv, SizeInv, layer
<1> QED
  BY <1>11, <1>12, <1>13 DEF TypeInv

\* A new forward.
LEMMA TypeSubmit ==
  ASSUME TypeInv, NEW l \in Layers, NEW qlen \in QLens, SubmitForward(l, qlen)
  PROVE  TypeInv'
<1> DEFINE Node == [layer : Layers, qlen : QLens]
           new == [layer |-> l, qlen |-> qlen]
           more == [t \in 1..(qlen - Len(fw_cache_[l])) |-> None]
<1>1. /\ pc = "idle" /\ (\A m \in Layers : life[m] # "half") /\ life[l] = "ready"
      /\ Len(nodes) < MaxForwards /\ nodes' = Append(nodes, new)
      /\ task' = Len(nodes) + 1 /\ done' = 0 /\ pc' = "forward"
      /\ fw_cache_' = [fw_cache_ EXCEPT ![l] = @ \o more]
      /\ UNCHANGED <<memory, size_, generation, hist_requests_, pointer, life, spoiled, own>>
  BY DEF SubmitForward, Idle, ensure_fwd_cache, historyVars, bufferVars
<1>2. nodes \in Seq(Node) /\ new \in Node /\ qlen \in Nat \ {0}
  BY QLensAssumption DEF TypeInv, TypeOK
<1>3. /\ nodes' \in Seq(Node) /\ Len(nodes) \in Nat /\ DOMAIN nodes = 1..Len(nodes)
      /\ DOMAIN nodes' = 1..(Len(nodes) + 1) /\ nodes'[Len(nodes) + 1] = new
      /\ Len(nodes') = Len(nodes) + 1
  <2> HIDE DEF Node, new
  <2> QED
    BY <1>1, <1>2
<1>4. nodes'[task'] = new /\ task' \in DOMAIN nodes' /\ Len(nodes') <= MaxForwards
  BY <1>1, <1>3, BoundAssumption
<1>5. PICK S : S = DOMAIN nodes' \union {None}
  OBVIOUS
<1>6. \A m \in Layers : fw_cache_[m] \in Seq(S)
  <2>1. DOMAIN nodes \union {None} \subseteq S
    BY <1>3, <1>5
  <2>2. \A m \in Layers : fw_cache_[m] \in Seq(DOMAIN nodes \union {None})
    BY DEF TypeInv, TypeOK
  <2>3. ASSUME NEW T, T \subseteq S, NEW q \in Seq(T) PROVE q \in Seq(S)
    BY <2>3
  <2> QED
    BY <2>1, <2>2, <2>3
<1>7. more \in Seq(S)
  <2>1. Len(fw_cache_[l]) \in Nat /\ None \in S
    BY <1>5, <1>6
  <2>2. CASE qlen <= Len(fw_cache_[l])
    <3>1. more = <<>>
      BY <1>2, <2>1, <2>2
    <3> HIDE DEF more
    <3> QED
      BY <3>1
  <2>3. CASE qlen > Len(fw_cache_[l])
    <3>1. PICK n \in Nat : n = qlen - Len(fw_cache_[l])
      <4> HIDE DEF more, new, Node
      <4>1. qlen - Len(fw_cache_[l]) \in Nat
        BY <1>2, <2>1, <2>3
      <4> QED
        BY <4>1
    <3>2. more \in [1..n -> S]
      BY <2>1, <3>1
    <3> HIDE DEF more
    <3> QED
      BY <3>2
  <2> HIDE DEF more
  <2> QED
    BY <1>2, <2>1, <2>2, <2>3
<1>8. fw_cache_' \in [Layers -> Seq(S)]
  <2> HIDE DEF more
  <2>1. fw_cache_[l] \o more \in Seq(S)
    BY <1>6, <1>7
  <2>2. fw_cache_' = [m \in Layers |-> IF m = l THEN fw_cache_[l] \o more ELSE fw_cache_[m]]
    BY <1>1 DEF TypeInv, TypeOK
  <2> QED
    BY <1>6, <2>1, <2>2
<1>9. TypeOK'
  BY <1>1, <1>3, <1>4, <1>5, <1>8 DEF TypeInv, TypeOK
<1>10. TaskInv'
  BY <1>1, <1>2, <1>3, <1>4 DEF TaskInv
<1>11. SizeInv'
  BY <1>1, <1>4 DEF TypeInv, SizeInv, layer
<1> QED
  BY <1>9, <1>10, <1>11 DEF TypeInv

LEMMA TypeStep ==
  ASSUME TypeInv, [Next]_vars
  PROVE  TypeInv'
<1>1. ASSUME NEW l \in Layers, Construct(l) PROVE TypeInv'
  BY <1>1, TypeConstruct DEF Construct
<1>2. ASSUME NEW l \in Layers, Destruct(l) PROVE TypeInv'
  <2>1. /\ pc = "idle" /\ hist_requests_' \subseteq hist_requests_ /\ life' = [life EXCEPT ![l] = "gone"]
        /\ UNCHANGED <<memory, size_, generation, pointer, fw_cache_, nodes, task, done, pc, spoiled, own>>
    BY <1>2 DEF Destruct, Idle, taskVars, historyVars
  <2>2. TypeOK' /\ TaskInv'
    BY <2>1 DEF TypeInv, TypeOK, TaskInv
  <2>3. SizeInv'
    BY <2>1 DEF TypeInv, TypeOK, SizeInv
  <2> QED
    BY <2>2, <2>3 DEF TypeInv
<1>3. ASSUME NEW l \in Layers, warm_up(l) PROVE TypeInv'
  <2>1. /\ DOMAIN memory' = DOMAIN memory
        /\ UNCHANGED <<size_, generation, hist_requests_, pointer, life, fw_cache_, nodes, task, done, pc,
                       spoiled, own>>
    BY <1>3 DEF warm_up, taskVars, historyVars
  <2> QED
    BY <2>1 DEF TypeInv, TypeOK, TaskInv, SizeInv, layer
<1>4. ASSUME NEW l \in Layers, NEW qlen \in QLens, SubmitForward(l, qlen) PROVE TypeInv'
  BY <1>4, TypeSubmit
<1>5. ASSUME NEW i \in DOMAIN nodes, SubmitBackward(i) PROVE TypeInv'
  <2>1. /\ (\A m \in Layers : life[m] # "half") /\ life[nodes[i].layer] = "ready"
        /\ task' = i /\ done' = 0 /\ pc' = "transpose"
        /\ UNCHANGED <<memory, size_, generation, hist_requests_, pointer, life, fw_cache_, nodes, spoiled, own>>
    BY <1>5 DEF SubmitBackward, Idle, bufferVars, historyVars
  <2>2. nodes[i].qlen \in Nat
    BY NodeIs DEF TypeInv
  <2>3. TypeOK' /\ TaskInv'
    <3>1. TaskInv'
      BY <2>1, <2>2 DEF TypeInv, TaskInv, Backward
    <3>2. TypeOK'
      BY <2>1 DEF TypeInv, TypeOK
    <3> QED
      BY <3>1, <3>2
  <2>4. SizeInv'
    BY <2>1 DEF TypeInv, SizeInv, layer
  <2> QED
    BY <2>3, <2>4 DEF TypeInv
<1>6. CASE Worker
  BY <1>6, TypeWorker
<1>7. CASE UNCHANGED vars
  BY <1>7 DEF vars, bufferVars, taskVars, historyVars, TypeInv, TypeOK, TaskInv, SizeInv, layer
<1> QED
  BY <1>1, <1>2, <1>3, <1>4, <1>5, <1>6, <1>7 DEF Next, Over

-----------------------------------------------------------------------------

\* A field stays where it is, and is for the same, as long as the task is.
LEMMA SameField ==
  ASSUME UNCHANGED <<nodes, task>>, NEW f
  PROVE  /\ f \in Transposed => Cells(f)' = Cells(f) /\ Tag(f)' = Tag(f)
         /\ UNCHANGED done => Cells(f)' = Cells(f) /\ Tag(f)' = Tag(f)
<1>1. layer' = layer
  BY DEF layer
<1>2. f \in Transposed => Length(f)' = Length(f)
  BY <1>1 DEF Length
<1>3. UNCHANGED done => Length(f)' = Length(f)
  BY <1>1 DEF Length, group_len, remaining
<1>4. Length(f)' = Length(f) => Cells(f)' = Cells(f)
  BY <1>1 DEF Cells, Prefix, requests
<1> QED
  BY <1>1, <1>2, <1>3, <1>4 DEF Tag

LEMMA SameIntact ==
  ASSUME UNCHANGED <<nodes, task>>, NEW f, f \in Transposed \/ UNCHANGED done,
         NEW contents, contents = memory', Intact(contents, f)
  PROVE  Intact(memory, f)'
<1>1. Cells(f)' = Cells(f) /\ Tag(f)' = Tag(f)
  BY SameField
<1> QED
  BY <1>1 DEF Intact

\* What a stage of backward_many writes of its fields is there afterwards; the
\* others it leaves, and every transposed matrix that lies apart from them.
LEMMA StageWrites ==
  ASSUME TypeInv, pc # "idle", NEW names \in SUBSET Gradients, Write(names),
         NEW f \in Transposed \cup Gradients, ~(f \in Transposed /\ Overlapped(layer, f)),
         f \in names \/ Intact(memory, f)
  PROVE  Intact(memory', f)
<1>1. Cells(f) \subseteq DOMAIN memory
  BY CellsIn DEF Names
<1>2. \A g \in names : g # f => Cells(f) \cap Cells(g) = {}
  BY CellsApart
<1> QED
  BY <1>1, <1>2, Written

\* So it keeps what SoundInv says of the matrices.
LEMMA StageKeeps ==
  ASSUME TypeInv, pc # "idle", NEW names \in SUBSET Gradients, Write(names),
         UNCHANGED <<nodes, task>>, \A f \in Transposed : Overlapped(layer, f) \/ Intact(memory, f)
  PROVE  /\ \A f \in Transposed : Overlapped(layer, f) \/ Intact(memory', f)
         /\ (\A f \in Transposed : Overlapped(layer, f) \/ Intact(memory, f))'
<1>1. \A f \in Transposed : Overlapped(layer, f) \/ Intact(memory', f)
  BY StageWrites
<1>2. layer' = layer
  BY DEF layer
<1>3. ASSUME NEW f \in Transposed, ~Overlapped(layer, f) PROVE Intact(memory, f)'
  BY <1>1, <1>3, SameIntact
<1> QED
  BY <1>1, <1>2, <1>3

\* A read that finds its fields intact, but for matrices that overlap.
LEMMA ReadSound ==
  ASSUME OnlyOverlapSpoils, NEW names, Read(names),
         \A f \in names : \/ f \in Transposed /\ Overlapped(layer, f)
                          \/ Intact(memory, f) /\ Intact(memory', f)
  PROVE  OnlyOverlapSpoils'
<1>1. PICK contents \in {memory, memory'} :
        spoiled' = spoiled \cup ({layer} \X {f \in names : ~Intact(contents, f)})
  BY DEF Read
<1>2. \A f \in names : ~Intact(contents, f) => f \in Transposed /\ Overlapped(layer, f)
  BY <1>1
<1>3. ASSUME NEW r \in spoiled' PROVE r[2] \in Transposed /\ Overlapped(r[1], r[2])
  <2>1. CASE r \in spoiled
    BY <2>1 DEF OnlyOverlapSpoils
  <2>2. CASE r \in {layer} \X {f \in names : ~Intact(contents, f)}
    <3>1. r[1] = layer /\ r[2] \in names /\ ~Intact(contents, r[2])
      BY <2>2
    <3> QED
      BY <1>2, <3>1
  <2> QED
    BY <1>1, <1>3, <2>1, <2>2
<1> QED
  BY <1>3 DEF OnlyOverlapSpoils

LEMMA SoundStep ==
  ASSUME TypeInv, SoundInv, [Next]_vars
  PROVE  SoundInv'
<1> DEFINE Calm == spoiled' = spoiled /\ pc' \in {"idle", "forward", "transpose"}
<1>0. ASSUME Calm PROVE SoundInv'
  BY <1>0 DEF SoundInv, OnlyOverlapSpoils
<1>1. ASSUME NEW l \in Layers, Construct(l) \/ Destruct(l) \/ warm_up(l) PROVE SoundInv'
  <2>1. UNCHANGED <<spoiled, pc>> /\ pc = "idle"
    BY <1>1 DEF Construct, ConstructS, ConstructM, Destruct, warm_up, Idle, historyVars, taskVars,
                TypeInv, SizeInv
  <2> QED
    BY <1>0, <2>1
<1>2. ASSUME NEW l \in Layers, NEW qlen \in QLens, SubmitForward(l, qlen) PROVE SoundInv'
  BY <1>0, <1>2 DEF SubmitForward, historyVars
<1>3. ASSUME NEW i \in DOMAIN nodes, SubmitBackward(i) PROVE SoundInv'
  BY <1>0, <1>3 DEF SubmitBackward, historyVars
<1>4. CASE forward_many \/ forward_one \/ BackwardReturn
  BY <1>0, <1>4 DEF forward_many, forward_one, BackwardReturn, Finish, historyVars
<1>5. OnlyOverlapSpoils
  BY DEF SoundInv
<1>6. CASE get_transpose
  <2>1. /\ pc # "idle" /\ pc' = "backward" /\ UNCHANGED <<nodes, task, spoiled>>
        /\ Write(Transposed \union {"s_scratch"})
    BY <1>6 DEF get_transpose, Stage, historyVars
  <2>2. ASSUME NEW f \in Transposed PROVE Intact(memory, f)'
    <3>1. Cells(f) \subseteq DOMAIN memory
      BY <2>1, CellsIn DEF Names
    <3>2. \A g \in Transposed \union {"s_scratch"} : g # f => Cells(f) \cap Cells(g) = {}
      BY <2>1, CellsApart
    <3>3. Intact(memory', f)
      BY <2>1, <3>1, <3>2, Written
    <3> QED
      BY <2>1, <3>3, SameIntact
  <2> QED
    BY <1>5, <2>1, <2>2 DEF SoundInv, OnlyOverlapSpoils
<1>7. CASE Gather
  <2>1. /\ pc = "backward" /\ pc' = "middle" /\ UNCHANGED <<nodes, task, done, spoiled>>
        /\ Write({"m_output_grad", "m_index"})
    BY <1>7 DEF Gather, Stage, historyVars
  <2>2. (\A f \in Transposed : Overlapped(layer, f) \/ Intact(memory, f))'
    BY <2>1, StageKeeps DEF SoundInv, Gradients
  <2>3. Intact(memory', "m_output_grad") /\ Intact(memory', "m_index")
    BY <2>1, StageWrites DEF Gradients, Transposed
  <2>4. Intact(memory, "m_output_grad")' /\ Intact(memory, "m_index")'
    BY <2>1, <2>3, SameIntact
  <2> QED
    BY <1>5, <2>1, <2>2, <2>4 DEF SoundInv, OnlyOverlapSpoils
<1>8. CASE Middle
  <2>1. /\ pc = "middle" /\ pc' = "input" /\ UNCHANGED <<nodes, task, done>>
        /\ Write({"m_mid_grad"}) /\ Read({"down_t", "m_output_grad", "m_index"})
    BY <1>8 DEF Middle, Stage
  <2>2. /\ \A f \in Transposed : Overlapped(layer, f) \/ Intact(memory, f)
        /\ Intact(memory, "m_output_grad") /\ Intact(memory, "m_index")
    BY <2>1 DEF SoundInv
  <2>3. /\ \A f \in Transposed : Overlapped(layer, f) \/ Intact(memory', f)
        /\ (\A f \in Transposed : Overlapped(layer, f) \/ Intact(memory, f))'
    BY <2>1, <2>2, StageKeeps DEF Gradients
  <2>4. \A f \in {"m_output_grad", "m_index", "m_mid_grad"} : Intact(memory', f)
    BY <2>1, <2>2, StageWrites DEF Gradients, Transposed
  <2>5. OnlyOverlapSpoils'
    <3>1. \A f \in {"down_t", "m_output_grad", "m_index"} :
            \/ f \in Transposed /\ Overlapped(layer, f)
            \/ Intact(memory, f) /\ Intact(memory', f)
      BY <2>2, <2>3, <2>4 DEF Transposed
    <3> QED
      BY <1>5, <2>1, <3>1, ReadSound
  <2>6. Intact(memory, "m_mid_grad")'
    BY <2>1, <2>4, SameIntact
  <2> QED
    BY <2>1, <2>3, <2>5, <2>6 DEF SoundInv
<1>9. CASE Input
  <2>1. /\ pc = "input" /\ pc' = "reduce" /\ UNCHANGED <<nodes, task, done>>
        /\ Write({"m_input_grad"}) /\ Read({"gate_t", "up_t", "m_mid_grad"})
    BY <1>9 DEF Input, Stage
  <2>2. /\ \A f \in Transposed : Overlapped(layer, f) \/ Intact(memory, f)
        /\ Intact(memory, "m_mid_grad")
    BY <2>1 DEF SoundInv
  <2>3. /\ \A f \in Transposed : Overlapped(layer, f) \/ Intact(memory', f)
        /\ (\A f \in Transposed : Overlapped(layer, f) \/ Intact(memory, f))'
    BY <2>1, <2>2, StageKeeps DEF Gradients
  <2>4. \A f \in {"m_mid_grad", "m_input_grad"} : Intact(memory', f)
    BY <2>1, <2>2, StageWrites DEF Gradients, Transposed
  <2>5. OnlyOverlapSpoils'
    <3>1. \A f \in {"gate_t", "up_t", "m_mid_grad"} :
            \/ f \in Transposed /\ Overlapped(layer, f)
            \/ Intact(memory, f) /\ Intact(memory', f)
      BY <2>2, <2>3, <2>4 DEF Transposed
    <3> QED
      BY <1>5, <2>1, <3>1, ReadSound
  <2>6. Intact(memory, "m_input_grad")'
    BY <2>1, <2>4, SameIntact
  <2> QED
    BY <2>1, <2>3, <2>5, <2>6 DEF SoundInv
<1>10. CASE Reduce
  <2>1. /\ pc = "reduce" /\ pc' = "backward" /\ UNCHANGED <<nodes, task>>
        /\ Write({"m_grad_input"}) /\ Read({"m_input_grad"})
    BY <1>10 DEF Reduce, Stage
  <2>2. /\ \A f \in Transposed : Overlapped(layer, f) \/ Intact(memory, f)
        /\ Intact(memory, "m_input_grad")
    BY <2>1 DEF SoundInv
  <2>3. (\A f \in Transposed : Overlapped(layer, f) \/ Intact(memory, f))'
    BY <2>1, <2>2, StageKeeps DEF Gradients
  <2>4. Intact(memory', "m_input_grad")
    BY <2>1, <2>2, StageWrites DEF Gradients, Transposed
  <2>5. OnlyOverlapSpoils'
    BY <1>5, <2>1, <2>2, <2>4, ReadSound
  <2> QED
    BY <2>1, <2>3, <2>5 DEF SoundInv
<1>11. CASE backward_one
  <2>1. /\ pc = "backward" /\ pc' = "idle"
        /\ Write({"s_scratch"}) /\ Read(Transposed)
    BY <1>11 DEF backward_one, Finish
  <2>2. \A f \in Transposed : Overlapped(layer, f) \/ Intact(memory, f)
    BY <2>1 DEF SoundInv
  <2>3. ASSUME NEW f \in Transposed, Intact(memory, f) PROVE Intact(memory', f)
    <3>1. Cells(f) \subseteq DOMAIN memory
      BY <2>1, CellsIn DEF Names
    <3>2. \A g \in {"s_scratch"} : g # f => Cells(f) \cap Cells(g) = {}
      BY <2>1, CellsApart
    <3> QED
      BY <2>1, <2>3, <3>1, <3>2, Written
  <2>4. OnlyOverlapSpoils'
    BY <1>5, <2>1, <2>2, <2>3, ReadSound
  <2> QED
    BY <2>1, <2>4 DEF SoundInv
<1>12. CASE UNCHANGED vars
  <2>1. UNCHANGED <<memory, nodes, task, done, pc, spoiled>> /\ layer' = layer
    BY <1>12 DEF vars, bufferVars, taskVars, historyVars, layer
  <2>2. \A f : Intact(memory, f) => Intact(memory, f)'
    BY <2>1, SameIntact
  <2> QED
    BY <2>1, <2>2 DEF SoundInv, OnlyOverlapSpoils
<1> QED
  BY <1>1, <1>2, <1>3, <1>4, <1>6, <1>7, <1>8, <1>9, <1>10, <1>11, <1>12 DEF Next, Worker, Over

(* Every variable of the operator and its buffer keeps its type, for any   *)
(* layers and any lengths: the buffer is as long as size_ says, pointers   *)
(* name allocations that were made, and the caches hold forwards that ran. *)
THEOREM TypeCorrect == Spec => []TypeOK
<1>1. TypeInv /\ [Next]_vars => TypeInv'
  BY TypeStep
<1>2. TypeInv => TypeOK
  BY DEF TypeInv
<1> QED
  BY TypeInit, <1>1, <1>2, PTL DEF Spec

(* All that a backward can find overwritten is a transposed matrix that    *)
(* reaches into the fields of backward_many: every other matrix, and every *)
(* gradient and index that a stage reads, is as it was left for the same   *)
(* tokens; for layers of any sizes, and any numbers of tokens and groups.  *)
THEOREM BackwardSound == Spec => []OnlyOverlapSpoils
<1>1. Init => SoundInv
  BY DEF Init, SoundInv, OnlyOverlapSpoils
<1>2. TypeInv /\ SoundInv /\ [Next]_vars => TypeInv' /\ SoundInv'
  BY TypeStep, SoundStep
<1>3. SoundInv => OnlyOverlapSpoils
  BY DEF SoundInv
<1> QED
  BY TypeInit, <1>1, <1>2, <1>3, PTL DEF Spec

(* In layers whose matrices all end before the fields of backward_many, a  *)
(* backward computes with what it was meant to. The layers of the test in  *)
(* test_sft_moe.py are not of this kind, see SftMoeShared.cfg.             *)
THEOREM BackwardSoundApart ==
  ASSUME \A l \in Layers, f \in Transposed : ~Overlapped(l, f)
  PROVE  Spec => []GradientsSound
<1>1. TypeInv /\ SoundInv => GradientsSound
  <2> SUFFICES ASSUME TypeInv, SoundInv, NEW r \in spoiled PROVE FALSE
    BY DEF GradientsSound
  <2>1. r[1] \in Layers /\ r[2] \in Transposed /\ Overlapped(r[1], r[2])
    BY DEF TypeInv, TypeOK, SoundInv, OnlyOverlapSpoils
  <2> QED
    BY <2>1
<1>2. Init => SoundInv
  BY DEF Init, SoundInv, OnlyOverlapSpoils
<1>3. TypeInv /\ SoundInv /\ [Next]_vars => TypeInv' /\ SoundInv'
  BY TypeStep, SoundStep
<1> QED
  BY TypeInit, <1>1, <1>2, <1>3, PTL DEF Spec
=============================================================================
