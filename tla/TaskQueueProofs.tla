--------------------------- MODULE TaskQueueProofs ---------------------------
(***************************************************************************)
(* Proofs about TaskQueue, for any finite set of client threads, any set   *)
(* of tasks and any allowances.                                            *)
(*                                                                         *)
(* The argument: the nodes in exchange order are a sequence without        *)
(* repetitions; a node's `next' is its successor or still null, and it is  *)
(* null exactly where some producer stands between its exchange and its    *)
(* link; the worker has only passed nodes that are linked, and has deleted *)
(* exactly those it passed.  Hence what a producer writes through is never *)
(* behind the worker.  The counter is the number of exchanged nodes that   *)
(* are not yet retired plus the producers before their exchange, hence it  *)
(* bounds what is unfinished when sync looks at it.                        *)
(***************************************************************************)
EXTENDS TaskQueue, FiniteSetTheorems, SequenceTheorems, TLAPS

\* The index in `order' of the worker's current node.
At == IF wpc \in {"busy", "retire"} THEN Len(ran) ELSE Len(ran) + 1

\* The number of tasks the counter no longer counts.
Retired == IF wpc \in {"busy", "retire", "count"} THEN Len(ran) - 1 ELSE Len(ran)

Swapping == {p \in Producers : pc[p] = "swap"}

OrderInv ==
  /\ Len(order) >= 1
  /\ order[1] = Dummy
  /\ \A i \in 2..Len(order) : order[i] \in Tasks
  /\ \A i, j \in 1..Len(order) : order[i] = order[j] => i = j
  /\ tail = order[Len(order)]

LinkInv ==
  /\ \A i \in 1..(Len(order) - 1) : next[order[i]] \in {NULL, order[i + 1]}
  /\ next[tail] = NULL
  /\ \A n \in Nodes : (\A i \in 1..Len(order) : order[i] # n) => next[n] = NULL

SwapInv ==
  \A p \in Producers : pc[p] = "swap" =>
    /\ node[p] \in Tasks
    /\ \A i \in 1..Len(order) : order[i] # node[p]
    /\ \A q \in Producers : pc[q] = "swap" /\ node[q] = node[p] => q = p

\* A producer before its link is at a break of the list, and the only one there.
BreakInv ==
  \A p \in Producers : pc[p] = "link" =>
    /\ \E i \in 1..(Len(order) - 1) : prev[p] = order[i] /\ node[p] = order[i + 1]
    /\ next[prev[p]] = NULL
    /\ \A q \in Producers : pc[q] = "link" /\ prev[q] = prev[p] => q = p

\* Every break of the list has its producer.
RepairInv ==
  \A i \in 1..(Len(order) - 1) : next[order[i]] = NULL =>
    \E p \in Producers : pc[p] = "link" /\ prev[p] = order[i]

WorkerInv ==
  /\ At <= Len(order)
  /\ curr = order[At]
  /\ \A i \in 1..(At - 1) : next[order[i]] = order[i + 1]
  /\ wpc \in {"busy", "retire", "count"} => Len(ran) >= 1
  /\ wpc \in {"busy", "retire"} => At < Len(order) /\ wnext = order[At + 1] /\ next[curr] = wnext
  /\ \A i \in 1..Len(ran) : i < Len(order) /\ ran[i] = order[i + 1]

\* What is deleted is what the worker, then the destructor, has passed.
FreeInv ==
  /\ dpc \in {"alive", "join"} => head = curr /\ freed = {order[i] : i \in 1..(At - 1)}
  /\ dpc = "sweep" =>
       \/ head = NULL /\ freed = {order[i] : i \in 1..Len(order)}
       \/ \E h \in 1..Len(order) : head = order[h] /\ freed = {order[i] : i \in 1..(h - 1)}
  /\ dpc = "gone" => freed = {order[i] : i \in 1..Len(order)}

PhaseInv ==
  /\ done <=> dpc # "alive"
  /\ wpc = "exited" => done
  /\ dpc \in {"sweep", "gone"} => wpc = "exited"
  /\ dpc # "alive" => \A p \in Producers : pc[p] = "idle"

CountInv == pending = (Len(order) - 1) - Retired + Cardinality(Swapping)

\* The i-th of a producer's tasks is followed in the order by all its later ones.
IssueInv ==
  \A q \in Producers : \A i \in 1..Len(issued[q]) :
    \E k \in 2..Len(order) : order[k] = issued[q][i] /\ k + Len(issued[q]) <= Len(order) + i

IInv ==
  /\ TypeOK /\ OrderInv /\ LinkInv /\ SwapInv /\ BreakInv /\ RepairInv
  /\ WorkerInv /\ FreeInv /\ PhaseInv /\ CountInv /\ IssueInv

-----------------------------------------------------------------------------

(* The inductive invariant holds of the queue as constructed. *)
THEOREM InitInv == Init => IInv
<1> SUFFICES ASSUME Init PROVE IInv
  OBVIOUS
<1> USE DEF Init
<1>1. TypeOK
  <2>1. Dummy \in Nodes /\ order \in Seq(Nodes) /\ ran \in Seq(Nodes)
    BY DEF Nodes
  <2>2. issued \in [Producers -> Seq(Tasks)]
    OBVIOUS
  <2> QED
    BY <2>1, <2>2 DEF TypeOK
<1>2. Swapping = {} /\ Cardinality(Swapping) = 0
  BY FS_EmptySet DEF Swapping
<1>3. CountInv
  BY <1>2 DEF CountInv, Retired
<1>4. OrderInv /\ LinkInv /\ SwapInv /\ BreakInv /\ RepairInv
  BY DEF OrderInv, LinkInv, SwapInv, BreakInv, RepairInv, Nodes
<1>5. WorkerInv /\ FreeInv /\ PhaseInv /\ IssueInv
  BY DEF WorkerInv, FreeInv, PhaseInv, IssueInv, At
<1> QED
  BY <1>1, <1>3, <1>4, <1>5 DEF IInv

\* The set of swapping producers is finite, and grows or shrinks by one.
LEMMA SwappingFinite == IsFiniteSet(Swapping) /\ Cardinality(Swapping) \in Nat
<1>1. Swapping \subseteq Producers
  BY DEF Swapping
<1> QED
  BY <1>1, ProducersAssumption, FS_Subset, FS_CardinalityType

-----------------------------------------------------------------------------
(* enqueue *)

LEMMA AnnounceStep ==
  ASSUME IInv, NEW p \in Producers, NEW t \in Tasks, EnqueueAnnounce(p, t)
  PROVE  IInv'
<1> USE DEF IInv
<1>0. /\ dpc = "alive" /\ pc[p] = "idle" /\ t \notin Submitted
      /\ pending' = pending + 1
      /\ node' = [node EXCEPT ![p] = t]
      /\ pc' = [pc EXCEPT ![p] = "swap"]
      /\ UNCHANGED <<next, head, tail, freed, done, prev, allow, wpc, curr, wnext, dpc, order, ran, issued>>
  BY DEF EnqueueAnnounce, listVars, workerVars, historyVars
<1>1. TypeOK'
  BY <1>0 DEF TypeOK
<1>2. OrderInv' /\ LinkInv' /\ WorkerInv' /\ FreeInv' /\ IssueInv'
  BY <1>0 DEF OrderInv, LinkInv, WorkerInv, FreeInv, IssueInv, At
<1>3. SwapInv'
  <2>1. \A i \in 1..Len(order) : order[i] # t
    <3>1. \A i \in 2..Len(order) : order[i] # t
      BY <1>0 DEF Submitted
    <3>2. order[1] # t
      BY NodesAssumption DEF OrderInv
    <3> QED
      BY <3>1, <3>2 DEF TypeOK
  <2>2. \A q \in Producers : pc[q] = "swap" => node[q] # t
    BY <1>0 DEF Submitted
  <2> QED
    BY <1>0, <2>1, <2>2 DEF SwapInv, TypeOK
<1>4. BreakInv' /\ RepairInv' /\ PhaseInv'
  <2>1. \A q \in Producers : pc'[q] = "link" <=> pc[q] = "link"
    BY <1>0 DEF TypeOK
  <2>2. \A q \in Producers : pc[q] = "link" => node'[q] = node[q]
    BY <1>0 DEF TypeOK
  <2>3. BreakInv'
    BY <1>0, <2>1, <2>2 DEF BreakInv
  <2>4. RepairInv'
    BY <1>0, <2>1 DEF RepairInv
  <2>5. PhaseInv'
    BY <1>0 DEF PhaseInv
  <2> QED
    BY <2>3, <2>4, <2>5
<1>5. CountInv'
  <2>1. Swapping' = Swapping \union {p} /\ p \notin Swapping
    BY <1>0 DEF Swapping, TypeOK
  <2>2. Cardinality(Swapping') = Cardinality(Swapping) + 1
    BY <2>1, SwappingFinite, FS_AddElement
  <2>3. Retired' = Retired /\ Retired \in Int /\ Len(order) \in Nat
    BY <1>0 DEF Retired, TypeOK
  <2> QED
    BY <1>0, <2>2, <2>3, SwappingFinite DEF CountInv
<1> QED
  BY <1>1, <1>2, <1>3, <1>4, <1>5

LEMMA SwapStep ==
  ASSUME IInv, NEW p \in Producers, EnqueueSwap(p)
  PROVE  IInv'
<1> USE DEF IInv
<1>0. /\ pc[p] = "swap"
      /\ prev' = [prev EXCEPT ![p] = tail]
      /\ tail' = node[p]
      /\ pc' = [pc EXCEPT ![p] = "link"]
      /\ order' = Append(order, node[p])
      /\ issued' = [issued EXCEPT ![p] = Append(@, node[p])]
      /\ UNCHANGED <<next, head, freed, done, pending, node, allow, wpc, curr, wnext, dpc, ran>>
  BY DEF EnqueueSwap, workerVars
<1> DEFINE N == Len(order)
<1>a. N \in Nat /\ N >= 1 /\ node[p] \in Tasks /\ node[p] \in Nodes
  BY <1>0 DEF TypeOK, OrderInv, SwapInv, Nodes
<1>b. /\ Len(order') = N + 1
      /\ order'[N + 1] = node[p]
      /\ \A i \in 1..N : order'[i] = order[i]
  BY <1>0, <1>a DEF TypeOK
<1>c. \A i \in 1..N : order[i] \in Nodes
  BY DEF TypeOK
<1>1. TypeOK'
  BY <1>0, <1>a, NodesAssumption DEF TypeOK
<1>2. OrderInv'
  BY <1>0, <1>a, <1>b DEF OrderInv, SwapInv
<1>3. LinkInv'
  <2>1. next[node[p]] = NULL
    BY <1>0, <1>a DEF LinkInv, SwapInv
  <2>2. \A i \in 1..N : next[order[i]] \in {NULL, order'[i + 1]}
    <3> TAKE i \in 1..N
    <3>1. CASE i < N
      BY <3>1, <1>a, <1>b DEF LinkInv
    <3>2. CASE i = N
      BY <3>2, <1>a DEF LinkInv, OrderInv
    <3> QED
      BY <3>1, <3>2, <1>a
  <2>3. \A n \in Nodes : (\A i \in 1..(N + 1) : order'[i] # n) => \A i \in 1..N : order[i] # n
    BY <1>a, <1>b
  <2> QED
    BY <1>0, <1>a, <1>b, <2>1, <2>2, <2>3 DEF LinkInv
<1>4. SwapInv'
  <2>1. \A q \in Producers : pc'[q] = "swap" => pc[q] = "swap" /\ node[q] # node[p]
    BY <1>0 DEF SwapInv, TypeOK
  <2> QED
    BY <1>0, <1>a, <1>b, <2>1 DEF SwapInv
<1>5. BreakInv'
  <2>1. next'[prev'[p]] = NULL /\ prev'[p] = order'[N] /\ node'[p] = order'[N + 1]
    BY <1>0, <1>a, <1>b DEF LinkInv, OrderInv, TypeOK
  <2>2. ASSUME NEW q \in Producers, pc'[q] = "link", q # p
        PROVE  /\ pc[q] = "link" /\ prev'[q] = prev[q]
               /\ \E i \in 1..(N - 1) : prev[q] = order[i] /\ node[q] = order[i + 1]
    BY <2>2, <1>0 DEF BreakInv, TypeOK
  <2>3. ASSUME NEW q \in Producers, pc'[q] = "link", q # p
        PROVE  prev'[q] # prev'[p]
    <3>1. PICK i \in 1..(N - 1) : prev'[q] = order[i]
      BY <2>2, <2>3
    <3>2. prev'[p] = order[N]
      BY <1>0 DEF OrderInv, TypeOK
    <3> QED
      BY <3>1, <3>2, <1>a DEF OrderInv
  <2>4. ASSUME NEW q \in Producers, pc'[q] = "link"
        PROVE  \E i \in 1..N : prev'[q] = order'[i] /\ node'[q] = order'[i + 1]
    <3>1. CASE q = p
      BY <3>1, <2>1, <1>a
    <3>2. CASE q # p
      <4>1. PICK i \in 1..(N - 1) : prev[q] = order[i] /\ node[q] = order[i + 1]
        BY <2>2, <2>4, <3>2
      <4>2. i \in 1..N /\ prev'[q] = order'[i] /\ node'[q] = order'[i + 1]
        BY <4>1, <2>2, <2>4, <3>2, <1>0, <1>a, <1>b
      <4> QED
        BY <4>2
    <3> QED
      BY <3>1, <3>2
  <2>5. ASSUME NEW q \in Producers, pc'[q] = "link"
        PROVE  next'[prev'[q]] = NULL
    BY <2>1, <2>2, <2>5, <1>0 DEF BreakInv
  <2>6. ASSUME NEW q \in Producers, pc'[q] = "link",
               NEW r \in Producers, pc'[r] = "link", prev'[r] = prev'[q]
        PROVE  r = q
    BY <2>2, <2>3, <2>6 DEF BreakInv
  <2> QED
    BY <2>4, <2>5, <2>6, <1>b DEF BreakInv
<1>6. RepairInv'
  <2> SUFFICES ASSUME NEW i \in 1..N, next[order'[i]] = NULL
               PROVE  \E q \in Producers : pc'[q] = "link" /\ prev'[q] = order'[i]
    BY <1>0, <1>a, <1>b DEF RepairInv
  <2>1. CASE i = N
    BY <2>1, <1>0, <1>a, <1>b DEF OrderInv, TypeOK
  <2>2. CASE i < N
    <3>1. PICK q \in Producers : pc[q] = "link" /\ prev[q] = order[i]
      BY <2>2, <1>a, <1>b DEF RepairInv
    <3>2. pc'[q] = "link" /\ prev'[q] = order'[i]
      BY <3>1, <2>2, <1>0, <1>b DEF TypeOK
    <3> QED
      BY <3>2
  <2> QED
    BY <2>1, <2>2, <1>a
<1>7. WorkerInv'
  <2>1. At' = At /\ At \in Nat
    BY <1>0 DEF At, TypeOK
  <2>2. At \in 1..N
    BY <2>1 DEF WorkerInv, At, TypeOK
  <2>3. wpc \in {"busy", "retire"} => At < N /\ wnext = order'[At + 1]
    BY SMTT(30), <2>2, <1>a, <1>b DEF WorkerInv
  <2>4. \A i \in 1..(At - 1) : next[order'[i]] = order'[i + 1]
    BY <2>2, <1>a, <1>b DEF WorkerInv
  <2>5. \A i \in 1..Len(ran) : i < N + 1 /\ ran[i] = order'[i + 1]
    <3>1. Len(ran) \in Nat
      BY DEF TypeOK
    <3>2. \A i \in 1..Len(ran) : i < N /\ ran[i] = order[i + 1]
      BY DEF WorkerInv
    <3>3. \A i \in 1..Len(ran) : order'[i + 1] = order[i + 1]
      BY <3>1, <3>2, <1>a, <1>b
    <3> QED
      BY <3>1, <3>2, <3>3, <1>a
  <2> QED
    BY <1>0, <1>a, <1>b, <2>1, <2>2, <2>3, <2>4, <2>5 DEF WorkerInv
<1>8. FreeInv'
  <2>1. dpc = "alive"
    BY <1>0 DEF PhaseInv, TypeOK
  <2>2. At' = At /\ At \in 1..N
    BY <1>0 DEF At, WorkerInv, TypeOK
  <2>3. {order'[i] : i \in 1..(At - 1)} = {order[i] : i \in 1..(At - 1)}
    BY <2>2, <1>a, <1>b
  <2> QED
    BY <2>1, <2>2, <2>3, <1>0 DEF FreeInv
<1>9. PhaseInv'
  BY <1>0 DEF PhaseInv, TypeOK
<1>10. CountInv'
  <2>1. Swapping' = Swapping \ {p} /\ p \in Swapping
    BY <1>0 DEF Swapping, TypeOK
  <2>2. Cardinality(Swapping') = Cardinality(Swapping) - 1
    BY <2>1, SwappingFinite, FS_RemoveElement
  <2>3. Retired' = Retired /\ Retired \in Int
    BY <1>0 DEF Retired, TypeOK
  <2> QED
    BY <1>0, <1>a, <1>b, <2>2, <2>3, SwappingFinite DEF CountInv, TypeOK
<1>11. IssueInv'
  <2> SUFFICES ASSUME NEW q \in Producers, NEW i \in 1..Len(issued'[q])
               PROVE  \E k \in 2..(N + 1) :
                        order'[k] = issued'[q][i] /\ k + Len(issued'[q]) <= N + 1 + i
    BY <1>b DEF IssueInv
  <2>1. CASE q # p
    <3>1. issued'[q] = issued[q] /\ issued[q] \in Seq(Tasks)
      BY <2>1, <1>0 DEF TypeOK
    <3>2. PICK k \in 2..N : order[k] = issued[q][i] /\ k + Len(issued[q]) <= N + i
      BY <3>1 DEF IssueInv
    <3>3. k \in 2..(N + 1) /\ order'[k] = issued'[q][i] /\ k + Len(issued'[q]) <= N + 1 + i
      BY <3>1, <3>2, <1>a, <1>b
    <3> QED
      BY <3>3
  <2>2. CASE q = p
    <3>1. issued[p] \in Seq(Tasks) /\ issued'[p] = Append(issued[p], node[p])
      BY <1>0 DEF TypeOK
    <3> DEFINE L == Len(issued[p])
    <3>2. L \in Nat /\ Len(issued'[p]) = L + 1 /\ issued'[p][L + 1] = node[p]
          /\ \A j \in 1..L : issued'[p][j] = issued[p][j]
      BY <3>1
    <3>3. CASE i = L + 1
      <4>1. N + 1 \in 2..(N + 1) /\ order'[N + 1] = issued'[q][i]
        BY <2>2, <3>2, <3>3, <1>a, <1>b
      <4> QED
        BY <2>2, <3>2, <3>3, <4>1, <1>a
    <3>4. CASE i \in 1..L
      <4>1. PICK k \in 2..N : order[k] = issued[p][i] /\ k + L <= N + i
        BY <3>4 DEF IssueInv
      <4>2. k \in 2..(N + 1) /\ order'[k] = issued'[q][i] /\ k + Len(issued'[q]) <= N + 1 + i
        BY <2>2, <3>2, <3>4, <4>1, <1>a, <1>b
      <4> QED
        BY <4>2
    <3> QED
      BY <2>2, <3>2, <3>3, <3>4
  <2> QED
    BY <2>1, <2>2
<1> QED
  BY <1>1, <1>2, <1>3, <1>4, <1>5, <1>6, <1>7, <1>8, <1>9, <1>10, <1>11

LEMMA LinkStep ==
  ASSUME IInv, NEW p \in Producers, EnqueueLink(p)
  PROVE  IInv'
<1> USE DEF IInv
<1>0. /\ pc[p] = "link"
      /\ next' = [next EXCEPT ![prev[p]] = node[p]]
      /\ pc' = [pc EXCEPT ![p] = "idle"]
      /\ UNCHANGED <<head, tail, freed, done, pending, node, prev, allow, wpc, curr, wnext, dpc, order, ran, issued>>
  BY DEF EnqueueLink, workerVars, historyVars
<1> DEFINE N == Len(order)
<1>a. N \in Nat /\ N >= 1 /\ \A i \in 1..N : order[i] \in Nodes
  BY DEF OrderInv, TypeOK
<1>b. PICK b \in 1..(N - 1) : prev[p] = order[b] /\ node[p] = order[b + 1]
  BY <1>0 DEF BreakInv
<1>c. /\ next'[order[b]] = order[b + 1]
      /\ next[order[b]] = NULL
      /\ \A i \in 1..N : i # b => next'[order[i]] = next[order[i]]
  BY <1>0, <1>a, <1>b DEF BreakInv, OrderInv, TypeOK
<1>d. \A n \in Nodes : n # order[b] => next'[n] = next[n]
  BY <1>0, <1>b DEF TypeOK
<1>e. \A q \in Producers : pc'[q] = "link" <=> pc[q] = "link" /\ q # p
  BY <1>0 DEF TypeOK
<1>f. At' = At /\ At \in 1..N
  BY <1>0 DEF At, WorkerInv, TypeOK
\* The break is at or after the worker's node: behind it every node is linked.
<1>g. b >= At
  <2>1. SUFFICES ASSUME b < At PROVE FALSE
    BY <1>f
  <2>2. next[order[b]] = order[b + 1]
    BY <2>1, <1>f DEF WorkerInv
  <2>3. order[b + 1] \in Nodes
    BY <1>a
  <2> QED
    BY <2>2, <2>3, <1>c, NodesAssumption DEF Nodes
<1>1. TypeOK'
  <2>1. order[b] \in Nodes /\ order[b + 1] \in Nodes
    BY <1>a
  <2>2. next' \in [Nodes -> Nodes \union {NULL}]
    BY <2>1, <1>0, <1>b DEF TypeOK
  <2>3. pc' \in [Producers -> {"idle", "swap", "link", "sync"}]
    BY <1>0 DEF TypeOK
  <2> QED
    BY <2>2, <2>3, <1>0 DEF TypeOK
<1>2. OrderInv' /\ IssueInv'
  BY <1>0 DEF OrderInv, IssueInv
<1>3. LinkInv'
  <2>1. order[N] # order[b]
    BY <1>a DEF OrderInv
  <2>2. next'[tail'] = NULL
    BY <2>1, <1>0, <1>a, <1>c DEF LinkInv, OrderInv
  <2>3. \A i \in 1..(N - 1) : next'[order[i]] \in {NULL, order[i + 1]}
    BY SMTT(30), <1>a, <1>c DEF LinkInv
  <2>4. \A n \in Nodes : (\A i \in 1..N : order[i] # n) => next'[n] = NULL
    BY <1>a, <1>d DEF LinkInv
  <2> QED
    BY <2>2, <2>3, <2>4, <1>0 DEF LinkInv
<1>4. SwapInv'
  <2>1. \A q \in Producers : pc'[q] = "swap" <=> pc[q] = "swap"
    BY <1>0 DEF TypeOK
  <2> QED
    BY <2>1, <1>0 DEF SwapInv
<1>5. BreakInv'
  <2> SUFFICES ASSUME NEW q \in Producers, pc'[q] = "link"
               PROVE  /\ \E i \in 1..(N - 1) : prev[q] = order[i] /\ node[q] = order[i + 1]
                      /\ next'[prev[q]] = NULL
                      /\ \A r \in Producers : pc'[r] = "link" /\ prev[r] = prev[q] => r = q
    BY <1>0 DEF BreakInv
  <2>1. pc[q] = "link" /\ q # p
    BY <1>e
  <2>2. prev[q] # prev[p]
    BY <2>1, <1>0 DEF BreakInv
  <2>3. PICK i \in 1..(N - 1) : prev[q] = order[i] /\ node[q] = order[i + 1]
    BY <2>1 DEF BreakInv
  <2>4. next'[prev[q]] = next[prev[q]] /\ next[prev[q]] = NULL
    BY <2>1, <2>2, <2>3, <1>a, <1>b, <1>d DEF BreakInv
  <2> QED
    BY <2>1, <2>3, <2>4, <1>e DEF BreakInv
<1>6. RepairInv'
  <2> SUFFICES ASSUME NEW i \in 1..(N - 1), next'[order[i]] = NULL
               PROVE  \E q \in Producers : pc'[q] = "link" /\ prev[q] = order[i]
    BY <1>0 DEF RepairInv
  <2>1. i # b
    BY <1>a, <1>c, NodesAssumption DEF Nodes
  <2>2. next[order[i]] = NULL /\ order[i] # order[b]
    BY <2>1, <1>a, <1>c DEF OrderInv
  <2>3. PICK q \in Producers : pc[q] = "link" /\ prev[q] = order[i]
    BY <2>2 DEF RepairInv
  <2> QED
    BY <2>2, <2>3, <1>b, <1>e
<1>7. WorkerInv'
  <2>1. \A i \in 1..(At - 1) : next'[order[i]] = order[i + 1]
    BY SMTT(30), <1>a, <1>c, <1>f, <1>g DEF WorkerInv
  <2>2. wpc \in {"busy", "retire"} => next'[curr] = wnext
    <3> SUFFICES ASSUME wpc \in {"busy", "retire"} PROVE next'[curr] = wnext
      OBVIOUS
    <3>1. curr = order[At] /\ wnext = order[At + 1] /\ next[curr] = wnext
      BY DEF WorkerInv
    <3> QED
      BY <3>1, <1>a, <1>c, <1>f
  <2> QED
    BY <2>1, <2>2, <1>0, <1>f DEF WorkerInv
<1>8. FreeInv' /\ PhaseInv'
  <2>1. dpc = "alive"
    BY <1>0 DEF PhaseInv, TypeOK
  <2> QED
    BY <2>1, <1>0, <1>f DEF FreeInv, PhaseInv
<1>9. CountInv'
  <2>1. Swapping' = Swapping /\ Retired' = Retired
    BY <1>0 DEF Swapping, Retired, TypeOK
  <2> QED
    BY <2>1, <1>0 DEF CountInv
<1> QED
  BY <1>1, <1>2, <1>3, <1>4, <1>5, <1>6, <1>7, <1>8, <1>9

-----------------------------------------------------------------------------
(* sync, and the steps that leave every data structure as it is *)

\* A step that only moves a client between "idle" and "sync".
LEMMA SyncStep ==
  ASSUME IInv, NEW p \in Producers,
         (\E n \in Allowances : SyncCall(p, n)) \/ SyncReturn(p)
  PROVE  IInv'
<1> USE DEF IInv
<1>0. /\ pc[p] \in {"idle", "sync"}
      /\ \E v \in {"idle", "sync"} : pc' = [pc EXCEPT ![p] = v]
      /\ dpc = "alive"
      /\ allow' \in [Producers -> Nat]
      /\ UNCHANGED <<next, head, tail, freed, done, pending, node, prev, wpc, curr, wnext, dpc, order, ran, issued>>
  BY AllowancesAssumption
     DEF SyncCall, SyncReturn, listVars, workerVars, historyVars, PhaseInv, TypeOK
<1>1. \A q \in Producers : /\ pc'[q] = "swap" <=> pc[q] = "swap"
                           /\ pc'[q] = "link" <=> pc[q] = "link"
  BY <1>0 DEF TypeOK
<1>2. TypeOK'
  <2>1. pc' \in [Producers -> {"idle", "swap", "link", "sync"}]
    BY <1>0 DEF TypeOK
  <2> QED
    BY <2>1, <1>0 DEF TypeOK
<1>3. OrderInv' /\ LinkInv' /\ WorkerInv' /\ FreeInv' /\ IssueInv'
  BY <1>0 DEF OrderInv, LinkInv, WorkerInv, FreeInv, IssueInv, At
<1>4. SwapInv' /\ BreakInv' /\ RepairInv'
  <2>1. SwapInv'
    BY <1>0, <1>1 DEF SwapInv
  <2>2. BreakInv'
    BY <1>0, <1>1 DEF BreakInv
  <2>3. RepairInv'
    BY <1>0, <1>1 DEF RepairInv
  <2> QED
    BY <2>1, <2>2, <2>3
<1>5. PhaseInv'
  BY <1>0 DEF PhaseInv
<1>6. CountInv'
  BY <1>0, <1>1 DEF CountInv, Swapping, Retired
<1> QED
  BY <1>2, <1>3, <1>4, <1>5, <1>6

-----------------------------------------------------------------------------
(* The worker *)

\* A step of the worker that moves neither its place in the list nor the counter.
LEMMA WorkerIdleStep ==
  ASSUME IInv, WorkerCheck \/ WorkerPeekNothing
  PROVE  IInv'
<1> USE DEF IInv
<1>0. /\ wpc \in {"top", "peek"} /\ wpc' \in {"top", "peek", "exited"}
      /\ wpc' = "exited" => done
      /\ dpc \in {"sweep", "gone"} => wpc = "exited"
      /\ UNCHANGED <<next, head, tail, freed, done, pending, pc, node, prev, allow, curr, wnext, dpc, order, ran, issued>>
  BY DEF WorkerCheck, WorkerPeekNothing, listVars, clientVars, historyVars, PhaseInv
<1>1. TypeOK'
  BY <1>0 DEF TypeOK
<1>2. At' = At /\ Retired' = Retired /\ Swapping' = Swapping
  BY <1>0 DEF At, Retired, Swapping
<1>3. OrderInv' /\ LinkInv' /\ SwapInv' /\ BreakInv' /\ RepairInv' /\ IssueInv'
  BY <1>0 DEF OrderInv, LinkInv, SwapInv, BreakInv, RepairInv, IssueInv
<1>4. WorkerInv' /\ FreeInv'
  BY <1>0, <1>2 DEF WorkerInv, FreeInv
<1>5. PhaseInv' /\ CountInv'
  BY <1>0, <1>2 DEF PhaseInv, CountInv
<1> QED
  BY <1>1, <1>3, <1>4, <1>5

LEMMA StartStep ==
  ASSUME IInv, WorkerStart
  PROVE  IInv'
<1> USE DEF IInv
<1>0. /\ wpc = "peek" /\ next[curr] # NULL
      /\ wnext' = next[curr]
      /\ ran' = Append(ran, next[curr])
      /\ wpc' = "busy"
      /\ UNCHANGED <<next, head, tail, freed, done, pending, pc, node, prev, allow, curr, dpc, order, issued>>
  BY DEF WorkerStart, listVars, clientVars
<1> DEFINE N == Len(order)
           R == Len(ran)
<1>a. N \in Nat /\ R \in Nat /\ \A i \in 1..N : order[i] \in Nodes
  BY DEF TypeOK
<1>b. At = R + 1 /\ R + 1 <= N /\ curr = order[R + 1]
  BY <1>0, <1>a DEF At, WorkerInv
<1>c. R + 1 < N /\ next[curr] = order[R + 2]
  <2>1. curr # tail
    BY <1>0 DEF LinkInv
  <2>2. R + 1 # N
    BY <2>1, <1>b DEF OrderInv
  <2>3. R + 1 \in 1..(N - 1)
    BY <2>2, <1>a, <1>b
  <2>4. next[order[R + 1]] \in {NULL, order[R + 1 + 1]}
    BY <2>3 DEF LinkInv
  <2> QED
    BY <2>3, <2>4, <1>0, <1>a, <1>b
<1>d. order[R + 2] \in Nodes /\ ran' \in Seq(Nodes) /\ Len(ran') = R + 1 /\ ran'[R + 1] = order[R + 2]
      /\ \A i \in 1..R : ran'[i] = ran[i]
  BY <1>0, <1>a, <1>b, <1>c DEF TypeOK
<1>e. At' = At /\ Retired' = Retired /\ Swapping' = Swapping
  BY <1>0, <1>a, <1>b, <1>d DEF At, Retired, Swapping
<1>1. TypeOK'
  BY <1>0, <1>c, <1>d DEF TypeOK
<1>2. OrderInv' /\ LinkInv' /\ SwapInv' /\ BreakInv' /\ RepairInv' /\ IssueInv'
  BY <1>0 DEF OrderInv, LinkInv, SwapInv, BreakInv, RepairInv, IssueInv
<1>3. WorkerInv'
  <2>1. \A i \in 1..(R + 1) : i < N /\ ran'[i] = order[i + 1]
    <3> TAKE i \in 1..(R + 1)
    <3>1. CASE i = R + 1
      BY <3>1, <1>a, <1>c, <1>d
    <3>2. CASE i \in 1..R
      BY <3>2, <1>d DEF WorkerInv
    <3> QED
      BY <3>1, <3>2, <1>a
  <2>2. \A i \in 1..(At - 1) : next[order[i]] = order[i + 1]
    BY DEF WorkerInv
  <2> QED
    BY <2>1, <2>2, <1>0, <1>a, <1>b, <1>c, <1>d, <1>e DEF WorkerInv
<1>4. FreeInv' /\ PhaseInv' /\ CountInv'
  BY <1>0, <1>e DEF FreeInv, PhaseInv, CountInv
<1> QED
  BY <1>1, <1>2, <1>3, <1>4

LEMMA FinishStep ==
  ASSUME IInv, WorkerFinish
  PROVE  IInv'
<1> USE DEF IInv
<1>0. /\ wpc = "busy" /\ wpc' = "retire"
      /\ UNCHANGED <<next, head, tail, freed, done, pending, pc, node, prev, allow, curr, wnext, dpc, order, ran, issued>>
  BY DEF WorkerFinish, listVars, clientVars, historyVars
<1>1. TypeOK'
  BY <1>0 DEF TypeOK
<1>2. At' = At /\ Retired' = Retired /\ Swapping' = Swapping
  BY <1>0 DEF At, Retired, Swapping
<1>3. OrderInv' /\ LinkInv' /\ SwapInv' /\ BreakInv' /\ RepairInv' /\ IssueInv'
  BY <1>0 DEF OrderInv, LinkInv, SwapInv, BreakInv, RepairInv, IssueInv
<1>4. WorkerInv' /\ FreeInv' /\ PhaseInv' /\ CountInv'
  BY <1>0, <1>2 DEF WorkerInv, FreeInv, PhaseInv, CountInv
<1> QED
  BY <1>1, <1>3, <1>4

LEMMA RetireStep ==
  ASSUME IInv, WorkerRetire
  PROVE  IInv'
<1> USE DEF IInv
<1>0. /\ wpc = "retire"
      /\ freed' = freed \union {curr}
      /\ curr' = wnext
      /\ head' = wnext
      /\ wpc' = "count"
      /\ UNCHANGED <<next, tail, done, pending, pc, node, prev, allow, wnext, dpc, order, ran, issued>>
  BY DEF WorkerRetire, clientVars, historyVars
<1> DEFINE N == Len(order)
<1>a. /\ N \in Nat /\ Len(ran) \in Nat /\ Len(ran) >= 1
      /\ At = Len(ran) /\ At + 1 <= N
      /\ curr = order[At] /\ wnext = order[At + 1] /\ next[curr] = wnext
  BY <1>0 DEF At, WorkerInv, TypeOK
<1>b. At' = At + 1 /\ Retired' = Retired /\ Swapping' = Swapping
  BY <1>0, <1>a DEF At, Retired, Swapping
<1>c. wnext \in Nodes /\ curr \in Nodes
  BY <1>a DEF TypeOK
<1>1. TypeOK'
  BY <1>0, <1>c DEF TypeOK
<1>2. OrderInv' /\ LinkInv' /\ SwapInv' /\ BreakInv' /\ RepairInv' /\ IssueInv'
  BY <1>0 DEF OrderInv, LinkInv, SwapInv, BreakInv, RepairInv, IssueInv
<1>3. WorkerInv'
  <2>1. \A i \in 1..At : next[order[i]] = order[i + 1]
    <3> TAKE i \in 1..At
    <3>1. CASE i = At
      BY <3>1, <1>a
    <3>2. CASE i \in 1..(At - 1)
      BY <3>2 DEF WorkerInv
    <3> QED
      BY <3>1, <3>2, <1>a
  <2>2. \A i \in 1..Len(ran) : i < N /\ ran[i] = order[i + 1]
    BY DEF WorkerInv
  <2> QED
    BY <2>1, <2>2, <1>0, <1>a, <1>b DEF WorkerInv
<1>4. FreeInv'
  <2>1. dpc \in {"alive", "join"}
    BY <1>0 DEF PhaseInv, TypeOK
  <2>2. freed = {order[i] : i \in 1..(At - 1)}
    BY <2>1 DEF FreeInv
  <2>3. freed' = {order[i] : i \in 1..At}
    BY <2>2, <1>0, <1>a
  <2> QED
    BY <2>1, <2>3, <1>0, <1>a, <1>b DEF FreeInv
<1>5. PhaseInv' /\ CountInv'
  BY <1>0, <1>b DEF PhaseInv, CountInv
<1> QED
  BY <1>1, <1>2, <1>3, <1>4, <1>5

LEMMA CountStep ==
  ASSUME IInv, WorkerCount
  PROVE  IInv'
<1> USE DEF IInv
<1>0. /\ wpc = "count" /\ wpc' = "top"
      /\ pending' = pending - 1
      /\ UNCHANGED <<next, head, tail, freed, done, pc, node, prev, allow, curr, wnext, dpc, order, ran, issued>>
  BY DEF WorkerCount, listVars, clientVars, historyVars
<1>a. /\ Len(order) \in Nat /\ Len(ran) \in Nat
      /\ Len(ran) >= 1 /\ Len(ran) < Len(order)
  <2>1. Len(ran) >= 1 /\ Len(ran) \in 1..Len(ran)
    BY <1>0 DEF WorkerInv, TypeOK
  <2> QED
    BY <2>1 DEF WorkerInv, TypeOK
<1>b. At' = At /\ Retired' = Retired + 1 /\ Swapping' = Swapping
      /\ Retired = Len(ran) - 1
  BY <1>0, <1>a DEF At, Retired, Swapping
\* The counter does not wrap below zero: the task being retired is counted.
<1>c. pending \in Nat /\ pending >= 1
  BY <1>a, <1>b, SwappingFinite DEF CountInv, TypeOK
<1>1. TypeOK'
  BY <1>0, <1>c DEF TypeOK
<1>2. OrderInv' /\ LinkInv' /\ SwapInv' /\ BreakInv' /\ RepairInv' /\ IssueInv'
  BY <1>0 DEF OrderInv, LinkInv, SwapInv, BreakInv, RepairInv, IssueInv
<1>3. WorkerInv' /\ FreeInv' /\ PhaseInv'
  <2>1. WorkerInv'
    BY SMTT(30), <1>0, <1>b DEF WorkerInv
  <2>2. FreeInv'
    BY SMTT(30), <1>0, <1>b DEF FreeInv
  <2>3. PhaseInv'
    BY SMTT(30), <1>0, <1>b DEF PhaseInv
  <2> QED
    BY <2>1, <2>2, <2>3
<1>4. CountInv'
  BY <1>0, <1>a, <1>b, <1>c, SwappingFinite DEF CountInv
<1> QED
  BY <1>1, <1>2, <1>3, <1>4

-----------------------------------------------------------------------------
(* The destructor *)

LEMMA DestroyStep ==
  ASSUME IInv, Destructor
  PROVE  IInv'
<1> USE DEF IInv
<1>0. UNCHANGED <<next, tail, pending, pc, node, prev, allow, wpc, curr, wnext, order, ran, issued>>
  BY DEF Destructor, DestroyStop, DestroyJoin, DestroySweep, DestroyReturn,
         listVars, clientVars, workerVars, historyVars
<1>a. At' = At /\ Retired' = Retired /\ Swapping' = Swapping
  BY <1>0 DEF At, Retired, Swapping
<1>b. /\ Len(order) \in Nat /\ Len(order) >= 1
      /\ At \in 1..Len(order)
      /\ \A i \in 1..Len(order) : order[i] \in Nodes
  BY DEF At, OrderInv, WorkerInv, TypeOK
<1>1. OrderInv' /\ LinkInv' /\ SwapInv' /\ BreakInv' /\ RepairInv' /\ IssueInv'
  BY <1>0 DEF OrderInv, LinkInv, SwapInv, BreakInv, RepairInv, IssueInv
<1>2. WorkerInv' /\ CountInv'
  BY <1>0, <1>a DEF WorkerInv, CountInv
<1>3. CASE DestroyStop
  <2>1. dpc = "alive" /\ dpc' = "join" /\ done' = TRUE /\ UNCHANGED <<head, freed>>
        /\ \A p \in Producers : pc[p] = "idle"
    BY <1>3 DEF DestroyStop, listVars
  <2>2. TypeOK'
    BY <2>1, <1>0 DEF TypeOK
  <2>3. FreeInv'
    BY <2>1, <1>0, <1>a DEF FreeInv
  <2>4. PhaseInv'
    BY <2>1, <1>0 DEF PhaseInv
  <2> QED
    BY <2>2, <2>3, <2>4, <1>1, <1>2
<1>4. CASE DestroyJoin
  <2>1. dpc = "join" /\ wpc = "exited" /\ dpc' = "sweep" /\ UNCHANGED <<head, freed, done>>
    BY <1>4 DEF DestroyJoin, listVars
  <2>2. head = order[At] /\ freed = {order[i] : i \in 1..(At - 1)}
    BY <2>1 DEF FreeInv, WorkerInv
  <2>3. \E g \in 1..Len(order') : head' = order'[g] /\ freed' = {order'[i] : i \in 1..(g - 1)}
    BY <2>1, <2>2, <1>0, <1>b
  <2>4. FreeInv'
    BY <2>1, <2>3 DEF FreeInv
  <2>5. TypeOK' /\ PhaseInv'
    BY <2>1, <1>0 DEF TypeOK, PhaseInv
  <2> QED
    BY <2>4, <2>5, <1>1, <1>2
<1>5. CASE DestroySweep
  <2>1. /\ dpc = "sweep" /\ head # NULL /\ UNCHANGED <<dpc, done>>
        /\ freed' = freed \union {head} /\ head' = next[head]
    BY <1>5 DEF DestroySweep
  <2>2. PICK h \in 1..Len(order) : head = order[h] /\ freed = {order[i] : i \in 1..(h - 1)}
    BY <2>1 DEF FreeInv
  <2>3. freed' = {order[i] : i \in 1..h}
    BY <2>1, <2>2, <1>b
  \* No producer is at work, so the list has no break and goes on to its tail.
  <2>4. head' = IF h = Len(order) THEN NULL ELSE order[h + 1]
    <3>1. CASE h = Len(order)
      BY <3>1, <2>1, <2>2 DEF OrderInv, LinkInv
    <3>2. CASE h < Len(order)
      <4>1. h \in 1..(Len(order) - 1)
        BY <3>2, <1>b
      <4>2. next[order[h]] # NULL
        BY <4>1, <2>1 DEF RepairInv, PhaseInv
      <4>3. next[order[h]] = order[h + 1]
        BY <4>1, <4>2 DEF LinkInv
      <4> QED
        BY <4>3, <3>2, <2>1, <2>2
    <3> QED
      BY <3>1, <3>2, <1>b
  <2>5. FreeInv'
    <3>1. CASE h = Len(order)
      <4>1. head' = NULL /\ freed' = {order[i] : i \in 1..Len(order)}
        BY <3>1, <2>3, <2>4
      <4> QED
        BY <4>1, <2>1, <1>0 DEF FreeInv
    <3>2. CASE h < Len(order)
      <4>1. h + 1 \in 1..Len(order) /\ head' = order[h + 1]
            /\ freed' = {order[i] : i \in 1..((h + 1) - 1)}
        BY <3>2, <2>3, <2>4, <1>b
      <4>2. \E g \in 1..Len(order') : head' = order'[g] /\ freed' = {order'[i] : i \in 1..(g - 1)}
        BY <4>1, <1>0
      <4>3. dpc' = "sweep"
        BY <2>1
      <4> QED
        BY <4>2, <4>3 DEF FreeInv
    <3> QED
      BY <3>1, <3>2, <1>b
  <2>6. TypeOK'
    <3>1. head \in Nodes
      BY <2>2, <1>b
    <3> QED
      BY <3>1, <2>1, <1>0 DEF TypeOK
  <2> QED
    BY <2>1, <2>5, <2>6, <1>0, <1>1, <1>2 DEF PhaseInv
<1>6. CASE DestroyReturn
  <2>1. dpc = "sweep" /\ head = NULL /\ dpc' = "gone" /\ UNCHANGED <<head, freed, done>>
    BY <1>6 DEF DestroyReturn, listVars
  <2>2. freed = {order[i] : i \in 1..Len(order)}
    BY <2>1, <1>b, NodesAssumption DEF FreeInv, Nodes
  <2> QED
    BY <2>1, <2>2, <1>0, <1>1, <1>2 DEF TypeOK, FreeInv, PhaseInv
<1> QED
  BY <1>3, <1>4, <1>5, <1>6 DEF Destructor

-----------------------------------------------------------------------------
(* The theorems *)

LEMMA InvStep == IInv /\ [Next]_vars => IInv'
<1> SUFFICES ASSUME IInv, [Next]_vars PROVE IInv'
  OBVIOUS
<1>1. CASE \E p \in Producers : Client(p)
  <2> PICK p \in Producers : Client(p)
    BY <1>1
  <2>1. CASE \E t \in Tasks : EnqueueAnnounce(p, t)
    BY <2>1, AnnounceStep
  <2>2. CASE EnqueueSwap(p)
    BY <2>2, SwapStep
  <2>3. CASE EnqueueLink(p)
    BY <2>3, LinkStep
  <2>4. CASE (\E n \in Allowances : SyncCall(p, n)) \/ SyncReturn(p)
    BY <2>4, SyncStep
  <2> QED
    BY <2>1, <2>2, <2>3, <2>4 DEF Client
<1>2. CASE Worker
  BY <1>2, WorkerIdleStep, StartStep, FinishStep, RetireStep, CountStep DEF Worker
<1>3. CASE Destructor
  BY <1>3, DestroyStep
<1>4. CASE UNCHANGED vars
  <2>1. UNCHANGED <<next, head, tail, freed, done, pending, pc, node, prev, allow, wpc, curr,
                    wnext, dpc, order, ran, issued>>
    BY <1>4 DEF vars, listVars, clientVars, workerVars, historyVars
  <2>2. At' = At /\ Retired' = Retired /\ Swapping' = Swapping
    BY <2>1 DEF At, Retired, Swapping
  <2>3. TypeOK'
    BY <2>1 DEF IInv, TypeOK
  <2>4. OrderInv' /\ LinkInv' /\ SwapInv' /\ BreakInv' /\ RepairInv' /\ IssueInv'
    BY <2>1 DEF IInv, OrderInv, LinkInv, SwapInv, BreakInv, RepairInv, IssueInv
  <2>5. WorkerInv' /\ FreeInv' /\ PhaseInv' /\ CountInv'
    BY <2>1, <2>2 DEF IInv, WorkerInv, FreeInv, PhaseInv, CountInv
  <2> QED
    BY <2>3, <2>4, <2>5 DEF IInv
<1> QED
  BY <1>1, <1>2, <1>3, <1>4 DEF Next, Gone

(* The inductive invariant holds in every reachable state of the queue. *)
THEOREM Invariance == Spec => []IInv
<1>1. Init => IInv
  BY InitInv
<1>2. IInv /\ [Next]_vars => IInv'
  BY InvStep
<1> QED
  BY <1>1, <1>2, PTL DEF Spec

(* Every variable keeps its type; in particular `pending', an unsigned     *)
(* counter, is never decremented below zero by WorkerCount.                *)
THEOREM TypeCorrect == Spec => []TypeOK
<1>1. IInv => TypeOK
  BY DEF IInv
<1> QED
  BY <1>1, Invariance, PTL

(* No thread follows a pointer to a deleted node. *)
THEOREM MemorySafe == Spec => []NoUseAfterFree
<1>1. ASSUME IInv PROVE NoUseAfterFree
  <2> USE <1>1 DEF IInv
  <2>a. /\ Len(order) \in Nat /\ Len(order) >= 1
        /\ At \in 1..Len(order)
        /\ \A i \in 1..Len(order) : order[i] \in Nodes
    BY DEF At, OrderInv, WorkerInv, TypeOK
  <2>1. ASSUME NEW p \in Producers, pc[p] = "link"
        PROVE  {prev[p], node[p]} \cap freed = {}
    <3>1. PICK b \in 1..(Len(order) - 1) : prev[p] = order[b] /\ node[p] = order[b + 1]
      BY <2>1 DEF BreakInv
    <3>2. next[order[b]] = NULL
      BY <2>1, <3>1 DEF BreakInv
    <3>3. b >= At
      <4>1. SUFFICES ASSUME b < At PROVE FALSE
        BY <2>a
      <4>2. next[order[b]] = order[b + 1] /\ order[b + 1] \in Nodes
        BY <4>1, <2>a DEF WorkerInv
      <4> QED
        BY <4>2, <3>2, NodesAssumption DEF Nodes
    <3>4. freed = {order[i] : i \in 1..(At - 1)}
      BY <2>1 DEF PhaseInv, FreeInv, TypeOK
    <3> QED
      BY <3>1, <3>3, <3>4, <2>a DEF OrderInv
  <2>2. ASSUME wpc # "exited" PROVE curr \notin freed
    <3>1. freed = {order[i] : i \in 1..(At - 1)} /\ curr = order[At]
      BY <2>2 DEF PhaseInv, FreeInv, WorkerInv, TypeOK
    <3> QED
      BY <3>1, <2>a DEF OrderInv
  <2>3. ASSUME wpc \in {"busy", "retire"} PROVE wnext \notin freed
    <3>1. freed = {order[i] : i \in 1..(At - 1)}
      BY <2>3 DEF PhaseInv, FreeInv, TypeOK
    <3>2. At + 1 \in 1..Len(order) /\ wnext = order[At + 1]
      BY <2>3, <2>a DEF WorkerInv
    <3> QED
      BY <3>1, <3>2, <2>a DEF OrderInv
  <2>4. ASSUME dpc = "sweep" PROVE head \notin freed
    <3>1. CASE head = NULL
      BY <3>1, NodesAssumption DEF Nodes, TypeOK
    <3>2. CASE head # NULL
      <4>1. PICK h \in 1..Len(order) : head = order[h] /\ freed = {order[i] : i \in 1..(h - 1)}
        BY <2>4, <3>2 DEF FreeInv
      <4> QED
        BY <4>1, <2>a DEF OrderInv
    <3> QED
      BY <3>1, <3>2
  <2> QED
    BY <2>1, <2>2, <2>3, <2>4 DEF NoUseAfterFree
<1> QED
  BY <1>1, Invariance, PTL

(* Destruction frees every node that was allocated. *)
THEOREM LeakFree == Spec => []NothingLeaks
<1>1. ASSUME IInv PROVE NothingLeaks
  <2> SUFFICES ASSUME dpc = "gone" PROVE freed = Allocated
    BY DEF NothingLeaks
  <2> USE <1>1 DEF IInv
  <2>1. freed = {order[i] : i \in 1..Len(order)} /\ \A p \in Producers : pc[p] # "swap"
    BY DEF FreeInv, PhaseInv
  <2>2. {order[i] : i \in 1..Len(order)} = {order[i] : i \in 2..Len(order)} \union {Dummy}
    BY DEF OrderInv, TypeOK
  <2> QED
    BY <2>1, <2>2 DEF Allocated, Submitted
<1> QED
  BY <1>1, Invariance, PTL

(* A sync that returns found what it waits for: the counter covers every   *)
(* task of the order that is not retired, and the order runs in sequence.  *)
THEOREM SyncCorrect == Spec => SyncHonoured
<1> DEFINE Honoured ==
      \A p, q \in Producers :
        pc[p] = "sync" /\ pc'[p] = "idle" =>
          \A i \in 1..Len(issued[q]) : i + allow[p] <= Len(issued[q]) => issued[q][i] \in Completed
<1>1. ASSUME IInv, [Next]_vars PROVE [Honoured]_vars
  <2> SUFFICES ASSUME NEW p \in Producers, NEW q \in Producers,
                      pc[p] = "sync", pc'[p] = "idle",
                      NEW i \in 1..Len(issued[q]), i + allow[p] <= Len(issued[q])
               PROVE  issued[q][i] \in Completed
    OBVIOUS
  <2> USE <1>1 DEF IInv
  <2>1. pending <= allow[p]
    <3>1. CASE \E r \in Producers : Client(r)
      <4> PICK r \in Producers : Client(r)
        BY <3>1
      <4>1. r = p
        BY DEF Client, EnqueueAnnounce, EnqueueSwap, EnqueueLink, SyncCall, SyncReturn, TypeOK
      <4>2. SyncReturn(p)
        BY <4>1 DEF Client, EnqueueAnnounce, EnqueueSwap, EnqueueLink, SyncCall
      <4> QED
        BY <4>2 DEF SyncReturn
    <3>2. CASE Worker
      <4>1. UNCHANGED pc
        BY <3>2 DEF Worker, WorkerCheck, WorkerPeekNothing, WorkerStart, WorkerFinish,
                    WorkerRetire, WorkerCount, clientVars
      <4> QED
        BY <4>1
    <3>3. CASE Destructor
      <4>1. UNCHANGED pc
        BY <3>3 DEF Destructor, DestroyStop, DestroyJoin, DestroySweep, DestroyReturn, clientVars
      <4> QED
        BY <4>1
    <3>4. CASE UNCHANGED vars
      BY <3>4 DEF vars, clientVars
    <3> QED
      BY <1>1, <3>1, <3>2, <3>3, <3>4 DEF Next, Gone
  <2>2. /\ Len(order) \in Nat /\ Len(ran) \in Nat /\ Retired \in Int
        /\ Len(issued[q]) \in Nat /\ allow[p] \in Nat
        /\ (wpc \in {"busy", "retire", "count"} => Len(ran) >= 1)
    BY DEF Retired, WorkerInv, TypeOK
  <2>3. (Len(order) - 1) - Retired <= allow[p]
    BY <2>1, <2>2, SwappingFinite DEF CountInv, TypeOK
  <2>4. PICK k \in 2..Len(order) :
          order[k] = issued[q][i] /\ k + Len(issued[q]) <= Len(order) + i
    BY DEF IssueInv
  <2>5. k - 1 \in 1..Retired
    BY <2>2, <2>3, <2>4
  <2>6. Retired <= Complete /\ Complete \in Nat /\ k - 1 \in 1..Len(ran)
    <3>1. CASE wpc = "busy"
      BY <3>1, <2>2, <2>5 DEF Retired, Complete
    <3>2. CASE wpc # "busy"
      <4>1. Complete = Len(ran)
        BY <3>2, <2>2 DEF Complete
      <4>2. Retired <= Len(ran)
        BY <2>2 DEF Retired
      <4> QED
        BY <4>1, <4>2, <2>2, <2>5
    <3> QED
      BY <3>1, <3>2
  <2>7. ran[k - 1] = order[k] /\ k - 1 \in 1..Complete
    BY <2>2, <2>5, <2>6 DEF WorkerInv
  <2> QED
    BY <2>4, <2>7 DEF Completed
<1>2. []IInv /\ [][Next]_vars => [][Honoured]_vars
  BY <1>1, PTL
<1> QED
  BY <1>2, Invariance, PTL DEF Spec, SyncHonoured

-----------------------------------------------------------------------------
(* The refinement of FifoExecutor.  What the executor calls unfinished is  *)
(* covered by the counter: the producers before their exchange, the nodes  *)
(* of the order behind the last one started, and the task that runs.       *)

\* A client inside sync waits for one of the allowances.
AllowInv == \A p \in Producers : pc[p] = "sync" => allow[p] \in Allowances

\* Where the queue that is left begins, and what it holds.
LEMMA QueueIs ==
  ASSUME IInv
  PROVE  /\ Len(ran) \in Nat /\ Len(order) \in Nat /\ Len(ran) + 1 <= Len(order)
         /\ Executor!Queued = {order[i] : i \in (Len(ran) + 2)..Len(order)}
         /\ Len(SubSeq(order, Len(ran) + 2, Len(order))) = Len(order) - Len(ran) - 1
         /\ Executor!Queued \subseteq Tasks
<1> DEFINE N == Len(order)
           a == Len(ran) + 2
           Q == SubSeq(order, a, N)
<1>1. Len(ran) \in Nat /\ N \in Nat /\ Len(ran) + 1 <= N /\ order \in Seq(Nodes)
  BY DEF IInv, WorkerInv, TypeOK, At
<1>2. a \in Nat \ {0} /\ a <= N + 1
  BY <1>1
<1>3. /\ Len(Q) = N - a + 1
      /\ \A i \in 1..Len(Q) : Q[i] = order[a + i - 1]
  BY <1>1, <1>2
<1>4. Executor!Queued = {Q[i] : i \in 1..Len(Q)}
  BY DEF Executor!Queued
<1>5. {Q[i] : i \in 1..Len(Q)} = {order[i] : i \in a..N}
  <2> HIDE DEF a, N, Q
  <2>1. ASSUME NEW i \in 1..Len(Q) PROVE \E j \in a..N : Q[i] = order[j]
    <3>1. a + i - 1 \in a..N
      BY <1>1, <1>2, <1>3
    <3> QED
      BY <1>3, <3>1
  <2>2. ASSUME NEW j \in a..N PROVE \E i \in 1..Len(Q) : order[j] = Q[i]
    <3>1. j - a + 1 \in 1..Len(Q) /\ a + (j - a + 1) - 1 = j
      BY <1>1, <1>2, <1>3
    <3> QED
      BY <1>3, <3>1
  <2>3. ASSUME NEW x \in {Q[i] : i \in 1..Len(Q)} PROVE x \in {order[i] : i \in a..N}
    BY <2>1, <2>3
  <2>4. ASSUME NEW x \in {order[i] : i \in a..N} PROVE x \in {Q[i] : i \in 1..Len(Q)}
    BY <2>2, <2>4
  <2> QED
    BY <2>3, <2>4
<1>6. \A i \in a..N : order[i] \in Tasks
  BY <1>1 DEF IInv, OrderInv
<1>7. Executor!Queued = {order[i] : i \in a..N} /\ Executor!Queued \subseteq Tasks
  BY <1>4, <1>5, <1>6
<1> QED
  BY <1>1, <1>3, <1>7

\* The tasks the executor calls announced, running and finished.
LEMMA TasksAre ==
  ASSUME IInv
  PROVE  /\ Executor!Announced = {node[p] : p \in Swapping}
         /\ Executor!Running = IF wpc = "busy" THEN {wnext} ELSE {}
         /\ wpc = "busy" => wnext \in Tasks /\ wnext = order[Len(ran) + 1] /\ Len(ran) >= 1
         /\ Completed \subseteq {order[i] : i \in 2..Len(order)}
<1> USE DEF IInv
<1>1. \A p \in Swapping : node[p] \in Tasks
  BY DEF Swapping, SwapInv
<1>2. Executor!Announced = {node[p] : p \in Swapping}
  BY <1>1, NodesAssumption DEF Executor!Announced, Swapping
<1>3. wpc = "busy" => wnext \in Tasks /\ wnext = order[Len(ran) + 1] /\ Len(ran) >= 1
  BY DEF WorkerInv, At, OrderInv, TypeOK
<1>4. Executor!Running = IF wpc = "busy" THEN {wnext} ELSE {}
  BY <1>3, NodesAssumption DEF Executor!Running
<1>5. ASSUME NEW i \in 1..Complete PROVE \E k \in 2..Len(order) : ran[i] = order[k]
  <2>1. i \in 1..Len(ran) /\ Len(ran) \in Nat /\ Len(order) \in Nat
    BY DEF Complete, TypeOK
  <2>2. i + 1 \in 2..Len(order) /\ ran[i] = order[i + 1]
    BY <2>1 DEF WorkerInv
  <2> QED
    BY <2>2
<1> QED
  BY <1>2, <1>3, <1>4, <1>5 DEF Completed

\* A set is no larger than the one it is the image of.
LEMMA ImageBound ==
  ASSUME NEW S, IsFiniteSet(S), NEW f
  PROVE  /\ IsFiniteSet({f[x] : x \in S})
         /\ Cardinality({f[x] : x \in S}) <= Cardinality(S)
<1> DEFINE T == {f[x] : x \in S}
           g == [x \in S |-> f[x]]
<1>1. g \in Surjection(S, T)
  BY DEF Surjection
<1> QED
  BY <1>1, FS_Surjection

LEMMA UnionBound ==
  ASSUME NEW S, IsFiniteSet(S), NEW T, IsFiniteSet(T)
  PROVE  /\ IsFiniteSet(S \union T)
         /\ Cardinality(S \union T) <= Cardinality(S) + Cardinality(T)
<1>1. Cardinality(S) \in Nat /\ Cardinality(T) \in Nat /\ Cardinality(S \cap T) \in Nat
  BY FS_CardinalityType, FS_Intersection
<1>2. /\ IsFiniteSet(S \union T)
      /\ Cardinality(S \union T) = Cardinality(S) + Cardinality(T) - Cardinality(S \cap T)
  BY FS_Union
<1> QED
  BY <1>1, <1>2

\* `pending' is at least the number of unfinished tasks.
LEMMA CounterCovers ==
  ASSUME IInv
  PROVE  Cardinality(Executor!Unfinished) \in Nat /\ Cardinality(Executor!Unfinished) <= pending
<1> USE DEF IInv
<1> DEFINE A == Executor!Announced
           Q == Executor!Queued
           R == Executor!Running
           I == (Len(ran) + 2)..Len(order)
<1>1. IsFiniteSet(A) /\ Cardinality(A) <= Cardinality(Swapping) /\ Cardinality(A) \in Nat
  BY TasksAre, SwappingFinite, ImageBound, FS_CardinalityType
<1>2. IsFiniteSet(I) /\ Cardinality(I) = Len(order) - Len(ran) - 1
  BY QueueIs, FS_Interval
<1>3. IsFiniteSet(Q) /\ Cardinality(Q) <= Len(order) - Len(ran) - 1 /\ Cardinality(Q) \in Nat
  <2> HIDE DEF I
  <2>1. Q = {order[i] : i \in I}
    BY QueueIs DEF I
  <2> HIDE DEF Q
  <2> QED
    BY <1>2, <2>1, ImageBound, FS_CardinalityType
<1>4. IsFiniteSet(R) /\ Cardinality(R) = IF wpc = "busy" THEN 1 ELSE 0
  <2>1. R = IF wpc = "busy" THEN {wnext} ELSE {}
    BY TasksAre
  <2> HIDE DEF R
  <2>2. CASE wpc = "busy"
    BY <2>1, <2>2, FS_Singleton
  <2>3. CASE wpc # "busy"
    BY <2>1, <2>3, FS_EmptySet
  <2> QED
    BY <2>2, <2>3
<1>5. Executor!Unfinished = (A \union Q) \union R
  BY DEF Executor!Unfinished
<1> HIDE DEF A, Q, R, I
<1>6. IsFiniteSet(A \union Q) /\ Cardinality(A \union Q) <= Cardinality(A) + Cardinality(Q)
  BY <1>1, <1>3, UnionBound
<1>7. /\ IsFiniteSet((A \union Q) \union R)
      /\ Cardinality((A \union Q) \union R) <= Cardinality(A \union Q) + Cardinality(R)
  BY <1>4, <1>6, UnionBound
<1>8. Cardinality(A \union Q) \in Nat /\ Cardinality((A \union Q) \union R) \in Nat
  BY <1>6, <1>7, FS_CardinalityType
<1>9. pending = (Len(order) - 1) - Retired + Cardinality(Swapping) /\ pending \in Nat
  BY DEF CountInv, TypeOK
<1>10. Retired <= Len(ran) - Cardinality(R) /\ Retired \in Int
  <2>1. CASE wpc = "busy"
    BY <1>4, <2>1, QueueIs DEF Retired
  <2>2. CASE wpc # "busy"
    BY <1>4, <2>2, QueueIs DEF Retired
  <2> QED
    BY <2>1, <2>2
<1> QED
  BY SMTT(30), <1>1, <1>3, <1>4, <1>5, <1>6, <1>7, <1>8, <1>9, <1>10, QueueIs, SwappingFinite

\* What a client is idle for, and which phase it is, to the executor.
LEMMA ClientsAre ==
  ASSUME IInv, AllowInv, NEW p \in Producers
  PROVE  /\ pc[p] = "idle" => Executor!Idle(p)
         /\ pc[p] = "sync" => allow[p] # NULL
BY NullAssumption DEF Executor!Idle, AllowInv

\* A step that changes nothing the executor sees.
LEMMA Stutter ==
  ASSUME UNCHANGED <<order, ran>>, Completed' = Completed,
         wpc = "busy" <=> wpc' = "busy", wpc = "busy" => wnext' = wnext,
         \A p \in Producers : pc[p] = "swap" <=> pc'[p] = "swap",
         \A p \in Producers : pc[p] = "sync" <=> pc'[p] = "sync",
         \A p \in Producers : pc[p] = "swap" => node'[p] = node[p],
         \A p \in Producers : pc[p] = "sync" => allow'[p] = allow[p],
         dpc = "alive" <=> dpc' = "alive", dpc = "join" <=> dpc' = "join"
  PROVE  UNCHANGED Executor!vars
<1>1. UNCHANGED SubSeq(order, Len(ran) + 2, Len(order))
  OBVIOUS
<1>2. UNCHANGED <<[p \in Producers |-> IF pc[p] = "swap" THEN node[p] ELSE NULL],
                  [p \in Producers |-> IF pc[p] = "sync" THEN allow[p] ELSE NULL]>>
  OBVIOUS
<1> QED
  BY <1>1, <1>2 DEF Executor!vars

LEMMA AnnounceMaps ==
  ASSUME IInv, AllowInv, NEW p \in Producers, NEW t \in Tasks, EnqueueAnnounce(p, t)
  PROVE  Executor!Announce(p, t)
<1>0. /\ dpc = "alive" /\ pc[p] = "idle" /\ t \notin Submitted
      /\ node' = [node EXCEPT ![p] = t] /\ pc' = [pc EXCEPT ![p] = "swap"]
      /\ UNCHANGED <<allow, wpc, wnext, dpc, order, ran>>
  BY DEF EnqueueAnnounce, workerVars, historyVars
<1>1. t \notin Executor!Unfinished \union Completed
  <2>1. t \notin {order[i] : i \in 2..Len(order)} /\ t \notin {node[q] : q \in Swapping}
    BY <1>0 DEF Submitted, Swapping
  <2>2. t \notin Executor!Queued
    BY <2>1, QueueIs
  <2>3. t \notin Executor!Running
    <3>1. wpc = "busy" => wnext \in {order[i] : i \in 2..Len(order)}
      BY TasksAre, QueueIs
    <3> QED
      BY <2>1, <3>1, TasksAre
  <2> QED
    BY <2>1, <2>2, <2>3, TasksAre DEF Executor!Unfinished
<1>2. pc \in [Producers -> {"idle", "swap", "link", "sync"}] /\ node \in [Producers -> Tasks \union {NULL}]
  BY DEF IInv, TypeOK
<1>3. /\ [q \in Producers |-> IF pc[q] = "swap" THEN node[q] ELSE NULL]' =
           [[q \in Producers |-> IF pc[q] = "swap" THEN node[q] ELSE NULL] EXCEPT ![p] = t]
      /\ UNCHANGED [q \in Producers |-> IF pc[q] = "sync" THEN allow[q] ELSE NULL]
  BY <1>0, <1>2
<1>4. UNCHANGED <<SubSeq(order, Len(ran) + 2, Len(order)), Completed>>
  BY <1>0 DEF Completed, Complete
<1> QED
  BY <1>0, <1>1, <1>3, <1>4, ClientsAre DEF Executor!Announce

\* What is left of a longer sequence is what was left of it, and its last element.
LEMMA SubSeqOfAppend ==
  ASSUME NEW S, NEW s \in Seq(S), NEW e \in S, NEW a \in 1..(Len(s) + 1)
  PROVE  SubSeq(Append(s, e), a, Len(s) + 1) = Append(SubSeq(s, a, Len(s)), e)
<1> DEFINE N == Len(s)
           t == Append(s, e)
           L == SubSeq(t, a, N + 1)
           R == SubSeq(s, a, N)
<1>1. /\ N \in Nat /\ t \in Seq(S) /\ Len(t) = N + 1
      /\ \A i \in 1..N : t[i] = s[i] /\ s[i] \in S
      /\ t[N + 1] = e
  BY AppendProperties
<1>2. \A i \in a..(N + 1) : t[i] \in S
  BY <1>1
<1>3. \A i \in a..N : s[i] \in S
  BY <1>1
<1>a. N \in Nat /\ a \in 1..(N + 1)
  BY <1>1
<1> HIDE DEF N, t
<1>4. /\ L \in Seq(S) /\ Len(L) = N + 2 - a
      /\ \A i \in 1..(N + 2 - a) : L[i] = t[a + i - 1]
  BY <1>1, <1>2, SubSeqProperties DEF N
<1>5. /\ R \in Seq(S) /\ Len(R) = N + 1 - a
      /\ \A i \in 1..(N + 1 - a) : R[i] = s[a + i - 1]
  BY <1>1, <1>3, SubSeqProperties DEF N
<1> HIDE DEF L, R
<1>6. /\ Append(R, e) \in Seq(S) /\ Len(Append(R, e)) = N + 2 - a
      /\ \A i \in 1..(N + 1 - a) : Append(R, e)[i] = R[i]
      /\ Append(R, e)[N + 2 - a] = e
  <2>1. Len(R) + 1 = N + 2 - a /\ 1..Len(R) = 1..(N + 1 - a)
    BY <1>a, <1>5
  <2>2. R \in Seq(S)
    BY <1>5
  <2>3. /\ Append(R, e) \in Seq(S) /\ Len(Append(R, e)) = Len(R) + 1
        /\ \A i \in 1..Len(R) : Append(R, e)[i] = R[i]
        /\ Append(R, e)[Len(R) + 1] = e
    BY <2>2, AppendProperties
  <2> QED
    BY <2>1, <2>3
<1>7. ASSUME NEW i \in 1..(N + 2 - a) PROVE L[i] = Append(R, e)[i]
  <2>1. CASE i = N + 2 - a
    <3>1. a + i - 1 = N + 1
      BY <1>a, <2>1
    <3> QED
      BY <1>1, <1>4, <1>6, <2>1, <3>1
  <2>2. CASE i # N + 2 - a
    <3>1. i \in 1..(N + 1 - a) /\ a + i - 1 \in 1..N
      BY <1>1, <2>2 DEF N
    <3> QED
      BY <1>1, <1>4, <1>5, <1>6, <3>1
  <2> QED
    BY <2>1, <2>2
<1>8. L = Append(R, e)
  BY <1>4, <1>6, <1>7, SeqEqual
<1> QED
  BY <1>8 DEF L, R, N, t

LEMMA SwapMaps ==
  ASSUME IInv, NEW p \in Producers, EnqueueSwap(p)
  PROVE  Executor!Commit(p)
<1>0. /\ pc[p] = "swap" /\ pc' = [pc EXCEPT ![p] = "link"] /\ order' = Append(order, node[p])
      /\ UNCHANGED <<node, allow, wpc, wnext, dpc, ran>>
  BY DEF EnqueueSwap, workerVars
<1>1. node[p] \in Tasks /\ node[p] # NULL
  BY <1>0, NodesAssumption DEF IInv, SwapInv
<1>2. pc \in [Producers -> {"idle", "swap", "link", "sync"}] /\ node \in [Producers -> Tasks \union {NULL}]
  BY DEF IInv, TypeOK
<1>3. /\ [q \in Producers |-> IF pc[q] = "swap" THEN node[q] ELSE NULL]' =
           [[q \in Producers |-> IF pc[q] = "swap" THEN node[q] ELSE NULL] EXCEPT ![p] = NULL]
      /\ UNCHANGED [q \in Producers |-> IF pc[q] = "sync" THEN allow[q] ELSE NULL]
  BY <1>0, <1>2
<1>4. SubSeq(order, Len(ran) + 2, Len(order))' =
        Append(SubSeq(order, Len(ran) + 2, Len(order)), node[p])
  <2>1. order \in Seq(Nodes) /\ node[p] \in Nodes
    BY <1>1 DEF IInv, TypeOK, Nodes
  <2>2. Len(ran) + 2 \in 1..(Len(order) + 1)
    BY QueueIs
  <2>3. SubSeq(Append(order, node[p]), Len(ran) + 2, Len(order) + 1) =
          Append(SubSeq(order, Len(ran) + 2, Len(order)), node[p])
    BY <2>1, <2>2, SubSeqOfAppend
  <2>4. Len(Append(order, node[p])) = Len(order) + 1
    BY <2>1, AppendProperties
  <2> QED
    BY <1>0, <2>3, <2>4
<1>5. UNCHANGED Completed
  BY <1>0 DEF Completed, Complete
<1> QED
  BY <1>0, <1>1, <1>3, <1>4, <1>5 DEF Executor!Commit

LEMMA SyncMaps ==
  ASSUME IInv, AllowInv, NEW p \in Producers
  PROVE  /\ \A n \in Allowances : SyncCall(p, n) => Executor!Wait(p, n)
         /\ SyncReturn(p) => Executor!GoOn(p)
<1>1. /\ pc \in [Producers -> {"idle", "swap", "link", "sync"}]
      /\ allow \in [Producers -> Nat] /\ pending \in Nat
  BY DEF IInv, TypeOK
<1>2. ASSUME NEW n \in Allowances, SyncCall(p, n) PROVE Executor!Wait(p, n)
  <2>1. /\ dpc = "alive" /\ pc[p] = "idle" /\ allow' = [allow EXCEPT ![p] = n]
        /\ pc' = [pc EXCEPT ![p] = "sync"] /\ UNCHANGED <<node, wpc, wnext, dpc, order, ran>>
    BY <1>2 DEF SyncCall, workerVars, historyVars
  <2>2. /\ UNCHANGED [q \in Producers |-> IF pc[q] = "swap" THEN node[q] ELSE NULL]
        /\ [q \in Producers |-> IF pc[q] = "sync" THEN allow[q] ELSE NULL]' =
             [[q \in Producers |-> IF pc[q] = "sync" THEN allow[q] ELSE NULL] EXCEPT ![p] = n]
    BY <1>1, <2>1
  <2>3. UNCHANGED <<SubSeq(order, Len(ran) + 2, Len(order)), Completed>>
    BY <2>1 DEF Completed, Complete
  <2> QED
    BY <2>1, <2>2, <2>3, ClientsAre DEF Executor!Wait
<1>3. ASSUME SyncReturn(p) PROVE Executor!GoOn(p)
  <2>1. /\ pc[p] = "sync" /\ pending <= allow[p] /\ pc' = [pc EXCEPT ![p] = "idle"]
        /\ UNCHANGED <<node, allow, wpc, wnext, dpc, order, ran>>
    BY <1>3 DEF SyncReturn, workerVars, historyVars
  <2>2. /\ UNCHANGED [q \in Producers |-> IF pc[q] = "swap" THEN node[q] ELSE NULL]
        /\ [q \in Producers |-> IF pc[q] = "sync" THEN allow[q] ELSE NULL]' =
             [[q \in Producers |-> IF pc[q] = "sync" THEN allow[q] ELSE NULL] EXCEPT ![p] = NULL]
    BY <1>1, <2>1
  <2>3. UNCHANGED <<SubSeq(order, Len(ran) + 2, Len(order)), Completed>>
    BY <2>1 DEF Completed, Complete
  <2>4. Cardinality(Executor!Unfinished) <= allow[p] /\ allow[p] # NULL
    BY <1>1, <2>1, CounterCovers, ClientsAre
  <2> DEFINE W == [q \in Producers |-> IF pc[q] = "sync" THEN allow[q] ELSE NULL]
  <2>5. W[p] # NULL /\ Cardinality(Executor!Unfinished) <= W[p]
    BY <2>1, <2>4
  <2>6. UNCHANGED <<IF wpc = "busy" THEN wnext ELSE NULL,
                    IF dpc = "alive" THEN "open" ELSE IF dpc = "join" THEN "closing" ELSE "closed">>
    BY <2>1
  <2>7. Executor!Cardinality(Executor!Unfinished) = Cardinality(Executor!Unfinished)
    BY DEF Executor!Cardinality, Cardinality, Executor!IsFiniteSet, IsFiniteSet
  <2> QED
    BY <2>2, <2>3, <2>5, <2>6, <2>7 DEF Executor!GoOn
<1> QED
  BY <1>2, <1>3

LEMMA StartMaps ==
  ASSUME IInv, WorkerStart
  PROVE  Executor!Start
<1> USE DEF IInv
<1>0. /\ wpc = "peek" /\ next[curr] # NULL /\ wnext' = next[curr]
      /\ ran' = Append(ran, next[curr]) /\ wpc' = "busy"
      /\ UNCHANGED <<pc, node, allow, dpc, order>>
  BY DEF WorkerStart, clientVars
<1> DEFINE N == Len(order)
           a == Len(ran) + 2
<1>1. /\ N \in Nat /\ Len(ran) \in Nat /\ order \in Seq(Nodes) /\ ran \in Seq(Nodes)
      /\ a - 1 <= N /\ curr = order[a - 1]
  BY <1>0 DEF WorkerInv, TypeOK, At
<1>2. a <= N
  BY <1>0, <1>1 DEF OrderInv, LinkInv
<1>3. next[curr] = order[a] /\ order[a] \in Tasks /\ order[a] \in Nodes
  <2>1. a - 1 \in 1..(N - 1) /\ a \in 2..N
    BY <1>1, <1>2
  <2>2. next[order[a - 1]] \in {NULL, order[(a - 1) + 1]}
    BY <2>1 DEF LinkInv
  <2>3. order[a] \in Tasks
    BY <2>1 DEF OrderInv
  <2> QED
    BY <1>0, <1>1, <2>1, <2>2, <2>3 DEF Nodes
<1>4. a \in 1..Len(order) /\ Len(order) \in a..Len(order)
  BY <1>1, <1>2
<1> HIDE DEF a
<1>5. /\ Head(SubSeq(order, a, Len(order))) = order[a]
      /\ Tail(SubSeq(order, a, Len(order))) = SubSeq(order, a + 1, Len(order))
  BY <1>1, <1>4, HeadTailOfSubSeq
<1>6. SubSeq(order, a, Len(order)) # <<>>
  <2>1. Len(SubSeq(order, a, Len(order))) = Len(order) - Len(ran) - 1
    BY QueueIs DEF a
  <2>2. Len(order) - Len(ran) - 1 # 0
    BY <1>1, <1>2 DEF a
  <2>3. Len(<<>>) = 0
    OBVIOUS
  <2> QED
    BY <2>1, <2>2, <2>3
<1>7. Len(ran') = Len(ran) + 1 /\ Len(ran') + 2 = a + 1
  BY <1>0, <1>1, <1>3, AppendProperties DEF a
<1>8. SubSeq(order, Len(ran) + 2, Len(order))' = SubSeq(order, a + 1, Len(order))
  BY <1>0, <1>7
<1>9. UNCHANGED Completed
  <2>1. Complete' = Complete /\ Complete = Len(ran)
    BY <1>0, <1>1, <1>7 DEF Complete
  <2>2. \A i \in 1..Len(ran) : ran'[i] = ran[i]
    BY <1>0, <1>1, <1>3, AppendProperties
  <2> QED
    BY <2>1, <2>2 DEF Completed
<1>10. dpc \in {"alive", "join"}
  BY <1>0 DEF PhaseInv, TypeOK
<1>11. wnext' = order[a]
  BY <1>0, <1>3
<1> QED
  BY <1>0, <1>5, <1>6, <1>8, <1>9, <1>10, <1>11 DEF Executor!Start, a

LEMMA FinishMaps ==
  ASSUME IInv, WorkerFinish
  PROVE  Executor!Finish
<1> USE DEF IInv
<1>0. /\ wpc = "busy" /\ wpc' = "retire" /\ UNCHANGED <<pc, node, allow, wnext, dpc, order, ran>>
  BY DEF WorkerFinish, clientVars, historyVars
<1>1. wnext \in Tasks /\ wnext = order[Len(ran) + 1] /\ Len(ran) >= 1 /\ Len(ran) \in Nat
  BY <1>0, TasksAre, QueueIs
<1>2. ran[Len(ran)] = wnext
  <2>1. Len(ran) \in 1..Len(ran)
    BY <1>1
  <2> QED
    BY <1>1, <2>1 DEF WorkerInv
<1>3. Completed = {ran[i] : i \in 1..(Len(ran) - 1)} /\ Completed' = {ran[i] : i \in 1..Len(ran)}
  BY <1>0, <1>1 DEF Completed, Complete
<1>4. {ran[i] : i \in 1..Len(ran)} = {ran[i] : i \in 1..(Len(ran) - 1)} \union {wnext}
  <2>1. \A i : i \in 1..Len(ran) <=> i \in 1..(Len(ran) - 1) \/ i = Len(ran)
    BY <1>1
  <2> QED
    BY <1>2, <2>1
<1>5. UNCHANGED <<SubSeq(order, Len(ran) + 2, Len(order)),
                  [q \in Producers |-> IF pc[q] = "swap" THEN node[q] ELSE NULL],
                  [q \in Producers |-> IF pc[q] = "sync" THEN allow[q] ELSE NULL]>>
  BY <1>0
<1> QED
  BY <1>0, <1>1, <1>3, <1>4, <1>5, NodesAssumption DEF Executor!Finish

\* The steps of the code the executor does not see.
LEMMA HiddenSteps ==
  ASSUME IInv,
         \/ \E p \in Producers : EnqueueLink(p)
         \/ WorkerCheck \/ WorkerPeekNothing \/ WorkerRetire \/ WorkerCount
         \/ DestroySweep \/ DestroyReturn
         \/ UNCHANGED vars
  PROVE  UNCHANGED Executor!vars
<1>1. ASSUME NEW p \in Producers, EnqueueLink(p) PROVE UNCHANGED Executor!vars
  <2>1. /\ pc[p] = "link" /\ pc' = [pc EXCEPT ![p] = "idle"]
        /\ UNCHANGED <<node, allow, wpc, wnext, dpc, order, ran>>
    BY <1>1 DEF EnqueueLink, workerVars, historyVars
  <2>2. pc \in [Producers -> {"idle", "swap", "link", "sync"}]
    BY DEF IInv, TypeOK
  <2>3. \A q \in Producers : (pc[q] = "swap" <=> pc'[q] = "swap") /\ (pc[q] = "sync" <=> pc'[q] = "sync")
    BY <2>1, <2>2
  <2>4. Completed' = Completed
    BY <2>1 DEF Completed, Complete
  <2> QED
    BY <2>1, <2>3, <2>4, Stutter
<1>2. ASSUME WorkerCheck \/ WorkerPeekNothing \/ WorkerRetire \/ WorkerCount
      PROVE  UNCHANGED Executor!vars
  <2>1. wpc # "busy" /\ wpc' # "busy" /\ UNCHANGED <<pc, node, allow, dpc, order, ran>>
    BY <1>2 DEF WorkerCheck, WorkerPeekNothing, WorkerRetire, WorkerCount, clientVars, historyVars
  <2>2. Completed' = Completed
    BY <2>1 DEF Completed, Complete
  <2> QED
    BY <2>1, <2>2, Stutter
<1>3. ASSUME DestroySweep \/ DestroyReturn PROVE UNCHANGED Executor!vars
  <2>1. /\ dpc = "sweep" /\ dpc' \in {"sweep", "gone"}
        /\ UNCHANGED <<pc, node, allow, wpc, wnext, order, ran>>
    BY <1>3 DEF DestroySweep, DestroyReturn, clientVars, workerVars, historyVars
  <2>2. Completed' = Completed
    BY <2>1 DEF Completed, Complete
  <2> QED
    BY <2>1, <2>2, Stutter
<1>4. ASSUME UNCHANGED vars PROVE UNCHANGED Executor!vars
  <2>1. UNCHANGED <<pc, node, allow, wpc, wnext, dpc, order, ran>>
    BY <1>4 DEF vars, clientVars, workerVars, historyVars
  <2>2. Completed' = Completed
    BY <2>1 DEF Completed, Complete
  <2> QED
    BY <2>1, <2>2, Stutter
<1> QED
  BY <1>1, <1>2, <1>3, <1>4

LEMMA CloseMaps ==
  ASSUME IInv, AllowInv
  PROVE  /\ DestroyStop => Executor!Close
         /\ DestroyJoin => Executor!Closed
<1>1. ASSUME DestroyStop PROVE Executor!Close
  <2>1. /\ dpc = "alive" /\ dpc' = "join" /\ \A p \in Producers : pc[p] = "idle"
        /\ UNCHANGED <<pc, node, allow, wpc, wnext, order, ran>>
    BY <1>1 DEF DestroyStop, clientVars, workerVars, historyVars
  <2>2. UNCHANGED <<SubSeq(order, Len(ran) + 2, Len(order)), Completed,
                    [q \in Producers |-> IF pc[q] = "swap" THEN node[q] ELSE NULL],
                    [q \in Producers |-> IF pc[q] = "sync" THEN allow[q] ELSE NULL]>>
    BY <2>1 DEF Completed, Complete
  <2> QED
    BY <2>1, <2>2, ClientsAre DEF Executor!Close
<1>2. ASSUME DestroyJoin PROVE Executor!Closed
  <2>1. /\ dpc = "join" /\ dpc' = "sweep" /\ wpc = "exited"
        /\ UNCHANGED <<pc, node, allow, wpc, wnext, order, ran>>
    BY <1>2 DEF DestroyJoin, clientVars, workerVars, historyVars
  <2>2. UNCHANGED <<SubSeq(order, Len(ran) + 2, Len(order)), Completed,
                    [q \in Producers |-> IF pc[q] = "swap" THEN node[q] ELSE NULL],
                    [q \in Producers |-> IF pc[q] = "sync" THEN allow[q] ELSE NULL]>>
    BY <2>1 DEF Completed, Complete
  <2> QED
    BY <2>1, <2>2 DEF Executor!Closed
<1> QED
  BY <1>1, <1>2

LEMMA InitMaps == Init => Executor!Init
<1> SUFFICES ASSUME Init PROVE Executor!Init
  OBVIOUS
<1> USE DEF Init
<1>1. ran = <<>> /\ Len(ran) = 0 /\ order = <<Dummy>> /\ Len(order) = 1
  OBVIOUS
<1>2. SubSeq(order, Len(ran) + 2, Len(order)) = <<>>
  BY <1>1, SubSeqEmpty
<1>3. Completed = {}
  BY <1>1 DEF Completed, Complete
<1> QED
  BY <1>2, <1>3 DEF Executor!Init

LEMMA AllowStep == TypeOK /\ AllowInv /\ [Next]_vars => AllowInv'
<1> SUFFICES ASSUME TypeOK, AllowInv, [Next]_vars PROVE AllowInv'
  OBVIOUS
<1>0. /\ pc \in [Producers -> {"idle", "swap", "link", "sync"}]
      /\ allow \in [Producers -> Nat]
  BY DEF TypeOK
<1>1. ASSUME NEW p \in Producers, Client(p) PROVE AllowInv'
  <2>1. ASSUME NEW n \in Allowances, SyncCall(p, n) PROVE AllowInv'
    BY <1>0, <2>1 DEF SyncCall, AllowInv
  <2>2. ASSUME \/ \E t \in Tasks : EnqueueAnnounce(p, t)
               \/ EnqueueSwap(p) \/ EnqueueLink(p) \/ SyncReturn(p)
        PROVE  allow' = allow /\ \A q \in Producers : pc'[q] = "sync" => pc[q] = "sync"
    BY <1>0, <2>2 DEF EnqueueAnnounce, EnqueueSwap, EnqueueLink, SyncReturn
  <2> QED
    BY <1>1, <2>1, <2>2 DEF Client, AllowInv
<1>2. ASSUME Worker \/ Destructor \/ Gone \/ UNCHANGED vars PROVE AllowInv'
  <2>1. UNCHANGED <<pc, allow>>
    BY <1>2 DEF Worker, WorkerCheck, WorkerPeekNothing, WorkerStart, WorkerFinish, WorkerRetire,
                WorkerCount, Destructor, DestroyStop, DestroyJoin, DestroySweep, DestroyReturn,
                Gone, vars, clientVars
  <2> QED
    BY <2>1 DEF AllowInv
<1> QED
  BY <1>1, <1>2 DEF Next

LEMMA StepMaps == IInv /\ AllowInv /\ [Next]_vars => [Executor!Next]_(Executor!vars)
<1> SUFFICES ASSUME IInv, AllowInv, [Next]_vars PROVE Executor!Next \/ UNCHANGED Executor!vars
  OBVIOUS
<1>1. ASSUME NEW p \in Producers, Client(p) PROVE Executor!Next \/ UNCHANGED Executor!vars
  <2>1. ASSUME NEW t \in Tasks, EnqueueAnnounce(p, t) PROVE Executor!Next
    BY <2>1, AnnounceMaps DEF Executor!Next
  <2>2. ASSUME EnqueueSwap(p) PROVE Executor!Next
    BY <2>2, SwapMaps DEF Executor!Next
  <2>3. ASSUME NEW n \in Allowances, SyncCall(p, n) PROVE Executor!Next
    BY <2>3, SyncMaps DEF Executor!Next
  <2>4. ASSUME SyncReturn(p) PROVE Executor!Next
    BY <2>4, SyncMaps DEF Executor!Next
  <2>5. ASSUME EnqueueLink(p) PROVE UNCHANGED Executor!vars
    BY <2>5, HiddenSteps
  <2> QED
    BY <1>1, <2>1, <2>2, <2>3, <2>4, <2>5 DEF Client
<1>2. ASSUME Worker PROVE Executor!Next \/ UNCHANGED Executor!vars
  <2>1. WorkerStart => Executor!Next
    BY StartMaps DEF Executor!Next
  <2>2. WorkerFinish => Executor!Next
    BY FinishMaps DEF Executor!Next
  <2> QED
    BY <1>2, <2>1, <2>2, HiddenSteps DEF Worker
<1>3. ASSUME Destructor PROVE Executor!Next \/ UNCHANGED Executor!vars
  <2>1. DestroyStop => Executor!Next
    BY CloseMaps DEF Executor!Next
  <2>2. DestroyJoin => Executor!Next
    BY CloseMaps DEF Executor!Next
  <2> QED
    BY <1>3, <2>1, <2>2, HiddenSteps DEF Destructor
<1>4. ASSUME Gone \/ UNCHANGED vars PROVE UNCHANGED Executor!vars
  BY <1>4, HiddenSteps DEF Gone
<1> QED
  BY <1>1, <1>2, <1>3, <1>4 DEF Next

(* The lock-free queue implements the first-come-first-served executor:    *)
(* every step of its list, its counter and its destructor is a step of     *)
(* FifoExecutor or changes nothing a client can see.                       *)
THEOREM Refinement == Spec => ImplementsExecutor
<1>1. Init => AllowInv
  BY DEF Init, AllowInv
<1>2. Spec => []AllowInv
  <2>1. TypeOK /\ AllowInv /\ [Next]_vars => AllowInv'
    BY AllowStep
  <2> QED
    BY <1>1, <2>1, TypeCorrect, PTL DEF Spec
<1> QED
  BY <1>2, Invariance, InitMaps, StepMaps, PTL DEF Spec, ImplementsExecutor, Executor!Spec
=============================================================================
