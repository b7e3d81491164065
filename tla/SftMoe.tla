-------------------------------- MODULE SftMoe --------------------------------
(***************************************************************************)
(* SFT_MOE of kt-sft/csrc/ktransformers_ext/operators/llamafile/sft_moe.cpp*)
(* with the SharedMemBuffer its scratch fields live in and the wrappers of *)
(* ext_bindings.cpp: forward and backward of the experts of fine-tuned     *)
(* layers.                                                                 *)
(*                                                                         *)
(* All layers share one buffer.  A layer asks for two groups of fields, a  *)
(* call of alloc each, and every group is laid out from the start of the   *)
(* buffer: s holds the transposed weights and the scratch of one token, m  *)
(* the scratch of a group of tokens.  A forward leaves its activations in  *)
(* the layer's fw_cache_, one entry per token, for the backward.           *)
(*                                                                         *)
(* Memory is a function from cells to the field they were last written     *)
(* for.  The tasks run on the worker of SftTaskQueue and Python awaits     *)
(* each, so there is at most one; a stage of a task is one job of          *)
(* SftBackend, whose items run concurrently.                               *)
(***************************************************************************)
EXTENDS Naturals, Sequences

CONSTANTS
  Layers,
  WeightLen,   \* per layer: the cells of one transposed weight matrix
  ForwardLen,  \* per layer: the cells of forward_many's fields
  GradLen,     \* per layer: the cells of a field of backward_many, per token
  GroupMin,    \* group_min_len
  GroupMax,    \* group_max_len
  QLens,       \* the numbers of tokens of a forward
  Overlapping, \* whether a layer may run forward again before its backward
  MaxForwards, \* bound: the number of forwards
  None

ASSUME LengthsAssumption ==
  /\ WeightLen \in [Layers -> Nat \ {0}]
  /\ ForwardLen \in [Layers -> Nat \ {0}]
  /\ GradLen \in [Layers -> Nat \ {0}]
ASSUME GroupAssumption == GroupMin \in Nat \ {0} /\ GroupMax \in Nat \ {0}
ASSUME QLensAssumption == QLens \subseteq Nat \ {0}
ASSUME BoundAssumption == MaxForwards \in Nat /\ Overlapping \in BOOLEAN

VARIABLES
  memory, size_, generation,  \* SharedMemBuffer: contents, size, and which allocation
  hist_requests_,             \* the groups <<layer, group>> alloc remembers
  pointer,                    \* the allocation a layer's fields of a group point into
  life,                       \* how far each SFT_MOE object is
  fw_cache_,                  \* per layer and token: the forward whose activations it holds
  nodes,                      \* history: the forwards, as autograd nodes [layer, qlen]
  task, done, pc,             \* the node worked on, the tokens done, the stage
  spoiled, own                \* history: see GradientsSound and ActivationsOwn

bufferVars  == <<memory, size_, generation, hist_requests_, pointer>>
taskVars    == <<task, done, pc>>
historyVars == <<spoiled, own>>
vars == <<bufferVars, life, fw_cache_, nodes, taskVars, historyVars>>

-----------------------------------------------------------------------------
(* The layout of the two groups of a layer *)

Transposed == {"gate_t", "up_t", "down_t"}
Gradients  == {"m_output_grad", "m_mid_grad", "m_input_grad", "m_index", "m_grad_input"}

Field(name, length) == [name |-> name, length |-> length]

requests(l, group) ==
  IF group = "s"
  THEN << Field("gate_t", WeightLen[l]), Field("up_t", WeightLen[l]),
          Field("down_t", WeightLen[l]), Field("s_scratch", 1) >>
  ELSE LET grad(name) == Field(name, GroupMax * GradLen[l])
       IN << Field("m_forward", ForwardLen[l]), grad("m_output_grad"), grad("m_mid_grad"),
             grad("m_input_grad"), grad("m_index"), grad("m_grad_input") >>

\* where the field at position i of a group of at most six begins; behind the
\* last one the group ends
arrange(fields, i) ==
  LET before(j) == IF j < i THEN fields[j].length ELSE 0
  IN before(1) + before(2) + before(3) + before(4) + before(5) + before(6)

Total(fields) == arrange(fields, Len(fields) + 1)

\* the first n cells of a field of layer l
Prefix(l, name, n) ==
  LET fields == requests(l, IF name \in Transposed \union {"s_scratch"} THEN "s" ELSE "m")
      start  == arrange(fields, CHOOSE i \in DOMAIN fields : fields[i].name = name)
  IN start..(start + n - 1)

\* A transposed matrix of layer l reaches into the fields of backward_many.
Overlapped(l, f) ==
  Prefix(l, f, WeightLen[l]) \cap ForwardLen[l]..(Total(requests(l, "m")) - 1) # {}

-----------------------------------------------------------------------------
Init ==
  /\ memory = <<>> /\ size_ = 0 /\ generation = 0
  /\ hist_requests_ = {}
  /\ pointer = [l \in Layers |-> [g \in {"s", "m"} |-> None]]
  /\ life = [l \in Layers |-> "absent"]
  /\ fw_cache_ = [l \in Layers |-> <<>>]
  /\ nodes = <<>>
  /\ task = None /\ done = 0 /\ pc = "idle"
  /\ spoiled = {} /\ own = TRUE

\* Python is between two calls.
Idle == pc = "idle" /\ \A l \in Layers : life[l] # "half"

-----------------------------------------------------------------------------
(* SharedMemBuffer::alloc, in the constructor and the destructor of SFT_MOE *)

\* Mutated: the fields laid out before are not moved along.
alloc_forgets(l, group) ==
  LET need == Total(requests(l, group))
      grow == need > size_
      now  == IF grow THEN generation + 1 ELSE generation
  IN /\ size_' = IF grow THEN need ELSE size_
     /\ generation' = now
     /\ memory' = IF grow THEN [c \in 0..(need - 1) |-> None] ELSE memory
     /\ pointer' = [pointer EXCEPT ![l][group] = now]
     /\ hist_requests_' = hist_requests_ \union {<<l, group>>}

\* Mutated: the size is noted, the old buffer kept.
alloc_keeps(l, group) ==
  /\ size_' = IF Total(requests(l, group)) > size_ THEN Total(requests(l, group)) ELSE size_
  /\ pointer' = [pointer EXCEPT ![l][group] = generation]
  /\ hist_requests_' = hist_requests_ \union {<<l, group>>}
  /\ UNCHANGED <<memory, generation>>

\* a larger buffer replaces the old one, and every group remembered moves into it
alloc(l, group) ==
  LET need  == Total(requests(l, group))
      grow  == need > size_
      now   == IF grow THEN generation + 1 ELSE generation
      moved == {<<l, group>>} \union (IF grow THEN hist_requests_ ELSE {})
  IN /\ size_' = IF grow THEN need ELSE size_
     /\ generation' = now
     /\ memory' = IF grow THEN [c \in 0..(need - 1) |-> None] ELSE memory
     /\ pointer' = [m \in Layers |-> [g \in {"s", "m"} |->
                      IF <<m, g>> \in moved THEN now ELSE pointer[m][g]]]
     /\ hist_requests_' = hist_requests_ \union {<<l, group>>}

ConstructS(l) ==
  /\ Idle /\ life[l] = "absent"
  /\ alloc(l, "s")
  /\ life' = [life EXCEPT ![l] = "half"]
  /\ UNCHANGED <<fw_cache_, nodes, taskVars, historyVars>>

ConstructM(l) ==
  /\ life[l] = "half"
  /\ alloc(l, "m")
  /\ life' = [life EXCEPT ![l] = "ready"]
  /\ UNCHANGED <<fw_cache_, nodes, taskVars, historyVars>>

\* dealloc: the buffer stays as it is
Destruct(l) ==
  /\ Idle /\ life[l] = "ready"
  /\ hist_requests_' = hist_requests_ \ {<<l, "s">>, <<l, "m">>}
  /\ life' = [life EXCEPT ![l] = "gone"]
  /\ UNCHANGED <<memory, size_, generation, pointer, fw_cache_, nodes, taskVars, historyVars>>

-----------------------------------------------------------------------------
(* What a stage reads and writes *)

layer     == nodes[task].layer
remaining == nodes[task].qlen - done
group_len == IF remaining < GroupMax THEN remaining ELSE GroupMax

Length(name) ==
  CASE name \in Transposed    -> WeightLen[layer]
    [] name = "s_scratch"     -> 1
    [] name = "m_forward"     -> ForwardLen[layer]
    [] OTHER                  -> group_len * GradLen[layer]

Cells(name) == Prefix(layer, name, Length(name))

\* The transposed weights are the layer's; other fields are those of a group of tokens.
Tag(name) == IF name \in Transposed THEN <<name, layer>> ELSE <<name, task, done>>

Overwrite(contents, names) ==
  [c \in DOMAIN contents |->
     IF \E f \in names : c \in Cells(f)
     THEN Tag(CHOOSE f \in names : c \in Cells(f)) ELSE contents[c]]

Write(names) == memory' = Overwrite(memory, names)

Intact(contents, f) == \A c \in Cells(f) : contents[c] = Tag(f)

\* The items of a job run concurrently: an item reads before or after the others write.
Read(names) ==
  \E contents \in {memory, memory'} :
    spoiled' = spoiled \union ({layer} \X {f \in names : ~Intact(contents, f)})

\* The activations of the next n tokens are read from the cache.
ReadCache(n) == own' = (own /\ \A t \in 1..n : fw_cache_[layer][done + t] = task)

\* ... and written by the forward.
WriteCache(n) ==
  fw_cache_' = [fw_cache_ EXCEPT ![layer] =
                  [t \in DOMAIN @ |-> IF t \in (done + 1)..(done + n) THEN task ELSE @[t]]]

-----------------------------------------------------------------------------
(* forward, after ensure_fwd_cache *)

\* the cache grows to qlen entries and never shrinks
ensure_fwd_cache(l, qlen) ==
  fw_cache_' = [fw_cache_ EXCEPT ![l] = @ \o [t \in 1..(qlen - Len(@)) |-> None]]

SubmitForward(l, qlen) ==
  /\ Idle /\ life[l] = "ready"
  /\ Len(nodes) < MaxForwards
  /\ nodes' = Append(nodes, [layer |-> l, qlen |-> qlen])
  /\ task' = Len(nodes) + 1 /\ done' = 0 /\ pc' = "forward"
  /\ ensure_fwd_cache(l, qlen)
  /\ UNCHANGED <<bufferVars, life, historyVars>>

\* Mutated: the cache pointer is not advanced with the tokens.
forward_many_first ==
  /\ pc = "forward" /\ remaining >= GroupMin
  /\ Write({"m_forward"})
  /\ fw_cache_' = [fw_cache_ EXCEPT ![layer] =
                     [t \in DOMAIN @ |-> IF t <= group_len THEN task ELSE @[t]]]
  /\ done' = done + group_len
  /\ UNCHANGED <<size_, generation, hist_requests_, pointer, life, nodes, task, pc, historyVars>>

forward_many ==
  /\ pc = "forward" /\ remaining >= GroupMin
  /\ Write({"m_forward"})
  /\ WriteCache(group_len)
  /\ done' = done + group_len
  /\ UNCHANGED <<size_, generation, hist_requests_, pointer, life, nodes, task, pc, historyVars>>

\* one token after the other, possibly none, and the task returns
forward_one ==
  /\ pc = "forward" /\ remaining < GroupMin
  /\ Write(IF remaining > 0 THEN {"s_scratch"} ELSE {})
  /\ WriteCache(remaining)
  /\ task' = None /\ done' = 0 /\ pc' = "idle"
  /\ UNCHANGED <<size_, generation, hist_requests_, pointer, life, nodes, historyVars>>

\* warm_up uses a cache of its own
warm_up(l) ==
  /\ Idle /\ life[l] = "ready"
  /\ memory' = [c \in DOMAIN memory |->
                  IF c \in Prefix(l, "s_scratch", 1) THEN <<"s_scratch", l>> ELSE memory[c]]
  /\ UNCHANGED <<size_, generation, hist_requests_, pointer, life, fw_cache_, nodes, taskVars,
                 historyVars>>

-----------------------------------------------------------------------------
(* backward *)

SubmitBackward(i) ==
  /\ Idle /\ life[nodes[i].layer] = "ready"
  /\ ~Overlapping => \A j \in (i + 1)..Len(nodes) : nodes[j].layer # nodes[i].layer
  /\ task' = i /\ done' = 0 /\ pc' = "transpose"
  /\ UNCHANGED <<bufferVars, life, fw_cache_, nodes, historyVars>>

Stage(from, to) ==
  /\ pc = from /\ pc' = to
  /\ UNCHANGED <<size_, generation, hist_requests_, pointer, life, fw_cache_, nodes, task>>

get_transpose ==
  /\ Stage("transpose", "backward")
  /\ Write(Transposed \union {"s_scratch"})
  /\ UNCHANGED <<done, historyVars>>

\* Mutated: the call of get_transpose that backward_many has commented out, made.
GatherTransposing ==
  /\ Stage("backward", "middle")
  /\ remaining > 0 /\ remaining >= GroupMin
  /\ memory' = Overwrite(Overwrite(memory, {"m_output_grad", "m_index"}), Transposed)
  /\ UNCHANGED <<done, historyVars>>

\* backward_many: the output gradients are gathered per expert, with whose they are
Gather ==
  /\ Stage("backward", "middle")
  /\ remaining > 0 /\ remaining >= GroupMin
  /\ Write({"m_output_grad", "m_index"})
  /\ UNCHANGED <<done, historyVars>>

\* gradients of the intermediate activations
Middle ==
  /\ Stage("middle", "input")
  /\ Write({"m_mid_grad"})
  /\ Read({"down_t", "m_output_grad", "m_index"})
  /\ ReadCache(group_len)
  /\ UNCHANGED done

\* gradients of the inputs, per expert
Input ==
  /\ Stage("input", "reduce")
  /\ Write({"m_input_grad"})
  /\ Read({"gate_t", "up_t", "m_mid_grad"})
  /\ UNCHANGED <<done, own>>

\* their sum per token; the loop goes on with the next group
Reduce ==
  /\ Stage("reduce", "backward")
  /\ Write({"m_grad_input"})
  /\ Read({"m_input_grad"})
  /\ done' = done + group_len
  /\ UNCHANGED own

Finish ==
  /\ task' = None /\ done' = 0 /\ pc' = "idle"
  /\ UNCHANGED <<size_, generation, hist_requests_, pointer, life, fw_cache_, nodes>>

\* the rest, one token after the other
backward_one ==
  /\ pc = "backward" /\ remaining > 0 /\ remaining < GroupMin
  /\ Write({"s_scratch"})
  /\ Read(Transposed)
  /\ ReadCache(remaining)
  /\ Finish

BackwardReturn ==
  /\ pc = "backward" /\ remaining = 0
  /\ Finish
  /\ UNCHANGED <<memory, historyVars>>

Worker ==
  \/ forward_many \/ forward_one
  \/ get_transpose \/ Gather \/ Middle \/ Input \/ Reduce \/ backward_one \/ BackwardReturn

\* Every layer is destroyed.
Over == (\A l \in Layers : life[l] = "gone") /\ UNCHANGED vars

Construct(l) == ConstructS(l) \/ ConstructM(l)

Next ==
  \/ \E l \in Layers :
       \/ Construct(l) \/ Destruct(l) \/ warm_up(l)
       \/ \E qlen \in QLens : SubmitForward(l, qlen)
  \/ \E i \in DOMAIN nodes : SubmitBackward(i)
  \/ Worker \/ Over

Spec == Init /\ [][Next]_vars

-----------------------------------------------------------------------------
(* Properties *)

TypeOK ==
  /\ size_ \in Nat /\ generation \in Nat /\ DOMAIN memory = 0..(size_ - 1)
  /\ hist_requests_ \subseteq Layers \X {"s", "m"}
  /\ pointer \in [Layers -> [{"s", "m"} -> 0..generation \union {None}]]
  /\ life \in [Layers -> {"absent", "half", "ready", "gone"}]
  /\ fw_cache_ \in [Layers -> Seq(DOMAIN nodes \union {None})]
  /\ nodes \in Seq([layer : Layers, qlen : QLens]) /\ Len(nodes) <= MaxForwards
  /\ task \in DOMAIN nodes \union {None} /\ done \in Nat
  /\ pc \in {"idle", "forward", "transpose", "backward", "middle", "input", "reduce"}
  /\ spoiled \subseteq Layers \X (Transposed \union Gradients) /\ own \in BOOLEAN

(* A backward computes with what it was meant to: every transposed weight  *)
(* and every intermediate gradient a stage reads is still the one that was *)
(* written, although the two groups of fields share their memory.          *)
GradientsSound == spoiled = {}

(* Whatever the sizes of the layers, all that a backward can find          *)
(* overwritten is a transposed matrix that reaches into the fields of      *)
(* backward_many: a stage reads the gathered gradients, the indices and    *)
(* the gradients of the stages before as they were left for the same       *)
(* tokens, although transposition, the groups of tokens, the rest done     *)
(* token by token and the other layers use the same memory.                *)
OnlyOverlapSpoils == \A r \in spoiled : r[2] \in Transposed /\ Overlapped(r[1], r[2])

(* A backward differentiates its own forward: the cached activations it    *)
(* reads, token by token, are those that forward left.                     *)
ActivationsOwn == own

(* Growing the buffer for a later layer leaves no earlier one with a       *)
(* pointer into the freed allocation, and never writes a pointer of a      *)
(* layer that was destroyed.                                               *)
PointersCurrent ==
  /\ \A r \in hist_requests_ : life[r[1]] \in {"half", "ready"} /\ pointer[r[1]][r[2]] = generation
  /\ \A l \in Layers : life[l] = "ready" => {<<l, "s">>, <<l, "m">>} \subseteq hist_requests_

=============================================================================
