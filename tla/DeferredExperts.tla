--------------------------- MODULE DeferredExperts ---------------------------
(***************************************************************************)
(* The expert-deferral pipeline of kt-kernel/python/experts_base.py: the   *)
(* Python thread walks over the MoE layers of one forward pass after the   *)
(* other and calls submit_forward and sync_forward of each layer's         *)
(* wrapper.  Both only append operations to a CUDA stream, which executes  *)
(* them in order: copies between GPU and pinned CPU buffers, and host      *)
(* functions that enqueue an expert task on the CPU task queue or spin     *)
(* until at most `allow' tasks are pending.                                *)
(*                                                                         *)
(* Every layer shares the same BufferDepth buffer slots (layer_idx modulo  *)
(* the depth).  A deferring layer submits a second task that reads the     *)
(* layer's own slot while the next layer already works, and leaves its     *)
(* result in the next slot, where the next layer's task adds its own.      *)
(*                                                                         *)
(* Data is abstracted to its origin: a slot holds the <<pass, layer>>      *)
(* whose tensors were copied in; an output slot holds the set of           *)
(* contributions that were summed into it.                                 *)
(***************************************************************************)
EXTENDS Naturals, Sequences, FiniteSets

CONSTANTS
  Layers,         \* layer_idx of the wrappers, in the order of their calls
  DeferChoices,   \* the sets of layers with max_deferred_experts_per_token > 0
  BufferDepth,    \* KExpertsCPUBuffer.buffer_depth
  Passes,         \* bound: the number of forward passes
  MaxAhead,       \* bound: the operations Python may have ahead of the stream
  None

\* A model calls its layers in the order of their indices, and a layer may defer
\* only to the layer whose index follows its own: submit_forward looks there for
\* what is pending.
ASSUME LayersAssumption ==
  /\ Layers \in Seq(Nat) /\ Layers # <<>>
  /\ \A i, j \in 1..Len(Layers) : i < j => Layers[i] < Layers[j]
ASSUME DeferAssumption ==
  \A D \in DeferChoices : \A l \in D :
    \E i \in 1..(Len(Layers) - 1) : l = Layers[i] /\ Layers[i + 1] = l + 1
ASSUME DepthAssumption  == BufferDepth \in Nat \ {0, 1}
ASSUME BoundsAssumption == Passes \in Nat \ {0} /\ MaxAhead \in Nat \ {0}

LayerIds == {Layers[i] : i \in 1..Len(Layers)}
Slots    == 0..(BufferDepth - 1)
Tags     == (1..Passes) \X LayerIds
CpuTasks == [tag : Tags, kind : {"imm", "def"}, slot : Slots, out : Slots, inc : BOOLEAN]

ASSUME NoneAssumption == None \notin CpuTasks \union {0, 1}

VARIABLES
  deferring,   \* the layers that defer experts
  pass, pos, stage,  \* Python: pass, index into Layers, and which call is next
  pendingDeferred,   \* BaseMoEWrapper._layer_has_pending_deferred
  stream,      \* the CUDA stream: operations not yet executed
  input,       \* per slot: origin of input_tensor_cpu and weights_cpu
  ids,         \* per kind of task and slot: origin of the expert ids
  output,      \* per slot: contributions in output_cpu
  delivered,   \* history: per origin, the contributions copied to output_gpu
  announced, queue, active, finished, waiting, phase   \* the task queue

Exec == INSTANCE FifoExecutor WITH
          Clients <- {"stream"}, Allowances <- {0, 1}, Tasks <- CpuTasks

hostVars == <<pass, pos, stage, pendingDeferred>>
dataVars == <<input, ids, output, delivered>>
execVars == <<announced, queue, active, finished, waiting, phase>>
vars == <<deferring, hostVars, stream, dataVars, execVars>>

Init ==
  /\ deferring \in DeferChoices
  /\ pass = 1 /\ pos = 1 /\ stage = "submit"
  /\ pendingDeferred = [l \in LayerIds |-> FALSE]
  /\ stream = <<>>
  /\ input = [s \in Slots |-> None]
  /\ ids = [k \in {"imm", "def"} |-> [s \in Slots |-> None]]
  /\ output = [s \in Slots |-> {}]
  /\ delivered = [t \in Tags |-> {}]
  /\ Exec!Init

-----------------------------------------------------------------------------
(* Python *)

layer_idx == Layers[pos]

\* Mutated: one slot for every layer.
single_slot == 0

current_slot == layer_idx % BufferDepth

\* Mutated: the deferred task writes to its own layer's output.
same_slot == current_slot

next_slot == (current_slot + 1) % BufferDepth

Tag == <<pass, layer_idx>>

\* Mutated: a layer never adds to what is in its output slot.
NeverIncremental == FALSE

\* dict.get(layer_idx - 1, False)
Incremental == \E l \in LayerIds : l + 1 = layer_idx /\ pendingDeferred[l]

ImmediateTask ==
  [tag |-> Tag, kind |-> "imm", slot |-> current_slot, out |-> current_slot, inc |-> Incremental]
DeferredTask ==
  [tag |-> Tag, kind |-> "def", slot |-> current_slot, out |-> next_slot, inc |-> FALSE]

SubmitOps ==
  <<[op |-> "copy_input", tag |-> Tag, slot |-> current_slot],
    [op |-> "submit", task |-> ImmediateTask]>>
DeferOps ==
  <<[op |-> "copy_deferred", tag |-> Tag, slot |-> current_slot],
    [op |-> "submit", task |-> DeferredTask]>>

\* submit_forward of the wrapper of layer_idx
SubmitForward ==
  /\ pass <= Passes /\ stage = "submit" /\ Len(stream) < MaxAhead
  /\ stream' = stream \o SubmitOps \o (IF layer_idx \in deferring THEN DeferOps ELSE <<>>)
  /\ pendingDeferred' = [pendingDeferred EXCEPT ![layer_idx] = layer_idx \in deferring]
  /\ stage' = "sync"
  /\ UNCHANGED <<deferring, pass, pos, dataVars, execVars>>

\* Mutated: the model never starts over.
SyncForwardNoWrap ==
  /\ pass <= Passes /\ stage = "sync" /\ Len(stream) < MaxAhead
  /\ stream' = stream \o
       <<[op |-> "sync", allow |-> IF pendingDeferred[layer_idx] THEN 1 ELSE 0],
         [op |-> "copy_output", tag |-> Tag, slot |-> current_slot]>>
  /\ stage' = "submit"
  /\ pos' = pos + 1
  /\ pass' = IF pos = Len(Layers) THEN pass + 1 ELSE pass
  /\ UNCHANGED <<deferring, pendingDeferred, dataVars, execVars>>

\* sync_forward of the same wrapper; then the model goes to its next layer
SyncForward ==
  /\ pass <= Passes /\ stage = "sync" /\ Len(stream) < MaxAhead
  /\ stream' = stream \o
       <<[op |-> "sync", allow |-> IF pendingDeferred[layer_idx] THEN 1 ELSE 0],
         [op |-> "copy_output", tag |-> Tag, slot |-> current_slot]>>
  /\ stage' = "submit"
  /\ pos' = IF pos = Len(Layers) THEN 1 ELSE pos + 1
  /\ pass' = IF pos = Len(Layers) THEN pass + 1 ELSE pass
  /\ UNCHANGED <<deferring, pendingDeferred, dataVars, execVars>>

-----------------------------------------------------------------------------
(* The CUDA stream executes the operation at its head *)

At(op) == stream # <<>> /\ Head(stream).op = op
Pop    == stream' = Tail(stream)

\* input_tensor_cpu, weights_cpu and immediate_experts_ids_cpu .copy_(...)
CopyInput ==
  /\ At("copy_input") /\ Pop
  /\ input' = [input EXCEPT ![Head(stream).slot] = Head(stream).tag]
  /\ ids' = [ids EXCEPT !["imm"][Head(stream).slot] = Head(stream).tag]
  /\ UNCHANGED <<deferring, hostVars, output, delivered, execVars>>

\* deferred_experts_ids_cpu.copy_(...)
CopyDeferred ==
  /\ At("copy_deferred") /\ Pop
  /\ ids' = [ids EXCEPT !["def"][Head(stream).slot] = Head(stream).tag]
  /\ UNCHANGED <<deferring, hostVars, input, output, delivered, execVars>>

\* submit_with_cuda_stream: the host function calls enqueue, in its two steps
HostEnqueue ==
  /\ At("submit")
  /\ Exec!Announce("stream", Head(stream).task)
  /\ UNCHANGED <<deferring, hostVars, stream, dataVars>>
HostEnqueued ==
  /\ At("submit") /\ Pop
  /\ Exec!Commit("stream")
  /\ UNCHANGED <<deferring, hostVars, dataVars>>

\* sync_with_cuda_stream: the host function blocks the stream
HostSync ==
  /\ At("sync")
  /\ Exec!Wait("stream", Head(stream).allow)
  /\ UNCHANGED <<deferring, hostVars, stream, dataVars>>
\* Mutated: `>=' for `>' in the loop condition, no pending count is low enough.
HostSyncedStrict ==
  /\ At("sync") /\ Pop
  /\ Cardinality(Exec!Unfinished) < Head(stream).allow
  /\ Exec!GoOn("stream")
  /\ UNCHANGED <<deferring, hostVars, dataVars>>

HostSynced ==
  /\ At("sync") /\ Pop
  /\ Exec!GoOn("stream")
  /\ UNCHANGED <<deferring, hostVars, dataVars>>

\* The spin loop of sync, as long as it has to.
HostSpin ==
  /\ At("sync") /\ waiting["stream"] # None
  /\ Cardinality(Exec!Unfinished) > Head(stream).allow
  /\ UNCHANGED vars

\* output_gpu.copy_(output_cpu)
CopyOutput ==
  /\ At("copy_output") /\ Pop
  /\ delivered' = [delivered EXCEPT ![Head(stream).tag] = output[Head(stream).slot]]
  /\ UNCHANGED <<deferring, hostVars, input, ids, output, execVars>>

Stream ==
  CopyInput \/ CopyDeferred \/ HostEnqueue \/ HostEnqueued \/ HostSync \/ HostSynced \/ CopyOutput

-----------------------------------------------------------------------------
(* The CPU worker runs TP_MOE::forward *)

\* What a task computes: its layer's experts, from whatever its slot holds.
Contribution(t) ==
  [kind |-> t.kind, layer |-> t.tag[2], input |-> input[t.slot], ids |-> ids[t.kind][t.slot]]

TaskStart ==
  /\ Exec!Start
  /\ UNCHANGED <<deferring, hostVars, stream, dataVars>>

\* merge_results(qlen, output, incremental)
TaskFinish ==
  /\ Exec!Finish
  /\ output' = [output EXCEPT ![active.out] =
                  (IF active.inc THEN @ ELSE {}) \union {Contribution(active)}]
  /\ UNCHANGED <<deferring, hostVars, stream, input, ids, delivered>>

\* Every pass is issued, executed and finished.
AtRest == pass > Passes /\ stream = <<>> /\ Exec!Unfinished = {}
Rest   == AtRest /\ UNCHANGED vars

Next ==
  \/ SubmitForward \/ SyncForward
  \/ Stream \/ HostSpin
  \/ TaskStart \/ TaskFinish
  \/ Rest

Spec == Init /\ [][Next]_vars

(* The Python thread, the stream and the worker thread all go on. *)
Fairness ==
  /\ WF_vars(SubmitForward \/ SyncForward)
  /\ WF_vars(Stream)
  /\ WF_vars(TaskStart \/ TaskFinish)

FairSpec == Spec /\ Fairness

-----------------------------------------------------------------------------
(* Properties *)

StreamOps ==
  [op : {"copy_input", "copy_deferred", "copy_output"}, tag : Tags, slot : Slots]
    \union [op : {"submit"}, task : CpuTasks]
    \union [op : {"sync"}, allow : {0, 1}]
Contributions ==
  [kind : {"imm", "def"}, layer : LayerIds, input : Tags \union {None}, ids : Tags \union {None}]

TypeOK ==
  /\ deferring \in SUBSET LayerIds
  /\ pass \in 1..(Passes + 1) /\ pos \in 1..Len(Layers) /\ stage \in {"submit", "sync"}
  /\ pendingDeferred \in [LayerIds -> BOOLEAN]
  /\ stream \in Seq(StreamOps)
  /\ input \in [Slots -> Tags \union {None}]
  /\ ids \in [{"imm", "def"} -> [Slots -> Tags \union {None}]]
  /\ output \in [Slots -> SUBSET Contributions] /\ delivered \in [Tags -> SUBSET Contributions]

(* A task that is queued or running still finds in its slot the tensors    *)
(* its layer copied there, whenever the worker gets to read them: no later *)
(* layer or pass overwrites a slot that a deferred task has yet to read.   *)
InputsIntact ==
  \A t \in Exec!Queued \union Exec!Running :
    input[t.slot] = t.tag /\ ids[t.kind][t.slot] = t.tag

(* While the stream copies an output slot to the GPU, no task that writes  *)
(* the slot is queued or running.                                          *)
OutputSettled ==
  At("copy_output") =>
    \A t \in Exec!Queued \union Exec!Running : t.out # Head(stream).slot

\* The sum the pipeline owes the layer at a position of Layers: its own
\* immediate experts and what the layer before it deferred, of the same pass.
Owed(k, i) ==
  LET part(kind, l) == [kind |-> kind, layer |-> l, input |-> <<k, l>>, ids |-> <<k, l>>]
  IN  {part("imm", Layers[i])} \union
        IF i > 1 /\ Layers[i - 1] \in deferring THEN {part("def", Layers[i - 1])} ELSE {}

(* What a layer hands to the GPU is exactly its own immediate experts plus *)
(* the previous layer's deferred ones: nothing stale, nothing lost; and at *)
(* the end of the last pass every layer has handed its output over.        *)
DeliveredExact ==
  \A k \in 1..Passes, i \in 1..Len(Layers) :
    LET d == delivered[<<k, Layers[i]>>] IN
    d = Owed(k, i) \/ (d = {} /\ ~AtRest)

(* All passes come to their end: the waits of the stream and of the worker *)
(* never block each other.                                                 *)
PassesComplete == <>AtRest
=============================================================================
