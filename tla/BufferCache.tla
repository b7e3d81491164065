----------------------------- MODULE BufferCache -----------------------------
(***************************************************************************)
(* KExpertsCPUBuffer of kt-kernel/python/experts_base.py: the class-wide   *)
(* cache of pinned buffers, shared by the wrappers of all layers and keyed *)
(* by batch size.  Sizes in capture_bs keep their buffers for good; any    *)
(* other size only has the one temporary buffer of the last allocation.    *)
(*                                                                         *)
(* submit_forward and sync_forward look the buffer up independently, and a *)
(* CUDA graph that was captured for a size goes on using the addresses it  *)
(* saw; both rely on what the cache does in between.  The code asks nothing*)
(* of its callers: they submit, synchronise, set the sizes and clear the   *)
(* cache in any order.  What they did is recorded in history variables     *)
(* (used, registered and the marks of the forwards and graphs), which no   *)
(* action reads; the properties say what the cache promises after it.      *)
(***************************************************************************)
EXTENDS Naturals, FiniteSets

CONSTANTS
  BatchSizes,     \* the batch sizes of forward calls
  Callers,        \* those who have a forward outstanding: layers' wrappers, or micro-batches
  MaxBuffers,     \* bound: the number of allocations
  NoBuffer

ASSUME SizesAssumption == BatchSizes \subseteq Nat \ {0}
ASSUME BoundAssumption == MaxBuffers \in Nat
ASSUME NoBufferAssumption == NoBuffer \notin 1..MaxBuffers

VARIABLES
  capture_bs,        \* KExpertsCPUBuffer.capture_bs
  capture_buffers,   \* KExpertsCPUBuffer.capture_buffers: size -> buffer or NoBuffer
  temp_bs,           \* KExpertsCPUBuffer.temp_bs
  temp_buffer,       \* KExpertsCPUBuffer.temp_buffer
  allocated,         \* the number of buffers allocated so far; a buffer is its number
  inflight,          \* the forwards submitted and not yet synchronised
  graphs,            \* the CUDA graphs captured, each with the buffer whose addresses it holds
  used,              \* history: the sizes called with since the cache was last cleared
  registered         \* history: those that were in capture_bs at the first of these calls

cacheVars == <<capture_buffers, temp_bs, temp_buffer, allocated>>
historyVars == <<used, registered>>
bufferVars == <<capture_bs, cacheVars, inflight, graphs, historyVars>>

\* A forward, with two marks: the cache was cleared since it was submitted; a batch of another
\* size, not a registered one already in use, was passed since.
Forwards ==
  [caller : Callers, bs : BatchSizes, buf : 1..MaxBuffers, cleared : BOOLEAN, passed : BOOLEAN]

Graphs == [bs : BatchSizes, buf : 1..MaxBuffers, cleared : BOOLEAN]

CacheInit ==
  /\ capture_bs = {}
  /\ capture_buffers = [b \in BatchSizes |-> NoBuffer]
  /\ temp_bs = 0
  /\ temp_buffer = NoBuffer
  /\ allocated = 0
  /\ inflight = {}
  /\ graphs = {}
  /\ used = {} /\ registered = {}

-----------------------------------------------------------------------------
(* get_buffer: what it returns, and what it does to the cache *)

Captured(b) == capture_buffers[b] # NoBuffer
Hit(b)      == Captured(b) \/ b = temp_bs

Returned(b) ==
  IF Captured(b) THEN capture_buffers[b] ELSE IF b = temp_bs THEN temp_buffer ELSE allocated + 1

\* Mutated: buffers of captured sizes are not kept.
GetBufferForgets(b) ==
  \/ /\ Hit(b)
     /\ UNCHANGED cacheVars
  \/ /\ ~Hit(b)
     /\ allocated < MaxBuffers
     /\ allocated' = allocated + 1
     /\ temp_bs' = b
     /\ temp_buffer' = allocated + 1
     /\ UNCHANGED capture_buffers

\* A new buffer always becomes the temporary one.
GetBuffer(b) ==
  \/ /\ Hit(b)
     /\ UNCHANGED cacheVars
  \/ /\ ~Hit(b)
     /\ allocated < MaxBuffers
     /\ allocated' = allocated + 1
     /\ capture_buffers' =
          IF b \in capture_bs THEN [capture_buffers EXCEPT ![b] = allocated + 1] ELSE capture_buffers
     /\ temp_bs' = b
     /\ temp_buffer' = allocated + 1

-----------------------------------------------------------------------------
(* The calls.  None has a condition. *)

\* What a call with size b leaves in the histories, and the marks it puts on outstanding forwards.
Called(b) ==
  /\ used' = used \union {b}
  /\ registered' = IF b \in capture_bs \ used THEN registered \union {b} ELSE registered

Marked(b) ==
  {IF b # e.bs /\ b \notin registered THEN [e EXCEPT !.passed = TRUE] ELSE e : e \in inflight}

\* set_capture_batch_sizes(S)
SetCaptureBatchSizes(S) ==
  /\ capture_bs' = S
  /\ UNCHANGED <<cacheVars, inflight, graphs, historyVars>>

\* Mutated: the temporary buffer, which may be a captured one too, stays.
ClearKeepsTemporary ==
  /\ capture_buffers' = [b \in BatchSizes |-> NoBuffer]
  /\ inflight' = {[e EXCEPT !.cleared = TRUE] : e \in inflight}
  /\ graphs' = {[g EXCEPT !.cleared = TRUE] : g \in graphs}
  /\ used' = {} /\ registered' = {}
  /\ UNCHANGED <<capture_bs, temp_bs, temp_buffer, allocated>>

\* clear_buffer_cache(): forwards and graphs are not asked about; they go on with their addresses.
ClearBufferCache ==
  /\ capture_buffers' = [b \in BatchSizes |-> NoBuffer]
  /\ temp_bs' = 0
  /\ temp_buffer' = NoBuffer
  /\ inflight' = {[e EXCEPT !.cleared = TRUE] : e \in inflight}
  /\ graphs' = {[g EXCEPT !.cleared = TRUE] : g \in graphs}
  /\ used' = {} /\ registered' = {}
  /\ UNCHANGED <<capture_bs, allocated>>

\* submit_forward with a batch of size b, for a caller without an outstanding forward: more of
\* them at a time are more callers
submit_forward(c, b) ==
  /\ \A e \in inflight : e.caller # c
  /\ GetBuffer(b) /\ Called(b)
  /\ inflight' = Marked(b) \union
       {[caller |-> c, bs |-> b, buf |-> Returned(b), cleared |-> FALSE, passed |-> FALSE]}
  /\ UNCHANGED <<capture_bs, graphs>>

\* sync_forward of the same batch; it looks the buffer up again
sync_forward(e) ==
  /\ GetBuffer(e.bs) /\ Called(e.bs)
  /\ inflight' = Marked(e.bs) \ {e}
  /\ UNCHANGED <<capture_bs, graphs>>

\* forward (both calls in one) of a batch of size b, while a CUDA graph is captured
CaptureGraph(b) ==
  /\ GetBuffer(b) /\ Called(b)
  /\ inflight' = Marked(b)
  /\ graphs' = graphs \union {[bs |-> b, buf |-> Returned(b), cleared |-> FALSE]}
  /\ UNCHANGED capture_bs

CacheNext ==
  \/ \E S \in SUBSET BatchSizes : SetCaptureBatchSizes(S)
  \/ ClearBufferCache
  \/ \E b \in BatchSizes : CaptureGraph(b) \/ \E c \in Callers : submit_forward(c, b)
  \/ \E e \in inflight : sync_forward(e)

CacheSpec == CacheInit /\ [][CacheNext]_bufferVars

-----------------------------------------------------------------------------
(* Properties *)

CacheTypeOK ==
  /\ capture_bs \in SUBSET BatchSizes
  /\ capture_buffers \in [BatchSizes -> 1..MaxBuffers \union {NoBuffer}]
  /\ temp_bs \in BatchSizes \union {0}
  /\ temp_buffer \in 1..MaxBuffers \union {NoBuffer}
  /\ allocated \in 0..MaxBuffers
  /\ inflight \in SUBSET Forwards
  /\ graphs \in SUBSET Graphs
  /\ used \in SUBSET BatchSizes /\ registered \in SUBSET used

(* sync_forward finds the very buffer into which the tasks of its          *)
(* submit_forward write, unless the cache was cleared in between, in these *)
(* cases: the size was registered (in capture_bs when it was first called  *)
(* with), whatever other calls and changes of capture_bs came in between;  *)
(* or it was not, and every other size called with in between was a        *)
(* registered one already in use.                                          *)
SyncFindsItsBuffer ==
  \A e \in inflight :
    ~e.cleared /\ (e.bs \in registered \/ ~e.passed) => Hit(e.bs) /\ Returned(e.bs) = e.buf

(* The buffer a CUDA graph was captured with stays referenced until the    *)
(* cache is cleared if its size was registered, so that a replay of the    *)
(* graph does not use freed pinned memory; and after clear_buffer_cache no *)
(* forward gets a buffer of a graph captured before.                       *)
GraphBuffersAlive ==
  \A g \in graphs :
    /\ ~g.cleared /\ g.bs \in registered => capture_buffers[g.bs] = g.buf
    /\ g.cleared => \A b \in BatchSizes : Hit(b) => Returned(b) # g.buf
=============================================================================
