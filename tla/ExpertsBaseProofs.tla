------------------------- MODULE ExpertsBaseProofs -------------------------
(***************************************************************************)
(* Proofs about the two modules of kt-kernel/python/experts_base.py.       *)
(*                                                                         *)
(* DeferredExperts: for any sequence of layers in the order                *)
(* of their indices, any choice of deferring layers (a layer defers to the *)
(* one whose index follows), any buffer depth of two or more and any       *)
(* number of passes.                                                       *)
(*                                                                         *)
(* The argument: what the stream still holds, followed by what Python does *)
(* next, is a piece of one fixed program (Path).  The place of the head of *)
(* the stream in that program determines which tasks can be outstanding,   *)
(* and in which order: at most the previous layer's deferred task, the     *)
(* layer's immediate task and its deferred task (Work).  What every slot   *)
(* must hold follows from the place and from which of the three are left.  *)
(*                                                                         *)
(* BufferCache, in the last section: for any set of batch sizes, any       *)
(* number of callers and allocations, and calls in any order.              *)
(***************************************************************************)
EXTENDS DeferredExperts, BufferCache, FiniteSetTheorems, SequenceTheorems, TLAPS

Slot(i)       == Layers[i] % BufferDepth
Defers(i)     == Layers[i] \in deferring
PrevDefers(i) == i > 1 /\ Layers[i - 1] \in deferring

\* The places of the program: an operation of a layer in a pass.
Ops    == {"copy_input", "imm", "copy_deferred", "def", "sync", "copy_output"}
Places == [k : Nat \ {0}, i : 1..Len(Layers), o : Ops]

\* Python's own place: the call it makes next starts there.
Here == [k |-> pass, i |-> pos, o |-> IF stage = "submit" THEN "copy_input" ELSE "sync"]

\* The place that comes after another.
Follows(x, y) ==
  IF x.o = "copy_output"
    THEN /\ y.o = "copy_input"
         /\ y.k = IF x.i = Len(Layers) THEN x.k + 1 ELSE x.k
         /\ y.i = IF x.i = Len(Layers) THEN 1 ELSE x.i + 1
    ELSE /\ y.k = x.k /\ y.i = x.i
         /\ \/ x.o = "copy_input" /\ y.o = "imm"
            \/ x.o = "imm" /\ y.o = IF Defers(x.i) THEN "copy_deferred" ELSE "sync"
            \/ x.o = "copy_deferred" /\ y.o = "def"
            \/ x.o = "def" /\ y.o = "sync"
            \/ x.o = "sync" /\ y.o = "copy_output"

\* The tasks of a layer in a pass.
TagOf(k, i) == <<k, Layers[i]>>
Imm(k, i) ==
  [tag |-> TagOf(k, i), kind |-> "imm", slot |-> Slot(i), out |-> Slot(i), inc |-> PrevDefers(i)]
Def(k, i) ==
  [tag |-> TagOf(k, i), kind |-> "def", slot |-> Slot(i), out |-> (Slot(i) + 1) % BufferDepth,
   inc |-> FALSE]

Allow(i) == IF Defers(i) THEN 1 ELSE 0

\* The operation of the stream at a place.
Carries(e, x) ==
  \/ x.o = "copy_input" /\ e = [op |-> "copy_input", tag |-> TagOf(x.k, x.i), slot |-> Slot(x.i)]
  \/ x.o = "imm" /\ e = [op |-> "submit", task |-> Imm(x.k, x.i)]
  \/ /\ x.o = "copy_deferred"
     /\ e = [op |-> "copy_deferred", tag |-> TagOf(x.k, x.i), slot |-> Slot(x.i)]
  \/ x.o = "def" /\ e = [op |-> "submit", task |-> Def(x.k, x.i)]
  \/ x.o = "sync" /\ e = [op |-> "sync", allow |-> Allow(x.i)]
  \/ x.o = "copy_output" /\ e = [op |-> "copy_output", tag |-> TagOf(x.k, x.i), slot |-> Slot(x.i)]

\* w is a piece of the program that carries the operations s and ends before y.
Carried(w, s, y) ==
  /\ w \in [Nat \ {0} -> Places]
  /\ \A j \in 1..Len(s) :
       /\ w[j].k <= Passes
       /\ Carries(s[j], w[j])
       /\ Follows(w[j], w[j + 1])
  /\ w[Len(s) + 1] = y

\* w is the program from the head of the stream to Python's place.
Path(w) == Carried(w, stream, Here)

\* Python has set what is pending for the layers it submitted.
HostInv ==
  /\ \A j \in 1..Len(Layers) :
       (pass > 1 \/ j < pos \/ (j = pos /\ stage = "sync")) =>
         (pendingDeferred[Layers[j]] <=> Layers[j] \in deferring)
  /\ pass > Passes => pos = 1 /\ stage = "submit"

\* What is outstanding at a layer: the previous layer's deferred task (p), the
\* immediate task (m) and the deferred task (d), in this order.
Work(k, i, p, m, d) ==
  IF p THEN IF m THEN IF d THEN <<Def(k, i - 1), Imm(k, i), Def(k, i)>> ELSE <<Def(k, i - 1), Imm(k, i)>>
                 ELSE <<Def(k, i - 1)>>
       ELSE IF m THEN IF d THEN <<Imm(k, i), Def(k, i)>> ELSE <<Imm(k, i)>>
                 ELSE IF d THEN <<Def(k, i)>> ELSE <<>>

\* The executor has just these tasks before it, the first of which may run.
WorkIs(W) ==
  IF active = None THEN queue = W ELSE W # <<>> /\ active = Head(W) /\ queue = Tail(W)

\* Which of them may be outstanding at a place.
Allowed(x, p, m, d) ==
  /\ p => PrevDefers(x.i)
  /\ d => Defers(x.i)
  /\ x.o \in {"copy_input", "imm"} => ~m /\ ~d
  /\ x.o \in {"copy_deferred", "def"} => ~d /\ (p => m)
  /\ x.o \in {"copy_deferred", "def"} => Defers(x.i)
  /\ x.o = "sync" => (p => m) /\ (m /\ Defers(x.i) => d)
  /\ x.o = "copy_output" => ~p /\ ~m

\* The stream's host function is inside a call only at a place that makes one.
ClientInv(x) ==
  /\ announced = [c \in {"stream"} |-> announced["stream"]]
  /\ waiting = [c \in {"stream"} |-> waiting["stream"]]
  /\ \/ announced["stream"] = None
     \/ x.o = "imm" /\ announced["stream"] = Imm(x.k, x.i)
     \/ x.o = "def" /\ announced["stream"] = Def(x.k, x.i)
  /\ waiting["stream"] = None \/ (x.o = "sync" /\ waiting["stream"] = Allow(x.i))

\* What the input slots hold for the tasks that are outstanding or to come.
InputInv(x, p) ==
  /\ p => input[Slot(x.i - 1)] = TagOf(x.k, x.i - 1) /\ ids["def"][Slot(x.i - 1)] = TagOf(x.k, x.i - 1)
  /\ x.o # "copy_input" =>
       input[Slot(x.i)] = TagOf(x.k, x.i) /\ ids["imm"][Slot(x.i)] = TagOf(x.k, x.i)
  /\ x.o \in {"def", "sync", "copy_output"} /\ Defers(x.i) => ids["def"][Slot(x.i)] = TagOf(x.k, x.i)

Part(kind, k, i) == [kind |-> kind, layer |-> Layers[i], input |-> TagOf(k, i), ids |-> TagOf(k, i)]

\* What the output slots hold of the tasks that are finished.
OutputInv(x, p, m, d) ==
  /\ PrevDefers(x.i) /\ ~p /\ (m \/ x.o \in {"copy_input", "imm"}) =>
       output[Slot(x.i)] = {Part("def", x.k, x.i - 1)}
  /\ ~m /\ x.o \notin {"copy_input", "imm"} => output[Slot(x.i)] = Owed(x.k, x.i)
  /\ x.o \in {"sync", "copy_output"} /\ Defers(x.i) /\ ~d =>
       output[Slot(x.i + 1)] = {Part("def", x.k, x.i)}

\* Every layer before the place has its output, no later one has any.
DeliveredInv(x) ==
  \A k \in 1..Passes, i \in 1..Len(Layers) :
    delivered[TagOf(k, i)] =
      IF k < x.k \/ (k = x.k /\ i < x.i) THEN Owed(k, i) ELSE {}

Holds(x, p, m, d) ==
  /\ Allowed(x, p, m, d) /\ WorkIs(Work(x.k, x.i, p, m, d))
  /\ ClientInv(x) /\ InputInv(x, p) /\ OutputInv(x, p, m, d) /\ DeliveredInv(x)

IInv ==
  /\ TypeOK /\ HostInv /\ deferring \in DeferChoices
  /\ \E w : Path(w) /\ \E p, m, d \in BOOLEAN : Holds(w[1], p, m, d)

-----------------------------------------------------------------------------
(* Slots *)

\* The remainder of a sum is unique.
LEMMA Remainder ==
  ASSUME NEW b \in Nat, NEW q \in Nat, NEW c \in Nat, NEW r \in 0..(b - 1), NEW s \in 0..(b - 1),
         b >= 2, b * q + r = b * c + s
  PROVE  r = s
<1>1. b * (q - c) = s - r
  OBVIOUS
<1>2. CASE q = c
  BY <1>2
<1>3. CASE q > c
  <2>1. b * (q - c) >= b
    BY <1>3
  <2> QED
    BY <1>1, <2>1
<1>4. CASE q < c
  <2>1. b * (c - q) >= b
    BY <1>4
  <2>2. b * (c - q) = r - s
    OBVIOUS
  <2> QED
    BY <2>1, <2>2
<1> QED
  BY <1>2, <1>3, <1>4

\* The slot of the next index is the next slot, and another one.
LEMMA NextSlot ==
  ASSUME NEW a \in Nat, NEW b \in Nat, b >= 2
  PROVE  a % b \in 0..(b - 1) /\ ((a % b) + 1) % b = (a + 1) % b /\ (a + 1) % b # a % b
<1> DEFINE q == a \div b
           r == a % b
           c == (a + 1) \div b
           s == (a + 1) % b
<1>1. a = b * q + r /\ q \in Nat /\ r \in 0..(b - 1)
  OBVIOUS
<1>2. a + 1 = b * c + s /\ c \in Nat /\ s \in 0..(b - 1)
  OBVIOUS
<1> HIDE DEF q, r, c, s
<1>3. CASE r < b - 1
  <2>1. b * q + (r + 1) = b * c + s /\ r + 1 \in 0..(b - 1)
    BY <1>1, <1>2, <1>3
  <2>2. s = r + 1
    BY <1>1, <1>2, <2>1, Remainder
  <2>3. (r + 1) % b = r + 1
    BY <2>1
  <2> QED
    BY <1>1, <2>2, <2>3 DEF r, s
<1>4. CASE r = b - 1
  <2>1. b * (q + 1) + 0 = b * c + s /\ q + 1 \in Nat /\ 0 \in 0..(b - 1)
    BY <1>1, <1>2, <1>4
  <2>2. s = 0
    BY <1>2, <2>1, Remainder
  <2>3. (r + 1) % b = 0
    BY <1>4
  <2> QED
    BY <1>1, <1>4, <2>2, <2>3 DEF r, s
<1> QED
  BY <1>1, <1>3, <1>4

LEMMA SlotMoves ==
  ASSUME NEW a \in Nat
  PROVE  /\ a % BufferDepth \in Slots
         /\ ((a % BufferDepth) + 1) % BufferDepth = (a + 1) % BufferDepth
         /\ (a + 1) % BufferDepth # a % BufferDepth
<1>1. BufferDepth \in Nat /\ BufferDepth >= 2
  BY DepthAssumption
<1> QED
  BY <1>1, NextSlot DEF Slots

\* What the layers' order and the deferral choices give.
LEMMA LayerFacts ==
  ASSUME deferring \in DeferChoices
  PROVE  /\ \A i \in 1..Len(Layers) : Layers[i] \in Nat /\ Layers[i] \in LayerIds /\ Slot(i) \in Slots
         /\ \A i, j \in 1..Len(Layers) : Layers[i] = Layers[j] => i = j
         /\ \A i \in 1..Len(Layers) : Defers(i) =>
              /\ i < Len(Layers) /\ Layers[i + 1] = Layers[i] + 1
              /\ PrevDefers(i + 1)
              /\ (Slot(i) + 1) % BufferDepth = Slot(i + 1) /\ Slot(i + 1) # Slot(i)
         /\ \A i \in 1..Len(Layers) : PrevDefers(i) =>
              i - 1 \in 1..Len(Layers) /\ Defers(i - 1) /\ i > 1
<1> USE LayersAssumption, DeferAssumption
<1>0. Len(Layers) \in Nat
  OBVIOUS
<1>1. \A i \in 1..Len(Layers) : Layers[i] \in Nat /\ Layers[i] \in LayerIds
  BY DEF LayerIds
<1>2. \A i \in 1..Len(Layers) : Slot(i) \in Slots
  BY <1>1, SlotMoves DEF Slot
<1>3. ASSUME NEW i \in 1..Len(Layers), NEW j \in 1..Len(Layers), Layers[i] = Layers[j] PROVE i = j
  <2>1. ~(i < j) /\ ~(j < i)
    BY <1>1, <1>3
  <2> QED
    BY <1>0, <2>1
<1>4. ASSUME NEW i \in 1..Len(Layers), Defers(i)
      PROVE  /\ i < Len(Layers) /\ Layers[i + 1] = Layers[i] + 1
             /\ PrevDefers(i + 1)
             /\ (Slot(i) + 1) % BufferDepth = Slot(i + 1) /\ Slot(i + 1) # Slot(i)
  <2>1. PICK j \in 1..(Len(Layers) - 1) : Layers[i] = Layers[j] /\ Layers[j + 1] = Layers[i] + 1
    BY <1>4 DEF Defers
  <2>2. j = i
    BY <1>0, <1>3, <2>1
  <2>3. i < Len(Layers) /\ Layers[i + 1] = Layers[i] + 1
    BY <1>0, <2>1, <2>2
  <2>4. PrevDefers(i + 1)
    BY <1>0, <1>4 DEF PrevDefers, Defers
  <2>5. ((Layers[i] % BufferDepth) + 1) % BufferDepth = (Layers[i] + 1) % BufferDepth
        /\ (Layers[i] + 1) % BufferDepth # Layers[i] % BufferDepth
    BY <1>1, SlotMoves
  <2> QED
    BY <2>3, <2>4, <2>5 DEF Slot
<1>5. \A i \in 1..Len(Layers) : PrevDefers(i) => i - 1 \in 1..Len(Layers) /\ Defers(i - 1) /\ i > 1
  BY <1>0 DEF PrevDefers, Defers
<1> QED
  BY <1>1, <1>2, <1>3, <1>4, <1>5

\* A layer's tasks are tasks, and not the absence of one.
LEMMA TaskTypes ==
  ASSUME deferring \in DeferChoices, NEW k \in 1..Passes, NEW i \in 1..Len(Layers)
  PROVE  /\ TagOf(k, i) \in Tags /\ Slot(i) \in Slots
         /\ Imm(k, i) \in CpuTasks /\ Imm(k, i) # None
         /\ Def(k, i) \in CpuTasks /\ Def(k, i) # None
         /\ Imm(k, i) # Def(k, i)
<1>1. TagOf(k, i) \in Tags /\ Slot(i) \in Slots
  BY LayerFacts DEF TagOf, Tags
<1>2. Imm(k, i) \in CpuTasks
  BY <1>1 DEF Imm, CpuTasks, PrevDefers
<1>3. (Slot(i) + 1) % BufferDepth \in Slots
  <2>1. Slot(i) + 1 \in Nat
    BY <1>1, DepthAssumption DEF Slots
  <2> QED
    BY <2>1, SlotMoves
<1>4. Def(k, i) \in CpuTasks
  BY <1>1, <1>3 DEF Def, CpuTasks
<1>5. Imm(k, i) # Def(k, i)
  <2>1. Imm(k, i).kind = "imm" /\ Def(k, i).kind = "def"
    BY DEF Imm, Def
  <2> QED
    BY <2>1
<1> QED
  BY <1>1, <1>2, <1>4, <1>5, NoneAssumption

-----------------------------------------------------------------------------
(* The outstanding tasks *)

\* Small sequences.
LEMMA Appended ==
  ASSUME NEW a, NEW b, NEW c
  PROVE  /\ Append(<<>>, a) = <<a>>
         /\ Append(<<a>>, b) = <<a, b>>
         /\ Append(<<a, b>>, c) = <<a, b, c>>
<1> DEFINE S == {a, b, c}
<1>1. /\ <<>> \in Seq(S) /\ <<a>> \in Seq(S) /\ <<a, b>> \in Seq(S) /\ <<a, b, c>> \in Seq(S)
      /\ a \in S /\ b \in S /\ c \in S
  OBVIOUS
<1> HIDE DEF S
<1>2. Append(<<>>, a) = <<a>>
  <2>1. /\ Append(<<>>, a) \in Seq(S) /\ Len(Append(<<>>, a)) = 1
        /\ Append(<<>>, a)[1] = a
    BY <1>1, AppendProperties
  <2> QED
    BY <1>1, <2>1, SeqEqual
<1>3. Append(<<a>>, b) = <<a, b>>
  <2>1. /\ Append(<<a>>, b) \in Seq(S) /\ Len(Append(<<a>>, b)) = 2
        /\ Append(<<a>>, b)[1] = a /\ Append(<<a>>, b)[2] = b
    BY <1>1, AppendProperties
  <2>2. Len(<<a, b>>) = 2 /\ \A j \in 1..2 : Append(<<a>>, b)[j] = <<a, b>>[j]
    BY <2>1
  <2> QED
    BY <1>1, <2>1, <2>2, SeqEqual
<1>4. Append(<<a, b>>, c) = <<a, b, c>>
  <2>1. /\ Append(<<a, b>>, c) \in Seq(S) /\ Len(Append(<<a, b>>, c)) = 3
        /\ Append(<<a, b>>, c)[1] = a /\ Append(<<a, b>>, c)[2] = b /\ Append(<<a, b>>, c)[3] = c
    BY <1>1, AppendProperties
  <2>2. Len(<<a, b, c>>) = 3 /\ \A j \in 1..3 : Append(<<a, b>>, c)[j] = <<a, b, c>>[j]
    BY <2>1
  <2> QED
    BY <1>1, <2>1, <2>2, SeqEqual
<1> QED
  BY <1>2, <1>3, <1>4

\* One more task behind them.
LEMMA WorkGrows ==
  ASSUME NEW k, NEW i, NEW p \in BOOLEAN, NEW m \in BOOLEAN, p => m
  PROVE  /\ \A q \in BOOLEAN : Append(Work(k, i, q, FALSE, FALSE), Imm(k, i)) = Work(k, i, q, TRUE, FALSE)
         /\ Append(Work(k, i, p, m, FALSE), Def(k, i)) = Work(k, i, p, m, TRUE)
BY Appended DEF Work

LEMMA Listed ==
  ASSUME NEW a, NEW b, NEW c, NEW t
  PROVE  /\ (\E j \in 1..Len(<<a, b, c>>) : <<a, b, c>>[j] = t) <=> t \in {a, b, c}
         /\ (\E j \in 1..Len(<<a, b>>) : <<a, b>>[j] = t) <=> t \in {a, b}
         /\ (\E j \in 1..Len(<<a>>) : <<a>>[j] = t) <=> t \in {a}
         /\ ~ \E j \in 1..Len(<<>>) : <<>>[j] = t
<1>1. (\E j \in 1..Len(<<a, b, c>>) : <<a, b, c>>[j] = t) <=> t \in {a, b, c}
  <2>1. Len(<<a, b, c>>) = 3 /\ <<a, b, c>>[1] = a /\ <<a, b, c>>[2] = b /\ <<a, b, c>>[3] = c
    OBVIOUS
  <2>2. 1..3 = {1, 2, 3}
    OBVIOUS
  <2> QED
    BY <2>1, <2>2
<1>2. (\E j \in 1..Len(<<a, b>>) : <<a, b>>[j] = t) <=> t \in {a, b}
  <2>1. Len(<<a, b>>) = 2 /\ <<a, b>>[1] = a /\ <<a, b>>[2] = b
    OBVIOUS
  <2>2. 1..2 = {1, 2}
    OBVIOUS
  <2> QED
    BY <2>1, <2>2
<1>3. (\E j \in 1..Len(<<a>>) : <<a>>[j] = t) <=> t \in {a}
  OBVIOUS
<1>4. ~ \E j \in 1..Len(<<>>) : <<>>[j] = t
  OBVIOUS
<1> QED
  BY <1>1, <1>2, <1>3, <1>4

\* Which tasks they are.
Outstanding(k, i, p, m, d) ==
  (IF p THEN {Def(k, i - 1)} ELSE {}) \union (IF m THEN {Imm(k, i)} ELSE {})
    \union (IF d THEN {Def(k, i)} ELSE {})

LEMMA WorkMembers ==
  ASSUME NEW k, NEW i, NEW p, NEW m, NEW d, {p, m, d} \subseteq BOOLEAN, p /\ d => m,
         NEW W, W = Work(k, i, p, m, d), NEW t
  PROVE  (\E j \in 1..Len(W) : W[j] = t) <=> t \in Outstanding(k, i, p, m, d)
<1> DEFINE P == Def(k, i - 1)
           M == Imm(k, i)
           D == Def(k, i)
<1>1. W = IF p THEN IF m THEN IF d THEN <<P, M, D>> ELSE <<P, M>> ELSE <<P>>
               ELSE IF m THEN IF d THEN <<M, D>> ELSE <<M>> ELSE IF d THEN <<D>> ELSE <<>>
  BY DEF Work
<1> HIDE DEF P, M, D
<1>2. SUFFICES (\E j \in 1..Len(W) : W[j] = t) <=> (p /\ t = P) \/ (m /\ t = M) \/ (d /\ t = D)
  BY <1>2 DEF P, M, D, Outstanding
<1>3. CASE p /\ m /\ d
  BY <1>1, <1>3, Listed
<1>4. CASE p /\ m /\ ~d
  BY <1>1, <1>4, Listed
<1>5. CASE p /\ ~m /\ ~d
  BY <1>1, <1>5, Listed
<1>6. CASE ~p /\ m /\ d
  BY <1>1, <1>6, Listed
<1>7. CASE ~p /\ m /\ ~d
  BY <1>1, <1>7, Listed
<1>8. CASE ~p /\ ~m /\ d
  BY <1>1, <1>8, Listed
<1>9. CASE ~p /\ ~m /\ ~d
  BY <1>1, <1>9, Listed
<1> QED
  BY <1>3, <1>4, <1>5, <1>6, <1>7, <1>8, <1>9

\* What the executor's steps do to the outstanding tasks.
LEMMA WorkMoves ==
  ASSUME NEW S, None \notin S, NEW W \in Seq(S), WorkIs(W)
  PROVE  /\ Exec!Start => WorkIs(W)'
         /\ Exec!Finish => W # <<>> /\ active = Head(W) /\ WorkIs(Tail(W))'
         /\ \A t \in S : announced["stream"] = t /\ Exec!Commit("stream") => WorkIs(Append(W, t))'
         /\ UNCHANGED <<active, queue>> => WorkIs(W)'
<1>1. ASSUME Exec!Start PROVE WorkIs(W)'
  <2>1. active = None /\ queue # <<>> /\ active' = Head(queue) /\ queue' = Tail(queue) /\ queue = W
    BY <1>1 DEF Exec!Start, WorkIs
  <2>2. Head(W) \in S
    BY <2>1, HeadTailProperties
  <2> QED
    BY <2>1, <2>2 DEF WorkIs
<1>2. ASSUME Exec!Finish PROVE W # <<>> /\ active = Head(W) /\ WorkIs(Tail(W))'
  BY <1>2 DEF Exec!Finish, WorkIs
<1>3. ASSUME NEW t \in S, announced["stream"] = t, Exec!Commit("stream") PROVE WorkIs(Append(W, t))'
  <2>1. queue' = Append(queue, t) /\ active' = active
    BY <1>3 DEF Exec!Commit
  <2>2. CASE active = None
    BY <2>1, <2>2 DEF WorkIs
  <2>3. CASE active # None
    <3>1. W # <<>> /\ active = Head(W) /\ queue = Tail(W)
      BY <2>3 DEF WorkIs
    <3>2. Append(W, t) # <<>>
      BY AppendProperties
    <3>3. Head(Append(W, t)) = Head(W) /\ Tail(Append(W, t)) = Append(Tail(W), t)
      BY <3>1, HeadTailAppend
    <3> QED
      BY <2>1, <2>3, <3>1, <3>2, <3>3 DEF WorkIs
  <2> QED
    BY <2>2, <2>3
<1>4. UNCHANGED <<active, queue>> => WorkIs(W)'
  BY DEF WorkIs
<1> QED
  BY <1>1, <1>2, <1>3, <1>4

\* The tasks that are queued or running are the outstanding ones.
LEMMA WorkSet ==
  ASSUME NEW S, None \notin S, NEW W \in Seq(S), WorkIs(W)
  PROVE  \A t : t \in Exec!Queued \union Exec!Running <=> \E j \in 1..Len(W) : W[j] = t
<1>1. CASE active = None
  BY <1>1 DEF WorkIs, Exec!Queued, Exec!Running
<1>2. CASE active # None
  <2>1. W # <<>> /\ active = Head(W) /\ queue = Tail(W)
    BY <1>2 DEF WorkIs
  <2>2. /\ Len(W) \in Nat /\ Len(W) >= 1 /\ active = W[1]
        /\ Len(queue) = Len(W) - 1 /\ \A j \in 1..(Len(W) - 1) : queue[j] = W[j + 1]
    BY <2>1
  <2>3. Exec!Running = {active}
    BY <1>2 DEF Exec!Running
  <2>4. ASSUME NEW t PROVE t \in Exec!Queued <=> \E j \in 1..(Len(W) - 1) : W[j + 1] = t
    BY <2>2 DEF Exec!Queued
  <2>5. ASSUME NEW t
        PROVE  (\E j \in 1..Len(W) : W[j] = t) <=> W[1] = t \/ \E j \in 1..(Len(W) - 1) : W[j + 1] = t
    <3>1. ASSUME NEW j \in 1..Len(W), W[j] = t PROVE W[1] = t \/ \E h \in 1..(Len(W) - 1) : W[h + 1] = t
      <4>1. j = 1 \/ (j - 1 \in 1..(Len(W) - 1) /\ (j - 1) + 1 = j)
        BY <2>2
      <4> QED
        BY <3>1, <4>1
    <3>2. ASSUME NEW j \in 1..(Len(W) - 1), W[j + 1] = t PROVE \E h \in 1..Len(W) : W[h] = t
      <4>1. j + 1 \in 1..Len(W)
        BY <2>2
      <4> QED
        BY <3>2, <4>1
    <3>3. 1 \in 1..Len(W)
      BY <2>2
    <3> QED
      BY <3>1, <3>2, <3>3
  <2> QED
    BY <2>2, <2>3, <2>4, <2>5
<1> QED
  BY <1>1, <1>2

-----------------------------------------------------------------------------
(* The program *)

\* The operation at the head of the stream, its place and the next one.
LEMMA HeadPlace ==
  ASSUME TypeOK, NEW w, Path(w), stream # <<>>
  PROVE  /\ w[1] \in Places /\ w[2] \in Places /\ w[1].k \in 1..Passes
         /\ Carries(Head(stream), w[1]) /\ Follows(w[1], w[2])
<1>1. stream \in Seq(StreamOps) /\ Len(stream) \in Nat /\ 1 \in 1..Len(stream) /\ Head(stream) = stream[1]
  BY DEF TypeOK
<1>2. w[1] \in Places /\ w[2] \in Places
  BY DEF Path, Carried
<1>3. w[1].k \in 1..Passes
  BY <1>1, <1>2, BoundsAssumption DEF Path, Carried, Places
<1> QED
  BY <1>1, <1>2, <1>3 DEF Path, Carried

\* The stream executes one operation: the program starts one place later.
LEMMA PopPath ==
  ASSUME TypeOK, NEW w, Path(w), stream # <<>>, Pop, UNCHANGED <<deferring, hostVars>>
  PROVE  \E v : Path(v)' /\ v[1] = w[2]
<1> DEFINE v == [j \in Nat \ {0} |-> w[j + 1]]
<1>1. /\ stream \in Seq(StreamOps) /\ stream' = Tail(stream)
      /\ Len(stream) \in Nat /\ Len(stream) >= 1 /\ Len(stream') = Len(stream) - 1
      /\ \A j \in 1..(Len(stream) - 1) : stream'[j] = stream[j + 1]
  BY DEF TypeOK, Pop
<1>2. v \in [Nat \ {0} -> Places]
  BY DEF Path, Carried
<1>3. ASSUME NEW j \in 1..Len(stream')
      PROVE  (v[j].k <= Passes /\ Carries(stream[j], v[j]) /\ Follows(v[j], v[j + 1]))'
  <2>0. j \in Nat \ {0} /\ j + 1 \in Nat \ {0} /\ j + 1 \in 1..Len(stream)
    BY <1>1
  <2>1. v[j] = w[j + 1] /\ v[j + 1] = w[(j + 1) + 1]
    BY <2>0
  <2>2. w[j + 1].k <= Passes /\ Carries(stream[j + 1], w[j + 1]) /\ Follows(w[j + 1], w[(j + 1) + 1])
    BY <2>0 DEF Path, Carried
  <2>3. v[j].k <= Passes /\ Carries(stream'[j], v[j]) /\ Follows(v[j], v[j + 1])
    BY <1>1, <2>1, <2>2
  <2> HIDE DEF v
  <2> QED
    BY <2>3 DEF Carries, Follows, Imm, Def, PrevDefers, Defers, Allow
<1>4. v[Len(stream') + 1] = Here'
  <2>1. v[Len(stream') + 1] = w[Len(stream) + 1]
    BY <1>1
  <2> QED
    BY <2>1 DEF Path, Carried, Here, hostVars
<1>5. Path(v)'
  BY <1>2, <1>3, <1>4 DEF Path, Carried
<1>6. v[1] = w[2]
  OBVIOUS
<1> QED
  BY <1>5, <1>6

\* What the program is does not change with time.
LEMMA Recarry ==
  ASSUME UNCHANGED deferring, NEW s, s = stream', NEW y, y = Here', NEW v, Carried(v, s, y)
  PROVE  Path(v)'
<1>1. ASSUME NEW j \in 1..Len(stream')
      PROVE  (v[j].k <= Passes /\ Carries(stream[j], v[j]) /\ Follows(v[j], v[j + 1]))'
  <2>1. v[j].k <= Passes /\ Carries(stream'[j], v[j]) /\ Follows(v[j], v[j + 1])
    BY <1>1 DEF Carried
  <2> QED
    BY <2>1 DEF Carries, Follows, Imm, Def, PrevDefers, Defers, Allow
<1>2. v \in [Nat \ {0} -> Places] /\ v[Len(stream') + 1] = Here'
  BY DEF Carried
<1> QED
  BY <1>1, <1>2 DEF Path, Carried

\* One operation more at the end of the program.
LEMMA Extend ==
  ASSUME NEW S, NEW s \in Seq(S), NEW e \in S, NEW w, NEW x \in Places, NEW y \in Places,
         Carried(w, s, x), x.k <= Passes, Carries(e, x), Follows(x, y)
  PROVE  \E v : Carried(v, Append(s, e), y) /\ v[1] = w[1]
<1> DEFINE N == Len(s)
           t == Append(s, e)
           v == [j \in Nat \ {0} |-> IF j = N + 2 THEN y ELSE w[j]]
<1>1. N \in Nat /\ Len(t) = N + 1 /\ t[N + 1] = e /\ \A j \in 1..N : t[j] = s[j]
  BY AppendProperties
<1>2. /\ w \in [Nat \ {0} -> Places]
      /\ \A j \in 1..N : w[j].k <= Passes /\ Carries(s[j], w[j]) /\ Follows(w[j], w[j + 1])
      /\ w[N + 1] = x
  BY DEF Carried
<1> HIDE DEF N, t
<1>3. v \in [Nat \ {0} -> Places] /\ v[N + 2] = y /\ \A j \in 1..(N + 1) : v[j] = w[j]
  BY <1>1, <1>2
<1> HIDE DEF v
<1>4. ASSUME NEW j \in 1..(N + 1)
      PROVE  v[j].k <= Passes /\ Carries(t[j], v[j]) /\ Follows(v[j], v[j + 1])
  <2>1. CASE j = N + 1
    <3>1. v[j] = x /\ v[j + 1] = y /\ t[j] = e
      BY <1>1, <1>2, <1>3, <2>1
    <3> QED
      BY <3>1
  <2>2. CASE j # N + 1
    <3>1. j \in 1..N /\ j + 1 \in 1..(N + 1)
      BY <1>1, <2>2
    <3>2. v[j] = w[j] /\ v[j + 1] = w[j + 1] /\ t[j] = s[j]
      BY <1>1, <1>3, <3>1
    <3> QED
      BY <1>2, <3>1, <3>2
  <2> QED
    BY <2>1, <2>2
<1>5. 1 \in 1..(N + 1) /\ Len(t) + 1 = N + 2
  BY <1>1
<1>6. Carried(v, t, y) /\ v[1] = w[1]
  BY <1>1, <1>3, <1>4, <1>5 DEF Carried
<1> QED
  BY <1>6 DEF t

LEMMA ConcatTwo ==
  ASSUME NEW S, NEW s \in Seq(S), NEW a \in S, NEW b \in S
  PROVE  /\ s \o <<a, b>> = Append(Append(s, a), b)
         /\ Append(s, a) \in Seq(S) /\ Append(Append(s, a), b) \in Seq(S)
<1>1. /\ Append(s, a) \in Seq(S) /\ Len(Append(s, a)) = Len(s) + 1
      /\ \A j \in 1..Len(s) : Append(s, a)[j] = s[j]
      /\ Append(s, a)[Len(s) + 1] = a
  BY AppendProperties
<1> DEFINE u == Append(s, a)
<1> HIDE DEF u
<1>2. /\ Append(u, b) \in Seq(S) /\ Len(Append(u, b)) = Len(u) + 1
      /\ \A j \in 1..Len(u) : Append(u, b)[j] = u[j]
      /\ Append(u, b)[Len(u) + 1] = b
  BY <1>1, AppendProperties DEF u
<1>3. /\ <<a, b>> \in Seq(S) /\ Len(<<a, b>>) = 2 /\ <<a, b>>[1] = a /\ <<a, b>>[2] = b
      /\ Len(s) \in Nat
  OBVIOUS
<1> DEFINE c == <<a, b>>
<1> HIDE DEF c
<1>4. /\ s \o c \in Seq(S) /\ Len(s \o c) = Len(s) + 2
      /\ \A j \in 1..(Len(s) + 2) : (s \o c)[j] = IF j <= Len(s) THEN s[j] ELSE c[j - Len(s)]
  BY <1>3, ConcatProperties DEF c
<1>5. ASSUME NEW j \in 1..(Len(s) + 2) PROVE (s \o c)[j] = Append(u, b)[j]
  <2>1. CASE j <= Len(s)
    BY <1>1, <1>2, <1>3, <1>4, <2>1 DEF u
  <2>2. CASE j = Len(s) + 1
    <3>1. j - Len(s) = 1 /\ ~(j <= Len(s))
      BY <1>3, <2>2
    <3> QED
      BY <1>1, <1>2, <1>3, <1>4, <2>2, <3>1 DEF u, c
  <2>3. CASE j = Len(s) + 2
    <3>1. j - Len(s) = 2 /\ ~(j <= Len(s))
      BY <1>3, <2>3
    <3>2. j = Len(u) + 1
      BY <1>1, <1>3, <2>3 DEF u
    <3> QED
      BY <1>2, <1>3, <1>4, <3>1, <3>2 DEF c
  <2>4. j <= Len(s) \/ j = Len(s) + 1 \/ j = Len(s) + 2
    BY <1>3
  <2> QED
    BY <2>1, <2>2, <2>3, <2>4
<1>6. Len(s \o c) = Len(Append(u, b))
  BY <1>1, <1>2, <1>3, <1>4 DEF u
<1>7. s \o c = Append(u, b)
  BY <1>2, <1>4, <1>5, <1>6, SeqEqual
<1> QED
  BY <1>1, <1>2, <1>7 DEF u, c

-----------------------------------------------------------------------------
(* Python *)

\* What Python appends is what the program has next.
LEMMA PythonAppends ==
  ASSUME TypeOK, HostInv, deferring \in DeferChoices, pass <= Passes
  PROVE  /\ Tag = TagOf(pass, pos) /\ current_slot = Slot(pos)
         /\ Incremental <=> PrevDefers(pos)
         /\ ImmediateTask = Imm(pass, pos) /\ DeferredTask = Def(pass, pos)
<1>1. Tag = TagOf(pass, pos) /\ current_slot = Slot(pos)
  BY DEF Tag, TagOf, layer_idx, current_slot, Slot
<1>2. pos \in 1..Len(Layers) /\ Len(Layers) \in Nat
  BY LayersAssumption DEF TypeOK
<1>3. ASSUME Incremental PROVE PrevDefers(pos)
  <2>1. PICK i \in 1..Len(Layers) : Layers[i] + 1 = Layers[pos] /\ pendingDeferred[Layers[i]]
    BY <1>3 DEF Incremental, layer_idx, LayerIds
  <2>2. Layers[i] \in Nat /\ Layers[pos] \in Nat
    BY <1>2, LayerFacts
  <2>3. i < pos
    BY <1>2, <2>1, <2>2, LayersAssumption
  <2>4. ~(i < pos - 1)
    <3>1. SUFFICES ASSUME i < pos - 1 PROVE FALSE
      OBVIOUS
    <3>2. pos - 1 \in 1..Len(Layers) /\ Layers[pos - 1] \in Nat
      BY <1>2, <3>1, LayerFacts
    <3>3. Layers[i] < Layers[pos - 1] /\ Layers[pos - 1] < Layers[pos]
      BY <1>2, <3>1, <3>2, LayersAssumption
    <3> QED
      BY <2>1, <2>2, <3>2, <3>3
  <2>5. i = pos - 1 /\ pos > 1
    BY <1>2, <2>3, <2>4
  <2>6. Layers[i] \in deferring
    BY <2>1, <2>3 DEF HostInv
  <2> QED
    BY <2>5, <2>6 DEF PrevDefers
<1>4. ASSUME PrevDefers(pos) PROVE Incremental
  <2>1. pos - 1 \in 1..Len(Layers) /\ Defers(pos - 1) /\ pos > 1
    BY <1>2, <1>4, LayerFacts
  <2>2. Layers[(pos - 1) + 1] = Layers[pos - 1] + 1 /\ (pos - 1) + 1 = pos
    BY <1>2, <2>1, LayerFacts
  <2>3. pendingDeferred[Layers[pos - 1]]
    BY <1>2, <2>1 DEF HostInv, Defers
  <2>4. Layers[pos - 1] \in LayerIds
    BY <2>1 DEF LayerIds
  <2> QED
    BY <2>2, <2>3, <2>4 DEF Incremental, layer_idx
<1>5. Incremental \in BOOLEAN /\ PrevDefers(pos) \in BOOLEAN
  BY DEF Incremental, PrevDefers
<1>6. Incremental = PrevDefers(pos)
  BY <1>3, <1>4, <1>5
<1> QED
  BY <1>1, <1>3, <1>4, <1>6 DEF ImmediateTask, DeferredTask, Imm, Def, next_slot

\* Where Python is, the operations of a layer and the places they belong to.
LEMMA PythonPlaces ==
  ASSUME TypeOK, deferring \in DeferChoices, pass <= Passes, NEW o \in Ops
  PROVE  /\ [k |-> pass, i |-> pos, o |-> o] \in Places
         /\ [op |-> "copy_input", tag |-> TagOf(pass, pos), slot |-> Slot(pos)] \in StreamOps
         /\ [op |-> "copy_deferred", tag |-> TagOf(pass, pos), slot |-> Slot(pos)] \in StreamOps
         /\ [op |-> "copy_output", tag |-> TagOf(pass, pos), slot |-> Slot(pos)] \in StreamOps
         /\ [op |-> "submit", task |-> Imm(pass, pos)] \in StreamOps
         /\ [op |-> "submit", task |-> Def(pass, pos)] \in StreamOps
         /\ [op |-> "sync", allow |-> Allow(pos)] \in StreamOps
<1>1. pass \in 1..Passes /\ pass \in Nat \ {0} /\ pos \in 1..Len(Layers)
  BY BoundsAssumption DEF TypeOK
<1>2. /\ TagOf(pass, pos) \in Tags /\ Slot(pos) \in Slots
      /\ Imm(pass, pos) \in CpuTasks /\ Def(pass, pos) \in CpuTasks
  BY <1>1, TaskTypes
<1>3. Allow(pos) \in {0, 1}
  BY DEF Allow
<1> QED
  BY <1>1, <1>2, <1>3 DEF Places, StreamOps

LEMMA SubmitPath ==
  ASSUME TypeOK, HostInv, deferring \in DeferChoices, NEW w, Path(w), SubmitForward
  PROVE  (\E v : Path(v)' /\ v[1] = w[1]) /\ stream' \in Seq(StreamOps)
<1>0. /\ pass <= Passes /\ stage = "submit" /\ stage' = "sync" /\ UNCHANGED <<deferring, pass, pos>>
      /\ stream' = stream \o SubmitOps \o (IF layer_idx \in deferring THEN DeferOps ELSE <<>>)
  BY DEF SubmitForward
<1> DEFINE at(o) == [k |-> pass, i |-> pos, o |-> o]
           a == [op |-> "copy_input", tag |-> TagOf(pass, pos), slot |-> Slot(pos)]
           b == [op |-> "submit", task |-> Imm(pass, pos)]
           c == [op |-> "copy_deferred", tag |-> TagOf(pass, pos), slot |-> Slot(pos)]
           d == [op |-> "submit", task |-> Def(pass, pos)]
<1>1. SubmitOps = <<a, b>> /\ DeferOps = <<c, d>>
  BY <1>0, PythonAppends DEF SubmitOps, DeferOps
<1>2. a \in StreamOps /\ b \in StreamOps /\ c \in StreamOps /\ d \in StreamOps
  BY <1>0, PythonPlaces DEF Ops
<1>3. \A o \in Ops : at(o) \in Places
  BY <1>0, PythonPlaces
<1>4. /\ Carries(a, at("copy_input")) /\ Carries(b, at("imm"))
      /\ Carries(c, at("copy_deferred")) /\ Carries(d, at("def"))
  BY DEF Carries
<1>5. /\ Follows(at("copy_input"), at("imm"))
      /\ Defers(pos) => Follows(at("imm"), at("copy_deferred"))
      /\ ~Defers(pos) => Follows(at("imm"), at("sync"))
      /\ Follows(at("copy_deferred"), at("def")) /\ Follows(at("def"), at("sync"))
  BY DEF Follows
<1>6. \A o \in Ops : at(o).k <= Passes
  BY <1>0
<1>7. stream \in Seq(StreamOps) /\ Carried(w, stream, at("copy_input"))
  BY <1>0 DEF TypeOK, Path, Here
<1>8. Defers(pos) <=> layer_idx \in deferring
  BY DEF Defers, layer_idx
<1> HIDE DEF at, a, b, c, d
<1> DEFINE s1 == Append(stream, a)
           s2 == Append(s1, b)
           s3 == Append(s2, c)
           s4 == Append(s3, d)
<1>9. stream \o <<a, b>> = s2 /\ s1 \in Seq(StreamOps) /\ s2 \in Seq(StreamOps)
  BY <1>2, <1>7, ConcatTwo
<1> HIDE DEF s1, s2
<1>10. s2 \o <<c, d>> = s4 /\ s3 \in Seq(StreamOps) /\ s4 \in Seq(StreamOps)
  BY <1>2, <1>9, ConcatTwo
<1> HIDE DEF s3, s4
<1>11. PICK v1 : Carried(v1, s1, at("imm")) /\ v1[1] = w[1]
  BY <1>2, <1>3, <1>4, <1>5, <1>6, <1>7, Extend DEF Ops, s1
<1>12. CASE ~Defers(pos)
  <2>1. \E v : Carried(v, s2, at("sync")) /\ v[1] = v1[1]
    BY <1>2, <1>3, <1>4, <1>5, <1>6, <1>9, <1>11, <1>12, Extend DEF Ops, s2
  <2>2. stream' = s2
    <3>1. s2 \o <<>> = s2
      BY <1>9, ConcatEmptySeq
    <3> QED
      BY <1>0, <1>1, <1>8, <1>9, <1>12, <3>1
  <2>3. \A v : Carried(v, s2, at("sync")) => Path(v)'
    <3>1. Here' = at("sync")
      BY <1>0 DEF Here, at
    <3> QED
      BY <1>0, <2>2, <3>1, Recarry
  <2> QED
    BY <1>9, <1>11, <2>1, <2>2, <2>3
<1>13. CASE Defers(pos)
  <2>1. PICK v2 : Carried(v2, s2, at("copy_deferred")) /\ v2[1] = v1[1]
    BY <1>2, <1>3, <1>4, <1>5, <1>6, <1>9, <1>11, <1>13, Extend DEF Ops, s2
  <2>2. PICK v3 : Carried(v3, s3, at("def")) /\ v3[1] = v2[1]
    BY <1>2, <1>3, <1>4, <1>5, <1>6, <1>9, <2>1, Extend DEF Ops, s3
  <2>3. \E v : Carried(v, s4, at("sync")) /\ v[1] = v3[1]
    BY <1>2, <1>3, <1>4, <1>5, <1>6, <1>10, <2>2, Extend DEF Ops, s4
  <2>4. stream' = s4
    BY <1>0, <1>1, <1>8, <1>9, <1>10, <1>13
  <2>5. \A v : Carried(v, s4, at("sync")) => Path(v)'
    <3>1. Here' = at("sync")
      BY <1>0 DEF Here, at
    <3> QED
      BY <1>0, <2>4, <3>1, Recarry
  <2> QED
    BY <1>10, <1>11, <2>1, <2>2, <2>3, <2>4, <2>5
<1> QED
  BY <1>12, <1>13

LEMMA SyncPath ==
  ASSUME TypeOK, HostInv, deferring \in DeferChoices, NEW w, Path(w), SyncForward
  PROVE  (\E v : Path(v)' /\ v[1] = w[1]) /\ stream' \in Seq(StreamOps)
<1> DEFINE at(o) == [k |-> pass, i |-> pos, o |-> o]
           a == [op |-> "sync", allow |-> Allow(pos)]
           b == [op |-> "copy_output", tag |-> TagOf(pass, pos), slot |-> Slot(pos)]
           y == [k |-> IF pos = Len(Layers) THEN pass + 1 ELSE pass,
                 i |-> IF pos = Len(Layers) THEN 1 ELSE pos + 1, o |-> "copy_input"]
<1>0. /\ pass <= Passes /\ stage = "sync" /\ stage' = "submit" /\ UNCHANGED deferring
      /\ stream' = stream \o <<a, b>>
      /\ pos' = y.i /\ pass' = y.k
  <2>1. pass <= Passes /\ stage = "sync"
    BY DEF SyncForward
  <2>2. Tag = TagOf(pass, pos) /\ current_slot = Slot(pos)
    BY <2>1, PythonAppends
  <2>3. pendingDeferred[layer_idx] <=> Defers(pos)
    BY <2>1 DEF HostInv, layer_idx, Defers, TypeOK
  <2> QED
    BY <2>1, <2>2, <2>3 DEF SyncForward, Allow
<1>1. a \in StreamOps /\ b \in StreamOps
  BY <1>0, PythonPlaces DEF Ops
<1>2. \A o \in Ops : at(o) \in Places
  BY <1>0, PythonPlaces
<1>3. y \in Places
  <2>1. pass \in 1..(Passes + 1) /\ pos \in 1..Len(Layers) /\ Len(Layers) \in Nat
    BY LayersAssumption DEF TypeOK
  <2>2. y.k \in Nat \ {0} /\ y.i \in 1..Len(Layers)
    BY <2>1, BoundsAssumption
  <2> QED
    BY <2>2 DEF Places, Ops
<1>4. Carries(a, at("sync")) /\ Carries(b, at("copy_output"))
  BY DEF Carries
<1>5. Follows(at("sync"), at("copy_output")) /\ Follows(at("copy_output"), y)
  BY DEF Follows
<1>6. \A o \in Ops : at(o).k <= Passes
  BY <1>0
<1>7. stream \in Seq(StreamOps) /\ Carried(w, stream, at("sync"))
  BY <1>0 DEF TypeOK, Path, Here
<1>8. Here' = y
  BY <1>0 DEF Here
<1> HIDE DEF at, a, b, y
<1> DEFINE s1 == Append(stream, a)
           s2 == Append(s1, b)
<1>9. stream \o <<a, b>> = s2 /\ s1 \in Seq(StreamOps) /\ s2 \in Seq(StreamOps)
  BY <1>1, <1>7, ConcatTwo
<1> HIDE DEF s1, s2
<1>10. PICK v1 : Carried(v1, s1, at("copy_output")) /\ v1[1] = w[1]
  BY <1>1, <1>2, <1>4, <1>5, <1>6, <1>7, Extend DEF Ops, s1
<1>11. \E v : Carried(v, s2, y) /\ v[1] = v1[1]
  BY <1>1, <1>2, <1>3, <1>4, <1>5, <1>6, <1>9, <1>10, Extend DEF Ops, s2
<1>12. stream' = s2
  BY <1>0, <1>9
<1>13. \A v : Carried(v, s2, y) => Path(v)'
  BY <1>0, <1>8, <1>12, Recarry
<1> QED
  BY <1>9, <1>10, <1>11, <1>12, <1>13

-----------------------------------------------------------------------------
(* What does not change with the deferring layers *)

LEMMA Rigid ==
  ASSUME UNCHANGED deferring, NEW k, NEW i
  PROVE  /\ Imm(k, i)' = Imm(k, i) /\ Def(k, i)' = Def(k, i)
         /\ Allow(i)' = Allow(i) /\ Owed(k, i)' = Owed(k, i)
         /\ Defers(i)' <=> Defers(i)
         /\ PrevDefers(i)' <=> PrevDefers(i)
         /\ \A p, m, d \in BOOLEAN : Work(k, i, p, m, d)' = Work(k, i, p, m, d)
<1>1. Imm(k, i)' = Imm(k, i) /\ Def(k, i)' = Def(k, i) /\ Def(k, i - 1)' = Def(k, i - 1)
  BY DEF Imm, Def, PrevDefers
<1>2. Allow(i)' = Allow(i) /\ (Defers(i)' <=> Defers(i)) /\ (PrevDefers(i)' <=> PrevDefers(i))
  BY DEF Allow, Defers, PrevDefers
<1>3. Owed(k, i)' = Owed(k, i)
  BY DEF Owed
<1>4. ASSUME NEW p \in BOOLEAN, NEW m \in BOOLEAN, NEW d \in BOOLEAN
      PROVE  Work(k, i, p, m, d)' = Work(k, i, p, m, d)
  BY <1>1 DEF Work
<1> QED
  BY <1>1, <1>2, <1>3, <1>4

LEMMA RigidWork ==
  ASSUME UNCHANGED deferring, NEW k, NEW i, NEW p, NEW m, NEW d
  PROVE  Work(k, i, p, m, d)' = Work(k, i, p, m, d)
BY DEF Work, Imm, Def, PrevDefers

LEMMA OwedIs ==
  ASSUME NEW k, NEW i
  PROVE  Owed(k, i) = {Part("imm", k, i)} \union
                        IF PrevDefers(i) THEN {Part("def", k, i - 1)} ELSE {}
BY DEF Owed, Part, PrevDefers, TagOf

\* Work is a sequence of tasks.
LEMMA WorkTyped ==
  ASSUME deferring \in DeferChoices, NEW x \in Places, x.k \in 1..Passes,
         NEW p \in BOOLEAN, NEW m \in BOOLEAN, NEW d \in BOOLEAN, p => PrevDefers(x.i)
  PROVE  Work(x.k, x.i, p, m, d) \in Seq(CpuTasks)
<1>1. x.i \in 1..Len(Layers)
  BY DEF Places
<1>2. Imm(x.k, x.i) \in CpuTasks /\ Def(x.k, x.i) \in CpuTasks
  BY <1>1, TaskTypes
<1>3. p => Def(x.k, x.i - 1) \in CpuTasks
  BY <1>1, LayerFacts, TaskTypes
<1> QED
  BY <1>2, <1>3 DEF Work

LEMMA HoldsSame ==
  ASSUME NEW x, NEW p \in BOOLEAN, NEW m \in BOOLEAN, NEW d \in BOOLEAN, Holds(x, p, m, d),
         UNCHANGED <<deferring, dataVars, execVars>>
  PROVE  Holds(x, p, m, d)'
<1>0. UNCHANGED <<input, ids, output, delivered, announced, queue, active, waiting>>
  BY DEF dataVars, execVars
<1>1. Allowed(x, p, m, d)'
  BY Rigid DEF Holds, Allowed
<1>2. WorkIs(Work(x.k, x.i, p, m, d))'
  BY <1>0, Rigid DEF Holds, WorkIs
<1>3. ClientInv(x)'
  BY <1>0, Rigid DEF Holds, ClientInv
<1>4. InputInv(x, p)'
  BY <1>0, Rigid DEF Holds, InputInv
<1>5. OutputInv(x, p, m, d)'
  BY <1>0, Rigid DEF Holds, OutputInv
<1>6. DeliveredInv(x)'
  BY <1>0, Rigid DEF Holds, DeliveredInv
<1> QED
  BY <1>1, <1>2, <1>3, <1>4, <1>5, <1>6 DEF Holds

\* The operation at the head tells the place, and the other way round.
LEMMA HeadIs ==
  ASSUME NEW e, NEW x, Carries(e, x)
  PROVE  /\ e.op = "copy_input" =>
              x.o = "copy_input" /\ e.tag = TagOf(x.k, x.i) /\ e.slot = Slot(x.i)
         /\ e.op = "copy_deferred" =>
              x.o = "copy_deferred" /\ e.tag = TagOf(x.k, x.i) /\ e.slot = Slot(x.i)
         /\ e.op = "copy_output" =>
              x.o = "copy_output" /\ e.tag = TagOf(x.k, x.i) /\ e.slot = Slot(x.i)
         /\ e.op = "submit" =>
              \/ x.o = "imm" /\ e.task = Imm(x.k, x.i)
              \/ x.o = "def" /\ e.task = Def(x.k, x.i)
         /\ e.op = "sync" => x.o = "sync" /\ e.allow = Allow(x.i)
BY DEF Carries

-----------------------------------------------------------------------------
(* The invariant, initially and under Python's steps *)

THEOREM InitInv == Init => IInv
<1> SUFFICES ASSUME Init PROVE IInv
  OBVIOUS
<1>0. Len(Layers) \in Nat /\ Len(Layers) >= 1 /\ Passes \in Nat \ {0}
  BY LayersAssumption, BoundsAssumption
<1>1. deferring \in DeferChoices
  BY DEF Init
<1>2. deferring \in SUBSET LayerIds
  BY <1>1, DeferAssumption, <1>0 DEF LayerIds
<1>3. TypeOK
  BY <1>0, <1>2 DEF Init, TypeOK
<1>4. HostInv
  BY <1>0 DEF Init, HostInv
<1> DEFINE x == [k |-> 1, i |-> 1, o |-> "copy_input"]
           w == [j \in Nat \ {0} |-> x]
<1>5. x \in Places
  BY <1>0 DEF Places, Ops
<1>6. Path(w)
  BY <1>5 DEF Path, Carried, Here, Init
<1>7. Holds(x, FALSE, FALSE, FALSE)
  <2>1. ~PrevDefers(1)
    BY DEF PrevDefers
  <2>2. Allowed(x, FALSE, FALSE, FALSE)
    BY DEF Allowed
  <2>3. WorkIs(Work(x.k, x.i, FALSE, FALSE, FALSE))
    BY DEF WorkIs, Work, Init, Exec!Init
  <2>4. ClientInv(x)
    BY DEF ClientInv, Init, Exec!Init
  <2>5. InputInv(x, FALSE)
    BY DEF InputInv
  <2>6. OutputInv(x, FALSE, FALSE, FALSE)
    BY <2>1 DEF OutputInv
  <2>7. DeliveredInv(x)
    <3>1. SUFFICES ASSUME NEW k \in 1..Passes, NEW i \in 1..Len(Layers)
          PROVE  delivered[TagOf(k, i)] = {} /\ ~(k < 1 \/ (k = 1 /\ i < 1))
      BY DEF DeliveredInv
    <3>2. TagOf(k, i) \in Tags
      BY <1>1, TaskTypes
    <3> QED
      BY <3>2 DEF Init
  <2> QED
    BY <2>2, <2>3, <2>4, <2>5, <2>6, <2>7 DEF Holds
<1>8. w[1] = x
  OBVIOUS
<1> HIDE DEF x, w
<1> QED
  BY <1>1, <1>3, <1>4, <1>6, <1>7, <1>8 DEF IInv

LEMMA SubmitStep ==
  ASSUME IInv, SubmitForward
  PROVE  IInv'
<1>0. TypeOK /\ HostInv /\ deferring \in DeferChoices
  BY DEF IInv
<1>a. /\ stage = "submit" /\ stage' = "sync" /\ pass <= Passes
      /\ UNCHANGED <<deferring, pass, pos, dataVars, execVars>>
      /\ pendingDeferred' = [pendingDeferred EXCEPT ![layer_idx] = layer_idx \in deferring]
  BY DEF SubmitForward
<1> PICK w : Path(w) /\ \E p, m, d \in BOOLEAN : Holds(w[1], p, m, d)
  BY DEF IInv
<1>1. PICK v : Path(v)' /\ v[1] = w[1]
  BY <1>0, SubmitPath
<1>2. \E p, m, d \in BOOLEAN : Holds(v[1], p, m, d)'
  BY <1>a, <1>1, HoldsSame
<1>3. TypeOK'
  <2>1. stream' \in Seq(StreamOps)
    BY <1>0, SubmitPath
  <2>2. pendingDeferred' \in [LayerIds -> BOOLEAN]
    <3>1. pendingDeferred \in [LayerIds -> BOOLEAN] /\ (layer_idx \in deferring) \in BOOLEAN
      BY <1>0 DEF TypeOK
    <3> QED
      BY <1>a, <3>1
  <2> QED
    BY <1>0, <1>a, <2>1, <2>2 DEF TypeOK, dataVars
<1>4. HostInv'
  <2>1. SUFFICES ASSUME NEW j \in 1..Len(Layers), pass > 1 \/ j < pos \/ j = pos
        PROVE  pendingDeferred'[Layers[j]] <=> Layers[j] \in deferring
    <3>1. ~(pass' > Passes)
      BY <1>0, <1>a, BoundsAssumption DEF TypeOK
    <3>2. UNCHANGED <<deferring, pass, pos>> /\ stage' = "sync"
      BY <1>a
    <3> QED
      BY <2>1, <3>1, <3>2 DEF HostInv
  <2>2. CASE j = pos
    BY <1>0, <1>a, <2>2 DEF TypeOK, layer_idx, LayerIds
  <2>3. CASE j # pos
    <3>1. Layers[j] # Layers[pos]
      BY <1>0, <2>3, LayerFacts DEF TypeOK
    <3>2. pendingDeferred'[Layers[j]] = pendingDeferred[Layers[j]]
      BY <1>0, <1>a, <3>1 DEF TypeOK, layer_idx, LayerIds
    <3> QED
      BY <1>0, <1>a, <2>1, <2>3, <3>2 DEF HostInv
  <2> QED
    BY <2>2, <2>3
<1> QED
  BY <1>0, <1>a, <1>1, <1>2, <1>3, <1>4 DEF IInv

LEMMA SyncForwardStep ==
  ASSUME IInv, SyncForward
  PROVE  IInv'
<1>0. TypeOK /\ HostInv /\ deferring \in DeferChoices
  BY DEF IInv
<1>a. /\ stage = "sync" /\ stage' = "submit" /\ pass <= Passes
      /\ pos' = IF pos = Len(Layers) THEN 1 ELSE pos + 1
      /\ pass' = IF pos = Len(Layers) THEN pass + 1 ELSE pass
      /\ UNCHANGED <<deferring, pendingDeferred, dataVars, execVars>>
  BY DEF SyncForward
<1>b. Len(Layers) \in Nat /\ Len(Layers) >= 1 /\ Passes \in Nat
  BY LayersAssumption, BoundsAssumption
<1> PICK w : Path(w) /\ \E p, m, d \in BOOLEAN : Holds(w[1], p, m, d)
  BY DEF IInv
<1>1. PICK v : Path(v)' /\ v[1] = w[1]
  BY <1>0, SyncPath
<1>2. \E p, m, d \in BOOLEAN : Holds(v[1], p, m, d)'
  BY <1>a, <1>1, HoldsSame
<1>3. TypeOK'
  <2>1. stream' \in Seq(StreamOps)
    BY <1>0, SyncPath
  <2>2. pass' \in 1..(Passes + 1) /\ pos' \in 1..Len(Layers)
    BY <1>0, <1>a, <1>b DEF TypeOK
  <2> QED
    BY <1>0, <1>a, <2>1, <2>2 DEF TypeOK, dataVars
<1>4. HostInv'
  <2>1. SUFFICES ASSUME NEW j \in 1..Len(Layers), pass' > 1 \/ j < pos'
        PROVE  pendingDeferred[Layers[j]] <=> Layers[j] \in deferring
    <3>1. pass' > Passes => pos' = 1
      BY <1>0, <1>a, <1>b DEF TypeOK
    <3> QED
      BY <1>a, <2>1, <3>1 DEF HostInv
  <2>2. pass > 1 \/ j < pos \/ j = pos
    BY <1>0, <1>a, <1>b, <2>1 DEF TypeOK
  <2> QED
    BY <1>0, <1>a, <2>2 DEF HostInv
<1> QED
  BY <1>0, <1>a, <1>1, <1>2, <1>3, <1>4 DEF IInv

-----------------------------------------------------------------------------
(* The stream *)

\* What a step of the stream that executes an operation finds and leaves behind.
LEMMA PopStep ==
  ASSUME IInv, stream # <<>>, Pop, UNCHANGED <<deferring, hostVars>>,
         TypeOK => TypeOK',
         \A x, y \in Places : \A p, m, d \in BOOLEAN :
           x.k \in 1..Passes /\ Carries(Head(stream), x) /\ Follows(x, y) /\ Holds(x, p, m, d)
             => \E q, n, e \in BOOLEAN : Holds(y, q, n, e)'
  PROVE  IInv'
<1>0. TypeOK /\ HostInv /\ deferring \in DeferChoices
  BY DEF IInv
<1> PICK w : Path(w) /\ \E p, m, d \in BOOLEAN : Holds(w[1], p, m, d)
  BY DEF IInv
<1>1. /\ w[1] \in Places /\ w[2] \in Places /\ w[1].k \in 1..Passes
      /\ Carries(Head(stream), w[1]) /\ Follows(w[1], w[2])
  BY <1>0, HeadPlace
<1>2. PICK v : Path(v)' /\ v[1] = w[2]
  BY <1>0, PopPath
<1>3. \E q, n, e \in BOOLEAN : Holds(v[1], q, n, e)'
  BY <1>1, <1>2
<1>4. HostInv'
  BY <1>0 DEF HostInv, hostVars
<1> QED
  BY <1>0, <1>2, <1>3, <1>4 DEF IInv

\* The types, when the stream moves on and writes what its operation says.
LEMMA PopTypes ==
  ASSUME TypeOK, stream # <<>>, Pop
  PROVE  stream' \in Seq(StreamOps) /\ Head(stream) \in StreamOps
BY DEF TypeOK, Pop

LEMMA CopyInputStep ==
  ASSUME IInv, CopyInput
  PROVE  IInv'
<1> DEFINE e == Head(stream)
<1>0. /\ stream # <<>> /\ e.op = "copy_input" /\ Pop
      /\ input' = [input EXCEPT ![e.slot] = e.tag]
      /\ ids' = [ids EXCEPT !["imm"][e.slot] = e.tag]
      /\ UNCHANGED <<deferring, hostVars, output, delivered, execVars>>
  BY DEF CopyInput, At
<1>a. deferring \in DeferChoices /\ TypeOK
  BY DEF IInv
<1>1. TypeOK'
  <2>1. stream' \in Seq(StreamOps) /\ e \in StreamOps
    BY <1>0, <1>a, PopTypes
  <2>2. e.tag \in Tags /\ e.slot \in Slots
    BY <1>0, <2>1 DEF StreamOps
  <2>3. input' \in [Slots -> Tags \union {None}]
    BY <1>0, <1>a, <2>2 DEF TypeOK
  <2>4. ids' \in [{"imm", "def"} -> [Slots -> Tags \union {None}]]
    BY <1>0, <1>a, <2>2 DEF TypeOK
  <2> QED
    BY <1>0, <1>a, <2>1, <2>3, <2>4 DEF TypeOK, hostVars
<1>2. ASSUME NEW x \in Places, NEW y \in Places, NEW p \in BOOLEAN, NEW m \in BOOLEAN, NEW d \in BOOLEAN,
             x.k \in 1..Passes, Carries(e, x), Follows(x, y), Holds(x, p, m, d)
      PROVE  Holds(y, p, m, d)'
  <2>1. x.o = "copy_input" /\ e.tag = TagOf(x.k, x.i) /\ e.slot = Slot(x.i)
    BY <1>0, <1>2, HeadIs
  <2>2. y.o = "imm" /\ y.k = x.k /\ y.i = x.i /\ x.i \in 1..Len(Layers)
    BY <1>2, <2>1 DEF Follows, Places
  <2>3. UNCHANGED <<output, delivered, announced, queue, active, waiting, deferring>>
    BY <1>0 DEF execVars
  <2>4. Slot(x.i) \in Slots /\ (p => Slot(x.i - 1) \in Slots /\ Slot(x.i - 1) # Slot(x.i))
    <3>1. p => PrevDefers(x.i)
      BY <1>2 DEF Holds, Allowed
    <3>2. p => x.i - 1 \in 1..Len(Layers) /\ Defers(x.i - 1) /\ (x.i - 1) + 1 = x.i
      BY <1>a, <2>2, <3>1, LayerFacts
    <3> QED
      BY <1>a, <2>2, <3>2, LayerFacts
  <2>5. Allowed(y, p, m, d)'
    BY <1>2, <2>1, <2>2, <2>3, Rigid DEF Holds, Allowed
  <2>6. WorkIs(Work(y.k, y.i, p, m, d))'
    <3>1. Work(y.k, y.i, p, m, d)' = Work(x.k, x.i, p, m, d)
      BY <2>2, <2>3, RigidWork
    <3> QED
      BY <1>2, <2>3, <3>1 DEF Holds, WorkIs
  <2>7. ClientInv(y)'
    BY <1>2, <2>1, <2>2, <2>3, Rigid DEF Holds, ClientInv
  <2>8. InputInv(y, p)'
    <3>1. input'[Slot(x.i)] = TagOf(x.k, x.i) /\ ids'["imm"][Slot(x.i)] = TagOf(x.k, x.i)
      BY <1>0, <1>a, <2>1, <2>4 DEF TypeOK
    <3>2. p => input'[Slot(x.i - 1)] = input[Slot(x.i - 1)]
      BY <1>0, <1>a, <2>1, <2>4 DEF TypeOK
    <3>3. ids'["def"] = ids["def"]
      BY <1>0, <1>a DEF TypeOK
    <3> QED
      BY <1>2, <2>1, <2>2, <3>1, <3>2, <3>3 DEF Holds, InputInv
  <2>9. OutputInv(y, p, m, d)'
    BY <1>2, <2>1, <2>2, <2>3, Rigid DEF Holds, OutputInv, Allowed
  <2>10. DeliveredInv(y)'
    BY <1>2, <2>2, <2>3, Rigid DEF Holds, DeliveredInv
  <2> QED
    BY <2>5, <2>6, <2>7, <2>8, <2>9, <2>10 DEF Holds
<1> HIDE DEF e
<1>3. \A x, y \in Places : \A p, m, d \in BOOLEAN :
        x.k \in 1..Passes /\ Carries(e, x) /\ Follows(x, y) /\ Holds(x, p, m, d)
          => \E q, n, f \in BOOLEAN : Holds(y, q, n, f)'
  BY <1>2
<1> QED
  BY <1>0, <1>1, <1>3, PopStep DEF e

LEMMA CopyDeferredStep ==
  ASSUME IInv, CopyDeferred
  PROVE  IInv'
<1> DEFINE e == Head(stream)
<1>0. /\ stream # <<>> /\ e.op = "copy_deferred" /\ Pop
      /\ ids' = [ids EXCEPT !["def"][e.slot] = e.tag]
      /\ UNCHANGED <<deferring, hostVars, input, output, delivered, execVars>>
  BY DEF CopyDeferred, At
<1>a. deferring \in DeferChoices /\ TypeOK
  BY DEF IInv
<1>1. TypeOK'
  <2>1. stream' \in Seq(StreamOps) /\ e \in StreamOps
    BY <1>0, <1>a, PopTypes
  <2>2. e.tag \in Tags /\ e.slot \in Slots
    BY <1>0, <2>1 DEF StreamOps
  <2>3. ids' \in [{"imm", "def"} -> [Slots -> Tags \union {None}]]
    BY <1>0, <1>a, <2>2 DEF TypeOK
  <2> QED
    BY <1>0, <1>a, <2>1, <2>3 DEF TypeOK, hostVars
<1>2. ASSUME NEW x \in Places, NEW y \in Places, NEW p \in BOOLEAN, NEW m \in BOOLEAN, NEW d \in BOOLEAN,
             x.k \in 1..Passes, Carries(e, x), Follows(x, y), Holds(x, p, m, d)
      PROVE  Holds(y, p, m, d)'
  <2>1. x.o = "copy_deferred" /\ e.tag = TagOf(x.k, x.i) /\ e.slot = Slot(x.i)
    BY <1>0, <1>2, HeadIs
  <2>2. y.o = "def" /\ y.k = x.k /\ y.i = x.i /\ x.i \in 1..Len(Layers)
    BY <1>2, <2>1 DEF Follows, Places
  <2>3. UNCHANGED <<input, output, delivered, announced, queue, active, waiting, deferring>>
    BY <1>0 DEF execVars
  <2>4. Slot(x.i) \in Slots /\ (p => Slot(x.i - 1) \in Slots /\ Slot(x.i - 1) # Slot(x.i))
    <3>1. p => PrevDefers(x.i)
      BY <1>2 DEF Holds, Allowed
    <3>2. p => x.i - 1 \in 1..Len(Layers) /\ Defers(x.i - 1) /\ (x.i - 1) + 1 = x.i
      BY <1>a, <2>2, <3>1, LayerFacts
    <3> QED
      BY <1>a, <2>2, <3>2, LayerFacts
  <2>5. Allowed(y, p, m, d)'
    BY <1>2, <2>1, <2>2, <2>3, Rigid DEF Holds, Allowed
  <2>6. WorkIs(Work(y.k, y.i, p, m, d))'
    <3>1. Work(y.k, y.i, p, m, d)' = Work(x.k, x.i, p, m, d)
      BY <2>2, <2>3, RigidWork
    <3> QED
      BY <1>2, <2>3, <3>1 DEF Holds, WorkIs
  <2>7. ClientInv(y)'
    BY <1>2, <2>1, <2>2, <2>3, Rigid DEF Holds, ClientInv
  <2>8. InputInv(y, p)'
    <3>1. ids'["def"][Slot(x.i)] = TagOf(x.k, x.i) /\ ids'["imm"] = ids["imm"]
      BY <1>0, <1>a, <2>1, <2>4 DEF TypeOK
    <3>2. p => ids'["def"][Slot(x.i - 1)] = ids["def"][Slot(x.i - 1)]
      BY <1>0, <1>a, <2>1, <2>4 DEF TypeOK
    <3> QED
      BY <1>2, <2>1, <2>2, <2>3, <3>1, <3>2 DEF Holds, InputInv
  <2>9. OutputInv(y, p, m, d)'
    BY <1>2, <2>1, <2>2, <2>3, Rigid DEF Holds, OutputInv, Allowed
  <2>10. DeliveredInv(y)'
    BY <1>2, <2>2, <2>3, Rigid DEF Holds, DeliveredInv
  <2> QED
    BY <2>5, <2>6, <2>7, <2>8, <2>9, <2>10 DEF Holds
<1> HIDE DEF e
<1>3. \A x, y \in Places : \A p, m, d \in BOOLEAN :
        x.k \in 1..Passes /\ Carries(e, x) /\ Follows(x, y) /\ Holds(x, p, m, d)
          => \E q, n, f \in BOOLEAN : Holds(y, q, n, f)'
  BY <1>2
<1> QED
  BY <1>0, <1>1, <1>3, PopStep DEF e

LEMMA HostCallStep ==
  ASSUME IInv, HostEnqueue \/ HostSync
  PROVE  IInv'
<1> DEFINE e == Head(stream)
<1>a. deferring \in DeferChoices /\ TypeOK /\ HostInv
  BY DEF IInv
<1>0. /\ stream # <<>> /\ UNCHANGED <<deferring, hostVars, stream, dataVars, queue, active>>
      /\ \/ /\ e.op = "submit" /\ announced' = [announced EXCEPT !["stream"] = e.task]
            /\ waiting' = waiting
         \/ /\ e.op = "sync" /\ waiting' = [waiting EXCEPT !["stream"] = e.allow]
            /\ announced' = announced
  BY DEF HostEnqueue, HostSync, At, Exec!Announce, Exec!Wait
<1> PICK w : Path(w) /\ \E p, m, d \in BOOLEAN : Holds(w[1], p, m, d)
  BY DEF IInv
<1> PICK x : x = w[1]
  OBVIOUS
<1> PICK p \in BOOLEAN, m \in BOOLEAN, d \in BOOLEAN : Holds(x, p, m, d)
  OBVIOUS
<1>1. Carries(e, x)
  BY <1>0, <1>a, HeadPlace
<1>2. Path(w)'
  BY <1>0, Recarry DEF Path, Here, hostVars
<1>3. TypeOK' /\ HostInv'
  BY <1>0, <1>a DEF TypeOK, HostInv, hostVars, dataVars
<1>4. Holds(x, p, m, d)'
  <2>0. UNCHANGED <<input, ids, output, delivered>>
    BY <1>0 DEF dataVars
  <2>1. Allowed(x, p, m, d)'
    BY <1>0, Rigid DEF Holds, Allowed
  <2>2. WorkIs(Work(x.k, x.i, p, m, d))'
    <3>1. Work(x.k, x.i, p, m, d)' = Work(x.k, x.i, p, m, d)
      BY <1>0, RigidWork
    <3> QED
      BY <1>0, <3>1 DEF Holds, WorkIs
  <2>3. ClientInv(x)'
    <3>1. ClientInv(x)
      BY DEF Holds
    <3>2. CASE e.op = "submit" /\ announced' = [announced EXCEPT !["stream"] = e.task] /\ waiting' = waiting
      <4>1. \/ x.o = "imm" /\ e.task = Imm(x.k, x.i)
            \/ x.o = "def" /\ e.task = Def(x.k, x.i)
        BY <1>1, <3>2, HeadIs
      <4>2. announced'["stream"] = e.task /\ announced' = [c \in {"stream"} |-> announced'["stream"]]
        BY <3>1, <3>2 DEF ClientInv
      <4> HIDE DEF e
      <4> QED
        BY <1>0, <3>1, <3>2, <4>1, <4>2, Rigid DEF ClientInv
    <3>3. CASE e.op = "sync" /\ waiting' = [waiting EXCEPT !["stream"] = e.allow] /\ announced' = announced
      <4>1. x.o = "sync" /\ e.allow = Allow(x.i)
        BY <1>1, <3>3, HeadIs
      <4>2. waiting'["stream"] = e.allow /\ waiting' = [c \in {"stream"} |-> waiting'["stream"]]
        BY <3>1, <3>3 DEF ClientInv
      <4> HIDE DEF e
      <4> QED
        BY <1>0, <3>1, <3>3, <4>1, <4>2, Rigid DEF ClientInv
    <3> QED
      BY <1>0, <3>2, <3>3
  <2>4. InputInv(x, p)'
    BY <1>0, <2>0, Rigid DEF Holds, InputInv
  <2>5. OutputInv(x, p, m, d)'
    BY <1>0, <2>0, Rigid DEF Holds, OutputInv
  <2>6. DeliveredInv(x)'
    BY <1>0, <2>0, Rigid DEF Holds, DeliveredInv
  <2> QED
    BY <2>1, <2>2, <2>3, <2>4, <2>5, <2>6 DEF Holds
<1> HIDE DEF e
<1> QED
  BY <1>0, <1>a, <1>2, <1>3, <1>4 DEF IInv

LEMMA HostEnqueuedStep ==
  ASSUME IInv, HostEnqueued
  PROVE  IInv'
<1> DEFINE e == Head(stream)
<1>0. /\ stream # <<>> /\ e.op = "submit" /\ Pop /\ Exec!Commit("stream")
      /\ announced["stream"] # None /\ announced' = [announced EXCEPT !["stream"] = None]
      /\ UNCHANGED <<deferring, hostVars, input, ids, output, delivered, active, waiting>>
  BY DEF HostEnqueued, At, Exec!Commit, dataVars
<1>a. deferring \in DeferChoices /\ TypeOK
  BY DEF IInv
<1>1. TypeOK'
  BY <1>0, <1>a, PopTypes DEF TypeOK, hostVars
<1>2. ASSUME NEW x \in Places, NEW y \in Places, NEW p \in BOOLEAN, NEW m \in BOOLEAN, NEW d \in BOOLEAN,
             x.k \in 1..Passes, Carries(e, x), Follows(x, y), Holds(x, p, m, d)
      PROVE  \E q, n, f \in BOOLEAN : Holds(y, q, n, f)'
  <2>0. x.i \in 1..Len(Layers) /\ y.k = x.k /\ y.i = x.i /\ x.o \in {"imm", "def"}
    BY <1>0, <1>2, HeadIs DEF Follows, Places
  <2>a. /\ Imm(x.k, x.i) \in CpuTasks /\ Imm(x.k, x.i) # None
        /\ Def(x.k, x.i) \in CpuTasks /\ Def(x.k, x.i) # None /\ None \notin CpuTasks
    BY <1>2, <1>a, <2>0, TaskTypes, NoneAssumption
  <2>b. /\ Allowed(x, p, m, d) /\ WorkIs(Work(x.k, x.i, p, m, d)) /\ ClientInv(x)
        /\ InputInv(x, p) /\ OutputInv(x, p, m, d) /\ DeliveredInv(x)
    BY <1>2 DEF Holds
  <2>c. Work(x.k, x.i, p, m, d) \in Seq(CpuTasks)
    BY <1>2, <1>a, <2>b, WorkTyped DEF Allowed
  <2>d. announced'["stream"] = None /\ announced' = [c \in {"stream"} |-> announced'["stream"]]
    BY <1>0, <2>b DEF ClientInv
  <2>e. waiting' = [c \in {"stream"} |-> waiting'["stream"]] /\ waiting'["stream"] = None
    BY <1>0, <2>0, <2>b DEF ClientInv
  <2>1. ClientInv(y)'
    BY <2>d, <2>e DEF ClientInv
  <2>2. DeliveredInv(y)'
    BY <1>0, <2>0, <2>b, Rigid DEF DeliveredInv
  <2>3. CASE x.o = "imm"
    <3>1. y.o = (IF Defers(x.i) THEN "copy_deferred" ELSE "sync") /\ ~m /\ ~d
      BY <1>2, <2>3, <2>b DEF Follows, Allowed
    <3>2. announced["stream"] = Imm(x.k, x.i)
      BY <1>0, <2>3, <2>b DEF ClientInv
    <3>3. Work(x.k, x.i, p, m, d) = Work(x.k, x.i, p, FALSE, FALSE)
      BY <3>1
    <3>4. Append(Work(x.k, x.i, p, FALSE, FALSE), Imm(x.k, x.i)) = Work(x.k, x.i, p, TRUE, FALSE)
      BY WorkGrows
    <3>5. PICK W : W = Work(x.k, x.i, p, FALSE, FALSE)
      OBVIOUS
    <3>6. PICK U : U = Work(x.k, x.i, p, TRUE, FALSE)
      OBVIOUS
    <3>7. PICK t : t = Imm(x.k, x.i)
      OBVIOUS
    <3>8. WorkIs(W) /\ W \in Seq(CpuTasks) /\ t \in CpuTasks /\ announced["stream"] = t /\ Append(W, t) = U
      BY <2>a, <2>b, <2>c, <3>2, <3>3, <3>4, <3>5, <3>6, <3>7
    <3>9. WorkIs(U)'
      BY <1>0, <2>a, <3>8, WorkMoves
    <3>10. Work(y.k, y.i, p, TRUE, FALSE)' = Work(x.k, x.i, p, TRUE, FALSE)
      BY <1>0, <2>0 DEF Work, Imm, Def, PrevDefers
    <3>11. WorkIs(Work(y.k, y.i, p, TRUE, FALSE))'
      BY <3>6, <3>9, <3>10 DEF WorkIs
    <3>12. Allowed(y, p, TRUE, FALSE)'
      BY <1>0, <2>0, <2>3, <2>b, <3>1, Rigid DEF Allowed
    <3>13. InputInv(y, p)'
      BY <1>0, <2>0, <2>3, <2>b, <3>1, Rigid DEF InputInv
    <3>14. OutputInv(y, p, TRUE, FALSE)'
      BY <1>0, <2>0, <2>3, <2>b, <3>1, Rigid DEF OutputInv
    <3>15. Holds(y, p, TRUE, FALSE)'
      BY <2>1, <2>2, <3>11, <3>12, <3>13, <3>14 DEF Holds
    <3> QED
      BY <3>15
  <2>4. CASE x.o = "def"
    <3>1. y.o = "sync" /\ ~d /\ (p => m) /\ Defers(x.i)
      BY <1>2, <2>4, <2>b DEF Follows, Allowed
    <3>2. announced["stream"] = Def(x.k, x.i)
      BY <1>0, <2>4, <2>b DEF ClientInv
    <3>3. Work(x.k, x.i, p, m, d) = Work(x.k, x.i, p, m, FALSE)
      BY <3>1
    <3>4. Append(Work(x.k, x.i, p, m, FALSE), Def(x.k, x.i)) = Work(x.k, x.i, p, m, TRUE)
      BY <3>1, WorkGrows
    <3>5. PICK W : W = Work(x.k, x.i, p, m, FALSE)
      OBVIOUS
    <3>6. PICK U : U = Work(x.k, x.i, p, m, TRUE)
      OBVIOUS
    <3>7. PICK t : t = Def(x.k, x.i)
      OBVIOUS
    <3>8. WorkIs(W) /\ W \in Seq(CpuTasks) /\ t \in CpuTasks /\ announced["stream"] = t /\ Append(W, t) = U
      BY <2>a, <2>b, <2>c, <3>2, <3>3, <3>4, <3>5, <3>6, <3>7
    <3>9. WorkIs(U)'
      BY <1>0, <2>a, <3>8, WorkMoves
    <3>10. Work(y.k, y.i, p, m, TRUE)' = Work(x.k, x.i, p, m, TRUE)
      BY <1>0, <2>0 DEF Work, Imm, Def, PrevDefers
    <3>11. WorkIs(Work(y.k, y.i, p, m, TRUE))'
      BY <3>6, <3>9, <3>10 DEF WorkIs
    <3>12. Allowed(y, p, m, TRUE)'
      BY <1>0, <2>0, <2>4, <2>b, <3>1, Rigid DEF Allowed
    <3>13. InputInv(y, p)'
      BY <1>0, <2>0, <2>4, <2>b, <3>1, Rigid DEF InputInv
    <3>14. OutputInv(y, p, m, TRUE)'
      BY <1>0, <2>0, <2>4, <2>b, <3>1, Rigid DEF OutputInv
    <3>15. Holds(y, p, m, TRUE)'
      BY <2>1, <2>2, <3>11, <3>12, <3>13, <3>14 DEF Holds
    <3> QED
      BY <3>15
  <2> QED
    BY <2>0, <2>3, <2>4
<1> HIDE DEF e
<1>3. \A x, y \in Places : \A p, m, d \in BOOLEAN :
        x.k \in 1..Passes /\ Carries(e, x) /\ Follows(x, y) /\ Holds(x, p, m, d)
          => \E q, n, f \in BOOLEAN : Holds(y, q, n, f)'
  BY <1>2
<1> QED
  BY <1>0, <1>1, <1>3, PopStep DEF e

\* What the executor calls unfinished while the stream waits.
LEMMA Waited ==
  ASSUME deferring \in DeferChoices, NEW x \in Places, x.k \in 1..Passes, x.o = "sync",
         NEW p \in BOOLEAN, NEW m \in BOOLEAN, NEW d \in BOOLEAN,
         Allowed(x, p, m, d), WorkIs(Work(x.k, x.i, p, m, d)), ClientInv(x),
         Exec!Cardinality(Exec!Unfinished) <= Allow(x.i)
  PROVE  ~p /\ ~m
<1>0. x.i \in 1..Len(Layers)
  BY DEF Places
<1>1. (p => m) /\ (m /\ Defers(x.i) => d) /\ (p => PrevDefers(x.i))
  BY DEF Allowed
<1> DEFINE P == Def(x.k, x.i - 1)
           M == Imm(x.k, x.i)
           D == Def(x.k, x.i)
           U == Exec!Unfinished
<1>2. M # D
  BY <1>0, TaskTypes
<1>3. Work(x.k, x.i, p, m, d) \in Seq(CpuTasks)
  BY <1>1, WorkTyped
<1>4. ASSUME NEW t
      PROVE  t \in Exec!Queued \union Exec!Running <=> (p /\ t = P) \/ (m /\ t = M) \/ (d /\ t = D)
  <2>1. PICK W : W = Work(x.k, x.i, p, m, d)
    OBVIOUS
  <2>2. None \notin CpuTasks /\ W \in Seq(CpuTasks) /\ WorkIs(W)
    BY <1>3, <2>1, NoneAssumption
  <2>3. t \in Exec!Queued \union Exec!Running <=> \E j \in 1..Len(W) : W[j] = t
    BY <2>2, WorkSet
  <2>4. p /\ d => m
    BY <1>1
  <2>5. (\E j \in 1..Len(W) : W[j] = t) <=> (p /\ t = P) \/ (m /\ t = M) \/ (d /\ t = D)
    <3>1. (\E j \in 1..Len(W) : W[j] = t) <=> t \in Outstanding(x.k, x.i, p, m, d)
      BY <2>1, <2>4, WorkMembers
    <3> QED
      BY <3>1 DEF Outstanding
  <2> QED
    BY <2>3, <2>5
<1>5. Exec!Announced = {}
  BY DEF Exec!Announced, ClientInv
<1>6. \A t : t \in U <=> (p /\ t = P) \/ (m /\ t = M) \/ (d /\ t = D)
  BY <1>4, <1>5 DEF Exec!Unfinished
<1>7. Cardinality(U) <= Allow(x.i)
  BY DEF Exec!Cardinality, Cardinality
<1> HIDE DEF P, M, D, U
<1>8. IsFiniteSet(U)
  <2>1. IsFiniteSet({P, M, D})
    <3>1. IsFiniteSet({P})
      BY FS_Singleton
    <3>2. IsFiniteSet({P} \union {M})
      BY <3>1, FS_AddElement
    <3>3. IsFiniteSet(({P} \union {M}) \union {D})
      BY <3>2, FS_AddElement
    <3>4. ({P} \union {M}) \union {D} = {P, M, D}
      OBVIOUS
    <3> QED
      BY <3>3, <3>4
  <2>2. U \subseteq {P, M, D}
    BY <1>6
  <2> QED
    BY <2>1, <2>2, FS_Subset
<1>9. Cardinality(U) \in Nat
  BY <1>8, FS_CardinalityType
<1>10. ~m
  <2>1. SUFFICES ASSUME m PROVE FALSE
    OBVIOUS
  <2>2. CASE Defers(x.i)
    <3>1. {M, D} \subseteq U
      BY <1>1, <1>6, <2>1, <2>2
    <3>2. Cardinality({M, D}) = 2
      <4>1. IsFiniteSet({M}) /\ Cardinality({M}) = 1
        BY FS_Singleton
      <4>2. Cardinality({M} \union {D}) = 2
        <5>1. D \notin {M}
          BY <1>2
        <5>2. Cardinality({M} \union {D}) = Cardinality({M}) + 1
          BY <4>1, <5>1, FS_AddElement
        <5> QED
          BY <4>1, <5>2
      <4>3. {M} \union {D} = {M, D}
        OBVIOUS
      <4> QED
        BY <4>2, <4>3
    <3>3. 2 <= Cardinality(U)
      BY <1>8, <3>1, <3>2, FS_Subset
    <3>4. Cardinality(U) <= 1
      BY <1>7, <2>2 DEF Allow
    <3> QED
      BY <1>9, <3>3, <3>4
  <2>3. CASE ~Defers(x.i)
    <3>1. Cardinality(U) = 0
      BY <1>7, <1>9, <2>3 DEF Allow
    <3>2. U = {}
      BY <1>8, <3>1, FS_EmptySet
    <3> QED
      BY <1>6, <2>1, <3>2
  <2> QED
    BY <2>2, <2>3
<1> QED
  BY <1>1, <1>10

LEMMA HostSyncedStep ==
  ASSUME IInv, HostSynced
  PROVE  IInv'
<1> DEFINE e == Head(stream)
<1>0. /\ stream # <<>> /\ e.op = "sync" /\ Pop
      /\ waiting["stream"] # None /\ Exec!Cardinality(Exec!Unfinished) <= waiting["stream"]
      /\ waiting' = [waiting EXCEPT !["stream"] = None]
      /\ UNCHANGED <<deferring, hostVars, input, ids, output, delivered, active, queue, announced>>
  BY DEF HostSynced, At, Exec!GoOn, dataVars
<1>a. deferring \in DeferChoices /\ TypeOK
  BY DEF IInv
<1>1. TypeOK'
  BY <1>0, <1>a, PopTypes DEF TypeOK, hostVars
<1>2. ASSUME NEW x \in Places, NEW y \in Places, NEW p \in BOOLEAN, NEW m \in BOOLEAN, NEW d \in BOOLEAN,
             x.k \in 1..Passes, Carries(e, x), Follows(x, y), Holds(x, p, m, d)
      PROVE  Holds(y, p, m, d)'
  <2>0. x.i \in 1..Len(Layers) /\ y.k = x.k /\ y.i = x.i /\ x.o = "sync" /\ y.o = "copy_output"
    BY <1>0, <1>2, HeadIs DEF Follows, Places
  <2>b. /\ Allowed(x, p, m, d) /\ WorkIs(Work(x.k, x.i, p, m, d)) /\ ClientInv(x)
        /\ InputInv(x, p) /\ OutputInv(x, p, m, d) /\ DeliveredInv(x)
    BY <1>2 DEF Holds
  <2>c. waiting["stream"] = Allow(x.i)
    BY <1>0, <2>b DEF ClientInv
  <2>d. ~p /\ ~m
    <3>1. Exec!Cardinality(Exec!Unfinished) <= Allow(x.i)
      BY <1>0, <2>c
    <3> QED
      BY <1>2, <1>a, <2>0, <2>b, <3>1, Waited
  <2>1. Allowed(y, p, m, d)'
    BY <1>0, <2>0, <2>b, <2>d, Rigid DEF Allowed
  <2>2. WorkIs(Work(y.k, y.i, p, m, d))'
    <3>1. Work(y.k, y.i, p, m, d)' = Work(x.k, x.i, p, m, d)
      BY <1>0, <2>0, RigidWork
    <3> QED
      BY <1>0, <2>b, <3>1 DEF WorkIs
  <2>3. ClientInv(y)'
    <3>1. announced["stream"] = None
      BY <2>0, <2>b DEF ClientInv
    <3>2. waiting'["stream"] = None /\ waiting' = [c \in {"stream"} |-> waiting'["stream"]]
      BY <1>0, <2>b DEF ClientInv
    <3> QED
      BY <1>0, <2>b, <3>1, <3>2 DEF ClientInv
  <2>4. InputInv(y, p)'
    BY <1>0, <2>0, <2>b, Rigid DEF InputInv
  <2>5. OutputInv(y, p, m, d)'
    BY <1>0, <2>0, <2>b, <2>d, Rigid DEF OutputInv
  <2>6. DeliveredInv(y)'
    BY <1>0, <2>0, <2>b, Rigid DEF DeliveredInv
  <2> QED
    BY <2>1, <2>2, <2>3, <2>4, <2>5, <2>6 DEF Holds
<1> HIDE DEF e
<1>3. \A x, y \in Places : \A p, m, d \in BOOLEAN :
        x.k \in 1..Passes /\ Carries(e, x) /\ Follows(x, y) /\ Holds(x, p, m, d)
          => \E q, n, f \in BOOLEAN : Holds(y, q, n, f)'
  BY <1>2
<1> QED
  BY <1>0, <1>1, <1>3, PopStep DEF e

LEMMA CopyOutputStep ==
  ASSUME IInv, CopyOutput
  PROVE  IInv'
<1> DEFINE e == Head(stream)
<1>0. /\ stream # <<>> /\ e.op = "copy_output" /\ Pop
      /\ delivered' = [delivered EXCEPT ![e.tag] = output[e.slot]]
      /\ UNCHANGED <<deferring, hostVars, input, ids, output, announced, queue, active, waiting>>
  BY DEF CopyOutput, At, execVars
<1>a. deferring \in DeferChoices /\ TypeOK
  BY DEF IInv
<1>1. TypeOK'
  <2>1. stream' \in Seq(StreamOps) /\ e \in StreamOps
    BY <1>0, <1>a, PopTypes
  <2>2. e.tag \in Tags /\ e.slot \in Slots
    BY <1>0, <2>1 DEF StreamOps
  <2>3. delivered' \in [Tags -> SUBSET Contributions]
    BY <1>0, <1>a, <2>2 DEF TypeOK
  <2> QED
    BY <1>0, <1>a, <2>1, <2>3 DEF TypeOK, hostVars
<1>2. ASSUME NEW x \in Places, NEW y \in Places, NEW p \in BOOLEAN, NEW m \in BOOLEAN, NEW d \in BOOLEAN,
             x.k \in 1..Passes, Carries(e, x), Follows(x, y), Holds(x, p, m, d)
      PROVE  Holds(y, d, p, m)'
  <2>0. /\ x.i \in 1..Len(Layers) /\ x.o = "copy_output" /\ y.o = "copy_input"
        /\ e.tag = TagOf(x.k, x.i) /\ e.slot = Slot(x.i)
        /\ y.k = IF x.i = Len(Layers) THEN x.k + 1 ELSE x.k
        /\ y.i = IF x.i = Len(Layers) THEN 1 ELSE x.i + 1
    BY <1>0, <1>2, HeadIs DEF Follows, Places
  <2>a. Len(Layers) \in Nat
    BY LayersAssumption
  <2>b. /\ Allowed(x, p, m, d) /\ WorkIs(Work(x.k, x.i, p, m, d)) /\ ClientInv(x)
        /\ InputInv(x, p) /\ OutputInv(x, p, m, d) /\ DeliveredInv(x)
    BY <1>2 DEF Holds
  <2>c. ~p /\ ~m /\ (d => Defers(x.i))
    BY <2>0, <2>b DEF Allowed
  <2>d. /\ Defers(x.i) => x.i # Len(Layers) /\ y.k = x.k /\ y.i = x.i + 1 /\ PrevDefers(y.i)
        /\ PrevDefers(y.i) => Defers(x.i)
    <3>1. Defers(x.i) => x.i # Len(Layers) /\ PrevDefers(x.i + 1)
      BY <1>a, <2>0, LayerFacts
    <3>2. PrevDefers(y.i) => Defers(x.i)
      BY <2>0, <2>a DEF PrevDefers, Defers
    <3> QED
      BY <2>0, <3>1, <3>2
  <2>1. Allowed(y, d, p, m)'
    <3>1. d => PrevDefers(y.i)
      BY <2>c, <2>d
    <3> QED
      BY <1>0, <2>0, <2>c, <3>1, Rigid DEF Allowed
  <2>2. WorkIs(Work(y.k, y.i, d, p, m))'
    <3>1. Work(y.k, y.i, d, p, m) = Work(x.k, x.i, p, m, d)
      <4>1. CASE d
        <5>1. y.k = x.k /\ y.i - 1 = x.i
          BY <2>0, <2>c, <2>d, <4>1
        <5> QED
          BY <2>c, <4>1, <5>1 DEF Work
      <4>2. CASE ~d
        BY <2>c, <4>2 DEF Work
      <4> QED
        BY <4>1, <4>2
    <3>2. Work(y.k, y.i, d, p, m)' = Work(y.k, y.i, d, p, m)
      BY <1>0, RigidWork
    <3> QED
      BY <1>0, <2>b, <3>1, <3>2 DEF WorkIs
  <2>3. ClientInv(y)'
    BY <1>0, <2>0, <2>b DEF ClientInv
  <2>4. InputInv(y, d)'
    <3>1. d => y.k = x.k /\ y.i - 1 = x.i
      BY <2>0, <2>c, <2>d
    <3> QED
      BY <1>0, <2>0, <2>b, <2>c, <3>1 DEF InputInv
  <2>5. OutputInv(y, d, p, m)'
    <3>1. PrevDefers(y.i)' <=> PrevDefers(y.i)
      BY <1>0, Rigid
    <3>2. PrevDefers(y.i) /\ ~d => output[Slot(y.i)] = {Part("def", y.k, y.i - 1)}
      <4>1. SUFFICES ASSUME PrevDefers(y.i), ~d PROVE output[Slot(y.i)] = {Part("def", y.k, y.i - 1)}
        OBVIOUS
      <4>2. Defers(x.i) /\ y.k = x.k /\ y.i = x.i + 1 /\ y.i - 1 = x.i
        BY <2>0, <2>d, <4>1
      <4>3. output[Slot(x.i + 1)] = {Part("def", x.k, x.i)}
        BY <2>0, <2>b, <4>1, <4>2 DEF OutputInv
      <4> QED
        BY <4>2, <4>3
    <3> QED
      BY <1>0, <2>0, <3>1, <3>2 DEF OutputInv
  <2>6. DeliveredInv(y)'
    <3>1. SUFFICES ASSUME NEW k \in 1..Passes, NEW i \in 1..Len(Layers)
          PROVE  delivered'[TagOf(k, i)] =
                   IF k < y.k \/ (k = y.k /\ i < y.i) THEN Owed(k, i) ELSE {}
      BY <1>0, Rigid DEF DeliveredInv
    <3>2. TagOf(k, i) \in Tags /\ TagOf(x.k, x.i) \in Tags
      BY <1>a, <1>2, <2>0, TaskTypes
    <3>3. delivered[TagOf(k, i)] = IF k < x.k \/ (k = x.k /\ i < x.i) THEN Owed(k, i) ELSE {}
      BY <2>b DEF DeliveredInv
    <3>4. CASE k = x.k /\ i = x.i
      <4>1. delivered'[TagOf(k, i)] = output[Slot(x.i)]
        BY <1>0, <1>a, <2>0, <3>2, <3>4 DEF TypeOK
      <4>2. output[Slot(x.i)] = Owed(x.k, x.i)
        BY <2>0, <2>b, <2>c DEF OutputInv
      <4>3. k < y.k \/ (k = y.k /\ i < y.i)
        BY <2>0, <2>a, <3>4
      <4> QED
        BY <3>4, <4>1, <4>2, <4>3
    <3>5. CASE ~(k = x.k /\ i = x.i)
      <4>1. TagOf(k, i) # TagOf(x.k, x.i)
        <5>1. i = x.i \/ Layers[i] # Layers[x.i]
          BY <1>a, <2>0, LayerFacts
        <5> QED
          BY <3>5, <5>1 DEF TagOf
      <4>2. delivered'[TagOf(k, i)] = delivered[TagOf(k, i)]
        BY <1>0, <1>a, <2>0, <3>2, <4>1 DEF TypeOK
      <4>3. (k < y.k \/ (k = y.k /\ i < y.i)) <=> (k < x.k \/ (k = x.k /\ i < x.i))
        BY <1>2, <2>0, <2>a, <3>5
      <4> QED
        BY <3>3, <4>2, <4>3
    <3> QED
      BY <3>4, <3>5
  <2> QED
    BY <2>1, <2>2, <2>3, <2>4, <2>5, <2>6 DEF Holds
<1> HIDE DEF e
<1>3. \A x, y \in Places : \A p, m, d \in BOOLEAN :
        x.k \in 1..Passes /\ Carries(e, x) /\ Follows(x, y) /\ Holds(x, p, m, d)
          => \E q, n, f \in BOOLEAN : Holds(y, q, n, f)'
  BY <1>2
<1> QED
  BY <1>0, <1>1, <1>3, PopStep DEF e

-----------------------------------------------------------------------------
(* The worker *)

\* Where the head of the stream may be: no place of a pass that is not issued.
LEMMA PathPlace ==
  ASSUME TypeOK, HostInv, NEW w, Path(w)
  PROVE  /\ w[1] \in Places
         /\ w[1].k \in 1..Passes \/ (w[1].i = 1 /\ w[1].o = "copy_input")
<1>1. w[1] \in Places
  BY DEF Path, Carried
<1>2. CASE stream # <<>>
  BY <1>2, HeadPlace
<1>3. CASE stream = <<>>
  <2>1. w[1] = Here
    BY <1>3 DEF Path, Carried
  <2>2. pass \in 1..Passes \/ (pos = 1 /\ stage = "submit")
    BY BoundsAssumption DEF TypeOK, HostInv
  <2> QED
    BY <1>1, <2>1, <2>2 DEF Here
<1> QED
  BY <1>1, <1>2, <1>3

\* There too Work is a sequence of tasks; when it is not empty, its place is in a pass.
LEMMA WorkThere ==
  ASSUME deferring \in DeferChoices, NEW x \in Places,
         x.k \in 1..Passes \/ (x.i = 1 /\ x.o = "copy_input"),
         NEW p \in BOOLEAN, NEW m \in BOOLEAN, NEW d \in BOOLEAN, Allowed(x, p, m, d)
  PROVE  /\ Work(x.k, x.i, p, m, d) \in Seq(CpuTasks)
         /\ p \/ m \/ d => x.k \in 1..Passes
         /\ x.i \in 1..Len(Layers)
<1>0. x.i \in 1..Len(Layers)
  BY DEF Places
<1>1. CASE x.k \in 1..Passes
  BY <1>0, <1>1, WorkTyped DEF Allowed
<1>2. CASE x.i = 1 /\ x.o = "copy_input"
  <2>1. ~p /\ ~m /\ ~d
    BY <1>2 DEF Allowed, PrevDefers
  <2>2. Work(x.k, x.i, p, m, d) = <<>>
    BY <2>1 DEF Work
  <2> QED
    BY <1>0, <2>1, <2>2
<1> QED
  BY <1>1, <1>2

LEMMA StartStep ==
  ASSUME IInv, TaskStart
  PROVE  IInv'
<1>a. deferring \in DeferChoices /\ TypeOK /\ HostInv
  BY DEF IInv
<1>0. /\ Exec!Start
      /\ UNCHANGED <<deferring, hostVars, stream, dataVars, announced, waiting>>
  BY DEF TaskStart, Exec!Start
<1> PICK w : Path(w) /\ \E p, m, d \in BOOLEAN : Holds(w[1], p, m, d)
  BY DEF IInv
<1> PICK x : x = w[1]
  OBVIOUS
<1> PICK p \in BOOLEAN, m \in BOOLEAN, d \in BOOLEAN : Holds(x, p, m, d)
  OBVIOUS
<1>1. x \in Places /\ (x.k \in 1..Passes \/ (x.i = 1 /\ x.o = "copy_input"))
  BY <1>a, PathPlace
<1>2. Path(w)'
  BY <1>0, Recarry DEF Path, Here, hostVars
<1>3. TypeOK' /\ HostInv'
  BY <1>0, <1>a DEF TypeOK, HostInv, hostVars, dataVars
<1>4. Holds(x, p, m, d)'
  <2>0. UNCHANGED <<input, ids, output, delivered>>
    BY <1>0 DEF dataVars
  <2>1. Allowed(x, p, m, d)'
    BY <1>0, Rigid DEF Holds, Allowed
  <2>2. WorkIs(Work(x.k, x.i, p, m, d))'
    <3>1. PICK W : W = Work(x.k, x.i, p, m, d)
      OBVIOUS
    <3>2. W \in Seq(CpuTasks)
      BY <1>1, <1>a, <3>1, WorkThere DEF Holds
    <3>3. WorkIs(W)'
      BY <1>0, <3>1, <3>2, WorkMoves, NoneAssumption DEF Holds
    <3>4. Work(x.k, x.i, p, m, d)' = Work(x.k, x.i, p, m, d)
      BY <1>0, RigidWork
    <3> QED
      BY <3>1, <3>3, <3>4 DEF WorkIs
  <2>3. ClientInv(x)'
    BY <1>0, Rigid DEF Holds, ClientInv
  <2>4. InputInv(x, p)'
    BY <1>0, <2>0, Rigid DEF Holds, InputInv
  <2>5. OutputInv(x, p, m, d)'
    BY <1>0, <2>0, Rigid DEF Holds, OutputInv
  <2>6. DeliveredInv(x)'
    BY <1>0, <2>0, Rigid DEF Holds, DeliveredInv
  <2> QED
    BY <2>1, <2>2, <2>3, <2>4, <2>5, <2>6 DEF Holds
<1> QED
  BY <1>0, <1>a, <1>2, <1>3, <1>4 DEF IInv

\* What a task computes is its layer's part, when its inputs are in place.
LEMMA Contributes ==
  ASSUME TypeOK, deferring \in DeferChoices, NEW k \in 1..Passes, NEW i \in 1..Len(Layers)
  PROVE  /\ input[Slot(i)] = TagOf(k, i) /\ ids["imm"][Slot(i)] = TagOf(k, i) =>
              Contribution(Imm(k, i)) = Part("imm", k, i)
         /\ input[Slot(i)] = TagOf(k, i) /\ ids["def"][Slot(i)] = TagOf(k, i) =>
              Contribution(Def(k, i)) = Part("def", k, i)
         /\ Contribution(Imm(k, i)) \in Contributions /\ Contribution(Def(k, i)) \in Contributions
<1>1. TagOf(k, i)[2] = Layers[i] /\ Layers[i] \in LayerIds /\ Slot(i) \in Slots
  BY LayerFacts DEF TagOf
<1>2. /\ Imm(k, i).kind = "imm" /\ Imm(k, i).tag = TagOf(k, i) /\ Imm(k, i).slot = Slot(i)
      /\ Def(k, i).kind = "def" /\ Def(k, i).tag = TagOf(k, i) /\ Def(k, i).slot = Slot(i)
  BY DEF Imm, Def
<1>3. /\ input[Slot(i)] \in Tags \union {None}
      /\ ids["imm"][Slot(i)] \in Tags \union {None} /\ ids["def"][Slot(i)] \in Tags \union {None}
  BY <1>1 DEF TypeOK
<1> QED
  BY <1>1, <1>2, <1>3 DEF Contribution, Part, Contributions

LEMMA FinishStep ==
  ASSUME IInv, TaskFinish
  PROVE  IInv'
<1>a. deferring \in DeferChoices /\ TypeOK /\ HostInv
  BY DEF IInv
<1>0. /\ Exec!Finish
      /\ output' = [output EXCEPT ![active.out] =
                      (IF active.inc THEN @ ELSE {}) \union {Contribution(active)}]
      /\ UNCHANGED <<deferring, hostVars, stream, input, ids, delivered, announced, waiting>>
  BY DEF TaskFinish, Exec!Finish
<1> PICK w : Path(w) /\ \E p, m, d \in BOOLEAN : Holds(w[1], p, m, d)
  BY DEF IInv
<1> PICK x : x = w[1]
  OBVIOUS
<1> PICK p \in BOOLEAN, m \in BOOLEAN, d \in BOOLEAN : Holds(x, p, m, d)
  OBVIOUS
<1>1. x \in Places /\ (x.k \in 1..Passes \/ (x.i = 1 /\ x.o = "copy_input"))
  BY <1>a, PathPlace
<1>2. Path(w)'
  BY <1>0, Recarry DEF Path, Here, hostVars
<1>b. /\ Allowed(x, p, m, d) /\ WorkIs(Work(x.k, x.i, p, m, d)) /\ ClientInv(x)
      /\ InputInv(x, p) /\ OutputInv(x, p, m, d) /\ DeliveredInv(x)
  BY DEF Holds
<1>c. /\ Work(x.k, x.i, p, m, d) \in Seq(CpuTasks) /\ x.i \in 1..Len(Layers)
      /\ p \/ m \/ d => x.k \in 1..Passes
  BY <1>1, <1>a, <1>b, WorkThere
<1>3. PICK W : W = Work(x.k, x.i, p, m, d)
  OBVIOUS
<1>4. W # <<>> /\ active = Head(W) /\ WorkIs(Tail(W))'
  BY <1>0, <1>b, <1>c, <1>3, WorkMoves, NoneAssumption
<1>5. p /\ d => m
  <2>1. x.o \in Ops
    BY <1>1 DEF Places
  <2> QED
    BY <1>b, <2>1 DEF Allowed, Ops
<1>6. /\ p => active = Def(x.k, x.i - 1) /\ Tail(W) = Work(x.k, x.i, FALSE, m, d)
      /\ ~p /\ m => active = Imm(x.k, x.i) /\ Tail(W) = Work(x.k, x.i, FALSE, FALSE, d)
      /\ ~p /\ ~m => d /\ active = Def(x.k, x.i) /\ Tail(W) = Work(x.k, x.i, FALSE, FALSE, FALSE)
  <2>1. Work(x.k, x.i, p, m, d) # <<>>
    BY <1>3, <1>4
  <2>2. /\ p => Head(W) = Def(x.k, x.i - 1) /\ Tail(W) = Work(x.k, x.i, FALSE, m, d)
        /\ ~p /\ m => Head(W) = Imm(x.k, x.i) /\ Tail(W) = Work(x.k, x.i, FALSE, FALSE, d)
        /\ ~p /\ ~m => d /\ Head(W) = Def(x.k, x.i) /\ Tail(W) = Work(x.k, x.i, FALSE, FALSE, FALSE)
    <3>1. CASE p
      BY <1>3, <1>5, <2>1, <3>1 DEF Work
    <3>2. CASE ~p /\ m
      BY <1>3, <1>5, <2>1, <3>2 DEF Work
    <3>3. CASE ~p /\ ~m
      BY <1>3, <1>5, <2>1, <3>3 DEF Work
    <3> QED
      BY <3>1, <3>2, <3>3
  <2> QED
    BY <1>4, <2>2
<1>7. ASSUME NEW q, NEW n, NEW f, Tail(W) = Work(x.k, x.i, q, n, f) PROVE WorkIs(Work(x.k, x.i, q, n, f))'
  <2>1. Work(x.k, x.i, q, n, f)' = Work(x.k, x.i, q, n, f)
    BY <1>0, RigidWork
  <2> QED
    BY <1>4, <1>7, <2>1 DEF WorkIs
<1>8. ClientInv(x)'
  BY <1>0, <1>b, Rigid DEF ClientInv
<1>9. DeliveredInv(x)'
  BY <1>0, <1>b, Rigid DEF DeliveredInv
<1>10. CASE p
  <2>1. x.k \in 1..Passes /\ x.i - 1 \in 1..Len(Layers) /\ Defers(x.i - 1) /\ PrevDefers(x.i)
    BY <1>a, <1>b, <1>c, <1>10, LayerFacts DEF Allowed
  <2>2. (Slot(x.i - 1) + 1) % BufferDepth = Slot(x.i) /\ Slot(x.i) \in Slots
    <3>1. (x.i - 1) + 1 = x.i
      BY <1>c
    <3> QED
      BY <1>a, <1>c, <2>1, <3>1, LayerFacts
  <2>3. Contribution(active) = Part("def", x.k, x.i - 1) /\ Contribution(active) \in Contributions
    BY <1>a, <1>b, <1>6, <1>10, <2>1, Contributes DEF InputInv
  <2>4. active.out = Slot(x.i) /\ active.inc = FALSE
    BY <1>6, <1>10, <2>2 DEF Def
  <2>5. output' = [output EXCEPT ![Slot(x.i)] = {Part("def", x.k, x.i - 1)}]
    BY <1>0, <2>3, <2>4
  <2>6. output'[Slot(x.i)] = {Part("def", x.k, x.i - 1)} /\ output' \in [Slots -> SUBSET Contributions]
    BY <1>a, <2>2, <2>3, <2>5 DEF TypeOK
  <2>7. Allowed(x, FALSE, m, d)'
    BY <1>0, <1>b, Rigid DEF Allowed
  <2>8. InputInv(x, FALSE)'
    BY <1>0, <1>b, Rigid DEF InputInv
  <2>9. OutputInv(x, FALSE, m, d)'
    <3>1. x.o \notin {"copy_input", "imm"} => m
      <4>1. x.o \in Ops
        BY <1>1 DEF Places
      <4> QED
        BY <1>b, <1>10, <4>1 DEF Allowed, Ops
    <3>2. x.o \in {"sync", "copy_output"} /\ Defers(x.i) => d
      BY <1>b, <1>10 DEF Allowed
    <3> QED
      BY <1>0, <2>6, <3>1, <3>2, Rigid DEF OutputInv
  <2>10. WorkIs(Work(x.k, x.i, FALSE, m, d))'
    BY <1>6, <1>7, <1>10
  <2>11. Holds(x, FALSE, m, d)'
    BY <1>8, <1>9, <2>7, <2>8, <2>9, <2>10 DEF Holds
  <2>12. TypeOK' /\ HostInv'
    BY <1>0, <1>a, <2>6 DEF TypeOK, HostInv, hostVars
  <2> QED
    BY <1>0, <1>a, <1>2, <2>11, <2>12 DEF IInv
<1>11. CASE ~p /\ m
  <2>1. x.k \in 1..Passes /\ Slot(x.i) \in Slots /\ x.o \notin {"copy_input", "imm"}
    BY <1>a, <1>b, <1>c, <1>11, LayerFacts DEF Allowed
  <2>3. Contribution(active) = Part("imm", x.k, x.i) /\ Contribution(active) \in Contributions
    BY <1>a, <1>b, <1>c, <1>6, <1>11, <2>1, Contributes DEF InputInv
  <2>4. active.out = Slot(x.i) /\ active.inc = PrevDefers(x.i)
    BY <1>6, <1>11 DEF Imm
  <2>5. output'[Slot(x.i)] = (IF PrevDefers(x.i) THEN output[Slot(x.i)] ELSE {}) \union {Part("imm", x.k, x.i)}
    BY <1>0, <1>a, <2>1, <2>3, <2>4 DEF TypeOK
  <2>6. output'[Slot(x.i)] = Owed(x.k, x.i)
    <3>1. PrevDefers(x.i) => output[Slot(x.i)] = {Part("def", x.k, x.i - 1)}
      BY <1>b, <1>11 DEF OutputInv
    <3>2. Owed(x.k, x.i) = {Part("imm", x.k, x.i)} \union
                             IF PrevDefers(x.i) THEN {Part("def", x.k, x.i - 1)} ELSE {}
      BY OwedIs
    <3> QED
      BY <2>5, <3>1, <3>2
  <2>a. output' \in [Slots -> SUBSET Contributions]
    BY <1>0, <1>a, <2>1, <2>3, <2>4 DEF TypeOK
  <2>7. Allowed(x, FALSE, FALSE, d)'
    BY <1>0, <1>b, <1>11, <2>1, Rigid DEF Allowed
  <2>8. InputInv(x, FALSE)'
    BY <1>0, <1>b, Rigid DEF InputInv
  <2>9. OutputInv(x, FALSE, FALSE, d)'
    <3>1. x.o \in {"sync", "copy_output"} /\ Defers(x.i) => d
      BY <1>b, <1>11 DEF Allowed
    <3> QED
      BY <1>0, <2>1, <2>6, <3>1, Rigid DEF OutputInv
  <2>10. WorkIs(Work(x.k, x.i, FALSE, FALSE, d))'
    BY <1>6, <1>7, <1>11
  <2>11. Holds(x, FALSE, FALSE, d)'
    BY <1>8, <1>9, <2>7, <2>8, <2>9, <2>10 DEF Holds
  <2>12. TypeOK' /\ HostInv'
    BY <1>0, <1>a, <2>a DEF TypeOK, HostInv, hostVars
  <2> QED
    BY <1>0, <1>a, <1>2, <2>11, <2>12 DEF IInv
<1>12. CASE ~p /\ ~m
  <2>1. d /\ x.k \in 1..Passes /\ Defers(x.i) /\ x.o \in {"sync", "copy_output"}
    <3>1. d
      BY <1>6, <1>12
    <3> QED
      BY <1>1, <1>b, <1>c, <3>1 DEF Allowed, Places, Ops
  <2>2. /\ (Slot(x.i) + 1) % BufferDepth = Slot(x.i + 1) /\ Slot(x.i + 1) # Slot(x.i)
        /\ Slot(x.i + 1) \in Slots /\ Slot(x.i) \in Slots
    <3>1. x.i + 1 \in 1..Len(Layers)
      <4>1. x.i < Len(Layers)
        BY <1>a, <1>c, <2>1, LayerFacts
      <4> QED
        BY <1>c, <4>1, LayersAssumption
    <3> QED
      BY <1>a, <1>c, <2>1, <3>1, LayerFacts
  <2>3. Contribution(active) = Part("def", x.k, x.i) /\ Contribution(active) \in Contributions
    BY <1>a, <1>b, <1>c, <1>6, <1>12, <2>1, Contributes DEF InputInv
  <2>4. active.out = Slot(x.i + 1) /\ active.inc = FALSE
    BY <1>6, <1>12, <2>2 DEF Def
  <2>5. output' = [output EXCEPT ![Slot(x.i + 1)] = {Part("def", x.k, x.i)}]
    BY <1>0, <2>3, <2>4
  <2>6. /\ output'[Slot(x.i + 1)] = {Part("def", x.k, x.i)} /\ output'[Slot(x.i)] = output[Slot(x.i)]
        /\ output' \in [Slots -> SUBSET Contributions]
    BY <1>a, <2>2, <2>3, <2>5 DEF TypeOK
  <2>7. Allowed(x, FALSE, FALSE, FALSE)'
    BY <1>0, <1>b, <1>12, Rigid DEF Allowed
  <2>8. InputInv(x, FALSE)'
    BY <1>0, <1>b, Rigid DEF InputInv
  <2>9. OutputInv(x, FALSE, FALSE, FALSE)'
    <3>1. output[Slot(x.i)] = Owed(x.k, x.i)
      BY <1>b, <1>12, <2>1 DEF OutputInv
    <3> QED
      BY <1>0, <2>1, <2>6, <3>1, Rigid DEF OutputInv
  <2>10. WorkIs(Work(x.k, x.i, FALSE, FALSE, FALSE))'
    BY <1>6, <1>7, <1>12
  <2>11. Holds(x, FALSE, FALSE, FALSE)'
    BY <1>8, <1>9, <2>7, <2>8, <2>9, <2>10 DEF Holds
  <2>12. TypeOK' /\ HostInv'
    BY <1>0, <1>a, <2>6 DEF TypeOK, HostInv, hostVars
  <2> QED
    BY <1>0, <1>a, <1>2, <2>11, <2>12 DEF IInv
<1> QED
  BY <1>10, <1>11, <1>12

-----------------------------------------------------------------------------
(* Every step *)

LEMMA IdleStep == IInv /\ UNCHANGED vars => IInv'
<1> SUFFICES ASSUME IInv, UNCHANGED vars PROVE IInv'
  OBVIOUS
<1>0. UNCHANGED <<deferring, pass, pos, stage, pendingDeferred, stream, dataVars, execVars>>
  BY DEF vars, hostVars
<1>a. deferring \in DeferChoices /\ TypeOK /\ HostInv
  BY DEF IInv
<1> PICK w : Path(w) /\ \E p, m, d \in BOOLEAN : Holds(w[1], p, m, d)
  BY DEF IInv
<1>1. Path(w)'
  BY <1>0, Recarry DEF Path, Here
<1>2. \E p, m, d \in BOOLEAN : Holds(w[1], p, m, d)'
  BY <1>0, HoldsSame
<1>3. TypeOK' /\ HostInv'
  BY <1>0, <1>a DEF TypeOK, HostInv, dataVars
<1> QED
  BY <1>0, <1>a, <1>1, <1>2, <1>3 DEF IInv

LEMMA InvStep == IInv /\ [Next]_vars => IInv'
<1> SUFFICES ASSUME IInv, [Next]_vars PROVE IInv'
  OBVIOUS
<1>1. SubmitForward \/ SyncForward => IInv'
  BY SubmitStep, SyncForwardStep
<1>2. Stream => IInv'
  BY CopyInputStep, CopyDeferredStep, HostCallStep, HostEnqueuedStep, HostSyncedStep, CopyOutputStep
     DEF Stream
<1>3. TaskStart \/ TaskFinish => IInv'
  BY StartStep, FinishStep
<1>4. HostSpin \/ Rest \/ UNCHANGED vars => IInv'
  BY IdleStep DEF HostSpin, Rest
<1> QED
  BY <1>1, <1>2, <1>3, <1>4 DEF Next

(* The invariant holds always. *)
THEOREM Invariance == Spec => []IInv
<1>1. Init => IInv
  BY InitInv
<1>2. IInv /\ [Next]_vars => IInv'
  BY InvStep
<1> QED
  BY <1>1, <1>2, PTL DEF Spec

-----------------------------------------------------------------------------

(* Every variable of the pipeline has its type: the stream, the slots and  *)
(* the outputs of experts_base.py never hold anything else.                *)
THEOREM TypeCorrect == Spec => []TypeOK
<1>1. IInv => TypeOK
  BY DEF IInv
<1> QED
  BY <1>1, Invariance, PTL

(* A task that is queued or running finds in its slot the tensors that its *)
(* layer copied there: no later submit_forward overwrites a slot a         *)
(* deferred task has yet to read.                                          *)
THEOREM InputsSafe == Spec => []InputsIntact
<1>1. ASSUME IInv, NEW t \in Exec!Queued \union Exec!Running
      PROVE  input[t.slot] = t.tag /\ ids[t.kind][t.slot] = t.tag
  <2>a. deferring \in DeferChoices /\ TypeOK /\ HostInv
    BY <1>1 DEF IInv
  <2> PICK w : Path(w) /\ \E p, m, d \in BOOLEAN : Holds(w[1], p, m, d)
    BY <1>1 DEF IInv
  <2> PICK x : x = w[1]
    OBVIOUS
  <2> PICK p \in BOOLEAN, m \in BOOLEAN, d \in BOOLEAN : Holds(x, p, m, d)
    OBVIOUS
  <2>1. x \in Places /\ x.o \in Ops /\ (x.k \in 1..Passes \/ (x.i = 1 /\ x.o = "copy_input"))
    BY <2>a, PathPlace DEF Places
  <2>2. Allowed(x, p, m, d) /\ WorkIs(Work(x.k, x.i, p, m, d)) /\ InputInv(x, p)
    BY DEF Holds
  <2>3. t \in Outstanding(x.k, x.i, p, m, d)
    <3>1. PICK W : W = Work(x.k, x.i, p, m, d)
      OBVIOUS
    <3>2. W \in Seq(CpuTasks)
      BY <2>1, <2>a, <2>2, <3>1, WorkThere
    <3>3. \E j \in 1..Len(W) : W[j] = t
      BY <1>1, <2>2, <3>1, <3>2, WorkSet, NoneAssumption
    <3>4. {p, m, d} \subseteq BOOLEAN /\ (p /\ d => m)
      BY <2>1, <2>2 DEF Allowed, Ops
    <3> QED
      BY <3>1, <3>3, <3>4, WorkMembers
  <2>4. CASE p /\ t = Def(x.k, x.i - 1)
    BY <2>2, <2>4 DEF InputInv, Def
  <2>5. CASE m /\ t = Imm(x.k, x.i)
    BY <2>2, <2>5 DEF InputInv, Imm, Allowed
  <2>6. CASE d /\ t = Def(x.k, x.i)
    <3>1. x.o \in {"sync", "copy_output"} /\ Defers(x.i)
      BY <2>1, <2>2, <2>6 DEF Allowed, Ops
    <3> QED
      BY <2>2, <2>6, <3>1 DEF InputInv, Def
  <2> QED
    BY <2>3, <2>4, <2>5, <2>6 DEF Outstanding
<1>2. IInv => InputsIntact
  BY <1>1 DEF InputsIntact
<1> QED
  BY <1>2, Invariance, PTL

(* While the stream copies an output slot to the GPU, no task that writes  *)
(* the slot is queued or running: sync's allowance of one pending task     *)
(* covers just the deferred task, and that one writes the next slot.       *)
THEOREM OutputsSettled == Spec => []OutputSettled
<1>1. ASSUME IInv, At("copy_output"), NEW t \in Exec!Queued \union Exec!Running
      PROVE  t.out # Head(stream).slot
  <2>a. deferring \in DeferChoices /\ TypeOK /\ HostInv
    BY <1>1 DEF IInv
  <2> PICK w : Path(w) /\ \E p, m, d \in BOOLEAN : Holds(w[1], p, m, d)
    BY <1>1 DEF IInv
  <2> PICK x : x = w[1]
    OBVIOUS
  <2> PICK p \in BOOLEAN, m \in BOOLEAN, d \in BOOLEAN : Holds(x, p, m, d)
    OBVIOUS
  <2>1. x \in Places /\ x.k \in 1..Passes /\ Carries(Head(stream), x)
    BY <1>1, <2>a, HeadPlace DEF At
  <2>2. x.o = "copy_output" /\ Head(stream).slot = Slot(x.i)
    BY <1>1, <2>1, HeadIs DEF At
  <2>3. Allowed(x, p, m, d) /\ WorkIs(Work(x.k, x.i, p, m, d))
    BY DEF Holds
  <2>4. ~p /\ ~m /\ (d => Defers(x.i))
    BY <2>2, <2>3 DEF Allowed
  <2>5. t \in Outstanding(x.k, x.i, p, m, d)
    <3>1. PICK W : W = Work(x.k, x.i, p, m, d)
      OBVIOUS
    <3>2. W \in Seq(CpuTasks)
      BY <2>1, <2>a, <2>3, <3>1, WorkThere
    <3>3. \E j \in 1..Len(W) : W[j] = t
      BY <1>1, <2>3, <3>1, <3>2, WorkSet, NoneAssumption
    <3>4. {p, m, d} \subseteq BOOLEAN /\ (p /\ d => m)
      BY <2>4
    <3> QED
      BY <3>1, <3>3, <3>4, WorkMembers
  <2>6. d /\ t = Def(x.k, x.i) /\ Defers(x.i)
    BY <2>4, <2>5 DEF Outstanding
  <2>7. x.i \in 1..Len(Layers)
    BY <2>1 DEF Places
  <2>8. (Slot(x.i) + 1) % BufferDepth # Slot(x.i)
    BY <2>a, <2>6, <2>7, LayerFacts
  <2> QED
    BY <2>2, <2>6, <2>8 DEF Def
<1>2. IInv => OutputSettled
  BY <1>1 DEF OutputSettled
<1> QED
  BY <1>2, Invariance, PTL

(* What a layer hands to the GPU is exactly its own immediate experts and  *)
(* the previous layer's deferred ones, of the same pass; at rest every     *)
(* layer of every pass has handed its sum over.                            *)
THEOREM Delivered == Spec => []DeliveredExact
<1>1. ASSUME IInv, NEW k \in 1..Passes, NEW i \in 1..Len(Layers)
      PROVE  \/ delivered[TagOf(k, i)] = Owed(k, i)
             \/ delivered[TagOf(k, i)] = {} /\ ~AtRest
  <2>a. deferring \in DeferChoices /\ TypeOK /\ HostInv
    BY <1>1 DEF IInv
  <2> PICK w : Path(w) /\ \E p, m, d \in BOOLEAN : Holds(w[1], p, m, d)
    BY <1>1 DEF IInv
  <2> PICK x : x = w[1]
    OBVIOUS
  <2>1. DeliveredInv(x)
    BY DEF Holds
  <2>2. AtRest => k < x.k
    <3>1. ASSUME AtRest PROVE x = Here
      <4>1. stream = <<>>
        BY <3>1 DEF AtRest
      <4> QED
        BY <4>1 DEF Path, Carried
    <3>2. pass \in Nat /\ (AtRest => pass > Passes)
      BY <2>a DEF AtRest, TypeOK
    <3> QED
      BY <3>1, <3>2, BoundsAssumption DEF Here
  <2> QED
    BY <2>1, <2>2 DEF DeliveredInv
<1>2. IInv => DeliveredExact
  BY <1>1 DEF DeliveredExact, TagOf
<1> QED
  BY <1>2, Invariance, PTL

-----------------------------------------------------------------------------
(***************************************************************************)
(* The buffer cache.  A size that was registered, in capture_bs when it was *)
(* first called with, had no buffer then, not even the temporary one       *)
(* (InUse): its buffer was allocated for it and went to capture_buffers    *)
(* (RegisteredKept), where only a clear removes it.  Any other size has the *)
(* temporary buffer until some size misses, and a registered one in use    *)
(* never does.  Buffers are numbered as they are allocated, so that those  *)
(* of the time before a clear never come back (GraphsKept).                *)
(***************************************************************************)

\* What is cached belongs to a size called with since the last clear.
InUse ==
  /\ temp_bs # 0 => temp_bs \in used /\ temp_buffer # NoBuffer
  /\ \A b \in BatchSizes : Captured(b) => b \in used

RegisteredKept == \A b \in registered : Captured(b)

\* A buffer in use or cached has been allocated.
Numbered ==
  /\ temp_buffer \in 1..allocated \union {NoBuffer}
  /\ \A b \in BatchSizes : capture_buffers[b] \in 1..allocated \union {NoBuffer}
  /\ \A g \in graphs : g.buf \in 1..allocated

Found(e) ==
  ~e.cleared => /\ e.bs \in used
                /\ e.bs \in registered => capture_buffers[e.bs] = e.buf
                /\ ~e.passed => Hit(e.bs) /\ Returned(e.bs) = e.buf

GraphKept(g) ==
  /\ ~g.cleared => g.bs \in used /\ (g.bs \in registered => capture_buffers[g.bs] = g.buf)
  /\ g.cleared => temp_buffer # g.buf /\ \A b \in BatchSizes : capture_buffers[b] # g.buf

CacheInv ==
  /\ CacheTypeOK /\ InUse /\ RegisteredKept /\ Numbered
  /\ \A e \in inflight : Found(e)
  /\ \A g \in graphs : GraphKept(g)

-----------------------------------------------------------------------------

\* get_buffer either changes nothing or puts one new buffer into the cache.
LEMMA Allocation ==
  ASSUME CacheInv, NEW b \in BatchSizes, GetBuffer(b)
  PROVE  \/ Hit(b) /\ UNCHANGED cacheVars
         \/ /\ ~Hit(b) /\ ~Captured(b) /\ b # temp_bs /\ Returned(b) = allocated + 1
            /\ allocated' = allocated + 1 /\ allocated' \in 1..MaxBuffers
            /\ temp_bs' = b /\ temp_buffer' = allocated + 1
            /\ \A a \in BatchSizes : capture_buffers'[a] =
                 IF a = b /\ b \in capture_bs THEN allocated + 1 ELSE capture_buffers[a]
            /\ capture_buffers' \in [BatchSizes -> 1..MaxBuffers \union {NoBuffer}]
<1> USE SizesAssumption, BoundAssumption DEF CacheInv, CacheTypeOK
<1>1. CASE Hit(b)
  BY <1>1 DEF GetBuffer
<1>2. CASE ~Hit(b)
  <2>1. /\ allocated < MaxBuffers /\ allocated' = allocated + 1
        /\ capture_buffers' = IF b \in capture_bs
             THEN [capture_buffers EXCEPT ![b] = allocated + 1] ELSE capture_buffers
        /\ temp_bs' = b /\ temp_buffer' = allocated + 1
    BY <1>2 DEF GetBuffer
  <2>2. allocated' \in 1..MaxBuffers
    BY <2>1
  <2>3. ~Captured(b) /\ b # temp_bs /\ Returned(b) = allocated + 1
    BY <1>2 DEF Hit, Returned
  <2> QED
    BY <1>2, <2>1, <2>2, <2>3
<1> QED
  BY <1>1, <1>2

\* A call of get_buffer, with what it leaves in the histories.
LEMMA Call ==
  ASSUME CacheInv, NEW b \in BatchSizes, GetBuffer(b), Called(b), UNCHANGED capture_bs
  PROVE  /\ Returned(b) \in 1..allocated' /\ allocated' \in 0..MaxBuffers /\ allocated <= allocated'
         /\ capture_buffers' \in [BatchSizes -> 1..MaxBuffers \union {NoBuffer}]
         /\ temp_bs' \in BatchSizes \union {0}
         /\ temp_buffer' \in 1..allocated' \union {NoBuffer}
         /\ \A a \in BatchSizes : capture_buffers'[a] \in 1..allocated' \union {NoBuffer}
         /\ used' \in SUBSET BatchSizes /\ registered' \in SUBSET used' /\ used \subseteq used'
         /\ InUse' /\ RegisteredKept'
         /\ b \in used' /\ Hit(b)' /\ Returned(b)' = Returned(b)
         /\ b \in registered' => capture_buffers'[b] = Returned(b)
<1> USE SizesAssumption, BoundAssumption, NoBufferAssumption
<1>1. /\ used' = used \union {b} /\ registered \subseteq registered'
      /\ registered' \subseteq registered \union {b}
      /\ b \in registered' => b \in registered \/ b \in capture_bs \ used
  BY DEF Called
<1>2. CASE Hit(b) /\ UNCHANGED cacheVars
  <2>1. UNCHANGED <<capture_buffers, temp_bs, temp_buffer, allocated>>
    BY <1>2 DEF cacheVars
  <2>2. b \in used
    BY <1>2 DEF CacheInv, InUse, Hit, CacheTypeOK
  <2>3. registered' = registered /\ used' = used
    BY <1>1, <2>2
  <2>4. Returned(b) \in 1..allocated
    BY <1>2 DEF CacheInv, InUse, Hit, Returned, Numbered, Captured, CacheTypeOK
  <2>5. b \in registered => capture_buffers[b] = Returned(b)
    BY DEF CacheInv, RegisteredKept, Returned
  <2>6. InUse' /\ RegisteredKept'
    BY <2>1, <2>3 DEF CacheInv, InUse, RegisteredKept, Captured
  <2>7. Hit(b)' /\ Returned(b)' = Returned(b)
    BY <1>2, <2>1 DEF Hit, Returned, Captured
  <2> QED
    BY <2>1, <2>2, <2>3, <2>4, <2>5, <2>6, <2>7 DEF CacheInv, CacheTypeOK, Numbered
<1>3. CASE ~(Hit(b) /\ UNCHANGED cacheVars)
  <2>1. /\ ~Captured(b) /\ b # temp_bs /\ Returned(b) = allocated + 1
        /\ allocated' = allocated + 1 /\ allocated' \in 1..MaxBuffers
        /\ temp_bs' = b /\ temp_buffer' = allocated + 1
        /\ \A a \in BatchSizes : capture_buffers'[a] =
             IF a = b /\ b \in capture_bs THEN allocated + 1 ELSE capture_buffers[a]
        /\ capture_buffers' \in [BatchSizes -> 1..MaxBuffers \union {NoBuffer}]
    BY <1>3, Allocation
  <2>2. allocated + 1 # NoBuffer /\ allocated \in Nat
    BY <2>1 DEF CacheInv, CacheTypeOK
  <2>3. b \notin registered
    BY <2>1 DEF CacheInv, RegisteredKept
  <2>4. b \in registered' => capture_buffers'[b] = allocated + 1
    BY <1>1, <2>1, <2>3
  <2>5. Hit(b)' /\ Returned(b)' = allocated + 1
    BY <2>1, <2>2 DEF Hit, Returned, Captured, CacheInv, CacheTypeOK
  <2>6. InUse'
    BY <1>1, <2>1, <2>2 DEF InUse, Captured, CacheInv, CacheTypeOK
  <2>7. RegisteredKept'
    BY <1>1, <2>1, <2>2, <2>4 DEF RegisteredKept, Captured, CacheInv, CacheTypeOK
  <2>8. \A a \in BatchSizes : capture_buffers'[a] \in 1..allocated' \union {NoBuffer}
    BY <2>1, <2>2 DEF CacheInv, Numbered
  <2> QED
    BY <1>1, <2>1, <2>2, <2>4, <2>5, <2>6, <2>7, <2>8 DEF CacheInv, CacheTypeOK
<1> QED
  BY <1>2, <1>3

\* Outstanding forwards find their buffers after the call as their marks then say.
LEMMA MarkedFound ==
  ASSUME CacheInv, NEW b \in BatchSizes, GetBuffer(b), Called(b), UNCHANGED capture_bs
  PROVE  Marked(b) \in SUBSET Forwards /\ \A e \in Marked(b) : Found(e)'
<1> USE SizesAssumption, NoBufferAssumption
<1>1. /\ used' = used \union {b}
      /\ registered' \subseteq registered \union {b}
      /\ b \in registered' => b \in registered \/ b \in capture_bs \ used
  BY DEF Called
<1>2. ASSUME NEW e \in inflight, NEW f,
             f = IF b # e.bs /\ b \notin registered THEN [e EXCEPT !.passed = TRUE] ELSE e
      PROVE  f \in Forwards /\ Found(f)'
  <2>1. e \in Forwards /\ e.bs \in BatchSizes /\ e.buf \in 1..MaxBuffers
    BY DEF CacheInv, CacheTypeOK, Forwards
  <2>2. /\ f \in Forwards /\ f.bs = e.bs /\ f.buf = e.buf /\ f.cleared = e.cleared
        /\ ~f.passed => ~e.passed /\ (b = e.bs \/ b \in registered)
    BY <1>2, <2>1 DEF Forwards
  <2>3. SUFFICES ASSUME ~e.cleared PROVE Found(f)'
    BY <2>2 DEF Found
  <2>4. Found(e) /\ e.bs \in used
    BY <2>3 DEF CacheInv, Found
  <2>5. e.bs \in registered' => e.bs \in registered
    BY <1>1, <2>4
  <2>6. CASE Hit(b) /\ UNCHANGED cacheVars
    BY <1>1, <2>2, <2>4, <2>5, <2>6 DEF Found, Hit, Returned, Captured, cacheVars
  <2>7. CASE ~(Hit(b) /\ UNCHANGED cacheVars)
    <3>1. /\ ~Hit(b) /\ ~Captured(b)
          /\ \A a \in BatchSizes : capture_buffers'[a] =
               IF a = b /\ b \in capture_bs THEN allocated + 1 ELSE capture_buffers[a]
      BY <2>7, Allocation
    <3>2. b \notin registered
      BY <3>1 DEF CacheInv, RegisteredKept
    <3>3. f.passed
      BY <2>2, <2>3, <2>4, <3>1, <3>2 DEF Found
    <3>4. e.bs \in registered' => capture_buffers'[e.bs] = e.buf
      BY <2>1, <2>3, <2>4, <2>5, <3>1, <3>2 DEF Found
    <3> QED
      BY <1>1, <2>2, <2>4, <3>3, <3>4 DEF Found
  <2> QED
    BY <2>6, <2>7
<1>3. ASSUME NEW f \in Marked(b) PROVE f \in Forwards /\ Found(f)'
  <2>1. PICK e \in inflight :
          f = IF b # e.bs /\ b \notin registered THEN [e EXCEPT !.passed = TRUE] ELSE e
    BY DEF Marked
  <2> QED
    BY <1>2, <2>1
<1> QED
  BY <1>3

\* Graphs keep their buffers, and none of before a clear comes back.
LEMMA GraphsKeep ==
  ASSUME CacheInv, NEW b \in BatchSizes, GetBuffer(b), Called(b), UNCHANGED capture_bs,
         NEW g \in graphs
  PROVE  GraphKept(g)'
<1> USE SizesAssumption, NoBufferAssumption
<1>1. /\ used' = used \union {b}
      /\ registered' \subseteq registered \union {b}
      /\ b \in registered' => b \in registered \/ b \in capture_bs \ used
  BY DEF Called
<1>2. /\ GraphKept(g) /\ g.bs \in BatchSizes /\ g.buf \in 1..allocated /\ allocated \in Nat
      /\ registered \subseteq used
  BY DEF CacheInv, CacheTypeOK, Graphs, Numbered
<1>3. CASE Hit(b) /\ UNCHANGED cacheVars
  BY <1>1, <1>2, <1>3 DEF GraphKept, cacheVars
<1>4. CASE ~(Hit(b) /\ UNCHANGED cacheVars)
  <2>1. /\ ~Captured(b) /\ temp_buffer' = allocated + 1
        /\ \A a \in BatchSizes : capture_buffers'[a] =
             IF a = b /\ b \in capture_bs THEN allocated + 1 ELSE capture_buffers[a]
    BY <1>4, Allocation
  <2>2. b \notin registered
    BY <2>1 DEF CacheInv, RegisteredKept
  <2>3. g.buf # allocated + 1
    BY <1>2
  <2>4. g.cleared => temp_buffer' # g.buf /\ \A a \in BatchSizes : capture_buffers'[a] # g.buf
    BY <1>2, <2>1, <2>3 DEF GraphKept
  <2>5. ~g.cleared => g.bs \in used' /\ (g.bs \in registered' => capture_buffers'[g.bs] = g.buf)
    BY <1>1, <1>2, <2>1, <2>2 DEF GraphKept
  <2> QED
    BY <2>4, <2>5 DEF GraphKept
<1> QED
  BY <1>3, <1>4

LEMMA CacheInitially == CacheInit => CacheInv
BY BoundAssumption
   DEF CacheInit, CacheInv, CacheTypeOK, InUse, RegisteredKept, Numbered, Captured

\* After a call, what remains to be shown is about a new forward or graph alone.
LEMMA CallStep ==
  ASSUME CacheInv, NEW b \in BatchSizes, GetBuffer(b), Called(b), UNCHANGED capture_bs,
         inflight' \in SUBSET Forwards, graphs' \in SUBSET Graphs,
         \A e \in inflight' : e \in Marked(b) \/ Found(e)',
         \A g \in graphs' : g \in graphs \/ (g.buf \in 1..allocated' /\ GraphKept(g)')
  PROVE  CacheInv'
<1>1. CacheTypeOK'
  BY Call, BoundAssumption DEF CacheTypeOK, CacheInv
<1>2. \A g \in graphs' : g.buf \in 1..allocated'
  BY Call DEF CacheInv, Numbered, CacheTypeOK
<1>3. Numbered'
  BY <1>2, Call DEF Numbered
<1>4. \A e \in inflight' : Found(e)'
  BY MarkedFound
<1>5. \A g \in graphs' : GraphKept(g)'
  BY GraphsKeep
<1> QED
  BY <1>1, <1>3, <1>4, <1>5, Call DEF CacheInv

LEMMA CachePreserved ==
  ASSUME CacheInv, [CacheNext]_bufferVars
  PROVE  CacheInv'
<1> USE SizesAssumption, BoundAssumption, NoBufferAssumption
<1>1. ASSUME NEW S \in SUBSET BatchSizes, SetCaptureBatchSizes(S) PROVE CacheInv'
  BY <1>1 DEF SetCaptureBatchSizes, cacheVars, historyVars, CacheInv, CacheTypeOK, InUse,
     RegisteredKept, Numbered, Found, GraphKept, Hit, Returned, Captured
<1>2. ASSUME ClearBufferCache PROVE CacheInv'
  <2>1. /\ capture_buffers' = [b \in BatchSizes |-> NoBuffer] /\ temp_bs' = 0
        /\ temp_buffer' = NoBuffer /\ used' = {} /\ registered' = {}
        /\ UNCHANGED <<capture_bs, allocated>>
    BY <1>2 DEF ClearBufferCache
  <2>2. \A e \in inflight' : e \in Forwards /\ e.cleared
    <3>1. ASSUME NEW e \in inflight, NEW f, f = [e EXCEPT !.cleared = TRUE]
          PROVE  f \in Forwards /\ f.cleared
      BY <3>1 DEF CacheInv, CacheTypeOK, Forwards
    <3> QED
      BY <1>2, <3>1 DEF ClearBufferCache
  <2>3. \A g \in graphs' : g \in Graphs /\ g.cleared /\ g.buf \in 1..allocated
    <3>1. ASSUME NEW g \in graphs, NEW f, f = [g EXCEPT !.cleared = TRUE]
          PROVE  f \in Graphs /\ f.cleared /\ f.buf \in 1..allocated
      BY <3>1 DEF CacheInv, CacheTypeOK, Graphs, Numbered
    <3> QED
      BY <1>2, <3>1 DEF ClearBufferCache
  <2>4. CacheTypeOK' /\ InUse' /\ RegisteredKept' /\ Numbered'
    BY <2>1, <2>2, <2>3 DEF CacheInv, CacheTypeOK, InUse, RegisteredKept, Numbered, Captured
  <2>5. \A e \in inflight' : Found(e)'
    BY <2>2 DEF Found
  <2>6. \A g \in graphs' : GraphKept(g)'
    BY <2>1, <2>3 DEF GraphKept, CacheInv, CacheTypeOK, Graphs
  <2> QED
    BY <2>4, <2>5, <2>6 DEF CacheInv
<1>3. ASSUME NEW b \in BatchSizes, NEW c \in Callers, submit_forward(c, b) PROVE CacheInv'
  <2> PICK n : n = [caller |-> c, bs |-> b, buf |-> Returned(b), cleared |-> FALSE,
                    passed |-> FALSE]
    OBVIOUS
  <2>1. /\ GetBuffer(b) /\ Called(b) /\ UNCHANGED <<capture_bs, graphs>>
        /\ inflight' = Marked(b) \union {n}
    BY <1>3 DEF submit_forward
  <2>2. Returned(b) \in 1..MaxBuffers
    BY <2>1, Call
  <2>3. n \in Forwards
    BY <2>2 DEF Forwards
  <2>4. Found(n)'
    BY <2>1, Call DEF Found
  <2>5. inflight' \in SUBSET Forwards
    BY <2>1, <2>3, MarkedFound
  <2>6. graphs' \in SUBSET Graphs
    BY <2>1 DEF CacheInv, CacheTypeOK
  <2>7. \A e \in inflight' : e \in Marked(b) \/ Found(e)'
    BY <2>1, <2>4
  <2>8. \A g \in graphs' : g \in graphs
    BY <2>1
  <2> QED
    BY <2>1, <2>5, <2>6, <2>7, <2>8, CallStep
<1>4. ASSUME NEW b \in BatchSizes, CaptureGraph(b) PROVE CacheInv'
  <2> PICK n : n = [bs |-> b, buf |-> Returned(b), cleared |-> FALSE]
    OBVIOUS
  <2>1. /\ GetBuffer(b) /\ Called(b) /\ UNCHANGED capture_bs
        /\ inflight' = Marked(b) /\ graphs' = graphs \union {n}
    BY <1>4 DEF CaptureGraph
  <2>2. Returned(b) \in 1..MaxBuffers /\ Returned(b) \in 1..allocated'
    BY <2>1, Call
  <2>3. n \in Graphs /\ graphs \in SUBSET Graphs
    BY <2>2 DEF Graphs, CacheInv, CacheTypeOK
  <2>4. GraphKept(n)'
    BY <2>1, Call DEF GraphKept
  <2>5. inflight' \in SUBSET Forwards
    BY <2>1, MarkedFound
  <2>6. graphs' \in SUBSET Graphs /\ \A e \in inflight' : e \in Marked(b)
    BY <2>1, <2>3
  <2>7. \A g \in graphs' : g \in graphs \/ (g.buf \in 1..allocated' /\ GraphKept(g)')
    <3>1. n.buf \in 1..allocated'
      BY <2>2
    <3>2. \A g \in graphs' : g \in graphs \/ g = n
      BY <2>1
    <3> QED
      BY <2>4, <3>1, <3>2
  <2> QED
    BY <2>1, <2>5, <2>6, <2>7, CallStep
<1>5. ASSUME NEW e \in inflight, sync_forward(e) PROVE CacheInv'
  <2>1. e.bs \in BatchSizes
    BY DEF CacheInv, CacheTypeOK, Forwards
  <2>2. /\ GetBuffer(e.bs) /\ Called(e.bs) /\ UNCHANGED <<capture_bs, graphs>>
        /\ inflight' \subseteq Marked(e.bs)
    BY <1>5 DEF sync_forward
  <2>3. inflight' \in SUBSET Forwards /\ graphs' \in SUBSET Graphs
    BY <2>1, <2>2, MarkedFound DEF CacheInv, CacheTypeOK
  <2> QED
    BY <2>1, <2>2, <2>3, CallStep
<1>6. CASE UNCHANGED bufferVars
  BY <1>6 DEF bufferVars, cacheVars, historyVars, CacheInv, CacheTypeOK, InUse, RegisteredKept,
     Numbered, Found, GraphKept, Hit, Captured, Returned
<1> QED
  BY <1>1, <1>2, <1>3, <1>4, <1>5, <1>6 DEF CacheNext

(* The inductive invariant of the cache. *)
THEOREM CacheInvariance == CacheSpec => []CacheInv
BY CacheInitially, CachePreserved, PTL DEF CacheSpec

-----------------------------------------------------------------------------

(* Every variable of the cache keeps its type, whatever the order of the   *)
(* calls.                                                                  *)
THEOREM CacheTypeCorrect == CacheSpec => []CacheTypeOK
<1>1. CacheInv => CacheTypeOK
  BY DEF CacheInv
<1> QED
  BY <1>1, CacheInvariance, PTL

(* The two independent calls of get_buffer, in submit_forward and in       *)
(* sync_forward, find the same buffer in the cases the property names,     *)
(* with any sizes, any number of callers and calls in any order, a change  *)
(* of the capture sizes or a clear among them.                             *)
THEOREM SyncFinds == CacheSpec => []SyncFindsItsBuffer
<1>1. CacheInv => SyncFindsItsBuffer
  BY NoBufferAssumption
     DEF CacheInv, CacheTypeOK, Forwards, Found, SyncFindsItsBuffer, Hit, Returned, Captured
<1> QED
  BY <1>1, CacheInvariance, PTL

(* Until clear_buffer_cache is called get_buffer never drops the last      *)
(* reference to a buffer whose addresses a CUDA graph of an registered size *)
(* holds, and after it never hands out a buffer of an older graph.         *)
THEOREM GraphsAlive == CacheSpec => []GraphBuffersAlive
<1>1. CacheInv => GraphBuffersAlive
  BY DEF CacheInv, GraphKept, GraphBuffersAlive, Hit, Returned
<1> QED
  BY <1>1, CacheInvariance, PTL
=============================================================================
