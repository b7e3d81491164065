--------------------------- MODULE SftBackendProofs ---------------------------
(***************************************************************************)
(* Proofs about the two modules of kt-sft's cpu_backend: the pool          *)
(* (SftBackend), and in the last sections the task queue (SftTaskQueue).   *)
(*                                                                         *)
(* SftBackend, for any number of threads, in both builds, and jobs of any  *)
(* size, implements ForkJoin.                                              *)
(*                                                                         *)
(* The handshake is that of InNumaPool: a helper inside process_tasks has  *)
(* a status word that says WORKING, and the caller has armed it and not    *)
(* yet waited for it.  A thief looks at the status of its victim, so every *)
(* range that is claimed from belongs to the present job.  The ranges of   *)
(* the threads are a partition of the indices, since the shares add up to  *)
(* task_num; what lies in a range before its counter has been computed or  *)
(* is pending in exactly one thread.  A thread leaves its own range only   *)
(* when its counter has passed the end, so when the caller has waited for  *)
(* all of them, all is computed.                                           *)
(***************************************************************************)
EXTENDS SftBackend, SftTaskQueue, FiniteSetTheorems, SequenceTheorems, TLAPS

-----------------------------------------------------------------------------
(* The arithmetic of the shares *)

\* Where the range of thread k begins, of n tasks for m threads.
BoundOf(n, m, k) == k * (n \div m) + MinOf(k, n % m)

ShareOf(n, m, k) == n \div m + (IF k < n % m THEN 1 ELSE 0)

LEMMA Quotients ==
  ASSUME NEW n \in Nat, NEW m \in Nat \ {0}
  PROVE  n \div m \in Nat /\ n % m \in 0..(m - 1) /\ n = m * (n \div m) + (n % m)
<1>1. n \div m \in Nat
  OBVIOUS
<1>2. n % m \in 0..(m - 1)
  OBVIOUS
<1>3. n = m * (n \div m) + (n % m)
  OBVIOUS
<1> QED
  BY <1>1, <1>2, <1>3

LEMMA Shares ==
  ASSUME NEW n \in Nat, NEW m \in Nat \ {0}, NEW k \in Nat
  PROVE  /\ BoundOf(n, m, k) \in Nat /\ ShareOf(n, m, k) \in Nat
         /\ BoundOf(n, m, k + 1) = BoundOf(n, m, k) + ShareOf(n, m, k)
<1> DEFINE b == n \div m
           r == n % m
<1>1. b \in Nat /\ r \in Nat
  BY Quotients
<1>2. k * b \in Nat /\ (k + 1) * b = k * b + b
  BY <1>1
<1>3. MinOf(k, r) \in Nat /\ MinOf(k + 1, r) = MinOf(k, r) + (IF k < r THEN 1 ELSE 0)
  BY <1>1 DEF MinOf
<1> HIDE DEF b, r
<1>4. BoundOf(n, m, k) = k * b + MinOf(k, r) /\ ShareOf(n, m, k) = b + (IF k < r THEN 1 ELSE 0)
      /\ BoundOf(n, m, k + 1) = (k + 1) * b + MinOf(k + 1, r)
  BY DEF BoundOf, ShareOf, b, r
<1> QED
  BY <1>1, <1>2, <1>3, <1>4

LEMMA SharesEnds ==
  ASSUME NEW n \in Nat, NEW m \in Nat \ {0}
  PROVE  BoundOf(n, m, 0) = 0 /\ BoundOf(n, m, m) = n
<1>1. n \div m \in Nat /\ n % m \in 0..(m - 1) /\ n = m * (n \div m) + (n % m)
  BY Quotients
<1>2. MinOf(0, n % m) = 0 /\ MinOf(m, n % m) = n % m
  BY <1>1 DEF MinOf
<1> QED
  BY <1>1, <1>2 DEF BoundOf

LEMMA SharesGrow ==
  ASSUME NEW n \in Nat, NEW m \in Nat \ {0}, NEW j \in Nat, NEW k \in Nat, j <= k
  PROVE  BoundOf(n, m, j) <= BoundOf(n, m, k)
<1> DEFINE b == n \div m
           r == n % m
<1>1. b \in Nat /\ r \in Nat
  BY Quotients
<1>2. PICK d \in Nat : k = j + d
  <2>1. k - j \in Nat /\ k = j + (k - j)
    OBVIOUS
  <2> QED
    BY <2>1
<1> HIDE DEF b, r
<1>3. k * b = j * b + d * b /\ d * b \in Nat /\ j * b \in Nat
  BY <1>1, <1>2
<1>4. MinOf(j, r) <= MinOf(k, r) /\ MinOf(j, r) \in Nat /\ MinOf(k, r) \in Nat
  BY <1>1 DEF MinOf
<1>5. BoundOf(n, m, j) = j * b + MinOf(j, r) /\ BoundOf(n, m, k) = k * b + MinOf(k, r)
  BY DEF BoundOf, b, r
<1> QED
  BY <1>3, <1>4, <1>5

\* An index lies in the range of one thread only.
LEMMA SharesDisjoint ==
  ASSUME NEW n \in Nat, NEW m \in Nat \ {0}, NEW j \in Nat, NEW k \in Nat, NEW i \in Nat,
         BoundOf(n, m, j) <= i, i < BoundOf(n, m, j + 1),
         BoundOf(n, m, k) <= i, i < BoundOf(n, m, k + 1)
  PROVE  j = k
<1>1. /\ BoundOf(n, m, j) \in Nat /\ BoundOf(n, m, j + 1) \in Nat
      /\ BoundOf(n, m, k) \in Nat /\ BoundOf(n, m, k + 1) \in Nat
  BY Shares
<1>2. j < k => BoundOf(n, m, j + 1) <= BoundOf(n, m, k)
  BY SharesGrow
<1>3. k < j => BoundOf(n, m, k + 1) <= BoundOf(n, m, j)
  BY SharesGrow
<1> QED
  BY <1>1, <1>2, <1>3

-----------------------------------------------------------------------------
(* The invariant *)

Inside == {"visit", "claim", "compute"}
Outside == {"idle", "exit", "gone"}
Arming == {"arm", "release"}

\* Where the caller and the helpers can be, and how far the caller has armed.
Places ==
  /\ pc[0] \in Inside \cup Outside \cup Arming \cup {"release_own", "wait"}
  /\ \A t \in Helpers : pc[t] \in Inside \cup {"poll", "gone"}
  /\ pc[0] \notin Outside => thread_num \in 1..MaxThreads
  /\ pc[0] = "arm" => at \in 1..thread_num
  /\ pc[0] = "release" => at \in 1..(thread_num - 1)
  /\ pc[0] = "release_own" => at = thread_num

\* The caller has armed helper t and has not found it done yet.
Awaited(t) ==
  /\ t < thread_num
  /\ \/ pc[0] \in Inside \cup {"release_own"}
     \/ pc[0] \in Arming /\ t < at
     \/ pc[0] = "wait" /\ t >= at

\* The status words.
Handshake ==
  /\ \A t \in Helpers :
       /\ pc[t] \in Inside => status[t] = "WORKING"
       /\ status[t] = "WORKING" => Awaited(t) /\ pc[t] # "gone"
       /\ status[t] = "EXIT" \/ pc[t] = "gone" => pc[0] \in {"exit", "gone"}
  /\ status[0] = "WORKING" <=> pc[0] \in Inside
  /\ status[0] = "EXIT" => pc[0] \in {"exit", "gone"}

\* The range of thread k is that of the present job, and it may be claimed from.
Ready(k) ==
  \/ pc[0] \in Arming /\ k \in 1..(at - 1)
  \/ pc[0] = "release_own" /\ k \in 1..(thread_num - 1)
  \/ pc[0] \in Inside \cup {"wait"} /\ k \in 0..(thread_num - 1)

\* A thread works on ranges of the present job.
Visits ==
  \A t \in Threads :
    /\ pc[t] \in Inside => offset[t] \in 0..thread_num
    /\ pc[t] \in {"claim", "compute"} => offset[t] < thread_num /\ Ready(Victim(t))

AInv == TypeOK /\ Places /\ Handshake /\ Visits

-----------------------------------------------------------------------------

\* The caller is a thread of its own; the others are the helpers.
LEMMA ThreadsAre ==
  /\ 0 \in Threads /\ 0 \notin Helpers /\ Helpers \subseteq Threads
  /\ \A t \in Threads : t = 0 \/ t \in Helpers
  /\ Threads \subseteq Nat /\ \A t \in Helpers : t >= 1
BY ThreadsAssumption DEF Threads, Helpers

LEMMA Remainder ==
  ASSUME NEW m \in Nat \ {0}, NEW i \in 0..(m - 1)
  PROVE  i % m = i
<1>1. i \div m \in Nat /\ i % m \in 0..(m - 1) /\ i = m * (i \div m) + (i % m)
  <2>1. i \in Nat
    OBVIOUS
  <2> QED
    BY <2>1, Quotients
<1>2. i \div m = 0
  <2>1. i \div m >= 1 => m * (i \div m) >= m
    BY <1>1
  <2> QED
    BY <1>1, <2>1
<1> QED
  BY <1>1, <1>2

\* A victim is a thread of the job; at offset 0 it is the thread itself.
LEMMA Victims ==
  ASSUME TypeOK, thread_num \in 1..MaxThreads, NEW t \in Threads
  PROVE  /\ Victim(t) \in 0..(thread_num - 1) /\ Victim(t) \in Threads
         /\ offset[t] = 0 /\ t < thread_num => Victim(t) = t
<1>1. t \in Nat /\ offset[t] \in Nat /\ thread_num \in Nat \ {0}
  BY ThreadsAre DEF TypeOK
<1>2. Victim(t) \in 0..(thread_num - 1)
  <2>1. t + offset[t] \in Nat
    BY <1>1
  <2>2. (t + offset[t]) % thread_num \in 0..(thread_num - 1)
    BY <1>1, <2>1, Quotients
  <2> QED
    BY <2>2 DEF Victim
<1>3. offset[t] = 0 /\ t < thread_num => Victim(t) = t
  BY <1>1, Remainder DEF Victim
<1> QED
  BY <1>2, <1>3, ThreadsAssumption DEF Threads

\* A thread inside process_tasks takes part in a job that is under way.
LEMMA InJob ==
  ASSUME TypeOK, Places, Handshake, NEW t \in Threads, pc[t] \in Inside
  PROVE  /\ pc[0] \notin Outside /\ thread_num \in 1..MaxThreads /\ t < thread_num
         /\ Ready(t) /\ status[t] = "WORKING"
<1>1. CASE t = 0
  BY <1>1 DEF Places, Handshake, Ready, Inside, Outside
<1>2. CASE t # 0
  <2>1. t \in Helpers /\ t \in Nat /\ t >= 1 /\ Awaited(t) /\ status[t] = "WORKING"
    BY <1>2, ThreadsAre DEF Handshake
  <2>2. pc[0] \notin Outside /\ thread_num \in 1..MaxThreads /\ t < thread_num
    BY <2>1 DEF Awaited, Places, Inside, Outside, Arming
  <2>3. Ready(t)
    BY <2>1, <2>2 DEF Awaited, Ready, TypeOK, Arming
  <2> QED
    BY <2>1, <2>2, <2>3
<1> QED
  BY <1>1, <1>2

\* A thread whose status word says WORKING has a range of the present job.
LEMMA WorkingReady ==
  ASSUME TypeOK, Places, Handshake, NEW k \in Threads, status[k] = "WORKING"
  PROVE  Ready(k)
<1>1. CASE k = 0
  BY <1>1, InJob DEF Handshake, Inside
<1>2. CASE k # 0
  BY <1>2, ThreadsAre DEF Handshake, Awaited, Ready, TypeOK, Arming
<1> QED
  BY <1>1, <1>2

LEMMA AInit == Init => AInv
<1> SUFFICES ASSUME Init PROVE AInv
  OBVIOUS
<1> USE ThreadsAre, ThreadsAssumption, MaxJobsAssumption DEF Init
<1>1. TypeOK /\ Places
  BY DEF TypeOK, Places, Inside, Outside, Arming
<1>2. Handshake
  BY DEF Handshake, Inside
<1>3. Visits
  BY DEF Visits, Inside
<1> QED
  BY <1>1, <1>2, <1>3 DEF AInv

-----------------------------------------------------------------------------
(* The steps preserve the handshake *)

\* A step of process_tasks inside it.
Works(t) == Visit(t) \/ Skip(t) \/ Claim(t) \/ Exhausted(t) \/ Compute(t)

LEMMA WorksIs ==
  ASSUME TypeOK, NEW t \in Threads, Works(t)
  PROVE  /\ pc[t] \in Inside /\ pc'[t] \in Inside /\ pc' \in [Threads -> Inside \cup {"idle", "arm", "release", "release_own", "wait", "poll", "exit", "gone"}]
         /\ \A u \in Threads : u # t => pc'[u] = pc[u] /\ offset'[u] = offset[u] /\ task_id'[u] = task_id[u]
         /\ UNCHANGED <<status, end, jobVars, at>>
<1> USE DEF TypeOK
<1>1. \E to \in Inside : pc[t] \in Inside /\ pc' = [pc EXCEPT ![t] = to]
  <2>1. CASE Visit(t) \/ Claim(t) \/ Exhausted(t) \/ Compute(t)
    BY <2>1 DEF Visit, Claim, Exhausted, Compute, Goto, Inside
  <2>2. CASE Skip(t)
    <3>1. pc' = [pc EXCEPT ![t] = "visit"] /\ pc[t] = "visit"
      BY <2>2 DEF Skip
    <3> QED
      BY <3>1 DEF Inside
  <2> QED
    BY <2>1, <2>2 DEF Works
<1>2. \A u \in Threads : u # t => offset'[u] = offset[u] /\ task_id'[u] = task_id[u]
  BY DEF Works, Visit, Skip, Claim, Exhausted, Compute, stealVars
<1>3. UNCHANGED <<status, end, jobVars, at>>
  BY DEF Works, Visit, Skip, Claim, Exhausted, Compute, rangeVars
<1> QED
  BY <1>1, <1>2, <1>3 DEF Inside

\* The threads of a job, as Begin determines them.
LEMMA BeginIs ==
  ASSUME TypeOK, NEW n \in JobSizes, Begin(n)
  PROVE  /\ pc[0] = "idle" /\ pc'[0] = "arm" /\ at' = 1 /\ size' = n /\ n \in Nat \ {0}
         /\ thread_num' \in 1..MaxThreads /\ times' = Untouched(n)
         /\ \A t \in Helpers : pc'[t] = pc[t]
         /\ end' = [end EXCEPT ![0] = ShareOf(n, thread_num', 0)]
         /\ ShareOf(n, thread_num', 0) \in Nat
         /\ UNCHANGED <<use_numa, status, curr, stealVars>>
<1>1. n \in Nat \ {0}
  BY SizesAssumption
<1>2. thread_num' \in 1..MaxThreads
  BY <1>1, ThreadsAssumption DEF Begin, MinOf
<1>3. end' = [end EXCEPT ![0] = ShareOf(n, thread_num', 0)]
  BY DEF Begin, Share, ShareOf
<1>4. ShareOf(n, thread_num', 0) \in Nat
  BY <1>1, <1>2, Shares
<1> QED
  BY <1>1, <1>2, <1>3, <1>4, ThreadsAre DEF Begin, Goto, TypeOK

LEMMA TypeStep ==
  ASSUME AInv, [Next]_vars
  PROVE  TypeOK'
<1> USE ThreadsAre, ThreadsAssumption, BuildsAssumption, MaxJobsAssumption DEF TypeOK, AInv
<1>0. ASSUME NEW i \in Threads, thread_num \in 1..MaxThreads PROVE Share(i) \in Nat
  <2>1. Share(i) = ShareOf(size, thread_num, i)
    BY DEF Share, ShareOf
  <2>2. size \in Nat /\ thread_num \in Nat \ {0} /\ i \in Nat
    BY <1>0
  <2> QED
    BY <2>1, <2>2, Shares
<1>1. ASSUME NEW n \in JobSizes, Begin(n) PROVE TypeOK'
  <2>1. end' \in [Threads -> Nat]
    BY <1>1, BeginIs
  <2>2. pc' \in [Threads -> {"idle", "arm", "release", "release_own", "visit", "claim", "compute",
                             "wait", "poll", "exit", "gone"}]
    BY <1>1 DEF Begin, Goto
  <2>3. thread_num' \in 0..MaxThreads /\ size' \in Nat /\ jobs' \in 0..MaxJobs /\ at' \in 0..MaxThreads
    <3>1. thread_num' \in 1..MaxThreads /\ size' \in Nat /\ at' = 1
      BY <1>1, BeginIs
    <3>2. jobs' \in 0..MaxJobs
      BY <1>1 DEF Begin
    <3> QED
      BY <3>1, <3>2
  <2> QED
    BY <1>1, <2>1, <2>2, <2>3 DEF Begin, stealVars
<1>2. CASE SetRange
  <2>1. at \in 1..(MaxThreads - 1) /\ at \in Threads /\ at - 1 \in Threads /\ end[at - 1] \in Nat
        /\ Share(at) \in Nat
    BY <1>0, <1>2 DEF SetRange, Places, Outside, Threads
  <2> QED
    BY <1>2, <2>1 DEF SetRange, Goto, jobVars, stealVars
<1>3. CASE SetWorking
  <2>1. at + 1 \in 0..MaxThreads
    BY <1>3 DEF SetWorking, Places, Outside
  <2> QED
    BY <1>3, <2>1 DEF SetWorking, Goto, rangeVars, jobVars, stealVars
<1>4. CASE SetOwnCurr \/ SetOwnWorking \/ Return
  BY <1>4 DEF SetOwnCurr, SetOwnWorking, Return, Goto, rangeVars, jobVars, stealVars
<1>5. CASE WaitFor
  BY <1>5 DEF WaitFor, rangeVars, jobVars, stealVars
<1>6. ASSUME NEW t \in Threads, Works(t) PROVE TypeOK'
  <2>1. thread_num \in 1..MaxThreads /\ offset[t] \in 0..thread_num
    BY <1>6, WorksIs, InJob DEF Visits
  <2>2. Victim(t) \in Threads
    BY <2>1, Victims
  <2>3. offset' \in [Threads -> 0..MaxThreads]
    <3>1. CASE offset' = [offset EXCEPT ![t] = @ + 1]
      <4>1. offset[t] < thread_num
        BY <1>6, <3>1 DEF Works, Visit, Skip, Claim, Exhausted, Compute, stealVars, Visits
      <4>2. offset[t] + 1 \in 0..MaxThreads
        BY <2>1, <4>1
      <4> QED
        BY <3>1, <4>2
    <3>2. CASE offset' = offset
      BY <3>2
    <3> QED
      BY <1>6, <3>1, <3>2 DEF Works, Visit, Skip, Claim, Exhausted, Compute, stealVars
  <2>4. curr' \in [Threads -> Nat] /\ task_id' \in [Threads -> Nat]
    <3>0. \A v \in Threads : curr[v] \in Nat /\ curr[v] + 1 \in Nat
      OBVIOUS
    <3>1. CASE Claim(t) \/ Exhausted(t)
      <4>1. curr[Victim(t)] \in Nat /\ curr[Victim(t)] + 1 \in Nat
        BY <2>2, <3>0
      <4>2. task_id' = [task_id EXCEPT ![t] = curr[Victim(t)]]
        BY <3>1 DEF Claim, Exhausted
      <4>3. curr' = [curr EXCEPT ![Victim(t)] = curr[Victim(t)] + 1]
        BY <3>1 DEF Claim, Exhausted
      <4> QED
        BY <2>2, <4>1, <4>2, <4>3
    <3>2. CASE Visit(t) \/ Skip(t) \/ Compute(t)
      BY <3>2 DEF Visit, Skip, Compute, rangeVars, stealVars
    <3> QED
      BY <1>6, <3>1, <3>2 DEF Works
  <2> QED
    BY <1>6, <2>3, <2>4, WorksIs DEF jobVars, Inside
<1>7. ASSUME NEW t \in Threads, Finalize(t) PROVE TypeOK'
  BY <1>7 DEF Finalize, Goto, rangeVars, jobVars, stealVars
<1>8. ASSUME NEW t \in Helpers, Poll(t) PROVE TypeOK'
  BY <1>8 DEF Poll, Goto, rangeVars, jobVars
<1>9. CASE Destroy \/ Join
  BY <1>9 DEF Destroy, Join, Goto, rangeVars, jobVars, stealVars
<1>10. CASE StoreExit
  <2>1. at + 1 \in 0..MaxThreads
    BY <1>10 DEF StoreExit
  <2>2. status' \in [Threads -> {"WAITING", "WORKING", "EXIT"}]
    BY <1>10 DEF StoreExit
  <2> QED
    BY <1>10, <2>1, <2>2 DEF StoreExit, rangeVars, jobVars, stealVars
<1>11. CASE UNCHANGED vars
  BY <1>11 DEF vars, rangeVars, jobVars, stealVars
<1> QED
  BY <1>1, <1>2, <1>3, <1>4, <1>5, <1>6, <1>7, <1>8, <1>9, <1>10, <1>11
     DEF Next, Caller, ProcessTasks, Works, PollAgain, Gone

LEMMA PlacesStep ==
  ASSUME AInv, [Next]_vars
  PROVE  Places'
<1> USE ThreadsAre DEF TypeOK, AInv, Places, Inside, Outside, Arming
<1>1. ASSUME NEW n \in JobSizes, Begin(n) PROVE Places'
  BY <1>1, BeginIs
<1>2. CASE SetRange \/ SetWorking
  BY <1>2 DEF SetRange, SetWorking, Goto, jobVars
<1>3. CASE SetOwnCurr \/ SetOwnWorking \/ WaitFor \/ Return
  BY <1>3 DEF SetOwnCurr, SetOwnWorking, WaitFor, Return, Goto, jobVars
<1>4. ASSUME NEW t \in Threads, Works(t) PROVE Places'
  BY <1>4, WorksIs DEF jobVars
<1>5. ASSUME NEW t \in Threads, Finalize(t) PROVE Places'
  BY <1>5 DEF Finalize, Goto, jobVars
<1>6. ASSUME NEW t \in Helpers, Poll(t) PROVE Places'
  BY <1>6 DEF Poll, Goto, jobVars
<1>7. CASE Destroy \/ StoreExit \/ Join
  BY <1>7 DEF Destroy, StoreExit, Join, Goto, jobVars
<1>8. CASE UNCHANGED vars
  BY <1>8 DEF vars, jobVars
<1> QED
  BY <1>1, <1>2, <1>3, <1>4, <1>5, <1>6, <1>7, <1>8
     DEF Next, Caller, ProcessTasks, Works, PollAgain, Gone

LEMMA HandshakeStep ==
  ASSUME AInv, [Next]_vars
  PROVE  Handshake'
<1> USE ThreadsAre, ThreadsAssumption DEF TypeOK, AInv, Places, Handshake, Awaited, Inside, Outside, Arming
<1>1. ASSUME NEW n \in JobSizes, Begin(n) PROVE Handshake'
  BY <1>1, BeginIs
<1>2. CASE SetRange
  BY <1>2 DEF SetRange, Goto, jobVars
<1>3. CASE SetWorking
  <2>1. /\ pc[0] = "release" /\ status' = [status EXCEPT ![at] = "WORKING"] /\ at' = at + 1
        /\ pc' = [pc EXCEPT ![0] = "arm"] /\ at \in 1..(thread_num - 1) /\ at \in Helpers
        /\ UNCHANGED thread_num
    BY <1>3 DEF SetWorking, Goto, jobVars, Helpers
  <2> QED
    BY <2>1
<1>4. CASE SetOwnCurr
  BY <1>4 DEF SetOwnCurr, Goto, jobVars
<1>5. CASE SetOwnWorking
  BY <1>5 DEF SetOwnWorking, Goto, jobVars
<1>6. CASE WaitFor
  BY <1>6 DEF WaitFor, jobVars
<1>7. CASE Return
  BY <1>7 DEF Return, Goto, jobVars
<1>8. ASSUME NEW t \in Threads, Works(t) PROVE Handshake'
  BY <1>8, WorksIs DEF jobVars
<1>9. ASSUME NEW t \in Threads, Finalize(t) PROVE Handshake'
  <2>1. CASE t = 0
    BY <1>9, <2>1 DEF Finalize, Goto, jobVars
  <2>2. CASE t # 0
    BY <1>9, <2>2 DEF Finalize, Goto, jobVars
  <2> QED
    BY <2>1, <2>2
<1>10. ASSUME NEW t \in Helpers, Poll(t) PROVE Handshake'
  BY <1>10 DEF Poll, Goto, jobVars
<1>11. CASE Destroy \/ Join
  BY <1>11 DEF Destroy, Join, Goto, jobVars
<1>12. CASE StoreExit
  <2>1. /\ pc[0] = "exit" /\ at \in Threads /\ status' = [status EXCEPT ![at] = "EXIT"]
        /\ UNCHANGED <<pc, thread_num>>
    BY <1>12 DEF StoreExit, jobVars, Threads
  <2> QED
    BY <2>1
<1>13. CASE UNCHANGED vars
  BY <1>13 DEF vars, jobVars
<1> QED
  BY <1>1, <1>2, <1>3, <1>4, <1>5, <1>6, <1>7, <1>8, <1>9, <1>10, <1>11, <1>12, <1>13
     DEF Next, Caller, ProcessTasks, Works, PollAgain, Gone

\* When the caller returns from its waits, nobody works any more.
LEMMA NobodyWorks ==
  ASSUME TypeOK, Places, Handshake, pc[0] \in Outside \/ (pc[0] = "wait" /\ at >= thread_num)
  PROVE  \A t \in Threads : pc[t] \notin Inside /\ status[t] # "WORKING"
BY ThreadsAre DEF TypeOK, Places, Handshake, Awaited, Inside, Outside, Arming

\* What no step of a job takes back: a range that is ready.
LEMMA StaysReady ==
  ASSUME AInv, [Next]_vars, pc[0] \notin Outside, ~Return, NEW k, Ready(k)
  PROVE  Ready(k)' /\ UNCHANGED <<thread_num, size>>
<1> USE ThreadsAre DEF TypeOK, AInv, Places, Ready, Inside, Outside, Arming
<1>1. ASSUME NEW n \in JobSizes, Begin(n) PROVE FALSE
  BY <1>1 DEF Begin
<1>2. CASE SetRange \/ SetWorking \/ SetOwnCurr \/ SetOwnWorking \/ WaitFor
  BY <1>2 DEF SetRange, SetWorking, SetOwnCurr, SetOwnWorking, WaitFor, Goto, jobVars
<1>3. ASSUME NEW t \in Threads, Works(t) PROVE Ready(k)' /\ UNCHANGED <<thread_num, size>>
  BY <1>3, WorksIs DEF jobVars
<1>4. ASSUME NEW t \in Threads, Finalize(t) PROVE Ready(k)' /\ UNCHANGED <<thread_num, size>>
  BY <1>4 DEF Finalize, Goto, jobVars
<1>5. ASSUME NEW t \in Helpers, Poll(t) PROVE Ready(k)' /\ UNCHANGED <<thread_num, size>>
  BY <1>5 DEF Poll, Goto, jobVars
<1>6. CASE Destroy \/ StoreExit \/ Join
  BY <1>6 DEF Destroy, StoreExit, Join
<1>7. CASE UNCHANGED vars
  BY <1>7 DEF vars, jobVars
<1> QED
  BY <1>1, <1>2, <1>3, <1>4, <1>5, <1>6, <1>7
     DEF Next, Caller, ProcessTasks, Works, PollAgain, Gone

\* No step of a thread changes what another works on.
LEMMA VisitsKept ==
  ASSUME AInv, [Next]_vars, pc[0] \notin Outside, ~Return,
         NEW u \in Threads, pc'[u] \in Inside => pc'[u] = pc[u], offset'[u] = offset[u]
  PROVE  /\ pc'[u] \in Inside => offset'[u] \in 0..thread_num'
         /\ pc'[u] \in {"claim", "compute"} =>
              offset'[u] < thread_num' /\ Ready(Victim(u))' /\ Victim(u)' = Victim(u)
<1> USE DEF AInv
<1>1. thread_num' = thread_num
  BY DEF Next, Caller, ProcessTasks, Begin, SetRange, SetWorking, SetOwnCurr, SetOwnWorking, WaitFor,
         Visit, Skip, Claim, Exhausted, Compute, Finalize, Poll, PollAgain, Gone, Destroy, StoreExit,
         Join, vars, jobVars, Outside
<1>2. Victim(u)' = Victim(u)
  BY <1>1 DEF Victim
<1>3. pc'[u] \in Inside => offset'[u] \in 0..thread_num'
  BY <1>1 DEF Visits
<1>4. ASSUME pc'[u] \in {"claim", "compute"} PROVE offset'[u] < thread_num' /\ Ready(Victim(u))'
  <2>1. offset[u] < thread_num /\ Ready(Victim(u))
    BY <1>4 DEF Visits, Inside
  <2>2. \A k : Ready(k) => Ready(k)'
    BY StaysReady
  <2>3. Ready(Victim(u))'
    BY <1>2, <2>1, <2>2 DEF Ready
  <2> QED
    BY <1>1, <2>1, <2>3
<1> QED
  BY <1>2, <1>3, <1>4

LEMMA VisitsStep ==
  ASSUME AInv, [Next]_vars
  PROVE  Visits'
<1> USE ThreadsAre DEF AInv
<1>1. CASE pc[0] \in Outside \/ Return
  <2>1. \A t \in Threads : pc[t] \notin Inside /\ status[t] # "WORKING"
    BY <1>1, NobodyWorks DEF Return
  <2>2. \A t \in Threads : pc'[t] \notin Inside
    <3>1. ASSUME NEW n \in JobSizes, Begin(n) PROVE \A t \in Threads : pc'[t] \notin Inside
      BY <2>1, <3>1, BeginIs DEF Inside
    <3>2. CASE Return \/ Destroy \/ StoreExit \/ Join
      BY <2>1, <3>2 DEF Return, Destroy, StoreExit, Join, Goto, TypeOK, Inside
    <3>3. ASSUME NEW t \in Helpers, Poll(t) PROVE \A u \in Threads : pc'[u] \notin Inside
      BY <2>1, <3>3 DEF Poll, Goto, TypeOK, Inside
    <3>4. ASSUME NEW t \in Threads, ProcessTasks(t) PROVE FALSE
      BY <2>1, <3>4 DEF ProcessTasks, Visit, Skip, Claim, Exhausted, Compute, Finalize, Inside
    <3>5. CASE UNCHANGED vars
      BY <2>1, <3>5 DEF vars
    <3>6. CASE SetRange \/ SetWorking \/ SetOwnCurr \/ SetOwnWorking \/ WaitFor
      BY <1>1, <2>1, <3>6 DEF SetRange, SetWorking, SetOwnCurr, SetOwnWorking, WaitFor, Goto, Outside,
                              TypeOK, Inside, Return
    <3> QED
      BY <3>1, <3>2, <3>3, <3>4, <3>5, <3>6 DEF Next, Caller, PollAgain, Gone
  <2> QED
    BY <2>2 DEF Visits, Inside
<1>2. CASE pc[0] \notin Outside /\ ~Return
  <2> SUFFICES ASSUME NEW u \in Threads
               PROVE  /\ pc'[u] \in Inside => offset'[u] \in 0..thread_num'
                      /\ pc'[u] \in {"claim", "compute"} => offset'[u] < thread_num' /\ Ready(Victim(u))'
    BY DEF Visits
  <2> DEFINE Good == /\ pc'[u] \in Inside => offset'[u] \in 0..thread_num'
                     /\ pc'[u] \in {"claim", "compute"} => offset'[u] < thread_num' /\ Ready(Victim(u))'
  <2>0. ASSUME pc'[u] \in Inside => pc'[u] = pc[u], offset'[u] = offset[u] PROVE Good
    BY <1>2, <2>0, VisitsKept
  <2>1. CASE SetRange \/ SetWorking \/ SetOwnCurr \/ WaitFor
    BY <2>0, <2>1 DEF SetRange, SetWorking, SetOwnCurr, WaitFor, Goto, stealVars, TypeOK, Inside
  <2>2. CASE SetOwnWorking
    <3>1. CASE u = 0
      BY <1>2, <2>2, <3>1 DEF SetOwnWorking, Goto, TypeOK, Inside, Places, jobVars
    <3>2. CASE u # 0
      BY <2>0, <2>2, <3>2 DEF SetOwnWorking, Goto, TypeOK
    <3> QED
      BY <3>1, <3>2
  <2>3. ASSUME NEW t \in Threads, Works(t) PROVE Good
    <3>1. CASE u # t
      BY <2>0, <2>3, <3>1, WorksIs
    <3>2. CASE u = t
      <4>1. /\ pc[t] \in Inside /\ thread_num \in 1..MaxThreads /\ thread_num' = thread_num
            /\ offset[t] \in 0..thread_num /\ t < thread_num /\ Ready(t)
            /\ pc[0] \in Inside <=> pc'[0] \in Inside
        BY <2>3, WorksIs, InJob DEF Visits, jobVars
      <4>2. \A k : Ready(k) => Ready(k)'
        BY <1>2, StaysReady
      <4>3. CASE Skip(t) \/ Exhausted(t)
        <5>1. /\ pc'[t] = "visit" /\ offset'[t] = offset[t] + 1
          BY <4>3 DEF Skip, Exhausted, Goto, TypeOK
        <5>2. offset[t] < thread_num
          BY <4>1, <4>3 DEF Skip, Exhausted, Visits
        <5> QED
          BY <3>2, <4>1, <5>1, <5>2
      <4>4. CASE Claim(t) \/ Compute(t)
        <5>1. pc[t] \in {"claim", "compute"} /\ offset'[t] = offset[t]
          BY <4>4 DEF Claim, Compute, stealVars
        <5>2. offset[t] < thread_num /\ Ready(Victim(t)) /\ Victim(t)' = Victim(t)
          BY <4>1, <5>1 DEF Visits, Victim
        <5>3. Ready(Victim(t))'
          BY <4>2, <5>2 DEF Ready
        <5> QED
          BY <3>2, <4>1, <5>1, <5>2, <5>3
      <4>5. CASE Visit(t)
        <5>1. /\ offset'[t] = offset[t] /\ offset[t] < thread_num
              /\ offset[t] = 0 \/ status[Victim(t)] = "WORKING"
          BY <4>5 DEF Visit, stealVars
        <5>2. Ready(Victim(t))
          <6>1. Victim(t) \in Threads /\ (offset[t] = 0 => Victim(t) = t)
            BY <4>1, Victims
          <6> QED
            BY <4>1, <5>1, <6>1, WorkingReady
        <5>3. Victim(t)' = Victim(t)
          BY <4>1, <5>1 DEF Victim
        <5>4. Ready(Victim(t))'
          BY <4>2, <5>2, <5>3 DEF Ready
        <5> QED
          BY <3>2, <4>1, <5>1, <5>4
      <4> QED
        BY <2>3, <4>3, <4>4, <4>5 DEF Works
    <3> QED
      BY <3>1, <3>2
  <2>4. ASSUME NEW t \in Threads, Finalize(t) PROVE Good
    BY <2>0, <2>4 DEF Finalize, Goto, stealVars, TypeOK, Inside
  <2>5. ASSUME NEW t \in Helpers, Poll(t) PROVE Good
    <3>1. CASE u = t
      BY <1>2, <2>5, <3>1 DEF Poll, Goto, TypeOK, Inside, Places, jobVars
    <3>2. CASE u # t
      BY <2>0, <2>5, <3>2 DEF Poll, Goto, TypeOK
    <3> QED
      BY <3>1, <3>2
  <2>6. CASE UNCHANGED vars
    BY <2>0, <2>6 DEF vars, stealVars
  <2>7. ASSUME NEW n \in JobSizes, Begin(n) PROVE Good
    BY <1>2, <2>7 DEF Begin, Outside
  <2>8. CASE Destroy \/ StoreExit \/ Join
    BY <2>0, <2>8 DEF Destroy, StoreExit, Join, Goto, stealVars, TypeOK, Inside
  <2> QED
    BY <1>2, <2>1, <2>2, <2>3, <2>4, <2>5, <2>6, <2>7, <2>8
       DEF Next, Caller, ProcessTasks, Works, PollAgain, Gone
<1> QED
  BY <1>1, <1>2

LEMMA APreserved == AInv /\ [Next]_vars => AInv'
<1> SUFFICES ASSUME AInv, [Next]_vars PROVE AInv'
  OBVIOUS
<1> QED
  BY TypeStep, PlacesStep, HandshakeStep, VisitsStep DEF AInv

LEMMA AInvariant == Spec => []AInv
BY AInit, APreserved, PTL DEF Spec

(* Every variable of the pool keeps its type: counters, offsets and thread *)
(* numbers stay within their ranges, and no thread beyond the pool is      *)
(* addressed, in either build.                                             *)
THEOREM TypeCorrect == Spec => []TypeOK
<1>1. AInv => TypeOK
  BY DEF AInv
<1> QED
  BY <1>1, AInvariant, PTL

(* While the caller still writes ranges, a thief is inside one that was    *)
(* written for this job: status words left over from the last job never    *)
(* lead it to a stale range, for any number of threads.                    *)
THEOREM ThievesFindArmedRanges == Spec => []RangesArmed
<1>1. AInv => RangesArmed
  <2> SUFFICES ASSUME AInv, pc[0] \in {"arm", "release", "release_own"},
                      NEW t \in Working, pc[t] = "claim"
               PROVE  Victim(t) \in 1..(at - 1)
    BY DEF RangesArmed
  <2>1. t \in Threads /\ Ready(Victim(t))
    BY DEF AInv, Visits, Working, Inside
  <2> QED
    BY <2>1 DEF Ready, AInv, Places, Inside, Arming
<1> QED
  BY <1>1, AInvariant, PTL

-----------------------------------------------------------------------------
(* The ranges and what has been computed of them *)

Bound(k) == BoundOf(size, thread_num, k)

\* The end of the range of thread k is that of the present job.
HasEnd(k) ==
  \/ pc[0] = "arm" /\ k \in 0..(at - 1)
  \/ pc[0] = "release" /\ k \in 0..at
  \/ pc[0] \in Inside \cup {"release_own", "wait"} /\ k \in 0..(thread_num - 1)

\* The ranges are the ones the shares determine, and they cover every index below
\* the last end; a counter starts at the beginning of its range.
Ranges ==
  /\ \A k \in Threads : HasEnd(k) =>
       /\ end[k] = Bound(k + 1)
       /\ \A i \in 0..(end[k] - 1) : \E j \in 0..k : Bound(j) <= i /\ i < Bound(j + 1)
  /\ pc[0] = "release" => curr[at] = Bound(at)
  /\ pc[0] = "release_own" => curr[0] = 0

\* Thread t has claimed index i and not computed it yet.
Has(t, i) == pc[t] = "compute" /\ task_id[t] = i

\* Index i lies in the range of thread k.
In(i, k) == Bound(k) <= i /\ i < Bound(k + 1)

Counts ==
  /\ \A k \in Threads : Ready(k) => Bound(k) <= curr[k]
  /\ \A t \in Threads : pc[t] = "compute" =>
       In(task_id[t], Victim(t)) /\ task_id[t] < curr[Victim(t)]
  /\ \A t, u \in Threads, i \in Nat : Has(t, i) /\ Has(u, i) => t = u
  /\ times \in [0..(size - 1) -> Nat]
  /\ pc[0] \notin Outside => \A k \in 0..(thread_num - 1), i \in 0..(size - 1) : In(i, k) =>
       times[i] = IF Ready(k) /\ i < curr[k] /\ (\A t \in Threads : ~Has(t, i)) THEN 1 ELSE 0

\* A thread leaves its own range, and the job, only when the range is used up.
UsedUp ==
  \A t \in Threads :
    \/ pc[t] \in Inside /\ offset[t] >= 1
    \/ Ready(t) /\ status[t] # "WORKING"
    => Bound(t + 1) <= curr[t]

IInv == AInv /\ Ranges /\ Counts /\ UsedUp

-----------------------------------------------------------------------------

LEMMA BoundIs ==
  ASSUME TypeOK, thread_num \in 1..MaxThreads
  PROVE  /\ \A k \in Nat : /\ Bound(k) \in Nat /\ Share(k) \in Nat
                           /\ Bound(k + 1) = Bound(k) + Share(k) /\ Bound(k + 1) \in Nat
         /\ Bound(0) = 0 /\ Bound(thread_num) = size
         /\ \A j, k \in Nat : j <= k => Bound(j) <= Bound(k)
         /\ \A i, j, k \in Nat : In(i, j) /\ In(i, k) => j = k
<1>1. size \in Nat /\ thread_num \in Nat \ {0}
  BY ThreadsAssumption DEF TypeOK
<1>2. \A k : Share(k) = ShareOf(size, thread_num, k)
  BY DEF Share, ShareOf
<1>3. ASSUME NEW k \in Nat
      PROVE  /\ Bound(k) \in Nat /\ Share(k) \in Nat
             /\ Bound(k + 1) = Bound(k) + Share(k) /\ Bound(k + 1) \in Nat
  <2>1. /\ BoundOf(size, thread_num, k) \in Nat /\ ShareOf(size, thread_num, k) \in Nat
        /\ BoundOf(size, thread_num, k + 1)
             = BoundOf(size, thread_num, k) + ShareOf(size, thread_num, k)
    BY <1>1, Shares
  <2> QED
    BY <1>2, <2>1 DEF Bound
<1>4. Bound(0) = 0 /\ Bound(thread_num) = size
  BY <1>1, SharesEnds DEF Bound
<1>5. \A j, k \in Nat : j <= k => Bound(j) <= Bound(k)
  BY <1>1, SharesGrow DEF Bound
<1>6. \A i, j, k \in Nat : In(i, j) /\ In(i, k) => j = k
  BY <1>1, SharesDisjoint DEF Bound, In
<1> QED
  BY <1>3, <1>4, <1>5, <1>6

LEMMA IInit == Init => IInv
<1> SUFFICES ASSUME Init PROVE IInv
  OBVIOUS
<1> USE ThreadsAre
<1>1. /\ pc[0] = "idle" /\ size = 0 /\ times = Untouched(0)
      /\ \A t \in Threads : pc[t] \notin Inside
  BY DEF Init, Inside
<1>2. Ranges /\ UsedUp
  BY <1>1 DEF Ranges, HasEnd, UsedUp, Ready, Inside, Arming
<1>3. Counts
  BY <1>1 DEF Counts, Ready, Has, Untouched, Inside, Outside, Arming
<1> QED
  BY <1>2, <1>3, AInit DEF IInv

\* A step that computes and claims nothing: what was ready stays as it is, and what
\* becomes ready is untouched.
LEMMA Undisturbed ==
  ASSUME IInv, AInv', UNCHANGED <<size, thread_num, times>>,
         \A k \in Threads : /\ Ready(k) => Ready(k)' /\ curr'[k] = curr[k]
                            /\ Ready(k)' /\ ~Ready(k) => curr'[k] = Bound(k),
         pc[0] \notin Outside,
         \A t \in Threads : /\ pc'[t] = "compute" <=> pc[t] = "compute"
                            /\ pc[t] = "compute" => offset'[t] = offset[t] /\ task_id'[t] = task_id[t]
  PROVE  Counts'
<1> USE DEF IInv, AInv
<1>0. thread_num \in 1..MaxThreads /\ \A k \in 0..(thread_num - 1) : k \in Threads /\ k \in Nat
  BY ThreadsAssumption DEF Places, Threads
<1>1. \A k : Bound(k)' = Bound(k)
  BY DEF Bound
<1>2. \A i, k : In(i, k)' <=> In(i, k)
  BY <1>1 DEF In
<1>3. \A t \in Threads : \A i : Has(t, i)' <=> Has(t, i)
  BY DEF Has
<1>4. \A t \in Threads : pc[t] = "compute" => Victim(t)' = Victim(t) /\ Victim(t) \in Threads
  BY <1>0, Victims DEF Victim
<1>5. ASSUME NEW k \in Threads, Ready(k)' PROVE Bound(k)' <= curr'[k]
  <2>1. k \in Nat /\ Bound(k) \in Nat
    BY <1>0, BoundIs, ThreadsAre
  <2>2. CASE Ready(k)
    BY <1>1, <2>1, <2>2 DEF Counts
  <2>3. CASE ~Ready(k)
    BY <1>1, <1>5, <2>1, <2>3
  <2> QED
    BY <2>2, <2>3
<1>6. ASSUME NEW t \in Threads, pc'[t] = "compute"
      PROVE  In(task_id[t], Victim(t))' /\ task_id'[t] < curr'[Victim(t)']
  <2>1. /\ pc[t] = "compute" /\ Victim(t)' = Victim(t) /\ task_id'[t] = task_id[t]
        /\ In(task_id[t], Victim(t)) /\ task_id[t] < curr[Victim(t)]
        /\ curr'[Victim(t)] = curr[Victim(t)]
    BY <1>4, <1>6 DEF Counts, Visits
  <2> QED
    BY <1>1, <2>1 DEF In
<1>7. /\ \A t, u \in Threads, i \in Nat : Has(t, i)' /\ Has(u, i)' => t = u
      /\ times' \in [0..(size' - 1) -> Nat]
  BY <1>3 DEF Counts
<1>8. ASSUME NEW k \in 0..(thread_num - 1), NEW i \in 0..(size - 1), In(i, k)
      PROVE  times[i] = IF Ready(k)' /\ i < curr'[k] /\ (\A t \in Threads : ~Has(t, i)') THEN 1 ELSE 0
  <2>1. times[i] = IF Ready(k) /\ i < curr[k] /\ (\A t \in Threads : ~Has(t, i)) THEN 1 ELSE 0
    BY <1>8 DEF Counts
  <2>2. k \in Threads /\ k \in Nat /\ Bound(k) \in Nat /\ Bound(k) <= i
    BY <1>0, <1>8, BoundIs DEF In
  <2>3. CASE Ready(k)
    BY <1>3, <2>1, <2>2, <2>3
  <2>4. CASE ~Ready(k)
    BY <2>1, <2>2, <2>4
  <2> QED
    BY <2>3, <2>4
<1>9. \A k \in 0..(thread_num' - 1), i \in 0..(size' - 1) : In(i, k)' =>
       times'[i] = IF Ready(k)' /\ i < curr'[k] /\ (\A t \in Threads : ~Has(t, i)') THEN 1 ELSE 0
  BY <1>2, <1>8
<1> QED
  BY <1>5, <1>6, <1>7, <1>9 DEF Counts

LEMMA RangesStep ==
  ASSUME IInv, [Next]_vars, AInv'
  PROVE  Ranges'
<1> USE ThreadsAre DEF IInv, AInv
<1>0. ASSUME UNCHANGED <<size, thread_num, end>>, \A k \in Threads : HasEnd(k)' => HasEnd(k),
             pc'[0] = "release" => curr'[at'] = Bound(at'),
             pc'[0] = "release_own" => curr'[0] = 0
      PROVE  Ranges'
  <2>1. \A k : Bound(k)' = Bound(k)
    BY <1>0 DEF Bound
  <2>2. \A k \in Threads : HasEnd(k)' =>
          /\ end'[k] = Bound(k + 1)'
          /\ \A i \in 0..(end'[k] - 1) : \E j \in 0..k : Bound(j)' <= i /\ i < Bound(j + 1)'
    BY <1>0, <2>1 DEF Ranges
  <2>3. Bound(at)' = Bound(at')
    BY <1>0 DEF Bound
  <2> QED
    BY <1>0, <2>2, <2>3 DEF Ranges
<1>1. ASSUME NEW n \in JobSizes, Begin(n) PROVE Ranges'
  <2>1. /\ pc'[0] = "arm" /\ at' = 1 /\ n \in Nat /\ thread_num' \in Nat \ {0} /\ size' = n
        /\ end' = [end EXCEPT ![0] = ShareOf(n, thread_num', 0)]
    BY <1>1, BeginIs, ThreadsAssumption
  <2>2. end'[0] = ShareOf(n, thread_num', 0)
    BY <2>1 DEF TypeOK
  <2>3. Bound(0)' = 0 /\ Bound(0 + 1)' = end'[0]
    <3>1. /\ BoundOf(n, thread_num', 0) = 0
          /\ BoundOf(n, thread_num', 0 + 1)
               = BoundOf(n, thread_num', 0) + ShareOf(n, thread_num', 0)
          /\ ShareOf(n, thread_num', 0) \in Nat
      BY <2>1, Shares, SharesEnds
    <3> QED
      BY <2>1, <2>2, <3>1 DEF Bound
  <2>4. \A k \in Threads : HasEnd(k)' => k = 0
    BY <2>1 DEF HasEnd, Inside
  <2>5. \A i \in 0..(end'[0] - 1) : \E j \in 0..0 : Bound(j)' <= i /\ i < Bound(j + 1)'
    <3>1. end'[0] \in Nat /\ 0 \in 0..0
      BY DEF TypeOK
    <3>2. \A i \in 0..(end'[0] - 1) : Bound(0)' <= i /\ i < Bound(0 + 1)'
      BY <2>3, <3>1
    <3> QED
      BY <3>1, <3>2 DEF Bound
  <2> QED
    BY <2>1, <2>3, <2>4, <2>5 DEF Ranges
<1>2. CASE SetRange
  <2>1. /\ pc[0] = "arm" /\ at < thread_num /\ pc'[0] = "release" /\ at \in 1..(MaxThreads - 1)
        /\ thread_num \in 1..MaxThreads /\ at - 1 \in Threads /\ at \in Threads
        /\ curr' = [curr EXCEPT ![at] = end[at - 1]]
        /\ end' = [end EXCEPT ![at] = end[at - 1] + Share(at)]
        /\ UNCHANGED <<at, size, thread_num>>
    BY <1>2, ThreadsAssumption DEF SetRange, Goto, TypeOK, Places, Outside, jobVars, Threads
  <2>2. \A k : Bound(k)' = Bound(k)
    BY <2>1 DEF Bound
  <2>3. end[at - 1] = Bound(at) /\ curr'[at] = Bound(at)
    <3>1. HasEnd(at - 1) /\ (at - 1) + 1 = at
      BY <2>1 DEF HasEnd
    <3> QED
      BY <2>1, <3>1 DEF Ranges, TypeOK
  <2>4. end'[at] = Bound(at + 1) /\ end'[at] \in Nat /\ Bound(at) \in Nat
    BY <2>1, <2>3, BoundIs DEF TypeOK
  <2>5. ASSUME NEW k \in Threads, HasEnd(k)', k # at
        PROVE  HasEnd(k) /\ end'[k] = end[k]
    BY <2>1, <2>5 DEF HasEnd, TypeOK, Inside
  <2>6. ASSUME NEW i \in 0..(end'[at] - 1)
        PROVE  \E j \in 0..at : Bound(j) <= i /\ i < Bound(j + 1)
    <3>1. CASE i < Bound(at)
      <4>1. HasEnd(at - 1) /\ i \in 0..(end[at - 1] - 1)
        BY <2>1, <2>3, <2>4, <3>1 DEF HasEnd
      <4>2. PICK j \in 0..(at - 1) : Bound(j) <= i /\ i < Bound(j + 1)
        BY <2>1, <4>1 DEF Ranges
      <4>3. j \in 0..at
        BY <2>1
      <4> QED
        BY <4>2, <4>3
    <3>2. CASE Bound(at) <= i
      <4>1. at \in 0..at /\ i < Bound(at + 1)
        BY <2>1, <2>4
      <4> QED
        BY <3>2, <4>1
    <3> QED
      BY <2>4, <3>1, <3>2
  <2>7. ASSUME NEW k \in Threads, HasEnd(k)'
        PROVE  /\ end'[k] = Bound(k + 1)
               /\ \A i \in 0..(end'[k] - 1) : \E j \in 0..k : Bound(j) <= i /\ i < Bound(j + 1)
    <3>1. CASE k = at
      BY <2>4, <2>6, <3>1
    <3>2. CASE k # at
      BY <2>5, <2>7, <3>2 DEF Ranges
    <3> QED
      BY <3>1, <3>2
  <2> QED
    BY <2>1, <2>2, <2>3, <2>7 DEF Ranges
<1>3. CASE SetWorking
  BY <1>0, <1>3 DEF SetWorking, Goto, TypeOK, rangeVars, jobVars, HasEnd, Inside, Places
<1>4. CASE SetOwnCurr
  <2>1. /\ pc[0] = "arm" /\ pc'[0] = "release_own" /\ curr'[0] = 0 /\ at = thread_num
        /\ UNCHANGED <<at, size, thread_num, end>>
    BY <1>4 DEF SetOwnCurr, Goto, TypeOK, jobVars, Places
  <2> QED
    BY <1>0, <2>1 DEF HasEnd, Inside
<1>5. CASE SetOwnWorking \/ WaitFor \/ Return
  BY <1>0, <1>5 DEF SetOwnWorking, WaitFor, Return, Goto, TypeOK, rangeVars, jobVars, HasEnd, Inside
<1>6. ASSUME NEW t \in Threads, Works(t) PROVE Ranges'
  <2>1. /\ pc[t] \in Inside /\ pc'[t] \in Inside /\ UNCHANGED <<size, thread_num, end, at>>
        /\ pc[t] \in {"claim", "compute"} => Ready(Victim(t))
        /\ Victim(t) \in Threads
        /\ \A u \in Threads : u # t => pc'[u] = pc[u]
    BY <1>6, WorksIs, InJob, Victims DEF jobVars, Visits
  <2>2. \A k \in Threads : HasEnd(k)' => HasEnd(k)
    BY <2>1 DEF HasEnd, Inside
  <2>3. ASSUME NEW k \in Threads, ~Ready(k) PROVE curr'[k] = curr[k]
    <3>1. CASE Claim(t) \/ Exhausted(t)
      <4>1. pc[t] = "claim" /\ curr' = [curr EXCEPT ![Victim(t)] = curr[Victim(t)] + 1]
        BY <3>1 DEF Claim, Exhausted
      <4>2. Victim(t) # k
        BY <2>1, <2>3, <4>1
      <4> QED
        BY <2>1, <4>1, <4>2 DEF TypeOK
    <3>2. CASE Visit(t) \/ Skip(t) \/ Compute(t)
      BY <3>2 DEF Visit, Skip, Compute, rangeVars
    <3> QED
      BY <1>6, <3>1, <3>2 DEF Works
  <2>4. pc'[0] = "release" => curr'[at] = Bound(at)
    <3>1. ASSUME pc'[0] = "release" PROVE pc[0] = "release" /\ at \in Threads /\ ~Ready(at)
      <4>1. pc[0] = "release" /\ at \in 1..(thread_num - 1) /\ thread_num \in 1..MaxThreads
        BY <2>1, <3>1 DEF Inside, Places, Outside
      <4> QED
        BY <4>1, ThreadsAssumption DEF Ready, Inside, Threads, Arming
    <3> QED
      BY <2>3, <3>1 DEF Ranges
  <2>5. pc'[0] = "release_own" => curr'[0] = 0
    <3>1. pc'[0] = "release_own" => pc[0] = "release_own" /\ ~Ready(0)
      BY <2>1 DEF Inside, Ready, Arming
    <3> QED
      BY <2>3, <3>1 DEF Ranges
  <2> QED
    BY <1>0, <2>1, <2>2, <2>4, <2>5
<1>7. ASSUME NEW t \in Threads, Finalize(t) PROVE Ranges'
  <2>1. /\ pc[t] = "visit" /\ pc' = [pc EXCEPT ![t] = IF t = 0 THEN "wait" ELSE "poll"]
        /\ at' = IF t = 0 THEN 1 ELSE at
        /\ UNCHANGED <<size, thread_num, end, curr>>
    BY <1>7 DEF Finalize, Goto, rangeVars, jobVars
  <2>2. CASE t = 0
    <3>1. pc[0] = "visit" /\ pc'[0] = "wait"
      BY <2>1, <2>2 DEF TypeOK
    <3>2. \A k \in Threads : HasEnd(k)' => HasEnd(k)
      BY <2>1, <3>1 DEF HasEnd, Inside
    <3> QED
      BY <1>0, <2>1, <3>1, <3>2
  <2>3. CASE t # 0
    <3>1. pc'[0] = pc[0] /\ at' = at
      BY <2>1, <2>3 DEF TypeOK
    <3>2. \A k \in Threads : HasEnd(k)' => HasEnd(k)
      BY <2>1, <3>1 DEF HasEnd
    <3> QED
      BY <1>0, <2>1, <3>1, <3>2 DEF Ranges
  <2> QED
    BY <2>2, <2>3
<1>8. ASSUME NEW t \in Helpers, Poll(t) PROVE Ranges'
  <2>1. pc'[0] = pc[0] /\ UNCHANGED <<size, thread_num, at, end, curr>>
    BY <1>8 DEF Poll, Goto, TypeOK, rangeVars, jobVars
  <2>2. \A k \in Threads : HasEnd(k)' => HasEnd(k)
    BY <2>1 DEF HasEnd
  <2> QED
    BY <1>0, <2>1, <2>2 DEF Ranges
<1>9. CASE Destroy \/ StoreExit \/ Join
  <2>1. /\ pc'[0] \in {"exit", "gone"}
        /\ UNCHANGED <<size, thread_num, end>>
    BY <1>9 DEF Destroy, StoreExit, Join, Goto, TypeOK, rangeVars, jobVars
  <2>2. \A k \in Threads : ~HasEnd(k)'
    BY <2>1 DEF HasEnd, Inside
  <2> QED
    BY <1>0, <2>1, <2>2
<1>10. CASE UNCHANGED vars
  BY <1>0, <1>10 DEF vars, rangeVars, jobVars, HasEnd, Inside, Ranges
<1> QED
  BY <1>1, <1>2, <1>3, <1>4, <1>5, <1>6, <1>7, <1>8, <1>9, <1>10
     DEF Next, Caller, ProcessTasks, Works, PollAgain, Gone

\* Outside a job there is nothing to count.
LEMMA CountsOutside ==
  ASSUME IInv, UNCHANGED <<size, times>>, pc'[0] \in Outside, \A t \in Threads : pc'[t] \notin Inside
  PROVE  Counts'
<1>1. \A k : ~Ready(k)'
  BY DEF Ready, Inside, Outside, Arming
<1>2. \A t \in Threads : \A i : ~Has(t, i)' /\ pc'[t] # "compute"
  BY DEF Has, Inside
<1>3. times' \in [0..(size' - 1) -> Nat]
  BY DEF IInv, Counts
<1> QED
  BY <1>1, <1>2, <1>3 DEF Counts

LEMMA CountsBegin ==
  ASSUME IInv, AInv', NEW n \in JobSizes, Begin(n)
  PROVE  Counts'
<1>1. /\ pc[0] = "idle" /\ pc'[0] = "arm" /\ at' = 1 /\ size' = n /\ times' = Untouched(n)
      /\ n \in Nat /\ \A t \in Helpers : pc'[t] = pc[t]
  BY BeginIs DEF IInv, AInv
<1>2. \A t \in Threads : pc'[t] \notin Inside
  <2>1. \A t \in Threads : pc[t] \notin Inside
    BY <1>1, NobodyWorks DEF IInv, AInv, Outside
  <2> QED
    BY <1>1, <2>1, ThreadsAre DEF Inside
<1>3. \A t \in Threads : \A i : ~Has(t, i)' /\ pc'[t] # "compute"
  BY <1>2 DEF Has, Inside
<1>4. \A k : ~Ready(k)'
  BY <1>1 DEF Ready, Inside, Arming
<1>5. times' \in [0..(size' - 1) -> Nat] /\ \A i \in 0..(size' - 1) : times'[i] = 0
  BY <1>1 DEF Untouched
<1> QED
  BY <1>3, <1>4, <1>5 DEF Counts

\* A thread inside process_tasks, its victim, and what it shares with a step's end.
LEMMA AtWork ==
  ASSUME IInv, NEW t \in Threads, Works(t)
  PROVE  /\ pc[0] \notin Outside /\ pc'[0] \notin Outside /\ thread_num \in 1..MaxThreads
         /\ UNCHANGED <<size, thread_num, end>> /\ \A k : Ready(k)' <=> Ready(k)
         /\ \A k : Bound(k)' = Bound(k)
         /\ \A k \in 0..(thread_num - 1) : k \in Threads /\ k \in Nat
         /\ Victim(t) \in 0..(thread_num - 1) /\ Victim(t) \in Threads /\ Victim(t) \in Nat
         /\ \A u \in Threads : Ready(u) => end[u] = Bound(u + 1)
<1> USE ThreadsAre DEF IInv, AInv
<1>1. /\ pc[t] \in Inside /\ pc'[t] \in Inside /\ \A u \in Threads : u # t => pc'[u] = pc[u]
      /\ UNCHANGED <<size, thread_num, end, at>> /\ pc[0] \notin Outside
      /\ thread_num \in 1..MaxThreads
  BY WorksIs, InJob DEF jobVars
<1>2. pc'[0] \notin Outside /\ \A k : Ready(k)' <=> Ready(k)
  BY <1>1 DEF Ready, Inside, Outside, Arming
<1>3. \A k : Bound(k)' = Bound(k)
  BY <1>1 DEF Bound
<1>4. \A k \in 0..(thread_num - 1) : k \in Threads /\ k \in Nat
  BY <1>1, ThreadsAssumption DEF Threads
<1>5. Victim(t) \in 0..(thread_num - 1) /\ Victim(t) \in Threads /\ Victim(t) \in Nat
  BY <1>1, Victims
<1>6. \A u \in Threads : Ready(u) => HasEnd(u)
  BY <1>1 DEF Ready, HasEnd, Inside, Arming, TypeOK
<1>7. \A u \in Threads : Ready(u) => end[u] = Bound(u + 1)
  BY <1>6 DEF Ranges
<1> QED
  BY <1>1, <1>2, <1>3, <1>4, <1>5, <1>7

LEMMA CountsClaim ==
  ASSUME IInv, AInv', NEW t \in Threads, Claim(t)
  PROVE  Counts'
<1> USE DEF IInv
<1>0. PICK v : v = Victim(t)
  OBVIOUS
<1>a. Works(t)
  BY DEF Works
<1>1. /\ pc[t] = "claim" /\ pc'[t] = "compute" /\ curr[v] < end[v] /\ times' = times
      /\ task_id' = [task_id EXCEPT ![t] = curr[v]] /\ curr' = [curr EXCEPT ![v] = @ + 1]
      /\ UNCHANGED offset
  BY <1>0 DEF Claim, Goto, AInv, TypeOK
<1>2. /\ v \in 0..(thread_num - 1) /\ v \in Threads /\ v \in Nat /\ thread_num \in 1..MaxThreads
      /\ UNCHANGED <<size, thread_num, end>> /\ Ready(v) /\ end[v] = Bound(v + 1)
      /\ pc[0] \notin Outside /\ pc'[0] \notin Outside /\ curr[v] \in Nat
      /\ \A k \in 0..(thread_num - 1) : k \in Threads /\ k \in Nat
  BY <1>a, <1>0, <1>1, AtWork DEF AInv, Visits, TypeOK
<1>3. /\ \A k : Ready(k)' <=> Ready(k)
      /\ \A k : Bound(k)' = Bound(k)
      /\ \A i, k : In(i, k)' <=> In(i, k)
  BY <1>a, AtWork DEF In
<1>4. /\ task_id'[t] = curr[v] /\ curr'[v] = curr[v] + 1
      /\ \A k \in Threads : k # v => curr'[k] = curr[k]
      /\ \A u \in Threads : u # t => task_id'[u] = task_id[u] /\ pc'[u] = pc[u]
  BY <1>a, <1>1, <1>2, WorksIs DEF AInv, TypeOK
<1>5. In(curr[v], v)
  BY <1>1, <1>2 DEF Counts, In
<1>6. \A i, j, k \in Nat : In(i, j) /\ In(i, k) => j = k
  BY <1>2, BoundIs DEF AInv
<1>7. ASSUME NEW u \in Threads PROVE Victim(u)' = Victim(u) /\ Victim(u) \in Threads /\ Victim(u) \in Nat
  BY <1>1, <1>2, Victims, ThreadsAre DEF Victim, AInv
<1>8. \A u \in Threads : task_id[u] \in Nat /\ curr[u] \in Nat
  BY DEF AInv, TypeOK
<1>9. ASSUME NEW u \in Threads, pc[u] = "compute" PROVE task_id[u] # curr[v]
  <2>1. In(task_id[u], Victim(u)) /\ task_id[u] < curr[Victim(u)]
    BY <1>9 DEF Counts
  <2>2. task_id[u] = curr[v] => Victim(u) = v
    BY <1>2, <1>5, <1>6, <1>7, <2>1
  <2> QED
    BY <1>2, <1>8, <2>1, <2>2
<1>10. /\ \A u \in Threads : \A i : u # t => (Has(u, i)' <=> Has(u, i))
       /\ \A i : ~Has(t, i) /\ (Has(t, i)' <=> i = curr[v])
  BY <1>1, <1>4 DEF Has
<1>11. ASSUME NEW k \in Threads, Ready(k)' PROVE Bound(k)' <= curr'[k]
  <2>1. Bound(k) <= curr[k] /\ Bound(k) \in Nat
    BY <1>2, <1>3, <1>11, BoundIs, ThreadsAre DEF Counts, AInv
  <2> QED
    BY <1>3, <1>4, <1>8, <2>1
<1>12. ASSUME NEW u \in Threads, pc'[u] = "compute"
       PROVE  In(task_id[u], Victim(u))' /\ task_id'[u] < curr'[Victim(u)']
  <2>1. CASE u = t
    <3>1. In(task_id'[u], v) /\ Victim(u)' = v
      BY <1>0, <1>4, <1>5, <1>7, <2>1
    <3>2. In(task_id[u], Victim(u))'
      BY <1>3, <3>1 DEF In
    <3>3. task_id'[u] < curr'[Victim(u)']
      BY <1>0, <1>2, <1>4, <1>8, <2>1, <3>1
    <3> QED
      BY <3>2, <3>3
  <2>2. CASE u # t
    <3>1. pc[u] = "compute" /\ task_id'[u] = task_id[u]
      BY <1>4, <1>12, <2>2
    <3>2. In(task_id[u], Victim(u)) /\ task_id[u] < curr[Victim(u)]
      BY <3>1 DEF Counts
    <3>3. In(task_id[u], Victim(u))'
      BY <1>3, <1>7, <3>1, <3>2 DEF In
    <3>4. curr[Victim(u)] <= curr'[Victim(u)] /\ curr'[Victim(u)] \in Nat
      BY <1>2, <1>4, <1>7, <1>8
    <3> QED
      BY <1>7, <1>8, <3>1, <3>2, <3>3, <3>4
  <2> QED
    BY <2>1, <2>2
<1>13. ASSUME NEW u \in Threads, NEW w \in Threads, NEW i \in Nat, Has(u, i)', Has(w, i)'
       PROVE  u = w
  <2>1. CASE u # t /\ w # t
    BY <1>10, <1>13, <2>1 DEF Counts
  <2>2. CASE u = t /\ w # t
    BY <1>9, <1>10, <1>13, <2>2 DEF Has
  <2>3. CASE u # t /\ w = t
    BY <1>9, <1>10, <1>13, <2>3 DEF Has
  <2> QED
    BY <2>1, <2>2, <2>3
<1>14. ASSUME NEW k \in 0..(thread_num - 1), NEW i \in 0..(size - 1), In(i, k)
       PROVE  times[i] = IF Ready(k) /\ i < curr'[k] /\ (\A u \in Threads : ~Has(u, i)') THEN 1 ELSE 0
  <2>1. times[i] = IF Ready(k) /\ i < curr[k] /\ (\A u \in Threads : ~Has(u, i)) THEN 1 ELSE 0
    BY <1>2, <1>14 DEF Counts
  <2>2. CASE i = curr[v]
    <3>1. k = v
      BY <1>2, <1>5, <1>6, <1>14, <2>2
    <3> QED
      BY <1>2, <1>10, <2>1, <2>2, <3>1
  <2>3. CASE i # curr[v]
    <3>1. i < curr'[k] <=> i < curr[k]
      BY <1>2, <1>4, <1>8, <2>3
    <3>2. \A u \in Threads : Has(u, i)' <=> Has(u, i)
      BY <1>10, <2>3
    <3> QED
      BY <2>1, <3>1, <3>2
  <2> QED
    BY <2>2, <2>3
<1>15. \A k \in 0..(thread_num' - 1), i \in 0..(size' - 1) : In(i, k)' =>
       times'[i] = IF Ready(k)' /\ i < curr'[k] /\ (\A u \in Threads : ~Has(u, i)') THEN 1 ELSE 0
  BY <1>1, <1>2, <1>3, <1>14
<1>16. times' \in [0..(size' - 1) -> Nat]
  BY <1>1, <1>2 DEF Counts
<1> QED
  BY <1>11, <1>12, <1>13, <1>15, <1>16 DEF Counts

LEMMA CountsExhausted ==
  ASSUME IInv, AInv', NEW t \in Threads, Exhausted(t)
  PROVE  Counts'
<1> USE DEF IInv
<1>0. PICK v : v = Victim(t)
  OBVIOUS
<1>a. Works(t)
  BY DEF Works
<1>1. /\ pc[t] = "claim" /\ pc'[t] = "visit" /\ curr[v] >= end[v] /\ times' = times
      /\ curr' = [curr EXCEPT ![v] = @ + 1]
  BY <1>0 DEF Exhausted, Goto, AInv, TypeOK
<1>2. /\ v \in 0..(thread_num - 1) /\ v \in Threads /\ v \in Nat /\ thread_num \in 1..MaxThreads
      /\ UNCHANGED <<size, thread_num, end>> /\ Ready(v) /\ end[v] = Bound(v + 1)
      /\ pc[0] \notin Outside /\ curr[v] \in Nat
      /\ \A k \in 0..(thread_num - 1) : k \in Threads /\ k \in Nat
  BY <1>a, <1>0, <1>1, AtWork DEF AInv, Visits, TypeOK
<1>3. /\ \A k : Ready(k)' <=> Ready(k)
      /\ \A k : Bound(k)' = Bound(k)
      /\ \A i, k : In(i, k)' <=> In(i, k)
  BY <1>a, AtWork DEF In
<1>4. /\ curr'[v] = curr[v] + 1
      /\ \A k \in Threads : k # v => curr'[k] = curr[k]
      /\ \A u \in Threads : u # t => task_id'[u] = task_id[u] /\ pc'[u] = pc[u] /\ offset'[u] = offset[u]
  BY <1>a, <1>1, <1>2, WorksIs DEF AInv, TypeOK
<1>5. \A u \in Threads : \A i : Has(u, i)' <=> Has(u, i)
  BY <1>1, <1>4 DEF Has
<1>6. \A u \in Threads : task_id[u] \in Nat /\ curr[u] \in Nat
  BY DEF AInv, TypeOK
<1>7. ASSUME NEW k \in Threads, Ready(k)' PROVE Bound(k)' <= curr'[k]
  <2>1. Bound(k) <= curr[k] /\ Bound(k) \in Nat
    BY <1>2, <1>3, <1>7, BoundIs, ThreadsAre DEF Counts, AInv
  <2> QED
    BY <1>3, <1>4, <1>6, <2>1
<1>8. ASSUME NEW u \in Threads, pc'[u] = "compute"
      PROVE  In(task_id[u], Victim(u))' /\ task_id'[u] < curr'[Victim(u)']
  <2>1. u # t /\ pc[u] = "compute" /\ task_id'[u] = task_id[u] /\ offset'[u] = offset[u]
    BY <1>1, <1>4, <1>8
  <2>2. In(task_id[u], Victim(u)) /\ task_id[u] < curr[Victim(u)]
    BY <2>1 DEF Counts
  <2>3. Victim(u)' = Victim(u) /\ Victim(u) \in Threads
    BY <1>2, <2>1, Victims DEF Victim, AInv
  <2>4. In(task_id[u], Victim(u))'
    BY <1>3, <2>1, <2>2, <2>3 DEF In
  <2>5. curr[Victim(u)] <= curr'[Victim(u)] /\ curr'[Victim(u)] \in Nat
    <3>1. \A k \in Threads : curr[k] <= curr'[k] /\ curr'[k] \in Nat
      BY <1>2, <1>4, <1>6
    <3> QED
      BY <2>3, <3>1
  <2> QED
    BY <1>6, <2>1, <2>2, <2>3, <2>4, <2>5
<1>9. ASSUME NEW k \in 0..(thread_num - 1), NEW i \in 0..(size - 1), In(i, k)
      PROVE  times[i] = IF Ready(k) /\ i < curr'[k] /\ (\A u \in Threads : ~Has(u, i)') THEN 1 ELSE 0
  <2>1. times[i] = IF Ready(k) /\ i < curr[k] /\ (\A u \in Threads : ~Has(u, i)) THEN 1 ELSE 0
    BY <1>2, <1>9 DEF Counts
  <2>2. i < curr'[k] <=> i < curr[k]
    <3>1. CASE k = v
      <4>1. i < end[v] /\ end[v] \in Nat
        BY <1>2, <1>9, <3>1 DEF In, AInv, TypeOK
      <4> QED
        BY <1>1, <1>2, <1>4, <3>1, <4>1
    <3>2. CASE k # v
      BY <1>2, <1>4, <3>2
    <3> QED
      BY <3>1, <3>2
  <2> QED
    BY <1>5, <2>1, <2>2
<1>10. \A k \in 0..(thread_num' - 1), i \in 0..(size' - 1) : In(i, k)' =>
       times'[i] = IF Ready(k)' /\ i < curr'[k] /\ (\A u \in Threads : ~Has(u, i)') THEN 1 ELSE 0
  BY <1>1, <1>2, <1>3, <1>9
<1>11. /\ times' \in [0..(size' - 1) -> Nat]
       /\ \A u, w \in Threads, i \in Nat : Has(u, i)' /\ Has(w, i)' => u = w
  BY <1>1, <1>2, <1>5 DEF Counts
<1> QED
  BY <1>7, <1>8, <1>10, <1>11 DEF Counts

\* What Compute(t) finds: an index of the job that nobody else has and that was not computed.
LEMMA ComputeFinds ==
  ASSUME IInv, NEW t \in Threads, Compute(t)
  PROVE  /\ task_id[t] \in 0..(size - 1) /\ times[task_id[t]] = 0
         /\ In(task_id[t], Victim(t)) /\ task_id[t] < curr[Victim(t)] /\ Ready(Victim(t))
         /\ pc[0] \notin Outside
<1> USE DEF IInv
<1>1. Works(t) /\ pc[t] = "compute"
  BY DEF Works, Compute
<1>2. /\ Victim(t) \in 0..(thread_num - 1) /\ Victim(t) \in Nat /\ Ready(Victim(t))
      /\ thread_num \in 1..MaxThreads /\ pc[0] \notin Outside
  BY <1>1, AtWork DEF AInv, Visits
<1>3. In(task_id[t], Victim(t)) /\ task_id[t] < curr[Victim(t)] /\ task_id[t] \in Nat
  BY <1>1 DEF Counts, AInv, TypeOK
<1>4. task_id[t] < size
  <2>1. /\ Bound(Victim(t) + 1) <= Bound(thread_num) /\ Bound(thread_num) = size
        /\ Bound(Victim(t) + 1) \in Nat /\ size \in Nat
    <3>1. Victim(t) + 1 \in Nat /\ thread_num \in Nat /\ Victim(t) + 1 <= thread_num
      BY <1>2
    <3> QED
      BY <1>2, <3>1, BoundIs DEF AInv, TypeOK
  <2> QED
    BY <1>3, <2>1 DEF In
<1>5. task_id[t] \in 0..(size - 1) /\ Has(t, task_id[t])
  BY <1>1, <1>3, <1>4 DEF Has, AInv, TypeOK
<1>6. times[task_id[t]] = 0
  BY <1>2, <1>3, <1>5 DEF Counts
<1> QED
  BY <1>2, <1>3, <1>5, <1>6

LEMMA CountsCompute ==
  ASSUME IInv, AInv', NEW t \in Threads, Compute(t)
  PROVE  Counts'
<1> USE DEF IInv
<1>0. PICK i : i = task_id[t]
  OBVIOUS
<1>a. Works(t)
  BY DEF Works
<1>1. /\ pc[t] = "compute" /\ pc'[t] = "claim" /\ times' = [times EXCEPT ![i] = @ + 1]
      /\ UNCHANGED <<curr, end, offset, task_id>>
  BY <1>0 DEF Compute, Goto, AInv, TypeOK, rangeVars, stealVars
<1>2. /\ i \in 0..(size - 1) /\ times[i] = 0 /\ pc[0] \notin Outside
      /\ In(i, Victim(t)) /\ i < curr[Victim(t)] /\ Ready(Victim(t))
  BY <1>0, ComputeFinds
<1>3. /\ UNCHANGED <<size, thread_num>> /\ thread_num \in 1..MaxThreads
      /\ Victim(t) \in Nat
      /\ \A k : Ready(k)' <=> Ready(k)
      /\ \A k : Bound(k)' = Bound(k)
      /\ \A j, k : In(j, k)' <=> In(j, k)
      /\ \A k \in 0..(thread_num - 1) : k \in Threads /\ k \in Nat
  BY <1>a, AtWork DEF In
<1>4. \A u \in Threads : u # t => pc'[u] = pc[u]
  BY <1>a, WorksIs DEF AInv
<1>5. \A u \in Threads, j \in Nat : Has(u, j)' <=> Has(u, j) /\ j # i
  <2>1. \A u \in Threads, j \in Nat : u # t => (Has(u, j)' <=> Has(u, j))
    BY <1>1, <1>4 DEF Has
  <2>2. \A j : ~Has(t, j)' /\ (Has(t, j) <=> j = i)
    BY <1>0, <1>1 DEF Has
  <2>3. \A u \in Threads : Has(u, i) => u = t
    <3>1. i \in Nat /\ Has(t, i)
      BY <1>2, <2>2 DEF AInv, TypeOK
    <3> QED
      BY <3>1 DEF Counts
  <2> QED
    BY <2>1, <2>2, <2>3
<1>6. \A k \in Threads : Ready(k)' => Bound(k)' <= curr'[k]
  BY <1>1, <1>3 DEF Counts
<1>7. ASSUME NEW u \in Threads, pc'[u] = "compute"
      PROVE  In(task_id[u], Victim(u))' /\ task_id'[u] < curr'[Victim(u)']
  <2>1. pc[u] = "compute" /\ Victim(u)' = Victim(u)
    BY <1>1, <1>3, <1>4, <1>7 DEF Victim
  <2>2. In(task_id[u], Victim(u)) /\ task_id[u] < curr[Victim(u)]
    BY <2>1 DEF Counts
  <2>3. In(task_id[u], Victim(u))'
    BY <1>1, <1>3, <2>1, <2>2 DEF In
  <2> QED
    BY <1>1, <2>1, <2>2, <2>3
<1>8. /\ times' \in [0..(size' - 1) -> Nat] /\ times'[i] = 1
      /\ \A j \in 0..(size - 1) : j # i => times'[j] = times[j]
  <2>1. times \in [0..(size - 1) -> Nat]
    BY DEF Counts
  <2> QED
    BY <1>1, <1>2, <1>3, <2>1
<1>9. ASSUME NEW k \in 0..(thread_num - 1), NEW j \in 0..(size - 1), In(j, k)
      PROVE  times'[j] = IF Ready(k) /\ j < curr[k] /\ (\A u \in Threads : ~Has(u, j)') THEN 1 ELSE 0
  <2>1. times[j] = IF Ready(k) /\ j < curr[k] /\ (\A u \in Threads : ~Has(u, j)) THEN 1 ELSE 0
    BY <1>2, <1>3, <1>9 DEF Counts
  <2>2. CASE j = i
    <3>1. k = Victim(t)
      <4>1. \A l, m, n \in Nat : In(l, m) /\ In(l, n) => m = n
        BY <1>3, BoundIs DEF AInv
      <4> QED
        BY <1>2, <1>3, <1>9, <2>2, <4>1
    <3>2. \A u \in Threads : ~Has(u, j)'
      BY <1>5, <2>2
    <3> QED
      BY <1>2, <1>8, <2>2, <3>1, <3>2
  <2>3. CASE j # i
    <3>1. \A u \in Threads : Has(u, j)' <=> Has(u, j)
      BY <1>5, <2>3
    <3> QED
      BY <1>8, <2>1, <2>3, <3>1
  <2> QED
    BY <2>2, <2>3
<1>10. \A k \in 0..(thread_num' - 1), j \in 0..(size' - 1) : In(j, k)' =>
       times'[j] = IF Ready(k)' /\ j < curr'[k] /\ (\A u \in Threads : ~Has(u, j)') THEN 1 ELSE 0
  BY <1>1, <1>3, <1>9
<1>11. \A u, w \in Threads, j \in Nat : Has(u, j)' /\ Has(w, j)' => u = w
  BY <1>5 DEF Counts
<1> QED
  BY <1>6, <1>7, <1>8, <1>10, <1>11 DEF Counts

\* A step that ends outside a job leaves nobody inside process_tasks.
LEMMA EndsOutside ==
  ASSUME AInv', pc'[0] \in Outside
  PROVE  (\A t \in Threads : pc'[t] \notin Inside) /\ (\A k : ~Ready(k)')
<1>1. \A t \in Threads : pc'[t] \notin Inside
  BY ThreadsAre DEF AInv, Handshake, Awaited, Inside, Outside, Arming
<1>2. \A k : ~Ready(k)'
  BY DEF Ready, Inside, Outside, Arming
<1> QED
  BY <1>1, <1>2

LEMMA CountsStep ==
  ASSUME IInv, AInv', [Next]_vars
  PROVE  Counts'
<1> USE ThreadsAre DEF IInv, AInv
<1>1. ASSUME NEW n \in JobSizes, Begin(n) PROVE Counts'
  BY <1>1, CountsBegin
<1>2. CASE Return \/ Destroy \/ StoreExit \/ Join
  <2>1. pc'[0] \in Outside /\ UNCHANGED <<size, times>>
    BY <1>2 DEF Return, Destroy, StoreExit, Join, Goto, TypeOK, Outside, jobVars
  <2> QED
    BY <2>1, EndsOutside, CountsOutside
<1>3. CASE SetRange
  <2>1. /\ pc[0] = "arm" /\ pc'[0] = "release" /\ UNCHANGED <<size, thread_num, times, at, offset, task_id>>
        /\ \A t \in Threads : t # 0 => pc'[t] = pc[t]
        /\ \A k \in Threads : k # at => curr'[k] = curr[k]
    BY <1>3 DEF SetRange, Goto, TypeOK, jobVars, stealVars
  <2>2. \A k \in Threads : (Ready(k)' <=> Ready(k)) /\ (Ready(k) => k # at)
    BY <2>1 DEF Ready, Inside, Arming, TypeOK
  <2> QED
    BY <2>1, <2>2, Undisturbed DEF Outside
<1>4. CASE SetWorking
  <2>1. /\ pc[0] = "release" /\ pc'[0] = "arm" /\ at' = at + 1
        /\ UNCHANGED <<size, thread_num, times, offset, task_id, curr>>
        /\ \A t \in Threads : t # 0 => pc'[t] = pc[t]
        /\ at \in Nat /\ curr[at] = Bound(at)
    BY <1>4 DEF SetWorking, Goto, TypeOK, jobVars, rangeVars, stealVars, Ranges
  <2>2. \A k \in Threads : (Ready(k) => Ready(k)') /\ (Ready(k)' /\ ~Ready(k) => k = at)
    BY <2>1 DEF Ready, Inside, Arming
  <2> QED
    BY <2>1, <2>2, Undisturbed DEF Outside
<1>5. CASE SetOwnCurr
  <2>1. /\ pc[0] = "arm" /\ pc'[0] = "release_own" /\ at = thread_num
        /\ UNCHANGED <<size, thread_num, times, offset, task_id>>
        /\ \A t \in Threads : t # 0 => pc'[t] = pc[t]
        /\ \A k \in Threads : k # 0 => curr'[k] = curr[k]
    BY <1>5 DEF SetOwnCurr, Goto, TypeOK, jobVars, stealVars, Places
  <2>2. \A k \in Threads : (Ready(k)' <=> Ready(k)) /\ (Ready(k) => k # 0)
    BY <2>1 DEF Ready, Inside, Arming
  <2> QED
    BY <2>1, <2>2, Undisturbed DEF Outside
<1>6. CASE SetOwnWorking
  <2>1. /\ pc[0] = "release_own" /\ pc'[0] = "visit" /\ curr[0] = 0 /\ thread_num \in 1..MaxThreads
        /\ UNCHANGED <<size, thread_num, times, task_id, curr>>
        /\ \A t \in Threads : t # 0 => pc'[t] = pc[t] /\ offset'[t] = offset[t]
    BY <1>6 DEF SetOwnWorking, Goto, TypeOK, jobVars, rangeVars, Ranges, Places, Outside
  <2>2. \A k \in Threads : (Ready(k) => Ready(k)') /\ (Ready(k)' /\ ~Ready(k) => k = 0)
    BY <2>1 DEF Ready, Inside, Arming
  <2>3. Bound(0) = 0
    BY <2>1, BoundIs
  <2> QED
    BY <2>1, <2>2, <2>3, Undisturbed DEF Outside
<1>7. CASE WaitFor
  <2>1. /\ pc[0] = "wait" /\ UNCHANGED <<size, thread_num, times, offset, task_id, curr, pc>>
    BY <1>7 DEF WaitFor, jobVars, rangeVars, stealVars
  <2>2. \A k : Ready(k)' <=> Ready(k)
    BY <2>1 DEF Ready, Inside, Arming
  <2> QED
    BY <2>1, <2>2, Undisturbed DEF Outside
<1>8. ASSUME NEW t \in Threads, Visit(t) \/ Skip(t) PROVE Counts'
  <2>1. Works(t)
    BY <1>8 DEF Works
  <2>2. /\ pc[t] # "compute" /\ pc'[t] # "compute" /\ UNCHANGED <<curr, times>>
    BY <1>8 DEF Visit, Skip, Goto, TypeOK, rangeVars
  <2>3. \A u \in Threads : u # t => pc'[u] = pc[u] /\ offset'[u] = offset[u] /\ task_id'[u] = task_id[u]
    BY <2>1, WorksIs
  <2>4. UNCHANGED <<size, thread_num>> /\ pc[0] \notin Outside /\ \A k : Ready(k)' <=> Ready(k)
    BY <2>1, AtWork
  <2> QED
    BY <2>2, <2>3, <2>4, Undisturbed
<1>9. ASSUME NEW t \in Threads, Claim(t) \/ Exhausted(t) \/ Compute(t) PROVE Counts'
  BY <1>9, CountsClaim, CountsExhausted, CountsCompute
<1>10. ASSUME NEW t \in Threads, Finalize(t) PROVE Counts'
  <2>1. /\ pc[t] = "visit" /\ pc'[t] \in {"wait", "poll"} /\ (t = 0 => pc'[t] = "wait")
        /\ (t # 0 => at' = at)
        /\ UNCHANGED <<size, thread_num, times, offset, task_id, curr>>
        /\ \A u \in Threads : u # t => pc'[u] = pc[u]
    BY <1>10 DEF Finalize, Goto, TypeOK, jobVars, rangeVars, stealVars
  <2>2. pc[0] \notin Outside
    BY <2>1, InJob DEF Inside
  <2>3. \A k : Ready(k)' <=> Ready(k)
    BY <2>1 DEF Ready, Inside, Arming
  <2> QED
    BY <2>1, <2>2, <2>3, Undisturbed
<1>11. ASSUME NEW t \in Helpers, Poll(t) PROVE Counts'
  <2>1. /\ pc[t] = "poll" /\ pc'[t] # "compute" /\ t \in Threads /\ t # 0
        /\ UNCHANGED <<size, thread_num, times, task_id, curr, at>>
        /\ \A u \in Threads : u # t => pc'[u] = pc[u] /\ offset'[u] = offset[u]
    BY <1>11 DEF Poll, Goto, TypeOK, jobVars, rangeVars
  <2>2. \A k : Ready(k)' <=> Ready(k)
    BY <2>1 DEF Ready, Inside, Arming
  <2>3. CASE pc[0] \in Outside
    <3>1. pc'[0] \in Outside
      BY <2>1, <2>3
    <3> QED
      BY <2>1, <3>1, EndsOutside, CountsOutside
  <2>4. CASE pc[0] \notin Outside
    BY <2>1, <2>2, <2>4, Undisturbed
  <2> QED
    BY <2>3, <2>4
<1>12. CASE UNCHANGED vars
  <2>1. UNCHANGED <<size, thread_num, times, task_id, offset, curr, at, pc>>
    BY <1>12 DEF vars, jobVars, rangeVars, stealVars
  <2>2. \A k : Ready(k)' <=> Ready(k)
    BY <2>1 DEF Ready
  <2>3. CASE pc[0] \in Outside
    BY <2>1, <2>3, EndsOutside, CountsOutside
  <2>4. CASE pc[0] \notin Outside
    BY <2>1, <2>2, <2>4, Undisturbed
  <2> QED
    BY <2>3, <2>4
<1> QED
  BY <1>1, <1>2, <1>3, <1>4, <1>5, <1>6, <1>7, <1>8, <1>9, <1>10, <1>11, <1>12
     DEF Next, Caller, ProcessTasks, PollAgain, Gone

\* Thread t has left its own range.
Left(t) == (pc[t] \in Inside /\ offset[t] >= 1) \/ (Ready(t) /\ status[t] # "WORKING")

LEMMA UsedUpStep ==
  ASSUME IInv, AInv', [Next]_vars
  PROVE  UsedUp'
<1> USE ThreadsAre DEF IInv, AInv
<1>0. ASSUME UNCHANGED <<size, thread_num>>, NEW u \in Threads, Left(u)' => Left(u),
             Left(u) => Bound(u + 1) <= curr'[u]
      PROVE  Left(u)' => Bound(u + 1)' <= curr'[u]
  BY <1>0 DEF Bound
<1>1. ASSUME \A u \in Threads : Left(u)' => Bound(u + 1)' <= curr'[u]
      PROVE  UsedUp'
  BY <1>1 DEF UsedUp, Left
<1>2. ASSUME pc'[0] \in Outside PROVE UsedUp'
  <2>1. \A u \in Threads : ~Left(u)'
    BY <1>2, EndsOutside DEF Left
  <2> QED
    BY <1>1, <2>1
<1>3. ASSUME NEW n \in JobSizes, Begin(n) PROVE UsedUp'
  <2>1. /\ pc[0] = "idle" /\ pc'[0] = "arm" /\ at' = 1
        /\ \A t \in Helpers : pc'[t] = pc[t]
    BY <1>3, BeginIs
  <2>2. \A t \in Threads : pc'[t] \notin Inside
    BY <2>1, NobodyWorks DEF Outside, Inside
  <2>3. \A k : ~Ready(k)'
    BY <2>1 DEF Ready, Inside, Arming
  <2> QED
    BY <1>1, <2>2, <2>3 DEF Left
<1>4. ASSUME UNCHANGED <<size, thread_num>>,
             \A u \in Threads : Left(u)' => Left(u),
             \A u \in Threads : Left(u) => curr[u] <= curr'[u]
      PROVE  UsedUp'
  <2>1. ASSUME NEW u \in Threads, Left(u), pc[0] \notin Outside PROVE Bound(u + 1) <= curr'[u]
    <3>1. Bound(u + 1) <= curr[u] /\ curr[u] \in Nat /\ curr'[u] \in Nat
      BY <2>1 DEF UsedUp, Left, TypeOK
    <3>2. Bound(u + 1) \in Nat
      BY <2>1, BoundIs DEF Places
    <3> QED
      BY <1>4, <2>1, <3>1, <3>2
  <2>2. ASSUME NEW u \in Threads, Left(u) PROVE pc[0] \notin Outside
    BY <2>2, InJob DEF Left, Ready, Inside, Outside, Arming
  <2> QED
    BY <1>0, <1>1, <1>4, <2>1, <2>2
<1>5. CASE Return \/ Destroy \/ StoreExit \/ Join
  BY <1>2, <1>5 DEF Return, Destroy, StoreExit, Join, Goto, TypeOK, Outside
<1>6. CASE SetRange
  <2>1. /\ pc[0] = "arm" /\ pc'[0] = "release"
        /\ UNCHANGED <<size, thread_num, at, offset, status>> /\ at \in Nat
        /\ \A t \in Threads : t # 0 => pc'[t] = pc[t]
        /\ \A k \in Threads : k # at => curr'[k] = curr[k]
    BY <1>6 DEF SetRange, Goto, TypeOK, jobVars, stealVars
  <2>2. \A k : Ready(k)' <=> Ready(k)
    BY <2>1 DEF Ready, Inside, Arming
  <2>3. \A u \in Threads : Left(u) => u # at
    BY <2>1, InJob DEF Left, Ready, Inside, Arming
  <2>4. \A u \in Threads : Left(u)' => Left(u)
    BY <2>1, <2>2 DEF Left, Inside
  <2> QED
    BY <1>4, <2>1, <2>3, <2>4 DEF TypeOK
<1>7. CASE SetWorking
  <2>1. /\ pc[0] = "release" /\ pc'[0] = "arm" /\ at' = at + 1 /\ at \in 1..(thread_num - 1)
        /\ UNCHANGED <<size, thread_num, offset, curr>> /\ status' = [status EXCEPT ![at] = "WORKING"]
        /\ \A t \in Threads : t # 0 => pc'[t] = pc[t]
    BY <1>7 DEF SetWorking, Goto, TypeOK, jobVars, rangeVars, stealVars, Places
  <2>2. \A k : Ready(k)' => Ready(k) \/ k = at
    BY <2>1 DEF Ready, Inside, Arming
  <2>3. \A u \in Threads : status'[u] # "WORKING" => status[u] # "WORKING" /\ u # at
    BY <2>1 DEF TypeOK
  <2>4. \A u \in Threads : Left(u)' => Left(u)
    BY <2>1, <2>2, <2>3 DEF Left, Inside
  <2> QED
    BY <1>4, <2>1, <2>4 DEF TypeOK
<1>8. CASE SetOwnCurr
  <2>1. /\ pc[0] = "arm" /\ pc'[0] = "release_own" /\ at = thread_num
        /\ UNCHANGED <<size, thread_num, offset, status>>
        /\ \A t \in Threads : t # 0 => pc'[t] = pc[t]
        /\ \A k \in Threads : k # 0 => curr'[k] = curr[k]
    BY <1>8 DEF SetOwnCurr, Goto, TypeOK, jobVars, stealVars, Places
  <2>2. \A k : Ready(k)' <=> Ready(k)
    BY <2>1 DEF Ready, Inside, Arming
  <2>3. \A u \in Threads : Left(u) => u # 0
    BY <2>1 DEF Left, Ready, Inside, Arming
  <2>4. \A u \in Threads : Left(u)' => Left(u)
    BY <2>1, <2>2 DEF Left, Inside
  <2> QED
    BY <1>4, <2>1, <2>3, <2>4 DEF TypeOK
<1>9. CASE SetOwnWorking
  <2>1. /\ pc[0] = "release_own" /\ pc'[0] = "visit" /\ offset'[0] = 0 /\ status'[0] = "WORKING"
        /\ UNCHANGED <<size, thread_num, curr>>
        /\ \A t \in Threads : t # 0 => pc'[t] = pc[t] /\ offset'[t] = offset[t] /\ status'[t] = status[t]
    BY <1>9 DEF SetOwnWorking, Goto, TypeOK, jobVars, rangeVars
  <2>2. \A k : Ready(k)' => Ready(k) \/ k = 0
    BY <2>1 DEF Ready, Inside, Arming
  <2>3. \A u \in Threads : Left(u)' => Left(u)
    BY <2>1, <2>2 DEF Left
  <2> QED
    BY <1>4, <2>1, <2>3 DEF TypeOK
<1>10. CASE WaitFor \/ UNCHANGED vars
  <2>1. /\ UNCHANGED <<size, thread_num, status, offset, curr, pc>> /\ (pc[0] # "wait" => at' = at)
    BY <1>10 DEF WaitFor, vars, jobVars, rangeVars, stealVars
  <2>2. \A k : Ready(k)' => Ready(k)
    BY <2>1 DEF Ready, Inside, Arming
  <2>3. \A u \in Threads : Left(u)' => Left(u)
    BY <2>1, <2>2 DEF Left
  <2> QED
    BY <1>4, <2>1, <2>3 DEF TypeOK
<1>11. ASSUME NEW t \in Threads, Works(t) PROVE UsedUp'
  <2>1. /\ UNCHANGED <<size, thread_num, status>> /\ \A k : Ready(k)' <=> Ready(k)
        /\ Victim(t) \in Threads /\ pc[t] \in Inside
        /\ \A u \in Threads : u # t => pc'[u] = pc[u] /\ offset'[u] = offset[u]
    BY <1>11, AtWork, WorksIs
  <2>2. \A u \in Threads : curr[u] <= curr'[u]
    <3>1. CASE Claim(t) \/ Exhausted(t)
      <4>1. curr' = [curr EXCEPT ![Victim(t)] = curr[Victim(t)] + 1]
        BY <3>1 DEF Claim, Exhausted
      <4>2. \A u \in Threads : curr'[u] = IF u = Victim(t) THEN curr[u] + 1 ELSE curr[u]
        BY <2>1, <4>1 DEF TypeOK
      <4> QED
        BY <4>2 DEF TypeOK
    <3>2. CASE Visit(t) \/ Skip(t) \/ Compute(t)
      BY <3>2 DEF Visit, Skip, Compute, rangeVars, TypeOK
    <3> QED
      BY <1>11, <3>1, <3>2 DEF Works
  <2>3. \A u \in Threads : u # t => (Left(u)' => Left(u))
    BY <2>1 DEF Left
  <2>4. CASE Left(t)' => Left(t)
    BY <1>4, <2>1, <2>2, <2>3, <2>4
  <2>5. CASE Left(t)' /\ ~Left(t)
    <3>1. Exhausted(t)
      BY <1>11, <2>1, <2>5 DEF Works, Visit, Skip, Claim, Compute, Left, stealVars
    <3>2. offset[t] = 0 /\ pc[t] = "claim"
      BY <2>1, <2>5, <3>1 DEF Left, Exhausted, TypeOK
    <3>3. /\ Victim(t) = t /\ end[t] = Bound(t + 1) /\ \A k : Bound(k)' = Bound(k)
      BY <1>11, <2>1, <3>2, InJob, Victims, AtWork
    <3>4. end[t] <= curr[t] /\ end[t] \in Nat /\ curr[t] \in Nat /\ curr'[t] \in Nat
      BY <3>1, <3>3 DEF Exhausted, TypeOK
    <3>5. Bound(t + 1)' <= curr'[t]
      BY <2>2, <3>3, <3>4
    <3>6. ASSUME NEW u \in Threads, Left(u)', u # t PROVE Bound(u + 1)' <= curr'[u]
      <4>1. Bound(u + 1) <= curr[u] /\ Bound(u + 1) \in Nat
        <5>1. thread_num \in 1..MaxThreads /\ u \in Nat
          BY <2>1, InJob
        <5> QED
          BY <2>3, <3>6, <5>1, BoundIs DEF UsedUp, Left
      <4> QED
        BY <2>2, <3>3, <4>1 DEF TypeOK
    <3> QED
      BY <1>1, <3>5, <3>6
  <2> QED
    BY <2>4, <2>5
<1>12. ASSUME NEW t \in Threads, Finalize(t) PROVE UsedUp'
  <2>1. /\ pc[t] = "visit" /\ pc'[t] \in {"wait", "poll"} /\ (t = 0 => pc'[t] = "wait")
        /\ (t # 0 => at' = at) /\ offset[t] >= thread_num
        /\ UNCHANGED <<size, thread_num, offset, curr>>
        /\ \A u \in Threads : u # t => pc'[u] = pc[u] /\ status'[u] = status[u]
    BY <1>12 DEF Finalize, Goto, TypeOK, jobVars, rangeVars, stealVars
  <2>2. Left(t)
    BY <2>1, InJob DEF Left, Inside, TypeOK
  <2>3. \A k : Ready(k)' <=> Ready(k)
    BY <2>1 DEF Ready, Inside, Arming
  <2>4. \A u \in Threads : Left(u)' => Left(u)
    BY <2>1, <2>2, <2>3 DEF Left
  <2> QED
    BY <1>4, <2>1, <2>4 DEF TypeOK
<1>13. ASSUME NEW t \in Helpers, Poll(t) PROVE UsedUp'
  <2>1. /\ t \in Threads /\ t # 0 /\ offset'[t] = 0 /\ ~(offset'[t] >= 1)
        /\ UNCHANGED <<size, thread_num, status, curr, at>>
        /\ \A u \in Threads : u # t => pc'[u] = pc[u] /\ offset'[u] = offset[u]
    BY <1>13 DEF Poll, Goto, TypeOK, jobVars, rangeVars
  <2>2. \A k : Ready(k)' <=> Ready(k)
    BY <2>1 DEF Ready, Inside, Arming
  <2>3. ASSUME NEW u \in Threads PROVE Left(u)' => Left(u)
    <3>1. CASE u = t
      BY <2>1, <2>2, <3>1 DEF Left
    <3>2. CASE u # t
      BY <2>1, <2>2, <3>2 DEF Left
    <3> QED
      BY <3>1, <3>2
  <2> QED
    BY <1>4, <2>1, <2>3 DEF TypeOK
<1> QED
  BY <1>3, <1>5, <1>6, <1>7, <1>8, <1>9, <1>10, <1>11, <1>12, <1>13
     DEF Next, Caller, ProcessTasks, Works, PollAgain, Gone

LEMMA IPreserved == IInv /\ [Next]_vars => IInv'
<1> SUFFICES ASSUME IInv, [Next]_vars PROVE IInv'
  OBVIOUS
<1>1. AInv'
  BY APreserved DEF IInv
<1> QED
  BY <1>1, RangesStep, CountsStep, UsedUpStep DEF IInv

LEMMA Invariant == Spec => []IInv
BY IInit, IPreserved, PTL DEF Spec

\* When the caller returns, every index has been computed.
LEMMA AllComputed ==
  ASSUME IInv, Return
  PROVE  \A i \in 0..(size - 1) : times[i] = 1
<1> USE ThreadsAre DEF IInv, AInv
<1>1. /\ pc[0] = "wait" /\ at >= thread_num /\ thread_num \in 1..MaxThreads
      /\ \A t \in Threads : pc[t] \notin Inside /\ status[t] # "WORKING"
  BY NobodyWorks DEF Return, Places, Outside
<1>2. \A k \in 0..(thread_num - 1) : k \in Threads /\ k \in Nat /\ Ready(k)
  BY <1>1, ThreadsAssumption DEF Ready, Threads
<1>3. \A k \in 0..(thread_num - 1) : Bound(k + 1) <= curr[k]
  BY <1>1, <1>2 DEF UsedUp
<1>4. end[thread_num - 1] = size /\ thread_num - 1 \in Threads /\ HasEnd(thread_num - 1)
  <2>1. HasEnd(thread_num - 1) /\ thread_num - 1 \in Threads
    BY <1>1, <1>2 DEF HasEnd
  <2>2. Bound((thread_num - 1) + 1) = size
    BY <1>1, BoundIs
  <2> QED
    BY <2>1, <2>2 DEF Ranges
<1>5. ASSUME NEW i \in 0..(size - 1) PROVE times[i] = 1
  <2>1. PICK k \in 0..(thread_num - 1) : Bound(k) <= i /\ i < Bound(k + 1)
    BY <1>4 DEF Ranges
  <2>2. In(i, k) /\ Ready(k) /\ i < curr[k]
    <3>1. Bound(k + 1) \in Nat /\ curr[k] \in Nat /\ Bound(k + 1) <= curr[k]
      BY <1>1, <1>2, <1>3, BoundIs DEF TypeOK
    <3> QED
      BY <1>2, <2>1, <3>1 DEF In
  <2>3. \A t \in Threads : ~Has(t, i)
    BY <1>1 DEF Has, Inside
  <2> QED
    BY <1>1, <2>2, <2>3 DEF Counts, Outside
<1> QED
  BY <1>5

(* This pool, too, implements ForkJoin: with every thread on a range of    *)
(* its own and stealing from the others while the caller still arms them,  *)
(* each index of a job is computed exactly once between call and return.   *)
THEOREM Refinement == Spec => ImplementsForkJoin
<1> USE DEF Outside
<1>1. Init => Abstract!Init
  <2>1. Init => pc[0] = "idle"
    BY ThreadsAre DEF Init
  <2>2. Init => size = 0 /\ times = Abstract!Untouched(0)
    BY DEF Init, Abstract!Untouched, Untouched
  <2> QED
    BY <2>1, <2>2 DEF Abstract!Init
<1>2. IInv /\ [Next]_vars => [Abstract!Next]_Abstract!vars
  <2> SUFFICES ASSUME IInv, [Next]_vars PROVE [Abstract!Next]_Abstract!vars
    OBVIOUS
  <2> USE ThreadsAre DEF IInv, AInv
  <2>1. ASSUME NEW n \in JobSizes, Begin(n) PROVE Abstract!Call(n)
    BY <2>1, BeginIs DEF Abstract!Call, Abstract!Untouched, Untouched
  <2>2. CASE Return
    <3>1. pc[0] = "wait" /\ pc'[0] = "idle" /\ UNCHANGED <<size, times>>
      BY <2>2 DEF Return, Goto, TypeOK, jobVars
    <3> QED
      BY <2>2, <3>1, AllComputed DEF Abstract!Next, Abstract!Return
  <2>3. ASSUME NEW t \in Threads, Compute(t) PROVE Abstract!Next
    <3>1. task_id[t] \in 0..(size - 1) /\ times[task_id[t]] = 0 /\ pc[0] \notin Outside
      BY <2>3, ComputeFinds
    <3>2. times' = [times EXCEPT ![task_id[t]] = 1] /\ UNCHANGED size /\ pc'[0] \notin Outside
      <4>1. Works(t)
        BY <2>3 DEF Works
      <4>2. UNCHANGED size /\ pc'[0] \notin Outside
        BY <4>1, AtWork
      <4>3. times' = [times EXCEPT ![task_id[t]] = times[task_id[t]] + 1]
        BY <2>3 DEF Compute
      <4> QED
        BY <3>1, <4>2, <4>3
    <3> QED
      BY <3>1, <3>2 DEF Abstract!Next, Abstract!Compute
  <2>4. ASSUME UNCHANGED <<size, times>>, pc[0] \in Outside <=> pc'[0] \in Outside
        PROVE  UNCHANGED Abstract!vars
    BY <2>4 DEF Abstract!vars
  <2>5. CASE SetRange \/ SetWorking \/ SetOwnCurr \/ SetOwnWorking \/ WaitFor
    BY <2>4, <2>5 DEF SetRange, SetWorking, SetOwnCurr, SetOwnWorking, WaitFor, Goto, jobVars, TypeOK
  <2>6. ASSUME NEW t \in Threads, Visit(t) \/ Skip(t) \/ Claim(t) \/ Exhausted(t)
        PROVE  UNCHANGED Abstract!vars
    <3>1. Works(t) /\ times' = times
      BY <2>6 DEF Works, Visit, Skip, Claim, Exhausted
    <3> QED
      BY <2>4, <3>1, AtWork
  <2>7. ASSUME NEW t \in Threads, Finalize(t) PROVE UNCHANGED Abstract!vars
    <3>1. /\ pc[t] = "visit" /\ pc'[t] \in {"wait", "poll"} /\ (t = 0 => pc'[t] = "wait")
          /\ UNCHANGED <<size, times>> /\ \A u \in Threads : u # t => pc'[u] = pc[u]
      BY <2>7 DEF Finalize, Goto, jobVars, TypeOK
    <3> QED
      BY <2>4, <3>1
  <2>8. ASSUME NEW t \in Helpers, Poll(t) PROVE UNCHANGED Abstract!vars
    BY <2>4, <2>8 DEF Poll, Goto, jobVars, TypeOK
  <2>9. CASE Destroy \/ StoreExit \/ Join
    BY <2>4, <2>9 DEF Destroy, StoreExit, Join, Goto, jobVars, TypeOK
  <2>10. CASE UNCHANGED vars
    BY <2>4, <2>10 DEF vars, jobVars
  <2> QED
    BY <2>1, <2>2, <2>3, <2>5, <2>6, <2>7, <2>8, <2>9, <2>10
       DEF Next, Caller, ProcessTasks, PollAgain, Gone, Abstract!Next
<1> QED
  BY <1>1, <1>2, Invariant, PTL DEF Spec, ImplementsForkJoin, Abstract!Spec

-----------------------------------------------------------------------------
(***************************************************************************)
(* The task queue of kt-sft, for any number of clients and tasks, any      *)
(* number of spurious wakeups and any memory under the flags.              *)
(*                                                                         *)
(* The argument: whoever is in a critical section holds the mutex          *)
(* (Holders), so between a push and its unlock the pushed task is the last *)
(* one and nobody else changes the queue (Pushed).  A task is nowhere      *)
(* twice (Unique).  The flag is up only when nothing runs and nothing      *)
(* waits, but for a task that was pushed just now, whose enqueue will take *)
(* the flag down before it lets go of the mutex (FlagHonest).              *)
(***************************************************************************)

InSection == {"push", "flag", "unlock"}
Waits     == {tasks[i] : i \in 1..Len(tasks)}
Started   == {ran[i] : i \in 1..Len(ran)}

\* Who is in a critical section holds the mutex; a worker that has left keeps it.
Holders ==
  /\ \A c \in Clients : call[c] \in InSection <=> mutex = c
  /\ wpc \in {"check", "report", "exited"} <=> mutex = "worker"
  /\ dpc = "flag" <=> mutex = "destructor"

\* Calls are made between constructor and destructor.
Lifetime ==
  /\ \A c \in Clients : call[c] # "idle" => Usable
  /\ dpc # "alive" => cpc = "done"

\* The argument of an enqueue is a task; once pushed it is the last that waits.
Pushed ==
  \A c \in Clients :
    /\ call[c] \in {"lock", "push", "flag", "unlock"} => node[c] \in Tasks
    /\ call[c] \in {"flag", "unlock"} => tasks # <<>> /\ tasks[Len(tasks)] = node[c]

\* A task waits, runs or is about to be pushed at one place only.
Unique ==
  /\ \A i, j \in 1..Len(tasks) : tasks[i] = tasks[j] => i = j
  /\ Waits \cap Started = {}
  /\ \A c \in Clients : call[c] \in {"lock", "push"} => node[c] \notin Waits \union Started
  /\ \A c, d \in Clients :
       {call[c], call[d]} \subseteq {"lock", "push"} /\ node[c] = node[d] => c = d
  /\ Waits \union Started \subseteq Submitted

\* The worker runs a task it has counted as started.
RunsStarted == wpc = "busy" => task \in Tasks /\ task \in Started

\* The flag is up, or the queue still under construction, only when all is done.
FlagHonest ==
  (sync_flag \/ cpc # "done") =>
    /\ wpc # "busy"
    /\ \A c \in Clients : call[c] # "unlock"
    /\ \/ tasks = <<>>
       \/ Len(tasks) = 1 /\ \E c \in Clients : call[c] = "flag"

QueueInv ==
  QueueTypeOK /\ Holders /\ Lifetime /\ Pushed /\ Unique /\ RunsStarted /\ FlagHonest

-----------------------------------------------------------------------------
(* What the operations on the queue do to its elements *)

\* Append adds its element at the end.
LEMMA PushAdds ==
  ASSUME NEW S, NEW s \in Seq(S), NEW e \in S
  PROVE  /\ Append(s, e) \in Seq(S) /\ Append(s, e) # <<>>
         /\ Len(s) \in Nat /\ Len(Append(s, e)) = Len(s) + 1
         /\ \A i \in 1..Len(s) : Append(s, e)[i] = s[i]
         /\ Append(s, e)[Len(s) + 1] = e
         /\ {Append(s, e)[i] : i \in 1..Len(Append(s, e))} = {s[i] : i \in 1..Len(s)} \union {e}
<1>1. /\ Append(s, e) \in Seq(S) /\ Len(s) \in Nat /\ Len(Append(s, e)) = Len(s) + 1
      /\ \A i \in 1..Len(s) : Append(s, e)[i] = s[i]
      /\ Append(s, e)[Len(s) + 1] = e
  BY AppendProperties
<1>2. \A i : i \in 1..(Len(s) + 1) <=> i \in 1..Len(s) \/ i = Len(s) + 1
  BY <1>1
<1>3. Append(s, e) # <<>>
  BY <1>1, EmptySeq
<1> QED
  BY <1>1, <1>2, <1>3

\* Head and Tail take the first element off.
LEMMA PopTakes ==
  ASSUME NEW S, NEW s \in Seq(S), s # <<>>
  PROVE  /\ Tail(s) \in Seq(S) /\ Head(s) = s[1] /\ Head(s) \in S
         /\ Len(s) \in Nat \ {0} /\ Len(Tail(s)) = Len(s) - 1
         /\ \A i \in 1..Len(Tail(s)) : Tail(s)[i] = s[i + 1]
         /\ {s[i] : i \in 1..Len(s)} = {Tail(s)[i] : i \in 1..Len(Tail(s))} \union {Head(s)}
<1>1. /\ Tail(s) \in Seq(S) /\ Head(s) = s[1] /\ Head(s) \in S
      /\ Len(s) \in Nat \ {0} /\ Len(Tail(s)) = Len(s) - 1
      /\ \A i \in 1..Len(Tail(s)) : Tail(s)[i] = s[i + 1]
  BY HeadTailProperties, EmptySeq
<1>2. ASSUME NEW i \in 1..Len(s)
      PROVE  s[i] \in {Tail(s)[j] : j \in 1..Len(Tail(s))} \union {Head(s)}
  <2>1. CASE i = 1
    BY <1>1, <2>1
  <2>2. CASE i # 1
    <3>1. i - 1 \in 1..Len(Tail(s)) /\ (i - 1) + 1 = i
      BY <1>1, <2>2
    <3>2. Tail(s)[i - 1] = s[i]
      BY <1>1, <3>1
    <3> QED
      BY <3>1, <3>2
  <2> QED
    BY <2>1, <2>2
<1>3. ASSUME NEW i \in 1..Len(Tail(s)) PROVE i + 1 \in 1..Len(s)
  BY <1>1
<1>4. Head(s) \in {s[i] : i \in 1..Len(s)}
  <2>1. 1 \in 1..Len(s)
    BY <1>1
  <2> QED
    BY <1>1, <2>1
<1>5. ASSUME NEW j \in 1..Len(Tail(s)) PROVE Tail(s)[j] \in {s[i] : i \in 1..Len(s)}
  <2>1. j + 1 \in 1..Len(s) /\ Tail(s)[j] = s[j + 1]
    BY <1>1, <1>3
  <2> QED
    BY <2>1
<1>6. {s[i] : i \in 1..Len(s)} \subseteq {Tail(s)[i] : i \in 1..Len(Tail(s))} \union {Head(s)}
  BY <1>2
<1>7. {Tail(s)[i] : i \in 1..Len(Tail(s))} \union {Head(s)} \subseteq {s[i] : i \in 1..Len(s)}
  BY <1>4, <1>5
<1>8. {s[i] : i \in 1..Len(s)} = {Tail(s)[i] : i \in 1..Len(Tail(s))} \union {Head(s)}
  BY <1>6, <1>7
<1> QED
  BY <1>1, <1>8

\* Front leaves the last element out.
LEMMA FrontLeaves ==
  ASSUME NEW S, NEW s \in Seq(S), s # <<>>
  PROVE  /\ Front(s) \in Seq(S) /\ Len(Front(s)) = Len(s) - 1
         /\ \A i \in 1..Len(Front(s)) : Front(s)[i] = s[i]
         /\ Append(Front(s), s[Len(s)]) = s
<1>1. Len(s) \in Nat \ {0} /\ \A i \in 1..Len(s) : s[i] \in S
  BY EmptySeq, ElementOfSeq
<1>2. /\ Front(s) \in Seq(S) /\ Len(Front(s)) = Len(s) - 1
      /\ \A i \in 1..(Len(s) - 1) : Front(s)[i] = s[i]
  <2>1. /\ SubSeq(s, 1, Len(s) - 1) \in Seq(S)
        /\ Len(SubSeq(s, 1, Len(s) - 1)) =
             IF 1 <= Len(s) - 1 THEN (Len(s) - 1) - 1 + 1 ELSE 0
        /\ \A i \in 1..((Len(s) - 1) - 1 + 1) : SubSeq(s, 1, Len(s) - 1)[i] = s[1 + i - 1]
    BY <1>1, SubSeqProperties
  <2>2. (Len(s) - 1) - 1 + 1 = Len(s) - 1 /\ \A i \in 1..(Len(s) - 1) : 1 + i - 1 = i
    BY <1>1
  <2>3. (IF 1 <= Len(s) - 1 THEN (Len(s) - 1) - 1 + 1 ELSE 0) = Len(s) - 1
    <3>1. \A n \in Nat \ {0} : 1 <= n - 1 \/ n - 1 = 0
      OBVIOUS
    <3>2. CASE 1 <= Len(s) - 1
      BY <2>2, <3>2
    <3>3. CASE Len(s) - 1 = 0
      BY <3>3
    <3> QED
      BY <1>1, <3>1, <3>2, <3>3
  <2> QED
    BY <2>1, <2>2, <2>3 DEF Front
<1>3. s[Len(s)] \in S
  BY <1>1
<1>4. /\ Append(Front(s), s[Len(s)]) \in Seq(S) /\ Len(Append(Front(s), s[Len(s)])) = Len(s)
      /\ \A i \in 1..(Len(s) - 1) : Append(Front(s), s[Len(s)])[i] = s[i]
      /\ Append(Front(s), s[Len(s)])[Len(s)] = s[Len(s)]
  BY <1>1, <1>2, <1>3, AppendProperties
<1>5. Append(Front(s), s[Len(s)]) = s
  <2>1. \A i \in 1..Len(s) : i \in 1..(Len(s) - 1) \/ i = Len(s)
    BY <1>1
  <2> QED
    BY <1>4, <2>1, SeqEqual
<1> QED
  BY <1>1, <1>2, <1>5

\* What was appended last is what Front leaves out.
LEMMA FrontOfPush ==
  ASSUME NEW S, NEW s \in Seq(S), NEW e \in S
  PROVE  Front(Append(s, e)) = s
<1>1. /\ Append(s, e) \in Seq(S) /\ Append(s, e) # <<>> /\ Len(s) \in Nat
      /\ Len(Append(s, e)) = Len(s) + 1 /\ \A i \in 1..Len(s) : Append(s, e)[i] = s[i]
  BY PushAdds
<1>2. /\ Front(Append(s, e)) \in Seq(S) /\ Len(Front(Append(s, e))) = Len(s)
      /\ \A i \in 1..Len(s) : Front(Append(s, e))[i] = s[i]
  <2>1. /\ Front(Append(s, e)) \in Seq(S)
        /\ Len(Front(Append(s, e))) = Len(Append(s, e)) - 1
        /\ \A i \in 1..Len(Front(Append(s, e))) : Front(Append(s, e))[i] = Append(s, e)[i]
    BY <1>1, FrontLeaves
  <2>2. Len(Append(s, e)) - 1 = Len(s)
    BY <1>1
  <2> QED
    BY <1>1, <2>1, <2>2
<1> QED
  BY <1>2, SeqEqual

-----------------------------------------------------------------------------
(* The invariant holds at first and is kept *)

LEMMA QueueInitially == QueueInit => QueueInv
<1> SUFFICES ASSUME QueueInit PROVE QueueInv
  OBVIOUS
<1> USE NullAssumption, MutexAssumption, GarbageAssumption, SpuriousAssumption DEF QueueInit
<1>1. /\ tasks = <<>> /\ Len(tasks) = 0 /\ ran = <<>> /\ Len(ran) = 0
      /\ Waits = {} /\ Started = {}
  BY DEF Waits, Started
<1>2. QueueTypeOK
  BY EmptySeq DEF QueueTypeOK
<1>3. Holders /\ Lifetime /\ Pushed /\ RunsStarted /\ FlagHonest
  <2>1. Holders
    <3>1. mutex = NULL /\ "worker" # NULL /\ "destructor" # NULL /\ NULL \notin Clients
      BY DEF MutexAssumption
    <3> QED
      BY <3>1 DEF Holders, InSection
  <2> QED
    BY <1>1, <2>1 DEF Lifetime, Pushed, RunsStarted, FlagHonest
<1>4. Unique
  BY <1>1 DEF Unique
<1> QED
  BY <1>2, <1>3, <1>4 DEF QueueInv

LEMMA HoldersStep == QueueInv /\ [QueueNext]_queueVars => Holders'
<1> SUFFICES ASSUME QueueInv, [QueueNext]_queueVars PROVE Holders'
  OBVIOUS
<1>0. /\ Holders /\ call \in [Clients -> {"idle", "lock", "push", "flag", "unlock", "notify", "sync"}]
      /\ mutex \in Clients \union {"worker", "destructor", NULL}
      /\ wpc \in {"lock", "check", "asleep", "busy", "relock", "report", "exited"}
      /\ "worker" \notin Clients /\ "destructor" \notin Clients /\ NULL \notin Clients
      /\ NULL # "worker" /\ NULL # "destructor"
  <2>1. "worker" \notin Clients /\ "destructor" \notin Clients /\ NULL \notin Clients
    BY NullAssumption, MutexAssumption
  <2>2. NULL # "worker" /\ NULL # "destructor"
    BY MutexAssumption
  <2> QED
    BY <2>1, <2>2 DEF QueueInv, QueueTypeOK
<1> USE DEF Holders, InSection
<1>1. ASSUME NEW c \in Clients, Client(c) PROVE Holders'
  <2>1. ASSUME NEW t \in Tasks, EnqueueCall(c, t) PROVE Holders'
    BY <1>0, <2>1 DEF EnqueueCall, workerVars
  <2>2. ASSUME EnqueueLock(c) PROVE Holders'
    BY <1>0, <2>2 DEF EnqueueLock, workerVars
  <2>3. ASSUME EnqueuePush(c) \/ EnqueueFlag(c) PROVE Holders'
    BY <1>0, <2>3 DEF EnqueuePush, EnqueueFlag, workerVars
  <2>4. ASSUME EnqueueUnlock(c) PROVE Holders'
    BY <1>0, <2>4 DEF EnqueueUnlock, workerVars
  <2>5. ASSUME EnqueueNotify(c) \/ SyncCall(c) \/ SyncReturn(c) \/ SyncSpin(c) PROVE Holders'
    BY <1>0, <2>5 DEF EnqueueNotify, SyncCall, SyncReturn, SyncSpin, workerVars, queueVars, clientVars
  <2> QED
    BY <1>1, <2>1, <2>2, <2>3, <2>4, <2>5 DEF Client
<1>2. ASSUME Worker \/ WorkerWakesSpuriously PROVE Holders'
  BY <1>0, <1>2 DEF Worker, WorkerWakesSpuriously, WorkerLock, WorkerSleep, WorkerExit,
     WorkerStart, WorkerFinish, WorkerRelock, WorkerReport, clientVars
<1>3. ASSUME DestroyLock \/ DestroyFlag \/ DestroyNotify \/ DestroyJoin PROVE Holders'
  BY <1>0, <1>3 DEF DestroyLock, DestroyFlag, DestroyNotify, DestroyJoin, clientVars, workerVars
<1>4. ASSUME Constructor \/ QueueGone \/ UNCHANGED queueVars PROVE Holders'
  BY <1>0, <1>4 DEF Constructor, StoreSync, StoreExitFlag, QueueGone, queueVars, clientVars, workerVars
<1> QED
  BY <1>1, <1>2, <1>3, <1>4 DEF QueueNext

LEMMA LifetimeStep == QueueInv /\ [QueueNext]_queueVars => Lifetime'
<1> SUFFICES ASSUME QueueInv, [QueueNext]_queueVars PROVE Lifetime'
  OBVIOUS
<1>0. /\ Lifetime /\ call \in [Clients -> {"idle", "lock", "push", "flag", "unlock", "notify", "sync"}]
  BY DEF QueueInv, QueueTypeOK
<1> USE DEF Lifetime, Usable
<1>1. ASSUME NEW c \in Clients, Client(c) PROVE Lifetime'
  BY <1>0, <1>1 DEF Client, EnqueueCall, EnqueueLock, EnqueuePush, EnqueueFlag, EnqueueUnlock,
     EnqueueNotify, SyncCall, SyncReturn, SyncSpin, queueVars, clientVars
<1>2. ASSUME Worker \/ WorkerWakesSpuriously PROVE Lifetime'
  BY <1>0, <1>2 DEF Worker, WorkerWakesSpuriously, WorkerLock, WorkerSleep, WorkerExit,
     WorkerStart, WorkerFinish, WorkerRelock, WorkerReport, clientVars
<1>3. ASSUME DestroyLock \/ DestroyFlag \/ DestroyNotify \/ DestroyJoin PROVE Lifetime'
  BY <1>0, <1>3 DEF DestroyLock, DestroyFlag, DestroyNotify, DestroyJoin, clientVars
<1>4. ASSUME Constructor \/ QueueGone \/ UNCHANGED queueVars PROVE Lifetime'
  BY <1>0, <1>4 DEF Constructor, StoreSync, StoreExitFlag, QueueGone, queueVars, clientVars
<1> QED
  BY <1>1, <1>2, <1>3, <1>4 DEF QueueNext

\* The tasks that an operation adds to, or takes from, what waits and what has started.
LEMMA PushMoves ==
  ASSUME QueueInv, NEW c \in Clients, EnqueuePush(c)
  PROVE  /\ tasks' \in Seq(Tasks) /\ tasks' # <<>> /\ Len(tasks') = Len(tasks) + 1
         /\ \A i \in 1..Len(tasks) : tasks'[i] = tasks[i]
         /\ tasks'[Len(tasks')] = node[c]
         /\ Waits' = Waits \union {node[c]} /\ Started' = Started
<1>1. tasks \in Seq(Tasks) /\ node[c] \in Tasks /\ tasks' = Append(tasks, node[c]) /\ ran' = ran
  BY DEF QueueInv, QueueTypeOK, Pushed, EnqueuePush, historyVars
<1>2. /\ tasks' \in Seq(Tasks) /\ tasks' # <<>> /\ Len(tasks') = Len(tasks) + 1
      /\ \A i \in 1..Len(tasks) : tasks'[i] = tasks[i]
      /\ tasks'[Len(tasks) + 1] = node[c]
      /\ {tasks'[i] : i \in 1..Len(tasks')} = {tasks[i] : i \in 1..Len(tasks)} \union {node[c]}
  BY <1>1, PushAdds
<1> QED
  BY <1>1, <1>2 DEF Waits, Started

LEMMA StartMoves ==
  ASSUME QueueInv, WorkerStart
  PROVE  /\ tasks' \in Seq(Tasks) /\ Len(tasks) \in Nat \ {0} /\ Len(tasks') = Len(tasks) - 1
         /\ \A i \in 1..Len(tasks') : tasks'[i] = tasks[i + 1]
         /\ ran' \in Seq(Tasks) /\ task' = tasks[1] /\ task' \in Tasks
         /\ Waits = Waits' \union {task'} /\ Started' = Started \union {task'}
         /\ task' \notin Waits'
<1>1. /\ tasks \in Seq(Tasks) /\ tasks # <<>> /\ tasks' = Tail(tasks) /\ task' = Head(tasks)
      /\ ran \in Seq(Tasks) /\ ran' = Append(ran, Head(tasks))
  BY DEF QueueInv, QueueTypeOK, WorkerStart
<1>2. /\ tasks' \in Seq(Tasks) /\ task' = tasks[1] /\ task' \in Tasks
      /\ Len(tasks) \in Nat \ {0} /\ Len(tasks') = Len(tasks) - 1
      /\ \A i \in 1..Len(tasks') : tasks'[i] = tasks[i + 1]
      /\ {tasks[i] : i \in 1..Len(tasks)} = {tasks'[i] : i \in 1..Len(tasks')} \union {task'}
  <2>1. {tasks[i] : i \in 1..Len(tasks)} =
          {Tail(tasks)[i] : i \in 1..Len(Tail(tasks))} \union {Head(tasks)}
    BY <1>1, PopTakes
  <2>2. /\ Tail(tasks) \in Seq(Tasks) /\ Head(tasks) = tasks[1] /\ Head(tasks) \in Tasks
        /\ Len(tasks) \in Nat \ {0} /\ Len(Tail(tasks)) = Len(tasks) - 1
        /\ \A i \in 1..Len(Tail(tasks)) : Tail(tasks)[i] = tasks[i + 1]
    BY <1>1, PopTakes
  <2>3. tasks' \in Seq(Tasks) /\ task' = tasks[1] /\ task' \in Tasks
    BY <1>1, PopTakes
  <2>4. /\ Len(tasks) \in Nat \ {0} /\ Len(tasks') = Len(tasks) - 1
        /\ \A i \in 1..Len(tasks') : tasks'[i] = tasks[i + 1]
    BY <1>1, <2>2
  <2>5. {tasks[i] : i \in 1..Len(tasks)} = {tasks'[i] : i \in 1..Len(tasks')} \union {task'}
    BY <1>1, <2>1
  <2> QED
    BY <2>3, <2>4, <2>5
<1>3. /\ ran' \in Seq(Tasks)
      /\ {ran'[i] : i \in 1..Len(ran')} = {ran[i] : i \in 1..Len(ran)} \union {task'}
  BY <1>1, <1>2, PushAdds
<1>4. task' \notin Waits'
  <2>1. ASSUME NEW i \in 1..Len(tasks'), tasks'[i] = task' PROVE FALSE
    <3>1. i + 1 \in 1..Len(tasks) /\ 1 \in 1..Len(tasks) /\ i + 1 # 1
      BY <1>2
    <3>2. tasks[i + 1] = tasks[1]
      BY <1>2, <2>1
    <3> QED
      BY <3>1, <3>2 DEF QueueInv, Unique
  <2> QED
    BY <2>1 DEF Waits
<1> QED
  BY <1>2, <1>3, <1>4 DEF Waits, Started

\* Every other step leaves both alone.
LEMMA OthersMoveNothing ==
  ASSUME [QueueNext]_queueVars, ~WorkerStart, \A c \in Clients : ~EnqueuePush(c)
  PROVE  UNCHANGED <<tasks, ran, Waits, Started>>
<1>1. UNCHANGED <<tasks, ran>>
  <2>1. ASSUME NEW c \in Clients, Client(c) PROVE UNCHANGED <<tasks, ran>>
    BY <2>1 DEF Client, EnqueueCall, EnqueueLock, EnqueueFlag, EnqueueUnlock,
       EnqueueNotify, SyncCall, SyncReturn, SyncSpin, queueVars, historyVars
  <2>2. ASSUME Worker \/ WorkerWakesSpuriously PROVE UNCHANGED <<tasks, ran>>
    BY <2>2 DEF Worker, WorkerWakesSpuriously, WorkerLock, WorkerSleep, WorkerExit,
       WorkerFinish, WorkerRelock, WorkerReport, historyVars
  <2>3. ASSUME DestroyLock \/ DestroyFlag \/ DestroyNotify \/ DestroyJoin PROVE UNCHANGED <<tasks, ran>>
    BY <2>3 DEF DestroyLock, DestroyFlag, DestroyNotify, DestroyJoin, historyVars
  <2>4. ASSUME Constructor \/ QueueGone \/ UNCHANGED queueVars PROVE UNCHANGED <<tasks, ran>>
    BY <2>4 DEF Constructor, StoreSync, StoreExitFlag, QueueGone, queueVars, historyVars
  <2> QED
    BY <2>1, <2>2, <2>3, <2>4 DEF QueueNext
<1> QED
  BY <1>1 DEF Waits, Started

LEMMA QueueTypeStep == QueueInv /\ [QueueNext]_queueVars => QueueTypeOK'
<1> SUFFICES ASSUME QueueInv, [QueueNext]_queueVars PROVE QueueTypeOK'
  OBVIOUS
<1>0. QueueTypeOK
  BY DEF QueueInv
<1>1. tasks' \in Seq(Tasks) /\ ran' \in Seq(Tasks)
  <2>1. CASE WorkerStart
    BY <2>1, StartMoves
  <2>2. ASSUME NEW c \in Clients, EnqueuePush(c) PROVE tasks' \in Seq(Tasks) /\ ran' \in Seq(Tasks)
    BY <1>0, <2>2, PushMoves DEF EnqueuePush, historyVars, QueueTypeOK
  <2> QED
    BY <1>0, <2>1, <2>2, OthersMoveNothing DEF QueueTypeOK
<1> DEFINE Rest ==
      /\ mutex \in Clients \union {"worker", "destructor", NULL}
      /\ sync_flag \in BOOLEAN /\ exit_flag \in BOOLEAN
      /\ cpc \in {"store_sync", "store_exit", "done"}
      /\ call \in [Clients -> {"idle", "lock", "push", "flag", "unlock", "notify", "sync"}]
      /\ node \in [Clients -> Tasks \union {NULL}]
      /\ wpc \in {"lock", "check", "asleep", "busy", "relock", "report", "exited"}
      /\ task \in Tasks \union {NULL}
      /\ dpc \in {"alive", "flag", "notify", "join", "gone"}
      /\ spurious \in 0..MaxSpurious
      /\ issued \in [Clients -> Seq(Tasks)]
<1>2. Rest
  BY <1>0 DEF QueueTypeOK
<1>3. Rest'
  <2>1. ASSUME NEW c \in Clients, Client(c) PROVE Rest'
    <3>1. ASSUME EnqueueFlag(c) PROVE Rest'
      <4>1. node[c] \in Tasks
        BY <3>1 DEF EnqueueFlag, QueueInv, Pushed
      <4>2. Append(issued[c], node[c]) \in Seq(Tasks)
        BY <1>2, <4>1, AppendProperties
      <4>3. issued' \in [Clients -> Seq(Tasks)]
        BY <1>2, <3>1, <4>2 DEF EnqueueFlag
      <4> QED
        BY <1>2, <3>1, <4>3 DEF EnqueueFlag, workerVars
    <3>2. ASSUME NEW t \in Tasks, EnqueueCall(c, t) PROVE Rest'
      BY <1>2, <3>2 DEF EnqueueCall, workerVars, flagVars, historyVars
    <3>3. ASSUME EnqueueLock(c) PROVE Rest'
      BY <1>2, <3>3 DEF EnqueueLock, workerVars, flagVars, historyVars
    <3>6. ASSUME EnqueueUnlock(c) PROVE Rest'
      BY <1>2, <3>6 DEF EnqueueUnlock, workerVars, flagVars, historyVars
    <3>5. ASSUME EnqueuePush(c) PROVE Rest'
      BY <1>2, <3>5 DEF EnqueuePush, workerVars, flagVars, historyVars
    <3>4. ASSUME EnqueueNotify(c) \/ SyncCall(c) \/ SyncReturn(c) \/ SyncSpin(c) PROVE Rest'
      BY <1>2, <3>4 DEF EnqueueNotify, SyncCall, SyncReturn, SyncSpin, queueVars, clientVars,
         workerVars, flagVars, historyVars
    <3> QED
      BY <2>1, <3>1, <3>2, <3>3, <3>4, <3>5, <3>6 DEF Client
  <2>2. ASSUME WorkerStart PROVE Rest'
    <3>1. task' \in Tasks
      BY <2>2, StartMoves
    <3> QED
      BY <1>2, <2>2, <3>1 DEF WorkerStart, flagVars, clientVars
  <2>3. ASSUME Worker, ~WorkerStart PROVE Rest'
    BY <1>2, <2>3 DEF Worker, WorkerLock, WorkerSleep, WorkerExit, WorkerFinish, WorkerRelock,
       WorkerReport, clientVars, flagVars, historyVars
  <2>6. ASSUME WorkerWakesSpuriously PROVE Rest'
    BY <1>2, <2>6, SpuriousAssumption DEF WorkerWakesSpuriously, clientVars, flagVars, historyVars
  <2>4. ASSUME DestroyLock \/ DestroyFlag PROVE Rest'
    BY <1>2, <2>4 DEF DestroyLock, DestroyFlag, clientVars, workerVars, flagVars, historyVars
  <2>7. ASSUME DestroyNotify \/ DestroyJoin PROVE Rest'
    BY <1>2, <2>7 DEF DestroyNotify, DestroyJoin, clientVars, workerVars, flagVars, historyVars
  <2>5. ASSUME Constructor PROVE Rest'
    BY <1>2, <2>5 DEF Constructor, StoreSync, StoreExitFlag, clientVars, workerVars, historyVars
  <2>8. ASSUME QueueGone \/ UNCHANGED queueVars PROVE Rest'
    <3>1. UNCHANGED queueVars
      BY <2>8 DEF QueueGone
    <3> QED
      BY <1>2, <3>1 DEF queueVars, clientVars, workerVars, flagVars, historyVars
  <2> QED
    BY <2>1, <2>2, <2>3, <2>4, <2>5, <2>6, <2>7, <2>8 DEF QueueNext
<1> QED
  BY <1>1, <1>3 DEF QueueTypeOK

\* Where a client is, and its argument, changes in the client's own steps only.
LEMMA OthersKeepCalls ==
  ASSUME [QueueNext]_queueVars, \A c \in Clients : ~Client(c)
  PROVE  UNCHANGED <<call, node, issued>>
<1>1. ASSUME Worker \/ WorkerWakesSpuriously PROVE UNCHANGED <<call, node, issued>>
  BY <1>1 DEF Worker, WorkerWakesSpuriously, WorkerLock, WorkerSleep, WorkerExit, WorkerStart,
     WorkerFinish, WorkerRelock, WorkerReport, historyVars, clientVars
<1>2. ASSUME DestroyLock \/ DestroyFlag \/ DestroyNotify \/ DestroyJoin PROVE UNCHANGED <<call, node, issued>>
  BY <1>2 DEF DestroyLock, DestroyFlag, DestroyNotify, DestroyJoin, historyVars, clientVars
<1>3. ASSUME Constructor \/ QueueGone \/ UNCHANGED queueVars PROVE UNCHANGED <<call, node, issued>>
  BY <1>3 DEF Constructor, StoreSync, StoreExitFlag, QueueGone, queueVars, historyVars, clientVars
<1> QED
  BY <1>1, <1>2, <1>3 DEF QueueNext

LEMMA PushedStep == QueueInv /\ [QueueNext]_queueVars => Pushed'
<1> SUFFICES ASSUME QueueInv, [QueueNext]_queueVars, NEW d \in Clients
    PROVE  /\ call'[d] \in {"lock", "push", "flag", "unlock"} => node'[d] \in Tasks
           /\ call'[d] \in {"flag", "unlock"} => tasks' # <<>> /\ tasks'[Len(tasks')] = node'[d]
  BY DEF Pushed
<1>0. /\ call \in [Clients -> {"idle", "lock", "push", "flag", "unlock", "notify", "sync"}]
      /\ node \in [Clients -> Tasks \union {NULL}]
      /\ call[d] \in {"lock", "push", "flag", "unlock"} => node[d] \in Tasks
      /\ call[d] \in {"flag", "unlock"} => tasks # <<>> /\ tasks[Len(tasks)] = node[d]
      /\ \A c \in Clients : call[c] \in {"push", "flag", "unlock"} <=> mutex = c
      /\ wpc = "check" => mutex = "worker" /\ "worker" \notin Clients
  BY MutexAssumption DEF QueueInv, QueueTypeOK, Pushed, Holders, InSection
<1>1. CASE WorkerStart
  BY <1>0, <1>1 DEF WorkerStart, clientVars
<1>2. ASSUME NEW c \in Clients, EnqueuePush(c)
      PROVE  /\ call'[d] \in {"lock", "push", "flag", "unlock"} => node'[d] \in Tasks
             /\ call'[d] \in {"flag", "unlock"} => tasks' # <<>> /\ tasks'[Len(tasks')] = node'[d]
  <2>1. tasks' # <<>> /\ tasks'[Len(tasks')] = node[c]
    BY <1>2, PushMoves
  <2> QED
    BY <1>0, <1>2, <2>1 DEF EnqueuePush
<1>3. CASE ~WorkerStart /\ \A c \in Clients : ~EnqueuePush(c)
  <2>0. UNCHANGED tasks
    BY <1>3, OthersMoveNothing
  <2>1. ASSUME NEW c \in Clients, Client(c)
        PROVE  /\ call'[d] \in {"lock", "push", "flag", "unlock"} => node'[d] \in Tasks
               /\ call'[d] \in {"flag", "unlock"} => call[d] \in {"flag", "unlock"} /\ node'[d] = node[d]
    BY <1>0, <1>3, <2>1 DEF Client, EnqueueCall, EnqueueLock, EnqueueFlag, EnqueueUnlock,
       EnqueueNotify, SyncCall, SyncReturn, SyncSpin, queueVars, clientVars
  <2> QED
    BY <1>0, <2>0, <2>1, OthersKeepCalls
<1> QED
  BY <1>1, <1>2, <1>3

\* What was submitted stays submitted.
LEMMA SubmittedGrows ==
  ASSUME QueueInv, [QueueNext]_queueVars
  PROVE  Submitted \subseteq Submitted'
<1>0. /\ call \in [Clients -> {"idle", "lock", "push", "flag", "unlock", "notify", "sync"}]
      /\ node \in [Clients -> Tasks \union {NULL}] /\ issued \in [Clients -> Seq(Tasks)]
  BY DEF QueueInv, QueueTypeOK
<1>1. ASSUME NEW c \in Clients, EnqueueFlag(c) PROVE Submitted \subseteq Submitted'
  <2>1. /\ call' = [call EXCEPT ![c] = "unlock"] /\ node' = node
        /\ issued' = [issued EXCEPT ![c] = Append(issued[c], node[c])] /\ node[c] \in Tasks
    BY <1>1 DEF EnqueueFlag, QueueInv, Pushed
  <2>2. ToSet(issued'[c]) = ToSet(issued[c]) \union {node[c]}
    <3>1. /\ DOMAIN issued[c] = 1..Len(issued[c])
          /\ DOMAIN Append(issued[c], node[c]) = 1..Len(Append(issued[c], node[c]))
      BY <1>0, <2>1, PushAdds, LenProperties
    <3>2. {Append(issued[c], node[c])[i] : i \in 1..Len(Append(issued[c], node[c]))} =
            {issued[c][i] : i \in 1..Len(issued[c])} \union {node[c]}
      BY <1>0, <2>1, PushAdds
    <3>3. issued'[c] = Append(issued[c], node[c])
      BY <1>0, <2>1
    <3>4. ToSet(issued[c]) = {issued[c][i] : i \in 1..Len(issued[c])}
      BY <3>1 DEF ToSet
    <3>5. ToSet(issued'[c]) = {Append(issued[c], node[c])[i] : i \in 1..Len(Append(issued[c], node[c]))}
      BY <3>1, <3>3 DEF ToSet
    <3> QED
      BY <3>2, <3>4, <3>5
  <2>3. \A d \in Clients : d # c => issued'[d] = issued[d] /\ call'[d] = call[d]
    BY <1>0, <2>1
  <2>4. \A d \in Clients : ToSet(issued[d]) \subseteq ToSet(issued'[d])
    BY <2>2, <2>3
  <2>5. \A d \in Clients : call[d] \in {"lock", "push", "flag"} => node[d] \in Submitted'
    BY <2>1, <2>2, <2>3 DEF Submitted
  <2> QED
    BY <2>4, <2>5 DEF Submitted
<1>2. ASSUME NEW c \in Clients, Client(c), ~EnqueueFlag(c) PROVE Submitted \subseteq Submitted'
  <2>1. /\ UNCHANGED issued
        /\ \A d \in Clients : call[d] \in {"lock", "push", "flag"} =>
             call'[d] \in {"lock", "push", "flag"} /\ node'[d] = node[d]
    BY <1>0, <1>2 DEF Client, EnqueueCall, EnqueueLock, EnqueuePush, EnqueueUnlock,
       EnqueueNotify, SyncCall, SyncReturn, SyncSpin, queueVars, clientVars, historyVars
  <2> QED
    BY <2>1 DEF Submitted
<1>3. CASE \A c \in Clients : ~Client(c)
  BY <1>3, OthersKeepCalls DEF Submitted
<1> QED
  BY <1>1, <1>2, <1>3

LEMMA UniqueStep == QueueInv /\ [QueueNext]_queueVars => Unique'
<1> SUFFICES ASSUME QueueInv, [QueueNext]_queueVars PROVE Unique'
  OBVIOUS
<1>0. /\ Unique
      /\ call \in [Clients -> {"idle", "lock", "push", "flag", "unlock", "notify", "sync"}]
      /\ node \in [Clients -> Tasks \union {NULL}] /\ Len(tasks) \in Nat
  BY LenProperties DEF QueueInv, QueueTypeOK
<1>1. Waits' \union Started' \subseteq Submitted'
  <2>1. CASE WorkerStart
    BY <1>0, <2>1, StartMoves, SubmittedGrows DEF Unique
  <2>2. ASSUME NEW c \in Clients, EnqueuePush(c) PROVE Waits' \union Started' \subseteq Submitted'
    <3>1. node[c] \in Submitted
      BY <2>2 DEF EnqueuePush, Submitted
    <3> QED
      BY <1>0, <2>2, <3>1, PushMoves, SubmittedGrows DEF Unique
  <2> QED
    BY <1>0, <2>1, <2>2, OthersMoveNothing, SubmittedGrows DEF Unique
<1>2. ASSUME NEW i \in 1..Len(tasks'), NEW j \in 1..Len(tasks'), tasks'[i] = tasks'[j] PROVE i = j
  <2>1. CASE WorkerStart
    <3>1. /\ i + 1 \in 1..Len(tasks) /\ j + 1 \in 1..Len(tasks)
          /\ tasks[i + 1] = tasks[j + 1]
      BY <1>2, <2>1, StartMoves
    <3>2. i + 1 = j + 1
      BY <1>0, <3>1 DEF Unique
    <3> QED
      BY <3>2
  <2>2. ASSUME NEW c \in Clients, EnqueuePush(c) PROVE i = j
    <3>1. /\ Len(tasks') = Len(tasks) + 1 /\ \A k \in 1..Len(tasks) : tasks'[k] = tasks[k]
          /\ tasks'[Len(tasks) + 1] = node[c]
      BY <2>2, PushMoves
    <3>2. \A k \in 1..Len(tasks) : tasks[k] # node[c]
      BY <1>0, <2>2 DEF Unique, EnqueuePush, Waits
    <3>3. \A k \in 1..Len(tasks') : k \in 1..Len(tasks) \/ k = Len(tasks) + 1
      BY <1>0, <3>1
    <3> QED
      BY <1>0, <1>2, <3>1, <3>2, <3>3 DEF Unique
  <2> QED
    BY <1>0, <1>2, <2>1, <2>2, OthersMoveNothing DEF Unique
<1>3. Waits' \cap Started' = {}
  <2>1. CASE WorkerStart
    BY <1>0, <2>1, StartMoves DEF Unique
  <2>2. ASSUME NEW c \in Clients, EnqueuePush(c) PROVE Waits' \cap Started' = {}
    <3>1. node[c] \notin Started /\ Waits \cap Started = {}
      BY <1>0, <2>2 DEF Unique, EnqueuePush
    <3>2. Waits' = Waits \union {node[c]} /\ Started' = Started
      BY <2>2, PushMoves
    <3> QED
      BY <3>1, <3>2
  <2> QED
    BY <1>0, <2>1, <2>2, OthersMoveNothing DEF Unique
<1>4. ASSUME NEW d \in Clients, call'[d] \in {"lock", "push"}
      PROVE  node'[d] \notin Waits' \union Started'
  <2>1. CASE WorkerStart
    BY <1>0, <1>4, <2>1, StartMoves DEF Unique, WorkerStart, clientVars
  <2>2. ASSUME NEW c \in Clients, EnqueuePush(c) PROVE node'[d] \notin Waits' \union Started'
    <3>1. d # c /\ call[d] \in {"lock", "push"} /\ node' = node /\ call[c] = "push"
      BY <1>0, <1>4, <2>2 DEF EnqueuePush
    <3>2. node[d] # node[c]
      BY <1>0, <3>1 DEF Unique
    <3> QED
      BY <1>0, <2>2, <3>1, <3>2, PushMoves DEF Unique
  <2>3. CASE ~WorkerStart /\ \A c \in Clients : ~EnqueuePush(c)
    <3>0. Waits' = Waits /\ Started' = Started
      BY <2>3, OthersMoveNothing
    <3>1. ASSUME NEW c \in Clients, Client(c)
          PROVE  \/ call[d] \in {"lock", "push"} /\ node'[d] = node[d]
                 \/ node'[d] \notin Submitted
      BY <1>0, <1>4, <2>3, <3>1 DEF Client, EnqueueCall, EnqueueLock, EnqueueFlag, EnqueueUnlock,
         EnqueueNotify, SyncCall, SyncReturn, SyncSpin, queueVars, clientVars
    <3> QED
      BY <1>0, <1>4, <3>0, <3>1, OthersKeepCalls DEF Unique
  <2> QED
    BY <2>1, <2>2, <2>3
<1>5. ASSUME NEW c \in Clients, NEW d \in Clients, call'[c] \in {"lock", "push"},
             call'[d] \in {"lock", "push"}, node'[c] = node'[d]
      PROVE  c = d
  <2>1. ASSUME NEW b \in Clients, NEW t \in Tasks, EnqueueCall(b, t) PROVE c = d
    <3>1. \A e \in Clients : e # b /\ call'[e] \in {"lock", "push"} =>
             call[e] \in {"lock", "push"} /\ node'[e] = node[e] /\ node[e] \in Submitted
      BY <1>0, <2>1 DEF EnqueueCall, Submitted
    <3>2. node'[b] = t /\ t \notin Submitted
      BY <1>0, <2>1 DEF EnqueueCall
    <3> QED
      BY <1>0, <1>5, <3>1, <3>2 DEF Unique
  <2>2. ASSUME NEW b \in Clients, Client(b), \A t \in Tasks : ~EnqueueCall(b, t)
        PROVE  node' = node /\ \A e \in Clients : call'[e] \in {"lock", "push"} => call[e] \in {"lock", "push"}
    BY <1>0, <2>2 DEF Client, EnqueueLock, EnqueuePush, EnqueueFlag, EnqueueUnlock,
       EnqueueNotify, SyncCall, SyncReturn, SyncSpin, queueVars, clientVars
  <2> QED
    BY <1>0, <1>5, <2>1, <2>2, OthersKeepCalls DEF Unique
<1>6. /\ \A c \in Clients : call'[c] \in {"lock", "push"} => node'[c] \notin Waits' \union Started'
      /\ \A c, d \in Clients :
           {call'[c], call'[d]} \subseteq {"lock", "push"} /\ node'[c] = node'[d] => c = d
  BY <1>4, <1>5
<1> QED
  BY <1>1, <1>2, <1>3, <1>6 DEF Unique

LEMMA RunsStartedStep == QueueInv /\ [QueueNext]_queueVars => RunsStarted'
<1> SUFFICES ASSUME QueueInv, [QueueNext]_queueVars PROVE RunsStarted'
  OBVIOUS
<1>1. CASE WorkerStart
  BY <1>1, StartMoves DEF RunsStarted
<1>2. ASSUME NEW c \in Clients, Client(c)
      PROVE  task' = task /\ (wpc' = "busy" => wpc = "busy") /\ (EnqueuePush(c) \/ ~WorkerStart)
  BY <1>2 DEF Client, EnqueueCall, EnqueueLock, EnqueuePush, EnqueueFlag, EnqueueUnlock,
     EnqueueNotify, SyncCall, SyncReturn, SyncSpin, queueVars, workerVars, WorkerStart
<1>3. ASSUME Worker \/ WorkerWakesSpuriously, ~WorkerStart PROVE wpc' # "busy"
  BY <1>3 DEF Worker, WorkerWakesSpuriously, WorkerLock, WorkerSleep, WorkerExit,
     WorkerFinish, WorkerRelock, WorkerReport
<1>4. ASSUME \/ DestroyLock \/ DestroyFlag \/ DestroyNotify \/ DestroyJoin
             \/ Constructor \/ QueueGone \/ UNCHANGED queueVars
      PROVE  task' = task /\ (wpc' = "busy" => wpc = "busy")
  BY <1>4 DEF DestroyLock, DestroyFlag, DestroyNotify, DestroyJoin, Constructor, StoreSync,
     StoreExitFlag, QueueGone, queueVars, workerVars
<1>5. ~WorkerStart => wpc' # "busy" \/ (task' = task /\ wpc = "busy")
  BY <1>2, <1>3, <1>4 DEF QueueNext
<1>6. ~WorkerStart => Started' = Started
  BY PushMoves, OthersMoveNothing
<1> QED
  BY <1>1, <1>5, <1>6 DEF RunsStarted, QueueInv

LEMMA FlagStep == QueueInv /\ [QueueNext]_queueVars => FlagHonest'
<1> SUFFICES ASSUME QueueInv, [QueueNext]_queueVars PROVE FlagHonest'
  OBVIOUS
<1>0. /\ FlagHonest /\ tasks \in Seq(Tasks) /\ Len(tasks) \in Nat
      /\ call \in [Clients -> {"idle", "lock", "push", "flag", "unlock", "notify", "sync"}]
      /\ \A c \in Clients : call[c] \in {"push", "flag", "unlock"} <=> mutex = c
      /\ \A c \in Clients : call[c] # "idle" => cpc = "done"
      /\ wpc \in {"check", "report", "exited"} <=> mutex = "worker"
      /\ "worker" \notin Clients
  BY MutexAssumption, LenProperties DEF QueueInv, QueueTypeOK, Holders, InSection, Lifetime, Usable
<1>1. ASSUME NEW c \in Clients, EnqueuePush(c) PROVE FlagHonest'
  <2>1. Len(tasks') = Len(tasks) + 1
    BY <1>1, PushMoves
  <2>2. /\ call[c] = "push" /\ call' = [call EXCEPT ![c] = "flag"] /\ mutex = c
        /\ UNCHANGED <<wpc, sync_flag, cpc>>
    BY <1>0, <1>1 DEF EnqueuePush, workerVars, flagVars
  <2>3. (sync_flag \/ cpc # "done") => tasks = <<>>
    BY <1>0, <2>2 DEF FlagHonest
  <2>4. tasks = <<>> => Len(tasks) = 0
    OBVIOUS
  <2>5. call'[c] = "flag" /\ \A d \in Clients : call'[d] = "unlock" => call[d] = "unlock"
    BY <1>0, <2>2
  <2> QED
    BY <1>0, <2>1, <2>2, <2>3, <2>4, <2>5 DEF FlagHonest
<1>2. ASSUME WorkerStart PROVE FlagHonest'
  <2>1. UNCHANGED <<sync_flag, cpc>> /\ tasks # <<>> /\ mutex = "worker"
    BY <1>0, <1>2 DEF WorkerStart, flagVars
  <2>2. ~sync_flag /\ cpc = "done"
    BY <1>0, <2>1 DEF FlagHonest
  <2> QED
    BY <2>1, <2>2 DEF FlagHonest
<1>3. ASSUME NEW c \in Clients, Client(c), ~EnqueuePush(c), UNCHANGED tasks PROVE FlagHonest'
  <2>1. ASSUME EnqueueFlag(c) PROVE FlagHonest'
    BY <1>0, <2>1 DEF EnqueueFlag, FlagHonest
  <2>2. ASSUME EnqueueUnlock(c) PROVE FlagHonest'
    <3>1. call[c] = "unlock" /\ UNCHANGED <<sync_flag, cpc>>
      BY <2>2 DEF EnqueueUnlock, flagVars
    <3> QED
      BY <1>0, <3>1 DEF FlagHonest
  <2>3. ASSUME \/ \E t \in Tasks : EnqueueCall(c, t)
               \/ EnqueueLock(c) \/ EnqueueNotify(c) \/ SyncCall(c) \/ SyncReturn(c) \/ SyncSpin(c)
        PROVE  /\ UNCHANGED <<sync_flag, cpc>> /\ (wpc' = "busy" => wpc = "busy")
               /\ \A d \in Clients : /\ call'[d] = "unlock" => call[d] = "unlock"
                                     /\ call[d] = "flag" => call'[d] = "flag"
    BY <1>0, <2>3 DEF EnqueueCall, EnqueueLock, EnqueueNotify, SyncCall, SyncReturn, SyncSpin,
       queueVars, clientVars, flagVars, workerVars
  <2> QED
    BY <1>0, <1>3, <2>1, <2>2, <2>3 DEF Client, FlagHonest
<1>4. ASSUME Worker \/ WorkerWakesSpuriously, ~WorkerStart, UNCHANGED tasks PROVE FlagHonest'
  <2>1. ASSUME WorkerReport PROVE FlagHonest'
    BY <1>0, <1>4, <2>1 DEF WorkerReport, FlagHonest, clientVars
  <2>2. ASSUME ~WorkerReport PROVE wpc' # "busy" /\ UNCHANGED <<sync_flag, cpc, call>>
    BY <1>4, <2>2 DEF Worker, WorkerWakesSpuriously, WorkerLock, WorkerSleep, WorkerExit,
       WorkerFinish, WorkerRelock, flagVars, clientVars
  <2> QED
    BY <1>0, <1>4, <2>1, <2>2 DEF FlagHonest
<1>5. ASSUME \/ DestroyLock \/ DestroyFlag \/ DestroyNotify \/ DestroyJoin
             \/ Constructor \/ QueueGone \/ UNCHANGED queueVars, UNCHANGED tasks
      PROVE  FlagHonest'
  <2>1. /\ (sync_flag' \/ cpc' # "done") => (sync_flag \/ cpc # "done")
        /\ UNCHANGED call /\ (wpc' = "busy" => wpc = "busy")
    BY <1>5 DEF DestroyLock, DestroyFlag, DestroyNotify, DestroyJoin, Constructor, StoreSync,
       StoreExitFlag, QueueGone, queueVars, workerVars, clientVars, flagVars
  <2> QED
    BY <1>0, <1>5, <2>1 DEF FlagHonest
<1>6. ~WorkerStart /\ (\A c \in Clients : ~EnqueuePush(c)) => UNCHANGED tasks
  BY OthersMoveNothing
<1>7. ASSUME ~WorkerStart, \A c \in Clients : ~EnqueuePush(c) PROVE FlagHonest'
  BY <1>3, <1>4, <1>5, <1>6, <1>7 DEF QueueNext
<1> QED
  BY <1>1, <1>2, <1>7

(* The inductive invariant of the task queue of kt-sft. *)
LEMMA QueueInvariance == QueueSpec => []QueueInv
<1>1. QueueInv /\ [QueueNext]_queueVars => QueueInv'
  BY HoldersStep, LifetimeStep, QueueTypeStep, PushedStep, UniqueStep, RunsStartedStep, FlagStep
     DEF QueueInv
<1> QED
  BY <1>1, QueueInitially, PTL DEF QueueSpec

(* Every variable of the queue keeps its type, for any clients and tasks.  *)
THEOREM QueueTypeCorrect == QueueSpec => []QueueTypeOK
<1>1. QueueInv => QueueTypeOK
  BY DEF QueueInv
<1> QED
  BY <1>1, QueueInvariance, PTL

-----------------------------------------------------------------------------
(* The queue implements FifoExecutor *)

LEMMA CompletedIs ==
  ASSUME QueueInv
  PROVE  ToSet(ran) = Started /\ Completed = Started \ (IF wpc = "busy" THEN {task} ELSE {})
<1>1. DOMAIN ran = 1..Len(ran)
  BY LenProperties DEF QueueInv, QueueTypeOK
<1> QED
  BY <1>1 DEF Completed, ToSet, Started

\* A task has its place before it is announced only while its client holds the mutex.
LEMMA PlacesAre ==
  ASSUME QueueInv
  PROVE  /\ mutex \notin Clients => ~Placing /\ InOrder = tasks
         /\ \A c \in Clients : call[c] \in {"flag", "unlock"} =>
              /\ InOrder = Front(tasks) /\ mutex = c
              /\ \A d \in Clients \ {c} : call[d] \notin {"push", "flag", "unlock"}
BY DEF QueueInv, Holders, InSection, Placing, InOrder

\* What the executor sees of clients that are neither at an unlock nor in a sync.
LEMMA ClientsLookTheSame ==
  ASSUME \A c \in Clients : call[c] = "unlock" <=> call'[c] = "unlock",
         \A c \in Clients : call[c] = "sync" <=> call'[c] = "sync",
         \A c \in Clients : call[c] = "unlock" => node'[c] = node[c]
  PROVE  UNCHANGED <<Unplaced, Blocked>>
BY DEF Unplaced, Blocked

LEMMA OrderLooksTheSame ==
  ASSUME \A c \in Clients : call[c] \in {"flag", "unlock"} <=> call'[c] \in {"flag", "unlock"},
         UNCHANGED tasks
  PROVE  UNCHANGED InOrder
<1>1. Placing' <=> Placing
  BY DEF Placing
<1> QED
  BY <1>1 DEF InOrder

LEMMA WorkerLooksTheSame ==
  ASSUME UNCHANGED ran, UNCHANGED task \/ wpc # "busy", wpc = "busy" <=> wpc' = "busy"
  PROVE  UNCHANGED <<Current, Completed>>
BY DEF Current, Completed

LEMMA PhaseLooksTheSame ==
  ASSUME dpc \in {"alive", "flag"} <=> dpc' \in {"alive", "flag"},
         dpc \notin {"alive", "flag"} => (wpc = "exited" <=> wpc' = "exited")
  PROVE  UNCHANGED Phase
BY DEF Phase

LEMMA EnqueueMaps ==
  ASSUME QueueInv, NEW c \in Clients
  PROVE  /\ EnqueueFlag(c) => Executor!Announce(c, node[c]) /\ node[c] \in Tasks
         /\ EnqueueUnlock(c) => Executor!Commit(c)
         /\ EnqueuePush(c) => UNCHANGED Executor!vars
<1>0. /\ call \in [Clients -> {"idle", "lock", "push", "flag", "unlock", "notify", "sync"}]
      /\ node \in [Clients -> Tasks \union {NULL}] /\ tasks \in Seq(Tasks) /\ NULL \notin Tasks
      /\ call[c] \in {"flag", "unlock"} => node[c] \in Tasks /\ tasks # <<>> /\ tasks[Len(tasks)] = node[c]
      /\ call[c] # "idle" => dpc = "alive"
  BY NullAssumption DEF QueueInv, QueueTypeOK, Pushed, Lifetime, Usable
<1>1. ASSUME EnqueueFlag(c) PROVE Executor!Announce(c, node[c]) /\ node[c] \in Tasks
  <2>0. /\ call[c] = "flag" /\ call' = [call EXCEPT ![c] = "unlock"]
        /\ UNCHANGED <<node, tasks, wpc, task, dpc, ran>>
    BY <1>1 DEF EnqueueFlag, workerVars
  <2>1. \A d \in Clients : call[d] # "unlock"
    BY <2>0, PlacesAre
  <2>2. /\ Unplaced' = [Unplaced EXCEPT ![c] = node[c]] /\ UNCHANGED Blocked
        /\ Executor!Announced = {}
    BY <1>0, <2>0, <2>1 DEF Unplaced, Blocked, Executor!Announced
  <2>3. UNCHANGED <<InOrder, Current, Completed, Phase>>
    BY <1>0, <2>0, OrderLooksTheSame, WorkerLooksTheSame, PhaseLooksTheSame
  <2>4. Executor!Idle(c) /\ Phase = "open"
    BY <1>0, <2>0 DEF Executor!Idle, Unplaced, Blocked, Phase
  <2>5. node[c] \in Waits
    <3>1. Len(tasks) \in 1..Len(tasks)
      BY <1>0, <2>0, EmptySeq
    <3> QED
      BY <1>0, <2>0, <3>1 DEF Waits
  <2>6. node[c] \notin Started
    BY <2>5 DEF QueueInv, Unique
  <2>7. node[c] \notin Executor!Running /\ node[c] \notin Completed
    <3>1. wpc = "busy" => task \in Started
      BY DEF QueueInv, RunsStarted
    <3> QED
      BY <1>0, <2>0, <2>6, <3>1, CompletedIs DEF Executor!Running, Current
  <2>8. node[c] \notin Executor!Queued
    <3>1. InOrder = Front(tasks)
      BY <2>0, PlacesAre
    <3>2. /\ Len(tasks) \in Nat \ {0} /\ Len(Front(tasks)) = Len(tasks) - 1
          /\ \A i \in 1..Len(Front(tasks)) : Front(tasks)[i] = tasks[i]
      BY <1>0, <2>0, FrontLeaves, EmptySeq
    <3>3. ASSUME NEW i \in 1..Len(Front(tasks)) PROVE Front(tasks)[i] # node[c]
      <4>1. i \in 1..Len(tasks) /\ Len(tasks) \in 1..Len(tasks) /\ i # Len(tasks)
        BY <3>2
      <4> QED
        BY <1>0, <2>0, <3>2, <4>1 DEF QueueInv, Unique
    <3> QED
      BY <3>1, <3>3 DEF Executor!Queued
  <2> QED
    BY <1>0, <2>0, <2>2, <2>3, <2>4, <2>7, <2>8 DEF Executor!Announce, Executor!Unfinished
<1>2. ASSUME EnqueueUnlock(c) PROVE Executor!Commit(c)
  <2>0. /\ call[c] = "unlock" /\ call' = [call EXCEPT ![c] = "notify"]
        /\ UNCHANGED <<node, tasks, wpc, task, dpc, ran>>
    BY <1>2 DEF EnqueueUnlock, workerVars, historyVars
  <2>1. \A d \in Clients \ {c} : call[d] \notin {"flag", "unlock"}
    BY <2>0, PlacesAre
  <2>2. /\ Unplaced' = [Unplaced EXCEPT ![c] = NULL] /\ UNCHANGED Blocked
        /\ Unplaced[c] = node[c] /\ node[c] # NULL
    BY <1>0, <2>0 DEF Unplaced, Blocked
  <2>3. UNCHANGED <<Current, Completed, Phase>>
    BY <2>0, WorkerLooksTheSame, PhaseLooksTheSame
  <2>4. InOrder' = Append(InOrder, node[c])
    <3>1. ~Placing'
      BY <1>0, <2>0, <2>1 DEF Placing
    <3>2. InOrder' = tasks /\ InOrder = Front(tasks)
      BY <2>0, <3>1, PlacesAre DEF InOrder
    <3> QED
      BY <1>0, <2>0, <3>2, FrontLeaves
  <2> QED
    BY <2>2, <2>3, <2>4 DEF Executor!Commit
<1>3. ASSUME EnqueuePush(c) PROVE UNCHANGED Executor!vars
  <2>0. /\ call[c] = "push" /\ call' = [call EXCEPT ![c] = "flag"]
        /\ tasks' = Append(tasks, node[c]) /\ UNCHANGED <<node, wpc, task, dpc, ran>>
    BY <1>3 DEF EnqueuePush, workerVars, historyVars
  <2>1. UNCHANGED <<Unplaced, Blocked>>
    BY <1>0, <2>0, ClientsLookTheSame
  <2>2. UNCHANGED <<Current, Completed, Phase>>
    BY <2>0, WorkerLooksTheSame, PhaseLooksTheSame
  <2>3. InOrder' = Front(tasks') /\ InOrder = tasks
    <3>1. Placing'
      BY <1>0, <2>0 DEF Placing
    <3>2. ~Placing
      BY <2>0 DEF QueueInv, Holders, InSection, Placing
    <3> QED
      BY <3>1, <3>2 DEF InOrder
  <2>4. node[c] \in Tasks
    BY <2>0 DEF QueueInv, Pushed
  <2>5. InOrder' = InOrder
    BY <1>0, <2>0, <2>3, <2>4, FrontOfPush
  <2> QED
    BY <2>1, <2>2, <2>5 DEF Executor!vars
<1> QED
  BY <1>1, <1>2, <1>3

LEMMA QueueSyncMaps ==
  ASSUME QueueInv, NEW c \in Clients
  PROVE  /\ SyncCall(c) => Executor!Wait(c, 0)
         /\ SyncReturn(c) => Executor!GoOn(c)
<1>0. /\ call \in [Clients -> {"idle", "lock", "push", "flag", "unlock", "notify", "sync"}]
      /\ call[c] # "idle" => dpc = "alive" /\ cpc = "done"
      /\ NULL # 0
  BY NullAssumption DEF QueueInv, QueueTypeOK, Lifetime, Usable
<1>1. ASSUME SyncCall(c) PROVE Executor!Wait(c, 0)
  <2>0. /\ call[c] = "idle" /\ call' = [call EXCEPT ![c] = "sync"] /\ dpc = "alive"
        /\ UNCHANGED <<node, tasks, wpc, task, dpc, ran>>
    BY <1>1 DEF SyncCall, Usable, workerVars, historyVars
  <2>1. /\ UNCHANGED Unplaced /\ Blocked' = [Blocked EXCEPT ![c] = 0] /\ Executor!Idle(c)
    BY <1>0, <2>0 DEF Unplaced, Blocked, Executor!Idle
  <2>2. UNCHANGED <<InOrder, Current, Completed, Phase>>
    BY <1>0, <2>0, OrderLooksTheSame, WorkerLooksTheSame, PhaseLooksTheSame
  <2>3. Phase = "open"
    BY <2>0 DEF Phase
  <2> QED
    BY <2>1, <2>2, <2>3 DEF Executor!Wait
<1>2. ASSUME SyncReturn(c) PROVE Executor!GoOn(c)
  <2>0. /\ call[c] = "sync" /\ call' = [call EXCEPT ![c] = "idle"] /\ sync_flag
        /\ UNCHANGED <<node, tasks, wpc, task, dpc, ran>>
    BY <1>2 DEF SyncReturn, workerVars, historyVars
  <2>1. /\ UNCHANGED Unplaced /\ Blocked' = [Blocked EXCEPT ![c] = NULL] /\ Blocked[c] = 0
    BY <1>0, <2>0 DEF Unplaced, Blocked
  <2>2. UNCHANGED <<InOrder, Current, Completed, Phase>>
    BY <1>0, <2>0, OrderLooksTheSame, WorkerLooksTheSame, PhaseLooksTheSame
  <2>3. /\ wpc # "busy" /\ \A d \in Clients : call[d] # "unlock"
        /\ tasks = <<>> \/ (Len(tasks) = 1 /\ \E d \in Clients : call[d] = "flag")
    BY <2>0 DEF QueueInv, FlagHonest
  <2>4. Executor!Announced = {} /\ Executor!Running = {}
    BY <2>3 DEF Executor!Announced, Executor!Running, Unplaced, Current
  <2>5. Len(InOrder) = 0
    <3>0. tasks \in Seq(Tasks)
      BY DEF QueueInv, QueueTypeOK
    <3>1. CASE tasks = <<>>
      <4>1. \A d \in Clients : call[d] # "flag"
        BY <3>1 DEF QueueInv, Pushed
      <4> QED
        BY <2>3, <3>1, <4>1 DEF InOrder, Placing
    <3>2. ASSUME Len(tasks) = 1, NEW d \in Clients, call[d] = "flag" PROVE Len(InOrder) = 0
      <4>1. InOrder = Front(tasks) /\ tasks # <<>>
        BY <3>2, PlacesAre DEF QueueInv, Pushed
      <4> QED
        BY <3>0, <3>2, <4>1, FrontLeaves
    <3> QED
      BY <2>3, <3>1, <3>2
  <2>6. Executor!Unfinished = {}
    BY <2>4, <2>5 DEF Executor!Unfinished, Executor!Queued
  <2>7. Executor!Cardinality(Executor!Unfinished) = 0
    <3>1. Executor!Cardinality(Executor!Unfinished) = Cardinality(Executor!Unfinished)
      BY DEF Executor!Cardinality, Cardinality, Executor!IsFiniteSet, IsFiniteSet
    <3> QED
      BY <2>6, <3>1, FS_EmptySet
  <2> QED
    BY <1>0, <2>1, <2>2, <2>7 DEF Executor!GoOn
<1> QED
  BY <1>1, <1>2

LEMMA WorkerMaps ==
  ASSUME QueueInv
  PROVE  /\ WorkerStart => Executor!Start
         /\ WorkerFinish => Executor!Finish
         /\ WorkerExit => Executor!Closed \/ UNCHANGED Executor!vars
<1>0. /\ wpc = "check" => ~Placing /\ InOrder = tasks
      /\ NULL \notin Tasks
  <2>1. wpc = "check" => mutex \notin Clients
    BY MutexAssumption DEF QueueInv, Holders
  <2> QED
    BY <2>1, PlacesAre, NullAssumption
<1>1. ASSUME WorkerStart PROVE Executor!Start
  <2>0. /\ wpc = "check" /\ wpc' = "busy" /\ tasks # <<>> /\ tasks' = Tail(tasks)
        /\ task' = Head(tasks) /\ UNCHANGED <<call, node, dpc>>
    BY <1>1 DEF WorkerStart, clientVars
  <2>1. UNCHANGED <<Unplaced, Blocked>> /\ (Placing' <=> Placing)
    BY <2>0, ClientsLookTheSame DEF Placing
  <2>2. InOrder' = Tail(InOrder) /\ Current' = Head(InOrder) /\ InOrder # <<>> /\ Current = NULL
    BY <1>0, <2>0, <2>1 DEF InOrder, Current
  <2>3. UNCHANGED Phase /\ Phase # "closed"
    BY <2>0 DEF Phase
  <2>4. UNCHANGED Completed
    <3>1. Started' = Started \union {task'} /\ task' \notin Started /\ ran' \in Seq(Tasks)
      BY <1>1, StartMoves DEF QueueInv, Unique
    <3>2. DOMAIN ran' = 1..Len(ran')
      BY <3>1, LenProperties
    <3>3. Completed' = Started' \ {task'}
      BY <2>0, <3>2 DEF Completed, ToSet, Started
    <3>4. Completed = Started
      BY <2>0, CompletedIs
    <3> QED
      BY <3>1, <3>3, <3>4
  <2> QED
    BY <2>1, <2>2, <2>3, <2>4 DEF Executor!Start
<1>2. ASSUME WorkerFinish PROVE Executor!Finish
  <2>0. /\ wpc = "busy" /\ wpc' = "relock" /\ UNCHANGED <<tasks, call, node, task, dpc, ran>>
    BY <1>2 DEF WorkerFinish, clientVars, historyVars
  <2>1. UNCHANGED <<Unplaced, Blocked, InOrder, Phase>>
    BY <2>0, ClientsLookTheSame, OrderLooksTheSame, PhaseLooksTheSame
  <2>2. task \in Tasks /\ task \in ToSet(ran)
    BY <2>0, CompletedIs DEF QueueInv, RunsStarted
  <2>3. Current = task /\ Current' = NULL /\ Completed' = Completed \union {task}
    BY <2>0, <2>2 DEF Current, Completed
  <2> QED
    BY <1>0, <2>1, <2>2, <2>3 DEF Executor!Finish
<1>3. ASSUME WorkerExit PROVE Executor!Closed \/ UNCHANGED Executor!vars
  <2>0. /\ wpc = "check" /\ wpc' = "exited" /\ UNCHANGED <<tasks, call, node, task, dpc, ran>>
    BY <1>3 DEF WorkerExit, clientVars, historyVars
  <2>1. UNCHANGED <<Unplaced, Blocked, InOrder, Current, Completed>> /\ Current = NULL
    BY <2>0, ClientsLookTheSame, OrderLooksTheSame, WorkerLooksTheSame DEF Current
  <2>2. UNCHANGED Phase \/ (Phase = "closing" /\ Phase' = "closed")
    BY <2>0 DEF Phase
  <2> QED
    BY <2>1, <2>2 DEF Executor!Closed, Executor!vars
<1> QED
  BY <1>1, <1>2, <1>3

LEMMA DestructorMaps ==
  ASSUME QueueInv
  PROVE  /\ DestroyFlag => Executor!Close
         /\ DestroyLock \/ DestroyNotify \/ DestroyJoin => UNCHANGED Executor!vars
<1>1. ASSUME DestroyFlag PROVE Executor!Close
  <2>0. /\ dpc = "flag" /\ dpc' = "notify" /\ UNCHANGED <<tasks, call, node, wpc, task, ran>>
    BY <1>1 DEF DestroyFlag, clientVars, workerVars, historyVars
  <2>1. UNCHANGED <<Unplaced, Blocked, InOrder, Current, Completed>>
    BY <2>0, ClientsLookTheSame, OrderLooksTheSame, WorkerLooksTheSame
  <2>2. wpc # "exited" /\ \A c \in Clients : call[c] = "idle"
    <3>1. mutex = "destructor" /\ (wpc = "exited" => mutex = "worker")
      BY <2>0 DEF QueueInv, Holders
    <3>2. \A c \in Clients : call[c] # "idle" => dpc = "alive"
      BY DEF QueueInv, Lifetime, Usable
    <3> QED
      BY <2>0, <3>1, <3>2
  <2>3. Phase = "open" /\ Phase' = "closing"
    BY <2>0, <2>2 DEF Phase
  <2>4. \A c \in Clients : Executor!Idle(c)
    BY <2>2 DEF Executor!Idle, Unplaced, Blocked
  <2> QED
    BY <2>1, <2>3, <2>4 DEF Executor!Close
<1>2. ASSUME DestroyLock \/ DestroyNotify \/ DestroyJoin PROVE UNCHANGED Executor!vars
  <2>0. /\ UNCHANGED <<tasks, call, node, task, ran>> /\ (wpc = "busy" <=> wpc' = "busy")
        /\ (wpc = "exited" <=> wpc' = "exited")
        /\ dpc \in {"alive", "flag"} <=> dpc' \in {"alive", "flag"}
    BY <1>2 DEF DestroyLock, DestroyNotify, DestroyJoin, Usable, clientVars, workerVars, historyVars
  <2>1. UNCHANGED <<Unplaced, Blocked, InOrder, Current, Completed, Phase>>
    BY <2>0, ClientsLookTheSame, OrderLooksTheSame, WorkerLooksTheSame, PhaseLooksTheSame
  <2> QED
    BY <2>1 DEF Executor!vars
<1> QED
  BY <1>1, <1>2

\* The steps of the code the executor does not see.
LEMMA QueueHiddenSteps ==
  ASSUME QueueInv,
         \/ \E c \in Clients : \/ \E t \in Tasks : EnqueueCall(c, t)
                               \/ EnqueueLock(c) \/ EnqueueNotify(c) \/ SyncSpin(c)
         \/ WorkerLock \/ WorkerSleep \/ WorkerRelock \/ WorkerReport \/ WorkerWakesSpuriously
         \/ Constructor \/ QueueGone \/ UNCHANGED queueVars
  PROVE  UNCHANGED Executor!vars
<1>0. call \in [Clients -> {"idle", "lock", "push", "flag", "unlock", "notify", "sync"}]
      /\ node \in [Clients -> Tasks \union {NULL}]
  BY DEF QueueInv, QueueTypeOK
<1> DEFINE Same ==
      /\ \A c \in Clients : call[c] = "unlock" <=> call'[c] = "unlock"
      /\ \A c \in Clients : call[c] = "sync" <=> call'[c] = "sync"
      /\ \A c \in Clients : call[c] \in {"flag", "unlock"} <=> call'[c] \in {"flag", "unlock"}
      /\ \A c \in Clients : call[c] = "unlock" => node'[c] = node[c]
      /\ wpc = "busy" <=> wpc' = "busy"
      /\ wpc = "exited" <=> wpc' = "exited"
      /\ UNCHANGED <<tasks, task, dpc, ran>>
<1>1. ASSUME NEW c \in Clients,
             \/ \E t \in Tasks : EnqueueCall(c, t)
             \/ EnqueueLock(c) \/ EnqueueNotify(c) \/ SyncSpin(c)
      PROVE  Same
  BY <1>0, <1>1 DEF EnqueueCall, EnqueueLock, EnqueueNotify, SyncSpin, queueVars, clientVars,
     workerVars, historyVars
<1>2. ASSUME WorkerLock \/ WorkerSleep \/ WorkerRelock \/ WorkerReport \/ WorkerWakesSpuriously
      PROVE  Same
  BY <1>2 DEF WorkerLock, WorkerSleep, WorkerRelock, WorkerReport, WorkerWakesSpuriously,
     clientVars, historyVars
<1>3. ASSUME Constructor \/ QueueGone \/ UNCHANGED queueVars PROVE Same
  BY <1>3 DEF Constructor, StoreSync, StoreExitFlag, QueueGone, queueVars, clientVars, workerVars,
     historyVars
<1>4. Same
  BY <1>1, <1>2, <1>3
<1>5. UNCHANGED <<Unplaced, Blocked, InOrder, Current, Completed, Phase>>
  BY <1>4, ClientsLookTheSame, OrderLooksTheSame, WorkerLooksTheSame, PhaseLooksTheSame
<1> QED
  BY <1>5 DEF Executor!vars

LEMMA QueueInitMaps == QueueInit => Executor!Init
<1> SUFFICES ASSUME QueueInit PROVE Executor!Init
  OBVIOUS
<1>1. ~Placing
  BY DEF QueueInit, Placing
<1> QED
  BY <1>1 DEF QueueInit, Executor!Init, Unplaced, InOrder, Current, Completed, ToSet, Blocked, Phase

LEMMA QueueStepMaps == QueueInv /\ [QueueNext]_queueVars => [Executor!Next]_(Executor!vars)
<1> SUFFICES ASSUME QueueInv, [QueueNext]_queueVars PROVE Executor!Next \/ UNCHANGED Executor!vars
  OBVIOUS
<1>1. ASSUME NEW c \in Clients, Client(c) PROVE Executor!Next \/ UNCHANGED Executor!vars
  <2>1. EnqueueFlag(c) \/ EnqueueUnlock(c) => Executor!Next
    BY EnqueueMaps DEF Executor!Next
  <2>2. SyncCall(c) \/ SyncReturn(c) => Executor!Next
    BY QueueSyncMaps DEF Executor!Next
  <2> QED
    BY <1>1, <2>1, <2>2, EnqueueMaps, QueueHiddenSteps DEF Client
<1>2. ASSUME Worker \/ WorkerWakesSpuriously PROVE Executor!Next \/ UNCHANGED Executor!vars
  <2>1. WorkerStart \/ WorkerFinish => Executor!Next
    BY WorkerMaps DEF Executor!Next
  <2>2. WorkerExit => Executor!Next \/ UNCHANGED Executor!vars
    BY WorkerMaps DEF Executor!Next
  <2> QED
    BY <1>2, <2>1, <2>2, QueueHiddenSteps DEF Worker
<1>3. ASSUME DestroyLock \/ DestroyFlag \/ DestroyNotify \/ DestroyJoin
      PROVE  Executor!Next \/ UNCHANGED Executor!vars
  BY <1>3, DestructorMaps DEF Executor!Next
<1>4. ASSUME Constructor \/ QueueGone \/ UNCHANGED queueVars PROVE UNCHANGED Executor!vars
  BY <1>4, QueueHiddenSteps
<1> QED
  BY <1>1, <1>2, <1>3, <1>4 DEF QueueNext

(* The queue of kt-sft, a std::queue under a mutex with a flag on which    *)
(* sync spins outside the mutex, implements the executor: a sync returns   *)
(* only when no task is announced, waits or runs, tasks run in the order   *)
(* of their unlocks, and the worker leaves only when none is left.         *)
THEOREM QueueRefinement == QueueSpec => ImplementsExecutor
BY QueueInvariance, QueueInitMaps, QueueStepMaps, PTL DEF QueueSpec, ImplementsExecutor, Executor!Spec
=============================================================================
