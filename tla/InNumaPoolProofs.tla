--------------------------- MODULE InNumaPoolProofs ---------------------------
(***************************************************************************)
(* Proofs about InNumaPool, for any number of workers and jobs of any      *)
(* size: it implements ForkJoin.                                           *)
(*                                                                         *)
(* The argument has two halves.  The handshake: a helper inside            *)
(* process_tasks has a status word that says WORKING, and such a word      *)
(* exists only while the caller has armed it and not yet waited for it; so *)
(* nobody reads the fields of a job while they are written.  The claims:   *)
(* what lies before the counter has been computed or is pending in exactly *)
(* one thread's claim, and what lies beyond has not been touched; the      *)
(* caller leaves when the counter has passed the end and no claim is left. *)
(***************************************************************************)
EXTENDS InNumaPool, TLAPS

Inside == {"load", "claim", "run", "finalize"}
Outside == {"idle", "exit", "gone"}

\* Where the caller and the helpers can be, and how many workers a job has.
Places ==
  /\ worker_count = MinOf(Workers, end)
  /\ pc[0] \in Inside \cup Outside \cup {"arm", "wait"}
  /\ \A t \in Helpers : pc[t] \in Inside \cup {"poll", "gone"}

\* The caller has armed helper t and has not found it done yet.
Awaited(t) ==
  /\ t < worker_count
  /\ \/ pc[0] \in Inside
     \/ pc[0] = "arm" /\ t < at
     \/ pc[0] = "wait" /\ t >= at

\* The status words.
Handshake ==
  /\ \A t \in Helpers :
       /\ pc[t] \in Inside => status[t] = "WORKING"
       /\ status[t] = "WORKING" => Awaited(t) /\ pc[t] # "gone"
       /\ status[t] = "EXIT" \/ pc[t] = "gone" => pc[0] \in {"exit", "gone"}
  /\ status[0] = "WORKING" => pc[0] \in Inside \cup {"arm"}
  /\ status[0] = "EXIT" => pc[0] \in {"exit", "gone"}

\* Thread t has claimed index i and not computed it yet.
Has(t, i) == pc[t] = "run" /\ next[t] <= i /\ i < last[t]

\* The counter, the claims and what has been computed.
Claims ==
  /\ \A t \in Threads : pc[t] = "run" => last[t] <= curr
  /\ \A t \in Threads : pc[t] = "finalize" => end <= curr
  /\ pc[0] = "wait" => end <= curr
  /\ \A t, u \in Threads, i \in 0..(end - 1) : Has(t, i) /\ Has(u, i) => t = u
  /\ \A i \in 0..(end - 1) :
       times[i] = IF i < curr /\ (\A t \in Threads : ~Has(t, i)) THEN 1 ELSE 0

IInv == TypeOK /\ Places /\ Handshake /\ NoStraggler /\ Claims

-----------------------------------------------------------------------------

\* The caller is a thread of its own; the others are the helpers.
LEMMA ThreadsAre ==
  /\ 0 \in Threads /\ 0 \notin Helpers /\ Helpers \subseteq Threads
  /\ \A t \in Threads : t = 0 \/ t \in Helpers
  /\ Threads \subseteq Nat
BY WorkersAssumption DEF Threads, Helpers

\* The block a worker computes is a natural number.
LEMMA Quotient ==
  ASSUME NEW a \in Nat, NEW b \in Nat \ {0}
  PROVE  a \div b \in Nat
OBVIOUS

LEMMA Initially == Init => IInv
<1> SUFFICES ASSUME Init PROVE IInv
  OBVIOUS
<1> USE ThreadsAre, WorkersAssumption, MaxJobsAssumption
<1>1. TypeOK /\ Places
  BY DEF Init, TypeOK, Places, MinOf, Untouched, Inside, Outside
<1>2. Handshake /\ NoStraggler
  BY DEF Init, Handshake, NoStraggler, Working, Inside
<1>3. Claims
  BY DEF Init, Claims, Has
<1> QED
  BY <1>1, <1>2, <1>3 DEF IInv

\* Nobody is inside a job while the caller is outside one.
LEMMA Straggler == Places /\ Handshake => NoStraggler
BY ThreadsAre DEF Places, Handshake, NoStraggler, Awaited, Working, Inside, Outside

LEMMA TypeStep ==
  ASSUME TypeOK, Places, [Next]_vars
  PROVE  TypeOK'
<1> USE ThreadsAre, WorkersAssumption, SizesAssumption, MaxJobsAssumption DEF TypeOK
<1>1. ASSUME NEW n \in JobSizes, Begin(n) PROVE TypeOK'
  BY <1>1 DEF Begin, Goto, MinOf, Untouched, claimVars
<1>2. CASE Arm
  <2>1. at' \in 0..Workers
    BY <1>2 DEF Arm
  <2>2. status' \in [Threads -> {"WAITING", "WORKING", "EXIT"}]
    BY <1>2 DEF Arm
  <2> QED
    BY <1>2, <2>1, <2>2 DEF Arm, jobVars, claimVars
<1>3. CASE Armed \/ Return
  BY <1>3 DEF Armed, Return, Goto, jobVars, claimVars
<1>4. CASE WaitFor
  BY <1>4 DEF WaitFor, jobVars, claimVars
<1>5. ASSUME NEW t \in Threads, Load(t) PROVE TypeOK'
  <2>1. CASE end <= curr
    BY <1>5, <2>1 DEF Load, Goto, jobVars
  <2>2. CASE ~(end <= curr)
    <3>1. worker_count # 0 /\ (end - curr) + worker_count - 1 \in Nat
      BY <2>2 DEF Places, MinOf
    <3>2. ((end - curr) + worker_count - 1) \div worker_count \in Nat
      BY <3>1, Quotient
    <3> QED
      BY <1>5, <2>2, <3>2 DEF Load, Goto, jobVars
  <2> QED
    BY <2>1, <2>2
<1>6. ASSUME NEW t \in Threads, Claim(t) PROVE TypeOK'
  BY SMTT(30), <1>6 DEF Claim, Goto, jobVars
<1>7. ASSUME NEW t \in Threads, Compute(t) PROVE TypeOK'
  <2>1. next[t] \in 0..(end - 1)
    BY <1>7 DEF Compute
  <2>2. times' \in [0..(end - 1) -> Nat]
    BY SMTT(30), <1>7, <2>1 DEF Compute
  <2>3. next' \in [Threads -> Nat]
    BY <1>7 DEF Compute
  <2> QED
    BY <1>7, <2>2, <2>3 DEF Compute, jobVars
<1>8. ASSUME NEW t \in Threads, BlockDone(t) PROVE TypeOK'
  BY <1>8 DEF BlockDone, Goto, jobVars, claimVars
<1>9. ASSUME NEW t \in Threads, Finalize(t) PROVE TypeOK'
  BY <1>9 DEF Finalize, Goto, jobVars, claimVars
<1>10. ASSUME NEW t \in Helpers, Poll(t) PROVE TypeOK'
  BY <1>10 DEF Poll, Goto, jobVars, claimVars
<1>11. CASE Destroy
  BY <1>11 DEF Destroy, Goto, jobVars, claimVars
<1>12. CASE StoreExit
  <2>1. at' \in 0..Workers
    BY <1>12 DEF StoreExit
  <2>2. status' \in [Threads -> {"WAITING", "WORKING", "EXIT"}]
    BY <1>12 DEF StoreExit
  <2> QED
    BY <1>12, <2>1, <2>2 DEF StoreExit, jobVars, claimVars
<1>13. CASE Join
  BY <1>13 DEF Join, Goto, jobVars, claimVars
<1>14. CASE UNCHANGED vars
  BY <1>14 DEF vars, jobVars, claimVars
<1> QED
  BY <1>1, <1>2, <1>3, <1>4, <1>5, <1>6, <1>7, <1>8, <1>9, <1>10, <1>11, <1>12, <1>13, <1>14
     DEF Next, ProcessTasks, PollAgain, Gone

LEMMA PlacesStep ==
  ASSUME TypeOK, Places, Handshake, [Next]_vars
  PROVE  Places'
<1> USE ThreadsAre DEF TypeOK, Places, Inside, Outside
<1>1. ASSUME NEW n \in JobSizes, Begin(n) PROVE Places'
  BY <1>1 DEF Begin, Goto
<1>2. CASE Arm \/ Armed \/ WaitFor \/ Return
  BY <1>2 DEF Arm, Armed, WaitFor, Return, Goto, jobVars
<1>3. ASSUME NEW t \in Threads, ProcessTasks(t) PROVE Places'
  <2>1. pc[t] \in Inside /\ UNCHANGED <<worker_count, end>>
    BY <1>3 DEF ProcessTasks, Load, Claim, Compute, BlockDone, Finalize, jobVars
  <2>2. \E to \in Inside \cup {IF t = 0 THEN "wait" ELSE "poll"} : pc' = [pc EXCEPT ![t] = to]
    <3>1. CASE Load(t) \/ Claim(t) \/ BlockDone(t) \/ Finalize(t)
      BY <3>1 DEF Load, Claim, BlockDone, Finalize, Goto
    <3>2. CASE Compute(t)
      <4>1. pc' = [pc EXCEPT ![t] = "run"]
        BY <3>2 DEF Compute
      <4> QED
        BY <4>1
    <3> QED
      BY <1>3, <3>1, <3>2 DEF ProcessTasks
  <2> QED
    BY <2>1, <2>2
<1>4. ASSUME NEW t \in Helpers, Poll(t) PROVE Places'
  BY <1>4 DEF Poll, Goto, jobVars
<1>5. CASE Destroy \/ StoreExit \/ Join
  BY <1>5 DEF Destroy, StoreExit, Join, Goto, jobVars
<1>6. CASE UNCHANGED vars
  BY <1>6 DEF vars, jobVars
<1> QED
  BY <1>1, <1>2, <1>3, <1>4, <1>5, <1>6 DEF Next, PollAgain, Gone

LEMMA HandshakeStep ==
  ASSUME TypeOK, Places, Handshake, [Next]_vars
  PROVE  Handshake'
<1> USE ThreadsAre, WorkersAssumption DEF TypeOK, Places, Handshake, Awaited, Inside, Outside
<1>1. ASSUME NEW n \in JobSizes, Begin(n) PROVE Handshake'
  BY <1>1 DEF Begin, Goto
<1>2. CASE Arm
  BY <1>2 DEF Arm, jobVars
<1>3. CASE Armed
  BY <1>3 DEF Armed, Goto, jobVars
<1>4. CASE WaitFor
  BY <1>4 DEF WaitFor, jobVars
<1>5. CASE Return
  BY <1>5 DEF Return, Goto, jobVars
<1>6. ASSUME NEW t \in Threads, Load(t) \/ Claim(t) \/ Compute(t) \/ BlockDone(t) PROVE Handshake'
  <2>1. pc[t] \in Inside /\ UNCHANGED <<worker_count, status, at>>
    BY <1>6 DEF Load, Claim, Compute, BlockDone, jobVars
  <2>2. \E to \in Inside : pc' = [pc EXCEPT ![t] = to]
    BY <1>6 DEF Load, Claim, Compute, BlockDone, Goto
  <2> QED
    BY SMTT(30), <2>1, <2>2
<1>7. ASSUME NEW t \in Threads, Finalize(t) PROVE Handshake'
  <2>1. CASE t = 0
    BY <1>7, <2>1 DEF Finalize, Goto, jobVars
  <2>2. CASE t # 0
    BY <1>7, <2>2 DEF Finalize, Goto, jobVars
  <2> QED
    BY <2>1, <2>2
<1>8. ASSUME NEW t \in Helpers, Poll(t) PROVE Handshake'
  BY <1>8 DEF Poll, Goto, jobVars
<1>9. CASE Destroy \/ Join
  BY <1>9 DEF Destroy, Join, Goto, jobVars
<1>10. CASE StoreExit
  BY <1>10 DEF StoreExit, jobVars, Threads
<1>11. CASE UNCHANGED vars
  BY <1>11 DEF vars, jobVars
<1> QED
  BY <1>1, <1>2, <1>3, <1>4, <1>5, <1>6, <1>7, <1>8, <1>9, <1>10, <1>11
     DEF Next, ProcessTasks, PollAgain, Gone

\* A claim of a thread is of indices the counter has passed.
LEMMA ClaimPassed ==
  ASSUME TypeOK, Claims, NEW t \in Threads, NEW i \in 0..(end - 1), Has(t, i)
  PROVE  i < curr
BY DEF TypeOK, Claims, Has

LEMMA ClaimsStep ==
  ASSUME TypeOK, TypeOK', Places, Handshake, NoStraggler, Claims, [Next]_vars
  PROVE  Claims'
<1> USE ThreadsAre, SizesAssumption
<1>1. ASSUME NEW n \in JobSizes, Begin(n) PROVE Claims'
  <2>1. \A t \in Threads : pc[t] \notin Inside /\ pc'[t] \notin Inside
    BY <1>1 DEF Begin, Goto, NoStraggler, Working, Inside, TypeOK
  <2>2. pc'[0] = "arm" /\ curr' = 0 /\ end' = n /\ times' = Untouched(n) /\ n \in Nat
    BY <1>1 DEF Begin, Goto, TypeOK
  <2> QED
    BY <2>1, <2>2 DEF Claims, Has, Inside, Untouched
<1>2. ASSUME UNCHANGED <<curr, end, times, next, last>>,
             \A t \in Threads : pc[t] = "run" <=> pc'[t] = "run",
             \A t \in Threads : pc'[t] = "finalize" => pc[t] = "finalize" \/ end <= curr,
             pc'[0] = "wait" => pc[0] \in {"wait", "finalize"}
      PROVE  Claims'
  <2>1. \A t \in Threads, i \in 0..(end - 1) : Has(t, i)' <=> Has(t, i)
    BY <1>2 DEF Has
  <2> QED
    BY <1>2, <2>1 DEF Claims
<1>3. CASE Arm \/ Armed \/ WaitFor \/ Return
  BY <1>2, <1>3 DEF Arm, Armed, WaitFor, Return, Goto, jobVars, claimVars, TypeOK
<1>4. ASSUME NEW t \in Threads, Load(t) PROVE Claims'
  BY SMTT(30), <1>2, <1>4 DEF Load, Goto, jobVars, TypeOK
<1>5. ASSUME NEW t \in Threads, Claim(t) PROVE Claims'
  <2>1. /\ pc[t] = "claim" /\ curr' = curr + block[t] /\ UNCHANGED <<end, times>>
        /\ next' = [next EXCEPT ![t] = curr] /\ last' = [last EXCEPT ![t] = curr + block[t]]
        /\ pc' = [pc EXCEPT ![t] = IF curr >= end THEN "finalize" ELSE "run"]
    BY <1>5 DEF Claim, Goto, jobVars
  <2>2. curr \in Nat /\ block[t] \in Nat /\ end \in Nat
    BY DEF TypeOK
  <2>3. ASSUME NEW u \in Threads, u # t
        PROVE  /\ pc'[u] = pc[u] /\ last'[u] = last[u] /\ next'[u] = next[u]
    BY <2>1, <2>3 DEF TypeOK
  <2>4. /\ pc'[t] = IF curr >= end THEN "finalize" ELSE "run"
        /\ next'[t] = curr /\ last'[t] = curr + block[t]
    BY <2>1 DEF TypeOK
  <2>5. \A u \in Threads, i \in 0..(end - 1) : u # t => (Has(u, i)' <=> Has(u, i))
    BY <2>3 DEF Has
  <2>6. \A i \in 0..(end - 1) : ~Has(t, i) /\ (Has(t, i)' <=> curr <= i /\ i < curr')
    BY <2>1, <2>2, <2>4 DEF Has
  <2>7. ASSUME NEW u \in Threads
        PROVE  /\ pc'[u] = "run" => last'[u] <= curr'
               /\ pc'[u] = "finalize" => end <= curr'
    <3>1. curr <= curr' /\ curr' \in Nat
      BY <2>1, <2>2
    <3>2. CASE u = t
      BY <2>1, <2>2, <2>4, <3>1, <3>2
    <3>3. CASE u # t
      <4>1. last[u] \in Nat
        BY DEF TypeOK
      <4>2. /\ pc[u] = "run" => last[u] <= curr
            /\ pc[u] = "finalize" => end <= curr
        BY DEF Claims
      <4>3. pc'[u] = pc[u] /\ last'[u] = last[u]
        BY <2>3, <3>3
      <4> QED
        BY <2>2, <3>1, <4>1, <4>2, <4>3
    <3> QED
      BY <3>2, <3>3
  <2>9. pc'[0] = "wait" => end <= curr'
    BY <2>1, <2>2, <2>3, <2>4 DEF Claims, TypeOK
  <2>10. ASSUME NEW u \in Threads, NEW v \in Threads, NEW i \in 0..(end - 1),
                Has(u, i)', Has(v, i)'
         PROVE  u = v
    BY <2>2, <2>5, <2>6, <2>10, ClaimPassed DEF Claims
  <2>11. ASSUME NEW i \in 0..(end - 1)
         PROVE  times[i] = IF i < curr' /\ (\A u \in Threads : ~Has(u, i)') THEN 1 ELSE 0
    <3>1. CASE i < curr
      BY <2>1, <2>2, <2>5, <2>6, <3>1 DEF Claims
    <3>2. CASE curr <= i
      <4>1. times[i] = 0
        BY <2>2, <3>2 DEF Claims
      <4>2. i < curr' => Has(t, i)'
        BY <2>6, <3>2
      <4> QED
        BY <4>1, <4>2
    <3> QED
      BY <2>2, <3>1, <3>2
  <2> QED
    BY <2>1, <2>7, <2>9, <2>10, <2>11 DEF Claims
<1>6. ASSUME NEW t \in Threads, Compute(t) PROVE Claims'
  <2>0. PICK i : i = next[t]
    OBVIOUS
  <2>1. /\ pc[t] = "run" /\ i < last[t] /\ i < end /\ UNCHANGED <<pc, curr, end, last>>
        /\ times' = [times EXCEPT ![i] = @ + 1] /\ next' = [next EXCEPT ![t] = i + 1]
    BY <1>6, <2>0 DEF Compute, jobVars
  <2>2. i \in 0..(end - 1) /\ Has(t, i) /\ last[t] \in Nat /\ curr \in Nat
    BY <2>0, <2>1 DEF Has, TypeOK
  <2>3. i < curr /\ times[i] = 0
    BY <2>2, ClaimPassed DEF Claims
  <2>4. times'[i] = 1 /\ \A j \in 0..(end - 1) : j # i => times'[j] = times[j]
    BY <2>1, <2>2, <2>3 DEF TypeOK
  <2>5. \A u \in Threads, j \in 0..(end - 1) : Has(u, j)' <=> Has(u, j) /\ ~(u = t /\ j = i)
    <3>1. ASSUME NEW u \in Threads, NEW j \in 0..(end - 1), u # t PROVE Has(u, j)' <=> Has(u, j)
      <4>1. next'[u] = next[u] /\ pc'[u] = pc[u] /\ last'[u] = last[u]
        BY <2>1, <3>1 DEF TypeOK
      <4> QED
        BY <4>1 DEF Has
    <3>2. ASSUME NEW j \in 0..(end - 1) PROVE Has(t, j)' <=> Has(t, j) /\ j # i
      <4>1. next'[t] = i + 1 /\ pc'[t] = "run" /\ last'[t] = last[t]
        BY <2>1 DEF TypeOK
      <4>2. i \in Nat /\ j \in Nat /\ next[t] = i /\ pc[t] = "run" /\ last[t] \in Nat
        BY <2>0, <2>1, <2>2 DEF TypeOK
      <4>3. i + 1 <= j <=> i <= j /\ j # i
        BY <4>2
      <4> QED
        BY <4>1, <4>2, <4>3 DEF Has
    <3> QED
      BY <3>1, <3>2
  <2>6. \A u \in Threads : ~Has(u, i)'
    BY <2>2, <2>5 DEF Claims
  <2>7. ASSUME NEW j \in 0..(end - 1)
        PROVE  times'[j] = IF j < curr /\ (\A u \in Threads : ~Has(u, j)') THEN 1 ELSE 0
    <3>1. CASE j = i
      BY <2>3, <2>4, <2>6, <3>1
    <3>2. CASE j # i
      <4>1. \A u \in Threads : Has(u, j)' <=> Has(u, j)
        BY <2>5, <3>2
      <4> QED
        BY <2>4, <3>2, <4>1 DEF Claims
    <3> QED
      BY <3>1, <3>2
  <2>8. \A u, v \in Threads, j \in 0..(end - 1) : Has(u, j)' /\ Has(v, j)' => u = v
    BY <2>5 DEF Claims
  <2> QED
    BY <2>1, <2>7, <2>8 DEF Claims
<1>7. ASSUME NEW t \in Threads, BlockDone(t) PROVE Claims'
  <2>1. /\ pc[t] = "run" /\ ~(next[t] < last[t] /\ next[t] < end)
        /\ UNCHANGED <<curr, end, times, next, last>> /\ pc' = [pc EXCEPT ![t] = "load"]
    BY <1>7 DEF BlockDone, Goto, jobVars, claimVars
  <2>2. \A u \in Threads : pc'[u] = pc[u] \/ (u = t /\ pc'[u] = "load")
    BY <2>1 DEF TypeOK
  <2>3. \A i \in 0..(end - 1) : ~Has(t, i)
    BY SMTT(30), <2>1 DEF Has, TypeOK
  <2>4. \A u \in Threads, i \in 0..(end - 1) : Has(u, i)' <=> Has(u, i)
    BY <2>1, <2>2, <2>3 DEF Has
  <2> QED
    BY <2>1, <2>2, <2>4 DEF Claims
<1>8. ASSUME NEW t \in Threads, Finalize(t) PROVE Claims'
  BY <1>2, <1>8 DEF Finalize, Goto, jobVars, claimVars, TypeOK
<1>9. ASSUME NEW t \in Helpers, Poll(t) PROVE Claims'
  BY <1>2, <1>9 DEF Poll, Goto, jobVars, claimVars, TypeOK
<1>10. CASE Destroy \/ StoreExit \/ Join
  BY <1>2, <1>10 DEF Destroy, StoreExit, Join, Goto, jobVars, claimVars, TypeOK
<1>11. CASE UNCHANGED vars
  BY <1>2, <1>11 DEF vars, jobVars, claimVars
<1> QED
  BY <1>1, <1>3, <1>4, <1>5, <1>6, <1>7, <1>8, <1>9, <1>10, <1>11
     DEF Next, ProcessTasks, PollAgain, Gone

LEMMA Preserved == IInv /\ [Next]_vars => IInv'
<1> SUFFICES ASSUME IInv, [Next]_vars PROVE IInv'
  OBVIOUS
<1>1. TypeOK' /\ Places' /\ Handshake'
  BY TypeStep, PlacesStep, HandshakeStep DEF IInv
<1>2. Claims'
  BY <1>1, ClaimsStep DEF IInv
<1>3. NoStraggler'
  BY <1>1, Straggler, PTL
<1> QED
  BY <1>1, <1>2, <1>3 DEF IInv

(* The inductive invariant of the pool. *)
THEOREM Invariant == Spec => []IInv
BY Initially, Preserved, PTL DEF Spec

-----------------------------------------------------------------------------

(* Every variable of the pool keeps its type: each index that is computed  *)
(* is one of the job's, and no worker beyond the pool is ever addressed.   *)
THEOREM TypeCorrect == Spec => []TypeOK
<1>1. IInv => TypeOK
  BY DEF IInv
<1> QED
  BY <1>1, Invariant, PTL

(* wait() is enough of a barrier: when do_work_stealing_job has returned   *)
(* no helper is in process_tasks nor about to enter it, for any number of  *)
(* workers and jobs of any size, those with fewer tasks than workers too.  *)
THEOREM NobodyStraggles == Spec => []NoStraggler
<1>1. IInv => NoStraggler
  BY DEF IInv
<1> QED
  BY <1>1, Invariant, PTL

(* The pool implements ForkJoin: between the call and the return of        *)
(* do_work_stealing_job each index of the job is computed exactly once.    *)
THEOREM Refinement == Spec => ImplementsForkJoin
<1> USE DEF Outside
<1>1. Init => Abstract!Init
  <2>1. Init => pc[0] = "idle"
    BY ThreadsAre DEF Init
  <2>2. Init => end = 0 /\ times = Abstract!Untouched(0)
    BY DEF Init, Abstract!Untouched, Untouched
  <2> QED
    BY <2>1, <2>2 DEF Abstract!Init
<1>2. IInv /\ [Next]_vars => [Abstract!Next]_Abstract!vars
  <2> SUFFICES ASSUME IInv, [Next]_vars PROVE [Abstract!Next]_Abstract!vars
    OBVIOUS
  <2> USE ThreadsAre DEF IInv
  <2>1. ASSUME NEW n \in JobSizes, Begin(n) PROVE Abstract!Call(n)
    BY <2>1 DEF Begin, Goto, TypeOK, Abstract!Call, Abstract!Untouched, Untouched
  <2>2. CASE Return
    <3>1. pc[0] = "wait" /\ pc'[0] = "idle" /\ UNCHANGED <<end, times>>
      BY <2>2 DEF Return, Goto, TypeOK, jobVars
    <3>2. \A t \in Threads : pc[t] # "run"
      BY <2>2 DEF Return, Places, Handshake, Awaited, Inside, TypeOK
    <3>3. \A i \in 0..(end - 1) : times[i] = 1
      BY <3>1, <3>2 DEF Claims, Has, TypeOK
    <3> QED
      BY <3>1, <3>3 DEF Abstract!Next, Abstract!Return
  <2>3. ASSUME NEW t \in Threads, Compute(t) PROVE Abstract!Next
    <3>1. next[t] \in 0..(end - 1) /\ Has(t, next[t])
      BY SMTT(30), <2>3 DEF Compute, Has, TypeOK
    <3>2. times[next[t]] = 0
      BY <3>1 DEF Claims
    <3>3. times' = [times EXCEPT ![next[t]] = 1] /\ UNCHANGED <<pc, end>>
      BY <2>3, <3>1, <3>2 DEF Compute, jobVars
    <3>4. pc[0] \notin {"idle", "exit", "gone"}
      BY <2>3 DEF Compute, NoStraggler, Working
    <3> QED
      BY <3>1, <3>2, <3>3, <3>4 DEF Abstract!Next, Abstract!Compute
  <2>4. ASSUME UNCHANGED <<end, times>>, pc[0] \in Outside <=> pc'[0] \in Outside
        PROVE  UNCHANGED Abstract!vars
    BY <2>4 DEF Abstract!vars
  <2>5. CASE Arm \/ Armed \/ WaitFor
    BY <2>4, <2>5 DEF Arm, Armed, WaitFor, Goto, jobVars, TypeOK
  <2>6. ASSUME NEW t \in Threads, Load(t) \/ Claim(t) \/ BlockDone(t) \/ Finalize(t)
        PROVE  UNCHANGED Abstract!vars
    <3>1. pc[t] \in Inside /\ pc'[t] \in Inside \cup {"wait", "poll"} /\ UNCHANGED <<end, times>>
      BY <2>6 DEF Load, Claim, BlockDone, Finalize, Goto, jobVars, TypeOK, Inside
    <3>2. \A u \in Threads : u # t => pc'[u] = pc[u]
      BY <2>6 DEF Load, Claim, BlockDone, Finalize, Goto, TypeOK
    <3> QED
      BY <2>4, <3>1, <3>2 DEF Inside
  <2>7. ASSUME NEW t \in Helpers, Poll(t) PROVE UNCHANGED Abstract!vars
    BY <2>4, <2>7 DEF Poll, Goto, jobVars, TypeOK
  <2>8. CASE Destroy \/ StoreExit \/ Join
    BY <2>4, <2>8 DEF Destroy, StoreExit, Join, Goto, jobVars, TypeOK
  <2>9. CASE UNCHANGED vars
    BY <2>4, <2>9 DEF vars, jobVars
  <2> QED
    BY <2>1, <2>2, <2>3, <2>5, <2>6, <2>7, <2>8, <2>9
       DEF Next, ProcessTasks, PollAgain, Gone, Abstract!Next
<1> QED
  BY <1>1, <1>2, Invariant, PTL DEF Spec, ImplementsForkJoin, Abstract!Spec
=============================================================================
