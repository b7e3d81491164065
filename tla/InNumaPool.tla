----------------------------- MODULE InNumaPool -----------------------------
(***************************************************************************)
(* InNumaPool of kt-kernel/cpu_backend/worker_pool.{h,cpp}: the fork-join  *)
(* pool of one NUMA node.  The thread that calls do_work_stealing_job is   *)
(* worker 0; the other workers poll their own status word.  A job is armed *)
(* by plain writes to shared fields and one status store per worker; the   *)
(* workers then claim blocks of task indices from the shared counter,      *)
(* guided-style: a block is the rest divided by the workers, and may reach *)
(* beyond the end.                                                         *)
(***************************************************************************)
EXTENDS Naturals, FiniteSets

CONSTANTS
  Workers,     \* total_worker_count, and restricted_worker_count after the constructor
  JobSizes,    \* the task_num arguments of jobs
  MaxJobs      \* bound: the number of jobs

ASSUME WorkersAssumption == Workers \in Nat \ {0}
ASSUME SizesAssumption   == JobSizes \subseteq Nat
ASSUME MaxJobsAssumption == MaxJobs \in Nat

Threads == 0..(Workers - 1)
Helpers == 1..(Workers - 1)

VARIABLES
  status,        \* thread_state_[i].status
  worker_count,  \* written by the caller when it arms a job
  curr,          \* curr_, the atomic counter the workers claim from
  end,           \* end_
  pc,            \* where each thread is; thread 0 is the caller
  block,         \* process_tasks' local `block'
  next,          \* the task index a thread computes next: task_id + i
  last,          \* task_id + block, where its claim ends
  at,            \* the caller's loop index over the workers
  jobs,          \* the number of jobs started
  times          \* history: how often each index of the job was computed

jobVars    == <<worker_count, end, jobs>>
claimVars  == <<block, next, last>>
vars == <<status, jobVars, curr, pc, claimVars, at, times>>

MinOf(a, b) == IF a < b THEN a ELSE b

Untouched(n) == [i \in 0..(n - 1) |-> 0]

Init ==
  /\ status = [t \in Threads |-> "WAITING"]
  /\ worker_count = 0 /\ end = 0 /\ jobs = 0 /\ curr = 0 /\ at = 0
  /\ pc = [t \in Threads |-> IF t = 0 THEN "idle" ELSE "poll"]
  /\ block = [t \in Threads |-> 0]
  /\ next = [t \in Threads |-> 0]
  /\ last = [t \in Threads |-> 0]
  /\ times = Untouched(0)

Goto(t, to) == pc' = [pc EXCEPT ![t] = to]

-----------------------------------------------------------------------------
(* do_work_stealing_job(task_num, init, compute, finalize) on the caller *)

Begin(n) ==
  /\ pc[0] = "idle" /\ jobs < MaxJobs
  /\ worker_count' = MinOf(Workers, n)
  /\ curr' = 0
  /\ end' = n
  /\ jobs' = jobs + 1
  /\ times' = Untouched(n)
  /\ at' = 0
  /\ Goto(0, "arm")
  /\ UNCHANGED <<status, claimVars>>

\* for i < worker_count: status[i] = WORKING
Arm ==
  /\ pc[0] = "arm" /\ at < worker_count
  /\ status' = [status EXCEPT ![at] = "WORKING"]
  /\ at' = at + 1
  /\ UNCHANGED <<jobVars, curr, pc, claimVars, times>>

\* process_tasks(0) is entered; init_func runs
Armed ==
  /\ pc[0] = "arm" /\ at >= worker_count
  /\ Goto(0, "load")
  /\ UNCHANGED <<status, jobVars, curr, claimVars, at, times>>

\* wait(): for i < worker_count, spin while status[i] is WORKING
WaitFor ==
  /\ pc[0] = "wait" /\ at < worker_count
  /\ status[at] # "WORKING"
  /\ at' = at + 1
  /\ UNCHANGED <<status, jobVars, curr, pc, claimVars, times>>

\* Mutated: the last worker is not waited for.
ReturnEarly ==
  /\ pc[0] = "wait" /\ at + 1 >= worker_count
  /\ Goto(0, "idle")
  /\ UNCHANGED <<status, jobVars, curr, claimVars, at, times>>

Return ==
  /\ pc[0] = "wait" /\ at >= worker_count
  /\ Goto(0, "idle")
  /\ UNCHANGED <<status, jobVars, curr, claimVars, at, times>>

-----------------------------------------------------------------------------
(* process_tasks(t) *)

\* old = curr_.load(); leave if nothing remains, else compute the block
Load(t) ==
  /\ pc[t] = "load"
  /\ IF end <= curr
     THEN Goto(t, "finalize") /\ block' = block
     ELSE Goto(t, "claim") /\
          block' = [block EXCEPT ![t] = ((end - curr) + worker_count - 1) \div worker_count]
  /\ UNCHANGED <<status, jobVars, curr, next, last, at, times>>

\* Mutated: fetch_add(1), with the whole block computed.
ClaimOne(t) ==
  /\ pc[t] = "claim"
  /\ curr' = curr + 1
  /\ next' = [next EXCEPT ![t] = curr]
  /\ last' = [last EXCEPT ![t] = curr + block[t]]
  /\ Goto(t, IF curr >= end THEN "finalize" ELSE "run")
  /\ UNCHANGED <<status, jobVars, block, at, times>>

\* task_id = curr_.fetch_add(block); leave if it is past the end
Claim(t) ==
  /\ pc[t] = "claim"
  /\ curr' = curr + block[t]
  /\ next' = [next EXCEPT ![t] = curr]
  /\ last' = [last EXCEPT ![t] = curr + block[t]]
  /\ Goto(t, IF curr >= end THEN "finalize" ELSE "run")
  /\ UNCHANGED <<status, jobVars, block, at, times>>

\* compute_func_(task_id + i)
Compute(t) ==
  /\ pc[t] = "run" /\ next[t] < last[t] /\ next[t] < end
  /\ times' = [times EXCEPT ![next[t]] = @ + 1]
  /\ next' = [next EXCEPT ![t] = @ + 1]
  /\ UNCHANGED <<status, jobVars, curr, pc, block, last, at>>

\* the block is done, or clipped at the end
BlockDone(t) ==
  /\ pc[t] = "run" /\ ~(next[t] < last[t] /\ next[t] < end)
  /\ Goto(t, "load")
  /\ UNCHANGED <<status, jobVars, curr, claimVars, at, times>>

\* Mutated: the status word is left at WORKING.
FinalizeSilent(t) ==
  /\ pc[t] = "finalize"
  /\ Goto(t, IF t = 0 THEN "wait" ELSE "poll")
  /\ at' = IF t = 0 THEN 0 ELSE at
  /\ UNCHANGED <<status, jobVars, curr, claimVars, times>>

\* finalize_func_; status = WAITING; the caller goes on to wait()
Finalize(t) ==
  /\ pc[t] = "finalize"
  /\ status' = [status EXCEPT ![t] = "WAITING"]
  /\ Goto(t, IF t = 0 THEN "wait" ELSE "poll")
  /\ at' = IF t = 0 THEN 0 ELSE at
  /\ UNCHANGED <<jobVars, curr, claimVars, times>>

ProcessTasks(t) == Load(t) \/ Claim(t) \/ Compute(t) \/ BlockDone(t) \/ Finalize(t)

-----------------------------------------------------------------------------
(* worker_thread(t): poll the status word; on WORKING, init_func runs *)

Poll(t) ==
  /\ pc[t] = "poll" /\ status[t] # "WAITING"
  /\ Goto(t, IF status[t] = "WORKING" THEN "load" ELSE "gone")
  /\ UNCHANGED <<status, jobVars, curr, claimVars, at, times>>

\* WAITING: the thread sleeps a little or looks again at once
PollAgain(t) ==
  /\ pc[t] = "poll" /\ status[t] = "WAITING"
  /\ UNCHANGED vars

-----------------------------------------------------------------------------
(* ~InNumaPool(), called by the thread that owns the pool *)

Destroy ==
  /\ pc[0] = "idle"
  /\ Goto(0, "exit") /\ at' = 0
  /\ UNCHANGED <<status, jobVars, curr, claimVars, times>>

StoreExit ==
  /\ pc[0] = "exit" /\ at < Workers
  /\ status' = [status EXCEPT ![at] = "EXIT"]
  /\ at' = at + 1
  /\ UNCHANGED <<jobVars, curr, pc, claimVars, times>>

Join ==
  /\ pc[0] = "exit" /\ at = Workers
  /\ \A t \in Helpers : pc[t] = "gone"
  /\ Goto(0, "gone")
  /\ UNCHANGED <<status, jobVars, curr, claimVars, at, times>>

Gone == pc[0] = "gone" /\ UNCHANGED vars

Next ==
  \/ \E n \in JobSizes : Begin(n)
  \/ Arm \/ Armed \/ WaitFor \/ Return
  \/ \E t \in Threads : ProcessTasks(t)
  \/ \E t \in Helpers : Poll(t) \/ PollAgain(t)
  \/ Destroy \/ StoreExit \/ Join
  \/ Gone

Spec == Init /\ [][Next]_vars

(* Every thread is scheduled; nothing obliges the caller to start a job or *)
(* to destroy the pool.                                                    *)
Fairness ==
  /\ WF_vars(Arm \/ Armed \/ WaitFor \/ Return \/ StoreExit \/ Join)
  /\ \A t \in Threads : WF_vars(ProcessTasks(t))
  /\ \A t \in Helpers : WF_vars(Poll(t))

FairSpec == Spec /\ Fairness

-----------------------------------------------------------------------------
(* Properties *)

TypeOK ==
  /\ status \in [Threads -> {"WAITING", "WORKING", "EXIT"}]
  /\ worker_count \in 0..Workers
  /\ curr \in Nat /\ end \in Nat /\ at \in 0..Workers /\ jobs \in 0..MaxJobs
  /\ pc \in [Threads -> {"idle", "arm", "load", "claim", "run", "finalize", "wait", "poll", "exit", "gone"}]
  /\ block \in [Threads -> Nat] /\ next \in [Threads -> Nat] /\ last \in [Threads -> Nat]
  /\ times \in [0..(end - 1) -> Nat]

Working == {t \in Threads : pc[t] \in {"load", "claim", "run", "finalize"}}

(* The plain fields of a job are written only while no worker can read     *)
(* them: outside a job no helper is inside process_tasks, nor about to     *)
(* enter it, and in the destructor neither (its EXIT would be lost).       *)
NoStraggler ==
  pc[0] \in {"idle", "exit", "gone"} =>
    Working = {} /\ \A t \in Threads : status[t] # "WORKING"

(* The pool implements the fork-join its operators are written against. *)
Abstract == INSTANCE ForkJoin WITH
              running <- pc[0] \notin {"idle", "exit", "gone"}, size <- end, times <- times

ImplementsForkJoin == Abstract!Spec

(* Every job returns, and so does the destructor: no worker misses its     *)
(* EXIT.                                                                   *)
CallsReturn ==
  /\ pc[0] = "arm" ~> pc[0] = "idle"
  /\ pc[0] = "exit" ~> pc[0] = "gone"
=============================================================================
