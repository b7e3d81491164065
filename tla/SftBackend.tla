------------------------------ MODULE SftBackend ------------------------------
(***************************************************************************)
(* Backend of kt-sft/csrc/ktransformers_ext/cpu_backend/backend.{h,cpp}:   *)
(* the fork-join pool of the fine-tuning back end.  In contrast to         *)
(* InNumaPool each thread owns a contiguous range of the indices, with its *)
(* own counter; a thread that is done with its range steals from those     *)
(* that are still at work.  The caller arms the threads one after the      *)
(* other, itself last, while the armed ones already work and steal.        *)
(***************************************************************************)
EXTENDS Naturals, FiniteSets

CONSTANTS
  MaxThreads,  \* max_thread_num_; thread 0 is the caller
  Builds,      \* the builds: TRUE with USE_NUMA, where every thread takes part in every job
  JobSizes,    \* the task_num arguments of jobs
  MaxJobs      \* bound: the number of jobs

ASSUME ThreadsAssumption == MaxThreads \in Nat \ {0}
ASSUME BuildsAssumption  == Builds \subseteq BOOLEAN /\ Builds # {}
ASSUME SizesAssumption   == JobSizes \subseteq Nat \ {0}
ASSUME MaxJobsAssumption == MaxJobs \in Nat

Threads == 0..(MaxThreads - 1)
Helpers == 1..(MaxThreads - 1)

VARIABLES
  use_numa,           \* the build at hand
  status, curr, end,  \* thread_state_[i]
  thread_num,         \* thread_num_
  pc,                 \* where each thread is
  offset,             \* process_tasks' t_offset; 0 in the loop over its own range
  task_id,            \* process_tasks' task_id
  at,                 \* the caller's loop index over the threads
  size, jobs,         \* task_num of the current job, and the number of jobs so far
  times               \* history: how often each index of the job was computed

rangeVars == <<curr, end>>
jobVars   == <<use_numa, thread_num, size, jobs>>
stealVars == <<offset, task_id>>
vars == <<status, rangeVars, jobVars, pc, stealVars, at, times>>

MinOf(a, b) == IF a < b THEN a ELSE b

Untouched(n) == [i \in 0..(n - 1) |-> 0]

Init ==
  /\ use_numa \in Builds
  /\ status = [t \in Threads |-> "WAITING"]
  /\ curr = [t \in Threads |-> 0] /\ end = [t \in Threads |-> 0]
  /\ thread_num = 0 /\ size = 0 /\ jobs = 0 /\ at = 0
  /\ pc = [t \in Threads |-> IF t = 0 THEN "idle" ELSE "poll"]
  /\ offset = [t \in Threads |-> 0] /\ task_id = [t \in Threads |-> 0]
  /\ times = Untouched(0)

Goto(t, to) == pc' = [pc EXCEPT ![t] = to]

-----------------------------------------------------------------------------
(* do_work_stealing_job on the caller *)

\* Mutated: the remainder of the division is forgotten.
ShareFloor(i) == size \div thread_num

\* base + (i < remain)
Share(i) == size \div thread_num + (IF i < size % thread_num THEN 1 ELSE 0)

\* thread_num_ is set, and the caller's own end
Begin(n) ==
  /\ pc[0] = "idle" /\ jobs < MaxJobs
  /\ thread_num' = IF use_numa THEN MaxThreads ELSE MinOf(MaxThreads, n)
  /\ size' = n /\ jobs' = jobs + 1
  /\ end' = [end EXCEPT ![0] = Share(0)']
  /\ at' = 1
  /\ times' = Untouched(n)
  /\ Goto(0, "arm")
  /\ UNCHANGED <<use_numa, status, curr, stealVars>>

\* curr and end of the next thread
SetRange ==
  /\ pc[0] = "arm" /\ at < thread_num
  /\ curr' = [curr EXCEPT ![at] = end[at - 1]]
  /\ end' = [end EXCEPT ![at] = end[at - 1] + Share(at)]
  /\ Goto(0, "release")
  /\ UNCHANGED <<status, jobVars, stealVars, at, times>>

\* status = WORKING: from here on the thread works, and others may steal from it
SetWorking ==
  /\ pc[0] = "release"
  /\ status' = [status EXCEPT ![at] = "WORKING"]
  /\ at' = at + 1
  /\ Goto(0, "arm")
  /\ UNCHANGED <<rangeVars, jobVars, stealVars, times>>

SetOwnCurr ==
  /\ pc[0] = "arm" /\ at >= thread_num
  /\ curr' = [curr EXCEPT ![0] = 0]
  /\ Goto(0, "release_own")
  /\ UNCHANGED <<status, end, jobVars, stealVars, at, times>>

\* status = WORKING for the caller, which enters process_tasks(0)
SetOwnWorking ==
  /\ pc[0] = "release_own"
  /\ status' = [status EXCEPT ![0] = "WORKING"]
  /\ offset' = [offset EXCEPT ![0] = 0]
  /\ Goto(0, "visit")
  /\ UNCHANGED <<rangeVars, jobVars, task_id, at, times>>

\* spin while status[at] is WORKING
WaitFor ==
  /\ pc[0] = "wait" /\ at < thread_num
  /\ status[at] # "WORKING"
  /\ at' = at + 1
  /\ UNCHANGED <<status, rangeVars, jobVars, pc, stealVars, times>>

\* Mutated: the last thread is not waited for.
ReturnEarly ==
  /\ pc[0] = "wait" /\ at + 1 >= thread_num
  /\ Goto(0, "idle")
  /\ UNCHANGED <<status, rangeVars, jobVars, stealVars, at, times>>

Return ==
  /\ pc[0] = "wait" /\ at >= thread_num
  /\ Goto(0, "idle")
  /\ UNCHANGED <<status, rangeVars, jobVars, stealVars, at, times>>

Caller == SetRange \/ SetWorking \/ SetOwnCurr \/ SetOwnWorking \/ WaitFor \/ Return

-----------------------------------------------------------------------------
(* process_tasks(t): first its own range, then those of the others *)

Victim(t) == (t + offset[t]) % thread_num

\* Mutated: steals without looking at the status.
VisitBlindly(t) ==
  /\ pc[t] = "visit" /\ offset[t] < thread_num
  /\ Goto(t, "claim")
  /\ UNCHANGED <<status, rangeVars, jobVars, stealVars, at, times>>

\* the own range, or that of a thread that is WORKING
Visit(t) ==
  /\ pc[t] = "visit" /\ offset[t] < thread_num
  /\ offset[t] = 0 \/ status[Victim(t)] = "WORKING"
  /\ Goto(t, "claim")
  /\ UNCHANGED <<status, rangeVars, jobVars, stealVars, at, times>>

\* a thread that is not WORKING is passed over
Skip(t) ==
  /\ pc[t] = "visit" /\ offset[t] \in 1..(thread_num - 1)
  /\ status[Victim(t)] # "WORKING"
  /\ offset' = [offset EXCEPT ![t] = @ + 1]
  /\ UNCHANGED <<status, rangeVars, jobVars, pc, task_id, at, times>>

\* task_id = curr.fetch_add(1), within the range
Claim(t) ==
  /\ pc[t] = "claim" /\ curr[Victim(t)] < end[Victim(t)]
  /\ task_id' = [task_id EXCEPT ![t] = curr[Victim(t)]]
  /\ curr' = [curr EXCEPT ![Victim(t)] = @ + 1]
  /\ Goto(t, "compute")
  /\ UNCHANGED <<status, end, jobVars, offset, at, times>>

\* the range is used up; the counter was incremented all the same
Exhausted(t) ==
  /\ pc[t] = "claim" /\ curr[Victim(t)] >= end[Victim(t)]
  /\ task_id' = [task_id EXCEPT ![t] = curr[Victim(t)]]
  /\ curr' = [curr EXCEPT ![Victim(t)] = @ + 1]
  /\ offset' = [offset EXCEPT ![t] = @ + 1]
  /\ Goto(t, "visit")
  /\ UNCHANGED <<status, end, jobVars, at, times>>

\* compute_func_(task_id)
Compute(t) ==
  /\ pc[t] = "compute"
  /\ times' = [times EXCEPT ![task_id[t]] = @ + 1]
  /\ Goto(t, "claim")
  /\ UNCHANGED <<status, rangeVars, jobVars, stealVars, at>>

\* finalize_func_; status = WAITING; the caller goes on to its waits
Finalize(t) ==
  /\ pc[t] = "visit" /\ offset[t] >= thread_num
  /\ status' = [status EXCEPT ![t] = "WAITING"]
  /\ Goto(t, IF t = 0 THEN "wait" ELSE "poll")
  /\ at' = IF t = 0 THEN 1 ELSE at
  /\ UNCHANGED <<rangeVars, jobVars, stealVars, times>>

ProcessTasks(t) == Visit(t) \/ Skip(t) \/ Claim(t) \/ Exhausted(t) \/ Compute(t) \/ Finalize(t)

-----------------------------------------------------------------------------
(* worker_thread(t) *)

Poll(t) ==
  /\ pc[t] = "poll" /\ status[t] # "WAITING"
  /\ Goto(t, IF status[t] = "WORKING" THEN "visit" ELSE "gone")
  /\ offset' = [offset EXCEPT ![t] = 0]
  /\ UNCHANGED <<status, rangeVars, jobVars, task_id, at, times>>

\* WAITING: the thread sleeps a little or looks again at once
PollAgain(t) ==
  /\ pc[t] = "poll" /\ status[t] = "WAITING"
  /\ UNCHANGED vars

-----------------------------------------------------------------------------
(* ~Backend() *)

Destroy ==
  /\ pc[0] = "idle"
  /\ at' = 0
  /\ Goto(0, "exit")
  /\ UNCHANGED <<status, rangeVars, jobVars, stealVars, times>>

StoreExit ==
  /\ pc[0] = "exit" /\ at < MaxThreads
  /\ status' = [status EXCEPT ![at] = "EXIT"]
  /\ at' = at + 1
  /\ UNCHANGED <<rangeVars, jobVars, pc, stealVars, times>>

Join ==
  /\ pc[0] = "exit" /\ at = MaxThreads
  /\ \A t \in Helpers : pc[t] = "gone"
  /\ Goto(0, "gone")
  /\ UNCHANGED <<status, rangeVars, jobVars, stealVars, at, times>>

Gone == pc[0] = "gone" /\ UNCHANGED vars

Next ==
  \/ \E n \in JobSizes : Begin(n)
  \/ Caller
  \/ \E t \in Threads : ProcessTasks(t)
  \/ \E t \in Helpers : Poll(t) \/ PollAgain(t)
  \/ Destroy \/ StoreExit \/ Join
  \/ Gone

Spec == Init /\ [][Next]_vars

(* Every thread is scheduled; nothing obliges the caller to start a job or *)
(* to destroy the pool.                                                    *)
Fairness ==
  /\ WF_vars(Caller \/ StoreExit \/ Join)
  /\ \A t \in Threads : WF_vars(ProcessTasks(t))
  /\ \A t \in Helpers : WF_vars(Poll(t))

FairSpec == Spec /\ Fairness

-----------------------------------------------------------------------------
(* Properties *)

TypeOK ==
  /\ use_numa \in Builds
  /\ status \in [Threads -> {"WAITING", "WORKING", "EXIT"}]
  /\ curr \in [Threads -> Nat] /\ end \in [Threads -> Nat]
  /\ thread_num \in 0..MaxThreads /\ size \in Nat /\ jobs \in 0..MaxJobs /\ at \in 0..MaxThreads
  /\ pc \in [Threads -> {"idle", "arm", "release", "release_own", "visit", "claim", "compute",
                         "wait", "poll", "exit", "gone"}]
  /\ offset \in [Threads -> 0..MaxThreads] /\ task_id \in [Threads -> Nat]

Working == {t \in Threads : pc[t] \in {"visit", "claim", "compute"}}

(* A thread only ever touches a range of the present job: while the caller *)
(* has yet to write a thread's range, nobody is inside that range, its     *)
(* owner included, and a thief sees the status of the last job as WAITING. *)
RangesArmed ==
  pc[0] \in {"arm", "release", "release_own"} =>
    \A t \in Working : pc[t] = "claim" => Victim(t) \in 1..(at - 1)

(* This pool, too, implements the fork-join that operators rely on: each   *)
(* index is computed once, between call and return.                        *)
Abstract == INSTANCE ForkJoin WITH
              running <- pc[0] \notin {"idle", "exit", "gone"}

ImplementsForkJoin == Abstract!Spec

(* Every job returns, and so does the destructor: no thread misses its     *)
(* EXIT.                                                                   *)
CallsReturn ==
  /\ pc[0] = "arm" ~> pc[0] = "idle"
  /\ pc[0] = "exit" ~> pc[0] = "gone"
=============================================================================
