------------------------------ MODULE ForkJoin ------------------------------
(***************************************************************************)
(* What an operator may rely on when it calls do_work_stealing_job(n, f):  *)
(* between the call and the return, f(0), ..., f(n-1) are each called      *)
(* exactly once, and f is never called outside.  InNumaPool implements it. *)
(***************************************************************************)
EXTENDS Naturals

CONSTANT JobSizes   \* the numbers of tasks that jobs have

VARIABLES running,  \* a job is under way
          size,     \* its number of tasks
          times     \* how often each task of the current job was computed

vars == <<running, size, times>>

Untouched(n) == [i \in 0..(n - 1) |-> 0]

Init == running = FALSE /\ size = 0 /\ times = Untouched(0)

Call(n) ==
  /\ ~running
  /\ running' = TRUE /\ size' = n /\ times' = Untouched(n)

Compute(i) ==
  /\ running /\ times[i] = 0
  /\ times' = [times EXCEPT ![i] = 1]
  /\ UNCHANGED <<running, size>>

Return ==
  /\ running
  /\ \A i \in 0..(size - 1) : times[i] = 1
  /\ running' = FALSE
  /\ UNCHANGED <<size, times>>

Next == (\E n \in JobSizes : Call(n)) \/ (\E i \in 0..(size - 1) : Compute(i)) \/ Return

Spec == Init /\ [][Next]_vars
=============================================================================
