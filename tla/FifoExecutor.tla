---------------------------- MODULE FifoExecutor ----------------------------
(***************************************************************************)
(* What a client of kt-kernel's task queue may rely on, with no node,      *)
(* pointer or counter in sight: submitted tasks run one at a time, in one  *)
(* global order that respects the order of each client's calls; a waiting  *)
(* client goes on only when the number of unfinished submissions is within *)
(* its allowance; after the executor has closed nothing runs any more, and *)
(* only what was still waiting then is lost.  TaskQueue implements it.     *)
(***************************************************************************)
EXTENDS Naturals, Sequences, FiniteSets

CONSTANTS Clients, Tasks, Allowances, None

VARIABLES
  announced,   \* per client: the submission that has no place in the order yet, or None
  queue,       \* the tasks that wait, in order
  active,      \* the task that runs, or None
  finished,    \* the tasks that have run
  waiting,     \* per client: the allowance it waits for, or None
  phase        \* "open", "closing" (the running task may still end), "closed"

vars == <<announced, queue, active, finished, waiting, phase>>

Idle(c) == announced[c] = None /\ waiting[c] = None

Announced == {announced[c] : c \in Clients} \ {None}
Queued    == {queue[i] : i \in 1..Len(queue)}
Running   == {active} \ {None}

Unfinished == Announced \union Queued \union Running

Init ==
  /\ announced = [c \in Clients |-> None]
  /\ queue = <<>>
  /\ active = None
  /\ finished = {}
  /\ waiting = [c \in Clients |-> None]
  /\ phase = "open"

Announce(c, t) ==
  /\ phase = "open" /\ Idle(c)
  /\ t \notin Unfinished \union finished
  /\ announced' = [announced EXCEPT ![c] = t]
  /\ UNCHANGED <<queue, active, finished, waiting, phase>>

Commit(c) ==
  /\ announced[c] # None
  /\ queue' = Append(queue, announced[c])
  /\ announced' = [announced EXCEPT ![c] = None]
  /\ UNCHANGED <<active, finished, waiting, phase>>

Wait(c, n) ==
  /\ phase = "open" /\ Idle(c)
  /\ waiting' = [waiting EXCEPT ![c] = n]
  /\ UNCHANGED <<announced, queue, active, finished, phase>>

GoOn(c) ==
  /\ waiting[c] # None
  /\ Cardinality(Unfinished) <= waiting[c]
  /\ waiting' = [waiting EXCEPT ![c] = None]
  /\ UNCHANGED <<announced, queue, active, finished, phase>>

Start ==
  /\ phase # "closed"
  /\ active = None
  /\ queue # <<>>
  /\ active' = Head(queue)
  /\ queue' = Tail(queue)
  /\ UNCHANGED <<announced, finished, waiting, phase>>

Finish ==
  /\ active # None
  /\ finished' = finished \union {active}
  /\ active' = None
  /\ UNCHANGED <<announced, queue, waiting, phase>>

Close ==
  /\ phase = "open"
  /\ \A c \in Clients : Idle(c)
  /\ phase' = "closing"
  /\ UNCHANGED <<announced, queue, active, finished, waiting>>

Closed ==
  /\ phase = "closing"
  /\ active = None
  /\ phase' = "closed"
  /\ UNCHANGED <<announced, queue, active, finished, waiting>>

Next ==
  \/ \E c \in Clients, t \in Tasks : Announce(c, t)
  \/ \E c \in Clients : Commit(c) \/ GoOn(c)
  \/ \E c \in Clients, n \in Allowances : Wait(c, n)
  \/ Start \/ Finish \/ Close \/ Closed

Spec == Init /\ [][Next]_vars
=============================================================================
