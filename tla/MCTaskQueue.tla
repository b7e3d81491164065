---------------------------- MODULE MCTaskQueue -----------------------------
(* Small instances of TaskQueue: two client threads, three tasks. *)
EXTENDS TaskQueue

CONSTANTS p1, p2, t1, t2, t3

MCProducers  == {p1, p2}
MCTasks      == {t1, t2, t3}
MCAllowances == {0, 1}

=============================================================================
