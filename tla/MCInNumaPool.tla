---------------------------- MODULE MCInNumaPool ----------------------------
(* Instances of InNumaPool: three workers; jobs of no task, of fewer tasks *)
(* than workers, and of enough tasks for blocks of more than one.          *)
EXTENDS InNumaPool

MCJobSizes == {0, 2, 5}
=============================================================================
