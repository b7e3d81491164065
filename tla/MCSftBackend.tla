---------------------------- MODULE MCSftBackend -----------------------------
(* Instances of SftBackend: jobs of fewer tasks than threads, and of tasks *)
(* that do not divide evenly.                                              *)
EXTENDS SftBackend

MCJobSizes == {2, 4}
MCBuilds == {TRUE, FALSE}
=============================================================================
