--------------------------- MODULE MCBatchScheduler ---------------------------
(* An instance of BatchScheduler: prompts of one to three chunks, and     *)
(* fewer pages than the queries need: the second has to wait for the first *)
(* to be done, and the third, for which there is a page, has to wait with  *)
(* it.                                                                     *)
EXTENDS BatchScheduler

MCPrompt    == <<1, 3, 1>>
MCEstimated == <<5, 5, 2>>
MCNeed      == <<2, 2, 1>>
=============================================================================
