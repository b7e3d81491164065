--------------------------- MODULE MCSftTaskQueue ----------------------------
(* Small instances of SftTaskQueue: two client threads, three tasks. *)
EXTENDS SftTaskQueue

CONSTANTS c1, c2, t1, t2, t3

MCClients == {c1, c2}
MCTasks   == {t1, t2, t3}

\* An exit_flag whose memory happens to be zero, and any memory.
ZeroMemory == {FALSE}
AnyMemory  == BOOLEAN

=============================================================================
