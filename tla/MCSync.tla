------------------------------- MODULE MCSync -------------------------------
(***************************************************************************)
(* Small instances of Sync.  Each configuration picks which objects exist. *)
(***************************************************************************)
EXTENDS Sync, TLC

MCQueues == Locks \cup Conditions \cup Semaphores \cup Barriers
MCLockOf == [c \in Conditions |-> CHOOSE l \in Locks : TRUE]
MCSlots == [s \in Semaphores |-> 1]
MCParties == [b \in Barriers |-> Threads]

Symmetry == Permutations(UserThreads) \cup Permutations(Threads \ UserThreads)
=============================================================================
