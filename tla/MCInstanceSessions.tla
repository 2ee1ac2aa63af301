-------------------------- MODULE MCInstanceSessions --------------------------
(* InstanceSessions with the clients, attempts and callers interchangeable.   *)
EXTENDS InstanceSessions, TLC
Interchangeable == Permutations(Callers) \cup Permutations(Clients) \cup Permutations(Attempts)
=============================================================================
