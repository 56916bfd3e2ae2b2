----------------------------- MODULE MCEventBus -----------------------------
(***************************************************************************)
(* A bus that retains one of two runs, with queues of two events and a     *)
(* history of one, so that every buffer overflows within four events.      *)
(***************************************************************************)
EXTENDS EventBus, TLC

Interchangeable == Permutations(Runs) \cup Permutations(Subscribers) \cup Permutations(Publishers)
=============================================================================
