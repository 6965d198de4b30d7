-------------------------- MODULE MCOptimisticClient --------------------------
(* Instances of OptimisticClient for TLC; the .cfg files give the constants. *)
EXTENDS OptimisticClient, TLC

Symmetry == Permutations(SessionId) \cup Permutations(Key) \cup Permutations(Data)

\* See MCSessionStore: `reply` is only ever read in the step that sets it.
ClientView == <<now, table, token>>
==============================================================================
