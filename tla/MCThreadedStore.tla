--------------------------- MODULE MCThreadedStore ---------------------------
(* Instances of ThreadedStore for TLC; the .cfg files give the constants.    *)
EXTENDS ThreadedStore, TLC

Symmetry == Permutations(Thread) \cup Permutations(SessionId) \cup Permutations(Key)

\* See MCSessionStore: no guard and no property here reads `reply`.
ThreadedView == <<now, table, threadVars>>
==============================================================================
