---------------------------- MODULE MCSessionStore ----------------------------
(* Instances of SessionStore for TLC; the .cfg files give the constants.     *)
EXTENDS SessionStore, TLC

\* Identifiers, key names and values are interchangeable.
Symmetry == Permutations(SessionId) \cup Permutations(Key) \cup Permutations(Data)

\* `reply` only says which operation led here: no guard reads it, and the
\* properties look at the reply of the step they judge, never at an old one.
TableView == <<now, table>>
==============================================================================
