----------------------------- MODULE MCController -----------------------------
(* Instances of Controller for TLC; the .cfg files give the constants.       *)
EXTENDS Controller, TLC

\* An identifier as generate() draws it.
MCTextOf == [s \in SessionId |->
    <<"0", "0", "0", "f", "1", "0", "f", "f", "-", "a", "b", "c", "d", "-",
      "4", "0", "9", "0", "-", "b", "a", "0", "1", "-",
      "2", "3", "4", "5", "6", "7", "8", "9", "e", "f", "8", "0">>]
MCNameOf == [k \in Key |-> <<107, 49>>]
MCContentOf == [d \in Data |-> <<0, 255, 7>>]

\* See MCSessionStore: `reply`, `received` and `answer` are only read in the
\* step that sets them.
ControllerView == <<now, table, working>>

Symmetry == Permutations(Thread)
==============================================================================
