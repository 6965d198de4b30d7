--------------------------- MODULE SessionLifecycle ---------------------------
(***************************************************************************)
(* What a session table promises its clients, with no word on how it keeps *)
(* the sessions: a set of identifiers, each with a time to end, and a      *)
(* clock.                                                                  *)
(*                                                                         *)
(* A session lapses by the clock and in no other way: no operation cuts    *)
(* one short.  A lapsed session is not prolonged; it is swept out, or a    *)
(* new session of its name takes it over.  Only the sweep gives up an      *)
(* identifier, and only a lapsed one.  Never are more identifiers held     *)
(* than the limit the server was started with.                             *)
(***************************************************************************)
EXTENDS Naturals, FiniteSets

CONSTANTS SessionId, Limits, Unset

VARIABLES
    held,    \* the identifiers in the table
    ends,    \* the last second of each; 0 for one that never ends
    time,    \* the clock
    cap,     \* the limit
    done     \* the operation just carried out

lifecycle == <<held, ends, time, cap>>

Runs(end) == end = 0 \/ end >= time

Live == {s \in held : Runs(ends[s])}

Lapsed == held \ Live

OthersKeepEnd(S) == \A s \in held' \ S : ends'[s] = ends[s]

Init == held = {} /\ cap = Unset

Start(l) == cap = Unset /\ cap' = l /\ UNCHANGED <<held, ends, time>>

Pass == time' = time + 1 /\ UNCHANGED <<held, ends, cap>>

Open(s) ==
    /\ cap # Unset /\ done' \in {"add", "generate"}
    /\ \/ s \notin held /\ Cardinality(held) < cap
       \/ s \in Lapsed /\ done' = "add"
    /\ held' = held \cup {s} /\ Runs(ends'[s]) /\ OthersKeepEnd({s})
    /\ UNCHANGED <<time, cap>>

\* `remove` too leaves a session that runs; see RemoveEndsSession.
MoveEnd(s) ==
    /\ done' \in {"prolong", "remove"}
    /\ Runs(ends'[s]) /\ OthersKeepEnd({s})
    /\ UNCHANGED <<held, time, cap>>

Extend(s) == s \in Live /\ MoveEnd(s)

Sweep ==
    /\ done' = "clearInactive"
    /\ held' = Live /\ OthersKeepEnd({})
    /\ UNCHANGED <<time, cap>>

Next ==
    \/ \E l \in Limits : Start(l)
    \/ Pass
    \/ \E s \in SessionId : Open(s) \/ Extend(s)
    \/ Sweep

Spec == Init /\ [][Next]_lifecycle
==============================================================================
