--------------------------- MODULE SharedLifecycle ----------------------------
(***************************************************************************)
(* SessionLifecycle when several callers share the table.  A caller that   *)
(* prolongs or removes a session is admitted while the session is live,    *)
(* and moves its end later.  So a session that lapsed in between may come  *)
(* back; but only by the one caller admitted to it before, once for each   *)
(* admission, and until then nobody takes the session over or sweeps it.   *)
(***************************************************************************)
EXTENDS SessionLifecycle

CONSTANT Caller

VARIABLE admitted   \* the session each caller has yet to move the end of

shared == <<lifecycle, admitted>>

Awaited == UNION {admitted[c] : c \in Caller}

SharedInit ==
    /\ cap \in Limits /\ Cardinality(held) <= cap
    /\ admitted = [c \in Caller |-> {}]

Admit(c, s) ==
    /\ s \in Live /\ admitted[c] = {}
    /\ admitted' = [admitted EXCEPT ![c] = {s}]
    /\ UNCHANGED lifecycle

ExtendLate(c, s) ==
    /\ s \in admitted[c] /\ MoveEnd(s)
    /\ admitted' = [admitted EXCEPT ![c] = {}]

SharedNext ==
    \/ Pass /\ UNCHANGED admitted
    \/ \E s \in SessionId \ Awaited : Open(s) /\ UNCHANGED admitted
    \/ \E c \in Caller, s \in SessionId : Admit(c, s) \/ ExtendLate(c, s)
    \/ Awaited \cap Lapsed = {} /\ Sweep /\ UNCHANGED admitted

SharedSpec == SharedInit /\ [][SharedNext]_shared
==============================================================================
