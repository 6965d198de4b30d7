--------------------------- MODULE OptimisticClient ---------------------------
(***************************************************************************)
(* A client of SessionStore that writes optimistically: it remembers the   *)
(* two counters getKey or addKey answered with and later passes them to    *)
(* setKey, which must refuse them with E_RECORD_BEEN_CHANGED once what was *)
(* read is no longer what is stored.  Everybody else does anything at all. *)
(*                                                                         *)
(* The token is the client's memory.  Its last three fields are history no *)
(* one can read, kept to say when the counters ought to have failed.       *)
(***************************************************************************)
EXTENDS SessionStore

CONSTANT NoToken

VARIABLE token

clientVars == <<vars, token>>

Tokens == [session : SessionId, key : Key, value : Data,
           keys : UInt, record : UInt,
           changed : BOOLEAN,     \* the key was written or removed since
           lost : BOOLEAN,        \* the session was gone, for a while at least
           reinstalled : BOOLEAN] \* addAllKey has put the key back since

ASSUME TokenAssumption == NoToken \notin Tokens

\* The answer of getKey and addKey: the value's counters after the operation.
Remember(s, k) ==
    token' = [session |-> s, key |-> k, value |-> list'[s].values[k].value,
              keys |-> list'[s].counterKeys,
              record |-> list'[s].values[k].counterRecord,
              changed |-> FALSE, lost |-> FALSE, reinstalled |-> FALSE]

Absent(s, k) == list[s] = NoItem \/ list[s].values[k] = NoValue

\* Is what is stored something else than what was read?
Differs(t) ==
    \/ Absent(t.session, t.key)
    \/ list[t.session].values[t.key].value # t.value
    \/ list[t.session].values[t.key].counterRecord # t.record

Watch ==
    \/ token = NoToken /\ UNCHANGED token
    \/ \E t \in {token} \ {NoToken} :
          token' = [t EXCEPT
              !.changed = @ \/ Differs(t)',
              !.lost = @ \/ ~Found(t.session)',
              !.reinstalled = @ \/ /\ reply'.op = "addAllKey"
                                   /\ Absent(t.session, t.key)
                                   /\ ~Absent(t.session, t.key)']

Learn ==
    /\ limit # Unset
    /\ \E s \in SessionId, k \in Key :
          /\ \/ \E cap \in RateLimit : GetKey(s, k, cap)
             \/ \E d \in Data, lifetime \in Lifetime : AddKey(s, k, d, lifetime)
          /\ reply'.res = "OK"
          /\ Remember(s, k)

ClientInit == Init /\ token = NoToken

ClientNext == Learn \/ (Next /\ Watch)

ClientSpec == ClientInit /\ [][ClientNext]_clientVars

-------------------------------------------------------------------------------
ClientTypeOK == TypeOK /\ token \in Tokens \cup {NoToken}

\* The counters the client holds are those a setKey would find.
TokenFits ==
    /\ token # NoToken
    /\ HasKey(token.session, token.key)
    /\ CountersMatch(token.session, token.key, token.keys, token.record)

\* A setKey with the counters last read overwrites exactly what was read: not
\* a later write, and not another value that took the key's place.  Two ways
\* round the counters are known and excused: the session ended and its name
\* was taken again, so that both counters started over, and addAllKey.
StaleTokenLoses ==
    TokenFits /\ ~token.lost /\ ~token.reinstalled => ~token.changed

-------------------------------------------------------------------------------
(* A statement of the repository that the code does not keep.               *)

\* store_interface.h: E_RECORD_BEEN_CHANGED; while the session stays, setKey
\* refuses counters read before the record was last changed.
ChangedRecordRefused == TokenFits /\ ~token.lost => ~token.changed
==============================================================================
