------------------------ MODULE OptimisticClientProofs ------------------------
(***************************************************************************)
(* A stale setKey loses, for every set of identifiers, keys and values and *)
(* whatever the others do, as long as no counter wraps.                    *)
(***************************************************************************)
EXTENDS OptimisticClient, SessionKeysProofs

\* What is still so of the key that the token was read from.
Grown(t, r) == r.counterRecord > t.record

Untouched(t, r) ==
    ~t.changed /\ r.counterRecord = t.record /\ r.value = t.value

\* While the session stays, its counter does not fall behind the token's; and
\* while it has not moved, the key is gone, written since, or as it was read.
TokenTells(t) ==
    /\ Found(t.session)
    /\ list[t.session].counterKeys >= t.keys
    /\ ~t.reinstalled /\ list[t.session].counterKeys = t.keys =>
          \/ Absent(t.session, t.key)
          \/ Grown(t, list[t.session].values[t.key])
          \/ Untouched(t, list[t.session].values[t.key])

TokenOK == token # NoToken => token \in Tokens /\ (token.lost \/ TokenTells(token))

\* addAllKey puts the key of the token back.
PutBack(t) == /\ reply'.op = "addAllKey"
              /\ Absent(t.session, t.key)
              /\ ~Absent(t.session, t.key)'

ClientInv == IInv /\ TokenOK

LEMMA AbsentIsNotHeld ==
    ASSUME NEW s, NEW k
    PROVE  Absent(s, k) <=> ~Holds(s, k)
BY DEF Absent, Holds

LEMMA HeldRecord ==
    ASSUME TypeOK, NEW s \in SessionId, NEW k \in Key, Holds(s, k)
    PROVE  list[s] \in Items /\ list[s].values[k] \in Values
BY DEF TypeOK, Holds, Items

\* Short of the wrap, a counter that moves grows.
LEMMA MovesUp ==
    ASSUME MaxCounter < UIntMod, NEW old \in UInt, NEW new, Moves(old, new)
    PROVE  new = old + 1
BY StoreAssumption DEF Moves, Inc, UInt

\* The key of the token through a step of anyone.
LEMMA TokenStep ==
    ASSUME MaxCounter < UIntMod, TypeOK, TypeOK', NEW t \in Tokens, TokenTells(t),
           EveryKeyStep,
           NEW u \in Tokens,
           u.session = t.session, u.key = t.key, u.value = t.value,
           u.keys = t.keys, u.record = t.record,
           u.changed = (t.changed \/ Differs(t)'),
           u.reinstalled = (t.reinstalled \/ PutBack(t)),
           Found(t.session)'
    PROVE  TokenTells(u)'
<1> DEFINE s == t.session
           k == t.key
           r == list[s].values[k]
           n == list'[s].values[k]
<1>1. s \in SessionId /\ k \in Key /\ t.keys \in UInt /\ t.record \in UInt
  BY DEF Tokens
<1>2. Found(s) /\ list[s] \in Items /\ list[s] # NoItem
  BY <1>1, HeldItem DEF TokenTells, Found
<1>3. KeyStep(s, k)
  BY <1>1 DEF EveryKeyStep
<1>4. list[s].counterKeys \in UInt /\ list[s].counterKeys >= t.keys
  BY <1>2 DEF Items, TokenTells
<1>5. \/ list'[s].counterKeys = list[s].counterKeys
      \/ MovesKeys(s) /\ list'[s].counterKeys = list[s].counterKeys + 1
  BY <1>2, <1>3, <1>4, MovesUp DEF KeyStep, KeysStep, MovesKeys
<1>6. list'[s].counterKeys >= u.keys
  BY <1>1, <1>4, <1>5, StoreAssumption DEF UInt
<1>7. ASSUME ~u.reinstalled, list'[s].counterKeys = u.keys, Holds(s, k)'
      PROVE  Grown(u, n) \/ Untouched(u, n)
  <2>1. list[s].counterKeys = t.keys /\ ~MovesKeys(s)
    BY <1>1, <1>4, <1>5, <1>7, StoreAssumption, MovesUp DEF UInt, MovesKeys
  <2>2. Holds(s, k) /\ RecordStep(r, n)
    BY <1>2, <1>3, <1>7, <2>1, AbsentIsNotHeld DEF KeyStep, PutStep, PutBack, Absent, Holds
  <2>3. r \in Values /\ r.counterRecord \in UInt
    BY <1>1, <2>2, HeldRecord DEF Values
  <2>4. Grown(t, r) \/ Untouched(t, r)
    BY <1>7, <2>1, <2>2, AbsentIsNotHeld DEF TokenTells
  <2>5. \/ n.value = r.value /\ n.counterRecord = r.counterRecord
        \/ n.counterRecord = r.counterRecord + 1
    BY <2>2, <2>3, MovesUp DEF RecordStep
  <2>6. CASE n.counterRecord = r.counterRecord + 1
    BY <1>1, <2>3, <2>4, <2>6, StoreAssumption DEF Grown, Untouched, UInt
  <2>7. CASE n.value = r.value /\ n.counterRecord = r.counterRecord
    <3>1. CASE Grown(t, r)
      BY <2>7, <3>1 DEF Grown
    <3>2. CASE Untouched(t, r)
      <4>1. ~Differs(t)'
        BY <1>7, <2>7, <3>2 DEF Differs, Absent, Holds, Untouched
      <4> QED
        BY <2>7, <3>2, <4>1 DEF Untouched
    <3> QED
      BY <2>4, <3>1, <3>2
  <2> QED
    BY <2>5, <2>6, <2>7
<1> QED
  BY <1>6, <1>7 DEF TokenTells, Absent, Holds

LEMMA WatchStep ==
    ASSUME MaxCounter < UIntMod, TypeOK, TypeOK', TokenOK, EveryKeyStep, Watch
    PROVE  TokenOK'
<1>1. CASE token = NoToken /\ UNCHANGED token
  BY <1>1 DEF TokenOK
<1>2. CASE token # NoToken
  <2>1. PICK t \in {token} \ {NoToken} :
          token' = [t EXCEPT
              !.changed = @ \/ Differs(t)',
              !.lost = @ \/ ~Found(t.session)',
              !.reinstalled = @ \/ /\ reply'.op = "addAllKey"
                                   /\ Absent(t.session, t.key)
                                   /\ ~Absent(t.session, t.key)']
    BY <1>2 DEF Watch
  <2>2. t \in Tokens /\ (t.lost \/ TokenTells(t))
    BY <1>2, <2>1 DEF TokenOK
  <2>3. PICK u : u = token'
    OBVIOUS
  <2>4. u \in Tokens
    BY <2>1, <2>2, <2>3 DEF Tokens
  <2>5. /\ u.session = t.session /\ u.key = t.key /\ u.value = t.value
        /\ u.keys = t.keys /\ u.record = t.record
        /\ u.changed = (t.changed \/ Differs(t)')
        /\ u.lost = (t.lost \/ ~Found(t.session)')
        /\ u.reinstalled = (t.reinstalled \/ PutBack(t))
    BY <2>1, <2>2, <2>3 DEF Tokens, PutBack
  <2>6. u.lost \/ TokenTells(u)'
    BY <2>2, <2>4, <2>5, TokenStep
  <2> QED
    BY <2>3, <2>4, <2>6, TokenAssumption DEF TokenOK, TokenTells, Found, Absent, Actual, Grown, Untouched
<1> QED
  BY <1>1, <1>2 DEF Watch

-------------------------------------------------------------------------------
(* Learning the counters.                                                   *)

LEMMA LearnIsNext == Learn => Next
BY DEF Learn, Next, KeyOperation

\* The answer of an accepted read or addition is about a key that is there.
LEMMA LearntIsHeld ==
    ASSUME TypeOK, EveryKeyStep, NEW s \in SessionId, NEW k \in Key,
           \/ \E cap \in RateLimit : GetKey(s, k, cap)
           \/ \E d \in Data, lifetime \in Lifetime : AddKey(s, k, d, lifetime),
           reply'.res = "OK"
    PROVE  Found(s)' /\ Holds(s, k)'
<1>1. KeyOperation
  BY DEF KeyOperation
<1>2. SessionsStay
  BY <1>1, KeyStepEffect, SameSessionsStay DEF KeyEffect
<1>3. CASE \E cap \in RateLimit : GetKey(s, k, cap)
  <2>1. HasKey(s, k) /\ ~Removed
    <3>1. PICK cap \in RateLimit : GetKey(s, k, cap)
      BY <1>3
    <3>2. ~NoKey("getKey", s, k)
      BY DEF NoKey, Refuse, Answer
    <3>3. HasKey(s, k)
      BY <3>1, <3>2 DEF GetKey
    <3>4. reply'.op = "getKey"
      BY <3>1, <3>2 DEF GetKey, Refuse, Update, Answer
    <3> QED
      BY <3>3, <3>4 DEF Removed
  <2>2. KeyStep(s, k)
    BY DEF EveryKeyStep
  <2> QED
    BY <1>2, <2>1, <2>2 DEF KeyStep, SessionsStay, HasKey
<1>4. ASSUME NEW d \in Data, NEW lifetime \in Lifetime, AddKey(s, k, d, lifetime)
      PROVE  Found(s)' /\ Holds(s, k)'
  <2> DEFINE v == NewValue(d, lifetime)
             item == [list[s] EXCEPT !.counterKeys = Inc(@), !.values[k] = v]
  <2>1. Found(s) /\ list' = [list EXCEPT ![s] = item]
    <3>1. \A res : Refuse("addKey", res) => res = "OK"
      BY DEF Refuse, Answer
    <3>2. /\ Found(s)
          /\ Update("addKey", [list EXCEPT ![s].counterKeys = Inc(@),
                                           ![s].values[k] = v])
      BY <1>4, <3>1 DEF AddKey
    <3> QED
      BY <3>2 DEF Update
  <2>2. list[s] \in Items /\ v \in Values /\ v # NoValue
    BY <2>1, HeldItem, NewValueType, NullAssumption DEF TypeOK
  <2>3. item.values[k] = v
    <3> HIDE DEF v
    <3> QED
      BY <2>2 DEF Items
  <2>4. list'[s] = item
    <3> HIDE DEF item
    <3> QED
      BY <2>1 DEF TypeOK
  <2>5. Found(s)'
    BY <1>2, <2>1 DEF SessionsStay
  <2> HIDE DEF item, v
  <2> QED
    BY <2>2, <2>3, <2>4, <2>5 DEF Holds, Found
<1> QED
  BY <1>3, <1>4

LEMMA LearnStep ==
    ASSUME TypeOK, TypeOK', EveryKeyStep, Learn
    PROVE  TokenOK'
<1>1. PICK s \in SessionId, k \in Key :
        /\ \/ \E cap \in RateLimit : GetKey(s, k, cap)
           \/ \E d \in Data, lifetime \in Lifetime : AddKey(s, k, d, lifetime)
        /\ reply'.res = "OK"
        /\ Remember(s, k)
  BY DEF Learn
<1>2. Found(s)' /\ Holds(s, k)'
  BY <1>1, LearntIsHeld
<1>3. /\ list'[s].counterKeys \in UInt
      /\ list'[s].values[k].value \in Data
      /\ list'[s].values[k].counterRecord \in UInt
  <2>1. list'[s] \in Items
    BY <1>2 DEF TypeOK, Holds
  <2>2. list'[s].values[k] \in Values
    BY <1>2, <2>1 DEF Holds, Items
  <2> QED
    BY <2>1, <2>2 DEF Items, Values
<1>4. PICK u : u = token'
  OBVIOUS
<1>5. /\ u.session = s /\ u.key = k /\ u.value = list'[s].values[k].value
      /\ u.keys = list'[s].counterKeys
      /\ u.record = list'[s].values[k].counterRecord
      /\ u.changed = FALSE /\ u.lost = FALSE
      /\ u \in Tokens
  BY <1>1, <1>3, <1>4 DEF Remember, Tokens
<1>6. TokenTells(u)'
  <2>1. list'[s].counterKeys >= u.keys
    BY <1>3, <1>5, StoreAssumption DEF UInt
  <2>2. Untouched(u, list'[s].values[k])
    BY <1>5 DEF Untouched
  <2> QED
    BY <1>2, <1>5, <2>1, <2>2 DEF TokenTells
<1> QED
  BY <1>4, <1>5, <1>6
     DEF TokenOK, TokenTells, Found, Absent, Actual, Grown, Untouched

-------------------------------------------------------------------------------
LEMMA ClientStepIsNext == [ClientNext]_clientVars => [Next]_vars
BY LearnIsNext DEF ClientNext, clientVars

LEMMA ClientInvInit == ClientInit => ClientInv
BY InitInv DEF ClientInit, ClientInv, TokenOK

LEMMA ClientInvStep ==
    ASSUME MaxCounter < UIntMod, ClientInv, [ClientNext]_clientVars
    PROVE  ClientInv'
<1>1. IInv' /\ TypeOK /\ TypeOK'
  BY ClientStepIsNext, NextInv DEF ClientInv, IInv
<1>2. EveryKeyStep
  BY <1>1, ClientStepIsNext, NextKeys
<1>3. CASE UNCHANGED clientVars
  BY <1>1, <1>3
     DEF ClientInv, clientVars, vars, TokenOK, TokenTells, Found, Absent, Actual,
         Grown, Untouched
<1>4. CASE Learn
  BY <1>1, <1>2, <1>4, LearnStep DEF ClientInv
<1>5. CASE Next /\ Watch
  BY <1>1, <1>2, <1>5, WatchStep DEF ClientInv
<1> QED
  BY <1>3, <1>4, <1>5 DEF ClientNext

\* The counters the client holds and the ones in the store keep their types.
THEOREM ClientTypeCorrect ==
    ASSUME MaxCounter < UIntMod
    PROVE  ClientSpec => []ClientTypeOK
<1>1. ClientInv /\ [ClientNext]_clientVars => ClientInv'
  BY ClientInvStep
<1>2. ClientInv => ClientTypeOK
  BY DEF ClientInv, IInv, TokenOK, ClientTypeOK
<1> QED
  BY <1>1, <1>2, ClientInvInit, PTL DEF ClientSpec

\* While no counter wraps, a setKey with counters read before the key was
\* written or removed does not pass, unless the session ended in between or
\* addAllKey put the key back.
THEOREM StaleTokensLose ==
    ASSUME MaxCounter < UIntMod
    PROVE  ClientSpec => []StaleTokenLoses
<1>1. ClientInv /\ [ClientNext]_clientVars => ClientInv'
  BY ClientInvStep
<1>2. ClientInv => StaleTokenLoses
  <2> SUFFICES ASSUME ClientInv, TokenFits, ~token.lost, ~token.reinstalled
               PROVE  ~token.changed
    BY DEF StaleTokenLoses
  <2>1. token \in Tokens /\ TokenTells(token)
    BY DEF ClientInv, TokenOK, TokenFits
  <2>2. token.record \in UInt
    BY <2>1 DEF Tokens
  <2>3. ~Absent(token.session, token.key)
    BY DEF TokenFits, HasKey, Found, FoundKey, Absent
  <2>4. ~Grown(token, list[token.session].values[token.key])
    BY <2>2, StoreAssumption DEF TokenFits, CountersMatch, Grown, UInt
  <2> QED
    BY <2>1, <2>3, <2>4 DEF TokenTells, TokenFits, CountersMatch, Untouched
<1> QED
  BY <1>1, <1>2, ClientInvInit, PTL DEF ClientSpec
===============================================================================
