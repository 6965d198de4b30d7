-------------------------- MODULE SessionKeysProofs --------------------------
(***************************************************************************)
(* What SessionStore guarantees of the keys within the sessions, for every *)
(* set of identifiers, keys, values, lifetimes and limits: what any step   *)
(* can do to one record, and what follows from it.                         *)
(***************************************************************************)
EXTENDS SessionStoreProofs

-------------------------------------------------------------------------------
(* One record through one step.                                             *)

Holds(s, k) == list[s] # NoItem /\ list[s].values[k] # NoValue

\* A record is counted on by an accepted call, or left alone.
LimiterStep(old, new) ==
    \/ new = old
    \/ \E cap \in RateLimit : Passes(old, cap, now) /\ new = IncLimiter(old, cap, now)

\* A counter is moved by one, and not past the bound.
Moves(old, new) == old < MaxCounter /\ new = Inc(old)

\* Only a write changes the value, and it moves the record's counter; no
\* record's end is moved into the past.
RecordStep(old, new) ==
    /\ Actual(old.tsEnd) => Actual(new.tsEnd)
    /\ \/ new.value = old.value /\ new.counterRecord = old.counterRecord
       \/ Moves(old.counterRecord, new.counterRecord)
    /\ LimiterStep(old.limiterRead, new.limiterRead)
    /\ LimiterStep(old.limiterWrite, new.limiterWrite)

Removed == reply'.op \in {"removeKey", "removeAllKey"}

\* What a step does to the counter of a session that can be found.
MovesKeys(s) == Moves(list[s].counterKeys, list'[s].counterKeys)

KeysStep(s) ==
    Found(s) => list'[s].counterKeys = list[s].counterKeys \/ MovesKeys(s)

\* A new record moves the session's counter, but if addAllKey puts it there.
PutStep(s, k) ==
    Found(s) => MovesKeys(s) \/ (~Holds(s, k) /\ reply'.op = "addAllKey")

\* A record there is after a step was there before it, or is a new one where
\* no key could be found; and one that could be found is still there, unless
\* the step is a removal.
KeyStep(s, k) ==
    /\ KeysStep(s)
    /\ Holds(s, k)' =>
          \/ Holds(s, k) /\ RecordStep(list[s].values[k], list'[s].values[k])
          \/ /\ ~HasKey(s, k)
             /\ PutStep(s, k)
             /\ \E d \in Data, lifetime \in Lifetime :
                   list'[s].values[k] = NewValue(d, lifetime)
    /\ HasKey(s, k) => Holds(s, k)' \/ Removed

EveryKeyStep == \A s \in SessionId, k \in Key : KeyStep(s, k)

\* A key that can be found is held.
LEMMA FoundIsHeld ==
    ASSUME NEW s, NEW k, HasKey(s, k)
    PROVE  Holds(s, k)
BY DEF HasKey, Found, FoundKey, Holds

\* A record that nothing is done to.
LEMMA SameRecord ==
    ASSUME NEW s, NEW k, KeysStep(s), Holds(s, k)' <=> Holds(s, k),
           Holds(s, k) => list'[s].values[k] = list[s].values[k]
    PROVE  KeyStep(s, k)
BY FoundIsHeld DEF KeyStep, RecordStep, LimiterStep

\* The same of every record.
SameRecords ==
    \A s \in SessionId : /\ list'[s] = NoItem <=> list[s] = NoItem
                         /\ list[s] # NoItem =>
                               /\ list'[s].values = list[s].values
                               /\ list'[s].counterKeys = list[s].counterKeys

LEMMA SameRecordsStep == SameRecords => EveryKeyStep
BY SameRecord DEF SameRecords, EveryKeyStep, KeysStep, Found, Holds

LEMMA RefuseKeys ==
    ASSUME NEW op, NEW res, Refuse(op, res)
    PROVE  EveryKeyStep
BY SameRecordsStep DEF Refuse, table, SameRecords

\* Putting one record, or none, in its place: every other stays.
LEMMA ReplaceKeys ==
    ASSUME TypeOK, NEW s \in Stored, NEW k \in Key,
           NEW item \in Items, NEW v \in Values \cup {NoValue},
           list' = [list EXCEPT ![s] = item],
           item.values = [list[s].values EXCEPT ![k] = v],
           \/ /\ item.counterKeys = list[s].counterKeys
              /\ \/ v = NoValue /\ Removed
                 \/ /\ list[s].values[k] # NoValue /\ v # NoValue
                    /\ RecordStep(list[s].values[k], v)
           \/ /\ Moves(list[s].counterKeys, item.counterKeys)
              /\ ~HasKey(s, k)
              /\ \E d \in Data, lifetime \in Lifetime : v = NewValue(d, lifetime)
    PROVE  EveryKeyStep
<1>1. /\ s \in SessionId /\ list[s] \in Items /\ list[s] # NoItem
      /\ item # NoItem
  BY NullAssumption DEF Stored, TypeOK
<1>2. list'[s] = item /\ \A t \in SessionId \ {s} : list'[t] = list[t]
  BY <1>1 DEF TypeOK
<1>3. item.values[k] = v /\ \A j \in Key \ {k} : item.values[j] = list[s].values[j]
  BY <1>1 DEF Items
<1>4. KeyStep(s, k)
  BY <1>1, <1>2, <1>3, FoundIsHeld
     DEF KeyStep, Holds, KeysStep, PutStep, MovesKeys
<1>5. ASSUME NEW t \in SessionId, NEW j \in Key, ~(t = s /\ j = k)
      PROVE  KeyStep(t, j)
  <2>1. list'[t] = NoItem <=> list[t] = NoItem
    BY <1>1, <1>2
  <2>2. list'[t].values[j] = list[t].values[j]
    BY <1>2, <1>3, <1>5
  <2>3. Holds(t, j)' <=> Holds(t, j)
    BY <2>1, <2>2 DEF Holds
  <2>4. KeysStep(t)
    BY <1>2 DEF KeysStep, MovesKeys
  <2> QED
    BY <2>2, <2>3, <2>4, SameRecord
<1> QED
  BY <1>4, <1>5 DEF EveryKeyStep

LEMMA UpdateKeys ==
    ASSUME TypeOK, NEW op, NEW s \in SessionId, NEW k \in Key, Found(s),
           NEW v \in Values \cup {NoValue},
           Update(op, [list EXCEPT ![s].values[k] = v]),
           \/ v = NoValue /\ Removed
           \/ /\ list[s].values[k] # NoValue /\ v # NoValue
              /\ RecordStep(list[s].values[k], v)
    PROVE  EveryKeyStep
<1> DEFINE item == [list[s] EXCEPT !.values[k] = v]
<1>1. s \in Stored /\ list[s] \in Items
  BY HeldItem
<1>2. item \in Items
  BY <1>1, ReplaceValueType
<1>3. /\ item.values = [list[s].values EXCEPT ![k] = v]
      /\ item.counterKeys = list[s].counterKeys
  BY <1>1 DEF Items
<1>4. list' = [list EXCEPT ![s] = item]
  BY DEF Update
<1> HIDE DEF item
<1> QED
  BY <1>1, <1>2, <1>3, <1>4, ReplaceKeys

-------------------------------------------------------------------------------
(* The operations, one by one.                                              *)

LEMMA AddKeyKeys ==
    ASSUME TypeOK, NEW s \in SessionId, NEW k \in Key, NEW d \in Data,
           NEW lifetime \in Lifetime, AddKey(s, k, d, lifetime)
    PROVE  EveryKeyStep
<1> DEFINE v == NewValue(d, lifetime)
           item == [list[s] EXCEPT !.counterKeys = Inc(@), !.values[k] = v]
<1>1. CASE \E res : Refuse("addKey", res)
  BY <1>1, RefuseKeys
<1>2. CASE /\ Found(s) /\ ~FoundKey(s, k) /\ list[s].counterKeys < MaxCounter
           /\ Update("addKey", [list EXCEPT ![s].counterKeys = Inc(@),
                                           ![s].values[k] = v])
  <2>1. s \in Stored /\ list[s] \in Items
    BY <1>2, HeldItem
  <2>2. v \in Values
    BY NewValueType DEF TypeOK
  <2>3. Inc(list[s].counterKeys) \in UInt
    BY <2>1, IncType DEF Items
  <2>4. /\ item \in Items /\ item.values = [list[s].values EXCEPT ![k] = v]
        /\ Moves(list[s].counterKeys, item.counterKeys)
    <3> HIDE DEF v
    <3> QED
      BY <1>2, <2>1, <2>2, <2>3 DEF Items, Moves
  <2>5. list' = [list EXCEPT ![s] = item]
    BY <1>2 DEF Update
  <2>6. ~HasKey(s, k)
    BY <1>2 DEF HasKey
  <2>7. \E e \in Data, l \in Lifetime : v = NewValue(e, l)
    OBVIOUS
  <2> HIDE DEF item, v
  <2> QED
    BY <2>1, <2>2, <2>4, <2>5, <2>6, <2>7, ReplaceKeys
<1> QED
  BY <1>1, <1>2 DEF AddKey

\* What ends at a lifetime from now is not over yet.
LEMMA EndOfActual ==
    ASSUME now \in Nat, NEW lifetime \in Lifetime
    PROVE  Actual(EndOf(lifetime))
BY StoreAssumption DEF Actual, EndOf

LEMMA ProlongKeyKeys ==
    ASSUME TypeOK, NEW s \in SessionId, NEW k \in Key, NEW lifetime \in Lifetime,
           ProlongKey(s, k, lifetime)
    PROVE  EveryKeyStep
<1> DEFINE old == list[s].values[k]
           v == [old EXCEPT !.tsEnd = EndOf(lifetime)]
<1>1. CASE \E res : Refuse("prolongKey", res)
  BY <1>1, RefuseKeys
<1>2. CASE HasKey(s, k) /\ Update("prolongKey",
               [list EXCEPT ![s].values[k].tsEnd = EndOf(lifetime)])
  <2>1. old \in Values /\ old # NoValue /\ Found(s)
    BY <1>2, HeldValue DEF HasKey, FoundKey
  <2>2. v \in Values /\ v # NoValue
    BY <2>1, EndOfType, NullAssumption DEF TypeOK, Values
  <2>3. RecordStep(old, v)
    <3>1. Actual(EndOf(lifetime))
      BY EndOfActual DEF TypeOK
    <3>2. v.tsEnd = EndOf(lifetime)
      <4> HIDE DEF old
      <4> QED
        BY <2>1 DEF Values
    <3>3. /\ v.value = old.value /\ v.counterRecord = old.counterRecord
          /\ v.limiterRead = old.limiterRead
          /\ v.limiterWrite = old.limiterWrite
      <4> HIDE DEF old
      <4> QED
        BY <2>1 DEF Values
    <3> HIDE DEF old, v
    <3> QED
      BY <3>1, <3>2, <3>3 DEF RecordStep, LimiterStep
  <2>4. Update("prolongKey", [list EXCEPT ![s].values[k] = v])
    BY <1>2
  <2> HIDE DEF v
  <2> QED
    BY <2>1, <2>2, <2>3, <2>4, UpdateKeys
<1> QED
  BY <1>1, <1>2 DEF ProlongKey, HasKey

LEMMA WriteKeys ==
    ASSUME TypeOK, NEW op \in Operations, NEW s \in SessionId, NEW k \in Key,
           NEW d \in Data, NEW cap \in RateLimit,
           HasKey(s, k), Write(op, s, k, d, cap)
    PROVE  EveryKeyStep
<1> DEFINE old == list[s].values[k]
           v == [old EXCEPT !.value = d, !.counterRecord = Inc(@),
                            !.limiterWrite = IncLimiter(@, cap, now)]
<1>1. CASE Refuse(op, "E_LIMIT_PER_SEC_EXCEEDED")
  BY <1>1, RefuseKeys
<1>2. CASE /\ Passes(old.limiterWrite, cap, now)
           /\ old.counterRecord < MaxCounter
           /\ Update(op, [list EXCEPT ![s].values[k] = v])
  <2>1. old \in Values /\ old # NoValue /\ Found(s)
    BY HeldValue DEF HasKey, FoundKey
  <2>2. Inc(old.counterRecord) \in UInt
    BY <2>1, IncType DEF Values
  <2>3. IncLimiter(old.limiterWrite, cap, now) \in Limiters
    BY <2>1, IncLimiterType DEF Values, TypeOK
  <2>4. v \in Values /\ v # NoValue
    <3> HIDE DEF old
    <3> QED
      BY <2>1, <2>2, <2>3, NullAssumption DEF Values
  <2>5. RecordStep(old, v)
    <3> HIDE DEF old
    <3> QED
      BY <1>2, <2>1 DEF RecordStep, LimiterStep, Moves, Values
  <2> HIDE DEF v
  <2> QED
    BY <1>2, <2>1, <2>4, <2>5, UpdateKeys
<1> QED
  BY <1>1, <1>2 DEF Write

LEMMA GetKeyKeys ==
    ASSUME TypeOK, NEW s \in SessionId, NEW k \in Key, NEW cap \in RateLimit,
           GetKey(s, k, cap)
    PROVE  EveryKeyStep
<1> DEFINE old == list[s].values[k]
           v == [old EXCEPT !.limiterRead = IncLimiter(@, cap, now)]
<1>1. CASE NoKey("getKey", s, k) \/ Refuse("getKey", "E_LIMIT_PER_SEC_EXCEEDED")
  BY <1>1, RefuseKeys DEF NoKey
<1>2. CASE /\ HasKey(s, k) /\ Passes(old.limiterRead, cap, now)
           /\ Update("getKey", [list EXCEPT
                  ![s].values[k].limiterRead = IncLimiter(@, cap, now)])
  <2>1. old \in Values /\ old # NoValue /\ Found(s)
    BY <1>2, HeldValue DEF HasKey, FoundKey
  <2>2. IncLimiter(old.limiterRead, cap, now) \in Limiters
    BY <2>1, IncLimiterType DEF Values, TypeOK
  <2>3. v \in Values /\ v # NoValue /\ RecordStep(old, v)
    <3> HIDE DEF old
    <3> QED
      BY <1>2, <2>1, <2>2, NullAssumption DEF RecordStep, LimiterStep, Values
  <2>4. Update("getKey", [list EXCEPT ![s].values[k] = v])
    BY <1>2
  <2> HIDE DEF v
  <2> QED
    BY <2>1, <2>3, <2>4, UpdateKeys
<1> QED
  BY <1>1, <1>2 DEF GetKey

LEMMA RemoveKeyKeys ==
    ASSUME TypeOK, NEW s \in SessionId, NEW k \in Key, RemoveKey(s, k)
    PROVE  EveryKeyStep
<1>1. CASE Found(s) /\ Update("removeKey",
               [list EXCEPT ![s].values[k] = NoValue])
  <2>1. Removed
    BY <1>1 DEF Update, Answer, Removed
  <2> QED
    BY <1>1, <2>1, UpdateKeys
<1> QED
  BY <1>1, RefuseKeys DEF RemoveKey

LEMMA AddAllKeyKeys ==
    ASSUME TypeOK, NEW k \in Key, NEW d \in Data, AddAllKey(k, d)
    PROVE  EveryKeyStep
<1> DEFINE v == NewValue(d, 0)
           put(s) == [list[s] EXCEPT !.values[k] = v]
<1>1. v \in Values
  BY NewValueType, StoreAssumption DEF TypeOK
<1>2. \A s \in SessionId :
         list'[s] = IF Reached(s) /\ list[s].values[k] = NoValue
                      THEN put(s) ELSE list[s]
  BY DEF AddAllKey, Update
<1>3. ASSUME NEW s \in SessionId, Reached(s)
      PROVE  /\ list[s] \in Items /\ list[s] # NoItem
             /\ put(s).values = [list[s].values EXCEPT ![k] = v]
             /\ put(s).counterKeys = list[s].counterKeys
  <2>1. list[s] \in Items /\ list[s] # NoItem
    BY <1>3 DEF TypeOK, Reached, Stored
  <2> HIDE DEF v
  <2> QED
    BY <2>1 DEF Items
<1>4. 0 \in Lifetime
  BY StoreAssumption
<1>5. \A s \in SessionId : list[s] # NoItem => list'[s] # NoItem
  BY AddAllKeyEffect DEF KeyEffect, SameSessions
<1>6. ASSUME NEW s \in SessionId, NEW j \in Key
      PROVE  KeyStep(s, j)
  <2>1. CASE Reached(s) /\ list[s].values[k] = NoValue
    <3>1. /\ list'[s].values = [list[s].values EXCEPT ![k] = v]
          /\ list'[s].counterKeys = list[s].counterKeys
      <4> HIDE DEF put
      <4> QED
        BY <1>2, <1>3, <2>1
    <3>2. list'[s].values[j] = IF j = k THEN v ELSE list[s].values[j]
      <4>1. list[s].values \in [Key -> Values \cup {NoValue}]
        BY <1>3, <2>1 DEF Items
      <4> HIDE DEF v
      <4> QED
        BY <3>1, <4>1
    <3>3. list'[s] # NoItem /\ list[s] # NoItem
      BY <1>3, <1>5, <2>1
    <3>4. CASE j = k
      <4>1. ~HasKey(s, j)
        BY <2>1, <3>4 DEF HasKey, FoundKey
      <4>2. \E e \in Data, l \in Lifetime : v = NewValue(e, l)
        BY <1>4
      <4>3. ~Holds(s, j) /\ reply'.op = "addAllKey"
        BY <2>1, <3>4 DEF Holds, AddAllKey, Update, Answer
      <4> HIDE DEF v
      <4> QED
        BY <3>1, <3>2, <3>4, <4>1, <4>2, <4>3 DEF KeyStep, KeysStep, PutStep
    <3>5. CASE j # k
      <4>1. Holds(s, j)' <=> Holds(s, j)
        BY <3>2, <3>3, <3>5 DEF Holds
      <4> QED
        BY <3>1, <3>2, <3>5, <4>1, SameRecord DEF KeysStep
    <3> QED
      BY <3>4, <3>5
  <2>2. CASE ~(Reached(s) /\ list[s].values[k] = NoValue)
    <3>1. list'[s] = list[s]
      BY <1>2, <2>2
    <3>2. Holds(s, j)' <=> Holds(s, j)
      BY <3>1 DEF Holds
    <3> QED
      BY <3>1, <3>2, SameRecord DEF KeysStep
  <2> QED
    BY <2>1, <2>2
<1> QED
  BY <1>6 DEF EveryKeyStep

LEMMA RemoveAllKeyKeys ==
    ASSUME TypeOK, NEW k \in Key, RemoveAllKey(k)
    PROVE  EveryKeyStep
<1> DEFINE put(s) == [list[s] EXCEPT !.values[k] = NoValue]
<1>1. \A s \in SessionId :
         list'[s] = IF Reached(s) THEN put(s) ELSE list[s]
  BY DEF RemoveAllKey, Update
<1>2. ASSUME NEW s \in SessionId, Reached(s)
      PROVE  /\ list[s] \in Items /\ list[s] # NoItem
             /\ put(s).values = [list[s].values EXCEPT ![k] = NoValue]
             /\ put(s).counterKeys = list[s].counterKeys
  BY <1>2 DEF TypeOK, Reached, Stored, Items
<1>3. ASSUME NEW s \in SessionId, NEW j \in Key
      PROVE  KeyStep(s, j)
  <2>1. CASE Reached(s)
    <3>1. /\ list'[s].values = [list[s].values EXCEPT ![k] = NoValue]
          /\ list'[s].counterKeys = list[s].counterKeys
      BY <1>1, <1>2, <2>1
    <3>2. list'[s].values[j] = IF j = k THEN NoValue ELSE list[s].values[j]
      BY <1>2, <2>1, <3>1 DEF Items
    <3>3. list'[s] # NoItem /\ list[s] # NoItem
      BY <1>2, <2>1, RemoveAllKeyEffect DEF KeyEffect, SameSessions
    <3>4. CASE j = k
      <4>1. ~Holds(s, j)' /\ Removed
        BY <3>2, <3>4 DEF Holds, RemoveAllKey, Update, Answer, Removed
      <4> QED
        BY <3>1, <4>1 DEF KeyStep, KeysStep
    <3>5. CASE j # k
      <4>1. Holds(s, j)' <=> Holds(s, j)
        BY <3>2, <3>3, <3>5 DEF Holds
      <4> QED
        BY <3>1, <3>2, <3>5, <4>1, SameRecord DEF KeysStep
    <3> QED
      BY <3>4, <3>5
  <2>2. CASE ~Reached(s)
    <3>1. list'[s] = list[s]
      BY <1>1, <2>2
    <3>2. Holds(s, j)' <=> Holds(s, j)
      BY <3>1 DEF Holds
    <3> QED
      BY <3>1, <3>2, SameRecord DEF KeysStep
  <2> QED
    BY <2>1, <2>2
<1> QED
  BY <1>3 DEF EveryKeyStep

LEMMA KeyOperationKeys ==
    ASSUME TypeOK, KeyOperation \/ AllKeyOperation
    PROVE  EveryKeyStep
<1>1. CASE KeyOperation
  <2>1. PICK s \in SessionId, k \in Key :
          \/ ExistKey(s, k) \/ RemoveKey(s, k)
          \/ \E lifetime \in Lifetime : ProlongKey(s, k, lifetime)
          \/ \E d \in Data, lifetime \in Lifetime : AddKey(s, k, d, lifetime)
          \/ \E cap \in RateLimit :
                \/ GetKey(s, k, cap)
                \/ \E d \in Data : SetForceKey(s, k, d, cap)
                \/ \E d \in Data, keys, record \in 0 .. MaxCounter :
                      SetKey(s, k, d, keys, record, cap)
    BY <1>1 DEF KeyOperation
  <2>2. CASE ExistKey(s, k)
    BY <2>2, RefuseKeys DEF ExistKey, NoKey
  <2>3. CASE RemoveKey(s, k)
    BY <2>3, RemoveKeyKeys
  <2>4. CASE \E lifetime \in Lifetime : ProlongKey(s, k, lifetime)
    BY <2>4, ProlongKeyKeys
  <2>5. CASE \E d \in Data, lifetime \in Lifetime : AddKey(s, k, d, lifetime)
    BY <2>5, AddKeyKeys
  <2>6. CASE \E cap \in RateLimit : GetKey(s, k, cap)
    BY <2>6, GetKeyKeys
  <2>7. ASSUME NEW cap \in RateLimit, NEW d \in Data, SetForceKey(s, k, d, cap)
        PROVE  EveryKeyStep
    BY <2>7, RefuseKeys, WriteKeys DEF SetForceKey, NoKey, Operations
  <2>8. ASSUME NEW cap \in RateLimit, NEW d \in Data,
               NEW keys \in 0 .. MaxCounter, NEW record \in 0 .. MaxCounter,
               SetKey(s, k, d, keys, record, cap)
        PROVE  EveryKeyStep
    BY <2>8, RefuseKeys, WriteKeys DEF SetKey, NoKey, Operations
  <2> QED
    BY <2>1, <2>2, <2>3, <2>4, <2>5, <2>6, <2>7, <2>8
<1>2. CASE AllKeyOperation
  BY <1>2, AddAllKeyKeys, RemoveAllKeyKeys DEF AllKeyOperation
<1> QED
  BY <1>1, <1>2

\* A session opened anew begins without keys.
LEMMA InsertKeys ==
    ASSUME TypeOK, NEW op, NEW s \in SessionId, NEW lifetime \in Lifetime,
           ~Found(s), Insert(op, s, lifetime)
    PROVE  EveryKeyStep
<1>1. list' = [list EXCEPT ![s] = NewItem(lifetime)]
  BY DEF Insert
<1>2. list'[s] = NewItem(lifetime) /\ \A t \in SessionId \ {s} : list'[t] = list[t]
  BY <1>1 DEF TypeOK
<1>3. \A j \in Key : NewItem(lifetime).values[j] = NoValue
  BY DEF NewItem
<1>4. ASSUME NEW t \in SessionId, NEW j \in Key
      PROVE  KeyStep(t, j)
  <2>1. CASE t = s
    <3>1. ~Holds(t, j)' /\ ~HasKey(t, j)
      BY <1>2, <1>3, <2>1 DEF Holds, HasKey
    <3> QED
      BY <2>1, <3>1 DEF KeyStep, KeysStep
  <2>2. CASE t # s
    <3>1. list'[t] = list[t]
      BY <1>2, <2>2
    <3>2. Holds(t, j)' <=> Holds(t, j)
      BY <3>1 DEF Holds
    <3> QED
      BY <3>1, <3>2, SameRecord DEF KeysStep
  <2> QED
    BY <2>1, <2>2
<1> QED
  BY <1>4 DEF EveryKeyStep

LEMMA MoveEndKeys ==
    ASSUME TypeOK, NEW op, NEW s \in SessionId, NEW e \in Nat, Found(s),
           Update(op, [list EXCEPT ![s].tsEnd = e])
    PROVE  EveryKeyStep
<1>1. list[s] \in Items /\ list[s] # NoItem
  BY HeldItem DEF Found
<1>2. list' = [list EXCEPT ![s] = [list[s] EXCEPT !.tsEnd = e]]
  BY DEF Update
<1>3. /\ list'[s].values = list[s].values
      /\ list'[s].counterKeys = list[s].counterKeys
      /\ \A t \in SessionId \ {s} : list'[t] = list[t]
  BY <1>1, <1>2 DEF TypeOK, Items
<1>4. list'[s] # NoItem
  <2>1. [list[s] EXCEPT !.tsEnd = e] \in Items
    BY <1>1 DEF Items
  <2> QED
    BY <1>2, <2>1, NullAssumption DEF TypeOK
<1>5. SameRecords
  BY <1>1, <1>3, <1>4 DEF SameRecords
<1> QED
  BY <1>5, SameRecordsStep

LEMMA SweepKeys ==
    ASSUME TypeOK, ClearInactive
    PROVE  EveryKeyStep
<1>1. \A s \in SessionId :
         list'[s] = IF s \in Stored \ Dead THEN Swept(list[s]) ELSE NoItem
  BY DEF ClearInactive
<1>2. ASSUME NEW s \in SessionId, NEW j \in Key
      PROVE  KeyStep(s, j)
  <2>1. CASE s \in Stored \ Dead
    <3>1. list[s] \in Items /\ list[s] # NoItem
      BY <2>1 DEF Stored, TypeOK
    <3>2. list'[s].values[j] =
            IF list[s].values[j] # NoValue /\ Expired(list[s].values[j].tsEnd)
              THEN NoValue ELSE list[s].values[j]
      <4>1. list'[s] = Swept(list[s])
        BY <1>1, <2>1
      <4>2. Swept(list[s]).values[j] =
              IF list[s].values[j] # NoValue /\ Expired(list[s].values[j].tsEnd)
                THEN NoValue ELSE list[s].values[j]
        BY <3>1 DEF Swept, Items
      <4> QED
        BY <4>1, <4>2
    <3>3. list'[s] # NoItem /\ KeysStep(s)
      <4>1. list'[s] = Swept(list[s])
        BY <1>1, <2>1
      <4>2. Swept(list[s]).counterKeys = list[s].counterKeys
        BY <3>1 DEF Swept, Items
      <4> QED
        BY <3>1, <4>1, <4>2, SweptType, NullAssumption DEF KeysStep
    <3>4. CASE Holds(s, j) /\ Expired(list[s].values[j].tsEnd)
      <4>1. ~Holds(s, j)'
        BY <3>2, <3>4 DEF Holds
      <4>2. list[s].values[j].tsEnd \in Nat /\ now \in Nat
        BY <3>1, <3>4 DEF Holds, TypeOK, Items, Values
      <4>3. ~HasKey(s, j)
        BY <3>4, <4>2 DEF HasKey, FoundKey, Actual, Expired
      <4> QED
        BY <3>3, <4>1, <4>3 DEF KeyStep
    <3>5. CASE ~(Holds(s, j) /\ Expired(list[s].values[j].tsEnd))
      <4>1. Holds(s, j) => list'[s].values[j] = list[s].values[j]
        BY <3>2, <3>5 DEF Holds
      <4>2. Holds(s, j)' <=> Holds(s, j)
        BY <3>1, <3>2, <3>3, <3>5 DEF Holds
      <4> QED
        BY <3>3, <4>1, <4>2, SameRecord
    <3> QED
      BY <3>4, <3>5
  <2>2. CASE s \notin Stored \ Dead
    <3>1. list'[s] = NoItem
      BY <1>1, <2>2
    <3>2. ~Found(s)
      <4>1. list[s] # NoItem => list[s].tsEnd \in Nat /\ now \in Nat
        BY DEF TypeOK, Items
      <4> QED
        BY <2>2, <4>1 DEF Found, Stored, Dead, Actual, Expired
    <3> QED
      BY <3>1, <3>2 DEF KeyStep, KeysStep, HasKey, Holds
  <2> QED
    BY <2>1, <2>2
<1> QED
  BY <1>2 DEF EveryKeyStep

LEMMA SessionOperationKeys ==
    ASSUME TypeOK, SessionOperation
    PROVE  EveryKeyStep
<1>1. PICK s \in SessionId :
        \/ Exist(s) \/ Remove(s)
        \/ \E lifetime \in Lifetime :
              Add(s, lifetime) \/ Generate(s, lifetime) \/ Prolong(s, lifetime)
  BY DEF SessionOperation
<1>2. CASE Exist(s)
  BY <1>2, RefuseKeys DEF Exist
<1>3. CASE Remove(s)
  BY <1>3, RefuseKeys, MoveEndKeys DEF Remove
<1>4. ASSUME NEW lifetime \in Lifetime, Add(s, lifetime) \/ Generate(s, lifetime)
      PROVE  EveryKeyStep
  BY <1>4, RefuseKeys, InsertKeys DEF Add, Generate, Found, Stored
<1>5. ASSUME NEW lifetime \in Lifetime, Prolong(s, lifetime)
      PROVE  EveryKeyStep
  <2> DEFINE e == IF lifetime # 0 THEN now + lifetime ELSE FarEnd
  <2>1. e \in Nat
    BY StoreAssumption DEF TypeOK, FarEnd
  <2>2. \/ Refuse("prolong", "E_SESSION_NONE")
        \/ Found(s) /\ Update("prolong", [list EXCEPT ![s].tsEnd = e])
    BY <1>5 DEF Prolong
  <2> HIDE DEF e
  <2> QED
    BY <2>1, <2>2, RefuseKeys, MoveEndKeys
<1> QED
  BY <1>1, <1>2, <1>3, <1>4, <1>5

\* What any step of the store can do to any record.
LEMMA NextKeys ==
    ASSUME TypeOK, [Next]_vars
    PROVE  EveryKeyStep
<1>1. ASSUME list' = list
      PROVE  EveryKeyStep
  BY <1>1, SameRecordsStep DEF SameRecords
<1>2. CASE UNCHANGED vars
  BY <1>1, <1>2 DEF vars
<1>3. CASE (\E l \in Limits : SetLimit(l)) \/ Tick
  BY <1>1, <1>3 DEF SetLimit, Tick, table
<1>4. CASE SessionOperation
  BY <1>4, SessionOperationKeys
<1>5. CASE KeyOperation \/ AllKeyOperation
  BY <1>5, KeyOperationKeys
<1>6. CASE ClearInactive
  BY <1>6, SweepKeys
<1> QED
  BY <1>2, <1>3, <1>4, <1>5, <1>6 DEF Next

-------------------------------------------------------------------------------
(* What follows from it.                                                    *)

Within(limiter) == \A cap \in Caps : limiter[cap].count <= cap

\* An accepted call finds the window below its limit, or opens a new one.  The
\* code tests for equality: the bound holds only because counts go up by one.
LEMMA LimiterStepWithin ==
    ASSUME NEW old \in Limiters, NEW new, Within(old), LimiterStep(old, new)
    PROVE  Within(new)
<1>1. CASE new = old
  BY <1>1
<1>2. ASSUME NEW cap \in RateLimit, Passes(old, cap, now),
             new = IncLimiter(old, cap, now)
      PROVE  Within(new)
  <2>1. CASE cap = 0
    BY <1>2, <2>1 DEF IncLimiter
  <2>2. CASE cap # 0
    <3>1. cap \in Caps /\ cap \in Nat /\ cap >= 1
      BY <2>2, StoreAssumption DEF Caps
    <3>2. old[cap] \in [ts : Nat, count : Nat] /\ old[cap].count <= cap
      BY <3>1 DEF Limiters, Within
    <3>3. ~(old[cap].count = cap /\ old[cap].ts = now)
      BY <1>2, <2>2 DEF Passes, Exhausted
    <3>4. Counted(old[cap], now).count <= cap
      BY <3>1, <3>2, <3>3 DEF Counted
    <3>5. new = [old EXCEPT ![cap] = Counted(old[cap], now)]
      BY <1>2, <2>2 DEF IncLimiter
    <3> QED
      BY <3>1, <3>4, <3>5 DEF Within, Limiters
  <2> QED
    BY <2>1, <2>2
<1> QED
  BY <1>1, <1>2 DEF LimiterStep

LEMMA NewLimiterWithin == Within(NewLimiter(Caps))
BY StoreAssumption DEF Within, NewLimiter, NoWindow, Caps

LEMMA RateBoundWithin ==
    RateBound <=> \A s \in SessionId, k \in Key : Holds(s, k) =>
                     /\ Within(list[s].values[k].limiterRead)
                     /\ Within(list[s].values[k].limiterWrite)
BY DEF RateBound, Within, Holds, Stored

LEMMA RateBoundWithinNext ==
    RateBound' <=> \A s \in SessionId, k \in Key : Holds(s, k)' =>
                     /\ Within(list'[s].values[k].limiterRead)
                     /\ Within(list'[s].values[k].limiterWrite)
BY DEF RateBound, Within, Holds, Stored

LEMMA RateBoundStep ==
    ASSUME TypeOK, RateBound, [Next]_vars
    PROVE  RateBound'
<1>1. ASSUME NEW s \in SessionId, NEW k \in Key, Holds(s, k)'
      PROVE  /\ Within(list'[s].values[k].limiterRead)
             /\ Within(list'[s].values[k].limiterWrite)
  <2>1. KeyStep(s, k)
    BY NextKeys DEF EveryKeyStep
  <2>2. CASE Holds(s, k) /\ RecordStep(list[s].values[k], list'[s].values[k])
    <3>1. list[s].values[k] \in Values
      BY <2>2 DEF Holds, TypeOK, Items
    <3>2. /\ list[s].values[k].limiterRead \in Limiters
          /\ list[s].values[k].limiterWrite \in Limiters
      BY <3>1 DEF Values
    <3> QED
      BY <2>2, <3>2, RateBoundWithin, LimiterStepWithin DEF RecordStep
  <2>3. CASE \E d \in Data, lifetime \in Lifetime :
                list'[s].values[k] = NewValue(d, lifetime)
    BY <2>3, NewLimiterWithin DEF NewValue
  <2> QED
    BY <1>1, <2>1, <2>2, <2>3 DEF KeyStep
<1> QED
  BY <1>1, RateBoundWithinNext

\* Of the calls that name a limit, a window counts no more than that limit.
THEOREM RateIsBound == Spec => []RateBound
<1>1. Init => RateBound
  BY DEF Init, RateBound, Stored
<1>2. TypeOK /\ RateBound /\ [Next]_vars => RateBound'
  BY RateBoundStep
<1> QED
  BY <1>1, <1>2, TypeCorrect, PTL DEF Spec

LEMMA ChangeStep ==
    ASSUME TypeOK, [Next]_vars, NEW s \in SessionId, NEW k \in Key,
           HasKey(s, k), HasKey(s, k)',
           list[s].values[k].value # list'[s].values[k].value
    PROVE  list'[s].values[k].counterRecord = Inc(list[s].values[k].counterRecord)
<1>1. KeyStep(s, k)
  BY NextKeys DEF EveryKeyStep
<1>2. Holds(s, k)'
  BY DEF HasKey, Found, FoundKey, Holds
<1> QED
  BY <1>1, <1>2 DEF KeyStep, RecordStep, Moves

\* A value that stays readable never changes without its counter.
THEOREM ChangesMoveCounter == Spec => ChangesAreCounted
<1> DEFINE Counted_ ==
      \A s \in SessionId, k \in Key :
         /\ HasKey(s, k) /\ HasKey(s, k)'
         /\ list[s].values[k].value # list'[s].values[k].value
         => list'[s].values[k].counterRecord =
                Inc(list[s].values[k].counterRecord)
<1>1. TypeOK /\ [Next]_vars => [Counted_]_vars
  BY ChangeStep
<1> QED
  BY <1>1, TypeCorrect, PTL DEF Spec, ChangesAreCounted

-------------------------------------------------------------------------------
(* A session that can be found stays so, until the clock moves on.           *)

SessionsStay == \A s \in SessionId : Found(s) => Found(s)'

LEMMA SameSessionsStay ==
    ASSUME TypeOK, SameSessions
    PROVE  SessionsStay
BY DEF SameSessions, SessionsStay, Found, Actual

LEMMA RefuseStays ==
    ASSUME NEW op, NEW res, Refuse(op, res)
    PROVE  SessionsStay
BY DEF Refuse, table, SessionsStay, Found, Actual

LEMMA MoveEndStays ==
    ASSUME TypeOK, NEW op, NEW s \in SessionId, NEW e \in Nat, Found(s),
           e = 0 \/ e >= now, Update(op, [list EXCEPT ![s].tsEnd = e])
    PROVE  SessionsStay
<1> DEFINE item == [list[s] EXCEPT !.tsEnd = e]
<1>1. item \in Items /\ item.tsEnd = e
  BY HeldItem DEF Items
<1>2. list' = [list EXCEPT ![s] = item] /\ now' = now
  BY DEF Update
<1>3. list'[s] = item /\ \A t \in SessionId \ {s} : list'[t] = list[t]
  <2> HIDE DEF item
  <2> QED
    BY <1>2 DEF TypeOK
<1> HIDE DEF item
<1> QED
  BY <1>1, <1>2, <1>3, NullAssumption DEF SessionsStay, Found, Actual

LEMMA InsertStays ==
    ASSUME TypeOK, NEW op, NEW s \in SessionId, NEW lifetime \in Lifetime,
           ~Found(s), Insert(op, s, lifetime)
    PROVE  SessionsStay
<1>1. \A t \in SessionId \ {s} : list'[t] = list[t]
  BY DEF TypeOK, Insert
<1> QED
  BY <1>1 DEF Insert, SessionsStay, Found, Actual

LEMMA SweepStays ==
    ASSUME TypeOK, ClearInactive
    PROVE  SessionsStay
<1>1. ASSUME NEW s \in SessionId, Found(s)
      PROVE  Found(s)'
  <2>1. list[s] \in Items /\ list[s] # NoItem /\ s \in Stored
    BY <1>1, HeldItem DEF Found
  <2>2. s \notin Dead
    BY <1>1, <2>1 DEF TypeOK, Items, Found, Actual, Dead, Expired
  <2>3. list'[s] = Swept(list[s]) /\ now' = now
    BY <2>1, <2>2 DEF ClearInactive
  <2>4. Swept(list[s]) \in Items /\ Swept(list[s]).tsEnd = list[s].tsEnd
    BY <2>1, SweptType DEF Swept, Items
  <2> QED
    BY <1>1, <2>3, <2>4, NullAssumption DEF Found, Actual
<1> QED
  BY <1>1 DEF SessionsStay

LEMMA SessionOperationStays ==
    ASSUME TypeOK, ClockFits, SessionOperation
    PROVE  SessionsStay
<1>1. PICK s \in SessionId :
        \/ Exist(s) \/ Remove(s)
        \/ \E lifetime \in Lifetime :
              Add(s, lifetime) \/ Generate(s, lifetime) \/ Prolong(s, lifetime)
  BY DEF SessionOperation
<1>2. CASE Exist(s)
  BY <1>2, RefuseStays DEF Exist
<1>3. CASE Remove(s)
  BY <1>3, RefuseStays, MoveEndStays DEF Remove
<1>4. ASSUME NEW lifetime \in Lifetime, Add(s, lifetime) \/ Generate(s, lifetime)
      PROVE  SessionsStay
  BY <1>4, RefuseStays, InsertStays DEF Add, Generate, Found, Stored
<1>5. ASSUME NEW lifetime \in Lifetime, Prolong(s, lifetime)
      PROVE  SessionsStay
  <2> DEFINE e == IF lifetime # 0 THEN now + lifetime ELSE FarEnd
  <2>1. e \in Nat /\ e >= now
    BY StoreAssumption DEF TypeOK, FarEnd, ClockFits
  <2>2. \/ Refuse("prolong", "E_SESSION_NONE")
        \/ Found(s) /\ Update("prolong", [list EXCEPT ![s].tsEnd = e])
    BY <1>5 DEF Prolong
  <2> HIDE DEF e
  <2> QED
    BY <2>1, <2>2, RefuseStays, MoveEndStays
<1> QED
  BY <1>1, <1>2, <1>3, <1>4, <1>5

LEMMA NextStays ==
    ASSUME TypeOK, ClockFits, [Next]_vars
    PROVE  \/ SessionsStay /\ now' = now
           \/ reply'.op = "tick"
<1>1. CASE UNCHANGED vars
  BY <1>1 DEF vars, SessionsStay, Found, Actual
<1>2. CASE \E l \in Limits : SetLimit(l)
  BY <1>2 DEF SetLimit, SessionsStay, Found, Actual
<1>3. CASE Tick
  BY <1>3 DEF Tick, Answer
<1>4. CASE SessionOperation
  <2>1. now' = now
    BY <1>4 DEF SessionOperation, Exist, Remove, Add, Generate, Prolong, Refuse,
                Insert, Update
  <2> QED
    BY <1>4, <2>1, SessionOperationStays
<1>5. CASE KeyOperation \/ AllKeyOperation
  BY <1>5, KeyStepEffect, SameSessionsStay DEF KeyEffect, SameSessions
<1>6. CASE ClearInactive
  BY <1>6, SweepStays DEF ClearInactive
<1> QED
  BY <1>1, <1>2, <1>3, <1>4, <1>5, <1>6 DEF Next

\* A key that can be found no more, though its session can, is held no more.
LEMMA LostIsRemoved ==
    ASSUME TypeOK, [Next]_vars, SessionsStay, now' = now,
           NEW s \in SessionId, NEW k \in Key, Loses(s, k)
    PROVE  Removed /\ Holds(s, k) /\ ~Holds(s, k)'
<1>1. HasKey(s, k) /\ ~HasKey(s, k)' /\ Found(s)'
  BY DEF HasKey, SessionsStay, Loses
<1>2. KeyStep(s, k)
  BY NextKeys DEF EveryKeyStep
<1>3. CASE Holds(s, k)'
  <2>1. RecordStep(list[s].values[k], list'[s].values[k])
    BY <1>1, <1>2, <1>3 DEF KeyStep
  <2>2. Actual(list'[s].values[k].tsEnd)
    BY <1>1, <2>1 DEF RecordStep, HasKey, FoundKey
  <2>3. FoundKey(s, k)'
    BY <1>3, <2>2 DEF FoundKey, Holds, Actual
  <2> QED
    BY <1>1, <2>3 DEF HasKey
<1> QED
  BY <1>1, <1>2, <1>3, FoundIsHeld DEF KeyStep

\* An answer under a removal's name is that removal's.
LEMMA RemovalsAnswer ==
    ASSUME Next
    PROVE  /\ reply'.op = "removeKey" =>
                 \E s \in SessionId, k \in Key : RemoveKey(s, k)
           /\ reply'.op = "removeAllKey" => \E k \in Key : RemoveAllKey(k)
<1>1. CASE \E l \in Limits : SetLimit(l)
  BY <1>1 DEF SetLimit, Answer
<1>2. CASE Tick
  BY <1>2 DEF Tick, Answer
<1>3. CASE SessionOperation
  BY <1>3, SessionReplies DEF SessionOperation, Replies
<1>4. CASE KeyOperation
  <2>1. PICK s \in SessionId, k \in Key :
           \/ RemoveKey(s, k)
           \/ \E op \in {"existKey", "prolongKey", "addKey", "getKey", "setForceKey",
                         "setKey"} : Replies(op)
    BY <1>4, KeyReplies DEF KeyOperation
  <2> QED
    BY <2>1, KeyReplies DEF Replies
<1>5. CASE AllKeyOperation
  BY <1>5, KeyReplies DEF AllKeyOperation, Replies
<1>6. CASE ClearInactive
  BY <1>6 DEF ClearInactive, Answer
<1> QED
  BY <1>1, <1>2, <1>3, <1>4, <1>5, <1>6 DEF Next

LEMMA RemoveKeyTakesOne ==
    ASSUME TypeOK, NEW s \in SessionId, NEW k \in Key, RemoveKey(s, k),
           NEW r \in SessionId, NEW j \in Key, Holds(r, j), ~Holds(r, j)'
    PROVE  r = s /\ j = k
<1>1. list' # list
  BY DEF Holds
<1>2. Found(s) /\ list' = [list EXCEPT ![s].values[k] = NoValue]
  BY <1>1 DEF RemoveKey, Refuse, Update, table
<1>3. r = s
  BY <1>1, <1>2 DEF Holds, TypeOK
<1>4. list[s] \in Items /\ list[s] # NoItem
  BY <1>2, HeldItem DEF Found
<1>5. list'[s] = [list[s] EXCEPT !.values[k] = NoValue]
  BY <1>2 DEF TypeOK
<1>6. [list[s] EXCEPT !.values[k] = NoValue] \in Items
  BY <1>4, ReplaceValueType
<1>7. list'[s] # NoItem
  BY <1>5, <1>6, NullAssumption
<1>8. j # k => list'[s].values[j] = list[s].values[j]
  BY <1>4, <1>5 DEF Items
<1> QED
  BY <1>3, <1>4, <1>7, <1>8 DEF Holds

LEMMA RemoveAllKeyTakesOneName ==
    ASSUME TypeOK, NEW k \in Key, RemoveAllKey(k),
           NEW r \in SessionId, NEW j \in Key, Holds(r, j), ~Holds(r, j)'
    PROVE  j = k
<1>1. list'[r] = IF Reached(r) THEN [list[r] EXCEPT !.values[k] = NoValue] ELSE list[r]
  BY DEF RemoveAllKey, Update
<1>2. Reached(r)
  BY <1>1 DEF Holds
<1>3. list[r] \in Items /\ list[r] # NoItem
  BY <1>2 DEF Reached, Stored, TypeOK
<1>4. [list[r] EXCEPT !.values[k] = NoValue] \in Items
  BY <1>3, ReplaceValueType
<1>5. list'[r] # NoItem
  BY <1>1, <1>2, <1>4, NullAssumption
<1>6. j # k => list'[r].values[j] = list[r].values[j]
  BY <1>1, <1>2, <1>3 DEF Items
<1> QED
  BY <1>5, <1>6 DEF Holds

LEMMA LossStep ==
    ASSUME TypeOK, ClockFits, [Next]_vars, NEW s \in SessionId, NEW k \in Key,
           Loses(s, k)
    PROVE  \/ reply'.op = "tick"
           \/ /\ reply'.op = "removeKey"
              /\ \A r \in SessionId, j \in Key : Loses(r, j) => r = s /\ j = k
           \/ /\ reply'.op = "removeAllKey"
              /\ \A r \in SessionId, j \in Key : Loses(r, j) => j = k
<1>1. CASE SessionsStay /\ now' = now
  <2>1. \A r \in SessionId, j \in Key :
           Loses(r, j) => Removed /\ Holds(r, j) /\ ~Holds(r, j)'
    BY <1>1, LostIsRemoved
  <2>2. Next
    <3>1. vars' # vars
      BY <2>1 DEF vars, Holds
    <3> QED
      BY <3>1
  <2>3. CASE reply'.op = "removeKey"
    <3>1. PICK t \in SessionId, l \in Key : RemoveKey(t, l)
      BY <2>2, <2>3, RemovalsAnswer
    <3>2. \A r \in SessionId, j \in Key : Loses(r, j) => r = t /\ j = l
      BY <2>1, <3>1, RemoveKeyTakesOne
    <3> QED
      BY <2>3, <3>2
  <2>4. CASE reply'.op = "removeAllKey"
    <3>1. PICK l \in Key : RemoveAllKey(l)
      BY <2>2, <2>4, RemovalsAnswer
    <3>2. \A r \in SessionId, j \in Key : Loses(r, j) => j = l
      BY <2>1, <3>1, RemoveAllKeyTakesOneName
    <3> QED
      BY <2>4, <3>2
  <2> QED
    BY <2>1, <2>3, <2>4 DEF Removed
<1> QED
  BY <1>1, NextStays

\* While the clock stays below 2^32 - 1, the end prolong() gives a session that
\* asks for none, a key that can be read is lost to its removal or the clock
\* only, and a removal takes no other key with it.
THEOREM NothingLostSilently ==
    ASSUME StartTime <= FarEnd, MaxTime <= FarEnd
    PROVE  Spec => NoSilentLoss
<1> DEFINE Kept ==
      \A s \in SessionId, k \in Key : Loses(s, k) =>
         \/ reply'.op = "tick"
         \/ /\ reply'.op = "removeKey"
            /\ \A r \in SessionId, j \in Key : Loses(r, j) => r = s /\ j = k
         \/ /\ reply'.op = "removeAllKey"
            /\ \A r \in SessionId, j \in Key : Loses(r, j) => j = k
<1>1. TypeOK /\ ClockFits /\ [Next]_vars => [Kept]_vars
  BY LossStep
<1> QED
  BY <1>1, ClockStaysFit, TypeCorrect, PTL DEF Spec, NoSilentLoss

===============================================================================
