-------------------------- MODULE SessionStoreProofs --------------------------
(***************************************************************************)
(* What SessionStore guarantees for every set of identifiers, keys, values,*)
(* lifetimes and limits, and for a clock that never stops.                 *)
(***************************************************************************)
EXTENDS SessionStore, FiniteSetTheorems, TLAPS

-------------------------------------------------------------------------------
(* Lemmas on the operators.                                                 *)

\* Unsigned arithmetic stays unsigned, and is exact where nothing wraps.
LEMMA UIntMod_ ==
    ASSUME NEW a \in Int
    PROVE  /\ a % UIntMod \in UInt
           /\ a \in UInt => a % UIntMod = a
BY StoreAssumption DEF UInt

LEMMA IncType ==
    ASSUME NEW c \in UInt
    PROVE  Inc(c) \in UInt
BY UIntMod_, StoreAssumption DEF Inc, UInt

\* A limiter keeps its type, whatever limit is named.
LEMMA IncLimiterType ==
    ASSUME NEW limiter \in Limiters, NEW cap \in RateLimit, NEW t \in Nat
    PROVE  IncLimiter(limiter, cap, t) \in Limiters
<1>1. CASE cap = 0
  BY <1>1 DEF IncLimiter
<1>2. CASE cap # 0
  <2>1. cap \in Caps
    BY <1>2 DEF Caps
  <2>2. Counted(limiter[cap], t) \in [ts : Nat, count : Nat]
    BY <2>1 DEF Counted, Limiters
  <2> QED
    BY <1>2, <2>1, <2>2 DEF IncLimiter, Limiters
<1> QED
  BY <1>1, <1>2

LEMMA EndOfType ==
    ASSUME now \in Nat, NEW lifetime \in Lifetime
    PROVE  EndOf(lifetime) \in Nat
BY StoreAssumption DEF EndOf

LEMMA NewValueType ==
    ASSUME now \in Nat, NEW d \in Data, NEW lifetime \in Lifetime
    PROVE  NewValue(d, lifetime) \in Values
<1>1. NewLimiter(Caps) \in Limiters
  BY DEF NewLimiter, NoWindow, Limiters
<1>2. 0 \in UInt
  BY StoreAssumption DEF UInt
<1> QED
  BY <1>1, <1>2, EndOfType DEF NewValue, Values

LEMMA NewItemType ==
    ASSUME now \in Nat, NEW lifetime \in Lifetime
    PROVE  NewItem(lifetime) \in Items
<1>1. 0 \in UInt
  BY StoreAssumption DEF UInt
<1> QED
  BY <1>1, EndOfType DEF NewItem, Items

\* Replacing one value of a session leaves a session with the same end.
LEMMA ReplaceValueType ==
    ASSUME NEW item \in Items, NEW k \in Key, NEW v \in Values \cup {NoValue}
    PROVE  /\ [item EXCEPT !.values[k] = v] \in Items
           /\ [item EXCEPT !.values[k] = v].tsEnd = item.tsEnd
BY DEF Items

-------------------------------------------------------------------------------
(* What the operations on keys do, and leave alone.                         *)

ListOK == list \in [SessionId -> Items \cup {NoItem}]

\* No session comes, goes, or has its end moved.
SameSessions ==
    /\ UNCHANGED <<now, count, limit, totalFree>>
    /\ \A s \in SessionId :
          /\ list'[s] = NoItem <=> list[s] = NoItem
          /\ list[s] # NoItem => list'[s].tsEnd = list[s].tsEnd

KeyEffect == ListOK' /\ SameSessions /\ reply' \in [op : Operations, res : Results]

LEMMA RefuseEffect ==
    ASSUME TypeOK, NEW op \in Operations, NEW res \in Results, Refuse(op, res)
    PROVE  KeyEffect
BY DEF TypeOK, Refuse, Answer, KeyEffect, ListOK, SameSessions, table

\* An update that puts another record with the same end in one held session.
LEMMA UpdateEffect ==
    ASSUME TypeOK, NEW op \in Operations,
           NEW s \in Stored, NEW item \in Items, item.tsEnd = list[s].tsEnd,
           Update(op, [list EXCEPT ![s] = item])
    PROVE  KeyEffect
<1>1. s \in SessionId /\ list[s] # NoItem /\ item # NoItem
  BY NullAssumption DEF Stored
<1> QED
  BY <1>1 DEF TypeOK, Update, Answer, KeyEffect, ListOK, SameSessions, Results

LEMMA HeldItem ==
    ASSUME TypeOK, NEW s \in SessionId, Found(s)
    PROVE  s \in Stored /\ list[s] \in Items
BY DEF TypeOK, Found, Stored

LEMMA HeldValue ==
    ASSUME TypeOK, NEW s \in SessionId, NEW k \in Key, HasKey(s, k)
    PROVE  list[s].values[k] \in Values
BY HeldItem DEF HasKey, FoundKey, Items

LEMMA ReplaceEffect ==
    ASSUME TypeOK, NEW op \in Operations, NEW s \in SessionId, NEW k \in Key,
           NEW v \in Values \cup {NoValue}, Found(s),
           Update(op, [list EXCEPT ![s].values[k] = v])
    PROVE  KeyEffect
<1> DEFINE item == [list[s] EXCEPT !.values[k] = v]
<1>1. s \in Stored /\ list[s] \in Items
  BY HeldItem
<1>2. item \in Items /\ item.tsEnd = list[s].tsEnd
  BY <1>1, ReplaceValueType
<1>3. Update(op, [list EXCEPT ![s] = item])
  OBVIOUS
<1> HIDE DEF item
<1> QED
  BY <1>1, <1>2, <1>3, UpdateEffect

LEMMA NoKeyEffect ==
    ASSUME TypeOK, NEW op \in Operations, NEW s \in SessionId, NEW k \in Key,
           NoKey(op, s, k)
    PROVE  KeyEffect
BY RefuseEffect DEF NoKey, Results

LEMMA AddKeyEffect ==
    ASSUME TypeOK, NEW s \in SessionId, NEW k \in Key, NEW d \in Data,
           NEW lifetime \in Lifetime, AddKey(s, k, d, lifetime)
    PROVE  KeyEffect
<1> DEFINE v == NewValue(d, lifetime)
           item == [list[s] EXCEPT !.counterKeys = Inc(@), !.values[k] = v]
<1>1. CASE \E res \in Results : Refuse("addKey", res)
  BY <1>1, RefuseEffect DEF Operations
<1>2. CASE Found(s) /\ Update("addKey", [list EXCEPT ![s].counterKeys = Inc(@),
                                                     ![s].values[k] = v])
  <2>1. s \in Stored /\ list[s] \in Items
    BY <1>2, HeldItem
  <2>2. v \in Values
    BY NewValueType DEF TypeOK
  <2>3. Inc(list[s].counterKeys) \in UInt
    BY <2>1, IncType DEF Items
  <2>4. item \in Items /\ item.tsEnd = list[s].tsEnd
    <3> HIDE DEF v
    <3> QED
      BY <2>1, <2>2, <2>3 DEF Items
  <2>5. Update("addKey", [list EXCEPT ![s] = item])
    BY <1>2
  <2> HIDE DEF item
  <2> QED
    BY <2>1, <2>4, <2>5, UpdateEffect DEF Operations
<1> QED
  BY <1>1, <1>2 DEF AddKey, Results

LEMMA ProlongKeyEffect ==
    ASSUME TypeOK, NEW s \in SessionId, NEW k \in Key, NEW lifetime \in Lifetime,
           ProlongKey(s, k, lifetime)
    PROVE  KeyEffect
<1> DEFINE v == [list[s].values[k] EXCEPT !.tsEnd = EndOf(lifetime)]
<1>1. CASE \E res \in Results : Refuse("prolongKey", res)
  BY <1>1, RefuseEffect DEF Operations
<1>2. CASE HasKey(s, k) /\ Update("prolongKey",
               [list EXCEPT ![s].values[k].tsEnd = EndOf(lifetime)])
  <2>1. v \in Values
    BY <1>2, HeldValue, EndOfType DEF TypeOK, Values
  <2>2. Update("prolongKey", [list EXCEPT ![s].values[k] = v])
    BY <1>2
  <2> HIDE DEF v
  <2> QED
    BY <1>2, <2>1, <2>2, ReplaceEffect DEF HasKey, Operations
<1> QED
  BY <1>1, <1>2 DEF ProlongKey, HasKey, Results

LEMMA WriteEffect ==
    ASSUME TypeOK, NEW op \in Operations, NEW s \in SessionId, NEW k \in Key,
           NEW d \in Data, NEW cap \in RateLimit,
           HasKey(s, k), Write(op, s, k, d, cap)
    PROVE  KeyEffect
<1> DEFINE old == list[s].values[k]
           v == [old EXCEPT !.value = d, !.counterRecord = Inc(@),
                            !.limiterWrite = IncLimiter(@, cap, now)]
<1>1. CASE Refuse(op, "E_LIMIT_PER_SEC_EXCEEDED")
  BY <1>1, RefuseEffect DEF Results
<1>2. CASE Update(op, [list EXCEPT ![s].values[k] = v])
  <2>1. old \in Values
    BY HeldValue
  <2>2. Inc(old.counterRecord) \in UInt
    BY <2>1, IncType DEF Values
  <2>3. IncLimiter(old.limiterWrite, cap, now) \in Limiters
    BY <2>1, IncLimiterType DEF Values, TypeOK
  <2>4. v \in Values
    <3> HIDE DEF old
    <3> QED
      BY <2>1, <2>2, <2>3 DEF Values
  <2> HIDE DEF v
  <2> QED
    BY <1>2, <2>4, ReplaceEffect DEF HasKey
<1> QED
  BY <1>1, <1>2 DEF Write

LEMMA GetKeyEffect ==
    ASSUME TypeOK, NEW s \in SessionId, NEW k \in Key, NEW cap \in RateLimit,
           GetKey(s, k, cap)
    PROVE  KeyEffect
<1> DEFINE old == list[s].values[k]
           v == [old EXCEPT !.limiterRead = IncLimiter(@, cap, now)]
<1>1. CASE NoKey("getKey", s, k) \/ Refuse("getKey", "E_LIMIT_PER_SEC_EXCEEDED")
  BY <1>1, NoKeyEffect, RefuseEffect DEF Results, Operations
<1>2. CASE /\ HasKey(s, k)
           /\ Update("getKey", [list EXCEPT
                  ![s].values[k].limiterRead = IncLimiter(@, cap, now)])
  <2>1. old \in Values
    BY <1>2, HeldValue
  <2>2. IncLimiter(old.limiterRead, cap, now) \in Limiters
    BY <2>1, IncLimiterType DEF Values, TypeOK
  <2>3. v \in Values
    <3> HIDE DEF old
    <3> QED
      BY <2>1, <2>2 DEF Values
  <2>4. Update("getKey", [list EXCEPT ![s].values[k] = v])
    BY <1>2
  <2> HIDE DEF v
  <2> QED
    BY <1>2, <2>3, <2>4, ReplaceEffect DEF HasKey, Operations
<1> QED
  BY <1>1, <1>2 DEF GetKey

LEMMA RemoveKeyEffect ==
    ASSUME TypeOK, NEW s \in SessionId, NEW k \in Key, RemoveKey(s, k)
    PROVE  KeyEffect
<1>1. CASE Refuse("removeKey", "E_SESSION_NONE")
  BY <1>1, RefuseEffect DEF Operations, Results
<1>2. CASE Found(s) /\ Update("removeKey",
               [list EXCEPT ![s].values[k] = NoValue])
  BY <1>2, ReplaceEffect DEF Operations
<1> QED
  BY <1>1, <1>2 DEF RemoveKey

LEMMA AddAllKeyEffect ==
    ASSUME TypeOK, NEW k \in Key, NEW d \in Data, AddAllKey(k, d)
    PROVE  KeyEffect
<1> DEFINE v == NewValue(d, 0)
           put(s) == [list[s] EXCEPT !.values[k] = v]
<1>1. v \in Values
  BY NewValueType, StoreAssumption DEF TypeOK
<1>2. ASSUME NEW s \in SessionId
      PROVE  Reached(s) => put(s) \in Items /\ put(s).tsEnd = list[s].tsEnd
  <2>1. Reached(s) => list[s] \in Items
    BY DEF TypeOK, Reached, Stored
  <2> HIDE DEF v
  <2> QED
    BY <1>1, <2>1, ReplaceValueType
<1>3. \A s \in SessionId :
         list'[s] = IF Reached(s) /\ list[s].values[k] = NoValue
                      THEN put(s) ELSE list[s]
  BY DEF AddAllKey, Update
<1>4. list' \in [SessionId -> Items \cup {NoItem}]
  <2>1. list' = [s \in SessionId |-> list'[s]]
    BY DEF AddAllKey, Update
  <2> HIDE DEF v, put
  <2> QED
    BY <1>2, <1>3, <2>1 DEF TypeOK
<1>5. SameSessions
  <2> HIDE DEF v, put
  <2> QED
    BY <1>2, <1>3, NullAssumption
       DEF AddAllKey, Update, SameSessions, Reached, Stored
<1> QED
  BY <1>4, <1>5 DEF AddAllKey, Update, Answer, KeyEffect, ListOK, Operations,
                    Results

LEMMA RemoveAllKeyEffect ==
    ASSUME TypeOK, NEW k \in Key, RemoveAllKey(k)
    PROVE  KeyEffect
<1> DEFINE put(s) == [list[s] EXCEPT !.values[k] = NoValue]
<1>1. ASSUME NEW s \in SessionId
      PROVE  Reached(s) => put(s) \in Items /\ put(s).tsEnd = list[s].tsEnd
  BY ReplaceValueType DEF TypeOK, Reached, Stored
<1>2. \A s \in SessionId :
         list'[s] = IF Reached(s) THEN put(s) ELSE list[s]
  BY DEF RemoveAllKey, Update
<1>3. list' \in [SessionId -> Items \cup {NoItem}]
  <2>1. list' = [s \in SessionId |-> list'[s]]
    BY DEF RemoveAllKey, Update
  <2> HIDE DEF put
  <2> QED
    BY <1>1, <1>2, <2>1 DEF TypeOK
<1>4. SameSessions
  <2> HIDE DEF put
  <2> QED
    BY <1>1, <1>2, NullAssumption
       DEF RemoveAllKey, Update, SameSessions, Reached, Stored
<1> QED
  BY <1>3, <1>4 DEF RemoveAllKey, Update, Answer, KeyEffect, ListOK,
                    Operations, Results

LEMMA KeyStepEffect ==
    ASSUME TypeOK, KeyOperation \/ AllKeyOperation
    PROVE  KeyEffect
<1>1. CASE KeyOperation
  <2>1. PICK s \in SessionId, k \in Key :
          \/ ExistKey(s, k) \/ RemoveKey(s, k)
          \/ \E lifetime \in Lifetime : ProlongKey(s, k, lifetime)
          \/ \E d \in Data, lifetime \in Lifetime : AddKey(s, k, d, lifetime)
          \/ \E cap \in RateLimit :
                \/ GetKey(s, k, cap)
                \/ \E d \in Data : SetForceKey(s, k, d, cap)
                \/ \E d \in Data, keys, record \in 0 .. MaxCounter :
                      SetKey(s, k, d, keys, record, cap)
    BY <1>1 DEF KeyOperation
  <2>2. CASE ExistKey(s, k)
    BY <2>2, NoKeyEffect, RefuseEffect DEF ExistKey, Operations, Results
  <2>3. CASE RemoveKey(s, k)
    BY <2>3, RemoveKeyEffect
  <2>4. CASE \E lifetime \in Lifetime : ProlongKey(s, k, lifetime)
    BY <2>4, ProlongKeyEffect
  <2>5. CASE \E d \in Data, lifetime \in Lifetime : AddKey(s, k, d, lifetime)
    BY <2>5, AddKeyEffect
  <2>6. CASE \E cap \in RateLimit : GetKey(s, k, cap)
    BY <2>6, GetKeyEffect
  <2>7. ASSUME NEW cap \in RateLimit, NEW d \in Data, SetForceKey(s, k, d, cap)
        PROVE  KeyEffect
    BY <2>7, NoKeyEffect, WriteEffect DEF SetForceKey, Operations
  <2>8. ASSUME NEW cap \in RateLimit, NEW d \in Data,
               NEW keys \in 0 .. MaxCounter, NEW record \in 0 .. MaxCounter,
               SetKey(s, k, d, keys, record, cap)
        PROVE  KeyEffect
    BY <2>8, NoKeyEffect, RefuseEffect, WriteEffect
       DEF SetKey, Operations, Results
  <2> QED
    BY <2>1, <2>2, <2>3, <2>4, <2>5, <2>6, <2>7, <2>8
<1>2. CASE AllKeyOperation
  BY <1>2, AddAllKeyEffect, RemoveAllKeyEffect DEF AllKeyOperation
<1> QED
  BY <1>1, <1>2

\* An operation of the store answers under its own name.
Replies(op) == reply'.op = op /\ reply'.res \in Results

LEMMA AnswerReplies ==
    /\ \A op, res : res \in Results /\ Refuse(op, res) => Replies(op)
    /\ \A op, l : Update(op, l) => Replies(op)
BY DEF Refuse, Update, Answer, Replies, Results

LEMMA SessionReplies ==
    ASSUME NEW s, NEW n
    PROVE  /\ Generate(s, n) => Replies("generate")
           /\ Exist(s) => Replies("exist")
           /\ Remove(s) => Replies("remove")
           /\ Prolong(s, n) => Replies("prolong")
           /\ Add(s, n) => Replies("add")
<1>1. \A op : Insert(op, s, n) => Replies(op)
  BY DEF Insert, Answer, Replies, Results
<1> QED
  BY <1>1, AnswerReplies DEF Generate, Exist, Remove, Prolong, Add, Results

LEMMA KeyReplies ==
    ASSUME NEW s, NEW k, NEW d, NEW keys, NEW record, NEW n
    PROVE  /\ AddKey(s, k, d, n) => Replies("addKey")
           /\ ExistKey(s, k) => Replies("existKey")
           /\ ProlongKey(s, k, n) => Replies("prolongKey")
           /\ SetKey(s, k, d, keys, record, n) => Replies("setKey")
           /\ SetForceKey(s, k, d, n) => Replies("setForceKey")
           /\ GetKey(s, k, n) => Replies("getKey")
           /\ RemoveKey(s, k) => Replies("removeKey")
           /\ AddAllKey(k, d) => Replies("addAllKey")
           /\ RemoveAllKey(k) => Replies("removeAllKey")
<1>1. \A op : NoKey(op, s, k) => Replies(op)
  BY AnswerReplies DEF NoKey, Results
<1>2. \A op : Write(op, s, k, d, n) => Replies(op)
  BY AnswerReplies DEF Write, Results
<1>3. AddKey(s, k, d, n) => Replies("addKey")
  BY AnswerReplies DEF AddKey, Results
<1>4. ProlongKey(s, k, n) => Replies("prolongKey")
  BY AnswerReplies DEF ProlongKey, Results
<1>5. SetKey(s, k, d, keys, record, n) => Replies("setKey")
  BY <1>1, <1>2, AnswerReplies DEF SetKey, Results
<1>6. GetKey(s, k, n) => Replies("getKey")
  BY <1>1, AnswerReplies DEF GetKey, Results
<1>7. ExistKey(s, k) => Replies("existKey")
  BY <1>1, AnswerReplies DEF ExistKey, Results
<1>8. SetForceKey(s, k, d, n) => Replies("setForceKey")
  BY <1>1, <1>2 DEF SetForceKey
<1>9. /\ RemoveKey(s, k) => Replies("removeKey")
      /\ AddAllKey(k, d) => Replies("addAllKey")
      /\ RemoveAllKey(k) => Replies("removeAllKey")
  BY AnswerReplies DEF RemoveKey, AddAllKey, RemoveAllKey, Results
<1> QED
  BY <1>3, <1>4, <1>5, <1>6, <1>7, <1>8, <1>9

-------------------------------------------------------------------------------
(* The inductive invariant: CountSound is the strengthening LimitRespected  *)
(* needs, since the code compares _count, never the size of the list.       *)

IInv == TypeOK /\ CountSound /\ FreeSessionsReported

LEMMA StoredFinite == IsFiniteSet(Stored) /\ Cardinality(Stored) \in Nat
<1>1. Stored \subseteq SessionId
  BY DEF Stored
<1>2. IsFiniteSet(Stored)
  BY <1>1, StoreAssumption, FS_Subset
<1> QED
  BY <1>2, FS_CardinalityType

\* When no session comes or goes and neither count nor limit moves, the
\* counting is as sound as it was.
LEMMA SameHeld ==
    ASSUME IInv, TypeOK', UNCHANGED <<count, limit, totalFree>>,
           \A s \in SessionId : list'[s] = NoItem <=> list[s] = NoItem
    PROVE  IInv'
<1>1. Stored' = Stored
  BY DEF Stored
<1> QED
  BY <1>1 DEF IInv, CountSound, FreeSessionsReported

LEMMA KeyStepInv ==
    ASSUME IInv, KeyOperation \/ AllKeyOperation
    PROVE  IInv'
<1>1. KeyEffect
  BY KeyStepEffect DEF IInv
<1>2. TypeOK'
  BY <1>1 DEF KeyEffect, ListOK, SameSessions, IInv, TypeOK
<1> QED
  BY <1>1, <1>2, SameHeld DEF KeyEffect, SameSessions

LEMMA RefuseInv ==
    ASSUME IInv, NEW op \in Operations, NEW res \in Results, Refuse(op, res)
    PROVE  IInv'
<1>1. TypeOK'
  BY DEF IInv, TypeOK, Refuse, Answer, table
<1> QED
  BY <1>1, SameHeld DEF Refuse, table

\* Moving the end of one session, as remove and prolong do.
LEMMA MoveEndInv ==
    ASSUME IInv, NEW op \in Operations, NEW s \in SessionId, NEW e \in Nat,
           Found(s), Update(op, [list EXCEPT ![s].tsEnd = e])
    PROVE  IInv'
<1> DEFINE item == [list[s] EXCEPT !.tsEnd = e]
<1>1. list[s] \in Items /\ list[s] # NoItem
  BY HeldItem DEF IInv, Stored
<1>2. item \in Items
  BY <1>1 DEF Items
<1>3. list' = [list EXCEPT ![s] = item]
  BY DEF Update
<1> HIDE DEF item
<1>4. TypeOK'
  BY <1>2, <1>3 DEF IInv, TypeOK, Update, Answer, Results
<1> QED
  BY <1>1, <1>2, <1>3, <1>4, SameHeld, NullAssumption DEF IInv, TypeOK, Update

LEMMA RoomLeft ==
    ASSUME IInv, limit # Unset, ~Full
    PROVE  count \in Nat /\ limit \in Nat /\ count < limit /\ limit < UIntMod
BY StoreAssumption DEF IInv, TypeOK, CountSound, Full, UInt

LEMMA InsertInv ==
    ASSUME IInv, limit # Unset, ~Full, NEW op \in Operations,
           NEW s \in SessionId, NEW lifetime \in Lifetime,
           Insert(op, s, lifetime)
    PROVE  IInv'
<1> DEFINE item == NewItem(lifetime)
<1>1. item \in Items /\ item # NoItem
  BY NewItemType, NullAssumption DEF IInv, TypeOK
<1>2. list' = [list EXCEPT ![s] = item]
  BY DEF Insert
<1> HIDE DEF item
<1>3. /\ count \in Nat /\ limit \in Nat /\ count < limit /\ limit < UIntMod
      /\ limit' = limit
  BY RoomLeft DEF Insert
<1>4. count' = count + 1
  BY <1>3, UIntMod_, StoreAssumption DEF Insert, Inc, UInt
<1>5. totalFree' = limit - count'
  <2>1. limit - count' \in UInt
    BY <1>3, <1>4, StoreAssumption DEF UInt
  <2>2. totalFree' = (limit - count') % UIntMod
    BY DEF Insert, ReportFree
  <2> QED
    BY <2>1, <2>2, UIntMod_ DEF UInt
<1>6. TypeOK'
  <2>1. count' \in UInt /\ totalFree' \in UInt
    BY <1>3, <1>4, <1>5, StoreAssumption DEF UInt
  <2>2. reply' \in [op : Operations, res : Results]
    BY DEF Insert, Answer, Results
  <2>3. list' \in [SessionId -> Items \cup {NoItem}]
    BY <1>1, <1>2 DEF IInv, TypeOK
  <2>4. UNCHANGED <<now, limit>>
    BY DEF Insert
  <2> QED
    BY <2>1, <2>2, <2>3, <2>4 DEF IInv, TypeOK
<1>7. Cardinality(Stored') <= count'
  <2>1. Stored' = Stored \cup {s}
    BY <1>1, <1>2 DEF IInv, TypeOK, Stored
  <2>2. Cardinality(Stored') =
          IF s \in Stored THEN Cardinality(Stored) ELSE Cardinality(Stored) + 1
    BY <2>1, StoredFinite, FS_AddElement
  <2>3. Cardinality(Stored) <= count
    BY DEF IInv, CountSound
  <2> QED
    BY <1>3, <1>4, <2>2, <2>3, StoredFinite
<1> QED
  BY <1>3, <1>4, <1>5, <1>6, <1>7 DEF IInv, CountSound, FreeSessionsReported

LEMMA SweptType ==
    ASSUME NEW item \in Items
    PROVE  Swept(item) \in Items /\ Swept(item).tsEnd = item.tsEnd
BY DEF Swept, Items

\* What the sweep leaves in the list, and what it takes off the count.
LEMMA SweepEffect ==
    ASSUME IInv, ClearInactive
    PROVE  /\ ListOK'
           /\ Stored' = Stored \ Dead
           /\ \A s \in Stored' : list'[s].tsEnd = list[s].tsEnd
           /\ Cardinality(Stored') = Cardinality(Stored) - Cardinality(Dead)
           /\ Cardinality(Dead) \in Nat /\ Cardinality(Stored') \in Nat
<1> DEFINE kept == Stored \ Dead
<1>1. \A s \in SessionId :
         list'[s] = IF s \in kept THEN Swept(list[s]) ELSE NoItem
  BY DEF ClearInactive
<1>2. \A s \in kept : /\ Swept(list[s]) \in Items
                      /\ Swept(list[s]).tsEnd = list[s].tsEnd
  BY SweptType DEF IInv, TypeOK, Stored
<1>3. list' = [s \in SessionId |-> list'[s]]
  BY DEF ClearInactive
<1>4. ListOK'
  <2> HIDE DEF kept
  <2> QED
    BY <1>1, <1>2, <1>3 DEF ListOK
<1>5. Stored' = kept
  <2>1. kept \subseteq SessionId
    BY DEF Stored
  <2> HIDE DEF kept
  <2> QED
    BY <1>1, <1>2, <2>1, NullAssumption DEF Stored
<1>6. \A s \in Stored' : list'[s].tsEnd = list[s].tsEnd
  BY <1>1, <1>2, <1>5 DEF Stored
<1>7. Dead \subseteq Stored /\ IsFiniteSet(Dead)
  BY StoredFinite, FS_Subset DEF Dead
<1>8. Stored \cap Dead = Dead
  BY <1>7
<1>9. /\ Cardinality(kept) = Cardinality(Stored) - Cardinality(Dead)
      /\ IsFiniteSet(kept)
  BY <1>8, StoredFinite, FS_Difference
<1> QED
  BY <1>4, <1>5, <1>6, <1>7, <1>9, FS_CardinalityType

LEMMA ClearInactiveInv ==
    ASSUME IInv, limit # Unset, ClearInactive
    PROVE  IInv'
<1>1. /\ count \in Nat /\ limit \in Nat /\ count <= limit /\ limit < UIntMod
      /\ Cardinality(Stored) <= count
  BY StoreAssumption DEF IInv, TypeOK, CountSound, UInt
<1>2. count' = count - Cardinality(Dead) /\ count' \in UInt /\ count' <= limit
  <2>1. count - Cardinality(Dead) \in UInt
    BY <1>1, StoredFinite, SweepEffect, StoreAssumption DEF UInt
  <2>2. count' = (count - Cardinality(Dead)) % UIntMod
    BY DEF ClearInactive
  <2>3. count' = count - Cardinality(Dead)
    BY <2>1, <2>2, UIntMod_ DEF UInt
  <2> QED
    BY <1>1, <2>1, <2>3, SweepEffect
<1>3. totalFree' = limit - count' /\ totalFree' \in UInt
  <2>1. limit - count' \in UInt
    BY <1>1, <1>2, StoreAssumption DEF UInt
  <2>2. CASE Dead = {}
    BY <1>1, <1>2, <2>1, <2>2, FS_EmptySet
       DEF ClearInactive, IInv, FreeSessionsReported
  <2>3. CASE Dead # {}
    <3>1. totalFree' = (limit - count') % UIntMod
      BY <2>3 DEF ClearInactive, ReportFree
    <3> QED
      BY <2>1, <3>1, UIntMod_ DEF UInt
  <2> QED
    BY <2>2, <2>3
<1>4. Cardinality(Stored') <= count'
  BY <1>1, <1>2, SweepEffect, StoredFinite
<1>5. reply' \in [op : Operations, res : Results]
  BY DEF ClearInactive, Answer, Operations, Results
<1>6. UNCHANGED <<now, limit>>
  BY DEF ClearInactive
<1>7. TypeOK'
  BY <1>2, <1>3, <1>5, <1>6, SweepEffect DEF IInv, TypeOK, ListOK
<1> QED
  BY <1>1, <1>2, <1>3, <1>4, <1>6, <1>7 DEF IInv, CountSound, FreeSessionsReported

LEMMA SetLimitInv ==
    ASSUME IInv, NEW l \in Limits, SetLimit(l)
    PROVE  IInv'
<1>1. l \in UInt /\ l # 0 /\ l # Unset /\ l \in Nat
  BY StoreAssumption DEF UInt
<1>2. /\ count = 0 /\ count' = 0 /\ limit' = l /\ totalFree' = l
      /\ list' = list /\ now' = now
  BY <1>1 DEF SetLimit, IInv, CountSound
<1>3. Stored' = Stored /\ Cardinality(Stored) <= 0
  BY <1>2 DEF Stored, IInv, CountSound
<1>4. reply' \in [op : Operations, res : Results]
  BY DEF SetLimit, Answer, Operations, Results
<1>5. TypeOK'
  BY <1>1, <1>2, <1>4 DEF IInv, TypeOK
<1> QED
  BY <1>1, <1>2, <1>3, <1>5 DEF IInv, CountSound, FreeSessionsReported

LEMMA SessionStepInv ==
    ASSUME IInv, limit # Unset, SessionOperation
    PROVE  IInv'
<1>1. PICK s \in SessionId :
        \/ Exist(s) \/ Remove(s)
        \/ \E lifetime \in Lifetime :
              Add(s, lifetime) \/ Generate(s, lifetime) \/ Prolong(s, lifetime)
  BY DEF SessionOperation
<1>2. CASE Exist(s)
  BY <1>2, RefuseInv DEF Exist, Operations, Results
<1>3. CASE Remove(s)
  BY <1>3, RefuseInv, MoveEndInv DEF Remove, Operations, Results
<1>4. ASSUME NEW lifetime \in Lifetime, Add(s, lifetime)
      PROVE  IInv'
  BY <1>4, RefuseInv, InsertInv DEF Add, Operations, Results
<1>5. ASSUME NEW lifetime \in Lifetime, Generate(s, lifetime)
      PROVE  IInv'
  BY <1>5, RefuseInv, InsertInv DEF Generate, Operations, Results
<1>6. ASSUME NEW lifetime \in Lifetime, Prolong(s, lifetime)
      PROVE  IInv'
  <2> DEFINE e == IF lifetime # 0 THEN now + lifetime ELSE FarEnd
  <2>1. e \in Nat
    BY StoreAssumption DEF IInv, TypeOK, FarEnd
  <2>2. \/ Refuse("prolong", "E_SESSION_NONE")
        \/ Found(s) /\ Update("prolong", [list EXCEPT ![s].tsEnd = e])
    BY <1>6 DEF Prolong
  <2> HIDE DEF e
  <2> QED
    BY <2>1, <2>2, RefuseInv, MoveEndInv DEF Operations, Results
<1> QED
  BY <1>1, <1>2, <1>3, <1>4, <1>5, <1>6

LEMMA TickInv ==
    ASSUME IInv, Tick
    PROVE  IInv'
<1>1. TypeOK'
  BY DEF IInv, TypeOK, Tick, Answer, Operations, Results, table
<1> QED
  BY <1>1, SameHeld DEF Tick, table

LEMMA InitInv == Init => IInv
<1> SUFFICES ASSUME Init PROVE IInv
  OBVIOUS
<1>1. TypeOK
  BY StoreAssumption DEF Init, TypeOK, UInt, Operations, Results
<1>2. Stored = {}
  BY DEF Init, Stored
<1> QED
  BY <1>1, <1>2, FS_EmptySet DEF Init, IInv, CountSound, FreeSessionsReported

LEMMA NextInv == IInv /\ [Next]_vars => IInv'
<1> SUFFICES ASSUME IInv, [Next]_vars PROVE IInv'
  OBVIOUS
<1>1. CASE UNCHANGED vars
  <2>1. TypeOK'
    BY <1>1 DEF IInv, TypeOK, vars
  <2> QED
    BY <1>1, <2>1, SameHeld DEF vars
<1>2. CASE \E l \in Limits : SetLimit(l)
  BY <1>2, SetLimitInv
<1>3. CASE Tick
  BY <1>3, TickInv
<1>4. CASE limit # Unset /\ SessionOperation
  BY <1>4, SessionStepInv
<1>5. CASE KeyOperation \/ AllKeyOperation
  BY <1>5, KeyStepInv
<1>6. CASE limit # Unset /\ ClearInactive
  BY <1>6, ClearInactiveInv
<1> QED
  BY <1>1, <1>2, <1>3, <1>4, <1>5, <1>6 DEF Next

LEMMA Invariance == Spec => []IInv
BY InitInv, NextInv, PTL DEF Spec

\* Every counter the store keeps in an unsigned int stays one, and the list
\* and the records in it keep their shape, through every operation.
THEOREM TypeCorrect == Spec => []TypeOK
BY Invariance, PTL DEF IInv

\* The count that `add` and `generate` compare with the limit never falls below
\* the sessions held: no decrement of the sweep wraps, whatever was replaced.
THEOREM CountIsSound == Spec => []CountSound
BY Invariance, PTL DEF IInv

\* The statistics report exactly the sessions `add` would still accept.
THEOREM FreeSessionsAreReported == Spec => []FreeSessionsReported
BY Invariance, PTL DEF IInv

\* The server never holds more sessions than the limit it was started with.
THEOREM LimitIsRespected == Spec => []LimitRespected
<1>1. IInv => LimitRespected
  BY StoredFinite, StoreAssumption
     DEF IInv, TypeOK, CountSound, LimitRespected, UInt
<1> QED
  BY <1>1, Invariance, PTL

-------------------------------------------------------------------------------
(* The store implements SessionLifecycle.                                   *)

\* The end that prolong() writes for "no end" has not passed.
ClockFits == now <= FarEnd

LEMMA ClockStaysFit ==
    ASSUME StartTime <= FarEnd, MaxTime <= FarEnd
    PROVE  Spec => []ClockFits
<1>1. Init => ClockFits
  BY DEF Init, ClockFits
<1>2. TypeOK /\ ClockFits /\ [Next]_vars => ClockFits'
  <2> SUFFICES ASSUME TypeOK, ClockFits, [Next]_vars PROVE ClockFits'
    OBVIOUS
  <2>1. FarEnd \in Nat /\ now \in Nat
    BY StoreAssumption DEF FarEnd, TypeOK
  <2>2. CASE Tick
    BY <2>1, <2>2, StoreAssumption DEF Tick, ClockFits
  <2>3. CASE ~Tick
    <3>1. now' = now
      BY <2>3, KeyStepEffect
         DEF Next, vars, SetLimit, SessionOperation, Exist, Remove, Add,
             Generate, Prolong, Refuse, Insert, Update, KeyEffect, SameSessions,
             ClearInactive
    <3> QED
      BY <3>1 DEF ClockFits
  <2> QED
    BY <2>2, <2>3
<1> QED
  BY <1>1, <1>2, TypeCorrect, PTL DEF Spec

Seen == <<Stored, Ends, now, limit>>

\* The sessions that run are those the operations find.
LEMMA LiveIsFound ==
    /\ Lifecycle!Live = {s \in Stored : Found(s)}
    /\ Lifecycle!Lapsed = {s \in Stored : ~Found(s)}
BY DEF Lifecycle!Live, Lifecycle!Runs, Lifecycle!Lapsed, Ends, Stored, Found,
       Actual

LEMMA SameSeen ==
    ASSUME SameSessions
    PROVE  UNCHANGED Seen
<1>1. Stored' = Stored
  BY DEF SameSessions, Stored
<1> QED
  BY <1>1 DEF SameSessions, Seen, Ends, Stored

LEMMA RefuseSeen ==
    ASSUME NEW op, NEW res, Refuse(op, res)
    PROVE  UNCHANGED Seen
BY DEF Refuse, table, Seen, Stored, Ends

\* The instance has a Cardinality of its own, defined the same way.
LEMMA SameCardinality ==
    \A S : Lifecycle!Cardinality(S) = Cardinality(S)
BY DEF Cardinality, Lifecycle!Cardinality

LEMMA OpenStep ==
    ASSUME IInv, limit # Unset, ~Full, NEW op \in {"add", "generate"},
           NEW s \in SessionId, ~Found(s), op = "generate" => s \notin Stored,
           NEW lifetime \in Lifetime, Insert(op, s, lifetime)
    PROVE  Lifecycle!Open(s)
<1> DEFINE item == NewItem(lifetime)
<1>1. item # NoItem /\ item.tsEnd \in Nat /\ (item.tsEnd = 0 \/ item.tsEnd >= now)
  <2>1. item \in Items /\ now \in Nat
    BY NewItemType DEF IInv, TypeOK
  <2> QED
    BY <2>1, NullAssumption, StoreAssumption DEF NewItem, EndOf, Items
<1>2. /\ list' = [list EXCEPT ![s] = item] /\ now' = now /\ limit' = limit
      /\ reply'.op = op
  BY DEF Insert, Answer
<1> HIDE DEF item
<1>3. Stored' = Stored \cup {s} /\ list'[s] = item
  BY <1>1, <1>2 DEF IInv, TypeOK, Stored
<1>4. Ends'[s] = item.tsEnd
  BY <1>2, <1>3 DEF Ends
<1>5. \A r \in Stored' \ {s} : Ends'[r] = Ends[r]
  BY <1>2, <1>3 DEF IInv, TypeOK, Ends, Stored
<1>6. s \notin Stored => Lifecycle!Cardinality(Stored) < limit
  BY RoomLeft, StoredFinite, SameCardinality DEF IInv, CountSound
<1>7. s \in Stored => s \in Lifecycle!Lapsed
  BY LiveIsFound
<1> QED
  BY <1>1, <1>2, <1>3, <1>4, <1>5, <1>6, <1>7
     DEF Lifecycle!Open, Lifecycle!Runs, Lifecycle!OthersKeepEnd

LEMMA MoveEndStep ==
    ASSUME TypeOK, NEW op \in {"prolong", "remove"}, NEW s \in Stored,
           NEW e \in Nat, e = 0 \/ e >= now,
           Update(op, [list EXCEPT ![s].tsEnd = e])
    PROVE  Lifecycle!MoveEnd(s)
<1>1. s \in SessionId /\ list[s] \in Items
  BY DEF TypeOK, Stored
<1>2. [list[s] EXCEPT !.tsEnd = e] \in Items
  BY <1>1 DEF Items
<1>3. /\ list' = [list EXCEPT ![s] = [list[s] EXCEPT !.tsEnd = e]]
      /\ now' = now /\ limit' = limit /\ reply'.op = op
  BY DEF Update, Answer
<1>4. list'[s].tsEnd = e /\ list'[s] # NoItem
  BY <1>1, <1>2, <1>3, NullAssumption DEF TypeOK, Items
<1>5. \A r \in SessionId \ {s} : list'[r] = list[r]
  BY <1>3 DEF TypeOK
<1>6. Stored' = Stored
  BY <1>4, <1>5 DEF Stored
<1>7. Ends'[s] = e
  BY <1>1, <1>4, <1>6 DEF Ends
<1>8. \A r \in Stored' \ {s} : Ends'[r] = Ends[r]
  BY <1>5, <1>6 DEF Ends, Stored
<1> QED
  BY <1>3, <1>6, <1>7, <1>8
     DEF Lifecycle!MoveEnd, Lifecycle!Runs, Lifecycle!OthersKeepEnd

LEMMA PassStep ==
    ASSUME now' = now + 1, UNCHANGED <<Stored, Ends, limit>>
    PROVE  Lifecycle!Pass
BY DEF Lifecycle!Pass

\* The sweep takes out exactly the sessions that are not found any more.
LEMMA SweepStep ==
    ASSUME IInv, ClearInactive
    PROVE  Lifecycle!Sweep
<1>1. ASSUME NEW s \in Stored
      PROVE  s \in Dead <=> ~Found(s)
  <2>1. list[s] # NoItem /\ list[s].tsEnd \in Nat /\ now \in Nat
    BY DEF Stored, IInv, TypeOK, Items
  <2> QED
    BY <2>1 DEF Dead, Expired, Found, Actual
<1>2. Stored' = Stored \ Dead /\ \A s \in Stored' : list'[s].tsEnd = list[s].tsEnd
  BY SweepEffect
<1>3. now' = now /\ limit' = limit /\ reply'.op = "clearInactive"
  BY DEF ClearInactive, Answer
<1>4. Stored' = Lifecycle!Live
  BY <1>1, <1>2, LiveIsFound
<1>5. \A s \in Stored' : Ends'[s] = Ends[s]
  BY <1>2 DEF Ends, Stored
<1> QED
  BY <1>3, <1>4, <1>5 DEF Lifecycle!Sweep, Lifecycle!OthersKeepEnd

LEMMA InitSeen == Init => Lifecycle!Init
BY DEF Init, Lifecycle!Init, Stored

LEMMA AddStep ==
    ASSUME IInv, limit # Unset, NEW s \in SessionId, NEW lifetime \in Lifetime,
           Add(s, lifetime) \/ Generate(s, lifetime)
    PROVE  Lifecycle!Open(s) \/ UNCHANGED Seen
<1>1. CASE \E op, res : Refuse(op, res)
  BY <1>1, RefuseSeen
<1>2. CASE ~Full /\ ~Found(s) /\ Insert("add", s, lifetime)
  BY <1>2, OpenStep
<1>3. CASE ~Full /\ s \notin Stored /\ Insert("generate", s, lifetime)
  BY <1>3, OpenStep DEF Found, Stored
<1> QED
  BY <1>1, <1>2, <1>3 DEF Add, Generate

\* The end that prolong writes has not passed, whatever the lifetime.
LEMMA ProlongedRuns ==
    ASSUME now \in Nat, ClockFits, NEW lifetime \in Lifetime,
           NEW e, e = IF lifetime # 0 THEN now + lifetime ELSE FarEnd
    PROVE  e \in Nat /\ e >= now
BY StoreAssumption DEF ClockFits, FarEnd

LEMMA SessionStep ==
    ASSUME IInv, ClockFits, limit # Unset, SessionOperation
    PROVE  Lifecycle!Next \/ UNCHANGED Seen
<1>1. PICK s \in SessionId :
        \/ Exist(s) \/ Remove(s)
        \/ \E lifetime \in Lifetime :
              Add(s, lifetime) \/ Generate(s, lifetime) \/ Prolong(s, lifetime)
  BY DEF SessionOperation
<1>2. CASE Exist(s)
  BY <1>2, RefuseSeen DEF Exist
<1>3. ASSUME NEW op \in {"prolong", "remove"}, NEW e \in Nat, e = 0 \/ e >= now,
             Found(s), Update(op, [list EXCEPT ![s].tsEnd = e])
      PROVE  Lifecycle!Next
  <2>1. s \in Stored /\ s \in Lifecycle!Live
    BY <1>3, LiveIsFound DEF Found, Stored
  <2>2. Lifecycle!MoveEnd(s)
    BY <1>3, <2>1, MoveEndStep DEF IInv
  <2> QED
    BY <2>1, <2>2 DEF Lifecycle!Extend, Lifecycle!Next
<1>4. CASE Remove(s)
  BY <1>3, <1>4, RefuseSeen DEF Remove
<1>5. ASSUME NEW lifetime \in Lifetime, Prolong(s, lifetime)
      PROVE  Lifecycle!Next \/ UNCHANGED Seen
  <2> DEFINE e == IF lifetime # 0 THEN now + lifetime ELSE FarEnd
  <2>1. e \in Nat /\ e >= now
    BY ProlongedRuns DEF IInv, TypeOK
  <2>2. \/ Refuse("prolong", "E_SESSION_NONE")
        \/ Found(s) /\ Update("prolong", [list EXCEPT ![s].tsEnd = e])
    BY <1>5 DEF Prolong
  <2> HIDE DEF e
  <2> QED
    BY <1>3, <2>1, <2>2, RefuseSeen
<1>6. ASSUME NEW lifetime \in Lifetime, Add(s, lifetime) \/ Generate(s, lifetime)
      PROVE  Lifecycle!Next \/ UNCHANGED Seen
  BY <1>6, AddStep DEF Lifecycle!Next
<1> QED
  BY <1>1, <1>2, <1>4, <1>5, <1>6

LEMMA LifecycleStep ==
    ASSUME IInv, ClockFits, [Next]_vars
    PROVE  Lifecycle!Next \/ UNCHANGED Seen
<1>1. CASE UNCHANGED vars
  BY <1>1 DEF vars, Seen, Stored, Ends
<1>2. CASE \E l \in Limits : SetLimit(l)
  <2>1. PICK l \in Limits : SetLimit(l)
    BY <1>2
  <2>2. Lifecycle!Start(l)
    BY <2>1 DEF SetLimit, Lifecycle!Start, Stored, Ends
  <2> QED
    BY <2>2 DEF Lifecycle!Next
<1>3. CASE Tick
  <2>1. now' = now + 1 /\ UNCHANGED <<Stored, Ends, limit>>
    BY <1>3 DEF Tick, table, Stored, Ends
  <2> QED
    BY <2>1, PassStep DEF Lifecycle!Next
<1>4. CASE limit # Unset /\ SessionOperation
  BY <1>4, SessionStep
<1>5. CASE KeyOperation \/ AllKeyOperation
  BY <1>5, KeyStepEffect, SameSeen DEF IInv, KeyEffect
<1>6. CASE limit # Unset /\ ClearInactive
  BY <1>6, SweepStep DEF Lifecycle!Next
<1> QED
  BY <1>1, <1>2, <1>3, <1>4, <1>5, <1>6 DEF Next

\* Every behaviour of the store is one the abstract session table allows, while
\* the clock stays below the end prolong() writes for "no end".
THEOREM StoreImplementsLifecycle ==
    ASSUME StartTime <= FarEnd, MaxTime <= FarEnd
    PROVE  Spec => ImplementsLifecycle
<1>1. Lifecycle!Next \/ UNCHANGED Seen => [Lifecycle!Next]_(Lifecycle!lifecycle)
  BY DEF Lifecycle!lifecycle, Seen
<1>2. IInv /\ ClockFits /\ [Next]_vars => [Lifecycle!Next]_(Lifecycle!lifecycle)
  BY <1>1, LifecycleStep
<1> QED
  BY <1>2, Invariance, ClockStaysFit, InitSeen, PTL
     DEF Spec, ImplementsLifecycle, Lifecycle!Spec

===============================================================================
