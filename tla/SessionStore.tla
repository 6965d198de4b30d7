----------------------------- MODULE SessionStore -----------------------------
(***************************************************************************)
(* The Store of core/store.hpp, one action per public operation.           *)
(*                                                                         *)
(* This is the store of the single-threaded build (`make mono`), where the *)
(* event loop runs each operation to its end, and the sequential meaning   *)
(* the locks of the multi-threaded build are there to preserve.  An        *)
(* operation reads the clock several times; here it sees one second.       *)
(*                                                                         *)
(* Times are seconds.  An end time of 0 means "no end".                    *)
(***************************************************************************)
EXTENDS Integers, FiniteSets, Limiter

CONSTANTS
    SessionId,   \* the session identifiers clients use
    Key,         \* the key names
    Data,        \* the values stored under a key
    Lifetime,    \* the lifetimes clients ask for, 0 asking for no end
    RateLimit,   \* the per-second limits clients name, 0 naming none
    Limits,      \* the session limits the command line accepts
    UIntMod,     \* 2^32, the modulus of unsigned int
    StartTime,   \* the clock when the server starts
    MaxTime,     \* bound: the clock stops here
    MaxCounter,  \* bound: no operation raises a counter past this
    NoItem,      \* "no session under this identifier"
    NoValue,     \* "no value under this key"
    Unset        \* the limit before setLimit

VARIABLES
    now,         \* time( NULL )
    list,        \* _list, the sessions by identifier
    count,       \* _count
    limit,       \* _limit
    totalFree,   \* Monitoring::_totalFreeSessions
    reply        \* the last operation and its result

vars == <<now, list, count, limit, totalFree, reply>>
table == <<list, count, limit, totalFree>>

UInt == 0 .. UIntMod - 1
Caps == RateLimit \ {0}

\* 0xFFFFFFFF, which prolong() uses for "no end" where add() uses 0
FarEnd == UIntMod - 1

ASSUME StoreAssumption ==
    /\ IsFiniteSet(SessionId)
    /\ UIntMod \in Nat /\ UIntMod > 1
    /\ Lifetime \subseteq Nat /\ 0 \in Lifetime
    /\ RateLimit \subseteq Nat
    /\ Limits \subseteq UInt \ {0}
    /\ StartTime \in Nat \ {0}
    /\ MaxTime \in Nat
    /\ MaxCounter \in Nat
    /\ Unset \notin UInt

Limiters == [Caps -> [ts : Nat, count : Nat]]

Values == [value : Data, tsEnd : Nat, counterRecord : UInt,
           limiterRead : Limiters, limiterWrite : Limiters]

Items == [tsEnd : Nat, counterKeys : UInt,
          values : [Key -> Values \cup {NoValue}]]

ASSUME NullAssumption == NoValue \notin Values /\ NoItem \notin Items

Results == {"OK", "E_SESSION_NONE", "E_DUPLICATE_SESSION", "E_KEY_NONE",
            "E_LIMIT_EXCEEDED", "E_LIFETIME_EXCEEDED", "E_DUPLICATE_KEY",
            "E_RECORD_BEEN_CHANGED", "E_LIMIT_PER_SEC_EXCEEDED"}

Operations == {"start", "tick", "add", "generate", "exist", "remove",
               "prolong", "addKey", "existKey", "prolongKey", "setKey",
               "setForceKey", "getKey", "removeKey", "clearInactive",
               "addAllKey", "removeAllKey"}

-------------------------------------------------------------------------------
(* Private helpers of the class.                                            *)

\* checkActualTs
Actual(ts) == ts = 0 \/ ts >= now

\* checkChildTs: does a key with this lifetime end within its session?
FitsParent(parentTs, lifetime) ==
    lifetime = 0 \/ parentTs = 0 \/ now + lifetime <= parentTs

Stored == {s \in SessionId : list[s] # NoItem}

\* Mutant: the end of a session is not looked at.
FoundStale(s) == list[s] # NoItem

\* A session the operations find: present and not expired.
Found(s) == list[s] # NoItem /\ Actual(list[s].tsEnd)

\* _getKey
FoundKey(s, k) ==
    list[s].values[k] # NoValue /\ Actual(list[s].values[k].tsEnd)

\* Mutant: the clock is taken off the lifetime.
EndOfBackwards(lifetime) == IF lifetime = 0 THEN 0 ELSE lifetime - now

EndOf(lifetime) == IF lifetime = 0 THEN 0 ELSE now + lifetime

NewItem(lifetime) == [tsEnd |-> EndOf(lifetime), counterKeys |-> 0,
                      values |-> [k \in Key |-> NoValue]]

NewValue(d, lifetime) ==
    [value |-> d, tsEnd |-> EndOf(lifetime), counterRecord |-> 0,
     limiterRead |-> NewLimiter(Caps), limiterWrite |-> NewLimiter(Caps)]

Inc(counter) == (counter + 1) % UIntMod

\* Mutant: the limit is noticed one session late.
FullLate == (count > limit /\ limit # 0) \/ count = UIntMod - 1

Full == (count = limit /\ limit # 0) \/ count = UIntMod - 1

Answer(op, res) == reply' = [op |-> op, res |-> res]

Refuse(op, res) == Answer(op, res) /\ UNCHANGED <<now, table>>

\* The body of an operation that changes the table's contents only.
Update(op, newList) ==
    /\ list' = newList
    /\ Answer(op, "OK")
    /\ UNCHANGED <<now, count, limit, totalFree>>

-------------------------------------------------------------------------------
(* Operations on sessions.                                                  *)

\* Called once, by start() of memsess_server.cpp, before the first request.
SetLimit(l) ==
    /\ limit = Unset
    /\ limit' = l
    /\ count' = IF l = 0 THEN 0 ELSE count
    /\ totalFree' = l
    /\ Answer("start", "OK")
    /\ UNCHANGED <<now, list>>

\* Mutant: the free sessions are computed before the count moves.
ReportEarly == totalFree' = (limit - count) % UIntMod

\* updateTotalFreeSessions( _limit - _count ), in unsigned arithmetic
ReportFree == totalFree' = (limit - count') % UIntMod

Insert(op, s, lifetime) ==
    /\ list' = [list EXCEPT ![s] = NewItem(lifetime)]
    /\ count' = Inc(count)
    /\ ReportFree
    /\ Answer(op, "OK")
    /\ UNCHANGED <<now, limit>>

Add(s, lifetime) ==
    \/ Full /\ Refuse("add", "E_LIMIT_EXCEEDED")
    \/ ~Full /\ Found(s) /\ Refuse("add", "E_DUPLICATE_SESSION")
    \/ ~Full /\ ~Found(s) /\ Insert("add", s, lifetime)

\* The loop draws identifiers until it meets one the list does not hold.
Generate(s, lifetime) ==
    \/ Full /\ Refuse("generate", "E_LIMIT_EXCEEDED")
    \/ ~Full /\ s \notin Stored /\ Insert("generate", s, lifetime)

Exist(s) ==
    \/ Found(s) /\ Refuse("exist", "OK")
    \/ ~Found(s) /\ Refuse("exist", "E_SESSION_NONE")

\* remove() returns nothing: the client is answered OK either way.
Remove(s) ==
    \/ ~Found(s) /\ Refuse("remove", "OK")
    \/ Found(s) /\ Update("remove", [list EXCEPT ![s].tsEnd = 0])

Prolong(s, lifetime) ==
    \/ ~Found(s) /\ Refuse("prolong", "E_SESSION_NONE")
    \/ /\ Found(s)
       /\ Update("prolong", [list EXCEPT ![s].tsEnd =
                 IF lifetime # 0 THEN now + lifetime ELSE FarEnd])

\* The timer's sweep: expired sessions go, and expired keys of the others.

\* Mutants: a second too early; the end 0 forgotten; only to make room.
ExpiredEarly(ts) == ts # 0 /\ ts <= now
ExpiredEndless(ts) == ts < now
ExpiredWhenFull(ts) == ts # 0 /\ ts < now /\ Full

Expired(ts) == ts # 0 /\ ts < now

Swept(item) == [item EXCEPT !.values = [k \in Key |->
    IF item.values[k] # NoValue /\ Expired(item.values[k].tsEnd)
      THEN NoValue ELSE item.values[k]]]

Dead == {s \in Stored : Expired(list[s].tsEnd)}

ClearInactive ==
    /\ list' = [s \in SessionId |->
                  IF s \in Stored \ Dead THEN Swept(list[s]) ELSE NoItem]
    /\ count' = (count - Cardinality(Dead)) % UIntMod
    /\ IF Dead = {} THEN UNCHANGED totalFree ELSE ReportFree
    /\ Answer("clearInactive", "OK")
    /\ UNCHANGED <<now, limit>>

-------------------------------------------------------------------------------
(* Operations on the keys of a session.                                     *)

AddKey(s, k, d, lifetime) ==
    \/ ~Found(s) /\ Refuse("addKey", "E_SESSION_NONE")
    \/ /\ Found(s) /\ ~FitsParent(list[s].tsEnd, lifetime)
       /\ Refuse("addKey", "E_LIFETIME_EXCEEDED")
    \/ /\ Found(s) /\ FitsParent(list[s].tsEnd, lifetime) /\ FoundKey(s, k)
       /\ Refuse("addKey", "E_DUPLICATE_KEY")
    \/ /\ Found(s) /\ FitsParent(list[s].tsEnd, lifetime) /\ ~FoundKey(s, k)
       /\ list[s].counterKeys < MaxCounter
       /\ Update("addKey", [list EXCEPT
                 ![s].counterKeys = Inc(@),
                 ![s].values[k] = NewValue(d, lifetime)])

\* What existKey and the operations on a found key begin with.
NoKey(op, s, k) ==
    \/ ~Found(s) /\ Refuse(op, "E_SESSION_NONE")
    \/ Found(s) /\ ~FoundKey(s, k) /\ Refuse(op, "E_KEY_NONE")

HasKey(s, k) == Found(s) /\ FoundKey(s, k)

ExistKey(s, k) ==
    \/ NoKey("existKey", s, k)
    \/ HasKey(s, k) /\ Refuse("existKey", "OK")

ProlongKey(s, k, lifetime) ==
    \/ ~Found(s) /\ Refuse("prolongKey", "E_SESSION_NONE")
    \/ /\ Found(s) /\ ~FitsParent(list[s].tsEnd, lifetime)
       /\ Refuse("prolongKey", "E_LIFETIME_EXCEEDED")
    \/ /\ Found(s) /\ FitsParent(list[s].tsEnd, lifetime) /\ ~FoundKey(s, k)
       /\ Refuse("prolongKey", "E_KEY_NONE")
    \/ /\ Found(s) /\ FitsParent(list[s].tsEnd, lifetime) /\ FoundKey(s, k)
       /\ Update("prolongKey",
                 [list EXCEPT ![s].values[k].tsEnd = EndOf(lifetime)])

\* setKey and setForceKey share everything but the check of the counters.
Write(op, s, k, d, cap) ==
    LET v == list[s].values[k]
    IN  \/ /\ ~Passes(v.limiterWrite, cap, now)
           /\ Refuse(op, "E_LIMIT_PER_SEC_EXCEEDED")
        \/ /\ Passes(v.limiterWrite, cap, now)
           /\ v.counterRecord < MaxCounter
           /\ Update(op, [list EXCEPT ![s].values[k] =
                 [v EXCEPT !.value = d, !.counterRecord = Inc(@),
                           !.limiterWrite = IncLimiter(@, cap, now)]])

\* Mutant: only the record's own counter is compared.
RecordMatches(s, k, keys, record) ==
    list[s].values[k].counterRecord = record

\* The optimistic write: the client names the counters it last read.
CountersMatch(s, k, keys, record) ==
    /\ list[s].values[k].counterRecord = record
    /\ list[s].counterKeys = keys

SetKey(s, k, d, keys, record, cap) ==
    \/ NoKey("setKey", s, k)
    \/ /\ HasKey(s, k) /\ ~CountersMatch(s, k, keys, record)
       /\ Refuse("setKey", "E_RECORD_BEEN_CHANGED")
    \/ /\ HasKey(s, k) /\ CountersMatch(s, k, keys, record)
       /\ Write("setKey", s, k, d, cap)

SetForceKey(s, k, d, cap) ==
    \/ NoKey("setForceKey", s, k)
    \/ HasKey(s, k) /\ Write("setForceKey", s, k, d, cap)

\* A read answers the value and both counters; it changes only the limiter.
GetKey(s, k, cap) ==
    \/ NoKey("getKey", s, k)
    \/ /\ HasKey(s, k) /\ ~Passes(list[s].values[k].limiterRead, cap, now)
       /\ Refuse("getKey", "E_LIMIT_PER_SEC_EXCEEDED")
    \/ /\ HasKey(s, k) /\ Passes(list[s].values[k].limiterRead, cap, now)
       /\ Update("getKey", [list EXCEPT
                 ![s].values[k].limiterRead = IncLimiter(@, cap, now)])

\* erase() of a key that is not there changes nothing and is answered OK.
RemoveKey(s, k) ==
    \/ ~Found(s) /\ Refuse("removeKey", "E_SESSION_NONE")
    \/ /\ Found(s)
       /\ Update("removeKey", [list EXCEPT ![s].values[k] = NoValue])

-------------------------------------------------------------------------------
(* Operations on a key of every session.                                    *)

\* Their own liveness test: unlike checkActualTs it takes an end of 0 for a
\* time long past.
Reached(s) == s \in Stored /\ list[s].tsEnd >= now

\* Mutant: the key is put over one the session already has.
AddAllKeyOver(k, d) ==
    Update("addAllKey", [s \in SessionId |->
        IF Reached(s) THEN [list[s] EXCEPT !.values[k] = NewValue(d, 0)]
                      ELSE list[s]])

AddAllKey(k, d) ==
    Update("addAllKey", [s \in SessionId |->
        IF Reached(s) /\ list[s].values[k] = NoValue
          THEN [list[s] EXCEPT !.values[k] = NewValue(d, 0)]
          ELSE list[s]])

RemoveAllKey(k) ==
    Update("removeAllKey", [s \in SessionId |->
        IF Reached(s) THEN [list[s] EXCEPT !.values[k] = NoValue]
                      ELSE list[s]])

-------------------------------------------------------------------------------
Init ==
    /\ now = StartTime
    /\ list = [s \in SessionId |-> NoItem]
    /\ count = 0
    /\ limit = Unset
    /\ totalFree = 0
    /\ reply = [op |-> "start", res |-> "OK"]

Tick ==
    /\ now < MaxTime
    /\ now' = now + 1
    /\ Answer("tick", "OK")
    /\ UNCHANGED table

SessionOperation ==
    \E s \in SessionId :
        \/ Exist(s) \/ Remove(s)
        \/ \E lifetime \in Lifetime :
              Add(s, lifetime) \/ Generate(s, lifetime) \/ Prolong(s, lifetime)

KeyOperation ==
    \E s \in SessionId, k \in Key :
        \/ ExistKey(s, k) \/ RemoveKey(s, k)
        \/ \E lifetime \in Lifetime : ProlongKey(s, k, lifetime)
        \/ \E d \in Data, lifetime \in Lifetime : AddKey(s, k, d, lifetime)
        \/ \E cap \in RateLimit :
              \/ GetKey(s, k, cap)
              \/ \E d \in Data : SetForceKey(s, k, d, cap)
              \/ \E d \in Data, keys, record \in 0 .. MaxCounter :
                    SetKey(s, k, d, keys, record, cap)

AllKeyOperation ==
    \E k \in Key : RemoveAllKey(k) \/ \E d \in Data : AddAllKey(k, d)

Next ==
    \/ \E l \in Limits : SetLimit(l)
    \/ Tick
    \/ /\ limit # Unset
       /\ SessionOperation \/ KeyOperation \/ AllKeyOperation \/ ClearInactive

Spec == Init /\ [][Next]_vars

\* The sweep is a persistent timer of the first thread's event loop, so it
\* keeps coming; nothing obliges a client to send anything.
FairSpec == Spec /\ WF_vars(limit # Unset /\ ClearInactive)

-------------------------------------------------------------------------------
(* Correctness.                                                             *)

\* Every variable has its type; in particular the counters stay unsigned ints.
TypeOK ==
    /\ now \in Nat
    /\ list \in [SessionId -> Items \cup {NoItem}]
    /\ count \in UInt
    /\ limit \in Limits \cup {Unset}
    /\ totalFree \in UInt
    /\ reply \in [op : Operations, res : Results]

\* _count never falls below the number of sessions held, so its decrements in
\* clearInactive() never wrap, and never passes the limit, which `add` and
\* `generate` test for equality only.
CountSound ==
    /\ Cardinality(Stored) <= count
    /\ limit = Unset => count = 0
    /\ limit # Unset => count <= limit

\* "-l" of readme.md: the server never holds more sessions than its limit.
LimitRespected == limit # Unset => Cardinality(Stored) <= limit

\* The statistics' totalFreeSessions is what `add` would still accept.
FreeSessionsReported == limit # Unset => totalFree = limit - count

\* A client named a limit: within one second its window never counts more
\* accepted reads, or writes by setKey and setForceKey together, than that.
RateBound ==
    \A s \in Stored, k \in Key, cap \in Caps :
        list[s].values[k] # NoValue =>
            /\ list[s].values[k].limiterRead[cap].count <= cap
            /\ list[s].values[k].limiterWrite[cap].count <= cap

Ends == [s \in SessionId |-> IF s \in Stored THEN list[s].tsEnd ELSE 0]

Lifecycle == INSTANCE SessionLifecycle WITH
    held <- Stored, ends <- Ends, time <- now, cap <- limit, done <- reply.op

\* The store keeps the promises of SessionLifecycle: no operation cuts a live
\* session short, none but `add` gives a new end to one that lapsed, the sweep
\* takes out the lapsed and nobody else, and the limit bounds what is held.
ImplementsLifecycle == Lifecycle!Spec

\* A key a client can read is lost to it only by the clock or by a removal of
\* that very key: no other operation takes it away, and removeKey takes no other
\* key with it, nor removeAllKey one of another name.
Loses(s, k) == HasKey(s, k) /\ ~HasKey(s, k)'
NoSilentLoss ==
    [][\A s \in SessionId, k \in Key : Loses(s, k) =>
         \/ reply'.op = "tick"
         \/ /\ reply'.op = "removeKey"
            /\ \A r \in SessionId, j \in Key : Loses(r, j) => r = s /\ j = k
         \/ /\ reply'.op = "removeAllKey"
            /\ \A r \in SessionId, j \in Key : Loses(r, j) => j = k]_vars

\* A readable value never changes under a client that compares counters:
\* whatever changes it in place moves its counterRecord.
ChangesAreCounted ==
    [][\A s \in SessionId, k \in Key :
         /\ HasKey(s, k) /\ HasKey(s, k)'
         /\ list[s].values[k].value # list'[s].values[k].value
         => list'[s].values[k].counterRecord =
                Inc(list[s].values[k].counterRecord)]_vars

\* A session whose time is up does not stay: the sweep takes it out, or a new
\* session of its name takes its place.
ExpiredGo ==
    \A s \in SessionId : s \in Lifecycle!Lapsed ~> s \notin Lifecycle!Lapsed

-------------------------------------------------------------------------------
(* Statements of the repository that the code does not keep.                *)

\* readme.md: "-l" limits the number of sessions; so a session is refused for
\* the limit only while that many sessions are held.
RefusedOnlyWhenFull ==
    [][reply'.res = "E_LIMIT_EXCEEDED" => Cardinality(Stored) >= limit]_vars

\* store_interface.h: remove( sessionId ); afterwards the session is not found.
RemoveEndsSession ==
    [][\A s \in SessionId :
         reply'.op = "remove" /\ Remove(s) => ~Found(s)']_vars

\* store_interface.h: removeAllKey( key ); afterwards no session that can be
\* found has the key.
RemoveAllKeyReachesAll ==
    [][\A k \in Key :
         reply'.op = "removeAllKey" /\ RemoveAllKey(k)
         => \A s \in SessionId : ~HasKey(s, k)']_vars
==============================================================================
