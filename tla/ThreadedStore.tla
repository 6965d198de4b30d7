---------------------------- MODULE ThreadedStore ----------------------------
(***************************************************************************)
(* The Store of the multi-threaded build (`make multi`): every worker      *)
(* thread calls it directly, and an operation takes up to three RWGate     *)
(* locks on its way down - the list's, the session's, the value's - and    *)
(* drops them in reverse order on its way out, early returns included.     *)
(*                                                                         *)
(* A step of a thread is one stretch of code between two points where      *)
(* another thread may get in: each half of taking or dropping a lock, each *)
(* unprotected look at an end time, and the single reads and writes of     *)
(* setKey, setForceKey and getKey, which only the locks keep together.     *)
(* What an operation does while it holds the list exclusively is the       *)
(* action of SessionStore, as a whole.                                     *)
(*                                                                         *)
(* The locks of sessions and values live and die with them: when a record  *)
(* is destroyed or replaced its lock is free again, whoever relied on it.  *)
(***************************************************************************)
EXTENDS SessionStore, RWGate, Sequences

CONSTANTS
    Thread,      \* the worker threads
    Calls,       \* the operations they call, of Operations
    MaxCalls,    \* bound: how many calls a thread makes
    NoCall,      \* "this thread is in no call"
    Nothing      \* "nothing read yet"

VARIABLES
    locks,       \* the lock of the list, of each session, of each value
    call,        \* the call each thread is in, with its arguments
    at,          \* where it is: <<step, how many locks it has got to>>
    keyEnd,      \* tsEndKey, which addKey and prolongKey compute on entry
    seen,        \* what getKey has read so far
    calls        \* how many calls each thread has begun

\* The workers, and the keys clients use, are finitely many.
ASSUME ThreadedAssumption == IsFiniteSet(Thread) /\ IsFiniteSet(Key)

threadVars == <<locks, call, at, keyEnd, seen, calls>>
allVars == <<vars, threadVars>>

\* A lock is named by the path to what it guards.
LockId == {<<>>} \cup (SessionId \X Key) \cup {<<s>> : s \in SessionId}

SessionRequest ==
    [op : {"exist", "remove"}, s : SessionId] \cup
    [op : {"add", "prolong"}, s : SessionId, lifetime : Lifetime] \cup
    [op : {"generate"}, lifetime : Lifetime]

KeyRequest ==
    [op : {"existKey", "removeKey"}, s : SessionId, k : Key] \cup
    [op : {"prolongKey"}, s : SessionId, k : Key, lifetime : Lifetime] \cup
    [op : {"addKey"}, s : SessionId, k : Key, d : Data, lifetime : Lifetime] \cup
    [op : {"getKey"}, s : SessionId, k : Key, cap : RateLimit] \cup
    [op : {"setForceKey"}, s : SessionId, k : Key, d : Data, cap : RateLimit] \cup
    [op : {"setKey"}, s : SessionId, k : Key, d : Data, cap : RateLimit,
     keys : 0 .. MaxCounter, record : 0 .. MaxCounter]

AllRequest ==
    [op : {"clearInactive"}] \cup [op : {"removeAllKey"}, k : Key] \cup
    [op : {"addAllKey"}, k : Key, d : Data]

Request == {c \in SessionRequest \cup KeyRequest \cup AllRequest : c.op \in Calls}

\* Mutants: a key is erased, or forcibly written, or written, with the lock
\* taken shared.
ExclusiveButErase ==
    <<{"add", "generate", "clearInactive", "addAllKey", "removeAllKey"},
      {"prolong", "addKey"}, {"prolongKey", "setKey", "setForceKey"}>>
ExclusiveButForce ==
    <<{"add", "generate", "clearInactive", "addAllKey", "removeAllKey"},
      {"prolong", "addKey", "removeKey"}, {"prolongKey", "setKey"}>>
ExclusiveButSet ==
    <<{"add", "generate", "clearInactive", "addAllKey", "removeAllKey"},
      {"prolong", "addKey", "removeKey"}, {"prolongKey", "setForceKey"}>>

\* The operations that take the lock of the list, of the session and of the
\* value exclusively; the others take it shared, if they get that far.
Exclusive ==
    <<{"add", "generate", "clearInactive", "addAllKey", "removeAllKey"},
      {"prolong", "addKey", "removeKey"},
      {"prolongKey", "setKey", "setForceKey"}>>

ModeAt(op, level) == IF op \in Exclusive[level] THEN "exclusive" ELSE "shared"

\* The lock a call takes at a level.
LockOf(c, level) ==
    IF level = 1 THEN <<>> ELSE IF level = 2 THEN <<c.s>> ELSE <<c.s, c.k>>

Exists(x) ==
    /\ Len(x) > 0 => list[x[1]] # NoItem
    /\ Len(x) > 1 => list[x[1]].values[x[2]] # NoValue

-------------------------------------------------------------------------------
Idle == <<"idle", 0>>

GoTo(t, step, level) == at' = [at EXCEPT ![t] = <<step, level>>]

\* The call is answered while it holds `level` locks: its guards go next.
Return(t, level) ==
    GoTo(t, "unlock", level) /\ UNCHANGED <<locks, call, keyEnd, seen, calls>>

\* The call goes on at another step.
GoOn(t, step, level) ==
    GoTo(t, step, level) /\ UNCHANGED <<locks, call, keyEnd, seen, calls>>

Quietly == UNCHANGED vars

\* An answer without an effect.
Fail(t, level, res) == Refuse(call[t].op, res) /\ Return(t, level)

\* Begins a call; addKey and prolongKey look at the clock before any lock.
Begin(t, c) ==
    /\ at[t] = Idle /\ calls[t] < MaxCalls
    /\ call' = [call EXCEPT ![t] = c]
    /\ calls' = [calls EXCEPT ![t] = @ + 1]
    /\ keyEnd' = [keyEnd EXCEPT ![t] =
          IF c.op \in {"addKey", "prolongKey"} THEN EndOf(c.lifetime) ELSE 0]
    /\ GoTo(t, "gate", 1)
    /\ Quietly /\ UNCHANGED <<locks, seen>>

Gate(t) ==
    \E level \in 1 .. 3 :
        LET x == LockOf(call[t], level)
        IN  /\ at[t] = <<"gate", level>>
            /\ \/ /\ ModeAt(call[t].op, level) = "exclusive"
                  /\ locks' = [locks EXCEPT ![x] = CloseGate(@)]
               \/ /\ ModeAt(call[t].op, level) = "shared"
                  /\ GateOpen(locks[x])
                  /\ UNCHANGED locks
            /\ GoTo(t, "mutex", level)
            /\ Quietly /\ UNCHANGED <<call, keyEnd, seen, calls>>

Mutex(t) ==
    \E level \in 1 .. 3 :
        LET x == LockOf(call[t], level)
            mode == ModeAt(call[t].op, level)
        IN  /\ at[t] = <<"mutex", level>> /\ MutexFree(locks[x], mode)
            /\ locks' = [locks EXCEPT ![x] = TakeMutex(@, t, mode)]
            /\ GoTo(t, "body", level)
            /\ Quietly /\ UNCHANGED <<call, keyEnd, seen, calls>>

\* Mutant: the call returns with the locks above still held.
BelowNothing(t, level) ==
    at' = [at EXCEPT ![t] = Idle] /\ call' = [call EXCEPT ![t] = NoCall]

Below(t, level) ==
    IF level = 1
      THEN /\ at' = [at EXCEPT ![t] = Idle]
           /\ call' = [call EXCEPT ![t] = NoCall]
      ELSE GoTo(t, "unlock", level - 1) /\ UNCHANGED call

Unlock(t) ==
    \E level \in 1 .. 3 :
        LET x == LockOf(call[t], level)
            mode == ModeAt(call[t].op, level)
        IN  /\ at[t] = <<"unlock", level>>
            /\ locks' = [locks EXCEPT ![x] = LeaveMutex(@, t, mode)]
            /\ IF mode = "exclusive" THEN GoTo(t, "open", level) /\ UNCHANGED call
                                     ELSE Below(t, level)
            /\ Quietly /\ UNCHANGED <<keyEnd, seen, calls>>

Open(t) ==
    \E level \in 1 .. 3 :
        /\ at[t] = <<"open", level>>
        /\ locks' = [locks EXCEPT ![LockOf(call[t], level)] = OpenGate(@)]
        /\ Below(t, level)
        /\ Quietly /\ UNCHANGED <<keyEnd, seen, calls>>

-------------------------------------------------------------------------------
(* With the list held exclusively: the whole operation.                     *)

\* The records of the replaced set, and those no longer there, take their
\* locks with them.
Reset(replaced) ==
    locks' = [x \in LockId |->
                IF x \in replaced \/ ~Exists(x)' THEN FreeLock ELSE locks[x]]

Under(s) == {x \in LockId : Len(x) > 0 /\ x[1] = s}

Whole(t) ==
    /\ at[t] = <<"body", 1>>
    /\ \E c \in {call[t]} :
          \/ /\ c.op = "add" /\ Add(c.s, c.lifetime)
             /\ Reset(IF reply'.res = "OK" THEN Under(c.s) ELSE {})
          \/ /\ \/ /\ c.op = "generate"
                   /\ \E s \in SessionId : Generate(s, c.lifetime)
                \/ c.op = "clearInactive" /\ ClearInactive
                \/ c.op = "removeAllKey" /\ RemoveAllKey(c.k)
                \/ c.op = "addAllKey" /\ AddAllKey(c.k, c.d)
             /\ Reset({})
    /\ GoTo(t, "unlock", 1)
    /\ UNCHANGED <<call, keyEnd, seen, calls>>

-------------------------------------------------------------------------------
(* With the list held shared: the session is looked up.                     *)

Find(t) ==
    LET c == call[t]
    IN  /\ at[t] = <<"body", 1>> /\ c.op \notin Exclusive[1]
        /\ \/ /\ ~Found(c.s)
              /\ Fail(t, 1, IF c.op = "remove" THEN "OK" ELSE "E_SESSION_NONE")
           \/ Found(c.s) /\ c.op = "exist" /\ Fail(t, 1, "OK")
           \/ Found(c.s) /\ c.op = "remove" /\ Quietly /\ GoOn(t, "write", 1)
           \/ /\ Found(c.s) /\ c.op \in {"addKey", "prolongKey"}
              /\ Quietly /\ GoOn(t, "fits", 1)
           \/ /\ Found(c.s)
              /\ c.op \notin {"exist", "remove", "addKey", "prolongKey"}
              /\ Quietly /\ GoOn(t, "gate", 2)

\* checkChildTs looks at the session's end a second time.
Fits(t) ==
    LET c == call[t]
    IN  /\ at[t] = <<"fits", 1>>
        /\ \/ ~FitsParent(list[c.s].tsEnd, c.lifetime)
              /\ Fail(t, 1, "E_LIFETIME_EXCEEDED")
           \/ FitsParent(list[c.s].tsEnd, c.lifetime)
              /\ Quietly /\ GoOn(t, "gate", 2)

\* remove writes the end under the shared lock of the list alone.
RemoveWrite(t) ==
    /\ at[t] = <<"write", 1>>
    /\ Update("remove", [list EXCEPT ![call[t].s].tsEnd = 0])
    /\ Return(t, 1)

-------------------------------------------------------------------------------
(* With the session held exclusively: prolong, addKey, removeKey.           *)

Session(t) ==
    LET c == call[t]
    IN  /\ at[t] = <<"body", 2>>
        /\ \/ /\ c.op = "prolong"
              /\ Update("prolong", [list EXCEPT ![c.s].tsEnd =
                    IF c.lifetime # 0 THEN now + c.lifetime ELSE FarEnd])
              /\ UNCHANGED locks
           \/ /\ c.op = "addKey" /\ FoundKey(c.s, c.k)
              /\ Refuse("addKey", "E_DUPLICATE_KEY")
              /\ UNCHANGED locks
           \/ /\ c.op = "addKey" /\ ~FoundKey(c.s, c.k)
              /\ Update("addKey", [list EXCEPT
                    ![c.s].counterKeys = Inc(@),
                    ![c.s].values[c.k] =
                        [NewValue(c.d, 0) EXCEPT !.tsEnd = keyEnd[t]]])
              /\ Reset({<<c.s, c.k>>})
           \/ /\ c.op = "removeKey"
              /\ Update("removeKey", [list EXCEPT ![c.s].values[c.k] = NoValue])
              /\ Reset({})
        /\ GoTo(t, "unlock", 2)
        /\ UNCHANGED <<call, keyEnd, seen, calls>>

(* With the session held shared: the key is looked up, its end with it.     *)

FindKey(t) ==
    LET c == call[t]
    IN  /\ at[t] = <<"body", 2>> /\ c.op \notin Exclusive[2]
        /\ \/ ~FoundKey(c.s, c.k) /\ Fail(t, 2, "E_KEY_NONE")
           \/ FoundKey(c.s, c.k) /\ c.op = "existKey" /\ Fail(t, 2, "OK")
           \/ /\ FoundKey(c.s, c.k) /\ c.op # "existKey"
              /\ Quietly /\ GoOn(t, "gate", 3)

-------------------------------------------------------------------------------
(* With the value held: exclusively, but for getKey.                        *)

ValueOf(t) == list[call[t].s].values[call[t].k]

\* One field of the value changes; the answer is not due yet.
Touch(t, newValue, step) ==
    /\ list' = [list EXCEPT ![call[t].s].values[call[t].k] = newValue]
    /\ UNCHANGED <<count, limit, totalFree, reply>>
    /\ GoOn(t, step, 3)

\* incLimiter reads the clock to test the window, to see whether it is this
\* second's and to open a new one: the second may end between the readings.
CountedAt(window, second, third) ==
    IF window.ts = second THEN Counted(window, second) ELSE Counted(NoWindow, third)

PassLimiter(t, limiter, cap, step) ==
    /\ Passes(ValueOf(t)[limiter], cap, now)
    /\ \/ /\ cap = 0 /\ UNCHANGED now
          /\ Touch(t, ValueOf(t), step)
       \/ /\ cap # 0 /\ now' \in (now .. now + 1) \cap (1 .. MaxTime)
          /\ \E second \in now .. now' :
                Touch(t, [ValueOf(t) EXCEPT ![limiter][cap] =
                              CountedAt(@, second, now')], step)

ProlongKeyWrite(t) ==
    LET c == call[t]
    IN  /\ at[t] = <<"body", 3>> /\ c.op = "prolongKey"
        /\ Update("prolongKey",
                  [list EXCEPT ![c.s].values[c.k].tsEnd = keyEnd[t]])
        /\ Return(t, 3)

CheckWrite(t) ==
    LET c == call[t]
    IN  /\ at[t] = <<"body", 3>> /\ c.op \in {"setKey", "setForceKey"}
        /\ \/ /\ c.op = "setKey" /\ ~CountersMatch(c.s, c.k, c.keys, c.record)
              /\ Fail(t, 3, "E_RECORD_BEEN_CHANGED")
           \/ /\ c.op = "setKey" => CountersMatch(c.s, c.k, c.keys, c.record)
              /\ \/ /\ ~Passes(ValueOf(t).limiterWrite, c.cap, now)
                    /\ Fail(t, 3, "E_LIMIT_PER_SEC_EXCEEDED")
                 \/ PassLimiter(t, "limiterWrite", c.cap, "write")

WriteValue(t) ==
    /\ at[t] = <<"write", 3>>
    /\ Touch(t, [ValueOf(t) EXCEPT !.value = call[t].d], "count")
    /\ UNCHANGED now

CountWrite(t) ==
    /\ at[t] = <<"count", 3>>
    /\ Update(call[t].op, [list EXCEPT
          ![call[t].s].values[call[t].k].counterRecord = Inc(@)])
    /\ Return(t, 3)

LimitRead(t) ==
    LET c == call[t]
    IN  /\ at[t] = <<"body", 3>> /\ c.op = "getKey"
        /\ \/ /\ ~Passes(ValueOf(t).limiterRead, c.cap, now)
              /\ Fail(t, 3, "E_LIMIT_PER_SEC_EXCEEDED")
           \/ PassLimiter(t, "limiterRead", c.cap, "read")

\* The value is copied; `seen` notes the counters there were by then, too.
Snapshot(t) == [value |-> ValueOf(t).value, record |-> ValueOf(t).counterRecord,
                keys |-> list[call[t].s].counterKeys]

ReadValue(t) ==
    /\ at[t] = <<"read", 3>>
    /\ seen' = [seen EXCEPT ![t] = Snapshot(t)]
    /\ GoTo(t, "answer", 3)
    /\ Quietly /\ UNCHANGED <<locks, call, keyEnd, calls>>

\* The counters are read after it, and the client gets all three.
ReadCounters(t) ==
    /\ at[t] = <<"answer", 3>>
    /\ seen' = [seen EXCEPT ![t] = Nothing]
    /\ GoTo(t, "unlock", 3)
    /\ Refuse("getKey", "OK") /\ UNCHANGED <<locks, call, keyEnd, calls>>

-------------------------------------------------------------------------------
(* The threads start after setLimit, and are watched from any store a few   *)
(* calls of add and addKey within the second before may have made: what     *)
(* was given a lifetime then ends while they run.                           *)

LoadedEnds == {0} \cup {StartTime - 1 + lifetime : lifetime \in Lifetime \ {0}}

Loaded(end, endOfKey, K, d) ==
    [tsEnd |-> end,
     counterKeys |-> Cardinality(K) % UIntMod,
     values |-> [k \in Key |-> IF k \in K
                    THEN [NewValue(d, 0) EXCEPT !.tsEnd = endOfKey]
                    ELSE NoValue]]

ThreadedInit ==
    /\ now = StartTime
    /\ limit \in Limits
    /\ list \in [SessionId -> {NoItem} \cup
           {Loaded(end, endOfKey, K, d) :
                end \in LoadedEnds, endOfKey \in LoadedEnds,
                K \in SUBSET Key, d \in Data}]
    /\ \A s \in Stored, k \in Key :
          list[s].values[k] # NoValue =>
             \/ 0 \in {list[s].tsEnd, list[s].values[k].tsEnd}
             \/ list[s].values[k].tsEnd <= list[s].tsEnd
    /\ count = Cardinality(Stored) /\ count <= limit
    /\ totalFree = limit - count
    /\ reply = [op |-> "start", res |-> "OK"]
    /\ locks = [x \in LockId |-> FreeLock]
    /\ call = [t \in Thread |-> NoCall]
    /\ at = [t \in Thread |-> Idle]
    /\ keyEnd = [t \in Thread |-> 0]
    /\ seen = [t \in Thread |-> Nothing]
    /\ calls = [t \in Thread |-> 0]

Proceed(t) ==
    \/ Gate(t) \/ Mutex(t) \/ Unlock(t) \/ Open(t) \/ Whole(t)
    \/ Find(t) \/ Fits(t) \/ RemoveWrite(t) \/ Session(t) \/ FindKey(t)
    \/ ProlongKeyWrite(t) \/ CheckWrite(t) \/ WriteValue(t) \/ CountWrite(t)
    \/ LimitRead(t) \/ ReadValue(t) \/ ReadCounters(t)

ThreadedNext ==
    \/ \E t \in Thread : Proceed(t) \/ \E c \in Request : Begin(t, c)
    \/ Tick /\ UNCHANGED threadVars

ThreadedSpec == ThreadedInit /\ [][ThreadedNext]_allVars

\* The scheduler runs every thread; a mutex that stays free lets its waiter in.
FairThreadedSpec ==
    ThreadedSpec /\ \A t \in Thread : WF_allVars(Proceed(t))

-------------------------------------------------------------------------------
(* Correctness.                                                             *)

Places ==
    {"gate", "mutex", "body", "unlock", "open"} \X (1 .. 3) \cup
    {Idle, <<"fits", 1>>, <<"write", 1>>, <<"write", 3>>, <<"count", 3>>,
     <<"read", 3>>, <<"answer", 3>>}

ThreadedTypeOK ==
    /\ TypeOK
    /\ locks \in [LockId -> [gate : Nat, owner : SUBSET Thread,
                             readers : SUBSET Thread]]
    /\ call \in [Thread -> Request \cup {NoCall}]
    /\ at \in [Thread -> Places]
    /\ keyEnd \in [Thread -> Nat]

\* The threads that ought to hold lock x in a mode, and the writers that have
\* raised its counter, going by where they are in their calls.
HoldersOf(x, mode) ==
    {t \in Thread : \E level \in 1 .. at[t][2] :
        /\ LockOf(call[t], level) = x /\ ModeAt(call[t].op, level) = mode
        /\ at[t][2] = level => at[t][1] \notin {"gate", "mutex", "open"}}

EngagedOn(x) ==
    {t \in Thread : \E level \in 1 .. at[t][2] :
        /\ LockOf(call[t], level) = x
        /\ ModeAt(call[t].op, level) = "exclusive"
        /\ at[t] # <<"gate", level>>}

\* Every lock records exactly the threads that rely on it: none is destroyed
\* or replaced under a thread that holds it or waits for it, none is left
\* locked by a call that has returned, on whichever of its early exits.
LocksMatchThreads ==
    \A x \in LockId :
        /\ locks[x].owner = HoldersOf(x, "exclusive")
        /\ locks[x].readers = HoldersOf(x, "shared")
        /\ locks[x].gate = Cardinality(EngagedOn(x))

\* The raw pointers `sess` and `val` stay good: the record a call has got to
\* is in the store until the call lets go of it.
InUseExists ==
    \A t \in Thread : \A level \in 1 .. at[t][2] : Exists(LockOf(call[t], level))

\* What getKey answers was in the store all at once: nothing moves between its
\* copy of the value and its copy of the two counters.
ReadIsConsistent ==
    \A t \in Thread : at[t] = <<"answer", 3>> => seen[t] = Snapshot(t)

\* No update is lost: the counters a setKey compared still hold when it writes,
\* so of two clients with the same counters one is refused.
CheckedWhenWritten ==
    \A t \in Thread :
        call[t] # NoCall /\ call[t].op = "setKey" /\
        at[t] \in {<<"write", 3>>, <<"count", 3>>} =>
            CountersMatch(call[t].s, call[t].k, call[t].keys, call[t].record)

\* The session a prolong or a remove has found live and is to move the end of.
Admitted(t) ==
    IF /\ at[t] \in {<<"gate", 2>>, <<"mutex", 2>>, <<"body", 2>>, <<"write", 1>>}
       /\ call[t].op \in {"prolong", "remove"}
      THEN {call[t].s} ELSE {}

Shared == INSTANCE SharedLifecycle WITH
    held <- Stored, ends <- Ends, time <- now, cap <- limit, done <- reply.op,
    Caller <- Thread, admitted <- [t \in Thread |-> Admitted(t)]

\* The threads together keep the promises of SessionLifecycle but one: prolong
\* and remove, which check a session and then wait, may bring back one that
\* lapsed in between, once for the check they made.
ImplementsSharedLifecycle == Shared!SharedSpec

\* No deadlock and no lost wake-up: every call returns.
CallsReturn == \A t \in Thread : call[t] # NoCall ~> call[t] = NoCall
==============================================================================
