------------------------------ MODULE Controller ------------------------------
(***************************************************************************)
(* ServerController::parse of core/server_controller.hpp as the worker     *)
(* threads run it: take a frame apart, call the store, count the outcome,  *)
(* answer.  The counters of Monitoring are shared by the threads and are   *)
(* stepped one at a time; a call of the store is one action of             *)
(* SessionStore (ThreadedStore looks inside).                              *)
(***************************************************************************)
EXTENDS SessionStore, Monitoring

CONSTANTS
    Thread,                    \* the worker threads
    TextOf, NameOf, ContentOf, \* what clients send, see Protocol
    MaxRequests,               \* bound: how many requests all clients make
    MaxStatistics,             \* bound: how many of GET_STATISTICS besides
    NoRequest                  \* "this thread is in no request"

INSTANCE Protocol

ASSUME BytesAssumption ==
    /\ \A s \in SessionId : Uuid!Generated(TextOf[s])
    /\ \A k \in Key : \A i \in DOMAIN NameOf[k] : NameOf[k][i] # 0
    /\ \A f \in {TextOf, NameOf, ContentOf} :
          \A x, y \in DOMAIN f : f[x] = f[y] => x = y

\* The workers, and the keys clients use, are finitely many.
ASSUME FiniteAssumption == IsFiniteSet(Thread) /\ IsFiniteSet(Key)

VARIABLES
    at,           \* where each thread is in parse()
    request,      \* the request it serves
    outcome,      \* what the store returned, and put into the references
    monitoring,   \* the counters
    copies,       \* what getData() has copied, in the order of Fields
    received,     \* the frame that was taken off the wire in this step, if any
    answer,       \* the last answer given
    log,          \* history: how many requests became of what
    called,       \* history: how often each operation of the store was called
    returned      \* history: how often it returned each result

tally == <<called, returned>>
working == <<at, request, outcome, monitoring, copies, log, tally>>
systemVars == <<vars, working, received, answer>>

\* What clients send, and what arrives: a frame as it was sent, one byte short
\* or with one byte too many, or an unknown command.
Sent == {[request |-> r, frame |-> Frame(r)] : r \in Request}
ProperFrames == {sent.frame : sent \in Sent}
Frames ==
    ProperFrames \cup {<<0>>}
        \cup {SubSeq(f, 1, Len(f) - 1) : f \in {f \in ProperFrames : Len(f) > 1}}
        \cup {Append(f, 0) : f \in ProperFrames}

Arrivals == {[frame |-> f, holds |-> IF KnownCommand(f) THEN initParams(f) ELSE {}] :
                f \in Frames}

\* Whatever a frame is taken for, it holds what the store can be asked for.
FramesHoldRequests == \A arrival \in Arrivals : arrival.holds \subseteq Request

\* The counters meant for each operation of the store, and each failure of one.
CountedAs ==
    [op \in {"generate", "exist", "add", "prolong", "remove", "addKey", "existKey",
            "removeKey", "prolongKey", "getKey", "setKey", "setForceKey",
            "addAllKey", "removeAllKey"} |->
        CASE op = "addAllKey" -> "addKeyToAll"
          [] op = "removeAllKey" -> "removeKeyFromAll" [] OTHER -> op]
ErrorNamed ==
    [E_SESSION_NONE |-> "sessionNone", E_KEY_NONE |-> "keyNone",
     E_LIMIT_EXCEEDED |-> "limitExceeded", E_LIFETIME_EXCEEDED |-> "lifetimeExceeded",
     E_DUPLICATE_KEY |-> "duplicateKey", E_RECORD_BEEN_CHANGED |-> "recordBeenChanged",
     E_LIMIT_PER_SEC_EXCEEDED |-> "limitPerSecExceeded",
     E_DUPLICATE_SESSION |-> "duplicateSession"]

Step(t, here, there) == at[t] = here /\ at' = [at EXCEPT ![t] = there]

NoFrame == <<>>

NoOutcome == [res |-> "OK", values |-> <<>>]

\* The answer goes out and the thread is free.
Tell(t, code, values) ==
    LET cmd == request[t].cmd
        res == outcome[t].res
        types == IF res = "OK" THEN AnswerList(cmd, Len(Fields)) ELSE <<>>
    IN  answer' = [cmd |-> cmd, res |-> res, values |-> values,
                   frame |-> AnswerFrame(code, types, values)]

Quiet == UNCHANGED vars
Silent == received' = NoFrame

-------------------------------------------------------------------------------
\* The early returns of parse(): before any counter is touched.
RefuseFrame(t, arrival) ==
    /\ at[t] = "idle" /\ log.made < MaxRequests
    /\ arrival.holds = {}
    /\ answer' = [frame |-> AnswerFrame(IF KnownCommand(arrival.frame)
                                        THEN "WRONG_PARAMS" ELSE "WRONG_COMMAND",
                                        <<>>, <<>>)]
    /\ received' = arrival.frame
    /\ log' = [log EXCEPT !.made = @ + 1]
    /\ Quiet /\ UNCHANGED <<at, request, outcome, monitoring, copies, tally>>

TakeFrame(t, arrival) ==
    /\ \E r \in arrival.holds :
          /\ request' = [request EXCEPT ![t] = r]
          /\ \/ /\ r.cmd # "GET_STATISTICS" /\ log.made < MaxRequests
                /\ Step(t, "idle", "store")
                /\ log' = [log EXCEPT !.made = @ + 1]
             \/ /\ r.cmd = "GET_STATISTICS" /\ log.statistics < MaxStatistics
                /\ Step(t, "idle", "copy")
                /\ log' = [log EXCEPT !.statistics = @ + 1, !.since[t] = log.counted]
    /\ received' = arrival.frame
    /\ Quiet /\ UNCHANGED <<outcome, monitoring, copies, answer, tally>>

\* The operation of the store that a request calls.
Call(r) ==
    \/ r.cmd = "GENERATE" /\ \E s \in SessionId : Generate(s, r.lifetime)
    \/ r.cmd = "EXIST" /\ Exist(r.uuid)
    \/ r.cmd = "REMOVE" /\ Remove(r.uuid)
    \/ r.cmd = "PROLONG" /\ Prolong(r.uuid, r.lifetime)
    \/ r.cmd = "ADD_SESSION" /\ Add(r.uuid, r.lifetime)
    \/ r.cmd = "ADD_KEY" /\ AddKey(r.uuid, r.key, r.data, r.lifetime)
    \/ r.cmd = "ALL_ADD_KEY" /\ AddAllKey(r.key, r.data)
    \/ r.cmd = "GET_KEY" /\ GetKey(r.uuid, r.key, r.limit)
    \/ r.cmd = "REMOVE_KEY" /\ RemoveKey(r.uuid, r.key)
    \/ r.cmd = "ALL_REMOVE_KEY" /\ RemoveAllKey(r.key)
    \/ r.cmd = "EXIST_KEY" /\ ExistKey(r.uuid, r.key)
    \/ r.cmd = "SET_KEY" /\ SetKey(r.uuid, r.key, r.data, r.counterKeys,
                                   r.counterRecord, r.limit)
    \/ r.cmd = "SET_FORCE_KEY" /\ SetForceKey(r.uuid, r.key, r.data, r.limit)
    \/ r.cmd = "PROLONG_KEY" /\ ProlongKey(r.uuid, r.key, r.lifetime)

\* What it puts into the references it is given, in the order of AnswerList.
Returned(r) ==
    IF reply'.res # "OK" THEN <<>> ELSE
    CASE r.cmd = "GENERATE" ->
            <<OnTheWire("uuid", CHOOSE s \in Stored' : s \notin Stored)>>
      [] r.cmd = "ADD_KEY" ->
            <<list'[r.uuid].counterKeys, list'[r.uuid].values[r.key].counterRecord>>
      [] r.cmd = "GET_KEY" ->
            <<OnTheWire("data", list[r.uuid].values[r.key].value),
              list[r.uuid].counterKeys, list[r.uuid].values[r.key].counterRecord>>
      [] OTHER -> <<>>

CallStore(t) ==
    /\ Step(t, "store", "count")
    /\ Call(request[t])
    /\ outcome' = [outcome EXCEPT ![t] = [res |-> reply'.res,
                                          values |-> Returned(request[t])]]
    /\ called' = [called EXCEPT ![reply'.op] = @ + 1]
    /\ returned' = [returned EXCEPT ![reply'.res] = @ + 1]
    /\ Silent /\ UNCHANGED <<request, monitoring, copies, answer, log>>

\* getData(): one counter.
CopyCounter(t) ==
    LET field == Fields[Len(copies[t]) + 1]
    IN  /\ at[t] = "copy" /\ Len(copies[t]) < Len(Fields)
        /\ copies' = [copies EXCEPT ![t] = Append(@, monitoring[field[1]][field[2]])]
        /\ UNCHANGED <<at, request, outcome, monitoring, answer, log, tally>>
        /\ Quiet /\ Silent

TellStatistics(t) ==
    /\ Step(t, "copy", "idle") /\ Len(copies[t]) = Len(Fields)
    /\ Tell(t, "OK", copies[t])
    /\ request' = [request EXCEPT ![t] = NoRequest]
    /\ copies' = [copies EXCEPT ![t] = <<>>]
    /\ log' = [log EXCEPT !.since[t] = 0]
    /\ Quiet /\ Silent /\ UNCHANGED <<outcome, monitoring, tally>>

Finish(t, code) ==
    /\ Tell(t, code, outcome[t].values)
    /\ request' = [request EXCEPT ![t] = NoRequest]
    /\ outcome' = [outcome EXCEPT ![t] = NoOutcome]
    /\ log' = [log EXCEPT !.counted = @ + 1]

\* updateMonitoringRequests
CountRequest(t) ==
    LET code == convertStoreError(outcome[t].res)
        cmd == request[t].cmd
    IN  /\ \/ code = "OK" /\ Step(t, "count", "idle") /\ Finish(t, code)
           \/ /\ code # "OK" /\ Step(t, "count", "error")
              /\ UNCHANGED <<request, outcome, answer, log>>
        /\ monitoring' = IF cmd \notin DOMAIN MethodOf THEN monitoring
              ELSE Counting(monitoring,
                            IF CountsAsPassed(cmd, code) THEN "passed" ELSE "failed",
                            MethodOf[cmd])
        /\ Quiet /\ Silent /\ UNCHANGED <<copies, tally>>

\* updateMonitoringErrors
CountError(t) ==
    LET code == convertStoreError(outcome[t].res)
    IN  /\ Step(t, "error", "idle") /\ Finish(t, code)
        /\ monitoring' = IF code \notin DOMAIN ErrorOf THEN monitoring
                         ELSE Counting(monitoring, "error", ErrorOf[code])
        /\ Quiet /\ Silent /\ UNCHANGED <<copies, tally>>

\* interval(), from the timer of one thread's event loop.
interval == ClearInactive /\ Silent /\ UNCHANGED <<working, answer>>

-------------------------------------------------------------------------------
\* A store that a few requests in the first second may have left.
Loaded(lifetime, K, d) ==
    [NewItem(lifetime) EXCEPT
        !.counterKeys = Cardinality(K) % UIntMod,
        !.values = [k \in Key |-> IF k \in K THEN NewValue(d, 0) ELSE NoValue]]

SystemInit ==
    /\ now = StartTime
    /\ limit \in Limits
    /\ list \in [SessionId -> {NoItem} \cup
           {Loaded(lifetime, K, d) :
                lifetime \in Lifetime \ {0}, K \in SUBSET Key, d \in Data}]
    /\ count = Cardinality(Stored) /\ count <= limit
    /\ totalFree = limit - count
    /\ reply = [op |-> "start", res |-> "OK"]
    /\ at = [t \in Thread |-> "idle"]
    /\ request = [t \in Thread |-> NoRequest]
    /\ outcome = [t \in Thread |-> NoOutcome]
    /\ monitoring = AllZero
    /\ copies = [t \in Thread |-> <<>>]
    /\ received = NoFrame
    /\ answer = [frame |-> <<>>]
    /\ log = [made |-> 0, statistics |-> 0, counted |-> 0,
              since |-> [t \in Thread |-> 0]]
    /\ called = [op \in DOMAIN CountedAs |-> 0]
    /\ returned = [res \in Results |-> 0]

SystemNext ==
    \/ \E t \in Thread :
          \/ at[t] = "idle"
             /\ \E arrival \in Arrivals : RefuseFrame(t, arrival) \/ TakeFrame(t, arrival)
          \/ CallStore(t) \/ CopyCounter(t) \/ TellStatistics(t)
          \/ CountRequest(t) \/ CountError(t)
    \/ interval
    \/ Tick /\ Silent /\ UNCHANGED <<working, answer>>

SystemSpec == SystemInit /\ [][SystemNext]_systemVars

-------------------------------------------------------------------------------
(* Correctness.                                                             *)

SystemTypeOK ==
    /\ TypeOK
    /\ at \in [Thread -> {"idle", "store", "copy", "count", "error"}]
    /\ request \in [Thread -> Request \cup {NoRequest}]
    /\ \A t \in Thread : outcome[t].res \in Results
    /\ \A kind \in {"passed", "failed"} :
          monitoring[kind] \in [Named(Methods) -> Nat]
    /\ monitoring.error \in [Named(Errors) -> Nat]
    /\ copies \in [Thread -> Seq(Nat)]

Where(place) == {t \in Thread : at[t] = place}

\* The server takes the frame of a client for the request it was made from.
FramesSurvive ==
    [][\A sent \in Sent : received' = sent.frame =>
          \E t \in Thread : /\ at[t] = "idle" /\ at'[t] # "idle"
                            /\ request'[t] = sent.request]_systemVars

\* A frame that is no client's, cut short or with bytes left over, is not taken
\* for anything.
MangledRefused ==
    [][received' \in {NoFrame} \cup ProperFrames \/ at' = at]_systemVars

\* Every call of the store is counted exactly once, as passed or as failed, and
\* under the operation that it was: the four places a request goes through, the
\* dispatch, the store, the switch by commands and the counter itself, agree.
RequestsAreCounted ==
    \A op \in DOMAIN CountedAs :
        monitoring.passed[CountedAs[op]] + monitoring.failed[CountedAs[op]]
            + Cardinality({t \in Where("count") :
                              MethodOf[request[t].cmd] = CountedAs[op]}) = called[op]

\* Every failure the store reported is counted exactly once, as the error that
\* it was, by the time the client is answered.  The errors that are no result of
\* the store, wrongCommand and wrongParams, are never counted.
ErrorsAreCounted ==
    /\ \A res \in DOMAIN ErrorNamed :
          monitoring.error[ErrorNamed[res]]
              + Cardinality({t \in Where("count") \cup Where("error") :
                                outcome[t].res = res}) = returned[res]
    /\ monitoring.error.wrongCommand = 0 /\ monitoring.error.wrongParams = 0

\* A client reads out of its answer what the store returned: the result, which
\* no other result looks like, and if it was OK all it put into the references.
AnswersTellOutcome ==
    [][answer' # answer /\ "res" \in DOMAIN answer' =>
         LET got == ReadAnswer(answer'.cmd, Len(Fields), answer'.frame)
         IN  /\ got.ok /\ Tail(got.values) = answer'.values
             /\ \A res \in Results :
                   ResultCode[convertStoreError(res)] = got.values[1]
                       => res = answer'.res]_systemVars

Copied(t) == Len(copies[t]) = Len(Fields)

\* The statistics are no one moment's; but they never show more failures than
\* errors, save for one request in progress on each other thread.
StatisticsAgree ==
    \A t \in Thread : Copied(t) =>
        TotalOfCopies(copies[t], "failed")
            <= TotalOfCopies(copies[t], "error") + Cardinality(Thread) - 1

\* They have every request that had been answered when they were asked for.
StatisticsAreCurrent ==
    \A t \in Thread : Copied(t) =>
        TotalOfCopies(copies[t], "passed") + TotalOfCopies(copies[t], "failed")
            >= log.since[t]
==============================================================================
