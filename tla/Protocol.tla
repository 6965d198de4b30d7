------------------------------- MODULE Protocol -------------------------------
(***************************************************************************)
(* The tables of core/server_controller.hpp: the commands, what their      *)
(* frames hold, how a result of the store is named in an answer, and which *)
(* counters an outcome moves.                                              *)
(*                                                                         *)
(* A request is a record of its command and its parameters.  A frame is    *)
(* the bytes after the length that the server takes off.                   *)
(***************************************************************************)
EXTENDS Integers, Sequences

CONSTANTS
    SessionId, Key, Data, Lifetime, RateLimit, MaxCounter,  \* as in SessionStore
    TextOf,      \* the text of each session's identifier
    NameOf,      \* the bytes of each key's name, none of them 0
    ContentOf    \* the bytes of each value

Wire == INSTANCE Serialization WITH Base <- 256
Uuid == INSTANCE UUID

-------------------------------------------------------------------------------
(* Requests and their frames.                                               *)

Commands == [GENERATE |-> 1, EXIST |-> 2, REMOVE |-> 3, PROLONG |-> 4,
             ADD_KEY |-> 5, GET_KEY |-> 6, SET_KEY |-> 7, SET_FORCE_KEY |-> 8,
             REMOVE_KEY |-> 9, EXIST_KEY |-> 10, PROLONG_KEY |-> 11,
             ALL_ADD_KEY |-> 14, ALL_REMOVE_KEY |-> 15, ADD_SESSION |-> 18,
             GET_STATISTICS |-> 19]

\* The lists of initParams, by the parameters they fill.
Lists ==
    [GENERATE |-> <<"lifetime">>, EXIST |-> <<"uuid">>, REMOVE |-> <<"uuid">>,
     PROLONG |-> <<"uuid", "lifetime">>, ADD_SESSION |-> <<"uuid", "lifetime">>,
     ADD_KEY |-> <<"uuid", "key", "data", "lifetime">>,
     GET_KEY |-> <<"uuid", "key", "limit">>,
     SET_KEY |-> <<"uuid", "key", "data", "counterKeys", "counterRecord", "limit">>,
     SET_FORCE_KEY |-> <<"uuid", "key", "data", "limit">>,
     REMOVE_KEY |-> <<"uuid", "key">>, EXIST_KEY |-> <<"uuid", "key">>,
     PROLONG_KEY |-> <<"uuid", "key", "lifetime">>,
     ALL_ADD_KEY |-> <<"key", "data">>, ALL_REMOVE_KEY |-> <<"key">>,
     GET_STATISTICS |-> <<>>]

TypeOf ==
    [uuid |-> [type |-> "FIXED_STRING", length |-> Uuid!LENGTH_RAW],
     key |-> [type |-> "STRING_WITH_NULL"], data |-> [type |-> "STRING"],
     lifetime |-> [type |-> "INT"], counterKeys |-> [type |-> "INT"],
     counterRecord |-> [type |-> "INT"], limit |-> [type |-> "SHORT_INT"]]

Request ==
    [cmd : {"EXIST", "REMOVE"}, uuid : SessionId] \cup
    [cmd : {"PROLONG", "ADD_SESSION"}, uuid : SessionId, lifetime : Lifetime] \cup
    [cmd : {"ADD_KEY"}, uuid : SessionId, key : Key, data : Data, lifetime : Lifetime] \cup
    [cmd : {"GET_KEY"}, uuid : SessionId, key : Key, limit : RateLimit] \cup
    [cmd : {"SET_KEY"}, uuid : SessionId, key : Key, data : Data,
     counterKeys : 0 .. MaxCounter, counterRecord : 0 .. MaxCounter, limit : RateLimit] \cup
    [cmd : {"SET_FORCE_KEY"}, uuid : SessionId, key : Key, data : Data, limit : RateLimit] \cup
    [cmd : {"REMOVE_KEY", "EXIST_KEY"}, uuid : SessionId, key : Key] \cup
    [cmd : {"PROLONG_KEY"}, uuid : SessionId, key : Key, lifetime : Lifetime] \cup
    [cmd : {"ALL_ADD_KEY"}, key : Key, data : Data] \cup
    [cmd : {"ALL_REMOVE_KEY"}, key : Key] \cup
    [cmd : {"GENERATE"}, lifetime : Lifetime] \cup [cmd : {"GET_STATISTICS"}]

\* What a client sends for a parameter: for an identifier, what `generate`
\* answered it with.
OnTheWire(name, x) ==
    CASE name = "uuid" -> Uuid!toBin(TextOf[x]) [] name = "key" -> NameOf[x]
      [] name = "data" -> ContentOf[x] [] OTHER -> x

\* Whose parameter the server takes what it got for; another value is no one's.
WhoHas(f, value) == IF \E x \in DOMAIN f : f[x] = value
                    THEN CHOOSE x \in DOMAIN f : f[x] = value ELSE "no one"

Meaning(name, value) ==
    CASE name = "uuid" -> WhoHas(TextOf, Uuid!toNormal(value))
      [] name = "key" -> WhoHas(NameOf, value)
      [] name = "data" -> WhoHas(ContentOf, value)
      [] OTHER -> value

\* A frame as a correct client makes it.
Frame(r) ==
    LET names == Lists[r.cmd]
    IN  <<Commands[r.cmd]>> \o Wire!pack([i \in DOMAIN names |->
            [type |-> TypeOf[names[i]].type, value |-> OnTheWire(names[i], r[names[i]])]])

\* initCmd
KnownCommand(frame) == \E c \in DOMAIN Commands : Commands[c] = frame[1]

\* initParams: the request a frame holds, if it holds one.
initParams(frame) ==
    LET cmd == CHOOSE c \in DOMAIN Commands : Commands[c] = frame[1]
        names == Lists[cmd]
        unpacked == Wire!unpack([i \in DOMAIN names |-> TypeOf[names[i]]], Tail(frame))
        place(name) == CHOOSE i \in DOMAIN names : names[i] = name
    IN  IF ~unpacked.ok THEN {}
        ELSE {[x \in {"cmd"} \cup {names[i] : i \in DOMAIN names} |->
                  IF x = "cmd" THEN cmd
                  ELSE Meaning(x, unpacked.values[place(x)])]}

-------------------------------------------------------------------------------
(* Outcomes.                                                                *)

Codes ==
    [E_SESSION_NONE |-> "SESSION_NONE", E_KEY_NONE |-> "KEY_NONE",
     E_LIMIT_EXCEEDED |-> "LIMIT_EXCEEDED", E_LIFETIME_EXCEEDED |-> "LIFETIME_EXCEEDED",
     E_DUPLICATE_KEY |-> "DUPLICATE_KEY",
     E_RECORD_BEEN_CHANGED |-> "RECORD_BEEN_CHANGED",
     E_LIMIT_PER_SEC_EXCEEDED |-> "LIMIT_PER_SEC_EXCEEDED",
     E_DUPLICATE_SESSION |-> "DUPLICATE_SESSION"]

\* Mutant: a case is missing, and falls to the default.
ConvertButOne(res) ==
    IF res \in DOMAIN Codes \ {"E_LIFETIME_EXCEEDED"} THEN Codes[res] ELSE "OK"

convertStoreError(res) == IF res \in DOMAIN Codes THEN Codes[res] ELSE "OK"

ResultCode ==
    [OK |-> 1, WRONG_COMMAND |-> 2, WRONG_PARAMS |-> 3, SESSION_NONE |-> 4,
     KEY_NONE |-> 5, LIMIT_EXCEEDED |-> 6, LIFETIME_EXCEEDED |-> 7,
     DUPLICATE_KEY |-> 8, RECORD_BEEN_CHANGED |-> 9,
     LIMIT_PER_SEC_EXCEEDED |-> 10, DUPLICATE_SESSION |-> 11]

-------------------------------------------------------------------------------
(* Answers: a string, that is a length and as many bytes.                   *)

\* listGenerate, listAddKey, listGetKey, and listGetStatics of n numbers,
\* after the result.
AnswerList(cmd, n) ==
    CASE cmd = "GENERATE" -> <<TypeOf.uuid>>
      [] cmd = "ADD_KEY" -> <<TypeOf.counterKeys, TypeOf.counterRecord>>
      [] cmd = "GET_KEY" -> <<TypeOf.data, TypeOf.counterKeys, TypeOf.counterRecord>>
      [] cmd = "GET_STATISTICS" -> [i \in 1 .. n |-> [type |-> "LONG_INT"]]
      [] OTHER -> <<>>

AnswerFrame(code, types, values) ==
    LET items == [i \in DOMAIN types |-> [type |-> types[i].type, value |-> values[i]]]
        result == [type |-> "CHAR", value |-> ResultCode[code]]
    IN  Wire!pack(<<[type |-> "STRING", value |-> Wire!pack(<<result>> \o items)]>>)

\* What a client gets out of it: the result, and for OK the values.
ReadAnswer(cmd, n, frame) ==
    LET held == Wire!unpack(<<[type |-> "STRING"]>>, frame).values[1]
    IN  Wire!unpack(<<[type |-> "CHAR"]>> \o
            (IF held[1] = ResultCode["OK"] THEN AnswerList(cmd, n) ELSE <<>>), held)

\* The counters updateMonitoringRequests and updateMonitoringErrors move; a
\* command or a code without a case moves none.
MethodOf ==
    [GENERATE |-> "generate", EXIST |-> "exist", REMOVE |-> "remove",
     PROLONG |-> "prolong", ADD_KEY |-> "addKey", ALL_ADD_KEY |-> "addKeyToAll",
     GET_KEY |-> "getKey", REMOVE_KEY |-> "removeKey",
     ALL_REMOVE_KEY |-> "removeKeyFromAll", EXIST_KEY |-> "existKey",
     SET_KEY |-> "setKey", SET_FORCE_KEY |-> "setForceKey",
     PROLONG_KEY |-> "prolongKey", ADD_SESSION |-> "add"]

ErrorOf ==
    [WRONG_COMMAND |-> "wrongCommand", WRONG_PARAMS |-> "wrongParams",
     SESSION_NONE |-> "sessionNone", KEY_NONE |-> "keyNone",
     LIMIT_EXCEEDED |-> "limitExceeded", LIFETIME_EXCEEDED |-> "lifetimeExceeded",
     DUPLICATE_KEY |-> "duplicateKey", RECORD_BEEN_CHANGED |-> "recordBeenChanged",
     LIMIT_PER_SEC_EXCEEDED |-> "limitPerSecExceeded",
     DUPLICATE_SESSION |-> "duplicateSession"]

\* To learn that there is none is no failure of exist and existKey.
CountsAsPassed(cmd, code) ==
    code = "OK" \/ <<cmd, code>> \in {<<"EXIST", "SESSION_NONE">>, <<"EXIST_KEY", "KEY_NONE">>}
==============================================================================
