------------------------------ MODULE Monitoring ------------------------------
(***************************************************************************)
(* The counters of core/monitoring.hpp that requests move.  Each is an     *)
(* atomic: one increment, or one copy by getData(), is one step, and two   *)
(* of them are not.                                                        *)
(***************************************************************************)
EXTENDS Naturals, Sequences

\* In the order in which getData() copies them.
Methods == <<"generate", "exist", "add", "prolong", "remove", "addKey",
             "existKey", "removeKey", "prolongKey", "getKey", "setKey",
             "setForceKey", "addKeyToAll", "removeKeyFromAll">>

Errors == <<"wrongCommand", "wrongParams", "sessionNone", "keyNone",
            "limitExceeded", "lifetimeExceeded", "duplicateKey",
            "recordBeenChanged", "limitPerSecExceeded", "duplicateSession">>

Named(names) == {names[i] : i \in DOMAIN names}

AllZero ==
    [passed |-> [m \in Named(Methods) |-> 0],
     failed |-> [m \in Named(Methods) |-> 0],
     error |-> [e \in Named(Errors) |-> 0]]

\* Mutants: incFailed, or incError, moves a neighbour's counter.
CountingAsSetKey(monitoring, kind, name) ==
    [monitoring EXCEPT ![kind][IF kind = "failed" /\ name = "setForceKey"
                               THEN "setKey" ELSE name] = @ + 1]
CountingAsLimit(monitoring, kind, name) ==
    [monitoring EXCEPT ![kind][IF name = "limitPerSecExceeded"
                               THEN "limitExceeded" ELSE name] = @ + 1]

\* incPassed..., incFailed..., incError...
Counting(monitoring, kind, name) == [monitoring EXCEPT ![kind][name] = @ + 1]

InOrder(kind, names) == [i \in DOMAIN names |-> <<kind, names[i]>>]

\* Mutants: the errors are copied first; one counter is not copied.
FieldsErrorsFirst ==
    InOrder("error", Errors) \o InOrder("passed", Methods) \o InOrder("failed", Methods)
FieldsButOne ==
    SubSeq(InOrder("passed", Methods), 1, 13)
        \o InOrder("failed", Methods) \o InOrder("error", Errors)

Fields ==
    InOrder("passed", Methods) \o InOrder("failed", Methods) \o InOrder("error", Errors)

\* The sum of a sequence of counts.
SumOf(counts) ==
    LET upTo[i \in 0 .. Len(counts)] ==
            IF i = 0 THEN 0 ELSE upTo[i - 1] + counts[i]
    IN  upTo[Len(counts)]

\* The sum of the counters of a kind, and of those getData() has copied.
Total(monitoring, kind) ==
    LET names == IF kind = "error" THEN Errors ELSE Methods
    IN  SumOf([i \in DOMAIN names |-> monitoring[kind][names[i]]])

TotalOfCopies(copies, kind) ==
    SumOf([i \in DOMAIN copies |-> IF Fields[i][1] = kind THEN copies[i] ELSE 0])
==============================================================================
