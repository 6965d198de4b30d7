----------------------------- MODULE AnswerStream -----------------------------
(***************************************************************************)
(* What one connection promises the client that reads it: the answers,     *)
(* each from its first byte to its last, in the order of the requests, and *)
(* nothing after the connection is closed.  Closing may cut the last       *)
(* answer short.                                                           *)
(*                                                                         *)
(* A byte of the stream is <<number of the answer, place in it>>.          *)
(***************************************************************************)
EXTENDS Naturals, Sequences

CONSTANT AnswerLen   \* the lengths an answer can have

VARIABLES
    made,   \* how many answers there have been
    due,    \* the bytes of the last one that are still to go
    sent,   \* what has gone out
    state   \* "good", "closed", or "spoiled": no longer any promise

stream == <<made, due, sent, state>>

Answer(number, length) == [i \in 1 .. length |-> <<number, i>>]

\* The next k of the bytes go out.
Give(bytes, k) ==
    /\ sent' = sent \o SubSeq(bytes, 1, k)
    /\ due' = SubSeq(bytes, k + 1, Len(bytes))

Init == made = 0 /\ due = <<>> /\ sent = <<>> /\ state = "good"

\* A request is answered when all before it have been, at least in part.
Begin ==
    /\ state = "good" /\ due = <<>>
    /\ \E length \in AnswerLen : \E k \in 1 .. length :
          Give(Answer(made + 1, length), k)
    /\ made' = made + 1
    /\ UNCHANGED state

Continue ==
    /\ state = "good"
    /\ \E k \in 1 .. Len(due) : Give(due, k)
    /\ UNCHANGED <<made, state>>

\* The one request read last may be lost in closing.
Close ==
    /\ state # "closed" /\ state' = "closed"
    /\ made' \in {made, made + 1} /\ due' = <<>> /\ UNCHANGED sent

\* A client that asks on before it has its answer loses the promise.
Spoil == state = "good" /\ due # <<>> /\ state' = "spoiled" /\ made' = made + 1

Anything == state = "spoiled" /\ state' = "spoiled"

Next == Begin \/ Continue \/ Close \/ Spoil \/ Anything

Spec == Init /\ [][Next]_stream
==============================================================================
