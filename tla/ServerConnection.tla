--------------------------- MODULE ServerConnection ---------------------------
(***************************************************************************)
(* One connection of core/server.hpp, from accept() to close(), between a  *)
(* client and a socket that pass bytes on in any portions.                 *)
(*                                                                         *)
(* An event loop runs one callback at a time, so a callback is one action. *)
(* The read event is persistent; the write event is not: it fires once and *)
(* is never added again.  Connections share nothing but the controller and *)
(* the statistics, which only add up, so one of them is enough.            *)
(*                                                                         *)
(* Bytes of requests are counted, not looked at: a request is a header of  *)
(* HeaderSize bytes that gives the length of the body after it.  Bytes of  *)
(* answers are <<number of the answer, place in it>>.                      *)
(***************************************************************************)
EXTENDS Integers, Sequences, FiniteSetsExt

CONSTANTS
    HeaderSize,   \* sizeof( unsigned int )
    BodyLen,      \* the lengths clients write in their headers
    MaxBody,      \* 1'048'576 + 1024
    AnswerLen,    \* the lengths of the controller's answers, never 0
    SockBuf,      \* how many bytes sent may wait for the client
    UIntMod,      \* 2^32, the modulus of unsigned int
    MaxRequests   \* bound: how many requests the client makes

VARIABLES
    conn,         \* "queued" by listen(), "open" or "closed"
    peer,         \* the client's end: "open", "shut" or "reset"
    asked,        \* the requests: their lengths, where their last byte is
    delivered,    \* bytes of requests that have arrived
    consumed,     \* bytes of requests recv() has returned
    readBuf,      \* the request being collected
    writeBuf,     \* the answer being sent
    writeArmed,   \* the write event is pending
    answers,      \* the lengths of the answers so far
    sent,         \* the bytes send() has taken
    drained,      \* how many of them the client has read
    stats,        \* what this connection added to Monitoring
    tMonitoring,  \* the phase of the request that was begun at this stamp
    hasty,        \* history: a request was made before the last was answered
    split,        \* history: a header was looked at before its body came
    spoiled       \* history: an answer took the place of one not wholly sent

server == <<conn, readBuf, writeBuf, writeArmed, answers, stats, tMonitoring>>
client == <<peer, asked, delivered, drained, hasty>>
vars == <<server, client, consumed, sent, split, spoiled>>

ASSUME ConnectionAssumption ==
    /\ HeaderSize \in Nat \ {0}
    /\ BodyLen \subseteq Nat /\ AnswerLen \subseteq Nat \ {0}
    /\ MaxBody \in Nat /\ SockBuf \in Nat \ {0} /\ MaxRequests \in Nat
    /\ UIntMod \in Nat \ {0} /\ \A n \in BodyLen \cup AnswerLen : n < UIntMod

Buffers == [length : 0 .. UIntMod - 1, wrLength : Nat]
Empty == [length |-> 0, wrLength |-> 0]

\* Mutant: the buffer goes, and its wrLength stays.
ClearDataOnly(buf) == [buf EXCEPT !.length = 0]

clearBuffer(buf) == Empty

Junk == <<0, 0>>

Written == IF asked = <<>> THEN 0 ELSE asked[Len(asked)].end
Inbox == delivered - consumed
Room == SockBuf - (Len(sent) - drained)

\* The client has read the last byte of the answer to its last request.
Served ==
    \/ asked = <<>>
    \/ /\ Len(answers) = Len(asked) /\ drained > 0
       /\ sent[drained] = <<Len(answers), answers[Len(answers)]>>

-------------------------------------------------------------------------------
(* The client and the network.                                              *)

Ask(n) ==
    /\ peer = "open" /\ Len(asked) < MaxRequests
    /\ asked' = Append(asked, [length |-> n, end |-> Written + HeaderSize + n])
    /\ hasty' = (hasty \/ ~Served)
    /\ UNCHANGED <<peer, delivered, drained>>

Deliver ==
    /\ peer # "reset"
    /\ delivered' \in delivered + 1 .. Written
    /\ UNCHANGED <<peer, asked, drained, hasty>>

Drain ==
    /\ peer # "reset"
    /\ drained' \in drained + 1 .. Len(sent)
    /\ UNCHANGED <<peer, asked, delivered, hasty>>

\* The client ends its requests in order, or goes away.
Leave ==
    /\ peer = "open" /\ peer' \in {"shut", "reset"}
    /\ UNCHANGED <<asked, delivered, drained, hasty>>

ClientStep ==
    /\ (\E n \in BodyLen : Ask(n)) \/ Deliver \/ Drain \/ Leave
    /\ UNCHANGED <<server, consumed, sent, split, spoiled>>

-------------------------------------------------------------------------------
(* The server.                                                              *)

accept ==
    /\ conn = "queued" /\ conn' = "open" /\ writeArmed' = TRUE
    /\ UNCHANGED <<client, readBuf, writeBuf, answers, stats, tMonitoring,
                   consumed, sent, split, spoiled>>

\* close(); newStats may count a disconnection.
Close(newStats) ==
    /\ conn' = "closed" /\ writeArmed' = FALSE
    /\ readBuf' = Empty /\ writeBuf' = Empty
    /\ stats' = newStats
    /\ UNCHANGED <<sent, tMonitoring>>

Lost(s) == [s EXCEPT !.disconnection = @ + 1]
Received(s, l) == [s EXCEPT !.receivedBytes = @ + l]

\* What send() is told to take: an unsigned length.
Wanted(buf) == (buf.length - buf.wrLength) % UIntMod

\* Mutant: what is counted is what send() was asked to take.
SendedAll(s, buf, l) == [s EXCEPT !.sendedBytes = @ + Wanted(buf)]

Sended(s, buf, l) == [s EXCEPT !.sendedBytes = @ + l]

\* What it takes: everything there is room for.  Past the end of the buffer it
\* may take bytes that are no part of the answer, or fail.
Taken(buf) ==
    IF peer = "reset" \/ Wanted(buf) = 0 THEN {0}
    ELSE IF buf.wrLength < buf.length THEN {Min({Wanted(buf), Room})}
    ELSE 0 .. Min({Wanted(buf), Room})

BytesOf(number, buf, l) ==
    [i \in 1 .. l |-> IF buf.wrLength + i <= buf.length
                        THEN <<number, buf.wrLength + i>> ELSE Junk]

\* Mutant: only an answer that went out in one piece is done.
DoneAtOnce(buf, l) == buf.wrLength = 0 /\ l = buf.length

Done(buf, l) == buf.wrLength + l = buf.length

\* The common end of read() and write(), when answer `number` is in buf.
SendFrom(buf, number, s) ==
    \E l \in Taken(buf) :
        \/ l = 0 /\ Close(Lost(s))
        \/ /\ l > 0
           /\ sent' = sent \o BytesOf(number, buf, l)
           /\ LET after == [buf EXCEPT !.wrLength = @ + l]
                  sum == Sended(s, buf, l)
              IN  \/ /\ Done(buf, l)
                     /\ writeBuf' = clearBuffer(after)
                     /\ stats' = [sum EXCEPT !.sending = @ + 1]
                  \/ ~Done(buf, l) /\ writeBuf' = after /\ stats' = sum
           /\ UNCHANGED conn

\* The write event fires, once, when the socket takes bytes again or is dead.
write ==
    /\ conn = "open" /\ writeArmed /\ (Room > 0 \/ peer = "reset")
    /\ writeArmed' = FALSE
    /\ \/ writeBuf.length = 0 /\ UNCHANGED <<conn, readBuf, writeBuf, sent,
                                             stats, tMonitoring>>
       \/ /\ writeBuf.length > 0
          /\ SendFrom(writeBuf, Len(answers), stats)
          /\ conn' = "open" => UNCHANGED <<readBuf, tMonitoring>>
    /\ UNCHANGED <<client, answers, consumed, split, spoiled>>

-------------------------------------------------------------------------------
(* The read event, which fires as long as there is something to read, an    *)
(* end of the stream and an error included.                                 *)

Readable == Inbox > 0 \/ (peer = "shut" /\ delivered = Written) \/ peer = "reset"

Fresh == readBuf.length = 0
Request == asked[Len(answers) + 1]

\* Mutants: a short body is taken for a lost one; the whole is never reached.
GoneIfShort(buf, l) == l < buf.length - buf.wrLength
WholeLate(buf, l) == buf.wrLength + l > buf.length

Gone(buf, l) == l = 0
Whole(buf, l) == buf.wrLength + l = buf.length

\* recv() returns less than a header: close.  What it returned is not counted.
NoHeader ==
    /\ Fresh /\ Inbox < HeaderSize /\ ~(Inbox = 0 /\ peer = "reset")
    /\ consumed' = delivered
    /\ Close(stats)
    /\ UNCHANGED <<answers, spoiled>>

\* Mutant: the statistics take a signed number of bytes.
FailedRecvSigned == -1

\* -1 as incReceivedBytes( unsigned int ) gets it.
FailedRecv == UIntMod - 1

\* recv() returns -1, which an unsigned comparison does not find less than the
\* header's size: it is counted, and the header stays 0.
FailedHeader ==
    /\ Fresh /\ Inbox = 0 /\ peer = "reset"
    /\ Close(Lost(Received(stats, FailedRecv)))
    /\ UNCHANGED <<answers, consumed, spoiled>>

BadLength(n) == n = 0 \/ n > MaxBody

WrongHeader ==
    /\ Fresh /\ Inbox >= HeaderSize /\ BadLength(Request.length)
    /\ consumed' = consumed + HeaderSize
    /\ Close(Lost(Received(stats, HeaderSize)))
    /\ UNCHANGED <<answers, spoiled>>

\* Mutant: the clock is not read again before the answer is sent.
StampKept(phase, number) == tMonitoring

Stamp(phase, number) == <<phase, number>>

\* The request is whole: the controller answers it.  The answer replaces
\* writeBuf.data and its length, and wrLength is what it was.
Respond(s) ==
    \E n \in AnswerLen :
        /\ answers' = Append(answers, n)
        /\ spoiled' = (spoiled \/ writeBuf.length > 0)
        /\ readBuf' = Empty
        /\ SendFrom([writeBuf EXCEPT !.length = n], Len(answers) + 1,
                    [s EXCEPT !.receiving = @ + 1, !.processing = @ + 1])
        /\ conn' = "open" => /\ tMonitoring' = Stamp("send", Len(answers) + 1)
                             /\ UNCHANGED writeArmed

Body ==
    LET header == IF Fresh THEN HeaderSize ELSE 0
        buf == IF Fresh THEN [length |-> Request.length, wrLength |-> 0] ELSE readBuf
        l == Min({Inbox - header, buf.length - buf.wrLength})
        s == Received(stats, header + l)
    IN  /\ Fresh => Inbox >= HeaderSize /\ ~BadLength(Request.length)
        /\ consumed' = consumed + header + l
        /\ \/ Gone(buf, l) /\ Close(s) /\ UNCHANGED <<answers, spoiled>>
           \/ ~Gone(buf, l) /\ Whole(buf, l) /\ Respond(s)
           \/ /\ ~Gone(buf, l) /\ ~Whole(buf, l)
              /\ readBuf' = [buf EXCEPT !.wrLength = @ + l]
              /\ stats' = s
              /\ tMonitoring' = IF Fresh THEN Stamp("receive", Len(answers) + 1)
                                         ELSE tMonitoring
              /\ UNCHANGED <<conn, writeBuf, writeArmed, answers, sent, spoiled>>

read ==
    /\ conn = "open" /\ Readable
    /\ split' = (split \/ (Fresh /\ Inbox <= HeaderSize))
    /\ NoHeader \/ FailedHeader \/ WrongHeader \/ Body
    /\ UNCHANGED client

-------------------------------------------------------------------------------
Init ==
    /\ conn = "queued" /\ peer = "open" /\ asked = <<>>
    /\ delivered = 0 /\ consumed = 0 /\ drained = 0
    /\ readBuf = Empty /\ writeBuf = Empty /\ writeArmed = FALSE
    /\ answers = <<>> /\ sent = <<>>
    /\ stats = [receivedBytes |-> 0, sendedBytes |-> 0, disconnection |-> 0,
                receiving |-> 0, processing |-> 0, sending |-> 0]
    /\ tMonitoring = <<"none", 0>>
    /\ hasty = FALSE /\ split = FALSE /\ spoiled = FALSE

Next == ClientStep \/ accept \/ read \/ write

Spec == Init /\ [][Next]_vars
\* The event loop runs every callback whose event is active; the client and
\* the network need not do anything.
FairSpec == Spec /\ WF_vars(accept) /\ WF_vars(read) /\ WF_vars(write)

Draining == Drain /\ UNCHANGED <<server, consumed, sent, split, spoiled>>

-------------------------------------------------------------------------------
(* Correctness.                                                             *)

Statistics == [receivedBytes : Nat, sendedBytes : Nat, disconnection : {0, 1},
               receiving : Nat, processing : Nat, sending : Nat]

TypeOK ==
    /\ conn \in {"queued", "open", "closed"} /\ peer \in {"open", "shut", "reset"}
    /\ asked \in Seq([length : BodyLen, end : Nat])
    /\ consumed \in Nat /\ delivered \in consumed .. Written
    /\ readBuf \in Buffers /\ writeBuf \in Buffers /\ writeArmed \in BOOLEAN
    /\ answers \in Seq(AnswerLen)
    /\ sent \in Seq({Junk} \cup (Nat \X Nat)) /\ drained \in 0 .. Len(sent)
    /\ stats \in Statistics
    /\ tMonitoring \in {"none", "receive", "send"} \X Nat
    /\ {hasty, split, spoiled} \subseteq BOOLEAN

\* What is left in the write buffer of the answer made last.
Rest ==
    [i \in 1 .. writeBuf.length - writeBuf.wrLength |->
        <<Len(answers), writeBuf.wrLength + i>>]

Stream == INSTANCE AnswerStream WITH
             made <- Len(answers), due <- Rest,
             state <- IF conn = "closed" THEN "closed"
                      ELSE IF spoiled THEN "spoiled" ELSE "good"

\* However the socket cuts the answers up, the client gets every byte of them
\* once and in order, unless an answer takes the place of an unfinished one.
ImplementsStream == Stream!Spec

\* Only a client that does not wait for its answers can have that happen.
OnlyHastySpoil == spoiled => hasty

\* A client that waits for each answer, whose requests have lengths in range
\* and whose headers never come without some of the body, is not turned away.
PoliteStays ==
    conn = "closed" =>
        \/ split \/ hasty \/ peer # "open"
        \/ \E i \in DOMAIN asked : BadLength(asked[i].length)

\* The statistics of traffic are exact, but for a header that is cut off, which
\* is not counted, and for the failed recv() of a connection the client has
\* reset, whose -1 is counted, once, as the largest unsigned int.
TrafficIsCounted ==
    /\ stats.sendedBytes = Len(sent)
    /\ \/ stats.receivedBytes <= consumed
       \/ peer = "reset" /\ stats.receivedBytes = consumed + UIntMod - 1
    /\ stats.receivedBytes > consumed - HeaderSize
    /\ conn = "open" => stats.receivedBytes = consumed

\* While nobody is hasty, a duration of sending is counted for each answer
\* sent, and is measured from the moment that answer was ready.
SendingIsTimed ==
    [][stats'.sending # stats.sending /\ ~hasty =>
        /\ tMonitoring' = <<"send", Len(answers')>>
        /\ stats'.sending = Len(answers')]_vars

\* A request that has arrived is answered, or the connection is closed: the
\* read event comes back as long as there is something to read.
RequestsAreRead ==
    \A i \in 1 .. MaxRequests :
        (Len(asked) >= i /\ delivered >= asked[i].end)
            ~> (Len(answers) >= i \/ conn = "closed")

-------------------------------------------------------------------------------
(* A statement of the repository that the code does not keep.               *)

\* server.hpp: write() sends on what send() left over; so while the client
\* reads, every answer goes out or the connection is closed.
AnswersGoOut == writeBuf.length > 0 ~> writeBuf.length = 0

DrainedSpec == FairSpec /\ WF_vars(Draining)
==============================================================================
