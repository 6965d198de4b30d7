-------------------------- MODULE PoliteClientProofs --------------------------
(***************************************************************************)
(* What ServerConnection reads, what it counts, and what a client that     *)
(* keeps to the protocol may rely on.                                      *)
(***************************************************************************)
EXTENDS ServerConnectionProofs

-------------------------------------------------------------------------------
(* Where the server is in the bytes of the requests.                        *)

\* Where request i ends.
EndAt(i) == IF i = 0 THEN 0 ELSE asked[i].end

Requests == [length : BodyLen, end : Nat]

AskedOK ==
    /\ asked \in Seq(Requests)
    /\ \A i \in 1 .. Len(asked) :
          asked[i].end = EndAt(i - 1) + HeaderSize + asked[i].length

\* Between two requests all before has been read; within one, its header and
\* wrLength bytes of its body, which is not yet whole.
Between ==
    /\ readBuf.length = 0
    /\ Len(answers) <= Len(asked)
    /\ consumed = EndAt(Len(answers))

Within ==
    /\ Len(answers) < Len(asked)
    /\ readBuf.length = Request.length /\ Unfinished(readBuf)
    /\ consumed = EndAt(Len(answers)) + HeaderSize + readBuf.wrLength

PositionOK ==
    /\ AskedOK
    /\ consumed \in Nat /\ delivered \in consumed .. Written
    /\ readBuf \in Buffers
    /\ conn # "closed" => Between \/ Within

LEMMA WrittenIsEnd == Written = EndAt(Len(asked))
BY DEF Written, EndAt, AskedOK

LEMMA EndAtType ==
    ASSUME AskedOK, NEW i \in 0 .. Len(asked)
    PROVE  EndAt(i) \in Nat
<1>1. CASE i = 0
  BY <1>1 DEF EndAt
<1>2. CASE i # 0
  <2>1. i \in 1 .. Len(asked)
    BY <1>2 DEF AskedOK
  <2>2. asked[i] \in Requests
    BY <2>1, ElementOfSeq DEF AskedOK
  <2> QED
    BY <1>2, <2>2 DEF EndAt, Requests
<1> QED
  BY <1>1, <1>2

LEMMA BodyLenFits == \A n \in BodyLen : n \in 0 .. UIntMod - 1
BY ConnectionAssumption

\* The request after those that have been answered.
LEMMA RequestIs ==
    ASSUME AskedOK, Len(answers) \in Nat, Len(answers) < Len(asked)
    PROVE  /\ Request \in Requests
           /\ Request.end = EndAt(Len(answers)) + HeaderSize + Request.length
           /\ EndAt(Len(answers)) \in Nat
           /\ Request.length \in 0 .. UIntMod - 1
<1> DEFINE i == Len(answers) + 1
<1>1. i \in 1 .. Len(asked) /\ i - 1 = Len(answers)
  BY DEF AskedOK
<1>2. asked[i] \in Requests
  BY <1>1, ElementOfSeq DEF AskedOK
<1>3. asked[i].end = EndAt(i - 1) + HeaderSize + asked[i].length
  BY <1>1 DEF AskedOK
<1>4. EndAt(Len(answers)) \in Nat
  BY EndAtType DEF AskedOK
<1>5. asked[i].length \in 0 .. UIntMod - 1
  <2>1. asked[i].length \in BodyLen
    BY <1>2 DEF Requests
  <2> HIDE DEF i
  <2> QED
    BY <2>1, BodyLenFits
<1> QED
  BY <1>1, <1>2, <1>3, <1>4, <1>5 DEF Request

\* While there is something to read, there is a request it is part of.
LEMMA PartOfRequest ==
    ASSUME BufferOK, PositionOK, conn = "open", Fresh, Inbox >= HeaderSize
    PROVE  /\ Between /\ Len(answers) < Len(asked)
           /\ Request \in Requests
           /\ Request.end = consumed + HeaderSize + Request.length
<1>1. Len(answers) \in Nat /\ Len(asked) \in Nat /\ HeaderSize \in Nat \ {0}
  BY ConnectionAssumption DEF BufferOK, PositionOK, AskedOK
<1>2. Between
  BY DEF PositionOK, Within, Unfinished, Fresh, Buffers
<1>3. Len(answers) # Len(asked)
  <2> SUFFICES ASSUME Len(answers) = Len(asked) PROVE FALSE
    OBVIOUS
  <2>1. consumed = Written
    BY <1>2, WrittenIsEnd DEF Between, PositionOK
  <2> QED
    BY <1>1, <2>1 DEF PositionOK, Inbox
<1>4. Len(answers) < Len(asked)
  BY <1>1, <1>2, <1>3 DEF Between
<1>5. /\ Request \in Requests
      /\ Request.end = EndAt(Len(answers)) + HeaderSize + Request.length
  BY <1>1, <1>4, RequestIs DEF PositionOK
<1> QED
  BY <1>2, <1>4, <1>5 DEF Between

-------------------------------------------------------------------------------
(* What the read event does.                                                *)

\* The connection is closed, before more than what has arrived is read.
Leaves ==
    /\ conn = "open" /\ conn' = "closed"
    /\ readBuf' = Empty
    /\ consumed' \in consumed .. delivered
    /\ UNCHANGED answers \/ Len(answers) < Len(asked)

\* Part of a body is read, or the last of it.
Reads(l) ==
    /\ conn = "open" /\ UNCHANGED conn
    /\ Len(answers) < Len(asked)
    /\ Request \in Requests
    /\ l \in Nat \ {0} /\ consumed' = consumed + l /\ consumed' <= delivered

PartRead ==
    /\ \E l : Reads(l)
    /\ UNCHANGED answers
    /\ readBuf' \in Buffers /\ Within'

WholeRead ==
    /\ \E l : Reads(l)
    /\ Len(answers') = Len(answers) + 1
    /\ readBuf' = Empty /\ consumed' = Request.end

LEMMA BodyReads ==
    ASSUME BufferOK, PositionOK, conn = "open", Body, UNCHANGED client
    PROVE  Leaves \/ PartRead \/ WholeRead
<1> DEFINE header == IF Fresh THEN HeaderSize ELSE 0
           buf == IF Fresh THEN [length |-> Request.length, wrLength |-> 0]
                           ELSE readBuf
           l == Min({Inbox - header, buf.length - buf.wrLength})
           m == Len(answers)
<1>1. /\ m \in Nat /\ HeaderSize \in Nat /\ HeaderSize > 0 /\ header \in Nat
      /\ UIntMod \in Nat
  BY ConnectionAssumption DEF BufferOK
<1>2. /\ consumed \in Nat /\ delivered \in Nat /\ consumed <= delivered
      /\ Written \in Nat
  <2>1. Written \in Nat
    <3>1. Len(asked) \in Nat
      BY DEF PositionOK, AskedOK
    <3> QED
      BY <3>1, WrittenIsEnd, EndAtType DEF PositionOK
  <2> QED
    BY <2>1 DEF PositionOK
<1>3. Fresh => Inbox >= HeaderSize /\ ~BadLength(Request.length)
  BY DEF Body
<1>4. /\ m < Len(asked) /\ Request \in Requests
      /\ Request.end = EndAt(m) + HeaderSize + Request.length
      /\ consumed + header = EndAt(m) + HeaderSize + buf.wrLength
      /\ buf.length = Request.length /\ buf \in Buffers /\ Unfinished(buf)
      /\ EndAt(m) \in Nat
  <2>1. CASE Fresh
    <3>1. /\ Between /\ m < Len(asked) /\ Request \in Requests
          /\ Request.end = consumed + HeaderSize + Request.length
      BY <1>3, <2>1, PartOfRequest
    <3>2. Request.length \in 0 .. UIntMod - 1 /\ Request.length # 0
      BY <1>1, <1>3, <2>1, <3>1, RequestIs DEF BadLength, PositionOK
    <3>3. buf \in Buffers /\ Unfinished(buf) /\ buf.length = Request.length
      BY <2>1, <3>2 DEF Buffers, Unfinished
    <3>4. consumed = EndAt(m) /\ header = HeaderSize /\ buf.wrLength = 0
      BY <2>1, <3>1 DEF Between
    <3> HIDE DEF header, buf
    <3> QED
      BY <1>1, <1>2, <3>1, <3>3, <3>4
  <2>2. CASE ~Fresh
    <3>1. Within /\ readBuf \in Buffers
      BY <2>2 DEF Fresh, PositionOK, Between
    <3>2. /\ Request \in Requests
          /\ Request.end = EndAt(m) + HeaderSize + Request.length
          /\ EndAt(m) \in Nat
      BY <1>1, <3>1, RequestIs DEF Within, PositionOK
    <3>3. header = 0 /\ buf = readBuf
      BY <2>2
    <3> HIDE DEF header, buf
    <3> QED
      BY <1>2, <3>1, <3>2, <3>3 DEF Within
  <2> QED
    BY <2>1, <2>2
<1>5. /\ l \in Nat /\ l <= Inbox - header /\ l <= buf.length - buf.wrLength
      /\ buf.length \in Nat /\ buf.wrLength \in Nat
  <2>1. buf.length \in Nat /\ buf.wrLength \in Nat /\ buf.wrLength < buf.length
    BY <1>1, <1>4 DEF Buffers, Unfinished
  <2>2. Inbox - header \in Nat
    BY <1>1, <1>2, <1>3 DEF Inbox
  <2> HIDE DEF header, buf, Min
  <2> QED
    BY <2>1, <2>2, MinOfTwo
<1>6. /\ consumed' = consumed + header + l
      /\ \/ Gone(buf, l) /\ (\E s : Close(s))
         \/ ~Gone(buf, l) /\ Whole(buf, l) /\ (\E s : Respond(s))
         \/ /\ ~Gone(buf, l) /\ ~Whole(buf, l)
            /\ readBuf' = [buf EXCEPT !.wrLength = @ + l]
            /\ UNCHANGED <<conn, answers>>
  BY DEF Body
<1>7. consumed' \in consumed .. delivered
  <2> HIDE DEF header, l
  <2> QED
    BY <1>1, <1>2, <1>5, <1>6 DEF Inbox
<1>8. CASE conn' = "closed"
  BY <1>4, <1>6, <1>7, <1>8 DEF Leaves, Close, Respond, SendFrom
<1>9. CASE ~Gone(buf, l) /\ conn' # "closed"
  <2>1. Reads(header + l)
    <3>1. header + l \in Nat \ {0} /\ consumed' = consumed + (header + l)
      <4> HIDE DEF header, buf, l
      <4> QED
        BY <1>1, <1>2, <1>5, <1>6, <1>9 DEF Gone
    <3>2. UNCHANGED conn
      BY <1>6, <1>9 DEF Close, Respond, SendFrom
    <3> QED
      BY <1>4, <1>7, <3>1, <3>2 DEF Reads
  <2>2. CASE Whole(buf, l)
    <3>1. PICK s : Respond(s)
      BY <1>6, <1>9, <2>2
    <3>2. Len(answers') = m + 1 /\ readBuf' = Empty
      BY <3>1, AppendProperties DEF Respond, BufferOK
    <3>3. consumed' = Request.end
      <4> HIDE DEF header, buf, l
      <4> QED
        BY <1>1, <1>2, <1>4, <1>5, <1>6, <2>2 DEF Whole
    <3> QED
      BY <2>1, <3>2, <3>3 DEF WholeRead
  <2>3. CASE ~Whole(buf, l)
    <3>1. /\ readBuf' = [buf EXCEPT !.wrLength = @ + l]
          /\ UNCHANGED <<answers, asked>>
      BY <1>6, <1>9, <2>3 DEF client
    <3>2. /\ readBuf'.length = Request.length
          /\ readBuf'.wrLength = buf.wrLength + l
          /\ readBuf' \in Buffers
      <4> HIDE DEF buf, l
      <4> QED
        BY <1>4, <1>5, <3>1 DEF Buffers
    <3>3. Unfinished(readBuf')
      <4> HIDE DEF buf, l
      <4> QED
        BY <1>4, <1>5, <2>3, <3>2 DEF Whole, Unfinished
    <3>4. consumed' = EndAt(m) + HeaderSize + readBuf'.wrLength
      <4> HIDE DEF header, buf, l
      <4> QED
        BY <1>1, <1>2, <1>4, <1>5, <1>6, <3>2
    <3>5. Within'
      BY <1>4, <3>1, <3>2, <3>3, <3>4 DEF Within, Request, EndAt, Unfinished
    <3> QED
      BY <2>1, <3>1, <3>2, <3>5 DEF PartRead
  <2> QED
    BY <2>2, <2>3
<1> QED
  BY <1>6, <1>8, <1>9 DEF Close

LEMMA ReadReads ==
    ASSUME BufferOK, PositionOK, read
    PROVE  Leaves \/ PartRead \/ WholeRead
<1>1. conn = "open" /\ UNCHANGED client
  BY DEF read
<1>2. /\ consumed \in Nat /\ delivered \in Nat /\ consumed <= delivered
      /\ HeaderSize \in Nat
  <2>1. Written \in Nat
    <3>1. Len(asked) \in Nat
      BY DEF PositionOK, AskedOK
    <3> QED
      BY <3>1, WrittenIsEnd, EndAtType DEF PositionOK
  <2> QED
    BY <2>1, ConnectionAssumption DEF PositionOK
<1>3. CASE NoHeader \/ FailedHeader
  BY <1>1, <1>2, <1>3 DEF NoHeader, FailedHeader, Close, Leaves
<1>4. CASE WrongHeader
  <2>1. consumed' = consumed + HeaderSize /\ Inbox >= HeaderSize
    BY <1>4 DEF WrongHeader
  <2>2. consumed' \in consumed .. delivered
    BY <1>2, <2>1 DEF Inbox
  <2> QED
    BY <1>1, <1>4, <2>2 DEF WrongHeader, Close, Leaves
<1>5. CASE Body
  BY <1>1, <1>5, BodyReads
<1> QED
  BY <1>3, <1>4, <1>5 DEF read

\* A request is answered only when there is one, and when it is whole.
LEMMA AnswersReads ==
    ASSUME BufferOK, Leaves \/ PartRead \/ WholeRead, ~UNCHANGED answers
    PROVE  Len(answers) < Len(asked)
BY DEF Leaves, PartRead, WholeRead, Reads

-------------------------------------------------------------------------------
(* The position is kept.                                                    *)

LEMMA PositionRead ==
    ASSUME BufferOK, PositionOK, UNCHANGED client,
           Leaves \/ PartRead \/ WholeRead
    PROVE  PositionOK'
<1>1. /\ Written' = Written /\ delivered' = delivered /\ AskedOK'
      /\ \A i : EndAt(i)' = EndAt(i)
  BY DEF client, Written, AskedOK, EndAt, PositionOK
<1>2. consumed \in Nat /\ delivered \in consumed .. Written /\ Written \in Nat
  <2>1. Len(asked) \in Nat
    BY DEF PositionOK, AskedOK
  <2> QED
    BY <2>1, WrittenIsEnd, EndAtType DEF PositionOK
<1>3. consumed' \in Nat /\ delivered' \in consumed' .. Written'
  <2>1. consumed' \in Nat /\ consumed' <= delivered
    BY <1>2 DEF Leaves, PartRead, WholeRead, Reads
  <2> QED
    BY <1>1, <1>2, <2>1
<1>4. Empty \in Buffers
  BY ConnectionAssumption DEF Empty, Buffers
<1>5. CASE Leaves
  BY <1>1, <1>3, <1>4, <1>5 DEF Leaves, PositionOK
<1>6. CASE PartRead
  BY <1>1, <1>3, <1>6 DEF PartRead, PositionOK
<1>7. CASE WholeRead
  <2>1. /\ Len(answers') = Len(answers) + 1 /\ Len(answers) < Len(asked)
        /\ Len(answers) \in Nat /\ Len(asked) \in Nat
    BY <1>7 DEF WholeRead, Reads, BufferOK, PositionOK, AskedOK
  <2>2. consumed' = Request.end
    BY <1>7 DEF WholeRead
  <2>3. Request.end = EndAt(Len(answers'))
    <3>1. Len(answers) + 1 # 0
      BY <2>1
    <3> QED
      BY <2>1, <3>1 DEF EndAt, Request
  <2>4. consumed' = EndAt(Len(answers))'
    BY <1>1, <2>2, <2>3 DEF EndAt
  <2>5. Len(answers') <= Len(asked')
    BY <2>1 DEF client
  <2>6. Between'
    BY <1>7, <2>4, <2>5 DEF Between, WholeRead, Empty
  <2> QED
    BY <1>1, <1>3, <1>4, <1>7, <2>6 DEF WholeRead, PositionOK
<1> QED
  BY <1>5, <1>6, <1>7

LEMMA AskPosition ==
    ASSUME BufferOK, PositionOK, NEW n \in BodyLen, Ask(n),
           UNCHANGED <<server, consumed>>
    PROVE  PositionOK'
<1> DEFINE r == [length |-> n, end |-> Written + HeaderSize + n]
<1>1. Len(asked) \in Nat /\ Len(answers) \in Nat /\ Written \in Nat
  <2>1. Len(asked) \in Nat /\ Len(answers) \in Nat
    BY DEF BufferOK, PositionOK, AskedOK
  <2> QED
    BY <2>1, WrittenIsEnd, EndAtType DEF PositionOK
<1>2. r \in Requests
  BY <1>1, ConnectionAssumption DEF Requests
<1>3. /\ asked' \in Seq(Requests) /\ Len(asked') = Len(asked) + 1
      /\ \A i \in 1 .. Len(asked) : asked'[i] = asked[i]
      /\ asked'[Len(asked) + 1] = r
  <2>1. asked' = Append(asked, r)
    BY DEF Ask
  <2> HIDE DEF r
  <2> QED
    BY <1>2, <2>1, AppendProperties DEF PositionOK, AskedOK
<1>4. ASSUME NEW i \in 0 .. Len(asked) PROVE EndAt(i)' = EndAt(i)
  BY <1>1, <1>3 DEF EndAt
<1>5. AskedOK'
  <2>1. ASSUME NEW i \in 1 .. Len(asked')
        PROVE  asked'[i].end = EndAt(i - 1)' + HeaderSize + asked'[i].length
    <3>1. CASE i = Len(asked) + 1
      <4>1. i - 1 = Len(asked)
        BY <1>1, <3>1
      <4>2. EndAt(i - 1)' = Written
        BY <1>1, <1>4, <4>1, WrittenIsEnd DEF PositionOK
      <4> QED
        BY <1>3, <3>1, <4>2
    <3>2. CASE i # Len(asked) + 1
      <4>1. i \in 1 .. Len(asked) /\ i - 1 \in 0 .. Len(asked)
        BY <1>1, <1>3, <3>2
      <4>2. asked[i].end = EndAt(i - 1) + HeaderSize + asked[i].length
        BY <4>1 DEF PositionOK, AskedOK
      <4> QED
        BY <1>3, <1>4, <4>1, <4>2
    <3> QED
      BY <3>1, <3>2
  <2> QED
    BY <1>3, <2>1 DEF AskedOK
<1>6. Written' = Written + HeaderSize + n
  <2>1. asked' # <<>>
    BY <1>1, <1>3
  <2> QED
    BY <1>3, <2>1 DEF Written
<1>7. delivered' \in consumed' .. Written'
  BY <1>1, <1>6, ConnectionAssumption DEF Ask, PositionOK
<1>8. ASSUME conn # "closed" PROVE (Between \/ Within)'
  <2>1. CASE Between
    <3>1. EndAt(Len(answers))' = EndAt(Len(answers))
      BY <1>1, <1>4, <2>1 DEF Between, server, EndAt
    <3> QED
      BY <1>1, <1>3, <2>1, <3>1 DEF Between, server
  <2>2. CASE Within
    <3>1. EndAt(Len(answers))' = EndAt(Len(answers))
      BY <1>1, <1>4, <2>2 DEF Within, server, EndAt
    <3>2. Request' = Request
      BY <1>1, <1>3, <2>2 DEF Within, Request, server
    <3>3. Len(answers') < Len(asked') /\ readBuf' = readBuf /\ consumed' = consumed
      BY <1>1, <1>3, <2>2 DEF Within, server
    <3> QED
      BY <2>2, <3>1, <3>2, <3>3 DEF Within
  <2> QED
    BY <1>8, <2>1, <2>2 DEF PositionOK
<1> QED
  BY <1>5, <1>7, <1>8 DEF PositionOK, server

LEMMA PositionNext ==
    ASSUME BufferOK, PositionOK, [Next]_vars
    PROVE  PositionOK'
<1>1. /\ consumed \in Nat /\ delivered \in Nat /\ consumed <= delivered
      /\ delivered <= Written /\ Written \in Nat
  <2>1. Len(asked) \in Nat
    BY DEF PositionOK, AskedOK
  <2>2. Written \in Nat
    BY <2>1, WrittenIsEnd, EndAtType DEF PositionOK
  <2> QED
    BY <2>2 DEF PositionOK
<1>2. ASSUME UNCHANGED <<asked, answers, consumed, delivered, readBuf>>,
             conn' = conn \/ conn = "queued"
      PROVE  PositionOK'
  BY <1>2, Zenon DEF PositionOK, AskedOK, EndAt, Between, Within, Request, Unfinished,
             Written
<1>3. CASE UNCHANGED vars
  BY <1>2, <1>3 DEF vars, server, client
<1>4. CASE ClientStep
  <2>1. CASE \E n \in BodyLen : Ask(n)
    BY <1>4, <2>1, AskPosition DEF ClientStep
  <2>2. CASE Deliver
    <3>1. delivered' \in consumed' .. Written'
      BY <1>1, <1>4, <2>2 DEF ClientStep, Deliver, Written
    <3> QED
      BY <1>4, <2>2, <3>1
         DEF ClientStep, Deliver, server, PositionOK, AskedOK, EndAt, Between,
             Within, Request, Unfinished
  <2>3. CASE Drain \/ Leave
    BY <1>2, <1>4, <2>3 DEF ClientStep, Drain, Leave, server
  <2> QED
    BY <1>4, <2>1, <2>2, <2>3 DEF ClientStep
<1>5. CASE accept
  BY <1>2, <1>5 DEF accept, client
<1>6. CASE read
  BY <1>6, ReadReads, PositionRead DEF read
<1>7. CASE write
  <2>1. CASE conn' = "open"
    <3>1. UNCHANGED <<readBuf, conn, answers, consumed, client>>
      BY <1>7, <2>1 DEF write
    <3> QED
      BY <1>2, <3>1 DEF client
  <2>2. CASE conn' # "open"
    <3>1. /\ UNCHANGED <<answers, consumed, client>>
          /\ readBuf' = Empty /\ conn' = "closed"
      BY <1>7, <2>2 DEF write, SendFrom, Close
    <3>2. Empty \in Buffers
      BY ConnectionAssumption DEF Empty, Buffers
    <3> QED
      BY <3>1, <3>2 DEF client, PositionOK, AskedOK, EndAt, Written
  <2> QED
    BY <2>1, <2>2
<1> QED
  BY <1>3, <1>4, <1>5, <1>6, <1>7 DEF Next

-------------------------------------------------------------------------------
(* What is counted.                                                         *)

\* The statistics of a connection that is not closed yet.
Counts(s, received, taken) ==
    /\ s \in Statistics /\ s.disconnection = 0
    /\ s.receivedBytes = received /\ s.sendedBytes = taken

CountOK ==
    /\ stats \in Statistics /\ stats.sendedBytes = Len(sent)
    /\ conn # "closed" => Counts(stats, consumed, Len(sent))
    /\ \/ stats.receivedBytes <= consumed
       \/ peer = "reset" /\ stats.receivedBytes = consumed + UIntMod - 1
    /\ stats.receivedBytes > consumed - HeaderSize

FlagsOK ==
    /\ peer \in {"open", "shut", "reset"} /\ writeArmed \in BOOLEAN
    /\ tMonitoring \in {"none", "receive", "send"} \X Nat
    /\ hasty \in BOOLEAN /\ split \in BOOLEAN

LEMMA LostCounts ==
    ASSUME NEW s, NEW r, NEW n, Counts(s, r, n)
    PROVE  /\ Lost(s) \in Statistics
           /\ Lost(s).receivedBytes = r /\ Lost(s).sendedBytes = n
BY DEF Counts, Lost, Statistics

LEMMA ReceivedCounts ==
    ASSUME NEW s, NEW r \in Nat, NEW n, NEW l \in Nat, Counts(s, r, n)
    PROVE  Counts(Received(s, l), r + l, n)
BY DEF Counts, Received, Statistics

LEMMA SendedCounts ==
    ASSUME NEW s, NEW r, NEW n \in Nat, NEW buf, NEW l \in Nat, Counts(s, r, n)
    PROVE  Counts(Sended(s, buf, l), r, n + l)
BY DEF Counts, Sended, Statistics

\* A duration is counted.
LEMMA TimedCounts ==
    ASSUME NEW s, NEW r, NEW n, Counts(s, r, n)
    PROVE  /\ Counts([s EXCEPT !.sending = @ + 1], r, n)
           /\ Counts([s EXCEPT !.receiving = @ + 1, !.processing = @ + 1], r, n)
<1> DEFINE t == [s EXCEPT !.receiving = @ + 1]
<1>1. Counts([s EXCEPT !.sending = @ + 1], r, n) /\ Counts(t, r, n)
  BY DEF Counts, Statistics
<1>2. [s EXCEPT !.receiving = @ + 1, !.processing = @ + 1]
         = [t EXCEPT !.processing = @ + 1]
  OBVIOUS
<1> HIDE DEF t
<1>3. Counts([t EXCEPT !.processing = @ + 1], r, n)
  BY <1>1 DEF Counts, Statistics
<1> QED
  BY <1>1, <1>2, <1>3

LEMMA SendFromCounts ==
    ASSUME drained \in 0 .. Len(sent), sent \in Seq(Bytes),
           NEW number \in Nat, NEW buf \in Buffers, NEW s, NEW r,
           Counts(s, r, Len(sent)), SendFrom(buf, number, s)
    PROVE  \/ /\ conn' = "closed" /\ UNCHANGED sent /\ stats' = Lost(s)
              /\ writeArmed' = FALSE /\ UNCHANGED tMonitoring
           \/ /\ UNCHANGED conn
              /\ Counts(stats', r, Len(sent'))
<1>1. PICK l \in Taken(buf) :
        \/ l = 0 /\ Close(Lost(s))
        \/ /\ l > 0
           /\ sent' = sent \o BytesOf(number, buf, l)
           /\ \/ stats' = [Sended(s, buf, l) EXCEPT !.sending = @ + 1]
              \/ stats' = Sended(s, buf, l)
           /\ UNCHANGED conn
  BY DEF SendFrom
<1>2. CASE l = 0
  BY <1>1, <1>2 DEF Close
<1>3. CASE l > 0
  <2>1. /\ buf.length \in 0 .. UIntMod - 1 /\ buf.wrLength \in Nat
        /\ UIntMod \in Nat /\ Len(sent) \in Nat
    BY ConnectionAssumption DEF Buffers
  <2>2. Wanted(buf) \in 0 .. UIntMod - 1
    <3>1. buf.length - buf.wrLength \in Int
      BY <2>1
    <3> QED
      BY <3>1, Unsigned DEF Wanted
  <2>3. Room \in Int
    BY <2>1, ConnectionAssumption DEF Room
  <2>4. l \in Nat /\ l # 0
    <3>1. Min({Wanted(buf), Room}) \in Int
      <4> HIDE DEF Min
      <4> QED
        BY <2>1, <2>2, <2>3, MinOfTwo
    <3> QED
      BY <1>3, <3>1 DEF Taken
  <2>5. Len(sent') = Len(sent) + l
    BY <1>1, <1>3, <2>4, BytesOfType, ConcatProperties
  <2>6. Counts(stats', r, Len(sent) + l)
    <3>1. Counts(Sended(s, buf, l), r, Len(sent) + l)
      BY <2>1, <2>4, SendedCounts
    <3>2. Counts([Sended(s, buf, l) EXCEPT !.sending = @ + 1], r, Len(sent) + l)
      BY <3>1, TimedCounts, Zenon
    <3> QED
      BY <1>1, <2>4, <3>1, <3>2, Zenon
  <2> QED
    BY <1>1, <1>3, <2>5, <2>6
<1>4. l = 0 \/ l > 0
  BY <1>1
<1> QED
  BY <1>2, <1>3, <1>4

\* What a callback leaves counted.
Counted ==
    /\ stats' \in Statistics /\ stats'.sendedBytes = Len(sent')
    /\ conn' # "closed" => Counts(stats', consumed', Len(sent'))
    /\ \/ stats'.receivedBytes <= consumed'
       \/ peer = "reset" /\ stats'.receivedBytes = consumed' + UIntMod - 1
    /\ stats'.receivedBytes > consumed' - HeaderSize
    /\ writeArmed' \in BOOLEAN
    /\ tMonitoring' \in {"none", "receive", "send"} \X Nat

\* The sending is over: the connection is lost, or goes on.
LEMMA CountedAfter ==
    ASSUME consumed' \in Nat, NEW s, Counts(s, consumed', Len(sent)),
           \/ conn' = "closed" /\ UNCHANGED sent /\ stats' = Lost(s)
           \/ conn' = "open" /\ Counts(stats', consumed', Len(sent')),
           writeArmed' \in BOOLEAN,
           tMonitoring' \in {"none", "receive", "send"} \X Nat
    PROVE  Counted
<1>1. consumed' > consumed' - HeaderSize /\ consumed' <= consumed'
  <2>1. ASSUME NEW c \in Nat PROVE c > c - HeaderSize /\ c <= c
    BY ConnectionAssumption
  <2> QED
    BY <2>1, Zenon
<1>2. CASE conn' = "closed" /\ UNCHANGED sent /\ stats' = Lost(s)
  <2>1. /\ Lost(s) \in Statistics
        /\ Lost(s).receivedBytes = consumed' /\ Lost(s).sendedBytes = Len(sent)
    BY LostCounts
  <2> QED
    BY <1>1, <1>2, <2>1, Zenon DEF Counted
<1>3. CASE conn' = "open" /\ Counts(stats', consumed', Len(sent'))
  <2>1. /\ stats' \in Statistics /\ stats'.receivedBytes = consumed'
        /\ stats'.sendedBytes = Len(sent')
    BY <1>3 DEF Counts
  <2> QED
    BY <1>1, <1>3, <2>1, Zenon DEF Counted
<1> QED
  BY <1>2, <1>3

LEMMA RespondCounts ==
    ASSUME BufferOK, FlagsOK, consumed' \in Nat,
           NEW s, Counts(s, consumed', Len(sent)), Respond(s), conn = "open"
    PROVE  Counted
<1>1. PICK n \in AnswerLen :
        /\ SendFrom(Put(n), Len(answers) + 1,
                    [s EXCEPT !.receiving = @ + 1, !.processing = @ + 1])
        /\ conn' = "open" => /\ tMonitoring' = Stamp("send", Len(answers) + 1)
                             /\ UNCHANGED writeArmed
  BY DEF Respond, Put
<1> DEFINE s1 == [s EXCEPT !.receiving = @ + 1, !.processing = @ + 1]
<1>2. Counts(s1, consumed', Len(sent))
  BY TimedCounts
<1>3. Len(answers) + 1 \in Nat /\ Put(n) \in Buffers
  BY PutType DEF BufferOK
<1> HIDE DEF s1
<1>4. \/ /\ conn' = "closed" /\ UNCHANGED sent /\ stats' = Lost(s1)
         /\ writeArmed' = FALSE /\ UNCHANGED tMonitoring
      \/ /\ UNCHANGED conn
         /\ Counts(stats', consumed', Len(sent'))
  BY <1>1, <1>2, <1>3, SendFromCounts DEF BufferOK, s1
<1>5. /\ writeArmed' \in BOOLEAN
      /\ tMonitoring' \in {"none", "receive", "send"} \X Nat
  <2>1. CASE conn' = "closed"
    BY <1>4, <2>1 DEF FlagsOK
  <2>2. CASE conn' = "open"
    <3>1. tMonitoring' = Stamp("send", Len(answers) + 1) /\ UNCHANGED writeArmed
      BY <1>1, <2>2, Zenon
    <3> QED
      BY <1>3, <3>1 DEF FlagsOK, Stamp
  <2> QED
    BY <1>4, <2>1, <2>2
<1> QED
  BY <1>2, <1>4, <1>5, CountedAfter

LEMMA WriteCounts ==
    ASSUME BufferOK, PositionOK, CountOK, FlagsOK, write
    PROVE  Counted
<1>1. conn = "open" /\ consumed' = consumed /\ writeArmed' = FALSE
  BY DEF write
<1>2. Counts(stats, consumed, Len(sent)) /\ consumed \in Nat
  BY <1>1 DEF CountOK, PositionOK
<1>3. CASE writeBuf.length = 0
  <2>1. UNCHANGED <<conn, sent, stats, tMonitoring>>
    BY <1>3 DEF write
  <2>2. conn' = "open" /\ Counts(stats', consumed', Len(sent'))
    BY <1>1, <1>2, <2>1
  <2> QED
    BY <1>1, <1>2, <2>1, <2>2, CountedAfter DEF FlagsOK
<1>4. CASE writeBuf.length > 0
  <2>1. SendFrom(writeBuf, Len(answers), stats)
    BY <1>4 DEF write
  <2>2. Len(answers) \in Nat /\ writeBuf \in Buffers
    BY DEF BufferOK
  <2>3. \/ /\ conn' = "closed" /\ UNCHANGED sent /\ stats' = Lost(stats)
           /\ UNCHANGED tMonitoring
        \/ /\ UNCHANGED conn
           /\ Counts(stats', consumed, Len(sent'))
    BY <1>2, <2>1, <2>2, SendFromCounts DEF BufferOK
  <2>4. tMonitoring' = tMonitoring
    BY <1>1, <1>4, <2>3 DEF write
  <2> QED
    BY <1>1, <1>2, <2>3, <2>4, CountedAfter DEF FlagsOK
<1>5. writeBuf.length \in Nat
  BY ConnectionAssumption DEF BufferOK, Buffers
<1> QED
  BY <1>3, <1>4, <1>5

LEMMA ReadCounts ==
    ASSUME BufferOK, PositionOK, CountOK, FlagsOK, read
    PROVE  Counted
<1>1. conn = "open" /\ Counts(stats, consumed, Len(sent))
  BY DEF read, CountOK
<1>2. /\ consumed \in Nat /\ delivered \in Nat /\ consumed <= delivered
      /\ HeaderSize \in Nat /\ HeaderSize > 0 /\ UIntMod \in Nat /\ UIntMod > 0
  <2>1. Len(asked) \in Nat
    BY DEF PositionOK, AskedOK
  <2>2. Written \in Nat
    BY <2>1, WrittenIsEnd, EndAtType DEF PositionOK
  <2> QED
    BY <2>2, ConnectionAssumption DEF PositionOK
<1>3. ASSUME NEW s, Close(s), s \in Statistics, s.sendedBytes = Len(sent),
             \/ s.receivedBytes <= consumed'
             \/ peer = "reset" /\ s.receivedBytes = consumed' + UIntMod - 1,
             s.receivedBytes > consumed' - HeaderSize
      PROVE  Counted
  BY <1>3 DEF Close, Counted, FlagsOK
<1>4. CASE NoHeader
  <2>1. Close(stats) /\ consumed' = delivered /\ Inbox < HeaderSize
    BY <1>4 DEF NoHeader
  <2> QED
    BY <1>1, <1>2, <1>3, <2>1 DEF Counts, Inbox
<1>5. CASE FailedHeader
  <2>1. /\ Close(Lost(Received(stats, FailedRecv))) /\ consumed' = consumed
        /\ peer = "reset"
    BY <1>5 DEF FailedHeader
  <2>2. FailedRecv \in Nat /\ FailedRecv = UIntMod - 1
    BY <1>2 DEF FailedRecv
  <2>3. Counts(Received(stats, FailedRecv), consumed + FailedRecv, Len(sent))
    BY <1>1, <1>2, <2>2, ReceivedCounts
  <2>4. /\ Lost(Received(stats, FailedRecv)) \in Statistics
        /\ Lost(Received(stats, FailedRecv)).receivedBytes = consumed + FailedRecv
        /\ Lost(Received(stats, FailedRecv)).sendedBytes = Len(sent)
    BY <2>3, LostCounts
  <2> QED
    BY <1>2, <1>3, <2>1, <2>2, <2>4
<1>6. CASE WrongHeader
  <2>1. /\ Close(Lost(Received(stats, HeaderSize)))
        /\ consumed' = consumed + HeaderSize
    BY <1>6 DEF WrongHeader
  <2>2. Counts(Received(stats, HeaderSize), consumed + HeaderSize, Len(sent))
    BY <1>1, <1>2, ReceivedCounts
  <2>3. /\ Lost(Received(stats, HeaderSize)) \in Statistics
        /\ Lost(Received(stats, HeaderSize)).receivedBytes = consumed + HeaderSize
        /\ Lost(Received(stats, HeaderSize)).sendedBytes = Len(sent)
    BY <2>2, LostCounts
  <2> QED
    BY <1>2, <1>3, <2>1, <2>3
<1>7. CASE Body
  <2> DEFINE header == IF Fresh THEN HeaderSize ELSE 0
             buf == IF Fresh THEN [length |-> Request.length, wrLength |-> 0]
                             ELSE readBuf
             l == Min({Inbox - header, buf.length - buf.wrLength})
             s == Received(stats, header + l)
  <2>1. /\ consumed' = consumed + header + l
        /\ \/ Close(s)
           \/ Respond(s)
           \/ /\ stats' = s /\ UNCHANGED <<conn, writeArmed, sent>>
              /\ \/ tMonitoring' = Stamp("receive", Len(answers) + 1)
                 \/ UNCHANGED tMonitoring
    BY <1>7 DEF Body
  <2>2. header \in Nat /\ l \in Nat
    <3>1. header \in Nat /\ Inbox - header \in Nat
      BY <1>2, <1>7 DEF Body, Inbox
    <3>2. buf.length - buf.wrLength \in Nat
      <4>1. CASE Fresh
        <5>1. Len(answers) \in Nat /\ Len(answers) < Len(asked)
          BY <1>1, <1>7, <4>1, PartOfRequest DEF Body, BufferOK
        <5>2. Request.length \in 0 .. UIntMod - 1
          BY <5>1, RequestIs DEF PositionOK
        <5> QED
          BY <4>1, <5>2
      <4>2. CASE ~Fresh
        <5>1. Unfinished(readBuf) /\ readBuf \in Buffers
          BY <1>1, <4>2 DEF Fresh, PositionOK, Between, Within
        <5> QED
          BY <1>2, <4>2, <5>1 DEF Unfinished, Buffers
      <4> QED
        BY <4>1, <4>2
    <3> HIDE DEF header, buf, Min
    <3> QED
      BY <3>1, <3>2, MinOfTwo
  <2>3. consumed' = consumed + (header + l) /\ consumed' \in Nat
    <3> HIDE DEF header, l
    <3> QED
      BY <1>2, <2>1, <2>2
  <2>4. Counts(s, consumed', Len(sent))
    <3> HIDE DEF header, l
    <3>1. header + l \in Nat
      BY <2>2
    <3>2. Counts(s, consumed + (header + l), Len(sent))
      BY <1>1, <1>2, <3>1, ReceivedCounts, Zenon
    <3> QED
      BY <2>3, <3>2, Zenon
  <2> HIDE DEF s
  <2>5. CASE Close(s)
    BY <1>2, <1>3, <2>3, <2>4, <2>5 DEF Counts
  <2>6. CASE Respond(s)
    BY <1>1, <2>3, <2>4, <2>6, RespondCounts
  <2>7. CASE /\ stats' = s /\ UNCHANGED <<conn, writeArmed, sent>>
             /\ \/ tMonitoring' = Stamp("receive", Len(answers) + 1)
                \/ UNCHANGED tMonitoring
    <3>1. Len(answers) + 1 \in Nat
      BY DEF BufferOK
    <3> QED
      BY <1>2, <2>3, <2>4, <2>7, <3>1 DEF Counts, Counted, FlagsOK, Stamp
  <2> QED
    BY <2>1, <2>5, <2>6, <2>7
<1> QED
  BY <1>4, <1>5, <1>6, <1>7 DEF read

LEMMA CountInit == Init => CountOK /\ FlagsOK
<1> SUFFICES ASSUME Init PROVE CountOK /\ FlagsOK
  OBVIOUS
<1>1. Len(sent) = 0 /\ 0 > 0 - HeaderSize
  BY ConnectionAssumption DEF Init
<1>2. Counts(stats, 0, 0)
  BY DEF Init, Counts, Statistics
<1>3. CountOK
  BY <1>1, <1>2 DEF Init, CountOK, Counts
<1> QED
  BY <1>3 DEF Init, FlagsOK

LEMMA CountNext ==
    ASSUME BufferOK, PositionOK, CountOK, FlagsOK, [Next]_vars
    PROVE  CountOK' /\ FlagsOK'
<1>1. ASSUME UNCHANGED <<stats, sent, consumed, conn>>, peer = "reset" => peer' = "reset"
      PROVE  CountOK'
  BY <1>1, Zenon DEF CountOK, Counts
<1>2. ASSUME Counted, UNCHANGED peer PROVE CountOK'
  BY <1>2, Zenon DEF CountOK, Counted, Counts
<1>3. CASE UNCHANGED vars
  BY <1>1, <1>3 DEF vars, server, client, FlagsOK
<1>4. CASE ClientStep
  <2>1. /\ UNCHANGED <<server, consumed, sent, split>>
        /\ (\E n \in BodyLen : Ask(n)) \/ Deliver \/ Drain \/ Leave
    BY <1>4 DEF ClientStep
  <2>2. peer' \in {"open", "shut", "reset"} /\ (peer = "reset" => peer' = "reset")
    BY <2>1 DEF Ask, Deliver, Drain, Leave, FlagsOK
  <2>3. hasty' \in BOOLEAN
    <3>1. hasty' = hasty \/ hasty' = (hasty \/ ~Served)
      BY <2>1 DEF Ask, Deliver, Drain, Leave
    <3> QED
      BY <3>1 DEF FlagsOK
  <2> QED
    BY <1>1, <2>1, <2>2, <2>3 DEF server, FlagsOK
<1>5. CASE accept
  <2>1. conn' # "closed" /\ conn # "closed" /\ writeArmed' \in BOOLEAN
    BY <1>5 DEF accept
  <2>2. UNCHANGED <<stats, sent, consumed, peer, tMonitoring, hasty, split>>
    BY <1>5 DEF accept, client
  <2> QED
    BY <2>1, <2>2, Zenon DEF CountOK, Counts, FlagsOK
<1>6. CASE read
  <2>1. Counted /\ UNCHANGED <<peer, hasty>>
    BY <1>6, ReadCounts DEF read, client
  <2>2. split' \in BOOLEAN
    BY <1>6 DEF read, FlagsOK
  <2> QED
    BY <1>2, <2>1, <2>2, Zenon DEF FlagsOK, Counted
<1>7. CASE write
  <2>1. Counted /\ UNCHANGED <<peer, hasty, split>>
    BY <1>7, WriteCounts DEF write, client
  <2> QED
    BY <1>2, <2>1, Zenon DEF FlagsOK, Counted
<1> QED
  BY <1>3, <1>4, <1>5, <1>6, <1>7 DEF Next

-------------------------------------------------------------------------------
(* What has gone out of the answer in the buffer.                           *)

\* No byte sent is of an answer to come, or of what is left of answer `number`.
SentSoFar(bytes, number, wrLength) ==
    \A i \in 1 .. Len(bytes) :
        /\ bytes[i][1] <= number
        /\ bytes[i][1] = number => bytes[i][2] <= wrLength

\* The last byte of an answer, wherever it is, is the last byte sent.
LastIsLast(bytes, number, length) ==
    \A i \in 1 .. Len(bytes) : bytes[i] = <<number, length>> => i = Len(bytes)

Buffered ==
    /\ \A i \in 1 .. Len(sent) : sent[i][1] <= Len(answers)
    /\ Len(answers) = 0 => Len(sent) = 0
    /\ Len(answers) > 0 => LastIsLast(sent, Len(answers), answers[Len(answers)])
    /\ writeBuf.length > 0 =>
          /\ Len(answers) > 0 /\ writeBuf.length = answers[Len(answers)]
          /\ SentSoFar(sent, Len(answers), writeBuf.wrLength)

LEMMA GoesBuffered ==
    ASSUME sent \in Seq(Bytes), NEW number \in Nat, NEW buf \in Buffers,
           NEW l \in Nat \ {0}, Goes(buf, number, l), buf.wrLength + l <= buf.length,
           SentSoFar(sent, number, buf.wrLength)
    PROVE  /\ SentSoFar(sent', number, buf.wrLength + l)
           /\ LastIsLast(sent', number, buf.length)
           /\ writeBuf'.length > 0 =>
                 /\ writeBuf'.length = buf.length
                 /\ writeBuf'.wrLength = buf.wrLength + l
<1> DEFINE new == BytesOf(number, buf, l)
<1>1. new \in Seq(Bytes) /\ Len(new) = l /\ sent' = sent \o new
  BY BytesOfType DEF Goes
<1>2. ASSUME NEW i \in 1 .. l PROVE new[i] = <<number, buf.wrLength + i>>
  BY DEF BytesOf, Buffers
<1> HIDE DEF new
<1>3. /\ Len(sent') = Len(sent) + l
      /\ \A i \in 1 .. Len(sent') :
            sent'[i] = IF i <= Len(sent) THEN sent[i] ELSE new[i - Len(sent)]
  BY <1>1, ConcatProperties
<1>4. ASSUME NEW i \in 1 .. Len(sent')
      PROVE  /\ sent'[i][1] <= number
             /\ sent'[i][1] = number => sent'[i][2] <= buf.wrLength + l
  <2>1. CASE i <= Len(sent)
    <3>1. i \in 1 .. Len(sent) /\ sent'[i] = sent[i]
      BY <1>3, <2>1
    <3>2. sent[i] \in Nat \X Nat
      BY <3>1, ElementOfSeq DEF Bytes
    <3> QED
      BY <3>1, <3>2 DEF SentSoFar, Buffers
  <2>2. CASE ~(i <= Len(sent))
    <3>1. i - Len(sent) \in 1 .. l /\ sent'[i] = new[i - Len(sent)]
      BY <1>3, <2>2
    <3>2. sent'[i] = <<number, buf.wrLength + (i - Len(sent))>>
      BY <1>2, <3>1
    <3> QED
      BY <3>1, <3>2 DEF Buffers
  <2> QED
    BY <2>1, <2>2
<1>5. SentSoFar(sent', number, buf.wrLength + l)
  BY <1>4 DEF SentSoFar
<1>6. ASSUME writeBuf'.length > 0
      PROVE  writeBuf'.length = buf.length /\ writeBuf'.wrLength = buf.wrLength + l
  <2>1. writeBuf' # Empty
    BY <1>6 DEF Empty
  <2>2. writeBuf' = [buf EXCEPT !.wrLength = @ + l]
    BY <2>1 DEF Goes
  <2> QED
    BY <2>2 DEF Buffers
<1>7. ASSUME NEW i \in 1 .. Len(sent'), sent'[i] = <<number, buf.length>>
      PROVE  i = Len(sent')
  <2>1. buf.length \in Nat /\ buf.wrLength \in Nat /\ Len(sent) \in Nat
    BY ConnectionAssumption DEF Buffers
  <2>2. CASE i <= Len(sent)
    <3>1. sent[i] = <<number, buf.length>> /\ i \in 1 .. Len(sent)
      BY <1>3, <1>7, <2>2
    <3>2. buf.length <= buf.wrLength
      BY <3>1 DEF SentSoFar
    <3> QED
      BY <2>1, <3>2
  <2>3. CASE ~(i <= Len(sent))
    <3>1. i - Len(sent) \in 1 .. l /\ sent'[i] = new[i - Len(sent)]
      BY <1>3, <2>1, <2>3
    <3>2. sent'[i] = <<number, buf.wrLength + (i - Len(sent))>>
      BY <1>2, <3>1
    <3>3. buf.length = buf.wrLength + (i - Len(sent))
      BY <1>7, <3>2
    <3> QED
      BY <1>3, <2>1, <3>1, <3>3
  <2> QED
    BY <2>2, <2>3
<1>8. LastIsLast(sent', number, buf.length)
  BY <1>7 DEF LastIsLast
<1> QED
  BY <1>5, <1>6, <1>8

LEMMA BufferedAnswers ==
    ASSUME BufferOK, Buffered, Answers, ~spoiled'
    PROVE  Buffered'
<1>1. PICK n \in AnswerLen, l \in Nat \ {0} :
        /\ answers' = Append(answers, n)
        /\ spoiled' = (spoiled \/ writeBuf.length > 0)
        /\ Goes(Put(n), Len(answers) + 1, l)
        /\ Unfinished(Put(n)) => Put(n).wrLength + l <= n
  BY DEF Answers
<1>2. /\ Put(n) \in Buffers /\ Put(n).length = n /\ Put(n).wrLength = 0
      /\ Unfinished(Put(n))
  <2>1. ~spoiled /\ ~(writeBuf.length > 0)
    BY <1>1
  <2>2. /\ Put(n) \in Buffers /\ Put(n) = [length |-> n, wrLength |-> 0]
        /\ Unfinished(Put(n))
    BY <2>1, PutType
  <2> QED
    BY <2>2
<1>3. Len(answers') = Len(answers) + 1 /\ answers'[Len(answers')] = n
  BY <1>1, AppendProperties DEF BufferOK
<1>4. Len(answers) \in Nat /\ Len(answers) + 1 \in Nat /\ sent \in Seq(Bytes)
  BY DEF BufferOK
<1>5. SentSoFar(sent, Len(answers) + 1, Put(n).wrLength)
  <2>1. ASSUME NEW i \in 1 .. Len(sent)
        PROVE  sent[i][1] <= Len(answers) + 1 /\ sent[i][1] # Len(answers) + 1
    <3>1. sent[i] \in Nat \X Nat
      BY <1>4, ElementOfSeq DEF Bytes
    <3>2. sent[i][1] <= Len(answers)
      BY DEF Buffered
    <3> QED
      BY <1>4, <3>1, <3>2
  <2> QED
    BY <2>1 DEF SentSoFar
<1>6. Put(n).wrLength + l <= Put(n).length
  BY <1>1, <1>2
<1>7. /\ SentSoFar(sent', Len(answers) + 1, Put(n).wrLength + l)
      /\ LastIsLast(sent', Len(answers) + 1, Put(n).length)
      /\ writeBuf'.length > 0 =>
            /\ writeBuf'.length = Put(n).length
            /\ writeBuf'.wrLength = Put(n).wrLength + l
  BY <1>1, <1>2, <1>4, <1>5, <1>6, GoesBuffered
<1>8. \A i \in 1 .. Len(sent') : sent'[i][1] <= Len(answers')
  BY <1>3, <1>7 DEF SentSoFar
<1>9. writeBuf'.length > 0 => SentSoFar(sent', Len(answers'), writeBuf'.wrLength)
  BY <1>3, <1>7 DEF SentSoFar
<1> QED
  BY <1>2, <1>3, <1>4, <1>7, <1>8, <1>9 DEF Buffered

LEMMA BufferedSendsOn ==
    ASSUME BufferOK, Buffered, SendsOn, ~spoiled
    PROVE  Buffered'
<1>1. PICK l \in Nat \ {0} :
        /\ Goes(writeBuf, Len(answers), l)
        /\ Unfinished(writeBuf) => writeBuf.wrLength + l <= writeBuf.length
  BY DEF SendsOn
<1>2. writeBuf.length > 0 /\ UNCHANGED answers
  BY DEF SendsOn
<1>3. writeBuf \in Buffers /\ Unfinished(writeBuf)
  BY <1>2 DEF BufferOK, Empty
<1>4. Len(answers) \in Nat /\ sent \in Seq(Bytes)
  BY DEF BufferOK
<1>5. SentSoFar(sent, Len(answers), writeBuf.wrLength)
  BY <1>2 DEF Buffered
<1>6. /\ SentSoFar(sent', Len(answers), writeBuf.wrLength + l)
      /\ LastIsLast(sent', Len(answers), writeBuf.length)
      /\ writeBuf'.length > 0 =>
            /\ writeBuf'.length = writeBuf.length
            /\ writeBuf'.wrLength = writeBuf.wrLength + l
  BY <1>1, <1>3, <1>4, <1>5, GoesBuffered
<1>7. \A i \in 1 .. Len(sent') : sent'[i][1] <= Len(answers')
  BY <1>2, <1>6 DEF SentSoFar
<1>8. writeBuf'.length > 0 => SentSoFar(sent', Len(answers'), writeBuf'.wrLength)
  BY <1>2, <1>6 DEF SentSoFar
<1> QED
  BY <1>2, <1>6, <1>7, <1>8 DEF Buffered

-------------------------------------------------------------------------------
(* The client that waits for its answers.                                   *)

\* It has asked for at most one answer more than there are, and then the
\* answer before has gone out whole and been read.
PoliteOK ==
    /\ ~hasty => ~spoiled
    /\ conn # "closed" /\ ~spoiled => Buffered
    /\ conn # "closed" /\ ~hasty =>
          \/ Len(asked) <= Len(answers)
          \/ /\ Len(asked) = Len(answers) + 1
             /\ writeBuf.length = 0 /\ drained = Len(sent)

LEMMA PoliteRead ==
    ASSUME BufferOK, PositionOK, PoliteOK, read
    PROVE  PoliteOK'
<1>1. conn = "open" /\ UNCHANGED <<hasty, asked, drained>>
  BY DEF read, client
<1>2. Leaves \/ PartRead \/ WholeRead
  BY ReadReads
<1>3. Len(answers) \in Nat /\ Len(asked) \in Nat
  BY DEF BufferOK, PositionOK, AskedOK
<1>4. ASSUME ~hasty, ~UNCHANGED answers PROVE
         ~(writeBuf.length > 0) /\ Len(asked) = Len(answers) + 1
  <2>1. Len(answers) < Len(asked)
    BY <1>2, <1>4, AnswersReads
  <2>2. Len(asked) = Len(answers) + 1 /\ writeBuf.length = 0
    BY <1>1, <1>3, <1>4, <2>1 DEF PoliteOK
  <2> QED
    BY <2>2
<1>5. CASE Quiet
  BY <1>1, <1>5 DEF Quiet, PoliteOK, Buffered, SentSoFar
<1>6. CASE Ends
  <2>1. conn' = "closed"
    BY <1>6 DEF Ends, Breaks
  <2>2. CASE UNCHANGED <<answers, spoiled>>
    BY <1>1, <2>1, <2>2 DEF PoliteOK
  <2>3. CASE ~UNCHANGED answers /\ spoiled' = (spoiled \/ writeBuf.length > 0)
    BY <1>1, <1>4, <2>1, <2>3 DEF PoliteOK
  <2>4. ASSUME NEW n \in AnswerLen, answers' = Append(answers, n)
        PROVE  answers' # answers
    BY <1>3, <2>4, AppendProperties DEF BufferOK
  <2> QED
    BY <1>6, <2>2, <2>3, <2>4 DEF Ends
<1>7. CASE Answers
  <2>1. /\ spoiled' = (spoiled \/ writeBuf.length > 0)
        /\ Len(answers') = Len(answers) + 1
    BY <1>7, AppendProperties DEF Answers, BufferOK
  <2>2. ~UNCHANGED answers
    BY <1>3, <2>1
  <2>3. ~spoiled' => Buffered'
    BY <1>1, <1>7, <2>1, BufferedAnswers DEF PoliteOK
  <2>4. ASSUME ~hasty PROVE ~spoiled' /\ Len(asked) <= Len(answers')
    <3>1. ~(writeBuf.length > 0) /\ Len(asked) = Len(answers) + 1
      BY <1>4, <2>2, <2>4
    <3>2. ~spoiled
      BY <2>4 DEF PoliteOK
    <3>3. Len(asked) <= Len(answers')
      BY <1>3, <2>1, <3>1
    <3> QED
      BY <2>1, <3>1, <3>2, <3>3, Zenon
  <2> QED
    BY <1>1, <2>3, <2>4 DEF PoliteOK
<1> QED
  BY <1>5, <1>6, <1>7, ReadSends

LEMMA PoliteWrite ==
    ASSUME BufferOK, PoliteOK, write
    PROVE  PoliteOK'
<1>1. conn = "open" /\ UNCHANGED <<hasty, asked, answers, spoiled, drained>>
  BY DEF write, client
<1>2. CASE Quiet
  BY <1>1, <1>2 DEF Quiet, PoliteOK, Buffered
<1>3. CASE Ends
  BY <1>1, <1>3 DEF Ends, Breaks, PoliteOK
<1>4. CASE SendsOn
  <2>1. writeBuf.length > 0 /\ UNCHANGED conn
    BY <1>4 DEF SendsOn, Goes
  <2>2. ~spoiled' => Buffered'
    BY <1>1, <1>4, BufferedSendsOn DEF PoliteOK
  <2>3. ~hasty => Len(asked) <= Len(answers)
    BY <1>1, <2>1 DEF PoliteOK
  <2> QED
    BY <1>1, <2>2, <2>3 DEF PoliteOK
<1> QED
  BY <1>2, <1>3, <1>4, WriteSends

\* A client that has read the last byte of the last answer has got it whole.
LEMMA ServedIsWhole ==
    ASSUME BufferOK, PositionOK, PoliteOK, conn # "closed", ~spoiled, Served
    PROVE  writeBuf.length = 0 /\ Len(asked) <= Len(answers) /\ drained = Len(sent)
<1>1. /\ Len(answers) \in Nat /\ Len(asked) \in Nat
      /\ writeBuf.length \in Nat /\ writeBuf.wrLength \in Nat
  BY ConnectionAssumption DEF BufferOK, PositionOK, AskedOK, Buffers
<1>2. Buffered
  BY DEF PoliteOK
<1>3. CASE asked = <<>>
  <2>1. Len(answers) <= Len(asked) /\ Len(asked) = 0
    BY <1>3 DEF PositionOK, Between, Within
  <2>2. Len(sent) = 0 /\ drained \in 0 .. Len(sent)
    BY <1>1, <1>2, <2>1 DEF Buffered, BufferOK
  <2> QED
    BY <1>1, <1>2, <2>1, <2>2 DEF Buffered
<1>4. CASE /\ Len(answers) = Len(asked) /\ drained > 0
           /\ sent[drained] = <<Len(answers), answers[Len(answers)]>>
  <2>1. drained \in 1 .. Len(sent)
    BY <1>4 DEF BufferOK
  <2>2. ASSUME writeBuf.length > 0 PROVE FALSE
    <3>1. /\ writeBuf.length = answers[Len(answers)]
          /\ SentSoFar(sent, Len(answers), writeBuf.wrLength)
      BY <1>2, <2>2 DEF Buffered
    <3>2. answers[Len(answers)] <= writeBuf.wrLength
      BY <1>4, <2>1, <3>1 DEF SentSoFar
    <3>3. Unfinished(writeBuf)
      BY <2>2 DEF BufferOK, Empty
    <3> QED
      BY <1>1, <3>1, <3>2, <3>3 DEF Unfinished
  <2>3. drained = Len(sent)
    <3>1. Len(answers) > 0
      <4>1. sent[drained][1] <= Len(answers) /\ Len(sent) # 0
        BY <1>2, <2>1 DEF Buffered
      <4> QED
        BY <1>1, <1>2, <4>1 DEF Buffered
    <3> QED
      BY <1>2, <1>4, <2>1, <3>1 DEF Buffered, LastIsLast
  <2> QED
    BY <1>1, <1>4, <2>2, <2>3
<1> QED
  BY <1>3, <1>4 DEF Served

LEMMA PoliteNext ==
    ASSUME BufferOK, PositionOK, PoliteOK, [Next]_vars
    PROVE  PoliteOK'
<1>1. ASSUME UNCHANGED <<spoiled, hasty, asked, answers, sent, writeBuf>>,
             conn' = conn \/ conn = "queued",
             drained' = drained \/ drained' \in drained + 1 .. Len(sent)
      PROVE  PoliteOK'
  <2>1. drained = Len(sent) => drained' = drained
    BY <1>1 DEF BufferOK
  <2> QED
    BY <1>1, <2>1 DEF PoliteOK, Buffered
<1>2. CASE UNCHANGED vars
  BY <1>1, <1>2 DEF vars, server, client
<1>3. CASE ClientStep
  <2>1. UNCHANGED <<server, sent, spoiled>>
    BY <1>3 DEF ClientStep
  <2>2. CASE Deliver \/ Drain \/ Leave
    BY <1>1, <2>1, <2>2 DEF Deliver, Drain, Leave, server
  <2>3. ASSUME NEW n \in BodyLen, Ask(n) PROVE PoliteOK'
    <3>1. hasty' = (hasty \/ ~Served) /\ Len(asked') = Len(asked) + 1
      BY <2>3, AppendProperties DEF Ask, PositionOK, AskedOK
    <3>2. ~hasty' => ~hasty /\ Served
      BY <3>1
    <3>3. Len(answers) \in Nat /\ Len(asked) \in Nat
      BY DEF BufferOK, PositionOK, AskedOK
    <3>4. ASSUME ~hasty', conn # "closed"
          PROVE  Len(asked') <= Len(answers)
                   \/ /\ Len(asked') = Len(answers) + 1
                      /\ writeBuf.length = 0 /\ drained' = Len(sent)
      <4>1. ~spoiled
        BY <3>2, <3>4 DEF PoliteOK
      <4>2. /\ writeBuf.length = 0 /\ Len(asked) <= Len(answers)
            /\ drained = Len(sent)
        BY <3>2, <3>4, <4>1, ServedIsWhole
      <4>3. drained' = drained
        BY <2>3 DEF Ask
      <4> QED
        BY <3>1, <3>3, <4>2, <4>3
    <3>5. ~hasty' => ~spoiled'
      BY <2>1, <3>2 DEF PoliteOK
    <3>6. conn' # "closed" /\ ~spoiled' => Buffered'
      BY <2>1 DEF PoliteOK, Buffered, server
    <3> QED
      BY <2>1, <3>4, <3>5, <3>6 DEF PoliteOK, server
  <2> QED
    BY <1>3, <2>2, <2>3 DEF ClientStep
<1>4. CASE accept
  BY <1>1, <1>4 DEF accept, client
<1>5. CASE read
  BY <1>5, PoliteRead
<1>6. CASE write
  BY <1>6, PoliteWrite
<1> QED
  BY <1>2, <1>3, <1>4, <1>5, <1>6 DEF Next

-------------------------------------------------------------------------------
(* The client that waits is not turned away.                                *)

Polite ==
    /\ ~hasty /\ peer = "open"
    /\ \A i \in DOMAIN asked : ~BadLength(asked[i].length)

\* Where there is room, send() takes some of an answer not wholly sent.
LEMMA RoomTakes ==
    ASSUME NEW buf \in Buffers, Unfinished(buf), peer = "open",
           Room > 0, Room \in Int, NEW l \in Taken(buf)
    PROVE  l > 0
<1>1. /\ buf.length \in 0 .. UIntMod - 1 /\ buf.wrLength \in Nat
      /\ buf.wrLength < buf.length /\ UIntMod \in Nat
  BY ConnectionAssumption DEF Buffers, Unfinished
<1>2. Wanted(buf) = buf.length - buf.wrLength
  <2>1. buf.length - buf.wrLength \in 0 .. UIntMod - 1
    BY <1>1
  <2> QED
    BY <2>1, Unsigned DEF Wanted
<1>3. l = Min({Wanted(buf), Room})
  BY <1>1, <1>2 DEF Taken
<1> HIDE DEF Min
<1> QED
  BY <1>1, <1>2, <1>3, MinOfTwo

LEMMA RoomIsInt == ASSUME BufferOK PROVE Room \in Int
BY ConnectionAssumption DEF BufferOK, Room

LEMMA PoliteAnswered ==
    ASSUME BufferOK, PositionOK, PoliteOK, Polite, conn = "open",
           Len(answers) < Len(asked), NEW s, Respond(s)
    PROVE  conn' = "open"
<1>1. PICK n \in AnswerLen :
        SendFrom(Put(n), Len(answers) + 1,
                 [s EXCEPT !.receiving = @ + 1, !.processing = @ + 1])
  BY DEF Respond, Put
<1>2. PICK l \in Taken(Put(n)) : l = 0 \/ UNCHANGED conn
  BY <1>1 DEF SendFrom
<1>3. Len(answers) \in Nat /\ Len(asked) \in Nat
  BY DEF BufferOK, PositionOK, AskedOK
<1>4. writeBuf.length = 0 /\ drained = Len(sent) /\ ~spoiled
  BY <1>3 DEF PoliteOK, Polite
<1>5. Put(n) \in Buffers /\ Unfinished(Put(n))
  <2>1. ~(writeBuf.length > 0)
    BY <1>4
  <2> QED
    BY <1>4, <2>1, PutType
<1>6. Room > 0 /\ Room \in Int
  BY <1>4, ConnectionAssumption DEF BufferOK, Room
<1>7. l > 0
  BY <1>5, <1>6, RoomTakes DEF Polite
<1> QED
  BY <1>2, <1>7

LEMMA PoliteWriteStays ==
    ASSUME BufferOK, PoliteOK, Polite, write
    PROVE  conn' = "open"
<1>1. conn = "open" /\ Room > 0 /\ ~spoiled
  BY DEF write, Polite, PoliteOK
<1>2. CASE writeBuf.length > 0
  <2>1. PICK l \in Taken(writeBuf) : l = 0 \/ UNCHANGED conn
    <3>1. SendFrom(writeBuf, Len(answers), stats)
      BY <1>2 DEF write
    <3> QED
      BY <3>1 DEF SendFrom
  <2>2. writeBuf \in Buffers /\ Unfinished(writeBuf)
    BY <1>1, <1>2 DEF BufferOK, Empty
  <2>3. l > 0
    BY <1>1, <2>2, RoomIsInt, RoomTakes DEF Polite
  <2> QED
    BY <1>1, <2>1, <2>3
<1>3. CASE ~(writeBuf.length > 0)
  BY <1>1, <1>3 DEF write
<1> QED
  BY <1>2, <1>3

LEMMA PoliteReadStays ==
    ASSUME BufferOK, PositionOK, PoliteOK, Polite, read, ~split'
    PROVE  conn' = "open"
<1>1. conn = "open" /\ Inbox > 0 /\ ~(Fresh /\ Inbox <= HeaderSize)
  BY DEF read, Readable, Polite, Inbox, PositionOK
<1>2. HeaderSize \in Nat /\ Inbox \in Int
  BY ConnectionAssumption DEF PositionOK, Inbox
<1>3. CASE NoHeader \/ FailedHeader
  BY <1>1, <1>2, <1>3 DEF NoHeader, FailedHeader, Polite
<1>4. CASE WrongHeader
  <2>1. BadLength(Request.length) /\ Fresh /\ Inbox >= HeaderSize
    BY <1>4 DEF WrongHeader
  <2>2. Len(answers) < Len(asked) /\ Len(answers) \in Nat /\ Len(asked) \in Nat
    BY <1>1, <2>1, PartOfRequest DEF BufferOK, PositionOK, AskedOK
  <2>3. Len(answers) + 1 \in DOMAIN asked
    BY <2>2 DEF PositionOK, AskedOK
  <2> QED
    BY <2>1, <2>3 DEF Polite, Request
<1>5. CASE Body
  <2> DEFINE header == IF Fresh THEN HeaderSize ELSE 0
             buf == IF Fresh THEN [length |-> Request.length, wrLength |-> 0]
                             ELSE readBuf
             l == Min({Inbox - header, buf.length - buf.wrLength})
  <2>1. \/ Gone(buf, l)
        \/ \E s : Respond(s)
        \/ UNCHANGED conn
    BY <1>5 DEF Body
  <2>2. CASE Fresh
    <3>1. Inbox >= HeaderSize /\ ~BadLength(Request.length)
      BY <1>5, <2>2 DEF Body
    <3>2. Len(answers) < Len(asked) /\ Len(answers) \in Nat
      BY <1>1, <2>2, <3>1, PartOfRequest DEF BufferOK
    <3>3. Request.length \in Nat /\ Request.length > 0
      <4>1. Request.length \in 0 .. UIntMod - 1
        BY <3>2, RequestIs DEF PositionOK
      <4> QED
        BY <3>1, <4>1, ConnectionAssumption DEF BadLength
    <3>4. Inbox - header \in Int /\ Inbox - header > 0
      BY <1>1, <1>2, <2>2, <3>1
    <3>5. buf.length - buf.wrLength \in Int /\ buf.length - buf.wrLength > 0
      BY <2>2, <3>3
    <3>6. l > 0
      <4> HIDE DEF header, buf, Min
      <4> QED
        BY <3>4, <3>5, MinOfTwo
    <3> QED
      BY <1>1, <2>1, <3>2, <3>6, PoliteAnswered DEF Gone
  <2>3. CASE ~Fresh
    <3>1. Within
      BY <1>1, <2>3 DEF Fresh, PositionOK, Between
    <3>2. Len(answers) < Len(asked) /\ readBuf \in Buffers /\ Unfinished(readBuf)
      BY <3>1 DEF Within, PositionOK
    <3>3. Inbox - header \in Int /\ Inbox - header > 0
      BY <1>1, <1>2, <2>3
    <3>4. buf.length - buf.wrLength \in Int /\ buf.length - buf.wrLength > 0
      BY <2>3, <3>2, ConnectionAssumption DEF Buffers, Unfinished
    <3>5. l > 0
      <4> HIDE DEF header, buf, Min
      <4> QED
        BY <3>3, <3>4, MinOfTwo
    <3> QED
      BY <1>1, <2>1, <3>2, <3>5, PoliteAnswered DEF Gone
  <2> QED
    BY <2>2, <2>3
<1> QED
  BY <1>3, <1>4, <1>5 DEF read

\* What a client has done to be turned away, it has done for good.
LEMMA StaysNext ==
    ASSUME BufferOK, PositionOK, PoliteOK, PoliteStays, [Next]_vars
    PROVE  PoliteStays'
<1>1. (hasty => hasty') /\ (split => split') /\ (peer # "open" => peer' # "open")
  <2>1. CASE UNCHANGED vars \/ accept \/ write
    BY <2>1 DEF vars, client, accept, write
  <2>2. CASE read
    BY <2>2 DEF client, read
  <2>3. CASE ClientStep
    <3>1. UNCHANGED split /\ (hasty' = hasty \/ hasty' = (hasty \/ ~Served))
      BY <2>3 DEF ClientStep, Ask, Deliver, Drain, Leave
    <3>2. UNCHANGED peer \/ peer = "open"
      BY <2>3, Zenon DEF ClientStep, Ask, Deliver, Drain, Leave
    <3>3. hasty => hasty'
      <4>1. CASE hasty' = hasty
        BY <4>1
      <4>2. CASE hasty' = (hasty \/ ~Served)
        BY <4>2
      <4> QED
        BY <3>1, <4>1, <4>2
    <3>4. peer # "open" => peer' # "open"
      BY <3>2
    <3> QED
      BY <3>1, <3>3, <3>4
  <2> QED
    BY <2>1, <2>2, <2>3 DEF Next
<1>2. \A i \in DOMAIN asked : i \in DOMAIN asked' /\ asked'[i] = asked[i]
  <2>1. ASSUME NEW n \in BodyLen, Ask(n)
        PROVE  \A i \in DOMAIN asked : i \in DOMAIN asked' /\ asked'[i] = asked[i]
    <3> DEFINE r == [length |-> n, end |-> Written + HeaderSize + n]
    <3>1. asked' = Append(asked, r) /\ asked \in Seq(Requests)
      BY <2>1 DEF Ask, PositionOK, AskedOK
    <3> HIDE DEF r
    <3>2. ASSUME NEW i \in 1 .. Len(asked)
          PROVE  i \in 1 .. Len(asked') /\ asked'[i] = asked[i]
      BY <3>1
    <3> QED
      BY <3>1, <3>2
  <2>2. UNCHANGED asked \/ \E n \in BodyLen : Ask(n)
    BY DEF Next, vars, client, ClientStep, Deliver, Drain, Leave, accept, read, write
  <2> QED
    BY <2>1, <2>2
<1>3. CASE conn = "closed"
  <2>1. split \/ hasty \/ peer # "open"
          \/ \E i \in DOMAIN asked : BadLength(asked[i].length)
    BY <1>3 DEF PoliteStays
  <2> QED
    BY <1>1, <1>2, <2>1 DEF PoliteStays
<1>4. CASE conn # "closed" /\ conn' = "closed"
  <2>1. read \/ write
    BY <1>4 DEF Next, vars, server, ClientStep, accept
  <2>2. UNCHANGED <<hasty, peer, asked>>
    BY <2>1 DEF read, write, client
  <2>3. ~Polite \/ split'
    BY <1>4, <2>1, PoliteReadStays, PoliteWriteStays
  <2> QED
    BY <2>2, <2>3 DEF Polite, PoliteStays
<1> QED
  BY <1>3, <1>4 DEF PoliteStays

-------------------------------------------------------------------------------
(* The time that sending an answer takes.                                   *)

\* Every answer but one still in the buffer has been timed, and the stamp is
\* that of the one in the buffer.
TimedOK ==
    conn # "closed" /\ ~hasty =>
        IF writeBuf.length > 0
          THEN /\ stats.sending = Len(answers) - 1
               /\ tMonitoring = <<"send", Len(answers)>>
          ELSE stats.sending = Len(answers)

Timing ==
    stats'.sending # stats.sending /\ ~hasty =>
        /\ tMonitoring' = <<"send", Len(answers')>>
        /\ stats'.sending = Len(answers')

LEMMA SendFromTimes ==
    ASSUME NEW number, NEW buf \in Buffers, buf.length > 0,
           NEW s, "sending" \in DOMAIN s, conn = "open", SendFrom(buf, number, s)
    PROVE  \/ conn' = "closed" /\ stats'.sending = s.sending
           \/ /\ conn' = "open"
              /\ \/ writeBuf'.length = 0 /\ stats'.sending = s.sending + 1
                 \/ writeBuf'.length > 0 /\ stats'.sending = s.sending
<1>1. PICK l \in Taken(buf) :
        \/ l = 0 /\ Close(Lost(s))
        \/ /\ conn' = "open"
           /\ \/ /\ writeBuf' = Empty
                 /\ stats' = [Sended(s, buf, l) EXCEPT !.sending = @ + 1]
              \/ /\ writeBuf' = [buf EXCEPT !.wrLength = @ + l]
                 /\ stats' = Sended(s, buf, l)
  BY DEF SendFrom, clearBuffer
<1> DEFINE sum == Sended(s, buf, l)
<1>2. /\ sum.sending = s.sending
      /\ [sum EXCEPT !.sending = @ + 1].sending = s.sending + 1
      /\ Lost(s).sending = s.sending
  BY DEF Sended, Lost
<1>3. Empty.length = 0 /\ [buf EXCEPT !.wrLength = @ + l].length = buf.length
  BY DEF Empty, Buffers
<1> QED
  BY <1>1, <1>2, <1>3, Zenon DEF Close

LEMMA TimedWrite ==
    ASSUME BufferOK, CountOK, PoliteOK, TimedOK, write
    PROVE  TimedOK' /\ Timing
<1>1. conn = "open" /\ UNCHANGED <<answers, hasty>> /\ Len(answers) \in Nat
  BY DEF write, client, BufferOK
<1>2. writeBuf.length \in Nat /\ writeBuf \in Buffers
  BY ConnectionAssumption DEF BufferOK, Buffers
<1>3. CASE writeBuf.length = 0
  BY <1>1, <1>3 DEF write, TimedOK, Timing
<1>4. CASE writeBuf.length > 0
  <2>1. SendFrom(writeBuf, Len(answers), stats)
    BY <1>4 DEF write
  <2>2. \/ conn' = "closed" /\ stats'.sending = stats.sending
        \/ /\ conn' = "open"
           /\ \/ writeBuf'.length = 0 /\ stats'.sending = stats.sending + 1
              \/ writeBuf'.length > 0 /\ stats'.sending = stats.sending
    <3>1. "sending" \in DOMAIN stats
      BY DEF CountOK, Statistics
    <3> QED
      BY <1>1, <1>2, <1>4, <2>1, <3>1, SendFromTimes
  <2>3. conn' = "open" => tMonitoring' = tMonitoring
    BY <1>4 DEF write
  <2>4. stats.sending \in Nat
    BY DEF CountOK, Statistics
  <2> QED
    BY <1>1, <1>4, <2>2, <2>3, <2>4 DEF TimedOK, Timing
<1> QED
  BY <1>2, <1>3, <1>4

LEMMA TimedRead ==
    ASSUME BufferOK, PositionOK, CountOK, PoliteOK, TimedOK, read
    PROVE  TimedOK' /\ Timing
<1>1. conn = "open" /\ UNCHANGED <<hasty, asked>> /\ Len(answers) \in Nat
  BY DEF read, client, BufferOK
<1>2. stats \in Statistics /\ stats.sending \in Nat
  BY DEF CountOK, Statistics
<1>3. CASE NoHeader \/ FailedHeader \/ WrongHeader
  <2>1. conn' = "closed" /\ stats'.sending = stats.sending
    BY <1>2, <1>3 DEF NoHeader, FailedHeader, WrongHeader, Close, Lost, Received,
                      Statistics
  <2> QED
    BY <2>1 DEF TimedOK, Timing
<1>4. CASE Body
  <2>1. PICK s : /\ \E l : s = Received(stats, l)
                 /\ \/ Close(s)
                    \/ Respond(s)
                    \/ /\ stats' = s
                       /\ UNCHANGED <<conn, writeBuf, answers>>
    BY <1>4 DEF Body
  <2>2. "sending" \in DOMAIN s /\ s.sending = stats.sending
    BY <1>2, <2>1 DEF Received, Statistics
  <2>3. conn' = "closed" \/ Len(answers) < Len(asked)
    BY ReadReads DEF Leaves, PartRead, WholeRead, Reads
  <2>4. ASSUME conn' # "closed", ~hasty
        PROVE  writeBuf.length = 0 /\ stats.sending = Len(answers)
    <3>1. Len(answers) < Len(asked) /\ Len(asked) \in Nat
      BY <2>3, <2>4 DEF PositionOK, AskedOK
    <3>2. writeBuf.length = 0
      BY <1>1, <2>4, <3>1 DEF PoliteOK
    <3> QED
      BY <1>1, <2>4, <3>2 DEF TimedOK
  <2>5. CASE Close(s)
    BY <2>2, <2>5 DEF Close, TimedOK, Timing
  <2>6. CASE stats' = s /\ UNCHANGED <<conn, writeBuf, answers>>
    BY <1>1, <2>2, <2>4, <2>6 DEF TimedOK, Timing
  <2>7. CASE Respond(s)
    <3> DEFINE s1 == [s EXCEPT !.receiving = @ + 1, !.processing = @ + 1]
    <3>1. PICK n \in AnswerLen :
            /\ answers' = Append(answers, n)
            /\ SendFrom(Put(n), Len(answers) + 1, s1)
            /\ conn' = "open" => tMonitoring' = Stamp("send", Len(answers) + 1)
      BY <2>7 DEF Respond, Put
    <3>2. "sending" \in DOMAIN s1 /\ s1.sending = stats.sending
      BY <2>2
    <3>3. Put(n) \in Buffers /\ Put(n).length > 0
      BY PutType, ConnectionAssumption
    <3>4. Len(answers') = Len(answers) + 1
      BY <3>1, AppendProperties DEF BufferOK
    <3> HIDE DEF s1
    <3>5. \/ conn' = "closed" /\ stats'.sending = s1.sending
          \/ /\ conn' = "open"
             /\ \/ writeBuf'.length = 0 /\ stats'.sending = s1.sending + 1
                \/ writeBuf'.length > 0 /\ stats'.sending = s1.sending
      BY <1>1, <3>1, <3>2, <3>3, SendFromTimes
    <3> QED
      BY <1>1, <1>2, <2>4, <3>1, <3>2, <3>4, <3>5 DEF TimedOK, Timing, Stamp
  <2> QED
    BY <2>1, <2>5, <2>6, <2>7
<1> QED
  BY <1>3, <1>4 DEF read

LEMMA TimedNext ==
    ASSUME BufferOK, PositionOK, CountOK, PoliteOK, TimedOK, [Next]_vars
    PROVE  TimedOK' /\ Timing
<1>1. ASSUME UNCHANGED <<stats, answers, writeBuf, tMonitoring>>,
             conn' = conn \/ conn = "queued",
             hasty' = hasty \/ hasty' = (hasty \/ ~Served)
      PROVE  TimedOK' /\ Timing
  <2>1. ~hasty' => ~hasty
    <3>1. CASE hasty' = hasty
      BY <3>1
    <3>2. CASE hasty' = (hasty \/ ~Served)
      BY <3>2
    <3> QED
      BY <1>1, <3>1, <3>2
  <2> QED
    BY <1>1, <2>1 DEF TimedOK, Timing
<1>2. CASE UNCHANGED vars
  BY <1>1, <1>2 DEF vars, server, client
<1>3. CASE ClientStep
  <2>1. hasty' = hasty \/ hasty' = (hasty \/ ~Served)
    BY <1>3 DEF ClientStep, Ask, Deliver, Drain, Leave
  <2> QED
    BY <1>1, <1>3, <2>1 DEF ClientStep, server
<1>4. CASE accept
  BY <1>1, <1>4 DEF accept, client
<1>5. CASE read
  BY <1>5, TimedRead
<1>6. CASE write
  BY <1>6, TimedWrite
<1> QED
  BY <1>2, <1>3, <1>4, <1>5, <1>6 DEF Next

-------------------------------------------------------------------------------
ConnectionInv ==
    BufferOK /\ PositionOK /\ CountOK /\ FlagsOK /\ PoliteOK /\ TimedOK

LEMMA ConnectionInvInit == Init => ConnectionInv
<1> SUFFICES ASSUME Init PROVE ConnectionInv
  OBVIOUS
<1>1. Len(asked) = 0 /\ Len(answers) = 0 /\ Len(sent) = 0 /\ writeBuf.length = 0
  BY DEF Init, Empty
<1>2. AskedOK
  BY <1>1 DEF Init, AskedOK
<1>3. PositionOK
  BY <1>1, <1>2, ConnectionAssumption
     DEF Init, PositionOK, Between, EndAt, Written, Buffers, Empty
<1>4. PoliteOK
  BY <1>1 DEF Init, PoliteOK, Buffered
<1>5. TimedOK
  BY <1>1 DEF Init, TimedOK
<1> QED
  BY <1>3, <1>4, <1>5, BufferInit, CountInit DEF ConnectionInv

LEMMA ConnectionInvHolds == Spec => []ConnectionInv
<1>1. ConnectionInv /\ [Next]_vars => ConnectionInv'
  BY BufferNext, PositionNext, CountNext, PoliteNext, TimedNext
     DEF ConnectionInv
<1> QED
  BY <1>1, ConnectionInvInit, PTL DEF Spec

\* The connection's state keeps its type; what the server has read is what
\* has arrived, at most.
THEOREM ConnectionTypeCorrect == Spec => []TypeOK
<1>1. ConnectionInv => TypeOK
  <2> SUFFICES ASSUME ConnectionInv PROVE TypeOK
    OBVIOUS
  <2>1. Bytes \subseteq {Junk} \cup (Nat \X Nat)
    BY DEF Bytes
  <2>2. sent \in Seq({Junk} \cup (Nat \X Nat))
    BY <2>1, SeqMonotonic DEF ConnectionInv, BufferOK
  <2> QED
    BY <2>2 DEF ConnectionInv, BufferOK, PositionOK, AskedOK, Requests, CountOK,
                FlagsOK, TypeOK
<1> QED
  BY <1>1, ConnectionInvHolds, PTL

\* However the bytes come and go, the statistics say what was sent and, but
\* for a cut-off header and a reset connection, what was received.
THEOREM TrafficIsExact == Spec => []TrafficIsCounted
<1>1. ConnectionInv => TrafficIsCounted
  BY DEF ConnectionInv, CountOK, Counts, TrafficIsCounted
<1> QED
  BY <1>1, ConnectionInvHolds, PTL

\* A client that waits for every answer never has one replaced half sent.
THEOREM PatienceKeepsAnswers == Spec => []OnlyHastySpoil
<1>1. ConnectionInv => OnlyHastySpoil
  BY DEF ConnectionInv, PoliteOK, OnlyHastySpoil
<1> QED
  BY <1>1, ConnectionInvHolds, PTL

\* A client that waits for its answers, keeps to the lengths in range and has
\* its headers come with some of the body is served until it leaves.
THEOREM PoliteIsServed == Spec => []PoliteStays
<1>1. Init => PoliteStays
  BY DEF Init, PoliteStays
<1>2. ConnectionInv /\ PoliteStays /\ [Next]_vars => PoliteStays'
  BY StaysNext DEF ConnectionInv
<1> QED
  BY <1>1, <1>2, ConnectionInvHolds, PTL DEF Spec

\* A duration of sending is counted once for each answer of such a client,
\* when its last byte goes, and from the moment it was ready.
THEOREM DurationsAreTimed == Spec => SendingIsTimed
<1>1. ConnectionInv /\ [Next]_vars => Timing
  BY TimedNext DEF ConnectionInv
<1>2. ConnectionInv /\ [Next]_vars =>
        [stats'.sending # stats.sending /\ ~hasty =>
            /\ tMonitoring' = <<"send", Len(answers')>>
            /\ stats'.sending = Len(answers')]_vars
  BY <1>1 DEF Timing
<1> QED
  BY <1>2, ConnectionInvHolds, PTL DEF Spec, SendingIsTimed
===============================================================================
