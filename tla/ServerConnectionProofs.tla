------------------------ MODULE ServerConnectionProofs ------------------------
(***************************************************************************)
(* What holds of a connection for every length of requests and answers,    *)
(* every size of the socket's buffer and any number of requests.           *)
(***************************************************************************)
EXTENDS ServerConnection, SequenceTheorems, TLAPS

-------------------------------------------------------------------------------
(* Lemmas on the operators.                                                 *)

LEMMA MinOfTwo ==
    ASSUME NEW a \in Int, NEW b \in Int
    PROVE  Min({a, b}) = IF a <= b THEN a ELSE b
<1>1. \E x \in {a, b} : \A y \in {a, b} : x =< y
  OBVIOUS
<1>2. Min({a, b}) \in {a, b} /\ \A y \in {a, b} : Min({a, b}) =< y
  BY <1>1 DEF Min
<1> QED
  BY <1>2

\* Unsigned arithmetic stays unsigned, and is exact where nothing wraps.
LEMMA Unsigned ==
    ASSUME NEW n \in Int
    PROVE  /\ n % UIntMod \in 0 .. UIntMod - 1
           /\ n \in 0 .. UIntMod - 1 => n % UIntMod = n
BY ConnectionAssumption

\* What an answer has still to send from a buffer.
RestOf(number, buf) ==
    [i \in 1 .. buf.length - buf.wrLength |-> <<number, buf.wrLength + i>>]

Bytes == Nat \X Nat

LEMMA BytesOfType ==
    ASSUME NEW number \in Nat, NEW buf \in Buffers, NEW l \in Nat
    PROVE  /\ BytesOf(number, buf, l) \in Seq(Bytes)
           /\ Len(BytesOf(number, buf, l)) = l
<1> DEFINE e(i) == IF buf.wrLength + i <= buf.length
                     THEN <<number, buf.wrLength + i>> ELSE Junk
<1>1. \A i \in 1 .. l : e(i) \in Bytes
  BY DEF Buffers, Junk, Bytes
<1>2. BytesOf(number, buf, l) \in [1 .. l -> Bytes]
  BY <1>1 DEF BytesOf
<1> QED
  BY <1>2

LEMMA RestOfType ==
    ASSUME NEW number \in Nat, NEW buf \in Buffers, buf.wrLength <= buf.length
    PROVE  /\ RestOf(number, buf) \in Seq(Bytes)
           /\ Len(RestOf(number, buf)) = buf.length - buf.wrLength
           /\ \A i \in 1 .. buf.length - buf.wrLength :
                 RestOf(number, buf)[i] = <<number, buf.wrLength + i>>
<1> DEFINE n == buf.length - buf.wrLength
<1>1. n \in Nat
  BY ConnectionAssumption DEF Buffers
<1>2. RestOf(number, buf) \in [1 .. n -> Bytes]
  BY DEF RestOf, Bytes, Buffers
<1>3. \A i \in 1 .. n : RestOf(number, buf)[i] = <<number, buf.wrLength + i>>
  BY DEF RestOf
<1> HIDE DEF n
<1>4. RestOf(number, buf) \in Seq(Bytes) /\ Len(RestOf(number, buf)) = n
  BY <1>1, <1>2
<1> QED
  BY <1>3, <1>4 DEF n

\* Sending l bytes takes the first l of what is left, and leaves the others.
LEMMA SendingOn ==
    ASSUME NEW number \in Nat, NEW buf \in Buffers, NEW l \in Nat,
           buf.wrLength + l <= buf.length
    PROVE  /\ BytesOf(number, buf, l) = SubSeq(RestOf(number, buf), 1, l)
           /\ RestOf(number, [buf EXCEPT !.wrLength = @ + l]) =
                SubSeq(RestOf(number, buf), l + 1, Len(RestOf(number, buf)))
<1> DEFINE rest == RestOf(number, buf)
           after == [buf EXCEPT !.wrLength = @ + l]
           n == buf.length - buf.wrLength
<1>1. /\ n \in Nat /\ l <= n /\ buf.length \in Nat /\ buf.wrLength \in Nat
  BY ConnectionAssumption DEF Buffers
<1>2. Len(rest) = n /\ \A i \in 1 .. n : rest[i] = <<number, buf.wrLength + i>>
  BY <1>1, RestOfType
<1>3. SubSeq(rest, 1, l) = [i \in 1 .. l |-> <<number, buf.wrLength + i>>]
  <2> HIDE DEF rest, n
  <2>1. SubSeq(rest, 1, l) = [i \in 1 .. l |-> rest[i]]
    OBVIOUS
  <2> QED
    BY <1>1, <1>2, <2>1
<1>4. BytesOf(number, buf, l) = [i \in 1 .. l |-> <<number, buf.wrLength + i>>]
  BY <1>1 DEF BytesOf
<1>5. SubSeq(rest, l + 1, n) =
        [i \in 1 .. n - l |-> <<number, buf.wrLength + l + i>>]
  <2>1. SubSeq(rest, l + 1, n) = [i \in 1 .. n - l |-> rest[l + i]]
    <3> HIDE DEF rest, n
    <3> QED
      BY <1>1
  <2>2. \A i \in 1 .. n - l : rest[l + i] = <<number, buf.wrLength + l + i>>
    <3> HIDE DEF rest, n
    <3> QED
      BY <1>1, <1>2
  <2> HIDE DEF rest, n
  <2> QED
    BY <2>1, <2>2
<1>6. RestOf(number, after) =
        [i \in 1 .. n - l |-> <<number, buf.wrLength + l + i>>]
  <2>1. after.length = buf.length /\ after.wrLength = buf.wrLength + l
    BY DEF Buffers
  <2>2. after.length - after.wrLength = n - l
    BY <1>1, <2>1
  <2> HIDE DEF after, n
  <2> QED
    BY <2>1, <2>2 DEF RestOf
<1>7. RestOf(number, after) = SubSeq(rest, l + 1, Len(rest))
  BY <1>2, <1>5, <1>6
<1> QED
  BY <1>3, <1>4, <1>7

-------------------------------------------------------------------------------
(* The write buffer.                                                        *)

Unfinished(buf) == buf.wrLength < buf.length

\* An answer put in place of an unfinished one may leave more than its own
\* length behind; else the buffer is empty or holds an answer not wholly sent.
BufferOK ==
    /\ conn \in {"queued", "open", "closed"} /\ spoiled \in BOOLEAN
    /\ answers \in Seq(AnswerLen)
    /\ sent \in Seq(Bytes) /\ drained \in 0 .. Len(sent)
    /\ writeBuf \in Buffers
    /\ conn # "open" => writeBuf = Empty
    /\ ~spoiled => writeBuf = Empty \/ Unfinished(writeBuf)

\* What send() and the lines after it do: the connection is lost, or l more
\* bytes have gone out.
Goes(buf, number, l) ==
    /\ sent' = sent \o BytesOf(number, buf, l)
    /\ writeBuf' = IF Done(buf, l) THEN Empty ELSE [buf EXCEPT !.wrLength = @ + l]
    /\ UNCHANGED conn

Breaks == conn' = "closed" /\ writeBuf' = Empty /\ UNCHANGED sent

LEMMA SendFromGoes ==
    ASSUME drained \in 0 .. Len(sent), sent \in Seq(Bytes),
           NEW number \in Nat, NEW buf \in Buffers, NEW s, SendFrom(buf, number, s)
    PROVE  \/ Breaks
           \/ \E l \in Nat \ {0} :
                 Goes(buf, number, l) /\ (Unfinished(buf) => buf.wrLength + l <= buf.length)
<1>1. PICK l \in Taken(buf) :
        \/ l = 0 /\ Close(Lost(s))
        \/ /\ l > 0
           /\ sent' = sent \o BytesOf(number, buf, l)
           /\ \/ Done(buf, l) /\ writeBuf' = clearBuffer([buf EXCEPT !.wrLength = @ + l])
              \/ ~Done(buf, l) /\ writeBuf' = [buf EXCEPT !.wrLength = @ + l]
           /\ UNCHANGED conn
  BY DEF SendFrom
<1>2. CASE l = 0
  BY <1>1, <1>2 DEF Close, Breaks
<1>3. CASE l > 0
  <2>1. Goes(buf, number, l)
    BY <1>1, <1>3 DEF Goes, clearBuffer
  <2>2. /\ buf.length \in 0 .. UIntMod - 1 /\ buf.wrLength \in Nat
        /\ UIntMod \in Nat
    BY ConnectionAssumption DEF Buffers
  <2>3. Wanted(buf) \in 0 .. UIntMod - 1 /\ Room \in Int
    <3>1. buf.length - buf.wrLength \in Int
      BY <2>2
    <3>2. Len(sent) \in Nat /\ drained \in Int
      OBVIOUS
    <3>3. Wanted(buf) \in 0 .. UIntMod - 1
      BY <3>1, Unsigned DEF Wanted
    <3>4. Room \in Int
      BY <3>2, ConnectionAssumption DEF Room
    <3> QED
      BY <3>3, <3>4
  <2>4. Min({Wanted(buf), Room}) \in Int /\ Min({Wanted(buf), Room}) <= Wanted(buf)
    <3> HIDE DEF Min
    <3> QED
      BY <2>2, <2>3, MinOfTwo
  <2>5. l \in Nat \ {0}
    BY <1>3, <2>4 DEF Taken
  <2>6. Unfinished(buf) => buf.wrLength + l <= buf.length
    <3> SUFFICES ASSUME Unfinished(buf) PROVE buf.wrLength + l <= buf.length
      OBVIOUS
    <3>1. Wanted(buf) = buf.length - buf.wrLength
      <4>1. buf.length - buf.wrLength \in 0 .. UIntMod - 1
        BY <2>2 DEF Unfinished
      <4> QED
        BY <4>1, Unsigned DEF Wanted
    <3>2. l <= Wanted(buf)
      BY <1>3, <2>3, <2>4 DEF Taken, Unfinished
    <3> QED
      BY <2>2, <2>5, <3>1, <3>2
  <2> QED
    BY <2>1, <2>5, <2>6
<1>4. l = 0 \/ l > 0
  BY <1>1
<1> QED
  BY <1>2, <1>3, <1>4

\* What is sent, and what is left, keep their types.
LEMMA GoesType ==
    ASSUME sent \in Seq(Bytes), NEW number \in Nat, NEW buf \in Buffers,
           NEW l \in Nat \ {0}, Goes(buf, number, l)
    PROVE  /\ sent' \in Seq(Bytes) /\ Len(sent') = Len(sent) + l
           /\ writeBuf' \in Buffers
<1>1. BytesOf(number, buf, l) \in Seq(Bytes) /\ Len(BytesOf(number, buf, l)) = l
  BY BytesOfType
<1>2. sent' \in Seq(Bytes) /\ Len(sent') = Len(sent) + l
  BY <1>1, ConcatProperties DEF Goes
<1>3. [buf EXCEPT !.wrLength = @ + l] \in Buffers /\ Empty \in Buffers
  BY ConnectionAssumption DEF Buffers, Empty
<1> QED
  BY <1>2, <1>3 DEF Goes

\* After send() the buffer is again empty or holds an answer not wholly sent.
LEMMA GoesUnfinished ==
    ASSUME NEW number, NEW buf \in Buffers, NEW l \in Nat \ {0},
           Goes(buf, number, l), buf.wrLength + l <= buf.length
    PROVE  writeBuf' = Empty \/ Unfinished(writeBuf')
<1>1. CASE Done(buf, l)
  BY <1>1 DEF Goes
<1>2. CASE ~Done(buf, l)
  <2>1. writeBuf' = [buf EXCEPT !.wrLength = @ + l] /\ buf.wrLength + l # buf.length
    BY <1>2 DEF Goes, Done
  <2>2. /\ writeBuf'.length = buf.length /\ writeBuf'.wrLength = buf.wrLength + l
        /\ buf.length \in Nat /\ buf.wrLength \in Nat
    BY <2>1, ConnectionAssumption DEF Buffers
  <2> QED
    BY <2>1, <2>2 DEF Unfinished
<1> QED
  BY <1>1, <1>2

\* The answer that Respond() puts in the buffer.
Put(n) == [writeBuf EXCEPT !.length = n]

LEMMA PutType ==
    ASSUME BufferOK, NEW n \in AnswerLen
    PROVE  /\ Put(n) \in Buffers
           /\ Put(n).length = n /\ Put(n).wrLength = writeBuf.wrLength
           /\ ~spoiled /\ ~(writeBuf.length > 0) =>
                 Put(n) = [length |-> n, wrLength |-> 0] /\ Unfinished(Put(n))
<1>1. n \in 0 .. UIntMod - 1 /\ n > 0
  BY ConnectionAssumption
<1>2. writeBuf \in Buffers
  BY DEF BufferOK
<1>3. /\ Put(n) \in Buffers
      /\ Put(n).length = n /\ Put(n).wrLength = writeBuf.wrLength
  BY <1>1, <1>2 DEF Put, Buffers
<1>4. ASSUME ~spoiled, ~(writeBuf.length > 0)
      PROVE  Put(n) = [length |-> n, wrLength |-> 0] /\ Unfinished(Put(n))
  <2>1. writeBuf = Empty
    BY <1>2, <1>4, ConnectionAssumption DEF BufferOK, Unfinished, Buffers
  <2> QED
    BY <1>1, <2>1 DEF Put, Empty, Unfinished
<1> QED
  BY <1>3, <1>4

-------------------------------------------------------------------------------
(* The callbacks, as far as what is sent goes.                              *)

\* A callback that leaves the answers alone, or loses the connection.
Quiet == UNCHANGED <<conn, answers, sent, writeBuf, spoiled>>

Ends ==
    /\ conn = "open" /\ Breaks
    /\ \/ UNCHANGED <<answers, spoiled>>
       \/ /\ \E n \in AnswerLen : answers' = Append(answers, n)
          /\ spoiled' = (spoiled \/ writeBuf.length > 0)

\* A callback that sends on, and one that answers.
SendsOn ==
    /\ conn = "open" /\ writeBuf.length > 0
    /\ UNCHANGED <<answers, spoiled>>
    /\ \E l \in Nat \ {0} :
          /\ Goes(writeBuf, Len(answers), l)
          /\ Unfinished(writeBuf) => writeBuf.wrLength + l <= writeBuf.length

Answers ==
    /\ conn = "open"
    /\ \E n \in AnswerLen :
          /\ answers' = Append(answers, n)
          /\ spoiled' = (spoiled \/ writeBuf.length > 0)
          /\ \E l \in Nat \ {0} :
                /\ Goes(Put(n), Len(answers) + 1, l)
                /\ Unfinished(Put(n)) => Put(n).wrLength + l <= n

LEMMA WriteSends ==
    ASSUME BufferOK, write
    PROVE  Quiet \/ Ends \/ SendsOn
<1>1. CASE writeBuf.length = 0
  BY <1>1 DEF write, Quiet
<1>2. CASE writeBuf.length > 0
  <2>1. /\ SendFrom(writeBuf, Len(answers), stats) /\ conn = "open"
        /\ UNCHANGED <<answers, spoiled>>
    BY <1>2 DEF write
  <2>2. Len(answers) \in Nat
    BY DEF BufferOK
  <2>3. \/ Breaks
        \/ \E l \in Nat \ {0} :
              /\ Goes(writeBuf, Len(answers), l)
              /\ Unfinished(writeBuf) => writeBuf.wrLength + l <= writeBuf.length
    BY <2>1, <2>2, SendFromGoes DEF BufferOK
  <2> QED
    BY <1>2, <2>1, <2>3 DEF Ends, SendsOn, BufferOK
<1> QED
  BY <1>1, <1>2 DEF write

LEMMA RespondAnswers ==
    ASSUME BufferOK, conn = "open", NEW s, Respond(s)
    PROVE  Ends \/ Answers
<1>1. PICK n \in AnswerLen :
        /\ answers' = Append(answers, n)
        /\ spoiled' = (spoiled \/ writeBuf.length > 0)
        /\ SendFrom(Put(n), Len(answers) + 1,
                    [s EXCEPT !.receiving = @ + 1, !.processing = @ + 1])
  BY DEF Respond, Put
<1>2. Len(answers) + 1 \in Nat /\ Put(n) \in Buffers /\ Put(n).length = n
  BY PutType DEF BufferOK
<1>3. \/ Breaks
      \/ \E l \in Nat \ {0} :
            /\ Goes(Put(n), Len(answers) + 1, l)
            /\ Unfinished(Put(n)) => Put(n).wrLength + l <= Put(n).length
  BY <1>1, <1>2, SendFromGoes DEF BufferOK
<1> QED
  BY <1>1, <1>2, <1>3 DEF Ends, Answers, BufferOK

LEMMA ReadSends ==
    ASSUME BufferOK, read
    PROVE  Quiet \/ Ends \/ Answers
<1>1. conn = "open"
  BY DEF read
<1>2. CASE NoHeader \/ FailedHeader \/ WrongHeader
  BY <1>1, <1>2
     DEF NoHeader, FailedHeader, WrongHeader, Close, Ends, Breaks, BufferOK
<1>3. CASE Body
  <2>1. \/ (\E s : Close(s)) /\ UNCHANGED <<answers, spoiled>>
        \/ \E s : Respond(s)
        \/ Quiet
    BY <1>3 DEF Body, Quiet
  <2> QED
    BY <1>1, <2>1, RespondAnswers DEF Close, Ends, Breaks, BufferOK
<1> QED
  BY <1>2, <1>3 DEF read

SendingStep == Quiet \/ Ends \/ SendsOn \/ Answers

LEMMA BufferStep ==
    ASSUME BufferOK, SendingStep, drained' = drained
    PROVE  BufferOK'
<1>1. CASE Quiet
  BY <1>1 DEF Quiet, BufferOK
<1>2. CASE Ends
  <2>1. answers' \in Seq(AnswerLen)
    BY <1>2, AppendProperties DEF Ends, BufferOK
  <2>2. Empty \in Buffers
    BY ConnectionAssumption DEF Empty, Buffers
  <2> QED
    BY <1>2, <2>1, <2>2 DEF Ends, Breaks, BufferOK
<1>3. CASE SendsOn
  <2>1. PICK l \in Nat \ {0} :
          /\ Goes(writeBuf, Len(answers), l)
          /\ Unfinished(writeBuf) => writeBuf.wrLength + l <= writeBuf.length
    BY <1>3 DEF SendsOn
  <2>2. Len(answers) \in Nat /\ writeBuf \in Buffers
    BY DEF BufferOK
  <2>3. /\ sent' \in Seq(Bytes) /\ Len(sent') = Len(sent) + l
        /\ writeBuf' \in Buffers
    BY <2>1, <2>2, GoesType DEF BufferOK
  <2>4. ASSUME ~spoiled PROVE writeBuf' = Empty \/ Unfinished(writeBuf')
    <3>1. Unfinished(writeBuf)
      BY <1>3, <2>4 DEF BufferOK, SendsOn, Empty
    <3> QED
      BY <2>1, <2>2, <3>1, GoesUnfinished
  <2>5. drained \in 0 .. Len(sent')
    BY <2>3 DEF BufferOK
  <2> QED
    BY <1>3, <2>1, <2>3, <2>4, <2>5 DEF SendsOn, Goes, BufferOK
<1>4. CASE Answers
  <2>1. PICK n \in AnswerLen, l \in Nat \ {0} :
          /\ answers' = Append(answers, n)
          /\ spoiled' = (spoiled \/ writeBuf.length > 0)
          /\ Goes(Put(n), Len(answers) + 1, l)
          /\ Unfinished(Put(n)) => Put(n).wrLength + l <= n
    BY <1>4 DEF Answers
  <2>2. Len(answers) + 1 \in Nat /\ answers' \in Seq(AnswerLen)
    BY <2>1, AppendProperties DEF BufferOK
  <2>3. /\ sent' \in Seq(Bytes) /\ Len(sent') = Len(sent) + l
        /\ writeBuf' \in Buffers
    BY <2>1, <2>2, PutType, GoesType DEF BufferOK
  <2>4. ASSUME ~spoiled' PROVE writeBuf' = Empty \/ Unfinished(writeBuf')
    <3>1. Unfinished(Put(n)) /\ Put(n).length = n
      BY <2>1, <2>4, PutType
    <3> QED
      BY <2>1, <3>1, PutType, GoesUnfinished
  <2>5. drained \in 0 .. Len(sent')
    BY <2>3 DEF BufferOK
  <2>6. spoiled' \in BOOLEAN
    BY <2>1 DEF BufferOK
  <2> QED
    BY <1>4, <2>1, <2>2, <2>3, <2>4, <2>5, <2>6 DEF Answers, Goes, BufferOK
<1> QED
  BY <1>1, <1>2, <1>3, <1>4 DEF SendingStep

-------------------------------------------------------------------------------
(* The stream of bytes.                                                     *)

Gives(bytes, k) ==
    sent' = sent \o SubSeq(bytes, 1, k) /\ Rest' = SubSeq(bytes, k + 1, Len(bytes))

StreamState ==
    IF conn = "closed" THEN "closed" ELSE IF spoiled THEN "spoiled" ELSE "good"

streamed == <<Len(answers), Rest, sent, StreamState>>

LEMMA RestIs == Rest = RestOf(Len(answers), writeBuf)
BY DEF Rest, RestOf

LEMMA RestIsNext == Rest' = RestOf(Len(answers'), writeBuf')
BY DEF Rest, RestOf

LEMMA EmptyRest ==
    ASSUME NEW number
    PROVE  RestOf(number, Empty) = <<>>
BY DEF RestOf, Empty

\* An answer sent on in part gives the client the next bytes of the rest.
LEMMA GoesGives ==
    ASSUME NEW number \in Nat, NEW buf \in Buffers, NEW l \in Nat \ {0},
           Goes(buf, number, l), buf.wrLength + l <= buf.length,
           Len(answers') = number
    PROVE  /\ Gives(RestOf(number, buf), l)
           /\ l \in 1 .. Len(RestOf(number, buf))
<1> DEFINE bytes == RestOf(number, buf)
           after == [buf EXCEPT !.wrLength = @ + l]
<1>1. /\ BytesOf(number, buf, l) = SubSeq(bytes, 1, l)
      /\ RestOf(number, after) = SubSeq(bytes, l + 1, Len(bytes))
  BY SendingOn
<1>2. /\ Len(bytes) = buf.length - buf.wrLength
      /\ buf.length \in Nat /\ buf.wrLength \in Nat
  BY RestOfType, ConnectionAssumption DEF Buffers
<1>3. Rest' = RestOf(number, after)
  <2>1. CASE Done(buf, l)
    <3>1. after.length = buf.length /\ after.wrLength = buf.length
      BY <2>1 DEF Done, Buffers
    <3>2. RestOf(number, after) = <<>>
      <4>1. after.length - after.wrLength = 0
        BY <1>2, <3>1
      <4> HIDE DEF after
      <4> QED
        BY <4>1 DEF RestOf
    <3> QED
      BY <2>1, <3>2, RestIsNext, EmptyRest DEF Goes
  <2>2. CASE ~Done(buf, l)
    BY <2>2, RestIsNext DEF Goes
  <2> QED
    BY <2>1, <2>2
<1>4. l \in 1 .. Len(bytes)
  <2> HIDE DEF bytes
  <2> QED
    BY <1>2
<1> QED
  BY <1>1, <1>3, <1>4 DEF Goes, Gives

LEMMA StreamStep ==
    ASSUME BufferOK, SendingStep
    PROVE  Stream!Next \/ UNCHANGED streamed
<1>1. CASE Quiet
  BY <1>1, RestIs, RestIsNext DEF Quiet, streamed, StreamState
<1>2. CASE Ends
  <2>1. Rest' = <<>>
    BY <1>2, RestIsNext, EmptyRest DEF Ends, Breaks
  <2>2. Len(answers') \in {Len(answers), Len(answers) + 1}
    BY <1>2, AppendProperties DEF Ends, BufferOK
  <2>3. Stream!Close
    BY <1>2, <2>1, <2>2 DEF Stream!Close, Ends, Breaks
  <2> QED
    BY <2>3 DEF Stream!Next
<1>3. CASE SendsOn
  <2>1. CASE spoiled
    BY <1>3, <2>1 DEF SendsOn, Goes, Stream!Next, Stream!Anything
  <2>2. CASE ~spoiled
    <3>1. Unfinished(writeBuf) /\ writeBuf \in Buffers /\ Len(answers) \in Nat
      BY <1>3, <2>2 DEF SendsOn, BufferOK, Empty
    <3>2. PICK l \in Nat \ {0} :
            /\ Goes(writeBuf, Len(answers), l)
            /\ writeBuf.wrLength + l <= writeBuf.length
      BY <1>3, <3>1 DEF SendsOn
    <3>3. Gives(Rest, l) /\ l \in 1 .. Len(Rest)
      BY <1>3, <3>1, <3>2, GoesGives, RestIs DEF SendsOn
    <3>4. Stream!Continue
      BY <1>3, <2>2, <3>2, <3>3
         DEF SendsOn, Goes, Gives, Stream!Continue, Stream!Give
    <3> QED
      BY <3>4 DEF Stream!Next
  <2> QED
    BY <2>1, <2>2
<1>4. CASE Answers
  <2>1. PICK n \in AnswerLen, l \in Nat \ {0} :
          /\ answers' = Append(answers, n)
          /\ spoiled' = (spoiled \/ writeBuf.length > 0)
          /\ Goes(Put(n), Len(answers) + 1, l)
          /\ Unfinished(Put(n)) => Put(n).wrLength + l <= n
    BY <1>4 DEF Answers
  <2>2. conn = "open" /\ conn' = "open"
    BY <1>4, <2>1 DEF Answers, Goes
  <2>3. Len(answers') = Len(answers) + 1 /\ Len(answers) \in Nat
    BY <2>1, AppendProperties DEF BufferOK
  <2>4. CASE spoiled
    BY <2>1, <2>2, <2>4 DEF Stream!Next, Stream!Anything
  <2>5. CASE ~spoiled /\ writeBuf.length > 0
    <3>1. Rest # <<>>
      <4>1. Unfinished(writeBuf) /\ writeBuf \in Buffers
        BY <2>5 DEF BufferOK, Empty
      <4>2. /\ Len(Rest) = writeBuf.length - writeBuf.wrLength
            /\ writeBuf.length \in Nat /\ writeBuf.wrLength \in Nat
        BY <2>3, <4>1, RestIs, RestOfType, ConnectionAssumption
           DEF Unfinished, Buffers
      <4> QED
        BY <4>1, <4>2 DEF Unfinished
    <3>2. Stream!Spoil
      BY <2>1, <2>2, <2>3, <2>5, <3>1 DEF Stream!Spoil
    <3> QED
      BY <3>2 DEF Stream!Next
  <2>6. CASE ~spoiled /\ ~(writeBuf.length > 0)
    <3>1. /\ Put(n) = [length |-> n, wrLength |-> 0] /\ Unfinished(Put(n))
          /\ Put(n) \in Buffers
      BY <2>6, PutType
    <3>2. /\ Gives(RestOf(Len(answers) + 1, Put(n)), l)
          /\ l \in 1 .. Len(RestOf(Len(answers) + 1, Put(n)))
      BY <2>1, <2>3, <3>1, GoesGives
    <3>3. RestOf(Len(answers) + 1, Put(n)) = Stream!Answer(Len(answers) + 1, n)
      BY <3>1, ConnectionAssumption DEF RestOf, Stream!Answer
    <3>4. Len(RestOf(Len(answers) + 1, Put(n))) = n
      BY <2>3, <3>1, RestOfType, ConnectionAssumption DEF Unfinished
    <3>5. Rest = <<>>
      BY <2>6, RestIs, EmptyRest, ConnectionAssumption
         DEF BufferOK, Unfinished, Buffers
    <3>6. Stream!Begin
      BY <2>1, <2>2, <2>3, <2>6, <3>2, <3>3, <3>4, <3>5
         DEF Gives, Stream!Begin, Stream!Give
    <3> QED
      BY <3>6 DEF Stream!Next
  <2> QED
    BY <2>4, <2>5, <2>6
<1> QED
  BY <1>1, <1>2, <1>3, <1>4 DEF SendingStep

-------------------------------------------------------------------------------
LEMMA BufferInit == Init => BufferOK
<1> SUFFICES ASSUME Init PROVE BufferOK
  OBVIOUS
<1>1. Empty \in Buffers
  BY ConnectionAssumption DEF Empty, Buffers
<1>2. <<>> \in Seq(AnswerLen) /\ <<>> \in Seq(Bytes) /\ 0 \in 0 .. Len(<<>>)
  OBVIOUS
<1> QED
  BY <1>1, <1>2 DEF Init, BufferOK

LEMMA BufferNext ==
    ASSUME BufferOK, [Next]_vars
    PROVE  BufferOK' /\ (Stream!Next \/ UNCHANGED streamed)
<1>1. CASE UNCHANGED vars
  BY <1>1, RestIs, RestIsNext
     DEF vars, server, client, BufferOK, streamed, StreamState
<1>2. CASE ClientStep
  <2>1. UNCHANGED <<conn, answers, sent, writeBuf, spoiled>>
    BY <1>2 DEF ClientStep, server
  <2>2. drained' \in 0 .. Len(sent)
    <3>1. drained' = drained \/ drained' \in drained + 1 .. Len(sent)
      BY <1>2 DEF ClientStep, Ask, Deliver, Drain, Leave
    <3>2. drained \in 0 .. Len(sent) /\ Len(sent) \in Nat
      BY DEF BufferOK
    <3> QED
      BY <3>1, <3>2
  <2> QED
    BY <2>1, <2>2, RestIs, RestIsNext DEF BufferOK, streamed, StreamState
<1>3. CASE accept
  BY <1>3, RestIs, RestIsNext
     DEF accept, client, BufferOK, streamed, StreamState
<1>4. CASE read
  BY <1>4, ReadSends, BufferStep, StreamStep DEF SendingStep, read, client
<1>5. CASE write
  BY <1>5, WriteSends, BufferStep, StreamStep DEF SendingStep, write, client
<1> QED
  BY <1>1, <1>2, <1>3, <1>4, <1>5 DEF Next

\* Whatever the socket takes, the client gets the bytes of the answers in
\* order, each once, until an answer takes the place of one not wholly sent.
THEOREM ConnectionImplementsStream == Spec => ImplementsStream
<1>1. BufferOK /\ [Next]_vars => BufferOK'
  BY BufferNext
<1>2. BufferOK /\ [Next]_vars => [Stream!Next]_(Stream!stream)
  BY BufferNext DEF Stream!stream, streamed, StreamState
<1>3. Init => Stream!Init
  BY DEF Init, Stream!Init, Rest, Empty
<1> QED
  BY <1>1, <1>2, <1>3, BufferInit, PTL DEF Spec, ImplementsStream, Stream!Spec
===============================================================================
