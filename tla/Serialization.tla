---------------------------- MODULE Serialization ----------------------------
(***************************************************************************)
(* pack() and unpack() of util/serialization.hpp, on sequences of bytes.   *)
(*                                                                         *)
(* An item to pack is its type and its value: a number, or the bytes of a  *)
(* string.  An item to unpack is its type; for a FIXED_STRING, which has   *)
(* no length on the wire, the length comes with it.  Numbers go in network *)
(* order, and are small here, so that none of their sums is cut off.       *)
(***************************************************************************)
EXTENDS Integers, Sequences

CONSTANT Base   \* the number of values of a byte

\* sizeof of the fixed types
Size == [CHAR |-> 1, SHORT_INT |-> 2, INT |-> 4, LONG_INT |-> 8]

\* htons, htonl, htonll, and back; the numbers have no more than four bytes.
InNetworkOrder(n, size) ==
    [i \in 1 .. size |->
        IF size - i > 3 THEN 0 ELSE (n \div Base ^ (size - i)) % Base]

ToNumber(bytes) ==
    LET first[i \in 0 .. Len(bytes)] ==
            IF i = 0 THEN 0 ELSE first[i - 1] * Base + bytes[i]
    IN  first[Len(bytes)]

Packed(item) ==
    CASE item.type = "STRING" ->
            InNetworkOrder(Len(item.value), Size["INT"]) \o item.value
      [] item.type = "FIXED_STRING" -> item.value
      [] item.type = "STRING_WITH_NULL" -> item.value \o <<0>>
      [] OTHER -> InNetworkOrder(item.value, Size[item.type])

pack(items) ==
    LET upTo[i \in 0 .. Len(items)] ==
            IF i = 0 THEN <<>> ELSE upTo[i - 1] \o Packed(items[i])
    IN  upTo[Len(items)]

-------------------------------------------------------------------------------
Piece(data, from, to) == SubSeq(data, from + 1, to)

\* Where the item that begins at an offset ends: one place, or none if the
\* data ends before it does.
Ends(type, data, offset) ==
    LET Within(e) == {e} \cap offset .. Len(data)
        afterLength == offset + Size["INT"]
    IN  CASE type.type = "STRING" ->
                IF afterLength > Len(data) THEN {}
                ELSE Within(afterLength + ToNumber(Piece(data, offset, afterLength)))
          [] type.type = "FIXED_STRING" -> Within(offset + type.length)
          [] type.type = "STRING_WITH_NULL" ->
                {e \in offset + 1 .. Len(data) :
                    data[e] = 0 /\ \A i \in offset + 1 .. e - 1 : data[i] # 0}
          [] OTHER -> Within(offset + Size[type.type])

ValueOf(type, data, offset, end) ==
    CASE type.type = "STRING" -> Piece(data, offset + Size["INT"], end)
      [] type.type = "FIXED_STRING" -> Piece(data, offset, end)
      [] type.type = "STRING_WITH_NULL" -> Piece(data, offset, end - 1)
      [] OTHER -> ToNumber(Piece(data, offset, end))

\* Mutant: what is left over does not matter.
UsedUpLoosely(data, offset) == offset <= Len(data)

UsedUp(data, offset) == offset = Len(data)

\* The values of the items in order, or refused.
unpack(types, data) ==
    LET refused == [ok |-> FALSE, offset |-> 0, values |-> <<>>]
        upTo[i \in 0 .. Len(types)] ==
            IF i = 0 THEN [ok |-> TRUE, offset |-> 0, values |-> <<>>]
            ELSE LET before == upTo[i - 1]
                     ends == Ends(types[i], data, before.offset)
                 IN  IF ~before.ok \/ before.offset = Len(data) \/ ends = {}
                     THEN refused
                     ELSE LET end == CHOOSE e \in ends : TRUE
                          IN  [ok |-> TRUE, offset |-> end,
                               values |-> Append(before.values,
                                   ValueOf(types[i], data, before.offset, end))]
        all == upTo[Len(types)]
    IN  [ok |-> all.ok /\ UsedUp(data, all.offset), values |-> all.values]
==============================================================================
