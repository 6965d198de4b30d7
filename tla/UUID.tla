-------------------------------- MODULE UUID --------------------------------
(***************************************************************************)
(* The identifiers of sessions, util/uuid.hpp: 16 bytes on the wire, 36    *)
(* characters in the store.                                                *)
(***************************************************************************)
EXTENDS Naturals, Sequences

LENGTH == 36
LENGTH_RAW == 16

Digit == <<"0", "1", "2", "3", "4", "5", "6", "7",
           "8", "9", "a", "b", "c", "d", "e", "f">>
Capital == <<"0", "1", "2", "3", "4", "5", "6", "7",
             "8", "9", "A", "B", "C", "D", "E", "F">>

getChar(n) == Digit[n + 1]

\* Only of characters that are digits: for another, getInt returns -1, and
\* toBin, whose test for it can never hold, takes the byte 255.
getInt(c) == CHOOSE n \in 0 .. 15 : c \in {Digit[n + 1], Capital[n + 1]}

\* Where the text has its dashes, counted from 0.
Dashes == {8, 13, 18, 23}
Places == (0 .. LENGTH - 1) \ Dashes

\* Which of the 32 digits stands at a place.
Nth(place) == place - (IF place > 23 THEN 4 ELSE IF place > 18 THEN 3
                       ELSE IF place > 13 THEN 2 ELSE IF place > 8 THEN 1 ELSE 0)

\* A text that generate() can draw.
Generated(text) ==
    /\ DOMAIN text = 1 .. LENGTH
    /\ \A i \in Dashes : text[i + 1] = "-"
    /\ text[14 + 1] = "4" /\ text[19 + 1] \in {"8", "9", "a", "b"}
    /\ \A i \in Places : \E n \in 1 .. 16 : text[i + 1] = Digit[n]

toBin(text) ==
    LET value(n) == getInt(text[(CHOOSE p \in Places : Nth(p) = n) + 1])
    IN  [i \in 1 .. LENGTH_RAW |-> (value(2 * i - 2) * 16 + value(2 * i - 1)) % 256]

\* Mutant: the two digits of a byte are swapped.
DigitSwapped(raw, n) ==
    LET byte == raw[n \div 2 + 1]
    IN  IF n % 2 = 1 THEN getChar(byte \div 16) ELSE getChar(byte % 16)

DigitOf(raw, n) ==
    LET byte == raw[n \div 2 + 1]
    IN  IF n % 2 = 0 THEN getChar(byte \div 16) ELSE getChar(byte % 16)

toNormal(raw) ==
    [i \in 1 .. LENGTH |->
        IF i - 1 \in Dashes THEN "-" ELSE DigitOf(raw, Nth(i - 1))]
==============================================================================
