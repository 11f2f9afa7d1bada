-------------------------------- MODULE UrlCodec --------------------------------
(*****************************************************************************)
(* URL coding (src/src/userver_codec.c).  A character is its code, a string  *)
(* the sequence of its characters without the terminator; what is written    *)
(* behind the last character is in the length.                               *)
(*****************************************************************************)
EXTENDS Integers, Sequences, SequencesExt

CONSTANTS
    CHARS,          \* the characters of strings to be coded, within 1 .. 255
    MAX_STR,        \* the length of such a string
    MAX_NUM         \* the room in the target, at most

ASSUME CodecAssumption == CHARS \subseteq 1 .. 255 /\ MAX_STR \in Nat /\ MAX_NUM \in Nat

Percent == 37
Plus    == 43
Space   == 32

Digits == 48 .. 57
Upper  == 65 .. 90
Lower  == 97 .. 122
Unreserved == Digits \cup Upper \cup Lower \cup {45, 95, 46, 126}

\* A char of any value but a digit or a letter gives -1.
from_hex(c) == CASE c \in Digits -> c - 48
                 [] c \in Lower -> c - 97 + 10
                 [] c \in Upper -> c - 65 + 10
                 [] OTHER -> -1

to_nibble(n) == LET h == n % 16 IN IF h < 10 THEN 48 + h ELSE 97 + h - 10

\* Mutant: the room for a coded character is not looked for.
NoLook(dst, num) == FALSE

Full(dst, num) == Len(dst) + 3 >= num

\* urlnencode: a turn of the loop; it is over at the end of the string, or when the
\* next character has no room.
EncodeTurn(acc, c, num) ==
    IF acc.over \/ Len(acc.dst) >= num THEN [acc EXCEPT !.over = TRUE]
    ELSE IF c \in Unreserved THEN [acc EXCEPT !.dst = Append(@, c)]
    ELSE IF c = Space THEN [acc EXCEPT !.dst = Append(@, Plus)]
    ELSE IF Full(acc.dst, num) THEN [acc EXCEPT !.over = TRUE]
    ELSE [acc EXCEPT !.dst = @ \o <<Percent, to_nibble(c \div 16), to_nibble(c % 16)>>]

urlnencode(str, num) ==
    FoldLeft(LAMBDA acc, c : EncodeTurn(acc, c, num), [dst |-> <<>>, over |-> FALSE], str).dst

\* The operator | of bytes: the byte, no smaller than the first, that has the ones of
\* both.
Ones(m) == {p \in {1, 2, 4, 8, 16, 32, 64, 128} : (m \div p) % 2 = 1}
Or(m, n) == CHOOSE b \in m .. 255 : Ones(b) = Ones(m) \cup Ones(n)

\* Mutant: the second digit is taken for the first.
Swapped(hi, lo) == Or((from_hex(lo) * 16) % 256, from_hex(hi) % 256)

Hex(hi, lo) == Or((from_hex(hi) * 16) % 256, from_hex(lo) % 256)

\* urlndecode: a turn at place i of the string, unless it was taken with an earlier
\* one.  A percent sign with less than two characters behind it is dropped.
DecodeTurn(acc, str, i, num) ==
    IF acc.skip > 0 THEN [acc EXCEPT !.skip = @ - 1]
    ELSE IF Len(acc.dst) >= num THEN acc
    ELSE IF str[i] = Percent
         THEN IF i + 2 <= Len(str)
              THEN [dst |-> Append(acc.dst, Hex(str[i + 1], str[i + 2])), skip |-> 2]
              ELSE acc
    ELSE [acc EXCEPT !.dst = Append(@, IF str[i] = Plus THEN Space ELSE str[i])]

urlndecode(str, num) ==
    FoldLeft(LAMBDA acc, i : DecodeTurn(acc, str, i, num), [dst |-> <<>>, skip |-> 0],
             [i \in 1 .. Len(str) |-> i]).dst

-------------------------------------------------------------------------------
VARIABLE coded      \* what is coded: a string, and the room for it

CodecInit == coded \in [str : UNION {[1 .. n -> CHARS] : n \in 0 .. MAX_STR}, num : 0 .. MAX_NUM]

\* Decoding gives back what was coded; when it had no room, the beginning of it: a
\* character is never cut in its middle, and nothing but the terminator is written
\* behind the room (userver_codec.c:45, 67).
DecodesBack ==
    LET there == urlnencode(coded.str, coded.num)
        back  == urlndecode(there, coded.num)
    IN  /\ IsPrefix(back, coded.str)
        /\ coded.num > 3 * Len(coded.str) => back = coded.str
        /\ Len(there) <= coded.num /\ Len(urlndecode(coded.str, coded.num)) <= coded.num
===============================================================================
