--------------------------- MODULE ForgedNumbers ---------------------------
(***************************************************************************)
(* The bytes of the numbers in a forged operation (taquito-local-forging): *)
(* amounts, fees and limits (codec.ts), and the integers of Michelson      *)
(* values (michelson/codec.ts).  A byte tells whether there are more, and  *)
(* the low bits come first.  All integers are exact, as BigNumber's are.   *)
(***************************************************************************)
EXTENDS Integers, Sequences, Sums

\* Mutated FitsInByte: a number of seven bits takes two bytes.
FitsInByte_Eight(n) == n <= 128

\* There is no bit left for another byte.
FitsInByte(n) == n < 128

\* zarithEncoder
Zarith[n \in Nat] ==
    IF FitsInByte(n) THEN <<n>> ELSE <<128 + (n % 128)>> \o Zarith[n \div 128]

Abs(n) == IF n < 0 THEN -n ELSE n
BitLength(n) == CHOOSE b \in 1..(n + 1) : n < TwoTo[b] /\ (b = 1 \/ n >= TwoTo[b - 1])

\* Mutated Groups: the bits that do not fill a group have none.
Groups_Down(n) == IF BitLength(n) <= 6 THEN 1 ELSE 1 + ((BitLength(n) - 6) \div 7)

\* The bits are padded to 6 and as many times 7 as it takes.
Groups(n) == IF BitLength(n) <= 6 THEN 1 ELSE 1 + ((BitLength(n) - 6 + 6) \div 7)

\* intEncoder: the lowest six bits with the sign, the others above them.
EncodeInt(n) ==
    [i \in 1..Groups(Abs(n)) |->
        (IF i = Groups(Abs(n)) THEN 0 ELSE 128) +
        IF i = 1 THEN (IF n < 0 THEN 64 ELSE 0) + (Abs(n) % 64)
        ELSE (Abs(n) \div TwoTo[7 * i - 8]) % 128]

-----------------------------------------------------------------------------
(* Parsing: what was read, and the bytes that are left.  An error is a value too. *)

Parsed(value, rest) == [ok |-> TRUE, value |-> value, rest |-> rest]
Error == [ok |-> FALSE, value |-> <<"error">>, rest |-> <<>>]
From(bytes, i) == SubSeq(bytes, i, Len(bytes))

\* A number ends with the first byte below 128.
LastByte(bytes) ==
    CHOOSE n \in DOMAIN bytes : bytes[n] < 128 /\ \A i \in 1..(n - 1) : bytes[i] >= 128

\* What the first byte counts to, then 128 for the others, up to the last one.
NumberIn(bytes, first) ==
    LET last == LastByte(bytes)
        base(i) == IF i = 1 THEN first ELSE 128
        num[i \in 1..last] ==
            (bytes[i] % base(i)) + IF i = last THEN 0 ELSE base(i) * num[i + 1]
    IN  num[1]

\* zarithDecoder, and the bytes behind the number.
ReadZarith(bytes) == Parsed(NumberIn(bytes, 128), From(bytes, LastByte(bytes) + 1))

\* intDecoder
ReadInt(bytes) ==
    IF \A i \in DOMAIN bytes : bytes[i] >= 128 THEN Error
    ELSE LET abs == NumberIn(bytes, 64)
         IN  Parsed(<<"int", IF (bytes[1] \div 64) % 2 = 1 THEN -abs ELSE abs>>,
                    From(bytes, LastByte(bytes) + 1))
=============================================================================
