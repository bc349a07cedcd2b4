----------------------------- MODULE PackedNumber -----------------------------
(***************************************************************************)
(* The packed numbers of outBuffer, oBuf and inBuffer: big-endian digits,  *)
(* every one but the last with the continuation bit set.  In the code a    *)
(* digit has seven bits, the bit is 0x80 and a number has 64 bits, so that *)
(* the tenth digit holds only one of them.                                 *)
(***************************************************************************)
EXTENDS Naturals, Sequences, FiniteSetsExt

CONSTANTS Base,     \* values of a digit; the continuation bit adds Base (0x80)
          Width     \* digits of the longest number (10)

ASSUME BaseAssumption  == Base \in Nat /\ Base > 1 /\ Base % 2 = 0
ASSUME WidthAssumption == Width \in Nat \ {0}

\* What a digit counts for: the digit i is the number shifted by 7 * i bits.
Weight[i \in 0 .. Width] == IF i = 0 THEN 1 ELSE Base * Weight[i - 1]

Modulus == 2 * Weight[Width - 1]    \* 2^64
Number  == 0 .. Modulus - 1
Byte    == 0 .. 2 * Base - 1

Digit(N, i) == (N \div Weight[i]) % Base

\* "loop to skip spaces": the first digit that is not zero, or the last one.
FirstDigit(N) == Max({i \in 0 .. Width - 1 : Digit(N, i) # 0} \cup {0})

Flag(c) == c + Base

put_PN(N) ==
    LET first == FirstDigit(N)
    IN  [k \in 1 .. first + 1 |->
            IF k = first + 1 THEN Digit(N, 0) ELSE Flag(Digit(N, first + 1 - k))]

\* The digits shifted in one after the other, in the width of the number.
Shifted(digits) ==
    LET NN[k \in 0 .. Len(digits)] ==
            IF k = 0 THEN 0 ELSE ((NN[k - 1] * Base) + (digits[k] % Base)) % Modulus
    IN  NN[Len(digits)]

Failure == [success |-> FALSE, value |-> 0, rest |-> <<>>]

\* get_PN_nothrow() at the front of buf: the number and what is left, or failure
\* when the bytes end before a digit without continuation bit.
get_PN_nothrow(buf) ==
    LET ends == {i \in 1 .. Len(buf) : buf[i] < Base}
    IN  IF ends = {} THEN Failure
        ELSE LET last == Min(ends)
             IN  [success |-> TRUE,
                  value   |-> Shifted(SubSeq(buf, 1, last)),
                  rest    |-> SubSeq(buf, last + 1, Len(buf))]
-----------------------------------------------------------------------------
(* What the codec promises.                                                *)

\* A number comes back as it was packed, and what follows it is not touched.
RoundTrip(N, tail) ==
    get_PN_nothrow(put_PN(N) \o tail) = [success |-> TRUE, value |-> N, rest |-> tail]

\* A number that has arrived in part is never mistaken for another one.
TruncationFails(N) ==
    \A k \in 0 .. Len(put_PN(N)) - 1 : ~get_PN_nothrow(SubSeq(put_PN(N), 1, k)).success
=============================================================================
