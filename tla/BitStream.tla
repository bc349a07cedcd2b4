------------------------------- MODULE BitStream -------------------------------
(***************************************************************************)
(* outBitStream and inBitStream: bits, most significant first, and between *)
(* them bytes, words, packed numbers, strings and TLV lengths, which only  *)
(* start at a byte's boundary.  A stream is its sequence of bits; a byte   *)
(* has ByteBits of them (8) and so Base = 2^(ByteBits - 1).                *)
(***************************************************************************)
EXTENDS PackedNumber, SequencesExt

CONSTANT ByteBits

ASSUME ByteBitsAssumption == ByteBits \in Nat /\ 2 * Base = 2 ^ ByteBits

Aligned(bits) == Len(bits) % ByteBits = 0

\* put_bits(val, bitcount)
Bits(val, bitcount) == [i \in 1 .. bitcount |-> (val \div 2 ^ (bitcount - i)) % 2]

\* get_bits: the value of bits that have been read, most significant first.
Val(bits) == FoldLeft(LAMBDA v, b : 2 * v + b, 0, bits)

OfBytes(bytes) == FlattenSeq([i \in DOMAIN bytes |-> Bits(bytes[i], ByteBits)])
Bytes(bits)    == [i \in 1 .. Len(bits) \div ByteBits |->
                      Val(SubSeq(bits, (i - 1) * ByteBits + 1, i * ByteBits))]

\* The n bytes of a word, little or big end first.
LE(val, n) == [i \in 1 .. n |-> (val \div (2 * Base) ^ (i - 1)) % (2 * Base)]
BE(val, n) == Reverse(LE(val, n))
OfLE(bytes) == FoldRight(LAMBDA b, v : 2 * Base * v + b, bytes, 0)
OfBE(bytes) == OfLE(Reverse(bytes))

\* put_PN$ and operator<< of the 64-bit types start at bit 56, so that the tenth
\* digit, which holds bit 63, is never written.
put_PN_bits(N) == put_PN(N % Weight[Width - 1])

\* Mutant: off by one at the longest length of two bytes.
TlvBytesShort(len) == IF len <= (2 * Base) ^ 2 THEN 2 ELSE IF len <= (2 * Base) ^ 3 THEN 3 ELSE 4

\* The bytes of a length that has more than seven bits: two, three or four.
TlvBytes(len) == IF len < (2 * Base) ^ 2 THEN 2 ELSE IF len < (2 * Base) ^ 3 THEN 3 ELSE 4

\* An unsigned long, of which put_bits gets an unsigned int.
putTLVLength(len) ==
    IF len < Base THEN <<0>> \o Bits(len, ByteBits - 1)
    ELSE <<1>> \o Bits(TlvBytes(len), ByteBits - 1) \o Bits(len % (2 * Base) ^ 4, TlvBytes(len) * ByteBits)

\* What an operation appends.
Written(op) ==
    CASE op.is = "bits" -> Bits(op.val, op.n)
      [] op.is = "tlv"  -> putTLVLength(op.val)
      [] op.is = "LE"   -> OfBytes(LE(op.val, op.n))
      [] op.is = "BE"   -> OfBytes(BE(op.val, op.n))
      [] op.is = "PN"   -> OfBytes(put_PN_bits(op.val))
      [] op.is = "PSTR" -> OfBytes(put_PN_bits(Len(op.val)) \o op.val)

\* "boundary error on BitStream remainder"
MayWrite(op, bits) == op.is = "bits" \/ Aligned(bits)

\* getTlvLength does not look at the boundary, put_bits and get_bits need not.
MayRead(op, bits) == op.is \in {"bits", "tlv"} \/ Aligned(bits)

Stuck == [success |-> FALSE, val |-> 0, rest |-> <<>>]

Read(bits, n, Op(_)) ==
    IF n > Len(bits) THEN Stuck
    ELSE [success |-> TRUE, val |-> Op(SubSeq(bits, 1, n)), rest |-> SubSeq(bits, n + 1, Len(bits))]

getTlvLength(bits) ==
    LET llen == Val(SubSeq(bits, 2, ByteBits))
        len  == Read(SubSeq(bits, ByteBits + 1, Len(bits)), llen * ByteBits, Val)
    IN  CASE bits[1] = 0              -> Read(bits, ByteBits, Val)
          [] bits[1] = 1 /\ llen > 4  -> Stuck
          [] OTHER                    -> len

\* get_PN at a boundary, and get_PSTR with the check that the string has arrived.
getPN(bits) ==
    LET r == get_PN_nothrow(Bytes(bits))
    IN  [success |-> r.success, val |-> r.value, rest |-> OfBytes(r.rest)]

getPSTR(bits) ==
    LET sz == getPN(bits) IN IF sz.success THEN Read(sz.rest, sz.val * ByteBits, Bytes) ELSE Stuck

\* What the reader of an operation's kind makes of the front of the stream.
\* get_bit does not look at the stream's end: it is only asked for bits that are there.
ReadBack(op, bits) ==
    CASE ~MayRead(op, bits) -> Stuck
      [] op.is = "bits" -> Read(bits, op.n, Val)
      [] op.is = "tlv"  -> getTlvLength(bits)
      [] op.is = "LE"   -> Read(bits, op.n * ByteBits, LAMBDA s : OfLE(Bytes(s)))
      [] op.is = "BE"   -> Read(bits, op.n * ByteBits, LAMBDA s : OfBE(Bytes(s)))
      [] op.is = "PN"   -> getPN(bits)
      [] op.is = "PSTR" -> getPSTR(bits)
=============================================================================
