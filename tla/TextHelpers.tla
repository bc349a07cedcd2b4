----------------------------- MODULE TextHelpers -----------------------------
(***************************************************************************)
(* The helpers of CUtils that take texts apart and turn bytes into text:   *)
(* splitting and joining, the map of a configuration text, base64, hex and *)
(* URI escapes.  A text is a sequence of characters.  For the codings a    *)
(* character is a byte of ByteBits bits (8); a hex digit stands for half   *)
(* of them (4) and a base64 symbol for three quarters (6).                 *)
(***************************************************************************)
EXTENDS BitStream

\* The fields between separators, as sregex_token_iterator gives them with -1: an
\* empty field at the end is left out.
RECURSIVE Fields(_, _)
Fields(s, seps) ==
    LET i == SelectInSeq(s, LAMBDA ch : ch \in seps)
    IN  IF i = 0 THEN <<s>>
        ELSE <<SubSeq(s, 1, i - 1)>> \o Fields(SubSeq(s, i + 1, Len(s)), seps)
resplit(s, seps) ==
    LET f == Fields(s, seps) IN IF Len(f) > 1 /\ Last(f) = <<>> THEN Front(f) ELSE f

splitString(seps, s) == SelectSeq(resplit(s, seps), LAMBDA field : field # <<>>)
splitStringSET(seps, s) == ToSet(splitString(seps, s))

join(pattern, arr) ==
    FlattenSeq([i \in DOMAIN arr |-> IF i < Len(arr) THEN arr[i] \o pattern ELSE arr[i]])

\* Blanks are only dropped in front of a line.
RECURSIVE LeftTrim(_)
LeftTrim(s) == IF s # <<>> /\ Head(s) = " " THEN LeftTrim(Tail(s)) ELSE s

\* find("=")
EqualAt(s) == SelectInSeq(s, LAMBDA ch : ch = "=")

\* One line of a text: blank, a comment, "%section", "key=value", or an error.
TakeLine(st, line) ==
    LET theString == LeftTrim(line)
        pz        == EqualAt(theString)
        key       == SubSeq(theString, 1, pz - 1)
        path      == IF st.section = <<>> THEN key ELSE st.section \o <<"_">> \o key
    IN  IF st.thrown \/ theString = <<>> \/ theString[1] = "#" THEN st
        ELSE IF theString[1] = "%" THEN [st EXCEPT !.section = Tail(theString)]
        ELSE IF pz = 0 THEN [st EXCEPT !.thrown = TRUE]
        ELSE [st EXCEPT !.m = (path :> SubSeq(theString, pz + 1, Len(theString))) @@ @]

loadStringMapFromBuffer(bod, linedelim) ==
    FoldLeft(TakeLine, [thrown |-> FALSE, section |-> <<>>, m |-> <<>>], splitString(linedelim, bod))

\* A file that cannot be read is a text without lines.
loadStringMapFromFile(file) ==
    loadStringMapFromBuffer(IF file.readable THEN file.body ELSE <<>>, {"\r", "\n"})
-----------------------------------------------------------------------------
SymbolBits == 3 * (ByteBits \div 4)
Pad == 2 ^ SymbolBits               \* '=', behind the characters of the symbols
Blank == Pad + 1
Garbage == Pad + 2

\* The characters of the symbols 0 .. 2^6 - 1, and the table that leads back: it has 0,
\* which is also the index of 'A', for every other character.
B64chars(symbol) == symbol
B64index(ch) == IF ch < Pad THEN ch ELSE 0

\* int val, of which only low bits are looked at.
IntBits(n) == n % 2 ^ (4 * ByteBits)

RECURSIVE PushSymbols(_)
PushSymbols(st) ==
    IF st.valb < 0 THEN st
    ELSE PushSymbols([st EXCEPT !.out  = Append(@, B64chars((st.val \div 2 ^ st.valb) % Pad)),
                                !.valb = @ - SymbolBits])

EncodeByte(st, byte) ==
    PushSymbols([st EXCEPT !.val = IntBits(@ * 2 ^ ByteBits + byte), !.valb = @ + ByteBits])

\* Mutant: the bits left over are not moved to the high end of the last symbol.
RestUnshifted(st) == <<B64chars(st.val % 2 ^ (st.valb + SymbolBits))>>

\* The last symbol, when bits are left over: they are its high bits.
RestSymbol(st) == <<B64chars((IntBits(st.val * 2 ^ ByteBits) \div 2 ^ (st.valb + ByteBits)) % Pad)>>

Base64Encode(str) ==
    LET st  == FoldLeft(EncodeByte, [out |-> <<>>, val |-> 0, valb |-> -SymbolBits], str)
        out == IF st.valb > -SymbolBits THEN st.out \o RestSymbol(st) ELSE st.out
    IN  out \o [i \in 1 .. (4 - (Len(out) % 4)) % 4 |-> Pad]

DecodeSymbol(st, ch) ==
    LET val  == IntBits(st.val * 2 ^ SymbolBits + B64index(ch))
        valb == st.valb + SymbolBits
    IN  IF st.ended \/ ch = Pad THEN [st EXCEPT !.ended = TRUE]
        ELSE IF ch = Blank \/ (B64index(ch) = 0 /\ ch # B64chars(0)) THEN st
        ELSE [st EXCEPT !.val  = val,
                        !.valb = IF valb >= 0 THEN valb - ByteBits ELSE valb,
                        !.out  = IF valb >= 0 THEN Append(@, (val \div 2 ^ valb) % 2 ^ ByteBits) ELSE @]

Base64Decode(src) ==
    FoldLeft(DecodeSymbol, [out |-> <<>>, val |-> 0, valb |-> -ByteBits, ended |-> FALSE], src).out
-----------------------------------------------------------------------------
\* Half a byte has HexBase values (16).  Of the characters, the first three stand for
\* '%', '+' and ' ', the next ones for the hex digits, and one more for a letter.
HexBase == 2 ^ (ByteBits \div 2)
Percent == 0
Plus    == 1
Space   == 2
HexDigit(n) == 3 + n
IsDigit(ch) == ch \in {HexDigit(n) : n \in 0 .. HexBase - 1}
ValueOf(ch) == ch - HexDigit(0)
Safe(ch)    == ch \in HexDigit(0) .. HexDigit(HexBase)

\* char2hex, and "%02x"
char2hex(ch) == <<HexDigit(ch \div HexBase), HexDigit(ch % HexBase)>>

bin2hex(in) == FlattenSeq([i \in DOMAIN in |-> char2hex(in[i])])

\* The number at the front of at most two characters, as strtol and sscanf read it: none
\* is 0 for the one, and leaves the other's variable alone.
HexPrefix(t, none) ==
    LET s == IF t # <<>> /\ t[1] = Space THEN Tail(t) ELSE t
    IN  IF s = <<>> \/ ~IsDigit(s[1]) THEN none
        ELSE IF Len(s) = 2 /\ IsDigit(s[2]) THEN HexBase * ValueOf(s[1]) + ValueOf(s[2])
        ELSE ValueOf(s[1])

\* The two characters from i on, or those of them that are there.
TwoAt(s, i) == SubSeq(s, i, Min({i + 1, Len(s)}))

RECURSIVE hex2bin(_)
hex2bin(s) ==
    IF s = <<>> THEN <<>>
    ELSE <<HexPrefix(TwoAt(s, 1), 0)>> \o hex2bin(SubSeq(s, 3, Len(s)))

uriEncode(c) == FlattenSeq([i \in DOMAIN c |-> IF Safe(c[i]) THEN <<c[i]>> ELSE <<Percent>> \o char2hex(c[i])])

\* ii is what the variable ii holds: at first whatever was on the stack.
RECURSIVE uriDecode(_, _)
uriDecode(s, ii) ==
    LET next == HexPrefix(TwoAt(s, 2), ii)
    IN  IF s = <<>> THEN <<>>
        ELSE IF s[1] = Percent THEN <<next>> \o uriDecode(SubSeq(s, 4, Len(s)), next)
        ELSE <<s[1]>> \o uriDecode(Tail(s), ii)

\* An escape that is cut off ends the text or vanishes, as one that is no number does.
RECURSIVE unescapeURL(_)
unescapeURL(s) ==
    LET whole == Len(s) >= 3 /\ IsDigit(s[2]) /\ IsDigit(s[3])
        rest  == unescapeURL(SubSeq(s, 4, Len(s)))
    IN  IF s = <<>> THEN <<>>
        ELSE IF s[1] # Percent THEN <<IF s[1] = Plus THEN Space ELSE s[1]>> \o unescapeURL(Tail(s))
        ELSE IF whole THEN <<HexBase * ValueOf(s[2]) + ValueOf(s[3])>> \o rest
        ELSE rest
=============================================================================
