------------------------------- MODULE MCCodecs -------------------------------
(***************************************************************************)
(* One input after the other for the codecs: every number of a small       *)
(* width, events of every class over small values of their members and     *)
(* short routes, values of the containers, triples of addresses and of     *)
(* routes, sequences of up to three writes to a bit stream, short strings  *)
(* of bytes for the text codings, and configuration texts of up to four    *)
(* lines with the pushes and pops of two threads.                          *)
(***************************************************************************)
EXTENDS EventCodec, ConfigObj

VARIABLE input

ConstructorsDef == -11 .. 6 \cup 11 .. 12
PluginsDef      == {7, 9, 10}            \* 8 is known to nobody

unix(s)    == [family |-> AF_UNIX, port |-> 0, addr |-> s]
inet(p, a) == [family |-> AF_INET, port |-> p, addr |-> <<a>>]
in6(p, s)  == [family |-> AF_INET6, port |-> p, addr |-> s]

Inner == [id |-> 2, route |-> <<[type |-> LOCALSERVICE, id |-> 9]>>,
          members |-> [errcode |-> -2, errText |-> <<1>>]]

Values(T) ==
    CASE T = <<"ushort">>  -> {0, ShortModulus - 1}
      [] T = Integer       -> {-1, IntModulus \div 2 - 1}
      [] T = <<"int64">>   -> {-Modulus \div 2, Modulus \div 2 - 1}
      [] T = <<"uint64">>  -> {0, Modulus - 1}
      [] T = <<"bool">>    -> BOOLEAN
      [] T = Str           -> {<<>>, <<2 * Base - 1, 0>>}
      [] T = Buffer        -> {[valid |-> FALSE, container |-> <<>>], Wrapped(Inner)}
      [] T = Addr          -> {unix(<<3, 4>>), inet(1, 7), in6(4, <<1, 2>>)}
      [] T = Set(Addr)     -> {{}, {inet(1, 7), inet(2, 7), in6(4, <<1, 2>>)}}
      [] T = Set(Str)      -> {{<<1>>, <<1, 0>>, <<>>}}
      [] T = Vector(Addr)  -> {<<>>, <<inet(2, 7), inet(1, 7), inet(2, 7)>>}
      [] T = Map(Str, Integer)             -> {<<>>, (<<>> :> -1) @@ (<<1>> :> 0)}
      [] T = Vector(Pair(Integer, <<"bool">>)) -> {<<<<-1, TRUE>>, <<3, FALSE>>>>}

Types == {<<"bool">>, Buffer, Set(Str), Map(Str, Integer), Vector(Pair(Integer, <<"bool">>))}

Routes == {<<>>, <<[type |-> LOCALSERVICE, id |-> -3], [type |-> REMOTEADDR, id |-> -Modulus \div 2]>>,
           <<[type |-> OBJECTHANDLER_POLLED, id |-> 70], [type |-> THREAD, id |-> -1]>>,
           <<[type |-> SOCKETROUTE, id |-> 0], [type |-> OBJECTHANDLER_THREADED, id |-> 8]>>,
           <<[type |-> LOCALSERVICE, id |-> 3], [type |-> LISTENER, id |-> 5]>>}

Tails == BoundedSeq({0, Base, 2 * Base - 1}, 2)

\* Every choice of a value for each of the members D.
RECURSIVE Assignments(_, _)
Assignments(members, D) ==
    IF D = {} THEN {<<>>}
    ELSE LET d == CHOOSE x \in D : TRUE
         IN  {(d :> v) @@ f : v \in Values(members[d]), f \in Assignments(members, D \ {d})}

Steps == {[type |-> t, id |-> n] : t \in {LOCALSERVICE, THREAD}, n \in 0 .. 1}
Addresses == {inet(p, a) : p \in 0 .. 1, a \in 0 .. 1} \cup {in6(p, <<0, a>>) : p \in 0 .. 1, a \in 0 .. 1}

Ops == {[is |-> "bits", val |-> 1, n |-> 1], [is |-> "bits", val |-> 5, n |-> ByteBits - 1],
        [is |-> "bits", val |-> 33, n |-> ByteBits + 3],
        [is |-> "LE", val |-> 18, n |-> 2], [is |-> "BE", val |-> 18, n |-> 2], [is |-> "LE", val |-> 4660, n |-> 4],
        [is |-> "BE", val |-> 4660, n |-> 4], [is |-> "PN", val |-> Base ^ (Width - 1) - 1, n |-> 0]}
         \cup {[is |-> "tlv", val |-> v, n |-> 0] :
                  v \in {Base - 1, Base} \cup {(2 * Base) ^ 2 - i : i \in {0, 1}} \cup {(2 * Base) ^ 3 - i : i \in {0, 1}}}
Strings == {[is |-> "PSTR", val |-> <<7, 0, 9>>, n |-> 0], [is |-> "PSTR", val |-> <<>>, n |-> 0]}

HostsDef == (<<"h">> :> <<{5, 7}, {1}>>) @@ (<<"g">> :> <<{}, {3}>>)

\* Lines of a configuration, as their writer thinks of them.
Section(s)   == [is |-> "section", name |-> s]
Entry(k, v)  == [is |-> "entry", name |-> k, val |-> v]
Lines == {Section(<<>>), Section(<<"a">>), Section(<<"a", "_", "b">>), Entry(<<"k">>, <<"1">>),
          Entry(<<"k">>, <<"=", "2">>), Entry(<<"b", "_", "k">>, <<>>),
          [is |-> "comment"], [is |-> "blank"], [is |-> "broken"]}
Threads  == {1, 2}
Scopes == {<<>>, <<[tid |-> 1, push |-> "a"], [tid |-> 2, push |-> "b"]>>,
           <<[tid |-> 1, push |-> "a"], [tid |-> 2, push |-> "a"], [tid |-> 1, push |-> "b"]>>,
           <<[tid |-> 1, push |-> "a"], [tid |-> 1, push |-> "b"], [tid |-> 2, push |-> "b"], [tid |-> 1, push |-> ""]>>}
Envs == {<<>>, <<"a", "_", "k">> :> <<"9">>}

TextsOf(alphabet) == BoundedSeq(alphabet, 3) \cup {<<"-">> \o s : s \in BoundedSeq(alphabet, 3)}
ValueTexts == TextsOf({"2", "5", ",", ";", "|", "."}) \cup {<<"true">>, <<"true", "5">>}
AddrTexts  == {FlattenSeq(fs) : fs \in BoundedSeq({<<"h", ":", "9">>, <<"g", ":", "2", "1">>, <<"NONE">>, <<"INADDR_ANY", ":", "1">>,
                                                   <<"unix@", "h">>, <<",">>, <<" ">>}, 3)}

Init == input = [of |-> "nothing"]

Numbers   == \E n \in Number : input' = [of |-> "number", n |-> n]
EventIn   == \E id \in Ids, r \in Routes :
                \E ms \in Assignments(Class(id).members, DOMAIN Class(id).members) :
                   input' = [of |-> "event", e |-> [id |-> id, route |-> r, members |-> ms]]
ValueIn   == \E T \in Types : \E v \in Values(T) : input' = [of |-> "value", type |-> T, v |-> v]
RoutesIn  == \E a, b, c \in BoundedSeq(Steps, 2) : input' = [of |-> "routes", a |-> a, b |-> b, c |-> c]
AddrsIn   == \E a, b, c \in Addresses : input' = [of |-> "addresses", a |-> a, b |-> b, c |-> c]
BitsIn    == \E n \in 1 .. 3 : \E ops \in [1 .. n -> Ops] : \E s \in {<<>>} \cup {<<x>> : x \in Strings} :
                input' = [of |-> "bits", ops |-> ops \o s]
BytesIn   == \E s \in BoundedSeq(0 .. 2 ^ ByteBits - 1, 3), ii \in {0, 7} : input' = [of |-> "bytes", s |-> s, ii |-> ii]
ConfigIn  == \E n \in 0 .. 4, sc \in Scopes, env \in Envs : \E ls \in [1 .. n -> Lines] :
                input' = [of |-> "config", lines |-> ls, scopes |-> sc, env |-> env]
TextIn    == \/ \E t \in ValueTexts : input' = [of |-> "text", t |-> t]
             \/ \E t \in AddrTexts : input' = [of |-> "addrtext", t |-> t]

Next ==
    /\ input.of = "nothing"
    /\ \/ Numbers \/ EventIn \/ ValueIn \/ RoutesIn \/ AddrsIn
       \/ BitsIn \/ BytesIn \/ ConfigIn \/ TextIn
Spec == Init /\ [][Next]_input
-----------------------------------------------------------------------------
\* A reader finds a valid buffer where the writer had none.
Arrived(T, v) == IF T = Buffer THEN [v EXCEPT !.valid = TRUE] ELSE v

Packable(e)  == ~Class(e.id).noPacked
Readable(e)  == Constructible(e.id) /\ \A i \in DOMAIN e.route : e.route[i].type # LISTENER

\* What packEvent wrote for an event, unpackEvent turns into that event, whatever
\* follows it in the buffer: every class reads its members in the order in which it
\* writes them and in their width, and an event inside an event survives too.
\* It refuses classes nobody registered and routes that hold a listener's address, and
\* leaves the buffer alone once the program is terminating.
\* The numbers underneath, from put_PN$ and get_PN_nothrow, come back one by one, too.
PacketsComeBack ==
    /\ input.of = "number" => \A tail \in Tails : RoundTrip(input.n, tail)
    /\ input.of = "event" =>
          LET e     == input.e
              bytes == packEvent(e)
              read(tail) == unpackEvent(FALSE, bytes.value \o tail)
              E     == Class(e.id)
              same  == [e EXCEPT !.members = [m \in DOMAIN E.members |-> Arrived(E.members[m], e.members[m])]]
          IN  /\ bytes.success = Packable(e)
              /\ bytes.success => \A tail \in {<<>>, <<0>>, <<2 * Base - 1, 1>>} :
                    read(tail) = IF Readable(e) THEN Done(same, tail) ELSE Failure
              /\ bytes.success => unpackEvent(TRUE, bytes.value) = Done(nullptr, bytes.value)
              /\ "eventData" \in DOMAIN e.members /\ e.members.eventData.valid /\ Readable(e) =>
                    getEvent(read(<<>>).value).value = Inner
    /\ input.of = "value" =>
          \A tail \in Tails : Get(input.type, Put(input.type, input.v) \o tail) = Done(Arrived(input.type, input.v), tail)

\* unpackEvent throws on every strict prefix of a packed event: no cut makes another
\* event of it.  get_PN_nothrow fails on every strict prefix of a number.
CutPacketRefused ==
    /\ input.of = "number" => TruncationFails(input.n)
    /\ input.of = "event" =>
          LET bytes == packEvent(input.e).value
          IN  Packable(input.e) => \A k \in 0 .. Len(bytes) - 1 : ~unpackEvent(FALSE, SubSeq(bytes, 1, k)).success

\* The operators < of addresses and of routes, the keys of the sets and maps of the
\* services, are strict total orders that agree with ==.  Not so for AF_UNIX.
OrdersAreStrict ==
    /\ input.of = "addresses" => StrictOrder(AddrLess, AddrEqual, input.a, input.b, input.c)
    /\ input.of = "routes" => StrictOrder(RouteLess, RouteEqual, input.a, input.b, input.c)

RECURSIVE Stream(_), ReadsBack(_, _)
Stream(ops) ==
    IF ops = <<>> THEN Done(<<>>, <<>>)
    ELSE LET before == Stream(Front(ops))
         IN  IF before.success /\ MayWrite(Last(ops), before.value)
             THEN Done(before.value \o Written(Last(ops)), <<>>) ELSE Failure
ReadsBack(ops, bits) ==
    IF ops = <<>> THEN bits = <<>>
    ELSE LET r == ReadBack(Head(ops), bits)
         IN  r.success /\ r.val = Head(ops).val /\ ReadsBack(Tail(ops), r.rest)

\* What an outBitStream let one write and hand out with asString, which wants whole
\* bytes, an inBitStream reads back in the same order, bit for bit, to the end; a
\* string that misses its last byte is refused.  Numbers are below 2^63, lengths below 2^32.
BitsComeBack ==
    input.of = "bits" =>
        LET s == Stream(input.ops)
        IN  s.success /\ Aligned(s.value) =>
               /\ ReadsBack(input.ops, s.value)
               /\ Len(input.ops) = 1 /\ input.ops[1].is \notin {"bits", "tlv"} =>
                     ~ReadBack(input.ops[1], SubSeq(s.value, 1, Len(s.value) - ByteBits)).success

\* Any text with the symbols of t in order, blanks and other characters between them.
Sprinkled(t) == FlattenSeq([i \in DOMAIN t |-> <<Garbage, t[i], Blank>>])

\* Bytes come back from base64, from hex and from URI escapes, which both decoders read:
\* from base64 also when blanks and foreign characters were put between the symbols, and
\* through uriDecode whatever its uninitialized variable held.  Of other texts hex2bin makes
\* a byte of every two characters, and uriDecode keeps escapes that unescapeURL drops.
TextsComeBack ==
    input.of = "bytes" =>
        LET s == input.s
            e == Base64Encode(s)
        IN  /\ Len(e) = 4 * ((Len(s) + 2) \div 3)
            /\ Base64Decode(e) = s /\ Base64Decode(Sprinkled(e)) = s
            /\ hex2bin(bin2hex(s)) = s
            /\ uriDecode(uriEncode(s), input.ii) = s
            /\ unescapeURL(uriEncode(s)) = s
            /\ Len(hex2bin(s)) = (Len(s) + 1) \div 2
            /\ Len(unescapeURL(s)) <= Len(uriDecode(s, input.ii))

LineText(line) ==
    CASE line.is = "section" -> <<" ", "%">> \o line.name
      [] line.is = "entry"   -> line.name \o <<"=">> \o line.val
      [] line.is = "comment" -> <<" ", "#", "k", "=">>
      [] line.is = "blank"   -> <<" ">>
      [] line.is = "broken"  -> <<"k">>
TextOf(lines) == FlattenSeq([i \in DOMAIN lines |-> LineText(lines[i]) \o <<"\r", "\n">>])

\* The pushes and pops of a list, one after the other; "" pops.
Scoped(scopes) ==
    FoldLeft(LAMBDA c, o : IF o.push = "" THEN pop_prefix(c, o.tid) ELSE push_prefix(c, o.tid, <<o.push>>), Empty, scopes)

\* The names a thread has pushed and not popped, as a path.
RECURSIVE Open(_, _)
Open(scopes, tid) ==
    IF scopes = <<>> THEN <<>>
    ELSE LET before == Open(Front(scopes), tid)
             o      == Last(scopes)
         IN  IF o.tid # tid THEN before ELSE IF o.push = "" THEN Front(before) ELSE Append(before, o.push)

\* The section a line stands in.
SectionAt(lines, i) ==
    LET heads == {j \in 1 .. i : lines[j].is = "section"} IN IF heads = {} THEN <<>> ELSE lines[Max(heads)].name

PathOf(names) == FlattenSeq([i \in DOMAIN names |-> IF i = 1 THEN <<names[i]>> ELSE <<"_", names[i]>>])
Under(section, key) == IF section = <<>> THEN key ELSE section \o <<"_">> \o key

\* What a thread that has pushed prefixes reads: the environment if it has the name, else
\* the last value written under the section and key that spell them.
ReadAsWritten ==
    input.of = "config" =>
        LET ls == input.lines
            c  == load_from_buffer(Scoped(input.scopes), TextOf(ls))
            file == [readable |-> TRUE, body |-> TextOf(ls)]
        IN  /\ loadStringMapFromFile(file).m = c.m_container \/ loadStringMapFromFile(file).thrown
            /\ \A tid \in Threads :
               LET path == Under(PathOf(Open(input.scopes, tid)), <<"k">>)
                   at   == {i \in DOMAIN ls : ls[i].is = "entry" /\ Under(SectionAt(ls, i), ls[i].name) = path}
                   bad  == \E i \in DOMAIN ls : ls[i].is = "broken"
               IN  get_string(c, input.env, tid, <<"k">>, <<"0">>) =
                     IF path \in DOMAIN input.env THEN input.env[path]
                     ELSE IF bad \/ at = {} THEN <<"0">> ELSE ls[Max(at)].val

Config(t) == load_from_buffer(Empty, <<"k", "=">> \o t)
Same(Getter(_, _, _, _, _), t, defv) ==
    Getter(Config(t), <<>>, 1, <<"k">>, defv) = Getter(Empty, <<"k">> :> t, 1, <<"k">>, defv)
NoEmptyField(t) == \A i \in DOMAIN resplit(t, AddrSeps) : resplit(t, AddrSeps)[i] # <<>>

\* A value means the same in the environment and in the text, for every type but the set
\* of strings, where ';' separates in the text alone.
SourcesAgree ==
    /\ input.of = "text" =>
          LET t == input.t
          IN  /\ Same(get_string, t, <<>>) /\ Same(get_string2, t, <<>>)
              /\ Same(get_bool, t, FALSE) /\ Same(get_bool2, t, FALSE)
              /\ Same(get_real, t, 0) /\ Same(get_real2, t, 0)
              /\ Same(get_int64_t, t, 0) /\ Same(get_int64_t2, t, 0) /\ Same(get_uint64_t, t, 0)
              /\ Same(get_stringset2, t, <<>>)
              /\ ";" \notin ToSet(t) => Same(get_stringset, t, <<>>)
              /\ "," \notin ToSet(t) => m_initFromLine(Empty, <<",", "k", "=">> \o t) = Config(t)
              /\ LET n == Decimal(DigitsOf(t))
                 IN  get_uint64_t(Config(t), <<>>, 1, <<"k">>, 0) = n <=>
                       n <= LongMax /\ (t = <<>> \/ t[1] # "-" \/ Decimal(DigitsOf(Tail(t))) = 0)
    /\ input.of = "addrtext" =>
          LET t == input.t
              one(c, env) == get_tcpaddr(c, env, 1, <<"k">>, <<>>)
              two(c, env) == get_tcpaddr2(c, env, 1, <<"k">>, <<>>)
          IN  /\ Same(get_tcpaddr, t, <<>>) /\ Same(get_tcpaddr2, t, <<>>)
              /\ IF NoEmptyField(t) THEN one(Config(t), <<>>) = two(Config(t), <<>>)
                 ELSE one(Config(t), <<>>) = {Thrown}

\* A thread reads, under the prefixes it has pushed, the last value written in the section
\* that spells them, whatever other threads pushed; the environment comes first, and one
\* bad line makes load_from_buffer take nothing.  A value means the same in the
\* environment and in the text, but for ';' in get_stringset; get_tcpaddr and get_tcpaddr2
\* agree but for empty fields, which the first refuses; and get_uint64_t gives no number
\* above the largest long.
ConfigAsWritten == ReadAsWritten /\ SourcesAgree
=============================================================================
