------------------------------ MODULE WireTypes ------------------------------
(***************************************************************************)
(* What travels between processes in packed numbers: the arithmetic types  *)
(* in their widths, strings and socket addresses; and the orders of        *)
(* addresses and of routes, which are keys of the services' maps.          *)
(***************************************************************************)
EXTENDS PackedNumber, Integers

CONSTANTS Half       \* values of half a port or half an address (2^8, 2^16)

ASSUME HalfAssumption == Half \in Nat \ {0}

Done(v, rest) == [success |-> TRUE, value |-> v, rest |-> rest]
-----------------------------------------------------------------------------
(* Numbers and strings.                                                    *)

ShortModulus == Half * Half               \* 2^16
IntModulus   == 2 * Half * Half           \* 2^32

Signed(n, m) == IF n % m >= m \div 2 THEN (n % m) - m ELSE n % m

\* The assignment of an unsigned 64-bit number to a variable of the type.
Narrowed(T, n) ==
    CASE T = <<"ushort">> -> n % ShortModulus
      [] T = <<"uint">>   -> n % IntModulus
      [] T = <<"int">>    -> Signed(n, IntModulus)
      [] T = <<"int64">>  -> Signed(n, Modulus)
      [] T = <<"uint64">> -> n
      [] T = <<"bool">>   -> n # 0

Arithmetic == {<<"ushort">>, <<"uint">>, <<"int">>, <<"int64">>, <<"uint64">>, <<"bool">>}

\* The conversion of the argument to the uint64_t of put_PN.
Widened(T, v) == IF T = <<"bool">> THEN IF v THEN 1 ELSE 0 ELSE v % Modulus

put_PSTR(s) == put_PN(Len(s)) \o s

\* unpack(string, size): the bytes must be there.
unpack(buf, size) ==
    IF size > Len(buf) THEN Failure
    ELSE Done(SubSeq(buf, 1, size), SubSeq(buf, size + 1, Len(buf)))

get_PSTR(buf) ==
    LET sz == get_PN_nothrow(buf) IN IF sz.success THEN unpack(sz.rest, sz.value) ELSE Failure
-----------------------------------------------------------------------------
(* Socket addresses.  Port and IPv4 address are stored in network order    *)
(* and travel in host order; an IPv6 address travels as text.              *)

AF_UNIX  == 1
AF_INET  == 2
AF_INET6 == 10

\* ntohs, htons, ntohl and htonl: each is its own inverse.
Swap(n) == (n % Half) * Half + (n \div Half)

\* inet_ntop and inet_pton (external): some text that no other address has.
Ntop(a) == <<Base - 1>> \o a
Pton(s) == Tail(s)

AddrPack(a) ==
    CASE a.family = AF_UNIX  -> put_PN(AF_UNIX) \o put_PSTR(a.addr)
      [] a.family = AF_INET  -> put_PN(AF_INET) \o put_PN(Swap(a.port)) \o put_PN(Swap(a.addr[1]))
      [] a.family = AF_INET6 -> put_PN(AF_INET6) \o put_PN(Swap(a.port)) \o put_PSTR(Ntop(a.addr))

PortRead(n) == Swap(n % ShortModulus)

AddrUnpack(buf) ==
    LET fam  == get_PN_nothrow(buf)
        is   == fam.value % (2 * Base)          \* a uint8_t
        port == get_PN_nothrow(fam.rest)
        addr == get_PN_nothrow(port.rest)
        text == get_PSTR(port.rest)
        path == get_PSTR(fam.rest)
    IN  CASE fam.success /\ is = AF_UNIX /\ path.success ->
                Done([family |-> is, port |-> 0, addr |-> path.value], path.rest)
          [] fam.success /\ is = AF_INET /\ port.success /\ addr.success ->
                Done([family |-> is, port |-> PortRead(port.value),
                      addr |-> <<Swap(addr.value % ShortModulus)>>], addr.rest)
          [] fam.success /\ is = AF_INET6 /\ port.success /\ text.success ->
                Done([family |-> is, port |-> PortRead(port.value), addr |-> Pton(text.value)],
                     text.rest)
          [] OTHER -> Failure

\* The first place where two sequences differ decides, then their lengths.
LexLess(s, t) ==
    \/ Len(s) < Len(t) /\ \A i \in DOMAIN s : s[i] = t[i]
    \/ \E i \in DOMAIN s \cap DOMAIN t :
          s[i] < t[i] /\ \A j \in 1 .. i - 1 : s[j] = t[j]

\* Mutant: the port is compared although the addresses decide the other way.
InetLessAnyPort(a, b) == LexLess(a.addr, b.addr) \/ a.port < b.port

InetLess(a, b) == LexLess(a.addr, b.addr) \/ (a.addr = b.addr /\ a.port < b.port)

\* operator<.  For AF_UNIX it is true of any two different paths.
AddrLess(a, b) ==
    \/ a.family < b.family
    \/ /\ a.family = b.family
       /\ IF a.family = AF_UNIX THEN a.addr # b.addr ELSE InetLess(a, b)

AddrEqual(a, b) ==
    /\ a.family = b.family /\ a.addr = b.addr
    /\ (a.family # AF_UNIX => a.port = b.port)
-----------------------------------------------------------------------------
(* The order of routes.  A step of a route is its type and the number it   *)
(* holds.                                                                  *)

StepLess(r, s) == r.type < s.type \/ (r.type = s.type /\ r.id < s.id)

\* operator< of two routes, *this first: the longer one is the smaller, and
\* among those of one length the greater one.
RouteLess(c, d) ==
    \/ Len(d) < Len(c)
    \/ /\ Len(c) = Len(d)
       /\ \E i \in DOMAIN c : StepLess(d[i], c[i]) /\ \A j \in 1 .. i - 1 : c[j] = d[j]

RouteEqual(c, d) == Len(c) = Len(d) /\ \A i \in DOMAIN c : c[i].type = d[i].type /\ c[i].id = d[i].id
-----------------------------------------------------------------------------
(* What a key of a map must have.                                          *)

StrictOrder(Less(_, _), Equal(_, _), a, b, c) ==
    /\ ~Less(a, a)
    /\ ~(Less(a, b) /\ Less(b, a))
    /\ Less(a, b) /\ Less(b, c) => Less(a, c)
    /\ Equal(a, b) <=> ~Less(a, b) /\ ~Less(b, a)
=============================================================================
