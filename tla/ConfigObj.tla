------------------------------ MODULE ConfigObj ------------------------------
(***************************************************************************)
(* The configuration: a container filled from a text, prefixes that every  *)
(* thread pushes for itself, and getters that look into the environment,   *)
(* then into the container, and fall back to the caller's default.         *)
(*                                                                         *)
(* A configuration is [m_container, m_prefixes]; every operation holds its *)
(* mutex.  env, the environment, is a function from names to texts.  The   *)
(* mark of an entry as used, which nothing reads, is left out.  Words that *)
(* are compared as a whole ("true", "NONE") are one character.             *)
(***************************************************************************)
EXTENDS TextHelpers, IoBuffer

CONSTANT host2AddrInfo      \* the IPv4 and the IPv6 addresses of every known host

Empty == [m_container |-> <<>>, m_prefixes |-> <<>>]

\* A text with an error changes nothing.
Load(c, buf, delim) ==
    LET r == loadStringMapFromBuffer(buf, delim)
    IN  IF r.thrown THEN c
        ELSE [c EXCEPT !.m_container = r.m @@ @]
load_from_buffer(c, buf) == Load(c, buf, {"\r", "\n"})
m_initFromLine(c, buf)   == Load(c, buf, {","})

PrefixesOf(c, tid) == IF tid \in DOMAIN c.m_prefixes THEN c.m_prefixes[tid] ELSE <<>>

push_prefix(c, tid, p) == [c EXCEPT !.m_prefixes = (tid :> Append(PrefixesOf(c, tid), p)) @@ @]

\* Mutant: the prefix pushed first goes.
pop_front(c, tid) == [c EXCEPT !.m_prefixes = (tid :> Tail(PrefixesOf(c, tid))) @@ @]

pop_prefix(c, tid) == [c EXCEPT !.m_prefixes = (tid :> Front(PrefixesOf(c, tid))) @@ @]

m_getPath(c, tid, name)  == join(<<"_">>, Append(PrefixesOf(c, tid), name))
m_getPath2(c, tid, name) == name
-----------------------------------------------------------------------------
(* Where a value comes from, and what each type makes of its text.         *)

Source(c, env, path) ==
    IF path \in DOMAIN env THEN "env" ELSE IF path \in DOMAIN c.m_container THEN "file" ELSE "default"

\* The value of a getter, with the conversion of a text.
Got(c, env, path, defv, Conv(_)) ==
    CASE Source(c, env, path) = "env"     -> Conv(env[path])
      [] Source(c, env, path) = "file"    -> Conv(c.m_container[path])
      [] Source(c, env, path) = "default" -> defv

Digits == <<"0", "1", "2", "3", "4", "5", "6", "7", "8", "9">>
DigitsOf(s) == SubSeq(s, 1, (SelectInSeq(s \o <<"">>, LAMBDA ch : ch \notin ToSet(Digits))) - 1)
Decimal(s) == FoldLeft(LAMBDA v, ch : 10 * v + SelectInSeq(Digits, LAMBDA d : d = ch) - 1, 0, s)
LongMax == (Modulus \div 2) - 1

\* atol (external): the number at the front, kept inside the range of a long.
atol(s) ==
    LET minus == s # <<>> /\ s[1] = "-"
        n     == Decimal(DigitsOf(IF minus THEN Tail(s) ELSE s))
    IN  IF minus THEN IF n > LongMax + 1 THEN -LongMax - 1 ELSE -n
        ELSE IF n > LongMax THEN LongMax ELSE n

\* strtod (external), for texts with at most one digit behind the point: in tenths.
strtod(s) ==
    LET minus == s # <<>> /\ s[1] = "-"
        t     == IF minus THEN Tail(s) ELSE s
        int   == DigitsOf(t)
        frac  == DigitsOf(SubSeq(t, Len(int) + 2, Len(t)))
        point == Len(t) > Len(int) /\ t[Len(int) + 1] = "."
        n     == 10 * Decimal(int) + (IF point /\ frac # <<>> THEN Decimal(<<frac[1]>>) ELSE 0)
    IN  IF minus THEN -n ELSE n

Text(s)     == s
IsTrue(s)   == s = <<"true">>
Unsigned(s) == atol(s) % Modulus

get_string(c, env, tid, name, defv)    == Got(c, env, m_getPath(c, tid, name), defv, Text)
get_string2(c, env, tid, name, defv)   == Got(c, env, m_getPath2(c, tid, name), defv, Text)
get_real(c, env, tid, name, defv)      == Got(c, env, m_getPath(c, tid, name), defv, strtod)
get_real2(c, env, tid, name, defv)     == Got(c, env, m_getPath2(c, tid, name), defv, strtod)
get_bool(c, env, tid, name, defv)      == Got(c, env, m_getPath(c, tid, name), defv, IsTrue)
get_bool2(c, env, tid, name, defv)     == Got(c, env, m_getPath2(c, tid, name), defv, IsTrue)
get_int64_t(c, env, tid, name, defv)   == Got(c, env, m_getPath(c, tid, name), defv, atol)
get_int64_t2(c, env, tid, name, defv)  == Got(c, env, m_getPath2(c, tid, name), defv, atol)
get_uint64_t(c, env, tid, name, defv)  == Got(c, env, m_getPath(c, tid, name), defv, Unsigned)

\* ';' separates in the container, but not in the environment or in a default.
get_stringset(c, env, tid, name, defv) ==
    LET path == m_getPath(c, tid, name)
        seps == IF Source(c, env, path) = "file" THEN {",", "|", ";"} ELSE {",", "|"}
    IN  splitStringSET(seps, Got(c, env, path, defv, Text))

\* Here it does in the environment too.
get_stringset2(c, env, tid, name, defv) ==
    LET path == m_getPath2(c, tid, name)
        seps == IF Source(c, env, path) = "default" THEN {",", "|"} ELSE {",", "|", ";"}
    IN  splitStringSET(seps, Got(c, env, path, defv, Text))
-----------------------------------------------------------------------------
(* Addresses; Thrown stands for an exception.                              *)

Thrown == [family |-> 0, port |-> 0, addr |-> <<>>]

\* The first address of a host, IPv4 before IPv6.
InitHost(host, port) ==
    LET p == Swap(port % ShortModulus)
        z == IF host \in DOMAIN host2AddrInfo THEN host2AddrInfo[host] ELSE <<{}, {}>>
    IN  CASE host = <<"INADDR_ANY">>      -> [family |-> AF_INET, port |-> p, addr |-> <<0>>]
          [] host = <<"INADDR6_ANY">>     -> [family |-> AF_INET6, port |-> p, addr |-> <<0, 0>>]
          [] OTHER -> IF z[1] # {} THEN [family |-> AF_INET, port |-> p, addr |-> <<Min(z[1])>>]
                      ELSE IF z[2] # {} THEN [family |-> AF_INET6, port |-> p, addr |-> <<0, Min(z[2])>>]
                      ELSE Thrown

InitText(s) ==
    LET pz == SelectInSeq(s, LAMBDA ch : ch = ":")
    IN  IF s # <<>> /\ s[1] = "unix@" THEN [family |-> AF_UNIX, port |-> 0, addr |-> Tail(s)]
        ELSE IF pz # 0 THEN InitHost(SubSeq(s, 1, pz - 1), atol(SubSeq(s, pz + 1, Len(s))))
        ELSE Thrown

Addrs(vz) ==
    LET ret == {InitText(vz[i]) : i \in {j \in DOMAIN vz : vz[j] # <<"NONE">>}}
    IN  IF Thrown \in ret THEN {Thrown} ELSE ret

AddrSeps == {";", ",", " "}

\* Empty fields are addresses here, and make it throw.
get_tcpaddr(c, env, tid, name, defv) ==
    Addrs(resplit(Got(c, env, m_getPath(c, tid, name), defv, Text), AddrSeps))

get_tcpaddr2(c, env, tid, name, defv) ==
    Addrs(splitString(AddrSeps, Got(c, env, m_getPath2(c, tid, name), defv, Text)))
=============================================================================
