------------------------------ MODULE EventCodec ------------------------------
(***************************************************************************)
(* The containers of ioBuffer.h, the events that travel between processes  *)
(* with the order in which pack() writes and unpack() reads their members, *)
(* and CUtils::packEvent and unpackEvent.                                  *)
(***************************************************************************)
EXTENDS IoBuffer

CONSTANTS event_constructors,    \* ids of the events with a registered constructor
          pluginInfo_events      \* ids of those that a plugin on disk registers

Str      == <<"string">>
Integer  == <<"int">>
Addr     == <<"addr">>
Buffer   == <<"refbuffer">>
Set(T)   == <<"set", T>>
Vector(T) == <<"vector", T>>      \* also std::list and std::deque
Map(T, U) == <<"map", T, U>>
Pair(T, U) == <<"pair", T, U>>

\* The order in which a std::set or std::map of the type is walked.
LessOf(T, a, b) ==
    CASE T = Addr -> AddrLess(a, b)
      [] T = Str  -> LexLess(a, b)
      [] OTHER    -> a < b

InOrder(T, S) == SetToSortSeq(S, LAMBDA a, b : LessOf(T, a, b))

Scalar(T) == T \in Arithmetic \cup {Str, Buffer, Addr}

PutScalar(T, v) ==
    CASE T \in Arithmetic -> put_PN(Widened(T, v))
      [] T = Str          -> put_PSTR(v)
      [] T = Buffer       -> put_PSTR(IF v.valid THEN v.container ELSE <<>>)
      [] T = Addr         -> AddrPack(v)

\* The elements of a container in the order they are written in, with their types.
Elements(T, v) ==
    CASE T[1] = "vector" -> [i \in DOMAIN v |-> <<T[2], v[i]>>]
      [] T[1] = "set"    -> LET s == InOrder(T[2], v) IN [i \in DOMAIN s |-> <<T[2], s[i]>>]
      [] T[1] = "map"    -> LET keys == InOrder(T[2], DOMAIN v)
                            IN  [i \in DOMAIN keys |-> <<Pair(T[2], T[3]), <<keys[i], v[keys[i]]>>>>]
      [] T[1] = "pair"   -> <<<<T[2], v[1]>>, <<T[3], v[2]>>>>

RECURSIVE Put(_, _)
Put(T, v) ==
    IF Scalar(T) THEN PutScalar(T, v)
    ELSE LET es == Elements(T, v)
         IN  (IF T[1] = "pair" THEN <<>> ELSE put_PN(Len(es)))
                \o FlattenSeq([i \in DOMAIN es |-> Put(es[i][1], es[i][2])])

\* Mutant: the count of a container is not checked against what has arrived.
StopAtEnd(n, buf) == IF buf = <<>> THEN 0 ELSE n

Count(n, buf) == Narrowed(<<"uint">>, n)

\* insert() of pairs one after the other: the first one of a key stays.
AsMap(pairs) ==
    [k \in {pairs[i][1] : i \in DOMAIN pairs} |->
        pairs[Min({i \in DOMAIN pairs : pairs[i][1] = k})][2]]

\* What follows a read that may have thrown.
Then(r, Op(_)) == IF r.success THEN Op(r) ELSE Failure
As(r, Op(_))   == Then(r, LAMBDA x : Done(Op(x.value), x.rest))

GetScalar(T, buf) ==
    CASE T \in Arithmetic -> As(get_PN_nothrow(buf), LAMBDA x : Narrowed(T, x))
      [] T = Str          -> get_PSTR(buf)
      [] T = Buffer       -> As(get_PSTR(buf), LAMBDA x : [valid |-> TRUE, container |-> x])
      [] T = Addr         -> AddrUnpack(buf)

ElementTypes(T, n) ==
    CASE T[1] = "pair" -> <<T[2], T[3]>>
      [] T[1] = "map"  -> [i \in 1 .. n |-> Pair(T[2], T[3])]
      [] OTHER         -> [i \in 1 .. n |-> T[2]]

\* The container of the elements that have been read.
Container(T, xs) ==
    CASE T[1] = "set" -> Range(xs)
      [] T[1] = "map" -> AsMap(xs)
      [] OTHER        -> xs

\* Values of the types one after the other.
RECURSIVE GetAll(_, _)
GetAll(Ts, buf) ==
    LET T     == Head(Ts)
        count == IF T[1] = "pair" THEN Done(2, buf) ELSE get_PN_nothrow(buf)
        first == IF Scalar(T) THEN GetScalar(T, buf)
                 ELSE Then(count, LAMBDA n : As(GetAll(ElementTypes(T, Count(n.value, n.rest)), n.rest),
                                                LAMBDA xs : Container(T, xs)))
    IN  IF Ts = <<>> THEN Done(<<>>, buf)
        ELSE Then(first, LAMBDA h : As(GetAll(Tail(Ts), h.rest), LAMBDA t : <<h.value>> \o t))

Get(T, buf) == As(GetAll(<<T>>, buf), LAMBDA xs : xs[1])
-----------------------------------------------------------------------------
(* The events: the types of their members, and the order of each direction. *)

Event(members, packed, unpacked) ==
    [noPacked |-> FALSE, members |-> members, pack |-> packed, unpack |-> unpacked]

NoMembers == Event(<<>>, <<>>, <<>>)

\* Event::NoPacked: both directions throw.
NoPacked == [NoMembers EXCEPT !.noPacked = TRUE]

Ping == Event(
    [pingType |-> Integer, globalCookieOfSender |-> Str, externalListenPort |-> <<"ushort">>,
     internalListenAddr |-> Set(Addr), ping_time |-> <<"int64">>,
     connection_sequence_id |-> Integer, clientType |-> Integer],
    <<"pingType", "globalCookieOfSender", "externalListenPort", "internalListenAddr",
      "ping_time", "connection_sequence_id", "clientType">>,
    <<"pingType", "globalCookieOfSender", "externalListenPort", "internalListenAddr",
      "ping_time", "connection_sequence_id", "clientType">>)

\* Mutant: two members of one width change places on the way in.
PongSwapped == Event(
    [pingType |-> Integer, visible_name_of_pinger |-> Addr, globalCookieOfResponder |-> Str,
     nodeLevelInHierarhy |-> Integer, ping_time |-> <<"int64">>, connection_sequence_id |-> Integer],
    <<"pingType", "visible_name_of_pinger", "globalCookieOfResponder",
      "nodeLevelInHierarhy", "ping_time", "connection_sequence_id">>,
    <<"pingType", "visible_name_of_pinger", "globalCookieOfResponder",
      "connection_sequence_id", "ping_time", "nodeLevelInHierarhy">>)

Pong == Event(
    [pingType |-> Integer, visible_name_of_pinger |-> Addr, globalCookieOfResponder |-> Str,
     nodeLevelInHierarhy |-> Integer, ping_time |-> <<"int64">>, connection_sequence_id |-> Integer],
    <<"pingType", "visible_name_of_pinger", "globalCookieOfResponder",
      "nodeLevelInHierarhy", "ping_time", "connection_sequence_id">>,
    <<"pingType", "visible_name_of_pinger", "globalCookieOfResponder",
      "nodeLevelInHierarhy", "ping_time", "connection_sequence_id">>)

ToplinkDeliverREQ == Event(
    [destinationService |-> Integer, eventData |-> Buffer, uuid |-> Set(Str)],
    <<"destinationService", "eventData", "uuid">>, <<"destinationService", "eventData", "uuid">>)

ToplinkDeliverRSP == Event([eventData |-> Buffer], <<"eventData">>, <<"eventData">>)

UpdateConfigREQ == Event([bod |-> Str], <<"bod">>, <<"bod">>)

UpdateConfigRSP == Event([bod |-> Str], <<"bod">>, <<"bod">>)

SubscribeNotifications == NoMembers

RegisterMyRefferrerNodeREQ == Event(
    [externalListenAddr |-> Set(Addr), uplink |-> Addr, downlinkCount |-> Integer],
    <<"externalListenAddr", "uplink", "downlinkCount">>,
    <<"externalListenAddr", "uplink", "downlinkCount">>)

RegisterCloudRoot == Event(
    [externalListenAddr |-> Set(Addr), uplink |-> Addr],
    <<"externalListenAddr", "uplink">>, <<"externalListenAddr", "uplink">>)

GetReferrersREQ == Event(
    [externalListenAddr |-> Set(Addr)], <<"externalListenAddr">>, <<"externalListenAddr">>)

GetReferrersRSP == Event(
    [referrer_addresses |-> Vector(Addr)], <<"referrer_addresses">>, <<"referrer_addresses">>)

GetCloudRootsREQ == Event(
    [externalListenAddr |-> Set(Addr)], <<"externalListenAddr">>, <<"externalListenAddr">>)

GetCloudRootsRSP == Event(
    [referrer_addresses |-> Vector(Addr)], <<"referrer_addresses">>, <<"referrer_addresses">>)

ErrorRSP == Event([errcode |-> Integer, errText |-> Str], <<"errcode", "errText">>, <<"errcode", "errText">>)

GetBindPortsRSP == Event([listenAddrs |-> Set(Addr)], <<"listenAddrs">>, <<"listenAddrs">>)

JsonREQ == Event([action |-> Str, json |-> Str, binData |-> Str],
    <<"action", "json", "binData">>, <<"action", "json", "binData">>)

JsonRSP == Event([errcode |-> Integer, action |-> Str, json |-> Str, binData |-> Str],
    <<"errcode", "action", "json", "binData">>, <<"errcode", "action", "json", "binData">>)

Subscribe        == NoMembers
Unsubscribe      == NoMembers
GetBindPortsREQ  == NoMembers
SendMessage      == Event([opcode |-> Str, msg |-> Str], <<"opcode", "msg">>, <<"opcode", "msg">>)
NotifySubscriber == Event([opcode |-> Str, msg |-> Str], <<"opcode", "msg">>, <<"opcode", "msg">>)
LogMessage       == Event([opcode |-> Str, msg |-> Str], <<"opcode", "msg">>, <<"opcode", "msg">>)

\* An event's id, which is an int of either sign, is here its place less 12; all the NoPacked
\* classes share one place.
Events == <<
    Ping, Pong, ToplinkDeliverREQ, ToplinkDeliverRSP, SubscribeNotifications, UpdateConfigREQ,
    UpdateConfigRSP, RegisterMyRefferrerNodeREQ, RegisterCloudRoot, GetReferrersREQ,
    GetReferrersRSP, GetCloudRootsREQ, GetCloudRootsRSP, ErrorRSP, GetBindPortsREQ,
    GetBindPortsRSP, JsonREQ, JsonRSP, Subscribe, Unsubscribe, SendMessage, NotifySubscriber,
    LogMessage, NoPacked>>
Ids       == {i - 12 : i \in DOMAIN Events}
Class(id) == Events[id + 12]
-----------------------------------------------------------------------------
(* packEvent and unpackEvent.  An event is its id, route and members.      *)

packEvent(e) ==
    LET E == Class(e.id)
    IN  IF E.noPacked THEN Failure
        ELSE Done(put_PN(Widened(Integer, e.id)) \o route_pack(e.route)
                     \o FlattenSeq([i \in DOMAIN E.pack |-> Put(E.members[E.pack[i]], e.members[E.pack[i]])]),
                  <<>>)

\* The constructor is looked up, then the plugins, then the constructor again.
Constructible(id) == id \in event_constructors \cup pluginInfo_events

\* e->unpack(b)
Members(E, buf) ==
    IF E.noPacked THEN Failure
    ELSE As(GetAll([i \in DOMAIN E.unpack |-> E.members[E.unpack[i]]], buf),
            LAMBDA xs : [m \in Range(E.unpack) |-> xs[CHOOSE i \in DOMAIN E.unpack : E.unpack[i] = m]])

nullptr == [id |-> "none", route |-> <<>>, members |-> <<>>]

\* The event at the front of the buffer; none is read once the program is terminating.
unpackEvent(m_isTerminating, buf) ==
    IF m_isTerminating THEN Done(nullptr, buf)
    ELSE
    Then(GetScalar(Integer, buf), LAMBDA id :
        Then(route_unpack(id.rest), LAMBDA r :
            IF ~Constructible(id.value) THEN Failure
            ELSE As(Members(Class(id.value), r.rest), LAMBDA ms :
                       [id |-> id.value, route |-> r.value, members |-> ms])))

\* ToplinkDeliverREQ and ToplinkDeliverRSP carry another event, packed.
Wrapped(e)  == [valid |-> TRUE, container |-> packEvent(e).value]
getEvent(e) == unpackEvent(FALSE, e.members.eventData.container)
=============================================================================
