------------------------------- MODULE IoBuffer -------------------------------
(***************************************************************************)
(* What outBuffer and inBuffer write and read over packed numbers: beside  *)
(* strings and addresses the routes of events.                             *)
(*                                                                         *)
(* A C++ type is a tuple, as <<"vector", <<"string">>>>.  Put gives the    *)
(* bytes that operator<< appends and Get what operator>> makes of the      *)
(* front of a buffer; an exception is a result without success.            *)
(***************************************************************************)
EXTENDS WireTypes, SequencesExt

(* Routes.  A step of a route is its type and the number it holds.         *)

LOCALSERVICE           == 1
REMOTEADDR             == 2
OBJECTHANDLER_POLLED   == 3
SOCKETROUTE            == 4
OBJECTHANDLER_THREADED == 5
THREAD                 == 6
LISTENER               == 7

\* What a step holds: a SERVICE_id or a thread's number, a SOCKET_id, or an address.
IdType(t) ==
    CASE t \in {LOCALSERVICE, THREAD}     -> <<"int">>
      [] t \in {REMOTEADDR, SOCKETROUTE}  -> <<"int64">>
      [] OTHER                            -> <<"uint64">>

RoutePack(r) == put_PN(r.type) \o put_PN(Widened(IdType(r.type), r.id))

route_pack(c) == put_PN(Len(c)) \o FlattenSeq([i \in DOMAIN c |-> RoutePack(c[i])])

\* "route unpack for listener" is thrown: its number is an address.
AcceptStep(t) == t # LISTENER

\* sz steps; a type that is none of the seven is skipped without its number.
RECURSIVE StepsUnpack(_, _)
StepsUnpack(sz, buf) ==
    IF sz = 0 THEN Done(<<>>, buf)
    ELSE LET t    == get_PN_nothrow(buf)
             type == Narrowed(<<"int">>, t.value)
             id   == get_PN_nothrow(t.rest)
             skip == StepsUnpack(sz - 1, t.rest)
             more == StepsUnpack(sz - 1, id.rest)
         IN  CASE ~t.success \/ ~AcceptStep(type)         -> Failure
               [] t.success /\ type \notin 1 .. LISTENER  -> skip
               [] OTHER -> IF ~id.success \/ ~more.success THEN Failure
                           ELSE Done(<<[type |-> type, id |-> Narrowed(IdType(type), id.value)]>>
                                        \o more.value, more.rest)

route_unpack(buf) ==
    LET sz == get_PN_nothrow(buf) IN IF sz.success THEN StepsUnpack(sz.value, sz.rest) ELSE Failure
=============================================================================
