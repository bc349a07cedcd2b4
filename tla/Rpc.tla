---------------------------------- MODULE Rpc ----------------------------------
(***************************************************************************)
(* The sessions of the RPC service.  RPC is a ListenerSimple: its handlers *)
(* run on the threads that send it events - services that call             *)
(* sendEvent(address, ...) (on_SendPacket) or answer along a route         *)
(* (on_PassPacket), and the workers of SocketIO - with one lock per        *)
(* container and none around a handler.  A step is one locked access, one  *)
(* access of Session::esi, or one event given to Oscar.                    *)
(*                                                                         *)
(* One remote address and one accepted socket are modelled; what happens   *)
(* to two addresses or two sockets is independent.                         *)
(***************************************************************************)
EXTENDS Naturals, Sequences, FiniteSets, Functions

CONSTANTS Senders,   \* threads that send packets to the remote address
          Passers,   \* threads that send replies to the accepted socket
          Workers,   \* threads of SocketIO
          MaxSend,   \* bound: packets sent or passed by one thread
          MaxTotal,  \* bound: packets sent and passed by all of them
          Lossy,     \* connections may fail and end
          None, Acc  \* no session; the session of the accepted socket

ASSUME BoundsAssumption == {MaxSend, MaxTotal} \subseteq Nat \ {0} /\ Lossy \in BOOLEAN
ASSUME ThreadsAssumption == (Senders \cup Passers) \cap Workers = {}

Threads  == Senders \cup Passers \cup Workers
Requests == Senders \X (1 .. MaxSend)
Packets  == (Senders \cup Passers) \X (1 .. MaxSend)
Sessions == Requests \cup {Acc}    \* a session is named for the packet it was created for

VARIABLES
    sa2sess, sock2sess,   \* the session of the address, of the accepted socket, or None
    esi,                  \* the socket of a session, or None
    outCache, passCache,
    conn,                 \* external: the connection asked for with a session's socket id
    accLog,               \* external: Accepted and Disaccepted as they are passed
    bound,                \* external: NotifyBindAddress has been passed
    pc, cur, todo, d, rest, on, sends,   \* the threads: label, session S, packets to be added,
                                         \* deque being flushed, sessions flushAll() has left,
                                         \* socket of the event, packets sent
    given,                \* history: SendPacket events given to Oscar, with their socket
    late, orphans         \* history: packets cached behind the last flush; sessions that
                          \* insert() did not put in the map

maps   == <<sa2sess, sock2sess>>
net    == <<conn, accLog, bound>>
hist   == <<late, orphans>>
vars   == <<sa2sess, sock2sess, esi, outCache, passCache, conn, accLog, bound, pc, cur, todo, d, rest,
            on, sends, given, late, orphans>>

Init ==
    /\ sa2sess = None /\ sock2sess = None
    /\ esi = [s \in Sessions |-> IF s = Acc THEN Acc ELSE None]
    /\ outCache = [s \in Sessions |-> <<>>] /\ passCache = <<>>
    /\ conn = [s \in Requests |-> "no"] /\ accLog = <<>> /\ bound = FALSE
    /\ pc = [t \in Threads |-> "idle"] /\ cur = [t \in Threads |-> None]
    /\ todo = [t \in Threads |-> <<>>] /\ d = [t \in Threads |-> <<>>]
    /\ rest = [t \in Threads |-> {}] /\ on = [t \in Threads |-> None]
    /\ sends = [t \in Senders \cup Passers |-> 0]
    /\ given = <<>> /\ late = {} /\ orphans = {}

Goto(t, l) == pc' = [pc EXCEPT ![t] = l]
At(t, l)   == pc[t] = l
Set(f, t, v) == [f EXCEPT ![t] = v]

\* What a thread does when a packet, or a flush, is done with.
Done(t) ==
    /\ Goto(t, IF todo'[t] # <<>> THEN "add" ELSE IF rest[t] # {} THEN "flushNext" ELSE "idle")
    /\ on' = IF todo'[t] = <<>> /\ rest[t] = {} THEN Set(on, t, None) ELSE on
-----------------------------------------------------------------------------
(* on_SendPacket()                                                         *)

SendPacket(t) ==
    /\ At(t, "idle") /\ sends[t] < MaxSend /\ SumFunction(sends) < MaxTotal
    /\ sends' = Set(sends, t, sends[t] + 1)
    /\ todo' = Set(todo, t, <<<<t, sends[t] + 1>>>>)
    /\ cur' = Set(cur, t, sa2sess)
    /\ Goto(t, IF sa2sess = None THEN "create" ELSE "add")
    /\ UNCHANGED <<maps, esi, outCache, passCache, net, d, rest, on, given, hist>>

\* std::map::insert
InsertIfAbsent(s) == IF sa2sess = None THEN s ELSE sa2sess

CreateSession(t) ==
    /\ At(t, "create")
    /\ LET s == Head(todo[t]) IN
       /\ cur' = Set(cur, t, s)
       /\ sa2sess' = InsertIfAbsent(s)
       /\ orphans' = IF sa2sess # None THEN orphans \cup {s} ELSE orphans
    /\ Goto(t, "connect")
    /\ UNCHANGED <<sock2sess, esi, outCache, passCache, net, todo, d, rest, on, sends, given, late>>

AskConnect(t) ==
    /\ At(t, "connect")
    /\ conn' = Set(conn, cur[t], "connecting")
    /\ Goto(t, "add")
    /\ UNCHANGED <<maps, esi, outCache, passCache, accLog, bound, cur, todo, d, rest, on, sends, given, hist>>
-----------------------------------------------------------------------------
(* on_PassPacket()                                                         *)

PassPacket(t) ==
    /\ At(t, "idle") /\ sends[t] < MaxSend /\ SumFunction(sends) < MaxTotal
    /\ sends' = Set(sends, t, sends[t] + 1)
    /\ todo' = Set(todo, t, <<<<t, sends[t] + 1>>>>)
    /\ cur' = Set(cur, t, sock2sess)
    /\ Goto(t, IF sock2sess = None THEN "pass" ELSE "add")
    /\ UNCHANGED <<maps, esi, outCache, passCache, net, d, rest, on, given, hist>>

CachePass(t) ==
    /\ At(t, "pass")
    /\ passCache' = Append(passCache, Head(todo[t]))
    /\ late' = IF "Accepted" \in Range(accLog) THEN late \cup Range(todo[t]) ELSE late
    /\ todo' = Set(todo, t, <<>>)
    /\ Done(t)
    /\ UNCHANGED <<maps, esi, outCache, net, cur, d, rest, sends, given, orphans>>
-----------------------------------------------------------------------------
(* addSendPacket() and flushOutCache()                                     *)

AddSendPacket(t) ==
    /\ At(t, "add")
    /\ Goto(t, IF esi[cur[t]] = None THEN "cache" ELSE "flush")
    /\ UNCHANGED <<maps, esi, outCache, passCache, net, cur, todo, d, rest, on, sends, given, hist>>

Cache(t) ==
    /\ At(t, "cache")
    /\ outCache' = Set(outCache, cur[t], Append(outCache[cur[t]], Head(todo[t])))
    /\ late' = IF esi[cur[t]] # None THEN late \cup {Head(todo[t])} ELSE late
    /\ todo' = Set(todo, t, Tail(todo[t]))
    /\ Done(t)
    /\ UNCHANGED <<maps, esi, passCache, net, cur, d, rest, sends, given, orphans>>

FlushOutCache(t) ==
    /\ At(t, "flush")
    /\ d' = Set(d, t, outCache[cur[t]])
    /\ outCache' = Set(outCache, cur[t], <<>>)
    /\ Goto(t, "give")
    /\ UNCHANGED <<maps, esi, passCache, net, cur, todo, rest, on, sends, given, hist>>

\* The packets of the deque, then the packet itself if there is one.
Give(t) ==
    /\ At(t, "give")
    /\ IF d[t] # <<>>
       THEN /\ given' = Append(given, <<Head(d[t]), esi[cur[t]]>>)
            /\ d' = Set(d, t, Tail(d[t]))
            /\ UNCHANGED <<todo, pc, on>>
       ELSE /\ given' = IF todo[t] = <<>> THEN given ELSE Append(given, <<Head(todo[t]), esi[cur[t]]>>)
            /\ todo' = IF todo[t] = <<>> THEN todo ELSE Set(todo, t, Tail(todo[t]))
            /\ UNCHANGED d
            /\ Done(t)
    /\ UNCHANGED <<maps, esi, outCache, passCache, net, cur, rest, sends, hist>>

Adding(t) == AddSendPacket(t) \/ Cache(t) \/ FlushOutCache(t) \/ Give(t)
-----------------------------------------------------------------------------
(* What the workers of SocketIO pass up.                                   *)

Free(w, p) == At(w, "idle") /\ \A v \in Workers : on[v] # p

\* on_Connected(): throws when the address has no session any more.
OnConnected(w, p) ==
    /\ Free(w, p) /\ conn[p] = "connecting"
    /\ conn' = Set(conn, p, "up")
    /\ IF sa2sess = None
       THEN UNCHANGED <<cur, on, pc>>
       ELSE cur' = Set(cur, w, sa2sess) /\ on' = Set(on, w, p) /\ Goto(w, "setEsi")
    /\ UNCHANGED <<maps, esi, outCache, passCache, accLog, bound, todo, d, rest, sends, given, hist>>

\* Mutant: on_Connected() does not flush.
SetEsiOnly(w) ==
    /\ At(w, "setEsi")
    /\ esi' = Set(esi, cur[w], on[w])
    /\ on' = Set(on, w, None) /\ Goto(w, "idle")
    /\ UNCHANGED <<maps, outCache, passCache, net, cur, todo, d, rest, sends, given, hist>>

SetEsi(w) ==
    /\ At(w, "setEsi")
    /\ esi' = Set(esi, cur[w], on[w])
    /\ Goto(w, "flush")
    /\ UNCHANGED <<maps, outCache, passCache, net, cur, todo, d, rest, on, sends, given, hist>>

\* on_ConnectFailed() and on_Disconnected(), between the event and the erase.
ConnectionEnds(w, p) ==
    /\ Lossy /\ Free(w, p) /\ conn[p] \in {"connecting", "up"}
    /\ conn' = Set(conn, p, "down")
    /\ on' = Set(on, w, p) /\ Goto(w, "erase")
    /\ UNCHANGED <<maps, esi, outCache, passCache, accLog, bound, cur, todo, d, rest, sends, given, hist>>

EraseAddr(w) ==
    /\ At(w, "erase")
    /\ sa2sess' = None
    /\ on' = Set(on, w, None) /\ Goto(w, "idle")
    /\ UNCHANGED <<sock2sess, esi, outCache, passCache, net, cur, todo, d, rest, sends, given, hist>>

\* Mutant: on_Accepted() does not look for cached replies.
OnAcceptedOnly(w) ==
    /\ Passers # {} /\ At(w, "idle") /\ "Accepted" \notin Range(accLog)
    /\ accLog' = Append(accLog, "Accepted")
    /\ sock2sess' = Acc
    /\ UNCHANGED <<sa2sess, esi, outCache, passCache, conn, bound, pc, cur, todo, d, rest, on, sends, given, hist>>

\* on_Accepted(): the session first, then what was cached for it.
OnAccepted(w) ==
    /\ Passers # {} /\ At(w, "idle") /\ "Accepted" \notin Range(accLog)
    /\ accLog' = Append(accLog, "Accepted")
    /\ sock2sess' = Acc
    /\ cur' = Set(cur, w, Acc) /\ Goto(w, "drain")
    /\ UNCHANGED <<sa2sess, esi, outCache, passCache, conn, bound, todo, d, rest, on, sends, given, hist>>

\* Mutant: the cached packets are erased without being moved out first.
DrainNothing == <<>>

PassCached == passCache

DrainPassCache(w) ==
    /\ At(w, "drain")
    /\ todo' = Set(todo, w, PassCached)
    /\ passCache' = <<>>
    /\ Done(w)
    /\ UNCHANGED <<maps, esi, outCache, net, cur, d, rest, sends, given, hist>>

\* on_Disaccepted(): the worker that owns the socket may be ahead of the accepting one.
OnDisaccepted(w) ==
    /\ Lossy /\ Passers # {} /\ At(w, "idle") /\ "Disaccepted" \notin Range(accLog)
    /\ accLog' = Append(accLog, "Disaccepted")
    /\ Goto(w, "eraseSock")
    /\ UNCHANGED <<maps, esi, outCache, passCache, conn, bound, cur, todo, d, rest, on, sends, given, hist>>

EraseSock(w) ==
    /\ At(w, "eraseSock")
    /\ sock2sess' = None
    /\ Goto(w, "idle")
    /\ UNCHANGED <<sa2sess, esi, outCache, passCache, net, cur, todo, d, rest, on, sends, given, hist>>

\* on_NotifyBindAddress(): flushAll(), one map after the other, one session after the other.
OnNotifyBindAddress(w) ==
    /\ At(w, "idle") /\ ~bound
    /\ bound' = TRUE
    /\ rest' = Set(rest, w, {sock2sess} \ {None})
    /\ Goto(w, "flushAddr")
    /\ UNCHANGED <<maps, esi, outCache, passCache, conn, accLog, cur, todo, d, on, sends, given, hist>>

FlushAddr(w) ==
    /\ At(w, "flushAddr")
    /\ rest' = Set(rest, w, rest[w] \cup ({sa2sess} \ {None}))
    /\ Goto(w, IF rest'[w] = {} THEN "idle" ELSE "flushNext")
    /\ UNCHANGED <<maps, esi, outCache, passCache, net, cur, todo, d, on, sends, given, hist>>

FlushNext(w, s) ==
    /\ At(w, "flushNext") /\ s \in rest[w]
    /\ rest' = Set(rest, w, rest[w] \ {s})
    /\ cur' = Set(cur, w, s)
    /\ Goto(w, IF esi[s] # None THEN "flush" ELSE IF rest'[w] = {} THEN "idle" ELSE "flushNext")
    /\ UNCHANGED <<maps, esi, outCache, passCache, net, todo, d, on, sends, given, hist>>
-----------------------------------------------------------------------------
SenderGoesOn(t) == CreateSession(t) \/ AskConnect(t) \/ Adding(t)
PasserGoesOn(t) == CachePass(t) \/ Adding(t)
WorkerGoesOn(w) ==
    \/ SetEsi(w) \/ EraseAddr(w) \/ DrainPassCache(w) \/ EraseSock(w) \/ FlushAddr(w) \/ Adding(w)
    \/ \E s \in Sessions : FlushNext(w, s)
WorkerEvent(w) ==
    \/ OnAccepted(w) \/ OnDisaccepted(w) \/ OnNotifyBindAddress(w)
    \/ \E p \in Requests : OnConnected(w, p) \/ ConnectionEnds(w, p)

Next ==
    \/ \E t \in Senders : SendPacket(t) \/ SenderGoesOn(t)
    \/ \E t \in Passers : PassPacket(t) \/ PasserGoesOn(t)
    \/ \E w \in Workers : WorkerEvent(w) \/ WorkerGoesOn(w)

\* Handlers that have begun go on; a connection that was asked for is answered, and an
\* accepted socket is announced, by some worker.
Fairness ==
    /\ \A t \in Senders : WF_vars(SenderGoesOn(t))
    /\ \A t \in Passers : WF_vars(PasserGoesOn(t))
    /\ \A w \in Workers : WF_vars(WorkerGoesOn(w))
    /\ \A p \in Requests : WF_vars(\E w \in Workers : conn[p] = "connecting"
                                      /\ (OnConnected(w, p) \/ ConnectionEnds(w, p)))
    /\ WF_vars(\E w \in Workers : OnAccepted(w))

Spec     == Init /\ [][Next]_vars
FairSpec == Spec /\ Fairness
-----------------------------------------------------------------------------
(* Properties.                                                             *)

GivenPackets == {given[i][1] : i \in DOMAIN given}
Issued(p)    == p[1] \in DOMAIN sends /\ p[2] <= sends[p[1]]

\* However the flushes of senders, on_Connected() and flushAll() meet, a packet is given
\* to Oscar at most once, and none disappears: it is given, in a cache, or in the hands
\* of a thread.
GivenOnceNoneLost ==
    /\ \A i, j \in DOMAIN given : given[i][1] = given[j][1] => i = j
    /\ \A p \in Packets : Issued(p) =>
          \/ p \in GivenPackets \/ p \in Range(passCache)
          \/ \E s \in Sessions : p \in Range(outCache[s])
          \/ \E t \in Threads : p \in Range(todo[t]) \cup Range(d[t])

\* A packet stays in the cache of a session that has its socket only while the thread
\* that set the socket is about to flush, or if its thread had seen the session
\* without the socket: that one waits for the next send.  The same holds of a reply
\* that came before Accepted and the worker that is about to drain passCache.
CachedBehindFlush ==
    /\ \A s \in Sessions : esi[s] # None =>
          \A p \in Range(outCache[s]) : p \in late \/ \E t \in Threads : cur[t] = s /\ At(t, "flush")
    /\ "Accepted" \in Range(accLog) =>
          \A p \in Range(passCache) : p \in late \/ \E w \in Workers : At(w, "drain")

\* A packet is given to Oscar in the end, but for two: one cached behind the flush, and one
\* cached in a session that is not in the map, because insert() did not put it there or
\* because a connection to the address has ended.  A reply has only the first exception.
Transmitted ==
    \A p \in Packets :
        Issued(p) ~> \/ p \in GivenPackets \/ p \in late
                     \/ \E s \in Requests \ {sa2sess} :
                            /\ p \in Range(outCache[s])
                            /\ s \in orphans \/ \E q \in Requests : conn[q] = "down"
=============================================================================
