------------------------------ MODULE RpcProofs ------------------------------
(***************************************************************************)
(* Proofs about the sessions of RPC and their caches, for any number of    *)
(* threads and packets: where an answered request leads, and that no       *)
(* packet is given to Oscar twice or lost on the way.                      *)
(***************************************************************************)
EXTENDS Rpc, DataLemmas

-----------------------------------------------------------------------------
(* What the handlers keep in mind.                                          *)

Labels == {"idle", "create", "connect", "add", "cache", "flush", "give", "pass", "setEsi", "erase",
           "drain", "eraseSock", "flushAddr", "flushNext"}

TypeInv ==
    /\ sa2sess \in Requests \cup {None} /\ sock2sess \in {Acc, None}
    /\ esi \in [Sessions -> Sessions \cup {None}]
    /\ outCache \in [Sessions -> Seq(Packets)] /\ passCache \in Seq(Packets)
    /\ accLog \in Seq({"Accepted", "Disaccepted"})
    /\ pc \in [Threads -> Labels] /\ cur \in [Threads -> Sessions \cup {None}]
    /\ todo \in [Threads -> Seq(Packets)] /\ d \in [Threads -> Seq(Packets)]
    /\ rest \in [Threads -> SUBSET Sessions] /\ on \in [Threads -> Requests \cup {None}]
    /\ sends \in [Senders \cup Passers -> 0 .. MaxSend]
    /\ given \in Seq(Packets \X (Sessions \cup {None}))

\* A thread holds packets, and has a session, only where the code uses them.
ThreadInv(t) ==
    /\ pc[t] \in {"create", "connect", "add", "cache", "pass"} => todo[t] # <<>>
    /\ pc[t] \notin {"create", "connect", "add", "cache", "pass", "flush", "give"} => todo[t] = <<>>
    /\ pc[t] # "give" => d[t] = <<>>
    /\ pc[t] = "create" => Head(todo[t]) \in Requests
    /\ pc[t] = "pass" => Tail(todo[t]) = <<>>
    /\ pc[t] \in {"connect", "add", "cache", "flush", "give", "setEsi"} => cur[t] \in Sessions
    /\ pc[t] = "drain" => cur[t] = Acc
    /\ pc[t] = "setEsi" => on[t] \in Requests

LocalInv == TypeInv /\ \A t \in Threads : ThreadInv(t)

\* The threads begin idle and hold nothing.
LEMMA LocalInit == Init => LocalInv
BY BoundsAssumption DEF Init, LocalInv, TypeInv, ThreadInv, Labels, Sessions

\* The parts of a sequence of packets.
LEMMA SeqParts ==
    ASSUME NEW S, NEW s \in Seq(S), s # <<>>
    PROVE  Head(s) \in S /\ Tail(s) \in Seq(S)
OBVIOUS

\* A sequence with one more packet.
LEMMA SeqGrows ==
    ASSUME NEW S, NEW s \in Seq(S), NEW e \in S
    PROVE  Append(s, e) \in Seq(S) /\ <<e>> \in Seq(S) /\ <<e>> # <<>> /\ Head(<<e>>) = e
           /\ Tail(<<e>>) = <<>>
OBVIOUS

\* The packet a thread is about to send.
LEMMA NextPacket ==
    ASSUME TypeInv, NEW t \in Senders \cup Passers, sends[t] < MaxSend
    PROVE  /\ <<t, sends[t] + 1>> \in Packets /\ sends[t] + 1 \in 0 .. MaxSend
           /\ t \in Senders => <<t, sends[t] + 1>> \in Requests
BY BoundsAssumption DEF TypeInv, Packets, Requests

\* Every handler keeps what its thread holds in order.
LEMMA LocalStep ==
    ASSUME LocalInv, [Next]_vars
    PROVE  LocalInv'
<1> USE DEF Threads, Labels, At, Goto, Set, Done, maps, net, hist
<1>0. Acc \in Sessions /\ Requests \subseteq Sessions
  BY Zenon DEF Sessions
<1>1. ASSUME NEW t \in Senders, SendPacket(t) PROVE LocalInv'
  <2> DEFINE p == <<t, sends[t] + 1>>
  <2>0. p \in Packets /\ sends[t] + 1 \in 0 .. MaxSend /\ (t \in Senders => p \in Requests)
    BY <1>1, NextPacket, ZenonT(60) DEF LocalInv, SendPacket
  <2>a. <<p>> \in Seq(Packets) /\ <<p>> # <<>> /\ Head(<<p>>) = p /\ Tail(<<p>>) = <<>>
    BY <2>0, SeqGrows
  <2>b. /\ todo' = [todo EXCEPT ![t] = <<p>>] /\ sends' = [sends EXCEPT ![t] = sends[t] + 1]
    BY <1>1, Zenon DEF SendPacket
  <2> HIDE DEF p
  <2>1. TypeInv'
    <3>1. todo' \in [Threads -> Seq(Packets)]
      BY <2>a, <2>b, Zenon DEF LocalInv, TypeInv
    <3>2. sends' \in [Senders \cup Passers -> 0 .. MaxSend]
      BY <2>0, <2>b, Zenon DEF LocalInv, TypeInv
    <3>3. pc' \in [Threads -> Labels] /\ cur' \in [Threads -> Sessions \cup {None}]
      BY <1>1, <1>0, Zenon DEF LocalInv, TypeInv, SendPacket
    <3>4. QED
      BY <1>1, <3>1, <3>2, <3>3, Zenon DEF LocalInv, TypeInv, SendPacket
  <2>2. ASSUME NEW u \in Threads PROVE ThreadInv(u)'
    BY <1>1, <1>0, <2>0, <2>a, <2>b, ZenonT(60) DEF LocalInv, TypeInv, ThreadInv, SendPacket
  <2>3. QED
    BY <2>1, <2>2, ZenonT(60) DEF LocalInv
<1>2. ASSUME NEW t \in Senders, CreateSession(t) PROVE LocalInv'
  <2>1. TypeInv'
    <3>1. Head(todo[t]) \in Requests
      BY <1>2, Zenon DEF LocalInv, ThreadInv, CreateSession
    <3>2. sa2sess' \in Requests \cup {None}
      BY <1>2, <3>1, ZenonT(60) DEF LocalInv, TypeInv, CreateSession, InsertIfAbsent
    <3>3. pc' \in [Threads -> Labels] /\ cur' \in [Threads -> Sessions \cup {None}]
      BY <1>2, <1>0, <3>1, ZenonT(60) DEF LocalInv, TypeInv, CreateSession
    <3>4. QED
      BY <1>2, <3>2, <3>3, ZenonT(60) DEF LocalInv, TypeInv, CreateSession
  <2>2. ASSUME NEW u \in Threads PROVE ThreadInv(u)'
    BY <1>2, <1>0, ZenonT(60) DEF LocalInv, TypeInv, ThreadInv, CreateSession
  <2>3. QED
    BY <2>1, <2>2, Zenon DEF LocalInv
<1>3. ASSUME NEW t \in Senders, AskConnect(t) PROVE LocalInv'
  <2>1. TypeInv'
    BY <1>3, Zenon DEF LocalInv, TypeInv, ThreadInv, AskConnect
  <2>2. ASSUME NEW u \in Threads PROVE ThreadInv(u)'
    BY <1>3, ZenonT(60) DEF LocalInv, TypeInv, ThreadInv, AskConnect
  <2>3. QED
    BY <2>1, <2>2, Zenon DEF LocalInv
<1>4. ASSUME NEW t \in Passers, PassPacket(t) PROVE LocalInv'
  <2> DEFINE p == <<t, sends[t] + 1>>
  <2>0. p \in Packets /\ sends[t] + 1 \in 0 .. MaxSend /\ (t \in Senders => p \in Requests)
    BY <1>4, NextPacket, ZenonT(60) DEF LocalInv, PassPacket
  <2>a. <<p>> \in Seq(Packets) /\ <<p>> # <<>> /\ Head(<<p>>) = p /\ Tail(<<p>>) = <<>>
    BY <2>0, SeqGrows
  <2>b. /\ todo' = [todo EXCEPT ![t] = <<p>>] /\ sends' = [sends EXCEPT ![t] = sends[t] + 1]
    BY <1>4, Zenon DEF PassPacket
  <2> HIDE DEF p
  <2>1. TypeInv'
    <3>1. todo' \in [Threads -> Seq(Packets)]
      BY <2>a, <2>b, Zenon DEF LocalInv, TypeInv
    <3>2. sends' \in [Senders \cup Passers -> 0 .. MaxSend]
      BY <2>0, <2>b, Zenon DEF LocalInv, TypeInv
    <3>3. pc' \in [Threads -> Labels] /\ cur' \in [Threads -> Sessions \cup {None}]
      BY <1>4, <1>0, Zenon DEF LocalInv, TypeInv, PassPacket
    <3>4. QED
      BY <1>4, <3>1, <3>2, <3>3, Zenon DEF LocalInv, TypeInv, PassPacket
  <2>2. ASSUME NEW u \in Threads PROVE ThreadInv(u)'
    BY <1>4, <1>0, <2>0, <2>a, <2>b, SMTT(60) DEF LocalInv, TypeInv, ThreadInv, PassPacket
  <2>3. QED
    BY <2>1, <2>2, ZenonT(60) DEF LocalInv
<1>5. ASSUME NEW t \in Passers, CachePass(t) PROVE LocalInv'
  <2>0. /\ Head(todo[t]) \in Packets /\ Tail(todo[t]) \in Seq(Packets)
        /\ Append(passCache, Head(todo[t])) \in Seq(Packets)
    BY <1>5, SeqParts, SeqGrows, ZenonT(60) DEF LocalInv, TypeInv, ThreadInv, CachePass
  <2>1. TypeInv'
    BY <1>5, <2>0, ZenonT(60) DEF LocalInv, TypeInv, ThreadInv, CachePass
  <2>2. ASSUME NEW u \in Threads PROVE ThreadInv(u)'
    BY <1>5, Zenon DEF LocalInv, TypeInv, ThreadInv, CachePass
  <2>3. QED
    BY <2>1, <2>2, Zenon DEF LocalInv
<1>6. ASSUME NEW t \in Threads, AddSendPacket(t) PROVE LocalInv'
  <2>1. TypeInv'
    BY <1>6, Zenon DEF LocalInv, TypeInv, ThreadInv, AddSendPacket
  <2>2. ASSUME NEW u \in Threads PROVE ThreadInv(u)'
    BY <1>6, ZenonT(60) DEF LocalInv, TypeInv, ThreadInv, AddSendPacket
  <2>3. QED
    BY <2>1, <2>2, ZenonT(60) DEF LocalInv
<1>7. ASSUME NEW t \in Threads, Cache(t) PROVE LocalInv'
  <2>0. /\ Head(todo[t]) \in Packets /\ Tail(todo[t]) \in Seq(Packets)
        /\ Append(outCache[cur[t]], Head(todo[t])) \in Seq(Packets)
    BY <1>7, SeqParts, SeqGrows, ZenonT(60) DEF LocalInv, TypeInv, ThreadInv, Cache
  <2>1. TypeInv'
    BY <1>7, <2>0, ZenonT(60) DEF LocalInv, TypeInv, ThreadInv, Cache
  <2>2. ASSUME NEW u \in Threads PROVE ThreadInv(u)'
    BY <1>7, ZenonT(60) DEF LocalInv, TypeInv, ThreadInv, Cache
  <2>3. QED
    BY <2>1, <2>2, Zenon DEF LocalInv
<1>8. ASSUME NEW t \in Threads, FlushOutCache(t) PROVE LocalInv'
  <2>1. TypeInv'
    BY <1>8, Zenon DEF LocalInv, TypeInv, ThreadInv, FlushOutCache
  <2>2. ASSUME NEW u \in Threads PROVE ThreadInv(u)'
    BY <1>8, Zenon DEF LocalInv, TypeInv, ThreadInv, FlushOutCache
  <2>3. QED
    BY <2>1, <2>2, Zenon DEF LocalInv
<1>9. ASSUME NEW t \in Threads, Give(t) PROVE LocalInv'
  <2>0. cur[t] \in Sessions /\ esi[cur[t]] \in Sessions \cup {None}
    BY <1>9, ZenonT(60) DEF LocalInv, TypeInv, ThreadInv, Give
  <2>1. CASE d[t] # <<>>
    <3>0. /\ Head(d[t]) \in Packets /\ Tail(d[t]) \in Seq(Packets)
          /\ Append(given, <<Head(d[t]), esi[cur[t]]>>) \in Seq(Packets \X (Sessions \cup {None}))
      BY <2>0, <2>1, SeqParts, SeqGrows, ZenonT(60) DEF LocalInv, TypeInv
    <3>1. TypeInv'
      BY <1>9, <2>1, <3>0, ZenonT(60) DEF LocalInv, TypeInv, ThreadInv, Give
    <3>2. ASSUME NEW u \in Threads PROVE ThreadInv(u)'
      BY <1>9, <2>1, <3>0, ZenonT(60) DEF LocalInv, TypeInv, ThreadInv, Give
    <3>3. QED
      BY <3>1, <3>2, Zenon DEF LocalInv
  <2>2. CASE d[t] = <<>> /\ todo[t] = <<>>
    <3>1. TypeInv'
      BY <1>9, <2>2, ZenonT(60) DEF LocalInv, TypeInv, ThreadInv, Give
    <3>2. ASSUME NEW u \in Threads PROVE ThreadInv(u)'
      BY <1>9, <2>2, ZenonT(60) DEF LocalInv, TypeInv, ThreadInv, Give
    <3>3. QED
      BY <3>1, <3>2, Zenon DEF LocalInv
  <2>3. CASE d[t] = <<>> /\ todo[t] # <<>>
    <3>0. /\ Head(todo[t]) \in Packets /\ Tail(todo[t]) \in Seq(Packets)
          /\ Append(given, <<Head(todo[t]), esi[cur[t]]>>) \in Seq(Packets \X (Sessions \cup {None}))
      BY <2>0, <2>3, SeqParts, SeqGrows, ZenonT(60) DEF LocalInv, TypeInv
    <3>1. TypeInv'
      BY <1>9, <2>3, <3>0, ZenonT(60) DEF LocalInv, TypeInv, ThreadInv, Give
    <3>2. ASSUME NEW u \in Threads PROVE ThreadInv(u)'
      BY <1>9, <2>3, <3>0, ZenonT(60) DEF LocalInv, TypeInv, ThreadInv, Give
    <3>3. QED
      BY <3>1, <3>2, Zenon DEF LocalInv
  <2>4. QED
    BY <2>1, <2>2, <2>3, ZenonT(60)
<1>10. ASSUME NEW w \in Workers, SetEsi(w) PROVE LocalInv'
  <2>1. TypeInv'
    BY <1>10, <1>0, ZenonT(60) DEF LocalInv, TypeInv, ThreadInv, SetEsi
  <2>2. ASSUME NEW u \in Threads PROVE ThreadInv(u)'
    BY <1>10, ZenonT(60) DEF LocalInv, TypeInv, ThreadInv, SetEsi
  <2>3. QED
    BY <2>1, <2>2, ZenonT(60) DEF LocalInv
<1>11. ASSUME NEW w \in Workers, EraseAddr(w) PROVE LocalInv'
  <2>1. TypeInv'
    BY <1>11, Zenon DEF LocalInv, TypeInv, ThreadInv, EraseAddr
  <2>2. ASSUME NEW u \in Threads PROVE ThreadInv(u)'
    BY <1>11, ZenonT(60) DEF LocalInv, TypeInv, ThreadInv, EraseAddr
  <2>3. QED
    BY <2>1, <2>2, Zenon DEF LocalInv
<1>12. ASSUME NEW w \in Workers, OnAccepted(w) PROVE LocalInv'
  <2>1. TypeInv'
    BY <1>12, <1>0, SMTT(60) DEF LocalInv, TypeInv, ThreadInv, OnAccepted
  <2>2. ASSUME NEW u \in Threads PROVE ThreadInv(u)'
    BY <1>12, <1>0, Zenon DEF LocalInv, TypeInv, ThreadInv, OnAccepted
  <2>3. QED
    BY <2>1, <2>2, Zenon DEF LocalInv
<1>13. ASSUME NEW w \in Workers, DrainPassCache(w) PROVE LocalInv'
  <2>1. TypeInv'
    <3>1. todo' \in [Threads -> Seq(Packets)] /\ passCache' \in Seq(Packets)
      BY <1>13 DEF LocalInv, TypeInv, DrainPassCache, PassCached
    <3>2. pc' \in [Threads -> Labels] /\ on' \in [Threads -> Requests \cup {None}]
      BY <1>13, Zenon DEF LocalInv, TypeInv, DrainPassCache
    <3>3. QED
      BY <1>13, <3>1, <3>2, Zenon DEF LocalInv, TypeInv, DrainPassCache
  <2>2. ASSUME NEW u \in Threads PROVE ThreadInv(u)'
    BY <1>13, <1>0, Zenon DEF LocalInv, TypeInv, ThreadInv, DrainPassCache
  <2>3. QED
    BY <2>1, <2>2, Zenon DEF LocalInv
<1>14. ASSUME NEW w \in Workers, OnDisaccepted(w) PROVE LocalInv'
  <2>1. TypeInv'
    BY <1>14, SMTT(60) DEF LocalInv, TypeInv, ThreadInv, OnDisaccepted
  <2>2. ASSUME NEW u \in Threads PROVE ThreadInv(u)'
    BY <1>14, Zenon DEF LocalInv, TypeInv, ThreadInv, OnDisaccepted
  <2>3. QED
    BY <2>1, <2>2, Zenon DEF LocalInv
<1>15. ASSUME NEW w \in Workers, EraseSock(w) PROVE LocalInv'
  <2>1. TypeInv'
    BY <1>15, <1>0, Zenon DEF LocalInv, TypeInv, ThreadInv, EraseSock
  <2>2. ASSUME NEW u \in Threads PROVE ThreadInv(u)'
    BY <1>15, <1>0, Zenon DEF LocalInv, TypeInv, ThreadInv, EraseSock
  <2>3. QED
    BY <2>1, <2>2, Zenon DEF LocalInv
<1>16. ASSUME NEW w \in Workers, OnNotifyBindAddress(w) PROVE LocalInv'
  <2>1. TypeInv'
    BY <1>16, <1>0, ZenonT(60) DEF LocalInv, TypeInv, ThreadInv, OnNotifyBindAddress
  <2>2. ASSUME NEW u \in Threads PROVE ThreadInv(u)'
    BY <1>16, <1>0, ZenonT(60) DEF LocalInv, TypeInv, ThreadInv, OnNotifyBindAddress
  <2>3. QED
    BY <2>1, <2>2, Zenon DEF LocalInv
<1>17. ASSUME NEW w \in Workers, FlushAddr(w) PROVE LocalInv'
  <2>1. TypeInv'
    BY <1>17, <1>0, ZenonT(60) DEF LocalInv, TypeInv, ThreadInv, FlushAddr
  <2>2. ASSUME NEW u \in Threads PROVE ThreadInv(u)'
    BY <1>17, <1>0, Zenon DEF LocalInv, TypeInv, ThreadInv, FlushAddr
  <2>3. QED
    BY <2>1, <2>2, Zenon DEF LocalInv
<1>18. ASSUME NEW w \in Workers, NEW p \in Requests, OnConnected(w, p) PROVE LocalInv'
  <2>1. TypeInv'
    BY <1>18, <1>0, ZenonT(60) DEF LocalInv, TypeInv, ThreadInv, OnConnected, Free
  <2>2. ASSUME NEW u \in Threads PROVE ThreadInv(u)'
    BY <1>18, <1>0, ZenonT(60) DEF LocalInv, TypeInv, ThreadInv, OnConnected, Free
  <2>3. QED
    BY <2>1, <2>2, Zenon DEF LocalInv
<1>19. ASSUME NEW w \in Workers, NEW p \in Requests, ConnectionEnds(w, p) PROVE LocalInv'
  <2>1. TypeInv'
    BY <1>19, Zenon DEF LocalInv, TypeInv, ThreadInv, ConnectionEnds, Free
  <2>2. ASSUME NEW u \in Threads PROVE ThreadInv(u)'
    BY <1>19, Zenon DEF LocalInv, TypeInv, ThreadInv, ConnectionEnds, Free
  <2>3. QED
    BY <2>1, <2>2, Zenon DEF LocalInv
<1>20. ASSUME NEW w \in Workers, NEW p \in Sessions, FlushNext(w, p) PROVE LocalInv'
  <2>1. TypeInv'
    BY <1>20, <1>0, Zenon DEF LocalInv, TypeInv, ThreadInv, FlushNext, Free
  <2>2. ASSUME NEW u \in Threads PROVE ThreadInv(u)'
    BY <1>20, <1>0, ZenonT(60) DEF LocalInv, TypeInv, ThreadInv, FlushNext, Free
  <2>3. QED
    BY <2>1, <2>2, Zenon DEF LocalInv
<1>21. ASSUME UNCHANGED vars PROVE LocalInv'
  BY <1>21, Zenon DEF LocalInv, TypeInv, ThreadInv, vars
<1>22. QED
  BY <1>1, <1>2, <1>3, <1>4, <1>5, <1>6, <1>7, <1>8, <1>9, <1>10, <1>11, <1>12, <1>13, <1>14, <1>15,
     <1>16, <1>17, <1>18, <1>19, <1>20, <1>21, Zenon
  DEF Next, SenderGoesOn, PasserGoesOn, WorkerGoesOn, WorkerEvent, Adding
-----------------------------------------------------------------------------
(* The caches.                                                              *)

\* What a cache contains when a packet is added or it is emptied.
LEMMA RangeParts ==
    ASSUME NEW S, NEW s \in Seq(S)
    PROVE  /\ Range(<<>>) = {} /\ \A e : Range(Append(s, e)) = Range(s) \cup {e}
           /\ s # <<>> => Head(s) \in Range(s)
BY SMTT(60) DEF Range

\* The two halves of CachedBehindFlush.
OutBehind ==
    \A s \in Sessions : esi[s] # None =>
        \A p \in Range(outCache[s]) : p \in late \/ \E t \in Threads : cur[t] = s /\ pc[t] = "flush"
PassBehind ==
    "Accepted" \in Range(accLog) =>
        \A p \in Range(passCache) : p \in late \/ \E w \in Workers : pc[w] = "drain"

\* A step that adds to a cache whose session has its socket is late; a step that sets the
\* socket goes on to flush, one that announces the accepted socket to drain.
LEMMA CachedStep ==
    ASSUME LocalInv, LocalInv', OutBehind, PassBehind, [Next]_vars
    PROVE  OutBehind' /\ PassBehind'
<1> DEFINE Others(t) == \A u \in Threads \ {t} : pc'[u] = pc[u] /\ cur'[u] = cur[u]
<1>1. ASSUME UNCHANGED <<esi, outCache>>, late \subseteq late', NEW t, Others(t), pc[t] # "flush"
      PROVE  OutBehind'
  BY <1>1 DEF OutBehind
<1>2. ASSUME UNCHANGED <<passCache, accLog>>, late \subseteq late', NEW t, Others(t), pc[t] # "drain"
      PROVE  PassBehind'
  BY <1>2, Zenon DEF PassBehind, Threads
<1> USE DEF Goto, At, Set, maps, net, hist
<1>3. ASSUME NEW t \in Threads,
             \/ SendPacket(t) \/ PassPacket(t) \/ CreateSession(t) \/ AskConnect(t) \/ AddSendPacket(t)
             \/ EraseAddr(t) \/ EraseSock(t) \/ FlushAddr(t) \/ OnNotifyBindAddress(t)
             \/ \E s \in Sessions : FlushNext(t, s)
             \/ \E p \in Requests : OnConnected(t, p) \/ ConnectionEnds(t, p)
      PROVE  OutBehind' /\ PassBehind'
  <2>1. UNCHANGED <<esi, outCache, passCache, accLog, late>>
    BY <1>3, Zenon DEF SendPacket, PassPacket, CreateSession, AskConnect, AddSendPacket, EraseAddr,
       EraseSock,
                FlushAddr, OnNotifyBindAddress, FlushNext, OnConnected, ConnectionEnds
  <2>2. pc[t] # "flush" /\ pc[t] # "drain"
    BY <1>3, Zenon DEF SendPacket, PassPacket, CreateSession, AskConnect, AddSendPacket, EraseAddr,
       EraseSock,
                FlushAddr, OnNotifyBindAddress, FlushNext, OnConnected, ConnectionEnds, Free
  <2>3. Others(t)
    BY <1>3, ZenonT(60) DEF SendPacket, PassPacket, CreateSession, AskConnect, AddSendPacket,
       EraseAddr, EraseSock,
                FlushAddr, OnNotifyBindAddress, FlushNext, OnConnected, ConnectionEnds, LocalInv,
                TypeInv
  <2>4. QED
    BY <1>1, <1>2, <2>1, <2>2, <2>3, Zenon
<1>4. ASSUME NEW t \in Threads, Give(t) PROVE OutBehind' /\ PassBehind'
  <2>1. UNCHANGED <<esi, outCache, passCache, accLog, late>> /\ pc[t] = "give"
    BY <1>4, Zenon DEF Give
  <2>2. Others(t)
    BY <1>4, Zenon DEF Give, Done, LocalInv, TypeInv
  <2>3. QED
    BY <1>1, <1>2, <2>1, <2>2, Zenon
<1>5. ASSUME NEW t \in Threads, CachePass(t) PROVE OutBehind' /\ PassBehind'
  <2>1. pc[t] = "pass" /\ todo[t] # <<>> /\ todo[t] \in Seq(Packets) /\ passCache \in Seq(Packets)
    BY <1>5, Zenon DEF CachePass, LocalInv, TypeInv, ThreadInv
  <2>2. Head(todo[t]) \in Range(todo[t]) /\ Range(passCache') = Range(passCache) \cup {Head(todo[t])}
    BY <1>5, <2>1, RangeParts, ZenonT(60) DEF CachePass
  <2>3. Others(t)
    BY <1>5, Zenon DEF CachePass, Done, LocalInv, TypeInv
  <2>4. /\ UNCHANGED <<esi, outCache, accLog>> /\ late \subseteq late'
        /\ "Accepted" \in Range(accLog) => Head(todo[t]) \in late'
    BY <1>5, <2>2, Zenon DEF CachePass
  <2>5. OutBehind'
    BY <1>1, <2>1, <2>3, <2>4, ZenonT(60)
  <2>6. \A w \in Workers : pc[w] = "drain" => pc'[w] = "drain"
    BY <2>1, <2>3, ZenonT(60) DEF Threads
  <2>7. PassBehind'
    BY <2>2, <2>4, <2>6, ZenonT(60) DEF PassBehind
  <2>8. QED
    BY <2>5, <2>7, ZenonT(60)
<1>6. ASSUME NEW t \in Threads, Cache(t) PROVE OutBehind' /\ PassBehind'
  <2>1. /\ cur[t] \in Sessions /\ todo[t] # <<>> /\ pc[t] = "cache"
        /\ outCache \in [Sessions -> Seq(Packets)]
    BY <1>6, Zenon DEF Cache, LocalInv, TypeInv, ThreadInv
  <2>2. /\ Range(outCache'[cur[t]]) = Range(outCache[cur[t]]) \cup {Head(todo[t])}
        /\ \A s \in Sessions \ {cur[t]} : outCache'[s] = outCache[s]
    BY <1>6, <2>1, RangeParts, ZenonT(60) DEF Cache
  <2>3. Others(t)
    BY <1>6, Zenon DEF Cache, Done, LocalInv, TypeInv
  <2>4. /\ UNCHANGED <<esi, passCache, accLog>> /\ late \subseteq late'
        /\ esi[cur[t]] # None => Head(todo[t]) \in late'
    BY <1>6, ZenonT(60) DEF Cache
  <2>5. PassBehind'
    BY <1>2, <2>1, <2>3, <2>4, ZenonT(60)
  <2>6. ASSUME NEW s \in Sessions, esi'[s] # None, NEW p \in Range(outCache'[s])
        PROVE  p \in late' \/ \E u \in Threads : cur'[u] = s /\ pc'[u] = "flush"
    <3>1. CASE s = cur[t] /\ p = Head(todo[t])
      BY <2>4, <2>6, <3>1, ZenonT(60)
    <3>2. CASE ~(s = cur[t] /\ p = Head(todo[t]))
      <4>1. p \in Range(outCache[s]) /\ esi[s] # None
        BY <2>2, <2>4, <2>6, <3>2, ZenonT(60)
      <4>2. p \in late \/ \E u \in Threads : cur[u] = s /\ pc[u] = "flush"
        BY <4>1, ZenonT(60) DEF OutBehind
      <4>3. QED
        BY <2>1, <2>3, <2>4, <4>2, ZenonT(60)
    <3>3. QED
      BY <3>1, <3>2, ZenonT(60)
  <2>7. QED
    BY <2>5, <2>6, ZenonT(60) DEF OutBehind
<1>7. ASSUME NEW t \in Threads, FlushOutCache(t) PROVE OutBehind' /\ PassBehind'
  <2>1. cur[t] \in Sessions /\ pc[t] = "flush" /\ UNCHANGED <<esi, passCache, accLog, late>>
    BY <1>7, ZenonT(60) DEF FlushOutCache, LocalInv, ThreadInv
  <2>2. Range(outCache'[cur[t]]) = {} /\ \A s \in Sessions \ {cur[t]} : outCache'[s] = outCache[s]
    BY <1>7, <2>1, RangeParts, ZenonT(60) DEF FlushOutCache, LocalInv, TypeInv
  <2>3. Others(t)
    BY <1>7, Zenon DEF FlushOutCache, LocalInv, TypeInv
  <2>4. PassBehind'
    BY <1>2, <2>1, <2>3, ZenonT(60)
  <2>5. ASSUME NEW s \in Sessions, esi'[s] # None, NEW p \in Range(outCache'[s])
        PROVE  p \in late' \/ \E u \in Threads : cur'[u] = s /\ pc'[u] = "flush"
    <3>1. s # cur[t] /\ p \in Range(outCache[s]) /\ esi[s] # None
      BY <2>1, <2>2, <2>5, ZenonT(60)
    <3>2. p \in late \/ \E u \in Threads : cur[u] = s /\ pc[u] = "flush"
      BY <3>1, ZenonT(60) DEF OutBehind
    <3>3. QED
      BY <2>1, <2>3, <3>1, <3>2, ZenonT(60)
  <2>6. QED
    BY <2>4, <2>5, Zenon DEF OutBehind
<1>8. ASSUME NEW t \in Threads, DrainPassCache(t) PROVE OutBehind' /\ PassBehind'
  <2>1. pc[t] = "drain" /\ UNCHANGED <<esi, outCache, accLog, late>> /\ passCache' = <<>>
    BY <1>8, ZenonT(60) DEF DrainPassCache
  <2>2. Others(t)
    BY <1>8, ZenonT(60) DEF DrainPassCache, Done, LocalInv, TypeInv
  <2>3. OutBehind'
    BY <1>1, <2>1, <2>2, ZenonT(60)
  <2>4. PassBehind'
    BY <2>1, RangeParts, ZenonT(60) DEF PassBehind, LocalInv, TypeInv
  <2>5. QED
    BY <2>3, <2>4, Zenon
<1>9. ASSUME NEW t \in Threads, SetEsi(t) PROVE OutBehind' /\ PassBehind'
  <2>1. /\ pc[t] = "setEsi" /\ cur[t] \in Sessions /\ UNCHANGED <<cur, outCache, passCache, accLog, late>>
    BY <1>9, ZenonT(60) DEF SetEsi, LocalInv, ThreadInv
  <2>2. pc'[t] = "flush" /\ Others(t) /\ \A s \in Sessions \ {cur[t]} : esi'[s] = esi[s]
    BY <1>9, <2>1, ZenonT(60) DEF SetEsi, LocalInv, TypeInv
  <2>3. PassBehind'
    BY <1>2, <2>1, <2>2, ZenonT(60)
  <2>4. ASSUME NEW s \in Sessions, esi'[s] # None, NEW p \in Range(outCache'[s])
        PROVE  p \in late' \/ \E u \in Threads : cur'[u] = s /\ pc'[u] = "flush"
    <3>1. CASE s = cur[t]
      BY <2>1, <2>2, <3>1, ZenonT(60)
    <3>2. CASE s # cur[t]
      <4>1. p \in late \/ \E u \in Threads : cur[u] = s /\ pc[u] = "flush"
        BY <2>1, <2>2, <2>4, <3>2, ZenonT(60) DEF OutBehind
      <4>2. QED
        BY <2>1, <2>2, <4>1, ZenonT(60)
    <3>3. QED
      BY <3>1, <3>2, ZenonT(60)
  <2>5. QED
    BY <2>3, <2>4, Zenon DEF OutBehind
<1>10. ASSUME NEW w \in Workers, OnAccepted(w) PROVE OutBehind' /\ PassBehind'
  <2>1. pc[w] = "idle" /\ UNCHANGED <<esi, outCache, passCache, late>> /\ w \in Threads
    BY <1>10, ZenonT(60) DEF OnAccepted, Threads
  <2>2. pc'[w] = "drain" /\ Others(w)
    BY <1>10, <2>1, ZenonT(60) DEF OnAccepted, LocalInv, TypeInv
  <2>3. OutBehind'
    BY <1>1, <2>1, <2>2, ZenonT(60)
  <2>4. PassBehind'
    BY <2>2, ZenonT(60) DEF PassBehind
  <2>5. QED
    BY <2>3, <2>4, ZenonT(60)
<1>11. ASSUME NEW w \in Workers, OnDisaccepted(w) PROVE OutBehind' /\ PassBehind'
  <2>1. /\ pc[w] = "idle" /\ UNCHANGED <<esi, outCache, passCache, late>> /\ w \in Threads
        /\ accLog' = Append(accLog, "Disaccepted")
    BY <1>11, ZenonT(60) DEF OnDisaccepted, Threads
  <2>2. Others(w)
    BY <1>11, <2>1, ZenonT(60) DEF OnDisaccepted, LocalInv, TypeInv
  <2>3. OutBehind'
    BY <1>1, <2>1, <2>2, ZenonT(60)
  <2>4. "Accepted" \in Range(accLog') => "Accepted" \in Range(accLog)
    BY <2>1, RangeParts, SMTT(60) DEF LocalInv, TypeInv
  <2>5. \A v \in Workers : pc[v] = "drain" => pc'[v] = "drain"
    BY <2>1, <2>2, Zenon DEF Threads
  <2>6. PassBehind'
    BY <2>1, <2>4, <2>5, Zenon DEF PassBehind
  <2>7. QED
    BY <2>3, <2>6, Zenon
<1>12. ASSUME UNCHANGED vars PROVE OutBehind' /\ PassBehind'
  BY <1>12, Zenon DEF vars, OutBehind, PassBehind
<1>13. QED
  BY <1>3, <1>4, <1>5, <1>6, <1>7, <1>8, <1>9, <1>10, <1>11, <1>12
  DEF Threads, Next, SenderGoesOn, PasserGoesOn, WorkerGoesOn, WorkerEvent, Adding

\* on_Connected() sets the socket before it flushes and on_Accepted() stores the session
\* before it drains passCache: with any number of threads and packets, only a packet whose
\* thread had looked before that stays behind in a cache.
THEOREM NothingLeftBehind == Spec => []CachedBehindFlush
<1>1. Init => LocalInv /\ OutBehind /\ PassBehind
  <2> SUFFICES ASSUME Init PROVE LocalInv /\ OutBehind /\ PassBehind
    BY Zenon
  <2>1. Range(<<>>) = {}
    BY DEF Range
  <2>2. accLog = <<>> /\ \A s \in Sessions : outCache[s] = <<>>
    BY Zenon DEF Init
  <2>3. QED
    BY <2>1, <2>2, LocalInit, Zenon DEF OutBehind, PassBehind
<1>2. LocalInv /\ OutBehind /\ PassBehind /\ [Next]_vars => (LocalInv /\ OutBehind /\ PassBehind)'
  BY LocalStep, CachedStep, ZenonT(60)
<1>3. OutBehind /\ PassBehind => CachedBehindFlush
  BY Zenon DEF OutBehind, PassBehind, CachedBehindFlush, At
<1>4. QED
  BY <1>1, <1>2, <1>3, PTL DEF Spec


-----------------------------------------------------------------------------
(* Where the packets are.                                                   *)

Places == ({"outCache"} \X Sessions) \cup ({"todo", "d"} \X Threads)
              \cup {<<"passCache", None>>, <<"given", None>>}

Firsts(g) == [i \in DOMAIN g |-> g[i][1]]

Held(o, td, dq, ps, g) ==
    [x \in Places |-> IF x[1] = "outCache" THEN o[x[2]] ELSE IF x[1] = "todo" THEN td[x[2]]
                      ELSE IF x[1] = "d" THEN dq[x[2]] ELSE IF x[1] = "passCache" THEN ps
                      ELSE Firsts(g)]

Contents == Held(outCache, todo, d, passCache, given)

\* What each place holds.
Holds(H, o, td, dq, ps, g) ==
    /\ \A s \in Sessions : <<"outCache", s>> \in Places /\ H[<<"outCache", s>>] = o[s]
    /\ \A t \in Threads : <<"todo", t>> \in Places /\ H[<<"todo", t>>] = td[t]
    /\ \A t \in Threads : <<"d", t>> \in Places /\ H[<<"d", t>>] = dq[t]
    /\ <<"passCache", None>> \in Places /\ H[<<"passCache", None>>] = ps
    /\ <<"given", None>> \in Places /\ H[<<"given", None>>] = Firsts(g)

\* The function of places holds what the variables hold.
LEMMA HeldAt ==
    ASSUME NEW o, NEW td, NEW dq, NEW ps, NEW g
    PROVE  Holds(Held(o, td, dq, ps, g), o, td, dq, ps, g)
BY Zenon DEF Held, Places, Holds

\* Every place is one of these.
LEMMA PlaceCases ==
    ASSUME NEW x \in Places
    PROVE  \/ \E s \in Sessions : x = <<"outCache", s>>
           \/ \E t \in Threads : x = <<"todo", t>> \/ x = <<"d", t>>
           \/ x = <<"passCache", None>> \/ x = <<"given", None>>
BY DEF Places

\* The packets of the events given to Oscar.
LEMMA FirstsType ==
    ASSUME NEW S, NEW T, NEW g \in Seq(S \X T)
    PROVE  Firsts(g) \in Seq(S) /\ DOMAIN Firsts(g) = DOMAIN g
BY SMTT(60) DEF Firsts

\* One more event given is one more packet given.
LEMMA FirstsAppend ==
    ASSUME NEW g \in Seq(Packets \X (Sessions \cup {None})), NEW p \in Packets, NEW e \in Sessions \cup {None}
    PROVE  Firsts(Append(g, <<p, e>>)) = Append(Firsts(g), p)
BY DEF Firsts

\* Every place holds a sequence of packets.
LEMMA HeldType ==
    ASSUME NEW o \in [Sessions -> Seq(Packets)], NEW td \in [Threads -> Seq(Packets)],
           NEW dq \in [Threads -> Seq(Packets)], NEW ps \in Seq(Packets),
           NEW g \in Seq(Packets \X (Sessions \cup {None}))
    PROVE  Held(o, td, dq, ps, g) \in [Places -> Seq(Packets)]
<1> DEFINE H == Held(o, td, dq, ps, g)
<1>1. Firsts(g) \in Seq(Packets)
  BY FirstsType, ZenonT(60)
<1>2. Holds(H, o, td, dq, ps, g)
  BY HeldAt, Zenon
<1>3. DOMAIN H = Places /\ H = [x \in DOMAIN H |-> H[x]]
  BY Zenon DEF Held
<1> HIDE DEF H
<1>4. ASSUME NEW x \in Places PROVE H[x] \in Seq(Packets)
  <2>1. CASE \E s \in Sessions : x = <<"outCache", s>>
    BY <1>2, <2>1 DEF Holds
  <2>2. CASE \E t \in Threads : x = <<"todo", t>> \/ x = <<"d", t>>
    BY <1>2, <2>2 DEF Holds
  <2>3. CASE x = <<"passCache", None>> \/ x = <<"given", None>>
    BY <1>1, <1>2, <2>3, ZenonT(60) DEF Holds
  <2>4. QED
    BY <2>1, <2>2, <2>3, PlaceCases, ZenonT(60)
<1>5. H \in [Places -> Seq(Packets)]
  BY <1>3, <1>4, Zenon
<1>6. QED
  BY <1>5, Zenon DEF H

\* Every issued packet, and nothing else, is in exactly one place, once.
OnceInv ==
    /\ Single(Contents, Places)
    /\ \A p : In(Contents, Places, p) <=> p \in Packets /\ Issued(p)

\* A step moves packets from one place to another, or issues one.
LEMMA OnceStep ==
    ASSUME LocalInv, LocalInv', OnceInv, [Next]_vars
    PROVE  OnceInv'
<1> DEFINE F == Contents
           G == Contents'
<1>1. F \in [Places -> Seq(Packets)] /\ G \in [Places -> Seq(Packets)]
  BY HeldType, ZenonT(60) DEF Contents, LocalInv, TypeInv
<1>2. /\ Holds(F, outCache, todo, d, passCache, given)
      /\ Holds(G, outCache', todo', d', passCache', given')
  BY HeldAt, Zenon DEF Contents
<1>3. ASSUME UNCHANGED <<outCache, todo, d, passCache, given, sends>> PROVE OnceInv'
  BY <1>3, Zenon DEF OnceInv, Contents, Issued
<1>4. ASSUME UNCHANGED sends, Single(F, Places) => Single(G, Places),
             \A p : In(G, Places, p) <=> In(F, Places, p)
      PROVE  OnceInv'
  BY <1>4, Zenon DEF OnceInv, Issued
<1> HIDE DEF F, G
\* A place holds what it held, unless it is one of those that change.
<1>6. ASSUME NEW z \in Places,
             \A s \in Sessions : outCache'[s] = outCache[s] \/ z # <<"outCache", s>>,
             \A t \in Threads : todo'[t] = todo[t] \/ z # <<"todo", t>>,
             \A t \in Threads : d'[t] = d[t] \/ z # <<"d", t>>,
             passCache' = passCache \/ z # <<"passCache", None>>,
             given' = given \/ z # <<"given", None>>
      PROVE  G[z] = F[z]
  <2>1. CASE \E s \in Sessions : z = <<"outCache", s>>
    BY <1>2, <1>6, <2>1, SMTT(60) DEF Holds
  <2>2. CASE \E t \in Threads : z = <<"todo", t>> \/ z = <<"d", t>>
    BY <1>2, <1>6, <2>2, SMTT(60) DEF Holds
  <2>3. CASE z = <<"passCache", None>> \/ z = <<"given", None>>
    BY <1>2, <1>6, <2>3, Zenon DEF Holds
  <2>4. QED
    BY <2>1, <2>2, <2>3, PlaceCases, ZenonT(60)
<1> USE DEF Goto, At, Set, maps, net, hist
\* A packet is issued.
<1>5. ASSUME NEW t \in Senders \cup Passers, SendPacket(t) \/ PassPacket(t) PROVE OnceInv'
  <2> DEFINE p == <<t, sends[t] + 1>>
  <2>1. p \in Packets /\ t \in Threads
    BY <1>5, NextPacket, ZenonT(60) DEF LocalInv, SendPacket, PassPacket, Threads
  <2>2. /\ todo' = [todo EXCEPT ![t] = <<p>>] /\ sends' = [sends EXCEPT ![t] = sends[t] + 1]
        /\ UNCHANGED <<outCache, d, passCache, given>> /\ todo[t] = <<>>
    BY <1>5, <2>1, ZenonT(60) DEF SendPacket, PassPacket, LocalInv, ThreadInv
  <2>3. ~Issued(p) /\ \A q \in Packets : Issued(q)' <=> Issued(q) \/ q = p
    BY <1>5, <2>2, SMTT(60) DEF Issued, LocalInv, TypeInv, Packets
  <2>4. ~In(F, Places, p)
    BY <2>3, Zenon DEF OnceInv, F
  <2> HIDE DEF p
  <2> DEFINE x == <<"todo", t>>
  <2>5. x \in Places /\ F[x] = <<>> /\ G[x] = <<p>>
    BY <1>2, <2>1, <2>2, Zenon DEF Holds, LocalInv, TypeInv
  <2>6. ASSUME NEW z \in Places \ {x} PROVE G[z] = F[z]
    <3>1. \A u \in Threads : todo'[u] = todo[u] \/ z # <<"todo", u>>
      BY <2>2, <2>6, Zenon DEF LocalInv, TypeInv
    <3>2. QED
      BY <1>6, <2>2, <2>6, <3>1, Zenon
  <2>7. Puts(F, G, Places, x, p)
    <3>1. Append(<<>>, p) = <<p>>
      OBVIOUS
    <3>2. QED
      BY <2>5, <2>6, <3>1, Zenon DEF Puts
  <2>8. /\ Single(F, Places) => Single(G, Places)
        /\ \A q : In(G, Places, q) <=> In(F, Places, q) \/ q = p
    BY <1>1, <2>4, <2>5, <2>7, AppendNew, Zenon
  <2>9. QED
    BY <2>1, <2>3, <2>8, ZenonT(60) DEF OnceInv, F, G
\* The packets a step moves.
<1>7. ASSUME NEW t \in Threads, CachePass(t) PROVE OnceInv'
  <2> DEFINE x == <<"todo", t>>
             y == <<"passCache", None>>
  <2>1. /\ todo' = [todo EXCEPT ![t] = Tail(todo[t])] /\ passCache' = Append(passCache, Head(todo[t]))
        /\ UNCHANGED <<outCache, d, given, sends>> /\ todo[t] # <<>>
    BY <1>7, ZenonT(60) DEF LocalInv, TypeInv, ThreadInv, Done, CachePass
  <2>2. x \in Places /\ y \in Places /\ x # y /\ F[x] # <<>> /\ G[x] = Tail(F[x])
        /\ G[y] = Append(F[y], Head(F[x]))
    BY <1>2, <1>7, <2>1, ZenonT(60) DEF Holds, LocalInv, TypeInv
  <2>3. ASSUME NEW z \in Places \ {x, y} PROVE G[z] = F[z]
    <3>1. /\ \A s \in Sessions : outCache'[s] = outCache[s] \/ z # <<"outCache", s>>
          /\ \A u \in Threads : todo'[u] = todo[u] \/ z # <<"todo", u>>
          /\ \A u \in Threads : d'[u] = d[u] \/ z # <<"d", u>>
      BY <2>1, <2>3, ZenonT(60) DEF LocalInv, TypeInv
    <3>2. QED
      BY <1>6, <2>1, <2>3, <3>1, ZenonT(60)
  <2> HIDE DEF x, y
  <2>4. QED
    BY <1>1, <1>4, <2>1, <2>2, <2>3, MoveHead, ZenonT(60)
<1>8. ASSUME NEW t \in Threads, Cache(t) PROVE OnceInv'
  <2> DEFINE x == <<"todo", t>>
             y == <<"outCache", cur[t]>>
  <2>1. /\ todo' = [todo EXCEPT ![t] = Tail(todo[t])] /\ cur[t] \in Sessions
        /\ outCache' = [outCache EXCEPT ![cur[t]] = Append(outCache[cur[t]], Head(todo[t]))]
        /\ UNCHANGED <<passCache, d, given, sends>> /\ todo[t] # <<>>
    BY <1>8, ZenonT(60) DEF LocalInv, TypeInv, ThreadInv, Done, Cache
  <2>2. x \in Places /\ y \in Places /\ x # y /\ F[x] # <<>> /\ G[x] = Tail(F[x])
        /\ G[y] = Append(F[y], Head(F[x]))
    <3>1. x \in Places /\ y \in Places /\ F[x] = todo[t] /\ G[x] = todo'[t]
      BY <1>2, <2>1, ZenonT(60) DEF Holds
    <3>2. F[y] = outCache[cur[t]] /\ G[y] = outCache'[cur[t]]
      BY <1>2, <2>1, ZenonT(60) DEF Holds
    <3>3. /\ todo'[t] = Tail(todo[t])
          /\ outCache'[cur[t]] = Append(outCache[cur[t]], Head(todo[t]))
      BY <2>1, ZenonT(60) DEF LocalInv, TypeInv
    <3>4. QED
      BY <2>1, <3>1, <3>2, <3>3, ZenonT(60)
  <2>3. ASSUME NEW z \in Places \ {x, y} PROVE G[z] = F[z]
    <3>1. /\ \A s \in Sessions : outCache'[s] = outCache[s] \/ z # <<"outCache", s>>
          /\ \A u \in Threads : todo'[u] = todo[u] \/ z # <<"todo", u>>
          /\ \A u \in Threads : d'[u] = d[u] \/ z # <<"d", u>>
      BY <2>1, <2>3, ZenonT(60) DEF LocalInv, TypeInv
    <3>2. QED
      BY <1>6, <2>1, <2>3, <3>1, ZenonT(60)
  <2> HIDE DEF x, y
  <2>4. QED
    BY <1>1, <1>4, <2>1, <2>2, <2>3, MoveHead, ZenonT(60)
<1>9. ASSUME NEW t \in Threads, FlushOutCache(t) PROVE OnceInv'
  <2> DEFINE x == <<"outCache", cur[t]>>
             y == <<"d", t>>
  <2>1. /\ d' = [d EXCEPT ![t] = outCache[cur[t]]] /\ cur[t] \in Sessions
        /\ outCache' = [outCache EXCEPT ![cur[t]] = <<>>]
        /\ UNCHANGED <<passCache, todo, given, sends>> /\ d[t] = <<>>
    BY <1>9, ZenonT(60) DEF LocalInv, TypeInv, ThreadInv, Done, FlushOutCache
  <2>2. x \in Places /\ y \in Places /\ x # y /\ F[y] = <<>> /\ G[x] = <<>> /\ G[y] = F[x]
    BY <1>2, <1>9, <2>1, SMTT(60) DEF Holds, LocalInv, TypeInv
  <2>3. ASSUME NEW z \in Places \ {x, y} PROVE G[z] = F[z]
    <3>1. /\ \A s \in Sessions : outCache'[s] = outCache[s] \/ z # <<"outCache", s>>
          /\ \A u \in Threads : todo'[u] = todo[u] \/ z # <<"todo", u>>
          /\ \A u \in Threads : d'[u] = d[u] \/ z # <<"d", u>>
      BY <2>1, <2>3, Zenon DEF LocalInv, TypeInv
    <3>2. QED
      BY <1>6, <2>1, <2>3, <3>1, Zenon
  <2> HIDE DEF x, y
  <2>4. QED
    BY <1>1, <1>4, <2>1, <2>2, <2>3, MoveAll, ZenonT(60)
<1>10. ASSUME NEW t \in Threads, DrainPassCache(t) PROVE OnceInv'
  <2> DEFINE x == <<"passCache", None>>
             y == <<"todo", t>>
  <2>1. /\ todo' = [todo EXCEPT ![t] = passCache] /\ passCache' = <<>>
        /\ UNCHANGED <<outCache, d, given, sends>> /\ todo[t] = <<>>
    BY <1>10, ZenonT(60) DEF LocalInv, TypeInv, ThreadInv, Done, DrainPassCache, PassCached
  <2>2. x \in Places /\ y \in Places /\ x # y /\ F[y] = <<>> /\ G[x] = <<>> /\ G[y] = F[x]
    BY <1>2, <1>10, <2>1, ZenonT(60) DEF Holds, LocalInv, TypeInv
  <2>3. ASSUME NEW z \in Places \ {x, y} PROVE G[z] = F[z]
    <3>1. /\ \A s \in Sessions : outCache'[s] = outCache[s] \/ z # <<"outCache", s>>
          /\ \A u \in Threads : todo'[u] = todo[u] \/ z # <<"todo", u>>
          /\ \A u \in Threads : d'[u] = d[u] \/ z # <<"d", u>>
      BY <2>1, <2>3, ZenonT(60) DEF LocalInv, TypeInv
    <3>2. QED
      BY <1>6, <2>1, <2>3, <3>1, SMTT(60)
  <2> HIDE DEF x, y
  <2>4. QED
    BY <1>1, <1>4, <2>1, <2>2, <2>3, MoveAll, ZenonT(60)
<1>11. ASSUME NEW t \in Threads, Give(t), d[t] # <<>> PROVE OnceInv'
  <2> DEFINE x == <<"d", t>>
             y == <<"given", None>>
  <2>1. /\ d' = [d EXCEPT ![t] = Tail(d[t])] /\ cur[t] \in Sessions
        /\ given' = Append(given, <<Head(d[t]), esi[cur[t]]>>)
        /\ UNCHANGED <<outCache, passCache, todo, sends>> /\ d[t] # <<>>
    BY <1>11, ZenonT(60) DEF LocalInv, TypeInv, ThreadInv, Done, Give
  <2>2. x \in Places /\ y \in Places /\ x # y /\ F[x] # <<>> /\ G[x] = Tail(F[x])
        /\ G[y] = Append(F[y], Head(F[x]))
    <3>1. x \in Places /\ y \in Places /\ F[x] = d[t] /\ G[x] = d'[t]
      BY <1>2, <2>1, ZenonT(60) DEF Holds
    <3>2. F[y] = Firsts(given) /\ G[y] = Firsts(given')
      BY <1>2, ZenonT(60) DEF Holds
    <3>3. d'[t] = Tail(d[t]) /\ Head(d[t]) \in Packets
      BY <2>1, SeqParts, ZenonT(60) DEF LocalInv, TypeInv
    <3>4. Firsts(given') = Append(Firsts(given), Head(d[t]))
      <4>1. esi[cur[t]] \in Sessions \cup {None} /\ given \in Seq(Packets \X (Sessions \cup {None}))
        BY <2>1, ZenonT(60) DEF LocalInv, TypeInv
      <4>2. Firsts(Append(given, <<Head(d[t]), esi[cur[t]]>>)) = Append(Firsts(given), Head(d[t]))
        BY <3>3, <4>1, FirstsAppend, ZenonT(60)
      <4>3. QED
        BY <2>1, <4>2, ZenonT(60)
    <3>5. QED
      BY <2>1, <3>1, <3>2, <3>3, <3>4, ZenonT(60)
  <2>3. ASSUME NEW z \in Places \ {x, y} PROVE G[z] = F[z]
    <3>1. /\ \A s \in Sessions : outCache'[s] = outCache[s] \/ z # <<"outCache", s>>
          /\ \A u \in Threads : todo'[u] = todo[u] \/ z # <<"todo", u>>
          /\ \A u \in Threads : d'[u] = d[u] \/ z # <<"d", u>>
      BY <2>1, <2>3, SMTT(60) DEF LocalInv, TypeInv
    <3>2. QED
      BY <1>6, <2>1, <2>3, <3>1, SMTT(60)
  <2> HIDE DEF x, y
  <2>4. QED
    BY <1>1, <1>4, <2>1, <2>2, <2>3, MoveHead, ZenonT(60)
<1>12. ASSUME NEW t \in Threads, Give(t), d[t] = <<>>, todo[t] # <<>> PROVE OnceInv'
  <2> DEFINE x == <<"todo", t>>
             y == <<"given", None>>
  <2>1. /\ todo' = [todo EXCEPT ![t] = Tail(todo[t])] /\ cur[t] \in Sessions
        /\ given' = Append(given, <<Head(todo[t]), esi[cur[t]]>>)
        /\ UNCHANGED <<outCache, passCache, d, sends>> /\ todo[t] # <<>>
    BY <1>12, ZenonT(60) DEF LocalInv, TypeInv, ThreadInv, Done, Give
  <2>2. x \in Places /\ y \in Places /\ x # y /\ F[x] # <<>> /\ G[x] = Tail(F[x])
        /\ G[y] = Append(F[y], Head(F[x]))
    <3>1. x \in Places /\ y \in Places /\ F[x] = todo[t] /\ G[x] = todo'[t]
      BY <1>2, <2>1, ZenonT(60) DEF Holds
    <3>2. F[y] = Firsts(given) /\ G[y] = Firsts(given')
      BY <1>2, ZenonT(60) DEF Holds
    <3>3. todo'[t] = Tail(todo[t]) /\ Head(todo[t]) \in Packets
      BY <2>1, SeqParts, ZenonT(60) DEF LocalInv, TypeInv
    <3>4. Firsts(given') = Append(Firsts(given), Head(todo[t]))
      <4>1. esi[cur[t]] \in Sessions \cup {None} /\ given \in Seq(Packets \X (Sessions \cup {None}))
        BY <2>1, ZenonT(60) DEF LocalInv, TypeInv
      <4>2. Firsts(Append(given, <<Head(todo[t]), esi[cur[t]]>>)) = Append(Firsts(given), Head(todo[t]))
        BY <3>3, <4>1, FirstsAppend, ZenonT(60)
      <4>3. QED
        BY <2>1, <4>2, ZenonT(60)
    <3>5. QED
      BY <2>1, <3>1, <3>2, <3>3, <3>4, ZenonT(60)
  <2>3. ASSUME NEW z \in Places \ {x, y} PROVE G[z] = F[z]
    <3>1. /\ \A s \in Sessions : outCache'[s] = outCache[s] \/ z # <<"outCache", s>>
          /\ \A u \in Threads : todo'[u] = todo[u] \/ z # <<"todo", u>>
          /\ \A u \in Threads : d'[u] = d[u] \/ z # <<"d", u>>
      BY <2>1, <2>3, ZenonT(60) DEF LocalInv, TypeInv
    <3>2. QED
      BY <1>6, <2>1, <2>3, <3>1, ZenonT(60)
  <2> HIDE DEF x, y
  <2>4. QED
    BY <1>1, <1>4, <2>1, <2>2, <2>3, MoveHead, ZenonT(60)
<1>13. ASSUME NEW t \in Threads, Give(t), d[t] = <<>>, todo[t] = <<>> PROVE OnceInv'
  BY <1>3, <1>13, ZenonT(60) DEF Give
\* The other steps move none.
<1>14. ASSUME NEW t \in Threads,
              \/ CreateSession(t) \/ AskConnect(t) \/ AddSendPacket(t) \/ SetEsi(t) \/ EraseAddr(t)
              \/ EraseSock(t) \/ FlushAddr(t) \/ OnAccepted(t) \/ OnDisaccepted(t) \/ OnNotifyBindAddress(t)
              \/ \E s \in Sessions : FlushNext(t, s)
              \/ \E p \in Requests : OnConnected(t, p) \/ ConnectionEnds(t, p)
       PROVE  OnceInv'
  BY <1>3, <1>14, ZenonT(60) DEF CreateSession, AskConnect, AddSendPacket, SetEsi, EraseAddr,
     EraseSock, FlushAddr,
                     OnAccepted, OnDisaccepted, OnNotifyBindAddress, FlushNext, OnConnected,
                     ConnectionEnds
<1>15. ASSUME UNCHANGED vars PROVE OnceInv'
  BY <1>3, <1>15, ZenonT(60) DEF vars
<1>16. \A t \in Threads : Give(t) => OnceInv'
  BY <1>11, <1>12, <1>13, ZenonT(60)
<1>17. QED
  BY <1>5, <1>7, <1>8, <1>9, <1>10, <1>14, <1>15, <1>16, Zenon
  DEF Threads, Next, SenderGoesOn, PasserGoesOn, WorkerGoesOn, WorkerEvent, Adding

\* No packet is issued at first, and none is anywhere.
LEMMA OnceInit == Init => OnceInv
<1> SUFFICES ASSUME Init PROVE OnceInv
  BY Zenon
<1>1. Holds(Contents, outCache, todo, d, passCache, given)
  BY HeldAt, ZenonT(60) DEF Contents
<1>2. ASSUME NEW x \in Places PROVE DOMAIN Contents[x] = {}
  <2>1. CASE \E s \in Sessions : x = <<"outCache", s>>
    BY <1>1, <2>1, SMTT(60) DEF Holds, Init
  <2>2. CASE \E t \in Threads : x = <<"todo", t>> \/ x = <<"d", t>>
    BY <1>1, <2>2, SMTT(60) DEF Holds, Init
  <2>3. CASE x = <<"passCache", None>> \/ x = <<"given", None>>
    BY <1>1, <2>3, SMTT(60) DEF Holds, Init, Firsts
  <2>4. QED
    BY <2>1, <2>2, <2>3, PlaceCases, ZenonT(60)
<1>3. \A p \in Packets : ~Issued(p)
  BY BoundsAssumption DEF Init, Issued, Packets
<1>4. QED
  BY <1>2, <1>3, ZenonT(60) DEF OnceInv, Single, In

\* What is given is given once, and what is issued is in some place.
LEMMA OnceGiven ==
    ASSUME LocalInv, OnceInv
    PROVE  GivenOnceNoneLost
<1>1. Holds(Contents, outCache, todo, d, passCache, given)
  BY HeldAt, ZenonT(60) DEF Contents
<1>2. DOMAIN Firsts(given) = DOMAIN given /\ \A i \in DOMAIN given : Firsts(given)[i] = given[i][1]
  BY Zenon DEF Firsts
<1>3. \A i, j \in DOMAIN given : given[i][1] = given[j][1] => i = j
  BY <1>1, <1>2, SMTT(60) DEF OnceInv, Single, Holds
<1>4. ASSUME NEW p \in Packets, Issued(p)
      PROVE  \/ p \in GivenPackets \/ p \in Range(passCache)
             \/ \E s \in Sessions : p \in Range(outCache[s])
             \/ \E t \in Threads : p \in Range(todo[t]) \cup Range(d[t])
  <2>1. PICK x \in Places : \E i \in DOMAIN Contents[x] : Contents[x][i] = p
    BY <1>4, Zenon DEF OnceInv, In
  <2>2. CASE \E s \in Sessions : x = <<"outCache", s>>
    BY <1>1, <2>1, <2>2, SMTT(60) DEF Holds, Range
  <2>3. CASE \E t \in Threads : x = <<"todo", t>> \/ x = <<"d", t>>
    BY <1>1, <2>1, <2>3, SMTT(60) DEF Holds, Range
  <2>4. CASE x = <<"passCache", None>>
    BY <1>1, <2>1, <2>4, Zenon DEF Holds, Range
  <2>5. CASE x = <<"given", None>>
    BY <1>1, <1>2, <2>1, <2>5, SMTT(60) DEF Holds, GivenPackets
  <2>6. QED
    BY <2>2, <2>3, <2>4, <2>5, PlaceCases, Zenon
<1>5. QED
  BY <1>3, <1>4, ZenonT(60) DEF GivenOnceNoneLost

\* Whatever the number of threads and packets, and however their handlers interleave with
\* the flushes of on_Connected(), on_Accepted() and flushAll(): no packet reaches Oscar
\* twice and none is lost between the caches and the deques.
THEOREM PacketsGivenOnce == Spec => []GivenOnceNoneLost
<1>1. Init => LocalInv /\ OnceInv
  BY LocalInit, OnceInit, Zenon
<1>2. LocalInv /\ OnceInv /\ [Next]_vars => (LocalInv /\ OnceInv)'
  BY LocalStep, OnceStep, Zenon
<1>3. LocalInv /\ OnceInv => GivenOnceNoneLost
  BY OnceGiven, Zenon
<1>4. QED
  BY <1>1, <1>2, <1>3, PTL DEF Spec
=============================================================================
