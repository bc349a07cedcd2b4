---------------------------- MODULE SocketProofs ----------------------------
(***************************************************************************)
(* Proofs about one stream socket, for any number of threads that write to *)
(* it or close it.                                                         *)
(***************************************************************************)
EXTENDS Socket, SequenceTheorems, FiniteSetTheorems, TLAPS

-----------------------------------------------------------------------------
(* Where the threads are.                                                  *)

\* What may be left of the worker's turn.
Parts == {"in", "out", "err", "connected", "empty"}

Labels == Parts \cup {"idle", "done", "failed", "addEpoll", "addMS", "connect", "event", "closeSocket",
                      "remove", "close", "::close", "clear", "startWrite", "lookup", "handler",
                      "stopWrite", "sent", "mark"}

ControlInv == pc \in [Threads -> Labels] /\ ready \subseteq Parts

\* A thread that is through with closing goes on with one of these.
LEMMA BackTo ==
    ASSUME NEW t, ready \subseteq Parts
    PROVE  Back(t) \in Parts \cup {"failed", "idle", "done"}
BY Zenon DEF Back

\* Every thread stays within the functions it runs.
LEMMA ControlStep ==
    ASSUME ControlInv, [Next]_vars
    PROVE  ControlInv'
<1> USE BackTo DEF ControlInv, Labels, Parts, Goto, Go, PassEvent
<1>1. ASSUME NEW t \in Threads, NotifyClosing(t) PROVE ControlInv'
  BY <1>1 DEF Threads, NotifyClosing
<1>2. ASSUME NEW t \in Threads, RemoveFromMS(t) PROVE ControlInv'
  BY <1>2, Zenon DEF Threads, RemoveFromMS
<1>3. ASSUME NEW t \in Threads, TestClosed(t) PROVE ControlInv'
  BY <1>3, Zenon DEF Threads, TestClosed
<1>4. ASSUME NEW t \in Threads, CloseFd(t) PROVE ControlInv'
  BY <1>4, Zenon DEF Threads, CloseFd
<1>5. ASSUME NEW t \in Threads, ClearFd(t) PROVE ControlInv'
  BY <1>5, Zenon DEF Threads, ClearFd
<1>6. ASSUME AddEpoll PROVE ControlInv'
  BY <1>6, Zenon DEF Threads, AddEpoll
<1>7. ASSUME SetupFails PROVE ControlInv'
  BY <1>7, Zenon DEF Threads, SetupFails
<1>8. ASSUME AddMS PROVE ControlInv'
  BY <1>8, Zenon DEF Threads, AddMS
<1>9. ASSUME Connect PROVE ControlInv'
  BY <1>9, Zenon DEF Threads, Connect
<1>10. ASSUME SetupEvent PROVE ControlInv'
  BY <1>10, Zenon DEF Threads, SetupEvent
<1>11. ASSUME ConnectFailed PROVE ControlInv'
  BY <1>11, Zenon DEF Threads, ConnectFailed
<1>12. ASSUME EpollWait PROVE ControlInv'
  BY <1>12, Zenon DEF Threads, EpollWait, Ready
<1>13. ASSUME Lookup PROVE ControlInv'
  BY <1>13, ZenonT(60) DEF Threads, Lookup
<1>14. ASSUME OnEPOLLIN PROVE ControlInv'
  BY <1>14, Zenon DEF Threads, OnEPOLLIN
<1>15. ASSUME Handler PROVE ControlInv'
  BY <1>15, ZenonT(60) DEF Threads, Handler
<1>16. ASSUME OnConnected PROVE ControlInv'
  BY <1>16, ZenonT(60) DEF Threads, OnConnected
<1>17. ASSUME SockStopWrite PROVE ControlInv'
  BY <1>17, ZenonT(60) DEF Threads, SockStopWrite
<1>18. ASSUME PassConnected PROVE ControlInv'
  BY <1>18, Zenon DEF Threads, PassConnected
<1>19. ASSUME SendFails PROVE ControlInv'
  BY <1>19, Zenon DEF Threads, SendFails
<1>20. ASSUME Sent \/ NeedToClose PROVE ControlInv'
  BY <1>20, Zenon DEF Threads, Sent, NeedToClose
<1>21. ASSUME OutBufferEmpty PROVE ControlInv'
  BY <1>21, Zenon DEF Threads, OutBufferEmpty
<1>22. ASSUME NEW n \in 0 .. Len(outBuffer_), Send(n) PROVE ControlInv'
  BY <1>22, Zenon DEF Threads, Send, Unsent
<1>23. ASSUME Kernel PROVE ControlInv'
  BY <1>23, Zenon DEF Threads, Kernel, Arrive, LinkChange, Reuse
<1>24. ASSUME NEW w \in Writers, NEW mark \in BOOLEAN, Write(w, mark) PROVE ControlInv'
  BY <1>24, Zenon DEF Threads, Write, AppendOut
<1>25. ASSUME NEW w \in Writers, SockStartWrite(w) PROVE ControlInv'
  BY <1>25, Zenon DEF Threads, SockStartWrite
<1>26. ASSUME NEW c \in Closers, OutsideClose(c) PROVE ControlInv'
  BY <1>26, Zenon DEF Threads, OutsideClose
<1>27. ASSUME UNCHANGED vars PROVE ControlInv'
  BY <1>27, Zenon DEF Threads, vars
<1>28. QED
  BY <1>1, <1>2, <1>3, <1>4, <1>5, <1>6, <1>7, <1>8, <1>9, <1>10, <1>11, <1>12, <1>13, <1>14,
     <1>15, <1>16, <1>17, <1>18, <1>19, <1>20, <1>21, <1>22, <1>23, <1>24, <1>25, <1>26, <1>27,
     Zenon
  DEF Next, SetupStep, WorkerStep, WriterStep, CloserStep, Closing, Threads
-----------------------------------------------------------------------------
(* The out buffer.                                                         *)

Byte == Writers \X Nat

\* Everything up to the write that marked the socket has been sent.
Flushed == Len(sentOut) >= marked \/ "between" \in why

\* The stream is whole, and the mark of write_and_close() is behind what was sent once the
\* worker has decided to close, and before that while it is about to read the mark.
BufferInv ==
    /\ outBuffer_ \in Seq(Byte) /\ written \in Seq(Byte) /\ sentOut \in Seq(Byte)
    /\ StreamIntact
    /\ marked \in 0 .. Len(written)
    /\ pc[Worker] = "mark" => Flushed
    /\ "marked" \in why => marked > 0 /\ Flushed

\* The steps that neither touch the buffer nor bring the worker to the mark.
Still ==
    /\ UNCHANGED out
    /\ "marked" \in why' <=> "marked" \in why
    /\ "between" \in why' <=> "between" \in why
    /\ pc'[Worker] = "mark" => pc[Worker] = "mark"

\* Only a write, ::send and the tests of the size and of the mark are others.
LEMMA BufferSteps ==
    ASSUME ControlInv, [Next]_vars
    PROVE  \/ \E w \in Writers, mark \in BOOLEAN : Write(w, mark)
           \/ \E n \in 0 .. Len(outBuffer_) : Send(n)
           \/ Sent
           \/ NeedToClose
           \/ Still
<1> USE BackTo, ThreadsAssumption DEF ControlInv, Parts, Goto, Go
<1>1. ASSUME NEW t \in Threads, Closing(t) PROVE Still
  <2>1. UNCHANGED <<out, why>>
    BY <1>1, Zenon DEF Closing, NotifyClosing, RemoveFromMS, TestClosed, CloseFd, ClearFd
  <2>2. \E l : pc' = [pc EXCEPT ![t] = l] /\ l # "mark"
    <3>1. Back(t) # "mark"
      BY Zenon
    <3>2. QED
      BY <1>1, <3>1, ZenonT(60)
         DEF Closing, NotifyClosing, RemoveFromMS, TestClosed, CloseFd, ClearFd
  <2>3. QED
    BY <2>1, <2>2, Zenon DEF Still, Threads
<1>2. ASSUME SetupStep PROVE Still
  <2>1. CASE Closing(Setup)
    BY <1>1, <2>1, Zenon DEF Threads
  <2>2. CASE AddEpoll \/ SetupFails \/ AddMS \/ Connect \/ SetupEvent \/ ConnectFailed
    <3>1. UNCHANGED out /\ ("marked" \in why' <=> "marked" \in why)
          /\ ("between" \in why' <=> "between" \in why)
      BY <2>2, Zenon DEF AddEpoll, SetupFails, AddMS, Connect, SetupEvent, ConnectFailed
    <3>2. \E l : pc' = [pc EXCEPT ![Setup] = l]
      BY <2>2, Zenon DEF AddEpoll, SetupFails, AddMS, Connect, SetupEvent, ConnectFailed
    <3>3. QED
      BY <3>1, <3>2, Zenon DEF Still, Threads
  <2>3. QED
    BY <1>2, <2>1, <2>2, Zenon DEF SetupStep
<1>3. ASSUME WorkerStep, ~(\E n \in 0 .. Len(outBuffer_) : Send(n)), ~Sent, ~NeedToClose PROVE Still
  <2>1. CASE Closing(Worker)
    BY <1>1, <2>1, Zenon DEF Threads
  <2>2. CASE \/ EpollWait \/ Lookup \/ OnEPOLLIN \/ Handler \/ OnConnected \/ SockStopWrite
             \/ PassConnected \/ SendFails \/ OutBufferEmpty
    <3>1. UNCHANGED out /\ ("marked" \in why' <=> "marked" \in why)
          /\ ("between" \in why' <=> "between" \in why)
      BY <2>2, Zenon DEF EpollWait, Lookup, OnEPOLLIN, Handler, OnConnected, SockStopWrite,
         PassConnected, SendFails, OutBufferEmpty
    <3>2. \E l : pc' = [pc EXCEPT ![Worker] = l] /\ l # "mark"
      <4>1. Back(Worker) # "mark"
        BY Zenon
      <4>2. CASE EpollWait \/ Lookup \/ OnEPOLLIN \/ Handler \/ OnConnected
        BY <4>1, <4>2, ZenonT(60) DEF EpollWait, Lookup, OnEPOLLIN, Handler, OnConnected
      <4>3. CASE SockStopWrite \/ PassConnected \/ SendFails \/ OutBufferEmpty
        BY <4>3, ZenonT(60) DEF SockStopWrite, PassConnected, SendFails, OutBufferEmpty
      <4>4. QED
        BY <2>2, <4>2, <4>3, Zenon
    <3>3. QED
      BY <3>1, <3>2, Zenon DEF Still, Threads
  <2>3. QED
    BY <1>3, <2>1, <2>2, Zenon DEF WorkerStep
<1>4. ASSUME Kernel PROVE Still
  BY <1>4, Zenon DEF Kernel, Still
<1>5. ASSUME NEW w \in Writers \cup Closers, SockStartWrite(w) \/ OutsideClose(w) PROVE Still
  <2>1. \E l : pc' = [pc EXCEPT ![w] = l]
    BY <1>5, Zenon DEF SockStartWrite, OutsideClose
  <2>2. UNCHANGED out /\ ("marked" \in why' <=> "marked" \in why)
        /\ ("between" \in why' <=> "between" \in why)
    BY <1>5, Zenon DEF SockStartWrite, OutsideClose
  <2>3. QED
    BY <2>1, <2>2, Zenon DEF Still, Threads
<1>6. ASSUME UNCHANGED vars PROVE Still
  BY <1>6, Zenon DEF vars, out, Still
<1>7. QED
  BY <1>1, <1>2, <1>3, <1>4, <1>5, <1>6, ZenonT(60) DEF Next, WriterStep, CloserStep, Threads

\* Sequences put together.
LEMMA Joined ==
    ASSUME NEW S, NEW a \in Seq(S), NEW b \in Seq(S)
    PROVE  /\ a \o b \in Seq(S) /\ Len(a \o b) = Len(a) + Len(b)
BY ConcatProperties, Zenon

\* Appends in two steps or one.
LEMMA JoinedTwice ==
    ASSUME NEW a \in Seq(Byte), NEW b \in Seq(Byte), NEW c \in Seq(Byte)
    PROVE  (a \o b) \o c = a \o (b \o c)
BY ConcatAssociative, SMTT(60)

\* A sequence is its first n elements and the others.
LEMMA Cut ==
    ASSUME NEW S, NEW s \in Seq(S), NEW n \in 0 .. Len(s)
    PROVE  /\ SubSeq(s, 1, n) \in Seq(S) /\ SubSeq(s, n + 1, Len(s)) \in Seq(S)
           /\ SubSeq(s, 1, n) \o SubSeq(s, n + 1, Len(s)) = s
<1>1. SubSeq(s, 1, n) \in Seq(S) /\ SubSeq(s, n + 1, Len(s)) \in Seq(S)
  OBVIOUS
<1>2. SubSeq(s, 1, Len(s)) = s
  BY SubSeqFull, Zenon
<1>3. SubSeq(s, 1, n) \o SubSeq(s, n + 1, Len(s)) = SubSeq(s, 1, Len(s))
  <2>1. 1 \in 1 .. Len(s) + 1 /\ n \in 1 - 1 .. Len(s) /\ Len(s) \in n .. Len(s)
    OBVIOUS
  <2>2. QED
    BY <2>1, ConcatAdjacentSubSeq, Zenon
<1>4. QED
  BY <1>1, <1>2, <1>3, ZenonT(60)

\* The buffer begins empty.
LEMMA BufferInit == Init => ControlInv /\ BufferInv
<1> SUFFICES ASSUME Init PROVE ControlInv /\ BufferInv
  BY Zenon
<1>1. ControlInv /\ pc[Worker] = "idle" /\ "marked" \notin why
  BY ThreadsAssumption, Zenon DEF Init, ControlInv, Labels, Parts, Threads
<1>2. QED
  BY <1>1 DEF Init, BufferInv, StreamIntact

\* An append, a send of any part and the test of the mark keep the stream whole.
LEMMA BufferStep == ControlInv /\ BufferInv /\ [Next]_vars => BufferInv'
<1> SUFFICES ASSUME ControlInv, BufferInv, [Next]_vars PROVE BufferInv'
  BY Zenon
<1>1. ASSUME NEW w \in Writers, NEW mark \in BOOLEAN, Write(w, mark) PROVE BufferInv'
  <2> DEFINE b == Piece(w)
  <2>1. b \in Seq(Byte) /\ Len(b) = Size[w] /\ Size[w] \in Nat \ {0}
    <3>1. Size[w] \in Nat \ {0}
      BY SizeAssumption, Zenon
    <3>2. b \in [1 .. Size[w] -> Byte]
      BY <3>1 DEF Piece, Byte
    <3>3. QED
      BY <3>1, <3>2
  <2>0. pc'[Worker] = pc[Worker]
    BY <1>1, ThreadsAssumption, Zenon DEF Write, Goto, Go, ControlInv, Threads
  <2>2. CASE ~fd_
    <3>1. UNCHANGED <<outBuffer_, written, marked, why, sentOut>> /\ pc'[Worker] = pc[Worker]
      BY <1>1, <2>0, <2>2, Zenon DEF Write
    <3>2. QED
      BY <3>1, Zenon DEF BufferInv, StreamIntact, Flushed
  <2>3. CASE fd_
    <3>1. outBuffer_' = outBuffer_ \o b /\ written' = written \o b /\ sentOut' = sentOut
      BY <1>1, <2>3, ZenonT(60) DEF Write, AppendOut
    <3>2. marked' = IF mark /\ marked = 0 THEN Len(written') ELSE marked
      BY <1>1, <2>3, Zenon DEF Write, AppendOut
    <3>3. /\ "marked" \in why' <=> "marked" \in why
          /\ "between" \in why => "between" \in why'
          /\ pc[Worker] = "mark" /\ marked' # marked => "between" \in why'
      <4>1. why' = why \cup Amid(mark) /\ (marked' # marked => mark /\ marked = 0)
        BY <1>1, <2>3, <3>2, Zenon DEF Write
      <4>2. /\ Amid(mark) \subseteq {"early", "between"}
            /\ pc[Worker] = "mark" /\ mark /\ marked = 0 => "between" \in Amid(mark)
        BY Zenon DEF Amid
      <4>3. QED
        BY <4>1, <4>2, Zenon
    <3> HIDE DEF b
    <3>4. outBuffer_' \in Seq(Byte) /\ written' \in Seq(Byte) /\ Len(written') = Len(written) + Size[w]
      <4>1. outBuffer_ \o b \in Seq(Byte)
        BY <2>1, Joined, Zenon DEF BufferInv
      <4>2. written \o b \in Seq(Byte) /\ Len(written \o b) = Len(written) + Len(b)
        BY <2>1, Joined, ZenonT(60) DEF BufferInv
      <4>3. QED
        BY <2>1, <3>1, <4>1, <4>2, Zenon
    <3>5. StreamIntact'
      <4>0. sentOut \in Seq(Byte) /\ outBuffer_ \in Seq(Byte) /\ b \in Seq(Byte)
        BY <2>1, Zenon DEF BufferInv
      <4>1. (sentOut \o outBuffer_) \o b = sentOut \o (outBuffer_ \o b)
        BY <4>0, JoinedTwice, Zenon
      <4>2. QED
        BY <3>1, <4>1, Zenon DEF BufferInv, StreamIntact
    <3>6. Len(written) \in Nat
      BY DEF BufferInv
    <3>7. marked' \in 0 .. Len(written') /\ (marked > 0 => marked' = marked)
      BY <2>1, <3>2, <3>4, <3>6 DEF BufferInv
    <3>8. pc'[Worker] = "mark" => Flushed'
      BY <2>0, <3>1, <3>3, Zenon DEF BufferInv, Flushed
    <3>9. "marked" \in why' => marked' > 0 /\ Flushed'
      BY <3>1, <3>3, <3>7, Zenon DEF BufferInv, Flushed
    <3>10. QED
      BY <3>1, <3>4, <3>5, <3>7, <3>8, <3>9, Zenon DEF BufferInv
  <2>4. QED
    BY <2>2, <2>3, Zenon
<1>2. ASSUME NEW n \in 0 .. Len(outBuffer_), Send(n) PROVE BufferInv'
  <2> DEFINE a == SubSeq(outBuffer_, 1, n)
             z == SubSeq(outBuffer_, n + 1, Len(outBuffer_))
  <2>1. a \in Seq(Byte) /\ z \in Seq(Byte) /\ a \o z = outBuffer_
    BY Cut, ZenonT(60) DEF BufferInv
  <2>2. outBuffer_' = z /\ sentOut' = sentOut \o a /\ UNCHANGED <<written, marked, why>>
    BY <1>2, Zenon DEF Send, Unsent
  <2> HIDE DEF a, z
  <2>3. sentOut' \in Seq(Byte) /\ Len(sentOut') = Len(sentOut) + Len(a) /\ Len(a) \in Nat /\ Len(sentOut) \in Nat
    BY <2>1, <2>2, ConcatProperties DEF BufferInv
  <2>4. StreamIntact'
    <3>0. sentOut \in Seq(Byte) /\ a \in Seq(Byte) /\ z \in Seq(Byte)
      BY <2>1, Zenon DEF BufferInv
    <3>1. (sentOut \o a) \o z = sentOut \o (a \o z)
      BY <3>0, JoinedTwice, Zenon
    <3>2. QED
      BY <2>1, <2>2, <3>1, Zenon DEF BufferInv, StreamIntact
  <2>5. pc'[Worker] # "mark"
    BY <1>2, ThreadsAssumption, Zenon DEF Send, Goto, ControlInv, Threads
  <2>6. "marked" \in why => marked > 0 /\ Flushed'
    BY <2>2, <2>3 DEF BufferInv, Flushed
  <2>7. QED
    BY <2>1, <2>2, <2>3, <2>4, <2>5, <2>6, Zenon DEF BufferInv
<1>3. ASSUME Sent PROVE BufferInv'
  <2>1. UNCHANGED <<out, why>> /\ (pc'[Worker] = "mark" => outBuffer_ = <<>>)
    BY <1>3, ThreadsAssumption, Zenon DEF Sent, Emptied, Goto, Go, ControlInv, Threads
  <2>2. ASSUME outBuffer_ = <<>> PROVE Flushed
    <3>1. sentOut = written
      BY <2>2, ConcatEmptySeq, Zenon DEF BufferInv, StreamIntact
    <3>2. QED
      BY <3>1 DEF BufferInv, Flushed
  <2>3. QED
    BY <2>1, <2>2, Zenon DEF out, BufferInv, StreamIntact, Flushed
<1>4. ASSUME NeedToClose PROVE BufferInv'
  <2>1. /\ UNCHANGED out /\ pc[Worker] = "mark" /\ pc'[Worker] # "mark"
        /\ "between" \in why' <=> "between" \in why
        /\ "marked" \in why' => marked > 0
    BY <1>4, ThreadsAssumption, Zenon DEF NeedToClose, Goto, Go, ControlInv, BufferInv, Threads
  <2>2. QED
    BY <2>1, Zenon DEF out, BufferInv, StreamIntact, Flushed
<1>5. ASSUME Still PROVE BufferInv'
  BY <1>5, Zenon DEF out, BufferInv, StreamIntact, Flushed, Still
<1>6. QED
  BY <1>1, <1>2, <1>3, <1>4, <1>5, BufferSteps, Zenon

\* The buffer is in order throughout.
LEMMA BufferInvariant == Spec => []BufferInv
BY BufferInit, ControlStep, BufferStep, PTL DEF Spec

\* Whatever threads append to outBuffer_ while the worker sends parts of it: what was sent
\* and what is left are what was written, in that order.
THEOREM StreamStaysIntact == Spec => []StreamIntact
<1>1. BufferInv => StreamIntact
  BY Zenon DEF BufferInv
<1>2. QED
  BY <1>1, BufferInvariant, PTL

\* When the worker decides to close a socket for markedToDestroyOnSend_, the peer has been
\* sent everything up to the write that marked it, although the worker reads the size and
\* the mark without holding the lock across both; only a marking write that falls between
\* the two reads is lost.
THEOREM ClosedAfterFlush == Spec => []FlushedBeforeClose
<1>1. BufferInv => FlushedBeforeClose
  BY Zenon DEF BufferInv, Flushed, FlushedBeforeClose
<1>2. QED
  BY <1>1, BufferInvariant, PTL
-----------------------------------------------------------------------------
(* The descriptor.                                                         *)

\* The thread that closed the number is about to reset fd_, or has done so.
OwnInv ==
    /\ closer \subseteq Threads
    /\ number = "mine" => foreign = {} /\ closer = {}
    /\ \A t \in closer : pc[t] = "clear" \/ (~fd_ /\ pc[t] # "::close")
    /\ OwnDescriptor

\* No step uses the number in the name of the thread that closed it.
LEMMA OwnStep ==
    ASSUME ControlInv, OwnInv, [Next]_vars
    PROVE  OwnInv'
<1> USE BackTo DEF ControlInv, OwnInv, OwnDescriptor, Parts, Goto, Go, Foreign
<1>1. ASSUME NEW t \in Threads, NotifyClosing(t) PROVE OwnInv'
  BY <1>1, Zenon DEF Threads, kernel, NotifyClosing
<1>2. ASSUME NEW t \in Threads, RemoveFromMS(t) PROVE OwnInv'
  BY <1>2, Zenon DEF Threads, kernel, RemoveFromMS
<1>3. ASSUME NEW t \in Threads, TestClosed(t) PROVE OwnInv'
  BY <1>3, Zenon DEF Threads, kernel, TestClosed
<1>4. ASSUME NEW t \in Threads, CloseFd(t) PROVE OwnInv'
  BY <1>4, Zenon DEF Threads, kernel, CloseFd
<1>5. ASSUME NEW t \in Threads, ClearFd(t) PROVE OwnInv'
  BY <1>5, Zenon DEF Threads, kernel, ClearFd
<1>6. ASSUME AddEpoll PROVE OwnInv'
  BY <1>6, Zenon DEF Threads, kernel, AddEpoll
<1>7. ASSUME SetupFails PROVE OwnInv'
  BY <1>7, Zenon DEF Threads, kernel, SetupFails
<1>8. ASSUME AddMS PROVE OwnInv'
  BY <1>8, Zenon DEF Threads, kernel, AddMS
<1>9. ASSUME Connect PROVE OwnInv'
  BY <1>9, Zenon DEF Threads, kernel, Connect
<1>10. ASSUME SetupEvent PROVE OwnInv'
  BY <1>10, Zenon DEF Threads, kernel, SetupEvent
<1>11. ASSUME ConnectFailed PROVE OwnInv'
  BY <1>11, Zenon DEF Threads, kernel, ConnectFailed
<1>12. ASSUME EpollWait PROVE OwnInv'
  BY <1>12, Zenon DEF Threads, kernel, EpollWait, Ready
<1>13. ASSUME Lookup PROVE OwnInv'
  BY <1>13, Zenon DEF Threads, kernel, Lookup
<1>14. ASSUME OnEPOLLIN PROVE OwnInv'
  BY <1>14, Zenon DEF Threads, kernel, OnEPOLLIN
<1>15. ASSUME Handler PROVE OwnInv'
  BY <1>15, ZenonT(60) DEF Threads, kernel, Handler
<1>16. ASSUME OnConnected PROVE OwnInv'
  BY <1>16, ZenonT(60) DEF Threads, kernel, OnConnected
<1>17. ASSUME SockStopWrite PROVE OwnInv'
  BY <1>17, Zenon DEF Threads, kernel, SockStopWrite
<1>18. ASSUME PassConnected PROVE OwnInv'
  BY <1>18, Zenon DEF Threads, kernel, PassConnected
<1>19. ASSUME SendFails PROVE OwnInv'
  BY <1>19, Zenon DEF Threads, kernel, SendFails
<1>20. ASSUME Sent \/ NeedToClose PROVE OwnInv'
  <2>1. PICK l \in {"mark", "empty"} : pc' = [pc EXCEPT ![Worker] = l]
    BY <1>20, Zenon DEF Sent, NeedToClose
  <2>2. /\ pc[Worker] \in {"sent", "mark"}
        /\ UNCHANGED <<foreign, fd_, sock, interest, out, kernel, ready, passed>>
        /\ ("failed" \in why' <=> "failed" \in why) /\ ("outside" \in why' <=> "outside" \in why)
        /\ ("early" \in why' <=> "early" \in why)
    BY <1>20, Zenon DEF Sent, NeedToClose
  <2>3. QED
    BY <2>1, <2>2, Zenon DEF Threads, kernel
<1>21. ASSUME OutBufferEmpty PROVE OwnInv'
  BY <1>21, Zenon DEF Threads, kernel, OutBufferEmpty
<1>22. ASSUME NEW n \in 0 .. Len(outBuffer_), Send(n) PROVE OwnInv'
  BY <1>22, Zenon DEF Threads, kernel, Send, Unsent
<1>23. ASSUME Kernel PROVE OwnInv'
  BY <1>23, Zenon DEF Threads, kernel, Kernel, Arrive, LinkChange, Reuse
<1>24. ASSUME NEW w \in Writers, NEW mark \in BOOLEAN, Write(w, mark) PROVE OwnInv'
  BY <1>24, Zenon DEF Threads, kernel, Write, AppendOut
<1>25. ASSUME NEW w \in Writers, SockStartWrite(w) PROVE OwnInv'
  BY <1>25, Zenon DEF Threads, kernel, SockStartWrite
<1>26. ASSUME NEW c \in Closers, OutsideClose(c) PROVE OwnInv'
  BY <1>26, Zenon DEF Threads, kernel, OutsideClose
<1>27. ASSUME UNCHANGED vars PROVE OwnInv'
  BY <1>27, Zenon DEF Threads, kernel, vars
<1> HIDE BackTo DEF ControlInv, OwnInv, OwnDescriptor, Parts, Goto, Go, Foreign
<1>28. ASSUME NEW t \in Threads, Closing(t) PROVE OwnInv'
  BY <1>1, <1>2, <1>3, <1>4, <1>5, <1>28, Zenon DEF Closing
<1>29. CASE SetupStep
  BY <1>6, <1>7, <1>8, <1>9, <1>10, <1>11, <1>28, <1>29, Zenon DEF SetupStep, Threads
<1>30. CASE WorkerStep
  BY <1>12, <1>13, <1>14, <1>15, <1>16, <1>17, <1>18, <1>19, <1>20, <1>21, <1>22, <1>28, <1>30, Zenon
  DEF WorkerStep, Threads
<1>31. ASSUME NEW w \in Writers, WriterStep(w) PROVE OwnInv'
  BY <1>24, <1>25, <1>28, <1>31, Zenon DEF WriterStep, Threads
<1>32. ASSUME NEW c \in Closers, CloserStep(c) PROVE OwnInv'
  BY <1>26, <1>28, <1>32, Zenon DEF CloserStep, Threads
<1>33. QED
  BY <1>23, <1>27, <1>29, <1>30, <1>31, <1>32, Zenon DEF Next

\* However the closes of the worker, of handlers and of other services meet: a thread that
\* closed the socket makes no later call with its number.
THEOREM DescriptorLeftAlone == Spec => []OwnDescriptor
<1>1. Init => ControlInv /\ OwnInv
  BY Zenon DEF Init, ControlInv, OwnInv, OwnDescriptor, Labels, Parts
<1>2. ControlInv /\ OwnInv /\ [Next]_vars => (ControlInv /\ OwnInv)'
  BY ControlStep, OwnStep, Zenon
<1>3. ControlInv /\ OwnInv => OwnDescriptor
  BY Zenon DEF OwnInv
<1>4. QED
  BY <1>1, <1>2, <1>3, PTL DEF Spec
-----------------------------------------------------------------------------
(* EPOLLOUT.                                                               *)

\* Nothing happens to a socket before it is added to epoll; nothing is in the buffer when
\* sockStopWrite() is called, except for the early write.
StrandInv ==
    /\ NotStranded
    /\ pc[Setup] = "addEpoll" => /\ outBuffer_ = <<>> /\ passed = <<>> /\ interest = {}
                                 /\ \A t \in Threads \ {Setup} : pc[t] = "idle"
    /\ pc[Worker] = "stopWrite" => outBuffer_ = <<>> \/ "early" \in why

\* Nobody has the socket before an event is passed.
LEMMA NoEsi == passed = <<>> => ~HasEsi
<1> SUFFICES ASSUME passed = <<>> PROVE ~HasEsi
  BY Zenon
<1>1. ASSUME NEW e PROVE Count(e) = 0
  <2>1. {i \in DOMAIN passed : passed[i] = e} = {}
    OBVIOUS
  <2>2. QED
    BY <2>1, FS_EmptySet, Zenon DEF Count
<1>2. QED
  BY <1>1 DEF HasEsi

\* No step leaves data waiting without EPOLLOUT.
LEMMA StrandStep ==
    ASSUME ControlInv, BufferInv, StrandInv, [Next]_vars
    PROVE  StrandInv'
<1> USE BackTo, NoEsi, ThreadsAssumption
        DEF ControlInv, StrandInv, NotStranded, Parts, Goto, Go, Foreign, PassEvent
<1>1. ASSUME NEW t \in Threads, NotifyClosing(t) PROVE StrandInv'
  BY <1>1, ZenonT(60) DEF Threads, kernel, out, sock, NotifyClosing
<1>2. ASSUME NEW t \in Threads, RemoveFromMS(t) PROVE StrandInv'
  BY <1>2, Zenon DEF Threads, kernel, out, sock, RemoveFromMS
<1>3. ASSUME NEW t \in Threads, TestClosed(t) PROVE StrandInv'
  BY <1>3, Zenon DEF Threads, kernel, out, sock, TestClosed
<1>4. ASSUME NEW t \in Threads, CloseFd(t) PROVE StrandInv'
  BY <1>4, Zenon DEF Threads, kernel, out, sock, CloseFd
<1>5. ASSUME NEW t \in Threads, ClearFd(t) PROVE StrandInv'
  BY <1>5, Zenon DEF Threads, kernel, out, sock, ClearFd
<1>6. ASSUME AddEpoll PROVE StrandInv'
  BY <1>6, Zenon DEF Threads, kernel, out, sock, AddEpoll
<1>7. ASSUME SetupFails PROVE StrandInv'
  BY <1>7, Zenon DEF Threads, kernel, out, sock, SetupFails
<1>8. ASSUME AddMS PROVE StrandInv'
  BY <1>8, Zenon DEF Threads, kernel, out, sock, AddMS
<1>9. ASSUME Connect PROVE StrandInv'
  BY <1>9, Zenon DEF Threads, kernel, out, sock, Connect
<1>10. ASSUME SetupEvent PROVE StrandInv'
  BY <1>10, Zenon DEF Threads, kernel, out, sock, SetupEvent
<1>11. ASSUME ConnectFailed PROVE StrandInv'
  BY <1>11, Zenon DEF Threads, kernel, out, sock, ConnectFailed
<1>12. ASSUME EpollWait PROVE StrandInv'
  BY <1>12, Zenon DEF Threads, kernel, out, sock, EpollWait, Ready
<1>13. ASSUME Lookup PROVE StrandInv'
  BY <1>13, Zenon DEF Threads, kernel, out, sock, Lookup
<1>14. ASSUME OnEPOLLIN PROVE StrandInv'
  BY <1>14, Zenon DEF Threads, kernel, out, sock, OnEPOLLIN
<1>15. ASSUME Handler PROVE StrandInv'
  BY <1>15, Zenon DEF Threads, kernel, out, sock, Handler
<1>16. ASSUME OnConnected PROVE StrandInv'
  BY <1>16, ZenonT(60) DEF Threads, kernel, out, sock, OnConnected
<1>17. ASSUME SockStopWrite PROVE StrandInv'
  BY <1>17 DEF Threads, kernel, out, sock, SockStopWrite
<1>18. ASSUME PassConnected PROVE StrandInv'
  BY <1>18 DEF Threads, kernel, out, sock, PassConnected
<1>19. ASSUME SendFails PROVE StrandInv'
  BY <1>19, Zenon DEF Threads, kernel, out, sock, SendFails
<1>20. ASSUME Sent \/ NeedToClose PROVE StrandInv'
  <2>1. PICK l \in {"mark", "empty"} : pc' = [pc EXCEPT ![Worker] = l]
    BY <1>20, Zenon DEF Sent, NeedToClose
  <2>2. /\ pc[Worker] \in {"sent", "mark"}
        /\ UNCHANGED <<foreign, fd_, sock, interest, out, kernel, ready, passed>>
        /\ ("failed" \in why' <=> "failed" \in why) /\ ("outside" \in why' <=> "outside" \in why)
        /\ ("early" \in why' <=> "early" \in why)
    BY <1>20, Zenon DEF Sent, NeedToClose
  <2>3. QED
    BY <2>1, <2>2, ZenonT(60) DEF Threads, kernel, out, sock
<1>21. ASSUME OutBufferEmpty PROVE StrandInv'
  BY <1>21, Zenon DEF Threads, kernel, out, sock, OutBufferEmpty
<1>22. ASSUME NEW n \in 0 .. Len(outBuffer_), Send(n) PROVE StrandInv'
  BY <1>22 DEF Threads, kernel, out, sock, Send, Unsent
<1>23. ASSUME Kernel PROVE StrandInv'
  BY <1>23, Zenon DEF Threads, kernel, out, sock, Kernel, Arrive, LinkChange, Reuse
<1>24. ASSUME NEW w \in Writers, NEW mark \in BOOLEAN, Write(w, mark) PROVE StrandInv'
  BY <1>24, Zenon DEF Threads, kernel, out, sock, Write, AppendOut, Amid
<1>25. ASSUME NEW w \in Writers, SockStartWrite(w) PROVE StrandInv'
  BY <1>25, Zenon DEF Threads, kernel, out, sock, SockStartWrite
<1>26. ASSUME NEW c \in Closers, OutsideClose(c) PROVE StrandInv'
  BY <1>26, Zenon DEF Threads, kernel, out, sock, OutsideClose
<1>27. ASSUME UNCHANGED vars PROVE StrandInv'
  BY <1>27, Zenon DEF Threads, kernel, out, sock, vars
<1>28. QED
  BY <1>1, <1>2, <1>3, <1>4, <1>5, <1>6, <1>7, <1>8, <1>9, <1>10, <1>11, <1>12, <1>13, <1>14,
     <1>15, <1>16, <1>17, <1>18, <1>19, <1>20, <1>21, <1>22, <1>23, <1>24, <1>25, <1>26, <1>27,
     ZenonT(60)
  DEF Next, SetupStep, WorkerStep, WriterStep, CloserStep, Closing, Threads

\* With any number of writers: data that waits in an open socket is never forgotten by
\* epoll, because a writer asks for EPOLLOUT after each append and the worker takes it
\* back only under the lock, when it has emptied the buffer.
THEOREM WaitingDataAskedFor == Spec => []NotStranded
<1>1. Init => ControlInv /\ StrandInv
  BY ThreadsAssumption, Zenon DEF Init, ControlInv, StrandInv, NotStranded, Labels, Parts, Threads
<1>2. ControlInv /\ BufferInv /\ StrandInv /\ [Next]_vars => (ControlInv /\ StrandInv)'
  BY ControlStep, StrandStep, Zenon
<1>3. StrandInv => NotStranded
  BY Zenon DEF StrandInv
<1>4. QED
  BY <1>1, <1>2, <1>3, BufferInvariant, PTL DEF Spec
-----------------------------------------------------------------------------
(* The events that tell of the end.                                        *)

Ends   == {"Disaccepted", "Disconnected", "ConnectFailed"}
Others == {"Accepted", "Connected", "StreamRead", "NotifyOutBufferEmpty"}

Told    == \E i \in DOMAIN passed : passed[i] \in Ends
One     == \A i, j \in DOMAIN passed : passed[i] \in Ends /\ passed[j] \in Ends => i = j
AllEnds == \A i \in DOMAIN passed : passed[i] \in Ends

\* A thread that has told of the end goes through these.
Leaving == {"remove", "close", "::close", "clear"}

\* Until the socket is in the container nothing happens to it.
SetupInv ==
    pc[Setup] \in {"addEpoll", "addMS"} =>
        /\ passed = <<>> /\ number = "mine" /\ fd_ /\ ~inMS
        /\ \A t \in Threads \ {Setup} : pc[t] = "idle" \/ (t = Worker /\ pc[t] = "lookup")

\* A set-up that fails before connect() has the socket for itself.
FailInv ==
    /\ pc[Setup] \in Leaving \cup {"closeSocket"} /\ "failed" \notin why =>
          /\ AllEnds /\ interest = {} /\ (pc[Setup] = "closeSocket" => ~Told)
          /\ \A t \in Threads \ {Setup} : pc[t] = "idle"
    /\ pc[Setup] = "failed" => "failed" \in why

\* Only the worker and the set-up tell, and who has told is leaving until fd_ is reset.
TellInv ==
    /\ \A t \in Threads : pc[t] \in {"closeSocket", "remove"} => t \in {Setup, Worker}
    /\ \A t \in Threads : pc[t] = "remove" => Told
    /\ "failed" \notin why => One
    /\ "failed" \notin why /\ Told => ~fd_ \/ pc[Worker] \in Leaving \/ pc[Setup] \in Leaving

\* Without a close() from outside the number is given up only after the service is told and
\* the socket taken out of the container.
GoneInv ==
    \/ "outside" \in why
    \/ Told /\ ~inMS
    \/ number = "mine" /\ fd_ /\ \A t \in Threads : pc[t] \notin {"close", "::close", "clear"}

EndInv == passed \in Seq(Ends \cup Others) /\ SetupInv /\ FailInv /\ TellInv /\ GoneInv

\* An event that does not tell of the end.
LEMMA PassOther ==
    ASSUME NEW e \in Others, passed \in Seq(Ends \cup Others), PassEvent(e)
    PROVE  /\ passed' \in Seq(Ends \cup Others)
           /\ (Told' <=> Told) /\ (One => One')
<1>1. /\ passed' \in Seq(Ends \cup Others)
      /\ DOMAIN passed' = DOMAIN passed \cup {Len(passed) + 1}
      /\ passed'[Len(passed) + 1] = e
      /\ \A i \in DOMAIN passed : passed'[i] = passed[i]
  BY DEF PassEvent
<1>2. e \notin Ends
  BY Zenon DEF Ends, Others
<1>3. QED
  BY <1>1, <1>2, ZenonT(60) DEF Told, One

\* One that does.
LEMMA PassEnd ==
    ASSUME NEW e \in Ends, passed \in Seq(Ends \cup Others), PassEvent(e)
    PROVE  /\ passed' \in Seq(Ends \cup Others)
           /\ Told' /\ (~Told => One') /\ (AllEnds => AllEnds')
<1>1. /\ passed' \in Seq(Ends \cup Others)
      /\ DOMAIN passed' = DOMAIN passed \cup {Len(passed) + 1}
      /\ passed'[Len(passed) + 1] = e
      /\ \A i \in DOMAIN passed : passed'[i] = passed[i]
  BY DEF PassEvent
<1>2. QED
  BY <1>1, ZenonT(60) DEF Told, One, AllEnds

LEMMA PassNothing ==
    ASSUME UNCHANGED passed
    PROVE  (Told' <=> Told) /\ (One' <=> One) /\ (AllEnds' <=> AllEnds)
BY Zenon DEF Told, One, AllEnds

LEMMA NothingPassed == passed = <<>> => ~Told /\ One /\ AllEnds
<1>1. DOMAIN <<>> = {}
  OBVIOUS
<1>2. QED
  BY <1>1, Zenon DEF Told, One, AllEnds

\* Nobody has a socket of which only the end was told.
LEMMA EndsGiveNoEsi == AllEnds => ~HasEsi
<1> SUFFICES ASSUME AllEnds PROVE ~HasEsi
  BY Zenon
<1>1. ASSUME NEW e \in {"Accepted", "Connected", "StreamRead"} PROVE Count(e) = 0
  <2>1. {i \in DOMAIN passed : passed[i] = e} = {}
    BY Zenon DEF AllEnds, Ends
  <2>2. QED
    BY <2>1, FS_EmptySet, Zenon DEF Count
<1>2. QED
  BY <1>1 DEF HasEsi

LEMMA EndStep ==
    ASSUME ControlInv, StrandInv, EndInv, [Next]_vars
    PROVE  EndInv'
<1> USE BackTo, PassNothing, NothingPassed, EndsGiveNoEsi, ThreadsAssumption
        DEF ControlInv, EndInv, SetupInv, FailInv, TellInv, GoneInv, Leaving, Parts, Goto, Go,
        Foreign
<1>1. ASSUME NEW t \in Threads, NotifyClosing(t) PROVE EndInv'
  <2>1. t \in {Setup, Worker} /\ UNCHANGED <<fd_, inMS, number, why, interest>>
    BY <1>1, Zenon DEF NotifyClosing, sock, kernel
  <2>2. Back(Setup) = "failed" => "failed" \in why
    BY Zenon DEF Back
  <2>3. CASE ~fd_
    <3>1. UNCHANGED passed /\ pc' = [pc EXCEPT ![t] = Back(t)]
      BY <1>1, <2>3, Zenon DEF NotifyClosing
    <3>2. SetupInv' /\ FailInv'
      <4>1. pc[t] = "closeSocket" /\ Back(t) \notin Leaving \cup {"closeSocket", "addEpoll", "addMS"}
        BY <1>1, BackTo, ZenonT(60) DEF NotifyClosing
      <4>2. CASE t = Setup
        BY <2>1, <2>2, <3>1, <4>1, <4>2, ZenonT(60) DEF Threads
      <4>3. CASE t = Worker
        BY <2>1, <3>1, <4>1, <4>3, ZenonT(60) DEF Threads
      <4>4. QED
        BY <2>1, <4>2, <4>3, Zenon
    <3>3. TellInv'
      BY <1>1, <2>1, <2>2, <2>3, <3>1, ZenonT(60) DEF Threads
    <3>4. GoneInv'
      BY <1>1, <2>1, <2>3, <3>1, ZenonT(60) DEF Threads
    <3>5. QED
      BY <3>1, <3>2, <3>3, <3>4, Zenon
  <2>4. CASE fd_
    <3>1. pc[t] = "closeSocket" /\ pc' = [pc EXCEPT ![t] = "remove"]
      BY <1>1, <2>4, Zenon DEF NotifyClosing
    <3>2. /\ passed' \in Seq(Ends \cup Others) /\ Told'
          /\ (~Told => One') /\ (AllEnds => AllEnds')
      BY <1>1, <2>4, PassEnd, Zenon DEF NotifyClosing, ClosingEvent, Ends
    <3>3. "failed" \notin why => ~Told
      BY <2>1, <2>4, <3>1, ZenonT(60) DEF Threads
    <3>4. SetupInv' /\ FailInv'
      BY <2>1, <3>1, <3>2, <3>3, ZenonT(60) DEF Threads
    <3>5. TellInv'
      BY <2>1, <3>1, <3>2, <3>3, ZenonT(60) DEF Threads
    <3>6. GoneInv'
      BY <2>1, <2>4, <3>1, <3>2, ZenonT(60) DEF Threads
    <3>7. QED
      BY <3>2, <3>4, <3>5, <3>6, Zenon
  <2>5. QED
    BY <2>3, <2>4, Zenon
<1>2. ASSUME NEW t \in Threads, RemoveFromMS(t) PROVE EndInv'
  BY <1>2, ZenonT(60) DEF Threads, kernel, out, sock, RemoveFromMS
<1>3. ASSUME NEW t \in Threads, TestClosed(t) PROVE EndInv'
  <2>1. Back(Setup) = "failed" => "failed" \in why
    BY Zenon DEF Back
  <2>2. SetupInv' /\ FailInv'
    BY <1>3, <2>1, ZenonT(60) DEF Threads, kernel, out, sock, TestClosed
  <2>3. TellInv'
    BY <1>3, <2>1, ZenonT(60) DEF Threads, kernel, out, sock, TestClosed
  <2>4. GoneInv'
    BY <1>3, <2>1, ZenonT(60) DEF Threads, kernel, out, sock, TestClosed
  <2>5. passed' \in Seq(Ends \cup Others)
    BY <1>3, Zenon DEF TestClosed
  <2>6. QED
    BY <2>2, <2>3, <2>4, <2>5, Zenon
<1>4. ASSUME NEW t \in Threads, CloseFd(t) PROVE EndInv'
  BY <1>4, ZenonT(60) DEF Threads, kernel, out, sock, CloseFd
<1>5. ASSUME NEW t \in Threads, ClearFd(t) PROVE EndInv'
  <2>1. Back(Setup) = "failed" => "failed" \in why
    BY Zenon DEF Back
  <2>2. SetupInv' /\ FailInv'
    BY <1>5, <2>1, ZenonT(60) DEF Threads, kernel, out, sock, ClearFd
  <2>3. TellInv'
    BY <1>5, <2>1, ZenonT(60) DEF Threads, kernel, out, sock, ClearFd
  <2>4. GoneInv'
    BY <1>5, <2>1, ZenonT(60) DEF Threads, kernel, out, sock, ClearFd
  <2>5. passed' \in Seq(Ends \cup Others)
    BY <1>5, Zenon DEF ClearFd
  <2>6. QED
    BY <2>2, <2>3, <2>4, <2>5, Zenon
<1>6. ASSUME AddEpoll PROVE EndInv'
  BY <1>6, ZenonT(60) DEF Threads, kernel, out, sock, AddEpoll
<1>7. ASSUME SetupFails PROVE EndInv'
  <2>1. interest = {} /\ \A t \in Threads \ {Setup} : pc[t] = "idle"
    BY <1>7, Zenon DEF SetupFails, StrandInv
  <2>2. QED
    BY <1>7, <2>1, ZenonT(60) DEF Threads, kernel, out, sock, SetupFails
<1>8. ASSUME AddMS PROVE EndInv'
  BY <1>8, ZenonT(60) DEF Threads, kernel, out, sock, AddMS
<1>9. ASSUME Connect PROVE EndInv'
  BY <1>9, ZenonT(60) DEF Threads, kernel, out, sock, Connect
<1>10. ASSUME SetupEvent PROVE EndInv'
  <2>1. passed' \in Seq(Ends \cup Others) /\ (Told' <=> Told) /\ (One => One')
    BY <1>10, PassOther, Zenon DEF SetupEvent, Others
  <2>2. QED
    BY <1>10, <2>1, ZenonT(60) DEF Threads, kernel, out, sock, SetupEvent
<1>11. ASSUME ConnectFailed PROVE EndInv'
  <2>1. passed' \in Seq(Ends \cup Others) /\ Told'
    BY <1>11, PassEnd, Zenon DEF ConnectFailed, Ends
  <2>2. QED
    BY <1>11, <2>1, ZenonT(60) DEF Threads, kernel, out, sock, ConnectFailed
<1>12. ASSUME EpollWait PROVE EndInv'
  BY <1>12, ZenonT(60) DEF Threads, kernel, out, sock, EpollWait, Ready
<1>13. ASSUME Lookup PROVE EndInv'
  BY <1>13, ZenonT(60) DEF Threads, kernel, out, sock, Lookup
<1>14. ASSUME OnEPOLLIN PROVE EndInv'
  <2>1. passed' \in Seq(Ends \cup Others) /\ (Told' <=> Told) /\ (One => One')
    BY <1>14, PassOther, Zenon DEF OnEPOLLIN, Others
  <2>2. QED
    BY <1>14, <2>1, ZenonT(60) DEF Threads, kernel, out, sock, OnEPOLLIN
<1>15. ASSUME Handler PROVE EndInv'
  BY <1>15, ZenonT(60) DEF Threads, kernel, out, sock, Handler
<1>16. ASSUME OnConnected PROVE EndInv'
  BY <1>16, ZenonT(60) DEF Threads, kernel, out, sock, OnConnected
<1>17. ASSUME SockStopWrite PROVE EndInv'
  BY <1>17, ZenonT(60) DEF Threads, kernel, out, sock, SockStopWrite
<1>18. ASSUME PassConnected PROVE EndInv'
  <2>1. passed' \in Seq(Ends \cup Others) /\ (Told' <=> Told) /\ (One => One')
    BY <1>18, PassOther, Zenon DEF PassConnected, Others
  <2>2. QED
    BY <1>18, <2>1, ZenonT(60) DEF Threads, kernel, out, sock, PassConnected
<1>19. ASSUME SendFails PROVE EndInv'
  BY <1>19, ZenonT(60) DEF Threads, kernel, out, sock, SendFails
<1>20. ASSUME Sent \/ NeedToClose PROVE EndInv'
  <2>1. PICK l \in {"mark", "empty"} : pc' = [pc EXCEPT ![Worker] = l]
    BY <1>20, Zenon DEF Sent, NeedToClose
  <2>2. /\ pc[Worker] \in {"sent", "mark"}
        /\ UNCHANGED <<foreign, fd_, sock, interest, out, kernel, ready, passed>>
        /\ ("failed" \in why' <=> "failed" \in why) /\ ("outside" \in why' <=> "outside" \in why)
        /\ ("early" \in why' <=> "early" \in why)
    BY <1>20, Zenon DEF Sent, NeedToClose
  <2>3. QED
    BY <2>1, <2>2, ZenonT(60) DEF Threads, kernel, out, sock
<1>21. ASSUME OutBufferEmpty PROVE EndInv'
  <2>1. passed' \in Seq(Ends \cup Others) /\ (Told' <=> Told) /\ (One => One')
    BY <1>21, PassOther, Zenon DEF OutBufferEmpty, Others
  <2>2. QED
    BY <1>21, <2>1, ZenonT(60) DEF Threads, kernel, out, sock, OutBufferEmpty
<1>22. ASSUME NEW n \in 0 .. Len(outBuffer_), Send(n) PROVE EndInv'
  BY <1>22, ZenonT(60) DEF Threads, kernel, out, sock, Send
<1>23. ASSUME Kernel PROVE EndInv'
  BY <1>23, ZenonT(60) DEF Threads, kernel, out, sock, Kernel, Arrive, LinkChange, Reuse
<1>24. ASSUME NEW w \in Writers, NEW mark \in BOOLEAN, Write(w, mark) PROVE EndInv'
  BY <1>24, ZenonT(60) DEF Threads, kernel, out, sock, Write, Amid
<1>25. ASSUME NEW w \in Writers, SockStartWrite(w) PROVE EndInv'
  BY <1>25, ZenonT(60) DEF Threads, kernel, out, sock, SockStartWrite
<1>26. ASSUME NEW c \in Closers, OutsideClose(c) PROVE EndInv'
  BY <1>26, ZenonT(60) DEF Threads, kernel, out, sock, OutsideClose
<1>27. ASSUME UNCHANGED vars PROVE EndInv'
  BY <1>27, ZenonT(60) DEF Threads, kernel, out, sock, vars
<1>28. QED
  BY <1>1, <1>2, <1>3, <1>4, <1>5, <1>6, <1>7, <1>8, <1>9, <1>10, <1>11, <1>12, <1>13, <1>14,
     <1>15, <1>16, <1>17, <1>18, <1>19, <1>20, <1>21, <1>22, <1>23, <1>24, <1>25, <1>26, <1>27,
     ZenonT(60)
  DEF Next, SetupStep, WorkerStep, WriterStep, CloserStep, Closing, Threads

LEMMA EndInit == Init => EndInv
<1> SUFFICES ASSUME Init PROVE EndInv
  BY Zenon
<1>1. passed = <<>> /\ passed \in Seq(Ends \cup Others)
  BY DEF Init
<1>2. /\ pc[Setup] = "addEpoll" /\ \A t \in Threads \ {Setup} : pc[t] = "idle"
      /\ number = "mine" /\ fd_ /\ ~inMS /\ why = {}
  BY Zenon DEF Init, Threads
<1>3. QED
  BY <1>1, <1>2, NothingPassed, Zenon DEF EndInv, SetupInv, FailInv, TellInv, GoneInv, Leaving

\* What is told, counted.
LEMMA ToldCount ==
    ASSUME passed \in Seq(Ends \cup Others)
    PROVE  LET told == Count("Disaccepted") + Count("Disconnected") + Count("ConnectFailed")
           IN  /\ One => ~(told > 1)
               /\ Told => told > 0
<1> DEFINE At(e) == {i \in DOMAIN passed : passed[i] = e}
<1>1. IsFiniteSet(DOMAIN passed)
  <2>1. DOMAIN passed = 1 .. Len(passed) /\ Len(passed) \in Int /\ 1 \in Int
    OBVIOUS
  <2>2. QED
    BY <2>1, FS_Interval
<1>2. ASSUME NEW e PROVE Count(e) \in Nat /\ (Count(e) = 0 <=> At(e) = {})
  <2>1. IsFiniteSet(At(e))
    BY <1>1, FS_Subset
  <2>2. QED
    BY <2>1, FS_CardinalityType, FS_EmptySet DEF Count
<1>3. ASSUME NEW e, NEW k, At(e) = {k} PROVE Count(e) = 1
  BY <1>3, FS_Singleton DEF Count
<1>4. ASSUME Told PROVE \E e \in Ends : Count(e) # 0
  BY <1>2, <1>4 DEF Told
<1>5. ASSUME One, NEW e \in Ends, NEW f \in Ends, e # f, Count(e) # 0
      PROVE  Count(e) = 1 /\ Count(f) = 0
  <2>1. PICK k : k \in At(e)
    BY <1>2, <1>5
  <2>2. At(e) = {k} /\ At(f) = {}
    BY <1>5, <2>1 DEF One
  <2>3. QED
    BY <1>2, <1>3, <2>2
<1> HIDE DEF At
<1>6. One => ~(Count("Disaccepted") + Count("Disconnected") + Count("ConnectFailed") > 1)
  <2> SUFFICES ASSUME One
               PROVE  ~(Count("Disaccepted") + Count("Disconnected") + Count("ConnectFailed") > 1)
    BY Zenon
  <2>1. ASSUME NEW e \in Ends, NEW f \in Ends, e # f PROVE Count(e) <= 1 /\ (Count(e) = 0 \/ Count(f) = 0)
    <3>1. Count(e) \in Nat /\ (Count(e) # 0 => Count(e) = 1 /\ Count(f) = 0)
      BY <1>2, <1>5, <2>1, Zenon
    <3>2. QED
      BY <3>1
  <2>2. /\ Count("Disaccepted") \in Nat /\ Count("Disconnected") \in Nat /\ Count("ConnectFailed") \in Nat
        /\ Count("Disaccepted") <= 1 /\ Count("Disconnected") <= 1 /\ Count("ConnectFailed") <= 1
        /\ Count("Disaccepted") = 0 \/ Count("Disconnected") = 0
        /\ Count("Disaccepted") = 0 \/ Count("ConnectFailed") = 0
        /\ Count("Disconnected") = 0 \/ Count("ConnectFailed") = 0
    BY <1>2, <2>1, Zenon DEF Ends
  <2>3. QED
    BY ONLY <2>2
<1>7. Told => Count("Disaccepted") + Count("Disconnected") + Count("ConnectFailed") > 0
  BY <1>2, <1>4 DEF Ends
<1>8. QED
  BY <1>6, <1>7

\* However the worker, the set-up, handlers and other services close the socket: the service
\* above is told once, except when connect() fails; and with no close() from outside, a
\* socket whose fd_ is reset is out of the container and the service has been told.
THEOREM EndIsToldOnce == Spec => []ClosedIsToldOnce
<1>1. Init => ControlInv /\ StrandInv
  BY ThreadsAssumption, Zenon DEF Init, ControlInv, StrandInv, NotStranded, Labels, Parts, Threads
<1>2. ControlInv /\ BufferInv /\ StrandInv /\ [Next]_vars => (ControlInv /\ StrandInv)'
  BY ControlStep, StrandStep, Zenon
<1>3. ControlInv /\ StrandInv /\ EndInv /\ [Next]_vars => EndInv'
  BY EndStep, Zenon
<1>4. EndInv => ClosedIsToldOnce
  <2> SUFFICES ASSUME EndInv PROVE ClosedIsToldOnce
    BY Zenon
  <2> DEFINE told == Count("Disaccepted") + Count("Disconnected") + Count("ConnectFailed")
  <2>1. (One => ~(told > 1)) /\ (Told => told > 0)
    BY ToldCount, Zenon DEF EndInv
  <2>2. QED
    BY <2>1, Zenon DEF EndInv, TellInv, GoneInv, ClosedIsToldOnce
<1>5. QED
  BY <1>1, <1>2, <1>3, <1>4, EndInit, BufferInvariant, PTL DEF Spec
=============================================================================
