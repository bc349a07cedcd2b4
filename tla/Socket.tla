-------------------------------- MODULE Socket --------------------------------
(***************************************************************************)
(* The life of one stream socket of SocketIO (epoll): the thread that sets *)
(* it up (the service's own for a connection, the worker of the listening  *)
(* socket for an accepted one), the worker that owns its epoll set,        *)
(* threads that write to it, and threads that close it themselves.         *)
(*                                                                         *)
(* A descriptor number that has been closed may be given to another socket *)
(* of the process; a call made with it then is recorded as "foreign" and   *)
(* taken to fail.  TLS is not modelled.                                    *)
(***************************************************************************)
EXTENDS Naturals, Sequences, FiniteSets, Functions

CONSTANTS Kinds,        \* "accepted", "connected"
          Writers,      \* threads that may call write_ or write_and_close, once
          Closers,      \* threads that may call epoll_socket_info::close, once
          Size,         \* how many bytes a writer writes
          Setup, Worker,
          MaxArrive     \* bound: pieces of data that arrive from the peer

ASSUME KindsAssumption == Kinds \subseteq {"accepted", "connected"} /\ Kinds # {}
ASSUME ThreadsAssumption == {Setup, Worker} \cap (Writers \cup Closers) = {} /\ Setup # Worker
ASSUME SizeAssumption == Size \in [Writers -> Nat \ {0}]

Threads == {Setup, Worker} \cup Writers \cup Closers

VARIABLES
    streamType_, fd_, inMS, interest, inConnection_, outBuffer_, marked,
    link,       \* external: state of the connection in the kernel
    arriving,   \* external: data the kernel holds for recv()
    number,     \* external: whose the descriptor number is: "mine", "free", "other"
    pc, ready,  \* where each thread is; what the worker still has to do in this turn
    passed,     \* history: the events passed to the service above
    written,    \* history: what has been appended to outBuffer_
    sentOut,    \* history: what ::send has taken
    closer,     \* history: the threads that closed the number while it was ours (one)
    foreign,    \* history: the threads that made a call with a number no longer ours
    why         \* history: "failed": connect() failed,
                \* "outside": close() was called by a handler or another service,
                \* "marked": closeSocket() for markedToDestroyOnSend_,
                \* "early": a write fell between the worker's test of the size and its
                \* sockStopWrite() in onEPOLLOUT of a socket in connection,
                \* "between": the marking write fell between its reads of the size and of
                \* markedToDestroyOnSend_

sock   == <<streamType_, inMS, inConnection_>>
out    == <<outBuffer_, marked, written, sentOut>>
kernel == <<link, arriving, number, closer>>
vars == <<streamType_, fd_, inMS, interest, inConnection_, outBuffer_, marked, link, arriving,
          number, pc, ready, passed, written, sentOut, closer, foreign, why>>

Init ==
    /\ streamType_ \in Kinds
    /\ fd_ = TRUE /\ inMS = FALSE /\ interest = {}
    /\ inConnection_ = (streamType_ = "connected")
    /\ outBuffer_ = <<>> /\ marked = 0 /\ written = <<>> /\ sentOut = <<>>
    /\ link = IF streamType_ = "accepted" THEN "up" ELSE "closed"
    /\ arriving = 0 /\ number = "mine" /\ closer = {} /\ foreign = {}
    /\ pc = [t \in Threads |-> IF t = Setup THEN "addEpoll" ELSE "idle"]
    /\ ready = {} /\ passed = <<>> /\ why = {}

Goto(t, l)     == pc' = [pc EXCEPT ![t] = l]
Go(t, from, l) == pc[t] = from /\ Goto(t, l)
PassEvent(e)   == passed' = Append(passed, e)
Count(e)       == Cardinality({i \in DOMAIN passed : passed[i] = e})
-----------------------------------------------------------------------------
(* closeSocket() and epoll_socket_info::close(), run by thread t.          *)

ClosingEvent ==
    IF streamType_ = "accepted" THEN "Disaccepted"
    ELSE IF inConnection_ THEN "ConnectFailed" ELSE "Disconnected"

\* Mutant: every failure of the set-up ends in the second ConnectFailed.
BackToFailed(t) ==
    IF t = Setup THEN "failed"
    ELSE IF t # Worker THEN "done"
    ELSE IF ready = {} THEN "idle" ELSE CHOOSE l \in ready : TRUE

\* Where t goes on: the worker with the rest of its turn, the service's thread in
\* on_AddToConnectTCP().
Back(t) ==
    IF t = Setup THEN (IF "failed" \in why THEN "failed" ELSE "idle")
    ELSE IF t # Worker THEN "done"
    ELSE IF ready = {} THEN "idle" ELSE CHOOSE l \in ready : TRUE

\* external: a call with fd_ when the number is no longer this socket's.
Foreign(t) == foreign' = IF fd_ /\ number = "other" THEN foreign \cup {t} ELSE foreign

NotifyClosing(t) ==
    /\ pc[t] = "closeSocket"
    /\ \/ ~fd_ /\ Goto(t, Back(t)) /\ UNCHANGED passed
       \/ fd_ /\ Goto(t, "remove") /\ PassEvent(ClosingEvent)
    /\ UNCHANGED <<foreign, fd_, sock, interest, out, kernel, ready, why>>

RemoveFromMS(t) ==
    /\ Go(t, "remove", "close") /\ inMS' = FALSE
    /\ UNCHANGED <<foreign, fd_, streamType_, inConnection_, interest, out, kernel, ready, passed, why>>

\* close(): the test of fd_ ...
TestClosed(t) ==
    /\ Go(t, "close", IF fd_ THEN "::close" ELSE Back(t))
    /\ UNCHANGED <<foreign, fd_, sock, interest, out, kernel, ready, passed, why>>

\* ... ::close, which takes the socket off epoll; fd_ is read again, with no lock ...
CloseFd(t) ==
    /\ Go(t, "::close", "clear")
    /\ \/ /\ number' = "free"
          /\ interest' = IF number = "mine" THEN {} ELSE interest
          /\ closer' = IF number = "mine" THEN {t} ELSE closer
          /\ foreign' = IF number = "other" THEN foreign \cup {t} ELSE foreign
       \/ ~fd_ /\ UNCHANGED <<number, interest, closer, foreign>>
    /\ UNCHANGED <<fd_, sock, out, link, arriving, ready, passed, why>>

\* Mutant: close() does not reset fd_.
KeepFd(t) ==
    /\ Go(t, "clear", Back(t))
    /\ UNCHANGED <<foreign, fd_, sock, interest, out, kernel, ready, passed, why>>

\* ... and the assignment.
ClearFd(t) ==
    /\ Go(t, "clear", Back(t)) /\ fd_' = FALSE
    /\ UNCHANGED <<foreign, sock, interest, out, kernel, ready, passed, why>>

Closing(t) == NotifyClosing(t) \/ RemoveFromMS(t) \/ TestClosed(t) \/ CloseFd(t) \/ ClearFd(t)
-----------------------------------------------------------------------------
(* handle_accepted1() and on_AddToConnectTCP(): epoll, container, event.   *)

AddEpoll ==
    /\ Go(Setup, "addEpoll", "addMS")
    /\ interest' = IF streamType_ = "accepted" THEN {"in"} ELSE {"in", "out"}
    /\ UNCHANGED <<foreign, fd_, sock, out, kernel, ready, passed, why>>

\* setsockopt and its like fail before epoll knows of the socket.
SetupFails ==
    /\ streamType_ = "connected"
    /\ Go(Setup, "addEpoll", "closeSocket")
    /\ UNCHANGED <<foreign, fd_, sock, interest, out, kernel, ready, passed, why>>

AddMS ==
    /\ Go(Setup, "addMS", IF streamType_ = "accepted" THEN "event" ELSE "connect")
    /\ inMS' = TRUE
    /\ UNCHANGED <<foreign, fd_, streamType_, inConnection_, interest, out, kernel, ready, passed, why>>

\* ::connect returns 0, EINPROGRESS or an error.
Connect ==
    /\ pc[Setup] = "connect"
    /\ \/ /\ link' = "up" /\ Goto(Setup, "event") /\ UNCHANGED why
       \/ /\ link' = "connecting" /\ Goto(Setup, "idle") /\ UNCHANGED why
       \/ /\ why' = why \cup {"failed"} /\ Goto(Setup, "closeSocket") /\ UNCHANGED link
    /\ UNCHANGED <<foreign, fd_, sock, interest, out, arriving, number, closer, ready, passed>>

SetupEvent ==
    /\ Go(Setup, "event", "idle")
    /\ PassEvent(IF streamType_ = "accepted" THEN "Accepted" ELSE "Connected")
    /\ UNCHANGED <<foreign, fd_, sock, interest, out, kernel, ready, why>>

ConnectFailed ==
    /\ Go(Setup, "failed", "idle")
    /\ PassEvent("ConnectFailed")
    /\ UNCHANGED <<foreign, fd_, sock, interest, out, kernel, ready, why>>

SetupStep == AddEpoll \/ SetupFails \/ AddMS \/ Connect \/ SetupEvent \/ ConnectFailed \/ Closing(Setup)
-----------------------------------------------------------------------------
(* write_(), write_and_close(): outBuffer_ under its lock, then epoll.     *)

HasEsi == \E e \in {"Accepted", "Connected", "StreamRead"} : Count(e) > 0

Piece(w) == [i \in 1 .. Size[w] |-> <<w, i>>]

\* append() and append_and_close(), up to the release of the lock.
AppendOut(bytes, mark) ==
    /\ outBuffer_' = outBuffer_ \o bytes
    /\ written' = written \o bytes
    /\ marked' = IF mark /\ marked = 0 THEN Len(written') ELSE marked

\* What a write that appends may fall into.
Amid(mark) ==
    {e \in {"early"} : pc[Worker] = "stopWrite"}
    \cup {e \in {"between"} : pc[Worker] = "mark" /\ mark /\ marked = 0}

Write(w, mark) ==
    /\ HasEsi
    /\ Go(w, "idle", IF fd_ THEN "startWrite" ELSE "done")
    /\ IF fd_ THEN /\ AppendOut(Piece(w), mark)
                   /\ why' = why \cup Amid(mark)
       ELSE UNCHANGED <<outBuffer_, written, marked, why>>
    /\ UNCHANGED <<foreign, fd_, sock, interest, kernel, ready, passed, sentOut>>

\* Mutant: append() leaves epoll alone.
NoStartWrite(w) ==
    /\ Go(w, "startWrite", "done")
    /\ UNCHANGED <<foreign, fd_, sock, interest, out, kernel, ready, passed, why>>

\* epoll_ctl, and close() where it fails.
SockStartWrite(w) ==
    /\ Go(w, "startWrite", IF fd_ /\ number # "mine" THEN "close" ELSE "done")
    /\ interest' = IF fd_ /\ number = "mine" THEN {"in", "out"} ELSE interest
    /\ Foreign(w)
    /\ UNCHANGED <<fd_, sock, out, kernel, ready, passed, why>>

\* close() from another service's thread.
OutsideClose(c) ==
    /\ HasEsi
    /\ Go(c, "idle", "close")
    /\ why' = why \cup {"outside"}
    /\ UNCHANGED <<foreign, fd_, sock, interest, out, kernel, ready, passed>>
-----------------------------------------------------------------------------
(* worker()                                                                *)

\* external: what epoll reports, by level.  A socket on which connect() has not
\* been called is writable.
Ready ==
    {e \in interest : \/ e = "in" /\ (arriving > 0 \/ link = "gone")
                      \/ e = "out" /\ link \in {"closed", "up", "gone"}}
    \cup {e \in {"err"} : link = "error" /\ interest # {}}

EpollWait ==
    /\ Ready # {}
    /\ Go(Worker, "idle", "lookup")
    /\ ready' = Ready
    /\ UNCHANGED <<foreign, fd_, sock, interest, out, kernel, passed, why>>

\* getOrNull(), closed() and the choice of the handler.
Lookup ==
    /\ pc[Worker] = "lookup"
    /\ \/ (~inMS \/ ~fd_) /\ ready' = {} /\ Goto(Worker, "idle")
       \/ inMS /\ fd_ /\ "err" \in ready /\ ready' = {} /\ Goto(Worker, "closeSocket")
       \/ inMS /\ fd_ /\ "err" \notin ready /\ "in" \in ready
          /\ ready' = ready \ {"in"} /\ Goto(Worker, "in")
       \/ inMS /\ fd_ /\ ready = {"out"} /\ UNCHANGED ready /\ Goto(Worker, "out")
    /\ UNCHANGED <<foreign, fd_, sock, interest, out, kernel, passed, why>>

\* onEPOLLIN: recv() gives data, the end of the stream, or an error that is ignored.
OnEPOLLIN ==
    /\ pc[Worker] = "in"
    /\ \/ /\ fd_ /\ number = "mine" /\ arriving > 0
          /\ arriving' = 0 /\ PassEvent("StreamRead") /\ Goto(Worker, "handler")
       \/ /\ fd_ /\ number = "mine" /\ arriving = 0 /\ link = "gone"
          /\ Goto(Worker, "closeSocket") /\ UNCHANGED <<arriving, passed>>
       \/ /\ ~fd_ \/ number # "mine" \/ link = "error"
          /\ Goto(Worker, Back(Worker)) /\ UNCHANGED <<arriving, passed>>
    /\ Foreign(Worker)
    /\ UNCHANGED <<fd_, sock, interest, out, link, number, closer, ready, why>>

\* The StreamRead handler of a ListenerSimple, which may find the stream broken and
\* close the socket.
Handler ==
    /\ pc[Worker] = "handler"
    /\ \/ Goto(Worker, Back(Worker)) /\ UNCHANGED why
       \/ Goto(Worker, "close") /\ why' = why \cup {"outside"}
    /\ UNCHANGED <<foreign, fd_, sock, interest, out, kernel, ready, passed>>

\* onEPOLLOUT of a socket in connection.
OnConnected ==
    /\ pc[Worker] = "out" /\ inConnection_
    /\ ready' = {}
    /\ \/ ~inMS /\ Goto(Worker, "idle") /\ UNCHANGED inConnection_
       \/ /\ inMS
          /\ inConnection_' = FALSE
          /\ Goto(Worker, IF outBuffer_ = <<>> THEN "stopWrite" ELSE "connected")
    /\ UNCHANGED <<foreign, fd_, streamType_, inMS, interest, out, kernel, passed, why>>

SockStopWrite ==
    /\ pc[Worker] = "stopWrite"
    /\ IF fd_ /\ number # "mine"
       THEN Goto(Worker, "close") /\ ready' = {"connected"} /\ UNCHANGED interest
       ELSE /\ Goto(Worker, "connected") /\ UNCHANGED ready
            /\ interest' = IF fd_ THEN {"in"} ELSE interest
    /\ Foreign(Worker)
    /\ UNCHANGED <<fd_, sock, out, kernel, passed, why>>

PassConnected ==
    /\ Go(Worker, "connected", "idle")
    /\ ready' = {}
    /\ PassEvent("Connected")
    /\ UNCHANGED <<foreign, fd_, sock, interest, out, kernel, why>>

\* Mutant: the whole buffer is dropped after a partial send.
ClearAfterSend(n) == <<>>

Unsent(n) == SubSeq(outBuffer_, n + 1, Len(outBuffer_))

\* socketBuffersOut::send(), under the lock of the buffer.
Send(n) ==
    /\ pc[Worker] = "out" /\ ~inConnection_ /\ fd_ /\ number = "mine"
    /\ n > 0 => link \in {"up", "gone"}
    /\ outBuffer_ # <<>> => link \in {"up", "gone", "connecting"}
    /\ outBuffer_' = Unsent(n)
    /\ sentOut' = sentOut \o SubSeq(outBuffer_, 1, n)
    /\ interest' = IF outBuffer_' = <<>> THEN {"in"} ELSE interest
    /\ ready' = {}
    /\ Goto(Worker, IF n > 0 THEN "sent" ELSE "empty")
    /\ UNCHANGED <<foreign, fd_, sock, marked, written, kernel, passed, why>>

\* The socket is found closed, epoll_ctl fails, or ::send does (EPIPE, ECONNRESET, EBADF).
SendFails ==
    /\ pc[Worker] = "out" /\ ~inConnection_
    /\ \/ ~fd_ /\ Goto(Worker, "idle") /\ ready' = {}
       \/ fd_ /\ outBuffer_ = <<>> /\ number # "mine" /\ Goto(Worker, "close") /\ ready' = {"empty"}
       \/ /\ fd_ /\ outBuffer_ # <<>> /\ (number # "mine" \/ link \in {"closed", "error", "gone"})
          /\ Goto(Worker, "closeSocket") /\ ready' = {}
    /\ Foreign(Worker)
    /\ UNCHANGED <<fd_, sock, interest, out, kernel, passed, why>>

\* Mutant: the size of the buffer is not tested.
AnySize == TRUE

Emptied == outBuffer_ = <<>>

\* After a send that took something: size() is read, and its lock released ...
Sent ==
    /\ Go(Worker, "sent", IF Emptied THEN "mark" ELSE "empty")
    /\ UNCHANGED <<foreign, fd_, sock, interest, out, kernel, ready, passed, why>>

\* Mutant: the mark is forgotten.
MarkForgotten ==
    /\ Go(Worker, "mark", "empty")
    /\ UNCHANGED <<foreign, fd_, sock, interest, out, kernel, ready, passed, why>>

\* ... and then markedToDestroyOnSend_, with no lock.
NeedToClose ==
    /\ Go(Worker, "mark", "empty")
    /\ why' = IF marked > 0 THEN why \cup {"marked"} ELSE why
    /\ UNCHANGED <<foreign, fd_, sock, interest, out, kernel, ready, passed>>

\* NotifyOutBufferEmpty after another look at the size; closeSocket() if decided on.
OutBufferEmpty ==
    /\ Go(Worker, "empty", IF "marked" \in why THEN "closeSocket" ELSE "idle")
    /\ ready' = {}
    /\ IF outBuffer_ = <<>> THEN PassEvent("NotifyOutBufferEmpty") ELSE UNCHANGED passed
    /\ UNCHANGED <<foreign, fd_, sock, interest, out, kernel, why>>

WorkerStep ==
    \/ EpollWait \/ Lookup \/ OnEPOLLIN \/ Handler \/ OnConnected \/ SockStopWrite \/ PassConnected
    \/ SendFails \/ Sent \/ NeedToClose \/ OutBufferEmpty \/ Closing(Worker)
    \/ \E n \in 0 .. Len(outBuffer_) : Send(n)
-----------------------------------------------------------------------------
(* external: the network and the other sockets of the process              *)

Arrive ==
    /\ link = "up" /\ arriving < MaxArrive /\ Count("StreamRead") + arriving < MaxArrive
    /\ arriving' = arriving + 1
    /\ UNCHANGED link

LinkChange ==
    /\ \/ link = "connecting" /\ link' \in {"up", "error"}
       \/ link = "up" /\ link' \in {"gone", "error"}
    /\ UNCHANGED arriving

Reuse == number = "free" /\ number' = "other" /\ UNCHANGED <<link, arriving>>

Kernel ==
    /\ \/ (Arrive \/ LinkChange) /\ UNCHANGED number
       \/ Reuse
    /\ UNCHANGED <<closer, foreign, fd_, sock, interest, out, pc, ready, passed, why>>
-----------------------------------------------------------------------------
WriterStep(w) == (\E mark \in BOOLEAN : Write(w, mark)) \/ SockStartWrite(w) \/ Closing(w)
CloserStep(c) == OutsideClose(c) \/ Closing(c)

Next ==
    \/ SetupStep \/ WorkerStep \/ Kernel
    \/ \E w \in Writers : WriterStep(w)
    \/ \E c \in Closers : CloserStep(c)

\* Threads that have begun go on, a socket that stays writable takes some data in the
\* end, and the kernel gives up on a connection that is not answered.  Nobody is obliged
\* to write or to close, and the network may do anything.
Fairness ==
    /\ WF_vars(SetupStep) /\ WF_vars(WorkerStep)
    /\ \A t \in Writers \cup Closers : WF_vars((t \in Writers /\ SockStartWrite(t)) \/ Closing(t))
    /\ SF_vars(\E n \in 1 .. Len(outBuffer_) : Send(n))
    /\ WF_vars(Kernel /\ link = "connecting" /\ link' # "connecting")

Spec == Init /\ [][Next]_vars
FairSpec == Spec /\ Fairness
-----------------------------------------------------------------------------
(* Properties.                                                             *)

\* The peer is sent what was written, whole writes in the order of the appends: nothing
\* is lost, doubled or torn apart by partial sends and concurrent writers.
StreamIntact == sentOut \o outBuffer_ = written

\* While data is waiting in an open socket epoll is asked for EPOLLOUT, or a writer is
\* about to ask.  The one exception is a write that falls between the worker's test of
\* the size and its sockStopWrite() when the connection is established: some service
\* had the socket before that, from a Connected of connect() returning 0 or from
\* data read before Connected.
NotStranded ==
    fd_ /\ number = "mine" /\ outBuffer_ # <<>> =>
        \/ "out" \in interest
        \/ \E w \in Writers : pc[w] = "startWrite"
        \/ "early" \in why

\* closeSocket() for write_and_close() comes after everything up to that write is sent,
\* however much of it each ::send takes and whoever else writes.  The one exception is
\* a write_and_close() that falls between the worker's read of the size and its read of
\* the mark: the worker then closes the socket with that write unsent.
FlushedBeforeClose == "marked" \in why => Len(sentOut) >= marked \/ "between" \in why

\* The service above is told once that the socket is closed, more often only when
\* connect() itself fails; once the threads are through, a socket that only SocketIO has
\* closed is gone from the container and the service has been told.
ClosedIsToldOnce ==
    LET told == Count("Disaccepted") + Count("Disconnected") + Count("ConnectFailed")
    IN  /\ told > 1 => "failed" \in why
        /\ ~fd_ /\ "outside" \notin why /\ pc[Worker] = "idle" /\ pc[Setup] = "idle" => ~inMS /\ told > 0

\* The thread that closes the socket does not use its descriptor again, whatever is left
\* of its turn: another socket may have the number by then.
OwnDescriptor == closer \cap foreign = {}

\* After write_and_close() the socket is closed in the end, with the same exception as
\* in NotStranded.
MarkedIsClosed == marked > 0 ~> ~fd_ \/ "early" \in why
=============================================================================
