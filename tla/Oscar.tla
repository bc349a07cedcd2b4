--------------------------------- MODULE Oscar ---------------------------------
(***************************************************************************)
(* One direction of an Oscar connection: packets are framed by             *)
(* sendPacketPlain(), carried as a stream of bytes that is cut anywhere,   *)
(* and taken apart again by on_StreamRead() in the worker thread of the    *)
(* socket.  Either end may be closed at any moment, by another thread or   *)
(* by the handler of a packet; on_StreamRead() goes on all the same with   *)
(* what its buffer holds.                                                  *)
(***************************************************************************)
EXTENDS PackedNumber

CONSTANTS Payloads,       \* payloads: sequences of bytes
          StartBytes,     \* the first byte of a frame: SB_SINGLEPACKET, or that of another peer
          maxPacketSize,
          MaxSend         \* bound: frames sent

SB_SINGLEPACKET == 1

ASSUME PayloadBytes == Payloads \subseteq Seq(Byte) /\ StartBytes \subseteq Byte
ASSUME PayloadSizes == \A payload \in Payloads : Len(payload) \in Number
ASSUME SizeAssumption == maxPacketSize \in Number

VARIABLES
    sent,       \* history: the frames sent, <<start byte, payload>>
    wire,       \* bytes written and not yet read
    lost,       \* history: bytes the sender still held when it closed its end
    inBuffer,   \* esi->inBuffer_
    reading,    \* the worker is in on_StreamRead()
    received,   \* the payloads passed on as PacketOnConnector or PacketOnAcceptor
    sending,    \* the sender's socket is not closed
    open        \* the receiver's socket is not closed

vars == <<sent, wire, lost, inBuffer, reading, received, sending, open>>

Frame(start, payload) == <<start>> \o put_PN(Len(payload)) \o payload

Init ==
    /\ sent = <<>> /\ wire = <<>> /\ lost = <<>> /\ inBuffer = <<>> /\ received = <<>>
    /\ reading = FALSE
    /\ sending = TRUE /\ open = TRUE

\* sendPacketPlain(): the frame is appended to the out buffer as a whole.
SendPacket(start, payload) ==
    /\ sending /\ Len(sent) < MaxSend
    /\ sent' = Append(sent, <<start, payload>>)
    /\ wire' = wire \o Frame(start, payload)
    /\ UNCHANGED <<lost, inBuffer, reading, received, sending, open>>

\* recv() returns some of the bytes, and StreamRead is passed to Oscar.
Recv(n) ==
    /\ open /\ ~reading
    /\ inBuffer' = inBuffer \o SubSeq(wire, 1, n)
    /\ wire' = SubSeq(wire, n + 1, Len(wire))
    /\ reading' = TRUE
    /\ UNCHANGED <<sent, lost, received, sending, open>>

Incomplete == [whole |-> FALSE, start |-> 0, payload |-> <<>>, rest |-> <<>>]

\* What is left in the buffer behind the packet.
Remains(pn) == SubSeq(pn.rest, pn.value + 1, Len(pn.rest))

Oversize(pn) == pn.value > maxPacketSize

\* The first frame of the buffer, if it is whole and not larger than maxPacketSize.
Unframe(buf) ==
    IF buf = <<>> THEN Incomplete
    ELSE LET pn == get_PN_nothrow(Tail(buf))
         IN  IF ~pn.success \/ Oversize(pn) \/ Len(pn.rest) < pn.value THEN Incomplete
             ELSE [whole   |-> TRUE,
                   start   |-> Head(buf),
                   payload |-> SubSeq(pn.rest, 1, pn.value),
                   rest    |-> Remains(pn)]

\* Mutant: one frame for each StreamRead.
ReturnAfterPacket(u) ==
    /\ u.start = SB_SINGLEPACKET
    /\ received' = Append(received, u.payload)
    /\ reading' = FALSE
    /\ UNCHANGED open

PassPacket(u) ==
    /\ u.start = SB_SINGLEPACKET
    /\ received' = Append(received, u.payload)
    /\ UNCHANGED <<reading, open>>

InvalidStartByte(u) ==
    /\ u.start # SB_SINGLEPACKET
    /\ open' = FALSE /\ reading' = FALSE
    /\ UNCHANGED received

\* passEvent() throws, before or after the packet has been handled: the catch closes.
PassThrows(u) ==
    /\ u.start = SB_SINGLEPACKET
    /\ received' \in {received, Append(received, u.payload)}
    /\ open' = FALSE /\ reading' = FALSE

\* One round of the loop of on_StreamRead().
StreamRead ==
    /\ reading
    /\ LET u == Unframe(inBuffer)
       IN  \/ /\ ~u.whole
              /\ reading' = FALSE
              /\ UNCHANGED <<inBuffer, received, open>>
           \/ /\ u.whole
              /\ inBuffer' = u.rest
              /\ PassPacket(u) \/ PassThrows(u) \/ InvalidStartByte(u)
    /\ UNCHANGED <<sent, wire, lost, sending>>

\* The receiver's socket is closed, by another thread or by the handler that passEvent()
\* calls from the loop of on_StreamRead().
Close ==
    /\ open
    /\ open' = FALSE
    /\ UNCHANGED <<sent, wire, lost, inBuffer, reading, received, sending>>

\* The sender's socket is closed; what is in its out buffer is not sent.
CloseSender(n) ==
    /\ sending
    /\ sending' = FALSE
    /\ wire' = SubSeq(wire, 1, n)
    /\ lost' = SubSeq(wire, n + 1, Len(wire))
    /\ UNCHANGED <<sent, inBuffer, reading, received, open>>

Next ==
    \/ \E start \in StartBytes, payload \in Payloads : SendPacket(start, payload)
    \/ \E n \in 1 .. Len(wire) : Recv(n)
    \/ StreamRead
    \/ Close
    \/ \E n \in 0 .. Len(wire) : CloseSender(n)

\* The worker thread reads what has arrived and its handler runs.
Fairness == WF_vars(\E n \in 1 .. Len(wire) : Recv(n)) /\ WF_vars(StreamRead)

Spec == Init /\ [][Next]_vars
FairSpec == Spec /\ Fairness
-----------------------------------------------------------------------------

\* The connection is a pipe of packets.  A frame with another start byte is not a
\* packet: it closes the pipe.
Pipe == INSTANCE PacketPipe WITH
    Packets  <- StartBytes \X Payloads,
    Admitted <- {SB_SINGLEPACKET} \X {p \in Payloads : Len(p) <= maxPacketSize},
    queue    <- SubSeq(sent, Len(received) + 1, Len(sent)),
    received <- [i \in DOMAIN received |-> <<SB_SINGLEPACKET, received[i]>>],
    turn     <- reading,
    sending  <- sending,
    open     <- open

\* Framing, buffering and cutting implement the pipe, whenever and at whatever byte the
\* connection is closed, fairness included: a packet whose turn it is and that the
\* receiver admits is passed on while both ends stay open.
ImplementsPipe == Pipe!Spec
=============================================================================
