------------------------------- MODULE Framing -------------------------------
(***************************************************************************)
(* net_send_msg and net_recv_msg of barenet.h over a stream socket: a      *)
(* header of four bytes, little endian, that counts the payload.  The      *)
(* kernel takes and gives any part of what it is asked for; a peer may go  *)
(* away and, with a timeout set (net_set_recvtimeo, net_set_sendtimeo), a  *)
(* call that has waited gives up.  Whoever is told of a failure closes.    *)
(***************************************************************************)
EXTENDS Integers, FiniteSetsExt, SequencesExt

CONSTANTS
    Messages,    \* payloads: sequences of bytes 0 .. ByteValues - 1
    ByteValues,       \* the values of a byte: 256
    SocketRoom,  \* bytes the kernel holds between the two
    MaxMessages  \* bound on the messages of a session

ASSUME FramingAssumption ==
    /\ ByteValues \in Nat \ {0, 1} /\ SocketRoom \in Nat \ {0}
    /\ \A m \in Messages :
           /\ m \in Seq(0 .. ByteValues - 1)
           /\ Len(m) < ByteValues * (ByteValues * (ByteValues * ByteValues))

VARIABLES
    begun,     \* the messages net_send_msg was called with (history)
    sending,   \* what is left of the buffers of the sender's calls of net_send
    wire,      \* the bytes in flight
    open,      \* which ends are open
    recv,      \* net_recv_msg's locals: header, payload, both as far as they came
    taken      \* the messages net_recv_msg returned

linkVars == <<begun, sending, wire, open, recv, taken>>

HeaderBytes == 4
Up(n) == n \div ByteValues      \* n >> 8
Header_CountsItself(len) ==
    LET n == len + HeaderBytes
    IN  <<n % ByteValues, Up(n) % ByteValues, Up(Up(n)) % ByteValues, Up(Up(Up(n))) % ByteValues>>
Header(len) ==
    <<len % ByteValues, Up(len) % ByteValues,
      Up(Up(len)) % ByteValues, Up(Up(Up(len))) % ByteValues>>
Length(hdr) == hdr[1] + ByteValues * (hdr[2] + ByteValues * (hdr[3] + ByteValues * hdr[4]))

NoMsg == [in |-> FALSE, hdr |-> <<>>, body |-> <<>>]

FramingInit ==
    /\ begun = <<>> /\ taken = <<>>
    /\ sending = <<>> /\ wire = <<>>
    /\ open = {"sender", "receiver"}
    /\ recv = NoMsg

----------------------------------------------------------------------------
(* The sender *)

\* The header goes through one call of net_send, the payload through another; a
\* call for no bytes returns at once.
NetSendMsg(m) ==
    /\ "sender" \in open /\ sending = <<>>
    /\ Len(begun) < MaxMessages
    /\ begun' = Append(begun, m)
    /\ sending' = <<Header(Len(m)), m>>
    /\ UNCHANGED <<wire, open, recv, taken>>

\* One send: at least one byte, at most what there is room for.  EINTR is tried
\* again, which is this step later.
NetSend ==
    /\ "sender" \in open /\ "receiver" \in open
    /\ sending # <<>> /\ Head(sending) # <<>>
    /\ \E k \in 1 .. Len(Head(sending)) :
          /\ k <= SocketRoom - Len(wire)
          /\ wire' = wire \o SubSeq(Head(sending), 1, k)
          /\ sending' = [sending EXCEPT ![1] = SubSeq(@, k + 1, Len(@))]
    /\ UNCHANGED <<begun, open, recv, taken>>

NetSendReturns ==
    /\ "sender" \in open /\ sending # <<>> /\ Head(sending) = <<>>
    /\ sending' = Tail(sending)
    /\ UNCHANGED <<begun, wire, open, recv, taken>>

\* send returns 0 or less: the peer has gone, or the timeout has come with the
\* buffer full.
NetSendFails ==
    /\ "sender" \in open
    /\ sending # <<>> /\ Head(sending) # <<>>
    /\ "receiver" \notin open \/ Len(wire) = SocketRoom
    /\ open' = open \ {"sender"}
    /\ UNCHANGED <<begun, sending, wire, recv, taken>>

SenderCloses ==
    /\ "sender" \in open /\ sending = <<>>
    /\ open' = open \ {"sender"}
    /\ UNCHANGED <<begun, sending, wire, recv, taken>>

----------------------------------------------------------------------------
(* The receiver *)

NetRecvMsg ==
    /\ "receiver" \in open /\ ~recv.in
    /\ recv' = [NoMsg EXCEPT !.in = TRUE]
    /\ UNCHANGED <<begun, sending, wire, open, taken>>

HeaderIsIn == Len(recv.hdr) = HeaderBytes
Missing_OneRecv ==
    IF Len(recv.hdr) < HeaderBytes THEN HeaderBytes - Len(recv.hdr)
    ELSE IF recv.body = <<>> THEN Length(recv.hdr) ELSE 0
Missing == IF HeaderIsIn THEN Length(recv.hdr) - Len(recv.body)
                         ELSE HeaderBytes - Len(recv.hdr)

\* One turn of either loop: net_recv gives at least one byte.
NetRecv ==
    /\ "receiver" \in open /\ recv.in /\ Missing > 0
    /\ \E k \in 1 .. Min({Missing, Len(wire)}) :
          LET got == SubSeq(wire, 1, k) IN
          /\ recv' = IF HeaderIsIn THEN [recv EXCEPT !.body = @ \o got]
                                   ELSE [recv EXCEPT !.hdr = @ \o got]
          /\ wire' = SubSeq(wire, k + 1, Len(wire))
    /\ UNCHANGED <<begun, sending, open, taken>>

\* The message is complete; one of no bytes is "", not str_null.
NetRecvReturns ==
    /\ "receiver" \in open /\ recv.in /\ HeaderIsIn /\ Missing = 0
    /\ taken' = Append(taken, recv.body)
    /\ recv' = NoMsg
    /\ UNCHANGED <<begun, sending, wire, open>>

\* net_recv returns 0 or less, at the end of the stream or when the timeout has
\* come first: str_null, and what came of the message is dropped.
NetRecvFails ==
    /\ "receiver" \in open /\ recv.in /\ Missing > 0 /\ wire = <<>>
    /\ open' = open \ {"receiver"}
    /\ recv' = NoMsg
    /\ UNCHANGED <<begun, sending, wire, taken>>

SenderStep == NetSend \/ NetSendReturns
ReceiverStep == NetRecvMsg \/ NetRecv \/ NetRecvReturns

FramingNext ==
    \/ \E m \in Messages : NetSendMsg(m)
    \/ SenderStep \/ NetSendFails \/ SenderCloses
    \/ ReceiverStep \/ NetRecvFails

FramingSpec == FramingInit /\ [][FramingNext]_linkVars

----------------------------------------------------------------------------
(* Properties *)

Link == INSTANCE MsgLink WITH sent <- begun, received <- taken

\* Messages arrive whole, in order and once, however the kernel cuts the stream,
\* also when one side gives up in the middle of one.
ImplementsMsgLink == Link!LinkInit /\ [][Link!LinkNext]_<<begun, taken>>

\* While neither side gives up, what net_send_msg was called with arrives: the
\* receiver never waits for bytes of a message the sender believes complete.
EverythingArrives ==
    \A i \in 1 .. MaxMessages :
        Len(begun) >= i ~> (Len(taken) >= i \/ open # {"sender", "receiver"})
=============================================================================
