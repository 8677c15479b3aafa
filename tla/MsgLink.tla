------------------------------- MODULE MsgLink -------------------------------
(***************************************************************************)
(* What net_send_msg and net_recv_msg of barenet.h promise: whole messages *)
(* in order.  Either side may give up; what arrived until then is a prefix *)
(* of what was sent.                                                       *)
(***************************************************************************)
EXTENDS Naturals, Sequences

CONSTANT Messages

VARIABLES sent, received

LinkInit == sent = <<>> /\ received = <<>>

SendMsg(m) == sent' = Append(sent, m) /\ UNCHANGED received

Deliver ==
    /\ Len(received) < Len(sent)
    /\ received' = Append(received, sent[Len(received) + 1])
    /\ UNCHANGED sent

LinkNext == Deliver \/ \E m \in Messages : SendMsg(m)
=============================================================================
