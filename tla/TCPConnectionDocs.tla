------------------------- MODULE TCPConnectionDocs --------------------------
(* What comments of the repository say of a connection and the code does   *)
(* not do: each property is checked by a run that finds it violated.       *)
EXTENDS MCTCPConnection

CONSTANT MAX_RETX_ATTEMPTS      \* TCPConfig::MAX_RETX_ATTEMPTS

(***************************************************************************)
(* tcp_config.h:20: after MAX_RETX_ATTEMPTS retransmissions of a segment   *)
(* the connection gives up retransmitting it.  (The sender counts its      *)
(* consecutive retransmissions; TCPPeer and the socket never look.)        *)
(***************************************************************************)
GivesUpRetransmitting ==
    \A p \in Sides :
        Active(peer[p]) => Sender_(p).total_retransmissions <= MAX_RETX_ATTEMPTS

(***************************************************************************)
(* tcp_receiver_message.h:15: window_size is a count of sequence numbers   *)
(* that starts at the ackno of the same message.  A receiver's right edge, *)
(* its ackno plus its window, never moves back, so a sender that takes the *)
(* two together has sent nothing beyond the present edge, but for the one  *)
(* number that probes a closed window.  (TCPSender::receive takes the      *)
(* window of a late reply for one that starts at its newer ack_absseq.)    *)
(***************************************************************************)
WindowStartsAtAckno ==
    \A p \in Sides :
        LET r == Receiver_(Other(p))
        IN  Sender_(p).next_absseq <=
                AckAbsseq(r) + Greater(ReceiverReply(r).window_size, 1)
=============================================================================
