---------------------------- MODULE TCPMessages -----------------------------
(***************************************************************************)
(* The two halves of a TCP segment, and how a sequence of segments lays    *)
(* out in the sequence space.                                              *)
(***************************************************************************)
EXTENDS WrappingIntegers, ByteQueue

(***************************************************************************)
(* TCPSenderMessage                                                        *)
(***************************************************************************)
SenderMessage ==
    [seqno : Wrap32, SYN : BOOLEAN, payload : Seq(Byte), FIN : BOOLEAN, RST : BOOLEAN]

One(flag) == IF flag THEN 1 ELSE 0

(***************************************************************************)
(* TCPSenderMessage::sequence_length                                       *)
(***************************************************************************)
SeqLength(msg) == One(msg.SYN) + Len(msg.payload) + One(msg.FIN)

(***************************************************************************)
(* TCPReceiverMessage; ackno is None when the ACK flag is not set.         *)
(***************************************************************************)
ReceiverMessage == [ackno : Wrap32 \cup {None}, window_size : Nat, RST : BOOLEAN]

(***************************************************************************)
(* Where each message of a queue ends when the first one starts at start:  *)
(* Ends(queue, start)[i] is the absolute sequence number after the i-th.   *)
(***************************************************************************)
Ends(queue, start) ==
    LET end[i \in 0 .. Len(queue)] ==
            IF i = 0 THEN start ELSE end[i - 1] + SeqLength(queue[i])
    IN  end
=============================================================================
