--------------------------- MODULE ConnectionPair ---------------------------
(***************************************************************************)
(* One direction of a connection from end to end: what one side gives to   *)
(* Connection::send_message goes through its send buffer and the network   *)
(* to Connection::read on the other side.  The sender is ConnectionSend,   *)
(* the receiver ConnectionRead; their steps are joined where one side's    *)
(* environment is the other side.                                          *)
(*                                                                         *)
(* Either side may be the client or the server: frontend/src/net and       *)
(* backend/src/net have a copy of the code each.  To tell the messages     *)
(* apart, each has a number of its own.                                    *)
(***************************************************************************)
EXTENDS Subsequence

CONSTANTS HEADER_SIZE, MAX_PAYLOAD,
          SendBuffer, Payload, MaxMessages   \* see ConnectionSend

(* No payload is empty: it is the JSON text of a message.                  *)
ASSUME ConnectionPairAssumption ==
  /\ HEADER_SIZE \in Nat \ {0}
  /\ MAX_PAYLOAD \in Nat \ {0}
  /\ SendBuffer \in Nat \ {0}
  /\ Payload \subseteq Nat \ {0}
  /\ MaxMessages \in Nat

VARIABLES
  peer,          \* the line, for both sides: open, finished or broken
  \* the sender
  message_queue, sending, out_buffer_pos, out_buffer_size, send_interest,
  pc, caller, ready, room, event,
  accepted, delivered, written, short, torn,
  \* the receiver
  packets, start, arrived, readable, receiver, got, in_buffer, in_buffer_pos,
  state, message_number, payload_size, processed

Sender == INSTANCE ConnectionSend

Packet == [header : BOOLEAN, number : 0 .. MaxMessages, size : Payload, body : 0 .. MaxMessages]

Receiver == INSTANCE ConnectionRead WITH
  MaxPackets <- MaxMessages, event <- readable, pc <- receiver

sendingState ==
  <<message_queue, sending, out_buffer_pos, out_buffer_size, send_interest, caller, ready,
    room, event, accepted, delivered, written, short, torn>>
senderVars == <<pc, sendingState>>
decoding ==
  <<readable, receiver, got, in_buffer, in_buffer_pos, state, message_number, payload_size,
    processed>>
receiverVars == <<packets, start, arrived, decoding>>
vars == <<peer, senderVars, receiverVars>>

Init == Sender!Init /\ Receiver!Init

-----------------------------------------------------------------------------
(* The sender alone: it queues, waits, gives up.                           *)

Accept(size) == Sender!SendMessage(size) /\ UNCHANGED receiverVars

SenderAlone ==
  /\ \/ Sender!Poll
     \/ Sender!HandleWritable
     \/ Sender!HandleBroken
     \/ Sender!EncodeRefuses
     \/ Sender!EncodePanics
     \/ Sender!NothingToSend
     \/ Sender!WriteBlocks
     \/ Sender!WriteFails
  /\ UNCHANGED receiverVars

(* An encoded message is the next packet of the stream.                    *)
PacketOf(m) == [header |-> TRUE, number |-> m, size |-> accepted[m], body |-> m]

Encode ==
  /\ Sender!Encode
  /\ IF peer = "open" THEN Receiver!PeerSends(PacketOf(Head(message_queue)))
     ELSE UNCHANGED receiverVars

(* Bytes go into the send buffer.  When some are written twice, what is at *)
(* the end of the packet does not belong there: the header or the payload  *)
(* cannot be parsed.                                                       *)
Garbled(p) == IF written < HEADER_SIZE THEN [p EXCEPT !.header = FALSE] ELSE [p EXCEPT !.body = 0]

Write ==
  /\ Sender!WriteAll \/ Sender!WriteSome
  /\ packets' = IF torn' /\ ~torn THEN [packets EXCEPT ![Len(packets)] = Garbled(@)] ELSE packets
  /\ UNCHANGED <<start, arrived, decoding>>

-----------------------------------------------------------------------------
(* The network takes bytes from the send buffer to the receiver; there are *)
(* more of them than the packets have if some were written twice.          *)
Deliver(n) ==
  LET expected == Receiver!Total - arrived IN
  Sender!Drain(n) /\ Receiver!Arrive(IF n < expected THEN n ELSE expected)

Receive == Receiver!ReadStep /\ UNCHANGED senderVars

(* The sender's side closes the socket with nothing left to send.          *)
Finish ==
  /\ pc = "poll" /\ message_queue = <<>> /\ out_buffer_size = 0
  /\ pc' = "closed"
  /\ Receiver!PeerFinishes
  /\ UNCHANGED sendingState

(* A reset, a side that goes away, or a receiver that has closed.          *)
Break == Sender!PeerBreaks /\ Receiver!PeerBreaks

-----------------------------------------------------------------------------

SenderStep == SenderAlone \/ Encode \/ Write

Next ==
  \/ \E size \in Payload : Accept(size)
  \/ SenderStep
  \/ \E n \in 1 .. SendBuffer : Deliver(n)
  \/ Receive
  \/ Finish
  \/ Break

Spec == Init /\ [][Next]_vars

(* Both threads are scheduled, and the network delivers.                   *)
FairSpec ==
  /\ Spec
  /\ WF_vars(SenderStep)
  /\ WF_vars(Receive)
  /\ WF_vars(\E n \in 1 .. SendBuffer : Deliver(n))

-----------------------------------------------------------------------------
(* Properties *)

(* The messages that can be encoded, in the order of the send_message      *)
(* calls, as the packets they should be.                                   *)
Due == Selected([m \in 1 .. Len(accepted) |-> PacketOf(m)],
                {m \in 1 .. Len(accepted) : Sender!Fits(m)})

(* What one side processes is what the other side gave to send_message:    *)
(* the same messages from the first one on, in order, none twice and none  *)
(* left out but those that encode refuses; when a packet was torn, nothing *)
(* from that packet on is processed (both copies of connection.rs).        *)
EndToEnd ==
  /\ Len(processed) <= Len(Due)
  /\ processed = SubSeq(Due, 1, Len(processed))

(* The receiver takes the stream for invalid only if a packet was torn;    *)
(* otherwise it closes when the line broke, or when the sender has         *)
(* finished and every message of it was processed (connection.rs:106-128). *)
ClosedForAReason ==
  receiver = "closed" =>
    torn \/ peer = "broken" \/ (peer = "finished" /\ processed = Due)

(* A message that can be encoded is processed by the other side in the     *)
(* end, unless a packet was torn or the connection ends before.            *)
AcceptedIsProcessed ==
  \A m \in 1 .. MaxMessages :
    m <= Len(accepted) /\ Sender!Fits(m)
      ~> \/ \E i \in DOMAIN processed : processed[i].number = m
         \/ torn \/ peer = "broken" \/ (peer = "open" /\ pc \in {"closed", "panicked"})
=============================================================================
