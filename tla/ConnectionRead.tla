--------------------------- MODULE ConnectionRead ---------------------------
(***************************************************************************)
(* Reading from a connection: Connection::read and the decoder behind it   *)
(* (backend/src/net/connection.rs; the client's copy in frontend/src/net   *)
(* is the same code).                                                      *)
(*                                                                         *)
(* A byte is its offset in the stream the peer sends, so that the buffer   *)
(* shows which bytes of which packet are where.  What a packet says is     *)
(* abstracted to what decides its fate: can the header be read, which      *)
(* message number and payload size does it give, and as which kind of      *)
(* message can the payload be parsed.                                      *)
(***************************************************************************)
EXTENDS Integers, Sequences

CONSTANTS HEADER_SIZE,
          MAX_PAYLOAD,
          Packet,        \* the packets the peer may send
          MaxPackets     \* bound: how many of them it sends

MAX_PACKET_SIZE == HEADER_SIZE + MAX_PAYLOAD

(* header: magic and numbers are legible; body: the number of the message  *)
(* type the payload parses as.                                             *)
ASSUME ConnectionReadAssumption ==
  /\ HEADER_SIZE \in Nat \ {0}
  /\ MAX_PAYLOAD \in Nat \ {0}
  /\ Packet \subseteq [header : BOOLEAN, number : Nat, size : Nat, body : Nat]
  /\ MaxPackets \in Nat

VARIABLES
  \* the peer and the network
  packets,         \* the packets sent
  start,           \* offset of each of them, and last the offset of the next one
  arrived,         \* how many bytes have reached the socket
  peer,            \* open, finished or broken
  event,           \* poll has a readiness event to report (edge triggered)
  \* the connection
  pc,              \* poll, read, decode, closed
  got,             \* how many bytes were read from the socket
  in_buffer, in_buffer_pos,
  state,           \* MessageDecodeState
  message_number, payload_size,
  processed        \* the messages processed

network == <<packets, start, arrived, peer>>
decoder == <<state, message_number, payload_size>>
buffer == <<in_buffer, in_buffer_pos>>
vars == <<network, event, pc, got, buffer, decoder, processed>>

Index == 0 .. MAX_PACKET_SIZE - 1
Blank == -1     \* a byte that was never read: the buffer starts zeroed

Total == start[Len(start)]

Init ==
  /\ packets = <<>> /\ start = <<0>> /\ arrived = 0
  /\ peer = "open" /\ event = FALSE
  /\ pc = "poll" /\ got = 0
  /\ in_buffer = [i \in Index |-> Blank] /\ in_buffer_pos = 0
  /\ state = "WaitingForHeader" /\ message_number = 0 /\ payload_size = 0
  /\ processed = <<>>

-----------------------------------------------------------------------------
(* The peer and the network: bytes arrive in pieces of any length. *)

PeerSends(p) ==
  /\ peer = "open" /\ Len(packets) < MaxPackets
  /\ packets' = Append(packets, p)
  /\ start' = Append(start, Total + HEADER_SIZE + p.size)
  /\ UNCHANGED <<arrived, peer, event, pc, got, buffer, decoder, processed>>

Arrive(n) ==
  /\ peer = "open"
  /\ arrived' = arrived + n
  /\ event' = TRUE
  /\ UNCHANGED <<packets, start, peer, pc, got, buffer, decoder, processed>>

PeerFinishes ==
  /\ peer = "open" /\ arrived = Total
  /\ peer' = "finished"
  /\ event' = TRUE
  /\ UNCHANGED <<packets, start, arrived, pc, got, buffer, decoder, processed>>

(* A reset, or an end in the middle of a packet. *)
PeerBreaks ==
  /\ peer = "open"
  /\ peer' = "broken"
  /\ event' = TRUE
  /\ UNCHANGED <<packets, start, arrived, pc, got, buffer, decoder, processed>>

-----------------------------------------------------------------------------
(* Connection::read.  An interrupted read is just tried again. *)

Poll ==
  /\ pc = "poll" /\ event
  /\ event' = FALSE
  /\ pc' = "read"
  /\ UNCHANGED <<network, got, buffer, decoder, processed>>

\* Slip: the whole buffer is offered to the socket.
WholeBuffer == MAX_PACKET_SIZE

(* The slice in_buffer[in_buffer_pos..]. *)
Space == MAX_PACKET_SIZE - in_buffer_pos

ReadBytes ==
  LET n == IF Space < arrived - got THEN Space ELSE arrived - got IN
  /\ pc = "read"
  /\ n > 0
  /\ in_buffer' = [i \in Index |-> IF i \in in_buffer_pos .. in_buffer_pos + n - 1
                                    THEN got + (i - in_buffer_pos) ELSE in_buffer[i]]
  /\ in_buffer_pos' = in_buffer_pos + n
  /\ got' = got + n
  /\ pc' = "decode"
  /\ UNCHANGED <<network, event, decoder, processed>>

ReadBlocks ==
  /\ pc = "read"
  /\ Space > 0 /\ got = arrived /\ peer = "open"
  /\ pc' = "poll"
  /\ UNCHANGED <<network, event, got, buffer, decoder, processed>>

\* Slip: the end of the stream is taken for a lack of data.
NotYet == "poll"

AfterEnd == "closed"

(* Ok(0): the end of the stream, but also the answer to an empty slice. *)
ReadEnds ==
  /\ pc = "read"
  /\ Space = 0 \/ (got = arrived /\ peer = "finished")
  /\ pc' = AfterEnd
  /\ UNCHANGED <<network, event, got, buffer, decoder, processed>>

ReadFails ==
  /\ pc = "read"
  /\ peer = "broken"
  /\ pc' = "closed"
  /\ UNCHANGED <<network, event, got, buffer, decoder, processed>>

-----------------------------------------------------------------------------
(* Connection::decode and process_states: decode_header and decode_payload *)
(* take turns until one of them has to wait; then read goes on.            *)

\* Slip: one read per event.
Return == "poll"

ReadOn == "read"

ForHeader == pc = "decode" /\ state \in {"WaitingForHeader", "PayloadSuccessfulRead"}
ForPayload == pc = "decode" /\ state \in {"HeaderSuccessfulRead", "WaitingForPayload"}

HeaderIncomplete ==
  /\ ForHeader
  /\ in_buffer_pos < HEADER_SIZE
  /\ state' = "WaitingForHeader"
  /\ pc' = ReadOn
  /\ UNCHANGED <<network, event, got, buffer, message_number, payload_size, processed>>

(* Do the bytes from offset first on in the buffer come from offset from   *)
(* of the stream?                                                          *)
Holds(first, len, from) == \A i \in 0 .. len - 1 : in_buffer[first + i] = from + i

(* The packets whose header is at the front of the buffer: one, unless     *)
(* what is there is no header at all.                                      *)
HeaderAtFront == {k \in DOMAIN packets : Holds(0, HEADER_SIZE, start[k])}

\* Slip: off by one.
OneMore(size) == size > 0 /\ size <= MAX_PAYLOAD + 1

SizeAllowed(size) == size > 0 /\ size <= MAX_PAYLOAD

HeaderInvalid ==
  /\ ForHeader
  /\ in_buffer_pos >= HEADER_SIZE
  /\ \A k \in HeaderAtFront : ~packets[k].header \/ ~SizeAllowed(packets[k].size)
  /\ pc' = "closed"
  /\ UNCHANGED <<network, event, got, buffer, decoder, processed>>

HeaderRead ==
  /\ ForHeader
  /\ in_buffer_pos >= HEADER_SIZE
  /\ \E k \in HeaderAtFront :
       /\ packets[k].header /\ SizeAllowed(packets[k].size)
       /\ message_number' = packets[k].number
       /\ payload_size' = packets[k].size
  /\ state' = "HeaderSuccessfulRead"
  /\ UNCHANGED <<network, event, pc, got, buffer, processed>>

PayloadIncomplete ==
  /\ ForPayload
  /\ in_buffer_pos < payload_size + HEADER_SIZE
  /\ state' = "WaitingForPayload"
  /\ pc' = ReadOn
  /\ UNCHANGED <<network, event, got, buffer, message_number, payload_size, processed>>

\* Slip: whatever the payload says.
AnyPayload ==
  {k \in DOMAIN packets :
     packets[k].size = payload_size /\ Holds(HEADER_SIZE, payload_size, start[k] + HEADER_SIZE)}

(* The packets whose payload is in the buffer behind a header, and can be  *)
(* parsed as the message that the header announced.                        *)
PayloadParsed ==
  {k \in DOMAIN packets :
     /\ packets[k].size = payload_size
     /\ Holds(HEADER_SIZE, payload_size, start[k] + HEADER_SIZE)
     /\ packets[k].body = message_number}

PayloadInvalid ==
  /\ ForPayload
  /\ in_buffer_pos >= payload_size + HEADER_SIZE
  /\ PayloadParsed = {}
  /\ pc' = "closed"
  /\ UNCHANGED <<network, event, got, buffer, decoder, processed>>

\* Slip: the header stays in the buffer.
PayloadOnly == payload_size

Consumed == payload_size + HEADER_SIZE

PayloadRead ==
  /\ ForPayload
  /\ in_buffer_pos >= payload_size + HEADER_SIZE
  /\ \E k \in PayloadParsed :
       processed' = Append(processed, [packets[k] EXCEPT !.number = message_number])
  /\ in_buffer' = [i \in Index |-> IF i < in_buffer_pos - Consumed
                                    THEN in_buffer[i + Consumed] ELSE in_buffer[i]]
  /\ in_buffer_pos' = in_buffer_pos - Consumed
  /\ state' = "PayloadSuccessfulRead"
  /\ UNCHANGED <<network, event, pc, got, message_number, payload_size>>

-----------------------------------------------------------------------------

ReadStep ==
  \/ Poll
  \/ ReadBytes
  \/ ReadBlocks
  \/ ReadEnds
  \/ ReadFails
  \/ HeaderIncomplete
  \/ HeaderInvalid
  \/ HeaderRead
  \/ PayloadIncomplete
  \/ PayloadInvalid
  \/ PayloadRead

Next ==
  \/ \E p \in Packet : PeerSends(p)
  \/ \E n \in 1 .. Total - arrived : Arrive(n)
  \/ PeerFinishes
  \/ PeerBreaks
  \/ ReadStep

Spec == Init /\ [][Next]_vars

(* The connection thread is scheduled and its poll reports what is ready. *)
FairSpec == Spec /\ WF_vars(ReadStep)

-----------------------------------------------------------------------------
(* Properties *)

(* The types of the variables. *)
TypeOK ==
  /\ packets \in Seq(Packet)
  /\ start \in Seq(Nat) /\ Len(start) = Len(packets) + 1
  /\ arrived \in 0 .. Total
  /\ peer \in {"open", "finished", "broken"}
  /\ event \in BOOLEAN
  /\ pc \in {"poll", "read", "decode", "closed"}
  /\ got \in 0 .. arrived
  /\ in_buffer \in [Index -> Nat \union {Blank}]
  /\ in_buffer_pos \in 0 .. MAX_PACKET_SIZE
  /\ state \in {"WaitingForHeader", "HeaderSuccessfulRead", "WaitingForPayload",
                "PayloadSuccessfulRead"}
  /\ message_number \in Nat
  /\ payload_size \in Nat
  /\ processed \in Seq(Packet)

ValidPacket == {p \in Packet : p.header /\ SizeAllowed(p.size) /\ p.body = p.number}

(* Packets lie in the stream one behind the other. *)
Layout ==
  /\ start[1] = 0
  /\ \A k \in DOMAIN packets : start[k + 1] = start[k] + HEADER_SIZE + packets[k].size
  /\ \A j, k \in DOMAIN start : j < k => start[j] + HEADER_SIZE <= start[k]

(* Processed were the first packets, and what the buffer holds begins with *)
(* the first byte of the next one.                                         *)
InStep ==
  /\ Len(processed) <= Len(packets)
  /\ \A k \in DOMAIN processed : processed[k] = packets[k] /\ processed[k] \in ValidPacket
  /\ got - in_buffer_pos = start[Len(processed) + 1]
  /\ Holds(0, in_buffer_pos, got - in_buffer_pos)

(* What the decoder remembers of a header is the header at the front.      *)
HeaderKnown ==
  state \in {"HeaderSuccessfulRead", "WaitingForPayload"} =>
    LET k == Len(processed) + 1 IN
    /\ in_buffer_pos >= HEADER_SIZE
    /\ k <= Len(packets)
    /\ packets[k].header /\ SizeAllowed(packets[k].size)
    /\ message_number = packets[k].number
    /\ payload_size = packets[k].size

(* Outside of decode the decoder waits for bytes it does not have yet.     *)
Waiting ==
  pc \in {"poll", "read"} =>
    \/ state = "WaitingForHeader" /\ in_buffer_pos < HEADER_SIZE
    \/ state = "WaitingForPayload" /\ in_buffer_pos < payload_size + HEADER_SIZE

(* The end of the stream comes after all of it.                            *)
EndIsLast == peer = "finished" => arrived = Total

(* The decoder keeps pace with the stream: whatever the chunks and however *)
(* many packets arrive at once, the buffer starts at a packet's first byte *)
(* and the remembered header is that packet's (connection.rs:134-238).     *)
DecoderInv == Layout /\ InStep /\ HeaderKnown /\ Waiting /\ EndIsLast

(* The socket is never read into an empty slice, whose Ok(0) would be      *)
(* taken for the end of the stream (connection.rs:106-112).                *)
NeverFull == pc = "read" => in_buffer_pos < MAX_PACKET_SIZE

Stream == INSTANCE MessageStream WITH
  Message <- Packet, ValidMessage <- ValidPacket,
  sent <- packets, received <- processed,
  status <- IF pc = "closed" THEN "closed" ELSE "open"

(* Messages are processed in order and once, up to the first invalid one,  *)
(* and the connection is closed for no other reason than that one, the     *)
(* end of the stream, or its failure.                                      *)
ProcessedInOrder == Stream!Spec

(* A packet that has arrived completely, behind valid packets only, gets   *)
(* processed: no byte waits in the socket for an event that does not come  *)
(* (connection.rs:103-129).                                                *)
ArrivedIsProcessed ==
  \A k \in 1 .. MaxPackets :
    (/\ k <= Len(packets) /\ start[k + 1] <= arrived
     /\ \A j \in 1 .. k : packets[j] \in ValidPacket)
      ~> Len(processed) >= k \/ peer = "broken"

(* When the peer has finished or the line is broken, the connection is     *)
(* closed in the end.                                                      *)
ClosedInTheEnd == peer # "open" ~> pc = "closed"
=============================================================================
