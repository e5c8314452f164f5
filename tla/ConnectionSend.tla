--------------------------- MODULE ConnectionSend ---------------------------
(***************************************************************************)
(* Sending on a connection: send_message, send and encode                  *)
(* (backend/src/net/connection.rs; the client's copy in frontend/src/net   *)
(* is the same code), against a socket whose send buffer fills up, a poll  *)
(* that reports edges, and a peer that takes its time to read.             *)
(*                                                                         *)
(* A message is its number in the order of send_message calls; what        *)
(* matters of it is the length of its payload.                             *)
(***************************************************************************)
EXTENDS Integers, Sequences

CONSTANTS HEADER_SIZE,
          MAX_PAYLOAD,
          SendBuffer,     \* size of the socket's send buffer
          Payload,        \* the payload lengths that occur
          MaxMessages     \* bound: how many messages are sent

ASSUME ConnectionSendAssumption ==
  /\ HEADER_SIZE \in Nat \ {0}
  /\ MAX_PAYLOAD \in Nat \ {0}
  /\ SendBuffer \in Nat \ {0}
  /\ Payload \subseteq Nat
  /\ MaxMessages \in Nat

VARIABLES
  \* the connection
  message_queue,                     \* the messages that wait
  sending,                           \* the message in out_buffer, the last one if none is
  out_buffer_pos, out_buffer_size,
  send_interest,
  pc,                                \* poll, send, closed, panicked
  caller,                            \* who called send
  ready,                             \* its writable event is in the batch of events
  \* the socket
  room,                              \* free bytes in the send buffer
  event,                             \* poll has a writable event to report
  peer,                              \* open or broken
  \* history
  accepted,                          \* payload lengths given to send_message
  delivered,                         \* the messages written completely
  written,                           \* how much of out_buffer's message was written,
                                     \* counted as long as nothing is torn
  short,                             \* some message had two short writes
  torn                               \* a write did not go on where the last one ended

queue == <<message_queue, sending, out_buffer_pos, out_buffer_size>>
control == <<pc, caller, ready>>
history == <<accepted, delivered, written, short, torn>>
vars == <<queue, send_interest, control, room, event, peer, history>>

Init ==
  /\ message_queue = <<>> /\ sending = 0
  /\ out_buffer_pos = 0 /\ out_buffer_size = 0
  /\ send_interest = FALSE
  /\ pc = "poll" /\ caller = "event" /\ ready = FALSE
  /\ room = SendBuffer /\ event = FALSE /\ peer = "open"
  /\ accepted = <<>> /\ delivered = <<>> /\ written = 0 /\ short = FALSE /\ torn = FALSE

-----------------------------------------------------------------------------
(* The peer and the socket. *)

Drain(n) ==
  /\ peer = "open"
  /\ n \in 1 .. SendBuffer - room
  /\ room' = room + n
  /\ event' = (event \/ send_interest)
  /\ UNCHANGED <<queue, send_interest, control, peer, history>>

PeerBreaks ==
  /\ peer = "open"
  /\ peer' = "broken"
  /\ UNCHANGED <<queue, send_interest, control, room, event, history>>

-----------------------------------------------------------------------------
(* The connection thread.  Its poll puts the event into the batch; other   *)
(* events of the batch may send messages before this one is handled.       *)

Poll ==
  /\ pc = "poll" /\ ~ready
  /\ event
  /\ ready' = TRUE
  /\ event' = FALSE
  /\ UNCHANGED <<queue, send_interest, pc, caller, room, peer, history>>

HandleWritable ==
  /\ pc = "poll" /\ ready
  /\ ready' = FALSE
  /\ pc' = "send" /\ caller' = "event"
  /\ UNCHANGED <<queue, send_interest, room, event, peer, history>>

(* read() finds out that the peer is gone. *)
HandleBroken ==
  /\ pc = "poll"
  /\ peer = "broken"
  /\ pc' = "closed"
  /\ UNCHANGED <<queue, send_interest, caller, ready, room, event, peer, history>>

\* Slip: the newest message is sent first.
PushFront(q, m) == <<m>> \o q

PushBack(q, m) == Append(q, m)

SendMessage(size) ==
  /\ pc = "poll" /\ Len(accepted) < MaxMessages
  /\ accepted' = Append(accepted, size)
  /\ message_queue' = PushBack(message_queue, Len(accepted) + 1)
  /\ pc' = "send" /\ caller' = "send_message"
  /\ UNCHANGED <<sending, out_buffer_pos, out_buffer_size, send_interest, ready, room, event,
                 peer, delivered, written, short, torn>>

(* send() returns `true`, "should be removed": the event loop obeys,       *)
(* send_message does not look.                                             *)
ReturnRemove == pc' = IF caller = "event" THEN "closed" ELSE "poll"

-----------------------------------------------------------------------------
(* Connection::send, one step for each message fetched and each write.     *)

(* encode refuses what is longer than MAX_PAYLOAD, but packs header and    *)
(* payload into an out_buffer of MAX_PAYLOAD bytes.                        *)
Fetches == pc = "send" /\ out_buffer_size = 0 /\ message_queue # <<>>
NextPayload == accepted[Head(message_queue)]
OutBuffer == MAX_PAYLOAD
Refused(size) == size > MAX_PAYLOAD

\* Slip: the header is not counted.
PayloadOverflows(size) == ~Refused(size) /\ size > OutBuffer

Overflows(size) == ~Refused(size) /\ HEADER_SIZE + size > OutBuffer

Encode ==
  /\ Fetches
  /\ ~Refused(NextPayload) /\ ~Overflows(NextPayload)
  /\ message_queue' = Tail(message_queue)
  /\ sending' = Head(message_queue)
  /\ out_buffer_size' = HEADER_SIZE + NextPayload
  /\ out_buffer_pos' = 0
  /\ written' = 0
  /\ UNCHANGED <<send_interest, control, room, event, peer, accepted, delivered, short, torn>>

EncodeRefuses ==
  /\ Fetches
  /\ Refused(NextPayload)
  /\ message_queue' = Tail(message_queue)
  /\ ReturnRemove
  /\ UNCHANGED <<sending, out_buffer_pos, out_buffer_size, send_interest, caller, ready,
                 room, event, peer, history>>

EncodePanics ==
  /\ Fetches
  /\ Overflows(NextPayload)
  /\ message_queue' = Tail(message_queue)
  /\ pc' = "panicked"
  /\ UNCHANGED <<sending, out_buffer_pos, out_buffer_size, send_interest, caller, ready,
                 room, event, peer, history>>

(* Nothing to send: writable events are of no interest any more. *)
NothingToSend ==
  /\ pc = "send" /\ out_buffer_size = 0 /\ message_queue = <<>>
  /\ send_interest' = FALSE
  /\ event' = (event /\ ~send_interest)
  /\ pc' = "poll"
  /\ UNCHANGED <<queue, caller, ready, room, peer, history>>

Rest == out_buffer_size - out_buffer_pos
Writes == pc = "send" /\ out_buffer_size > 0 /\ peer = "open"

(* A write of n bytes of out_buffer, from out_buffer_pos on. *)
Written(n) ==
  /\ room' = room - n
  /\ torn' = (torn \/ out_buffer_pos # written)
  /\ written' = IF torn' THEN 0 ELSE written + n

WriteAll ==
  /\ Writes
  /\ room >= Rest
  /\ Written(Rest)
  /\ delivered' = Append(delivered, sending)
  /\ out_buffer_size' = 0 /\ out_buffer_pos' = 0
  /\ UNCHANGED <<message_queue, sending, send_interest, control, event, peer, accepted, short>>

\* Slip: writable events are not asked for.
NoInterest == send_interest

Interest == TRUE

(* send returns and waits for a writable event.  The registration reports  *)
(* the socket at once if there is room by then (see Drain).                *)
AwaitWritable ==
  /\ send_interest' = Interest
  /\ pc' = "poll"

\* Slip: the position does not move.
StayAt(n) == out_buffer_pos

PosAfterShortWrite(n) == n

WriteSome ==
  /\ Writes
  /\ 0 < room /\ room < Rest
  /\ Written(room)
  /\ out_buffer_pos' = PosAfterShortWrite(room)
  /\ short' = (short \/ written > 0)
  /\ AwaitWritable
  /\ UNCHANGED <<message_queue, sending, out_buffer_size, caller, ready, event, peer,
                 accepted, delivered>>

WriteBlocks ==
  /\ Writes
  /\ room = 0
  /\ AwaitWritable
  /\ UNCHANGED <<queue, caller, ready, room, event, peer, history>>

WriteFails ==
  /\ pc = "send" /\ out_buffer_size > 0
  /\ peer = "broken"
  /\ ReturnRemove
  /\ UNCHANGED <<queue, send_interest, caller, ready, room, event, peer, history>>

-----------------------------------------------------------------------------

SendStep ==
  \/ Poll
  \/ HandleWritable
  \/ HandleBroken
  \/ Encode
  \/ EncodeRefuses
  \/ EncodePanics
  \/ NothingToSend
  \/ WriteAll
  \/ WriteSome
  \/ WriteBlocks
  \/ WriteFails

Next ==
  \/ \E n \in 1 .. SendBuffer : Drain(n)
  \/ PeerBreaks
  \/ \E size \in Payload : SendMessage(size)
  \/ SendStep

Spec == Init /\ [][Next]_vars

(* The connection thread is scheduled, and the peer goes on reading.       *)
FairSpec ==
  /\ Spec
  /\ WF_vars(SendStep)
  /\ WF_vars(\E n \in 1 .. SendBuffer : Drain(n))

-----------------------------------------------------------------------------
(* Properties *)

(* The types of the variables. *)
TypeOK ==
  /\ message_queue \in Seq(1 .. Len(accepted))
  /\ sending \in 0 .. Len(accepted)
  /\ out_buffer_size \in 0 .. OutBuffer
  /\ out_buffer_pos \in 0 .. out_buffer_size
  /\ send_interest \in BOOLEAN
  /\ pc \in {"poll", "send", "closed", "panicked"}
  /\ caller \in {"send_message", "event"}
  /\ ready \in BOOLEAN
  /\ room \in 0 .. SendBuffer
  /\ event \in BOOLEAN
  /\ peer \in {"open", "broken"}
  /\ accepted \in Seq(Payload)
  /\ delivered \in Seq(1 .. Len(accepted))
  /\ written \in Nat
  /\ short \in BOOLEAN
  /\ torn \in BOOLEAN

(* Between two calls of send, while the line is up, what is left to send   *)
(* has writable events enabled, and if there is room for it the event is   *)
(* on its way: no packet waits for an edge that has passed, not even when  *)
(* send_message ignored that encode refused the packet before it           *)
(* (connection.rs:252-330).                                                *)
NoStall ==
  LET pending == message_queue # <<>> \/ out_buffer_size > 0 IN
  pc = "poll" /\ peer = "open" /\ pending =>
    send_interest /\ (room > 0 => event \/ ready)

Fits(m) == ~Refused(accepted[m]) /\ ~Overflows(accepted[m])
InBuffer == IF out_buffer_size > 0 THEN <<sending>> ELSE <<>>

(* Messages go out in the order of the send_message calls, none twice, and *)
(* none is dropped but those that encode refuses (connection.rs:252-330).  *)
NothingLost ==
  LET encoded == delivered \o InBuffer
      all == encoded \o message_queue IN
  /\ \A i, j \in DOMAIN all : i < j => all[i] < all[j]
  /\ \A i \in DOMAIN encoded : Fits(encoded[i])
  /\ \A m \in 1 .. Len(accepted) : Fits(m) => \E i \in DOMAIN all : all[i] = m

(* The peer sees every packet as it was encoded, unless a packet needed    *)
(* more than two writes.                                                   *)
IntactUnlessShortTwice == torn => short

(* A message that can be encoded is delivered while the peer reads on,     *)
(* unless some packet needs more than two writes or the connection ends.   *)
DeliveredInTheEnd ==
  \A m \in 1 .. MaxMessages :
    m <= Len(accepted) /\ Fits(m)
      ~> \/ \E i \in DOMAIN delivered : delivered[i] = m
         \/ short \/ peer = "broken" \/ pc \in {"closed", "panicked"}

(* The load test compares every byte it receives with the reply it expects *)
(* (test/performance_test.rs:143): packets arrive as they were encoded.    *)
StreamIntact == ~torn

(* "Payload size, maximum is MAX_PAYLOAD" (connection.rs:22): a payload of *)
(* up to MAX_PAYLOAD bytes can be sent.                                    *)
EncodeFits == pc # "panicked"
=============================================================================
