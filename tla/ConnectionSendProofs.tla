------------------------ MODULE ConnectionSendProofs ------------------------
(***************************************************************************)
(* Proofs about sending: types, that what is left to send always has its   *)
(* writable event, that packets are torn only by a second short write, and *)
(* that messages are delivered in order and none is lost.  They hold for   *)
(* any header, payload limit, send buffer and messages.                    *)
(***************************************************************************)
EXTENDS ConnectionSend, TLAPS

USE ConnectionSendAssumption
USE DEF queue, control, history, vars

-----------------------------------------------------------------------------
(* Types.  That what is in out_buffer was accepted is needed beside them:  *)
(* only then may it be delivered.                                          *)

SendingAccepted == out_buffer_size > 0 => sending # 0

TypeInv == TypeOK /\ SendingAccepted

LEMMA TypeInit == Init => TypeInv
<1> SUFFICES ASSUME Init PROVE TypeInv
  OBVIOUS
<1>1. accepted \in Seq(Payload) /\ Len(accepted) = 0
  BY DEF Init
<1>2. message_queue \in Seq(1 .. Len(accepted)) /\ delivered \in Seq(1 .. Len(accepted))
  BY DEF Init
<1>3. out_buffer_size \in 0 .. OutBuffer /\ out_buffer_pos \in 0 .. out_buffer_size
  BY DEF Init, OutBuffer
<1>4. sending \in 0 .. Len(accepted) /\ room \in 0 .. SendBuffer /\ written \in Nat
  BY <1>1 DEF Init
<1> QED
  <2>1. /\ send_interest \in BOOLEAN /\ ready \in BOOLEAN /\ event \in BOOLEAN
        /\ short \in BOOLEAN /\ torn \in BOOLEAN
    BY DEF Init
  <2> QED
    BY <1>1, <1>2, <1>3, <1>4, <2>1 DEF Init, TypeInv, TypeOK, SendingAccepted

LEMMA TypeSendMessage ==
  ASSUME TypeInv, NEW size \in Payload, SendMessage(size)
  PROVE  TypeInv'
<1>1. accepted' \in Seq(Payload) /\ Len(accepted') = Len(accepted) + 1
  BY DEF TypeInv, TypeOK, SendingAccepted, SendMessage
<1>2. \A q \in Seq(1 .. Len(accepted)) : q \in Seq(1 .. Len(accepted'))
  BY <1>1 DEF TypeInv, TypeOK, SendingAccepted
<1>3. message_queue' \in Seq(1 .. Len(accepted'))
  <2>1. Len(accepted) + 1 \in 1 .. Len(accepted')
    BY <1>1 DEF TypeInv, TypeOK, SendingAccepted
  <2> QED
    BY <1>2, <2>1 DEF TypeInv, TypeOK, SendingAccepted, SendMessage, PushBack
<1>4. delivered' \in Seq(1 .. Len(accepted')) /\ sending' \in 0 .. Len(accepted')
  BY <1>1, <1>2 DEF TypeInv, TypeOK, SendingAccepted, SendMessage
<1> QED
  BY <1>1, <1>3, <1>4 DEF TypeInv, TypeOK, SendingAccepted, SendMessage

(* The message that send() fetches was accepted. *)
LEMMA Fetched ==
  ASSUME TypeInv, Fetches
  PROVE  /\ Head(message_queue) \in 1 .. Len(accepted)
         /\ Tail(message_queue) \in Seq(1 .. Len(accepted))
         /\ Len(Tail(message_queue)) = Len(message_queue) - 1
         /\ NextPayload \in Payload
<1>1. /\ Head(message_queue) \in 1 .. Len(accepted)
      /\ Tail(message_queue) \in Seq(1 .. Len(accepted))
      /\ Len(Tail(message_queue)) = Len(message_queue) - 1
  BY DEF TypeInv, TypeOK, SendingAccepted, Fetches
<1> QED
  BY <1>1 DEF TypeInv, TypeOK, SendingAccepted, NextPayload

LEMMA TypeEncode ==
  ASSUME TypeInv, Encode \/ EncodeRefuses \/ EncodePanics
  PROVE  TypeInv'
<1>1. CASE Encode
  <2>1. Fetches /\ ~Refused(NextPayload) /\ ~Overflows(NextPayload)
    BY <1>1 DEF Encode
  <2>2. NextPayload \in Nat
    BY <2>1, Fetched
  <2>3. HEADER_SIZE + NextPayload \in 0 .. OutBuffer
    BY <2>1, <2>2 DEF Refused, Overflows, OutBuffer
  <2> QED
    BY <1>1, <2>1, <2>3, Fetched DEF TypeInv, TypeOK, SendingAccepted, Encode
<1>2. CASE EncodeRefuses
  BY <1>2, Fetched DEF TypeInv, TypeOK, SendingAccepted, EncodeRefuses, ReturnRemove
<1>3. CASE EncodePanics
  BY <1>3, Fetched DEF TypeInv, TypeOK, SendingAccepted, EncodePanics
<1> QED
  BY <1>1, <1>2, <1>3

LEMMA TypeWrite ==
  ASSUME TypeInv, WriteAll \/ WriteSome \/ WriteBlocks \/ WriteFails
  PROVE  TypeInv'
<1>0. Rest \in Nat /\ Rest <= out_buffer_size
  BY DEF TypeInv, TypeOK, SendingAccepted, Rest, OutBuffer
<1>1. CASE WriteAll
  <2>1. delivered' \in Seq(1 .. Len(accepted))
    BY <1>1 DEF Writes, TypeInv, TypeOK, SendingAccepted, WriteAll
  <2> QED
    <3>1. room' \in 0 .. SendBuffer
      BY <1>0, <1>1 DEF TypeInv, TypeOK, WriteAll, Written
    <3>2. written' \in Nat /\ torn' \in BOOLEAN
      BY <1>0, <1>1 DEF TypeInv, TypeOK, WriteAll, Written
    <3>3. out_buffer_size' \in 0 .. OutBuffer /\ out_buffer_pos' \in 0 .. out_buffer_size'
      BY <1>1 DEF WriteAll, OutBuffer
    <3> QED
      BY <1>1, <2>1, <3>1, <3>2, <3>3 DEF TypeInv, TypeOK, SendingAccepted, WriteAll
<1>2. CASE WriteSome
  BY <1>0, <1>2
  DEF TypeInv, TypeOK, SendingAccepted, WriteSome, Written, PosAfterShortWrite, AwaitWritable, Interest
<1>3. CASE WriteBlocks \/ WriteFails
  BY <1>3
  DEF TypeInv, TypeOK, SendingAccepted, WriteBlocks, WriteFails, AwaitWritable, Interest, ReturnRemove
<1> QED
  BY <1>1, <1>2, <1>3

LEMMA TypeRest ==
  ASSUME TypeInv,
         \/ \E n \in 1 .. SendBuffer : Drain(n)
         \/ PeerBreaks \/ Poll \/ HandleWritable \/ HandleBroken \/ NothingToSend
         \/ UNCHANGED vars
  PROVE  TypeInv'
<1>1. CASE \E n \in 1 .. SendBuffer : Drain(n)
  BY <1>1 DEF TypeInv, TypeOK, SendingAccepted, Drain
<1>2. CASE PeerBreaks \/ Poll \/ HandleWritable \/ HandleBroken \/ NothingToSend
  BY ZenonT(30), <1>2
  DEF TypeInv, TypeOK, SendingAccepted, PeerBreaks, Poll, HandleWritable, HandleBroken, NothingToSend
<1>3. CASE UNCHANGED vars
  BY <1>3 DEF TypeInv, TypeOK, SendingAccepted
<1> QED
  BY <1>1, <1>2, <1>3
-----------------------------------------------------------------------------
(* Writable events *)

(* The thread will hear of room in the send buffer. *)
Armed == send_interest /\ (room > 0 => event \/ ready)

Pending == Len(message_queue) + (IF out_buffer_size > 0 THEN 1 ELSE 0)

(* Between two calls of send, whatever is pending is armed.  In a call     *)
(* from send_message the message that came last need not be, but whatever  *)
(* was pending before it is.                                               *)
Waiting == pc = "poll" /\ peer = "open" /\ Pending > 0 => Armed
Sending == pc = "send" /\ caller = "send_message" /\ peer = "open" /\ Pending > 1 => Armed

StallInv == Waiting /\ Sending

LEMMA PendingNat == TypeInv => Pending \in Nat
BY DEF TypeInv, TypeOK, Pending

LEMMA StallOutside ==
  ASSUME TypeInv, StallInv,
         \/ \E n \in 1 .. SendBuffer : Drain(n)
         \/ PeerBreaks \/ Poll \/ HandleWritable \/ HandleBroken
         \/ UNCHANGED vars
  PROVE  StallInv'
<1>0. Pending' = Pending
  BY DEF Drain, PeerBreaks, Poll, HandleWritable, HandleBroken, Pending
<1>1. CASE \E n \in 1 .. SendBuffer : Drain(n)
  BY <1>0, <1>1 DEF TypeInv, TypeOK, StallInv, Waiting, Sending, Armed, Drain
<1>2. CASE PeerBreaks \/ Poll \/ HandleWritable \/ HandleBroken \/ UNCHANGED vars
  BY <1>0, <1>2 DEF TypeInv, TypeOK, StallInv, Waiting, Sending, Armed, PeerBreaks, Poll,
                    HandleWritable, HandleBroken
<1> QED
  BY <1>1, <1>2

LEMMA StallSendMessage ==
  ASSUME TypeInv, StallInv, NEW size \in Payload, SendMessage(size)
  PROVE  StallInv'
<1>1. Pending' = Pending + 1
  BY DEF TypeInv, TypeOK, SendMessage, PushBack, Pending
<1>2. pc = "poll" /\ pc' = "send" /\ UNCHANGED <<send_interest, ready, room, event, peer>>
  BY DEF SendMessage
<1> QED
  BY <1>1, <1>2, PendingNat DEF StallInv, Waiting, Sending, Armed

(* A refused packet was pending, the packets behind it remain armed. *)
LEMMA StallEncode ==
  ASSUME TypeInv, StallInv, Encode \/ EncodeRefuses \/ EncodePanics
  PROVE  StallInv'
<1>0. Fetches /\ out_buffer_size = 0
  BY DEF Encode, EncodeRefuses, EncodePanics, Fetches
<1>1. CASE Encode
  <2>1. out_buffer_size' > 0
    <3>1. NextPayload \in Nat /\ out_buffer_size' = HEADER_SIZE + NextPayload
      BY <1>0, <1>1, Fetched DEF Encode
    <3> QED
      BY <3>1
  <2>2. Pending' = Pending
    BY <1>0, <1>1, <2>1, Fetched DEF Encode, Pending, TypeInv, TypeOK
  <2>3. UNCHANGED <<pc, caller, send_interest, ready, room, event, peer>>
    BY <1>1 DEF Encode
  <2> QED
    BY <2>2, <2>3 DEF StallInv, Waiting, Sending, Armed
<1>2. CASE EncodeRefuses
  <2>1. Pending' = Pending - 1
    BY <1>0, <1>2, Fetched DEF EncodeRefuses, Pending, TypeInv, TypeOK
  <2>2. /\ pc = "send" /\ pc' = IF caller = "event" THEN "closed" ELSE "poll"
        /\ UNCHANGED <<caller, send_interest, ready, room, event, peer>>
    BY <1>0, <1>2 DEF EncodeRefuses, ReturnRemove, Fetches
  <2> QED
    BY <2>1, <2>2, PendingNat DEF StallInv, Waiting, Sending, Armed, TypeInv, TypeOK
<1>3. CASE EncodePanics
  BY <1>3 DEF EncodePanics, StallInv, Waiting, Sending
<1> QED
  BY <1>1, <1>2, <1>3

LEMMA StallWrite ==
  ASSUME TypeInv, StallInv,
         NothingToSend \/ WriteAll \/ WriteSome \/ WriteBlocks \/ WriteFails
  PROVE  StallInv'
<1>1. CASE NothingToSend
  <2>1. Pending' = 0
    BY <1>1 DEF NothingToSend, Pending
  <2> QED
    BY <2>1 DEF StallInv, Waiting, Sending
<1>2. CASE WriteAll
  <2>1. Pending' = Pending - 1
    BY <1>2 DEF WriteAll, Writes, Pending, TypeInv, TypeOK
  <2>2. room' = room - Rest /\ Rest \in Nat
    BY <1>2 DEF WriteAll, Written, Rest, TypeInv, TypeOK, OutBuffer
  <2>3. pc = "send" /\ UNCHANGED <<pc, caller, send_interest, ready, event, peer>>
    BY <1>2 DEF WriteAll, Writes
  <2> QED
    BY <2>1, <2>2, <2>3, PendingNat DEF StallInv, Waiting, Sending, Armed, TypeInv, TypeOK
<1>3. CASE WriteSome \/ WriteBlocks
  <2>1. room' = 0 /\ send_interest' /\ pc' = "poll"
    BY <1>3 DEF WriteSome, WriteBlocks, Written, AwaitWritable, Interest, TypeInv, TypeOK
  <2> QED
    BY <2>1 DEF StallInv, Waiting, Sending, Armed
<1>4. CASE WriteFails
  BY <1>4 DEF WriteFails, StallInv, Waiting, Sending
<1> QED
  BY <1>1, <1>2, <1>3, <1>4

-----------------------------------------------------------------------------
(* Torn packets: the position is where the last write ended until a second *)
(* short write of the same packet.                                         *)

TornInv ==
  /\ torn => short
  /\ out_buffer_size > 0 /\ out_buffer_pos # written => short

LEMMA TornStep ==
  ASSUME TypeInv, TornInv, [Next]_vars
  PROVE  TornInv'
<1>1. CASE WriteAll
  <2>1. /\ out_buffer_size > 0 /\ out_buffer_size' = 0
        /\ torn' = (torn \/ out_buffer_pos # written) /\ short' = short
    BY <1>1 DEF WriteAll, Writes, Written
  <2>2. torn' => torn \/ out_buffer_pos # written
    BY <2>1
  <2>3. torn' => short'
    BY <2>1, <2>2 DEF TornInv
  <2>4. ~(out_buffer_size' > 0)
    BY <2>1
  <2> QED
    BY <2>3, <2>4 DEF TornInv
<1>2. CASE WriteSome
  <2>1. /\ out_buffer_size > 0 /\ out_buffer_pos' = room
        /\ torn' = (torn \/ out_buffer_pos # written)
        /\ short' = (short \/ written > 0)
        /\ written' = IF torn' THEN 0 ELSE written + room
    BY <1>2 DEF WriteSome, Writes, Written, PosAfterShortWrite
  <2>2. torn' => short'
    BY <2>1 DEF TornInv
  <2>3. ~torn' /\ room # written' => short'
    <3>1. room \in Nat /\ written \in Nat
      BY DEF TypeInv, TypeOK
    <3>2. ~torn' /\ room # written' => written > 0
      BY <2>1, <3>1
    <3>3. written > 0 => short'
      BY <2>1
    <3> QED
      BY <3>2, <3>3
  <2> QED
    BY <2>1, <2>2, <2>3 DEF TornInv
<1>3. CASE Encode
  BY <1>3 DEF TornInv, Encode
<1>4. CASE UNCHANGED <<out_buffer_size, out_buffer_pos, written, short, torn>>
  BY <1>4 DEF TornInv
<1> QED
  BY <1>1, <1>2, <1>3, <1>4
  DEF Next, SendStep, Drain, PeerBreaks, SendMessage, Poll, HandleWritable, HandleBroken,
      EncodeRefuses, EncodePanics, NothingToSend, WriteBlocks, WriteFails

-----------------------------------------------------------------------------

Inv == TypeInv /\ StallInv /\ TornInv

LEMMA InvInit == Init => Inv
<1> SUFFICES ASSUME Init PROVE Inv
  OBVIOUS
<1>1. Pending = 0 /\ pc = "poll"
  BY DEF Init, Pending
<1>2. StallInv
  BY <1>1 DEF StallInv, Waiting, Sending
<1>3. TornInv
  BY DEF Init, TornInv
<1> QED
  BY <1>2, <1>3, TypeInit DEF Inv

LEMMA InvStep ==
  ASSUME Inv, [Next]_vars
  PROVE  Inv'
<1> USE DEF Inv
<1>1. CASE \E size \in Payload : SendMessage(size)
  BY <1>1, TypeSendMessage, StallSendMessage, TornStep
<1>2. CASE Encode \/ EncodeRefuses \/ EncodePanics
  BY <1>2, TypeEncode, StallEncode, TornStep
<1>3. CASE WriteAll \/ WriteSome \/ WriteBlocks \/ WriteFails
  BY <1>3, TypeWrite, StallWrite, TornStep
<1>4. CASE NothingToSend
  BY <1>4, TypeRest, StallWrite, TornStep
<1>5. CASE \/ \E n \in 1 .. SendBuffer : Drain(n)
           \/ PeerBreaks \/ Poll \/ HandleWritable \/ HandleBroken
           \/ UNCHANGED vars
  BY <1>5, TypeRest, StallOutside, TornStep
<1> QED
  BY <1>1, <1>2, <1>3, <1>4, <1>5 DEF Next, SendStep

LEMMA SendInvariant == Spec => []Inv
BY InvInit, InvStep, PTL DEF Spec

(* The variables of the sending connection keep their types; in particular *)
(* no packet is larger than out_buffer, once it is in it.                  *)
THEOREM SendTypeCorrect == Spec => []TypeOK
<1>1. Inv => TypeOK
  BY DEF Inv, TypeInv
<1> QED
  BY <1>1, SendInvariant, PTL

(* Whatever is left to send between two calls of send has its writable     *)
(* event, also when send_message ignored a refused packet                  *)
(* (connection.rs:252-330).                                                *)
THEOREM NothingStalls == Spec => []NoStall
<1>1. Inv => NoStall
  <2> SUFFICES ASSUME Inv, pc = "poll", peer = "open", message_queue # <<>> \/ out_buffer_size > 0
               PROVE  Armed
    BY DEF NoStall, Armed
  <2>1. message_queue # <<>> => Len(message_queue) > 0
    BY DEF Inv, TypeInv, TypeOK
  <2>2. Pending > 0
    BY <2>1 DEF Inv, TypeInv, TypeOK, Pending
  <2> QED
    BY <2>2 DEF Inv, StallInv, Waiting
<1> QED
  BY <1>1, SendInvariant, PTL

(* A packet is torn only by a second short write of it, whatever its size  *)
(* and that of the send buffer (connection.rs:283-295).                    *)
THEOREM TornOnlyByShortWrites == Spec => []IntactUnlessShortTwice
<1>1. Inv => IntactUnlessShortTwice
  BY DEF Inv, TornInv, IntactUnlessShortTwice
<1> QED
  BY <1>1, SendInvariant, PTL

-----------------------------------------------------------------------------
(* The order of the messages: those that wait are the last ones accepted,  *)
(* one after the other; of those before them, the ones that fit have been  *)
(* delivered in order, but for the one in out_buffer.                      *)

(* How many messages encode has been given.                                *)
Taken == Len(accepted) - Len(message_queue)

QueueInOrder ==
  /\ Taken \in Nat
  /\ \A i \in 1 .. Len(message_queue) : message_queue[i] = Taken + i

DeliveredInOrder ==
  /\ \A i, j \in 1 .. Len(delivered) : i < j => delivered[i] < delivered[j]
  /\ \A i \in 1 .. Len(delivered) : delivered[i] \in 1 .. Taken /\ Fits(delivered[i])

BufferInOrder ==
  out_buffer_size > 0 =>
    /\ sending \in 1 .. Taken /\ Fits(sending)
    /\ \A i \in 1 .. Len(delivered) : delivered[i] < sending

NoneLeftOut ==
  \A m \in 1 .. Taken :
    Fits(m) => \/ \E i \in 1 .. Len(delivered) : delivered[i] = m
               \/ out_buffer_size > 0 /\ sending = m

OrderInv == QueueInOrder /\ DeliveredInOrder /\ BufferInOrder /\ NoneLeftOut

LEMMA OrderSame ==
  ASSUME OrderInv,
         UNCHANGED <<message_queue, accepted, delivered, out_buffer_size>>,
         out_buffer_size > 0 => sending' = sending
  PROVE  OrderInv'
<1>1. Taken' = Taken /\ \A m : Fits(m)' <=> Fits(m)
  BY DEF Taken, Fits, Refused, Overflows, OutBuffer
<1> QED
  BY <1>1 DEF OrderInv, QueueInOrder, DeliveredInOrder, BufferInOrder, NoneLeftOut,
              Fits, Refused, Overflows, OutBuffer

LEMMA OrderSendMessage ==
  ASSUME TypeInv, OrderInv, NEW size \in Payload, SendMessage(size)
  PROVE  OrderInv'
<1>1. /\ accepted \in Seq(Payload) /\ message_queue \in Seq(1 .. Len(accepted))
      /\ Len(accepted) \in Nat /\ Len(message_queue) \in Nat
      /\ accepted' = Append(accepted, size)
      /\ message_queue' = Append(message_queue, Len(accepted) + 1)
      /\ UNCHANGED <<sending, out_buffer_size, delivered>>
  BY DEF SendMessage, PushBack, TypeInv, TypeOK
<1>2. /\ Len(accepted') = Len(accepted) + 1 /\ Len(message_queue') = Len(message_queue) + 1
      /\ \A m \in 1 .. Len(accepted) : accepted'[m] = accepted[m]
      /\ \A i \in 1 .. Len(message_queue) : message_queue'[i] = message_queue[i]
      /\ message_queue'[Len(message_queue) + 1] = Len(accepted) + 1
  BY <1>1
<1>3. Taken' = Taken /\ Taken \in Nat /\ Taken <= Len(accepted)
      /\ Taken + Len(message_queue) = Len(accepted)
  BY <1>1, <1>2 DEF OrderInv, QueueInOrder, Taken
<1>4. \A m \in 1 .. Taken : Fits(m)' <=> Fits(m)
  <2>1. \A m \in 1 .. Taken : accepted'[m] = accepted[m]
    BY <1>1, <1>2, <1>3
  <2> QED
    BY <2>1 DEF Fits, Refused, Overflows, OutBuffer
<1>5. QueueInOrder'
  <2> SUFFICES ASSUME NEW i \in 1 .. Len(message_queue')
               PROVE  message_queue'[i] = Taken' + i
    BY <1>3 DEF QueueInOrder
  <2>1. CASE i \in 1 .. Len(message_queue)
    BY <1>2, <1>3, <2>1 DEF OrderInv, QueueInOrder
  <2>2. CASE i = Len(message_queue) + 1
    <3>1. message_queue'[i] = Len(accepted) + 1
      BY <1>2, <2>2
    <3>2. Len(accepted) + 1 = Taken + i
      BY <1>1, <1>3, <2>2
    <3> QED
      BY <1>3, <3>1, <3>2
  <2> QED
    BY <1>1, <1>2, <2>1, <2>2
<1>6. DeliveredInOrder' /\ BufferInOrder' /\ NoneLeftOut'
  BY <1>1, <1>3, <1>4 DEF OrderInv, DeliveredInOrder, BufferInOrder, NoneLeftOut, Fits,
                          Refused, Overflows, OutBuffer
<1> QED
  BY <1>5, <1>6 DEF OrderInv

LEMMA OrderEncode ==
  ASSUME TypeInv, OrderInv, Encode \/ EncodeRefuses \/ EncodePanics
  PROVE  OrderInv'
<1>0. PICK m : m = Head(message_queue)
  OBVIOUS
<1>1. Fetches /\ out_buffer_size = 0
  BY DEF Encode, EncodeRefuses, EncodePanics, Fetches
<1>2. /\ message_queue' = Tail(message_queue) /\ UNCHANGED <<accepted, delivered>>
      /\ message_queue \in Seq(1 .. Len(accepted)) /\ message_queue # <<>>
      /\ Len(accepted) \in Nat
  BY <1>1 DEF Encode, EncodeRefuses, EncodePanics, Fetches, TypeInv, TypeOK
<1>3. /\ Len(message_queue') = Len(message_queue) - 1 /\ Len(message_queue) \in Nat
      /\ 1 \in 1 .. Len(message_queue) /\ m = message_queue[1]
      /\ \A i \in 1 .. Len(message_queue') :
           message_queue'[i] = message_queue[i + 1] /\ i + 1 \in 1 .. Len(message_queue)
  <2>1. 1 \in 1 .. Len(message_queue)
    BY <1>2
  <2> QED
    BY <1>0, <1>2, <2>1
<1>4. Taken' = Taken + 1 /\ m = Taken + 1 /\ Taken \in Nat
  BY <1>2, <1>3 DEF OrderInv, QueueInOrder, Taken
<1>5. \A n : Fits(n)' <=> Fits(n)
  BY <1>2 DEF Fits, Refused, Overflows, OutBuffer
<1>6. QueueInOrder'
  BY <1>3, <1>4 DEF OrderInv, QueueInOrder
<1>7. DeliveredInOrder'
  BY <1>2, <1>4, <1>5 DEF OrderInv, DeliveredInOrder, Fits, Refused, Overflows, OutBuffer
<1>8. \A n \in 1 .. Taken' : Fits(n) =>
        (\E i \in 1 .. Len(delivered) : delivered[i] = n) \/ n = m
  <2>1. \A n \in 1 .. Taken' : n \in 1 .. Taken \/ n = m
    BY <1>4
  <2>2. \A n \in 1 .. Taken : Fits(n) => \E i \in 1 .. Len(delivered) : delivered[i] = n
    BY <1>1 DEF OrderInv, NoneLeftOut
  <2> QED
    BY <2>1, <2>2
<1>9. CASE Encode
  <2>1. Fits(m) /\ sending' = m /\ out_buffer_size' > 0
    <3>1. NextPayload \in Nat /\ out_buffer_size' = HEADER_SIZE + NextPayload
      BY <1>1, <1>9, Fetched DEF Encode
    <3> QED
      BY <1>0, <1>9, <3>1 DEF Encode, Fits, NextPayload
  <2>2. BufferInOrder'
    <3>1. \A i \in 1 .. Len(delivered') : delivered'[i] < sending'
      BY <1>2, <1>4, <2>1 DEF OrderInv, DeliveredInOrder
    <3>2. Fits(m)'
      BY <1>5, <2>1
    <3> QED
      BY <1>4, <2>1, <3>1, <3>2 DEF BufferInOrder, Fits, Refused, Overflows, OutBuffer
  <2>3. NoneLeftOut'
    BY <1>2, <1>5, <1>8, <2>1 DEF NoneLeftOut, Fits, Refused, Overflows, OutBuffer
  <2> QED
    BY <1>6, <1>7, <2>2, <2>3 DEF OrderInv
<1>10. CASE EncodeRefuses \/ EncodePanics
  <2>1. ~Fits(m) /\ out_buffer_size' = 0
    BY <1>0, <1>1, <1>10 DEF EncodeRefuses, EncodePanics, Fits, NextPayload
  <2>2. NoneLeftOut'
    BY <1>2, <1>5, <1>8, <2>1 DEF NoneLeftOut, Fits, Refused, Overflows, OutBuffer
  <2> QED
    BY <1>6, <1>7, <2>1, <2>2 DEF OrderInv, BufferInOrder
<1> QED
  BY <1>9, <1>10

LEMMA OrderWriteAll ==
  ASSUME TypeInv, OrderInv, WriteAll
  PROVE  OrderInv'
<1>1. /\ out_buffer_size > 0 /\ out_buffer_size' = 0
      /\ delivered' = Append(delivered, sending) /\ delivered \in Seq(1 .. Len(accepted))
      /\ UNCHANGED <<message_queue, accepted>>
  BY DEF WriteAll, Writes, TypeInv, TypeOK
<1>2. /\ Len(delivered') = Len(delivered) + 1 /\ Len(delivered) \in Nat
      /\ \A i \in 1 .. Len(delivered) : delivered'[i] = delivered[i]
      /\ delivered'[Len(delivered) + 1] = sending
  BY <1>1
<1>3. \A i \in 1 .. Len(delivered') : i \in 1 .. Len(delivered) \/ i = Len(delivered) + 1
  BY <1>2
<1>4. Taken' = Taken /\ \A m : Fits(m)' <=> Fits(m)
  BY <1>1 DEF Taken, Fits, Refused, Overflows, OutBuffer
<1>5. /\ sending \in 1 .. Taken /\ Fits(sending)
      /\ \A i \in 1 .. Len(delivered) : delivered[i] < sending
  BY <1>1 DEF OrderInv, BufferInOrder
<1>6. DeliveredInOrder'
  <2>1. ASSUME NEW i \in 1 .. Len(delivered'), NEW j \in 1 .. Len(delivered'), i < j
        PROVE  delivered'[i] < delivered'[j]
    <3>1. i \in 1 .. Len(delivered)
      BY <1>2, <2>1
    <3> QED
      BY <1>2, <1>3, <1>5, <2>1, <3>1 DEF OrderInv, DeliveredInOrder
  <2>2. \A i \in 1 .. Len(delivered') : delivered'[i] \in 1 .. Taken /\ Fits(delivered'[i])
    BY <1>2, <1>3, <1>5 DEF OrderInv, DeliveredInOrder
  <2> QED
    BY <1>1, <1>4, <2>1, <2>2 DEF DeliveredInOrder, Fits, Refused, Overflows, OutBuffer
<1>7. NoneLeftOut'
  <2>1. /\ Len(delivered) + 1 \in 1 .. Len(delivered')
        /\ \A i \in 1 .. Len(delivered) : i \in 1 .. Len(delivered')
    BY <1>2
  <2> QED
    BY <1>1, <1>2, <1>4, <2>1 DEF OrderInv, NoneLeftOut, Fits, Refused, Overflows, OutBuffer
<1>8. QueueInOrder' /\ BufferInOrder'
  BY <1>1, <1>4 DEF OrderInv, QueueInOrder, BufferInOrder
<1> QED
  BY <1>6, <1>7, <1>8 DEF OrderInv

LEMMA ConcatParts ==
  ASSUME NEW S, NEW s \in Seq(S), NEW r \in Seq(S)
  PROVE  /\ s \o r \in Seq(S) /\ Len(s \o r) = Len(s) + Len(r)
         /\ DOMAIN (s \o r) = 1 .. Len(s \o r) /\ Len(s) \in Nat /\ Len(r) \in Nat
         /\ \A i \in 1 .. Len(s) : (s \o r)[i] = s[i]
         /\ \A i \in 1 .. Len(r) : (s \o r)[Len(s) + i] = r[i]
<1>1. \A i \in 1 .. Len(r) : (s \o r)[Len(s) + i] = r[i]
  OBVIOUS
<1> QED
  BY <1>1

(* The order says what NothingLost does.                                   *)
LEMMA OrderSuffices ==
  ASSUME TypeInv, OrderInv
  PROVE  NothingLost
<1> DEFINE encoded == delivered \o InBuffer
           all == encoded \o message_queue
           d == Len(delivered)
           b == IF out_buffer_size > 0 THEN 1 ELSE 0
<1>1. /\ InBuffer \in Seq(1 .. Len(accepted)) /\ Len(InBuffer) = b
      /\ out_buffer_size > 0 => InBuffer[1] = sending
  <2>1. out_buffer_size > 0 => sending \in 1 .. Len(accepted)
    BY DEF TypeInv, TypeOK, SendingAccepted
  <2>2. CASE out_buffer_size > 0
    BY <2>1, <2>2 DEF InBuffer
  <2>3. CASE ~(out_buffer_size > 0)
    BY <2>3 DEF InBuffer
  <2> QED
    BY <2>2, <2>3
<1>2. /\ delivered \in Seq(1 .. Len(accepted)) /\ message_queue \in Seq(1 .. Len(accepted))
      /\ Len(accepted) \in Nat /\ d \in Nat /\ b \in {0, 1} /\ Len(message_queue) \in Nat
  BY DEF TypeInv, TypeOK
<1>3. /\ encoded \in Seq(1 .. Len(accepted)) /\ Len(encoded) = d + b
      /\ \A i \in 1 .. d : encoded[i] = delivered[i]
      /\ out_buffer_size > 0 => encoded[d + 1] = sending
  <2> DEFINE r == InBuffer
  <2>1. r \in Seq(1 .. Len(accepted)) /\ Len(r) = b /\ (out_buffer_size > 0 => r[1] = sending)
    BY <1>1
  <2>2. out_buffer_size > 0 => b = 1
    OBVIOUS
  <2> HIDE DEF r, b
  <2>3. /\ delivered \o r \in Seq(1 .. Len(accepted)) /\ Len(delivered \o r) = d + b
        /\ \A i \in 1 .. d : (delivered \o r)[i] = delivered[i]
        /\ \A i \in 1 .. b : (delivered \o r)[d + i] = r[i]
    BY <1>2, <2>1
  <2> QED
    BY <2>1, <2>2, <2>3 DEF r
<1> HIDE DEF encoded
<1>4. /\ Len(all) = d + b + Len(message_queue) /\ DOMAIN all = 1 .. Len(all)
      /\ \A i \in 1 .. d + b : all[i] = encoded[i]
      /\ \A i \in 1 .. Len(message_queue) : all[d + b + i] = message_queue[i]
  <2> HIDE DEF d, b
  <2>0. PICK S : S = 1 .. Len(accepted)
    OBVIOUS
  <2>1. encoded \in Seq(S) /\ message_queue \in Seq(S) /\ Len(encoded) = d + b
    BY <1>2, <1>3, <2>0
  <2>2. Len(all) = Len(encoded) + Len(message_queue) /\ DOMAIN all = 1 .. Len(all)
    BY <2>1, ConcatParts
  <2>3. \A i \in 1 .. Len(encoded) : all[i] = encoded[i]
    BY <2>1, ConcatParts
  <2>4. \A i \in 1 .. Len(message_queue) : all[Len(encoded) + i] = message_queue[i]
    BY <2>1, ConcatParts
  <2> HIDE DEF all
  <2> QED
    BY <2>1, <2>2, <2>3, <2>4
<1> HIDE DEF all
<1>5. DOMAIN encoded = 1 .. d + b
  BY <1>3
<1> HIDE DEF d, b
<1>6. \A i \in 1 .. d + b : i \in 1 .. d \/ (out_buffer_size > 0 /\ i = d + 1)
  BY <1>2 DEF b
<1>7. \A i \in 1 .. d + b : encoded[i] \in 1 .. Taken /\ Fits(encoded[i])
  BY <1>3, <1>6 DEF OrderInv, DeliveredInOrder, BufferInOrder, d
<1>8. \A i, j \in 1 .. d + b : i < j => encoded[i] < encoded[j]
  <2> SUFFICES ASSUME NEW i \in 1 .. d + b, NEW j \in 1 .. d + b, i < j
               PROVE  encoded[i] < encoded[j]
    OBVIOUS
  <2>1. i \in 1 .. d
    BY <1>2, <1>6
  <2> QED
    BY <1>3, <1>6, <2>1 DEF OrderInv, DeliveredInOrder, BufferInOrder, d
<1>9. \A i \in 1 .. Len(all) :
        i \in 1 .. d + b \/ \E k \in 1 .. Len(message_queue) : i = d + b + k
  <2> SUFFICES ASSUME NEW i \in 1 .. Len(all), i \notin 1 .. d + b
               PROVE  \E k \in 1 .. Len(message_queue) : i = d + b + k
    OBVIOUS
  <2>1. i - (d + b) \in 1 .. Len(message_queue) /\ i = d + b + (i - (d + b))
    BY <1>2, <1>4
  <2> QED
    BY <2>1
<1>10. \A k \in 1 .. Len(message_queue) : message_queue[k] = Taken + k /\ Taken \in Nat
  BY DEF OrderInv, QueueInOrder
<1>11. \A i, j \in DOMAIN all : i < j => all[i] < all[j]
  <2> SUFFICES ASSUME NEW i \in 1 .. Len(all), NEW j \in 1 .. Len(all), i < j
               PROVE  all[i] < all[j]
    BY <1>4
  <2>1. CASE i \in 1 .. d + b /\ j \in 1 .. d + b
    BY <1>4, <1>8, <2>1
  <2>2. ASSUME i \in 1 .. d + b, NEW k \in 1 .. Len(message_queue), j = d + b + k
        PROVE  all[i] < all[j]
    BY SMTT(20), <1>4, <1>7, <1>10, <2>2
  <2>3. ASSUME NEW h \in 1 .. Len(message_queue), i = d + b + h,
               NEW k \in 1 .. Len(message_queue), j = d + b + k
        PROVE  all[i] < all[j]
    <3>1. h < k
      BY <1>2, <2>3
    <3> QED
      BY <1>4, <1>10, <2>3, <3>1
  <2>4. ~(j \in 1 .. d + b /\ i \notin 1 .. d + b)
    BY <1>2
  <2> QED
    BY <1>9, <2>1, <2>2, <2>3, <2>4
<1>12. ASSUME NEW m \in 1 .. Len(accepted), Fits(m)
       PROVE  \E i \in DOMAIN all : all[i] = m
  <2>1. CASE m \in 1 .. Taken
    <3>1. \E i \in 1 .. d + b : encoded[i] = m
      <4>1. CASE \E i \in 1 .. d : delivered[i] = m
        BY <1>2, <1>3, <4>1
      <4>2. CASE out_buffer_size > 0 /\ sending = m
        <5>1. d + 1 \in 1 .. d + b
          BY <1>2, <4>2 DEF b
        <5> QED
          BY <1>3, <4>2, <5>1
      <4> QED
        BY <1>12, <2>1, <4>1, <4>2 DEF OrderInv, NoneLeftOut, d
    <3>2. \A i \in 1 .. d + b : i \in DOMAIN all
      BY <1>2, <1>4
    <3> QED
      BY <1>4, <3>1, <3>2
  <2>2. CASE m \notin 1 .. Taken
    <3>1. m - Taken \in 1 .. Len(message_queue) /\ Taken \in Nat
      BY <1>2, <2>2 DEF OrderInv, QueueInOrder, Taken
    <3>2. all[d + b + (m - Taken)] = m
      <4>1. message_queue[m - Taken] = Taken + (m - Taken) /\ Taken + (m - Taken) = m
        BY <1>10, <3>1
      <4> QED
        BY <1>4, <3>1, <4>1
    <3>3. d + b + (m - Taken) \in DOMAIN all
      BY SMTT(20), <1>2, <1>4, <3>1
    <3> QED
      BY <3>2, <3>3
  <2> QED
    BY <2>1, <2>2
<1> QED
  BY <1>5, <1>7, <1>11, <1>12 DEF NothingLost, all, encoded

LEMMA OrderInit == Init => OrderInv
<1> SUFFICES ASSUME Init PROVE OrderInv
  OBVIOUS
<1>1. Taken = 0 /\ Len(message_queue) = 0 /\ Len(delivered) = 0 /\ out_buffer_size = 0
  BY DEF Init, Taken
<1> QED
  BY <1>1 DEF OrderInv, QueueInOrder, DeliveredInOrder, BufferInOrder, NoneLeftOut

LEMMA OrderStep ==
  ASSUME Inv, OrderInv, [Next]_vars
  PROVE  OrderInv'
<1>0. TypeInv
  BY DEF Inv
<1>1. CASE \/ \E n \in 1 .. SendBuffer : Drain(n)
           \/ PeerBreaks \/ Poll \/ HandleWritable \/ HandleBroken \/ NothingToSend
           \/ WriteSome \/ WriteBlocks \/ WriteFails \/ UNCHANGED vars
  BY <1>1, OrderSame DEF Drain, PeerBreaks, Poll, HandleWritable, HandleBroken, NothingToSend,
                         WriteSome, WriteBlocks, WriteFails
<1> QED
  BY <1>0, <1>1, OrderSendMessage, OrderEncode, OrderWriteAll DEF Next, SendStep

(* Messages go out in the order in which send_message was called, none     *)
(* twice, and none is dropped but those that encode refuses, whatever the  *)
(* socket takes at a time (connection.rs:252-330).                         *)
THEOREM NoMessageLost == Spec => []NothingLost
<1>1. Inv /\ OrderInv => NothingLost
  BY OrderSuffices DEF Inv
<1> QED
  BY <1>1, InvStep, OrderInit, OrderStep, SendInvariant, PTL DEF Spec
=============================================================================
