------------------------ MODULE ConnectionReadProofs ------------------------
(***************************************************************************)
(* Proofs about ConnectionRead: the decoder keeps pace with the stream for *)
(* every header size, payload limit, set of packets, length of the stream  *)
(* and way of cutting it into chunks, so that the buffer is never full     *)
(* when it is read into, and reading implements MessageStream.             *)
(***************************************************************************)
EXTENDS ConnectionRead, TLAPS

(* TypeOK is not inductive alone: that what was processed is a packet      *)
(* depends on what the decoder remembers of the header.                    *)
Inv == TypeOK /\ DecoderInv

(* The number of the packet that the buffer starts with.                   *)
Front == Len(processed) + 1

-----------------------------------------------------------------------------
(* Lemmas about the layout of the stream *)

(* What the types say of lengths, domains and elements.                    *)
LEMMA Typing ==
  ASSUME TypeOK
  PROVE  /\ Len(packets) \in Nat /\ DOMAIN packets = 1 .. Len(packets)
         /\ DOMAIN start = 1 .. Len(packets) + 1 /\ Len(start) = Len(packets) + 1
         /\ \A k \in DOMAIN start : start[k] \in Nat
         /\ \A k \in DOMAIN packets :
              /\ packets[k] \in Packet
              /\ packets[k].header \in BOOLEAN /\ packets[k].number \in Nat
              /\ packets[k].size \in Nat /\ packets[k].body \in Nat
         /\ Total \in Nat /\ arrived \in Nat /\ arrived <= Total
         /\ got \in Nat /\ got <= arrived
         /\ in_buffer_pos \in Nat /\ in_buffer_pos <= MAX_PACKET_SIZE
         /\ Len(processed) \in Nat /\ DOMAIN processed = 1 .. Len(processed)
         /\ HEADER_SIZE \in Nat /\ HEADER_SIZE > 0 /\ MAX_PAYLOAD \in Nat
<1>1. DOMAIN packets = 1 .. Len(packets) /\ Len(packets) \in Nat
  BY DEF TypeOK
<1>2. DOMAIN start = 1 .. Len(start) /\ Len(start) = Len(packets) + 1
  BY <1>1 DEF TypeOK
<1>3. \A k \in DOMAIN start : start[k] \in Nat
  BY <1>2 DEF TypeOK
<1>4. ASSUME NEW k \in DOMAIN packets
      PROVE  packets[k] \in Packet
  BY <1>4, <1>1 DEF TypeOK
<1>5. \A p \in Packet : p.header \in BOOLEAN /\ p.number \in Nat /\ p.size \in Nat /\ p.body \in Nat
  BY ConnectionReadAssumption
<1>6. Total \in Nat
  BY <1>1, <1>2, <1>3 DEF Total
<1>7. HEADER_SIZE \in Nat /\ HEADER_SIZE > 0 /\ MAX_PAYLOAD \in Nat
  BY ConnectionReadAssumption
<1>8. arrived \in Nat /\ arrived <= Total /\ got \in Nat /\ got <= arrived
  BY <1>6 DEF TypeOK
<1>9. in_buffer_pos \in Nat /\ in_buffer_pos <= MAX_PACKET_SIZE
  BY <1>7 DEF TypeOK, MAX_PACKET_SIZE
<1>10. Len(processed) \in Nat /\ DOMAIN processed = 1 .. Len(processed)
  BY DEF TypeOK
<1> QED
  BY <1>1, <1>2, <1>3, <1>4, <1>5, <1>6, <1>7, <1>8, <1>9, <1>10

(* The same for the counters alone.                                        *)
LEMMA Counters ==
  ASSUME TypeOK
  PROVE  /\ HEADER_SIZE \in Nat /\ HEADER_SIZE > 0
         /\ MAX_PACKET_SIZE \in Nat
         /\ arrived \in Nat /\ got \in Nat /\ got <= arrived
         /\ in_buffer_pos \in Nat /\ in_buffer_pos <= MAX_PACKET_SIZE
         /\ Space \in Nat /\ Space = MAX_PACKET_SIZE - in_buffer_pos
<1>1. MAX_PACKET_SIZE \in Nat
  BY Typing DEF MAX_PACKET_SIZE
<1> QED
  BY <1>1, Typing DEF Space

LEMMA IndexRange ==
  /\ \A i \in Index : i \in Nat /\ i < MAX_PACKET_SIZE
  /\ \A i \in Nat : i < MAX_PACKET_SIZE => i \in Index
BY ConnectionReadAssumption DEF Index, MAX_PACKET_SIZE

(* Offsets grow, so that an offset tells its packet.                       *)
LEMMA StartInjective ==
  ASSUME TypeOK, Layout, NEW j \in DOMAIN start, NEW k \in DOMAIN start, start[j] = start[k]
  PROVE  j = k
<1>1. j \in Int /\ k \in Int /\ start[j] \in Nat /\ start[k] \in Nat
  BY Typing
<1>2. ~(j < k) /\ ~(k < j)
  BY <1>1, Typing DEF Layout
<1> QED
  BY <1>1, <1>2

(* A complete header in the buffer is the header of the front packet, which *)
(* has been sent, and of no other packet.                                  *)
LEMMA HeaderOfFront ==
  ASSUME Inv, in_buffer_pos >= HEADER_SIZE
  PROVE  Front \in DOMAIN packets /\ HeaderAtFront = {Front}
<1>0. TypeOK /\ Layout /\ InStep
  BY DEF Inv, DecoderInv
<1>1. Front \in DOMAIN start /\ start[Front] = got - in_buffer_pos
  BY <1>0, Typing DEF InStep, Front
<1>2. Front \in DOMAIN packets
  <2>1. start[Front] < start[Len(start)]
    BY <1>0, <1>1, Typing DEF Total
  <2> QED
    BY <1>0, <1>1, <2>1, Typing
<1>3. \A i \in 0 .. in_buffer_pos - 1 : in_buffer[0 + i] = start[Front] + i
  BY <1>0, <1>1 DEF InStep, Holds
<1>4. Front \in HeaderAtFront
  BY <1>0, <1>2, <1>3, Typing DEF HeaderAtFront, Holds
<1>5. ASSUME NEW k \in HeaderAtFront
      PROVE  k = Front
  <2>1. k \in DOMAIN packets /\ in_buffer[0 + 0] = start[k] + 0
    BY <1>0, Typing DEF HeaderAtFront, Holds
  <2>2. in_buffer[0 + 0] = start[Front] + 0
    BY <1>0, <1>3, Typing
  <2>3. start[k] = start[Front] /\ k \in DOMAIN start
    BY <1>0, <1>1, <2>1, <2>2, Typing
  <2> QED
    BY <1>0, <1>1, <2>3, StartInjective
<1> QED
  BY <1>2, <1>4, <1>5

(* When the announced payload is complete it is the front packet's.        *)
LEMMA PayloadOfFront ==
  ASSUME Inv,
         state \in {"HeaderSuccessfulRead", "WaitingForPayload"},
         in_buffer_pos >= payload_size + HEADER_SIZE
  PROVE  /\ Front \in DOMAIN packets
         /\ \A k \in PayloadParsed : k = Front
         /\ packets[Front].body = message_number => Front \in PayloadParsed
<1>0. TypeOK /\ Layout /\ InStep /\ HeaderKnown
  BY DEF Inv, DecoderInv
<1>1. Front \in DOMAIN packets /\ packets[Front].size = payload_size
  BY <1>0, Typing DEF HeaderKnown, Front
<1>2. payload_size \in Nat /\ payload_size > 0
  BY <1>0, <1>1, Typing DEF HeaderKnown, SizeAllowed, Front
<1>3. Front \in DOMAIN start /\ start[Front] = got - in_buffer_pos
  BY <1>0, Typing DEF InStep, Front
<1>4. \A i \in 0 .. in_buffer_pos - 1 : in_buffer[0 + i] = start[Front] + i
  BY <1>0, <1>3 DEF InStep, Holds
<1>5. ASSUME NEW i \in 0 .. payload_size - 1
      PROVE  in_buffer[HEADER_SIZE + i] = start[Front] + HEADER_SIZE + i
  <2>1. HEADER_SIZE + i \in 0 .. in_buffer_pos - 1 /\ 0 + (HEADER_SIZE + i) = HEADER_SIZE + i
    BY <1>0, <1>2, Typing
  <2>2. start[Front] + (HEADER_SIZE + i) = start[Front] + HEADER_SIZE + i
    BY SMTT(20), <1>0, <1>2, <1>3, Typing
  <2> QED
    BY <1>4, <2>1, <2>2
<1>6. ASSUME NEW k \in PayloadParsed
      PROVE  k = Front
  <2>1. k \in DOMAIN packets /\ in_buffer[HEADER_SIZE + 0] = start[k] + HEADER_SIZE + 0
    BY <1>2 DEF PayloadParsed, Holds
  <2>2. in_buffer[HEADER_SIZE + 0] = start[Front] + HEADER_SIZE + 0
    BY <1>2, <1>5
  <2>3. start[k] = start[Front] /\ k \in DOMAIN start
    BY SMTT(20), <1>0, <1>3, <2>1, <2>2, Typing
  <2> QED
    BY <1>0, <1>3, <2>3, StartInjective
<1> QED
  BY <1>1, <1>5, <1>6 DEF PayloadParsed, Holds

-----------------------------------------------------------------------------
(* Init and every action establish Inv *)

LEMMA InitInv == Init => Inv
<1> SUFFICES ASSUME Init PROVE Inv
  OBVIOUS
<1>1. Total = 0 /\ Len(start) = 1 /\ Len(packets) = 0 /\ Len(processed) = 0
  BY DEF Init, Total
<1>2. TypeOK
  <2>1. packets \in Seq(Packet) /\ start \in Seq(Nat) /\ processed \in Seq(Packet)
    BY DEF Init
  <2>2. in_buffer \in [Index -> Nat \union {Blank}]
    BY DEF Init
  <2>3. 0 \in 0 .. MAX_PACKET_SIZE /\ 0 \in 0 .. Total
    BY <1>1, ConnectionReadAssumption DEF MAX_PACKET_SIZE
  <2>4. /\ Len(start) = Len(packets) + 1
        /\ arrived \in 0 .. Total /\ in_buffer_pos \in 0 .. MAX_PACKET_SIZE
        /\ got \in 0 .. arrived
    BY <1>1, <2>3 DEF Init
  <2>5. /\ peer = "open" /\ event \in BOOLEAN /\ pc = "poll" /\ state = "WaitingForHeader"
        /\ message_number \in Nat /\ payload_size \in Nat
    BY DEF Init
  <2> QED
    BY <2>1, <2>2, <2>4, <2>5 DEF TypeOK
<1>3. DecoderInv
  BY <1>1, ConnectionReadAssumption
    DEF Init, DecoderInv, Layout, InStep, Holds, HeaderKnown, Waiting, EndIsLast
<1> QED
  BY <1>2, <1>3 DEF Inv

LEMMA PeerSendsInv ==
  ASSUME Inv, NEW p \in Packet, PeerSends(p)
  PROVE  Inv'
<1> DEFINE end == Total + HEADER_SIZE + p.size
<1>0. TypeOK /\ Layout /\ InStep /\ HeaderKnown /\ Waiting /\ EndIsLast
  BY DEF Inv, DecoderInv
<1>1. p.size \in Nat /\ end \in Nat /\ end >= Total + HEADER_SIZE
  BY <1>0, ConnectionReadAssumption, Typing
<1>2. /\ packets' = Append(packets, p) /\ start' = Append(start, end)
      /\ UNCHANGED <<arrived, got, in_buffer, in_buffer_pos, processed>>
      /\ UNCHANGED <<peer, event, pc, state, message_number, payload_size>>
  BY DEF PeerSends, network, buffer, decoder
<1>3. /\ Len(packets') = Len(packets) + 1 /\ Len(start') = Len(start) + 1
      /\ DOMAIN packets' = 1 .. Len(packets) + 1 /\ DOMAIN start' = 1 .. Len(start) + 1
      /\ \A k \in DOMAIN packets : packets'[k] = packets[k]
      /\ \A k \in DOMAIN start : start'[k] = start[k]
      /\ packets'[Len(packets) + 1] = p /\ start'[Len(start) + 1] = end
  BY <1>0, <1>1, <1>2 DEF TypeOK
<1>4. Total' = end
  BY <1>3 DEF Total
<1>5. TypeOK'
  <2>1. packets' \in Seq(Packet) /\ start' \in Seq(Nat) /\ Len(start') = Len(packets') + 1
    BY <1>0, <1>1, <1>2, <1>3, Typing DEF TypeOK
  <2>2. arrived' \in 0 .. Total'
    BY <1>0, <1>1, <1>2, <1>4, Typing
  <2> QED
    BY <1>0, <1>2, <2>1, <2>2 DEF TypeOK
<1>6. Layout'
  <2>1. start'[1] = 0
    BY <1>0, <1>3, Typing DEF Layout
  <2>2. ASSUME NEW k \in DOMAIN packets'
        PROVE  start'[k + 1] = start'[k] + HEADER_SIZE + packets'[k].size
    <3>1. CASE k \in DOMAIN packets
      <4>1. k \in DOMAIN start /\ k + 1 \in DOMAIN start
        BY <1>0, <3>1, Typing
      <4>2. start[k + 1] = start[k] + HEADER_SIZE + packets[k].size
        BY <1>0, <3>1 DEF Layout
      <4> QED
        BY <1>3, <3>1, <4>1, <4>2
    <3>2. CASE k = Len(packets) + 1
      BY <1>0, <1>1, <1>3, <3>2, Typing DEF Total
    <3> QED
      BY <1>0, <1>3, <3>1, <3>2, Typing
  <2>3. ASSUME NEW k \in DOMAIN start
        PROVE  start[k] <= Total
    <3>1. Len(start) \in DOMAIN start /\ k \in Int /\ start[k] \in Nat
      BY <1>0, Typing
    <3>2. CASE k < Len(start)
      BY SMTT(20), <1>0, <3>1, <3>2, Typing DEF Layout, Total
    <3>3. CASE k = Len(start)
      BY <1>0, <3>1, <3>3, Typing DEF Total
    <3> QED
      BY <1>0, <3>1, <3>2, <3>3, Typing
  <2>4. ASSUME NEW j \in DOMAIN start', NEW k \in DOMAIN start', j < k
        PROVE  start'[j] + HEADER_SIZE <= start'[k]
    <3>1. CASE k \in DOMAIN start
      <4>1. j \in DOMAIN start
        BY <1>0, <1>3, <2>4, <3>1, Typing
      <4> QED
        BY <1>0, <1>3, <2>4, <3>1, <4>1 DEF Layout
    <3>2. CASE k = Len(start) + 1
      <4>1. j \in DOMAIN start
        BY <1>0, <1>3, <2>4, <3>2, Typing
      <4>2. start'[j] <= Total /\ start'[j] \in Nat /\ start'[k] = end
        BY <1>0, <1>3, <2>3, <3>2, <4>1, Typing
      <4> QED
        BY <1>0, <1>1, <4>2, Typing
    <3> QED
      BY <1>0, <1>3, <3>1, <3>2, Typing
  <2> QED
    BY <2>1, <2>2, <2>4 DEF Layout
<1>7. InStep'
  BY <1>0, <1>2, <1>3, Typing DEF InStep, Holds
<1>8. HeaderKnown'
  BY <1>0, <1>2, <1>3, Typing DEF HeaderKnown
<1>9. Waiting' /\ EndIsLast'
  <2>1. peer # "finished"
    BY DEF PeerSends
  <2> QED
    BY <1>0, <1>2, <2>1 DEF Waiting, EndIsLast
<1> QED
  BY <1>5, <1>6, <1>7, <1>8, <1>9 DEF Inv, DecoderInv

(* Steps that leave the stream, the buffer and what was processed alone.   *)
Kept == UNCHANGED <<packets, start, got, in_buffer, in_buffer_pos, processed>>

LEMMA KeptInv ==
  ASSUME Inv, Kept
  PROVE  Layout' /\ InStep' /\ Total' = Total /\ Front' = Front
BY DEF Inv, DecoderInv, Kept, Layout, InStep, Holds, Total, Front

(* Arrival, the end of the stream and its failure.                         *)
LEMMA NetworkInv ==
  ASSUME Inv, \/ \E n \in 0 .. Total - arrived : Arrive(n)
              \/ PeerFinishes
              \/ PeerBreaks
  PROVE  Inv'
<1>0. TypeOK /\ HeaderKnown /\ Waiting /\ EndIsLast
  BY DEF Inv, DecoderInv
<1>1. Kept /\ UNCHANGED <<pc, state, message_number, payload_size>> /\ event' = TRUE
  BY DEF Kept, Arrive, PeerFinishes, PeerBreaks, network, buffer, decoder
<1>2. Layout' /\ InStep' /\ Total' = Total
  BY <1>1, KeptInv
<1>3. /\ arrived' \in 0 .. Total /\ arrived' >= arrived
      /\ peer' \in {"open", "finished", "broken"}
      /\ peer' = "finished" => arrived' = Total
  <2>1. CASE \E n \in 0 .. Total - arrived : Arrive(n)
    BY SMTT(20), <1>0, <2>1, Typing DEF Arrive, EndIsLast
  <2>2. CASE PeerFinishes
    BY <1>0, <2>2, Typing DEF PeerFinishes
  <2>3. CASE PeerBreaks
    BY <1>0, <2>3, Typing DEF PeerBreaks
  <2> QED
    BY <2>1, <2>2, <2>3
<1>4. TypeOK'
  <2>1. got' \in 0 .. arrived'
    BY <1>0, <1>1, <1>3, Typing DEF Kept
  <2> QED
    BY <1>0, <1>1, <1>2, <1>3, <2>1 DEF TypeOK, Kept
<1>5. HeaderKnown' /\ Waiting' /\ EndIsLast'
  BY <1>0, <1>1, <1>2, <1>3 DEF HeaderKnown, Waiting, EndIsLast, Kept
<1> QED
  BY <1>2, <1>4, <1>5 DEF Inv, DecoderInv

(* Steps of the thread that only change where it is.                       *)
LEMMA MovesInv ==
  ASSUME Inv, Poll \/ ReadBlocks \/ ReadEnds \/ ReadFails \/ HeaderInvalid \/ PayloadInvalid
  PROVE  Inv'
<1>0. TypeOK /\ HeaderKnown /\ Waiting /\ EndIsLast
  BY DEF Inv, DecoderInv
<1>1. /\ Kept /\ UNCHANGED <<arrived, peer, state, message_number, payload_size>>
      /\ event' \in BOOLEAN
      /\ pc' \in {"poll", "read", "closed"}
      /\ pc' # "closed" => pc \in {"poll", "read"}
  BY <1>0 DEF Kept, Poll, ReadBlocks, ReadEnds, ReadFails, HeaderInvalid, PayloadInvalid,
              AfterEnd, network, buffer, decoder, TypeOK
<1>2. Layout' /\ InStep' /\ Total' = Total
  BY <1>1, KeptInv
<1>3. TypeOK'
  BY <1>0, <1>1, <1>2 DEF TypeOK, Kept
<1>4. HeaderKnown' /\ Waiting' /\ EndIsLast'
  BY <1>0, <1>1, <1>2 DEF HeaderKnown, Waiting, EndIsLast, Kept
<1> QED
  BY <1>2, <1>3, <1>4 DEF Inv, DecoderInv

LEMMA IncompleteInv ==
  ASSUME Inv, HeaderIncomplete \/ PayloadIncomplete
  PROVE  Inv'
<1>0. TypeOK /\ HeaderKnown /\ Waiting /\ EndIsLast
  BY DEF Inv, DecoderInv
<1>1. /\ Kept /\ UNCHANGED <<arrived, peer, event, message_number, payload_size>>
      /\ pc' = "read"
  BY DEF Kept, HeaderIncomplete, PayloadIncomplete, ReadOn, network, buffer
<1>2. Layout' /\ InStep' /\ Total' = Total
  BY <1>1, KeptInv
<1>3. \/ state' = "WaitingForHeader" /\ in_buffer_pos < HEADER_SIZE
      \/ /\ state' = "WaitingForPayload" /\ in_buffer_pos < payload_size + HEADER_SIZE
         /\ state \in {"HeaderSuccessfulRead", "WaitingForPayload"}
  BY DEF HeaderIncomplete, PayloadIncomplete, ForPayload
<1>4. TypeOK'
  BY <1>0, <1>1, <1>2, <1>3 DEF TypeOK, Kept
<1>5. HeaderKnown'
  BY <1>0, <1>1, <1>3 DEF HeaderKnown, Kept
<1>6. Waiting' /\ EndIsLast'
  BY <1>0, <1>1, <1>2, <1>3 DEF Waiting, EndIsLast, Kept
<1> QED
  BY <1>2, <1>4, <1>5, <1>6 DEF Inv, DecoderInv

(* The socket fills the free part of the buffer.                           *)
LEMMA ReadBytesInv ==
  ASSUME Inv, ReadBytes
  PROVE  Inv'
<1> DEFINE n == IF Space < arrived - got THEN Space ELSE arrived - got
<1>0. TypeOK /\ Layout /\ InStep /\ HeaderKnown /\ EndIsLast
  BY DEF Inv, DecoderInv
<1>1. /\ UNCHANGED <<packets, start, arrived, peer, event, processed>>
      /\ UNCHANGED <<state, message_number, payload_size>>
      /\ pc' = "decode"
      /\ in_buffer' = [i \in Index |-> IF i \in in_buffer_pos .. in_buffer_pos + n - 1
                                         THEN got + (i - in_buffer_pos) ELSE in_buffer[i]]
  BY DEF ReadBytes, network, decoder
<1>2. n > 0 /\ in_buffer_pos' = in_buffer_pos + n /\ got' = got + n
  BY DEF ReadBytes
<1>3. n \in Nat /\ n <= Space /\ n <= arrived - got /\ Space = MAX_PACKET_SIZE - in_buffer_pos
  BY <1>0, <1>2, Counters
<1> HIDE DEF n
<1>4. got' \in Nat /\ got' <= arrived /\ in_buffer_pos' \in Nat
      /\ in_buffer_pos' <= MAX_PACKET_SIZE /\ got' - in_buffer_pos' = got - in_buffer_pos
  <2>1. got \in Nat /\ arrived \in Nat /\ in_buffer_pos \in Nat /\ MAX_PACKET_SIZE \in Nat
    BY <1>0, Counters
  <2>2. got' \in Nat /\ got' <= arrived
    BY <1>2, <1>3, <2>1
  <2>3. in_buffer_pos' \in Nat /\ in_buffer_pos' <= MAX_PACKET_SIZE
    BY <1>2, <1>3, <2>1
  <2>4. got' - in_buffer_pos' = got - in_buffer_pos
    BY <1>2, <1>3, <2>1
  <2> QED
    BY <2>2, <2>3, <2>4
<1>5. TypeOK'
  <2>1. in_buffer' \in [Index -> Nat \union {Blank}]
    <3>1. ASSUME NEW i \in Index
          PROVE  (IF i \in in_buffer_pos .. in_buffer_pos + n - 1
                    THEN got + (i - in_buffer_pos) ELSE in_buffer[i]) \in Nat \union {Blank}
      <4>1. in_buffer[i] \in Nat \union {Blank}
        BY <1>0 DEF TypeOK
      <4> QED
        BY <1>0, <1>3, <4>1, Counters, IndexRange
    <3> QED
      BY <1>1, <3>1
  <2>2. Total' = Total
    BY <1>1 DEF Total
  <2>3. in_buffer_pos' \in 0 .. MAX_PACKET_SIZE /\ got' \in 0 .. arrived
    BY <1>0, <1>4, Counters, IndexRange
  <2> QED
    BY <1>0, <1>1, <2>1, <2>2, <2>3 DEF TypeOK
<1>6. InStep'
  <2>1. ASSUME NEW i \in 0 .. in_buffer_pos + n - 1
        PROVE  in_buffer'[0 + i] = (got - in_buffer_pos) + i
    <3>1. i \in Index /\ i \in Nat /\ 0 + i = i
      BY <1>0, <1>3, Counters, IndexRange
    <3>2. CASE i < in_buffer_pos
      <4>1. in_buffer[0 + i] = (got - in_buffer_pos) + i
        <5>1. i \in 0 .. in_buffer_pos - 1
          BY <1>0, <3>1, <3>2, Counters
        <5> QED
          BY <1>0, <5>1 DEF InStep, Holds
      <4>2. i \notin in_buffer_pos .. in_buffer_pos + n - 1
        BY <1>0, <1>3, <3>1, <3>2, Typing
      <4>3. in_buffer'[i] = in_buffer[i]
        BY <1>1, <3>1, <4>2
      <4> QED
        BY <3>1, <4>1, <4>3
    <3>3. CASE i >= in_buffer_pos
      <4>1. i \in in_buffer_pos .. in_buffer_pos + n - 1
        BY <1>0, <1>2, <1>3, <1>4, <3>1, <3>3, Counters
      <4>2. in_buffer'[i] = got + (i - in_buffer_pos)
        BY <1>1, <3>1, <4>1
      <4> QED
        BY <1>0, <3>1, <4>2, Typing
    <3> QED
      BY <1>0, <3>1, <3>2, <3>3, Typing
  <2>2. in_buffer_pos' - 1 = in_buffer_pos + n - 1
    BY <1>2, <1>3, <1>4, <1>0, Counters
  <2>3. Holds(0, in_buffer_pos, got - in_buffer_pos)'
    BY <1>4, <2>1, <2>2 DEF Holds
  <2>4. (got - in_buffer_pos = start[Len(processed) + 1])'
    BY <1>0, <1>1, <1>4 DEF InStep
  <2> QED
    BY <1>0, <1>1, <2>3, <2>4 DEF InStep
<1>7. Layout' /\ HeaderKnown' /\ Waiting' /\ EndIsLast'
  <2>1. Layout' /\ Waiting' /\ EndIsLast'
    BY <1>0, <1>1 DEF Layout, Waiting, EndIsLast, Total
  <2>2. HeaderKnown'
    <3>1. in_buffer_pos' >= in_buffer_pos
      BY <1>0, <1>2, <1>3, Typing
    <3>2. in_buffer_pos >= HEADER_SIZE => in_buffer_pos' >= HEADER_SIZE
      BY SMTT(20), <1>0, <1>4, <3>1, Typing
    <3> QED
      BY <1>0, <1>1, <3>2 DEF HeaderKnown
  <2> QED
    BY <2>1, <2>2
<1> QED
  BY <1>5, <1>6, <1>7 DEF Inv, DecoderInv

LEMMA HeaderReadInv ==
  ASSUME Inv, HeaderRead
  PROVE  Inv'
<1>0. TypeOK /\ Waiting /\ EndIsLast
  BY DEF Inv, DecoderInv
<1>1. /\ Kept /\ UNCHANGED <<arrived, peer, event, pc>>
      /\ state' = "HeaderSuccessfulRead" /\ pc = "decode"
      /\ in_buffer_pos >= HEADER_SIZE
  BY DEF Kept, HeaderRead, ForHeader, network, buffer
<1>2. Layout' /\ InStep' /\ Total' = Total
  BY <1>1, KeptInv
<1>3. Front \in DOMAIN packets /\ HeaderAtFront = {Front}
  BY <1>1, HeaderOfFront
<1>4. /\ packets[Front].header /\ SizeAllowed(packets[Front].size)
      /\ message_number' = packets[Front].number
      /\ payload_size' = packets[Front].size
  BY <1>3 DEF HeaderRead
<1>5. TypeOK'
  <2>1. message_number' \in Nat /\ payload_size' \in Nat
    BY <1>0, <1>3, <1>4, Typing
  <2> QED
    BY <1>0, <1>1, <1>2, <2>1 DEF TypeOK, Kept
<1>6. HeaderKnown'
  BY <1>0, <1>1, <1>3, <1>4, Typing DEF HeaderKnown, Front, Kept
<1>7. Waiting' /\ EndIsLast'
  BY <1>0, <1>1 , <1>2 DEF Waiting, EndIsLast, Kept
<1> QED
  BY <1>2, <1>5, <1>6, <1>7 DEF Inv, DecoderInv

(* The processed packet is the front packet, and a valid one.              *)
LEMMA PayloadReadFacts ==
  ASSUME Inv, PayloadRead
  PROVE  /\ Front \in DOMAIN packets
         /\ packets[Front] \in ValidPacket
         /\ packets[Front].size = payload_size /\ payload_size > 0
         /\ processed' = Append(processed, packets[Front])
<1>0. TypeOK /\ HeaderKnown
  BY DEF Inv, DecoderInv
<1>1. /\ state \in {"HeaderSuccessfulRead", "WaitingForPayload"}
      /\ in_buffer_pos >= payload_size + HEADER_SIZE
  BY DEF PayloadRead, ForPayload
<1>2. /\ Front \in DOMAIN packets
      /\ \A k \in PayloadParsed : k = Front
  BY <1>1, PayloadOfFront
<1>3. /\ packets[Front].header /\ SizeAllowed(packets[Front].size)
      /\ message_number = packets[Front].number
      /\ payload_size = packets[Front].size
  BY <1>0, <1>1 DEF HeaderKnown, Front
<1>4. /\ packets[Front].body = message_number
      /\ processed' = Append(processed, [packets[Front] EXCEPT !.number = message_number])
  BY <1>2 DEF PayloadRead, PayloadParsed
<1>5. packets[Front] \in [header : BOOLEAN, number : Nat, size : Nat, body : Nat]
  BY <1>0, <1>2, Typing, ConnectionReadAssumption
<1>6. [packets[Front] EXCEPT !.number = message_number] = packets[Front]
  BY <1>3, <1>5
<1>7. packets[Front] \in ValidPacket
  BY <1>0, <1>2, <1>3, <1>4, Typing DEF ValidPacket
<1>8. payload_size > 0
  BY <1>3 DEF SizeAllowed
<1> QED
  BY <1>2, <1>3, <1>4, <1>6, <1>7, <1>8

LEMMA PayloadReadInv ==
  ASSUME Inv, PayloadRead
  PROVE  Inv'
<1>0. TypeOK /\ Layout /\ InStep /\ Waiting /\ EndIsLast
  BY DEF Inv, DecoderInv
<1>1. /\ UNCHANGED <<packets, start, arrived, peer, event, pc, got>>
      /\ UNCHANGED <<message_number, payload_size>>
      /\ state' = "PayloadSuccessfulRead" /\ pc = "decode"
      /\ in_buffer' = [i \in Index |-> IF i < in_buffer_pos - Consumed
                                         THEN in_buffer[i + Consumed] ELSE in_buffer[i]]
  BY DEF PayloadRead, ForPayload, network, Consumed
<1>2. in_buffer_pos' = in_buffer_pos - Consumed /\ in_buffer_pos >= Consumed /\ got' = got
  BY DEF PayloadRead, Consumed
<1>3. /\ Front \in DOMAIN packets
      /\ packets[Front] \in ValidPacket /\ packets[Front] \in Packet
      /\ packets[Front].size = payload_size
      /\ processed' = Append(processed, packets[Front])
  BY PayloadReadFacts DEF ValidPacket
<1>4. Consumed \in Nat /\ Consumed = HEADER_SIZE + packets[Front].size
  BY <1>0, <1>3, Typing DEF Consumed
<1>5. /\ Len(processed') = Len(processed) + 1 /\ Front = Len(processed) + 1
      /\ DOMAIN processed' = 1 .. Front
      /\ \A k \in DOMAIN processed : processed'[k] = processed[k]
      /\ processed'[Front] = packets[Front]
      /\ processed' \in Seq(Packet)
  <2>1. processed \in Seq(Packet) /\ Front = Len(processed) + 1
    BY <1>0 DEF TypeOK, Front
  <2> QED
    BY <1>3, <2>1
<1>6. TypeOK'
  <2>1. in_buffer' \in [Index -> Nat \union {Blank}]
    <3>1. ASSUME NEW i \in Index
          PROVE  (IF i < in_buffer_pos - Consumed
                    THEN in_buffer[i + Consumed] ELSE in_buffer[i]) \in Nat \union {Blank}
      <4>1. i < in_buffer_pos - Consumed => i + Consumed \in Index
        BY <1>0, <1>4, Counters, IndexRange
      <4> QED
        BY <1>0, <4>1 DEF TypeOK
    <3> QED
      BY <1>1, <3>1
  <2>2. in_buffer_pos' \in 0 .. MAX_PACKET_SIZE
    BY <1>0, <1>2, <1>4, Counters
  <2>3. Total' = Total
    BY <1>1 DEF Total
  <2> QED
    BY <1>0, <1>1, <1>5, <2>1, <2>2, <2>3 DEF TypeOK
<1>7. InStep'
  <2>1. Len(processed') <= Len(packets')
    BY <1>0, <1>1, <1>3, <1>5, Typing
  <2>2. ASSUME NEW k \in DOMAIN processed'
        PROVE  processed'[k] = packets'[k] /\ processed'[k] \in ValidPacket
    <3>1. CASE k \in DOMAIN processed
      BY <1>0, <1>1, <1>5, <3>1 DEF InStep
    <3>2. CASE k = Front
      BY <1>1, <1>3, <1>5, <3>2
    <3> QED
      BY <1>0, <1>5, <3>1, <3>2, Typing
  <2>3. got' - in_buffer_pos' = start'[Len(processed') + 1]
    <3>1. got - in_buffer_pos = start[Front]
      BY <1>0, <1>5 DEF InStep
    <3>2. start[Front + 1] = start[Front] + HEADER_SIZE + packets[Front].size
      BY <1>0, <1>3 DEF Layout
    <3>3. start[Front] \in Nat /\ packets[Front].size \in Nat
      BY <1>0, <1>3, Typing
    <3>4. start'[Len(processed') + 1] = start[Front + 1]
      BY <1>1, <1>5
    <3>5. got \in Nat /\ in_buffer_pos \in Nat /\ HEADER_SIZE \in Nat
      BY <1>0, Counters
    <3>6. got' - in_buffer_pos' = start[Front] + HEADER_SIZE + packets[Front].size
      BY <1>2, <1>4, <3>1, <3>3, <3>5
    <3> QED
      BY <3>2, <3>4, <3>6
  <2>4. ASSUME NEW i \in 0 .. in_buffer_pos' - 1
        PROVE  in_buffer'[0 + i] = (got' - in_buffer_pos') + i
    <3>1. /\ i \in Int /\ i \in Index /\ 0 + i = i /\ i < in_buffer_pos - Consumed
          /\ i + Consumed \in 0 .. in_buffer_pos - 1 /\ 0 + (i + Consumed) = i + Consumed
      BY <1>0, <1>2, <1>4, Counters, IndexRange
    <3>2. in_buffer[i + Consumed] = (got - in_buffer_pos) + (i + Consumed)
      BY <1>0, <3>1 DEF InStep, Holds
    <3>3. in_buffer'[i] = in_buffer[i + Consumed]
      BY <1>1, <3>1
    <3> QED
      BY <1>0, <1>2, <1>4, <3>1, <3>2, <3>3, Counters
  <2> QED
    BY <2>1, <2>2, <2>3, <2>4 DEF InStep, Holds, ValidPacket
<1>8. Layout' /\ HeaderKnown' /\ Waiting' /\ EndIsLast'
  BY <1>0, <1>1 DEF Layout, HeaderKnown, Waiting, EndIsLast, Total
<1> QED
  BY <1>6, <1>7, <1>8 DEF Inv, DecoderInv

-----------------------------------------------------------------------------
(* The invariant *)

LEMMA StepInv ==
  ASSUME Inv, [Next]_vars
  PROVE  Inv'
<1>1. CASE \E p \in Packet : PeerSends(p)
  BY <1>1, PeerSendsInv
<1>2. CASE (\E n \in 1 .. Total - arrived : Arrive(n)) \/ PeerFinishes \/ PeerBreaks
  <2>1. \A n \in 1 .. Total - arrived : n \in 0 .. Total - arrived
    BY Typing DEF Inv
  <2> QED
    BY <1>2, <2>1, NetworkInv
<1>3. CASE Poll \/ ReadBlocks \/ ReadEnds \/ ReadFails \/ HeaderInvalid \/ PayloadInvalid
  BY <1>3, MovesInv
<1>4. CASE HeaderIncomplete \/ PayloadIncomplete
  BY <1>4, IncompleteInv
<1>5. CASE ReadBytes
  BY <1>5, ReadBytesInv
<1>6. CASE HeaderRead
  BY <1>6, HeaderReadInv
<1>7. CASE PayloadRead
  BY <1>7, PayloadReadInv
<1>8. CASE UNCHANGED vars
  BY <1>8 DEF Inv, TypeOK, DecoderInv, Layout, InStep, Holds, HeaderKnown, Waiting, EndIsLast,
              Total, vars, network, buffer, decoder
<1> QED
  BY <1>1, <1>2, <1>3, <1>4, <1>5, <1>6, <1>7, <1>8 DEF Next, ReadStep

(* The invariant holds for every header size, payload limit and stream.    *)
THEOREM InvHolds == Spec => []Inv
<1>1. Init => Inv
  BY InitInv
<1>2. Inv /\ [Next]_vars => Inv'
  BY StepInv
<1> QED
  BY <1>1, <1>2, PTL DEF Spec

(* Type correctness of reading.                                            *)
THEOREM TypeCorrect == Spec => []TypeOK
<1>1. Inv => TypeOK
  BY DEF Inv
<1> QED
  BY <1>1, InvHolds, PTL

(* The decoder keeps pace with the stream, however it is cut into chunks.  *)
THEOREM DecoderKeepsPace == Spec => []DecoderInv
<1>1. Inv => DecoderInv
  BY DEF Inv
<1> QED
  BY <1>1, InvHolds, PTL

LEMMA InvNeverFull == Inv => NeverFull
<1> SUFFICES ASSUME Inv, pc = "read"
             PROVE  in_buffer_pos < MAX_PACKET_SIZE
  BY DEF NeverFull
<1>0. TypeOK /\ HeaderKnown /\ Waiting
  BY DEF Inv, DecoderInv
<1>1. CASE state = "WaitingForHeader" /\ in_buffer_pos < HEADER_SIZE
  BY <1>0, <1>1, Typing DEF MAX_PACKET_SIZE
<1>2. CASE state = "WaitingForPayload" /\ in_buffer_pos < payload_size + HEADER_SIZE
  <2>1. payload_size \in Nat /\ payload_size <= MAX_PAYLOAD
    BY <1>0, <1>2 DEF HeaderKnown, SizeAllowed, TypeOK
  <2> QED
    BY <1>0, <1>2, <2>1, Typing DEF MAX_PACKET_SIZE
<1> QED
  BY <1>0, <1>1, <1>2 DEF Waiting

(* The buffer always has room when the socket is read, so that Ok(0) means *)
(* the end of the stream and nothing else.                                 *)
THEOREM NeverReadsIntoFullBuffer == Spec => []NeverFull
BY InvHolds, InvNeverFull, PTL

-----------------------------------------------------------------------------
(* Refinement *)

(* While the front packet has been sent, not everything is processed.      *)
LEMMA FrontPending ==
  ASSUME TypeOK, Front \in DOMAIN packets
  PROVE  Len(processed) # Len(packets) /\ packets[Front].size \in Nat
<1>1. Len(processed) \in Nat /\ Len(packets) \in Nat /\ DOMAIN packets = 1 .. Len(packets)
  BY Typing
<1>2. Front <= Len(packets)
  BY <1>1
<1>3. Len(processed) < Len(packets)
  BY <1>1, <1>2 DEF Front
<1>4. packets[Front].size \in Nat
  BY Typing
<1> QED
  BY <1>1, <1>3, <1>4

(* When the end of the stream is read everything was processed: an         *)
(* incomplete packet cannot be at the front of the buffer.                 *)
LEMMA EndMeansAllReceived ==
  ASSUME Inv, ReadEnds
  PROVE  peer = "finished" /\ Len(processed) = Len(packets)
<1>0. TypeOK /\ Layout /\ InStep /\ HeaderKnown /\ Waiting /\ EndIsLast
  BY DEF Inv, DecoderInv
<1>1. got = arrived /\ peer = "finished" /\ pc = "read"
  <2>1. Space > 0
    BY <1>0, InvNeverFull, Counters DEF NeverFull, ReadEnds
  <2> QED
    BY <1>0, <2>1, Counters DEF ReadEnds
<1>2. got = Total
  BY <1>0, <1>1 DEF EndIsLast
<1>3. Front \in DOMAIN start /\ start[Front] = Total - in_buffer_pos
  BY <1>0, <1>2, Typing DEF InStep, Front
<1>4. ASSUME Front # Len(start)
      PROVE  FALSE
  <2>1. Front \in DOMAIN packets /\ Front + 1 \in DOMAIN start /\ Len(start) \in DOMAIN start
    BY <1>0, <1>3, <1>4, Typing
  <2>2. start[Front + 1] = start[Front] + HEADER_SIZE + packets[Front].size
    BY <1>0, <2>1 DEF Layout
  <2>3. start[Front + 1] <= Total
    <3>1. CASE Front + 1 = Len(start)
      BY <1>0, <2>1, <3>1, Typing DEF Total
    <3>2. CASE Front + 1 < Len(start)
      <4>1. start[Front + 1] + HEADER_SIZE <= Total
        BY <1>0, <2>1, <3>2 DEF Layout, Total
      <4> QED
        BY <1>0, <2>1, <4>1, Typing
    <3> QED
      BY <1>0, <2>1, <3>1, <3>2, Typing
  <2>4. in_buffer_pos >= HEADER_SIZE + packets[Front].size /\ packets[Front].size \in Nat
    <3>1. packets[Front].size \in Nat /\ Total \in Nat /\ in_buffer_pos \in Nat /\ HEADER_SIZE \in Nat
      BY <1>0, <2>1, FrontPending, Typing
    <3>2. Total - in_buffer_pos + HEADER_SIZE + packets[Front].size <= Total
      BY <1>3, <2>2, <2>3
    <3> QED
      BY <3>1, <3>2
  <2>5. CASE state = "WaitingForHeader" /\ in_buffer_pos < HEADER_SIZE
    BY <1>0, <2>4, <2>5, Counters
  <2>6. CASE state = "WaitingForPayload" /\ in_buffer_pos < payload_size + HEADER_SIZE
    <3>1. payload_size = packets[Front].size
      BY <1>0, <2>6 DEF HeaderKnown, Front
    <3> QED
      BY <1>0, <2>4, <2>6, <3>1, Counters
  <2> QED
    BY <1>0, <1>1, <2>5, <2>6 DEF Waiting
<1>5. Len(processed) \in Nat /\ Len(packets) \in Nat /\ Len(start) = Len(packets) + 1
  BY <1>0, Typing
<1>6. Len(processed) = Len(packets)
  BY <1>4, <1>5 DEF Front
<1> QED
  BY <1>1, <1>6

(* The connection is closed by the decoder only for an invalid packet.     *)
LEMMA InvalidMeansInvalid ==
  ASSUME Inv, HeaderInvalid \/ PayloadInvalid
  PROVE  Len(processed) # Len(packets) /\ packets[Front] \notin ValidPacket
<1>0. TypeOK /\ HeaderKnown
  BY DEF Inv, DecoderInv
<1>1. CASE HeaderInvalid
  <2>1. Front \in DOMAIN packets /\ Front \in HeaderAtFront
    BY <1>1, HeaderOfFront DEF HeaderInvalid
  <2>2. ~packets[Front].header \/ ~SizeAllowed(packets[Front].size)
    BY <1>1, <2>1 DEF HeaderInvalid
  <2> QED
    BY <1>0, <2>1, <2>2, FrontPending DEF ValidPacket
<1>2. CASE PayloadInvalid
  <2>1. /\ state \in {"HeaderSuccessfulRead", "WaitingForPayload"}
        /\ in_buffer_pos >= payload_size + HEADER_SIZE /\ PayloadParsed = {}
    BY <1>2 DEF PayloadInvalid, ForPayload
  <2>2. Front \in DOMAIN packets /\ packets[Front].body # message_number
    BY <2>1, PayloadOfFront
  <2>3. message_number = packets[Front].number
    BY <1>0, <2>1 DEF HeaderKnown, Front
  <2> QED
    BY <1>0, <2>2, <2>3, FrontPending DEF ValidPacket
<1> QED
  BY <1>1, <1>2

LEMMA StepImplements ==
  ASSUME Inv, [Next]_vars
  PROVE  [Stream!Next]_(Stream!vars)
<1> DEFINE status == IF pc = "closed" THEN "closed" ELSE "open"
<1>0. TypeOK
  BY DEF Inv
<1>1. CASE \E p \in Packet : PeerSends(p)
  BY <1>1 DEF PeerSends, Stream!Next, Stream!Send
<1>2. CASE PeerFinishes \/ PeerBreaks
  BY <1>2 DEF PeerFinishes, PeerBreaks, Stream!Next, Stream!PeerEnds
<1>3. CASE \/ \E n \in 1 .. Total - arrived : Arrive(n)
           \/ Poll \/ ReadBytes \/ ReadBlocks
           \/ HeaderIncomplete \/ HeaderRead \/ PayloadIncomplete
           \/ UNCHANGED vars
  <2>1. UNCHANGED <<packets, processed, peer, status>>
    BY <1>3 DEF Arrive, Poll, ReadBytes, ReadBlocks, HeaderIncomplete, HeaderRead,
                PayloadIncomplete, ForHeader, ForPayload, ReadOn, vars, network
  <2> QED
    BY <2>1 DEF Stream!vars
<1>4. CASE ReadEnds \/ ReadFails \/ HeaderInvalid \/ PayloadInvalid
  <2>1. /\ status = "open" /\ status' = "closed"
        /\ UNCHANGED <<packets, processed, peer>>
    BY <1>4 DEF ReadEnds, ReadFails, HeaderInvalid, PayloadInvalid, ForHeader, ForPayload,
                AfterEnd, network
  <2>2. \/ peer = "broken"
        \/ peer = "finished" /\ Len(processed) = Len(packets)
        \/ Len(processed) # Len(packets) /\ packets[Len(processed) + 1] \notin ValidPacket
    BY <1>4, EndMeansAllReceived, InvalidMeansInvalid DEF ReadFails, Front
  <2> QED
    BY <2>1, <2>2 DEF Stream!Next, Stream!Close, Stream!AllReceived, Stream!NextMessage
<1>5. CASE PayloadRead
  <2>1. status = "open" /\ UNCHANGED <<packets, peer, status>>
    BY <1>5 DEF PayloadRead, ForPayload, network
  <2>2. /\ Len(processed) # Len(packets)
        /\ packets[Len(processed) + 1] \in ValidPacket
        /\ processed' = Append(processed, packets[Len(processed) + 1])
    <3>1. /\ Front \in DOMAIN packets /\ packets[Front] \in ValidPacket
          /\ processed' = Append(processed, packets[Front])
      BY <1>5, PayloadReadFacts
    <3>2. Len(processed) # Len(packets)
      BY <1>0, <3>1, FrontPending
    <3> QED
      BY <3>1, <3>2 DEF Front
  <2> QED
    BY <2>1, <2>2 DEF Stream!Next, Stream!Receive, Stream!AllReceived, Stream!NextMessage
<1> QED
  BY <1>1, <1>2, <1>3, <1>4, <1>5 DEF Next, ReadStep

(* Reading implements MessageStream: messages are processed in order,      *)
(* once, up to the first invalid one, and the connection is closed for no  *)
(* reason of its own making, for every stream and every way to chunk it.   *)
THEOREM ReadingImplementsStream == Spec => ProcessedInOrder
<1>1. Init => Stream!Init
  BY DEF Init, Stream!Init
<1>2. Inv /\ [Next]_vars => [Stream!Next]_(Stream!vars)
  BY StepImplements
<1> QED
  BY <1>1, <1>2, InvHolds, PTL DEF Spec, ProcessedInOrder, Stream!Spec
=============================================================================
