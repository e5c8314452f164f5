------------------------ MODULE ConnectionPairProofs ------------------------
(***************************************************************************)
(* Proofs about a connection from end to end, for any header, payload      *)
(* limit, send buffer and messages: the other side processes what was      *)
(* given to send_message, in order, up to a packet that was torn, and      *)
(* closes for no reason of its own.                                        *)
(*                                                                         *)
(* The invariants of the two sides are those that ConnectionSendProofs and *)
(* ConnectionReadProofs prove; what is added relates the sides.            *)
(***************************************************************************)
EXTENDS ConnectionPair, SubsequenceProofs

SP == INSTANCE ConnectionSendProofs
RP == INSTANCE ConnectionReadProofs WITH
  MaxPackets <- MaxMessages, event <- readable, pc <- receiver

(* What the two modules assume of their constants is the case.             *)
LEMMA PartsAssumptions ==
  /\ HEADER_SIZE \in Nat \ {0} /\ MAX_PAYLOAD \in Nat \ {0} /\ SendBuffer \in Nat \ {0}
  /\ Payload \subseteq Nat /\ MaxMessages \in Nat
  /\ Packet \subseteq [header : BOOLEAN, number : Nat, size : Nat, body : Nat]
<1>1. 0 .. MaxMessages \subseteq Nat /\ Payload \subseteq Nat
  BY ConnectionPairAssumption
<1> QED
  BY <1>1, ConnectionPairAssumption DEF Packet

-----------------------------------------------------------------------------
(* The invariant *)

Fitting(n) == {m \in 1 .. n : Sender!Fits(m)}

(* How much of the packet in out_buffer is not in the send buffer yet.     *)
Left == IF out_buffer_size > 0 THEN out_buffer_size - written ELSE 0

(* Each side keeps its own invariant; of the sender's only the end is of   *)
(* interest once it has finished.                                          *)
SidesInv ==
  /\ IF peer = "finished" THEN pc = "closed" /\ message_queue = <<>> ELSE SP!Inv
  /\ SP!OrderInv
  /\ accepted \in Seq(Payload) /\ Len(accepted) <= MaxMessages
  /\ RP!Inv

(* While the line is up, the packets of the stream are the messages that   *)
(* encode has been given, but for those it refused.                        *)
Handed == peer # "broken" => Len(packets) = Cardinality(Fitting(SP!Taken))

(* The packets are the ones that are due, or torn and then not valid.      *)
AsDue ==
  /\ Len(packets) <= Len(Due)
  /\ \A i \in 1 .. Len(packets) :
       packets[i] = Due[i] \/ (torn /\ packets[i] \notin RP!ValidPacket)

(* Every byte is with the receiver, in the send buffer or still to be      *)
(* written; what is in out_buffer is the last packet.                      *)
InBytes ==
  peer = "open" /\ ~torn =>
    /\ arrived + (SendBuffer - room) + Left = Receiver!Total
    /\ out_buffer_size > 0 =>
         /\ written < out_buffer_size
         /\ Len(packets) > 0
         /\ out_buffer_size = HEADER_SIZE + packets[Len(packets)].size

ClosedInv ==
  receiver = "closed" =>
    torn \/ peer = "broken" \/ (peer = "finished" /\ Len(processed) = Len(packets))

PairInv == SidesInv /\ Handed /\ AsDue /\ InBytes /\ ClosedInv

-----------------------------------------------------------------------------
(* The steps of the pair are steps of its sides *)

LEMMA SenderOperators ==
  /\ \A m : Sender!Fits(m) <=> SP!Fits(m)
  /\ Sender!Init <=> SP!Init
BY DEF Sender!Fits, SP!Fits, Sender!Refused, SP!Refused, Sender!Overflows, SP!Overflows,
       Sender!OutBuffer, SP!OutBuffer, Sender!Init, SP!Init

LEMMA SenderAccepts ==
  ASSUME NEW size \in Payload, Sender!SendMessage(size)
  PROVE  SP!SendMessage(size)
BY DEF Sender!SendMessage, SP!SendMessage, Sender!PushBack, SP!PushBack

LEMMA SenderEncodes ==
  /\ Sender!Encode => SP!Encode
  /\ Sender!EncodeRefuses => SP!EncodeRefuses
  /\ Sender!EncodePanics => SP!EncodePanics
BY DEF Sender!Encode, SP!Encode, Sender!EncodeRefuses, SP!EncodeRefuses,
       Sender!EncodePanics, SP!EncodePanics, Sender!Fetches, SP!Fetches,
       Sender!NextPayload, SP!NextPayload, Sender!Refused, SP!Refused,
       Sender!Overflows, SP!Overflows, Sender!OutBuffer, SP!OutBuffer,
       Sender!ReturnRemove, SP!ReturnRemove, Sender!control, SP!control,
       Sender!history, SP!history

LEMMA SenderWrites ==
  /\ Sender!WriteAll => SP!WriteAll
  /\ Sender!WriteSome => SP!WriteSome
  /\ Sender!WriteBlocks => SP!WriteBlocks
  /\ Sender!WriteFails => SP!WriteFails
BY DEF Sender!WriteAll, SP!WriteAll, Sender!WriteSome, SP!WriteSome,
       Sender!WriteBlocks, SP!WriteBlocks, Sender!WriteFails, SP!WriteFails,
       Sender!Writes, SP!Writes, Sender!Written, SP!Written, Sender!Rest, SP!Rest,
       Sender!AwaitWritable, SP!AwaitWritable, Sender!Interest, SP!Interest,
       Sender!PosAfterShortWrite, SP!PosAfterShortWrite,
       Sender!ReturnRemove, SP!ReturnRemove, Sender!control, SP!control,
       Sender!history, SP!history, Sender!queue, SP!queue

LEMMA SenderRests ==
  /\ Sender!Poll => SP!Poll
  /\ Sender!HandleWritable => SP!HandleWritable
  /\ Sender!HandleBroken => SP!HandleBroken
  /\ Sender!NothingToSend => SP!NothingToSend
  /\ Sender!PeerBreaks => SP!PeerBreaks
  /\ \A n : Sender!Drain(n) => SP!Drain(n)
BY DEF Sender!Poll, SP!Poll, Sender!HandleWritable, SP!HandleWritable,
       Sender!HandleBroken, SP!HandleBroken, Sender!NothingToSend, SP!NothingToSend,
       Sender!PeerBreaks, SP!PeerBreaks, Sender!Drain, SP!Drain,
       Sender!control, SP!control, Sender!history, SP!history, Sender!queue, SP!queue

(* The sender makes a step of its own in every step, unless it finishes.   *)
LEMMA SenderSide ==
  ASSUME [Next]_vars
  PROVE  Finish \/ [SP!Next]_(SP!vars)
<1>1. CASE \E size \in Payload : Accept(size)
  BY <1>1, SenderAccepts DEF Accept, SP!Next
<1>2. CASE SenderAlone
  BY <1>2, SenderEncodes, SenderWrites, SenderRests DEF SenderAlone, SP!Next, SP!SendStep
<1>3. CASE Encode \/ Write
  BY <1>3, SenderEncodes, SenderWrites DEF Encode, Write, SP!Next, SP!SendStep
<1>4. CASE \E n \in 1 .. SendBuffer : Deliver(n)
  BY <1>4, SenderRests DEF Deliver, SP!Next
<1>5. CASE Break
  BY <1>5, SenderRests DEF Break, SP!Next
<1>6. CASE UNCHANGED <<peer, senderVars>>
  BY <1>6 DEF senderVars, sendingState, SP!vars, SP!queue, SP!control, SP!history
<1>7. CASE Receive
  <2>1. UNCHANGED peer
    BY <1>7 DEF Receive, Receiver!ReadStep, Receiver!Poll, Receiver!ReadBytes,
      Receiver!ReadBlocks, Receiver!ReadEnds, Receiver!ReadFails, Receiver!HeaderIncomplete,
      Receiver!HeaderInvalid, Receiver!HeaderRead, Receiver!PayloadIncomplete,
      Receiver!PayloadInvalid, Receiver!PayloadRead, Receiver!network
  <2> QED
    BY <1>6, <1>7, <2>1 DEF Receive
<1> QED
  BY <1>1, <1>2, <1>3, <1>4, <1>5, <1>6, <1>7 DEF Next, SenderStep, vars

LEMMA ReceiverReads ==
  /\ Receiver!ReadStep => RP!ReadStep
  /\ Receiver!ReadEnds => RP!ReadEnds
  /\ Receiver!HeaderInvalid => RP!HeaderInvalid
  /\ Receiver!PayloadInvalid => RP!PayloadInvalid
  /\ Receiver!PayloadRead => RP!PayloadRead
<1> USE DEF Receiver!network, RP!network, Receiver!buffer, RP!buffer, Receiver!decoder, RP!decoder
<1>1. Receiver!Poll => RP!Poll
  BY DEF Receiver!Poll, RP!Poll
<1>2. Receiver!ReadBytes => RP!ReadBytes
  BY DEF Receiver!ReadBytes, RP!ReadBytes, Receiver!Space, RP!Space,
         Receiver!MAX_PACKET_SIZE, RP!MAX_PACKET_SIZE, Receiver!Index, RP!Index
<1>3. /\ Receiver!ReadBlocks => RP!ReadBlocks
      /\ Receiver!ReadEnds => RP!ReadEnds
      /\ Receiver!ReadFails => RP!ReadFails
  BY DEF Receiver!ReadBlocks, RP!ReadBlocks, Receiver!ReadEnds, RP!ReadEnds,
         Receiver!ReadFails, RP!ReadFails, Receiver!Space, RP!Space,
         Receiver!AfterEnd, RP!AfterEnd, Receiver!MAX_PACKET_SIZE, RP!MAX_PACKET_SIZE
<1>4. /\ Receiver!HeaderIncomplete => RP!HeaderIncomplete
      /\ Receiver!PayloadIncomplete => RP!PayloadIncomplete
  BY DEF Receiver!HeaderIncomplete, RP!HeaderIncomplete, Receiver!PayloadIncomplete,
         RP!PayloadIncomplete, Receiver!ForHeader, RP!ForHeader, Receiver!ForPayload,
         RP!ForPayload, Receiver!ReadOn, RP!ReadOn
<1>5. /\ Receiver!HeaderInvalid => RP!HeaderInvalid
      /\ Receiver!HeaderRead => RP!HeaderRead
  BY DEF Receiver!HeaderInvalid, RP!HeaderInvalid, Receiver!HeaderRead, RP!HeaderRead,
         Receiver!ForHeader, RP!ForHeader, Receiver!HeaderAtFront, RP!HeaderAtFront,
         Receiver!Holds, RP!Holds, Receiver!SizeAllowed, RP!SizeAllowed
<1>6. /\ Receiver!PayloadInvalid => RP!PayloadInvalid
      /\ Receiver!PayloadRead => RP!PayloadRead
  BY DEF Receiver!PayloadInvalid, RP!PayloadInvalid, Receiver!PayloadRead, RP!PayloadRead,
         Receiver!ForPayload, RP!ForPayload, Receiver!PayloadParsed, RP!PayloadParsed,
         Receiver!Holds, RP!Holds, Receiver!Consumed, RP!Consumed,
         Receiver!MAX_PACKET_SIZE, RP!MAX_PACKET_SIZE, Receiver!Index, RP!Index
<1> QED
  BY <1>1, <1>2, <1>3, <1>4, <1>5, <1>6 DEF Receiver!ReadStep, RP!ReadStep

LEMMA ReceiverHears ==
  /\ Receiver!Total = RP!Total
  /\ \A p : Receiver!PeerSends(p) => RP!PeerSends(p)
  /\ \A n : Receiver!Arrive(n) => RP!Arrive(n)
  /\ Receiver!PeerFinishes => RP!PeerFinishes
  /\ Receiver!PeerBreaks => RP!PeerBreaks
  /\ Receiver!Init <=> RP!Init
BY DEF Receiver!Total, RP!Total, Receiver!PeerSends, RP!PeerSends, Receiver!Arrive, RP!Arrive,
       Receiver!PeerFinishes, RP!PeerFinishes, Receiver!PeerBreaks, RP!PeerBreaks,
       Receiver!Init, RP!Init, Receiver!Index, RP!Index, Receiver!Blank, RP!Blank,
       Receiver!MAX_PACKET_SIZE, RP!MAX_PACKET_SIZE,
       Receiver!buffer, RP!buffer, Receiver!decoder, RP!decoder

-----------------------------------------------------------------------------
(* What is due *)

AllPackets == [m \in 1 .. Len(accepted) |-> PacketOf(m)]

LEMMA FittingFinite ==
  ASSUME NEW n \in Nat
  PROVE  /\ Fitting(n) \in SUBSET (1 .. n) /\ Fitting(n) \in SUBSET Nat
         /\ IsFiniteSet(Fitting(n)) /\ Cardinality(Fitting(n)) \in Nat
<1>1. Fitting(n) \in SUBSET (1 .. n)
  BY DEF Fitting
<1> QED
  BY <1>1, PlacesFinite, Zenon

(* One more number fits or does not.                                       *)
LEMMA FittingNext ==
  ASSUME NEW n \in Nat
  PROVE  Fitting(n + 1) =
           IF Sender!Fits(n + 1) THEN Fitting(n) \union {n + 1} ELSE Fitting(n)
BY DEF Fitting

LEMMA PacketType ==
  ASSUME SidesInv, NEW m \in 1 .. Len(accepted)
  PROVE  PacketOf(m) \in Packet
<1>1. accepted[m] \in Payload /\ m \in 0 .. MaxMessages
  BY PartsAssumptions DEF SidesInv
<1> QED
  BY <1>1 DEF PacketOf, Packet

LEMMA DueType ==
  ASSUME SidesInv
  PROVE  /\ AllPackets \in Seq(Packet) /\ Len(AllPackets) = Len(accepted)
         /\ Len(accepted) \in Nat
         /\ Due \in Seq(Packet) /\ Len(Due) = Cardinality(Fitting(Len(accepted)))
         /\ \A n \in 1 .. Len(Due) :
              /\ Nth(Fitting(Len(accepted)), n) \in Fitting(Len(accepted))
              /\ Due[n] = PacketOf(Nth(Fitting(Len(accepted)), n))
<1>1. Len(accepted) \in Nat
  BY DEF SidesInv
<1>2. AllPackets \in Seq(Packet) /\ Len(AllPackets) = Len(accepted)
  BY <1>1, PacketType DEF AllPackets
<1>3. Due = Selected(AllPackets, Fitting(Len(accepted)))
  BY DEF Due, AllPackets, Fitting
<1>4. Fitting(Len(accepted)) \in SUBSET (1 .. Len(AllPackets))
  BY <1>1, <1>2, FittingFinite
<1>5. /\ Due \in Seq(Packet) /\ Len(Due) = Cardinality(Fitting(Len(accepted)))
      /\ \A n \in 1 .. Cardinality(Fitting(Len(accepted))) :
           /\ Due[n] = AllPackets[Nth(Fitting(Len(accepted)), n)]
           /\ Nth(Fitting(Len(accepted)), n) \in Fitting(Len(accepted))
  BY <1>2, <1>3, <1>4, SelectedType
<1>6. \A i \in Fitting(Len(accepted)) : AllPackets[i] = PacketOf(i)
  BY DEF AllPackets, Fitting
<1> QED
  BY <1>1, <1>2, <1>5, <1>6

(* A packet that is due is valid.                                          *)
LEMMA DueValid ==
  ASSUME SidesInv, NEW n \in 1 .. Len(Due)
  PROVE  Due[n] \in RP!ValidPacket /\ Due[n].number > 0
<1>1. PICK m \in Fitting(Len(accepted)) : Due[n] = PacketOf(m)
  BY DueType
<1>2. m \in 1 .. Len(accepted) /\ Sender!Fits(m)
  BY <1>1 DEF Fitting
<1>3. accepted[m] \in Nat /\ accepted[m] > 0 /\ accepted[m] <= MAX_PAYLOAD
  <2>1. accepted[m] \in Payload
    BY <1>2 DEF SidesInv
  <2>2. ~(accepted[m] > MAX_PAYLOAD)
    BY <1>2 DEF Sender!Fits, Sender!Refused
  <2> QED
    <3>1. \A size \in Payload : size \in Nat /\ size > 0
      BY ConnectionPairAssumption
    <3>2. MAX_PAYLOAD \in Nat
      BY ConnectionPairAssumption
    <3> QED
      BY <2>1, <2>2, <3>1, <3>2
<1>4. PacketOf(m) \in Packet
  BY <1>2, PacketType
<1> QED
  BY <1>1, <1>2, <1>3, <1>4 DEF PacketOf, RP!ValidPacket, RP!SizeAllowed

(* The message that encode takes next is due next, if it fits.             *)
LEMMA DueNext ==
  ASSUME SidesInv, NEW n \in Nat, n + 1 <= Len(accepted), Sender!Fits(n + 1)
  PROVE  /\ Cardinality(Fitting(n + 1)) = Cardinality(Fitting(n)) + 1
         /\ Cardinality(Fitting(n)) + 1 \in 1 .. Len(Due)
         /\ Due[Cardinality(Fitting(n)) + 1] = PacketOf(n + 1)
<1> DEFINE k == Cardinality(Fitting(n)) + 1
           I == Fitting(n + 1)
           J == Fitting(Len(accepted))
<1>1. Len(accepted) \in Nat /\ n + 1 \in Nat
  BY DEF SidesInv
<1>2. /\ I \in SUBSET Nat /\ IsFiniteSet(I) /\ J \in SUBSET Nat /\ IsFiniteSet(J)
      /\ Cardinality(I) \in Nat /\ Cardinality(J) \in Nat
  BY <1>1, FittingFinite
<1>3. /\ Cardinality(I) = k /\ k \in 1 .. Cardinality(I)
      /\ Nth(I, k) = n + 1
  <2>1. /\ Fitting(n) \in SUBSET Nat /\ IsFiniteSet(Fitting(n))
        /\ \A i \in Fitting(n) : i < n + 1
    BY FittingFinite DEF Fitting
  <2>2. I = Fitting(n) \union {n + 1}
    BY FittingNext
  <2> HIDE DEF I
  <2>3. /\ Cardinality(I) = k /\ Cardinality(Fitting(n)) \in Nat
        /\ Nth(I, k) = n + 1
    BY <1>1, <2>1, <2>2, NthLast
  <2> QED
    BY <2>3
<1>4. I \subseteq J /\ \A i \in I : \A j \in J \ I : i < j
  <2>1. I \subseteq J
    BY <1>1 DEF Fitting
  <2>2. ASSUME NEW i \in I, NEW j \in J, j \notin I PROVE i < j
    <3>1. j > n + 1 /\ i <= n + 1
      BY <1>1, <2>2 DEF Fitting
    <3> QED
      BY <1>1, <1>2, <2>2, <3>1
  <2> QED
    BY <2>1, <2>2
<1> HIDE DEF I, J
<1>5. Nth(J, k) = n + 1
  BY <1>2, <1>3, <1>4, NthStays
<1>6. Cardinality(I) <= Cardinality(J)
  BY <1>2, <1>4, FS_Subset
<1>7. k \in 1 .. Len(Due)
  BY <1>2, <1>3, <1>6, DueType DEF J
<1>8. Due[k] = PacketOf(n + 1)
  BY <1>5, <1>7, DueType DEF J
<1> QED
  BY <1>3, <1>7, <1>8 DEF I

(* What is due stays due; a new message may be due after it.               *)
LEMMA DueGrows ==
  ASSUME SidesInv, NEW size \in Payload, accepted' = Append(accepted, size)
  PROVE  /\ Len(Due) <= Len(Due')
         /\ \A i \in 1 .. Len(Due) : Due'[i] = Due[i]
         /\ \A n \in 0 .. Len(accepted) : Fitting(n)' = Fitting(n)
         /\ Len(Due) \in Nat /\ Len(Due') \in Nat
<1>0. PICK last : last = Len(accepted) + 1
  OBVIOUS
<1> DEFINE p == [header |-> TRUE, number |-> last, size |-> size, body |-> last]
           I == Fitting(Len(accepted))
           A == AllPackets
           D == Due
           S == Packet \union {p}
<1>1. /\ Len(accepted) \in Nat /\ Len(accepted') = last /\ last = Len(accepted) + 1
      /\ \A m \in 1 .. Len(accepted) : accepted'[m] = accepted[m]
      /\ accepted'[last] = size
  BY <1>0 DEF SidesInv
<1>2. \A m \in 1 .. Len(accepted) : Sender!Fits(m)' <=> Sender!Fits(m)
  BY <1>1 DEF Sender!Fits, Sender!Refused, Sender!Overflows, Sender!OutBuffer
<1>3. \A n \in 0 .. Len(accepted) : Fitting(n)' = Fitting(n)
  BY <1>1, <1>2 DEF Fitting
<1>4. /\ A \in Seq(S) /\ p \in S /\ Len(A) = Len(accepted)
      /\ D = Selected(A, I) /\ D \in Seq(S) /\ I \in SUBSET (1 .. Len(A))
  <2>1. A \in Seq(Packet) /\ Len(A) = Len(accepted) /\ D \in Seq(Packet)
    BY DueType
  <2>2. D = Selected(A, I)
    BY DEF Due, AllPackets, Fitting
  <2> HIDE DEF A, D, I
  <2>3. A \in Seq(S) /\ D \in Seq(S)
    BY <2>1
  <2> QED
    BY <1>1, <2>1, <2>2, <2>3, FittingFinite DEF I
<1>5. A' = Append(A, p)
  <2>1. \A m \in 1 .. Len(accepted) : PacketOf(m)' = PacketOf(m)
    BY <1>1 DEF PacketOf
  <2>2. PacketOf(last)' = p
    BY <1>1 DEF PacketOf
  <2>3. AllPackets' = [m \in 1 .. last |-> PacketOf(m)']
    BY <1>1 DEF AllPackets
  <2>4. AllPackets = [m \in 1 .. Len(accepted) |-> PacketOf(m)]
    BY DEF AllPackets
  <2> HIDE DEF p
  <2>5. PICK b : b = AllPackets'
    OBVIOUS
  <2>6. \A m \in 1 .. last : b[m] = IF m = last THEN p ELSE A[m]
    BY <1>1, <2>1, <2>2, <2>3, <2>4, <2>5
  <2>7. b \in Seq(S) /\ Len(b) = last
    <3>1. \A m \in 1 .. last : b[m] \in S
      BY <1>1, <1>4, <2>6
    <3>2. b = [m \in 1 .. last |-> b[m]]
      BY <2>3, <2>5
    <3> QED
      BY <1>1, <3>1, <3>2
  <2> HIDE DEF A, S
  <2>8. b = Append(A, p)
    BY <1>1, <1>4, <2>6, <2>7
  <2> QED
    BY <2>5, <2>8 DEF A
<1>6. Due' = Selected(A', Fitting(last)')
  BY <1>1 DEF Due, AllPackets, Fitting
<1>7. Fitting(last)' = I \/ Fitting(last)' = I \union {Len(A) + 1}
  <2>1. \A m : m \in Fitting(last)' <=> m \in 1 .. last /\ Sender!Fits(m)'
    BY DEF Fitting
  <2>2. \A m : m \in I <=> m \in 1 .. Len(accepted) /\ Sender!Fits(m)
    BY DEF Fitting
  <2> HIDE DEF I
  <2>3. \A m : m \in 1 .. last <=> m \in 1 .. Len(accepted) \/ m = last
    BY <1>1
  <2>4. last \notin 1 .. Len(accepted)
    BY <1>1
  <2>5. CASE Sender!Fits(last)'
    <3>1. \A m : m \in Fitting(last)' <=> m \in I \union {last}
      BY <1>2, <2>1, <2>2, <2>3, <2>5, Zenon
    <3>2. Len(A) + 1 = last
      BY <1>1, <1>4
    <3> QED
      BY <3>1, <3>2, Zenon
  <2>6. CASE ~Sender!Fits(last)'
    <3>1. \A m : m \in Fitting(last)' <=> m \in I
      BY <1>2, <2>1, <2>2, <2>3, <2>4, <2>6, Zenon
    <3> QED
      BY <3>1, Zenon
  <2> QED
    BY <2>5, <2>6
<1> HIDE DEF A, p, I, S, D
<1>8. Due' = D \/ Due' = Append(D, p)
  <2>1. /\ Selected(Append(A, p), I) = Selected(A, I)
        /\ Selected(Append(A, p), I \union {Len(A) + 1}) = Append(Selected(A, I), p)
    BY ZenonT(30), <1>4, SelectedAppend
  <2> QED
    BY <1>4, <1>5, <1>6, <1>7, <2>1, Zenon
<1>9. /\ Len(D) <= Len(Due') /\ \A i \in 1 .. Len(D) : Due'[i] = D[i]
      /\ Len(D) \in Nat /\ Len(Due') \in Nat
  BY <1>4, <1>8
<1> QED
  BY <1>3, <1>9 DEF D

-----------------------------------------------------------------------------
(* The sender *)

(* A sender that has finished does nothing any more.                       *)
LEMMA FinishedRests ==
  ASSUME SidesInv, peer = "finished", [Next]_vars
  PROVE  /\ UNCHANGED <<peer, senderVars, packets, start, arrived>>
         /\ Receive \/ UNCHANGED vars
<1>1. pc = "closed"
  BY DEF SidesInv
<1>2. ~(\E size \in Payload : Accept(size)) /\ ~SenderAlone
  BY <1>1 DEF Accept, SenderAlone, Sender!SendMessage, Sender!Poll, Sender!HandleWritable,
    Sender!HandleBroken, Sender!EncodeRefuses, Sender!EncodePanics, Sender!NothingToSend,
    Sender!WriteBlocks, Sender!WriteFails, Sender!Fetches, Sender!Writes
<1>3. ~Encode /\ ~Write
  BY <1>1 DEF Encode, Write, Sender!Encode, Sender!WriteAll, Sender!WriteSome,
    Sender!Fetches, Sender!Writes
<1>4. ~(\E n \in 1 .. SendBuffer : Deliver(n)) /\ ~Finish /\ ~Break
  BY <1>1 DEF Deliver, Sender!Drain, Finish, Break, Sender!PeerBreaks
<1>5. Receive \/ UNCHANGED vars
  BY <1>2, <1>3, <1>4 DEF Next, SenderStep
<1>6. CASE Receive
  BY <1>6 DEF Receive, Receiver!ReadStep, Receiver!Poll, Receiver!ReadBytes,
    Receiver!ReadBlocks, Receiver!ReadEnds, Receiver!ReadFails, Receiver!HeaderIncomplete,
    Receiver!HeaderInvalid, Receiver!HeaderRead, Receiver!PayloadIncomplete,
    Receiver!PayloadInvalid, Receiver!PayloadRead, Receiver!network
<1>7. CASE UNCHANGED vars
  BY <1>7 DEF vars, receiverVars
<1> QED
  BY <1>5, <1>6, <1>7

(* What is given to send_message stays given.                              *)
LEMMA AcceptedGrows ==
  ASSUME [Next]_vars
  PROVE  \/ UNCHANGED accepted
         \/ \E size \in Payload : Accept(size)
<1>1. CASE SenderAlone
  BY <1>1 DEF SenderAlone, Sender!Poll, Sender!HandleWritable, Sender!HandleBroken,
    Sender!EncodeRefuses, Sender!EncodePanics, Sender!NothingToSend, Sender!WriteBlocks,
    Sender!WriteFails, Sender!history
<1>2. CASE Encode \/ Write
  BY <1>2 DEF Encode, Write, Sender!Encode, Sender!WriteAll, Sender!WriteSome
<1>3. CASE (\E n \in 1 .. SendBuffer : Deliver(n)) \/ Break \/ Finish
  BY <1>3 DEF Deliver, Break, Finish, Sender!Drain, Sender!PeerBreaks, Sender!history, sendingState
<1>4. CASE Receive \/ UNCHANGED vars
  BY <1>4 DEF Receive, senderVars, sendingState, vars
<1> QED
  BY <1>1, <1>2, <1>3, <1>4 DEF Next, SenderStep

LEMMA SenderInv ==
  ASSUME SidesInv, [Next]_vars
  PROVE  /\ IF peer' = "finished" THEN pc' = "closed" /\ message_queue' = <<>> ELSE SP!Inv'
         /\ SP!OrderInv'
         /\ accepted' \in Seq(Payload) /\ Len(accepted') <= MaxMessages
<1>1. accepted' \in Seq(Payload) /\ Len(accepted') <= MaxMessages
  <2>1. CASE UNCHANGED accepted
    BY <2>1 DEF SidesInv
  <2>2. ASSUME NEW size \in Payload, Accept(size)
        PROVE  accepted' \in Seq(Payload) /\ Len(accepted') <= MaxMessages
    <3>1. accepted' = Append(accepted, size) /\ Len(accepted) < MaxMessages
      BY <2>2 DEF Accept, Sender!SendMessage
    <3>2. accepted \in Seq(Payload) /\ Len(accepted) \in Nat /\ MaxMessages \in Nat
      BY PartsAssumptions DEF SidesInv
    <3> QED
      BY <3>1, <3>2
  <2> QED
    BY <2>1, <2>2, AcceptedGrows
<1>2. CASE peer = "finished"
  <2>1. UNCHANGED <<peer, pc, message_queue, accepted, delivered, out_buffer_size, sending>>
    BY <1>2, FinishedRests DEF senderVars, sendingState
  <2>2. SP!OrderInv'
    BY <2>1, SP!OrderSame, PartsAssumptions DEF SidesInv
  <2> QED
    BY <1>1, <1>2, <2>1, <2>2 DEF SidesInv
<1>3. CASE peer # "finished" /\ Finish
  <2>1. /\ peer' = "finished" /\ pc' = "closed" /\ message_queue = <<>>
        /\ UNCHANGED <<message_queue, accepted, delivered, out_buffer_size, sending>>
    BY <1>3 DEF Finish, Receiver!PeerFinishes, sendingState
  <2>2. SP!OrderInv'
    BY <2>1, SP!OrderSame, PartsAssumptions DEF SidesInv
  <2> QED
    BY <1>1, <2>1, <2>2
<1>4. CASE peer # "finished" /\ ~Finish
  <2>1. [SP!Next]_(SP!vars)
    BY <1>4, SenderSide
  <2>2. SP!Inv' /\ SP!OrderInv'
    BY <1>4, <2>1, SP!InvStep, SP!OrderStep, PartsAssumptions DEF SidesInv
  <2>3. peer' # "finished"
    BY <2>2 DEF SP!Inv, SP!TypeInv, SP!TypeOK
  <2> QED
    BY <1>1, <2>2, <2>3
<1> QED
  BY <1>2, <1>3, <1>4

-----------------------------------------------------------------------------
(* The receiver *)

(* What the sender and the network do alone does not disturb the receiver. *)
LEMMA ReceiverUndisturbed ==
  ASSUME SidesInv, UNCHANGED <<peer, receiverVars>>
  PROVE  RP!Inv'
<1>1. UNCHANGED RP!vars
  BY DEF receiverVars, decoding, RP!vars, RP!network, RP!buffer, RP!decoder
<1> QED
  BY <1>1, RP!StepInv, PartsAssumptions DEF SidesInv

Tears == Write /\ torn' /\ ~torn

(* The packet that is torn is the last one, the receiver does not have all *)
(* of it, and if it has its header only the payload is garbled.            *)
LEMMA TornIsLast ==
  ASSUME PairInv, Tears
  PROVE  /\ Len(packets) > 0 /\ Len(packets) \in Nat
         /\ Len(processed) < Len(packets)
         /\ packets' = [packets EXCEPT ![Len(packets)] = Garbled(@)]
         /\ state \in {"HeaderSuccessfulRead", "WaitingForPayload"}
              /\ Len(processed) + 1 = Len(packets) => ~(written < HEADER_SIZE)
         /\ UNCHANGED <<peer, start, arrived, decoding>>
<1>0. SidesInv /\ InBytes /\ RP!TypeOK /\ RP!InStep /\ RP!Layout /\ RP!HeaderKnown
  BY DEF PairInv, SidesInv, RP!Inv, RP!DecoderInv
<1>1. /\ peer = "open" /\ out_buffer_size > 0 /\ UNCHANGED <<peer, start, arrived, decoding>>
      /\ packets' = [packets EXCEPT ![Len(packets)] = Garbled(@)]
  BY DEF Tears, Write, Sender!WriteAll, Sender!WriteSome, Sender!Writes
<1>2. SP!TypeOK
  BY <1>0, <1>1 DEF SidesInv, SP!Inv, SP!TypeInv
<1>3. /\ out_buffer_size \in Nat /\ written \in Nat
      /\ room \in Nat /\ SendBuffer \in Nat /\ room <= SendBuffer
  BY <1>2, PartsAssumptions DEF SP!TypeOK, SP!OutBuffer
<1>4. /\ arrived + (SendBuffer - room) + (out_buffer_size - written) = RP!Total
      /\ written < out_buffer_size /\ Len(packets) > 0
      /\ out_buffer_size = HEADER_SIZE + packets[Len(packets)].size
  BY <1>0, <1>1, ReceiverHears DEF InBytes, Left, Tears
<1>5. /\ Len(packets) \in Nat /\ Len(processed) \in Nat /\ RP!Total \in Nat
      /\ Len(start) = Len(packets) + 1 /\ HEADER_SIZE \in Nat
      /\ got \in Nat /\ got <= arrived /\ in_buffer_pos \in Nat /\ arrived \in Nat
      /\ DOMAIN packets = 1 .. Len(packets)
      /\ \A k \in DOMAIN start : start[k] \in Nat
      /\ \A k \in DOMAIN packets : packets[k].size \in Nat
      /\ DOMAIN start = 1 .. Len(packets) + 1
  BY <1>0, RP!Typing, PartsAssumptions
<1>6. arrived + (out_buffer_size - written) <= RP!Total
  BY <1>3, <1>4, <1>5
<1>7. Len(processed) < Len(packets)
  <2>1. ASSUME Len(processed) = Len(packets) PROVE FALSE
    <3>1. got - in_buffer_pos = RP!Total
      BY <1>0, <1>5, <2>1 DEF RP!InStep, RP!Total
    <3> QED
      BY SMTT(20), <1>3, <1>4, <1>5, <1>6, <3>1
  <2>2. Len(processed) <= Len(packets)
    BY <1>0 DEF RP!InStep
  <2> QED
    BY <1>5, <2>1, <2>2
<1>8. ASSUME state \in {"HeaderSuccessfulRead", "WaitingForPayload"},
             Len(processed) + 1 = Len(packets)
      PROVE  ~(written < HEADER_SIZE)
  <2>1. in_buffer_pos >= HEADER_SIZE
    BY <1>0, <1>8 DEF RP!HeaderKnown
  <2>2. got - in_buffer_pos = start[Len(packets)]
    BY <1>0, <1>8 DEF RP!InStep
  <2>3. start[Len(packets) + 1] = start[Len(packets)] + HEADER_SIZE + packets[Len(packets)].size
    <3>1. Len(packets) \in DOMAIN packets
      BY <1>4, <1>5
    <3> QED
      BY <1>0, <3>1 DEF RP!Layout
  <2>4. RP!Total = start[Len(packets)] + out_buffer_size
    <3>1. Len(packets) \in DOMAIN packets /\ Len(packets) \in DOMAIN start
      BY <1>4, <1>5
    <3>2. RP!Total = start[Len(packets) + 1]
      BY <1>5 DEF RP!Total
    <3>3. start[Len(packets)] \in Nat /\ packets[Len(packets)].size \in Nat
      BY <1>5, <3>1
    <3> QED
      BY <1>4, <1>5, <2>3, <3>2, <3>3
  <2>5. start[Len(packets)] \in Nat
    BY <1>4, <1>5
  <2> QED
    BY <1>3, <1>5, <1>6, <2>1, <2>2, <2>4, <2>5
<1> QED
  BY <1>1, <1>4, <1>5, <1>7, <1>8

(* Once it is torn the packet is not valid; the other packets stay.        *)
LEMMA TornPacket ==
  ASSUME PairInv, Tears
  PROVE  /\ Len(packets') = Len(packets) /\ DOMAIN packets' = DOMAIN packets
         /\ \A k \in DOMAIN packets : k # Len(packets) => packets'[k] = packets[k]
         /\ Len(packets) \in DOMAIN packets
         /\ packets'[Len(packets)] = Garbled(packets[Len(packets)])
         /\ packets'[Len(packets)].size = packets[Len(packets)].size
         /\ packets'[Len(packets)].number = packets[Len(packets)].number
         /\ ~(written < HEADER_SIZE) =>
              packets'[Len(packets)].header = packets[Len(packets)].header
         /\ packets'[Len(packets)] \notin RP!ValidPacket
         /\ packets' \in Seq(Packet)
<1> DEFINE last == Len(packets)
           p == packets[last]
<1>1. /\ last \in Nat /\ last > 0 /\ packets \in Seq(Packet)
      /\ packets' = [packets EXCEPT ![last] = Garbled(@)]
  BY TornIsLast DEF PairInv, SidesInv, RP!Inv, RP!TypeOK
<1>2. last \in DOMAIN packets /\ p \in Packet
  BY <1>1
<1>3. p.number > 0
  <2>1. SidesInv /\ last <= Len(Due) /\ (p = Due[last] \/ torn)
    BY <1>1, <1>2 DEF PairInv, AsDue
  <2>2. ~torn
    BY DEF Tears
  <2>3. last \in 1 .. Len(Due)
    BY <1>1, <2>1, DueType
  <2> QED
    BY <2>1, <2>2, <2>3, DueValid
<1>4. /\ Garbled(p) \in Packet /\ Garbled(p).size = p.size /\ Garbled(p).number = p.number
      /\ ~(written < HEADER_SIZE) => Garbled(p).header = p.header
      /\ ~Garbled(p).header \/ Garbled(p).body = 0
  <2>1. 0 \in 0 .. MaxMessages
    BY PartsAssumptions
  <2> QED
    BY <1>2, <2>1 DEF Garbled, Packet
<1>5. Garbled(p) \notin RP!ValidPacket
  BY <1>3, <1>4 DEF RP!ValidPacket
<1> HIDE DEF p
<1>6. /\ packets' \in Seq(Packet) /\ Len(packets') = last /\ DOMAIN packets' = DOMAIN packets
      /\ \A k \in DOMAIN packets : k # last => packets'[k] = packets[k]
      /\ packets'[last] = Garbled(p)
  BY <1>1, <1>2, <1>4 DEF p
<1> QED
  BY <1>2, <1>4, <1>5, <1>6 DEF p

LEMMA TornInv ==
  ASSUME PairInv, Tears
  PROVE  RP!Inv'
<1>0. /\ RP!TypeOK /\ RP!Layout /\ RP!InStep /\ RP!HeaderKnown /\ RP!Waiting /\ RP!EndIsLast
  BY DEF PairInv, SidesInv, RP!Inv, RP!DecoderInv
<1>1. /\ UNCHANGED <<peer, start, arrived, readable, receiver, got, in_buffer, in_buffer_pos>>
      /\ UNCHANGED <<state, message_number, payload_size, processed>>
      /\ Len(packets) \in Nat /\ Len(packets) > 0 /\ Len(processed) < Len(packets)
  BY TornIsLast DEF decoding
<1>2. /\ Len(packets') = Len(packets) /\ DOMAIN packets' = DOMAIN packets
      /\ \A k \in DOMAIN packets : packets'[k].size = packets[k].size
      /\ \A k \in DOMAIN packets : packets'[k].number = packets[k].number
      /\ \A k \in DOMAIN packets : k # Len(packets) => packets'[k] = packets[k]
      /\ packets' \in Seq(Packet)
  BY TornPacket
<1>3. /\ DOMAIN packets = 1 .. Len(packets) /\ Len(processed) \in Nat
      /\ DOMAIN processed = 1 .. Len(processed)
  BY <1>0, RP!Typing, PartsAssumptions
<1>4. RP!TypeOK'
  <2>1. RP!Total' = RP!Total
    BY <1>1 DEF RP!Total
  <2> QED
    BY <1>0, <1>1, <1>2, <2>1 DEF RP!TypeOK, RP!Index, RP!MAX_PACKET_SIZE
<1>5. RP!Layout'
  BY <1>0, <1>1, <1>2 DEF RP!Layout
<1>6. RP!InStep'
  <2>1. \A k \in DOMAIN processed : packets'[k] = packets[k]
    BY <1>1, <1>2, <1>3
  <2>2. Len(processed') <= Len(packets') /\ got' - in_buffer_pos' = start'[Len(processed') + 1]
    BY <1>0, <1>1, <1>2, <1>3 DEF RP!InStep
  <2>3. \A k \in DOMAIN processed' :
          processed'[k] = packets'[k] /\ processed'[k] \in RP!ValidPacket
    BY <1>0, <1>1, <2>1 DEF RP!InStep
  <2> QED
    BY <1>0, <1>1, <2>2, <2>3
      DEF RP!InStep, RP!Holds, RP!ValidPacket, RP!SizeAllowed
<1>7. RP!HeaderKnown'
  <2> SUFFICES ASSUME state \in {"HeaderSuccessfulRead", "WaitingForPayload"}
               PROVE  RP!HeaderKnown'
    BY <1>1 DEF RP!HeaderKnown
  <2> DEFINE k == Len(processed) + 1
  <2>1. /\ in_buffer_pos >= HEADER_SIZE /\ k <= Len(packets)
        /\ packets[k].header /\ RP!SizeAllowed(packets[k].size)
        /\ message_number = packets[k].number /\ payload_size = packets[k].size
    BY <1>0 DEF RP!HeaderKnown
  <2>2. k \in DOMAIN packets
    BY <1>3, <2>1
  <2>3. packets'[k].header = packets[k].header
    <3>1. CASE k = Len(packets)
      <4>1. ~(written < HEADER_SIZE)
        BY <3>1, TornIsLast
      <4> QED
        BY <3>1, <4>1, TornPacket
    <3>2. CASE k # Len(packets)
      BY <1>2, <2>2, <3>2
    <3> QED
      BY <3>1, <3>2
  <2> QED
    BY <1>1, <1>2, <2>1, <2>2, <2>3 DEF RP!HeaderKnown, RP!SizeAllowed
<1>8. RP!Waiting' /\ RP!EndIsLast'
  BY <1>0, <1>1 DEF RP!Waiting, RP!EndIsLast, RP!Total
<1> QED
  BY <1>4, <1>5, <1>6, <1>7, <1>8 DEF RP!Inv, RP!DecoderInv

(* encode is given the message behind the ones it had.                     *)
LEMMA TakesNext ==
  ASSUME SidesInv, Sender!Encode \/ Sender!EncodeRefuses \/ Sender!EncodePanics
  PROVE  /\ SP!Taken \in Nat /\ SP!Taken + 1 \in 1 .. Len(accepted)
         /\ Head(message_queue) = SP!Taken + 1
         /\ SP!Taken' = SP!Taken + 1 /\ UNCHANGED accepted
         /\ Sender!Encode => Sender!Fits(SP!Taken + 1)
         /\ Sender!EncodeRefuses \/ Sender!EncodePanics => ~Sender!Fits(SP!Taken + 1)
<1>1. /\ pc = "send" /\ message_queue # <<>> /\ UNCHANGED accepted
      /\ message_queue' = Tail(message_queue)
  BY DEF Sender!Encode, Sender!EncodeRefuses, Sender!EncodePanics, Sender!Fetches, Sender!history
<1>2. SP!QueueInOrder /\ message_queue \in Seq(1 .. Len(accepted)) /\ Len(accepted) \in Nat
  <2>1. SP!Inv
    BY <1>1 DEF SidesInv
  <2> QED
    BY <2>1 DEF SidesInv, SP!OrderInv, SP!Inv, SP!TypeInv, SP!TypeOK
<1>3. /\ 1 \in 1 .. Len(message_queue) /\ Len(message_queue) \in Nat
      /\ Head(message_queue) = message_queue[1]
      /\ message_queue[1] \in 1 .. Len(accepted)
      /\ Len(message_queue') = Len(message_queue) - 1
  BY <1>1, <1>2
<1>4. SP!Taken \in Nat /\ Head(message_queue) = SP!Taken + 1 /\ SP!Taken' = SP!Taken + 1
  BY <1>1, <1>2, <1>3 DEF SP!QueueInOrder, SP!Taken
<1>5. Sender!NextPayload = accepted[SP!Taken + 1]
  BY <1>4 DEF Sender!NextPayload
<1> QED
  BY <1>1, <1>3, <1>4, <1>5
    DEF Sender!Encode, Sender!EncodeRefuses, Sender!EncodePanics, Sender!Fits

LEMMA EncodeSends ==
  ASSUME SidesInv, Encode, peer = "open"
  PROVE  /\ PacketOf(SP!Taken + 1) \in Packet
         /\ RP!PeerSends(PacketOf(SP!Taken + 1))
         /\ packets' = Append(packets, PacketOf(SP!Taken + 1))
         /\ RP!Total' = RP!Total + HEADER_SIZE + accepted[SP!Taken + 1]
         /\ out_buffer_size' = HEADER_SIZE + accepted[SP!Taken + 1] /\ out_buffer_size = 0
         /\ written' = 0 /\ UNCHANGED <<arrived, peer, room, torn, receiver, processed>>
<1>1. /\ Sender!Encode /\ Receiver!PeerSends(PacketOf(Head(message_queue)))
      /\ Head(message_queue) = SP!Taken + 1 /\ SP!Taken + 1 \in 1 .. Len(accepted)
  BY TakesNext DEF Encode
<1>2. PacketOf(SP!Taken + 1) \in Packet
  BY <1>1, PacketType
<1>3. RP!PeerSends(PacketOf(SP!Taken + 1))
  BY <1>1, ReceiverHears
<1>4. RP!Total' = RP!Total + HEADER_SIZE + accepted[SP!Taken + 1]
  <2>1. PacketOf(SP!Taken + 1).size = accepted[SP!Taken + 1]
    BY DEF PacketOf
  <2>2. start' = Append(start, RP!Total + HEADER_SIZE + PacketOf(SP!Taken + 1).size)
    BY <1>3 DEF RP!PeerSends
  <2>3. start \in Seq(Nat) /\ RP!Total \in Nat /\ PacketOf(SP!Taken + 1).size \in Nat
        /\ HEADER_SIZE \in Nat
    <3>1. RP!TypeOK
      BY DEF SidesInv, RP!Inv
    <3>2. RP!Total \in Nat
      BY <3>1, RP!Typing, PartsAssumptions
    <3> QED
      BY <1>2, <3>1, <3>2, PartsAssumptions DEF RP!TypeOK, Packet
  <2>4. RP!Total + HEADER_SIZE + PacketOf(SP!Taken + 1).size \in Nat
    BY <2>3
  <2>5. /\ Len(start') = Len(start) + 1
        /\ start'[Len(start) + 1] = RP!Total + HEADER_SIZE + PacketOf(SP!Taken + 1).size
    BY <2>2, <2>3, <2>4
  <2> QED
    BY <2>1, <2>5 DEF RP!Total
<1> QED
  BY <1>1, <1>2, <1>3, <1>4
    DEF Sender!Encode, Sender!Fetches, Sender!NextPayload, RP!PeerSends

(* The network brings what is missing of the stream, at most.              *)
LEMMA DeliverArrives ==
  ASSUME SidesInv, NEW n \in 1 .. SendBuffer, Deliver(n)
  PROVE  /\ \E m \in 0 .. RP!Total - arrived : RP!Arrive(m)
         /\ UNCHANGED <<packets, start, peer, receiver, processed, torn, accepted>>
         /\ UNCHANGED <<message_queue, out_buffer_size, written>>
         /\ n <= SendBuffer - room /\ room' = room + n /\ peer = "open"
         /\ n <= RP!Total - arrived => arrived' = arrived + n
<1>1. RP!Total - arrived \in Nat /\ RP!Total \in Nat /\ arrived \in Nat
  <2>1. RP!TypeOK
    BY DEF SidesInv, RP!Inv
  <2>2. RP!Total \in Nat /\ arrived \in Nat /\ arrived <= RP!Total
    BY <2>1, RP!Typing, PartsAssumptions
  <2> QED
    BY <2>2
<1>2. n \in Nat /\ SP!TypeOK
  BY PartsAssumptions DEF Deliver, Sender!Drain, SidesInv, SP!Inv, SP!TypeInv
<1>3. PICK m : m = IF n < RP!Total - arrived THEN n ELSE RP!Total - arrived
  OBVIOUS
<1>4. m \in 0 .. RP!Total - arrived /\ (n <= RP!Total - arrived => m = n)
  BY <1>1, <1>2, <1>3
<1>5. RP!Arrive(m) /\ Sender!Drain(n)
  BY <1>3, ReceiverHears DEF Deliver
<1>6. n <= SendBuffer - room
  BY <1>2, <1>5, PartsAssumptions DEF Sender!Drain, SP!TypeOK
<1> QED
  BY <1>4, <1>5, <1>6
    DEF RP!Arrive, Sender!Drain, Sender!queue, Sender!history

LEMMA ReceiverInv ==
  ASSUME PairInv, [Next]_vars
  PROVE  RP!Inv'
<1>0. SidesInv /\ RP!Inv
  BY DEF PairInv, SidesInv
<1>1. CASE \E size \in Payload : Accept(size)
  BY <1>0, <1>1, ReceiverUndisturbed DEF Accept, Sender!SendMessage
<1>2. CASE SenderAlone
  BY <1>0, <1>2, ReceiverUndisturbed DEF SenderAlone, Sender!Poll, Sender!HandleWritable,
    Sender!HandleBroken, Sender!EncodeRefuses, Sender!EncodePanics, Sender!NothingToSend,
    Sender!WriteBlocks, Sender!WriteFails
<1>3. CASE Encode
  <2>1. CASE peer = "open"
    BY <1>0, <1>3, <2>1, EncodeSends, RP!PeerSendsInv, PartsAssumptions
  <2>2. CASE peer # "open"
    BY <1>0, <1>3, <2>2, ReceiverUndisturbed DEF Encode, Sender!Encode
  <2> QED
    BY <2>1, <2>2
<1>4. CASE Write
  <2>1. CASE Tears
    BY <2>1, TornInv
  <2>2. CASE ~Tears
    <3>1. UNCHANGED <<peer, receiverVars>>
      BY <1>4, <2>2 DEF Write, Tears, Sender!WriteAll, Sender!WriteSome, receiverVars
    <3> QED
      BY <1>0, <3>1, ReceiverUndisturbed
  <2> QED
    BY <2>1, <2>2
<1>5. CASE \E n \in 1 .. SendBuffer : Deliver(n)
  BY <1>0, <1>5, DeliverArrives, RP!NetworkInv, PartsAssumptions
<1>6. CASE Receive
  BY <1>0, <1>6, ReceiverReads, RP!StepInv, PartsAssumptions DEF Receive, RP!Next
<1>7. CASE Finish \/ Break
  BY <1>0, <1>7, ReceiverHears, RP!NetworkInv, PartsAssumptions DEF Finish, Break
<1>8. CASE UNCHANGED vars
  BY <1>0, <1>8, ReceiverUndisturbed DEF vars
<1> QED
  BY <1>1, <1>2, <1>3, <1>4, <1>5, <1>6, <1>7, <1>8 DEF Next, SenderStep

-----------------------------------------------------------------------------
(* The sides together *)

(* What the steps of the receiver leave alone.                             *)
LEMMA ReceiveLeaves ==
  ASSUME Receive
  PROVE  UNCHANGED <<packets, start, arrived, peer, senderVars>>
BY DEF Receive, Receiver!ReadStep, Receiver!Poll, Receiver!ReadBytes,
    Receiver!ReadBlocks, Receiver!ReadEnds, Receiver!ReadFails, Receiver!HeaderIncomplete,
    Receiver!HeaderInvalid, Receiver!HeaderRead, Receiver!PayloadIncomplete,
    Receiver!PayloadInvalid, Receiver!PayloadRead, Receiver!network

LEMMA SenderAloneLeaves ==
  ASSUME SenderAlone
  PROVE  UNCHANGED <<peer, receiverVars, room, out_buffer_size, written, torn, accepted>>
BY DEF SenderAlone, Sender!Poll, Sender!HandleWritable,
    Sender!HandleBroken, Sender!EncodeRefuses, Sender!EncodePanics, Sender!NothingToSend,
    Sender!WriteBlocks, Sender!WriteFails, Sender!queue, Sender!history

(* The stream grows by encode only, and changes when a packet is torn.     *)
LEMMA StreamGrows ==
  ASSUME [Next]_vars
  PROVE  \/ Encode /\ peer = "open"
         \/ Tears
         \/ UNCHANGED <<packets, start>>
<1>1. CASE (\E size \in Payload : Accept(size)) \/ SenderAlone
  BY <1>1, SenderAloneLeaves DEF Accept, Sender!SendMessage, receiverVars
<1>2. CASE Encode
  BY <1>2 DEF Encode, Sender!Encode, receiverVars
<1>3. CASE Write
  BY <1>3 DEF Write, Tears
<1>4. CASE (\E n \in 1 .. SendBuffer : Deliver(n)) \/ Finish \/ Break
  BY <1>4 DEF Deliver, Finish, Break, Sender!Drain, Sender!PeerBreaks, Receiver!Arrive,
    Receiver!PeerFinishes, Receiver!PeerBreaks, sendingState, Sender!history
<1>5. CASE Receive
  BY <1>5, ReceiveLeaves DEF senderVars, sendingState
<1>6. CASE UNCHANGED vars
  BY <1>6 DEF vars, senderVars, sendingState, receiverVars
<1> QED
  BY <1>1, <1>2, <1>3, <1>4, <1>5, <1>6 DEF Next, SenderStep

(* The line does not come back.                                            *)
LEMMA PeerStays ==
  ASSUME [Next]_vars
  PROVE  peer' = peer \/ (peer = "open" /\ peer' \in {"finished", "broken"})
<1>1. CASE (\E size \in Payload : Accept(size)) \/ SenderAlone
  <2>1. peer' = peer
    BY <1>1, SenderAloneLeaves DEF Accept, Sender!SendMessage
  <2> QED
    BY <2>1, Zenon
<1>2. CASE Encode \/ Write
  <2>1. peer' = peer
    BY <1>2 DEF Encode, Sender!Encode, Write, Sender!WriteAll, Sender!WriteSome
  <2> QED
    BY <2>1, Zenon
<1>3. CASE \E n \in 1 .. SendBuffer : Deliver(n)
  <2>1. peer' = peer
    BY <1>3 DEF Deliver, Sender!Drain
  <2> QED
    BY <2>1, Zenon
<1>4. CASE Finish \/ Break
  BY <1>4 DEF Finish, Break, Receiver!PeerFinishes, Receiver!PeerBreaks
<1>5. CASE Receive \/ UNCHANGED vars
  <2>1. peer' = peer
    BY <1>5, ReceiveLeaves DEF vars, senderVars
  <2> QED
    BY <2>1, Zenon
<1> QED
  BY <1>1, <1>2, <1>3, <1>4, <1>5 DEF Next, SenderStep

(* A torn packet does not become whole.                                    *)
LEMMA TornStays ==
  ASSUME [Next]_vars
  PROVE  torn => torn'
<1>1. CASE (\E size \in Payload : Accept(size)) \/ SenderAlone
  <2>1. torn' = torn
    BY <1>1, SenderAloneLeaves DEF Accept, Sender!SendMessage
  <2> QED
    BY <2>1, Zenon
<1>2. CASE Encode
  <2>1. torn' = torn
    BY <1>2 DEF Encode, Sender!Encode
  <2> QED
    BY <2>1, Zenon
<1>3. CASE Write
  <2>1. torn' = torn \/ torn' = (torn \/ out_buffer_pos # written)
    BY <1>3, Zenon DEF Write, Sender!WriteAll, Sender!WriteSome, Sender!Written
  <2> QED
    BY <2>1, Zenon
<1>4. CASE (\E n \in 1 .. SendBuffer : Deliver(n)) \/ Finish \/ Break
  <2>1. torn' = torn
    BY <1>4 DEF Deliver, Finish, Break, Sender!Drain, Sender!PeerBreaks, sendingState,
      Sender!history
  <2> QED
    BY <2>1, Zenon
<1>5. CASE Receive \/ UNCHANGED vars
  <2>1. torn' = torn
    BY <1>5, ReceiveLeaves DEF vars, senderVars, sendingState
  <2> QED
    BY <2>1, Zenon
<1> QED
  BY <1>1, <1>2, <1>3, <1>4, <1>5, Zenon DEF Next, SenderStep

(* The line does not come back, nor does a torn packet become whole.       *)
LEMMA EndsStay ==
  ASSUME [Next]_vars
  PROVE  /\ peer' = peer \/ (peer = "open" /\ peer' \in {"finished", "broken"})
         /\ torn => torn'
BY PeerStays, TornStays

LEMMA DueSame ==
  ASSUME UNCHANGED accepted
  PROVE  Due' = Due /\ \A n : Fitting(n)' = Fitting(n)
<1>1. \A m : (Sender!Fits(m)' <=> Sender!Fits(m)) /\ PacketOf(m)' = PacketOf(m)
  BY DEF Sender!Fits, Sender!Refused, Sender!Overflows, Sender!OutBuffer, PacketOf
<1>2. \A n : Fitting(n)' = Fitting(n)
  BY <1>1 DEF Fitting
<1>3. Due' = Due
  BY <1>1 DEF Due
<1> QED
  BY <1>2, <1>3

(* The queue moves by encode and send_message only.                        *)
LEMMA QueueMoves ==
  ASSUME [Next]_vars
  PROVE  \/ \E size \in Payload : Accept(size)
         \/ Encode
         \/ (Sender!EncodeRefuses \/ Sender!EncodePanics) /\ UNCHANGED receiverVars
         \/ UNCHANGED <<message_queue, accepted>>
<1>1. CASE SenderAlone
  BY <1>1 DEF SenderAlone, Sender!Poll, Sender!HandleWritable, Sender!HandleBroken,
    Sender!NothingToSend, Sender!WriteBlocks, Sender!WriteFails, Sender!queue, Sender!history
<1>2. CASE Write
  BY <1>2 DEF Write, Sender!WriteAll, Sender!WriteSome
<1>3. CASE (\E n \in 1 .. SendBuffer : Deliver(n)) \/ Finish \/ Break
  BY <1>3 DEF Deliver, Finish, Break, Sender!Drain, Sender!PeerBreaks,
    sendingState, Sender!queue, Sender!history
<1>4. CASE Receive \/ UNCHANGED vars
  BY <1>4, ReceiveLeaves DEF vars, senderVars, sendingState
<1> QED
  BY <1>1, <1>2, <1>3, <1>4 DEF Next, SenderStep

LEMMA HandedStep ==
  ASSUME PairInv, [Next]_vars
  PROVE  Handed'
<1> SUFFICES ASSUME peer' # "broken" PROVE Len(packets') = Cardinality(Fitting(SP!Taken)')
  BY DEF Handed
<1>0. SidesInv /\ peer # "broken" /\ Len(packets) = Cardinality(Fitting(SP!Taken))
  BY EndsStay DEF PairInv, Handed
<1>1. /\ SP!Taken \in Nat /\ SP!Taken <= Len(accepted) /\ Len(accepted) \in Nat
      /\ peer # "finished" => message_queue \in Seq(1 .. Len(accepted))
  <2>1. SP!Taken \in Nat /\ Len(accepted) \in Nat
    BY <1>0 DEF SidesInv, SP!OrderInv, SP!QueueInOrder
  <2>2. CASE peer # "finished"
    <3>1. message_queue \in Seq(1 .. Len(accepted))
      BY <1>0, <2>2 DEF SidesInv, SP!Inv, SP!TypeInv, SP!TypeOK
    <3>2. Len(message_queue) \in Nat
      BY <3>1
    <3> QED
      BY <2>1, <3>1, <3>2 DEF SP!Taken
  <2>3. CASE peer = "finished"
    BY <1>0, <2>1, <2>3 DEF SidesInv, SP!Taken
  <2> QED
    BY <2>1, <2>2, <2>3
<1>2. CASE Encode
  <2>1. peer = "open"
    <3>1. peer # "finished"
      BY <1>0, <1>2 DEF SidesInv, Encode, Sender!Encode, Sender!Fetches
    <3> QED
      BY <1>0, <3>1 DEF SidesInv, SP!Inv, SP!TypeInv, SP!TypeOK
  <2>2. /\ SP!Taken' = SP!Taken + 1 /\ UNCHANGED accepted /\ Sender!Fits(SP!Taken + 1)
        /\ SP!Taken + 1 <= Len(accepted)
    BY <1>0, <1>1, <1>2, TakesNext DEF Encode
  <2>3. Cardinality(Fitting(SP!Taken + 1)) = Cardinality(Fitting(SP!Taken)) + 1
    BY <1>0, <1>1, <2>2, DueNext
  <2>4. Fitting(SP!Taken)' = Fitting(SP!Taken + 1)
    <3>1. PICK n : n = SP!Taken + 1
      OBVIOUS
    <3>2. Fitting(n)' = Fitting(n)
      BY <2>2, DueSame
    <3>3. Fitting(SP!Taken)' = Fitting(n)'
      BY <2>2, <3>1 DEF Fitting
    <3> QED
      BY <3>1, <3>2, <3>3
  <2>5. Len(packets') = Len(packets) + 1
    <3>1. packets \in Seq(Packet)
      BY <1>0 DEF SidesInv, RP!Inv, RP!TypeOK
    <3> QED
      BY <1>0, <1>2, <2>1, <3>1, EncodeSends
  <2> QED
    BY <1>0, <2>3, <2>4, <2>5
<1>3. CASE (Sender!EncodeRefuses \/ Sender!EncodePanics) /\ UNCHANGED receiverVars
  <2>1. SP!Taken' = SP!Taken + 1 /\ UNCHANGED accepted /\ ~Sender!Fits(SP!Taken + 1)
    BY <1>0, <1>3, TakesNext
  <2>2. Fitting(SP!Taken)' = Fitting(SP!Taken + 1)
    <3>1. PICK n : n = SP!Taken + 1
      OBVIOUS
    <3>2. Fitting(n)' = Fitting(n)
      BY <2>1, DueSame
    <3>3. Fitting(SP!Taken)' = Fitting(n)'
      BY <2>1, <3>1 DEF Fitting
    <3> QED
      BY <3>1, <3>2, <3>3
  <2>3. Fitting(SP!Taken + 1) = Fitting(SP!Taken)
    BY <1>1, <2>1, FittingNext
  <2> QED
    BY <1>0, <1>3, <2>2, <2>3 DEF receiverVars
<1>4. ASSUME NEW size \in Payload, Accept(size)
      PROVE  Len(packets') = Cardinality(Fitting(SP!Taken)')
  <2>1. /\ accepted' = Append(accepted, size) /\ UNCHANGED packets
        /\ message_queue' = Append(message_queue, Len(accepted) + 1) /\ peer # "finished"
    BY <1>0, <1>4 DEF Accept, Sender!SendMessage, Sender!PushBack, receiverVars, SidesInv
  <2>2. SP!Taken' = SP!Taken
    <3>1. Len(accepted') = Len(accepted) + 1 /\ Len(message_queue') = Len(message_queue) + 1
      BY <1>0, <1>1, <2>1 DEF SidesInv
    <3>2. Len(message_queue) \in Nat
      BY <1>1, <2>1
    <3> QED
      BY <1>1, <3>1, <3>2 DEF SP!Taken
  <2>3. PICK n : n = SP!Taken
    OBVIOUS
  <2>4. Fitting(n)' = Fitting(n)
    BY <1>0, <1>1, <2>1, <2>3, DueGrows
  <2>5. Fitting(SP!Taken)' = Fitting(n)'
    BY <2>2, <2>3 DEF Fitting
  <2> QED
    BY <1>0, <2>1, <2>3, <2>4, <2>5
<1>5. CASE UNCHANGED <<message_queue, accepted>> /\ ~Encode
  <2>1. SP!Taken' = SP!Taken
    BY <1>5 DEF SP!Taken
  <2>2. Len(packets') = Len(packets)
    BY <1>5, StreamGrows, TornPacket
  <2>3. PICK n : n = SP!Taken
    OBVIOUS
  <2>4. Fitting(n)' = Fitting(n) /\ Fitting(SP!Taken)' = Fitting(n)'
    <3>1. Fitting(SP!Taken)' = Fitting(n)'
      BY <2>1, <2>3 DEF Fitting
    <3> QED
      BY <1>5, <3>1, DueSame
  <2> QED
    BY <1>0, <2>2, <2>3, <2>4
<1> QED
  BY <1>2, <1>3, <1>4, <1>5, QueueMoves

LEMMA AsDueStep ==
  ASSUME PairInv, [Next]_vars
  PROVE  AsDue'
<1>0. /\ SidesInv /\ Len(packets) <= Len(Due)
      /\ \A i \in 1 .. Len(packets) :
           packets[i] = Due[i] \/ (torn /\ packets[i] \notin RP!ValidPacket)
      /\ packets \in Seq(Packet) /\ Len(packets) \in Nat
  BY DEF PairInv, AsDue, SidesInv, RP!Inv, RP!TypeOK
<1>1. /\ Len(Due) <= Len(Due') /\ Len(Due) \in Nat /\ Len(Due') \in Nat
      /\ \A i \in 1 .. Len(Due) : Due'[i] = Due[i]
  <2>1. Len(Due) \in Nat
    BY <1>0, DueType
  <2>2. CASE UNCHANGED accepted
    BY <2>1, <2>2, DueSame
  <2>3. CASE \E size \in Payload : Accept(size)
    BY <1>0, <2>3, DueGrows DEF Accept, Sender!SendMessage
  <2> QED
    BY <2>2, <2>3, AcceptedGrows
<1>2. RP!ValidPacket' = RP!ValidPacket
  BY DEF RP!ValidPacket, RP!SizeAllowed
<1>3. \A i \in 1 .. Len(packets) :
        packets[i] = Due'[i] \/ (torn' /\ packets[i] \notin RP!ValidPacket)
  <2> SUFFICES ASSUME NEW i \in 1 .. Len(packets), packets[i] # Due'[i]
               PROVE  torn' /\ packets[i] \notin RP!ValidPacket
    OBVIOUS
  <2>1. i \in 1 .. Len(Due)
    BY <1>0, <1>1
  <2>2. packets[i] # Due[i]
    BY <1>1, <2>1, Zenon
  <2> QED
    BY <1>0, <2>2, EndsStay, Zenon
<1>4. CASE Encode /\ peer = "open"
  <2>1. /\ packets' = Append(packets, PacketOf(SP!Taken + 1))
        /\ PacketOf(SP!Taken + 1) \in Packet
    BY <1>0, <1>4, EncodeSends
  <2>2. /\ SP!Taken \in Nat /\ SP!Taken + 1 <= Len(accepted) /\ Sender!Fits(SP!Taken + 1)
        /\ UNCHANGED accepted
    <3>1. /\ SP!Taken \in Nat /\ SP!Taken + 1 \in 1 .. Len(accepted)
          /\ Sender!Fits(SP!Taken + 1) /\ UNCHANGED accepted
      BY <1>0, <1>4, TakesNext DEF Encode
    <3> QED
      BY <3>1
  <2>3. /\ Len(packets) + 1 \in 1 .. Len(Due)
        /\ Due[Len(packets) + 1] = PacketOf(SP!Taken + 1)
    <3>1. Len(packets) = Cardinality(Fitting(SP!Taken))
      BY <1>4 DEF PairInv, Handed
    <3> QED
      BY <1>0, <2>2, <3>1, DueNext
  <2>4. /\ Len(packets') = Len(packets) + 1
        /\ \A i \in 1 .. Len(packets) : packets'[i] = packets[i]
        /\ packets'[Len(packets) + 1] = PacketOf(SP!Taken + 1)
    BY <1>0, <2>1
  <2>5. Due' = Due
    BY <2>2, DueSame
  <2>6. \A i \in 1 .. Len(packets') : i \in 1 .. Len(packets) \/ i = Len(packets) + 1
    BY <1>0, <2>4
  <2>7. \A i \in 1 .. Len(packets') :
          packets'[i] = Due'[i] \/ (torn' /\ packets'[i] \notin RP!ValidPacket)
    BY <1>3, <2>3, <2>4, <2>5, <2>6, Zenon
  <2>8. Len(packets') <= Len(Due')
    BY <2>3, <2>4, <2>5
  <2> QED
    BY <1>2, <2>7, <2>8, Zenon DEF AsDue
<1>5. CASE Tears
  <2>1. /\ Len(packets') = Len(packets) /\ DOMAIN packets = 1 .. Len(packets)
        /\ \A i \in 1 .. Len(packets) : i # Len(packets) => packets'[i] = packets[i]
        /\ packets'[Len(packets)] \notin RP!ValidPacket
    <3>1. DOMAIN packets = 1 .. Len(packets)
      BY <1>0
    <3> QED
      BY <1>5, <3>1, TornPacket, Zenon
  <2>2. torn'
    BY <1>5 DEF Tears
  <2>3. \A i \in 1 .. Len(packets') :
          packets'[i] = Due'[i] \/ (torn' /\ packets'[i] \notin RP!ValidPacket)
    BY <1>3, <2>1, <2>2, Zenon
  <2>4. Len(packets') <= Len(Due')
    BY <1>0, <1>1, <2>1
  <2> QED
    BY <1>2, <2>3, <2>4, Zenon DEF AsDue
<1>6. CASE UNCHANGED packets
  <2>1. Len(packets') <= Len(Due')
    BY <1>0, <1>1, <1>6
  <2>2. \A i \in 1 .. Len(packets') :
          packets'[i] = Due'[i] \/ (torn' /\ packets'[i] \notin RP!ValidPacket)
    BY <1>3, <1>6, Zenon
  <2> QED
    BY <1>2, <2>1, <2>2, Zenon DEF AsDue
<1> QED
  BY <1>4, <1>5, <1>6, StreamGrows

(* A write moves bytes from out_buffer to the send buffer.                 *)
LEMMA WriteMoves ==
  ASSUME SP!TypeOK, Write, ~torn',
         out_buffer_size > 0 => written < out_buffer_size
  PROVE  /\ out_buffer_size > 0 /\ (SendBuffer - room') + Left' = (SendBuffer - room) + Left
         /\ out_buffer_size' > 0 =>
              out_buffer_size' = out_buffer_size /\ written' < out_buffer_size'
<1>1. /\ out_buffer_size \in Nat /\ out_buffer_pos \in Nat /\ written \in Nat
      /\ room \in Nat /\ SendBuffer \in Nat
  BY PartsAssumptions DEF SP!TypeOK, SP!OutBuffer
<1>2. out_buffer_size > 0 /\ out_buffer_pos = written
  BY DEF Write, Sender!WriteAll, Sender!WriteSome, Sender!Writes, Sender!Written
<1>3. CASE Sender!WriteAll
  <2>1. room' = room - (out_buffer_size - written) /\ out_buffer_size' = 0
    BY <1>2, <1>3 DEF Sender!WriteAll, Sender!Written, Sender!Rest
  <2> QED
    BY <1>1, <1>2, <2>1 DEF Left
<1>4. CASE Sender!WriteSome
  <2>1. /\ room' = room - room /\ written' = written + room
        /\ out_buffer_size' = out_buffer_size /\ room < out_buffer_size - written
    BY <1>2, <1>4 DEF Sender!WriteSome, Sender!Written, Sender!Rest
  <2> QED
    BY <1>1, <1>2, <2>1 DEF Left
<1> QED
  BY <1>3, <1>4 DEF Write

LEMMA InBytesStep ==
  ASSUME PairInv, [Next]_vars
  PROVE  InBytes'
<1> SUFFICES ASSUME peer' = "open", ~torn'
             PROVE  /\ arrived' + (SendBuffer - room') + Left' = RP!Total'
                    /\ out_buffer_size' > 0 =>
                         /\ written' < out_buffer_size'
                         /\ Len(packets') > 0
                         /\ out_buffer_size' = HEADER_SIZE + packets'[Len(packets')].size
  BY DEF InBytes, RP!Total, Receiver!Total
<1>0. SidesInv /\ peer = "open" /\ ~torn
  BY EndsStay, Zenon DEF PairInv
<1>1. /\ arrived + (SendBuffer - room) + Left = RP!Total
      /\ out_buffer_size > 0 =>
           /\ written < out_buffer_size
           /\ Len(packets) > 0
           /\ out_buffer_size = HEADER_SIZE + packets[Len(packets)].size
  BY <1>0, ReceiverHears DEF PairInv, InBytes
<1>2. SP!TypeOK /\ RP!TypeOK
  BY <1>0 DEF SidesInv, SP!Inv, SP!TypeInv, RP!Inv
<1>3. /\ out_buffer_size \in Nat /\ written \in Nat /\ room \in Nat /\ SendBuffer \in Nat
      /\ arrived \in Nat /\ RP!Total \in Nat /\ HEADER_SIZE \in Nat /\ HEADER_SIZE > 0
      /\ Len(packets) \in Nat /\ packets \in Seq(Packet)
  <2>1. arrived \in Nat /\ RP!Total \in Nat /\ packets \in Seq(Packet)
    BY <1>2, RP!Typing, PartsAssumptions DEF RP!TypeOK
  <2>2. room \in Nat /\ SendBuffer \in Nat /\ out_buffer_size \in Nat /\ written \in Nat
    BY <1>2, PartsAssumptions DEF SP!TypeOK, SP!OutBuffer
  <2> QED
    BY <2>1, <2>2, PartsAssumptions
<1>4. CASE UNCHANGED <<arrived, room, out_buffer_size, written, packets, start>>
  <2>1. RP!Total' = RP!Total /\ Left' = Left
    BY <1>4 DEF RP!Total, Left
  <2> QED
    BY <1>1, <1>4, <2>1
<1>5. CASE (\E size \in Payload : Accept(size)) \/ SenderAlone \/ Receive \/ UNCHANGED vars
  <2>1. UNCHANGED <<arrived, room, out_buffer_size, written, packets, start>>
    BY <1>5, SenderAloneLeaves, ReceiveLeaves
      DEF Accept, Sender!SendMessage, receiverVars, vars, senderVars, sendingState
  <2> QED
    BY <1>4, <2>1
<1>6. CASE Encode
  <2>1. /\ packets' = Append(packets, PacketOf(SP!Taken + 1))
        /\ PacketOf(SP!Taken + 1) \in Packet
        /\ RP!Total' = RP!Total + HEADER_SIZE + accepted[SP!Taken + 1]
        /\ out_buffer_size' = HEADER_SIZE + accepted[SP!Taken + 1] /\ out_buffer_size = 0
        /\ written' = 0 /\ UNCHANGED <<arrived, room>>
    BY <1>0, <1>6, EncodeSends
  <2>2. /\ accepted[SP!Taken + 1] = PacketOf(SP!Taken + 1).size
        /\ accepted[SP!Taken + 1] \in Nat
    BY <2>1, PartsAssumptions DEF PacketOf, Packet
  <2>3. /\ Len(packets') = Len(packets) + 1
        /\ packets'[Len(packets')] = PacketOf(SP!Taken + 1)
    BY <1>3, <2>1
  <2> QED
    BY SMTT(20), <1>1, <1>3, <2>1, <2>2, <2>3 DEF Left
<1>7. CASE Write
  <2>1. UNCHANGED <<packets, start, arrived>>
    BY <1>7 DEF Write
  <2>2. /\ out_buffer_size > 0 /\ (SendBuffer - room') + Left' = (SendBuffer - room) + Left
        /\ out_buffer_size' > 0 =>
             out_buffer_size' = out_buffer_size /\ written' < out_buffer_size'
    BY <1>1, <1>2, <1>7, WriteMoves
  <2>3. Left' \in Int /\ Left \in Int /\ room' \in Int
    <3>1. SP!TypeOK'
      BY <1>0, SenderInv DEF SP!Inv, SP!TypeInv
    <3>2. out_buffer_size' \in Nat /\ written' \in Nat /\ room' \in Nat
      BY <3>1, PartsAssumptions DEF SP!TypeOK, SP!OutBuffer
    <3> QED
      BY <1>3, <3>2 DEF Left
  <2>4. RP!Total' = RP!Total
    BY <2>1 DEF RP!Total
  <2> QED
    BY SMTT(20), <1>1, <1>3, <2>1, <2>2, <2>3, <2>4
<1>8. CASE \E n \in 1 .. SendBuffer : Deliver(n)
  <2>1. PICK n \in 1 .. SendBuffer : Deliver(n)
    BY <1>8
  <2>2. /\ UNCHANGED <<packets, start, out_buffer_size, written>>
        /\ n <= SendBuffer - room /\ room' = room + n
        /\ n <= RP!Total - arrived => arrived' = arrived + n
    BY <1>0, <2>1, DeliverArrives
  <2>3. Left \in Nat
    BY <1>1, <1>3 DEF Left
  <2>4. n <= RP!Total - arrived
    BY <1>1, <1>3, <2>2, <2>3
  <2>5. RP!Total' = RP!Total /\ Left' = Left
    BY <2>2 DEF RP!Total, Left
  <2> QED
    BY <1>1, <1>3, <2>2, <2>3, <2>4, <2>5
<1>9. ~Finish /\ ~Break
  BY DEF Finish, Break, Receiver!PeerFinishes, Receiver!PeerBreaks
<1> QED
  BY <1>5, <1>6, <1>7, <1>8, <1>9 DEF Next, SenderStep

(* A receiver that closes has a reason, and reads no more.                 *)
LEMMA ReceiverCloses ==
  ASSUME PairInv, [Next]_vars, receiver' = "closed"
  PROVE  \/ receiver = "closed" /\ processed' = processed
         \/ /\ UNCHANGED <<packets, processed, peer, torn>>
            /\ \/ peer = "broken"
               \/ peer = "finished" /\ Len(processed) = Len(packets)
               \/ torn
<1>0. SidesInv /\ RP!Inv /\ RP!TypeOK /\ AsDue
  BY DEF PairInv, SidesInv, RP!Inv
<1>1. CASE ~Receive
  <2>1. (\E size \in Payload : Accept(size)) \/ SenderAlone \/ UNCHANGED vars
          => UNCHANGED decoding
    BY DEF Accept, SenderAlone, vars, receiverVars
  <2>2. Encode => UNCHANGED <<receiver, processed>>
    BY DEF Encode, Receiver!PeerSends, receiverVars, decoding
  <2>3. Write => UNCHANGED decoding
    BY DEF Write
  <2>4. (\E n \in 1 .. SendBuffer : Deliver(n)) \/ Finish \/ Break
          => UNCHANGED <<receiver, processed>>
    BY DEF Deliver, Finish, Break, Receiver!Arrive, Receiver!PeerFinishes, Receiver!PeerBreaks
  <2>5. UNCHANGED <<receiver, processed>>
    BY <1>1, <2>1, <2>2, <2>3, <2>4 DEF Next, SenderStep, decoding
  <2> QED
    BY <2>5
<1>2. CASE Receive
  <2>1. UNCHANGED <<packets, peer, torn>>
    BY <1>2, ReceiveLeaves DEF senderVars, sendingState
  <2>2. /\ receiver # "closed" /\ processed' = processed
        /\ Receiver!ReadEnds \/ Receiver!ReadFails
             \/ Receiver!HeaderInvalid \/ Receiver!PayloadInvalid
    BY <1>2 DEF Receive, Receiver!ReadStep, Receiver!Poll, Receiver!ReadBytes,
      Receiver!ReadBlocks, Receiver!ReadEnds, Receiver!ReadFails, Receiver!HeaderIncomplete,
      Receiver!HeaderInvalid, Receiver!HeaderRead, Receiver!PayloadIncomplete,
      Receiver!PayloadInvalid, Receiver!PayloadRead, Receiver!ForHeader, Receiver!ForPayload,
      Receiver!ReadOn
  <2>3. CASE Receiver!ReadEnds
    <3>1. peer = "finished" /\ Len(processed) = Len(packets)
      BY <1>0, <2>3, ReceiverReads, RP!EndMeansAllReceived, PartsAssumptions
    <3> QED
      BY <2>1, <2>2, <3>1
  <2>4. CASE Receiver!ReadFails
    <3>1. peer = "broken"
      BY <2>4 DEF Receiver!ReadFails
    <3> QED
      BY <2>1, <2>2, <3>1
  <2>5. CASE Receiver!HeaderInvalid \/ Receiver!PayloadInvalid
    <3>1. Len(processed) # Len(packets) /\ packets[Len(processed) + 1] \notin RP!ValidPacket
      BY <1>0, <2>5, ReceiverReads, RP!InvalidMeansInvalid, PartsAssumptions DEF RP!Front
    <3>2. Len(processed) + 1 \in 1 .. Len(packets) /\ Len(packets) \in Nat
      BY <1>0, <3>1, RP!Typing, PartsAssumptions DEF RP!Inv, RP!DecoderInv, RP!InStep
    <3>3. Len(processed) + 1 \in 1 .. Len(Due)
      BY <1>0, <3>2, DueType DEF AsDue
    <3>4. Due[Len(processed) + 1] \in RP!ValidPacket
      BY <1>0, <3>3, DueValid
    <3>5. packets[Len(processed) + 1] # Due[Len(processed) + 1]
      BY <3>1, <3>4, Zenon
    <3>6. torn
      BY <1>0, <3>2, <3>5, Zenon DEF AsDue
    <3> QED
      BY <2>1, <2>2, <3>6, Zenon
  <2> QED
    BY <2>2, <2>3, <2>4, <2>5
<1> QED
  BY <1>1, <1>2

LEMMA ClosedStep ==
  ASSUME PairInv, [Next]_vars
  PROVE  ClosedInv'
<1> SUFFICES ASSUME receiver' = "closed", ~torn', peer' # "broken"
             PROVE  peer' = "finished" /\ Len(processed') = Len(packets')
  BY DEF ClosedInv
<1>0. SidesInv /\ ~torn /\ peer # "broken"
  <2>1. ~torn
    BY TornStays, Zenon
  <2>2. peer # "broken"
    BY PeerStays
  <2>3. SidesInv
    BY DEF PairInv
  <2> QED
    BY <2>1, <2>2, <2>3, Zenon
<1>1. CASE receiver = "closed" /\ processed' = processed
  <2>1. peer = "finished" /\ Len(processed) = Len(packets)
    BY <1>0, <1>1, Zenon DEF PairInv, ClosedInv
  <2>2. UNCHANGED <<peer, packets>>
    BY <1>0, <2>1, FinishedRests
  <2> QED
    BY <1>1, <2>1, <2>2
<1>2. CASE ~(receiver = "closed" /\ processed' = processed)
  <2>1. UNCHANGED <<packets, processed, peer>>
    BY <1>2, ReceiverCloses, Zenon
  <2>2. peer = "finished" /\ Len(processed) = Len(packets)
    BY <1>0, <1>2, ReceiverCloses, Zenon
  <2> QED
    BY <2>1, <2>2
<1> QED
  BY <1>1, <1>2

-----------------------------------------------------------------------------

LEMMA PairInit == Init => PairInv
<1> SUFFICES ASSUME Init PROVE PairInv
  OBVIOUS
<1>1. SP!Inv /\ SP!OrderInv /\ RP!Inv
  BY SenderOperators, ReceiverHears, SP!InvInit, SP!OrderInit, RP!InitInv, PartsAssumptions
    DEF Init
<1>2. /\ accepted = <<>> /\ message_queue = <<>> /\ out_buffer_size = 0 /\ peer = "open"
      /\ room = SendBuffer
  BY DEF Init, Sender!Init
<1>3. /\ packets = <<>> /\ start = <<0>> /\ arrived = 0 /\ receiver = "poll"
  BY DEF Init, Receiver!Init
<1>4. SidesInv
  BY <1>1, <1>2, PartsAssumptions DEF SidesInv
<1>5. SP!Taken = 0 /\ Fitting(0) = {} /\ Len(packets) = 0
  BY <1>2, <1>3 DEF SP!Taken, Fitting
<1>6. Handed
  BY <1>5, FS_EmptySet DEF Handed
<1>7. AsDue
  <2>1. Len(Due) \in Nat
    BY <1>4, DueType
  <2> QED
    BY <1>5, <2>1 DEF AsDue
<1>8. InBytes
  BY <1>2, <1>3, ConnectionPairAssumption DEF InBytes, Left, Receiver!Total
<1>9. ClosedInv
  BY <1>3 DEF ClosedInv
<1> QED
  BY <1>4, <1>6, <1>7, <1>8, <1>9 DEF PairInv

LEMMA PairStep ==
  ASSUME PairInv, [Next]_vars
  PROVE  PairInv'
<1>1. SidesInv'
  <2>1. SidesInv
    BY DEF PairInv
  <2> QED
    BY <2>1, SenderInv, ReceiverInv DEF SidesInv
<1> QED
  BY <1>1, HandedStep, AsDueStep, InBytesStep, ClosedStep DEF PairInv

LEMMA PairInvariant == Spec => []PairInv
BY PairInit, PairStep, PTL DEF Spec

(* What the receiver has processed are the first packets that are due.     *)
LEMMA ProcessedIsDue ==
  ASSUME PairInv
  PROVE  /\ Len(processed) \in Nat /\ Len(packets) \in Nat
         /\ Len(processed) <= Len(packets) /\ Len(packets) <= Len(Due)
         /\ processed = SubSeq(Due, 1, Len(processed))
<1>0. SidesInv /\ AsDue /\ RP!TypeOK /\ RP!InStep
  BY DEF PairInv, SidesInv, RP!Inv, RP!DecoderInv
<1>1. /\ Len(processed) \in Nat /\ Len(packets) \in Nat /\ processed \in Seq(Packet)
      /\ Len(processed) <= Len(packets) /\ Len(packets) <= Len(Due)
  BY <1>0, RP!Typing, PartsAssumptions DEF RP!TypeOK, RP!InStep, AsDue
<1>2. ASSUME NEW k \in 1 .. Len(processed)
      PROVE  processed[k] = Due[k]
  <2>1. k \in DOMAIN processed /\ k \in 1 .. Len(packets)
    BY <1>1
  <2>2. processed[k] = packets[k] /\ packets[k] \in RP!ValidPacket
    BY <1>0, <2>1 DEF RP!InStep
  <2> QED
    BY <1>0, <2>1, <2>2, Zenon DEF AsDue
<1>3. Due \in Seq(Packet) /\ Len(Due) \in Nat
  BY <1>0, DueType
<1> DEFINE first == SubSeq(Due, 1, Len(processed))
<1>4. /\ first \in Seq(Packet) /\ Len(first) = Len(processed)
      /\ \A k \in 1 .. Len(processed) : first[k] = Due[k]
  BY <1>1, <1>3
<1> HIDE DEF first
<1>5. processed = first
  BY <1>1, <1>2, <1>4
<1> QED
  BY <1>1, <1>5 DEF first

(* A connection loses nothing, repeats nothing and invents nothing: the    *)
(* messages one side processes are those the other side gave to            *)
(* send_message, from the first one on and in order, up to one that a      *)
(* short write tore, however the bytes were chunked and buffered.          *)
THEOREM SentIsProcessed == Spec => []EndToEnd
<1>1. PairInv => EndToEnd
  <2> SUFFICES ASSUME PairInv PROVE EndToEnd
    OBVIOUS
  <2>1. Len(Due) \in Nat
    BY DueType DEF PairInv
  <2> QED
    BY <2>1, ProcessedIsDue DEF EndToEnd
<1> QED
  BY <1>1, PairInvariant, PTL

(* A receiver closes the connection only for a torn packet, a broken line, *)
(* or because the sender has finished and it has processed everything.     *)
THEOREM ClosesWithReason == Spec => []ClosedForAReason
<1>1. PairInv => ClosedForAReason
  <2> SUFFICES ASSUME PairInv, receiver = "closed", ~torn, peer # "broken"
               PROVE  peer = "finished" /\ processed = Due
    BY DEF ClosedForAReason
  <2>0. SidesInv /\ Handed /\ SP!OrderInv
    BY DEF PairInv, SidesInv
  <2>1. peer = "finished" /\ Len(processed) = Len(packets)
    BY Zenon DEF PairInv, ClosedInv
  <2>2. message_queue = <<>>
    BY <2>0, <2>1 DEF SidesInv
  <2>3. SP!Taken = Len(accepted) /\ Len(accepted) \in Nat
    BY <2>0, <2>2, DueType DEF SP!Taken
  <2>4. Len(packets) = Len(Due)
    BY <2>0, <2>1, <2>3, DueType DEF Handed
  <2>5. Due \in Seq(Packet) /\ Len(Due) \in Nat
    BY <2>0, DueType
  <2>6. SubSeq(Due, 1, Len(Due)) = Due
    BY <2>5
  <2>7. processed = Due
    BY <2>1, <2>4, <2>6, ProcessedIsDue
  <2> QED
    BY <2>1, <2>7
<1> QED
  BY <1>1, PairInvariant, PTL
=============================================================================
