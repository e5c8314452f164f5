-------------------------- MODULE MCConnectionRead --------------------------
(***************************************************************************)
(* Small packets: a header of two bytes and at most three of payload.  The *)
(* smallest and the largest payload are there, and every reason to reject  *)
(* a packet.                                                               *)
(***************************************************************************)
EXTENDS ConnectionRead

packet(number, size) == [header |-> TRUE, number |-> number, size |-> size, body |-> number]

MCPacket == {
  packet(0, 1),
  packet(4, MAX_PAYLOAD),
  [packet(0, 2) EXCEPT !.header = FALSE],
  [packet(0, 2) EXCEPT !.body = 4],
  packet(0, 0),
  packet(0, MAX_PAYLOAD + 1) }
=============================================================================
