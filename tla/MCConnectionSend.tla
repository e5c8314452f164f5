-------------------------- MODULE MCConnectionSend --------------------------
(***************************************************************************)
(* Packets of two to five bytes against a send buffer of three: a packet   *)
(* may go out at once, in two pieces, or in more.                          *)
(***************************************************************************)
EXTENDS ConnectionSend
=============================================================================
