-------------------------- MODULE MCConnectionPair --------------------------
(* Two messages: packets of two and four bytes, a payload that encode      *)
(* refuses and one that it does not survive, against a send buffer of two  *)
(* bytes.  Packets go out in one to three writes and arrive byte by byte   *)
(* or in larger pieces.                                                    *)
EXTENDS ConnectionPair
=============================================================================
