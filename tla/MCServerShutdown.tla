-------------------------- MODULE MCServerShutdown --------------------------
(***************************************************************************)
(* Stopping: Ctrl-C or a failing accept() at any moment, while two clients *)
(* connect, publish and leave.                                             *)
(***************************************************************************)
EXTENDS ChatServer

CONSTANTS c1, c2, alice

login(u) == [kind |-> "login", user |-> u]
global == [kind |-> "global"]
ping == [kind |-> "ping"]

MCPlans ==
  {[c \in Conn |-> IF c = c1 THEN <<login(alice), global>> ELSE <<ping>>]}
=============================================================================
