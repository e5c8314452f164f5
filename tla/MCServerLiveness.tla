-------------------------- MODULE MCServerLiveness --------------------------
(***************************************************************************)
(* Delivery in the end: two clients on two threads, who stay.              *)
(***************************************************************************)
EXTENDS ChatServer

CONSTANTS c1, c2, alice, bob

login(u) == [kind |-> "login", user |-> u]
private(u) == [kind |-> "private", to |-> u]
global == [kind |-> "global"]

(* Two global messages that race; then a private message whose addressee,  *)
(* on the other thread, changes its name.                                  *)
MCPlans ==
  { [c \in Conn |-> IF c = c1 THEN <<login(alice), global>>
                              ELSE <<login(bob), global>>],
    [c \in Conn |-> IF c = c1 THEN <<login(alice), login(bob)>>
                              ELSE <<login(bob), private(alice)>>] }
=============================================================================
