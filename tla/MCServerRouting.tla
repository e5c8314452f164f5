-------------------------- MODULE MCServerRouting --------------------------
(***************************************************************************)
(* Serving: three clients on two threads; nobody hangs up or stops it.    *)
(***************************************************************************)
EXTENDS ChatServer

CONSTANTS c1, c2, c3, alice, bob

login(u) == [kind |-> "login", user |-> u]
private(u) == [kind |-> "private", to |-> u]
global == [kind |-> "global"]

(* In the first plan two messages to all race each other, with a third     *)
(* client to see it.  In the second a request comes before the login, and  *)
(* a private message races with changes of name.  The third sends two      *)
(* private messages on the heels of each other.                            *)
MCPlans ==
  LET none == [c \in Conn |-> <<>>] IN
  { [none EXCEPT ![c1] = <<login(alice), global>>,
                 ![c2] = <<login(bob), global>>],
    [none EXCEPT ![c1] = <<login(bob), login(alice)>>,
                 ![c2] = <<global, login(alice), login(bob), private(alice)>>],
    [none EXCEPT ![c2] = <<login(bob), private(bob), private(bob)>>] }
=============================================================================
