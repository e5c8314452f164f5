--------------------------- MODULE MessageStream ---------------------------
(***************************************************************************)
(* What reading from a connection promises, without bytes and buffers: the *)
(* messages of the peer are received in the order they were sent, each of  *)
(* them once, up to the first one that is not valid; and the connection is *)
(* closed only for such a message, or because the peer has finished and    *)
(* everything was received, or because the line broke.                     *)
(***************************************************************************)
EXTENDS Integers, Sequences

CONSTANTS Message, ValidMessage

VARIABLES sent,     \* what the peer has sent
          received, \* what was received of it
          peer,     \* open, finished (no more will come) or broken
          status    \* open, or closed on this side

vars == <<sent, received, peer, status>>

Init == sent = <<>> /\ received = <<>> /\ peer = "open" /\ status = "open"

Send == /\ peer = "open"
        /\ \E m \in Message : sent' = Append(sent, m)
        /\ UNCHANGED <<received, peer, status>>

PeerEnds == /\ peer = "open"
            /\ peer' \in {"finished", "broken"}
            /\ UNCHANGED <<sent, received, status>>

AllReceived == Len(received) = Len(sent)
NextMessage == sent[Len(received) + 1]

Receive == /\ status = "open"
           /\ ~AllReceived /\ NextMessage \in ValidMessage
           /\ received' = Append(received, NextMessage)
           /\ UNCHANGED <<sent, peer, status>>

Close == /\ status = "open"
         /\ \/ peer = "broken"
            \/ peer = "finished" /\ AllReceived
            \/ ~AllReceived /\ NextMessage \notin ValidMessage
         /\ status' = "closed"
         /\ UNCHANGED <<sent, received, peer>>

Next == Send \/ PeerEnds \/ Receive \/ Close

Spec == Init /\ [][Next]_vars
=============================================================================
