------------------------ MODULE TotalOrderBroadcast ------------------------
(***************************************************************************)
(* What the chat server promises of global chat messages, without threads, *)
(* channels or sockets.  Published messages form one log.  A member starts *)
(* somewhere in the log when it joins and from then on receives the log    *)
(* entry by entry: no gap, no duplicate, and the same order for everybody. *)
(***************************************************************************)
EXTENDS Integers, Sequences

CONSTANTS Member,   \* whoever may receive
          Message   \* whatever may be published

VARIABLES log,      \* every published message, in the one global order
          joined,   \* the members that receive now
          cursor,   \* how far into the log each of them has received
          inbox     \* what each member has received in its life

vars == <<log, joined, cursor, inbox>>

Init == /\ log = <<>>
        /\ joined = {}
        /\ cursor = [m \in Member |-> 0]
        /\ inbox = [m \in Member |-> <<>>]

Publish == /\ \E msg \in Message : log' = Append(log, msg)
           /\ UNCHANGED <<joined, cursor, inbox>>

(* A member may be shown messages that were published before it came but   *)
(* were still on their way: it joins at any position of the log.           *)
Join(m) == /\ m \notin joined
           /\ joined' = joined \union {m}
           /\ \E start \in 0..Len(log) : cursor' = [cursor EXCEPT ![m] = start]
           /\ UNCHANGED <<log, inbox>>

(* Members served by one thread receive in one step. *)
Receive(S) ==
  /\ S # {}
  /\ \A m \in S : cursor[m] < Len(log)
  /\ cursor' = [m \in Member |-> IF m \in S THEN cursor[m] + 1 ELSE cursor[m]]
  /\ inbox' = [m \in Member |->
                 IF m \in S THEN Append(inbox[m], log[cursor[m] + 1])
                            ELSE inbox[m]]
  /\ UNCHANGED <<log, joined>>

Leave(S) ==
  /\ S # {}
  /\ joined' = joined \ S
  /\ cursor' = [m \in Member |-> IF m \in S THEN 0 ELSE cursor[m]]
  /\ UNCHANGED <<log, inbox>>

Next == \/ Publish
        \/ \E m \in Member : Join(m)
        \/ \E S \in SUBSET joined : Receive(S) \/ Leave(S)

Spec == Init /\ [][Next]_vars
=============================================================================
