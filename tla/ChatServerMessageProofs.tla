---------------------- MODULE ChatServerMessageProofs -----------------------
(***************************************************************************)
(* Proofs about the messages of the server, for every number of threads,   *)
(* connections, users and plans.                                           *)
(*                                                                         *)
(* First, that the server implements the total order broadcast: also while *)
(* it is being shut down, and after a panic, every client receives the     *)
(* global messages in the one order in which main's channel took them,     *)
(* without gap or duplicate.                                               *)
(*                                                                         *)
(* Then, what reaches the clients: every message is one that was asked     *)
(* for, under the name its sender had then, and private messages reach     *)
(* their addressee once and in the order of their sender.                  *)
(***************************************************************************)
EXTENDS ChatServerProofs, SubsequenceProofs

USE DEF Kind

-----------------------------------------------------------------------------
(* The global messages of a queue *)

(* Only a global message adds to the global messages of a queue, and it    *)
(* does so at their end.                                                   *)
LEMMA GlobalsAppend ==
  ASSUME NEW S, NEW s \in Seq(S), NEW e \in S
  PROVE  Globals(Append(s, e)) =
           IF e.kind = "global" THEN Append(Globals(s), e) ELSE Globals(s)
<1> DEFINE I == GlobalsAt(s)
<1>1. I \in SUBSET (1 .. Len(s))
  BY DEF GlobalsAt
<1>2. GlobalsAt(Append(s, e)) = IF e.kind = "global" THEN I \union {Len(s) + 1} ELSE I
  BY DEF GlobalsAt
<1> HIDE DEF I
<1>3. /\ Selected(Append(s, e), I) = Selected(s, I)
      /\ Selected(Append(s, e), I \union {Len(s) + 1}) = Append(Selected(s, I), e)
  BY <1>1, SelectedAppend
<1> QED
  BY <1>2, <1>3 DEF Globals, I

-----------------------------------------------------------------------------
(* The inductive invariant.  The log is cut in three: what thread t has    *)
(* taken, then what lies in its channel, then, unless it is t's turn to    *)
(* get it still, the message main relays, and last what main's channel     *)
(* holds.  Every part holds the log's entries at its own place.            *)

ThreadKinds ==
  \A t \in Thread, k \in Kind : \A i \in 1 .. Len(tchan[t][k]) : tchan[t][k][i].kind = k

(* Main holds a message only while it relays it, or panicked doing so.     *)
Held ==
  fwd # None => mpc \in {"send", "wake", "panicked"} /\ fwd \in Event /\ fwd.kind \in Kind

(* How many of the global messages main has taken.                         *)
Forwarded == Len(log) - Len(mchan["global"])

MainInOrder ==
  /\ Forwarded \in Nat
  /\ \A i \in 1 .. Len(mchan["global"]) : mchan["global"][i] = log[Forwarded + i]
  /\ fwd # None /\ fwd.kind = "global" => Forwarded # 0 /\ fwd = log[Forwarded]

ThreadInOrder ==
  \A t \in Thread :
    /\ Taken(t) \in Nat
    /\ \A i \in 1 .. Len(tchan[t]["global"]) : tchan[t]["global"][i] = log[Taken(t) + i]

FlowInv == ThreadKinds /\ Held /\ MainInOrder /\ ThreadInOrder

(* A connection that a thread serves, or is to serve, has that thread for  *)
(* its home.                                                               *)
Homed == \A c \in Conn : stage[c] \in {"queued", "open"} => home[c] \in Thread

-----------------------------------------------------------------------------
(* The messages on their way *)

LEMMA ChannelTypes ==
  ASSUME TypeInv
  PROVE  /\ log \in Seq(Event) /\ Len(log) \in Nat
         /\ \A k \in Kind : mchan[k] \in Seq(Event) /\ Len(mchan[k]) \in Nat
         /\ \A t \in Thread, k \in Kind : tchan[t][k] \in Seq(Event) /\ Len(tchan[t][k]) \in Nat
         /\ fwdTo \in Thread /\ fwdTo \in Nat
         /\ Thread \subseteq Nat
         /\ mpc \in {"send", "wake"} => fwd # None
<1>1. log \in Seq(Event) /\ mchan \in [Kind -> Seq(Event)] /\ fwdTo \in Thread
  BY DEF TypeInv, TypeOK
<1>2. tchan \in [Thread -> [Kind -> Seq(Event)]]
  BY DEF TypeInv, TypeOK
<1>3. Thread \subseteq Nat
  BY ChatServerAssumption DEF Thread
<1>4. mpc \in {"send", "wake"} => fwd # None
  BY ChatServerAssumption DEF TypeInv, Relaying
<1> QED
  BY <1>1, <1>2, <1>3, <1>4

LEMMA InitFlow == Init => FlowInv /\ Homed
<1> SUFFICES ASSUME Init PROVE FlowInv /\ Homed
  OBVIOUS
<1>1. /\ log = <<>> /\ mchan["global"] = <<>> /\ fwd = None
      /\ \A t \in Thread, k \in Kind : tchan[t][k] = <<>>
      /\ \A c \in Conn : stage[c] = "new"
  BY DEF Init
<1>2. ThreadKinds /\ Held /\ Homed
  BY <1>1 DEF ThreadKinds, Held, Homed
<1>3. MainInOrder /\ ThreadInOrder
  BY <1>1 DEF MainInOrder, ThreadInOrder, Forwarded, Taken
<1> QED
  BY <1>2, <1>3 DEF FlowInv

(* Steps that leave the messages where they are.                           *)
LEMMA RestFlow ==
  ASSUME TypeInv, FlowInv, UNCHANGED <<mchan, fwd, fwdTo, tchan, log>>,
         mpc' = mpc \/ fwd = None \/ (mpc = "send" /\ mpc' = "panicked")
  PROVE  FlowInv' /\ \A t \in Thread : Taken(t)' = Taken(t)
<1>1. \A t \in Thread : Taken(t)' = Taken(t)
  BY DEF Taken
<1>2. ThreadKinds' /\ Held' /\ MainInOrder'
  BY DEF FlowInv, ThreadKinds, Held, MainInOrder, Forwarded
<1>3. ThreadInOrder'
  BY <1>1 DEF FlowInv, ThreadInOrder
<1> QED
  BY <1>1, <1>2, <1>3 DEF FlowInv

LEMMA TakeFlow ==
  ASSUME TypeInv, FlowInv, NEW k \in Kind, MainTake(k)
  PROVE  FlowInv' /\ \A t \in Thread : Taken(t)' = Taken(t)
<1>1. /\ mchan[k] \in Seq(Event) /\ mchan[k] # <<>> /\ fwd' = Head(mchan[k]) /\ fwdTo' = 0
      /\ mchan' = [mchan EXCEPT ![k] = Tail(mchan[k])] /\ mpc = k /\ mpc' = "send"
      /\ UNCHANGED <<tchan, log>>
  BY DEF MainTake, threads, TypeInv, TypeOK
<1>2. /\ fwd' = mchan[k][1] /\ fwd' \in Event /\ fwd'.kind = k
      /\ Tail(mchan[k]) \in Seq(Event) /\ Len(Tail(mchan[k])) = Len(mchan[k]) - 1
      /\ \A i \in 1 .. Len(Tail(mchan[k])) :
           Tail(mchan[k])[i] = mchan[k][i + 1] /\ i + 1 \in 1 .. Len(mchan[k])
      /\ 1 \in 1 .. Len(mchan[k]) /\ Len(mchan[k]) \in Nat
  <2>1. 1 \in 1 .. Len(mchan[k])
    BY <1>1
  <2>2. mchan[k][1].kind = k
    BY <2>1 DEF TypeInv, ChannelKinds
  <2> QED
    BY <1>1, <2>1, <2>2
<1>3. mchan \in [Kind -> Seq(Event)] /\ fwd = None /\ fwd' # None
  BY <1>1, <1>2, ChatServerAssumption DEF TypeInv, TypeOK, FlowInv, Held
<1>4. ThreadKinds' /\ Held'
  BY <1>1, <1>2 DEF FlowInv, ThreadKinds, Held
<1>5. /\ k # "global" => mchan'["global"] = mchan["global"]
      /\ k = "global" => mchan'["global"] = Tail(mchan["global"])
  BY <1>1, <1>3
<1>6. MainInOrder'
  <2>1. CASE k # "global"
    BY <1>1, <1>2, <1>5, <2>1 DEF FlowInv, MainInOrder, Forwarded
  <2>2. CASE k = "global"
    <3> DEFINE old == mchan["global"]
    <3>0. /\ old \in Seq(Event) /\ Len(old) \in Nat /\ Len(log) \in Nat
          /\ mchan'["global"] = Tail(old) /\ Len(Tail(old)) = Len(old) - 1
          /\ \A i \in 1 .. Len(Tail(old)) : Tail(old)[i] = old[i + 1] /\ i + 1 \in 1 .. Len(old)
      BY <1>2, <1>5, <2>2, ChannelTypes
    <3>1. Forwarded' = Forwarded + 1 /\ Forwarded \in Nat
      <4>1. Forwarded \in Nat
        BY DEF FlowInv, MainInOrder
      <4>2. Forwarded' = Len(log) - (Len(old) - 1) /\ Forwarded = Len(log) - Len(old)
        BY <1>1, <3>0 DEF Forwarded
      <4> HIDE DEF old
      <4> QED
        BY <3>0, <4>1, <4>2
    <3>2. fwd' = log[Forwarded + 1]
      BY <1>2, <2>2 DEF FlowInv, MainInOrder
    <3>3. ASSUME NEW i \in 1 .. Len(mchan'["global"])
          PROVE  mchan'["global"][i] = log[Forwarded + 1 + i]
      <4>1. /\ i \in 1 .. Len(Tail(mchan["global"])) /\ i \in Nat
            /\ mchan'["global"][i] = mchan["global"][i + 1]
            /\ i + 1 \in 1 .. Len(mchan["global"])
        BY <3>0, <3>3
      <4>2. mchan["global"][i + 1] = log[Forwarded + (i + 1)]
        BY <4>1 DEF FlowInv, MainInOrder
      <4>3. Forwarded + (i + 1) = Forwarded + 1 + i
        BY <3>1, <4>1
      <4> QED
        BY <4>1, <4>2, <4>3
    <3> QED
      BY <1>1, <3>1, <3>2, <3>3 DEF MainInOrder
  <2> QED
    BY <2>1, <2>2
<1>7. ASSUME NEW t \in Thread
      PROVE  Taken(t)' = Taken(t)
  <2>1. t \in Nat
    BY ChannelTypes
  <2>2. t > fwdTo' \/ t = fwdTo'
    BY <1>1, <2>1
  <2>3. Len(log) \in Nat /\ Len(mchan["global"]) \in Nat /\ Len(tchan[t]["global"]) \in Nat
    BY ChannelTypes
  <2>4. CASE k = "global"
    <3>1. Len(mchan'["global"]) = Len(mchan["global"]) - 1
      BY <1>2, <1>5, <2>4
    <3> QED
      BY <1>1, <1>2, <1>3, <2>2, <2>3, <2>4, <3>1 DEF Taken
  <2>5. CASE k # "global"
    BY <1>1, <1>2, <1>3, <1>5, <2>3, <2>5 DEF Taken
  <2> QED
    BY <2>4, <2>5
<1>8. ThreadInOrder'
  BY <1>1, <1>7 DEF FlowInv, ThreadInOrder
<1> QED
  BY <1>4, <1>6, <1>7, <1>8 DEF FlowInv

LEMMA SendFlow ==
  ASSUME TypeInv, FlowInv, MainSend
  PROVE  FlowInv' /\ \A t \in Thread : Taken(t)' = Taken(t)
<1>1. /\ mpc = "send" /\ mpc' = "wake" /\ fwdTo \in Thread /\ fwd # None
      /\ fwd \in Event /\ fwd.kind \in Kind
      /\ tchan' = [tchan EXCEPT ![fwdTo][fwd.kind] = Append(@, fwd)]
      /\ tchan \in [Thread -> [Kind -> Seq(Event)]]
      /\ UNCHANGED <<mchan, fwd, fwdTo, log>>
  BY ChannelTypes DEF MainSend, TypeInv, TypeOK, Relaying
<1> DEFINE old == tchan[fwdTo][fwd.kind]
<1>2. /\ old \in Seq(Event) /\ tchan'[fwdTo][fwd.kind] = Append(old, fwd)
      /\ \A t \in Thread, k \in Kind :
           t # fwdTo \/ k # fwd.kind => tchan'[t][k] = tchan[t][k]
  BY <1>1
<1>3. /\ Len(Append(old, fwd)) = Len(old) + 1 /\ Len(old) \in Nat
      /\ \A i \in 1 .. Len(old) : Append(old, fwd)[i] = old[i]
      /\ Append(old, fwd)[Len(old) + 1] = fwd
  BY <1>1, <1>2
<1>4. ThreadKinds'
  <2> SUFFICES ASSUME NEW t \in Thread, NEW k \in Kind, NEW i \in 1 .. Len(tchan'[t][k])
               PROVE  tchan'[t][k][i].kind = k
    BY DEF ThreadKinds
  <2>1. CASE t # fwdTo \/ k # fwd.kind
    BY <1>2, <2>1 DEF FlowInv, ThreadKinds
  <2>2. CASE t = fwdTo /\ k = fwd.kind
    <3>1. i \in 1 .. Len(old) \/ i = Len(old) + 1
      BY SMTT(20), <1>2, <1>3, <2>2
    <3>2. \A j \in 1 .. Len(old) : old[j].kind = k
      BY <1>1, <2>2 DEF FlowInv, ThreadKinds
    <3> QED
      BY <1>2, <1>3, <2>2, <3>1, <3>2
  <2> QED
    BY <2>1, <2>2
<1>5. Held' /\ MainInOrder'
  BY <1>1 DEF FlowInv, Held, MainInOrder, Forwarded
<1>6. ASSUME NEW t \in Thread
      PROVE  Taken(t)' = Taken(t)
  <2>1. Len(log) \in Nat /\ Len(mchan["global"]) \in Nat /\ Len(tchan[t]["global"]) \in Nat
        /\ t \in Nat /\ fwdTo \in Nat
    BY ChannelTypes
  <2>2. CASE fwd.kind = "global" /\ t = fwdTo
    <3>1. Len(tchan'[t]["global"]) = Len(tchan[t]["global"]) + 1
      BY <1>2, <1>3, <2>2
    <3>2. Taken(t) = Len(log) - Len(mchan["global"]) - Len(tchan[t]["global"]) - 1
      BY <1>1, <2>1, <2>2 DEF Taken
    <3>3. Taken(t)' = Len(log) - Len(mchan["global"]) - Len(tchan'[t]["global"])
      BY <1>1, <2>1, <2>2, <3>1 DEF Taken
    <3> QED
      BY <2>1, <3>1, <3>2, <3>3
  <2>3. CASE ~(fwd.kind = "global" /\ t = fwdTo)
    <3>1. tchan'[t]["global"] = tchan[t]["global"]
      BY <1>2, <2>3
    <3> QED
      BY <1>1, <2>1, <2>3, <3>1 DEF Taken
  <2> QED
    BY <2>2, <2>3
<1>7. ThreadInOrder'
  <2> SUFFICES ASSUME NEW t \in Thread
               PROVE  \A i \in 1 .. Len(tchan'[t]["global"]) :
                        tchan'[t]["global"][i] = log[Taken(t) + i]
    BY <1>1, <1>6 DEF FlowInv, ThreadInOrder
  <2>1. CASE ~(fwd.kind = "global" /\ t = fwdTo)
    <3>1. tchan'[t]["global"] = tchan[t]["global"]
      BY <1>2, <2>1
    <3> QED
      BY <3>1 DEF FlowInv, ThreadInOrder
  <2>2. CASE fwd.kind = "global" /\ t = fwdTo
    <3>1. Len(log) \in Nat /\ Len(mchan["global"]) \in Nat
      BY ChannelTypes
    <3>5. Taken(t) = Len(log) - Len(mchan["global"]) - Len(old) - 1
      BY <1>1, <1>3, <2>2, <3>1 DEF Taken
    <3>2. Taken(t) + (Len(old) + 1) = Forwarded
      <4>1. Len(old) \in Nat /\ Forwarded = Len(log) - Len(mchan["global"])
        BY <1>3 DEF Forwarded
      <4> HIDE DEF old
      <4> QED
        BY <3>1, <3>5, <4>1
    <3>3. fwd = log[Taken(t) + (Len(old) + 1)]
      BY <1>1, <2>2, <3>2 DEF FlowInv, MainInOrder
    <3>4. \A i \in 1 .. Len(old) : old[i] = log[Taken(t) + i]
      BY <2>2 DEF FlowInv, ThreadInOrder
    <3>6. tchan'[t]["global"] = Append(old, fwd)
      BY <1>2, <2>2
    <3> HIDE DEF old
    <3> SUFFICES ASSUME NEW i \in 1 .. Len(Append(old, fwd))
                 PROVE  Append(old, fwd)[i] = log[Taken(t) + i]
      BY <3>6
    <3>7. i \in 1 .. Len(old) \/ i = Len(old) + 1
      BY <1>3
    <3> QED
      BY <1>3, <3>3, <3>4, <3>7
  <2> QED
    BY <2>1, <2>2
<1> QED
  BY <1>4, <1>5, <1>6, <1>7 DEF FlowInv

LEMMA WakeFlow ==
  ASSUME TypeInv, FlowInv, MainWake
  PROVE  FlowInv' /\ \A t \in Thread : Taken(t)' = Taken(t)
<1>1. /\ mpc = "wake" /\ fwd # None /\ fwdTo \in Nat /\ ThreadAmount \in Nat
      /\ fwd \in Event /\ fwd.kind \in Kind
      /\ UNCHANGED <<mchan, tchan, log>>
      /\ \/ fwdTo + 1 < ThreadAmount /\ fwdTo' = fwdTo + 1 /\ mpc' = "send" /\ fwd' = fwd
         \/ ~(fwdTo + 1 < ThreadAmount) /\ fwd' = None
  BY ChannelTypes, ChatServerAssumption DEF MainWake, TypeInv, TypeOK, Relaying
<1>2. ASSUME NEW t \in Thread
      PROVE  Taken(t)' = Taken(t)
  <2>1. t \in Nat /\ t < ThreadAmount
    BY ChatServerAssumption DEF Thread
  <2>2. CASE fwdTo + 1 < ThreadAmount
    BY <1>1, <2>1, <2>2 DEF Taken
  <2>3. CASE ~(fwdTo + 1 < ThreadAmount)
    <3>1. ~(t > fwdTo)
      BY <1>1, <2>1, <2>3
    <3> QED
      BY <1>1, <2>3, <3>1 DEF Taken
  <2> QED
    BY <2>2, <2>3
<1>3. ThreadKinds' /\ Held' /\ MainInOrder'
  BY <1>1 DEF FlowInv, ThreadKinds, Held, MainInOrder, Forwarded
<1>4. ThreadInOrder'
  BY <1>1, <1>2 DEF FlowInv, ThreadInOrder
<1> QED
  BY <1>2, <1>3, <1>4 DEF FlowInv

(* What a thread has taken, and what lies in its channel, main has taken.  *)
LEMMA TakenBound ==
  ASSUME TypeInv, FlowInv, NEW t \in Thread
  PROVE  /\ Taken(t) \in Nat /\ Taken(t) + Len(tchan[t]["global"]) <= Forwarded
         /\ Forwarded \in Nat /\ Forwarded + Len(mchan["global"]) = Len(log)
<1>1. Len(log) \in Nat /\ Len(mchan["global"]) \in Nat /\ Len(tchan[t]["global"]) \in Nat
  BY ChannelTypes
<1>2. Taken(t) \in Nat /\ Forwarded \in Nat
  BY DEF FlowInv, ThreadInOrder, MainInOrder
<1>3. Taken(t) + Len(tchan[t]["global"]) <= Forwarded
  BY <1>1 DEF Taken, Forwarded
<1> QED
  BY <1>1, <1>2, <1>3 DEF Forwarded

LEMMA DeliverFlow ==
  ASSUME TypeInv, FlowInv, NEW t \in Thread, NEW k \in Kind, ThreadTake(t, k)
  PROVE  /\ FlowInv'
         /\ Head(tchan[t][k]) \in Event /\ Head(tchan[t][k]).kind = k
         /\ \A u \in Thread :
              Taken(u)' = IF u = t /\ k = "global" THEN Taken(u) + 1 ELSE Taken(u)
         /\ k = "global" => Taken(t) < Len(log) /\ Head(tchan[t][k]) = log[Taken(t) + 1]
<1> DEFINE old == tchan[t][k]
<1>1. /\ old \in Seq(Event) /\ old # <<>>
      /\ tchan' = [tchan EXCEPT ![t][k] = Tail(old)]
      /\ tchan \in [Thread -> [Kind -> Seq(Event)]]
      /\ UNCHANGED <<mpc, mchan, fwd, fwdTo, log>>
  BY DEF ThreadTake, mainvars, TypeInv, TypeOK
<1>2. /\ 1 \in 1 .. Len(old) /\ Head(old) = old[1] /\ Head(old) \in Event
      /\ Len(old) \in Nat /\ Len(Tail(old)) = Len(old) - 1 /\ Tail(old) \in Seq(Event)
      /\ \A i \in 1 .. Len(Tail(old)) : Tail(old)[i] = old[i + 1] /\ i + 1 \in 1 .. Len(old)
  <2>1. 1 \in 1 .. Len(old)
    BY <1>1
  <2> HIDE DEF old
  <2> QED
    BY <1>1, <2>1
<1>3. /\ tchan'[t][k] = Tail(old)
      /\ \A u \in Thread, h \in Kind : u # t \/ h # k => tchan'[u][h] = tchan[u][h]
  BY <1>1
<1>4. \A i \in 1 .. Len(old) : old[i].kind = k
  BY DEF FlowInv, ThreadKinds
<1>5. ThreadKinds'
  <2> SUFFICES ASSUME NEW u \in Thread, NEW h \in Kind, NEW i \in 1 .. Len(tchan'[u][h])
               PROVE  tchan'[u][h][i].kind = h
    BY DEF ThreadKinds
  <2>1. CASE u # t \/ h # k
    BY <1>3, <2>1 DEF FlowInv, ThreadKinds
  <2>2. CASE u = t /\ h = k
    <3>1. i \in 1 .. Len(Tail(old)) /\ tchan'[u][h][i] = Tail(old)[i]
      BY <1>3, <2>2
    <3> HIDE DEF old
    <3> QED
      BY <1>2, <1>4, <2>2, <3>1
  <2> QED
    BY <2>1, <2>2
<1>6. Held' /\ MainInOrder'
  BY <1>1 DEF FlowInv, Held, MainInOrder, Forwarded
<1>7. ASSUME NEW u \in Thread
      PROVE  Taken(u)' = IF u = t /\ k = "global" THEN Taken(u) + 1 ELSE Taken(u)
  <2>1. Len(log) \in Nat /\ Len(mchan["global"]) \in Nat /\ Len(tchan[u]["global"]) \in Nat
    BY ChannelTypes
  <2>2. CASE ~(u = t /\ k = "global")
    <3>1. tchan'[u]["global"] = tchan[u]["global"]
      BY <1>3, <2>2
    <3> QED
      BY <1>1, <2>2, <3>1 DEF Taken
  <2>3. CASE u = t /\ k = "global"
    <3>1. Len(tchan'[u]["global"]) = Len(tchan[u]["global"]) - 1
      BY <1>2, <1>3, <2>3
    <3> DEFINE due == IF fwd # None /\ fwd.kind = "global"
                         /\ (u > fwdTo \/ (u = fwdTo /\ mpc \in {"send", "panicked"}))
                      THEN 1 ELSE 0
    <3>2. /\ Taken(u) = Len(log) - Len(mchan["global"]) - Len(tchan[u]["global"]) - due
          /\ Taken(u)' = Len(log) - Len(mchan["global"]) - Len(tchan'[u]["global"]) - due
      BY <1>1 DEF Taken
    <3>3. due \in Nat
      OBVIOUS
    <3> HIDE DEF due
    <3> QED
      BY <2>1, <2>3, <3>1, <3>2, <3>3
  <2> QED
    BY <2>2, <2>3
<1>8. ThreadInOrder'
  <2> SUFFICES ASSUME NEW u \in Thread
               PROVE  /\ Taken(u)' \in Nat
                      /\ \A i \in 1 .. Len(tchan'[u]["global"]) :
                           tchan'[u]["global"][i] = log[Taken(u)' + i]
    BY <1>1 DEF ThreadInOrder
  <2>0. Taken(u) \in Nat
    BY TakenBound
  <2>1. CASE ~(u = t /\ k = "global")
    <3>1. tchan'[u]["global"] = tchan[u]["global"]
      BY <1>3, <2>1
    <3> QED
      BY <1>7, <2>0, <2>1, <3>1 DEF FlowInv, ThreadInOrder
  <2>2. CASE u = t /\ k = "global"
    <3>1. tchan'[u]["global"] = Tail(old) /\ Taken(u)' = Taken(u) + 1
      BY <1>3, <1>7, <2>2
    <3>2. ASSUME NEW i \in 1 .. Len(Tail(old))
          PROVE  Tail(old)[i] = log[(Taken(u) + 1) + i]
      <4>1. i \in Nat /\ Tail(old)[i] = old[i + 1] /\ i + 1 \in 1 .. Len(old)
        BY <1>2
      <4>2. old[i + 1] = log[Taken(u) + (i + 1)]
        BY <2>2, <4>1 DEF FlowInv, ThreadInOrder
      <4>3. Taken(u) + (i + 1) = (Taken(u) + 1) + i
        BY <2>0, <4>1
      <4> QED
        BY <4>1, <4>2, <4>3
    <3> HIDE DEF old
    <3> QED
      BY <2>0, <3>1, <3>2
  <2> QED
    BY <2>1, <2>2
<1>9. ASSUME k = "global"
      PROVE  Taken(t) < Len(log) /\ Head(old) = log[Taken(t) + 1]
  <2>1. old[1] = log[Taken(t) + 1]
    BY <1>2, <1>9 DEF FlowInv, ThreadInOrder
  <2>2. Taken(t) + Len(old) <= Forwarded /\ Forwarded <= Len(log) /\ Len(old) # 0
    BY <1>2, <1>9, TakenBound, ChannelTypes
  <2>3. Taken(t) \in Nat /\ Forwarded \in Nat /\ Len(log) \in Nat
    BY TakenBound, ChannelTypes
  <2> HIDE DEF old
  <2> QED
    BY <1>2, <2>1, <2>2, <2>3
<1> QED
  BY <1>2, <1>4, <1>5, <1>6, <1>7, <1>8, <1>9 DEF FlowInv

(* What a thread publishes.                                                *)
LEMMA PublishedMessage ==
  ASSUME TypeInv, NEW t \in Thread, PublishSend(t)
  PROVE  LET e == MessageOf(reading[t], NextRequest(t)) IN
         /\ e \in Event /\ e.kind \in Kind
         /\ e.kind = "global" => e \in GlobalChatMessage
<1> DEFINE r == NextRequest(t)
           c == reading[t]
           e == MessageOf(c, r)
<1>1. Reads(t, Kind) /\ Reads(t, Kind \union {"ping"}) /\ user_name[c] # None
  BY DEF PublishSend, Reads
<1>2. c \in Conn /\ r \in Request /\ r.kind \in Kind /\ e \in Event
  BY <1>1, RequestType, MessageType
<1>3. e.kind = r.kind
  BY <1>2 DEF MessageOf
<1>4. user_name[c] \in User
  BY <1>1, <1>2 DEF TypeInv, TypeOK
<1>5. plan \in Plans /\ plan[c] \in Seq(Request) /\ done[c] \in Nat
  BY <1>2, ChatServerAssumption DEF TypeInv, TypeOK
<1>6. done[c] + 1 \in DOMAIN plan[c]
  BY <1>1, <1>5 DEF Reads
<1>7. done[c] + 1 \in UNION {DOMAIN p[d] : p \in Plans, d \in Conn}
  BY <1>2, <1>5, <1>6
<1>8. e.kind = "global" => e \in GlobalChatMessage
  BY <1>2, <1>3, <1>4, <1>7 DEF MessageOf, GlobalChatMessage
<1> QED
  BY <1>2, <1>3, <1>8

LEMMA PublishFlow ==
  ASSUME TypeInv, FlowInv, NEW t \in Thread, PublishSend(t)
  PROVE  FlowInv' /\ \A u \in Thread : Taken(u)' = Taken(u)
<1> DEFINE e == MessageOf(reading[t], NextRequest(t))
<1>1. e \in Event /\ e.kind \in Kind
  BY PublishedMessage
<1>2. /\ mchan' = [mchan EXCEPT ![e.kind] = Append(@, e)]
      /\ log' = IF e.kind = "global" THEN Append(log, e) ELSE log
      /\ UNCHANGED <<mpc, fwd, fwdTo, tchan>>
  BY DEF PublishSend
<1> HIDE DEF e
<1> DEFINE old == mchan["global"]
<1>3. /\ old \in Seq(Event) /\ log \in Seq(Event) /\ Len(old) \in Nat /\ Len(log) \in Nat
      /\ mchan \in [Kind -> Seq(Event)]
  BY ChannelTypes DEF TypeInv, TypeOK
<1>4. Forwarded \in Nat /\ Forwarded + Len(old) = Len(log)
  BY <1>3 DEF FlowInv, MainInOrder, Forwarded
<1>5. \A i \in 1 .. Len(log) : log'[i] = log[i]
  BY <1>1, <1>2, <1>3
<1>6. Forwarded' = Forwarded /\ Len(log') - Len(mchan'["global"]) = Forwarded
  <2>1. CASE e.kind = "global"
    <3>1. Len(log') = Len(log) + 1 /\ Len(mchan'["global"]) = Len(old) + 1
      BY <1>1, <1>2, <1>3, <2>1
    <3>2. Forwarded' = Len(log') - Len(mchan'["global"]) /\ Forwarded = Len(log) - Len(old)
      BY DEF Forwarded
    <3> HIDE DEF old
    <3> QED
      BY <1>3, <3>1, <3>2
  <2>2. CASE e.kind # "global"
    BY <1>1, <1>2, <1>3, <2>2 DEF Forwarded
  <2> QED
    BY <2>1, <2>2
<1>7. ThreadKinds' /\ Held'
  BY <1>2 DEF FlowInv, ThreadKinds, Held
<1>8. MainInOrder'
  <2>1. fwd # None /\ fwd.kind = "global" => Forwarded # 0 /\ fwd = log'[Forwarded]
    <3>1. Forwarded # 0 => Forwarded \in 1 .. Len(log)
      BY <1>3, <1>4
    <3> QED
      BY <1>5, <3>1 DEF FlowInv, MainInOrder
  <2>2. ASSUME NEW i \in 1 .. Len(mchan'["global"])
        PROVE  mchan'["global"][i] = log'[Forwarded + i]
    <3>1. ASSUME i \in 1 .. Len(old), mchan'["global"][i] = old[i]
          PROVE  mchan'["global"][i] = log'[Forwarded + i]
      <4>1. Forwarded + i \in 1 .. Len(log)
        BY <1>3, <1>4, <3>1
      <4> QED
        BY <1>5, <3>1, <4>1 DEF FlowInv, MainInOrder
    <3>2. CASE e.kind # "global"
      <4>1. mchan'["global"] = old
        BY <1>1, <1>2, <1>3, <3>2
      <4> QED
        BY <3>1, <4>1
    <3>3. CASE e.kind = "global"
      <4>1. mchan'["global"] = Append(old, e) /\ log' = Append(log, e)
        BY <1>1, <1>2, <1>3, <3>3
      <4> HIDE DEF old
      <4>2. i \in 1 .. Len(old) \/ i = Len(old) + 1
        BY <1>3, <4>1
      <4>3. CASE i \in 1 .. Len(old)
        <5>1. mchan'["global"][i] = old[i]
          BY <1>1, <1>3, <4>1, <4>3
        <5> QED
          BY <3>1, <4>3, <5>1
      <4>4. CASE i = Len(old) + 1
        <5>1. Forwarded + i = Len(log) + 1
          <6>1. Len(log) \in Nat /\ Len(old) \in Nat
            BY <1>3
          <6> QED
            BY <1>4, <4>4, <6>1
        <5>2. mchan'["global"][i] = e
          BY <1>1, <1>3, <4>1, <4>4
        <5>3. log'[Len(log) + 1] = e
          BY <1>1, <1>3, <4>1
        <5> QED
          BY <5>1, <5>2, <5>3
      <4> QED
        BY <4>2, <4>3, <4>4
    <3> QED
      BY <3>2, <3>3
  <2> QED
    BY <1>2, <1>4, <1>6, <2>1, <2>2 DEF MainInOrder
<1>9. ASSUME NEW u \in Thread
      PROVE  Taken(u)' = Taken(u)
  BY <1>2, <1>6 DEF Taken, Forwarded
<1>10. ThreadInOrder'
  <2> SUFFICES ASSUME NEW u \in Thread
               PROVE  /\ Taken(u) \in Nat
                      /\ \A i \in 1 .. Len(tchan[u]["global"]) :
                           tchan[u]["global"][i] = log'[Taken(u) + i]
    BY <1>2, <1>9 DEF ThreadInOrder
  <2>1. Taken(u) \in Nat /\ Taken(u) + Len(tchan[u]["global"]) <= Len(log)
    <3>1. /\ Taken(u) \in Nat /\ Len(tchan[u]["global"]) \in Nat
          /\ Taken(u) + Len(tchan[u]["global"]) <= Forwarded
      BY TakenBound, ChannelTypes
    <3>2. Len(old) \in Nat /\ Len(log) \in Nat
      BY <1>3
    <3> HIDE DEF old
    <3> QED
      BY <1>4, <3>1, <3>2
  <2>2. \A i \in 1 .. Len(tchan[u]["global"]) : Taken(u) + i \in 1 .. Len(log)
    BY <1>3, <2>1, ChannelTypes
  <2> QED
    BY <1>5, <2>1, <2>2 DEF FlowInv, ThreadInOrder
<1> QED
  BY <1>7, <1>8, <1>9, <1>10 DEF FlowInv

-----------------------------------------------------------------------------
(* What each kind of step means to the broadcast *)

(* The connections in S are no longer open, and nothing else happens that  *)
(* the broadcast knows of.                                                 *)
Closing(S) ==
  /\ UNCHANGED log
  /\ \A c \in Conn : stage'[c] = "open" <=> stage[c] = "open" /\ c \notin S
  /\ \A c \in Conn : stage[c] = "open" => home'[c] = home[c]
  /\ \A c \in Conn : Globals(outbox'[c]) = Globals(outbox[c])
  /\ \A t \in Thread : Taken(t)' = Taken(t)

LEMMA ClosingLeaves ==
  ASSUME Homed, NEW S, Closing(S)
  PROVE  [Broadcast!Next]_(Broadcast!vars)
<1> DEFINE joined == {c \in Conn : stage[c] = "open"}
           cursor == [c \in Conn |-> IF stage[c] = "open" THEN Taken(home[c]) ELSE 0]
           inbox == [c \in Conn |-> Globals(outbox[c])]
<1>1. log' = log /\ inbox' = inbox
  BY DEF Closing
<1>2. joined' = joined \ (S \cap joined)
  BY DEF Closing
<1>3. cursor' = [c \in Conn |-> IF c \in S \cap joined THEN 0 ELSE cursor[c]]
  <2>1. \A c \in Conn : stage[c] = "open" => Taken(home[c])' = Taken(home[c])
    BY DEF Closing, Homed, Taken
  <2> QED
    BY <2>1 DEF Closing
<1>4. CASE S \cap joined = {}
  <2>1. joined' = joined /\ cursor' = cursor
    BY <1>2, <1>3, <1>4
  <2> QED
    BY <1>1, <2>1 DEF Broadcast!vars
<1>5. CASE S \cap joined # {}
  BY <1>1, <1>2, <1>3, <1>5 DEF Broadcast!Next, Broadcast!Leave
<1> QED
  BY <1>4, <1>5

LEMMA AdoptJoins ==
  ASSUME TypeInv, FlowInv, Homed, NEW t \in Thread, NEW c \in Conn, ThreadAdopt(t, c)
  PROVE  FlowInv' /\ Homed' /\ [Broadcast!Next]_(Broadcast!vars)
<1> DEFINE joined == {d \in Conn : stage[d] = "open"}
           cursor == [d \in Conn |-> IF stage[d] = "open" THEN Taken(home[d]) ELSE 0]
           inbox == [d \in Conn |-> Globals(outbox[d])]
<1>1. /\ home[c] = t /\ stage[c] = "queued" /\ stage' = [stage EXCEPT ![c] = "open"]
      /\ stage \in [Conn -> {"new", "backlog", "queued", "open", "gone"}]
      /\ UNCHANGED <<home, outbox, mpc, mchan, fwd, fwdTo, tchan, log>>
  BY DEF ThreadAdopt, mainvars, threads, TypeInv, TypeOK
<1>2. FlowInv' /\ \A u \in Thread : Taken(u)' = Taken(u)
  BY <1>1, RestFlow
<1>3. Homed'
  BY <1>1 DEF Homed
<1>4. Taken(t) \in 0 .. Len(log)
  <2>1. /\ Len(log) \in Nat /\ Len(tchan[t]["global"]) \in Nat /\ Len(mchan["global"]) \in Nat
    BY ChannelTypes
  <2> QED
    BY <2>1, TakenBound
<1>5. log' = log /\ inbox' = inbox /\ joined' = joined \union {c} /\ c \notin joined
  BY <1>1
<1>6. cursor' = [cursor EXCEPT ![c] = Taken(t)]
  <2>1. \A d \in Conn : stage'[d] = "open" => home[d] \in Thread
    BY <1>1, <1>3 DEF Homed
  <2>2. \A d \in Conn : stage'[d] = "open" => Taken(home[d])' = Taken(home[d])
    BY <1>1, <1>2, <2>1 DEF Taken
  <2> QED
    BY <1>1, <2>2
<1> QED
  BY <1>2, <1>3, <1>4, <1>5, <1>6 DEF Broadcast!Next, Broadcast!Join

LEMMA DeliveryReceives ==
  ASSUME TypeInv, FlowInv, Homed, NEW t \in Thread, NEW k \in Kind, ThreadTake(t, k)
  PROVE  FlowInv' /\ Homed' /\ [Broadcast!Next]_(Broadcast!vars)
<1> DEFINE e == Head(tchan[t][k])
           joined == {c \in Conn : stage[c] = "open"}
           cursor == [c \in Conn |-> IF stage[c] = "open" THEN Taken(home[c]) ELSE 0]
           inbox == [c \in Conn |-> Globals(outbox[c])]
<1>1. /\ FlowInv' /\ e \in Event /\ e.kind = k
      /\ \A u \in Thread :
           Taken(u)' = IF u = t /\ k = "global" THEN Taken(u) + 1 ELSE Taken(u)
      /\ k = "global" => Taken(t) < Len(log) /\ e = log[Taken(t) + 1]
  BY DeliverFlow
<1>2. /\ outbox' = [c \in Conn |->
                    IF c \in Receivers(t, e) THEN Append(outbox[c], e) ELSE outbox[c]]
      /\ outbox \in [Conn -> Seq(Event)]
      /\ UNCHANGED <<stage, home, log>>
  BY DEF ThreadTake, TypeInv, TypeOK
<1> HIDE DEF e
<1>3. Homed'
  BY <1>2 DEF Homed
<1>4. \A c \in Conn : Globals(Append(outbox[c], e)) =
                       IF k = "global" THEN Append(Globals(outbox[c]), e) ELSE Globals(outbox[c])
  BY <1>1, <1>2, GlobalsAppend
<1>5. CASE k # "global"
  <2>1. \A c \in Conn : Globals(outbox'[c]) = Globals(outbox[c])
    BY <1>2, <1>4, <1>5
  <2>2. Closing({})
    BY <1>1, <1>2, <1>5, <2>1 DEF Closing
  <2> QED
    BY <1>1, <1>3, <2>2, ClosingLeaves
<1>6. CASE k = "global"
  <2> DEFINE S == connections(t)
  <2>1. Receivers(t, e) = S
    BY <1>1, <1>6 DEF Receivers
  <2>2. S \subseteq joined /\ \A c \in joined : c \in S <=> home[c] = t
    BY DEF connections
  <2>3. \A c \in joined : Taken(home[c])' = IF c \in S THEN Taken(home[c]) + 1 ELSE Taken(home[c])
    <3>1. \A c \in joined : home[c] \in Thread
      BY DEF Homed
    <3>2. \A c \in joined :
            Taken(home[c])' = IF home[c] = t THEN Taken(home[c]) + 1 ELSE Taken(home[c])
      BY <1>1, <1>2, <1>6, <3>1 DEF Taken
    <3> QED
      BY <2>2, <3>2
  <2>4. cursor' = [c \in Conn |-> IF c \in S THEN cursor[c] + 1 ELSE cursor[c]]
    BY <1>2, <2>2, <2>3
  <2>5. \A c \in S : cursor[c] = Taken(t)
    BY DEF connections
  <2>6. inbox' = [c \in Conn |-> IF c \in S THEN Append(inbox[c], log[cursor[c] + 1])
                                          ELSE inbox[c]]
    <3>1. \A c \in Conn :
            Globals(outbox'[c]) = IF c \in S THEN Append(Globals(outbox[c]), e)
                                              ELSE Globals(outbox[c])
      BY <1>2, <1>4, <1>6, <2>1
    <3>2. \A c \in S : log[cursor[c] + 1] = e
      BY <1>1, <1>6, <2>5
    <3> QED
      BY <3>1, <3>2
  <2>7. log' = log /\ joined' = joined
    BY <1>2
  <2>8. \A c \in S : cursor[c] < Len(log)
    BY <1>1, <1>6, <2>5
  <2> HIDE DEF S
  <2>9. CASE S = {}
    <3>1. cursor' = cursor /\ inbox' = inbox
      BY <2>4, <2>6, <2>9
    <3> QED
      BY <1>1, <1>3, <2>7, <3>1 DEF Broadcast!vars
  <2>10. CASE S # {}
    BY <1>1, <1>3, <2>2, <2>4, <2>6, <2>7, <2>8, <2>10 DEF Broadcast!Next, Broadcast!Receive
  <2> QED
    BY <2>9, <2>10
<1> QED
  BY <1>5, <1>6

LEMMA SendPublishes ==
  ASSUME TypeInv, FlowInv, Homed, NEW t \in Thread, PublishSend(t)
  PROVE  FlowInv' /\ Homed' /\ [Broadcast!Next]_(Broadcast!vars)
<1> DEFINE e == MessageOf(reading[t], NextRequest(t))
           joined == {c \in Conn : stage[c] = "open"}
           cursor == [c \in Conn |-> IF stage[c] = "open" THEN Taken(home[c]) ELSE 0]
           inbox == [c \in Conn |-> Globals(outbox[c])]
<1>1. FlowInv' /\ \A u \in Thread : Taken(u)' = Taken(u)
  BY PublishFlow
<1>2. /\ log' = IF e.kind = "global" THEN Append(log, e) ELSE log
      /\ e.kind = "global" => e \in GlobalChatMessage
      /\ UNCHANGED <<stage, home, outbox>>
  BY PublishedMessage DEF PublishSend
<1>3. Homed'
  BY <1>2 DEF Homed
<1>4. joined' = joined /\ inbox' = inbox
  BY <1>2
<1>5. cursor' = cursor
  <2>1. \A c \in Conn : stage[c] = "open" => Taken(home[c])' = Taken(home[c])
    BY <1>1, <1>2 DEF Homed, Taken
  <2> QED
    BY <1>2, <2>1
<1> HIDE DEF e
<1>6. CASE e.kind = "global"
  BY <1>1, <1>2, <1>3, <1>4, <1>5, <1>6 DEF Broadcast!Next, Broadcast!Publish
<1>7. CASE e.kind # "global"
  BY <1>1, <1>2, <1>3, <1>4, <1>5, <1>7 DEF Broadcast!vars
<1> QED
  BY <1>6, <1>7

-----------------------------------------------------------------------------
(* Every step of the server *)

LEMMA StepImplementsBroadcast ==
  ASSUME TypeInv, FlowInv, Homed, [Next]_vars
  PROVE  FlowInv' /\ Homed' /\ [Broadcast!Next]_(Broadcast!vars)
<1> DEFINE Done == FlowInv' /\ Homed' /\ [Broadcast!Next]_(Broadcast!vars)
           \* No message moves, and main does not change where it is in relaying.
           Rests == /\ UNCHANGED <<mchan, fwd, fwdTo, tchan, log>>
                    /\ mpc' = mpc \/ fwd = None \/ (mpc = "send" /\ mpc' = "panicked")
<1>0. /\ stage \in [Conn -> {"new", "backlog", "queued", "open", "gone"}]
      /\ home \in [Conn -> Thread \union {None}]
      /\ next_thread \in Thread /\ reading \in [Thread -> Conn \union {None}]
  BY DEF TypeInv, TypeOK
<1>1. ASSUME Rests, Homed',
             \A c \in Conn : stage'[c] = "open" => stage[c] = "open",
             \A c \in Conn : stage[c] = "open" => home'[c] = home[c],
             \A c \in Conn : Globals(outbox'[c]) = Globals(outbox[c])
      PROVE  Done
  <2> DEFINE S == {c \in Conn : stage'[c] # "open"}
  <2>1. FlowInv' /\ \A t \in Thread : Taken(t)' = Taken(t)
    BY <1>1, RestFlow
  <2>2. Closing(S)
    BY <1>1, <2>1 DEF Closing
  <2> HIDE DEF S
  <2> QED
    BY <1>1, <2>1, <2>2, ClosingLeaves
<1>2. ASSUME Rests, UNCHANGED <<home, outbox>>,
             \A c \in Conn : stage'[c] = stage[c] \/ stage'[c] \notin {"queued", "open"}
      PROVE  Done
  <2>1. Homed' /\ \A c \in Conn : stage'[c] = "open" => stage[c] = "open"
    BY <1>2 DEF Homed
  <2>2. \A c \in Conn : home'[c] = home[c] /\ Globals(outbox'[c]) = Globals(outbox[c])
    BY <1>2
  <2> HIDE DEF Done, Rests
  <2> QED
    BY <1>1, <1>2, <2>1, <2>2
<1>3. ASSUME Rests, UNCHANGED <<stage, home, outbox>>
      PROVE  Done
  <2> HIDE DEF Done, Rests
  <2> QED
    BY <1>3, <1>2
<1>4. ASSUME NEW c \in Conn, Connect(c)
      PROVE  Done
  <2>1. Rests /\ UNCHANGED <<home, outbox>>
    BY <1>4 DEF Connect, mainvars, threads
  <2>2. \A d \in Conn : stage'[d] = stage[d] \/ stage'[d] \notin {"queued", "open"}
    BY <1>0, <1>4 DEF Connect
  <2> HIDE DEF Done, Rests
  <2> QED
    BY <1>2, <2>1, <2>2
<1>5. ASSUME NEW c \in Conn, MainAccept(c)
      PROVE  Done
  <2>1. /\ UNCHANGED <<mchan, fwd, fwdTo, tchan, log, outbox>> /\ mpc = "accept"
        /\ stage[c] = "backlog" /\ stage' = [stage EXCEPT ![c] = "queued"]
        /\ home' = [home EXCEPT ![c] = next_thread]
    BY <1>5 DEF MainAccept, threads
  <2>2. Rests
    BY <2>1 DEF FlowInv, Held
  <2>3. Homed'
    BY <1>0, <2>1 DEF Homed
  <2>4. \A d \in Conn : stage'[d] = "open" => stage[d] = "open"
    BY <1>0, <2>1
  <2>5. \A d \in Conn : stage[d] = "open" => home'[d] = home[d]
    BY <1>0, <2>1
  <2>6. \A d \in Conn : Globals(outbox'[d]) = Globals(outbox[d])
    BY <2>1
  <2> HIDE DEF Done, Rests
  <2> QED
    BY <1>1, <2>2, <2>3, <2>4, <2>5, <2>6
<1>6. CASE \/ MainReturns \/ MainAcceptPanics \/ MainSendPanics \/ MainAcceptFails
  <2>1. Rests /\ UNCHANGED <<home, outbox>>
    BY <1>6 DEF MainReturns, MainAcceptPanics, MainSendPanics, MainAcceptFails, MainStops,
                FlowInv, Held, threads
  <2>2. \A d \in Conn : stage'[d] = stage[d] \/ stage'[d] \notin {"queued", "open"}
    BY <1>0, <1>6 DEF MainReturns, MainAcceptPanics, MainSendPanics, MainAcceptFails, MainStops
  <2> HIDE DEF Done, Rests
  <2> QED
    BY <1>2, <2>1, <2>2 DEF Done
<1>7. CASE \/ MainPoll \/ (\E e \in mbatch : MainEvent(e)) \/ MainAcceptBlocks \/ MainAcceptWake
           \/ (\E k \in Kind : MainDrained(k)) \/ SetStop \/ JoinStep \/ UNCHANGED vars
  <2>1. Rests /\ UNCHANGED <<stage, home, outbox>>
    BY <1>7 DEF MainPoll, MainEvent, MainAcceptBlocks, MainAcceptWake, MainDrained, SetStop,
                JoinStep, JoinThread, JoinReturns, JoinPanics, FlowInv, Held,
                conns, mainvars, threads, vars
  <2> HIDE DEF Done, Rests
  <2> QED
    BY <1>3, <2>1 DEF Done
<1>8. CASE (\E k \in Kind : MainTake(k)) \/ MainSend \/ MainWake
  <2>1. FlowInv' /\ \A t \in Thread : Taken(t)' = Taken(t)
    BY <1>8, TakeFlow, SendFlow, WakeFlow
  <2>2. UNCHANGED <<stage, home, outbox, log>>
    BY <1>8 DEF MainTake, MainSend, MainWake, conns
  <2>3. Homed'
    BY <2>2 DEF Homed
  <2>4. Closing({})
    BY <2>1, <2>2 DEF Closing
  <2> QED
    BY <2>1, <2>3, <2>4, ClosingLeaves
<1>9. ASSUME NEW t \in Thread, ThreadReturns(t) \/ PublishPanics(t)
       PROVE  Done
  <2>1. Rests /\ UNCHANGED <<home, outbox>>
    BY <1>9 DEF ThreadReturns, PublishPanics, mainvars
  <2>2. \A d \in Conn : stage'[d] = stage[d] \/ stage'[d] \notin {"queued", "open"}
    BY <1>0, <1>9 DEF ThreadReturns, PublishPanics, ThreadStops
  <2> HIDE DEF Done, Rests
  <2> QED
    BY <1>2, <2>1, <2>2
<1>10. ASSUME NEW t \in Thread, RemoveConnection(t)
       PROVE  Done
  <2>1. Rests /\ UNCHANGED <<home, outbox>>
    BY <1>10 DEF RemoveConnection, mainvars
  <2>2. \A d \in Conn : stage'[d] = stage[d] \/ stage'[d] \notin {"queued", "open"}
    BY <1>0, <1>10 DEF RemoveConnection
  <2> HIDE DEF Done, Rests
  <2> QED
    BY <1>2, <2>1, <2>2
<1>11. ASSUME NEW t \in Thread,
              \/ ThreadPoll(t) \/ ThreadWaker(t) \/ (\E c \in Conn : ThreadReadable(t, c))
              \/ ThreadAdopted(t) \/ (\E k \in Kind : ThreadDrained(t, k))
              \/ ProcessLogin(t) \/ PublishIgnored(t) \/ PublishWake(t) \/ ReadBlocks(t)
       PROVE  Done
  <2>1. Rests /\ UNCHANGED <<stage, home, outbox>>
    BY <1>11 DEF ThreadPoll, ThreadWaker, ThreadReadable, ThreadAdopted, ThreadDrained,
                 ProcessLogin, PublishIgnored, PublishWake, ReadBlocks, conns, mainvars, threads
  <2> HIDE DEF Done, Rests
  <2> QED
    BY <1>3, <2>1
<1>12. ASSUME NEW t \in Thread, ProcessPing(t)
       PROVE  Done
  <2> DEFINE e == MessageOf(reading[t], NextRequest(t))
  <2>1. Reads(t, {"ping"}) /\ Reads(t, Kind \union {"ping"})
    BY <1>12 DEF ProcessPing, Reads
  <2>2. e \in Event /\ reading[t] \in Conn /\ e.kind = "pong"
    BY <2>1, RequestType, MessageType DEF MessageOf
  <2>3. /\ outbox' = [outbox EXCEPT ![reading[t]] = Append(@, e)]
        /\ outbox \in [Conn -> Seq(Event)]
        /\ UNCHANGED <<stage, home, mchan, fwd, fwdTo, tchan, log, mpc>>
    BY <1>12 DEF ProcessPing, mainvars, threads, TypeInv, TypeOK
  <2> HIDE DEF e
  <2>4. \A c \in Conn : Globals(outbox'[c]) = Globals(outbox[c])
    <3>1. ASSUME NEW c \in Conn
          PROVE  Globals(Append(outbox[c], e)) = Globals(outbox[c])
      <4>1. outbox[c] \in Seq(Event)
        BY <2>3
      <4> QED
        BY <2>2, <4>1, GlobalsAppend
    <3> QED
      BY <2>2, <2>3, <3>1
  <2>5. Rests /\ Homed'
    BY <2>3 DEF Homed
  <2>6. /\ \A d \in Conn : stage'[d] = "open" => stage[d] = "open"
        /\ \A d \in Conn : stage[d] = "open" => home'[d] = home[d]
    BY <2>3
  <2> HIDE DEF Done, Rests
  <2> QED
    BY <1>1, <2>4, <2>5, <2>6
<1>13. ASSUME NEW t \in Thread, ThreadStep(t) \/ ThreadPoll(t)
       PROVE  Done
  BY <1>9, <1>10, <1>11, <1>12, <1>13, AdoptJoins, DeliveryReceives, SendPublishes
    DEF ThreadStep
<1> QED
  BY <1>4, <1>5, <1>6, <1>7, <1>8, <1>13 DEF Next, MainStep

(* The inductive invariant holds throughout.                               *)
LEMMA FlowInvHolds == Spec => [](FlowInv /\ Homed)
<1>1. Init => FlowInv /\ Homed
  BY InitFlow
<1>2. TypeInv /\ FlowInv /\ Homed /\ [Next]_vars => FlowInv' /\ Homed'
  BY StepImplementsBroadcast
<1> QED
  BY <1>1, <1>2, TypeInvHolds, PTL DEF Spec

(* However main and the connection threads interleave, also while they are *)
(* stopped one after the other, the server implements the total order      *)
(* broadcast: all clients see the global messages in one order, each from  *)
(* where it joined on, without gap or duplicate (connection_thread.rs:     *)
(* 95-134, server.rs:158-169, event.rs:26-33, messages.rs:33-41).          *)
THEOREM ServerImplementsBroadcast == Spec => BroadcastInOrder
<1>1. Init => Broadcast!Init
  <2> SUFFICES ASSUME Init PROVE Broadcast!Init
    OBVIOUS
  <2>1. \A c \in Conn : stage[c] = "new" /\ outbox[c] = <<>>
    BY DEF Init
  <2>2. Globals(<<>>) = <<>>
    <3>1. GlobalsAt(<<>>) = {}
      BY DEF GlobalsAt
    <3>2. Cardinality(GlobalsAt(<<>>)) = 0
      BY <3>1, FS_EmptySet
    <3> QED
      BY <3>1, <3>2 DEF Globals, Selected
  <2> QED
    BY <2>1, <2>2 DEF Init, Broadcast!Init
<1>2. TypeInv /\ FlowInv /\ Homed /\ [Next]_vars => [Broadcast!Next]_(Broadcast!vars)
  BY StepImplementsBroadcast
<1> QED
  BY <1>1, <1>2, TypeInvHolds, FlowInvHolds, PTL DEF Spec, BroadcastInOrder, Broadcast!Spec

-----------------------------------------------------------------------------
(* Who is called what *)

Logins(c, n) == {j \in 1 .. n : plan[c][j].kind = "login"}

(* The name c logged in with last among its first n requests is u.         *)
LastName(c, n, u) ==
  \E j \in Logins(c, n) : (\A l \in Logins(c, n) : l <= j) /\ u = plan[c][j].user

Names ==
  \A c \in Conn :
    /\ done[c] <= Len(plan[c])
    /\ user_name[c] = None => Logins(c, done[c]) = {}
    /\ user_name[c] # None => LastName(c, done[c], user_name[c])

(* The messages that were asked for so far.                                *)
Asked ==
  {e \in Event :
     /\ e.seq <= done[e.from]
     /\ plan[e.from][e.seq].kind = IF e.kind = "pong" THEN "ping" ELSE e.kind
     /\ e.kind = "private" => e.to = plan[e.from][e.seq].to
     /\ e.kind # "pong" => LastName(e.from, e.seq - 1, e.user)}

(* Those that may be shown to c.                                           *)
Addressed(c) ==
  {e \in Asked :
     /\ e.kind = "pong" => e.from = c
     /\ e.kind = "private" =>
          \E j \in 1 .. done[c] : plan[c][j] = [kind |-> "login", user |-> e.to]}

(* Nothing else is on its way, or has arrived.                             *)
AllAsked ==
  /\ mchan \in [Kind -> Seq(Asked)]
  /\ fwd \in Asked \union {None}
  /\ tchan \in [Thread -> [Kind -> Seq(Asked)]]
  /\ outbox \in [Conn -> Seq(Event)]
  /\ \A c \in Conn : outbox[c] \in Seq(Addressed(c))

LEMMA PlanType ==
  ASSUME TypeInv
  PROVE  /\ plan \in [Conn -> Seq(Request)] /\ done \in [Conn -> Nat]
         /\ user_name \in [Conn -> User \union {None}] /\ None \notin User
         /\ \A c \in Conn : Len(plan[c]) \in Nat /\ plan[c] \in Seq(Request) /\ done[c] \in Nat
<1>1. plan \in [Conn -> Seq(Request)] /\ done \in [Conn -> Nat] /\ None \notin User
  BY ChatServerAssumption DEF TypeInv, TypeOK
<1> QED
  BY <1>1 DEF TypeInv, TypeOK

(* Requests are only added to those processed.                             *)
LEMMA OnlyReads ==
  ASSUME TypeInv, [Next]_vars
  PROVE  /\ plan' = plan
         /\ \/ UNCHANGED <<done, user_name>>
            \/ \E t \in Thread : ProcessLogin(t)
            \/ \E t \in Thread : Reads(t, Kind \union {"ping"}) /\ UNCHANGED user_name
<1>1. plan' = plan
  BY ZenonT(30) DEF Next, MainStep, ThreadStep, JoinStep, Connect, MainReturns, MainPoll, MainEvent,
     MainAccept, MainAcceptPanics, MainAcceptBlocks, MainAcceptWake, MainAcceptFails, MainTake,
     MainDrained, MainSend, MainSendPanics, MainWake, ThreadReturns, ThreadPoll, ThreadWaker,
     ThreadReadable, ThreadAdopt, ThreadAdopted, ThreadTake, ThreadDrained, ProcessLogin,
     ProcessPing, PublishIgnored, PublishSend, PublishWake, PublishPanics, ReadBlocks,
     RemoveConnection, SetStop, JoinThread, JoinReturns, JoinPanics, conns, vars
<1>2. ASSUME NEW t \in Thread,
             ProcessPing(t) \/ PublishIgnored(t) \/ PublishSend(t) \/ PublishPanics(t)
      PROVE  Reads(t, Kind \union {"ping"}) /\ UNCHANGED user_name
  BY <1>2 DEF ProcessPing, PublishIgnored, PublishSend, PublishPanics, Reads
<1>3. \/ UNCHANGED <<done, user_name>>
      \/ \E t \in Thread : \/ ProcessLogin(t) \/ ProcessPing(t) \/ PublishIgnored(t)
                           \/ PublishSend(t) \/ PublishPanics(t)
  BY ZenonT(30) DEF Next, MainStep, ThreadStep, JoinStep, Connect, MainReturns, MainPoll, MainEvent,
     MainAccept, MainAcceptPanics, MainAcceptBlocks, MainAcceptWake, MainAcceptFails, MainTake,
     MainDrained, MainSend, MainSendPanics, MainWake, ThreadReturns, ThreadPoll, ThreadWaker,
     ThreadReadable, ThreadAdopt, ThreadAdopted, ThreadTake, ThreadDrained,
     PublishWake, ReadBlocks,
     RemoveConnection, SetStop, JoinThread, JoinReturns, JoinPanics, conns, vars
<1> QED
  BY <1>1, <1>2, <1>3

LEMMA DoneGrows ==
  ASSUME TypeInv, [Next]_vars
  PROVE  plan' = plan /\ \A c \in Conn : done'[c] \in Nat /\ done[c] \in Nat /\ done[c] <= done'[c]
<1>1. plan' = plan /\ (done' = done \/ \E c \in Conn : done' = [done EXCEPT ![c] = @ + 1])
  <2>1. ASSUME NEW t \in Thread, ProcessLogin(t) \/ Reads(t, Kind \union {"ping"})
        PROVE  \E c \in Conn : done' = [done EXCEPT ![c] = @ + 1]
    <3>1. PICK K : Reads(t, K)
      BY <2>1 DEF ProcessLogin
    <3> QED
      BY <3>1, RequestType DEF Reads
  <2> QED
    BY <2>1, OnlyReads
<1>2. done \in [Conn -> Nat]
  BY PlanType
<1> QED
  BY <1>1, <1>2

(* What was asked for stays so.                                            *)
LEMMA AskedGrows ==
  ASSUME TypeInv, [Next]_vars
  PROVE  /\ Asked \subseteq Asked'
         /\ \A c \in Conn : Addressed(c) \subseteq Addressed(c)'
<1>1. plan' = plan /\ \A c \in Conn : done'[c] \in Nat /\ done[c] \in Nat /\ done[c] <= done'[c]
  BY DoneGrows
<1>2. \A e \in Event : e.from \in Conn /\ e.seq \in Nat /\ e.seq # 0
  BY DEF Event
<1>3. Asked \subseteq Asked'
  <2> SUFFICES ASSUME NEW e \in Asked PROVE e \in Asked'
    OBVIOUS
  <2>1. e \in Event /\ e.seq <= done[e.from]
    BY DEF Asked
  <2>2. e.seq <= done'[e.from]
    BY <1>1, <1>2, <2>1
  <2> QED
    BY <1>1, <2>1, <2>2 DEF Asked, LastName, Logins
<1>4. ASSUME NEW c \in Conn, NEW e \in Addressed(c)
      PROVE  e \in Addressed(c)'
  <2>1. 1 .. done[c] \subseteq 1 .. done'[c]
    BY <1>1
  <2> QED
    BY <1>1, <1>3, <2>1 DEF Addressed
<1> QED
  BY <1>3, <1>4

LEMMA SeqGrows ==
  ASSUME NEW S, NEW T, S \subseteq T
  PROVE  Seq(S) \subseteq Seq(T)
OBVIOUS

-----------------------------------------------------------------------------
(* Names *)

LEMMA InitNames == Init => Names
<1> SUFFICES ASSUME Init PROVE Names
  OBVIOUS
<1>1. \A c \in Conn : Logins(c, 0) = {}
  BY DEF Logins
<1>2. plan \in [Conn -> Seq(Request)]
  BY ChatServerAssumption DEF Init
<1> QED
  BY <1>1, <1>2 DEF Init, Names

(* A login is the last one; no other request is a login.                   *)
LEMMA NextLogin ==
  ASSUME TypeInv, NEW c \in Conn, done[c] < Len(plan[c])
  PROVE  /\ plan[c][done[c] + 1].kind = "login"
              => LastName(c, done[c] + 1, plan[c][done[c] + 1].user)
         /\ plan[c][done[c] + 1].kind # "login" => Logins(c, done[c] + 1) = Logins(c, done[c])
<1>1. done[c] \in Nat
  BY PlanType
<1>2. 1 .. done[c] + 1 = 1 .. done[c] \union {done[c] + 1}
  BY <1>1
<1> QED
  BY <1>1, <1>2 DEF LastName, Logins

LEMMA StepNames ==
  ASSUME TypeInv, Names, [Next]_vars
  PROVE  Names'
<1>1. plan' = plan
  BY OnlyReads
<1>2. CASE UNCHANGED <<done, user_name>>
  BY <1>1, <1>2 DEF Names, LastName, Logins
<1>3. /\ user_name \in [Conn -> User \union {None}] /\ None \notin User
      /\ done \in [Conn -> Nat]
  BY PlanType
<1> DEFINE Read(c) == /\ done[c] < Len(plan[c]) /\ done' = [done EXCEPT ![c] = @ + 1]
           name(c) == plan[c][done[c] + 1].user
<1>4. ASSUME NEW c \in Conn, Read(c), plan[c][done[c] + 1].kind = "login", name(c) \in User,
             user_name' = [user_name EXCEPT ![c] = name(c)]
      PROVE  Names'
  <2>1. LastName(c, done[c] + 1, name(c))
    BY <1>4, NextLogin
  <2>2. /\ done'[c] = done[c] + 1 /\ user_name'[c] = name(c) /\ name(c) # None
        /\ \A d \in Conn : d # c => done'[d] = done[d] /\ user_name'[d] = user_name[d]
    BY <1>3, <1>4
  <2>3. Len(plan[c]) \in Nat /\ done[c] \in Nat
    BY PlanType
  <2>4. done[c] + 1 <= Len(plan[c])
    BY <1>4, <2>3
  <2> HIDE DEF name
  <2> QED
    BY <1>1, <2>1, <2>2, <2>4 DEF Names, LastName, Logins
<1>5. ASSUME NEW c \in Conn, Read(c), plan[c][done[c] + 1].kind # "login",
             user_name' = user_name
      PROVE  Names'
  <2>1. Logins(c, done[c] + 1) = Logins(c, done[c])
    BY <1>5, NextLogin
  <2>2. /\ done'[c] = done[c] + 1
        /\ \A d \in Conn : d # c => done'[d] = done[d]
    BY <1>3, <1>5
  <2>3. Len(plan[c]) \in Nat /\ done[c] \in Nat
    BY PlanType
  <2>4. done[c] + 1 <= Len(plan[c])
    BY <1>5, <2>3
  <2> QED
    BY <1>1, <1>5, <2>1, <2>2, <2>4 DEF Names, LastName, Logins
<1>6. ASSUME NEW t \in Thread, ProcessLogin(t)
      PROVE  Names'
  <2>1. Reads(t, {"login"})
    BY <1>6 DEF ProcessLogin
  <2>2. reading[t] \in Conn /\ NextRequest(t) \in Request /\ NextRequest(t).kind = "login"
    BY <2>1, RequestType
  <2>3. NextRequest(t).user \in User
    BY <2>2, RequestFields
  <2> QED
    BY <1>4, <1>6, <2>1, <2>2, <2>3 DEF ProcessLogin, Reads, NextRequest, LoginName
<1>7. ASSUME NEW t \in Thread, Reads(t, Kind \union {"ping"}), UNCHANGED user_name
      PROVE  Names'
  <2>1. reading[t] \in Conn /\ NextRequest(t).kind \in Kind \union {"ping"}
    BY <1>7, RequestType
  <2> QED
    BY <1>5, <1>7, <2>1 DEF Reads, NextRequest
<1> QED
  BY <1>2, <1>6, <1>7, OnlyReads

-----------------------------------------------------------------------------
(* Messages *)

LEMMA InitAsked == Init => AllAsked
BY DEF Init, AllAsked

(* What a request makes was asked for, and a pong is for whoever asked.    *)
LEMMA NewMessage ==
  ASSUME TypeInv, Names, NEW t \in Thread, Reads(t, Kind \union {"ping"}), plan' = plan,
         NEW c, c = reading[t], NextRequest(t).kind # "ping" => user_name[c] # None
  PROVE  LET e == MessageOf(c, NextRequest(t)) IN
         e \in Asked' /\ (e.kind = "pong" => e \in Addressed(c)')
<1> DEFINE r == NextRequest(t)
           e == MessageOf(c, r)
<1>1. /\ e \in Event /\ c \in Conn /\ r \in Request /\ r.kind \in Kind \union {"ping"}
      /\ done[c] \in Nat /\ done \in [Conn -> Nat]
  BY RequestType, MessageType, PlanType
<1>2. /\ e.kind = (IF r.kind = "ping" THEN "pong" ELSE r.kind) /\ e.from = c
      /\ e.seq = done[c] + 1 /\ e.user = (IF r.kind = "ping" THEN None ELSE user_name[c])
      /\ e.to = (IF r.kind = "private" THEN r.to ELSE None)
      /\ r = plan[c][done[c] + 1]
  BY DEF MessageOf, NextRequest
<1>3. done'[c] = done[c] + 1
  BY <1>1 DEF Reads
<1> HIDE DEF r, e
<1>4. e.seq <= done'[e.from]
  BY <1>1, <1>2, <1>3
<1>5. plan[e.from][e.seq].kind = IF e.kind = "pong" THEN "ping" ELSE e.kind
  BY <1>1, <1>2
<1>6. e.kind = "private" => e.to = plan[e.from][e.seq].to
  BY <1>1, <1>2
<1>7. e.kind # "pong" => LastName(e.from, e.seq - 1, e.user)
  <2>1. e.seq - 1 = done[c]
    BY <1>1, <1>2
  <2> QED
    BY <1>1, <1>2, <2>1 DEF Names, r
<1>8. e \in Asked'
  BY <1>1, <1>4, <1>5, <1>6, <1>7 DEF Asked, LastName, Logins
<1>9. e.kind = "pong" => e \in Addressed(c)'
  <2>1. e.kind = "pong" => e.kind # "private" /\ e.from = c
    BY <1>2
  <2> QED
    BY <1>8, <2>1 DEF Addressed
<1> QED
  BY <1>8, <1>9 DEF r, e

(* Steps that make no message.                                             *)
LEMMA KeptAsked ==
  ASSUME TypeInv, [Next]_vars,
         mchan' \in [Kind -> Seq(Asked)], fwd' \in Asked \union {None},
         tchan' \in [Thread -> [Kind -> Seq(Asked)]], outbox' \in [Conn -> Seq(Event)],
         \A c \in Conn : outbox'[c] \in Seq(Addressed(c))
  PROVE  AllAsked'
<1>1. Asked \subseteq Asked' /\ Seq(Asked) \subseteq Seq(Asked')
  BY AskedGrows, SeqGrows
<1>2. mchan' \in [Kind -> Seq(Asked')] /\ tchan' \in [Thread -> [Kind -> Seq(Asked')]]
  BY <1>1
<1>3. ASSUME NEW c \in Conn
      PROVE  outbox'[c] \in Seq(Addressed(c)')
  <2>1. Addressed(c) \subseteq Addressed(c)'
    BY AskedGrows
  <2>2. Seq(Addressed(c)) \subseteq Seq(Addressed(c)')
    BY <2>1, SeqGrows
  <2> QED
    BY <2>2
<1> QED
  BY <1>1, <1>2, <1>3 DEF AllAsked

LEMMA RelayAsked ==
  ASSUME TypeInv, AllAsked, [Next]_vars, (\E k \in Kind : MainTake(k)) \/ MainSend \/ MainWake
  PROVE  AllAsked'
<1>0. /\ mchan \in [Kind -> Seq(Asked)] /\ fwd \in Asked \union {None}
      /\ tchan \in [Thread -> [Kind -> Seq(Asked)]] /\ outbox \in [Conn -> Seq(Event)]
      /\ \A c \in Conn : outbox[c] \in Seq(Addressed(c))
  BY DEF AllAsked
<1>1. outbox' = outbox
  BY DEF MainTake, MainSend, MainWake, conns
<1>2. /\ mchan' \in [Kind -> Seq(Asked)] /\ fwd' \in Asked \union {None}
      /\ tchan' \in [Thread -> [Kind -> Seq(Asked)]]
  <2>1. ASSUME NEW k \in Kind, MainTake(k)
        PROVE  mchan' \in [Kind -> Seq(Asked)] /\ fwd' \in Asked /\ UNCHANGED tchan
    <3>1. /\ mchan[k] \in Seq(Asked) /\ mchan[k] # <<>> /\ UNCHANGED tchan
          /\ fwd' = Head(mchan[k]) /\ mchan' = [mchan EXCEPT ![k] = Tail(mchan[k])]
      BY <1>0, <2>1 DEF MainTake, threads
    <3>2. Head(mchan[k]) \in Asked /\ Tail(mchan[k]) \in Seq(Asked)
      BY <3>1
    <3> QED
      BY <1>0, <3>1, <3>2
  <2>2. CASE MainSend
    <3>1. /\ fwd \in Asked /\ fwd.kind \in Kind /\ fwdTo \in Thread /\ UNCHANGED <<mchan, fwd>>
          /\ tchan' = [tchan EXCEPT ![fwdTo][fwd.kind] = Append(@, fwd)]
      BY <1>0, <2>2, ChannelTypes DEF MainSend, TypeInv, Relaying
    <3>2. tchan[fwdTo][fwd.kind] \in Seq(Asked)
      BY <1>0, <3>1
    <3>3. Append(tchan[fwdTo][fwd.kind], fwd) \in Seq(Asked)
      BY <3>1, <3>2
    <3> QED
      BY <1>0, <3>1, <3>3
  <2>3. CASE MainWake
    BY <1>0, <2>3 DEF MainWake
  <2> QED
    BY <1>0, <2>1, <2>2, <2>3
<1> QED
  BY <1>0, <1>1, <1>2, KeptAsked

(* At the moment of delivery the receiver goes by the addressee's name.    *)
LEMMA DeliveryAsked ==
  ASSUME TypeInv, FlowInv, Names, AllAsked, [Next]_vars,
         NEW t \in Thread, NEW k \in Kind, ThreadTake(t, k)
  PROVE  AllAsked'
<1> DEFINE e == Head(tchan[t][k])
<1>0. /\ mchan \in [Kind -> Seq(Asked)] /\ fwd \in Asked \union {None}
      /\ tchan \in [Thread -> [Kind -> Seq(Asked)]] /\ outbox \in [Conn -> Seq(Event)]
      /\ \A c \in Conn : outbox[c] \in Seq(Addressed(c))
  BY DEF AllAsked
<1>1. e \in Event /\ e.kind = k
  BY DeliverFlow
<1>2. /\ tchan[t][k] \in Seq(Asked) /\ tchan[t][k] # <<>>
      /\ tchan' = [tchan EXCEPT ![t][k] = Tail(tchan[t][k])]
      /\ outbox' = [c \in Conn |->
                    IF c \in Receivers(t, e) THEN Append(outbox[c], e) ELSE outbox[c]]
      /\ UNCHANGED <<mchan, fwd>>
  BY <1>0 DEF ThreadTake, mainvars
<1>3. e \in Asked /\ Tail(tchan[t][k]) \in Seq(Asked)
  BY <1>2
<1>4. tchan' \in [Thread -> [Kind -> Seq(Asked)]]
  BY <1>0, <1>2, <1>3
<1> HIDE DEF e
<1>5. ASSUME NEW c \in Receivers(t, e), c \in Conn
      PROVE  e \in Addressed(c)
  <2> SUFFICES ASSUME e.kind = "private"
               PROVE  \E j \in 1 .. done[c] : plan[c][j] = [kind |-> "login", user |-> e.to]
    BY <1>1, <1>3 DEF Addressed
  <2>1. user_name[c] = e.to
    BY <1>5 DEF Receivers
  <2>2. e.to \in User
    <3>1. /\ e.from \in Conn /\ e.seq \in Nat /\ e.seq # 0 /\ e.seq <= done[e.from]
          /\ plan[e.from][e.seq].kind = "private" /\ e.to = plan[e.from][e.seq].to
      BY <1>3 DEF Asked, Event
    <3>2. /\ plan[e.from] \in Seq(Request) /\ Len(plan[e.from]) \in Nat
          /\ done[e.from] \in Nat /\ done[e.from] <= Len(plan[e.from])
      BY <3>1, PlanType DEF Names
    <3>3. e.seq \in 1 .. Len(plan[e.from])
      BY <3>1, <3>2
    <3>4. plan[e.from][e.seq] \in Request
      BY <3>2, <3>3
    <3> QED
      BY <3>1, <3>4, RequestFields
  <2>3. LastName(c, done[c], e.to)
    BY <1>5, <2>1, <2>2, PlanType DEF Names
  <2>4. PICK j \in 1 .. done[c] : plan[c][j].kind = "login" /\ plan[c][j].user = e.to
    BY <2>3 DEF LastName, Logins
  <2>5. plan[c][j] \in Request
    <3>1. plan[c] \in Seq(Request) /\ Len(plan[c]) \in Nat /\ done[c] \in Nat
          /\ done[c] <= Len(plan[c])
      BY <1>5, PlanType DEF Names
    <3>2. j \in 1 .. Len(plan[c])
      BY <3>1
    <3> QED
      BY <3>1, <3>2
  <2>6. plan[c][j] = [kind |-> "login", user |-> e.to]
    BY <2>4, <2>5 DEF Request
  <2> QED
    BY <2>6
<1>6. ASSUME NEW c \in Conn
      PROVE  outbox'[c] \in Seq(Addressed(c)) /\ outbox'[c] \in Seq(Event)
  <2>1. CASE c \in Receivers(t, e)
    <3>1. e \in Addressed(c) /\ outbox[c] \in Seq(Addressed(c)) /\ outbox[c] \in Seq(Event)
      BY <1>0, <1>5, <2>1
    <3>2. Append(outbox[c], e) \in Seq(Addressed(c)) /\ Append(outbox[c], e) \in Seq(Event)
      BY <1>1, <3>1
    <3> QED
      BY <1>2, <2>1, <3>2
  <2>2. CASE c \notin Receivers(t, e)
    BY <1>0, <1>2, <2>2
  <2> QED
    BY <2>1, <2>2
<1>7. outbox' \in [Conn -> Seq(Event)]
  BY <1>2, <1>6
<1> QED
  BY <1>0, <1>2, <1>4, <1>6, <1>7, KeptAsked

LEMMA RequestAsked ==
  ASSUME TypeInv, Names, AllAsked, [Next]_vars,
         NEW t \in Thread, ProcessPing(t) \/ PublishSend(t)
  PROVE  AllAsked'
<1> DEFINE e == MessageOf(reading[t], NextRequest(t))
<1>0. /\ mchan \in [Kind -> Seq(Asked)] /\ fwd \in Asked \union {None}
      /\ tchan \in [Thread -> [Kind -> Seq(Asked)]] /\ outbox \in [Conn -> Seq(Event)]
      /\ \A c \in Conn : outbox[c] \in Seq(Addressed(c))
  BY DEF AllAsked
<1>1. Reads(t, Kind \union {"ping"}) /\ plan' = plan
  BY OnlyReads DEF ProcessPing, PublishSend, Reads
<1>2. PICK c \in Conn : c = reading[t]
  BY <1>1, RequestType
<1>3. NextRequest(t).kind # "ping" => user_name[c] # None
  BY <1>2 DEF ProcessPing, PublishSend, Reads
<1>4. /\ e \in Event /\ e \in Asked' /\ (e.kind = "pong" => e \in Addressed(c)')
  BY <1>1, <1>2, <1>3, NewMessage, MessageType
<1>5. Asked \subseteq Asked' /\ Seq(Asked) \subseteq Seq(Asked')
  BY AskedGrows, SeqGrows
<1>6. \A d \in Conn : Seq(Addressed(d)) \subseteq Seq(Addressed(d)')
  BY AskedGrows, SeqGrows
<1>7. fwd' \in Asked' \union {None} /\ tchan' \in [Thread -> [Kind -> Seq(Asked')]]
  <2>1. fwd' = fwd /\ tchan' = tchan
    BY DEF ProcessPing, PublishSend, mainvars, threads
  <2> QED
    BY <1>0, <1>5, <2>1
<1>8. CASE ProcessPing(t)
  <2>1. /\ outbox' = [outbox EXCEPT ![c] = Append(@, e)] /\ mchan' = mchan /\ e.kind = "pong"
    <3>1. NextRequest(t).kind = "ping"
      BY <1>8 DEF ProcessPing, Reads
    <3> QED
      BY <1>2, <1>8, <3>1 DEF ProcessPing, MessageOf, mainvars
  <2> HIDE DEF e
  <2>2. mchan' \in [Kind -> Seq(Asked')]
    BY <1>0, <1>5, <2>1
  <2>3. outbox[c] \in Seq(Addressed(c)') /\ outbox[c] \in Seq(Event)
    BY <1>0, <1>6
  <2>4. Append(outbox[c], e) \in Seq(Addressed(c)') /\ Append(outbox[c], e) \in Seq(Event)
    BY <1>4, <2>1, <2>3
  <2>5. outbox' \in [Conn -> Seq(Event)]
    BY <1>0, <2>1, <2>4
  <2>6. \A d \in Conn : outbox'[d] \in Seq(Addressed(d)')
    BY <1>0, <1>6, <2>1, <2>4
  <2> QED
    BY <1>7, <2>2, <2>5, <2>6 DEF AllAsked
<1>9. CASE PublishSend(t)
  <2>1. /\ mchan' = [mchan EXCEPT ![e.kind] = Append(@, e)] /\ outbox' = outbox /\ e.kind \in Kind
    BY <1>9, PublishedMessage DEF PublishSend
  <2> HIDE DEF e
  <2>2. mchan[e.kind] \in Seq(Asked')
    BY <1>0, <1>5, <2>1
  <2>3. Append(mchan[e.kind], e) \in Seq(Asked')
    BY <1>4, <2>2
  <2>4. mchan' \in [Kind -> Seq(Asked')]
    BY <1>0, <1>5, <2>1, <2>3
  <2>5. \A d \in Conn : outbox'[d] \in Seq(Addressed(d)')
    BY <1>0, <1>6, <2>1
  <2> QED
    BY <1>0, <1>7, <2>1, <2>4, <2>5 DEF AllAsked
<1> QED
  BY <1>8, <1>9

LEMMA StepAsked ==
  ASSUME TypeInv, FlowInv, Names, AllAsked, [Next]_vars
  PROVE  AllAsked'
<1>1. CASE (\E k \in Kind : MainTake(k)) \/ MainSend \/ MainWake
  BY <1>1, RelayAsked
<1>2. ASSUME NEW t \in Thread, NEW k \in Kind, ThreadTake(t, k)
      PROVE  AllAsked'
  BY <1>2, DeliveryAsked
<1>3. ASSUME NEW t \in Thread, ProcessPing(t) \/ PublishSend(t)
      PROVE  AllAsked'
  BY <1>3, RequestAsked
<1>4. CASE UNCHANGED <<mchan, fwd, tchan, outbox>>
  BY <1>4, KeptAsked DEF AllAsked
<1>5. \/ UNCHANGED <<mchan, fwd, tchan, outbox>>
      \/ (\E k \in Kind : MainTake(k)) \/ MainSend \/ MainWake
      \/ \E t \in Thread : \/ \E k \in Kind : ThreadTake(t, k)
                           \/ ProcessPing(t) \/ PublishSend(t)
  BY DEF Next, MainStep, ThreadStep, JoinStep, Connect, MainReturns, MainPoll, MainEvent,
     MainAccept, MainAcceptPanics, MainAcceptBlocks, MainAcceptWake, MainAcceptFails,
     MainDrained, MainSendPanics, ThreadReturns, ThreadPoll, ThreadWaker,
     ThreadReadable, ThreadAdopt, ThreadAdopted, ThreadDrained, ProcessLogin,
     PublishIgnored, PublishWake, PublishPanics, ReadBlocks,
     RemoveConnection, SetStop, JoinThread, JoinReturns, JoinPanics, conns, mainvars,
     threads, vars
<1> QED
  BY <1>1, <1>2, <1>3, <1>4, <1>5

LEMMA AskedHolds == Spec => [](Names /\ AllAsked)
<1>1. Init => Names /\ AllAsked
  BY InitNames, InitAsked
<1>2. TypeInv /\ FlowInv /\ Names /\ AllAsked /\ [Next]_vars => Names' /\ AllAsked'
  BY StepNames, StepAsked
<1> QED
  BY <1>1, <1>2, TypeInvHolds, FlowInvHolds, PTL DEF Spec

(* Whatever reaches a client was asked for and bears the name its sender   *)
(* had logged in with last when it sent it, through later logins,          *)
(* departures and delays (messages.rs:33-41, 48-62, 89-103).               *)
THEOREM MessagesDeliveredAsSent == Spec => []DeliveredAsSent
<1>1. ASSUME AllAsked
      PROVE  DeliveredAsSent
  <2> SUFFICES ASSUME NEW c \in Conn, NEW i \in 1 .. Len(outbox[c])
               PROVE  LET e == outbox[c][i]
                          asked == plan[e.from]
                          logins == {j \in 1 .. e.seq - 1 : asked[j].kind = "login"} IN
                      /\ e.seq <= done[e.from]
                      /\ IF e.kind = "pong"
                           THEN e.from = c /\ asked[e.seq].kind = "ping"
                           ELSE /\ e.kind = asked[e.seq].kind
                                /\ e.kind = "private" => e.to = asked[e.seq].to
                                /\ \E j \in logins : /\ \A l \in logins : l <= j
                                                      /\ e.user = asked[j].user
    BY DEF DeliveredAsSent
  <2>1. outbox[c] \in Seq(Addressed(c))
    BY <1>1 DEF AllAsked
  <2>2. outbox[c][i] \in Addressed(c)
    BY <2>1
  <2> QED
    BY <2>2 DEF Addressed, Asked, LastName, Logins
<1> QED
  BY <1>1, AskedHolds, PTL

-----------------------------------------------------------------------------
(* The order of one sender's private messages *)

Precedes(d, e) ==
  d.kind = "private" /\ e.kind = "private" /\ d.from = e.from => d.seq < e.seq

Sorted(s) == \A i, j \in 1 .. Len(s) : i < j => Precedes(s[i], s[j])
Follows(e, s) == \A i \in 1 .. Len(s) : Precedes(s[i], e)
Leads(e, s) == \A i \in 1 .. Len(s) : Precedes(e, s[i])
Ahead(s, r) == \A i \in 1 .. Len(s), j \in 1 .. Len(r) : Precedes(s[i], r[j])

LEMMA AppendParts ==
  ASSUME NEW s \in Seq(Event), NEW e \in Event
  PROVE  /\ Append(s, e) \in Seq(Event) /\ Len(s) \in Nat
         /\ \A i \in 1 .. Len(Append(s, e)) :
              \/ i \in 1 .. Len(s) /\ Append(s, e)[i] = s[i]
              \/ i = Len(s) + 1 /\ Append(s, e)[i] = e
OBVIOUS

LEMMA TailParts ==
  ASSUME NEW s \in Seq(Event), s # <<>>
  PROVE  /\ Tail(s) \in Seq(Event) /\ Head(s) = s[1] /\ 1 \in 1 .. Len(s) /\ Head(s) \in Event
         /\ \A i \in 1 .. Len(Tail(s)) :
              i \in Nat /\ i + 1 \in 1 .. Len(s) /\ 1 < i + 1 /\ Tail(s)[i] = s[i + 1]
<1>1. 1 \in 1 .. Len(s)
  OBVIOUS
<1>2. Len(s) \in Nat /\ Len(Tail(s)) = Len(s) - 1 /\ \A i \in 1 .. Len(Tail(s)) : Tail(s)[i] = s[i + 1]
  BY <1>1
<1> QED
  BY <1>1, <1>2

LEMMA OrderAppend ==
  ASSUME NEW s \in Seq(Event), NEW e \in Event
  PROVE  /\ Sorted(s) /\ Follows(e, s) => Sorted(Append(s, e))
         /\ \A d : Follows(d, s) /\ Precedes(e, d) => Follows(d, Append(s, e))
         /\ \A d : Leads(d, s) /\ Precedes(d, e) => Leads(d, Append(s, e))
         /\ \A r : Ahead(s, r) /\ Leads(e, r) => Ahead(Append(s, e), r)
         /\ \A r : Ahead(r, s) /\ Follows(e, r) => Ahead(r, Append(s, e))
<1>1. \A i \in 1 .. Len(Append(s, e)) :
        \/ i \in 1 .. Len(s) /\ Append(s, e)[i] = s[i]
        \/ i = Len(s) + 1 /\ Append(s, e)[i] = e
  BY AppendParts
<1>2. ASSUME Sorted(s), Follows(e, s)
      PROVE  Sorted(Append(s, e))
  <2> SUFFICES ASSUME NEW i \in 1 .. Len(Append(s, e)), NEW j \in 1 .. Len(Append(s, e)), i < j
               PROVE  Precedes(Append(s, e)[i], Append(s, e)[j])
    BY DEF Sorted
  <2>1. i \in 1 .. Len(s) /\ Append(s, e)[i] = s[i]
    OBVIOUS
  <2>2. CASE j \in 1 .. Len(s) /\ Append(s, e)[j] = s[j]
    BY <1>2, <2>1, <2>2 DEF Sorted
  <2>3. CASE Append(s, e)[j] = e
    BY <1>2, <2>1, <2>3 DEF Follows
  <2> QED
    BY <1>1, <2>2, <2>3
<1>3. \A d : Follows(d, s) /\ Precedes(e, d) => Follows(d, Append(s, e))
  BY <1>1 DEF Follows
<1>4. \A d : Leads(d, s) /\ Precedes(d, e) => Leads(d, Append(s, e))
  BY <1>1 DEF Leads
<1>5. \A r : Ahead(s, r) /\ Leads(e, r) => Ahead(Append(s, e), r)
  BY <1>1 DEF Ahead, Leads
<1>6. \A r : Ahead(r, s) /\ Follows(e, r) => Ahead(r, Append(s, e))
  BY <1>1 DEF Ahead, Follows
<1> QED
  BY <1>2, <1>3, <1>4, <1>5, <1>6

LEMMA OrderTail ==
  ASSUME NEW s \in Seq(Event), s # <<>>
  PROVE  /\ Sorted(s) => Sorted(Tail(s)) /\ Leads(Head(s), Tail(s))
         /\ \A d : Follows(d, s) => Follows(d, Tail(s)) /\ Precedes(Head(s), d)
         /\ \A r : Ahead(s, r) => Ahead(Tail(s), r) /\ Leads(Head(s), r)
         /\ \A r : Ahead(r, s) => Ahead(r, Tail(s)) /\ Follows(Head(s), r)
<1>1. /\ Head(s) = s[1] /\ 1 \in 1 .. Len(s)
      /\ \A i \in 1 .. Len(Tail(s)) :
           i \in Nat /\ i + 1 \in 1 .. Len(s) /\ 1 < i + 1 /\ Tail(s)[i] = s[i + 1]
  BY TailParts
<1>2. ASSUME Sorted(s)
      PROVE  Sorted(Tail(s)) /\ Leads(Head(s), Tail(s))
  <2>1. Leads(Head(s), Tail(s))
    BY <1>1, <1>2 DEF Sorted, Leads
  <2>2. ASSUME NEW i \in 1 .. Len(Tail(s)), NEW j \in 1 .. Len(Tail(s)), i < j
        PROVE  Precedes(Tail(s)[i], Tail(s)[j])
    <3>1. /\ i + 1 \in 1 .. Len(s) /\ j + 1 \in 1 .. Len(s)
          /\ Tail(s)[i] = s[i + 1] /\ Tail(s)[j] = s[j + 1]
      BY <1>1
    <3>2. i + 1 < j + 1
      BY <2>2
    <3> QED
      BY <1>2, <3>1, <3>2 DEF Sorted
  <2> QED
    BY <2>1, <2>2 DEF Sorted
<1>3. \A d : Follows(d, s) => Follows(d, Tail(s)) /\ Precedes(Head(s), d)
  BY <1>1 DEF Follows
<1>4. \A r : Ahead(s, r) => Ahead(Tail(s), r) /\ Leads(Head(s), r)
  BY <1>1 DEF Ahead, Leads
<1>5. \A r : Ahead(r, s) => Ahead(r, Tail(s)) /\ Follows(Head(s), r)
  BY <1>1 DEF Ahead, Follows
<1> QED
  BY <1>2, <1>3, <1>4, <1>5

-----------------------------------------------------------------------------
(* The way of private messages: from main's channel over the message that  *)
(* main relays, if it is still due to thread t, and t's channel to the     *)
(* clients.  Whatever is further on its way was sent earlier.              *)

Due(t) ==
  fwd # None /\ fwd.kind = "private" /\ (t > fwdTo \/ (t = fwdTo /\ mpc \in {"send", "panicked"}))

(* The messages of s are ahead of all that main still has for t ...        *)
AheadOfMain(s, t) ==
  /\ Due(t) => Follows(fwd, s)
  /\ Ahead(s, mchan["private"])

(* ... and ahead of all that t is still to hand out.                       *)
Earlier(s, t) == Ahead(s, tchan[t]["private"]) /\ AheadOfMain(s, t)

PathsSorted ==
  /\ Sorted(mchan["private"])
  /\ \A t \in Thread :
       /\ Sorted(tchan[t]["private"]) /\ AheadOfMain(tchan[t]["private"], t)
       /\ Due(t) => Leads(fwd, mchan["private"])

ClientsSorted ==
  \A c \in Conn :
    /\ Sorted(outbox[c])
    /\ stage[c] \in {"new", "backlog", "queued"}
         => \A i \in 1 .. Len(outbox[c]) : outbox[c][i].kind # "private"
    /\ stage[c] = "open" => Earlier(outbox[c], home[c])

(* What was ahead of all that a thread is still to get stays so.           *)
LEMMA SamePaths ==
  ASSUME PathsSorted, mchan'["private"] = mchan["private"],
         \A t \in Thread : tchan'[t]["private"] = tchan[t]["private"],
         \A t \in Thread : Due(t)' => Due(t) /\ fwd' = fwd
  PROVE  PathsSorted' /\ \A t \in Thread : \A s : Earlier(s, t) => Earlier(s, t)'
<1>1. \A t \in Thread : \A s : Earlier(s, t) => Earlier(s, t)'
  BY DEF Earlier, AheadOfMain
<1>2. PathsSorted'
  BY DEF PathsSorted, AheadOfMain
<1> QED
  BY <1>1, <1>2

LEMMA TakePaths ==
  ASSUME TypeInv, FlowInv, PathsSorted, NEW k \in Kind, MainTake(k)
  PROVE  PathsSorted' /\ \A t \in Thread : \A s : Earlier(s, t) => Earlier(s, t)'
<1> DEFINE old == mchan["private"]
<1>1. /\ mchan[k] \in Seq(Event) /\ mchan[k] # <<>> /\ fwd' = Head(mchan[k])
      /\ mchan' = [mchan EXCEPT ![k] = Tail(mchan[k])] /\ mchan \in [Kind -> Seq(Event)]
      /\ UNCHANGED tchan
  BY DEF MainTake, threads, TypeInv, TypeOK
<1>2. CASE k = "global"
  <2>1. fwd'.kind = "global"
    BY <1>1, <1>2, TailParts DEF TypeInv, ChannelKinds
  <2>2. \A t \in Thread : ~Due(t)'
    BY <2>1 DEF Due
  <2>3. mchan'["private"] = mchan["private"]
    BY <1>1, <1>2
  <2> QED
    BY <1>1, <2>2, <2>3, SamePaths
<1>3. CASE k = "private"
  <2>1. /\ old \in Seq(Event) /\ old # <<>> /\ fwd' = Head(old) /\ mchan'["private"] = Tail(old)
    BY <1>1, <1>3
  <2>2. Sorted(old)
    BY DEF PathsSorted
  <2> HIDE DEF old
  <2>3. /\ Sorted(Tail(old)) /\ Leads(Head(old), Tail(old))
        /\ \A r : Ahead(r, old) => Ahead(r, Tail(old)) /\ Follows(Head(old), r)
    BY <2>1, <2>2, OrderTail
  <2>4. \A t \in Thread : \A s : Earlier(s, t) => Earlier(s, t)'
    BY <1>1, <2>1, <2>3 DEF Earlier, AheadOfMain, old
  <2>5. PathsSorted'
    BY <1>1, <2>1, <2>3 DEF PathsSorted, AheadOfMain, old
  <2> QED
    BY <2>4, <2>5
<1> QED
  BY <1>2, <1>3

LEMMA SendPaths ==
  ASSUME TypeInv, FlowInv, PathsSorted, MainSend
  PROVE  PathsSorted' /\ \A t \in Thread : \A s : Earlier(s, t) => Earlier(s, t)'
<1>1. /\ mpc = "send" /\ mpc' = "wake" /\ fwdTo \in Thread /\ fwd # None
      /\ fwd \in Event /\ fwd.kind \in Kind
      /\ tchan' = [tchan EXCEPT ![fwdTo][fwd.kind] = Append(@, fwd)]
      /\ tchan \in [Thread -> [Kind -> Seq(Event)]]
      /\ UNCHANGED <<mchan, fwd, fwdTo>>
  BY ChannelTypes DEF MainSend, TypeInv, TypeOK, Relaying
<1>2. \A t \in Thread : Due(t)' => Due(t)
  BY <1>1 DEF Due
<1>3. CASE fwd.kind = "global"
  <2>1. \A t \in Thread : tchan'[t]["private"] = tchan[t]["private"]
    BY <1>1, <1>3
  <2> QED
    BY <1>1, <1>2, <2>1, SamePaths
<1>4. CASE fwd.kind = "private"
  <2> DEFINE old == tchan[fwdTo]["private"]
  <2>1. /\ old \in Seq(Event) /\ tchan'[fwdTo]["private"] = Append(old, fwd)
        /\ \A t \in Thread : t # fwdTo => tchan'[t]["private"] = tchan[t]["private"]
    BY <1>1, <1>4
  <2>2. Due(fwdTo) /\ \A t \in Thread : t = fwdTo => ~Due(t)'
    <3>1. fwdTo \in Nat
      BY ChannelTypes
    <3> QED
      BY <1>1, <1>4, <3>1 DEF Due
  <2>3. /\ Sorted(old) /\ Follows(fwd, old) /\ Ahead(old, mchan["private"])
        /\ Leads(fwd, mchan["private"])
    BY <1>1, <2>2 DEF PathsSorted, AheadOfMain
  <2>4. ASSUME NEW t \in Thread, NEW s, Earlier(s, t)
        PROVE  Earlier(s, t)'
    <3>1. CASE t # fwdTo
      BY <1>1, <1>2, <2>1, <2>4, <3>1 DEF Earlier, AheadOfMain
    <3>2. CASE t = fwdTo
      <4>1. Ahead(s, old) /\ Follows(fwd, s) /\ Ahead(s, mchan["private"])
        BY <2>2, <2>4, <3>2 DEF Earlier, AheadOfMain
      <4>2. Ahead(s, Append(old, fwd))
        BY <1>1, <2>1, <4>1, OrderAppend
      <4>3. Ahead(s, tchan'[t]["private"]) /\ ~Due(t)'
        BY <1>1, <2>1, <2>2, <3>2, <4>2
      <4> QED
        BY <1>1, <4>1, <4>3 DEF Earlier, AheadOfMain
    <3> QED
      BY <3>1, <3>2
  <2>5. Sorted(Append(old, fwd)) /\ Ahead(Append(old, fwd), mchan["private"])
    BY <1>1, <2>1, <2>3, OrderAppend
  <2>6. PathsSorted'
    BY <1>1, <1>2, <2>1, <2>2, <2>5 DEF PathsSorted, AheadOfMain
  <2> QED
    BY <2>4, <2>6
<1> QED
  BY <1>1, <1>3, <1>4

(* A delivery: the message is ahead of all that its receiver is still to   *)
(* get, and behind what it has got.                                        *)
LEMMA DeliverPaths ==
  ASSUME TypeInv, FlowInv, PathsSorted, NEW t \in Thread, NEW k \in Kind, ThreadTake(t, k),
         NEW e, e = Head(tchan[t][k])
  PROVE  /\ PathsSorted'
         /\ \A u \in Thread : \A s : Earlier(s, u) => Earlier(s, u)'
         /\ \A s \in Seq(Event) : Earlier(s, t) => Follows(e, s) /\ Earlier(Append(s, e), t)'
<1> DEFINE old == tchan[t][k]
<1>1. /\ old \in Seq(Event) /\ old # <<>>
      /\ tchan' = [tchan EXCEPT ![t][k] = Tail(old)]
      /\ tchan \in [Thread -> [Kind -> Seq(Event)]]
      /\ UNCHANGED <<mpc, mchan, fwd, fwdTo>>
  BY DEF ThreadTake, mainvars, TypeInv, TypeOK
<1>2. e \in Event /\ e.kind = k
  BY DeliverFlow
<1>3. \A u \in Thread : Due(u)' <=> Due(u)
  BY <1>1 DEF Due
<1>4. CASE k = "global"
  <2>1. \A u \in Thread : tchan'[u]["private"] = tchan[u]["private"]
    BY <1>1, <1>4
  <2>2. PathsSorted' /\ \A u \in Thread : \A s : Earlier(s, u) => Earlier(s, u)'
    BY <1>1, <1>3, <2>1, SamePaths
  <2>3. (\A d : Precedes(e, d) /\ Precedes(d, e)) /\ \A s : Follows(e, s) /\ Leads(e, s)
    BY <1>2, <1>4 DEF Precedes, Follows, Leads
  <2>4. ASSUME NEW s \in Seq(Event), Earlier(s, t)
        PROVE  Earlier(Append(s, e), t)'
    <3>1. /\ Ahead(s, tchan'[t]["private"]) /\ Ahead(s, mchan'["private"])
          /\ Due(t)' => Follows(fwd', s)
      BY <2>2, <2>4 DEF Earlier, AheadOfMain
    <3>2. /\ Ahead(Append(s, e), tchan'[t]["private"]) /\ Ahead(Append(s, e), mchan'["private"])
          /\ Due(t)' => Follows(fwd', Append(s, e))
      BY <1>2, <2>3, <3>1, OrderAppend
    <3> QED
      BY <3>2 DEF Earlier, AheadOfMain
  <2> QED
    BY <2>2, <2>3, <2>4
<1>5. CASE k = "private"
  <2>1. /\ old = tchan[t]["private"] /\ tchan'[t]["private"] = Tail(old) /\ e = Head(old)
        /\ \A u \in Thread : u # t => tchan'[u]["private"] = tchan[u]["private"]
    BY <1>1, <1>5
  <2>2. /\ Sorted(old) /\ Ahead(old, mchan["private"])
        /\ Due(t) => Follows(fwd, old)
    BY <2>1 DEF PathsSorted, AheadOfMain
  <2> HIDE DEF old
  <2>3. /\ Sorted(Tail(old)) /\ Leads(e, Tail(old))
        /\ Ahead(Tail(old), mchan["private"]) /\ Leads(e, mchan["private"])
        /\ Due(t) => Follows(fwd, Tail(old)) /\ Precedes(e, fwd)
        /\ \A r : Ahead(r, old) => Ahead(r, Tail(old)) /\ Follows(e, r)
    BY <1>1, <2>1, <2>2, OrderTail
  <2>4. \A u \in Thread : \A s : Earlier(s, u) => Earlier(s, u)'
    BY <1>1, <1>3, <2>1, <2>3 DEF Earlier, AheadOfMain
  <2>5. PathsSorted'
    BY <1>1, <1>3, <2>1, <2>3 DEF PathsSorted, AheadOfMain
  <2>6. ASSUME NEW s \in Seq(Event), Earlier(s, t)
        PROVE  Follows(e, s) /\ Earlier(Append(s, e), t)'
    <3>1. /\ Follows(e, s) /\ Ahead(s, Tail(old)) /\ Ahead(s, mchan["private"])
          /\ Due(t) => Follows(fwd, s)
      BY <2>1, <2>3, <2>6 DEF Earlier, AheadOfMain
    <3>2. /\ Ahead(Append(s, e), Tail(old)) /\ Ahead(Append(s, e), mchan["private"])
          /\ Due(t) => Follows(fwd, Append(s, e))
      BY <1>2, <2>3, <3>1, OrderAppend
    <3> QED
      BY <1>1, <1>3, <2>1, <3>1, <3>2 DEF Earlier, AheadOfMain
  <2> QED
    BY <2>4, <2>5, <2>6
<1> QED
  BY <1>4, <1>5

(* A publication: its message follows all that was asked for before.       *)
LEMMA PublishPaths ==
  ASSUME TypeInv, Names, AllAsked, PathsSorted, NEW t \in Thread, PublishSend(t)
  PROVE  /\ PathsSorted'
         /\ \A u \in Thread : \A s \in Seq(Asked) : Earlier(s, u) => Earlier(s, u)'
<1>1. PICK e : e = MessageOf(reading[t], NextRequest(t))
  OBVIOUS
<1>2. /\ e \in Event /\ e.kind \in Kind /\ mchan \in [Kind -> Seq(Event)]
      /\ mchan' = [mchan EXCEPT ![e.kind] = Append(@, e)]
      /\ UNCHANGED <<mpc, fwd, fwdTo, tchan>>
  BY <1>1, PublishedMessage DEF PublishSend, TypeInv, TypeOK
<1>3. ASSUME NEW d \in Asked
      PROVE  Precedes(d, e)
  <2>1. d.seq <= done[d.from] /\ d.seq \in Nat
    BY DEF Asked, Event
  <2>2. e.from = reading[t] /\ e.seq = done[reading[t]] + 1
    BY <1>1 DEF MessageOf
  <2>3. done[reading[t]] \in Nat
    <3>1. Reads(t, Kind)
      BY DEF PublishSend
    <3> QED
      BY <3>1, RequestType, PlanType
  <2> QED
    BY <2>1, <2>2, <2>3 DEF Precedes
<1>4. \A s \in Seq(Asked) : Follows(e, s)
  BY <1>3 DEF Follows
<1>5. \A u \in Thread : Due(u)' <=> Due(u)
  BY <1>2 DEF Due
<1>6. CASE e.kind = "global"
  <2>1. mchan'["private"] = mchan["private"]
    BY <1>2, <1>6
  <2> QED
    BY <1>2, <1>5, <2>1, SamePaths
<1>7. CASE e.kind = "private"
  <2> DEFINE old == mchan["private"]
  <2>1. old \in Seq(Event) /\ old \in Seq(Asked) /\ mchan'["private"] = Append(old, e)
    BY <1>2, <1>7 DEF AllAsked
  <2> HIDE DEF old
  <2>2. Sorted(old) => Sorted(Append(old, e))
    BY <1>2, <1>4, <2>1, OrderAppend
  <2>3. \A s \in Seq(Asked) : Ahead(s, old) => Ahead(s, Append(old, e))
    BY <1>2, <1>4, <2>1, OrderAppend
  <2>4. \A u \in Thread : \A s \in Seq(Asked) : Earlier(s, u) => Earlier(s, u)'
    BY <1>2, <1>5, <2>1, <2>3 DEF Earlier, AheadOfMain, old
  <2>5. \A u \in Thread : tchan[u]["private"] \in Seq(Asked)
    BY DEF AllAsked
  <2>6. ASSUME NEW u \in Thread, Due(u)
        PROVE  Leads(fwd, Append(old, e))
    <3>1. fwd \in Asked
      BY <2>6 DEF AllAsked, Due
    <3>2. Leads(fwd, old)
      BY <2>6 DEF PathsSorted, old
    <3> QED
      BY <1>2, <1>3, <2>1, <3>1, <3>2, OrderAppend
  <2>7. PathsSorted'
    BY <1>2, <1>5, <2>1, <2>2, <2>3, <2>5, <2>6 DEF PathsSorted, AheadOfMain, old
  <2> QED
    BY <2>4, <2>7
<1> QED
  BY <1>2, <1>6, <1>7

(* A message that is not private has no place in that order.               *)
LEMMA NotPrivate ==
  /\ \A s : (\A i \in 1 .. Len(s) : s[i].kind # "private")
              => Sorted(s) /\ (\A d : Follows(d, s)) /\ (\A r : Ahead(s, r))
  /\ \A e : e.kind # "private" => \A s : Follows(e, s) /\ Leads(e, s)
BY DEF Sorted, Follows, Leads, Ahead, Precedes

Unserved == {"new", "backlog", "queued"}

(* Nobody joins, and no message is delivered.                              *)
LEMMA SameClients ==
  ASSUME Homed, AllAsked, ClientsSorted, UNCHANGED outbox,
         \A c \in Conn : stage'[c] = "open" => stage[c] = "open" /\ home'[c] = home[c],
         \A c \in Conn : stage'[c] \in Unserved => stage[c] \in Unserved,
         \A t \in Thread : \A s \in Seq(Asked) : Earlier(s, t) => Earlier(s, t)'
  PROVE  ClientsSorted'
<1>1. ASSUME NEW c \in Conn, stage'[c] = "open"
      PROVE  Earlier(outbox[c], home[c])'
  <2>1. PICK s : s = outbox[c]
    OBVIOUS
  <2>2. PICK t \in Thread : t = home[c]
    BY <1>1 DEF Homed
  <2>3. s \in Seq(Asked)
    <3>1. Addressed(c) \subseteq Asked
      BY DEF Addressed
    <3> QED
      BY <2>1, <3>1, SeqGrows DEF AllAsked
  <2>4. Earlier(s, t)
    BY <1>1, <2>1, <2>2 DEF ClientsSorted
  <2>5. Earlier(s, t)'
    BY <2>3, <2>4
  <2> QED
    BY <1>1, <2>1, <2>2, <2>5 DEF Earlier, AheadOfMain, Due
<1> QED
  BY <1>1 DEF ClientsSorted, Unserved

(* Whoever joins has not been given a private message yet.                 *)
LEMMA AdoptSorted ==
  ASSUME TypeInv, Homed, AllAsked, PathsSorted, ClientsSorted,
         NEW t \in Thread, NEW c \in Conn, ThreadAdopt(t, c)
  PROVE  PathsSorted' /\ ClientsSorted'
<1>1. /\ stage[c] = "queued" /\ stage' = [stage EXCEPT ![c] = "open"]
      /\ stage \in [Conn -> {"new", "backlog", "queued", "open", "gone"}]
      /\ UNCHANGED <<home, outbox, mpc, mchan, fwd, fwdTo, tchan>>
  BY DEF ThreadAdopt, mainvars, threads, TypeInv, TypeOK
<1>2. PathsSorted' /\ \A u \in Thread : \A s : Earlier(s, u) => Earlier(s, u)'
  BY <1>1, SamePaths DEF Due
<1>3. Earlier(outbox[c], home[c])'
  BY <1>1, NotPrivate DEF ClientsSorted, Earlier, AheadOfMain
<1>4. ASSUME NEW d \in Conn, stage'[d] = "open", d # c
      PROVE  Earlier(outbox[d], home[d])'
  <2>1. stage[d] = "open"
    BY <1>1, <1>4
  <2>0. PICK s : s = outbox[d]
    OBVIOUS
  <2>2. PICK u \in Thread : u = home[d]
    BY <2>1 DEF Homed
  <2>3. Earlier(s, u)'
    BY <1>2, <2>1, <2>0, <2>2 DEF ClientsSorted
  <2> QED
    BY <1>1, <2>0, <2>2, <2>3 DEF Earlier, AheadOfMain, Due
<1>5. \A d \in Conn : stage'[d] \in {"new", "backlog", "queued"} => stage[d] = stage'[d]
  BY <1>1
<1> QED
  BY <1>1, <1>2, <1>3, <1>4, <1>5 DEF ClientsSorted

LEMMA DeliverySorted ==
  ASSUME TypeInv, FlowInv, Homed, AllAsked, PathsSorted, ClientsSorted,
         NEW t \in Thread, NEW k \in Kind, ThreadTake(t, k)
  PROVE  PathsSorted' /\ ClientsSorted'
<1>1. PICK e : e = Head(tchan[t][k])
  OBVIOUS
<1>2. /\ PathsSorted'
      /\ \A u \in Thread : \A s : Earlier(s, u) => Earlier(s, u)'
      /\ \A s \in Seq(Event) : Earlier(s, t) => Follows(e, s) /\ Earlier(Append(s, e), t)'
  BY <1>1, DeliverPaths
<1>3. /\ outbox' = [c \in Conn |->
                    IF c \in Receivers(t, e) THEN Append(outbox[c], e) ELSE outbox[c]]
      /\ outbox \in [Conn -> Seq(Event)] /\ e \in Event
      /\ UNCHANGED <<stage, home>>
  BY <1>1, DeliverFlow DEF ThreadTake, TypeInv, TypeOK
<1>4. ASSUME NEW c \in Conn, c \in Receivers(t, e)
      PROVE  /\ Sorted(outbox'[c]) /\ stage'[c] = "open"
             /\ Earlier(outbox[c], home[c])'
  <2>1. PICK s \in Seq(Event) : s = outbox[c]
    BY <1>3
  <2>2. stage[c] = "open" /\ home[c] = t
    BY <1>4 DEF Receivers, connections
  <2>3. Sorted(s) /\ Earlier(s, t)
    BY <2>1, <2>2 DEF ClientsSorted
  <2>4. Follows(e, s) /\ Earlier(Append(s, e), t)'
    BY <1>2, <2>3
  <2>5. outbox'[c] = Append(s, e) /\ home'[c] = t
    BY <1>3, <1>4, <2>1, <2>2
  <2>6. Sorted(outbox'[c])
    BY <1>3, <2>3, <2>4, <2>5, OrderAppend
  <2> QED
    BY <1>3, <2>2, <2>4, <2>5, <2>6 DEF Earlier, AheadOfMain, Due
<1>5. ASSUME NEW c \in Conn, c \notin Receivers(t, e), stage[c] = "open"
      PROVE  Earlier(outbox[c], home[c])'
  <2>0. PICK s : s = outbox[c]
    OBVIOUS
  <2>1. PICK u \in Thread : u = home[c]
    BY <1>5 DEF Homed
  <2>2. Earlier(s, u)'
    BY <1>2, <1>5, <2>0, <2>1 DEF ClientsSorted
  <2>3. outbox'[c] = s /\ home'[c] = u
    BY <1>3, <1>5, <2>0, <2>1
  <2> QED
    BY <2>2, <2>3 DEF Earlier, AheadOfMain, Due
<1>6. \A c \in Conn : c \notin Receivers(t, e) => outbox'[c] = outbox[c]
  BY <1>3
<1> QED
  BY <1>2, <1>3, <1>4, <1>5, <1>6 DEF ClientsSorted

(* A pong takes no part in the order.                                      *)
LEMMA PingSorted ==
  ASSUME TypeInv, Homed, PathsSorted, ClientsSorted, NEW t \in Thread, ProcessPing(t)
  PROVE  PathsSorted' /\ ClientsSorted'
<1>1. PICK e, c : c = reading[t] /\ e = MessageOf(c, NextRequest(t))
  OBVIOUS
<1>2. /\ e \in Event /\ e.kind = "pong" /\ c \in Conn
  <2>1. NextRequest(t).kind = "ping"
    BY DEF ProcessPing, Reads
  <2>2. Reads(t, Kind \union {"ping"})
    BY DEF ProcessPing, Reads
  <2> QED
    BY <1>1, <2>1, <2>2, RequestType, MessageType DEF MessageOf
<1>3. /\ outbox' = [outbox EXCEPT ![c] = Append(@, e)] /\ outbox \in [Conn -> Seq(Event)]
      /\ UNCHANGED <<stage, home, mpc, mchan, fwd, fwdTo, tchan>>
  BY <1>1 DEF ProcessPing, mainvars, threads, TypeInv, TypeOK
<1>4. PathsSorted' /\ \A u \in Thread : \A s : Earlier(s, u) => Earlier(s, u)'
  BY <1>3, SamePaths DEF Due
<1>5. PICK s \in Seq(Event) : s = outbox[c]
  BY <1>2, <1>3
<1>6. outbox'[c] = Append(s, e) /\ \A d \in Conn : d # c => outbox'[d] = outbox[d]
  BY <1>2, <1>3, <1>5
<1>7. (\A r : Follows(e, r) /\ Leads(e, r)) /\ (\A d : Precedes(e, d))
  BY <1>2, NotPrivate DEF Precedes
<1>8. Sorted(outbox'[c])
  BY <1>2, <1>5, <1>6, <1>7, OrderAppend DEF ClientsSorted
<1>9. ASSUME NEW d \in Conn, stage'[d] = "open"
      PROVE  Earlier(outbox[d], home[d])'
  <2>1. stage[d] = "open"
    BY <1>3, <1>9
  <2>0. PICK r : r = outbox[d]
    OBVIOUS
  <2>2. PICK u \in Thread : u = home[d]
    BY <2>1 DEF Homed
  <2>3. Earlier(r, u)'
    BY <1>4, <2>1, <2>0, <2>2 DEF ClientsSorted
  <2>4. CASE d # c
    BY <1>3, <1>6, <2>0, <2>2, <2>3, <2>4 DEF Earlier, AheadOfMain, Due
  <2>5. CASE d = c
    <3>1. Earlier(Append(s, e), u)'
      BY <1>2, <1>5, <1>7, <2>0, <2>2, <2>3, <2>5, OrderAppend DEF Earlier, AheadOfMain
    <3> QED
      BY <1>3, <1>6, <2>0, <2>2, <2>5, <3>1 DEF Earlier, AheadOfMain, Due
  <2> QED
    BY <2>4, <2>5
<1>10. \A d \in Conn : stage[d] \in {"new", "backlog", "queued"}
         => \A i \in 1 .. Len(outbox'[d]) : outbox'[d][i].kind # "private"
  <2>1. \A i \in 1 .. Len(Append(s, e)) :
          (i \in 1 .. Len(s) /\ Append(s, e)[i] = s[i]) \/ Append(s, e)[i] = e
    BY <1>2, AppendParts
  <2> QED
    BY <1>2, <1>5, <1>6, <2>1 DEF ClientsSorted
<1> QED
  BY <1>3, <1>4, <1>6, <1>8, <1>9, <1>10 DEF ClientsSorted

(* Steps by which nothing moves on the way of private messages.            *)
LEMMA RestSorted ==
  ASSUME TypeInv, FlowInv, Homed, AllAsked, PathsSorted, ClientsSorted,
         UNCHANGED <<mchan, tchan, outbox>>,
         \A t \in Thread : Due(t)' => Due(t) /\ fwd' = fwd,
         \A c \in Conn : stage'[c] = "open" => stage[c] = "open" /\ home'[c] = home[c],
         \A c \in Conn : stage'[c] \in Unserved => stage[c] \in Unserved
  PROVE  PathsSorted' /\ ClientsSorted'
<1>1. PathsSorted' /\ \A t \in Thread : \A s : Earlier(s, t) => Earlier(s, t)'
  BY SamePaths
<1> QED
  BY <1>1, SameClients

LEMMA StepSorted ==
  ASSUME TypeInv, FlowInv, Homed, Names, AllAsked, PathsSorted, ClientsSorted, [Next]_vars
  PROVE  PathsSorted' /\ ClientsSorted'
<1>1. ASSUME NEW k \in Kind, MainTake(k)
      PROVE  PathsSorted' /\ ClientsSorted'
  <2>1. UNCHANGED <<stage, home, outbox>>
    BY <1>1 DEF MainTake, conns
  <2> QED
    BY <1>1, <2>1, TakePaths, SameClients
<1>2. CASE MainSend
  <2>1. UNCHANGED <<stage, home, outbox>>
    BY <1>2 DEF MainSend, conns
  <2> QED
    BY <1>2, <2>1, SendPaths, SameClients
<1>3. ASSUME NEW t \in Thread, PublishSend(t)
      PROVE  PathsSorted' /\ ClientsSorted'
  <2>1. UNCHANGED <<stage, home, outbox>>
    BY <1>3 DEF PublishSend
  <2> QED
    BY <1>3, <2>1, PublishPaths, SameClients
<1>4. ASSUME NEW t \in Thread, NEW k \in Kind, ThreadTake(t, k)
      PROVE  PathsSorted' /\ ClientsSorted'
  BY <1>4, DeliverySorted
<1>5. ASSUME NEW t \in Thread, NEW c \in Conn, ThreadAdopt(t, c)
      PROVE  PathsSorted' /\ ClientsSorted'
  BY <1>5, AdoptSorted
<1>6. ASSUME NEW t \in Thread, ProcessPing(t)
      PROVE  PathsSorted' /\ ClientsSorted'
  BY <1>6, PingSorted
<1>7. CASE MainWake
  <2>1. /\ UNCHANGED <<stage, home, outbox, mchan, tchan>>
        /\ mpc = "wake" /\ mpc' # "panicked" /\ fwdTo \in Nat
        /\ (fwdTo' = fwdTo + 1 /\ fwd' = fwd) \/ fwd' = None
    BY <1>7, ChannelTypes DEF MainWake, conns, TypeInv, TypeOK, Relaying
  <2>2. \A t \in Thread : Due(t)' => Due(t) /\ fwd' = fwd
    <3>1. \A t \in Thread : t \in Nat
      BY DEF Thread
    <3> QED
      BY <2>1, <3>1 DEF Due
  <2> QED
    BY <2>1, <2>2, RestSorted
<1> DEFINE Still == /\ UNCHANGED <<outbox, mchan, fwd, fwdTo, tchan>>
                    /\ mpc' = mpc \/ fwd = None \/ (mpc = "send" /\ mpc' = "panicked")
           Leaving == /\ \A c \in Conn : stage'[c] = "open" => stage[c] = "open" /\ home'[c] = home[c]
                      /\ \A c \in Conn : stage'[c] \in Unserved => stage[c] \in Unserved
<1>8. CASE Still /\ Leaving
  <2>1. \A t \in Thread : Due(t)' => Due(t) /\ fwd' = fwd
    BY <1>8 DEF Due
  <2> QED
    BY <1>8, <2>1, RestSorted
<1>9. stage \in [Conn -> {"new", "backlog", "queued", "open", "gone"}]
  BY DEF TypeInv, TypeOK
<1>10. ASSUME \/ \E c \in Conn : Connect(c) \/ MainAccept(c)
              \/ MainReturns \/ MainAcceptPanics \/ MainSendPanics \/ MainAcceptFails
       PROVE  Still /\ Leaving
  <2>1. Still
    BY <1>10 DEF Connect, MainAccept, MainReturns, MainAcceptPanics, MainSendPanics,
                 MainAcceptFails, MainStops, FlowInv, Held, mainvars, threads
  <2>2. ASSUME NEW c \in Conn, Connect(c) \/ MainAccept(c)
        PROVE  Leaving
    <3>1. /\ stage' = [stage EXCEPT ![c] = "backlog"] \/ stage' = [stage EXCEPT ![c] = "queued"]
          /\ stage[c] \in Unserved /\ \A d \in Conn : d # c => home'[d] = home[d]
      BY <2>2 DEF Connect, MainAccept, Unserved, TypeInv, TypeOK
    <3> QED
      BY <1>9, <3>1
  <2>3. ASSUME MainReturns \/ MainAcceptPanics \/ MainSendPanics \/ MainAcceptFails
        PROVE  Leaving
    <3>1. /\ stage' = [c \in Conn |-> IF stage[c] = "backlog" THEN "gone" ELSE stage[c]]
          /\ home' = home
      BY <2>3 DEF MainReturns, MainAcceptPanics, MainSendPanics, MainAcceptFails, MainStops
    <3>2. \A c \in Conn : stage'[c] = stage[c] \/ stage'[c] = "gone"
      BY <3>1
    <3>3. \A c \in Conn : (stage'[c] # "open" /\ stage'[c] \notin Unserved) \/ stage'[c] = stage[c]
      BY <3>2 DEF Unserved
    <3> QED
      BY <3>1, <3>3
  <2> QED
    BY <1>10, <2>1, <2>2, <2>3
<1>11. ASSUME \/ MainPoll \/ (\E e \in mbatch : MainEvent(e)) \/ MainAcceptBlocks
              \/ MainAcceptWake \/ (\E k \in Kind : MainDrained(k))
              \/ SetStop \/ JoinStep \/ UNCHANGED vars
       PROVE  Still /\ Leaving
  <2>1. Still /\ UNCHANGED <<stage, home>>
    BY <1>11 DEF MainPoll, MainEvent, MainAcceptBlocks, MainAcceptWake, MainDrained, SetStop,
                 JoinStep, JoinThread, JoinReturns, JoinPanics, FlowInv, Held,
                 conns, mainvars, threads, vars
  <2> QED
    BY <2>1
<1>12. ASSUME NEW t \in Thread,
              ThreadReturns(t) \/ PublishPanics(t) \/ RemoveConnection(t)
       PROVE  Still /\ Leaving
  <2>1. Still
    BY <1>12 DEF ThreadReturns, PublishPanics, RemoveConnection, mainvars
  <2>2. Leaving
    BY <1>9, <1>12 DEF ThreadReturns, PublishPanics, RemoveConnection, ThreadStops, Unserved
  <2> QED
    BY <2>1, <2>2
<1>13. ASSUME NEW t \in Thread,
              \/ ThreadPoll(t) \/ ThreadWaker(t) \/ (\E c \in Conn : ThreadReadable(t, c))
              \/ ThreadAdopted(t) \/ (\E k \in Kind : ThreadDrained(t, k))
              \/ ProcessLogin(t) \/ PublishIgnored(t) \/ PublishWake(t) \/ ReadBlocks(t)
       PROVE  Still /\ Leaving
  <2>1. Still /\ UNCHANGED <<stage, home>>
    BY <1>13 DEF ThreadPoll, ThreadWaker, ThreadReadable, ThreadAdopted, ThreadDrained,
                 ProcessLogin, PublishIgnored, PublishWake, ReadBlocks, conns, mainvars, threads
  <2> QED
    BY <2>1
<1> HIDE DEF Still, Leaving
<1>14. ASSUME NEW t \in Thread, ThreadStep(t) \/ ThreadPoll(t)
       PROVE  PathsSorted' /\ ClientsSorted'
  BY <1>3, <1>4, <1>5, <1>6, <1>8, <1>12, <1>13, <1>14 DEF ThreadStep
<1> QED
  BY <1>1, <1>2, <1>7, <1>8, <1>10, <1>11, <1>14 DEF Next, MainStep

(* A private message reaches only connections that have logged in with the *)
(* addressee's name, reaches none of them twice, and those of one sender   *)
(* arrive in the order they were sent (connection_thread.rs:136-157,       *)
(* server.rs:171-183).                                                     *)
THEOREM PrivateMessagesInOrder == Spec => []PrivateDelivery
<1>1. Init => PathsSorted /\ ClientsSorted
  <2> SUFFICES ASSUME Init PROVE PathsSorted /\ ClientsSorted
    OBVIOUS
  <2>1. mchan["private"] = <<>> /\ fwd = None /\ \A t \in Thread : tchan[t]["private"] = <<>>
    BY DEF Init
  <2>2. \A c \in Conn : outbox[c] = <<>> /\ stage[c] = "new"
    BY DEF Init
  <2> QED
    BY <2>1, <2>2 DEF PathsSorted, ClientsSorted, AheadOfMain, Due, Sorted, Ahead
<1>2. TypeInv /\ FlowInv /\ Homed /\ Names /\ AllAsked /\ PathsSorted /\ ClientsSorted
        /\ [Next]_vars => PathsSorted' /\ ClientsSorted'
  BY StepSorted
<1>3. AllAsked /\ ClientsSorted => PrivateDelivery
  <2> SUFFICES ASSUME AllAsked, ClientsSorted,
                      NEW c \in Conn, NEW i \in 1 .. Len(outbox[c]), outbox[c][i].kind = "private"
               PROVE  LET e == outbox[c][i] IN
                      /\ \E j \in 1 .. done[c] : plan[c][j] = [kind |-> "login", user |-> e.to]
                      /\ \A h \in 1 .. i - 1 :
                           outbox[c][h].kind = "private" /\ outbox[c][h].from = e.from
                             => outbox[c][h].seq < e.seq
    BY DEF PrivateDelivery
  <2>1. outbox[c] \in Seq(Addressed(c)) /\ Sorted(outbox[c])
    BY DEF AllAsked, ClientsSorted
  <2>2. outbox[c][i] \in Addressed(c)
    BY <2>1
  <2>3. \A h \in 1 .. i - 1 : h \in 1 .. Len(outbox[c]) /\ h < i
    BY <2>1
  <2> QED
    BY <2>1, <2>2, <2>3 DEF Addressed, Sorted, Precedes
<1> QED
  BY <1>1, <1>2, <1>3, TypeInvHolds, FlowInvHolds, AskedHolds, PTL DEF Spec
=============================================================================
