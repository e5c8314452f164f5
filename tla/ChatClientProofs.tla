-------------------------- MODULE ChatClientProofs --------------------------
(***************************************************************************)
(* Proofs about the client: a message in the channel has its wakeup,       *)
(* neither thread panics or is left behind without a reason, texts are     *)
(* sent as they were entered and after the login, and the console shows    *)
(* what was sent and read.  They hold for any texts, any number of         *)
(* messages and any limit of a packet.                                     *)
(***************************************************************************)
EXTENDS ChatClient, SubsequenceProofs

USE DEF app, text, interface, channels, client, server, outside, vars

(* The steps that end neither thread and set no flag. *)
Quiet ==
  \/ Draw \/ KeyE \/ KeyP \/ Esc \/ Backspace \/ EnterPrivateUsername
  \/ \E c \in {"private", "name", "text", "space"} : KeyChar(c)

LEMMA QuietChanges ==
  ASSUME Quiet
  PROVE  /\ ui = "run" /\ UNCHANGED <<ui, should_stop, channel, waker, client, server>>
<1>1. CASE Draw
  BY <1>1 DEF Draw
<1>2. CASE KeyE \/ KeyP \/ Esc
  BY <1>2 DEF KeyE, KeyP, Esc, SwitchMode, KeyPressed
<1>3. CASE Backspace \/ EnterPrivateUsername
  BY <1>3 DEF Backspace, EnterPrivateUsername, KeyPressed
<1>4. CASE \E c \in {"private", "name", "text", "space"} : KeyChar(c)
  BY <1>4 DEF KeyChar, KeyPressed
<1> QED
  BY <1>1, <1>2, <1>3, <1>4 DEF Quiet

(* The remaining steps, and those above. *)
LEMMA NextCases ==
  ASSUME Next
  PROVE  \/ Quiet \/ UIFails \/ KeyQ \/ Joined \/ EnterSends \/ EnterPanics \/ Wake
         \/ Poll \/ \E e \in batch : HandleEvent(e)
         \/ SendMessage \/ Drained \/ EncodeFails
         \/ ProcessChat \/ ProcessChatPanics \/ ProcessOther \/ ReadBlocks \/ ReadEnds
         \/ \E kind \in Incoming : ServerSends(kind)
         \/ ServerCloses
BY DEF Next, User, UIStep, NetStep, Quiet

-----------------------------------------------------------------------------
(* No wakeup is lost.  The invariant is inductive as it stands: send comes *)
(* before wake, poll hands the wakeup on to the batch, and the channel is  *)
(* left only when it is empty.                                             *)

LEMMA WakeupStep ==
  ASSUME NoLostWakeup, [Next]_vars
  PROVE  NoLostWakeup'
<1>1. CASE Quiet
  BY <1>1, QuietChanges DEF NoLostWakeup, ThreadGone
<1>2. CASE UIFails \/ KeyQ \/ Joined \/ EnterPanics
  BY <1>2 DEF NoLostWakeup, ThreadGone, UIFails, KeyQ, Joined, EnterPanics
<1>3. CASE EnterSends
  BY <1>3 DEF NoLostWakeup, ThreadGone, EnterSends
<1>4. CASE Wake
  BY <1>4 DEF NoLostWakeup, ThreadGone, Wake, Woken
<1>5. CASE Poll
  <2>1. waker => "waker" \in batch' \/ net' = "returned"
    BY <1>5 DEF Poll
  <2> QED
    BY <1>5, <2>1 DEF NoLostWakeup, ThreadGone, Poll
<1>6. ASSUME NEW e \in batch, HandleEvent(e)
      PROVE  NoLostWakeup'
  BY <1>6 DEF NoLostWakeup, ThreadGone, HandleEvent
<1>7. CASE SendMessage \/ Drained
  BY <1>7 DEF NoLostWakeup, ThreadGone, SendMessage, Drained
<1>8. CASE EncodeFails \/ ProcessChat \/ ProcessChatPanics \/ ProcessOther \/ ReadBlocks \/ ReadEnds
  BY <1>8 DEF NoLostWakeup, ThreadGone, EncodeFails, ProcessChat, ProcessChatPanics,
              ProcessOther, ReadBlocks, ReadEnds, Reads
<1>9. CASE (\E kind \in Incoming : ServerSends(kind)) \/ ServerCloses
  BY <1>9 DEF NoLostWakeup, ThreadGone, ServerSends, ServerCloses
<1>10. CASE UNCHANGED vars
  BY <1>10 DEF NoLostWakeup, ThreadGone
<1> QED
  BY <1>1, <1>2, <1>3, <1>4, <1>5, <1>6, <1>7, <1>8, <1>9, <1>10, NextCases

(* A message for the client thread never waits in the channel without a    *)
(* wakeup, wherever the two threads are (client.rs:102-120, 159-165).      *)
THEOREM ClientLosesNoWakeup == Spec => []NoLostWakeup
<1>1. Init => NoLostWakeup
  BY DEF Init, NoLostWakeup
<1>2. NoLostWakeup /\ [Next]_vars => NoLostWakeup'
  BY WakeupStep
<1> QED
  BY <1>1, <1>2, PTL DEF Spec

-----------------------------------------------------------------------------
(* Why a thread ends.  A reason, once there is one, stays.                 *)

TooLongSent == \E i \in DOMAIN sent : TooLong(sent[i])

Reason ==
  \/ line # "open"
  \/ \E i \in DOMAIN incoming : incoming[i] = "invalid"
  \/ TooLongSent

(* What the messages are does not matter here, but that they stay.         *)
Histories ==
  /\ \E S : sent \in Seq(S) /\ channel \in Seq(S)
  /\ incoming \in Seq(Incoming)
  /\ read \in Nat

LEMMA Appended ==
  ASSUME NEW S, NEW s \in Seq(S), NEW e
  PROVE  /\ s \in Seq(S \union {e})
         /\ Append(s, e) \in Seq(S \union {e})
         /\ DOMAIN s \subseteq DOMAIN Append(s, e)
         /\ \A i \in DOMAIN s : Append(s, e)[i] = s[i]
<1>1. s \in Seq(S \union {e})
  OBVIOUS
<1> QED
  BY <1>1

LEMMA HistoriesInit == Init => Histories
<1> SUFFICES ASSUME Init PROVE Histories
  OBVIOUS
<1>1. sent \in Seq({}) /\ channel \in Seq({}) /\ incoming \in Seq(Incoming) /\ read \in Nat
  BY DEF Init
<1> QED
  BY <1>1 DEF Histories

(* Messages move from the user to the channel and from there to sent. *)
LEMMA SentGrows ==
  ASSUME Histories, EnterSends \/ SendMessage \/ ProcessOther
  PROVE  /\ \E S : sent' \in Seq(S) /\ channel' \in Seq(S)
         /\ DOMAIN sent \subseteq DOMAIN sent'
         /\ \A i \in DOMAIN sent : sent'[i] = sent[i]
<1>0. PICK S : sent \in Seq(S) /\ channel \in Seq(S)
  BY DEF Histories
<1>1. CASE EnterSends
  <2>1. PICK m : channel' = Append(channel, m) /\ sent' = sent
    BY <1>1 DEF EnterSends
  <2>2. sent' \in Seq(S \union {m}) /\ channel' \in Seq(S \union {m})
    BY <1>0, <2>1, Appended
  <2> QED
    BY <2>1, <2>2
<1>2. CASE SendMessage
  <2>1. channel # <<>> /\ sent' = Append(sent, Head(channel)) /\ channel' = Tail(channel)
    BY <1>2 DEF SendMessage
  <2>2. Head(channel) \in S /\ channel' \in Seq(S) /\ sent' \in Seq(S)
    BY <1>0, <2>1
  <2> QED
    BY <1>0, <2>1, <2>2, Appended
<1>3. CASE ProcessOther
  <2>1. channel' = channel /\ (sent' = sent \/ sent' = Append(sent, Pong))
    BY <1>3 DEF ProcessOther
  <2>2. CASE sent' = sent
    BY <1>0, <2>1, <2>2
  <2>3. CASE sent' = Append(sent, Pong)
    <3>1. sent' \in Seq(S \union {Pong}) /\ channel' \in Seq(S \union {Pong})
      BY <1>0, <2>1, <2>3, Appended
    <3> QED
      BY <1>0, <2>3, <3>1, Appended
  <2> QED
    BY <2>1, <2>2, <2>3
<1> QED
  BY <1>1, <1>2, <1>3

LEMMA ReasonsStay ==
  ASSUME Histories, [Next]_vars
  PROVE  Histories' /\ (TooLongSent => TooLongSent') /\ (Reason => Reason')
<1>1. CASE EnterSends \/ SendMessage \/ ProcessOther
  <2>1. TooLongSent => TooLongSent'
    BY <1>1, SentGrows DEF TooLongSent, TooLong
  <2>2. UNCHANGED <<line, incoming>> /\ (read' = read \/ read' = read + 1)
    BY <1>1 DEF EnterSends, SendMessage, ProcessOther
  <2> QED
    BY <1>1, <2>1, <2>2, SentGrows DEF Histories, Reason
<1>2. CASE \E kind \in Incoming : ServerSends(kind)
  <2>1. PICK kind \in Incoming : incoming' = Append(incoming, kind)
    BY <1>2 DEF ServerSends
  <2>2. /\ incoming' \in Seq(Incoming)
        /\ \A i \in DOMAIN incoming : i \in DOMAIN incoming' /\ incoming'[i] = incoming[i]
    BY <2>1 DEF Histories
  <2>3. UNCHANGED <<line, sent, channel, read>>
    BY <1>2 DEF ServerSends
  <2> QED
    BY <2>2, <2>3 DEF Histories, Reason, TooLongSent, TooLong
<1>3. CASE ServerCloses
  BY <1>3 DEF ServerCloses, Histories, Reason, TooLongSent, TooLong
<1>4. ASSUME UNCHANGED <<sent, channel, incoming, line>>, read' = read \/ read' = read + 1
      PROVE  Histories' /\ (TooLongSent => TooLongSent') /\ (Reason => Reason')
  <2>1. Histories'
    BY <1>4 DEF Histories
  <2>2. TooLongSent' = TooLongSent
    BY <1>4 DEF TooLongSent, TooLong
  <2>3. Reason' = Reason
    BY <1>4, <2>2 DEF Reason
  <2> QED
    BY <2>1, <2>2, <2>3
<1>5. CASE Quiet
  BY <1>4, <1>5, QuietChanges
<1>6. CASE UIFails \/ KeyQ \/ Joined \/ EnterPanics \/ Wake
  BY <1>4, <1>6 DEF UIFails, KeyQ, Joined, EnterPanics, Wake
<1>7. CASE Poll \/ (\E e \in batch : HandleEvent(e)) \/ Drained \/ EncodeFails
  BY <1>4, <1>7 DEF Poll, HandleEvent, Drained, EncodeFails
<1>8. CASE ProcessChat \/ ProcessChatPanics \/ ReadBlocks \/ ReadEnds
  BY <1>4, <1>8 DEF ProcessChat, ProcessChatPanics, ReadBlocks, ReadEnds
<1>9. CASE UNCHANGED vars
  BY <1>4, <1>9
<1> QED
  BY <1>1, <1>2, <1>3, <1>5, <1>6, <1>7, <1>8, <1>9, NextCases

-----------------------------------------------------------------------------
(* How the two threads depend on each other.                               *)

Stopping == should_stop => ui \in {"join", "ended"}
UIGone == ui \in {"panicked", "ended"} => ThreadGone
NetGone == ThreadGone => should_stop \/ ui = "failed" \/ Reason
NetPanics == net = "panicked" => ui = "failed" \/ TooLongSent
UIPanics == ui = "panicked" => Reason

Ends == Histories /\ Stopping /\ UIGone /\ NetGone /\ NetPanics /\ UIPanics

LEMMA EndsInit == Init => Ends
BY HistoriesInit DEF Init, Ends, Stopping, UIGone, NetGone, NetPanics, UIPanics, ThreadGone

(* The user interface: it panics only when the thread has ended, and the   *)
(* thread has ended for a reason, since nobody has quit.                   *)
LEMMA EndsUI ==
  ASSUME Ends, Quiet \/ UIFails \/ KeyQ \/ Joined \/ EnterSends \/ EnterPanics \/ Wake
  PROVE  (Stopping /\ UIGone /\ NetGone /\ NetPanics /\ UIPanics)'
<1>0. (TooLongSent => TooLongSent') /\ (Reason => Reason')
  <2>1. Next
    BY DEF Next, User, UIStep, Quiet
  <2> QED
    BY <2>1, ReasonsStay DEF Ends
<1>1. net' = net
  BY QuietChanges DEF UIFails, KeyQ, Joined, EnterSends, EnterPanics, Wake
<1>2. CASE UNCHANGED <<ui, should_stop>>
  BY <1>0, <1>1, <1>2 DEF Ends, Stopping, UIGone, NetGone, NetPanics, UIPanics, ThreadGone
<1>3. CASE UIFails \/ KeyQ \/ EnterSends \/ Wake
  BY <1>0, <1>1, <1>3 DEF Ends, Stopping, UIGone, NetGone, NetPanics, UIPanics, ThreadGone,
                          UIFails, KeyQ, AfterStop, EnterSends, Wake
<1>4. CASE Joined
  BY <1>0, <1>1, <1>4 DEF Ends, Stopping, UIGone, NetGone, NetPanics, UIPanics, ThreadGone, Joined
<1>5. CASE EnterPanics
  BY <1>0, <1>1, <1>5 DEF Ends, Stopping, UIGone, NetGone, NetPanics, UIPanics, ThreadGone,
                          EnterPanics
<1> QED
  BY <1>2, <1>3, <1>4, <1>5, QuietChanges

(* The client thread: it returns when it is told to, or with the           *)
(* connection; it panics for a text, or when it finds the console gone.    *)
LEMMA EndsNet ==
  ASSUME Ends,
         \/ NetStep
         \/ \E kind \in Incoming : ServerSends(kind)
         \/ ServerCloses
  PROVE  (Stopping /\ UIGone /\ NetGone /\ NetPanics /\ UIPanics)'
<1>0. (TooLongSent => TooLongSent') /\ (Reason => Reason')
  <2>1. Next
    BY DEF Next
  <2> QED
    BY <2>1, ReasonsStay DEF Ends
<1>1. UNCHANGED <<ui, should_stop>> /\ (ThreadGone => net' = net)
  BY DEF NetStep, Poll, HandleEvent, SendMessage, Drained, EncodeFails, ProcessChat,
         ProcessChatPanics, ProcessOther, ReadBlocks, ReadEnds, Reads, ServerSends, ServerCloses,
         ThreadGone
<1>2. ASSUME ~ThreadGone, net' = "returned"
      PROVE  should_stop \/ Reason
  <2>1. CASE Poll
    BY <1>2, <2>1 DEF Poll
  <2>2. CASE EncodeFails
    BY <2>2 DEF EncodeFails, Reason, TooLongSent
  <2>3. CASE ReadEnds
    <3>1. CASE line = "closed"
      BY <3>1 DEF Reason
    <3>2. CASE Reads({"invalid"})
      <4>1. read + 1 \in DOMAIN incoming /\ incoming[read + 1] = "invalid"
        BY <3>2 DEF Reads, NextIncoming, Ends, Histories
      <4> QED
        BY <4>1 DEF Reason
    <3> QED
      BY <2>3, <3>1, <3>2 DEF ReadEnds
  <2> QED
    BY <1>2, <2>1, <2>2, <2>3
    DEF NetStep, HandleEvent, SendMessage, Drained, ProcessChat, ProcessChatPanics, ProcessOther,
        ReadBlocks, Reads, ServerSends, ServerCloses, ThreadGone
<1>3. ASSUME ~ThreadGone, net' = "panicked"
      PROVE  ui = "failed" \/ TooLongSent
  <2>1. CASE EncodeFails
    BY <2>1 DEF EncodeFails, TooLongSent
  <2>2. CASE ProcessChatPanics
    BY <1>3, <2>2 DEF ProcessChatPanics, ConsoleGone, Ends, UIGone
  <2> QED
    BY <1>3, <2>1, <2>2
    DEF NetStep, Poll, HandleEvent, SendMessage, Drained, ProcessChat, ProcessOther,
        ReadBlocks, ReadEnds, Reads, ServerSends, ServerCloses, ThreadGone
<1> QED
  BY <1>0, <1>1, <1>2, <1>3
  DEF Ends, Stopping, UIGone, NetGone, NetPanics, UIPanics, ThreadGone, Reason

LEMMA EndsInductive == Spec => []Ends
<1>1. Ends /\ [Next]_vars => Ends'
  <2> SUFFICES ASSUME Ends, [Next]_vars
               PROVE  Ends'
    OBVIOUS
  <2>1. Histories'
    BY ReasonsStay DEF Ends
  <2>2. (Stopping /\ UIGone /\ NetGone /\ NetPanics /\ UIPanics)'
    <3>1. CASE UNCHANGED vars
      BY <3>1 DEF Ends, Stopping, UIGone, NetGone, NetPanics, UIPanics, ThreadGone, Reason,
                  TooLongSent, TooLong
    <3> QED
      BY <3>1, EndsUI, EndsNet DEF Next, User, UIStep, Quiet
  <2> QED
    BY <2>1, <2>2 DEF Ends
<1> QED
  BY <1>1, EndsInit, PTL DEF Spec

(* Sending panics the user interface only if the connection was lost or a  *)
(* text was too long, whatever the order in which the user quits, the      *)
(* server closes and the threads look (client.rs:109-137, 160).            *)
THEOREM UIPanicsForAReason == Spec => []NoPanicWhileConnected
<1>1. Ends => NoPanicWhileConnected
  BY DEF Ends, UIPanics, Reason, TooLongSent, NoPanicWhileConnected
<1> QED
  BY <1>1, EndsInductive, PTL

(* After "q" no thread is left behind, and the client thread never finds   *)
(* the console gone, unless the terminal failed (main.rs:111-115).         *)
THEOREM QuittingIsClean == Spec => []QuitIsClean
<1>1. Ends => QuitIsClean
  BY DEF Ends, UIGone, NetPanics, TooLongSent, QuitIsClean
<1> QED
  BY <1>1, EndsInductive, PTL

-----------------------------------------------------------------------------
(* What a text becomes.                                                    *)

Char == {"private", "name", "text", "space"}
SendingMode == {"Username", "Editing", "PrivateMessaging"}
UserMessage == [kind : {"login", "global", "private"}, to : Seq(Char), text : Seq(Char)]
Entry == [mode : SendingMode, name : Seq(Char), text : Seq(Char)]

LEMMA FirstSpace ==
  ASSUME NEW w \in Seq(Char)
  PROVE  \/ Space(w) = 0 /\ \A i \in 1 .. Len(w) : w[i] # "space"
         \/ /\ Space(w) \in 1 .. Len(w) /\ w[Space(w)] = "space"
            /\ \A i \in 1 .. Space(w) - 1 : w[i] # "space"
<1> DEFINE I == {i \in 1 .. Len(w) : w[i] = "space"}
<1>1. Space(w) = IF I # {} THEN Min(I) ELSE 0
  BY DEF Space, SelectInSeq
<1>2. CASE I = {}
  BY <1>1, <1>2
<1>3. CASE I # {}
  <2>1. Len(w) \in Nat /\ I \in SUBSET (1 .. Len(w))
    OBVIOUS
  <2>2. \E i \in I : \A j \in I : i <= j
    BY <1>3, <2>1, SmallestExists
  <2>3. Min(I) \in I /\ \A j \in I : Min(I) <= j
    BY <2>2 DEF Min
  <2>4. PICK n \in 1 .. Len(w) : n = Min(I)
    BY <2>3
  <2>5. w[n] = "space" /\ \A i \in 1 .. n - 1 : w[i] # "space"
    <3>1. \A i \in 1 .. n - 1 : i \in 1 .. Len(w) /\ ~(n <= i)
      BY <2>1
    <3> QED
      BY <2>3, <2>4, <3>1
  <2> QED
    BY <1>1, <1>3, <2>4, <2>5
<1> QED
  BY <1>2, <1>3

LEMMA SpaceIs ==
  ASSUME NEW w \in Seq(Char), NEW n \in 1 .. Len(w), w[n] = "space",
         \A i \in 1 .. n - 1 : w[i] # "space"
  PROVE  Space(w) = n
<1>1. Len(w) \in Nat
  OBVIOUS
<1>2. Space(w) \in 1 .. Len(w) /\ w[Space(w)] = "space" /\ \A i \in 1 .. Space(w) - 1 : w[i] # "space"
  BY FirstSpace
<1>3. ~(Space(w) < n) /\ ~(n < Space(w))
  BY <1>1, <1>2
<1> QED
  BY <1>1, <1>2, <1>3

LEMMA TheRest ==
  ASSUME NEW S, NEW s \in Seq(S), NEW n \in Nat, n <= Len(s)
  PROVE  LET rest == SubSeq(s, n + 1, Len(s)) IN
         /\ rest \in Seq(S) /\ Len(rest) = Len(s) - n
         /\ \A i \in 1 .. Len(s) - n : rest[i] = s[n + i]
<1>1. PICK rest : rest = SubSeq(s, n + 1, Len(s))
  OBVIOUS
<1>2. rest \in Seq(S)
  BY <1>1
<1>3. Len(rest) = Len(s) - n
  BY <1>1
<1>4. \A i \in 1 .. Len(s) - n : rest[i] = s[n + i]
  BY <1>1
<1> QED
  BY <1>1, <1>2, <1>3, <1>4

(* A text is taken apart at its first space, and nothing is lost.          *)
LEMMA TakenApart ==
  ASSUME NEW w \in Seq(Char)
  PROVE  /\ Before(w) \in Seq(Char) /\ Behind(w) \in Seq(Char) /\ Space(Before(w)) = 0
         /\ \/ Space(w) = 0 /\ w = Before(w) /\ Behind(w) = <<>>
            \/ Space(w) # 0 /\ w = Before(w) \o <<"space">> \o Behind(w)
<1>1. CASE Space(w) = 0
  <2>1. <<>> \in Seq(Char)
    OBVIOUS
  <2> QED
    BY <1>1, <2>1 DEF Before, Behind
<1>2. CASE Space(w) # 0
  <2>1. PICK n \in 1 .. Len(w) : /\ n = Space(w) /\ w[n] = "space"
                                /\ \A i \in 1 .. n - 1 : w[i] # "space"
    BY <1>2, FirstSpace
  <2>2. Before(w) = SubSeq(w, 1, n - 1) /\ Behind(w) = SubSeq(w, n + 1, Len(w))
    BY <1>2, <2>1 DEF Before, Behind
  <2>3. PICK b : b = SubSeq(w, 1, n - 1)
    OBVIOUS
  <2>4. b \in Seq(Char) /\ Len(b) = n - 1 /\ \A i \in 1 .. n - 1 : b[i] = w[i]
    BY <2>3
  <2>5. PICK h : h = SubSeq(w, n + 1, Len(w))
    OBVIOUS
  <2>6. h \in Seq(Char) /\ Len(h) = Len(w) - n /\ \A i \in 1 .. Len(w) - n : h[i] = w[n + i]
    BY <2>5
  <2>7. Space(b) = 0
    <3>1. Space(b) \notin 1 .. Len(b) \/ b[Space(b)] # "space"
      BY <2>1, <2>4
    <3> QED
      BY <2>4, <3>1, FirstSpace
  <2>8. w = b \o <<"space">> \o h
    <3>0. PICK y : y = b \o <<"space">>
      OBVIOUS
    <3>9. /\ y \in Seq(Char) /\ Len(y) = n /\ y[n] = "space"
          /\ \A i \in 1 .. n - 1 : y[i] = b[i]
      BY <2>4, <3>0 DEF Char
    <3>1. PICK x : x = y \o h
      OBVIOUS
    <3>2. x \in Seq(Char) /\ Len(x) = Len(w)
      <4>1. y \in Seq(Char) /\ h \in Seq(Char)
        BY <2>6, <3>9
      <4>2. x \in Seq(Char) /\ Len(x) = Len(y) + Len(h)
        BY <3>1, <4>1
      <4> QED
        BY <2>6, <3>9, <4>2
    <3>3. \A i \in 1 .. n - 1 : x[i] = w[i]
      BY <2>4, <2>6, <3>9, <3>1
    <3>4. x[n] = w[n]
      BY <2>1, <2>6, <3>9, <3>1
    <3>5. \A i \in n + 1 .. Len(w) : x[i] = w[i]
      <4> SUFFICES ASSUME NEW i \in n + 1 .. Len(w) PROVE x[i] = w[i]
        OBVIOUS
      <4>1. i - n \in 1 .. Len(w) - n /\ n + (i - n) = i
        OBVIOUS
      <4>2. x[i] = h[i - n]
        BY <2>6, <3>9, <3>1, <4>1
      <4>3. h[i - n] = w[n + (i - n)]
        BY <2>6, <4>1
      <4> QED
        BY <4>1, <4>2, <4>3
    <3>6. \A i \in 1 .. Len(w) : i \in 1 .. n - 1 \/ i = n \/ i \in n + 1 .. Len(w)
      OBVIOUS
    <3>7. \A i \in 1 .. Len(w) : x[i] = w[i]
      BY <3>3, <3>4, <3>5, <3>6, Zenon
    <3>8. x = w
      BY <3>2, <3>7
    <3> QED
      BY <3>0, <3>1, <3>8
  <2> QED
    BY <1>2, <2>2, <2>3, <2>4, <2>5, <2>6, <2>7, <2>8
<1> QED
  BY <1>1, <1>2

(* A name without a space comes out as it was put in.                      *)
LEMMA NameComesBack ==
  ASSUME NEW name \in Seq(Char), NEW words \in Seq(Char), Space(name) = 0
  PROVE  /\ Before(name \o <<"space">> \o words) = name
         /\ Behind(name \o <<"space">> \o words) = words
<1>1. PICK w : w = name \o <<"space">> \o words
  OBVIOUS
<1>2. PICK n : n = Len(name) + 1
  OBVIOUS
<1>3. /\ w \in Seq(Char) /\ Len(w) = n + Len(words) /\ n \in 1 .. Len(w) /\ w[n] = "space"
      /\ \A i \in 1 .. n - 1 : w[i] = name[i]
      /\ \A i \in 1 .. Len(words) : w[n + i] = words[i]
  BY <1>1, <1>2 DEF Char
<1>4. \A i \in 1 .. n - 1 : w[i] # "space"
  <2>1. \A i \in 1 .. Len(name) : name[i] # "space"
    <3>1. Space(name) \notin 1 .. Len(name)
      OBVIOUS
    <3> QED
      BY <3>1, FirstSpace
  <2>2. n - 1 = Len(name)
    BY <1>2
  <2> QED
    BY <1>3, <2>1, <2>2
<1>5. Space(w) = n
  BY <1>3, <1>4, SpaceIs
<1>6. n # 0
  BY <1>3
<1>7. Before(w) = SubSeq(w, 1, n - 1) /\ Behind(w) = SubSeq(w, n + 1, Len(w))
  BY <1>5, <1>6 DEF Before, Behind
<1>8. SubSeq(w, 1, n - 1) = name
  BY <1>2, <1>3
<1>9. SubSeq(w, n + 1, Len(w)) = words
  BY <1>2, <1>3
<1> QED
  BY <1>1, <1>7, <1>8, <1>9

LEMMA MessageIsMeant ==
  ASSUME NEW mode \in SendingMode, NEW name \in Seq(Char), NEW typed \in Seq(Char)
  PROVE  LET m == MessageOf(mode, name, typed)
             e == [mode |-> mode, name |-> name, text |-> typed]
         IN  m \in UserMessage /\ e \in Entry /\ Meant(m, e)
<1> DEFINE m == MessageOf(mode, name, typed)
           e == [mode |-> mode, name |-> name, text |-> typed]
<1>1. e \in Entry /\ e.mode = mode /\ e.name = name /\ e.text = typed
  BY DEF Entry
<1>2. <<>> \in Seq(Char)
  OBVIOUS
<1>3. CASE mode = "Username"
  <2>1. m = Login(typed)
    BY <1>3 DEF MessageOf
  <2>2. m \in UserMessage
    BY <1>2, <2>1 DEF Login, UserMessage
  <2> HIDE DEF m, e
  <2>3. Meant(m, e)
    BY <1>1, <1>3, <2>1 DEF Meant
  <2> QED
    BY <1>1, <2>2, <2>3 DEF m, e
<1>4. CASE mode = "Editing"
  <2>1. CASE ~IsPrefix(PrivatePrefix, typed)
    <3>1. m = Global(typed)
      BY <1>4, <2>1 DEF MessageOf
    <3>2. m \in UserMessage
      BY <1>2, <3>1 DEF Global, UserMessage
    <3> HIDE DEF m, e
    <3>3. Meant(m, e)
      BY <1>1, <1>4, <2>1, <3>1 DEF Meant
    <3> QED
      BY <1>1, <3>2, <3>3 DEF m, e
  <2>2. CASE IsPrefix(PrivatePrefix, typed)
    <3>1. PICK rest : rest = SubSeq(typed, 3, Len(typed))
      OBVIOUS
    <3>2. m = Private(Before(rest), Behind(rest))
      BY <1>4, <2>2, <3>1 DEF MessageOf, PrivateOf
    <3>3. rest \in Seq(Char) /\ typed = PrivatePrefix \o rest
      <4>1. Len(typed) >= 2 /\ Len(typed) \in Nat /\ typed[1] = "private" /\ typed[2] = "space"
        BY <2>2 DEF IsPrefix, PrivatePrefix
      <4>2. /\ rest \in Seq(Char) /\ Len(rest) = Len(typed) - 2
            /\ \A i \in 1 .. Len(typed) - 2 : rest[i] = typed[2 + i]
        <5>1. 2 \in Nat /\ 2 <= Len(typed) /\ 3 = 2 + 1
          BY <4>1
        <5>2. LET r == SubSeq(typed, 2 + 1, Len(typed)) IN
              /\ r \in Seq(Char) /\ Len(r) = Len(typed) - 2
              /\ \A i \in 1 .. Len(typed) - 2 : r[i] = typed[2 + i]
          BY <5>1, TheRest, Zenon
        <5> QED
          BY <3>1, <5>1, <5>2, Zenon
      <4>4. PICK x : x = <<"private", "space">> \o rest
        OBVIOUS
      <4>5. x \in Seq(Char) /\ Len(x) = Len(typed)
        BY <4>1, <4>2, <4>4 DEF Char
      <4>6. x[1] = typed[1] /\ x[2] = typed[2]
        BY <4>1, <4>2, <4>4
      <4>7. \A i \in 3 .. Len(typed) : x[i] = typed[i]
        <5> SUFFICES ASSUME NEW i \in 3 .. Len(typed) PROVE x[i] = typed[i]
          OBVIOUS
        <5>1. i - 2 \in 1 .. Len(rest) /\ 2 + (i - 2) = i
          BY <4>1, <4>2
        <5>2. x[i] = rest[i - 2]
          BY <4>1, <4>2, <4>4, <5>1
        <5> QED
          BY <4>2, <5>1, <5>2
      <4>8. \A i \in 1 .. Len(typed) : i = 1 \/ i = 2 \/ i \in 3 .. Len(typed)
        BY <4>1
      <4>9. \A i \in 1 .. Len(typed) : x[i] = typed[i]
        BY <4>6, <4>7, <4>8, Zenon
      <4>10. typed = x
        BY <4>5, <4>9
      <4> QED
        BY <4>2, <4>4, <4>10 DEF PrivatePrefix
    <3>4. /\ Before(rest) \in Seq(Char) /\ Behind(rest) \in Seq(Char) /\ Space(Before(rest)) = 0
          /\ \/ rest = Before(rest) /\ Behind(rest) = <<>>
             \/ rest = Before(rest) \o <<"space">> \o Behind(rest)
      BY <3>3, TakenApart
    <3>5. m \in UserMessage /\ m.kind = "private" /\ m.to = Before(rest) /\ m.text = Behind(rest)
      BY <3>2, <3>4 DEF Private, UserMessage
    <3>6. \/ typed = PrivatePrefix \o m.to \o <<"space">> \o m.text
          \/ typed = PrivatePrefix \o m.to /\ m.text = <<>>
      <4>1. PICK b, h : b = Before(rest) /\ h = Behind(rest)
        OBVIOUS
      <4>2. PrivatePrefix \o (b \o <<"space">> \o h) = PrivatePrefix \o b \o <<"space">> \o h
        BY SMTT(20), <3>4, <4>1 DEF PrivatePrefix
      <4> QED
        BY <3>3, <3>4, <3>5, <4>1, <4>2
    <3> QED
      BY <1>1, <1>4, <2>2, <3>4, <3>5, <3>6 DEF Meant
  <2> QED
    BY <2>1, <2>2
<1>5. CASE mode = "PrivateMessaging"
  <2>1. PICK w : w = name \o <<"space">> \o typed
    OBVIOUS
  <2>2. m = Private(Before(w), Behind(w)) /\ w \in Seq(Char)
    BY <1>5, <2>1 DEF MessageOf, PrivateOf, Char
  <2>3. m \in UserMessage /\ m.kind = "private"
    BY <2>2, TakenApart DEF Private, UserMessage
  <2>4. Space(name) = 0 => m = Private(name, typed)
    BY <2>1, <2>2, NameComesBack
  <2> QED
    BY <1>1, <1>5, <2>3, <2>4 DEF Meant
<1> QED
  BY <1>3, <1>4, <1>5 DEF SendingMode

-----------------------------------------------------------------------------
(* The way of the messages: what was entered is with the connection, among *)
(* the pongs, or in the channel.                                           *)

OnTheWay == SentByUser \o channel

Texts ==
  /\ input_mode \in {"Normal"} \union TypingMode
  /\ input \in Seq(Char) /\ private_username \in Seq(Char)
  /\ channel \in Seq(UserMessage) /\ sent \in Seq(UserMessage \union {Pong})
  /\ entered \in Seq(Entry)

(* The first text is the name, and no other.                               *)
NameFirst ==
  /\ input_mode = "Username" <=> entered = <<>>
  /\ \A i \in DOMAIN entered : entered[i].mode = "Username" <=> i = 1

WayInv == Texts /\ NameFirst /\ SentAsEntered

LEMMA Kinds ==
  /\ \A m \in UserMessage : m.kind \in {"login", "global", "private"}
  /\ Pong.kind = "pong" /\ Pong \notin UserMessage
BY DEF UserMessage, Pong

LEMMA OwnAppend ==
  ASSUME NEW S, NEW s \in Seq(S), NEW m \in S
  PROVE  Selected(Append(s, m), OwnAt(Append(s, m))) =
           IF m.kind = "pong" THEN Selected(s, OwnAt(s)) ELSE Append(Selected(s, OwnAt(s)), m)
<1> DEFINE I == OwnAt(s)
<1>1. I \in SUBSET (1 .. Len(s))
  BY DEF OwnAt
<1>2. OwnAt(Append(s, m)) = IF m.kind = "pong" THEN I ELSE I \union {Len(s) + 1}
  BY DEF OwnAt
<1> HIDE DEF I
<1>3. /\ Selected(Append(s, m), I) = Selected(s, I)
      /\ Selected(Append(s, m), I \union {Len(s) + 1}) = Append(Selected(s, I), m)
  BY <1>1, SelectedAppend
<1> QED
  BY <1>2, <1>3 DEF I

LEMMA OwnType ==
  ASSUME Texts
  PROVE  /\ SentByUser \in Seq(UserMessage \union {Pong})
         /\ OnTheWay \in Seq(UserMessage \union {Pong})
         /\ Len(OnTheWay) = Len(SentByUser) + Len(channel)
         /\ Len(SentByUser) \in Nat /\ Len(channel) \in Nat
         /\ \A i \in 1 .. Len(SentByUser) : OnTheWay[i] = SentByUser[i]
<1> DEFINE S == UserMessage \union {Pong}
           own == SentByUser
<1>1. sent \in Seq(S) /\ channel \in Seq(S)
  BY DEF Texts
<1>2. OwnAt(sent) \in SUBSET (1 .. Len(sent))
  BY <1>1 DEF OwnAt
<1>3. own \in Seq(S)
  BY <1>1, <1>2, SelectedType DEF SentByUser
<1> HIDE DEF S, own
<1>4. /\ own \o channel \in Seq(S) /\ Len(own \o channel) = Len(own) + Len(channel)
      /\ Len(own) \in Nat /\ Len(channel) \in Nat
      /\ \A i \in 1 .. Len(own) : (own \o channel)[i] = own[i]
  BY <1>1, <1>3, ConcatParts
<1> QED
  BY <1>3, <1>4 DEF OnTheWay, own, S

(* The steps that neither enter nor move a message.                        *)
LEMMA WaySame ==
  ASSUME WayInv, UNCHANGED <<sent, channel, entered>>,
         input_mode' = "Username" <=> input_mode = "Username",
         input_mode' \in {"Normal"} \union TypingMode,
         input' \in Seq(Char), private_username' \in Seq(Char)
  PROVE  WayInv'
<1>1. Texts' /\ NameFirst'
  BY DEF WayInv, Texts, NameFirst
<1>2. SentByUser' = SentByUser
  BY DEF SentByUser
<1>3. SentAsEntered'
  BY <1>2 DEF WayInv, SentAsEntered
<1> QED
  BY <1>1, <1>3 DEF WayInv

LEMMA WayTyping ==
  ASSUME WayInv, Quiet
  PROVE  WayInv'
<1>1. UNCHANGED <<sent, channel>>
  BY QuietChanges
<1>2. CASE Draw
  BY <1>1, <1>2, WaySame DEF WayInv, Texts, Draw
<1>3. CASE KeyE \/ KeyP \/ Esc
  <2>1. PICK from, to : SwitchMode(from, to) /\ from # "Username" /\ to # "Username"
                        /\ to \in {"Normal"} \union TypingMode
    BY <1>3 DEF KeyE, KeyP, Esc, EscModes, TypingMode
  <2> QED
    BY <1>1, <2>1, WaySame DEF WayInv, Texts, SwitchMode
<1>4. CASE Backspace
  <2>1. input' = SubSeq(input, 1, Len(input) - 1) /\ UNCHANGED <<input_mode, private_username, entered>>
    BY <1>4 DEF Backspace, Front
  <2>2. input \in Seq(Char) /\ input # <<>>
    BY <1>4 DEF Backspace, WayInv, Texts
  <2>3. input' \in Seq(Char)
    BY <2>1, <2>2
  <2> QED
    BY <1>1, <2>1, <2>3, WaySame DEF WayInv, Texts
<1>5. CASE EnterPrivateUsername
  BY <1>1, <1>5, WaySame DEF WayInv, Texts, EnterPrivateUsername, TypingMode
<1>6. ASSUME NEW c \in Char, KeyChar(c)
      PROVE  WayInv'
  BY <1>1, <1>6, WaySame DEF WayInv, Texts, KeyChar
<1> QED
  BY <1>2, <1>3, <1>4, <1>5, <1>6 DEF Quiet, Char

(* A text is entered: its message takes the last place, as the user meant  *)
(* it.                                                                     *)
LEMMA WayEntered ==
  ASSUME WayInv, EnterSends
  PROVE  WayInv'
<1> DEFINE m == MessageOf(input_mode, private_username, input)
           e == [mode |-> input_mode, name |-> private_username, text |-> input]
           all == OnTheWay
<1>1. m \in UserMessage /\ e \in Entry /\ Meant(m, e)
  <2>1. input_mode \in SendingMode /\ private_username \in Seq(Char) /\ input \in Seq(Char)
    BY DEF EnterSends, Entered, SendingMode, WayInv, Texts
  <2> QED
    BY <2>1, MessageIsMeant
<1>2. /\ channel' = Append(channel, m) /\ entered' = Append(entered, e) /\ sent' = sent
      /\ input' = <<>> /\ private_username' = private_username
      /\ input_mode' = IF input_mode = "Username" THEN "Normal" ELSE input_mode
  BY DEF EnterSends
<1>3. e.mode = input_mode
  OBVIOUS
<1> HIDE DEF m, e
<1>4. Texts'
  BY <1>1, <1>2 DEF WayInv, Texts
<1>5. NameFirst'
  <2>1. entered \in Seq(Entry) /\ entered' = Append(entered, e)
    BY <1>2 DEF WayInv, Texts
  <2>2. /\ entered' # <<>> /\ DOMAIN entered' = 1 .. Len(entered) + 1
        /\ entered'[Len(entered) + 1] = e /\ Len(entered) \in Nat
        /\ \A i \in DOMAIN entered : entered'[i] = entered[i]
    BY <1>1, <2>1
  <2>3. entered = <<>> <=> Len(entered) = 0
    BY <2>1
  <2> QED
    BY <1>2, <1>3, <2>1, <2>2, <2>3 DEF WayInv, NameFirst
<1>6. SentAsEntered'
  <2>1. OnTheWay' = Append(all, m)
    <3>1. SentByUser' = SentByUser
      BY <1>2 DEF SentByUser
    <3>2. /\ SentByUser \in Seq(UserMessage \union {Pong})
          /\ channel \in Seq(UserMessage \union {Pong}) /\ m \in UserMessage \union {Pong}
      BY <1>1, OwnType DEF WayInv, Texts
    <3> QED
      BY <1>2, <3>1, <3>2, ConcatAppend DEF OnTheWay
  <2>2. all \in Seq(UserMessage \union {Pong}) /\ entered \in Seq(Entry)
    BY OwnType DEF WayInv, Texts
  <2>3. /\ Len(all) = Len(entered) /\ \A i \in DOMAIN all : Meant(all[i], entered[i])
    BY DEF WayInv, SentAsEntered, OnTheWay
  <2> HIDE DEF all
  <2>4. /\ Len(Append(all, m)) = Len(all) + 1 /\ DOMAIN Append(all, m) = 1 .. Len(all) + 1
        /\ Append(all, m)[Len(all) + 1] = m
        /\ \A i \in DOMAIN all : Append(all, m)[i] = all[i]
    BY <1>1, <2>2
  <2>5. /\ Len(Append(entered, e)) = Len(entered) + 1
        /\ Append(entered, e)[Len(entered) + 1] = e
        /\ \A i \in DOMAIN entered : Append(entered, e)[i] = entered[i]
    BY <1>1, <2>2
  <2>6. DOMAIN all = 1 .. Len(all) /\ DOMAIN entered = DOMAIN all /\ Len(all) \in Nat
    BY <2>2, <2>3
  <2>7. \A i \in 1 .. Len(all) + 1 : i \in DOMAIN all \/ i = Len(all) + 1
    BY <2>6
  <2>8. \A i \in 1 .. Len(all) + 1 : Meant(Append(all, m)[i], Append(entered, e)[i])
    BY <1>1, <2>3, <2>4, <2>5, <2>6, <2>7, Zenon
  <2> QED
    BY <1>2, <2>1, <2>3, <2>4, <2>5, <2>8 DEF SentAsEntered, OnTheWay
<1> QED
  BY <1>4, <1>5, <1>6 DEF WayInv

(* A message is handed over: the order stays.                              *)
LEMMA WaySent ==
  ASSUME WayInv, SendMessage
  PROVE  WayInv'
<1>1. /\ channel # <<>> /\ sent' = Append(sent, Head(channel)) /\ channel' = Tail(channel)
      /\ UNCHANGED <<input_mode, input, private_username, entered>>
  BY DEF SendMessage
<1>2. channel \in Seq(UserMessage) /\ sent \in Seq(UserMessage \union {Pong})
  BY DEF WayInv, Texts
<1>3. Head(channel) \in UserMessage /\ channel' \in Seq(UserMessage)
  BY <1>1, <1>2
<1>4. Texts' /\ NameFirst'
  BY <1>1, <1>2, <1>3 DEF WayInv, Texts, NameFirst
<1>5. SentByUser' = Append(SentByUser, Head(channel))
  <2>1. Head(channel) \in UserMessage \union {Pong} /\ Head(channel).kind # "pong"
    BY <1>3, Kinds
  <2> QED
    BY <1>1, <1>2, <2>1, OwnAppend DEF SentByUser
<1>6. OnTheWay' = OnTheWay
  <2>1. /\ SentByUser \in Seq(UserMessage \union {Pong})
        /\ channel \in Seq(UserMessage \union {Pong})
    BY <1>2, OwnType DEF WayInv
  <2> QED
    BY <1>1, <1>5, <2>1, ConcatMove DEF OnTheWay
<1>7. SentAsEntered'
  BY <1>1, <1>6 DEF WayInv, SentAsEntered, OnTheWay
<1> QED
  BY <1>4, <1>7 DEF WayInv

(* A pong goes between.                                                    *)
LEMMA WayPong ==
  ASSUME WayInv, ProcessOther
  PROVE  WayInv'
<1>1. /\ sent' = sent \/ sent' = Append(sent, Pong)
      /\ UNCHANGED <<channel, input_mode, input, private_username, entered>>
  BY DEF ProcessOther
<1>2. PICK S : S = UserMessage \union {Pong}
  OBVIOUS
<1>3. sent \in Seq(S) /\ Pong \in S
  BY <1>2 DEF WayInv, Texts
<1>4. CASE sent' = sent
  BY <1>1, <1>4 DEF WayInv, Texts, NameFirst, SentAsEntered, SentByUser
<1>5. CASE sent' = Append(sent, Pong)
  <2>1. sent' \in Seq(S)
    BY <1>3, <1>5
  <2>2. SentByUser' = SentByUser
    BY <1>3, <1>5, OwnAppend, Kinds DEF SentByUser
  <2> QED
    BY <1>1, <1>2, <2>1, <2>2 DEF WayInv, Texts, NameFirst, SentAsEntered
<1> QED
  BY <1>1, <1>4, <1>5

LEMMA WayInit == Init => WayInv
<1> SUFFICES ASSUME Init PROVE WayInv
  OBVIOUS
<1>1. Texts /\ NameFirst
  BY DEF Init, Texts, NameFirst, TypingMode
<1>2. SentByUser = <<>>
  <2>1. OwnAt(<<>>) = {} /\ Cardinality({}) = 0
    BY FS_EmptySet DEF OwnAt
  <2> QED
    BY <2>1 DEF Init, SentByUser, Selected
<1>3. SentAsEntered
  BY <1>2 DEF Init, SentAsEntered
<1> QED
  BY <1>1, <1>3 DEF WayInv

LEMMA WayInductive == Spec => []WayInv
<1>1. WayInv /\ [Next]_vars => WayInv'
  <2> SUFFICES ASSUME WayInv, [Next]_vars
               PROVE  WayInv'
    OBVIOUS
  <2>1. CASE UIFails \/ KeyQ \/ Joined \/ EnterPanics \/ Wake
    BY <2>1, WaySame DEF WayInv, Texts, UIFails, KeyQ, Joined, EnterPanics, Wake
  <2>2. CASE Poll \/ (\E e \in batch : HandleEvent(e)) \/ Drained \/ EncodeFails
    BY <2>2, WaySame DEF WayInv, Texts, Poll, HandleEvent, Drained, EncodeFails
  <2>3. CASE ProcessChat \/ ProcessChatPanics \/ ReadBlocks \/ ReadEnds
    BY <2>3, WaySame DEF WayInv, Texts, ProcessChat, ProcessChatPanics, ReadBlocks, ReadEnds
  <2>4. CASE (\E kind \in Incoming : ServerSends(kind)) \/ ServerCloses
    BY <2>4, WaySame DEF WayInv, Texts, ServerSends, ServerCloses
  <2>5. CASE UNCHANGED vars
    BY <2>5, WaySame DEF WayInv, Texts
  <2> QED
    BY <2>1, <2>2, <2>3, <2>4, <2>5, WayTyping, WayEntered, WaySent, WayPong, NextCases
<1> QED
  BY <1>1, WayInit, PTL DEF Spec

(* Every text the user has entered is on its way or with the connection:   *)
(* once, in order, with the addressee and the words that were entered,     *)
(* whatever the texts are (main.rs:121-212, client.rs:116-120, 159-165).   *)
THEOREM TextsSentAsEntered == Spec => []SentAsEntered
<1>1. WayInv => SentAsEntered
  BY DEF WayInv
<1> QED
  BY <1>1, WayInductive, PTL

(* A login is the first message the server gets, and no other one is a     *)
(* login, whatever keys are pressed (main.rs:106-224).                     *)
THEOREM LoginComesFirst == Spec => []LoginFirst
<1>1. WayInv => LoginFirst
  <2> SUFFICES ASSUME WayInv, NEW i \in DOMAIN SentByUser
               PROVE  SentByUser[i].kind = "login" <=> i = 1
    BY DEF LoginFirst
  <2>1. /\ i \in 1 .. Len(OnTheWay) /\ OnTheWay[i] = SentByUser[i]
        /\ DOMAIN OnTheWay = 1 .. Len(OnTheWay)
    BY OwnType DEF WayInv
  <2>2. Len(OnTheWay) = Len(entered) /\ Meant(SentByUser[i], entered[i])
    BY <2>1 DEF WayInv, SentAsEntered, OnTheWay
  <2>3. entered[i] \in Entry /\ (entered[i].mode = "Username" <=> i = 1)
    BY <2>1, <2>2 DEF WayInv, Texts, NameFirst
  <2>4. PICK m, e : m = SentByUser[i] /\ e = entered[i]
    OBVIOUS
  <2>5. e.mode \in SendingMode /\ Meant(m, e)
    BY <2>2, <2>3, <2>4 DEF Entry
  <2>6. m.kind = "login" <=> e.mode = "Username"
    <3>1. CASE e.mode = "Username"
      BY <2>5, <3>1 DEF Meant, Login
    <3>2. CASE e.mode = "Editing"
      <4>1. IsPrefix(PrivatePrefix, e.text) => m.kind = "private"
        BY <2>5, <3>2, Zenon DEF Meant
      <4>2. ~IsPrefix(PrivatePrefix, e.text) => m = Global(e.text)
        BY <2>5, <3>2 DEF Meant
      <4> QED
        BY <3>2, <4>1, <4>2 DEF Global
    <3>3. CASE e.mode = "PrivateMessaging"
      BY <2>5, <3>3 DEF Meant, Private
    <3> QED
      BY <2>5, <3>1, <3>2, <3>3 DEF SendingMode
  <2> QED
    BY <2>3, <2>4, <2>6
<1> QED
  BY <1>1, WayInductive, PTL

-----------------------------------------------------------------------------
(* The console: the messages that were read are shown or in its channel.   *)

ReadMessage == {Received(n) : n \in Nat}
Shown == Selected(console_messages, ReceivedAt(console_messages))
ReadSoFar == [n \in 1 .. read |-> Received(n)]

Consoles ==
  /\ console_messages \in Seq(UserMessage \union ReadMessage)
  /\ console_channel \in Seq(ReadMessage)
  /\ incoming \in Seq(Incoming) /\ read \in Nat /\ read <= Len(incoming)

ConsoleInv == Consoles /\ ConsoleComplete

LEMMA ReadKinds ==
  /\ \A m \in ReadMessage : m.kind = "received"
  /\ \A n \in Nat : Received(n) \in ReadMessage
BY DEF ReadMessage, Received

LEMMA ShownType ==
  ASSUME Consoles
  PROVE  /\ ReceivedAt(console_messages) \in SUBSET (1 .. Len(console_messages))
         /\ Shown \in Seq(UserMessage \union ReadMessage)
<1> DEFINE I == ReceivedAt(console_messages)
<1>1. PICK S : S = UserMessage \union ReadMessage
  OBVIOUS
<1>2. console_messages \in Seq(S)
  BY <1>1 DEF Consoles
<1>3. I \in SUBSET (1 .. Len(console_messages))
  BY <1>2 DEF ReceivedAt
<1> HIDE DEF I
<1>4. Selected(console_messages, I) \in Seq(S)
  BY <1>2, <1>3, SelectedType
<1> QED
  BY <1>1, <1>3, <1>4 DEF Shown, I

LEMMA ReadType ==
  ASSUME Consoles
  PROVE  /\ ReadSoFar \in Seq(ReadMessage) /\ Len(ReadSoFar) = read
         /\ ChatRead \in SUBSET (1 .. Len(ReadSoFar))
         /\ Append(ReadSoFar, Received(read + 1)) = [n \in 1 .. read + 1 |-> Received(n)]
<1>1. read \in Nat
  BY DEF Consoles
<1>2. \A n \in 1 .. read + 1 : Received(n) \in ReadMessage
  BY <1>1, ReadKinds
<1>3. ReadSoFar \in Seq(ReadMessage) /\ Len(ReadSoFar) = read
  BY <1>1, <1>2 DEF ReadSoFar
<1>4. ChatRead \in SUBSET (1 .. Len(ReadSoFar))
  BY <1>3 DEF ChatRead
<1>5. PICK s, more : s = ReadSoFar /\ more = [n \in 1 .. read + 1 |-> Received(n)]
  OBVIOUS
<1>6. more \in Seq(ReadMessage) /\ Len(more) = read + 1
  BY <1>1, <1>2, <1>5
<1>7. Append(s, Received(read + 1)) \in Seq(ReadMessage)
      /\ Len(Append(s, Received(read + 1))) = read + 1
  BY <1>1, <1>2, <1>3, <1>5
<1>8. \A n \in 1 .. read + 1 : Append(s, Received(read + 1))[n] = more[n]
  <2>1. \A n \in 1 .. read : Append(s, Received(read + 1))[n] = Received(n)
    BY <1>1, <1>3, <1>5 DEF ReadSoFar
  <2>2. Append(s, Received(read + 1))[read + 1] = Received(read + 1)
    BY <1>1, <1>3, <1>5
  <2>3. \A n \in 1 .. read + 1 : n \in 1 .. read \/ n = read + 1
    BY <1>1
  <2>4. \A n \in 1 .. read + 1 : more[n] = Received(n)
    BY <1>5
  <2> QED
    BY <2>1, <2>2, <2>3, <2>4, Zenon
<1>9. Append(s, Received(read + 1)) = more
  BY <1>1, <1>6, <1>7, <1>8
<1> QED
  BY <1>3, <1>4, <1>5, <1>9

LEMMA ConsoleSame ==
  ASSUME ConsoleInv, UNCHANGED <<console_messages, console_channel, read, incoming>>
  PROVE  ConsoleInv'
BY DEF ConsoleInv, Consoles, ConsoleComplete, ChatRead

(* Drawing: what was in the channel is shown behind the rest.              *)
LEMMA ConsoleDraw ==
  ASSUME ConsoleInv, Draw
  PROVE  ConsoleInv'
<1> DEFINE I == ReceivedAt(console_messages)
<1>1. /\ console_messages' = console_messages \o console_channel /\ console_channel' = <<>>
      /\ UNCHANGED <<read, incoming>>
  BY DEF Draw, client, server
<1>2. PICK S : S = UserMessage \union ReadMessage
  OBVIOUS
<1>3. console_messages \in Seq(S) /\ console_channel \in Seq(S)
  BY <1>2 DEF ConsoleInv, Consoles
<1>4. I \in SUBSET (1 .. Len(console_messages))
  BY ShownType DEF ConsoleInv
<1>5. PICK all : all = console_messages \o console_channel
  OBVIOUS
<1>6. PICK m, k : m = Len(console_messages) /\ k = Len(console_channel)
  OBVIOUS
<1>7. /\ all \in Seq(S) /\ Len(all) = m + k /\ m \in Nat /\ k \in Nat
      /\ \A i \in 1 .. m : all[i] = console_messages[i]
      /\ \A i \in 1 .. k : all[m + i] = console_channel[i]
  BY <1>3, <1>5, <1>6, ConcatParts
<1>8. ReceivedAt(all) = I \union (m + 1 .. m + k)
  <2>1. \A i \in 1 .. m : all[i].kind = "received" <=> i \in I
    BY <1>3, <1>6, <1>7 DEF ReceivedAt
  <2>2. \A i \in m + 1 .. m + k : all[i].kind = "received"
    <3> SUFFICES ASSUME NEW i \in m + 1 .. m + k PROVE all[i].kind = "received"
      OBVIOUS
    <3>1. i - m \in 1 .. k /\ m + (i - m) = i
      BY <1>7
    <3>2. all[i] = console_channel[i - m]
      BY <1>7, <3>1
    <3>3. console_channel[i - m] \in ReadMessage
      BY <1>6, <3>1 DEF ConsoleInv, Consoles
    <3> QED
      BY <3>2, <3>3, ReadKinds
  <2>3. DOMAIN all = 1 .. m + k
    BY <1>7
  <2>4. I \subseteq 1 .. m
    BY <1>4, <1>6
  <2>5. \A i : i \in 1 .. m + k <=> i \in 1 .. m \/ i \in m + 1 .. m + k
    BY <1>7
  <2>6. \A i : i \in ReceivedAt(all) <=> i \in 1 .. m + k /\ all[i].kind = "received"
    BY <2>3 DEF ReceivedAt
  <2> HIDE DEF I
  <2> QED
    BY <2>1, <2>2, <2>4, <2>5, <2>6, Zenon
<1> HIDE DEF I
<1>9. Selected(all, ReceivedAt(all)) = Shown \o console_channel
  <2>1. Selected(console_messages \o console_channel,
                 I \union (Len(console_messages) + 1 ..
                             Len(console_messages) + Len(console_channel)))
          = Selected(console_messages, I) \o console_channel
    BY <1>3, <1>4, SelectedConcat
  <2>2. Shown = Selected(console_messages, I)
    BY DEF Shown, I
  <2> QED
    BY <1>5, <1>6, <1>8, <2>1, <2>2
<1>10. Consoles'
  <2>1. console_messages' \in Seq(S) /\ console_channel' \in Seq(ReadMessage)
    BY <1>1, <1>5, <1>7
  <2> QED
    BY <1>1, <1>2, <2>1 DEF ConsoleInv, Consoles
<1>11. Shown \o console_channel \in Seq(S)
  <2>1. Shown \in Seq(S)
    BY <1>2, ShownType DEF ConsoleInv
  <2> QED
    BY <1>3, <2>1, ConcatParts
<1>12. (Shown \o console_channel) \o <<>> = Shown \o console_channel
  BY <1>11
<1>13. ConsoleComplete'
  <2>1. Shown' \o console_channel' = Shown \o console_channel
    BY <1>1, <1>5, <1>9, <1>12 DEF Shown
  <2>2. Shown \o console_channel = Selected(ReadSoFar, ChatRead)
    BY DEF ConsoleInv, ConsoleComplete, Shown, ReadSoFar
  <2>3. ReadSoFar' = ReadSoFar /\ ChatRead' = ChatRead
    BY <1>1 DEF ReadSoFar, ChatRead
  <2> QED
    BY <1>1, <2>1, <2>2, <2>3 DEF ConsoleComplete, Shown, ReadSoFar
<1> QED
  BY <1>10, <1>13 DEF ConsoleInv

(* An own private message is shown, and none of those that were read.      *)
LEMMA ConsoleEcho ==
  ASSUME ConsoleInv, WayInv, EnterSends
  PROVE  ConsoleInv'
<1> DEFINE m == MessageOf(input_mode, private_username, input)
           I == ReceivedAt(console_messages)
<1>1. m \in UserMessage
  <2>1. input_mode \in SendingMode /\ private_username \in Seq(Char) /\ input \in Seq(Char)
    BY DEF EnterSends, Entered, SendingMode, WayInv, Texts
  <2> QED
    BY <2>1, MessageIsMeant
<1>2. /\ console_messages' = Echo(console_messages, m)
      /\ UNCHANGED <<console_channel, read, incoming>>
  BY DEF EnterSends, client, server
<1> HIDE DEF m
<1>3. CASE console_messages' = console_messages
  BY <1>2, <1>3, ConsoleSame
<1>4. CASE console_messages' = Append(console_messages, m)
  <2>1. PICK S : S = UserMessage \union ReadMessage
    OBVIOUS
  <2>2. console_messages \in Seq(S) /\ m \in S
    BY <1>1, <2>1 DEF ConsoleInv, Consoles
  <2>3. m.kind # "received"
    BY <1>1, Kinds
  <2>4. I \in SUBSET (1 .. Len(console_messages))
    BY <2>2 DEF ReceivedAt
  <2>5. ReceivedAt(Append(console_messages, m)) = I
    BY <2>2, <2>3 DEF ReceivedAt
  <2> HIDE DEF I
  <2>6. Selected(Append(console_messages, m), I) = Selected(console_messages, I)
    BY ZenonT(30), <2>2, <2>4, SelectedAppend
  <2>7. Shown' = Shown
    BY <1>4, <2>5, <2>6 DEF Shown, I
  <2>8. console_messages' \in Seq(S)
    BY <1>4, <2>2
  <2> QED
    BY <1>2, <2>1, <2>7, <2>8 DEF ConsoleInv, Consoles, ConsoleComplete, Shown, ChatRead
<1> QED
  BY <1>2, <1>3, <1>4 DEF Echo

(* A message is read; a chat message goes to the console.                  *)
LEMMA ConsoleRead ==
  ASSUME ConsoleInv, ProcessChat \/ ProcessOther
  PROVE  ConsoleInv'
<1>1. /\ read' = read + 1 /\ read < Len(incoming)
      /\ UNCHANGED <<console_messages, incoming>>
  BY DEF ProcessChat, ProcessOther, Reads, interface, app, server
<1>2. Consoles /\ read \in Nat /\ incoming \in Seq(Incoming)
  BY DEF ConsoleInv, Consoles
<1>3. Received(read + 1) \in ReadMessage
  BY <1>2, ReadKinds
<1>4. /\ ReadSoFar \in Seq(ReadMessage) /\ Len(ReadSoFar) = read
      /\ ChatRead \in SUBSET (1 .. Len(ReadSoFar))
      /\ ReadSoFar' = Append(ReadSoFar, Received(read + 1))
  BY <1>1, <1>2, ReadType DEF ReadSoFar
<1>5. PICK s : s = ReadSoFar
  OBVIOUS
<1>6. /\ Selected(Append(s, Received(read + 1)), ChatRead) = Selected(s, ChatRead)
      /\ Selected(Append(s, Received(read + 1)), ChatRead \union {read + 1}) =
           Append(Selected(s, ChatRead), Received(read + 1))
  <2>1. PICK I : I = ChatRead
    OBVIOUS
  <2>2. s \in Seq(ReadMessage) /\ I \in SUBSET (1 .. Len(s)) /\ Len(s) = read
    BY <1>4, <1>5, <2>1
  <2>3. /\ Selected(Append(s, Received(read + 1)), I) = Selected(s, I)
        /\ Selected(Append(s, Received(read + 1)), I \union {Len(s) + 1}) =
             Append(Selected(s, I), Received(read + 1))
    <3>1. s \in Seq(ReadMessage) /\ I \in SUBSET (1 .. Len(s))
      BY <2>2
    <3> QED
      BY <1>3, <3>1, SelectedAppend, ZenonT(30)
  <2> QED
    BY <2>1, <2>2, <2>3
<1>7. Shown' = Shown
  BY <1>1 DEF Shown
<1>8. Shown \o console_channel = Selected(s, ChatRead)
  BY <1>5 DEF ConsoleInv, ConsoleComplete, Shown, ReadSoFar
<1>9. CASE ProcessChat
  <2>1. /\ console_channel' = Append(console_channel, Received(read + 1))
        /\ incoming[read + 1] \in {"global", "private"}
    BY <1>9 DEF ProcessChat, Reads, NextIncoming
  <2>2. ChatRead' = ChatRead \union {read + 1}
    BY <1>1, <1>2, <2>1 DEF ChatRead
  <2>3. Shown \o Append(console_channel, Received(read + 1)) =
          Append(Shown \o console_channel, Received(read + 1))
    <3>1. PICK S : S = UserMessage \union ReadMessage
      OBVIOUS
    <3>2. Shown \in Seq(S) /\ console_channel \in Seq(S) /\ Received(read + 1) \in S
      BY <1>2, <1>3, <3>1, ShownType DEF Consoles
    <3> QED
      BY <3>2, ConcatAppend
  <2>4. Shown' \o console_channel' = Selected(ReadSoFar', ChatRead')
    BY <1>4, <1>5, <1>6, <1>7, <1>8, <2>1, <2>2, <2>3
  <2>5. console_channel' \in Seq(ReadMessage)
    BY <1>3, <2>1 DEF ConsoleInv, Consoles
  <2> QED
    BY <1>1, <1>2, <2>4, <2>5 DEF ConsoleInv, Consoles, ConsoleComplete, Shown, ReadSoFar
<1>10. CASE ProcessOther
  <2>1. /\ console_channel' = console_channel
        /\ incoming[read + 1] \notin {"global", "private"}
    BY <1>10 DEF ProcessOther, Reads, NextIncoming, channels
  <2>2. ChatRead' = ChatRead
    BY <1>1, <1>2, <2>1 DEF ChatRead
  <2>3. Shown' \o console_channel' = Selected(ReadSoFar', ChatRead')
    BY <1>4, <1>5, <1>6, <1>7, <1>8, <2>1, <2>2
  <2> QED
    BY <1>1, <1>2, <2>1, <2>3 DEF ConsoleInv, Consoles, ConsoleComplete, Shown, ReadSoFar
<1> QED
  BY <1>9, <1>10

LEMMA ConsoleServer ==
  ASSUME ConsoleInv, NEW kind \in Incoming, ServerSends(kind)
  PROVE  ConsoleInv'
<1>1. /\ incoming' = Append(incoming, kind)
      /\ UNCHANGED <<console_messages, console_channel, read>>
  BY DEF ServerSends, interface, app, channels, client
<1>2. Consoles'
  BY <1>1 DEF ConsoleInv, Consoles
<1>3. ChatRead' = ChatRead
  BY <1>1 DEF ConsoleInv, Consoles, ChatRead
<1> QED
  BY <1>1, <1>2, <1>3 DEF ConsoleInv, ConsoleComplete

LEMMA ConsoleInit == Init => ConsoleInv
<1> SUFFICES ASSUME Init PROVE ConsoleInv
  OBVIOUS
<1>1. Consoles
  BY DEF Init, Consoles
<1>2. ReceivedAt(console_messages) = {} /\ ChatRead = {}
  BY DEF Init, ReceivedAt, ChatRead
<1>3. \A s : Selected(s, {}) = <<>>
  BY FS_EmptySet DEF Selected
<1>4. console_channel = <<>> /\ <<>> \o <<>> = <<>>
  BY DEF Init
<1>5. ConsoleComplete
  BY <1>2, <1>3, <1>4 DEF ConsoleComplete
<1> QED
  BY <1>1, <1>5 DEF ConsoleInv

(* The console shows every chat message that was read, once and in order,  *)
(* next to the private messages the user sent, however drawing and reading *)
(* interleave (main.rs:384-386, messages.rs:60-110).                       *)
THEOREM ConsoleIsComplete == Spec => []ConsoleComplete
<1>1. ConsoleInv /\ WayInv /\ [Next]_vars => ConsoleInv'
  <2> SUFFICES ASSUME ConsoleInv, WayInv, [Next]_vars
               PROVE  ConsoleInv'
    OBVIOUS
  <2>1. CASE Quiet
    <3>1. CASE Draw
      BY <3>1, ConsoleDraw
    <3>2. CASE KeyE \/ KeyP \/ Esc
      BY <3>2, ConsoleSame DEF KeyE, KeyP, Esc, SwitchMode
    <3>3. CASE Backspace \/ EnterPrivateUsername
      BY <3>3, ConsoleSame DEF Backspace, EnterPrivateUsername
    <3>4. CASE \E c \in {"private", "name", "text", "space"} : KeyChar(c)
      BY <3>4, ConsoleSame DEF KeyChar
    <3> QED
      BY <2>1, <3>1, <3>2, <3>3, <3>4 DEF Quiet
  <2>2. CASE UIFails \/ KeyQ \/ Joined \/ EnterPanics \/ Wake
    BY <2>2, ConsoleSame DEF UIFails, KeyQ, Joined, EnterPanics, Wake
  <2>3. CASE Poll \/ (\E e \in batch : HandleEvent(e)) \/ Drained \/ EncodeFails
    BY <2>3, ConsoleSame DEF Poll, HandleEvent, Drained, EncodeFails
  <2>4. CASE SendMessage \/ ProcessChatPanics \/ ReadBlocks \/ ReadEnds
    BY <2>4, ConsoleSame DEF SendMessage, ProcessChatPanics, ReadBlocks, ReadEnds
  <2>5. CASE ServerCloses
    BY <2>5, ConsoleSame DEF ServerCloses
  <2>6. CASE UNCHANGED vars
    BY <2>6, ConsoleSame
  <2> QED
    BY <2>1, <2>2, <2>3, <2>4, <2>5, <2>6, ConsoleEcho, ConsoleRead, ConsoleServer, NextCases
<1>2. ConsoleInv => ConsoleComplete
  BY DEF ConsoleInv
<1> QED
  BY <1>1, <1>2, ConsoleInit, WayInductive, PTL DEF Spec
=============================================================================
