----------------------------- MODULE ChatClient -----------------------------
(***************************************************************************)
(* The client: the user interface (frontend/src/main.rs), its thread with  *)
(* the connection (frontend/src/net/client.rs), and the two channels       *)
(* between them.                                                           *)
(*                                                                         *)
(* A text is a sequence of characters; "private" and a name count as one   *)
(* character each.  The connection is what send_message is given and what  *)
(* read finds; ConnectionSend and ConnectionRead have the rest.  Of the    *)
(* drawing only the draining of the console channel is left.               *)
(***************************************************************************)
EXTENDS Integers, SequencesExt, Subsequence

CONSTANTS Line,          \* bound: what the user enters, in each mode, begins one of these
          MaxEntered,    \* bound: how many of them are entered
          MaxText,       \* how long a text fits into a packet
          Incoming,      \* the messages of the server, by what they do here
          MaxIncoming    \* bound: how many of them come

TypingMode == {"Editing", "Username", "PrivateUsername", "PrivateMessaging"}

ASSUME ChatClientAssumption ==
  /\ Line \in [TypingMode -> SUBSET Seq({"private", "name", "text", "space"})]
  /\ MaxEntered \in Nat
  /\ MaxText \in Nat
  /\ Incoming \subseteq {"global", "private", "ping", "ignored", "invalid"}
  /\ MaxIncoming \in Nat

VARIABLES
  \* the user interface
  ui,                  \* run, wake, join, ended, failed, panicked
  input_mode, input,
  private_username,
  console_messages,    \* received messages and own private ones
  should_stop,
  \* between the two
  channel,             \* the messages for the client thread
  waker,               \* it was called and poll has not reported it
  console_channel,     \* the received messages for the console
  \* the client thread
  net,                 \* loop, drain, read, returned, panicked
  batch,               \* the events that poll reported
  read,                \* how many of the server's messages were read
  sent,                \* the messages given to Connection::send_message
  \* the server
  incoming,            \* what it has sent
  line,                \* open, closed
  readable,            \* poll has an event of the socket to report
  \* history
  entered              \* what the user has sent: mode, name and text

text == <<input, private_username>>
app == <<input_mode, text, console_messages, entered>>
interface == <<ui, app, should_stop>>
channels == <<channel, waker, console_channel>>
client == <<net, batch, read, sent>>
server == <<incoming, line, readable>>
outside == <<should_stop, channels, client, server>>
vars == <<ui, app, outside>>

Init ==
  /\ ui = "run" /\ input_mode = "Username" /\ input = <<>> /\ private_username = <<>>
  /\ console_messages = <<>> /\ should_stop = FALSE
  /\ channel = <<>> /\ waker = FALSE /\ console_channel = <<>>
  /\ net = "loop" /\ batch = {} /\ read = 0 /\ sent = <<>>
  /\ incoming = <<>> /\ line = "open" /\ readable = FALSE
  /\ entered = <<>>

-----------------------------------------------------------------------------
(* Messages *)

Login(name) == [kind |-> "login", to |-> <<>>, text |-> name]
Global(words) == [kind |-> "global", to |-> <<>>, text |-> words]
Private(name, words) == [kind |-> "private", to |-> name, text |-> words]
Received(n) == [kind |-> "received", to |-> <<>>, text |-> <<ToString(n)>>]
Pong == [kind |-> "pong", to |-> <<>>, text |-> <<>>]

(* split(" "): what is before the first space, and behind it.              *)
Space(words) == SelectInSeq(words, LAMBDA c : c = "space")
Before(words) == IF Space(words) = 0 THEN words ELSE SubSeq(words, 1, Space(words) - 1)
Behind(words) == IF Space(words) = 0 THEN <<>> ELSE SubSeq(words, Space(words) + 1, Len(words))

\* Slip: the message begins with the name, split[1].
PrivateWithName(rest) == Private(Before(rest), rest)

(* The private message in a text "private <rest>". *)
PrivateOf(rest) == Private(Before(rest), Behind(rest))

PrivatePrefix == <<"private", "space">>

MessageOf(mode, name, typed) ==
  CASE mode = "Username" -> Login(typed)
    [] mode = "Editing" -> IF IsPrefix(PrivatePrefix, typed)
                           THEN PrivateOf(SubSeq(typed, 3, Len(typed))) ELSE Global(typed)
    [] mode = "PrivateMessaging" -> PrivateOf(name \o <<"space">> \o typed)

-----------------------------------------------------------------------------
(* The user interface draws and looks for a key in turns.  A draw that     *)
(* finds nothing in the console channel changes nothing here.              *)

Draw ==
  /\ ui = "run" /\ console_channel # <<>>
  /\ console_messages' = console_messages \o console_channel
  /\ console_channel' = <<>>
  /\ UNCHANGED <<ui, input_mode, text, entered, should_stop, channel, waker, client, server>>

(* draw, poll or read answer with an error: run_app returns it.            *)
UIFails ==
  /\ ui = "run"
  /\ ui' = "failed"
  /\ UNCHANGED <<app, outside>>

KeyPressed == ui = "run" /\ UNCHANGED ui

SwitchMode(from, to) ==
  /\ KeyPressed
  /\ input_mode = from /\ input_mode' = to
  /\ UNCHANGED <<text, console_messages, entered, outside>>

KeyE == SwitchMode("Normal", "Editing")
KeyP == SwitchMode("Normal", "PrivateUsername")

\* Slip: every mode can be left.
AnyMode == TypingMode

EscModes == {"Editing", "PrivateMessaging"}

Esc == \E mode \in EscModes : SwitchMode(mode, "Normal")

\* Slips: run_app goes on, or returns without join.
GoOn == "run"
ReturnAtOnce == "ended"

AfterStop == "join"

KeyQ ==
  /\ ui = "run" /\ input_mode = "Normal"
  /\ should_stop' = TRUE
  /\ ui' = AfterStop
  /\ UNCHANGED <<app, channels, client, server>>

Joined ==
  /\ ui = "join" /\ net \in {"returned", "panicked"}
  /\ ui' = "ended"
  /\ UNCHANGED <<app, outside>>

(* The bound on what is typed. *)
Typed(words) == Len(entered) < MaxEntered /\ \E l \in Line[input_mode] : IsPrefix(words, l)

KeyChar(c) ==
  /\ KeyPressed
  /\ input_mode # "Normal" /\ Typed(Append(input, c))
  /\ input' = Append(input, c)
  /\ UNCHANGED <<input_mode, private_username, console_messages, entered, outside>>

Backspace ==
  /\ KeyPressed
  /\ input_mode # "Normal" /\ input # <<>>
  /\ input' = Front(input)
  /\ UNCHANGED <<input_mode, private_username, console_messages, entered, outside>>

EnterPrivateUsername ==
  /\ KeyPressed
  /\ input_mode = "PrivateUsername" /\ Typed(input)
  /\ input_mode' = "PrivateMessaging"
  /\ private_username' = input /\ input' = <<>>
  /\ UNCHANGED <<console_messages, entered, outside>>

(* Client::send_message: into the channel, then wake.  The expect panics   *)
(* when the thread with the receiver has ended.                            *)
Entered == input_mode \in {"Username", "Editing", "PrivateMessaging"}
ThreadGone == net \in {"returned", "panicked"}

\* Slip: the console starts anew.
OnlyOwn(messages, m) == <<m>>

Echo(messages, m) == IF m.kind = "private" THEN Append(messages, m) ELSE messages

EnterSends ==
  LET message == MessageOf(input_mode, private_username, input) IN
  /\ ui = "run" /\ Entered /\ ~ThreadGone /\ Typed(input)
  /\ channel' = Append(channel, message)
  /\ entered' = Append(entered, [mode |-> input_mode, name |-> private_username, text |-> input])
  /\ input' = <<>>
  /\ input_mode' = IF input_mode = "Username" THEN "Normal" ELSE input_mode
  /\ console_messages' = Echo(console_messages, message)
  /\ ui' = "wake"
  /\ UNCHANGED <<private_username, should_stop, waker, console_channel, client, server>>

EnterPanics ==
  /\ ui = "run" /\ Entered /\ ThreadGone
  /\ ui' = "panicked"
  /\ UNCHANGED <<app, outside>>

\* Slip: the waker is not called.
NoWake == waker

Woken == TRUE

Wake ==
  /\ ui = "wake"
  /\ waker' = Woken
  /\ ui' = "run"
  /\ UNCHANGED <<app, should_stop, channel, console_channel, client, server>>

-----------------------------------------------------------------------------
(* The client thread.  Its poll reports events, or times out; then the     *)
(* flag is looked at, and the events are handled in any order; when none   *)
(* is left, poll is called again.                                          *)

\* Slip: poll waits for an event.
UntilEvent == waker \/ readable

OrTimeout == TRUE

Poll ==
  /\ net = "loop" /\ batch = {}
  /\ OrTimeout
  /\ batch' = IF should_stop THEN {}
              ELSE {e \in {"waker", "socket"} : IF e = "waker" THEN waker ELSE readable}
  /\ waker' = FALSE /\ readable' = FALSE
  /\ net' = IF should_stop THEN "returned" ELSE "loop"
  /\ UNCHANGED <<interface, channel, console_channel, read, sent, incoming, line>>

HandleEvent(e) ==
  /\ net = "loop" /\ e \in batch
  /\ batch' = batch \ {e}
  /\ net' = IF e = "waker" THEN "drain" ELSE "read"
  /\ UNCHANGED <<interface, channels, read, sent, server>>

SendMessage ==
  /\ net = "drain" /\ channel # <<>>
  /\ sent' = Append(sent, Head(channel))
  /\ channel' = Tail(channel)
  /\ UNCHANGED <<interface, waker, console_channel, net, batch, read, server>>

Drained ==
  /\ net = "drain" /\ channel = <<>>
  /\ net' = "loop"
  /\ UNCHANGED <<interface, channels, batch, read, sent, server>>

(* Connection::encode panics or refuses when it is the turn of a text that *)
(* is too long (see ConnectionSend); only a writable event looks at what   *)
(* send answers then.                                                      *)
TooLong(m) == Len(m.to) + Len(m.text) > MaxText

EncodeFails ==
  /\ net \in {"drain", "read"}
  /\ \E i \in DOMAIN sent : TooLong(sent[i])
  /\ net' = "panicked" \/ (net = "read" /\ net' = "returned")
  /\ UNCHANGED <<interface, channels, batch, read, sent, server>>

(* Connection::read, one step for each message that is processed.          *)
NextIncoming == incoming[read + 1]
Reads(kinds) == net = "read" /\ read < Len(incoming) /\ NextIncoming \in kinds
ConsoleGone == ui \in {"failed", "panicked", "ended"}

ProcessChat ==
  /\ Reads({"global", "private"}) /\ ~ConsoleGone
  /\ read' = read + 1
  /\ console_channel' = Append(console_channel, Received(read + 1))
  /\ UNCHANGED <<interface, channel, waker, net, batch, sent, server>>

ProcessChatPanics ==
  /\ Reads({"global", "private"}) /\ ConsoleGone
  /\ net' = "panicked"
  /\ UNCHANGED <<interface, channels, batch, read, sent, server>>

ProcessOther ==
  /\ Reads({"ping", "ignored"})
  /\ read' = read + 1
  /\ sent' = IF NextIncoming = "ping" THEN Append(sent, Pong) ELSE sent
  /\ UNCHANGED <<interface, channels, net, batch, server>>

ReadBlocks ==
  /\ net = "read" /\ read = Len(incoming) /\ line = "open"
  /\ net' = "loop"
  /\ UNCHANGED <<interface, channels, batch, read, sent, server>>

(* An invalid message, the end of the stream, or an error, which may come  *)
(* before the last message was read.                                       *)
ReadEnds ==
  /\ (net = "read" /\ line = "closed") \/ Reads({"invalid"})
  /\ net' = "returned"
  /\ UNCHANGED <<interface, channels, batch, read, sent, server>>

-----------------------------------------------------------------------------
(* The server *)

ServerSends(kind) ==
  /\ line = "open" /\ Len(incoming) < MaxIncoming
  /\ incoming' = Append(incoming, kind)
  /\ readable' = TRUE
  /\ UNCHANGED <<interface, channels, client, line>>

ServerCloses ==
  /\ line = "open"
  /\ line' = "closed"
  /\ readable' = TRUE
  /\ UNCHANGED <<interface, channels, client, incoming>>

-----------------------------------------------------------------------------

User ==
  \/ \E c \in {"private", "name", "text", "space"} : KeyChar(c)
  \/ Backspace
  \/ KeyE
  \/ KeyP
  \/ KeyQ
  \/ Esc
  \/ EnterPrivateUsername
  \/ EnterSends
  \/ EnterPanics

UIStep == Draw \/ Joined \/ Wake

NetStep ==
  \/ Poll
  \/ \E e \in batch : HandleEvent(e)
  \/ SendMessage
  \/ Drained
  \/ EncodeFails
  \/ ProcessChat
  \/ ProcessChatPanics
  \/ ProcessOther
  \/ ReadBlocks
  \/ ReadEnds

Next ==
  \/ User
  \/ UIFails
  \/ UIStep
  \/ NetStep
  \/ \E kind \in Incoming : ServerSends(kind)
  \/ ServerCloses

Spec == Init /\ [][Next]_vars

(* Both threads are scheduled; poll has a timeout of 500 ms.               *)
FairSpec == Spec /\ WF_vars(UIStep) /\ WF_vars(NetStep)

-----------------------------------------------------------------------------
(* Properties *)

OwnAt(messages) == {i \in DOMAIN messages : messages[i].kind # "pong"}
SentByUser == Selected(sent, OwnAt(sent))

(* What reaches the server is a login before anything else, and no second  *)
(* one, whatever keys are pressed in whatever mode (main.rs:106-224).      *)
LoginFirst ==
  \A i \in DOMAIN SentByUser : (SentByUser[i].kind = "login") <=> i = 1

(* Is m what the user meant?  A name with a space in it is taken apart     *)
(* when the message is put together (main.rs:193-201).                     *)
Meant(m, e) ==
  CASE e.mode = "Username" -> m = Login(e.text)
    [] e.mode = "PrivateMessaging" /\ Space(e.name) = 0 -> m = Private(e.name, e.text)
    [] e.mode = "Editing" /\ ~IsPrefix(PrivatePrefix, e.text) -> m = Global(e.text)
    [] e.mode = "Editing" /\ IsPrefix(PrivatePrefix, e.text) ->
         /\ m.kind = "private" /\ Space(m.to) = 0
         /\ \/ e.text = PrivatePrefix \o m.to \o <<"space">> \o m.text
            \/ e.text = PrivatePrefix \o m.to /\ m.text = <<>>
    [] OTHER -> m.kind = "private"

(* Every text the user has entered is on its way or with the connection:   *)
(* once, in order, with the addressee and the words that were entered      *)
(* (main.rs:121-212, client.rs:116-120, 159-165).                          *)
SentAsEntered ==
  LET all == SentByUser \o channel IN
  /\ Len(all) = Len(entered)
  /\ \A i \in DOMAIN all : Meant(all[i], entered[i])

ReceivedAt(messages) == {i \in DOMAIN messages : messages[i].kind = "received"}
ChatRead == {n \in 1 .. read : incoming[n] \in {"global", "private"}}

(* The console shows every chat message that was read, once and in order,  *)
(* next to the private messages the user sent; those that are not shown    *)
(* yet are in the channel (main.rs:384-386, messages.rs:60-110).           *)
ConsoleComplete ==
  Selected(console_messages, ReceivedAt(console_messages)) \o console_channel =
    Selected([n \in 1 .. read |-> Received(n)], ChatRead)

(* A message in the channel has its wakeup: the thread is about to look    *)
(* into the channel, or will be woken (client.rs:116-120, 159-165).        *)
NoLostWakeup ==
  channel # <<>> /\ ~ThreadGone /\ ui # "wake" =>
    waker \/ "waker" \in batch \/ net = "drain"

(* Sending does not panic the user interface as long as the server keeps   *)
(* the connection and no text was too long for a packet (client.rs:160).   *)
NoPanicWhileConnected ==
  ui = "panicked" =>
    \/ line # "open"
    \/ \E i \in DOMAIN incoming : incoming[i] = "invalid"
    \/ \E i \in DOMAIN sent : TooLong(sent[i])

(* Whoever quits leaves no thread behind, and the client thread never      *)
(* finds the console gone, unless the terminal failed (main.rs:111-115,    *)
(* messages.rs:68).                                                        *)
QuitIsClean ==
  /\ ui = "ended" => ThreadGone
  /\ net = "panicked" => ui = "failed" \/ \E i \in DOMAIN sent : TooLong(sent[i])

(* "q" ends the program, whatever the client thread is doing: it is not    *)
(* woken, but its poll has a timeout (client.rs:61, 110, main.rs:111).     *)
QuitEnds == ui = "join" ~> ui = "ended"

(* What the user enters is given to the connection in the end, unless the  *)
(* user quits first or the thread has ended (client.rs:102-120).           *)
EnteredIsSent ==
  \A n \in 1 .. MaxEntered :
    Len(entered) >= n ~> Len(SentByUser) >= n \/ should_stop \/ ThreadGone
=============================================================================
