# A verification project for the chat server

The repository holds a chat server (`src/backend`), a terminal client (`src/frontend`) and a load
test. This directory holds TLA+ models of the server and the client, the TLC configurations that
check them on small instances, and proofs that hold for every instance.

## The system

| Part | Source | State it keeps | What changes it |
|---|---|---|---|
| Main thread | `backend/src/net/server.rs` | the poll, its waker, two event channels, `next_thread` | accepts connections and hands them to the threads in turn; relays every chat message to every thread; `Server::join` |
| Connection threads | `connection_thread.rs` | the connections of the thread, a channel for new ones, an event channel for each kind of message, a waker | adopts connections, hands out messages, reads and writes its connections, removes them |
| Event handler | `event.rs` | senders and a waker | `send` and then `wake`, called by connection threads (towards main) and by main (towards each thread) |
| Server stop | `server_stop.rs` | one flag for each thread | set in order by the Ctrl-C handler, looked at after each poll |
| Messages | `msg/messages.rs`, `msg/message.rs` | `user_name` of the connection | ping is answered, login sets the name, publish goes through the event handler |
| Connection, reading | `connection.rs:100-250` | `in_buffer`, decoder state | bytes from the socket, in chunks; packets are decoded and processed |
| Connection, sending | `connection.rs:252-372` | `message_queue`, `out_buffer`, `send_interest` | messages are queued, encoded, written as far as the socket takes them |
| Monitoring | `monitoring.rs` | atomic counters of each thread | all threads count, main prints and resets |
| Client, network thread | `frontend/src/net` | a connection (a copy of the server's code), a channel and its waker, a stop flag | messages of the user and of the server |
| Client, user interface | `frontend/src/main.rs` | input mode, input box, console | keys, and messages for the console |

The parts interact through channels, each paired with a waker (a message is sent first, then the
waker is called; two steps), through the list of connection threads behind a mutex, which a panic
poisons, through atomic flags and counters, and through sockets with edge-triggered events.

What is hard here: a thread looks into its channels only when its waker was called, so an order of
steps in which a message slips in behind the receiver's back would lose it for an arbitrary time;
messages cross two channels while connections come, change their names and go; threads end one
after the other while others still send to them; the stream of a connection is cut anywhere; and
poll reports a socket once, so that reading and writing have to go on until it would block.

What makes each part correct:

* routing: messages are attributed to the name their sender had, addressed to the name the receiver
  has, and everybody sees global messages in the same order without gap or duplicate;
* wakeups: what lies in a channel always has somebody who will look;
* shutdown: no thread panics unless the server is being shut down, and the process ends then;
* reading: whatever the chunks, the packets are processed once and in order, and the connection is
  closed only for a reason of the peer's;
* sending: messages go out in order, whole, and none waits for an event that has passed;
* end to end: what one side of a connection processes is what the other side was given to send;
* monitoring: what is printed was true at some moment, although it is counted while it is read;
* client: what is entered is sent as it was meant, once and after the login, what is received is
  shown, quitting ends it, and nothing panics while the connection lasts.

## The modules

`ChatServer` models the main thread, the connection threads, the channels and wakers, the messages
and the shutdown. Each step of a thread between two operations other threads can see is an action:
taking a message and sending it on and calling a waker are three. `mpc` and `tpc` say where a thread
is: `loop` (between events or about to poll), `accept` and `acceptWake` (`server.rs:106-151`),
`global` and `private` (draining that channel), `send` and `wake` (`event.rs:26-33`), `new`
(adopting connections), `read` (inside `Connection::read`). `mbatch` and `tbatch` are the events
that poll returned and that are not handled yet. `mwake` and `twake` are the wakers: set by `wake`,
cleared when poll reports them. The events of a batch are handled in any order, since poll promises
none. A connection is `new`, in the listener's `backlog`, `queued` in the channel of its `home`
thread, `open` or `gone`. What its client sends is a `plan` of requests, already decoded; what it
is sent is its `outbox`, the sequence of `send_message` calls. A message carries its origin, the
connection and the number of the request, which stands for its text and lets the properties tell
messages apart. `stopped` counts the stop flags that are set. A panic of main unwinds its stack
(the receivers are dropped, and the mutex is poisoned: main panics only while it holds it).

`TotalOrderBroadcast` is what the server promises of global messages: one log, and members that
read it entry by entry from where they joined. `ChatServer` refines it: the log is the order in
which main's channel took the messages, and the cursor of a connection is what its thread has
handed out, that is the log without what is still in one of the channels or on its way in between.

`ConnectionRead` models `Connection::read` and the decoder. A byte is its offset in the stream, so
that the buffer shows which bytes it holds, the shift in `decode_payload` included. A packet is
what the decoder can find in it: is the header legible, which number and size does it give, and
which kind of message does the payload parse as. `MessageStream` is what reading promises, without
bytes: messages in order, once, up to the first invalid one, and no closing without reason.

`ConnectionSend` models `send_message`, `send` and `encode` against a socket with a bounded send
buffer, a peer that drains it in pieces or breaks the line, and poll. An event exists (`event`)
when room appeared while writable events were enabled, is put into the batch by poll (`ready`) and
handled after other events of the batch, which may themselves call `send_message`.

`ConnectionPair` composes the two: an instance of `ConnectionSend` and one of `ConnectionRead` share
the line (`peer`), and the steps of one that are the environment's of the other are one action.
`Encode` makes the packet of the message the next one of the receiver's stream, `Deliver` takes
bytes out of the sender's buffer and lets them arrive, `Finish` and `Break` end the connection on
both sides. When the sender tears a packet, its end is garbled for the receiver: bytes of another
offset stand there. The client and the server have a copy of the code each, and either may be
either side.

`Monitoring` models the counters of the main thread and of the connection threads, and
`Monitoring::update`. Every `fetch_add`, load and store is a step. `call` holds what a thread has
added to the counter of the interval and not yet to the total; `at` counts the loads and later the
stores of update, which go through the rows of one thread after the other. The four rows of bytes
and messages are one, `traffic`. `counted`, `outside`, `shown` and `moments` are histories that the
properties compare the counters with. `MaxAmount` bounds what one call adds.

`ChatClient` models the user interface, the client thread and the two channels between them. `ui`
is `run` (drawing and looking for a key), `wake` (between the two halves of
`Client::send_message`), `join` (after "q"), or how it ended. `net` is `loop`, `drain` (the
message channel), `read` (in `Connection::read`), or how it ended. Every key in every input mode is
an action; a text is a sequence of characters among which "space" and the word "private" matter, so
that the composing and splitting of private messages is modelled by what it does. `sent` is what
was given to the connection; `entered` is a history of what the user meant.

`Subsequence` has the elements of a sequence at given places, in their order, for the properties of
the other modules; the modules whose names end in `Proofs` are described below.

The `MC` modules give the constants their values. The definitions marked "Slip" belong to no
specification: each is a plausible mistake, put in the place of the definition that follows it to
see that the property it is listed with in `PROJECT.json` fails.

## The runs

| Run | Instance | Shows |
|---|---|---|
| `server_routing` | 3 clients, 2 threads, 3 plans | attribution, addressing, balance, no lost wakeup, one order for global messages |
| `server_liveness` | 2 clients, 2 threads, fair | every message is delivered in the end |
| `server_shutdown` | 2 clients, 2 threads, Ctrl-C, failing accept, a client that hangs up, fair | types, panics only during shutdown, no lost wakeup, order kept, the process ends |
| `connection_read` | header 2, payload up to 3, 3 packets out of a set with every defect, any chunks | the decoder |
| `connection_send` | packets of 2 to 6 bytes, send buffer 3, 3 messages, any draining | sending |
| `monitoring` | 2 connection threads, 2 connections, 2 calls of traffic | what update prints |
| `chat_client` | a login and one more message, entered with corrections and in any mode; one message of the server; fair | the client |
| `connection_pair` | packets of 2 and 4 bytes, a payload that encode refuses and one that panics it, send buffer 2, 2 messages, fair | one direction of a connection, end to end |
| `join_poisoned` | as `server_shutdown` | finding: `Server::join` may not wait |
| `accept_error_hangs` | as `server_shutdown` | finding: an error of accept leaves a server that never ends |
| `send_torn` | as `connection_send` | finding: a packet in three writes is corrupted |
| `encode_overflow` | as `connection_send` | finding: a payload near the maximum panics the thread |

The bounds and why they are enough. Two threads are the fewest between which a message can travel
and the order can differ; relaying treats all threads alike, one after the other. Three clients on
two threads put two on one thread and wrap the round robin. The plans have the requests that
interact: two publishers at once, a change of name behind a private message, a request before
login, two messages on each other's heels. A read buffer of five bytes holds a packet of the
largest size, or a small one and the beginning of another; three packets let the decoder resume,
go on within the buffer and shift. A send buffer of three bytes makes packets of two to five go
out in one, two or more writes. In `connection_pair` two messages are enough for a packet that is
torn, one before or behind it, and a queue; the buffer of two bytes tears the longer packet.
Three counting threads (main is one) interleave with update in every way; two connections allow one
to be lost while the other is accepted; each thread can be in the middle of a call. The client's
lines, `MCLine`, give every input mode its text: a login, a public message, a private one typed
out, a name that ends in a space, so that the splitting matters; every beginning of a line may be
entered, also an empty one, and the text that is left behind by Esc goes on in another mode. Two
entered messages are a login and the one that must come after it; one message of the server
suffices, for an incoming message meets the user's steps and not another message
(`ConnectionRead` has the sequences of them).

Deadlock is not checked: a server whose clients have said everything waits for ever, a process that
has ended does nothing, and a closed connection stays closed. A client whose user types nothing
more waits, and so does `Monitoring` once the bounds on what is counted are reached.

### Fairness

`FairSpec` of `ChatServer` assumes that the operating system schedules every thread, that a poll
returns when its waker was called (a poll with nothing to report times out after 500 ms, finds
nothing and is the same as no step), that the Ctrl-C handler, once it has begun to set flags, goes
on, and that the thread that runs `Server::join` is scheduled. It does not assume that clients do
anything, that they are ever readable, or that Ctrl-C is pressed. In the reading model the only
assumption is that the thread runs and poll reports what is ready; in the sending model, in
addition, that the peer goes on reading. In `ConnectionPair` the receiver is that peer: both threads
run and the network delivers what it has taken. In `ChatClient` both threads are scheduled; the
client thread's poll has a timeout of 500 ms (`client.rs:61`), so that it looks at its stop flag
again without an event, which is what `QuitEnds` needs. Nothing makes the user press a key or the
server send, and the terminal may fail at any time. `Monitoring` has no fairness: its properties
are invariants.

### The four findings

* `join_poisoned`. The main thread has passed its check of the stop flag and relays a message; the
  handler sets all flags; a connection thread polls, sees its flag and returns, dropping its
  receivers; main's next send panics with the guard of `connection_threads` alive. The lock is
  poisoned and `Server::join` panics at `lock().unwrap()` without waiting for the other threads.
* `accept_error_hangs`. After an unexpected error of `accept()` only the main thread returns. No
  stop flag is set: the process goes on without it, and ends only by Ctrl-C.
* `send_torn`. `out_buffer_pos = n` after a short write should add `n`. The first short write of a
  packet hides it (the position was 0), so two writes are right and three are not. What the code
  does keep, `IntactUnlessShortTwice`, is checked in `connection_send`.
* `encode_overflow`. `out_buffer` has `MAX_PAYLOAD` bytes but takes the header too.

## What is proved

TLAPS checks the proofs of eight modules, for every value of the constants that the named
assumptions of the modules allow: any number of threads (at least one), connections, users and
requests in `ChatServerAssumption`; any header size and payload limit (at least one byte), any set
of packets and any way to cut their stream in `ConnectionReadAssumption`; any send buffer (at least
one byte) and any payloads in `ConnectionSendAssumption`; the same for both sides in
`ConnectionPairAssumption`, but that no payload is empty (it is the JSON text of a message); any
number of connection threads (at least one), connections and calls, and any amount up to
`MaxAmount` in one call, in `MonitoringAssumption`. The proofs about the client use no assumption
at all. Nothing else is assumed.

| Theorem | Says | Checked by TLC in |
|---|---|---|
| `ServerTypeCorrect` | the server's variables keep their types | `server_shutdown` |
| `NoThreadPanicsWhileServing` | no thread panics before a stop flag is set or accept fails | `server_shutdown` |
| `ServerLosesNoWakeup` | whatever is in a channel, somebody will look | `server_routing`, `server_shutdown` |
| `ConnectionsBalanced` | two threads never differ by more than one accepted connection | `server_routing` |
| `ServerImplementsBroadcast` | the server implements `TotalOrderBroadcast` | `server_routing`, `server_shutdown` |
| `MessagesDeliveredAsSent` | a client receives what was asked for, under its sender's name | `server_routing` |
| `PrivateMessagesInOrder` | private messages of one sender arrive once and in order | `server_routing` |
| `TypeCorrect` | the reading connection's variables keep their types | `connection_read` |
| `DecoderKeepsPace` | the buffer starts with the packet that is next, the remembered header is its header | `connection_read` |
| `NeverReadsIntoFullBuffer` | `read` is never called with an empty slice | `connection_read` |
| `ReadingImplementsStream` | reading implements `MessageStream` | `connection_read` |
| `SendTypeCorrect` | the sending connection's variables keep their types | `connection_send` |
| `NothingStalls` | what is left to send has its writable event | `connection_send` |
| `TornOnlyByShortWrites` | a packet is torn only by a second short write | `connection_send` |
| `NoMessageLost` | every accepted message is queued, being sent, delivered or refused, in order | `connection_send` |
| `SentIsProcessed` | one side processes what the other side was given, in order, up to a torn packet | `connection_pair` |
| `ClosesWithReason` | the receiver closes for a torn packet, a broken line, or after everything | `connection_pair` |
| `PrintedConnectionsWereTrue` | the printed number of connections was the number at some moment of the update | `monitoring` |
| `IntervalsCountOnce` | no call is printed in two intervals, and none outside of an update is missed | `monitoring` |
| `TotalsKeepUpWithIntervals` | the total is behind the printed intervals by at most one call of each thread | `monitoring` |
| `ClientLosesNoWakeup` | a message in the client's channel has its wakeup | `chat_client` |
| `UIPanicsForAReason` | the user interface panics only after the connection was lost or a text was too long | `chat_client` |
| `QuittingIsClean` | quitting leaves no thread behind, and the thread does not find the console gone | `chat_client` |
| `TextsSentAsEntered` | what is sent are the texts entered, in order, as their modes mean them | `chat_client` |
| `LoginComesFirst` | nothing is sent before the login, and there is one login | `chat_client` |
| `ConsoleIsComplete` | the console shows what was sent and received, in order and once | `chat_client` |

`ChatServerProofs`. `TypeOK` is not inductive: which channel a message goes into depends on the
message. `TypeInv` adds that a thread in `read` or about to wake main knows its connection
(`ReadingConn`), that main relays a chat message (`Relaying`) which it took from the channel of its
kind (`ChannelKinds`), and that a connection in a thread's channel has that thread as its home
(`Housed`). One lemma for each group of actions shows that `TypeInv` is kept, and the lemmas
`RequestType` and `MessageType` say that what a thread reads is a request and what it makes of it a
message. That no thread panics needs `Guarded` beside it: whoever has ended was told to stop. While
no flag is set the only thing main can do wrong is to fail, and no thread can end; once a flag is
set, it stays set (`StopIsFinal`).

`Balanced` compares threads with each other, which no step preserves. `InRotation` says instead
what each thread has: there is a number of rounds, and a thread was given one connection more than
that if it had its turn in the round that is going on (`Turns`). It needs `Homeless`, that main
never accepts a connection that has a thread.

`NoLostWakeup` is inductive over `TypeInv`. It falls into three parts, for
chat messages to main, chat messages to a thread and connections to a thread, and each part is kept
by the steps of main and by those of a thread. The argument turns on the order of things in the
code: `send` comes before `wake`, so a message that arrives behind the receiver's back has a sender
that is still to wake it; poll takes back the wake but reports it, and the report leads past all
channels; a channel is left only when it is empty (`MainDrained`, `ThreadDrained`,
`ThreadAdopted`); main goes on with the channel it was draining because the message it relays is of
that kind (`ChannelKinds`). A step of thread t leaves the other threads alone (`OthersUnmoved`).

`SubsequenceProofs`. Many properties speak of the elements of a sequence that satisfy a condition.
`SelectSeq` is recursive, and what it returns for every sequence cannot be proved here. The modules
therefore use `Selected` of `Subsequence`, which is given the places as a set: its n-th element
stands at the place that has n places up to it (`Nth`). The lemmas say that there is one such place
(`NthIs`), that it stays when later places are added (`NthStays`), and what is selected from a
sequence that has grown by one element (`SelectedAppend`) or from two in a row (`SelectedConcat`).

`ChatServerMessageProofs`. For the refinement, `FlowInv` cuts the log at what each thread has taken:
behind that come, for thread t, the global messages in its channel, then the one main is relaying
unless t was sent it already, then those in main's channel, each the log's entry at its place.
Beside it `Homed` says that an open connection has a thread. Every step then is one of
`TotalOrderBroadcast` or leaves its variables alone: a global message that enters main's channel
extends the log, a thread that hands out a message moves the cursors of its connections together,
one that adopts a connection lets it join at the thread's place.

For what is delivered, `Asked` is the set of all messages that the requests processed so far
justify, `Addressed(c)` those of them that c may see. `AllAsked` says that the channels, the relay
and the clients hold nothing else; both sets only grow, so what was justified stays so. `Names`
ties `user_name` to the last login among the requests that were processed. The order of private
messages is an invariant on the whole way: `PathsSorted` says that in main's channel, in the relay
and in each thread's channel the messages of one sender are in order, and that each part is ahead of
the one behind it; `ClientsSorted` that what a client has is ahead of all that its thread is still
to get. A thread that takes a private message from the front of its channel appends it to
clients that have only earlier ones.

`ConnectionReadProofs`. The inductive invariant is `Inv == TypeOK /\ DecoderInv`: neither half is
inductive alone, since the types of what is read out of the buffer depend on what lies there. The
lemmas `HeaderOfFront` and `PayloadOfFront` say that a header or payload in the buffer is that of
the packet that is next. `NeverFull` follows: an incomplete packet is shorter than the buffer. The
refinement is proved step by step: `Receive` of `MessageStream` is the decoding of a valid
payload, closing is one of `ReadEnds`, `ReadFails`, `HeaderInvalid` and `PayloadInvalid`, and
everything else is a stutter.

`ConnectionSendProofs`. `TypeOK` is not inductive: that `delivered` holds accepted messages needs
that a message is in `out_buffer` when its size says so (`SendingAccepted`). `NoStall` speaks of the
time between two calls of `send`, so `StallInv` adds what holds during a call from `send_message`:
whatever was pending before the new message is still armed (`Sending`), since the call may return
after a refused packet without having looked at the rest. `TornInv` adds to the property that
`out_buffer_pos` is where the last write ended until a second short write. `NothingLost` follows
from `OrderInv`: the queue holds the last accepted messages, one after the other, so that it splits
the accepted ones at `Taken`; those before are delivered in order, in `out_buffer` behind all that
was delivered, or do not fit.

`ConnectionPairProofs`. The pair's steps are steps of its sides, so each side keeps the invariant of
its own proofs (`SidesInv`; the lemmas of the two modules are used through instances). What is added
ties the sides together. `Handed`: there are as many packets as messages that `encode` was given and
that fit. `AsDue`: the packets are the ones that are due, or the one that is torn and is not valid.
`InBytes` is the conservation of bytes while the line is open and nothing is torn: those that have
arrived, those in the send buffer and those still to be written are the whole stream. It shows why a
tear does not disturb the receiver: it garbles bytes of the last packet that were not written yet,
and the receiver cannot have those (`TornIsLast`); if it has decoded that packet's header, only the
payload is garbled. `ClosedInv` says why a receiver that is closed has closed; it stays true since a
sender that has finished does nothing any more (`FinishedRests`). `EndToEnd` follows because a
packet that was processed is valid, so it is not the torn one, and therefore is the one that is due.

`MonitoringProofs`. `Sum` is the number of units in a set of counters, so that what is known of
cardinalities replaces induction (`SumStep`, `SumTake`). The properties speak of the end of an
update, while other threads go on counting in the middle of it; the invariants are therefore split
at the loads and stores that update has done (`at`). `Control` says where a thread and update are.
`Books` says that for each row what was counted is what the totals have and what lies between the
two additions of a call (`CountedInv`), that what was shown, loaded and is still to be loaded misses
nothing and holds nothing twice (`NoneMissing`, `NoneTwice`), and that the sum of totals is behind
by the calls of those threads only whose total was already loaded (`LateThreads`). `Tally` is about
connections: the number of them now (`Balance`), and `Moments`: `Estimate`, the lost connections as
loaded so far and as they would be loaded now, is at most those lost by now, and each number
between the one now and the one update would print was passed through. The number of connections
changes by one in each step while update loads, since main, which accepts, is the one that updates.

`ChatClientProofs`. `NoLostWakeup` is inductive as it stands. The panics depend on each other: the
user interface panics only when the client thread has ended (`UIGone` and the guard of
`EnterPanics`), the thread ends when it was told to stop, when the terminal failed or for a reason
of the connection's (`NetGone`), the stop flag is set only by a user interface that sends no more
(`Stopping`), and the thread finds the console gone only if it was not joined (`NetPanics`).
`ReasonsStay` shows that a reason, once there, stays; it needs of the messages only that they are
appended to sequences, and says so with "there is a set that they are from". For what is entered,
`WayInv` follows the texts: what was sent and what is in the channel, one behind the other, are the
messages that the entries mean, and only the first entry was made in the mode of the login
(`NameFirst`). `LoginFirst` follows, and `ConsoleInv` follows the messages that were read through
the console's channel to the console.

Only model-checked is what must happen in the end: `GlobalReachesAll`, `PrivateReachesAddressee` and
`StopTerminates` of the server, and the liveness of reading, sending, the pair and the client. It
needs reasoning about ENABLED that the prover does not do. Every safety property that a run checks
is a theorem.

## What is not modelled

* Binding the listener, and errors of poll, of registering and of waking, which the code treats by
  trying again or by a panic at start-up; an interrupted system call, which is tried again.
* `connection_thread_amount = 0`, which would drop every connection (`server.rs:142`): `main.rs`
  starts four threads, and `ThreadAmount` is assumed to be positive.
* Texts, JSON and UTF-8: only whether a payload parses as the announced message.
* The numbers of tokens, which are never used twice.
* Clients with endless requests: a connection thread inside `read` would then never return to its
  loop and see its stop flag, which is a property of the code the plans cannot show.
* Memory: the queue of a connection and the channels have no limit in the code either.
* The client's drawing, but for the console channel that it empties, the cursor, and the terminal:
  an error of drawing or of reading a key ends `run_app` at any time (`UIFails`).
* The client's start: without a server `Client::new` panics before there is anything to model. Once
  the user interface has ended by an error or a panic the process exits; the model lets the client
  thread go on, which only adds behaviours.
* Weak memory in `Monitoring`: its loads are `Relaxed`, and the model lets operations take effect
  in the order of the program, as they do on x86. Where loads are reordered, a total
  may be older than the interval that was loaded before it, and `TotalCoversLasts` may miss it.
  The rates per second are left out; when an update is due is free.
* The load test, `backend/test/performance_test.rs`: a program of its own that measures.

## The plan

1. (done) The core: `ChatServer` with `TotalOrderBroadcast`; `ConnectionRead` with `MessageStream`;
   `ConnectionSend`; the proofs about reading, and of the server's types, wakeups and panics.
2. (done) `Monitoring`: the counters of several threads, interleaved with `update()`.
3. (done) `ChatClient`: the network thread, its channel and stop flag, and the input modes;
   `ConnectionPair`: sending and reading composed.
4. (done) Proofs: of the refinement, balance, delivery and order of the server; of the order of what
   is sent; of the statistics; of what the user enters and sees; and of `ConnectionPair`.
5. Left: an abstract specification of the whole connection that `ConnectionPair` implements, and one
   of the channel with a waker that the server and the client both use, with proofs.
