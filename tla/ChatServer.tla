----------------------------- MODULE ChatServer -----------------------------
(***************************************************************************)
(* The chat server: one main thread that accepts connections and relays    *)
(* chat messages, ThreadAmount connection threads that serve the           *)
(* connections, the channels and wakers between them, and the shutdown     *)
(* (backend/src/net/server.rs, connection_thread.rs, event.rs,             *)
(* server_stop.rs and msg/messages.rs).                                    *)
(*                                                                         *)
(* A connection is what its thread decodes from it: a sequence of requests *)
(* (ConnectionRead) and a queue of replies (ConnectionSend).               *)
(***************************************************************************)
EXTENDS Integers, Sequences, FiniteSets, Functions, Subsequence

CONSTANTS
  ThreadAmount,   \* connection_thread_amount
  Conn,           \* the connections clients may open
  User,           \* user names
  Plans,          \* what the clients may ask for: a set of [Conn -> Seq(Request)]
  MayHangUp,      \* connections that may be closed by their client
  MayStop,        \* may Ctrl-C be pressed?
  AcceptMayFail,  \* may accept() fail?
  WAKER_TOKEN,    \* token of a connection thread's waker
  None            \* Option::None

Thread == 0 .. ThreadAmount - 1
Kind == {"global", "private"}

Request == [kind : {"login"}, user : User]
             \union [kind : {"global", "ping"}]
             \union [kind : {"private"}, to : User]

(* A message on its way: who asked for it and with which of its requests   *)
(* (the identity of the text), and the names the code puts in it.          *)
Event == [kind : Kind \union {"pong"}, from : Conn, seq : Nat \ {0},
          user : User \union {None}, to : User \union {None}]

ASSUME ChatServerAssumption ==
  /\ ThreadAmount \in Nat \ {0}
  /\ Plans \subseteq [Conn -> Seq(Request)]
  /\ MayHangUp \subseteq Conn
  /\ MayStop \in BOOLEAN /\ AcceptMayFail \in BOOLEAN
  /\ WAKER_TOKEN \notin Conn
  /\ None \notin User \union Conn \union Thread \union Event

VARIABLES
  \* clients and connections
  plan,         \* the requests each client will send, in order
  stage,        \* new, backlog, queued (for its thread), open, gone
  home,         \* the thread a connection was handed to
  done,         \* how many requests of a connection were processed
  user_name,    \* Connection::user_name
  outbox,       \* everything given to Connection::send_message
  \* the main thread
  mpc, mbatch,  \* where it is; the poll events still to handle
  mwake,        \* its waker has been called since its last poll
  mchan,        \* its event channels, by kind
  fwd, fwdTo,   \* the event being relayed, and the thread that is next
  next_thread,  \* round robin
  \* the connection threads
  tpc, tbatch, twake, tchan,
  reading,      \* the connection whose read() is running
  \* shutdown
  stopped,      \* how many stop flags are set: main's, thread 0's, ...
  joining,      \* how many threads Server::join has waited for
  exit,         \* has main() of the process ended, and how?
  \* history
  log           \* global messages in the order main's channel took them

conns == <<plan, stage, home, done, user_name, outbox>>
mainvars == <<mpc, mbatch, mwake, mchan, fwd, fwdTo, next_thread>>
threads == <<tpc, tbatch, twake, tchan, reading>>
shutdown == <<stopped, joining, exit>>
vars == <<conns, mainvars, threads, shutdown, log>>

Running == exit = "running"
MainGone == mpc \in {"ended", "failed", "panicked"}
ThreadGone(t) == tpc[t] \in {"ended", "panicked"}
connections(t) == {c \in Conn : home[c] = t /\ stage[c] = "open"}

(* The definitions marked "Slip" are mistakes a change of this code could  *)
(* make.  The specification uses none of them: each is put in the place of *)
(* the definition that follows it, to see a property fail.                 *)

(* The stop flags are stored one after the other: flag 0 is the main       *)
(* thread's and flag t + 1 is thread t's.                                  *)
Flagged(i) == stopped > i

\* Slip: the receiver is left to find the message at some later event.
NoWake(t) == twake

\* Slip: a private message does not wake the main thread.
WakeMainForGlobal(k) == mwake \/ k = "global"

\* Slip: a global message does not.
WakeMainForPrivate(k) == mwake \/ k = "private"

(* Waker::wake, of a connection thread and of the main thread. *)
Wake(t) == [twake EXCEPT ![t] = TRUE]
WakeMain(k) == TRUE

Init ==
  /\ plan \in Plans
  /\ stage = [c \in Conn |-> "new"]
  /\ home = [c \in Conn |-> None]
  /\ done = [c \in Conn |-> 0]
  /\ user_name = [c \in Conn |-> None]
  /\ outbox = [c \in Conn |-> <<>>]
  /\ mpc = "loop" /\ mbatch = {} /\ mwake = FALSE
  /\ mchan = [k \in Kind |-> <<>>]
  /\ fwd = None /\ fwdTo = 0 /\ next_thread = 0
  /\ tpc = [t \in Thread |-> "loop"]
  /\ tbatch = [t \in Thread |-> {}]
  /\ twake = [t \in Thread |-> FALSE]
  /\ tchan = [t \in Thread |-> [k \in Kind |-> <<>>]]
  /\ reading = [t \in Thread |-> None]
  /\ stopped = 0 /\ joining = 0 /\ exit = "running"
  /\ log = <<>>

-----------------------------------------------------------------------------
(* Clients *)

Connect(c) ==
  /\ Running /\ ~MainGone
  /\ stage[c] = "new"
  /\ stage' = [stage EXCEPT ![c] = "backlog"]
  /\ UNCHANGED <<plan, home, done, user_name, outbox, mainvars, threads, shutdown, log>>

-----------------------------------------------------------------------------
(* The main thread.  Its mutex guards the list of connection threads; the  *)
(* other user of that list is Server::join, after main is gone, so the     *)
(* lock is never contended and only its poisoning is modelled: main can    *)
(* panic only while it holds the guard.                                    *)

(* The main thread's stack unwinds: the listener and the receivers close.  *)
MainStops(how) ==
  /\ mpc' = how
  /\ stage' = [c \in Conn |-> IF stage[c] = "backlog" THEN "gone" ELSE stage[c]]

MainReady ==
  {"SERVER_SOCKET_TOKEN" : c \in {d \in Conn : stage[d] = "backlog"}}
    \union (IF mwake THEN {"WAKER_TOKEN_BROADCAST"} ELSE {})

MainReturns ==
  /\ Running /\ mpc = "loop" /\ mbatch = {}
  /\ Flagged(0)
  /\ MainStops("ended")
  /\ UNCHANGED <<plan, home, done, user_name, outbox, mbatch, mwake, mchan, fwd, fwdTo,
                 next_thread, threads, shutdown, log>>

(* A poll that times out with nothing to report changes nothing. *)
MainPoll ==
  /\ Running /\ mpc = "loop" /\ mbatch = {}
  /\ ~Flagged(0)
  /\ MainReady # {}
  /\ mbatch' = MainReady
  /\ mwake' = FALSE
  /\ UNCHANGED <<conns, mpc, mchan, fwd, fwdTo, next_thread, threads, shutdown, log>>

MainEvent(e) ==
  /\ Running /\ mpc = "loop" /\ e \in mbatch
  /\ mbatch' = mbatch \ {e}
  /\ mpc' = IF e = "SERVER_SOCKET_TOKEN" THEN "accept" ELSE "global"
  /\ UNCHANGED <<conns, mwake, mchan, fwd, fwdTo, next_thread, threads, shutdown, log>>

(* add_connection: the socket goes into the channel of the next thread;    *)
(* sending to a thread that is gone panics.                                *)
MainAccept(c) ==
  /\ Running /\ mpc = "accept"
  /\ stage[c] = "backlog"
  /\ ~ThreadGone(next_thread)
  /\ stage' = [stage EXCEPT ![c] = "queued"]
  /\ home' = [home EXCEPT ![c] = next_thread]
  /\ mpc' = "acceptWake"
  /\ UNCHANGED <<plan, done, user_name, outbox, mbatch, mwake, mchan, fwd, fwdTo,
                 next_thread, threads, shutdown, log>>

MainAcceptPanics ==
  /\ Running /\ mpc = "accept"
  /\ \E c \in Conn : stage[c] = "backlog"
  /\ ThreadGone(next_thread)
  /\ MainStops("panicked")
  /\ UNCHANGED <<plan, home, done, user_name, outbox, mbatch, mwake, mchan, fwd, fwdTo,
                 next_thread, threads, shutdown, log>>

\* Slip: the thread returns when there is nothing left to accept.
ReturnFromAccept == "ended"

BreakFromAccept == "loop"

MainAcceptBlocks ==
  /\ Running /\ mpc = "accept"
  /\ \A c \in Conn : stage[c] # "backlog"
  /\ mpc' = BreakFromAccept
  /\ UNCHANGED <<conns, mbatch, mwake, mchan, fwd, fwdTo, next_thread, threads, shutdown, log>>

MainAcceptFails ==
  /\ Running /\ mpc = "accept"
  /\ AcceptMayFail
  /\ MainStops("failed")
  /\ UNCHANGED <<plan, home, done, user_name, outbox, mbatch, mwake, mchan, fwd, fwdTo,
                 next_thread, threads, shutdown, log>>

\* Slip: wraps around one thread too early.
WrapTooEarly(i) == IF i + 1 >= ThreadAmount - 1 THEN 0 ELSE i + 1

\* Slip: never wraps around.
NeverWrap(i) == i + 1

NextThread(i) == IF i + 1 >= ThreadAmount THEN 0 ELSE i + 1

MainAcceptWake ==
  /\ Running /\ mpc = "acceptWake"
  /\ twake' = Wake(next_thread)
  /\ next_thread' = NextThread(next_thread)
  /\ mpc' = "accept"
  /\ UNCHANGED <<conns, mbatch, mwake, mchan, fwd, fwdTo, tpc, tbatch, tchan, reading,
                 shutdown, log>>

(* Relaying: all global messages first, then all private ones; each is     *)
(* sent to every connection thread in turn, whose waker is called each     *)
(* time.                                                                   *)
MainTake(k) ==
  /\ Running /\ mpc = k
  /\ mchan[k] # <<>>
  /\ fwd' = Head(mchan[k])
  /\ fwdTo' = 0
  /\ mchan' = [mchan EXCEPT ![k] = Tail(@)]
  /\ mpc' = "send"
  /\ UNCHANGED <<conns, mbatch, mwake, next_thread, threads, shutdown, log>>

MainDrained(k) ==
  /\ Running /\ mpc = k
  /\ mchan[k] = <<>>
  /\ mpc' = IF k = "global" THEN "private" ELSE "loop"
  /\ UNCHANGED <<conns, mbatch, mwake, mchan, fwd, fwdTo, next_thread, threads, shutdown, log>>

MainSend ==
  /\ Running /\ mpc = "send"
  /\ ~ThreadGone(fwdTo)
  /\ tchan' = [tchan EXCEPT ![fwdTo][fwd.kind] = Append(@, fwd)]
  /\ mpc' = "wake"
  /\ UNCHANGED <<conns, mbatch, mwake, mchan, fwd, fwdTo, next_thread, tpc, tbatch, twake,
                 reading, shutdown, log>>

MainSendPanics ==
  /\ Running /\ mpc = "send"
  /\ ThreadGone(fwdTo)
  /\ MainStops("panicked")
  /\ UNCHANGED <<plan, home, done, user_name, outbox, mbatch, mwake, mchan, fwd, fwdTo,
                 next_thread, threads, shutdown, log>>

MainWake ==
  /\ Running /\ mpc = "wake"
  /\ twake' = Wake(fwdTo)
  /\ IF fwdTo + 1 < ThreadAmount
       THEN fwdTo' = fwdTo + 1 /\ mpc' = "send" /\ UNCHANGED fwd
       ELSE fwdTo' = 0 /\ mpc' = fwd.kind /\ fwd' = None
  /\ UNCHANGED <<conns, mbatch, mwake, mchan, next_thread, tpc, tbatch, tchan, reading,
                 shutdown, log>>

-----------------------------------------------------------------------------
(* The connection threads *)

(* Thread t's stack unwinds: its connections, those still in its channel,  *)
(* and its receivers close.                                                *)
ThreadStops(t, how) ==
  /\ tpc' = [tpc EXCEPT ![t] = how]
  /\ stage' = [c \in Conn |->
                 IF home[c] = t /\ stage[c] \in {"queued", "open"} THEN "gone" ELSE stage[c]]
  /\ reading' = [reading EXCEPT ![t] = None]

ThreadReturns(t) ==
  /\ Running /\ tpc[t] = "loop" /\ tbatch[t] = {}
  /\ Flagged(t + 1)
  /\ ThreadStops(t, "ended")
  /\ UNCHANGED <<plan, home, done, user_name, outbox, mainvars, tbatch, twake, tchan,
                 shutdown, log>>

(* The sockets that poll reports readable are the clients' choice. *)
ThreadPoll(t) ==
  /\ Running /\ tpc[t] = "loop" /\ tbatch[t] = {}
  /\ ~Flagged(t + 1)
  /\ \E R \in SUBSET {c \in connections(t) : done[c] < Len(plan[c]) \/ c \in MayHangUp} :
       /\ R # {} \/ twake[t]
       /\ tbatch' = [tbatch EXCEPT ![t] = IF twake[t] THEN R \union {WAKER_TOKEN} ELSE R]
  /\ twake' = [twake EXCEPT ![t] = FALSE]
  /\ UNCHANGED <<conns, mainvars, tpc, tchan, reading, shutdown, log>>

ThreadWaker(t) ==
  /\ Running /\ tpc[t] = "loop" /\ WAKER_TOKEN \in tbatch[t]
  /\ tbatch' = [tbatch EXCEPT ![t] = @ \ {WAKER_TOKEN}]
  /\ tpc' = [tpc EXCEPT ![t] = "new"]
  /\ UNCHANGED <<conns, mainvars, twake, tchan, reading, shutdown, log>>

ThreadReadable(t, c) ==
  /\ Running /\ tpc[t] = "loop" /\ c \in tbatch[t]
  /\ tbatch' = [tbatch EXCEPT ![t] = @ \ {c}]
  /\ tpc' = [tpc EXCEPT ![t] = "read"]
  /\ reading' = [reading EXCEPT ![t] = c]
  /\ UNCHANGED <<conns, mainvars, twake, tchan, shutdown, log>>

(* New connections are registered before any message is handed out. *)
ThreadAdopt(t, c) ==
  /\ Running /\ tpc[t] = "new"
  /\ home[c] = t /\ stage[c] = "queued"
  /\ stage' = [stage EXCEPT ![c] = "open"]
  /\ UNCHANGED <<plan, home, done, user_name, outbox, mainvars, threads, shutdown, log>>

ThreadAdopted(t) ==
  /\ Running /\ tpc[t] = "new"
  /\ ~\E c \in Conn : home[c] = t /\ stage[c] = "queued"
  /\ tpc' = [tpc EXCEPT ![t] = "global"]
  /\ UNCHANGED <<conns, mainvars, tbatch, twake, tchan, reading, shutdown, log>>

\* Slip: connections that have not logged in yet are passed over.
LoggedInReceivers(t, e) ==
  {c \in connections(t) :
     user_name[c] # None /\ (e.kind = "private" => user_name[c] = e.to)}

\* Slip: compares with the name of the sender.
SenderReceivers(t, e) ==
  {c \in connections(t) : e.kind = "private" => user_name[c] = e.user}

(* Whoever gets e: every connection of the thread, or those that go by the *)
(* addressee's name at the moment of delivery.                             *)
Receivers(t, e) ==
  {c \in connections(t) : e.kind = "private" => user_name[c] = e.to}

ThreadTake(t, k) ==
  /\ Running /\ tpc[t] = k
  /\ tchan[t][k] # <<>>
  /\ LET e == Head(tchan[t][k]) IN
       outbox' = [c \in Conn |->
                    IF c \in Receivers(t, e) THEN Append(outbox[c], e) ELSE outbox[c]]
  /\ tchan' = [tchan EXCEPT ![t][k] = Tail(@)]
  /\ UNCHANGED <<plan, stage, home, done, user_name, mainvars, tpc, tbatch, twake, reading,
                 shutdown, log>>

ThreadDrained(t, k) ==
  /\ Running /\ tpc[t] = k
  /\ tchan[t][k] = <<>>
  /\ tpc' = [tpc EXCEPT ![t] = IF k = "global" THEN "private" ELSE "loop"]
  /\ UNCHANGED <<conns, mainvars, tbatch, twake, tchan, reading, shutdown, log>>

(* Connection::read: request after request until it would block. *)
NextRequest(t) == plan[reading[t]][done[reading[t]] + 1]

Reads(t, kinds) ==
  /\ Running /\ tpc[t] = "read"
  /\ done[reading[t]] < Len(plan[reading[t]])
  /\ NextRequest(t).kind \in kinds
  /\ done' = [done EXCEPT ![reading[t]] = @ + 1]

\* Slip: the first name stays.
FirstName(c, u) == IF user_name[c] = None THEN u ELSE user_name[c]

LoginName(c, u) == u

ProcessLogin(t) ==
  /\ Reads(t, {"login"})
  /\ user_name' = [user_name EXCEPT ![reading[t]] = LoginName(reading[t], NextRequest(t).user)]
  /\ UNCHANGED <<plan, stage, home, outbox, mainvars, threads, shutdown, log>>

MessageOf(c, r) ==
  [kind |-> IF r.kind = "ping" THEN "pong" ELSE r.kind, from |-> c, seq |-> done[c] + 1,
   user |-> IF r.kind = "ping" THEN None ELSE user_name[c],
   to |-> IF r.kind = "private" THEN r.to ELSE None]

ProcessPing(t) ==
  /\ Reads(t, {"ping"})
  /\ outbox' = [outbox EXCEPT ![reading[t]] = Append(@, MessageOf(reading[t], NextRequest(t)))]
  /\ UNCHANGED <<plan, stage, home, user_name, mainvars, threads, shutdown, log>>

(* Whoever has not logged in publishes to nobody. *)
PublishIgnored(t) ==
  /\ Reads(t, Kind)
  /\ user_name[reading[t]] = None
  /\ UNCHANGED <<plan, stage, home, user_name, outbox, mainvars, threads, shutdown, log>>

PublishSend(t) ==
  /\ Reads(t, Kind)
  /\ user_name[reading[t]] # None
  /\ ~MainGone
  /\ LET e == MessageOf(reading[t], NextRequest(t)) IN
       /\ mchan' = [mchan EXCEPT ![e.kind] = Append(@, e)]
       /\ log' = IF e.kind = "global" THEN Append(log, e) ELSE log
  /\ tpc' = [tpc EXCEPT ![t] = "wake"]
  /\ UNCHANGED <<plan, stage, home, user_name, outbox, mpc, mbatch, mwake, fwd, fwdTo,
                 next_thread, tbatch, twake, tchan, reading, shutdown>>

PublishWake(t) ==
  /\ Running /\ tpc[t] = "wake"
  /\ mwake' = WakeMain(plan[reading[t]][done[reading[t]]].kind)
  /\ tpc' = [tpc EXCEPT ![t] = "read"]
  /\ UNCHANGED <<conns, mpc, mbatch, mchan, fwd, fwdTo, next_thread, tbatch, twake, tchan,
                 reading, shutdown, log>>

(* The receiver is gone with the main thread. *)
PublishPanics(t) ==
  /\ Reads(t, Kind)
  /\ user_name[reading[t]] # None
  /\ MainGone
  /\ ThreadStops(t, "panicked")
  /\ UNCHANGED <<plan, home, user_name, outbox, mainvars, tbatch, twake, tchan, shutdown, log>>

ReadBlocks(t) ==
  /\ Running /\ tpc[t] = "read"
  /\ tpc' = [tpc EXCEPT ![t] = "loop"]
  /\ reading' = [reading EXCEPT ![t] = None]
  /\ UNCHANGED <<conns, mainvars, tbatch, twake, tchan, shutdown, log>>

(* send() or read() said that the connection should be removed: its client *)
(* closed it or sent what is no request, or the socket failed.             *)
RemoveConnection(t) ==
  /\ Running /\ tpc[t] = "read"
  /\ reading[t] \in MayHangUp
  /\ stage' = [stage EXCEPT ![reading[t]] = "gone"]
  /\ tpc' = [tpc EXCEPT ![t] = "loop"]
  /\ reading' = [reading EXCEPT ![t] = None]
  /\ UNCHANGED <<plan, home, done, user_name, outbox, mainvars, tbatch, twake, tchan,
                 shutdown, log>>

-----------------------------------------------------------------------------
(* Shutdown *)

\* Slip: the list of flags was filled without the last thread's.
OneFlagShort == ThreadAmount

FlagAmount == ThreadAmount + 1

(* ServerStop::stop, from the Ctrl-C handler. *)
SetStop ==
  /\ Running /\ MayStop
  /\ stopped < FlagAmount
  /\ stopped' = stopped + 1
  /\ UNCHANGED <<conns, mainvars, threads, joining, exit, log>>

(* Server::join: waits for the main thread, takes the lock (a poisoned one *)
(* makes it panic), waits for thread 0, 1, ... and returns to main().      *)
JoinThread ==
  /\ Running /\ mpc \in {"ended", "failed"}
  /\ joining < ThreadAmount /\ ThreadGone(joining)
  /\ joining' = joining + 1
  /\ UNCHANGED <<conns, mainvars, threads, stopped, exit, log>>

JoinReturns ==
  /\ Running /\ mpc \in {"ended", "failed"}
  /\ joining = ThreadAmount
  /\ exit' = "returned"
  /\ UNCHANGED <<conns, mainvars, threads, stopped, joining, log>>

JoinPanics ==
  /\ Running /\ mpc = "panicked"
  /\ exit' = "panicked"
  /\ UNCHANGED <<conns, mainvars, threads, stopped, joining, log>>

-----------------------------------------------------------------------------
(* The system.  A poll that only a client's data can end is not among the  *)
(* steps that must happen.                                                 *)

MainStep ==
  \/ MainReturns
  \/ MainPoll
  \/ \E e \in mbatch : MainEvent(e)
  \/ \E c \in Conn : MainAccept(c)
  \/ MainAcceptPanics
  \/ MainAcceptBlocks
  \/ MainAcceptWake
  \/ \E k \in Kind : MainTake(k) \/ MainDrained(k)
  \/ MainSend
  \/ MainSendPanics
  \/ MainWake

ThreadStep(t) ==
  \/ ThreadReturns(t)
  \/ ThreadWaker(t)
  \/ \E c \in Conn : ThreadReadable(t, c) \/ ThreadAdopt(t, c)
  \/ ThreadAdopted(t)
  \/ \E k \in Kind : ThreadTake(t, k) \/ ThreadDrained(t, k)
  \/ ProcessLogin(t)
  \/ ProcessPing(t)
  \/ PublishIgnored(t)
  \/ PublishSend(t)
  \/ PublishWake(t)
  \/ PublishPanics(t)
  \/ ReadBlocks(t)
  \/ RemoveConnection(t)

JoinStep == JoinThread \/ JoinReturns \/ JoinPanics

Next ==
  \/ \E c \in Conn : Connect(c)
  \/ MainStep
  \/ MainAcceptFails
  \/ \E t \in Thread : ThreadStep(t) \/ ThreadPoll(t)
  \/ SetStop
  \/ JoinStep

Spec == Init /\ [][Next]_vars

(* The operating system schedules every thread of the process.  A poll     *)
(* returns when the waker was called (or after 500 ms), and a handler that *)
(* has begun to set stop flags sets them all.                              *)
Fairness ==
  /\ WF_vars(MainStep)
  /\ \A t \in Thread : WF_vars(ThreadStep(t) \/ (twake[t] /\ ThreadPoll(t)))
  /\ WF_vars(stopped > 0 /\ SetStop)
  /\ WF_vars(JoinStep)

FairSpec == Spec /\ Fairness

-----------------------------------------------------------------------------
(* Properties *)

(* The types of the variables. *)
TypeOK ==
  /\ plan \in Plans
  /\ stage \in [Conn -> {"new", "backlog", "queued", "open", "gone"}]
  /\ home \in [Conn -> Thread \union {None}]
  /\ done \in [Conn -> Nat]
  /\ user_name \in [Conn -> User \union {None}]
  /\ outbox \in [Conn -> Seq(Event)]
  /\ mpc \in {"loop", "accept", "acceptWake", "global", "private", "send", "wake",
              "ended", "failed", "panicked"}
  /\ mbatch \subseteq {"SERVER_SOCKET_TOKEN", "WAKER_TOKEN_BROADCAST"}
  /\ mwake \in BOOLEAN
  /\ mchan \in [Kind -> Seq(Event)]
  /\ fwd \in Event \union {None}
  /\ fwdTo \in Thread
  /\ next_thread \in Thread
  /\ tpc \in [Thread -> {"loop", "new", "global", "private", "read", "wake",
                        "ended", "panicked"}]
  /\ tbatch \in [Thread -> SUBSET (Conn \union {WAKER_TOKEN})]
  /\ twake \in [Thread -> BOOLEAN]
  /\ tchan \in [Thread -> [Kind -> Seq(Event)]]
  /\ reading \in [Thread -> Conn \union {None}]
  /\ stopped \in 0 .. ThreadAmount + 1
  /\ joining \in 0 .. ThreadAmount
  /\ exit \in {"running", "returned", "panicked"}
  /\ log \in Seq(Event)

(* Will the running waker event of the main thread, or of thread t, still  *)
(* look into its channel of kind k?                                        *)
MainDrains(k) ==
  LET draining == IF mpc \in {"send", "wake"} THEN fwd.kind ELSE mpc IN
  draining = "global" \/ draining = k

ThreadDrains(t, k) == tpc[t] \in {"new", "global"} \/ tpc[t] = k

(* A message or a connection in a channel always has somebody who will     *)
(* look: the receiver's waker is pending, or reported and not yet handled, *)
(* or being handled and not yet past that channel, or the sender, which    *)
(* sends before it wakes, is about to wake it (event.rs:26-33,             *)
(* connection_thread.rs:95-157 and 213-219, server.rs:152-186).            *)
NoLostWakeup ==
  /\ \A k \in Kind :
       mchan[k] # <<>> /\ ~MainGone =>
         \/ mwake
         \/ "WAKER_TOKEN_BROADCAST" \in mbatch
         \/ MainDrains(k)
         \/ \E t \in Thread : tpc[t] = "wake"
  /\ \A t \in Thread, k \in Kind :
       tchan[t][k] # <<>> /\ ~ThreadGone(t) =>
         \/ twake[t]
         \/ WAKER_TOKEN \in tbatch[t]
         \/ ThreadDrains(t, k)
         \/ mpc = "wake" /\ fwdTo = t
  /\ \A c \in Conn : LET t == home[c] IN
       stage[c] = "queued" =>
         \/ twake[t]
         \/ WAKER_TOKEN \in tbatch[t]
         \/ tpc[t] = "new"
         \/ mpc = "acceptWake" /\ next_thread = t

(* Whatever reaches a client is a request that some client did send, once  *)
(* that request was processed, and it bears the name its sender had logged *)
(* in with last when it sent it, through later logins, departures and      *)
(* delays (messages.rs:33-41, 48-62, 89-103).                              *)
DeliveredAsSent ==
  \A c \in Conn : \A i \in 1 .. Len(outbox[c]) :
    LET e == outbox[c][i]
        asked == plan[e.from]
        logins == {j \in 1 .. e.seq - 1 : asked[j].kind = "login"} IN
    /\ e.seq <= done[e.from]
    /\ IF e.kind = "pong"
         THEN e.from = c /\ asked[e.seq].kind = "ping"
         ELSE /\ e.kind = asked[e.seq].kind
              /\ e.kind = "private" => e.to = asked[e.seq].to
              /\ \E j \in logins : /\ \A l \in logins : l <= j
                                    /\ e.user = asked[j].user

(* A private message reaches only connections that have logged in with the *)
(* addressee's name, reaches none of them twice, and those of one sender   *)
(* arrive in the order they were sent (connection_thread.rs:136-157,       *)
(* server.rs:171-183).                                                     *)
PrivateDelivery ==
  \A c \in Conn : \A i \in 1 .. Len(outbox[c]) :
    LET e == outbox[c][i] IN
    e.kind = "private" =>
      /\ \E j \in 1 .. done[c] : plan[c][j] = [kind |-> "login", user |-> e.to]
      /\ \A h \in 1 .. i - 1 :
           outbox[c][h].kind = "private" /\ outbox[c][h].from = e.from
             => outbox[c][h].seq < e.seq

(* Connections are spread evenly: whatever was accepted, two threads never *)
(* differ by more than one (server.rs:138-148).                            *)
Balanced ==
  \A t, u \in Thread :
    Cardinality({c \in Conn : home[c] = t}) <= Cardinality({c \in Conn : home[c] = u}) + 1

(* No thread panics while the server is meant to run, that is unless a     *)
(* stop flag was set or accept() failed before (event.rs:27-32).           *)
NoPanicWhileServing ==
  mpc = "panicked" \/ (\E t \in Thread : tpc[t] = "panicked")
    => stopped > 0 \/ mpc = "failed"

(* How many of the published global messages thread t has handed out.      *)
Taken(t) ==
  Len(log) - Len(mchan["global"]) - Len(tchan[t]["global"])
    - (IF fwd # None /\ fwd.kind = "global"
          /\ (t > fwdTo \/ (t = fwdTo /\ mpc \in {"send", "panicked"}))
         THEN 1 ELSE 0)

GlobalChatMessage ==
  [kind : {"global"}, from : Conn, seq : UNION {DOMAIN p[c] : p \in Plans, c \in Conn},
   user : User, to : {None}]

(* The global messages of a queue, in its order. *)
GlobalsAt(queue) == {i \in DOMAIN queue : queue[i].kind = "global"}

Globals(queue) == Selected(queue, GlobalsAt(queue))

Broadcast == INSTANCE TotalOrderBroadcast WITH
  Member <- Conn,
  Message <- GlobalChatMessage,
  joined <- {c \in Conn : stage[c] = "open"},
  cursor <- [c \in Conn |-> IF stage[c] = "open" THEN Taken(home[c]) ELSE 0],
  inbox <- [c \in Conn |-> Globals(outbox[c])]

(* However the threads interleave, every client sees the global messages   *)
(* in one and the same order, from the moment it joins without gap or      *)
(* duplicate, also while the server is being shut down: the server         *)
(* implements the total order broadcast.                                   *)
BroadcastInOrder == Broadcast!Spec

Interrupted == stopped > 0 \/ MainGone

(* While nobody stops the server, a connection that stays open gets every  *)
(* global message that is on its way to it: wakers never leave one waiting *)
(* in a channel (event.rs:26-33, connection_thread.rs:126-134,             *)
(* server.rs:158-169).                                                     *)
GlobalReachesAll ==
  \A c \in Conn :
    stage[c] = "open"
      ~> stage[c] # "open" \/ Taken(home[c]) = Len(log) \/ Interrupted

PrivateRequests ==
  UNION {{[from |-> d, seq |-> i, to |-> p[d][i].to] :
             i \in {j \in DOMAIN p[d] : p[d][j].kind = "private"}} : p \in Plans, d \in Conn}

(* While nobody stops the server, a private message gets to the connection *)
(* that goes by its addressee's name, unless that connection closes or     *)
(* logs in anew before (connection_thread.rs:136-157, server.rs:171-183).  *)
PrivateReachesAddressee ==
  \A c \in Conn, r \in PrivateRequests :
    LET Is(e) == e.kind = "private" /\ e.from = r.from /\ e.seq = r.seq /\ e.to = r.to
        named == stage[c] = "open" /\ user_name[c] = r.to IN
    named /\ (\E e \in Range(mchan["private"]) : Is(e))
      ~> (\E e \in Range(outbox[c]) : Is(e)) \/ ~named \/ Interrupted

(* Once the handler has begun to set the stop flags the process ends,      *)
(* whatever the threads were doing (server_stop.rs:21-25, server.rs:97-100 *)
(* and 213-225, connection_thread.rs:88-91).                               *)
StopTerminates == stopped > 0 ~> exit # "running"

(* "If the main thread is stopped, wait until the connection threads       *)
(* stopped." (server.rs:219): when the process ends through Server::join,  *)
(* every connection thread has ended before.                               *)
JoinWaitsForThreads == exit # "running" => \A t \in Thread : ThreadGone(t)

(* "If it was any other kind of error, something went wrong and we         *)
(* terminate with an error." (server.rs:119-120): a server whose accept()  *)
(* failed ends.                                                            *)
AcceptErrorTerminates == mpc = "failed" ~> exit # "running"
=============================================================================
