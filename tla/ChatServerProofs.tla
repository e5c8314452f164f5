-------------------------- MODULE ChatServerProofs --------------------------
(***************************************************************************)
(* Proofs about ChatServer, for every number of threads, connections,      *)
(* users and plans: its types, that no thread panics while the server is   *)
(* meant to run, that connections are spread evenly, and that no wakeup is *)
(* lost.                                                                   *)
(***************************************************************************)
EXTENDS ChatServer, FiniteSetTheorems, TLAPS

USE DEF Kind

(* A thread that reads knows its connection.                               *)
ReadingConn == \A t \in Thread : tpc[t] \in {"read", "wake"} => reading[t] \in Conn

(* What main relays is a chat message, which it took from the channel of   *)
(* its kind.                                                               *)
Relaying == mpc \in {"send", "wake"} => fwd \in Event /\ fwd.kind \in Kind
ChannelKinds == \A k \in Kind : \A i \in 1 .. Len(mchan[k]) : mchan[k][i].kind = k

(* A connection that was handed over has a home.                           *)
Housed == \A c \in Conn : stage[c] = "queued" => home[c] \in Thread

TypeInv == TypeOK /\ ReadingConn /\ Relaying /\ ChannelKinds /\ Housed

-----------------------------------------------------------------------------
(* Types *)

LEMMA InitType == Init => TypeInv
<1> SUFFICES ASSUME Init PROVE TypeInv
  OBVIOUS
<1>1. 0 \in Thread
  BY ChatServerAssumption DEF Thread
<1>2. TypeOK
  <2>1. /\ plan \in Plans
        /\ stage \in [Conn -> {"new", "backlog", "queued", "open", "gone"}]
        /\ home \in [Conn -> Thread \union {None}]
        /\ done \in [Conn -> Nat]
        /\ user_name \in [Conn -> User \union {None}]
    BY DEF Init
  <2>2. outbox \in [Conn -> Seq(Event)] /\ log \in Seq(Event)
    BY DEF Init
  <2>3. /\ mpc = "loop" /\ mbatch = {} /\ mwake = FALSE
        /\ fwd \in Event \union {None} /\ fwdTo \in Thread /\ next_thread \in Thread
    BY <1>1 DEF Init
  <2>4. mchan \in [Kind -> Seq(Event)]
    BY DEF Init
  <2>5. tchan \in [Thread -> [Kind -> Seq(Event)]]
    BY DEF Init
  <2>6. /\ tpc \in [Thread -> {"loop", "new", "global", "private", "read", "wake",
                              "ended", "panicked"}]
        /\ tbatch \in [Thread -> SUBSET (Conn \union {WAKER_TOKEN})]
        /\ twake \in [Thread -> BOOLEAN]
        /\ reading \in [Thread -> Conn \union {None}]
    BY DEF Init
  <2>7. stopped \in 0 .. ThreadAmount + 1 /\ joining \in 0 .. ThreadAmount /\ exit = "running"
    BY ChatServerAssumption DEF Init
  <2> QED
    BY <2>1, <2>2, <2>3, <2>4, <2>5, <2>6, <2>7 DEF TypeOK
<1>3. ReadingConn /\ Relaying /\ ChannelKinds /\ Housed
  BY DEF Init, ReadingConn, Relaying, ChannelKinds, Housed
<1> QED
  BY <1>2, <1>3 DEF TypeInv

(* Steps of the main thread that change nothing but where it is, its       *)
(* batch, its waker, and the connections that wait in the backlog.         *)
LEMMA MainMovesType ==
  ASSUME TypeInv,
         \/ MainReturns \/ MainPoll \/ (\E e \in mbatch : MainEvent(e))
         \/ MainAcceptPanics \/ MainAcceptBlocks \/ MainAcceptFails
         \/ (\E k \in Kind : MainDrained(k)) \/ MainSendPanics
  PROVE  TypeInv'
<1>1. /\ mpc' \in {"loop", "accept", "global", "private", "ended", "failed", "panicked"}
      /\ mbatch' \subseteq {"SERVER_SOCKET_TOKEN", "WAKER_TOKEN_BROADCAST"}
      /\ mwake' \in BOOLEAN
  BY DEF TypeInv, TypeOK, MainReturns, MainPoll, MainReady, MainEvent, MainAcceptPanics,
         MainAcceptBlocks, BreakFromAccept, MainAcceptFails, MainDrained, MainSendPanics,
         MainStops, mainvars
<1>2. UNCHANGED <<plan, home, done, user_name, outbox, mchan, fwd, fwdTo, next_thread,
                  threads, shutdown, log>>
  BY DEF MainReturns, MainPoll, MainEvent, MainAcceptPanics,
         MainAcceptBlocks, MainAcceptFails, MainDrained, MainSendPanics, conns
<1>3. /\ stage' \in [Conn -> {"new", "backlog", "queued", "open", "gone"}]
      /\ \A c \in Conn : stage'[c] = "queued" => stage[c] = "queued"
  BY DEF TypeInv, TypeOK, MainReturns, MainPoll, MainEvent, MainAcceptPanics,
         MainAcceptBlocks, MainAcceptFails, MainDrained, MainSendPanics, MainStops, conns
<1>4. TypeOK'
  BY <1>1, <1>2, <1>3 DEF TypeInv, TypeOK, threads, shutdown
<1>5. ReadingConn' /\ Relaying' /\ ChannelKinds' /\ Housed'
  BY <1>1, <1>2, <1>3 DEF TypeInv, ReadingConn, Relaying, ChannelKinds, Housed, threads
<1> QED
  BY <1>4, <1>5 DEF TypeInv

LEMMA AcceptType ==
  ASSUME TypeInv, (\E c \in Conn : MainAccept(c) \/ Connect(c)) \/ MainAcceptWake
  PROVE  TypeInv'
<1>0. TypeOK /\ next_thread \in Thread
  BY DEF TypeInv, TypeOK
<1>1. CASE \E c \in Conn : Connect(c)
  BY <1>1 DEF TypeInv, TypeOK, ReadingConn, Relaying, ChannelKinds, Housed, Connect,
              mainvars, threads, shutdown
<1>2. CASE \E c \in Conn : MainAccept(c)
  BY <1>0, <1>2 DEF TypeInv, TypeOK, ReadingConn, Relaying, ChannelKinds, Housed, MainAccept,
              threads, shutdown
<1>3. CASE MainAcceptWake
  <2>1. NextThread(next_thread) \in Thread
    BY <1>0, ChatServerAssumption DEF NextThread, Thread
  <2> QED
    BY <1>3, <2>1 DEF TypeInv, TypeOK, ReadingConn, Relaying, ChannelKinds, Housed,
              MainAcceptWake, Wake, conns, shutdown
<1> QED
  BY <1>1, <1>2, <1>3

LEMMA RelayType ==
  ASSUME TypeInv, (\E k \in Kind : MainTake(k)) \/ MainSend \/ MainWake
  PROVE  TypeInv'
<1>0. TypeOK /\ ReadingConn /\ Relaying /\ ChannelKinds /\ Housed
  BY DEF TypeInv
<1>1. ASSUME NEW k \in Kind, MainTake(k)
      PROVE  TypeInv'
  <2>1. /\ mchan[k] \in Seq(Event) /\ mchan[k] # <<>>
        /\ mpc' = "send" /\ fwd' = Head(mchan[k]) /\ fwdTo' = 0
        /\ mchan' = [mchan EXCEPT ![k] = Tail(mchan[k])]
        /\ UNCHANGED <<conns, mbatch, mwake, next_thread, threads, shutdown, log>>
    BY <1>0, <1>1 DEF MainTake, TypeOK
  <2>2. fwd' \in Event /\ fwd' = mchan[k][1] /\ 1 \in 1 .. Len(mchan[k]) /\ fwd'.kind = k
    BY <1>0, <2>1 DEF ChannelKinds
  <2>3. /\ Tail(mchan[k]) \in Seq(Event)
        /\ \A i \in 1 .. Len(Tail(mchan[k])) :
             i + 1 \in 1 .. Len(mchan[k]) /\ Tail(mchan[k])[i] = mchan[k][i + 1]
    BY <2>1
  <2>4. mchan' \in [Kind -> Seq(Event)] /\ ChannelKinds'
    BY <1>0, <2>1, <2>3 DEF ChannelKinds, TypeOK
  <2>5. 0 \in Thread
    BY ChatServerAssumption DEF Thread
  <2> QED
    BY <1>0, <2>1, <2>2, <2>4, <2>5
      DEF TypeInv, TypeOK, ReadingConn, Relaying, Housed, conns, threads, shutdown
<1>2. CASE MainSend
  <2>1. /\ fwd \in Event /\ fwd.kind \in Kind /\ fwdTo \in Thread
        /\ tchan \in [Thread -> [Kind -> Seq(Event)]]
        /\ tchan' = [tchan EXCEPT ![fwdTo][fwd.kind] = Append(@, fwd)]
        /\ mpc' = "wake"
    BY <1>0, <1>2 DEF MainSend, Relaying, TypeOK
  <2>2. tchan' \in [Thread -> [Kind -> Seq(Event)]]
    BY <2>1
  <2> QED
    BY <1>0, <1>2, <2>1, <2>2
      DEF TypeInv, TypeOK, ReadingConn, Relaying, ChannelKinds, Housed, MainSend, conns, shutdown
<1>3. CASE MainWake
  <2>1. fwdTo' \in Thread
    BY SMTT(20), <1>0, <1>3, ChatServerAssumption DEF MainWake, TypeOK, Thread
  <2>2. /\ fwd' \in Event \union {None}
        /\ mpc' \in {"send", "global", "private"}
        /\ mpc' = "send" => fwd' = fwd
        /\ fwd \in Event /\ fwd.kind \in Kind
    BY <1>0, <1>3 DEF MainWake, Relaying
  <2>3. twake' \in [Thread -> BOOLEAN]
    BY <1>0, <1>3 DEF MainWake, Wake, TypeOK
  <2> QED
    BY <1>0, <1>3, <2>1, <2>2, <2>3
      DEF TypeInv, TypeOK, ReadingConn, Relaying, ChannelKinds, Housed, MainWake, conns, shutdown
<1> QED
  BY <1>1, <1>2, <1>3

(* Steps of a connection thread that process no request and hand out no    *)
(* message.                                                                *)
LEMMA ThreadMovesType ==
  ASSUME TypeInv, NEW t \in Thread,
         \/ ThreadReturns(t) \/ ThreadPoll(t) \/ ThreadWaker(t)
         \/ (\E c \in Conn : ThreadReadable(t, c) \/ ThreadAdopt(t, c))
         \/ ThreadAdopted(t) \/ (\E k \in Kind : ThreadDrained(t, k))
         \/ ReadBlocks(t) \/ RemoveConnection(t)
  PROVE  TypeInv'
<1>0. TypeOK /\ ReadingConn /\ Relaying /\ ChannelKinds /\ Housed
  BY DEF TypeInv
<1>1. UNCHANGED <<plan, home, done, user_name, outbox, mainvars, tchan, shutdown, log>>
  BY DEF ThreadReturns, ThreadPoll, ThreadWaker, ThreadReadable, ThreadAdopt, ThreadAdopted,
         ThreadDrained, ReadBlocks, RemoveConnection, conns, threads
<1> DEFINE Kept ==
      /\ stage' \in [Conn -> {"new", "backlog", "queued", "open", "gone"}]
      /\ \A c \in Conn : stage'[c] = "queued" => stage[c] = "queued"
      /\ tpc' \in [Thread -> {"loop", "new", "global", "private", "read", "wake",
                              "ended", "panicked"}]
      /\ reading' \in [Thread -> Conn \union {None}]
      /\ ReadingConn'
      /\ tbatch' \in [Thread -> SUBSET (Conn \union {WAKER_TOKEN})]
      /\ twake' \in [Thread -> BOOLEAN]
<1>2. Kept
  <2>1. CASE ThreadReturns(t)
    BY <1>0, <2>1 DEF TypeOK, ReadingConn, ThreadReturns, ThreadStops
  <2>2. CASE ThreadPoll(t)
    <3>1. PICK R \in SUBSET connections(t) :
            tbatch' = [tbatch EXCEPT ![t] = IF twake[t] THEN R \union {WAKER_TOKEN} ELSE R]
      BY <2>2 DEF ThreadPoll, connections
    <3>2. (IF twake[t] THEN R \union {WAKER_TOKEN} ELSE R) \in SUBSET (Conn \union {WAKER_TOKEN})
      BY DEF connections
    <3>3. tbatch' \in [Thread -> SUBSET (Conn \union {WAKER_TOKEN})]
      BY <1>0, <3>1, <3>2 DEF TypeOK
    <3> QED
      BY <1>0, <2>2, <3>3 DEF TypeOK, ReadingConn, ThreadPoll, conns
  <2>3. CASE ThreadWaker(t)
    BY <1>0, <2>3 DEF TypeOK, ReadingConn, ThreadWaker, conns
  <2>4. ASSUME NEW c \in Conn, ThreadReadable(t, c)
        PROVE  Kept
    BY <1>0, <2>4 DEF TypeOK, ReadingConn, ThreadReadable, conns
  <2>5. ASSUME NEW c \in Conn, ThreadAdopt(t, c)
        PROVE  Kept
    BY <1>0, <2>5 DEF TypeOK, ReadingConn, ThreadAdopt, threads
  <2>6. CASE ThreadAdopted(t)
    BY <1>0, <2>6 DEF TypeOK, ReadingConn, ThreadAdopted, conns
  <2>7. ASSUME NEW k \in Kind, ThreadDrained(t, k)
        PROVE  Kept
    BY <1>0, <2>7 DEF TypeOK, ReadingConn, ThreadDrained, conns
  <2>8. CASE ReadBlocks(t)
    BY <1>0, <2>8 DEF TypeOK, ReadingConn, ReadBlocks, conns
  <2>9. CASE RemoveConnection(t)
    BY <1>0, <2>9 DEF TypeOK, ReadingConn, RemoveConnection
  <2> QED
    BY <2>1, <2>2, <2>3, <2>4, <2>5, <2>6, <2>7, <2>8, <2>9
<1>5. TypeOK'
  BY <1>0, <1>1, <1>2 DEF TypeOK, mainvars, shutdown
<1>6. Relaying' /\ ChannelKinds' /\ Housed'
  BY <1>0, <1>1, <1>2 DEF Relaying, ChannelKinds, Housed, mainvars
<1> QED
  BY <1>2, <1>5, <1>6 DEF TypeInv

LEMMA DeliveryType ==
  ASSUME TypeInv, NEW t \in Thread, NEW k \in Kind, ThreadTake(t, k)
  PROVE  TypeInv'
<1>0. TypeOK /\ ReadingConn /\ Relaying /\ ChannelKinds /\ Housed
  BY DEF TypeInv
<1>1. tchan[t][k] \in Seq(Event) /\ tchan[t][k] # <<>>
  BY <1>0 DEF ThreadTake, TypeOK
<1>2. Head(tchan[t][k]) \in Event /\ Tail(tchan[t][k]) \in Seq(Event)
  BY <1>1
<1>3. tchan' \in [Thread -> [Kind -> Seq(Event)]]
  BY <1>0, <1>2 DEF ThreadTake, TypeOK
<1>4. outbox' \in [Conn -> Seq(Event)]
  <2>1. \A c \in Conn : outbox[c] \in Seq(Event)
                        /\ Append(outbox[c], Head(tchan[t][k])) \in Seq(Event)
    BY <1>0, <1>2 DEF TypeOK
  <2> QED
    BY <2>1 DEF ThreadTake
<1> QED
  BY <1>0, <1>3, <1>4
    DEF ThreadTake, TypeInv, TypeOK, ReadingConn, Relaying, ChannelKinds, Housed,
        mainvars, shutdown

-----------------------------------------------------------------------------
(* Requests *)

(* A thread that reads a request reads one of Request.                     *)
LEMMA RequestType ==
  ASSUME TypeInv, NEW t \in Thread, NEW K, Reads(t, K)
  PROVE  /\ reading[t] \in Conn
         /\ NextRequest(t) \in Request /\ NextRequest(t).kind \in K
         /\ done' \in [Conn -> Nat]
         /\ MessageOf(reading[t], NextRequest(t)).seq \in Nat \ {0}
<1>1. reading[t] \in Conn /\ done[reading[t]] \in Nat
  BY DEF TypeInv, TypeOK, ReadingConn, Reads
<1>2. plan \in [Conn -> Seq(Request)]
  BY ChatServerAssumption DEF TypeInv, TypeOK
<1>3. plan[reading[t]] \in Seq(Request) /\ done[reading[t]] < Len(plan[reading[t]])
  BY <1>1, <1>2 DEF Reads
<1>4. done[reading[t]] + 1 \in 1 .. Len(plan[reading[t]])
  BY <1>1, <1>3
<1>5. NextRequest(t) \in Request
  BY <1>3, <1>4 DEF NextRequest
<1>6. done' \in [Conn -> Nat]
  BY <1>1 DEF TypeInv, TypeOK, Reads
<1> QED
  BY <1>1, <1>5, <1>6 DEF Reads, MessageOf

LEMMA RequestFields ==
  ASSUME NEW r \in Request
  PROVE  /\ r.kind \in {"login", "global", "ping", "private"}
         /\ r.kind = "login" => r.user \in User
         /\ r.kind = "private" => r.to \in User
BY DEF Request

(* What a request makes is a message.                                      *)
LEMMA MessageType ==
  ASSUME TypeInv, NEW t \in Thread, Reads(t, Kind \union {"ping"})
  PROVE  MessageOf(reading[t], NextRequest(t)) \in Event
<1>1. /\ reading[t] \in Conn /\ NextRequest(t) \in Request
      /\ NextRequest(t).kind \in Kind \union {"ping"}
      /\ MessageOf(reading[t], NextRequest(t)).seq \in Nat \ {0}
  BY RequestType
<1>2. user_name[reading[t]] \in User \union {None}
  BY <1>1 DEF TypeInv, TypeOK
<1>3. (IF NextRequest(t).kind = "private" THEN NextRequest(t).to ELSE None) \in User \union {None}
  BY <1>1, RequestFields
<1> QED
  BY <1>1, <1>2, <1>3 DEF MessageOf, Event

LEMMA RequestsType ==
  ASSUME TypeInv, NEW t \in Thread,
         \/ ProcessLogin(t) \/ ProcessPing(t) \/ PublishIgnored(t)
         \/ PublishSend(t) \/ PublishWake(t) \/ PublishPanics(t)
  PROVE  TypeInv'
<1>0. TypeOK /\ ReadingConn /\ Relaying /\ ChannelKinds /\ Housed
  BY DEF TypeInv
<1>1. CASE ProcessLogin(t)
  <2>1. reading[t] \in Conn /\ done' \in [Conn -> Nat] /\ NextRequest(t).user \in User
    BY <1>1, RequestType, RequestFields DEF ProcessLogin
  <2>2. user_name' \in [Conn -> User \union {None}]
    BY <1>0, <1>1, <2>1 DEF ProcessLogin, LoginName, TypeOK
  <2> QED
    BY SMTT(20), <1>0, <1>1, <2>1, <2>2
      DEF ProcessLogin, TypeInv, TypeOK, ReadingConn, Relaying, ChannelKinds, Housed,
          mainvars, threads, shutdown
<1>2. CASE ProcessPing(t)
  <2>1. Reads(t, Kind \union {"ping"})
    BY <1>2 DEF ProcessPing, Reads
  <2>2. /\ reading[t] \in Conn /\ done' \in [Conn -> Nat]
        /\ MessageOf(reading[t], NextRequest(t)) \in Event
    BY <2>1, RequestType, MessageType
  <2>3. outbox' \in [Conn -> Seq(Event)]
    BY <1>0, <1>2, <2>2 DEF ProcessPing, TypeOK
  <2> QED
    BY SMTT(20), <1>0, <1>2, <2>2, <2>3
      DEF ProcessPing, TypeInv, TypeOK, ReadingConn, Relaying, ChannelKinds, Housed,
          mainvars, threads, shutdown
<1>3. CASE PublishIgnored(t)
  <2>1. done' \in [Conn -> Nat]
    BY <1>3, RequestType DEF PublishIgnored
  <2> QED
    BY <1>0, <1>3, <2>1
      DEF PublishIgnored, TypeInv, TypeOK, ReadingConn, Relaying, ChannelKinds, Housed,
          mainvars, threads, shutdown
<1>4. CASE PublishSend(t)
  <2> DEFINE e == MessageOf(reading[t], NextRequest(t))
  <2>1. Reads(t, Kind \union {"ping"}) /\ Reads(t, Kind)
    BY <1>4 DEF PublishSend, Reads
  <2>2. reading[t] \in Conn /\ done' \in [Conn -> Nat] /\ e \in Event /\ NextRequest(t).kind \in Kind
    BY <2>1, RequestType, MessageType
  <2>3. e.kind \in Kind
    BY <2>2 DEF MessageOf
  <2>4. /\ mchan' = [mchan EXCEPT ![e.kind] = Append(@, e)]
        /\ log' = IF e.kind = "global" THEN Append(log, e) ELSE log
        /\ tpc' = [tpc EXCEPT ![t] = "wake"]
        /\ UNCHANGED <<plan, stage, home, user_name, outbox, mpc, mbatch, mwake, fwd, fwdTo,
                       next_thread, tbatch, twake, tchan, reading, shutdown>>
    BY <1>4 DEF PublishSend
  <2> HIDE DEF e
  <2>5. mchan' \in [Kind -> Seq(Event)] /\ log' \in Seq(Event)
    <3>1. mchan \in [Kind -> Seq(Event)] /\ log \in Seq(Event)
      BY <1>0 DEF TypeOK
    <3>2. e \in Event /\ mchan[e.kind] \in Seq(Event)
      BY <2>2, <2>3, <3>1
    <3>3. Append(mchan[e.kind], e) \in Seq(Event) /\ Append(log, e) \in Seq(Event)
      BY <3>1, <3>2
    <3>4. mchan' \in [Kind -> Seq(Event)]
      BY <2>4, <3>1, <3>3
    <3> QED
      BY <2>4, <3>1, <3>3, <3>4
  <2>6. ChannelKinds'
    <3> SUFFICES ASSUME NEW k \in Kind, NEW i \in 1 .. Len(mchan'[k])
                 PROVE  mchan'[k][i].kind = k
      BY DEF ChannelKinds
    <3>1. mchan[k] \in Seq(Event) /\ mchan \in [Kind -> Seq(Event)]
      BY <1>0 DEF TypeOK
    <3>2. CASE k # e.kind
      BY <1>0, <2>3, <2>4, <3>1, <3>2 DEF ChannelKinds
    <3>3. CASE k = e.kind
      <4>1. mchan'[k] = Append(mchan[k], e) /\ Len(mchan'[k]) = Len(mchan[k]) + 1
        BY <2>4, <3>1, <3>3
      <4>2. i \in 1 .. Len(mchan[k]) \/ i = Len(mchan[k]) + 1
        BY <3>1, <4>1
      <4> QED
        BY <1>0, <3>1, <3>3, <4>1, <4>2 DEF ChannelKinds
    <3> QED
      BY <3>2, <3>3
  <2>7. tpc' \in [Thread -> {"loop", "new", "global", "private", "read", "wake",
                           "ended", "panicked"}] /\ ReadingConn'
    BY <1>0, <2>2, <2>4 DEF TypeOK, ReadingConn
  <2> QED
    BY <1>0, <2>2, <2>4, <2>5, <2>6, <2>7 DEF TypeInv, TypeOK, Relaying, Housed, shutdown
<1>5. CASE PublishWake(t)
  BY <1>0, <1>5
    DEF PublishWake, WakeMain, TypeInv, TypeOK, ReadingConn, Relaying, ChannelKinds, Housed,
        conns, shutdown
<1>6. CASE PublishPanics(t)
  <2>1. done' \in [Conn -> Nat]
    BY <1>6, RequestType DEF PublishPanics
  <2> QED
    BY <1>0, <1>6, <2>1
      DEF PublishPanics, ThreadStops, TypeInv, TypeOK, ReadingConn, Relaying, ChannelKinds,
          Housed, mainvars, shutdown
<1> QED
  BY <1>1, <1>2, <1>3, <1>4, <1>5, <1>6

-----------------------------------------------------------------------------
(* Shutdown, and the theorem *)

LEMMA ShutdownType ==
  ASSUME TypeInv, SetStop \/ JoinStep
  PROVE  TypeInv'
<1>0. TypeOK /\ ReadingConn /\ Relaying /\ ChannelKinds /\ Housed
  BY DEF TypeInv
<1>1. stopped' \in 0 .. ThreadAmount + 1 /\ joining' \in 0 .. ThreadAmount
      /\ exit' \in {"running", "returned", "panicked"}
  BY SMTT(20), <1>0, ChatServerAssumption
    DEF TypeOK, SetStop, FlagAmount, JoinStep, JoinThread, JoinReturns, JoinPanics
<1>2. UNCHANGED <<conns, mainvars, threads, log>>
  BY DEF SetStop, JoinStep, JoinThread, JoinReturns, JoinPanics
<1> QED
  BY <1>0, <1>1, <1>2
    DEF TypeInv, TypeOK, ReadingConn, Relaying, ChannelKinds, Housed, conns, mainvars, threads

LEMMA StepType ==
  ASSUME TypeInv, [Next]_vars
  PROVE  TypeInv'
<1>1. CASE UNCHANGED vars
  BY <1>1 DEF TypeInv, TypeOK, ReadingConn, Relaying, ChannelKinds, Housed,
              vars, conns, mainvars, threads, shutdown
<1>2. CASE (\E c \in Conn : Connect(c)) \/ MainStep \/ MainAcceptFails
  BY <1>2, MainMovesType, AcceptType, RelayType DEF MainStep
<1>3. ASSUME NEW t \in Thread, ThreadStep(t) \/ ThreadPoll(t)
      PROVE  TypeInv'
  BY <1>3, ThreadMovesType, DeliveryType, RequestsType DEF ThreadStep
<1>4. CASE SetStop \/ JoinStep
  BY <1>4, ShutdownType
<1> QED
  BY <1>1, <1>2, <1>3, <1>4 DEF Next

(* The inductive type invariant holds throughout: beside the types, a      *)
(* reading thread knows its connection, main relays what it took from a    *)
(* channel of its kind, and a queued connection has a home.                *)
THEOREM TypeInvHolds == Spec => []TypeInv
<1>1. Init => TypeInv
  BY InitType
<1>2. TypeInv /\ [Next]_vars => TypeInv'
  BY StepType
<1> QED
  BY <1>1, <1>2, PTL DEF Spec

(* The variables of the server keep their types, for any number of         *)
(* threads, connections, users and requests (server.rs,                    *)
(* connection_thread.rs).                                                  *)
THEOREM ServerTypeCorrect == Spec => []TypeOK
<1>1. TypeInv => TypeOK
  BY DEF TypeInv
<1> QED
  BY <1>1, TypeInvHolds, PTL
-----------------------------------------------------------------------------
(* No thread panics while the server is meant to run.  Only a stop flag    *)
(* lets a thread return, and a send fails only when its receiver returned  *)
(* or panicked before, or main failed.                                     *)

Guarded ==
  /\ mpc = "ended" => stopped > 0
  /\ \A t \in Thread : tpc[t] = "ended" => stopped > 0
  /\ NoPanicWhileServing

(* Flags are never taken back, and main does not recover from a failure.   *)
LEMMA StopIsFinal ==
  ASSUME TypeInv, [Next]_vars
  PROVE  /\ stopped > 0 => stopped' > 0
         /\ mpc = "failed" => mpc' = "failed"
<1>1. stopped \in Nat
  BY ChatServerAssumption DEF TypeInv, TypeOK
<1>2. stopped' = stopped \/ stopped' = stopped + 1
  BY ZenonT(30) DEF Next, MainStep, ThreadStep, JoinStep, Connect, MainReturns, MainPoll, MainEvent,
     MainAccept, MainAcceptPanics, MainAcceptBlocks, MainAcceptWake, MainAcceptFails, MainTake,
     MainDrained, MainSend, MainSendPanics, MainWake, ThreadReturns, ThreadPoll, ThreadWaker,
     ThreadReadable, ThreadAdopt, ThreadAdopted, ThreadTake, ThreadDrained, ProcessLogin,
     ProcessPing, PublishIgnored, PublishSend, PublishWake, PublishPanics, ReadBlocks,
     RemoveConnection, SetStop, JoinThread, JoinReturns, JoinPanics, shutdown, vars
<1>3. mpc = "failed" => mpc' = "failed"
  BY ZenonT(30) DEF Kind, Next, MainStep, ThreadStep, JoinStep, Connect, MainReturns, MainPoll,
     MainEvent,
     MainAccept, MainAcceptPanics, MainAcceptBlocks, MainAcceptWake, MainAcceptFails, MainTake,
     MainDrained, MainSend, MainSendPanics, MainWake, ThreadReturns, ThreadPoll, ThreadWaker,
     ThreadReadable, ThreadAdopt, ThreadAdopted, ThreadTake, ThreadDrained, ProcessLogin,
     ProcessPing, PublishIgnored, PublishSend, PublishWake, PublishPanics, ReadBlocks,
     RemoveConnection, SetStop, JoinThread, JoinReturns, JoinPanics, mainvars, vars
<1> QED
  BY <1>1, <1>2, <1>3

(* While no flag is set, main can only fail.                               *)
LEMMA MainGoesOn ==
  ASSUME TypeInv, Guarded, stopped = 0, MainStep \/ MainAcceptFails
  PROVE  /\ mpc' \notin {"ended", "panicked"}
         /\ UNCHANGED tpc
<1>0. TypeOK /\ Relaying
  BY DEF TypeInv
<1>1. mpc \notin {"ended", "panicked"}
  BY DEF Guarded, NoPanicWhileServing
<1>2. ASSUME NEW t \in Thread, mpc # "failed"
      PROVE  ~ThreadGone(t)
  BY <1>2 DEF Guarded, NoPanicWhileServing, ThreadGone
<1>3. ~MainReturns /\ ~MainAcceptPanics /\ ~MainSendPanics
  BY <1>0, <1>2 DEF MainReturns, MainAcceptPanics, MainSendPanics, Flagged, TypeOK
<1> QED
  BY <1>0, <1>1, <1>3
    DEF MainStep, MainPoll, MainEvent, MainAccept, MainAcceptBlocks, BreakFromAccept,
        MainAcceptWake, MainAcceptFails, MainStops, MainTake, MainDrained, MainSend, MainWake,
        Relaying, threads

(* While no flag is set, no thread ends, and none panics unless main       *)
(* failed.                                                                 *)
LEMMA ThreadsGoOn ==
  ASSUME TypeInv, Guarded, stopped = 0, NEW t \in Thread, ThreadStep(t) \/ ThreadPoll(t)
  PROVE  /\ UNCHANGED mpc
         /\ \A u \in Thread : tpc'[u] # "ended"
         /\ mpc # "failed" => \A u \in Thread : tpc'[u] # "panicked"
<1>0. tpc \in [Thread -> {"loop", "new", "global", "private", "read", "wake",
                          "ended", "panicked"}]
  BY DEF TypeInv, TypeOK
<1>1. /\ \A u \in Thread : tpc[u] # "ended"
      /\ mpc # "failed" => \A u \in Thread : tpc[u] # "panicked"
      /\ mpc \notin {"ended", "panicked"}
  BY DEF Guarded, NoPanicWhileServing
<1>2. ~ThreadReturns(t)
  BY DEF ThreadReturns, Flagged, Thread
<1>3. PublishPanics(t) => mpc = "failed" /\ UNCHANGED mpc /\ tpc' = [tpc EXCEPT ![t] = "panicked"]
  BY <1>1 DEF PublishPanics, MainGone, ThreadStops, mainvars
<1>4. ~PublishPanics(t) =>
        /\ UNCHANGED mpc
        /\ \/ UNCHANGED tpc
           \/ \E s \in {"loop", "new", "global", "private", "read", "wake"} :
                tpc' = [tpc EXCEPT ![t] = s]
  BY <1>2 DEF ThreadStep, ThreadPoll, ThreadWaker, ThreadReadable, ThreadAdopt, ThreadAdopted,
     ThreadTake, ThreadDrained, ProcessLogin, ProcessPing, PublishIgnored, PublishSend,
     PublishWake, ReadBlocks, RemoveConnection, mainvars, threads
<1> QED
  BY <1>0, <1>1, <1>3, <1>4

LEMMA StepGuarded ==
  ASSUME TypeInv, Guarded, [Next]_vars
  PROVE  Guarded'
<1>1. CASE stopped > 0 \/ stopped' > 0
  BY <1>1, StopIsFinal DEF Guarded, NoPanicWhileServing
<1>2. CASE ~(stopped > 0) /\ ~(stopped' > 0)
  <2>1. stopped = 0 /\ stopped' # 1
    BY <1>2, ChatServerAssumption DEF TypeInv, TypeOK
  <2>2. CASE MainStep \/ MainAcceptFails
    BY <2>1, <2>2, MainGoesOn, StopIsFinal DEF Guarded, NoPanicWhileServing
  <2>3. ASSUME NEW t \in Thread, ThreadStep(t) \/ ThreadPoll(t)
        PROVE  Guarded'
    BY <2>1, <2>3, ThreadsGoOn DEF Guarded, NoPanicWhileServing
  <2>4. ~SetStop
    BY <2>1 DEF SetStop
  <2>5. CASE (\E c \in Conn : Connect(c)) \/ JoinStep \/ UNCHANGED vars
    BY <2>1, <2>5 DEF Guarded, NoPanicWhileServing, Connect, JoinStep, JoinThread, JoinReturns,
       JoinPanics, vars, mainvars, threads, shutdown
  <2> QED
    BY <2>2, <2>3, <2>4, <2>5 DEF Next
<1> QED
  BY <1>1, <1>2

(* No thread of the server panics on a channel whose receiver is gone      *)
(* (event.rs:27-32, connection_thread.rs:213-219) unless the server was    *)
(* told to stop, or accept() failed, before.                               *)
THEOREM NoThreadPanicsWhileServing == Spec => []NoPanicWhileServing
<1>1. Init => Guarded
  BY DEF Init, Guarded, NoPanicWhileServing
<1>2. TypeInv /\ Guarded /\ [Next]_vars => Guarded'
  BY StepGuarded
<1>3. Guarded => NoPanicWhileServing
  BY DEF Guarded
<1> QED
  BY <1>1, <1>2, <1>3, TypeInvHolds, PTL DEF Spec
-----------------------------------------------------------------------------
(* Connections are spread evenly.  Since the last time around, the threads *)
(* before the one that is next have been given one connection more than    *)
(* the others; the number of rounds is not kept anywhere in the program.   *)

HomeOf(t) == {c \in Conn : home[c] = t}

(* How many threads have had their turn in this round.                     *)
Turns == IF mpc = "acceptWake" THEN next_thread + 1 ELSE next_thread

InRotation ==
  \E rounds \in Nat : \A t \in Thread :
    /\ IsFiniteSet(HomeOf(t))
    /\ Cardinality(HomeOf(t)) = IF t < Turns THEN rounds + 1 ELSE rounds

(* Only a connection that main accepted has a thread.                      *)
Homeless == \A c \in Conn : stage[c] \in {"new", "backlog"} => home[c] = None

LEMMA ThreadNumbers ==
  /\ \A t \in Thread : t \in Nat /\ t < ThreadAmount
  /\ ThreadAmount \in Nat \ {0} /\ None \notin Thread
BY ChatServerAssumption DEF Thread

LEMMA InitRotation == Init => InRotation /\ Homeless
<1> SUFFICES ASSUME Init PROVE InRotation /\ Homeless
  OBVIOUS
<1>1. \A t \in Thread : HomeOf(t) = {}
  BY ThreadNumbers DEF Init, HomeOf
<1>2. \A t \in Thread : ~(t < Turns)
  BY ThreadNumbers DEF Init, Turns
<1>3. \A t \in Thread : IsFiniteSet(HomeOf(t)) /\ Cardinality(HomeOf(t)) = 0
  BY <1>1, FS_EmptySet
<1>4. InRotation
  BY <1>2, <1>3 DEF InRotation
<1> QED
  BY <1>4 DEF Init, Homeless

LEMMA AcceptRotates ==
  ASSUME TypeInv, InRotation, Homeless, NEW c \in Conn, MainAccept(c)
  PROVE  InRotation' /\ Homeless'
<1>1. /\ home \in [Conn -> Thread \union {None}] /\ next_thread \in Thread
      /\ stage \in [Conn -> {"new", "backlog", "queued", "open", "gone"}]
      /\ home' = [home EXCEPT ![c] = next_thread] /\ next_thread' = next_thread
      /\ stage' = [stage EXCEPT ![c] = "queued"] /\ stage[c] = "backlog"
      /\ mpc = "accept" /\ mpc' = "acceptWake"
  BY DEF MainAccept, TypeInv, TypeOK
<1>2. home[c] = None
  BY <1>1 DEF Homeless
<1>3. HomeOf(next_thread)' = HomeOf(next_thread) \union {c} /\ c \notin HomeOf(next_thread)
  BY <1>1, <1>2, ThreadNumbers DEF HomeOf
<1>4. \A t \in Thread : t # next_thread => HomeOf(t)' = HomeOf(t)
  BY <1>1, <1>2, ThreadNumbers DEF HomeOf
<1>5. Turns = next_thread /\ Turns' = next_thread + 1
  BY <1>1 DEF Turns
<1>6. PICK rounds \in Nat : \A t \in Thread :
        /\ IsFiniteSet(HomeOf(t))
        /\ Cardinality(HomeOf(t)) = IF t < Turns THEN rounds + 1 ELSE rounds
  BY DEF InRotation
<1>7. ASSUME NEW t \in Thread
      PROVE  /\ IsFiniteSet(HomeOf(t)')
             /\ Cardinality(HomeOf(t)') = IF t < Turns' THEN rounds + 1 ELSE rounds
  <2>0. t \in Nat /\ next_thread \in Nat
    BY <1>1, ThreadNumbers
  <2>1. CASE t # next_thread
    <3>1. t < Turns' <=> t < Turns
      BY <1>5, <2>0, <2>1
    <3>2. HomeOf(t)' = HomeOf(t)
      BY <1>4, <2>1
    <3> QED
      BY <1>6, <3>1, <3>2
  <2>2. CASE t = next_thread
    <3> DEFINE H == HomeOf(next_thread)
    <3>1. IsFiniteSet(H) /\ Cardinality(H) = rounds /\ c \notin H
      BY <1>1, <1>3, <1>5, <1>6, <2>0
    <3> HIDE DEF H
    <3>2. IsFiniteSet(H \union {c}) /\ Cardinality(H \union {c}) = rounds + 1
      BY <3>1, FS_AddElement
    <3>3. HomeOf(t)' = H \union {c}
      BY <1>1, <1>3, <2>2 DEF H, HomeOf
    <3> QED
      BY <1>5, <2>0, <2>2, <3>2, <3>3
  <2> QED
    BY <2>1, <2>2
<1>8. InRotation'
  BY <1>7 DEF InRotation
<1>9. Homeless'
  BY <1>1 DEF Homeless
<1> QED
  BY <1>8, <1>9

(* The turn passes on; after the last thread a new round begins.           *)
LEMMA WakeRotates ==
  ASSUME TypeInv, InRotation, Homeless, MainAcceptWake
  PROVE  InRotation' /\ Homeless'
<1>1. /\ next_thread \in Thread /\ next_thread' = NextThread(next_thread)
      /\ mpc = "acceptWake" /\ mpc' = "accept" /\ UNCHANGED <<home, stage>>
  BY DEF MainAcceptWake, conns, TypeInv, TypeOK
<1>2. \A t : HomeOf(t)' = HomeOf(t)
  BY <1>1 DEF HomeOf
<1>3. PICK rounds \in Nat : \A t \in Thread :
        /\ IsFiniteSet(HomeOf(t))
        /\ Cardinality(HomeOf(t)) = IF t < Turns THEN rounds + 1 ELSE rounds
  BY DEF InRotation
<1>4. Turns = next_thread + 1 /\ Turns' = NextThread(next_thread)
  BY <1>1 DEF Turns
<1>5. CASE next_thread + 1 >= ThreadAmount
  <2>1. \A t \in Thread : t < Turns /\ ~(t < Turns')
    BY <1>1, <1>4, <1>5, ThreadNumbers DEF NextThread
  <2>2. rounds + 1 \in Nat
    OBVIOUS
  <2> QED
    BY <1>1, <1>2, <1>3, <2>1, <2>2 DEF InRotation, Homeless
<1>6. CASE ~(next_thread + 1 >= ThreadAmount)
  <2>1. Turns' = Turns
    BY <1>4, <1>6 DEF NextThread
  <2> QED
    BY <1>1, <1>2, <1>3, <2>1 DEF InRotation, Homeless
<1> QED
  BY <1>5, <1>6

(* No other step gives a thread a connection or passes the turn on.        *)
LEMMA RestRotates ==
  ASSUME InRotation, Homeless, UNCHANGED <<home, next_thread>>,
         mpc' = mpc \/ (mpc # "acceptWake" /\ mpc' # "acceptWake"),
         \A c \in Conn : stage'[c] \in {"new", "backlog"} => stage[c] \in {"new", "backlog"}
  PROVE  InRotation' /\ Homeless'
<1>1. Turns' = Turns /\ \A t : HomeOf(t)' = HomeOf(t)
  BY DEF Turns, HomeOf
<1> QED
  BY <1>1 DEF InRotation, Homeless

LEMMA StepRotates ==
  ASSUME TypeInv, InRotation, Homeless, [Next]_vars
  PROVE  InRotation' /\ Homeless'
<1> DEFINE Early == {"new", "backlog"}
           Rests == /\ UNCHANGED <<home, next_thread>>
                    /\ mpc' = mpc \/ (mpc # "acceptWake" /\ mpc' # "acceptWake")
                    /\ \A c \in Conn : stage'[c] \in Early => stage[c] \in Early
<1>1. ASSUME NEW c \in Conn, MainAccept(c)
      PROVE  InRotation' /\ Homeless'
  BY <1>1, AcceptRotates
<1>2. CASE MainAcceptWake
  BY <1>2, WakeRotates
<1>3. ASSUME Rests PROVE InRotation' /\ Homeless'
  BY <1>3, RestRotates
<1>4. stage \in [Conn -> {"new", "backlog", "queued", "open", "gone"}]
  BY DEF TypeInv, TypeOK
<1>5. ASSUME NEW c \in Conn, Connect(c)
      PROVE  Rests
  <2>1. /\ UNCHANGED <<home, next_thread, mpc>>
        /\ stage[c] = "new" /\ stage' = [stage EXCEPT ![c] = "backlog"]
    BY <1>5 DEF Connect, mainvars
  <2> QED
    BY <1>4, <2>1
<1>6. ASSUME MainReturns \/ MainAcceptPanics \/ MainSendPanics \/ MainAcceptFails
      PROVE  Rests
  <2>1. /\ UNCHANGED <<home, next_thread>> /\ mpc # "acceptWake" /\ mpc' # "acceptWake"
        /\ stage' = [c \in Conn |-> IF stage[c] = "backlog" THEN "gone" ELSE stage[c]]
    BY <1>6 DEF MainReturns, MainAcceptPanics, MainSendPanics, MainAcceptFails, MainStops
  <2>2. \A c \in Conn : stage'[c] = stage[c] \/ stage'[c] = "gone"
    BY <2>1
  <2> QED
    BY <2>1, <2>2
<1>7. ASSUME \/ MainPoll \/ (\E e \in mbatch : MainEvent(e)) \/ MainAcceptBlocks
             \/ (\E k \in Kind : MainTake(k) \/ MainDrained(k)) \/ MainSend \/ MainWake
             \/ SetStop \/ JoinStep \/ UNCHANGED vars
      PROVE  Rests
  <2>1. /\ UNCHANGED <<home, next_thread, stage>>
        /\ mpc' = mpc \/ (mpc # "acceptWake" /\ mpc' # "acceptWake")
    BY <1>7 DEF MainPoll, MainEvent, MainAcceptBlocks, BreakFromAccept, MainTake, MainDrained,
                MainSend, MainWake, SetStop, JoinStep, JoinThread, JoinReturns, JoinPanics,
                TypeInv, Relaying, conns, mainvars, vars
  <2> QED
    BY <2>1
<1>8. ASSUME NEW t \in Thread, ThreadStep(t) \/ ThreadPoll(t)
      PROVE  Rests
  <2>1. UNCHANGED <<home, next_thread, mpc>>
    BY <1>8 DEF ThreadStep, ThreadReturns, ThreadPoll, ThreadWaker, ThreadReadable, ThreadAdopt,
                ThreadAdopted, ThreadTake, ThreadDrained, ProcessLogin, ProcessPing,
                PublishIgnored, PublishSend, PublishWake, PublishPanics, ReadBlocks,
                RemoveConnection, conns, mainvars
  <2>2. \/ UNCHANGED stage
        \/ \E c \in Conn : ThreadAdopt(t, c)
        \/ \E how \in {"ended", "panicked"} : ThreadStops(t, how)
        \/ RemoveConnection(t)
    BY <1>8 DEF ThreadStep, ThreadReturns, ThreadPoll, ThreadWaker, ThreadReadable,
                ThreadAdopted, ThreadTake, ThreadDrained, ProcessLogin, ProcessPing,
                PublishIgnored, PublishSend, PublishWake, PublishPanics, ReadBlocks, conns
  <2>3. \A c \in Conn : stage'[c] = stage[c] \/ stage'[c] \in {"open", "gone"}
    BY <1>4, <2>2 DEF ThreadAdopt, ThreadStops, RemoveConnection
  <2> QED
    BY <2>1, <2>3
<1> HIDE DEF Rests
<1> QED
  BY <1>1, <1>2, <1>3, <1>5, <1>6, <1>7, <1>8 DEF Next, MainStep

(* Connections are spread evenly: whatever was accepted, two threads never *)
(* differ by more than one (server.rs:138-148).                            *)
THEOREM ConnectionsBalanced == Spec => []Balanced
<1>1. InRotation => Balanced
  <2> SUFFICES ASSUME InRotation, NEW t \in Thread, NEW u \in Thread
               PROVE  Cardinality(HomeOf(t)) <= Cardinality(HomeOf(u)) + 1
    BY DEF Balanced, HomeOf
  <2>1. PICK rounds \in Nat : \A v \in Thread :
          Cardinality(HomeOf(v)) = IF v < Turns THEN rounds + 1 ELSE rounds
    BY DEF InRotation
  <2> QED
    BY <2>1
<1>2. TypeInv /\ InRotation /\ Homeless /\ [Next]_vars => InRotation' /\ Homeless'
  BY StepRotates
<1> QED
  BY <1>1, <1>2, InitRotation, TypeInvHolds, PTL DEF Spec

-----------------------------------------------------------------------------
(* No wakeup is lost: whoever has something in a channel was told to look, *)
(* and has not looked yet.  The three kinds of channel (chat messages to   *)
(* main, chat messages to a thread, connections to a thread) are           *)
(* independent of each other.                                              *)


MainTold(k) ==
  \/ mwake
  \/ "WAKER_TOKEN_BROADCAST" \in mbatch
  \/ MainDrains(k)
  \/ \E t \in Thread : tpc[t] = "wake"

ThreadTold(t, k) ==
  \/ twake[t]
  \/ WAKER_TOKEN \in tbatch[t]
  \/ ThreadDrains(t, k)
  \/ mpc = "wake" /\ fwdTo = t

AdopterTold(t) ==
  \/ twake[t]
  \/ WAKER_TOKEN \in tbatch[t]
  \/ tpc[t] = "new"
  \/ mpc = "acceptWake" /\ next_thread = t

MainHears == \A k \in Kind : mchan[k] # <<>> /\ ~MainGone => MainTold(k)

ThreadsHear ==
  \A t \in Thread, k \in Kind : tchan[t][k] # <<>> /\ ~ThreadGone(t) => ThreadTold(t, k)

AdoptersHear == \A c \in Conn : stage[c] = "queued" => AdopterTold(home[c])

-----------------------------------------------------------------------------
(* The main thread is told of the messages in its channels. *)

LEMMA MainHearsMain ==
  ASSUME TypeInv, MainHears, MainStep \/ MainAcceptFails
  PROVE  MainHears'
<1>0. TypeOK /\ Relaying /\ ChannelKinds
  BY DEF TypeInv
<1>1. CASE MainReturns \/ MainAcceptPanics \/ MainSendPanics \/ MainAcceptFails
  BY <1>1 DEF MainHears, MainGone, MainReturns, MainAcceptPanics, MainSendPanics,
              MainAcceptFails, MainStops
<1>2. CASE MainPoll
  BY <1>2 DEF MainHears, MainTold, MainGone, MainDrains, MainPoll, MainReady, threads
<1>3. CASE \E e \in mbatch : MainEvent(e)
  BY <1>0, <1>3 DEF TypeOK, MainHears, MainTold, MainGone, MainDrains, MainEvent, threads
<1>4. CASE (\E c \in Conn : MainAccept(c)) \/ MainAcceptBlocks \/ MainAcceptWake
  BY <1>4 DEF MainHears, MainTold, MainGone, MainDrains, MainAccept, MainAcceptBlocks,
              BreakFromAccept, MainAcceptWake, threads
<1>5. ASSUME NEW k \in Kind, MainTake(k)
      PROVE  MainHears'
  <2>1. mpc = k /\ mpc' = "send" /\ fwd' = Head(mchan[k]) /\ mchan[k] \in Seq(Event)
        /\ mchan[k] # <<>>
    BY <1>0, <1>5 DEF MainTake, TypeOK
  <2>2. fwd'.kind = k
    BY <1>0, <2>1 DEF ChannelKinds
  <2>3. \A j \in Kind : j # k => mchan'[j] = mchan[j]
    BY <1>0, <1>5 DEF MainTake, TypeOK
  <2>4. UNCHANGED <<mbatch, mwake, tpc>>
    BY <1>5 DEF MainTake, threads
  <2> QED
    BY <2>1, <2>2, <2>3, <2>4 DEF MainHears, MainTold, MainGone, MainDrains
<1>6. CASE \E k \in Kind : MainDrained(k)
  BY <1>6 DEF MainHears, MainTold, MainGone, MainDrains, MainDrained, threads
<1>7. CASE MainSend
  BY <1>7 DEF MainHears, MainTold, MainGone, MainDrains, MainSend
<1>8. CASE MainWake
  BY <1>0, <1>8 DEF MainHears, MainTold, MainGone, MainDrains, MainWake, Relaying
<1> QED
  BY <1>1, <1>2, <1>3, <1>4, <1>5, <1>6, <1>7, <1>8 DEF MainStep

LEMMA MainHearsThread ==
  ASSUME TypeInv, MainHears, NEW t \in Thread, ThreadStep(t) \/ ThreadPoll(t)
  PROVE  MainHears'
<1>0. tpc \in [Thread -> {"loop", "new", "global", "private", "read", "wake",
                          "ended", "panicked"}]
  BY DEF TypeInv, TypeOK
<1>1. CASE PublishSend(t)
  <2>1. tpc'[t] = "wake"
    BY <1>0, <1>1 DEF PublishSend
  <2> QED
    BY <2>1 DEF MainHears, MainTold
<1>2. CASE PublishWake(t)
  BY <1>2 DEF MainHears, MainTold, PublishWake, WakeMain
<1>3. CASE ~PublishSend(t) /\ ~PublishWake(t)
  <2>1. UNCHANGED mainvars
    BY <1>3 DEF ThreadStep, ThreadReturns, ThreadPoll, ThreadWaker, ThreadReadable, ThreadAdopt,
       ThreadAdopted, ThreadTake, ThreadDrained, ProcessLogin, ProcessPing, PublishIgnored,
       PublishPanics, ReadBlocks, RemoveConnection
  <2>2. \/ UNCHANGED tpc
        \/ tpc[t] # "wake" /\ \E s \in {"loop", "new", "global", "private", "read", "ended", "panicked"} :
             tpc' = [tpc EXCEPT ![t] = s]
    BY <1>3 DEF Reads, ThreadStep, ThreadReturns, ThreadPoll, ThreadWaker, ThreadReadable,
       ThreadAdopt, ThreadAdopted, ThreadTake, ThreadDrained, ProcessLogin, ProcessPing,
       PublishIgnored, PublishPanics, ReadBlocks, RemoveConnection, ThreadStops, threads
  <2>3. \A u \in Thread : tpc[u] = "wake" => tpc'[u] = "wake"
    BY <1>0, <2>2
  <2> QED
    BY <2>1, <2>3 DEF MainHears, MainTold, MainGone, MainDrains, mainvars
<1> QED
  BY <1>1, <1>2, <1>3

-----------------------------------------------------------------------------
(* The connection threads are told of the messages in theirs. *)

LEMMA ThreadsHearMain ==
  ASSUME TypeInv, ThreadsHear, MainStep \/ MainAcceptFails
  PROVE  ThreadsHear'
<1>0. TypeOK /\ Relaying
  BY DEF TypeInv
<1>1. CASE MainSend
  <2>1. /\ fwd \in Event /\ fwd.kind \in Kind /\ fwdTo \in Thread
        /\ tchan \in [Thread -> [Kind -> Seq(Event)]]
        /\ tchan' = [tchan EXCEPT ![fwdTo][fwd.kind] = Append(@, fwd)]
        /\ mpc = "send" /\ mpc' = "wake"
        /\ UNCHANGED <<fwdTo, tpc, tbatch, twake>>
    BY <1>0, <1>1 DEF MainSend, Relaying, TypeOK
  <2>2. \A t \in Thread : t # fwdTo => tchan'[t] = tchan[t]
    BY <2>1
  <2> QED
    BY <2>1, <2>2 DEF ThreadsHear, ThreadTold, ThreadGone, ThreadDrains
<1>2. CASE MainWake
  <2>1. /\ fwdTo \in Thread /\ twake \in [Thread -> BOOLEAN]
        /\ twake' = [twake EXCEPT ![fwdTo] = TRUE]
        /\ UNCHANGED <<tpc, tbatch, tchan>>
    BY <1>0, <1>2 DEF MainWake, Wake, TypeOK
  <2>2. twake'[fwdTo] /\ \A t \in Thread : twake[t] => twake'[t]
    BY <2>1
  <2> QED
    BY <2>1, <2>2 DEF ThreadsHear, ThreadTold, ThreadGone, ThreadDrains
<1>3. CASE MainAcceptWake
  <2>1. /\ next_thread \in Thread /\ twake \in [Thread -> BOOLEAN]
        /\ twake' = [twake EXCEPT ![next_thread] = TRUE]
        /\ mpc = "acceptWake"
        /\ UNCHANGED <<tpc, tbatch, tchan>>
    BY <1>0, <1>3 DEF MainAcceptWake, Wake, TypeOK
  <2>2. \A t \in Thread : twake[t] => twake'[t]
    BY <2>1
  <2> QED
    BY <2>1, <2>2 DEF ThreadsHear, ThreadTold, ThreadGone, ThreadDrains
<1>4. CASE ~MainSend /\ ~MainWake /\ ~MainAcceptWake
  <2>1. UNCHANGED threads /\ mpc # "wake"
    BY <1>4 DEF MainStep, MainReturns, MainPoll, MainEvent, MainAccept, MainAcceptPanics,
       MainAcceptBlocks, MainAcceptFails, MainTake, MainDrained, MainSendPanics
  <2> QED
    BY <2>1 DEF ThreadsHear, ThreadTold, ThreadGone, ThreadDrains, threads
<1> QED
  BY <1>1, <1>2, <1>3, <1>4

(* A step of thread t leaves the other threads as they are.                *)
LEMMA OthersUnmoved ==
  ASSUME TypeInv, NEW t \in Thread, ThreadStep(t) \/ ThreadPoll(t)
  PROVE  \A u \in Thread : u # t => UNCHANGED <<tpc[u], tbatch[u], twake[u], tchan[u]>>
<1>0. TypeOK
  BY DEF TypeInv
<1>1. \/ UNCHANGED tpc
      \/ \E s \in {"loop", "new", "global", "private", "read", "wake", "ended", "panicked"} :
           tpc' = [tpc EXCEPT ![t] = s]
  BY DEF ThreadStep, ThreadReturns, ThreadPoll, ThreadWaker, ThreadReadable, ThreadAdopt,
     ThreadAdopted, ThreadTake, ThreadDrained, ProcessLogin, ProcessPing, PublishIgnored,
     PublishSend, PublishWake, PublishPanics, ReadBlocks, RemoveConnection, ThreadStops, threads
<1>2. \/ UNCHANGED <<tbatch, twake>>
      \/ \E b : tbatch' = [tbatch EXCEPT ![t] = b] /\ UNCHANGED twake
      \/ ThreadPoll(t)
  BY DEF ThreadStep, ThreadReturns, ThreadWaker, ThreadReadable, ThreadAdopt,
     ThreadAdopted, ThreadTake, ThreadDrained, ProcessLogin, ProcessPing, PublishIgnored,
     PublishSend, PublishWake, PublishPanics, ReadBlocks, RemoveConnection, threads
<1>3. ThreadPoll(t) => \E b : /\ tbatch' = [tbatch EXCEPT ![t] = b]
                              /\ twake' = [twake EXCEPT ![t] = FALSE]
  BY DEF ThreadPoll
<1>4. \/ UNCHANGED tchan
      \/ \E k \in Kind : tchan' = [tchan EXCEPT ![t][k] = Tail(@)]
  BY DEF ThreadStep, ThreadReturns, ThreadPoll, ThreadWaker, ThreadReadable, ThreadAdopt,
     ThreadAdopted, ThreadTake, ThreadDrained, ProcessLogin, ProcessPing, PublishIgnored,
     PublishSend, PublishWake, PublishPanics, ReadBlocks, RemoveConnection, threads
<1>5. \A u \in Thread : u # t => tpc'[u] = tpc[u]
  BY <1>0, <1>1 DEF TypeOK
<1>6. \A u \in Thread : u # t => tbatch'[u] = tbatch[u] /\ twake'[u] = twake[u]
  BY <1>0, <1>2, <1>3 DEF TypeOK
<1>7. \A u \in Thread : u # t => tchan'[u] = tchan[u]
  BY <1>0, <1>4 DEF TypeOK
<1> QED
  BY <1>5, <1>6, <1>7

LEMMA ThreadsHearThread ==
  ASSUME TypeInv, ThreadsHear, NEW t \in Thread, ThreadStep(t) \/ ThreadPoll(t)
  PROVE  ThreadsHear'
<1>0. TypeOK
  BY DEF TypeInv
<1>1. UNCHANGED <<mpc, fwdTo>>
  BY DEF ThreadStep, ThreadReturns, ThreadPoll, ThreadWaker, ThreadReadable, ThreadAdopt,
     ThreadAdopted, ThreadTake, ThreadDrained, ProcessLogin, ProcessPing, PublishIgnored,
     PublishSend, PublishWake, PublishPanics, ReadBlocks, RemoveConnection, mainvars
<1>2. ASSUME NEW k \in Kind, tchan[t][k] # <<>> /\ ~ThreadGone(t) => ThreadTold(t, k)
      PROVE  tchan'[t][k] # <<>> /\ ~ThreadGone(t)' => ThreadTold(t, k)'
  <2>1. CASE ThreadReturns(t) \/ PublishPanics(t)
    BY <1>0, <2>1 DEF TypeOK, ThreadReturns, PublishPanics, ThreadStops, ThreadGone
  <2>2. CASE ThreadPoll(t)
    <3>1. twake[t] => WAKER_TOKEN \in tbatch'[t]
      BY <1>0, <2>2 DEF TypeOK, ThreadPoll
    <3>2. tpc[t] = "loop" /\ tbatch[t] = {} /\ UNCHANGED <<tpc, tchan>>
      BY <2>2 DEF ThreadPoll
    <3> QED
      BY <1>1, <1>2, <3>1, <3>2 DEF ThreadTold, ThreadDrains, ThreadGone
  <2>3. CASE ThreadWaker(t)
    BY <1>0, <2>3 DEF TypeOK, ThreadWaker, ThreadTold, ThreadDrains
  <2>4. ASSUME NEW c \in Conn, ThreadReadable(t, c)
        PROVE  tchan'[t][k] # <<>> /\ ~ThreadGone(t)' => ThreadTold(t, k)'
    BY <1>0, <1>1, <1>2, <2>4, ChatServerAssumption
      DEF TypeOK, ThreadReadable, ThreadTold, ThreadDrains, ThreadGone
  <2>5. CASE ThreadAdopted(t)
    BY <1>0, <2>5 DEF TypeOK, ThreadAdopted, ThreadTold, ThreadDrains
  <2>6. ASSUME NEW j \in Kind, ThreadTake(t, j)
        PROVE  tchan'[t][k] # <<>> /\ ~ThreadGone(t)' => ThreadTold(t, k)'
    <3>1. /\ tpc[t] = j
          /\ tchan \in [Thread -> [Kind -> Seq(Event)]]
          /\ tchan' = [tchan EXCEPT ![t][j] = Tail(@)]
          /\ UNCHANGED <<tpc, tbatch, twake>>
      BY <1>0, <2>6 DEF TypeOK, ThreadTake
    <3>2. j # k => tchan'[t][k] = tchan[t][k]
      BY <3>1
    <3> QED
      BY <1>1, <1>2, <3>1, <3>2 DEF ThreadTold, ThreadDrains, ThreadGone
  <2>7. ASSUME NEW j \in Kind, ThreadDrained(t, j)
        PROVE  tchan'[t][k] # <<>> /\ ~ThreadGone(t)' => ThreadTold(t, k)'
    BY <1>0, <1>1, <1>2, <2>7 DEF TypeOK, ThreadDrained, ThreadTold, ThreadDrains, ThreadGone
  <2>8. CASE PublishSend(t) \/ PublishWake(t) \/ ReadBlocks(t) \/ RemoveConnection(t)
    <3>1. /\ tpc[t] \in {"read", "wake"}
          /\ UNCHANGED <<tbatch, twake, tchan>>
      BY <2>8 DEF Reads, PublishSend, PublishWake, ReadBlocks, RemoveConnection
    <3> QED
      BY <1>1, <1>2, <3>1 DEF ThreadTold, ThreadDrains, ThreadGone
  <2>9. CASE \/ \E c \in Conn : ThreadAdopt(t, c)
             \/ ProcessLogin(t) \/ ProcessPing(t) \/ PublishIgnored(t)
    <3>1. UNCHANGED threads
      BY <2>9 DEF ThreadAdopt, ProcessLogin, ProcessPing, PublishIgnored
    <3> QED
      BY <1>1, <1>2, <3>1 DEF ThreadTold, ThreadDrains, ThreadGone, threads
  <2> QED
    BY <2>1, <2>2, <2>3, <2>4, <2>5, <2>6, <2>7, <2>8, <2>9 DEF ThreadStep
<1>3. \A u \in Thread : u # t => UNCHANGED <<tpc[u], tbatch[u], twake[u], tchan[u]>>
  BY OthersUnmoved
<1>4. \A u \in Thread, k \in Kind : u # t =>
        (tchan'[u][k] # <<>> /\ ~ThreadGone(u)' => ThreadTold(u, k)')
  BY <1>1, <1>3 DEF ThreadsHear, ThreadTold, ThreadDrains, ThreadGone
<1>5. \A k \in Kind : tchan'[t][k] # <<>> /\ ~ThreadGone(t)' => ThreadTold(t, k)'
  BY <1>2 DEF ThreadsHear
<1> QED
  BY <1>4, <1>5 DEF ThreadsHear
-----------------------------------------------------------------------------
(* The connection threads are told of the connections handed to them. *)

LEMMA AdoptersHearMain ==
  ASSUME TypeInv, AdoptersHear, MainStep \/ MainAcceptFails \/ \E c \in Conn : Connect(c)
  PROVE  AdoptersHear'
<1>0. TypeOK /\ Housed
  BY DEF TypeInv
<1>1. ASSUME NEW c \in Conn, MainAccept(c)
      PROVE  AdoptersHear'
  <2>1. /\ mpc = "accept" /\ mpc' = "acceptWake"
        /\ stage' = [stage EXCEPT ![c] = "queued"]
        /\ home' = [home EXCEPT ![c] = next_thread]
        /\ UNCHANGED <<next_thread, tpc, tbatch, twake>>
    BY <1>1 DEF MainAccept, threads
  <2>2. AdopterTold(home[c])' /\ home'[c] = next_thread
    BY <1>0, <2>1 DEF TypeOK, AdopterTold
  <2>3. \A d \in Conn : d # c => stage'[d] = stage[d] /\ home'[d] = home[d]
    BY <1>0, <2>1 DEF TypeOK
  <2> QED
    BY <2>1, <2>2, <2>3 DEF AdoptersHear, AdopterTold
<1>2. CASE MainAcceptWake \/ MainWake
  <2>1. PICK t \in Thread :
          /\ twake' = [twake EXCEPT ![t] = TRUE]
          /\ mpc = "acceptWake" => t = next_thread
    BY <1>0, <1>2 DEF TypeOK, MainAcceptWake, MainWake, Wake
  <2>2. twake'[t] /\ \A u \in Thread : twake[u] => twake'[u]
    BY <1>0, <2>1 DEF TypeOK
  <2>3. UNCHANGED <<stage, home, tpc, tbatch>>
    BY <1>2 DEF MainAcceptWake, MainWake, conns
  <2> QED
    BY <1>0, <2>1, <2>2, <2>3 DEF Housed, AdoptersHear, AdopterTold
<1>3. CASE (\A c \in Conn : ~MainAccept(c)) /\ ~MainAcceptWake /\ ~MainWake
  <2>1. /\ UNCHANGED <<home, tpc, tbatch, twake, next_thread>>
        /\ mpc = "acceptWake" => mpc' = "acceptWake"
    BY <1>3 DEF MainStep, Connect, MainReturns, MainPoll, MainEvent, MainAcceptPanics,
       MainAcceptBlocks, MainAcceptFails, MainTake, MainDrained, MainSend, MainSendPanics,
       conns, mainvars, threads
  <2>2. \A d \in Conn : stage'[d] = "queued" => stage[d] = "queued"
    BY <1>0, <1>3 DEF TypeOK, MainStep, Connect, MainReturns, MainPoll, MainEvent,
       MainAcceptPanics, MainAcceptBlocks, MainAcceptFails, MainTake, MainDrained, MainSend,
       MainSendPanics, MainStops, conns
  <2> QED
    BY <2>1, <2>2 DEF AdoptersHear, AdopterTold
<1> QED
  BY <1>1, <1>2, <1>3

LEMMA AdoptersHearThread ==
  ASSUME TypeInv, AdoptersHear, NEW t \in Thread, ThreadStep(t) \/ ThreadPoll(t)
  PROVE  AdoptersHear'
<1>0. TypeOK
  BY DEF TypeInv
<1>1. UNCHANGED <<mpc, next_thread, home>>
  BY DEF ThreadStep, ThreadReturns, ThreadPoll, ThreadWaker, ThreadReadable, ThreadAdopt,
     ThreadAdopted, ThreadTake, ThreadDrained, ProcessLogin, ProcessPing, PublishIgnored,
     PublishSend, PublishWake, PublishPanics, ReadBlocks, RemoveConnection, conns, mainvars
<1>2. \A d \in Conn : stage'[d] = "queued" => stage[d] = "queued"
  BY SMTT(20), <1>0 DEF TypeOK, Reads, ThreadStep, ThreadReturns, ThreadPoll, ThreadWaker,
     ThreadReadable,
     ThreadAdopt, ThreadAdopted, ThreadTake, ThreadDrained, ProcessLogin, ProcessPing,
     PublishIgnored, PublishSend, PublishWake, PublishPanics, ReadBlocks, RemoveConnection,
     ThreadStops, conns
<1>3. ASSUME NEW d \in Conn, home[d] = t, stage'[d] = "queued", AdopterTold(t)
      PROVE  AdopterTold(t)'
  <2>1. CASE ThreadReturns(t) \/ PublishPanics(t)
    BY <1>3, <2>1 DEF ThreadReturns, PublishPanics, ThreadStops
  <2>2. CASE ThreadPoll(t)
    <3>1. twake[t] => WAKER_TOKEN \in tbatch'[t]
      BY <1>0, <2>2 DEF TypeOK, ThreadPoll
    <3>2. tpc[t] = "loop" /\ tbatch[t] = {} /\ UNCHANGED tpc
      BY <2>2 DEF ThreadPoll
    <3> QED
      BY <1>1, <1>3, <3>1, <3>2 DEF AdopterTold
  <2>3. CASE ThreadWaker(t)
    BY <1>0, <2>3 DEF TypeOK, ThreadWaker, AdopterTold
  <2>4. ASSUME NEW c \in Conn, ThreadReadable(t, c)
        PROVE  AdopterTold(t)'
    BY <1>0, <1>1, <1>3, <2>4, ChatServerAssumption DEF TypeOK, ThreadReadable, AdopterTold
  <2>5. ~ThreadAdopted(t)
    BY <1>2, <1>3 DEF ThreadAdopted
  <2>6. ASSUME NEW k \in Kind, ThreadDrained(t, k)
        PROVE  AdopterTold(t)'
    BY <1>0, <1>1, <1>3, <2>6 DEF TypeOK, ThreadDrained, AdopterTold
  <2>7. CASE PublishSend(t) \/ PublishWake(t) \/ ReadBlocks(t) \/ RemoveConnection(t)
    <3>1. tpc[t] \in {"read", "wake"} /\ UNCHANGED <<tbatch, twake>>
      BY <2>7 DEF Reads, PublishSend, PublishWake, ReadBlocks, RemoveConnection
    <3> QED
      BY <1>1, <1>3, <3>1 DEF AdopterTold
  <2>8. CASE \/ \E c \in Conn : ThreadAdopt(t, c)
             \/ \E k \in Kind : ThreadTake(t, k)
             \/ ProcessLogin(t) \/ ProcessPing(t) \/ PublishIgnored(t)
    <3>1. UNCHANGED <<tpc, tbatch, twake>>
      BY <2>8 DEF ThreadAdopt, ThreadTake, ProcessLogin, ProcessPing, PublishIgnored, threads
    <3> QED
      BY <1>1, <1>3, <3>1 DEF AdopterTold
  <2> QED
    BY <2>1, <2>2, <2>3, <2>4, <2>5, <2>6, <2>7, <2>8 DEF ThreadStep
<1>4. \A u \in Thread : u # t => UNCHANGED <<tpc[u], tbatch[u], twake[u]>>
  BY OthersUnmoved
<1>5. ASSUME NEW d \in Conn, stage'[d] = "queued"
      PROVE  AdopterTold(home[d])'
  <2>1. home'[d] = home[d] /\ home[d] \in Thread /\ AdopterTold(home[d])
    BY <1>1, <1>2, <1>5 DEF TypeInv, Housed, AdoptersHear
  <2>2. CASE home[d] = t
    BY <1>3, <1>5, <2>1, <2>2 DEF AdopterTold
  <2>3. CASE home[d] # t
    BY <1>1, <1>4, <2>1, <2>3 DEF AdopterTold
  <2> QED
    BY <2>2, <2>3
<1> QED
  BY <1>5 DEF AdoptersHear

-----------------------------------------------------------------------------

LEMMA StepHears ==
  ASSUME TypeInv, NoLostWakeup, [Next]_vars
  PROVE  NoLostWakeup'
<1>0. MainHears /\ ThreadsHear /\ AdoptersHear
  BY DEF NoLostWakeup, MainHears, ThreadsHear, AdoptersHear, MainTold, ThreadTold, AdopterTold
<1>whole. MainHears' /\ ThreadsHear' /\ AdoptersHear' => NoLostWakeup'
  BY DEF NoLostWakeup, MainHears, ThreadsHear, AdoptersHear, MainTold, ThreadTold, AdopterTold
<1>1. CASE MainStep \/ MainAcceptFails
  BY <1>0, <1>1, MainHearsMain, ThreadsHearMain, AdoptersHearMain, <1>whole
<1>2. ASSUME NEW t \in Thread, ThreadStep(t) \/ ThreadPoll(t)
      PROVE  NoLostWakeup'
  BY <1>0, <1>2, MainHearsThread, ThreadsHearThread, AdoptersHearThread, <1>whole
<1>3. CASE \E c \in Conn : Connect(c)
  <2>1. UNCHANGED <<mainvars, threads>>
    BY <1>3 DEF Connect
  <2>2. MainHears' /\ ThreadsHear'
    BY <1>0, <2>1 DEF MainHears, MainTold, MainDrains, MainGone, ThreadsHear, ThreadTold,
       ThreadDrains, ThreadGone, mainvars, threads
  <2> QED
    BY <1>0, <1>3, <2>2, AdoptersHearMain, <1>whole
<1>4. CASE SetStop \/ JoinStep \/ UNCHANGED vars
  <2>1. UNCHANGED <<conns, mainvars, threads>>
    BY <1>4 DEF SetStop, JoinStep, JoinThread, JoinReturns, JoinPanics, vars
  <2> QED
    BY <2>1 DEF NoLostWakeup, MainDrains, MainGone, ThreadDrains, ThreadGone,
       conns, mainvars, threads
<1> QED
  BY <1>1, <1>2, <1>3, <1>4 DEF Next

(* A message or a connection in a channel always has somebody who will     *)
(* look, for any number of threads and connections (event.rs:26-33,        *)
(* connection_thread.rs:95-157 and 213-219, server.rs:152-186).            *)
THEOREM ServerLosesNoWakeup == Spec => []NoLostWakeup
<1>1. Init => NoLostWakeup
  BY DEF Init, NoLostWakeup
<1>2. TypeInv /\ NoLostWakeup /\ [Next]_vars => NoLostWakeup'
  BY StepHears
<1> QED
  BY <1>1, <1>2, TypeInvHolds, PTL DEF Spec
=============================================================================
