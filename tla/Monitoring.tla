----------------------------- MODULE Monitoring -----------------------------
(***************************************************************************)
(* The statistics of the server (backend/src/net/monitoring.rs): every     *)
(* thread counts in atomic counters of its own, one for the interval and   *)
(* one for the total of each row, and the main thread adds them up, prints *)
(* them and resets those of the interval, while the others count on.       *)
(*                                                                         *)
(* The four rows that count bytes and messages are alike: "traffic" stands *)
(* for any of them.  Atomic operations take effect in program order, as    *)
(* they do on x86 (the loads of update() are Relaxed).                     *)
(***************************************************************************)
EXTENDS Integers, Sequences, FiniteSets

CONSTANTS Threads,          \* number of connection threads
          MaxAmount,        \* how much a call may add to "traffic"
          MaxConnections,   \* bound: connections accepted
          MaxTraffic        \* bound: traffic counted

ASSUME MonitoringAssumption ==
  /\ Threads \in Nat \ {0}
  /\ MaxAmount \in Nat \ {0}
  /\ MaxConnections \in Nat
  /\ MaxTraffic \in Nat

Thread == 1 .. Threads
Stats == 0 .. Threads       \* the main thread's, then those of the connection threads
Row == <<"connections", "disconnects", "traffic">>
Rows == {Row[i] : i \in DOMAIN Row}

VARIABLES
  interval, total,   \* the counters: [Stats -> [Rows -> Nat]]
  call,              \* the call between its two fetch_adds, of each thread
  connections,       \* how many connections a thread has
  \* the main thread
  pc,                \* loop, accepted, load, print, reset, stopped
  at,                \* how many loads or stores of update() are done
  last, sum,         \* update()'s local sums over the counters
  \* history
  counted,           \* what was ever added to the counters of the interval
  outside,           \* the part of it that was added while update() did not run
  shown,             \* the sum of all the `last` that were printed
  moments            \* how many connections there were during update()

(* The sum of f over S: the number of units of all its values.             *)
Units(f, S) == UNION {{s} \X (1 .. f[s]) : s \in S}
Sum(f, S) == Cardinality(Units(f, S))

counters == <<interval, total, call, counted, outside>>
update == <<at, last, sum, shown>>
vars == <<counters, connections, pc, update, moments>>

NoCall == [row |-> "none", amount |-> 0]
Zero == [r \in Rows |-> 0]

Init ==
  /\ interval = [s \in Stats |-> Zero] /\ total = [s \in Stats |-> Zero]
  /\ call = [s \in Stats |-> NoCall]
  /\ connections = [t \in Thread |-> 0]
  /\ pc = "loop" /\ at = 0 /\ last = Zero /\ sum = Zero
  /\ counted = Zero /\ outside = Zero /\ shown = Zero /\ moments = {}

-----------------------------------------------------------------------------
(* Counting: an addition to the interval, then one to the total. *)

Updating == pc \in {"load", "print", "reset"}

Count(s, row, n) ==
  /\ call[s] = NoCall
  /\ call' = [call EXCEPT ![s] = [row |-> row, amount |-> n]]
  /\ interval' = [interval EXCEPT ![s][row] = @ + n]
  /\ counted' = [counted EXCEPT ![row] = @ + n]
  /\ outside' = IF Updating THEN outside ELSE [outside EXCEPT ![row] = @ + n]
  /\ UNCHANGED total

(* The connections that were counted as new and not yet as lost. *)
Held(during) ==
  [t \in Thread |-> connections[t] + (IF during[t].row = "disconnects" THEN 1 ELSE 0)]
Connected(during) == Sum(Held(during), Thread)

CountTotal(s) ==
  /\ call[s] # NoCall
  /\ total' = [total EXCEPT ![s][call[s].row] = @ + call[s].amount]
  /\ call' = [call EXCEPT ![s] = NoCall]
  /\ moments' = IF pc \in {"load", "print"} THEN moments \union {Connected(call')} ELSE moments
  /\ UNCHANGED <<interval, counted, outside, connections, pc, update>>

(* A connection thread reads, sends or receives. *)
Traffic(t, n) ==
  /\ counted["traffic"] + n <= MaxTraffic
  /\ Count(t, "traffic", n)
  /\ UNCHANGED <<connections, pc, update, moments>>

(* It removes a connection. *)
Lose(t) ==
  /\ connections[t] > 0
  /\ connections' = [connections EXCEPT ![t] = @ - 1]
  /\ Count(t, "disconnects", 1)
  /\ UNCHANGED <<pc, update, moments>>

-----------------------------------------------------------------------------
(* The main thread accepts connections and calls update() in turns.        *)

Accept ==
  /\ pc = "loop"
  /\ counted["connections"] < MaxConnections
  /\ pc' = "accepted"
  /\ Count(0, "connections", 1)
  /\ UNCHANGED <<connections, update, moments>>

AddConnection(t) ==
  /\ pc = "accepted" /\ call[0] = NoCall
  /\ connections' = [connections EXCEPT ![t] = @ + 1]
  /\ pc' = "loop"
  /\ UNCHANGED <<counters, update, moments>>

Stop ==
  /\ pc = "loop"
  /\ pc' = "stopped"
  /\ UNCHANGED <<counters, connections, update, moments>>

(* update(), once its duration has elapsed.                                *)
Update ==
  /\ pc = "loop"
  /\ pc' = "load"
  /\ moments' = {Connected(call)}
  /\ UNCHANGED <<counters, connections, update>>

Loads == 2 * Len(Row) * (Threads + 1)
Stores == Len(Row) * (Threads + 1)

\* Slip: the total of the disconnects is taken from the wrong counter.
IntervalForTotal(s, row) == IF row = "disconnects" THEN interval[s][row] ELSE total[s][row]

Total(s, row) == total[s][row]

\* Slip: the total is loaded before the interval.
TotalFirst(i) == i % 2 = 1

IntervalFirst(i) == i % 2 = 0

Load ==
  LET s == at \div (2 * Len(Row))
      row == Row[((at \div 2) % Len(Row)) + 1]
  IN
  /\ pc = "load"
  /\ IF IntervalFirst(at)
     THEN last' = [last EXCEPT ![row] = @ + interval[s][row]] /\ UNCHANGED sum
     ELSE sum' = [sum EXCEPT ![row] = @ + Total(s, row)] /\ UNCHANGED last
  /\ at' = at + 1
  /\ pc' = IF at' = Loads THEN "print" ELSE "load"
  /\ UNCHANGED <<counters, connections, shown, moments>>

PrintStats ==
  /\ pc = "print"
  /\ shown' = [r \in Rows |-> shown[r] + last[r]]
  /\ pc' = "reset" /\ at' = 0
  /\ last' = Zero /\ sum' = Zero /\ moments' = {}
  /\ UNCHANGED <<counters, connections>>

\* Slip: the last row is not reset.
ExceptTraffic(row, n) == IF row = "traffic" THEN n ELSE 0

AfterStore(row, n) == 0

Reset ==
  LET s == at \div Len(Row)
      row == Row[(at % Len(Row)) + 1]
  IN
  /\ pc = "reset"
  /\ interval' = [interval EXCEPT ![s][row] = AfterStore(row, @)]
  /\ at' = (at + 1) % Stores
  /\ pc' = IF at' = 0 THEN "loop" ELSE "reset"
  /\ UNCHANGED <<total, call, counted, outside, connections, last, sum, shown, moments>>

-----------------------------------------------------------------------------

Next ==
  \/ \E t \in Thread, n \in 1 .. MaxAmount : Traffic(t, n)
  \/ \E t \in Thread : Lose(t)
  \/ \E s \in Stats : CountTotal(s)
  \/ Accept
  \/ \E t \in Thread : AddConnection(t)
  \/ Stop
  \/ Update
  \/ Load
  \/ PrintStats
  \/ Reset

Spec == Init /\ [][Next]_vars

-----------------------------------------------------------------------------
(* Properties *)

(* The number of current connections that is printed was the number of     *)
(* connections at some moment of the update, although each thread's total  *)
(* is read at another one; in particular it is never negative, and the     *)
(* subtraction of two usize does not overflow (monitoring.rs:108).         *)
CurrentWasTrue ==
  pc = "print" => sum["connections"] - sum["disconnects"] \in moments

Interval(row) == [s \in Stats |-> interval[s][row]]

(* Between two updates every call is accounted for once: what was counted  *)
(* outside of update() was printed as part of one interval or is still in  *)
(* a counter, and nothing is in two intervals.  Only what is counted while *)
(* update() is between the load of a counter and its reset may be missing  *)
(* (monitoring.rs:75-141).                                                 *)
LastsCountOnce ==
  pc = "loop" =>
    \A r \in Rows :
      LET pending == Sum(Interval(r), Stats) IN
      outside[r] <= shown[r] + pending /\ shown[r] + pending <= counted[r]

(* The connection threads that count in a row.  The main thread counts too *)
(* (connections), but not while it is in update().                         *)
CountingIn(r) == {t \in Thread : total[t][r] > 0 \/ call[t].row = r}

(* The printed total never falls behind the sum of all the printed         *)
(* intervals by more than the one call of each thread that may be between  *)
(* its two additions (monitoring.rs:76-91, 182-210).                       *)
TotalCoversLasts ==
  pc = "print" =>
    \A r \in Rows :
      shown[r] + last[r] <= sum[r] + MaxAmount * Cardinality(CountingIn(r))
=============================================================================
