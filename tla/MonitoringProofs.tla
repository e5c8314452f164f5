-------------------------- MODULE MonitoringProofs --------------------------
(***************************************************************************)
(* Proofs about the statistics, for any number of threads, connections and *)
(* calls: what update() prints was true at some moment, counts no call     *)
(* twice, and its totals are never far behind its intervals.               *)
(*                                                                         *)
(* update() is split at the loads and stores it has done: a sum that it is *)
(* about to print, together with the counters it has still to load, is     *)
(* compared with what was counted.                                         *)
(***************************************************************************)
EXTENDS Monitoring, FiniteSetTheorems, TLAPS

-----------------------------------------------------------------------------
(* Sums over finite sets                                                   *)

Counts(f, S) == IsFiniteSet(S) /\ \A s \in S : f[s] \in Nat

LEMMA UnitsFinite ==
  ASSUME NEW f, NEW S, Counts(f, S)
  PROVE  IsFiniteSet(Units(f, S))
<1> DEFINE part == [s \in S |-> {s} \X (1 .. f[s])]
           Parts == {{s} \X (1 .. f[s]) : s \in S}
<1>1. part \in Surjection(S, Parts)
  BY DEF Surjection
<1>2. IsFiniteSet(S)
  BY DEF Counts
<1>3. IsFiniteSet(Parts)
  BY <1>1, <1>2, FS_Surjection
<1>4. ASSUME NEW s \in S PROVE IsFiniteSet({s} \X (1 .. f[s]))
  <2>1. IsFiniteSet({s})
    BY FS_Singleton
  <2>2. f[s] \in Int
    BY DEF Counts
  <2>3. IsFiniteSet(1 .. f[s])
    BY <2>2, FS_Interval
  <2> QED
    BY <2>1, <2>3, FS_Product
<1>5. \A T \in Parts : IsFiniteSet(T)
  BY <1>4
<1> QED
  BY <1>3, <1>5, FS_UNION DEF Units

LEMMA SumType ==
  ASSUME NEW f, NEW S, Counts(f, S)
  PROVE  Sum(f, S) \in Nat
BY UnitsFinite, FS_CardinalityType DEF Sum

LEMMA SumEmpty == \A f : Sum(f, {}) = 0
BY FS_EmptySet DEF Sum, Units

LEMMA SumSame ==
  ASSUME NEW f, NEW g, NEW S, \A s \in S : f[s] = g[s]
  PROVE  Sum(f, S) = Sum(g, S)
<1>1. Units(f, S) = Units(g, S)
  BY DEF Units
<1> QED
  BY <1>1 DEF Sum

(* A summand more.                                                         *)
LEMMA SumTake ==
  ASSUME NEW f, NEW S, NEW x \in S, Counts(f, S)
  PROVE  Sum(f, S) = Sum(f, S \ {x}) + f[x]
<1> DEFINE R == S \ {x}
           X == {x} \X (1 .. f[x])
<1>1. f[x] \in Nat /\ IsFiniteSet(S)
  BY DEF Counts
<1>2. Counts(f, R)
  BY <1>1, FS_Subset DEF Counts
<1>3. IsFiniteSet(Units(f, R))
  BY <1>2, UnitsFinite
<1>4. IsFiniteSet(X) /\ Cardinality(X) = f[x]
  <2>1. IsFiniteSet({x}) /\ Cardinality({x}) = 1
    BY FS_Singleton
  <2>2. IsFiniteSet(1 .. f[x]) /\ Cardinality(1 .. f[x]) = f[x]
    BY SMTT(20), <1>1, FS_Interval
  <2>3. IsFiniteSet(X) /\ Cardinality(X) = Cardinality({x}) * Cardinality(1 .. f[x])
    BY <2>1, <2>2, FS_Product
  <2> QED
    BY <1>1, <2>1, <2>2, <2>3
<1>5. Units(f, S) = Units(f, R) \union X
  <2>1. \A u : u \in Units(f, S) <=> \E s \in S : u \in {s} \X (1 .. f[s])
    BY DEF Units
  <2>2. \A u : u \in Units(f, R) <=> \E s \in R : u \in {s} \X (1 .. f[s])
    BY DEF Units
  <2>3. \A s : s \in S <=> s \in R \/ s = x
    OBVIOUS
  <2> QED
    BY <2>1, <2>2, <2>3
<1>6. Units(f, R) \intersect X = {}
  BY DEF Units
<1>7. /\ Cardinality(Units(f, S)) =
           Cardinality(Units(f, R)) + Cardinality(X) - Cardinality(Units(f, R) \intersect X)
      /\ Cardinality(Units(f, R)) \in Nat
  BY <1>3, <1>4, <1>5, FS_Union, FS_CardinalityType
<1>8. Cardinality(Units(f, R) \intersect X) = 0
  BY <1>6, FS_EmptySet, Zenon
<1>9. Sum(f, S) = Cardinality(Units(f, S)) /\ Sum(f, R) = Cardinality(Units(f, R))
  BY DEF Sum
<1> HIDE DEF R, X
<1>10. Sum(f, S) = Sum(f, R) + f[x]
  BY <1>1, <1>4, <1>7, <1>8, <1>9
<1> QED
  BY <1>10 DEF R

(* One summand is changed.                                                 *)
LEMMA SumStep ==
  ASSUME NEW f, NEW g, NEW S, NEW x \in S, Counts(f, S), Counts(g, S),
         \A s \in S \ {x} : f[s] = g[s]
  PROVE  /\ Sum(f, S) + g[x] = Sum(g, S) + f[x]
         /\ Sum(f, S) \in Nat /\ Sum(g, S) \in Nat /\ f[x] \in Nat /\ g[x] \in Nat
<1>1. Sum(f, S) = Sum(f, S \ {x}) + f[x] /\ Sum(g, S) = Sum(g, S \ {x}) + g[x]
  BY SumTake
<1>2. Sum(f, S \ {x}) = Sum(g, S \ {x})
  BY SumSame
<1>3. Counts(f, S \ {x}) /\ f[x] \in Nat /\ g[x] \in Nat
  BY FS_Subset DEF Counts
<1>4. Sum(f, S \ {x}) \in Nat /\ Sum(f, S) \in Nat /\ Sum(g, S) \in Nat
  BY <1>3, SumType
<1> QED
  BY <1>1, <1>2, <1>3, <1>4

LEMMA SumSubset ==
  ASSUME NEW f, NEW S, NEW T \in SUBSET S, Counts(f, S)
  PROVE  Sum(f, T) <= Sum(f, S)
<1>1. Units(f, T) \subseteq Units(f, S)
  BY DEF Units
<1> QED
  BY <1>1, UnitsFinite, FS_Subset DEF Sum

LEMMA SumZero ==
  ASSUME NEW f, NEW S, \A s \in S : f[s] = 0
  PROVE  Sum(f, S) = 0
<1>1. Units(f, S) = {}
  BY DEF Units
<1> QED
  BY <1>1, FS_EmptySet DEF Sum

-----------------------------------------------------------------------------
(* The invariant *)

Counter == [Stats -> [Rows -> Nat]]
PerRow == [Rows -> Nat]

TypeInv ==
  /\ interval \in Counter /\ total \in Counter
  /\ call \in [Stats -> [row : Rows, amount : 1 .. MaxAmount] \union {NoCall}]
  /\ connections \in [Thread -> Nat]
  /\ pc \in {"loop", "accepted", "load", "print", "reset", "stopped"}
  /\ at \in Nat /\ last \in PerRow /\ sum \in PerRow
  /\ counted \in PerRow /\ outside \in PerRow /\ shown \in PerRow

(* Where update() is.                                                      *)
AtInv ==
  /\ pc \in {"loop", "accepted", "stopped"} => at = 0
  /\ pc = "load" => at < Loads
  /\ pc = "print" => at = Loads
  /\ pc = "reset" => at < Stores
  /\ pc \notin {"load", "print"} => last = Zero /\ sum = Zero

(* Who counts what.                                                        *)
CallsInv ==
  /\ call[0] \in {NoCall, [row |-> "connections", amount |-> 1]}
  /\ call[0] # NoCall => pc = "accepted"
  /\ total[0]["disconnects"] = 0
  /\ \A t \in Thread :
       /\ call[t].row # "connections" /\ total[t]["connections"] = 0
       /\ call[t].row = "disconnects" => call[t].amount = 1

Place(row) == IF row = "connections" THEN 0 ELSE IF row = "disconnects" THEN 1 ELSE 2

(* The counters that update() has still to load, and those it has reset.   *)
IntervalsLeft(row) == {s \in Stats : at <= 6 * s + 2 * Place(row)}
TotalsLeft(row) == {s \in Stats : at <= 6 * s + 2 * Place(row) + 1}
ResetDone(row) == {s \in Stats : at > 3 * s + Place(row)}

(* What a thread has ever counted.                                         *)
Ever(row) ==
  [s \in Stats |-> total[s][row] + (IF call[s].row = row THEN call[s].amount ELSE 0)]

CountedInv == \A row \in Rows : counted[row] = Sum(Ever(row), Stats)

(* What was counted outside of update() is not lost.                       *)
NoneMissing ==
  \A row \in Rows :
    outside[row] <= IF pc = "reset" THEN shown[row]
                    ELSE shown[row] + last[row] + Sum(Interval(row), IntervalsLeft(row))

(* Nothing is printed twice.                                               *)
NoneTwice ==
  \A row \in Rows :
    IF pc = "reset" THEN shown[row] + Sum(Interval(row), ResetDone(row)) <= counted[row]
    ELSE /\ shown[row] + Sum(Interval(row), Stats) <= counted[row]
         /\ last[row] + Sum(Interval(row), IntervalsLeft(row)) <= Sum(Interval(row), Stats)

(* The totals keep up with the intervals, but for a call of each thread.   *)
LateThreads(row) == {t \in CountingIn(row) : t \notin TotalsLeft(row)}

TotalsKeepUp ==
  pc # "reset" =>
    \A row \in Rows :
      shown[row] + last[row] + Sum(Interval(row), IntervalsLeft(row)) <=
        sum[row] + Sum(Ever(row), TotalsLeft(row)) + MaxAmount * Cardinality(LateThreads(row))

(* No connection is lost to the counters ...                               *)
Lost == [t \in Thread |-> total[t]["disconnects"]]

Balance ==
  Connected(call) + Sum(Lost, Thread) + (IF pc = "accepted" THEN 1 ELSE 0) =
    total[0]["connections"] + (IF call[0].row = "connections" THEN 1 ELSE 0)

(* ... and the difference that update() is about to print lies between the *)
(* number of connections now and that at the beginning, all of which were  *)
(* passed through.                                                         *)
Estimate == sum["disconnects"] + Sum(Lost, TotalsLeft("disconnects") \intersect Thread)

Moments ==
  pc \in {"load", "print"} =>
    /\ sum["connections"] = IF 0 \in TotalsLeft("connections") THEN 0 ELSE total[0]["connections"]
    /\ Estimate <= Sum(Lost, Thread)
    /\ \A m \in Nat : Connected(call) <= m /\ m <= total[0]["connections"] - Estimate => m \in moments

-----------------------------------------------------------------------------
(* Where the loads and stores are                                          *)

LEMMA RowsAre ==
  /\ Rows = {"connections", "disconnects", "traffic"} /\ Len(Row) = 3
  /\ Row[1] = "connections" /\ Row[2] = "disconnects" /\ Row[3] = "traffic"
  /\ \A row \in Rows : Place(row) \in 0 .. 2
  /\ \A i \in 0 .. 2 : Row[i + 1] \in Rows /\ Place(Row[i + 1]) = i
<1>1. Len(Row) = 3 /\ DOMAIN Row = 1 .. 3
  BY DEF Row
<1>2. Row[1] = "connections" /\ Row[2] = "disconnects" /\ Row[3] = "traffic"
  BY DEF Row
<1>3. \A i \in 1 .. 3 : i = 1 \/ i = 2 \/ i = 3
  OBVIOUS
<1>4. Rows = {"connections", "disconnects", "traffic"}
  BY <1>1, <1>2, <1>3 DEF Rows
<1>5. \A row \in Rows : Place(row) \in 0 .. 2
  BY DEF Place
<1>6. \A i \in 0 .. 2 : i = 0 \/ i = 1 \/ i = 2
  OBVIOUS
<1>7. Place("connections") = 0 /\ Place("disconnects") = 1 /\ Place("traffic") = 2
  BY DEF Place
<1>8. \A i \in 0 .. 2 : Row[i + 1] \in Rows /\ Place(Row[i + 1]) = i
  BY <1>2, <1>4, <1>6, <1>7
<1> QED
  BY <1>1, <1>2, <1>4, <1>5, <1>8

LEMMA Numbers ==
  /\ Threads \in Nat \ {0} /\ MaxAmount \in Nat \ {0} /\ 1 \in 1 .. MaxAmount
  /\ Loads = 6 * (Threads + 1) /\ Stores = 3 * (Threads + 1)
  /\ IsFiniteSet(Stats) /\ IsFiniteSet(Thread)
  /\ Stats \subseteq Nat /\ 0 \in Stats /\ 0 \notin Thread /\ Thread \subseteq Stats
  /\ \A s \in Stats : s = 0 \/ s \in Thread
<1>1. Threads \in Nat \ {0} /\ MaxAmount \in Nat \ {0}
  BY MonitoringAssumption
<1>2. IsFiniteSet(0 .. Threads) /\ IsFiniteSet(1 .. Threads)
  BY <1>1, FS_Interval
<1>3. Loads = 6 * (Threads + 1) /\ Stores = 3 * (Threads + 1)
  BY <1>1, RowsAre DEF Loads, Stores
<1> QED
  BY <1>1, <1>2, <1>3 DEF Stats, Thread

(* Which counter is loaded.                                                *)
LEMMA LoadPlace ==
  ASSUME at \in Nat, at < Loads
  PROVE  \E s \in Stats, row \in Rows, b \in {0, 1} :
           /\ at = 6 * s + 2 * Place(row) + b
           /\ s = at \div (2 * Len(Row)) /\ row = Row[((at \div 2) % Len(Row)) + 1]
           /\ b = at % 2
<1> DEFINE s == at \div 6
           i == (at \div 2) % 3
           b == at % 2
<1>1. s \in Nat /\ i \in 0 .. 2 /\ b \in {0, 1} /\ at = 6 * s + 2 * i + b
  OBVIOUS
<1>2. s <= Threads
  BY <1>1, Numbers
<1>3. s \in Stats
  BY <1>1, <1>2, Numbers DEF Stats
<1>4. Row[i + 1] \in Rows /\ Place(Row[i + 1]) = i
  BY <1>1, RowsAre
<1>5. 2 * Len(Row) = 6 /\ Len(Row) = 3
  BY RowsAre
<1> QED
  BY <1>1, <1>3, <1>4, <1>5

(* Which counter is reset.                                                 *)
LEMMA StorePlace ==
  ASSUME at \in Nat, at < Stores
  PROVE  \E s \in Stats, row \in Rows :
           /\ at = 3 * s + Place(row)
           /\ s = at \div Len(Row) /\ row = Row[(at % Len(Row)) + 1]
<1> DEFINE s == at \div 3
           i == at % 3
<1>1. s \in Nat /\ i \in 0 .. 2 /\ at = 3 * s + i
  OBVIOUS
<1>2. s <= Threads
  BY <1>1, Numbers
<1>3. s \in Stats
  BY <1>1, <1>2, Numbers DEF Stats
<1>4. Row[i + 1] \in Rows /\ Place(Row[i + 1]) = i
  BY <1>1, RowsAre
<1> QED
  BY <1>1, <1>3, <1>4, RowsAre

LEMMA PlacesDiffer ==
  ASSUME NEW r \in Rows, NEW row \in Rows, r # row
  PROVE  Place(r) # Place(row)
BY RowsAre DEF Place

-----------------------------------------------------------------------------
(* Types and control *)

Control == TypeInv /\ AtInv /\ CallsInv

LEMMA ControlInit == Init => Control
<1> SUFFICES ASSUME Init PROVE Control
  OBVIOUS
<1>1. Zero \in PerRow
  BY DEF Zero, PerRow
<1>2. \A s \in Stats, row \in Rows : interval[s][row] = 0 /\ total[s][row] = 0
  BY DEF Init, Zero
<1>3. interval \in Counter /\ total \in Counter
  BY <1>1 DEF Init, Counter, PerRow
<1>4. TypeInv
  BY <1>1, <1>3 DEF Init, TypeInv
<1>5. AtInv
  BY DEF Init, AtInv
<1>6. CallsInv
  BY <1>2, Numbers, RowsAre DEF Init, CallsInv, NoCall
<1> QED
  BY <1>4, <1>5, <1>6 DEF Control

(* What a first addition changes.                                          *)
LEMMA CountChanges ==
  ASSUME TypeInv, NEW s \in Stats, NEW row \in Rows, NEW n \in 1 .. MaxAmount, Count(s, row, n)
  PROVE  /\ call[s] = NoCall /\ call' = [call EXCEPT ![s] = [row |-> row, amount |-> n]]
         /\ total' = total
         /\ call' \in [Stats -> [row : Rows, amount : 1 .. MaxAmount] \union {NoCall}]
         /\ interval' \in Counter /\ counted' \in PerRow /\ outside' \in PerRow
         /\ \A q \in Stats, r \in Rows :
              interval'[q][r] = interval[q][r] + (IF q = s /\ r = row THEN n ELSE 0)
         /\ \A r \in Rows : counted'[r] = counted[r] + (IF r = row THEN n ELSE 0)
         /\ \A r \in Rows :
              outside'[r] = outside[r] + (IF r = row /\ ~Updating THEN n ELSE 0)
<1>1. n \in Nat /\ interval[s] \in PerRow /\ interval[s][row] \in Nat
  BY Numbers DEF TypeInv, Counter, PerRow
<1>2. interval' = [interval EXCEPT ![s][row] = @ + n]
  BY DEF Count
<1>3. [interval[s] EXCEPT ![row] = @ + n] \in PerRow
  BY <1>1 DEF PerRow
<1>4. interval' = [interval EXCEPT ![s] = [interval[s] EXCEPT ![row] = @ + n]]
  BY <1>2
<1>5. interval' \in Counter
  BY <1>3, <1>4 DEF TypeInv, Counter, PerRow
<1>6. \A q \in Stats, r \in Rows :
        interval'[q][r] = interval[q][r] + (IF q = s /\ r = row THEN n ELSE 0)
  BY <1>1, <1>4 DEF TypeInv, Counter, PerRow
<1>7. call[s] = NoCall /\ call' = [call EXCEPT ![s] = [row |-> row, amount |-> n]] /\ total' = total
  BY DEF Count
<1>8. call' \in [Stats -> [row : Rows, amount : 1 .. MaxAmount] \union {NoCall}]
  BY <1>7 DEF TypeInv
<1>9. /\ counted' \in PerRow
      /\ \A r \in Rows : counted'[r] = counted[r] + (IF r = row THEN n ELSE 0)
  BY <1>1 DEF Count, TypeInv, PerRow
<1>10. /\ outside' \in PerRow
       /\ \A r \in Rows : outside'[r] = outside[r] + (IF r = row /\ ~Updating THEN n ELSE 0)
  BY <1>1 DEF Count, TypeInv, PerRow
<1> QED
  BY <1>5, <1>6, <1>7, <1>8, <1>9, <1>10

(* What a second addition changes.                                         *)
LEMMA CountTotalChanges ==
  ASSUME TypeInv, NEW s \in Stats, CountTotal(s)
  PROVE  /\ call[s] \in [row : Rows, amount : 1 .. MaxAmount]
         /\ call' = [call EXCEPT ![s] = NoCall]
         /\ call' \in [Stats -> [row : Rows, amount : 1 .. MaxAmount] \union {NoCall}]
         /\ total' \in Counter
         /\ \A q \in Stats, r \in Rows :
              total'[q][r] = total[q][r] + (IF q = s /\ r = call[s].row THEN call[s].amount ELSE 0)
         /\ UNCHANGED <<interval, counted, outside, connections, pc, at, last, sum, shown>>
<1> DEFINE row == call[s].row
           n == call[s].amount
<1>1. call[s] \in [row : Rows, amount : 1 .. MaxAmount]
  BY DEF CountTotal, TypeInv
<1>2. n \in Nat /\ row \in Rows /\ total[s] \in PerRow /\ total[s][row] \in Nat
  BY <1>1, Numbers DEF TypeInv, Counter, PerRow
<1>3. /\ total' = [total EXCEPT ![s][row] = @ + n] /\ call' = [call EXCEPT ![s] = NoCall]
      /\ UNCHANGED <<interval, counted, outside, connections, pc, at, last, sum, shown>>
  BY DEF CountTotal, update
<1> HIDE DEF row, n
<1>4. [total[s] EXCEPT ![row] = @ + n] \in PerRow
  BY <1>2 DEF PerRow
<1>5. total' = [total EXCEPT ![s] = [total[s] EXCEPT ![row] = @ + n]]
  BY <1>3
<1>6. total' \in Counter
  BY <1>4, <1>5 DEF TypeInv, Counter, PerRow
<1>7. \A q \in Stats, r \in Rows :
        total'[q][r] = total[q][r] + (IF q = s /\ r = row THEN n ELSE 0)
  BY <1>2, <1>5 DEF TypeInv, Counter, PerRow
<1>8. call' \in [Stats -> [row : Rows, amount : 1 .. MaxAmount] \union {NoCall}]
  BY <1>3 DEF TypeInv
<1> QED
  BY <1>1, <1>3, <1>6, <1>7, <1>8 DEF row, n

(* A load adds a counter to one of the two sums.                           *)
LoadOf(s, row, b) ==
  /\ at = 6 * s + 2 * Place(row) + b /\ at' = at + 1
  /\ pc = "load" /\ at < Loads
  /\ pc' = IF at' = Loads THEN "print" ELSE "load"
  /\ last' \in PerRow /\ sum' \in PerRow
  /\ \A r \in Rows :
       /\ last'[r] = last[r] + (IF r = row /\ b = 0 THEN interval[s][row] ELSE 0)
       /\ sum'[r] = sum[r] + (IF r = row /\ b = 1 THEN total[s][row] ELSE 0)
  /\ UNCHANGED <<interval, total, call, counted, outside, connections, shown, moments>>

LEMMA LoadChanges ==
  ASSUME TypeInv, AtInv, Load
  PROVE  \E s \in Stats, row \in Rows, b \in {0, 1} : LoadOf(s, row, b)
<1>1. at \in Nat /\ pc = "load" /\ at < Loads
  BY DEF TypeInv, AtInv, Load
<1>2. PICK s \in Stats, row \in Rows, b \in {0, 1} :
        /\ at = 6 * s + 2 * Place(row) + b
        /\ s = at \div (2 * Len(Row)) /\ row = Row[((at \div 2) % Len(Row)) + 1]
        /\ b = at % 2
  BY <1>1, LoadPlace
<1>3. interval[s][row] \in Nat /\ total[s][row] \in Nat
  BY DEF TypeInv, Counter
<1>4. /\ IF b = 0 THEN last' = [last EXCEPT ![row] = @ + interval[s][row]] /\ sum' = sum
                   ELSE sum' = [sum EXCEPT ![row] = @ + total[s][row]] /\ last' = last
      /\ at' = at + 1 /\ pc' = IF at' = Loads THEN "print" ELSE "load"
      /\ UNCHANGED <<interval, total, call, counted, outside, connections, shown, moments>>
  BY <1>2 DEF Load, IntervalFirst, Total, counters
<1>5. /\ last' \in PerRow /\ sum' \in PerRow
      /\ \A r \in Rows :
           /\ last'[r] = last[r] + (IF r = row /\ b = 0 THEN interval[s][row] ELSE 0)
           /\ sum'[r] = sum[r] + (IF r = row /\ b = 1 THEN total[s][row] ELSE 0)
  BY <1>3, <1>4 DEF TypeInv, PerRow
<1>6. LoadOf(s, row, b)
  BY <1>1, <1>2, <1>4, <1>5 DEF LoadOf
<1> QED
  BY <1>6

(* A store resets a counter of the interval.                               *)
ResetOf(s, row) ==
  /\ at = 3 * s + Place(row) /\ pc = "reset" /\ at < Stores
  /\ \/ at + 1 < Stores /\ at' = at + 1 /\ pc' = "reset"
     \/ at + 1 = Stores /\ at' = 0 /\ pc' = "loop"
  /\ interval' \in Counter
  /\ \A q \in Stats, r \in Rows :
       interval'[q][r] = IF q = s /\ r = row THEN 0 ELSE interval[q][r]
  /\ UNCHANGED <<total, call, counted, outside, connections, last, sum, shown, moments>>

LEMMA ResetChanges ==
  ASSUME TypeInv, AtInv, Reset
  PROVE  \E s \in Stats, row \in Rows : ResetOf(s, row)
<1>1. at \in Nat /\ pc = "reset" /\ at < Stores
  BY DEF TypeInv, AtInv, Reset
<1>2. PICK s \in Stats, row \in Rows :
        at = 3 * s + Place(row) /\ s = at \div Len(Row) /\ row = Row[(at % Len(Row)) + 1]
  BY <1>1, StorePlace
<1>3. /\ interval' = [interval EXCEPT ![s][row] = AfterStore(row, @)]
      /\ at' = (at + 1) % Stores /\ pc' = IF at' = 0 THEN "loop" ELSE "reset"
      /\ UNCHANGED <<total, call, counted, outside, connections, last, sum, shown, moments>>
  BY <1>2 DEF Reset
<1>4. /\ at + 1 < Stores => (at + 1) % Stores = at + 1
      /\ at + 1 = Stores => (at + 1) % Stores = 0
      /\ at + 1 < Stores \/ at + 1 = Stores
  <2>1. Stores \in Nat \ {0}
    BY Numbers
  <2> QED
    BY <1>1, <2>1
<1>5. \/ at + 1 < Stores /\ at' = at + 1 /\ pc' = "reset"
      \/ at + 1 = Stores /\ at' = 0 /\ pc' = "loop"
  BY <1>1, <1>3, <1>4
<1>6. interval' = [interval EXCEPT ![s] = [interval[s] EXCEPT ![row] = 0]]
  BY <1>3 DEF AfterStore
<1>7. [interval[s] EXCEPT ![row] = 0] \in PerRow
  BY DEF TypeInv, Counter, PerRow
<1>8. interval' \in Counter
  BY <1>6, <1>7 DEF TypeInv, Counter, PerRow
<1>9. \A q \in Stats, r \in Rows :
        interval'[q][r] = IF q = s /\ r = row THEN 0 ELSE interval[q][r]
  BY <1>6 DEF TypeInv, Counter, PerRow
<1> QED
  BY <1>1, <1>2, <1>3, <1>5, <1>8, <1>9 DEF ResetOf

(* The steps that change no counter.                                       *)
Still == (\E t \in Thread : AddConnection(t)) \/ Stop \/ Update \/ PrintStats

LEMMA PrintChanges ==
  ASSUME TypeInv, PrintStats
  PROVE  /\ shown' \in PerRow /\ \A r \in Rows : shown'[r] = shown[r] + last[r]
         /\ last' = Zero /\ sum' = Zero /\ Zero \in PerRow
         /\ pc = "print" /\ pc' = "reset" /\ at' = 0
         /\ UNCHANGED <<interval, total, call, counted, outside, connections>>
<1>1. shown' = [r \in Rows |-> shown[r] + last[r]] /\ shown \in PerRow /\ last \in PerRow
  BY DEF PrintStats, TypeInv
<1>2. shown' \in PerRow /\ \A r \in Rows : shown'[r] = shown[r] + last[r]
  BY <1>1 DEF PerRow
<1>3. Zero \in PerRow
  BY DEF Zero, PerRow
<1> QED
  BY <1>2, <1>3 DEF PrintStats, counters

LEMMA ControlStep ==
  ASSUME Control, [Next]_vars
  PROVE  Control'
<1>0. TypeInv /\ AtInv /\ CallsInv
  BY DEF Control
<1>1. ASSUME NEW t \in Thread, NEW n \in 1 .. MaxAmount, Traffic(t, n)
      PROVE  Control'
  <2>1. t \in Stats /\ t # 0 /\ "traffic" \in Rows
    BY Numbers, RowsAre
  <2>2. Count(t, "traffic", n) /\ UNCHANGED <<connections, pc, at, last, sum, shown>>
    BY <1>1 DEF Traffic, update
  <2> QED
    BY <1>0, <2>1, <2>2, CountChanges, Numbers DEF Control, TypeInv, AtInv, CallsInv
<1>2. ASSUME NEW t \in Thread, Lose(t)
      PROVE  Control'
  <2>1. t \in Stats /\ t # 0 /\ "disconnects" \in Rows /\ 1 \in 1 .. MaxAmount
    BY Numbers, RowsAre
  <2>2. Count(t, "disconnects", 1) /\ UNCHANGED <<pc, at, last, sum, shown>>
    BY <1>2 DEF Lose, update
  <2>3. connections' \in [Thread -> Nat]
    BY <1>0, <1>2 DEF Lose, TypeInv
  <2> QED
    BY <1>0, <2>1, <2>2, <2>3, CountChanges, Numbers DEF Control, TypeInv, AtInv, CallsInv
<1>3. ASSUME NEW s \in Stats, CountTotal(s)
      PROVE  Control'
  <2>1. TypeInv'
    BY <1>0, <1>3, CountTotalChanges DEF TypeInv
  <2>2. AtInv'
    BY <1>0, <1>3, CountTotalChanges DEF AtInv
  <2>3. call' = [call EXCEPT ![s] = NoCall]
    BY <1>0, <1>3, CountTotalChanges
  <2>4. \A q \in Stats : call'[q] = IF q = s THEN NoCall ELSE call[q]
    BY <1>0, <2>3 DEF TypeInv
  <2>5. total'[0]["disconnects"] = 0
    <3>1. total'[0]["disconnects"] =
            total[0]["disconnects"]
              + (IF 0 = s /\ "disconnects" = call[s].row THEN call[s].amount ELSE 0)
      BY <1>0, <1>3, CountTotalChanges, Numbers, RowsAre
    <3>2. 0 = s => call[s].row # "disconnects"
      BY <1>0 DEF CallsInv, NoCall
    <3> QED
      BY <1>0, <3>1, <3>2 DEF CallsInv
  <2>6. ASSUME NEW t \in Thread PROVE total'[t]["connections"] = 0
    <3>1. total'[t]["connections"] =
            total[t]["connections"]
              + (IF t = s /\ "connections" = call[s].row THEN call[s].amount ELSE 0)
      BY <1>0, <1>3, CountTotalChanges, Numbers, RowsAre
    <3> QED
      BY <1>0, <3>1 DEF CallsInv
  <2>7. CallsInv'
    <3>1. pc' = pc
      BY <1>0, <1>3, CountTotalChanges
    <3> QED
      BY <1>0, <2>4, <2>5, <2>6, <3>1, Numbers DEF CallsInv, NoCall
  <2> QED
    BY <2>1, <2>2, <2>7 DEF Control
<1>4. CASE Accept
  <2>1. 0 \in Stats /\ "connections" \in Rows /\ 1 \in 1 .. MaxAmount
    BY Numbers, RowsAre
  <2>2. /\ Count(0, "connections", 1) /\ UNCHANGED <<connections, at, last, sum, shown>>
        /\ pc = "loop" /\ pc' = "accepted"
    BY <1>4 DEF Accept, update
  <2>3. TypeInv' /\ AtInv'
    BY <1>0, <2>1, <2>2, CountChanges DEF TypeInv, AtInv
  <2>4. call' = [call EXCEPT ![0] = [row |-> "connections", amount |-> 1]] /\ total' = total
    BY <1>0, <2>1, <2>2, CountChanges
  <2>5. \A q \in Stats :
          call'[q] = IF q = 0 THEN [row |-> "connections", amount |-> 1] ELSE call[q]
    BY <1>0, <2>4 DEF TypeInv
  <2>6. CallsInv'
    BY <1>0, <2>1, <2>2, <2>4, <2>5, Numbers DEF CallsInv
  <2> QED
    BY <2>3, <2>6 DEF Control
<1>5. CASE Still
  <2>1. CASE \E t \in Thread : AddConnection(t)
    BY <1>0, <2>1 DEF AddConnection, counters, update, Control, TypeInv, AtInv, CallsInv
  <2>2. CASE Stop
    BY <1>0, <2>2 DEF Stop, counters, update, Control, TypeInv, AtInv, CallsInv
  <2>3. CASE Update
    <3>1. 0 < Loads
      BY Numbers
    <3>2. call[0] = NoCall
      BY <1>0, <2>3 DEF Update, CallsInv
    <3> QED
      BY <1>0, <2>3, <3>1, <3>2 DEF Update, counters, update, Control, TypeInv, AtInv, CallsInv
  <2>4. CASE PrintStats
    <3>1. 0 < Stores
      BY Numbers
    <3> QED
      BY <1>0, <2>4, <3>1, PrintChanges DEF Control, TypeInv, AtInv, CallsInv
  <2> QED
    BY <1>5, <2>1, <2>2, <2>3, <2>4 DEF Still
<1>6. CASE Load
  <2>1. PICK s \in Stats, row \in Rows, b \in {0, 1} : LoadOf(s, row, b)
    BY <1>0, <1>6, LoadChanges
  <2>2. Loads \in Nat
    BY Numbers
  <2> QED
    BY <1>0, <2>1, <2>2 DEF LoadOf, Control, TypeInv, AtInv, CallsInv
<1>7. CASE Reset
  <2>1. PICK s \in Stats, row \in Rows : ResetOf(s, row)
    BY <1>0, <1>7, ResetChanges
  <2> QED
    BY <1>0, <2>1 DEF ResetOf, Control, TypeInv, AtInv, CallsInv
<1>8. CASE UNCHANGED vars
  BY <1>0, <1>8 DEF vars, counters, update, Control, TypeInv, AtInv, CallsInv
<1> QED
  BY <1>1, <1>2, <1>3, <1>4, <1>5, <1>6, <1>7, <1>8 DEF Next, Still

-----------------------------------------------------------------------------
(* The sums of the invariant *)

Calls == [Stats -> [row : Rows, amount : 1 .. MaxAmount] \union {NoCall}]

LEMMA CounterCounts ==
  ASSUME NEW c \in Counter, NEW row \in Rows, NEW S \in SUBSET Stats
  PROVE  Counts([s \in Stats |-> c[s][row]], S)
<1>1. IsFiniteSet(S)
  BY Numbers, FS_Subset
<1>2. \A s \in S : c[s][row] \in Nat
  BY DEF Counter
<1> QED
  BY <1>1, <1>2 DEF Counts

LEMMA EverCounts ==
  ASSUME NEW c \in Counter, NEW cl \in Calls, NEW row \in Rows, NEW S \in SUBSET Stats
  PROVE  Counts([s \in Stats |-> c[s][row] + (IF cl[s].row = row THEN cl[s].amount ELSE 0)], S)
<1>1. IsFiniteSet(S)
  BY Numbers, FS_Subset
<1>2. ASSUME NEW s \in S
      PROVE  c[s][row] + (IF cl[s].row = row THEN cl[s].amount ELSE 0) \in Nat
  <2>1. c[s][row] \in Nat
    BY DEF Counter
  <2>2. NoCall.row # row
    BY RowsAre DEF NoCall
  <2>3. cl[s].row = row => cl[s].amount \in Nat
    BY <2>2, Numbers DEF Calls
  <2> QED
    BY <2>1, <2>3
<1> QED
  BY <1>1, <1>2 DEF Counts

(* They are sums of numbers, before a step and after it.                   *)
LEMMA SumsBefore ==
  ASSUME TypeInv, NEW row \in Rows, NEW S \in SUBSET Stats
  PROVE  /\ Counts(Interval(row), S) /\ Sum(Interval(row), S) \in Nat
         /\ Counts(Ever(row), S) /\ Sum(Ever(row), S) \in Nat
<1>1. Counts(Interval(row), S)
  BY CounterCounts DEF TypeInv, Interval
<1>2. Counts(Ever(row), S)
  BY EverCounts DEF TypeInv, Ever, Calls
<1> QED
  BY <1>1, <1>2, SumType

LEMMA SumsAfter ==
  ASSUME TypeInv', NEW row \in Rows, NEW S \in SUBSET Stats
  PROVE  /\ Counts(Interval(row)', S) /\ Sum(Interval(row)', S) \in Nat
         /\ Counts(Ever(row)', S) /\ Sum(Ever(row)', S) \in Nat
<1>1. Counts(Interval(row)', S)
  BY CounterCounts DEF TypeInv, Interval
<1>2. Counts(Ever(row)', S)
  BY EverCounts DEF TypeInv, Ever, Calls
<1> QED
  BY <1>1, <1>2, SumType

(* A first addition adds to each sum over its thread.                      *)
LEMMA CountSums ==
  ASSUME TypeInv, TypeInv', NEW s \in Stats, NEW row \in Rows, NEW n \in 1 .. MaxAmount,
         Count(s, row, n), NEW r \in Rows, NEW S \in SUBSET Stats
  PROVE  /\ Sum(Interval(r)', S) = Sum(Interval(r), S) + (IF r = row /\ s \in S THEN n ELSE 0)
         /\ Sum(Ever(r)', S) = Sum(Ever(r), S) + (IF r = row /\ s \in S THEN n ELSE 0)
<1> DEFINE d(q) == IF q = s /\ r = row THEN n ELSE 0
<1>0. n \in Nat
  BY Numbers
<1>1. \A q \in Stats :
        /\ Interval(r)'[q] = Interval(r)[q] + d(q) /\ Interval(r)[q] \in Nat
  BY CountChanges DEF Interval, TypeInv, Counter
<1>2. ASSUME NEW q \in Stats
      PROVE  Ever(r)'[q] = Ever(r)[q] + d(q) /\ Ever(r)[q] \in Nat
  <2>1. call'[q] = IF q = s THEN [row |-> row, amount |-> n] ELSE call[q]
    BY CountChanges DEF TypeInv
  <2>2. call[s] = NoCall /\ total' = total /\ total[q][r] \in Nat
    BY CountChanges DEF TypeInv, Counter
  <2>3. NoCall.row # r
    BY RowsAre DEF NoCall
  <2>4. Ever(r)[q] \in Nat
    BY SumsBefore DEF Counts
  <2>5. /\ Ever(r)[q] = total[q][r] + (IF call[q].row = r THEN call[q].amount ELSE 0)
        /\ Ever(r)'[q] = total'[q][r] + (IF call'[q].row = r THEN call'[q].amount ELSE 0)
    BY DEF Ever
  <2>6. CASE q = s
    BY <1>0, <2>1, <2>2, <2>3, <2>5, <2>6
  <2>7. CASE q # s
    BY <2>1, <2>2, <2>4, <2>5, <2>7
  <2> QED
    BY <2>4, <2>6, <2>7
<1>3. /\ Counts(Interval(r), S) /\ Counts(Interval(r)', S)
      /\ Counts(Ever(r), S) /\ Counts(Ever(r)', S)
      /\ Sum(Interval(r), S) \in Nat /\ Sum(Ever(r), S) \in Nat
  BY SumsBefore, SumsAfter
<1>4. CASE r = row /\ s \in S
  <2>1. \A q \in S \ {s} : Interval(r)[q] = Interval(r)'[q] /\ Ever(r)[q] = Ever(r)'[q]
    BY <1>1, <1>2
  <2>2. Interval(r)'[s] = Interval(r)[s] + n /\ Ever(r)'[s] = Ever(r)[s] + n
    BY <1>1, <1>2, <1>4
  <2>3. /\ Sum(Interval(r), S) + Interval(r)'[s] = Sum(Interval(r)', S) + Interval(r)[s]
        /\ Sum(Interval(r)', S) \in Nat /\ Interval(r)[s] \in Nat
    BY <1>3, <1>4, <2>1, SumStep
  <2>4. /\ Sum(Ever(r), S) + Ever(r)'[s] = Sum(Ever(r)', S) + Ever(r)[s]
        /\ Sum(Ever(r)', S) \in Nat /\ Ever(r)[s] \in Nat
    BY SMTT(20), <1>3, <1>4, <2>1, SumStep
  <2> QED
    BY <1>0, <1>3, <1>4, <2>2, <2>3, <2>4
<1>5. CASE ~(r = row /\ s \in S)
  <2>1. \A q \in S : Interval(r)'[q] = Interval(r)[q] /\ Ever(r)'[q] = Ever(r)[q]
    BY <1>1, <1>2, <1>5
  <2>2. Sum(Interval(r)', S) = Sum(Interval(r), S) /\ Sum(Ever(r)', S) = Sum(Ever(r), S)
    BY <2>1, SumSame
  <2> QED
    BY <1>3, <1>5, <2>2
<1> QED
  BY <1>4, <1>5

(* A second addition moves the amount from the call to the total.          *)
LEMMA CountTotalSums ==
  ASSUME TypeInv, TypeInv', NEW s \in Stats, CountTotal(s), NEW r \in Rows, NEW S \in SUBSET Stats
  PROVE  Sum(Interval(r)', S) = Sum(Interval(r), S) /\ Sum(Ever(r)', S) = Sum(Ever(r), S)
<1>1. Interval(r)' = Interval(r)
  BY CountTotalChanges DEF Interval
<1>2. ASSUME NEW q \in S
      PROVE  Ever(r)'[q] = Ever(r)[q]
  <2>1. call'[q] = IF q = s THEN NoCall ELSE call[q]
    BY CountTotalChanges DEF TypeInv
  <2>2. /\ total'[q][r] = total[q][r] + (IF q = s /\ r = call[s].row THEN call[s].amount ELSE 0)
        /\ call[s] \in [row : Rows, amount : 1 .. MaxAmount] /\ total[q][r] \in Nat
    BY CountTotalChanges DEF TypeInv, Counter
  <2>3. NoCall.row # r
    BY RowsAre DEF NoCall
  <2>4. /\ Ever(r)[q] = total[q][r] + (IF call[q].row = r THEN call[q].amount ELSE 0)
        /\ Ever(r)'[q] = total'[q][r] + (IF call'[q].row = r THEN call'[q].amount ELSE 0)
    BY DEF Ever
  <2>5. CASE q = s
    BY <2>1, <2>2, <2>3, <2>4, <2>5, Numbers
  <2>6. CASE q # s
    BY <2>1, <2>2, <2>4, <2>6
  <2> QED
    BY <2>5, <2>6
<1> QED
  BY <1>1, <1>2, SumSame

(* At the start everything is left, at the end nothing.                    *)
LEMMA AllLeft ==
  ASSUME at = 0, NEW row \in Rows
  PROVE  IntervalsLeft(row) = Stats /\ TotalsLeft(row) = Stats /\ ResetDone(row) = {}
<1>1. Place(row) \in 0 .. 2 /\ Stats \subseteq Nat
  BY RowsAre, Numbers
<1>2. \A s \in Stats :
        /\ 0 <= 6 * s + 2 * Place(row) /\ 0 <= 6 * s + 2 * Place(row) + 1
        /\ ~(0 > 3 * s + Place(row))
  BY <1>1
<1> QED
  BY <1>2 DEF IntervalsLeft, TotalsLeft, ResetDone

LEMMA NoneLeft ==
  ASSUME at = Loads, NEW row \in Rows
  PROVE  IntervalsLeft(row) = {} /\ TotalsLeft(row) = {}
<1>1. Place(row) \in 0 .. 2 /\ Loads = 6 * (Threads + 1) /\ Threads \in Nat
  BY RowsAre, Numbers
<1>2. \A s \in Stats : s \in Nat /\ s <= Threads
  BY <1>1 DEF Stats
<1>3. \A s \in Stats :
        ~(Loads <= 6 * s + 2 * Place(row)) /\ ~(Loads <= 6 * s + 2 * Place(row) + 1)
  BY <1>1, <1>2
<1> QED
  BY <1>3 DEF IntervalsLeft, TotalsLeft

(* The threads that are late in a row are only ever more.                  *)
LEMMA LateMore ==
  ASSUME NEW S, NEW T, IsFiniteSet(T), S \subseteq T
  PROVE  /\ Cardinality(S) \in Nat /\ Cardinality(T) \in Nat
         /\ MaxAmount * Cardinality(S) <= MaxAmount * Cardinality(T)
         /\ MaxAmount * Cardinality(S) \in Nat
<1>1. Cardinality(S) \in Nat /\ Cardinality(T) \in Nat /\ Cardinality(S) <= Cardinality(T)
  BY FS_Subset, FS_CardinalityType
<1>2. \A m, a, b \in Nat : a <= b => m * a <= m * b /\ m * a \in Nat
  OBVIOUS
<1> QED
  BY <1>1, <1>2, Numbers

-----------------------------------------------------------------------------
(* The books of each row balance                                           *)

Books == CountedInv /\ NoneMissing /\ NoneTwice /\ TotalsKeepUp

LEMMA BooksInit == Init => Books
<1> SUFFICES ASSUME Init PROVE Books
  OBVIOUS
<1>1. TypeInv /\ at = 0 /\ pc = "loop"
  BY ControlInit DEF Control, Init
<1>2. ASSUME NEW row \in Rows
      PROVE  /\ Sum(Interval(row), Stats) = 0 /\ Sum(Ever(row), Stats) = 0
             /\ IntervalsLeft(row) = Stats /\ TotalsLeft(row) = Stats
             /\ counted[row] = 0 /\ outside[row] = 0 /\ shown[row] = 0
             /\ last[row] = 0 /\ sum[row] = 0
  <2>1. \A s \in Stats : Interval(row)[s] = 0
    BY DEF Init, Zero, Interval
  <2>2. NoCall.row # row
    BY RowsAre DEF NoCall
  <2>3. \A s \in Stats : Ever(row)[s] = 0
    BY <2>2 DEF Init, Zero, Ever
  <2>4. Sum(Interval(row), Stats) = 0 /\ Sum(Ever(row), Stats) = 0
    BY <2>1, <2>3, SumZero
  <2> QED
    BY <1>1, <2>4, AllLeft DEF Init, Zero
<1>4. \A row \in Rows : MaxAmount * Cardinality(LateThreads(row)) \in Nat
  <2>1. \A row \in Rows : LateThreads(row) \subseteq Thread
    BY DEF LateThreads, CountingIn
  <2> QED
    BY <2>1, LateMore, Numbers
<1>5. CountedInv
  BY <1>2 DEF CountedInv
<1>6. NoneMissing
  BY <1>1, <1>2 DEF NoneMissing
<1>7. NoneTwice
  BY <1>1, <1>2 DEF NoneTwice
<1>8. TotalsKeepUp
  <2>1. \A row \in Rows :
          /\ shown[row] + last[row] + Sum(Interval(row), IntervalsLeft(row)) = 0
          /\ sum[row] + Sum(Ever(row), TotalsLeft(row)) = 0
    BY <1>2
  <2> QED
    BY <1>4, <2>1 DEF TotalsKeepUp
<1> QED
  BY <1>5, <1>6, <1>7, <1>8 DEF Books

(* The numbers of a row.                                                   *)
LEMMA RowNumbers ==
  ASSUME TypeInv, NEW r \in Rows
  PROVE  /\ counted[r] \in Nat /\ outside[r] \in Nat /\ shown[r] \in Nat
         /\ last[r] \in Nat /\ sum[r] \in Nat
         /\ IntervalsLeft(r) \in SUBSET Stats /\ TotalsLeft(r) \in SUBSET Stats
         /\ ResetDone(r) \in SUBSET Stats /\ Stats \in SUBSET Stats
         /\ IntervalsLeft(r) \subseteq TotalsLeft(r)
         /\ LateThreads(r) \subseteq Thread /\ IsFiniteSet(LateThreads(r))
         /\ MaxAmount * Cardinality(LateThreads(r)) \in Nat
<1>1. LateThreads(r) \subseteq Thread /\ IsFiniteSet(LateThreads(r))
  BY Numbers, FS_Subset DEF LateThreads, CountingIn
<1>2. MaxAmount * Cardinality(LateThreads(r)) \in Nat
  BY <1>1, LateMore
<1>3. IntervalsLeft(r) \subseteq TotalsLeft(r)
  <2>1. at \in Nat /\ Place(r) \in 0 .. 2
    BY RowsAre DEF TypeInv
  <2>2. \A s \in Stats : at <= 6 * s + 2 * Place(r) => at <= 6 * s + 2 * Place(r) + 1
    BY <2>1, Numbers
  <2> QED
    BY <2>2 DEF IntervalsLeft, TotalsLeft
<1> QED
  BY <1>1, <1>2, <1>3 DEF TypeInv, PerRow, IntervalsLeft, TotalsLeft, ResetDone

(* Only the calls and totals of a thread say whether it is late.           *)
LEMMA LateThreadsStay ==
  ASSUME TypeInv, TypeInv', NEW r \in Rows, TotalsLeft(r)' = TotalsLeft(r),
         \A t \in Thread : t \in CountingIn(r) => t \in CountingIn(r)'
  PROVE  MaxAmount * Cardinality(LateThreads(r)) <= MaxAmount * Cardinality(LateThreads(r)')
<1>1. LateThreads(r) \subseteq LateThreads(r)' /\ LateThreads(r)' \subseteq Thread
  BY DEF LateThreads, CountingIn
<1>2. IsFiniteSet(LateThreads(r)')
  BY <1>1, Numbers, FS_Subset
<1> QED
  BY <1>1, <1>2, LateMore

(* A first addition, of a connection thread or, outside of update(), of    *)
(* the main thread.                                                        *)
LEMMA BooksCount ==
  ASSUME Control, Control', Books, NEW s \in Stats, NEW row \in Rows, NEW n \in 1 .. MaxAmount,
         Count(s, row, n), UNCHANGED <<at, last, sum, shown>>,
         pc' = pc \/ (pc = "loop" /\ pc' = "accepted")
  PROVE  Books'
<1>1. TypeInv /\ TypeInv' /\ AtInv /\ n \in Nat /\ (pc = "reset" <=> pc' = "reset")
  BY Numbers DEF Control
<1>2. SUFFICES ASSUME NEW r \in Rows
      PROVE  /\ counted'[r] = Sum(Ever(r)', Stats)
             /\ outside'[r] <= IF pc = "reset" THEN shown[r]
                               ELSE shown[r] + last[r] + Sum(Interval(r)', IntervalsLeft(r))
             /\ IF pc = "reset" THEN shown[r] + Sum(Interval(r)', ResetDone(r)) <= counted'[r]
                ELSE /\ shown[r] + Sum(Interval(r)', Stats) <= counted'[r]
                     /\ last[r] + Sum(Interval(r)', IntervalsLeft(r)) <= Sum(Interval(r)', Stats)
             /\ pc # "reset" =>
                  shown[r] + last[r] + Sum(Interval(r)', IntervalsLeft(r)) <=
                    sum[r] + Sum(Ever(r)', TotalsLeft(r))
                      + MaxAmount * Cardinality(LateThreads(r)')
  <2>1. \A r \in Rows : /\ IntervalsLeft(r)' = IntervalsLeft(r) /\ TotalsLeft(r)' = TotalsLeft(r)
                        /\ ResetDone(r)' = ResetDone(r)
    BY DEF IntervalsLeft, TotalsLeft, ResetDone
  <2>2. CountedInv'
    BY <1>2 DEF CountedInv
  <2>3. NoneMissing'
    BY <1>1, <1>2, <2>1 DEF NoneMissing
  <2>4. NoneTwice'
    BY <1>1, <1>2, <2>1 DEF NoneTwice
  <2>5. TotalsKeepUp'
    BY <1>1, <1>2, <2>1 DEF TotalsKeepUp
  <2> QED
    BY <2>2, <2>3, <2>4, <2>5 DEF Books
<1> DEFINE d(S) == IF r = row /\ s \in S THEN n ELSE 0
<1>3. \A S \in SUBSET Stats :
        /\ Sum(Interval(r)', S) = Sum(Interval(r), S) + d(S)
        /\ Sum(Ever(r)', S) = Sum(Ever(r), S) + d(S)
        /\ Sum(Interval(r), S) \in Nat /\ Sum(Ever(r), S) \in Nat
  BY <1>1, CountSums, SumsBefore
<1>4. /\ counted[r] \in Nat /\ outside[r] \in Nat /\ shown[r] \in Nat
      /\ last[r] \in Nat /\ sum[r] \in Nat
      /\ IntervalsLeft(r) \in SUBSET Stats /\ TotalsLeft(r) \in SUBSET Stats
      /\ ResetDone(r) \in SUBSET Stats /\ Stats \in SUBSET Stats
      /\ IntervalsLeft(r) \subseteq TotalsLeft(r)
      /\ MaxAmount * Cardinality(LateThreads(r)) \in Nat
  BY <1>1, RowNumbers
<1>5. /\ counted'[r] = counted[r] + d(Stats)
      /\ outside'[r] = outside[r] + (IF r = row /\ ~Updating THEN n ELSE 0)
  BY <1>1, CountChanges
<1>6. /\ d(IntervalsLeft(r)) \in Nat /\ d(IntervalsLeft(r)) <= d(TotalsLeft(r))
      /\ d(TotalsLeft(r)) <= d(Stats) /\ d(ResetDone(r)) <= d(Stats) /\ d(ResetDone(r)) \in Nat
      /\ d(TotalsLeft(r)) \in Nat /\ d(Stats) \in Nat
  BY <1>1, <1>4
<1>7. /\ counted[r] = Sum(Ever(r), Stats)
      /\ outside[r] <= IF pc = "reset" THEN shown[r]
                       ELSE shown[r] + last[r] + Sum(Interval(r), IntervalsLeft(r))
      /\ IF pc = "reset" THEN shown[r] + Sum(Interval(r), ResetDone(r)) <= counted[r]
         ELSE /\ shown[r] + Sum(Interval(r), Stats) <= counted[r]
              /\ last[r] + Sum(Interval(r), IntervalsLeft(r)) <= Sum(Interval(r), Stats)
      /\ pc # "reset" =>
           shown[r] + last[r] + Sum(Interval(r), IntervalsLeft(r)) <=
             sum[r] + Sum(Ever(r), TotalsLeft(r)) + MaxAmount * Cardinality(LateThreads(r))
  BY DEF Books, CountedInv, NoneMissing, NoneTwice, TotalsKeepUp
<1>8. ~Updating => IntervalsLeft(r) = Stats
  <2>1. ~Updating => at = 0
    BY <1>1 DEF Updating, AtInv, TypeInv
  <2> QED
    BY <2>1, AllLeft
<1>9. MaxAmount * Cardinality(LateThreads(r)) <= MaxAmount * Cardinality(LateThreads(r)')
  <2>1. \A t \in Thread : t \in CountingIn(r) => t \in CountingIn(r)'
    <3>1. NoCall.row # r /\ call[s] = NoCall /\ total' = total
      BY <1>1, RowsAre, CountChanges DEF NoCall
    <3>2. \A t \in Thread : t # s => call'[t] = call[t]
      BY <1>1, CountChanges, Numbers DEF TypeInv
    <3> QED
      BY <3>1, <3>2 DEF CountingIn
  <2>2. TotalsLeft(r)' = TotalsLeft(r)
    BY DEF TotalsLeft
  <2> QED
    BY <1>1, <2>1, <2>2, LateThreadsStay
<1>10. MaxAmount * Cardinality(LateThreads(r)') \in Nat
  <2>1. LateThreads(r)' \subseteq Thread
    BY DEF LateThreads, CountingIn
  <2> QED
    BY <2>1, LateMore, Numbers
<1> HIDE DEF d
<1>11. counted'[r] = Sum(Ever(r)', Stats)
  BY <1>3, <1>4, <1>5, <1>7
<1>12. outside'[r] <= IF pc = "reset" THEN shown[r]
                      ELSE shown[r] + last[r] + Sum(Interval(r)', IntervalsLeft(r))
  <2>1. pc = "reset" => Updating
    BY DEF Updating
  <2>2. ~Updating => outside'[r] <= outside[r] + d(IntervalsLeft(r))
    BY <1>1, <1>4, <1>5, <1>6, <1>8 DEF d
  <2>3. Updating => outside'[r] = outside[r]
    BY <1>4, <1>5
  <2> QED
    BY <1>3, <1>4, <1>5, <1>6, <1>7, <2>1, <2>2, <2>3
<1>13. IF pc = "reset" THEN shown[r] + Sum(Interval(r)', ResetDone(r)) <= counted'[r]
       ELSE /\ shown[r] + Sum(Interval(r)', Stats) <= counted'[r]
            /\ last[r] + Sum(Interval(r)', IntervalsLeft(r)) <= Sum(Interval(r)', Stats)
  BY <1>3, <1>4, <1>5, <1>6, <1>7
<1>14. pc # "reset" =>
         shown[r] + last[r] + Sum(Interval(r)', IntervalsLeft(r)) <=
           sum[r] + Sum(Ever(r)', TotalsLeft(r)) + MaxAmount * Cardinality(LateThreads(r)')
  BY <1>3, <1>4, <1>6, <1>7, <1>9, <1>10
<1> QED
  BY <1>11, <1>12, <1>13, <1>14

(* A second addition.                                                      *)
LEMMA BooksCountTotal ==
  ASSUME Control, Control', Books, NEW s \in Stats, CountTotal(s)
  PROVE  Books'
<1>1. TypeInv /\ TypeInv'
  BY DEF Control
<1>2. UNCHANGED <<interval, counted, outside, pc, at, last, sum, shown>>
  BY <1>1, CountTotalChanges
<1>3. \A r \in Rows : /\ IntervalsLeft(r)' = IntervalsLeft(r) /\ TotalsLeft(r)' = TotalsLeft(r)
                      /\ ResetDone(r)' = ResetDone(r)
  BY <1>2 DEF IntervalsLeft, TotalsLeft, ResetDone
<1>4. \A r \in Rows, S \in SUBSET Stats :
        Sum(Interval(r)', S) = Sum(Interval(r), S) /\ Sum(Ever(r)', S) = Sum(Ever(r), S)
  BY <1>1, CountTotalSums
<1>5. \A r \in Rows : /\ IntervalsLeft(r) \in SUBSET Stats /\ TotalsLeft(r) \in SUBSET Stats
                      /\ ResetDone(r) \in SUBSET Stats /\ Stats \in SUBSET Stats
  BY <1>1, RowNumbers
<1>6. CountedInv'
  BY <1>2, <1>4, <1>5 DEF Books, CountedInv
<1>7. NoneMissing'
  BY <1>2, <1>3, <1>4, <1>5 DEF Books, NoneMissing
<1>8. NoneTwice'
  BY <1>2, <1>3, <1>4, <1>5 DEF Books, NoneTwice
<1>9. TotalsKeepUp'
  <2> SUFFICES ASSUME pc # "reset", NEW r \in Rows
      PROVE  shown[r] + last[r] + Sum(Interval(r), IntervalsLeft(r)) <=
               sum[r] + Sum(Ever(r), TotalsLeft(r)) + MaxAmount * Cardinality(LateThreads(r)')
    BY <1>2, <1>3, <1>4, <1>5 DEF TotalsKeepUp
  <2>1. \A t \in Thread : t \in CountingIn(r) => t \in CountingIn(r)'
    <3> SUFFICES ASSUME NEW t \in Thread, t \in CountingIn(r)
        PROVE  t \in CountingIn(r)'
      OBVIOUS
    <3>1. /\ call[s] \in [row : Rows, amount : 1 .. MaxAmount]
          /\ call'[t] = IF t = s THEN NoCall ELSE call[t]
      BY <1>1, CountTotalChanges, Numbers DEF TypeInv
    <3>2. /\ total'[t][r] = total[t][r]
               + (IF t = s /\ r = call[s].row THEN call[s].amount ELSE 0)
          /\ total[t][r] \in Nat
      BY <1>1, CountTotalChanges, Numbers DEF TypeInv, Counter
    <3>3. t = s /\ call[t].row = r => total'[t][r] > 0
      BY <3>1, <3>2, Numbers
    <3>4. total[t][r] > 0 => total'[t][r] > 0
      BY <3>1, <3>2, Numbers
    <3> QED
      BY <3>1, <3>3, <3>4 DEF CountingIn
  <2>2. MaxAmount * Cardinality(LateThreads(r)) <= MaxAmount * Cardinality(LateThreads(r)')
    BY <1>1, <1>3, <2>1, LateThreadsStay
  <2>3. MaxAmount * Cardinality(LateThreads(r)') \in Nat
    <3>1. LateThreads(r)' \subseteq Thread
      BY DEF LateThreads, CountingIn
    <3> QED
      BY <3>1, LateMore, Numbers
  <2>4. shown[r] + last[r] + Sum(Interval(r), IntervalsLeft(r)) <=
          sum[r] + Sum(Ever(r), TotalsLeft(r)) + MaxAmount * Cardinality(LateThreads(r))
    BY DEF Books, TotalsKeepUp
  <2>5. /\ MaxAmount * Cardinality(LateThreads(r)) \in Nat /\ sum[r] \in Nat /\ shown[r] \in Nat
        /\ last[r] \in Nat /\ Sum(Ever(r), TotalsLeft(r)) \in Nat
        /\ Sum(Interval(r), IntervalsLeft(r)) \in Nat
    BY <1>1, <1>5, RowNumbers, SumsBefore
  <2> QED
    BY <2>2, <2>3, <2>4, <2>5
<1> QED
  BY <1>6, <1>7, <1>8, <1>9 DEF Books

(* The steps that change none of it.                                       *)
LEMMA BooksKept ==
  ASSUME Books, UNCHANGED <<interval, total, call, counted, outside, at, last, sum, shown>>,
         pc = pc' \/ (pc # "reset" /\ pc' # "reset")
  PROVE  Books'
<1>1. \A r \in Rows : /\ Interval(r)' = Interval(r) /\ Ever(r)' = Ever(r)
                      /\ IntervalsLeft(r)' = IntervalsLeft(r) /\ TotalsLeft(r)' = TotalsLeft(r)
                      /\ ResetDone(r)' = ResetDone(r) /\ LateThreads(r)' = LateThreads(r)
  BY DEF Interval, Ever, IntervalsLeft, TotalsLeft, ResetDone, LateThreads, CountingIn
<1>2. CountedInv'
  BY <1>1 DEF Books, CountedInv
<1>3. NoneMissing'
  BY <1>1 DEF Books, NoneMissing
<1>4. NoneTwice'
  BY <1>1 DEF Books, NoneTwice
<1>5. TotalsKeepUp'
  BY <1>1 DEF Books, TotalsKeepUp
<1> QED
  BY <1>2, <1>3, <1>4, <1>5 DEF Books

(* A load: what is left decreases by what is added to the sums.            *)
LEMMA LoadLeft ==
  ASSUME TypeInv, NEW s \in Stats, NEW row \in Rows, NEW b \in {0, 1}, LoadOf(s, row, b),
         NEW r \in Rows
  PROVE  /\ IntervalsLeft(r)' = IntervalsLeft(r) \ (IF r = row /\ b = 0 THEN {s} ELSE {})
         /\ TotalsLeft(r)' = TotalsLeft(r) \ (IF r = row /\ b = 1 THEN {s} ELSE {})
         /\ r = row /\ b = 0 => s \in IntervalsLeft(r)
         /\ r = row /\ b = 1 => s \in TotalsLeft(r)
<1> DEFINE i == Place(r)
           j == Place(row)
<1>1. /\ at \in Nat /\ i \in 0 .. 2 /\ j \in 0 .. 2 /\ s \in Nat
      /\ at = 6 * s + 2 * j + b /\ at' = at + 1
  BY RowsAre, Numbers DEF LoadOf, TypeInv
<1>2. r # row => i # j
  BY PlacesDiffer
<1> HIDE DEF i, j
<1>3. \A q \in Nat :
        6 * s + 2 * j + b + 1 <= 6 * q + 2 * i <=>
          6 * s + 2 * j + b <= 6 * q + 2 * i /\ ~(q = s /\ i = j /\ b = 0)
  BY <1>1
<1>4. \A q \in Nat :
        6 * s + 2 * j + b + 1 <= 6 * q + 2 * i + 1 <=>
          6 * s + 2 * j + b <= 6 * q + 2 * i + 1 /\ ~(q = s /\ i = j /\ b = 1)
  BY <1>1
<1>5. r = row <=> i = j
  BY <1>2 DEF i, j
<1>6. \A q \in Stats : at' <= 6 * q + 2 * i <=> at <= 6 * q + 2 * i /\ ~(q = s /\ r = row /\ b = 0)
  BY <1>1, <1>3, <1>5, Numbers
<1>7. \A q \in Stats :
        at' <= 6 * q + 2 * i + 1 <=> at <= 6 * q + 2 * i + 1 /\ ~(q = s /\ r = row /\ b = 1)
  BY <1>1, <1>4, <1>5, Numbers
<1>8. IntervalsLeft(r)' = IntervalsLeft(r) \ (IF r = row /\ b = 0 THEN {s} ELSE {})
  BY <1>6 DEF IntervalsLeft, i
<1>9. TotalsLeft(r)' = TotalsLeft(r) \ (IF r = row /\ b = 1 THEN {s} ELSE {})
  BY <1>7 DEF TotalsLeft, i
<1>10. /\ r = row /\ b = 0 => s \in IntervalsLeft(r)
       /\ r = row /\ b = 1 => s \in TotalsLeft(r)
  BY <1>1 DEF IntervalsLeft, TotalsLeft, j
<1> QED
  BY <1>8, <1>9, <1>10

LEMMA BooksLoad ==
  ASSUME Control, Control', Books, NEW s \in Stats, NEW row \in Rows, NEW b \in {0, 1},
         LoadOf(s, row, b)
  PROVE  Books'
<1>1. TypeInv /\ TypeInv' /\ CallsInv
  BY DEF Control
<1>2. /\ UNCHANGED <<interval, total, call, counted, outside, shown>>
      /\ pc = "load" /\ pc' \in {"load", "print"}
  BY DEF LoadOf
<1>3. \A r \in Rows : /\ Interval(r)' = Interval(r) /\ Ever(r)' = Ever(r)
                      /\ CountingIn(r)' = CountingIn(r)
  BY <1>2 DEF Interval, Ever, CountingIn
<1>4. ASSUME NEW r \in Rows
      PROVE  /\ last'[r] + Sum(Interval(r), IntervalsLeft(r)') =
                  last[r] + Sum(Interval(r), IntervalsLeft(r))
             /\ sum[r] + Sum(Ever(r), TotalsLeft(r)) + MaxAmount * Cardinality(LateThreads(r)) <=
                  sum'[r] + Sum(Ever(r), TotalsLeft(r)')
                    + MaxAmount * Cardinality(LateThreads(r)')
             /\ last'[r] \in Nat /\ last[r] \in Nat /\ shown[r] \in Nat
             /\ Sum(Interval(r), IntervalsLeft(r)) \in Nat
             /\ Sum(Interval(r), IntervalsLeft(r)') \in Nat
             /\ sum[r] \in Nat /\ sum'[r] \in Nat
             /\ Sum(Ever(r), TotalsLeft(r)) \in Nat /\ Sum(Ever(r), TotalsLeft(r)') \in Nat
             /\ MaxAmount * Cardinality(LateThreads(r)) \in Nat
             /\ MaxAmount * Cardinality(LateThreads(r)') \in Nat
  <2> DEFINE IL == IntervalsLeft(r)
             TL == TotalsLeft(r)
             late == LateThreads(r)
             lateNext == LateThreads(r)'
  <2>1. /\ last[r] \in Nat /\ sum[r] \in Nat /\ shown[r] \in Nat
        /\ IL \in SUBSET Stats /\ TL \in SUBSET Stats
        /\ IsFiniteSet(late) /\ MaxAmount * Cardinality(late) \in Nat
    BY <1>1, RowNumbers
  <2>2. /\ IntervalsLeft(r)' = IL \ (IF r = row /\ b = 0 THEN {s} ELSE {})
        /\ TotalsLeft(r)' = TL \ (IF r = row /\ b = 1 THEN {s} ELSE {})
        /\ r = row /\ b = 0 => s \in IL
        /\ r = row /\ b = 1 => s \in TL
    BY <1>1, LoadLeft
  <2>3. /\ last'[r] = last[r] + (IF r = row /\ b = 0 THEN interval[s][row] ELSE 0)
        /\ sum'[r] = sum[r] + (IF r = row /\ b = 1 THEN total[s][row] ELSE 0)
        /\ interval[s][row] \in Nat /\ total[s][row] \in Nat
    BY <1>1 DEF LoadOf, TypeInv, Counter
  <2>4. \A S \in SUBSET Stats : /\ Counts(Interval(r), S) /\ Sum(Interval(r), S) \in Nat
                                /\ Counts(Ever(r), S) /\ Sum(Ever(r), S) \in Nat
    BY <1>1, SumsBefore
  <2>5. IL \ {s} \in SUBSET Stats /\ TL \ {s} \in SUBSET Stats /\ IL \ {} = IL /\ TL \ {} = TL
    BY <2>1
  <2>6. lateNext \subseteq Thread /\ IsFiniteSet(lateNext)
    BY Numbers, FS_Subset DEF LateThreads, CountingIn
  <2>7. MaxAmount * Cardinality(lateNext) \in Nat
    BY <2>6, LateMore
  <2>8. late \subseteq lateNext
    BY <1>3, <2>2 DEF LateThreads
  <2>9. MaxAmount * Cardinality(late) <= MaxAmount * Cardinality(lateNext)
    BY <2>6, <2>8, LateMore
  <2> HIDE DEF IL, TL, late, lateNext
  <2>10. last'[r] + Sum(Interval(r), IntervalsLeft(r)') = last[r] + Sum(Interval(r), IL)
    <3>1. CASE r = row /\ b = 0
      <4>1. Sum(Interval(r), IL) = Sum(Interval(r), IL \ {s}) + Interval(r)[s]
        BY <2>1, <2>2, <2>4, <3>1, SumTake
      <4>2. Interval(r)[s] = interval[s][row]
        BY <3>1 DEF Interval
      <4> QED
        BY <2>1, <2>2, <2>3, <2>4, <2>5, <3>1, <4>1, <4>2
    <3>2. CASE ~(r = row /\ b = 0)
      <4>1. IntervalsLeft(r)' = IL /\ last'[r] = last[r]
        BY <2>1, <2>2, <2>3, <2>5, <3>2
      <4> QED
        BY <4>1
    <3> QED
      BY <3>1, <3>2
  <2>11. sum[r] + Sum(Ever(r), TL) + MaxAmount * Cardinality(late) <=
           sum'[r] + Sum(Ever(r), TotalsLeft(r)') + MaxAmount * Cardinality(lateNext)
    <3>1. CASE r = row /\ b = 1
      <4> DEFINE pending == IF call[s].row = row THEN call[s].amount ELSE 0
      <4>1. Sum(Ever(r), TL) = Sum(Ever(r), TL \ {s}) + Ever(r)[s]
        BY <2>1, <2>2, <2>4, <3>1, SumTake
      <4>2. Ever(r)[s] = total[s][row] + pending
        BY <3>1 DEF Ever
      <4>3. MaxAmount * Cardinality(late) + pending <= MaxAmount * Cardinality(lateNext)
        <5>1. CASE call[s].row = row
          <6>1. call[s] \in [row : Rows, amount : 1 .. MaxAmount]
            BY <1>1, <5>1, RowsAre DEF TypeInv, NoCall
          <6>2. s \in Thread
            <7>1. call[0] = NoCall /\ NoCall.row # row
              BY <1>1, <1>2, RowsAre DEF CallsInv, NoCall
            <7> QED
              BY <5>1, <7>1, Numbers
          <6>3. s \notin late /\ s \in lateNext
            <7>1. s \in TL /\ s \notin TotalsLeft(r)' /\ s \in CountingIn(r)
              BY <2>2, <3>1, <5>1, <6>2 DEF CountingIn
            <7> QED
              BY <1>3, <7>1 DEF late, lateNext, LateThreads, TL
          <6>4. Cardinality(late \union {s}) = Cardinality(late) + 1
            BY <2>1, <6>3, FS_AddElement
          <6>5. /\ MaxAmount * Cardinality(late \union {s}) <= MaxAmount * Cardinality(lateNext)
                /\ Cardinality(late) \in Nat
            BY <2>1, <2>6, <2>8, <6>3, LateMore, FS_CardinalityType
          <6>6. MaxAmount * (Cardinality(late) + 1) = MaxAmount * Cardinality(late) + MaxAmount
            BY <6>5, Numbers
          <6>7. pending <= MaxAmount /\ pending \in Nat
            BY <5>1, <6>1, Numbers
          <6> QED
            BY <2>1, <2>7, <6>4, <6>5, <6>6, <6>7, Numbers
        <5>2. CASE call[s].row # row
          BY <2>1, <2>7, <2>9, <5>2
        <5> QED
          BY <5>1, <5>2
      <4>4. pending \in Nat
        BY <1>1, RowsAre, Numbers DEF TypeInv, NoCall
      <4> HIDE DEF pending
      <4>5. TotalsLeft(r)' = TL \ {s} /\ sum'[r] = sum[r] + total[s][row]
        BY <2>2, <2>3, <3>1
      <4>6. Sum(Ever(r), TL \ {s}) \in Nat
        BY <2>4, <2>5
      <4> QED
        BY <2>1, <2>3, <2>7, <4>1, <4>2, <4>3, <4>4, <4>5, <4>6
    <3>2. CASE ~(r = row /\ b = 1)
      <4>1. TotalsLeft(r)' = TL /\ sum'[r] = sum[r] /\ Sum(Ever(r), TL) \in Nat
        BY <2>1, <2>2, <2>3, <2>4, <2>5, <3>2
      <4> QED
        BY <2>1, <2>7, <2>9, <4>1
    <3> QED
      BY <3>1, <3>2
  <2>12. /\ Sum(Interval(r), IL) \in Nat /\ Sum(Interval(r), IntervalsLeft(r)') \in Nat
         /\ Sum(Ever(r), TL) \in Nat /\ Sum(Ever(r), TotalsLeft(r)') \in Nat
    BY <2>1, <2>2, <2>4, <2>5
  <2>13. last'[r] \in Nat /\ sum'[r] \in Nat
    BY <2>1, <2>3
  <2> QED
    BY <2>1, <2>7, <2>10, <2>11, <2>12, <2>13 DEF IL, TL, late, lateNext
<1>5. CountedInv'
  BY <1>2, <1>3 DEF Books, CountedInv
<1>6. NoneMissing'
  <2>1. \A r \in Rows : outside[r] <= shown[r] + last[r] + Sum(Interval(r), IntervalsLeft(r))
    BY <1>2 DEF Books, NoneMissing
  <2>2. \A r \in Rows :
          outside[r] <= shown[r] + last'[r] + Sum(Interval(r), IntervalsLeft(r)')
    <3> SUFFICES ASSUME NEW r \in Rows
        PROVE  outside[r] <= shown[r] + last'[r] + Sum(Interval(r), IntervalsLeft(r)')
      OBVIOUS
    <3>1. shown[r] + last'[r] + Sum(Interval(r), IntervalsLeft(r)') =
            shown[r] + last[r] + Sum(Interval(r), IntervalsLeft(r))
      BY <1>4
    <3> QED
      BY <2>1, <3>1
  <2> QED
    BY <1>2, <1>3, <2>2 DEF NoneMissing
<1>7. NoneTwice'
  <2>1. \A r \in Rows :
          /\ shown[r] + Sum(Interval(r), Stats) <= counted[r]
          /\ last[r] + Sum(Interval(r), IntervalsLeft(r)) <= Sum(Interval(r), Stats)
    BY <1>2 DEF Books, NoneTwice
  <2>2. \A r \in Rows :
          last'[r] + Sum(Interval(r), IntervalsLeft(r)') <= Sum(Interval(r), Stats)
    BY <1>4, <2>1
  <2> QED
    BY <1>2, <1>3, <2>1, <2>2 DEF NoneTwice
<1>8. TotalsKeepUp'
  <2>1. \A r \in Rows :
          shown[r] + last[r] + Sum(Interval(r), IntervalsLeft(r)) <=
            sum[r] + Sum(Ever(r), TotalsLeft(r)) + MaxAmount * Cardinality(LateThreads(r))
    BY <1>2 DEF Books, TotalsKeepUp
  <2>2. \A r \in Rows :
          shown[r] + last'[r] + Sum(Interval(r), IntervalsLeft(r)') <=
            sum'[r] + Sum(Ever(r), TotalsLeft(r)') + MaxAmount * Cardinality(LateThreads(r)')
    <3> SUFFICES ASSUME NEW r \in Rows
        PROVE  shown[r] + last'[r] + Sum(Interval(r), IntervalsLeft(r)') <=
                 sum'[r] + Sum(Ever(r), TotalsLeft(r)')
                   + MaxAmount * Cardinality(LateThreads(r)')
      OBVIOUS
    <3> DEFINE before == sum[r] + Sum(Ever(r), TotalsLeft(r))
                            + MaxAmount * Cardinality(LateThreads(r))
               after == sum'[r] + Sum(Ever(r), TotalsLeft(r)')
                            + MaxAmount * Cardinality(LateThreads(r)')
               printed == shown[r] + last[r] + Sum(Interval(r), IntervalsLeft(r))
    <3>1. before <= after /\ before \in Nat /\ after \in Nat
      BY <1>4
    <3>2. printed <= before /\ printed \in Nat
      <4>1. printed <= before
        BY <2>1
      <4>2. printed \in Nat
        BY <1>4
      <4> QED
        BY <4>1, <4>2
    <3>3. shown[r] + last'[r] + Sum(Interval(r), IntervalsLeft(r)') = printed
      BY <1>4
    <3> HIDE DEF before, after, printed
    <3>4. printed <= after
      BY <3>1, <3>2
    <3> QED
      BY <3>3, <3>4 DEF after
  <2> QED
    BY <1>2, <1>3, <2>2 DEF TotalsKeepUp
<1> QED
  BY <1>5, <1>6, <1>7, <1>8 DEF Books

(* The sums are printed.                                                   *)
LEMMA BooksPrint ==
  ASSUME Control, Control', Books, PrintStats
  PROVE  Books'
<1>1. TypeInv /\ AtInv /\ TypeInv' /\ pc = "print" /\ pc' = "reset" /\ at = Loads /\ at' = 0
  BY PrintChanges DEF Control, AtInv
<1>2. /\ UNCHANGED <<interval, total, call, counted, outside>>
      /\ \A r \in Rows : shown'[r] = shown[r] + last[r]
  BY <1>1, PrintChanges
<1>3. \A r \in Rows : Interval(r)' = Interval(r) /\ Ever(r)' = Ever(r)
  BY <1>2 DEF Interval, Ever
<1>4. \A r \in Rows : IntervalsLeft(r) = {}
  BY <1>1, NoneLeft
<1>5. \A r \in Rows : ResetDone(r)' = {}
  <2>1. \A r \in Rows, s \in Stats : ~(0 > 3 * s + Place(r))
    BY RowsAre, Numbers
  <2> QED
    BY <1>1, <2>1 DEF ResetDone
<1>6. \A f : Sum(f, {}) = 0
  BY SumEmpty
<1>7. \A r \in Rows : /\ shown[r] \in Nat /\ last[r] \in Nat /\ counted[r] \in Nat
                      /\ outside[r] \in Nat /\ Sum(Interval(r), Stats) \in Nat
  BY <1>1, RowNumbers, SumsBefore
<1>8. CountedInv'
  BY <1>2, <1>3 DEF Books, CountedInv
<1>9. NoneMissing'
  <2>1. \A r \in Rows : outside[r] <= shown[r] + last[r] + Sum(Interval(r), {})
    BY <1>1, <1>4 DEF Books, NoneMissing
  <2>2. \A r \in Rows : outside[r] <= shown[r] + last[r]
    BY <1>6, <1>7, <2>1
  <2> QED
    BY <1>1, <1>2, <2>2 DEF NoneMissing
<1>10. NoneTwice'
  <2>1. \A r \in Rows : /\ shown[r] + Sum(Interval(r), Stats) <= counted[r]
                        /\ last[r] + Sum(Interval(r), {}) <= Sum(Interval(r), Stats)
    BY <1>1, <1>4 DEF Books, NoneTwice
  <2>2. \A r \in Rows : shown[r] + last[r] + 0 <= counted[r]
    BY <1>6, <1>7, <2>1
  <2> QED
    BY <1>1, <1>2, <1>3, <1>5, <1>6, <2>2 DEF NoneTwice
<1>11. TotalsKeepUp'
  BY <1>1 DEF TotalsKeepUp
<1> QED
  BY <1>8, <1>9, <1>10, <1>11 DEF Books

(* A store adds a counter, which is now 0, to those that are reset.        *)
LEMMA BooksReset ==
  ASSUME Control, Control', Books, NEW s \in Stats, NEW row \in Rows, ResetOf(s, row)
  PROVE  Books'
<1>1. TypeInv /\ TypeInv' /\ AtInv /\ pc = "reset"
  BY DEF Control, ResetOf
<1>2. UNCHANGED <<total, call, counted, outside, last, sum, shown>>
  BY DEF ResetOf
<1>3. \A r \in Rows : Ever(r)' = Ever(r)
  BY <1>2 DEF Ever
<1>4. \A r \in Rows : last[r] = 0 /\ sum[r] = 0
  BY <1>1 DEF AtInv, Zero
<1> DEFINE Done(r) == ResetDone(r) \union (IF r = row THEN {s} ELSE {})
<1>5. ASSUME NEW r \in Rows
      PROVE  Done(r) = {q \in Stats : at + 1 > 3 * q + Place(r)} /\ (r = row => s \notin ResetDone(r))
  <2> DEFINE i == Place(r)
             j == Place(row)
  <2>1. at \in Nat /\ i \in 0 .. 2 /\ j \in 0 .. 2 /\ s \in Nat /\ at = 3 * s + j
    BY <1>1, RowsAre, Numbers DEF ResetOf, TypeInv
  <2>2. r = row <=> i = j
    BY PlacesDiffer
  <2> HIDE DEF i, j
  <2>3. \A q \in Nat :
          3 * s + j + 1 > 3 * q + i <=> 3 * s + j > 3 * q + i \/ (q = s /\ i = j)
    BY <2>1
  <2>4. \A q \in Stats : at + 1 > 3 * q + i <=> at > 3 * q + i \/ (q = s /\ r = row)
    BY <2>1, <2>2, <2>3, Numbers
  <2>5. ~(3 * s + j > 3 * s + j)
    BY <2>1
  <2>6. r = row => s \notin ResetDone(r)
    BY <2>1, <2>5 DEF ResetDone, j
  <2>7. Done(r) = {q \in Stats : at + 1 > 3 * q + i}
    BY <2>4 DEF ResetDone, i
  <2> QED
    BY <2>6, <2>7 DEF i
<1>6. \A r \in Rows :
        /\ shown[r] \in Nat /\ counted[r] \in Nat /\ outside[r] \in Nat
        /\ ResetDone(r) \in SUBSET Stats /\ Done(r) \in SUBSET Stats /\ Stats \in SUBSET Stats
  BY <1>1, RowNumbers
<1>7. ASSUME NEW r \in Rows
      PROVE  Sum(Interval(r)', Done(r)) = Sum(Interval(r), ResetDone(r))
  <2>1. \A q \in Stats :
          Interval(r)'[q] = IF q = s /\ r = row THEN 0 ELSE Interval(r)[q]
    BY DEF ResetOf, Interval
  <2>2. \A S \in SUBSET Stats : Counts(Interval(r)', S) /\ Sum(Interval(r)', S) \in Nat
    BY <1>1, SumsAfter
  <2>3. Sum(Interval(r)', ResetDone(r)) = Sum(Interval(r), ResetDone(r))
    <3>1. \A q \in ResetDone(r) : Interval(r)'[q] = Interval(r)[q]
      BY <1>5, <1>6, <2>1
    <3> QED
      BY <3>1, SumSame
  <2>4. CASE r = row
    <3>1. Sum(Interval(r)', Done(r)) = Sum(Interval(r)', Done(r) \ {s}) + Interval(r)'[s]
      BY <1>6, <2>2, <2>4, SumTake
    <3>2. Done(r) \ {s} = ResetDone(r)
      BY <1>5, <2>4
    <3>3. Interval(r)'[s] = 0 /\ Sum(Interval(r)', ResetDone(r)) \in Nat
      BY <1>6, <2>1, <2>2, <2>4
    <3> HIDE DEF Done
    <3> QED
      BY <2>3, <3>1, <3>2, <3>3
  <2>5. CASE r # row
    <3>1. Done(r) = ResetDone(r)
      BY <2>5
    <3> QED
      BY <2>3, <3>1
  <2> QED
    BY <2>4, <2>5
<1>8. \A r \in Rows : shown[r] + Sum(Interval(r)', Done(r)) <= counted[r] /\ outside[r] <= shown[r]
  BY <1>1, <1>7 DEF Books, NoneTwice, NoneMissing
<1> HIDE DEF Done
<1>9. CountedInv'
  BY <1>2, <1>3 DEF Books, CountedInv
<1>10. CASE at + 1 < Stores
  <2>1. at' = at + 1 /\ pc' = "reset"
    BY <1>1, <1>10, Numbers DEF ResetOf, TypeInv
  <2>2. \A r \in Rows : ResetDone(r)' = Done(r)
    BY <1>5, <2>1 DEF ResetDone
  <2>3. NoneMissing'
    BY <1>2, <1>8, <2>1 DEF NoneMissing
  <2>4. NoneTwice'
    BY <1>2, <1>8, <2>1, <2>2 DEF NoneTwice
  <2>5. TotalsKeepUp'
    BY <2>1 DEF TotalsKeepUp
  <2> QED
    BY <1>9, <2>3, <2>4, <2>5 DEF Books
<1>11. CASE at + 1 = Stores
  <2>1. at' = 0 /\ pc' = "loop"
    BY <1>1, <1>11, Numbers DEF ResetOf, TypeInv
  <2>2. ASSUME NEW r \in Rows
        PROVE  Done(r) = Stats
    <3>1. Place(r) \in 0 .. 2 /\ at \in Nat /\ Threads \in Nat
      BY <1>1, RowsAre, Numbers DEF TypeInv
    <3>2. at + 1 = 3 * (Threads + 1)
      BY <1>11, Numbers
    <3>3. \A q \in Stats : q \in Nat /\ q <= Threads
      BY <3>1 DEF Stats
    <3>4. \A q \in Stats : at + 1 > 3 * q + Place(r)
      BY <3>1, <3>2, <3>3
    <3> QED
      BY <1>5, <3>4
  <2>3. \A r \in Rows : IntervalsLeft(r)' = Stats /\ TotalsLeft(r)' = Stats
    <3>1. \A r \in Rows, q \in Stats : /\ 0 <= 6 * q + 2 * Place(r)
                                       /\ 0 <= 6 * q + 2 * Place(r) + 1
      BY RowsAre, Numbers
    <3> QED
      BY <2>1, <3>1 DEF IntervalsLeft, TotalsLeft
  <2>4. \A r \in Rows : /\ shown[r] + Sum(Interval(r)', Stats) <= counted[r]
                        /\ outside[r] <= shown[r]
                        /\ Sum(Interval(r)', Stats) \in Nat
    BY <1>1, <1>6, <1>8, <2>2, SumsAfter
  <2>5. NoneMissing'
    <3>1. \A r \in Rows : outside[r] <= shown[r] + 0 + Sum(Interval(r)', Stats)
      BY <1>6, <2>4
    <3> QED
      BY <1>2, <1>4, <2>1, <2>3, <3>1 DEF NoneMissing
  <2>6. NoneTwice'
    <3>1. \A r \in Rows : 0 + Sum(Interval(r)', Stats) <= Sum(Interval(r)', Stats)
      BY <2>4
    <3> QED
      BY <1>2, <1>4, <2>1, <2>3, <2>4, <3>1 DEF NoneTwice
  <2>7. TotalsKeepUp'
    <3> SUFFICES ASSUME NEW r \in Rows
        PROVE  shown[r] + 0 + Sum(Interval(r)', Stats) <=
                 0 + Sum(Ever(r), Stats) + MaxAmount * Cardinality(LateThreads(r)')
      BY <1>2, <1>3, <1>4, <2>3 DEF TotalsKeepUp
    <3>1. counted[r] = Sum(Ever(r), Stats)
      BY DEF Books, CountedInv
    <3>2. LateThreads(r)' \subseteq Thread
      BY DEF LateThreads, CountingIn
    <3>3. MaxAmount * Cardinality(LateThreads(r)') \in Nat
      BY <3>2, LateMore, Numbers
    <3> QED
      BY <1>6, <2>4, <3>1, <3>3
  <2> QED
    BY <1>9, <2>5, <2>6, <2>7 DEF Books
<1> QED
  BY <1>10, <1>11 DEF ResetOf

LEMMA BooksStep ==
  ASSUME Control, Control', Books, [Next]_vars
  PROVE  Books'
<1>1. ASSUME NEW t \in Thread, NEW n \in 1 .. MaxAmount, Traffic(t, n)
      PROVE  Books'
  <2>1. t \in Stats /\ "traffic" \in Rows
    BY Numbers, RowsAre
  <2>2. Count(t, "traffic", n) /\ UNCHANGED <<pc, at, last, sum, shown>>
    BY <1>1 DEF Traffic, update
  <2> QED
    BY <2>1, <2>2, BooksCount
<1>2. ASSUME NEW t \in Thread, Lose(t)
      PROVE  Books'
  <2>1. t \in Stats /\ "disconnects" \in Rows /\ 1 \in 1 .. MaxAmount
    BY Numbers, RowsAre
  <2>2. Count(t, "disconnects", 1) /\ UNCHANGED <<pc, at, last, sum, shown>>
    BY <1>2 DEF Lose, update
  <2> QED
    BY <2>1, <2>2, BooksCount
<1>3. ASSUME NEW s \in Stats, CountTotal(s)
      PROVE  Books'
  BY <1>3, BooksCountTotal
<1>4. CASE Accept
  <2>1. 0 \in Stats /\ "connections" \in Rows /\ 1 \in 1 .. MaxAmount
    BY Numbers, RowsAre
  <2>2. /\ Count(0, "connections", 1) /\ UNCHANGED <<at, last, sum, shown>>
        /\ pc = "loop" /\ pc' = "accepted"
    BY <1>4 DEF Accept, update
  <2> QED
    BY <2>1, <2>2, BooksCount
<1>5. CASE (\E t \in Thread : AddConnection(t)) \/ Stop \/ Update \/ UNCHANGED vars
  <2>1. /\ UNCHANGED <<interval, total, call, counted, outside, at, last, sum, shown>>
        /\ pc = pc' \/ (pc # "reset" /\ pc' # "reset")
    BY <1>5 DEF AddConnection, Stop, Update, vars, counters, update
  <2> QED
    BY <2>1, BooksKept
<1>6. CASE Load
  <2>1. PICK s \in Stats, row \in Rows, b \in {0, 1} : LoadOf(s, row, b)
    BY <1>6, LoadChanges DEF Control
  <2> QED
    BY <2>1, BooksLoad
<1>7. CASE PrintStats
  BY <1>7, BooksPrint
<1>8. CASE Reset
  <2>1. PICK s \in Stats, row \in Rows : ResetOf(s, row)
    BY <1>8, ResetChanges DEF Control
  <2> QED
    BY <2>1, BooksReset
<1> QED
  BY <1>1, <1>2, <1>3, <1>4, <1>5, <1>6, <1>7, <1>8 DEF Next

-----------------------------------------------------------------------------
(* The connections that update() counts                                    *)

Tally == Balance /\ Moments

LEMMA HeldCounts ==
  ASSUME NEW c \in [Thread -> Nat], NEW cl \in Calls
  PROVE  Counts([t \in Thread |-> c[t] + (IF cl[t].row = "disconnects" THEN 1 ELSE 0)], Thread)
BY Numbers DEF Counts

LEMMA LostCounts ==
  ASSUME NEW c \in Counter, NEW S \in SUBSET Thread
  PROVE  Counts([t \in Thread |-> c[t]["disconnects"]], S)
<1>1. IsFiniteSet(S)
  BY Numbers, FS_Subset
<1>2. \A t \in S : c[t]["disconnects"] \in Nat
  BY Numbers, RowsAre DEF Counter
<1> QED
  BY <1>1, <1>2 DEF Counts

LEMMA ConnectionsBefore ==
  ASSUME TypeInv
  PROVE  /\ Counts(Held(call), Thread) /\ Connected(call) \in Nat
         /\ \A S \in SUBSET Thread : Counts(Lost, S) /\ Sum(Lost, S) \in Nat
         /\ \A row \in Rows : total[0][row] \in Nat
<1>1. Counts(Held(call), Thread)
  BY HeldCounts DEF TypeInv, Held, Calls
<1>2. \A S \in SUBSET Thread : Counts(Lost, S)
  BY LostCounts DEF TypeInv, Lost
<1>3. \A row \in Rows : total[0][row] \in Nat
  BY Numbers DEF TypeInv, Counter
<1> QED
  BY <1>1, <1>2, <1>3, SumType DEF Connected

LEMMA ConnectionsAfter ==
  ASSUME TypeInv'
  PROVE  /\ Counts(Held(call)', Thread) /\ Connected(call)' \in Nat
         /\ \A S \in SUBSET Thread : Counts(Lost', S) /\ Sum(Lost', S) \in Nat
<1>1. Counts(Held(call)', Thread)
  BY HeldCounts DEF TypeInv, Held, Calls
<1>2. \A S \in SUBSET Thread : Counts(Lost', S)
  BY LostCounts DEF TypeInv, Lost
<1> QED
  BY <1>1, <1>2, SumType DEF Connected

LEMMA TallyInit == Init => Tally
<1> SUFFICES ASSUME Init PROVE Tally
  OBVIOUS
<1>1. NoCall.row # "disconnects" /\ NoCall.row # "connections"
  BY DEF NoCall
<1>2. \A t \in Thread : Held(call)[t] = 0 /\ Lost[t] = 0
  BY <1>1, Numbers, RowsAre DEF Init, Held, Lost, Zero
<1>3. Connected(call) = 0 /\ Sum(Lost, Thread) = 0
  BY <1>2, SumZero DEF Connected
<1>4. total[0]["connections"] = 0 /\ call[0] = NoCall /\ pc = "loop"
  BY Numbers, RowsAre DEF Init, Zero
<1>5. Balance
  BY <1>1, <1>3, <1>4 DEF Balance
<1>6. Moments
  BY <1>4 DEF Moments
<1> QED
  BY <1>5, <1>6 DEF Tally

(* Steps that change neither the connections nor the totals.               *)
LEMMA TallyKept ==
  ASSUME Tally, Connected(call)' = Connected(call), UNCHANGED total, call'[0] = call[0],
         pc = "accepted" <=> pc' = "accepted",
         pc' \in {"load", "print"} => UNCHANGED <<pc, at, sum, moments>>
  PROVE  Tally'
<1>1. Lost' = Lost
  BY DEF Lost
<1>2. Balance'
  BY <1>1 DEF Tally, Balance
<1>3. Moments'
  <2> SUFFICES ASSUME pc' \in {"load", "print"}
      PROVE  Moments'
    BY DEF Moments
  <2>1. TotalsLeft("connections")' = TotalsLeft("connections") /\ Estimate' = Estimate
    BY <1>1 DEF TotalsLeft, Estimate
  <2> QED
    BY <1>1, <2>1 DEF Tally, Moments
<1> QED
  BY <1>2, <1>3 DEF Tally

(* What a connection thread counts first changes no connection: one it has *)
(* counted as lost is in its call.                                         *)
LEMMA TallyCount ==
  ASSUME Control, Control', Tally, NEW t \in Thread, NEW row \in Rows, NEW n \in 1 .. MaxAmount,
         Count(t, row, n), UNCHANGED <<pc, at, sum, moments>>,
         \/ row = "traffic" /\ UNCHANGED connections
         \/ /\ row = "disconnects" /\ connections[t] > 0
            /\ connections' = [connections EXCEPT ![t] = @ - 1]
  PROVE  Tally'
<1>1. TypeInv /\ TypeInv' /\ t \in Stats /\ t # 0 /\ 0 \in Stats
  BY Numbers DEF Control
<1>2. call[t] = NoCall /\ total' = total /\ NoCall.row # "disconnects"
  BY <1>1, CountChanges DEF NoCall
<1>3. \A q \in Stats : call'[q] = IF q = t THEN [row |-> row, amount |-> n] ELSE call[q]
  BY <1>1, CountChanges DEF TypeInv
<1>4. ASSUME NEW q \in Thread
      PROVE  Held(call)'[q] = Held(call)[q]
  <2>1. /\ Held(call)[q] = connections[q] + (IF call[q].row = "disconnects" THEN 1 ELSE 0)
        /\ Held(call)'[q] = connections'[q] + (IF call'[q].row = "disconnects" THEN 1 ELSE 0)
        /\ connections[q] \in Nat /\ q \in Stats
    BY <1>1, Numbers DEF Held, TypeInv
  <2>2. CASE q = t
    <3>1. call'[q].row = row /\ call[q].row # "disconnects"
      BY <1>1, <1>2, <1>3, <2>2
    <3>2. connections'[q] = IF row = "disconnects" THEN connections[q] - 1 ELSE connections[q]
      BY <1>1, <2>2 DEF TypeInv
    <3> QED
      BY <2>1, <3>1, <3>2
  <2>3. CASE q # t
    <3>1. call'[q] = call[q] /\ connections'[q] = connections[q]
      BY <1>1, <1>3, <2>1, <2>3 DEF TypeInv
    <3> QED
      BY <2>1, <3>1
  <2> QED
    BY <2>2, <2>3
<1>5. Connected(call)' = Connected(call)
  BY <1>4, SumSame DEF Connected
<1> QED
  BY <1>1, <1>2, <1>3, <1>5, TallyKept

(* The main thread has accepted a connection, and counts it.               *)
LEMMA TallyAccept ==
  ASSUME Control, Control', Tally, Accept
  PROVE  Tally'
<1>1. TypeInv /\ TypeInv' /\ 0 \in Stats /\ 0 \notin Thread /\ "connections" \in Rows
      /\ 1 \in 1 .. MaxAmount
  BY Numbers, RowsAre DEF Control
<1>2. /\ Count(0, "connections", 1) /\ connections' = connections
      /\ pc = "loop" /\ pc' = "accepted"
  BY DEF Accept
<1>3. /\ call[0] = NoCall /\ total' = total /\ NoCall.row # "connections"
      /\ \A q \in Stats :
           call'[q] = IF q = 0 THEN [row |-> "connections", amount |-> 1] ELSE call[q]
  BY <1>1, <1>2, CountChanges DEF TypeInv, NoCall
<1>4. \A q \in Thread : Held(call)'[q] = Held(call)[q]
  BY <1>1, <1>2, <1>3, Numbers DEF Held
<1>5. Connected(call)' = Connected(call) /\ Lost' = Lost
  BY <1>3, <1>4, SumSame DEF Connected, Lost
<1>6. call'[0].row = "connections"
  BY <1>1, <1>3
<1>7. Connected(call) \in Nat /\ Sum(Lost, Thread) \in Nat /\ total[0]["connections"] \in Nat
  BY <1>1, ConnectionsBefore
<1>8. Connected(call) + Sum(Lost, Thread) = total[0]["connections"]
  BY <1>2, <1>3, <1>7 DEF Tally, Balance
<1>9. Balance'
  BY <1>2, <1>3, <1>5, <1>6, <1>7, <1>8 DEF Balance
<1>10. Moments'
  BY <1>2 DEF Moments
<1> QED
  BY <1>9, <1>10 DEF Tally

(* It hands the connection to a thread.                                    *)
LEMMA TallyAdd ==
  ASSUME Control, Control', Tally, NEW t \in Thread, AddConnection(t)
  PROVE  Tally'
<1>1. TypeInv /\ TypeInv' /\ pc = "accepted" /\ pc' = "loop" /\ call[0] = NoCall
      /\ UNCHANGED <<total, call>> /\ connections' = [connections EXCEPT ![t] = @ + 1]
  BY DEF Control, AddConnection, counters
<1>2. \A q \in Thread \ {t} : Held(call)[q] = Held(call)'[q]
  BY <1>1 DEF Held, TypeInv
<1>3. Held(call)'[t] = Held(call)[t] + 1 /\ Held(call)[t] \in Nat
  BY <1>1 DEF Held, TypeInv
<1>4. Counts(Held(call), Thread) /\ Counts(Held(call)', Thread)
  BY <1>1, ConnectionsBefore, ConnectionsAfter
<1>5. /\ Sum(Held(call), Thread) + Held(call)'[t] = Sum(Held(call)', Thread) + Held(call)[t]
      /\ Sum(Held(call), Thread) \in Nat /\ Sum(Held(call)', Thread) \in Nat
  BY <1>2, <1>4, SumStep
<1>6. Connected(call)' = Connected(call) + 1 /\ Connected(call) \in Nat
  BY <1>3, <1>5 DEF Connected
<1>7. Lost' = Lost /\ NoCall.row # "connections"
  BY <1>1 DEF Lost, NoCall
<1>8. Sum(Lost, Thread) \in Nat /\ total[0]["connections"] \in Nat
  BY <1>1, ConnectionsBefore, RowsAre
<1>9. Connected(call) + Sum(Lost, Thread) + 1 = total[0]["connections"]
  BY <1>1, <1>6, <1>7, <1>8 DEF Tally, Balance
<1>10. Balance'
  BY <1>1, <1>6, <1>7, <1>8, <1>9 DEF Balance
<1>11. Moments'
  BY <1>1 DEF Moments
<1> QED
  BY <1>10, <1>11 DEF Tally

(* update() begins: what it will print is the number of connections now.   *)
LEMMA TallyUpdate ==
  ASSUME Control, Control', Tally, Update
  PROVE  Tally'
<1>1. TypeInv /\ pc = "loop" /\ pc' = "load" /\ at = 0 /\ at' = 0 /\ call[0] = NoCall
  BY DEF Control, AtInv, CallsInv, Update, update
<1>2. /\ UNCHANGED <<total, call, connections, sum>> /\ moments' = {Connected(call)}
      /\ sum = Zero
  BY DEF Control, AtInv, Update, counters, update
<1>3. Lost' = Lost /\ Held(call)' = Held(call) /\ NoCall.row # "connections"
  BY <1>2 DEF Lost, Held, NoCall
<1>4. Connected(call)' = Connected(call)
  BY <1>3 DEF Connected
<1>5. /\ Connected(call) \in Nat /\ Sum(Lost, Thread) \in Nat
      /\ total[0]["connections"] \in Nat
  BY <1>1, ConnectionsBefore, RowsAre
<1>6. Connected(call) + Sum(Lost, Thread) = total[0]["connections"]
  BY <1>1, <1>3, <1>5 DEF Tally, Balance
<1>7. Balance'
  BY <1>1, <1>2, <1>3, <1>4 DEF Tally, Balance
<1>8. \A row \in Rows : TotalsLeft(row) = Stats /\ TotalsLeft(row)' = TotalsLeft(row)
  BY <1>1, AllLeft DEF TotalsLeft
<1>9. Estimate' = Sum(Lost, Thread)
  <2>1. Stats \intersect Thread = Thread
    BY Numbers
  <2>2. sum'["disconnects"] = 0
    BY <1>2, RowsAre DEF Zero
  <2>3. Estimate' = 0 + Sum(Lost, Thread)
    BY <1>3, <1>8, <2>1, <2>2, RowsAre DEF Estimate
  <2> QED
    BY <1>5, <2>3
<1>10. sum'["connections"] = 0 /\ 0 \in TotalsLeft("connections")'
  BY <1>2, <1>8, Numbers, RowsAre DEF Zero
<1>11. \A m \in Nat : /\ Connected(call)' <= m /\ m <= total'[0]["connections"] - Estimate'
                      => m \in moments'
  BY <1>2, <1>4, <1>5, <1>6, <1>9
<1>12. Moments'
  BY <1>3, <1>5, <1>9, <1>10, <1>11 DEF Moments
<1> QED
  BY <1>7, <1>12 DEF Tally

(* A second addition: the call of a connection that was counted as lost    *)
(* moves to the total.                                                     *)
LEMMA TallyCountTotal ==
  ASSUME Control, Control', Tally, NEW s \in Stats, CountTotal(s)
  PROVE  Tally'
<1>1. TypeInv /\ TypeInv' /\ CallsInv /\ CallsInv' /\ NoCall.row # "disconnects"
      /\ NoCall.row # "connections"
  BY DEF Control, NoCall
<1>2. /\ call[s] \in [row : Rows, amount : 1 .. MaxAmount]
      /\ UNCHANGED <<connections, pc, at, sum>>
      /\ \A q \in Stats : call'[q] = IF q = s THEN NoCall ELSE call[q]
      /\ \A q \in Stats, r \in Rows :
           total'[q][r] = total[q][r] + (IF q = s /\ r = call[s].row THEN call[s].amount ELSE 0)
  BY <1>1, CountTotalChanges DEF TypeInv
<1>3. moments' = IF pc \in {"load", "print"} THEN moments \union {Connected(call)'} ELSE moments
  BY <1>2 DEF CountTotal, Connected, Held
<1> DEFINE gone == IF s \in Thread /\ call[s].row = "disconnects" THEN 1 ELSE 0
           left(S) == IF s \in S THEN gone ELSE 0
<1>4. /\ Connected(call) \in Nat /\ Connected(call)' \in Nat
      /\ total[0]["connections"] \in Nat /\ sum["disconnects"] \in Nat
      /\ \A S \in SUBSET Thread : Sum(Lost, S) \in Nat /\ Sum(Lost', S) \in Nat
  BY <1>1, ConnectionsBefore, ConnectionsAfter, RowsAre DEF TypeInv, PerRow
<1>5. Connected(call) = Connected(call)' + gone
  <2>1. \A q \in Thread :
          /\ Held(call)[q] = connections[q] + (IF call[q].row = "disconnects" THEN 1 ELSE 0)
          /\ Held(call)'[q] = connections[q] + (IF call'[q].row = "disconnects" THEN 1 ELSE 0)
          /\ connections[q] \in Nat /\ q \in Stats
    BY <1>1, <1>2, Numbers DEF Held, TypeInv
  <2>2. \A q \in Thread : q # s => Held(call)[q] = Held(call)'[q]
    BY <1>2, <2>1
  <2>3. s \in Thread => Held(call)[s] = Held(call)'[s] + gone /\ Held(call)'[s] \in Nat
    BY <1>1, <1>2, <2>1
  <2>4. CASE s \in Thread
    <3>1. Counts(Held(call), Thread) /\ Counts(Held(call)', Thread)
      BY <1>1, ConnectionsBefore, ConnectionsAfter
    <3>2. Sum(Held(call), Thread) + Held(call)'[s] = Sum(Held(call)', Thread) + Held(call)[s]
      BY <2>2, <2>4, <3>1, SumStep
    <3> QED
      BY <1>4, <2>3, <2>4, <3>2 DEF Connected
  <2>5. CASE s \notin Thread
    <3>1. Connected(call)' = Connected(call)
      BY <2>2, <2>5, SumSame DEF Connected
    <3> QED
      BY <1>4, <2>5, <3>1
  <2> QED
    BY <2>4, <2>5
<1>6. ASSUME NEW S \in SUBSET Thread
      PROVE  Sum(Lost', S) = Sum(Lost, S) + left(S)
  <2>1. \A q \in Thread : q # s => Lost'[q] = Lost[q]
    BY <1>1, <1>2, Numbers, RowsAre DEF Lost, TypeInv, Counter
  <2>2. s \in Thread => Lost'[s] = Lost[s] + gone /\ Lost[s] \in Nat
    <3> HAVE s \in Thread
    <3>1. /\ Lost[s] = total[s]["disconnects"] /\ Lost'[s] = total'[s]["disconnects"]
          /\ total[s]["disconnects"] \in Nat
      BY <1>1, RowsAre DEF Lost, TypeInv, Counter
    <3>2. call[s].row = "disconnects" => call[s].amount = 1
      BY <1>1 DEF CallsInv
    <3> QED
      BY <1>2, <3>1, <3>2, RowsAre
  <2>3. CASE s \in S
    <3>1. Counts(Lost, S) /\ Counts(Lost', S)
      BY <1>1, ConnectionsBefore, ConnectionsAfter
    <3>2. \A q \in S \ {s} : Lost[q] = Lost'[q]
      BY <2>1
    <3>3. Sum(Lost, S) + Lost'[s] = Sum(Lost', S) + Lost[s]
      BY <2>3, <3>1, <3>2, SumStep
    <3> QED
      BY <1>4, <2>2, <2>3, <3>3
  <2>4. CASE s \notin S
    <3>1. Sum(Lost', S) = Sum(Lost, S)
      BY <2>1, <2>4, SumSame
    <3> QED
      BY <1>4, <2>4, <3>1
  <2> QED
    BY <2>3, <2>4
<1>7. Balance'
  <2> DEFINE accepted == IF pc = "accepted" THEN 1 ELSE 0
             before == IF call[0].row = "connections" THEN 1 ELSE 0
             after == IF call'[0].row = "connections" THEN 1 ELSE 0
  <2>1. Connected(call) + Sum(Lost, Thread) + accepted = total[0]["connections"] + before
    BY DEF Tally, Balance
  <2>2. total'[0]["connections"] + after = total[0]["connections"] + before
    <3>1. CASE s = 0
      <4>1. call[0] = [row |-> "connections", amount |-> 1] /\ call'[0] = NoCall
        BY <1>1, <1>2, <3>1 DEF CallsInv, CountTotal
      <4>2. total'[0]["connections"] = total[0]["connections"] + 1
        BY <1>2, <3>1, <4>1, RowsAre
      <4> QED
        BY <1>1, <1>4, <4>1, <4>2
    <3>2. CASE s # 0
      BY <1>2, <1>4, <3>2, Numbers, RowsAre
    <3> QED
      BY <3>1, <3>2
  <2>3. Sum(Lost', Thread) = Sum(Lost, Thread) + gone
    BY <1>4, <1>6
  <2>4. accepted \in Nat /\ before \in Nat /\ after \in Nat /\ gone \in Nat
        /\ Sum(Lost, Thread) \in Nat /\ Sum(Lost', Thread) \in Nat
    BY <1>4
  <2>5. Connected(call)' + Sum(Lost', Thread) = Connected(call) + Sum(Lost, Thread)
    <3> HIDE DEF gone
    <3> QED
      BY <1>4, <1>5, <2>3, <2>4
  <2>6. Connected(call)' + Sum(Lost', Thread) + accepted = total'[0]["connections"] + after
    BY <2>1, <2>2, <2>5
  <2> QED
    BY <1>2, <2>6 DEF Balance
<1>8. Moments'
  <2> SUFFICES ASSUME pc \in {"load", "print"}
      PROVE  Moments'
    BY <1>2 DEF Moments
  <2>1. s # 0 /\ s \in Thread
    BY <1>1, Numbers DEF CallsInv, CountTotal
  <2>2. total'[0]["connections"] = total[0]["connections"]
    BY <1>2, <1>4, <2>1, Numbers, RowsAre
  <2> DEFINE L == TotalsLeft("disconnects") \intersect Thread
  <2>3. TotalsLeft("connections")' = TotalsLeft("connections")
        /\ TotalsLeft("disconnects")' = TotalsLeft("disconnects") /\ sum' = sum
    BY <1>2 DEF TotalsLeft
  <2>4. Estimate = sum["disconnects"] + Sum(Lost, L) /\ Estimate' = sum["disconnects"] + Sum(Lost', L)
    BY <2>3 DEF Estimate
  <2>5. Sum(Lost', L) = Sum(Lost, L) + left(L) /\ Sum(Lost', Thread) = Sum(Lost, Thread) + gone
        /\ Sum(Lost, L) \in Nat /\ Sum(Lost, Thread) \in Nat
    BY <1>4, <1>6, <2>1
  <2>6. left(L) \in Nat /\ gone \in {0, 1} /\ left(L) <= gone
    OBVIOUS
  <2> HIDE DEF L, left, gone
  <2>7. Estimate <= Estimate' /\ Estimate \in Nat /\ Estimate' \in Nat
    BY <1>4, <2>4, <2>5, <2>6
  <2>8. Estimate' <= Sum(Lost', Thread)
    <3>1. Estimate <= Sum(Lost, Thread)
      BY DEF Tally, Moments
    <3> QED
      BY <1>4, <2>4, <2>5, <2>6, <3>1
  <2>9. \A m \in Nat : /\ Connected(call)' <= m /\ m <= total[0]["connections"] - Estimate'
                       => m \in moments'
    <3> SUFFICES ASSUME NEW m \in Nat, Connected(call)' <= m,
                        m <= total[0]["connections"] - Estimate'
        PROVE  m \in moments'
      OBVIOUS
    <3>1. CASE m = Connected(call)'
      BY <1>3, <3>1
    <3>2. CASE m # Connected(call)'
      <4>1. Connected(call) <= m
        BY <1>4, <1>5, <2>6, <3>2
      <4>2. m <= total[0]["connections"] - Estimate
        BY <1>4, <2>7
      <4>3. m \in moments
        BY <4>1, <4>2 DEF Tally, Moments
      <4> QED
        BY <1>3, <4>3
    <3> QED
      BY <3>1, <3>2
  <2>10. sum["connections"] =
           IF 0 \in TotalsLeft("connections") THEN 0 ELSE total'[0]["connections"]
    BY <2>2 DEF Tally, Moments
  <2> QED
    BY <2>2, <2>3, <2>8, <2>9, <2>10 DEF Moments
<1> QED
  BY <1>7, <1>8 DEF Tally

(* A load does not change what will be printed.                            *)
LEMMA TallyLoad ==
  ASSUME Control, Control', Tally, NEW s \in Stats, NEW row \in Rows, NEW b \in {0, 1},
         LoadOf(s, row, b)
  PROVE  Tally'
<1>1. TypeInv /\ TypeInv' /\ CallsInv /\ pc = "load" /\ pc' \in {"load", "print"}
  BY DEF Control, LoadOf
<1>2. UNCHANGED <<total, call, connections, moments>>
  BY DEF LoadOf
<1>3. Lost' = Lost /\ Held(call)' = Held(call)
  BY <1>2 DEF Lost, Held
<1>4. Connected(call)' = Connected(call)
  BY <1>3 DEF Connected
<1>5. Balance'
  BY <1>1, <1>2, <1>3, <1>4 DEF Tally, Balance
<1>6. /\ "connections" \in Rows /\ "disconnects" \in Rows
      /\ sum["connections"] \in Nat /\ sum["disconnects"] \in Nat
      /\ total[s][row] \in Nat /\ total[0]["connections"] \in Nat
  BY <1>1, RowsAre, Numbers DEF TypeInv, PerRow, Counter
<1>7. \A r \in Rows : /\ sum'[r] = sum[r] + (IF r = row /\ b = 1 THEN total[s][row] ELSE 0)
                      /\ TotalsLeft(r)' = TotalsLeft(r) \ (IF r = row /\ b = 1 THEN {s} ELSE {})
                      /\ r = row /\ b = 1 => s \in TotalsLeft(r)
  BY <1>1, LoadLeft DEF LoadOf
<1>8. sum["connections"] = IF 0 \in TotalsLeft("connections") THEN 0 ELSE total[0]["connections"]
  BY <1>1 DEF Tally, Moments
<1>9. sum'["connections"] =
        IF 0 \in TotalsLeft("connections")' THEN 0 ELSE total[0]["connections"]
  <2>1. CASE "connections" = row /\ b = 1
    <3>1. sum'["connections"] = sum["connections"] + total[s]["connections"]
          /\ TotalsLeft("connections")' = TotalsLeft("connections") \ {s}
          /\ s \in TotalsLeft("connections")
      BY <1>6, <1>7, <2>1
    <3>2. CASE s = 0
      BY <1>6, <1>8, <3>1, <3>2
    <3>3. CASE s # 0
      <4>1. total[s]["connections"] = 0
        BY <1>1, <3>3, Numbers DEF CallsInv
      <4> QED
        BY <1>6, <1>8, <3>1, <3>3, <4>1
    <3> QED
      BY <3>2, <3>3
  <2>2. CASE ~("connections" = row /\ b = 1)
    <3>1. sum'["connections"] = sum["connections"] + 0
          /\ TotalsLeft("connections")' = TotalsLeft("connections") \ {}
      BY <1>6, <1>7, <2>2
    <3> QED
      BY <1>6, <1>8, <3>1
  <2> QED
    BY <2>1, <2>2
<1>10. Estimate' = Estimate
  <2> DEFINE L == TotalsLeft("disconnects") \intersect Thread
             after == TotalsLeft("disconnects")' \intersect Thread
  <2>1. Estimate = sum["disconnects"] + Sum(Lost, L) /\ Estimate' = sum'["disconnects"] + Sum(Lost, after)
    BY <1>3 DEF Estimate
  <2>2. \A S \in SUBSET Thread : Counts(Lost, S) /\ Sum(Lost, S) \in Nat
    BY <1>1, ConnectionsBefore
  <2>3. CASE "disconnects" = row /\ b = 1
    <3>1. sum'["disconnects"] = sum["disconnects"] + total[s]["disconnects"]
          /\ after = L \ {s} /\ s \in TotalsLeft("disconnects")
      BY <1>6, <1>7, <2>3
    <3>2. CASE s = 0
      <4>1. total[s]["disconnects"] = 0 /\ L \ {s} = L
        BY <1>1, <3>2, Numbers DEF CallsInv
      <4>2. after = L /\ sum'["disconnects"] = sum["disconnects"]
        BY <1>6, <3>1, <4>1
      <4> QED
        BY <2>1, <4>2
    <3>3. CASE s # 0
      <4>1. s \in Thread /\ s \in L
        BY <3>1, <3>3, Numbers
      <4>2. Sum(Lost, L) = Sum(Lost, L \ {s}) + Lost[s]
        BY <2>2, <4>1, SumTake
      <4>3. Lost[s] = total[s]["disconnects"] /\ Lost[s] \in Nat
        BY <1>6, <2>3, <4>1 DEF Lost
      <4>4. Sum(Lost, L \ {s}) \in Nat
        BY <2>2
      <4> HIDE DEF L, after
      <4> QED
        BY <1>6, <2>1, <3>1, <4>2, <4>3, <4>4
    <3> QED
      BY <3>2, <3>3
  <2>4. CASE ~("disconnects" = row /\ b = 1)
    <3>1. sum'["disconnects"] = sum["disconnects"] + 0
          /\ TotalsLeft("disconnects")' = TotalsLeft("disconnects") \ {}
      BY <1>6, <1>7, <2>4
    <3>2. after = L /\ sum'["disconnects"] = sum["disconnects"]
      BY <1>6, <3>1
    <3> QED
      BY <2>1, <3>2
  <2> QED
    BY <2>3, <2>4
<1>11. Moments'
  BY <1>1, <1>2, <1>3, <1>4, <1>9, <1>10 DEF Tally, Moments
<1> QED
  BY <1>5, <1>11 DEF Tally

LEMMA TallyStep ==
  ASSUME Control, Control', Tally, [Next]_vars
  PROVE  Tally'
<1>1. ASSUME NEW t \in Thread, NEW n \in 1 .. MaxAmount, Traffic(t, n)
      PROVE  Tally'
  <2>1. "traffic" \in Rows
    BY RowsAre
  <2>2. Count(t, "traffic", n) /\ UNCHANGED <<connections, pc, at, sum, moments>>
    BY <1>1 DEF Traffic, update
  <2> QED
    BY <2>1, <2>2, TallyCount
<1>2. ASSUME NEW t \in Thread, Lose(t)
      PROVE  Tally'
  <2>1. "disconnects" \in Rows /\ 1 \in 1 .. MaxAmount
    BY Numbers, RowsAre
  <2>2. /\ Count(t, "disconnects", 1) /\ UNCHANGED <<pc, at, sum, moments>>
        /\ connections[t] > 0 /\ connections' = [connections EXCEPT ![t] = @ - 1]
    BY <1>2 DEF Lose, update
  <2> QED
    BY <2>1, <2>2, TallyCount
<1>3. ASSUME NEW s \in Stats, CountTotal(s)
      PROVE  Tally'
  BY <1>3, TallyCountTotal
<1>4. CASE Accept
  BY <1>4, TallyAccept
<1>5. ASSUME NEW t \in Thread, AddConnection(t)
      PROVE  Tally'
  BY <1>5, TallyAdd
<1>6. CASE Stop \/ PrintStats \/ Reset \/ UNCHANGED vars
  <2>1. /\ UNCHANGED <<total, call, connections>>
        /\ pc = "accepted" <=> pc' = "accepted"
        /\ pc' \in {"load", "print"} => UNCHANGED <<pc, at, sum, moments>>
    BY <1>6 DEF Stop, PrintStats, Reset, vars, counters, update
  <2>2. Held(call)' = Held(call)
    BY <2>1 DEF Held
  <2>3. Connected(call)' = Connected(call)
    BY <2>2 DEF Connected
  <2> QED
    BY <2>1, <2>3, TallyKept
<1>7. CASE Update
  BY <1>7, TallyUpdate
<1>8. CASE Load
  <2>1. PICK s \in Stats, row \in Rows, b \in {0, 1} : LoadOf(s, row, b)
    BY <1>8, LoadChanges DEF Control
  <2> QED
    BY <2>1, TallyLoad
<1> QED
  BY <1>1, <1>2, <1>3, <1>4, <1>5, <1>6, <1>7, <1>8 DEF Next

-----------------------------------------------------------------------------
(* The theorems *)

LEMMA InvHolds == Spec => [](Control /\ Books /\ Tally)
<1> DEFINE All == Control /\ Books /\ Tally
<1>1. Init => All
  BY ControlInit, BooksInit, TallyInit
<1>2. All /\ [Next]_vars => All'
  BY ControlStep, BooksStep, TallyStep
<1> QED
  BY <1>1, <1>2, PTL DEF Spec

(* The number of current connections that update() prints was the number   *)
(* of connections at some moment of the update, however the loads of the   *)
(* totals interleave with the additions of the threads (monitoring.rs:108).*)
THEOREM PrintedConnectionsWereTrue == Spec => []CurrentWasTrue
<1>1. Control /\ Tally => CurrentWasTrue
  <2> SUFFICES ASSUME Control, Tally, pc = "print"
      PROVE  sum["connections"] - sum["disconnects"] \in moments
    BY DEF CurrentWasTrue
  <2>1. TypeInv /\ at = Loads /\ call[0] = NoCall /\ NoCall.row # "connections"
    BY DEF Control, AtInv, CallsInv, NoCall
  <2>2. TotalsLeft("connections") = {} /\ TotalsLeft("disconnects") = {}
    BY <2>1, NoneLeft, RowsAre
  <2>3. /\ Connected(call) \in Nat /\ total[0]["connections"] \in Nat
        /\ Sum(Lost, Thread) \in Nat /\ sum["disconnects"] \in Nat
    BY <2>1, ConnectionsBefore, RowsAre DEF TypeInv, PerRow
  <2>4. {} \intersect Thread = {} /\ Sum(Lost, {}) = 0
    BY SumEmpty
  <2>5. Estimate = sum["disconnects"]
    BY <2>2, <2>3, <2>4 DEF Estimate
  <2>6. sum["connections"] = total[0]["connections"] /\ Estimate <= Sum(Lost, Thread)
    BY <2>2 DEF Tally, Moments
  <2>7. Connected(call) + Sum(Lost, Thread) = total[0]["connections"]
    BY <2>1, <2>3 DEF Tally, Balance
  <2> DEFINE m == total[0]["connections"] - Estimate
  <2>8. m \in Nat /\ Connected(call) <= m /\ m <= total[0]["connections"] - Estimate
    BY <2>3, <2>5, <2>6, <2>7
  <2>9. m \in moments
    BY <2>8 DEF Tally, Moments
  <2> QED
    BY <2>5, <2>6, <2>9
<1> QED
  BY <1>1, InvHolds, PTL

(* Between two updates every call was printed once, is still in a counter, *)
(* or was made during an update (monitoring.rs:75-141).                    *)
THEOREM IntervalsCountOnce == Spec => []LastsCountOnce
<1>1. Control /\ Books => LastsCountOnce
  <2> SUFFICES ASSUME Control, Books, pc = "loop", NEW r \in Rows
      PROVE  /\ outside[r] <= shown[r] + Sum(Interval(r), Stats)
             /\ shown[r] + Sum(Interval(r), Stats) <= counted[r]
    BY DEF LastsCountOnce
  <2>1. TypeInv /\ at = 0 /\ last[r] = 0
    BY DEF Control, AtInv, Zero
  <2>2. IntervalsLeft(r) = Stats /\ shown[r] \in Nat
    BY <2>1, AllLeft, RowNumbers
  <2>3. outside[r] <= shown[r] + 0 + Sum(Interval(r), Stats)
    BY <2>1, <2>2 DEF Books, NoneMissing
  <2>4. shown[r] + Sum(Interval(r), Stats) <= counted[r]
    BY DEF Books, NoneTwice
  <2> QED
    BY <2>2, <2>3, <2>4
<1> QED
  BY <1>1, InvHolds, PTL

(* The printed totals are behind the sum of the printed intervals by at    *)
(* most the one call of each thread that is between its two additions      *)
(* (monitoring.rs:76-91, 182-210).                                         *)
THEOREM TotalsKeepUpWithIntervals == Spec => []TotalCoversLasts
<1>1. Control /\ Books => TotalCoversLasts
  <2> SUFFICES ASSUME Control, Books, pc = "print", NEW r \in Rows
      PROVE  shown[r] + last[r] <= sum[r] + MaxAmount * Cardinality(CountingIn(r))
    BY DEF TotalCoversLasts
  <2>1. TypeInv /\ at = Loads
    BY DEF Control, AtInv
  <2>2. IntervalsLeft(r) = {} /\ TotalsLeft(r) = {}
    BY <2>1, NoneLeft
  <2>3. LateThreads(r) = CountingIn(r)
    BY <2>2 DEF LateThreads
  <2>4. Sum(Interval(r), {}) = 0 /\ Sum(Ever(r), {}) = 0
    BY SumEmpty
  <2>5. /\ shown[r] \in Nat /\ last[r] \in Nat /\ sum[r] \in Nat
        /\ MaxAmount * Cardinality(CountingIn(r)) \in Nat
    BY <2>1, <2>3, RowNumbers
  <2>6. shown[r] + last[r] + 0 <= sum[r] + 0 + MaxAmount * Cardinality(CountingIn(r))
    BY <2>2, <2>3, <2>4 DEF Books, TotalsKeepUp
  <2> QED
    BY <2>5, <2>6
<1> QED
  BY <1>1, InvHolds, PTL
=============================================================================
