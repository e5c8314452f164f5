------------------------- MODULE SubsequenceProofs -------------------------
(***************************************************************************)
(* What selecting elements of a sequence yields when the sequence grows at *)
(* its end, for any sequence and any places.                               *)
(***************************************************************************)
EXTENDS Subsequence, FiniteSetTheorems, TLAPS

-----------------------------------------------------------------------------
(* The elements of a finite set of numbers, counted in ascending order *)

UpTo(I, i) == {j \in I : j <= i}

LEMMA UpToGrows ==
  ASSUME NEW I \in SUBSET Nat, IsFiniteSet(I), NEW i \in I, NEW j \in I, i < j
  PROVE  Cardinality(UpTo(I, i)) < Cardinality(UpTo(I, j))
<1>1. IsFiniteSet(UpTo(I, j)) /\ IsFiniteSet(UpTo(I, i))
  BY FS_Subset DEF UpTo
<1>2. j \in UpTo(I, j) /\ UpTo(I, i) \subseteq UpTo(I, j) \ {j}
  <2>1. \A k \in I : k <= i => k <= j /\ k # j
    OBVIOUS
  <2>2. j <= j
    OBVIOUS
  <2> QED
    BY <2>1, <2>2, Zenon DEF UpTo
<1>3. /\ IsFiniteSet(UpTo(I, j) \ {j})
      /\ Cardinality(UpTo(I, j) \ {j}) = Cardinality(UpTo(I, j)) - 1
  BY <1>1, <1>2, FS_RemoveElement
<1>4. Cardinality(UpTo(I, i)) <= Cardinality(UpTo(I, j) \ {j})
  BY <1>2, <1>3, FS_Subset
<1>5. Cardinality(UpTo(I, i)) \in Nat /\ Cardinality(UpTo(I, j)) \in Nat
  BY <1>1, FS_CardinalityType
<1> QED
  BY <1>3, <1>4, <1>5

(* There is an n-th element, for each n up to their number ...             *)
LEMMA NthCounts ==
  ASSUME NEW I \in SUBSET Nat, IsFiniteSet(I), NEW n \in 1 .. Cardinality(I)
  PROVE  Nth(I, n) \in I /\ Cardinality(UpTo(I, Nth(I, n))) = n
<1> DEFINE N == Cardinality(I)
           rank == [i \in I |-> Cardinality(UpTo(I, i))]
<1>1. N \in Nat /\ IsFiniteSet(1 .. N) /\ Cardinality(1 .. N) = N
  <2>1. N \in Nat
    BY FS_CardinalityType
  <2> QED
    BY <2>1, FS_Interval
<1>2. \A i \in I : Cardinality(UpTo(I, i)) \in 1 .. N
  <2> SUFFICES ASSUME NEW i \in I PROVE Cardinality(UpTo(I, i)) \in 1 .. N
    OBVIOUS
  <2>1. UpTo(I, i) \subseteq I /\ i \in UpTo(I, i)
    BY DEF UpTo
  <2>2. IsFiniteSet(UpTo(I, i)) /\ Cardinality(UpTo(I, i)) <= N
    BY <2>1, FS_Subset
  <2>3. Cardinality(UpTo(I, i)) \in Nat /\ Cardinality(UpTo(I, i)) # 0
    BY <2>1, <2>2, FS_CardinalityType, FS_EmptySet
  <2> QED
    BY <1>1, <2>2, <2>3
<1>3. \A i, j \in I : i # j => rank[i] # rank[j]
  <2> SUFFICES ASSUME NEW i \in I, NEW j \in I, i < j PROVE rank[i] # rank[j]
    OBVIOUS
  <2> QED
    BY <1>2, UpToGrows
<1>4. rank \in Injection(I, 1 .. N)
  BY <1>2, <1>3 DEF Injection, IsInjective
<1>5. rank \in Surjection(I, 1 .. N)
  BY <1>1, <1>4, FS_Injection
<1>6. PICK i \in I : rank[i] = n
  BY <1>5 DEF Surjection
<1>7. \E k \in I : Cardinality({j \in I : j <= k}) = n
  BY <1>6 DEF UpTo
<1> QED
  BY <1>7 DEF Nth, UpTo

(* ... and only one.                                                       *)
LEMMA NthIs ==
  ASSUME NEW I \in SUBSET Nat, IsFiniteSet(I), NEW i \in I,
         NEW n \in 1 .. Cardinality(I), Cardinality(UpTo(I, i)) = n
  PROVE  Nth(I, n) = i
<1>1. Nth(I, n) \in I /\ Cardinality(UpTo(I, Nth(I, n))) = n
  BY NthCounts
<1>2. i \in Nat /\ Nth(I, n) \in Nat
  BY <1>1, Zenon
<1>3. ASSUME NEW j \in I, NEW k \in I, j < k
      PROVE  Cardinality(UpTo(I, j)) < Cardinality(UpTo(I, k))
  BY <1>3, UpToGrows, Zenon
<1>4. Cardinality(I) \in Nat
  BY FS_CardinalityType
<1>5. ~(Nth(I, n) < i)
  <2>1. Nth(I, n) < i => n < n
    BY <1>1, <1>3, Zenon
  <2> QED
    BY <1>4, <2>1
<1>6. ~(i < Nth(I, n))
  <2>1. i < Nth(I, n) => n < n
    BY <1>1, <1>3, Zenon
  <2> QED
    BY <1>4, <2>1
<1> QED
  BY <1>2, <1>5, <1>6

(* A set of numbers with a bound has a smallest element.                   *)
LEMMA SmallestExists ==
  ASSUME NEW m \in Nat, NEW I \in SUBSET (1 .. m), I # {}
  PROVE  \E i \in I : \A j \in I : i <= j
<1>1. IsFiniteSet(I) /\ I \in SUBSET Nat
  <2>1. IsFiniteSet(I)
    <3>1. IsFiniteSet(1 .. m)
      BY FS_Interval
    <3> QED
      BY <3>1, FS_Subset, Zenon
  <2>2. \A i \in I : i \in Nat
    OBVIOUS
  <2> QED
    BY <2>1, <2>2, Zenon
<1>2. Cardinality(I) \in Nat /\ Cardinality(I) # 0
  BY <1>1, FS_CardinalityType, FS_EmptySet
<1>3. 1 \in 1 .. Cardinality(I)
  BY <1>2
<1>4. PICK i \in I : Cardinality(UpTo(I, i)) = 1
  BY <1>1, <1>3, NthCounts
<1>5. ASSUME NEW j \in I, j < i PROVE FALSE
  <2>1. Cardinality(UpTo(I, j)) < 1
    BY <1>1, <1>4, <1>5, UpToGrows
  <2>2. j \in UpTo(I, j) /\ UpTo(I, j) \subseteq I
    BY DEF UpTo
  <2>3. IsFiniteSet(UpTo(I, j))
    BY <1>1, <2>2, FS_Subset
  <2>4. Cardinality(UpTo(I, j)) \in Nat /\ Cardinality(UpTo(I, j)) # 0
    BY <2>2, <2>3, FS_CardinalityType, FS_EmptySet
  <2> QED
    BY <2>1, <2>4
<1> QED
  BY <1>1, <1>5

(* Larger numbers do not change what the first ones are.                   *)
LEMMA NthStays ==
  ASSUME NEW I \in SUBSET Nat, NEW J \in SUBSET Nat, IsFiniteSet(I), IsFiniteSet(J),
         I \subseteq J, \A i \in I : \A j \in J \ I : i < j,
         NEW n \in 1 .. Cardinality(I)
  PROVE  Nth(J, n) = Nth(I, n) /\ Nth(I, n) \in I
<1>1. Nth(I, n) \in I /\ Cardinality(UpTo(I, Nth(I, n))) = n
  BY NthCounts
<1>2. PICK i \in I : i = Nth(I, n)
  BY <1>1
<1>3. \A j \in J : j <= i <=> j \in I /\ j <= i
  BY <1>2
<1>4. UpTo(J, i) = UpTo(I, i)
  BY <1>3 DEF UpTo
<1>5. Cardinality(I) <= Cardinality(J) /\ Cardinality(I) \in Nat /\ Cardinality(J) \in Nat
  BY FS_Subset, FS_CardinalityType
<1>6. n \in 1 .. Cardinality(J)
  BY <1>5
<1> QED
  BY <1>1, <1>2, <1>4, <1>6, NthIs

-----------------------------------------------------------------------------
(* Sequences behind each other *)

LEMMA ConcatParts ==
  ASSUME NEW S, NEW s \in Seq(S), NEW r \in Seq(S)
  PROVE  /\ s \o r \in Seq(S) /\ Len(s \o r) = Len(s) + Len(r)
         /\ Len(s) \in Nat /\ Len(r) \in Nat
         /\ \A i \in 1 .. Len(s) : (s \o r)[i] = s[i]
         /\ \A i \in 1 .. Len(r) : (s \o r)[Len(s) + i] = r[i]
<1>1. \A i \in 1 .. Len(r) : (s \o r)[Len(s) + i] = r[i]
  OBVIOUS
<1> QED
  BY <1>1

(* A sequence is known by its two parts.                                   *)
LEMMA ConcatIs ==
  ASSUME NEW S, NEW s \in Seq(S), NEW r \in Seq(S), NEW both \in Seq(S),
         Len(both) = Len(s) + Len(r),
         \A i \in 1 .. Len(s) : both[i] = s[i],
         \A i \in 1 .. Len(r) : both[Len(s) + i] = r[i]
  PROVE  both = s \o r
<1> DEFINE c == s \o r
<1>1. /\ c \in Seq(S) /\ Len(c) = Len(s) + Len(r)
      /\ Len(s) \in Nat /\ Len(r) \in Nat
      /\ \A i \in 1 .. Len(s) : c[i] = s[i]
      /\ \A i \in 1 .. Len(r) : c[Len(s) + i] = r[i]
  BY ConcatParts
<1> HIDE DEF c
<1>2. \A i \in 1 .. Len(both) :
        i \in 1 .. Len(s) \/ \E j \in 1 .. Len(r) : i = Len(s) + j
  <2>1. ASSUME NEW i \in 1 .. Len(both), i \notin 1 .. Len(s)
        PROVE  i - Len(s) \in 1 .. Len(r) /\ i = Len(s) + (i - Len(s))
    BY <1>1, <2>1
  <2> QED
    BY <2>1, Zenon
<1>3. \A i \in 1 .. Len(both) : both[i] = c[i]
  BY <1>1, <1>2, ZenonT(30)
<1>4. both = c
  BY <1>1, <1>3
<1> QED
  BY <1>4 DEF c

(* What is appended to the second is appended to both.                     *)
LEMMA ConcatAppend ==
  ASSUME NEW S, NEW s \in Seq(S), NEW r \in Seq(S), NEW e \in S
  PROVE  s \o Append(r, e) = Append(s \o r, e)
<1>1. PICK c : c = s \o r
  OBVIOUS
<1>2. /\ c \in Seq(S) /\ Len(c) = Len(s) + Len(r)
      /\ Len(s) \in Nat /\ Len(r) \in Nat
      /\ \A i \in 1 .. Len(s) : c[i] = s[i]
      /\ \A i \in 1 .. Len(r) : c[Len(s) + i] = r[i]
  BY <1>1, ConcatParts
<1>3. PICK q : q = Append(r, e)
  OBVIOUS
<1>4. /\ q \in Seq(S) /\ Len(q) = Len(r) + 1 /\ q[Len(r) + 1] = e
      /\ \A i \in 1 .. Len(r) : q[i] = r[i]
  BY <1>3
<1>5. PICK both : both = Append(c, e)
  OBVIOUS
<1>6. /\ both \in Seq(S) /\ Len(both) = Len(c) + 1 /\ both[Len(c) + 1] = e
      /\ \A i \in 1 .. Len(c) : both[i] = c[i]
  BY <1>2, <1>5
<1>7. Len(both) = Len(s) + Len(q)
  BY <1>2, <1>4, <1>6
<1>8. \A i \in 1 .. Len(s) : both[i] = s[i]
  BY <1>2, <1>6
<1>9. \A i \in 1 .. Len(q) : both[Len(s) + i] = q[i]
  <2>1. ASSUME NEW i \in 1 .. Len(r) PROVE both[Len(s) + i] = q[i]
    <3>1. Len(s) + i \in 1 .. Len(c)
      BY <1>2
    <3> QED
      BY <1>2, <1>4, <1>6, <3>1
  <2>2. both[Len(s) + (Len(r) + 1)] = q[Len(r) + 1]
    <3>1. Len(s) + (Len(r) + 1) = Len(c) + 1
      BY <1>2
    <3> QED
      BY <1>4, <1>6, <3>1
  <2>3. \A i \in 1 .. Len(q) : i \in 1 .. Len(r) \/ i = Len(r) + 1
    BY <1>2, <1>4
  <2> QED
    BY <2>1, <2>2, <2>3, Zenon
<1>10. both = s \o q
  BY <1>4, <1>6, <1>7, <1>8, <1>9, ConcatIs
<1> QED
  BY <1>1, <1>3, <1>5, <1>10

(* The head of the second moves to the end of the first.                   *)
LEMMA ConcatMove ==
  ASSUME NEW S, NEW s \in Seq(S), NEW r \in Seq(S), r # <<>>
  PROVE  Append(s, Head(r)) \o Tail(r) = s \o r
<1>1. PICK a, q : a = Append(s, Head(r)) /\ q = Tail(r)
  OBVIOUS
<1>2. /\ a \in Seq(S) /\ Len(a) = Len(s) + 1 /\ a[Len(s) + 1] = r[1]
      /\ \A i \in 1 .. Len(s) : a[i] = s[i]
  BY <1>1
<1>3. /\ q \in Seq(S) /\ Len(q) = Len(r) - 1 /\ Len(r) \in Nat \ {0}
      /\ \A i \in 1 .. Len(r) - 1 : q[i] = r[i + 1]
  BY <1>1
<1>4. PICK both : both = a \o q
  OBVIOUS
<1>5. /\ both \in Seq(S) /\ Len(both) = Len(a) + Len(q)
      /\ \A i \in 1 .. Len(a) : both[i] = a[i]
      /\ \A i \in 1 .. Len(q) : both[Len(a) + i] = q[i]
  BY SMTT(20), <1>2, <1>3, <1>4, ConcatParts
<1>6. Len(both) = Len(s) + Len(r) /\ Len(s) \in Nat
  BY <1>2, <1>3, <1>5
<1>7. \A i \in 1 .. Len(s) : both[i] = s[i]
  BY <1>2, <1>5, <1>6
<1>8. \A i \in 1 .. Len(r) : both[Len(s) + i] = r[i]
  <2>1. both[Len(s) + 1] = r[1]
    BY <1>2, <1>5, <1>6
  <2>2. ASSUME NEW i \in 2 .. Len(r) PROVE both[Len(s) + i] = r[i]
    <3>1. i - 1 \in 1 .. Len(q) /\ Len(a) + (i - 1) = Len(s) + i /\ (i - 1) + 1 = i
      BY <1>2, <1>3, <1>6
    <3>2. both[Len(a) + (i - 1)] = q[i - 1]
      BY <1>5, <3>1
    <3>3. q[i - 1] = r[(i - 1) + 1]
      BY <1>3, <3>1
    <3> QED
      BY <3>1, <3>2, <3>3
  <2>3. \A i \in 1 .. Len(r) : i = 1 \/ i \in 2 .. Len(r)
    BY <1>3
  <2> QED
    BY <2>1, <2>2, <2>3, Zenon
<1>9. both = s \o r
  BY <1>5, <1>6, <1>7, <1>8, ConcatIs
<1> QED
  BY <1>1, <1>4, <1>9

-----------------------------------------------------------------------------
(* Selecting from a sequence *)

LEMMA PlacesFinite ==
  ASSUME NEW m \in Nat, NEW I \in SUBSET (1 .. m)
  PROVE  I \in SUBSET Nat /\ IsFiniteSet(I) /\ Cardinality(I) \in Nat
<1>1. IsFiniteSet(1 .. m)
  BY FS_Interval
<1>2. IsFiniteSet(I)
  BY <1>1, FS_Subset, Zenon
<1>3. Cardinality(I) \in Nat
  BY <1>2, FS_CardinalityType, Zenon
<1>4. \A i \in I : i \in Nat
  OBVIOUS
<1> QED
  BY <1>2, <1>3, <1>4, Zenon

LEMMA SelectedType ==
  ASSUME NEW S, NEW s \in Seq(S), NEW I \in SUBSET (1 .. Len(s))
  PROVE  /\ Selected(s, I) \in Seq(S) /\ Len(Selected(s, I)) = Cardinality(I)
         /\ \A n \in 1 .. Cardinality(I) :
              Selected(s, I)[n] = s[Nth(I, n)] /\ Nth(I, n) \in I
<1>1. I \in SUBSET Nat /\ IsFiniteSet(I) /\ Cardinality(I) \in Nat
  <2>1. Len(s) \in Nat
    OBVIOUS
  <2> QED
    BY <2>1, PlacesFinite, Zenon
<1>2. \A n \in 1 .. Cardinality(I) : Nth(I, n) \in I
  BY <1>1, NthCounts
<1>3. \A i \in I : s[i] \in S
  OBVIOUS
<1>4. \A n \in 1 .. Cardinality(I) : s[Nth(I, n)] \in S
  BY <1>2, <1>3, Zenon
<1> QED
  BY <1>1, <1>2, <1>4 DEF Selected

(* The last place of a set, if it is beyond all the others.                *)
LEMMA NthLast ==
  ASSUME NEW I \in SUBSET Nat, IsFiniteSet(I), NEW last \in Nat, \A i \in I : i < last
  PROVE  /\ Cardinality(I \union {last}) = Cardinality(I) + 1 /\ Cardinality(I) \in Nat
         /\ Nth(I \union {last}, Cardinality(I) + 1) = last
         /\ \A n \in 1 .. Cardinality(I) :
              Nth(I \union {last}, n) = Nth(I, n) /\ Nth(I, n) \in I
<1> DEFINE J == I \union {last}
<1>1. last \notin I
  OBVIOUS
<1>2. /\ IsFiniteSet(J) /\ Cardinality(J) = Cardinality(I) + 1 /\ Cardinality(I) \in Nat
  BY <1>1, FS_AddElement, FS_CardinalityType
<1>3. J \in SUBSET Nat /\ last \in J /\ I \subseteq J
  OBVIOUS
<1>4. \A i \in I : \A j \in J \ I : i < j
  OBVIOUS
<1>5. UpTo(J, last) = J
  <2>1. \A j \in J : j <= last
    OBVIOUS
  <2> QED
    BY <2>1, Zenon DEF UpTo
<1> HIDE DEF J
<1>6. \A n \in 1 .. Cardinality(I) : Nth(J, n) = Nth(I, n) /\ Nth(I, n) \in I
  BY <1>2, <1>3, <1>4, NthStays
<1>7. Cardinality(J) \in 1 .. Cardinality(J) /\ Cardinality(UpTo(J, last)) = Cardinality(J)
  BY <1>2, <1>5
<1>8. Nth(J, Cardinality(J)) = last
  BY <1>2, <1>3, <1>7, NthIs
<1> QED
  BY <1>2, <1>6, <1>8 DEF J

(* An element that is appended is selected last, or not at all.            *)
LEMMA SelectedAppend ==
  ASSUME NEW S, NEW s \in Seq(S), NEW e \in S, NEW I \in SUBSET (1 .. Len(s))
  PROVE  /\ Selected(Append(s, e), I) = Selected(s, I)
         /\ Selected(Append(s, e), I \union {Len(s) + 1}) = Append(Selected(s, I), e)
<1> DEFINE r == Append(s, e)
           last == Len(s) + 1
           J == I \union {last}
           G == Selected(s, I)
           H == Selected(r, J)
<1>0. Len(s) \in Nat
  OBVIOUS
<1>1. I \in SUBSET Nat /\ IsFiniteSet(I) /\ Cardinality(I) \in Nat /\ Len(s) \in Nat
  BY <1>0, PlacesFinite, Zenon
<1>2. /\ r \in Seq(S) /\ Len(r) = last /\ r[last] = e /\ last \in Nat
      /\ \A i \in I : i < last /\ r[i] = s[i]
  BY <1>1
<1>3. I \in SUBSET (1 .. Len(r)) /\ J \in SUBSET (1 .. Len(r))
  <2>1. \A i \in I : i \in 1 .. Len(r)
    BY <1>1, <1>2
  <2>2. last \in 1 .. Len(r)
    BY <1>1, <1>2
  <2> QED
    BY <2>1, <2>2, Zenon
<1> HIDE DEF r, last
<1>4. Selected(r, I) = Selected(s, I)
  <2>1. \A n \in 1 .. Cardinality(I) : r[Nth(I, n)] = s[Nth(I, n)]
    BY <1>1, <1>2, NthCounts
  <2> QED
    BY <2>1 DEF Selected
<1>5. /\ Cardinality(J) = Cardinality(I) + 1 /\ Nth(J, Cardinality(I) + 1) = last
      /\ \A n \in 1 .. Cardinality(I) : Nth(J, n) = Nth(I, n) /\ Nth(I, n) \in I
  BY <1>1, <1>2, NthLast
<1>6. /\ G \in Seq(S) /\ Len(G) = Cardinality(I)
      /\ \A n \in 1 .. Cardinality(I) : G[n] = s[Nth(I, n)]
  BY SelectedType
<1>7. /\ H \in Seq(S) /\ Len(H) = Cardinality(J)
      /\ \A n \in 1 .. Cardinality(J) : H[n] = r[Nth(J, n)]
  BY <1>2, <1>3, SelectedType
<1> HIDE DEF G, H, J
<1>8. \A n \in 1 .. Len(G) : H[n] = G[n]
  <2> SUFFICES ASSUME NEW n \in 1 .. Cardinality(I) PROVE H[n] = G[n]
    BY <1>6
  <2>1. n \in 1 .. Cardinality(J)
    BY <1>1, <1>5
  <2>2. H[n] = r[Nth(I, n)] /\ Nth(I, n) \in I
    BY <1>5, <1>7, <2>1, Zenon
  <2> QED
    BY <1>2, <1>6, <2>2, Zenon
<1>9. H[Len(G) + 1] = e
  BY <1>1, <1>2, <1>5, <1>6, <1>7
<1>10. H = Append(G, e)
  BY <1>1, <1>5, <1>6, <1>7, <1>8, <1>9
<1> QED
  BY <1>4, <1>10 DEF G, H, J, r, last
(* Elements that are all selected follow the ones selected before.         *)
LEMMA NthBehind ==
  ASSUME NEW m \in Nat, NEW I \in SUBSET (1 .. m), NEW k \in Nat
  PROVE  LET J == I \union (m + 1 .. m + k) IN
         /\ J \in SUBSET (1 .. m + k) /\ Cardinality(J) = Cardinality(I) + k
         /\ \A n \in 1 .. Cardinality(I) : Nth(J, n) = Nth(I, n) /\ Nth(I, n) \in I
         /\ \A n \in 1 .. k : Nth(J, Cardinality(I) + n) = m + n
<1> DEFINE Behind(n) == I \union (m + 1 .. m + n)
<1>1. /\ I \in SUBSET Nat /\ IsFiniteSet(I) /\ Cardinality(I) \in Nat
      /\ \A i \in I : i <= m
  <2>1. \A i \in I : i <= m
    OBVIOUS
  <2> QED
    BY <2>1, PlacesFinite, Zenon
<1>2. ASSUME NEW n \in Nat
      PROVE  /\ Behind(n) \in SUBSET (1 .. m + n) /\ IsFiniteSet(Behind(n))
             /\ Cardinality(Behind(n)) = Cardinality(I) + n
  <2> DEFINE B == m + 1 .. m + n
  <2>1. IsFiniteSet(B) /\ Cardinality(B) = n
    <3>1. m + 1 \in Int /\ m + n \in Int
      OBVIOUS
    <3>2. IsFiniteSet(B) /\ Cardinality(B) = IF m + 1 > m + n THEN 0 ELSE (m + n) - (m + 1) + 1
      BY <3>1, FS_Interval
    <3> HIDE DEF B
    <3> QED
      BY <3>2
  <2>2. I \cap B = {}
    BY <1>1
  <2>3. Behind(n) \in SUBSET (1 .. m + n)
    OBVIOUS
  <2> HIDE DEF B
  <2>4. IsFiniteSet(I \union B) /\ Cardinality(I \union B) = Cardinality(I) + n
    <3>1. /\ IsFiniteSet(I \union B)
          /\ Cardinality(I \union B) =
               Cardinality(I) + Cardinality(B) - Cardinality(I \cap B)
      BY <1>1, <2>1, FS_Union
    <3> QED
      BY <1>1, <2>1, <2>2, <3>1, FS_EmptySet
  <2> QED
    BY <2>3, <2>4 DEF B
<1>3. \A n \in 1 .. Cardinality(I) : Nth(Behind(k), n) = Nth(I, n) /\ Nth(I, n) \in I
  <2>1. \A i \in I : \A j \in Behind(k) \ I : i < j
    BY <1>1
  <2>2. I \subseteq Behind(k) /\ Behind(k) \in SUBSET Nat /\ IsFiniteSet(Behind(k))
    <3>1. Behind(k) \in SUBSET (1 .. m + k) /\ IsFiniteSet(Behind(k)) /\ I \subseteq Behind(k)
      BY <1>2
    <3> HIDE DEF Behind
    <3>2. \A j \in Behind(k) : j \in Nat
      BY <3>1
    <3> QED
      BY <3>1, <3>2, Zenon
  <2> HIDE DEF Behind
  <2> QED
    BY <1>1, <2>1, <2>2, NthStays
<1>4. \A n \in 1 .. k : Nth(Behind(k), Cardinality(I) + n) = m + n
  <2> SUFFICES ASSUME NEW n \in 1 .. k PROVE Nth(Behind(k), Cardinality(I) + n) = m + n
    OBVIOUS
  <2>1. UpTo(Behind(k), m + n) = Behind(n)
    <3>1. \A j : j \in Behind(k) /\ j <= m + n <=> j \in Behind(n)
      <4>1. \A j \in I : j <= m + n
        BY <1>1
      <4>2. \A j \in m + 1 .. m + k : j <= m + n <=> j \in m + 1 .. m + n
        OBVIOUS
      <4>3. m + 1 .. m + n \subseteq m + 1 .. m + k
        OBVIOUS
      <4> QED
        BY <4>1, <4>2, <4>3, Zenon
    <3> HIDE DEF Behind
    <3> QED
      BY <3>1 DEF UpTo
  <2>2. n \in Nat /\ m + n \in Behind(k)
    OBVIOUS
  <2>3. Cardinality(UpTo(Behind(k), m + n)) = Cardinality(I) + n
    BY <1>2, <2>1, <2>2
  <2>4. /\ Behind(k) \in SUBSET (1 .. m + k) /\ IsFiniteSet(Behind(k))
        /\ Cardinality(Behind(k)) = Cardinality(I) + k
    BY <1>2
  <2> HIDE DEF Behind
  <2>5. Cardinality(I) + n \in 1 .. Cardinality(Behind(k))
    BY <1>1, <2>4
  <2>6. Behind(k) \in SUBSET Nat
    <3>1. \A j \in Behind(k) : j \in Nat
      BY <2>4
    <3> QED
      BY <3>1, Zenon
  <2> QED
    BY <2>2, <2>3, <2>4, <2>5, <2>6, NthIs
<1> QED
  BY <1>2, <1>3, <1>4

LEMMA SelectedConcat ==
  ASSUME NEW S, NEW s \in Seq(S), NEW u \in Seq(S), NEW I \in SUBSET (1 .. Len(s))
  PROVE  Selected(s \o u, I \union (Len(s) + 1 .. Len(s) + Len(u))) = Selected(s, I) \o u
<1> DEFINE r == s \o u
           m == Len(s)
           k == Len(u)
           J == I \union (m + 1 .. m + k)
           G == Selected(s, I)
           H == Selected(r, J)
<1>1. /\ r \in Seq(S) /\ Len(r) = m + k /\ m \in Nat /\ k \in Nat
      /\ \A i \in 1 .. m : r[i] = s[i]
      /\ \A i \in 1 .. k : r[m + i] = u[i]
  OBVIOUS
<1>2. I \in SUBSET (1 .. m)
  OBVIOUS
<1>3. /\ G \in Seq(S) /\ Len(G) = Cardinality(I) /\ Cardinality(I) \in Nat
      /\ \A n \in 1 .. Cardinality(I) : G[n] = s[Nth(I, n)]
  BY SelectedType, PlacesFinite
<1> HIDE DEF r, m, k
<1>4. /\ J \in SUBSET (1 .. Len(r)) /\ Cardinality(J) = Cardinality(I) + k
      /\ \A n \in 1 .. Cardinality(I) : Nth(J, n) = Nth(I, n) /\ Nth(I, n) \in I
      /\ \A n \in 1 .. k : Nth(J, Cardinality(I) + n) = m + n
  BY <1>1, <1>2, NthBehind
<1> HIDE DEF J
<1>5. /\ H \in Seq(S) /\ Len(H) = Cardinality(J)
      /\ \A n \in 1 .. Cardinality(J) : H[n] = r[Nth(J, n)]
  BY <1>1, <1>4, SelectedType
<1> HIDE DEF G, H
<1>6. \A n \in 1 .. Len(G) : H[n] = G[n]
  <2> SUFFICES ASSUME NEW n \in 1 .. Cardinality(I) PROVE H[n] = G[n]
    BY <1>3
  <2>1. n \in 1 .. Cardinality(J)
    BY <1>1, <1>3, <1>4
  <2>2. H[n] = r[Nth(I, n)] /\ Nth(I, n) \in I
    BY <1>4, <1>5, <2>1, Zenon
  <2>3. r[Nth(I, n)] = s[Nth(I, n)]
    BY <1>1, <1>2, <2>2, Zenon
  <2> QED
    BY <1>3, <2>2, <2>3, Zenon
<1>7. \A n \in 1 .. k : H[Len(G) + n] = u[n]
  <2> SUFFICES ASSUME NEW n \in 1 .. k PROVE H[Cardinality(I) + n] = u[n]
    BY <1>3
  <2>1. Cardinality(I) + n \in 1 .. Cardinality(J)
    BY <1>1, <1>3, <1>4
  <2> QED
    BY <1>1, <1>4, <1>5, <2>1
<1>8. Len(H) = Len(G) + Len(u)
  BY <1>3, <1>4, <1>5 DEF k
<1>9. H = G \o u
  <2>1. \A n \in 1 .. Len(u) : H[Len(G) + n] = u[n]
    BY <1>7 DEF k
  <2>2. H \in Seq(S) /\ G \in Seq(S)
    BY <1>3, <1>5
  <2> QED
    BY <1>6, <1>8, <2>1, <2>2, ConcatIs
<1> QED
  BY <1>9 DEF G, H, J, r, m, k
=============================================================================
