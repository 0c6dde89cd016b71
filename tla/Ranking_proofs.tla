---------------------------- MODULE Ranking_proofs ----------------------------
(***************************************************************************)
(* What holds of the way from a document to an answer, for any stores, any *)
(* queries and any scores: the indexes answer exactly for what they hold,  *)
(* and nothing is lost unfairly between the two lists and the result; and, *)
(* for any document and any budget, what is indexed is what was written.   *)
(*                                                                         *)
(* First RankedBy, of which everything else is made, as a stable sort:     *)
(* it orders the places of a list by the elements that stand there and,    *)
(* between equals, by the places themselves.                               *)
(***************************************************************************)
EXTENDS Ranking, Chunking, Recursion_proofs

-----------------------------------------------------------------------------
(* A stable sort.  RankedBy orders the places of a list by the elements    *)
(* that stand there and, between equals, by the places themselves.         *)

\* How many numbers there are from 1 to n.
LEMMA SpanIsCounted ==
  ASSUME NEW n \in Nat PROVE IsFiniteSet(1 .. n) /\ Cardinality(1 .. n) = n
<1>1. 1 > n => n = 0
  OBVIOUS
<1>2. QED
  BY <1>1, FS_Interval

\* above is a strict order on V in which what is not ordered is equal.
WeakOrder(above, V) ==
  /\ \A x, y \in V : <<x, y>> \in above => <<y, x>> \notin above
  /\ \A x, y, z \in V : <<x, z>> \in above => <<x, y>> \in above \/ <<y, z>> \in above

\* Place i of s comes before place j.
Ahead(s, above, i, j) ==
  <<s[i], s[j]>> \in above \/ (<<s[j], s[i]>> \notin above /\ i < j)

\* A weak order on the elements orders the places.
LEMMA PlacesAreOrdered ==
  ASSUME NEW V, NEW s \in Seq(V), NEW above, WeakOrder(above, V),
         NEW R, R = {ij \in (1 .. Len(s)) \X (1 .. Len(s)) : Ahead(s, above, ij[1], ij[2])}
  PROVE  /\ Orders(R, 1 .. Len(s))
         /\ \A i, j \in 1 .. Len(s) : <<i, j>> \in R <=> Ahead(s, above, i, j)
<1> DEFINE D == 1 .. Len(s)
           B(x, y) == <<x, y>> \in above
<1>1. \A i \in D : s[i] \in V /\ i \in Int
  OBVIOUS
<1>2. \A i, j \in D : <<i, j>> \in R <=> Ahead(s, above, i, j)
  OBVIOUS
<1>3. /\ \A x, y \in V : B(x, y) => ~ B(y, x)
      /\ \A x, y, z \in V : B(x, z) => B(x, y) \/ B(y, z)
  BY DEF WeakOrder
<1>4. \A i, j \in D : Ahead(s, above, i, j) <=> B(s[i], s[j]) \/ (~ B(s[j], s[i]) /\ i < j)
  BY DEF Ahead
<1> HIDE DEF D, B
<1>5. \A i \in D : ~ Ahead(s, above, i, i)
  BY <1>1, <1>3, <1>4
<1>6. ASSUME NEW i \in D, NEW j \in D, NEW k \in D, Ahead(s, above, i, j), Ahead(s, above, j, k)
      PROVE  Ahead(s, above, i, k)
  <2>1. s[i] \in V /\ s[j] \in V /\ s[k] \in V /\ i \in Int /\ j \in Int /\ k \in Int
    BY <1>1
  <2>2. B(s[i], s[j]) \/ (~ B(s[j], s[i]) /\ i < j)
    BY <1>4, <1>6
  <2>3. B(s[j], s[k]) \/ (~ B(s[k], s[j]) /\ j < k)
    BY <1>4, <1>6
  <2>4. B(s[i], s[k]) \/ (~ B(s[k], s[i]) /\ i < k)
    BY <1>3, <2>1, <2>2, <2>3
  <2>5. QED
    BY <1>4, <2>4
<1>7. \A i, j \in D : i = j \/ Ahead(s, above, i, j) \/ Ahead(s, above, j, i)
  <2> SUFFICES ASSUME NEW i \in D, NEW j \in D, i # j
               PROVE  Ahead(s, above, i, j) \/ Ahead(s, above, j, i)
    OBVIOUS
  <2>1. i < j \/ j < i
    BY <1>1
  <2>2. QED
    BY <1>3, <1>4, <2>1
<1>8. QED
  BY <1>2, <1>5, <1>6, <1>7 DEF Orders, D

\* The order of the places that a stable sort of s puts them in: g[k] is the place
\* of s that comes k-th.
Sorts(g, s, above) ==
  /\ g \in [1 .. Len(s) -> 1 .. Len(s)]
  /\ \A j, k \in 1 .. Len(s) : j < k <=> Ahead(s, above, g[j], g[k])
  /\ \A j, k \in 1 .. Len(s) : g[j] = g[k] => j = k
  /\ \A i \in 1 .. Len(s) : \E k \in 1 .. Len(s) : g[k] = i

\* RankedBy is a stable sort.
LEMMA RankedBySorts ==
  ASSUME NEW V, NEW s \in Seq(V), NEW above, WeakOrder(above, V)
  PROVE  \E g : Sorts(g, s, above) /\ RankedBy(s, above) = [k \in 1 .. Len(s) |-> s[g[k]]]
<1> DEFINE S == 1 .. Len(s)
           R == {ij \in S \X S : Ahead(s, above, ij[1], ij[2])}
           n == Len(s)
           c(i) == Cardinality(Below(S, R, i))
           At(k) == CHOOSE i \in S : 1 + c(i) = k
           g == [k \in S |-> At(k)]
<1>1. /\ Orders(R, S)
      /\ \A i, j \in S : <<i, j>> \in R <=> Ahead(s, above, i, j)
  BY PlacesAreOrdered
<1>2. IsFiniteSet(S) /\ Cardinality(S) = n /\ n \in Nat
  <2>1. n \in Nat
    OBVIOUS
  <2> HIDE DEF n
  <2>2. IsFiniteSet(1 .. n) /\ Cardinality(1 .. n) = n
    BY <2>1, SpanIsCounted
  <2>3. QED
    BY <2>1, <2>2 DEF n
<1>3. \A i \in S : {j \in S : Ahead(s, above, j, i)} = Below(S, R, i)
  BY <1>1 DEF Below
<1>4. RankedBy(s, above) = [k \in S |-> s[At(k)]]
  <2>1. DOMAIN s = S
    OBVIOUS
  <2>2. \A i \in S : {j \in S : <<s[j], s[i]>> \in above \/ (<<s[i], s[j]>> \notin above /\ j < i)}
                     = Below(S, R, i)
    BY <1>3 DEF Ahead
  <2> HIDE DEF R
  <2> DEFINE Raw(k) == CHOOSE i \in S : 1 + Cardinality(
               {j \in S : <<s[j], s[i]>> \in above \/ (<<s[i], s[j]>> \notin above /\ j < i)}) = k
  <2>3. RankedBy(s, above) = [k \in S |-> s[Raw(k)]]
    BY <2>1 DEF RankedBy
  <2>4. \A k \in S : Raw(k) = At(k)
    <3> HIDE DEF S
    <3>1. QED
      BY <2>2
  <2> HIDE DEF Raw, At
  <2>5. QED
    BY <2>3, <2>4
<1>5. /\ \A x \in S : c(x) \in 0 .. Cardinality(S) - 1
      /\ \A x, y \in S : <<x, y>> \in R <=> c(x) < c(y)
      /\ \A x, y \in S : c(x) = c(y) => x = y
      /\ \A k \in 0 .. Cardinality(S) - 1 : \E x \in S : c(x) = k
  <2> HIDE DEF S, R
  <2>1. QED
    BY ONLY <1>1, <1>2, PlacesAreCounted
<1> HIDE DEF R
<1>6. \A x \in S : c(x) \in 0 .. n - 1 /\ c(x) + 1 \in S
  BY <1>2, <1>5
<1>7. \A k \in S : At(k) \in S /\ c(At(k)) = k - 1
  <2> SUFFICES ASSUME NEW k \in S PROVE At(k) \in S /\ c(At(k)) = k - 1
    OBVIOUS
  <2>1. k - 1 \in 0 .. Cardinality(S) - 1 /\ k \in Int
    BY <1>2
  <2>2. PICK x \in S : c(x) = k - 1
    BY <1>5, <2>1
  <2>3. 1 + c(x) = k
    BY <2>1, <2>2
  <2> HIDE DEF S, c
  <2>4. At(k) \in S /\ 1 + c(At(k)) = k
    BY <2>2, <2>3
  <2>5. c(At(k)) \in Int
    BY <1>2, <1>6, <2>4
  <2> HIDE DEF At
  <2>6. QED
    BY <2>1, <2>4, <2>5
<1>8. g \in [S -> S] /\ \A k \in S : g[k] \in S /\ c(g[k]) = k - 1
  BY <1>7
<1>9. \A j, k \in S : j < k <=> Ahead(s, above, g[j], g[k])
  <2> SUFFICES ASSUME NEW j \in S, NEW k \in S PROVE j < k <=> Ahead(s, above, g[j], g[k])
    OBVIOUS
  <2>1. g[j] \in S /\ c(g[j]) = j - 1 /\ g[k] \in S /\ c(g[k]) = k - 1 /\ j \in Int /\ k \in Int
    BY <1>8
  <2> HIDE DEF g, c, S
  <2>2. <<g[j], g[k]>> \in R <=> c(g[j]) < c(g[k])
    BY <1>5, <2>1
  <2>3. <<g[j], g[k]>> \in R <=> Ahead(s, above, g[j], g[k])
    BY <1>1, <2>1
  <2>4. QED
    BY <2>1, <2>2, <2>3
<1>10. \A j, k \in S : g[j] = g[k] => j = k
  <2> SUFFICES ASSUME NEW j \in S, NEW k \in S, g[j] = g[k] PROVE j = k
    OBVIOUS
  <2>1. c(g[j]) = j - 1 /\ c(g[k]) = k - 1 /\ j \in Int /\ k \in Int
    BY <1>8
  <2> HIDE DEF g, c
  <2>2. j - 1 = k - 1
    BY <2>1
  <2>3. QED
    BY <2>1, <2>2
<1>11. \A i \in S : \E k \in S : g[k] = i
  <2> SUFFICES ASSUME NEW i \in S PROVE \E k \in S : g[k] = i
    OBVIOUS
  <2>1. c(i) + 1 \in S /\ c(i) \in Nat
    BY <1>6
  <2>2. g[c(i) + 1] \in S /\ c(g[c(i) + 1]) = c(i) + 1 - 1
    BY <1>8, <2>1
  <2> HIDE DEF g, c
  <2>3. c(g[c(i) + 1]) = c(i)
    BY <2>1, <2>2
  <2>4. g[c(i) + 1] = i
    BY <1>5, <2>2, <2>3 DEF c
  <2>5. QED
    BY <2>1, <2>4
<1>12. RankedBy(s, above) = [k \in S |-> s[g[k]]]
  BY <1>4
<1> HIDE DEF g
<1>13. Sorts(g, s, above)
  BY <1>8, <1>9, <1>10, <1>11 DEF Sorts
<1>14. QED
  BY <1>12, <1>13

\* Sorting keeps what it sorts.
LEMMA RankedByPermutes ==
  ASSUME NEW V, NEW s \in Seq(V), NEW above, WeakOrder(above, V)
  PROVE  /\ RankedBy(s, above) \in Seq(V) /\ Len(RankedBy(s, above)) = Len(s)
         /\ Range(RankedBy(s, above)) = Range(s)
         /\ IsInjective(s) => IsInjective(RankedBy(s, above))
<1> DEFINE n == Len(s)
           r == RankedBy(s, above)
<1>1. PICK g : Sorts(g, s, above) /\ r = [k \in 1 .. n |-> s[g[k]]]
  BY RankedBySorts
<1>2. n \in Nat /\ DOMAIN s = 1 .. n /\ \A i \in 1 .. n : s[i] \in V
  OBVIOUS
<1> HIDE DEF r, n
<1>3. \A k \in 1 .. n : g[k] \in 1 .. n
  BY <1>1 DEF Sorts, n
<1>4. r \in Seq(V) /\ Len(r) = n /\ DOMAIN r = 1 .. n /\ \A k \in 1 .. n : r[k] = s[g[k]]
  BY <1>1, <1>2, <1>3
<1>5. Range(r) = Range(s)
  <2>1. \A i \in 1 .. n : \E k \in 1 .. n : g[k] = i
    BY <1>1 DEF Sorts, n
  <2>2. \A i \in 1 .. n : \E k \in 1 .. n : r[k] = s[i]
    <3> SUFFICES ASSUME NEW i \in 1 .. n PROVE \E k \in 1 .. n : r[k] = s[i]
      OBVIOUS
    <3>1. PICK k \in 1 .. n : g[k] = i
      BY <2>1
    <3>2. QED
      BY <1>4, <3>1
  <2>3. \A k \in 1 .. n : \E i \in 1 .. n : r[k] = s[i]
    BY <1>3, <1>4
  <2>4. QED
    <3>1. \A x : x \in Range(r) <=> \E k \in 1 .. n : x = r[k]
      BY <1>4 DEF Range
    <3>2. \A x : x \in Range(s) <=> \E i \in 1 .. n : x = s[i]
      BY <1>2 DEF Range
    <3>3. \A x : x \in Range(r) <=> x \in Range(s)
      BY <2>2, <2>3, <3>1, <3>2
    <3>4. QED
      BY <3>3
<1>6. IsInjective(s) => IsInjective(r)
  <2> SUFFICES ASSUME IsInjective(s), NEW j \in 1 .. n, NEW k \in 1 .. n, r[j] = r[k] PROVE j = k
    BY <1>4 DEF IsInjective
  <2>1. g[j] = g[k]
    BY <1>2, <1>3, <1>4 DEF IsInjective
  <2>2. QED
    BY <1>1, <2>1 DEF Sorts, n
<1>7. QED
  BY <1>4, <1>5, <1>6 DEF r, n

\* These are the places of s where a member of W stands.
PlacesOfAll(places, s, W) == \A i : i \in places <=> i \in DOMAIN s /\ s[i] \in W

\* The places up to F.
UpTo(places, F) == {k \in places : k <= F}

\* Sorting what is chosen of a list chooses of the list sorted.
LEMMA SortingCommutes ==
  ASSUME NEW V, NEW s \in Seq(V), NEW above, WeakOrder(above, V), NEW W,
         NEW M, PlacesOfAll(M, s, W),
         NEW P, PlacesOfAll(P, RankedBy(s, above), W)
  PROVE  Chosen(RankedBy(s, above), P) = RankedBy(Chosen(s, M), above)
<1> DEFINE n == Len(s)
           m == Cardinality(M)
           A == Ascending(M)
           t == Chosen(s, M)
           r == RankedBy(s, above)
<1>1. /\ n \in Nat /\ DOMAIN s = 1 .. n /\ M \in SUBSET (DOMAIN s)
      /\ \A i : i \in M <=> i \in DOMAIN s /\ s[i] \in W
      /\ \A k : k \in P <=> k \in DOMAIN r /\ r[k] \in W
  BY DEF PlacesOfAll
<1>2. /\ m \in Nat /\ t \in Seq(V) /\ Len(t) = m /\ A \in [1 .. m -> M]
      /\ \A k \in 1 .. m : t[k] = s[A[k]]
      /\ \A i \in M : \E k \in 1 .. m : A[k] = i
      /\ \A j, k \in 1 .. m : j < k <=> A[j] < A[k]
  BY <1>1, ChosenPlaces
<1>3. PICK g : Sorts(g, s, above) /\ r = [k \in 1 .. n |-> s[g[k]]]
  BY RankedBySorts
<1>4. PICK h : Sorts(h, t, above) /\ RankedBy(t, above) = [k \in 1 .. m |-> t[h[k]]]
  BY <1>2, RankedBySorts
<1>5. /\ h \in [1 .. m -> 1 .. m]
      /\ \A j, k \in 1 .. m : j < k <=> Ahead(t, above, h[j], h[k])
      /\ \A i \in 1 .. m : \E k \in 1 .. m : h[k] = i
  BY <1>2, <1>4 DEF Sorts
<1>6. /\ g \in [1 .. n -> 1 .. n]
      /\ \A j, k \in 1 .. n : j < k <=> Ahead(s, above, g[j], g[k])
      /\ \A j, k \in 1 .. n : g[j] = g[k] => j = k
      /\ \A i \in 1 .. n : \E k \in 1 .. n : g[k] = i
  BY <1>3 DEF Sorts
<1>7. r \in Seq(V) /\ DOMAIN r = 1 .. n /\ \A k \in 1 .. n : r[k] = s[g[k]]
  BY <1>3, RankedByPermutes
<1>8. P = {k \in 1 .. n : g[k] \in M}
  BY <1>1, <1>6, <1>7
<1>9. M \in SUBSET (1 .. n) /\ M \in SUBSET Int
  BY <1>1
<1> HIDE DEF m, A, t, n, r
<1> DEFINE u == [k \in 1 .. m |-> CHOOSE i \in 1 .. n : g[i] = A[h[k]]]
<1>10. \A k \in 1 .. m : h[k] \in 1 .. m /\ A[h[k]] \in M /\ A[h[k]] \in 1 .. n
  BY <1>2, <1>5, <1>9
<1>11. \A k \in 1 .. m : u[k] \in 1 .. n /\ g[u[k]] = A[h[k]]
  <2> SUFFICES ASSUME NEW k \in 1 .. m PROVE u[k] \in 1 .. n /\ g[u[k]] = A[h[k]]
    OBVIOUS
  <2>1. \E i \in 1 .. n : g[i] = A[h[k]]
    BY <1>6, <1>10
  <2>2. QED
    BY <2>1
<1>12. u \in [1 .. m -> 1 .. n]
  BY <1>11
<1> HIDE DEF u
<1>13. \A j, k \in 1 .. m : j < k => u[j] < u[k]
  <2> SUFFICES ASSUME NEW j \in 1 .. m, NEW k \in 1 .. m, j < k PROVE u[j] < u[k]
    OBVIOUS
  <2>1. Ahead(t, above, h[j], h[k])
    BY <1>5
  <2>2. t[h[j]] = s[A[h[j]]] /\ t[h[k]] = s[A[h[k]]] /\ (h[j] < h[k] <=> A[h[j]] < A[h[k]])
    BY <1>2, <1>10
  <2>3. Ahead(s, above, A[h[j]], A[h[k]])
    BY <2>1, <2>2 DEF Ahead
  <2>4. QED
    BY <1>6, <1>11, <2>3
<1>14. u \in [1 .. m -> P] /\ \A x \in P : \E k \in 1 .. m : u[k] = x
  <2>1. ASSUME NEW k \in 1 .. m PROVE u[k] \in P
    BY <1>8, <1>10, <1>11
  <2>2. ASSUME NEW x \in P PROVE \E k \in 1 .. m : u[k] = x
    <3>1. x \in 1 .. n /\ g[x] \in M
      BY <1>8
    <3>2. PICK i \in 1 .. m : A[i] = g[x]
      BY <1>2, <3>1
    <3>3. PICK k \in 1 .. m : h[k] = i
      BY <1>5
    <3>4. g[u[k]] = g[x] /\ u[k] \in 1 .. n
      BY <1>11, <3>2, <3>3
    <3>5. QED
      BY <1>6, <3>1, <3>4
  <2>3. QED
    BY <1>12, <2>1, <2>2
<1>15. Chosen(r, P) = [k \in 1 .. m |-> r[u[k]]]
  <2>1. P \in SUBSET Int
    BY <1>8
  <2>2. m \in Nat
    BY <1>2
  <2>3. QED
    BY ONLY <2>1, <2>2, <1>13, <1>14, ChosenInOrder
<1>16. \A k \in 1 .. m : r[u[k]] = t[h[k]]
  <2> SUFFICES ASSUME NEW k \in 1 .. m PROVE r[u[k]] = t[h[k]]
    OBVIOUS
  <2>1. t[h[k]] = s[A[h[k]]] /\ u[k] \in 1 .. n /\ g[u[k]] = A[h[k]]
    BY <1>2, <1>10, <1>11
  <2>2. QED
    BY <1>7, <2>1
<1>17. Chosen(r, P) = RankedBy(t, above)
  BY <1>4, <1>15, <1>16
<1>18. QED
  BY <1>17 DEF t, r

\* A set of numbers from 1 on without gaps.
LEMMA InitialSegment ==
  ASSUME NEW n \in Nat, NEW D \in SUBSET (1 .. n),
         \A j, k \in 1 .. n : k \in D /\ j < k => j \in D
  PROVE  \E c \in 0 .. n : D = 1 .. c
<1>1. CASE D = {}
  <2>1. 0 \in 0 .. n /\ 1 .. 0 = {}
    OBVIOUS
  <2>2. QED
    BY <1>1, <2>1
<1>2. CASE D # {}
  <2>1. IsFiniteSet(D) /\ D \in SUBSET Int
    <3>1. IsFiniteSet(1 .. n)
      BY FS_Interval
    <3>2. IsFiniteSet(D)
      BY <3>1, FS_Subset
    <3>3. QED
      BY <3>2
  <2>2. PICK c \in D : \A y \in D : c >= y
    BY <1>2, <2>1, ExtremesExist
  <2>3. c \in 1 .. n
    OBVIOUS
  <2>4. \A j \in 1 .. c : j \in D
    BY <2>3
  <2>5. \A j \in D : j \in 1 .. c
    BY <2>2, <2>3
  <2>6. D = 1 .. c
    BY <2>4, <2>5
  <2>7. c \in 0 .. n
    BY <2>3
  <2>8. QED
    BY <2>6, <2>7
<1>3. QED
  BY <1>1, <1>2

\* Choosing of the beginning of a list chooses the beginning.
LEMMA ChosenOfPrefix ==
  ASSUME NEW V, NEW r \in Seq(V), NEW F \in 0 .. Len(r), NEW P \in SUBSET (DOMAIN r)
  PROVE  \E c \in 0 .. Cardinality(P) :
           /\ c = Cardinality(UpTo(P, F))
           /\ Chosen(SubSeq(r, 1, F), UpTo(P, F)) = [k \in 1 .. c |-> Chosen(r, P)[k]]
<1> DEFINE n == Len(r)
           Q == UpTo(P, F)
           m == Cardinality(P)
           A == Ascending(P)
           b == SubSeq(r, 1, F)
           D == {k \in 1 .. m : A[k] <= F}
<1>1. /\ m \in Nat /\ Chosen(r, P) \in Seq(V) /\ Len(Chosen(r, P)) = m /\ A \in [1 .. m -> P]
      /\ \A k \in 1 .. m : Chosen(r, P)[k] = r[A[k]]
      /\ \A i \in P : \E k \in 1 .. m : A[k] = i
      /\ \A j, k \in 1 .. m : j < k <=> A[j] < A[k]
  BY ChosenPlaces
<1>2. b \in Seq(V) /\ DOMAIN b = 1 .. F /\ F \in Nat /\ \A i \in 1 .. F : b[i] = r[i]
  OBVIOUS
<1>3. /\ P \in SUBSET Nat /\ Q \in SUBSET (1 .. F) /\ P \in SUBSET (1 .. n)
      /\ \A k : k \in Q <=> k \in P /\ k <= F
  BY DEF UpTo
<1> HIDE DEF n, m, A, b, Q
<1>4. \A k \in 1 .. m : A[k] \in P /\ A[k] \in Nat
  BY <1>1, <1>3
<1>5. PICK c \in 0 .. m : D = 1 .. c
  <2>1. D \in SUBSET (1 .. m)
    OBVIOUS
  <2>2. \A j, k \in 1 .. m : k \in D /\ j < k => j \in D
    <3> SUFFICES ASSUME NEW j \in 1 .. m, NEW k \in 1 .. m, k \in D, j < k PROVE j \in D
      OBVIOUS
    <3>1. A[k] <= F /\ A[j] < A[k] /\ A[j] \in Nat /\ A[k] \in Nat
      BY <1>1, <1>4
    <3>2. QED
      BY <1>2, <3>1
  <2> HIDE DEF D
  <2>3. QED
    BY <1>1, <2>1, <2>2, InitialSegment
<1> DEFINE g == [k \in 1 .. c |-> A[k]]
<1>6. c \in Nat /\ \A k \in 1 .. c : k \in 1 .. m /\ A[k] <= F /\ A[k] \in Q
  <2>1. \A k \in 1 .. c : k \in D
    BY <1>5
  <2>2. QED
    BY <1>1, <1>3, <1>4, <2>1
<1>7. g \in [1 .. c -> Q]
  BY <1>6
<1>8. \A j, k \in 1 .. c : j < k => g[j] < g[k]
  BY <1>1, <1>6
<1>9. \A i \in Q : \E k \in 1 .. c : g[k] = i
  <2>2. ASSUME NEW i \in Q PROVE \E k \in 1 .. c : g[k] = i
    <3>1. i \in P /\ i <= F
      BY <1>3
    <3>2. PICK k \in 1 .. m : A[k] = i
      BY <1>1, <3>1
    <3>3. k \in 1 .. c
      BY <1>5, <3>1, <3>2
    <3>4. QED
      BY <3>2, <3>3
  <2> HIDE DEF g
  <2>3. QED
    BY <2>2
<1>10. \A k \in 1 .. c : g[k] = A[k]
  OBVIOUS
<1> HIDE DEF g
<1>11. Chosen(b, Q) = [k \in 1 .. c |-> b[g[k]]]
  <2>1. Q \in SUBSET Int
    BY <1>3
  <2>2. QED
    BY ONLY <1>6, <1>7, <1>8, <1>9, <2>1, ChosenInOrder
<1>12. \A k \in 1 .. c : b[g[k]] = Chosen(r, P)[k]
  <2> SUFFICES ASSUME NEW k \in 1 .. c PROVE b[g[k]] = Chosen(r, P)[k]
    OBVIOUS
  <2>1. g[k] \in 1 .. F /\ g[k] = A[k] /\ k \in 1 .. m
    BY <1>2, <1>3, <1>6, <1>7, <1>10
  <2>2. QED
    BY <1>1, <1>2, <2>1
<1>13. c = Cardinality(Q)
  <2>1. Q \in SUBSET (DOMAIN b)
    BY <1>2, <1>3
  <2>2. Len(Chosen(b, Q)) = Cardinality(Q)
    BY <1>2, <2>1, ChosenPlaces
  <2>3. Len(Chosen(b, Q)) = c
    <3>1. DOMAIN Chosen(b, Q) = 1 .. c /\ Chosen(b, Q) \in Seq(V)
      BY <1>2, <1>11, <2>1, ChosenPlaces
    <3>2. QED
      BY <1>6, <3>1
  <2>4. QED
    BY <2>2, <2>3
<1>14. QED
  BY <1>11, <1>12, <1>13 DEF b, m, Q

-----------------------------------------------------------------------------
(* The statistics of the BM25 index.                                       *)

Vocabulary(c) == (UNION {Terms(t) : t \in Text[c]}) \ Stopword
AllTerms == UNION {Vocabulary(c) : c \in Chunk}

\* What the documents d hold: their terms, who holds a term, and every place of a token.
TermsOf(d) == UNION {Terms(d[c]) : c \in DOMAIN d}
HoldersOf(d, t) == {c \in DOMAIN d : t \in Terms(d[c])}
TokenPlaces(d) == UNION {{c} \X DOMAIN d[c] : c \in DOMAIN d}

IndexState == [documents : UNION {[D -> Seq(AllTerms)] : D \in SUBSET Chunk},
               documentFrequency : UNION {[T -> Nat] : T \in SUBSET AllTerms},
               totalLength : Nat]

\* The statistics of an index are those of its documents.
Exact(index) ==
  /\ index \in IndexState
  /\ IsFiniteSet(DOMAIN index.documents) /\ IsFiniteSet(TokenPlaces(index.documents))
  /\ \A c \in DOMAIN index.documents : index.documents[c] \in Seq(Vocabulary(c))
  /\ DOMAIN index.documentFrequency = TermsOf(index.documents)
  /\ \A t \in TermsOf(index.documents) :
       index.documentFrequency[t] = Cardinality(HoldersOf(index.documents, t))
  /\ index.totalLength = Cardinality(TokenPlaces(index.documents))

LEMMA EmptyIsExact == Exact(EmptyIndex)
<1> DEFINE d == [c \in {} |-> <<>>]
<1>1. TermsOf(d) = {} /\ TokenPlaces(d) = {} /\ DOMAIN d = {}
  BY DEF TermsOf, TokenPlaces
<1>2. /\ EmptyIndex.documents = d /\ EmptyIndex.totalLength = 0
      /\ EmptyIndex.documentFrequency = [t \in {} |-> 0]
  BY DEF EmptyIndex
<1>3. EmptyIndex \in IndexState
  <2>1. d \in [{} -> Seq(AllTerms)] /\ [t \in {} |-> 0] \in [{} -> Nat]
    OBVIOUS
  <2>2. d \in UNION {[D -> Seq(AllTerms)] : D \in SUBSET Chunk}
    BY <2>1
  <2>3. [t \in {} |-> 0] \in UNION {[T -> Nat] : T \in SUBSET AllTerms}
    BY <2>1
  <2> HIDE DEF d
  <2>4. EmptyIndex = [documents |-> d, documentFrequency |-> [t \in {} |-> 0], totalLength |-> 0]
    BY DEF EmptyIndex, d
  <2>5. QED
    BY <2>2, <2>3, <2>4 DEF IndexState
<1> HIDE DEF d
<1>4. QED
  BY <1>1, <1>2, <1>3, FS_EmptySet DEF Exact

\* The places of one document.
LEMMA OwnPlaces ==
  ASSUME NEW c, NEW n \in Nat
  PROVE  IsFiniteSet({c} \X (1 .. n)) /\ Cardinality({c} \X (1 .. n)) = n
<1> DEFINE f == [i \in 1 .. n |-> <<c, i>>]
<1>1. {f[i] : i \in 1 .. n} = {c} \X (1 .. n)
  OBVIOUS
<1>2. IsFiniteSet(1 .. n) /\ Cardinality(1 .. n) = n
  BY FS_Interval
<1> DEFINE S == 1 .. n
<1>3. /\ IsFiniteSet({f[i] : i \in S})
      /\ (\A i, j \in S : f[i] = f[j] => i = j) => Cardinality({f[i] : i \in S}) = Cardinality(S)
  <2>1. DOMAIN f = S /\ f = [i \in S |-> f[i]] /\ IsFiniteSet(S)
    BY <1>2
  <2> HIDE DEF f, S
  <2>2. QED
    BY ONLY <2>1, ImageIsFinite
<1>4. \A i, j \in 1 .. n : f[i] = f[j] => i = j
  OBVIOUS
<1> HIDE DEF f
<1>5. QED
  BY <1>1, <1>2, <1>3, <1>4

\* Two finite sets without a common member.
LEMMA DisjointSum ==
  ASSUME NEW A, NEW B, IsFiniteSet(A), IsFiniteSet(B), A \cap B = {}
  PROVE  /\ IsFiniteSet(A \cup B)
         /\ Cardinality(A \cup B) = Cardinality(A) + Cardinality(B)
         /\ Cardinality(A) \in Nat /\ Cardinality(B) \in Nat
<1>1. Cardinality(A) \in Nat /\ Cardinality(B) \in Nat /\ Cardinality({}) = 0
  BY FS_CardinalityType, FS_EmptySet
<1>2. /\ IsFiniteSet(A \cup B)
      /\ Cardinality(A \cup B) = Cardinality(A) + Cardinality(B) - Cardinality(A \cap B)
  BY FS_Union
<1>3. Cardinality(A \cap B) = 0
  BY <1>1
<1>4. QED
  BY <1>1, <1>2, <1>3

\* Taking a document out of the index takes it out of its statistics.
LEMMA RemoveKeepsExact ==
  ASSUME NEW index, Exact(index), NEW c
  PROVE  /\ Exact(RemoveUnlocked(index, c))
         /\ DOMAIN RemoveUnlocked(index, c).documents = DOMAIN index.documents \ {c}
<1>1. CASE c \notin DOMAIN index.documents
  BY <1>1 DEF RemoveUnlocked
<1>2. CASE c \in DOMAIN index.documents
  <2> DEFINE d == index.documents
             f == index.documentFrequency
             e == [x \in DOMAIN d \ {c} |-> d[x]]
             gone == Terms(d[c])
             left == [t \in DOMAIN f |-> f[t] - (IF t \in gone THEN 1 ELSE 0)]
             kept == {u \in DOMAIN left : left[u] > 0}
             g == [t \in kept |-> left[t]]
             n == Len(d[c])
             rest == RemoveUnlocked(index, c)
  <2>1. rest = [documents |-> e, documentFrequency |-> g, totalLength |-> index.totalLength - n]
    BY <1>2 DEF RemoveUnlocked
  <2>2. /\ d \in UNION {[D -> Seq(AllTerms)] : D \in SUBSET Chunk}
        /\ f \in UNION {[T -> Nat] : T \in SUBSET AllTerms}
        /\ index.totalLength \in Nat
    BY DEF Exact, IndexState
  <2>3. /\ DOMAIN d \in SUBSET Chunk /\ \A x \in DOMAIN d : d[x] \in Seq(AllTerms)
        /\ DOMAIN f \in SUBSET AllTerms /\ \A t \in DOMAIN f : f[t] \in Nat
    BY <2>2
  <2>4. /\ IsFiniteSet(DOMAIN d) /\ IsFiniteSet(TokenPlaces(d))
        /\ \A x \in DOMAIN d : d[x] \in Seq(Vocabulary(x))
        /\ DOMAIN f = TermsOf(d)
        /\ \A t \in TermsOf(d) : f[t] = Cardinality(HoldersOf(d, t))
        /\ index.totalLength = Cardinality(TokenPlaces(d))
    BY DEF Exact
  <2> HIDE DEF d, f
  <2>5. DOMAIN e = DOMAIN d \ {c} /\ \A x \in DOMAIN e : e[x] = d[x]
    OBVIOUS
  <2>6. e \in UNION {[D -> Seq(AllTerms)] : D \in SUBSET Chunk}
    <3>1. DOMAIN d \ {c} \in SUBSET Chunk
      BY <2>3
    <3>2. e \in [DOMAIN d \ {c} -> Seq(AllTerms)]
      BY <2>3
    <3>3. QED
      BY <3>1, <3>2
  <2> HIDE DEF e
  <2>7. \A t : /\ HoldersOf(e, t) = HoldersOf(d, t) \ {c}
               /\ IsFiniteSet(HoldersOf(d, t)) /\ IsFiniteSet(HoldersOf(e, t))
               /\ c \in HoldersOf(d, t) <=> t \in gone
    <3> SUFFICES ASSUME NEW t
                 PROVE  /\ HoldersOf(e, t) = HoldersOf(d, t) \ {c}
                        /\ IsFiniteSet(HoldersOf(d, t)) /\ IsFiniteSet(HoldersOf(e, t))
                        /\ c \in HoldersOf(d, t) <=> t \in gone
      OBVIOUS
    <3>1. HoldersOf(e, t) = HoldersOf(d, t) \ {c}
      BY <2>5 DEF HoldersOf
    <3>2. IsFiniteSet(HoldersOf(d, t))
      <4>1. HoldersOf(d, t) \in SUBSET (DOMAIN d)
        BY DEF HoldersOf
      <4>2. QED
        BY <2>4, <4>1, FS_Subset
    <3>3. IsFiniteSet(HoldersOf(e, t))
      <4>1. HoldersOf(e, t) \in SUBSET HoldersOf(d, t)
        BY <3>1
      <4>2. QED
        BY <3>2, <4>1, FS_Subset
    <3>4. c \in HoldersOf(d, t) <=> t \in gone
      BY <1>2 DEF HoldersOf, d
    <3>5. QED
      BY <3>1, <3>2, <3>3, <3>4
  <2>8. \A t \in DOMAIN f : left[t] = Cardinality(HoldersOf(e, t)) /\ left[t] \in Nat
    <3> SUFFICES ASSUME NEW t \in DOMAIN f
                 PROVE  left[t] = Cardinality(HoldersOf(e, t)) /\ left[t] \in Nat
      OBVIOUS
    <3>1. left[t] = f[t] - (IF t \in gone THEN 1 ELSE 0)
      OBVIOUS
    <3>2. Cardinality(HoldersOf(d, t) \ {c}) =
            IF c \in HoldersOf(d, t) THEN Cardinality(HoldersOf(d, t)) - 1 ELSE Cardinality(HoldersOf(d, t))
      BY <2>7, FS_RemoveElement
    <3>3. f[t] = Cardinality(HoldersOf(d, t)) /\ f[t] \in Nat
      BY <2>3, <2>4
    <3>4. Cardinality(HoldersOf(e, t)) \in Nat
      BY <2>7, FS_CardinalityType
    <3> HIDE DEF left, gone
    <3>5. QED
      BY <2>7, <3>1, <3>2, <3>3, <3>4
  <2>9. DOMAIN left = DOMAIN f
    OBVIOUS
  <2> HIDE DEF left
  <2>10. kept = TermsOf(e)
    <3>1. \A t : t \in TermsOf(e) <=> HoldersOf(e, t) # {}
      BY DEF TermsOf, HoldersOf
    <3>2. \A t : t \in TermsOf(d) <=> HoldersOf(d, t) # {}
      BY DEF TermsOf, HoldersOf
    <3>3. \A t : HoldersOf(e, t) # {} <=> Cardinality(HoldersOf(e, t)) # 0
      BY <2>7, FS_EmptySet
    <3>4. \A t : t \in kept <=> t \in DOMAIN f /\ Cardinality(HoldersOf(e, t)) # 0
      BY <2>8, <2>9
    <3>5. \A t : t \in kept <=> t \in TermsOf(e)
      BY <2>4, <2>7, <3>1, <3>2, <3>3, <3>4
    <3>6. QED
      BY <3>5
  <2>11. /\ DOMAIN g = TermsOf(e) /\ \A t \in TermsOf(e) : g[t] = Cardinality(HoldersOf(e, t))
         /\ g \in UNION {[T -> Nat] : T \in SUBSET AllTerms}
    <3>1. kept \in SUBSET (DOMAIN f) /\ kept \in SUBSET AllTerms
      BY <2>3, <2>9
    <3>2. \A t \in kept : left[t] \in Nat /\ left[t] = Cardinality(HoldersOf(e, t))
      BY <2>8, <3>1
    <3> HIDE DEF kept
    <3>3. g \in [kept -> Nat]
      BY <3>2
    <3>4. QED
      BY <2>10, <3>1, <3>2, <3>3
  <2> HIDE DEF g, kept
  <2>12. /\ IsFiniteSet(TokenPlaces(e)) /\ index.totalLength - n = Cardinality(TokenPlaces(e))
         /\ index.totalLength - n \in Nat
    <3> DEFINE own == {c} \X (1 .. n)
    <3>1. n \in Nat /\ DOMAIN d[c] = 1 .. n
      BY <1>2, <2>3 DEF d
    <3>2. IsFiniteSet(own) /\ Cardinality(own) = n
      BY <3>1, OwnPlaces
    <3>3. TokenPlaces(d) = TokenPlaces(e) \cup own /\ TokenPlaces(e) \cap own = {}
      <4>1. \A x : x \in TokenPlaces(e) <=>
                     \E y \in DOMAIN d : y # c /\ x \in {y} \X DOMAIN d[y]
        BY <2>5 DEF TokenPlaces
      <4>2. \A x : x \in TokenPlaces(d) <=> \E y \in DOMAIN d : x \in {y} \X DOMAIN d[y]
        BY DEF TokenPlaces
      <4>3. c \in DOMAIN d
        BY <1>2 DEF d
      <4>4. \A x : x \in TokenPlaces(d) <=> x \in TokenPlaces(e) \cup own
        BY <3>1, <4>1, <4>2, <4>3
      <4>5. \A x : x \in TokenPlaces(e) => x \notin own
        BY <4>1
      <4>6. QED
        BY <4>4, <4>5
    <3> HIDE DEF own, n
    <3>4. IsFiniteSet(TokenPlaces(e))
      <4>1. TokenPlaces(e) \in SUBSET TokenPlaces(d)
        BY <3>3
      <4>2. QED
        BY <2>4, <4>1, FS_Subset
    <3>5. /\ Cardinality(TokenPlaces(e) \cup own) = Cardinality(TokenPlaces(e)) + Cardinality(own)
          /\ Cardinality(TokenPlaces(e)) \in Nat
      BY <3>2, <3>3, <3>4, DisjointSum
    <3>6. QED
      BY <2>4, <3>1, <3>2, <3>3, <3>4, <3>5
  <2>13. IsFiniteSet(DOMAIN e)
    <3>1. DOMAIN e \in SUBSET (DOMAIN d)
      BY <2>5
    <3>2. QED
      BY <2>4, <3>1, FS_Subset
  <2> HIDE DEF n, rest
  <2>14. rest \in IndexState
    BY <2>1, <2>6, <2>11, <2>12 DEF IndexState
  <2>15. Exact(rest)
    <3>1. rest.documents = e /\ rest.documentFrequency = g /\ rest.totalLength = index.totalLength - n
      BY <2>1
    <3>2. \A x \in DOMAIN e : e[x] \in Seq(Vocabulary(x))
      BY <2>4, <2>5
    <3>3. QED
      BY <2>11, <2>12, <2>13, <2>14, <3>1, <3>2 DEF Exact
  <2>16. QED
    BY <2>1, <2>5, <2>15 DEF rest, d
<1>3. QED
  BY <1>1, <1>2

\* How often a term counts, whether the index knows it or not.
LEMMA FrequencyIsExact ==
  ASSUME NEW index, Exact(index), NEW t
  PROVE  /\ FrequencyIn(index, t) = Cardinality(HoldersOf(index.documents, t))
         /\ IsFiniteSet(HoldersOf(index.documents, t)) /\ FrequencyIn(index, t) \in Nat
<1> DEFINE d == index.documents
<1>1. /\ IsFiniteSet(DOMAIN d) /\ DOMAIN index.documentFrequency = TermsOf(d)
      /\ \A u \in TermsOf(d) : index.documentFrequency[u] = Cardinality(HoldersOf(d, u))
  BY DEF Exact
<1> HIDE DEF d
<1>2. HoldersOf(d, t) \in SUBSET (DOMAIN d)
  BY DEF HoldersOf
<1>3. IsFiniteSet(HoldersOf(d, t)) /\ Cardinality(HoldersOf(d, t)) \in Nat
  BY <1>1, <1>2, FS_Subset, FS_CardinalityType
<1>4. t \notin TermsOf(d) => HoldersOf(d, t) = {}
  BY DEF TermsOf, HoldersOf
<1>5. FrequencyIn(index, t) = Cardinality(HoldersOf(d, t))
  BY <1>1, <1>4, FS_EmptySet DEF FrequencyIn
<1>6. QED
  BY <1>3, <1>5 DEF d

\* What tokenize leaves of a text.
LEMMA TokenizeTyped ==
  ASSUME NEW V, NEW text \in Seq(V)
  PROVE  Tokenize(text) \in Seq(Terms(text) \ Stopword)
<1> DEFINE P == {i \in DOMAIN text : text[i] \notin Stopword}
           tokens == Chosen(text, P)
           m == Cardinality(P)
<1>1. P \in SUBSET (DOMAIN text)
  OBVIOUS
<1>2. \A i \in P : text[i] \in Terms(text) \ Stopword
  BY DEF Terms
<1>3. Tokenize(text) = tokens
  BY DEF Tokenize
<1> HIDE DEF P
<1>4. /\ m \in Nat /\ tokens \in Seq(V) /\ Len(tokens) = m /\ Ascending(P) \in [1 .. m -> P]
      /\ \A k \in 1 .. m : tokens[k] = text[Ascending(P)[k]]
  BY <1>1, ChosenPlaces
<1> HIDE DEF tokens, m
<1>5. \A k \in 1 .. m : tokens[k] \in Terms(text) \ Stopword
  BY <1>2, <1>4
<1>6. QED
  BY <1>3, <1>4, <1>5

LEMMA TextTokens ==
  ASSUME RankingAssumption, NEW c \in Chunk, NEW text \in Text[c]
  PROVE  /\ Tokenize(text) \in Seq(Vocabulary(c)) /\ Vocabulary(c) \in SUBSET AllTerms
         /\ Terms(Tokenize(text)) \in SUBSET Vocabulary(c)
<1>1. text \in Seq(Range(text))
  BY DEF RankingAssumption
<1>2. Tokenize(text) \in Seq(Terms(text) \ Stopword)
  BY <1>1, TokenizeTyped
<1>3. Terms(text) \ Stopword \in SUBSET Vocabulary(c)
  <2>1. Terms(text) \in {Terms(t) : t \in Text[c]}
    OBVIOUS
  <2> DEFINE U == UNION {Terms(t) : t \in Text[c]}
  <2>2. \A x \in Terms(text) : x \in U
    BY <2>1
  <2>3. Vocabulary(c) = U \ Stopword
    BY DEF Vocabulary
  <2> HIDE DEF U
  <2>4. QED
    BY <2>2, <2>3
<1>4. Tokenize(text) \in Seq(Vocabulary(c))
  BY <1>2, <1>3
<1>5. Terms(Tokenize(text)) \in SUBSET Vocabulary(c)
  BY <1>4 DEF Terms
<1>6. QED
  BY <1>4, <1>5 DEF AllTerms

\* Adding a document, or replacing it, counts it once.
LEMMA AddKeepsExact ==
  ASSUME RankingAssumption, NEW index, Exact(index), NEW c \in Chunk, NEW text \in Text[c]
  PROVE  Exact(AddDocument(index, c, text))
<1> DEFINE rest == RemoveUnlocked(index, c)
           d == rest.documents
           f == rest.documentFrequency
           tokens == Tokenize(text)
           new == Terms(tokens)
           e == [x \in DOMAIN d \cup {c} |-> IF x = c THEN tokens ELSE d[x]]
           g == [t \in DOMAIN f \cup new |-> FrequencyIn(rest, t) + (IF t \in new THEN 1 ELSE 0)]
           n == Len(tokens)
           total == rest.totalLength
<1>1. AddDocument(index, c, text) = [documents |-> e, documentFrequency |-> g, totalLength |-> total + n]
  BY DEF AddDocument
<1>2. Exact(rest) /\ DOMAIN d = DOMAIN index.documents \ {c}
  BY RemoveKeepsExact
<1>3. c \notin DOMAIN d
  BY <1>2
<1>4. /\ tokens \in Seq(Vocabulary(c)) /\ Vocabulary(c) \in SUBSET AllTerms
      /\ new \in SUBSET Vocabulary(c)
  BY TextTokens
<1> HIDE DEF rest, tokens
<1>5. /\ d \in UNION {[D -> Seq(AllTerms)] : D \in SUBSET Chunk}
      /\ f \in UNION {[T -> Nat] : T \in SUBSET AllTerms} /\ total \in Nat
  BY <1>2 DEF Exact, IndexState
<1>6. /\ IsFiniteSet(DOMAIN d) /\ IsFiniteSet(TokenPlaces(d))
      /\ \A x \in DOMAIN d : d[x] \in Seq(Vocabulary(x))
      /\ DOMAIN f = TermsOf(d)
      /\ total = Cardinality(TokenPlaces(d))
  BY <1>2 DEF Exact
<1>7. \A t : /\ FrequencyIn(rest, t) = Cardinality(HoldersOf(d, t))
             /\ IsFiniteSet(HoldersOf(d, t)) /\ FrequencyIn(rest, t) \in Nat
  BY <1>2, FrequencyIsExact
<1> HIDE DEF d, f, total, new
<1>8. DOMAIN d \in SUBSET Chunk /\ \A x \in DOMAIN d : d[x] \in Seq(AllTerms)
  BY <1>5
<1>9. DOMAIN f \in SUBSET AllTerms
  BY <1>5
<1>10. /\ DOMAIN e = DOMAIN d \cup {c} /\ e[c] = tokens
       /\ \A x \in DOMAIN d : e[x] = d[x]
  BY <1>3
<1>11. e \in UNION {[D -> Seq(AllTerms)] : D \in SUBSET Chunk}
  <2>1. tokens \in Seq(AllTerms)
    BY <1>4
  <2>2. e \in [DOMAIN d \cup {c} -> Seq(AllTerms)]
    BY <1>8, <2>1
  <2>3. DOMAIN d \cup {c} \in SUBSET Chunk
    BY <1>8
  <2>4. QED
    BY <2>2, <2>3
<1> HIDE DEF e
<1>12. \A t : HoldersOf(e, t) = IF t \in new THEN HoldersOf(d, t) \cup {c} ELSE HoldersOf(d, t)
  <2> SUFFICES ASSUME NEW t
               PROVE  HoldersOf(e, t) = IF t \in new THEN HoldersOf(d, t) \cup {c} ELSE HoldersOf(d, t)
    OBVIOUS
  <2>1. t \in Terms(e[c]) <=> t \in new
    BY <1>10 DEF new
  <2>2. \A x \in DOMAIN d : t \in Terms(e[x]) <=> t \in Terms(d[x])
    BY <1>10
  <2>3. \A x : x \in HoldersOf(e, t) <=> x \in HoldersOf(d, t) \/ (x = c /\ t \in new)
    BY <1>3, <1>10, <2>1, <2>2 DEF HoldersOf
  <2>4. CASE t \in new
    BY <2>3, <2>4
  <2>5. CASE t \notin new
    BY <2>3, <2>5
  <2>6. QED
    BY <2>4, <2>5
<1>13. TermsOf(e) = DOMAIN f \cup new
  <2>1. \A x \in DOMAIN d : Terms(e[x]) = Terms(d[x])
    BY <1>10
  <2>2. Terms(e[c]) = new
    BY <1>10 DEF new
  <2>3. \A t : t \in TermsOf(e) <=> t \in TermsOf(d) \/ t \in new
    BY <1>10, <2>1, <2>2 DEF TermsOf
  <2>4. QED
    BY <1>6, <2>3
<1>14. \A t \in TermsOf(e) : g[t] = Cardinality(HoldersOf(e, t)) /\ g[t] \in Nat
  <2> SUFFICES ASSUME NEW t \in TermsOf(e)
               PROVE  g[t] = Cardinality(HoldersOf(e, t)) /\ g[t] \in Nat
    OBVIOUS
  <2>1. g[t] = FrequencyIn(rest, t) + (IF t \in new THEN 1 ELSE 0)
    BY <1>13
  <2>2. c \notin HoldersOf(d, t)
    BY <1>3 DEF HoldersOf
  <2>3. Cardinality(HoldersOf(d, t) \cup {c}) = Cardinality(HoldersOf(d, t)) + 1
    BY <1>7, <2>2, FS_AddElement
  <2> HIDE DEF g
  <2>4. FrequencyIn(rest, t) = Cardinality(HoldersOf(d, t)) /\ FrequencyIn(rest, t) \in Nat
    BY <1>7
  <2>5. CASE t \in new
    <3>1. HoldersOf(e, t) = HoldersOf(d, t) \cup {c}
      BY <1>12, <2>5
    <3>2. g[t] = FrequencyIn(rest, t) + 1
      BY <2>1, <2>5
    <3>3. QED
      BY <2>3, <2>4, <3>1, <3>2
  <2>6. CASE t \notin new
    BY <1>12, <2>1, <2>4, <2>6
  <2>7. QED
    BY <2>5, <2>6
<1>15. DOMAIN g = TermsOf(e)
  BY <1>13
<1>16. g \in UNION {[T -> Nat] : T \in SUBSET AllTerms}
  <2>1. DOMAIN f \cup new \in SUBSET AllTerms
    BY <1>4, <1>9
  <2>2. g \in [DOMAIN f \cup new -> Nat]
    BY <1>13, <1>14
  <2>3. QED
    BY <2>1, <2>2
<1> HIDE DEF g
<1>17. /\ IsFiniteSet(TokenPlaces(e)) /\ total + n = Cardinality(TokenPlaces(e)) /\ total + n \in Nat
  <2> DEFINE own == {c} \X (1 .. n)
  <2>1. n \in Nat /\ DOMAIN tokens = 1 .. n
    BY <1>4
  <2>2. IsFiniteSet(own) /\ Cardinality(own) = n
    BY <2>1, OwnPlaces
  <2>3. TokenPlaces(e) = TokenPlaces(d) \cup own /\ TokenPlaces(d) \cap own = {}
    <3>1. \A x : x \in TokenPlaces(d) <=> \E y \in DOMAIN d : x \in {y} \X DOMAIN d[y]
      BY DEF TokenPlaces
    <3>2. \A x : x \in TokenPlaces(e) <=> \E y \in DOMAIN e : x \in {y} \X DOMAIN e[y]
      BY DEF TokenPlaces
    <3>3. \A x : x \in TokenPlaces(e) <=> x \in TokenPlaces(d) \cup own
      BY <1>10, <2>1, <3>1, <3>2
    <3>4. \A x : x \in TokenPlaces(d) => x \notin own
      BY <1>3, <3>1
    <3>5. QED
      BY <3>3, <3>4
  <2> HIDE DEF own, n
  <2>4. /\ Cardinality(TokenPlaces(d) \cup own) = Cardinality(TokenPlaces(d)) + Cardinality(own)
        /\ IsFiniteSet(TokenPlaces(d) \cup own)
    BY <1>6, <2>2, <2>3, DisjointSum
  <2>5. QED
    BY <1>5, <1>6, <2>1, <2>2, <2>3, <2>4
<1>18. IsFiniteSet(DOMAIN e)
  BY <1>6, <1>10, FS_AddElement
<1> HIDE DEF n
<1> DEFINE made == AddDocument(index, c, text)
<1>19. made \in IndexState
  BY <1>1, <1>11, <1>16, <1>17 DEF IndexState
<1>20. made.documents = e /\ made.documentFrequency = g /\ made.totalLength = total + n
  BY <1>1
<1>21. \A x \in DOMAIN e : e[x] \in Seq(Vocabulary(x))
  BY <1>4, <1>6, <1>10
<1> HIDE DEF made
<1>22. Exact(made)
  BY <1>14, <1>15, <1>17, <1>18, <1>19, <1>20, <1>21 DEF Exact
<1>23. QED
  BY <1>22 DEF made

\* Removing documents one after the other, in any order.
LEMMA RemoveAllKeepsExact ==
  ASSUME NEW index, Exact(index), NEW D, NEW doomed \in Seq(D)
  PROVE  Exact(FoldLeft(RemoveUnlocked, index, doomed))
<1> DEFINE n == Len(doomed)
           V == {state \in IndexState : Exact(state)}
           fold == CHOOSE f : f = [t \in SUBSET DOMAIN doomed |->
                     IF t = {} THEN index ELSE RemoveUnlocked(f[t \ {Max(t)}], doomed[Max(t)])]
<1>1. n \in Nat /\ DOMAIN doomed = 1 .. n
  OBVIOUS
<1> HIDE DEF n
<1>2. FoldLeft(RemoveUnlocked, index, doomed) = fold[1 .. n]
  BY <1>1 DEF FoldLeft, MapThenFoldSet
<1>3. \A state \in V, i \in 1 .. n : RemoveUnlocked(state, doomed[i]) \in V
  <2> SUFFICES ASSUME NEW state \in V, NEW i \in 1 .. n PROVE RemoveUnlocked(state, doomed[i]) \in V
    OBVIOUS
  <2>1. Exact(state)
    OBVIOUS
  <2>2. Exact(RemoveUnlocked(state, doomed[i]))
    BY <2>1, RemoveKeepsExact
  <2>3. QED
    BY <2>2 DEF Exact
<1>4. index \in V
  BY DEF Exact
<1> HIDE DEF V
<1>5. fold = [t \in SUBSET (1 .. n) |->
                IF t = {} THEN index ELSE RemoveUnlocked(fold[t \ {Max(t)}], doomed[Max(t)])]
  <2> DEFINE G == [x \in V \X (1 .. n) |-> RemoveUnlocked(x[1], doomed[x[2]])]
  <2>1. G \in [V \X (1 .. n) -> V]
    BY <1>3
  <2>2. PICK f : IsFold(f, n, V, index, G)
    <3> HIDE DEF G
    <3>1. QED
      BY <1>1, <1>4, <2>1, FoldExists
  <2>3. \A t \in SUBSET (1 .. n) : t # {} => Max(t) \in 1 .. n /\ t \ {Max(t)} \in SUBSET (1 .. n)
    BY <1>1, NonEmptyHasMax
  <2>4. \A t \in SUBSET (1 .. n) :
          f[t] = IF t = {} THEN index ELSE RemoveUnlocked(f[t \ {Max(t)}], doomed[Max(t)])
    BY <2>2, <2>3 DEF IsFold
  <2>5. f = [t \in SUBSET (1 .. n) |->
               IF t = {} THEN index ELSE RemoveUnlocked(f[t \ {Max(t)}], doomed[Max(t)])]
    BY <2>2, <2>4 DEF IsFold
  <2>6. QED
    BY <1>1, <2>5
<1> HIDE DEF fold
<1> DEFINE T == {k \in 0 .. n : fold[1 .. k] \in V}
<1>6. 0 \in T
  BY <1>1, <1>4, <1>5
<1>7. ASSUME NEW i \in 1 .. n, i - 1 \in T PROVE i \in T
  <2>1. Max(1 .. i) = i /\ (1 .. i) \ {i} = 1 .. i - 1 /\ 1 .. i # {} /\ 1 .. i \in SUBSET (1 .. n)
    BY <1>1, TopOfInterval
  <2>2. fold[1 .. i] = RemoveUnlocked(fold[1 .. i - 1], doomed[i])
    BY <1>5, <2>1
  <2>3. i \in 0 .. n
    BY <1>1
  <2>4. QED
    BY <1>3, <1>7, <2>2, <2>3
<1> HIDE DEF T
<1>8. n \in T
  <2>1. \A i \in 0 .. n : i \in T
    BY <1>1, <1>6, <1>7, InductionTo
  <2>2. QED
    BY <1>1, <2>1
<1>9. QED
  BY <1>2, <1>8 DEF T, V

-----------------------------------------------------------------------------
(* The nearest vectors.                                                    *)

\* The beginning of a list.
LEMMA FirstOfIs ==
  ASSUME NEW V, NEW s \in Seq(V), NEW n \in Nat
  PROVE  /\ FirstOf(s, n) \in Seq(V) /\ Len(FirstOf(s, n)) = Min0(n, Len(s))
         /\ FirstOf(s, n) = SubSeq(s, 1, Min0(n, Len(s)))
         /\ \A k \in 1 .. Min0(n, Len(s)) : FirstOf(s, n)[k] = s[k]
         /\ Min0(n, Len(s)) \in 0 .. Len(s) /\ Min0(n, Len(s)) <= n
         /\ Min0(n, Len(s)) \in {n, Len(s)}
<1> DEFINE m == Min0(n, Len(s))
<1>1. m \in 0 .. Len(s) /\ m <= n /\ m \in {n, Len(s)} /\ m \in Nat
  BY DEF Min0
<1>2. FirstOf(s, n) = SubSeq(s, 1, m)
  BY DEF FirstOf
<1> HIDE DEF m
<1>3. SubSeq(s, 1, m) \in Seq(V) /\ Len(SubSeq(s, 1, m)) = m /\ \A k \in 1 .. m : SubSeq(s, 1, m)[k] = s[k]
  BY <1>1
<1>4. QED
  BY <1>1, <1>2, <1>3 DEF m

\* A list that begins another.
LEMMA BeginsWith ==
  ASSUME NEW V, NEW s \in Seq(V), NEW t \in Seq(V), Len(s) <= Len(t),
         \A k \in 1 .. Len(s) : s[k] = t[k]
  PROVE  IsPrefix(s, t) /\ (Len(s) = Len(t) => s = t)
<1>1. SubSeq(s, 1, Len(s)) = s /\ SubSeq(t, 1, Len(s)) = s
  OBVIOUS
<1>2. Len(s) = Len(t) => s = t
  OBVIOUS
<1>3. QED
  BY <1>1, <1>2 DEF IsPrefix

LEMMA CloserIsWeak ==
  ASSUME RankingAssumption PROVE WeakOrder(Closer, Chunk)
<1>1. \A c \in Chunk : Similarity[c] \in Int
  BY DEF RankingAssumption
<1>2. \A x, y \in Chunk : <<x, y>> \in Closer <=> Similarity[x] > Similarity[y]
  BY DEF Closer
<1>3. QED
  BY <1>1, <1>2 DEF WeakOrder

\* A part of an injective list is injective.
LEMMA ChosenStaysInjective ==
  ASSUME NEW V, NEW s \in Seq(V), IsInjective(s), NEW places \in SUBSET (DOMAIN s)
  PROVE  /\ IsInjective(Chosen(s, places)) /\ Chosen(s, places) \in Seq(V)
         /\ Range(Chosen(s, places)) = {s[i] : i \in places}
<1> DEFINE n == Cardinality(places)
           t == Chosen(s, places)
           A == Ascending(places)
<1>1. /\ n \in Nat /\ t \in Seq(V) /\ Len(t) = n /\ A \in [1 .. n -> places]
      /\ \A k \in 1 .. n : t[k] = s[A[k]]
      /\ \A i \in places : \E k \in 1 .. n : A[k] = i
      /\ \A j, k \in 1 .. n : j < k <=> A[j] < A[k]
  BY ChosenPlaces
<1>2. \A i, j \in places : s[i] = s[j] => i = j
  BY DEF IsInjective
<1> HIDE DEF n, t, A
<1>3. DOMAIN t = 1 .. n
  BY <1>1
<1>4. IsInjective(t)
  <2> SUFFICES ASSUME NEW j \in 1 .. n, NEW k \in 1 .. n, t[j] = t[k] PROVE j = k
    BY <1>3 DEF IsInjective
  <2>1. A[j] \in places /\ A[k] \in places /\ s[A[j]] = s[A[k]]
    BY <1>1
  <2>2. A[j] = A[k]
    BY <1>2, <2>1
  <2>3. ~(j < k) /\ ~(k < j)
    <3>1. \A i \in places : i \in Int
      OBVIOUS
    <3>2. QED
      BY <1>1, <2>1, <2>2, <3>1
  <2>4. QED
    BY <2>3
<1>5. Range(t) = {s[i] : i \in places}
  <2>1. \A x : x \in Range(t) <=> \E k \in 1 .. n : x = t[k]
    BY <1>3 DEF Range
  <2>2. ASSUME NEW i \in places PROVE \E k \in 1 .. n : s[i] = t[k]
    BY <1>1
  <2>3. \A k \in 1 .. n : A[k] \in places /\ t[k] = s[A[k]]
    BY <1>1
  <2>4. \A x : x \in Range(t) <=> \E i \in places : x = s[i]
    BY <2>1, <2>2, <2>3
  <2>5. QED
    BY <2>4
<1>6. QED
  BY <1>1, <1>4, <1>5 DEF t

\* The first c of a list that is long enough.
Beginning(s, c) == [k \in 1 .. c |-> s[k]]

\* The places of a list of records that pass the filters.
Passing(ids, filters) == {k \in DOMAIN ids : ids[k] \in {c \in Chunk : Matches(c, filters)}}

\* What FAISS finds, and what the exact search finds, of the records by similarity.
LEMMA SearchesCompared ==
  ASSUME RankingAssumption, records \in Seq(Chunk), IsInjective(records),
         faiss.built => faiss.ids = records, NEW pool \in Nat, NEW filters,
         NEW r, r = RankedBy(records, Closer),
         NEW P, P = Passing(r, filters)
  PROVE  /\ r \in Seq(Chunk) /\ Len(r) = Len(records) /\ IsInjective(r) /\ Range(r) = Range(records)
         /\ Chosen(r, P) \in Seq(Chunk) /\ Len(Chosen(r, P)) = Cardinality(P) /\ Cardinality(P) \in Nat
         /\ ExactSearch(pool, filters) = FirstOf(Chosen(r, P), pool)
         /\ Fetch(pool, filters) \in 0 .. Len(r)
         /\ Cardinality(UpTo(P, Fetch(pool, filters))) \in 0 .. Cardinality(P)
         /\ FaissSearch(pool, filters)
            = FirstOf(Beginning(Chosen(r, P), Cardinality(UpTo(P, Fetch(pool, filters)))), pool)
<1> DEFINE W == {c \in Chunk : Matches(c, filters)}
           F == Fetch(pool, filters)
           Q == UpTo(P, F)
           n == Len(records)
<1>1. SearchedIds = records
  BY DEF SearchedIds
<1>2. WeakOrder(Closer, Chunk)
  BY CloserIsWeak
<1>3. r \in Seq(Chunk) /\ Len(r) = n /\ IsInjective(r) /\ Range(r) = Range(records)
  BY <1>2, RankedByPermutes
<1>4. P \in SUBSET (DOMAIN r) /\ P = {k \in DOMAIN r : r[k] \in W}
  BY DEF Passing
<1>5. Chosen(r, P) \in Seq(Chunk) /\ Len(Chosen(r, P)) = Cardinality(P) /\ Cardinality(P) \in Nat
  BY <1>3, <1>4, ChosenPlaces
<1>6. Chosen(r, P) = RankedBy(Matching(records, filters), Closer)
  <2> HIDE DEF W
  <2> DEFINE M == {i \in DOMAIN records : Matches(records[i], filters)}
  <2>1. PlacesOfAll(M, records, W)
    BY DEF W, PlacesOfAll
  <2>2. PlacesOfAll(P, RankedBy(records, Closer), W)
    BY <1>4 DEF PlacesOfAll
  <2>3. Matching(records, filters) = Chosen(records, M)
    BY DEF Matching
  <2> HIDE DEF M
  <2>4. Chosen(r, P) = RankedBy(Chosen(records, M), Closer)
    BY ONLY <1>2, <2>1, <2>2, records \in Seq(Chunk), r = RankedBy(records, Closer), SortingCommutes
  <2>5. QED
    BY <2>3, <2>4
<1>7. ExactSearch(pool, filters) = FirstOf(Chosen(r, P), pool)
  BY <1>6 DEF ExactSearch
<1>8. F \in 0 .. Len(r)
  <2>1. n \in Nat /\ pool * OverFetch \in Nat
    BY DEF RankingAssumption
  <2>2. F = Min0(n, IF DOMAIN filters = {} THEN pool ELSE pool * OverFetch)
    BY <1>1 DEF Fetch
  <2> HIDE DEF n, F
  <2>3. QED
    BY <1>3, <2>1, <2>2 DEF Min0
<1> HIDE DEF F, n
<1> DEFINE b == SubSeq(r, 1, F)
<1>9. PICK c \in 0 .. Cardinality(P) :
        /\ c = Cardinality(Q)
        /\ Chosen(b, Q) = [k \in 1 .. c |-> Chosen(r, P)[k]]
  <2> HIDE DEF b
  <2>1. F \in 0 .. Len(r) /\ r \in Seq(Chunk) /\ P \in SUBSET (DOMAIN r)
    BY <1>3, <1>4, <1>8
  <2>2. \E c \in 0 .. Cardinality(P) :
           /\ c = Cardinality(UpTo(P, F))
           /\ Chosen(SubSeq(r, 1, F), UpTo(P, F)) = [k \in 1 .. c |-> Chosen(r, P)[k]]
    BY ONLY <2>1, ChosenOfPrefix, SMTT(20)
  <2>3. QED
    BY <2>2 DEF b, Q
<1>10. b \in Seq(Chunk) /\ Len(b) = F /\ DOMAIN b = 1 .. F /\ \A k \in 1 .. F : b[k] = r[k] /\ k \in DOMAIN r
  BY <1>3, <1>8
<1>11. FirstOf(RankedBy(SearchedIds, Closer), F) = b
  BY <1>1, <1>3, <1>8 DEF FirstOf, Min0
<1> HIDE DEF b
<1>12. Matching(b, filters) = Chosen(b, Q)
  <2>1. Q = {i \in DOMAIN b : Matches(b[i], filters)}
    <3>1. \A k : k \in Q <=> k \in DOMAIN r /\ r[k] \in W /\ k <= F
      BY <1>4 DEF UpTo
    <3>2. DOMAIN r = 1 .. Len(r)
      BY <1>3
    <3>3. \A k : k \in 1 .. F <=> k \in 1 .. Len(r) /\ k <= F
      BY <1>3, <1>8
    <3>4. \A k \in 1 .. F : r[k] = b[k] /\ (b[k] \in W <=> Matches(b[k], filters))
      <4> SUFFICES ASSUME NEW k \in 1 .. F PROVE r[k] = b[k] /\ (b[k] \in W <=> Matches(b[k], filters))
        OBVIOUS
      <4>1. b[k] \in Chunk /\ r[k] = b[k]
        BY <1>10
      <4>2. QED
        BY <4>1
    <3> HIDE DEF W
    <3>5. \A k : k \in Q <=> k \in DOMAIN b /\ Matches(b[k], filters)
      BY <1>10, <3>1, <3>2, <3>3, <3>4
    <3>6. QED
      BY <3>5
  <2>2. QED
    BY <2>1 DEF Matching
<1>13. FaissSearch(pool, filters) = FirstOf(Beginning(Chosen(r, P), c), pool)
  BY <1>9, <1>11, <1>12 DEF FaissSearch, F, Beginning
<1>14. QED
  BY <1>3, <1>5, <1>7, <1>8, <1>9, <1>13 DEF F, n, Q

\* Taking something away from a product.
LEMMA OneFactorLess ==
  ASSUME NEW a \in Int, NEW b \in Int
  PROVE  a * b - a * (b - 1) = a
OBVIOUS

\* Among the nearest that FAISS fetches, what passes the filters and what does not.
LEMMA EnoughIsFetched ==
  ASSUME RankingAssumption, NEW pool \in Nat, NEW filters,
         NEW r \in Seq(Chunk), IsInjective(r), NEW F, F = Fetch(pool, filters), F \in 0 .. Len(r),
         Len(SearchedIds) = Len(r),
         NEW P, P = Passing(r, filters),
         NEW foreign, foreign = {c \in Range(r) : ~ Matches(c, filters)},
         Cardinality(foreign) <= pool * (OverFetch - 1)
  PROVE  Cardinality(UpTo(P, F)) = Cardinality(P) \/ Cardinality(UpTo(P, F)) >= pool
<1> DEFINE Q == UpTo(P, F)
           K == (1 .. F) \ Q
           n == Len(r)
<1>1. /\ n \in Nat /\ DOMAIN r = 1 .. n /\ F \in Nat /\ pool * OverFetch \in Nat
      /\ pool * OverFetch - pool * (OverFetch - 1) = pool /\ pool * (OverFetch - 1) \in Int
  BY OneFactorLess DEF RankingAssumption
<1>2. Q \in SUBSET (1 .. F) /\ Q \in SUBSET P /\ \A k \in 1 .. F : k \in K <=> ~ Matches(r[k], filters)
  <2>1. \A k \in 1 .. F : k \in DOMAIN r /\ r[k] \in Chunk /\ k <= F
    BY <1>1
  <2>2. \A k : k \in Q <=> k \in P /\ k <= F
    BY DEF UpTo
  <2>3. \A k : k \in P <=> k \in DOMAIN r /\ r[k] \in Chunk /\ Matches(r[k], filters)
    BY DEF Passing
  <2> HIDE DEF Q
  <2>4. \A k \in 1 .. F : k \in Q <=> Matches(r[k], filters)
    BY <2>1, <2>2, <2>3
  <2>5. Q \in SUBSET P
    BY <2>2
  <2>6. Q \in SUBSET (1 .. F)
    <3>1. \A k : k \in 1 .. F <=> k \in 1 .. n /\ k <= F
      BY <1>1
    <3>2. \A k \in Q : k \in 1 .. F
      BY <1>1, <2>2, <2>3, <3>1
    <3>3. QED
      BY <3>2
  <2>7. QED
    BY <2>4, <2>5, <2>6
<1> HIDE DEF Q
<1>3. IsFiniteSet(1 .. F) /\ Cardinality(1 .. F) = F
  BY <1>1, SpanIsCounted
<1>4. /\ IsFiniteSet(Q) /\ IsFiniteSet(K) /\ Q \cap K = {} /\ Q \cup K = 1 .. F
  <2>1. K \in SUBSET (1 .. F) /\ Q \cap K = {} /\ Q \cup K = 1 .. F
    BY <1>2
  <2>2. QED
    BY <1>2, <1>3, <2>1, FS_Subset
<1>5. F = Cardinality(Q) + Cardinality(K) /\ Cardinality(Q) \in Nat /\ Cardinality(K) \in Nat
  BY <1>3, <1>4, DisjointSum
<1>6. IsFiniteSet(P) /\ Cardinality(P) \in Nat
  <2>1. P \in SUBSET (1 .. n) /\ IsFiniteSet(1 .. n)
    BY <1>1, SpanIsCounted DEF Passing
  <2>2. QED
    BY <2>1, FS_Subset, FS_CardinalityType
<1>7. IsFiniteSet(foreign) /\ Cardinality(foreign) \in Nat /\ Cardinality(K) <= Cardinality(foreign)
  <2> DEFINE f == [k \in K |-> r[k]]
             image == {f[k] : k \in K}
  <2>1. DOMAIN f = K /\ f = [k \in K |-> f[k]]
    OBVIOUS
  <2>2. \A j, k \in K : f[j] = f[k] => j = k
    <3>1. \A k \in K : k \in DOMAIN r /\ f[k] = r[k]
      BY <1>1
    <3> HIDE DEF f
    <3>2. QED
      BY <3>1 DEF IsInjective
  <2>3. \A k \in K : f[k] \in foreign
    <3>1. \A k \in K : k \in DOMAIN r /\ f[k] = r[k] /\ ~ Matches(r[k], filters)
      BY <1>1, <1>2
    <3>2. QED
      BY <3>1 DEF Range
  <2> HIDE DEF f, K
  <2>4. image \in SUBSET foreign
    BY <2>3
  <2>5. Cardinality(image) = Cardinality(K)
    <3>1. IsFiniteSet(K)
      BY <1>4
    <3>2. QED
      BY ONLY <2>1, <2>2, <3>1, DistinctImages
  <2>6. IsFiniteSet(foreign)
    <3> DEFINE S == 1 .. n
               g == [k \in S |-> r[k]]
    <3>1. DOMAIN g = S /\ g = [k \in S |-> g[k]] /\ IsFiniteSet(S)
      BY <1>1, FS_Interval
    <3>2. {g[k] : k \in S} = Range(r)
      BY <1>1 DEF Range
    <3> HIDE DEF g, S
    <3>3. IsFiniteSet({g[k] : k \in S})
      BY ONLY <3>1, ImageIsFinite
    <3>4. IsFiniteSet(Range(r)) /\ foreign \in SUBSET Range(r)
      BY <3>2, <3>3
    <3>5. QED
      BY <3>4, FS_Subset
  <2> HIDE DEF image
  <2>7. Cardinality(image) <= Cardinality(foreign)
    BY <2>4, <2>6, FS_Subset
  <2>8. QED
    BY <2>5, <2>6, <2>7, FS_CardinalityType
<1> HIDE DEF K
<1>8. F = Min0(n, IF DOMAIN filters = {} THEN pool ELSE pool * OverFetch)
  BY DEF Fetch
<1>9. CASE F = n
  <2>1. Q = P
    <3>1. \A k \in P : k \in 1 .. n /\ k <= F
      BY <1>1, <1>9 DEF Passing
    <3>2. \A k \in P : k \in Q
      BY <3>1 DEF Q, UpTo
    <3>3. QED
      BY <1>2, <3>2
  <2>2. QED
    BY <2>1 DEF Q
<1>10. CASE F # n /\ DOMAIN filters = {}
  <2>1. F = pool
    BY <1>1, <1>8, <1>10 DEF Min0
  <2>2. \A c : Matches(c, filters)
    BY <1>10 DEF Matches
  <2>3. K = {}
    BY <1>2, <2>2 DEF K
  <2>4. Cardinality(K) = 0
    BY <2>3, FS_EmptySet
  <2>5. Cardinality(Q) >= pool
    BY <1>5, <2>1, <2>4
  <2>6. QED
    BY <2>5 DEF Q
<1>11. CASE F # n /\ DOMAIN filters # {}
  <2>1. F = pool * OverFetch
    BY <1>1, <1>8, <1>11 DEF Min0
  <2> DEFINE a == pool * OverFetch
             b == pool * (OverFetch - 1)
  <2>2. a - b = pool /\ F = a /\ Cardinality(foreign) <= b /\ a \in Int /\ b \in Int
    BY <1>1, <2>1
  <2> HIDE DEF a, b
  <2>3. Cardinality(Q) >= pool
    BY <1>5, <1>7, <2>2
  <2>4. QED
    BY <2>3 DEF Q
<1>12. QED
  BY <1>9, <1>10, <1>11

\* The vector search gives the nearest that pass, or a beginning of them; all of them
\* while the foreign records are not too many.
LEMMA SearchIsNearest ==
  ASSUME RankingAssumption, records \in Seq(Chunk), IsInjective(records),
         faiss.built => faiss.ids = records, NEW pool \in Nat, NEW filters
  PROVE  /\ DenseSearch(pool, filters) \in Seq(Chunk) /\ IsInjective(DenseSearch(pool, filters))
         /\ Len(DenseSearch(pool, filters)) <= pool
         /\ IsPrefix(DenseSearch(pool, filters), ExactSearch(pool, filters))
         /\ Cardinality({c \in Range(records) : ~ Matches(c, filters)}) <= pool * (OverFetch - 1)
            => DenseSearch(pool, filters) = ExactSearch(pool, filters)
         /\ Faiss => ~ LooksUpNothing(pool, filters)
<1> DEFINE r == RankedBy(records, Closer)
           P == Passing(r, filters)
           F == Fetch(pool, filters)
           x == Chosen(r, P)
           m == Cardinality(P)
           exact == ExactSearch(pool, filters)
           foreign == {c \in Range(records) : ~ Matches(c, filters)}
<1>1. /\ r \in Seq(Chunk) /\ Len(r) = Len(records) /\ IsInjective(r) /\ Range(r) = Range(records)
      /\ x \in Seq(Chunk) /\ Len(x) = m /\ m \in Nat
      /\ exact = FirstOf(x, pool)
      /\ F \in 0 .. Len(r)
      /\ Cardinality(UpTo(P, F)) \in 0 .. m
      /\ FaissSearch(pool, filters) = FirstOf(Beginning(x, Cardinality(UpTo(P, F))), pool)
  <2> HIDE DEF r
  <2>1. r = RankedBy(records, Closer)
    BY DEF r
  <2> HIDE DEF P
  <2>2. P = Passing(r, filters)
    BY DEF P
  <2>3. faiss.built => faiss.ids = records
    OBVIOUS
  <2>4. pool \in Nat /\ records \in Seq(Chunk) /\ IsInjective(records)
    OBVIOUS
  <2> HIDE DEF F, x, m, exact
  <2>5. r \in Seq(Chunk) /\ Len(r) = Len(records) /\ IsInjective(r) /\ Range(r) = Range(records)
    BY ONLY RankingAssumption, <2>1, <2>2, <2>3, <2>4, SearchesCompared
  <2>6. x \in Seq(Chunk) /\ Len(x) = m /\ m \in Nat
    BY ONLY RankingAssumption, <2>1, <2>2, <2>3, <2>4, SearchesCompared DEF x, m
  <2>7. exact = FirstOf(x, pool)
    BY ONLY RankingAssumption, <2>1, <2>2, <2>3, <2>4, SearchesCompared DEF x, exact
  <2>11. F \in 0 .. Len(r)
    BY ONLY RankingAssumption, <2>1, <2>2, <2>3, <2>4, SearchesCompared DEF F
  <2>8. Cardinality(UpTo(P, F)) \in 0 .. m
    BY ONLY RankingAssumption, <2>1, <2>2, <2>3, <2>4, SearchesCompared DEF F, m
  <2>9. FaissSearch(pool, filters) = FirstOf(Beginning(x, Cardinality(UpTo(P, F))), pool)
    BY ONLY RankingAssumption, <2>1, <2>2, <2>3, <2>4, SearchesCompared DEF x, F
  <2>10. QED
    BY <2>5, <2>6, <2>7, <2>8, <2>9, <2>11
<1>2. IsInjective(x)
  <2>1. P \in SUBSET (DOMAIN r)
    BY DEF Passing
  <2> HIDE DEF r, P
  <2>2. QED
    BY <1>1, <2>1, ChosenStaysInjective
<1>3. SearchedIds = records
  BY DEF SearchedIds
<1>4. PICK c \in 0 .. m : /\ c = Cardinality(UpTo(P, F))
                          /\ FaissSearch(pool, filters) = FirstOf(Beginning(x, c), pool)
  BY <1>1
<1>5. Cardinality(foreign) <= pool * (OverFetch - 1) => c = m \/ c >= pool
  <2>1. foreign = {y \in Range(r) : ~ Matches(y, filters)}
    BY <1>1
  <2> SUFFICES ASSUME Cardinality(foreign) <= pool * (OverFetch - 1) PROVE c = m \/ c >= pool
    OBVIOUS
  <2> HIDE DEF r, foreign
  <2>2. Len(SearchedIds) = Len(r)
    BY <1>1, <1>3
  <2>3. P = Passing(r, filters) /\ F = Fetch(pool, filters)
    OBVIOUS
  <2> HIDE DEF P, F
  <2>4. Cardinality(UpTo(P, F)) = Cardinality(P) \/ Cardinality(UpTo(P, F)) >= pool
    BY <1>1, <2>1, <2>2, <2>3, EnoughIsFetched
  <2>5. QED
    BY <1>4, <2>4
<1> HIDE DEF x, m
<1>6. exact \in Seq(Chunk) /\ Len(exact) = Min0(pool, m) /\ \A k \in 1 .. Min0(pool, m) : exact[k] = x[k]
  <2>1. exact = FirstOf(x, pool) /\ x \in Seq(Chunk) /\ Len(x) = m
    BY <1>1
  <2> HIDE DEF exact
  <2>2. QED
    BY <2>1, FirstOfIs
<1> DEFINE y == [k \in 1 .. c |-> x[k]]
           found == FaissSearch(pool, filters)
<1>7. y \in Seq(Chunk) /\ Len(y) = c /\ c \in Nat /\ c <= m /\ \A k \in 1 .. c : y[k] = x[k]
  <2>1. c \in Nat /\ c <= m
    BY <1>1
  <2>2. \A k \in 1 .. c : k \in 1 .. m
    BY <1>1, <2>1
  <2>3. \A k \in 1 .. m : x[k] \in Chunk
    BY <1>1
  <2>4. y = [k \in 1 .. c |-> x[k]]
    OBVIOUS
  <2> HIDE DEF y
  <2>5. y \in [1 .. c -> Chunk] /\ \A k \in 1 .. c : y[k] = x[k]
    BY <2>2, <2>3, <2>4
  <2>6. y \in Seq(Chunk) /\ Len(y) = c
    BY ONLY <2>1, <2>5
  <2>7. QED
    BY <2>1, <2>5, <2>6
<1> HIDE DEF y, exact, F
<1>8. found \in Seq(Chunk) /\ Len(found) = Min0(pool, c) /\ \A k \in 1 .. Min0(pool, c) : found[k] = y[k]
  <2>1. found = FirstOf(y, pool)
    BY <1>4 DEF y, Beginning
  <2> HIDE DEF found
  <2>2. FirstOf(y, pool) \in Seq(Chunk) /\ Len(FirstOf(y, pool)) = Min0(pool, Len(y))
        /\ \A k \in 1 .. Min0(pool, Len(y)) : FirstOf(y, pool)[k] = y[k]
    BY <1>7, FirstOfIs, ZenonT(30)
  <2>3. QED
    BY <1>7, <2>1, <2>2
<1> HIDE DEF found
<1>9. Min0(pool, c) <= Min0(pool, m) /\ Min0(pool, c) <= c /\ Min0(pool, c) <= pool /\ Min0(pool, m) <= pool
      /\ Min0(pool, c) \in Nat /\ Min0(pool, m) \in Nat /\ Min0(pool, m) <= m
  BY <1>1, <1>7 DEF Min0
<1>10. \A k \in 1 .. Min0(pool, c) : found[k] = exact[k] /\ found[k] = x[k] /\ k \in 1 .. m
  <2> SUFFICES ASSUME NEW k \in 1 .. Min0(pool, c)
               PROVE  found[k] = exact[k] /\ found[k] = x[k] /\ k \in 1 .. m
    OBVIOUS
  <2>1. k \in 1 .. c /\ k \in 1 .. Min0(pool, m) /\ k \in 1 .. m
    BY <1>1, <1>7, <1>9
  <2>2. QED
    BY <1>6, <1>7, <1>8, <2>1
<1>11. IsPrefix(found, exact) /\ (Min0(pool, c) = Min0(pool, m) => found = exact)
  <2>1. found \in Seq(Chunk) /\ exact \in Seq(Chunk) /\ Len(found) <= Len(exact)
    BY <1>6, <1>8, <1>9
  <2>2. \A k \in 1 .. Len(found) : found[k] = exact[k]
    BY <1>8, <1>10
  <2>3. IsPrefix(found, exact) /\ (Len(found) = Len(exact) => found = exact)
    BY <2>1, <2>2, BeginsWith
  <2>4. QED
    BY <1>6, <1>8, <2>3
<1>12. \A k \in 1 .. m : \A j \in 1 .. m : x[j] = x[k] => j = k
  <2>1. DOMAIN x = 1 .. m
    BY <1>1
  <2>2. QED
    BY <1>2, <2>1 DEF IsInjective
<1>13. IsInjective(found) /\ IsInjective(exact)
  <2>1. DOMAIN found = 1 .. Min0(pool, c) /\ DOMAIN exact = 1 .. Min0(pool, m)
    BY <1>6, <1>8
  <2>2. \A k \in 1 .. Min0(pool, m) : k \in 1 .. m /\ exact[k] = x[k]
    BY <1>1, <1>6, <1>9
  <2>3. \A j, k \in 1 .. Min0(pool, m) : exact[j] = exact[k] => j = k
    BY <1>12, <2>2
  <2>4. \A j, k \in 1 .. Min0(pool, c) : found[j] = found[k] => j = k
    BY <1>10, <1>12
  <2>5. QED
    BY <2>1, <2>3, <2>4 DEF IsInjective
<1>14. IsPrefix(exact, exact)
  BY <1>6, BeginsWith
<1>15. ~ LooksUpNothing(pool, filters)
  <2> SUFFICES ASSUME NEW i \in 1 .. F PROVE r[i] \in Range(records)
    BY <1>3 DEF LooksUpNothing, F
  <2>1. i \in DOMAIN r
    BY <1>1
  <2>2. r[i] \in Range(r)
    BY <2>1 DEF Range
  <2> HIDE DEF r
  <2>3. QED
    BY <1>1, <2>2
<1>16. Cardinality(foreign) <= pool * (OverFetch - 1) => found = exact
  <2> HIDE DEF foreign
  <2>1. c = m \/ c >= pool => Min0(pool, c) = Min0(pool, m)
    BY <1>1, <1>7 DEF Min0
  <2>2. QED
    BY <1>5, <1>11, <2>1
<1>17. DenseSearch(pool, filters) = IF Faiss THEN found ELSE exact
  BY DEF DenseSearch, found, exact
<1> HIDE DEF foreign
<1>18. QED
  BY <1>6, <1>8, <1>9, <1>11, <1>13, <1>14, <1>15, <1>16, <1>17 DEF exact, foreign

-----------------------------------------------------------------------------
(* What the indexes answer.                                                *)

\* The stores are well formed and the index of vectors is the one of the records.
StoresInv ==
  /\ Exact(bm25)
  /\ records \in Seq(Chunk) /\ IsInjective(records)
  /\ faiss.ids \in Seq(Chunk) /\ faiss.built \in BOOLEAN
  /\ faiss.built => Faiss /\ faiss.ids = records

\* The inductive invariant of the indexes.
IndexesInv == StoresInv /\ SearchFindsEveryMatch /\ DenseIsNearest

\* The chunks the sparse search finds are those that hold a term and pass: a term that
\* occurs has weight.
LEMMA SparseFindsAll ==
  ASSUME NEW index, Exact(index), NEW query, NEW filters
  PROVE  /\ SparseFound(index, query, filters)
            = {c \in DOMAIN index.documents :
                 Matches(c, filters) /\ Terms(Tokenize(query)) \cap Terms(index.documents[c]) # {}}
         /\ IsFiniteSet(SparseFound(index, query, filters))
         /\ SparseFound(index, query, filters) \in SUBSET Chunk
         /\ ~ DividesByZero(index, query, filters)
<1> DEFINE d == index.documents
           asked == Terms(Tokenize(query))
           found == {c \in DOMAIN d : Matches(c, filters) /\ asked \cap Terms(d[c]) # {}}
<1>1. /\ IsFiniteSet(DOMAIN d) /\ IsFiniteSet(TokenPlaces(d)) /\ DOMAIN d \in SUBSET Chunk
      /\ index.totalLength = Cardinality(TokenPlaces(d))
  BY DEF Exact, IndexState
<1>2. ASSUME NEW c \in DOMAIN d, NEW t \in Terms(d[c])
      PROVE  HasWeight(index, t)
  <2>1. FrequencyIn(index, t) = Cardinality(HoldersOf(d, t)) /\ IsFiniteSet(HoldersOf(d, t))
        /\ FrequencyIn(index, t) \in Nat
    BY FrequencyIsExact
  <2>2. c \in HoldersOf(d, t) /\ HoldersOf(d, t) \in SUBSET (DOMAIN d)
    BY DEF HoldersOf
  <2>3. Cardinality(HoldersOf(d, t)) # 0
    BY <2>1, <2>2, FS_EmptySet
  <2>4. Cardinality(HoldersOf(d, t)) <= Cardinality(DOMAIN d) /\ Cardinality(DOMAIN d) \in Nat
    BY <1>1, <2>2, FS_Subset, FS_CardinalityType
  <2>5. QED
    BY <2>1, <2>3, <2>4 DEF HasWeight
<1>3. SparseFound(index, query, filters) = found
  <2>1. SparseFound(index, query, filters)
        = {c \in DOMAIN d : Matches(c, filters) /\ \E t \in asked \cap Terms(d[c]) : HasWeight(index, t)}
    BY DEF SparseFound
  <2>2. \A c \in DOMAIN d : (\E t \in asked \cap Terms(d[c]) : HasWeight(index, t))
                            <=> asked \cap Terms(d[c]) # {}
    <3> HIDE DEF d
    <3>1. QED
      BY <1>2
  <2> HIDE DEF asked, d
  <2>3. QED
    BY <2>1, <2>2 DEF found
<1>4. IsFiniteSet(found) /\ found \in SUBSET Chunk
  <2>1. found \in SUBSET (DOMAIN d)
    OBVIOUS
  <2>2. QED
    BY <1>1, <2>1, FS_Subset
<1>5. ~ DividesByZero(index, query, filters)
  <2> SUFFICES ASSUME index.totalLength = 0, NEW c \in DOMAIN d, asked \cap Terms(d[c]) # {}
               PROVE  FALSE
    BY DEF DividesByZero
  <2>1. TokenPlaces(d) = {}
    BY <1>1, FS_EmptySet
  <2>2. PICK i \in DOMAIN d[c] : TRUE
    BY DEF Terms
  <2>3. <<c, i>> \in {c} \X DOMAIN d[c]
    OBVIOUS
  <2> HIDE DEF d
  <2>4. <<c, i>> \in TokenPlaces(d)
    BY <2>3 DEF TokenPlaces
  <2>5. QED
    BY <2>1, <2>4
<1>6. QED
  BY <1>3, <1>4, <1>5

\* How many candidates are asked for.
LEMMA CandidatesTyped ==
  ASSUME RankingAssumption, NEW limit \in Limit
  PROVE  Candidates(limit) \in Nat \ {0} /\ limit \in Nat \ {0}
<1>1. limit \in Nat \ {0} /\ Multiplier \in Nat \ {0} /\ MaxCandidates \in Nat \ {0}
  BY DEF RankingAssumption
<1>2. limit * Multiplier \in Nat
  BY <1>1
<1>3. Max0(limit * Multiplier, limit) \in Nat /\ Max0(limit * Multiplier, limit) >= limit
  BY <1>1, <1>2 DEF Max0
<1>4. QED
  BY <1>1, <1>3 DEF Candidates, Min0

\* What a query leaves in the answer.
AnswersWith(query, filters, limit, rows, Rating, useReranker, order, fused) ==
  LET pool == Candidates(limit)
      dense == DenseSearch(pool, filters)
      loaded == Chosen(fused, {i \in DOMAIN fused : fused[i] \in rows})
      given == IF useReranker THEN Rating ELSE NoOpScore(loaded)
  IN  /\ order \in SetToSeqs(SparseFound(bm25, query, filters))
      /\ fused = FirstOf(Fuse(dense, FirstOf(order, pool)), pool)
      /\ answer'.query = query /\ answer'.filters = filters /\ answer'.limit = limit
      /\ answer'.order = order /\ answer'.dense = dense /\ answer'.sparse = FirstOf(order, pool)
      /\ answer'.fused = fused /\ answer'.loaded = loaded /\ answer'.score = given
      /\ answer'.result = Rerank(loaded, given, limit)
      /\ answer'.failed = \/ DividesByZero(bm25, query, filters)
                          \/ Faiss /\ LooksUpNothing(pool, filters)

LEMMA RetrieveAnswers ==
  ASSUME NEW query, NEW filters, NEW limit, NEW rows, NEW Rating, NEW useReranker,
         Retrieve(query, filters, limit, rows, Rating, useReranker)
  PROVE  /\ \E order, fused : AnswersWith(query, filters, limit, rows, Rating, useReranker, order, fused)
         /\ bm25' = bm25 /\ records' = records
         /\ faiss' = IF Faiss /\ ~ faiss.built THEN [ids |-> records, built |-> TRUE] ELSE faiss
<1> DEFINE pool == Candidates(limit)
           dense == DenseSearch(pool, filters)
           failed == \/ DividesByZero(bm25, query, filters)
                     \/ Faiss /\ LooksUpNothing(pool, filters)
           Loaded(fused) == Chosen(fused, {i \in DOMAIN fused : fused[i] \in rows})
           Given(fused) == IF useReranker THEN Rating ELSE NoOpScore(Loaded(fused))
<1>0. PICK order \in SetToSeqs(SparseFound(bm25, query, filters)) :
         \E fused \in {FirstOf(Fuse(dense, FirstOf(order, pool)), pool)} :
           answer' = [query |-> query, filters |-> filters, limit |-> limit,
                        order |-> order, dense |-> dense, sparse |-> FirstOf(order, pool),
                        fused |-> fused, loaded |-> Loaded(fused), score |-> Given(fused),
                        result |-> Rerank(Loaded(fused), Given(fused), limit), failed |-> failed]
  BY DEF Retrieve
<1>1. PICK fused \in {FirstOf(Fuse(dense, FirstOf(order, pool)), pool)} :
           answer' = [query |-> query, filters |-> filters, limit |-> limit,
                        order |-> order, dense |-> dense, sparse |-> FirstOf(order, pool),
                        fused |-> fused, loaded |-> Loaded(fused), score |-> Given(fused),
                        result |-> Rerank(Loaded(fused), Given(fused), limit), failed |-> failed]
  BY <1>0
<1>2. fused = FirstOf(Fuse(dense, FirstOf(order, pool)), pool)
  BY <1>1
<1>3. bm25' = bm25 /\ records' = records
      /\ faiss' = IF Faiss /\ ~ faiss.built THEN [ids |-> records, built |-> TRUE] ELSE faiss
  BY DEF Retrieve
<1>4. AnswersWith(query, filters, limit, rows, Rating, useReranker, order, fused)
  <2> HIDE DEF pool, dense, failed, Loaded, Given
  <2>1. /\ answer'.query = query /\ answer'.filters = filters /\ answer'.limit = limit
        /\ answer'.order = order /\ answer'.dense = dense /\ answer'.sparse = FirstOf(order, pool)
        /\ answer'.fused = fused /\ answer'.loaded = Loaded(fused) /\ answer'.score = Given(fused)
        /\ answer'.result = Rerank(Loaded(fused), Given(fused), limit) /\ answer'.failed = failed
    BY <1>1
  <2>2. order \in SetToSeqs(SparseFound(bm25, query, filters))
    OBVIOUS
  <2>3. QED
    BY <1>2, <2>1, <2>2 DEF AnswersWith, pool, dense, failed, Loaded, Given
<1>5. QED
  BY <1>3, <1>4

\* A step of a store gives no answer.
LEMMA NothingIsAnswered ==
  ASSUME answer' = NoAnswer
  PROVE  SearchFindsEveryMatch' /\ DenseIsNearest' /\ FusionIsFair' /\ ResultIsTheBest'
BY DEF SearchFindsEveryMatch, DenseIsNearest, FusionIsFair, ResultIsTheBest, Answered

LEMMA IndexesInitially == ASSUME RankingInit PROVE IndexesInv
<1>1. Exact(bm25)
  BY EmptyIsExact DEF RankingInit
<1>2. records \in Seq(Chunk) /\ IsInjective(records) /\ faiss.ids \in Seq(Chunk) /\ faiss.built = FALSE
  BY DEF RankingInit, IsInjective
<1>3. SearchFindsEveryMatch /\ DenseIsNearest
  BY DEF RankingInit, SearchFindsEveryMatch, DenseIsNearest, Answered
<1>4. QED
  BY <1>1, <1>2, <1>3 DEF IndexesInv, StoresInv

\* The index of vectors follows the records.
LEMMA RebuiltFollows ==
  ASSUME StoresInv, Rebuilt, records' \in Seq(Chunk)
  PROVE  /\ faiss'.ids \in Seq(Chunk) /\ faiss'.built \in BOOLEAN
         /\ faiss'.built => Faiss /\ faiss'.ids = records'
<1>1. CASE Faiss
  BY <1>1 DEF Rebuilt
<1>2. CASE ~ Faiss
  BY <1>2 DEF Rebuilt, StoresInv
<1>3. QED
  BY <1>1, <1>2

LEMMA AddKeeps ==
  ASSUME RankingAssumption, IndexesInv, answer = NoAnswer, NEW c \in Chunk, NEW text \in Text[c], Add(c, text)
  PROVE  IndexesInv'
<1>1. Exact(bm25')
  BY AddKeepsExact DEF Add, IndexesInv, StoresInv
<1>2. UNCHANGED <<records, faiss, answer>>
  BY DEF Add
<1>3. QED
  BY <1>1, <1>2, NothingIsAnswered DEF IndexesInv, StoresInv

LEMMA UpsertKeeps ==
  ASSUME IndexesInv, answer = NoAnswer, NEW c \in Chunk, Upsert(c)
  PROVE  IndexesInv'
<1>1. records \in Seq(Chunk) /\ IsInjective(records) /\ StoresInv
  BY DEF IndexesInv, StoresInv
<1>2. CASE c \in Range(records)
  <2>1. records' = records
    BY <1>2 DEF Upsert
  <2>2. QED
    BY <1>1, <2>1, RebuiltFollows, NothingIsAnswered DEF IndexesInv, StoresInv, Upsert
<1>3. CASE c \notin Range(records)
  <2> DEFINE n == Len(records)
  <2>1. records' = Append(records, c)
    BY <1>3 DEF Upsert
  <2>2. records' \in Seq(Chunk) /\ Len(records') = n + 1 /\ n \in Nat
        /\ records'[n + 1] = c /\ \A i \in 1 .. n : records'[i] = records[i]
    BY <1>1, <2>1
  <2>3. \A i \in 1 .. n : records[i] # c
    BY <1>1, <1>3 DEF Range
  <2>4. \A i, j \in 1 .. n : records[i] = records[j] => i = j
    BY <1>1 DEF IsInjective
  <2> HIDE DEF n
  <2>5. \A i, j \in 1 .. n + 1 : records'[i] = records'[j] => i = j
    <3>1. \A i \in 1 .. n + 1 : i \in 1 .. n \/ i = n + 1
      BY <2>2
    <3>2. QED
      BY <2>2, <2>3, <2>4, <3>1
  <2>6. IsInjective(records')
    <3>1. DOMAIN records' = 1 .. n + 1
      BY <2>2
    <3>2. QED
      BY <2>5, <3>1 DEF IsInjective
  <2>7. QED
    BY <1>1, <2>2, <2>6, RebuiltFollows, NothingIsAnswered DEF IndexesInv, StoresInv, Upsert
<1>4. QED
  BY <1>2, <1>3

LEMMA RemovePaperKeeps ==
  ASSUME IndexesInv, answer = NoAnswer, NEW p, RemovePaper(p)
  PROVE  IndexesInv'
<1> DEFINE D == {c \in DOMAIN bm25.documents : PaperOf[c] = p}
<1>1. Exact(bm25)
  BY DEF IndexesInv, StoresInv
<1>2. IsFiniteSet(D)
  <2>1. IsFiniteSet(DOMAIN bm25.documents) /\ D \in SUBSET (DOMAIN bm25.documents)
    BY <1>1 DEF Exact
  <2>2. QED
    BY <2>1, FS_Subset
<1>3. bm25' = FoldLeft(RemoveUnlocked, bm25, SetToSeq(D))
  BY DEF RemovePaper
<1> HIDE DEF D
<1>4. SetToSeq(D) \in Seq(D)
  BY <1>2, SetToSeqLists
<1>5. Exact(bm25')
  BY <1>1, <1>3, <1>4, RemoveAllKeepsExact
<1>6. UNCHANGED <<records, faiss, answer>>
  BY DEF RemovePaper
<1>7. QED
  BY <1>5, <1>6, NothingIsAnswered DEF IndexesInv, StoresInv

LEMMA DeleteByPaperKeeps ==
  ASSUME IndexesInv, answer = NoAnswer, NEW p, DeleteByPaper(p)
  PROVE  IndexesInv'
<1> DEFINE P == {i \in DOMAIN records : PaperOf[records[i]] # p}
<1>1. records \in Seq(Chunk) /\ IsInjective(records) /\ StoresInv
  BY DEF IndexesInv, StoresInv
<1>2. records' = Chosen(records, P) /\ P \in SUBSET (DOMAIN records)
  BY DEF DeleteByPaper
<1> HIDE DEF P
<1>3. records' \in Seq(Chunk) /\ IsInjective(records')
  BY <1>1, <1>2, ChosenStaysInjective
<1>4. QED
  BY <1>1, <1>3, RebuiltFollows, NothingIsAnswered DEF IndexesInv, StoresInv, DeleteByPaper

LEMMA RestartKeeps ==
  ASSUME IndexesInv, answer = NoAnswer, Restart
  PROVE  IndexesInv'
<1>1. Exact(bm25') /\ answer' = NoAnswer
  BY EmptyIsExact DEF Restart
<1>2. records' \in Seq(Chunk) /\ IsInjective(records')
  <2>1. CASE Persisted
    BY <2>1 DEF Restart, IndexesInv, StoresInv
  <2>2. CASE ~ Persisted
    BY <2>2 DEF Restart, IsInjective
  <2>3. QED
    BY <2>1, <2>2
<1>3. faiss'.ids \in Seq(Chunk) /\ faiss'.built = FALSE
  BY DEF Restart
<1>4. QED
  BY <1>1, <1>2, <1>3, NothingIsAnswered DEF IndexesInv, StoresInv

LEMMA RetrieveKeeps ==
  ASSUME RankingAssumption, IndexesInv, NEW query \in Query, NEW filters \in Filter, NEW limit \in Limit,
         NEW rows \in Rows, NEW Rating \in Ratings, NEW useReranker \in BOOLEAN,
         Retrieve(query, filters, limit, rows, Rating, useReranker)
  PROVE  IndexesInv'
<1> DEFINE pool == Candidates(limit)
<1>1. PICK order, fused : AnswersWith(query, filters, limit, rows, Rating, useReranker, order, fused)
  BY RetrieveAnswers
<1>2. /\ bm25' = bm25 /\ records' = records
      /\ faiss' = IF Faiss /\ ~ faiss.built THEN [ids |-> records, built |-> TRUE] ELSE faiss
  BY RetrieveAnswers
<1>3. Exact(bm25) /\ records \in Seq(Chunk) /\ IsInjective(records)
      /\ (faiss.built => faiss.ids = records) /\ faiss.ids \in Seq(Chunk) /\ faiss.built \in BOOLEAN
      /\ (faiss.built => Faiss)
  BY DEF IndexesInv, StoresInv
<1>4. StoresInv'
  <2>1. CASE Faiss /\ ~ faiss.built
    BY <1>2, <1>3, <2>1 DEF StoresInv
  <2>2. CASE ~(Faiss /\ ~ faiss.built)
    <3>1. faiss' = faiss
      BY <1>2, <2>2
    <3>2. QED
      BY <1>2, <1>3, <3>1 DEF StoresInv
  <2>3. QED
    BY <2>1, <2>2
<1>5. pool \in Nat /\ pool = Candidates(limit)
  BY CandidatesTyped
<1>6. /\ answer'.query = query /\ answer'.filters = filters /\ answer'.limit = limit
      /\ answer'.order = order /\ answer'.dense = DenseSearch(pool, filters)
      /\ order \in SetToSeqs(SparseFound(bm25, query, filters))
      /\ answer'.failed = \/ DividesByZero(bm25, query, filters)
                          \/ Faiss /\ LooksUpNothing(pool, filters)
  BY <1>1 DEF AnswersWith
<1> HIDE DEF pool
<1>7. /\ IsPrefix(DenseSearch(pool, filters), ExactSearch(pool, filters))
      /\ Cardinality({c \in Range(records) : ~ Matches(c, filters)}) <= pool * (OverFetch - 1)
         => DenseSearch(pool, filters) = ExactSearch(pool, filters)
      /\ Faiss => ~ LooksUpNothing(pool, filters)
  BY <1>3, <1>5, SearchIsNearest
<1>8. /\ SparseFound(bm25, query, filters)
         = {c \in DOMAIN bm25.documents :
              Matches(c, filters) /\ Terms(Tokenize(query)) \cap Terms(bm25.documents[c]) # {}}
      /\ IsFiniteSet(SparseFound(bm25, query, filters))
      /\ ~ DividesByZero(bm25, query, filters)
  BY <1>3, SparseFindsAll
<1>9. Range(order) = SparseFound(bm25, query, filters)
  <2>1. ToSet(order) = SparseFound(bm25, query, filters)
    BY <1>6, <1>8, ListedIsAll
  <2>2. QED
    BY <2>1 DEF ToSet, Range
<1>10. SearchFindsEveryMatch'
  <2>1. ~ answer'.failed
    BY <1>6, <1>7, <1>8
  <2>2. Range(answer'.order) = {c \in DOMAIN bm25'.documents :
          Matches(c, answer'.filters)
          /\ Terms(Tokenize(answer'.query)) \cap Terms(bm25'.documents[c]) # {}}
    BY <1>2, <1>6, <1>8, <1>9
  <2>3. QED
    BY <2>1, <2>2 DEF SearchFindsEveryMatch
<1>11. DenseIsNearest'
  <2>1. ExactSearch(pool, filters)' = ExactSearch(pool, filters)
    BY <1>2 DEF ExactSearch
  <2> DEFINE foreign == {c \in Range(records) : ~ Matches(c, filters)}
  <2>2. {c \in Range(records') : ~ Matches(c, answer'.filters)} = foreign
    BY <1>2, <1>6
  <2> HIDE DEF foreign
  <2>3. IsPrefix(answer'.dense, ExactSearch(pool, filters)')
        /\ (Cardinality(foreign) <= pool * (OverFetch - 1) => answer'.dense = ExactSearch(pool, filters)')
    BY <1>6, <1>7, <2>1 DEF foreign
  <2>4. QED
    BY <1>5, <1>6, <2>2, <2>3 DEF DenseIsNearest, ExactSearch
<1>12. QED
  BY <1>4, <1>10, <1>11 DEF IndexesInv

LEMMA ReturnKeeps == ASSUME IndexesInv, Return PROVE IndexesInv'
<1>1. UNCHANGED <<bm25, records, faiss>> /\ answer' = NoAnswer
  BY DEF Return
<1>2. QED
  BY <1>1, NothingIsAnswered DEF IndexesInv, StoresInv

LEMMA IndexesStutter == ASSUME IndexesInv, UNCHANGED rankingVars PROVE IndexesInv'
<1>1. UNCHANGED <<bm25, records, faiss, answer>>
  BY DEF rankingVars
<1>2. StoresInv'
  BY <1>1 DEF IndexesInv, StoresInv
<1>3. SearchFindsEveryMatch'
  BY <1>1 DEF IndexesInv, SearchFindsEveryMatch, Answered
<1>4. DenseIsNearest'
  BY <1>1 DEF IndexesInv, DenseIsNearest, Answered, ExactSearch
<1>5. QED
  BY <1>2, <1>3, <1>4 DEF IndexesInv

LEMMA IndexesStep == ASSUME RankingAssumption, IndexesInv, RankingNext PROVE IndexesInv'
<1>1. ASSUME NEW c \in Chunk, NEW text \in Text[c], answer = NoAnswer, Add(c, text)
      PROVE  IndexesInv'
  BY <1>1, AddKeeps
<1>2. ASSUME NEW c \in Chunk, answer = NoAnswer, Upsert(c)
      PROVE  IndexesInv'
  BY <1>2, UpsertKeeps
<1>3. ASSUME NEW c \in Chunk, answer = NoAnswer, RemovePaper(PaperOf[c])
      PROVE  IndexesInv'
  BY <1>3, RemovePaperKeeps
<1>4. ASSUME NEW c \in Chunk, answer = NoAnswer, DeleteByPaper(PaperOf[c])
      PROVE  IndexesInv'
  BY <1>4, DeleteByPaperKeeps
<1>5. ASSUME answer = NoAnswer, Restart
      PROVE  IndexesInv'
  BY <1>5, RestartKeeps
<1>6. ASSUME NEW query \in Query, NEW filters \in Filter, NEW limit \in Limit, NEW rows \in Rows,
             NEW Rating \in Ratings, NEW useReranker \in BOOLEAN,
             Retrieve(query, filters, limit, rows, Rating, useReranker)
      PROVE  IndexesInv'
  BY <1>6, RetrieveKeeps
<1>7. CASE Return
  BY <1>7, ReturnKeeps
<1>8. QED
  BY <1>1, <1>2, <1>3, <1>4, <1>5, <1>6, <1>7 DEF RankingNext

\* What the invariant says of the statistics.
LEMMA ExactIsTyped ==
  ASSUME Exact(bm25)
  PROVE  StatisticsAreExact
<1> DEFINE d == bm25.documents
<1>1. /\ DOMAIN bm25.documentFrequency = TermsOf(d)
      /\ \A t \in TermsOf(d) : bm25.documentFrequency[t] = Cardinality(HoldersOf(d, t))
      /\ bm25.totalLength = Cardinality(TokenPlaces(d))
  BY DEF Exact
<1>2. QED
  BY <1>1 DEF StatisticsAreExact, TermsOf, HoldersOf, TokenPlaces

THEOREM IndexesStayExact == RankingSpec => []IndexesAnswerExactly
<1>1. RankingInit => IndexesInv
  BY IndexesInitially
<1>2. IndexesInv /\ [RankingNext]_rankingVars => IndexesInv'
  BY RankingAssumption, IndexesStep, IndexesStutter
<1>3. IndexesInv => IndexesAnswerExactly
  <2> SUFFICES ASSUME IndexesInv PROVE IndexesAnswerExactly
    OBVIOUS
  <2>1. StatisticsAreExact
    BY ExactIsTyped DEF IndexesInv, StoresInv
  <2>2. RankingTypeOK
    <3>1. DOMAIN bm25.documents \in SUBSET Chunk /\ bm25.totalLength \in Nat
      BY DEF IndexesInv, StoresInv, Exact, IndexState
    <3>2. \A c \in DOMAIN bm25.documents :
            bm25.documents[c] \in Seq((UNION {Terms(t) : t \in Text[c]}) \ Stopword)
      BY DEF IndexesInv, StoresInv, Exact, Vocabulary
    <3>3. QED
      BY <3>1, <3>2 DEF IndexesInv, StoresInv, RankingTypeOK
  <2>3. QED
    BY <2>1, <2>2 DEF IndexesAnswerExactly, IndexesInv
<1>4. QED
  BY <1>1, <1>2, <1>3, PTL DEF RankingSpec

-----------------------------------------------------------------------------
(* The order of fused scores.                                              *)

LEMMA ProductGrows ==
  ASSUME NEW a \in Int, NEW b \in Int, NEW c \in Nat, a <= b
  PROVE  a * c <= b * c
OBVIOUS

LEMMA ProductGrowsStrictly ==
  ASSUME NEW a \in Int, NEW b \in Int, NEW c \in Nat \ {0}, a < b
  PROVE  a * c < b * c
OBVIOUS

LEMMA ProductTells ==
  ASSUME NEW a \in Int, NEW b \in Int, NEW c \in Nat \ {0}, a * c <= b * c
  PROVE  a <= b
BY ProductGrowsStrictly

LEMMA FactorsSwap ==
  ASSUME NEW a \in Int, NEW b \in Int, NEW c \in Int
  PROVE  /\ (a * b) * c = (a * c) * b /\ (a * b) * c = (b * c) * a
         /\ (a + b) * c = a * c + b * c
OBVIOUS

\* Fractions, as pairs, and the ranks that have one.
Fraction == (Nat \ {0}) \X (Nat \ {0})
Found(d, s) == d \in Nat /\ s \in Nat /\ (d # 0 \/ s # 0)

LEMMA ScoreIsFraction ==
  ASSUME RrfAssumption, NEW d, NEW s, Found(d, s)
  PROVE  FusedScore(d, s) \in Fraction
<1> DEFINE D == Damped(d)
           S == Damped(s)
<1>1. D \in Nat /\ S \in Nat /\ (d # 0 => D # 0) /\ (s # 0 => S # 0)
  BY DEF RrfAssumption, Damped, Found
<1>2. CASE d = 0
  BY <1>1, <1>2 DEF FusedScore, Found, Fraction
<1>3. CASE d # 0 /\ s = 0
  BY <1>1, <1>3 DEF FusedScore, Found, Fraction
<1>4. CASE d # 0 /\ s # 0
  <2>1. FusedScore(d, s) = <<D + S, D * S>>
    BY <1>4 DEF FusedScore
  <2>2. D \in Nat \ {0} /\ S \in Nat \ {0}
    BY <1>1, <1>4
  <2> HIDE DEF D, S
  <2>3. D + S \in Nat \ {0} /\ D * S \in Nat \ {0}
    BY <2>2
  <2>4. QED
    BY <2>1, <2>3 DEF Fraction
<1>5. QED
  BY <1>2, <1>3, <1>4

\* Greater is a strict weak order of fractions.
LEMMA GreaterIsWeak ==
  ASSUME NEW a \in Fraction, NEW b \in Fraction, NEW c \in Fraction
  PROVE  /\ Greater(a, b) => ~ Greater(b, a)
         /\ Greater(a, c) => Greater(a, b) \/ Greater(b, c)
<1> DEFINE a1 == a[1]
           a2 == a[2]
           b1 == b[1]
           b2 == b[2]
           c1 == c[1]
           c2 == c[2]
<1>1. /\ a1 \in Nat /\ b1 \in Nat /\ c1 \in Nat
      /\ a2 \in Nat \ {0} /\ b2 \in Nat \ {0} /\ c2 \in Nat \ {0}
  BY DEF Fraction
<1>2. /\ Greater(a, b) <=> a1 * b2 > b1 * a2
      /\ Greater(b, a) <=> b1 * a2 > a1 * b2
      /\ Greater(b, c) <=> b1 * c2 > c1 * b2
      /\ Greater(a, c) <=> a1 * c2 > c1 * a2
  BY DEF Greater
<1> HIDE DEF a1, a2, b1, b2, c1, c2
<1>3. a1 * b2 \in Nat /\ b1 * a2 \in Nat /\ b1 * c2 \in Nat /\ c1 * b2 \in Nat
      /\ a1 * c2 \in Nat /\ c1 * a2 \in Nat
  BY <1>1
<1>4. ASSUME a1 * b2 <= b1 * a2, b1 * c2 <= c1 * b2
      PROVE  a1 * c2 <= c1 * a2
  <2>1. (a1 * b2) * c2 <= (b1 * a2) * c2
    BY <1>1, <1>3, <1>4, ProductGrows
  <2>2. (b1 * c2) * a2 <= (c1 * b2) * a2
    BY <1>1, <1>3, <1>4, ProductGrows
  <2>3. /\ (a1 * b2) * c2 = (a1 * c2) * b2
        /\ (b1 * a2) * c2 = (b1 * c2) * a2
        /\ (c1 * b2) * a2 = (c1 * a2) * b2
    BY <1>1, FactorsSwap
  <2>4. (a1 * c2) * b2 \in Int /\ (b1 * c2) * a2 \in Int /\ (c1 * a2) * b2 \in Int
    BY <1>1, <1>3
  <2>5. (a1 * c2) * b2 <= (c1 * a2) * b2
    <3> DEFINE x == (a1 * c2) * b2
               y == (b1 * c2) * a2
               z == (c1 * a2) * b2
    <3>1. x <= y /\ y <= z /\ x \in Int /\ y \in Int /\ z \in Int
      BY <2>1, <2>2, <2>3, <2>4
    <3> HIDE DEF x, y, z
    <3>2. x <= z
      BY <3>1
    <3>3. QED
      BY <3>2 DEF x, z
  <2>6. QED
    BY <1>1, <1>3, <2>5, ProductTells
<1> DEFINE ab == a1 * b2
           ba == b1 * a2
           bc == b1 * c2
           cb == c1 * b2
           ac == a1 * c2
           ca == c1 * a2
<1>5. ab \in Int /\ ba \in Int /\ bc \in Int /\ cb \in Int /\ ac \in Int /\ ca \in Int
  BY <1>3
<1>6. ab <= ba /\ bc <= cb => ac <= ca
  BY <1>4
<1>7. /\ Greater(a, b) <=> ab > ba
      /\ Greater(b, a) <=> ba > ab
      /\ Greater(b, c) <=> bc > cb
      /\ Greater(a, c) <=> ac > ca
  BY <1>2
<1> HIDE DEF ab, ba, bc, cb, ac, ca
<1>8. QED
  BY <1>5, <1>6, <1>7

\* So is the key of the sort: ties go to what both found.
LEMMA OutranksIsWeak ==
  ASSUME RrfAssumption,
         NEW d1, NEW s1, Found(d1, s1), NEW d2, NEW s2, Found(d2, s2), NEW d3, NEW s3, Found(d3, s3)
  PROVE  /\ Outranks(d1, s1, d2, s2) => ~ Outranks(d2, s2, d1, s1)
         /\ Outranks(d1, s1, d3, s3) => Outranks(d1, s1, d2, s2) \/ Outranks(d2, s2, d3, s3)
<1> DEFINE a == FusedScore(d1, s1)
           b == FusedScore(d2, s2)
           c == FusedScore(d3, s3)
<1>1. a \in Fraction /\ b \in Fraction /\ c \in Fraction
  BY ScoreIsFraction
<1> HIDE DEF a, b, c
<1>2. /\ Greater(a, b) => ~ Greater(b, a)
      /\ Greater(a, c) => Greater(a, b) \/ Greater(b, c)
  BY <1>1, GreaterIsWeak
<1>3. Greater(c, a) => Greater(c, b) \/ Greater(b, a)
  BY <1>1, GreaterIsWeak
<1>4. Greater(b, a) => Greater(b, c) \/ Greater(c, a)
  BY <1>1, GreaterIsWeak
<1>5. Greater(c, b) => Greater(c, a) \/ Greater(a, b)
  BY <1>1, GreaterIsWeak
<1>6. (Greater(b, c) => ~ Greater(c, b)) /\ (Greater(a, c) => ~ Greater(c, a))
  BY <1>1, GreaterIsWeak
<1>7. /\ Outranks(d1, s1, d2, s2) <=> Greater(a, b)
           \/ (~ Greater(b, a) /\ FoundByBoth(d1, s1) /\ ~ FoundByBoth(d2, s2))
      /\ Outranks(d2, s2, d1, s1) <=> Greater(b, a)
           \/ (~ Greater(a, b) /\ FoundByBoth(d2, s2) /\ ~ FoundByBoth(d1, s1))
      /\ Outranks(d2, s2, d3, s3) <=> Greater(b, c)
           \/ (~ Greater(c, b) /\ FoundByBoth(d2, s2) /\ ~ FoundByBoth(d3, s3))
      /\ Outranks(d1, s1, d3, s3) <=> Greater(a, c)
           \/ (~ Greater(c, a) /\ FoundByBoth(d1, s1) /\ ~ FoundByBoth(d3, s3))
  BY DEF Outranks, a, b, c
<1>8. QED
  BY <1>2, <1>3, <1>4, <1>5, <1>6, <1>7

\* The place of a rank in a list of n, past its end when there is none.
StandsAt(rank, n) == IF rank = 0 THEN n + 1 ELSE rank

\* What stands no lower in either list and higher in one outranks.
LEMMA DominanceOutranks ==
  ASSUME RrfAssumption, NEW m \in Nat, NEW n \in Nat,
         NEW d1 \in 0 .. m, NEW d2 \in 0 .. m, NEW s1 \in 0 .. n, NEW s2 \in 0 .. n,
         Found(d1, s1), Found(d2, s2),
         StandsAt(d1, m) <= StandsAt(d2, m), StandsAt(s1, n) <= StandsAt(s2, n),
         StandsAt(d1, m) + StandsAt(s1, n) < StandsAt(d2, m) + StandsAt(s2, n)
  PROVE  Outranks(d1, s1, d2, s2)
<1> DEFINE D1 == Damped(d1)
           D2 == Damped(d2)
           S1 == Damped(s1)
           S2 == Damped(s2)
<1>1. /\ D1 \in Nat /\ D2 \in Nat /\ S1 \in Nat /\ S2 \in Nat
      /\ (d1 # 0 => D1 # 0) /\ (d2 # 0 => D2 # 0) /\ (s1 # 0 => S1 # 0) /\ (s2 # 0 => S2 # 0)
      /\ (d1 < d2 => D1 < D2) /\ (s1 < s2 => S1 < S2)
      /\ (d1 <= d2 => D1 <= D2) /\ (s1 <= s2 => S1 <= S2)
  BY DEF RrfAssumption, Damped
<1>2. /\ d2 # 0 => d1 # 0 /\ d1 <= d2
      /\ s2 # 0 => s1 # 0 /\ s1 <= s2
      /\ d1 = 0 => d2 = 0
      /\ s1 = 0 => s2 = 0
      /\ d1 < d2 \/ s1 < s2 \/ (d1 # 0 /\ d2 = 0) \/ (s1 # 0 /\ s2 = 0)
      /\ (d1 # 0 \/ s1 # 0) /\ (d2 # 0 \/ s2 # 0)
  BY DEF StandsAt, Found
<1> SUFFICES Greater(FusedScore(d1, s1), FusedScore(d2, s2))
  BY DEF Outranks
<1>3. CASE d2 = 0 /\ d1 = 0
  <2>1. FusedScore(d1, s1) = <<1, S1>> /\ FusedScore(d2, s2) = <<1, S2>> /\ S1 < S2
    BY <1>1, <1>2, <1>3 DEF FusedScore
  <2> HIDE DEF S1, S2
  <2>2. QED
    BY <1>1, <2>1 DEF Greater
<1>4. CASE d2 = 0 /\ d1 # 0
  <2>1. /\ FusedScore(d1, s1) = <<D1 + S1, D1 * S1>> /\ FusedScore(d2, s2) = <<1, S2>>
        /\ S1 <= S2 /\ D1 # 0 /\ S1 # 0 /\ S2 # 0
    BY <1>1, <1>2, <1>4 DEF FusedScore
  <2> HIDE DEF D1, S1, S2
  <2>2. S1 * D1 <= S2 * D1
    BY <1>1, <2>1, ProductGrows
  <2>3. S1 * S2 \in Nat \ {0}
    BY <1>1, <2>1
  <2>4. (D1 + S1) * S2 > 1 * (D1 * S1)
    BY <1>1, <2>2, <2>3
  <2>5. QED
    BY <2>1, <2>4 DEF Greater
<1>5. CASE d2 # 0 /\ s2 = 0 /\ s1 = 0
  <2>1. FusedScore(d1, s1) = <<1, D1>> /\ FusedScore(d2, s2) = <<1, D2>> /\ D1 < D2
    BY <1>1, <1>2, <1>5 DEF FusedScore
  <2> HIDE DEF D1, D2
  <2>2. QED
    BY <1>1, <2>1 DEF Greater
<1>6. CASE d2 # 0 /\ s2 = 0 /\ s1 # 0
  <2>1. /\ FusedScore(d1, s1) = <<D1 + S1, D1 * S1>> /\ FusedScore(d2, s2) = <<1, D2>>
        /\ D1 <= D2 /\ D1 # 0 /\ S1 # 0 /\ D2 # 0
    BY <1>1, <1>2, <1>6 DEF FusedScore
  <2> HIDE DEF D1, S1, D2
  <2>2. D1 * S1 <= D2 * S1
    BY <1>1, <2>1, ProductGrows
  <2>3. D1 * D2 \in Nat \ {0}
    BY <1>1, <2>1
  <2>4. (D1 + S1) * D2 > 1 * (D1 * S1)
    BY <1>1, <2>2, <2>3
  <2>5. QED
    BY <2>1, <2>4 DEF Greater
<1>7. CASE d2 # 0 /\ s2 # 0
  <2>1. /\ FusedScore(d1, s1) = <<D1 + S1, D1 * S1>> /\ FusedScore(d2, s2) = <<D2 + S2, D2 * S2>>
        /\ D1 <= D2 /\ S1 <= S2 /\ (D1 < D2 \/ S1 < S2)
        /\ D1 # 0 /\ S1 # 0 /\ D2 # 0 /\ S2 # 0
    BY <1>1, <1>2, <1>7 DEF FusedScore
  <2> HIDE DEF D1, D2, S1, S2
  <2> DEFINE dd == D1 * D2
             ss == S1 * S2
  <2>2. dd \in Nat \ {0} /\ ss \in Nat \ {0}
    BY <1>1, <2>1
  <2>3. /\ (D1 + S1) * (D2 * S2) = S2 * dd + D2 * ss
        /\ (D2 + S2) * (D1 * S1) = S1 * dd + D1 * ss
    BY <1>1
  <2> HIDE DEF dd, ss
  <2>4. S1 * dd <= S2 * dd /\ D1 * ss <= D2 * ss
    BY <1>1, <2>1, <2>2, ProductGrows
  <2>5. S1 * dd < S2 * dd \/ D1 * ss < D2 * ss
    BY <1>1, <2>1, <2>2, ProductGrowsStrictly
  <2>6. S1 * dd \in Int /\ S2 * dd \in Int /\ D1 * ss \in Int /\ D2 * ss \in Int
    BY <1>1, <2>2
  <2>7. S2 * dd + D2 * ss > S1 * dd + D1 * ss
    BY <2>4, <2>5, <2>6
  <2>8. (D1 + S1) * (D2 * S2) > (D2 + S2) * (D1 * S1)
    BY <2>3, <2>7
  <2>9. QED
    BY <2>1, <2>8 DEF Greater
<1>8. QED
  BY <1>3, <1>4, <1>5, <1>6, <1>7

\* What both found, no lower than rank RRF_K + 2, outranks what one did.
LEMMA AgreementOutranks ==
  ASSUME RrfAssumption, NEW d1 \in 1 .. RrfK + 2, NEW s1 \in 1 .. RrfK + 2,
         NEW d2, NEW s2, Found(d2, s2), d2 = 0 \/ s2 = 0
  PROVE  Outranks(d1, s1, d2, s2)
<1> DEFINE D == Damped(d1)
           S == Damped(s1)
           K == RrfK + 1
           X == IF d2 = 0 THEN Damped(s2) ELSE Damped(d2)
<1>1. K \in Nat \ {0} /\ D \in Nat \ {0} /\ S \in Nat \ {0} /\ D <= 2 * K /\ S <= 2 * K
  BY DEF RrfAssumption, Damped
<1>2. X \in Nat /\ X >= K
  BY DEF RrfAssumption, Damped, Found
<1>3. FusedScore(d1, s1) = <<D + S, D * S>> /\ FusedScore(d2, s2) = <<1, X>>
  BY DEF FusedScore
<1>4. FoundByBoth(d1, s1) /\ ~ FoundByBoth(d2, s2)
  BY DEF FoundByBoth, RrfAssumption
<1> HIDE DEF D, S, K, X
<1>5. ~ (1 * (D * S) > (D + S) * X)
  <2>1. D * S <= (2 * K) * S /\ S * D <= (2 * K) * D
    BY <1>1, ProductGrows
  <2>2. K * (D + S) <= X * (D + S)
    BY <1>1, <1>2, ProductGrows
  <2> DEFINE ds == D * S
             kd == K * D
             ks == K * S
  <2>3. (2 * K) * S = 2 * ks /\ (2 * K) * D = 2 * kd /\ S * D = ds /\ K * (D + S) = kd + ks
        /\ X * (D + S) = (D + S) * X /\ 1 * (D * S) = ds
    BY <1>1, <1>2
  <2>4. ds \in Int /\ kd \in Int /\ ks \in Int /\ (D + S) * X \in Int
    BY <1>1, <1>2
  <2>5. ds <= 2 * ks /\ ds <= 2 * kd /\ kd + ks <= (D + S) * X
    BY <2>1, <2>2, <2>3
  <2> HIDE DEF ds, kd, ks
  <2>6. ds <= (D + S) * X
    BY <2>4, <2>5
  <2>7. QED
    BY <2>3, <2>4, <2>6
<1>6. ~ Greater(FusedScore(d2, s2), FusedScore(d1, s1))
  BY <1>3, <1>5 DEF Greater
<1>7. QED
  BY <1>4, <1>6 DEF Outranks

-----------------------------------------------------------------------------
(* From two lists to the answer.                                           *)

\* RankIn finds the place of an element.
LEMMA RankIs ==
  ASSUME NEW V, NEW s \in Seq(V), IsInjective(s)
  PROVE  /\ \A c : RankIn(s, c) \in 0 .. Len(s)
         /\ \A c : RankIn(s, c) # 0 <=> c \in Range(s)
         /\ \A i \in 1 .. Len(s) : RankIn(s, s[i]) = i
         /\ \A c \in Range(s) : s[RankIn(s, c)] = c
<1>1. DOMAIN s = 1 .. Len(s) /\ Len(s) \in Nat
  OBVIOUS
<1>2. \A i, j \in 1 .. Len(s) : s[i] = s[j] => i = j
  BY <1>1 DEF IsInjective
<1>3. ASSUME NEW c, c \notin Range(s)
      PROVE  RankIn(s, c) = 0
  <2>1. ~ \E i \in DOMAIN s : s[i] = c
    BY <1>3 DEF Range
  <2>2. QED
    BY <2>1 DEF RankIn
<1>4. ASSUME NEW i \in 1 .. Len(s)
      PROVE  RankIn(s, s[i]) = i
  <2> DEFINE c == s[i]
  <2>1. \E j \in DOMAIN s : s[j] = c
    BY <1>1
  <2>2. RankIn(s, c) = CHOOSE j \in DOMAIN s : s[j] = c
    BY <2>1 DEF RankIn
  <2>3. RankIn(s, c) \in 1 .. Len(s) /\ s[RankIn(s, c)] = s[i]
    BY <1>1, <2>1, <2>2
  <2>4. QED
    BY <1>2, <2>3
<1>5. \A c \in Range(s) : \E i \in 1 .. Len(s) : c = s[i]
  BY <1>1 DEF Range
<1>6. \A i \in 1 .. Len(s) : i # 0 /\ i \in 0 .. Len(s)
  BY <1>1
<1>7. 0 \in 0 .. Len(s)
  BY <1>1
<1>8. QED
  BY <1>3, <1>4, <1>5, <1>6, <1>7

\* What a stable sort puts first.
LEMMA SortedAhead ==
  ASSUME NEW V, NEW s \in Seq(V), NEW above, WeakOrder(above, V), NEW r, r = RankedBy(s, above)
  PROVE  \A i, j \in 1 .. Len(s) : Ahead(s, above, i, j) =>
           \E k, l \in 1 .. Len(s) : k < l /\ r[k] = s[i] /\ r[l] = s[j]
<1>1. PICK g : Sorts(g, s, above) /\ r = [k \in 1 .. Len(s) |-> s[g[k]]]
  BY RankedBySorts
<1>2. \A k \in 1 .. Len(s) : r[k] = s[g[k]] /\ g[k] \in 1 .. Len(s)
  BY <1>1 DEF Sorts
<1>3. \A j, k \in 1 .. Len(s) : j < k <=> Ahead(s, above, g[j], g[k])
  BY <1>1 DEF Sorts
<1>4. \A i \in 1 .. Len(s) : \E k \in 1 .. Len(s) : g[k] = i
  BY <1>1 DEF Sorts
<1>5. ASSUME NEW i \in 1 .. Len(s), NEW j \in 1 .. Len(s), Ahead(s, above, i, j)
      PROVE  \E k, l \in 1 .. Len(s) : k < l /\ r[k] = s[i] /\ r[l] = s[j]
  <2>1. PICK k \in 1 .. Len(s) : g[k] = i
    BY <1>4
  <2>2. PICK l \in 1 .. Len(s) : g[l] = j
    BY <1>4
  <2>3. k < l
    BY <1>3, <1>5, <2>1, <2>2
  <2>4. r[k] = s[i] /\ r[l] = s[j]
    BY <1>2, <2>1, <2>2
  <2>5. QED
    BY <2>3, <2>4
<1>6. QED
  BY <1>5

LEMMA SortedBefore ==
  ASSUME NEW V, NEW s \in Seq(V), NEW above, WeakOrder(above, V), NEW r, r = RankedBy(s, above)
  PROVE  \A k, l \in 1 .. Len(s) : k < l =>
           \E i, j \in 1 .. Len(s) : Ahead(s, above, i, j) /\ r[k] = s[i] /\ r[l] = s[j]
<1>1. PICK g : Sorts(g, s, above) /\ r = [k \in 1 .. Len(s) |-> s[g[k]]]
  BY RankedBySorts
<1>2. \A k \in 1 .. Len(s) : r[k] = s[g[k]] /\ g[k] \in 1 .. Len(s)
  BY <1>1 DEF Sorts
<1>3. \A j, k \in 1 .. Len(s) : j < k <=> Ahead(s, above, g[j], g[k])
  BY <1>1 DEF Sorts
<1>4. QED
  BY <1>2, <1>3

\* The merged list has what either list has, once.
LEMMA MergedIsAll ==
  ASSUME NEW V, NEW dense \in Seq(V), IsInjective(dense), NEW sparse \in Seq(V), IsInjective(sparse)
  PROVE  /\ Merged(dense, sparse) \in Seq(V) /\ IsInjective(Merged(dense, sparse))
         /\ ToSet(Merged(dense, sparse)) = Range(dense) \cup Range(sparse)
<1> DEFINE P == {i \in DOMAIN sparse : RankIn(dense, sparse[i]) = 0}
           rest == Chosen(sparse, P)
<1>1. P \in SUBSET (DOMAIN sparse)
  OBVIOUS
<1>2. \A i \in DOMAIN sparse : i \in P <=> sparse[i] \notin Range(dense)
  BY RankIs
<1>3. Merged(dense, sparse) = dense \o rest
  BY DEF Merged
<1> HIDE DEF P
<1>4. IsInjective(rest) /\ rest \in Seq(V) /\ Range(rest) = {sparse[i] : i \in P}
  BY <1>1, ChosenStaysInjective
<1> HIDE DEF rest
<1>5. ToSet(rest) = Range(rest) /\ ToSet(dense) = Range(dense)
  BY DEF ToSet, Range
<1>6. Range(rest) = Range(sparse) \ Range(dense)
  <2>1. \A c : c \in Range(rest) <=> c \in Range(sparse) /\ c \notin Range(dense)
    BY <1>1, <1>2, <1>4 DEF Range
  <2>2. QED
    BY <2>1
<1>7. QED
  BY <1>3, <1>4, <1>5, <1>6, ListedOneAfterTheOther

\* An injective list is as long as its elements are many.
LEMMA LengthCounts ==
  ASSUME NEW V, NEW s \in Seq(V), IsInjective(s)
  PROVE  Cardinality(Range(s)) = Len(s)
<1>1. DOMAIN s = 1 .. Len(s) /\ Len(s) \in Nat /\ s = [i \in 1 .. Len(s) |-> s[i]]
  OBVIOUS
<1>2. IsFiniteSet(1 .. Len(s)) /\ Cardinality(1 .. Len(s)) = Len(s)
  BY <1>1, SpanIsCounted
<1>3. \A i, j \in 1 .. Len(s) : s[i] = s[j] => i = j
  BY <1>1 DEF IsInjective
<1> DEFINE S == 1 .. Len(s)
<1>4. DOMAIN s = S /\ s = [i \in S |-> s[i]] /\ IsFiniteSet(S) /\ Cardinality(S) = Len(s)
      /\ \A x, y \in S : s[x] = s[y] => x = y
  BY <1>1, <1>2, <1>3
<1>5. Range(s) = {s[i] : i \in S}
  BY <1>1 DEF Range
<1> HIDE DEF S
<1>6. Cardinality({s[i] : i \in S}) = Cardinality(S)
  BY ONLY <1>4, DistinctImages
<1>7. QED
  BY <1>4, <1>5, <1>6

\* The pairs Fuse sorts by.
Outranking(dense, sparse, found) ==
  {ab \in found \X found : Outranks(RankIn(dense, ab[1]), RankIn(sparse, ab[1]),
                                    RankIn(dense, ab[2]), RankIn(sparse, ab[2]))}

LEMMA OutrankingIsWeak ==
  ASSUME RrfAssumption,
         NEW V, NEW dense \in Seq(V), IsInjective(dense), NEW sparse \in Seq(V), IsInjective(sparse),
         NEW found, found = Range(dense) \cup Range(sparse)
  PROVE  /\ WeakOrder(Outranking(dense, sparse, found), found)
         /\ \A a, b \in found : <<a, b>> \in Outranking(dense, sparse, found) <=>
              Outranks(RankIn(dense, a), RankIn(sparse, a), RankIn(dense, b), RankIn(sparse, b))
         /\ \A a \in found : Found(RankIn(dense, a), RankIn(sparse, a))
<1> DEFINE R == Outranking(dense, sparse, found)
<1>1. \A a \in found : Found(RankIn(dense, a), RankIn(sparse, a))
  <2>1. \A a : RankIn(dense, a) \in Nat /\ RankIn(sparse, a) \in Nat
    <3>1. \A a : RankIn(dense, a) \in 0 .. Len(dense) /\ RankIn(sparse, a) \in 0 .. Len(sparse)
      BY RankIs
    <3>2. QED
      BY <3>1
  <2>2. \A a \in found : RankIn(dense, a) # 0 \/ RankIn(sparse, a) # 0
    BY RankIs
  <2>3. QED
    BY <2>1, <2>2 DEF Found
<1>2. \A a, b \in found : <<a, b>> \in R <=>
        Outranks(RankIn(dense, a), RankIn(sparse, a), RankIn(dense, b), RankIn(sparse, b))
  BY DEF Outranking
<1> HIDE DEF R
<1>3. ASSUME NEW x \in found, NEW y \in found, <<x, y>> \in R
      PROVE  <<y, x>> \notin R
  BY <1>1, <1>2, <1>3, OutranksIsWeak
<1>4. ASSUME NEW x \in found, NEW y \in found, NEW z \in found, <<x, z>> \in R
      PROVE  <<x, y>> \in R \/ <<y, z>> \in R
  BY <1>1, <1>2, <1>4, OutranksIsWeak
<1>5. WeakOrder(R, found)
  BY <1>3, <1>4 DEF WeakOrder
<1>6. QED
  BY <1>1, <1>2, <1>5 DEF R

\* In the fused list what outranks is ahead.
Obeys(fused, dense, sparse, found) ==
  \A a, b \in found :
    /\ Outranks(RankIn(dense, a), RankIn(sparse, a), RankIn(dense, b), RankIn(sparse, b))
    /\ RankIn(fused, b) # 0
    => RankIn(fused, a) # 0 /\ RankIn(fused, a) < RankIn(fused, b)

\* What is cut of the fused list, and who is ahead in it.
LEMMA FuseOrders ==
  ASSUME RrfAssumption,
         NEW V, NEW dense \in Seq(V), IsInjective(dense), NEW sparse \in Seq(V), IsInjective(sparse),
         NEW found, found = Range(dense) \cup Range(sparse), NEW pool \in Nat,
         NEW fused, fused = FirstOf(Fuse(dense, sparse), pool)
  PROVE  /\ fused \in Seq(found) /\ IsInjective(fused)
         /\ Len(fused) = Min0(pool, Cardinality(found))
         /\ Obeys(fused, dense, sparse, found)
<1> DEFINE s == Merged(dense, sparse)
           R == Outranking(dense, sparse, found)
           full == RankedBy(s, R)
           cut == Min0(pool, Len(s))
<1>1. s \in Seq(V) /\ IsInjective(s) /\ ToSet(s) = found
  BY MergedIsAll
<1>2. Range(s) = found /\ s \in Seq(found) /\ DOMAIN s = 1 .. Len(s) /\ Len(s) \in Nat
  <2> HIDE DEF s
  <2>1. DOMAIN s = 1 .. Len(s) /\ Len(s) \in Nat
    BY <1>1
  <2>2. Range(s) = found
    BY <1>1 DEF ToSet, Range
  <2>3. \A i \in 1 .. Len(s) : s[i] \in found
    BY <2>1, <2>2 DEF Range
  <2>4. QED
    BY <1>1, <2>1, <2>2, <2>3
<1>3. Fuse(dense, sparse) = full
  BY <1>1 DEF Fuse, Outranking
<1>4. WeakOrder(R, found)
  BY OutrankingIsWeak
<1>5. \A a, b \in found : <<a, b>> \in R <=>
        Outranks(RankIn(dense, a), RankIn(sparse, a), RankIn(dense, b), RankIn(sparse, b))
  BY OutrankingIsWeak
<1> HIDE DEF s, R
<1>6. full \in Seq(found) /\ Len(full) = Len(s) /\ IsInjective(full) /\ Range(full) = found
  BY <1>1, <1>2, <1>4, RankedByPermutes
<1>7. Len(s) = Cardinality(found) /\ Len(s) \in Nat
  <2>1. Cardinality(Range(s)) = Len(s)
    BY <1>1, LengthCounts
  <2>2. QED
    BY <1>2, <2>1
<1>8. \A i, j \in 1 .. Len(s) : Ahead(s, R, i, j) =>
        \E k, l \in 1 .. Len(s) : k < l /\ full[k] = s[i] /\ full[l] = s[j]
  <2>1. s \in Seq(found) /\ full = RankedBy(s, R)
    BY <1>2
  <2> HIDE DEF full
  <2>2. QED
    BY ONLY <1>4, <2>1, SortedAhead
<1> HIDE DEF full
<1>9. /\ fused \in Seq(found) /\ Len(fused) = cut
      /\ \A k \in 1 .. cut : fused[k] = full[k]
      /\ cut \in 0 .. Len(s)
  BY <1>3, <1>6, FirstOfIs
<1> HIDE DEF cut
<1>10. \A j, k \in 1 .. Len(s) : full[j] = full[k] => j = k
  <2>1. DOMAIN full = 1 .. Len(s)
    BY <1>6, <1>7
  <2>2. QED
    BY <1>6, <2>1 DEF IsInjective
<1>11. IsInjective(fused)
  <2>1. DOMAIN fused = 1 .. cut /\ \A k \in 1 .. cut : k \in 1 .. Len(s)
    BY <1>7, <1>9
  <2>2. QED
    BY <1>9, <1>10, <2>1 DEF IsInjective
<1>12. ASSUME NEW a \in found, NEW b \in found, <<a, b>> \in R, RankIn(fused, b) # 0
       PROVE  RankIn(fused, a) # 0 /\ RankIn(fused, a) < RankIn(fused, b)
  <2>0. \A c \in found : \E i \in 1 .. Len(s) : s[i] = c
    BY <1>2 DEF Range
  <2>1. \E i \in 1 .. Len(s) : s[i] = a
    BY <2>0
  <2>2. \E j \in 1 .. Len(s) : s[j] = b
    BY <2>0
  <2>3. PICK i \in 1 .. Len(s), j \in 1 .. Len(s) : s[i] = a /\ s[j] = b
    BY <2>1, <2>2
  <2>4. Ahead(s, R, i, j)
    BY <1>12, <2>3 DEF Ahead
  <2>5. PICK k \in 1 .. Len(s), l \in 1 .. Len(s) : k < l /\ full[k] = a /\ full[l] = b
    <3>1. \E k, l \in 1 .. Len(s) : k < l /\ full[k] = s[i] /\ full[l] = s[j]
      BY <1>8, <2>4
    <3>2. QED
      BY <2>3, <3>1
  <2>6. RankIn(fused, b) \in 1 .. cut /\ fused[RankIn(fused, b)] = b
    <3>1. RankIn(fused, b) \in 0 .. cut /\ b \in Range(fused) /\ fused[RankIn(fused, b)] = b
      BY <1>9, <1>11, <1>12, RankIs
    <3>2. QED
      BY <1>7, <1>9, <1>12, <3>1
  <2>7. RankIn(fused, b) = l
    <3>1. RankIn(fused, b) \in 1 .. Len(s) /\ full[RankIn(fused, b)] = b
      BY <1>7, <1>9, <2>6
    <3>2. QED
      BY <1>10, <2>5, <3>1
  <2>8. k \in 1 .. cut /\ fused[k] = a
    BY <1>7, <1>9, <2>5, <2>6, <2>7
  <2>9. RankIn(fused, a) = k
    <3>1. \A x \in 1 .. Len(fused) : RankIn(fused, fused[x]) = x
      BY <1>9, <1>11, RankIs
    <3>2. QED
      BY <1>9, <2>8, <3>1
  <2>10. QED
    BY <2>5, <2>7, <2>8, <2>9
<1>13. Len(fused) = Min0(pool, Cardinality(found))
  BY <1>7, <1>9 DEF cut
<1>14. Obeys(fused, dense, sparse, found)
  BY <1>5, <1>12 DEF Obeys
<1>15. QED
  BY <1>9, <1>11, <1>13, <1>14

\* What FusionIsFair asks of an answer.
LEMMA AnswerIsFair ==
  ASSUME RrfAssumption,
         NEW V, NEW dense \in Seq(V), IsInjective(dense), NEW sparse \in Seq(V), IsInjective(sparse),
         NEW pool \in Nat, pool = Candidates(answer'.limit),
         answer'.dense = dense, answer'.sparse = sparse,
         answer'.fused = FirstOf(Fuse(dense, sparse), pool)
  PROVE  FusionIsFair'
<1> DEFINE found == Range(answer'.dense) \cup Range(answer'.sparse)
           fused == answer'.fused
           Both(c) == RankIn(answer'.dense, c) # 0 /\ RankIn(answer'.sparse, c) # 0
           Agreed(c) ==
             /\ RankIn(answer'.dense, c) \in 1 .. RrfK + 2
             /\ RankIn(answer'.sparse, c) \in 1 .. RrfK + 2
           Dominates(a, b) ==
             /\ PlaceIn(answer'.dense, a) <= PlaceIn(answer'.dense, b)
             /\ PlaceIn(answer'.sparse, a) <= PlaceIn(answer'.sparse, b)
             /\ PlaceIn(answer'.dense, a) + PlaceIn(answer'.sparse, a) <
                PlaceIn(answer'.dense, b) + PlaceIn(answer'.sparse, b)
<1>0. found = Range(dense) \cup Range(sparse) /\ fused = FirstOf(Fuse(dense, sparse), pool)
  OBVIOUS
<1> HIDE DEF found, fused
<1>1. fused \in Seq(found) /\ IsInjective(fused)
  BY <1>0, FuseOrders
<1>2. Len(fused) = Min0(pool, Cardinality(found))
  BY ONLY RrfAssumption, dense \in Seq(V), IsInjective(dense), sparse \in Seq(V), IsInjective(sparse),
          pool \in Nat, <1>0, FuseOrders
<1>3. Obeys(fused, dense, sparse, found)
  BY ONLY RrfAssumption, dense \in Seq(V), IsInjective(dense), sparse \in Seq(V), IsInjective(sparse),
          pool \in Nat, <1>0, FuseOrders
<1>4. \A a \in found : Found(RankIn(dense, a), RankIn(sparse, a))
  BY <1>0, OutrankingIsWeak
<1>5. \A a : RankIn(dense, a) \in 0 .. Len(dense) /\ RankIn(sparse, a) \in 0 .. Len(sparse)
  BY RankIs
<1>6. Range(fused) \in SUBSET found
  BY <1>1 DEF Range
<1>7. ASSUME NEW a \in found, NEW b \in found, Dominates(a, b)
      PROVE  Outranks(RankIn(dense, a), RankIn(sparse, a), RankIn(dense, b), RankIn(sparse, b))
  <2> DEFINE d1 == RankIn(dense, a)
             d2 == RankIn(dense, b)
             s1 == RankIn(sparse, a)
             s2 == RankIn(sparse, b)
             m == Len(dense)
             n == Len(sparse)
  <2>1. /\ StandsAt(d1, m) <= StandsAt(d2, m) /\ StandsAt(s1, n) <= StandsAt(s2, n)
        /\ StandsAt(d1, m) + StandsAt(s1, n) < StandsAt(d2, m) + StandsAt(s2, n)
    BY <1>7 DEF StandsAt, PlaceIn
  <2>2. m \in Nat /\ n \in Nat /\ d1 \in 0 .. m /\ d2 \in 0 .. m /\ s1 \in 0 .. n /\ s2 \in 0 .. n
        /\ Found(d1, s1) /\ Found(d2, s2)
    BY <1>4, <1>5
  <2> HIDE DEF d1, d2, s1, s2, m, n
  <2>3. Outranks(d1, s1, d2, s2)
    BY <2>1, <2>2, DominanceOutranks
  <2>4. QED
    BY <2>3 DEF d1, d2, s1, s2
<1>8. ASSUME NEW a \in found, NEW b \in found, Agreed(a), ~ Both(b)
      PROVE  Outranks(RankIn(dense, a), RankIn(sparse, a), RankIn(dense, b), RankIn(sparse, b))
  BY <1>4, <1>8, AgreementOutranks
<1>9. ASSUME NEW a \in found, NEW b \in found, Dominates(a, b) \/ (Agreed(a) /\ ~ Both(b)),
             RankIn(fused, b) # 0
      PROVE  PlaceIn(fused, a) < PlaceIn(fused, b)
  <2>1. RankIn(fused, a) # 0 /\ RankIn(fused, a) < RankIn(fused, b)
    BY <1>3, <1>7, <1>8, <1>9 DEF Obeys
  <2>2. QED
    BY <1>9, <2>1 DEF PlaceIn
<1>10. QED
  BY <1>1, <1>2, <1>6, <1>9 DEF FusionIsFair, found, fused

\* The rows of the fused list are loaded in its order.
LEMMA LoadedInOrder ==
  ASSUME NEW V, NEW fused \in Seq(V), IsInjective(fused), NEW P \in SUBSET (DOMAIN fused),
         NEW loaded, loaded = Chosen(fused, P)
  PROVE  /\ loaded \in Seq(V) /\ IsInjective(loaded)
         /\ \A i, j \in 1 .. Len(loaded) : i < j => RankIn(fused, loaded[i]) < RankIn(fused, loaded[j])
<1> DEFINE o == Ascending(P)
           n == Cardinality(P)
<1>1. IsInjective(loaded) /\ loaded \in Seq(V)
  BY ChosenStaysInjective
<1>2. /\ n \in Nat /\ Len(loaded) = n /\ o \in [1 .. n -> P]
      /\ \A k \in 1 .. n : loaded[k] = fused[o[k]]
      /\ \A j, k \in 1 .. n : j < k <=> o[j] < o[k]
  BY ChosenPlaces
<1> HIDE DEF o, n
<1>3. \A i \in 1 .. Len(fused) : RankIn(fused, fused[i]) = i
  BY RankIs
<1>4. \A k \in 1 .. n : o[k] \in 1 .. Len(fused)
  BY <1>2
<1>5. QED
  BY <1>1, <1>2, <1>3, <1>4

LEMMA BetterIsWeak ==
  ASSUME NEW loaded, NEW Rating, \A c \in Range(loaded) : Rating[c] \in Int
  PROVE  /\ WeakOrder(Better(loaded, Rating), Range(loaded))
         /\ \A c, d \in Range(loaded) : <<c, d>> \in Better(loaded, Rating) <=> Rating[c] > Rating[d]
<1>1. \A c, d \in Range(loaded) : <<c, d>> \in Better(loaded, Rating) <=> Rating[c] > Rating[d]
  BY DEF Better
<1>2. QED
  BY <1>1 DEF WeakOrder

LEMMA NoOpScoreTyped ==
  ASSUME NEW V, NEW loaded \in Seq(V)
  PROVE  \A c \in Range(loaded) : NoOpScore(loaded)[c] \in Int
<1>1. ASSUME NEW c \in Range(loaded)
      PROVE  NoOpScore(loaded)[c] \in Int
  <2>1. \E i \in DOMAIN loaded : loaded[i] = c
    BY DEF Range
  <2>2. (CHOOSE i \in DOMAIN loaded : loaded[i] = c) \in Nat
    BY <2>1
  <2>3. QED
    BY <2>2 DEF NoOpScore
<1>2. QED
  BY <1>1

\* What ResultIsTheBest asks of an answer.
LEMMA AnswerIsTheBest ==
  ASSUME NEW V, NEW fused \in Seq(V), IsInjective(fused), NEW P \in SUBSET (DOMAIN fused),
         NEW limit \in Nat, answer'.limit = limit, answer'.fused = fused,
         NEW loaded, loaded = Chosen(fused, P), answer'.loaded = loaded,
         NEW Rating, \A c \in Range(loaded) : Rating[c] \in Int, answer'.score = Rating,
         answer'.result = Rerank(loaded, Rating, limit)
  PROVE  ResultIsTheBest'
<1> DEFINE R == Better(loaded, Rating)
           r == RankedBy(loaded, R)
           result == answer'.result
           pool == Range(loaded)
           n == Len(loaded)
           cut == Min0(limit, n)
<1>1. loaded \in Seq(V) /\ IsInjective(loaded)
      /\ \A i, j \in 1 .. n : i < j => RankIn(fused, loaded[i]) < RankIn(fused, loaded[j])
  BY LoadedInOrder
<1>2. loaded \in Seq(pool) /\ n \in Nat /\ DOMAIN loaded = 1 .. n
  BY <1>1 DEF Range
<1>3. WeakOrder(R, pool)
      /\ \A c, d \in pool : <<c, d>> \in R <=> Rating[c] > Rating[d]
  BY BetterIsWeak
<1>4. result = FirstOf(r, limit)
  BY DEF Rerank
<1> HIDE DEF R, result
<1>5. r \in Seq(pool) /\ Len(r) = n /\ IsInjective(r) /\ Range(r) = pool
  BY <1>1, <1>2, <1>3, RankedByPermutes
<1>6. \A k, l \in 1 .. n : k < l =>
        \E i, j \in 1 .. n : Ahead(loaded, R, i, j) /\ r[k] = loaded[i] /\ r[l] = loaded[j]
  <2>1. loaded \in Seq(pool) /\ WeakOrder(R, pool) /\ r = RankedBy(loaded, R)
    BY <1>2, <1>3
  <2> HIDE DEF pool, r
  <2>2. QED
    BY ONLY <2>1, SortedBefore, SMTT(20)
<1> HIDE DEF r
<1>7. /\ result \in Seq(pool) /\ Len(result) = cut
      /\ \A k \in 1 .. cut : result[k] = r[k]
      /\ cut \in 0 .. n
  <2> HIDE DEF pool, n
  <2>1. r \in Seq(pool) /\ Len(r) = n /\ result = FirstOf(r, limit)
    BY <1>4, <1>5
  <2>2. QED
    BY <2>1, FirstOfIs
<1> HIDE DEF cut
<1>8. DOMAIN result = 1 .. cut /\ \A k \in 1 .. cut : k \in 1 .. n
  BY <1>2, <1>7
<1>9. \A j, k \in 1 .. n : r[j] = r[k] => j = k
  <2>1. DOMAIN r = 1 .. n
    BY <1>2, <1>5
  <2>2. QED
    BY <1>5, <2>1 DEF IsInjective
<1>10. IsInjective(result)
  BY <1>7, <1>8, <1>9 DEF IsInjective
<1>11. Range(result) \in SUBSET pool
  BY <1>7 DEF Range
<1>12. \A k \in 1 .. cut : RankIn(result, result[k]) = k
  BY <1>7, <1>10, RankIs
<1>13. ASSUME NEW c \in Range(result), NEW d \in pool
       PROVE  \/ c = d \/ Rating[c] > Rating[d]
              \/ Rating[c] = Rating[d] /\ RankIn(fused, c) < RankIn(fused, d)
              \/ d \in Range(result) /\ RankIn(result, d) < RankIn(result, c)
  <2>1. PICK k \in 1 .. cut : result[k] = c
    BY <1>8 DEF Range
  <2>2. PICK l \in 1 .. n : r[l] = d
    <3>1. DOMAIN r = 1 .. n /\ d \in Range(r)
      BY <1>2, <1>5
    <3>2. QED
      BY <3>1 DEF Range
  <2>3. k \in 1 .. n /\ r[k] = c
    BY <1>7, <1>8, <2>1
  <2>4. CASE k = l
    BY <2>2, <2>3, <2>4
  <2>5. CASE k < l
    <3>1. PICK i \in 1 .. n, j \in 1 .. n : Ahead(loaded, R, i, j) /\ c = loaded[i] /\ d = loaded[j]
      BY <1>6, <2>2, <2>3, <2>5
    <3>2. c \in pool
      BY <1>11
    <3>3. Rating[c] > Rating[d] \/ (~ (Rating[d] > Rating[c]) /\ i < j)
      BY <1>3, <3>1, <3>2 DEF Ahead
    <3>4. Rating[c] \in Int /\ Rating[d] \in Int
      BY <3>2
    <3>5. i < j => RankIn(fused, c) < RankIn(fused, d)
      BY <1>1, <3>1
    <3>6. QED
      BY <3>3, <3>4, <3>5
  <2>6. CASE l < k
    <3>1. l \in 1 .. cut
      BY <1>2, <1>7, <2>6
    <3>2. result[l] = d /\ RankIn(result, d) = l /\ RankIn(result, c) = k
      BY <1>7, <1>12, <2>1, <2>2, <3>1
    <3>3. d \in Range(result)
      BY <1>8, <3>1, <3>2 DEF Range
    <3>4. QED
      BY <2>6, <3>2, <3>3
  <2>7. QED
    BY <1>2, <2>3, <2>2, <2>4, <2>5, <2>6
<1>14. Len(result) = Min0(limit, Len(loaded))
  BY <1>7 DEF cut
<1>15. QED
  BY <1>10, <1>11, <1>13, <1>14 DEF ResultIsTheBest, result, pool

\* The answer is fair, and the indexes are those it was taken from.
FairInv == IndexesInv /\ FusionIsFair /\ ResultIsTheBest

\* The ranked list is typed as the scores are.
LEMMA RetrieveIsFair ==
  ASSUME RankingAssumption, RrfAssumption, IndexesInv,
         NEW query \in Query, NEW filters \in Filter, NEW limit \in Limit,
         NEW rows \in Rows, NEW Rating \in Ratings, NEW useReranker \in BOOLEAN,
         Retrieve(query, filters, limit, rows, Rating, useReranker)
  PROVE  FusionIsFair' /\ ResultIsTheBest'
<1> DEFINE pool == Candidates(limit)
           dense == DenseSearch(pool, filters)
<1>1. PICK order, fused : AnswersWith(query, filters, limit, rows, Rating, useReranker, order, fused)
  BY RetrieveAnswers
<1> DEFINE sparse == FirstOf(order, pool)
           P == {i \in DOMAIN fused : fused[i] \in rows}
           loaded == Chosen(fused, P)
           given == IF useReranker THEN Rating ELSE NoOpScore(loaded)
           found == Range(dense) \cup Range(sparse)
<1>2. /\ order \in SetToSeqs(SparseFound(bm25, query, filters))
      /\ fused = FirstOf(Fuse(dense, sparse), pool)
      /\ answer'.limit = limit /\ answer'.dense = dense /\ answer'.sparse = sparse
      /\ answer'.fused = fused /\ answer'.loaded = loaded /\ answer'.score = given
      /\ answer'.result = Rerank(loaded, given, limit)
  BY <1>1 DEF AnswersWith
<1>3. Exact(bm25) /\ records \in Seq(Chunk) /\ IsInjective(records)
      /\ (faiss.built => faiss.ids = records)
  BY DEF IndexesInv, StoresInv
<1>4. pool \in Nat /\ limit \in Nat
  BY CandidatesTyped
<1>5. P \in SUBSET (DOMAIN fused)
  OBVIOUS
<1>6. pool = Candidates(answer'.limit) /\ pool = Candidates(limit)
  BY <1>2
<1> HIDE DEF pool
<1>7. dense \in Seq(Chunk) /\ IsInjective(dense)
  BY <1>3, <1>4, SearchIsNearest
<1>8. sparse \in Seq(Chunk) /\ IsInjective(sparse)
  <2>1. IsFiniteSet(SparseFound(bm25, query, filters)) /\ SparseFound(bm25, query, filters) \in SUBSET Chunk
    BY <1>3, SparseFindsAll
  <2>2. order \in Seq(SparseFound(bm25, query, filters)) /\ IsInjective(order)
    BY <1>2, <2>1, ListedIsAll
  <2>3. order \in Seq(Chunk) /\ DOMAIN order = 1 .. Len(order) /\ Len(order) \in Nat
    BY <2>1, <2>2
  <2>4. /\ sparse \in Seq(Chunk) /\ Len(sparse) = Min0(pool, Len(order))
        /\ \A k \in 1 .. Min0(pool, Len(order)) : sparse[k] = order[k]
        /\ Min0(pool, Len(order)) \in 0 .. Len(order)
    BY <1>4, <2>3, FirstOfIs, ZenonT(30)
  <2> DEFINE m == Min0(pool, Len(order))
  <2>5. DOMAIN sparse = 1 .. m /\ \A k \in 1 .. m : k \in DOMAIN order
    BY <2>3, <2>4
  <2> HIDE DEF m, sparse
  <2>6. IsInjective(sparse)
    BY <2>2, <2>4, <2>5 DEF IsInjective, m
  <2>7. QED
    BY <2>4, <2>6
<1> HIDE DEF dense, sparse, P
<1>9. fused \in Seq(found) /\ IsInjective(fused)
  <2>1. found = Range(dense) \cup Range(sparse)
    OBVIOUS
  <2> HIDE DEF found
  <2>2. QED
    BY ONLY RrfAssumption, <1>2, <1>4, <1>7, <1>8, <2>1, FuseOrders
<1>10. \A c \in Range(loaded) : given[c] \in Int
  <2>1. loaded \in Seq(found)
    <3> HIDE DEF found
    <3>1. QED
      BY <1>5, <1>9, LoadedInOrder
  <2>2. CASE useReranker
    <3>1. Range(loaded) \in SUBSET Chunk
      <4>1. Range(dense) \in SUBSET Chunk /\ Range(sparse) \in SUBSET Chunk
        BY <1>7, <1>8 DEF Range
      <4> HIDE DEF loaded
      <4>2. Range(loaded) \in SUBSET found
        BY <2>1 DEF Range
      <4>3. QED
        BY <4>1, <4>2
    <3>2. Rating \in [Chunk -> Int]
      BY DEF RankingAssumption
    <3> HIDE DEF loaded
    <3>3. QED
      BY <2>2, <3>1, <3>2
  <2>3. CASE ~ useReranker
    <3> HIDE DEF loaded, found
    <3>1. QED
      BY <2>1, <2>3, NoOpScoreTyped
  <2>4. QED
    BY <2>2, <2>3
<1>11. FusionIsFair'
  BY <1>2, <1>4, <1>6, <1>7, <1>8, AnswerIsFair
<1>12. ResultIsTheBest'
  BY <1>2, <1>4, <1>5, <1>9, <1>10, AnswerIsTheBest
<1>13. QED
  BY <1>11, <1>12

LEMMA FairStep ==
  ASSUME RankingAssumption, RrfAssumption, FairInv, [RankingNext]_rankingVars
  PROVE  FairInv'
<1>1. IndexesInv'
  BY IndexesStep, IndexesStutter DEF FairInv
<1>2. CASE UNCHANGED answer
  BY <1>1, <1>2 DEF FairInv, FusionIsFair, ResultIsTheBest, Answered
<1>3. CASE answer' = NoAnswer
  BY <1>1, <1>3, NothingIsAnswered DEF FairInv
<1>4. ASSUME NEW query \in Query, NEW filters \in Filter, NEW limit \in Limit, NEW rows \in Rows,
             NEW Rating \in Ratings, NEW useReranker \in BOOLEAN,
             Retrieve(query, filters, limit, rows, Rating, useReranker)
      PROVE  FairInv'
  BY <1>1, <1>4, RetrieveIsFair DEF FairInv
<1>5. ASSUME RankingNext
      PROVE  \/ UNCHANGED answer \/ answer' = NoAnswer
             \/ \E query \in Query, filters \in Filter, limit \in Limit, rows \in Rows,
                   Rating \in Ratings, useReranker \in BOOLEAN :
                  Retrieve(query, filters, limit, rows, Rating, useReranker)
  <2>1. ASSUME NEW c, NEW text, Add(c, text) PROVE UNCHANGED answer
    BY <2>1 DEF Add
  <2>2. ASSUME NEW c, Upsert(c) PROVE UNCHANGED answer
    BY <2>2 DEF Upsert
  <2>3. ASSUME NEW p, RemovePaper(p) PROVE UNCHANGED answer
    BY <2>3 DEF RemovePaper
  <2>4. ASSUME NEW p, DeleteByPaper(p) PROVE UNCHANGED answer
    BY <2>4 DEF DeleteByPaper
  <2>5. Restart => UNCHANGED answer
    BY DEF Restart
  <2>6. Return => answer' = NoAnswer
    BY DEF Return
  <2>7. QED
    BY <1>5, <2>1, <2>2, <2>3, <2>4, <2>5, <2>6 DEF RankingNext
<1>6. UNCHANGED rankingVars => UNCHANGED answer
  BY DEF rankingVars
<1>7. QED
  BY <1>2, <1>3, <1>4, <1>5, <1>6

\* Every answer is fair, whatever the stores held and whatever was asked.
THEOREM RankingStaysFair == RankingSpec => []RankingIsFair
<1>1. RankingInit => FairInv
  <2> SUFFICES ASSUME RankingInit PROVE FairInv
    OBVIOUS
  <2>1. IndexesInv
    BY IndexesInitially
  <2>2. answer = NoAnswer
    BY DEF RankingInit
  <2>3. QED
    BY <2>1, <2>2 DEF FairInv, FusionIsFair, ResultIsTheBest, Answered
<1>2. FairInv /\ [RankingNext]_rankingVars => FairInv'
  BY RankingAssumption, RrfAssumption, FairStep
<1>3. FairInv => RankingIsFair
  BY DEF FairInv, RankingIsFair
<1>4. QED
  BY <1>1, <1>2, <1>3, PTL DEF RankingSpec

-----------------------------------------------------------------------------
(* How a document is cut.  First the folds of its loops: each has a        *)
(* sequence of states, one step after the other.                           *)

LEMMA StepsStay ==
  ASSUME NEW n \in Nat, NEW V, NEW f, f = [k \in 0 .. n |-> f[k]], f[0] \in V,
         \A i \in 1 .. n : f[i - 1] \in V => f[i] \in V
  PROVE  f \in [0 .. n -> V]
<1> DEFINE T == {k \in 0 .. n : f[k] \in V}
<1>1. 0 \in T
  OBVIOUS
<1>2. \A i \in 1 .. n : i - 1 \in T => i \in T
  OBVIOUS
<1> HIDE DEF T
<1>3. \A i \in 0 .. n : i \in T
  BY <1>1, <1>2, InductionTo
<1>4. QED
  BY <1>3 DEF T

\* The sentences of a paragraph, one after the other.
SentenceRun(f, V, start, s) ==
  /\ f \in [0 .. Len(s) -> V] /\ f[0] = start /\ f[Len(s)] = FoldLeft(AddSentence, start, s)
  /\ \A i \in 1 .. Len(s) : f[i] = AddSentence(f[i - 1], s[i])

LEMMA SentenceSteps ==
  ASSUME NEW V, NEW start \in V, NEW W, NEW s \in Seq(W),
         \A state \in V, i \in 1 .. Len(s) : AddSentence(state, s[i]) \in V
  PROVE  \E f : SentenceRun(f, V, start, s)
<1> DEFINE n == Len(s)
           fold == CHOOSE h : h = [t \in SUBSET DOMAIN s |->
                     IF t = {} THEN start ELSE AddSentence(h[t \ {Max(t)}], s[Max(t)])]
           G == [x \in V \X (1 .. n) |-> AddSentence(x[1], s[x[2]])]
           f == [k \in 0 .. n |-> fold[1 .. k]]
<1>0. \A state \in V, i \in 1 .. n : AddSentence(state, s[i]) \in V
  OBVIOUS
<1>1. n \in Nat /\ DOMAIN s = 1 .. n
  OBVIOUS
<1>2. FoldLeft(AddSentence, start, s) = fold[1 .. n]
  BY <1>1 DEF FoldLeft, MapThenFoldSet
<1>3. G \in [V \X (1 .. n) -> V]
  OBVIOUS
<1>4. \A t \in SUBSET (1 .. n) : t # {} => Max(t) \in 1 .. n /\ t \ {Max(t)} \in SUBSET (1 .. n)
  BY <1>1, NonEmptyHasMax
<1>5. PICK h : IsFold(h, n, V, start, G)
  <2> HIDE DEF G
  <2>1. QED
    BY <1>1, <1>3, FoldExists
<1>6. h = [t \in SUBSET (1 .. n) |->
             IF t = {} THEN start ELSE AddSentence(h[t \ {Max(t)}], s[Max(t)])]
  <2>1. \A t \in SUBSET (1 .. n) :
          h[t] = IF t = {} THEN start ELSE AddSentence(h[t \ {Max(t)}], s[Max(t)])
    BY <1>4, <1>5 DEF IsFold
  <2>2. QED
    BY <1>5, <2>1 DEF IsFold
<1>7. fold = [t \in SUBSET (1 .. n) |->
                IF t = {} THEN start ELSE AddSentence(fold[t \ {Max(t)}], s[Max(t)])]
  BY <1>1, <1>6
<1> HIDE DEF fold, G, n
<1>8. f[0] = start
  <2>1. 1 .. 0 = {} /\ {} \in SUBSET (1 .. n) /\ f[0] = fold[1 .. 0]
    BY <1>1
  <2>2. QED
    BY <1>7, <2>1
<1>9. \A i \in 1 .. n : f[i] = AddSentence(f[i - 1], s[i])
  <2> SUFFICES ASSUME NEW i \in 1 .. n PROVE f[i] = AddSentence(f[i - 1], s[i])
    OBVIOUS
  <2>1. Max(1 .. i) = i /\ (1 .. i) \ {i} = 1 .. i - 1 /\ 1 .. i # {} /\ 1 .. i \in SUBSET (1 .. n)
    BY <1>1, TopOfInterval
  <2>2. fold[1 .. i] = AddSentence(fold[1 .. i - 1], s[i])
    BY <1>7, <2>1
  <2>3. f[i] = fold[1 .. i] /\ f[i - 1] = fold[1 .. i - 1]
    BY <1>1
  <2> HIDE DEF f
  <2>4. QED
    BY <2>2, <2>3
<1>10. f[n] = fold[1 .. n] /\ f = [k \in 0 .. n |-> f[k]]
  BY <1>1
<1> HIDE DEF f
<1>11. f \in [0 .. n -> V]
  <2>1. \A i \in 1 .. n : f[i - 1] \in V => f[i] \in V
    BY <1>0, <1>9
  <2>2. QED
    BY <1>1, <1>8, <1>10, <2>1, StepsStay
<1>12. SentenceRun(f, V, start, s)
  BY <1>2, <1>8, <1>9, <1>10, <1>11 DEF n, SentenceRun
<1>13. QED
  BY <1>12

\* The paragraphs of a body.
ParagraphRun(f, V, start, s) ==
  /\ f \in [0 .. Len(s) -> V] /\ f[0] = start /\ f[Len(s)] = FoldLeft(AddParagraph, start, s)
  /\ \A i \in 1 .. Len(s) : f[i] = AddParagraph(f[i - 1], s[i])

LEMMA ParagraphSteps ==
  ASSUME NEW V, NEW start \in V, NEW W, NEW s \in Seq(W),
         \A state \in V, i \in 1 .. Len(s) : AddParagraph(state, s[i]) \in V
  PROVE  \E f : ParagraphRun(f, V, start, s)
<1> DEFINE n == Len(s)
           fold == CHOOSE h : h = [t \in SUBSET DOMAIN s |->
                     IF t = {} THEN start ELSE AddParagraph(h[t \ {Max(t)}], s[Max(t)])]
           G == [x \in V \X (1 .. n) |-> AddParagraph(x[1], s[x[2]])]
           f == [k \in 0 .. n |-> fold[1 .. k]]
<1>0. \A state \in V, i \in 1 .. n : AddParagraph(state, s[i]) \in V
  OBVIOUS
<1>1. n \in Nat /\ DOMAIN s = 1 .. n
  OBVIOUS
<1>2. FoldLeft(AddParagraph, start, s) = fold[1 .. n]
  BY <1>1 DEF FoldLeft, MapThenFoldSet
<1>3. G \in [V \X (1 .. n) -> V]
  OBVIOUS
<1>4. \A t \in SUBSET (1 .. n) : t # {} => Max(t) \in 1 .. n /\ t \ {Max(t)} \in SUBSET (1 .. n)
  BY <1>1, NonEmptyHasMax
<1>5. PICK h : IsFold(h, n, V, start, G)
  <2> HIDE DEF G
  <2>1. QED
    BY <1>1, <1>3, FoldExists
<1>6. h = [t \in SUBSET (1 .. n) |->
             IF t = {} THEN start ELSE AddParagraph(h[t \ {Max(t)}], s[Max(t)])]
  <2>1. \A t \in SUBSET (1 .. n) :
          h[t] = IF t = {} THEN start ELSE AddParagraph(h[t \ {Max(t)}], s[Max(t)])
    BY <1>4, <1>5 DEF IsFold
  <2>2. QED
    BY <1>5, <2>1 DEF IsFold
<1>7. fold = [t \in SUBSET (1 .. n) |->
                IF t = {} THEN start ELSE AddParagraph(fold[t \ {Max(t)}], s[Max(t)])]
  BY <1>1, <1>6
<1> HIDE DEF fold, G, n
<1>8. f[0] = start
  <2>1. 1 .. 0 = {} /\ {} \in SUBSET (1 .. n) /\ f[0] = fold[1 .. 0]
    BY <1>1
  <2>2. QED
    BY <1>7, <2>1
<1>9. \A i \in 1 .. n : f[i] = AddParagraph(f[i - 1], s[i])
  <2> SUFFICES ASSUME NEW i \in 1 .. n PROVE f[i] = AddParagraph(f[i - 1], s[i])
    OBVIOUS
  <2>1. Max(1 .. i) = i /\ (1 .. i) \ {i} = 1 .. i - 1 /\ 1 .. i # {} /\ 1 .. i \in SUBSET (1 .. n)
    BY <1>1, TopOfInterval
  <2>2. fold[1 .. i] = AddParagraph(fold[1 .. i - 1], s[i])
    BY <1>7, <2>1
  <2>3. f[i] = fold[1 .. i] /\ f[i - 1] = fold[1 .. i - 1]
    BY <1>1
  <2> HIDE DEF f
  <2>4. QED
    BY <2>2, <2>3
<1>10. f[n] = fold[1 .. n] /\ f = [k \in 0 .. n |-> f[k]]
  BY <1>1
<1> HIDE DEF f
<1>11. f \in [0 .. n -> V]
  <2>1. \A i \in 1 .. n : f[i - 1] \in V => f[i] \in V
    BY <1>0, <1>9
  <2>2. QED
    BY <1>1, <1>8, <1>10, <2>1, StepsStay
<1>12. ParagraphRun(f, V, start, s)
  BY <1>2, <1>8, <1>9, <1>10, <1>11 DEF n, ParagraphRun
<1>13. QED
  BY <1>12

\* The sections of a document.
SectionRun(f, V, start, s) ==
  /\ f \in [0 .. Len(s) -> V] /\ f[0] = start /\ f[Len(s)] = FoldLeft(AddSection, start, s)
  /\ \A i \in 1 .. Len(s) : f[i] = AddSection(f[i - 1], s[i])

LEMMA SectionSteps ==
  ASSUME NEW V, NEW start \in V, NEW W, NEW s \in Seq(W),
         \A state \in V, i \in 1 .. Len(s) : AddSection(state, s[i]) \in V
  PROVE  \E f : SectionRun(f, V, start, s)
<1> DEFINE n == Len(s)
           fold == CHOOSE h : h = [t \in SUBSET DOMAIN s |->
                     IF t = {} THEN start ELSE AddSection(h[t \ {Max(t)}], s[Max(t)])]
           G == [x \in V \X (1 .. n) |-> AddSection(x[1], s[x[2]])]
           f == [k \in 0 .. n |-> fold[1 .. k]]
<1>0. \A state \in V, i \in 1 .. n : AddSection(state, s[i]) \in V
  OBVIOUS
<1>1. n \in Nat /\ DOMAIN s = 1 .. n
  OBVIOUS
<1>2. FoldLeft(AddSection, start, s) = fold[1 .. n]
  BY <1>1 DEF FoldLeft, MapThenFoldSet
<1>3. G \in [V \X (1 .. n) -> V]
  OBVIOUS
<1>4. \A t \in SUBSET (1 .. n) : t # {} => Max(t) \in 1 .. n /\ t \ {Max(t)} \in SUBSET (1 .. n)
  BY <1>1, NonEmptyHasMax
<1>5. PICK h : IsFold(h, n, V, start, G)
  <2> HIDE DEF G
  <2>1. QED
    BY <1>1, <1>3, FoldExists
<1>6. h = [t \in SUBSET (1 .. n) |->
             IF t = {} THEN start ELSE AddSection(h[t \ {Max(t)}], s[Max(t)])]
  <2>1. \A t \in SUBSET (1 .. n) :
          h[t] = IF t = {} THEN start ELSE AddSection(h[t \ {Max(t)}], s[Max(t)])
    BY <1>4, <1>5 DEF IsFold
  <2>2. QED
    BY <1>5, <2>1 DEF IsFold
<1>7. fold = [t \in SUBSET (1 .. n) |->
                IF t = {} THEN start ELSE AddSection(fold[t \ {Max(t)}], s[Max(t)])]
  BY <1>1, <1>6
<1> HIDE DEF fold, G, n
<1>8. f[0] = start
  <2>1. 1 .. 0 = {} /\ {} \in SUBSET (1 .. n) /\ f[0] = fold[1 .. 0]
    BY <1>1
  <2>2. QED
    BY <1>7, <2>1
<1>9. \A i \in 1 .. n : f[i] = AddSection(f[i - 1], s[i])
  <2> SUFFICES ASSUME NEW i \in 1 .. n PROVE f[i] = AddSection(f[i - 1], s[i])
    OBVIOUS
  <2>1. Max(1 .. i) = i /\ (1 .. i) \ {i} = 1 .. i - 1 /\ 1 .. i # {} /\ 1 .. i \in SUBSET (1 .. n)
    BY <1>1, TopOfInterval
  <2>2. fold[1 .. i] = AddSection(fold[1 .. i - 1], s[i])
    BY <1>7, <2>1
  <2>3. f[i] = fold[1 .. i] /\ f[i - 1] = fold[1 .. i - 1]
    BY <1>1
  <2> HIDE DEF f
  <2>4. QED
    BY <2>2, <2>3
<1>10. f[n] = fold[1 .. n] /\ f = [k \in 0 .. n |-> f[k]]
  BY <1>1
<1> HIDE DEF f
<1>11. f \in [0 .. n -> V]
  <2>1. \A i \in 1 .. n : f[i - 1] \in V => f[i] \in V
    BY <1>0, <1>9
  <2>2. QED
    BY <1>1, <1>8, <1>10, <2>1, StepsStay
<1>12. SectionRun(f, V, start, s)
  BY <1>2, <1>8, <1>9, <1>10, <1>11 DEF n, SectionRun
<1>13. QED
  BY <1>12

\* The sentences of a paragraph as its text grows.
JoinRun(f, V, start, s) ==
  /\ f \in [0 .. Len(s) -> V] /\ f[0] = start /\ f[Len(s)] = FoldLeft(JoinedTo, start, s)
  /\ \A i \in 1 .. Len(s) : f[i] = JoinedTo(f[i - 1], s[i])

LEMMA JoinSteps ==
  ASSUME NEW V, NEW start \in V, NEW W, NEW s \in Seq(W),
         \A state \in V, i \in 1 .. Len(s) : JoinedTo(state, s[i]) \in V
  PROVE  \E f : JoinRun(f, V, start, s)
<1> DEFINE n == Len(s)
           fold == CHOOSE h : h = [t \in SUBSET DOMAIN s |->
                     IF t = {} THEN start ELSE JoinedTo(h[t \ {Max(t)}], s[Max(t)])]
           G == [x \in V \X (1 .. n) |-> JoinedTo(x[1], s[x[2]])]
           f == [k \in 0 .. n |-> fold[1 .. k]]
<1>0. \A state \in V, i \in 1 .. n : JoinedTo(state, s[i]) \in V
  OBVIOUS
<1>1. n \in Nat /\ DOMAIN s = 1 .. n
  OBVIOUS
<1>2. FoldLeft(JoinedTo, start, s) = fold[1 .. n]
  BY <1>1 DEF FoldLeft, MapThenFoldSet
<1>3. G \in [V \X (1 .. n) -> V]
  OBVIOUS
<1>4. \A t \in SUBSET (1 .. n) : t # {} => Max(t) \in 1 .. n /\ t \ {Max(t)} \in SUBSET (1 .. n)
  BY <1>1, NonEmptyHasMax
<1>5. PICK h : IsFold(h, n, V, start, G)
  <2> HIDE DEF G
  <2>1. QED
    BY <1>1, <1>3, FoldExists
<1>6. h = [t \in SUBSET (1 .. n) |->
             IF t = {} THEN start ELSE JoinedTo(h[t \ {Max(t)}], s[Max(t)])]
  <2>1. \A t \in SUBSET (1 .. n) :
          h[t] = IF t = {} THEN start ELSE JoinedTo(h[t \ {Max(t)}], s[Max(t)])
    BY <1>4, <1>5 DEF IsFold
  <2>2. QED
    BY <1>5, <2>1 DEF IsFold
<1>7. fold = [t \in SUBSET (1 .. n) |->
                IF t = {} THEN start ELSE JoinedTo(fold[t \ {Max(t)}], s[Max(t)])]
  BY <1>1, <1>6
<1> HIDE DEF fold, G, n
<1>8. f[0] = start
  <2>1. 1 .. 0 = {} /\ {} \in SUBSET (1 .. n) /\ f[0] = fold[1 .. 0]
    BY <1>1
  <2>2. QED
    BY <1>7, <2>1
<1>9. \A i \in 1 .. n : f[i] = JoinedTo(f[i - 1], s[i])
  <2> SUFFICES ASSUME NEW i \in 1 .. n PROVE f[i] = JoinedTo(f[i - 1], s[i])
    OBVIOUS
  <2>1. Max(1 .. i) = i /\ (1 .. i) \ {i} = 1 .. i - 1 /\ 1 .. i # {} /\ 1 .. i \in SUBSET (1 .. n)
    BY <1>1, TopOfInterval
  <2>2. fold[1 .. i] = JoinedTo(fold[1 .. i - 1], s[i])
    BY <1>7, <2>1
  <2>3. f[i] = fold[1 .. i] /\ f[i - 1] = fold[1 .. i - 1]
    BY <1>1
  <2> HIDE DEF f
  <2>4. QED
    BY <2>2, <2>3
<1>10. f[n] = fold[1 .. n] /\ f = [k \in 0 .. n |-> f[k]]
  BY <1>1
<1> HIDE DEF f
<1>11. f \in [0 .. n -> V]
  <2>1. \A i \in 1 .. n : f[i - 1] \in V => f[i] \in V
    BY <1>0, <1>9
  <2>2. QED
    BY <1>1, <1>8, <1>10, <2>1, StepsStay
<1>12. JoinRun(f, V, start, s)
  BY <1>2, <1>8, <1>9, <1>10, <1>11 DEF n, JoinRun
<1>13. QED
  BY <1>12

-----------------------------------------------------------------------------
(* Texts.                                                                  *)

\* What a list has when another, or one element, is put behind it.
LEMMA BehindIt ==
  ASSUME NEW V, NEW s \in Seq(V), NEW t \in Seq(V)
  PROVE  /\ s \o t \in Seq(V) /\ Range(s \o t) = Range(s) \cup Range(t)
         /\ Len(s \o t) = Len(s) + Len(t)
<1> DEFINE m == Len(s)
           n == Len(t)
           st == s \o t
<1>1. m \in Nat /\ n \in Nat /\ DOMAIN s = 1 .. m /\ DOMAIN t = 1 .. n
  OBVIOUS
<1>2. s \o t \in Seq(V) /\ Len(s \o t) = m + n /\ DOMAIN st = 1 .. m + n
      /\ (\A i \in 1 .. m : st[i] = s[i]) /\ (\A i \in 1 .. n : st[m + i] = t[i])
  OBVIOUS
<1> HIDE DEF m, n, st
<1>3. \A i \in 1 .. m + n : i \in 1 .. m \/ (i - m \in 1 .. n /\ i = m + (i - m))
  BY <1>1
<1>4. \A i \in 1 .. m : i \in 1 .. m + n
  BY <1>1
<1>5. \A i \in 1 .. n : m + i \in 1 .. m + n
  BY <1>1
<1>6. \A v : v \in Range(st) <=> v \in Range(s) \cup Range(t)
  <2>1. ASSUME NEW i \in 1 .. m + n PROVE st[i] \in Range(s) \cup Range(t)
    <3>1. CASE i \in 1 .. m
      BY <1>1, <1>2, <3>1 DEF Range
    <3>2. CASE i - m \in 1 .. n /\ i = m + (i - m)
      <4>1. st[i] = t[i - m]
        BY <1>2, <3>2
      <4>2. QED
        BY <1>1, <3>2, <4>1 DEF Range
    <3>3. QED
      BY <1>3, <3>1, <3>2
  <2>2. ASSUME NEW i \in 1 .. m PROVE s[i] \in Range(st)
    BY <1>2, <1>4, <2>2 DEF Range
  <2>3. ASSUME NEW i \in 1 .. n PROVE t[i] \in Range(st)
    BY <1>2, <1>5, <2>3 DEF Range
  <2>4. QED
    <3>1. ASSUME NEW v \in Range(st) PROVE v \in Range(s) \cup Range(t)
      BY <1>2, <2>1 DEF Range
    <3>2. ASSUME NEW v \in Range(s) PROVE v \in Range(st)
      BY <1>1, <2>2 DEF Range
    <3>3. ASSUME NEW v \in Range(t) PROVE v \in Range(st)
      BY <1>1, <2>3 DEF Range
    <3>4. QED
      BY <3>1, <3>2, <3>3
<1>7. Range(st) = Range(s) \cup Range(t)
  BY <1>6
<1>8. QED
  BY <1>2, <1>7 DEF m, n, st

LEMMA Appended ==
  ASSUME NEW V, NEW s \in Seq(V), NEW x \in V
  PROVE  /\ Append(s, x) \in Seq(V) /\ Range(Append(s, x)) = Range(s) \cup {x}
         /\ Len(Append(s, x)) = Len(s) + 1
<1> DEFINE m == Len(s)
           sx == Append(s, x)
<1>1. m \in Nat /\ DOMAIN s = 1 .. m
  OBVIOUS
<1>2. sx \in Seq(V) /\ Len(sx) = m + 1 /\ DOMAIN sx = 1 .. m + 1
      /\ (\A i \in 1 .. m : sx[i] = s[i]) /\ sx[m + 1] = x
  OBVIOUS
<1> HIDE DEF m, sx
<1>3. \A i \in 1 .. m + 1 : i \in 1 .. m \/ i = m + 1
  BY <1>1
<1>4. (\A i \in 1 .. m : i \in 1 .. m + 1) /\ m + 1 \in 1 .. m + 1
  BY <1>1
<1>5. \A v : v \in Range(sx) <=> v \in Range(s) \cup {x}
  <2>1. ASSUME NEW i \in 1 .. m + 1 PROVE sx[i] \in Range(s) \cup {x}
    BY <1>1, <1>2, <1>3, <2>1 DEF Range
  <2>2. ASSUME NEW i \in 1 .. m PROVE s[i] \in Range(sx)
    BY <1>2, <1>4, <2>2 DEF Range
  <2>3. x \in Range(sx)
    BY <1>2, <1>4 DEF Range
  <2>4. QED
    BY <1>1, <1>2, <2>1, <2>2, <2>3 DEF Range
<1>6. Range(sx) = Range(s) \cup {x}
  BY <1>5
<1>7. QED
  BY <1>2, <1>6 DEF m, sx

\* What stands in a text from i to j.
Between(s, i, j) == {s[k] : k \in i .. j}

LEMMA PartOfText ==
  ASSUME NEW V, NEW s \in Seq(V), NEW i \in 1 .. Len(s) + 1, NEW j \in 0 .. Len(s)
  PROVE  /\ SubSeq(s, i, j) \in Seq(V) /\ Len(SubSeq(s, i, j)) = IF j >= i THEN j - i + 1 ELSE 0
         /\ Range(SubSeq(s, i, j)) = Between(s, i, j)
         /\ \A k \in 1 .. j - i + 1 : SubSeq(s, i, j)[k] = s[i + k - 1]
<1> DEFINE x == SubSeq(s, i, j)
           n == IF j >= i THEN j - i + 1 ELSE 0
<1>1. x \in Seq(V) /\ Len(x) = n /\ n \in Nat
  OBVIOUS
<1>2. \A k \in 1 .. j - i + 1 : x[k] = s[i + k - 1]
  OBVIOUS
<1>3. DOMAIN x = 1 .. n
  BY <1>1
<1> HIDE DEF x
<1>4. \A v : v \in Range(x) <=> v \in {s[k] : k \in i .. j}
  <2>1. ASSUME NEW k \in 1 .. n PROVE x[k] \in {s[l] : l \in i .. j}
    <3>1. x[k] = s[i + k - 1] /\ i + k - 1 \in i .. j
      BY <1>2, <2>1
    <3>2. QED
      BY <3>1
  <2>2. ASSUME NEW k \in i .. j PROVE s[k] \in Range(x)
    <3>1. k - i + 1 \in 1 .. j - i + 1 /\ k - i + 1 \in 1 .. n /\ i + (k - i + 1) - 1 = k
      BY <2>2
    <3>2. x[k - i + 1] = s[k]
      BY <1>2, <3>1
    <3>3. QED
      BY <1>3, <3>1, <3>2 DEF Range
  <2>3. QED
    BY <1>3, <2>1, <2>2 DEF Range
<1>5. QED
  BY <1>1, <1>2, <1>4 DEF x, Between

\* strip takes blanks away at the ends, and nothing else.
LEMMA StripIs ==
  ASSUME NEW V, NEW text \in Seq(V)
  PROVE  /\ Strip(text) \in Seq(V) /\ Len(Strip(text)) <= Len(text)
         /\ Held(Strip(text)) = Held(text)
         /\ \A i, j \in 1 .. Len(text) :
              text[i] # Blank /\ text[j] # Blank => Len(Strip(text)) >= j - i + 1
         /\ Strip(text) # <<>> => Strip(text)[1] # Blank
<1> DEFINE n == Len(text)
           solid == {i \in DOMAIN text : text[i] # Blank}
           lo == CHOOSE i \in solid : \A j \in solid : i <= j
           hi == CHOOSE i \in solid : \A j \in solid : j <= i
<1>1. n \in Nat /\ DOMAIN text = 1 .. n
  OBVIOUS
<1>2. solid = {i \in 1 .. n : text[i] # Blank}
  BY <1>1
<1>3. Strip(text) = IF solid = {} THEN <<>> ELSE SubSeq(text, lo, hi)
  BY DEF Strip
<1>4. \A i \in 1 .. n : i \in solid <=> text[i] # Blank
  BY <1>2
<1>5. Held(text) = {text[i] : i \in solid}
  <2>1. \A v : v \in Held(text) <=> v \in {text[i] : i \in solid}
    BY <1>1 DEF Held, Range
  <2>2. QED
    BY <2>1
<1>6. CASE solid = {}
  <2>1. Strip(text) = <<>>
    BY <1>3, <1>6
  <2>2. Held(<<>>) = {}
    BY DEF Held, Range
  <2>3. Held(text) = {}
    BY <1>5, <1>6
  <2>4. \A i \in 1 .. n : text[i] = Blank
    BY <1>4, <1>6
  <2> HIDE DEF solid
  <2>5. QED
    BY <1>1, <2>1, <2>2, <2>3, <2>4
<1>7. CASE solid # {}
  <2>1. solid \in SUBSET Int /\ IsFiniteSet(solid)
    <3>1. solid \in SUBSET (1 .. n) /\ IsFiniteSet(1 .. n)
      BY <1>1, FS_Interval
    <3>2. QED
      BY <3>1, FS_Subset
  <2>2. (\E i \in solid : \A j \in solid : j <= i) /\ (\E i \in solid : \A j \in solid : i <= j)
    <3> HIDE DEF solid
    <3>1. (\E x \in solid : \A y \in solid : x >= y) /\ (\E x \in solid : \A y \in solid : x <= y)
      BY <1>7, <2>1, ExtremesExist
    <3>2. QED
      BY <2>1, <3>1
  <2>3. lo \in solid /\ (\A j \in solid : lo <= j) /\ hi \in solid /\ (\A j \in solid : j <= hi)
    <3> HIDE DEF solid
    <3>1. QED
      BY <2>2
  <2>4. Strip(text) = SubSeq(text, lo, hi)
    BY <1>3, <1>7
  <2> HIDE DEF lo, hi, solid
  <2>5. lo \in 1 .. n /\ hi \in 1 .. n /\ lo <= hi
    BY <1>2, <2>3
  <2>6. lo \in 1 .. Len(text) + 1 /\ hi \in 0 .. Len(text)
    BY <1>1, <2>5
  <2>7. /\ Strip(text) \in Seq(V) /\ Len(Strip(text)) = hi - lo + 1
        /\ Range(Strip(text)) = {text[k] : k \in lo .. hi}
        /\ Strip(text)[1] = text[lo]
    <3>1. /\ SubSeq(text, lo, hi) \in Seq(V)
          /\ Len(SubSeq(text, lo, hi)) = IF hi >= lo THEN hi - lo + 1 ELSE 0
          /\ Range(SubSeq(text, lo, hi)) = Between(text, lo, hi)
          /\ \A k \in 1 .. hi - lo + 1 : SubSeq(text, lo, hi)[k] = text[lo + k - 1]
      BY <2>6, PartOfText
    <3>2. 1 \in 1 .. hi - lo + 1 /\ lo + 1 - 1 = lo
      BY <2>5
    <3>3. QED
      BY <2>4, <2>5, <3>1, <3>2 DEF Between
  <2>8. Held(Strip(text)) = Held(text)
    <3>1. \A k \in solid : k \in lo .. hi
      BY <1>2, <2>3, <2>5
    <3>2. \A k \in lo .. hi : k \in 1 .. n
      BY <1>1, <2>5
    <3>3. \A v : v \in Held(Strip(text)) <=> v \in {text[i] : i \in solid}
      BY <1>4, <2>7, <3>1, <3>2 DEF Held
    <3>4. QED
      BY <1>5, <3>3
  <2>9. \A i, j \in 1 .. n : text[i] # Blank /\ text[j] # Blank => hi - lo + 1 >= j - i + 1
    BY <1>1, <1>4, <2>3, <2>5
  <2>10. text[lo] # Blank /\ hi - lo + 1 <= n
    BY <1>1, <1>4, <2>3, <2>5
  <2>11. QED
    BY <1>1, <2>7, <2>8, <2>9, <2>10
<1>8. QED
  BY <1>6, <1>7

\* What the current piece becomes: what it carries, a blank, and the rest.
LEMMA NewCurrent ==
  ASSUME NEW C, Blank \notin C, NEW carried \in Seq(C \cup {Blank}), NEW rest \in Seq(C), rest # <<>>,
         NEW x, x = Strip(carried \o <<Blank>> \o rest)
  PROVE  /\ x \in Seq(C \cup {Blank}) /\ x # <<>> /\ x[1] # Blank
         /\ Held(x) = Held(carried) \cup Range(rest)
         /\ Len(x) >= Len(rest) /\ Len(x) <= Len(carried) + 1 + Len(rest)
         /\ carried # <<>> /\ carried[1] # Blank => Len(x) = Len(carried) + 1 + Len(rest)
<1> DEFINE A == C \cup {Blank}
           m == Len(carried)
           r == Len(rest)
           y == carried \o <<Blank>>
           z == y \o rest
<1>1. carried \in Seq(A) /\ rest \in Seq(A) /\ <<Blank>> \in Seq(A) /\ m \in Nat /\ r \in Nat \ {0}
      /\ (\A i \in 1 .. r : rest[i] \in C) /\ Len(<<Blank>>) = 1 /\ Range(<<Blank>>) = {Blank}
      /\ Blank \in A
  BY DEF Range
<1>2. y \in Seq(A) /\ Len(y) = m + 1 /\ Range(y) = Range(carried) \cup {Blank}
      /\ (m # 0 => y[1] = carried[1])
  <2> HIDE DEF A
  <2>1. y \in Seq(A) /\ Len(y) = m + 1 /\ Range(y) = Range(carried) \cup {Blank}
    <3>1. y = carried \o <<Blank>> /\ m = Len(carried)
      OBVIOUS
    <3> HIDE DEF y, m, z
    <3>2. /\ carried \o <<Blank>> \in Seq(A)
          /\ Range(carried \o <<Blank>>) = Range(carried) \cup Range(<<Blank>>)
          /\ Len(carried \o <<Blank>>) = Len(carried) + Len(<<Blank>>)
      BY ONLY <1>1, BehindIt, ZenonT(30)
    <3>3. QED
      BY <1>1, <3>1, <3>2
  <2>2. m # 0 => y[1] = carried[1]
    BY <1>1
  <2>3. QED
    BY <2>1, <2>2
<1> HIDE DEF y
<1>3. z \in Seq(A) /\ Len(z) = m + 1 + r /\ Range(z) = Range(y) \cup Range(rest)
      /\ (\A i \in 1 .. r : z[m + 1 + i] = rest[i]) /\ z[1] = y[1]
  <2> HIDE DEF A
  <2>1. z \in Seq(A) /\ Len(z) = m + 1 + r /\ Range(z) = Range(y) \cup Range(rest)
    <3>1. z = y \o rest /\ r = Len(rest)
      OBVIOUS
    <3> HIDE DEF m, r, z
    <3>2. /\ y \o rest \in Seq(A) /\ Range(y \o rest) = Range(y) \cup Range(rest)
          /\ Len(y \o rest) = Len(y) + Len(rest)
      BY ONLY <1>1, <1>2, BehindIt, SMTT(20)
    <3>3. QED
      BY <1>2, <3>1, <3>2
  <2>2. (\A i \in 1 .. r : z[m + 1 + i] = rest[i]) /\ z[1] = y[1]
    BY <1>1, <1>2
  <2>3. QED
    BY <2>1, <2>2
<1>4. x = Strip(z)
  BY DEF y
<1> HIDE DEF z
<1>5. /\ x \in Seq(A) /\ Len(x) <= m + 1 + r /\ Held(x) = Held(z)
      /\ \A i, j \in 1 .. m + 1 + r : z[i] # Blank /\ z[j] # Blank => Len(x) >= j - i + 1
      /\ x # <<>> => x[1] # Blank
  <2> HIDE DEF A
  <2>1. QED
    BY <1>3, <1>4, StripIs
<1>6. \A i \in 1 .. r : z[m + 1 + i] # Blank /\ m + 1 + i \in 1 .. m + 1 + r
  BY <1>1, <1>3, SMTT(20)
<1>7. Len(x) >= r
  <2>1. 1 \in 1 .. r /\ r \in 1 .. r /\ (m + 1 + r) - (m + 1 + 1) + 1 = r
    BY <1>1
  <2>2. QED
    BY <1>5, <1>6, <2>1
<1>8. m # 0 /\ carried[1] # Blank => Len(x) >= m + 1 + r
  <2>1. r \in 1 .. r /\ 1 \in 1 .. m + 1 + r /\ (m + 1 + r) - 1 + 1 = m + 1 + r
    BY <1>1
  <2>2. QED
    BY <1>2, <1>3, <1>5, <1>6, <2>1
<1>9. Len(x) \in Nat /\ x # <<>>
  BY <1>1, <1>5, <1>7
<1>10. Held(x) = Held(carried) \cup Range(rest)
  <2>1. Range(rest) \in SUBSET C
    BY <1>1 DEF Range
  <2>2. QED
    BY <1>2, <1>3, <1>5, <2>1 DEF Held
<1>11. carried # <<>> => m # 0
  OBVIOUS
<1> HIDE DEF A, m, r
<1>12. QED
  BY <1>1, <1>5, <1>7, <1>8, <1>9, <1>10, <1>11 DEF A, m, r

-----------------------------------------------------------------------------
(* The cuts of an overlong sentence.                                       *)

LEMMA DivisionIs ==
  ASSUME NEW a \in Nat, NEW d \in Nat \ {0}
  PROVE  a \div d \in Nat /\ (a \div d) * d <= a /\ a < (a \div d) * d + d
OBVIOUS

LEMMA StrideIs ==
  ASSUME ChunkingAssumption
  PROVE  Stride \in Nat \ {0} /\ Stride <= MaxChars /\ MaxChars \in Nat \ {0}
BY DEF ChunkingAssumption, Stride, Most

\* The cuts leave something that fits, and none of them reaches beyond the end.
LEMMA CutsAre ==
  ASSUME ChunkingAssumption, NEW n \in Nat \ {0}
  PROVE  /\ Cuts(n) \in Nat /\ (Cuts(n) = 0 <=> n <= MaxChars)
         /\ Cuts(n) * Stride \in Nat /\ Cuts(n) * Stride < n /\ n - Cuts(n) * Stride <= MaxChars
         /\ \A k \in 1 .. Cuts(n) : (k - 1) * Stride \in Nat /\ (k - 1) * Stride + MaxChars <= n
<1>1. Stride \in Nat \ {0} /\ Stride <= MaxChars /\ MaxChars \in Nat \ {0}
  BY StrideIs
<1> DEFINE m == Cuts(n)
<1>2. CASE n <= MaxChars
  BY <1>1, <1>2 DEF Cuts
<1>3. CASE n > MaxChars
  <2> DEFINE a == n - MaxChars + Stride - 1
             q == a \div Stride
  <2>1. a \in Nat /\ a >= Stride /\ m = q
    BY <1>1, <1>3 DEF Cuts
  <2> HIDE DEF m, a
  <2>2. q \in Nat /\ q * Stride <= a /\ a < q * Stride + Stride
    BY <1>1, <2>1, DivisionIs
  <2> HIDE DEF q
  <2> DEFINE p == q * Stride
  <2>3. p \in Nat /\ p <= a /\ a < p + Stride
    BY <1>1, <2>2
  <2>4. p < n /\ n - p <= MaxChars
    <3> HIDE DEF p
    <3>1. QED
      BY <1>1, <1>3, <2>3 DEF a
  <2>5. q # 0
    BY <1>1, <2>1, <2>2
  <2>6. ASSUME NEW k \in 1 .. q
        PROVE  (k - 1) * Stride \in Nat /\ (k - 1) * Stride + MaxChars <= n
    <3>1. k - 1 \in Nat /\ q - 1 \in Nat /\ k - 1 <= q - 1
      BY <2>2, <2>5
    <3>2. (k - 1) * Stride <= (q - 1) * Stride /\ (k - 1) * Stride \in Nat
      BY <1>1, <3>1
    <3>3. (q - 1) * Stride = p - Stride
      BY <1>1, <2>2
    <3> DEFINE b == (k - 1) * Stride
    <3>4. b <= p - Stride /\ b \in Nat
      BY <3>2, <3>3
    <3> HIDE DEF p, b
    <3>5. b + MaxChars <= n
      BY <1>1, <1>3, <2>3, <3>4 DEF a
    <3>6. QED
      BY <3>4, <3>5 DEF b
  <2>7. m * Stride = p /\ m # 0 /\ ~ (n <= MaxChars) /\ m \in Nat
    BY <1>1, <1>3, <2>1, <2>2, <2>5
  <2> HIDE DEF p
  <2>8. /\ m \in Nat /\ (m = 0 <=> n <= MaxChars)
        /\ m * Stride \in Nat /\ m * Stride < n /\ n - m * Stride <= MaxChars
    BY <2>3, <2>4, <2>7
  <2>9. \A k \in 1 .. m : (k - 1) * Stride \in Nat /\ (k - 1) * Stride + MaxChars <= n
    BY <2>1, <2>6
  <2>10. QED
    BY <2>8, <2>9 DEF m
<1>4. QED
  BY <1>1, <1>2, <1>3

\* Every place of a sentence is in one of the cuts or in what is left.
LEMMA CutsReach ==
  ASSUME ChunkingAssumption, NEW n \in Nat \ {0}, NEW j \in 1 .. Cuts(n) * Stride
  PROVE  \E k \in 1 .. Cuts(n) : j \in (k - 1) * Stride + 1 .. (k - 1) * Stride + MaxChars
<1>1. Stride \in Nat \ {0} /\ Stride <= MaxChars /\ MaxChars \in Nat \ {0}
  BY StrideIs
<1> DEFINE m == Cuts(n)
           q == (j - 1) \div Stride
           p == q * Stride
           mp == m * Stride
<1>2. m \in Nat /\ mp \in Nat
  BY CutsAre
<1>3. j - 1 \in Nat /\ j <= mp
  BY <1>2
<1> HIDE DEF m
<1>4. q \in Nat /\ q * Stride <= j - 1 /\ j - 1 < q * Stride + Stride
  BY <1>1, <1>3, DivisionIs
<1> HIDE DEF q
<1>5. q < m
  <2>1. q >= m => q * Stride >= m * Stride
    BY <1>1, <1>2, <1>4
  <2>2. p < mp
    <3>1. p \in Int /\ p <= j - 1
      BY <1>1, <1>4
    <3> HIDE DEF p, mp
    <3>2. QED
      BY <1>2, <1>3, <3>1
  <2>3. QED
    BY <1>1, <1>2, <1>4, <2>1, <2>2
<1>6. q + 1 \in 1 .. m /\ (q + 1) - 1 = q
  BY <1>2, <1>4, <1>5
<1>7. p \in Nat /\ j \in p + 1 .. p + MaxChars
  <2>1. p \in Nat /\ p <= j - 1 /\ j - 1 < p + Stride
    BY <1>1, <1>4
  <2> HIDE DEF p
  <2>2. QED
    BY <1>1, <1>3, <2>1
<1>8. QED
  BY <1>6, <1>7 DEF m

\* The pieces that are cut off a sentence, and what is left of it.
CutInto(C, sentence, cut, rest) ==
  /\ cut \in Seq(Seq(C))
  /\ \A x \in Range(cut) : x \in Seq(C) /\ Len(x) = MaxChars
  /\ rest \in Seq(C) /\ rest # <<>> /\ Len(rest) <= MaxChars
  /\ \A c \in Range(sentence) : c \in Range(rest) \/ \E x \in Range(cut) : c \in Range(x)
  /\ Len(cut) = Cuts(Len(sentence)) /\ (Cuts(Len(sentence)) = 0 => rest = sentence)

CutsOff(sentence) == [k \in 1 .. Cuts(Len(sentence)) |-> CutOff(sentence, k)]

LEMMA CutSentence ==
  ASSUME ChunkingAssumption, NEW C, NEW sentence \in Seq(C), NEW n, n = Len(sentence), n # 0,
         NEW cut, cut = CutsOff(sentence),
         NEW rest, rest = SubSeq(sentence, Cuts(n) * Stride + 1, n)
  PROVE  CutInto(C, sentence, cut, rest)
<1> DEFINE m == Cuts(n)
           off == m * Stride
<1>0. n \in Nat \ {0} /\ DOMAIN sentence = 1 .. n
  OBVIOUS
<1>1. Stride \in Nat \ {0} /\ Stride <= MaxChars /\ MaxChars \in Nat \ {0}
  BY StrideIs
<1>2. /\ m \in Nat /\ off \in Nat /\ off < n /\ n - off <= MaxChars
      /\ \A k \in 1 .. m : (k - 1) * Stride \in Nat /\ (k - 1) * Stride + MaxChars <= n
  BY <1>0, CutsAre
<1> HIDE DEF m, off
<1>3. ASSUME NEW k \in 1 .. m
      PROVE  /\ CutOff(sentence, k) \in Seq(C) /\ Len(CutOff(sentence, k)) = MaxChars
             /\ Range(CutOff(sentence, k))
                = {sentence[i] : i \in (k - 1) * Stride + 1 .. (k - 1) * Stride + MaxChars}
  <2> DEFINE b == (k - 1) * Stride
  <2>1. b \in Nat /\ b + MaxChars <= n
    BY <1>2
  <2>2. CutOff(sentence, k) = SubSeq(sentence, b + 1, b + MaxChars)
    BY DEF CutOff
  <2> HIDE DEF b
  <2>3. b + 1 \in 1 .. Len(sentence) + 1 /\ b + MaxChars \in 0 .. Len(sentence)
        /\ b + MaxChars >= b + 1 /\ (b + MaxChars) - (b + 1) + 1 = MaxChars
    BY <1>0, <1>1, <2>1
  <2>4. /\ CutOff(sentence, k) \in Seq(C) /\ Len(CutOff(sentence, k)) = MaxChars
        /\ Range(CutOff(sentence, k)) = {sentence[i] : i \in b + 1 .. b + MaxChars}
    <3>1. /\ SubSeq(sentence, b + 1, b + MaxChars) \in Seq(C)
          /\ Len(SubSeq(sentence, b + 1, b + MaxChars))
               = IF b + MaxChars >= b + 1 THEN (b + MaxChars) - (b + 1) + 1 ELSE 0
          /\ Range(SubSeq(sentence, b + 1, b + MaxChars)) = Between(sentence, b + 1, b + MaxChars)
      BY <2>3, PartOfText
    <3>2. QED
      BY <2>2, <2>3, <3>1 DEF Between
  <2>5. QED
    BY <2>4 DEF b
<1>4. /\ rest \in Seq(C) /\ Len(rest) = n - off
      /\ Range(rest) = {sentence[i] : i \in off + 1 .. n}
  <2>1. off + 1 \in 1 .. Len(sentence) + 1 /\ n \in 0 .. Len(sentence) /\ n >= off + 1
        /\ n - (off + 1) + 1 = n - off
    BY <1>0, <1>2
  <2>2. rest = SubSeq(sentence, off + 1, n)
    BY DEF off, m
  <2>3. /\ SubSeq(sentence, off + 1, n) \in Seq(C)
        /\ Len(SubSeq(sentence, off + 1, n)) = IF n >= off + 1 THEN n - (off + 1) + 1 ELSE 0
        /\ Range(SubSeq(sentence, off + 1, n)) = Between(sentence, off + 1, n)
    BY <2>1, PartOfText
  <2>4. QED
    BY <2>1, <2>2, <2>3 DEF Between
<1>5. cut = [k \in 1 .. m |-> CutOff(sentence, k)]
  BY DEF m, CutsOff
<1>6. cut \in Seq(Seq(C)) /\ Len(cut) = m /\ DOMAIN cut = 1 .. m
  <2> DEFINE S == Seq(C)
  <2>1. cut \in [1 .. m -> S]
    BY <1>3, <1>5
  <2> HIDE DEF S
  <2>2. cut \in Seq(S) /\ Len(cut) = m /\ DOMAIN cut = 1 .. m
    BY ONLY <1>2, <2>1
  <2>3. QED
    BY <2>2 DEF S
<1>7. \A x \in Range(cut) : \E k \in 1 .. m : x = CutOff(sentence, k)
  BY <1>5 DEF Range
<1>8. \A k \in 1 .. m : CutOff(sentence, k) \in Range(cut)
  BY <1>5 DEF Range
<1>9. \A x \in Range(cut) : x \in Seq(C) /\ Len(x) = MaxChars
  BY <1>3, <1>7
<1>10. rest # <<>> /\ Len(rest) <= MaxChars
  <2>1. Len(rest) = n - off /\ n - off <= MaxChars /\ n - off # 0
    BY <1>0, <1>2, <1>4
  <2>2. QED
    BY <2>1
<1>11. ASSUME NEW c \in Range(sentence)
       PROVE  c \in Range(rest) \/ \E x \in Range(cut) : c \in Range(x)
  <2>1. PICK j \in 1 .. n : sentence[j] = c
    BY <1>0 DEF Range
  <2>2. CASE j > off
    <3>1. j \in off + 1 .. n
      BY <1>0, <1>2, <2>2
    <3>2. QED
      BY <1>4, <2>1, <3>1
  <2>3. CASE j <= off
    <3>1. j \in 1 .. Cuts(n) * Stride
      BY <1>2, <2>3 DEF off, m
    <3>2. PICK k \in 1 .. m : j \in (k - 1) * Stride + 1 .. (k - 1) * Stride + MaxChars
      BY <1>0, <3>1, CutsReach DEF m
    <3>3. c \in Range(CutOff(sentence, k))
      BY <1>3, <2>1, <3>2
    <3>4. QED
      BY <1>8, <3>3
  <2>4. QED
    BY <1>2, <2>2, <2>3
<1>12. m = 0 => rest = sentence
  <2> SUFFICES ASSUME m = 0 PROVE rest = sentence
    OBVIOUS
  <2>1. off = 0
    BY <1>1 DEF off
  <2>2. rest = SubSeq(sentence, 1, n)
    BY <2>1 DEF off, m
  <2>3. rest \in Seq(C) /\ Len(rest) = n /\ \A k \in 1 .. n : rest[k] = sentence[k]
    <3>1. 1 \in 1 .. Len(sentence) + 1 /\ n \in 0 .. Len(sentence) /\ n >= 1 /\ n - 1 + 1 = n
      BY <1>0
    <3>2. /\ SubSeq(sentence, 1, n) \in Seq(C)
          /\ Len(SubSeq(sentence, 1, n)) = IF n >= 1 THEN n - 1 + 1 ELSE 0
          /\ \A k \in 1 .. n - 1 + 1 : SubSeq(sentence, 1, n)[k] = sentence[1 + k - 1]
      BY <3>1, PartOfText
    <3>3. \A k \in 1 .. n : 1 + k - 1 = k
      BY <1>0
    <3>4. QED
      BY <2>2, <3>1, <3>2, <3>3
  <2>4. rest = [k \in 1 .. n |-> rest[k]] /\ sentence = [k \in 1 .. n |-> sentence[k]]
    BY <1>0, <2>3, SMTT(20)
  <2>5. QED
    BY <2>3, <2>4
<1>13. QED
  BY <1>4, <1>6, <1>9, <1>10, <1>11, <1>12 DEF m, CutInto

-----------------------------------------------------------------------------
(* The pieces of an overlong paragraph.  C has the characters of a body.   *)

Texts(C) == Seq(C \cup {Blank})
SplitState(C) == [pieces : Seq(Texts(C)), current : Texts(C)]

\* How a sentence may be added to what there is: it joins the current piece, it
\* closes it, or it is cut.
Joins(acc, sentence, new) ==
  /\ Len(sentence) <= MaxChars
  /\ acc.current = <<>> \/ Len(acc.current) + Len(sentence) + 1 <= MaxChars
  /\ new.pieces = acc.pieces
  /\ new.current = Strip(acc.current \o <<Blank>> \o sentence)

Closes(acc, sentence, new) ==
  /\ Len(sentence) <= MaxChars
  /\ acc.current # <<>> /\ Len(acc.current) + Len(sentence) + 1 > MaxChars
  /\ new.pieces = Append(acc.pieces, acc.current)
  /\ new.current = Strip(Tail0(acc.current, OverlapChars) \o <<Blank>> \o sentence)

Flushed(acc) == IF acc.current = <<>> THEN acc.pieces ELSE Append(acc.pieces, acc.current)

IsCut(C, acc, sentence, new) ==
  \E cut, rest, none :
    /\ CutInto(C, sentence, cut, rest) /\ Len(cut) # 0
    /\ new.pieces = Flushed(acc) \o cut
    /\ none \in Texts(C) /\ Len(none) = 0
    /\ new.current = Strip(none \o <<Blank>> \o rest)

LEMMA WaysToAdd ==
  ASSUME ChunkingAssumption, NEW C, NEW acc \in SplitState(C),
         NEW sentence \in Seq(C), sentence # <<>>, NEW new, new = AddSentence(acc, sentence)
  PROVE  Joins(acc, sentence, new) \/ Closes(acc, sentence, new) \/ IsCut(C, acc, sentence, new)
<1> DEFINE n == Len(sentence)
           m == Cuts(n)
           cut == [k \in 1 .. m |-> CutOff(sentence, k)]
           rest == SubSeq(sentence, m * Stride + 1, n)
           flushed == IF m > 0 /\ acc.current # <<>> THEN Append(acc.pieces, acc.current) ELSE acc.pieces
           open == IF m > 0 THEN <<>> ELSE acc.current
           closes == open # <<>> /\ Len(open) + Len(rest) + 1 > MaxChars
           carried == IF closes THEN Tail0(open, OverlapChars) ELSE open
<1>1. n \in Nat \ {0}
  OBVIOUS
<1>2. m \in Nat /\ (m = 0 <=> n <= MaxChars)
  BY <1>1, CutsAre
<1>3. new = [pieces |-> IF closes THEN Append(flushed \o cut, open) ELSE flushed \o cut,
             current |-> Strip(carried \o <<Blank>> \o rest)]
  BY DEF AddSentence
<1>4. CutInto(C, sentence, cut, rest) /\ Len(cut) = m /\ (m = 0 => rest = sentence)
  <2> HIDE DEF cut, rest
  <2>1. cut = CutsOff(sentence) /\ rest = SubSeq(sentence, Cuts(n) * Stride + 1, n)
    BY DEF cut, rest, CutsOff
  <2>2. n = Len(sentence) /\ n # 0
    OBVIOUS
  <2>3. Cuts(n) = m
    OBVIOUS
  <2> HIDE DEF n, m
  <2>4. CutInto(C, sentence, cut, rest)
    BY ONLY ChunkingAssumption, sentence \in Seq(C), <2>1, <2>2, CutSentence
  <2>5. QED
    BY <2>2, <2>3, <2>4 DEF CutInto
<1>5. CASE m = 0
  <2>1. cut = <<>> /\ flushed = acc.pieces /\ open = acc.current /\ rest = sentence
    BY <1>4, <1>5
  <2>2. acc.pieces \o <<>> = acc.pieces
    BY DEF SplitState
  <2> HIDE DEF cut, flushed, open, rest
  <2>3. CASE closes
    <3>1. new.pieces = Append(acc.pieces, acc.current)
          /\ new.current = Strip(Tail0(acc.current, OverlapChars) \o <<Blank>> \o sentence)
      BY <1>3, <2>1, <2>2, <2>3
    <3>2. acc.current # <<>> /\ Len(acc.current) + Len(sentence) + 1 > MaxChars
      BY <2>1, <2>3
    <3>3. QED
      BY <1>2, <1>5, <3>1, <3>2 DEF Closes
  <2>4. CASE ~ closes
    <3>1. new.pieces = acc.pieces /\ new.current = Strip(acc.current \o <<Blank>> \o sentence)
      BY <1>3, <2>1, <2>2, <2>4
    <3>2. acc.current = <<>> \/ Len(acc.current) + Len(sentence) + 1 <= MaxChars
      <4>1. acc.current = <<>> \/ ~ (Len(acc.current) + Len(sentence) + 1 > MaxChars)
        BY <2>1, <2>4
      <4>2. Len(acc.current) + Len(sentence) + 1 \in Int /\ MaxChars \in Int
        BY DEF SplitState, Texts, ChunkingAssumption
      <4>3. QED
        BY <4>1, <4>2
    <3>3. QED
      BY <1>2, <1>5, <3>1, <3>2 DEF Joins
  <2>5. QED
    BY <2>3, <2>4
<1>6. CASE m # 0
  <2>1. open = <<>> /\ flushed = Flushed(acc)
    BY <1>2, <1>6 DEF Flushed
  <2> HIDE DEF cut, flushed, open, rest
  <2>2. ~ closes /\ carried = <<>>
    BY <2>1
  <2>3. carried \in Texts(C) /\ Len(carried) = 0
    <3>1. <<>> \in Texts(C) /\ Len(<<>>) = 0
      BY DEF Texts
    <3>2. QED
      BY <2>2, <3>1
  <2> HIDE DEF carried
  <2>4. new.pieces = Flushed(acc) \o cut /\ new.current = Strip(carried \o <<Blank>> \o rest)
    BY <1>3, <2>1, <2>2
  <2>5. CutInto(C, sentence, cut, rest) /\ Len(cut) # 0
    BY <1>4, <1>6
  <2>6. QED
    BY <2>3, <2>4, <2>5 DEF IsCut
<1>7. QED
  BY <1>5, <1>6

\* What the pieces and the current one hold of the characters seen, how long they
\* are, and that they are not all slivers once more than a budget has been seen.
Covers(acc, seen) == \A c \in seen : c \in Held(acc.current) \/ \E x \in Range(acc.pieces) : c \in Held(x)
Fits(acc) ==
  /\ \A x \in Range(acc.pieces) : Held(x) # {} /\ Len(x) <= MaxChars + OverlapChars + 1
  /\ Len(acc.current) <= MaxChars + OverlapChars + 1
  /\ acc.current # <<>> => acc.current[1] # Blank
Weighs(acc, length) ==
  \/ \E x \in Range(acc.pieces) : Len(x) >= MinChunkChars
  \/ Len(acc.current) >= MinChunkChars
  \/ acc.pieces = <<>> /\ Len(acc.current) >= length

\* A text that begins with a character holds one.
LEMMA HoldsSomething ==
  ASSUME NEW V, NEW x \in Seq(V), x # <<>>, x[1] # Blank
  PROVE  Held(x) # {}
<1>1. 1 \in DOMAIN x
  OBVIOUS
<1>2. QED
  BY <1>1 DEF Held, Range

LEMMA AllTextsHold ==
  ASSUME NEW C, Blank \notin C
  PROVE  /\ \A x \in Seq(C) : x \in Texts(C) /\ Held(x) = Range(x)
         /\ <<>> \in Texts(C) /\ Held(<<>>) = {}
<1>1. \A x \in Seq(C) : x \in Texts(C)
  BY DEF Texts
<1>2. \A x \in Seq(C) : Held(x) = Range(x)
  <2> SUFFICES ASSUME NEW x \in Seq(C) PROVE Held(x) = Range(x)
    OBVIOUS
  <2>1. Range(x) \in SUBSET C
    BY DEF Range
  <2>2. QED
    BY <2>1 DEF Held
<1>3. <<>> \in Seq(C) /\ Range(<<>>) = {}
  BY DEF Range
<1>4. QED
  BY <1>1, <1>2, <1>3

LEMMA TailIs ==
  ASSUME ChunkingAssumption, NEW V, NEW x \in Seq(V)
  PROVE  /\ Tail0(x, OverlapChars) \in Seq(V) /\ Len(Tail0(x, OverlapChars)) <= OverlapChars
         /\ Held(Tail0(x, OverlapChars)) \subseteq Held(x)
<1> DEFINE n == Len(x)
           i == Most(1, n - OverlapChars + 1)
<1>1. n \in Nat /\ OverlapChars \in Nat /\ DOMAIN x = 1 .. n
  BY DEF ChunkingAssumption
<1>2. i \in 1 .. n + 1 /\ n - i + 1 <= OverlapChars
  BY <1>1 DEF Most
<1>3. Tail0(x, OverlapChars) = SubSeq(x, i, n)
  BY DEF Tail0
<1> HIDE DEF i
<1>4. i \in 1 .. Len(x) + 1 /\ n \in 0 .. Len(x)
  BY <1>1, <1>2
<1>5. /\ SubSeq(x, i, n) \in Seq(V) /\ Len(SubSeq(x, i, n)) = IF n >= i THEN n - i + 1 ELSE 0
      /\ Range(SubSeq(x, i, n)) = Between(x, i, n)
  BY <1>4, PartOfText
<1> HIDE DEF n
<1>6. Len(SubSeq(x, i, n)) <= OverlapChars
  BY <1>1, <1>2, <1>5
<1>7. Between(x, i, n) \subseteq Range(x)
  <2>1. \A k \in i .. n : k \in 1 .. n
    BY <1>1, <1>2
  <2>2. QED
    BY <1>1, <2>1 DEF Between, Range
<1>8. QED
  BY <1>3, <1>5, <1>6, <1>7 DEF Held

\* A paragraph as it has been read so far: text, beginning with a character.
Starts(text) == text = <<>> \/ text[1] # Blank

LEMMA TextGrows ==
  ASSUME NEW C, Blank \notin C, NEW text \in Texts(C), Starts(text),
         NEW sentence \in Seq(C), sentence # <<>>
  PROVE  /\ JoinedTo(text, sentence) \in Texts(C) /\ JoinedTo(text, sentence) # <<>>
         /\ Starts(JoinedTo(text, sentence))
         /\ Held(JoinedTo(text, sentence)) = Held(text) \cup Range(sentence)
         /\ Len(JoinedTo(text, sentence))
              = IF text = <<>> THEN Len(sentence) ELSE Len(text) + 1 + Len(sentence)
<1> DEFINE A == C \cup {Blank}
<1>1. sentence \in Seq(A) /\ Held(sentence) = Range(sentence) /\ Held(<<>>) = {}
  BY AllTextsHold DEF Texts
<1>2. sentence[1] # Blank /\ text \in Seq(A)
  BY DEF Texts
<1>3. CASE text = <<>>
  <2>1. JoinedTo(text, sentence) = sentence
    BY <1>3 DEF JoinedTo
  <2>2. QED
    BY <1>1, <1>2, <1>3, <2>1 DEF Starts, Texts
<1>4. CASE text # <<>>
  <2> DEFINE y == text \o <<Blank>>
  <2>1. <<Blank>> \in Seq(A) /\ Len(<<Blank>>) = 1 /\ Range(<<Blank>>) = {Blank}
    BY DEF Range
  <2>2. y[1] = text[1] /\ y # <<>>
    BY <1>2, <1>4
  <2>3. JoinedTo(text, sentence) = y \o sentence
    BY <1>4 DEF JoinedTo
  <2>4. y = text \o <<Blank>>
    OBVIOUS
  <2> HIDE DEF y, A
  <2>5. /\ text \o <<Blank>> \in Seq(A) /\ Range(text \o <<Blank>>) = Range(text) \cup Range(<<Blank>>)
        /\ Len(text \o <<Blank>>) = Len(text) + Len(<<Blank>>)
    BY ONLY <1>2, <2>1, BehindIt
  <2>6. y \in Seq(A) /\ Range(y) = Range(text) \cup {Blank} /\ Len(y) = Len(text) + 1
    BY <2>1, <2>4, <2>5
  <2>7. /\ y \o sentence \in Seq(A) /\ Range(y \o sentence) = Range(y) \cup Range(sentence)
        /\ Len(y \o sentence) = Len(y) + Len(sentence)
    BY ONLY <1>1, <2>6, BehindIt
  <2>8. (y \o sentence)[1] = y[1] /\ y \o sentence # <<>>
    BY <1>1, <2>2, <2>6
  <2>9. Held(y \o sentence) = Held(text) \cup Range(sentence)
    BY <1>1, <2>6, <2>7 DEF Held
  <2>10. QED
    BY <1>4, <1>2, <2>2, <2>3, <2>6, <2>7, <2>8, <2>9 DEF Starts, Texts, A
<1>5. QED
  BY <1>3, <1>4

\* What holds of the pieces made of the text read so far.
SplitInv(C, acc, text) ==
  /\ acc \in SplitState(C) /\ text \in Texts(C) /\ Starts(text)
  /\ Fits(acc) /\ Covers(acc, Held(text)) /\ Weighs(acc, Len(text))
  /\ text # <<>> => acc.current # <<>>

\* However the pieces grow: the characters seen stay, and those of the sentence come.
LEMMA JoinKeeps ==
  ASSUME ChunkingAssumption, NEW C, Blank \notin C, NEW acc, NEW text, SplitInv(C, acc, text),
         NEW sentence \in Seq(C), sentence # <<>>,
         NEW new, new = [pieces |-> new.pieces, current |-> new.current], Joins(acc, sentence, new)
  PROVE  SplitInv(C, new, JoinedTo(text, sentence))
<1> DEFINE A == C \cup {Blank}
           x == acc.current
           y == new.current
           next == JoinedTo(text, sentence)
<1>1. x \in Seq(A) /\ acc.pieces \in Seq(Texts(C)) /\ text \in Texts(C) /\ Starts(text)
      /\ (x # <<>> => x[1] # Blank) /\ (text # <<>> => x # <<>>)
  BY DEF SplitInv, SplitState, Texts, Fits
<1>2. y = Strip(x \o <<Blank>> \o sentence) /\ new.pieces = acc.pieces
  BY DEF Joins
<1> HIDE DEF x, y
<1>3. /\ y \in Seq(A) /\ y # <<>> /\ y[1] # Blank
      /\ Held(y) = Held(x) \cup Range(sentence)
      /\ Len(y) >= Len(sentence) /\ Len(y) <= Len(x) + 1 + Len(sentence)
      /\ x # <<>> /\ x[1] # Blank => Len(y) = Len(x) + 1 + Len(sentence)
  BY ONLY Blank \notin C, <1>1, sentence \in Seq(C), sentence # <<>>, <1>2, NewCurrent, SMTT(20) DEF A
<1>4. /\ next \in Texts(C) /\ next # <<>> /\ Starts(next)
      /\ Held(next) = Held(text) \cup Range(sentence)
      /\ Len(next) = IF text = <<>> THEN Len(sentence) ELSE Len(text) + 1 + Len(sentence)
  BY <1>1, TextGrows
<1>5. Len(x) \in Nat /\ Len(sentence) \in Nat \ {0} /\ Len(y) \in Nat /\ MaxChars \in Nat
      /\ OverlapChars \in Nat /\ MinChunkChars \in Nat /\ Len(text) \in Nat
  BY <1>1, <1>3 DEF ChunkingAssumption, Texts
<1>6. Len(sentence) <= MaxChars /\ (x = <<>> \/ Len(x) + Len(sentence) + 1 <= MaxChars)
      /\ (x = <<>> => Len(x) = 0)
  BY DEF Joins, x
<1> HIDE DEF next
<1>7. new \in SplitState(C)
  BY <1>1, <1>2, <1>3 DEF SplitState, Texts, y, A
<1>8. Fits(new)
  <2>1. Len(y) <= MaxChars + OverlapChars + 1
    BY <1>3, <1>5, <1>6
  <2>2. QED
    BY <1>2, <1>3, <2>1 DEF SplitInv, Fits, y
<1>9. Covers(new, Held(next))
  <2>1. Covers(acc, Held(text))
    BY DEF SplitInv
  <2>2. QED
    BY <1>2, <1>3, <1>4, <2>1 DEF Covers, x, y
<1>10. Weighs(new, Len(next))
  <2>1. Weighs(acc, Len(text))
    BY DEF SplitInv
  <2>2. CASE \E p \in Range(acc.pieces) : Len(p) >= MinChunkChars
    BY <1>2, <2>2 DEF Weighs
  <2>3. CASE Len(x) >= MinChunkChars
    <3>1. Len(y) >= MinChunkChars
      BY <1>1, <1>3, <1>5, <1>6, <2>3
    <3>2. QED
      BY <3>1 DEF Weighs, y
  <2>4. CASE acc.pieces = <<>> /\ Len(x) >= Len(text)
    <3>1. Len(y) >= Len(next)
      BY <1>1, <1>3, <1>4, <1>5, <2>4
    <3>2. QED
      BY <1>2, <2>4, <3>1 DEF Weighs, y
  <2>5. QED
    BY <2>1, <2>2, <2>3, <2>4 DEF Weighs, x
<1>11. QED
  BY <1>3, <1>4, <1>7, <1>8, <1>9, <1>10 DEF SplitInv, next, y

LEMMA CloseKeeps ==
  ASSUME ChunkingAssumption, NEW C, Blank \notin C, NEW acc, NEW text, SplitInv(C, acc, text),
         NEW sentence \in Seq(C), sentence # <<>>,
         NEW new, new = [pieces |-> new.pieces, current |-> new.current], Closes(acc, sentence, new)
  PROVE  SplitInv(C, new, JoinedTo(text, sentence))
<1> DEFINE A == C \cup {Blank}
           S == Texts(C)
           x == acc.current
           y == new.current
           tail == Tail0(x, OverlapChars)
           next == JoinedTo(text, sentence)
<1>1. x \in Seq(A) /\ acc.pieces \in Seq(S) /\ text \in Texts(C) /\ Starts(text)
      /\ x # <<>> /\ x[1] # Blank /\ x \in S
  BY DEF SplitInv, SplitState, Texts, Fits, Closes
<1>2. y = Strip(tail \o <<Blank>> \o sentence) /\ new.pieces = Append(acc.pieces, x)
  BY DEF Closes
<1>3. tail \in Seq(A) /\ Len(tail) <= OverlapChars /\ Held(tail) \subseteq Held(x)
  <2> HIDE DEF A, x
  <2>1. QED
    BY <1>1, TailIs
<1> HIDE DEF x, y, tail, S
<1>4. /\ y \in Seq(A) /\ y # <<>> /\ y[1] # Blank
      /\ Held(y) = Held(tail) \cup Range(sentence)
      /\ Len(y) >= Len(sentence) /\ Len(y) <= Len(tail) + 1 + Len(sentence)
  <2>1. tail \in Seq(C \cup {Blank}) /\ y = Strip(tail \o <<Blank>> \o sentence)
    BY <1>2, <1>3
  <2>2. /\ y \in Seq(C \cup {Blank}) /\ y # <<>> /\ y[1] # Blank
        /\ Held(y) = Held(tail) \cup Range(sentence)
        /\ Len(y) >= Len(sentence) /\ Len(y) <= Len(tail) + 1 + Len(sentence)
    BY ONLY Blank \notin C, <2>1, sentence \in Seq(C), sentence # <<>>, NewCurrent
  <2>3. QED
    BY <2>2
<1>5. /\ next \in Texts(C) /\ next # <<>> /\ Starts(next)
      /\ Held(next) = Held(text) \cup Range(sentence)
  BY <1>1, TextGrows
<1>6. Len(x) \in Nat /\ Len(sentence) \in Nat \ {0} /\ Len(y) \in Nat /\ MaxChars \in Nat
      /\ OverlapChars \in Nat /\ MinChunkChars \in Nat /\ 2 * MinChunkChars <= MaxChars
      /\ Len(tail) \in Nat
  BY <1>1, <1>3, <1>4 DEF ChunkingAssumption, Texts
<1>7. Len(sentence) <= MaxChars /\ Len(x) + Len(sentence) + 1 > MaxChars
  BY DEF Closes, x
<1>8. Held(x) # {}
  <2> HIDE DEF A
  <2>1. QED
    BY <1>1, HoldsSomething
<1>9. /\ Append(acc.pieces, x) \in Seq(S) /\ Range(Append(acc.pieces, x)) = Range(acc.pieces) \cup {x}
  BY <1>1, Appended
<1> HIDE DEF next
<1>10. new \in SplitState(C)
  BY <1>2, <1>4, <1>9 DEF SplitState, Texts, y, A, S
<1>11. Fits(new)
  <2>1. Len(y) <= MaxChars + OverlapChars + 1
    BY <1>3, <1>4, <1>6, <1>7
  <2>2. Fits(acc)
    BY DEF SplitInv
  <2>3. \A p \in Range(new.pieces) : Held(p) # {} /\ Len(p) <= MaxChars + OverlapChars + 1
    BY <1>2, <1>8, <1>9, <2>2 DEF Fits, x
  <2>4. QED
    BY <1>4, <2>1, <2>3 DEF Fits, y
<1>12. Covers(new, Held(next))
  <2>1. Covers(acc, Held(text))
    BY DEF SplitInv
  <2>2. \A c \in Held(text) : \E p \in Range(new.pieces) : c \in Held(p)
    BY <1>2, <1>9, <2>1 DEF Covers, x
  <2>3. QED
    BY <1>4, <1>5, <2>2 DEF Covers, y
<1>13. Weighs(new, Len(next))
  <2>1. CASE Len(x) >= MinChunkChars
    BY <1>2, <1>9, <2>1 DEF Weighs
  <2>2. CASE Len(x) < MinChunkChars
    <3>1. Len(y) >= MinChunkChars
      BY <1>4, <1>6, <1>7, <2>2
    <3>2. QED
      BY <3>1 DEF Weighs, y
  <2>3. QED
    BY <1>6, <2>1, <2>2
<1>14. QED
  BY <1>4, <1>5, <1>10, <1>11, <1>12, <1>13 DEF SplitInv, next, y

LEMMA FlushedIs ==
  ASSUME NEW C, NEW acc \in SplitState(C)
  PROVE  /\ Flushed(acc) \in Seq(Texts(C))
         /\ Range(Flushed(acc)) = Range(acc.pieces) \cup (IF acc.current = <<>> THEN {} ELSE {acc.current})
<1> DEFINE S == Texts(C)
<1>1. acc.pieces \in Seq(S) /\ acc.current \in S
  BY DEF SplitState
<1> HIDE DEF S
<1>2. Append(acc.pieces, acc.current) \in Seq(S)
      /\ Range(Append(acc.pieces, acc.current)) = Range(acc.pieces) \cup {acc.current}
  BY <1>1, Appended
<1>3. QED
  BY <1>1, <1>2 DEF Flushed, S

\* What a piece becomes, named so that it can be looked up.
CurrentIs(C, carried, rest, x) ==
  /\ x \in Seq(C \cup {Blank}) /\ x # <<>> /\ x[1] # Blank
  /\ Held(x) = Held(carried) \cup Range(rest)
  /\ Len(x) >= Len(rest) /\ Len(x) <= Len(carried) + 1 + Len(rest)

LEMMA CurrentFollows ==
  ASSUME NEW C, Blank \notin C, NEW carried, carried \in Seq(C \cup {Blank}),
         NEW rest, rest \in Seq(C), rest # <<>>,
         NEW x, x = Strip(carried \o <<Blank>> \o rest)
  PROVE  CurrentIs(C, carried, rest, x)
BY NewCurrent DEF CurrentIs

LEMMA CutKeeps ==
  ASSUME ChunkingAssumption, NEW C, Blank \notin C, NEW acc, NEW text, SplitInv(C, acc, text),
         NEW sentence \in Seq(C), sentence # <<>>,
         NEW new, new = [pieces |-> new.pieces, current |-> new.current], IsCut(C, acc, sentence, new)
  PROVE  SplitInv(C, new, JoinedTo(text, sentence))
<1> DEFINE A == C \cup {Blank}
           S == Texts(C)
           x == acc.current
           y == new.current
           flushed == Flushed(acc)
           next == JoinedTo(text, sentence)
<1>1. acc \in SplitState(C) /\ text \in Texts(C) /\ Starts(text) /\ x \in Seq(A)
      /\ (x # <<>> => x[1] # Blank)
  BY DEF SplitInv, SplitState, Texts, Fits
<1>2. PICK cut, rest, none : /\ CutInto(C, sentence, cut, rest) /\ Len(cut) # 0
                             /\ new.pieces = flushed \o cut
                             /\ none \in Texts(C) /\ Len(none) = 0
                             /\ y = Strip(none \o <<Blank>> \o rest)
  BY DEF IsCut
<1>3. /\ cut \in Seq(Seq(C)) /\ rest \in Seq(C) /\ rest # <<>> /\ Len(rest) <= MaxChars
      /\ \A p \in Range(cut) : p \in Seq(C) /\ Len(p) = MaxChars
  BY <1>2 DEF CutInto
<1>4. \A c \in Range(sentence) : c \in Range(rest) \/ \E p \in Range(cut) : c \in Range(p)
  BY <1>2 DEF CutInto
<1>5. /\ flushed \in Seq(S) /\ Range(flushed) = Range(acc.pieces) \cup (IF x = <<>> THEN {} ELSE {x})
  BY <1>1, FlushedIs
<1> HIDE DEF x, y, flushed, S
<1>6. /\ y \in Seq(A) /\ y # <<>> /\ y[1] # Blank
      /\ Held(y) = Range(rest)
      /\ Len(y) >= Len(rest) /\ Len(y) <= 1 + Len(rest)
  <2>1. none \in Seq(C \cup {Blank}) /\ y = Strip(none \o <<Blank>> \o rest)
    BY <1>2 DEF Texts
  <2>2. rest \in Seq(C) /\ rest # <<>>
    BY <1>3
  <2>3. /\ y \in Seq(C \cup {Blank}) /\ y # <<>> /\ y[1] # Blank
        /\ Held(y) = Held(none) \cup Range(rest)
        /\ Len(y) >= Len(rest) /\ Len(y) <= Len(none) + 1 + Len(rest)
    <3>1. CurrentIs(C, none, rest, y)
      BY ONLY Blank \notin C, <2>1, <2>2, CurrentFollows
    <3>2. QED
      BY <3>1 DEF CurrentIs
  <2>4. Held(none) = {} /\ Len(none) = 0
    <3>1. Len(none) = 0 /\ DOMAIN none = 1 .. Len(none)
      BY <1>2, <2>1
    <3>2. QED
      BY <3>1 DEF Held, Range
  <2>5. QED
    BY <2>3, <2>4
<1>7. /\ next \in Texts(C) /\ next # <<>> /\ Starts(next)
      /\ Held(next) = Held(text) \cup Range(sentence)
  BY <1>1, TextGrows
<1>8. Len(y) \in Nat /\ MaxChars \in Nat \ {0} /\ Len(rest) \in Nat
      /\ OverlapChars \in Nat /\ MinChunkChars \in Nat /\ 2 * MinChunkChars <= MaxChars
  BY <1>3, <1>6 DEF ChunkingAssumption, Texts
<1>9. \A p \in Range(cut) : p \in S /\ Held(p) = Range(p) /\ Held(p) # {}
  <2> SUFFICES ASSUME NEW p \in Range(cut) PROVE p \in S /\ Held(p) = Range(p) /\ Held(p) # {}
    OBVIOUS
  <2>1. p \in Seq(C) /\ Len(p) = MaxChars
    BY <1>3
  <2>2. p # <<>> /\ p[1] # Blank
    BY <1>8, <2>1
  <2>3. Held(p) # {}
    BY <2>1, <2>2, HoldsSomething
  <2>4. QED
    BY <2>1, <2>3, AllTextsHold DEF S
<1>10. cut \in Seq(S) /\ cut[1] \in Range(cut)
  <2>1. DOMAIN cut = 1 .. Len(cut) /\ Len(cut) \in Nat /\ cut = [k \in 1 .. Len(cut) |-> cut[k]]
    <3> DEFINE X == Seq(C)
    <3>1. cut \in Seq(X)
      BY <1>3
    <3> HIDE DEF X
    <3>2. QED
      BY <3>1
  <2>2. \A k \in 1 .. Len(cut) : cut[k] \in Range(cut)
    BY <2>1 DEF Range
  <2>3. \A k \in 1 .. Len(cut) : cut[k] \in S
    BY <1>9, <2>2
  <2>4. 1 \in 1 .. Len(cut)
    BY <1>2, <2>1
  <2>5. cut \in [1 .. Len(cut) -> S]
    BY <2>1, <2>3
  <2>6. cut \in Seq(S)
    BY <2>1, <2>5
  <2>7. QED
    BY <2>2, <2>4, <2>6
<1>11. flushed \o cut \in Seq(S) /\ Range(flushed \o cut) = Range(flushed) \cup Range(cut)
  BY <1>5, <1>10, BehindIt
<1> HIDE DEF next
<1>12. new \in SplitState(C)
  BY <1>2, <1>6, <1>11 DEF SplitState, Texts, y, A, S
<1>13. \A p \in Range(new.pieces) : p \in Range(acc.pieces) \/ (p = x /\ x # <<>>) \/ p \in Range(cut)
  BY <1>2, <1>5, <1>11
<1>14. \A p : (p \in Range(acc.pieces) \/ (p = x /\ x # <<>>) \/ p \in Range(cut)) => p \in Range(new.pieces)
  BY <1>2, <1>5, <1>11
<1>15. x # <<>> => Held(x) # {}
  <2> HIDE DEF A
  <2>1. QED
    BY <1>1, HoldsSomething
<1>16. Fits(new)
  <2>1. Len(y) <= MaxChars + OverlapChars + 1
    BY <1>3, <1>6, <1>8
  <2>2. Fits(acc)
    BY DEF SplitInv
  <2>3. \A p \in Range(cut) : Len(p) <= MaxChars + OverlapChars + 1
    BY <1>3, <1>8
  <2>4. ASSUME NEW p \in Range(new.pieces) PROVE Held(p) # {} /\ Len(p) <= MaxChars + OverlapChars + 1
    BY <1>9, <1>13, <1>15, <2>2, <2>3, <2>4 DEF Fits, x
  <2>5. QED
    BY <1>6, <2>1, <2>4 DEF Fits, y
<1>17. Covers(new, Held(next))
  <2>1. Covers(acc, Held(text))
    BY DEF SplitInv
  <2>2. Held(<<>>) = {}
    BY AllTextsHold
  <2>3. ASSUME NEW c \in Held(text) PROVE \E p \in Range(new.pieces) : c \in Held(p)
    <3>1. CASE c \in Held(x)
      <4>1. x # <<>>
        BY <2>2, <3>1
      <4>2. QED
        BY <1>14, <3>1, <4>1
    <3>2. CASE \E p \in Range(acc.pieces) : c \in Held(p)
      BY <1>14, <3>2
    <3>3. QED
      BY <2>1, <3>1, <3>2 DEF Covers, x
  <2>4. ASSUME NEW c \in Range(sentence)
        PROVE  c \in Held(y) \/ \E p \in Range(new.pieces) : c \in Held(p)
    BY <1>4, <1>6, <1>9, <1>14, <2>4
  <2>5. QED
    BY <1>7, <2>3, <2>4 DEF Covers, y
<1>18. Weighs(new, Len(next))
  <2>1. cut[1] \in Range(new.pieces) /\ Len(cut[1]) = MaxChars
    BY <1>3, <1>10, <1>14
  <2>2. Len(cut[1]) >= MinChunkChars
    BY <1>8, <2>1
  <2>3. QED
    BY <2>1, <2>2 DEF Weighs
<1>19. QED
  BY <1>6, <1>7, <1>12, <1>16, <1>17, <1>18 DEF SplitInv, next, y

LEMMA SentenceKeeps ==
  ASSUME ChunkingAssumption, NEW C, Blank \notin C, NEW acc, NEW text, SplitInv(C, acc, text),
         NEW sentence \in Seq(C), sentence # <<>>
  PROVE  SplitInv(C, AddSentence(acc, sentence), JoinedTo(text, sentence))
<1> DEFINE new == AddSentence(acc, sentence)
<1>1. new = [pieces |-> new.pieces, current |-> new.current]
  BY DEF AddSentence
<1>2. acc \in SplitState(C)
  BY DEF SplitInv
<1>3. new = AddSentence(acc, sentence)
  OBVIOUS
<1> HIDE DEF new
<1>4. Joins(acc, sentence, new) \/ Closes(acc, sentence, new) \/ IsCut(C, acc, sentence, new)
  BY <1>2, <1>3, WaysToAdd
<1>5. Joins(acc, sentence, new) => SplitInv(C, new, JoinedTo(text, sentence))
  BY <1>1, JoinKeeps
<1>6. Closes(acc, sentence, new) => SplitInv(C, new, JoinedTo(text, sentence))
  BY <1>1, CloseKeeps
<1>7. IsCut(C, acc, sentence, new) => SplitInv(C, new, JoinedTo(text, sentence))
  BY <1>1, CutKeeps
<1>8. QED
  BY <1>3, <1>4, <1>5, <1>6, <1>7

\* A paragraph of characters of C.
ParagraphOf(C, p) == p \in Seq(Seq(C)) /\ p # <<>> /\ \A s \in Range(p) : s # <<>>

NothingSplit == [pieces |-> <<>>, current |-> <<>>]

LEMMA NothingIsSplit ==
  ASSUME ChunkingAssumption, NEW C, Blank \notin C
  PROVE  SplitInv(C, NothingSplit, <<>>)
<1>1. <<>> \in Texts(C) /\ Held(<<>>) = {} /\ Range(<<>>) = {} /\ Len(<<>>) = 0
  BY AllTextsHold DEF Range
<1> DEFINE S == Texts(C)
<1>2. <<>> \in Seq(S)
  OBVIOUS
<1>3. NothingSplit \in SplitState(C)
  BY <1>1, <1>2 DEF SplitState, NothingSplit
<1>4. MaxChars \in Nat /\ OverlapChars \in Nat /\ MinChunkChars \in Nat
  BY DEF ChunkingAssumption
<1>5. Fits(NothingSplit)
  BY <1>1, <1>4 DEF Fits, NothingSplit
<1>6. Covers(NothingSplit, Held(<<>>))
  BY <1>1 DEF Covers
<1>7. Weighs(NothingSplit, 0)
  BY <1>1 DEF Weighs, NothingSplit
<1>8. QED
  BY <1>1, <1>3, <1>5, <1>6, <1>7 DEF SplitInv, Starts

\* The text of a paragraph, and its pieces, as both grow.
LEMMA ParagraphIsSplit ==
  ASSUME ChunkingAssumption, NEW C, Blank \notin C, NEW p, ParagraphOf(C, p)
  PROVE  /\ SplitInv(C, FoldLeft(AddSentence, NothingSplit, p), Joined(p))
         /\ Joined(p) # <<>> /\ \A s \in Range(p) : Range(s) \subseteq Held(Joined(p))
<1> DEFINE n == Len(p)
           W == Seq(C)
           G == {text \in Texts(C) : Starts(text)}
           V == {acc \in SplitState(C) : \E text \in Texts(C) : SplitInv(C, acc, text)}
<1>1. p \in Seq(W) /\ n \in Nat \ {0} /\ DOMAIN p = 1 .. n
  <2>1. p \in Seq(W) /\ p # <<>>
    BY DEF ParagraphOf
  <2> HIDE DEF W
  <2>2. QED
    BY <2>1
<1>2. \A i \in 1 .. n : p[i] \in Seq(C) /\ p[i] # <<>> /\ p[i] \in Range(p)
  <2>1. \A i \in 1 .. n : p[i] \in Range(p)
    BY <1>1 DEF Range
  <2>2. \A i \in 1 .. n : p[i] \in W
    <3> HIDE DEF W
    <3>1. QED
      BY <1>1
  <2>3. QED
    BY <2>1, <2>2 DEF ParagraphOf
<1>3. n = Len(p)
  OBVIOUS
<1> HIDE DEF n, W
<1>4. PICK g \in [0 .. n -> G] : /\ g[0] = <<>> /\ g[n] = Joined(p)
                                 /\ \A i \in 1 .. n : g[i] = JoinedTo(g[i - 1], p[i])
  <2>1. <<>> \in G
    BY AllTextsHold DEF Starts
  <2>2. \A text \in G, i \in 1 .. n : JoinedTo(text, p[i]) \in G
    <3> SUFFICES ASSUME NEW text \in G, NEW i \in 1 .. n PROVE JoinedTo(text, p[i]) \in G
      OBVIOUS
    <3>1. JoinedTo(text, p[i]) \in Texts(C) /\ Starts(JoinedTo(text, p[i]))
      BY <1>2, TextGrows
    <3>2. QED
      BY <3>1
  <2> DEFINE none == <<>>
  <2>3. none \in G
    BY <2>1
  <2> HIDE DEF G, none
  <2>4. \A text \in G, i \in 1 .. Len(p) : JoinedTo(text, p[i]) \in G
    BY <1>3, <2>2
  <2>5. \E f : JoinRun(f, G, none, p)
    BY ONLY <1>1, <2>3, <2>4, JoinSteps
  <2>6. QED
    BY <1>3, <2>5 DEF JoinRun, Joined, none
<1>5. PICK f \in [0 .. n -> V] : /\ f[0] = NothingSplit /\ f[n] = FoldLeft(AddSentence, NothingSplit, p)
                                 /\ \A i \in 1 .. n : f[i] = AddSentence(f[i - 1], p[i])
  <2>1. NothingSplit \in V
    BY NothingIsSplit, AllTextsHold DEF SplitInv
  <2>2. \A acc \in V, i \in 1 .. n : AddSentence(acc, p[i]) \in V
    <3> SUFFICES ASSUME NEW acc \in V, NEW i \in 1 .. n PROVE AddSentence(acc, p[i]) \in V
      OBVIOUS
    <3>1. PICK text \in Texts(C) : SplitInv(C, acc, text)
      OBVIOUS
    <3>2. SplitInv(C, AddSentence(acc, p[i]), JoinedTo(text, p[i]))
      BY <1>2, <3>1, SentenceKeeps
    <3>3. QED
      BY <3>2 DEF SplitInv
  <2> HIDE DEF V
  <2>3. \A acc \in V, i \in 1 .. Len(p) : AddSentence(acc, p[i]) \in V
    BY <1>3, <2>2
  <2>4. \E f : SentenceRun(f, V, NothingSplit, p)
    BY ONLY <1>1, <2>1, <2>3, SentenceSteps
  <2>5. QED
    BY <1>3, <2>4 DEF SentenceRun
<1> DEFINE Good(i) == /\ SplitInv(C, f[i], g[i])
                      /\ \A j \in 1 .. i : Range(p[j]) \subseteq Held(g[i])
                      /\ i # 0 => g[i] # <<>>
           T == {i \in 0 .. n : Good(i)}
<1>6. 0 \in T
  <2>1. SplitInv(C, f[0], g[0])
    BY <1>4, <1>5, NothingIsSplit
  <2>2. QED
    BY <1>1, <2>1
<1>7. \A i \in 1 .. n : i - 1 \in T => i \in T
  <2> SUFFICES ASSUME NEW i \in 1 .. n, i - 1 \in T PROVE i \in T
    OBVIOUS
  <2>1. SplitInv(C, f[i - 1], g[i - 1]) /\ \A j \in 1 .. i - 1 : Range(p[j]) \subseteq Held(g[i - 1])
    OBVIOUS
  <2>2. f[i] = AddSentence(f[i - 1], p[i]) /\ g[i] = JoinedTo(g[i - 1], p[i])
    BY <1>4, <1>5
  <2>3. SplitInv(C, f[i], g[i])
    BY <1>2, <2>1, <2>2, SentenceKeeps
  <2>4. g[i - 1] \in Texts(C) /\ Starts(g[i - 1])
    BY <2>1 DEF SplitInv
  <2>5. g[i] # <<>> /\ Held(g[i]) = Held(g[i - 1]) \cup Range(p[i])
    BY <1>2, <2>2, <2>4, TextGrows
  <2>6. \A j \in 1 .. i : j \in 1 .. i - 1 \/ j = i
    BY <1>1
  <2>7. QED
    BY <2>1, <2>3, <2>5, <2>6
<1> HIDE DEF T
<1>8. \A i \in 0 .. n : i \in T
  BY <1>1, <1>6, <1>7, InductionTo
<1>9. Good(n)
  BY <1>1, <1>8 DEF T
<1>10. \A s \in Range(p) : \E j \in 1 .. n : s = p[j]
  BY <1>1 DEF Range
<1>11. QED
  BY <1>1, <1>4, <1>5, <1>9, <1>10

\* Some parts of a text: no longer than the bound, none empty, all of `seen`.
PartsOf(C, parts, seen, bound) ==
  /\ parts \in Seq(Texts(C))
  /\ \A x \in Range(parts) : Held(x) # {} /\ Len(x) <= bound
  /\ \A c \in seen : \E x \in Range(parts) : c \in Held(x)
Heavy(parts) == \E x \in Range(parts) : Len(x) >= MinChunkChars

LEMMA HardSplitIs ==
  ASSUME ChunkingAssumption, NEW C, Blank \notin C, NEW p, ParagraphOf(C, p), Len(Joined(p)) > MaxChars
  PROVE  /\ PartsOf(C, HardSplit(p), Held(Joined(p)), MaxChars + OverlapChars + 1)
         /\ Heavy(HardSplit(p))
<1> DEFINE acc == FoldLeft(AddSentence, NothingSplit, p)
           x == acc.current
           h == Append(acc.pieces, x)
           S == Texts(C)
<1>1. HardSplit(p) = IF x = <<>> THEN acc.pieces ELSE h
  BY DEF HardSplit, NothingSplit
<1>2. SplitInv(C, acc, Joined(p)) /\ Joined(p) # <<>>
  BY ParagraphIsSplit
<1> HIDE DEF acc
<1>3. /\ acc \in SplitState(C) /\ Joined(p) \in Texts(C) /\ Fits(acc)
      /\ Covers(acc, Held(Joined(p))) /\ Weighs(acc, Len(Joined(p))) /\ x # <<>>
  BY <1>2 DEF SplitInv
<1>4. acc.pieces \in Seq(S) /\ x \in S
  BY <1>3 DEF SplitState
<1> HIDE DEF S
<1>5. h \in Seq(S) /\ Range(h) = Range(acc.pieces) \cup {x}
  BY <1>4, Appended
<1>6. HardSplit(p) = h
  BY <1>1, <1>3
<1>7. Held(x) # {}
  BY <1>3, <1>4, HoldsSomething DEF Fits, S, Texts
<1> HIDE DEF h
<1>8. PartsOf(C, h, Held(Joined(p)), MaxChars + OverlapChars + 1)
  BY <1>3, <1>5, <1>7 DEF PartsOf, Fits, Covers, S
<1>9. Len(x) >= Len(Joined(p)) => Len(x) >= MinChunkChars
  <2>1. Len(x) \in Nat /\ Len(Joined(p)) \in Nat
    BY <1>3, <1>4 DEF S, Texts
  <2>2. QED
    BY <2>1 DEF ChunkingAssumption
<1>10. Heavy(h)
  BY <1>3, <1>5, <1>9 DEF Heavy, Weighs
<1>11. QED
  BY <1>6, <1>8, <1>10

-----------------------------------------------------------------------------
(* The parts of a body.                                                    *)

PackState(C) == [parts : Seq(Texts(C)), buffer : Texts(C)]
NothingPacked == [parts |-> <<>>, buffer |-> <<>>]
FlushedParts(acc) == IF acc.buffer = <<>> THEN acc.parts ELSE Append(acc.parts, acc.buffer)

\* What holds of the parts made of the paragraphs read so far, whose characters are
\* `seen`: once there is a part, one of them or the buffer is no sliver.
PackInv(C, acc, seen, bound) ==
  /\ acc \in PackState(C)
  /\ \A x \in Range(acc.parts) : Held(x) # {} /\ Len(x) <= bound
  /\ Len(acc.buffer) <= MaxChars /\ Starts(acc.buffer)
  /\ \A c \in seen : c \in Held(acc.buffer) \/ \E x \in Range(acc.parts) : c \in Held(x)
  /\ acc.parts # <<>> => Heavy(acc.parts) \/ Len(acc.buffer) >= MinChunkChars

LEMMA TwoTexts ==
  ASSUME NEW C, NEW a \in Texts(C), a # <<>>, a[1] # Blank, NEW b \in Texts(C)
  PROVE  /\ a \o <<Blank, Blank>> \o b \in Texts(C)
         /\ Held(a \o <<Blank, Blank>> \o b) = Held(a) \cup Held(b)
         /\ Len(a \o <<Blank, Blank>> \o b) = Len(a) + 2 + Len(b)
         /\ a \o <<Blank, Blank>> \o b # <<>> /\ (a \o <<Blank, Blank>> \o b)[1] # Blank
<1> DEFINE A == C \cup {Blank}
           gap == <<Blank, Blank>>
           y == a \o gap
           z == y \o b
<1>1. gap \in Seq(A) /\ Len(gap) = 2 /\ Range(gap) = {Blank} /\ a \in Seq(A) /\ b \in Seq(A)
  BY DEF Range, Texts
<1> HIDE DEF A, gap
<1>2. y \in Seq(A) /\ Range(y) = Range(a) \cup Range(gap) /\ Len(y) = Len(a) + Len(gap)
  BY ONLY <1>1, BehindIt
<1>3. y # <<>> /\ y[1] = a[1] /\ Len(a) \in Nat /\ Len(b) \in Nat
  BY <1>1
<1> HIDE DEF y
<1>4. z \in Seq(A) /\ Range(z) = Range(y) \cup Range(b) /\ Len(z) = Len(y) + Len(b)
  BY ONLY <1>1, <1>2, BehindIt
<1>5. z # <<>> /\ z[1] = y[1]
  BY <1>1, <1>2, <1>3
<1> HIDE DEF z
<1>6. Held(z) = Held(a) \cup Held(b)
  BY <1>1, <1>2, <1>4 DEF Held
<1>7. z \in Texts(C) /\ Len(z) = Len(a) + 2 + Len(b) /\ z[1] # Blank
  BY <1>1, <1>2, <1>3, <1>4, <1>5 DEF Texts, A
<1>8. QED
  BY <1>5, <1>6, <1>7 DEF z, y, gap

LEMMA FlushedPartsAre ==
  ASSUME NEW C, NEW acc \in PackState(C), Starts(acc.buffer)
  PROVE  /\ FlushedParts(acc) \in Seq(Texts(C))
         /\ Range(FlushedParts(acc)) = Range(acc.parts) \cup (IF acc.buffer = <<>> THEN {} ELSE {acc.buffer})
         /\ acc.buffer # <<>> => Held(acc.buffer) # {} /\ FlushedParts(acc) # <<>>
<1> DEFINE S == Texts(C)
<1>1. acc.parts \in Seq(S) /\ acc.buffer \in S
  BY DEF PackState
<1>2. acc.buffer # <<>> => Held(acc.buffer) # {}
  BY <1>1, HoldsSomething DEF Starts, Texts
<1> HIDE DEF S
<1>3. Append(acc.parts, acc.buffer) \in Seq(S) /\ Append(acc.parts, acc.buffer) # <<>>
      /\ Range(Append(acc.parts, acc.buffer)) = Range(acc.parts) \cup {acc.buffer}
  BY <1>1, Appended
<1>4. QED
  BY <1>1, <1>2, <1>3 DEF FlushedParts, S

\* What follows of the text of a paragraph.
LEMMA JoinedIs ==
  ASSUME ChunkingAssumption, NEW C, Blank \notin C, NEW p, ParagraphOf(C, p)
  PROVE  /\ Joined(p) \in Texts(C) /\ Joined(p) # <<>> /\ Joined(p)[1] # Blank
         /\ Held(Joined(p)) # {} /\ Len(Joined(p)) \in Nat \ {0}
<1>1. Joined(p) \in Texts(C) /\ Joined(p) # <<>> /\ Starts(Joined(p))
  BY ParagraphIsSplit DEF SplitInv
<1>2. QED
  BY <1>1, HoldsSomething DEF Starts, Texts

LEMMA ParagraphKeeps ==
  ASSUME ChunkingAssumption, NEW C, Blank \notin C, NEW acc, NEW seen, NEW bound \in Int,
         PackInv(C, acc, seen, bound), NEW p, ParagraphOf(C, p), MaxChars <= bound,
         Len(Joined(p)) > MaxChars => MaxChars + OverlapChars + 1 <= bound
  PROVE  /\ PackInv(C, AddParagraph(acc, p), seen \cup Held(Joined(p)), bound)
         /\ AddParagraph(acc, p).parts # <<>> \/ AddParagraph(acc, p).buffer # <<>>
<1> DEFINE text == Joined(p)
           b == acc.buffer
           flushed == FlushedParts(acc)
           candidate == IF b = <<>> THEN text ELSE b \o <<Blank, Blank>> \o text
           new == AddParagraph(acc, p)
           S == Texts(C)
<1>1. /\ acc \in PackState(C) /\ b \in S /\ acc.parts \in Seq(S)
      /\ \A x \in Range(acc.parts) : Held(x) # {} /\ Len(x) <= bound
      /\ Len(b) <= MaxChars /\ Starts(b)
      /\ \A c \in seen : c \in Held(b) \/ \E x \in Range(acc.parts) : c \in Held(x)
      /\ acc.parts # <<>> => Heavy(acc.parts) \/ Len(b) >= MinChunkChars
  BY DEF PackInv, PackState
<1>2. text \in S /\ text # <<>> /\ text[1] # Blank /\ Held(text) # {} /\ Len(text) \in Nat \ {0}
  BY JoinedIs
<1>3. /\ flushed \in Seq(S) /\ Range(flushed) = Range(acc.parts) \cup (IF b = <<>> THEN {} ELSE {b})
      /\ b # <<>> => Held(b) # {} /\ flushed # <<>>
  BY <1>1, FlushedPartsAre
<1>4. b # <<>> => /\ b \o <<Blank, Blank>> \o text \in S
                  /\ Held(b \o <<Blank, Blank>> \o text) = Held(b) \cup Held(text)
                  /\ Len(b \o <<Blank, Blank>> \o text) = Len(b) + 2 + Len(text)
                  /\ b \o <<Blank, Blank>> \o text # <<>> /\ (b \o <<Blank, Blank>> \o text)[1] # Blank
  <2> SUFFICES ASSUME b # <<>>
               PROVE  /\ b \o <<Blank, Blank>> \o text \in S
                      /\ Held(b \o <<Blank, Blank>> \o text) = Held(b) \cup Held(text)
                      /\ Len(b \o <<Blank, Blank>> \o text) = Len(b) + 2 + Len(text)
                      /\ b \o <<Blank, Blank>> \o text # <<>> /\ (b \o <<Blank, Blank>> \o text)[1] # Blank
    OBVIOUS
  <2>1. b \in Texts(C) /\ b # <<>> /\ b[1] # Blank /\ text \in Texts(C)
    BY <1>1, <1>2 DEF Starts
  <2> HIDE DEF b, text
  <2>2. QED
    BY ONLY <2>1, TwoTexts
<1>5. new = IF Len(text) > MaxChars THEN [parts |-> flushed \o HardSplit(p), buffer |-> <<>>]
            ELSE IF Len(candidate) > MaxChars THEN [parts |-> flushed, buffer |-> text]
            ELSE [parts |-> acc.parts, buffer |-> candidate]
  BY DEF AddParagraph, FlushedParts
<1>6. Len(b) \in Nat /\ MaxChars \in Nat /\ MinChunkChars \in Nat /\ 2 * MinChunkChars <= MaxChars
      /\ OverlapChars \in Nat
  BY <1>1 DEF Texts, ChunkingAssumption
<1>7. Held(<<>>) = {} /\ <<>> \in S /\ Len(<<>>) = 0
  BY AllTextsHold
<1>8. CASE Len(text) > MaxChars
  <2> DEFINE h == HardSplit(p)
             parts == flushed \o h
  <2>1. new = [parts |-> parts, buffer |-> <<>>]
    BY <1>5, <1>8
  <2>2. PartsOf(C, h, Held(text), MaxChars + OverlapChars + 1) /\ Heavy(h)
    BY <1>8, HardSplitIs
  <2>3. h \in Seq(S)
    BY <2>2 DEF PartsOf
  <2> HIDE DEF h, S
  <2>4. parts \in Seq(S) /\ Range(parts) = Range(flushed) \cup Range(h)
    BY <1>3, <2>3, BehindIt
  <2> HIDE DEF parts, flushed, text, b
  <2>5. Heavy(parts) /\ parts # <<>>
    <3>1. PICK x \in Range(h) : Len(x) >= MinChunkChars
      BY <2>2 DEF Heavy
    <3>2. x \in Range(parts)
      BY <2>4, <3>1
    <3>3. Range(<<>>) = {}
      BY DEF Range
    <3>4. QED
      BY <3>1, <3>2, <3>3 DEF Heavy
  <2>6. \A x \in Range(h) : Held(x) # {} /\ Len(x) <= bound
    <3>1. \A x \in Range(h) : Held(x) # {} /\ Len(x) <= MaxChars + OverlapChars + 1 /\ Len(x) \in Nat
      <4>1. \A x \in Range(h) : x \in S
        BY <2>3 DEF Range
      <4>2. QED
        BY <2>2, <4>1 DEF PartsOf, S, Texts
    <3>2. MaxChars + OverlapChars + 1 <= bound
      BY <1>8 DEF text
    <3>3. QED
      BY <1>6, <3>1, <3>2
  <2>7. b # <<>> => Len(b) <= bound
    BY <1>1, <1>6
  <2>8. \A x \in Range(parts) : Held(x) # {} /\ Len(x) <= bound
    BY <1>1, <1>3, <2>4, <2>6, <2>7
  <2>9. \A c \in seen \cup Held(text) : \E x \in Range(parts) : c \in Held(x)
    <3>1. \A c \in Held(text) : \E x \in Range(h) : c \in Held(x)
      BY <2>2 DEF PartsOf
    <3>2. ASSUME NEW c \in seen PROVE \E x \in Range(flushed) : c \in Held(x)
      BY <1>1, <1>3, <1>7, <3>2
    <3>3. QED
      BY <2>4, <3>1, <3>2
  <2>10. new \in PackState(C)
    BY <1>7, <2>1, <2>4 DEF PackState, S
  <2>11. QED
    BY <1>6, <1>7, <2>1, <2>5, <2>8, <2>9, <2>10 DEF PackInv, Starts, text
<1>9. CASE Len(text) <= MaxChars /\ Len(candidate) > MaxChars
  <2>1. b # <<>>
    BY <1>2, <1>6, <1>9
  <2>2. new = [parts |-> flushed, buffer |-> text]
    BY <1>2, <1>5, <1>6, <1>9
  <2>3. Len(b) + 2 + Len(text) > MaxChars
    BY <1>4, <1>9, <2>1
  <2> HIDE DEF text, b, flushed, S, candidate
  <2>4. Heavy(flushed) \/ Len(text) >= MinChunkChars
    <3>1. CASE Len(b) >= MinChunkChars
      BY <1>3, <2>1, <3>1 DEF Heavy
    <3>2. CASE Len(b) < MinChunkChars
      BY <1>2, <1>6, <2>3, <3>2
    <3>3. QED
      BY <1>6, <3>1, <3>2
  <2>5. \A x \in Range(flushed) : Held(x) # {} /\ Len(x) <= bound
    BY <1>1, <1>3, <1>6
  <2>6. \A c \in seen : \E x \in Range(flushed) : c \in Held(x)
    BY <1>1, <1>3, <2>1
  <2>7. new \in PackState(C)
    BY <1>2, <1>3, <2>2 DEF PackState, S
  <2>8. QED
    BY <1>2, <1>9, <2>2, <2>4, <2>5, <2>6, <2>7 DEF PackInv, Starts, text
<1>10. CASE Len(text) <= MaxChars /\ ~ (Len(candidate) > MaxChars)
  <2>1. new = [parts |-> acc.parts, buffer |-> candidate]
    BY <1>2, <1>5, <1>6, <1>10
  <2>2. candidate \in S /\ Held(candidate) = Held(b) \cup Held(text) /\ candidate # <<>>
        /\ candidate[1] # Blank /\ Len(candidate) >= Len(b) /\ Len(candidate) \in Nat
    <3>1. CASE b = <<>>
      <4>1. candidate = text /\ Held(b) = {} /\ Len(b) = 0
        BY <1>7, <3>1
      <4> HIDE DEF candidate, text, b
      <4>2. QED
        BY <1>2, <4>1
    <3>2. CASE b # <<>>
      <4> DEFINE both == b \o <<Blank, Blank>> \o text
      <4>1. candidate = both
        BY <3>2
      <4>2. /\ both \in S /\ Held(both) = Held(b) \cup Held(text) /\ Len(both) = Len(b) + 2 + Len(text)
            /\ both # <<>> /\ both[1] # Blank
        BY <1>4, <3>2
      <4> HIDE DEF candidate, text, b, both
      <4>3. QED
        BY <1>2, <1>6, <4>1, <4>2
    <3>3. QED
      BY <3>1, <3>2
  <2>3. Len(candidate) <= MaxChars
    BY <1>6, <1>10, <2>2
  <2> HIDE DEF text, b, flushed, S, candidate
  <2>4. Len(b) >= MinChunkChars => Len(candidate) >= MinChunkChars
    BY <1>6, <2>2
  <2>5. new \in PackState(C)
    BY <1>1, <2>1, <2>2 DEF PackState, S
  <2>6. QED
    BY <1>1, <2>1, <2>2, <2>3, <2>4, <2>5 DEF PackInv, Starts, text
<1>11. QED
  BY <1>2, <1>6, <1>8, <1>9, <1>10

\* A body of characters of C.
BodyOf(C, body) ==
  /\ body \in Seq(Seq(Seq(C))) /\ body # <<>>
  /\ \A p \in Range(body) : ParagraphOf(C, p)

\* The budget of a chunk of a body.
BoundOf(body) ==
  MaxChars + (IF \A p \in DOMAIN body : Len(Joined(body[p])) <= MaxChars THEN 0 ELSE OverlapChars + 1)

LEMMA BodyIs ==
  ASSUME NEW body, IsBody(body), body # <<>>
  PROVE  BodyOf(Characters(body), body) /\ Blank \notin Characters(body)
<1> DEFINE C == Characters(body)
           P == Seq(C)
           B == Seq(P)
<1>1. \A p \in Range(body) : IsParagraph(p)
  BY DEF IsBody
<1>2. \A p \in Range(body) : \A s \in Range(p) : IsText(s)
  BY <1>1 DEF IsParagraph
<1>3. \A p \in Range(body) : \A s \in Range(p) : Range(s) \subseteq C
  BY DEF Characters, Range
<1>4. \A p \in Range(body) : \A s \in Range(p) : s \in P /\ s # <<>> /\ Blank \notin Range(s)
  <2> SUFFICES ASSUME NEW p \in Range(body), NEW s \in Range(p)
               PROVE  s \in P /\ s # <<>> /\ Blank \notin Range(s)
    OBVIOUS
  <2> DEFINE R == Range(s) \ {Blank}
  <2>1. s \in Seq(R) /\ s # <<>>
    BY <1>2 DEF IsText
  <2>2. R \subseteq C
    BY <1>3
  <2> HIDE DEF R, C
  <2>3. s \in Seq(C)
    BY <2>1, <2>2
  <2>4. \A c \in Range(s) : c \in R
    BY <2>1 DEF Range
  <2>5. QED
    BY <2>1, <2>3, <2>4 DEF R
<1>5. \A c \in C : \E p \in Range(body) : \E s \in Range(p) : c \in Range(s)
  BY DEF Characters, Range
<1>6. Blank \notin C
  BY <1>4, <1>5
<1>7. ASSUME NEW p \in Range(body) PROVE p \in B /\ ParagraphOf(C, p)
  <2> DEFINE R == Range(p)
  <2>1. p \in Seq(R) /\ p # <<>>
    BY <1>1 DEF IsParagraph
  <2>2. R \subseteq P
    BY <1>4
  <2> HIDE DEF R, P
  <2>3. p \in Seq(P)
    BY <2>1, <2>2
  <2>4. QED
    BY <1>4, <2>1, <2>3 DEF ParagraphOf, P
<1>8. body \in Seq(B)
  <2> DEFINE R == Range(body)
  <2>1. body \in Seq(R) /\ R \subseteq B
    BY <1>7 DEF IsBody
  <2> HIDE DEF R, B
  <2>2. QED
    BY <2>1
<1>9. QED
  BY <1>6, <1>7, <1>8 DEF BodyOf

\* The characters of a text are those it may be of.
LEMMA TextsHold ==
  ASSUME NEW C, NEW x \in Texts(C)
  PROVE  Held(x) \subseteq C
<1> DEFINE A == C \cup {Blank}
<1>1. x \in Seq(A)
  BY DEF Texts
<1> HIDE DEF A
<1>2. \A c \in Range(x) : c \in A
  BY <1>1 DEF Range
<1>3. QED
  BY <1>2 DEF A, Held

LEMMA PartsAre ==
  ASSUME ChunkingAssumption, NEW C, Blank \notin C, NEW body, BodyOf(C, body)
  PROVE  /\ PartsOf(C, Parts(body), Characters(body), BoundOf(body))
         /\ Parts(body) \in Seq(Texts(C)) /\ Parts(body) # <<>>
         /\ Len(Parts(body)) # 1 => Heavy(Parts(body))
<1> DEFINE n == Len(body)
           W == Seq(Seq(C))
           bound == BoundOf(body)
           V == {acc \in PackState(C) : \E seen \in SUBSET C : PackInv(C, acc, seen, bound)}
<1>1. body \in Seq(W) /\ body # <<>>
  BY DEF BodyOf
<1> HIDE DEF W
<1>2. n \in Nat \ {0} /\ DOMAIN body = 1 .. n
  BY <1>1
<1>3. n = Len(body)
  OBVIOUS
<1> HIDE DEF n
<1>4. \A i \in 1 .. n : body[i] \in Range(body) /\ ParagraphOf(C, body[i])
  <2>1. \A i \in 1 .. n : body[i] \in Range(body)
    BY <1>2 DEF Range
  <2>2. QED
    BY <2>1 DEF BodyOf
<1>5. MaxChars \in Nat /\ OverlapChars \in Nat /\ MinChunkChars \in Nat
  BY DEF ChunkingAssumption
<1>6. bound \in Int /\ MaxChars <= bound
  BY <1>5 DEF BoundOf
<1>7. \A i \in 1 .. n : Len(Joined(body[i])) > MaxChars => MaxChars + OverlapChars + 1 <= bound
  <2> SUFFICES ASSUME NEW i \in 1 .. n, Len(Joined(body[i])) > MaxChars
               PROVE  MaxChars + OverlapChars + 1 <= bound
    OBVIOUS
  <2>1. Len(Joined(body[i])) \in Nat
    BY <1>4, JoinedIs
  <2>2. ~ (Len(Joined(body[i])) <= MaxChars)
    BY <1>5, <2>1
  <2>3. bound = MaxChars + (OverlapChars + 1)
    BY <1>2, <2>2 DEF BoundOf
  <2>4. QED
    BY <1>5, <2>3
<1> HIDE DEF bound
<1>8. ASSUME NEW acc, NEW seen, PackInv(C, acc, seen, bound), NEW i \in 1 .. n
      PROVE  /\ PackInv(C, AddParagraph(acc, body[i]), seen \cup Held(Joined(body[i])), bound)
             /\ AddParagraph(acc, body[i]).parts # <<>> \/ AddParagraph(acc, body[i]).buffer # <<>>
  BY <1>4, <1>6, <1>7, <1>8, ParagraphKeeps
<1>9. \A i \in 1 .. n : Held(Joined(body[i])) \subseteq C
  BY <1>4, JoinedIs, TextsHold
<1>10. PackInv(C, NothingPacked, {}, bound)
  <2> DEFINE S == Texts(C)
  <2>1. <<>> \in S /\ Range(<<>>) = {} /\ Len(<<>>) = 0
    BY AllTextsHold DEF Range
  <2>2. <<>> \in Seq(S)
    OBVIOUS
  <2> HIDE DEF S
  <2>3. NothingPacked \in PackState(C)
    BY <2>1, <2>2 DEF PackState, NothingPacked, S
  <2>4. QED
    BY <1>5, <2>1, <2>3 DEF PackInv, NothingPacked, Starts
<1>11. PICK f \in [0 .. n -> V] : /\ f[0] = NothingPacked /\ f[n] = FoldLeft(AddParagraph, NothingPacked, body)
                                  /\ \A i \in 1 .. n : f[i] = AddParagraph(f[i - 1], body[i])
  <2>1. NothingPacked \in V
    <3>1. NothingPacked \in PackState(C) /\ {} \in SUBSET C
      BY <1>10 DEF PackInv
    <3>2. QED
      BY <1>10, <3>1
  <2>2. \A acc \in V, i \in 1 .. n : AddParagraph(acc, body[i]) \in V
    <3> SUFFICES ASSUME NEW acc \in V, NEW i \in 1 .. n PROVE AddParagraph(acc, body[i]) \in V
      OBVIOUS
    <3>1. PICK seen \in SUBSET C : PackInv(C, acc, seen, bound)
      OBVIOUS
    <3>2. PackInv(C, AddParagraph(acc, body[i]), seen \cup Held(Joined(body[i])), bound)
      BY <1>8, <3>1
    <3>3. seen \cup Held(Joined(body[i])) \in SUBSET C
      BY <1>9
    <3>4. AddParagraph(acc, body[i]) \in PackState(C)
      BY <3>2 DEF PackInv
    <3>5. QED
      BY <3>2, <3>3, <3>4
  <2> HIDE DEF V
  <2>3. \A acc \in V, i \in 1 .. Len(body) : AddParagraph(acc, body[i]) \in V
    BY <1>3, <2>2
  <2>4. \E f : ParagraphRun(f, V, NothingPacked, body)
    BY ONLY <1>1, <2>1, <2>3, ParagraphSteps
  <2>5. QED
    BY <1>3, <2>4 DEF ParagraphRun
<1> DEFINE Good(i) == \E seen \in SUBSET C :
             /\ PackInv(C, f[i], seen, bound)
             /\ \A j \in 1 .. i : Held(Joined(body[j])) \subseteq seen
             /\ i # 0 => f[i].parts # <<>> \/ f[i].buffer # <<>>
           T == {i \in 0 .. n : Good(i)}
<1>12. 0 \in T
  <2>1. PackInv(C, f[0], {}, bound) /\ {} \in SUBSET C
    BY <1>10, <1>11
  <2>2. QED
    BY <1>2, <2>1
<1>13. \A i \in 1 .. n : i - 1 \in T => i \in T
  <2> SUFFICES ASSUME NEW i \in 1 .. n, i - 1 \in T PROVE i \in T
    OBVIOUS
  <2>1. PICK seen \in SUBSET C : /\ PackInv(C, f[i - 1], seen, bound)
                                 /\ \A j \in 1 .. i - 1 : Held(Joined(body[j])) \subseteq seen
    OBVIOUS
  <2> DEFINE now == seen \cup Held(Joined(body[i]))
  <2>2. f[i] = AddParagraph(f[i - 1], body[i])
    BY <1>11
  <2>3. PackInv(C, f[i], now, bound) /\ (f[i].parts # <<>> \/ f[i].buffer # <<>>)
    <3>1. /\ PackInv(C, AddParagraph(f[i - 1], body[i]), now, bound)
          /\ AddParagraph(f[i - 1], body[i]).parts # <<>> \/ AddParagraph(f[i - 1], body[i]).buffer # <<>>
      BY <1>8, <2>1
    <3> HIDE DEF now
    <3>2. QED
      BY <2>2, <3>1
  <2>4. now \in SUBSET C
    BY <1>9
  <2>5. \A j \in 1 .. i : j \in 1 .. i - 1 \/ j = i
    BY <1>2
  <2>6. \A j \in 1 .. i : Held(Joined(body[j])) \subseteq now
    BY <2>1, <2>5
  <2> HIDE DEF now
  <2>7. Good(i)
    BY <2>3, <2>4, <2>6
  <2>8. QED
    BY <2>7
<1> HIDE DEF T
<1>14. \A i \in 0 .. n : i \in T
  BY <1>2, <1>12, <1>13, InductionTo
<1>15. Good(n)
  <2>1. n \in T
    BY <1>2, <1>14
  <2> HIDE DEF Good
  <2>2. QED
    BY <2>1 DEF T
<1> DEFINE acc == FoldLeft(AddParagraph, NothingPacked, body)
<1>16. f[n] = acc
  BY <1>11
<1>17. PICK seen \in SUBSET C : /\ PackInv(C, f[n], seen, bound)
                                /\ \A j \in 1 .. n : Held(Joined(body[j])) \subseteq seen
                                /\ f[n].parts # <<>> \/ f[n].buffer # <<>>
  BY <1>2, <1>15
<1>18. Characters(body) \subseteq seen
  <2> SUFFICES ASSUME NEW c \in Characters(body) PROVE c \in seen
    OBVIOUS
  <2>1. PICK j \in 1 .. n : \E s \in Range(body[j]) : c \in Range(s)
    BY <1>2 DEF Characters, Range
  <2>2. \A s \in Range(body[j]) : Range(s) \subseteq Held(Joined(body[j]))
    BY <1>4, ParagraphIsSplit
  <2>3. QED
    BY <1>17, <2>1, <2>2
<1>19. Parts(body) = FlushedParts(acc)
  BY DEF Parts, FlushedParts, NothingPacked
<1> DEFINE S == Texts(C)
           all == FlushedParts(acc)
           b == acc.buffer
<1> HIDE DEF acc
<1>20. /\ acc \in PackState(C) /\ acc.parts \in Seq(S) /\ b \in S
       /\ \A x \in Range(acc.parts) : Held(x) # {} /\ Len(x) <= bound
       /\ Len(b) <= MaxChars /\ Starts(b) /\ Len(b) \in Nat
       /\ \A c \in seen : c \in Held(b) \/ \E x \in Range(acc.parts) : c \in Held(x)
       /\ acc.parts # <<>> => Heavy(acc.parts) \/ Len(b) >= MinChunkChars
       /\ acc.parts # <<>> \/ b # <<>>
  <2>1. PackInv(C, acc, seen, bound)
    BY <1>16, <1>17
  <2>2. acc.parts # <<>> \/ b # <<>>
    BY <1>16, <1>17
  <2>3. QED
    BY <2>1, <2>2 DEF PackInv, PackState, Texts
<1>21. /\ all \in Seq(S) /\ Range(all) = Range(acc.parts) \cup (IF b = <<>> THEN {} ELSE {b})
       /\ b # <<>> => Held(b) # {} /\ all # <<>>
  BY <1>20, FlushedPartsAre
<1>22. b = <<>> => all = acc.parts /\ Held(b) = {} /\ Len(b) = 0
  BY AllTextsHold DEF FlushedParts
<1>23. b # <<>> => all = Append(acc.parts, b)
  BY DEF FlushedParts
<1> HIDE DEF S, b
<1>24. acc.parts = <<>> /\ b # <<>> => Len(all) = 1
  BY <1>20, <1>23
<1>25. \A x \in Range(acc.parts) : Len(x) \in Nat
  <2>1. \A x \in Range(acc.parts) : x \in S
    BY <1>20 DEF Range
  <2>2. QED
    BY <2>1 DEF S, Texts
<1>26. acc.parts # <<>> => \E x \in Range(acc.parts) : TRUE
  <2> SUFFICES ASSUME acc.parts # <<>> PROVE \E x \in Range(acc.parts) : TRUE
    OBVIOUS
  <2>1. 1 \in DOMAIN acc.parts
    BY <1>20
  <2>2. QED
    BY <2>1, ZenonT(30) DEF Range
<1> HIDE DEF all
<1>27. all # <<>>
  BY <1>20, <1>21, <1>22
<1>28. Len(all) # 1 => Heavy(all)
  <2> SUFFICES ASSUME Len(all) # 1 PROVE Heavy(all)
    OBVIOUS
  <2>1. acc.parts # <<>>
    BY <1>20, <1>24
  <2>2. CASE Heavy(acc.parts)
    BY <1>21, <2>2 DEF Heavy
  <2>3. CASE Len(b) >= MinChunkChars /\ b # <<>>
    BY <1>21, <2>3 DEF Heavy
  <2>4. CASE Len(b) >= MinChunkChars /\ b = <<>>
    <3>1. MinChunkChars = 0
      BY <1>5, <1>22, <2>4
    <3>2. PICK x \in Range(acc.parts) : TRUE
      BY <1>26, <2>1
    <3>3. x \in Range(all) /\ Len(x) >= MinChunkChars
      BY <1>21, <1>25, <3>1, <3>2
    <3>4. QED
      BY <3>3 DEF Heavy
  <2>5. QED
    BY <1>20, <2>1, <2>2, <2>3, <2>4
<1>29. \A x \in Range(all) : Held(x) # {} /\ Len(x) <= bound
  BY <1>5, <1>6, <1>20, <1>21
<1>30. \A c \in Characters(body) : \E x \in Range(all) : c \in Held(x)
  BY <1>18, <1>20, <1>21, <1>22
<1>31. QED
  BY <1>19, <1>21, <1>27, <1>28, <1>29, <1>30 DEF PartsOf, bound, S, all

\* Slivers are dropped, and something is left.
LEMMA KeptIs ==
  ASSUME ChunkingAssumption, NEW C, NEW parts \in Seq(Texts(C)), parts # <<>>,
         Len(parts) # 1 => Heavy(parts)
  PROVE  /\ Kept(parts) \in Seq(Texts(C)) /\ Kept(parts) # <<>>
         /\ Range(Kept(parts)) \subseteq Range(parts)
         /\ \A x \in Range(parts) : x \in Range(Kept(parts)) \/ Len(x) < MinChunkChars
<1> DEFINE S == Texts(C)
           P == {i \in DOMAIN parts : Len(parts[i]) >= MinChunkChars}
           kept == Chosen(parts, P)
           A == Ascending(P)
<1>1. parts \in Seq(S) /\ Len(parts) \in Nat \ {0} /\ DOMAIN parts = 1 .. Len(parts)
  OBVIOUS
<1>2. \A i \in DOMAIN parts : Len(parts[i]) \in Nat
  <2>1. \A i \in DOMAIN parts : parts[i] \in S
    <3> HIDE DEF S
    <3>1. QED
      BY <1>1
  <2>2. QED
    BY <2>1 DEF Texts
<1>3. MinChunkChars \in Nat
  BY DEF ChunkingAssumption
<1>4. CASE Len(parts) <= 1
  <2>1. Kept(parts) = parts
    BY <1>4 DEF Kept
  <2>2. QED
    BY <2>1
<1>5. CASE ~ (Len(parts) <= 1)
  <2>1. Kept(parts) = kept
    BY <1>5 DEF Kept
  <2>2. P \in SUBSET (DOMAIN parts)
    OBVIOUS
  <2>3. Heavy(parts)
    BY <1>1, <1>5
  <2>4. PICK p \in P : TRUE
    <3>1. PICK x \in Range(parts) : Len(x) >= MinChunkChars
      BY <2>3 DEF Heavy
    <3>2. PICK i \in DOMAIN parts : parts[i] = x
      BY DEF Range
    <3>3. QED
      BY <3>1, <3>2
  <2>5. \A i \in DOMAIN parts : i \in P \/ Len(parts[i]) < MinChunkChars
    BY <1>2, <1>3
  <2> DEFINE n == Cardinality(P)
  <2> HIDE DEF S, P
  <2>6. /\ n \in Nat /\ kept \in Seq(S) /\ Len(kept) = n /\ A \in [1 .. n -> P]
        /\ \A k \in 1 .. n : kept[k] = parts[A[k]]
        /\ \A i \in P : \E k \in 1 .. n : A[k] = i
    BY <1>1, <2>2, ChosenPlaces
  <2> HIDE DEF kept, A, n
  <2>7. DOMAIN kept = 1 .. n
    BY <2>6
  <2>8. kept # <<>>
    <3>1. PICK k \in 1 .. n : A[k] = p
      BY <2>6
    <3>2. n >= 1
      BY <2>6
    <3>3. QED
      BY <2>6, <3>2
  <2>9. \A x \in Range(kept) : x \in Range(parts)
    BY <2>2, <2>6, <2>7 DEF Range
  <2>10. ASSUME NEW x \in Range(parts), x \notin Range(kept) PROVE Len(x) < MinChunkChars
    <3>1. PICK i \in DOMAIN parts : parts[i] = x
      BY DEF Range
    <3>2. i \notin P
      <4> SUFFICES ASSUME i \in P PROVE FALSE
        OBVIOUS
      <4>1. PICK k \in 1 .. n : A[k] = i
        BY <2>6
      <4>2. kept[k] = x
        BY <2>6, <3>1, <4>1
      <4>3. QED
        BY <2>7, <2>10, <4>2 DEF Range
    <3>3. QED
      BY <2>5, <3>1, <3>2
  <2>11. QED
    BY <2>1, <2>6, <2>8, <2>9, <2>10 DEF S
<1>6. QED
  BY <1>4, <1>5

\* What the chunks of a section hold.
ChunkedInto(body, kept) ==
  /\ Len(kept) \in Nat \ {0} /\ DOMAIN kept = 1 .. Len(kept)
  /\ \A k \in 1 .. Len(kept) : /\ Held(kept[k]) # {} /\ Held(kept[k]) \subseteq Characters(body)
                               /\ Len(kept[k]) <= BoundOf(body)
  /\ \A c \in Characters(body) :
       \/ \E k \in 1 .. Len(kept) : c \in Held(kept[k])
       \/ \E k \in DOMAIN Parts(body) : Len(Parts(body)[k]) < MinChunkChars /\ c \in Held(Parts(body)[k])

LEMMA BodyIsChunked ==
  ASSUME ChunkingAssumption, NEW body, IsBody(body), body # <<>>
  PROVE  ChunkedInto(body, Kept(Parts(body)))
<1> DEFINE C == Characters(body)
           parts == Parts(body)
           kept == Kept(parts)
           S == Texts(C)
<1>1. BodyOf(C, body) /\ Blank \notin C
  BY BodyIs
<1>2. PartsOf(C, parts, C, BoundOf(body)) /\ parts \in Seq(Texts(C)) /\ parts # <<>>
      /\ (Len(parts) # 1 => Heavy(parts))
  <2> HIDE DEF C, parts
  <2>1. /\ PartsOf(C, Parts(body), Characters(body), BoundOf(body))
        /\ Parts(body) \in Seq(Texts(C)) /\ Parts(body) # <<>>
        /\ Len(Parts(body)) # 1 => Heavy(Parts(body))
    BY ONLY <1>1, ChunkingAssumption, PartsAre
  <2>2. QED
    BY <2>1 DEF C, parts
<1> HIDE DEF parts, C
<1>3. /\ kept \in Seq(Texts(C)) /\ kept # <<>> /\ Range(kept) \subseteq Range(parts)
      /\ \A x \in Range(parts) : x \in Range(kept) \/ Len(x) < MinChunkChars
  BY <1>2, KeptIs
<1> HIDE DEF kept, S
<1>4. kept \in Seq(S)
  BY <1>3 DEF S
<1>5. Len(kept) \in Nat \ {0} /\ DOMAIN kept = 1 .. Len(kept) /\ \A k \in 1 .. Len(kept) : kept[k] \in S
  BY <1>3, <1>4
<1>6. \A k \in 1 .. Len(kept) : kept[k] \in Range(parts)
  BY <1>3, <1>5 DEF Range
<1>7. \A k \in 1 .. Len(kept) : Held(kept[k]) \subseteq C
  BY <1>5, TextsHold DEF S
<1>8. ASSUME NEW c \in C
      PROVE  \/ \E k \in 1 .. Len(kept) : c \in Held(kept[k])
             \/ \E k \in DOMAIN parts : Len(parts[k]) < MinChunkChars /\ c \in Held(parts[k])
  <2>1. PICK x \in Range(parts) : c \in Held(x)
    BY <1>2 DEF PartsOf
  <2>2. CASE x \in Range(kept)
    BY <1>5, <2>1, <2>2 DEF Range
  <2>3. CASE Len(x) < MinChunkChars
    BY <2>1, <2>3 DEF Range
  <2>4. QED
    BY <1>3, <2>2, <2>3
<1>9. QED
  BY <1>2, <1>5, <1>6, <1>7, <1>8 DEF PartsOf, ChunkedInto, C, parts, kept

-----------------------------------------------------------------------------
(* The sections of a document, and the headings they are nested in.        *)

\* Sections that have a body, each with characters of its own.
SectionsOf(s) ==
  /\ s \in Seq(Range(s)) /\ Len(s) \in Nat /\ DOMAIN s = 1 .. Len(s)
  /\ \A i \in 1 .. Len(s) : s[i].level \in Nat /\ IsBody(s[i].body) /\ s[i].body # <<>>
  /\ \A i, j \in 1 .. Len(s) : i # j => Characters(s[i].body) \cap Characters(s[j].body) = {}

LEMMA SectionsAre ==
  ASSUME NEW doc, IsDocument(doc)
  PROVE  SectionsOf(Sections(doc))
<1> DEFINE H == Range(doc.headings)
           P == {i \in DOMAIN doc.headings : doc.headings[i].body # <<>>}
           pre == [title |-> IF doc.headings = <<>> THEN "Document" ELSE "Front Matter",
                   level |-> 1, body |-> doc.preamble]
           A == IF doc.preamble = <<>> THEN <<>> ELSE <<pre>>
           B == Chosen(doc.headings, P)
           order == Ascending(P)
           m == Len(A)
           n == Cardinality(P)
           s == A \o B
           W == H \cup {pre}
<1>1. /\ IsBody(doc.preamble) /\ doc.headings \in Seq(H)
      /\ \A h \in H : h.level \in Nat /\ IsBody(h.body)
                      /\ Characters(doc.preamble) \cap Characters(h.body) = {}
      /\ \A i, j \in DOMAIN doc.headings :
           i # j => Characters(doc.headings[i].body) \cap Characters(doc.headings[j].body) = {}
  BY DEF IsDocument
<1>2. P \in SUBSET (DOMAIN doc.headings)
  OBVIOUS
<1>3. \A i \in P : doc.headings[i].body # <<>> /\ doc.headings[i] \in H /\ i \in DOMAIN doc.headings
  BY DEF Range
<1>4. Sections(doc) = s
  BY DEF Sections
<1>5. /\ A \in Seq({pre}) /\ m \in 0 .. 1 /\ m = Len(A)
      /\ \A i \in 1 .. m : i = 1 /\ A[i] = pre /\ doc.preamble # <<>>
  <2>1. CASE doc.preamble = <<>>
    BY <2>1
  <2>2. CASE doc.preamble # <<>>
    <3>1. A = <<pre>>
      BY <2>2
    <3> HIDE DEF A, pre
    <3>2. QED
      BY <2>2, <3>1
  <2>3. QED
    BY <2>1, <2>2
<1>6. pre.level = 1 /\ pre.body = doc.preamble
  OBVIOUS
<1> HIDE DEF H, P, A, pre
<1>7. /\ n \in Nat /\ B \in Seq(H) /\ Len(B) = n /\ order \in [1 .. n -> P]
      /\ \A k \in 1 .. n : B[k] = doc.headings[order[k]]
      /\ \A j, k \in 1 .. n : j < k <=> order[j] < order[k]
  BY <1>1, <1>2, ChosenPlaces
<1> HIDE DEF B, order, n, m
<1>8. A \in Seq(W) /\ B \in Seq(W)
  BY <1>5, <1>7
<1> HIDE DEF W
<1>9. /\ s \in Seq(W) /\ Len(s) = m + n /\ DOMAIN s = 1 .. m + n
      /\ \A i \in 1 .. m : s[i] = A[i]
      /\ \A i \in m + 1 .. m + n : i - m \in 1 .. n /\ s[i] = B[i - m]
  BY <1>5, <1>7, <1>8
<1> HIDE DEF s
<1>10. \A i \in 1 .. m + n : i \in 1 .. m \/ i \in m + 1 .. m + n
  BY <1>5, <1>7
<1>11. \A i \in 1 .. m : s[i] = pre /\ doc.preamble # <<>> /\ i = 1
  BY <1>5, <1>9
<1>12. \A i \in m + 1 .. m + n : /\ i - m \in 1 .. n /\ order[i - m] \in P
                                 /\ s[i] = doc.headings[order[i - m]]
  BY <1>7, <1>9
<1>13. ASSUME NEW i \in 1 .. m + n
       PROVE  s[i].level \in Nat /\ IsBody(s[i].body) /\ s[i].body # <<>>
  <2>1. CASE i \in 1 .. m
    BY <1>1, <1>6, <1>11, <2>1
  <2>2. CASE i \in m + 1 .. m + n
    BY <1>1, <1>3, <1>12, <2>2
  <2>3. QED
    BY <1>10, <2>1, <2>2
<1>14. ASSUME NEW i \in m + 1 .. m + n, NEW j \in m + 1 .. m + n, i # j
       PROVE  Characters(s[i].body) \cap Characters(s[j].body) = {}
  <2>1. i - m \in 1 .. n /\ j - m \in 1 .. n /\ i - m # j - m
    BY <1>5, <1>12, <1>14
  <2>2. (i - m < j - m \/ j - m < i - m) /\ order[i - m] \in DOMAIN doc.headings
        /\ order[j - m] \in DOMAIN doc.headings
    BY <1>3, <1>12, <2>1
  <2>3. DOMAIN doc.headings = 1 .. Len(doc.headings)
    BY <1>1
  <2>4. order[i - m] # order[j - m]
    BY <1>7, <2>1, <2>2, <2>3
  <2>5. QED
    BY <1>1, <1>12, <2>2, <2>4
<1>15. ASSUME NEW i \in 1 .. m, NEW j \in m + 1 .. m + n
       PROVE  Characters(s[i].body) \cap Characters(s[j].body) = {}
  BY <1>1, <1>3, <1>6, <1>11, <1>12
<1>16. ASSUME NEW i \in 1 .. m + n, NEW j \in 1 .. m + n, i # j
       PROVE  Characters(s[i].body) \cap Characters(s[j].body) = {}
  <2>1. CASE i \in 1 .. m /\ j \in 1 .. m
    BY <1>11, <1>16, <2>1
  <2>2. CASE i \in 1 .. m /\ j \in m + 1 .. m + n
    BY <1>15, <2>2
  <2>3. CASE i \in m + 1 .. m + n /\ j \in 1 .. m
    BY <1>15, <2>3
  <2>4. CASE i \in m + 1 .. m + n /\ j \in m + 1 .. m + n
    BY <1>14, <1>16, <2>4
  <2>5. QED
    BY <1>10, <2>1, <2>2, <2>3, <2>4
<1>17. s \in Seq(Range(s))
  <2> DEFINE R == Range(s)
  <2>1. \A i \in 1 .. m + n : s[i] \in R
    BY <1>9 DEF Range
  <2> HIDE DEF R
  <2>2. s \in Seq(R)
    BY <1>5, <1>7, <1>9, <2>1
  <2>3. QED
    BY <2>2 DEF R
<1>18. m + n \in Nat
  BY <1>5, <1>7
<1>19. SectionsOf(s)
  BY <1>9, <1>13, <1>16, <1>17, <1>18 DEF SectionsOf
<1>20. QED
  BY <1>4, <1>19

\* Choosing among what was chosen, and one more behind it.
LEMMA ChosenTwice ==
  ASSUME NEW V, NEW s \in Seq(V), NEW N \in SUBSET (DOMAIN s), NEW i \in DOMAIN s, \A j \in N : j < i,
         NEW keep \in SUBSET N, NEW Q \in SUBSET (DOMAIN Chosen(s, N)),
         \A k \in DOMAIN Chosen(s, N) : k \in Q <=> Ascending(N)[k] \in keep,
         NEW all, all = keep \cup {i}
  PROVE  Chosen(s, all) = Append(Chosen(Chosen(s, N), Q), s[i])
<1> DEFINE c == Cardinality(N)
           A == Ascending(N)
           stack == Chosen(s, N)
           d == Cardinality(Q)
           B == Ascending(Q)
           t == Chosen(stack, Q)
           g == [k \in 1 .. d + 1 |-> IF k <= d THEN A[B[k]] ELSE i]
<1>1. /\ c \in Nat /\ stack \in Seq(V) /\ Len(stack) = c /\ A \in [1 .. c -> N]
      /\ \A k \in 1 .. c : stack[k] = s[A[k]]
      /\ \A j \in N : \E k \in 1 .. c : A[k] = j
      /\ \A j, k \in 1 .. c : j < k <=> A[j] < A[k]
  BY ChosenPlaces
<1>2. Q \in SUBSET (DOMAIN stack) /\ (\A k \in DOMAIN stack : k \in Q <=> A[k] \in keep)
  OBVIOUS
<1> HIDE DEF stack, A, c
<1>3. DOMAIN stack = 1 .. c /\ Q \in SUBSET (1 .. c)
  BY <1>1, <1>2
<1>4. /\ d \in Nat /\ t \in Seq(V) /\ Len(t) = d /\ B \in [1 .. d -> Q]
      /\ \A k \in 1 .. d : t[k] = stack[B[k]]
      /\ \A j \in Q : \E k \in 1 .. d : B[k] = j
      /\ \A j, k \in 1 .. d : j < k <=> B[j] < B[k]
  <2>1. stack \in Seq(V)
    BY <1>1
  <2>2. Q \in SUBSET (DOMAIN stack)
    BY <1>2
  <2>3. QED
    BY ONLY <2>1, <2>2, ChosenPlaces
<1> HIDE DEF t, B, d
<1>5. DOMAIN s = 1 .. Len(s) /\ Len(s) \in Nat
  OBVIOUS
<1>6. \A k \in 1 .. d : B[k] \in 1 .. c /\ A[B[k]] \in keep /\ g[k] = A[B[k]]
  <2>1. \A k \in 1 .. d : B[k] \in Q
    BY <1>4
  <2>2. \A k \in 1 .. d : k \in 1 .. d + 1 /\ k <= d
    BY <1>4
  <2>3. QED
    BY <1>2, <1>3, <2>1, <2>2
<1>7. d + 1 \in 1 .. d + 1 /\ g[d + 1] = i /\ d + 1 \in Nat
  BY <1>4
<1>8. \A k \in 1 .. d + 1 : k \in 1 .. d \/ k = d + 1
  BY <1>4
<1>9. all \in SUBSET Int /\ g \in [1 .. d + 1 -> all] /\ DOMAIN g = 1 .. d + 1
  <2>1. all \in SUBSET Int
    BY <1>5
  <2>2. \A k \in 1 .. d + 1 : g[k] \in all
    BY <1>6, <1>7, <1>8
  <2>3. QED
    BY <2>1, <2>2
<1>10. \A j, k \in 1 .. d + 1 : j < k => g[j] < g[k]
  <2> SUFFICES ASSUME NEW j \in 1 .. d + 1, NEW k \in 1 .. d + 1, j < k PROVE g[j] < g[k]
    OBVIOUS
  <2>1. j \in 1 .. d
    BY <1>4
  <2>2. CASE k \in 1 .. d
    <3>1. B[j] < B[k] /\ B[j] \in 1 .. c /\ B[k] \in 1 .. c
      BY <1>4, <1>6, <2>1, <2>2
    <3>2. A[B[j]] < A[B[k]]
      BY <1>1, <3>1
    <3>3. QED
      BY <1>6, <2>1, <2>2, <3>2
  <2>3. CASE k = d + 1
    <3>1. g[j] \in N
      BY <1>6, <2>1
    <3>2. QED
      BY <1>7, <2>3, <3>1
  <2>4. QED
    BY <1>8, <2>2, <2>3
<1>11. \A j \in all : \E k \in 1 .. d + 1 : g[k] = j
  <2> SUFFICES ASSUME NEW j \in all PROVE \E k \in 1 .. d + 1 : g[k] = j
    OBVIOUS
  <2>1. CASE j = i
    BY <1>7, <2>1
  <2>2. CASE j \in keep
    <3>1. PICK k \in 1 .. c : A[k] = j
      BY <1>1, <2>2
    <3>2. k \in Q
      BY <1>2, <1>3, <2>2, <3>1
    <3>3. PICK l \in 1 .. d : B[l] = k
      BY <1>4, <3>2
    <3>4. g[l] = j /\ l \in 1 .. d + 1
      BY <1>4, <1>6, <3>1, <3>3
    <3>5. QED
      BY <3>4
  <2>3. QED
    BY <2>1, <2>2
<1> HIDE DEF g
<1>12. Chosen(s, all) = [k \in 1 .. d + 1 |-> s[g[k]]]
  <2> DEFINE D == d + 1
  <2>1. D \in Nat
    BY <1>7
  <2>2. g \in [1 .. D -> all]
    BY <1>9
  <2>3. \A j, k \in 1 .. D : j < k => g[j] < g[k]
    BY <1>10
  <2>4. \A j \in all : \E k \in 1 .. D : g[k] = j
    BY <1>11
  <2>5. all \in SUBSET Int
    BY <1>9
  <2> HIDE DEF D
  <2>6. Chosen(s, all) = [k \in 1 .. D |-> s[g[k]]]
    BY ONLY <2>1, <2>2, <2>3, <2>4, <2>5, ChosenInOrder
  <2>7. QED
    BY <2>6 DEF D
<1> DEFINE u == Append(t, s[i])
<1>13. u = [k \in 1 .. d + 1 |-> u[k]]
  <2>1. u \in Seq(V) /\ Len(u) = d + 1
    BY <1>4, <1>5
  <2>2. DOMAIN u = 1 .. d + 1
    BY <2>1
  <2> HIDE DEF u
  <2>3. u = [k \in DOMAIN u |-> u[k]]
    BY <2>1
  <2>4. QED
    BY <2>2, <2>3
<1>14. \A k \in 1 .. d + 1 : u[k] = s[g[k]]
  <2> SUFFICES ASSUME NEW k \in 1 .. d + 1 PROVE u[k] = s[g[k]]
    OBVIOUS
  <2>1. CASE k \in 1 .. d
    <3>1. u[k] = t[k]
      BY <1>4, <2>1
    <3>2. t[k] = s[A[B[k]]]
      BY <1>1, <1>4, <1>6, <2>1
    <3>3. QED
      BY <1>6, <2>1, <3>1, <3>2
  <2>2. CASE k = d + 1
    BY <1>4, <1>7, <2>2
  <2>3. QED
    BY <1>8, <2>1, <2>2
<1> HIDE DEF u
<1>15. u = Chosen(s, all)
  BY <1>12, <1>13, <1>14
<1>16. QED
  BY <1>15 DEF u, t, stack

\* The sections that section i is nested in, itself the last.
Nest(s, i) == {j \in DOMAIN s : j <= i /\ \A k \in (j + 1) .. i : s[k].level > s[j].level}

LEMMA NestingGrows ==
  ASSUME NEW s, SectionsOf(s), NEW i \in 1 .. Len(s)
  PROVE  Pushed(Chosen(s, Nest(s, i - 1)), s[i]) = Chosen(s, Nest(s, i))
<1> DEFINE V == Range(s)
           N == Nest(s, i - 1)
           stack == Chosen(s, N)
           A == Ascending(N)
           c == Cardinality(N)
           Q == {k \in DOMAIN stack : stack[k].level < s[i].level}
           keep == {j \in N : s[j].level < s[i].level}
           all == Nest(s, i)
<1>1. s \in Seq(V) /\ Len(s) \in Nat /\ DOMAIN s = 1 .. Len(s) /\ \A j \in 1 .. Len(s) : s[j].level \in Nat
  BY DEF SectionsOf
<1>2. N \in SUBSET (DOMAIN s) /\ i \in DOMAIN s /\ \A j \in N : j < i
  BY <1>1 DEF Nest
<1>3. keep \in SUBSET N /\ Q \in SUBSET (DOMAIN Chosen(s, N))
  OBVIOUS
<1>4. all = keep \cup {i}
  <2>1. ASSUME NEW j \in all PROVE j \in keep \cup {i}
    <3>1. j \in DOMAIN s /\ j <= i /\ \A k \in (j + 1) .. i : s[k].level > s[j].level
      BY DEF Nest
    <3>2. CASE j = i
      BY <3>2
    <3>3. CASE j # i
      <4>1. i \in (j + 1) .. i /\ j <= i - 1 /\ \A k \in (j + 1) .. i - 1 : k \in (j + 1) .. i
        BY <1>1, <3>1, <3>3
      <4>2. j \in N
        BY <3>1, <4>1 DEF Nest
      <4>3. s[j].level < s[i].level
        BY <1>1, <3>1, <4>1
      <4>4. QED
        BY <4>2, <4>3
    <3>4. QED
      BY <3>2, <3>3
  <2>2. ASSUME NEW j \in keep PROVE j \in all
    <3>1. j \in DOMAIN s /\ j <= i - 1 /\ (\A k \in (j + 1) .. i - 1 : s[k].level > s[j].level)
          /\ s[j].level < s[i].level
      BY DEF Nest
    <3>2. j <= i /\ \A k \in (j + 1) .. i : k \in (j + 1) .. i - 1 \/ k = i
      BY <1>1, <3>1
    <3>3. \A k \in (j + 1) .. i : s[k].level > s[j].level
      BY <1>1, <3>1, <3>2
    <3>4. QED
      BY <3>1, <3>2, <3>3 DEF Nest
  <2>3. i \in all
    BY <1>1 DEF Nest
  <2> HIDE DEF all, keep
  <2>4. QED
    BY <2>1, <2>2, <2>3
<1> HIDE DEF V, N, all
<1>5. /\ c \in Nat /\ stack \in Seq(V) /\ Len(stack) = c /\ A \in [1 .. c -> N]
      /\ \A k \in 1 .. c : stack[k] = s[A[k]]
  BY <1>1, <1>2, ChosenPlaces
<1>6. \A k \in DOMAIN Chosen(s, N) : k \in Q <=> Ascending(N)[k] \in keep
  <2>1. DOMAIN stack = 1 .. c
    BY <1>5
  <2> HIDE DEF c
  <2>2. \A k \in DOMAIN stack : A[k] \in N /\ stack[k] = s[A[k]]
    BY <1>5, <2>1
  <2> HIDE DEF stack, A
  <2>3. \A k \in DOMAIN stack : k \in Q <=> A[k] \in keep
    BY <2>2
  <2>4. QED
    BY <2>3 DEF stack, A
<1> HIDE DEF keep
<1>7. Pushed(stack, s[i]) = Append(Chosen(stack, Q), s[i])
  BY DEF Pushed
<1> HIDE DEF Q
<1>8. Chosen(s, all) = Append(Chosen(Chosen(s, N), Q), s[i])
  <2> HIDE DEF stack, A, c
  <2>1. QED
    BY ONLY <1>1, <1>2, <1>3, <1>4, <1>6, ChosenTwice DEF stack, A
<1>9. QED
  BY <1>7, <1>8 DEF N, all

PathTo(s, j) == [k \in DOMAIN Chosen(s, Nest(s, j)) |-> Chosen(s, Nest(s, j))[k].title]
KeptOf(s, j) == Kept(Parts(s[j].body))

\* A chunk of section j.
IsChunk(s, j, chunk) ==
  /\ chunk.path = PathTo(s, j)
  /\ \E m \in 1 .. Len(KeptOf(s, j)) : chunk.content = KeptOf(s, j)[m]

Titles(s) == {s[j].title : j \in 1 .. Len(s)}
Contents(s) == UNION {Range(KeptOf(s, j)) : j \in 1 .. Len(s)}
Pieces(s) == [content : Contents(s), path : Seq(Titles(s))]
ChunkState(s) == [stack : Seq(Range(s)), chunks : Seq(Pieces(s))]

\* The chunks of the first i sections.
ChunkInv(s, acc, i) ==
  /\ acc.stack = Chosen(s, Nest(s, i))
  /\ \A k \in DOMAIN acc.chunks : \E j \in 1 .. i : IsChunk(s, j, acc.chunks[k])
  /\ \A j \in 1 .. i : \A m \in 1 .. Len(KeptOf(s, j)) :
       \E k \in DOMAIN acc.chunks : acc.chunks[k].content = KeptOf(s, j)[m]

LEMMA SectionsAreChunked ==
  ASSUME ChunkingAssumption, NEW s, SectionsOf(s), NEW i \in 1 .. Len(s)
  PROVE  /\ Len(KeptOf(s, i)) \in Nat /\ DOMAIN KeptOf(s, i) = 1 .. Len(KeptOf(s, i))
         /\ ChunkedInto(s[i].body, KeptOf(s, i))
<1>1. IsBody(s[i].body) /\ s[i].body # <<>>
  BY DEF SectionsOf
<1>2. ChunkedInto(s[i].body, KeptOf(s, i))
  BY <1>1, BodyIsChunked DEF KeptOf
<1>3. QED
  BY <1>2 DEF ChunkedInto

\* What one section adds.
LEMMA SectionAdds ==
  ASSUME ChunkingAssumption, NEW s, SectionsOf(s), NEW acc \in ChunkState(s), NEW i \in 1 .. Len(s),
         NEW new, new = AddSection(acc, s[i])
  PROVE  /\ new \in ChunkState(s) /\ new.stack = Pushed(acc.stack, s[i])
         /\ DOMAIN acc.chunks \subseteq DOMAIN new.chunks
         /\ \A k \in DOMAIN acc.chunks : new.chunks[k] = acc.chunks[k]
         /\ \A k \in DOMAIN new.chunks \ DOMAIN acc.chunks : \E m \in 1 .. Len(KeptOf(s, i)) :
              /\ new.chunks[k].content = KeptOf(s, i)[m]
              /\ new.chunks[k].path = [l \in DOMAIN new.stack |-> new.stack[l].title]
         /\ \A m \in 1 .. Len(KeptOf(s, i)) : \E k \in DOMAIN new.chunks :
              new.chunks[k].content = KeptOf(s, i)[m]
<1> DEFINE R == Range(s)
           E == Pieces(s)
           kept == KeptOf(s, i)
           L == Len(kept)
           old == acc.stack
           Q == {k \in DOMAIN old : old[k].level < s[i].level}
           stack == Pushed(old, s[i])
           path == [l \in DOMAIN stack |-> stack[l].title]
           a == acc.chunks
           b == [k \in DOMAIN kept |-> [content |-> kept[k], path |-> path]]
           c == a \o b
<1>1. new.stack = stack /\ new.chunks = c /\ new = [stack |-> stack, chunks |-> c]
  BY DEF AddSection, KeptOf
<1>2. old \in Seq(R) /\ a \in Seq(E)
  BY DEF ChunkState
<1>3. L \in Nat /\ DOMAIN kept = 1 .. L
  BY SectionsAreChunked
<1>4. s[i] \in R /\ DOMAIN s = 1 .. Len(s) /\ \A x \in R : x.title \in Titles(s)
  BY DEF SectionsOf, Range, Titles
<1>5. stack \in Seq(R)
  <2>1. Q \in SUBSET (DOMAIN old)
    OBVIOUS
  <2>2. stack = Append(Chosen(old, Q), s[i])
    BY DEF Pushed
  <2> HIDE DEF R, Q, old, stack
  <2>3. Chosen(old, Q) \in Seq(R)
    BY ONLY <1>2, <2>1, ChosenPlaces
  <2>4. QED
    BY <1>4, <2>2, <2>3
<1> HIDE DEF stack
<1>6. path \in Seq(Titles(s))
  <2>1. DOMAIN stack = 1 .. Len(stack) /\ Len(stack) \in Nat
    BY <1>5
  <2>2. \A l \in DOMAIN stack : stack[l] \in R
    <3> HIDE DEF R
    <3>1. QED
      BY <1>5
  <2>3. \A l \in 1 .. Len(stack) : stack[l].title \in Titles(s)
    BY <1>4, <2>1, <2>2
  <2> DEFINE N == Len(stack)
             T == Titles(s)
             F(l) == stack[l].title
  <2>4. path = [l \in 1 .. N |-> F(l)]
    BY <2>1
  <2>5. N \in Nat /\ \A l \in 1 .. N : F(l) \in T
    BY <2>1, <2>3
  <2> HIDE DEF N, F, T, path
  <2>6. [l \in 1 .. N |-> F(l)] \in [1 .. N -> T]
    BY <2>5
  <2>7. QED
    BY <2>4, <2>5, <2>6 DEF T
<1> HIDE DEF path
<1>7. \A k \in DOMAIN kept : kept[k] \in Contents(s)
  BY DEF Contents, Range
<1>8. /\ b \in Seq(E) /\ Len(b) = L
      /\ \A k \in 1 .. L : b[k].content = kept[k] /\ b[k].path = path
  <2>1. \A k \in 1 .. L : [content |-> kept[k], path |-> path] \in E
    BY <1>3, <1>6, <1>7 DEF Pieces
  <2> HIDE DEF E, kept, L
  <2>2. b \in [1 .. L -> E] /\ \A k \in 1 .. L : b[k].content = kept[k] /\ b[k].path = path
    BY <1>3, <2>1
  <2> HIDE DEF b
  <2>3. QED
    BY <1>3, <2>2
<1> HIDE DEF b, a, E, L, kept
<1> DEFINE m == Len(a)
<1>9. m \in Nat /\ DOMAIN a = 1 .. m /\ m = Len(a)
  BY <1>2
<1>10. /\ c \in Seq(E) /\ DOMAIN c = 1 .. m + L
       /\ \A k \in 1 .. m : c[k] = a[k]
       /\ \A k \in 1 .. L : m + k \in 1 .. m + L /\ c[m + k] = b[k]
  <2> HIDE DEF m
  <2>1. /\ c \in Seq(E) /\ Len(c) = Len(a) + Len(b) /\ DOMAIN c = 1 .. Len(a) + Len(b)
        /\ \A k \in 1 .. Len(a) : c[k] = a[k]
    <3>1. a \in Seq(E) /\ b \in Seq(E)
      BY <1>2, <1>8
    <3>2. c \in Seq(E) /\ Len(c) = Len(a) + Len(b)
      BY ONLY <3>1
    <3>3. \A k \in 1 .. Len(a) : c[k] = a[k]
      BY ONLY <3>1
    <3>4. DOMAIN c = 1 .. Len(c)
      <4> HIDE DEF c
      <4>1. QED
        BY <3>2
    <3>5. QED
      BY <3>2, <3>3, <3>4
  <2>2. \A k \in 1 .. Len(b) : Len(a) + k \in 1 .. Len(a) + Len(b) /\ c[Len(a) + k] = b[k]
    BY <1>2, <1>3, <1>8, <1>9
  <2>3. QED
    BY <1>8, <1>9, <2>1, <2>2
<1> HIDE DEF c, m
<1>11. new \in ChunkState(s)
  BY <1>1, <1>5, <1>10 DEF ChunkState, E
<1>12. \A k \in 1 .. m : k \in 1 .. m + L
  BY <1>3, <1>9
<1>13. ASSUME NEW k \in DOMAIN c \ DOMAIN a
       PROVE  \E l \in 1 .. L : c[k].content = kept[l] /\ c[k].path = path
  <2>1. k - m \in 1 .. L /\ m + (k - m) = k
    BY <1>3, <1>9, <1>10
  <2>2. c[k] = b[k - m]
    BY <1>10, <2>1
  <2>3. QED
    BY <1>8, <2>1, <2>2
<1>14. ASSUME NEW l \in 1 .. L PROVE \E k \in DOMAIN c : c[k].content = kept[l]
  BY <1>8, <1>10
<1>15. DOMAIN a \subseteq DOMAIN c /\ \A k \in DOMAIN a : c[k] = a[k]
  BY <1>9, <1>10, <1>12
<1>16. path = [l \in DOMAIN new.stack |-> new.stack[l].title]
  BY <1>1 DEF path
<1>17. \A k \in DOMAIN new.chunks \ DOMAIN acc.chunks : \E l \in 1 .. Len(KeptOf(s, i)) :
         /\ new.chunks[k].content = KeptOf(s, i)[l]
         /\ new.chunks[k].path = [j \in DOMAIN new.stack |-> new.stack[j].title]
  BY <1>1, <1>13, <1>16 DEF a, kept, L
<1>18. QED
  BY <1>1, <1>11, <1>14, <1>15, <1>17 DEF a, kept, L, stack, old

LEMMA SectionKeeps ==
  ASSUME ChunkingAssumption, NEW s, SectionsOf(s), NEW acc \in ChunkState(s), NEW i \in 1 .. Len(s),
         ChunkInv(s, acc, i - 1)
  PROVE  AddSection(acc, s[i]) \in ChunkState(s) /\ ChunkInv(s, AddSection(acc, s[i]), i)
<1> DEFINE new == AddSection(acc, s[i])
<1>1. /\ new \in ChunkState(s) /\ new.stack = Pushed(acc.stack, s[i])
      /\ DOMAIN acc.chunks \subseteq DOMAIN new.chunks
      /\ \A k \in DOMAIN acc.chunks : new.chunks[k] = acc.chunks[k]
      /\ \A k \in DOMAIN new.chunks \ DOMAIN acc.chunks : \E m \in 1 .. Len(KeptOf(s, i)) :
           /\ new.chunks[k].content = KeptOf(s, i)[m]
           /\ new.chunks[k].path = [l \in DOMAIN new.stack |-> new.stack[l].title]
      /\ \A m \in 1 .. Len(KeptOf(s, i)) : \E k \in DOMAIN new.chunks :
           new.chunks[k].content = KeptOf(s, i)[m]
  <2>1. new = AddSection(acc, s[i])
    OBVIOUS
  <2> HIDE DEF new
  <2>2. QED
    BY <2>1, SectionAdds, SMTT(20)
<1> HIDE DEF new
<1>2. acc.stack = Chosen(s, Nest(s, i - 1))
  BY DEF ChunkInv
<1>3. new.stack = Chosen(s, Nest(s, i))
  BY <1>1, <1>2, NestingGrows
<1>4. [l \in DOMAIN new.stack |-> new.stack[l].title] = PathTo(s, i)
  BY <1>3 DEF PathTo
<1>5. Len(s) \in Nat /\ i \in 1 .. i /\ \A j \in 1 .. i : j \in 1 .. i - 1 \/ j = i
  BY DEF SectionsOf
<1>6. \A j \in 1 .. i - 1 : j \in 1 .. i
  BY <1>5
<1>7. ASSUME NEW k \in DOMAIN new.chunks PROVE \E j \in 1 .. i : IsChunk(s, j, new.chunks[k])
  <2>1. CASE k \in DOMAIN acc.chunks
    <3>1. PICK j \in 1 .. i - 1 : IsChunk(s, j, acc.chunks[k])
      BY <2>1 DEF ChunkInv
    <3>2. QED
      BY <1>1, <1>6, <2>1, <3>1
  <2>2. CASE k \notin DOMAIN acc.chunks
    <3>1. IsChunk(s, i, new.chunks[k])
      BY <1>1, <1>4, <2>2 DEF IsChunk
    <3>2. QED
      BY <1>5, <3>1
  <2>3. QED
    BY <2>1, <2>2
<1>8. ASSUME NEW j \in 1 .. i, NEW m \in 1 .. Len(KeptOf(s, j))
      PROVE  \E k \in DOMAIN new.chunks : new.chunks[k].content = KeptOf(s, j)[m]
  <2>1. CASE j \in 1 .. i - 1
    <3>1. PICK k \in DOMAIN acc.chunks : acc.chunks[k].content = KeptOf(s, j)[m]
      BY <2>1 DEF ChunkInv
    <3>2. QED
      BY <1>1, <3>1
  <2>2. CASE j = i
    BY <1>1, <2>2
  <2>3. QED
    BY <1>5, <2>1, <2>2
<1>9. ChunkInv(s, new, i)
  BY <1>3, <1>7, <1>8 DEF ChunkInv
<1>10. QED
  BY <1>1, <1>9 DEF new

\* What the chunks of a document are.
ChunksMade(s, made) ==
  /\ \A k \in DOMAIN made : \E j \in 1 .. Len(s) : IsChunk(s, j, made[k])
  /\ \A j \in 1 .. Len(s) : \A m \in 1 .. Len(KeptOf(s, j)) :
       \E k \in DOMAIN made : made[k].content = KeptOf(s, j)[m]

NothingChunked == [stack |-> <<>>, chunks |-> <<>>]

LEMMA DocumentIsChunked ==
  ASSUME ChunkingAssumption, NEW doc, IsDocument(doc)
  PROVE  ChunksMade(Sections(doc), ChunksOf(doc))
<1> DEFINE s == Sections(doc)
           n == Len(s)
           V == ChunkState(s)
           R == Range(s)
           E == Pieces(s)
<1>1. SectionsOf(s)
  BY SectionsAre
<1>2. ChunksOf(doc) = FoldLeft(AddSection, NothingChunked, s).chunks
  BY DEF ChunksOf, NothingChunked
<1> HIDE DEF s
<1>3. s \in Seq(R) /\ n \in Nat
  BY <1>1 DEF SectionsOf
<1>4. n = Len(s)
  OBVIOUS
<1> HIDE DEF n, R
<1>5. NothingChunked \in V /\ ChunkInv(s, NothingChunked, 0)
  <2>1. Nest(s, 0) = {}
    BY <1>1 DEF SectionsOf, Nest
  <2> DEFINE none == {}
             c == Chosen(s, none)
  <2>2. none \in SUBSET (DOMAIN s) /\ Cardinality(none) = 0
    BY FS_EmptySet
  <2> HIDE DEF none
  <2>3. c \in Seq(R) /\ Len(c) = Cardinality(none)
    BY ONLY <1>3, <2>2, ChosenPlaces
  <2> HIDE DEF c
  <2>4. c = <<>>
    BY <2>2, <2>3
  <2>5. Chosen(s, Nest(s, 0)) = <<>>
    BY <2>1, <2>4 DEF c, none
  <2>6. NothingChunked.stack = <<>> /\ NothingChunked.chunks = <<>> /\ DOMAIN <<>> = {}
    BY DEF NothingChunked
  <2>7. ChunkInv(s, NothingChunked, 0)
    BY <2>5, <2>6 DEF ChunkInv
  <2>8. NothingChunked \in V
    <3> HIDE DEF E
    <3>1. <<>> \in Seq(R) /\ <<>> \in Seq(E)
      OBVIOUS
    <3>2. QED
      BY <3>1 DEF ChunkState, NothingChunked, R, E
  <2>9. QED
    BY <2>7, <2>8
<1>6. \A acc \in V, i \in 1 .. n : AddSection(acc, s[i]) \in V
  <2> SUFFICES ASSUME NEW acc \in V, NEW i \in 1 .. n PROVE AddSection(acc, s[i]) \in V
    OBVIOUS
  <2> DEFINE new == AddSection(acc, s[i])
  <2>1. new = AddSection(acc, s[i]) /\ i \in 1 .. Len(s)
    BY <1>4
  <2> HIDE DEF new
  <2>2. new \in ChunkState(s)
    BY <1>1, <2>1, SectionAdds
  <2>3. QED
    BY <2>2 DEF new
<1>7. PICK f \in [0 .. n -> V] : /\ f[0] = NothingChunked /\ f[n] = FoldLeft(AddSection, NothingChunked, s)
                                 /\ \A i \in 1 .. n : f[i] = AddSection(f[i - 1], s[i])
  <2> HIDE DEF V
  <2>1. \A acc \in V, i \in 1 .. Len(s) : AddSection(acc, s[i]) \in V
    BY <1>4, <1>6
  <2>2. NothingChunked \in V
    BY <1>5
  <2>3. s \in Seq(R)
    BY <1>3
  <2>4. \E f : SectionRun(f, V, NothingChunked, s)
    BY ONLY <2>1, <2>2, <2>3, SectionSteps
  <2>5. QED
    BY <1>4, <2>4 DEF SectionRun
<1> DEFINE T == {i \in 0 .. n : ChunkInv(s, f[i], i)}
<1>8. 0 \in T
  BY <1>3, <1>5, <1>7
<1>9. \A i \in 1 .. n : i - 1 \in T => i \in T
  <2> SUFFICES ASSUME NEW i \in 1 .. n, i - 1 \in T PROVE i \in T
    OBVIOUS
  <2>1. ChunkInv(s, f[i - 1], i - 1) /\ f[i - 1] \in ChunkState(s) /\ i \in 1 .. Len(s)
    BY <1>3, <1>4
  <2>2. f[i] = AddSection(f[i - 1], s[i])
    BY <1>7
  <2>3. ChunkInv(s, f[i], i)
    BY <1>1, <2>1, <2>2, SectionKeeps
  <2>4. QED
    BY <2>3
<1> HIDE DEF T
<1>10. \A i \in 0 .. n : i \in T
  BY <1>3, <1>8, <1>9, InductionTo
<1>11. ChunkInv(s, f[n], n)
  BY <1>3, <1>10 DEF T
<1>12. f[n].chunks = ChunksOf(doc)
  BY <1>2, <1>7
<1>13. ChunksMade(s, ChunksOf(doc))
  BY <1>4, <1>11, <1>12 DEF ChunkInv, ChunksMade
<1>14. QED
  BY <1>13 DEF s

\* A chunk holds characters of its section, and so of no other.
LEMMA ChunksAreOwned ==
  ASSUME ChunkingAssumption, NEW s, SectionsOf(s), NEW made, ChunksMade(s, made), NEW k \in DOMAIN made
  PROVE  \E j \in 1 .. Len(s) :
           /\ made[k].path = PathTo(s, j)
           /\ Held(made[k].content) \subseteq Characters(s[j].body)
           /\ Len(made[k].content) <= BoundOf(s[j].body)
           /\ \A i \in 1 .. Len(s) : Held(made[k].content) \subseteq Characters(s[i].body) => i = j
<1>1. PICK j \in 1 .. Len(s) : IsChunk(s, j, made[k])
  BY DEF ChunksMade
<1>2. PICK m \in 1 .. Len(KeptOf(s, j)) : made[k].content = KeptOf(s, j)[m]
  BY <1>1 DEF IsChunk
<1>3. ChunkedInto(s[j].body, KeptOf(s, j))
  BY SectionsAreChunked
<1>4. /\ Held(made[k].content) # {} /\ Held(made[k].content) \subseteq Characters(s[j].body)
      /\ Len(made[k].content) <= BoundOf(s[j].body)
  BY <1>2, <1>3 DEF ChunkedInto
<1>5. \A i \in 1 .. Len(s) : i # j => Characters(s[i].body) \cap Characters(s[j].body) = {}
  BY DEF SectionsOf
<1>6. QED
  BY <1>1, <1>4, <1>5 DEF IsChunk

LEMMA NothingIsLost ==
  ASSUME ChunkingAssumption, IsDocument(document), chunks = ChunksOf(document)
  PROVE  NoSectionIsLost
<1> DEFINE s == Sections(document)
<1>1. SectionsOf(s) /\ ChunksMade(s, chunks)
  BY SectionsAre, DocumentIsChunked
<1>2. DOMAIN s = 1 .. Len(s)
  BY <1>1 DEF SectionsOf
<1> HIDE DEF s
<1>3. ASSUME NEW i \in DOMAIN s
      PROVE  LET section == s[i]
                 own == {k \in DOMAIN chunks : Held(chunks[k].content) \subseteq Characters(section.body)}
                 slivers == {k \in DOMAIN Parts(section.body) : Len(Parts(section.body)[k]) < MinChunkChars}
             IN  /\ own # {}
                 /\ Characters(section.body) \subseteq
                      (UNION {Held(chunks[k].content) : k \in own})
                      \cup (UNION {Held(Parts(section.body)[k]) : k \in slivers})
  <2> DEFINE body == s[i].body
             kept == KeptOf(s, i)
             own == {k \in DOMAIN chunks : Held(chunks[k].content) \subseteq Characters(body)}
             slivers == {k \in DOMAIN Parts(body) : Len(Parts(body)[k]) < MinChunkChars}
  <2>1. ChunkedInto(body, kept)
    BY <1>1, <1>2, SectionsAreChunked
  <2>2. ASSUME NEW m \in 1 .. Len(kept) PROVE \E k \in own : chunks[k].content = kept[m]
    <3>1. PICK k \in DOMAIN chunks : chunks[k].content = kept[m]
      BY <1>1, <1>2 DEF ChunksMade
    <3>2. Held(kept[m]) \subseteq Characters(body)
      BY <2>1 DEF ChunkedInto
    <3>3. QED
      BY <3>1, <3>2
  <2>3. 1 \in 1 .. Len(kept)
    BY <2>1 DEF ChunkedInto
  <2> HIDE DEF body, kept
  <2>4. own # {}
    BY <2>2, <2>3
  <2>5. ASSUME NEW c \in Characters(body)
        PROVE  (\E k \in own : c \in Held(chunks[k].content)) \/ (\E k \in slivers : c \in Held(Parts(body)[k]))
    <3>1. CASE \E m \in 1 .. Len(kept) : c \in Held(kept[m])
      <4>1. PICK m \in 1 .. Len(kept) : c \in Held(kept[m])
        BY <3>1
      <4>2. PICK k \in own : chunks[k].content = kept[m]
        BY <2>2
      <4>3. QED
        BY <4>1, <4>2
    <3>2. CASE \E k \in DOMAIN Parts(body) : Len(Parts(body)[k]) < MinChunkChars /\ c \in Held(Parts(body)[k])
      BY <3>2
    <3>3. QED
      BY <2>1, <3>1, <3>2 DEF ChunkedInto
  <2> HIDE DEF own, slivers
  <2>6. Characters(body) \subseteq (UNION {Held(chunks[k].content) : k \in own})
                                   \cup (UNION {Held(Parts(body)[k]) : k \in slivers})
    BY <2>5
  <2>7. QED
    BY <2>4, <2>6 DEF own, slivers, body
<1>4. QED
  BY <1>3 DEF NoSectionIsLost, s

LEMMA NothingIsTooLong ==
  ASSUME ChunkingAssumption, IsDocument(document), chunks = ChunksOf(document)
  PROVE  BudgetIsKept
<1> DEFINE s == Sections(document)
<1>1. SectionsOf(s) /\ ChunksMade(s, chunks)
  BY SectionsAre, DocumentIsChunked
<1>2. DOMAIN s = 1 .. Len(s)
  BY <1>1 DEF SectionsOf
<1> HIDE DEF s
<1>3. ASSUME NEW k \in DOMAIN chunks, NEW i \in DOMAIN s,
             Held(chunks[k].content) \subseteq Characters(s[i].body)
      PROVE  Len(chunks[k].content) <= BoundOf(s[i].body)
  <2>1. \E j \in 1 .. Len(s) :
          /\ chunks[k].path = PathTo(s, j)
          /\ Held(chunks[k].content) \subseteq Characters(s[j].body)
          /\ Len(chunks[k].content) <= BoundOf(s[j].body)
          /\ \A l \in 1 .. Len(s) : Held(chunks[k].content) \subseteq Characters(s[l].body) => l = j
    BY <1>1, ChunksAreOwned
  <2>2. QED
    BY <1>2, <1>3, <2>1
<1>4. QED
  BY <1>3 DEF BudgetIsKept, BoundOf, s

LEMMA PathsAreRight ==
  ASSUME ChunkingAssumption, IsDocument(document), chunks = ChunksOf(document)
  PROVE  PathsNameTheNesting
<1> DEFINE s == Sections(document)
<1>1. SectionsOf(s) /\ ChunksMade(s, chunks)
  BY SectionsAre, DocumentIsChunked
<1>2. DOMAIN s = 1 .. Len(s)
  BY <1>1 DEF SectionsOf
<1> HIDE DEF s
<1>3. ASSUME NEW k \in DOMAIN chunks
      PROVE  \E i \in DOMAIN s : /\ Held(chunks[k].content) \subseteq Characters(s[i].body)
                                 /\ chunks[k].path = PathTo(s, i)
  <2>1. \E j \in 1 .. Len(s) :
          /\ chunks[k].path = PathTo(s, j)
          /\ Held(chunks[k].content) \subseteq Characters(s[j].body)
          /\ Len(chunks[k].content) <= BoundOf(s[j].body)
          /\ \A i \in 1 .. Len(s) : Held(chunks[k].content) \subseteq Characters(s[i].body) => i = j
    BY <1>1, ChunksAreOwned
  <2>2. QED
    BY <1>2, <2>1
<1>4. QED
  BY <1>3 DEF PathsNameTheNesting, PathTo, Nest, s

-----------------------------------------------------------------------------
(* The bibliography.                                                       *)

\* The lines between the last heading of a bibliography and what follows it.
Inside(text) ==
  {i \in DOMAIN text :
     /\ \E j \in DOMAIN text : text[j] = "references" /\ j < i
     /\ \A j \in i .. Len(text) : text[j] # "references"
     /\ \A j \in DOMAIN text :
          j <= i /\ text[j] = "appendix" => \E k \in j .. i : text[k] = "references"}

LEMMA SectionIs ==
  ASSUME NEW text \in Seq(LineKind)
  PROVE  /\ Section(text) = Inside(text)
         /\ Section(text) \in SUBSET (1 .. Len(text)) /\ IsFiniteSet(Section(text))
         /\ \A a, b \in Section(text) : \A c \in a .. b : c \in Section(text)
<1> DEFINE n == Len(text)
           heads == {i \in DOMAIN text : text[i] = "references"}
           last == CHOOSE i \in heads : \A j \in heads : j <= i
           after == last + 1 .. n
           S == {i \in after : \A j \in after : text[j] = "appendix" => i < j}
           I == Inside(text)
<1>1. n \in Nat /\ DOMAIN text = 1 .. n
  OBVIOUS
<1>2. Section(text) = IF heads = {} THEN {} ELSE S
  BY DEF Section
<1>3. IsFiniteSet(1 .. n)
  BY <1>1, FS_Interval
<1>4. CASE heads = {}
  <2>1. I = {}
    BY <1>4 DEF Inside
  <2>2. QED
    BY <1>2, <1>4, <2>1, FS_EmptySet
<1>5. CASE heads # {}
  <2>1. last \in heads /\ \A j \in heads : j <= last
    <3>1. heads \in SUBSET (1 .. n)
      BY <1>1
    <3>2. heads \in SUBSET Int /\ IsFiniteSet(heads)
      BY <1>3, <3>1, FS_Subset
    <3> HIDE DEF heads
    <3>3. \E x \in heads : \A y \in heads : x >= y
      BY <1>5, <3>2, ExtremesExist
    <3>4. \E x \in heads : \A y \in heads : y <= x
      BY <3>2, <3>3
    <3>5. QED
      BY <3>4
  <2>2. last \in 1 .. n /\ text[last] = "references" /\ last \in Int
    BY <1>1, <2>1
  <2>3. \A j \in 1 .. n : text[j] = "references" => j <= last
    BY <1>1, <2>1
  <2> HIDE DEF last, heads
  <2>4. \A i \in after : i \in 1 .. n /\ last < i
    BY <1>1, <2>2
  <2>5. ASSUME NEW i \in S PROVE i \in I
    <3>1. i \in 1 .. n /\ last < i
      BY <2>4
    <3>2. \A j \in i .. n : text[j] # "references"
      <4>1. \A j \in i .. n : j \in 1 .. n /\ ~ (j <= last)
        BY <1>1, <2>2, <3>1
      <4>2. QED
        BY <2>3, <4>1
    <3>3. ASSUME NEW j \in 1 .. n, j <= i, text[j] = "appendix"
          PROVE  \E k \in j .. i : text[k] = "references"
      <4>1. ~ (j \in after)
        <5>1. j \in after => i < j
          BY <3>3
        <5>2. QED
          BY <3>1, <3>3, <5>1
      <4>2. last \in j .. i
        BY <1>1, <2>2, <3>1, <4>1
      <4>3. QED
        BY <2>2, <4>2
    <3>4. QED
      BY <1>1, <2>2, <3>1, <3>2, <3>3 DEF Inside
  <2>6. ASSUME NEW i \in I PROVE i \in S
    <3>1. /\ i \in 1 .. n /\ (\E j \in 1 .. n : text[j] = "references" /\ j < i)
          /\ \A j \in i .. n : text[j] # "references"
          /\ \A j \in 1 .. n : j <= i /\ text[j] = "appendix" => \E k \in j .. i : text[k] = "references"
      BY <1>1 DEF Inside
    <3>2. last < i
      <4>1. last \notin i .. n
        BY <2>2, <3>1
      <4>2. QED
        BY <1>1, <2>2, <3>1, <4>1
    <3>3. i \in after
      BY <1>1, <2>2, <3>1, <3>2
    <3>4. ASSUME NEW j \in after, text[j] = "appendix" PROVE i < j
      <4> SUFFICES ASSUME j <= i PROVE FALSE
        BY <2>2, <3>1
      <4>1. j \in 1 .. n
        BY <2>4
      <4>2. PICK k \in j .. i : text[k] = "references"
        BY <3>1, <3>4, <4>1
      <4>3. k \in 1 .. n /\ last < k
        BY <1>1, <2>2, <2>4, <3>1, <4>1
      <4>4. QED
        BY <2>2, <2>3, <4>2, <4>3
    <3>5. QED
      BY <3>3, <3>4
  <2>7. \A a, b \in S : \A c \in a .. b : c \in S
    <3> SUFFICES ASSUME NEW a \in S, NEW b \in S, NEW c \in a .. b PROVE c \in S
      OBVIOUS
    <3>1. a \in after /\ b \in after /\ c \in after
      BY <1>1, <2>2
    <3>2. ASSUME NEW j \in after, text[j] = "appendix" PROVE c < j
      <4>1. b < j
        BY <3>2
      <4>2. QED
        BY <1>1, <2>2, <3>1, <4>1
    <3>3. QED
      BY <3>1, <3>2
  <2>8. S \in SUBSET (1 .. n)
    BY <2>4
  <2> HIDE DEF S, I
  <2>9. S = I
    BY <2>5, <2>6
  <2>10. IsFiniteSet(S)
    BY <1>3, <2>8, FS_Subset
  <2>11. QED
    BY <1>2, <1>5, <2>7, <2>8, <2>9, <2>10 DEF I
<1>6. QED
  BY <1>4, <1>5

\* Entries by where they start: at each marker, or behind each blank line.
Numbered(text, S) == Cardinality(Markers(text, S)) >= 2
StartsOf(text, S) ==
  IF Numbered(text, S) THEN Markers(text, S)
  ELSE {i \in S : text[i] # "blank" /\ (i - 1 \in S => text[i - 1] = "blank")}
EndsAt(text, S, j) == IF Numbered(text, S) THEN j \in Markers(text, S) ELSE text[j] = "blank"
EntryAt(text, S, i) == {j \in S : j >= i /\ \A k \in (i + 1) .. j : ~ EndsAt(text, S, k)}
BeginOf(e) == CHOOSE i \in e : \A j \in e : i <= j

LEMMA EntriesAre ==
  ASSUME NEW text, NEW S
  PROVE  Entries(text, S) = {EntryAt(text, S, i) : i \in StartsOf(text, S)}
<1>1. CASE Numbered(text, S)
  BY <1>1 DEF Entries, Numbered, StartsOf, EndsAt, EntryAt
<1>2. CASE ~ Numbered(text, S)
  BY <1>2 DEF Entries, Numbered, StartsOf, EndsAt, EntryAt
<1>3. QED
  BY <1>1, <1>2

\* An entry starts where it starts, and ends before the next.
LEMMA EntriesAreApart ==
  ASSUME NEW text, NEW S \in SUBSET Int, \A a, b \in S : \A c \in a .. b : c \in S,
         NEW i \in StartsOf(text, S)
  PROVE  /\ i \in S /\ i \in EntryAt(text, S, i) /\ EntryAt(text, S, i) \subseteq S
         /\ \A j \in EntryAt(text, S, i) : i <= j
         /\ BeginOf(EntryAt(text, S, i)) = i
         /\ \A j \in StartsOf(text, S) : i < j => EntryAt(text, S, i) \cap EntryAt(text, S, j) = {}
<1> DEFINE e == EntryAt(text, S, i)
<1>1. i \in S /\ i \in Int
  BY DEF StartsOf, Markers
<1>2. i \in e /\ e \subseteq S /\ \A j \in e : i <= j
  <2>1. (i + 1) .. i = {}
    BY <1>1
  <2>2. i \in e
    BY <1>1, <2>1 DEF EntryAt
  <2>3. QED
    BY <1>1, <2>2 DEF EntryAt
<1>3. BeginOf(e) = i
  <2> HIDE DEF e
  <2>1. \A x \in e : (\A j \in e : x <= j) => x = i
    BY <1>1, <1>2
  <2>2. QED
    BY <1>1, <1>2, <2>1 DEF BeginOf
<1>4. ASSUME NEW j \in StartsOf(text, S), i < j PROVE e \cap EntryAt(text, S, j) = {}
  <2> SUFFICES ASSUME NEW x \in e, x \in EntryAt(text, S, j) PROVE FALSE
    OBVIOUS
  <2>1. j \in S /\ j \in Int
    BY DEF StartsOf, Markers
  <2>2. x \in S /\ x >= j /\ x \in Int /\ \A k \in (i + 1) .. x : ~ EndsAt(text, S, k)
    BY DEF EntryAt
  <2>3. CASE Numbered(text, S)
    <3>1. j \in (i + 1) .. x
      BY <1>1, <1>4, <2>1, <2>2
    <3>2. EndsAt(text, S, j)
      BY <2>3 DEF StartsOf, EndsAt
    <3>3. QED
      BY <2>2, <3>1, <3>2
  <2>4. CASE ~ Numbered(text, S)
    <3>1. text[i] # "blank" /\ (j - 1 \in S => text[j - 1] = "blank")
      BY <2>4 DEF StartsOf
    <3>2. j - 1 \in i .. j
      BY <1>1, <1>4, <2>1
    <3>3. text[j - 1] = "blank"
      BY <1>1, <2>1, <3>1, <3>2
    <3>4. j - 1 # i
      BY <3>1, <3>3
    <3>5. j - 1 \in (i + 1) .. x
      BY <1>1, <2>1, <2>2, <3>2, <3>4
    <3>6. EndsAt(text, S, j - 1)
      BY <2>4, <3>3 DEF EndsAt
    <3>7. QED
      BY <2>2, <3>5, <3>6
  <2>5. QED
    BY <2>3, <2>4
<1>5. QED
  BY <1>1, <1>2, <1>3, <1>4

LongEntries(text) == {e \in Entries(text, Section(text)) : \E i \in e : text[i] \in Long}

\* The long entries start at places of their own.
LEMMA LongEntriesAre ==
  ASSUME NEW text \in Seq(LineKind)
  PROVE  /\ IsFiniteSet(LongEntries(text))
         /\ \A e \in LongEntries(text) : BeginOf(e) \in Int
         /\ \A e, f \in LongEntries(text) : BeginOf(e) = BeginOf(f) => e = f
         /\ \A e, f \in LongEntries(text) : e = f \/ e \cap f = {}
         /\ \A e \in LongEntries(text) : e \subseteq Section(text)
<1> DEFINE S == Section(text)
           starts == StartsOf(text, S)
           L == LongEntries(text)
<1>1. S \in SUBSET (1 .. Len(text)) /\ IsFiniteSet(S) /\ \A a, b \in S : \A c \in a .. b : c \in S
  BY SectionIs
<1>2. S \in SUBSET Int
  BY <1>1
<1>3. L \subseteq {EntryAt(text, S, i) : i \in starts}
  BY EntriesAre DEF LongEntries
<1> HIDE DEF S, L
<1>4. starts \subseteq S /\ IsFiniteSet(starts)
  <2>1. starts \subseteq S
    BY DEF StartsOf, Markers
  <2>2. QED
    BY <1>1, <2>1, FS_Subset
<1>5. \A i \in starts : /\ i \in S /\ EntryAt(text, S, i) \subseteq S
                        /\ BeginOf(EntryAt(text, S, i)) = i
                        /\ \A j \in starts : i < j => EntryAt(text, S, i) \cap EntryAt(text, S, j) = {}
  BY <1>1, <1>2, EntriesAreApart
<1> HIDE DEF starts
<1>6. IsFiniteSet(L)
  <2> DEFINE f == [i \in starts |-> EntryAt(text, S, i)]
  <2>1. DOMAIN f = starts /\ f = [i \in starts |-> f[i]]
    OBVIOUS
  <2>2. \A i \in starts : f[i] = EntryAt(text, S, i)
    OBVIOUS
  <2> HIDE DEF f
  <2>3. IsFiniteSet({f[i] : i \in starts})
    BY ONLY <1>4, <2>1, ImageIsFinite
  <2>4. L \subseteq {f[i] : i \in starts}
    BY <1>3, <2>2
  <2>5. QED
    BY <2>3, <2>4, FS_Subset
<1>7. \A e \in L : \E i \in starts : e = EntryAt(text, S, i)
  BY <1>3
<1>8. ASSUME NEW e \in L, NEW f \in L
      PROVE  /\ BeginOf(e) \in Int /\ e \subseteq S /\ (BeginOf(e) = BeginOf(f) => e = f)
             /\ (e = f \/ e \cap f = {})
  <2>1. PICK i \in starts : e = EntryAt(text, S, i)
    BY <1>7
  <2>2. PICK j \in starts : f = EntryAt(text, S, j)
    BY <1>7
  <2>3. BeginOf(e) = i /\ BeginOf(f) = j /\ i \in Int /\ j \in Int /\ e \subseteq S
    BY <1>2, <1>5, <2>1, <2>2
  <2>4. i = j \/ i < j \/ j < i
    BY <2>3
  <2>5. i < j \/ j < i => e \cap f = {}
    BY <1>5, <2>1, <2>2
  <2>6. QED
    BY <2>1, <2>2, <2>3, <2>4, <2>5
<1>9. QED
  BY <1>6, <1>8 DEF L, S

\* The references are the first of the long entries: all, or as many as there may be.
LEMMA ReferencesAreFirst ==
  ASSUME ChunkingAssumption, NEW text \in Seq(LineKind)
  PROVE  /\ ReferencesOf(text) \subseteq LongEntries(text)
         /\ Cardinality(ReferencesOf(text)) <= MaxReferences
         /\ Cardinality(ReferencesOf(text)) < MaxReferences => ReferencesOf(text) = LongEntries(text)
<1> DEFINE L == LongEntries(text)
           R == {x \in L \X L : BeginOf(x[1]) < BeginOf(x[2])}
           refs == ReferencesOf(text)
           M == MaxReferences
           f == [e \in refs |-> Cardinality(Below(L, R, e))]
           J == {f[e] : e \in refs}
<1>1. /\ IsFiniteSet(L) /\ \A e \in L : BeginOf(e) \in Int
      /\ \A e, g \in L : BeginOf(e) = BeginOf(g) => e = g
  BY LongEntriesAre
<1>2. M \in Nat
  BY DEF ChunkingAssumption
<1>3. refs = {e \in L : Cardinality({g \in L : BeginOf(g) < BeginOf(e)}) < M}
  BY DEF ReferencesOf, LongEntries, BeginOf
<1> HIDE DEF L
<1>4. \A e \in L : Below(L, R, e) = {g \in L : BeginOf(g) < BeginOf(e)}
  BY DEF Below
<1>5. Orders(R, L)
  <2>1. \A e \in L : <<e, e>> \notin R
    BY <1>1
  <2>2. \A e, g, h \in L : <<e, g>> \in R /\ <<g, h>> \in R => <<e, h>> \in R
    BY <1>1
  <2>3. \A e, g \in L : e = g \/ <<e, g>> \in R \/ <<g, e>> \in R
    BY <1>1
  <2>4. QED
    BY <2>1, <2>2, <2>3 DEF Orders
<1> HIDE DEF R, refs, M
<1>6. refs \subseteq L /\ \A e \in L : e \in refs <=> Cardinality(Below(L, R, e)) < M
  BY <1>3, <1>4
<1>7. /\ \A e \in L : Cardinality(Below(L, R, e)) \in 0 .. Cardinality(L) - 1
      /\ \A e, g \in L : Cardinality(Below(L, R, e)) = Cardinality(Below(L, R, g)) => e = g
      /\ \A k \in 0 .. Cardinality(L) - 1 : \E e \in L : Cardinality(Below(L, R, e)) = k
  BY <1>1, <1>5, PlacesAreCounted
<1>8. IsFiniteSet(refs) /\ Cardinality(L) \in Nat
  BY <1>1, <1>6, FS_Subset, FS_CardinalityType
<1>9. Cardinality(J) = Cardinality(refs)
  <2>1. DOMAIN f = refs /\ f = [e \in refs |-> f[e]] /\ \A e, g \in refs : f[e] = f[g] => e = g
    BY <1>6, <1>7
  <2> HIDE DEF f
  <2>2. QED
    BY ONLY <1>8, <2>1, DistinctImages
<1>10. \A e \in refs : f[e] = Cardinality(Below(L, R, e)) /\ f[e] \in 0 .. M - 1
  BY <1>2, <1>6, <1>7, <1>8
<1> HIDE DEF f
<1>11. J \subseteq 0 .. M - 1
  BY <1>10
<1>12. IsFiniteSet(0 .. M - 1) /\ Cardinality(0 .. M - 1) = M
  <2>1. 0 \in Int /\ M - 1 \in Int /\ 0 <= M
    BY <1>2
  <2>2. IsFiniteSet(0 .. M - 1) /\ Cardinality(0 .. M - 1) = IF 0 > M - 1 THEN 0 ELSE M - 1 - 0 + 1
    BY <2>1, FS_Interval
  <2>3. QED
    BY <1>2, <2>2
<1>13. Cardinality(refs) <= M
  <2> DEFINE D == 0 .. M - 1
  <2>1. IsFiniteSet(D) /\ Cardinality(D) = M /\ J \in SUBSET D
    BY <1>11, <1>12
  <2> HIDE DEF J, D
  <2>2. Cardinality(J) <= Cardinality(D)
    BY ONLY <2>1, FS_Subset
  <2>3. QED
    BY <1>9, <2>1, <2>2
<1>14. ASSUME NEW e \in L, e \notin refs PROVE Cardinality(refs) = M
  <2>1. Cardinality(Below(L, R, e)) \in 0 .. Cardinality(L) - 1 /\ ~ (Cardinality(Below(L, R, e)) < M)
    BY <1>6, <1>7, <1>14
  <2>2. M <= Cardinality(L) - 1
    BY <1>2, <1>8, <2>1
  <2>3. ASSUME NEW k \in 0 .. M - 1 PROVE k \in J
    <3>1. k \in 0 .. Cardinality(L) - 1 /\ k < M
      BY <1>2, <1>8, <2>2
    <3>2. PICK g \in L : Cardinality(Below(L, R, g)) = k
      BY <1>7, <3>1
    <3>3. g \in refs
      BY <1>6, <3>1, <3>2
    <3>4. QED
      BY <1>10, <3>2, <3>3
  <2> HIDE DEF J
  <2>4. J = 0 .. M - 1
    BY <1>11, <2>3
  <2>5. QED
    BY <1>9, <1>12, <2>4
<1>15. Cardinality(refs) < M => refs = L
  <2> SUFFICES ASSUME Cardinality(refs) < M PROVE refs = L
    OBVIOUS
  <2>1. ~ (Cardinality(refs) = M)
    BY <1>2
  <2>2. QED
    BY <1>6, <1>14, <2>1
<1>16. QED
  BY <1>6, <1>13, <1>15 DEF L, M, refs

LEMMA BibliographyIsRight ==
  ASSUME ChunkingAssumption, lines \in Seq(LineKind), references = ReferencesOf(lines)
  PROVE  ReferencesAreTheEntries
<1> DEFINE S == Section(lines)
           L == LongEntries(lines)
           marked == {i \in Inside(lines) : lines[i] \in {"marker", "marker+text"}}
<1>1. /\ references \subseteq L /\ Cardinality(references) <= MaxReferences
      /\ Cardinality(references) < MaxReferences => references = L
  BY ReferencesAreFirst
<1>2. /\ S = Inside(lines) /\ S \in SUBSET (1 .. Len(lines))
      /\ \A a, b \in S : \A c \in a .. b : c \in S
  BY SectionIs
<1>3. /\ \A e, f \in L : e = f \/ e \cap f = {}
      /\ \A e \in L : e \subseteq S
  BY LongEntriesAre
<1>4. L = {e \in {EntryAt(lines, S, i) : i \in StartsOf(lines, S)} : \E i \in e : lines[i] \in Long}
  BY EntriesAre DEF LongEntries
<1> HIDE DEF S, L
<1>5. UNION references \subseteq Inside(lines)
  BY <1>1, <1>2, <1>3
<1>6. \A e, f \in references : e = f \/ e \cap f = {}
  BY <1>1, <1>3
<1>7. ASSUME Cardinality(references) < MaxReferences, NEW i \in Inside(lines),
             lines[i] = "marker+text", Cardinality(marked) >= 2
      PROVE  \E e \in references : i \in e /\ \A j \in e : j >= i
  <2>1. Markers(lines, S) = marked
    BY <1>2 DEF Markers
  <2>2. Numbered(lines, S) /\ i \in S
    BY <1>2, <1>7, <2>1 DEF Numbered
  <2>3. i \in StartsOf(lines, S)
    BY <1>7, <2>2 DEF StartsOf, Markers
  <2> DEFINE e == EntryAt(lines, S, i)
  <2>4. S \in SUBSET Int
    BY <1>2
  <2>5. i \in e /\ \A j \in e : i <= j
    BY <1>2, <2>3, <2>4, EntriesAreApart
  <2>6. lines[i] \in Long
    BY <1>7 DEF Long
  <2>7. e \in {EntryAt(lines, S, k) : k \in StartsOf(lines, S)}
    BY <2>3
  <2>8. e \subseteq S
    BY DEF EntryAt
  <2> HIDE DEF e
  <2>9. e \in L
    BY <1>4, <2>5, <2>6, <2>7
  <2>10. \A j \in e : j >= i
    BY <2>2, <2>4, <2>5, <2>8
  <2>11. e \in references
    BY <1>1, <1>7, <2>9
  <2>12. QED
    BY <2>5, <2>10, <2>11
<1> HIDE DEF marked
<1>8. ReferencesAreTheEntries <=>
        ("references" \in parsed =>
           /\ UNION references \subseteq Inside(lines)
           /\ \A e, f \in references : e = f \/ e \cap f = {}
           /\ Cardinality(references) <= MaxReferences
           /\ Cardinality(references) < MaxReferences =>
                \A i \in Inside(lines) : lines[i] = "marker+text" /\ Cardinality(marked) >= 2 =>
                  \E e \in references : i \in e /\ \A j \in e : j >= i)
  BY DEF ReferencesAreTheEntries, Inside, marked
<1>9. QED
  BY <1>1, <1>5, <1>6, <1>7, <1>8

-----------------------------------------------------------------------------
(* The theorem.                                                            *)

\* What was made so far is what the two passes make of the document.
ChunkingIInv ==
  /\ IsDocument(document) /\ lines \in Seq(LineKind)
  /\ "chunks" \in parsed => chunks = ChunksOf(document)
  /\ "references" \in parsed => references = ReferencesOf(lines)

\* A document is stored as it was written: no section is lost, no chunk outgrows its
\* budget, each names the headings it is nested in, and the bibliography is kept entry
\* by entry (chunking.py:207-237, references.py:101-136).
THEOREM DocumentsAreStoredAsWritten == ChunkingSpec => []StoredAsWritten
<1>1. ChunkingInit => ChunkingIInv
  <2> SUFFICES ASSUME ChunkingInit PROVE ChunkingIInv
    OBVIOUS
  <2>1. PICK input \in Input : document = input.document /\ lines = input.lines
    BY DEF ChunkingInit
  <2>2. IsDocument(document) /\ lines \in Seq(LineKind)
    BY <2>1, ChunkingAssumption DEF ChunkingAssumption
  <2>3. parsed = {}
    BY DEF ChunkingInit
  <2>4. QED
    BY <2>2, <2>3 DEF ChunkingIInv
<1>2. ChunkingIInv /\ [ChunkingNext]_chunkingVars => ChunkingIInv'
  <2> SUFFICES ASSUME ChunkingIInv, [ChunkingNext]_chunkingVars PROVE ChunkingIInv'
    OBVIOUS
  <2>1. CASE ChunkDocument
    BY <2>1 DEF ChunkDocument, ChunkingIInv
  <2>2. CASE ParseReferences
    BY <2>2 DEF ParseReferences, ChunkingIInv
  <2>3. CASE UNCHANGED chunkingVars
    BY <2>3 DEF chunkingVars, ChunkingIInv
  <2>4. QED
    BY <2>1, <2>2, <2>3 DEF ChunkingNext
<1>3. ChunkingIInv => StoredAsWritten
  <2> SUFFICES ASSUME ChunkingIInv PROVE StoredAsWritten
    OBVIOUS
  <2>1. NoSectionIsLost /\ BudgetIsKept /\ PathsNameTheNesting
    <3>1. Chunked => NoSectionIsLost /\ BudgetIsKept /\ PathsNameTheNesting
      BY ChunkingAssumption, NothingIsLost, NothingIsTooLong, PathsAreRight DEF ChunkingIInv, Chunked
    <3>2. ~ Chunked => NoSectionIsLost /\ BudgetIsKept /\ PathsNameTheNesting
      BY DEF NoSectionIsLost, BudgetIsKept, PathsNameTheNesting
    <3>3. QED
      BY <3>1, <3>2
  <2>2. ReferencesAreTheEntries
    <3>1. CASE "references" \in parsed
      BY <3>1, ChunkingAssumption, BibliographyIsRight DEF ChunkingIInv
    <3>2. CASE "references" \notin parsed
      BY <3>2 DEF ReferencesAreTheEntries
    <3>3. QED
      BY <3>1, <3>2
  <2>3. QED
    BY <2>1, <2>2 DEF StoredAsWritten
<1>4. QED
  BY <1>1, <1>2, <1>3, PTL DEF ChunkingSpec

================================================================================
