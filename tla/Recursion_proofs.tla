----------------------------- MODULE Recursion_proofs -----------------------------
(***************************************************************************)
(* Induction over sets of numbers, and what it gives for the recursions    *)
(* the modules compute with: recursive functions and folds have a value,   *)
(* and a step of theirs leads from one state to the next.                  *)
(***************************************************************************)
EXTENDS Integers, Sequences, SequencesExt, Selections, FiniteSetTheorems, WellFoundedInduction,
        TLAPS

-----------------------------------------------------------------------------
(* Induction.                                                              *)

\* Every non-empty set of natural numbers has a least member.
LEMMA LeastExists ==
  ASSUME NEW T \in SUBSET Nat, T # {}
  PROVE  \E m \in T : \A n \in T : m <= n
<1> DEFINE R == {ss \in Nat \X Nat : ss[1] < ss[2]}
<1>2. IsWellFoundedOn(R, Nat)
  BY NatLessThanWellFounded DEF OpToRel
<1>3. PICK x \in T : \A y \in T : ~(<<y, x>> \in R)
  <2> HIDE DEF R
  <2>1. QED
    BY <1>2, WFMin
<1>4. \A y \in T : x <= y
  <2> SUFFICES ASSUME NEW y \in T PROVE x <= y
    OBVIOUS
  <2>1. x \in Nat /\ y \in Nat
    OBVIOUS
  <2>2. ~(<<y, x>> \in R)
    <3> HIDE DEF R
    <3>1. QED
      BY <1>3
  <2>3. <<y, x>> \in Nat \X Nat /\ <<y, x>>[1] = y /\ <<y, x>>[2] = x
    BY <2>1
  <2>4. ~(y < x)
    BY <2>2, <2>3
  <2>5. QED
    BY <2>1, <2>4
<1>5. QED
  BY <1>4

\* Induction, over a set instead of a predicate.
LEMMA Induction ==
  ASSUME NEW T, 0 \in T, \A k \in Nat : k \in T => k + 1 \in T
  PROVE  \A k \in Nat : k \in T
<1> SUFFICES ASSUME Nat \ T # {} PROVE FALSE
  OBVIOUS
<1>1. PICK m \in Nat \ T : \A k \in Nat \ T : m <= k
  BY LeastExists
<1>2. m - 1 \in Nat
  BY <1>1
<1>3. m - 1 \in T
  BY <1>1, <1>2
<1>4. m - 1 + 1 = m
  BY <1>1
<1>5. QED
  BY <1>1, <1>2, <1>3, <1>4

\* The same along the positions of a sequence.
LEMMA InductionTo ==
  ASSUME NEW n \in Nat, NEW T, 0 \in T, \A i \in 1 .. n : i - 1 \in T => i \in T
  PROVE  \A i \in 0 .. n : i \in T
<1> DEFINE U == {k \in Nat : k <= n => k \in T}
<1>1. 0 \in U
  OBVIOUS
<1>2. ASSUME NEW k \in Nat, k \in U PROVE k + 1 \in U
  <2>1. CASE k + 1 <= n
    <3>1. k + 1 \in 1 .. n /\ k + 1 - 1 = k /\ k <= n
      BY <2>1
    <3>2. QED
      BY <1>2, <3>1
  <2>2. CASE ~(k + 1 <= n)
    BY <2>2
  <2>3. QED
    BY <2>1, <2>2
<1> HIDE DEF U
<1>3. \A k \in Nat : k \in U
  BY <1>1, <1>2, Induction
<1>4. QED
  BY <1>3 DEF U

-----------------------------------------------------------------------------
(* Recursive functions.                                                    *)

\* f is the recursion that starts with start and goes on with G.
IsRecursion(f, n, V, start, G) ==
    /\ f \in [0 .. n -> V]
    /\ \A d \in 0 .. n : f[d] = IF d = 0 THEN start ELSE G[f[d - 1]]

LEMMA RecursionExists ==
    ASSUME NEW n \in Nat, NEW V, NEW start \in V, NEW G \in [V -> V]
    PROVE  \E f : IsRecursion(f, n, V, start, G)
<1> DEFINE Runs(f, k) == \A d \in 0 .. k : f[d] = IF d = 0 THEN start ELSE G[f[d - 1]]
           P(k) == \E f \in [0 .. k -> V] : Runs(f, k)
           T == {k \in 0 .. n : P(k)}
<1>1. P(0)
  <2> DEFINE f == [d \in 0 .. 0 |-> start]
  <2>1. f \in [0 .. 0 -> V] /\ Runs(f, 0)
    OBVIOUS
  <2>2. QED
    BY <2>1
<1>2. ASSUME NEW k \in 1 .. n, k - 1 \in T PROVE k \in T
  <2>1. PICK g \in [0 .. k - 1 -> V] : Runs(g, k - 1)
    <3> HIDE DEF Runs
    <3>1. QED
      BY <1>2
  <2> DEFINE h == [d \in 0 .. k |-> IF d = k THEN G[g[k - 1]] ELSE g[d]]
  <2>2. k \in Nat /\ k - 1 \in 0 .. k - 1 /\ k \in 0 .. n /\ k - 1 \in 0 .. k /\ k - 1 # k /\ k # 0
    OBVIOUS
  <2>3. g[k - 1] \in V
    BY <2>2
  <2>4. h \in [0 .. k -> V]
    <3>1. G[g[k - 1]] \in V
      BY <2>3
    <3>2. \A d \in 0 .. k : d # k => d \in 0 .. k - 1
      BY <2>2
    <3>3. QED
      BY <3>1, <3>2
  <2>5. ASSUME NEW d \in 0 .. k PROVE h[d] = IF d = 0 THEN start ELSE G[h[d - 1]]
    <3>1. CASE d = k
      <4>1. h[d] = G[g[k - 1]] /\ h[k - 1] = g[k - 1] /\ d # 0
        BY <2>2, <3>1
      <4>2. QED
        BY <3>1, <4>1
    <3>2. CASE d # k
      <4>1. d \in 0 .. k - 1 /\ h[d] = g[d]
        BY <2>2, <3>2
      <4>2. d # 0 => d - 1 \in 0 .. k /\ d - 1 # k
        BY <2>2, <4>1
      <4>3. d # 0 => h[d - 1] = g[d - 1]
        BY <4>2
      <4>4. g[d] = IF d = 0 THEN start ELSE G[g[d - 1]]
        BY <2>1, <4>1
      <4>5. QED
        BY <4>1, <4>3, <4>4
    <3>3. QED
      BY <3>1, <3>2
  <2>6. Runs(h, k)
    <3> HIDE DEF h
    <3>1. QED
      BY <2>5
  <2>7. P(k)
    <3> HIDE DEF h, Runs
    <3>1. QED
      BY <2>4, <2>6
  <2>8. QED
    BY <2>2, <2>7
<1>3. 0 \in T
  BY <1>1
<1> HIDE DEF T
<1>4. \A k \in 0 .. n : k \in T
  BY <1>2, <1>3, InductionTo
<1>5. P(n)
  BY <1>4 DEF T
<1>6. QED
  BY <1>5 DEF IsRecursion

-----------------------------------------------------------------------------
(* Folds.  FoldLeft is a recursion over sets of positions; these lemmas    *)
(* turn it into a run of states, one for each prefix of the sequence.      *)

LEMMA MaxOfTop ==
  ASSUME NEW k \in Nat, NEW t \in SUBSET (1 .. k + 1), k + 1 \in t
  PROVE  Max(t) = k + 1 /\ t \ {Max(t)} \in SUBSET (1 .. k)
<1>1. \A y \in t : y \in Int /\ k + 1 >= y
  OBVIOUS
<1>2. \A x \in t : (\A y \in t : x >= y) => x = k + 1
  BY <1>1
<1>3. Max(t) = k + 1
  BY <1>1, <1>2 DEF Max
<1>4. QED
  BY <1>3

LEMMA NonEmptyHasMax ==
  ASSUME NEW n \in Nat, NEW t \in SUBSET (1 .. n), t # {}
  PROVE  Max(t) \in t /\ t \ {Max(t)} \in SUBSET (1 .. n)
<1> DEFINE T == {k \in Nat : \A i \in t : i <= k}
<1>1. n \in T
  OBVIOUS
<1>2. PICK m \in T : \A k \in T : m <= k
  BY <1>1, LeastExists
<1>3. m \in t
  <2> SUFFICES ASSUME m \notin t PROVE FALSE
    OBVIOUS
  <2>1. PICK i \in t : TRUE
    OBVIOUS
  <2>2. m \in Nat /\ i \in Nat /\ i <= m /\ i # m /\ i >= 1
    BY <1>2
  <2>3. m - 1 \in T
    BY <1>2, <2>2
  <2>4. QED
    BY <1>2, <2>2, <2>3
<1>4. \A i \in t : m >= i
  BY <1>2
<1>5. QED
  BY <1>3, <1>4 DEF Max

LEMMA TopOfInterval ==
  ASSUME NEW n \in Nat, NEW i \in 1 .. n
  PROVE  Max(1 .. i) = i /\ (1 .. i) \ {i} = 1 .. i - 1 /\ 1 .. i # {} /\ 1 .. i \in SUBSET (1 .. n)
<1>1. i \in Nat /\ i - 1 \in Nat /\ i - 1 + 1 = i /\ i \in 1 .. i
  OBVIOUS
<1>2. Max(1 .. i) = i
  BY <1>1, MaxOfTop
<1>3. QED
  BY <1>1, <1>2

\* f is the recursion of MapThenFoldSet over 1 .. n, for the step G.
IsFold(f, n, V, start, G) ==
  /\ f \in [SUBSET (1 .. n) -> V]
  /\ \A t \in SUBSET (1 .. n) :
       f[t] = IF t = {} THEN start ELSE G[<<f[t \ {Max(t)}], Max(t)>>]

\* A fold over 1 .. n has a value: the recursion defines a function.
LEMMA FoldExists ==
  ASSUME NEW n \in Nat, NEW V, NEW start \in V, NEW G \in [V \X (1 .. n) -> V]
  PROVE  \E f : IsFold(f, n, V, start, G)
<1> DEFINE Folds(f, k) == \A t \in SUBSET (1 .. k) :
             f[t] = IF t = {} THEN start ELSE G[<<f[t \ {Max(t)}], Max(t)>>]
           P(k) == k <= n => \E f \in [SUBSET (1 .. k) -> V] : Folds(f, k)
           T == {k \in Nat : P(k)}
<1>1. 0 \in T
  <2> DEFINE f == [t \in SUBSET (1 .. 0) |-> start]
  <2>1. SUBSET (1 .. 0) = {{}}
    OBVIOUS
  <2>2. f \in [SUBSET (1 .. 0) -> V] /\ Folds(f, 0)
    BY <2>1
  <2>3. QED
    BY <2>2
<1>2. ASSUME NEW k \in Nat, k \in T
      PROVE  k + 1 \in T
  <2>0. P(k) /\ (P(k + 1) => k + 1 \in T)
    <3> HIDE DEF P
    <3>1. QED
      BY <1>2
  <2> SUFFICES ASSUME k + 1 <= n
               PROVE  \E f \in [SUBSET (1 .. k + 1) -> V] : Folds(f, k + 1)
    <3> HIDE DEF Folds
    <3>1. QED
      BY <2>0
  <2>1. PICK g \in [SUBSET (1 .. k) -> V] : Folds(g, k)
    <3> HIDE DEF Folds
    <3>1. k <= n
      OBVIOUS
    <3>2. QED
      BY <2>0, <3>1
  <2> DEFINE f == [t \in SUBSET (1 .. k + 1) |->
                     IF t \in SUBSET (1 .. k) THEN g[t] ELSE G[<<g[t \ {k + 1}], k + 1>>]]
  <2>2. \A t \in SUBSET (1 .. k + 1) : t \notin SUBSET (1 .. k) =>
          k + 1 \in t /\ Max(t) = k + 1 /\ t \ {k + 1} \in SUBSET (1 .. k)
    <3> SUFFICES ASSUME NEW t \in SUBSET (1 .. k + 1), t \notin SUBSET (1 .. k)
                 PROVE  k + 1 \in t /\ Max(t) = k + 1 /\ t \ {k + 1} \in SUBSET (1 .. k)
      OBVIOUS
    <3>1. k + 1 \in t
      OBVIOUS
    <3>2. QED
      BY <3>1, MaxOfTop
  <2>3. f \in [SUBSET (1 .. k + 1) -> V]
    <3> SUFFICES ASSUME NEW t \in SUBSET (1 .. k + 1) PROVE f[t] \in V
      OBVIOUS
    <3>1. CASE t \in SUBSET (1 .. k)
      BY <3>1
    <3>2. CASE t \notin SUBSET (1 .. k)
      <4>1. g[t \ {k + 1}] \in V /\ k + 1 \in 1 .. n
        BY <2>2, <3>2
      <4>2. QED
        BY <3>2, <4>1
    <3>3. QED
      BY <3>1, <3>2
  <2>4. Folds(f, k + 1)
    <3> SUFFICES ASSUME NEW t \in SUBSET (1 .. k + 1)
                 PROVE  f[t] = IF t = {} THEN start ELSE G[<<f[t \ {Max(t)}], Max(t)>>]
      OBVIOUS
    <3>1. CASE t \in SUBSET (1 .. k)
      <4>1. t \ {Max(t)} \in SUBSET (1 .. k) /\ t \ {Max(t)} \in SUBSET (1 .. k + 1)
        BY <3>1
      <4>2. f[t] = g[t] /\ f[t \ {Max(t)}] = g[t \ {Max(t)}]
        BY <3>1, <4>1
      <4>3. QED
        BY <2>1, <3>1, <4>2
    <3>2. CASE t \notin SUBSET (1 .. k)
      <4>1. t \ {k + 1} \in SUBSET (1 .. k) /\ t \ {k + 1} \in SUBSET (1 .. k + 1) /\ Max(t) = k + 1
            /\ t # {}
        BY <2>2, <3>2
      <4>2. f[t] = G[<<g[t \ {k + 1}], k + 1>>] /\ f[t \ {k + 1}] = g[t \ {k + 1}]
        BY <3>2, <4>1
      <4>3. QED
        BY <4>1, <4>2
    <3>3. QED
      BY <3>1, <3>2
  <2>5. QED
    BY <2>3, <2>4
<1> HIDE DEF T
<1>3. n \in T
  BY <1>1, <1>2, Induction
<1>4. P(n)
  <2> HIDE DEF P
  <2>1. QED
    BY <1>3 DEF T
<1>5. \E f \in [SUBSET (1 .. n) -> V] : Folds(f, n)
  <2> HIDE DEF Folds
  <2>1. n <= n
    OBVIOUS
  <2>2. QED
    BY <1>4, <2>1
<1>6. QED
  BY <1>5 DEF IsFold

-----------------------------------------------------------------------------
(* Finite sets.                                                            *)

\* Induction over the subsets of a finite set.
LEMMA FiniteInduction ==
  ASSUME NEW S, IsFiniteSet(S), NEW T, {} \in T,
         \A s \in SUBSET S : \A x \in S \ s : s \in T => s \cup {x} \in T
  PROVE  \A s \in SUBSET S : s \in T
<1> DEFINE U == {k \in Nat : \A s \in SUBSET S : Cardinality(s) = k => s \in T}
<1>1. \A s \in SUBSET S : IsFiniteSet(s) /\ Cardinality(s) \in Nat
  BY FS_Subset, FS_CardinalityType
<1>2. 0 \in U
  BY <1>1, FS_EmptySet
<1>3. ASSUME NEW k \in Nat, k \in U PROVE k + 1 \in U
  <2> SUFFICES ASSUME NEW s \in SUBSET S, Cardinality(s) = k + 1
               PROVE  s \in T
    OBVIOUS
  <2>1. IsFiniteSet(s) /\ Cardinality({}) = 0 /\ k + 1 # 0 /\ k + 1 - 1 = k
    BY <1>1, FS_EmptySet
  <2>2. PICK x \in s : TRUE
    BY <2>1
  <2>3. Cardinality(s \ {x}) = Cardinality(s) - 1
    BY <2>1, <2>2, FS_RemoveElement
  <2>4. Cardinality(s \ {x}) = k
    BY <2>1, <2>3
  <2>5. s \ {x} \in T
    BY <1>3, <2>4
  <2>6. (s \ {x}) \cup {x} = s /\ x \in S \ (s \ {x}) /\ s \ {x} \in SUBSET S
    BY <2>2
  <2>7. QED
    BY <2>5, <2>6
<1> HIDE DEF U
<1>4. \A k \in Nat : k \in U
  BY <1>2, <1>3, Induction
<1>5. QED
  BY <1>1, <1>4 DEF U

\* A finite set of numbers has a greatest and a least member.
LEMMA ExtremesExist ==
  ASSUME NEW S \in SUBSET Int, IsFiniteSet(S), S # {}
  PROVE  /\ \E x \in S : \A y \in S : x >= y
         /\ \E x \in S : \A y \in S : x <= y
<1> DEFINE T == {s \in SUBSET S : s # {} => /\ \E x \in s : \A y \in s : x >= y
                                           /\ \E x \in s : \A y \in s : x <= y}
<1>1. {} \in T
  OBVIOUS
<1>2. ASSUME NEW s \in SUBSET S, NEW x \in S \ s, s \in T
      PROVE  s \cup {x} \in T
  <2>1. CASE s = {}
    BY <2>1
  <2>2. CASE s # {}
    <3>1. PICK a \in s : \A y \in s : a >= y
      BY <1>2, <2>2
    <3>2. PICK b \in s : \A y \in s : b <= y
      BY <1>2, <2>2
    <3>3. \E m \in s \cup {x} : \A y \in s \cup {x} : m >= y
      BY <3>1
    <3>4. \E m \in s \cup {x} : \A y \in s \cup {x} : m <= y
      BY <3>2
    <3>5. QED
      BY <3>3, <3>4
  <2>3. QED
    BY <2>1, <2>2
<1> HIDE DEF T
<1>3. S \in T
  BY <1>1, <1>2, FiniteInduction
<1>4. QED
  BY <1>3 DEF T

\* The image of a finite set, and its size when the function keeps members apart.
LEMMA ImageIsFinite ==
  ASSUME NEW S, IsFiniteSet(S), NEW f, DOMAIN f = S, f = [x \in S |-> f[x]]
  PROVE  /\ IsFiniteSet({f[x] : x \in S})
         /\ Cardinality({f[x] : x \in S}) <= Cardinality(S)
         /\ (\A x, y \in S : f[x] = f[y] => x = y) => Cardinality({f[x] : x \in S}) = Cardinality(S)
<1> DEFINE T == {f[x] : x \in S}
<1>1. f \in Surjection(S, T)
  BY DEF Surjection
<1>2. (\A x, y \in S : f[x] = f[y] => x = y) => f \in Injection(S, T)
  BY DEF Injection, IsInjective
<1> HIDE DEF T
<1>3. IsFiniteSet(T) /\ Cardinality(T) <= Cardinality(S)
      /\ (Cardinality(T) = Cardinality(S) <=> f \in Injection(S, T))
  BY <1>1, FS_Surjection
<1>4. QED
  BY <1>2, <1>3 DEF T

\* A set and its image by a function that tells its members apart.
LEMMA DistinctImages ==
  ASSUME NEW S, IsFiniteSet(S), NEW f, DOMAIN f = S, f = [x \in S |-> f[x]],
         \A x, y \in S : f[x] = f[y] => x = y
  PROVE  Cardinality({f[x] : x \in S}) = Cardinality(S)
BY ImageIsFinite

\* SetToSeq lists a finite set.
LEMMA SetToSeqLists ==
  ASSUME NEW S, IsFiniteSet(S)
  PROVE  SetToSeq(S) \in Seq(S) /\ \A x \in S : \E i \in DOMAIN SetToSeq(S) : SetToSeq(S)[i] = x
<1> DEFINE n == Cardinality(S)
<1>1. n \in Nat /\ ExistsBijection(1 .. n, S)
  BY FS_CardinalityType
<1>2. PICK g : g \in Bijection(1 .. n, S)
  BY <1>1 DEF ExistsBijection
<1> HIDE DEF n
<1>3. g \in [1 .. n -> S] /\ IsInjective(g)
  BY <1>2 DEF Bijection, Injection, IsInjective
<1>4. SetToSeq(S) \in [1 .. n -> S] /\ IsInjective(SetToSeq(S))
  BY <1>3 DEF SetToSeq, n
<1> DEFINE h == SetToSeq(S)
<1> HIDE DEF h
<1>5. h \in Injection(1 .. n, S)
  BY <1>4 DEF h, Injection, IsInjective
<1>6. IsFiniteSet(1 .. n) /\ Cardinality(1 .. n) = Cardinality(S)
  BY <1>1, FS_Interval DEF n
<1>7. h \in Surjection(1 .. n, S)
  BY <1>5, <1>6, FS_Injection
<1>8. h \in Seq(S)
  BY <1>1, <1>4 DEF h
<1>9. QED
  BY <1>4, <1>7, <1>8 DEF h, Surjection

\* What stands before a member of a set, by an order given as its set of pairs.
Below(S, R, x) == {y \in S : <<y, x>> \in R}

\* R orders S strictly and totally.
Orders(R, S) ==
  /\ \A x \in S : <<x, x>> \notin R
  /\ \A x, y, z \in S : <<x, y>> \in R /\ <<y, z>> \in R => <<x, z>> \in R
  /\ \A x, y \in S : x = y \/ <<x, y>> \in R \/ <<y, x>> \in R

\* The members of a finite set have the places 0, 1, 2 and so on in an order of it.
LEMMA PlacesAreCounted ==
  ASSUME NEW S, IsFiniteSet(S), NEW R, Orders(R, S)
  PROVE  /\ \A x \in S : Cardinality(Below(S, R, x)) \in 0 .. Cardinality(S) - 1
         /\ \A x, y \in S : <<x, y>> \in R <=>
              Cardinality(Below(S, R, x)) < Cardinality(Below(S, R, y))
         /\ \A x, y \in S : Cardinality(Below(S, R, x)) = Cardinality(Below(S, R, y)) => x = y
         /\ \A k \in 0 .. Cardinality(S) - 1 : \E x \in S : Cardinality(Below(S, R, x)) = k
<1> DEFINE n == Cardinality(S)
           f == [x \in S |-> Cardinality(Below(S, R, x))]
<1>1. n \in Nat /\ \A x \in S : IsFiniteSet(Below(S, R, x)) /\ f[x] \in Nat
  <2>1. \A x \in S : Below(S, R, x) \in SUBSET S
    BY DEF Below
  <2>2. QED
    BY <2>1, FS_Subset, FS_CardinalityType
<1>2. \A x, y \in S : <<x, y>> \in R => f[x] < f[y]
  <2> SUFFICES ASSUME NEW x \in S, NEW y \in S, <<x, y>> \in R
               PROVE  f[x] < f[y]
    OBVIOUS
  <2> DEFINE A == Below(S, R, x)
             B == Below(S, R, y)
  <2>1. x \notin A /\ A \cup {x} \in SUBSET B
    BY DEF Orders, Below
  <2>2. IsFiniteSet(A) /\ IsFiniteSet(B) /\ f[x] = Cardinality(A) /\ f[y] = Cardinality(B)
    BY <1>1
  <2> HIDE DEF A, B, f
  <2>3. Cardinality(A \cup {x}) = Cardinality(A) + 1
    BY <2>1, <2>2, FS_AddElement
  <2>4. Cardinality(A \cup {x}) <= Cardinality(B)
    BY <2>1, <2>2, FS_Subset
  <2>5. QED
    BY <1>1, <2>2, <2>3, <2>4
<1>3. \A x \in S : f[x] \in 0 .. n - 1
  <2> SUFFICES ASSUME NEW x \in S PROVE f[x] \in 0 .. n - 1
    OBVIOUS
  <2> DEFINE A == Below(S, R, x)
  <2>1. A \in SUBSET (S \ {x})
    BY DEF Orders, Below
  <2>2. IsFiniteSet(S \ {x}) /\ Cardinality(S \ {x}) = n - 1
    BY FS_RemoveElement
  <2> HIDE DEF A, n
  <2>3. Cardinality(A) <= n - 1
    BY <2>1, <2>2, FS_Subset
  <2>4. QED
    BY <1>1, <2>3 DEF A
<1>4. \A x, y \in S : f[x] = f[y] => x = y
  <2> SUFFICES ASSUME NEW x \in S, NEW y \in S, f[x] = f[y] PROVE x = y
    OBVIOUS
  <2>1. ~(f[x] < f[y]) /\ ~(f[y] < f[x])
    BY <1>1
  <2> HIDE DEF f
  <2>2. QED
    BY <1>2, <2>1 DEF Orders
<1>5. \A x, y \in S : f[x] < f[y] => <<x, y>> \in R
  <2> SUFFICES ASSUME NEW x \in S, NEW y \in S, f[x] < f[y] PROVE <<x, y>> \in R
    OBVIOUS
  <2>1. x # y /\ ~(f[y] < f[x])
    BY <1>1
  <2> HIDE DEF f
  <2>2. QED
    BY <1>2, <2>1 DEF Orders
<1>6. DOMAIN f = S /\ f = [x \in S |-> f[x]]
  OBVIOUS
<1> DEFINE T == {f[x] : x \in S}
<1> HIDE DEF f
<1>7. Cardinality(T) = n
  BY <1>4, <1>6, ImageIsFinite
<1>8. T \in SUBSET (0 .. n - 1)
  BY <1>3
<1>9. IsFiniteSet(0 .. n - 1) /\ Cardinality(0 .. n - 1) = n
  <2> HIDE DEF n
  <2>1. n - 1 \in Int /\ 0 \in Int
    BY <1>1
  <2>2. QED
    BY <1>1, <2>1, FS_Interval
<1>10. T = 0 .. n - 1
  <2> HIDE DEF T, n
  <2>1. QED
    BY <1>7, <1>8, <1>9, FS_Subset
<1>11. \A k \in 0 .. n - 1 : \E x \in S : f[x] = k
  BY <1>10
<1>12. QED
  BY <1>2, <1>3, <1>4, <1>5, <1>11 DEF f

\* The lesser of two numbers.
LEMMA MinOfTwo ==
  ASSUME NEW a \in Int, NEW b \in Int
  PROVE  Min({a, b}) \in {a, b} /\ Min({a, b}) <= a /\ Min({a, b}) <= b
<1>1. \E x \in {a, b} : \A y \in {a, b} : x <= y
  BY a <= b \/ b <= a
<1>2. QED
  BY <1>1 DEF Min

\* A listing of a finite set names each of its members once.
LEMMA ListedIsAll ==
  ASSUME NEW S, IsFiniteSet(S), NEW order \in SetToSeqs(S)
  PROVE  /\ order \in Seq(S) /\ Len(order) = Cardinality(S)
         /\ IsInjective(order) /\ ToSet(order) = S
<1> DEFINE n == Cardinality(S)
<1>1. n \in Nat
  BY FS_CardinalityType
<1>2. order \in [1 .. n -> S] /\ \A i, j \in 1 .. n : i # j => order[i] # order[j]
  BY DEF SetToSeqs
<1> HIDE DEF n
<1>3. order \in Seq(S) /\ Len(order) = n /\ DOMAIN order = 1 .. n
  BY <1>1, <1>2
<1>4. IsInjective(order)
  BY <1>2, <1>3 DEF IsInjective
<1> DEFINE T == {order[i] : i \in 1 .. n}
<1>5. IsFiniteSet(1 .. n) /\ Cardinality(1 .. n) = n
  <2>1. 1 \in Int /\ n \in Int
    BY <1>1
  <2>2. QED
    BY <1>1, <2>1, FS_Interval
<1>6. Cardinality(T) = n
  <2> DEFINE D == 1 .. n
  <2>1. DOMAIN order = D /\ order = [i \in D |-> order[i]]
    BY <1>2
  <2>2. \A i, j \in D : order[i] = order[j] => i = j
    BY <1>2
  <2>3. IsFiniteSet(D) /\ Cardinality(D) = n /\ T = {order[i] : i \in D}
    BY <1>5
  <2> HIDE DEF D, T
  <2>4. Cardinality({order[i] : i \in D}) = Cardinality(D)
    BY ONLY <2>1, <2>2, <2>3, ImageIsFinite
  <2>5. QED
    BY <2>3, <2>4
<1>7. T \in SUBSET S
  BY <1>2
<1>8. T = S
  <2> HIDE DEF T
  <2>1. QED
    BY <1>6, <1>7, FS_Subset DEF n
<1>9. ToSet(order) = T
  BY <1>3 DEF ToSet
<1>10. QED
  BY <1>3, <1>4, <1>8, <1>9 DEF n

\* Two listings that share nothing, one after the other.
LEMMA ListedOneAfterTheOther ==
  ASSUME NEW V, NEW s \in Seq(V), NEW t \in Seq(V)
  PROVE  /\ s \o t \in Seq(V) /\ ToSet(s \o t) = ToSet(s) \cup ToSet(t)
         /\ IsInjective(s) /\ IsInjective(t) /\ ToSet(s) \cap ToSet(t) = {} => IsInjective(s \o t)
<1> DEFINE m == Len(s)
           n == Len(t)
           r == s \o t
<1>1. m \in Nat /\ n \in Nat /\ r \in Seq(V) /\ Len(r) = m + n
  OBVIOUS
<1>2. /\ \A i \in 1 .. m : i \in 1 .. m + n /\ r[i] = s[i]
      /\ \A j \in 1 .. n : m + j \in 1 .. m + n /\ r[m + j] = t[j]
  OBVIOUS
<1>3. \A i \in 1 .. m + n : i \in 1 .. m \/ (i - m \in 1 .. n /\ i = m + (i - m))
  BY <1>1
<1>4. DOMAIN s = 1 .. m /\ DOMAIN t = 1 .. n /\ DOMAIN r = 1 .. m + n
  BY <1>1
<1> HIDE DEF m, n, r
<1>5. ToSet(r) = ToSet(s) \cup ToSet(t)
  <2>1. ASSUME NEW i \in 1 .. m + n PROVE r[i] \in ToSet(s) \cup ToSet(t)
    BY <1>2, <1>3, <1>4 DEF ToSet
  <2>2. ToSet(s) \subseteq ToSet(r) /\ ToSet(t) \subseteq ToSet(r)
    BY <1>2, <1>4 DEF ToSet
  <2>3. ToSet(r) \subseteq ToSet(s) \cup ToSet(t)
    BY <1>4, <2>1 DEF ToSet
  <2>4. QED
    BY <2>2, <2>3
<1>6. ASSUME IsInjective(s), IsInjective(t), ToSet(s) \cap ToSet(t) = {}
      PROVE  IsInjective(r)
  <2> SUFFICES ASSUME NEW i \in 1 .. m + n, NEW j \in 1 .. m + n, r[i] = r[j] PROVE i = j
    BY <1>4 DEF IsInjective
  <2>1. \A k \in 1 .. m, h \in 1 .. n : s[k] # t[h]
    BY <1>4, <1>6 DEF ToSet
  <2>2. /\ \A k, h \in 1 .. m : s[k] = s[h] => k = h
        /\ \A k, h \in 1 .. n : t[k] = t[h] => k = h
    BY <1>4, <1>6 DEF IsInjective
  <2>3. CASE i \in 1 .. m /\ j \in 1 .. m
    BY <1>2, <2>2, <2>3
  <2>4. CASE i - m \in 1 .. n /\ i = m + (i - m) /\ j - m \in 1 .. n /\ j = m + (j - m)
    <3>1. r[i] = t[i - m] /\ r[j] = t[j - m]
      BY <1>2, <2>4
    <3>2. i - m = j - m
      BY <2>2, <2>4, <3>1
    <3>3. QED
      BY <2>4, <3>2
  <2>5. CASE i \in 1 .. m /\ j - m \in 1 .. n /\ j = m + (j - m)
    BY <1>2, <2>1, <2>5
  <2>6. CASE j \in 1 .. m /\ i - m \in 1 .. n /\ i = m + (i - m)
    BY <1>2, <2>1, <2>6
  <2>7. QED
    BY <1>3, <2>3, <2>4, <2>5, <2>6
<1>7. QED
  BY <1>1, <1>5, <1>6 DEF r

-----------------------------------------------------------------------------
(* Selections: some of the places of a sequence, in ascending order.       *)

\* A set of numbers given in ascending order is put into that order.
LEMMA AscendingLists ==
  ASSUME NEW n \in Nat, NEW g, \A k \in 1 .. n : g[k] \in Int,
         \A j, k \in 1 .. n : j < k => g[j] < g[k],
         NEW places, places = {g[k] : k \in 1 .. n}
  PROVE  Ascending(places) = [k \in 1 .. n |-> g[k]]
<1> DEFINE D == 1 .. n
           Below0(k) == {y \in places : y < g[k]}
<1>1. ASSUME NEW m \in 0 .. n, NEW S, S = {g[k] : k \in 1 .. m}
      PROVE  Cardinality(S) = m
  <2> DEFINE M == 1 .. m
             f == [k \in M |-> g[k]]
  <2>1. IsFiniteSet(M) /\ Cardinality(M) = m
    <3>1. m \in Int /\ 1 \in Int /\ m \in Nat
      OBVIOUS
    <3>2. QED
      BY <3>1, FS_Interval
  <2>2. DOMAIN f = M /\ f = [k \in M |-> f[k]] /\ S = {f[k] : k \in M}
    BY <1>1
  <2>3. \A x, y \in M : f[x] = f[y] => x = y
    <3> SUFFICES ASSUME NEW x \in M, NEW y \in M, g[x] = g[y] PROVE x = y
      OBVIOUS
    <3>1. x \in D /\ y \in D /\ x \in Int /\ y \in Int
      OBVIOUS
    <3>2. ~(x < y) /\ ~(y < x)
      BY <3>1
    <3>3. QED
      BY <3>1, <3>2
  <2> HIDE DEF M, f
  <2>4. Cardinality({f[x] : x \in M}) = Cardinality(M)
    BY ONLY <2>1, <2>2, <2>3, DistinctImages
  <2>5. QED
    BY <2>1, <2>2, <2>4
<1>2. Cardinality(places) = n
  BY <1>1
<1>3. ASSUME NEW k \in D PROVE Cardinality(Below0(k)) = k - 1
  <2>1. k - 1 \in 0 .. n
    OBVIOUS
  <2>2. Below0(k) = {g[j] : j \in 1 .. k - 1}
    <3>1. ASSUME NEW j \in 1 .. k - 1 PROVE g[j] \in Below0(k)
      OBVIOUS
    <3>2. ASSUME NEW j \in D, g[j] < g[k] PROVE j \in 1 .. k - 1
      <4>1. ~(k < j) /\ j # k
        BY <3>2
      <4>2. QED
        BY <4>1
    <3>3. QED
      BY <3>1, <3>2
  <2> HIDE DEF Below0
  <2>3. QED
    BY <1>1, <2>1, <2>2
<1>4. ASSUME NEW k \in D
      PROVE  (CHOOSE x \in places : Cardinality({y \in places : y < x}) = k - 1) = g[k]
  <2>1. g[k] \in places /\ Cardinality({y \in places : y < g[k]}) = k - 1
    BY <1>3
  <2>2. ASSUME NEW x \in places, Cardinality({y \in places : y < x}) = k - 1
        PROVE  x = g[k]
    <3>1. PICK j \in D : x = g[j]
      OBVIOUS
    <3>2. j - 1 = k - 1
      BY <1>3, <2>2, <3>1
    <3>3. QED
      BY <3>1, <3>2
  <2>3. QED
    BY <2>1, <2>2
<1>5. QED
  BY <1>2, <1>4 DEF Ascending

\* The first numbers are in that order.
LEMMA AscendingCounts ==
  ASSUME NEW m \in Nat
  PROVE  Ascending(1 .. m) = [k \in 1 .. m |-> k]
<1> DEFINE g == [k \in 1 .. m |-> k]
<1>1. /\ \A k \in 1 .. m : g[k] \in Int
      /\ \A j, k \in 1 .. m : j < k => g[j] < g[k]
      /\ 1 .. m = {g[k] : k \in 1 .. m} /\ g = [k \in 1 .. m |-> g[k]]
  OBVIOUS
<1> HIDE DEF g
<1>2. Ascending(1 .. m) = [k \in 1 .. m |-> g[k]]
  BY <1>1, AscendingLists
<1>3. QED
  BY <1>1, <1>2 DEF g

\* The places of a sequence, put into ascending order.
LEMMA AscendingEnumerates ==
  ASSUME NEW places \in SUBSET Int, IsFiniteSet(places)
  PROVE  /\ Cardinality(places) \in Nat
         /\ Ascending(places) \in [1 .. Cardinality(places) -> places]
         /\ \A i \in places : \E k \in 1 .. Cardinality(places) : Ascending(places)[k] = i
         /\ \A j, k \in 1 .. Cardinality(places) : j < k <=> Ascending(places)[j] < Ascending(places)[k]
<1> DEFINE S == places
           n == Cardinality(S)
           R == {xy \in places \X places : xy[1] < xy[2]}
           A == Ascending(places)
           f(x) == Cardinality(Below(S, R, x))
<1>1. n \in Nat
  BY FS_CardinalityType
<1>2. Orders(R, places)
  BY DEF Orders
<1>3. \A x \in places : Below(places, R, x) = {y \in places : y < x}
  BY DEF Below
<1>4. \A x, y \in places : x < y <=> <<x, y>> \in R
  OBVIOUS
<1> HIDE DEF R
<1>5. /\ \A x \in S : f(x) \in 0 .. n - 1
      /\ \A x, y \in S : <<x, y>> \in R <=> f(x) < f(y)
      /\ \A x, y \in S : f(x) = f(y) => x = y
      /\ \A k \in 0 .. n - 1 : \E x \in S : f(x) = k
  <2>1. IsFiniteSet(S) /\ n \in Nat
    BY <1>1
  <2>2. Orders(R, S)
    BY <1>2
  <2> HIDE DEF S
  <2>3. QED
    BY ONLY <2>1, <2>2, PlacesAreCounted
<1> HIDE DEF n
<1>6. \A k \in 1 .. n : A[k] = CHOOSE x \in places : f(x) = k - 1
  BY <1>3 DEF Ascending, n
<1>7. \A k \in 1 .. n : A[k] \in places /\ f(A[k]) = k - 1
  <2> SUFFICES ASSUME NEW k \in 1 .. n PROVE A[k] \in places /\ f(A[k]) = k - 1
    OBVIOUS
  <2>1. k - 1 \in 0 .. n - 1
    BY <1>1
  <2>2. \E x \in places : f(x) = k - 1
    BY <1>5, <2>1
  <2> HIDE DEF f, A
  <2>3. QED
    BY <1>6, <2>2
<1>8. A \in [1 .. n -> places]
  BY <1>7 DEF Ascending, n
<1>9. \A i \in places : \E k \in 1 .. n : A[k] = i
  <2> SUFFICES ASSUME NEW i \in places PROVE \E k \in 1 .. n : A[k] = i
    OBVIOUS
  <2>1. f(i) \in 0 .. n - 1 /\ f(i) + 1 \in 1 .. n /\ f(i) + 1 - 1 = f(i)
    BY <1>1, <1>5
  <2> HIDE DEF f, A
  <2>2. A[f(i) + 1] \in places /\ f(A[f(i) + 1]) = f(i)
    BY <1>7, <2>1
  <2>3. QED
    BY <1>5, <2>1, <2>2
<1>10. \A j, k \in 1 .. n : j < k <=> A[j] < A[k]
  <2> SUFFICES ASSUME NEW j \in 1 .. n, NEW k \in 1 .. n PROVE j < k <=> A[j] < A[k]
    OBVIOUS
  <2> HIDE DEF f, A
  <2>1. A[j] < A[k] <=> f(A[j]) < f(A[k])
    BY <1>4, <1>5, <1>7
  <2>2. f(A[j]) = j - 1 /\ f(A[k]) = k - 1
    BY <1>7
  <2>3. QED
    BY <1>1, <2>1, <2>2
<1>11. QED
  BY <1>1, <1>8, <1>9, <1>10 DEF n

\* What is chosen of a sequence, place by place.
LEMMA ChosenPlaces ==
  ASSUME NEW V, NEW s \in Seq(V), NEW places \in SUBSET (DOMAIN s)
  PROVE  /\ IsFiniteSet(places) /\ Cardinality(places) \in Nat
         /\ Chosen(s, places) \in Seq(V) /\ Len(Chosen(s, places)) = Cardinality(places)
         /\ Ascending(places) \in [1 .. Cardinality(places) -> places]
         /\ \A k \in 1 .. Cardinality(places) : Chosen(s, places)[k] = s[Ascending(places)[k]]
         /\ \A i \in places : \E k \in 1 .. Cardinality(places) : Ascending(places)[k] = i
         /\ \A j, k \in 1 .. Cardinality(places) : j < k <=> Ascending(places)[j] < Ascending(places)[k]
<1> DEFINE n == Cardinality(places)
           A == Ascending(places)
<1>1. IsFiniteSet(places)
  <2>1. IsFiniteSet(1 .. Len(s))
    BY FS_Interval
  <2>2. QED
    BY <2>1, FS_Subset
<1>2. places \in SUBSET Int
  OBVIOUS
<1>3. /\ n \in Nat /\ A \in [1 .. n -> places]
      /\ \A i \in places : \E k \in 1 .. n : A[k] = i
      /\ \A j, k \in 1 .. n : j < k <=> A[j] < A[k]
  BY <1>1, <1>2, AscendingEnumerates
<1>4. Chosen(s, places) = [k \in 1 .. n |-> s[A[k]]]
  <2>1. DOMAIN A = 1 .. n
    BY <1>3
  <2> HIDE DEF n
  <2>2. QED
    BY <2>1 DEF Chosen, A
<1> HIDE DEF n, A
<1>5. \A k \in 1 .. n : s[A[k]] \in V
  BY <1>3
<1>6. Chosen(s, places) \in Seq(V) /\ Len(Chosen(s, places)) = n
  BY <1>3, <1>4, <1>5
<1>7. QED
  BY <1>1, <1>3, <1>4, <1>6 DEF n, A

\* What is chosen, when the places are given in ascending order.
LEMMA ChosenInOrder ==
  ASSUME NEW s, NEW places \in SUBSET Int, NEW n \in Nat,
         NEW g \in [1 .. n -> places],
         \A j, k \in 1 .. n : j < k => g[j] < g[k],
         \A i \in places : \E k \in 1 .. n : g[k] = i
  PROVE  Chosen(s, places) = [k \in 1 .. n |-> s[g[k]]]
<1>1. \A k \in 1 .. n : g[k] \in Int
  OBVIOUS
<1>2. places = {g[k] : k \in 1 .. n}
  <2>1. \A x : x \in {g[k] : k \in 1 .. n} => x \in places
    OBVIOUS
  <2>2. \A x : x \in places => x \in {g[k] : k \in 1 .. n}
    OBVIOUS
  <2>3. QED
    BY <2>1, <2>2
<1>3. Ascending(places) = [k \in 1 .. n |-> g[k]]
  <2>1. Ascending({g[k] : k \in 1 .. n}) = [k \in 1 .. n |-> g[k]]
    BY ONLY n \in Nat, <1>1, \A j, k \in 1 .. n : j < k => g[j] < g[k], AscendingLists
  <2>2. QED
    BY <1>2, <2>1
<1>4. QED
  BY <1>3 DEF Chosen

==================================================================================
