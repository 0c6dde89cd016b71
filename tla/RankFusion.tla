------------------------------ MODULE RankFusion ------------------------------
(***************************************************************************)
(* retrieval/fusion.py: two ranked lists become one by the ranks alone.    *)
(* A score is a sum of at most two fractions 1 / (RRF_K + rank), kept as a *)
(* fraction of integers so that two of them compare exactly.               *)
(***************************************************************************)
EXTENDS Integers, Sequences, FiniteSets, SequencesExt, Selections

CONSTANT RrfK  \* RRF_K, 60

ASSUME RrfAssumption == RrfK \in Nat

Max0(a, b) == IF a > b THEN a ELSE b
Min0(a, b) == IF a < b THEN a ELSE b

FirstOf(s, n) == SubSeq(s, 1, Min0(n, Len(s)))

\* list.sort(key, reverse=True): descending, and equal keys stay in place.  `above`
\* has the pairs whose first element has the greater key.
RankedBy(s, above) ==
  LET Before(i, j) == <<s[i], s[j]>> \in above \/ (<<s[j], s[i]>> \notin above /\ i < j)
      Place(i) == 1 + Cardinality({j \in DOMAIN s : Before(j, i)})
  IN  [k \in DOMAIN s |-> s[CHOOSE i \in DOMAIN s : Place(i) = k]]

\* The rank of a chunk in a list, 0 where the code keeps None.
RankIn(list, c) ==
  IF \E i \in DOMAIN list : list[i] = c THEN CHOOSE i \in DOMAIN list : list[i] = c ELSE 0

\* The denominator of one contribution: k + rank.
Damped(rank) == RrfK + rank

\* The score of a chunk with these ranks, as a fraction <<numerator, denominator>>.
FusedScore(d, s) ==
  IF d = 0 THEN <<1, Damped(s)>>
  ELSE IF s = 0 THEN <<1, Damped(d)>>
  ELSE <<Damped(d) + Damped(s), Damped(d) * Damped(s)>>

Greater(a, b) == a[1] * b[2] > b[1] * a[2]

FoundByBoth(d, s) == d # 0 /\ s # 0

(* Mutant: a chunk both retrievers found keeps the score of the second only. *)
Outranks_LastOnly(d1, s1, d2, s2) ==
  LET Second(d, s) == IF s = 0 THEN FusedScore(d, 0) ELSE FusedScore(0, s)
  IN  Greater(Second(d1, s1), Second(d2, s2))

\* The key of the sort: the score, ties toward the chunks both retrievers found.
Outranks(d1, s1, d2, s2) ==
  \/ Greater(FusedScore(d1, s1), FusedScore(d2, s2))
  \/ /\ ~ Greater(FusedScore(d2, s2), FusedScore(d1, s1))
     /\ FoundByBoth(d1, s1) /\ ~ FoundByBoth(d2, s2)

\* The dict of fused hits, in the order its keys were inserted.
Merged(dense, sparse) ==
  dense \o Chosen(sparse, {i \in DOMAIN sparse : RankIn(dense, sparse[i]) = 0})

\* reciprocal_rank_fusion, before the cut.
Fuse(dense, sparse) ==
  LET found == ToSet(Merged(dense, sparse))
  IN  RankedBy(Merged(dense, sparse),
               {ab \in found \X found : Outranks(RankIn(dense, ab[1]), RankIn(sparse, ab[1]),
                                                RankIn(dense, ab[2]), RankIn(sparse, ab[2]))})
================================================================================
