----------------------------- MODULE MCHybridIndex -----------------------------
(* Instances of HybridIndex for TLC. *)
EXTENDS HybridIndex

CONSTANTS p1, p2, u1, u2, x1, w1, i1, i2, i3, s1

TwoPapers == {p1, p2}
TwoUsers  == {u1, u2}
Owners    == [p \in Paper |-> IF p = p1 THEN u1 ELSE u2]

\* Two scenes in one run.  Rebuilds: up to three of them while one paper is parsed up
\* to three times.  A search: two papers parsed up to twice, and one rebuild.
\* Rebuilds are used in the order of their names.
SearchOrRebuild ==
  \/ /\ \A s \in Search : sc[s] = "new"
     /\ (rb[i2] # "unused" => rb[i1] # "unused") /\ (rb[i3] # "unused" => rb[i2] # "unused")
     /\ gen[p2] = 0 /\ p2 \notin papers
  \/ /\ rb[i2] = "unused" /\ rb[i3] = "unused"
     /\ \A p \in Paper : gen[p] <= 2

===============================================================================
