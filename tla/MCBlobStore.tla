----------------------------- MODULE MCBlobStore -----------------------------
(* Instances of BlobStore for TLC. *)
EXTENDS BlobStore, TLC

CONSTANTS r1, r2, r3, r4, x1, x2, a, b, one

ThreeRequests == {r1, r2, r3}
FourRequests  == {r1, r2, r3, r4}
OneReplica    == {x1}
TwoReplicas   == {x1, x2}
TwoWorkspaces == {a, b}
OneContent    == {one}
OneSuffix     == {"pdf"}
TwoSuffixes   == {"pdf", "bin"}

\* Papers are named after requests: every use of a request is symmetric.
BlobSymmetry == Permutations(Request) \cup Permutations(Replica)
                    \cup Permutations(Workspace)

===============================================================================
