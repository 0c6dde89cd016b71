------------------------------ MODULE MCIngestion ------------------------------
(* Instances of Ingestion for TLC. *)
EXTENDS Ingestion, TLC

CONSTANTS p1, w1, w2

OnePaper   == {p1}
OneWorker  == {w1}
TwoWorkers == {w1, w2}

OneBatch   == {1}
TwoBatches == {1, 2}

\* Shorter retry budgets than the code's (2, 3, 2, 2): one retry is enough to
\* separate a first attempt, a retried one and an exhausted one.
OneRetry == [t \in Task |-> IF t = "process" THEN 0 ELSE 1]

WorkerSymmetry == Permutations(Worker)

===============================================================================
