---------------------------- MODULE MCJobWorker ----------------------------
\* JobWorker for TLC.
EXTENDS JobWorker, TLC

CONSTANTS j1, j2, w1, w2

\* One attempt for j1, two for every other job.
MCMaxAttempts == [j \in Jobs |-> IF j = j1 THEN 1 ELSE 2]

WorkerSymmetry == Permutations(Workers)
=============================================================================
