---------------------------- MODULE MCIngestJobs ----------------------------
(* Small instances of IngestJobs for TLC.                                    *)
EXTENDS IngestJobs, TLC

CONSTANTS j1, w1, w2

OneJob == {j1}
TwoWorkers == {w1, w2}

\* Slots are interchangeable.
WorkerSymmetry == Permutations(Workers)
=============================================================================
