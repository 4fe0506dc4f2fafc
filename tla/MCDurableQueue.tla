--------------------------- MODULE MCDurableQueue ---------------------------
(* Small instances of DurableQueue for TLC, with the commanding crate's    *)
(* backoffs: linear, capped after a failure, uncapped after a sweep.       *)
EXTENDS DurableQueue, TLC

CappedDelay(attempts, previous) == IF attempts > 4 THEN 4 ELSE attempts

SweepDelay(attempts, previous, elapsed) == attempts - elapsed

Symmetry == Permutations(Workers)
=============================================================================
