--------------------------- MODULE MCOutboxQueue ---------------------------
(* Small instances of OutboxQueue, with the backoffs of the outbox: capped *)
(* in both places, and an exhausted row keeps the schedule it had.         *)
EXTENDS OutboxQueue, TLC

FailureDelay(attempts, previous) ==
    IF attempts >= MaxAttempts THEN previous
    ELSE IF attempts > 4 THEN 4 ELSE attempts

TimeoutDelay(attempts, previous, elapsed) ==
    IF attempts >= MaxAttempts THEN previous
    ELSE (IF attempts > 4 THEN 4 ELSE attempts) - elapsed

Symmetry == Permutations(Workers)
=============================================================================
