----------------------------- MODULE MCQueueApi -----------------------------
(* An inbox whose message k1 may be sent and k2 be made up for a message   *)
(* without an id, a command of another build, and nobody who publishes.    *)
EXTENDS QueueApi

CONSTANTS k1, k2, q1, x, y, bad, odd

Home(k) == IF k = q1 THEN "commands" ELSE "inbox"

Queued == [k \in Keys |-> IF k = q1 THEN odd ELSE NoContent]

Run(q, n) == [op |-> "run", queue |-> q, limit |-> n]

Sent ==
    {[op |-> "unreadable"]}
    \cup {[op |-> "submit", key |-> k1, content |-> d] : d \in {x, y, bad}}
    \cup {[op |-> "submit", key |-> NoKey, content |-> x]}
    \cup {Run(q, 2) : q \in {"inbox", "commands", "outbox"}}
    \cup {Run("events", 0), Run("outbox", 3)}
=============================================================================
