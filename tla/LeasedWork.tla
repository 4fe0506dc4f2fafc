----------------------------- MODULE LeasedWork -----------------------------
(***************************************************************************)
(* What a durable queue of mulac promises, with nothing of how it keeps    *)
(* the promise: no clock, no locks, no consumers.  Work is accepted once,  *)
(* handed out under leases that are never issued twice, at most            *)
(* MaxAttempts times, and is done only when it was served under the lease  *)
(* it was handed out with last.  A lease can be lost at any moment.        *)
(***************************************************************************)
EXTENDS Integers

CONSTANTS Ids, MaxAttempts

VARIABLES
    phase,   \* "none", "open", "held", "done" or "dropped"
    tries,   \* how often each piece of work was handed out
    lease,   \* the last lease each was handed out under
    issued,  \* the leases are numbered: how many there have been
    served   \* <<id, lease>>: somebody finished the work under that lease

vars == <<phase, tries, lease, issued, served>>

Init ==
    /\ phase = [i \in Ids |-> "none"]
    /\ tries = [i \in Ids |-> 0]
    /\ lease = [i \in Ids |-> 0]
    /\ issued = 0
    /\ served = {}

Accept(i) ==
    /\ phase[i] = "none"
    /\ phase' = [phase EXCEPT ![i] = "open"]
    /\ UNCHANGED <<tries, lease, issued, served>>

(* A batch S is handed out under one new lease; the part of it that cannot *)
(* be served, Lost, is open again at once, one attempt poorer.             *)
Grant(S, Lost) ==
    /\ S # {}
    /\ \A i \in S : phase[i] = "open" /\ tries[i] < MaxAttempts
    /\ phase' = [i \in Ids |-> IF i \in S \ Lost THEN "held" ELSE phase[i]]
    /\ tries' = [i \in Ids |-> IF i \in S THEN tries[i] + 1 ELSE tries[i]]
    /\ lease' = [i \in Ids |-> IF i \in S THEN issued + 1 ELSE lease[i]]
    /\ issued' = issued + 1
    /\ UNCHANGED served

(* Anybody who ever held the work may come to the end of it, even late.    *)
Serve(i, l) ==
    /\ l \in 1 .. issued
    /\ served' = served \cup {<<i, l>>}
    /\ UNCHANGED <<phase, tries, lease, issued>>

Finish(i) ==
    /\ phase[i] = "held"
    /\ <<i, lease[i]>> \in served
    /\ phase' = [phase EXCEPT ![i] = "done"]
    /\ UNCHANGED <<tries, lease, issued, served>>

Release(S) ==
    /\ \A i \in S : phase[i] = "held"
    /\ phase' = [i \in Ids |-> IF i \in S THEN "open" ELSE phase[i]]
    /\ UNCHANGED <<tries, lease, issued, served>>

(* An operator takes the work out of circulation.                          *)
Drop(i) ==
    /\ phase[i] = "held"
    /\ phase' = [phase EXCEPT ![i] = "dropped"]
    /\ UNCHANGED <<tries, lease, issued, served>>

Next ==
    \/ \E i \in Ids : Accept(i) \/ Finish(i) \/ Drop(i)
    \/ \E S, Lost \in SUBSET Ids : Grant(S, Lost)
    \/ \E i \in Ids, l \in 1 .. issued : Serve(i, l)
    \/ \E S \in SUBSET Ids : Release(S)

Spec == Init /\ [][Next]_vars

=============================================================================
