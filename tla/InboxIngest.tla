---------------------------- MODULE InboxIngest ----------------------------
(***************************************************************************)
(* How messages enter mulac: the AMQP worker of the inbox takes deliveries *)
(* from a broker, stores each in inbox_entries and then acknowledges it.   *)
(* The broker, the channel and the application that starts the worker are  *)
(* modelled from how the worker uses them.                                 *)
(*                                                                         *)
(* A worker runs on a channel of its own.  A delivery it has not settled   *)
(* goes back to the broker when the channel closes, whatever became of it  *)
(* on the worker's side.                                                   *)
(***************************************************************************)
EXTENDS Naturals, Sequences, Functions

CONSTANTS
    Messages,      \* published messages; the same content may be published twice
    Workers,       \* AmqpWorkers, each the consumer of one channel
    KeyOf(_),      \* the message_id property, NoKey when absent or no UUID
    Unreadable,    \* messages whose payload is not UTF-8
    Unstorable,    \* messages PostgreSQL refuses, a zero character in the text
    NoKey,
    NoMessage,
    MaxCopies      \* bound: rows of one message that are told apart

ASSUME IngestAssumption ==
    /\ NoMessage \notin Messages
    /\ Unreadable \subseteq Messages
    /\ Unstorable \subseteq Messages
    /\ MaxCopies \in Nat \ {0}
    /\ Workers \cap {"unpublished", "ready", "acked", "dead_lettered"} = {}

VARIABLES
    holder,   \* where the broker has each message: in a queue, with a worker, gone
    worker,   \* the worker loops
    rows      \* how many rows of inbox_entries were written for each message

vars == <<holder, worker, rows>>

Holders == {"unpublished", "ready", "acked", "dead_lettered"} \cup Workers

(* buffer: delivered and not yet polled; ended: how the last run returned. *)
Worker ==
    [pc : {"polling", "storing", "acking", "nacking", "backoff", "closing", "stopped"},
     msg : Messages \cup {NoMessage}, buffer : Seq(Messages),
     connected : BOOLEAN, cancelled : BOOLEAN,
     ended : {"running", "clean", "error", "crash"}]

TypeOK ==
    /\ holder \in [Messages -> Holders]
    /\ worker \in [Workers -> Worker]
    /\ rows \in [Messages -> 0 .. MaxCopies]

StartedWorker ==
    [pc |-> "polling", msg |-> NoMessage, buffer |-> <<>>,
     connected |-> TRUE, cancelled |-> FALSE, ended |-> "running"]

Init ==
    /\ holder = [m \in Messages |-> "unpublished"]
    /\ worker = [w \in Workers |-> StartedWorker]
    /\ rows = [m \in Messages |-> 0]

-----------------------------------------------------------------------------
(* The broker.                                                             *)

Outstanding(w) == {m \in Messages : holder[m] = w}

Publish(m) ==
    /\ holder[m] = "unpublished"
    /\ holder' = [holder EXCEPT ![m] = "ready"]
    /\ UNCHANGED <<worker, rows>>

(* No prefetch limit is set: whatever is ready may be pushed.              *)
Deliver(w, m) ==
    /\ holder[m] = "ready"
    /\ worker[w].connected
    /\ worker[w].pc # "stopped"
    /\ holder' = [holder EXCEPT ![m] = w]
    /\ worker' = [worker EXCEPT ![w].buffer = Append(@, m)]
    /\ UNCHANGED rows

Requeued(w) ==
    [m \in Messages |-> IF holder[m] = w THEN "ready" ELSE holder[m]]

(* What was pushed before is still polled by the worker, which learns of   *)
(* the loss only when it settles a delivery or has polled everything.      *)
ChannelCloses(w) ==
    /\ worker[w].connected
    /\ holder' = Requeued(w)
    /\ worker' = [worker EXCEPT ![w].connected = FALSE]
    /\ UNCHANGED rows

-----------------------------------------------------------------------------
(* The worker loop.                                                        *)

Goto(w, pc) == worker' = [worker EXCEPT ![w].pc = pc]

Return(w, how) ==
    worker' = [worker EXCEPT ![w].pc = "stopped", ![w].ended = how]

(* next: the oldest delivery.  One that is not UTF-8 is rejected without   *)
(* requeue inside next, and whether that succeeded is ignored.             *)
Poll(w) ==
    /\ worker[w].pc = "polling"
    /\ worker[w].buffer # <<>>
    /\ LET m == Head(worker[w].buffer) IN
          \/ /\ m \notin Unreadable
             /\ worker' = [worker EXCEPT ![w].pc = "storing", ![w].msg = m,
                                         ![w].buffer = Tail(@)]
             /\ UNCHANGED holder
          \/ /\ m \in Unreadable
             /\ worker' = [worker EXCEPT ![w].buffer = Tail(@)]
             /\ holder' = IF holder[m] = w
                          THEN [holder EXCEPT ![m] = "dead_lettered"]
                          ELSE holder
    /\ UNCHANGED rows

(* The stream of a lost channel ends, at once or with an error that the    *)
(* loop returns after its backoff.                                         *)
StreamEnds(w) ==
    /\ worker[w].pc = "polling"
    /\ worker[w].buffer = <<>>
    /\ ~ worker[w].connected
    /\ Return(w, "error") \/ Goto(w, "closing")
    /\ UNCHANGED <<holder, rows>>

Stored(k) == \E m \in Messages : KeyOf(m) = k /\ rows[m] > 0

(* Mutated form: the insert has no ON CONFLICT.                           *)
InsertedTwice(m) == [rows EXCEPT ![m] = @ + 1]

(* The insert.  A message without an id is given a new one each time; one  *)
(* whose id is there already changes nothing, whoever stored it.           *)
Inserted(m) ==
    IF KeyOf(m) # NoKey /\ Stored(KeyOf(m)) THEN rows
    ELSE [rows EXCEPT ![m] = IF @ < MaxCopies THEN @ + 1 ELSE @]

(* Mutated form: a recording failure is acknowledged.                     *)
StoreFailsSilently(w) ==
    /\ worker[w].pc = "storing"
    /\ rows' \in {rows} \cup
          (IF worker[w].msg \in Unstorable THEN {} ELSE {Inserted(worker[w].msg)})
    /\ Goto(w, "acking")
    /\ UNCHANGED holder

StoreSucceeds(w) ==
    /\ worker[w].pc = "storing"
    /\ worker[w].msg \notin Unstorable
    /\ rows' = Inserted(worker[w].msg)
    /\ Goto(w, "acking")
    /\ UNCHANGED holder

(* The database refuses or cannot be reached; or the insert took effect    *)
(* and its answer was lost.                                                *)
StoreFails(w) ==
    /\ worker[w].pc = "storing"
    /\ rows' \in {rows} \cup
          (IF worker[w].msg \in Unstorable THEN {} ELSE {Inserted(worker[w].msg)})
    /\ Goto(w, "nacking")
    /\ UNCHANGED holder

(* The blocking task panics: run returns the error and settles nothing.    *)
StorePanics(w) ==
    /\ worker[w].pc = "storing"
    /\ Return(w, "error")
    /\ UNCHANGED <<holder, rows>>

Ack(w) ==
    /\ worker[w].pc = "acking"
    /\ \/ /\ worker[w].connected
          /\ holder' = [holder EXCEPT ![worker[w].msg] = "acked"]
          /\ Goto(w, "polling")
       \/ /\ ~ worker[w].connected
          /\ Return(w, "error")
          /\ UNCHANGED holder
    /\ UNCHANGED rows

(* An acknowledgement that was sent is lost with the channel.              *)
AckLost(w) ==
    /\ worker[w].pc = "acking"
    /\ worker[w].connected
    /\ holder' = Requeued(w)
    /\ worker' = [worker EXCEPT ![w].pc = "polling", ![w].connected = FALSE]
    /\ UNCHANGED rows

(* Mutated form: the delivery is rejected for good.                       *)
NackForGood(w) ==
    /\ worker[w].pc = "nacking"
    /\ \/ /\ worker[w].connected
          /\ holder' = [holder EXCEPT ![worker[w].msg] = "dead_lettered"]
          /\ Goto(w, "backoff")
       \/ /\ ~ worker[w].connected
          /\ Return(w, "error")
          /\ UNCHANGED holder
    /\ UNCHANGED rows

(* Mutated form: the loop backs off and forgets the delivery.             *)
NackForgotten(w) ==
    /\ worker[w].pc = "nacking"
    /\ Goto(w, "backoff")
    /\ UNCHANGED <<holder, rows>>

Nack(w) ==
    /\ worker[w].pc = "nacking"
    /\ \/ /\ worker[w].connected
          /\ holder' = [holder EXCEPT ![worker[w].msg] = "ready"]
          /\ Goto(w, "backoff")
       \/ /\ ~ worker[w].connected
          /\ Return(w, "error")
          /\ UNCHANGED holder
    /\ UNCHANGED rows

(* Ten seconds have passed.                                                *)
BackoffEnds(w) ==
    /\ \/ worker[w].pc = "backoff" /\ Goto(w, "polling")
       \/ worker[w].pc = "closing" /\ Return(w, "error")
    /\ UNCHANGED <<holder, rows>>

Cancel(w) ==
    /\ worker[w].pc # "stopped"
    /\ ~ worker[w].cancelled
    /\ worker' = [worker EXCEPT ![w].cancelled = TRUE]
    /\ UNCHANGED <<holder, rows>>

(* Mutated form: only a backoff listens to the token.                     *)
StopInBackoff(w) ==
    /\ worker[w].pc \in {"backoff", "closing"}
    /\ worker[w].cancelled
    /\ Return(w, "clean")
    /\ UNCHANGED <<holder, rows>>

(* Each select of the loop listens to the token.  It takes either branch   *)
(* when both are ready.                                                    *)
Stop(w) ==
    /\ worker[w].pc \in {"polling", "backoff", "closing"}
    /\ worker[w].cancelled
    /\ Return(w, "clean")
    /\ UNCHANGED <<holder, rows>>

-----------------------------------------------------------------------------
(* The application: the process dies with its connection, and a worker     *)
(* that has ended is started again on a new channel.                       *)

Crash(w) ==
    /\ worker[w].pc # "stopped"
    /\ holder' = Requeued(w)
    /\ worker' = [worker EXCEPT ![w].pc = "stopped", ![w].connected = FALSE,
                                ![w].ended = "crash"]
    /\ UNCHANGED rows

Restart(w) ==
    /\ worker[w].pc = "stopped"
    /\ ~ worker[w].connected
    /\ worker' = [worker EXCEPT ![w] = StartedWorker]
    /\ UNCHANGED <<holder, rows>>

Settle(w) == Ack(w) \/ Nack(w)

Loop(w) ==
    \/ Poll(w)
    \/ StreamEnds(w)
    \/ StoreSucceeds(w)
    \/ StoreFails(w)
    \/ StorePanics(w)
    \/ Settle(w)
    \/ AckLost(w)
    \/ BackoffEnds(w)
    \/ Stop(w)

Next ==
    \/ \E m \in Messages : Publish(m)
    \/ \E w \in Workers :
          \/ \E m \in Messages : Deliver(w, m)
          \/ ChannelCloses(w)
          \/ Loop(w)
          \/ Cancel(w)
          \/ Crash(w)
          \/ Restart(w)

Spec == Init /\ [][Next]_vars

(* What an application can end: nothing is promised while it goes on.      *)
Disturbance(w) ==
    \/ Crash(w)
    \/ worker[w].pc # "stopped" /\ ChannelCloses(w)
    \/ AckLost(w)
    \/ StorePanics(w)
    \/ Cancel(w)

(* The loop and the broker go on, an ended worker is given up with its     *)
(* channel and started again, and a select whose token branch is ready     *)
(* over and over takes it some time.  The database does not refuse the     *)
(* same message for ever, unless it can never store it, and disturbances   *)
(* end.                                                                    *)
Fairness ==
    /\ \A m \in Messages :
          /\ WF_vars(\E w \in Workers : Deliver(w, m))
          /\ SF_vars(\E w \in Workers : worker[w].msg = m /\ StoreSucceeds(w))
    /\ \A w \in Workers :
          /\ WF_vars(Poll(w) \/ StreamEnds(w) \/ BackoffEnds(w))
          /\ WF_vars(StoreSucceeds(w) \/ StoreFails(w) \/ StorePanics(w))
          /\ WF_vars(Settle(w))
          /\ SF_vars(Stop(w))
          /\ WF_vars(worker[w].pc = "stopped" /\ ChannelCloses(w))
          /\ WF_vars(Restart(w))

FairSpec == Spec /\ Fairness

QuietSpec == FairSpec /\ <>[][\A w \in Workers : ~ Disturbance(w)]_vars

-----------------------------------------------------------------------------
(* Properties.                                                             *)

Recorded(m) ==
    IF KeyOf(m) = NoKey THEN rows[m] > 0 ELSE Stored(KeyOf(m))

AckedIsStored == \A m \in Messages : holder[m] = "acked" => Recorded(m)

(* The broker lets go of a message only when a row holds its id, or when it*)
(* is no text and dead-lettered for that: no crash, lost answer or failed  *)
(* insert, and no refusal of the database, loses one that could be read.   *)
SettledIsStored ==
    /\ AckedIsStored
    /\ \A m \in Messages : holder[m] = "dead_lettered" => m \in Unreadable

(* Whatever is delivered again, to the same worker or to another while the *)
(* first is still storing it, an id is in the inbox once.                  *)
OneRowPerKey ==
    \A m, n \in Messages :
        /\ KeyOf(m) = KeyOf(n)
        /\ KeyOf(m) # NoKey
        /\ rows[m] > 0
        /\ rows[n] > 0
        => m = n /\ rows[m] = 1

InHand(w) ==
    IF worker[w].pc \in {"storing", "acking", "nacking"} THEN {worker[w].msg} ELSE {}

Forgotten(w) == Outstanding(w) \ (InHand(w) \cup Range(worker[w].buffer))

(* What the broker thinks a worker has, the worker has: it is still to be  *)
(* polled or about to be settled, and a worker that was cancelled has      *)
(* settled everything it took.                                             *)
NoneForgotten ==
    \A w \in Workers : worker[w].ended # "error" => Forgotten(w) = {}

(* Every published message that can be stored is stored in the end, even   *)
(* behind one the database refuses for ever.                               *)
EveryMessageStored ==
    \A m \in Messages \ (Unreadable \cup Unstorable) :
        holder[m] # "unpublished" ~> Recorded(m)

(* A cancelled worker returns, however many deliveries keep coming.        *)
CancelledStops ==
    \A w \in Workers : worker[w].cancelled ~> worker[w].pc = "stopped"
=============================================================================
