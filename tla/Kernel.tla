------------------------------- MODULE Kernel -------------------------------
(***************************************************************************)
(* The kernel's persistent mode: three durable queues in a row.  An inbox  *)
(* message becomes a command, a command is handled and hands off events,   *)
(* an event is heard by its subscribers, which may record commands again.  *)
(* Background workers consume the queues, and so does every caller of      *)
(* dispatch_command, inline, for a fixed number of rounds and whoever's    *)
(* work it finds.                                                          *)
(*                                                                         *)
(* A queue is what DurableQueue shows it to be (the promise of LeasedWork):*)
(* rows are leased, a lease is lost to a sweep, and only the holder of the *)
(* last lease can finish a row.  A row's attempt count numbers its leases. *)
(* The application is a parameter: Execute is one statement of a command   *)
(* handler, Deliver one call of a subscriber, Route the conversion of an   *)
(* inbox message.  Nothing between two statements is in a transaction.     *)
(***************************************************************************)
EXTENDS Integers, Sequences, FiniteSets

CONSTANTS
    Callers,               \* calls of dispatch_command, one each
    InboxWorkers, CommandWorkers, EventWorkers,  \* background consumers
    Ids,                   \* bound: the keys a table has room for
    Data, NoData,          \* what rows carry: messages, commands and events
    Requests,              \* the commands callers may submit
    Mail,                  \* the messages ingestion has stored in the inbox
    MaxAttempts,           \* max_attempts of every consumer
    Rounds,                \* drain_rounds of start_persistent
    Limit,                 \* the limit of a reservation
    ClocksAgree,           \* a row just recorded is due for the database too
    Swept,                 \* the queues somebody runs a sweeper for
    MaxFaults,             \* bound: crashes, panics and database errors
    InitDb,                \* the application's tables at the start
    NoMemory,              \* the local variables of a handler not yet begun
    NoError, StorageError, \* no error, and any that is not the handler's own
    Execute(_, _, _),      \* (tables, command, locals): one handler statement
    Deliver(_, _, _, _),   \* (tables, event id, event, k): the k-th subscriber
    Subscribers(_),        \* how many subscribers an event has
    Route(_)               \* the command of an inbox message, or NoData

Queues == {"inbox", "command", "event"}
Workers == InboxWorkers \cup CommandWorkers \cup EventWorkers
Agents == Callers \cup Workers

ASSUME KernelAssumption ==
    /\ Ids \subseteq Nat \ {0}
    /\ IsFiniteSet(Ids)
    /\ NoData \notin Data
    /\ Requests \subseteq Data
    /\ Mail \subseteq Ids \X Data
    /\ MaxAttempts \in Nat \ {0}
    /\ Rounds \in Nat
    /\ Limit \in Nat \ {0}
    /\ ClocksAgree \in BOOLEAN
    /\ Swept \subseteq Queues
    /\ MaxFaults \in Nat
    /\ Callers \cap Workers = {}
    /\ \A d \in Data : Subscribers(d) \in Nat

-----------------------------------------------------------------------------
VARIABLES
    db,       \* the application's own tables
    memory,   \* per agent: the locals of its handler, then its item's error
    error,    \* per caller: the first error of its batch
    rows,     \* the three tables
    agent,    \* per agent: where its call of consume or dispatch_command is
    heard,    \* history: <<event, lease, k>>, the k-th subscriber returned Ok
    faults,   \* how many of MaxFaults have happened
    locks,    \* per agent: the rows its open reservation has selected
    dropped,  \* history: the commands of reservations that broke off
    crowded   \* history: callers whose batches of commands were all full

claims == <<locks, dropped, crowded>>
vars == <<db, memory, error, rows, agent, heard, faults, claims>>

NoCause == <<"none", 0, 0, 0>>

(* by: the row, lease and part of the work that recorded this row; made:   *)
(* history, the events the handler returned to the attempt that completed. *)
Row == [data : Data \cup {NoData}, status : {"none", "open", "held", "done"},
        attempts : 0 .. MaxAttempts,
        by : (Queues \cup {"caller", "none"}) \X Nat \X Nat \X Nat,
        made : Seq(Data)]

Agent == [pc : {"idle", "reserving", "selected", "batch", "converting", "working",
                "emitting", "notifying", "completing", "failing",
                "returned", "gone"},
          queue : Queues, todo : SUBSET (Ids \X Nat), item : Nat, lease : Nat,
          out : Seq(Data), sent : Nat, round : Nat, failed : BOOLEAN,
          mine : Ids \cup {0}]

TypeOK ==
    /\ rows \in [Queues -> [Ids -> Row]]
    /\ agent \in [Agents -> Agent]
    /\ heard \subseteq Nat \X Nat \X Nat
    /\ faults \in Nat
    /\ locks \in [Agents -> SUBSET Ids]
    /\ dropped \subseteq Ids
    /\ crowded \subseteq Callers

NoRow == [data |-> NoData, status |-> "none", attempts |-> 0,
          by |-> NoCause, made |-> <<>>]

NewRow(data, by) == [NoRow EXCEPT !.data = data, !.status = "open", !.by = by]

HomeQueue(a) == IF a \in InboxWorkers THEN "inbox"
                ELSE IF a \in EventWorkers THEN "event" ELSE "command"

IdleOn(q) == [pc |-> "idle", queue |-> q, todo |-> {}, item |-> 0, lease |-> 0,
              out |-> <<>>, sent |-> 0, round |-> 0, failed |-> FALSE, mine |-> 0]

MailRow(i) == IF \E d \in Data : <<i, d>> \in Mail
              THEN NewRow(CHOOSE d \in Data : <<i, d>> \in Mail, NoCause)
              ELSE NoRow

Init ==
    /\ db = InitDb
    /\ memory = [a \in Agents |-> NoMemory]
    /\ error = [c \in Callers |-> NoError]
    /\ rows = [q \in Queues |->
                  [i \in Ids |-> IF q = "inbox" THEN MailRow(i) ELSE NoRow]]
    /\ agent = [a \in Agents |-> IdleOn(HomeQueue(a))]
    /\ heard = {}
    /\ faults = 0
    /\ locks = [a \in Agents |-> {}]
    /\ dropped = {}
    /\ crowded = {}

-----------------------------------------------------------------------------
(* Recording, ON CONFLICT DO NOTHING: a key in use keeps the row it has.   *)
Unused(q) == {i \in Ids : rows[q][i].status = "none"}

Record(q, i, data, by) ==
    rows' = IF i \in Unused(q) THEN [rows EXCEPT ![q][i] = NewRow(data, by)] ELSE rows

(* A key of one's own, Uuid::now_v7, which nobody has used.                *)
FreshId(q) == CHOOSE i \in Unused(q) : TRUE

RecordNew(q, data, by) ==
    /\ Unused(q) # {}
    /\ Record(q, FreshId(q), data, by)

Item(a) == rows[agent[a].queue][agent[a].item]
Cause(a, k) == <<agent[a].queue, agent[a].item, agent[a].lease, k>>
Owned(a) == Item(a).status = "held" /\ Item(a).attempts = agent[a].lease

(* After its last item a worker sleeps; a caller's consume returns.        *)
ItemDone(a, failed) ==
    agent' = [agent EXCEPT
        ![a].pc = IF agent[a].todo = {} /\ a \in Workers THEN "idle" ELSE "batch",
        ![a].item = 0, ![a].lease = 0, ![a].out = <<>>, ![a].sent = 0,
        ![a].failed = a \in Callers /\ (@ \/ failed)]

ItemFails(a, reason) ==
    /\ agent' = [agent EXCEPT ![a].pc = "failing"]
    /\ memory' = [memory EXCEPT ![a] = reason]

-----------------------------------------------------------------------------
(* Mutated form: the rounds begin with the events.                         *)
SubmitEventsFirst(c, r, i) ==
    /\ agent[c].pc = "idle"
    /\ Record("command", i, r, <<"caller", i, 0, 0>>)
    /\ agent' = [agent EXCEPT ![c].pc = IF Rounds = 0 THEN "returned" ELSE "reserving",
                              ![c].queue = "event",
                              ![c].mine = i]
    /\ UNCHANGED <<db, memory, error, heard, faults, claims>>

(* dispatch_command: the command is recorded under its id, then the rounds *)
(* begin.  The id is a new one, or one the caller was given: if a command  *)
(* has it already, nothing is recorded and the call goes on.               *)
Submit(c, r, i) ==
    /\ agent[c].pc = "idle"
    /\ Record("command", i, r, <<"caller", i, 0, 0>>)
    /\ agent' = [agent EXCEPT ![c].pc = IF Rounds = 0 THEN "returned" ELSE "reserving",
                              ![c].mine = i]
    /\ UNCHANGED <<db, memory, error, heard, faults, claims>>

(* The rows of open reservations.                                          *)
Locked(q) == UNION {locks[a] : a \in {b \in Agents : agent[b].queue = q}}

(* Mutated form: a row may be tried once more than the limit.              *)
DuePastLimit(q) ==
    {i \in Ids \ Locked(q) : rows[q][i].status = "open" /\ rows[q][i].attempts <= MaxAttempts}

(* Mutated form: a row is never tried the last time.                       *)
DueBelowLimit(q) ==
    {i \in Ids \ Locked(q) : rows[q][i].status = "open" /\ rows[q][i].attempts + 1 < MaxAttempts}

(* A reservation is a transaction: it selects a batch, due rows up to the  *)
(* limit, and skips those another open reservation has locked.  A row that *)
(* was tried is due after a backoff; one never tried is due at once, unless*)
(* the clock that stamped it is ahead of the database's.                   *)
Due(q) ==
    {i \in Ids \ Locked(q) : rows[q][i].status = "open" /\ rows[q][i].attempts < MaxAttempts}

Batches(q) ==
    {S \in SUBSET Due(q) :
        /\ Cardinality(S) <= Limit
        /\ ClocksAgree /\ Cardinality(S) < Limit =>
               \A i \in Due(q) \ S : rows[q][i].attempts > 0}

(* Mutated form: an attempt is counted when it fails, not when it begins.  *)
LeaseUncounted(q, S) ==
    rows' = [rows EXCEPT ![q] = [i \in Ids |->
        IF i \in S THEN [rows[q][i] EXCEPT !.status = "held"] ELSE rows[q][i]]]

Lease(q, S) ==
    rows' = [rows EXCEPT ![q] = [i \in Ids |->
        IF i \in S THEN [rows[q][i] EXCEPT !.status = "held", !.attempts = @ + 1]
        ELSE rows[q][i]]]

MayReserve(a) == agent[a].pc = IF a \in Workers THEN "idle" ELSE "reserving"

SelectBatch(a, S) ==
    /\ MayReserve(a)
    /\ a \in Workers => S # {}
    /\ locks' = [locks EXCEPT ![a] = S]
    /\ crowded' = IF a \in Workers \/ agent[a].queue # "command" THEN crowded
                  ELSE IF Cardinality(S) < Limit THEN crowded \ {a}
                  ELSE IF agent[a].round = 0 THEN crowded \cup {a} ELSE crowded
    /\ agent' = [agent EXCEPT ![a].pc = "selected"]
    /\ UNCHANGED <<db, memory, error, rows, heard, faults, dropped>>

Select(a) == \E S \in Batches(agent[a].queue) : SelectBatch(a, S)

Unlock(a) == locks' = [locks EXCEPT ![a] = {}]

(* It commits: the rows are its own until a sweep takes them back.         *)
Reserve(a) ==
    /\ agent[a].pc = "selected"
    /\ Lease(agent[a].queue, locks[a])
    /\ agent' = [agent EXCEPT ![a].pc = "batch", ![a].todo =
                    {<<i, rows[agent[a].queue][i].attempts + 1>> : i \in locks[a]}]
    /\ Unlock(a)
    /\ UNCHANGED <<db, memory, error, heard, faults, dropped, crowded>>

FirstStep(q, data) ==
    CASE q = "inbox"   -> "converting"
      [] q = "command" -> "working"
      [] q = "event"   -> IF Subscribers(data) = 0 THEN "completing" ELSE "notifying"

Begin(a) ==
    /\ agent[a].pc = "batch"
    /\ \E lease \in agent[a].todo :
          agent' = [agent EXCEPT
              ![a].pc = FirstStep(agent[a].queue, rows[agent[a].queue][lease[1]].data),
              ![a].item = lease[1], ![a].lease = lease[2], ![a].todo = @ \ {lease}]
    /\ UNCHANGED <<db, memory, error, rows, heard, faults, claims>>

-----------------------------------------------------------------------------
(* An inbox message: each attempt makes a command with an id of its own.   *)
Convert(a) ==
    /\ agent[a].pc = "converting"
    /\ IF Route(Item(a).data) \in Data
       THEN /\ RecordNew("command", Route(Item(a).data), Cause(a, 1))
            /\ agent' = [agent EXCEPT ![a].pc = "completing"]
            /\ UNCHANGED memory
       ELSE ItemFails(a, StorageError) /\ UNCHANGED rows
    /\ UNCHANGED <<db, error, heard, faults, claims>>

(* A command: one statement of its handler.  An event the wrapper cannot   *)
(* encode is an error of the attempt, and none of its events is handed off.*)
HandlerStep(a) ==
    LET r == Execute(db, Item(a).data, memory[a]) IN
    /\ agent[a].pc = "working"
    /\ db' = r.db
    /\ \/ /\ r.then = "more"
          /\ memory' = [memory EXCEPT ![a] = r.memory]
          /\ UNCHANGED agent
       \/ /\ r.then = "ok"
          /\ r.events \in Seq(Data)
          /\ agent' = [agent EXCEPT
                ![a].pc = IF r.events = <<>> THEN "completing" ELSE "emitting",
                ![a].out = r.events]
          /\ memory' = [memory EXCEPT ![a] = NoMemory]
       \/ /\ r.then = "error" \/ (r.then = "ok" /\ r.events \notin Seq(Data))
          /\ ItemFails(a, r.error)
    /\ UNCHANGED <<error, rows, heard, faults, claims>>

(* Its events, handed off one by one, each a row of its own.               *)
Emit(a) ==
    LET k == agent[a].sent + 1 IN
    /\ agent[a].pc = "emitting"
    /\ RecordNew("event", agent[a].out[k], Cause(a, k))
    /\ agent' = [agent EXCEPT ![a].sent = k,
                    ![a].pc = IF k = Len(agent[a].out) THEN "completing" ELSE @]
    /\ UNCHANGED <<db, memory, error, heard, faults, claims>>

(* An event: its subscribers in order, until the first error.              *)
Notify(a) ==
    LET k == agent[a].sent + 1
        r == Deliver(db, agent[a].item, Item(a).data, k)
    IN
    /\ agent[a].pc = "notifying"
    /\ db' = r.db
    /\ IF r.error = NoError
       THEN /\ heard' = heard \cup {<<agent[a].item, agent[a].lease, k>>}
            /\ agent' = [agent EXCEPT ![a].sent = k,
                   ![a].pc = IF k = Subscribers(Item(a).data) THEN "completing" ELSE @]
            /\ IF r.command \in Data THEN RecordNew("command", r.command, Cause(a, k))
               ELSE UNCHANGED rows
            /\ UNCHANGED memory
       ELSE ItemFails(a, r.error) /\ UNCHANGED <<rows, heard>>
    /\ UNCHANGED <<error, faults, claims>>

-----------------------------------------------------------------------------
(* Finishing an item, under the reservation that claimed it.               *)

CompleteRow(a) ==
    rows' = [rows EXCEPT ![agent[a].queue][agent[a].item].status = "done",
                         ![agent[a].queue][agent[a].item].made = agent[a].out]

Complete(a) ==
    /\ agent[a].pc = "completing"
    /\ IF Owned(a)
       THEN CompleteRow(a) /\ ItemDone(a, FALSE) /\ UNCHANGED memory
       ELSE ItemFails(a, StorageError) /\ UNCHANGED rows
    /\ UNCHANGED <<db, error, heard, faults, claims>>

(* The failure is written if the row is still owned.  Of an item's errors  *)
(* the one from writing the failure comes first; of a batch's, the first   *)
(* item's: it is what the caller will be told, whoever's work it was.      *)
FailItem(a, written) ==
    /\ rows' = IF written
               THEN [rows EXCEPT ![agent[a].queue][agent[a].item].status = "open"]
               ELSE rows
    /\ error' = IF a \in Callers /\ ~ agent[a].failed
                THEN [error EXCEPT ![a] = IF written THEN memory[a] ELSE StorageError]
                ELSE error
    /\ memory' = [memory EXCEPT ![a] = NoMemory]
    /\ ItemDone(a, TRUE)

Fail(a) ==
    /\ agent[a].pc = "failing"
    /\ FailItem(a, Owned(a))
    /\ UNCHANGED <<db, heard, faults, claims>>

(* A caller's batch is done: an error in it ends the call; otherwise the   *)
(* events' turn comes, then the next round, until the rounds are used up.  *)
EndBatch(c) ==
    LET last == agent[c].queue = "event" /\ agent[c].round + 1 = Rounds IN
    /\ c \in Callers
    /\ agent[c].pc = "batch"
    /\ agent[c].todo = {}
    /\ agent' = [agent EXCEPT
           ![c].pc = IF agent[c].failed \/ last THEN "returned" ELSE "reserving",
           ![c].queue = IF @ = "command" THEN "event" ELSE "command",
           ![c].round = IF agent[c].queue = "event" THEN @ + 1 ELSE @]
    /\ UNCHANGED <<db, memory, error, rows, heard, faults, claims>>

-----------------------------------------------------------------------------
(* What goes wrong, MaxFaults times at most.                               *)
Fault ==
    /\ faults < MaxFaults
    /\ faults' = faults + 1

(* The caller is told of a storage error, whether the row is there or not. *)
SubmitFails(c, r, i) ==
    /\ Fault
    /\ agent[c].pc = "idle"
    /\ \/ Record("command", i, r, <<"caller", i, 0, 0>>)
       \/ UNCHANGED rows
    /\ agent' = [agent EXCEPT ![c].pc = "returned", ![c].failed = TRUE]
    /\ error' = [error EXCEPT ![c] = StorageError]
    /\ UNCHANGED <<db, memory, heard, claims>>

(* A reservation that does not commit gives its rows up as they were.      *)
RollBack(a) ==
    /\ Unlock(a)
    /\ dropped' = IF agent[a].queue = "command" THEN dropped \cup locks[a] ELSE dropped
    /\ UNCHANGED crowded

(* The reservation fails at its start or rolls back, or it commits and its *)
(* answer is lost: then nobody has the batch.                              *)
ReserveFails(a) ==
    /\ Fault
    /\ MayReserve(a) \/ agent[a].pc = "selected"
    /\ \/ RollBack(a) /\ UNCHANGED rows
       \/ /\ Lease(agent[a].queue, locks[a])
          /\ Unlock(a)
          /\ UNCHANGED <<dropped, crowded>>
    /\ IF a \in Callers
       THEN /\ agent' = [agent EXCEPT ![a].pc = "returned", ![a].failed = TRUE]
            /\ error' = [error EXCEPT ![a] = StorageError]
       ELSE agent' = [agent EXCEPT ![a].pc = "idle"] /\ UNCHANGED error
    /\ UNCHANGED <<db, memory, heard>>

(* Mutated form: an error of the work is logged, and the item completed.    *)
WorkFailsUnnoticed(a) ==
    /\ Fault
    /\ agent[a].pc \in {"converting", "emitting", "notifying"}
    /\ agent' = [agent EXCEPT ![a].pc = "completing"]
    /\ UNCHANGED <<db, memory, error, rows, heard, claims>>

(* A panic or a database error in the middle of the work.                  *)
WorkFails(a) ==
    /\ Fault
    /\ agent[a].pc \in {"converting", "working", "emitting", "notifying"}
    /\ ItemFails(a, StorageError)
    /\ UNCHANGED <<db, error, rows, heard, claims>>

(* The completion fails, or it commits and its answer is lost.             *)
CompleteFails(a) ==
    /\ Fault
    /\ agent[a].pc = "completing"
    /\ UNCHANGED rows \/ (Owned(a) /\ CompleteRow(a))
    /\ ItemFails(a, StorageError)
    /\ UNCHANGED <<db, error, heard, claims>>

FailFails(a) ==
    /\ Fault
    /\ agent[a].pc = "failing"
    /\ FailItem(a, FALSE)
    /\ UNCHANGED <<db, heard, claims>>

(* The process dies, or shuts down without waiting for what is in flight.  *)
Crash(a) ==
    /\ Fault
    /\ agent[a].pc \notin {"idle", "returned", "gone"}
    /\ agent' = [agent EXCEPT ![a] =
          [IdleOn(HomeQueue(a)) EXCEPT !.pc = IF a \in Callers THEN "gone" ELSE "idle"]]
    /\ memory' = [memory EXCEPT ![a] = NoMemory]
    /\ RollBack(a)
    /\ UNCHANGED <<db, error, rows, heard>>

(* A sweep gives a stale row back, whether its holder is gone or slow.     *)
Sweep(q, i) ==
    /\ rows[q][i].status = "held"
    /\ rows' = [rows EXCEPT ![q][i].status = "open"]
    /\ UNCHANGED <<db, memory, error, agent, heard, faults, claims>>

-----------------------------------------------------------------------------
Work(a) ==
    \/ Begin(a)
    \/ Convert(a)
    \/ HandlerStep(a)
    \/ Emit(a)
    \/ Notify(a)
    \/ Complete(a)
    \/ Fail(a)
    \/ EndBatch(a)

Trouble(a) ==
    \/ ReserveFails(a)
    \/ WorkFails(a)
    \/ CompleteFails(a)
    \/ FailFails(a)
    \/ Crash(a)

KernelStep ==
    \/ \E a \in Agents : Select(a) \/ Reserve(a) \/ Work(a) \/ Trouble(a)
    \/ \E q \in Swept, i \in Ids : Sweep(q, i)

Next ==
    \/ \E c \in Callers, r \in Requests, i \in Ids :
          /\ i \in Unused("command") => i = FreshId("command")
          /\ Submit(c, r, i) \/ SubmitFails(c, r, i)
    \/ KernelStep

Spec == Init /\ [][Next]_vars

(* Workers poll for ever and find every row that is due, a backoff ends,   *)
(* threads are scheduled and somebody runs the sweepers.                   *)
Fairness ==
    /\ \A a \in Agents :
          /\ WF_vars(Reserve(a) \/ Work(a))
          /\ WF_vars(\E S \in Batches(agent[a].queue) :
                        /\ \A T \in Batches(agent[a].queue) : Cardinality(T) <= Cardinality(S)
                        /\ SelectBatch(a, S))
    /\ \A q \in Swept, i \in Ids : WF_vars(Sweep(q, i))

FairSpec == Spec /\ Fairness

-----------------------------------------------------------------------------
(* Properties.                                                             *)

RecordedBy(q, cause, data) ==
    \E i \in Ids : rows[q][i].by = cause /\ rows[q][i].data = data

(* A completed command has announced itself in full: each event its        *)
(* handler returned to the attempt that completed is a row, however many   *)
(* attempts broke off between the handler and its last event.              *)
CompletedAnnounced ==
    \A i \in Ids : rows["command"][i].status = "done" =>
        \A k \in DOMAIN rows["command"][i].made :
            RecordedBy("event", <<"command", i, rows["command"][i].attempts, k>>,
                       rows["command"][i].made[k])

(* A completed event was heard by every subscriber in one and the same     *)
(* attempt, the last: an earlier one that stopped half way does not count. *)
DeliveredToAll ==
    \A i \in Ids : rows["event"][i].status = "done" =>
        \A k \in 1 .. Subscribers(rows["event"][i].data) :
            <<i, rows["event"][i].attempts, k>> \in heard

(* A completed inbox message is a command that was recorded.               *)
MessageBecomesCommand ==
    \A i \in Ids : rows["inbox"][i].status = "done" =>
        RecordedBy("command", <<"inbox", i, rows["inbox"][i].attempts, 1>>,
                   Route(rows["inbox"][i].data))

(* What an attempt hands on it hands on once: two rows of one cause never  *)
(* exist, so the duplicates of a retry are told apart by their attempt.    *)
CauseUnique ==
    \A q \in Queues : \A i, j \in Ids :
        rows[q][i].by = rows[q][j].by /\ rows[q][i].by # NoCause => i = j

(* A dispatch_command that returns Ok without anybody having tried the     *)
(* command under its id leaves two explanations, if the clocks agree: other*)
(* commands filled every batch the caller got, or another consumer's       *)
(* reservation holds the row this moment, or held it and broke off.        *)
OkMeansTaken ==
    ClocksAgree /\ Rounds > 0 =>
        \A c \in Callers \ crowded : agent[c].pc = "returned" /\ ~ agent[c].failed =>
            \/ rows["command"][agent[c].mine].attempts > 0
            \/ agent[c].mine \in Locked("command") \cup dropped

(* The work comes to rest: whatever crashes, in the end every row is       *)
(* completed or has used up its attempts, those recorded on the way too.   *)
EveryRowSettles ==
    <>[](\A q \in Queues, i \in Ids :
            \/ rows[q][i].status \in {"none", "done"}
            \/ rows[q][i].status = "open" /\ rows[q][i].attempts = MaxAttempts)
=============================================================================
