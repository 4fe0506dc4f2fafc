---------------------------- MODULE DurableQueue ----------------------------
(***************************************************************************)
(* The durable work queue at the heart of mulac: a PostgreSQL table whose  *)
(* rows are claimed in batches, worked on outside any transaction, and     *)
(* finalized under the reservation that claimed them, while a sweeper      *)
(* takes stale reservations back.  Four crates (commanding, eventing,      *)
(* inbox, outbox) hold the same machine; this module is translated from    *)
(* libs/commanding and takes the rules that differ as constant operators.  *)
(*                                                                         *)
(* Granularity.  One action is one committed database transaction, or one  *)
(* step of a worker between two transactions.  The sweep transaction is    *)
(* the only one that reads some rows, waits for locks, and then writes by  *)
(* primary key alone: it is split into its reads, its locks and its write. *)
(*                                                                         *)
(* Time.  One tick is 30 seconds, the unit of every backoff in the code.   *)
(* scheduled_in is scheduled_at - now, reserved_for is now - reserved_at:  *)
(* the two comparisons the code makes are with now, so the machine runs    *)
(* for ever in finitely many states.                                       *)
(***************************************************************************)
EXTENDS Integers, FiniteSets

CONSTANTS
    Ids,                   \* primary keys; numbers, because the sweep locks in key order
    Workers,               \* consumers: loops that reserve, work and finalize
    Sweepers,              \* stale-reservation sweeps that may run at the same time
    MaxAttempts,           \* spec.max_attempts, 6 by default
    Limit,                 \* spec.limit, the LIMIT of the reservation query
    Timeout,               \* spec.timeout of the sweep, in ticks
    Skews,                 \* how far the recording application's clock may be ahead
    BadShapes,             \* the odd JSON that may be found in the table
    FailSchedule(_, _),    \* (attempts, scheduled_in) after a failure
    SweepSchedule(_, _, _),\* (attempts, scheduled_in, ticks since the sweep began)
    MaxDelay,              \* bound: the longest delay the two schedules give
    MaxOverdue,            \* bound: how long ago a due time is still told apart
    MaxElapsed             \* bound: ticks one sweep transaction may last

Schedules == -MaxOverdue .. MaxDelay

ASSUME QueueAssumption ==
    /\ Ids \subseteq Nat
    /\ IsFiniteSet(Ids)
    /\ 0 \notin Sweepers
    /\ MaxAttempts \in Nat \ {0}
    /\ Limit \in Nat \ {0}
    /\ Timeout \in Nat
    /\ MaxDelay \in Nat
    /\ MaxOverdue \in Nat
    /\ MaxElapsed \in Nat
    /\ Skews \subseteq 0 .. MaxDelay
    /\ BadShapes \subseteq {"bad_extra_info", "list_extra_info", "bad_meta"}

ASSUME ScheduleAssumption ==
    \A a \in 1 .. MaxAttempts, p \in Schedules :
        /\ FailSchedule(a, p) \in Schedules
        /\ \A e \in 0 .. MaxElapsed : SweepSchedule(a, p, e) \in Schedules

-----------------------------------------------------------------------------
VARIABLES
    entries,    \* the table: one record per key, status "Absent" for no row
    worker,     \* the in-memory state of each consumer
    sweeper,    \* the open transaction of each sweep
    row_lock,   \* which sweep transaction holds the lock on a row, 0 for none
    next_id,    \* the next reservation id: Uuid::now_v7 is never the same twice
    granted,    \* history: the last reservation each row was given
    delivered   \* history: <<id, reservation>> whose work returned Ok

vars == <<entries, worker, sweeper, row_lock, next_id, granted, delivered>>

NoReservation == 0
NoLock == 0
NoItem == -1
Statuses == {"Absent", "Received", "Reserved", "Failed", "Completed", "Dead"}
Shapes == {"ok"} \cup BadShapes
MaxReserved == Timeout + 1 + MaxElapsed

Row == [status : Statuses, attempts : 0 .. MaxAttempts, reservation_id : Nat,
        reserved_for : 0 .. MaxReserved, scheduled_in : Schedules,
        errors : Nat, shape : Shapes]

Worker == [pc : {"idle", "working", "completing", "failing"},
           reservation_id : Nat, todo : SUBSET Ids, item : Ids \cup {NoItem}]

(* pending: the keys of the statement's snapshot not yet locked; read: the *)
(* attempt count of each row the sweep selected, 0 for a row it did not.   *)
Sweeper == [open : BOOLEAN, pending : SUBSET Ids,
            read : [Ids -> 0 .. MaxAttempts], elapsed : 0 .. MaxElapsed]

TypeOK ==
    /\ entries \in [Ids -> Row]
    /\ worker \in [Workers -> Worker]
    /\ sweeper \in [Sweepers -> Sweeper]
    /\ row_lock \in [Ids -> Sweepers \cup {NoLock}]
    /\ next_id \in Nat \ {0}
    /\ granted \in [Ids -> Nat]
    /\ delivered \subseteq Ids \X Nat

IdleWorker ==
    [pc |-> "idle", reservation_id |-> NoReservation, todo |-> {}, item |-> NoItem]

ClosedSweep ==
    [open |-> FALSE, pending |-> {}, read |-> [i \in Ids |-> 0], elapsed |-> 0]

NoRow ==
    [status |-> "Absent", attempts |-> 0, reservation_id |-> NoReservation,
     reserved_for |-> 0, scheduled_in |-> 0, errors |-> 0, shape |-> "ok"]

Init ==
    /\ entries = [i \in Ids |-> NoRow]
    /\ worker = [w \in Workers |-> IdleWorker]
    /\ sweeper = [s \in Sweepers |-> ClosedSweep]
    /\ row_lock = [i \in Ids |-> NoLock]
    /\ next_id = 1
    /\ granted = [i \in Ids |-> NoReservation]
    /\ delivered = {}

-----------------------------------------------------------------------------
(* Rows, as the SQL statements rewrite them.                               *)

NewRow(skew, shape) ==
    [NoRow EXCEPT !.status = "Received", !.scheduled_in = skew, !.shape = shape]

ReservedRow(r, id) ==
    [r EXCEPT !.status = "Reserved", !.reservation_id = id, !.reserved_for = 0,
              !.attempts = @ + 1]

CompletedRow(r) ==
    [r EXCEPT !.status = "Completed", !.reservation_id = NoReservation,
              !.reserved_for = 0]

(* What odd extra_info becomes: it is wrapped, under a new object with a   *)
(* well-formed errors list; malformed metadata is left as it is.           *)
AppendFailure(shape) == IF shape = "bad_meta" THEN "bad_meta" ELSE "ok"

(* Mutated form: a failure resets the attempts it should back off by.     *)
FailedRowStartsOver(r) ==
    [r EXCEPT !.status = "Failed", !.reservation_id = NoReservation,
              !.reserved_for = 0, !.errors = @ + 1, !.attempts = 0]

FailedRow(r) ==
    [r EXCEPT !.status = "Failed", !.reservation_id = NoReservation,
              !.reserved_for = 0, !.errors = @ + 1,
              !.shape = AppendFailure(@),
              !.scheduled_in = FailSchedule(r.attempts, @)]

SweptRow(r, attempts, elapsed) ==
    [r EXCEPT !.status = "Failed", !.reservation_id = NoReservation,
              !.reserved_for = 0, !.errors = @ + 1,
              !.scheduled_in = SweepSchedule(attempts, @, elapsed)]

(* Mutated form: the reservation id is not compared.                      *)
OwnedByAnyone(i, reservation_id) == entries[i].status = "Reserved"

(* The ownership predicate of completed and failed.                        *)
Owned(i, reservation_id) ==
    /\ entries[i].status = "Reserved"
    /\ entries[i].reservation_id = reservation_id

Unlocked(i) == row_lock[i] = NoLock

-----------------------------------------------------------------------------
(* Storing.  A key that exists is left as it is: ON CONFLICT DO NOTHING.   *)

Record(i, skew) ==
    /\ entries' = [entries EXCEPT ![i] =
                      IF @.status = "Absent" THEN NewRow(skew, "ok") ELSE @]
    /\ UNCHANGED <<worker, sweeper, row_lock, next_id, granted, delivered>>

(* A row whose JSON this build would not have written: another version, a  *)
(* migration or an operator wrote it.                                      *)
InsertRaw(i, shape) ==
    /\ entries[i].status = "Absent"
    /\ entries' = [entries EXCEPT ![i] = NewRow(0, shape)]
    /\ UNCHANGED <<worker, sweeper, row_lock, next_id, granted, delivered>>

-----------------------------------------------------------------------------
(* Reserving a batch: the candidates, oldest first up to the limit, minus  *)
(* the rows another transaction has locked (SKIP LOCKED).                  *)

(* Mutated form: the attempt limit is off by one.                         *)
CandidatesAtLimit ==
    {i \in Ids : /\ entries[i].status \in {"Received", "Failed"}
                 /\ entries[i].scheduled_in <= 0
                 /\ entries[i].attempts <= MaxAttempts
                 /\ Unlocked(i)}

(* Mutated form: failed rows are not selected again.                      *)
CandidatesNotFailed ==
    {i \in Ids : /\ entries[i].status = "Received"
                 /\ entries[i].scheduled_in <= 0
                 /\ entries[i].attempts < MaxAttempts
                 /\ Unlocked(i)}

Candidates ==
    {i \in Ids : /\ entries[i].status \in {"Received", "Failed"}
                 /\ entries[i].scheduled_in <= 0
                 /\ entries[i].attempts < MaxAttempts
                 /\ Unlocked(i)}

Batches ==
    {S \in SUBSET Candidates :
        /\ S # {}
        /\ Cardinality(S) <= Limit
        /\ Cardinality(S) < Limit => S = Candidates
        /\ \A i \in S, j \in Candidates \ S :
               entries[i].scheduled_in <= entries[j].scheduled_in}

(* serde reads a struct from a JSON list as well, field by field: a list   *)
(* is no malformed extra_info.                                             *)
Decodes(i) == entries[i].shape \in {"ok", "list_extra_info"}

(* Mutated form: every batch gets the same reservation id.                *)
ReserveRowsOneId(S) ==
    /\ entries' = [i \in Ids |->
          IF i \in S THEN ReservedRow(entries[i], next_id) ELSE entries[i]]
    /\ granted' = [i \in Ids |-> IF i \in S THEN next_id ELSE granted[i]]
    /\ UNCHANGED <<sweeper, row_lock, delivered, next_id>>

(* Mutated form: malformed rows are left reserved.                        *)
ReserveRowsUndecoded(S) ==
    /\ entries' = [i \in Ids |->
          IF i \in S THEN ReservedRow(entries[i], next_id) ELSE entries[i]]
    /\ granted' = [i \in Ids |-> IF i \in S THEN next_id ELSE granted[i]]
    /\ next_id' = next_id + 1
    /\ UNCHANGED <<sweeper, row_lock, delivered>>

(* The rows of the batch S, each decoded before the transaction commits: a *)
(* malformed one has failed by then.                                       *)
ReserveRows(S) ==
    /\ entries' = [i \in Ids |->
          IF i \notin S THEN entries[i]
          ELSE IF Decodes(i) THEN ReservedRow(entries[i], next_id)
          ELSE FailedRow(ReservedRow(entries[i], next_id))]
    /\ granted' = [i \in Ids |-> IF i \in S THEN next_id ELSE granted[i]]
    /\ next_id' = next_id + 1
    /\ UNCHANGED <<sweeper, row_lock, delivered>>

MayReserve(w) == worker[w].pc = "idle" /\ worker[w].todo = {}

Holding(reservation_id, todo) ==
    IF todo = {} THEN IdleWorker
    ELSE [IdleWorker EXCEPT !.reservation_id = reservation_id, !.todo = todo]

Reserve(w) ==
    /\ MayReserve(w)
    /\ \E S \in Batches :
          /\ ReserveRows(S)
          /\ worker' = [worker EXCEPT ![w] =
                           Holding(next_id, {i \in S : Decodes(i)})]

(* The commit took effect and its acknowledgement did not arrive, or the   *)
(* process died: nobody knows the batch.                                   *)
ReserveUnacknowledged(w) ==
    /\ MayReserve(w)
    /\ \E S \in Batches : ReserveRows(S)
    /\ UNCHANGED worker

-----------------------------------------------------------------------------
(* Working through the batch, one item at a time, in whatever order the    *)
(* query returned it.  Nothing re-reads the row before the work starts.    *)

Begin(w) ==
    /\ worker[w].pc = "idle"
    /\ \E i \in worker[w].todo :
          worker' = [worker EXCEPT ![w].pc = "working", ![w].item = i,
                                   ![w].todo = @ \ {i}]
    /\ UNCHANGED <<entries, sweeper, row_lock, next_id, granted, delivered>>

WorkSucceeds(w) ==
    /\ worker[w].pc = "working"
    /\ worker' = [worker EXCEPT ![w].pc = "completing"]
    /\ delivered' = delivered \cup {<<worker[w].item, worker[w].reservation_id>>}
    /\ UNCHANGED <<entries, sweeper, row_lock, next_id, granted>>

(* An error or a panic: both reach the failure boundary.                   *)
WorkFails(w) ==
    /\ worker[w].pc = "working"
    /\ worker' = [worker EXCEPT ![w].pc = "failing"]
    /\ UNCHANGED <<entries, sweeper, row_lock, next_id, granted, delivered>>

ItemDone(w) ==
    worker' = [worker EXCEPT ![w] =
                  Holding(worker[w].reservation_id, worker[w].todo)]

ItemFails(w) == worker' = [worker EXCEPT ![w].pc = "failing"]

(* completed: one UPDATE under the ownership predicate, which waits for a  *)
(* sweep that holds the row.  After the commit the caller may still see an *)
(* error, and then takes the failure path like one who owned nothing.      *)
Complete(w) ==
    LET i == worker[w].item IN
    /\ worker[w].pc = "completing"
    /\ Unlocked(i)
    /\ \/ /\ Owned(i, worker[w].reservation_id)
          /\ entries' = [entries EXCEPT ![i] = CompletedRow(@)]
          /\ ItemDone(w) \/ ItemFails(w)
       \/ /\ ~ Owned(i, worker[w].reservation_id)
          /\ ItemFails(w)
          /\ UNCHANGED entries
    /\ UNCHANGED <<sweeper, row_lock, next_id, granted, delivered>>

(* Mutated form: the failure is written by key alone.                     *)
FailUnowned(w) ==
    /\ worker[w].pc = "failing"
    /\ Unlocked(worker[w].item)
    /\ entries' = [entries EXCEPT ![worker[w].item] = FailedRow(@)]
    /\ ItemDone(w)
    /\ UNCHANGED <<sweeper, row_lock, next_id, granted, delivered>>

(* failed: SELECT ... FOR UPDATE and UPDATE, both under the ownership      *)
(* predicate, in one transaction.  Its own error is only reported: in      *)
(* every outcome the consumer goes on with the next item.                  *)
Fail(w) ==
    LET i == worker[w].item IN
    /\ worker[w].pc = "failing"
    /\ Unlocked(i)
    /\ entries' = IF Owned(i, worker[w].reservation_id)
                  THEN [entries EXCEPT ![i] = FailedRow(@)]
                  ELSE entries
    /\ ItemDone(w)
    /\ UNCHANGED <<sweeper, row_lock, next_id, granted, delivered>>

(* The database cannot be reached: a completion turns into a failure, and  *)
(* a failure that cannot be written leaves the row reserved.               *)
StorageFails(w) ==
    /\ \/ worker[w].pc = "completing" /\ ItemFails(w)
       \/ worker[w].pc = "failing" /\ ItemDone(w)
    /\ UNCHANGED <<entries, sweeper, row_lock, next_id, granted, delivered>>

(* The process dies and is started again: what it held is only in the      *)
(* table.                                                                  *)
Crash(w) ==
    /\ worker[w] # IdleWorker
    /\ worker' = [worker EXCEPT ![w] = IdleWorker]
    /\ UNCHANGED <<entries, sweeper, row_lock, next_id, granted, delivered>>

-----------------------------------------------------------------------------
(* The sweep.  transaction_timestamp() is read once: the cutoff, and the   *)
(* schedules it writes, are as of the start of the transaction.            *)

Stale(i, elapsed) ==
    /\ entries[i].status = "Reserved"
    /\ entries[i].reserved_for - elapsed > Timeout

SweepBegin(s) ==
    LET snapshot == {i \in Ids : Stale(i, 0)} IN
    /\ ~ sweeper[s].open
    /\ snapshot # {}
    /\ sweeper' = [sweeper EXCEPT ![s].open = TRUE, ![s].pending = snapshot]
    /\ UNCHANGED <<entries, worker, row_lock, next_id, granted, delivered>>

Selected(s) == {i \in Ids : sweeper[s].read[i] > 0}

(* Mutated form: the sweep has no ORDER BY.                               *)
LockAny(s, i) == i \in sweeper[s].pending

(* ORDER BY id FOR UPDATE: the rows of the snapshot are locked in key      *)
(* order, each waiting for a sweep that has it.  A row that changed in     *)
(* between is locked all the same and its predicate evaluated again.       *)
LockNext(s, i) ==
    /\ i \in sweeper[s].pending
    /\ \A j \in sweeper[s].pending : i <= j

(* Mutated form: the predicate is not evaluated again.                    *)
SweepLockNoRecheck(s) ==
    /\ sweeper[s].open
    /\ \E i \in Ids :
          /\ LockNext(s, i)
          /\ Unlocked(i)
          /\ row_lock' = [row_lock EXCEPT ![i] = s]
          /\ sweeper' = [sweeper EXCEPT ![s].pending = @ \ {i},
                                       ![s].read[i] = entries[i].attempts]
    /\ UNCHANGED <<entries, worker, next_id, granted, delivered>>

(* Mutated form: the sweep has no FOR UPDATE.                             *)
SweepReadsOnly(s) ==
    /\ sweeper[s].open
    /\ \E i \in Ids :
          /\ LockNext(s, i)
          /\ sweeper' = [sweeper EXCEPT
                ![s].pending = @ \ {i},
                ![s].read[i] = IF Stale(i, sweeper[s].elapsed)
                               THEN entries[i].attempts ELSE 0]
    /\ UNCHANGED <<entries, worker, row_lock, next_id, granted, delivered>>

SweepLock(s) ==
    /\ sweeper[s].open
    /\ \E i \in Ids :
          /\ LockNext(s, i)
          /\ Unlocked(i)
          /\ row_lock' = [row_lock EXCEPT ![i] = s]
          /\ sweeper' = [sweeper EXCEPT
                ![s].pending = @ \ {i},
                ![s].read[i] = IF Stale(i, sweeper[s].elapsed)
                               THEN entries[i].attempts ELSE 0]
    /\ UNCHANGED <<entries, worker, next_id, granted, delivered>>

CloseSweep(s) ==
    /\ sweeper' = [sweeper EXCEPT ![s] = ClosedSweep]
    /\ row_lock' = [i \in Ids |-> IF row_lock[i] = s THEN NoLock ELSE row_lock[i]]

(* jsonb_set at the path {errors} is an error when the value is a list.    *)
Appendable(i) == entries[i].shape # "list_extra_info"

Refused(s) ==
    sweeper[s].pending = {} /\ \E i \in Selected(s) : ~ Appendable(i)

(* The bulk UPDATE names its rows by primary key and by nothing else: the  *)
(* locks alone stand between it and a row that moved on.  An error in one  *)
(* row rolls the transaction back.                                         *)
SweepWrite(s) ==
    /\ sweeper[s].open
    /\ sweeper[s].pending = {}
    /\ entries' = [i \in Ids |->
          IF i \in Selected(s) /\ ~ Refused(s)
          THEN SweptRow(entries[i], sweeper[s].read[i], sweeper[s].elapsed)
          ELSE entries[i]]
    /\ CloseSweep(s)
    /\ UNCHANGED <<worker, next_id, granted, delivered>>

(* The sweeping process dies or its connection breaks: nothing is written. *)
SweepAbort(s) ==
    /\ sweeper[s].open
    /\ CloseSweep(s)
    /\ UNCHANGED <<entries, worker, next_id, granted, delivered>>

-----------------------------------------------------------------------------
(* Thirty seconds pass.                                                    *)
Aged(r) ==
    [r EXCEPT !.scheduled_in = IF @ > -MaxOverdue THEN @ - 1 ELSE @,
              !.reserved_for = IF r.status = "Reserved" /\ @ < MaxReserved
                               THEN @ + 1 ELSE @]

Tick ==
    /\ \A s \in Sweepers : sweeper[s].open => sweeper[s].elapsed < MaxElapsed
    /\ entries' = [i \in Ids |-> Aged(entries[i])]
    /\ sweeper' = [s \in Sweepers |->
          IF sweeper[s].open THEN [sweeper[s] EXCEPT !.elapsed = @ + 1]
          ELSE sweeper[s]]
    /\ UNCHANGED <<worker, row_lock, next_id, granted, delivered>>

Store ==
    \E i \in Ids :
        \/ \E skew \in Skews : Record(i, skew)
        \/ \E shape \in BadShapes : InsertRaw(i, shape)

Consume(w) ==
    \/ Reserve(w)
    \/ ReserveUnacknowledged(w)
    \/ Begin(w)
    \/ WorkSucceeds(w)
    \/ WorkFails(w)
    \/ Complete(w)
    \/ Fail(w)
    \/ StorageFails(w)
    \/ Crash(w)

Sweep(s) ==
    \/ SweepBegin(s)
    \/ SweepLock(s)
    \/ SweepWrite(s)
    \/ SweepAbort(s)

Next ==
    \/ Store
    \/ \E w \in Workers : Consume(w)
    \/ \E s \in Sweepers : Sweep(s)
    \/ Tick

Spec == Init /\ [][Next]_vars

(* Consumers and sweeps are loops that come round again, and time passes.  *)
(* Nothing is assumed of crashes, storage errors or the outcome of work;   *)
(* only the transactions of a sweep do not break off for ever, unless it   *)
(* is the database that refuses the write.                                 *)
Fairness ==
    /\ WF_vars(Tick)
    /\ \A w \in Workers :
          /\ WF_vars(Reserve(w))
          /\ WF_vars(Begin(w))
          /\ WF_vars(WorkSucceeds(w) \/ WorkFails(w))
          /\ WF_vars(Complete(w) \/ Fail(w))
    /\ \A s \in Sweepers :
          /\ WF_vars(SweepBegin(s))
          /\ WF_vars(SweepLock(s))
          /\ WF_vars(SweepWrite(s))
          /\ <>[][SweepAbort(s) => Refused(s)]_vars

FairSpec == Spec /\ Fairness

-----------------------------------------------------------------------------
(* Properties.                                                             *)

Holds(w) == worker[w].todo \cup ({worker[w].item} \ {NoItem})

(* At most one consumer can finalize a row: the reservation that a late    *)
(* consumer still carries never owns a row somebody else was given.        *)
LeaseExclusive ==
    \A w, v \in Workers : \A i \in Holds(w) \cap Holds(v) :
        w # v => ~ /\ Owned(i, worker[w].reservation_id)
                   /\ Owned(i, worker[v].reservation_id)

(* A completed row was completed for work that returned Ok under the last  *)
(* reservation the row was given, never on the strength of an older one.   *)
CompletionBacked ==
    \A i \in Ids :
        entries[i].status = "Completed" => <<i, granted[i]>> \in delivered

(* Every reservation ends in exactly one account: a completion, or one     *)
(* error in the row's history, whichever of the consumer, the decoder and  *)
(* the sweep ended it.                                                     *)
AttemptsAccounted ==
    \A i \in Ids :
        entries[i].attempts =
            entries[i].errors
            + (IF entries[i].status \in {"Reserved", "Completed"} THEN 1 ELSE 0)

(* What a sweep is about to write is still true of the rows it names: each *)
(* is reserved, stale, and at the attempt count that was read.             *)
SweepReadStable ==
    \A s \in Sweepers : \A i \in Selected(s) :
        /\ entries[i].status = "Reserved"
        /\ entries[i].attempts = sweeper[s].read[i]
        /\ entries[i].reserved_for > Timeout

(* Sweeps that run at the same time never wait for each other in a circle: *)
(* in any set of them, one waits for none of the others.                   *)
WaitsFor(s) == {row_lock[i] : i \in {j \in Ids : LockNext(s, j)}} \ {NoLock}

NoSweepDeadlock ==
    \A Circle \in SUBSET Sweepers :
        Circle # {} => \E s \in Circle : WaitsFor(s) \cap Circle = {}

(* A row that is seen reserved decodes: a malformed one has failed by the  *)
(* time its reservation commits, and its neighbours in the batch have not. *)
ReservedDecodes ==
    \A i \in Ids : entries[i].status = "Reserved" => Decodes(i)

(* Once completed, a row is never written again: not by a late consumer,   *)
(* not by a sweep that read it before, not by storing its key once more.   *)
CompletedIsFinal ==
    [][\A i \in Ids : entries[i].status = "Completed" =>
           /\ entries'[i].status = "Completed"
           /\ entries'[i].attempts = entries[i].attempts
           /\ entries'[i].errors = entries[i].errors]_vars

(* Whatever crashes, fails or gets lost, a stored row ends up completed or *)
(* failed with no attempt left: none is forgotten.                         *)
Settled(i) ==
    \/ entries[i].status = "Completed"
    \/ entries[i].status = "Failed" /\ entries[i].attempts = MaxAttempts

EverySettles ==
    \A i \in Ids : entries[i].status # "Absent" ~> [] Settled(i)

(* What the contract says of the sweep: a reservation older than the       *)
(* timeout is released.                                                    *)
StaleReleased ==
    \A i \in Ids : Stale(i, 0) ~> entries[i].status # "Reserved"

-----------------------------------------------------------------------------
(* The queue keeps the promise of LeasedWork: a row is the work, its       *)
(* reservation the lease.                                                  *)

Phase(status) ==
    CASE status = "Absent"    -> "none"
      [] status = "Reserved"  -> "held"
      [] status = "Completed" -> "done"
      [] status = "Dead"      -> "dropped"
      [] OTHER                -> "open"

Promise == INSTANCE LeasedWork WITH
    phase <- [i \in Ids |-> Phase(entries[i].status)],
    tries <- [i \in Ids |-> entries[i].attempts],
    lease <- granted,
    issued <- next_id - 1,
    served <- delivered

KeepsPromise == Promise!Spec

=============================================================================
