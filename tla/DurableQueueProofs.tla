------------------------- MODULE DurableQueueProofs -------------------------
(***************************************************************************)
(* Theorems about DurableQueue for every number of rows, consumers and     *)
(* sweeps, every attempt limit, timeout and backoff.                       *)
(***************************************************************************)
EXTENDS DurableQueue, FiniteSetTheorems, WellFoundedInduction, TLAPS

LEMMA BoundsType ==
    /\ MaxReserved \in Nat
    /\ Timeout < MaxReserved
    /\ 0 \in 0 .. MaxReserved
    /\ Schedules \subseteq Int
    /\ 0 \in Schedules
    /\ Skews \subseteq Schedules
  BY QueueAssumption DEF QueueAssumption, MaxReserved, Schedules

(* One column at a time, a rewritten row is a row.                         *)
LEMMA ColumnType ==
    ASSUME NEW r \in Row
    PROVE  /\ \A x \in Statuses : [r EXCEPT !.status = x] \in Row
           /\ \A x \in 0 .. MaxAttempts : [r EXCEPT !.attempts = x] \in Row
           /\ \A x \in Nat : [r EXCEPT !.reservation_id = x] \in Row
           /\ \A x \in 0 .. MaxReserved : [r EXCEPT !.reserved_for = x] \in Row
           /\ \A x \in Schedules : [r EXCEPT !.scheduled_in = x] \in Row
           /\ \A x \in Nat : [r EXCEPT !.errors = x] \in Row
           /\ \A x \in Shapes : [r EXCEPT !.shape = x] \in Row
  BY DEF Row

LEMMA NoRowType == NoRow \in Row
  BY BoundsType, QueueAssumption
     DEF QueueAssumption, NoRow, Row, Statuses, NoReservation, Shapes

LEMMA NewRowType ==
    ASSUME NEW skew \in Schedules, NEW shape \in Shapes
    PROVE  /\ NewRow(skew, shape) \in Row
           /\ NewRow(skew, shape).status = "Received"
           /\ NewRow(skew, shape).attempts = 0
           /\ NewRow(skew, shape).errors = 0
  <1> DEFINE r1 == [NoRow EXCEPT !.status = "Received"]
             r2 == [r1 EXCEPT !.scheduled_in = skew]
             r3 == [r2 EXCEPT !.shape = shape]
  <1>1. r1 \in Row
    BY NoRowType, ColumnType DEF Statuses
  <1>2. r2 \in Row
    BY <1>1, ColumnType
  <1>3. r3 \in Row
    BY <1>2, ColumnType
  <1>4. r3.status = "Received" /\ r3.attempts = 0 /\ r3.errors = 0
    BY NoRowType DEF NoRow, Row
  <1> QED
    BY <1>3, <1>4 DEF NewRow

LEMMA ReservedRowType ==
    ASSUME NEW r \in Row, r.attempts < MaxAttempts, NEW id \in Nat
    PROVE  /\ ReservedRow(r, id) \in Row
           /\ ReservedRow(r, id).status = "Reserved"
           /\ ReservedRow(r, id).reservation_id = id
           /\ ReservedRow(r, id).attempts = r.attempts + 1
           /\ ReservedRow(r, id).errors = r.errors
           /\ ReservedRow(r, id).shape = r.shape
  <1> DEFINE r1 == [r EXCEPT !.status = "Reserved"]
             r2 == [r1 EXCEPT !.reservation_id = id]
             r3 == [r2 EXCEPT !.reserved_for = 0]
             r4 == [r3 EXCEPT !.attempts = r3.attempts + 1]
  <1>1. r1 \in Row
    BY ColumnType DEF Statuses
  <1>2. r2 \in Row
    BY <1>1, ColumnType
  <1>3. r3 \in Row
    BY <1>2, ColumnType, BoundsType
  <1>4. r.attempts + 1 \in 0 .. MaxAttempts
    BY QueueAssumption DEF QueueAssumption, Row
  <1>5. r3.attempts = r.attempts
    BY DEF Row
  <1>6. r4 \in Row
    BY <1>3, <1>4, <1>5, ColumnType
  <1>7. /\ r4.status = "Reserved" /\ r4.reservation_id = id
        /\ r4.attempts = r.attempts + 1 /\ r4.errors = r.errors
        /\ r4.shape = r.shape
    BY DEF Row
  <1> QED
    BY <1>6, <1>7 DEF ReservedRow

LEMMA CompletedRowType ==
    ASSUME NEW r \in Row
    PROVE  /\ CompletedRow(r) \in Row
           /\ CompletedRow(r).status = "Completed"
           /\ CompletedRow(r).attempts = r.attempts
           /\ CompletedRow(r).errors = r.errors
  BY BoundsType DEF CompletedRow, Row, Statuses, NoReservation

LEMMA FailedRowType ==
    ASSUME NEW r \in Row, r.attempts > 0
    PROVE  /\ FailedRow(r) \in Row
           /\ FailedRow(r).status = "Failed"
           /\ FailedRow(r).attempts = r.attempts
           /\ FailedRow(r).errors = r.errors + 1
  <1>1. r.attempts \in 1 .. MaxAttempts /\ r.scheduled_in \in Schedules
    BY QueueAssumption DEF QueueAssumption, Row
  <1>2. FailSchedule(r.attempts, r.scheduled_in) \in Schedules
    BY <1>1, ScheduleAssumption DEF ScheduleAssumption
  <1>3. AppendFailure(r.shape) \in Shapes
    BY DEF AppendFailure, Shapes, Row
  <1> DEFINE r1 == [r EXCEPT !.status = "Failed"]
             r2 == [r1 EXCEPT !.reservation_id = NoReservation]
             r3 == [r2 EXCEPT !.reserved_for = 0]
             r4 == [r3 EXCEPT !.errors = r3.errors + 1]
             r5 == [r4 EXCEPT !.shape = AppendFailure(r4.shape)]
             r6 == [r5 EXCEPT !.scheduled_in =
                                  FailSchedule(r.attempts, r5.scheduled_in)]
  <1>4. r1 \in Row
    BY ColumnType DEF Statuses
  <1>5. r2 \in Row
    BY <1>4, ColumnType DEF NoReservation
  <1>6. r3 \in Row
    BY <1>5, ColumnType, BoundsType
  <1>7. r3.errors + 1 = r.errors + 1 /\ r.errors + 1 \in Nat
    BY DEF Row
  <1>8. r4 \in Row
    BY <1>6, <1>7, ColumnType
  <1>9. r4.shape = r.shape
    BY DEF Row
  <1>10. r5 \in Row
    BY <1>3, <1>8, <1>9, ColumnType
  <1>11. r5.scheduled_in = r.scheduled_in
    BY DEF Row
  <1>12. r6 \in Row
    BY <1>2, <1>10, <1>11, ColumnType
  <1>13. r6.status = "Failed" /\ r6.attempts = r.attempts /\ r6.errors = r.errors + 1
    BY DEF Row
  <1> QED
    BY <1>12, <1>13 DEF FailedRow

LEMMA SweptRowType ==
    ASSUME NEW r \in Row, NEW a \in 1 .. MaxAttempts, NEW e \in 0 .. MaxElapsed
    PROVE  /\ SweptRow(r, a, e) \in Row
           /\ SweptRow(r, a, e).status = "Failed"
           /\ SweptRow(r, a, e).attempts = r.attempts
           /\ SweptRow(r, a, e).errors = r.errors + 1
  <1>1. r.scheduled_in \in Schedules
    BY DEF Row
  <1>2. SweepSchedule(a, r.scheduled_in, e) \in Schedules
    BY <1>1, ScheduleAssumption DEF ScheduleAssumption
  <1> DEFINE r1 == [r EXCEPT !.status = "Failed"]
             r2 == [r1 EXCEPT !.reservation_id = NoReservation]
             r3 == [r2 EXCEPT !.reserved_for = 0]
             r4 == [r3 EXCEPT !.errors = r3.errors + 1]
             r5 == [r4 EXCEPT !.scheduled_in =
                                  SweepSchedule(a, r4.scheduled_in, e)]
  <1>4. r1 \in Row
    BY ColumnType DEF Statuses
  <1>5. r2 \in Row
    BY <1>4, ColumnType DEF NoReservation
  <1>6. r3 \in Row
    BY <1>5, ColumnType, BoundsType
  <1>7. r3.errors + 1 = r.errors + 1 /\ r.errors + 1 \in Nat
    BY DEF Row
  <1>8. r4 \in Row
    BY <1>6, <1>7, ColumnType
  <1>9. r4.scheduled_in = r.scheduled_in
    BY DEF Row
  <1>10. r5 \in Row
    BY <1>2, <1>8, <1>9, ColumnType
  <1>11. r5.status = "Failed" /\ r5.attempts = r.attempts /\ r5.errors = r.errors + 1
    BY DEF Row
  <1> QED
    BY <1>10, <1>11 DEF SweptRow

LEMMA AgedType ==
    ASSUME NEW r \in Row
    PROVE  Aged(r) \in Row
  <1>1. r.scheduled_in \in Schedules /\ r.reserved_for \in 0 .. MaxReserved
    BY DEF Row
  <1>2. (IF r.scheduled_in > -MaxOverdue THEN r.scheduled_in - 1
         ELSE r.scheduled_in) \in Schedules
    BY <1>1, QueueAssumption DEF QueueAssumption, Schedules
  <1>3. (IF r.status = "Reserved" /\ r.reserved_for < MaxReserved
         THEN r.reserved_for + 1 ELSE r.reserved_for) \in 0 .. MaxReserved
    BY <1>1, BoundsType
  <1> QED
    BY <1>2, <1>3 DEF Aged, Row

LEMMA HoldingType ==
    ASSUME NEW id \in Nat, NEW todo \in SUBSET Ids
    PROVE  /\ IdleWorker \in Worker
           /\ Holding(id, todo) \in Worker
  BY DEF Holding, IdleWorker, Worker, NoReservation, NoItem

LEMMA ClosedSweepType == ClosedSweep \in Sweeper
  BY QueueAssumption DEF QueueAssumption, ClosedSweep, Sweeper
-----------------------------------------------------------------------------
(***************************************************************************)
(* The inductive invariant.  Typing alone is not inductive (a failure must *)
(* know that the row was attempted), and none of the properties is: that a *)
(* late consumer cannot finalize a row rests on reservation ids that never *)
(* repeat (LeaseInv), that a sweep may write by key alone on the row locks *)
(* it has kept since it read (SweepInv), that a completion is backed on a  *)
(* consumer that completes only what it delivered (WorkerInv).  The        *)
(* accounts leave out rows that are Dead, which only the outbox has.       *)
(***************************************************************************)
RowInv ==
    \A i \in Ids :
        /\ granted[i] < next_id
        /\ entries[i].status = "Absent" => entries[i].attempts = 0
        /\ entries[i].status = "Reserved" =>
               /\ entries[i].attempts > 0
               /\ entries[i].reservation_id = granted[i]
               /\ granted[i] > 0

WorkerInv ==
    \A w \in Workers :
        /\ worker[w].reservation_id < next_id
        /\ worker[w].pc # "idle" => worker[w].item \in Ids
        /\ worker[w] # IdleWorker => worker[w].reservation_id > 0
        /\ worker[w].pc = "completing" =>
               <<worker[w].item, worker[w].reservation_id>> \in delivered

LeaseInv ==
    \A w, v \in Workers :
        /\ w # v
        /\ worker[w].reservation_id > 0
        => worker[w].reservation_id # worker[v].reservation_id

SweepInv ==
    \A s \in Sweepers : \A i \in Ids :
        sweeper[s].read[i] > 0 =>
            /\ sweeper[s].open
            /\ row_lock[i] = s
            /\ entries[i].status = "Reserved"
            /\ entries[i].attempts = sweeper[s].read[i]
            /\ entries[i].reserved_for > Timeout

LiveAccounted ==
    \A i \in Ids : entries[i].status # "Dead" =>
        entries[i].attempts =
            entries[i].errors
            + (IF entries[i].status \in {"Reserved", "Completed"} THEN 1 ELSE 0)

Inv ==
    /\ TypeOK
    /\ RowInv
    /\ WorkerInv
    /\ LeaseInv
    /\ SweepInv
    /\ CompletionBacked
    /\ LiveAccounted
    /\ ReservedDecodes

LEMMA InitInv == Init => Inv
  <1> SUFFICES ASSUME Init PROVE Inv
    OBVIOUS
  <1>1. TypeOK
    BY NoRowType, HoldingType, ClosedSweepType
       DEF Init, TypeOK, NoLock, NoReservation
  <1>2. RowInv /\ CompletionBacked /\ LiveAccounted /\ ReservedDecodes
    BY DEF Init, RowInv, CompletionBacked, LiveAccounted, ReservedDecodes,
           NoRow, NoReservation
  <1>3. WorkerInv /\ LeaseInv
    BY DEF Init, WorkerInv, LeaseInv, IdleWorker, NoReservation
  <1>4. SweepInv
    BY DEF Init, SweepInv, ClosedSweep
  <1> QED
    BY <1>1, <1>2, <1>3, <1>4 DEF Inv

LEMMA StutterStep == Inv /\ UNCHANGED vars => Inv'
  BY DEF Inv, vars, TypeOK, RowInv, WorkerInv, LeaseInv, SweepInv,
         CompletionBacked, LiveAccounted, ReservedDecodes, Decodes

(* A row appears.                                                          *)
LEMMA NewRowStep ==
    ASSUME Inv, NEW i \in Ids, NEW skew \in Schedules, NEW shape \in Shapes,
           entries[i].status = "Absent",
           entries' = [entries EXCEPT ![i] = NewRow(skew, shape)],
           UNCHANGED <<worker, sweeper, row_lock, next_id, granted, delivered>>
    PROVE  Inv'
  <1> DEFINE new == NewRow(skew, shape)
  <1>1. /\ new \in Row /\ new.status = "Received"
        /\ new.attempts = 0 /\ new.errors = 0
    BY NewRowType
  <1> HIDE DEF new
  <1>2. \A j \in Ids : entries'[j] = IF j = i THEN new ELSE entries[j]
    BY DEF Inv, TypeOK, new
  <1>3. TypeOK'
    BY <1>1 DEF Inv, TypeOK, new
  <1>4. RowInv' /\ CompletionBacked' /\ LiveAccounted' /\ ReservedDecodes'
    BY <1>1, <1>2 DEF Inv, RowInv, CompletionBacked, LiveAccounted,
                      ReservedDecodes, Decodes
  <1>5. WorkerInv' /\ LeaseInv'
    BY DEF Inv, WorkerInv, LeaseInv
  <1>6. SweepInv'
    BY <1>1, <1>2 DEF Inv, SweepInv
  <1> QED
    BY <1>3, <1>4, <1>5, <1>6 DEF Inv

LEMMA StoreStep == Inv /\ Store => Inv'
  <1> SUFFICES ASSUME Inv, NEW i \in Ids,
                      \/ \E skew \in Skews : Record(i, skew)
                      \/ \E shape \in BadShapes : InsertRaw(i, shape)
               PROVE  Inv'
    BY DEF Store
  <1>1. CASE \E skew \in Skews : Record(i, skew)
    <2> PICK skew \in Skews : Record(i, skew)
      BY <1>1
    <2>1. CASE entries[i].status = "Absent"
      <3>1. skew \in Schedules /\ "ok" \in Shapes
        BY BoundsType DEF Shapes
      <3>2. entries' = [entries EXCEPT ![i] = NewRow(skew, "ok")]
        BY <2>1 DEF Record
      <3> QED
        BY <2>1, <3>1, <3>2, NewRowStep DEF Record
    <2>2. CASE entries[i].status # "Absent"
      <3>1. entries' = entries
        BY <2>2 DEF Record, Inv, TypeOK
      <3> QED
        BY <3>1, StutterStep DEF Record, vars
    <2> QED
      BY <2>1, <2>2
  <1>2. CASE \E shape \in BadShapes : InsertRaw(i, shape)
    <2> PICK shape \in BadShapes : InsertRaw(i, shape)
      BY <1>2
    <2>1. 0 \in Schedules /\ shape \in Shapes
      BY BoundsType DEF Shapes
    <2> QED
      BY <2>1, NewRowStep DEF InsertRaw
  <1> QED
    BY <1>1, <1>2

(* The rows of a batch move and take the new reservation id; whatever the  *)
(* consumer then holds, it holds under that id.                            *)
LEMMA BatchRows ==
    ASSUME Inv, NEW S \in Batches, ReserveRows(S)
    PROVE  /\ S \subseteq Ids
           /\ \A i \in Ids \ S : entries'[i] = entries[i]
           /\ \A i \in S :
                 /\ entries[i].status # "Reserved"
                 /\ entries[i].status \notin {"Completed", "Dead"}
                 /\ entries'[i] \in Row
                 /\ entries'[i].status = IF Decodes(i) THEN "Reserved" ELSE "Failed"
                 /\ entries'[i].attempts = entries[i].attempts + 1
                 /\ entries'[i].errors =
                       IF Decodes(i) THEN entries[i].errors ELSE entries[i].errors + 1
                 /\ Decodes(i) => /\ entries'[i].reservation_id = next_id
                                  /\ entries'[i].shape = entries[i].shape
  <1>1. S \subseteq Candidates
    BY DEF Batches
  <1>2. next_id \in Nat
    BY DEF Inv, TypeOK
  <1>3. SUFFICES ASSUME NEW i \in S
        PROVE /\ entries[i].status # "Reserved"
              /\ entries[i].status \notin {"Completed", "Dead"}
              /\ entries'[i] \in Row
              /\ entries'[i].status = IF Decodes(i) THEN "Reserved" ELSE "Failed"
              /\ entries'[i].attempts = entries[i].attempts + 1
              /\ entries'[i].errors =
                    IF Decodes(i) THEN entries[i].errors ELSE entries[i].errors + 1
              /\ Decodes(i) => /\ entries'[i].reservation_id = next_id
                               /\ entries'[i].shape = entries[i].shape
    BY <1>1 DEF ReserveRows, Candidates
  <1> DEFINE r == ReservedRow(entries[i], next_id)
  <1>4. /\ i \in Ids
        /\ entries[i] \in Row
        /\ entries[i].attempts < MaxAttempts
        /\ entries[i].status \in {"Received", "Failed"}
    BY <1>1 DEF Candidates, Inv, TypeOK
  <1>5. /\ r \in Row /\ r.status = "Reserved" /\ r.reservation_id = next_id
        /\ r.attempts = entries[i].attempts + 1 /\ r.errors = entries[i].errors
        /\ r.shape = entries[i].shape
    BY <1>2, <1>4, ReservedRowType
  <1>6. entries'[i] = IF Decodes(i) THEN r ELSE FailedRow(r)
    BY <1>4 DEF ReserveRows
  <1> HIDE DEF r
  <1>7. r.attempts > 0
    BY <1>4, <1>5 DEF Row
  <1>8. /\ FailedRow(r) \in Row /\ FailedRow(r).status = "Failed"
        /\ FailedRow(r).attempts = r.attempts
        /\ FailedRow(r).errors = r.errors + 1
    BY <1>5, <1>7, FailedRowType
  <1> QED
    BY <1>4, <1>5, <1>6, <1>8 DEF Decodes

LEMMA BatchStep ==
    ASSUME Inv, NEW S \in Batches, ReserveRows(S),
           NEW w \in Workers, NEW todo \in SUBSET Ids,
           worker[w].pc = "idle",
           \/ worker' = worker
           \/ worker' = [worker EXCEPT ![w] = Holding(next_id, todo)]
    PROVE  Inv'
  <1>1. /\ S \subseteq Ids
        /\ \A i \in Ids \ S : entries'[i] = entries[i]
        /\ \A i \in S :
              /\ entries[i].status # "Reserved"
              /\ entries[i].status \notin {"Completed", "Dead"}
              /\ entries'[i] \in Row
              /\ entries'[i].status = IF Decodes(i) THEN "Reserved" ELSE "Failed"
              /\ entries'[i].attempts = entries[i].attempts + 1
              /\ entries'[i].errors =
                    IF Decodes(i) THEN entries[i].errors ELSE entries[i].errors + 1
              /\ Decodes(i) => /\ entries'[i].reservation_id = next_id
                               /\ entries'[i].shape = entries[i].shape
    BY BatchRows
  <1>2. /\ granted' = [i \in Ids |-> IF i \in S THEN next_id ELSE granted[i]]
        /\ next_id' = next_id + 1 /\ next_id \in Nat \ {0}
        /\ UNCHANGED <<sweeper, row_lock, delivered>>
        /\ entries' = [i \in Ids |-> entries'[i]]
    BY DEF ReserveRows, Inv, TypeOK
  <1>3. /\ worker \in [Workers -> Worker]
        /\ Holding(next_id, todo) \in Worker
        /\ worker' \in [Workers -> Worker]
    BY <1>2, HoldingType DEF Inv, TypeOK
  <1>4. TypeOK'
    <2>1. entries' \in [Ids -> Row]
      BY <1>1, <1>2 DEF Inv, TypeOK
    <2>2. granted' \in [Ids -> Nat] /\ next_id' \in Nat \ {0}
      BY <1>2 DEF Inv, TypeOK
    <2> QED
      BY <1>2, <1>3, <2>1, <2>2 DEF Inv, TypeOK
  <1>5. RowInv'
    <2>1. \A i \in Ids \ S : granted'[i] = granted[i]
      BY <1>2
    <2>2. \A i \in S : granted'[i] = next_id
      BY <1>1, <1>2
    <2>3. \A i \in Ids : entries[i].attempts \in Nat
      BY QueueAssumption DEF QueueAssumption, Inv, TypeOK, Row
    <2> QED
      BY <1>1, <1>2, <2>1, <2>2, <2>3 DEF Inv, RowInv, TypeOK
  <1>6. \A v \in Workers :
           \/ worker'[v] = worker[v]
           \/ v = w /\ \/ worker'[v] = IdleWorker
                       \/ /\ worker'[v].pc = "idle"
                          /\ worker'[v].reservation_id = next_id
    BY <1>3 DEF Holding, IdleWorker
  <1>7. IdleWorker.reservation_id = 0 /\ IdleWorker.pc = "idle"
    BY DEF IdleWorker, NoReservation
  <1>8. WorkerInv'
    BY <1>2, <1>6, <1>7 DEF Inv, WorkerInv, TypeOK, Worker
  <1>9. \A v \in Workers : worker[v].reservation_id < next_id
    BY DEF Inv, WorkerInv
  <1>10. LeaseInv'
    BY <1>2, <1>6, <1>7, <1>9 DEF Inv, LeaseInv, TypeOK, Worker
  <1>11. SweepInv'
    BY <1>1, <1>2 DEF Inv, SweepInv
  <1>12. CompletionBacked'
    BY <1>1, <1>2 DEF Inv, CompletionBacked
  <1>13. LiveAccounted'
    <2>1. \A i \in Ids : entries[i].attempts \in Int /\ entries[i].errors \in Int
      BY DEF Inv, TypeOK, Row
    <2> QED
      BY <1>1, <2>1 DEF Inv, LiveAccounted
  <1>14. ReservedDecodes'
    BY <1>1 DEF Inv, ReservedDecodes, Decodes
  <1> QED
    BY <1>4, <1>5, <1>8, <1>10, <1>11, <1>12, <1>13, <1>14 DEF Inv

LEMMA ReserveStep ==
    ASSUME Inv, NEW w \in Workers, Reserve(w) \/ ReserveUnacknowledged(w)
    PROVE  Inv'
  <1>1. CASE Reserve(w)
    <2>1. PICK S \in Batches :
             /\ ReserveRows(S)
             /\ worker' = [worker EXCEPT ![w] =
                              Holding(next_id, {i \in S : Decodes(i)})]
      BY <1>1 DEF Reserve
    <2>2. {i \in S : Decodes(i)} \in SUBSET Ids
      BY DEF Batches, Candidates
    <2> QED
      BY <1>1, <2>1, <2>2, BatchStep DEF Reserve, MayReserve
  <1>2. CASE ReserveUnacknowledged(w)
    <2>1. PICK S \in Batches : ReserveRows(S) /\ worker' = worker
      BY <1>2 DEF ReserveUnacknowledged
    <2>2. {} \in SUBSET Ids
      OBVIOUS
    <2> QED
      BY <1>2, <2>1, <2>2, BatchStep DEF ReserveUnacknowledged, MayReserve
  <1> QED
    BY <1>1, <1>2

-----------------------------------------------------------------------------
(* Consumers.  A consumer that carries on keeps its reservation; one that  *)
(* is through or dies holds none.                                          *)
LEMMA ConsumerMoves ==
    ASSUME Inv, NEW w \in Workers, NEW x \in Worker,
           worker' = [worker EXCEPT ![w] = x],
           \/ x = IdleWorker
           \/ /\ worker[w] # IdleWorker
              /\ x.reservation_id = worker[w].reservation_id
              /\ x.pc # "idle" => x.item \in Ids
              /\ x.pc = "completing" => <<x.item, x.reservation_id>> \in delivered',
           next_id' = next_id,
           delivered \subseteq delivered'
    PROVE  worker' \in [Workers -> Worker] /\ WorkerInv' /\ LeaseInv'
  <1>1. worker \in [Workers -> Worker] /\ next_id \in Nat \ {0}
    BY DEF Inv, TypeOK
  <1>2. worker' \in [Workers -> Worker]
    BY <1>1
  <1>3. \A v \in Workers : worker'[v] = IF v = w THEN x ELSE worker[v]
    BY <1>1
  <1>4. IdleWorker.reservation_id = 0 /\ IdleWorker.pc = "idle"
    BY DEF IdleWorker, NoReservation
  <1>5. WorkerInv'
    <2>1. next_id' \in Nat \ {0} /\ next_id' = next_id
      BY <1>1
    <2>2. /\ x.reservation_id < next_id'
          /\ x.pc # "idle" => x.item \in Ids
          /\ x # IdleWorker => x.reservation_id > 0
          /\ x.pc = "completing" => <<x.item, x.reservation_id>> \in delivered'
      <3>1. CASE x = IdleWorker
        BY <3>1, <2>1, <1>4
      <3>2. CASE x # IdleWorker
        BY <3>2, <2>1 DEF Inv, WorkerInv
      <3> QED
        BY <3>1, <3>2
    <2>3. ASSUME NEW v \in Workers, v # w
          PROVE  /\ worker'[v].reservation_id < next_id'
                 /\ worker'[v].pc # "idle" => worker'[v].item \in Ids
                 /\ worker'[v] # IdleWorker => worker'[v].reservation_id > 0
                 /\ worker'[v].pc = "completing" =>
                        <<worker'[v].item, worker'[v].reservation_id>> \in delivered'
      BY <2>1, <2>3, <1>3 DEF Inv, WorkerInv
    <2>4. worker'[w] = x
      BY <1>3
    <2>5. IdleWorker' = IdleWorker
      BY DEF IdleWorker
    <2> QED
      BY <2>2, <2>3, <2>4, <2>5 DEF WorkerInv
  <1>6. LeaseInv'
    BY <1>3, <1>4 DEF Inv, LeaseInv
  <1> QED
    BY <1>2, <1>5, <1>6

LEMMA ConsumerOnlyStep ==
    ASSUME Inv, UNCHANGED <<entries, sweeper, row_lock, next_id, granted>>,
           delivered' \subseteq Ids \X Nat,
           delivered \subseteq delivered',
           worker' \in [Workers -> Worker], WorkerInv', LeaseInv'
    PROVE  Inv'
  BY DEF Inv, TypeOK, RowInv, SweepInv, CompletionBacked, LiveAccounted,
         ReservedDecodes, Decodes

(* A reserved row that no sweep holds is finalized.                        *)
LEMMA FinalizeStep ==
    ASSUME Inv, NEW i \in Ids, NEW r \in Row,
           entries[i].status = "Reserved", Unlocked(i),
           entries' = [entries EXCEPT ![i] = r],
           r.attempts = entries[i].attempts,
           \/ /\ r.status = "Completed" /\ r.errors = entries[i].errors
              /\ <<i, granted[i]>> \in delivered
           \/ r.status = "Failed" /\ r.errors = entries[i].errors + 1,
           UNCHANGED <<sweeper, row_lock, next_id, granted, delivered>>,
           worker' \in [Workers -> Worker], WorkerInv', LeaseInv'
    PROVE  Inv'
  <1>1. \A j \in Ids : entries'[j] = IF j = i THEN r ELSE entries[j]
    BY DEF Inv, TypeOK
  <1>2. TypeOK'
    BY <1>1 DEF Inv, TypeOK
  <1>3. RowInv' /\ ReservedDecodes' /\ CompletionBacked'
    BY <1>1 DEF Inv, RowInv, ReservedDecodes, CompletionBacked, Decodes
  <1>4. \A s \in Sweepers : sweeper[s].read[i] > 0 => row_lock[i] = s
    BY DEF Inv, SweepInv
  <1>5. \A s \in Sweepers : ~ sweeper[s].read[i] > 0
    BY <1>4, QueueAssumption DEF QueueAssumption, Unlocked, NoLock
  <1>6. SweepInv'
    BY <1>1, <1>5 DEF Inv, SweepInv
  <1>7. LiveAccounted'
    <2>1. \A j \in Ids : entries[j].attempts \in Int /\ entries[j].errors \in Int
      BY DEF Inv, TypeOK, Row
    <2> QED
      BY <1>1, <2>1 DEF Inv, LiveAccounted
  <1> QED
    BY <1>2, <1>3, <1>6, <1>7 DEF Inv

LEMMA BeginStep ==
    ASSUME Inv, NEW w \in Workers, Begin(w)
    PROVE  Inv'
  <1>1. PICK i \in worker[w].todo :
           worker' = [worker EXCEPT ![w].pc = "working", ![w].item = i,
                                    ![w].todo = @ \ {i}]
    BY DEF Begin
  <1> DEFINE x == [worker[w] EXCEPT !.pc = "working", !.item = i,
                                    !.todo = @ \ {i}]
  <1>2. worker[w] \in Worker /\ i \in Ids
    BY <1>1 DEF Inv, TypeOK, Worker
  <1>3. /\ x \in Worker /\ x.pc = "working" /\ x.item = i
        /\ x.reservation_id = worker[w].reservation_id
    BY <1>2 DEF Worker
  <1>4. worker[w] # IdleWorker
    BY <1>1 DEF IdleWorker
  <1>5. worker' = [worker EXCEPT ![w] = x]
    BY <1>1 DEF Inv, TypeOK
  <1> HIDE DEF x
  <1>6. UNCHANGED <<entries, sweeper, row_lock, next_id, granted, delivered>>
    BY DEF Begin
  <1>7. worker' \in [Workers -> Worker] /\ WorkerInv' /\ LeaseInv'
    BY <1>2, <1>3, <1>4, <1>5, <1>6, ConsumerMoves
  <1> QED
    BY <1>6, <1>7, ConsumerOnlyStep DEF Inv, TypeOK

(* The pc of a consumer moves on, and nothing else of it.                  *)
LEMMA PcMoves ==
    ASSUME Inv, NEW w \in Workers, worker[w].pc # "idle",
           NEW pc \in {"completing", "failing"},
           worker' = [worker EXCEPT ![w].pc = pc],
           next_id' = next_id, delivered \subseteq delivered',
           pc = "completing" =>
               <<worker[w].item, worker[w].reservation_id>> \in delivered'
    PROVE  worker' \in [Workers -> Worker] /\ WorkerInv' /\ LeaseInv'
  <1> DEFINE x == [worker[w] EXCEPT !.pc = pc]
  <1>1. worker[w] \in Worker /\ worker[w] # IdleWorker
    BY DEF Inv, TypeOK, IdleWorker
  <1>2. worker[w].item \in Ids
    BY DEF Inv, WorkerInv
  <1>3. /\ x \in Worker /\ x.pc = pc /\ x.item = worker[w].item
        /\ x.reservation_id = worker[w].reservation_id
    BY <1>1 DEF Worker
  <1>4. worker' = [worker EXCEPT ![w] = x]
    BY DEF Inv, TypeOK
  <1> HIDE DEF x
  <1> QED
    BY <1>1, <1>2, <1>3, <1>4, ConsumerMoves

LEMMA ItemDoneMoves ==
    ASSUME Inv, NEW w \in Workers, worker[w].pc # "idle", ItemDone(w),
           UNCHANGED <<next_id, delivered>>
    PROVE  worker' \in [Workers -> Worker] /\ WorkerInv' /\ LeaseInv'
  <1> DEFINE x == Holding(worker[w].reservation_id, worker[w].todo)
  <1>1. /\ worker[w] \in Worker /\ worker[w].reservation_id \in Nat
        /\ worker[w].todo \in SUBSET Ids /\ worker[w] # IdleWorker
    BY DEF Inv, TypeOK, Worker, IdleWorker
  <1>2. x \in Worker
    BY <1>1, HoldingType
  <1>3. \/ x = IdleWorker
        \/ x.pc = "idle" /\ x.reservation_id = worker[w].reservation_id
    <2>1. CASE worker[w].todo = {}
      BY <2>1 DEF Holding
    <2>2. CASE worker[w].todo # {}
      BY <2>2 DEF Holding, IdleWorker
    <2> QED
      BY <2>1, <2>2
  <1>4. worker' = [worker EXCEPT ![w] = x]
    BY DEF ItemDone
  <1> HIDE DEF x
  <1> QED
    BY <1>1, <1>2, <1>3, <1>4, ConsumerMoves

LEMMA WorkStep ==
    ASSUME Inv, NEW w \in Workers, WorkSucceeds(w) \/ WorkFails(w)
    PROVE  Inv'
  <1>1. CASE WorkSucceeds(w)
    <2>1. worker[w].item \in Ids /\ worker[w].reservation_id \in Nat
      BY <1>1 DEF WorkSucceeds, Inv, WorkerInv, TypeOK, Worker
    <2>2. /\ delivered \subseteq delivered' /\ delivered' \subseteq Ids \X Nat
          /\ <<worker[w].item, worker[w].reservation_id>> \in delivered'
      BY <1>1, <2>1 DEF WorkSucceeds, Inv, TypeOK
    <2>3. worker' \in [Workers -> Worker] /\ WorkerInv' /\ LeaseInv'
      BY <1>1, <2>2, PcMoves DEF WorkSucceeds
    <2> QED
      BY <1>1, <2>2, <2>3, ConsumerOnlyStep DEF WorkSucceeds
  <1>2. CASE WorkFails(w)
    <2>1. worker' \in [Workers -> Worker] /\ WorkerInv' /\ LeaseInv'
      BY <1>2, PcMoves DEF WorkFails
    <2> QED
      BY <1>2, <2>1, ConsumerOnlyStep DEF WorkFails, Inv, TypeOK
  <1> QED
    BY <1>1, <1>2

LEMMA CompleteStep ==
    ASSUME Inv, NEW w \in Workers, Complete(w)
    PROVE  Inv'
  <1> DEFINE i == worker[w].item
  <1>1. /\ i \in Ids /\ worker[w].pc = "completing" /\ Unlocked(i)
        /\ <<i, worker[w].reservation_id>> \in delivered
        /\ UNCHANGED <<sweeper, row_lock, next_id, granted, delivered>>
    BY DEF Complete, Inv, WorkerInv
  <1>2. ItemDone(w) \/ ItemFails(w)
    BY DEF Complete
  <1>3. worker' \in [Workers -> Worker] /\ WorkerInv' /\ LeaseInv'
    <2>1. CASE ItemDone(w)
      BY <1>1, <2>1, ItemDoneMoves
    <2>2. CASE ItemFails(w)
      BY <1>1, <2>2, PcMoves DEF ItemFails
    <2> QED
      BY <1>2, <2>1, <2>2
  <1>4. CASE Owned(i, worker[w].reservation_id)
    <2>1. entries' = [entries EXCEPT ![i] = CompletedRow(entries[i])]
      BY <1>4 DEF Complete
    <2>2. <<i, granted[i]>> \in delivered
      BY <1>1, <1>4 DEF Owned, Inv, RowInv
    <2>3. entries[i] \in Row /\ entries[i].status = "Reserved"
      BY <1>1, <1>4 DEF Owned, Inv, TypeOK
    <2> DEFINE r == CompletedRow(entries[i])
    <2>4. /\ r \in Row /\ r.status = "Completed"
          /\ r.attempts = entries[i].attempts /\ r.errors = entries[i].errors
      BY <2>3, CompletedRowType
    <2>5. entries' = [entries EXCEPT ![i] = r]
      BY <2>1
    <2> HIDE DEF r, i
    <2> QED
      BY <1>1, <1>3, <2>2, <2>3, <2>4, <2>5, FinalizeStep
  <1>5. CASE ~ Owned(i, worker[w].reservation_id)
    BY <1>1, <1>3, <1>5, ConsumerOnlyStep DEF Complete, Inv, TypeOK
  <1> QED
    BY <1>4, <1>5

LEMMA FailStep ==
    ASSUME Inv, NEW w \in Workers, Fail(w)
    PROVE  Inv'
  <1> DEFINE i == worker[w].item
  <1>1. /\ i \in Ids /\ worker[w].pc = "failing" /\ Unlocked(i) /\ ItemDone(w)
        /\ UNCHANGED <<sweeper, row_lock, next_id, granted, delivered>>
    BY DEF Fail, Inv, WorkerInv
  <1>2. worker' \in [Workers -> Worker] /\ WorkerInv' /\ LeaseInv'
    BY <1>1, ItemDoneMoves
  <1>3. CASE Owned(i, worker[w].reservation_id)
    <2>1. entries[i] \in Row /\ entries[i].status = "Reserved"
      BY <1>1, <1>3 DEF Owned, Inv, TypeOK
    <2>2. entries[i].attempts > 0
      BY <1>1, <2>1 DEF Inv, RowInv
    <2> DEFINE r == FailedRow(entries[i])
    <2>3. /\ r \in Row /\ r.status = "Failed"
          /\ r.attempts = entries[i].attempts /\ r.errors = entries[i].errors + 1
      BY <2>1, <2>2, FailedRowType
    <2>4. entries' = [entries EXCEPT ![i] = r]
      BY <1>3 DEF Fail
    <2> HIDE DEF r, i
    <2> QED
      BY <1>1, <1>2, <2>1, <2>3, <2>4, FinalizeStep
  <1>4. CASE ~ Owned(i, worker[w].reservation_id)
    BY <1>1, <1>2, <1>4, ConsumerOnlyStep DEF Fail, Inv, TypeOK
  <1> QED
    BY <1>3, <1>4

LEMMA StorageFailsStep ==
    ASSUME Inv, NEW w \in Workers, StorageFails(w)
    PROVE  Inv'
  <1>1. worker' \in [Workers -> Worker] /\ WorkerInv' /\ LeaseInv'
    <2>1. CASE worker[w].pc = "completing" /\ ItemFails(w)
      BY <2>1, PcMoves DEF ItemFails, StorageFails
    <2>2. CASE worker[w].pc = "failing" /\ ItemDone(w)
      BY <2>2, ItemDoneMoves DEF StorageFails
    <2> QED
      BY <2>1, <2>2 DEF StorageFails
  <1> QED
    BY <1>1, ConsumerOnlyStep DEF StorageFails, Inv, TypeOK

LEMMA CrashStep ==
    ASSUME Inv, NEW w \in Workers, Crash(w)
    PROVE  Inv'
  <1>1. IdleWorker \in Worker
    BY HoldingType
  <1>2. worker' \in [Workers -> Worker] /\ WorkerInv' /\ LeaseInv'
    BY <1>1, ConsumerMoves DEF Crash
  <1> QED
    BY <1>2, ConsumerOnlyStep DEF Crash, Inv, TypeOK

-----------------------------------------------------------------------------
(* Sweeps and time.                                                        *)
LEMMA SweepBeginStep ==
    ASSUME Inv, NEW s \in Sweepers, SweepBegin(s)
    PROVE  Inv'
  <1> DEFINE snapshot == {i \in Ids : Stale(i, 0)}
             x == [sweeper[s] EXCEPT !.open = TRUE, !.pending = snapshot]
  <1>1. sweeper \in [Sweepers -> Sweeper] /\ snapshot \in SUBSET Ids
    BY DEF Inv, TypeOK
  <1>2. sweeper' = [sweeper EXCEPT ![s] = x]
    BY <1>1 DEF SweepBegin
  <1> HIDE DEF snapshot
  <1>3. x \in Sweeper /\ x.open /\ x.read = sweeper[s].read
    BY <1>1 DEF Sweeper
  <1> HIDE DEF x
  <1>4. \A t \in Sweepers : sweeper'[t] = IF t = s THEN x ELSE sweeper[t]
    BY <1>1, <1>2
  <1>5. UNCHANGED <<entries, worker, row_lock, next_id, granted, delivered>>
    BY DEF SweepBegin
  <1>6. TypeOK'
    BY <1>1, <1>2, <1>3, <1>5 DEF Inv, TypeOK
  <1>7. SweepInv'
    BY <1>3, <1>4, <1>5 DEF Inv, SweepInv
  <1> QED
    BY <1>5, <1>6, <1>7 DEF Inv, RowInv, WorkerInv, LeaseInv, CompletionBacked,
                            LiveAccounted, ReservedDecodes, Decodes

LEMMA SweepLockStep ==
    ASSUME Inv, NEW s \in Sweepers, SweepLock(s)
    PROVE  Inv'
  <1>1. PICK i \in Ids :
           /\ LockNext(s, i)
           /\ Unlocked(i)
           /\ row_lock' = [row_lock EXCEPT ![i] = s]
           /\ sweeper' = [sweeper EXCEPT
                 ![s].pending = @ \ {i},
                 ![s].read[i] = IF Stale(i, sweeper[s].elapsed)
                                THEN entries[i].attempts ELSE 0]
    BY DEF SweepLock
  <1> DEFINE n == IF Stale(i, sweeper[s].elapsed) THEN entries[i].attempts ELSE 0
             x == [sweeper[s] EXCEPT !.pending = @ \ {i}, !.read[i] = n]
  <1>2. /\ sweeper \in [Sweepers -> Sweeper] /\ sweeper[s] \in Sweeper
        /\ entries[i] \in Row /\ row_lock \in [Ids -> Sweepers \cup {NoLock}]
        /\ sweeper[s].open
    BY DEF Inv, TypeOK, SweepLock
  <1>3. n \in 0 .. MaxAttempts
    BY <1>2, QueueAssumption DEF QueueAssumption, Row
  <1>4. n > 0 => /\ entries[i].status = "Reserved" /\ entries[i].attempts = n
                 /\ entries[i].reserved_for > Timeout
    BY <1>2, QueueAssumption, BoundsType
       DEF Stale, QueueAssumption, Row, Sweeper
  <1>5. sweeper' = [sweeper EXCEPT ![s] = x]
    BY <1>1, <1>2
  <1> HIDE DEF n
  <1>6. x.read = [sweeper[s].read EXCEPT ![i] = n] /\ x.open /\ x \in Sweeper
    BY <1>2, <1>3 DEF Sweeper
  <1> HIDE DEF x
  <1>7. \A t \in Sweepers : sweeper'[t] = IF t = s THEN x ELSE sweeper[t]
    BY <1>2, <1>5
  <1>8. \A j \in Ids : /\ row_lock'[j] = IF j = i THEN s ELSE row_lock[j]
                       /\ x.read[j] = IF j = i THEN n ELSE sweeper[s].read[j]
    BY <1>1, <1>2, <1>6 DEF Sweeper
  <1>9. UNCHANGED <<entries, worker, next_id, granted, delivered>>
    BY DEF SweepLock
  <1>10. TypeOK'
    <2>1. sweeper' \in [Sweepers -> Sweeper]
      BY <1>2, <1>5, <1>6
    <2>2. row_lock' = [row_lock EXCEPT ![i] = s]
      BY <1>1
    <2>3. row_lock' \in [Ids -> Sweepers \cup {NoLock}]
      BY <1>2, <2>2
    <2> QED
      BY <1>9, <2>1, <2>3 DEF Inv, TypeOK
  <1>11. \A t \in Sweepers : ~ sweeper[t].read[i] > 0
    BY <1>1, QueueAssumption
       DEF QueueAssumption, Unlocked, NoLock, Inv, SweepInv
  <1>12. SweepInv'
    <2> SUFFICES ASSUME NEW t \in Sweepers, NEW j \in Ids,
                        sweeper'[t].read[j] > 0
                 PROVE  /\ sweeper'[t].open
                        /\ row_lock'[j] = t
                        /\ entries'[j].status = "Reserved"
                        /\ entries'[j].attempts = sweeper'[t].read[j]
                        /\ entries'[j].reserved_for > Timeout
      BY DEF SweepInv
    <2>1. CASE t = s /\ j = i
      BY <1>4, <1>6, <1>7, <1>8, <1>9, <2>1
    <2>2. CASE t = s /\ j # i
      <3>1. /\ sweeper[s].read[j] > 0 /\ sweeper'[t].open
            /\ sweeper'[t].read[j] = sweeper[s].read[j]
            /\ row_lock'[j] = row_lock[j]
        BY <1>6, <1>7, <1>8, <2>2
      <3> QED
        BY <1>9, <2>2, <3>1 DEF Inv, SweepInv
    <2>3. CASE t # s
      <3>1. sweeper'[t] = sweeper[t] /\ j # i
        BY <1>7, <1>11, <2>3
      <3> QED
        BY <1>8, <1>9, <3>1 DEF Inv, SweepInv
    <2> QED
      BY <2>1, <2>2, <2>3
  <1> QED
    BY <1>9, <1>10, <1>12 DEF Inv, RowInv, WorkerInv, LeaseInv, CompletionBacked,
                              LiveAccounted, ReservedDecodes, Decodes

LEMMA CloseSweepMoves ==
    ASSUME Inv, NEW s \in Sweepers, CloseSweep(s)
    PROVE  /\ sweeper' \in [Sweepers -> Sweeper]
           /\ row_lock' \in [Ids -> Sweepers \cup {NoLock}]
           /\ \A i \in Ids : \A t \in Sweepers :
                 sweeper'[t].read[i] > 0 =>
                    /\ t # s /\ sweeper'[t] = sweeper[t]
                    /\ row_lock[i] = t /\ row_lock'[i] = t
  <1>1. /\ sweeper \in [Sweepers -> Sweeper]
        /\ row_lock \in [Ids -> Sweepers \cup {NoLock}]
    BY DEF Inv, TypeOK
  <1>2. \A t \in Sweepers : sweeper'[t] = IF t = s THEN ClosedSweep ELSE sweeper[t]
    BY <1>1 DEF CloseSweep
  <1>3. \A i \in Ids : row_lock'[i] = IF row_lock[i] = s THEN NoLock ELSE row_lock[i]
    BY DEF CloseSweep
  <1>4. \A i \in Ids : ClosedSweep.read[i] = 0
    BY DEF ClosedSweep
  <1>5. \A i \in Ids, t \in Sweepers : sweeper[t].read[i] > 0 => row_lock[i] = t
    BY DEF Inv, SweepInv
  <1>6. /\ sweeper' \in [Sweepers -> Sweeper]
        /\ row_lock' \in [Ids -> Sweepers \cup {NoLock}]
    BY <1>1, ClosedSweepType DEF CloseSweep
  <1> QED
    BY <1>2, <1>3, <1>4, <1>5, <1>6

(* A sweep that ends without having written.                               *)
LEMMA CloseSweepStep ==
    ASSUME Inv, NEW s \in Sweepers, CloseSweep(s),
           UNCHANGED <<entries, worker, next_id, granted, delivered>>
    PROVE  Inv'
  <1>1. /\ sweeper' \in [Sweepers -> Sweeper]
        /\ row_lock' \in [Ids -> Sweepers \cup {NoLock}]
        /\ \A i \in Ids : \A t \in Sweepers :
              sweeper'[t].read[i] > 0 =>
                 /\ t # s /\ sweeper'[t] = sweeper[t]
                 /\ row_lock[i] = t /\ row_lock'[i] = t
    BY CloseSweepMoves
  <1>2. TypeOK'
    BY <1>1 DEF Inv, TypeOK
  <1>3. SweepInv'
    BY <1>1 DEF Inv, SweepInv
  <1> QED
    BY <1>2, <1>3 DEF Inv, RowInv, WorkerInv, LeaseInv, CompletionBacked,
                      LiveAccounted, ReservedDecodes, Decodes

LEMMA SweepWriteStep ==
    ASSUME Inv, NEW s \in Sweepers, SweepWrite(s),
           ~ Refused(s)
    PROVE  Inv'
  <1>1. /\ UNCHANGED <<worker, next_id, granted, delivered>>
        /\ CloseSweep(s)
        /\ entries' = [i \in Ids |->
              IF i \in Selected(s)
              THEN SweptRow(entries[i], sweeper[s].read[i], sweeper[s].elapsed)
              ELSE entries[i]]
    BY DEF SweepWrite
  <1>2. /\ sweeper' \in [Sweepers -> Sweeper]
        /\ row_lock' \in [Ids -> Sweepers \cup {NoLock}]
        /\ \A i \in Ids : \A t \in Sweepers :
              sweeper'[t].read[i] > 0 =>
                 /\ t # s /\ sweeper'[t] = sweeper[t]
                 /\ row_lock[i] = t /\ row_lock'[i] = t
    BY <1>1, CloseSweepMoves
  <1>3. ASSUME NEW i \in Selected(s)
        PROVE  /\ i \in Ids /\ row_lock[i] = s
               /\ entries[i].status = "Reserved"
               /\ entries'[i] \in Row /\ entries'[i].status = "Failed"
               /\ entries'[i].attempts = entries[i].attempts
               /\ entries'[i].errors = entries[i].errors + 1
    <2>1. i \in Ids /\ sweeper[s].read[i] > 0
      BY DEF Selected
    <2>2. row_lock[i] = s /\ entries[i].status = "Reserved" /\ entries[i] \in Row
      BY <2>1 DEF Inv, SweepInv, TypeOK
    <2>3. /\ sweeper[s].read[i] \in 1 .. MaxAttempts
          /\ sweeper[s].elapsed \in 0 .. MaxElapsed
      BY <2>1, QueueAssumption DEF QueueAssumption, Inv, TypeOK, Sweeper
    <2> QED
      BY <1>1, <2>1, <2>2, <2>3, SweptRowType
  <1>4. \A i \in Ids \ Selected(s) : entries'[i] = entries[i]
    BY <1>1
  <1>5. TypeOK'
    <2>1. \A i \in Ids : entries'[i] \in Row
      BY <1>3, <1>4 DEF Inv, TypeOK
    <2>2. entries' \in [Ids -> Row]
      BY <1>1, <2>1
    <2> QED
      BY <1>1, <1>2, <2>2 DEF Inv, TypeOK
  <1>6. RowInv' /\ CompletionBacked' /\ ReservedDecodes'
    BY <1>1, <1>3, <1>4 DEF Inv, RowInv, CompletionBacked, ReservedDecodes, Decodes
  <1>7. SweepInv'
    BY <1>2, <1>3, <1>4 DEF Inv, SweepInv
  <1>8. LiveAccounted'
    <2>1. \A j \in Ids : entries[j].attempts \in Int /\ entries[j].errors \in Int
      BY DEF Inv, TypeOK, Row
    <2> QED
      BY <1>3, <1>4, <2>1 DEF Inv, LiveAccounted
  <1>9. WorkerInv' /\ LeaseInv'
    BY <1>1 DEF Inv, WorkerInv, LeaseInv
  <1> QED
    BY <1>5, <1>6, <1>7, <1>8, <1>9 DEF Inv

LEMMA SweepEndStep ==
    ASSUME Inv, NEW s \in Sweepers, SweepWrite(s) \/ SweepAbort(s)
    PROVE  Inv'
  <1>1. CASE SweepAbort(s)
    BY <1>1, CloseSweepStep DEF SweepAbort
  <1>2. CASE SweepWrite(s) /\ ~ Refused(s)
    BY <1>2, SweepWriteStep
  <1>3. CASE SweepWrite(s) /\ Refused(s)
    <2>1. entries' = entries
      <3>1. entries' = [i \in Ids |-> entries[i]]
        BY <1>3 DEF SweepWrite
      <3> QED
        BY <3>1 DEF Inv, TypeOK
    <2> QED
      BY <1>3, <2>1, CloseSweepStep DEF SweepWrite
  <1> QED
    BY <1>1, <1>2, <1>3

LEMMA TickStep == Inv /\ Tick => Inv'
  <1> SUFFICES ASSUME Inv, Tick PROVE Inv'
    OBVIOUS
  <1>1. UNCHANGED <<worker, row_lock, next_id, granted, delivered>>
    BY DEF Tick
  <1>2. \A i \in Ids : entries[i] \in Row
    BY DEF Inv, TypeOK
  <1>3. entries' = [i \in Ids |-> Aged(entries[i])]
    BY DEF Tick
  <1>4. entries' \in [Ids -> Row]
    BY <1>2, <1>3, AgedType
  <1>5. \A i \in Ids :
           /\ entries'[i].status = entries[i].status
           /\ entries'[i].attempts = entries[i].attempts
           /\ entries'[i].errors = entries[i].errors
           /\ entries'[i].reservation_id = entries[i].reservation_id
           /\ entries'[i].shape = entries[i].shape
    <2> SUFFICES ASSUME NEW r \in Row
                 PROVE  /\ Aged(r).status = r.status
                        /\ Aged(r).attempts = r.attempts
                        /\ Aged(r).errors = r.errors
                        /\ Aged(r).reservation_id = r.reservation_id
                        /\ Aged(r).shape = r.shape
      BY <1>2, <1>3
    <2> QED
      BY DEF Aged, Row
  <1>6. \A i \in Ids : entries[i].reserved_for > Timeout
                           => entries'[i].reserved_for > Timeout
    <2> SUFFICES ASSUME NEW r \in Row, r.reserved_for > Timeout
                 PROVE  Aged(r).reserved_for > Timeout
      BY <1>2, <1>3
    <2>1. Aged(r).reserved_for \in {r.reserved_for, r.reserved_for + 1}
      BY DEF Aged, Row
    <2> QED
      BY <2>1, QueueAssumption, BoundsType DEF QueueAssumption, Row
  <1>7. \A s \in Sweepers : /\ sweeper'[s] \in Sweeper
                            /\ sweeper'[s].open = sweeper[s].open
                            /\ sweeper'[s].read = sweeper[s].read
    <2> SUFFICES ASSUME NEW s \in Sweepers
                 PROVE  /\ sweeper'[s] \in Sweeper
                        /\ sweeper'[s].open = sweeper[s].open
                        /\ sweeper'[s].read = sweeper[s].read
      OBVIOUS
    <2>1. sweeper[s] \in Sweeper
      BY DEF Inv, TypeOK
    <2>2. CASE sweeper[s].open
      <3>1. sweeper[s].elapsed + 1 \in 0 .. MaxElapsed
        BY <2>1, <2>2, QueueAssumption DEF QueueAssumption, Tick, Sweeper
      <3>2. sweeper'[s] = [sweeper[s] EXCEPT !.elapsed = sweeper[s].elapsed + 1]
        BY <2>2 DEF Tick
      <3> QED
        BY <2>1, <3>1, <3>2 DEF Sweeper
    <2>3. CASE ~ sweeper[s].open
      BY <2>1, <2>3 DEF Tick
    <2> QED
      BY <2>2, <2>3
  <1>8. sweeper' \in [Sweepers -> Sweeper]
    BY <1>7 DEF Tick
  <1>9. TypeOK'
    BY <1>1, <1>4, <1>8 DEF Inv, TypeOK
  <1>10. RowInv' /\ CompletionBacked' /\ LiveAccounted' /\ ReservedDecodes'
    BY <1>1, <1>5 DEF Inv, RowInv, CompletionBacked, LiveAccounted,
                      ReservedDecodes, Decodes
  <1>11. SweepInv'
    BY <1>1, <1>5, <1>6, <1>7 DEF Inv, SweepInv
  <1>12. WorkerInv' /\ LeaseInv'
    BY <1>1 DEF Inv, WorkerInv, LeaseInv
  <1> QED
    BY <1>9, <1>10, <1>11, <1>12 DEF Inv

-----------------------------------------------------------------------------
LEMMA NextStep == Inv /\ [Next]_vars => Inv'
  <1> SUFFICES ASSUME Inv, [Next]_vars PROVE Inv'
    OBVIOUS
  <1>1. CASE Store
    BY <1>1, StoreStep
  <1>2. ASSUME NEW w \in Workers, Consume(w) PROVE Inv'
    BY <1>2, ReserveStep, BeginStep, WorkStep, CompleteStep, FailStep,
       StorageFailsStep, CrashStep DEF Consume
  <1>3. ASSUME NEW s \in Sweepers, Sweep(s) PROVE Inv'
    BY <1>3, SweepBeginStep, SweepLockStep, SweepEndStep
       DEF Sweep
  <1>4. CASE Tick
    BY <1>4, TickStep
  <1>5. CASE UNCHANGED vars
    BY <1>5, StutterStep
  <1> QED
    BY <1>1, <1>2, <1>3, <1>4, <1>5 DEF Next

(* Every reachable state satisfies the inductive invariant.                *)
THEOREM Invariance == Spec => []Inv
  BY InitInv, NextStep, PTL DEF Spec

(* The table, the consumers, the sweeps and the locks keep their shape.    *)
THEOREM TypeCorrect == Spec => []TypeOK
  <1>1. Inv => TypeOK
    BY DEF Inv
  <1> QED
    BY <1>1, Invariance, PTL

(* At most one consumer can finalize a row.                                *)
THEOREM LeasesAreExclusive == Spec => []LeaseExclusive
  <1>1. Inv => LeaseExclusive
    <2> SUFFICES ASSUME Inv, NEW w \in Workers, NEW v \in Workers,
                        NEW i \in Holds(w) \cap Holds(v), w # v,
                        Owned(i, worker[w].reservation_id),
                        Owned(i, worker[v].reservation_id)
                 PROVE  FALSE
      BY DEF LeaseExclusive
    <2>1. worker[w].reservation_id = worker[v].reservation_id
      BY DEF Owned
    <2>2. worker[w] # IdleWorker
      BY DEF Holds, IdleWorker
    <2>3. worker[w].reservation_id > 0
      BY <2>2 DEF Inv, WorkerInv
    <2> QED
      BY <2>1, <2>3 DEF Inv, LeaseInv
  <1> QED
    BY <1>1, Invariance, PTL

(* A completion stands on work delivered under the row's last reservation. *)
THEOREM CompletionsAreBacked == Spec => []CompletionBacked
  <1>1. Inv => CompletionBacked
    BY DEF Inv
  <1> QED
    BY <1>1, Invariance, PTL

(* A sweep writes by key what is still true of the rows it read.           *)
THEOREM SweepReadsAreStable == Spec => []SweepReadStable
  <1>1. Inv => SweepReadStable
    BY DEF Inv, SweepInv, SweepReadStable, Selected
  <1> QED
    BY <1>1, Invariance, PTL

(* No malformed row stays reserved.                                        *)
THEOREM ReservationsDecode == Spec => []ReservedDecodes
  <1>1. Inv => ReservedDecodes
    BY DEF Inv
  <1> QED
    BY <1>1, Invariance, PTL

-----------------------------------------------------------------------------
(***************************************************************************)
(* What a step does to one row: nothing the accounts speak of, or one of   *)
(* four moves.  None leads to Dead, and none leads out of Completed or     *)
(* Dead.                                                                   *)
(***************************************************************************)
Unmoved(i) ==
    /\ entries'[i].status = entries[i].status
    /\ entries'[i].attempts = entries[i].attempts
    /\ entries'[i].errors = entries[i].errors

Stored(i) ==
    /\ entries[i].status = "Absent"
    /\ entries'[i].status = "Received"

Claimed(i) ==
    /\ entries[i].status \in {"Received", "Failed"}
    /\ \/ entries'[i].status = "Reserved" /\ entries'[i].errors = entries[i].errors
       \/ entries'[i].status = "Failed" /\ entries'[i].errors = entries[i].errors + 1

Ended(i) ==
    /\ entries[i].status = "Reserved"
    /\ entries'[i].status = "Completed"
    /\ entries'[i].errors = entries[i].errors

Released(i) ==
    /\ entries[i].status = "Reserved"
    /\ entries'[i].status = "Failed"
    /\ entries'[i].errors = entries[i].errors + 1

LEMMA StoreMoves ==
    ASSUME Inv, Store
    PROVE  \A i \in Ids : Unmoved(i) \/ Stored(i)
  <1>1. PICK j \in Ids : \/ \E skew \in Skews : Record(j, skew)
                         \/ \E shape \in BadShapes : InsertRaw(j, shape)
    BY DEF Store
  <1>2. ASSUME NEW skew \in Schedules, NEW shape \in Shapes,
               entries[j].status = "Absent",
               entries' = [entries EXCEPT ![j] = NewRow(skew, shape)]
        PROVE  \A i \in Ids : Unmoved(i) \/ Stored(i)
    <2>1. NewRow(skew, shape).status = "Received"
      BY NewRowType
    <2>2. \A i \in Ids : entries'[i] = IF i = j THEN NewRow(skew, shape)
                                       ELSE entries[i]
      BY <1>2 DEF Inv, TypeOK
    <2> QED
      BY <1>2, <2>1, <2>2 DEF Unmoved, Stored
  <1>3. CASE \E skew \in Skews : Record(j, skew)
    <2> PICK skew \in Skews : Record(j, skew)
      BY <1>3
    <2>1. CASE entries[j].status = "Absent"
      BY <2>1, <1>2, BoundsType DEF Record, Shapes
    <2>2. CASE entries[j].status # "Absent"
      BY <2>2 DEF Record, Inv, TypeOK, Unmoved
    <2> QED
      BY <2>1, <2>2
  <1>4. CASE \E shape \in BadShapes : InsertRaw(j, shape)
    BY <1>2, <1>4, BoundsType DEF InsertRaw, Shapes
  <1> QED
    BY <1>1, <1>3, <1>4

LEMMA ConsumeMoves ==
    ASSUME Inv, NEW w \in Workers, Consume(w)
    PROVE  \A i \in Ids : Unmoved(i) \/ Claimed(i) \/ Ended(i) \/ Released(i)
  <1> DEFINE Moves(i) == Unmoved(i) \/ Claimed(i) \/ Ended(i) \/ Released(i)
  <1>1. CASE Reserve(w) \/ ReserveUnacknowledged(w)
    <2>1. PICK S \in Batches : ReserveRows(S)
      BY <1>1 DEF Reserve, ReserveUnacknowledged
    <2>2. /\ \A i \in Ids \ S : entries'[i] = entries[i]
          /\ \A i \in S :
                /\ entries'[i].status = IF Decodes(i) THEN "Reserved" ELSE "Failed"
                /\ entries'[i].errors =
                      IF Decodes(i) THEN entries[i].errors ELSE entries[i].errors + 1
      BY <2>1, BatchRows
    <2>3. \A i \in S : entries[i].status \in {"Received", "Failed"}
      BY DEF Batches, Candidates
    <2> QED
      BY <2>2, <2>3 DEF Unmoved, Claimed
  <1>2. CASE Complete(w)
    <2>1. CASE UNCHANGED entries
      BY <2>1 DEF Unmoved
    <2>2. CASE ~ UNCHANGED entries
      <3> PICK i \in Ids : i = worker[w].item
        BY <1>2 DEF Complete, Inv, WorkerInv
      <3>1. /\ entries[i].status = "Reserved" /\ entries[i] \in Row
            /\ entries' = [entries EXCEPT ![i] = CompletedRow(entries[i])]
        BY <1>2, <2>2 DEF Complete, Owned, Inv, TypeOK
      <3>2. /\ CompletedRow(entries[i]).status = "Completed"
            /\ CompletedRow(entries[i]).errors = entries[i].errors
        BY <3>1, CompletedRowType
      <3>3. \A j \in Ids : entries'[j] = IF j = i THEN CompletedRow(entries[i])
                                         ELSE entries[j]
        BY <3>1 DEF Inv, TypeOK
      <3> QED
        BY <3>1, <3>2, <3>3 DEF Unmoved, Ended
    <2> QED
      BY <2>1, <2>2
  <1>3. CASE Fail(w)
    <2>1. CASE UNCHANGED entries
      BY <2>1 DEF Unmoved
    <2>2. CASE ~ UNCHANGED entries
      <3> PICK i \in Ids : i = worker[w].item
        BY <1>3 DEF Fail, Inv, WorkerInv
      <3>1. /\ entries[i].status = "Reserved" /\ entries[i] \in Row
            /\ entries[i].attempts > 0
            /\ entries' = [entries EXCEPT ![i] = FailedRow(entries[i])]
        BY <1>3, <2>2 DEF Fail, Owned, Inv, TypeOK, RowInv
      <3>2. /\ FailedRow(entries[i]).status = "Failed"
            /\ FailedRow(entries[i]).errors = entries[i].errors + 1
        BY <3>1, FailedRowType
      <3>3. \A j \in Ids : entries'[j] = IF j = i THEN FailedRow(entries[i])
                                         ELSE entries[j]
        BY <3>1 DEF Inv, TypeOK
      <3> QED
        BY <3>1, <3>2, <3>3 DEF Unmoved, Released
    <2> QED
      BY <2>1, <2>2
  <1>4. CASE UNCHANGED entries
    BY <1>4 DEF Unmoved
  <1> QED
    BY <1>1, <1>2, <1>3, <1>4
       DEF Consume, Begin, WorkSucceeds, WorkFails, StorageFails, Crash

LEMMA SweepMoves ==
    ASSUME Inv, NEW s \in Sweepers, Sweep(s)
    PROVE  \A i \in Ids : Unmoved(i) \/ Released(i)
  <1>1. CASE SweepWrite(s)
    <2> SUFFICES ASSUME NEW i \in Ids PROVE Unmoved(i) \/ Released(i)
      OBVIOUS
    <2>1. CASE i \in Selected(s) /\ ~ Refused(s)
      <3>1. sweeper[s].read[i] > 0
        BY <2>1 DEF Selected
      <3>2. entries[i].status = "Reserved" /\ entries[i] \in Row
        BY <3>1 DEF Inv, SweepInv, TypeOK
      <3>3. /\ sweeper[s].read[i] \in 1 .. MaxAttempts
            /\ sweeper[s].elapsed \in 0 .. MaxElapsed
        BY <3>1, QueueAssumption DEF QueueAssumption, Inv, TypeOK, Sweeper
      <3>4. entries'[i] = SweptRow(entries[i], sweeper[s].read[i], sweeper[s].elapsed)
        BY <1>1, <2>1 DEF SweepWrite
      <3> QED
        BY <3>2, <3>3, <3>4, SweptRowType DEF Released
    <2>2. CASE ~ (i \in Selected(s) /\ ~ Refused(s))
      BY <1>1, <2>2 DEF SweepWrite, Unmoved
    <2> QED
      BY <2>1, <2>2
  <1>2. CASE UNCHANGED entries
    BY <1>2 DEF Unmoved
  <1> QED
    BY <1>1, <1>2 DEF Sweep, SweepBegin, SweepLock, SweepAbort

LEMMA TickMoves ==
    ASSUME Inv, Tick
    PROVE  \A i \in Ids : Unmoved(i)
  <1>1. \A i \in Ids : entries[i] \in Row /\ entries'[i] = Aged(entries[i])
    BY DEF Tick, Inv, TypeOK
  <1>2. ASSUME NEW r \in Row
        PROVE  /\ Aged(r).status = r.status /\ Aged(r).attempts = r.attempts
               /\ Aged(r).errors = r.errors
    BY DEF Aged, Row
  <1> QED
    BY <1>1, <1>2 DEF Unmoved

LEMMA RowMoved ==
    ASSUME Inv, [Next]_vars
    PROVE  \A i \in Ids : \/ Unmoved(i) \/ Stored(i) \/ Claimed(i)
                          \/ Ended(i) \/ Released(i)
  <1>1. CASE UNCHANGED vars
    BY <1>1 DEF vars, Unmoved
  <1> QED
    BY <1>1, StoreMoves, ConsumeMoves, SweepMoves, TickMoves DEF Next

(* Nothing that is completed is ever written again.                        *)
THEOREM CompletionsAreFinal == Spec => CompletedIsFinal
  <1>1. Inv /\ [Next]_vars =>
           [\A i \in Ids : entries[i].status = "Completed" =>
               /\ entries'[i].status = "Completed"
               /\ entries'[i].attempts = entries[i].attempts
               /\ entries'[i].errors = entries[i].errors]_vars
    BY RowMoved DEF Unmoved, Stored, Claimed, Ended, Released
  <1> QED
    BY <1>1, Invariance, PTL DEF Spec, CompletedIsFinal

(* Only an operator buries a row, and only the outbox has one.             *)
NoneDead == \A i \in Ids : entries[i].status # "Dead"

LEMMA NoneBuried == Spec => []NoneDead
  <1>1. Init => NoneDead
    BY DEF Init, NoneDead, NoRow
  <1>2. Inv /\ NoneDead /\ [Next]_vars => NoneDead'
    BY RowMoved DEF NoneDead, Unmoved, Stored, Claimed, Ended, Released
  <1> QED
    BY <1>1, <1>2, Invariance, PTL DEF Spec

(* No reservation is lost from the row's accounts, and none counted twice. *)
THEOREM AttemptsAreAccounted == Spec => []AttemptsAccounted
  <1>1. Inv /\ NoneDead => AttemptsAccounted
    BY DEF Inv, LiveAccounted, NoneDead, AttemptsAccounted
  <1> QED
    BY <1>1, Invariance, NoneBuried, PTL

-----------------------------------------------------------------------------
(***************************************************************************)
(* Sweeps do not deadlock.  A sweep waits for the least key it still has   *)
(* to lock, and every key it holds is below that one; so along a chain of  *)
(* waiting sweeps the awaited keys grow, and no chain closes.              *)
(***************************************************************************)
OrderInv ==
    \A s \in Sweepers : \A i \in Ids :
        row_lock[i] = s => /\ sweeper[s].open
                           /\ \A j \in sweeper[s].pending : i < j

LEMMA GreatestKey ==
    ASSUME NEW M \in SUBSET Ids, M # {}
    PROVE  \E m \in M : \A i \in M : i <= m
  <1> DEFINE Above(i) == {j \in Ids : i <= j}
             T == {Above(i) : i \in M}
  <1>1. IsWellFoundedOn(StrictSubsetOrdering(Ids), FiniteSubsetsOf(Ids))
    BY FS_StrictSubsetOrderingWellFounded
  <1>2. FiniteSubsetsOf(Ids) = SUBSET Ids
    BY FS_FiniteSubsetsOfFinite, QueueAssumption DEF QueueAssumption
  <1>3. T \subseteq SUBSET Ids /\ T # {}
    OBVIOUS
  <1>4. PICK x \in T : \A y \in T : ~ (<<y, x>> \in StrictSubsetOrdering(Ids))
    <2> DEFINE R == StrictSubsetOrdering(Ids)
    <2>1. IsWellFoundedOn(R, SUBSET Ids)
      BY <1>1, <1>2
    <2> HIDE DEF R, T
    <2>2. \E x \in T : \A y \in T : ~ (<<y, x>> \in R)
      BY <1>3, <2>1, WFMin
    <2> QED
      BY <2>2 DEF R
  <1>5. PICK m \in M : x = Above(m)
    OBVIOUS
  <1>6. ASSUME NEW i \in M PROVE i <= m
    <2>1. i \in Nat /\ m \in Nat /\ i \in Ids /\ m \in Ids
      BY QueueAssumption DEF QueueAssumption
    <2>2. SUFFICES ASSUME m < i PROVE FALSE
      BY <2>1
    <2>3. Above(i) \subseteq Above(m)
      <3>1. \A j \in Ids : i <= j => m <= j
        BY <2>1, <2>2, QueueAssumption DEF QueueAssumption
      <3> QED
        BY <3>1
    <2>4. m \in Above(m) /\ m \notin Above(i)
      BY <2>1, <2>2
    <2>5. <<Above(i), x>> \in StrictSubsetOrdering(Ids)
      BY <1>5, <2>3, <2>4 DEF StrictSubsetOrdering
    <2> QED
      BY <1>4, <2>5
  <1> QED
    BY <1>6

LEMMA OrderInit == Init => OrderInv
  BY QueueAssumption DEF QueueAssumption, Init, OrderInv, NoLock

LEMMA OrderStep ==
    ASSUME Inv, OrderInv, [Next]_vars
    PROVE  OrderInv'
  <1>1. CASE UNCHANGED <<sweeper, row_lock>>
    BY <1>1 DEF OrderInv
  <1>2. ASSUME NEW s \in Sweepers, SweepBegin(s) PROVE OrderInv'
    <2>1. \A t \in Sweepers \ {s} : sweeper'[t] = sweeper[t]
      BY <1>2 DEF SweepBegin, Inv, TypeOK
    <2>2. \A i \in Ids : row_lock[i] # s
      BY <1>2 DEF SweepBegin, OrderInv
    <2> QED
      BY <1>2, <2>1, <2>2 DEF SweepBegin, OrderInv
  <1>3. ASSUME NEW s \in Sweepers, SweepLock(s) PROVE OrderInv'
    <2>1. PICK i \in Ids :
             /\ LockNext(s, i)
             /\ row_lock' = [row_lock EXCEPT ![i] = s]
             /\ sweeper' = [sweeper EXCEPT
                   ![s].pending = @ \ {i},
                   ![s].read[i] = IF Stale(i, sweeper[s].elapsed)
                                  THEN entries[i].attempts ELSE 0]
      BY <1>3 DEF SweepLock
    <2>2. /\ sweeper[s] \in Sweeper /\ sweeper[s].open
          /\ row_lock \in [Ids -> Sweepers \cup {NoLock}]
      BY <1>3 DEF SweepLock, Inv, TypeOK
    <2>3. \A t \in Sweepers \ {s} : sweeper'[t] = sweeper[t]
      BY <2>1 DEF Inv, TypeOK
    <2>4. sweeper'[s].pending = sweeper[s].pending \ {i} /\ sweeper'[s].open
      BY <2>1, <2>2 DEF Inv, TypeOK, Sweeper
    <2>5. \A j \in Ids : row_lock'[j] = IF j = i THEN s ELSE row_lock[j]
      BY <2>1, <2>2
    <2>6. \A j \in sweeper[s].pending \ {i} : i < j
      BY <2>1, <2>2, QueueAssumption DEF LockNext, QueueAssumption, Sweeper
    <2> QED
      BY <2>3, <2>4, <2>5, <2>6 DEF OrderInv
  <1>4. ASSUME NEW s \in Sweepers, CloseSweep(s) PROVE OrderInv'
    <2>1. /\ \A t \in Sweepers \ {s} : sweeper'[t] = sweeper[t]
          /\ \A j \in Ids : row_lock'[j] = IF row_lock[j] = s THEN NoLock
                                            ELSE row_lock[j]
      BY <1>4 DEF CloseSweep, Inv, TypeOK
    <2>2. \A t \in Sweepers : t # NoLock
      BY QueueAssumption DEF QueueAssumption, NoLock
    <2> QED
      BY <2>1, <2>2 DEF OrderInv
  <1>5. CASE Tick
    <2>1. ASSUME NEW s \in Sweepers
          PROVE  /\ sweeper'[s].pending = sweeper[s].pending
                 /\ sweeper'[s].open = sweeper[s].open
      <3>1. sweeper[s] \in Sweeper
        BY DEF Inv, TypeOK
      <3> QED
        BY <1>5, <3>1 DEF Tick, Sweeper
    <2> QED
      BY <1>5, <2>1 DEF Tick, OrderInv
  <1>6. CASE Store
    BY <1>1, <1>6 DEF Store, Record, InsertRaw
  <1>7. ASSUME NEW w \in Workers, Consume(w) PROVE OrderInv'
    BY <1>1, <1>7 DEF Consume, Reserve, ReserveUnacknowledged, ReserveRows,
       Begin, WorkSucceeds, WorkFails, Complete, Fail, StorageFails, Crash
  <1>8. ASSUME NEW s \in Sweepers, Sweep(s) PROVE OrderInv'
    BY <1>2, <1>3, <1>4, <1>8 DEF Sweep, SweepWrite, SweepAbort
  <1>9. CASE UNCHANGED vars
    BY <1>1, <1>9 DEF vars
  <1> QED
    BY <1>5, <1>6, <1>7, <1>8, <1>9 DEF Next

(* In any set of sweeps one waits for none of the others: the one whose    *)
(* awaited key is greatest, or one that waits for nothing.                 *)
THEOREM SweepsNeverDeadlock == Spec => []NoSweepDeadlock
  <1>1. ASSUME Inv, OrderInv PROVE NoSweepDeadlock
    <2> SUFFICES ASSUME NEW Circle \in SUBSET Sweepers, Circle # {},
                        ~ \E s \in Circle : WaitsFor(s) \cap Circle = {}
                 PROVE  FALSE
      BY DEF NoSweepDeadlock
    <2> DEFINE M == {i \in Ids : \E s \in Circle : LockNext(s, i)}
    <2>1. \A s \in Circle : \E i \in Ids :
             LockNext(s, i) /\ row_lock[i] \in Circle
      BY DEF WaitsFor
    <2>2. M # {}
      <3>1. PICK s \in Circle : TRUE
        OBVIOUS
      <3>2. PICK i \in Ids : LockNext(s, i)
        BY <2>1
      <3> QED
        BY <3>1, <3>2
    <2>3. PICK m \in M : \A i \in M : i <= m
      BY <2>2, GreatestKey
    <2>4. PICK s \in Circle : LockNext(s, m)
      OBVIOUS
    <2>5. PICK i \in Ids : LockNext(s, i) /\ row_lock[i] \in Circle
      BY <2>1
    <2>6. i = m
      BY <2>4, <2>5, QueueAssumption
         DEF LockNext, QueueAssumption, Inv, TypeOK, Sweeper
    <2>7. PICK t \in Circle : row_lock[m] = t
      BY <2>5, <2>6
    <2>8. PICK j \in Ids : LockNext(t, j)
      BY <2>1
    <2>9. m < j
      BY <2>7, <2>8, <1>1 DEF OrderInv, LockNext
    <2>10. j <= m
      BY <2>3, <2>8
    <2> QED
      BY <2>9, <2>10, QueueAssumption DEF QueueAssumption
  <1>2. Spec => []OrderInv
    <2>1. Inv /\ OrderInv /\ [Next]_vars => OrderInv'
      BY OrderStep
    <2> QED
      BY <2>1, OrderInit, Invariance, PTL DEF Spec
  <1> QED
    BY <1>1, <1>2, Invariance, PTL

-----------------------------------------------------------------------------
(***************************************************************************)
(* The queue implements LeasedWork: a step of the queue is a step of the   *)
(* promise, or leaves everything the promise speaks of as it was.          *)
(***************************************************************************)
PhaseOf == [i \in Ids |-> Phase(entries[i].status)]
TriesOf == [i \in Ids |-> entries[i].attempts]

LEMMA PromiseInit == Init => Promise!Init
  BY DEF Init, Promise!Init, NoRow, NoReservation, Phase

LEMMA PromiseStutter ==
    ASSUME \A i \in Ids : /\ entries'[i].status = entries[i].status
                          /\ entries'[i].attempts = entries[i].attempts,
           UNCHANGED <<next_id, granted, delivered>>
    PROVE  UNCHANGED Promise!vars
  BY DEF Promise!vars

(* One row takes another status and keeps its attempts.                    *)
LEMMA RowMoves ==
    ASSUME Inv, NEW i \in Ids, NEW r \in Row,
           entries' = [entries EXCEPT ![i] = r],
           r.attempts = entries[i].attempts
    PROVE  /\ PhaseOf' = [PhaseOf EXCEPT ![i] = Phase(r.status)]
           /\ TriesOf' = TriesOf
           /\ PhaseOf[i] = Phase(entries[i].status)
  <1>1. \A j \in Ids : entries'[j] = IF j = i THEN r ELSE entries[j]
    BY DEF Inv, TypeOK
  <1>2. TriesOf' = TriesOf
    BY <1>1 DEF TriesOf
  <1>3. PhaseOf' = [PhaseOf EXCEPT ![i] = Phase(r.status)]
    <2>1. PhaseOf' = [j \in Ids |-> Phase(entries'[j].status)]
      BY DEF PhaseOf, Phase
    <2>2. PhaseOf = [j \in Ids |-> Phase(entries[j].status)]
      BY DEF PhaseOf
    <2> QED
      BY <1>1, <2>1, <2>2
  <1> QED
    BY <1>2, <1>3 DEF PhaseOf

LEMMA PromiseStore ==
    ASSUME Inv, Store
    PROVE  [Promise!Next]_Promise!vars
  <1>1. UNCHANGED <<worker, sweeper, row_lock, next_id, granted, delivered>>
    BY DEF Store, Record, InsertRaw
  <1>2. CASE entries' = entries
    BY <1>1, <1>2, PromiseStutter
  <1>3. CASE entries' # entries
    <2>1. PICK i \in Ids : \E skew \in Schedules, shape \in Shapes :
             /\ entries[i].status = "Absent"
             /\ entries' = [entries EXCEPT ![i] = NewRow(skew, shape)]
      <3>1. PICK i \in Ids : \/ \E skew \in Skews : Record(i, skew)
                             \/ \E shape \in BadShapes : InsertRaw(i, shape)
        BY DEF Store
      <3>2. CASE \E skew \in Skews : Record(i, skew)
        BY <1>3, <3>2, BoundsType DEF Record, Inv, TypeOK, Shapes
      <3>3. CASE \E shape \in BadShapes : InsertRaw(i, shape)
        BY <3>3, BoundsType DEF InsertRaw, Shapes
      <3> QED
        BY <3>1, <3>2, <3>3
    <2>2. PICK skew \in Schedules, shape \in Shapes :
             /\ entries[i].status = "Absent"
             /\ entries' = [entries EXCEPT ![i] = NewRow(skew, shape)]
      BY <2>1
    <2> DEFINE r == NewRow(skew, shape)
    <2>3. r \in Row /\ r.status = "Received" /\ r.attempts = 0
      BY NewRowType
    <2>4. entries[i].attempts = 0
      BY <2>2 DEF Inv, RowInv
    <2>5. entries' = [entries EXCEPT ![i] = r]
      BY <2>2
    <2> HIDE DEF r
    <2>6. /\ PhaseOf' = [PhaseOf EXCEPT ![i] = Phase(r.status)]
          /\ TriesOf' = TriesOf
          /\ PhaseOf[i] = Phase(entries[i].status)
      BY <2>3, <2>4, <2>5, RowMoves
    <2>7. Phase(r.status) = "open" /\ Phase(entries[i].status) = "none"
      BY <2>2, <2>3 DEF Phase
    <2>8. Promise!Accept(i)
      BY <1>1, <2>6, <2>7 DEF Promise!Accept, PhaseOf, TriesOf
    <2> QED
      BY <2>8 DEF Promise!Next
  <1> QED
    BY <1>2, <1>3

(* A batch is granted, the rows that do not decode being lost at once.     *)
LEMMA PromiseReserve ==
    ASSUME Inv, NEW S \in Batches, ReserveRows(S)
    PROVE  Promise!Next
  <1>0. S \subseteq Ids
    BY DEF Batches, Candidates
  <1> PICK Lost \in SUBSET Ids : Lost = {i \in S : ~ Decodes(i)}
    BY <1>0
  <1>1. /\ S \subseteq Ids /\ S # {}
        /\ \A i \in S : /\ entries[i].status \in {"Received", "Failed"}
                        /\ entries[i].attempts < MaxAttempts
    BY DEF Batches, Candidates
  <1>2. /\ \A i \in Ids \ S : entries'[i] = entries[i]
        /\ \A i \in S :
              /\ entries'[i].status = IF Decodes(i) THEN "Reserved" ELSE "Failed"
              /\ entries'[i].attempts = entries[i].attempts + 1
    BY BatchRows
  <1>3. /\ granted' = [i \in Ids |-> IF i \in S THEN next_id ELSE granted[i]]
        /\ next_id' = next_id + 1 /\ next_id \in Nat
        /\ UNCHANGED delivered
    BY DEF ReserveRows, Inv, TypeOK
  <1>4. \A i \in S : PhaseOf[i] = "open" /\ TriesOf[i] < MaxAttempts
    BY <1>1 DEF PhaseOf, TriesOf, Phase
  <1>5. PhaseOf' = [i \in Ids |-> IF i \in S \ Lost THEN "held" ELSE PhaseOf[i]]
    BY <1>1, <1>2 DEF PhaseOf, Phase
  <1>6. TriesOf' = [i \in Ids |-> IF i \in S THEN TriesOf[i] + 1 ELSE TriesOf[i]]
    BY <1>1, <1>2 DEF TriesOf
  <1>7. /\ granted' = [i \in Ids |->
              IF i \in S THEN (next_id - 1) + 1 ELSE granted[i]]
        /\ next_id' - 1 = (next_id - 1) + 1
    BY <1>3
  <1>8. Promise!Grant(S, Lost)
    BY <1>1, <1>3, <1>4, <1>5, <1>6, <1>7 DEF Promise!Grant, PhaseOf, TriesOf
  <1> QED
    BY <1>0, <1>8 DEF Promise!Next

LEMMA PromiseServe ==
    ASSUME Inv, NEW w \in Workers, WorkSucceeds(w)
    PROVE  Promise!Next
  <1> DEFINE i == worker[w].item
             l == worker[w].reservation_id
  <1>1. /\ i \in Ids /\ l \in Nat /\ l > 0 /\ l < next_id /\ next_id \in Nat
    <2>1. worker[w].pc = "working" /\ worker[w] # IdleWorker
      BY DEF WorkSucceeds, IdleWorker
    <2> QED
      BY <2>1 DEF Inv, WorkerInv, TypeOK, Worker
  <1>2. l \in 1 .. (next_id - 1)
    BY <1>1
  <1>3. Promise!Serve(i, l)
    BY <1>2 DEF Promise!Serve, WorkSucceeds
  <1> QED
    BY <1>1, <1>2, <1>3 DEF Promise!Next

LEMMA PromiseComplete ==
    ASSUME Inv, NEW w \in Workers, Complete(w)
    PROVE  [Promise!Next]_Promise!vars
  <1> DEFINE i == worker[w].item
  <1>1. /\ i \in Ids /\ UNCHANGED <<next_id, granted, delivered>>
        /\ <<i, worker[w].reservation_id>> \in delivered
    BY DEF Complete, Inv, WorkerInv
  <1>2. CASE Owned(i, worker[w].reservation_id)
    <2> DEFINE r == CompletedRow(entries[i])
    <2>1. /\ entries[i] \in Row /\ entries[i].status = "Reserved"
          /\ entries[i].reservation_id = granted[i]
      BY <1>1, <1>2 DEF Owned, Inv, TypeOK, RowInv
    <2>2. r \in Row /\ r.status = "Completed" /\ r.attempts = entries[i].attempts
      BY <2>1, CompletedRowType
    <2>3. entries' = [entries EXCEPT ![i] = r]
      BY <1>2 DEF Complete
    <2>4. <<i, granted[i]>> \in delivered
      BY <1>1, <1>2, <2>1 DEF Owned
    <2> HIDE DEF r, i
    <2>5. /\ PhaseOf' = [PhaseOf EXCEPT ![i] = Phase(r.status)]
          /\ TriesOf' = TriesOf
          /\ PhaseOf[i] = Phase(entries[i].status)
      BY <1>1, <2>2, <2>3, RowMoves
    <2>6. Phase(r.status) = "done" /\ Phase(entries[i].status) = "held"
      BY <2>1, <2>2 DEF Phase
    <2>7. Promise!Finish(i)
      BY <1>1, <2>4, <2>5, <2>6 DEF Promise!Finish, PhaseOf, TriesOf
    <2> QED
      BY <1>1, <2>7 DEF Promise!Next
  <1>3. CASE ~ Owned(i, worker[w].reservation_id)
    BY <1>1, <1>3, PromiseStutter DEF Complete
  <1> QED
    BY <1>2, <1>3

(* Rows that were held are open again: one that failed, or all a sweep     *)
(* took back.                                                              *)
LEMMA PromiseRelease ==
    ASSUME Inv, NEW S \in SUBSET Ids,
           UNCHANGED <<next_id, granted, delivered>>,
           \A i \in Ids \ S : entries'[i] = entries[i],
           \A i \in S : /\ entries[i].status = "Reserved"
                        /\ entries'[i].status = "Failed"
                        /\ entries'[i].attempts = entries[i].attempts
    PROVE  Promise!Next
  <1>1. \A i \in S : PhaseOf[i] = "held"
    BY DEF PhaseOf, Phase
  <1>2. PhaseOf' = [i \in Ids |-> IF i \in S THEN "open" ELSE PhaseOf[i]]
    BY DEF PhaseOf, Phase
  <1>3. TriesOf' = TriesOf
    BY DEF TriesOf
  <1>4. Promise!Release(S)
    BY <1>1, <1>2, <1>3 DEF Promise!Release, PhaseOf, TriesOf
  <1> QED
    BY <1>4 DEF Promise!Next

LEMMA PromiseFail ==
    ASSUME Inv, NEW w \in Workers, Fail(w)
    PROVE  [Promise!Next]_Promise!vars
  <1> DEFINE i == worker[w].item
  <1>1. /\ i \in Ids /\ UNCHANGED <<next_id, granted, delivered>>
    BY DEF Fail, Inv, WorkerInv
  <1>2. CASE Owned(i, worker[w].reservation_id)
    <2>1. /\ entries[i] \in Row /\ entries[i].status = "Reserved"
          /\ entries[i].attempts > 0
      BY <1>1, <1>2 DEF Owned, Inv, TypeOK, RowInv
    <2>2. entries' = [entries EXCEPT ![i] = FailedRow(entries[i])]
      BY <1>2 DEF Fail
    <2>3. /\ FailedRow(entries[i]).status = "Failed"
          /\ FailedRow(entries[i]).attempts = entries[i].attempts
      BY <2>1, FailedRowType
    <2>4. \A j \in Ids : entries'[j] = IF j = i THEN FailedRow(entries[i])
                                       ELSE entries[j]
      BY <2>2 DEF Inv, TypeOK
    <2>5. {i} \in SUBSET Ids
      BY <1>1
    <2> HIDE DEF i
    <2> QED
      BY <1>1, <2>1, <2>3, <2>4, <2>5, PromiseRelease
  <1>3. CASE ~ Owned(i, worker[w].reservation_id)
    BY <1>1, <1>3, PromiseStutter DEF Fail
  <1> QED
    BY <1>2, <1>3

LEMMA PromiseSweepWrite ==
    ASSUME Inv, NEW s \in Sweepers, SweepWrite(s),
           ~ Refused(s)
    PROVE  Promise!Next
  <1>1. /\ UNCHANGED <<next_id, granted, delivered>>
        /\ \A i \in Ids \ Selected(s) : entries'[i] = entries[i]
        /\ Selected(s) \in SUBSET Ids
    BY DEF SweepWrite, Selected
  <1>2. ASSUME NEW i \in Selected(s)
        PROVE  /\ entries[i].status = "Reserved"
               /\ entries'[i].status = "Failed"
               /\ entries'[i].attempts = entries[i].attempts
    <2>1. i \in Ids /\ sweeper[s].read[i] > 0
      BY DEF Selected
    <2>2. entries[i].status = "Reserved" /\ entries[i] \in Row
      BY <2>1 DEF Inv, SweepInv, TypeOK
    <2>3. /\ sweeper[s].read[i] \in 1 .. MaxAttempts
          /\ sweeper[s].elapsed \in 0 .. MaxElapsed
      BY <2>1, QueueAssumption DEF QueueAssumption, Inv, TypeOK, Sweeper
    <2>4. entries'[i] = SweptRow(entries[i], sweeper[s].read[i], sweeper[s].elapsed)
      BY <2>1 DEF SweepWrite
    <2> QED
      BY <2>2, <2>3, <2>4, SweptRowType
  <1> QED
    BY <1>1, <1>2, PromiseRelease

LEMMA PromiseStep ==
    ASSUME Inv, [Next]_vars
    PROVE  [Promise!Next]_Promise!vars
  <1>1. CASE UNCHANGED <<entries, next_id, granted, delivered>>
    BY <1>1, PromiseStutter
  <1>2. CASE Store
    BY <1>2, PromiseStore
  <1>3. ASSUME NEW w \in Workers, Consume(w) PROVE [Promise!Next]_Promise!vars
    <2>1. CASE Reserve(w) \/ ReserveUnacknowledged(w)
      <3>1. PICK S \in Batches : ReserveRows(S)
        BY <2>1 DEF Reserve, ReserveUnacknowledged
      <3> QED
        BY <3>1, PromiseReserve
    <2>2. CASE WorkSucceeds(w)
      BY <2>2, PromiseServe
    <2>3. CASE Complete(w)
      BY <2>3, PromiseComplete
    <2>4. CASE Fail(w)
      BY <2>4, PromiseFail
    <2>5. CASE Begin(w) \/ WorkFails(w) \/ StorageFails(w) \/ Crash(w)
      BY <1>1, <2>5 DEF Begin, WorkFails, StorageFails, Crash
    <2> QED
      BY <1>3, <2>1, <2>2, <2>3, <2>4, <2>5 DEF Consume
  <1>4. ASSUME NEW s \in Sweepers, Sweep(s) PROVE [Promise!Next]_Promise!vars
    <2>1. CASE SweepWrite(s) /\ ~ Refused(s)
      BY <2>1, PromiseSweepWrite
    <2>2. CASE SweepWrite(s) /\ Refused(s)
      <3>1. entries' = [i \in Ids |-> entries[i]]
        BY <2>2 DEF SweepWrite
      <3>2. entries' = entries
        BY <3>1 DEF Inv, TypeOK
      <3> QED
        BY <1>1, <2>2, <3>2 DEF SweepWrite
    <2>3. CASE SweepBegin(s) \/ SweepLock(s) \/ SweepAbort(s)
      BY <1>1, <2>3 DEF SweepBegin, SweepLock, SweepAbort
    <2> QED
      BY <1>4, <2>1, <2>2, <2>3 DEF Sweep
  <1>5. CASE Tick
    <2>1. \A i \in Ids : /\ entries[i] \in Row
                         /\ entries'[i] = Aged(entries[i])
      BY <1>5 DEF Tick, Inv, TypeOK
    <2>2. ASSUME NEW r \in Row
          PROVE  Aged(r).status = r.status /\ Aged(r).attempts = r.attempts
      BY DEF Aged, Row
    <2> QED
      BY <1>5, <2>1, <2>2, PromiseStutter DEF Tick
  <1>6. CASE UNCHANGED vars
    BY <1>1, <1>6 DEF vars
  <1> QED
    BY <1>2, <1>3, <1>4, <1>5, <1>6 DEF Next

(* The queue keeps its promise: work is handed out under leases that are   *)
(* never issued twice, at most MaxAttempts times, and done only once it    *)
(* was served under the lease it was handed out with last.                 *)
THEOREM QueueKeepsPromise == Spec => KeepsPromise
  BY PromiseInit, PromiseStep, Invariance, PTL DEF Spec, KeepsPromise, Promise!Spec

=============================================================================
