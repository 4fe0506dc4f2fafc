------------------------- MODULE StageQueueProofs --------------------------
(***************************************************************************)
(* The queues of the stages around the commands: events, inbox and outbox. *)
(* Each is a DurableQueue, and what is proved of that one holds of them,   *)
(* for every number of rows, workers, sweeps and retries and for every     *)
(* backoff within its bounds.                                              *)
(***************************************************************************)
EXTENDS EventQueue, InboxQueue, OutboxQueue, DurableQueueProofs

-----------------------------------------------------------------------------
(***************************************************************************)
(* The event queue does what DurableQueue does, under other names.         *)
(***************************************************************************)
LEMMA EventStep == [EventNext]_vars => [Next]_vars
  BY DEF EventNext, RecordEvent, ForeignEvent, ReserveEvents, DispatchEvent,
         EventCompleted, EventFailed, EventWorkerLost, SelectStaleEvents,
         WriteStaleEvents, SweepEventsLost, Next, Store, Consume, Sweep

(* Everything the event queue does DurableQueue may do.                    *)
THEOREM EventsAreQueued == EventSpec => Spec
  BY EventStep, PTL DEF EventSpec, Spec

(* What the sweep of the events is about to write is still true of the     *)
(* rows it read, whatever consumers did in the meantime.                   *)
THEOREM EventSweepReadsAreStable == EventSpec => []SweepReadStable
  BY EventsAreQueued, SweepReadsAreStable, PTL

(* However many sweeps of the events run, they do not wait in a circle.    *)
THEOREM EventSweepsNeverDeadlock == EventSpec => []NoSweepDeadlock
  BY EventsAreQueued, SweepsNeverDeadlock, PTL

(* The event queue keeps the promise of LeasedWork.                        *)
THEOREM EventsKeepPromise == EventSpec => KeepsPromise
  BY EventsAreQueued, QueueKeepsPromise, PTL

-----------------------------------------------------------------------------
(***************************************************************************)
(* So does the inbox queue.                                                *)
(***************************************************************************)
LEMMA InboxStep == [InboxNext]_vars => [Next]_vars
  BY DEF InboxNext, StoreMessage, ForeignMessage, ReserveMessages,
         DispatchCommand, MessageCompleted, MessageFailed, InboxWorkerLost,
         SweepMessages, SweepMessagesLost, Next, Store, Consume, Sweep

(* Everything the inbox queue does DurableQueue may do.                    *)
THEOREM MessagesAreQueued == InboxSpec => Spec
  BY InboxStep, PTL DEF InboxSpec, Spec

(* A message is completed once, and never taken up after that.             *)
THEOREM MessageCompletionsAreFinal == InboxSpec => CompletedIsFinal
  BY MessagesAreQueued, CompletionsAreFinal, PTL

(* The inbox queue keeps the promise of LeasedWork.                        *)
THEOREM InboxKeepsPromise == InboxSpec => KeepsPromise
  BY MessagesAreQueued, QueueKeepsPromise, PTL

-----------------------------------------------------------------------------
(***************************************************************************)
(* The outbox queue has steps of its own: a step is one of DurableQueue    *)
(* with a word about the error, or one of the operator's two.  The first   *)
(* keeps Inv by NextStep, the others by what they do to one row.           *)
(***************************************************************************)
(* The accounts of the buried rows, which Inv leaves out.  A row that is   *)
(* not buried is accounted for by LiveAccounted.                           *)
DeadAccounted ==
    \A i \in Ids : entries[i].status = "Dead" =>
        entries[i].attempts =
            entries[i].errors + (IF last_error[i] = "none" THEN 1 ELSE 0)

OutboxInv ==
    /\ Inv
    /\ OutboxTypeOK
    /\ LastErrorAgrees
    /\ DeadAccounted

LEMMA OutboxInitInv == OutboxInit => OutboxInv
  <1> SUFFICES ASSUME OutboxInit PROVE OutboxInv
    OBVIOUS
  <1>1. Inv
    BY InitInv DEF OutboxInit
  <1>2. OutboxTypeOK
    BY <1>1 DEF Inv, OutboxInit, OutboxTypeOK, Reasons, NothingRead, NoReservation
  <1>3. LastErrorAgrees /\ DeadAccounted
    BY DEF OutboxInit, Init, NoRow, LastErrorAgrees, DeadAccounted
  <1> QED
    BY <1>1, <1>2, <1>3 DEF OutboxInv

-----------------------------------------------------------------------------
(* What the column and the history say, row by row, after each of the ways *)
(* a step of DurableQueue is told.                                         *)
LEMMA ToldType ==
    ASSUME OutboxTypeOK, TypeOK', UNCHANGED operator,
           \/ TellOutcome \/ TellTimeout \/ UNCHANGED <<last_error, reason>>
    PROVE  OutboxTypeOK'
  <1>1. /\ last_error \in [Ids -> Reasons] /\ reason \in [Ids -> Reasons]
        /\ "none" \in Reasons /\ "failure" \in Reasons /\ "timeout" \in Reasons
    BY DEF OutboxTypeOK, Reasons
  <1>2. last_error' \in [Ids -> Reasons] /\ reason' \in [Ids -> Reasons]
    BY <1>1 DEF TellOutcome, TellTimeout
  <1> QED
    BY <1>2 DEF OutboxTypeOK

LEMMA ConsumeTold ==
    ASSUME OutboxInv, NEW w \in Workers, OutboxConsume(w)
    PROVE  LastErrorAgrees' /\ DeadAccounted'
  <1>1. \A i \in Ids : Unmoved(i) \/ Claimed(i) \/ Ended(i) \/ Released(i)
    BY ConsumeMoves DEF OutboxInv, OutboxConsume
  <1>2. \A i \in Ids : entries[i].errors \in Nat
    BY DEF OutboxInv, Inv, TypeOK, Row
  <1>3. ASSUME NEW i \in Ids
        PROVE  /\ reason'[i] = IF entries'[i].errors > entries[i].errors
                               THEN "failure" ELSE reason[i]
               /\ last_error'[i] =
                     IF entries'[i].errors > entries[i].errors THEN "failure"
                     ELSE IF /\ entries'[i].status = "Completed"
                             /\ entries[i].status # "Completed" THEN "none"
                     ELSE last_error[i]
    BY DEF OutboxConsume, TellOutcome, Reported, Accepted
  <1>4. LastErrorAgrees'
    BY <1>1, <1>2, <1>3
       DEF OutboxInv, LastErrorAgrees, Unmoved, Claimed, Ended, Released
  <1>5. DeadAccounted'
    BY <1>1, <1>2, <1>3
       DEF OutboxInv, DeadAccounted, Unmoved, Claimed, Ended, Released
  <1> QED
    BY <1>4, <1>5

LEMMA SweepTold ==
    ASSUME OutboxInv, NEW s \in Sweepers, OutboxSweep(s)
    PROVE  LastErrorAgrees' /\ DeadAccounted'
  <1>1. \A i \in Ids : Unmoved(i) \/ Released(i)
    BY SweepMoves DEF OutboxInv, OutboxSweep
  <1>2. \A i \in Ids : entries[i].errors \in Nat
    BY DEF OutboxInv, Inv, TypeOK, Row
  <1>3. ASSUME NEW i \in Ids
        PROVE  /\ reason'[i] = IF entries'[i].errors > entries[i].errors
                               THEN "timeout" ELSE reason[i]
               /\ last_error'[i] = last_error[i]
    BY DEF OutboxSweep, TellTimeout, Reported
  <1> QED
    BY <1>1, <1>2, <1>3
       DEF OutboxInv, LastErrorAgrees, DeadAccounted, Unmoved, Released

LEMMA SilentTold ==
    ASSUME OutboxInv, UNCHANGED <<last_error, reason>>,
           \A i \in Ids : Unmoved(i) \/ Stored(i)
    PROVE  LastErrorAgrees' /\ DeadAccounted'
  BY DEF OutboxInv, LastErrorAgrees, DeadAccounted, Unmoved, Stored

-----------------------------------------------------------------------------
(* The operator's burial.                                                  *)
LEMMA DeadRowType ==
    ASSUME NEW r \in Row, NEW told \in BOOLEAN
    PROVE  /\ DeadRow(r, told) \in Row
           /\ DeadRow(r, told).status = "Dead"
           /\ DeadRow(r, told).attempts = r.attempts
           /\ DeadRow(r, told).errors = IF told THEN r.errors + 1 ELSE r.errors
  <1> DEFINE n  == IF told THEN r.errors + 1 ELSE r.errors
             r1 == [r EXCEPT !.status = "Dead"]
             r2 == [r1 EXCEPT !.reservation_id = NoReservation]
             r3 == [r2 EXCEPT !.reserved_for = 0]
             r4 == [r3 EXCEPT !.shape = "ok"]
             r5 == [r4 EXCEPT !.errors = n]
  <1>1. n \in Nat
    BY DEF Row
  <1>2. r1 \in Row
    BY ColumnType DEF Statuses
  <1>3. r2 \in Row
    BY <1>2, ColumnType DEF NoReservation
  <1>4. r3 \in Row
    BY <1>3, ColumnType, BoundsType
  <1>5. r4 \in Row
    BY <1>4, ColumnType DEF Shapes
  <1>6. r4.errors = r.errors
    BY DEF Row
  <1>7. r5 \in Row
    BY <1>1, <1>5, ColumnType
  <1>8. r5.status = "Dead" /\ r5.attempts = r.attempts /\ r5.errors = n
    BY DEF Row
  <1>9. DeadRow(r, told) = r5
    BY <1>6 DEF DeadRow
  <1> QED
    BY <1>7, <1>8, <1>9

LEMMA DeadStep ==
    ASSUME OutboxInv, NEW told \in BOOLEAN, Dead(told)
    PROVE  OutboxInv'
  <1>1. /\ operator.id \in Ids /\ Unlocked(operator.id) /\ operator' = NothingRead
        /\ UNCHANGED <<worker, sweeper, row_lock, next_id, granted, delivered>>
    BY DEF Dead, OutboxInv, OutboxTypeOK
  <1> PICK i \in Ids : i = operator.id
    BY <1>1
  <1>2. operator' \in [id : Ids \cup {NoItem}, reservation_id : Nat]
    BY <1>1 DEF NothingRead, NoReservation
  <1>3. CASE UNCHANGED <<entries, last_error, reason>>
    <2>1. Inv'
      BY <1>1, <1>3, StutterStep DEF OutboxInv, vars
    <2> QED
      BY <1>2, <1>3, <2>1
         DEF OutboxInv, Inv, OutboxTypeOK, LastErrorAgrees, DeadAccounted
  <1>4. CASE Owned(i, operator.reservation_id)
    <2> DEFINE r == DeadRow(entries[i], told)
    <2>1. entries[i] \in Row /\ entries[i].status = "Reserved"
      BY <1>4 DEF Owned, OutboxInv, Inv, TypeOK
    <2>2. /\ r \in Row /\ r.status = "Dead" /\ r.attempts = entries[i].attempts
          /\ r.errors = IF told THEN entries[i].errors + 1 ELSE entries[i].errors
      BY <2>1, DeadRowType
    <2>3. /\ entries' = [entries EXCEPT ![i] = r]
          /\ last_error' = [last_error EXCEPT ![i] =
                               IF told THEN "administrative" ELSE "none"]
          /\ reason' = [reason EXCEPT ![i] = IF told THEN "administrative" ELSE @]
      BY <1>4 DEF Dead
    <2> HIDE DEF r
    <2>4. \A j \in Ids : entries'[j] = IF j = i THEN r ELSE entries[j]
      BY <2>3 DEF OutboxInv, Inv, TypeOK
    <2>5. /\ last_error \in [Ids -> Reasons] /\ reason \in [Ids -> Reasons]
          /\ "none" \in Reasons /\ "administrative" \in Reasons
      BY DEF OutboxInv, OutboxTypeOK, Reasons
    <2>6. \A j \in Ids : last_error'[j] =
              IF j # i THEN last_error[j]
              ELSE IF told THEN "administrative" ELSE "none"
      BY <2>3, <2>5
    <2>7. TypeOK'
      BY <1>1, <2>2, <2>3 DEF OutboxInv, Inv, TypeOK
    <2>8. OutboxTypeOK'
      BY <1>2, <2>3, <2>5, <2>7 DEF OutboxTypeOK
    <2>9. RowInv' /\ ReservedDecodes' /\ CompletionBacked' /\ LiveAccounted'
      BY <1>1, <2>2, <2>4
         DEF OutboxInv, Inv, RowInv, ReservedDecodes, CompletionBacked,
             LiveAccounted, Decodes
    <2>10. WorkerInv' /\ LeaseInv'
      BY <1>1 DEF OutboxInv, Inv, WorkerInv, LeaseInv
    <2>11. SweepInv'
      <3>1. \A s \in Sweepers : ~ sweeper[s].read[i] > 0
        BY <1>1, QueueAssumption
           DEF QueueAssumption, Unlocked, NoLock, OutboxInv, Inv, SweepInv
      <3> QED
        BY <1>1, <2>4, <3>1 DEF OutboxInv, Inv, SweepInv
    <2>12. LastErrorAgrees'
      <3>1. \A j \in Ids \ {i} : reason'[j] = reason[j]
        BY <2>3, <2>5
      <3> QED
        BY <2>2, <2>4, <2>6, <3>1 DEF OutboxInv, LastErrorAgrees
    <2>13. DeadAccounted'
      <3>1. entries[i].attempts = entries[i].errors + 1
        BY <2>1 DEF OutboxInv, Inv, LiveAccounted
      <3>2. entries[i].errors \in Nat
        BY <2>1 DEF Row
      <3> QED
        BY <2>2, <2>4, <2>6, <3>1, <3>2 DEF OutboxInv, DeadAccounted
    <2> QED
      BY <2>7, <2>8, <2>9, <2>10, <2>11, <2>12, <2>13 DEF OutboxInv, Inv
  <1> QED
    BY <1>3, <1>4 DEF Dead

LEMMA InspectStep ==
    ASSUME OutboxInv, NEW i \in Ids, Inspect(i)
    PROVE  OutboxInv'
  <1>1. entries[i].reservation_id \in Nat
    BY DEF OutboxInv, Inv, TypeOK, Row
  <1>2. Inv'
    BY StutterStep DEF OutboxInv, Inspect, vars
  <1> QED
    BY <1>1, <1>2
       DEF OutboxInv, Inv, OutboxTypeOK, Inspect, LastErrorAgrees, DeadAccounted, vars

-----------------------------------------------------------------------------
LEMMA OutboxQueueStep ==
    ASSUME OutboxInv,
           \/ OutboxRecord
           \/ \E w \in Workers : OutboxConsume(w)
           \/ \E s \in Sweepers : OutboxSweep(s)
           \/ OutboxTick
    PROVE  Next /\ OutboxInv'
  <1>1. Next
    BY DEF Next, OutboxRecord, OutboxConsume, OutboxSweep, OutboxTick
  <1>2. Inv'
    BY <1>1, NextStep DEF OutboxInv
  <1>3. OutboxTypeOK'
    BY <1>2, ToldType
       DEF OutboxInv, Inv, OutboxRecord, OutboxConsume, OutboxSweep, OutboxTick
  <1>4. LastErrorAgrees' /\ DeadAccounted'
    <2>1. CASE OutboxRecord
      BY <2>1, StoreMoves, SilentTold DEF OutboxRecord, OutboxInv
    <2>2. CASE OutboxTick
      BY <2>2, TickMoves, SilentTold DEF OutboxTick, OutboxInv
    <2> QED
      BY <2>1, <2>2, ConsumeTold, SweepTold
  <1> QED
    BY <1>1, <1>2, <1>3, <1>4 DEF OutboxInv

LEMMA OutboxStep == OutboxInv /\ [OutboxNext]_outbox_vars => OutboxInv'
  <1> SUFFICES ASSUME OutboxInv, [OutboxNext]_outbox_vars PROVE OutboxInv'
    OBVIOUS
  <1>1. CASE UNCHANGED outbox_vars
    BY <1>1, StutterStep
       DEF outbox_vars, vars, OutboxInv, Inv, OutboxTypeOK, LastErrorAgrees,
           DeadAccounted
  <1> QED
    BY <1>1, OutboxQueueStep, InspectStep, DeadStep DEF OutboxNext

(* Every reachable state of the outbox satisfies its invariant, that of    *)
(* the queue below included.                                               *)
THEOREM OutboxInvariance == OutboxSpec => []OutboxInv
  BY OutboxInitInv, OutboxStep, PTL DEF OutboxSpec

(* The columns, the histories and what an operator has read keep their     *)
(* shape.                                                                  *)
THEOREM OutboxTypeCorrect == OutboxSpec => []OutboxTypeOK
  <1>1. OutboxInv => OutboxTypeOK
    BY DEF OutboxInv
  <1> QED
    BY <1>1, OutboxInvariance, PTL

(* last_error agrees with the history of the row, but for what a sweep did.*)
THEOREM LastErrorsAgree == OutboxSpec => []LastErrorAgrees
  <1>1. OutboxInv => LastErrorAgrees
    BY DEF OutboxInv
  <1> QED
    BY <1>1, OutboxInvariance, PTL

(* Every attempt is accounted for, the buried ones too.                    *)
THEOREM BurialsAreAccounted == OutboxSpec => []BurialsAccounted
  <1>1. OutboxInv => BurialsAccounted
    BY DEF OutboxInv, Inv, LiveAccounted, DeadAccounted, BurialsAccounted
  <1> QED
    BY <1>1, OutboxInvariance, PTL

-----------------------------------------------------------------------------
(* A burial is the operator's, and of the reservation that was looked at.  *)
THEOREM BurialsAreAsSeen == OutboxSpec => BuriedAsSeen
  <1>1. ASSUME OutboxInv, [OutboxNext]_outbox_vars, NEW i \in Ids,
               entries[i].status # "Dead", entries'[i].status = "Dead"
        PROVE  operator.id = i /\ operator.reservation_id = granted[i]
    <2>1. ~ (Unmoved(i) \/ Stored(i) \/ Claimed(i) \/ Ended(i) \/ Released(i))
      BY <1>1 DEF Unmoved, Stored, Claimed, Ended, Released
    <2>2. ~ Next
      BY <1>1, <2>1, RowMoved DEF OutboxInv
    <2>3. PICK told \in BOOLEAN : Dead(told)
      BY <1>1, <2>2, OutboxQueueStep DEF OutboxNext, outbox_vars, vars, Inspect
    <2>4. /\ entries' = [entries EXCEPT ![operator.id] = DeadRow(@, told)]
          /\ Owned(operator.id, operator.reservation_id)
      BY <1>1, <2>3 DEF Dead
    <2>5. operator.id = i
      BY <1>1, <2>4 DEF OutboxInv, Inv, TypeOK
    <2> QED
      BY <1>1, <2>4, <2>5 DEF Owned, OutboxInv, Inv, RowInv
  <1>2. OutboxInv /\ [OutboxNext]_outbox_vars =>
           [\A i \in Ids :
               entries[i].status # "Dead" /\ entries'[i].status = "Dead" =>
                   operator.id = i /\ operator.reservation_id = granted[i]]_outbox_vars
    BY <1>1
  <1> QED
    BY <1>2, OutboxInvariance, PTL DEF OutboxSpec, BuriedAsSeen

(* What is buried is not touched again, by nobody.                         *)
THEOREM DeadRowsAreFinal == OutboxSpec => DeadIsFinal
  <1> DEFINE Rests(i) == /\ entries'[i].status = "Dead"
                         /\ entries'[i].errors = entries[i].errors
                         /\ last_error'[i] = last_error[i]
  <1>1. ASSUME OutboxInv, [OutboxNext]_outbox_vars, NEW i \in Ids,
               entries[i].status = "Dead"
        PROVE  Rests(i)
    <2>1. entries[i].errors \in Nat
      BY <1>1 DEF OutboxInv, Inv, TypeOK, Row
    <2>2. CASE Next /\ (TellOutcome \/ TellTimeout \/ UNCHANGED <<last_error, reason>>)
      <3>1. Unmoved(i)
        BY <1>1, <2>2, RowMoved DEF OutboxInv, Stored, Claimed, Ended, Released
      <3> QED
        BY <1>1, <2>1, <2>2, <3>1
           DEF Unmoved, TellOutcome, TellTimeout, Reported, Accepted
    <2>3. ASSUME NEW told \in BOOLEAN, Dead(told) PROVE Rests(i)
      BY <1>1, <2>3 DEF Dead, Owned, OutboxInv, Inv, TypeOK, OutboxTypeOK
    <2>4. ASSUME NEW j \in Ids, Inspect(j) PROVE Rests(i)
      BY <1>1, <2>4 DEF Inspect, vars
    <2>5. CASE UNCHANGED outbox_vars
      BY <1>1, <2>5 DEF outbox_vars, vars
    <2> QED
      BY <1>1, <2>2, <2>3, <2>4, <2>5, OutboxQueueStep
         DEF OutboxNext, OutboxRecord, OutboxConsume, OutboxSweep, OutboxTick
  <1>2. OutboxInv /\ [OutboxNext]_outbox_vars =>
           [\A i \in Ids : entries[i].status = "Dead" =>
               /\ entries'[i].status = "Dead"
               /\ entries'[i].errors = entries[i].errors
               /\ last_error'[i] = last_error[i]]_outbox_vars
    BY <1>1
  <1> QED
    BY <1>2, OutboxInvariance, PTL DEF OutboxSpec, DeadIsFinal

-----------------------------------------------------------------------------
(* The outbox keeps the promise of LeasedWork: a burial drops the work.    *)
LEMMA PromiseDrop ==
    ASSUME OutboxInv, NEW told \in BOOLEAN, Dead(told)
    PROVE  [Promise!Next]_Promise!vars
  <1>1. /\ operator.id \in Ids
        /\ UNCHANGED <<next_id, granted, delivered>>
    BY DEF Dead, OutboxInv, OutboxTypeOK
  <1> PICK i \in Ids : i = operator.id
    BY <1>1
  <1>2. CASE UNCHANGED entries
    BY <1>1, <1>2, PromiseStutter
  <1>3. CASE Owned(i, operator.reservation_id)
    <2> DEFINE r == DeadRow(entries[i], told)
    <2>1. entries[i] \in Row /\ entries[i].status = "Reserved"
      BY <1>3 DEF Owned, OutboxInv, Inv, TypeOK
    <2>2. r \in Row /\ r.status = "Dead" /\ r.attempts = entries[i].attempts
      BY <2>1, DeadRowType
    <2>3. entries' = [entries EXCEPT ![i] = r]
      BY <1>3 DEF Dead
    <2> HIDE DEF r
    <2>4. /\ PhaseOf' = [PhaseOf EXCEPT ![i] = Phase(r.status)]
          /\ TriesOf' = TriesOf
          /\ PhaseOf[i] = Phase(entries[i].status)
      BY <2>2, <2>3, RowMoves DEF OutboxInv
    <2>5. Phase(r.status) = "dropped" /\ Phase(entries[i].status) = "held"
      BY <2>1, <2>2 DEF Phase
    <2>6. Promise!Drop(i)
      BY <1>1, <2>4, <2>5 DEF Promise!Drop, PhaseOf, TriesOf
    <2> QED
      BY <2>6 DEF Promise!Next
  <1> QED
    BY <1>2, <1>3 DEF Dead

(* Publishing keeps the queue's promise, whatever operators bury.          *)
THEOREM OutboxKeepsPromise == OutboxSpec => KeepsPromise
  <1>1. OutboxInit => Promise!Init
    BY PromiseInit DEF OutboxInit
  <1>2. OutboxInv /\ [OutboxNext]_outbox_vars => [Promise!Next]_Promise!vars
    <2> SUFFICES ASSUME OutboxInv, [OutboxNext]_outbox_vars
                 PROVE  [Promise!Next]_Promise!vars
      OBVIOUS
    <2>1. ASSUME [Next]_vars PROVE [Promise!Next]_Promise!vars
      BY <2>1, PromiseStep DEF OutboxInv
    <2>2. CASE UNCHANGED vars
      BY <2>1, <2>2
    <2> QED
      BY <2>1, <2>2, OutboxQueueStep, PromiseDrop
         DEF OutboxNext, Inspect, outbox_vars
  <1> QED
    BY <1>1, <1>2, OutboxInvariance, PTL DEF OutboxSpec, KeepsPromise, Promise!Spec
=============================================================================
