----------------------------- MODULE EventQueue -----------------------------
(***************************************************************************)
(* The event queue, libs/eventing: DurableQueue under the names and with   *)
(* the rules of its own crate.  Its statements are those of the command    *)
(* queue over event_entries, its failures back off as a command's do, and  *)
(* its sweep computes the schedule in ReservationTimeoutPolicy::outcome.   *)
(* An event's work is EventDispatcher::dispatch: all of its subscribers.   *)
(***************************************************************************)
EXTENDS DurableQueue

(* RETRY_BACKOFF_SECONDS per attempt, MAX_RETRY_BACKOFF_SECONDS at most.   *)
EventRetryDelay(attempts, previous) == IF attempts > 4 THEN 4 ELSE attempts

(* From the instant the sweep's transaction began, and without a cap.      *)
EventTimeoutDelay(attempts, previous, elapsed) == attempts - elapsed

(* EventGateway::dispatch of the two-phased gateway.                       *)
RecordEvent == \E i \in Ids, skew \in Skews : Record(i, skew)

(* A row of event_entries another build of the program wrote.              *)
ForeignEvent == \E i \in Ids, shape \in BadShapes : InsertRaw(i, shape)

ReserveEvents(w) == Reserve(w) \/ ReserveUnacknowledged(w)

(* process_entry: the subscribers' outcome, behind the item boundary.      *)
DispatchEvent(w) == Begin(w) \/ WorkSucceeds(w) \/ WorkFails(w)

EventCompleted(w) == Complete(w)
EventFailed(w) == Fail(w)

(* What a worker may meet instead: no database, or its own end.            *)
EventWorkerLost(w) == StorageFails(w) \/ Crash(w)

SelectStaleEvents(s) == SweepBegin(s) \/ SweepLock(s)
WriteStaleEvents(s) == SweepWrite(s)
SweepEventsLost(s) == SweepAbort(s)

EventNext ==
    \/ RecordEvent
    \/ ForeignEvent
    \/ \E w \in Workers :
          \/ ReserveEvents(w)
          \/ DispatchEvent(w)
          \/ EventCompleted(w)
          \/ EventFailed(w)
          \/ EventWorkerLost(w)
    \/ \E s \in Sweepers :
          \/ SelectStaleEvents(s)
          \/ WriteStaleEvents(s)
          \/ SweepEventsLost(s)
    \/ Tick

EventSpec == Init /\ [][EventNext]_vars
=============================================================================
