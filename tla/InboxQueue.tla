----------------------------- MODULE InboxQueue -----------------------------
(***************************************************************************)
(* The inbox queue, libs/inbox: DurableQueue under the names and with the  *)
(* rules of its own crate.  A message's work is its conversion to a        *)
(* command and CommandGateway::dispatch.  Neither backoff has a cap, and a *)
(* row without metadata, whose routing key is lost, is malformed.          *)
(***************************************************************************)
EXTENDS DurableQueue

(* RETRY_BACKOFF_SECONDS per attempt, of which there is at least one.      *)
InboxRetryDelay(attempts, previous) == attempts

(* From the instant the sweep's transaction began.                         *)
InboxTimeoutDelay(attempts, previous, elapsed) == attempts - elapsed

(* InboxStorePort::store: a message id seen before changes nothing.        *)
StoreMessage == \E i \in Ids, skew \in Skews : Record(i, skew)

(* A row of inbox_entries another build of the program wrote.              *)
ForeignMessage == \E i \in Ids, shape \in BadShapes : InsertRaw(i, shape)

ReserveMessages(w) == Reserve(w) \/ ReserveUnacknowledged(w)

(* process: conversion and dispatch, behind the item boundary.             *)
DispatchCommand(w) == Begin(w) \/ WorkSucceeds(w) \/ WorkFails(w)

MessageCompleted(w) == Complete(w)
MessageFailed(w) == Fail(w)

(* What a worker may meet instead: no database, or its own end.            *)
InboxWorkerLost(w) == StorageFails(w) \/ Crash(w)

SweepMessages(s) == SweepBegin(s) \/ SweepLock(s) \/ SweepWrite(s)
SweepMessagesLost(s) == SweepAbort(s)

InboxNext ==
    \/ StoreMessage
    \/ ForeignMessage
    \/ \E w \in Workers :
          \/ ReserveMessages(w)
          \/ DispatchCommand(w)
          \/ MessageCompleted(w)
          \/ MessageFailed(w)
          \/ InboxWorkerLost(w)
    \/ \E s \in Sweepers : SweepMessages(s) \/ SweepMessagesLost(s)
    \/ Tick

InboxSpec == Init /\ [][InboxNext]_vars

(* The fairness of DurableQueue: workers and sweeps are loops.             *)
InboxFairSpec == InboxSpec /\ Fairness
=============================================================================
