# mulac in TLA+

mulac is a set of building blocks for event-based systems: messages come in
through an *inbox*, become commands, commands produce events, events go to
subscribers, and one subscriber, the *outbox*, publishes them to a broker. Each
of the four stages is backed by a PostgreSQL table that serves as a durable
queue; a *kernel* wires the four to the handlers and subscribers of an
application, and two test applications show how. This directory holds a formal
model of that machinery, the TLC configurations that check it on small
instances, and proofs, checked by TLAPS, that its main properties hold for every
instance.

## Inventory

| Part (source) | State | Operations | Interacts with |
| --- | --- | --- | --- |
| Command queue (`libs/commanding`: `infra_diesel/repository.rs`, `infra_diesel/reservation.rs`) | table `command_entries`: status, attempts, reservation, `reserved_at`, `scheduled_at`, error history | `record`, `reserve`, `completed`, `failed`, `sweep` | written by the gateway, read by consumers and sweeps of any number of processes |
| Command consumer (`execution/command_consumer.rs`, `item_boundary.rs`) | the batch in memory, the item being worked on | `consume`: reserve, then run each item inside a panic boundary, then finalize | queue, dispatcher |
| Command gateway and dispatcher | handler registry | direct or two-phase `dispatch` | queue or handlers; events to the event gateway |
| Event queue, consumer, gateway, dispatcher (`libs/eventing`) | table `event_entries` | the same five operations; subscribers in order | subscribers, of which the outbox recorder is one |
| Inbox queue and consumer (`libs/inbox`) | table `inbox_entries` | the same; `store` ignores an id it has | command gateway |
| Inbox AMQP worker (`inbox/src/amqp_consumption.rs`) | connection, unacknowledged deliveries | next, store, ack or nack with backoff, cancellation | broker, inbox queue |
| Outbox queue, recorder, consumer (`libs/outbox`) | table `outbox_entries`, with `last_error` and `dead` | the same, and the administrative `dead` | publisher |
| AMQP publishers (`outbox/src/confirmed_amqp_publisher.rs`, `amqp_publisher.rs`) | one cached connection behind a mutex | publish under a timeout | broker |
| Kernel (`kernel/src`) | registries, worker tasks, a cancellation token | start, `dispatch_command` with inline draining, worker loops | all of the above |
| HTTP layers of the four crates (`*/src/http`), `mulac_http` | the blocking task behind each request | `POST /submit`, `POST /run`: refuse, spawn, await, answer | consumers, the inbox's store |
| `mulac_diesel` | none | pool construction | |
| Test applications (`test_apps/todo`, `test_apps/twitter`) | their tables, `inbox_messages` | command handlers, an outbox subscriber, a fan-out, HTTP and inbox endpoints | kernel |

What is hard in it: any number of consumers and sweeps work on the same rows
under READ COMMITTED; work is done outside any transaction, so a consumer may
be late, twice or dead; the sweep reads rows, waits for locks and writes by
primary key; commits can succeed without being acknowledged; rows may hold JSON
this build cannot read; backoffs are computed from clocks of different
machines; broker channels close with deliveries and confirms outstanding; one
channel is shared by all publishing threads of a process; the steps of the
pipeline commit one by one. `PROJECT.json` lists each hazard at its line with
the property that would catch it, or a note that says why none does.

What makes each part correct:

* **Queue**: only the last owner of a row finalizes it; a completed row is
  final and rests on delivered work; every attempt leaves one trace; no row is
  tried more than `max_attempts` times; every row ends completed or exhausted;
  sweeps neither overwrite newer states nor deadlock.
* **Outbox** in addition: `dead` buries only the reservation that was looked
  at, nothing brings a buried row back, `last_error` agrees with the history.
* **Inbox worker**: what the broker lets go of is stored, or cannot be read; an
  id is stored once; no delivery is forgotten; a poisonous message does not block the others;
  cancellation ends the loop.
* **Publisher**: Ok means routed; answers never reach the wrong call; no call
  waits for ever.
* **Kernel**: a completed row of one stage has its successor in the next,
  recorded by the attempt that completed it; what an attempt hands on it hands
  on once; a completed event was heard by every subscriber; an Ok of
  `dispatch_command` without its command tried has one of two explanations;
  every row settles.
* **HTTP layers**: the number a run reports is what it completed; what an answer
  tells its client is so; a repeated message changes nothing; a run nobody waits
  for still gives back its rows.
* **Applications**: an event announces a change that was made, as it was made,
  and only once; a fan-out reaches every follower; the journal has every
  delivered event.

## Modules

| Module | Models | Checked in | Proved in |
| --- | --- | --- | --- |
| `LeasedWork` | the promise of a durable queue, without clock, locks or consumers | `queue_leases`, `outbox_burial` (as `KeepsPromise`) | `DurableQueueProofs`, `StageQueueProofs` |
| `DurableQueue` | a queue table, its consumers and its sweeps, translated from `libs/commanding` | `MCDurableQueue`: `queue_leases`, `queue_poison` | `DurableQueueProofs` |
| `EventQueue` | `DurableQueue` with the names, sources and backoffs of `libs/eventing` | `queue_sweeps` | `StageQueueProofs` |
| `InboxQueue` | the same of `libs/inbox` | `queue_recovery` | `StageQueueProofs` |
| `OutboxQueue` | `DurableQueue` extended by `last_error` and `dead` | `MCOutboxQueue`: `outbox_burial` | `StageQueueProofs` |
| `InboxIngest` | the AMQP worker of the inbox, its broker and its `store` | `MCInboxIngest`: `ingest_*` | `InboxIngestProofs` |
| `ConfirmedPublisher` | `ConfirmedAmqpPublisher` shared by threads, and its broker | `MCConfirmedPublisher`: `publisher_confirms` | `ConfirmedPublisherProofs` |
| `Kernel` | persistent mode: three queues in a row, workers, `dispatch_command`; the application is a parameter | through `Todo` and `Twitter` | `KernelProofs` |
| `Todo` | the Todo application on `Kernel` | `MCTodo`: `todo`, `todo_cascade` | `TodoProofs` |
| `Twitter` | the Twitter application on `Kernel` | `MCTwitter`: `twitter` | `TwitterProofs` |
| `QueueApi` | the HTTP layers, with the queues as `LeasedWork` shows them | `MCQueueApi`: `http_runs` | `QueueApiProofs` |

The queue is modelled twice, at two grains. `DurableQueue` has every
transaction, lock and clock, and is shown to implement `LeasedWork`. `Kernel`
and `QueueApi` compose several queues and take from them what `LeasedWork`
promises and no more: a row is leased, a lease can be taken back at any time
by a sweep, and only the holder of the last one finishes the row.

### DurableQueue

`entries` is the table: one record per key with the columns that decide
anything. `shape` stands for the JSON columns: `ok`, a malformed `extra_info`,
a malformed `meta`, or an `extra_info` that is a JSON list. `worker` is the
consumer's memory: the reservation id, the items still to do, the item it is
at. `sweeper` is an open sweep transaction: its snapshot, the rows it has locked
and the attempt counts it has read. `granted` and `delivered` are history.

One action is one committed transaction (`Record`, `Reserve`, `Complete`,
`Fail`) or one step between two (`Begin`, `WorkSucceeds`, `WorkFails`). A
reservation decodes its rows before it commits, so `Reserve` also fails the
malformed ones. `ReserveUnacknowledged` is a commit whose acknowledgement was
lost, the second branch of `Complete` one whose caller sees an error,
`StorageFails` a database that cannot be reached, `Crash` the end of the
process. The sweep is split into `SweepBegin` (its snapshot and its
`transaction_timestamp()`), `SweepLock` (one row, in key order, waiting for
other sweeps, with the predicate evaluated again on the newest version, as READ
COMMITTED does) and `SweepWrite` (the bulk update by primary key alone).
`reserve` skips locked rows; `completed`, `failed` and `dead` wait for them.

Time is relative: `scheduled_in` and `reserved_for` are distances to now in
ticks of 30 seconds, the unit of all backoffs, so the model runs for ever in
finitely many states. The two backoffs are constant operators:
`MCDurableQueue` instantiates those of commanding, `EventQueue` and
`InboxQueue` have their own, and `MCOutboxQueue` those of the outbox, which
caps both and leaves an exhausted row's schedule alone.

### EventQueue and InboxQueue

The statements of the four repositories are the same up to table and crate
names; what differs is the backoffs and what counts as malformed. Each module
names the operations as its crate does, maps them to that crate's lines and
states its own next-state relation, so that a change to one crate has one place
to go. An event's work is the dispatch to all its subscribers, a message's its
conversion and the dispatch of the command.

### OutboxQueue

Extends `DurableQueue` and conjoins to its actions what each writes to
`last_error` and to the error history (`TellOutcome`, `TellTimeout`). `Inspect`
is an operator who reads a reserved row, `Dead` the later call of `dead` with
the reservation id that was read, with or without a reason. The recorder's
validation of routing key and sequence rejects before any state changes and is
left out.

### InboxIngest

`holder` is the broker's view (in the queue, with a worker, acknowledged, dead
lettered), `worker` the loop with its buffer of pushed deliveries, `rows` the
inbox rows written for each message. The loop's awaits are its actions: `Poll`
(with the rejection of payloads that are not UTF-8 inside it), `StoreSucceeds`,
`StoreFails` (also the insert that took effect and whose answer was lost),
`StorePanics`, `Ack`, `AckLost`, `Nack`, `BackoffEnds`, `StreamEnds`, `Stop`. A
select with two ready branches may take either, as the unbiased `select!` does.
Broker, channel and application are external: a closed channel returns its
unsettled deliveries to the queue.

### ConfirmedPublisher

`mutex` is the queue of callers at tokio's fair mutex, its holder first;
`channel` the cached connection with what was sent and not answered and what
was answered and not taken; `fate` what the broker did with each call's message.
The module does *not* assume that an answer carries the delivery tag of its
call: a call takes the next answer on its channel. That no answer meets the
wrong call is therefore a result about this code, which drops the channel after
every failure, and not about the client library. `Abandoned` lets whatever was
outstanding on a channel that is given up have arrived or not. `age` and
`elapsed` count ticks since the call and since the lock; time goes on only when
no timer is due and no free mutex has a waiter.

### Kernel

`rows` has the three tables the kernel wires together: inbox, command, event. A
row knows what it carries, its attempts, and, as history, `by`: the row, lease
and part of the work that recorded it. The attempt count of a leased row stands
for its `reservation_id`: both change with every reservation and neither is
used twice. `agent` is where each call of `consume` or `dispatch_command`
stands: `Callers` are single calls of `dispatch_command`, `Workers` the
background loops, which run the same code on their own queue.

`Submit` records the command through the gateway, under an id nobody has used
or one the caller was given; if a command has that id already, `Record` leaves
it as it is and the call goes on (`ON CONFLICT DO NOTHING`). Then the caller
reserves commands, works them off, reserves events, and so on for `Rounds`
rounds, whoever's rows it finds. A reservation is a transaction of two steps:
`Select` takes a batch of due rows into `locks`, passing over what other open
reservations hold there, and `Reserve` commits it; in between it may roll back
(`ReserveFails`, `Crash`), and its rows are as they were. When the clocks agree
a batch below the limit has every due row never tried that nobody holds. A row
that was tried may be left out of a batch, as its backoff may not have passed.
`dropped` (the commands of reservations that rolled back) and `crowded` (the
callers whose batches of commands were all full) are history for `OkMeansTaken`. `Convert` is the inbox consumer's conversion and
dispatch, `HandlerStep` one statement of a handler, `Emit` the hand-off of one
event, `Notify` one subscriber. Nothing between two of them is in a
transaction, so a fault (`WorkFails`, `CompleteFails`, `FailFails`,
`ReserveFails`, `SubmitFails`, `Crash`) or another agent may come in at each.
`FailItem` keeps which error a caller is told: its first batch's first.

The application is a parameter: `Execute`, `Deliver`, `Subscribers`, `Route`.
`KernelProofs` proves its theorems for any; `Todo` and `Twitter` give theirs.
`Route` is the identity on readable messages in `MCTodo`, because a message
there *is* the command it encodes; an unreadable one would be `NoData`.

### Todo and Twitter

The tables of each application are `db`. A Todo handler is one SQL statement, a
Twitter handler up to one for each table it looks at and, for the fan-out, one
for each follower; `memory` is what a handler carries from one statement to the
next. `http` is the request a caller serves, `inbox` the status column of
`inbox_messages`: an endpoint records the message, dispatches, marks, reads the
entity back and answers, each in a step of its own, and in Twitter each in a
blocking task that outlives the client (`Disconnect`). A plain request makes its
command's id itself; the inbox endpoint takes the sender's, so that
`DispatchInbound` may meet an id in use. `owed` and `changes` in Twitter's
tables are history: who was owed a timeline entry, and how often a change was
really made. `changes` in Todo's tables is history too: the row each statement
returned, and the command it was for. Todo is run with the inbox library's consumer in front
of the kernel as well.

### QueueApi

`call` is a connection, `task` the blocking task behind it, `rows` the four
queues as leases. `Refuse` answers at once: either adapter's parsing, a limit
out of range, an outbox without a publisher; the axum and poem adapters may
give different statuses and both are possible. `Accept` spawns the task, whose
steps are those of a store or of one `consume`; `Respond` is the awaiting
handler, `Disconnect` the future that is dropped. `count` is fixed at
reservation as in the code. A batch is any set of due rows up to the limit:
rows in backoff, and rows that other reservations have locked, are left out.

## Runs

Sizes are distinct states; a run takes between a second and about three minutes
on two TLC workers.

| Run | Instance | Shows | States |
| --- | --- | --- | --- |
| `queue_leases` | command queue: 2 rows, 2 consumers, 1 sweep, 2 attempts, malformed metadata | `TypeOK`, `LeaseExclusive`, `CompletionBacked`, `AttemptsAccounted`, `ReservedDecodes`, `CompletedIsFinal`, `KeepsPromise` | 300,000 |
| `queue_sweeps` | event queue: 2 rows, 1 consumer, 2 sweeps that may last a tick | `SweepReadStable`, `NoSweepDeadlock` | 963,000 |
| `queue_recovery` | inbox queue: 2 rows, 1 consumer, 1 sweep, batch of 1, timeout 1, skewed clock, two malformed shapes | `EverySettles` (liveness) | 45,000 |
| `queue_poison` | command queue: 2 rows, one with a JSON list in `extra_info` | `StaleReleased` is violated | |
| `outbox_burial` | 1 row, 2 consumers, 2 sweeps, 3 attempts, two odd shapes, the outbox's backoffs | `LastErrorAgrees`, `BurialsAccounted`, `BuriedAsSeen`, `DeadIsFinal`, `KeepsPromise` | 99,000 |
| `ingest_delivery` | 1 message published twice, 1 unreadable, 2 workers, every disturbance | `SettledIsStored`, `OneRowPerKey`, `NoneForgotten` | 1,467,000 |
| `ingest_poison` | 4 messages: good, without an id, unreadable, unstorable; 1 worker | `EveryMessageStored`, `CancelledStops` (liveness) | 60,000 |
| `publisher_confirms` | 2 threads, 2 calls each, timeout of 2 ticks | `OkMeansRouted`, `NothingPending`, `BoundedByPeers`, `EveryCallReturns` (liveness) | 88,000 |
| `todo` | 1 todo, 5 plain commands, 1 by the inbox endpoint, 1 in the inbox library's queue, 1 caller, 1 inbox and 1 command worker, batches of 2, 1 fault | `TodoTypeOK`, `AnnouncedAsMade`, `MessageBecomesCommand`, `OkMeansTaken` | 566,000 |
| `todo_cascade` | 1 caller that drains nothing, 1 command and 1 event worker, sweeps, 2 attempts, 2 faults | `CauseUnique`, `JournalCoversDone`, `EveryRowSettles` (liveness) | 333,000 |
| `twitter` | 6 plain commands and a posted tweet through the inbox endpoint, 2 callers, 2 rounds, 1 fault | `OnlyRealChanges`, `FanOutDelivers`, `CompletedAnnounced`, `DeliveredToAll` | 1,597,000 |
| `http_runs` | 3 calls, 3 rows in 2 queues, 1 fault, a sweep | `ApiTypeOK`, `ProcessedIsCompleted`, `AnswersFit`, `FirstSubmissionStays`, `HeldIsGivenBack` (liveness) | 744,000 |

**Why the bounds are enough.** Contention for a row is between the row's owner,
one late owner and a sweep: two consumers and one sweep produce all pairs, and
with two attempts a row is reserved, lost, reserved again and exhausted (three
in `outbox_burial`, so that a middle attempt exists). Waiting between sweeps
needs two sweeps and two rows. A batch of two has a malformed row with a healthy
neighbour. `Timeout = 0` makes a reservation stale at the first tick and so
reaches more interleavings per state; `queue_recovery` uses 1 to have
reservations that are not stale yet. `MaxElapsed = 1` lets a sweep be overtaken
by one tick, which separates the cutoff it read from the clock. A redelivered
message needs one copy in flight and one being stored: two workers and a second
publication of the same id cover both ways to get there. Two threads and two
calls each let a given-up call be followed by another call of the same and of
the other thread. The table sizes that the model cuts off are named
constants (`MaxDelay`, `MaxOverdue`, `MaxElapsed`, `MaxCopies`); each only
merges states the code does not tell apart (a due time further in the past, a
second redundant row of a message without an id), or, for `MaxElapsed` and
`MaxCalls`, ends the run of one actor.

In `Kernel`, `Ids` bounds each table: a step that would need one more key is not
taken. `todo_cascade` has two keys a table, which hold one command, its event,
and the second event a retry makes. With one caller and one command worker a
command is worked on by the one or the other, or taken from the one by a sweep
(`todo_cascade`) or after a failed reservation. One fault is enough for a
command to be handled twice and for a lost lease, two for a retry that fails as
well and exhausts the row. `twitter` has two callers, each of which may find the
other's row, and so every pair of its commands, the fan-out of a tweet racing an
unfollow among them (`FollowUser`, which adds a third of the states, is left to
`TwitterProofs`, where all nine handlers are); two rounds are what a cascade of
command, event, fan-out command needs. `todo` has a `Limit` of 2, so that the
four keys of its table can fill a caller's batch with other commands as well as
leave room in it, and a worker whose open reservation can hold the caller's
command; the caller alone takes up its events, once. That events are leased again
after a failure or a sweep is for `todo_cascade`. `http_runs`
needs three calls: one whose rows a second takes after a sweep, and one that
repeats the message; `MaxLimit` is 2 instead of 1000 so that a limit can be over
it.

Five runs turn the deadlock check off, because callers make one call each and
then stop: `publisher_confirms`, `todo`, `todo_cascade`, `twitter`, `http_runs`.
The others check it.

## Fairness

* `DurableQueue!FairSpec`: consumers and sweeps are loops of the application
  that come round again, so their steps are weakly fair, and time passes.
  Crashes, storage errors and the outcome of work are not constrained. The one
  stronger assumption is that a sweep's transaction does not break off for
  ever for outside reasons; when the database refuses its write it may. That
  the application schedules sweeps at all is required by `docs/contracts.md`.
* `InboxIngest!QuietSpec`: the loop, the broker and the supervisor that
  restarts an ended worker are weakly fair; a select that is offered the
  cancellation again and again takes it some time (strong fairness: tokio picks
  a ready branch at random); the database does not refuse a storable message
  every time (strong fairness). Disturbances end, because nothing is promised
  while workers are killed for ever.
* `ConfirmedPublisher!FairSpec`: time passes, a due timer fires, a free mutex
  wakes the first waiter. Nothing is assumed of broker and network.
* `InboxQueue!InboxFairSpec` is `DurableQueue`'s fairness over the inbox's own
  next-state relation.
* `Kernel!Fairness`, used by `Todo!TodoFairSpec`: the workers poll for ever
  (`run_command_worker`, `run_event_worker`), a poll selects as many due rows
  as its limit allows (`SelectBatch` of a largest batch), a reservation begun is
  committed and an item begun is carried on unless a fault comes in, and somebody runs the
  sweepers of the queues in `Swept`. That a worker finds every due row again
  and again rests on the backoffs being finite. Faults are bounded by
  `MaxFaults`: nothing is promised while the process is killed for ever.
* `QueueApi!FairSpec`: threads of the blocking pool run to their end and a
  finished task wakes its handler. No sweep is assumed.

## Proofs

All constants are arbitrary, under the assumptions that TLC evaluates in every
run of the module:

| Assumption | Says, beyond numbers being numbers and identifiers distinct |
| --- | --- |
| `QueueAssumption`, `ScheduleAssumption` | finitely many rows; the table's bounds hold the values the backoffs give |
| `IngestAssumption` | what cannot be read or stored is among the messages; a worker is not one of the broker's places |
| `PublisherAssumption` | finitely many callers; a call and a timeout are at least one |
| `KernelAssumption` | finitely many keys; callers are not workers; what is requested or received is data |
| `TodoAssumption` | a command is one of `TodoCommand`'s and names a todo; a message converts to a command or to nothing; the journal starts empty, and a row of the initial table has the columns of `todos` |
| `TwitterAssumption` | data are commands and events with their ids; nobody but the application asks for a fan-out (`TwitterCommand` has no such variant); finitely many callers and workers; the initial tables have the keys of the migrations, and nothing is owed yet |
| `ApiAssumption` | finitely many rows; a generated id is one of the inbox and not taken at the start; contents that decode, that are refused and that are garbled are apart |
| `AskedAssumption` | what clients ask are requests |

**DurableQueue** (`DurableQueueProofs`). The properties are not inductive by
themselves. `Inv` adds `RowInv` (a reserved row carries the reservation it was
given last), `WorkerInv` (a consumer that completes has delivered under its own
reservation), `LeaseInv` (no two consumers carry the same reservation) and
`SweepInv` (what a sweep has read is locked by it, still reserved, still stale
and at the same attempt count). Each action preserves `Inv` (`InitInv`,
`NextStep`), whence `TypeCorrect`, `LeasesAreExclusive`,
`CompletionsAreBacked`, `AttemptsAreAccounted`, `SweepReadsAreStable`,
`ReservationsDecode` and the action property `CompletionsAreFinal`.
`SweepsNeverDeadlock` has an invariant of its own, `OrderInv`: every key a sweep
holds is below every key it still wants. In a circle of waiting sweeps the one
that waits for the greatest key waits for a sweep that holds it, which wants a
greater one. `QueueKeepsPromise` shows that each step of the queue is, under
`Phase` and the other substitutions of `Promise`, a step or a stutter of
`LeasedWork`.

**InboxIngest** (`InboxIngestProofs`). `IInv` adds to the three properties what
a worker knows at each point of its loop: it acknowledges only what is recorded,
a running worker has not ended, and the broker counts nothing as outstanding on
a closed channel. From it follow `KeysAreStoredOnce` and `NothingIsForgotten`.
`SettledAreStored` also needs `DeadIsUnreadable`, an invariant of each step: no
other step of the loop than the rejection of a payload that is not UTF-8 gives a
delivery up for good.

**ConfirmedPublisher** (`ConfirmedPublisherProofs`). `QueueInv` says that the
callers at work are the mutex queue, each once, and that the head alone uses
the channel; `ChannelInv` that the channel is empty or holds the message, or
the answer, of the one caller that waits for it; `CallInv` that a call under way
has not succeeded before; `AgeInv` that the caller at place n has waited at most
one timeout for each place it moved up, and what its predecessor has used so
far. From them follow `OkIsRouted`, `ChannelIsClean` and, since no thread is in
the queue twice, `CallsAreBounded`: no call takes longer than one timeout per
thread.

**EventQueue, InboxQueue** (`StageQueueProofs`). Each of their steps is one of
`DurableQueue` (`EventsAreQueued`, `MessagesAreQueued`); what is proved of it
for any backoff within its bounds carries over: `EventSweepReadsAreStable`,
`EventSweepsNeverDeadlock`, `EventsKeepPromise`, `MessageCompletionsAreFinal`,
`InboxKeepsPromise`.

**OutboxQueue** (`StageQueueProofs`). `OutboxInv` is `DurableQueue`'s `Inv`,
whose `LiveAccounted` counts the rows that are not buried, the typing and
agreement of the column, and `DeadAccounted`: a buried row has an attempt
without an error exactly if its column is empty. `AttemptsAccounted` itself does
not hold of the outbox, whose buried rows may have such an attempt;
`BurialsAccounted` takes its place. A step is either one of `DurableQueue` with
what it tells the column, classified row by row by `ConsumeMoves`, or one of the
operator's two. From the invariant follow `OutboxTypeCorrect`, `LastErrorsAgree`,
`BurialsAreAccounted`, the action properties `BurialsAreAsSeen` and
`DeadRowsAreFinal`, and `OutboxKeepsPromise`, where `Dead` is `LeasedWork`'s own
burial.

**Kernel** (`KernelProofs`), for any application, whatever its handlers,
subscribers and conversions do. The invariant adds to the promises `RowInv` and
`AgentInv` (the shape of rows and of agents at each point), `LeaseBound` and
`LeaseOnce` (an agent works under a lease its row has reached, and no two agents
under the same one), `CauseInv` (what has been recorded in the name of a lease
was recorded by its holder, up to the part it has reached) and `ProgressInv`
(what an agent has handed off, or has been heard, so far). `CausesAreUnique` needs
`LeaseOnce`; `CompletedCommandsAreAnnounced`, `CompletedEventsAreDelivered` and
`CompletedMessagesAreCommands` need `ProgressInv` and ownership at the
completion. `LockInv` says that what an open reservation has selected is
still open and due, and no two of a queue have a row in common.
`OkCommandsAreTaken` has an invariant of its own, `CallInv`, with one part
(`Call`) for each caller: once a batch of commands below the limit has been
selected, its own command was tried, or is selected by somebody, or was in a
reservation that rolled back; rows never lose attempts (`Grown`), and such a
batch left out only what was held or had been tried. The limit may be any.
Its premises (clocks that agree, a batch that was not full) are part of the
property: without them the code does not promise that much.

The last quarter of the module is for the applications: what a step does to data.
`Calm` is a step that leaves the tables, the subscribers' record and the data of
every row alone, except that it may record a command, and in which an agent keeps
or drops what it carries. `Flow` shows that every step is Calm, a handler's
statement (`HandlerFlow`), the hand-off of one event (`EmitFlow`) or one
subscriber's call (`NotifyFlow`); an application has to look at these three
alone. Three invariants of any application go with it: `MemoryInv` (a handler's
locals live from its first statement to its last), `MailInv` (the inbox holds
what was stored in it), `HearInv` (a subscriber is called at most once under a
lease, and never under one that was not issued).

**QueueApi** (`QueueApiProofs`). `ProcessedIsCompleted` is about an answer and
the table; to be inductive it needs what lies between. `TaskInv` says which
requests a task at each place may be serving, and `CountInv` that nobody has
rows leased in the name of a run that has not reserved yet and, as long as a run
has met no error, that its count is the number of rows it has in hand or has
completed. A sweep or another run may take a row in hand at any time; the
completion then finds no row of its own, the run has an error from there on, and
its answer gives no number. From the invariant follow `ApiTypeCorrect` and
`ProcessedAreCompleted`. `AnswersFitRequests` has `FitInv`, by which what a task
is about to answer fits the request of its call already, and keeps fitting until
it is told, because rows are never removed and faults never taken back; the action property `FirstSubmissionsStay` is one of
each step (`RowsStay`), given the types.

**Todo, Twitter** (`TodoProofs`, `TwitterProofs`). Every step of an application
is a step of the kernel, or one aside that leaves queues and tables alone
(`TodoStep`, `TwitterStep`), so the kernel's invariant holds behind the
endpoints, whatever the handlers do: `TodoInvariance`, `TwitterInvariance`, and
from them `TodoTypeCorrect`, `TodoCausesAreUnique`, `TodoMessagesAreCommands`,
`TodoOkCommandsAreTaken`, `TwitterTypeCorrect`, `TwitterAnnounces`,
`TwitterDelivers`, `TwitterCausesAreUnique`.

What the tables and events say depends on the handlers. These theorems are
stated under `Wired`: the parameters `Execute`, `Deliver` and `Subscribers` of
the kernel are the application's `Handle`, `Receive` and `Listeners`. That is
what `start_mulac` passes to the builder, and what the .cfg files substitute
(`Execute <- Handle`, ...), so it holds of every run by definition. It is a
hypothesis of the theorems, not an ASSUME of the modules, because it quantifies
over all arguments and TLC could not evaluate it.

* `TodoTables`: beside the flow invariants, every command on record names a todo
  (`CommandsInv`), every event a handler has returned or that is in the queue
  has what its command sets and is the row the command's statement returned
  (`EventsInv`, by `Announces`, which `HandleSays` shows of each of the six
  handlers), and the journal has one row for each lease
  under which the event was heard (`JournalInv`). `EventsTellTheTruth` is a part
  of it. `JournalIsComplete` needs `HearInv` as well: the leases an event was
  heard under are among those it was given, so there are at most `attempts` of
  them, and a completed event was heard under one (`DeliveredToAll`).
* `TwitterTables`: a tweet has one author and entries are owed to followers only
  (`DbOK`); a fan-out on record, and an event to be heard, is of a tweet that was
  posted (`RecordInv`); a change is announced by at most one event, in the queue
  or about to be handed off (`CountInv`); a fan-out under way has inserted each
  entry owed or has its user in memory (`FanInv`). `EventsAreChanges` is
  `CountInv` without the events in memory. `FanOutsDeliver` is the last clause of
  `FanInv`. A fan-out reads the followers of the user it names, and what is owed
  is owed to followers of the tweet's author: `RecordInv` and `OneAuthor` make
  them the same. Other commands cannot undo it: only posting a tweet makes
  anything owed, and a tweet with a fan-out on record is not posted again.

These invariants were model-checked on the instances of `todo` and `twitter`
before they were proved.

**Only model-checked.** Liveness (`EverySettles`, `EveryMessageStored`,
`CancelledStops`, `EveryCallReturns`, `EveryRowSettles`, `HeldIsGivenBack`),
which needs fairness and ENABLED and is out of the prover's reach. Every
invariant and every action property of a passing run is stated by a theorem. The outbox's
typing, `OutboxTypeOK`, is only proved.

## Where code and documents differ

* **A JSON list in `extra_info` stops every sweep** (`queue_poison`, a bug). The
  row decodes and is reserved like any other, but the sweep's `jsonb_set` refuses
  it and rolls back the whole transaction, for all stale rows, every time.

The models show the following as well; no run is spent on them.

* **Duplicates are recognised by id alone**, not by id and source within a
  window as `docs/contracts.md:57` says: `InboxIngest!Inserted` looks at the key.
* **A panic while recording is not nacked** (`InboxIngest!StorePanics`), although
  the comment at `amqp_consumption.rs:356` says of recording failures that they
  are: the loop returns and the delivery stays unacknowledged until the channel
  is closed. `NoneForgotten` names the exception.
* **`last_error` is not always the last failure reason** (`docs/outbox-spec.md:152`):
  a sweep leaves it as it was. `LastErrorAgrees` names the exception.
* **A publish is not bounded by the timeout** (the comment at
  `confirmed_amqp_publisher.rs:25`): the wait for the mutex comes before it.
  What does hold is `BoundedByPeers`.
* **`dispatch_command` does not wait for a terminal state**
  (`docs/twitter-app-reorganize-plan-final.md:774`): somebody else may hold the
  command, or its events may be beyond the rounds, when it returns Ok. It may
  even return Ok when nobody has tried the command: other commands fill every
  batch, or `FOR UPDATE SKIP LOCKED` passes over the row because another
  consumer's open reservation holds it, and that one rolls back. What does hold,
  with clocks that agree, is `OkMeansTaken`: there is no further explanation. Its
  error may be that of another caller's command.
* **A message id that a command has already is no request.** The inbox endpoints
  record their command under the sender's message id (`todo/src/lib.rs:220`,
  `twitter/src/inbox.rs:326`), and the insert is `ON CONFLICT DO NOTHING`. If a
  command of another origin has the id, nothing is recorded, the message is
  marked processed and the answer may be 200. `OkMeansTaken` and
  `MessageBecomesCommand` do not say otherwise: the one speaks of the row under
  the id, the other of the inbox library's consumer, which makes ids of its own.
* **A retried `PostTweet` leaves its tweet unannounced**: when the hand-off of
  the event fails after the insert, the retry is refused as a duplicate until the
  attempts are used up. `OnlyRealChanges` is therefore a bound from above.
* **A message of the applications' inbox endpoints can stay "received"**: the
  process dies, or in Twitter the client goes away, before it is marked, nothing
  takes it up again, and its repetition is answered 409.

## Not modelled, and why

* Direct mode (`KernelBuilder::start`, the one-phased gateways): handlers and
  subscribers called on the caller's stack, without a table, a retry or another
  actor; there is no behaviour in it beyond the call.
* `KernelBuilder::validate` and what `start_persistent` rejects: checks of a
  configuration before there is any state.
* The plain `AmqpPublisher`: a connection per message and no confirms, so it
  promises nothing that outlives the call.
* `mulac_diesel` and migrations: the construction of a pool and of tables. That
  a pool may have no connection to give is a storage error of the modules.
* The read-only endpoints of the test applications and their start-up.
* The recorder's validation of routing keys and sequences, which rejects before
  any state changes; JSON layout, OpenAPI schemas, logging and the wording of
  errors, which no property depends on. Where decoding decides what happens to a
  row it is modelled by its outcome (`Shapes`, `Garbled`, `Unfit`, `Route`).
