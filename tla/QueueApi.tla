------------------------------ MODULE QueueApi ------------------------------
(***************************************************************************)
(* The queues behind HTTP: POST /submit stores an inbox message, POST /run *)
(* works off one batch of a queue.  Every request that is not refused at   *)
(* once becomes a task on Tokio's blocking pool, and the task is not the   *)
(* connection: a client may hang up, send the same message again or run    *)
(* the same queue while the task goes on.                                  *)
(*                                                                         *)
(* The four crates have an API each, for axum and for poem.  They share    *)
(* one machine and differ in what they refuse and with which status.  A    *)
(* queue is again what LeasedWork promises: its reservations, here one per *)
(* task, and the sweep that takes them back.                               *)
(***************************************************************************)
EXTENDS Integers, FiniteSets

CONSTANTS
    Keys,              \* primary keys; a message_id is the key of its row
    QueueOf(_),        \* the queue a key belongs to
    Generated,         \* the inbox keys a UUID v7 may turn out to be
    Contents,          \* valid messages
    Unfit,             \* messages whose values submit does not accept
    Garbled,           \* row contents this build cannot decode
    InitialRows,       \* [Keys -> contents or NoContent]: what is queued
    NoContent, NoKey, NoCount,
    Calls,             \* HTTP requests, one client's attempt each
    Limits,            \* the limits clients may ask for
    Asked,             \* the requests they do send
    MaxLimit,          \* MAX_LIMIT, 1000 in the code
    Publishing,        \* the application configured an outbox publisher
    MaxAttempts,       \* the default max_attempts of the specs
    MaxFaults          \* bound: storage errors, panics and crashes

Queues == {"inbox", "commands", "events", "outbox"}

NoCall == "nobody"

ASSUME ApiAssumption ==
    /\ IsFiniteSet(Keys)
    /\ NoCall \notin Calls
    /\ \A k \in Keys : QueueOf(k) \in Queues
    /\ Generated \subseteq {k \in Keys : QueueOf(k) = "inbox"}
    /\ Contents \cap (Unfit \cup Garbled \cup {NoContent}) = {}
    /\ NoContent \notin Garbled
    /\ NoKey \notin Keys
    /\ InitialRows \in [Keys -> Contents \cup Garbled \cup {NoContent}]
    /\ \A k \in Generated : InitialRows[k] = NoContent
    /\ Limits \subseteq Nat
    /\ MaxLimit \in Nat \ {0}
    /\ NoCount \notin Nat
    /\ MaxAttempts \in Nat \ {0}
    /\ MaxFaults \in Nat
    /\ Publishing \in BOOLEAN

VARIABLES
    rows,      \* the four tables
    call,      \* per call: the connection, its request and its answer
    task,      \* per call: its task on the blocking pool
    faults

vars == <<rows, call, task, faults>>

Row == [content : Contents \cup Garbled \cup {NoContent},
        phase : {"none", "open", "held", "done"},
        tries : 0 .. MaxAttempts, by : Calls \cup {NoCall}]

(* A body is JSON of the wrong types, a message to store or a run.         *)
Requests ==
    [op : {"unreadable"}]
    \cup [op : {"submit"}, key : {k \in Keys : QueueOf(k) = "inbox"} \cup {NoKey},
          content : Contents \cup Unfit]
    \cup [op : {"run"}, queue : Queues, limit : Limits]

ASSUME AskedAssumption == Asked \subseteq Requests

NoRequest == [op |-> "none"]

Answer == [status : {200, 202, 400, 500, 503}, processed : Nat \cup {NoCount},
           errors : Nat, key : Keys \cup {NoKey}]

Reply(status) == [status |-> status, processed |-> NoCount, errors |-> 0, key |-> NoKey]

NoAnswer == Reply(0)

Task == [pc : {"none", "storing", "reserving", "batch", "completing", "failing",
               "over"},
         todo : SUBSET Keys, item : Keys \cup {NoKey}, count : Nat, errors : Nat,
         result : Answer \cup {NoAnswer}]

(* The tables, the requests and the blocking tasks have their types: no    *)
(* run, whoever asked for it, tries a row beyond max_attempts.             *)
ApiTypeOK ==
    /\ rows \in [Keys -> Row]
    /\ call \in [Calls -> [pc : {"idle", "waiting", "answered", "gone"},
                           request : Requests \cup {NoRequest},
                           answer : Answer \cup {NoAnswer}]]
    /\ task \in [Calls -> Task]
    /\ faults \in 0 .. MaxFaults

NoTask == [pc |-> "none", todo |-> {}, item |-> NoKey, count |-> 0, errors |-> 0,
           result |-> NoAnswer]

NewRow(content) == [content |-> content, phase |-> "open", tries |-> 0, by |-> NoCall]
NoRow == [NewRow(NoContent) EXCEPT !.phase = "none"]

Init ==
    /\ rows = [k \in Keys |->
          IF InitialRows[k] = NoContent THEN NoRow ELSE NewRow(InitialRows[k])]
    /\ call = [c \in Calls |-> [pc |-> "idle", request |-> NoRequest, answer |-> NoAnswer]]
    /\ task = [c \in Calls |-> NoTask]
    /\ faults = 0

-----------------------------------------------------------------------------
(* What is wrong with a request, and the status each crate gives for it:   *)
(* 400 when the client must change it, else 500, or 503 of the outbox.     *)

InboxClientErrors == {"malformed", "invalid message", "limit out of range"}
InboxStatus(reason) == IF reason \in InboxClientErrors THEN 400 ELSE 500

CommandingClientErrors == {"malformed", "limit out of range"}
CommandingStatus(reason) == IF reason \in CommandingClientErrors THEN 400 ELSE 500

EventingClientErrors == {"malformed", "limit out of range"}
EventingStatus(reason) == IF reason \in EventingClientErrors THEN 400 ELSE 500

OutboxKind(reason) ==
    CASE reason \in {"malformed", "limit out of range"} -> "invalid"
      [] reason = "no publisher" -> "unavailable"
      [] OTHER -> "internal"

OutboxStatus(reason) ==
    CASE OutboxKind(reason) = "invalid" -> 400
      [] OutboxKind(reason) = "unavailable" -> 503
      [] OutboxKind(reason) = "internal" -> 500

Status(queue, reason) ==
    CASE queue = "inbox"    -> InboxStatus(reason)
      [] queue = "commands" -> CommandingStatus(reason)
      [] queue = "events"   -> EventingStatus(reason)
      [] queue = "outbox"   -> OutboxStatus(reason)

(* A run request cannot be constructed with a limit out of range.          *)
Checked(limit, status) == IF limit \in 1 .. MaxLimit THEN NoAnswer ELSE Reply(status)

InboxRunRequest(limit) == Checked(limit, InboxStatus("limit out of range"))
RunCommandsRequest(limit) == Checked(limit, CommandingStatus("limit out of range"))
RunEventsRequest(limit) == Checked(limit, EventingStatus("limit out of range"))
RunOutboxRequest(limit) == Checked(limit, OutboxStatus("limit out of range"))

RunRequest(queue, limit) ==
    CASE queue = "inbox"    -> InboxRunRequest(limit)
      [] queue = "commands" -> RunCommandsRequest(limit)
      [] queue = "events"   -> RunEventsRequest(limit)
      [] queue = "outbox"   -> RunOutboxRequest(limit)

(* axum: the extractor reads the body and constructs the run request.  The *)
(* values of a message are left to the task.                               *)
AxumRefuses(r) ==
    CASE r.op = "unreadable" -> Reply(400)
      [] r.op = "run"        -> RunRequest(r.queue, r.limit)
      [] r.op = "submit"     -> NoAnswer

(* poem: the parser of the body all queues share checks the limit too,     *)
(* before the adapter constructs the crate's own request from it.          *)
PoemRefuses(r) ==
    IF r.op = "unreadable" \/ (r.op = "run" /\ r.limit \notin 1 .. MaxLimit)
    THEN Reply(400)
    ELSE AxumRefuses(r)

(* Without a publisher the outbox answers before it spawns a task.         *)
Unavailable(r) == r.op = "run" /\ r.queue = "outbox" /\ ~ Publishing

Refusals(r) ==
    LET early == {AxumRefuses(r), PoemRefuses(r)} \ {NoAnswer} IN
    IF early = {} /\ Unavailable(r) THEN {Reply(OutboxStatus("no publisher"))} ELSE early

Refuse(c, r) ==
    /\ call[c].pc = "idle"
    /\ \E a \in Refusals(r) :
          call' = [call EXCEPT ![c].pc = "answered", ![c].request = r, ![c].answer = a]
    /\ UNCHANGED <<rows, task, faults>>

Accept(c, r) ==
    /\ call[c].pc = "idle"
    /\ Refusals(r) = {}
    /\ call' = [call EXCEPT ![c].pc = "waiting", ![c].request = r]
    /\ task' = [task EXCEPT ![c].pc = IF r.op = "submit" THEN "storing" ELSE "reserving"]
    /\ UNCHANGED <<rows, faults>>

-----------------------------------------------------------------------------
(* The task.                                                               *)

(* The handler awaits the task: its answer is the task's result.           *)
Over(c, result) ==
    task' = [task EXCEPT ![c] = [NoTask EXCEPT !.pc = "over", !.result = result]]

(* Mutated form: the newer message replaces the stored one.                *)
StoredReplacing(k, content) == rows' = [rows EXCEPT ![k] = NewRow(content)]

(* ON CONFLICT (id) DO NOTHING: a known id leaves its row as it is.        *)
Stored(k, content) ==
    rows' = [rows EXCEPT ![k] = IF @.phase = "none" THEN NewRow(content) ELSE @]

MessageKeys(r) ==
    IF r.key # NoKey THEN {r.key} ELSE {k \in Generated : rows[k].phase = "none"}

Submit(c) ==
    LET r == call[c].request IN
    /\ task[c].pc = "storing"
    /\ IF r.content \in Unfit
       THEN Over(c, Reply(InboxStatus("invalid message"))) /\ UNCHANGED rows
       ELSE \E k \in MessageKeys(r) :
               /\ Stored(k, r.content)
               /\ Over(c, [Reply(202) EXCEPT !.key = k])
    /\ UNCHANGED <<call, faults>>

(* Mutated form: the limit of attempts is off by one.                      *)
DueOnceMore(q) == {k \in Keys : /\ QueueOf(k) = q
                                /\ rows[k].phase = "open"
                                /\ rows[k].tries <= MaxAttempts}

Due(q) == {k \in Keys : /\ QueueOf(k) = q
                        /\ rows[k].phase = "open"
                        /\ rows[k].tries < MaxAttempts}

(* Any of the due rows, up to the limit: those whose backoff has not passed*)
(* and those another reservation has locked are left out.                  *)
Batches(q, limit) == {S \in SUBSET Due(q) : Cardinality(S) <= limit}

Decodes(k) == rows[k].content \notin Garbled

(* A row that does not decode has failed when the reservation commits.     *)
Lease(c, S) ==
    rows' = [k \in Keys |->
        IF k \notin S THEN rows[k]
        ELSE [rows[k] EXCEPT !.tries = @ + 1, !.by = c,
                             !.phase = IF Decodes(k) THEN "held" ELSE "open"]]

(* The number a run reports is fixed here: the rows of its batch.          *)
Reserve(c) ==
    /\ task[c].pc = "reserving"
    /\ \E S \in Batches(call[c].request.queue, call[c].request.limit) :
          /\ Lease(c, S)
          /\ task' = [task EXCEPT ![c].pc = "batch", ![c].todo = {k \in S : Decodes(k)},
                                  ![c].count = Cardinality({k \in S : Decodes(k)})]
    /\ UNCHANGED <<call, faults>>

(* One item: a command, an event's subscribers, a publication succeeds or  *)
(* not, a panic in it included.                                            *)
Work(c) ==
    /\ task[c].pc = "batch"
    /\ \E k \in task[c].todo, outcome \in {"completing", "failing"} :
          task' = [task EXCEPT ![c].pc = outcome, ![c].item = k, ![c].todo = @ \ {k}]
    /\ UNCHANGED <<rows, call, faults>>

Owned(c) == LET r == rows[task[c].item] IN r.phase = "held" /\ r.by = c

NextItem(c, errors) ==
    task' = [task EXCEPT ![c].pc = "batch", ![c].item = NoKey, ![c].errors = @ + errors]

(* Mutated form: a completion that finds no row of its own is no error.    *)
CompleteQuietly(c) ==
    /\ task[c].pc = "completing"
    /\ rows' = IF Owned(c) THEN [rows EXCEPT ![task[c].item].phase = "done"] ELSE rows
    /\ NextItem(c, 0)
    /\ UNCHANGED <<call, faults>>

Complete(c) ==
    /\ task[c].pc = "completing"
    /\ IF Owned(c)
       THEN rows' = [rows EXCEPT ![task[c].item].phase = "done"] /\ NextItem(c, 0)
       ELSE task' = [task EXCEPT ![c].pc = "failing"] /\ UNCHANGED rows
    /\ UNCHANGED <<call, faults>>

(* The failure is reported, and beside it that it could not be written.    *)
Fail(c) ==
    /\ task[c].pc = "failing"
    /\ IF Owned(c)
       THEN rows' = [rows EXCEPT ![task[c].item].phase = "open"] /\ NextItem(c, 1)
       ELSE NextItem(c, 2) /\ UNCHANGED rows
    /\ UNCHANGED <<call, faults>>

(* Consumer failures are a 200 whose count is null: one error id each.     *)
RunReply(count, errors) ==
    [Reply(200) EXCEPT !.processed = IF errors = 0 THEN count ELSE NoCount,
                       !.errors = errors]

EndRun(c) ==
    /\ task[c].pc = "batch"
    /\ task[c].todo = {}
    /\ Over(c, RunReply(task[c].count, task[c].errors))
    /\ UNCHANGED <<rows, call, faults>>

Respond(c) ==
    /\ call[c].pc = "waiting"
    /\ task[c].pc = "over"
    /\ call' = [call EXCEPT ![c].pc = "answered", ![c].answer = task[c].result]
    /\ task' = [task EXCEPT ![c] = NoTask]
    /\ UNCHANGED <<rows, faults>>

(* Mutated form: the task is aborted with the future that awaits it.       *)
DisconnectAborting(c) ==
    /\ call[c].pc = "waiting"
    /\ call' = [call EXCEPT ![c].pc = "gone"]
    /\ Over(c, NoAnswer)
    /\ UNCHANGED <<rows, faults>>

(* The client hangs up, or its proxy does: the future is dropped, the task *)
(* is not.                                                                 *)
Disconnect(c) ==
    /\ call[c].pc = "waiting"
    /\ call' = [call EXCEPT ![c].pc = "gone"]
    /\ UNCHANGED <<rows, task, faults>>

-----------------------------------------------------------------------------
Fault ==
    /\ faults < MaxFaults
    /\ faults' = faults + 1

(* Mutated form: the error of the store is dropped with the ? forgotten.   *)
SubmitFailsUnnoticed(c) ==
    LET r == call[c].request IN
    /\ Fault
    /\ task[c].pc = "storing"
    /\ r.content \notin Unfit
    /\ \E k \in MessageKeys(r) : /\ Stored(k, r.content) \/ UNCHANGED rows
                                 /\ Over(c, [Reply(202) EXCEPT !.key = k])
    /\ UNCHANGED call

(* The message may be stored all the same; the client is told 500.         *)
SubmitFails(c) ==
    LET r == call[c].request IN
    /\ Fault
    /\ task[c].pc = "storing"
    /\ r.content \notin Unfit
    /\ \/ \E k \in MessageKeys(r) : Stored(k, r.content)
       \/ UNCHANGED rows
    /\ Over(c, Reply(InboxStatus("storage failed")))
    /\ UNCHANGED call

(* A reservation that fails is a batch error; its commit may have counted. *)
ReserveFails(c) ==
    /\ Fault
    /\ task[c].pc = "reserving"
    /\ \/ \E S \in Batches(call[c].request.queue, call[c].request.limit) : Lease(c, S)
       \/ UNCHANGED rows
    /\ Over(c, RunReply(0, 1))
    /\ UNCHANGED call

(* A completion whose acknowledgement is lost, or that never happened.     *)
CompleteFails(c) ==
    /\ Fault
    /\ task[c].pc = "completing"
    /\ \/ Owned(c) /\ rows' = [rows EXCEPT ![task[c].item].phase = "done"]
       \/ UNCHANGED rows
    /\ task' = [task EXCEPT ![c].pc = "failing"]
    /\ UNCHANGED call

FailFails(c) ==
    /\ Fault
    /\ task[c].pc = "failing"
    /\ NextItem(c, 2)
    /\ UNCHANGED <<rows, call>>

(* A panic outside the items, or the runtime shutting down: the join fails.*)
TaskFails(c) ==
    /\ Fault
    /\ task[c].pc \notin {"none", "over"}
    /\ LET queue == IF call[c].request.op = "submit" THEN "inbox" ELSE call[c].request.queue
       IN Over(c, Reply(Status(queue, "task failed")))
    /\ UNCHANGED <<rows, call>>

Sweep(k) ==
    /\ rows[k].phase = "held"
    /\ rows' = [rows EXCEPT ![k].phase = "open"]
    /\ UNCHANGED <<call, task, faults>>

-----------------------------------------------------------------------------
TaskStep(c) ==
    \/ Submit(c)
    \/ Reserve(c)
    \/ Work(c)
    \/ Complete(c)
    \/ Fail(c)
    \/ EndRun(c)

TaskTrouble(c) ==
    \/ SubmitFails(c)
    \/ ReserveFails(c)
    \/ CompleteFails(c)
    \/ FailFails(c)
    \/ TaskFails(c)

Next ==
    \/ \E c \in Calls :
          \/ \E r \in Asked : Refuse(c, r) \/ Accept(c, r)
          \/ TaskStep(c)
          \/ Respond(c)
          \/ Disconnect(c)
          \/ TaskTrouble(c)
    \/ \E k \in Keys : Sweep(k)

(* The pool's threads run, and a finished task wakes its handler.          *)
Spec == Init /\ [][Next]_vars
FairSpec == Spec /\ \A c \in Calls : WF_vars(TaskStep(c)) /\ WF_vars(Respond(c))

-----------------------------------------------------------------------------
(* Properties.                                                             *)

CompletedBy(c) == {k \in Keys : rows[k].phase = "done" /\ rows[k].by = c}

(* A run that reports a number completed exactly that many rows itself:    *)
(* whoever else runs the queue, sweeps it or takes its rows over, no row   *)
(* is counted by two answers, and none that is still to be done by any.    *)
ProcessedIsCompleted ==
    \A c \in Calls : call[c].answer.processed # NoCount =>
        call[c].answer.processed = Cardinality(CompletedBy(c))

(* What an answer tells its client is so.  400 blames a request that can   *)
(* never be accepted, 503 an outbox nobody publishes, 500 only follows a   *)
(* fault.  202 names the row of the message, under the client's own id if  *)
(* it sent one, and the row stays.  A run that counts stayed in its limit. *)
Blamed(r) ==
    CASE r.op = "unreadable" -> TRUE
      [] r.op = "submit"     -> r.content \in Unfit
      [] r.op = "run"        -> r.limit \notin 1 .. MaxLimit

Fits(r, a) ==
    /\ a \in Answer
    /\ a.status = 400 => Blamed(r)
    /\ a.status = 503 => Unavailable(r)
    /\ a.status = 500 => faults > 0
    /\ a.status = 202 => /\ r.op = "submit" /\ ~ Blamed(r)
                         /\ a.key \in Keys /\ r.key \in {NoKey, a.key}
                         /\ rows[a.key].phase # "none"
    /\ a.status = 200 => /\ r.op = "run" /\ ~ Blamed(r) /\ ~ Unavailable(r)
                         /\ a.processed = NoCount \/ a.processed <= r.limit

AnswersFit ==
    \A c \in Calls : call[c].pc = "answered" => Fits(call[c].request, call[c].answer)

(* A message sent again, whatever it says now, changes nothing: the first  *)
(* content stays and a completed message is not worked on a second time.   *)
FirstSubmissionStays ==
    [][\A k \in Keys : rows[k].phase # "none" =>
          /\ rows'[k].content = rows[k].content
          /\ rows'[k].tries >= rows[k].tries
          /\ rows[k].phase = "done" => rows'[k].phase = "done"]_vars

(* A client that hangs up leaves nothing behind: unless the database or    *)
(* the process failed, the runs under way complete or give back every row  *)
(* they took, though nobody waits for the answer and no sweep comes.       *)
HeldIsGivenBack ==
    LET held == {k \in Keys : rows[k].phase = "held"} IN
    held # {} ~> held = {} \/ faults > 0
=============================================================================
