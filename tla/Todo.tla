-------------------------------- MODULE Todo --------------------------------
(***************************************************************************)
(* The Todo test application on the kernel: six command handlers of one    *)
(* SQL statement each, one subscriber that journals every event in the     *)
(* application's outbox table, and the endpoints.  A command is dispatched *)
(* on the endpoint's own thread and its inbox endpoint is one blocking     *)
(* closure: a client that goes away stops neither.                         *)
(*                                                                         *)
(* A todo is its title, whether it is completed and its due date.  An      *)
(* event carries the todo as the handler's statement returned it.          *)
(***************************************************************************)
EXTENDS Kernel

CONSTANTS
    Todos,        \* the ids of todos
    NoTodo,       \* no row
    Blank,        \* a title of nothing but spaces
    Plain,        \* the commands plain requests carry, of Requests
    Inbound,      \* the commands messages carry, of Requests
    Messages,     \* ids a sender gives to messages of the inbox endpoint
    NoMessage,    \* the message id of a plain request
    NoRequest

CommandTypes ==
    {"CreateTodo", "UpdateTodo", "CompleteTodo", "ReopenTodo", "UpdateDueDate",
     "DeleteTodo"}

IsTodo(x) == x = [title |-> x.title, completed |-> x.completed, due |-> x.due]

(* Commands and messages are the application's own, and it starts with an  *)
(* empty journal.                                                          *)
ASSUME TodoAssumption ==
    /\ Plain \subseteq Requests
    /\ Inbound \subseteq Requests
    /\ \A r \in Requests : r.type \in CommandTypes /\ r.id \in Todos
    /\ \A m \in Mail : Route(m[2]) \in Requests \cup {NoData}
    /\ InitDb = [todos |-> [t \in Todos |-> InitDb.todos[t]],
                  journal |-> [i \in Ids |-> 0], changes |-> {}]
    /\ \A t \in Todos : InitDb.todos[t] = NoTodo \/ IsTodo(InitDb.todos[t])

VARIABLES
    http,     \* per caller: the request being served
    inbox     \* the status column of inbox_messages

todoVars == <<http, inbox>>

(* journal: how many rows of outbox_messages each event has led to.        *)
(* changes: history, the row that a statement for a command returned.      *)
EmptyDb == [todos |-> [t \in Todos |-> NoTodo], journal |-> [i \in Ids |-> 0],
            changes |-> {}]

(* What a command does not set is none of its business: title and due are  *)
(* NoTodo then.                                                            *)
Command(type, id, title, due) == [type |-> type, id |-> id, title |-> title, due |-> due]

EventType(type) ==
    CASE type = "CreateTodo"    -> "TodoCreated"
      [] type = "UpdateTodo"    -> "TodoUpdated"
      [] type = "CompleteTodo"  -> "TodoCompleted"
      [] type = "ReopenTodo"    -> "TodoReopened"
      [] type = "UpdateDueDate" -> "TodoDueDateChanged"
      [] type = "DeleteTodo"    -> "TodoDeleted"

Event(c, todo) == [type |-> EventType(c.type), id |-> c.id, todo |-> todo]

-----------------------------------------------------------------------------
(* The handlers.                                                           *)
Returns(d, event) ==
    [db |-> d, then |-> "ok", memory |-> NoMemory, events |-> <<event>>, error |-> NoError]
Refuses(d, reason) ==
    [db |-> d, then |-> "error", memory |-> NoMemory, events |-> <<>>, error |-> reason]

Writes(d, c, row, returned) ==
    [d EXCEPT !.todos[c.id] = row, !.changes = @ \cup {<<c, returned>>}]

(* A title is checked by the handler: a blank one is tried MaxAttempts     *)
(* times like any failure.  So is an id that is taken.                     *)
CreateTodo(d, c) ==
    LET todo == [title |-> c.title, completed |-> FALSE, due |-> c.due] IN
    IF c.title = Blank THEN Refuses(d, "validation failed")
    ELSE IF d.todos[c.id] # NoTodo THEN Refuses(d, StorageError)
    ELSE Returns(Writes(d, c, todo, todo), Event(c, todo))

(* UPDATE ... RETURNING: the event shows the row this statement wrote.     *)
Changes(d, c, todo) ==
    IF d.todos[c.id] = NoTodo THEN Refuses(d, "todo not found")
    ELSE Returns(Writes(d, c, todo, todo), Event(c, todo))

UpdateTodo(d, c) ==
    IF c.title = Blank THEN Refuses(d, "validation failed")
    ELSE Changes(d, c, [d.todos[c.id] EXCEPT !.title = c.title])

CompleteTodo(d, c) == Changes(d, c, [d.todos[c.id] EXCEPT !.completed = TRUE])
ReopenTodo(d, c) == Changes(d, c, [d.todos[c.id] EXCEPT !.completed = FALSE])
UpdateDueDate(d, c) == Changes(d, c, [d.todos[c.id] EXCEPT !.due = c.due])

DeleteTodo(d, c) ==
    IF d.todos[c.id] = NoTodo THEN Refuses(d, "todo not found")
    ELSE Returns(Writes(d, c, NoTodo, d.todos[c.id]), Event(c, d.todos[c.id]))

(* Mutated form: the row is updated, then read back for the event.         *)
HandleReadingBack(d, c, m) ==
    IF m # NoMemory
    THEN IF d.todos[c.id] = NoTodo THEN Refuses(d, "todo not found")
         ELSE Returns(d, Event(c, d.todos[c.id]))
    ELSE LET r == CASE c.type = "CreateTodo"    -> CreateTodo(d, c)
                    [] c.type = "UpdateTodo"    -> UpdateTodo(d, c)
                    [] c.type = "CompleteTodo"  -> CompleteTodo(d, c)
                    [] c.type = "ReopenTodo"    -> ReopenTodo(d, c)
                    [] c.type = "UpdateDueDate" -> UpdateDueDate(d, c)
                    [] c.type = "DeleteTodo"    -> DeleteTodo(d, c)
         IN  IF r.then = "ok" THEN [r EXCEPT !.then = "more", !.memory = "changed"] ELSE r

Handle(d, c, m) ==
    CASE c.type = "CreateTodo"    -> CreateTodo(d, c)
      [] c.type = "UpdateTodo"    -> UpdateTodo(d, c)
      [] c.type = "CompleteTodo"  -> CompleteTodo(d, c)
      [] c.type = "ReopenTodo"    -> ReopenTodo(d, c)
      [] c.type = "UpdateDueDate" -> UpdateDueDate(d, c)
      [] c.type = "DeleteTodo"    -> DeleteTodo(d, c)

(* One subscriber for each event: a journal row with an id of its own,     *)
(* another one for every delivery.                                         *)
Listeners(e) == 1

Receive(d, id, e, k) ==
    [db |-> [d EXCEPT !.journal[id] = @ + 1], error |-> NoError, command |-> NoData]

-----------------------------------------------------------------------------
(* The endpoints, and the command each of them makes of its request.       *)
CreateTodoRequest(id, title, due) == Command("CreateTodo", id, title, due)
UpdateTodoRequest(id, title) == Command("UpdateTodo", id, title, NoTodo)
CompleteTodoRequest(id) == Command("CompleteTodo", id, NoTodo, NoTodo)
ReopenTodoRequest(id) == Command("ReopenTodo", id, NoTodo, NoTodo)
UpdateDueDateRequest(id, due) == Command("UpdateDueDate", id, NoTodo, due)
DeleteTodoRequest(id) == Command("DeleteTodo", id, NoTodo, NoTodo)

Interpret(reason) ==
    CASE reason = "todo not found"    -> 404
      [] reason = "validation failed" -> 400
      [] OTHER                        -> 500

(* The todo is fetched for the answer, a deleted one by the inbox endpoint *)
(* too; DELETE answers without.                                            *)
Found(d, r, m) ==
    CASE r.type = "DeleteTodo" /\ m = NoMessage -> 204
      [] d.todos[r.id] # NoTodo                 -> 200
      [] OTHER                                  -> 404

Serving(pc, r, m) == [pc |-> pc, request |-> r, message |-> m, status |-> 0]

Answers(c, status) ==
    http' = [http EXCEPT ![c].pc = "answered", ![c].status = status]

(* POST /todos makes the id of the todo itself, Uuid::now_v7; the sender   *)
(* of a message to the inbox endpoint has chosen it.                       *)
FreshFor(r) ==
    r.type = "CreateTodo" =>
        /\ db.todos[r.id] = NoTodo
        /\ \A c \in Callers : http[c].pc # "idle" => http[c].request.id # r.id

Request(c, r) ==
    /\ http[c].pc = "idle"
    /\ FreshFor(r)
    /\ Unused("command") # {}
    /\ LET i == FreshId("command") IN Submit(c, r, i) \/ SubmitFails(c, r, i)
    /\ http' = [http EXCEPT ![c] = Serving("dispatching", r, NoMessage)]
    /\ UNCHANGED inbox

Receipt(c, r, m) ==
    /\ http[c].pc = "idle"
    /\ IF inbox[m] = "none"
       THEN /\ inbox' = [inbox EXCEPT ![m] = "received"]
            /\ http' = [http EXCEPT ![c] = Serving("received", r, m)]
       ELSE /\ http' = [http EXCEPT ![c] = [Serving("answered", r, m) EXCEPT !.status = 409]]
            /\ UNCHANGED inbox
    /\ UNCHANGED vars

(* The message's id is the command's: the sender may have chosen one that  *)
(* some command has.                                                       *)
DispatchInbound(c) ==
    /\ http[c].pc = "received"
    /\ \E i \in Ids :
          /\ i \in Unused("command") => i = FreshId("command")
          /\ Submit(c, http[c].request, i) \/ SubmitFails(c, http[c].request, i)
    /\ http' = [http EXCEPT ![c].pc = "dispatching"]
    /\ UNCHANGED inbox

Returned(c) ==
    /\ http[c].pc = "dispatching"
    /\ agent[c].pc = "returned"
    /\ IF http[c].message = NoMessage
       THEN UNCHANGED inbox
       ELSE inbox' = [inbox EXCEPT ![http[c].message] =
                         IF agent[c].failed THEN "failed" ELSE "processed"]
    /\ IF agent[c].failed THEN Answers(c, Interpret(error[c]))
       ELSE http' = [http EXCEPT ![c].pc = "reading"]
    /\ UNCHANGED vars

Answer(c) ==
    /\ http[c].pc = "reading"
    /\ Answers(c, Found(db, http[c].request, http[c].message))
    /\ UNCHANGED <<vars, inbox>>

(* A database error at a statement of the endpoint's own.                  *)
StatementFails(c) ==
    /\ Fault
    /\ \/ /\ http[c].pc = "idle"
          /\ \E r \in Inbound, m \in Messages :
                /\ inbox[m] = "none"
                /\ inbox' = [inbox EXCEPT ![m] = "received"] \/ UNCHANGED inbox
                /\ http' = [http EXCEPT ![c] =
                               [Serving("answered", r, m) EXCEPT !.status = 500]]
       \/ /\ \/ http[c].pc = "reading"
             \/ /\ http[c].pc = "dispatching" /\ agent[c].pc = "returned"
                /\ http[c].message # NoMessage
          /\ Answers(c, 500)
          /\ UNCHANGED inbox
    /\ UNCHANGED <<db, memory, error, rows, agent, heard, claims>>

TodoInit ==
    /\ Init
    /\ http = [c \in Callers |-> Serving("idle", NoRequest, NoMessage)]
    /\ inbox = [m \in Messages |-> "none"]

Endpoint(c) ==
    \/ \E r \in Plain : Request(c, r)
    \/ \E r \in Inbound, m \in Messages : Receipt(c, r, m)
    \/ DispatchInbound(c)
    \/ Returned(c)
    \/ Answer(c)
    \/ StatementFails(c)

TodoNext ==
    \/ \E c \in Callers : Endpoint(c)
    \/ KernelStep /\ UNCHANGED todoVars

TodoSpec == TodoInit /\ [][TodoNext]_<<vars, todoVars>>
TodoFairSpec == TodoSpec /\ Fairness

-----------------------------------------------------------------------------
(* Properties.                                                             *)

(* The kernel's tables, the requests in hand and the status of a received  *)
(* message have their types: no row is ever tried beyond max_attempts, and *)
(* a message is only received, processed or failed.                        *)
TodoTypeOK ==
    /\ TypeOK
    /\ inbox \in [Messages -> {"none", "received", "processed", "failed"}]
    /\ http \in [Callers ->
         [pc : {"idle", "received", "dispatching", "reading", "answered"},
          request : Requests \cup {NoRequest}, message : Messages \cup {NoMessage},
          status : {0, 200, 204, 400, 404, 409, 500}]]

(* An event shows the todo as the change of its own command left it, or as *)
(* its deletion found it, whatever other commands for the same todo run    *)
(* between the change and the event: what the command sets is as the       *)
(* command says, and the rest is what its statement returned.              *)
Shows(c, todo) ==
    /\ c.type \in {"CreateTodo", "UpdateTodo"} => todo.title = c.title
    /\ c.type \in {"CreateTodo", "UpdateDueDate"} => todo.due = c.due
    /\ c.type \in {"CreateTodo", "ReopenTodo"} => ~ todo.completed
    /\ c.type = "CompleteTodo" => todo.completed

Tells(e, c) ==
    /\ e = Event(c, e.todo)
    /\ Shows(c, e.todo)
    /\ <<c, e.todo>> \in db.changes

AnnouncedAsMade ==
    \A i \in Ids : rows["event"][i].status # "none" =>
        /\ rows["event"][i].by[1] = "command"
        /\ Tells(rows["event"][i].data, rows["command"][rows["event"][i].by[2]].data)

(* The journal has every completed event, and no event more often than it  *)
(* was delivered: the journal has no key that would tell a retry.          *)
JournalCoversDone ==
    \A i \in Ids :
        /\ rows["event"][i].status = "done" => db.journal[i] > 0
        /\ db.journal[i] <= rows["event"][i].attempts
=============================================================================
