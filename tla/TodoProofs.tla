----------------------------- MODULE TodoProofs -----------------------------
(***************************************************************************)
(* Theorems about the Todo application, for any todos, requests, messages, *)
(* callers, workers, retries and faults.  Its type invariant holds for any *)
(* handlers; what its events and its journal promise is a promise of its   *)
(* own handlers, so there the kernel is taken to run those (Wired).        *)
(***************************************************************************)
EXTENDS Todo, KernelProofs

(***************************************************************************)
(* The requests and the received messages.                                 *)
(***************************************************************************)
HttpPC == {"idle", "received", "dispatching", "reading", "answered"}
Statuses == {0, 200, 204, 400, 404, 409, 500}
Marks == {"none", "received", "processed", "failed"}

Http == [pc : HttpPC, request : Requests \cup {NoRequest},
         message : Messages \cup {NoMessage}, status : Statuses]

EndpointType == inbox \in [Messages -> Marks] /\ http \in [Callers -> Http]

(* A message between its receipt and its dispatch names what it carries.   *)
ReceivedInv ==
    \A c \in Callers : http[c].pc = "received" => http[c].request \in Requests

ServiceInv == EndpointType /\ ReceivedInv

(* The endpoint's own step: the queues and the tables are left alone.      *)
Aside == UNCHANGED <<db, memory, rows, agent, heard, claims>> /\ faults' \in Nat

LEMMA ServingType ==
    ASSUME NEW r \in Requests, NEW m \in Messages \cup {NoMessage}
    PROVE  \A pc \in HttpPC : /\ Serving(pc, r, m) \in Http
                              /\ Serving(pc, r, m).pc = pc
                              /\ Serving(pc, r, m).request = r
  BY DEF Serving, Http, HttpPC, Statuses

(* A request moves on, or is answered.                                     *)
LEMMA HttpMoves ==
    ASSUME ServiceInv, NEW c \in Callers, NEW x \in Http,
           http' = [http EXCEPT ![c] = x],
           x.pc = "received" => x.request \in Requests
    PROVE  http' \in [Callers -> Http] /\ ReceivedInv'
  BY DEF ServiceInv, EndpointType, ReceivedInv

LEMMA PcMovesOn ==
    ASSUME ServiceInv, NEW c \in Callers, NEW pc \in HttpPC \ {"received"},
           http' = [http EXCEPT ![c].pc = pc]
    PROVE  http' \in [Callers -> Http] /\ ReceivedInv'
  <1>1. [http[c] EXCEPT !.pc = pc] \in Http /\ [http[c] EXCEPT !.pc = pc].pc = pc
    BY DEF ServiceInv, EndpointType, Http
  <1>2. http' = [http EXCEPT ![c] = [http[c] EXCEPT !.pc = pc]]
    OBVIOUS
  <1> QED
    BY <1>1, <1>2 DEF ServiceInv, EndpointType, ReceivedInv

LEMMA AnswersMoves ==
    ASSUME ServiceInv, NEW c \in Callers, NEW s \in Statuses, Answers(c, s)
    PROVE  http' \in [Callers -> Http] /\ ReceivedInv'
  <1>1. PICK x \in Http : x = http[c]
    BY DEF ServiceInv, EndpointType
  <1>2. [x EXCEPT !.pc = "answered", !.status = s] \in Http
    BY DEF Http, HttpPC
  <1>3. [x EXCEPT !.pc = "answered", !.status = s].pc = "answered"
    BY DEF Http
  <1>4. http' = [http EXCEPT ![c] = [x EXCEPT !.pc = "answered", !.status = s]]
    BY <1>1 DEF Answers
  <1> QED
    BY <1>2, <1>3, <1>4 DEF ServiceInv, EndpointType, ReceivedInv

LEMMA StatusType ==
    /\ \A reason : Interpret(reason) \in Statuses
    /\ \A d, r, m : Found(d, r, m) \in Statuses
  BY DEF Interpret, Found, Statuses

-----------------------------------------------------------------------------
(***************************************************************************)
(* One lemma per step of an endpoint: it is a step of the kernel or one    *)
(* aside, and the requests keep their types.                               *)
(***************************************************************************)
Served == ([Next]_vars \/ Aside) /\ ServiceInv'

LEMMA AsideType ==
    ASSUME Inv
    PROVE  /\ UNCHANGED vars => Aside
           /\ Fault /\ UNCHANGED <<db, memory, error, rows, agent, heard, claims>> => Aside
  BY FaultType DEF Aside, vars, Inv, CoreType

LEMMA SubmitNext ==
    ASSUME NEW c \in Callers, NEW r \in Requests, NEW i \in Ids,
           i \in Unused("command") => i = FreshId("command"),
           Submit(c, r, i) \/ SubmitFails(c, r, i)
    PROVE  Next
  BY DEF Next

LEMMA RequestStep ==
    ASSUME Inv, ServiceInv, NEW c \in Callers, NEW r \in Plain, Request(c, r)
    PROVE  Served
  <1>1. r \in Requests
    BY TodoAssumption DEF TodoAssumption
  <1>2. http' \in [Callers -> Http] /\ ReceivedInv'
    <2> DEFINE y == Serving("dispatching", r, NoMessage)
    <2>1. y \in Http /\ y.pc = "dispatching"
      BY <1>1, ServingType DEF HttpPC
    <2>2. http' = [http EXCEPT ![c] = y]
      BY DEF Request
    <2> HIDE DEF y
    <2> QED
      BY <2>1, <2>2, HttpMoves
  <1>3. Next
    <2>1. PICK i \in Unused("command") :
             /\ i = FreshId("command")
             /\ Submit(c, r, i) \/ SubmitFails(c, r, i)
      BY DEF Request, FreshId
    <2> QED
      BY <1>1, <2>1, SubmitNext DEF Unused
  <1> QED
    BY <1>2, <1>3 DEF Request, Served, ServiceInv, EndpointType

LEMMA ReceiptStep ==
    ASSUME Inv, ServiceInv, NEW c \in Callers, NEW r \in Inbound, NEW m \in Messages,
           Receipt(c, r, m)
    PROVE  Served
  <1>1. r \in Requests
    BY TodoAssumption DEF TodoAssumption
  <1>2. Aside
    BY AsideType DEF Receipt
  <1>3. CASE inbox[m] = "none"
    <2>1. http' \in [Callers -> Http] /\ ReceivedInv'
      <3> DEFINE y == Serving("received", r, m)
      <3>1. y \in Http /\ y.request = r
        BY <1>1, ServingType DEF HttpPC
      <3>2. http' = [http EXCEPT ![c] = y]
        BY <1>3 DEF Receipt
      <3> HIDE DEF y
      <3> QED
        BY <1>1, <3>1, <3>2, HttpMoves
    <2>2. inbox' \in [Messages -> Marks]
      BY <1>3 DEF Receipt, ServiceInv, EndpointType, Marks
    <2> QED
      BY <1>2, <2>1, <2>2 DEF Served, ServiceInv, EndpointType
  <1>4. CASE inbox[m] # "none"
    <2>1. http' \in [Callers -> Http] /\ ReceivedInv'
      <3> DEFINE y == [Serving("answered", r, m) EXCEPT !.status = 409]
      <3>1. y \in Http /\ y.pc = "answered"
        BY <1>1 DEF Serving, Http, HttpPC, Statuses
      <3> HIDE DEF y
      <3>2. http' = [http EXCEPT ![c] = y]
        BY <1>4 DEF Receipt, y
      <3> QED
        BY <3>1, <3>2, HttpMoves
    <2> QED
      BY <1>2, <1>4, <2>1 DEF Receipt, Served, ServiceInv, EndpointType
  <1> QED
    BY <1>3, <1>4

LEMMA DispatchInboundStep ==
    ASSUME Inv, ServiceInv, NEW c \in Callers, DispatchInbound(c)
    PROVE  Served
  <1>1. http[c].request \in Requests
    BY DEF DispatchInbound, ServiceInv, ReceivedInv
  <1>2. http' \in [Callers -> Http] /\ ReceivedInv'
    BY PcMovesOn DEF DispatchInbound, HttpPC
  <1>3. Next
    <2>1. PICK i \in Ids :
             /\ i \in Unused("command") => i = FreshId("command")
             /\ Submit(c, http[c].request, i) \/ SubmitFails(c, http[c].request, i)
      BY DEF DispatchInbound
    <2> QED
      BY <1>1, <2>1, SubmitNext
  <1> QED
    BY <1>2, <1>3 DEF DispatchInbound, Served, ServiceInv, EndpointType

LEMMA ReturnedStep ==
    ASSUME Inv, ServiceInv, NEW c \in Callers, Returned(c)
    PROVE  Served
  <1>1. Aside
    BY AsideType DEF Returned
  <1>2. inbox' \in [Messages -> Marks]
    BY DEF Returned, ServiceInv, EndpointType, Marks
  <1>3. http' \in [Callers -> Http] /\ ReceivedInv'
    <2>1. CASE Answers(c, Interpret(error[c]))
      BY <2>1, AnswersMoves, StatusType
    <2>2. CASE http' = [http EXCEPT ![c].pc = "reading"]
      BY <2>2, PcMovesOn DEF HttpPC
    <2> QED
      BY <2>1, <2>2 DEF Returned
  <1> QED
    BY <1>1, <1>2, <1>3 DEF Served, ServiceInv, EndpointType

LEMMA AnswerStep ==
    ASSUME Inv, ServiceInv, NEW c \in Callers, Answer(c)
    PROVE  Served
  <1>1. Aside
    BY AsideType DEF Answer
  <1>2. http' \in [Callers -> Http] /\ ReceivedInv'
    BY AnswersMoves, StatusType DEF Answer
  <1> QED
    BY <1>1, <1>2 DEF Answer, Served, ServiceInv, EndpointType

LEMMA StatementFailsStep ==
    ASSUME Inv, ServiceInv, NEW c \in Callers, StatementFails(c)
    PROVE  Served
  <1>1. Aside
    BY AsideType DEF StatementFails
  <1>2. CASE Answers(c, 500) /\ UNCHANGED inbox
    <2>1. http' \in [Callers -> Http] /\ ReceivedInv'
      BY <1>2, AnswersMoves DEF Statuses
    <2> QED
      BY <1>1, <1>2, <2>1 DEF Served, ServiceInv, EndpointType
  <1>3. ASSUME NEW r \in Inbound, NEW m \in Messages,
               inbox' = [inbox EXCEPT ![m] = "received"] \/ UNCHANGED inbox,
               http' = [http EXCEPT ![c] =
                           [Serving("answered", r, m) EXCEPT !.status = 500]]
        PROVE  Served
    <2>1. r \in Requests
      BY TodoAssumption DEF TodoAssumption
    <2>2. http' \in [Callers -> Http] /\ ReceivedInv'
      <3> DEFINE y == [Serving("answered", r, m) EXCEPT !.status = 500]
      <3>1. y \in Http /\ y.pc = "answered"
        BY <2>1 DEF Serving, Http, HttpPC, Statuses
      <3> HIDE DEF y
      <3>2. http' = [http EXCEPT ![c] = y]
        BY <1>3 DEF y
      <3> QED
        BY <3>1, <3>2, HttpMoves
    <2>3. inbox' \in [Messages -> Marks]
      BY <1>3 DEF ServiceInv, EndpointType, Marks
    <2> QED
      BY <1>1, <2>2, <2>3 DEF Served, ServiceInv, EndpointType
  <1> QED
    BY <1>2, <1>3 DEF StatementFails

LEMMA TodoStep ==
    ASSUME Inv, ServiceInv, [TodoNext]_<<vars, todoVars>>
    PROVE  Served
  <1>1. ASSUME NEW c \in Callers, Endpoint(c) PROVE Served
    BY <1>1, RequestStep, ReceiptStep, DispatchInboundStep, ReturnedStep,
       AnswerStep, StatementFailsStep DEF Endpoint
  <1>2. ASSUME UNCHANGED todoVars, [Next]_vars PROVE Served
    BY <1>2 DEF Served, ServiceInv, EndpointType, ReceivedInv, todoVars
  <1>3. KernelStep => Next
    BY DEF Next
  <1> QED
    BY <1>1, <1>2, <1>3 DEF TodoNext

LEMMA TodoInitInv == TodoInit => Inv /\ LockInv /\ ServiceInv
  <1> SUFFICES ASSUME TodoInit PROVE Inv /\ LockInv /\ ServiceInv
    OBVIOUS
  <1>1. Inv /\ LockInv
    BY InitInv, InitLocks DEF TodoInit
  <1>2. Serving("idle", NoRequest, NoMessage) \in Http
    BY DEF Serving, Http, HttpPC, Statuses
  <1>3. Serving("idle", NoRequest, NoMessage).pc = "idle"
    BY DEF Serving
  <1> QED
    BY <1>1, <1>2, <1>3 DEF TodoInit, ServiceInv, EndpointType, ReceivedInv, Marks

LEMMA ServedInv ==
    ASSUME Inv, LockInv, Served
    PROVE  Inv' /\ LockInv' /\ ServiceInv'
  <1>1. CASE [Next]_vars
    BY <1>1, NextInv DEF Served
  <1>2. CASE Aside
    <2>1. FaultOnly /\ UNCHANGED <<rows, agent, locks, dropped, crowded>>
      BY <1>2 DEF Aside, FaultOnly, claims
    <2> QED
      BY <2>1, FaultOnlyInv DEF Served, LockInv, Leasable
  <1> QED
    BY <1>1, <1>2 DEF Served

(* The kernel's invariant and the endpoints' hold together, whatever the   *)
(* handlers do: every step of the service is one of the kernel or Aside.   *)
THEOREM TodoInvariance == TodoSpec => [](Inv /\ LockInv /\ ServiceInv)
  <1>1. Inv /\ LockInv /\ ServiceInv /\ [TodoNext]_<<vars, todoVars>> =>
           Inv' /\ LockInv' /\ ServiceInv'
    BY TodoStep, ServedInv
  <1> QED
    BY <1>1, TodoInitInv, PTL DEF TodoSpec

(* The application's state keeps its type: a received message is only      *)
(* received, processed or failed, and every answer has a status the        *)
(* endpoints may give.                                                     *)
THEOREM TodoTypeCorrect == TodoSpec => []TodoTypeOK
  <1>1. Inv /\ LockInv /\ ServiceInv => TodoTypeOK
    BY DEF Inv, LockInv, CoreType, TypeOK, ServiceInv, EndpointType, TodoTypeOK,
           Http, HttpPC, Statuses, Marks
  <1> QED
    BY <1>1, TodoInvariance, PTL

(* The kernel's promises hold behind these endpoints: no part of the work  *)
(* done under a lease is recorded twice.                                   *)
THEOREM TodoCausesAreUnique == TodoSpec => []CauseUnique
  <1>1. Inv => CauseUnique
    BY DEF Inv
  <1> QED
    BY <1>1, TodoInvariance, PTL

(* And a message an inbox consumer completed is a command on record.       *)
THEOREM TodoMessagesAreCommands == TodoSpec => []MessageBecomesCommand
  <1>1. Inv => MessageBecomesCommand
    BY DEF Inv
  <1> QED
    BY <1>1, TodoInvariance, PTL

(* Behind the endpoints, too, a dispatch_command that returned Ok had its  *)
(* command tried, or was crowded out, or lost it to a reservation that is  *)
(* open or broke off: also when the id its sender chose was taken.         *)
THEOREM TodoOkCommandsAreTaken == TodoSpec => []OkMeansTaken
  <1>1. CASE ClocksAgree /\ Rounds > 0
    <2>1. ASSUME TodoInit PROVE CallInv
      <3> SUFFICES ASSUME NEW c \in Callers PROVE Call(c)
        BY DEF CallInv
      <3>1. agent[c] = IdleOn("command")
        BY <2>1, KernelAssumption
           DEF TodoInit, Init, Agents, HomeQueue, KernelAssumption, Workers
      <3> QED
        BY <3>1 DEF Call, IdleOn
    <2>2. ASSUME Inv, LockInv, ServiceInv, CallInv, [TodoNext]_<<vars, todoVars>>
          PROVE  CallInv'
      <3>1. Inv' /\ Served
        BY <2>2, TodoStep, ServedInv
      <3>2. CASE [Next]_vars
        BY <1>1, <2>2, <3>1, <3>2, NextCalls
      <3>3. CASE Aside
        <4>1. UNCHANGED <<rows, agent, locks, dropped, crowded>>
          BY <3>3 DEF Aside, claims
        <4>2. Grown
          BY <2>2, <4>1, SameTable DEF TableOK
        <4>3. Upholds
          BY <2>2, <3>1, <4>1, <4>2, LocksUphold
        <4> QED
          BY <2>2, <4>1, <4>3, SameCalls
      <3> QED
        BY <3>1, <3>2, <3>3 DEF Served
    <2>3. CallInv => OkMeansTaken
      BY DEF CallInv, Call, Taken, OkMeansTaken
    <2> QED
      BY <2>1, <2>2, <2>3, TodoInvariance, PTL DEF TodoSpec
  <1>2. CASE ~ (ClocksAgree /\ Rounds > 0)
    <2>1. OkMeansTaken
      BY <1>2 DEF OkMeansTaken
    <2> QED
      BY <2>1, PTL
  <1> QED
    BY <1>1, <1>2

-----------------------------------------------------------------------------
(***************************************************************************)
(* The application's own handlers: what the kernel runs here.              *)
(***************************************************************************)
Wired ==
    /\ \A d, c, m : Execute(d, c, m) = Handle(d, c, m)
    /\ \A d, id, e, k : Deliver(d, id, e, k) = Receive(d, id, e, k)
    /\ \A e : Subscribers(e) = Listeners(e)

(***************************************************************************)
(* What is on record is the application's own: a command was asked for,    *)
(* and an event announces a change that was made for its command, from the *)
(* moment its handler has returned it.  The journal has one row for each   *)
(* lease an event was heard under.                                         *)
(***************************************************************************)
(* The event e tells of the command c what was made of it.                 *)
Announces(e, c, made) ==
    /\ e = Event(c, e.todo)
    /\ Shows(c, e.todo)
    /\ <<c, e.todo>> \in made

(* The tables of the application, but for the journal's count.             *)
TablesOf(d, journal, made) ==
    /\ d = [todos |-> [t \in Todos |-> d.todos[t]], journal |-> journal,
            changes |-> made]
    /\ \A t \in Todos : d.todos[t] = NoTodo \/ IsTodo(d.todos[t])

DbInv == TablesOf(db, [i \in Ids |-> db.journal[i]], db.changes)

CommandsInv == \A i \in Ids : rows["command"][i].data \in Requests \cup {NoData}

(* The event of a row, and the events an agent has yet to hand off.        *)
Announced(i) ==
    /\ rows["event"][i].status # "none"
    /\ rows["event"][i].by[1] = "command"
    /\ \E n \in Ids :
          /\ n = rows["event"][i].by[2]
          /\ rows["command"][n].status # "none"
          /\ Announces(rows["event"][i].data, rows["command"][n].data, db.changes)

InHand(a) ==
    \E n \in Ids :
        /\ n = agent[a].item
        /\ rows["command"][n].status # "none"
        /\ \A k \in 1 .. Len(agent[a].out) :
              Announces(agent[a].out[k], rows["command"][n].data, db.changes)

EventsInv ==
    /\ \A i \in Ids : rows["event"][i].data = NoData \/ Announced(i)
    /\ \A a \in Agents : agent[a].pc = "emitting" => InHand(a)

Hearings(i) == {l \in Nat : <<i, l, 1>> \in heard}

JournalInv == \A i \in Ids : db.journal[i] = Cardinality(Hearings(i))

FlowInv == MemoryInv /\ MailInv /\ HearInv

TodoInv == FlowInv /\ DbInv /\ CommandsInv /\ EventsInv /\ JournalInv

(***************************************************************************)
(* A handler's statement.                                                  *)
(***************************************************************************)
Says(r, c, journal, made) ==
    /\ made \subseteq r.db.changes
    /\ TablesOf(r.db, journal, r.db.changes)
    /\ r.then \in {"ok", "error"}
    /\ \A k \in 1 .. Len(r.events) : Announces(r.events[k], c, r.db.changes)

LEMMA ReturnsSays ==
    ASSUME NEW d, NEW journal, NEW made, TablesOf(d, journal, made),
           NEW c, c.id \in Todos, NEW row, row = NoTodo \/ IsTodo(row),
           NEW todo, Shows(c, todo)
    PROVE  Says(Returns(Writes(d, c, row, todo), Event(c, todo)), c, journal, made)
  <1> DEFINE x == Writes(d, c, row, todo)
             e == Event(c, todo)
             ts == [t \in Todos |-> d.todos[t]]
             us == [ts EXCEPT ![c.id] = row]
             new == made \cup {<<c, todo>>}
  <1>1. d = [todos |-> ts, journal |-> journal, changes |-> made] /\ d.todos = ts
    BY DEF TablesOf
  <1>2. \A t \in Todos : ts[t] = NoTodo \/ IsTodo(ts[t])
    BY DEF TablesOf
  <1>3. us = [t \in Todos |-> us[t]] /\ \A t \in Todos : us[t] = NoTodo \/ IsTodo(us[t])
    BY <1>2
  <1>4. x = [[d EXCEPT !.todos = us] EXCEPT !.changes = new]
    <2>1. d.changes = made
      <3> HIDE DEF ts
      <3> QED
        BY <1>1
    <2>2. [d EXCEPT !.todos[c.id] = row] = [d EXCEPT !.todos = us]
      BY <1>1
    <2> DEFINE y == [d EXCEPT !.todos = us]
    <2>3. y.changes = made
      <3>1. y = [todos |-> us, journal |-> journal, changes |-> made]
        <4> HIDE DEF us, ts
        <4> QED
          BY <1>1
      <3> HIDE DEF y
      <3> QED
        BY <3>1
    <2>4. x = [y EXCEPT !.changes = @ \cup {<<c, todo>>}]
      BY <2>2 DEF Writes
    <2> HIDE DEF y
    <2>5. x = [y EXCEPT !.changes = new]
      BY <2>3, <2>4
    <2> QED
      BY <2>5 DEF y
  <1> HIDE DEF us, ts, new
  <1>5. /\ x = [todos |-> us, journal |-> journal, changes |-> new]
        /\ x.todos = us /\ x.changes = new
    BY <1>1, <1>4
  <1>6. TablesOf(x, journal, new)
    BY <1>3, <1>5 DEF TablesOf
  <1>7. e = Event(c, e.todo) /\ e.todo = todo
    BY DEF Event
  <1>8. Announces(e, c, new)
    BY <1>7 DEF Announces, new
  <1> HIDE DEF x, e
  <1>9. /\ Returns(x, e).db = x /\ Returns(x, e).then = "ok"
        /\ Returns(x, e).events = <<e>>
    BY DEF Returns
  <1>10. \A k \in 1 .. Len(<<e>>) : Announces(<<e>>[k], c, new)
    BY <1>8
  <1>11. Says(Returns(x, e), c, journal, made)
    BY <1>5, <1>6, <1>9, <1>10 DEF Says, new
  <1> QED
    BY <1>11 DEF x, e

LEMMA RefusesSays ==
    ASSUME NEW d, NEW c, NEW journal, NEW made, TablesOf(d, journal, made), NEW reason
    PROVE  Says(Refuses(d, reason), c, journal, made)
  <1>1. d.changes = made
    <2> DEFINE ts == [t \in Todos |-> d.todos[t]]
    <2>1. d = [todos |-> ts, journal |-> journal, changes |-> made]
      BY DEF TablesOf
    <2> HIDE DEF ts
    <2> QED
      BY <2>1
  <1> QED
    BY <1>1 DEF Refuses, Says

(* What a todo becomes when one of its columns is set.                     *)
LEMMA TodoColumn ==
    ASSUME NEW x, IsTodo(x), NEW v
    PROVE  /\ IsTodo([x EXCEPT !.title = v])
           /\ IsTodo([x EXCEPT !.due = v])
           /\ IsTodo([x EXCEPT !.completed = v])
           /\ [x EXCEPT !.title = v].title = v
           /\ [x EXCEPT !.due = v].due = v
           /\ [x EXCEPT !.completed = v].completed = v
  <1> DEFINE a == x.title
             b == x.completed
             d == x.due
  <1>1. x = [title |-> a, completed |-> b, due |-> d]
    BY DEF IsTodo
  <1> HIDE DEF a, b, d
  <1>2. [x EXCEPT !.title = v] = [title |-> v, completed |-> b, due |-> d]
    BY <1>1
  <1>3. [x EXCEPT !.due = v] = [title |-> a, completed |-> b, due |-> v]
    BY <1>1
  <1>4. [x EXCEPT !.completed = v] = [title |-> a, completed |-> v, due |-> d]
    BY <1>1
  <1> QED
    BY <1>2, <1>3, <1>4 DEF IsTodo

(* An UPDATE of a row that is there.                                       *)
LEMMA ChangesSays ==
    ASSUME NEW d, NEW journal, NEW made, TablesOf(d, journal, made),
           NEW c, c.id \in Todos, NEW todo,
           d.todos[c.id] # NoTodo => IsTodo(todo) /\ Shows(c, todo)
    PROVE  Says(Changes(d, c, todo), c, journal, made)
  <1>1. CASE d.todos[c.id] = NoTodo
    BY <1>1, RefusesSays DEF Changes
  <1>2. CASE d.todos[c.id] # NoTodo
    <2>1. Says(Returns(Writes(d, c, todo, todo), Event(c, todo)), c, journal, made)
      BY <1>2, ReturnsSays
    <2> QED
      BY <1>2, <2>1 DEF Changes
  <1> QED
    BY <1>1, <1>2

LEMMA HandleSays ==
    ASSUME NEW d, NEW journal, NEW made, TablesOf(d, journal, made), NEW m,
           NEW c \in Requests
    PROVE  Says(Handle(d, c, m), c, journal, made)
  <1>1. c.type \in CommandTypes /\ c.id \in Todos
    BY TodoAssumption DEF TodoAssumption
  <1> DEFINE x == d.todos[c.id]
  <1>2. x # NoTodo => IsTodo(x)
    BY <1>1 DEF TablesOf
  <1>3. CASE c.type = "CreateTodo"
    <2> DEFINE todo == [title |-> c.title, completed |-> FALSE, due |-> c.due]
    <2>1. IsTodo(todo) /\ Shows(c, todo)
      BY <1>3 DEF IsTodo, Shows
    <2> HIDE DEF todo
    <2>2. Says(Returns(Writes(d, c, todo, todo), Event(c, todo)), c, journal, made)
      BY <1>1, <2>1, ReturnsSays
    <2>3. \/ CreateTodo(d, c) = Refuses(d, "validation failed")
          \/ CreateTodo(d, c) = Refuses(d, StorageError)
          \/ CreateTodo(d, c) = Returns(Writes(d, c, todo, todo), Event(c, todo))
      BY DEF CreateTodo, todo
    <2>4. Says(CreateTodo(d, c), c, journal, made)
      BY <2>2, <2>3, RefusesSays
    <2> QED
      BY <1>3, <2>4 DEF Handle
  <1>4. CASE c.type = "UpdateTodo"
    <2> DEFINE todo == [x EXCEPT !.title = c.title]
    <2>1. x # NoTodo => IsTodo(todo) /\ todo.title = c.title
      BY <1>2, TodoColumn
    <2> HIDE DEF todo
    <2>2. Says(Changes(d, c, todo), c, journal, made)
      BY <1>1, <1>4, <2>1, ChangesSays DEF Shows
    <2>3. \/ UpdateTodo(d, c) = Refuses(d, "validation failed")
          \/ UpdateTodo(d, c) = Changes(d, c, todo)
      BY DEF UpdateTodo, todo
    <2>4. Says(UpdateTodo(d, c), c, journal, made)
      BY <2>2, <2>3, RefusesSays
    <2> QED
      BY <1>4, <2>4 DEF Handle
  <1>5. CASE c.type = "CompleteTodo"
    <2> DEFINE todo == [x EXCEPT !.completed = TRUE]
    <2>1. x # NoTodo => IsTodo(todo) /\ todo.completed
      BY <1>2, TodoColumn
    <2> HIDE DEF todo
    <2>2. Says(Changes(d, c, todo), c, journal, made)
      BY <1>1, <1>5, <2>1, ChangesSays DEF Shows
    <2> QED
      BY <1>5, <2>2 DEF Handle, CompleteTodo, todo
  <1>6. CASE c.type = "ReopenTodo"
    <2> DEFINE todo == [x EXCEPT !.completed = FALSE]
    <2>1. x # NoTodo => IsTodo(todo) /\ ~ todo.completed
      BY <1>2, TodoColumn
    <2> HIDE DEF todo
    <2>2. Says(Changes(d, c, todo), c, journal, made)
      BY <1>1, <1>6, <2>1, ChangesSays DEF Shows
    <2> QED
      BY <1>6, <2>2 DEF Handle, ReopenTodo, todo
  <1>7. CASE c.type = "UpdateDueDate"
    <2> DEFINE todo == [x EXCEPT !.due = c.due]
    <2>1. x # NoTodo => IsTodo(todo) /\ todo.due = c.due
      BY <1>2, TodoColumn
    <2> HIDE DEF todo
    <2>2. Says(Changes(d, c, todo), c, journal, made)
      BY <1>1, <1>7, <2>1, ChangesSays DEF Shows
    <2> QED
      BY <1>7, <2>2 DEF Handle, UpdateDueDate, todo
  <1>8. CASE c.type = "DeleteTodo"
    <2> DEFINE todo == d.todos[c.id]
    <2>1. Shows(c, todo)
      BY <1>8 DEF Shows
    <2> HIDE DEF todo
    <2>2. Says(Returns(Writes(d, c, NoTodo, todo), Event(c, todo)), c, journal, made)
      BY <1>1, <2>1, ReturnsSays
    <2>3. \/ DeleteTodo(d, c) = Refuses(d, "todo not found")
          \/ DeleteTodo(d, c) = Returns(Writes(d, c, NoTodo, todo), Event(c, todo))
      BY DEF DeleteTodo, todo
    <2>4. Says(DeleteTodo(d, c), c, journal, made)
      BY <2>2, <2>3, RefusesSays
    <2> QED
      BY <1>8, <2>4 DEF Handle
  <1> QED
    BY <1>1, <1>3, <1>4, <1>5, <1>6, <1>7, <1>8 DEF CommandTypes

-----------------------------------------------------------------------------
(***************************************************************************)
(* The tables and the queues, step by step.                                *)
(***************************************************************************)
LEMMA WiredSteps ==
    ASSUME Wired, NEW a
    PROVE  /\ Outcome(a) = Handle(db, rows["command"][agent[a].item].data, memory[a])
           /\ Response(a) = Receive(db, agent[a].item, rows["event"][agent[a].item].data,
                                    agent[a].sent + 1)
  BY DEF Wired, Outcome, Response

LEMMA EventStaysAnnounced ==
    ASSUME Grown, db.changes \subseteq db'.changes, NEW i \in Ids, Announced(i)
    PROVE  Announced(i)'
  <1> PICK n \in Ids :
         /\ n = rows["event"][i].by[2]
         /\ rows["command"][n].status # "none"
         /\ Announces(rows["event"][i].data, rows["command"][n].data, db.changes)
    BY DEF Announced
  <1>1. /\ rows'["event"][i].status # "none"
        /\ rows'["event"][i].data = rows["event"][i].data
        /\ rows'["event"][i].by = rows["event"][i].by
        /\ rows'["command"][n].status # "none"
        /\ rows'["command"][n].data = rows["command"][n].data
    BY DEF Grown, Announced, Queues
  <1>2. Announces(rows["event"][i].data, rows["command"][n].data, db'.changes)
    BY DEF Announces
  <1> QED
    BY <1>1, <1>2 DEF Announced

LEMMA InHandStays ==
    ASSUME Grown, db.changes \subseteq db'.changes, NEW a \in Agents, InHand(a),
           agent'[a].item = agent[a].item, agent'[a].out = agent[a].out
    PROVE  InHand(a)'
  <1> PICK n \in Ids :
         /\ n = agent[a].item
         /\ rows["command"][n].status # "none"
         /\ \A k \in 1 .. Len(agent[a].out) :
               Announces(agent[a].out[k], rows["command"][n].data, db.changes)
    BY DEF InHand
  <1>1. /\ rows'["command"][n].status # "none"
        /\ rows'["command"][n].data = rows["command"][n].data
    BY DEF Grown, Queues
  <1>2. \A k \in 1 .. Len(agent[a].out) :
           Announces(agent[a].out[k], rows["command"][n].data, db'.changes)
    BY DEF Announces
  <1> QED
    BY <1>1, <1>2 DEF InHand

(* A step says of the events it records, and of those it comes to have in  *)
(* hand, that they announce a change; the others did.                      *)
LEMMA EventsStay ==
    ASSUME EventsInv, Grown, db.changes \subseteq db'.changes,
           \A i \in Ids : \/ rows'["event"][i].data = rows["event"][i].data
                           \/ Announced(i)',
           \A b \in Agents : agent'[b].pc = "emitting" =>
               agent'[b] = agent[b] \/ InHand(b)'
    PROVE  EventsInv'
  <1>1. ASSUME NEW i \in Ids
        PROVE  rows'["event"][i].data = NoData \/ Announced(i)'
    BY EventStaysAnnounced DEF EventsInv
  <1>2. ASSUME NEW b \in Agents, agent'[b].pc = "emitting" PROVE InHand(b)'
    <2>1. CASE agent'[b] = agent[b]
      BY <1>2, <2>1, InHandStays DEF EventsInv
    <2> QED
      BY <1>2, <2>1
  <1> QED
    BY <1>1, <1>2 DEF EventsInv

LEMMA CalmEvents ==
    ASSUME EventsInv, Grown, db.changes \subseteq db'.changes, \A b \in Agents : Coasts(b),
           \A i \in Ids : rows'["event"][i].data = rows["event"][i].data
    PROVE  EventsInv'
  BY EventsStay DEF Coasts

LEMMA CalmTodo ==
    ASSUME Inv, TodoInv, Grown, Calm
    PROVE  DbInv' /\ CommandsInv' /\ EventsInv' /\ JournalInv'
  <1>1. /\ \A i \in Ids : rows'["event"][i].data = rows["event"][i].data
        /\ \A i \in Ids : \/ rows'["command"][i].data = rows["command"][i].data
                          \/ rows'["command"][i].data \in Requests
    BY CalmData, TodoAssumption DEF TodoAssumption, TodoInv, FlowInv
  <1>2. DbInv' /\ JournalInv'
    BY DEF Calm, TodoInv, DbInv, TablesOf, JournalInv, Hearings
  <1>3. CommandsInv'
    BY <1>1 DEF TodoInv, CommandsInv
  <1>4. EventsInv'
    BY <1>1, CalmEvents DEF Calm, TodoInv
  <1> QED
    BY <1>2, <1>3, <1>4

LEMMA HandlerTodo ==
    ASSUME Inv, TodoInv, Wired, Grown, NEW a \in Agents, HandlerStep(a)
    PROVE  DbInv' /\ CommandsInv' /\ EventsInv' /\ JournalInv'
  <1>1. Handled(a)
    BY HandlerFlow DEF TodoInv, FlowInv
  <1> DEFINE c == rows["command"][agent[a].item].data
             J == [i \in Ids |-> db.journal[i]]
  <1>2. c \in Requests
    BY <1>1, KernelAssumption
       DEF Handled, TodoInv, CommandsInv, Inv, RowInv, KernelAssumption, Queues
  <1> PICK r : r = Outcome(a) /\ r = Handle(db, c, memory[a])
    BY WiredSteps
  <1> HIDE DEF c, J
  <1>3. Says(r, c, J, db.changes)
    BY <1>2, HandleSays DEF TodoInv, DbInv, J
  <1>4. db' = r.db /\ db'.journal = J /\ db.changes \subseteq db'.changes
    <2>1. db' = r.db /\ db.changes \subseteq r.db.changes
      BY <1>1, <1>3 DEF Handled, Says
    <2>2. TablesOf(r.db, J, r.db.changes)
      BY <1>3 DEF Says
    <2> DEFINE x == r.db
               ts == [t \in Todos |-> x.todos[t]]
    <2>3. x = [todos |-> ts, journal |-> J, changes |-> x.changes]
      BY <2>2 DEF TablesOf
    <2> HIDE DEF ts, x
    <2>4. x.journal = J
      BY <2>3
    <2> QED
      BY <2>1, <2>4 DEF x
  <1>5. DbInv'
    <2>1. J = [i \in Ids |-> J[i]]
      BY DEF J
    <2> QED
      BY <1>3, <1>4, <2>1 DEF DbInv, Says, TablesOf
  <1>6. JournalInv'
    BY <1>1, <1>4 DEF Handled, TodoInv, JournalInv, Hearings, J
  <1>7. CommandsInv'
    BY <1>1 DEF Handled, TodoInv, CommandsInv
  <1>8. EventsInv'
    <2>1. ASSUME agent'[a].pc = "emitting" PROVE InHand(a)'
      <3>1. agent'[a].out = r.events
        BY <1>1, <1>3, <2>1 DEF Handled, Says
      <3>2. \A k \in 1 .. Len(r.events) : Announces(r.events[k], c, db'.changes)
        BY <1>3, <1>4 DEF Says
      <3>3. PICK n \in Ids : /\ n = agent[a].item /\ agent'[a].item = n
                             /\ rows'["command"][n].status # "none"
                             /\ rows'["command"][n].data = c
        BY <1>1 DEF Handled, c
      <3> QED
        BY <3>1, <3>2, <3>3 DEF InHand
    <2>2. \A b \in Agents : agent'[b].pc = "emitting" =>
              agent'[b] = agent[b] \/ InHand(b)'
      BY <1>1, <2>1 DEF Handled, Others
    <2>3. \A i \in Ids : rows'["event"][i].data = rows["event"][i].data
      BY <1>1 DEF Handled
    <2> QED
      BY <1>4, <2>2, <2>3, EventsStay DEF TodoInv
  <1> QED
    BY <1>5, <1>6, <1>7, <1>8

LEMMA EmitTodo ==
    ASSUME Inv, TodoInv, Grown, NEW a \in Agents, Emit(a)
    PROVE  DbInv' /\ CommandsInv' /\ EventsInv' /\ JournalInv'
  <1>1. Emitted(a)
    BY EmitFlow
  <1>2. DbInv' /\ JournalInv'
    BY <1>1 DEF Emitted, TodoInv, DbInv, TablesOf, JournalInv, Hearings
  <1>3. CommandsInv'
    BY <1>1 DEF Emitted, Recorded, TodoInv, CommandsInv, Queues
  <1>4. EventsInv'
    <2> DEFINE k == agent[a].sent + 1
    <2>1. InHand(a) /\ k \in 1 .. Len(agent[a].out)
      BY <1>1 DEF Emitted, TodoInv, EventsInv
    <2>2. db' = db /\ agent'[a].item = agent[a].item /\ agent'[a].out = agent[a].out
      BY <1>1 DEF Emitted
    <2>3. InHand(a)'
      BY <2>1, <2>2, InHandStays
    <2> HIDE DEF k
    <2>4. PICK n \in Ids : /\ rows'["event"][n].status = "open"
                           /\ rows'["event"][n].data = agent[a].out[k]
                           /\ rows'["event"][n].by = Cause(a, k)
                           /\ \A i \in Ids : i # n => rows'["event"][i] = rows["event"][i]
      BY <1>1 DEF Emitted, Recorded, Queues, k
    <2>5. /\ rows'["event"][n].by[1] = "command"
          /\ rows'["event"][n].by[2] = agent[a].item
      BY <1>1, <2>4 DEF Emitted, Cause
    <2>6. PICK m \in Ids :
             /\ m = agent'[a].item
             /\ rows'["command"][m].status # "none"
             /\ \A j \in 1 .. Len(agent'[a].out) :
                   Announces(agent'[a].out[j], rows'["command"][m].data, db'.changes)
      BY <2>3 DEF InHand
    <2>7. Announced(n)'
      BY <2>1, <2>2, <2>4, <2>5, <2>6 DEF Announced
    <2>8. \A b \in Agents : agent'[b] = agent[b] \/ InHand(b)'
      BY <1>1, <2>3 DEF Emitted, Others
    <2> QED
      BY <2>2, <2>4, <2>7, <2>8, EventsStay DEF TodoInv
  <1> QED
    BY <1>2, <1>3, <1>4

(* The journal is written under a lease nobody has heard the event under.  *)
LEMMA NotifyTodo ==
    ASSUME Inv, Inv', TodoInv, Wired, Grown, NEW a \in Agents, Notify(a)
    PROVE  DbInv' /\ CommandsInv' /\ EventsInv' /\ JournalInv'
  <1>1. Notified(a)
    BY NotifyFlow DEF TodoInv, FlowInv
  <1> PICK i, l, e :
         /\ i \in Ids /\ l \in Nat
         /\ i = agent[a].item /\ l = agent[a].lease /\ e = rows["event"][i].data
    BY <1>1 DEF Notified
  <1>2. agent[a].sent = 0
    BY <1>1 DEF Notified, Wired, Listeners
  <1>3. <<i, l, 1>> \notin heard
    BY <1>2, NotifyUnheard DEF TodoInv, FlowInv
  <1>4. Response(a) = Receive(db, i, e, 1)
    BY <1>2, WiredSteps
  <1> DEFINE J == [j \in Ids |-> db.journal[j]]
             K == [J EXCEPT ![i] = @ + 1]
             ts == [t \in Todos |-> db.todos[t]]
             made == db.changes
  <1>5. /\ db' = [db EXCEPT !.journal[i] = @ + 1]
        /\ Response(a).error = NoError /\ Response(a).command \notin Data
    BY <1>1, <1>4, KernelAssumption DEF Notified, Receive, KernelAssumption
  <1>6. rows' = rows /\ heard' = heard \cup {<<i, l, 1>>}
    BY <1>1, <1>2, <1>5 DEF Notified
  <1>7. db = [todos |-> ts, journal |-> J, changes |-> made] /\ db.journal = J
    BY DEF TodoInv, DbInv, TablesOf
  <1> HIDE DEF made
  <1>8. /\ db' = [todos |-> ts, journal |-> K, changes |-> made]
        /\ db'.journal = K /\ db'.todos = ts /\ db'.changes = made
    BY <1>5, <1>7
  <1>9. DbInv'
    <2>1. K = [j \in Ids |-> K[j]] /\ ts = [t \in Todos |-> ts[t]]
      OBVIOUS
    <2>2. \A t \in Todos : ts[t] = NoTodo \/ IsTodo(ts[t])
      BY DEF TodoInv, DbInv, TablesOf
    <2> HIDE DEF K, ts
    <2> QED
      BY <1>8, <2>1, <2>2 DEF DbInv, TablesOf
  <1>10. JournalInv'
    <2>1. ASSUME NEW j \in Ids, j # i PROVE K[j] = Cardinality(Hearings(j)')
      <3>1. Hearings(j)' = Hearings(j)
        BY <1>6, <2>1 DEF Hearings
      <3> QED
        BY <2>1, <3>1 DEF TodoInv, JournalInv
    <2>2. K[i] = Cardinality(Hearings(i)')
      <3>1. Hearings(i)' = Hearings(i) \cup {l} /\ l \notin Hearings(i)
        BY <1>3, <1>6 DEF Hearings
      <3>2. Hearings(i) \subseteq 1 .. MaxAttempts
        <4>1. ASSUME NEW n \in Hearings(i) PROVE n \in 1 .. MaxAttempts
          <5>1. n \in 1 .. rows["event"][i].attempts
            BY DEF Hearings, TodoInv, FlowInv, HearInv, HeardBound
          <5>2. rows["event"][i].attempts \in 0 .. MaxAttempts
            BY DEF Inv, CoreType, Row, Queues
          <5> QED
            BY <5>1, <5>2, KernelAssumption DEF KernelAssumption
        <4> QED
          BY <4>1
      <3>3. IsFiniteSet(Hearings(i))
        <4>1. 1 \in Int /\ MaxAttempts \in Int
          BY KernelAssumption DEF KernelAssumption
        <4>2. IsFiniteSet(1 .. MaxAttempts)
          BY <4>1, FS_Interval
        <4> QED
          BY <3>2, <4>2, FS_Subset
      <3>4. Cardinality(Hearings(i)') = Cardinality(Hearings(i)) + 1
        BY <3>1, <3>3, FS_AddElement
      <3> QED
        BY <3>4 DEF TodoInv, JournalInv
    <2> HIDE DEF K
    <2> QED
      BY <1>8, <2>1, <2>2 DEF JournalInv
  <1>11. CommandsInv'
    BY <1>6 DEF TodoInv, CommandsInv
  <1>12. EventsInv'
    <2>1. \A b \in Agents : Coasts(b)
      BY <1>1, OthersSteady DEF Notified
    <2> QED
      BY <1>6, <1>8, <2>1, CalmEvents DEF TodoInv, made
  <1> QED
    BY <1>9, <1>10, <1>11, <1>12

LEMMA TodoNextInv ==
    ASSUME Inv, LockInv, ServiceInv, TodoInv, Wired, [TodoNext]_<<vars, todoVars>>
    PROVE  Inv' /\ LockInv' /\ ServiceInv' /\ TodoInv'
  <1>1. Served
    BY TodoStep
  <1>2. Inv' /\ LockInv' /\ ServiceInv'
    BY <1>1, ServedInv
  <1>3. CASE Aside
    <2>1. Calm /\ Grown
      BY <1>3, StillCalm, SameTable DEF Aside, TodoInv, FlowInv, TableOK
    <2>2. DbInv' /\ CommandsInv' /\ EventsInv' /\ JournalInv'
      BY <2>1, CalmTodo
    <2>3. MemoryInv' /\ MailInv' /\ HearInv'
      BY <1>3 DEF Aside, TodoInv, FlowInv, MemoryInv, MailInv, HearInv, HeardBound,
                  Unheard, Leases
    <2> QED
      BY <1>2, <2>2, <2>3 DEF TodoInv, FlowInv
  <1>4. CASE [Next]_vars
    <2>1. MemoryInv' /\ MailInv' /\ HearInv' /\ Grown
      BY <1>2, <1>4, MemoryNext, MailNext, HearNext, NextGrown DEF TodoInv, FlowInv
    <2>2. DbInv' /\ CommandsInv' /\ EventsInv' /\ JournalInv'
      BY <1>2, <1>4, <2>1, Flow, CalmTodo, HandlerTodo, EmitTodo, NotifyTodo
         DEF TodoInv, FlowInv
    <2> QED
      BY <1>2, <2>1, <2>2 DEF TodoInv, FlowInv
  <1> QED
    BY <1>1, <1>3, <1>4 DEF Served

LEMMA TodoInitTables == TodoInit => TodoInv
  <1> SUFFICES ASSUME TodoInit PROVE TodoInv
    OBVIOUS
  <1>1. MemoryInv /\ MailInv /\ HearInv
    BY MailInit, HearInit DEF TodoInit, Init, MemoryInv
  <1> DEFINE ts == [t \in Todos |-> InitDb.todos[t]]
             J == [i \in Ids |-> 0]
  <1>2. /\ db = [todos |-> ts, journal |-> J, changes |-> {}]
        /\ db.todos = ts /\ db.journal = J /\ db.changes = {}
    <2>1. db = [todos |-> ts, journal |-> J, changes |-> {}]
      BY TodoAssumption DEF TodoInit, Init, TodoAssumption
    <2> HIDE DEF ts, J
    <2> QED
      BY <2>1
  <1>3. \A t \in Todos : ts[t] = NoTodo \/ IsTodo(ts[t])
    BY TodoAssumption DEF TodoAssumption
  <1>4. DbInv
    <2>1. ts = [t \in Todos |-> ts[t]] /\ J = [i \in Ids |-> J[i]]
      OBVIOUS
    <2> HIDE DEF ts, J
    <2> QED
      BY <1>2, <1>3, <2>1 DEF DbInv, TablesOf
  <1>5. \A i \in Ids : Hearings(i) = {}
    BY DEF TodoInit, Init, Hearings
  <1>6. JournalInv
    BY <1>2, <1>5, FS_EmptySet DEF JournalInv
  <1>7. CommandsInv /\ EventsInv
    BY DEF TodoInit, Init, CommandsInv, EventsInv, NoRow, Queues, IdleOn
  <1> QED
    BY <1>1, <1>4, <1>6, <1>7 DEF TodoInv, FlowInv

(* With the application's own handlers in the kernel, what its tables,     *)
(* events and commands say stays true of one another.                      *)
THEOREM TodoTables ==
    ASSUME Wired
    PROVE  TodoSpec => [](Inv /\ LockInv /\ ServiceInv /\ TodoInv)
  <1>1. TodoInit => Inv /\ LockInv /\ ServiceInv /\ TodoInv
    BY TodoInitInv, TodoInitTables
  <1>2. Inv /\ LockInv /\ ServiceInv /\ TodoInv /\ [TodoNext]_<<vars, todoVars>> =>
           Inv' /\ LockInv' /\ ServiceInv' /\ TodoInv'
    BY TodoNextInv
  <1> QED
    BY <1>1, <1>2, PTL DEF TodoSpec

(* An event of any of the six types names its command's todo and shows it  *)
(* as the change of that very command left it, or as its deletion found    *)
(* it: title, due date and flag, with any number of commands for the same  *)
(* todo in flight, retried or raced.                                       *)
THEOREM EventsTellTheTruth == ASSUME Wired PROVE TodoSpec => []AnnouncedAsMade
  <1>1. ASSUME Inv, TodoInv, NEW i \in Ids, rows["event"][i].status # "none"
        PROVE  /\ rows["event"][i].by[1] = "command"
               /\ Tells(rows["event"][i].data,
                        rows["command"][rows["event"][i].by[2]].data)
    <2>1. rows["event"][i].data # NoData
      BY <1>1, KernelAssumption DEF Inv, RowInv, Queues, KernelAssumption
    <2> QED
      BY <1>1, <2>1 DEF TodoInv, EventsInv, Announced, Announces, Tells
  <1>2. Inv /\ TodoInv => AnnouncedAsMade
    BY <1>1 DEF AnnouncedAsMade
  <1> QED
    BY <1>2, TodoTables, PTL

(* The outbox table the subscriber writes to has every completed event,    *)
(* and no event more often than EventConsumer has leased it.               *)
THEOREM JournalIsComplete == ASSUME Wired PROVE TodoSpec => []JournalCoversDone
  <1>1. ASSUME Inv, TodoInv, NEW i \in Ids
        PROVE  /\ rows["event"][i].status = "done" => db.journal[i] > 0
               /\ db.journal[i] <= rows["event"][i].attempts
    <2> DEFINE n == rows["event"][i].attempts
    <2>1. n \in Nat
      BY <1>1 DEF Inv, CoreType, Row, Queues
    <2>2. Hearings(i) \subseteq 1 .. n
      BY <1>1 DEF Hearings, TodoInv, FlowInv, HearInv, HeardBound
    <2>3. IsFiniteSet(1 .. n) /\ Cardinality(1 .. n) = n
      <3>1. 1 \in Int /\ n \in Int
        BY <2>1
      <3> HIDE DEF n
      <3>2. IsFiniteSet(1 .. n) /\ Cardinality(1 .. n) = IF 1 > n THEN 0 ELSE n - 1 + 1
        BY <3>1, FS_Interval
      <3> QED
        BY <2>1, <3>2
    <2>4. /\ IsFiniteSet(Hearings(i)) /\ Cardinality(Hearings(i)) \in Nat
          /\ Cardinality(Hearings(i)) <= n
      BY <2>2, <2>3, FS_Subset, FS_CardinalityType
    <2>5. rows["event"][i].status = "done" => n \in Hearings(i)
      BY <1>1, <2>1 DEF Inv, DeliveredToAll, Hearings, Wired, Listeners
    <2>6. n \in Hearings(i) => Cardinality(Hearings(i)) # 0
      BY <2>4, FS_EmptySet
    <2> QED
      BY <1>1, <2>4, <2>5, <2>6 DEF TodoInv, JournalInv
  <1>2. Inv /\ TodoInv => JournalCoversDone
    BY <1>1 DEF JournalCoversDone
  <1> QED
    BY <1>2, TodoTables, PTL
=============================================================================
