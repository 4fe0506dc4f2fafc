--------------------------- MODULE QueueApiProofs ---------------------------
(***************************************************************************)
(* Theorems about QueueApi for every number of rows, requests, limits and  *)
(* faults.  A task changes the table in few ways and the task of one call  *)
(* touches nothing of another call, so that a step has two halves: what    *)
(* happens to the table, and what its own call and task know of it.        *)
(***************************************************************************)
EXTENDS QueueApi, FiniteSetTheorems, TLAPS

-----------------------------------------------------------------------------
(***************************************************************************)
(* The inductive invariant.  A task knows its request.  Until a run has    *)
(* reserved, no row names its call.  From then on, as long as nothing has  *)
(* gone wrong, the rows it has completed and those it still has in hand    *)
(* are as many as it counted; rows others took from it are among the       *)
(* latter, and make it fail when their turn comes.                         *)
(***************************************************************************)
CallPC == {"idle", "waiting", "answered", "gone"}
TaskPC == {"none", "storing", "reserving", "batch", "completing", "failing", "over"}
Running == {"reserving", "batch", "completing", "failing"}

Connection == [pc : CallPC, request : Requests \cup {NoRequest},
               answer : Answer \cup {NoAnswer}]

TaskInv(c) ==
    /\ task[c].pc = "storing" =>
           call[c].request \in Requests /\ call[c].request.op = "submit"
    /\ task[c].pc \in Running =>
           call[c].request \in Requests /\ call[c].request.op = "run"
    /\ task[c].pc \in {"completing", "failing"} => task[c].item \in Keys
    /\ call[c].pc \in {"idle", "answered"} => task[c] = NoTask
    /\ call[c].pc # "answered" => call[c].answer = NoAnswer
    /\ task[c].pc \in {"storing", "reserving"} => task[c].errors = 0

Unstarted(c) == call[c].pc = "idle" \/ task[c].pc \in {"storing", "reserving"}

Nameless(c) == \A k \in Keys : rows[k].by # c

InHand(x) == x.todo \cup (IF x.pc = "completing" THEN {x.item} ELSE {})

Tells(answer, c) ==
    answer.processed # NoCount => answer.processed = Cardinality(CompletedBy(c))

CountInv(c) ==
    /\ Unstarted(c) => Nameless(c)
    /\ task[c].pc \in {"batch", "completing"} /\ task[c].errors = 0 =>
           task[c].count = Cardinality(InHand(task[c]) \cup CompletedBy(c))
    /\ task[c].pc = "over" => Tells(task[c].result, c)
    /\ Tells(call[c].answer, c)

ApiInv ==
    /\ ApiTypeOK
    /\ \A c \in Calls : TaskInv(c) /\ CountInv(c)
LEMMA ApiInit == Init => ApiInv
  <1> SUFFICES ASSUME Init PROVE ApiInv
    OBVIOUS
  <1>1. NoAnswer.processed = NoCount
    BY DEF NoAnswer, Reply
  <1>2. NoTask \in Task /\ NoTask.pc = "none"
    BY DEF NoTask, Task
  <1>3. ApiTypeOK
    <2>1. \A k \in Keys : rows[k] \in Row
      BY ApiAssumption DEF ApiAssumption, Init, NoRow, NewRow, Row
    <2> QED
      BY <1>2, <2>1, ApiAssumption DEF ApiAssumption, Init, ApiTypeOK
  <1>4. \A c \in Calls : Nameless(c)
    BY ApiAssumption DEF ApiAssumption, Init, NoRow, NewRow, Nameless
  <1> QED
    BY <1>1, <1>2, <1>3, <1>4 DEF Init, ApiInv, TaskInv, CountInv, Tells, Running

-----------------------------------------------------------------------------
(***************************************************************************)
(* The table.                                                              *)
(***************************************************************************)
RowsStay ==
    \A k \in Keys : rows[k].phase # "none" =>
        /\ rows'[k].content = rows[k].content
        /\ rows'[k].tries >= rows[k].tries
        /\ rows[k].phase = "done" => rows'[k].phase = "done"

(* Whatever the task of c does to the table is nothing to another call.    *)
TableOf(c) ==
    /\ rows' \in [Keys -> Row]
    /\ RowsStay
    /\ \A d \in Calls \ {c} :
          /\ CompletedBy(d)' = CompletedBy(d)
          /\ Nameless(d) => Nameless(d)'

(* Nothing was completed, and no row given to anybody.                     *)
Still(c) == CompletedBy(c)' = CompletedBy(c) /\ (Nameless(c) => Nameless(c)')

LEMMA SameRows ==
    ASSUME ApiTypeOK, NEW c \in Calls, UNCHANGED rows
    PROVE  TableOf(c) /\ Still(c)
  <1>1. RowsStay
    BY DEF ApiTypeOK, RowsStay, Row
  <1>2. \A d : CompletedBy(d)' = CompletedBy(d) /\ (Nameless(d) => Nameless(d)')
    BY DEF CompletedBy, Nameless
  <1> QED
    BY <1>1, <1>2 DEF ApiTypeOK, TableOf, Still

LEMMA StoredRows ==
    ASSUME ApiTypeOK, NEW c \in Calls, NEW k \in Keys, NEW content \in Contents,
           Stored(k, content)
    PROVE  TableOf(c) /\ Still(c)
  <1> DEFINE r == NewRow(content)
  <1>1. r \in Row /\ r.phase = "open" /\ r.by = NoCall
    BY ApiAssumption DEF ApiAssumption, NewRow, Row
  <1> HIDE DEF r
  <1>2. /\ rows[k].phase = "none" => rows' = [rows EXCEPT ![k] = r]
        /\ rows[k].phase # "none" => rows' = [rows EXCEPT ![k] = rows[k]]
    BY DEF Stored, r
  <1>3. rows' \in [Keys -> Row] /\ \A j \in Keys : j # k => rows'[j] = rows[j]
    BY <1>1, <1>2 DEF ApiTypeOK
  <1>4. rows'[k] = rows[k] \/ (rows[k].phase = "none" /\ rows'[k] = r)
    BY <1>2 DEF ApiTypeOK
  <1>5. RowsStay
    BY <1>3, <1>4 DEF RowsStay, ApiTypeOK, Row
  <1>6. \A d \in Calls : CompletedBy(d)' = CompletedBy(d) /\ (Nameless(d) => Nameless(d)')
    BY <1>1, <1>3, <1>4, ApiAssumption DEF ApiAssumption, CompletedBy, Nameless
  <1> QED
    BY <1>3, <1>5, <1>6 DEF TableOf, Still

LEMMA LeaseRows ==
    ASSUME ApiTypeOK, NEW c \in Calls, NEW q, NEW limit, NEW S \in Batches(q, limit),
           Lease(c, S)
    PROVE  TableOf(c) /\ CompletedBy(c)' = CompletedBy(c)
  <1>1. \A k \in S : k \in Keys /\ rows[k].phase = "open" /\ rows[k].tries < MaxAttempts
    BY DEF Batches, Due
  <1>2. ASSUME NEW k \in Keys
        PROVE  /\ k \notin S => rows'[k] = rows[k]
               /\ k \in S => /\ rows'[k].content = rows[k].content
                             /\ rows'[k].tries = rows[k].tries + 1
                             /\ rows'[k].by = c
                             /\ rows'[k].phase \in {"held", "open"}
               /\ rows'[k] \in Row
    <2>1. PICK r \in Row : r = rows[k]
      BY DEF ApiTypeOK
    <2> DEFINE p == IF Decodes(k) THEN "held" ELSE "open"
    <2>2. p \in {"held", "open"}
      OBVIOUS
    <2> HIDE DEF p
    <2>3. CASE k \in S
      <3> DEFINE s == [r EXCEPT !.tries = r.tries + 1, !.by = c, !.phase = p]
      <3>1. rows'[k] = s
        BY <2>1, <2>3 DEF Lease, p
      <3>2. r.tries + 1 \in 0 .. MaxAttempts
        BY <1>1, <2>1, <2>3, ApiAssumption DEF ApiAssumption, Row
      <3>3. /\ s \in Row /\ s.content = r.content /\ s.tries = r.tries + 1
            /\ s.by = c /\ s.phase = p
        BY <2>2, <3>2 DEF Row
      <3> HIDE DEF s
      <3> QED
        BY <2>1, <2>2, <2>3, <3>1, <3>3
    <2>4. CASE k \notin S
      BY <2>1, <2>4 DEF Lease
    <2> QED
      BY <2>3, <2>4
  <1>3. rows' \in [Keys -> Row]
    BY <1>2 DEF Lease
  <1>4. RowsStay
    BY <1>1, <1>2 DEF RowsStay, ApiTypeOK, Row
  <1>5. \A d : CompletedBy(d)' = CompletedBy(d)
    BY <1>1, <1>2 DEF CompletedBy
  <1>6. \A d \in Calls \ {c} : Nameless(d) => Nameless(d)'
    BY <1>2 DEF Nameless
  <1> QED
    BY <1>3, <1>4, <1>5, <1>6 DEF TableOf

(* The phase of one row changes.                                           *)
LEMMA PhaseRow ==
    ASSUME ApiTypeOK, NEW k \in Keys, NEW p \in {"open", "done"},
           rows' = [rows EXCEPT ![k].phase = p]
    PROVE  /\ rows' \in [Keys -> Row]
           /\ \A j \in Keys : j # k => rows'[j] = rows[j]
           /\ \A j \in Keys : /\ rows'[j].content = rows[j].content
                              /\ rows'[j].tries = rows[j].tries
                              /\ rows'[j].by = rows[j].by
           /\ rows'[k].phase = p
  <1>1. PICK r \in Row : r = rows[k]
    BY DEF ApiTypeOK
  <1> DEFINE s == [r EXCEPT !.phase = p]
  <1>2. /\ s \in Row /\ s.content = r.content /\ s.tries = r.tries /\ s.by = r.by
        /\ s.phase = p
    BY DEF Row
  <1>3. rows' = [rows EXCEPT ![k] = s]
    BY <1>1
  <1> HIDE DEF s
  <1> QED
    BY <1>1, <1>2, <1>3 DEF ApiTypeOK

LEMMA DoneRows ==
    ASSUME ApiTypeOK, NEW c \in Calls, task[c].item \in Keys, Owned(c),
           rows' = [rows EXCEPT ![task[c].item].phase = "done"]
    PROVE  /\ TableOf(c)
           /\ CompletedBy(c)' = CompletedBy(c) \cup {task[c].item}
           /\ Nameless(c) => Nameless(c)'
  <1> DEFINE k == task[c].item
  <1>1. rows[k].phase = "held" /\ rows[k].by = c
    BY DEF Owned
  <1>2. /\ rows' \in [Keys -> Row]
        /\ \A j \in Keys : j # k => rows'[j] = rows[j]
        /\ \A j \in Keys : /\ rows'[j].content = rows[j].content
                           /\ rows'[j].tries = rows[j].tries
                           /\ rows'[j].by = rows[j].by
        /\ rows'[k].phase = "done"
    BY PhaseRow
  <1>3. RowsStay
    BY <1>1, <1>2 DEF RowsStay, ApiTypeOK, Row
  <1>4. \A d : Nameless(d) => Nameless(d)'
    BY <1>2 DEF Nameless
  <1>5. \A d \in Calls \ {c} : CompletedBy(d)' = CompletedBy(d)
    BY <1>1, <1>2 DEF CompletedBy
  <1>6. CompletedBy(c)' = CompletedBy(c) \cup {k}
    BY <1>1, <1>2 DEF CompletedBy
  <1> QED
    BY <1>2, <1>3, <1>4, <1>5, <1>6 DEF TableOf

LEMMA OpenRows ==
    ASSUME ApiTypeOK, NEW c \in Calls, NEW k \in Keys, rows[k].phase = "held",
           rows' = [rows EXCEPT ![k].phase = "open"]
    PROVE  TableOf(c) /\ Still(c)
  <1>1. /\ rows' \in [Keys -> Row]
        /\ \A j \in Keys : j # k => rows'[j] = rows[j]
        /\ \A j \in Keys : /\ rows'[j].content = rows[j].content
                           /\ rows'[j].tries = rows[j].tries
                           /\ rows'[j].by = rows[j].by
        /\ rows'[k].phase = "open"
    BY PhaseRow
  <1>2. RowsStay
    BY <1>1 DEF RowsStay, ApiTypeOK, Row
  <1>3. \A d : CompletedBy(d)' = CompletedBy(d) /\ (Nameless(d) => Nameless(d)')
    BY <1>1 DEF CompletedBy, Nameless
  <1> QED
    BY <1>1, <1>2, <1>3 DEF TableOf, Still
-----------------------------------------------------------------------------
(***************************************************************************)
(* The calls and their tasks.                                              *)
(***************************************************************************)
OwnStep(c) ==
    /\ call' \in [Calls -> Connection]
    /\ task' \in [Calls -> Task]
    /\ \A d \in Calls \ {c} : call'[d] = call[d] /\ task'[d] = task[d]

Kept == ApiInv' /\ RowsStay

(* Nothing another call knows is touched.                                  *)
LEMMA OthersStay ==
    ASSUME ApiInv, NEW c \in Calls, TableOf(c), OwnStep(c), faults' \in 0 .. MaxFaults,
           TaskInv(c)', CountInv(c)'
    PROVE  Kept
  <1>1. ApiTypeOK'
    BY DEF OwnStep, TableOf, ApiTypeOK, Connection, CallPC
  <1>2. ASSUME NEW d \in Calls \ {c} PROVE TaskInv(d)' /\ CountInv(d)'
    <2>1. call'[d] = call[d] /\ task'[d] = task[d] /\ CompletedBy(d)' = CompletedBy(d)
      BY DEF OwnStep, TableOf
    <2>2. Nameless(d) => Nameless(d)'
      BY DEF TableOf
    <2>3. TaskInv(d) /\ CountInv(d)
      BY DEF ApiInv
    <2>4. TaskInv(d)'
      BY <2>1, <2>3 DEF TaskInv
    <2>5. CountInv(d)'
      BY <2>1, <2>2, <2>3 DEF CountInv, Tells, Unstarted
    <2> QED
      BY <2>4, <2>5
  <1> QED
    BY <1>1, <1>2 DEF Kept, ApiInv, TableOf

(* The task alone moves.                                                   *)
LEMMA TaskMoves ==
    ASSUME ApiInv, NEW c \in Calls, NEW y \in Task,
           task' = [task EXCEPT ![c] = y], UNCHANGED call
    PROVE  OwnStep(c) /\ task'[c] = y /\ call'[c] = call[c]
  BY DEF ApiInv, ApiTypeOK, OwnStep, Connection, CallPC

(* The connection alone moves.                                             *)
LEMMA CallMoves ==
    ASSUME ApiInv, NEW c \in Calls, NEW x \in Connection,
           call' = [call EXCEPT ![c] = x], UNCHANGED task
    PROVE  OwnStep(c) /\ call'[c] = x /\ task'[c] = task[c]
  BY DEF ApiInv, ApiTypeOK, OwnStep, Connection, CallPC

LEMMA FaultCount ==
    ASSUME ApiInv, Fault \/ UNCHANGED faults
    PROVE  faults' \in 0 .. MaxFaults
  BY ApiAssumption DEF ApiAssumption, Fault, ApiInv, ApiTypeOK

LEMMA ReplyType ==
    ASSUME NEW s \in {200, 202, 400, 500, 503}
    PROVE  /\ Reply(s) \in Answer
           /\ Reply(s).processed = NoCount
           /\ \A k \in Keys : /\ [Reply(s) EXCEPT !.key = k] \in Answer
                              /\ [Reply(s) EXCEPT !.key = k].processed = NoCount
  <1>1. Reply(s) \in Answer /\ Reply(s).processed = NoCount
    BY DEF Reply, Answer
  <1>2. \A r \in Answer : \A k \in Keys : /\ [r EXCEPT !.key = k] \in Answer
                                          /\ [r EXCEPT !.key = k].processed = r.processed
    BY DEF Answer
  <1> QED
    BY <1>1, <1>2

LEMMA RunReplyType ==
    ASSUME NEW n \in Nat, NEW e \in Nat
    PROVE  /\ RunReply(n, e) \in Answer
           /\ RunReply(n, e).processed = IF e = 0 THEN n ELSE NoCount
  <1> DEFINE p == IF e = 0 THEN n ELSE NoCount
             r == Reply(200)
  <1>1. r \in Answer
    BY ReplyType
  <1>2. p \in Nat \cup {NoCount} /\ RunReply(n, e) = [r EXCEPT !.processed = p, !.errors = e]
    BY DEF RunReply
  <1> HIDE DEF p, r
  <1>3. [r EXCEPT !.processed = p] \in Answer /\ [r EXCEPT !.processed = p].processed = p
    BY <1>1, <1>2 DEF Answer
  <1>4. \A x \in Answer : /\ [x EXCEPT !.errors = e] \in Answer
                          /\ [x EXCEPT !.errors = e].processed = x.processed
    BY DEF Answer
  <1>5. [r EXCEPT !.processed = p, !.errors = e] = [[r EXCEPT !.processed = p] EXCEPT !.errors = e]
    OBVIOUS
  <1> QED
    BY <1>2, <1>3, <1>4, <1>5 DEF p

LEMMA StatusTypes ==
    ASSUME NEW queue \in Queues, NEW reason
    PROVE  Status(queue, reason) \in {400, 500, 503}
  <1>1. OutboxStatus(reason) \in {400, 500, 503}
    <2>1. OutboxKind(reason) \in {"invalid", "unavailable", "internal"}
      BY DEF OutboxKind
    <2> QED
      BY <2>1 DEF OutboxStatus
  <1>2. /\ InboxStatus(reason) \in {400, 500, 503}
        /\ CommandingStatus(reason) \in {400, 500, 503}
        /\ EventingStatus(reason) \in {400, 500, 503}
    BY DEF InboxStatus, CommandingStatus, EventingStatus
  <1> QED
    BY <1>1, <1>2 DEF Queues, Status

(* What is refused at once is refused with an answer that counts nothing.  *)
LEMMA RefusalType ==
    ASSUME NEW r \in Requests, NEW a \in Refusals(r)
    PROVE  a \in Answer /\ a.processed = NoCount
  <1> DEFINE Early == {NoAnswer, Reply(400), Reply(500), Reply(503)}
  <1>1. ASSUME NEW limit, NEW s \in {400, 500, 503} PROVE Checked(limit, s) \in Early
    BY DEF Checked
  <1>2. /\ NoAnswer \in Early /\ Reply(400) \in Early /\ Reply(503) \in Early
        /\ \A x \in Early \ {NoAnswer} : x \in {Reply(400), Reply(500), Reply(503)}
    OBVIOUS
  <1> HIDE DEF Early
  <1>3. ASSUME r.op = "run" PROVE RunRequest(r.queue, r.limit) \in Early
    <2>1. r.queue \in Queues
      BY <1>3 DEF Requests
    <2>2. OutboxStatus("limit out of range") = 400
      <3>1. OutboxKind("limit out of range") = "invalid"
        BY DEF OutboxKind
      <3> QED
        BY <3>1 DEF OutboxStatus
    <2>3. /\ InboxStatus("limit out of range") = 400
          /\ CommandingStatus("limit out of range") = 400
          /\ EventingStatus("limit out of range") = 400
      BY DEF InboxStatus, CommandingStatus, EventingStatus, InboxClientErrors,
             CommandingClientErrors, EventingClientErrors
    <2>4. Checked(r.limit, 400) \in Early
      BY <1>1
    <2>5. /\ InboxRunRequest(r.limit) \in Early
          /\ RunCommandsRequest(r.limit) \in Early
          /\ RunEventsRequest(r.limit) \in Early
          /\ RunOutboxRequest(r.limit) \in Early
      BY <2>2, <2>3, <2>4 DEF InboxRunRequest, RunCommandsRequest, RunEventsRequest,
                              RunOutboxRequest
    <2> QED
      BY <2>1, <2>5 DEF Queues, RunRequest
  <1>4. r.op \in {"unreadable", "run", "submit"}
    BY DEF Requests
  <1>5. AxumRefuses(r) \in Early
    BY <1>2, <1>3, <1>4 DEF AxumRefuses
  <1>6. PoemRefuses(r) \in Early
    BY <1>2, <1>5 DEF PoemRefuses
  <1>7. OutboxStatus("no publisher") = 503
    <2>1. OutboxKind("no publisher") = "unavailable"
      BY DEF OutboxKind
    <2> QED
      BY <2>1 DEF OutboxStatus
  <1>8. a \in {Reply(400), Reply(500), Reply(503)}
    <2>1. \/ Refusals(r) = {Reply(503)}
          \/ Refusals(r) = {AxumRefuses(r), PoemRefuses(r)} \ {NoAnswer}
      BY <1>7 DEF Refusals
    <2> QED
      BY <1>2, <1>5, <1>6, <2>1
  <1> QED
    BY <1>8, ReplyType

(* What is accepted is a message to store or a run.                        *)
LEMMA AcceptedType ==
    ASSUME NEW r \in Requests, Refusals(r) = {}
    PROVE  r.op \in {"submit", "run"}
  <1>1. r.op # "unreadable"
    <2>1. Reply(400) # NoAnswer
      BY DEF NoAnswer, Reply
    <2> QED
      BY <2>1 DEF Refusals, AxumRefuses
  <1> QED
    BY <1>1 DEF Requests

(* A task that is over tells what its result tells.                        *)
LEMMA OverMoves ==
    ASSUME ApiInv, NEW c \in Calls, task[c].pc \notin {"none", "over"},
           NEW result \in Answer \cup {NoAnswer},
           result.processed # NoCount => result.processed = Cardinality(CompletedBy(c)'),
           Over(c, result), UNCHANGED call, TableOf(c), faults' \in 0 .. MaxFaults
    PROVE  Kept
  <1> DEFINE y == [NoTask EXCEPT !.pc = "over", !.result = result]
  <1>1. y \in Task /\ y.pc = "over" /\ y.result = result
    BY DEF NoTask, Task
  <1> HIDE DEF y
  <1>2. task' = [task EXCEPT ![c] = y]
    BY DEF Over, y
  <1>3. OwnStep(c) /\ task'[c] = y /\ call'[c] = call[c]
    BY <1>1, <1>2, TaskMoves
  <1>4. call[c].pc \notin {"idle", "answered"} /\ call[c].answer = NoAnswer
    BY DEF ApiInv, TaskInv, NoTask
  <1>5. TaskInv(c)'
    BY <1>1, <1>3, <1>4 DEF TaskInv, Running
  <1>6. NoAnswer.processed = NoCount
    BY DEF NoAnswer, Reply
  <1>7. CountInv(c)'
    BY <1>1, <1>3, <1>4, <1>6 DEF CountInv, Tells, Unstarted
  <1> QED
    BY <1>3, <1>5, <1>7, OthersStay

-----------------------------------------------------------------------------
(***************************************************************************)
(* One lemma per step.                                                     *)
(***************************************************************************)
LEMMA RefuseStep ==
    ASSUME ApiInv, NEW c \in Calls, NEW r \in Asked, Refuse(c, r)
    PROVE  Kept
  <1>1. r \in Requests
    BY AskedAssumption DEF AskedAssumption
  <1>2. PICK a \in Refusals(r) :
            call' = [call EXCEPT ![c].pc = "answered", ![c].request = r, ![c].answer = a]
    BY DEF Refuse
  <1>3. a \in Answer /\ a.processed = NoCount
    BY <1>1, <1>2, RefusalType
  <1>4. PICK k \in Connection : k = call[c]
    BY DEF ApiInv, ApiTypeOK, Connection, CallPC
  <1> DEFINE x == [k EXCEPT !.pc = "answered", !.request = r, !.answer = a]
  <1>5. x \in Connection /\ x.pc = "answered" /\ x.answer = a
    BY <1>1, <1>3 DEF Connection, CallPC
  <1>6. call' = [call EXCEPT ![c] = x]
    BY <1>2, <1>4
  <1> HIDE DEF x
  <1>7. OwnStep(c) /\ call'[c] = x /\ task'[c] = task[c]
    BY <1>5, <1>6, CallMoves DEF Refuse
  <1>8. task[c] = NoTask /\ NoTask.pc = "none"
    BY DEF Refuse, ApiInv, TaskInv, NoTask
  <1>9. TaskInv(c)'
    BY <1>5, <1>7, <1>8 DEF TaskInv, Running
  <1>10. CountInv(c)'
    BY <1>3, <1>5, <1>7, <1>8 DEF CountInv, Tells, Unstarted
  <1>11. TableOf(c) /\ faults' \in 0 .. MaxFaults
    BY SameRows DEF Refuse, ApiInv, ApiTypeOK
  <1> QED
    BY <1>7, <1>9, <1>10, <1>11, OthersStay

LEMMA AcceptStep ==
    ASSUME ApiInv, NEW c \in Calls, NEW r \in Asked, Accept(c, r)
    PROVE  Kept
  <1>1. r \in Requests /\ r.op \in {"submit", "run"}
    BY AskedAssumption, AcceptedType DEF AskedAssumption, Accept
  <1>2. PICK k \in Connection : k = call[c]
    BY DEF ApiInv, ApiTypeOK, Connection, CallPC
  <1>3. task[c] = NoTask
    BY DEF Accept, ApiInv, TaskInv
  <1> DEFINE p == IF r.op = "submit" THEN "storing" ELSE "reserving"
             x == [k EXCEPT !.pc = "waiting", !.request = r]
             y == [NoTask EXCEPT !.pc = p]
  <1>4. /\ x \in Connection /\ x.pc = "waiting" /\ x.request = r /\ x.answer = k.answer
    BY <1>1 DEF Connection, CallPC
  <1>5. y \in Task /\ y.pc = p /\ y.errors = 0
    BY DEF NoTask, Task
  <1>6. call' = [call EXCEPT ![c] = x] /\ task' = [task EXCEPT ![c] = y]
    BY <1>2, <1>3 DEF Accept
  <1>7. (p = "storing" /\ r.op = "submit") \/ (p = "reserving" /\ r.op = "run")
    BY <1>1
  <1> HIDE DEF x, y, p
  <1>8. OwnStep(c) /\ call'[c] = x /\ task'[c] = y
    BY <1>4, <1>5, <1>6 DEF ApiInv, ApiTypeOK, OwnStep, Connection, CallPC
  <1>9. k.answer = NoAnswer /\ Nameless(c) /\ NoAnswer.processed = NoCount
    BY <1>2 DEF Accept, ApiInv, TaskInv, CountInv, Unstarted, NoAnswer, Reply
  <1>10. TaskInv(c)'
    BY <1>1, <1>4, <1>5, <1>7, <1>8, <1>9 DEF TaskInv, Running
  <1>11. TableOf(c) /\ Still(c) /\ faults' \in 0 .. MaxFaults
    BY SameRows DEF Accept, ApiInv, ApiTypeOK
  <1>12. CountInv(c)'
    BY <1>4, <1>5, <1>7, <1>8, <1>9, <1>11 DEF CountInv, Tells, Still
  <1> QED
    BY <1>8, <1>10, <1>11, <1>12, OthersStay

LEMMA MessageRows ==
    ASSUME ApiInv, NEW c \in Calls, task[c].pc = "storing",
           call[c].request.content \notin Unfit,
           NEW k \in MessageKeys(call[c].request), Stored(k, call[c].request.content)
    PROVE  k \in Keys /\ TableOf(c)
  <1>1. call[c].request \in Requests /\ call[c].request.op = "submit"
    BY DEF ApiInv, TaskInv
  <1>2. call[c].request.content \in Contents /\ call[c].request.key \in Keys \cup {NoKey}
    BY <1>1 DEF Requests
  <1>3. k \in Keys
    BY <1>2, ApiAssumption DEF ApiAssumption, MessageKeys
  <1> QED
    BY <1>2, <1>3, StoredRows DEF ApiInv

LEMMA SubmitStep ==
    ASSUME ApiInv, NEW c \in Calls, Submit(c)
    PROVE  Kept
  <1>1. faults' \in 0 .. MaxFaults /\ UNCHANGED call /\ task[c].pc = "storing"
    BY DEF Submit, ApiInv, ApiTypeOK
  <1>2. CASE call[c].request.content \in Unfit
    <2>1. InboxStatus("invalid message") = 400
      BY DEF InboxStatus, InboxClientErrors
    <2>2. Over(c, Reply(400)) /\ UNCHANGED rows
      BY <1>2, <2>1 DEF Submit
    <2>3. TableOf(c)
      BY <2>2, SameRows DEF ApiInv
    <2> QED
      BY <1>1, <2>2, <2>3, ReplyType, OverMoves
  <1>3. CASE call[c].request.content \notin Unfit
    <2>1. PICK k \in MessageKeys(call[c].request) :
              Stored(k, call[c].request.content) /\ Over(c, [Reply(202) EXCEPT !.key = k])
      BY <1>3 DEF Submit
    <2>2. k \in Keys /\ TableOf(c)
      BY <1>1, <1>3, <2>1, MessageRows
    <2> DEFINE a == [Reply(202) EXCEPT !.key = k]
    <2>3. a \in Answer /\ a.processed = NoCount
      BY <2>2, ReplyType
    <2>4. Over(c, a)
      BY <2>1
    <2> HIDE DEF a
    <2> QED
      BY <1>1, <2>2, <2>3, <2>4, OverMoves
  <1> QED
    BY <1>2, <1>3

LEMMA SubmitFailsStep ==
    ASSUME ApiInv, NEW c \in Calls, SubmitFails(c)
    PROVE  Kept
  <1>1. faults' \in 0 .. MaxFaults
    BY FaultCount DEF SubmitFails
  <1>2. UNCHANGED call /\ task[c].pc = "storing"
    BY DEF SubmitFails
  <1>3. TableOf(c)
    BY <1>2, SameRows, MessageRows DEF SubmitFails, ApiInv
  <1>4. InboxStatus("storage failed") = 500
    BY DEF InboxStatus, InboxClientErrors
  <1>5. Over(c, Reply(500))
    BY <1>4 DEF SubmitFails
  <1> QED
    BY <1>1, <1>2, <1>3, <1>5, ReplyType, OverMoves
LEMMA ReserveStep ==
    ASSUME ApiInv, NEW c \in Calls, Reserve(c)
    PROVE  Kept
  <1>1. /\ faults' \in 0 .. MaxFaults /\ UNCHANGED call /\ task[c].pc = "reserving"
        /\ call[c].request \in Requests /\ call[c].request.op = "run"
    BY DEF Reserve, ApiInv, ApiTypeOK, TaskInv, Running
  <1>2. PICK S \in Batches(call[c].request.queue, call[c].request.limit) :
            /\ Lease(c, S)
            /\ task' = [task EXCEPT ![c].pc = "batch", ![c].todo = {k \in S : Decodes(k)},
                                    ![c].count = Cardinality({k \in S : Decodes(k)})]
    BY DEF Reserve
  <1> DEFINE T == {k \in S : Decodes(k)}
  <1>3. T \in SUBSET Keys /\ IsFiniteSet(T) /\ Cardinality(T) \in Nat
    BY FS_Subset, FS_CardinalityType, ApiAssumption DEF ApiAssumption, Batches, Due
  <1>4. PICK x \in Task : x = task[c]
    BY DEF ApiInv, ApiTypeOK
  <1>5. task' = [task EXCEPT ![c].pc = "batch", ![c].todo = T, ![c].count = Cardinality(T)]
    BY <1>2
  <1> HIDE DEF T
  <1> DEFINE n == Cardinality(T)
             y == [x EXCEPT !.pc = "batch", !.todo = T, !.count = n]
  <1>6. task' = [task EXCEPT ![c] = y]
    BY <1>4, <1>5
  <1> HIDE DEF n
  <1>7. y \in Task /\ y.pc = "batch" /\ y.todo = T /\ y.count = n /\ y.errors = x.errors
    BY <1>3 DEF Task, n
  <1> HIDE DEF y
  <1>8. OwnStep(c) /\ task'[c] = y /\ call'[c] = call[c]
    BY <1>1, <1>6, <1>7, TaskMoves
  <1>9. TableOf(c) /\ CompletedBy(c)' = CompletedBy(c)
    BY <1>2, LeaseRows DEF ApiInv
  <1>10. CompletedBy(c) = {}
    BY <1>1 DEF ApiInv, CountInv, Unstarted, Nameless, CompletedBy
  <1>11. call[c].pc \notin {"idle", "answered"} /\ call[c].answer = NoAnswer
    BY <1>1 DEF ApiInv, TaskInv, NoTask
  <1>12. TaskInv(c)'
    BY <1>1, <1>7, <1>8, <1>11 DEF TaskInv
  <1>13. CountInv(c)'
    <2>1. NoAnswer.processed = NoCount
      BY DEF NoAnswer, Reply
    <2>2. InHand(y) \cup {} = T
      BY <1>7 DEF InHand
    <2> QED
      BY <1>7, <1>8, <1>9, <1>10, <1>11, <2>1, <2>2 DEF CountInv, Tells, Unstarted, n
  <1> QED
    BY <1>1, <1>8, <1>9, <1>12, <1>13, OthersStay

(* The task goes on to its next point.                                     *)
LEMMA GoesOn ==
    ASSUME ApiInv, NEW c \in Calls, task[c].pc \in {"batch", "completing", "failing"},
           NEW y \in Task, y.pc \in {"batch", "completing", "failing"},
           y.pc # "batch" => y.item \in Keys,
           task' = [task EXCEPT ![c] = y], UNCHANGED call,
           TableOf(c), faults' \in 0 .. MaxFaults,
           y.pc # "failing" /\ y.errors = 0 =>
               y.count = Cardinality(InHand(y) \cup CompletedBy(c)')
    PROVE  Kept
  <1>1. OwnStep(c) /\ task'[c] = y /\ call'[c] = call[c]
    BY TaskMoves
  <1>2. /\ call[c].request \in Requests /\ call[c].request.op = "run"
        /\ call[c].pc \notin {"idle", "answered"} /\ call[c].answer = NoAnswer
    BY DEF ApiInv, TaskInv, Running, NoTask
  <1>3. NoAnswer.processed = NoCount
    BY DEF NoAnswer, Reply
  <1>4. TaskInv(c)'
    BY <1>1, <1>2 DEF TaskInv
  <1>5. CountInv(c)'
    BY <1>1, <1>2, <1>3 DEF CountInv, Tells, Unstarted
  <1> QED
    BY <1>1, <1>4, <1>5, OthersStay

LEMMA WorkStep ==
    ASSUME ApiInv, NEW c \in Calls, Work(c)
    PROVE  Kept
  <1>1. faults' \in 0 .. MaxFaults /\ TableOf(c) /\ Still(c) /\ task[c].pc = "batch"
    BY SameRows DEF Work, ApiInv, ApiTypeOK
  <1>2. PICK x \in Task : x = task[c]
    BY DEF ApiInv, ApiTypeOK
  <1>3. PICK k \in x.todo, p \in {"completing", "failing"} :
            task' = [task EXCEPT ![c].pc = p, ![c].item = k, ![c].todo = @ \ {k}]
    BY <1>2 DEF Work
  <1> DEFINE T == x.todo \ {k}
             y == [x EXCEPT !.pc = p, !.item = k, !.todo = T]
  <1>4. task' = [task EXCEPT ![c] = y]
    BY <1>2, <1>3
  <1>5. k \in Keys /\ T \in SUBSET Keys
    BY DEF Task
  <1> HIDE DEF T
  <1>6. /\ y \in Task /\ y.pc = p /\ y.item = k /\ y.todo = T
        /\ y.errors = x.errors /\ y.count = x.count
    BY <1>5 DEF Task
  <1> HIDE DEF y
  <1>7. y.pc = "completing" => InHand(y) = InHand(x)
    BY <1>1, <1>2, <1>6 DEF InHand, T
  <1>8. y.pc # "failing" /\ y.errors = 0 =>
            y.count = Cardinality(InHand(y) \cup CompletedBy(c)')
    BY <1>1, <1>2, <1>6, <1>7 DEF ApiInv, CountInv, Still
  <1> QED
    BY <1>1, <1>4, <1>5, <1>6, <1>8, GoesOn DEF Work
(* An item is done with, and errors more were collected.                   *)
LEMMA NextItemStep ==
    ASSUME ApiInv, NEW c \in Calls, task[c].pc \in {"completing", "failing"},
           NEW n \in Nat, NextItem(c, n), UNCHANGED call,
           TableOf(c), faults' \in 0 .. MaxFaults,
           n = 0 => /\ task[c].pc = "completing"
                    /\ CompletedBy(c)' = CompletedBy(c) \cup {task[c].item}
    PROVE  Kept
  <1>1. PICK x \in Task : x = task[c]
    BY DEF ApiInv, ApiTypeOK
  <1> DEFINE e == x.errors + n
             y == [x EXCEPT !.pc = "batch", !.item = NoKey, !.errors = e]
  <1>2. task' = [task EXCEPT ![c] = y]
    BY <1>1 DEF NextItem
  <1>3. x.errors \in Nat /\ e \in Nat
    BY DEF Task
  <1>4. e = 0 => x.errors = 0 /\ n = 0
    BY <1>3
  <1> HIDE DEF e
  <1>5. /\ y \in Task /\ y.pc = "batch" /\ y.todo = x.todo /\ y.errors = e
        /\ y.count = x.count
    BY <1>3 DEF Task
  <1> HIDE DEF y
  <1>6. y.errors = 0 => y.count = Cardinality(InHand(y) \cup CompletedBy(c)')
    <2> SUFFICES ASSUME y.errors = 0
                 PROVE  y.count = Cardinality(InHand(y) \cup CompletedBy(c)')
      OBVIOUS
    <2>1. x.count = Cardinality(InHand(x) \cup CompletedBy(c))
      BY <1>1, <1>4, <1>5 DEF ApiInv, CountInv
    <2>2. InHand(y) \cup CompletedBy(c)' = InHand(x) \cup CompletedBy(c)
      BY <1>1, <1>4, <1>5 DEF InHand
    <2> QED
      BY <1>5, <2>1, <2>2
  <1> QED
    BY <1>2, <1>5, <1>6, GoesOn

(* A completion that did not succeed.                                      *)
LEMMA TurnsToFailing ==
    ASSUME ApiInv, NEW c \in Calls, task[c].pc = "completing",
           task' = [task EXCEPT ![c].pc = "failing"], UNCHANGED call,
           TableOf(c), faults' \in 0 .. MaxFaults
    PROVE  Kept
  <1>1. PICK x \in Task : x = task[c]
    BY DEF ApiInv, ApiTypeOK
  <1> DEFINE y == [x EXCEPT !.pc = "failing"]
  <1>2. task' = [task EXCEPT ![c] = y]
    BY <1>1
  <1>3. y \in Task /\ y.pc = "failing" /\ y.item = x.item
    BY DEF Task
  <1> HIDE DEF y
  <1>4. x.item \in Keys
    BY <1>1 DEF ApiInv, TaskInv
  <1> QED
    BY <1>2, <1>3, <1>4, GoesOn

LEMMA CompleteStep ==
    ASSUME ApiInv, NEW c \in Calls, Complete(c)
    PROVE  Kept
  <1>1. faults' \in 0 .. MaxFaults /\ UNCHANGED call /\ task[c].pc = "completing"
    BY DEF Complete, ApiInv, ApiTypeOK
  <1>2. task[c].item \in Keys
    BY <1>1 DEF ApiInv, TaskInv
  <1>3. CASE Owned(c)
    <2>1. rows' = [rows EXCEPT ![task[c].item].phase = "done"] /\ NextItem(c, 0)
      BY <1>3 DEF Complete
    <2> QED
      BY <1>1, <1>2, <1>3, <2>1, DoneRows, NextItemStep DEF ApiInv
  <1>4. CASE ~ Owned(c)
    <2>1. task' = [task EXCEPT ![c].pc = "failing"] /\ UNCHANGED rows
      BY <1>4 DEF Complete
    <2> QED
      BY <1>1, <2>1, SameRows, TurnsToFailing DEF ApiInv
  <1> QED
    BY <1>3, <1>4

LEMMA CompleteFailsStep ==
    ASSUME ApiInv, NEW c \in Calls, CompleteFails(c)
    PROVE  Kept
  <1>1. faults' \in 0 .. MaxFaults
    BY FaultCount DEF CompleteFails
  <1>2. UNCHANGED call /\ task[c].pc = "completing"
        /\ task' = [task EXCEPT ![c].pc = "failing"]
    BY DEF CompleteFails
  <1>3. task[c].item \in Keys
    BY <1>2 DEF ApiInv, TaskInv
  <1>4. TableOf(c)
    BY <1>3, SameRows, DoneRows DEF CompleteFails, ApiInv
  <1> QED
    BY <1>1, <1>2, <1>4, TurnsToFailing

LEMMA FailStep ==
    ASSUME ApiInv, NEW c \in Calls, Fail(c)
    PROVE  Kept
  <1>1. faults' \in 0 .. MaxFaults /\ UNCHANGED call /\ task[c].pc = "failing"
    BY DEF Fail, ApiInv, ApiTypeOK
  <1>2. task[c].item \in Keys
    BY <1>1 DEF ApiInv, TaskInv
  <1>3. CASE Owned(c)
    <2>1. rows' = [rows EXCEPT ![task[c].item].phase = "open"] /\ NextItem(c, 1)
      BY <1>3 DEF Fail
    <2>2. TableOf(c)
      BY <1>2, <1>3, <2>1, OpenRows DEF ApiInv, Owned
    <2> QED
      BY <1>1, <2>1, <2>2, NextItemStep
  <1>4. CASE ~ Owned(c)
    <2>1. NextItem(c, 2) /\ UNCHANGED rows
      BY <1>4 DEF Fail
    <2>2. TableOf(c)
      BY <2>1, SameRows DEF ApiInv
    <2> QED
      BY <1>1, <2>1, <2>2, NextItemStep
  <1> QED
    BY <1>3, <1>4

LEMMA FailFailsStep ==
    ASSUME ApiInv, NEW c \in Calls, FailFails(c)
    PROVE  Kept
  <1>1. faults' \in 0 .. MaxFaults
    BY FaultCount DEF FailFails
  <1>2. task[c].pc = "failing" /\ NextItem(c, 2) /\ UNCHANGED <<rows, call>>
    BY DEF FailFails
  <1>3. TableOf(c)
    BY <1>2, SameRows DEF ApiInv
  <1> QED
    BY <1>1, <1>2, <1>3, NextItemStep

LEMMA EndRunStep ==
    ASSUME ApiInv, NEW c \in Calls, EndRun(c)
    PROVE  Kept
  <1>1. /\ faults' \in 0 .. MaxFaults /\ UNCHANGED <<rows, call>>
        /\ task[c].pc = "batch" /\ task[c].todo = {}
        /\ Over(c, RunReply(task[c].count, task[c].errors))
    BY DEF EndRun, ApiInv, ApiTypeOK
  <1>2. PICK x \in Task : x = task[c]
    BY DEF ApiInv, ApiTypeOK
  <1> DEFINE a == RunReply(x.count, x.errors)
  <1>3. x.count \in Nat /\ x.errors \in Nat
    BY DEF Task
  <1>4. a \in Answer /\ a.processed = IF x.errors = 0 THEN x.count ELSE NoCount
    BY <1>3, RunReplyType
  <1>5. Over(c, a)
    BY <1>1, <1>2
  <1> HIDE DEF a
  <1>6. TableOf(c) /\ Still(c)
    BY <1>1, SameRows DEF ApiInv
  <1>7. a.processed # NoCount => a.processed = Cardinality(CompletedBy(c)')
    <2> SUFFICES ASSUME a.processed # NoCount
                 PROVE  a.processed = Cardinality(CompletedBy(c)')
      OBVIOUS
    <2>1. x.errors = 0 /\ a.processed = x.count
      BY <1>4
    <2>2. x.count = Cardinality(InHand(x) \cup CompletedBy(c))
      BY <1>1, <1>2, <2>1 DEF ApiInv, CountInv
    <2>3. InHand(x) \cup CompletedBy(c) = CompletedBy(c)
      BY <1>1, <1>2 DEF InHand
    <2> QED
      BY <1>6, <2>1, <2>2, <2>3 DEF Still
  <1>8. task[c].pc \notin {"none", "over"} /\ UNCHANGED call
    BY <1>1
  <1> QED
    BY <1>1, <1>4, <1>5, <1>6, <1>7, <1>8, OverMoves

LEMMA ReserveFailsStep ==
    ASSUME ApiInv, NEW c \in Calls, ReserveFails(c)
    PROVE  Kept
  <1>1. faults' \in 0 .. MaxFaults
    BY FaultCount DEF ReserveFails
  <1>2. UNCHANGED call /\ task[c].pc = "reserving" /\ Over(c, RunReply(0, 1))
    BY DEF ReserveFails
  <1>3. TableOf(c)
    BY SameRows, LeaseRows DEF ReserveFails, ApiInv
  <1>4. RunReply(0, 1) \in Answer /\ RunReply(0, 1).processed = NoCount
    BY RunReplyType
  <1> QED
    BY <1>1, <1>2, <1>3, <1>4, OverMoves

LEMMA TaskFailsStep ==
    ASSUME ApiInv, NEW c \in Calls, TaskFails(c)
    PROVE  Kept
  <1>1. faults' \in 0 .. MaxFaults
    BY FaultCount DEF TaskFails
  <1>2. UNCHANGED <<rows, call>> /\ task[c].pc \notin {"none", "over"}
    BY DEF TaskFails
  <1>3. TableOf(c)
    BY <1>2, SameRows DEF ApiInv
  <1> DEFINE queue == IF call[c].request.op = "submit" THEN "inbox" ELSE call[c].request.queue
             s == Status(queue, "task failed")
  <1>4. Over(c, Reply(s))
    BY DEF TaskFails
  <1>5. queue \in Queues
    <2>1. task[c].pc \in {"storing"} \cup Running
      BY <1>2 DEF ApiInv, ApiTypeOK, Task, Running
    <2>2. call[c].request \in Requests /\ call[c].request.op \in {"submit", "run"}
      BY <2>1 DEF ApiInv, TaskInv
    <2>3. call[c].request.op = "run" => call[c].request.queue \in Queues
      BY <2>2 DEF Requests
    <2> QED
      BY <2>2, <2>3 DEF Queues
  <1> HIDE DEF queue
  <1>6. s \in {400, 500, 503}
    BY <1>5, StatusTypes
  <1> HIDE DEF s
  <1>7. Reply(s) \in Answer /\ Reply(s).processed = NoCount
    BY <1>6, ReplyType
  <1> QED
    BY <1>1, <1>2, <1>3, <1>4, <1>7, OverMoves

LEMMA RespondStep ==
    ASSUME ApiInv, NEW c \in Calls, Respond(c)
    PROVE  Kept
  <1>1. PICK k \in Connection : k = call[c]
    BY DEF ApiInv, ApiTypeOK, Connection, CallPC
  <1>2. PICK t \in Task : t = task[c]
    BY DEF ApiInv, ApiTypeOK
  <1> DEFINE x == [k EXCEPT !.pc = "answered", !.answer = t.result]
  <1>3. call' = [call EXCEPT ![c] = x] /\ task' = [task EXCEPT ![c] = NoTask]
    BY <1>1, <1>2 DEF Respond
  <1>4. x \in Connection /\ x.pc = "answered" /\ x.answer = t.result
    BY DEF Connection, CallPC, Task
  <1> HIDE DEF x
  <1>5. NoTask \in Task /\ NoTask.pc = "none"
    BY DEF NoTask, Task
  <1>6. OwnStep(c) /\ call'[c] = x /\ task'[c] = NoTask
    BY <1>3, <1>4, <1>5 DEF ApiInv, ApiTypeOK, OwnStep, Connection, CallPC
  <1>7. TableOf(c) /\ Still(c) /\ faults' \in 0 .. MaxFaults
    BY SameRows DEF Respond, ApiInv, ApiTypeOK
  <1>8. Tells(t.result, c)
    BY <1>2 DEF Respond, ApiInv, CountInv
  <1>9. TaskInv(c)'
    BY <1>4, <1>5, <1>6 DEF TaskInv, Running
  <1>10. CountInv(c)'
    BY <1>4, <1>5, <1>6, <1>7, <1>8 DEF CountInv, Tells, Unstarted, Still
  <1> QED
    BY <1>6, <1>7, <1>9, <1>10, OthersStay

LEMMA DisconnectStep ==
    ASSUME ApiInv, NEW c \in Calls, Disconnect(c)
    PROVE  Kept
  <1>1. PICK k \in Connection : k = call[c]
    BY DEF ApiInv, ApiTypeOK, Connection, CallPC
  <1> DEFINE x == [k EXCEPT !.pc = "gone"]
  <1>2. call' = [call EXCEPT ![c] = x]
    BY <1>1 DEF Disconnect
  <1>3. x \in Connection /\ x.pc = "gone" /\ x.answer = k.answer /\ x.request = k.request
    BY DEF Connection, CallPC
  <1> HIDE DEF x
  <1>4. OwnStep(c) /\ call'[c] = x /\ task'[c] = task[c]
    BY <1>2, <1>3, CallMoves DEF Disconnect
  <1>5. TableOf(c) /\ Still(c) /\ faults' \in 0 .. MaxFaults
    BY SameRows DEF Disconnect, ApiInv, ApiTypeOK
  <1>6. TaskInv(c) /\ CountInv(c) /\ k.pc = "waiting"
    BY <1>1 DEF Disconnect, ApiInv
  <1>7. TaskInv(c)'
    BY <1>1, <1>3, <1>4, <1>6 DEF TaskInv
  <1>8. CountInv(c)'
    BY <1>1, <1>3, <1>4, <1>5, <1>6 DEF CountInv, Tells, Unstarted, Still
  <1> QED
    BY <1>4, <1>5, <1>7, <1>8, OthersStay

LEMMA SweepStep ==
    ASSUME ApiInv, NEW k \in Keys, Sweep(k)
    PROVE  Kept
  <1>1. rows[k].phase = "held" /\ rows' = [rows EXCEPT ![k].phase = "open"]
        /\ UNCHANGED <<call, task, faults>>
    BY DEF Sweep
  <1>2. /\ rows' \in [Keys -> Row]
        /\ \A j \in Keys : j # k => rows'[j] = rows[j]
        /\ \A j \in Keys : /\ rows'[j].content = rows[j].content
                           /\ rows'[j].tries = rows[j].tries
                           /\ rows'[j].by = rows[j].by
    BY <1>1, PhaseRow DEF ApiInv
  <1>3. RowsStay
    BY <1>1, <1>2 DEF RowsStay, ApiInv, ApiTypeOK, Row
  <1>4. ApiTypeOK'
    BY <1>1, <1>2 DEF ApiInv, ApiTypeOK
  <1>5. ASSUME NEW c \in Calls PROVE TaskInv(c)' /\ CountInv(c)'
    <2>1. Still(c)
      BY <1>1, OpenRows DEF ApiInv
    <2>2. TaskInv(c) /\ CountInv(c)
      BY DEF ApiInv
    <2>3. TaskInv(c)'
      BY <1>1, <2>2 DEF TaskInv
    <2>4. CountInv(c)'
      BY <1>1, <2>1, <2>2 DEF CountInv, Tells, Unstarted, Still
    <2> QED
      BY <2>3, <2>4
  <1> QED
    BY <1>3, <1>4, <1>5 DEF Kept, ApiInv

LEMMA NextKept == ApiInv /\ [Next]_vars => Kept
  <1> SUFFICES ASSUME ApiInv, [Next]_vars PROVE Kept
    OBVIOUS
  <1>1. ASSUME NEW c \in Calls, NEW r \in Asked, Refuse(c, r) \/ Accept(c, r) PROVE Kept
    BY <1>1, RefuseStep, AcceptStep
  <1>2. ASSUME NEW c \in Calls, TaskStep(c) PROVE Kept
    BY <1>2, SubmitStep, ReserveStep, WorkStep, CompleteStep, FailStep, EndRunStep
       DEF TaskStep
  <1>3. ASSUME NEW c \in Calls, TaskTrouble(c) PROVE Kept
    BY <1>3, SubmitFailsStep, ReserveFailsStep, CompleteFailsStep, FailFailsStep,
       TaskFailsStep DEF TaskTrouble
  <1>4. ASSUME NEW c \in Calls, Respond(c) \/ Disconnect(c) PROVE Kept
    BY <1>4, RespondStep, DisconnectStep
  <1>5. ASSUME NEW k \in Keys, Sweep(k) PROVE Kept
    BY <1>5, SweepStep
  <1>6. CASE UNCHANGED vars
    <2>1. ApiInv'
      <3>1. ApiTypeOK'
        BY <1>6 DEF vars, ApiInv, ApiTypeOK
      <3>2. ASSUME NEW c \in Calls PROVE TaskInv(c)'
        BY <1>6 DEF vars, ApiInv, TaskInv
      <3>3. ASSUME NEW c \in Calls PROVE CountInv(c)'
        <4>1. CompletedBy(c)' = CompletedBy(c) /\ Nameless(c)' = Nameless(c)
          BY <1>6 DEF vars, CompletedBy, Nameless
        <4>2. Unstarted(c)' = Unstarted(c) /\ InHand(task[c])' = InHand(task[c])
          BY <1>6 DEF vars, Unstarted, InHand
        <4> QED
          BY <1>6, <4>1, <4>2 DEF vars, ApiInv, CountInv, Tells
      <3> QED
        BY <3>1, <3>2, <3>3 DEF ApiInv
    <2>2. RowsStay
      BY <1>6 DEF vars, RowsStay, ApiInv, ApiTypeOK, Row
    <2> QED
      BY <2>1, <2>2 DEF Kept
  <1> QED
    BY <1>1, <1>2, <1>3, <1>4, <1>5, <1>6 DEF Next

-----------------------------------------------------------------------------
(***************************************************************************)
(* What answers say.  Beyond ApiInv: a task on the pool belongs to a       *)
(* request nobody refused, a run counts no more rows than its limit, and   *)
(* a result fits its request from the moment the task is over: what it     *)
(* says of the table and of the faults stays so.                           *)
(***************************************************************************)
Admitted(r) == r.op = "run" => ~ Blamed(r) /\ ~ Unavailable(r)

FitInv(c) ==
    /\ task[c].pc \notin {"none", "over"} => Admitted(call[c].request)
    /\ task[c].pc \in {"batch", "completing", "failing"} =>
           task[c].count <= call[c].request.limit
    /\ task[c].pc = "over" => Fits(call[c].request, task[c].result)
    /\ call[c].pc = "answered" => Fits(call[c].request, call[c].answer)

AllFit == \A c \in Calls : FitInv(c)

(* What an answer rests on lasts.                                          *)
Lasting ==
    /\ \A k \in Keys : rows[k].phase # "none" => rows'[k].phase # "none"
    /\ faults > 0 => faults' > 0

LEMMA LeaseLasts ==
    ASSUME NEW c, NEW q, NEW limit, NEW S \in Batches(q, limit), Lease(c, S)
    PROVE  \A k \in Keys : rows[k].phase # "none" => rows'[k].phase # "none"
  <1> SUFFICES ASSUME NEW k \in Keys, rows[k].phase # "none" PROVE rows'[k].phase # "none"
    OBVIOUS
  <1>1. CASE k \notin S
    BY <1>1 DEF Lease
  <1>2. CASE k \in S
    <2> DEFINE p == IF Decodes(k) THEN "held" ELSE "open"
               z == [rows[k] EXCEPT !.tries = @ + 1, !.by = c, !.phase = p]
    <2>1. rows'[k] = z
      BY <1>2 DEF Lease
    <2>2. z.phase = p \/ z.phase = rows[k].phase
      OBVIOUS
    <2> QED
      BY <2>1, <2>2
  <1> QED
    BY <1>1, <1>2

LEMMA StoreLasts ==
    ASSUME ApiTypeOK, NEW k \in Keys, NEW content \in Contents, Stored(k, content)
    PROVE  /\ \A j \in Keys : rows[j].phase # "none" => rows'[j].phase # "none"
           /\ rows'[k].phase # "none"
  BY DEF ApiTypeOK, Stored, NewRow

LEMMA PhaseLasts ==
    ASSUME ApiTypeOK, NEW k, NEW p \in {"open", "done"},
           rows' = [rows EXCEPT ![k].phase = p]
    PROVE  \A j \in Keys : rows[j].phase # "none" => rows'[j].phase # "none"
  <1>1. CASE k \in Keys
    BY <1>1, PhaseRow
  <1>2. CASE k \notin Keys
    BY <1>2 DEF ApiTypeOK
  <1> QED
    BY <1>1, <1>2

LEMMA FitsStays ==
    ASSUME Lasting, NEW r, NEW a, Fits(r, a)
    PROVE  Fits(r, a)'
  BY DEF Fits, Lasting

(* Nothing said to another call is disturbed.                              *)
LEMMA OthersFit ==
    ASSUME AllFit, NEW c \in Calls, Lasting, FitInv(c)',
           \A d \in Calls \ {c} : call'[d] = call[d] /\ task'[d] = task[d]
    PROVE  AllFit'
  <1> SUFFICES ASSUME NEW d \in Calls \ {c} PROVE FitInv(d)'
    BY DEF AllFit
  <1>1. FitInv(d) /\ call'[d] = call[d] /\ task'[d] = task[d]
    BY DEF AllFit
  <1>2. PICK x, y : x = call[d] /\ y = task[d] /\ x = call'[d] /\ y = task'[d]
    BY <1>1
  <1>3. /\ y.pc = "over" => Fits(x.request, y.result)
        /\ x.pc = "answered" => Fits(x.request, x.answer)
    BY <1>1, <1>2 DEF FitInv
  <1>4. /\ y.pc = "over" => Fits(x.request, y.result)'
        /\ x.pc = "answered" => Fits(x.request, x.answer)'
    BY <1>3, FitsStays
  <1> QED
    BY <1>1, <1>2, <1>4 DEF FitInv, Admitted, Blamed, Unavailable

LEMMA StepFits ==
    ASSUME ApiTypeOK, AllFit, Lasting, NEW c \in Calls, NEW x, NEW y,
           call' = [call EXCEPT ![c] = x], task' = [task EXCEPT ![c] = y],
           y.pc \notin {"none", "over"} => Admitted(x.request),
           y.pc \in {"batch", "completing", "failing"} => y.count <= x.request.limit,
           y.pc = "over" => Fits(x.request, y.result)',
           x.pc = "answered" => Fits(x.request, x.answer)'
    PROVE  AllFit'
  <1>1. /\ call'[c] = x /\ task'[c] = y
        /\ \A d \in Calls \ {c} : call'[d] = call[d] /\ task'[d] = task[d]
    BY DEF ApiTypeOK
  <1>2. FitInv(c)'
    BY <1>1 DEF FitInv, Admitted, Blamed, Unavailable
  <1> QED
    BY <1>1, <1>2, OthersFit

Midway(t) == t.pc \in {"batch", "completing", "failing"}

(* A run goes on and its count stays.                                      *)
LEMMA GoesOnFits ==
    ASSUME ApiInv, AllFit, Lasting, NEW c \in Calls,
           Midway(task[c]), NEW y, Midway(y), y.count = task[c].count,
           task' = [task EXCEPT ![c] = y], UNCHANGED call
    PROVE  AllFit'
  <1>1. PICK x : x = call[c]
    OBVIOUS
  <1>2. call' = [call EXCEPT ![c] = x]
    BY <1>1 DEF ApiInv, ApiTypeOK
  <1>3. x.pc # "answered"
    BY <1>1 DEF ApiInv, TaskInv, NoTask, Midway
  <1>4. Admitted(x.request) /\ y.count <= x.request.limit
    BY <1>1 DEF AllFit, FitInv, Midway
  <1> QED
    BY <1>2, <1>3, <1>4, StepFits DEF ApiInv, Midway

(* A task is over with a result that fits.                                 *)
LEMMA OverFits ==
    ASSUME ApiInv, AllFit, Lasting, NEW c \in Calls, task[c].pc \notin {"none", "over"},
           NEW r, r = call[c].request, NEW a, Fits(r, a)',
           Over(c, a), UNCHANGED call
    PROVE  AllFit'
  <1>1. PICK x : x = call[c]
    OBVIOUS
  <1>2. call' = [call EXCEPT ![c] = x]
    BY <1>1 DEF ApiInv, ApiTypeOK
  <1>3. x.pc # "answered"
    BY <1>1 DEF ApiInv, TaskInv, NoTask
  <1> DEFINE y == [NoTask EXCEPT !.pc = "over", !.result = a]
  <1>4. y.pc = "over" /\ y.result = a
    BY DEF NoTask
  <1>5. task' = [task EXCEPT ![c] = y]
    BY DEF Over
  <1> HIDE DEF y
  <1> QED
    BY <1>1, <1>2, <1>3, <1>4, <1>5, StepFits DEF ApiInv

-----------------------------------------------------------------------------
LEMMA ReplyStatus ==
    ASSUME NEW s \in {200, 202, 400, 500, 503}
    PROVE  /\ Reply(s) \in Answer /\ Reply(s).status = s
           /\ \A k \in Keys : /\ [Reply(s) EXCEPT !.key = k] \in Answer
                              /\ [Reply(s) EXCEPT !.key = k].status = s
                              /\ [Reply(s) EXCEPT !.key = k].key = k
  <1>1. Reply(s) \in Answer /\ Reply(s).status = s
    BY DEF Reply, Answer
  <1>2. \A r \in Answer : \A k \in Keys : /\ [r EXCEPT !.key = k] \in Answer
                                          /\ [r EXCEPT !.key = k].status = r.status
                                          /\ [r EXCEPT !.key = k].key = k
    BY DEF Answer
  <1> QED
    BY <1>1, <1>2

LEMMA RunReplyStatus ==
    ASSUME NEW n \in Nat, NEW e \in Nat
    PROVE  RunReply(n, e).status = 200
  BY DEF RunReply, Reply

(* Every crate blames a limit out of range on its client.                  *)
LEMMA LimitChecked ==
    ASSUME NEW queue \in Queues, NEW limit
    PROVE  RunRequest(queue, limit) = IF limit \in 1 .. MaxLimit THEN NoAnswer ELSE Reply(400)
  <1>1. OutboxStatus("limit out of range") = 400
    <2>1. OutboxKind("limit out of range") = "invalid"
      BY DEF OutboxKind
    <2> QED
      BY <2>1 DEF OutboxStatus
  <1>2. /\ InboxStatus("limit out of range") = 400
        /\ CommandingStatus("limit out of range") = 400
        /\ EventingStatus("limit out of range") = 400
    BY DEF InboxStatus, CommandingStatus, EventingStatus, InboxClientErrors,
           CommandingClientErrors, EventingClientErrors
  <1> QED
    BY <1>1, <1>2 DEF Queues, RunRequest, Checked, InboxRunRequest, RunCommandsRequest,
                      RunEventsRequest, RunOutboxRequest

LEMMA EarlyRefusals ==
    ASSUME NEW r \in Requests
    PROVE  LET early == {AxumRefuses(r), PoemRefuses(r)} \ {NoAnswer} IN
           IF r.op # "submit" /\ Blamed(r) THEN early = {Reply(400)} ELSE early = {}
  <1>1. Reply(400) # NoAnswer
    BY DEF NoAnswer, Reply
  <1>2. CASE r.op = "unreadable"
    BY <1>1, <1>2 DEF AxumRefuses, PoemRefuses, Blamed
  <1>3. CASE r.op = "submit"
    BY <1>1, <1>3 DEF AxumRefuses, PoemRefuses
  <1>4. CASE r.op = "run"
    <2>1. r.queue \in Queues
      BY <1>4 DEF Requests
    <2>2. RunRequest(r.queue, r.limit) =
              IF r.limit \in 1 .. MaxLimit THEN NoAnswer ELSE Reply(400)
      BY <2>1, LimitChecked
    <2> QED
      BY <1>1, <1>4, <2>2 DEF AxumRefuses, PoemRefuses, Blamed
  <1> QED
    BY <1>2, <1>3, <1>4 DEF Requests

LEMMA RefusalsFit ==
    ASSUME NEW r \in Requests, NEW a \in Refusals(r)
    PROVE  a \in Answer /\ (\/ a.status = 400 /\ Blamed(r)
                            \/ a.status = 503 /\ Unavailable(r))
  <1>1. OutboxStatus("no publisher") = 503
    <2>1. OutboxKind("no publisher") = "unavailable"
      BY DEF OutboxKind
    <2> QED
      BY <2>1 DEF OutboxStatus
  <1> DEFINE early == {AxumRefuses(r), PoemRefuses(r)} \ {NoAnswer}
  <1>2. early = {} \/ (early = {Reply(400)} /\ Blamed(r))
    BY EarlyRefusals
  <1>3. a \in early \/ (a = Reply(503) /\ Unavailable(r))
    BY <1>1 DEF Refusals
  <1> HIDE DEF early
  <1>4. \/ a = Reply(400) /\ Blamed(r)
        \/ a = Reply(503) /\ Unavailable(r)
    BY <1>2, <1>3
  <1> QED
    BY <1>4, ReplyStatus

LEMMA AcceptedAreAdmitted ==
    ASSUME NEW r \in Requests, Refusals(r) = {}
    PROVE  Admitted(r)
  <1> SUFFICES ASSUME r.op = "run" PROVE ~ Blamed(r) /\ ~ Unavailable(r)
    BY DEF Admitted
  <1> DEFINE early == {AxumRefuses(r), PoemRefuses(r)} \ {NoAnswer}
  <1>1. Blamed(r) => early = {Reply(400)}
    BY EarlyRefusals
  <1>2. early = {} /\ ~ Unavailable(r)
    BY DEF Refusals
  <1> HIDE DEF early
  <1> QED
    BY <1>1, <1>2

-----------------------------------------------------------------------------
LEMMA FaultLasts ==
    ASSUME ApiInv, Fault
    PROVE  faults > 0 => faults' > 0
  BY ApiAssumption DEF ApiAssumption, ApiInv, ApiTypeOK, Fault

(* A 500 is true of the step in which something went wrong.                *)
LEMMA FailureFits ==
    ASSUME ApiInv, Fault, NEW r
    PROVE  Fits(r, Reply(500))'
  <1>1. faults' > 0
    BY ApiAssumption DEF ApiAssumption, ApiInv, ApiTypeOK, Fault
  <1>2. PICK a : a = Reply(500)
    OBVIOUS
  <1>3. a \in Answer /\ a.status = 500
    BY <1>2, ReplyStatus
  <1>4. Fits(r, a)'
    BY <1>1, <1>3 DEF Fits
  <1> QED
    BY <1>2, <1>4

LEMMA RefuseFits ==
    ASSUME ApiInv, AllFit, NEW c \in Calls, NEW r \in Asked, Refuse(c, r)
    PROVE  AllFit'
  <1>1. r \in Requests
    BY AskedAssumption DEF AskedAssumption
  <1>2. PICK a \in Refusals(r) :
            call' = [call EXCEPT ![c].pc = "answered", ![c].request = r, ![c].answer = a]
    BY DEF Refuse
  <1>3. PICK k \in Connection : k = call[c]
    BY DEF ApiInv, ApiTypeOK, Connection, CallPC
  <1> DEFINE x == [k EXCEPT !.pc = "answered", !.request = r, !.answer = a]
  <1>4. x.pc = "answered" /\ x.request = r /\ x.answer = a
    BY DEF Connection
  <1>5. call' = [call EXCEPT ![c] = x]
    BY <1>2, <1>3
  <1> HIDE DEF x
  <1>6. Fits(r, a)'
    BY <1>1, <1>2, RefusalsFit DEF Fits
  <1>7. NoTask.pc = "none"
    BY DEF NoTask
  <1>8. task' = [task EXCEPT ![c] = NoTask]
    BY DEF Refuse, ApiInv, ApiTypeOK, TaskInv
  <1>9. Lasting
    BY DEF Refuse, Lasting
  <1> QED
    BY <1>4, <1>5, <1>6, <1>7, <1>8, <1>9, StepFits DEF ApiInv

LEMMA AcceptFits ==
    ASSUME ApiInv, AllFit, NEW c \in Calls, NEW r \in Asked, Accept(c, r)
    PROVE  AllFit'
  <1>1. Admitted(r)
    BY AskedAssumption, AcceptedAreAdmitted DEF AskedAssumption, Accept
  <1>2. PICK k \in Connection : k = call[c]
    BY DEF ApiInv, ApiTypeOK, Connection, CallPC
  <1> DEFINE p == IF r.op = "submit" THEN "storing" ELSE "reserving"
             x == [k EXCEPT !.pc = "waiting", !.request = r]
             y == [NoTask EXCEPT !.pc = p]
  <1>3. x.pc = "waiting" /\ x.request = r
    BY DEF Connection
  <1>4. y.pc = p /\ p \in {"storing", "reserving"}
    BY DEF NoTask
  <1>5. task[c] = NoTask
    BY DEF Accept, ApiInv, TaskInv
  <1>6. call' = [call EXCEPT ![c] = x] /\ task' = [task EXCEPT ![c] = y]
    BY <1>2, <1>5 DEF Accept
  <1> HIDE DEF x, y, p
  <1>7. Lasting
    BY DEF Accept, Lasting
  <1> QED
    BY <1>1, <1>3, <1>4, <1>6, <1>7, StepFits DEF ApiInv

(* The row a message is stored under.                                      *)
LEMMA MessageFits ==
    ASSUME ApiInv, NEW c \in Calls, task[c].pc = "storing",
           NEW r, r = call[c].request, r.content \notin Unfit,
           NEW k \in MessageKeys(r), Stored(k, r.content)
    PROVE  /\ k \in Keys /\ r.key \in {NoKey, k} /\ r.op = "submit" /\ ~ Blamed(r)
           /\ \A j \in Keys : rows[j].phase # "none" => rows'[j].phase # "none"
           /\ rows'[k].phase # "none"
  <1>1. r \in Requests /\ r.op = "submit"
    BY DEF ApiInv, TaskInv
  <1>2. r.content \in Contents /\ r.key \in Keys \cup {NoKey}
    BY <1>1 DEF Requests
  <1>3. k \in Keys /\ r.key \in {NoKey, k}
    BY <1>2, ApiAssumption DEF ApiAssumption, MessageKeys
  <1>4. ~ Blamed(r)
    BY <1>1 DEF Blamed
  <1> QED
    BY <1>1, <1>2, <1>3, <1>4, StoreLasts DEF ApiInv

LEMMA SubmitFits ==
    ASSUME ApiInv, AllFit, NEW c \in Calls, Submit(c)
    PROVE  AllFit'
  <1>1. task[c].pc = "storing" /\ UNCHANGED <<call, faults>>
    BY DEF Submit
  <1>2. PICK r : r = call[c].request
    OBVIOUS
  <1>3. r \in Requests /\ r.op = "submit"
    BY <1>1, <1>2 DEF ApiInv, TaskInv
  <1>4. CASE r.content \in Unfit
    <2>1. InboxStatus("invalid message") = 400
      BY DEF InboxStatus, InboxClientErrors
    <2>2. PICK a : a = Reply(400)
      OBVIOUS
    <2>3. Over(c, a) /\ UNCHANGED rows
      BY <1>2, <1>4, <2>1, <2>2 DEF Submit
    <2>4. a \in Answer /\ a.status = 400
      BY <2>2, ReplyStatus
    <2>5. Fits(r, a)'
      BY <1>3, <1>4, <2>4 DEF Fits, Blamed
    <2>6. Lasting
      BY <1>1, <2>3 DEF Lasting
    <2> QED
      BY <1>1, <1>2, <2>3, <2>5, <2>6, OverFits
  <1>5. CASE r.content \notin Unfit
    <2>1. PICK k \in MessageKeys(r) :
              Stored(k, r.content) /\ Over(c, [Reply(202) EXCEPT !.key = k])
      BY <1>2, <1>5 DEF Submit
    <2>2. /\ k \in Keys /\ r.key \in {NoKey, k} /\ r.op = "submit" /\ ~ Blamed(r)
          /\ \A j \in Keys : rows[j].phase # "none" => rows'[j].phase # "none"
          /\ rows'[k].phase # "none"
      BY <1>1, <1>2, <1>5, <2>1, MessageFits
    <2>3. PICK a : a = [Reply(202) EXCEPT !.key = k]
      OBVIOUS
    <2>4. a \in Answer /\ a.status = 202 /\ a.key = k
      BY <2>2, <2>3, ReplyStatus
    <2>5. Fits(r, a)'
      BY <2>2, <2>4 DEF Fits
    <2>6. Lasting
      BY <1>1, <2>2 DEF Lasting
    <2> QED
      BY <1>1, <1>2, <2>1, <2>3, <2>5, <2>6, OverFits
  <1> QED
    BY <1>4, <1>5

LEMMA SubmitFailsFits ==
    ASSUME ApiInv, AllFit, NEW c \in Calls, SubmitFails(c)
    PROVE  AllFit'
  <1>1. task[c].pc = "storing" /\ UNCHANGED call /\ Fault
    BY DEF SubmitFails
  <1>2. PICK r : r = call[c].request
    OBVIOUS
  <1>3. InboxStatus("storage failed") = 500
    BY DEF InboxStatus, InboxClientErrors
  <1>4. PICK a : a = Reply(500)
    OBVIOUS
  <1>5. Over(c, a)
    BY <1>3, <1>4 DEF SubmitFails
  <1>6. Fits(r, a)'
    BY <1>1, <1>4, FailureFits
  <1>7. r.content \notin Unfit
        /\ ((\E k \in MessageKeys(r) : Stored(k, r.content)) \/ UNCHANGED rows)
    BY <1>2 DEF SubmitFails
  <1>8. \A j \in Keys : rows[j].phase # "none" => rows'[j].phase # "none"
    BY <1>1, <1>2, <1>7, MessageFits
  <1>9. Lasting
    BY <1>1, <1>8, FaultLasts DEF Lasting
  <1> QED
    BY <1>1, <1>2, <1>5, <1>6, <1>9, OverFits

LEMMA ReserveFits ==
    ASSUME ApiInv, AllFit, NEW c \in Calls, Reserve(c)
    PROVE  AllFit'
  <1>1. task[c].pc = "reserving" /\ UNCHANGED <<call, faults>>
    BY DEF Reserve
  <1>2. PICK k : k = call[c]
    OBVIOUS
  <1>3. PICK S \in Batches(k.request.queue, k.request.limit) :
            /\ Lease(c, S)
            /\ task' = [task EXCEPT ![c].pc = "batch", ![c].todo = {i \in S : Decodes(i)},
                                    ![c].count = Cardinality({i \in S : Decodes(i)})]
    BY <1>2 DEF Reserve
  <1> DEFINE T == {i \in S : Decodes(i)}
  <1>4. PICK n : n = Cardinality(T)
    OBVIOUS
  <1>5. n <= k.request.limit
    <2>1. IsFiniteSet(S) /\ Cardinality(S) <= k.request.limit
      BY FS_Subset, ApiAssumption DEF ApiAssumption, Batches, Due
    <2>2. T \subseteq S
      OBVIOUS
    <2>3. Cardinality(T) <= Cardinality(S) /\ Cardinality(T) \in Nat /\ Cardinality(S) \in Nat
      BY <2>1, <2>2, FS_Subset, FS_CardinalityType
    <2>4. k.request \in Requests /\ k.request.op = "run"
      BY <1>1, <1>2 DEF ApiInv, TaskInv, Running
    <2>5. k.request.limit \in Nat
      BY <2>4, ApiAssumption DEF ApiAssumption, Requests
    <2> QED
      BY <1>4, <2>1, <2>3, <2>5
  <1>6. PICK t \in Task : t = task[c]
    BY DEF ApiInv, ApiTypeOK
  <1>7. task' = [task EXCEPT ![c].pc = "batch", ![c].todo = T, ![c].count = n]
    BY <1>3, <1>4
  <1> HIDE DEF T
  <1> DEFINE y == [t EXCEPT !.pc = "batch", !.todo = T, !.count = n]
  <1>8. y.pc = "batch" /\ y.count = n
    BY DEF Task
  <1>9. task' = [task EXCEPT ![c] = y]
    BY <1>6, <1>7
  <1> HIDE DEF y
  <1>10. call' = [call EXCEPT ![c] = k] /\ k.pc # "answered" /\ Admitted(k.request)
    BY <1>1, <1>2 DEF ApiInv, ApiTypeOK, TaskInv, NoTask, AllFit, FitInv
  <1>11. Lasting
    BY <1>1, <1>3, LeaseLasts DEF Lasting
  <1> QED
    BY <1>5, <1>8, <1>9, <1>10, <1>11, StepFits DEF ApiInv

LEMMA ReserveFailsFits ==
    ASSUME ApiInv, AllFit, NEW c \in Calls, ReserveFails(c)
    PROVE  AllFit'
  <1>1. task[c].pc = "reserving" /\ UNCHANGED call /\ Fault
    BY DEF ReserveFails
  <1>2. PICK r, a : r = call[c].request /\ a = RunReply(0, 1)
    OBVIOUS
  <1>3. Over(c, a)
    BY <1>2 DEF ReserveFails
  <1>4. a \in Answer /\ a.processed = NoCount /\ a.status = 200
    BY <1>2, RunReplyType, RunReplyStatus
  <1>5. r.op = "run" /\ Admitted(r)
    BY <1>1, <1>2 DEF ApiInv, TaskInv, Running, AllFit, FitInv
  <1>6. Fits(r, a)'
    BY <1>4, <1>5 DEF Fits, Admitted
  <1>7. \A j \in Keys : rows[j].phase # "none" => rows'[j].phase # "none"
    BY LeaseLasts DEF ReserveFails
  <1>8. Lasting
    BY <1>1, <1>7, FaultLasts DEF Lasting
  <1> QED
    BY <1>1, <1>2, <1>3, <1>6, <1>8, OverFits

LEMMA WorkFits ==
    ASSUME ApiInv, AllFit, NEW c \in Calls, Work(c)
    PROVE  AllFit'
  <1>1. PICK t \in Task : t = task[c]
    BY DEF ApiInv, ApiTypeOK
  <1>2. PICK k \in t.todo, p \in {"completing", "failing"} :
            task' = [task EXCEPT ![c].pc = p, ![c].item = k, ![c].todo = @ \ {k}]
    BY <1>1 DEF Work
  <1> DEFINE T == t.todo \ {k}
             y == [t EXCEPT !.pc = p, !.item = k, !.todo = T]
  <1>3. task' = [task EXCEPT ![c] = y]
    BY <1>1, <1>2
  <1> HIDE DEF T
  <1>4. y.pc = p /\ y.count = t.count
    BY DEF Task
  <1> HIDE DEF y
  <1>5. Lasting /\ task[c].pc = "batch" /\ UNCHANGED call
    BY DEF Work, Lasting
  <1>6. Midway(y) /\ y.count = task[c].count /\ Midway(task[c])
    BY <1>1, <1>4, <1>5 DEF Midway
  <1> QED
    BY <1>3, <1>5, <1>6, GoesOnFits

LEMMA NextItemFits ==
    ASSUME ApiInv, AllFit, Lasting, NEW c \in Calls,
           task[c].pc \in {"completing", "failing"}, NEW n, NextItem(c, n), UNCHANGED call
    PROVE  AllFit'
  <1>1. PICK t \in Task : t = task[c]
    BY DEF ApiInv, ApiTypeOK
  <1> DEFINE y == [t EXCEPT !.pc = "batch", !.item = NoKey, !.errors = @ + n]
  <1>2. task' = [task EXCEPT ![c] = y]
    BY <1>1 DEF NextItem
  <1>3. y.pc = "batch" /\ y.count = t.count
    BY DEF Task
  <1> HIDE DEF y
  <1>4. Midway(y) /\ y.count = task[c].count /\ Midway(task[c])
    BY <1>1, <1>3 DEF Midway
  <1> QED
    BY <1>2, <1>4, GoesOnFits

LEMMA FailingFits ==
    ASSUME ApiInv, AllFit, Lasting, NEW c \in Calls, task[c].pc = "completing",
           task' = [task EXCEPT ![c].pc = "failing"], UNCHANGED call
    PROVE  AllFit'
  <1>1. PICK t \in Task : t = task[c]
    BY DEF ApiInv, ApiTypeOK
  <1> DEFINE y == [t EXCEPT !.pc = "failing"]
  <1>2. task' = [task EXCEPT ![c] = y]
    BY <1>1
  <1>3. y.pc = "failing" /\ y.count = t.count
    BY DEF Task
  <1> HIDE DEF y
  <1>4. Midway(y) /\ y.count = task[c].count /\ Midway(task[c])
    BY <1>1, <1>3 DEF Midway
  <1> QED
    BY <1>2, <1>4, GoesOnFits

LEMMA ItemFits ==
    ASSUME ApiInv, AllFit, NEW c \in Calls,
           Complete(c) \/ Fail(c) \/ CompleteFails(c) \/ FailFails(c)
    PROVE  AllFit'
  <1>1. task[c].pc \in {"completing", "failing"} /\ UNCHANGED call
    BY DEF Complete, Fail, CompleteFails, FailFails
  <1>2. \/ UNCHANGED rows
        \/ \E p \in {"open", "done"} : rows' = [rows EXCEPT ![task[c].item].phase = p]
    BY DEF Complete, Fail, CompleteFails, FailFails
  <1>3. \A j \in Keys : rows[j].phase # "none" => rows'[j].phase # "none"
    BY <1>2, PhaseLasts DEF ApiInv
  <1>4. Lasting
    BY <1>3, FaultLasts DEF Lasting, Complete, Fail, CompleteFails, FailFails
  <1>5. \/ \E n \in {0, 1, 2} : NextItem(c, n)
        \/ task[c].pc = "completing" /\ task' = [task EXCEPT ![c].pc = "failing"]
    BY DEF Complete, Fail, CompleteFails, FailFails
  <1> QED
    BY <1>1, <1>4, <1>5, NextItemFits, FailingFits

(* A run counted no more than its limit when it reserved.                  *)
LEMMA EndRunFits ==
    ASSUME ApiInv, AllFit, NEW c \in Calls, EndRun(c)
    PROVE  AllFit'
  <1>1. PICK t \in Task : t = task[c]
    BY DEF ApiInv, ApiTypeOK
  <1>2. task[c].pc = "batch" /\ UNCHANGED <<rows, call, faults>>
    BY DEF EndRun
  <1>3. PICK r, a : r = call[c].request /\ a = RunReply(t.count, t.errors)
    OBVIOUS
  <1>4. Over(c, a)
    BY <1>1, <1>3 DEF EndRun
  <1>5. /\ a \in Answer /\ a.status = 200
        /\ a.processed = NoCount \/ a.processed = t.count
    BY <1>3, RunReplyType, RunReplyStatus DEF Task
  <1>6. r.op = "run" /\ Admitted(r) /\ t.count <= r.limit
    BY <1>1, <1>2, <1>3 DEF ApiInv, TaskInv, Running, AllFit, FitInv
  <1>7. Fits(r, a)'
    BY <1>5, <1>6 DEF Fits, Admitted
  <1>8. Lasting
    BY <1>2 DEF Lasting
  <1> QED
    BY <1>2, <1>3, <1>4, <1>7, <1>8, OverFits

LEMMA TaskFailsFits ==
    ASSUME ApiInv, AllFit, NEW c \in Calls, TaskFails(c)
    PROVE  AllFit'
  <1>1. UNCHANGED <<rows, call>> /\ task[c].pc \notin {"none", "over"} /\ Fault
    BY DEF TaskFails
  <1>2. PICK r : r = call[c].request
    OBVIOUS
  <1> DEFINE queue == IF r.op = "submit" THEN "inbox" ELSE r.queue
  <1>3. Over(c, Reply(Status(queue, "task failed")))
    BY <1>2 DEF TaskFails
  <1>4. queue \in Queues
    <2>1. task[c].pc \in {"storing"} \cup Running
      BY <1>1 DEF ApiInv, ApiTypeOK, Task, Running
    <2>2. r \in Requests /\ r.op \in {"submit", "run"}
      BY <1>2, <2>1 DEF ApiInv, TaskInv
    <2>3. r.op = "run" => r.queue \in Queues
      BY <2>2 DEF Requests
    <2> QED
      BY <2>2, <2>3 DEF Queues
  <1> HIDE DEF queue
  <1>5. Status(queue, "task failed") = 500
    <2>1. OutboxStatus("task failed") = 500
      <3>1. OutboxKind("task failed") = "internal"
        BY DEF OutboxKind
      <3> QED
        BY <3>1 DEF OutboxStatus
    <2>2. /\ InboxStatus("task failed") = 500
          /\ CommandingStatus("task failed") = 500
          /\ EventingStatus("task failed") = 500
      BY DEF InboxStatus, CommandingStatus, EventingStatus, InboxClientErrors,
             CommandingClientErrors, EventingClientErrors
    <2> QED
      BY <1>4, <2>1, <2>2 DEF Queues, Status
  <1>6. PICK a : a = Reply(500)
    OBVIOUS
  <1>7. Over(c, a)
    BY <1>3, <1>5, <1>6
  <1>8. Fits(r, a)'
    BY <1>1, <1>6, FailureFits
  <1>9. Lasting
    BY <1>1, FaultLasts DEF Lasting
  <1> QED
    BY <1>1, <1>2, <1>7, <1>8, <1>9, OverFits

LEMMA RespondFits ==
    ASSUME ApiInv, AllFit, NEW c \in Calls, Respond(c)
    PROVE  AllFit'
  <1>1. PICK k \in Connection : k = call[c]
    BY DEF ApiInv, ApiTypeOK, Connection, CallPC
  <1>2. PICK t : t = task[c]
    OBVIOUS
  <1> DEFINE x == [k EXCEPT !.pc = "answered", !.answer = t.result]
  <1>3. x.pc = "answered" /\ x.request = k.request /\ x.answer = t.result
    BY DEF Connection
  <1>4. call' = [call EXCEPT ![c] = x] /\ task' = [task EXCEPT ![c] = NoTask]
    BY <1>1, <1>2 DEF Respond
  <1> HIDE DEF x
  <1>5. Lasting
    BY DEF Respond, Lasting
  <1>6. Fits(k.request, t.result)
    BY <1>1, <1>2 DEF Respond, AllFit, FitInv
  <1>7. Fits(k.request, t.result)'
    BY <1>5, <1>6, FitsStays
  <1>8. Fits(x.request, x.answer)'
    BY <1>3, <1>7
  <1>9. NoTask.pc = "none"
    BY DEF NoTask
  <1> QED
    BY <1>4, <1>5, <1>8, <1>9, StepFits DEF ApiInv

LEMMA DisconnectFits ==
    ASSUME ApiInv, AllFit, NEW c \in Calls, Disconnect(c)
    PROVE  AllFit'
  <1>1. PICK k \in Connection : k = call[c]
    BY DEF ApiInv, ApiTypeOK, Connection, CallPC
  <1>2. PICK t : t = task[c]
    OBVIOUS
  <1> DEFINE x == [k EXCEPT !.pc = "gone"]
  <1>3. x.pc = "gone" /\ x.request = k.request
    BY DEF Connection
  <1>4. call' = [call EXCEPT ![c] = x] /\ task' = [task EXCEPT ![c] = t]
    BY <1>1, <1>2 DEF Disconnect, ApiInv, ApiTypeOK
  <1> HIDE DEF x
  <1>5. Lasting
    BY DEF Disconnect, Lasting
  <1>6. /\ t.pc \notin {"none", "over"} => Admitted(k.request)
        /\ t.pc \in {"batch", "completing", "failing"} => t.count <= k.request.limit
        /\ t.pc = "over" => Fits(k.request, t.result)
    BY <1>1, <1>2 DEF AllFit, FitInv
  <1>7. t.pc = "over" => Fits(k.request, t.result)'
    BY <1>5, <1>6, FitsStays
  <1>8. t.pc = "over" => Fits(x.request, t.result)'
    BY <1>3, <1>7
  <1> QED
    BY <1>3, <1>4, <1>5, <1>6, <1>8, StepFits DEF ApiInv

(* Nothing is said and nothing said is disturbed.                          *)
LEMMA SilentFits ==
    ASSUME AllFit, Lasting, UNCHANGED <<call, task>>
    PROVE  AllFit'
  <1> SUFFICES ASSUME NEW c \in Calls PROVE FitInv(c)'
    BY DEF AllFit
  <1>1. PICK x, y : x = call[c] /\ y = task[c] /\ x = call'[c] /\ y = task'[c]
    OBVIOUS
  <1>2. /\ y.pc = "over" => Fits(x.request, y.result)
        /\ x.pc = "answered" => Fits(x.request, x.answer)
    BY <1>1 DEF AllFit, FitInv
  <1>3. /\ y.pc = "over" => Fits(x.request, y.result)'
        /\ x.pc = "answered" => Fits(x.request, x.answer)'
    BY <1>2, FitsStays
  <1> QED
    BY <1>1, <1>3 DEF AllFit, FitInv, Admitted, Blamed, Unavailable

LEMMA NextFits == ApiInv /\ AllFit /\ [Next]_vars => AllFit'
  <1> SUFFICES ASSUME ApiInv, AllFit, [Next]_vars PROVE AllFit'
    OBVIOUS
  <1>1. ASSUME NEW c \in Calls, NEW r \in Asked, Refuse(c, r) \/ Accept(c, r) PROVE AllFit'
    BY <1>1, RefuseFits, AcceptFits
  <1>2. ASSUME NEW c \in Calls, TaskStep(c) PROVE AllFit'
    BY <1>2, SubmitFits, ReserveFits, WorkFits, ItemFits, EndRunFits DEF TaskStep
  <1>3. ASSUME NEW c \in Calls, TaskTrouble(c) PROVE AllFit'
    BY <1>3, SubmitFailsFits, ReserveFailsFits, ItemFits, TaskFailsFits DEF TaskTrouble
  <1>4. ASSUME NEW c \in Calls, Respond(c) \/ Disconnect(c) PROVE AllFit'
    BY <1>4, RespondFits, DisconnectFits
  <1>5. ASSUME NEW k \in Keys, Sweep(k) PROVE AllFit'
    <2>1. \A j \in Keys : rows[j].phase # "none" => rows'[j].phase # "none"
      BY <1>5, PhaseLasts DEF Sweep, ApiInv
    <2> QED
      BY <1>5, <2>1, SilentFits DEF Sweep, Lasting
  <1>6. CASE UNCHANGED vars
    BY <1>6, SilentFits DEF vars, Lasting
  <1> QED
    BY <1>1, <1>2, <1>3, <1>4, <1>5, <1>6 DEF Next

-----------------------------------------------------------------------------
THEOREM ApiInvariance == Spec => []ApiInv
  <1>1. ApiInv /\ [Next]_vars => ApiInv'
    BY NextKept DEF Kept
  <1> QED
    BY <1>1, ApiInit, PTL DEF Spec

(* Tables, requests and tasks keep their types: whatever is asked for, run *)
(* in parallel, lost or swept, no row is tried beyond max_attempts.        *)
THEOREM ApiTypeCorrect == Spec => []ApiTypeOK
  <1>1. ApiInv => ApiTypeOK
    BY DEF ApiInv
  <1> QED
    BY <1>1, ApiInvariance, PTL

(* What an answer tells its client is so, for any requests, limits and     *)
(* faults: 400 blames a request that can never be accepted, 503 an outbox  *)
(* nobody publishes, 500 follows a fault, 202 names the stored row, under  *)
(* the client's id if it sent one, and no run counts beyond its limit.     *)
THEOREM AnswersFitRequests == Spec => []AnswersFit
  <1>1. Init => AllFit
    BY DEF Init, AllFit, FitInv, NoTask
  <1>2. ApiInv /\ AllFit /\ [Next]_vars => AllFit'
    BY NextFits
  <1>3. AllFit => AnswersFit
    BY DEF AllFit, FitInv, AnswersFit
  <1> QED
    BY <1>1, <1>2, <1>3, ApiInvariance, PTL DEF Spec

(* A run that reports a number completed exactly that many rows itself,    *)
(* whoever else runs the queue, sweeps it or takes rows over from the run. *)
THEOREM ProcessedAreCompleted == Spec => []ProcessedIsCompleted
  <1>1. ApiInv => ProcessedIsCompleted
    BY DEF ApiInv, CountInv, Tells, ProcessedIsCompleted
  <1> QED
    BY <1>1, ApiInvariance, PTL

(* Sending a message again changes nothing: its row keeps what it says and *)
(* how often it was tried, and once completed it stays so.                 *)
THEOREM FirstSubmissionsStay == Spec => FirstSubmissionStays
  <1>1. ApiInv /\ [Next]_vars =>
            [\A k \in Keys : rows[k].phase # "none" =>
                /\ rows'[k].content = rows[k].content
                /\ rows'[k].tries >= rows[k].tries
                /\ rows[k].phase = "done" => rows'[k].phase = "done"]_vars
    BY NextKept DEF Kept, RowsStay
  <1> QED
    BY <1>1, ApiInvariance, PTL DEF Spec, FirstSubmissionStays
=============================================================================
