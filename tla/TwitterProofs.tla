--------------------------- MODULE TwitterProofs ---------------------------
(***************************************************************************)
(* Theorems about the Twitter application, for any users, tweets,          *)
(* requests, messages, callers, workers, retries and faults.  What the     *)
(* endpoints add to the kernel leaves its promises alone: every step of    *)
(* the service is a step of the kernel, or a fault of its own that touches *)
(* none of the three tables; so far the handlers may be any.  What its     *)
(* events and its timelines promise is a promise of the application's own  *)
(* handlers, so there the kernel is taken to run those (Wired).            *)
(***************************************************************************)
EXTENDS Twitter, KernelProofs

(***************************************************************************)
(* The requests and the received messages.                                 *)
(***************************************************************************)
HttpPC == {"idle", "received", "dispatching", "reading", "answered", "gone"}
Statuses == {0, 200, 204, 400, 404, 409, 500}
Marks == {"none", "received", "processed", "failed"}

Http == [pc : HttpPC, request : Requests \cup {NoRequest},
         message : Messages \cup {NoMessage}, status : Statuses]

EndpointType == inbox \in [Messages -> Marks] /\ http \in [Callers -> Http]

(* A message between its receipt and its dispatch names what it carries.   *)
ReceivedInv ==
    \A c \in Callers : http[c].pc = "received" => http[c].request \in Requests

ServiceInv == EndpointType /\ ReceivedInv

(* The endpoint's own step: the queues and the tables are left alone.      *)
Aside == UNCHANGED <<db, memory, rows, agent, heard, claims>> /\ faults' \in Nat

LEMMA ServingType ==
    ASSUME NEW r \in Requests, NEW m \in Messages \cup {NoMessage}
    PROVE  \A pc \in HttpPC : /\ Serving(pc, r, m) \in Http
                              /\ Serving(pc, r, m).pc = pc
                              /\ Serving(pc, r, m).request = r
  BY DEF Serving, Http, HttpPC, Statuses

(* A request moves on, or is answered.                                     *)
LEMMA HttpMoves ==
    ASSUME ServiceInv, NEW c \in Callers, NEW x \in Http,
           http' = [http EXCEPT ![c] = x],
           x.pc = "received" => x.request \in Requests
    PROVE  http' \in [Callers -> Http] /\ ReceivedInv'
  BY DEF ServiceInv, EndpointType, ReceivedInv

LEMMA PcMovesOn ==
    ASSUME ServiceInv, NEW c \in Callers, NEW pc \in HttpPC \ {"received"},
           http' = [http EXCEPT ![c].pc = pc]
    PROVE  http' \in [Callers -> Http] /\ ReceivedInv'
  <1>1. [http[c] EXCEPT !.pc = pc] \in Http /\ [http[c] EXCEPT !.pc = pc].pc = pc
    BY DEF ServiceInv, EndpointType, Http
  <1>2. http' = [http EXCEPT ![c] = [http[c] EXCEPT !.pc = pc]]
    OBVIOUS
  <1> QED
    BY <1>1, <1>2 DEF ServiceInv, EndpointType, ReceivedInv

LEMMA AnswersMoves ==
    ASSUME ServiceInv, NEW c \in Callers, NEW s \in Statuses, Answers(c, s)
    PROVE  http' \in [Callers -> Http] /\ ReceivedInv'
  <1>1. PICK x \in Http : x = http[c]
    BY DEF ServiceInv, EndpointType
  <1>2. [x EXCEPT !.pc = "answered", !.status = s] \in Http
    BY DEF Http, HttpPC
  <1>3. [x EXCEPT !.pc = "answered", !.status = s].pc = "answered"
    BY DEF Http
  <1>4. http' = [http EXCEPT ![c] = [x EXCEPT !.pc = "answered", !.status = s]]
    BY <1>1 DEF Answers
  <1> QED
    BY <1>2, <1>3, <1>4 DEF ServiceInv, EndpointType, ReceivedInv

LEMMA StatusType ==
    /\ \A reason : Interpret(reason) \in Statuses
    /\ \A d, r, m : Success(d, r, m) \in Statuses
  <1>1. \A found : Entity(found) \in Statuses
    BY DEF Entity, Statuses
  <1>2. \A d, r : Reply(d, r) \in Statuses
    BY <1>1 DEF Reply, PostTweetReply, DeleteTweetReply, RetweetReply, LikeTweetReply,
                UnlikeTweetReply, FollowUserReply, UnfollowUserReply,
                SendDirectMessageReply, NoContent, Statuses
  <1> QED
    BY <1>2 DEF Interpret, Success, MaterializeEntity, Statuses

-----------------------------------------------------------------------------
(***************************************************************************)
(* One lemma per step of an endpoint: it is a step of the kernel or one    *)
(* aside, and the requests keep their types.                               *)
(***************************************************************************)
Served == ([Next]_vars \/ Aside) /\ ServiceInv'

LEMMA AsideType ==
    ASSUME Inv
    PROVE  /\ UNCHANGED vars => Aside
           /\ Fault /\ UNCHANGED <<db, memory, error, rows, agent, heard, claims>> => Aside
  BY FaultType DEF Aside, vars, Inv, CoreType

LEMMA SubmitNext ==
    ASSUME NEW c \in Callers, NEW r \in Requests, NEW i \in Ids,
           i \in Unused("command") => i = FreshId("command"),
           Submit(c, r, i) \/ SubmitFails(c, r, i)
    PROVE  Next
  BY DEF Next

LEMMA InvalidStep ==
    ASSUME Inv, ServiceInv, NEW c \in Callers, NEW r \in Plain, Invalid(c, r)
    PROVE  Served
  <1>1. r \in Requests
    BY TwitterAssumption DEF TwitterAssumption
  <1>2. http' \in [Callers -> Http] /\ ReceivedInv'
    <2> DEFINE y == [Serving("answered", r, NoMessage) EXCEPT !.status = 400]
    <2>1. y \in Http /\ y.pc = "answered"
      BY <1>1 DEF Serving, Http, HttpPC, Statuses
    <2> HIDE DEF y
    <2>2. http' = [http EXCEPT ![c] = y]
      BY DEF Invalid, y
    <2> QED
      BY <2>1, <2>2, HttpMoves
  <1>3. Aside
    BY AsideType DEF Invalid
  <1> QED
    BY <1>2, <1>3 DEF Invalid, Served, ServiceInv, EndpointType

LEMMA RequestStep ==
    ASSUME Inv, ServiceInv, NEW c \in Callers, NEW r \in Plain, Request(c, r)
    PROVE  Served
  <1>1. r \in Requests
    BY TwitterAssumption DEF TwitterAssumption
  <1>2. http' \in [Callers -> Http] /\ ReceivedInv'
    <2> DEFINE y == Serving("dispatching", r, NoMessage)
    <2>1. y \in Http /\ y.pc = "dispatching"
      BY <1>1, ServingType DEF HttpPC
    <2>2. http' = [http EXCEPT ![c] = y]
      BY DEF Request
    <2> HIDE DEF y
    <2> QED
      BY <2>1, <2>2, HttpMoves
  <1>3. Next
    <2>1. PICK i \in Unused("command") :
             /\ i = FreshId("command")
             /\ Submit(c, r, i) \/ SubmitFails(c, r, i)
      BY DEF Request, FreshId
    <2> QED
      BY <1>1, <2>1, SubmitNext DEF Unused
  <1> QED
    BY <1>2, <1>3 DEF Request, Served, ServiceInv, EndpointType

LEMMA ReceiptStep ==
    ASSUME Inv, ServiceInv, NEW c \in Callers, NEW r \in Inbound, NEW m \in Messages,
           Receipt(c, r, m)
    PROVE  Served
  <1>1. r \in Requests
    BY TwitterAssumption DEF TwitterAssumption
  <1>2. Aside
    BY AsideType DEF Receipt
  <1>3. CASE inbox[m] = "none"
    <2>1. http' \in [Callers -> Http] /\ ReceivedInv'
      <3> DEFINE y == Serving("received", r, m)
      <3>1. y \in Http /\ y.request = r
        BY <1>1, ServingType DEF HttpPC
      <3>2. http' = [http EXCEPT ![c] = y]
        BY <1>3 DEF Receipt
      <3> HIDE DEF y
      <3> QED
        BY <1>1, <3>1, <3>2, HttpMoves
    <2>3. inbox' \in [Messages -> Marks]
      BY <1>3 DEF Receipt, ServiceInv, EndpointType, Marks
    <2> QED
      BY <1>2, <2>1, <2>3 DEF Served, ServiceInv, EndpointType
  <1>4. CASE inbox[m] # "none"
    <2>2. http' \in [Callers -> Http] /\ ReceivedInv'
      <3> DEFINE y == [Serving("answered", r, m) EXCEPT !.status = 409]
      <3>1. y \in Http /\ y.pc = "answered"
        BY <1>1 DEF Serving, Http, HttpPC, Statuses
      <3> HIDE DEF y
      <3>2. http' = [http EXCEPT ![c] = y]
        BY <1>4 DEF Receipt, y
      <3> QED
        BY <3>1, <3>2, HttpMoves
    <2> QED
      BY <1>2, <1>4, <2>2 DEF Receipt, Served, ServiceInv, EndpointType
  <1> QED
    BY <1>3, <1>4

LEMMA DispatchInboundStep ==
    ASSUME Inv, ServiceInv, NEW c \in Callers, DispatchInbound(c)
    PROVE  Served
  <1>1. http[c].request \in Requests
    BY DEF DispatchInbound, ServiceInv, ReceivedInv
  <1>2. http' \in [Callers -> Http] /\ ReceivedInv'
    BY PcMovesOn DEF DispatchInbound, HttpPC
  <1>3. Next
    <2>1. PICK i \in Ids :
             /\ i \in Unused("command") => i = FreshId("command")
             /\ Submit(c, http[c].request, i) \/ SubmitFails(c, http[c].request, i)
      BY DEF DispatchInbound
    <2> QED
      BY <1>1, <2>1, SubmitNext
  <1> QED
    BY <1>2, <1>3 DEF DispatchInbound, Served, ServiceInv, EndpointType

LEMMA ReturnedStep ==
    ASSUME Inv, ServiceInv, NEW c \in Callers, Returned(c)
    PROVE  Served
  <1>1. Aside
    BY AsideType DEF Returned
  <1>2. inbox' \in [Messages -> Marks]
    BY DEF Returned, ServiceInv, EndpointType, Marks
  <1>3. http' \in [Callers -> Http] /\ ReceivedInv'
    <2>1. CASE Answers(c, Interpret(error[c]))
      BY <2>1, AnswersMoves, StatusType
    <2>2. CASE http' = [http EXCEPT ![c].pc = "reading"]
      BY <2>2, PcMovesOn DEF HttpPC
    <2> QED
      BY <2>1, <2>2 DEF Returned
  <1> QED
    BY <1>1, <1>2, <1>3 DEF Served, ServiceInv, EndpointType

LEMMA AnswerStep ==
    ASSUME Inv, ServiceInv, NEW c \in Callers, Answer(c)
    PROVE  Served
  <1>1. Aside
    BY AsideType DEF Answer
  <1>2. http' \in [Callers -> Http] /\ ReceivedInv'
    BY AnswersMoves, StatusType DEF Answer
  <1> QED
    BY <1>1, <1>2 DEF Answer, Served, ServiceInv, EndpointType

LEMMA DisconnectStep ==
    ASSUME Inv, ServiceInv, NEW c \in Callers, Disconnect(c)
    PROVE  Served
  <1>1. Aside
    BY AsideType DEF Disconnect
  <1>2. http' \in [Callers -> Http] /\ ReceivedInv'
    BY PcMovesOn DEF Disconnect, HttpPC
  <1> QED
    BY <1>1, <1>2 DEF Disconnect, Served, ServiceInv, EndpointType

LEMMA StatementFailsStep ==
    ASSUME Inv, ServiceInv, NEW c \in Callers, StatementFails(c)
    PROVE  Served
  <1>1. Aside
    BY AsideType DEF StatementFails
  <1>2. CASE Answers(c, 500) /\ UNCHANGED inbox
    <2>1. http' \in [Callers -> Http] /\ ReceivedInv'
      BY <1>2, AnswersMoves DEF Statuses
    <2> QED
      BY <1>1, <1>2, <2>1 DEF Served, ServiceInv, EndpointType
  <1>3. ASSUME NEW r \in Inbound, NEW m \in Messages,
               inbox' = [inbox EXCEPT ![m] = "received"] \/ UNCHANGED inbox,
               http' = [http EXCEPT ![c] =
                           [Serving("answered", r, m) EXCEPT !.status = 500]]
        PROVE  Served
    <2>1. r \in Requests
      BY TwitterAssumption DEF TwitterAssumption
    <2>3. http' \in [Callers -> Http] /\ ReceivedInv'
      <3> DEFINE y == [Serving("answered", r, m) EXCEPT !.status = 500]
      <3>1. y \in Http /\ y.pc = "answered"
        BY <2>1 DEF Serving, Http, HttpPC, Statuses
      <3> HIDE DEF y
      <3>2. http' = [http EXCEPT ![c] = y]
        BY <1>3 DEF y
      <3> QED
        BY <3>1, <3>2, HttpMoves
    <2>4. inbox' \in [Messages -> Marks]
      BY <1>3 DEF ServiceInv, EndpointType, Marks
    <2> QED
      BY <1>1, <2>3, <2>4 DEF Served, ServiceInv, EndpointType
  <1> QED
    BY <1>2, <1>3 DEF StatementFails

LEMMA TwitterInitInv == TwitterInit => Inv /\ LockInv /\ ServiceInv
  <1> SUFFICES ASSUME TwitterInit PROVE Inv /\ LockInv /\ ServiceInv
    OBVIOUS
  <1>1. Inv /\ LockInv
    BY InitInv, InitLocks DEF TwitterInit
  <1>2. Serving("idle", NoRequest, NoMessage) \in Http
    BY DEF Serving, Http, HttpPC, Statuses
  <1>3. Serving("idle", NoRequest, NoMessage).pc = "idle"
    BY DEF Serving
  <1> QED
    BY <1>1, <1>2, <1>3 DEF TwitterInit, ServiceInv, EndpointType, ReceivedInv, Marks

LEMMA TwitterStep ==
    ASSUME Inv, ServiceInv, [TwitterNext]_<<vars, twitterVars>>
    PROVE  Served
  <1>1. ASSUME NEW c \in Callers, Endpoint(c) PROVE Served
    BY <1>1, InvalidStep, RequestStep, ReceiptStep, DispatchInboundStep, ReturnedStep,
       AnswerStep, DisconnectStep, StatementFailsStep DEF Endpoint
  <1>2. ASSUME UNCHANGED twitterVars, [Next]_vars PROVE Served
    BY <1>2 DEF Served, ServiceInv, EndpointType, ReceivedInv, twitterVars
  <1>3. KernelStep => Next
    BY DEF Next
  <1> QED
    BY <1>1, <1>2, <1>3 DEF TwitterNext

LEMMA ServedInv ==
    ASSUME Inv, LockInv, Served
    PROVE  Inv' /\ LockInv' /\ ServiceInv'
  <1>1. CASE [Next]_vars
    BY <1>1, NextInv DEF Served
  <1>2. CASE Aside
    <2>1. FaultOnly /\ UNCHANGED <<rows, agent, locks, dropped, crowded>>
      BY <1>2 DEF Aside, FaultOnly, claims
    <2> QED
      BY <2>1, FaultOnlyInv DEF Served, LockInv, Leasable
  <1> QED
    BY <1>1, <1>2 DEF Served

(* Every step of the application keeps the kernel's invariant, and the     *)
(* requests in hand keep their types.                                      *)
THEOREM TwitterInvariance == TwitterSpec => [](Inv /\ LockInv /\ ServiceInv)
  <1>1. Inv /\ LockInv /\ ServiceInv /\ [TwitterNext]_<<vars, twitterVars>> =>
           Inv' /\ LockInv' /\ ServiceInv'
    BY TwitterStep, ServedInv
  <1> QED
    BY <1>1, TwitterInitInv, PTL DEF TwitterSpec

(* The application's state keeps its type: a received message is only      *)
(* received, processed or failed, and every answer has a status the        *)
(* endpoints may give.                                                     *)
THEOREM TwitterTypeCorrect == TwitterSpec => []TwitterTypeOK
  <1>1. Inv /\ LockInv /\ ServiceInv => TwitterTypeOK
    BY DEF Inv, LockInv, CoreType, TypeOK, ServiceInv, EndpointType, TwitterTypeOK,
           Http, HttpPC, Statuses, Marks
  <1> QED
    BY <1>1, TwitterInvariance, PTL

(* Behind the endpoints too, disconnecting clients and failing statements  *)
(* included, a completed command has announced every event it returned.    *)
THEOREM TwitterAnnounces == TwitterSpec => []CompletedAnnounced
  <1>1. Inv => CompletedAnnounced
    BY DEF Inv
  <1> QED
    BY <1>1, TwitterInvariance, PTL

(* And a completed event was heard by all its subscribers in one attempt:  *)
(* the outbox and, for a tweet, the fan-out.                               *)
THEOREM TwitterDelivers == TwitterSpec => []DeliveredToAll
  <1>1. Inv => DeliveredToAll
    BY DEF Inv
  <1> QED
    BY <1>1, TwitterInvariance, PTL

(* No part of the work done under a lease is recorded twice.               *)
THEOREM TwitterCausesAreUnique == TwitterSpec => []CauseUnique
  <1>1. Inv => CauseUnique
    BY DEF Inv
  <1> QED
    BY <1>1, TwitterInvariance, PTL

-----------------------------------------------------------------------------
(***************************************************************************)
(* The application's own handlers: what the kernel runs here.              *)
(***************************************************************************)
Wired ==
    /\ \A d, c, m : Execute(d, c, m) = Handle(d, c, m)
    /\ \A d, id, e, k : Deliver(d, id, e, k) = Receive(d, id, e, k)
    /\ \A e : Subscribers(e) = Listeners(e)

(***************************************************************************)
(* The tables: a tweet has one author, and nobody is owed an entry but a   *)
(* follower of the author.                                                 *)
(***************************************************************************)
Shaped(d) ==
    d = [tweets |-> d.tweets, deleted |-> d.deleted, likes |-> d.likes,
         follows |-> d.follows, messages |-> d.messages, timelines |-> d.timelines,
         outbox |-> d.outbox, owed |-> d.owed, changes |-> d.changes]

OwedToFollowers(tweets, follows, owed) ==
    \A o \in owed : \E row \in tweets : row[1] = o[2] /\ <<o[1], row[2]>> \in follows

Sound(tweets, follows, owed) ==
    /\ Pairs(tweets) /\ Pairs(follows) /\ Pairs(owed)
    /\ OneAuthor(tweets)
    /\ OwedToFollowers(tweets, follows, owed)

DbOK(d) == Shaped(d) /\ Sound(d.tweets, d.follows, d.owed) /\ d.changes \in [Data -> Nat]

(***************************************************************************)
(* What is on record: a command was asked for, or fans a posted tweet out; *)
(* and an event of a tweet is of one that was posted.                      *)
(***************************************************************************)
Posted(d, c) == <<c.tweet, c.user>> \in d.tweets

OnRecord(d, c) == c \in Requests \/ (c.type = "FanOutTweet" /\ Posted(d, c))

Told(d, e) == e.type = "TweetPosted" => Posted(d, e)

RecordInv ==
    /\ \A i \in Ids : \/ rows["command"][i].data = NoData
                      \/ OnRecord(db, rows["command"][i].data)
    /\ \A i \in Ids : \/ rows["event"][i].data = NoData
                      \/ Told(db, rows["event"][i].data)
    /\ \A a \in Agents : \A k \in 1 .. Len(agent[a].out) : Told(db, agent[a].out[k])

(***************************************************************************)
(* A change is announced by one event, in the queue or about to be.        *)
(***************************************************************************)
EventsOf(e) == {i \in Ids : rows["event"][i].data = e}
Pending(e) == {a \in Agents : agent[a].pc = "emitting" /\ agent[a].out = <<e>>}

CountInv ==
    /\ \A a \in Agents : agent[a].pc = "emitting" => Len(agent[a].out) = 1
    /\ \A e \in Data :
          Cardinality(EventsOf(e)) + Cardinality(Pending(e)) <= db.changes[e]

(***************************************************************************)
(* A fan-out has inserted the entries, or still has their users in memory. *)
(***************************************************************************)
Covered(d, t, m) == \A o \in d.owed : o[2] = t => o[1] \in m \/ o \in d.timelines
Reached(d, t) == \A o \in d.owed : o[2] = t => o \in d.timelines

FansOut(c) == c.type = "FanOutTweet"

Fans(d, x, c, m) ==
    x.queue = "command" /\ FansOut(c) =>
        /\ x.pc # "emitting"
        /\ x.pc = "working" => m = NoMemory \/ Covered(d, c.tweet, m)
        /\ x.pc = "completing" => Reached(d, c.tweet)

FanInv ==
    /\ \A a \in Agents :
          agent[a].pc \in Busy =>
              Fans(db, agent[a], rows["command"][agent[a].item].data, memory[a])
    /\ \A i \in Ids :
          rows["command"][i].status = "done" /\ FansOut(rows["command"][i].data) =>
              Reached(db, rows["command"][i].data.tweet)

TwitterInv == MemoryInv /\ MailInv /\ DbOK(db) /\ RecordInv /\ CountInv /\ FanInv

-----------------------------------------------------------------------------
(***************************************************************************)
(* A table of its own per statement.                                       *)
(***************************************************************************)
Alike(d, x) ==
    /\ x.tweets = d.tweets /\ x.follows = d.follows /\ x.owed = d.owed
    /\ x.timelines = d.timelines

Columns(y, tweets, follows, owed, timelines, changes) ==
    /\ Shaped(y)
    /\ y.tweets = tweets /\ y.follows = follows /\ y.owed = owed
    /\ y.timelines = timelines /\ y.changes = changes

LEMMA OtherTables ==
    ASSUME NEW d, Shaped(d), NEW v
    PROVE  /\ Shaped([d EXCEPT !.deleted = v]) /\ Alike(d, [d EXCEPT !.deleted = v])
           /\ Shaped([d EXCEPT !.likes = v]) /\ Alike(d, [d EXCEPT !.likes = v])
           /\ Shaped([d EXCEPT !.messages = v]) /\ Alike(d, [d EXCEPT !.messages = v])
           /\ Shaped([d EXCEPT !.outbox = v]) /\ Alike(d, [d EXCEPT !.outbox = v])
           /\ [d EXCEPT !.deleted = v].changes = d.changes
           /\ [d EXCEPT !.likes = v].changes = d.changes
           /\ [d EXCEPT !.messages = v].changes = d.changes
           /\ [d EXCEPT !.outbox = v].changes = d.changes
  <1> PICK t, x, l, f, g, s, b, o, h :
         d = [tweets |-> t, deleted |-> x, likes |-> l, follows |-> f, messages |-> g,
              timelines |-> s, outbox |-> b, owed |-> o, changes |-> h]
    BY DEF Shaped
  <1>1. [d EXCEPT !.deleted = v] =
           [tweets |-> t, deleted |-> v, likes |-> l, follows |-> f, messages |-> g,
            timelines |-> s, outbox |-> b, owed |-> o, changes |-> h]
    OBVIOUS
  <1>2. [d EXCEPT !.likes = v] =
           [tweets |-> t, deleted |-> x, likes |-> v, follows |-> f, messages |-> g,
            timelines |-> s, outbox |-> b, owed |-> o, changes |-> h]
    OBVIOUS
  <1>3. [d EXCEPT !.messages = v] =
           [tweets |-> t, deleted |-> x, likes |-> l, follows |-> f, messages |-> v,
            timelines |-> s, outbox |-> b, owed |-> o, changes |-> h]
    OBVIOUS
  <1>4. [d EXCEPT !.outbox = v] =
           [tweets |-> t, deleted |-> x, likes |-> l, follows |-> f, messages |-> g,
            timelines |-> s, outbox |-> v, owed |-> o, changes |-> h]
    OBVIOUS
  <1>5. ASSUME NEW p, NEW q, NEW r, NEW u
        PROVE  LET y == [tweets |-> t, deleted |-> p, likes |-> q, follows |-> f,
                         messages |-> r, timelines |-> s, outbox |-> u, owed |-> o,
                         changes |-> h]
               IN  Shaped(y) /\ Alike(d, y) /\ y.changes = d.changes
    BY DEF Shaped, Alike
  <1> QED
    BY <1>1, <1>2, <1>3, <1>4, <1>5

LEMMA ChangesTable ==
    ASSUME NEW d, Shaped(d), NEW v
    PROVE  /\ Shaped([d EXCEPT !.changes = v]) /\ Alike(d, [d EXCEPT !.changes = v])
           /\ [d EXCEPT !.changes = v].changes = v
  <1> PICK t, x, l, f, g, s, b, o, h :
         d = [tweets |-> t, deleted |-> x, likes |-> l, follows |-> f, messages |-> g,
              timelines |-> s, outbox |-> b, owed |-> o, changes |-> h]
    BY DEF Shaped
  <1>1. [d EXCEPT !.changes = v] =
           [tweets |-> t, deleted |-> x, likes |-> l, follows |-> f, messages |-> g,
            timelines |-> s, outbox |-> b, owed |-> o, changes |-> v]
    OBVIOUS
  <1> QED
    BY <1>1 DEF Shaped, Alike

LEMMA TimelinesTable ==
    ASSUME NEW d, Shaped(d), NEW v
    PROVE  Columns([d EXCEPT !.timelines = v], d.tweets, d.follows, d.owed, v, d.changes)
  <1> PICK t, x, l, f, g, s, b, o, h :
         d = [tweets |-> t, deleted |-> x, likes |-> l, follows |-> f, messages |-> g,
              timelines |-> s, outbox |-> b, owed |-> o, changes |-> h]
    BY DEF Shaped
  <1>1. [d EXCEPT !.timelines = v] =
           [tweets |-> t, deleted |-> x, likes |-> l, follows |-> f, messages |-> g,
            timelines |-> v, outbox |-> b, owed |-> o, changes |-> h]
    OBVIOUS
  <1> QED
    BY <1>1 DEF Columns, Shaped

LEMMA TweetsTable ==
    ASSUME NEW d, Shaped(d), NEW v, NEW w
    PROVE  /\ Columns([d EXCEPT !.tweets = v, !.owed = w],
                     v, d.follows, w, d.timelines, d.changes)
           /\ Columns([d EXCEPT !.tweets = v],
                     v, d.follows, d.owed, d.timelines, d.changes)
  <1> PICK t, x, l, f, g, s, b, o, h :
         d = [tweets |-> t, deleted |-> x, likes |-> l, follows |-> f, messages |-> g,
              timelines |-> s, outbox |-> b, owed |-> o, changes |-> h]
    BY DEF Shaped
  <1> DEFINE y == [d EXCEPT !.tweets = v]
             z == [y EXCEPT !.owed = w]
  <1>1. y = [tweets |-> v, deleted |-> x, likes |-> l, follows |-> f, messages |-> g,
            timelines |-> s, outbox |-> b, owed |-> o, changes |-> h]
    OBVIOUS
  <1>2. [d EXCEPT !.tweets = v, !.owed = w] = z
    OBVIOUS
  <1> HIDE DEF y
  <1>3. z = [tweets |-> v, deleted |-> x, likes |-> l, follows |-> f, messages |-> g,
            timelines |-> s, outbox |-> b, owed |-> w, changes |-> h]
    BY <1>1
  <1> HIDE DEF z
  <1> QED
    BY <1>1, <1>2, <1>3 DEF Columns, Shaped, y

LEMMA FollowsTable ==
    ASSUME NEW d, Shaped(d), NEW v, NEW w
    PROVE  /\ Columns([d EXCEPT !.follows = v, !.owed = w],
                     d.tweets, v, w, d.timelines, d.changes)
           /\ Columns([d EXCEPT !.follows = v],
                     d.tweets, v, d.owed, d.timelines, d.changes)
  <1> PICK t, x, l, f, g, s, b, o, h :
         d = [tweets |-> t, deleted |-> x, likes |-> l, follows |-> f, messages |-> g,
              timelines |-> s, outbox |-> b, owed |-> o, changes |-> h]
    BY DEF Shaped
  <1> DEFINE y == [d EXCEPT !.follows = v]
             z == [y EXCEPT !.owed = w]
  <1>1. y = [tweets |-> t, deleted |-> x, likes |-> l, follows |-> v, messages |-> g,
            timelines |-> s, outbox |-> b, owed |-> o, changes |-> h]
    OBVIOUS
  <1>2. [d EXCEPT !.follows = v, !.owed = w] = z
    OBVIOUS
  <1> HIDE DEF y
  <1>3. z = [tweets |-> t, deleted |-> x, likes |-> l, follows |-> v, messages |-> g,
            timelines |-> s, outbox |-> b, owed |-> w, changes |-> h]
    BY <1>1
  <1> HIDE DEF z
  <1> QED
    BY <1>1, <1>2, <1>3 DEF Columns, Shaped, y

-----------------------------------------------------------------------------
(***************************************************************************)
(* A handler's statement: tweets and entries stay, nobody is owed an entry *)
(* for a tweet there was, and the change it announces is the one it made.  *)
(***************************************************************************)
Extends(d, x) ==
    /\ d.tweets \subseteq x.tweets
    /\ d.timelines \subseteq x.timelines
    /\ \A o \in x.owed : o \in d.owed \/ ~ Exists(d, o[2])

Changed(h, e) == [h EXCEPT ![e] = @ + 1]

Says(d, c, r) ==
    /\ DbOK(r.db) /\ Extends(d, r.db)
    /\ r.then \in {"more", "ok", "error"}
    /\ \/ r.events = <<>> /\ r.db.changes = d.changes
       \/ /\ r.then = "ok" /\ r.events = <<Event(c)>>
          /\ r.db.changes = Changed(d.changes, Event(c))
          /\ c.type \in CommandTypes /\ Told(r.db, Event(c))

(* The tables are the same, or one of the others has changed.              *)
Quiet(d, x) == Shaped(x) /\ Alike(d, x) /\ x.changes = d.changes

LEMMA QuietOK ==
    ASSUME NEW d, DbOK(d), NEW x, Quiet(d, x)
    PROVE  DbOK(x) /\ Extends(d, x)
  BY DEF DbOK, Quiet, Alike, Extends

LEMMA QuietSays ==
    ASSUME NEW d, DbOK(d), NEW c, NEW reason, NEW m
    PROVE  /\ Says(d, c, Nothing(d))
           /\ Says(d, c, Refuses(d, reason))
           /\ Says(d, c, Goes(d, m))
  <1>1. Extends(d, d)
    BY DEF Extends
  <1>2. /\ Nothing(d).db = d /\ Nothing(d).then = "ok" /\ Nothing(d).events = <<>>
        /\ Refuses(d, reason).db = d /\ Refuses(d, reason).then = "error"
        /\ Refuses(d, reason).events = <<>>
        /\ Goes(d, m).db = d /\ Goes(d, m).then = "more" /\ Goes(d, m).events = <<>>
    BY DEF Nothing, Refuses, Goes
  <1> QED
    BY <1>1, <1>2 DEF Says

LEMMA EventOfCommand ==
    ASSUME NEW c, IsCommand(c), c.type \in CommandTypes
    PROVE  /\ Event(c).tweet = c.tweet /\ Event(c).user = c.user
           /\ Event(c).type = "TweetPosted" => c.type = "PostTweet"
  <1>1. c = [type |-> c.type, user |-> c.user, tweet |-> c.tweet, other |-> c.other]
    BY DEF IsCommand, Command
  <1>2. /\ Event(c).tweet = c.tweet /\ Event(c).user = c.user
        /\ Event(c).type = EventType(c.type)
    BY <1>1 DEF Event
  <1>3. EventType(c.type) = "TweetPosted" => c.type = "PostTweet"
    BY DEF EventType, CommandTypes
  <1> QED
    BY <1>2, <1>3

LEMMA AnnouncesSays ==
    ASSUME NEW d, DbOK(d), NEW c, IsCommand(c), c.type \in CommandTypes,
           NEW x, Shaped(x), Sound(x.tweets, x.follows, x.owed),
           x.changes = d.changes, Extends(d, x),
           c.type = "PostTweet" => Posted(x, c)
    PROVE  Says(d, c, Announces(x, c))
  <1> DEFINE e == Event(c)
             h == Changed(d.changes, e)
             y == [x EXCEPT !.changes = h]
             r == Announces(x, c)
  <1>1. r.db = y /\ r.then = "ok" /\ r.events = <<e>>
    BY DEF Announces, Nothing, Changed
  <1>2. Shaped(y) /\ Alike(x, y) /\ y.changes = h
    BY ChangesTable
  <1>3. h \in [Data -> Nat]
    <2> PICK g \in [Data -> Nat] : g = d.changes
      BY DEF DbOK
    <2> HIDE DEF e
    <2>1. e \in Data => g[e] + 1 \in Nat
      OBVIOUS
    <2> QED
      BY <2>1 DEF Changed
  <1>4. Told(y, e)
    <2>1. Posted(x, c) => Posted(y, e)
      BY <1>2, EventOfCommand DEF Posted, Alike
    <2> QED
      BY <2>1, EventOfCommand DEF Told
  <1> HIDE DEF e, h, y, r
  <1>5. DbOK(y) /\ Extends(d, y)
    BY <1>2, <1>3 DEF DbOK, Alike, Extends
  <1>6. Says(d, c, r)
    BY <1>1, <1>2, <1>4, <1>5 DEF Says, e, h
  <1> QED
    BY <1>6 DEF r

(* A statement that changes none of the tables an event is about here.     *)
LEMMA QuietAnnounces ==
    ASSUME NEW d, DbOK(d), NEW c, IsCommand(c), c.type \in CommandTypes,
           c.type # "PostTweet", NEW x, Quiet(d, x)
    PROVE  Says(d, c, Announces(x, c))
  <1>1. Extends(d, x) /\ DbOK(x)
    BY QuietOK
  <1> QED
    BY <1>1, AnnouncesSays DEF DbOK, Quiet

LEMMA PostTweetSays ==
    ASSUME NEW d, DbOK(d), NEW c, IsCommand(c), c.type = "PostTweet", NEW m
    PROVE  Says(d, c, PostTweet(d, c, m))
  <1> DEFINE v == d.tweets \cup {<<c.tweet, c.user>>}
             w == d.owed \cup {<<f[1], c.tweet>> : f \in {g \in d.follows : g[2] = c.user}}
             x == [d EXCEPT !.tweets = v, !.owed = w]
  <1>1. CASE Exists(d, c.tweet)
    BY <1>1, QuietSays DEF PostTweet
  <1>2. CASE ~ Exists(d, c.tweet)
    <2>1. PostTweet(d, c, m) = Announces(x, c)
      BY <1>2 DEF PostTweet
    <2>2. Columns(x, v, d.follows, w, d.timelines, d.changes)
      <3> HIDE DEF v, w
      <3> QED
        BY TweetsTable DEF DbOK
    <2>3. Sound(v, d.follows, w)
      <3>1. Pairs(v) /\ OneAuthor(v)
        BY <1>2 DEF DbOK, Sound, Pairs, OneAuthor, Exists
      <3>2. Pairs(w)
        BY DEF DbOK, Sound, Pairs
      <3>3. ASSUME NEW o \in w
            PROVE  \E row \in v : row[1] = o[2] /\ <<o[1], row[2]>> \in d.follows
        <4>1. CASE o \in d.owed
          BY <4>1 DEF DbOK, Sound, OwedToFollowers
        <4>2. CASE o \notin d.owed
          <5>1. PICK f \in d.follows : f[2] = c.user /\ o = <<f[1], c.tweet>>
            BY <3>3, <4>2
          <5>2. f = <<f[1], f[2]>>
            BY DEF DbOK, Sound, Pairs
          <5> WITNESS <<c.tweet, c.user>> \in v
          <5> QED
            BY <5>1, <5>2
        <4> QED
          BY <4>1, <4>2
      <3> QED
        BY <3>1, <3>2, <3>3 DEF DbOK, Sound, OwedToFollowers
    <2>4. Extends(d, x) /\ Posted(x, c)
      <3>1. \A o \in w : o \in d.owed \/ o[2] = c.tweet
        OBVIOUS
      <3>2. d.tweets \subseteq v /\ <<c.tweet, c.user>> \in v
        OBVIOUS
      <3> HIDE DEF v, w, x
      <3> QED
        BY <1>2, <2>2, <3>1, <3>2 DEF Extends, Posted, Columns
    <2> HIDE DEF x, v, w
    <2> QED
      BY <2>1, <2>2, <2>3, <2>4, AnnouncesSays DEF CommandTypes, Columns
  <1> QED
    BY <1>1, <1>2

LEMMA DeleteTweetSays ==
    ASSUME NEW d, DbOK(d), NEW c, IsCommand(c), c.type = "DeleteTweet", NEW m
    PROVE  Says(d, c, DeleteTweet(d, c, m))
  <1> DEFINE v == d.deleted \cup {c.tweet}
             x == [d EXCEPT !.deleted = v]
  <1>1. \/ DeleteTweet(d, c, m) = Announces(x, c)
        \/ DeleteTweet(d, c, m) = Refuses(d, "tweet not found")
    BY DEF DeleteTweet
  <1> HIDE DEF v
  <1>2. Quiet(d, x)
    BY OtherTables DEF DbOK, Quiet
  <1> HIDE DEF x
  <1>3. Says(d, c, Announces(x, c))
    BY <1>2, QuietAnnounces DEF CommandTypes
  <1> QED
    BY <1>1, <1>3, QuietSays

LEMMA RetweetSays ==
    ASSUME NEW d, DbOK(d), NEW c, IsCommand(c), c.type = "Retweet", NEW m
    PROVE  Says(d, c, Retweet(d, c, m))
  <1> DEFINE v == d.tweets \cup {<<c.tweet, c.user>>}
             x == [d EXCEPT !.tweets = v]
  <1>1. CASE m # NoMemory /\ ~ Exists(d, c.tweet)
    <2>1. Retweet(d, c, m) = Announces(x, c)
      BY <1>1 DEF Retweet
    <2>2. Columns(x, v, d.follows, d.owed, d.timelines, d.changes)
      <3> HIDE DEF v
      <3> QED
        BY TweetsTable DEF DbOK
    <2>3. Sound(v, d.follows, d.owed)
      <3>1. Pairs(v) /\ OneAuthor(v)
        BY <1>1 DEF DbOK, Sound, Pairs, OneAuthor, Exists
      <3>2. OwedToFollowers(v, d.follows, d.owed)
        BY DEF DbOK, Sound, OwedToFollowers
      <3> QED
        BY <3>1, <3>2 DEF DbOK, Sound
    <2>4. Extends(d, x)
      BY <2>2 DEF Extends, Columns
    <2> HIDE DEF x, v
    <2> QED
      BY <2>1, <2>2, <2>3, <2>4, AnnouncesSays DEF CommandTypes, Columns
  <1>2. CASE ~ (m # NoMemory /\ ~ Exists(d, c.tweet))
    <2>1. \/ Retweet(d, c, m) = Goes(d, "found")
          \/ Retweet(d, c, m) = Refuses(d, "tweet not found")
          \/ Retweet(d, c, m) = Refuses(d, "duplicate retweet_id")
      BY <1>2 DEF Retweet
    <2> QED
      BY <2>1, QuietSays
  <1> QED
    BY <1>1, <1>2

LEMMA LikeTweetSays ==
    ASSUME NEW d, DbOK(d), NEW c, IsCommand(c), c.type = "LikeTweet", NEW m
    PROVE  Says(d, c, LikeTweet(d, c, m))
  <1> DEFINE v == d.likes \cup {<<c.user, c.tweet>>}
             x == [d EXCEPT !.likes = v]
  <1>1. \/ LikeTweet(d, c, m) = Announces(x, c)
        \/ LikeTweet(d, c, m) = Nothing(d)
        \/ LikeTweet(d, c, m) = Goes(d, "found")
        \/ LikeTweet(d, c, m) = Refuses(d, "tweet not found")
    BY DEF LikeTweet
  <1> HIDE DEF v
  <1>2. Quiet(d, x)
    BY OtherTables DEF DbOK, Quiet
  <1> HIDE DEF x
  <1>3. Says(d, c, Announces(x, c))
    BY <1>2, QuietAnnounces DEF CommandTypes
  <1> QED
    BY <1>1, <1>3, QuietSays

LEMMA UnlikeTweetSays ==
    ASSUME NEW d, DbOK(d), NEW c, IsCommand(c), c.type = "UnlikeTweet", NEW m
    PROVE  Says(d, c, UnlikeTweet(d, c, m))
  <1> DEFINE v == d.likes \ {<<c.user, c.tweet>>}
             x == [d EXCEPT !.likes = v]
  <1>1. \/ UnlikeTweet(d, c, m) = Announces(x, c)
        \/ UnlikeTweet(d, c, m) = Nothing(d)
        \/ UnlikeTweet(d, c, m) = Goes(d, "found")
        \/ UnlikeTweet(d, c, m) = Refuses(d, "tweet not found")
    BY DEF UnlikeTweet
  <1> HIDE DEF v
  <1>2. Quiet(d, x)
    BY OtherTables DEF DbOK, Quiet
  <1> HIDE DEF x
  <1>3. Says(d, c, Announces(x, c))
    BY <1>2, QuietAnnounces DEF CommandTypes
  <1> QED
    BY <1>1, <1>3, QuietSays

LEMMA SendDirectMessageSays ==
    ASSUME NEW d, DbOK(d), NEW c, IsCommand(c), c.type = "SendDirectMessage", NEW m
    PROVE  Says(d, c, SendDirectMessage(d, c, m))
  <1> DEFINE v == d.messages \cup {c.tweet}
             x == [d EXCEPT !.messages = v]
  <1>1. \/ SendDirectMessage(d, c, m) = Announces(x, c)
        \/ SendDirectMessage(d, c, m) = Refuses(d, "duplicate message_id")
    BY DEF SendDirectMessage
  <1> HIDE DEF v
  <1>2. Quiet(d, x)
    BY OtherTables DEF DbOK, Quiet
  <1> HIDE DEF x
  <1>3. Says(d, c, Announces(x, c))
    BY <1>2, QuietAnnounces DEF CommandTypes
  <1> QED
    BY <1>1, <1>3, QuietSays

LEMMA FollowUserSays ==
    ASSUME NEW d, DbOK(d), NEW c, IsCommand(c), c.type = "FollowUser", NEW m
    PROVE  Says(d, c, FollowUser(d, c, m))
  <1> DEFINE v == d.follows \cup {<<c.user, c.other>>}
             x == [d EXCEPT !.follows = v]
  <1>1. \/ FollowUser(d, c, m) = Announces(x, c)
        \/ FollowUser(d, c, m) = Nothing(d)
        \/ FollowUser(d, c, m) = Refuses(d, "cannot follow self")
    BY DEF FollowUser
  <1>2. Sound(d.tweets, v, d.owed)
    <2>1. Pairs(v)
      BY DEF DbOK, Sound, Pairs
    <2>2. OwedToFollowers(d.tweets, v, d.owed)
      BY DEF DbOK, Sound, OwedToFollowers
    <2> QED
      BY <2>1, <2>2 DEF DbOK, Sound
  <1> HIDE DEF v
  <1>3. Columns(x, d.tweets, v, d.owed, d.timelines, d.changes)
    BY FollowsTable DEF DbOK
  <1>4. Extends(d, x)
    BY <1>3 DEF Extends, Columns
  <1> HIDE DEF x
  <1>5. Says(d, c, Announces(x, c))
    BY <1>2, <1>3, <1>4, AnnouncesSays DEF CommandTypes, Columns
  <1> QED
    BY <1>1, <1>5, QuietSays

(* Who stops following is owed nothing by the author any more.             *)
LEMMA UnfollowUserSays ==
    ASSUME NEW d, DbOK(d), NEW c, IsCommand(c), c.type = "UnfollowUser", NEW m
    PROVE  Says(d, c, UnfollowUser(d, c, m))
  <1> DEFINE v == d.follows \ {<<c.user, c.other>>}
             w == {o \in d.owed : o[1] # c.user \/ <<o[2], c.other>> \notin d.tweets}
             x == [d EXCEPT !.follows = v, !.owed = w]
  <1>1. \/ UnfollowUser(d, c, m) = Announces(x, c)
        \/ UnfollowUser(d, c, m) = Nothing(d)
    BY DEF UnfollowUser
  <1>2. Sound(d.tweets, v, w)
    <2>1. Pairs(v) /\ Pairs(w)
      BY DEF DbOK, Sound, Pairs
    <2>2. ASSUME NEW o \in w
          PROVE  \E row \in d.tweets : row[1] = o[2] /\ <<o[1], row[2]>> \in v
      <3>1. PICK row \in d.tweets : row[1] = o[2] /\ <<o[1], row[2]>> \in d.follows
        BY <2>2 DEF DbOK, Sound, OwedToFollowers
      <3>2. row = <<row[1], row[2]>>
        BY DEF DbOK, Sound, Pairs
      <3>3. <<o[1], row[2]>> # <<c.user, c.other>>
        <4>1. SUFFICES ASSUME o[1] = c.user, row[2] = c.other PROVE FALSE
          OBVIOUS
        <4>2. row = <<o[2], c.other>>
          BY <3>1, <3>2, <4>1
        <4> QED
          BY <2>2, <4>1, <4>2
      <3> QED
        BY <3>1, <3>3
    <2> QED
      BY <2>1, <2>2 DEF DbOK, Sound, OwedToFollowers
  <1>3. w \subseteq d.owed
    OBVIOUS
  <1> HIDE DEF v, w
  <1>4. Columns(x, d.tweets, v, w, d.timelines, d.changes)
    BY FollowsTable DEF DbOK
  <1>5. Extends(d, x)
    BY <1>3, <1>4 DEF Extends, Columns
  <1> HIDE DEF x
  <1>6. Says(d, c, Announces(x, c))
    BY <1>2, <1>4, <1>5, AnnouncesSays DEF CommandTypes, Columns
  <1> QED
    BY <1>1, <1>6, QuietSays

(* The followers in memory are those who are owed the tweet, and more: one *)
(* at a time goes from there to the timelines.                             *)
FansOn(c, r) ==
    /\ r.events = <<>>
    /\ \/ r.then = "more" /\ Covered(r.db, c.tweet, r.memory)
       \/ r.then = "ok" /\ Reached(r.db, c.tweet)

LEMMA FanOutTweetSays ==
    ASSUME NEW d, DbOK(d), NEW c, NEW m, NEW r, r = FanOutTweet(d, c, m)
    PROVE  /\ Says(d, c, r)
           /\ Posted(d, c) /\ (m = NoMemory \/ Covered(d, c.tweet, m)) => FansOn(c, r)
  <1>1. CASE m = NoMemory
    <2> DEFINE n == {f[1] : f \in {g \in d.follows : g[2] = c.user}}
    <2>1. r = Goes(d, n)
      BY <1>1 DEF FanOutTweet
    <2>2. r.then = "more" /\ r.db = d /\ r.memory = n /\ r.events = <<>>
      BY <2>1 DEF Goes
    <2>3. Posted(d, c) => Covered(d, c.tweet, n)
      <3> SUFFICES ASSUME Posted(d, c), NEW o \in d.owed, o[2] = c.tweet
                   PROVE  o[1] \in n
        BY DEF Covered
      <3>1. PICK row \in d.tweets : row[1] = o[2] /\ <<o[1], row[2]>> \in d.follows
        BY DEF DbOK, Sound, OwedToFollowers
      <3>2. row[2] = c.user
        BY <3>1 DEF DbOK, Sound, OneAuthor, Posted
      <3> QED
        BY <3>1, <3>2
    <2> HIDE DEF n
    <2>4. Says(d, c, r)
      BY <2>1, QuietSays
    <2> QED
      BY <2>2, <2>3, <2>4 DEF FansOn
  <1>2. CASE m # NoMemory /\ m = {}
    <2>1. r = Nothing(d)
      BY <1>2 DEF FanOutTweet
    <2>2. r.then = "ok" /\ r.db = d /\ r.events = <<>>
      BY <2>1 DEF Nothing
    <2>3. Covered(d, c.tweet, m) => Reached(d, c.tweet)
      BY <1>2 DEF Covered, Reached
    <2>4. Says(d, c, r)
      BY <2>1, QuietSays
    <2> QED
      BY <1>2, <2>2, <2>3, <2>4 DEF FansOn
  <1>3. CASE m # NoMemory /\ m # {}
    <2> PICK u : u = CHOOSE w \in m : TRUE
      OBVIOUS
    <2> DEFINE v == d.timelines \cup {<<u, c.tweet>>}
               x == [d EXCEPT !.timelines = v]
               n == m \ {u}
    <2>1. r = Goes(x, n)
      BY <1>3 DEF FanOutTweet
    <2>2. r.then = "more" /\ r.db = x /\ r.memory = n /\ r.events = <<>>
      BY <2>1 DEF Goes
    <2>3. Columns(x, d.tweets, d.follows, d.owed, v, d.changes)
      <3> HIDE DEF v
      <3> QED
        BY TimelinesTable DEF DbOK
    <2>4. DbOK(x) /\ Extends(d, x)
      <3>1. d.timelines \subseteq v
        OBVIOUS
      <3> HIDE DEF v, x
      <3> QED
        BY <2>3, <3>1 DEF DbOK, Extends, Columns
    <2>5. Covered(d, c.tweet, m) => Covered(x, c.tweet, n)
      <3> SUFFICES ASSUME Covered(d, c.tweet, m), NEW o \in d.owed, o[2] = c.tweet
                   PROVE  o[1] \in n \/ o \in v
        BY <2>3 DEF Covered, Columns
      <3>1. o = <<o[1], o[2]>>
        BY DEF DbOK, Sound, Pairs
      <3>2. o[1] \in m \/ o \in d.timelines
        BY DEF Covered
      <3> QED
        BY <3>1, <3>2
    <2> HIDE DEF x, n
    <2> QED
      BY <1>3, <2>2, <2>3, <2>4, <2>5 DEF Says, Columns, FansOn
  <1> QED
    BY <1>1, <1>2, <1>3

LEMMA HandleSays ==
    ASSUME NEW d, DbOK(d), NEW m, NEW c, IsCommand(c),
           c.type \in CommandTypes \/ FansOut(c)
    PROVE  Says(d, c, Handle(d, c, m))
  <1>1. CASE c.type = "PostTweet"
    BY <1>1, PostTweetSays DEF Handle
  <1>2. CASE c.type = "DeleteTweet"
    BY <1>2, DeleteTweetSays DEF Handle
  <1>3. CASE c.type = "Retweet"
    BY <1>3, RetweetSays DEF Handle
  <1>4. CASE c.type = "LikeTweet"
    BY <1>4, LikeTweetSays DEF Handle
  <1>5. CASE c.type = "UnlikeTweet"
    BY <1>5, UnlikeTweetSays DEF Handle
  <1>6. CASE c.type = "FollowUser"
    BY <1>6, FollowUserSays DEF Handle
  <1>7. CASE c.type = "UnfollowUser"
    BY <1>7, UnfollowUserSays DEF Handle
  <1>8. CASE c.type = "SendDirectMessage"
    BY <1>8, SendDirectMessageSays DEF Handle
  <1>9. CASE FansOut(c)
    BY <1>9, FanOutTweetSays DEF Handle, FansOut
  <1> QED
    BY <1>1, <1>2, <1>3, <1>4, <1>5, <1>6, <1>7, <1>8, <1>9 DEF CommandTypes

-----------------------------------------------------------------------------
(***************************************************************************)
(* What stays: a posted tweet is posted, and owed to nobody new.           *)
(***************************************************************************)
LEMMA WiredSteps ==
    ASSUME Wired, NEW a
    PROVE  /\ Outcome(a) = Handle(db, rows["command"][agent[a].item].data, memory[a])
           /\ Response(a) = Receive(db, agent[a].item, rows["event"][agent[a].item].data,
                                    agent[a].sent + 1)
  BY DEF Wired, Outcome, Response

LEMMA PostedStays ==
    ASSUME NEW d, NEW x, Extends(d, x), NEW c
    PROVE  /\ Posted(d, c) => Posted(x, c)
           /\ OnRecord(d, c) => OnRecord(x, c)
           /\ Told(d, c) => Told(x, c)
           /\ \A m : Posted(d, c) /\ Covered(d, c.tweet, m) => Covered(x, c.tweet, m)
           /\ Posted(d, c) /\ Reached(d, c.tweet) => Reached(x, c.tweet)
  <1>1. Posted(d, c) => Posted(x, c)
    BY DEF Posted, Extends
  <1>2. ASSUME Posted(d, c), NEW o \in x.owed, o[2] = c.tweet
        PROVE  o \in d.owed
    <2>1. <<c.tweet, c.user>> \in d.tweets /\ <<c.tweet, c.user>>[1] = o[2]
      BY <1>2 DEF Posted
    <2>2. Exists(d, o[2])
      BY <2>1 DEF Exists
    <2> QED
      BY <2>2 DEF Extends
  <1>3. d.timelines \subseteq x.timelines
    BY DEF Extends
  <1>4. \A m : Posted(d, c) /\ Covered(d, c.tweet, m) => Covered(x, c.tweet, m)
    BY <1>2, <1>3 DEF Covered
  <1>5. Posted(d, c) /\ Reached(d, c.tweet) => Reached(x, c.tweet)
    BY <1>2, <1>3 DEF Reached
  <1> QED
    BY <1>1, <1>4, <1>5 DEF OnRecord, Told

(* A fan-out on record is of a tweet that was posted.                      *)
LEMMA FanOutPosted ==
    ASSUME Inv, RecordInv, NEW i \in Ids, rows["command"][i].status # "none"
    PROVE  LET c == rows["command"][i].data
           IN  /\ IsCommand(c) /\ OnRecord(db, c)
               /\ c.type \in CommandTypes \/ FansOut(c)
               /\ FansOut(c) => Posted(db, c)
  <1> PICK c \in Data : c = rows["command"][i].data
    BY DEF Inv, RowInv, Queues
  <1>1. OnRecord(db, c)
    BY KernelAssumption DEF RecordInv, KernelAssumption
  <1>2. IsCommand(c)
    BY TwitterAssumption DEF TwitterAssumption
  <1>3. c \in Requests => c.type \in CommandTypes /\ c.type # "FanOutTweet"
    BY TwitterAssumption DEF TwitterAssumption, CommandTypes
  <1> QED
    BY <1>1, <1>2, <1>3 DEF OnRecord, FansOut

(***************************************************************************)
(* The three parts of the invariant, by what a step leaves alone.          *)
(***************************************************************************)
KeptCommands ==
    \A i \in Ids : rows["command"][i].status # "none" =>
                       rows'["command"][i].data = rows["command"][i].data

LEMMA RecordStays ==
    ASSUME RecordInv, Extends(db, db'),
           \A i \in Ids : \/ rows'["command"][i].data = rows["command"][i].data
                          \/ OnRecord(db', rows'["command"][i].data),
           \A i \in Ids : \/ rows'["event"][i].data = rows["event"][i].data
                          \/ Told(db', rows'["event"][i].data),
           \A a \in Agents : \/ agent'[a].out \in {agent[a].out, <<>>}
                             \/ \A k \in 1 .. Len(agent'[a].out) :
                                    Told(db', agent'[a].out[k])
    PROVE  RecordInv'
  <1>1. ASSUME NEW i \in Ids
        PROVE  \/ rows'["command"][i].data = NoData
               \/ OnRecord(db', rows'["command"][i].data)
    BY PostedStays DEF RecordInv
  <1>2. ASSUME NEW i \in Ids
        PROVE  \/ rows'["event"][i].data = NoData
               \/ Told(db', rows'["event"][i].data)
    BY PostedStays DEF RecordInv
  <1>3. ASSUME NEW a \in Agents, NEW k \in 1 .. Len(agent'[a].out)
        PROVE  Told(db', agent'[a].out[k])
    <2>1. CASE agent'[a].out = agent[a].out
      <3>1. Told(db, agent[a].out[k])
        BY <1>3, <2>1 DEF RecordInv
      <3> QED
        BY <2>1, <3>1, PostedStays
    <2>2. CASE agent'[a].out = <<>>
      BY <1>3, <2>2
    <2> QED
      BY <1>3, <2>1, <2>2
  <1> QED
    BY <1>1, <1>2, <1>3 DEF RecordInv, OnRecord, Posted, Told

LEMMA PendingFinite ==
    ASSUME NEW e
    PROVE  /\ IsFiniteSet(Pending(e)) /\ Cardinality(Pending(e)) \in Nat
           /\ IsFiniteSet(EventsOf(e)) /\ Cardinality(EventsOf(e)) \in Nat
  <1>1. Pending(e) \subseteq Agents /\ EventsOf(e) \subseteq Ids
    BY DEF Pending, EventsOf
  <1>2. IsFiniteSet(Agents) /\ IsFiniteSet(Ids)
    BY TwitterAssumption, KernelAssumption DEF TwitterAssumption, KernelAssumption
  <1>3. IsFiniteSet(Pending(e)) /\ IsFiniteSet(EventsOf(e))
    BY <1>1, <1>2, FS_Subset
  <1> QED
    BY <1>3, FS_CardinalityType

LEMMA CountStays ==
    ASSUME DbOK(db), DbOK(db)', CountInv,
           \A e \in Data : db.changes[e] <= db'.changes[e],
           \A i \in Ids : rows'["event"][i].data = rows["event"][i].data,
           \A a \in Agents : agent'[a].pc = "emitting" => agent'[a] = agent[a]
    PROVE  CountInv'
  <1>1. \A a \in Agents : agent'[a].pc = "emitting" => Len(agent'[a].out) = 1
    BY DEF CountInv
  <1>2. ASSUME NEW e \in Data
        PROVE  Cardinality(EventsOf(e)') + Cardinality(Pending(e)') <= db'.changes[e]
    <2>1. EventsOf(e)' = EventsOf(e)
      BY DEF EventsOf
    <2>2. Pending(e)' \subseteq Pending(e)
      BY DEF Pending
    <2>3. /\ Cardinality(Pending(e)') \in Nat
          /\ Cardinality(Pending(e)') <= Cardinality(Pending(e))
      BY <2>2, PendingFinite, FS_Subset, FS_CardinalityType
    <2>4. db.changes[e] \in Nat /\ db'.changes[e] \in Nat
      BY DEF DbOK
    <2>5. /\ Cardinality(EventsOf(e)) + Cardinality(Pending(e)) <= db.changes[e]
          /\ db.changes[e] <= db'.changes[e]
      BY DEF CountInv
    <2> QED
      BY <2>1, <2>3, <2>4, <2>5, PendingFinite
  <1> QED
    BY <1>1, <1>2 DEF CountInv

(* The agent stands, or has no handler's or completed command in hand.     *)
LEMMA FansStays ==
    ASSUME Inv, RecordInv, FanInv, Extends(db, db'), KeptCommands,
           NEW b \in Agents, Coasts(b), agent'[b].pc \in Busy
    PROVE  Fans(db', agent'[b], rows'["command"][agent'[b].item].data, memory'[b])
  <1>1. CASE agent'[b] = agent[b] /\ memory'[b] = memory[b]
    <2> SUFFICES ASSUME agent[b].queue = "command"
                 PROVE  Fans(db', agent[b], rows'["command"][agent[b].item].data, memory[b])
      BY <1>1 DEF Fans
    <2> PICK i, c : i = agent[b].item /\ c = rows["command"][i].data
      OBVIOUS
    <2>1. i \in Ids /\ rows["command"][i].status # "none"
      BY <1>1, HeldRow
    <2>2. rows'["command"][i].data = c
      BY <2>1 DEF KeptCommands
    <2>3. FansOut(c) => Posted(db, c)
      BY <2>1, FanOutPosted
    <2>4. Fans(db, agent[b], c, memory[b])
      BY <1>1 DEF FanInv
    <2>5. Fans(db', agent[b], c, memory[b])
      BY <2>3, <2>4, PostedStays DEF Fans
    <2> QED
      BY <2>2, <2>5
  <1>2. CASE /\ agent'[b].pc # "emitting"
             /\ agent'[b].pc = "completing" => agent'[b].queue # "command"
             /\ agent'[b].pc # "failing" => memory'[b] = NoMemory
    BY <1>2 DEF Fans
  <1> QED
    BY <1>1, <1>2 DEF Coasts

LEMMA FanStays ==
    ASSUME Inv, RecordInv, FanInv, Extends(db, db'), KeptCommands, CompletedInHand,
           \A b \in Agents :
               agent'[b].pc \in Busy =>
                   Fans(db', agent'[b], rows'["command"][agent'[b].item].data, memory'[b])
    PROVE  FanInv'
  <1>1. ASSUME NEW i \in Ids, rows'["command"][i].status = "done",
               FansOut(rows'["command"][i].data)
        PROVE  Reached(db', rows'["command"][i].data.tweet)
    <2> PICK c : c = rows["command"][i].data
      OBVIOUS
    <2>1. rows["command"][i].status # "none" /\ (FansOut(c) => Reached(db, c.tweet))
      <3>1. CASE rows["command"][i].status = "done"
        BY <3>1 DEF FanInv
      <3>2. ASSUME NEW a \in Agents, agent[a].pc = "completing",
                   agent[a].queue = "command", agent[a].item = i
            PROVE  rows["command"][i].status # "none" /\ (FansOut(c) => Reached(db, c.tweet))
        <4>1. agent[a].pc \in Busy
          BY <3>2 DEF Busy
        <4> QED
          BY <3>2, <4>1, HeldRow DEF FanInv, Fans
      <3> QED
        BY <1>1, <3>1, <3>2 DEF CompletedInHand
    <2>2. rows'["command"][i].data = c
      BY <2>1 DEF KeptCommands
    <2>3. FansOut(c) => Posted(db, c)
      BY <2>1, FanOutPosted
    <2> QED
      BY <1>1, <2>1, <2>2, <2>3, PostedStays
  <1> QED
    BY <1>1 DEF FanInv, Fans, Covered, Reached

-----------------------------------------------------------------------------
(***************************************************************************)
(* The steps.                                                              *)
(***************************************************************************)
Tables == DbOK(db) /\ RecordInv /\ CountInv /\ FanInv

LEMMA CoastsEmitting ==
    ASSUME NEW b \in Agents, Coasts(b), agent'[b].pc = "emitting"
    PROVE  agent'[b] = agent[b]
  BY DEF Coasts

LEMMA CalmTwitter ==
    ASSUME Inv, TwitterInv, Calm
    PROVE  Tables'
  <1>1. /\ \A i \in Ids : rows'["event"][i].data = rows["event"][i].data
        /\ \A i \in Ids : \/ rows'["command"][i].data = rows["command"][i].data
                          \/ rows'["command"][i].data \in Requests
    BY CalmData, TwitterAssumption DEF TwitterAssumption, TwitterInv
  <1>2. db' = db /\ CompletedInHand /\ \A b \in Agents : Coasts(b)
    BY DEF Calm
  <1>3. Extends(db, db')
    BY <1>2 DEF Extends
  <1>4. DbOK(db)'
    BY <1>2 DEF TwitterInv, DbOK, Shaped, Sound, Pairs, OneAuthor, OwedToFollowers
  <1>5. RecordInv'
    BY <1>1, <1>2, <1>3, RecordStays DEF TwitterInv, OnRecord, Coasts
  <1>6. CountInv'
    <2>1. \A e \in Data : db.changes[e] <= db'.changes[e]
      BY <1>2 DEF TwitterInv, DbOK
    <2> QED
      BY <1>1, <1>2, <1>4, <2>1, CountStays, CoastsEmitting DEF TwitterInv
  <1>7. KeptCommands
    BY DEF Calm, SameData, Commanded, Recorded, KeptCommands, Queues
  <1>8. FanInv'
    BY <1>2, <1>3, <1>7, FansStays, FanStays DEF TwitterInv
  <1> QED
    BY <1>4, <1>5, <1>6, <1>8 DEF Tables

(* The handler's statement.                                                *)
LEMMA HandlerCount ==
    ASSUME Inv, TwitterInv, NEW a \in Agents, Handled(a), DbOK(db)',
           NEW c, NEW r, r = Outcome(a), Says(db, c, r)
    PROVE  CountInv'
  <1>1. /\ \A b \in Agents \ {a} : agent'[b] = agent[b]
        /\ rows' = rows /\ db' = r.db /\ agent[a].pc = "working"
    BY DEF Handled, Others
  <1>2. CASE r.events = <<>> /\ r.db.changes = db.changes
    <2>1. agent'[a].pc # "emitting"
      BY <1>2 DEF Handled
    <2>2. \A e \in Data : db.changes[e] <= db'.changes[e]
      BY <1>1, <1>2 DEF TwitterInv, DbOK
    <2> QED
      BY <1>1, <2>1, <2>2, CountStays DEF TwitterInv
  <1>3. ASSUME r.then = "ok", NEW e, r.events = <<e>>,
               r.db.changes = Changed(db.changes, e)
        PROVE  CountInv'
    <2> PICK h \in [Data -> Nat] : h = db.changes
      BY DEF TwitterInv, DbOK
    <2>1. db'.changes = [h EXCEPT ![e] = @ + 1]
      BY <1>1, <1>3 DEF Changed
    <2>2. \A f \in Data : h[f] <= db'.changes[f]
      BY <2>1
    <2>3. CASE <<e>> \notin Seq(Data)
      <3>1. agent'[a].pc # "emitting"
        BY <1>3, <2>3 DEF Handled
      <3> QED
        BY <1>1, <2>2, <3>1, CountStays DEF TwitterInv
    <2>4. CASE <<e>> \in Seq(Data)
      <3>1. e \in Data
        BY <2>4
      <3>2. agent'[a].pc = "emitting" /\ agent'[a].out = <<e>>
        BY <1>3, <2>4 DEF Handled
      <3>3. \A b \in Agents : agent'[b].pc = "emitting" => Len(agent'[b].out) = 1
        <4>1. Len(<<e>>) = 1
          OBVIOUS
        <4>2. \A b \in Agents \ {a} : agent'[b].pc = "emitting" => Len(agent'[b].out) = 1
          BY <1>1 DEF TwitterInv, CountInv
        <4> QED
          BY <3>2, <4>1, <4>2
      <3>4. ASSUME NEW f \in Data
            PROVE  Cardinality(EventsOf(f)') + Cardinality(Pending(f)') <= db'.changes[f]
        <4>1. EventsOf(f)' = EventsOf(f)
          BY <1>1 DEF EventsOf
        <4>2. Cardinality(EventsOf(f)) + Cardinality(Pending(f)) <= h[f] /\ h[f] \in Nat
          BY DEF TwitterInv, CountInv
        <4>3. CASE f = e
          <5>1. Pending(f)' = Pending(f) \cup {a} /\ a \notin Pending(f)
            BY <1>1, <3>2, <4>3 DEF Pending
          <5>2. Cardinality(Pending(f)') = Cardinality(Pending(f)) + 1
            BY <5>1, PendingFinite, FS_AddElement
          <5>3. db'.changes[f] = h[f] + 1
            BY <2>1, <3>1, <4>3
          <5> QED
            BY <4>1, <4>2, <5>2, <5>3, PendingFinite
        <4>4. CASE f # e
          <5>1. Pending(f)' = Pending(f)
            BY <1>1, <3>2, <4>4 DEF Pending
          <5>2. db'.changes[f] = h[f]
            BY <2>1, <4>4
          <5> QED
            BY <4>1, <4>2, <5>1, <5>2
        <4> QED
          BY <4>3, <4>4
      <3> QED
        BY <3>3, <3>4 DEF CountInv
    <2> QED
      BY <2>3, <2>4
  <1> QED
    BY <1>2, <1>3 DEF Says

LEMMA HandlerTwitter ==
    ASSUME Inv, TwitterInv, Wired, NEW a \in Agents, HandlerStep(a)
    PROVE  Tables'
  <1>1. Handled(a)
    BY HandlerFlow DEF TwitterInv
  <1> PICK c : c = rows["command"][agent[a].item].data
    OBVIOUS
  <1>2. /\ IsCommand(c) /\ OnRecord(db, c)
        /\ c.type \in CommandTypes \/ FansOut(c)
        /\ FansOut(c) => Posted(db, c)
    BY <1>1, FanOutPosted DEF Handled, TwitterInv
  <1> PICK r : r = Outcome(a) /\ r = Handle(db, c, memory[a])
    BY WiredSteps
  <1>3. Says(db, c, r)
    BY <1>2, HandleSays DEF TwitterInv
  <1>4. db' = r.db /\ rows' = rows
    BY <1>1 DEF Handled
  <1>5. DbOK(r.db) /\ Extends(db, db')
    BY <1>3, <1>4 DEF Says
  <1>6. DbOK(db)'
    BY <1>4, <1>5 DEF DbOK, Shaped, Sound, Pairs, OneAuthor, OwedToFollowers
  <1>7. RecordInv'
    <2>1. ASSUME NEW b \in Agents
          PROVE  \/ agent'[b].out = agent[b].out
                 \/ \A k \in 1 .. Len(agent'[b].out) : Told(db', agent'[b].out[k])
      <3>1. CASE agent'[b].out = agent[b].out
        BY <3>1
      <3>2. CASE agent'[b].out = r.events
        <4>1. CASE r.events = <<>>
          BY <3>2, <4>1
        <4>2. CASE r.events = <<Event(c)>> /\ Told(r.db, Event(c))
          <5> PICK e : e = Event(c)
            OBVIOUS
          <5>1. \A k \in 1 .. Len(<<e>>) : <<e>>[k] = e
            OBVIOUS
          <5> QED
            BY <1>4, <3>2, <4>2, <5>1
        <4> QED
          BY <1>3, <4>1, <4>2 DEF Says
      <3> QED
        BY <1>1, <3>1, <3>2 DEF Handled, Others
    <2> QED
      BY <1>4, <1>5, <2>1, RecordStays DEF TwitterInv
  <1>8. CountInv'
    BY <1>1, <1>3, <1>6, HandlerCount
  <1>9. KeptCommands /\ CompletedInHand
    BY <1>4 DEF KeptCommands, CompletedInHand
  <1>10. \A b \in Agents \ {a} : Coasts(b)
    BY <1>1 DEF Handled, Others, Coasts
  <1>11. Fans(db', agent'[a], c, memory'[a])
    <2> SUFFICES ASSUME FansOut(c) PROVE Fans(db', agent'[a], c, memory'[a])
      BY DEF Fans
    <2>1. r = FanOutTweet(db, c, memory[a])
      BY DEF Handle, FansOut
    <2>2. memory[a] = NoMemory \/ Covered(db, c.tweet, memory[a])
      BY <1>1 DEF Handled, TwitterInv, FanInv, Fans, Busy
    <2>3. FansOn(c, r)
      BY <1>2, <2>1, <2>2, FanOutTweetSays DEF TwitterInv
    <2>4. CASE /\ r.then = "more" /\ agent'[a] = agent[a] /\ memory'[a] = r.memory
      BY <1>4, <2>3, <2>4, <1>1 DEF Handled, Fans, FansOn
    <2>5. CASE r.then = "ok" /\ agent'[a].pc = "completing"
      BY <1>4, <2>3, <2>5 DEF Fans, FansOn
    <2>6. CASE agent'[a].pc = "failing"
      BY <2>6 DEF Fans
    <2> QED
      BY <1>1, <2>3, <2>4, <2>5, <2>6 DEF Handled, FansOn
  <1>12. FanInv'
    <2>1. rows'["command"][agent'[a].item].data = c
      BY <1>1, <1>4 DEF Handled
    <2> QED
      BY <1>5, <1>9, <1>10, <1>11, <2>1, FansStays, FanStays DEF TwitterInv
  <1> QED
    BY <1>6, <1>7, <1>8, <1>12 DEF Tables

(* The hand-off of the event: pending before, in the queue after.          *)
LEMMA EmitCount ==
    ASSUME Inv, TwitterInv, NEW a \in Agents, Emitted(a)
    PROVE  CountInv'
  <1>1. Len(agent[a].out) = 1 /\ agent[a].sent = 0
    BY DEF Emitted, TwitterInv, CountInv
  <1> PICK e \in Data : e = agent[a].out[1] /\ agent[a].out = <<e>>
    <2>1. agent[a].out \in Seq(Data)
      BY DEF Emitted
    <2> QED
      BY <1>1, <2>1
  <1>2. /\ agent'[a].pc = "completing" /\ agent[a].pc = "emitting"
        /\ \A b \in Agents \ {a} : agent'[b] = agent[b]
        /\ \E by : Recorded("event", e, by)
        /\ db' = db
    BY <1>1 DEF Emitted, Others
  <1>3. PICK n \in Ids :
           /\ rows'["event"][n].data = e
           /\ \A i \in Ids : i # n => rows'["event"][i] = rows["event"][i]
    BY <1>2 DEF Recorded, Queues
  <1>4. \A b \in Agents : agent'[b].pc = "emitting" => Len(agent'[b].out) = 1
    BY <1>2 DEF TwitterInv, CountInv
  <1>5. ASSUME NEW f \in Data
        PROVE  Cardinality(EventsOf(f)') + Cardinality(Pending(f)') <= db'.changes[f]
    <2>1. /\ Cardinality(EventsOf(f)) + Cardinality(Pending(f)) <= db'.changes[f]
          /\ db'.changes[f] \in Nat
      BY <1>2 DEF TwitterInv, CountInv, DbOK
    <2>2. CASE f = e
      <3>1. EventsOf(f)' = EventsOf(f) \cup {n}
        BY <1>3, <2>2 DEF EventsOf
      <3>2. /\ Cardinality(EventsOf(f)') \in Nat
            /\ Cardinality(EventsOf(f)') <= Cardinality(EventsOf(f)) + 1
        <4> PICK S : S = EventsOf(f)
          OBVIOUS
        <4>1. IsFiniteSet(S) /\ Cardinality(S) \in Nat
          BY PendingFinite
        <4>2. /\ IsFiniteSet(S \cup {n})
              /\ Cardinality(S \cup {n}) = Cardinality(S) \/
                 Cardinality(S \cup {n}) = Cardinality(S) + 1
          BY <4>1, FS_AddElement
        <4> QED
          BY <3>1, <4>1, <4>2
      <3>3. Pending(f)' = Pending(f) \ {a} /\ a \in Pending(f)
        BY <1>2, <2>2 DEF Pending
      <3>4. Cardinality(Pending(f)') = Cardinality(Pending(f)) - 1
        BY <3>3, PendingFinite, FS_RemoveElement
      <3> QED
        BY <2>1, <3>2, <3>4, PendingFinite
    <2>3. CASE f # e
      <3>1. EventsOf(f)' \subseteq EventsOf(f)
        BY <1>3, <2>3 DEF EventsOf
      <3>2. /\ Cardinality(EventsOf(f)') \in Nat
            /\ Cardinality(EventsOf(f)') <= Cardinality(EventsOf(f))
        BY <3>1, PendingFinite, FS_Subset, FS_CardinalityType
      <3>3. Pending(f)' = Pending(f)
        <4>1. <<e>> # <<f>>
          BY <2>3
        <4> QED
          BY <1>2, <4>1 DEF Pending
      <3> QED
        BY <2>1, <3>2, <3>3, PendingFinite
    <2> QED
      BY <2>2, <2>3
  <1> QED
    BY <1>4, <1>5 DEF CountInv

LEMMA EmitTwitter ==
    ASSUME Inv, TwitterInv, NEW a \in Agents, Emit(a)
    PROVE  Tables'
  <1>1. Emitted(a)
    BY EmitFlow
  <1>2. db' = db /\ memory' = memory /\ CompletedInHand
    BY <1>1 DEF Emitted
  <1>3. Extends(db, db')
    BY <1>2 DEF Extends
  <1>4. DbOK(db)'
    BY <1>2 DEF TwitterInv, DbOK, Shaped, Sound, Pairs, OneAuthor, OwedToFollowers
  <1>5. \A i \in Ids : rows'["command"][i] = rows["command"][i]
    BY <1>1 DEF Emitted, Recorded, Queues
  <1>6. RecordInv'
    <2>1. Told(db, agent[a].out[agent[a].sent + 1])
      BY <1>1 DEF Emitted, TwitterInv, RecordInv
    <2>2. \A i \in Ids : \/ rows'["event"][i].data = rows["event"][i].data
                         \/ Told(db', rows'["event"][i].data)
      BY <1>1, <1>2, <2>1 DEF Emitted, Recorded, Queues
    <2>3. \A b \in Agents : agent'[b].out = agent[b].out
      BY <1>1 DEF Emitted, Others
    <2> QED
      BY <1>3, <1>5, <2>2, <2>3, RecordStays DEF TwitterInv
  <1>7. CountInv'
    BY <1>1, EmitCount
  <1>8. KeptCommands
    BY <1>5 DEF KeptCommands
  <1>9. \A b \in Agents \ {a} : Coasts(b)
    BY <1>1 DEF Emitted, Others, Coasts
  <1>10. ~ FansOut(rows'["command"][agent'[a].item].data)
    BY <1>1, <1>5 DEF Emitted, TwitterInv, FanInv, Fans, Busy
  <1>11. Fans(db', agent'[a], rows'["command"][agent'[a].item].data, memory'[a])
    BY <1>10 DEF Fans
  <1>12. FanInv'
    BY <1>2, <1>3, <1>8, <1>9, <1>11, FansStays, FanStays DEF TwitterInv
  <1> QED
    BY <1>4, <1>6, <1>7, <1>12 DEF Tables

(* A subscriber: the outbox, or the one that records the fan-out.          *)
LEMMA NotifyTwitter ==
    ASSUME Inv, TwitterInv, Wired, NEW a \in Agents, Notify(a)
    PROVE  Tables'
  <1>1. Notified(a)
    BY NotifyFlow DEF TwitterInv
  <1> PICK i, k, e :
         /\ i \in Ids /\ k \in Nat
         /\ i = agent[a].item /\ k = agent[a].sent + 1 /\ e = rows["event"][i].data
    BY <1>1 DEF Notified
  <1> PICK r : r = Response(a) /\ r = Receive(db, i, e, k)
    BY WiredSteps
  <1>2. e \in Data /\ IsCommand(e) /\ Told(db, e)
    <2>1. rows["event"][i].status # "none"
      BY <1>1 DEF Notified
    <2>2. e \in Data
      BY <2>1 DEF Inv, RowInv, Queues
    <2>3. e # NoData
      BY <2>2, KernelAssumption DEF KernelAssumption
    <2>4. Told(db, e)
      BY <2>3 DEF TwitterInv, RecordInv
    <2> QED
      BY <2>2, <2>4, TwitterAssumption DEF TwitterAssumption
  <1>3. db' = r.db /\ CompletedInHand /\ Steady(a)
    BY <1>1 DEF Notified
  <1>4. Quiet(db, db')
    <2>1. CASE k = 1
      <3> PICK v : v = db.outbox \cup {i}
        OBVIOUS
      <3>1. r.db = [db EXCEPT !.outbox = v]
        BY <2>1 DEF Receive, OutboxSubscriber
      <3>2. Shaped(db)
        BY DEF TwitterInv, DbOK
      <3>3. Quiet(db, [db EXCEPT !.outbox = v])
        BY <3>2, OtherTables DEF Quiet
      <3> QED
        BY <1>3, <3>1, <3>3
    <2>2. CASE k # 1
      <3>1. r.db = db
        BY <2>2 DEF Receive, FanOutSubscriber
      <3> QED
        BY <1>3, <3>1 DEF Quiet, Alike, TwitterInv, DbOK
    <2> QED
      BY <2>1, <2>2
  <1>5. Extends(db, db')
    BY <1>4, QuietOK DEF TwitterInv
  <1>6. DbOK(db)'
    <2> PICK x : x = db'
      OBVIOUS
    <2>1. DbOK(x)
      BY <1>4, QuietOK DEF TwitterInv
    <2> QED
      BY <2>1 DEF DbOK, Shaped, Sound, Pairs, OneAuthor, OwedToFollowers
  <1>7. r.command \in Data => OnRecord(db, r.command)
    <2>1. CASE k = 1
      BY <2>1, KernelAssumption DEF Receive, OutboxSubscriber, KernelAssumption
    <2>2. CASE k # 1
      <3>1. e.type = "TweetPosted"
        BY <1>1, <2>2 DEF Notified, Wired, Listeners
      <3>2. e = [type |-> e.type, user |-> e.user, tweet |-> e.tweet, other |-> e.other]
        BY <1>2 DEF IsCommand, Command
      <3>3. r.command = [e EXCEPT !.type = "FanOutTweet"]
        BY <2>2 DEF Receive, FanOutSubscriber
      <3>4. /\ r.command.type = "FanOutTweet"
            /\ r.command.tweet = e.tweet /\ r.command.user = e.user
        BY <3>2, <3>3
      <3> QED
        BY <1>2, <3>1, <3>4 DEF Told, OnRecord, Posted
    <2> QED
      BY <2>1, <2>2
  <1>8. \/ rows' = rows
        \/ r.command \in Data /\ \E by : Recorded("command", r.command, by)
    BY <1>1 DEF Notified
  <1>9. /\ \A j \in Ids : rows'["event"][j].data = rows["event"][j].data
        /\ \A j \in Ids : \/ rows'["command"][j].data = rows["command"][j].data
                          \/ OnRecord(db', rows'["command"][j].data)
        /\ KeptCommands
    <2>1. r.command \in Data => OnRecord(db', r.command)
      BY <1>5, <1>7, PostedStays
    <2> QED
      BY <1>8, <2>1 DEF Recorded, Queues, KeptCommands
  <1>10. \A b \in Agents : Coasts(b)
    BY <1>3, OthersSteady
  <1>11. RecordInv'
    BY <1>5, <1>9, <1>10, RecordStays DEF TwitterInv, Coasts
  <1>12. CountInv'
    <2>1. \A f \in Data : db.changes[f] <= db'.changes[f]
      BY <1>4 DEF Quiet, TwitterInv, DbOK
    <2> QED
      BY <1>6, <1>9, <1>10, <2>1, CountStays, CoastsEmitting DEF TwitterInv
  <1>13. FanInv'
    BY <1>3, <1>5, <1>9, <1>10, FansStays, FanStays DEF TwitterInv
  <1> QED
    BY <1>6, <1>11, <1>12, <1>13 DEF Tables

LEMMA TwitterNextTables ==
    ASSUME Inv, LockInv, ServiceInv, TwitterInv, Wired,
           [TwitterNext]_<<vars, twitterVars>>
    PROVE  Inv' /\ LockInv' /\ ServiceInv' /\ TwitterInv'
  <1>1. Served
    BY TwitterStep
  <1>2. Inv' /\ LockInv' /\ ServiceInv'
    BY <1>1, ServedInv
  <1>3. CASE Aside
    <2>1. Calm
      BY <1>3, StillCalm DEF Aside, TwitterInv
    <2>2. Tables'
      BY <2>1, CalmTwitter
    <2>3. MemoryInv' /\ MailInv'
      BY <1>3 DEF Aside, TwitterInv, MemoryInv, MailInv
    <2> QED
      BY <1>2, <2>2, <2>3 DEF TwitterInv, Tables
  <1>4. CASE [Next]_vars
    <2>1. MemoryInv' /\ MailInv'
      BY <1>4, MemoryNext, MailNext DEF TwitterInv
    <2>2. Tables'
      BY <1>4, Flow, CalmTwitter, HandlerTwitter, EmitTwitter, NotifyTwitter
         DEF TwitterInv
    <2> QED
      BY <1>2, <2>1, <2>2 DEF TwitterInv, Tables
  <1> QED
    BY <1>1, <1>3, <1>4 DEF Served

LEMMA TwitterInitTables == TwitterInit => TwitterInv
  <1> SUFFICES ASSUME TwitterInit PROVE TwitterInv
    OBVIOUS
  <1>1. MemoryInv /\ MailInv
    BY MailInit DEF TwitterInit, Init, MemoryInv
  <1>2. Shaped(db) /\ db.owed = {} /\ db.changes = [d \in Data |-> 0]
    <2> PICK t, x, l, f, g, s, b :
           /\ t = InitDb.tweets /\ x = InitDb.deleted /\ l = InitDb.likes
           /\ f = InitDb.follows /\ g = InitDb.messages /\ s = InitDb.timelines
           /\ b = InitDb.outbox
      OBVIOUS
    <2> DEFINE h == [d \in Data |-> 0]
    <2>1. db = [tweets |-> t, deleted |-> x, likes |-> l, follows |-> f, messages |-> g,
                timelines |-> s, outbox |-> b, owed |-> {}, changes |-> h]
      <3>1. db = [EmptyDb EXCEPT !.tweets = t, !.deleted = x, !.likes = l, !.follows = f,
                                 !.messages = g, !.timelines = s, !.outbox = b]
        BY TwitterAssumption DEF TwitterInit, Init, TwitterAssumption
      <3> QED
        BY <3>1 DEF EmptyDb
    <2> HIDE DEF h
    <2>2. Shaped(db) /\ db.owed = {} /\ db.changes = h
      <3> PICK z : z = db
        OBVIOUS
      <3>1. z = [tweets |-> t, deleted |-> x, likes |-> l, follows |-> f, messages |-> g,
                 timelines |-> s, outbox |-> b, owed |-> {}, changes |-> h]
        BY <2>1
      <3>2. Shaped(z) /\ z.owed = {} /\ z.changes = h
        BY <3>1 DEF Shaped
      <3> QED
        BY <3>2
    <2> QED
      BY <2>2 DEF h
  <1>3. Pairs(db.tweets) /\ Pairs(db.follows) /\ OneAuthor(db.tweets)
    BY TwitterAssumption DEF TwitterInit, Init, TwitterAssumption
  <1>4. DbOK(db)
    BY <1>2, <1>3 DEF DbOK, Sound, Pairs, OwedToFollowers
  <1>5. /\ \A i \in Ids : rows["event"][i].data = NoData /\ rows["command"][i].data = NoData
        /\ \A i \in Ids : rows["command"][i].status = "none"
        /\ \A a \in Agents : agent[a].pc = "idle" /\ agent[a].out = <<>>
    BY DEF TwitterInit, Init, NoRow, Queues, IdleOn
  <1>6. RecordInv
    BY <1>5 DEF RecordInv
  <1>7. FanInv
    BY <1>5 DEF FanInv, Busy
  <1>8. CountInv
    <2>1. ASSUME NEW e \in Data PROVE EventsOf(e) = {} /\ Pending(e) = {}
      BY <1>5, KernelAssumption DEF EventsOf, Pending, KernelAssumption
    <2>2. \A e \in Data : db.changes[e] = 0
      BY <1>2
    <2>3. \A a \in Agents : agent[a].pc # "emitting"
      BY <1>5
    <2>4. Cardinality({}) = 0
      BY FS_EmptySet
    <2> QED
      BY <2>1, <2>2, <2>3, <2>4 DEF CountInv
  <1> QED
    BY <1>1, <1>4, <1>6, <1>7, <1>8 DEF TwitterInv

(* The tables, the queues and what the agents have in hand agree, with the *)
(* application's own handlers and subscribers.                             *)
THEOREM TwitterTables ==
    ASSUME Wired PROVE TwitterSpec => [](Inv /\ LockInv /\ ServiceInv /\ TwitterInv)
  <1>1. TwitterInit => Inv /\ LockInv /\ ServiceInv /\ TwitterInv
    BY TwitterInitInv, TwitterInitTables
  <1>2. Inv /\ LockInv /\ ServiceInv /\ TwitterInv
        /\ [TwitterNext]_<<vars, twitterVars>> =>
           Inv' /\ LockInv' /\ ServiceInv' /\ TwitterInv'
    BY TwitterNextTables
  <1> QED
    BY <1>1, <1>2, PTL DEF TwitterSpec

(* An event is in the queue at most as often as its change was made: of a  *)
(* handler's statements, only the one that changed a table announces, and  *)
(* what a crash or a failing batch forgets is announced by nobody.         *)
THEOREM EventsAreChanges == ASSUME Wired PROVE TwitterSpec => []OnlyRealChanges
  <1>1. Inv /\ TwitterInv => OnlyRealChanges
    <2> SUFFICES ASSUME Inv, TwitterInv,
                        NEW e \in {rows["event"][i].data : i \in Ids} \ {NoData}
                 PROVE  Cardinality(EventsOf(e)) <= db.changes[e]
      BY DEF OnlyRealChanges, EventsOf
    <2>1. e \in Data
      BY DEF Inv, CoreType, Row, Queues
    <2>2. /\ Cardinality(EventsOf(e)) + Cardinality(Pending(e)) <= db.changes[e]
          /\ db.changes[e] \in Nat
      BY <2>1 DEF TwitterInv, CountInv, DbOK
    <2> QED
      BY <2>2, PendingFinite
  <1> QED
    BY <1>1, TwitterTables, PTL

(* A completed fan-out has reached whoever is owed the tweet, whatever     *)
(* becomes of the follows and of the tweets while it runs, and however     *)
(* often it is retried.                                                    *)
THEOREM FanOutsDeliver == ASSUME Wired PROVE TwitterSpec => []FanOutDelivers
  <1>1. TwitterInv => FanOutDelivers
    BY DEF TwitterInv, FanInv, FansOut, Reached, FanOutDelivers
  <1> QED
    BY <1>1, TwitterTables, PTL
=============================================================================
