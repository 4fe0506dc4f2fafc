------------------------------ MODULE Twitter ------------------------------
(***************************************************************************)
(* The Twitter test application on the kernel: its nine command handlers,  *)
(* the subscribers of its eight events, and its HTTP endpoints, which      *)
(* dispatch a command inline and answer with what they then read.          *)
(*                                                                         *)
(* A handler is a sequence of SQL statements outside any transaction: one  *)
(* call of Handle is one statement.  A command is a record of its type and *)
(* the ids it names; user is who acts, tweet the id of the tweet, retweet  *)
(* or message, other the second id.  An event carries its command's ids.   *)
(***************************************************************************)
EXTENDS Kernel

CONSTANTS
    Plain,        \* the commands plain requests carry, of Requests
    Inbound,      \* the commands messages carry, of Requests
    Messages,     \* ids a sender gives to messages of the inbox endpoint
    NoMessage,    \* the message id of a plain HTTP request
    NoRequest

CommandTypes ==
    {"PostTweet", "DeleteTweet", "Retweet", "LikeTweet", "UnlikeTweet", "FollowUser",
     "UnfollowUser", "SendDirectMessage"}

Command(type, user, tweet, other) ==
    [type |-> type, user |-> user, tweet |-> tweet, other |-> other]

IsCommand(c) == c = Command(c.type, c.user, c.tweet, c.other)

(* Tables and, as history, owed: the timeline entries due to whoever       *)
(* followed the author when the tweet was posted and has not stopped since;*)
(* changes: how often each event's change was really made.                 *)
EmptyDb ==
    [tweets |-> {}, deleted |-> {}, likes |-> {}, follows |-> {}, messages |-> {},
     timelines |-> {}, outbox |-> {}, owed |-> {}, changes |-> [d \in Data |-> 0]]

(* The rows of tweets have an author each, those of follows two users.     *)
Pairs(table) == \A row \in table : row = <<row[1], row[2]>>
OneAuthor(table) == \A x, y \in table : x[1] = y[1] => x[2] = y[2]

(* What carries data is a command or its event; a caller or a message asks *)
(* for anything but a fan-out.  Nothing is owed or changed at the start.   *)
ASSUME TwitterAssumption ==
    /\ Plain \subseteq Requests
    /\ Inbound \subseteq Requests
    /\ IsFiniteSet(Agents)
    /\ \A d \in Data : IsCommand(d)
    /\ \A r \in Requests : r.type \in CommandTypes
    /\ \A m \in Mail : Route(m[2]) \in Requests \cup {NoData}
    /\ InitDb = [EmptyDb EXCEPT
          !.tweets = InitDb.tweets, !.deleted = InitDb.deleted, !.likes = InitDb.likes,
          !.follows = InitDb.follows, !.messages = InitDb.messages,
          !.timelines = InitDb.timelines, !.outbox = InitDb.outbox]
    /\ Pairs(InitDb.tweets) /\ Pairs(InitDb.follows) /\ OneAuthor(InitDb.tweets)

VARIABLES
    http,     \* per caller: the request being served
    inbox     \* the status column of inbox_messages

twitterVars == <<http, inbox>>

EventType(type) ==
    CASE type = "PostTweet"         -> "TweetPosted"
      [] type = "DeleteTweet"       -> "TweetDeleted"
      [] type = "Retweet"           -> "TweetRetweeted"
      [] type = "LikeTweet"         -> "TweetLiked"
      [] type = "UnlikeTweet"       -> "TweetUnliked"
      [] type = "FollowUser"        -> "UserFollowed"
      [] type = "UnfollowUser"      -> "UserUnfollowed"
      [] type = "SendDirectMessage" -> "DirectMessageSent"

Event(c) == [c EXCEPT !.type = EventType(c.type)]

Exists(d, t) == \E row \in d.tweets : row[1] = t
Live(d, t) == Exists(d, t) /\ t \notin d.deleted

(* How a statement ends: the handler goes on, returns Ok, or an error.     *)
Goes(d, memory_) ==
    [db |-> d, then |-> "more", memory |-> memory_, events |-> <<>>, error |-> NoError]
Nothing(d) ==
    [db |-> d, then |-> "ok", memory |-> NoMemory, events |-> <<>>, error |-> NoError]
Announces(d, c) ==
    [Nothing(d) EXCEPT !.events = <<Event(c)>>, !.db.changes[Event(c)] = @ + 1]
Refuses(d, reason) == [Nothing(d) EXCEPT !.then = "error", !.error = reason]

-----------------------------------------------------------------------------
(* The handlers.                                                           *)

(* Mutated form: the id is looked up first and inserted in a second step.  *)
PostTweetLookingFirst(d, c, m) ==
    IF m = NoMemory
    THEN IF Exists(d, c.tweet) THEN Refuses(d, "duplicate tweet_id") ELSE Goes(d, "free")
    ELSE IF Exists(d, c.tweet) THEN [Nothing(d) EXCEPT !.events = <<Event(c)>>]
    ELSE Announces([d EXCEPT !.tweets = @ \cup {<<c.tweet, c.user>>}], c)

PostTweet(d, c, m) ==
    IF Exists(d, c.tweet) THEN Refuses(d, "duplicate tweet_id")
    ELSE Announces([d EXCEPT
            !.tweets = @ \cup {<<c.tweet, c.user>>},
            !.owed = @ \cup {<<f[1], c.tweet>> : f \in {g \in d.follows : g[2] = c.user}}], c)

DeleteTweet(d, c, m) ==
    IF <<c.tweet, c.user>> \in d.tweets /\ Live(d, c.tweet)
    THEN Announces([d EXCEPT !.deleted = @ \cup {c.tweet}], c)
    ELSE Refuses(d, "tweet not found")

(* The original is looked up, then the retweet inserted: it may have been  *)
(* deleted in between.                                                     *)
Retweet(d, c, m) ==
    IF m = NoMemory
    THEN IF Live(d, c.other) THEN Goes(d, "found") ELSE Refuses(d, "tweet not found")
    ELSE IF Exists(d, c.tweet) THEN Refuses(d, "duplicate retweet_id")
    ELSE Announces([d EXCEPT !.tweets = @ \cup {<<c.tweet, c.user>>}], c)

LikeTweet(d, c, m) ==
    IF m = NoMemory
    THEN IF Live(d, c.tweet) THEN Goes(d, "found") ELSE Refuses(d, "tweet not found")
    ELSE IF <<c.user, c.tweet>> \in d.likes THEN Nothing(d)
    ELSE Announces([d EXCEPT !.likes = @ \cup {<<c.user, c.tweet>>}], c)

(* A deleted tweet can still be unliked.                                   *)
UnlikeTweet(d, c, m) ==
    IF m = NoMemory
    THEN IF Exists(d, c.tweet) THEN Goes(d, "found") ELSE Refuses(d, "tweet not found")
    ELSE IF <<c.user, c.tweet>> \notin d.likes THEN Nothing(d)
    ELSE Announces([d EXCEPT !.likes = @ \ {<<c.user, c.tweet>>}], c)

FollowUser(d, c, m) ==
    IF c.user = c.other THEN Refuses(d, "cannot follow self")
    ELSE IF <<c.user, c.other>> \in d.follows THEN Nothing(d)
    ELSE Announces([d EXCEPT !.follows = @ \cup {<<c.user, c.other>>}], c)

UnfollowUser(d, c, m) ==
    IF <<c.user, c.other>> \notin d.follows THEN Nothing(d)
    ELSE Announces([d EXCEPT
            !.follows = @ \ {<<c.user, c.other>>},
            !.owed = {o \in @ : o[1] # c.user \/ <<o[2], c.other>> \notin d.tweets}], c)

SendDirectMessage(d, c, m) ==
    IF c.tweet \in d.messages THEN Refuses(d, "duplicate message_id")
    ELSE Announces([d EXCEPT !.messages = @ \cup {c.tweet}], c)

(* Mutated form: the columns of follows are confused, and the entries go   *)
(* to those whom the author follows.                                       *)
FanOutTweetToFollowed(d, c, m) ==
    IF m = NoMemory
    THEN Goes(d, {f[2] : f \in {g \in d.follows : g[1] = c.user}})
    ELSE IF m = {} THEN Nothing(d)
    ELSE LET u == CHOOSE u \in m : TRUE
         IN  Goes([d EXCEPT !.timelines = @ \cup {<<u, c.tweet>>}], m \ {u})

(* The followers are loaded, then inserted one by one; an entry that is    *)
(* there already is left alone.  What is still to insert is the memory.    *)
FanOutTweet(d, c, m) ==
    IF m = NoMemory
    THEN Goes(d, {f[1] : f \in {g \in d.follows : g[2] = c.user}})
    ELSE IF m = {} THEN Nothing(d)
    ELSE LET u == CHOOSE u \in m : TRUE
         IN  Goes([d EXCEPT !.timelines = @ \cup {<<u, c.tweet>>}], m \ {u})

Handle(d, c, m) ==
    CASE c.type = "PostTweet"         -> PostTweet(d, c, m)
      [] c.type = "DeleteTweet"       -> DeleteTweet(d, c, m)
      [] c.type = "Retweet"           -> Retweet(d, c, m)
      [] c.type = "LikeTweet"         -> LikeTweet(d, c, m)
      [] c.type = "UnlikeTweet"       -> UnlikeTweet(d, c, m)
      [] c.type = "FollowUser"        -> FollowUser(d, c, m)
      [] c.type = "UnfollowUser"      -> UnfollowUser(d, c, m)
      [] c.type = "SendDirectMessage" -> SendDirectMessage(d, c, m)
      [] c.type = "FanOutTweet"       -> FanOutTweet(d, c, m)

(* The subscribers: the outbox first, keyed by the event's id; then, for a *)
(* new tweet, the one that records a fan-out command.                      *)
Listeners(e) == IF e.type = "TweetPosted" THEN 2 ELSE 1

OutboxSubscriber(d, id, e) ==
    [db |-> [d EXCEPT !.outbox = @ \cup {id}], error |-> NoError, command |-> NoData]

FanOutSubscriber(d, id, e) ==
    [db |-> d, error |-> NoError, command |-> [e EXCEPT !.type = "FanOutTweet"]]

Receive(d, id, e, k) ==
    IF k = 1 THEN OutboxSubscriber(d, id, e) ELSE FanOutSubscriber(d, id, e)

-----------------------------------------------------------------------------
(* The endpoints.                                                          *)

(* What the first error of the caller's batches is reported as.            *)
Interpret(reason) ==
    CASE reason = "tweet not found"    -> 404
      [] reason = "cannot follow self" -> 400
      [] reason \in {"duplicate tweet_id", "duplicate retweet_id",
                     "duplicate message_id"} -> 409
      [] OTHER -> 500

(* Each endpoint's answer after a command that returned Ok: the entity,    *)
(* read back, where a row that is not there is a storage error; what the   *)
(* request said; or nothing.                                               *)
Entity(found) == IF found THEN 200 ELSE 500
NoContent == 204

PostTweetReply(d, r) == Entity(Exists(d, r.tweet))
DeleteTweetReply(d, r) == NoContent
RetweetReply(d, r) == Entity(Exists(d, r.tweet))
LikeTweetReply(d, r) == Entity(<<r.user, r.tweet>> \in d.likes)
UnlikeTweetReply(d, r) == NoContent
FollowUserReply(d, r) == Entity(<<r.user, r.other>> \in d.follows)
UnfollowUserReply(d, r) == 200
SendDirectMessageReply(d, r) == Entity(r.tweet \in d.messages)

Reply(d, r) ==
    CASE r.type = "PostTweet"         -> PostTweetReply(d, r)
      [] r.type = "DeleteTweet"       -> DeleteTweetReply(d, r)
      [] r.type = "Retweet"           -> RetweetReply(d, r)
      [] r.type = "LikeTweet"         -> LikeTweetReply(d, r)
      [] r.type = "UnlikeTweet"       -> UnlikeTweetReply(d, r)
      [] r.type = "FollowUser"        -> FollowUserReply(d, r)
      [] r.type = "UnfollowUser"      -> UnfollowUserReply(d, r)
      [] r.type = "SendDirectMessage" -> SendDirectMessageReply(d, r)
      [] OTHER                        -> 200

(* The inbox endpoint reads the same back, and always has a body.          *)
MaterializeEntity(d, r) == IF Reply(d, r) = 500 THEN 500 ELSE 200

Success(d, r, m) == IF m = NoMessage THEN Reply(d, r) ELSE MaterializeEntity(d, r)

Serving(pc, r, m) == [pc |-> pc, request |-> r, message |-> m, status |-> 0]

Answers(c, status) ==
    http' = [http EXCEPT ![c].pc = "answered", ![c].status = status]

(* Content is checked by two endpoints, before anything is recorded, and   *)
(* by no handler.                                                          *)
Invalid(c, r) ==
    /\ http[c].pc = "idle"
    /\ r.type \in {"PostTweet", "SendDirectMessage"}
    /\ http' = [http EXCEPT ![c] = [Serving("answered", r, NoMessage) EXCEPT !.status = 400]]
    /\ UNCHANGED <<vars, inbox>>

(* POST makes the id of a tweet, a retweet or a message, Uuid::now_v7; the *)
(* sender of a message to the inbox endpoint has made it.                  *)
FreshFor(r) ==
    r.type \in {"PostTweet", "Retweet", "SendDirectMessage"} =>
        \A c \in Callers : http[c].pc # "idle" => http[c].request.tweet # r.tweet

Request(c, r) ==
    /\ http[c].pc = "idle"
    /\ FreshFor(r)
    /\ Unused("command") # {}
    /\ LET i == FreshId("command") IN Submit(c, r, i) \/ SubmitFails(c, r, i)
    /\ http' = [http EXCEPT ![c] = Serving("dispatching", r, NoMessage)]
    /\ UNCHANGED inbox

(* The inbox endpoint: a message id is received once; its command is then  *)
(* dispatched under the message's id, which some command may have already. *)
Receipt(c, r, m) ==
    /\ http[c].pc = "idle"
    /\ IF inbox[m] = "none"
       THEN /\ inbox' = [inbox EXCEPT ![m] = "received"]
            /\ http' = [http EXCEPT ![c] = Serving("received", r, m)]
       ELSE /\ http' = [http EXCEPT ![c] = [Serving("answered", r, m) EXCEPT !.status = 409]]
            /\ UNCHANGED inbox
    /\ UNCHANGED vars

DispatchInbound(c) ==
    /\ http[c].pc = "received"
    /\ \E i \in Ids :
          /\ i \in Unused("command") => i = FreshId("command")
          /\ Submit(c, http[c].request, i) \/ SubmitFails(c, http[c].request, i)
    /\ http' = [http EXCEPT ![c].pc = "dispatching"]
    /\ UNCHANGED inbox

(* dispatch_command came back.  A message is marked before the answer.     *)
Returned(c) ==
    /\ http[c].pc = "dispatching"
    /\ agent[c].pc = "returned"
    /\ IF http[c].message = NoMessage
       THEN UNCHANGED inbox
       ELSE inbox' = [inbox EXCEPT ![http[c].message] =
                         IF agent[c].failed THEN "failed" ELSE "processed"]
    /\ IF agent[c].failed THEN Answers(c, Interpret(error[c]))
       ELSE http' = [http EXCEPT ![c].pc = "reading"]
    /\ UNCHANGED vars

Answer(c) ==
    /\ http[c].pc = "reading"
    /\ Answers(c, Success(db, http[c].request, http[c].message))
    /\ UNCHANGED <<vars, inbox>>

(* The client goes away: the endpoint's future is dropped where it waits,  *)
(* the blocking task it waits for runs on.                                 *)
Disconnect(c) ==
    /\ Fault
    /\ http[c].pc \in {"received", "dispatching", "reading"}
    /\ http' = [http EXCEPT ![c].pc = "gone"]
    /\ UNCHANGED <<db, memory, error, rows, agent, heard, claims, inbox>>

(* A database error at a statement of the endpoint's own: the client is    *)
(* told of it, and a message it received keeps the status it has.          *)
StatementFails(c) ==
    /\ Fault
    /\ \/ /\ http[c].pc = "idle"
          /\ \E r \in Inbound, m \in Messages :
                /\ inbox[m] = "none"
                /\ inbox' = [inbox EXCEPT ![m] = "received"] \/ UNCHANGED inbox
                /\ http' = [http EXCEPT ![c] =
                               [Serving("answered", r, m) EXCEPT !.status = 500]]
       \/ /\ \/ http[c].pc = "reading"
             \/ /\ http[c].pc = "dispatching" /\ agent[c].pc = "returned"
                /\ http[c].message # NoMessage
          /\ Answers(c, 500)
          /\ UNCHANGED inbox
    /\ UNCHANGED <<db, memory, error, rows, agent, heard, claims>>

TwitterInit ==
    /\ Init
    /\ http = [c \in Callers |-> Serving("idle", NoRequest, NoMessage)]
    /\ inbox = [m \in Messages |-> "none"]

Endpoint(c) ==
    \/ \E r \in Plain : Invalid(c, r) \/ Request(c, r)
    \/ \E r \in Inbound, m \in Messages : Receipt(c, r, m)
    \/ DispatchInbound(c)
    \/ Returned(c)
    \/ Answer(c)
    \/ StatementFails(c)
    \/ Disconnect(c)

TwitterNext ==
    \/ \E c \in Callers : Endpoint(c)
    \/ KernelStep /\ UNCHANGED twitterVars

TwitterSpec == TwitterInit /\ [][TwitterNext]_<<vars, twitterVars>>

-----------------------------------------------------------------------------
(* Properties.                                                             *)

(* The kernel's tables, the requests in hand and the status of a received  *)
(* message (the column of inbox_messages) have their types.                *)
TwitterTypeOK ==
    /\ TypeOK
    /\ inbox \in [Messages -> {"none", "received", "processed", "failed"}]
    /\ http \in [Callers ->
         [pc : {"idle", "received", "dispatching", "reading", "answered", "gone"},
          request : Requests \cup {NoRequest}, message : Messages \cup {NoMessage},
          status : {0, 200, 204, 400, 404, 409, 500}]]

(* Only real changes are announced: whatever is retried, raced or asked    *)
(* twice, an event is in the queue at most as often as its change was made *)
(* to the tables.                                                          *)
OnlyRealChanges ==
    \A e \in {rows["event"][i].data : i \in Ids} \ {NoData} :
        Cardinality({i \in Ids : rows["event"][i].data = e}) <= db.changes[e]

(* A completed fan-out has reached everyone who followed the author when   *)
(* the tweet was posted and has not unfollowed since.                      *)
FanOutDelivers ==
    \A i \in Ids :
        /\ rows["command"][i].status = "done"
        /\ rows["command"][i].data.type = "FanOutTweet"
        => {o \in db.owed : o[2] = rows["command"][i].data.tweet} \subseteq db.timelines
=============================================================================
