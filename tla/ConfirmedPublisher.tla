------------------------- MODULE ConfirmedPublisher -------------------------
(***************************************************************************)
(* The strict AMQP publisher of the outbox: any number of callers share    *)
(* one channel behind a mutex, a call is Ok only when the broker confirms  *)
(* that it routed the message, and after any failure the channel is        *)
(* dropped, so that the next call connects again.                          *)
(*                                                                         *)
(* The broker answers the messages of a channel in order.  Nothing else is *)
(* assumed of how an answer finds its call: a call takes the next answer   *)
(* on its channel.                                                         *)
(*                                                                         *)
(* Time.  Timeout is the publisher's timeout in ticks; a call that is past *)
(* it gives up before time goes on, and so does a free mutex wake the      *)
(* first caller that waits for it.                                         *)
(***************************************************************************)
EXTENDS Naturals, Sequences, FiniteSets

CONSTANTS
    Callers,    \* threads of the blocking pool that publish
    MaxCalls,   \* bound: the calls one thread makes
    Timeout     \* ConfirmedAmqpPublisher::timeout

ASSUME PublisherAssumption ==
    /\ IsFiniteSet(Callers)
    /\ MaxCalls \in Nat \ {0}
    /\ Timeout \in Nat \ {0}

VARIABLES
    mutex,      \* the callers at the lock, its holder first: tokio's mutex is fair
    channel,    \* the cached connection and channel
    caller,     \* what each caller is doing
    fate,       \* what the broker did with the message of each call
    succeeded   \* the calls that returned Ok

vars == <<mutex, channel, caller, fate, succeeded>>

Calls == Callers \X (1 .. MaxCalls)

(* age: ticks since the call, counted up to MaxAge; elapsed: ticks since   *)
(* it got the mutex.                                                       *)
MaxAge == Timeout * Cardinality(Callers) + 1

Caller ==
    [pc : {"idle", "waiting", "connecting", "publishing", "confirming"},
     calls : 0 .. MaxCalls, age : 0 .. MaxAge, elapsed : 0 .. Timeout]

(* sent: handed to the channel and not yet answered; answers: received and *)
(* not yet taken.                                                          *)
Channel ==
    [cached : BOOLEAN, live : BOOLEAN, sent : Seq(Calls),
     answers : Seq({"ack", "returned", "nack"})]

TypeOK ==
    /\ mutex \in Seq(Callers)
    /\ channel \in Channel
    /\ caller \in [Callers -> Caller]
    /\ fate \in [Calls -> {"none", "sent", "routed", "unroutable", "refused", "lost"}]
    /\ succeeded \subseteq Calls

NoChannel == [cached |-> FALSE, live |-> FALSE, sent |-> <<>>, answers |-> <<>>]
OpenChannel == [NoChannel EXCEPT !.cached = TRUE, !.live = TRUE]

Init ==
    /\ mutex = <<>>
    /\ channel = NoChannel
    /\ caller = [c \in Callers |->
                    [pc |-> "idle", calls |-> 0, age |-> 0, elapsed |-> 0]]
    /\ fate = [k \in Calls |-> "none"]
    /\ succeeded = {}

-----------------------------------------------------------------------------
CallOf(c) == <<c, caller[c].calls>>

Goto(c, pc) == caller' = [caller EXCEPT ![c].pc = pc]

Call(c) ==
    /\ caller[c].pc = "idle"
    /\ caller[c].calls < MaxCalls
    /\ mutex' = Append(mutex, c)
    /\ caller' = [caller EXCEPT ![c].pc = "waiting", ![c].calls = @ + 1,
                                ![c].age = 0, ![c].elapsed = 0]
    /\ UNCHANGED <<channel, fate, succeeded>>

(* The timeout starts here, not before.                                    *)
Lock(c) ==
    /\ caller[c].pc = "waiting"
    /\ Head(mutex) = c
    /\ Goto(c, IF channel.cached THEN "publishing" ELSE "connecting")
    /\ UNCHANGED <<mutex, channel, fate, succeeded>>

Returns(c) ==
    /\ mutex' = Tail(mutex)
    /\ caller' = [caller EXCEPT ![c].pc = "idle", ![c].age = 0, ![c].elapsed = 0]

(* What was sent on a channel that is given up may have arrived or not.    *)
Abandoned(fates) ==
    \E arrived \in SUBSET {channel.sent[n] : n \in DOMAIN channel.sent} :
        fates = [k \in Calls |->
                    IF fate[k] # "sent" THEN fate[k]
                    ELSE IF k \in arrived THEN "routed" ELSE "lost"]

Succeeds(c) ==
    /\ Returns(c)
    /\ succeeded' = succeeded \cup {CallOf(c)}

(* Mutated form: the connection is kept after a failure.                  *)
FailsConnected(c) ==
    /\ Returns(c)
    /\ UNCHANGED <<channel, fate, succeeded>>

Fails(c) ==
    /\ Returns(c)
    /\ channel' = NoChannel
    /\ Abandoned(fate')
    /\ UNCHANGED succeeded

Connect(c) ==
    /\ caller[c].pc = "connecting"
    /\ \/ /\ channel' = OpenChannel
          /\ Goto(c, "publishing")
          /\ UNCHANGED <<mutex, fate, succeeded>>
       \/ Fails(c)

Send(c) ==
    /\ caller[c].pc = "publishing"
    /\ \/ /\ channel.live
          /\ channel' = [channel EXCEPT !.sent = Append(@, CallOf(c))]
          /\ fate' = [fate EXCEPT ![CallOf(c)] = "sent"]
          /\ Goto(c, "confirming")
          /\ UNCHANGED <<mutex, succeeded>>
       \/ Fails(c)

(* Mutated form: a message the broker returned counts as published.       *)
AnyAckConfirms(answer) == answer \in {"ack", "returned"}

(* require_confirmation: an acknowledgement that returns no message.       *)
Confirms(answer) == answer = "ack"

Confirm(c) ==
    /\ caller[c].pc = "confirming"
    /\ \/ /\ channel.answers # <<>>
          /\ Confirms(Head(channel.answers))
          /\ channel' = [channel EXCEPT !.answers = Tail(@)]
          /\ Succeeds(c)
          /\ UNCHANGED fate
       \/ /\ channel.answers # <<>>
          /\ ~ Confirms(Head(channel.answers))
          /\ Fails(c)
       \/ /\ channel.answers = <<>>
          /\ ~ channel.live
          /\ Fails(c)

(* Mutated form: connecting is not under the timeout.                     *)
TimedOutPublishing(c) ==
    caller[c].pc \in {"publishing", "confirming"} /\ caller[c].elapsed >= Timeout

TimedOut(c) ==
    /\ caller[c].pc \in {"connecting", "publishing", "confirming"}
    /\ caller[c].elapsed >= Timeout

GiveUp(c) == TimedOut(c) /\ Fails(c)

-----------------------------------------------------------------------------
(* The broker and the network.                                             *)

Handled(kind, f) ==
    /\ channel' = [channel EXCEPT !.sent = Tail(@), !.answers = Append(@, kind)]
    /\ fate' = [fate EXCEPT ![Head(channel.sent)] = f]
    /\ UNCHANGED <<mutex, caller, succeeded>>

Broker ==
    /\ channel.live
    /\ channel.sent # <<>>
    /\ \/ Handled("ack", "routed")
       \/ Handled("returned", "unroutable")
       \/ Handled("nack", "refused")

(* The connection breaks, in use or between two calls: an answer may be    *)
(* lost although the message was routed.                                   *)
Break ==
    /\ channel.live
    /\ channel' = [channel EXCEPT !.live = FALSE, !.sent = <<>>]
    /\ Abandoned(fate')
    /\ UNCHANGED <<mutex, caller, succeeded>>

-----------------------------------------------------------------------------
Older(c) ==
    LET k == caller[c] IN
    IF k.pc = "idle" THEN k
    ELSE [k EXCEPT !.age = IF @ < MaxAge THEN @ + 1 ELSE @,
                   !.elapsed = IF k.pc = "waiting" \/ @ > Timeout THEN @ ELSE @ + 1]

Tick ==
    /\ \A c \in Callers : ~ TimedOut(c)
    /\ mutex # <<>> => caller[Head(mutex)].pc # "waiting"
    /\ caller' = [c \in Callers |-> Older(c)]
    /\ UNCHANGED <<mutex, channel, fate, succeeded>>

Publish(c) == Lock(c) \/ Connect(c) \/ Send(c) \/ Confirm(c) \/ GiveUp(c)

Next ==
    \/ \E c \in Callers : Call(c) \/ Publish(c)
    \/ Broker
    \/ Break
    \/ Tick

Spec == Init /\ [][Next]_vars

(* Time passes, a timer that is due fires and a mutex that is free wakes   *)
(* the next caller.  Nothing is assumed of the broker or the network.      *)
Fairness ==
    /\ WF_vars(Tick)
    /\ \A c \in Callers : WF_vars(Lock(c)) /\ WF_vars(GiveUp(c))

FairSpec == Spec /\ Fairness

-----------------------------------------------------------------------------
(* Properties.                                                             *)

(* A call that returned Ok: the broker routed the message of that call,    *)
(* whatever earlier calls on the same channel left unanswered.             *)
OkMeansRouted == \A k \in succeeded : fate[k] = "routed"

(* Between calls nothing is pending on a cached channel, and while a call  *)
(* waits for its confirmation nothing but its own message is: an answer    *)
(* that is still to come can only be the caller's.                         *)
NothingPending ==
    LET pending == Len(channel.sent) + Len(channel.answers) IN
    /\ pending <= 1
    /\ pending = 1 => \E c \in Callers :
           /\ mutex # <<>> /\ Head(mutex) = c
           /\ caller[c].pc = "confirming"
           /\ channel.sent # <<>> => Head(channel.sent) = CallOf(c)

(* No call takes longer than one timeout for every thread that shares the  *)
(* publisher.                                                              *)
BoundedByPeers == \A c \in Callers : caller[c].age <= Timeout * Cardinality(Callers)

(* Every call returns, whatever the broker does not answer.                *)
EveryCallReturns ==
    \A c \in Callers : caller[c].pc # "idle" ~> caller[c].pc = "idle"
=============================================================================
