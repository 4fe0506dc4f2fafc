---------------------- MODULE ConfirmedPublisherProofs ----------------------
(***************************************************************************)
(* Theorems about ConfirmedPublisher for any number of threads, of calls   *)
(* and of ticks in the timeout.                                            *)
(***************************************************************************)
EXTENDS ConfirmedPublisher, Functions, FiniteSetTheorems, SequenceTheorems, TLAPS

(***************************************************************************)
(* The inductive invariant.  Why an answer meets its own call rests on the *)
(* mutex, whose head alone uses the channel (QueueInv), and on a channel   *)
(* that carries nothing but the message of the one caller that waits for   *)
(* its confirmation (ChannelInv).  The bound on a call's age rests on what *)
(* the callers behind it are still owed: one timeout for each place in the *)
(* queue (AgeInv).                                                         *)
(***************************************************************************)
N == Cardinality(Callers)

InUse(c) == caller[c].pc \in {"connecting", "publishing", "confirming"}

QueueInv ==
    /\ \A n \in 1 .. Len(mutex) : caller[mutex[n]].pc # "idle"
    /\ \A n, k \in 1 .. Len(mutex) : mutex[n] = mutex[k] => n = k
    /\ \A c \in Callers :
           /\ caller[c].pc # "idle" => \E n \in 1 .. Len(mutex) : mutex[n] = c
           /\ InUse(c) => mutex[1] = c

CallInv ==
    /\ \A c \in Callers : caller[c].pc # "idle" =>
           /\ caller[c].calls > 0
           /\ CallOf(c) \notin succeeded
    /\ \A k \in succeeded : k[2] <= caller[k[1]].calls

Unanswered(c) ==
    /\ channel.sent = <<CallOf(c)>>
    /\ channel.answers = <<>>
    /\ fate[CallOf(c)] = "sent"

Answered(c) ==
    /\ channel.sent = <<>>
    /\ \E a \in {"ack", "returned", "nack"} :
           /\ channel.answers = <<a>>
           /\ a = "ack" => fate[CallOf(c)] = "routed"

Quiet == channel.sent = <<>> /\ channel.answers = <<>>

ChannelInv ==
    \/ Quiet
    \/ \E c \in Callers :
           caller[c].pc = "confirming" /\ (Unanswered(c) \/ Answered(c))

AgeInv ==
    /\ \A c \in Callers : ~ InUse(c) => caller[c].elapsed = 0
    /\ \A c \in Callers : caller[c].pc = "idle" => caller[c].age = 0
    /\ \A n \in 1 .. Len(mutex) :
           caller[mutex[n]].age <= Timeout * (N - n) + caller[mutex[1]].elapsed

IInv ==
    /\ TypeOK
    /\ QueueInv
    /\ CallInv
    /\ ChannelInv
    /\ AgeInv
    /\ OkMeansRouted

-----------------------------------------------------------------------------
(* Arithmetic and sequences.                                               *)

LEMMA Bounds ==
    /\ N \in Nat
    /\ Timeout \in Nat
    /\ Timeout > 0
    /\ MaxAge \in Nat
    /\ MaxAge = Timeout * N + 1
  <1>1. N \in Nat
    BY FS_CardinalityType, PublisherAssumption DEF N, PublisherAssumption
  <1>2. Timeout \in Nat /\ Timeout > 0
    BY PublisherAssumption DEF PublisherAssumption
  <1>3. Timeout * N \in Nat
    BY <1>1, <1>2
  <1> QED
    BY <1>1, <1>2, <1>3 DEF MaxAge, N

(* One place further up the queue is one timeout more.                     *)
LEMMA Places ==
    ASSUME NEW T \in Nat, NEW p \in Nat, NEW n \in 1 .. p
    PROVE  /\ T * (p - n) \in Nat
           /\ T * (p - (n - 1)) = T * (p - n) + T
           /\ T * (p - n) + T <= T * p
  <1>1. p - n \in Nat /\ n - 1 \in Nat
    OBVIOUS
  <1>2. T * (p - n) \in Nat /\ T * (n - 1) \in Nat
    BY <1>1
  <1>3. T * (p - (n - 1)) = T * (p - n) + T
    OBVIOUS
  <1>4. T * p = T * (p - n) + T * (n - 1) + T
    OBVIOUS
  <1> QED
    BY <1>2, <1>3, <1>4

(* One turn more at the head of the queue, with the products as plain numbers. *)
LEMMA OneTurnMore ==
    ASSUME NEW a \in Nat, NEW b \in Nat, NEW e \in Nat, NEW t \in Nat, NEW top \in Nat,
           a <= b + e, e <= t, b + t <= top
    PROVE  a <= top
  OBVIOUS

(* Nobody is in the queue twice, so it is no longer than there are threads. *)
LEMMA QueueLength ==
    ASSUME NEW q \in Seq(Callers),
           \A n, k \in 1 .. Len(q) : q[n] = q[k] => n = k
    PROVE  Len(q) <= N
  <1>1. Len(q) \in Nat /\ q \in [1 .. Len(q) -> Callers] /\ DOMAIN q = 1 .. Len(q)
    BY LenProperties
  <1>2. q \in Injection(1 .. Len(q), Callers)
    BY <1>1 DEF Injection, IsInjective
  <1>3. IsFiniteSet(Callers)
    BY PublisherAssumption DEF PublisherAssumption
  <1>4. Cardinality(1 .. Len(q)) <= Cardinality(Callers)
    BY <1>2, <1>3, FS_Injection
  <1>5. Cardinality(1 .. Len(q)) = Len(q)
    BY <1>1, FS_Interval
  <1> QED
    BY <1>4, <1>5 DEF N

-----------------------------------------------------------------------------
(* What each way to move a caller does to its record.                      *)

LEMMA CallerFields ==
    ASSUME TypeOK, NEW c \in Callers
    PROVE  /\ caller[c] \in Caller
           /\ caller[c].pc \in {"idle", "waiting", "connecting", "publishing", "confirming"}
           /\ caller[c].calls \in 0 .. MaxCalls
           /\ caller[c].age \in 0 .. MaxAge
           /\ caller[c].elapsed \in 0 .. Timeout
  BY DEF TypeOK, Caller

LEMMA GotoMoves ==
    ASSUME TypeOK, NEW c \in Callers,
           NEW pc \in {"idle", "waiting", "connecting", "publishing", "confirming"},
           Goto(c, pc)
    PROVE  /\ caller' \in [Callers -> Caller]
           /\ caller'[c].pc = pc
           /\ caller'[c].calls = caller[c].calls
           /\ caller'[c].age = caller[c].age
           /\ caller'[c].elapsed = caller[c].elapsed
           /\ \A d \in Callers : d # c => caller'[d] = caller[d]
  <1> DEFINE k == [caller[c] EXCEPT !.pc = pc]
  <1>1. caller[c] \in Caller
    BY DEF TypeOK
  <1>2. k \in Caller
    BY <1>1 DEF Caller
  <1>3. /\ k.pc = pc
        /\ k.calls = caller[c].calls
        /\ k.age = caller[c].age
        /\ k.elapsed = caller[c].elapsed
    BY <1>1 DEF Caller
  <1>4. caller' = [caller EXCEPT ![c] = k]
    BY DEF Goto
  <1> HIDE DEF k
  <1> QED
    BY <1>2, <1>3, <1>4 DEF TypeOK

LEMMA CallMoves ==
    ASSUME TypeOK, NEW c \in Callers, Call(c)
    PROVE  /\ caller' \in [Callers -> Caller]
           /\ caller'[c].pc = "waiting"
           /\ caller'[c].calls = caller[c].calls + 1
           /\ caller'[c].age = 0
           /\ caller'[c].elapsed = 0
           /\ \A d \in Callers : d # c => caller'[d] = caller[d]
  <1> DEFINE k1 == [caller[c] EXCEPT !.pc = "waiting"]
             k2 == [k1 EXCEPT !.calls = @ + 1]
             k3 == [k2 EXCEPT !.age = 0]
             k4 == [k3 EXCEPT !.elapsed = 0]
  <1>1. caller[c] \in Caller /\ caller[c].calls + 1 \in 0 .. MaxCalls
    BY PublisherAssumption DEF TypeOK, Caller, Call, PublisherAssumption
  <1>2. 0 \in 0 .. MaxAge /\ 0 \in 0 .. Timeout
    BY Bounds
  <1>3. k1 \in Caller /\ k1.pc = "waiting" /\ k1.calls = caller[c].calls
    BY <1>1 DEF Caller
  <1>4. k2 \in Caller /\ k2.pc = "waiting" /\ k2.calls = caller[c].calls + 1
    <2> HIDE DEF k1
    <2> QED  BY <1>1, <1>3 DEF Caller
  <1>5. /\ k3 \in Caller /\ k3.pc = "waiting" /\ k3.calls = caller[c].calls + 1
        /\ k3.age = 0
    <2> HIDE DEF k2
    <2> QED  BY <1>2, <1>4 DEF Caller
  <1>6. /\ k4 \in Caller /\ k4.pc = "waiting" /\ k4.calls = caller[c].calls + 1
        /\ k4.age = 0 /\ k4.elapsed = 0
    <2> HIDE DEF k3
    <2> QED  BY <1>2, <1>5 DEF Caller
  <1>7. caller' = [caller EXCEPT ![c] = k4]
    BY DEF Call
  <1> HIDE DEF k4
  <1> QED
    BY <1>6, <1>7 DEF TypeOK

LEMMA ReturnsMoves ==
    ASSUME TypeOK, NEW c \in Callers, Returns(c)
    PROVE  /\ caller' \in [Callers -> Caller]
           /\ caller'[c].pc = "idle"
           /\ caller'[c].calls = caller[c].calls
           /\ caller'[c].age = 0
           /\ caller'[c].elapsed = 0
           /\ \A d \in Callers : d # c => caller'[d] = caller[d]
  <1> DEFINE k1 == [caller[c] EXCEPT !.pc = "idle"]
             k2 == [k1 EXCEPT !.age = 0]
             k3 == [k2 EXCEPT !.elapsed = 0]
  <1>1. caller[c] \in Caller
    BY DEF TypeOK
  <1>2. 0 \in 0 .. MaxAge /\ 0 \in 0 .. Timeout
    BY Bounds
  <1>3. k1 \in Caller /\ k1.pc = "idle" /\ k1.calls = caller[c].calls
    BY <1>1 DEF Caller
  <1>4. k2 \in Caller /\ k2.pc = "idle" /\ k2.calls = caller[c].calls /\ k2.age = 0
    <2> HIDE DEF k1
    <2> QED  BY <1>2, <1>3 DEF Caller
  <1>5. /\ k3 \in Caller /\ k3.pc = "idle" /\ k3.calls = caller[c].calls
        /\ k3.age = 0 /\ k3.elapsed = 0
    <2> HIDE DEF k2
    <2> QED  BY <1>2, <1>4 DEF Caller
  <1>6. caller' = [caller EXCEPT ![c] = k3]
    BY DEF Returns
  <1> HIDE DEF k3
  <1> QED
    BY <1>5, <1>6 DEF TypeOK

-----------------------------------------------------------------------------
(* The queue at the mutex.                                                 *)

(* Who uses the channel is the head of the queue, alone.                   *)
LEMMA HeadInUse ==
    ASSUME TypeOK, QueueInv, NEW c \in Callers, InUse(c)
    PROVE  /\ mutex # <<>>
           /\ Head(mutex) = c
           /\ Len(mutex) \in Nat /\ Len(mutex) > 0
           /\ \A d \in Callers : InUse(d) => d = c
  <1>1. caller[c].pc # "idle"
    BY DEF InUse
  <1>2. \E n \in 1 .. Len(mutex) : mutex[n] = c
    BY <1>1 DEF QueueInv
  <1>3. Len(mutex) \in Nat
    BY LenProperties DEF TypeOK
  <1>4. Len(mutex) > 0
    BY <1>2, <1>3
  <1>5. mutex # <<>>
    BY <1>4
  <1>6. Head(mutex) = mutex[1]
    BY <1>5 DEF TypeOK
  <1> QED
    BY <1>3, <1>4, <1>5, <1>6 DEF QueueInv

(* While the queue stays and nobody becomes idle, moving the head or the   *)
(* first waiter keeps its order.                                           *)
LEMMA QueueStays ==
    ASSUME QueueInv, UNCHANGED mutex,
           \A d \in Callers : caller'[d].pc = "idle" <=> caller[d].pc = "idle",
           \A d \in Callers : InUse(d)' => InUse(d) \/ mutex[1] = d,
           TypeOK
    PROVE  QueueInv'
  <1>1. \A n \in 1 .. Len(mutex) : mutex[n] \in Callers
    BY LenProperties DEF TypeOK
  <1> QED
    BY <1>1 DEF QueueInv

LEMMA ReturnsStep ==
    ASSUME TypeOK, QueueInv, AgeInv, NEW c \in Callers, InUse(c), Returns(c)
    PROVE  mutex' \in Seq(Callers) /\ QueueInv' /\ AgeInv'
  <1>1. /\ mutex # <<>> /\ Head(mutex) = c
        /\ Len(mutex) \in Nat /\ Len(mutex) > 0
        /\ \A d \in Callers : InUse(d) => d = c
    BY HeadInUse
  <1>2. /\ mutex' \in Seq(Callers)
        /\ Len(mutex') = Len(mutex) - 1
        /\ \A n \in 1 .. Len(mutex') : mutex'[n] = mutex[n + 1]
    BY <1>1, HeadTailProperties DEF Returns, TypeOK
  <1>3. /\ \A n \in 1 .. Len(mutex) : mutex[n] \in Callers
        /\ mutex[1] = c
    BY <1>1, LenProperties DEF TypeOK
  <1>4. /\ caller'[c].pc = "idle" /\ caller'[c].age = 0 /\ caller'[c].elapsed = 0
        /\ \A d \in Callers : d # c => caller'[d] = caller[d]
    BY ReturnsMoves
  <1>5. \A n \in 1 .. Len(mutex') : n + 1 \in 1 .. Len(mutex) /\ n + 1 # 1
    BY <1>1, <1>2
  <1>6. \A n \in 1 .. Len(mutex') : mutex'[n] # c /\ mutex'[n] \in Callers
    BY <1>2, <1>3, <1>5, <1>1 DEF QueueInv
  <1>7. \A n \in 1 .. Len(mutex') : caller'[mutex'[n]].pc # "idle"
    BY <1>2, <1>4, <1>5, <1>6 DEF QueueInv
  <1>8. \A n, k \in 1 .. Len(mutex') : mutex'[n] = mutex'[k] => n = k
    <2> TAKE n, k \in 1 .. Len(mutex')
    <2> HAVE mutex'[n] = mutex'[k]
    <2>1. mutex[n + 1] = mutex[k + 1]
      BY <1>2
    <2>2. n + 1 = k + 1
      BY <2>1, <1>5 DEF QueueInv
    <2> QED
      BY <2>2, <1>1, <1>2
  <1>9. \A d \in Callers : ~ InUse(d)'
    BY <1>1, <1>4 DEF InUse
  <1>10. \A d \in Callers :
            caller'[d].pc # "idle" => \E n \in 1 .. Len(mutex') : mutex'[n] = d
    <2> TAKE d \in Callers
    <2> HAVE caller'[d].pc # "idle"
    <2>1. d # c /\ caller[d].pc # "idle"
      BY <1>4
    <2>2. PICK n \in 1 .. Len(mutex) : mutex[n] = d
      BY <2>1 DEF QueueInv
    <2>3. n # 1
      BY <2>1, <2>2, <1>3
    <2>4. n - 1 \in 1 .. Len(mutex') /\ (n - 1) + 1 = n
      BY <2>2, <2>3, <1>1, <1>2
    <2> QED
      BY <2>2, <2>4, <1>2
  <1>11. QueueInv'
    BY <1>7, <1>8, <1>9, <1>10 DEF QueueInv
  <1>12. /\ \A d \in Callers : ~ InUse(d)' => caller'[d].elapsed = 0
         /\ \A d \in Callers : caller'[d].pc = "idle" => caller'[d].age = 0
    BY <1>1, <1>4 DEF AgeInv, InUse
  <1>13. \A n \in 1 .. Len(mutex') :
            caller'[mutex'[n]].age <= Timeout * (N - n) + caller'[mutex'[1]].elapsed
    <2> TAKE n \in 1 .. Len(mutex')
    <2>1. mutex'[n] = mutex[n + 1] /\ caller'[mutex'[n]] = caller[mutex[n + 1]]
      BY <1>2, <1>4, <1>6
    <2>2. caller[mutex[n + 1]].age <= Timeout * (N - (n + 1)) + caller[c].elapsed
      BY <1>3, <1>5 DEF AgeInv
    <2>3. caller[c].elapsed \in 0 .. Timeout /\ caller[mutex[n + 1]].age \in 0 .. MaxAge
      BY CallerFields, <1>3, <1>5
    <2>4. Len(mutex) <= N
      BY QueueLength DEF QueueInv, TypeOK
    <2>5. n + 1 \in 1 .. N
      BY <2>4, <1>1, <1>5, Bounds
    <2>6. /\ Timeout * (N - (n + 1)) \in Nat
          /\ Timeout * (N - ((n + 1) - 1)) = Timeout * (N - (n + 1)) + Timeout
      BY <2>5, Bounds, Places
    <2>7. (n + 1) - 1 = n
      BY <1>1, <1>2
    <2>8. caller[mutex[n + 1]].age <= Timeout * (N - n)
      <3> DEFINE b == Timeout * (N - (n + 1))
                 top == Timeout * (N - n)
                 e == caller[c].elapsed
                 a == caller[mutex[n + 1]].age
      <3>1. b + Timeout = top
        BY <2>6, <2>7
      <3>2. /\ b \in Nat /\ e \in Nat /\ a \in Nat /\ Timeout \in Nat
            /\ e <= Timeout /\ a <= b + e
        BY <2>2, <2>3, <2>6, Bounds
      <3>3. a <= top
        <4> HIDE DEF a, b, top, e
        <4>1. top \in Nat /\ b + Timeout <= top
          BY <3>1, <3>2
        <4> QED
          BY <3>2, <4>1, OneTurnMore
      <3> QED
        BY <3>3
    <2>9. 1 \in 1 .. Len(mutex')
      BY <1>1, <1>2
    <2>10. caller'[mutex'[1]].elapsed = 0
      BY <2>9, <1>6, <1>9, <1>12
    <2>11. Timeout * (N - n) \in Nat
      BY <2>5, <2>6, <2>7, Bounds
    <2> QED
      BY <2>1, <2>3, <2>8, <2>10, <2>11, Bounds
  <1> QED
    BY <1>2, <1>11, <1>12, <1>13 DEF AgeInv

-----------------------------------------------------------------------------
(* The calls and the channel.                                              *)

LEMMA CallsStay ==
    ASSUME CallInv, UNCHANGED succeeded,
           \A d \in Callers : /\ caller'[d].calls = caller[d].calls
                              /\ caller'[d].pc # "idle" => caller[d].pc # "idle",
           succeeded \subseteq Calls
    PROVE  CallInv'
  BY DEF CallInv, CallOf, Calls

LEMMA ChannelStays ==
    ASSUME ChannelInv, UNCHANGED <<channel, fate>>,
           \A d \in Callers : caller[d].pc = "confirming" =>
               caller'[d].pc = "confirming" /\ caller'[d].calls = caller[d].calls
    PROVE  ChannelInv'
  <1>1. CASE Quiet
    BY <1>1 DEF ChannelInv, Quiet
  <1>2. CASE \E c \in Callers :
                caller[c].pc = "confirming" /\ (Unanswered(c) \/ Answered(c))
    <2>1. PICK c \in Callers :
              caller[c].pc = "confirming" /\ (Unanswered(c) \/ Answered(c))
      BY <1>2
    <2>2. caller'[c].pc = "confirming" /\ CallOf(c)' = CallOf(c)
      BY <2>1 DEF CallOf
    <2>3. CASE Unanswered(c)
      BY <2>2, <2>3 DEF ChannelInv, Unanswered
    <2>4. CASE Answered(c)
      BY <2>2, <2>4 DEF ChannelInv, Answered
    <2> QED
      BY <2>1, <2>3, <2>4
  <1> QED
    BY <1>1, <1>2 DEF ChannelInv

(* What became of a message is settled once: giving a channel up decides   *)
(* about unanswered messages alone.                                        *)
LEMMA AbandonedFates ==
    ASSUME TypeOK, Abandoned(fate')
    PROVE  /\ fate' \in
                 [Calls -> {"none", "sent", "routed", "unroutable", "refused", "lost"}]
           /\ \A k \in Calls : fate[k] # "sent" => fate'[k] = fate[k]
  BY DEF TypeOK, Abandoned

LEMMA CallIsCall ==
    ASSUME TypeOK, CallInv, NEW c \in Callers, caller[c].pc # "idle"
    PROVE  CallOf(c) \in Calls /\ CallOf(c) \notin succeeded
  <1>1. caller[c].calls \in 1 .. MaxCalls
    BY CallerFields, PublisherAssumption DEF CallInv, PublisherAssumption
  <1> QED
    BY <1>1 DEF CallInv, CallOf, Calls

LEMMA EmptyChannel ==
    /\ NoChannel \in Channel
    /\ OpenChannel \in Channel
    /\ NoChannel.sent = <<>> /\ NoChannel.answers = <<>>
    /\ OpenChannel.sent = <<>> /\ OpenChannel.answers = <<>>
  <1>1. /\ <<>> \in Seq(Calls)
        /\ <<>> \in Seq({"ack", "returned", "nack"})
    OBVIOUS
  <1>2. /\ NoChannel \in Channel
        /\ NoChannel.sent = <<>> /\ NoChannel.answers = <<>>
    BY <1>1 DEF NoChannel, Channel
  <1>3. /\ OpenChannel \in Channel
        /\ OpenChannel.sent = <<>> /\ OpenChannel.answers = <<>>
    BY <1>2 DEF OpenChannel, Channel
  <1> QED
    BY <1>2, <1>3

-----------------------------------------------------------------------------
(* Every step of a caller.                                                 *)

LEMMA InitInv == Init => IInv
  <1> SUFFICES ASSUME Init PROVE IInv
    OBVIOUS
  <1>1. 0 \in 0 .. MaxAge /\ 0 \in 0 .. Timeout /\ 0 \in 0 .. MaxCalls
    BY Bounds, PublisherAssumption DEF PublisherAssumption
  <1>2. TypeOK
    BY <1>1, EmptyChannel DEF Init, TypeOK, Caller
  <1>3. \A c \in Callers :
            caller[c].pc = "idle" /\ caller[c].age = 0 /\ caller[c].elapsed = 0
    BY DEF Init
  <1>4. mutex = <<>> /\ succeeded = {} /\ channel = NoChannel
    BY DEF Init
  <1>5. QueueInv /\ AgeInv
    BY <1>3, <1>4 DEF QueueInv, AgeInv, InUse
  <1>6. CallInv /\ OkMeansRouted
    BY <1>3, <1>4 DEF CallInv, OkMeansRouted
  <1>7. ChannelInv
    BY <1>4, EmptyChannel DEF ChannelInv, Quiet
  <1> QED
    BY <1>2, <1>5, <1>6, <1>7 DEF IInv

LEMMA CallStep ==
    ASSUME IInv, NEW c \in Callers, Call(c)
    PROVE  IInv'
  <1> USE DEF IInv
  <1>1. /\ caller' \in [Callers -> Caller]
        /\ caller'[c].pc = "waiting"
        /\ caller'[c].calls = caller[c].calls + 1
        /\ caller'[c].age = 0
        /\ caller'[c].elapsed = 0
        /\ \A d \in Callers : d # c => caller'[d] = caller[d]
    BY CallMoves
  <1>2. caller[c].pc = "idle" /\ UNCHANGED <<channel, fate, succeeded>>
    BY DEF Call
  <1>3. /\ mutex' \in Seq(Callers)
        /\ Len(mutex) \in Nat
        /\ Len(mutex') = Len(mutex) + 1
        /\ \A n \in 1 .. Len(mutex) : mutex'[n] = mutex[n] /\ mutex[n] \in Callers
        /\ mutex'[Len(mutex')] = c
    BY AppendProperties, LenProperties DEF Call, TypeOK
  <1>4. TypeOK'
    BY <1>1, <1>2, <1>3 DEF TypeOK
  <1>5. \A n \in 1 .. Len(mutex) : mutex[n] # c
    BY <1>2 DEF QueueInv
  <1>6. \A n \in 1 .. Len(mutex') : n \in 1 .. Len(mutex) \/ n = Len(mutex')
    BY <1>3
  <1>7. \A n \in 1 .. Len(mutex') : caller'[mutex'[n]].pc # "idle"
    BY <1>1, <1>3, <1>5, <1>6 DEF QueueInv
  <1>8. \A n, k \in 1 .. Len(mutex') : mutex'[n] = mutex'[k] => n = k
    BY <1>3, <1>5, <1>6 DEF QueueInv
  <1>9. \A d \in Callers :
            caller'[d].pc # "idle" => \E n \in 1 .. Len(mutex') : mutex'[n] = d
    <2> TAKE d \in Callers
    <2>1. CASE d = c
      <3>1. Len(mutex') \in 1 .. Len(mutex')
        BY <1>3
      <3> QED
        BY <2>1, <3>1, <1>3
    <2>2. CASE d # c
      <3> HAVE caller'[d].pc # "idle"
      <3>1. PICK n \in 1 .. Len(mutex) : mutex[n] = d
        BY <1>1, <2>2 DEF QueueInv
      <3>2. n \in 1 .. Len(mutex') /\ mutex'[n] = d
        BY <3>1, <1>3
      <3> QED
        BY <3>2
    <2> QED
      BY <2>1, <2>2
  <1>10. \A d \in Callers : InUse(d)' => InUse(d) /\ d # c
    BY <1>1 DEF InUse
  <1>11. \A d \in Callers : InUse(d)' => mutex'[1] = d
    <2> TAKE d \in Callers
    <2> HAVE InUse(d)'
    <2>1. Len(mutex) > 0 /\ mutex[1] = d
      BY <1>10, HeadInUse DEF QueueInv
    <2> QED
      BY <2>1, <1>3
  <1>12. QueueInv'
    BY <1>7, <1>8, <1>9, <1>11 DEF QueueInv
  <1>13. CallInv'
    <2>1. \A d \in Callers : d # c => CallOf(d)' = CallOf(d)
      BY <1>1 DEF CallOf
    <2>2. caller[c].calls \in Nat
      BY CallerFields, PublisherAssumption DEF PublisherAssumption
    <2>3. caller'[c].calls > 0
      BY <1>1, <2>2
    <2>4. CallOf(c)' \notin succeeded'
      <3>1. CallOf(c)' = <<c, caller[c].calls + 1>>
        BY <1>1 DEF CallOf
      <3>2. CallOf(c)' \in succeeded => caller[c].calls + 1 <= caller[c].calls
        BY <3>1 DEF CallInv
      <3> QED
        BY <3>2, <2>2, <1>2
    <2>5. \A d \in Callers : caller'[d].pc # "idle" =>
              caller'[d].calls > 0 /\ CallOf(d)' \notin succeeded'
      BY <2>1, <2>3, <2>4, <1>1, <1>2 DEF CallInv
    <2>6. ASSUME NEW k \in succeeded
          PROVE  k[2] <= caller'[k[1]].calls
      <3>1. k[1] \in Callers /\ k[2] \in 1 .. MaxCalls /\ k[2] <= caller[k[1]].calls
        BY <2>6 DEF TypeOK, Calls, CallInv
      <3>2. CASE k[1] = c
        BY <3>1, <3>2, <2>2, <1>1, PublisherAssumption DEF PublisherAssumption
      <3>3. CASE k[1] # c
        BY <3>1, <3>3, <1>1
      <3> QED
        BY <3>2, <3>3
    <2> QED
      BY <2>5, <2>6, <1>2 DEF CallInv
  <1>14. ChannelInv'
    <2>1. \A d \in Callers : caller[d].pc = "confirming" =>
              caller'[d].pc = "confirming" /\ caller'[d].calls = caller[d].calls
      BY <1>1, <1>2
    <2> QED
      BY <2>1, <1>2, ChannelStays
  <1>15. /\ \A d \in Callers : ~ InUse(d)' => caller'[d].elapsed = 0
         /\ \A d \in Callers : caller'[d].pc = "idle" => caller'[d].age = 0
    BY <1>1 DEF AgeInv, InUse
  <1>16. \A n \in 1 .. Len(mutex') :
            caller'[mutex'[n]].age <= Timeout * (N - n) + caller'[mutex'[1]].elapsed
    <2> TAKE n \in 1 .. Len(mutex')
    <2>1. Len(mutex') <= N
      BY <1>3, <1>8, QueueLength
    <2>2. n \in 1 .. N
      BY <2>1, <1>3, Bounds
    <2>3. Timeout * (N - n) \in Nat
      BY <2>2, Bounds, Places
    <2>4. 1 \in 1 .. Len(mutex') /\ mutex'[1] \in Callers
      BY <1>3, <1>6
    <2>5. caller'[mutex'[1]].elapsed \in 0 .. Timeout
      BY <1>1, <2>4 DEF Caller
    <2>6. CASE n = Len(mutex')
      BY <2>3, <2>5, <2>6, <1>1, <1>3, Bounds
    <2>7. CASE n \in 1 .. Len(mutex)
      <3>1. mutex'[n] = mutex[n] /\ caller'[mutex[n]] = caller[mutex[n]]
        BY <1>1, <1>3, <1>5, <2>7
      <3>2. 1 \in 1 .. Len(mutex)
        BY <1>3, <2>7
      <3>3. mutex'[1] = mutex[1] /\ caller'[mutex[1]] = caller[mutex[1]]
        BY <1>1, <1>3, <1>5, <3>2
      <3> QED
        BY <3>1, <3>3, <2>7 DEF AgeInv
    <2> QED
      BY <2>6, <2>7, <1>6
  <1>17. OkMeansRouted'
    BY <1>2 DEF OkMeansRouted
  <1> QED
    BY <1>4, <1>12, <1>13, <1>14, <1>15, <1>16, <1>17 DEF AgeInv

(* The first in the queue goes on, and nothing else moves.                 *)
LEMMA HeadMoves ==
    ASSUME IInv, NEW c \in Callers,
           caller[c].pc # "idle", mutex # <<>>, Head(mutex) = c,
           NEW pc \in {"connecting", "publishing", "confirming"},
           Goto(c, pc), UNCHANGED <<mutex, succeeded>>
    PROVE  /\ caller' \in [Callers -> Caller]
           /\ QueueInv'
           /\ CallInv'
           /\ AgeInv'
           /\ caller'[c].pc = pc
           /\ CallOf(c)' = CallOf(c)
           /\ \A d \in Callers : d # c => caller'[d] = caller[d]
  <1> USE DEF IInv
  <1>1. /\ caller' \in [Callers -> Caller]
        /\ caller'[c].pc = pc
        /\ caller'[c].calls = caller[c].calls
        /\ caller'[c].age = caller[c].age
        /\ caller'[c].elapsed = caller[c].elapsed
        /\ \A d \in Callers : d # c => caller'[d] = caller[d]
    BY GotoMoves
  <1>2. mutex[1] = c
    BY DEF TypeOK
  <1>3. QueueInv'
    <2>1. \A d \in Callers : caller'[d].pc = "idle" <=> caller[d].pc = "idle"
      BY <1>1
    <2>2. \A d \in Callers : InUse(d)' => InUse(d) \/ mutex[1] = d
      BY <1>1, <1>2 DEF InUse
    <2> QED
      BY <2>1, <2>2, QueueStays
  <1>4. CallInv'
    <2>1. \A d \in Callers : /\ caller'[d].calls = caller[d].calls
                             /\ caller'[d].pc # "idle" => caller[d].pc # "idle"
      BY <1>1
    <2>2. succeeded \subseteq Calls
      BY DEF TypeOK
    <2> QED
      BY <2>1, <2>2, CallsStay
  <1>5. AgeInv'
    <2>1. \A d \in Callers : /\ caller'[d].age = caller[d].age
                             /\ caller'[d].elapsed = caller[d].elapsed
      BY <1>1
    <2>2. \A n \in 1 .. Len(mutex) : mutex[n] \in Callers
      BY LenProperties DEF TypeOK
    <2>3. \A d \in Callers : ~ InUse(d)' => ~ InUse(d)
      BY <1>1 DEF InUse
    <2>4. \A d \in Callers : caller'[d].pc = "idle" => caller[d].pc = "idle"
      BY <1>1
    <2>5. \A n \in 1 .. Len(mutex) :
              caller'[mutex[n]].age <= Timeout * (N - n) + caller'[mutex[1]].elapsed
      BY <2>1, <2>2, <1>2 DEF AgeInv
    <2> QED
      BY <2>1, <2>3, <2>4, <2>5 DEF AgeInv
  <1> QED
    BY <1>1, <1>3, <1>4, <1>5 DEF CallOf

LEMMA LockStep ==
    ASSUME IInv, NEW c \in Callers, Lock(c)
    PROVE  IInv'
  <1> USE DEF IInv
  <1>1. /\ caller[c].pc = "waiting" /\ Head(mutex) = c
        /\ UNCHANGED <<mutex, channel, fate, succeeded>>
    BY DEF Lock
  <1>2. mutex # <<>>
    <2>1. \E n \in 1 .. Len(mutex) : mutex[n] = c
      BY <1>1 DEF QueueInv
    <2> QED
      BY <2>1
  <1>3. PICK pc \in {"connecting", "publishing"} : Goto(c, pc)
    BY DEF Lock
  <1>4. /\ caller' \in [Callers -> Caller]
        /\ QueueInv'
        /\ CallInv'
        /\ AgeInv'
        /\ \A d \in Callers : d # c => caller'[d] = caller[d]
    BY <1>1, <1>2, <1>3, HeadMoves
  <1>5. TypeOK'
    BY <1>1, <1>4 DEF TypeOK
  <1>6. ChannelInv'
    <2>1. \A d \in Callers : caller[d].pc = "confirming" =>
              caller'[d].pc = "confirming" /\ caller'[d].calls = caller[d].calls
      BY <1>1, <1>4
    <2> QED
      BY <2>1, <1>1, ChannelStays
  <1>7. OkMeansRouted'
    BY <1>1 DEF OkMeansRouted
  <1> QED
    BY <1>4, <1>5, <1>6, <1>7

LEMMA FailsStep ==
    ASSUME IInv, NEW c \in Callers, InUse(c), Fails(c)
    PROVE  IInv'
  <1> USE DEF IInv
  <1>1. Returns(c) /\ channel' = NoChannel /\ Abandoned(fate') /\ UNCHANGED succeeded
    BY DEF Fails
  <1>2. mutex' \in Seq(Callers) /\ QueueInv' /\ AgeInv'
    BY <1>1, ReturnsStep
  <1>3. /\ caller' \in [Callers -> Caller]
        /\ caller'[c].pc = "idle"
        /\ caller'[c].calls = caller[c].calls
        /\ \A d \in Callers : d # c => caller'[d] = caller[d]
    BY <1>1, ReturnsMoves
  <1>4. /\ fate' \in
              [Calls -> {"none", "sent", "routed", "unroutable", "refused", "lost"}]
        /\ \A k \in Calls : fate[k] # "sent" => fate'[k] = fate[k]
    BY <1>1, AbandonedFates
  <1>5. TypeOK'
    BY <1>1, <1>2, <1>3, <1>4, EmptyChannel DEF TypeOK
  <1>6. CallInv'
    <2>1. \A d \in Callers : /\ caller'[d].calls = caller[d].calls
                             /\ caller'[d].pc # "idle" => caller[d].pc # "idle"
      BY <1>3
    <2>2. succeeded \subseteq Calls
      BY DEF TypeOK
    <2> QED
      BY <2>1, <2>2, <1>1, CallsStay
  <1>7. ChannelInv'
    BY <1>1, EmptyChannel DEF ChannelInv, Quiet
  <1>8. OkMeansRouted'
    BY <1>1, <1>4 DEF OkMeansRouted, TypeOK
  <1> QED
    BY <1>2, <1>5, <1>6, <1>7, <1>8

LEMMA ConnectStep ==
    ASSUME IInv, NEW c \in Callers, Connect(c)
    PROVE  IInv'
  <1> USE DEF IInv
  <1>1. caller[c].pc = "connecting" /\ InUse(c)
    BY DEF Connect, InUse
  <1>2. CASE Fails(c)
    BY <1>1, <1>2, FailsStep
  <1>3. CASE /\ channel' = OpenChannel
             /\ Goto(c, "publishing")
             /\ UNCHANGED <<mutex, fate, succeeded>>
    <2>1. mutex # <<>> /\ Head(mutex) = c
      BY <1>1, HeadInUse
    <2>2. caller' \in [Callers -> Caller] /\ QueueInv' /\ CallInv' /\ AgeInv'
      BY <1>1, <1>3, <2>1, HeadMoves
    <2>3. TypeOK'
      BY <1>3, <2>2, EmptyChannel DEF TypeOK
    <2>4. ChannelInv'
      BY <1>3, EmptyChannel DEF ChannelInv, Quiet
    <2>5. OkMeansRouted'
      BY <1>3 DEF OkMeansRouted
    <2> QED
      BY <2>2, <2>3, <2>4, <2>5
  <1> QED
    BY <1>2, <1>3 DEF Connect

LEMMA SendStep ==
    ASSUME IInv, NEW c \in Callers, Send(c)
    PROVE  IInv'
  <1> USE DEF IInv
  <1>1. caller[c].pc = "publishing" /\ caller[c].pc # "idle" /\ InUse(c)
    BY DEF Send, InUse
  <1>2. CASE Fails(c)
    BY <1>1, <1>2, FailsStep
  <1>3. CASE /\ channel.live
             /\ channel' = [channel EXCEPT !.sent = Append(@, CallOf(c))]
             /\ fate' = [fate EXCEPT ![CallOf(c)] = "sent"]
             /\ Goto(c, "confirming")
             /\ UNCHANGED <<mutex, succeeded>>
    <2>1. mutex # <<>> /\ Head(mutex) = c /\ \A d \in Callers : InUse(d) => d = c
      BY <1>1, HeadInUse
    <2>2. /\ caller' \in [Callers -> Caller]
          /\ QueueInv'
          /\ CallInv'
          /\ AgeInv'
          /\ caller'[c].pc = "confirming"
          /\ CallOf(c)' = CallOf(c)
      BY <1>1, <1>3, <2>1, HeadMoves
    <2>3. CallOf(c) \in Calls /\ CallOf(c) \notin succeeded
      BY <1>1, CallIsCall
    <2>4. Quiet
      <3>1. \A d \in Callers : caller[d].pc # "confirming"
        BY <1>1, <2>1 DEF InUse
      <3> QED
        BY <3>1 DEF ChannelInv
    <2>5. channel \in Channel
      BY DEF TypeOK
    <2>6. /\ Append(<<>>, CallOf(c)) = <<CallOf(c)>>
          /\ <<CallOf(c)>> \in Seq(Calls)
      BY <2>3
    <2>7. channel' = [channel EXCEPT !.sent = <<CallOf(c)>>]
      BY <1>3, <2>4, <2>6 DEF Quiet
    <2>8. /\ channel' \in Channel
          /\ channel'.sent = <<CallOf(c)>>
          /\ channel'.answers = <<>>
      BY <2>4, <2>5, <2>6, <2>7 DEF Channel, Quiet
    <2>9. /\ fate' \in
                [Calls -> {"none", "sent", "routed", "unroutable", "refused", "lost"}]
          /\ fate'[CallOf(c)] = "sent"
          /\ \A k \in Calls : k # CallOf(c) => fate'[k] = fate[k]
      BY <1>3, <2>3 DEF TypeOK
    <2>10. TypeOK'
      BY <1>3, <2>2, <2>8, <2>9 DEF TypeOK
    <2>11. Unanswered(c)'
      BY <2>2, <2>8, <2>9 DEF Unanswered
    <2>12. ChannelInv'
      BY <2>2, <2>11 DEF ChannelInv
    <2>13. OkMeansRouted'
      BY <1>3, <2>3, <2>9 DEF OkMeansRouted, TypeOK
    <2> QED
      BY <2>2, <2>10, <2>12, <2>13
  <1> QED
    BY <1>2, <1>3 DEF Send

LEMMA ConfirmStep ==
    ASSUME IInv, NEW c \in Callers, Confirm(c)
    PROVE  IInv'
  <1> USE DEF IInv
  <1>1. caller[c].pc = "confirming" /\ caller[c].pc # "idle" /\ InUse(c)
    BY DEF Confirm, InUse
  <1>2. CASE Fails(c)
    BY <1>1, <1>2, FailsStep
  <1>3. CASE /\ channel.answers # <<>>
             /\ Confirms(Head(channel.answers))
             /\ channel' = [channel EXCEPT !.answers = Tail(@)]
             /\ Succeeds(c)
             /\ UNCHANGED fate
    <2>1. Returns(c) /\ succeeded' = succeeded \cup {CallOf(c)}
      BY <1>3 DEF Succeeds
    <2>2. mutex' \in Seq(Callers) /\ QueueInv' /\ AgeInv'
      BY <1>1, <2>1, ReturnsStep
    <2>3. /\ caller' \in [Callers -> Caller]
          /\ caller'[c].pc = "idle"
          /\ caller'[c].calls = caller[c].calls
          /\ \A d \in Callers : d # c => caller'[d] = caller[d]
      BY <2>1, ReturnsMoves
    <2>4. CallOf(c) \in Calls
      BY <1>1, CallIsCall
    <2>5. Answered(c)
      <3>1. \A d \in Callers : caller[d].pc = "confirming" => d = c
        BY <1>1, HeadInUse DEF InUse
      <3>2. ~ Quiet /\ ~ Unanswered(c)
        BY <1>3 DEF Quiet, Unanswered
      <3> QED
        BY <3>1, <3>2 DEF ChannelInv
    <2>6. PICK a \in {"ack", "returned", "nack"} :
              /\ channel.answers = <<a>>
              /\ a = "ack" => fate[CallOf(c)] = "routed"
      BY <2>5 DEF Answered
    <2>7. Head(<<a>>) = a /\ Tail(<<a>>) = <<>>
      OBVIOUS
    <2>8. fate[CallOf(c)] = "routed"
      BY <1>3, <2>6, <2>7 DEF Confirms
    <2>9. channel' = [channel EXCEPT !.answers = <<>>]
      BY <1>3, <2>6, <2>7
    <2>10. /\ channel' \in Channel
           /\ channel'.sent = <<>>
           /\ channel'.answers = <<>>
      <3>1. channel \in Channel /\ channel.sent = <<>>
        BY <2>5 DEF TypeOK, Answered
      <3>2. <<>> \in Seq({"ack", "returned", "nack"})
        OBVIOUS
      <3> QED
        BY <3>1, <3>2, <2>9 DEF Channel
    <2>11. TypeOK'
      BY <1>3, <2>1, <2>2, <2>3, <2>4, <2>10 DEF TypeOK
    <2>12. ChannelInv'
      BY <2>10 DEF ChannelInv, Quiet
    <2>13. OkMeansRouted'
      BY <1>3, <2>1, <2>8 DEF OkMeansRouted
    <2>14. CallInv'
      <3>1. \A d \in Callers : caller'[d].pc # "idle" =>
                d # c /\ caller[d].pc # "idle" /\ caller'[d] = caller[d]
        BY <2>3
      <3>2. \A d \in Callers : d # c => CallOf(d)' = CallOf(d) /\ CallOf(d) # CallOf(c)
        BY <2>3 DEF CallOf
      <3>3. \A d \in Callers : caller'[d].pc # "idle" =>
                caller'[d].calls > 0 /\ CallOf(d)' \notin succeeded'
        BY <3>1, <3>2, <2>1 DEF CallInv
      <3>4. \A d \in Callers : caller'[d].calls = caller[d].calls
        BY <2>3
      <3>5. caller[c].calls \in Nat
        BY CallerFields, PublisherAssumption DEF PublisherAssumption
      <3>6. \A k \in succeeded' : k[2] <= caller'[k[1]].calls
        <4> TAKE k \in succeeded'
        <4>1. CASE k \in succeeded
          <5>1. k[1] \in Callers /\ k[2] <= caller[k[1]].calls
            BY <4>1 DEF TypeOK, Calls, CallInv
          <5> QED
            BY <5>1, <3>4
        <4>2. CASE k = <<c, caller[c].calls>>
          BY <4>2, <3>4, <3>5
        <4> QED
          BY <4>1, <4>2, <2>1 DEF CallOf
      <3> QED
        BY <3>3, <3>6 DEF CallInv
    <2> QED
      BY <2>2, <2>11, <2>12, <2>13, <2>14
  <1> QED
    BY <1>2, <1>3 DEF Confirm

LEMMA PublishStep ==
    ASSUME IInv, NEW c \in Callers, Publish(c)
    PROVE  IInv'
  <1>1. CASE GiveUp(c)
    BY <1>1, FailsStep DEF GiveUp, TimedOut, InUse
  <1> QED
    BY <1>1, LockStep, ConnectStep, SendStep, ConfirmStep DEF Publish

-----------------------------------------------------------------------------
(* The broker, the network and time.                                       *)

(* Where the callers stay, their part of the invariant does.               *)
LEMMA CallersStay ==
    ASSUME IInv, UNCHANGED <<mutex, caller, succeeded>>
    PROVE  QueueInv' /\ CallInv' /\ AgeInv'
  BY DEF IInv, QueueInv, CallInv, AgeInv, InUse, CallOf

LEMMA BrokerStep ==
    ASSUME IInv, Broker
    PROVE  IInv'
  <1> USE DEF IInv
  <1>1. channel.sent # <<>> /\ channel \in Channel
    BY DEF Broker, TypeOK
  <1>2. PICK kind \in {"ack", "returned", "nack"},
             f \in {"routed", "unroutable", "refused"} :
            Handled(kind, f) /\ (kind = "ack" => f = "routed")
    BY DEF Broker
  <1>3. PICK c \in Callers : caller[c].pc = "confirming" /\ Unanswered(c)
    BY <1>1 DEF ChannelInv, Quiet, Answered
  <1>4. UNCHANGED <<mutex, caller, succeeded>>
    BY <1>2 DEF Handled
  <1>5. CallOf(c) \in Calls /\ CallOf(c) \notin succeeded
    BY <1>3, CallIsCall
  <1>6. /\ Head(<<CallOf(c)>>) = CallOf(c)
        /\ Tail(<<CallOf(c)>>) = <<>>
        /\ Append(<<>>, kind) = <<kind>>
    OBVIOUS
  <1>7. /\ channel' = [channel EXCEPT !.sent = <<>>, !.answers = <<kind>>]
        /\ fate' = [fate EXCEPT ![CallOf(c)] = f]
    BY <1>2, <1>3, <1>6 DEF Handled, Unanswered
  <1>8. <<>> \in Seq(Calls) /\ <<kind>> \in Seq({"ack", "returned", "nack"})
    OBVIOUS
  <1>9. channel' \in Channel /\ channel'.sent = <<>> /\ channel'.answers = <<kind>>
    BY <1>1, <1>7, <1>8 DEF Channel
  <1>10. /\ fate' \in
              [Calls -> {"none", "sent", "routed", "unroutable", "refused", "lost"}]
         /\ fate'[CallOf(c)] = f
         /\ \A k \in Calls : k # CallOf(c) => fate'[k] = fate[k]
    BY <1>5, <1>7 DEF TypeOK
  <1>11. TypeOK'
    BY <1>4, <1>9, <1>10 DEF TypeOK
  <1>12. QueueInv' /\ CallInv' /\ AgeInv'
    BY <1>4, CallersStay
  <1>13. ChannelInv'
    <2>1. CallOf(c)' = CallOf(c) /\ caller'[c].pc = "confirming"
      BY <1>3, <1>4 DEF CallOf
    <2>2. Answered(c)'
      BY <2>1, <1>2, <1>9, <1>10 DEF Answered
    <2> QED
      BY <2>1, <2>2 DEF ChannelInv
  <1>14. OkMeansRouted'
    BY <1>4, <1>5, <1>10 DEF OkMeansRouted, TypeOK
  <1> QED
    BY <1>11, <1>12, <1>13, <1>14

LEMMA BreakStep ==
    ASSUME IInv, Break
    PROVE  IInv'
  <1> USE DEF IInv
  <1>1. /\ channel' = [channel EXCEPT !.live = FALSE, !.sent = <<>>]
        /\ Abandoned(fate')
        /\ UNCHANGED <<mutex, caller, succeeded>>
    BY DEF Break
  <1>2. channel \in Channel /\ <<>> \in Seq(Calls)
    BY DEF TypeOK
  <1>3. /\ channel' \in Channel
        /\ channel'.sent = <<>>
        /\ channel'.answers = channel.answers
    BY <1>1, <1>2 DEF Channel
  <1>4. /\ fate' \in
              [Calls -> {"none", "sent", "routed", "unroutable", "refused", "lost"}]
        /\ \A k \in Calls : fate[k] # "sent" => fate'[k] = fate[k]
    BY <1>1, AbandonedFates
  <1>5. TypeOK'
    BY <1>1, <1>3, <1>4 DEF TypeOK
  <1>6. QueueInv' /\ CallInv' /\ AgeInv'
    BY <1>1, CallersStay
  <1>7. ChannelInv'
    <2>1. CASE channel.answers = <<>>
      BY <2>1, <1>3 DEF ChannelInv, Quiet
    <2>2. CASE channel.answers # <<>>
      <3>1. PICK c \in Callers : caller[c].pc = "confirming" /\ Answered(c)
        BY <2>2 DEF ChannelInv, Quiet, Unanswered
      <3>2. CallOf(c) \in Calls
        BY <3>1, CallIsCall
      <3>3. CallOf(c)' = CallOf(c) /\ caller'[c].pc = "confirming"
        BY <3>1, <1>1 DEF CallOf
      <3>4. Answered(c)'
        BY <3>1, <3>2, <3>3, <1>3, <1>4 DEF Answered
      <3> QED
        BY <3>3, <3>4 DEF ChannelInv
    <2> QED
      BY <2>1, <2>2
  <1>8. OkMeansRouted'
    BY <1>1, <1>4 DEF OkMeansRouted, TypeOK
  <1> QED
    BY <1>5, <1>6, <1>7, <1>8

(* A call one tick older is still within what the head's wait allows it.   *)
LEMMA OneTickOlder ==
    ASSUME NEW older \in Nat, NEW age \in Nat, NEW places \in Nat, NEW elapsed \in Nat,
           older <= age + 1, age <= places + elapsed
    PROVE  older <= places + (elapsed + 1)
  OBVIOUS

LEMMA OlderMoves ==
    ASSUME TypeOK, NEW c \in Callers, ~ TimedOut(c), AgeInv
    PROVE  /\ Older(c) \in Caller
           /\ Older(c).pc = caller[c].pc
           /\ Older(c).calls = caller[c].calls
           /\ Older(c).age <= caller[c].age + 1
           /\ caller[c].pc = "idle" => Older(c) = caller[c]
           /\ InUse(c) => Older(c).elapsed = caller[c].elapsed + 1
           /\ ~ InUse(c) => Older(c).elapsed = caller[c].elapsed
  <1> DEFINE k  == caller[c]
             k1 == [k EXCEPT !.age = IF @ < MaxAge THEN @ + 1 ELSE @]
             k2 == [k1 EXCEPT !.elapsed =
                        IF k.pc = "waiting" \/ @ > Timeout THEN @ ELSE @ + 1]
  <1>1. /\ k \in Caller
        /\ k.age \in 0 .. MaxAge /\ k.elapsed \in 0 .. Timeout
        /\ k.pc \in {"idle", "waiting", "connecting", "publishing", "confirming"}
    BY CallerFields
  <1>2. Older(c) = IF k.pc = "idle" THEN k ELSE k2
    BY DEF Older
  <1>3. InUse(c) => k.elapsed < Timeout
    BY <1>1, Bounds DEF TimedOut, InUse
  <1>4. InUse(c) <=> k.pc # "idle" /\ k.pc # "waiting"
    BY <1>1 DEF InUse
  <1> HIDE DEF k
  <1>5. /\ k1 \in Caller /\ k1.pc = k.pc /\ k1.calls = k.calls
        /\ k1.elapsed = k.elapsed /\ k1.age <= k.age + 1
    BY <1>1, Bounds DEF Caller
  <1> HIDE DEF k1
  <1>6. CASE k.pc = "idle"
    BY <1>1, <1>2, <1>4, <1>6, Bounds DEF k
  <1>7. CASE k.pc = "waiting"
    <2>1. k2 \in Caller /\ k2.pc = k.pc /\ k2.calls = k.calls
          /\ k2.elapsed = k.elapsed /\ k2.age <= k.age + 1
      BY <1>1, <1>5, <1>7, Bounds DEF Caller
    <2> HIDE DEF k2
    <2> QED
      BY <1>2, <1>4, <1>7, <2>1 DEF k
  <1>8. CASE InUse(c)
    <2>1. k.elapsed + 1 \in 0 .. Timeout /\ ~ (k.elapsed > Timeout)
      BY <1>1, <1>3, <1>8, Bounds
    <2>2. k2 = [k1 EXCEPT !.elapsed = k.elapsed + 1]
      BY <1>4, <1>5, <1>8, <2>1
    <2>3. k2 \in Caller /\ k2.pc = k.pc /\ k2.calls = k.calls
          /\ k2.elapsed = k.elapsed + 1 /\ k2.age <= k.age + 1
      BY <1>5, <2>1, <2>2 DEF Caller
    <2> HIDE DEF k2
    <2> QED
      BY <1>2, <1>4, <1>8, <2>3 DEF k
  <1> QED
    BY <1>1, <1>4, <1>6, <1>7, <1>8

LEMMA TickStep ==
    ASSUME IInv, Tick
    PROVE  IInv'
  <1> USE DEF IInv
  <1>1. /\ \A c \in Callers : ~ TimedOut(c)
        /\ mutex # <<>> => caller[Head(mutex)].pc # "waiting"
        /\ caller' = [c \in Callers |-> Older(c)]
        /\ UNCHANGED <<mutex, channel, fate, succeeded>>
    BY DEF Tick
  <1>2. \A c \in Callers :
            /\ caller'[c] \in Caller
            /\ caller'[c].pc = caller[c].pc
            /\ caller'[c].calls = caller[c].calls
            /\ caller'[c].age <= caller[c].age + 1
            /\ caller[c].pc = "idle" => caller'[c] = caller[c]
            /\ InUse(c) => caller'[c].elapsed = caller[c].elapsed + 1
            /\ ~ InUse(c) => caller'[c].elapsed = caller[c].elapsed
    BY <1>1, OlderMoves
  <1>3. TypeOK'
    BY <1>1, <1>2 DEF TypeOK
  <1>4. QueueInv'
    <2>1. \A d \in Callers : InUse(d)' => InUse(d)
      BY <1>2 DEF InUse
    <2> QED
      BY <2>1, <1>1, <1>2, QueueStays
  <1>5. CallInv'
    <2>1. succeeded \subseteq Calls
      BY DEF TypeOK
    <2> QED
      BY <2>1, <1>1, <1>2, CallsStay
  <1>6. ChannelInv'
    BY <1>1, <1>2, ChannelStays
  <1>7. AgeInv'
    <2>1. /\ \A d \in Callers : ~ InUse(d)' => caller'[d].elapsed = 0
          /\ \A d \in Callers : caller'[d].pc = "idle" => caller'[d].age = 0
      BY <1>2 DEF AgeInv, InUse
    <2>2. ASSUME NEW n \in 1 .. Len(mutex)
          PROVE  caller'[mutex[n]].age <=
                     Timeout * (N - n) + caller'[mutex[1]].elapsed
      <3>1. /\ Len(mutex) \in Nat
            /\ \A k \in 1 .. Len(mutex) : mutex[k] \in Callers
        BY LenProperties DEF TypeOK
      <3>2. mutex # <<>> /\ 1 \in 1 .. Len(mutex) /\ Head(mutex) = mutex[1]
        BY <2>2, <3>1 DEF TypeOK
      <3>3. InUse(mutex[1])
        <4>1. caller[mutex[1]].pc # "waiting" /\ caller[mutex[1]].pc # "idle"
          BY <1>1, <3>2 DEF QueueInv
        <4> QED
          BY <4>1, <3>1, <3>2, CallerFields DEF InUse
      <3>4. caller'[mutex[1]].elapsed = caller[mutex[1]].elapsed + 1
        BY <3>1, <3>2, <3>3, <1>2
      <3>5. caller'[mutex[n]].age <= caller[mutex[n]].age + 1
        BY <2>2, <3>1, <1>2
      <3>6. caller[mutex[n]].age <= Timeout * (N - n) + caller[mutex[1]].elapsed
        BY <2>2 DEF AgeInv
      <3>7. /\ caller'[mutex[n]].age \in Nat /\ caller[mutex[n]].age \in Nat
            /\ caller[mutex[1]].elapsed \in Nat
        BY <2>2, <3>1, <3>2, <1>2, CallerFields, Bounds DEF Caller
      <3>8. Len(mutex) <= N
        BY QueueLength DEF QueueInv, TypeOK
      <3>9. n \in 1 .. N
        BY <2>2, <3>1, <3>8, Bounds
      <3>10. Timeout * (N - n) \in Nat
        BY <3>9, Bounds, Places
      <3> QED
        BY <3>4, <3>5, <3>6, <3>7, <3>10, OneTickOlder
    <2> QED
      BY <2>1, <2>2, <1>1 DEF AgeInv
  <1>8. OkMeansRouted'
    BY <1>1 DEF OkMeansRouted
  <1> QED
    BY <1>3, <1>4, <1>5, <1>6, <1>7, <1>8

LEMMA NextInv == IInv /\ [Next]_vars => IInv'
  <1> SUFFICES ASSUME IInv, [Next]_vars PROVE IInv'
    OBVIOUS
  <1>1. CASE UNCHANGED vars
    BY SMTT(30), <1>1 DEF vars, IInv, TypeOK, QueueInv, CallInv, ChannelInv, AgeInv, OkMeansRouted,
                InUse, CallOf, Quiet, Unanswered, Answered
  <1>2. CASE \E c \in Callers : Call(c) \/ Publish(c)
    BY <1>2, CallStep, PublishStep
  <1>3. CASE Broker \/ Break \/ Tick
    BY <1>3, BrokerStep, BreakStep, TickStep
  <1> QED
    BY <1>1, <1>2, <1>3 DEF Next

THEOREM Invariance == Spec => []IInv
  BY InitInv, NextInv, PTL DEF Spec

-----------------------------------------------------------------------------
(* The theorems.                                                           *)

(* The queue, the channel and the callers stay well typed; in particular a *)
(* call never runs past the timeout once it has the mutex.                 *)
THEOREM TypeCorrect == Spec => []TypeOK
  <1>1. IInv => TypeOK
    BY DEF IInv
  <1> QED
    BY <1>1, Invariance, PTL

(* publish_async returns Ok for a message only when the broker routed it,  *)
(* however many threads share the channel and whatever they gave up on.    *)
THEOREM OkIsRouted == Spec => []OkMeansRouted
  <1>1. IInv => OkMeansRouted
    BY DEF IInv
  <1> QED
    BY <1>1, Invariance, PTL

(* A cached channel carries nothing between two calls, and during a call   *)
(* nothing but that call's message or its answer.                          *)
THEOREM ChannelIsClean == Spec => []NothingPending
  <1>1. ASSUME IInv
        PROVE  NothingPending
    <2> USE <1>1 DEF IInv
    <2>1. CASE Quiet
      <3>1. Len(channel.sent) = 0 /\ Len(channel.answers) = 0
        BY <2>1 DEF Quiet
      <3> QED
        BY <3>1 DEF NothingPending
    <2>2. CASE ~ Quiet
      <3>1. PICK c \in Callers :
                caller[c].pc = "confirming" /\ (Unanswered(c) \/ Answered(c))
        BY <2>2 DEF ChannelInv
      <3>2. mutex # <<>> /\ Head(mutex) = c
        BY <3>1, HeadInUse DEF InUse
      <3>3. Len(<<CallOf(c)>>) = 1 /\ Head(<<CallOf(c)>>) = CallOf(c) /\ Len(<<>>) = 0
        OBVIOUS
      <3>4. CASE Unanswered(c)
        <4>1. Len(channel.sent) = 1 /\ Len(channel.answers) = 0
          BY <3>3, <3>4 DEF Unanswered
        <4>2. Head(channel.sent) = CallOf(c)
          BY <3>3, <3>4 DEF Unanswered
        <4> QED
          BY <3>1, <3>2, <4>1, <4>2 DEF NothingPending
      <3>5. CASE Answered(c)
        <4>1. PICK a \in {"ack", "returned", "nack"} : channel.answers = <<a>>
          BY <3>5 DEF Answered
        <4>2. Len(<<a>>) = 1
          OBVIOUS
        <4>3. Len(channel.sent) = 0 /\ Len(channel.answers) = 1
          BY <3>3, <3>5, <4>1, <4>2 DEF Answered
        <4>4. channel.sent = <<>>
          BY <3>5 DEF Answered
        <4> QED
          BY <3>1, <3>2, <4>3, <4>4 DEF NothingPending
      <3> QED
        BY <3>1, <3>4, <3>5
    <2> QED
      BY <2>1, <2>2
  <1> QED
    BY <1>1, Invariance, PTL

(* A call waits for at most one timeout of every thread ahead of it, and   *)
(* then takes at most its own.                                             *)
THEOREM CallsAreBounded == Spec => []BoundedByPeers
  <1>1. ASSUME IInv
        PROVE  BoundedByPeers
    <2> USE <1>1 DEF IInv
    <2>1. ASSUME NEW c \in Callers
          PROVE  caller[c].age <= Timeout * N
      <3>1. Timeout * N \in Nat
        BY Bounds
      <3>2. CASE caller[c].pc = "idle"
        BY <3>1, <3>2 DEF AgeInv
      <3>3. CASE caller[c].pc # "idle"
        <4>1. PICK n \in 1 .. Len(mutex) : mutex[n] = c
          BY <3>3 DEF QueueInv
        <4>2. /\ Len(mutex) \in Nat /\ Len(mutex) <= N
              /\ \A k \in 1 .. Len(mutex) : mutex[k] \in Callers
          BY QueueLength, LenProperties DEF QueueInv, TypeOK
        <4>3. n \in 1 .. N /\ 1 \in 1 .. Len(mutex)
          BY <4>1, <4>2, Bounds
        <4>4. caller[mutex[1]].elapsed \in 0 .. Timeout /\ caller[c].age \in Nat
          BY <4>2, <4>3, CallerFields, Bounds
        <4>5. caller[c].age <= Timeout * (N - n) + caller[mutex[1]].elapsed
          BY <4>1 DEF AgeInv
        <4>6. /\ Timeout * (N - n) \in Nat
              /\ Timeout * (N - n) + Timeout <= Timeout * N
          BY <4>3, Bounds, Places
        <4> DEFINE b == Timeout * (N - n)
                   top == Timeout * N
                   e == caller[mutex[1]].elapsed
        <4>7. /\ b \in Nat /\ top \in Nat /\ e \in Nat /\ e <= Timeout
              /\ caller[c].age \in Nat /\ Timeout \in Nat
          BY <3>1, <4>4, <4>6, Bounds
        <4>8. caller[c].age <= b + e /\ b + Timeout <= top
          BY <4>5, <4>6
        <4>9. caller[c].age <= top
          <5> HIDE <1>1 DEF b, top, e
          <5> QED
            BY ONLY <4>7, <4>8, OneTurnMore
        <4> QED
          BY <4>9
      <3> QED
        BY <3>2, <3>3
    <2> QED
      BY <2>1 DEF BoundedByPeers, N
  <1> QED
    BY <1>1, Invariance, PTL

=============================================================================
