-------------------------- MODULE InboxIngestProofs --------------------------
(***************************************************************************)
(* Theorems about InboxIngest for every set of messages and workers.       *)
(***************************************************************************)
EXTENDS InboxIngest, SequenceTheorems, TLAPS

(* A worker takes deliveries only while it runs; what it is acknowledging  *)
(* is recorded; a channel that is closed holds nothing.                    *)
WorkerInv ==
    \A w \in Workers :
        /\ worker[w].pc \in {"storing", "acking", "nacking"} =>
               worker[w].msg \in Messages
        /\ worker[w].pc = "acking" => Recorded(worker[w].msg)
        /\ worker[w].pc # "stopped" => worker[w].ended = "running"
        /\ ~ worker[w].connected => \A m \in Messages : holder[m] # w

IInv ==
    /\ TypeOK
    /\ WorkerInv
    /\ AckedIsStored
    /\ OneRowPerKey
    /\ NoneForgotten

-----------------------------------------------------------------------------
(* What a buffer holds after a delivery is pushed to it or polled from it. *)

LEMMA RangeAppend ==
    ASSUME NEW S, NEW s \in Seq(S), NEW e \in S
    PROVE  /\ Append(s, e) \in Seq(S)
           /\ Range(Append(s, e)) = Range(s) \cup {e}
  <1>1. /\ Append(s, e) \in Seq(S)
        /\ Len(Append(s, e)) = Len(s) + 1
        /\ \A i \in 1 .. Len(s) : Append(s, e)[i] = s[i]
        /\ Append(s, e)[Len(s) + 1] = e
    BY AppendProperties
  <1>2. DOMAIN s = 1 .. Len(s) /\ Len(s) \in Nat
    BY LenProperties
  <1>3. DOMAIN Append(s, e) = 1 .. Len(s) + 1
    BY <1>1, LenProperties
  <1>4. Range(s) \cup {e} \subseteq Range(Append(s, e))
    BY <1>1, <1>2, <1>3 DEF Range
  <1>5. Range(Append(s, e)) \subseteq Range(s) \cup {e}
    <2> SUFFICES ASSUME NEW i \in 1 .. Len(s) + 1
                 PROVE  Append(s, e)[i] \in Range(s) \cup {e}
      BY <1>3 DEF Range
    <2>1. CASE i = Len(s) + 1
      BY <2>1, <1>1
    <2>2. CASE i # Len(s) + 1
      BY <2>2, <1>1, <1>2 DEF Range
    <2> QED
      BY <2>1, <2>2
  <1> QED
    BY <1>1, <1>4, <1>5

LEMMA RangeTail ==
    ASSUME NEW S, NEW s \in Seq(S), s # <<>>
    PROVE  /\ Head(s) \in S
           /\ Tail(s) \in Seq(S)
           /\ Range(s) \subseteq Range(Tail(s)) \cup {Head(s)}
  <1>1. /\ Head(s) \in S
        /\ Tail(s) \in Seq(S)
        /\ Len(Tail(s)) = Len(s) - 1
        /\ \A i \in 1 .. Len(Tail(s)) : Tail(s)[i] = s[i + 1]
    BY HeadTailProperties
  <1>2. DOMAIN s = 1 .. Len(s) /\ Len(s) \in Nat
    BY LenProperties
  <1>3. DOMAIN Tail(s) = 1 .. Len(s) - 1
    BY <1>1, LenProperties
  <1>4. ASSUME NEW i \in 1 .. Len(s)
        PROVE  s[i] \in Range(Tail(s)) \cup {Head(s)}
    <2>1. CASE i = 1
      BY <2>1
    <2>2. CASE i # 1
      <3>1. i - 1 \in DOMAIN Tail(s) /\ Tail(s)[i - 1] = s[i]
        BY <2>2, <1>1, <1>2, <1>3
      <3> QED
        BY <3>1 DEF Range
    <2> QED
      BY <2>1, <2>2
  <1> QED
    BY <1>1, <1>2, <1>4 DEF Range

-----------------------------------------------------------------------------
(* The table only grows, and keeps an id once.                             *)

Grows == \A m \in Messages : rows'[m] >= rows[m]

LEMMA InsertedRows ==
    ASSUME TypeOK, OneRowPerKey, NEW m \in Messages, rows' = Inserted(m)
    PROVE  /\ rows' \in [Messages -> 0 .. MaxCopies]
           /\ Grows
           /\ Recorded(m)'
           /\ OneRowPerKey'
  <1>1. rows \in [Messages -> 0 .. MaxCopies] /\ MaxCopies \in Nat \ {0}
    BY IngestAssumption DEF TypeOK, IngestAssumption
  <1>2. CASE KeyOf(m) # NoKey /\ Stored(KeyOf(m))
    BY <1>1, <1>2 DEF Inserted, Grows, Recorded, Stored, OneRowPerKey
  <1>3. CASE ~ (KeyOf(m) # NoKey /\ Stored(KeyOf(m)))
    <2>1. rows' = [rows EXCEPT ![m] = IF @ < MaxCopies THEN @ + 1 ELSE @]
      BY <1>3 DEF Inserted
    <2>2. rows'[m] \in 1 .. MaxCopies /\ rows'[m] >= rows[m]
      BY <2>1, <1>1
    <2>3. \A n \in Messages : n # m => rows'[n] = rows[n]
      BY <2>1, <1>1
    <2>4. rows' \in [Messages -> 0 .. MaxCopies]
      BY <2>1, <1>1
    <2>5. Grows
      BY <2>2, <2>3, <1>1 DEF Grows
    <2>6. Recorded(m)'
      BY <2>2 DEF Recorded, Stored
    <2>7. OneRowPerKey'
      <3> SUFFICES ASSUME NEW a \in Messages, NEW b \in Messages,
                          KeyOf(a) = KeyOf(b), KeyOf(a) # NoKey,
                          rows'[a] > 0, rows'[b] > 0
                   PROVE  a = b /\ rows'[a] = 1
        BY DEF OneRowPerKey
      <3>1. CASE KeyOf(a) = KeyOf(m)
        <4>1. ~ Stored(KeyOf(m))
          BY <3>1, <1>3
        <4>2. \A n \in Messages : KeyOf(n) = KeyOf(m) => ~ (rows[n] > 0)
          BY <4>1 DEF Stored
        <4>3. \A n \in Messages : rows[n] \in Nat
          BY <1>1
        <4>4. KeyOf(b) = KeyOf(m)
          BY <3>1
        <4>5. ~ (rows[a] > 0) /\ ~ (rows[b] > 0) /\ ~ (rows[m] > 0)
          BY <4>2, <4>4, <3>1
        <4>6. rows[a] = 0 /\ rows[b] = 0 /\ rows[m] = 0
          BY <4>3, <4>5
        <4> QED
          BY <4>6, <2>1, <2>3, <1>1
      <3>2. CASE KeyOf(a) # KeyOf(m)
        BY <3>2, <2>3 DEF OneRowPerKey
      <3> QED
        BY <3>1, <3>2
    <2> QED
      BY <2>4, <2>5, <2>6, <2>7
  <1> QED
    BY <1>2, <1>3

LEMMA RecordedStays ==
    ASSUME TypeOK, rows' \in [Messages -> 0 .. MaxCopies], Grows,
           NEW m \in Messages, Recorded(m)
    PROVE  Recorded(m)'
  BY IngestAssumption DEF IngestAssumption, TypeOK, Grows, Recorded, Stored

-----------------------------------------------------------------------------
(* A step of one worker.  x is the worker's next state; what the step adds *)
(* to the broker's view of that worker has to be in its hand or buffer.    *)

Hand(x) == IF x.pc \in {"storing", "acking", "nacking"} THEN {x.msg} ELSE {}

Sound(w, x) ==
    /\ x \in Worker
    /\ x.pc \in {"storing", "acking", "nacking"} => x.msg \in Messages
    /\ x.pc = "acking" => Recorded(x.msg)'
    /\ x.pc # "stopped" => x.ended = "running"
    /\ ~ x.connected => \A m \in Messages : holder'[m] # w
    /\ x.ended # "error" =>
           \A m \in Messages : holder'[m] = w => m \in Hand(x) \cup Range(x.buffer)

LEMMA WorkerStep ==
    ASSUME IInv, NEW w \in Workers, NEW x,
           worker' = [worker EXCEPT ![w] = x],
           Sound(w, x),
           holder' \in [Messages -> Holders],
           \A m \in Messages, v \in Workers :
               v # w /\ holder'[m] = v => holder[m] = v,
           rows' \in [Messages -> 0 .. MaxCopies],
           Grows,
           \A m \in Messages : holder'[m] = "acked" => Recorded(m)',
           OneRowPerKey'
    PROVE  IInv'
  <1>1. worker'[w] = x /\ \A v \in Workers : v # w => worker'[v] = worker[v]
    BY DEF IInv, TypeOK
  <1>2. TypeOK'
    BY DEF IInv, TypeOK, Sound
  <1>3. WorkerInv'
    <2> SUFFICES ASSUME NEW v \in Workers
                 PROVE  /\ worker'[v].pc \in {"storing", "acking", "nacking"} =>
                               worker'[v].msg \in Messages
                        /\ worker'[v].pc = "acking" => Recorded(worker[v].msg)'
                        /\ worker'[v].pc # "stopped" => worker'[v].ended = "running"
                        /\ ~ worker'[v].connected =>
                               \A m \in Messages : holder'[m] # v
      BY DEF WorkerInv, Recorded, Stored
    <2>1. CASE v = w
      BY <2>1, <1>1 DEF Sound
    <2>2. CASE v # w
      <3>1. worker'[v] = worker[v]
        BY <2>2, <1>1
      <3>2. ASSUME NEW c \in Messages, worker[v].pc = "acking", worker[v].msg = c
            PROVE  Recorded(c)'
        <4>1. Recorded(c)
          BY <3>2 DEF IInv, WorkerInv
        <4> QED
          BY <4>1, RecordedStays DEF IInv
      <3>3. worker[v].pc = "acking" => worker[v].msg \in Messages
        BY DEF IInv, WorkerInv
      <3>4. worker'[v].pc = "acking" => Recorded(worker[v].msg)'
        BY <3>1, <3>2, <3>3 DEF Recorded, Stored
      <3> QED
        BY <2>2, <3>1, <3>4 DEF IInv, WorkerInv
    <2> QED
      BY <2>1, <2>2
  <1>4. AckedIsStored'
    BY DEF AckedIsStored, Recorded, Stored
  <1>5. NoneForgotten'
    <2> SUFFICES ASSUME NEW v \in Workers, worker'[v].ended # "error",
                        NEW m \in Messages, holder'[m] = v
                 PROVE  m \in Hand(worker'[v]) \cup Range(worker'[v].buffer)
      BY DEF NoneForgotten, Forgotten, Outstanding, InHand, Hand
    <2>1. CASE v = w
      BY <2>1, <1>1 DEF Sound
    <2>2. CASE v # w
      BY <2>2, <1>1 DEF IInv, NoneForgotten, Forgotten, Outstanding, InHand, Hand
    <2> QED
      BY <2>1, <2>2
  <1> QED
    BY <1>2, <1>3, <1>4, <1>5 DEF IInv

(* A step that writes no row.                                              *)
LEMMA QuietStep ==
    ASSUME IInv, NEW w \in Workers, NEW x,
           worker' = [worker EXCEPT ![w] = x],
           UNCHANGED rows,
           holder' \in [Messages -> Holders],
           \A m \in Messages, v \in Workers :
               v # w /\ holder'[m] = v => holder[m] = v,
           \A m \in Messages :
               holder'[m] = "acked" /\ holder[m] # "acked" => Recorded(m),
           Sound(w, x)
    PROVE  IInv'
  <1>1. /\ rows' \in [Messages -> 0 .. MaxCopies]
        /\ Grows
        /\ OneRowPerKey'
    BY IngestAssumption
       DEF IngestAssumption, IInv, TypeOK, Grows, OneRowPerKey
  <1>2. ASSUME NEW m \in Messages, holder'[m] = "acked"
        PROVE  Recorded(m)'
    <2>1. Recorded(m)
      BY <1>2 DEF IInv, AckedIsStored
    <2> QED
      BY <2>1 DEF Recorded, Stored
  <1> QED
    BY <1>1, <1>2, WorkerStep

(* Storing: the row is written before the worker moves on.                 *)
LEMMA StoringStep ==
    ASSUME IInv, NEW w \in Workers, NEW p \in {"acking", "nacking"},
           worker[w].pc = "storing",
           rows' = Inserted(worker[w].msg),
           Goto(w, p), UNCHANGED holder
    PROVE  IInv'
  <1>0. PICK x : x = [worker[w] EXCEPT !.pc = p]
    OBVIOUS
  <1>1. worker[w] \in Worker /\ worker[w].msg \in Messages
    BY DEF IInv, TypeOK, WorkerInv
  <1>2. PICK m \in Messages : m = worker[w].msg
    BY <1>1
  <1>3. /\ rows' \in [Messages -> 0 .. MaxCopies]
        /\ Grows
        /\ Recorded(m)'
        /\ OneRowPerKey'
    BY <1>2, InsertedRows DEF IInv
  <1>4. ASSUME NEW n \in Messages, holder'[n] = "acked"
        PROVE  Recorded(n)'
    BY <1>3, <1>4, RecordedStays DEF IInv, AckedIsStored
  <1>5. worker' = [worker EXCEPT ![w] = x]
    BY <1>0 DEF Goto, IInv, TypeOK
  <1>6. x.msg = m /\ x.buffer = worker[w].buffer /\ x.pc = p
        /\ x.ended = worker[w].ended /\ x.connected = worker[w].connected
        /\ x \in Worker
    BY <1>0, <1>1, <1>2 DEF Worker
  <1>7. Recorded(x.msg)'
    BY <1>3, <1>6 DEF Recorded, Stored
  <1>8. Sound(w, x)
    <2>1. worker[w].ended = "running" /\ p # "stopped"
      BY DEF IInv, WorkerInv
    <2>2. ~ worker[w].connected => \A n \in Messages : holder'[n] # w
      BY DEF IInv, WorkerInv
    <2>3. \A n \in Messages : holder'[n] = w => n \in {m} \cup Range(x.buffer)
      BY <1>2, <1>6, <2>1
         DEF IInv, NoneForgotten, Forgotten, Outstanding, InHand
    <2>4. Hand(x) = {m}
      BY <1>6 DEF Hand
    <2> QED
      BY <1>6, <1>7, <2>1, <2>2, <2>3, <2>4 DEF Sound
  <1>9. \A n \in Messages, v \in Workers : v # w /\ holder'[n] = v => holder[n] = v
    OBVIOUS
  <1>10. holder' \in [Messages -> Holders]
    BY DEF IInv, TypeOK
  <1> QED
    BY <1>3, <1>4, <1>5, <1>8, <1>9, <1>10, WorkerStep

LEMMA RequeuedHolder ==
    ASSUME IInv, NEW w \in Workers, holder' = Requeued(w)
    PROVE  /\ holder' \in [Messages -> Holders]
           /\ \A m \in Messages : holder'[m] # w
           /\ \A m \in Messages, v \in Workers :
                  v # w /\ holder'[m] = v => holder[m] = v
           /\ \A m \in Messages : holder'[m] = "acked" => holder[m] = "acked"
  BY IngestAssumption DEF IngestAssumption, IInv, TypeOK, Requeued, Holders

(* Settling the delivery in hand: no other worker's view changes.          *)
LEMMA SettledHolder ==
    ASSUME IInv, NEW w \in Workers, NEW m \in Messages,
           NEW h \in {"ready", "acked", "dead_lettered"},
           holder' = [holder EXCEPT ![m] = h]
    PROVE  /\ holder' \in [Messages -> Holders]
           /\ \A n \in Messages, v \in Workers : holder'[n] = v => holder[n] = v /\ n # m
           /\ \A n \in Messages : n # m => holder'[n] = holder[n]
           /\ holder'[m] = h
  BY IngestAssumption DEF IngestAssumption, IInv, TypeOK, Holders

(* The loop moves on, or returns, with the same buffer: what it leaves     *)
(* behind must have been settled, unless it returns with an error.         *)
LEMMA MoveStep ==
    ASSUME IInv, NEW w \in Workers, NEW x \in Worker,
           worker' = [worker EXCEPT ![w] = x],
           UNCHANGED rows,
           x.buffer = worker[w].buffer,
           x.pc \in {"polling", "nacking", "backoff", "closing", "stopped"},
           x.pc = "nacking" => worker[w].pc = "storing" /\ x.msg = worker[w].msg,
           worker[w].pc # "stopped",
           x.pc # "stopped" => x.ended = "running",
           \/ /\ UNCHANGED holder
              /\ x.connected = worker[w].connected
              /\ \/ x.ended = "error"
                 \/ InHand(w) = {}
                 \/ x.pc = "nacking"
           \/ holder' = Requeued(w)
           \/ /\ worker[w].pc \in {"acking", "nacking"}
              /\ x.connected = worker[w].connected
              /\ \/ holder' = [holder EXCEPT ![worker[w].msg] = "ready"]
                 \/ /\ holder' = [holder EXCEPT ![worker[w].msg] = "acked"]
                    /\ worker[w].pc = "acking"
    PROVE  IInv'
  <1>1. /\ worker[w] \in Worker
        /\ worker[w].ended = "running"
        /\ worker[w].pc \in {"storing", "acking", "nacking"} =>
               worker[w].msg \in Messages
        /\ worker[w].pc = "acking" => Recorded(worker[w].msg)
        /\ ~ worker[w].connected => \A m \in Messages : holder[m] # w
    BY DEF IInv, TypeOK, WorkerInv
  <1>2. \A m \in Messages : holder[m] = w => m \in InHand(w) \cup Range(x.buffer)
    BY <1>1 DEF IInv, NoneForgotten, Forgotten, Outstanding
  <1>3. x.pc \notin {"storing", "acking"}
    OBVIOUS
  <1>4. CASE UNCHANGED holder /\ x.connected = worker[w].connected
               /\ (x.ended = "error" \/ InHand(w) = {} \/ x.pc = "nacking")
    <2>1. holder' \in [Messages -> Holders]
      BY <1>4 DEF IInv, TypeOK
    <2>2. Sound(w, x)
      BY <1>1, <1>2, <1>3, <1>4 DEF Sound, Hand, InHand
    <2> QED
      BY <1>4, <2>1, <2>2, QuietStep
  <1>5. CASE holder' = Requeued(w)
    <2>1. /\ holder' \in [Messages -> Holders]
          /\ \A m \in Messages : holder'[m] # w
          /\ \A m \in Messages, v \in Workers :
                 v # w /\ holder'[m] = v => holder[m] = v
          /\ \A m \in Messages : holder'[m] = "acked" => holder[m] = "acked"
      BY <1>5, RequeuedHolder
    <2>2. Sound(w, x)
      BY <1>1, <1>3, <2>1 DEF Sound
    <2> QED
      BY <2>1, <2>2, QuietStep
  <1>6. CASE /\ worker[w].pc \in {"acking", "nacking"}
             /\ x.connected = worker[w].connected
             /\ \/ holder' = [holder EXCEPT ![worker[w].msg] = "ready"]
                \/ /\ holder' = [holder EXCEPT ![worker[w].msg] = "acked"]
                   /\ worker[w].pc = "acking"
    <2>1. PICK m \in Messages : m = worker[w].msg
      BY <1>1, <1>6
    <2>2. PICK h \in {"ready", "acked"} :
             /\ holder' = [holder EXCEPT ![m] = h]
             /\ h = "acked" => Recorded(m)
      BY <1>1, <1>6, <2>1
    <2>3. /\ holder' \in [Messages -> Holders]
          /\ \A n \in Messages, v \in Workers : holder'[n] = v => holder[n] = v /\ n # m
          /\ \A n \in Messages : n # m => holder'[n] = holder[n]
          /\ holder'[m] = h
      BY <2>2, SettledHolder
    <2>4. InHand(w) = {m} /\ x.pc # "nacking"
      BY <1>6, <2>1 DEF InHand
    <2>5. \A n \in Messages : holder'[n] = w => holder[n] = w /\ n \in Range(x.buffer)
      BY <1>2, <2>3, <2>4
    <2>6. ~ x.connected => \A n \in Messages : holder'[n] # w
      BY <1>1, <1>6, <2>5
    <2>7. Sound(w, x)
      BY <1>3, <2>4, <2>5, <2>6 DEF Sound
    <2>8. \A n \in Messages : holder'[n] = "acked" /\ holder[n] # "acked" => Recorded(n)
      BY <2>2, <2>3
    <2> QED
      BY <2>3, <2>7, <2>8, QuietStep
  <1> QED
    BY <1>4, <1>5, <1>6

-----------------------------------------------------------------------------
(* The invariant.                                                          *)

LEMMA StartedWorkerType ==
    /\ StartedWorker \in Worker
    /\ StartedWorker.pc = "polling"
    /\ StartedWorker.ended = "running"
    /\ StartedWorker.connected
  BY EmptySeq DEF StartedWorker, Worker

LEMMA InitInv == Init => IInv
  <1> SUFFICES ASSUME Init PROVE IInv
    OBVIOUS
  <1>1. \A m \in Messages : /\ holder[m] = "unpublished"
                            /\ \A w \in Workers : holder[m] # w
    BY IngestAssumption DEF IngestAssumption, Init
  <1>2. TypeOK
    BY StartedWorkerType, IngestAssumption
       DEF IngestAssumption, Init, TypeOK, Holders
  <1>3. WorkerInv
    BY <1>1, StartedWorkerType DEF Init, WorkerInv
  <1>4. AckedIsStored /\ NoneForgotten
    BY <1>1 DEF AckedIsStored, NoneForgotten, Forgotten, Outstanding
  <1>5. OneRowPerKey
    BY DEF Init, OneRowPerKey
  <1> QED
    BY <1>2, <1>3, <1>4, <1>5 DEF IInv

LEMMA PublishStep ==
    ASSUME IInv, NEW m \in Messages, Publish(m)
    PROVE  IInv'
  <1>1. /\ holder' \in [Messages -> Holders]
        /\ \A n \in Messages, w \in Workers : holder'[n] = w => holder[n] = w
        /\ \A n \in Messages : holder'[n] = "acked" => holder[n] = "acked"
    BY IngestAssumption DEF IngestAssumption, IInv, TypeOK, Publish, Holders
  <1>2. UNCHANGED <<worker, rows>>
    BY DEF Publish
  <1>3. TypeOK'
    BY <1>1, <1>2 DEF IInv, TypeOK
  <1>4. WorkerInv'
    BY <1>1, <1>2 DEF IInv, WorkerInv, Recorded, Stored
  <1>5. AckedIsStored' /\ OneRowPerKey'
    BY <1>1, <1>2 DEF IInv, AckedIsStored, OneRowPerKey, Recorded, Stored
  <1>6. NoneForgotten'
    BY <1>1, <1>2 DEF IInv, NoneForgotten, Forgotten, Outstanding, InHand
  <1> QED
    BY <1>3, <1>4, <1>5, <1>6 DEF IInv

LEMMA DeliverStep ==
    ASSUME IInv, NEW w \in Workers, NEW m \in Messages, Deliver(w, m)
    PROVE  IInv'
  <1>1. PICK x : x = [worker[w] EXCEPT !.buffer = Append(@, m)]
    OBVIOUS
  <1>2. /\ worker[w] \in Worker
        /\ worker[w].ended = "running"
        /\ worker[w].connected
        /\ worker[w].pc \in {"storing", "acking", "nacking"} =>
               worker[w].msg \in Messages
        /\ worker[w].pc = "acking" => Recorded(worker[w].msg)
    BY DEF IInv, TypeOK, WorkerInv, Deliver
  <1>3. /\ Append(worker[w].buffer, m) \in Seq(Messages)
        /\ Range(Append(worker[w].buffer, m)) = Range(worker[w].buffer) \cup {m}
    BY <1>2, RangeAppend DEF Worker
  <1>4. /\ x \in Worker
        /\ x.pc = worker[w].pc /\ x.msg = worker[w].msg
        /\ x.ended = worker[w].ended /\ x.connected = worker[w].connected
        /\ x.buffer = Append(worker[w].buffer, m)
    BY <1>1, <1>2, <1>3 DEF Worker
  <1>5. /\ holder' = [holder EXCEPT ![m] = w]
        /\ worker' = [worker EXCEPT ![w] = x]
        /\ UNCHANGED rows
    BY <1>1 DEF Deliver, IInv, TypeOK
  <1>6. /\ holder' \in [Messages -> Holders]
        /\ \A n \in Messages, v \in Workers : v # w /\ holder'[n] = v => holder[n] = v
        /\ \A n \in Messages : holder'[n] = "acked" => holder[n] = "acked"
        /\ \A n \in Messages : holder'[n] = w => holder[n] = w \/ n = m
    BY <1>5, IngestAssumption DEF IngestAssumption, IInv, TypeOK, Holders
  <1>7. \A n \in Messages : holder[n] = w => n \in InHand(w) \cup Range(worker[w].buffer)
    BY <1>2 DEF IInv, NoneForgotten, Forgotten, Outstanding
  <1>8. Hand(x) = InHand(w)
    BY <1>4 DEF Hand, InHand
  <1>9. x.pc = "acking" => Recorded(x.msg)'
    BY <1>2, <1>4, <1>5 DEF Recorded, Stored
  <1>10. Sound(w, x)
    BY <1>2, <1>3, <1>4, <1>6, <1>7, <1>8, <1>9 DEF Sound
  <1> QED
    BY <1>5, <1>6, <1>10, QuietStep

LEMMA PollStep ==
    ASSUME IInv, NEW w \in Workers, Poll(w)
    PROVE  IInv'
  <1>1. PICK m : m = Head(worker[w].buffer)
    OBVIOUS
  <1>2. /\ worker[w] \in Worker
        /\ worker[w].ended = "running"
        /\ worker[w].pc = "polling"
        /\ worker[w].buffer \in Seq(Messages)
        /\ worker[w].buffer # <<>>
        /\ ~ worker[w].connected => \A n \in Messages : holder[n] # w
    BY DEF IInv, TypeOK, WorkerInv, Poll, Worker
  <1>3. /\ m \in Messages
        /\ Tail(worker[w].buffer) \in Seq(Messages)
        /\ Range(worker[w].buffer) \subseteq Range(Tail(worker[w].buffer)) \cup {m}
    BY <1>1, <1>2, RangeTail
  <1>4. \A n \in Messages : holder[n] = w =>
            n \in Range(Tail(worker[w].buffer)) \cup {m}
    BY <1>2, <1>3 DEF IInv, NoneForgotten, Forgotten, Outstanding, InHand
  <1>5. CASE m \notin Unreadable
    <2>1. PICK x : x = [worker[w] EXCEPT !.pc = "storing", !.msg = m, !.buffer = Tail(@)]
      OBVIOUS
    <2>2. /\ x \in Worker /\ x.pc = "storing" /\ x.msg = m
          /\ x.buffer = Tail(worker[w].buffer)
          /\ x.ended = "running" /\ x.connected = worker[w].connected
      BY <2>1, <1>2, <1>3 DEF Worker
    <2>3. /\ worker' = [worker EXCEPT ![w] = x]
          /\ UNCHANGED <<holder, rows>>
      BY <1>1, <1>5, <2>1 DEF Poll, IInv, TypeOK
    <2>4. Sound(w, x)
      BY <1>2, <1>3, <1>4, <2>2, <2>3 DEF Sound, Hand
    <2>5. holder' \in [Messages -> Holders]
      BY <2>3 DEF IInv, TypeOK
    <2> QED
      BY <2>3, <2>4, <2>5, QuietStep
  <1>6. CASE m \in Unreadable
    <2>1. PICK x : x = [worker[w] EXCEPT !.buffer = Tail(@)]
      OBVIOUS
    <2>2. /\ x \in Worker /\ x.pc = "polling"
          /\ x.buffer = Tail(worker[w].buffer)
          /\ x.ended = "running" /\ x.connected = worker[w].connected
      BY <2>1, <1>2, <1>3 DEF Worker
    <2>3. /\ worker' = [worker EXCEPT ![w] = x]
          /\ holder' = IF holder[m] = w
                       THEN [holder EXCEPT ![m] = "dead_lettered"] ELSE holder
          /\ UNCHANGED rows
      BY <1>1, <1>6, <2>1 DEF Poll, IInv, TypeOK
    <2>4. /\ holder' \in [Messages -> Holders]
          /\ \A n \in Messages, v \in Workers : holder'[n] = v => holder[n] = v
          /\ \A n \in Messages : holder'[n] = "acked" => holder[n] = "acked"
          /\ holder'[m] # w
      BY <1>3, <2>3, IngestAssumption
         DEF IngestAssumption, IInv, TypeOK, Holders
    <2>5. Sound(w, x)
      BY <1>2, <1>3, <1>4, <2>2, <2>4 DEF Sound, Hand
    <2> QED
      BY <2>3, <2>4, <2>5, QuietStep
  <1> QED
    BY <1>5, <1>6

LEMMA StoreStep ==
    ASSUME IInv, NEW w \in Workers, StoreSucceeds(w) \/ StoreFails(w)
    PROVE  IInv'
  <1>1. CASE StoreSucceeds(w)
    BY <1>1, StoringStep DEF StoreSucceeds
  <1>2. CASE StoreFails(w) /\ rows' = Inserted(worker[w].msg)
    BY <1>2, StoringStep DEF StoreFails
  <1>3. CASE StoreFails(w) /\ UNCHANGED rows
    <2>1. PICK x : x = [worker[w] EXCEPT !.pc = "nacking"]
      OBVIOUS
    <2>2. /\ worker[w] \in Worker
          /\ worker[w].ended = "running"
          /\ worker[w].pc = "storing"
      BY <1>3 DEF IInv, TypeOK, WorkerInv, StoreFails
    <2>3. /\ x \in Worker /\ x.pc = "nacking" /\ x.msg = worker[w].msg
          /\ x.buffer = worker[w].buffer
          /\ x.ended = "running" /\ x.connected = worker[w].connected
      BY <2>1, <2>2 DEF Worker
    <2>4. worker' = [worker EXCEPT ![w] = x] /\ UNCHANGED holder
      BY <1>3, <2>1 DEF StoreFails, Goto, IInv, TypeOK
    <2> QED
      BY <1>3, <2>2, <2>3, <2>4, MoveStep
  <1> QED
    BY <1>1, <1>2, <1>3 DEF StoreFails

(* The steps that move on or return with the buffer as it is.              *)
LEMMA GotoType ==
    ASSUME IInv, NEW w \in Workers, NEW p \in {"polling", "backoff", "closing"},
           Goto(w, p), worker[w].pc # "stopped"
    PROVE  \E x \in Worker :
               /\ worker' = [worker EXCEPT ![w] = x]
               /\ x.buffer = worker[w].buffer
               /\ x.pc = p
               /\ x.ended = "running"
               /\ x.connected = worker[w].connected
  <1>1. PICK x : x = [worker[w] EXCEPT !.pc = p]
    OBVIOUS
  <1>2. worker[w] \in Worker /\ worker[w].ended = "running"
    BY DEF IInv, TypeOK, WorkerInv
  <1>3. x \in Worker /\ x.buffer = worker[w].buffer /\ x.pc = p
        /\ x.ended = "running" /\ x.connected = worker[w].connected
    BY <1>1, <1>2 DEF Worker
  <1>4. worker' = [worker EXCEPT ![w] = x]
    BY <1>1 DEF Goto, IInv, TypeOK
  <1> QED
    BY <1>3, <1>4

LEMMA ReturnType ==
    ASSUME IInv, NEW w \in Workers, NEW how \in {"clean", "error"},
           Return(w, how)
    PROVE  \E x \in Worker :
               /\ worker' = [worker EXCEPT ![w] = x]
               /\ x.buffer = worker[w].buffer
               /\ x.pc = "stopped"
               /\ x.ended = how
               /\ x.connected = worker[w].connected
  <1>1. PICK x : x = [worker[w] EXCEPT !.pc = "stopped", !.ended = how]
    OBVIOUS
  <1>2. worker[w] \in Worker
    BY DEF IInv, TypeOK
  <1>3. x \in Worker /\ x.buffer = worker[w].buffer /\ x.pc = "stopped"
        /\ x.ended = how /\ x.connected = worker[w].connected
    BY <1>1, <1>2 DEF Worker
  <1>4. worker' = [worker EXCEPT ![w] = x]
    BY <1>1 DEF Return, IInv, TypeOK
  <1> QED
    BY <1>3, <1>4

LEMMA ReturnStep ==
    ASSUME IInv, NEW w \in Workers, NEW how \in {"clean", "error"},
           Return(w, how), UNCHANGED <<holder, rows>>,
           worker[w].pc # "stopped",
           how = "clean" => InHand(w) = {}
    PROVE  IInv'
  BY ReturnType, MoveStep

LEMMA GotoStep ==
    ASSUME IInv, NEW w \in Workers, NEW p \in {"polling", "backoff", "closing"},
           Goto(w, p), UNCHANGED rows,
           worker[w].pc # "stopped",
           \/ InHand(w) = {} /\ UNCHANGED holder
           \/ /\ worker[w].pc \in {"acking", "nacking"}
              /\ \/ holder' = [holder EXCEPT ![worker[w].msg] = "ready"]
                 \/ /\ holder' = [holder EXCEPT ![worker[w].msg] = "acked"]
                    /\ worker[w].pc = "acking"
    PROVE  IInv'
  BY GotoType, MoveStep

LEMMA LoopStep ==
    ASSUME IInv, NEW w \in Workers, Loop(w)
    PROVE  IInv'
  <1>1. CASE Poll(w)
    BY <1>1, PollStep
  <1>2. CASE StreamEnds(w)
    <2>1. InHand(w) = {}
      BY <1>2 DEF StreamEnds, InHand
    <2>2. CASE Return(w, "error")
      BY <1>2, <2>1, <2>2, ReturnStep DEF StreamEnds
    <2>3. CASE Goto(w, "closing")
      BY <1>2, <2>1, <2>3, GotoStep DEF StreamEnds
    <2> QED
      BY <1>2, <2>2, <2>3 DEF StreamEnds
  <1>3. CASE StoreSucceeds(w) \/ StoreFails(w)
    BY <1>3, StoreStep
  <1>4. CASE StorePanics(w)
    BY <1>4, ReturnStep DEF StorePanics
  <1>5. CASE Ack(w)
    <2>1. CASE worker[w].connected
      BY <1>5, <2>1, GotoStep DEF Ack
    <2>2. CASE ~ worker[w].connected
      BY <1>5, <2>2, ReturnStep DEF Ack
    <2> QED
      BY <2>1, <2>2
  <1>6. CASE Nack(w)
    <2>1. CASE worker[w].connected
      BY <1>6, <2>1, GotoStep DEF Nack
    <2>2. CASE ~ worker[w].connected
      BY <1>6, <2>2, ReturnStep DEF Nack
    <2> QED
      BY <2>1, <2>2
  <1>7. CASE AckLost(w)
    <2>1. PICK x : x = [worker[w] EXCEPT !.pc = "polling", !.connected = FALSE]
      OBVIOUS
    <2>2. worker[w] \in Worker /\ worker[w].ended = "running" /\ worker[w].pc # "stopped"
      BY <1>7 DEF IInv, TypeOK, WorkerInv, AckLost
    <2>3. x \in Worker /\ x.buffer = worker[w].buffer /\ x.pc = "polling"
          /\ x.ended = "running"
      BY <2>1, <2>2 DEF Worker
    <2>4. worker' = [worker EXCEPT ![w] = x]
      BY <1>7, <2>1 DEF AckLost, IInv, TypeOK
    <2> QED
      BY <1>7, <2>2, <2>3, <2>4, MoveStep DEF AckLost
  <1>8. CASE BackoffEnds(w)
    <2>1. InHand(w) = {}
      BY <1>8 DEF BackoffEnds, InHand
    <2>2. CASE Goto(w, "polling") /\ worker[w].pc = "backoff"
      BY <1>8, <2>1, <2>2, GotoStep DEF BackoffEnds
    <2>3. CASE Return(w, "error") /\ worker[w].pc = "closing"
      BY <1>8, <2>1, <2>3, ReturnStep DEF BackoffEnds
    <2> QED
      BY <1>8, <2>2, <2>3 DEF BackoffEnds
  <1>9. CASE Stop(w)
    <2>1. InHand(w) = {}
      BY <1>9 DEF Stop, InHand
    <2> QED
      BY <1>9, <2>1, ReturnStep DEF Stop
  <1> QED
    BY <1>1, <1>2, <1>3, <1>4, <1>5, <1>6, <1>7, <1>8, <1>9 DEF Loop, Settle

LEMMA OutsideStep ==
    ASSUME IInv, NEW w \in Workers,
           ChannelCloses(w) \/ Cancel(w) \/ Crash(w) \/ Restart(w)
    PROVE  IInv'
  <1>1. /\ worker[w] \in Worker
        /\ worker[w].pc # "stopped" => worker[w].ended = "running"
        /\ worker[w].pc \in {"storing", "acking", "nacking"} =>
               worker[w].msg \in Messages
        /\ worker[w].pc = "acking" => Recorded(worker[w].msg)
        /\ ~ worker[w].connected => \A m \in Messages : holder[m] # w
    BY DEF IInv, TypeOK, WorkerInv
  <1>2. CASE ChannelCloses(w)
    <2>1. PICK x : x = [worker[w] EXCEPT !.connected = FALSE]
      OBVIOUS
    <2>2. /\ x \in Worker /\ x.pc = worker[w].pc /\ x.msg = worker[w].msg
          /\ x.ended = worker[w].ended
      BY <2>1, <1>1 DEF Worker
    <2>3. /\ worker' = [worker EXCEPT ![w] = x]
          /\ holder' = Requeued(w)
          /\ UNCHANGED rows
      BY <1>2, <2>1 DEF ChannelCloses, IInv, TypeOK
    <2>4. /\ holder' \in [Messages -> Holders]
          /\ \A m \in Messages : holder'[m] # w
          /\ \A m \in Messages, v \in Workers :
                 v # w /\ holder'[m] = v => holder[m] = v
          /\ \A m \in Messages : holder'[m] = "acked" => holder[m] = "acked"
      BY <2>3, RequeuedHolder
    <2>5. x.pc = "acking" => Recorded(x.msg)'
      BY <1>1, <2>2, <2>3 DEF Recorded, Stored
    <2>6. Sound(w, x)
      BY <1>1, <2>2, <2>4, <2>5 DEF Sound
    <2> QED
      BY <2>3, <2>4, <2>6, QuietStep
  <1>3. CASE Cancel(w)
    <2>1. PICK x : x = [worker[w] EXCEPT !.cancelled = TRUE]
      OBVIOUS
    <2>2. /\ x \in Worker /\ x.pc = worker[w].pc /\ x.msg = worker[w].msg
          /\ x.buffer = worker[w].buffer
          /\ x.ended = worker[w].ended /\ x.connected = worker[w].connected
      BY <2>1, <1>1 DEF Worker
    <2>3. worker' = [worker EXCEPT ![w] = x] /\ UNCHANGED <<holder, rows>>
      BY <1>3, <2>1 DEF Cancel, IInv, TypeOK
    <2>4. holder' \in [Messages -> Holders]
      BY <2>3 DEF IInv, TypeOK
    <2>5. x.pc = "acking" => Recorded(x.msg)'
      BY <1>1, <2>2, <2>3 DEF Recorded, Stored
    <2>6. x.ended # "error" =>
              \A m \in Messages : holder'[m] = w => m \in Hand(x) \cup Range(x.buffer)
      BY <2>2, <2>3 DEF IInv, NoneForgotten, Forgotten, Outstanding, InHand, Hand
    <2>7. Sound(w, x)
      BY <1>1, <2>2, <2>3, <2>5, <2>6 DEF Sound
    <2> QED
      BY <2>3, <2>4, <2>7, QuietStep
  <1>4. CASE Crash(w)
    <2>1. PICK x : x = [worker[w] EXCEPT !.pc = "stopped", !.connected = FALSE,
                                         !.ended = "crash"]
      OBVIOUS
    <2>2. /\ x \in Worker /\ x.pc = "stopped" /\ x.buffer = worker[w].buffer
      BY <2>1, <1>1 DEF Worker
    <2>3. worker' = [worker EXCEPT ![w] = x]
      BY <1>4, <2>1 DEF Crash, IInv, TypeOK
    <2> QED
      BY <1>4, <2>2, <2>3, MoveStep DEF Crash
  <1>5. CASE Restart(w)
    <2>1. PICK x : x = StartedWorker
      OBVIOUS
    <2>2. /\ x \in Worker /\ x.pc = "polling" /\ x.ended = "running" /\ x.connected
      BY <2>1, StartedWorkerType
    <2>3. worker' = [worker EXCEPT ![w] = x] /\ UNCHANGED <<holder, rows>>
      BY <1>5, <2>1 DEF Restart
    <2>4. \A m \in Messages : holder'[m] # w
      BY <1>1, <1>5, <2>3 DEF Restart
    <2>5. Sound(w, x)
      BY <2>2, <2>4 DEF Sound
    <2>6. holder' \in [Messages -> Holders]
      BY <2>3 DEF IInv, TypeOK
    <2> QED
      BY <2>3, <2>5, <2>6, QuietStep
  <1> QED
    BY <1>2, <1>3, <1>4, <1>5

LEMMA NextInv == IInv /\ [Next]_vars => IInv'
  <1> SUFFICES ASSUME IInv, [Next]_vars PROVE IInv'
    OBVIOUS
  <1>1. CASE UNCHANGED vars
    BY <1>1 DEF vars, IInv, TypeOK, WorkerInv, AckedIsStored, OneRowPerKey,
                NoneForgotten, Forgotten, Outstanding, InHand, Recorded, Stored
  <1>2. CASE Next
    BY <1>2, PublishStep, DeliverStep, LoopStep, OutsideStep DEF Next
  <1> QED
    BY <1>1, <1>2

THEOREM Invariance == Spec => []IInv
  BY InitInv, NextInv, PTL DEF Spec

-----------------------------------------------------------------------------
(* The theorems.                                                           *)

(* The worker, the table and the broker's view stay well typed.            *)
THEOREM TypeCorrect == Spec => []TypeOK
  <1>1. IInv => TypeOK
    BY DEF IInv
  <1> QED
    BY <1>1, Invariance, PTL

(* A delivery is dead-lettered by the poll that cannot read it and by      *)
(* nothing else: a refused insert is returned to the queue.                *)
DeadIsUnreadable == \A m \in Messages : holder[m] = "dead_lettered" => m \in Unreadable

LEMMA DeadStep == TypeOK /\ DeadIsUnreadable /\ [Next]_vars => DeadIsUnreadable'
  <1> SUFFICES ASSUME TypeOK, DeadIsUnreadable, [Next]_vars,
                      NEW m \in Messages, holder'[m] = "dead_lettered",
                      holder[m] # "dead_lettered"
               PROVE  m \in Unreadable
    BY DEF DeadIsUnreadable
  <1>1. ASSUME NEW n \in Messages, Publish(n) PROVE FALSE
    BY <1>1 DEF Publish, TypeOK
  <1>2. ASSUME NEW w \in Workers, NEW n \in Messages, Deliver(w, n) PROVE FALSE
    BY <1>2, IngestAssumption DEF IngestAssumption, Deliver, TypeOK
  <1>3. ASSUME NEW w \in Workers, holder' = Requeued(w) PROVE FALSE
    BY <1>3 DEF Requeued
  <1>4. ASSUME NEW w \in Workers, Poll(w) PROVE m \in Unreadable
    BY <1>4 DEF Poll, TypeOK
  <1>5. ASSUME NEW w \in Workers, Settle(w) PROVE FALSE
    BY <1>5 DEF Settle, Ack, Nack, TypeOK
  <1>6. ASSUME UNCHANGED holder PROVE FALSE
    BY <1>6
  <1>7. ASSUME NEW w \in Workers, Loop(w) PROVE m \in Unreadable
    BY <1>3, <1>4, <1>5, <1>6, <1>7
       DEF Loop, StreamEnds, StoreSucceeds, StoreFails, StorePanics, AckLost,
           BackoffEnds, Stop
  <1> QED
    BY <1>1, <1>2, <1>3, <1>6, <1>7
       DEF Next, vars, ChannelCloses, Cancel, Crash, Restart

(* No message the broker has let go of is missing from the inbox unless it *)
(* could not be read, whatever crashed, panicked, was refused or got lost. *)
THEOREM SettledAreStored == Spec => []SettledIsStored
  <1>1. Init => DeadIsUnreadable
    BY DEF Init, DeadIsUnreadable
  <1>2. IInv => TypeOK
    BY DEF IInv
  <1>3. IInv /\ DeadIsUnreadable => SettledIsStored
    BY DEF IInv, DeadIsUnreadable, SettledIsStored
  <1> QED
    BY <1>1, <1>2, <1>3, DeadStep, Invariance, PTL DEF Spec

(* No redelivery stores an id twice.                                       *)
THEOREM KeysAreStoredOnce == Spec => []OneRowPerKey
  <1>1. IInv => OneRowPerKey
    BY DEF IInv
  <1> QED
    BY <1>1, Invariance, PTL

(* What the broker counts as outstanding with a worker that did not return *)
(* an error is in that worker's hand or buffer.                            *)
THEOREM NothingIsForgotten == Spec => []NoneForgotten
  <1>1. IInv => NoneForgotten
    BY DEF IInv
  <1> QED
    BY <1>1, Invariance, PTL

=============================================================================
