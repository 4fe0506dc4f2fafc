---------------------------- MODULE KernelProofs ----------------------------
(***************************************************************************)
(* Theorems about Kernel for every application (any handlers, subscribers  *)
(* and conversions), any number of callers, workers, rows, rounds, retries *)
(* and faults.                                                             *)
(***************************************************************************)
EXTENDS Kernel, FiniteSetTheorems, TLAPS

-----------------------------------------------------------------------------
(* The types of all but the open reservations, which come last.            *)
CoreType ==
    /\ rows \in [Queues -> [Ids -> Row]]
    /\ agent \in [Agents -> Agent]
    /\ heard \subseteq Nat \X Nat \X Nat
    /\ faults \in Nat

(* An agent is a record that an action changes field by field.             *)
PCs == {"idle", "reserving", "selected", "batch", "converting", "working",
        "emitting", "notifying", "completing", "failing", "returned", "gone"}

Fields == {"pc", "queue", "todo", "item", "lease", "out", "sent", "round",
           "failed", "mine"}

LEMMA FieldType ==
    ASSUME NEW r \in Agent
    PROVE  /\ \A v \in PCs : [r EXCEPT !.pc = v] \in Agent
           /\ \A v \in Queues : [r EXCEPT !.queue = v] \in Agent
           /\ \A v \in SUBSET (Ids \X Nat) : [r EXCEPT !.todo = v] \in Agent
           /\ \A v \in Nat : [r EXCEPT !.item = v] \in Agent
           /\ \A v \in Nat : [r EXCEPT !.lease = v] \in Agent
           /\ \A v \in Seq(Data) : [r EXCEPT !.out = v] \in Agent
           /\ \A v \in Nat : [r EXCEPT !.sent = v] \in Agent
           /\ \A v \in Nat : [r EXCEPT !.round = v] \in Agent
           /\ \A v \in BOOLEAN : [r EXCEPT !.failed = v] \in Agent
           /\ \A v \in Ids \cup {0} : [r EXCEPT !.mine = v] \in Agent
  <1> DEFINE S == Seq(Data)
             T == SUBSET (Ids \X Nat)
             M == Ids \cup {0}
  <1>1. Agent = [pc : PCs, queue : Queues, todo : T, item : Nat, lease : Nat,
                 out : S, sent : Nat, round : Nat, failed : BOOLEAN, mine : M]
    BY DEF Agent, PCs
  <1> HIDE DEF S, T, M
  <1>2. \A v \in PCs : [r EXCEPT !.pc = v] \in Agent
    BY <1>1
  <1>3. \A v \in Queues : [r EXCEPT !.queue = v] \in Agent
    BY <1>1
  <1>4. \A v \in T : [r EXCEPT !.todo = v] \in Agent
    BY <1>1
  <1>5. \A v \in Nat : [r EXCEPT !.item = v] \in Agent
    BY <1>1
  <1>6. \A v \in Nat : [r EXCEPT !.lease = v] \in Agent
    BY <1>1
  <1>7. \A v \in S : [r EXCEPT !.out = v] \in Agent
    BY <1>1
  <1>8. \A v \in Nat : [r EXCEPT !.sent = v] \in Agent
    BY <1>1
  <1>9. \A v \in Nat : [r EXCEPT !.round = v] \in Agent
    BY <1>1
  <1>10. \A v \in BOOLEAN : [r EXCEPT !.failed = v] \in Agent
    BY <1>1
  <1>11. \A v \in M : [r EXCEPT !.mine = v] \in Agent
    BY <1>1
  <1> USE DEF S, T, M
  <1> QED
    BY <1>2, <1>3, <1>4, <1>5, <1>6, <1>7, <1>8, <1>9, <1>10, <1>11

(* g is f but for the field c of the agent a.                              *)
Sets(f, g, a, c, v) ==
    /\ g \in [Agents -> Agent]
    /\ \A b \in Agents \ {a} : g[b] = f[b]
    /\ g[a][c] = v
    /\ \A d \in Fields \ {c} : g[a][d] = f[a][d]

LEMMA FieldRead ==
    ASSUME NEW f \in [Agents -> Agent], NEW a \in Agents, NEW c \in Fields, NEW v,
           [f[a] EXCEPT ![c] = v] \in Agent
    PROVE  Sets(f, [f EXCEPT ![a][c] = v], a, c, v)
  BY DEF Agent, Fields, Sets

LEMMA FieldSet ==
    ASSUME NEW f \in [Agents -> Agent], NEW a \in Agents
    PROVE  /\ \A v \in PCs : Sets(f, [f EXCEPT ![a].pc = v], a, "pc", v)
           /\ \A v \in Queues : Sets(f, [f EXCEPT ![a].queue = v], a, "queue", v)
           /\ \A v \in SUBSET (Ids \X Nat) :
                 Sets(f, [f EXCEPT ![a].todo = v], a, "todo", v)
           /\ \A v \in Nat : Sets(f, [f EXCEPT ![a].item = v], a, "item", v)
           /\ \A v \in Nat : Sets(f, [f EXCEPT ![a].lease = v], a, "lease", v)
           /\ \A v \in Seq(Data) : Sets(f, [f EXCEPT ![a].out = v], a, "out", v)
           /\ \A v \in Nat : Sets(f, [f EXCEPT ![a].sent = v], a, "sent", v)
           /\ \A v \in Nat : Sets(f, [f EXCEPT ![a].round = v], a, "round", v)
           /\ \A v \in BOOLEAN : Sets(f, [f EXCEPT ![a].failed = v], a, "failed", v)
           /\ \A v \in Ids \cup {0} : Sets(f, [f EXCEPT ![a].mine = v], a, "mine", v)
  BY FieldType, FieldRead DEF Fields

(* An action of the agent a leaves the others where they are.              *)
Only(a) ==
    /\ agent' \in [Agents -> Agent]
    /\ \A b \in Agents \ {a} : agent'[b] = agent[b]

(* It leaves the fields F of its agent alone.                              *)
Keeps(a, F) == \A d \in F : agent'[a][d] = agent[a][d]

LEMMA PcMoves ==
    ASSUME CoreType, NEW a \in Agents,
           NEW p \in PCs,
           agent' = [agent EXCEPT ![a].pc = p]
    PROVE  /\ Only(a)
           /\ Keeps(a, {"queue", "todo", "item", "lease", "out", "sent", "round", "failed", "mine"})
           /\ agent'[a].pc = p
  <1> DEFINE f1 == [agent EXCEPT ![a].pc = p]
  <1>1. agent' = f1
    OBVIOUS
  <1>2. /\ agent \in [Agents -> Agent]
    BY KernelAssumption DEF KernelAssumption, CoreType, Agent, PCs, Queues
  <1>3. Sets(agent, f1, a, "pc", p)
    BY <1>2, FieldSet
  <1> HIDE DEF f1
  <1> QED
    BY <1>1, <1>3 DEF Sets, Only, Keeps, Fields

LEMMA SubmitMoves ==
    ASSUME CoreType, NEW a \in Agents,
           NEW p \in PCs,
           NEW i \in Ids,
           agent' = [agent EXCEPT ![a].pc = p, ![a].mine = i]
    PROVE  /\ Only(a)
           /\ Keeps(a, {"queue", "todo", "item", "lease", "out", "sent", "round", "failed"})
           /\ agent'[a].pc = p
           /\ agent'[a].mine = i
  <1> DEFINE f1 == [agent EXCEPT ![a].pc = p]
             f2 == [f1 EXCEPT ![a].mine = i]
  <1>1. agent' = f2
    OBVIOUS
  <1>2. /\ agent \in [Agents -> Agent]
    BY KernelAssumption DEF KernelAssumption, CoreType, Agent, PCs, Queues
  <1>3. Sets(agent, f1, a, "pc", p)
    BY <1>2, FieldSet
  <1>4. Sets(f1, f2, a, "mine", i)
    <2>1. f1 \in [Agents -> Agent]
      BY <1>3 DEF Sets
    <2> HIDE DEF f1
    <2> QED
      BY <1>2, <2>1, FieldSet
  <1> HIDE DEF f1, f2
  <1> QED
    BY <1>1, <1>3, <1>4 DEF Sets, Only, Keeps, Fields

LEMMA ReserveMoves ==
    ASSUME CoreType, NEW a \in Agents,
           NEW T \in SUBSET (Ids \X Nat),
           agent' = [agent EXCEPT ![a].pc = "batch", ![a].todo = T]
    PROVE  /\ Only(a)
           /\ Keeps(a, {"queue", "item", "lease", "out", "sent", "round", "failed", "mine"})
           /\ agent'[a].pc = "batch"
           /\ agent'[a].todo = T
  <1> DEFINE f1 == [agent EXCEPT ![a].pc = "batch"]
             f2 == [f1 EXCEPT ![a].todo = T]
  <1>1. agent' = f2
    OBVIOUS
  <1>2. /\ agent \in [Agents -> Agent]
        /\ "batch" \in PCs
    BY KernelAssumption DEF KernelAssumption, CoreType, Agent, PCs, Queues
  <1>3. Sets(agent, f1, a, "pc", "batch")
    BY <1>2, FieldSet
  <1>4. Sets(f1, f2, a, "todo", T)
    <2>1. f1 \in [Agents -> Agent]
      BY <1>3 DEF Sets
    <2> HIDE DEF f1
    <2> QED
      BY <1>2, <2>1, FieldSet
  <1> HIDE DEF f1, f2
  <1> QED
    BY <1>1, <1>3, <1>4 DEF Sets, Only, Keeps, Fields

LEMMA BeginMoves ==
    ASSUME CoreType, NEW a \in Agents,
           NEW l \in agent[a].todo,
           NEW p \in PCs,
           agent' = [agent EXCEPT ![a].pc = p, ![a].item = l[1], ![a].lease = l[2],
                                  ![a].todo = @ \ {l}]
    PROVE  /\ Only(a)
           /\ Keeps(a, {"queue", "out", "sent", "round", "failed", "mine"})
           /\ agent'[a].pc = p
           /\ agent'[a].item = l[1]
           /\ agent'[a].lease = l[2]
           /\ agent'[a].todo = agent[a].todo \ {l}
  <1> DEFINE f1 == [agent EXCEPT ![a].pc = p]
             f2 == [f1 EXCEPT ![a].item = l[1]]
             f3 == [f2 EXCEPT ![a].lease = l[2]]
             f4 == [f3 EXCEPT ![a].todo = f3[a].todo \ {l}]
  <1>1. agent' = f4
    OBVIOUS
  <1>2. /\ agent \in [Agents -> Agent]
        /\ l \in Ids \X Nat /\ l[1] \in Nat /\ l[2] \in Nat
        /\ agent[a].todo \ {l} \in SUBSET (Ids \X Nat)
    BY KernelAssumption DEF KernelAssumption, CoreType, Agent, PCs, Queues
  <1>3. Sets(agent, f1, a, "pc", p)
    BY <1>2, FieldSet
  <1>4. Sets(f1, f2, a, "item", l[1])
    <2>1. f1 \in [Agents -> Agent]
      BY <1>3 DEF Sets
    <2> HIDE DEF f1
    <2> QED
      BY <1>2, <2>1, FieldSet
  <1>5. Sets(f2, f3, a, "lease", l[2])
    <2>1. f2 \in [Agents -> Agent]
      BY <1>4 DEF Sets
    <2> HIDE DEF f1, f2
    <2> QED
      BY <1>2, <2>1, FieldSet
  <1>6. Sets(f3, f4, a, "todo", f3[a].todo \ {l})
    <2>1. f3 \in [Agents -> Agent]
      BY <1>5 DEF Sets
    <2>2. f3[a].todo = agent[a].todo
      BY <1>3, <1>4, <1>5 DEF Sets, Fields
    <2> HIDE DEF f1, f2, f3
    <2> QED
      BY <1>2, <2>1, <2>2, FieldSet
  <1> HIDE DEF f1, f2, f3, f4
  <1>7. Only(a)
    BY ZenonT(60), <1>1, <1>3, <1>4, <1>5, <1>6 DEF Sets, Only
  <1>8. agent'[a].pc = p
    BY <1>1, <1>3, <1>4, <1>5, <1>6 DEF Sets, Fields
  <1>9. agent'[a].item = l[1]
    BY <1>1, <1>3, <1>4, <1>5, <1>6 DEF Sets, Fields
  <1>10. agent'[a].lease = l[2]
    BY <1>1, <1>3, <1>4, <1>5, <1>6 DEF Sets, Fields
  <1>11. agent'[a].todo = agent[a].todo \ {l}
    BY <1>1, <1>3, <1>4, <1>5, <1>6 DEF Sets, Fields
  <1>12. agent'[a].queue = agent[a].queue
    BY <1>1, <1>3, <1>4, <1>5, <1>6 DEF Sets, Fields
  <1>13. agent'[a].out = agent[a].out
    BY <1>1, <1>3, <1>4, <1>5, <1>6 DEF Sets, Fields
  <1>14. agent'[a].sent = agent[a].sent
    BY <1>1, <1>3, <1>4, <1>5, <1>6 DEF Sets, Fields
  <1>15. agent'[a].round = agent[a].round
    BY <1>1, <1>3, <1>4, <1>5, <1>6 DEF Sets, Fields
  <1>16. agent'[a].failed = agent[a].failed
    BY <1>1, <1>3, <1>4, <1>5, <1>6 DEF Sets, Fields
  <1>17. agent'[a].mine = agent[a].mine
    BY <1>1, <1>3, <1>4, <1>5, <1>6 DEF Sets, Fields
  <1> QED
    BY <1>7, <1>8, <1>9, <1>10, <1>11, <1>12, <1>13, <1>14, <1>15, <1>16, <1>17 DEF Keeps

LEMMA ReturnMoves ==
    ASSUME CoreType, NEW a \in Agents,
           NEW p \in PCs,
           NEW events \in Seq(Data),
           agent' = [agent EXCEPT ![a].pc = p, ![a].out = events]
    PROVE  /\ Only(a)
           /\ Keeps(a, {"queue", "todo", "item", "lease", "sent", "round", "failed", "mine"})
           /\ agent'[a].pc = p
           /\ agent'[a].out = events
  <1> DEFINE f1 == [agent EXCEPT ![a].pc = p]
             f2 == [f1 EXCEPT ![a].out = events]
  <1>1. agent' = f2
    OBVIOUS
  <1>2. /\ agent \in [Agents -> Agent]
    BY KernelAssumption DEF KernelAssumption, CoreType, Agent, PCs, Queues
  <1>3. Sets(agent, f1, a, "pc", p)
    BY <1>2, FieldSet
  <1>4. Sets(f1, f2, a, "out", events)
    <2>1. f1 \in [Agents -> Agent]
      BY <1>3 DEF Sets
    <2> HIDE DEF f1
    <2> QED
      BY <1>2, <2>1, FieldSet
  <1> HIDE DEF f1, f2
  <1> QED
    BY <1>1, <1>3, <1>4 DEF Sets, Only, Keeps, Fields

LEMMA SendMoves ==
    ASSUME CoreType, NEW a \in Agents,
           NEW k \in Nat,
           NEW p \in PCs,
           agent' = [agent EXCEPT ![a].sent = k, ![a].pc = p]
    PROVE  /\ Only(a)
           /\ Keeps(a, {"queue", "todo", "item", "lease", "out", "round", "failed", "mine"})
           /\ agent'[a].sent = k
           /\ agent'[a].pc = p
  <1> DEFINE f1 == [agent EXCEPT ![a].sent = k]
             f2 == [f1 EXCEPT ![a].pc = p]
  <1>1. agent' = f2
    OBVIOUS
  <1>2. /\ agent \in [Agents -> Agent]
    BY KernelAssumption DEF KernelAssumption, CoreType, Agent, PCs, Queues
  <1>3. Sets(agent, f1, a, "sent", k)
    BY <1>2, FieldSet
  <1>4. Sets(f1, f2, a, "pc", p)
    <2>1. f1 \in [Agents -> Agent]
      BY <1>3 DEF Sets
    <2> HIDE DEF f1
    <2> QED
      BY <1>2, <2>1, FieldSet
  <1> HIDE DEF f1, f2
  <1> QED
    BY <1>1, <1>3, <1>4 DEF Sets, Only, Keeps, Fields

LEMMA StopMoves ==
    ASSUME CoreType, NEW a \in Agents,
           agent' = [agent EXCEPT ![a].pc = "returned", ![a].failed = TRUE]
    PROVE  /\ Only(a)
           /\ Keeps(a, {"queue", "todo", "item", "lease", "out", "sent", "round", "mine"})
           /\ agent'[a].pc = "returned"
           /\ agent'[a].failed = TRUE
  <1> DEFINE f1 == [agent EXCEPT ![a].pc = "returned"]
             f2 == [f1 EXCEPT ![a].failed = TRUE]
  <1>1. agent' = f2
    OBVIOUS
  <1>2. /\ agent \in [Agents -> Agent]
        /\ "returned" \in PCs /\ TRUE \in BOOLEAN
    BY KernelAssumption DEF KernelAssumption, CoreType, Agent, PCs, Queues
  <1>3. Sets(agent, f1, a, "pc", "returned")
    BY <1>2, FieldSet
  <1>4. Sets(f1, f2, a, "failed", TRUE)
    <2>1. f1 \in [Agents -> Agent]
      BY <1>3 DEF Sets
    <2> HIDE DEF f1
    <2> QED
      BY <1>2, <2>1, FieldSet
  <1> HIDE DEF f1, f2
  <1> QED
    BY <1>1, <1>3, <1>4 DEF Sets, Only, Keeps, Fields

LEMMA RoundMoves ==
    ASSUME CoreType, NEW a \in Agents,
           NEW p \in PCs,
           NEW q \in Queues,
           NEW n \in Nat,
           agent' = [agent EXCEPT ![a].pc = p, ![a].queue = q, ![a].round = n]
    PROVE  /\ Only(a)
           /\ Keeps(a, {"todo", "item", "lease", "out", "sent", "failed", "mine"})
           /\ agent'[a].pc = p
           /\ agent'[a].queue = q
           /\ agent'[a].round = n
  <1> DEFINE f1 == [agent EXCEPT ![a].pc = p]
             f2 == [f1 EXCEPT ![a].queue = q]
             f3 == [f2 EXCEPT ![a].round = n]
  <1>1. agent' = f3
    OBVIOUS
  <1>2. /\ agent \in [Agents -> Agent]
    BY KernelAssumption DEF KernelAssumption, CoreType, Agent, PCs, Queues
  <1>3. Sets(agent, f1, a, "pc", p)
    BY <1>2, FieldSet
  <1>4. Sets(f1, f2, a, "queue", q)
    <2>1. f1 \in [Agents -> Agent]
      BY <1>3 DEF Sets
    <2> HIDE DEF f1
    <2> QED
      BY <1>2, <2>1, FieldSet
  <1>5. Sets(f2, f3, a, "round", n)
    <2>1. f2 \in [Agents -> Agent]
      BY <1>4 DEF Sets
    <2> HIDE DEF f1, f2
    <2> QED
      BY <1>2, <2>1, FieldSet
  <1> HIDE DEF f1, f2, f3
  <1>6. Only(a)
    BY ZenonT(60), <1>1, <1>3, <1>4, <1>5 DEF Sets, Only
  <1>7. agent'[a].pc = p
    BY <1>1, <1>3, <1>4, <1>5 DEF Sets, Fields
  <1>8. agent'[a].queue = q
    BY <1>1, <1>3, <1>4, <1>5 DEF Sets, Fields
  <1>9. agent'[a].round = n
    BY <1>1, <1>3, <1>4, <1>5 DEF Sets, Fields
  <1>10. agent'[a].todo = agent[a].todo
    BY <1>1, <1>3, <1>4, <1>5 DEF Sets, Fields
  <1>11. agent'[a].item = agent[a].item
    BY <1>1, <1>3, <1>4, <1>5 DEF Sets, Fields
  <1>12. agent'[a].lease = agent[a].lease
    BY <1>1, <1>3, <1>4, <1>5 DEF Sets, Fields
  <1>13. agent'[a].out = agent[a].out
    BY <1>1, <1>3, <1>4, <1>5 DEF Sets, Fields
  <1>14. agent'[a].sent = agent[a].sent
    BY <1>1, <1>3, <1>4, <1>5 DEF Sets, Fields
  <1>15. agent'[a].failed = agent[a].failed
    BY <1>1, <1>3, <1>4, <1>5 DEF Sets, Fields
  <1>16. agent'[a].mine = agent[a].mine
    BY <1>1, <1>3, <1>4, <1>5 DEF Sets, Fields
  <1> QED
    BY <1>6, <1>7, <1>8, <1>9, <1>10, <1>11, <1>12, <1>13, <1>14, <1>15, <1>16 DEF Keeps

LEMMA DoneMoves ==
    ASSUME CoreType, NEW a \in Agents,
           NEW p \in PCs,
           NEW f \in BOOLEAN,
           agent' = [agent EXCEPT ![a].pc = p, ![a].item = 0, ![a].lease = 0,
                                  ![a].out = <<>>, ![a].sent = 0,
                                  ![a].failed = f]
    PROVE  /\ Only(a)
           /\ Keeps(a, {"queue", "todo", "round", "mine"})
           /\ agent'[a].pc = p
           /\ agent'[a].item = 0
           /\ agent'[a].lease = 0
           /\ agent'[a].out = <<>>
           /\ agent'[a].sent = 0
           /\ agent'[a].failed = f
  <1> DEFINE f1 == [agent EXCEPT ![a].pc = p]
             f2 == [f1 EXCEPT ![a].item = 0]
             f3 == [f2 EXCEPT ![a].lease = 0]
             f4 == [f3 EXCEPT ![a].out = <<>>]
             f5 == [f4 EXCEPT ![a].sent = 0]
             f6 == [f5 EXCEPT ![a].failed = f]
  <1>1. agent' = f6
    OBVIOUS
  <1>2. /\ agent \in [Agents -> Agent]
        /\ <<>> \in Seq(Data)
    BY KernelAssumption DEF KernelAssumption, CoreType, Agent, PCs, Queues
  <1>3. Sets(agent, f1, a, "pc", p)
    BY <1>2, FieldSet
  <1>4. Sets(f1, f2, a, "item", 0)
    <2>1. f1 \in [Agents -> Agent]
      BY <1>3 DEF Sets
    <2> HIDE DEF f1
    <2> QED
      BY <1>2, <2>1, FieldSet
  <1>5. Sets(f2, f3, a, "lease", 0)
    <2>1. f2 \in [Agents -> Agent]
      BY <1>4 DEF Sets
    <2> HIDE DEF f1, f2
    <2> QED
      BY <1>2, <2>1, FieldSet
  <1>6. Sets(f3, f4, a, "out", <<>>)
    <2>1. f3 \in [Agents -> Agent]
      BY <1>5 DEF Sets
    <2> HIDE DEF f1, f2, f3
    <2> QED
      BY <1>2, <2>1, FieldSet
  <1>7. Sets(f4, f5, a, "sent", 0)
    <2>1. f4 \in [Agents -> Agent]
      BY <1>6 DEF Sets
    <2> HIDE DEF f1, f2, f3, f4
    <2> QED
      BY <1>2, <2>1, FieldSet
  <1>8. Sets(f5, f6, a, "failed", f)
    <2>1. f5 \in [Agents -> Agent]
      BY <1>7 DEF Sets
    <2> HIDE DEF f1, f2, f3, f4, f5
    <2> QED
      BY <1>2, <2>1, FieldSet
  <1> HIDE DEF f1, f2, f3, f4, f5, f6
  <1>9. Only(a)
    BY <1>1, <1>3, <1>4, <1>5, <1>6, <1>7, <1>8 DEF Sets, Only
  <1>10. agent'[a].pc = p
    BY <1>1, <1>3, <1>4, <1>5, <1>6, <1>7, <1>8 DEF Sets, Fields
  <1>11. agent'[a].item = 0
    BY <1>1, <1>3, <1>4, <1>5, <1>6, <1>7, <1>8 DEF Sets, Fields
  <1>12. agent'[a].lease = 0
    BY <1>1, <1>3, <1>4, <1>5, <1>6, <1>7, <1>8 DEF Sets, Fields
  <1>13. agent'[a].out = <<>>
    BY <1>1, <1>3, <1>4, <1>5, <1>6, <1>7, <1>8 DEF Sets, Fields
  <1>14. agent'[a].sent = 0
    BY <1>1, <1>3, <1>4, <1>5, <1>6, <1>7, <1>8 DEF Sets, Fields
  <1>15. agent'[a].failed = f
    BY <1>1, <1>3, <1>4, <1>5, <1>6, <1>7, <1>8 DEF Sets, Fields
  <1>16. agent'[a].queue = agent[a].queue
    BY <1>1, <1>3, <1>4, <1>5, <1>6, <1>7, <1>8 DEF Sets, Fields
  <1>17. agent'[a].todo = agent[a].todo
    BY <1>1, <1>3, <1>4, <1>5, <1>6, <1>7, <1>8 DEF Sets, Fields
  <1>18. agent'[a].round = agent[a].round
    BY <1>1, <1>3, <1>4, <1>5, <1>6, <1>7, <1>8 DEF Sets, Fields
  <1>19. agent'[a].mine = agent[a].mine
    BY <1>1, <1>3, <1>4, <1>5, <1>6, <1>7, <1>8 DEF Sets, Fields
  <1> QED
    BY <1>9, <1>10, <1>11, <1>12, <1>13, <1>14, <1>15, <1>16, <1>17, <1>18, <1>19 DEF Keeps

-----------------------------------------------------------------------------
(***************************************************************************)
(* The inductive invariant.  That a completed item is announced, delivered *)
(* or converted in full is known to its agent while it works (Progress),   *)
(* and is a fact about the table once the agent completes the row under    *)
(* the lease it worked under: no row forgets who recorded it, and a        *)
(* completed one is left alone (Grown).  That two rows never have the same *)
(* cause rests on leases: one belongs to one agent (LeaseOnce), none is    *)
(* above the row's count (LeaseBound), so a new lease has caused nothing   *)
(* yet, and an agent's next part is beyond what it has sent (CauseInv).    *)
(***************************************************************************)
Busy == {"converting", "working", "emitting", "notifying", "completing", "failing"}

Handing == {"converting", "working", "emitting", "notifying"}

RowInv ==
    \A q \in Queues : \A i \in Ids :
        /\ rows[q][i].status = "none" =>
               rows[q][i].by = NoCause /\ rows[q][i].attempts = 0
        /\ rows[q][i].status # "none" => rows[q][i].data \in Data
        /\ rows[q][i].status \in {"held", "done"} => rows[q][i].attempts > 0

Shape(x) ==
    /\ x.pc \in Busy => x.item \in Ids
    /\ x.pc = "converting" => x.queue = "inbox"
    /\ x.pc \in {"working", "emitting"} => x.queue = "command"
    /\ x.pc = "notifying" => x.queue = "event"
    /\ x.pc \notin Busy \/ x.pc \in {"converting", "working"} => x.sent = 0
    /\ x.pc = "emitting" => x.sent < Len(x.out)

AgentInv == \A a \in Agents : Shape(agent[a])

Progress(x) ==
    /\ x.queue = "command" /\ x.pc \in {"emitting", "completing"} =>
           \A k \in 1 .. x.sent :
               RecordedBy("event", <<"command", x.item, x.lease, k>>, x.out[k])
    /\ x.queue = "command" /\ x.pc = "completing" => x.sent = Len(x.out)
    /\ x.queue = "event" /\ x.pc \in {"notifying", "completing"} =>
           \A k \in 1 .. x.sent : <<x.item, x.lease, k>> \in heard
    /\ x.queue = "event" /\ x.pc = "notifying" =>
           x.sent < Subscribers(rows["event"][x.item].data)
    /\ x.queue = "event" /\ x.pc = "completing" =>
           x.sent = Subscribers(rows["event"][x.item].data)
    /\ x.queue = "inbox" /\ x.pc = "completing" =>
           RecordedBy("command", <<"inbox", x.item, x.lease, 1>>,
                      Route(rows["inbox"][x.item].data))

ProgressInv == \A a \in Agents : Progress(agent[a])

(* The leases an agent has, the one it works under included.               *)
Leases(x) == x.todo \cup (IF x.pc \in Busy THEN {<<x.item, x.lease>>} ELSE {})

LeaseBound ==
    \A a \in Agents : \A l \in Leases(agent[a]) :
        /\ l[1] \in Ids
        /\ rows[agent[a].queue][l[1]].status # "none"
        /\ l[2] <= rows[agent[a].queue][l[1]].attempts

LeaseOnce ==
    /\ \A a, b \in Agents :
          a # b /\ agent[a].queue = agent[b].queue =>
              Leases(agent[a]) \cap Leases(agent[b]) = {}
    /\ \A a \in Agents :
          agent[a].pc \in Busy => <<agent[a].item, agent[a].lease>> \notin agent[a].todo

(* What row i of q says of the agent that recorded it.                     *)
CausedOnce(q, i, a) ==
    LET c == rows[q][i].by
        x == agent[a]
    IN  c[1] = x.queue =>
            /\ <<c[2], c[3]>> \notin x.todo
            /\ /\ x.pc \in Handing
               /\ c[2] = x.item
               /\ c[3] = x.lease
               => c[4] <= x.sent

(* Who recorded row i of q: nobody, a caller, or the work of a lease.      *)
RowCause(q, i) ==
    LET c == rows[q][i].by IN
    /\ c[1] = "none" => c = NoCause
    /\ c[1] = "caller" => c = <<"caller", i, 0, 0>>
    /\ c[1] \in Queues => c[2] \in Ids /\ c[3] <= rows[c[1]][c[2]].attempts

CauseInv ==
    \A q \in Queues : \A i \in Ids :
        RowCause(q, i) /\ \A a \in Agents : CausedOnce(q, i, a)

Inv ==
    /\ CoreType
    /\ RowInv
    /\ AgentInv
    /\ ProgressInv
    /\ LeaseBound
    /\ LeaseOnce
    /\ CauseInv
    /\ CauseUnique
    /\ CompletedAnnounced
    /\ DeliveredToAll
    /\ MessageBecomesCommand

(* Rows that lie open and may be tried once more.                          *)
Leasable(q, S) ==
    /\ S \in SUBSET Ids
    /\ \A i \in S : rows[q][i].status = "open" /\ rows[q][i].attempts < MaxAttempts

(* What an open reservation has selected lies open until it ends, and is   *)
(* nobody else's.                                                          *)
LockInv ==
    /\ locks \in [Agents -> SUBSET Ids]
    /\ dropped \subseteq Ids
    /\ crowded \subseteq Callers
    /\ \A a \in Agents : locks[a] # {} => agent[a].pc = "selected"
    /\ \A a \in Agents : Leasable(agent[a].queue, locks[a])
    /\ \A a, b \in Agents :
          a # b /\ agent[a].queue = agent[b].queue => locks[a] \cap locks[b] = {}

LEMMA NoRowType ==
    /\ NoRow \in Row
    /\ NoRow.by = NoCause /\ NoRow.status = "none" /\ NoRow.attempts = 0
    /\ NoCause[1] = "none"
  <1>1. <<>> \in Seq(Data)
    OBVIOUS
  <1>2. NoCause \in (Queues \cup {"caller", "none"}) \X Nat \X Nat \X Nat
    BY DEF NoCause
  <1>3. 0 \in 0 .. MaxAttempts
    BY KernelAssumption DEF KernelAssumption
  <1> QED
    BY <1>1, <1>2, <1>3 DEF NoRow, Row, NoCause

LEMMA NewRowType ==
    ASSUME NEW data \in Data,
           NEW by \in (Queues \cup {"caller", "none"}) \X Nat \X Nat \X Nat
    PROVE  /\ NewRow(data, by) \in Row
           /\ NewRow(data, by).data = data
           /\ NewRow(data, by).status = "open"
           /\ NewRow(data, by).attempts = 0
           /\ NewRow(data, by).by = by
  BY NoRowType DEF NewRow, Row

LEMMA IdleOnType ==
    ASSUME NEW q \in Queues
    PROVE  /\ IdleOn(q) \in Agent
           /\ IdleOn(q).pc = "idle" /\ IdleOn(q).todo = {} /\ IdleOn(q).sent = 0
  <1>1. <<>> \in Seq(Data)
    OBVIOUS
  <1> QED
    BY <1>1 DEF IdleOn, Agent

LEMMA InitLocks == Init => LockInv
  BY IdleOnType DEF Init, LockInv, Leasable

LEMMA InitInv == Init => Inv
  <1> SUFFICES ASSUME Init PROVE Inv
    OBVIOUS
  <1>1. \A i \in Ids : \/ MailRow(i) = NoRow
                       \/ \E d \in Data : MailRow(i) = NewRow(d, NoCause)
    BY DEF MailRow
  <1>2. NoCause \in (Queues \cup {"caller", "none"}) \X Nat \X Nat \X Nat
    BY DEF NoCause
  <1>3. \A q \in Queues : \A i \in Ids :
           /\ rows[q][i] \in Row
           /\ rows[q][i].by = NoCause
           /\ rows[q][i].attempts = 0
           /\ \/ rows[q][i].status = "none"
              \/ rows[q][i].status = "open" /\ rows[q][i].data \in Data
    BY <1>1, <1>2, NoRowType, NewRowType DEF Init
  <1>5. \A a \in Agents : /\ agent[a] \in Agent
                          /\ agent[a].pc = "idle"
                          /\ agent[a].todo = {}
                          /\ agent[a].sent = 0
    BY IdleOnType DEF Init, HomeQueue, Queues
  <1>6. CoreType
    BY <1>3, <1>5 DEF Init, CoreType
  <1>7. RowInv /\ AgentInv /\ ProgressInv
    BY <1>3, <1>5 DEF RowInv, AgentInv, Shape, ProgressInv, Progress, Busy
  <1>8. LeaseBound /\ LeaseOnce
    BY <1>5 DEF LeaseBound, LeaseOnce, Leases, Busy
  <1>9. CauseInv /\ CauseUnique
    <2>1. NoCause[1] = "none" /\ "none" \notin Queues
      BY DEF NoCause, Queues
    <2>2. \A a \in Agents : agent[a].queue # "none"
      BY <1>6, <2>1 DEF CoreType, Agent
    <2> QED
      BY <1>3, <2>1, <2>2 DEF CauseInv, RowCause, CauseUnique, CausedOnce
  <1>10. CompletedAnnounced /\ DeliveredToAll /\ MessageBecomesCommand
    BY <1>3 DEF CompletedAnnounced, DeliveredToAll, MessageBecomesCommand, Queues
  <1> QED
    BY <1>6, <1>7, <1>8, <1>9, <1>10 DEF Inv

-----------------------------------------------------------------------------
(***************************************************************************)
(* The table: what each statement does to it.                              *)
(***************************************************************************)
Grown ==
    \A q \in Queues : \A i \in Ids :
        /\ rows[q][i].status # "none" =>
               /\ rows'[q][i].status # "none"
               /\ rows'[q][i].data = rows[q][i].data
               /\ rows'[q][i].by = rows[q][i].by
        /\ rows[q][i].attempts <= rows'[q][i].attempts
        /\ rows[q][i].status = "done" => rows'[q][i] = rows[q][i]

(* No row was recorded.                                                    *)
SameCauses ==
    \A q \in Queues : \A i \in Ids : rows'[q][i].by = rows[q][i].by

(* No row was completed.                                                   *)
NoneCompleted ==
    \A q \in Queues : \A i \in Ids :
        rows'[q][i].status = "done" => rows[q][i].status = "done"

TableOK == rows' \in [Queues -> [Ids -> Row]] /\ RowInv' /\ Grown

(* No row that lay open was leased.                                        *)
OpenStays ==
    \A q \in Queues : \A i \in Ids :
        rows[q][i].status = "open" =>
            rows'[q][i].status = "open" /\ rows'[q][i].attempts = rows[q][i].attempts

LEMMA RowColumn ==
    ASSUME NEW r \in Row
    PROVE  /\ \A v \in {"none", "open", "held", "done"} : [r EXCEPT !.status = v] \in Row
           /\ \A v \in 0 .. MaxAttempts : [r EXCEPT !.attempts = v] \in Row
           /\ \A v \in Seq(Data) : [r EXCEPT !.made = v] \in Row
  <1> DEFINE S == Seq(Data)
             C == (Queues \cup {"caller", "none"}) \X Nat \X Nat \X Nat
             D == Data \cup {NoData}
  <1>1. Row = [data : D, status : {"none", "open", "held", "done"},
               attempts : 0 .. MaxAttempts, by : C, made : S]
    BY DEF Row
  <1> HIDE DEF S, C, D
  <1>2. \A v \in {"none", "open", "held", "done"} : [r EXCEPT !.status = v] \in Row
    BY <1>1
  <1>3. \A v \in 0 .. MaxAttempts : [r EXCEPT !.attempts = v] \in Row
    BY <1>1
  <1>4. \A v \in S : [r EXCEPT !.made = v] \in Row
    BY <1>1
  <1> USE DEF S
  <1> QED
    BY <1>2, <1>3, <1>4

LEMMA SameTable ==
    ASSUME Inv, UNCHANGED rows
    PROVE  TableOK /\ SameCauses /\ NoneCompleted /\ OpenStays
  <1>1. \A q \in Queues : \A i \in Ids : rows[q][i].attempts \in Int
    BY DEF Inv, CoreType, Row
  <1> QED
    BY <1>1 DEF Inv, CoreType, TableOK, RowInv, Grown, SameCauses, NoneCompleted, OpenStays

LEMMA RecordTable ==
    ASSUME Inv, NEW q \in Queues, NEW n \in Unused(q), NEW data \in Data,
           NEW by \in (Queues \cup {"caller", "none"}) \X Nat \X Nat \X Nat,
           Record(q, n, data, by)
    PROVE  /\ TableOK /\ NoneCompleted /\ OpenStays
           /\ n \in Ids /\ rows[q][n].status = "none"
           /\ rows'[q][n].by = by /\ rows'[q][n].data = data
           /\ rows'[q][n].attempts = 0
           /\ rows'[q][n].status = "open"
           /\ \A p \in Queues : \A i \in Ids :
                 p # q \/ i # n => rows'[p][i] = rows[p][i]
  <1>1. n \in Ids /\ rows[q][n].status = "none"
    BY DEF Unused
  <1>2. rows' = [rows EXCEPT ![q][n] = NewRow(data, by)]
    BY DEF Record
  <1> DEFINE r == NewRow(data, by)
  <1>3. /\ r \in Row /\ r.data = data /\ r.status = "open"
        /\ r.attempts = 0 /\ r.by = by
    BY NewRowType
  <1>4. rows' = [rows EXCEPT ![q][n] = r]
    BY <1>2
  <1> HIDE DEF r
  <1>5. /\ rows'[q][n] = r
        /\ \A p \in Queues : \A i \in Ids :
              p # q \/ i # n => rows'[p][i] = rows[p][i]
        /\ rows' \in [Queues -> [Ids -> Row]]
    BY <1>1, <1>3, <1>4 DEF Inv, CoreType
  <1>6. RowInv'
    BY <1>3, <1>5 DEF Inv, RowInv
  <1>7. \A p \in Queues : \A i \in Ids : rows[p][i].attempts \in Int
    BY DEF Inv, CoreType, Row
  <1>8. rows[q][n].attempts = 0
    BY <1>1 DEF Inv, RowInv
  <1>9. Grown
    BY <1>1, <1>3, <1>5, <1>7, <1>8 DEF Grown
  <1>10. OpenStays
    BY <1>1, <1>5 DEF OpenStays
  <1> QED
    BY <1>1, <1>3, <1>5, <1>6, <1>9, <1>10 DEF TableOK, NoneCompleted

(* A row recorded under a key of its own.                                  *)
LEMMA NewKey ==
    ASSUME NEW q, NEW data, NEW by, RecordNew(q, data, by)
    PROVE  \E n \in Unused(q) : n = FreshId(q) /\ Record(q, n, data, by)
  <1>1. FreshId(q) \in Unused(q)
    BY DEF RecordNew, FreshId
  <1> QED
    BY <1>1 DEF RecordNew

LEMMA RecordNewTable ==
    ASSUME Inv, NEW q \in Queues, NEW data \in Data,
           NEW by \in (Queues \cup {"caller", "none"}) \X Nat \X Nat \X Nat,
           RecordNew(q, data, by)
    PROVE  /\ TableOK /\ NoneCompleted /\ OpenStays
           /\ FreshId(q) \in Ids
           /\ rows'[q][FreshId(q)].by = by /\ rows'[q][FreshId(q)].data = data
           /\ \A p \in Queues : \A i \in Ids :
                 p # q \/ i # FreshId(q) => rows'[p][i] = rows[p][i]
  BY NewKey, RecordTable

(* Some rows take another status, and perhaps one attempt more or what     *)
(* their handler returned.                                                 *)
LEMMA RewriteTable ==
    ASSUME Inv, NEW q \in Queues, NEW S \in SUBSET Ids,
           rows' \in [Queues -> [Ids -> Row]],
           \A p \in Queues : \A i \in Ids :
              p # q \/ i \notin S => rows'[p][i] = rows[p][i],
           \A i \in S :
              /\ rows[q][i].status \in {"open", "held"}
              /\ rows'[q][i].status # "none"
              /\ rows'[q][i].data = rows[q][i].data
              /\ rows'[q][i].by = rows[q][i].by
              /\ rows[q][i].attempts <= rows'[q][i].attempts
              /\ rows'[q][i].status \in {"held", "done"} => rows'[q][i].attempts > 0
    PROVE  TableOK /\ SameCauses
  <1>1. \A p \in Queues : \A i \in Ids : rows[p][i].attempts \in Int
    BY DEF Inv, CoreType, Row
  <1>2. RowInv'
    BY DEF Inv, RowInv
  <1>3. Grown
    BY <1>1 DEF Grown
  <1>4. SameCauses
    BY DEF SameCauses
  <1> QED
    BY <1>2, <1>3, <1>4 DEF TableOK

LEMMA LeaseTable ==
    ASSUME Inv, NEW q \in Queues, NEW S, Leasable(q, S), Lease(q, S)
    PROVE  /\ TableOK /\ SameCauses /\ NoneCompleted
           /\ S \subseteq Ids
           /\ \A i \in S : /\ rows[q][i].status = "open"
                           /\ rows'[q][i].attempts = rows[q][i].attempts + 1
           /\ \A p \in Queues : \A i \in Ids :
                 p # q \/ i \notin S => rows'[p][i] = rows[p][i]
  <1>1. /\ S \in SUBSET Ids
        /\ \A i \in S : rows[q][i].status = "open" /\ rows[q][i].attempts < MaxAttempts
    BY DEF Leasable
  <1>2. ASSUME NEW i \in S
        PROVE  LET r == [rows[q][i] EXCEPT !.status = "held", !.attempts = @ + 1] IN
               /\ r \in Row /\ r.status = "held"
               /\ r.attempts = rows[q][i].attempts + 1
               /\ r.data = rows[q][i].data /\ r.by = rows[q][i].by
    <2> DEFINE r0 == rows[q][i]
               r1 == [r0 EXCEPT !.status = "held"]
               r2 == [r1 EXCEPT !.attempts = r1.attempts + 1]
    <2>1. r0 \in Row /\ r0.attempts < MaxAttempts /\ r0.attempts \in 0 .. MaxAttempts
      BY <1>1 DEF Inv, CoreType, Row
    <2>2. r0.attempts + 1 \in 0 .. MaxAttempts
      BY <2>1, KernelAssumption DEF KernelAssumption
    <2> HIDE DEF r0
    <2>3. r1 \in Row /\ r1.attempts = r0.attempts
      BY <2>1, RowColumn DEF Row
    <2>4. r2 \in Row
      BY <2>2, <2>3, RowColumn
    <2>5. /\ r2.status = "held" /\ r2.attempts = r0.attempts + 1
          /\ r2.data = r0.data /\ r2.by = r0.by
      BY <2>1 DEF Row
    <2> QED
      BY <2>4, <2>5 DEF r0
  <1> DEFINE new(i) == [rows[q][i] EXCEPT !.status = "held", !.attempts = @ + 1]
  <1>3. \A i \in S : /\ new(i) \in Row /\ new(i).status = "held"
                     /\ new(i).attempts = rows[q][i].attempts + 1
                     /\ new(i).data = rows[q][i].data /\ new(i).by = rows[q][i].by
    BY <1>2
  <1>4. rows' = [rows EXCEPT ![q] = [i \in Ids |-> IF i \in S THEN new(i) ELSE rows[q][i]]]
    BY DEF Lease
  <1> HIDE DEF new
  <1>5. /\ \A p \in Queues : \A i \in Ids :
              p # q \/ i \notin S => rows'[p][i] = rows[p][i]
        /\ \A i \in S : rows'[q][i] = new(i)
    BY <1>1, <1>4 DEF Inv, CoreType
  <1>6. rows' \in [Queues -> [Ids -> Row]]
    BY <1>3, <1>4 DEF Inv, CoreType
  <1>7. \A i \in S : rows[q][i].attempts \in Nat
    BY <1>1 DEF Inv, CoreType, Row
  <1>8. TableOK /\ SameCauses
    <2>1. \A i \in S :
             /\ rows[q][i].status \in {"open", "held"}
             /\ rows'[q][i].status # "none"
             /\ rows'[q][i].data = rows[q][i].data
             /\ rows'[q][i].by = rows[q][i].by
             /\ rows[q][i].attempts <= rows'[q][i].attempts
             /\ rows'[q][i].status \in {"held", "done"} => rows'[q][i].attempts > 0
      BY <1>1, <1>3, <1>5, <1>7
    <2> QED
      BY <1>1, <1>5, <1>6, <2>1, RewriteTable
  <1>9. NoneCompleted
    BY <1>3, <1>5 DEF NoneCompleted
  <1> QED
    BY <1>1, <1>3, <1>5, <1>8, <1>9

(* One row is rewritten.                                                   *)
LEMMA OneRow ==
    ASSUME NEW q \in Queues, NEW n \in Ids, NEW r \in Row,
           rows \in [Queues -> [Ids -> Row]],
           rows' = [rows EXCEPT ![q][n] = r]
    PROVE  /\ rows'[q][n] = r
           /\ \A p \in Queues : \A i \in Ids :
                 p # q \/ i # n => rows'[p][i] = rows[p][i]
           /\ \A p \in Queues : \A i \in Ids :
                 p # q \/ i \notin {n} => rows'[p][i] = rows[p][i]
           /\ rows' \in [Queues -> [Ids -> Row]]
  OBVIOUS

LEMMA CompleteTable ==
    ASSUME Inv, NEW a \in Agents, agent[a].item \in Ids, Owned(a), CompleteRow(a)
    PROVE  LET q == agent[a].queue
               n == agent[a].item
           IN  /\ TableOK /\ SameCauses /\ OpenStays
               /\ rows'[q][n].status = "done"
               /\ rows'[q][n].made = agent[a].out
               /\ rows'[q][n].attempts = agent[a].lease
               /\ rows'[q][n].data = rows[q][n].data
               /\ \A p \in Queues : \A i \in Ids :
                     p # q \/ i # n => rows'[p][i] = rows[p][i]
  <1> PICK q \in Queues, n \in Ids : q = agent[a].queue /\ n = agent[a].item
    BY DEF Inv, CoreType, Agent
  <1>1. /\ rows[q][n] \in Row /\ rows[q][n].status = "held"
        /\ rows[q][n].attempts = agent[a].lease /\ rows[q][n].attempts > 0
    BY DEF Owned, Item, Inv, CoreType, RowInv
  <1>2. agent[a].out \in Seq(Data)
    BY DEF Inv, CoreType, Agent
  <1> DEFINE r0 == rows[q][n]
             r1 == [r0 EXCEPT !.status = "done"]
             r2 == [r1 EXCEPT !.made = agent[a].out]
             f  == [rows EXCEPT ![q][n].status = "done"]
  <1>3. rows' = [f EXCEPT ![q][n].made = agent[a].out]
    BY DEF CompleteRow
  <1>4. r0 \in Row
    BY <1>1
  <1>5. r1 \in Row
    BY <1>4, RowColumn
  <1>6. r2 \in Row
    BY <1>2, <1>5, RowColumn
  <1>7. /\ r2.status = "done" /\ r2.made = agent[a].out
        /\ r2.attempts = r0.attempts /\ r2.data = r0.data /\ r2.by = r0.by
    BY <1>4 DEF Row
  <1>8. f[q][n] = r1 /\ rows' = [rows EXCEPT ![q][n] = r2]
    BY <1>3 DEF Inv, CoreType
  <1> HIDE DEF r2, r1, f
  <1>9. /\ rows'[q][n] = r2
        /\ \A p \in Queues : \A i \in Ids :
              p # q \/ i # n => rows'[p][i] = rows[p][i]
        /\ \A p \in Queues : \A i \in Ids :
              p # q \/ i \notin {n} => rows'[p][i] = rows[p][i]
        /\ rows' \in [Queues -> [Ids -> Row]]
    BY <1>6, <1>8, OneRow DEF Inv, CoreType
  <1>10. r0.attempts \in Nat
    BY <1>1 DEF Row
  <1>11. TableOK /\ SameCauses
    <2>1. \A i \in {n} :
             /\ rows[q][i].status \in {"open", "held"}
             /\ rows'[q][i].status # "none"
             /\ rows'[q][i].data = rows[q][i].data
             /\ rows'[q][i].by = rows[q][i].by
             /\ rows[q][i].attempts <= rows'[q][i].attempts
             /\ rows'[q][i].status \in {"held", "done"} => rows'[q][i].attempts > 0
      BY <1>1, <1>7, <1>9, <1>10
    <2>2. {n} \in SUBSET Ids
      OBVIOUS
    <2> QED
      BY <1>9, <2>1, <2>2, RewriteTable
  <1>12. OpenStays
    BY <1>1, <1>9 DEF OpenStays
  <1> QED
    BY <1>1, <1>7, <1>9, <1>11, <1>12

LEMMA OpenRow ==
    ASSUME CoreType, NEW q \in Queues, NEW n \in Ids,
           rows' = [rows EXCEPT ![q][n].status = "open"]
    PROVE  \E r \in Row :
              /\ r.status = "open" /\ r.attempts = rows[q][n].attempts
              /\ r.data = rows[q][n].data /\ r.by = rows[q][n].by
              /\ rows' = [rows EXCEPT ![q][n] = r]
  <1> DEFINE r == [rows[q][n] EXCEPT !.status = "open"]
  <1>1. rows[q][n] \in Row
    BY DEF CoreType
  <1>2. r \in Row
    BY <1>1, RowColumn
  <1>3. /\ r.status = "open" /\ r.attempts = rows[q][n].attempts
        /\ r.data = rows[q][n].data /\ r.by = rows[q][n].by
    BY <1>1 DEF Row
  <1>4. rows' = [rows EXCEPT ![q][n] = r]
    BY DEF CoreType
  <1> QED
    BY <1>2, <1>3, <1>4

LEMMA ReopenTable ==
    ASSUME Inv, NEW q \in Queues, NEW n \in Ids, rows[q][n].status = "held",
           NEW r \in Row,
           r.status = "open" /\ r.attempts = rows[q][n].attempts,
           r.data = rows[q][n].data /\ r.by = rows[q][n].by,
           rows' = [rows EXCEPT ![q][n] = r]
    PROVE  TableOK /\ SameCauses /\ NoneCompleted /\ OpenStays
  <1>1. /\ rows'[q][n] = r
        /\ \A p \in Queues : \A i \in Ids :
              p # q \/ i # n => rows'[p][i] = rows[p][i]
        /\ \A p \in Queues : \A i \in Ids :
              p # q \/ i \notin {n} => rows'[p][i] = rows[p][i]
        /\ rows' \in [Queues -> [Ids -> Row]]
    BY OneRow DEF Inv, CoreType
  <1>2. rows[q][n].attempts \in Nat
    BY DEF Inv, CoreType, Row
  <1>3. TableOK /\ SameCauses
    <2>1. \A i \in {n} :
             /\ rows[q][i].status \in {"open", "held"}
             /\ rows'[q][i].status # "none"
             /\ rows'[q][i].data = rows[q][i].data
             /\ rows'[q][i].by = rows[q][i].by
             /\ rows[q][i].attempts <= rows'[q][i].attempts
             /\ rows'[q][i].status \in {"held", "done"} => rows'[q][i].attempts > 0
      BY <1>1, <1>2
    <2>2. PICK S \in SUBSET Ids : S = {n}
      OBVIOUS
    <2>3. /\ \A p \in Queues : \A i \in Ids :
                p # q \/ i \notin S => rows'[p][i] = rows[p][i]
          /\ \A i \in S :
                /\ rows[q][i].status \in {"open", "held"}
                /\ rows'[q][i].status # "none"
                /\ rows'[q][i].data = rows[q][i].data
                /\ rows'[q][i].by = rows[q][i].by
                /\ rows[q][i].attempts <= rows'[q][i].attempts
                /\ rows'[q][i].status \in {"held", "done"} =>
                       rows'[q][i].attempts > 0
      BY <1>1, <2>1, <2>2
    <2> QED
      BY SMTT(30), <1>1, <2>3, RewriteTable
  <1> QED
    <2>1. NoneCompleted /\ OpenStays
      BY <1>1 DEF NoneCompleted, OpenStays
    <2> QED
      BY <2>1, <1>3

-----------------------------------------------------------------------------
(***************************************************************************)
(* What an agent's step leaves as it was.                                  *)
(***************************************************************************)
LEMMA RecordedStays ==
    ASSUME Inv, Grown, NEW q \in Queues, NEW cause, NEW data,
           cause[1] # "none", RecordedBy(q, cause, data)
    PROVE  RecordedBy(q, cause, data)'
  <1>1. PICK i \in Ids : rows[q][i].by = cause /\ rows[q][i].data = data
    BY DEF RecordedBy
  <1>2. rows[q][i].status # "none"
    BY <1>1 DEF Inv, RowInv, NoCause
  <1>3. rows'[q][i].by = cause /\ rows'[q][i].data = data
    BY <1>1, <1>2 DEF Grown
  <1> QED
    BY <1>3 DEF RecordedBy

LEMMA ProgressStays ==
    ASSUME Inv, Grown, heard \subseteq heard', NEW x \in Agent,
           x.pc \in Busy => x.item \in Ids /\ rows[x.queue][x.item].status # "none",
           Progress(x)
    PROVE  Progress(x)'
  <1>1. CASE x.pc \in Busy
    <2>1. x.item \in Ids /\ x.queue \in Queues /\ rows[x.queue][x.item].status # "none"
      BY <1>1 DEF Agent
    <2>2. rows'[x.queue][x.item].data = rows[x.queue][x.item].data
      BY <2>1 DEF Grown
    <2>3. ASSUME x.queue = "command", x.pc \in {"emitting", "completing"},
                 NEW k \in 1 .. x.sent
          PROVE  RecordedBy("event", <<"command", x.item, x.lease, k>>, x.out[k])'
      <3>1. RecordedBy("event", <<"command", x.item, x.lease, k>>, x.out[k])
        BY <2>3 DEF Progress
      <3> QED
        BY <3>1, RecordedStays DEF Queues
    <2>4. ASSUME x.queue = "inbox", x.pc = "completing"
          PROVE  RecordedBy("command", <<"inbox", x.item, x.lease, 1>>,
                            Route(rows["inbox"][x.item].data))'
      <3>1. RecordedBy("command", <<"inbox", x.item, x.lease, 1>>,
                       Route(rows["inbox"][x.item].data))
        BY <2>4 DEF Progress
      <3> DEFINE d == Route(rows["inbox"][x.item].data)
      <3>2. \E i \in Ids : /\ rows'["command"][i].by = <<"inbox", x.item, x.lease, 1>>
                           /\ rows'["command"][i].data = d
        BY <3>1, RecordedStays DEF Queues, RecordedBy
      <3>3. rows'["inbox"][x.item].data = rows["inbox"][x.item].data
        BY <2>2, <2>4
      <3> QED
        BY <3>2, <3>3 DEF RecordedBy
    <2> QED
      BY <2>2, <2>3, <2>4 DEF Progress
  <1>2. CASE x.pc \notin Busy
    BY <1>2 DEF Progress, Busy
  <1> QED
    BY <1>1, <1>2

LEMMA HeldRow ==
    ASSUME Inv, NEW b \in Agents, agent[b].pc \in Busy
    PROVE  /\ agent[b].item \in Ids /\ agent[b].queue \in Queues
           /\ rows[agent[b].queue][agent[b].item] \in Row
           /\ rows[agent[b].queue][agent[b].item].status # "none"
           /\ agent[b].lease <= rows[agent[b].queue][agent[b].item].attempts
  <1>1. <<agent[b].item, agent[b].lease>> \in Leases(agent[b])
    BY DEF Leases
  <1> QED
    BY <1>1 DEF Inv, LeaseBound, AgentInv, Shape, CoreType, Agent

(* The agent keeps to its queue and takes on no lease, or has none.        *)
Onward(a) ==
    /\ agent'[a].todo \subseteq agent[a].todo
    /\ \/ agent'[a].queue = agent[a].queue
       \/ agent'[a].todo = {} /\ agent'[a].pc \notin Busy
    /\ agent'[a].pc \in Busy =>
          \/ /\ agent[a].pc \in Busy
             /\ agent'[a].item = agent[a].item
             /\ agent'[a].lease = agent[a].lease
          \/ /\ <<agent'[a].item, agent'[a].lease>> \in agent[a].todo
             /\ <<agent'[a].item, agent'[a].lease>> \notin agent'[a].todo

(* What it handed on before, it has not forgotten.                         *)
Remembers(a) ==
    agent'[a].pc \in Handing =>
        \/ /\ agent[a].pc \in Handing
           /\ agent[a].sent <= agent'[a].sent
           /\ agent'[a].item = agent[a].item
           /\ agent'[a].lease = agent[a].lease
        \/ <<agent'[a].item, agent'[a].lease>> \in agent[a].todo

LEMMA AgentsStay ==
    ASSUME Inv, NEW a \in Agents, Only(a), TableOK, heard \subseteq heard',
           heard' \subseteq Nat \X Nat \X Nat, faults' \in Nat,
           Shape(agent[a])', Progress(agent[a])'
    PROVE  CoreType' /\ AgentInv' /\ ProgressInv'
  <1>1. CoreType'
    BY DEF Only, TableOK, CoreType
  <1>2. AgentInv'
    BY DEF Only, AgentInv, Inv, Shape, Busy
  <1>3. ProgressInv'
    <2> SUFFICES ASSUME NEW b \in Agents PROVE Progress(agent[b])'
      BY DEF ProgressInv
    <2>1. CASE b = a
      BY <2>1
    <2>2. CASE b # a
      <3>1. PICK x \in Agent : x = agent[b] /\ x = agent'[b]
        BY <2>2 DEF Only, Inv, CoreType
      <3>2. x.pc \in Busy => x.item \in Ids /\ rows[x.queue][x.item].status # "none"
        BY <3>1, HeldRow
      <3>3. Progress(x)
        BY <3>1 DEF Inv, ProgressInv
      <3>4. Progress(x)'
        BY <3>2, <3>3, ProgressStays DEF TableOK
      <3> QED
        BY <3>1, <3>4 DEF Progress
    <2> QED
      BY <2>1, <2>2
  <1> QED
    BY <1>1, <1>2, <1>3

LEMMA LeasesStay ==
    ASSUME Inv, NEW a \in Agents, Only(a), TableOK, Onward(a)
    PROVE  LeaseBound' /\ LeaseOnce'
  <1>1. \/ agent'[a].queue = agent[a].queue /\ Leases(agent'[a]) \subseteq Leases(agent[a])
        \/ Leases(agent'[a]) = {}
    BY DEF Onward, Leases
  <1>2. \A b \in Agents : Leases(agent[b])' = Leases(agent'[b])
    BY DEF Leases, Busy
  <1>3. \A b \in Agents \ {a} : agent'[b] = agent[b]
    BY DEF Only
  <1>4. LeaseBound'
    <2> SUFFICES ASSUME NEW b \in Agents, NEW l \in Leases(agent'[b])
                 PROVE  /\ l[1] \in Ids
                        /\ rows'[agent'[b].queue][l[1]].status # "none"
                        /\ l[2] <= rows'[agent'[b].queue][l[1]].attempts
      BY <1>2 DEF LeaseBound
    <2>1. agent'[b].queue = agent[b].queue /\ l \in Leases(agent[b])
      BY <1>1, <1>3
    <2>2. /\ l[1] \in Ids /\ rows[agent[b].queue][l[1]].status # "none"
          /\ l[2] <= rows[agent[b].queue][l[1]].attempts
      BY <2>1 DEF Inv, LeaseBound
    <2>3. agent[b].queue \in Queues
      BY DEF Inv, CoreType, Agent
    <2>4. /\ rows'[agent[b].queue][l[1]].status # "none"
          /\ rows[agent[b].queue][l[1]].attempts <= rows'[agent[b].queue][l[1]].attempts
      BY <2>2, <2>3 DEF TableOK, Grown
    <2>5. /\ rows[agent[b].queue][l[1]].attempts \in Int
          /\ rows'[agent[b].queue][l[1]].attempts \in Int
      BY <2>2, <2>3 DEF TableOK, Inv, CoreType, Row
    <2>6. l[2] \in Int
      BY <2>1 DEF Inv, CoreType, Agent, Leases
    <2> QED
      BY <2>1, <2>2, <2>4, <2>5, <2>6
  <1>5. LeaseOnce'
    <2>1. ASSUME NEW b \in Agents, NEW c \in Agents, b # c,
                 agent'[b].queue = agent'[c].queue
          PROVE  Leases(agent'[b]) \cap Leases(agent'[c]) = {}
      BY <1>1, <1>3, <2>1 DEF Inv, LeaseOnce
    <2>2. ASSUME NEW b \in Agents, agent'[b].pc \in Busy
          PROVE  <<agent'[b].item, agent'[b].lease>> \notin agent'[b].todo
      BY <1>3, <2>2 DEF Inv, LeaseOnce, Onward
    <2> QED
      BY <1>2, <2>1, <2>2 DEF LeaseOnce, Busy
  <1> QED
    BY <1>4, <1>5

LEMMA OwnCauseStays ==
    ASSUME Inv, NEW a \in Agents, Only(a), Onward(a), Remembers(a),
           NEW q \in Queues, NEW i \in Ids, rows'[q][i].by = rows[q][i].by
    PROVE  CausedOnce(q, i, a)'
  <1>0. rows[q][i].by \in (Queues \cup {"caller", "none"}) \X Nat \X Nat \X Nat
    BY DEF Inv, CoreType, Row
  <1>1. PICK c \in (Queues \cup {"caller", "none"}) \X Nat \X Nat \X Nat :
           c = rows[q][i].by /\ c = rows'[q][i].by
    BY <1>0
  <1>2. c[4] \in Nat /\ agent[a].sent \in Nat /\ agent'[a].sent \in Nat
    BY <1>1 DEF Inv, CoreType, Agent, Only
  <1>3. CausedOnce(q, i, a)
    BY DEF Inv, CauseInv
  <1>4. Handing \subseteq Busy
    BY DEF Handing, Busy
  <1>5. agent'[a].todo \subseteq agent[a].todo
    BY DEF Onward
  <1>6. ASSUME c[1] = agent'[a].queue
        PROVE  /\ <<c[2], c[3]>> \notin agent'[a].todo
               /\ /\ agent'[a].pc \in Handing
                  /\ c[2] = agent'[a].item
                  /\ c[3] = agent'[a].lease
                  => c[4] <= agent'[a].sent
    <2>1. CASE agent'[a].queue = agent[a].queue
      <3>1. /\ <<c[2], c[3]>> \notin agent[a].todo
            /\ /\ agent[a].pc \in Handing
               /\ c[2] = agent[a].item
               /\ c[3] = agent[a].lease
               => c[4] <= agent[a].sent
        BY <1>1, <1>3, <1>6, <2>1 DEF CausedOnce
      <3>2. ASSUME agent'[a].pc \in Handing, c[2] = agent'[a].item, c[3] = agent'[a].lease
            PROVE  c[4] <= agent'[a].sent
        <4>1. <<agent'[a].item, agent'[a].lease>> \notin agent[a].todo
          BY <3>1, <3>2
        <4>2. /\ agent[a].pc \in Handing
              /\ agent[a].sent <= agent'[a].sent
              /\ agent'[a].item = agent[a].item
              /\ agent'[a].lease = agent[a].lease
          BY <3>2, <4>1 DEF Remembers
        <4>3. c[4] <= agent[a].sent
          BY <3>1, <3>2, <4>2
        <4> QED
          BY <1>2, <4>2, <4>3
      <3> QED
        BY <1>5, <3>1, <3>2
    <2>2. CASE agent'[a].todo = {} /\ agent'[a].pc \notin Busy
      BY <1>4, <2>2
    <2> QED
      BY <2>1, <2>2 DEF Onward
  <1> QED
    BY <1>1, <1>6 DEF CausedOnce, Handing

LEMMA RowCauseStays ==
    ASSUME Inv, TableOK, NEW q \in Queues, NEW i \in Ids, rows'[q][i].by = rows[q][i].by
    PROVE  RowCause(q, i)'
  <1> PICK c \in (Queues \cup {"caller", "none"}) \X Nat \X Nat \X Nat :
              c = rows[q][i].by
    BY DEF Inv, CoreType, Row
  <1>1. rows'[q][i].by = c
    OBVIOUS
  <1>2. /\ c[1] = "none" => c = NoCause
        /\ c[1] = "caller" => c = <<"caller", i, 0, 0>>
        /\ c[1] \in Queues => c[2] \in Ids /\ c[3] <= rows[c[1]][c[2]].attempts
    BY DEF Inv, CauseInv, RowCause
  <1>3. c[1] \in Queues => c[3] <= rows'[c[1]][c[2]].attempts
    <2> SUFFICES ASSUME c[1] \in Queues PROVE c[3] <= rows'[c[1]][c[2]].attempts
      OBVIOUS
    <2>1. PICK p \in Queues, j \in Ids : p = c[1] /\ j = c[2]
      BY <1>2
    <2>2. c[3] \in Nat /\ c[3] <= rows[p][j].attempts
      BY <1>2, <2>1
    <2>3. /\ rows[p][j].attempts \in Int /\ rows'[p][j].attempts \in Int
          /\ rows[p][j].attempts <= rows'[p][j].attempts
      BY DEF TableOK, Grown, Inv, CoreType, Row
    <2>4. c[3] <= rows'[p][j].attempts
      BY <2>2, <2>3
    <2> QED
      BY <2>1, <2>4
  <1> QED
    BY <1>1, <1>2, <1>3 DEF RowCause, NoCause

LEMMA OtherCauseStays ==
    ASSUME Inv, NEW a \in Agents, Only(a),
           NEW q \in Queues, NEW i \in Ids, rows'[q][i].by = rows[q][i].by,
           NEW b \in Agents \ {a}
    PROVE  CausedOnce(q, i, b)'
  BY DEF Only, Inv, CauseInv, CausedOnce, Handing

LEMMA CausesStay ==
    ASSUME Inv, NEW a \in Agents, Only(a), TableOK, SameCauses, Onward(a), Remembers(a)
    PROVE  CauseInv' /\ CauseUnique'
  <1>1. \A q \in Queues : \A i \in Ids : rows'[q][i].by = rows[q][i].by
    BY DEF SameCauses
  <1>2. ASSUME NEW q \in Queues, NEW i \in Ids
        PROVE  RowCause(q, i)' /\ \A b \in Agents : CausedOnce(q, i, b)'
    <2>1. CausedOnce(q, i, a)'
      BY <1>1, OwnCauseStays
    <2>2. RowCause(q, i)'
      BY <1>1, RowCauseStays
    <2>3. ASSUME NEW b \in Agents PROVE CausedOnce(q, i, b)'
      <3>1. CASE b = a
        BY <2>1, <3>1
      <3>2. CASE b # a
        BY <1>1, <3>2, OtherCauseStays
      <3> QED
        BY <3>1, <3>2
    <2> QED
      BY <2>2, <2>3
  <1>3. CauseInv'
    BY <1>2 DEF CauseInv
  <1>4. CauseUnique'
    BY <1>1 DEF Inv, CauseUnique, NoCause
  <1> QED
    BY <1>3, <1>4

(* What was promised of a completed row stays true.                        *)
LEMMA AnnouncedStays ==
    ASSUME Inv, TableOK, NEW i \in Ids, rows["command"][i].status = "done",
           NEW k \in DOMAIN rows'["command"][i].made
    PROVE  RecordedBy("event", <<"command", i, rows["command"][i].attempts, k>>,
                      rows["command"][i].made[k])'
  <1>1. rows'["command"][i] = rows["command"][i]
    BY DEF TableOK, Grown, Queues
  <1> PICK cause, data :
         /\ cause = <<"command", i, rows["command"][i].attempts, k>>
         /\ data = rows["command"][i].made[k]
    OBVIOUS
  <1>2. RecordedBy("event", cause, data)
    BY <1>1 DEF Inv, CompletedAnnounced
  <1>3. RecordedBy("event", cause, data)'
    BY <1>2, RecordedStays DEF TableOK, Queues
  <1> QED
    BY <1>1, <1>3 DEF RecordedBy

LEMMA ConvertedStays ==
    ASSUME Inv, TableOK, NEW i \in Ids, rows["inbox"][i].status = "done"
    PROVE  RecordedBy("command", <<"inbox", i, rows["inbox"][i].attempts, 1>>,
                      Route(rows["inbox"][i].data))'
  <1>1. rows'["inbox"][i] = rows["inbox"][i]
    BY DEF TableOK, Grown, Queues
  <1> PICK cause, data :
         /\ cause = <<"inbox", i, rows["inbox"][i].attempts, 1>>
         /\ data = Route(rows["inbox"][i].data)
    OBVIOUS
  <1>2. RecordedBy("command", cause, data)
    BY DEF Inv, MessageBecomesCommand
  <1>3. RecordedBy("command", cause, data)'
    BY <1>2, RecordedStays DEF TableOK, Queues
  <1> QED
    BY <1>1, <1>3 DEF RecordedBy

LEMMA DeliveredStays ==
    ASSUME Inv, TableOK, heard \subseteq heard', NEW i \in Ids,
           rows["event"][i].status = "done",
           NEW k \in 1 .. Subscribers(rows'["event"][i].data)
    PROVE  <<i, rows'["event"][i].attempts, k>> \in heard'
  BY DEF Inv, DeliveredToAll, TableOK, Grown, Queues

LEMMA PromisesStay ==
    ASSUME Inv, TableOK, NoneCompleted, heard \subseteq heard'
    PROVE  CompletedAnnounced' /\ DeliveredToAll' /\ MessageBecomesCommand'
  <1>1. \A q \in Queues : \A i \in Ids :
           rows'[q][i].status = "done" => rows[q][i].status = "done"
    BY DEF NoneCompleted
  <1>2. CompletedAnnounced'
    BY <1>1, AnnouncedStays DEF CompletedAnnounced, Queues
  <1>3. DeliveredToAll'
    BY <1>1, DeliveredStays DEF DeliveredToAll, Queues
  <1>4. MessageBecomesCommand'
    BY <1>1, ConvertedStays DEF MessageBecomesCommand, Queues
  <1> QED
    BY <1>2, <1>3, <1>4

(* The step of an agent that neither records nor completes a row.          *)
LEMMA QuietStep ==
    ASSUME Inv, NEW a \in Agents, Only(a), TableOK, SameCauses, NoneCompleted,
           heard \subseteq heard', heard' \subseteq Nat \X Nat \X Nat, faults' \in Nat,
           Shape(agent[a])', Progress(agent[a])', Onward(a), Remembers(a)
    PROVE  Inv'
  <1>1. CoreType' /\ AgentInv' /\ ProgressInv'
    BY AgentsStay
  <1>2. LeaseBound' /\ LeaseOnce'
    BY LeasesStay
  <1>3. CauseInv' /\ CauseUnique'
    BY CausesStay
  <1>4. CompletedAnnounced' /\ DeliveredToAll' /\ MessageBecomesCommand'
    BY PromisesStay
  <1> QED
    BY <1>1, <1>2, <1>3, <1>4 DEF Inv, TableOK


-----------------------------------------------------------------------------
(***************************************************************************)
(* What an agent's step makes of the agent itself.                         *)
(***************************************************************************)
Fits(a) ==
    /\ Only(a)
    /\ Shape(agent[a])'
    /\ Progress(agent[a])'
    /\ Onward(a)
    /\ Remembers(a)

LEMMA Stands ==
    ASSUME Inv, NEW a \in Agents, UNCHANGED agent, TableOK, heard \subseteq heard'
    PROVE  Fits(a)
  <1>1. Only(a) /\ Shape(agent[a])'
    BY DEF Inv, CoreType, AgentInv, Shape, Only, Busy
  <1>2. Onward(a) /\ Remembers(a)
    BY DEF Inv, CoreType, Agent, Onward, Remembers, Busy, Handing
  <1>3. Progress(agent[a])'
    <2>1. PICK x \in Agent : x = agent[a] /\ x = agent'[a]
      BY DEF Inv, CoreType
    <2>2. x.pc \in Busy => x.item \in Ids /\ rows[x.queue][x.item].status # "none"
      BY <2>1, HeldRow
    <2>3. Progress(x)'
      BY <2>1, <2>2, ProgressStays DEF Inv, ProgressInv, TableOK
    <2> QED
      BY <2>1, <2>3 DEF Progress
  <1> QED
    BY <1>1, <1>2, <1>3 DEF Fits

(* It has no item any more.                                                *)
LEMMA Rests ==
    ASSUME Inv, NEW a \in Agents, Only(a),
           agent'[a].pc \notin Busy, agent'[a].sent = 0,
           \/ agent'[a].todo = {}
           \/ agent'[a].todo = agent[a].todo /\ agent'[a].queue = agent[a].queue
    PROVE  Fits(a)
  <1>1. Shape(agent[a])'
    BY DEF Shape, Busy
  <1>2. Progress(agent[a])'
    BY DEF Progress, Busy
  <1>3. Onward(a) /\ Remembers(a)
    BY DEF Onward, Remembers, Busy, Handing
  <1> QED
    BY <1>1, <1>2, <1>3 DEF Fits

(* Its attempt fails.                                                      *)
LEMMA ItemFailsFits ==
    ASSUME Inv, NEW a \in Agents, NEW reason, ItemFails(a, reason), agent[a].pc \in Busy
    PROVE  Fits(a)
  <1>1. agent' = [agent EXCEPT ![a].pc = "failing"]
    BY DEF ItemFails
  <1>2. "failing" \in PCs
    BY DEF PCs
  <1>3. /\ Only(a)
        /\ Keeps(a, {"queue", "todo", "item", "lease", "out", "sent", "round",
                     "failed", "mine"})
        /\ agent'[a].pc = "failing"
    BY <1>1, <1>2, PcMoves DEF Inv
  <1>4. Shape(agent[a])'
    BY <1>3 DEF Inv, AgentInv, Shape, Busy, Keeps
  <1>5. Progress(agent[a])'
    BY <1>3 DEF Progress
  <1>6. Onward(a) /\ Remembers(a)
    BY <1>3 DEF Onward, Remembers, Busy, Handing, Keeps
  <1> QED
    BY <1>3, <1>4, <1>5, <1>6 DEF Fits

(* It is done with its item.                                               *)
LEMMA ItemDoneFits ==
    ASSUME Inv, NEW a \in Agents, NEW f \in BOOLEAN, ItemDone(a, f)
    PROVE  Fits(a)
  <1> DEFINE p == IF agent[a].todo = {} /\ a \in Workers THEN "idle" ELSE "batch"
             g == a \in Callers /\ (agent[a].failed \/ f)
  <1>1. agent' = [agent EXCEPT ![a].pc = p, ![a].item = 0, ![a].lease = 0,
                               ![a].out = <<>>, ![a].sent = 0, ![a].failed = g]
    BY DEF ItemDone
  <1>2. p \in PCs \ Busy /\ g \in BOOLEAN
    BY DEF PCs, Busy
  <1> HIDE DEF p, g
  <1>3. /\ Only(a) /\ Keeps(a, {"queue", "todo", "round", "mine"})
        /\ agent'[a].pc = p /\ agent'[a].sent = 0
    BY <1>1, <1>2, DoneMoves DEF Inv
  <1> QED
    BY <1>2, <1>3, Rests DEF Keeps

LEMMA QuietFits ==
    ASSUME Inv, NEW a \in Agents, Fits(a), TableOK, SameCauses, NoneCompleted,
           heard \subseteq heard', heard' \subseteq Nat \X Nat \X Nat, faults' \in Nat
    PROVE  Inv'
  BY QuietStep DEF Fits

(* The rest of the step leaves the queues alone.                           *)
LEMMA IdleFits ==
    ASSUME Inv, NEW a \in Agents, Fits(a), UNCHANGED <<rows, heard>>, faults' \in Nat
    PROVE  Inv'
  BY SameTable, QuietFits DEF Inv, CoreType

LEMMA FaultType ==
    ASSUME Inv
    PROVE  Fault => faults' \in Nat
  BY DEF Inv, CoreType, Fault

-----------------------------------------------------------------------------
(***************************************************************************)
(* The steps that neither record nor complete a row.                       *)
(***************************************************************************)
LEMMA BeginStep ==
    ASSUME Inv, NEW a \in Agents, Begin(a)
    PROVE  Inv'
  <1>1. PICK l \in agent[a].todo :
           agent' = [agent EXCEPT
              ![a].pc = FirstStep(agent[a].queue, rows[agent[a].queue][l[1]].data),
              ![a].item = l[1], ![a].lease = l[2], ![a].todo = @ \ {l}]
    BY DEF Begin
  <1> PICK q \in Queues : q = agent[a].queue
    BY DEF Inv, CoreType, Agent
  <1>2. l \in Ids \X Nat /\ l = <<l[1], l[2]>> /\ l \in Leases(agent[a])
    BY DEF Inv, CoreType, Agent, Leases
  <1>3. /\ l[1] \in Ids /\ rows[q][l[1]].data \in Data
        /\ Subscribers(rows[q][l[1]].data) \in Nat
    BY <1>2, KernelAssumption DEF Inv, LeaseBound, RowInv, KernelAssumption
  <1>4. agent[a].sent = 0
    BY DEF Begin, Inv, AgentInv, Shape, Busy
  <1> DEFINE p == FirstStep(q, rows[q][l[1]].data)
  <1>5. /\ p \in PCs
        /\ p \in Busy /\ p # "emitting"
        /\ p = "converting" <=> q = "inbox"
        /\ p = "working" <=> q = "command"
        /\ p = "notifying" => q = "event" /\ Subscribers(rows["event"][l[1]].data) # 0
        /\ p = "completing" => q = "event" /\ Subscribers(rows["event"][l[1]].data) = 0
    BY DEF FirstStep, Queues, PCs, Busy
  <1>6. agent' = [agent EXCEPT ![a].pc = p, ![a].item = l[1], ![a].lease = l[2],
                               ![a].todo = @ \ {l}]
    BY <1>1
  <1> HIDE DEF p
  <1>7. /\ Only(a) /\ Keeps(a, {"queue", "out", "sent", "round", "failed", "mine"})
        /\ agent'[a].pc = p /\ agent'[a].item = l[1] /\ agent'[a].lease = l[2]
        /\ agent'[a].todo = agent[a].todo \ {l}
    BY <1>5, <1>6, BeginMoves DEF Inv
  <1>8. agent'[a].queue = q /\ agent'[a].sent = 0
    BY <1>4, <1>7 DEF Keeps
  <1>9. Shape(agent[a])'
    BY <1>3, <1>5, <1>7, <1>8 DEF Shape, Busy
  <1>10. Progress(agent[a])'
    <2>1. rows' = rows
      BY DEF Begin
    <2> QED
      BY <2>1, <1>3, <1>5, <1>7, <1>8 DEF Progress, Queues
  <1>11. Onward(a) /\ Remembers(a)
    BY <1>2, <1>7, <1>8 DEF Onward, Remembers
  <1> QED
    BY <1>7, <1>9, <1>10, <1>11, IdleFits DEF Fits, Begin, Inv, CoreType

LEMMA HandlerStepStep ==
    ASSUME Inv, NEW a \in Agents, HandlerStep(a)
    PROVE  Inv'
  <1> DEFINE events == Execute(db, Item(a).data, memory[a]).events
             reason == Execute(db, Item(a).data, memory[a]).error
             p == IF events = <<>> THEN "completing" ELSE "emitting"
  <1>1. \/ UNCHANGED agent
        \/ /\ events \in Seq(Data)
           /\ agent' = [agent EXCEPT ![a].pc = p, ![a].out = events]
        \/ ItemFails(a, reason)
    BY DEF HandlerStep
  <1>2. agent[a].pc = "working" /\ UNCHANGED <<rows, heard, faults>>
    BY DEF HandlerStep
  <1> HIDE DEF events, reason
  <1>3. CASE UNCHANGED agent
    <2>1. TableOK
      BY <1>2, SameTable
    <2> QED
      BY <1>2, <1>3, <2>1, Stands, IdleFits DEF Inv, CoreType
  <1>4. CASE ItemFails(a, reason)
    BY <1>2, <1>4, ItemFailsFits, IdleFits DEF Busy, Inv, CoreType
  <1>5. CASE /\ events \in Seq(Data)
             /\ agent' = [agent EXCEPT ![a].pc = p, ![a].out = events]
    <2>1. p \in PCs
      BY DEF PCs
    <2>2. /\ Only(a)
          /\ Keeps(a, {"queue", "todo", "item", "lease", "sent", "round", "failed", "mine"})
          /\ agent'[a].pc = p /\ agent'[a].out = events
      BY <1>5, <2>1, ReturnMoves DEF Inv
    <2>3. /\ agent'[a].queue = "command" /\ agent'[a].sent = 0
          /\ agent'[a].item \in Ids
      BY <1>2, <2>2 DEF Inv, AgentInv, Shape, Busy, Keeps
    <2>4. /\ p \in {"completing", "emitting"}
          /\ p = "completing" => Len(events) = 0
          /\ p = "emitting" => 0 < Len(events)
      BY <1>5
    <2> HIDE DEF p
    <2>5. Shape(agent[a])'
      BY <2>2, <2>3, <2>4 DEF Shape, Busy
    <2>6. Progress(agent[a])'
      BY <2>2, <2>3, <2>4 DEF Progress
    <2>7. Onward(a) /\ Remembers(a)
      BY <1>2, <2>2, <2>3, <2>4 DEF Onward, Remembers, Keeps, Busy, Handing, Inv, AgentInv, Shape
    <2> QED
      BY <1>2, <2>2, <2>5, <2>6, <2>7, IdleFits DEF Fits, Inv, CoreType
  <1> QED
    BY <1>1, <1>3, <1>4, <1>5

LEMMA FailItemStep ==
    ASSUME Inv, NEW a \in Agents, NEW w \in BOOLEAN, w => Owned(a),
           agent[a].pc = "failing", FailItem(a, w), UNCHANGED heard, faults' \in Nat
    PROVE  Inv'
  <1>1. Fits(a)
    BY ItemDoneFits DEF FailItem
  <1>2. CASE w
    <2>1. PICK q \in Queues, n \in Ids : q = agent[a].queue /\ n = agent[a].item
      BY DEF Inv, CoreType, Agent, AgentInv, Shape, Busy
    <2>2. rows' = [rows EXCEPT ![q][n].status = "open"] /\ rows[q][n].status = "held"
      BY <1>2, <2>1 DEF FailItem, Owned, Item
    <2>3. TableOK /\ SameCauses /\ NoneCompleted
      <3>1. PICK r \in Row : /\ r.status = "open" /\ r.attempts = rows[q][n].attempts
                             /\ r.data = rows[q][n].data /\ r.by = rows[q][n].by
                             /\ rows' = [rows EXCEPT ![q][n] = r]
        BY <2>2, OpenRow DEF Inv
      <3>2. /\ r.status = "open" /\ r.attempts = rows[q][n].attempts
            /\ r.data = rows[q][n].data /\ r.by = rows[q][n].by
        BY <3>1
      <3>3. rows' = [rows EXCEPT ![q][n] = r] /\ rows[q][n].status = "held"
        BY <2>2, <3>1
      <3> QED
        BY <3>2, <3>3, ReopenTable
    <2> QED
      BY <1>1, <2>3, QuietFits DEF Inv, CoreType
  <1>3. CASE ~ w
    BY <1>1, <1>3, IdleFits DEF FailItem
  <1> QED
    BY <1>2, <1>3

LEMMA FailStep ==
    ASSUME Inv, NEW a \in Agents, Fail(a)
    PROVE  Inv'
  <1>1. PICK w \in BOOLEAN : w = Owned(a)
    BY DEF Owned
  <1> QED
    BY <1>1, FailItemStep DEF Fail, Inv, CoreType

LEMMA EndBatchStep ==
    ASSUME Inv, NEW a \in Agents, EndBatch(a)
    PROVE  Inv'
  <1> DEFINE last == agent[a].queue = "event" /\ agent[a].round + 1 = Rounds
             p == IF agent[a].failed \/ last THEN "returned" ELSE "reserving"
             q == IF agent[a].queue = "command" THEN "event" ELSE "command"
             n == IF agent[a].queue = "event" THEN agent[a].round + 1 ELSE agent[a].round
  <1>1. agent[a] \in Agent
    BY DEF Inv, CoreType
  <1>2. agent' = [agent EXCEPT ![a].pc = p, ![a].queue = q, ![a].round = n]
    BY <1>1 DEF EndBatch
  <1>3. p \in PCs \ Busy /\ q \in Queues /\ n \in Nat
    BY <1>1 DEF PCs, Busy, Queues, Agent
  <1> HIDE DEF p, q, n
  <1>4. /\ Only(a) /\ agent'[a].pc = p
        /\ Keeps(a, {"todo", "item", "lease", "out", "sent", "failed", "mine"})
    BY <1>2, <1>3, RoundMoves DEF Inv
  <1>5. agent'[a].todo = {} /\ agent'[a].sent = 0
    BY <1>4 DEF Keeps, EndBatch, Inv, AgentInv, Shape, Busy
  <1> QED
    BY <1>3, <1>4, <1>5, Rests, IdleFits DEF EndBatch, Inv, CoreType

LEMMA WorkFailsStep ==
    ASSUME Inv, NEW a \in Agents, WorkFails(a)
    PROVE  Inv'
  BY ItemFailsFits, IdleFits, FaultType DEF WorkFails, Busy

LEMMA FailFailsStep ==
    ASSUME Inv, NEW a \in Agents, FailFails(a)
    PROVE  Inv'
  BY FailItemStep, FaultType DEF FailFails

LEMMA CrashStep ==
    ASSUME Inv, NEW a \in Agents, Crash(a)
    PROVE  Inv'
  <1> DEFINE p == IF a \in Callers THEN "gone" ELSE "idle"
             q == HomeQueue(a)
             r == IdleOn(q)
             x == [r EXCEPT !.pc = p]
  <1>1. agent' = [agent EXCEPT ![a] = x]
    BY DEF Crash
  <1>2. p \in PCs \ Busy /\ q \in Queues
    BY DEF PCs, Busy, Queues, HomeQueue
  <1> HIDE DEF p, q
  <1>3. r \in Agent /\ r.todo = {} /\ r.sent = 0
    BY <1>2, IdleOnType
  <1> HIDE DEF r
  <1>4. x \in Agent /\ x.pc = p /\ x.todo = {} /\ x.sent = 0
    <2>1. x \in Agent
      BY <1>2, <1>3, FieldType
    <2> QED
      BY <1>2, <1>3, <2>1 DEF Agent
  <1> HIDE DEF x
  <1>5. Only(a) /\ agent'[a] = x
    BY <1>1, <1>4 DEF Only, Inv, CoreType
  <1> QED
    BY <1>2, <1>4, <1>5, Rests, IdleFits, FaultType DEF Crash

LEMMA SweepStep ==
    ASSUME Inv, NEW q \in Swept, NEW i \in Ids, Sweep(q, i)
    PROVE  Inv'
  <1>1. q \in Queues /\ rows[q][i].status = "held"
    BY KernelAssumption DEF KernelAssumption, Sweep
  <1>2. TableOK /\ SameCauses /\ NoneCompleted
    <2>1. PICK r \in Row : /\ r.status = "open" /\ r.attempts = rows[q][i].attempts
                           /\ r.data = rows[q][i].data /\ r.by = rows[q][i].by
                           /\ rows' = [rows EXCEPT ![q][i] = r]
      BY <1>1, OpenRow DEF Inv, Sweep
    <2> QED
      BY <1>1, <2>1, ReopenTable
  <1>3. UNCHANGED <<agent, heard, faults>>
    BY DEF Sweep
  <1>4. CASE Agents = {}
    <2>1. CoreType' /\ RowInv'
      BY <1>2, <1>3 DEF TableOK, Inv, CoreType
    <2>2. AgentInv' /\ ProgressInv' /\ LeaseBound' /\ LeaseOnce'
      BY <1>4 DEF AgentInv, ProgressInv, LeaseBound, LeaseOnce
    <2>3. CauseInv'
      BY <1>2, <1>4, RowCauseStays DEF CauseInv, SameCauses
    <2>4. CauseUnique'
      BY <1>2 DEF Inv, CauseUnique, SameCauses, NoCause
    <2>5. CompletedAnnounced' /\ DeliveredToAll' /\ MessageBecomesCommand'
      BY <1>2, <1>3, PromisesStay
    <2> QED
      BY <2>1, <2>2, <2>3, <2>4, <2>5 DEF Inv
  <1>5. CASE Agents # {}
    <2>1. PICK a \in Agents : TRUE
      BY <1>5
    <2> QED
      BY <1>2, <1>3, <2>1, Stands, QuietFits DEF Inv, CoreType
  <1> QED
    BY <1>4, <1>5

-----------------------------------------------------------------------------
(***************************************************************************)
(* Reserving: the leases of a batch are above all there were.              *)
(***************************************************************************)
LEMMA SelectMoves ==
    ASSUME Inv, NEW a \in Agents, Select(a)
    PROVE  /\ Only(a) /\ agent'[a].pc = "selected"
           /\ Keeps(a, {"queue", "todo", "item", "lease", "out", "sent", "round",
                        "failed", "mine"})
           /\ MayReserve(a) /\ agent'[a].sent = 0
           /\ UNCHANGED <<db, memory, error, rows, heard, faults, dropped>>
  <1>1. /\ agent' = [agent EXCEPT ![a].pc = "selected"] /\ "selected" \in PCs
        /\ MayReserve(a)
        /\ UNCHANGED <<db, memory, error, rows, heard, faults, dropped>>
    BY DEF Select, SelectBatch, PCs
  <1>2. /\ Only(a) /\ agent'[a].pc = "selected"
        /\ Keeps(a, {"queue", "todo", "item", "lease", "out", "sent", "round",
                     "failed", "mine"})
    BY <1>1, PcMoves DEF Inv
  <1>3. agent'[a].sent = 0
    BY <1>1, <1>2 DEF Keeps, MayReserve, Inv, AgentInv, Shape, Busy
  <1> QED
    BY <1>1, <1>2, <1>3

LEMMA SelectStep ==
    ASSUME Inv, NEW a \in Agents, Select(a)
    PROVE  Inv'
  <1>1. Fits(a)
    BY SelectMoves, Rests DEF Keeps, Busy
  <1> QED
    BY <1>1, SelectMoves, IdleFits DEF Inv, CoreType

LEMMA ReserveStep ==
    ASSUME Inv, LockInv, NEW a \in Agents, Reserve(a)
    PROVE  Inv'
  <1> PICK q \in Queues : q = agent[a].queue
    BY DEF Inv, CoreType, Agent
  <1> PICK S : S = locks[a]
    OBVIOUS
  <1>1. /\ Leasable(q, S) /\ Lease(q, S) /\ agent[a].pc = "selected"
        /\ UNCHANGED <<heard, faults>>
    BY DEF Reserve, LockInv
  <1>2. /\ TableOK /\ SameCauses /\ NoneCompleted /\ S \subseteq Ids
        /\ \A i \in S : /\ rows[q][i].status = "open"
                        /\ rows'[q][i].attempts = rows[q][i].attempts + 1
    BY <1>1, LeaseTable
  <1>3. \A p \in Queues : \A i \in Ids :
           /\ rows[p][i].attempts \in Nat /\ rows'[p][i].attempts \in Nat
           /\ rows[p][i].attempts <= rows'[p][i].attempts
    BY <1>2 DEF TableOK, Grown, Inv, CoreType, Row
  <1> DEFINE T == {<<i, rows[q][i].attempts + 1>> : i \in S}
  <1>4. T \in SUBSET (Ids \X Nat)
    BY <1>2, <1>3
  <1>5. agent' = [agent EXCEPT ![a].pc = "batch", ![a].todo = T]
    BY DEF Reserve
  <1>6. \A l \in T : /\ l[1] \in Ids /\ rows[q][l[1]].status = "open"
                     /\ l[2] = rows[q][l[1]].attempts + 1
                     /\ l[2] = rows'[q][l[1]].attempts
    BY <1>2
  <1> HIDE DEF T
  <1>7. /\ Only(a) /\ agent'[a].pc = "batch" /\ agent'[a].todo = T
        /\ Keeps(a, {"queue", "item", "lease", "out", "sent", "round", "failed", "mine"})
    BY <1>4, <1>5, ReserveMoves DEF Inv
  <1>8. /\ agent'[a].queue = q /\ agent'[a].sent = 0
        /\ \A b \in Agents \ {a} : agent'[b] = agent[b]
    BY <1>1, <1>7 DEF Keeps, Only, Inv, AgentInv, Shape, Busy
  <1>9. UNCHANGED <<heard, faults>>
    BY <1>1
  <1>10. CoreType' /\ AgentInv' /\ ProgressInv'
    <2>1. Shape(agent[a])' /\ Progress(agent[a])'
      BY <1>7, <1>8 DEF Shape, Progress, Busy
    <2> QED
      BY <1>2, <1>7, <1>9, <2>1, AgentsStay DEF Inv, CoreType
  <1>11. /\ Leases(agent[a])' = T
         /\ \A b \in Agents \ {a} : Leases(agent[b])' = Leases(agent[b])
    BY <1>7, <1>8 DEF Leases, Busy
  <1>12. \A b \in Agents : \A l \in Leases(agent[b]) :
            /\ l[1] \in Ids /\ l[2] \in Nat
            /\ rows[agent[b].queue][l[1]].status # "none"
            /\ l[2] <= rows[agent[b].queue][l[1]].attempts
    BY DEF Inv, LeaseBound, CoreType, Agent, Leases
  <1>13. LeaseBound'
    <2>1. ASSUME NEW l \in T
          PROVE  /\ l[1] \in Ids /\ rows'[q][l[1]].status # "none"
                 /\ l[2] <= rows'[q][l[1]].attempts
      BY <1>2, <1>3, <1>6 DEF TableOK, Grown
    <2>2. ASSUME NEW b \in Agents \ {a}, NEW l \in Leases(agent[b])
          PROVE  /\ l[1] \in Ids /\ rows'[agent[b].queue][l[1]].status # "none"
                 /\ l[2] <= rows'[agent[b].queue][l[1]].attempts
      <3>1. agent[b].queue \in Queues
        BY DEF Inv, CoreType, Agent
      <3>2. /\ l[1] \in Ids /\ l[2] \in Nat
            /\ rows[agent[b].queue][l[1]].status # "none"
            /\ l[2] <= rows[agent[b].queue][l[1]].attempts
        BY <1>12
      <3>3. rows'[agent[b].queue][l[1]].status # "none"
        BY <1>2, <3>1, <3>2 DEF TableOK, Grown
      <3>4. l[2] <= rows'[agent[b].queue][l[1]].attempts
        BY <1>3, <3>1, <3>2
      <3> QED
        BY <3>2, <3>3, <3>4
    <2>3. ASSUME NEW b \in Agents, NEW l \in Leases(agent[b])'
          PROVE  /\ l[1] \in Ids /\ rows'[agent'[b].queue][l[1]].status # "none"
                 /\ l[2] <= rows'[agent'[b].queue][l[1]].attempts
      <3>1. CASE b = a
        BY <1>8, <1>11, <2>1, <3>1
      <3>2. CASE b # a
        BY <1>8, <1>11, <2>2, <3>2
      <3> QED
        BY <3>1, <3>2
    <2> QED
      BY <2>3 DEF LeaseBound
  <1>14. LeaseOnce'
    <2>1. ASSUME NEW b \in Agents \ {a}, agent[b].queue = q
          PROVE  T \cap Leases(agent[b]) = {}
      <3> SUFFICES ASSUME NEW l \in T, l \in Leases(agent[b]) PROVE FALSE
        OBVIOUS
      <3>1. l[1] \in Ids /\ l[2] \in Nat /\ l[2] <= rows[q][l[1]].attempts
        BY <1>12, <2>1
      <3> QED
        BY <1>3, <1>6, <3>1
    <2>2. ASSUME NEW b \in Agents, NEW c \in Agents, b # c,
                 agent'[b].queue = agent'[c].queue
          PROVE  Leases(agent[b])' \cap Leases(agent[c])' = {}
      <3>1. CASE b = a
        BY <1>8, <1>11, <2>1, <2>2, <3>1
      <3>2. CASE c = a
        BY <1>8, <1>11, <2>1, <2>2, <3>2
      <3>3. CASE b # a /\ c # a
        BY <1>8, <1>11, <2>2, <3>3 DEF Inv, LeaseOnce
      <3> QED
        BY <3>1, <3>2, <3>3
    <2>3. ASSUME NEW b \in Agents, agent'[b].pc \in Busy
          PROVE  <<agent'[b].item, agent'[b].lease>> \notin agent'[b].todo
      BY <1>7, <1>8, <2>3 DEF Inv, LeaseOnce, Busy
    <2> QED
      BY <2>2, <2>3 DEF LeaseOnce, Busy
  <1>15. CauseInv' /\ CauseUnique'
    <2>1. \A p \in Queues : \A i \in Ids : rows'[p][i].by = rows[p][i].by
      BY <1>2 DEF SameCauses
    <2>2. ASSUME NEW p \in Queues, NEW i \in Ids, NEW b \in Agents
          PROVE  CausedOnce(p, i, b)'
      <3>1. CASE b = a
        <4> PICK c \in (Queues \cup {"caller", "none"}) \X Nat \X Nat \X Nat :
                    c = rows[p][i].by
          BY DEF Inv, CoreType, Row
        <4>1. c[1] = q => c[2] \in Ids /\ c[3] \in Nat /\ c[3] <= rows[q][c[2]].attempts
          BY DEF Inv, CauseInv, RowCause
        <4>2. c[1] = q => <<c[2], c[3]>> \notin T
          <5> SUFFICES ASSUME c[1] = q, <<c[2], c[3]>> \in T PROVE FALSE
            OBVIOUS
          <5>1. c[3] = rows[q][c[2]].attempts + 1
            BY <1>6
          <5>2. PICK m \in Nat : m = rows[q][c[2]].attempts
            BY <1>3, <4>1
          <5>3. c[3] \in Nat /\ c[3] <= m
            BY <4>1, <5>2
          <5>4. c[3] = m + 1
            BY <5>1, <5>2
          <5> QED
            BY <5>3, <5>4
        <4> QED
          BY <1>7, <1>8, <2>1, <3>1, <4>2 DEF CausedOnce, Handing
      <3>2. CASE b # a
        BY <1>7, <2>1, <3>2, OtherCauseStays
      <3> QED
        BY <3>1, <3>2
    <2>3. CauseInv'
      BY <1>2, <2>1, <2>2, RowCauseStays DEF CauseInv
    <2>4. CauseUnique'
      BY <2>1 DEF Inv, CauseUnique, NoCause
    <2> QED
      BY <2>3, <2>4
  <1>16. CompletedAnnounced' /\ DeliveredToAll' /\ MessageBecomesCommand'
    BY <1>2, <1>9, PromisesStay
  <1> QED
    BY <1>2, <1>10, <1>13, <1>14, <1>15, <1>16 DEF Inv, TableOK

(* What a reservation that fails may have done to the table.               *)
LEMMA ReserveFailsTable ==
    ASSUME Inv, LockInv, NEW a \in Agents, ReserveFails(a)
    PROVE  /\ TableOK /\ SameCauses /\ NoneCompleted
           /\ \A p \in Queues : \A i \in Ids :
                 p # agent[a].queue \/ i \notin locks[a] => rows'[p][i] = rows[p][i]
           /\ \A p \in Queues : \A i \in Ids :
                 rows'[p][i] = rows[p][i] \/ rows[p][i].status = "open"
  <1>1. agent[a].queue \in Queues /\ Leasable(agent[a].queue, locks[a])
    BY DEF Inv, CoreType, Agent, LockInv
  <1>2. CASE UNCHANGED rows
    BY <1>2, SameTable
  <1>3. CASE Lease(agent[a].queue, locks[a])
    BY <1>1, <1>3, LeaseTable
  <1> QED
    BY <1>2, <1>3 DEF ReserveFails

(* What it makes of the agent.                                             *)
LEMMA ReserveFailsMoves ==
    ASSUME Inv, NEW a \in Agents, ReserveFails(a)
    PROVE  /\ Only(a) /\ agent'[a].sent = 0
           /\ Keeps(a, {"queue", "todo", "item", "lease", "out", "sent", "round", "mine"})
           /\ agent'[a].pc \in {"idle", "returned"}
           /\ a \in Callers => agent'[a].pc = "returned" /\ agent'[a].failed = TRUE
           /\ agent[a].pc \in {"idle", "reserving", "selected"}
  <1>1. agent[a].pc \in {"idle", "reserving", "selected"} /\ agent[a].sent = 0
    BY DEF ReserveFails, MayReserve, Inv, AgentInv, Shape, Busy
  <1>2. CASE a \in Callers
    <2>1. agent' = [agent EXCEPT ![a].pc = "returned", ![a].failed = TRUE]
      BY <1>2 DEF ReserveFails
    <2> QED
      BY <1>1, <2>1, StopMoves DEF Inv, Keeps
  <1>3. CASE a \notin Callers
    <2>1. agent' = [agent EXCEPT ![a].pc = "idle"] /\ "idle" \in PCs
      BY <1>3 DEF ReserveFails, PCs
    <2>2. /\ Only(a) /\ agent'[a].pc = "idle"
          /\ Keeps(a, {"queue", "todo", "item", "lease", "out", "sent", "round",
                       "failed", "mine"})
      BY <2>1, PcMoves DEF Inv
    <2> QED
      BY <1>1, <1>3, <2>2 DEF Keeps
  <1> QED
    BY <1>2, <1>3

LEMMA ReserveFailsStep ==
    ASSUME Inv, LockInv, NEW a \in Agents, ReserveFails(a)
    PROVE  Inv'
  <1>1. TableOK /\ SameCauses /\ NoneCompleted
    BY ReserveFailsTable
  <1>2. UNCHANGED heard /\ faults' \in Nat
    BY FaultType DEF ReserveFails
  <1>3. Fits(a)
    BY ReserveFailsMoves, Rests DEF Keeps, Busy
  <1> QED
    BY <1>1, <1>2, <1>3, QuietFits DEF Inv, CoreType

-----------------------------------------------------------------------------
(***************************************************************************)
(* Recording a row.                                                        *)
(***************************************************************************)
(* A row was recorded, and nobody had recorded one for the same cause.     *)
LEMMA RecordedCause ==
    ASSUME Inv, NEW a \in Agents, Only(a), Onward(a), Remembers(a), TableOK,
           NoneCompleted, heard \subseteq heard',
           CoreType', AgentInv', ProgressInv', LeaseBound', LeaseOnce',
           NEW q \in Queues, NEW n \in Ids,
           \A p \in Queues : \A i \in Ids : p # q \/ i # n => rows'[p][i] = rows[p][i],
           RowCause(q, n)', \A b \in Agents : CausedOnce(q, n, b)',
           \A i \in Ids : i # n => rows[q][i].by # rows'[q][n].by
    PROVE  Inv'
  <1>1. ASSUME NEW p \in Queues, NEW i \in Ids
        PROVE  RowCause(p, i)' /\ \A b \in Agents : CausedOnce(p, i, b)'
    <2>1. CASE p = q /\ i = n
      BY <2>1
    <2>2. CASE p # q \/ i # n
      <3>1. rows'[p][i].by = rows[p][i].by
        BY <2>2
      <3>2. RowCause(p, i)' /\ CausedOnce(p, i, a)'
        BY <3>1, RowCauseStays, OwnCauseStays
      <3>3. ASSUME NEW b \in Agents PROVE CausedOnce(p, i, b)'
        <4>1. CASE b = a
          BY <3>2, <4>1
        <4>2. CASE b # a
          BY <3>1, <4>2, OtherCauseStays
        <4> QED
          BY <4>1, <4>2
      <3> QED
        BY <3>2, <3>3
    <2> QED
      BY <2>1, <2>2
  <1>2. CauseInv'
    BY <1>1 DEF CauseInv
  <1>3. CauseUnique'
    <2> SUFFICES ASSUME NEW p \in Queues, NEW i \in Ids, NEW j \in Ids,
                        rows'[p][i].by = rows'[p][j].by, rows'[p][i].by # NoCause
                 PROVE  i = j
      BY DEF CauseUnique, NoCause
    <2>1. CASE p = q /\ (i = n \/ j = n)
      BY <2>1
    <2>2. CASE p # q \/ (i # n /\ j # n)
      BY <2>2 DEF Inv, CauseUnique
    <2> QED
      BY <2>1, <2>2
  <1>4. CompletedAnnounced' /\ DeliveredToAll' /\ MessageBecomesCommand'
    BY PromisesStay
  <1> QED
    BY <1>2, <1>3, <1>4 DEF Inv, TableOK

LEMMA RecordStep ==
    ASSUME Inv, NEW a \in Agents, Fits(a),
           NEW q \in Queues, NEW n \in Unused(q), NEW data \in Data,
           NEW by \in (Queues \cup {"caller", "none"}) \X Nat \X Nat \X Nat,
           Record(q, n, data, by),
           heard \subseteq heard', heard' \subseteq Nat \X Nat \X Nat, faults' \in Nat,
           \/ by = <<"caller", n, 0, 0>>
           \/ /\ by = <<agent[a].queue, agent[a].item, agent[a].lease, by[4]>>
              /\ agent[a].pc \in Handing
              /\ agent[a].sent < by[4]
              /\ agent'[a].pc \in Handing => by[4] <= agent'[a].sent
              /\ agent'[a].queue = agent[a].queue
    PROVE  Inv'
  <1>1. /\ TableOK /\ NoneCompleted /\ n \in Ids /\ rows[q][n].status = "none"
        /\ rows'[q][n].by = by
        /\ \A p \in Queues : \A i \in Ids : p # q \/ i # n => rows'[p][i] = rows[p][i]
    BY RecordTable
  <1>2. CoreType' /\ AgentInv' /\ ProgressInv'
    BY <1>1, AgentsStay DEF Fits
  <1>3. LeaseBound' /\ LeaseOnce'
    BY <1>1, LeasesStay DEF Fits
  <1>4. Only(a) /\ Onward(a) /\ Remembers(a)
    BY DEF Fits
  <1>5. CASE by = <<"caller", n, 0, 0>>
    <2>1. by[1] = "caller" /\ "caller" \notin Queues
      BY <1>5 DEF Queues
    <2>2. RowCause(q, n)' /\ \A b \in Agents : CausedOnce(q, n, b)'
      <3>1. \A b \in Agents : agent'[b].queue \in Queues
        BY <1>4 DEF Only, Agent
      <3> QED
        BY <1>1, <1>5, <2>1, <3>1 DEF RowCause, CausedOnce
    <2>3. ASSUME NEW i \in Ids, i # n PROVE rows[q][i].by # by
      BY <1>5, <2>1, <2>3 DEF Inv, CauseInv, RowCause
    <2> QED
      BY <1>1, <2>2, <2>3, <1>2, <1>3, <1>4, RecordedCause
  <1>6. CASE /\ by = <<agent[a].queue, agent[a].item, agent[a].lease, by[4]>>
             /\ agent[a].pc \in Handing
             /\ agent[a].sent < by[4]
             /\ agent'[a].pc \in Handing => by[4] <= agent'[a].sent
             /\ agent'[a].queue = agent[a].queue
    <2>1. agent[a].pc \in Busy
      BY <1>6 DEF Handing, Busy
    <2>2. /\ agent[a].item \in Ids /\ agent[a].queue \in Queues
          /\ agent[a].lease <= rows[agent[a].queue][agent[a].item].attempts
      BY <2>1, HeldRow
    <2>3. /\ by[1] = agent[a].queue /\ by[2] = agent[a].item /\ by[3] = agent[a].lease
      BY <1>6
    <2>4. RowCause(q, n)'
      <3>1. PICK p \in Queues, j \in Ids : p = by[1] /\ j = by[2]
        BY <2>2, <2>3
      <3>2. by[3] \in Nat /\ by[3] <= rows[p][j].attempts
        BY <2>2, <2>3, <3>1
      <3>3. /\ rows[p][j].attempts \in Int /\ rows'[p][j].attempts \in Int
            /\ rows[p][j].attempts <= rows'[p][j].attempts
        BY <1>1 DEF TableOK, Grown, Inv, CoreType, Row
      <3>4. by[3] <= rows'[p][j].attempts
        BY <3>2, <3>3
      <3>5. "caller" \notin Queues /\ "none" \notin Queues
        BY DEF Queues
      <3> QED
        BY <1>1, <3>1, <3>4, <3>5 DEF RowCause
    <2>5. ASSUME NEW b \in Agents PROVE CausedOnce(q, n, b)'
      <3>1. CASE b = a
        <4>1. <<by[2], by[3]>> \notin agent[a].todo
          BY <2>1, <2>3 DEF Inv, LeaseOnce
        <4>2. <<by[2], by[3]>> \notin agent'[a].todo
          BY <1>4, <4>1 DEF Onward
        <4> QED
          BY <1>1, <1>6, <3>1, <4>2 DEF CausedOnce, Handing
      <3>2. CASE b # a
        <4>1. agent'[b] = agent[b]
          BY <1>4, <3>2 DEF Only
        <4>2. <<by[2], by[3]>> \in Leases(agent[a])
          BY <2>1, <2>3 DEF Leases
        <4>3. agent[b].queue = by[1] => <<by[2], by[3]>> \notin Leases(agent[b])
          BY <2>3, <3>2, <4>2 DEF Inv, LeaseOnce
        <4>4. agent[b].queue = by[1] =>
                 /\ <<by[2], by[3]>> \notin agent[b].todo
                 /\ agent[b].pc \in Handing =>
                        <<by[2], by[3]>> # <<agent[b].item, agent[b].lease>>
          BY <4>3 DEF Leases, Busy, Handing
        <4> QED
          BY <1>1, <4>1, <4>4 DEF CausedOnce, Handing
      <3> QED
        BY <3>1, <3>2
    <2>6. ASSUME NEW i \in Ids, i # n, rows[q][i].by = by PROVE FALSE
      <3>1. by[4] <= agent[a].sent
        BY <1>6, <2>3, <2>6 DEF Inv, CauseInv, CausedOnce
      <3>2. by[4] \in Nat /\ agent[a].sent \in Nat
        BY DEF Inv, CoreType, Agent
      <3> QED
        BY <1>6, <3>1, <3>2
    <2> QED
      BY <1>1, <2>4, <2>5, <2>6, <1>2, <1>3, <1>4, RecordedCause
  <1> QED
    BY <1>5, <1>6

LEMMA CallerCause ==
    ASSUME NEW n \in Ids
    PROVE  <<"caller", n, 0, 0>> \in (Queues \cup {"caller", "none"}) \X Nat \X Nat \X Nat
  BY KernelAssumption DEF KernelAssumption

(* A call records its command, unless its id is in use.                    *)
LEMMA SubmitRecords ==
    ASSUME Inv, NEW a \in Agents, Fits(a), NEW r \in Requests, NEW i \in Ids,
           Record("command", i, r, <<"caller", i, 0, 0>>),
           UNCHANGED heard, faults' \in Nat
    PROVE  Inv'
  <1>1. r \in Data /\ "command" \in Queues
    BY KernelAssumption DEF KernelAssumption, Queues
  <1>2. CASE i \in Unused("command")
    <2>1. PICK by \in (Queues \cup {"caller", "none"}) \X Nat \X Nat \X Nat :
                  by = <<"caller", i, 0, 0>>
      BY CallerCause
    <2> QED
      BY <1>1, <1>2, <2>1, RecordStep DEF Inv, CoreType
  <1>3. CASE i \notin Unused("command")
    BY <1>3, IdleFits DEF Record
  <1> QED
    BY <1>2, <1>3

LEMMA SubmitStep ==
    ASSUME Inv, NEW c \in Callers, NEW r \in Requests, NEW i \in Ids, Submit(c, r, i)
    PROVE  Inv'
  <1> PICK a \in Agents : a = c
    BY DEF Agents
  <1> DEFINE p == IF Rounds = 0 THEN "returned" ELSE "reserving"
  <1>1. agent' = [agent EXCEPT ![a].pc = p, ![a].mine = i]
    BY DEF Submit
  <1>2. p \in PCs \ Busy
    BY DEF PCs, Busy
  <1> HIDE DEF p
  <1>3. /\ Only(a) /\ agent'[a].pc = p
        /\ Keeps(a, {"queue", "todo", "item", "lease", "out", "sent", "round", "failed"})
    BY <1>1, <1>2, SubmitMoves DEF Inv
  <1>4. agent'[a].sent = 0
    BY <1>3 DEF Keeps, Submit, Inv, AgentInv, Shape, Busy
  <1>5. Fits(a)
    BY <1>2, <1>3, <1>4, Rests DEF Keeps
  <1> QED
    BY <1>5, SubmitRecords DEF Submit, Inv, CoreType

LEMMA SubmitFailsStep ==
    ASSUME Inv, NEW c \in Callers, NEW r \in Requests, NEW i \in Ids, SubmitFails(c, r, i)
    PROVE  Inv'
  <1> PICK a \in Agents : a = c
    BY DEF Agents
  <1>1. UNCHANGED heard /\ faults' \in Nat
    BY FaultType DEF SubmitFails
  <1>2. Fits(a)
    <2>1. agent' = [agent EXCEPT ![a].pc = "returned", ![a].failed = TRUE]
      BY DEF SubmitFails
    <2>2. /\ Only(a) /\ agent'[a].pc = "returned"
          /\ Keeps(a, {"queue", "todo", "item", "lease", "out", "sent", "round", "mine"})
      BY <2>1, StopMoves DEF Inv
    <2>3. agent'[a].sent = 0
      BY <2>2 DEF Keeps, SubmitFails, Inv, AgentInv, Shape, Busy
    <2> QED
      BY <2>2, <2>3, Rests DEF Keeps, Busy
  <1>3. CASE UNCHANGED rows
    BY <1>1, <1>2, <1>3, IdleFits
  <1>4. CASE Record("command", i, r, <<"caller", i, 0, 0>>)
    BY <1>1, <1>2, <1>4, SubmitRecords
  <1> QED
    BY <1>3, <1>4 DEF SubmitFails

(* The agent hands on part k of what it works on.                          *)
LEMMA CauseOf ==
    ASSUME Inv, NEW a \in Agents, NEW k \in Nat
    PROVE  /\ Cause(a, k) \in (Queues \cup {"caller", "none"}) \X Nat \X Nat \X Nat
           /\ Cause(a, k)[4] = k
           /\ Cause(a, k) = <<agent[a].queue, agent[a].item, agent[a].lease, k>>
  BY DEF Inv, CoreType, Agent, Cause

LEMMA HandOn ==
    ASSUME Inv, NEW a \in Agents, Fits(a), agent[a].pc \in Handing,
           NEW k \in Nat, agent[a].sent < k,
           agent'[a].pc \in Handing => k <= agent'[a].sent,
           agent'[a].queue = agent[a].queue,
           NEW q \in Queues, NEW data \in Data, RecordNew(q, data, Cause(a, k)),
           heard \subseteq heard', heard' \subseteq Nat \X Nat \X Nat, faults' \in Nat
    PROVE  Inv'
  <1> PICK by : by = Cause(a, k)
    OBVIOUS
  <1>1. /\ by \in (Queues \cup {"caller", "none"}) \X Nat \X Nat \X Nat
        /\ by[4] = k
        /\ by = <<agent[a].queue, agent[a].item, agent[a].lease, by[4]>>
    BY CauseOf
  <1>2. PICK n \in Unused(q) : Record(q, n, data, by)
    BY NewKey
  <1> QED
    BY <1>1, <1>2, RecordStep

LEMMA ConvertStep ==
    ASSUME Inv, NEW a \in Agents, Convert(a)
    PROVE  Inv'
  <1>1. agent[a].pc = "converting" /\ UNCHANGED <<heard, faults>>
    BY DEF Convert
  <1>2. agent[a].queue = "inbox" /\ agent[a].item \in Ids /\ agent[a].sent = 0
    BY <1>1 DEF Inv, AgentInv, Shape, Busy
  <1> PICK data : data = Route(Item(a).data)
    OBVIOUS
  <1>3. CASE data \in Data
    <2>1. /\ RecordNew("command", data, Cause(a, 1))
          /\ agent' = [agent EXCEPT ![a].pc = "completing"]
      BY <1>3 DEF Convert
    <2>2. "completing" \in PCs
      BY DEF PCs
    <2>3. /\ Only(a) /\ agent'[a].pc = "completing"
          /\ Keeps(a, {"queue", "todo", "item", "lease", "out", "sent", "round",
                       "failed", "mine"})
      BY <2>1, <2>2, PcMoves DEF Inv
    <2>4. /\ agent'[a].queue = "inbox" /\ agent'[a].item = agent[a].item
          /\ agent'[a].lease = agent[a].lease /\ agent'[a].todo = agent[a].todo
          /\ agent'[a].sent = 0
      BY <1>2, <2>3 DEF Keeps
    <2>5. Shape(agent[a])'
      BY <1>2, <2>3, <2>4 DEF Shape, Busy
    <2>6. Onward(a) /\ Remembers(a)
      BY <1>1, <1>2, <2>3, <2>4 DEF Onward, Remembers, Busy, Handing
    <2>7. Progress(agent[a])'
      <3>1. PICK by : by = Cause(a, 1)
        OBVIOUS
      <3>2. /\ by \in (Queues \cup {"caller", "none"}) \X Nat \X Nat \X Nat
            /\ by = <<"inbox", agent[a].item, agent[a].lease, 1>>
        BY <1>2, <3>1, CauseOf
      <3>3. /\ RecordNew("command", data, by) /\ "command" \in Queues /\ "inbox" \in Queues
        BY <2>1, <3>1 DEF Queues
      <3>4. /\ FreshId("command") \in Ids
            /\ rows'["command"][FreshId("command")].by = by
            /\ rows'["command"][FreshId("command")].data = data
            /\ rows'["inbox"][agent[a].item] = rows["inbox"][agent[a].item]
        BY <1>2, <1>3, <3>2, <3>3, RecordNewTable
      <3>5. data = Route(rows["inbox"][agent[a].item].data)
        BY <1>2 DEF Item
      <3>6. RecordedBy("command", <<"inbox", agent[a].item, agent[a].lease, 1>>,
                       Route(rows["inbox"][agent[a].item].data))'
        <4>1. \E i \in Ids :
                 /\ rows'["command"][i].by = <<"inbox", agent'[a].item, agent'[a].lease, 1>>
                 /\ rows'["command"][i].data = Route(rows'["inbox"][agent'[a].item].data)
          BY <2>4, <3>2, <3>4, <3>5
        <4> QED
          BY <4>1 DEF RecordedBy
      <3> QED
        BY <2>3, <2>4, <3>6 DEF Progress
    <2>8. Fits(a)
      BY <2>3, <2>5, <2>6, <2>7 DEF Fits
    <2> QED
      BY <1>1, <1>2, <1>3, <2>1, <2>3, <2>4, <2>8, HandOn
         DEF Handing, Queues, Inv, CoreType
  <1>4. CASE data \notin Data
    <2>1. ItemFails(a, StorageError) /\ UNCHANGED rows
      BY <1>4 DEF Convert
    <2> QED
      BY <1>1, <2>1, ItemFailsFits, IdleFits DEF Busy, Inv, CoreType
  <1> QED
    BY <1>3, <1>4

LEMMA EmitStep ==
    ASSUME Inv, NEW a \in Agents, Emit(a)
    PROVE  Inv'
  <1>1. agent[a].pc = "emitting" /\ UNCHANGED <<heard, faults>>
    BY DEF Emit
  <1>2. /\ agent[a].queue = "command" /\ agent[a].item \in Ids
        /\ agent[a].sent \in Nat /\ agent[a].out \in Seq(Data)
        /\ agent[a].sent < Len(agent[a].out)
    BY <1>1 DEF Inv, AgentInv, Shape, Busy, CoreType, Agent
  <1> PICK k \in Nat, data \in Data : k = agent[a].sent + 1 /\ data = agent[a].out[k]
    BY <1>2
  <1> DEFINE p == IF k = Len(agent[a].out) THEN "completing" ELSE agent[a].pc
  <1>3. /\ RecordNew("event", data, Cause(a, k))
        /\ agent' = [agent EXCEPT ![a].sent = k, ![a].pc = p]
    BY DEF Emit, Inv, CoreType, Agent
  <1>4. /\ p \in {"completing", "emitting"} /\ p \in PCs
        /\ p = "completing" => k = Len(agent[a].out)
        /\ p = "emitting" => k < Len(agent[a].out)
    BY <1>1, <1>2 DEF PCs
  <1> HIDE DEF p
  <1>5. /\ Only(a) /\ agent'[a].pc = p /\ agent'[a].sent = k
        /\ Keeps(a, {"queue", "todo", "item", "lease", "out", "round", "failed", "mine"})
    BY <1>3, <1>4, SendMoves DEF Inv
  <1>6. /\ agent'[a].queue = "command" /\ agent'[a].item = agent[a].item
        /\ agent'[a].lease = agent[a].lease /\ agent'[a].todo = agent[a].todo
        /\ agent'[a].out = agent[a].out
    BY <1>2, <1>5 DEF Keeps
  <1>7. Shape(agent[a])'
    BY <1>2, <1>4, <1>5, <1>6 DEF Shape, Busy
  <1>8. Onward(a) /\ Remembers(a)
    BY <1>1, <1>2, <1>4, <1>5, <1>6 DEF Onward, Remembers, Busy, Handing
  <1>9. PICK by : by = Cause(a, k)
    OBVIOUS
  <1>10. /\ by \in (Queues \cup {"caller", "none"}) \X Nat \X Nat \X Nat
         /\ by = <<"command", agent[a].item, agent[a].lease, k>>
    <2>1. /\ Cause(a, k) \in (Queues \cup {"caller", "none"}) \X Nat \X Nat \X Nat
          /\ Cause(a, k) = <<agent[a].queue, agent[a].item, agent[a].lease, k>>
      BY CauseOf
    <2> QED
      BY <1>2, <1>9, <2>1
  <1>11. RecordNew("event", data, by) /\ "event" \in Queues
    BY <1>3, <1>9 DEF Queues
  <1>12. /\ TableOK /\ FreshId("event") \in Ids
         /\ rows'["event"][FreshId("event")].by = by
         /\ rows'["event"][FreshId("event")].data = data
    BY <1>10, <1>11, RecordNewTable
  <1>13. ASSUME NEW j \in 1 .. k
         PROVE  RecordedBy("event", <<"command", agent[a].item, agent[a].lease, j>>,
                           agent[a].out[j])'
    <2> PICK cause, what : /\ cause = <<"command", agent[a].item, agent[a].lease, j>>
                           /\ what = agent[a].out[j]
      OBVIOUS
    <2>1. CASE j = k
      <3>1. \E i \in Ids : rows'["event"][i].by = cause /\ rows'["event"][i].data = what
        BY <1>10, <1>12, <2>1
      <3> QED
        BY <1>6, <3>1 DEF RecordedBy
    <2>2. CASE j # k
      <3>1. j \in 1 .. agent[a].sent
        BY <1>2, <2>2
      <3>2. RecordedBy("event", cause, what)
        BY <1>1, <1>2, <3>1 DEF Inv, ProgressInv, Progress
      <3>3. cause[1] # "none" /\ Grown
        BY <1>12 DEF TableOK
      <3>4. RecordedBy("event", cause, what)'
        BY <1>11, <3>2, <3>3, RecordedStays
      <3> QED
        BY <1>6, <3>4 DEF RecordedBy
    <2> QED
      BY <2>1, <2>2
  <1>14. Progress(agent[a])'
    BY <1>4, <1>5, <1>6, <1>13 DEF Progress, RecordedBy
  <1>15. Fits(a)
    BY <1>5, <1>7, <1>8, <1>14 DEF Fits
  <1>16. agent[a].sent < k /\ k <= agent'[a].sent
    BY <1>2, <1>5
  <1> QED
    BY <1>1, <1>2, <1>3, <1>6, <1>11, <1>15, <1>16, HandOn DEF Handing, Inv, CoreType

LEMMA NotifyStep ==
    ASSUME Inv, NEW a \in Agents, Notify(a)
    PROVE  Inv'
  <1> PICK k, r : k = agent[a].sent + 1 /\ r = Deliver(db, agent[a].item, Item(a).data, k)
    OBVIOUS
  <1>1. agent[a].pc = "notifying" /\ UNCHANGED faults
    BY DEF Notify
  <1>2. /\ agent[a].queue = "event" /\ agent[a].item \in Ids
        /\ agent[a].item \in Nat /\ agent[a].lease \in Nat
        /\ agent[a].sent \in Nat /\ k \in Nat
        /\ agent[a].sent < Subscribers(rows["event"][agent[a].item].data)
        /\ Item(a) = rows["event"][agent[a].item]
    <2>1. agent[a].queue = "event" /\ agent[a].item \in Ids
      BY <1>1 DEF Inv, AgentInv, Shape, Busy
    <2>2. agent[a].item \in Nat /\ agent[a].lease \in Nat /\ agent[a].sent \in Nat
      BY DEF Inv, CoreType, Agent
    <2>3. agent[a].sent < Subscribers(rows["event"][agent[a].item].data)
      BY <1>1, <2>1 DEF Inv, ProgressInv, Progress
    <2> QED
      BY <2>1, <2>2, <2>3 DEF Item
  <1>3. Subscribers(Item(a).data) \in Nat
    BY <1>1, <1>2, HeldRow, KernelAssumption
       DEF Busy, KernelAssumption, Inv, RowInv, Queues
  <1>4. CASE r.error # NoError
    <2>1. ItemFails(a, r.error) /\ UNCHANGED <<rows, heard>>
      BY <1>4 DEF Notify
    <2> QED
      BY <1>1, <2>1, ItemFailsFits, IdleFits DEF Busy, Inv, CoreType
  <1>5. CASE r.error = NoError
    <2> DEFINE p == IF k = Subscribers(Item(a).data) THEN "completing" ELSE agent[a].pc
    <2>1. /\ agent' = [agent EXCEPT ![a].sent = k, ![a].pc = p]
          /\ heard' = heard \cup {<<agent[a].item, agent[a].lease, k>>}
      BY <1>5 DEF Notify, Inv, CoreType, Agent
    <2>2. /\ p \in {"completing", "notifying"} /\ p \in PCs
          /\ p = "completing" => k = Subscribers(Item(a).data)
          /\ p = "notifying" => k < Subscribers(Item(a).data)
      BY <1>1, <1>2, <1>3 DEF PCs
    <2> HIDE DEF p
    <2>3. /\ Only(a) /\ agent'[a].pc = p /\ agent'[a].sent = k
          /\ Keeps(a, {"queue", "todo", "item", "lease", "out", "round", "failed", "mine"})
      BY <1>2, <2>1, <2>2, SendMoves DEF Inv
    <2>4. /\ agent'[a].queue = "event" /\ agent'[a].item = agent[a].item
          /\ agent'[a].lease = agent[a].lease /\ agent'[a].todo = agent[a].todo
      BY <1>2, <2>3 DEF Keeps
    <2>5. Shape(agent[a])'
      BY <1>2, <2>2, <2>3, <2>4 DEF Shape, Busy
    <2>6. Onward(a) /\ Remembers(a)
      BY <1>1, <1>2, <2>2, <2>3, <2>4 DEF Onward, Remembers, Busy, Handing
    <2>7. /\ heard \subseteq heard' /\ heard' \subseteq Nat \X Nat \X Nat
          /\ \A j \in 1 .. k : <<agent[a].item, agent[a].lease, j>> \in heard'
      <3>1. ASSUME NEW j \in 1 .. k, j # k
            PROVE  <<agent[a].item, agent[a].lease, j>> \in heard
        <4>1. j \in 1 .. agent[a].sent
          BY <1>2, <3>1
        <4>2. Progress(agent[a])
          BY DEF Inv, ProgressInv
        <4> QED
          BY <1>1, <1>2, <4>1, <4>2 DEF Progress
      <3> QED
        BY <1>2, <2>1, <3>1 DEF Inv, CoreType
    <2>8. CASE r.command \in Data
      <3>1. RecordNew("command", r.command, Cause(a, k)) /\ "command" \in Queues
        BY <1>5, <2>8 DEF Notify, Queues
      <3>2. rows'["event"][agent[a].item] = rows["event"][agent[a].item]
        <4>1. PICK by : by = Cause(a, k)
          OBVIOUS
        <4>2. by \in (Queues \cup {"caller", "none"}) \X Nat \X Nat \X Nat
          BY <1>2, <4>1, CauseOf
        <4> QED
          BY <1>2, <2>8, <3>1, <4>1, <4>2, RecordNewTable DEF Queues
      <3>3. Fits(a)
        <4>1. Progress(agent[a])'
          BY <1>2, <2>2, <2>3, <2>4, <2>7, <3>2 DEF Progress
        <4> QED
          BY <2>3, <2>5, <2>6, <4>1 DEF Fits
      <3>4. agent[a].sent < k /\ k <= agent'[a].sent
        BY <1>2, <2>3
      <3> QED
        BY <1>1, <1>2, <2>4, <2>7, <2>8, <3>1, <3>3, <3>4, HandOn
           DEF Handing, Inv, CoreType
    <2>9. CASE r.command \notin Data
      <3>1. UNCHANGED rows
        BY <1>5, <2>9 DEF Notify
      <3>2. Progress(agent[a])'
        BY <1>2, <2>2, <2>3, <2>4, <2>7, <3>1 DEF Progress
      <3>3. Fits(a)
        BY <2>3, <2>5, <2>6, <3>2 DEF Fits
      <3> QED
        BY <1>1, <2>7, <3>1, <3>3, SameTable, QuietFits DEF Inv, CoreType
    <2> QED
      BY <2>8, <2>9
  <1> QED
    BY <1>4, <1>5

-----------------------------------------------------------------------------
(***************************************************************************)
(* Completing: what the agent knows of its attempt is true of the row.     *)
(***************************************************************************)
LEMMA CompleteRowStep ==
    ASSUME Inv, NEW a \in Agents, Fits(a), agent[a].pc = "completing", Owned(a),
           CompleteRow(a), UNCHANGED heard, faults' \in Nat
    PROVE  Inv'
  <1> PICK q \in Queues, n \in Ids : q = agent[a].queue /\ n = agent[a].item
    BY DEF Inv, CoreType, Agent, AgentInv, Shape, Busy
  <1>1. /\ TableOK /\ SameCauses
        /\ rows'[q][n].status = "done" /\ rows'[q][n].made = agent[a].out
        /\ rows'[q][n].attempts = agent[a].lease
        /\ rows'[q][n].data = rows[q][n].data
        /\ \A p \in Queues : \A i \in Ids : p # q \/ i # n => rows'[p][i] = rows[p][i]
    BY CompleteTable
  <1>2. /\ agent[a].sent \in Nat /\ agent[a].out \in Seq(Data) /\ Progress(agent[a])
    BY DEF Inv, CoreType, Agent, ProgressInv
  <1>3. \A p \in Queues : \A i \in Ids :
           p # q \/ i # n => (rows'[p][i].status = "done" => rows[p][i].status = "done")
    BY <1>1
  <1>4. CompletedAnnounced'
    <2> SUFFICES ASSUME NEW i \in Ids, rows'["command"][i].status = "done",
                        NEW k \in DOMAIN rows'["command"][i].made
                 PROVE  RecordedBy("event",
                            <<"command", i, rows["command"][i].attempts, k>>,
                            rows["command"][i].made[k])'
      BY DEF CompletedAnnounced
    <2>1. CASE q = "command" /\ i = n
      <3>1. k \in 1 .. agent[a].sent
        BY <1>1, <1>2, <2>1 DEF Progress
      <3> PICK cause, what : /\ cause = <<"command", n, agent[a].lease, k>>
                             /\ what = agent[a].out[k]
        OBVIOUS
      <3>2. RecordedBy("event", cause, what)
        BY <1>2, <2>1, <3>1 DEF Progress
      <3>3. cause[1] # "none" /\ Grown /\ "event" \in Queues
        BY <1>1 DEF TableOK, Queues
      <3>4. RecordedBy("event", cause, what)'
        BY <3>2, <3>3, RecordedStays
      <3> QED
        BY SMTT(30), <1>1, <2>1, <3>4 DEF RecordedBy
    <2>2. CASE q # "command" \/ i # n
      <3>1. rows["command"][i].status = "done"
        BY <1>3, <2>2 DEF Queues
      <3> QED
        BY <1>1, <3>1, AnnouncedStays
    <2> QED
      BY <2>1, <2>2
  <1>5. DeliveredToAll'
    <2> SUFFICES ASSUME NEW i \in Ids, rows'["event"][i].status = "done",
                        NEW k \in 1 .. Subscribers(rows'["event"][i].data)
                 PROVE  <<i, rows'["event"][i].attempts, k>> \in heard'
      BY DEF DeliveredToAll
    <2>1. CASE q = "event" /\ i = n
      BY <1>1, <1>2, <2>1 DEF Progress
    <2>2. CASE q # "event" \/ i # n
      <3>1. rows["event"][i].status = "done"
        BY <1>3, <2>2 DEF Queues
      <3> QED
        BY <1>1, <3>1, DeliveredStays
    <2> QED
      BY <2>1, <2>2
  <1>6. MessageBecomesCommand'
    <2> SUFFICES ASSUME NEW i \in Ids, rows'["inbox"][i].status = "done"
                 PROVE  RecordedBy("command",
                            <<"inbox", i, rows["inbox"][i].attempts, 1>>,
                            Route(rows["inbox"][i].data))'
      BY DEF MessageBecomesCommand
    <2>1. CASE q = "inbox" /\ i = n
      <3> PICK cause, what : /\ cause = <<"inbox", n, agent[a].lease, 1>>
                             /\ what = Route(rows["inbox"][n].data)
        OBVIOUS
      <3>1. RecordedBy("command", cause, what)
        BY <1>2, <2>1 DEF Progress
      <3>2. cause[1] # "none" /\ Grown /\ "command" \in Queues
        BY <1>1 DEF TableOK, Queues
      <3>3. RecordedBy("command", cause, what)'
        BY <3>1, <3>2, RecordedStays
      <3> QED
        BY ZenonT(60), <1>1, <2>1, <3>3 DEF RecordedBy
    <2>2. CASE q # "inbox" \/ i # n
      <3>1. rows["inbox"][i].status = "done"
        BY <1>3, <2>2 DEF Queues
      <3> QED
        BY <1>1, <3>1, ConvertedStays
    <2> QED
      BY <2>1, <2>2
  <1>7. CoreType' /\ AgentInv' /\ ProgressInv'
    BY <1>1, AgentsStay DEF Fits, Inv, CoreType
  <1>8. LeaseBound' /\ LeaseOnce'
    BY <1>1, LeasesStay DEF Fits
  <1>9. CauseInv' /\ CauseUnique'
    BY <1>1, CausesStay DEF Fits
  <1> QED
    BY <1>1, <1>4, <1>5, <1>6, <1>7, <1>8, <1>9 DEF Inv, TableOK

LEMMA CompleteStep ==
    ASSUME Inv, NEW a \in Agents, Complete(a)
    PROVE  Inv'
  <1>1. agent[a].pc = "completing" /\ UNCHANGED <<heard, faults>>
    BY DEF Complete
  <1>2. CASE Owned(a)
    <2>1. CompleteRow(a) /\ ItemDone(a, FALSE)
      BY <1>2 DEF Complete
    <2> QED
      BY <1>1, <1>2, <2>1, ItemDoneFits, CompleteRowStep DEF Inv, CoreType
  <1>3. CASE ~ Owned(a)
    <2>1. ItemFails(a, StorageError) /\ UNCHANGED rows
      BY <1>3 DEF Complete
    <2> QED
      BY <1>1, <2>1, ItemFailsFits, IdleFits DEF Busy, Inv, CoreType
  <1> QED
    BY <1>2, <1>3

LEMMA CompleteFailsStep ==
    ASSUME Inv, NEW a \in Agents, CompleteFails(a)
    PROVE  Inv'
  <1>1. /\ agent[a].pc = "completing" /\ UNCHANGED heard /\ faults' \in Nat
        /\ ItemFails(a, StorageError)
    BY FaultType DEF CompleteFails
  <1>2. Fits(a)
    BY <1>1, ItemFailsFits DEF Busy
  <1>3. CASE UNCHANGED rows
    BY <1>1, <1>2, <1>3, IdleFits
  <1>4. CASE Owned(a) /\ CompleteRow(a)
    BY <1>1, <1>2, <1>4, CompleteRowStep
  <1> QED
    BY <1>3, <1>4 DEF CompleteFails

-----------------------------------------------------------------------------
(***************************************************************************)
(* What rows never lose.  Only the commit of a reservation leases a row.   *)
(***************************************************************************)
LEMMA RecordGrown ==
    ASSUME Inv, NEW q \in Queues, NEW data \in Data, NEW a \in Agents, NEW k \in Nat,
           RecordNew(q, data, Cause(a, k))
    PROVE  Grown /\ OpenStays
  <1>1. PICK by : by = Cause(a, k)
    OBVIOUS
  <1>2. by \in (Queues \cup {"caller", "none"}) \X Nat \X Nat \X Nat
    BY <1>1, CauseOf
  <1> QED
    BY <1>1, <1>2, RecordNewTable DEF TableOK

LEMMA SubmitGrown ==
    ASSUME Inv, NEW r \in Requests, NEW i \in Ids,
           Record("command", i, r, <<"caller", i, 0, 0>>)
    PROVE  Grown /\ OpenStays /\ rows'["command"][i].status # "none"
  <1>1. r \in Data /\ "command" \in Queues
    BY KernelAssumption DEF KernelAssumption, Queues
  <1>2. CASE i \in Unused("command")
    <2>1. PICK by \in (Queues \cup {"caller", "none"}) \X Nat \X Nat \X Nat :
                  by = <<"caller", i, 0, 0>>
      BY CallerCause
    <2>2. /\ TableOK /\ OpenStays
          /\ rows'["command"][i].status = "open"
      BY <1>1, <1>2, <2>1, RecordTable
    <2> QED
      BY <2>2 DEF TableOK
  <1>3. CASE i \notin Unused("command")
    BY <1>1, <1>3, SameTable DEF Record, Unused, TableOK
  <1> QED
    BY <1>2, <1>3

LEMMA ReopenGrown ==
    ASSUME Inv, NEW q \in Queues, NEW i \in Ids, rows[q][i].status = "held",
           rows' = [rows EXCEPT ![q][i].status = "open"]
    PROVE  Grown /\ OpenStays
  <1>1. PICK r \in Row : /\ r.status = "open" /\ r.attempts = rows[q][i].attempts
                         /\ r.data = rows[q][i].data /\ r.by = rows[q][i].by
                         /\ rows' = [rows EXCEPT ![q][i] = r]
    BY OpenRow DEF Inv
  <1> QED
    BY ZenonT(60), <1>1, ReopenTable DEF TableOK

LEMMA FailItemGrown ==
    ASSUME Inv, NEW a \in Agents, NEW w \in BOOLEAN, w => Owned(a),
           agent[a].pc = "failing", FailItem(a, w)
    PROVE  Grown /\ OpenStays
  <1>1. CASE ~ w
    BY <1>1, SameTable DEF FailItem, TableOK
  <1>2. CASE w
    <2>1. PICK q \in Queues, n \in Ids : q = agent[a].queue /\ n = agent[a].item
      BY DEF Inv, CoreType, Agent, AgentInv, Shape, Busy
    <2>2. rows' = [rows EXCEPT ![q][n].status = "open"] /\ rows[q][n].status = "held"
      BY <1>2, <2>1 DEF FailItem, Owned, Item
    <2> QED
      BY <2>2, ReopenGrown
  <1> QED
    BY <1>1, <1>2

LEMMA CompleteGrown ==
    ASSUME Inv, NEW a \in Agents, agent[a].pc = "completing", Owned(a), CompleteRow(a)
    PROVE  Grown /\ OpenStays
  BY CompleteTable DEF TableOK, Inv, AgentInv, Shape, Busy

LEMMA WorkGrown ==
    ASSUME Inv, NEW a \in Agents, Work(a)
    PROVE  Grown /\ OpenStays
  <1>1. CASE Begin(a) \/ HandlerStep(a) \/ EndBatch(a)
    <2>1. UNCHANGED rows
      BY <1>1 DEF Begin, HandlerStep, EndBatch
    <2> QED
      BY <2>1, SameTable DEF TableOK
  <1>2. CASE Convert(a)
    <2>1. CASE UNCHANGED rows
      BY <2>1, SameTable DEF TableOK
    <2>2. CASE Route(Item(a).data) \in Data
      BY <1>2, <2>2, RecordGrown DEF Convert, Queues
    <2> QED
      BY <1>2, <2>1, <2>2 DEF Convert
  <1>3. CASE Emit(a)
    <2>1. /\ agent[a].sent \in Nat /\ agent[a].out \in Seq(Data)
          /\ agent[a].sent < Len(agent[a].out)
      BY <1>3 DEF Emit, Inv, AgentInv, Shape, Busy, CoreType, Agent
    <2>2. agent[a].out[agent[a].sent + 1] \in Data /\ agent[a].sent + 1 \in Nat
      BY <2>1
    <2> QED
      BY <1>3, <2>2, RecordGrown DEF Emit, Queues
  <1>4. CASE Notify(a)
    <2> PICK k \in Nat : k = agent[a].sent + 1
      BY DEF Inv, CoreType, Agent
    <2> DEFINE d == Deliver(db, agent[a].item, Item(a).data, k).command
    <2>1. UNCHANGED rows \/ (d \in Data /\ RecordNew("command", d, Cause(a, k)))
      BY <1>4 DEF Notify
    <2> HIDE DEF d
    <2> QED
      BY <2>1, RecordGrown, SameTable DEF Queues, TableOK
  <1>5. CASE Complete(a)
    BY <1>5, CompleteGrown, SameTable DEF Complete, TableOK
  <1>6. CASE Fail(a)
    <2>1. PICK w \in BOOLEAN : w = Owned(a)
      BY DEF Owned
    <2> QED
      BY <1>6, <2>1, FailItemGrown DEF Fail
  <1> QED
    BY <1>1, <1>2, <1>3, <1>4, <1>5, <1>6 DEF Work

(* What goes wrong, but for a reservation.                                 *)
Stumble(a) == WorkFails(a) \/ CompleteFails(a) \/ FailFails(a)

LEMMA StumbleGrown ==
    ASSUME Inv, NEW a \in Agents, Stumble(a)
    PROVE  Grown /\ OpenStays
  <1>1. CASE WorkFails(a)
    BY <1>1, SameTable DEF WorkFails, TableOK
  <1>2. CASE CompleteFails(a)
    BY <1>2, CompleteGrown, SameTable DEF CompleteFails, TableOK
  <1>3. CASE FailFails(a)
    BY <1>3, FailItemGrown DEF FailFails
  <1> QED
    BY <1>1, <1>2, <1>3 DEF Stumble

LEMMA TroubleGrown ==
    ASSUME Inv, LockInv, NEW a \in Agents, Trouble(a)
    PROVE  Grown
  <1>1. CASE ReserveFails(a)
    BY <1>1, ReserveFailsTable DEF TableOK
  <1>2. CASE Crash(a)
    BY <1>2, SameTable DEF Crash, TableOK
  <1> QED
    BY <1>1, <1>2, StumbleGrown DEF Trouble, Stumble

LEMMA ReserveGrown ==
    ASSUME Inv, LockInv, NEW a \in Agents, Reserve(a)
    PROVE  Grown
  <1>1. Leasable(agent[a].queue, locks[a]) /\ agent[a].queue \in Queues
    BY DEF LockInv, Inv, CoreType, Agent
  <1> QED
    BY <1>1, LeaseTable DEF Reserve, TableOK

-----------------------------------------------------------------------------
(***************************************************************************)
(* Open reservations: nobody touches the rows of another's.                *)
(***************************************************************************)
(* Another agent's step leaves alone where an agent is, and its rows.      *)
Untouched(b) ==
    /\ locks'[b] = locks[b]
    /\ agent'[b].pc = agent[b].pc /\ agent'[b].queue = agent[b].queue
    /\ \A i \in locks[b] :
          /\ rows'[agent[b].queue][i].status = rows[agent[b].queue][i].status
          /\ rows'[agent[b].queue][i].attempts = rows[agent[b].queue][i].attempts

LEMMA LocksStay ==
    ASSUME LockInv, locks' \in [Agents -> SUBSET Ids],
           dropped' \subseteq Ids, crowded' \subseteq Callers,
           \A b \in Agents : locks'[b] = {} \/ Untouched(b)
    PROVE  LockInv'
  <1>1. ASSUME NEW b \in Agents
        PROVE  /\ locks'[b] # {} => agent'[b].pc = "selected"
               /\ Leasable(agent[b].queue, locks[b])'
    <2>1. CASE locks'[b] = {}
      BY <2>1 DEF Leasable
    <2>2. CASE Untouched(b)
      BY <2>2 DEF Untouched, LockInv, Leasable
    <2> QED
      BY <2>1, <2>2
  <1>2. ASSUME NEW b \in Agents, NEW c \in Agents, b # c,
               agent'[b].queue = agent'[c].queue
        PROVE  locks'[b] \cap locks'[c] = {}
    BY <1>2 DEF Untouched, LockInv
  <1> QED
    BY <1>1, <1>2 DEF LockInv

LEMMA OpenUntouched ==
    ASSUME Inv, LockInv, OpenStays, NEW b \in Agents,
           agent'[b] = agent[b], locks'[b] = locks[b]
    PROVE  Untouched(b)
  <1>1. agent[b].queue \in Queues
    BY DEF Inv, CoreType, Agent
  <1> QED
    BY <1>1 DEF Untouched, LockInv, Leasable, OpenStays

(* The step of an agent that has no open reservation.                      *)
LEMMA UnlockedStep ==
    ASSUME Inv, LockInv, NEW a \in Agents, agent[a].pc # "selected",
           \A b \in Agents \ {a} : agent'[b] = agent[b],
           OpenStays, UNCHANGED claims
    PROVE  LockInv'
  <1>1. locks[a] = {}
    BY DEF LockInv
  <1>2. \A b \in Agents \ {a} : Untouched(b)
    BY OpenUntouched DEF claims
  <1> QED
    BY <1>1, <1>2, LocksStay DEF claims, LockInv

LEMMA WorkOnly ==
    ASSUME Inv, NEW a \in Agents, Work(a) \/ Stumble(a)
    PROVE  /\ \A b \in Agents \ {a} : agent'[b] = agent[b]
           /\ agent[a].pc # "selected"
           /\ UNCHANGED claims
  <1>1. agent \in [Agents -> Agent]
    BY DEF Inv, CoreType
  <1>2. CASE Begin(a)
    BY <1>1, <1>2 DEF Begin
  <1>3. CASE Convert(a)
    BY <1>1, <1>3 DEF Convert, ItemFails
  <1>4. CASE HandlerStep(a)
    BY <1>1, <1>4 DEF HandlerStep, ItemFails
  <1>5. CASE Emit(a)
    BY <1>1, <1>5 DEF Emit
  <1>6. CASE Notify(a)
    BY <1>1, <1>6 DEF Notify, ItemFails
  <1>7. CASE Complete(a) \/ CompleteFails(a)
    BY <1>1, <1>7 DEF Complete, CompleteFails, ItemDone, ItemFails
  <1>8. CASE Fail(a) \/ FailFails(a)
    BY <1>1, <1>8 DEF Fail, FailFails, FailItem, ItemDone
  <1>9. CASE EndBatch(a)
    BY <1>1, <1>9 DEF EndBatch
  <1>10. CASE WorkFails(a)
    BY <1>1, <1>10 DEF WorkFails, ItemFails
  <1> QED
    BY <1>2, <1>3, <1>4, <1>5, <1>6, <1>7, <1>8, <1>9, <1>10 DEF Work, Stumble

LEMMA SubmitLocks ==
    ASSUME Inv, LockInv, NEW c \in Callers, NEW r \in Requests, NEW i \in Ids,
           Submit(c, r, i) \/ SubmitFails(c, r, i)
    PROVE  LockInv'
  <1>1. c \in Agents /\ agent \in [Agents -> Agent]
    BY DEF Agents, Inv, CoreType
  <1>2. /\ \A b \in Agents \ {c} : agent'[b] = agent[b]
        /\ agent[c].pc # "selected" /\ UNCHANGED claims
    BY <1>1 DEF Submit, SubmitFails
  <1>3. OpenStays
    BY SubmitGrown, SameTable DEF Submit, SubmitFails
  <1> QED
    BY <1>1, <1>2, <1>3, UnlockedStep

(* It selects none of the rows that others have selected.                  *)
LEMMA SelectLocks ==
    ASSUME Inv, LockInv, NEW a \in Agents, Select(a)
    PROVE  LockInv'
  <1>1. PICK S \in Batches(agent[a].queue) : SelectBatch(a, S)
    BY DEF Select
  <1>2. S \in SUBSET Due(agent[a].queue)
    BY DEF Batches
  <1>3. /\ locks' = [locks EXCEPT ![a] = S] /\ UNCHANGED <<rows, dropped>>
        /\ crowded' \subseteq crowded \cup {a}
        /\ a \in Workers => crowded' = crowded
    BY <1>1 DEF SelectBatch
  <1>4. /\ agent'[a].pc = "selected" /\ agent'[a].queue = agent[a].queue
        /\ \A b \in Agents \ {a} : agent'[b] = agent[b]
    BY SelectMoves DEF Only, Keeps
  <1>5. S \in SUBSET Ids /\ Leasable(agent[a].queue, S)
    BY <1>2 DEF Due, Leasable
  <1>6. /\ locks' \in [Agents -> SUBSET Ids] /\ locks'[a] = S
        /\ \A b \in Agents \ {a} : locks'[b] = locks[b]
    BY <1>3, <1>5 DEF LockInv
  <1>7. ASSUME NEW b \in Agents
        PROVE  /\ locks'[b] # {} => agent'[b].pc = "selected"
               /\ Leasable(agent[b].queue, locks[b])'
    <2>1. CASE b = a
      BY <1>3, <1>4, <1>5, <1>6, <2>1 DEF Leasable
    <2>2. CASE b # a
      BY <1>3, <1>4, <1>6, <2>2 DEF LockInv, Leasable
    <2> QED
      BY <2>1, <2>2
  <1>8. \A b \in Agents \ {a} : agent[b].queue = agent[a].queue => S \cap locks[b] = {}
    BY <1>2 DEF Due, Locked
  <1>9. ASSUME NEW b \in Agents, NEW c \in Agents, b # c,
               agent'[b].queue = agent'[c].queue
        PROVE  locks'[b] \cap locks'[c] = {}
    <2>1. CASE b = a
      BY <1>4, <1>6, <1>8, <1>9, <2>1
    <2>2. CASE c = a
      BY <1>4, <1>6, <1>8, <1>9, <2>2
    <2>3. CASE b # a /\ c # a
      BY <1>4, <1>6, <1>9, <2>3 DEF LockInv
    <2> QED
      BY <2>1, <2>2, <2>3
  <1>10. dropped' \subseteq Ids /\ crowded' \subseteq Callers
    BY <1>3 DEF LockInv, Agents
  <1> QED
    BY <1>6, <1>7, <1>9, <1>10 DEF LockInv

(* It ends: the rows it leased, or gave up, are nobody else's.             *)
LEMMA EndLocks ==
    ASSUME Inv, LockInv, NEW a \in Agents, Unlock(a),
           \A b \in Agents \ {a} : agent'[b] = agent[b],
           \A p \in Queues : \A i \in Ids :
              p # agent[a].queue \/ i \notin locks[a] => rows'[p][i] = rows[p][i],
           dropped' \subseteq dropped \cup locks[a], UNCHANGED crowded
    PROVE  LockInv'
  <1>1. /\ locks' \in [Agents -> SUBSET Ids] /\ locks'[a] = {}
        /\ \A b \in Agents \ {a} : locks'[b] = locks[b]
    BY DEF Unlock, LockInv
  <1>2. ASSUME NEW b \in Agents \ {a} PROVE Untouched(b)
    <2>1. agent[b].queue \in Queues /\ locks[b] \subseteq Ids
      BY DEF Inv, CoreType, Agent, LockInv
    <2>2. ASSUME NEW i \in locks[b]
          PROVE  rows'[agent[b].queue][i] = rows[agent[b].queue][i]
      <3>1. agent[b].queue # agent[a].queue \/ i \notin locks[a]
        BY <2>2 DEF LockInv
      <3> QED
        BY <2>1, <3>1
    <2> QED
      BY <1>1, <2>2 DEF Untouched
  <1>3. dropped' \subseteq Ids /\ crowded' \subseteq Callers
    BY DEF LockInv
  <1> QED
    BY <1>1, <1>2, <1>3, LocksStay

LEMMA ReserveLocks ==
    ASSUME Inv, LockInv, NEW a \in Agents, Reserve(a)
    PROVE  LockInv'
  <1>1. Leasable(agent[a].queue, locks[a]) /\ agent[a].queue \in Queues
    BY DEF LockInv, Inv, CoreType, Agent
  <1>2. /\ Unlock(a) /\ Lease(agent[a].queue, locks[a])
        /\ UNCHANGED <<dropped, crowded>>
    BY DEF Reserve
  <1>3. \A p \in Queues : \A i \in Ids :
           p # agent[a].queue \/ i \notin locks[a] => rows'[p][i] = rows[p][i]
    BY <1>1, <1>2, LeaseTable
  <1>4. \A b \in Agents \ {a} : agent'[b] = agent[b]
    BY DEF Reserve, Inv, CoreType
  <1> QED
    BY <1>2, <1>3, <1>4, EndLocks

LEMMA ReserveFailsLocks ==
    ASSUME Inv, LockInv, NEW a \in Agents, ReserveFails(a)
    PROVE  LockInv'
  <1>1. \A b \in Agents \ {a} : agent'[b] = agent[b]
    BY ReserveFailsMoves DEF Only
  <1>2. /\ Unlock(a) /\ dropped' \subseteq dropped \cup locks[a] /\ UNCHANGED crowded
    BY DEF ReserveFails, RollBack
  <1> QED
    BY <1>1, <1>2, ReserveFailsTable, EndLocks

LEMMA CrashLocks ==
    ASSUME Inv, LockInv, NEW a \in Agents, Crash(a)
    PROVE  LockInv'
  <1>1. \A b \in Agents \ {a} : agent'[b] = agent[b]
    BY DEF Crash, Inv, CoreType
  <1>2. /\ Unlock(a) /\ dropped' \subseteq dropped \cup locks[a]
        /\ UNCHANGED <<crowded, rows>>
    BY DEF Crash, RollBack
  <1> QED
    BY <1>1, <1>2, EndLocks

LEMMA SweepLocks ==
    ASSUME Inv, LockInv, NEW q \in Swept, NEW i \in Ids, Sweep(q, i)
    PROVE  LockInv'
  <1>1. OpenStays
    BY ReopenGrown, KernelAssumption DEF Sweep, KernelAssumption
  <1>2. UNCHANGED <<agent, claims>>
    BY DEF Sweep
  <1>3. \A b \in Agents : Untouched(b)
    BY <1>1, <1>2, OpenUntouched DEF claims
  <1> QED
    BY <1>2, <1>3, LocksStay DEF claims, LockInv

LEMMA NextLocks ==
    ASSUME Inv, LockInv, [Next]_vars
    PROVE  LockInv'
  <1>1. ASSUME NEW a \in Agents, Work(a) \/ Stumble(a) PROVE LockInv'
    BY <1>1, WorkGrown, StumbleGrown, WorkOnly, UnlockedStep
  <1>2. ASSUME NEW a \in Agents, Trouble(a) PROVE LockInv'
    BY <1>1, <1>2, ReserveFailsLocks, CrashLocks DEF Trouble, Stumble
  <1>3. CASE UNCHANGED vars
    BY <1>3 DEF vars, claims, LockInv, Leasable
  <1> QED
    BY <1>1, <1>2, <1>3, SubmitLocks, SelectLocks, ReserveLocks, SweepLocks
       DEF Next, KernelStep

-----------------------------------------------------------------------------
(***************************************************************************)
(* The theorems.                                                           *)
(***************************************************************************)
(* A stutter, or a step that only counts a fault.                          *)
FaultOnly == UNCHANGED <<rows, agent, heard>> /\ faults' \in Nat

LEMMA FaultOnlyInv ==
    ASSUME Inv, FaultOnly
    PROVE  Inv'
  <1>1. CoreType' /\ RowInv' /\ AgentInv'
    BY DEF FaultOnly, Inv, CoreType, RowInv, AgentInv, Shape, Busy
  <1>2. ProgressInv'
    BY DEF FaultOnly, Inv, ProgressInv, Progress, RecordedBy
  <1>3. LeaseBound' /\ LeaseOnce'
    BY DEF FaultOnly, Inv, LeaseBound, LeaseOnce, Leases, Busy
  <1>4. CauseUnique'
    BY DEF FaultOnly, Inv, CauseUnique
  <1>5. CauseInv'
    <2> SUFFICES ASSUME NEW q \in Queues, NEW i \in Ids
                 PROVE  RowCause(q, i)' /\ \A a \in Agents : CausedOnce(q, i, a)'
      BY DEF CauseInv
    <2>1. RowCause(q, i) /\ \A a \in Agents : CausedOnce(q, i, a)
      BY DEF Inv, CauseInv
    <2>2. rows' = rows /\ agent' = agent
      BY DEF FaultOnly
    <2>3. RowCause(q, i)'
      BY <2>1, <2>2 DEF RowCause
    <2>4. ASSUME NEW a \in Agents PROVE CausedOnce(q, i, a)'
      BY <2>1, <2>2 DEF CausedOnce
    <2> QED
      BY <2>3, <2>4
  <1>6. CompletedAnnounced' /\ DeliveredToAll' /\ MessageBecomesCommand'
    BY SameTable, PromisesStay DEF FaultOnly, Inv
  <1> QED
    BY <1>1, <1>2, <1>3, <1>4, <1>5, <1>6 DEF Inv

LEMMA NextInv == Inv /\ LockInv /\ [Next]_vars => Inv' /\ LockInv'
  <1> SUFFICES ASSUME Inv, LockInv, [Next]_vars PROVE Inv'
    BY NextLocks
  <1>1. ASSUME NEW c \in Callers, NEW r \in Requests, NEW i \in Ids, Submit(c, r, i)
        PROVE  Inv'
    BY <1>1, SubmitStep
  <1>2. ASSUME NEW c \in Callers, NEW r \in Requests, NEW i \in Ids, SubmitFails(c, r, i)
        PROVE  Inv'
    BY <1>2, SubmitFailsStep
  <1>3. ASSUME NEW a \in Agents, Select(a) \/ Reserve(a) PROVE Inv'
    BY <1>3, SelectStep, ReserveStep
  <1>4. ASSUME NEW a \in Agents, Work(a) PROVE Inv'
    BY <1>4, BeginStep, ConvertStep, HandlerStepStep, EmitStep, NotifyStep,
       CompleteStep, FailStep, EndBatchStep DEF Work
  <1>5. ASSUME NEW a \in Agents, Trouble(a) PROVE Inv'
    BY <1>5, ReserveFailsStep, WorkFailsStep, CompleteFailsStep, FailFailsStep,
       CrashStep DEF Trouble
  <1>6. ASSUME NEW q \in Swept, NEW i \in Ids, Sweep(q, i) PROVE Inv'
    BY <1>6, SweepStep
  <1>7. CASE UNCHANGED vars
    <2>1. FaultOnly
      BY <1>7 DEF vars, FaultOnly, Inv, CoreType
    <2> QED
      BY <2>1, FaultOnlyInv
  <1> QED
    BY <1>1, <1>2, <1>3, <1>4, <1>5, <1>6, <1>7 DEF Next, KernelStep

(* The invariant of the pipeline: every step of dispatch_command, of the   *)
(* workers, of the sweepers and of what goes wrong preserves it, the locks *)
(* of the reservations in flight included.                                 *)
THEOREM Invariance == Spec => [](Inv /\ LockInv)
  <1> QED
    BY InitInv, InitLocks, NextInv, PTL DEF Spec

(* The tables, the agents and the reservations keep their types.           *)
THEOREM TypeCorrect == Spec => []TypeOK
  <1>1. Inv /\ LockInv => TypeOK
    BY DEF Inv, LockInv, CoreType, TypeOK
  <1> QED
    BY <1>1, Invariance, PTL

(* A command completed by HandlerWrapper and CommandConsumer has each of   *)
(* the events its handler returned recorded, whatever the handlers are.    *)
THEOREM CompletedCommandsAreAnnounced == Spec => []CompletedAnnounced
  <1>1. Inv => CompletedAnnounced
    BY DEF Inv
  <1> QED
    BY <1>1, Invariance, PTL

(* An event completed by EventConsumer was heard by every subscriber of    *)
(* EventSubscriberRegistry under the lease that completed it.              *)
THEOREM CompletedEventsAreDelivered == Spec => []DeliveredToAll
  <1>1. Inv => DeliveredToAll
    BY DEF Inv
  <1> QED
    BY <1>1, Invariance, PTL

(* A message completed by InboxConsumer has its command recorded by the    *)
(* attempt that completed it.                                              *)
THEOREM CompletedMessagesAreCommands == Spec => []MessageBecomesCommand
  <1>1. Inv => MessageBecomesCommand
    BY DEF Inv
  <1> QED
    BY <1>1, Invariance, PTL

(* No part of the work done under a lease is recorded twice, with any      *)
(* number of workers and callers consuming the same queues.                *)
THEOREM CausesAreUnique == Spec => []CauseUnique
  <1>1. Inv => CauseUnique
    BY DEF Inv
  <1> QED
    BY <1>1, Invariance, PTL

-----------------------------------------------------------------------------
(***************************************************************************)
(* A dispatch_command that returns Ok, and never found its batches full,   *)
(* had its command taken up: tried, or in a reservation that is open or    *)
(* that broke off.                                                         *)
(***************************************************************************)
Taken(i) ==
    \/ rows["command"][i].attempts > 0
    \/ i \in Locked("command") \cup dropped

Call(c) ==
    /\ agent[c].pc = "idle" => agent[c].queue = "command" /\ agent[c].round = 0
    /\ agent[c].pc \notin {"idle", "gone"} /\ ~ (agent[c].pc = "returned" /\ agent[c].failed) =>
           /\ agent[c].mine \in Ids
           /\ rows["command"][agent[c].mine].status # "none"
           /\ \/ c \in crowded
              \/ Taken(agent[c].mine)
              \/ /\ agent[c].pc = "reserving"
                 /\ agent[c].queue = "command"
                 /\ agent[c].round = 0

CallInv == \A c \in Callers : Call(c)

(* What the calls of others need of a step.                                *)
Upholds ==
    \A i \in Ids :
        /\ rows["command"][i].status # "none" => rows'["command"][i].status # "none"
        /\ Taken(i) => Taken(i)'

LEMMA TriedStays ==
    ASSUME Inv, Inv', Grown, NEW i \in Ids, rows["command"][i].attempts > 0
    PROVE  rows'["command"][i].attempts > 0
  <1>1. /\ rows["command"][i].attempts \in Nat /\ rows'["command"][i].attempts \in Nat
        /\ rows["command"][i].attempts <= rows'["command"][i].attempts
    BY DEF Inv, CoreType, Row, Grown, Queues
  <1> QED
    BY <1>1

(* The reservations stand.                                                 *)
LEMMA LocksUphold ==
    ASSUME Inv, Inv', Grown, UNCHANGED dropped,
           \A b \in Agents : locks[b] # {} =>
               locks'[b] = locks[b] /\ agent'[b].queue = agent[b].queue
    PROVE  Upholds
  <1>1. Locked("command") \subseteq Locked("command")'
    BY DEF Locked
  <1>2. ASSUME NEW i \in Ids, Taken(i) PROVE Taken(i)'
    BY <1>1, <1>2, TriedStays DEF Taken
  <1> QED
    BY <1>2 DEF Upholds, Grown, Queues

LEMMA UnlockedUpholds ==
    ASSUME Inv, Inv', LockInv, Grown, UNCHANGED claims, NEW a \in Agents,
           agent[a].pc # "selected", \A b \in Agents \ {a} : agent'[b] = agent[b]
    PROVE  Upholds
  BY LocksUphold DEF LockInv, claims

(* A reservation ends: its commands have been tried, or were dropped.      *)
LEMMA EndUpholds ==
    ASSUME Inv, Inv', LockInv, Grown, NEW a \in Agents, Unlock(a),
           \A b \in Agents \ {a} : agent'[b] = agent[b],
           dropped \subseteq dropped',
           agent[a].queue = "command" =>
               \A i \in locks[a] : i \in dropped' \/ rows'["command"][i].attempts > 0
    PROVE  Upholds
  <1>1. \A b \in Agents \ {a} : locks'[b] = locks[b]
    BY DEF Unlock, LockInv
  <1>2. ASSUME NEW i \in Ids, Taken(i) PROVE Taken(i)'
    <2>1. CASE rows["command"][i].attempts > 0
      BY <2>1, TriedStays DEF Taken
    <2>2. CASE i \in dropped
      BY <2>2 DEF Taken
    <2>3. CASE i \in Locked("command")
      <3>1. PICK b \in Agents : agent[b].queue = "command" /\ i \in locks[b]
        BY <2>3 DEF Locked
      <3>2. CASE b = a
        BY <3>1, <3>2 DEF Taken
      <3>3. CASE b # a
        BY <1>1, <3>1, <3>3 DEF Taken, Locked
      <3> QED
        BY <3>2, <3>3
    <2> QED
      BY <1>2, <2>1, <2>2, <2>3 DEF Taken
  <1> QED
    BY <1>2 DEF Upholds, Grown, Queues

(* The step of the agent a is no matter of the others' calls.              *)
LEMMA OtherCalls ==
    ASSUME Upholds, CallInv, NEW a \in Agents,
           crowded' \ {a} = crowded \ {a},
           \A b \in Agents \ {a} : agent'[b] = agent[b],
           a \in Callers => Call(a)'
    PROVE  CallInv'
  <1> SUFFICES ASSUME NEW c \in Callers PROVE Call(c)'
    BY DEF CallInv
  <1>1. CASE c = a
    BY <1>1
  <1>2. CASE c # a
    <2>1. agent'[c] = agent[c] /\ Call(c) /\ (c \in crowded' <=> c \in crowded)
      BY <1>2 DEF Agents, CallInv
    <2> QED
      BY <2>1 DEF Call, Upholds
  <1> QED
    BY <1>1, <1>2

LEMMA SameCalls ==
    ASSUME Upholds, CallInv, UNCHANGED crowded, \A c \in Callers : agent'[c] = agent[c]
    PROVE  CallInv'
  BY DEF CallInv, Call, Upholds

(* A call at work goes on; one that is over, or an error, says nothing.    *)
LEMMA CallGoesOn ==
    ASSUME Upholds, CallInv, UNCHANGED crowded, NEW a \in Agents, Only(a),
           a \in Callers =>
               /\ agent[a].pc \notin {"idle", "reserving", "returned", "gone"}
               /\ agent'[a].pc # "idle"
               /\ agent'[a].mine = agent[a].mine
    PROVE  CallInv'
  <1>1. ASSUME a \in Callers PROVE Call(a)'
    <2>1. /\ agent[a].mine \in Ids
          /\ rows["command"][agent[a].mine].status # "none"
          /\ a \in crowded \/ Taken(agent[a].mine)
      BY <1>1 DEF CallInv, Call
    <2> QED
      BY <1>1, <2>1 DEF Call, Upholds
  <1> QED
    BY <1>1, OtherCalls DEF Only

LEMMA CallEnds ==
    ASSUME Upholds, CallInv, UNCHANGED crowded, NEW a \in Agents,
           \A b \in Agents \ {a} : agent'[b] = agent[b],
           a \in Callers => \/ agent'[a].pc = "gone"
                            \/ agent'[a].pc = "returned" /\ agent'[a].failed
    PROVE  CallInv'
  BY OtherCalls DEF Call

LEMMA ItemFailsCalls ==
    ASSUME Inv, Upholds, UNCHANGED crowded, CallInv, NEW a \in Agents, NEW reason,
           ItemFails(a, reason), agent[a].pc \in Busy
    PROVE  CallInv'
  <1>1. agent' = [agent EXCEPT ![a].pc = "failing"] /\ "failing" \in PCs
    BY DEF ItemFails, PCs
  <1>2. /\ Only(a) /\ agent'[a].pc = "failing"
        /\ Keeps(a, {"queue", "todo", "item", "lease", "out", "sent", "round",
                     "failed", "mine"})
    BY <1>1, PcMoves DEF Inv
  <1> QED
    BY <1>2, CallGoesOn DEF Keeps, Busy

LEMMA ItemDoneCalls ==
    ASSUME Inv, Upholds, UNCHANGED crowded, CallInv, NEW a \in Agents, NEW f \in BOOLEAN,
           ItemDone(a, f), agent[a].pc \in Busy
    PROVE  CallInv'
  <1> DEFINE p == IF agent[a].todo = {} /\ a \in Workers THEN "idle" ELSE "batch"
             g == a \in Callers /\ (agent[a].failed \/ f)
  <1>1. agent' = [agent EXCEPT ![a].pc = p, ![a].item = 0, ![a].lease = 0,
                               ![a].out = <<>>, ![a].sent = 0, ![a].failed = g]
    BY DEF ItemDone
  <1>2. p \in PCs /\ g \in BOOLEAN
    BY DEF PCs
  <1>3. a \in Callers => p = "batch"
    BY KernelAssumption DEF KernelAssumption
  <1> HIDE DEF p, g
  <1>4. Only(a) /\ Keeps(a, {"queue", "todo", "round", "mine"}) /\ agent'[a].pc = p
    BY <1>1, <1>2, DoneMoves DEF Inv
  <1> QED
    BY <1>3, <1>4, CallGoesOn DEF Keeps, Busy

LEMMA FailItemCalls ==
    ASSUME Inv, Upholds, UNCHANGED crowded, CallInv, NEW a \in Agents, NEW w \in BOOLEAN,
           agent[a].pc = "failing", FailItem(a, w)
    PROVE  CallInv'
  BY ItemDoneCalls DEF FailItem, Busy

LEMMA WorkCalls ==
    ASSUME Inv, Upholds, UNCHANGED crowded, CallInv, NEW a \in Agents, Work(a)
    PROVE  CallInv'
  <1>1. CASE Begin(a)
    <2>1. PICK l \in agent[a].todo :
             agent' = [agent EXCEPT
                ![a].pc = FirstStep(agent[a].queue, rows[agent[a].queue][l[1]].data),
                ![a].item = l[1], ![a].lease = l[2], ![a].todo = @ \ {l}]
      BY <1>1 DEF Begin
    <2> DEFINE p == FirstStep(agent[a].queue, rows[agent[a].queue][l[1]].data)
    <2>2. agent[a].queue \in Queues
      BY DEF Inv, CoreType, Agent
    <2>3. p \in Busy
      BY <2>2 DEF FirstStep, Queues, Busy
    <2>4. agent' = [agent EXCEPT ![a].pc = p, ![a].item = l[1], ![a].lease = l[2],
                                 ![a].todo = @ \ {l}]
      BY <2>1
    <2> HIDE DEF p
    <2>5. /\ Only(a) /\ agent'[a].pc = p
          /\ Keeps(a, {"queue", "out", "sent", "round", "failed", "mine"})
      BY <2>3, <2>4, BeginMoves DEF Inv, Busy, PCs
    <2> QED
      BY <1>1, <2>3, <2>5, CallGoesOn DEF Begin, Keeps, Busy
  <1>2. CASE Convert(a)
    <2>1. CASE agent' = [agent EXCEPT ![a].pc = "completing"]
      <3>1. /\ Only(a) /\ agent'[a].pc = "completing"
            /\ Keeps(a, {"queue", "todo", "item", "lease", "out", "sent", "round",
                         "failed", "mine"})
        BY <2>1, PcMoves DEF Inv, PCs
      <3> QED
        BY <1>2, <3>1, CallGoesOn DEF Convert, Keeps
    <2> QED
      BY <1>2, <2>1, ItemFailsCalls DEF Convert, Busy
  <1>3. CASE HandlerStep(a)
    <2> DEFINE events == Execute(db, Item(a).data, memory[a]).events
               reason == Execute(db, Item(a).data, memory[a]).error
               p == IF events = <<>> THEN "completing" ELSE "emitting"
    <2>1. \/ UNCHANGED agent
          \/ /\ events \in Seq(Data)
             /\ agent' = [agent EXCEPT ![a].pc = p, ![a].out = events]
          \/ ItemFails(a, reason)
      BY <1>3 DEF HandlerStep
    <2> HIDE DEF events, reason
    <2>2. CASE UNCHANGED agent
      BY <1>3, <2>2, CallGoesOn DEF HandlerStep, Only, Inv, CoreType
    <2>3. CASE ItemFails(a, reason)
      BY <1>3, <2>3, ItemFailsCalls DEF HandlerStep, Busy
    <2>4. CASE /\ events \in Seq(Data)
               /\ agent' = [agent EXCEPT ![a].pc = p, ![a].out = events]
      <3>1. p \in {"completing", "emitting"} /\ p \in PCs
        BY DEF PCs
      <3> HIDE DEF p
      <3>2. /\ Only(a) /\ agent'[a].pc = p
            /\ Keeps(a, {"queue", "todo", "item", "lease", "sent", "round", "failed", "mine"})
        BY <2>4, <3>1, ReturnMoves DEF Inv
      <3> QED
        BY <1>3, <3>1, <3>2, CallGoesOn DEF HandlerStep, Keeps
    <2> QED
      BY <2>1, <2>2, <2>3, <2>4
  <1>4. CASE Emit(a) \/ (Notify(a) /\ ~ \E reason : ItemFails(a, reason))
    <2> PICK k \in Nat : k = agent[a].sent + 1
      BY DEF Inv, CoreType, Agent
    <2>1. \E p \in PCs \ {"idle"} : agent' = [agent EXCEPT ![a].sent = k, ![a].pc = p]
      <3>1. CASE Emit(a)
        <4> DEFINE p == IF k = Len(agent[a].out) THEN "completing" ELSE agent[a].pc
        <4>1. agent' = [agent EXCEPT ![a].sent = k, ![a].pc = p]
          BY <3>1 DEF Emit, Inv, CoreType, Agent
        <4> QED
          BY <3>1, <4>1 DEF Emit, PCs
      <3>2. CASE Notify(a) /\ ~ \E reason : ItemFails(a, reason)
        <4> DEFINE p == IF k = Subscribers(Item(a).data) THEN "completing" ELSE agent[a].pc
        <4>1. agent' = [agent EXCEPT ![a].sent = k, ![a].pc = p]
          BY <3>2 DEF Notify, Inv, CoreType, Agent
        <4> QED
          BY <3>2, <4>1 DEF Notify, PCs
      <3> QED
        BY <1>4, <3>1, <3>2
    <2>2. PICK p \in PCs \ {"idle"} : agent' = [agent EXCEPT ![a].sent = k, ![a].pc = p]
      BY <2>1
    <2>3. /\ Only(a) /\ agent'[a].pc = p
          /\ Keeps(a, {"queue", "todo", "item", "lease", "out", "round", "failed", "mine"})
      BY <2>2, SendMoves DEF Inv
    <2> QED
      BY <1>4, <2>3, CallGoesOn DEF Emit, Notify, Keeps
  <1>5. CASE Notify(a) /\ \E reason : ItemFails(a, reason)
    BY <1>5, ItemFailsCalls DEF Notify, Busy
  <1>6. CASE Complete(a)
    BY <1>6, ItemDoneCalls, ItemFailsCalls DEF Complete, Busy
  <1>7. CASE Fail(a)
    <2>1. PICK w \in BOOLEAN : w = Owned(a)
      BY DEF Owned
    <2> QED
      BY <1>7, <2>1, FailItemCalls DEF Fail
  <1>8. CASE EndBatch(a)
    <2> DEFINE last == agent[a].queue = "event" /\ agent[a].round + 1 = Rounds
               p == IF agent[a].failed \/ last THEN "returned" ELSE "reserving"
               q == IF agent[a].queue = "command" THEN "event" ELSE "command"
               n == IF agent[a].queue = "event" THEN agent[a].round + 1 ELSE agent[a].round
    <2>1. agent[a] \in Agent
      BY DEF Inv, CoreType
    <2>2. agent' = [agent EXCEPT ![a].pc = p, ![a].queue = q, ![a].round = n]
      BY <1>8, <2>1 DEF EndBatch
    <2>3. p \in PCs \ {"idle"} /\ q \in Queues /\ n \in Nat
      BY <2>1 DEF PCs, Queues, Agent
    <2> HIDE DEF p, q, n
    <2>4. /\ Only(a) /\ agent'[a].pc = p
          /\ Keeps(a, {"todo", "item", "lease", "out", "sent", "failed", "mine"})
      BY <2>2, <2>3, RoundMoves DEF Inv
    <2> QED
      BY <1>8, <2>3, <2>4, CallGoesOn DEF EndBatch, Keeps
  <1> QED
    BY <1>1, <1>2, <1>3, <1>4, <1>5, <1>6, <1>7, <1>8 DEF Work

-----------------------------------------------------------------------------
(* A batch that is not full holds a command never tried, or another        *)
(* reservation does; the first batch that is full puts the caller among    *)
(* the crowded.                                                            *)
LEMMA SelectCalls ==
    ASSUME Inv, LockInv, Inv', ClocksAgree, CallInv, NEW a \in Agents, Select(a)
    PROVE  CallInv'
  <1>1. PICK S \in Batches(agent[a].queue) : SelectBatch(a, S)
    BY DEF Select
  <1>2. /\ Only(a) /\ agent'[a].pc = "selected" /\ MayReserve(a) /\ agent[a].pc # "selected"
        /\ agent'[a].queue = agent[a].queue /\ agent'[a].mine = agent[a].mine
        /\ UNCHANGED <<rows, dropped>>
    BY SelectMoves DEF Keeps, MayReserve
  <1>3. locks[a] = {} /\ locks' = [locks EXCEPT ![a] = S]
    BY <1>1, <1>2 DEF LockInv, SelectBatch
  <1>4. locks'[a] = S /\ \A b \in Agents \ {a} : locks'[b] = locks[b]
    BY <1>3 DEF LockInv
  <1>5. Grown
    BY <1>2, SameTable DEF TableOK
  <1>6. Upholds
    BY <1>2, <1>3, <1>4, <1>5, LocksUphold DEF Only
  <1>7. crowded' \ {a} = crowded \ {a}
    BY <1>1 DEF SelectBatch
  <1>8. ASSUME a \in Callers PROVE Call(a)'
    <2> PICK m : m = agent[a].mine
      OBVIOUS
    <2>1. agent[a].pc = "reserving" /\ a \notin Workers
      BY <1>2, <1>8, KernelAssumption DEF MayReserve, KernelAssumption
    <2>2. /\ m \in Ids /\ rows["command"][m].status # "none"
          /\ \/ a \in crowded
             \/ Taken(m)
             \/ agent[a].queue = "command" /\ agent[a].round = 0
      BY <1>8, <2>1 DEF CallInv, Call
    <2>3. rows'["command"][m].status # "none" /\ (Taken(m) => Taken(m)')
      BY <1>6, <2>2 DEF Upholds
    <2>4. a \in crowded' \/ Taken(m)'
      <3>1. CASE agent[a].queue # "command"
        <4>1. crowded' = crowded
          BY <1>1, <3>1 DEF SelectBatch
        <4> QED
          BY <2>2, <2>3, <3>1, <4>1
      <3>2. CASE agent[a].queue = "command" /\ Cardinality(S) < Limit
        <4>1. \A i \in Due("command") \ S : rows["command"][i].attempts > 0
          BY <3>2 DEF Batches
        <4>2. CASE m \in S
          <5>1. m \in Locked("command")'
            BY <1>2, <1>4, <3>2, <4>2 DEF Locked
          <5> QED
            BY <5>1 DEF Taken
        <4>3. CASE m \in Locked("command") \/ rows["command"][m].attempts > 0
          BY <2>3, <4>3 DEF Taken
        <4>4. CASE m \notin S /\ m \notin Locked("command") /\ ~ (rows["command"][m].attempts > 0)
          <5>1. rows["command"][m] \in Row /\ "command" \in Queues
            BY <2>2 DEF Inv, CoreType, Queues
          <5>2. rows["command"][m].attempts = 0
            BY <4>4, <5>1 DEF Row
          <5>3. rows["command"][m].status = "open"
            BY <2>2, <5>1, <5>2 DEF Row, Inv, RowInv
          <5>4. m \in Due("command")
            BY <2>2, <4>4, <5>2, <5>3, KernelAssumption DEF Due, KernelAssumption
          <5> QED
            BY <4>1, <4>4, <5>4
        <4> QED
          BY <4>2, <4>3, <4>4
      <3>3. CASE agent[a].queue = "command" /\ ~ (Cardinality(S) < Limit)
        <4>1. crowded' = IF agent[a].round = 0 THEN crowded \cup {a} ELSE crowded
          BY <1>1, <2>1, <3>3 DEF SelectBatch
        <4> QED
          BY <2>2, <2>3, <4>1
      <3> QED
        BY <3>1, <3>2, <3>3
    <2> QED
      BY <1>2, <2>2, <2>3, <2>4 DEF Call
  <1> QED
    BY <1>2, <1>6, <1>7, <1>8, OtherCalls DEF Only

LEMMA ReserveCalls ==
    ASSUME Inv, LockInv, Inv', CallInv, NEW a \in Agents, Reserve(a)
    PROVE  CallInv'
  <1> PICK q \in Queues : q = agent[a].queue
    BY DEF Inv, CoreType, Agent
  <1> PICK S : S = locks[a]
    OBVIOUS
  <1>1. /\ agent[a].pc = "selected" /\ Leasable(q, S) /\ Lease(q, S)
        /\ Unlock(a) /\ UNCHANGED <<dropped, crowded>>
    BY DEF Reserve, LockInv
  <1>2. /\ Grown /\ S \subseteq Ids
        /\ \A i \in S : rows'[q][i].attempts = rows[q][i].attempts + 1
    BY <1>1, LeaseTable DEF TableOK
  <1>3. \A i \in Ids : rows[q][i].attempts \in Nat
    BY DEF Inv, CoreType, Row
  <1> DEFINE T == {<<i, rows[q][i].attempts + 1>> : i \in S}
  <1>4. T \in SUBSET (Ids \X Nat)
    BY <1>2, <1>3
  <1>5. agent' = [agent EXCEPT ![a].pc = "batch", ![a].todo = T]
    BY DEF Reserve
  <1> HIDE DEF T
  <1>6. /\ Only(a) /\ agent'[a].pc = "batch" /\ agent'[a].mine = agent[a].mine
    BY <1>4, <1>5, ReserveMoves DEF Inv, Keeps
  <1>7. q = "command" => \A i \in S : rows'["command"][i].attempts > 0
    BY <1>2, <1>3
  <1>8. Upholds
    BY <1>1, <1>2, <1>6, <1>7, EndUpholds DEF Only
  <1> QED
    BY <1>1, <1>6, <1>8, CallGoesOn

LEMMA SubmitCalls ==
    ASSUME Inv, LockInv, Inv', Rounds > 0, CallInv,
           NEW c \in Callers, NEW r \in Requests, NEW i \in Ids, Submit(c, r, i)
    PROVE  CallInv'
  <1> PICK a \in Agents : a = c
    BY DEF Agents
  <1>1. /\ agent[a].pc = "idle" /\ UNCHANGED claims
        /\ Grown /\ rows'["command"][i].status # "none"
    BY SubmitGrown DEF Submit
  <1>2. agent' = [agent EXCEPT ![a].pc = "reserving", ![a].mine = i]
    <2>1. Rounds # 0
      BY KernelAssumption DEF KernelAssumption
    <2> QED
      BY <2>1 DEF Submit
  <1>3. /\ Only(a) /\ agent'[a].pc = "reserving" /\ agent'[a].mine = i
        /\ agent'[a].queue = agent[a].queue /\ agent'[a].round = agent[a].round
    <2>1. PICK p \in PCs : p = "reserving"
      BY DEF PCs
    <2>2. /\ Only(a) /\ agent'[a].pc = p /\ agent'[a].mine = i
          /\ Keeps(a, {"queue", "todo", "item", "lease", "out", "sent", "round", "failed"})
      BY <1>2, <2>1, SubmitMoves DEF Inv
    <2> QED
      BY <2>1, <2>2 DEF Keeps
  <1>4. agent[a].queue = "command" /\ agent[a].round = 0
    BY <1>1 DEF CallInv, Call
  <1>5. Call(a)'
    BY <1>1, <1>3, <1>4 DEF Call
  <1>6. Upholds
    BY <1>1, <1>3, UnlockedUpholds DEF Only
  <1> QED
    BY <1>1, <1>3, <1>5, <1>6, OtherCalls DEF claims, Only

LEMMA SubmitFailsCalls ==
    ASSUME Inv, LockInv, Inv', CallInv,
           NEW c \in Callers, NEW r \in Requests, NEW i \in Ids, SubmitFails(c, r, i)
    PROVE  CallInv'
  <1> PICK a \in Agents : a = c
    BY DEF Agents
  <1>1. /\ agent[a].pc = "idle" /\ UNCHANGED claims
        /\ agent' = [agent EXCEPT ![a].pc = "returned", ![a].failed = TRUE]
    BY DEF SubmitFails
  <1>2. Only(a) /\ agent'[a].pc = "returned" /\ agent'[a].failed = TRUE
    BY <1>1, StopMoves DEF Inv
  <1>3. Grown
    BY SubmitGrown, SameTable DEF SubmitFails, TableOK
  <1>4. Upholds
    BY <1>1, <1>2, <1>3, UnlockedUpholds DEF Only
  <1> QED
    BY <1>1, <1>2, <1>4, CallEnds DEF claims, Only

(* The reservation fails: what it had selected is tried, or dropped.       *)
LEMMA ReserveFailsCalls ==
    ASSUME Inv, LockInv, Inv', CallInv, NEW a \in Agents, ReserveFails(a)
    PROVE  CallInv'
  <1>1. /\ \A b \in Agents \ {a} : agent'[b] = agent[b]
        /\ a \in Callers => agent'[a].pc = "returned" /\ agent'[a].failed = TRUE
    BY ReserveFailsMoves DEF Only
  <1>2. Grown
    BY ReserveFailsTable DEF TableOK
  <1>3. Unlock(a) /\ dropped \subseteq dropped' /\ UNCHANGED crowded
    BY DEF ReserveFails, RollBack
  <1>4. ASSUME agent[a].queue = "command", NEW i \in locks[a]
        PROVE  i \in dropped' \/ rows'["command"][i].attempts > 0
    <2>1. CASE RollBack(a)
      BY <1>4, <2>1 DEF RollBack
    <2>2. CASE Lease(agent[a].queue, locks[a])
      <3>1. "command" \in Queues /\ Leasable("command", locks[a])
        BY <1>4 DEF LockInv, Queues
      <3>2. i \in Ids /\ rows'["command"][i].attempts = rows["command"][i].attempts + 1
        BY <1>4, <2>2, <3>1, LeaseTable
      <3>3. rows["command"][i].attempts \in Nat
        BY <3>1, <3>2 DEF Inv, CoreType, Row
      <3> QED
        BY <3>2, <3>3
    <2> QED
      BY <2>1, <2>2 DEF ReserveFails
  <1>5. Upholds
    BY <1>1, <1>2, <1>3, <1>4, EndUpholds
  <1> QED
    BY <1>1, <1>3, <1>5, CallEnds

LEMMA CrashCalls ==
    ASSUME Inv, LockInv, Inv', CallInv, NEW a \in Agents, Crash(a)
    PROVE  CallInv'
  <1> DEFINE p == IF a \in Callers THEN "gone" ELSE "idle"
             q == HomeQueue(a)
             r == IdleOn(q)
             x == [r EXCEPT !.pc = p]
  <1>1. agent' = [agent EXCEPT ![a] = x]
    BY DEF Crash
  <1>2. p \in PCs /\ q \in Queues
    BY DEF PCs, Queues, HomeQueue
  <1>3. a \in Callers => p = "gone"
    OBVIOUS
  <1> HIDE DEF p, q
  <1>4. r \in Agent
    BY <1>2, IdleOnType
  <1> HIDE DEF r
  <1>5. x \in Agent /\ x.pc = p
    <2>1. x \in Agent
      BY <1>2, <1>4, FieldType
    <2> QED
      BY <1>2, <1>4, <2>1 DEF Agent
  <1> HIDE DEF x
  <1>6. Only(a) /\ agent'[a] = x
    BY <1>1, <1>5 DEF Only, Inv, CoreType
  <1>7. a \in Callers => agent'[a].pc = "gone"
    BY <1>3, <1>5, <1>6
  <1>8. /\ Unlock(a) /\ UNCHANGED <<crowded, rows>>
        /\ dropped' = IF agent[a].queue = "command" THEN dropped \cup locks[a] ELSE dropped
    BY DEF Crash, RollBack
  <1>9. Upholds
    BY <1>6, <1>8, EndUpholds, SameTable DEF Only, TableOK
  <1> QED
    BY <1>6, <1>7, <1>8, <1>9, CallEnds DEF Only

LEMMA StumbleCalls ==
    ASSUME Inv, Upholds, UNCHANGED crowded, CallInv, NEW a \in Agents, Stumble(a)
    PROVE  CallInv'
  <1>1. CASE WorkFails(a)
    BY <1>1, ItemFailsCalls DEF WorkFails, Busy
  <1>2. CASE CompleteFails(a)
    BY <1>2, ItemFailsCalls DEF CompleteFails, Busy
  <1>3. CASE FailFails(a)
    BY <1>3, FailItemCalls DEF FailFails
  <1> QED
    BY <1>1, <1>2, <1>3 DEF Stumble

LEMMA NextCalls ==
    ASSUME Inv, LockInv, Inv', ClocksAgree, Rounds > 0, CallInv, [Next]_vars
    PROVE  CallInv'
  <1>1. ASSUME NEW a \in Agents, Work(a) \/ Stumble(a) PROVE CallInv'
    <2>1. Upholds
      BY <1>1, WorkGrown, StumbleGrown, WorkOnly, UnlockedUpholds
    <2>2. UNCHANGED crowded
      BY <1>1, WorkOnly DEF claims
    <2> QED
      BY <1>1, <2>1, <2>2, WorkCalls, StumbleCalls
  <1>2. ASSUME NEW a \in Agents, Trouble(a) PROVE CallInv'
    BY <1>1, <1>2, ReserveFailsCalls, CrashCalls DEF Trouble, Stumble
  <1>3. ASSUME UNCHANGED <<agent, claims>>, Grown PROVE CallInv'
    <2>1. UNCHANGED <<agent, locks, dropped, crowded>>
      BY <1>3 DEF claims
    <2>2. Upholds
      BY <1>3, <2>1, LocksUphold
    <2> QED
      BY <2>1, <2>2, SameCalls
  <1>4. ASSUME NEW q \in Swept, NEW i \in Ids, Sweep(q, i) PROVE CallInv'
    BY <1>3, <1>4, ReopenGrown, KernelAssumption DEF Sweep, KernelAssumption
  <1>5. CASE UNCHANGED vars
    BY <1>3, <1>5, SameTable DEF vars, TableOK
  <1> QED
    BY <1>1, <1>2, <1>4, <1>5, SubmitCalls, SubmitFailsCalls, SelectCalls, ReserveCalls
       DEF Next, KernelStep

(* A dispatch_command of PersistentKernelState that returns Ok with its    *)
(* command untried was crowded out of every batch, or another consumer has *)
(* the row locked or had it locked and broke off: for any limit, number of *)
(* rounds, and number of other consumers.                                  *)
THEOREM OkCommandsAreTaken == Spec => []OkMeansTaken
  <1>1. CASE ClocksAgree /\ Rounds > 0
    <2>1. Init => CallInv
      <3> SUFFICES ASSUME Init, NEW c \in Callers PROVE Call(c)
        BY DEF CallInv
      <3>1. agent[c] = IdleOn("command")
        BY KernelAssumption
           DEF Init, Agents, HomeQueue, KernelAssumption, Workers
      <3> QED
        BY <3>1 DEF Call, IdleOn
    <2>2. /\ Inv /\ LockInv /\ (Inv /\ LockInv)' /\ CallInv /\ [Next]_vars => CallInv'
      BY <1>1, NextCalls
    <2>3. CallInv => OkMeansTaken
      BY DEF CallInv, Call, Taken, OkMeansTaken
    <2> QED
      BY <2>1, <2>2, <2>3, Invariance, PTL DEF Spec
  <1>2. CASE ~ (ClocksAgree /\ Rounds > 0)
    <2>1. OkMeansTaken
      BY <1>2 DEF OkMeansTaken
    <2> QED
      BY <2>1, PTL
  <1> QED
    BY <1>1, <1>2

-----------------------------------------------------------------------------
(***************************************************************************)
(* What a step does to the data: the application's tables, what rows carry *)
(* and what agents hold in memory.  An application's promise about its     *)
(* data concerns one statement of a handler, the hand-off of an event and  *)
(* a subscriber's call; every other step is Calm.                          *)
(***************************************************************************)

(* A handler's locals live from its first statement to its last, and the   *)
(* error of an item from its failure to the report of it.                  *)
MemoryInv ==
    /\ memory = [a \in Agents |-> memory[a]]
    /\ \A a \in Agents : agent[a].pc \notin {"working", "failing"} => memory[a] = NoMemory

(* The agent stands, or does no more than drop what it has in hand.        *)
Coasts(b) ==
    \/ agent'[b] = agent[b] /\ memory'[b] = memory[b]
    \/ /\ agent'[b].out \in {agent[b].out, <<>>}
       /\ agent'[b].pc # "emitting"
       /\ agent'[b].pc = "completing" => agent'[b].queue # "command"
       /\ agent'[b].pc # "failing" => memory'[b] = NoMemory

(* It takes its leases from a batch it has, or has just reserved one.      *)
Follows(b) == Onward(b) /\ Remembers(b)

Leased(b) ==
    /\ agent'[b].pc = "batch"
    /\ agent'[b].queue = agent[b].queue
    /\ \A l \in agent'[b].todo :
          l[1] \in Ids /\ l[2] = rows[agent[b].queue][l[1]].attempts + 1

Others(a) == \A b \in Agents \ {a} : agent'[b] = agent[b] /\ memory'[b] = memory[b]

Steady(a) ==
    /\ memory' = [b \in Agents |-> memory'[b]]
    /\ Others(a)
    /\ Coasts(a)
    /\ Follows(a) \/ Leased(a)

SameData == \A q \in Queues : \A i \in Ids : rows'[q][i].data = rows[q][i].data

(* One row is new: it carries data, recorded for a cause.                  *)
Recorded(q, data, by) ==
    \E n \in Ids :
        /\ rows[q][n].status = "none"
        /\ rows'[q][n].status = "open"
        /\ rows'[q][n].data = data
        /\ rows'[q][n].by = by
        /\ \A p \in Queues : \A i \in Ids :
              p # q \/ i # n => rows'[p][i] = rows[p][i]

(* Commands come from callers and from the messages of the inbox.          *)
Commanded ==
    \E r \in Data :
        /\ \E by : Recorded("command", r, by)
        /\ \/ r \in Requests
           \/ \E i \in Ids : /\ rows["inbox"][i].status # "none"
                             /\ r = Route(rows["inbox"][i].data)

(* A command is completed by the agent that is at its completion.          *)
CompletedInHand ==
    \A i \in Ids :
        rows'["command"][i].status = "done" =>
            \/ rows["command"][i].status = "done"
            \/ \E a \in Agents : /\ agent[a].pc = "completing"
                                 /\ agent[a].queue = "command"
                                 /\ agent[a].item = i

Calm ==
    /\ db' = db
    /\ heard' = heard
    /\ memory' = [b \in Agents |-> memory'[b]]
    /\ \A b \in Agents : Coasts(b) /\ (Follows(b) \/ Leased(b))
    /\ SameData \/ Commanded
    /\ CompletedInHand

LEMMA MemorySet ==
    ASSUME MemoryInv, NEW a \in Agents, NEW m, memory' = [memory EXCEPT ![a] = m]
    PROVE  /\ memory' = [b \in Agents |-> memory'[b]]
           /\ memory'[a] = m
           /\ \A b \in Agents \ {a} : memory'[b] = memory[b]
  BY DEF MemoryInv

LEMMA StandsFollows ==
    ASSUME Inv, NEW b \in Agents, agent'[b] = agent[b]
    PROVE  Follows(b)
  BY DEF Inv, CoreType, Agent, Follows, Onward, Remembers, Busy, Handing

LEMMA OthersSteady ==
    ASSUME Inv, NEW a \in Agents, Steady(a)
    PROVE  /\ memory' = [b \in Agents |-> memory'[b]]
           /\ \A b \in Agents : Coasts(b) /\ (Follows(b) \/ Leased(b))
  BY StandsFollows DEF Steady, Others, Coasts

LEMMA MemoryStays ==
    ASSUME Inv, MemoryInv, memory' = [b \in Agents |-> memory'[b]],
           \A b \in Agents : Coasts(b)
    PROVE  MemoryInv'
  BY DEF MemoryInv, Coasts

(* The step of an agent that leaves every handler's locals alone.          *)
LEMMA SameMemory ==
    ASSUME Inv, MemoryInv, NEW a \in Agents, Only(a), Follows(a) \/ Leased(a),
           UNCHANGED memory, agent[a].pc \notin {"working", "failing"},
           agent'[a].out \in {agent[a].out, <<>>},
           agent'[a].pc # "emitting",
           agent'[a].pc = "completing" => agent'[a].queue # "command"
    PROVE  Steady(a)
  BY DEF Steady, Only, Others, Coasts, MemoryInv

LEMMA ItemFailsSteady ==
    ASSUME Inv, MemoryInv, NEW a \in Agents, NEW reason, ItemFails(a, reason),
           agent[a].pc \in Busy
    PROVE  Steady(a)
  <1>1. Only(a) /\ Follows(a)
    BY ItemFailsFits DEF Fits, Follows
  <1>2. "failing" \in PCs /\ agent' = [agent EXCEPT ![a].pc = "failing"]
    BY DEF PCs, ItemFails
  <1>3. agent'[a].pc = "failing" /\ agent'[a].out = agent[a].out
    BY <1>2, PcMoves DEF Inv, Keeps
  <1>4. /\ memory' = [b \in Agents |-> memory'[b]]
        /\ \A b \in Agents \ {a} : memory'[b] = memory[b]
    BY MemorySet DEF ItemFails
  <1> QED
    BY <1>1, <1>3, <1>4 DEF Steady, Others, Only, Coasts

LEMMA ItemDoneSteady ==
    ASSUME Inv, MemoryInv, NEW a \in Agents, NEW f \in BOOLEAN, ItemDone(a, f),
           \/ UNCHANGED memory /\ agent[a].pc \notin {"working", "failing"}
           \/ memory' = [memory EXCEPT ![a] = NoMemory]
    PROVE  Steady(a)
  <1>1. Only(a) /\ Follows(a)
    BY ItemDoneFits DEF Fits, Follows
  <1> DEFINE p == IF agent[a].todo = {} /\ a \in Workers THEN "idle" ELSE "batch"
             g == a \in Callers /\ (agent[a].failed \/ f)
  <1>2. agent' = [agent EXCEPT ![a].pc = p, ![a].item = 0, ![a].lease = 0,
                               ![a].out = <<>>, ![a].sent = 0, ![a].failed = g]
    BY DEF ItemDone
  <1>3. p \in PCs \ Busy /\ g \in BOOLEAN
    BY DEF PCs, Busy
  <1> HIDE DEF p, g
  <1>4. agent'[a].pc \notin Busy /\ agent'[a].out = <<>>
    <2>1. agent'[a].pc = p /\ agent'[a].out = <<>>
      BY <1>2, <1>3, DoneMoves DEF Inv
    <2> QED
      BY <1>3, <2>1
  <1>5. /\ memory' = [b \in Agents |-> memory'[b]]
        /\ memory'[a] = NoMemory
        /\ \A b \in Agents \ {a} : memory'[b] = memory[b]
    BY MemorySet DEF MemoryInv
  <1> QED
    BY <1>1, <1>4, <1>5 DEF Steady, Others, Only, Coasts, Busy

LEMMA FailItemSteady ==
    ASSUME Inv, MemoryInv, NEW a \in Agents, NEW w \in BOOLEAN, FailItem(a, w)
    PROVE  Steady(a)
  <1>1. ItemDone(a, TRUE) /\ memory' = [memory EXCEPT ![a] = NoMemory]
    BY DEF FailItem
  <1> QED
    BY <1>1, ItemDoneSteady

-----------------------------------------------------------------------------
(* The tables.                                                             *)
LEMMA NothingNew ==
    ASSUME Inv, UNCHANGED rows
    PROVE  SameData /\ CompletedInHand
  BY DEF SameData, CompletedInHand

LEMMA LeaseData ==
    ASSUME Inv, NEW q \in Queues, NEW S, Leasable(q, S), Lease(q, S)
    PROVE  SameData /\ CompletedInHand
  <1>1. /\ TableOK /\ NoneCompleted
        /\ \A i \in S : rows[q][i].status = "open"
        /\ \A p \in Queues : \A i \in Ids :
              p # q \/ i \notin S => rows'[p][i] = rows[p][i]
    BY LeaseTable
  <1>2. \A p \in Queues : \A i \in Ids :
           rows'[p][i] = rows[p][i] \/ rows[p][i].status = "open"
    BY <1>1
  <1>3. SameData
    BY <1>1, <1>2 DEF SameData, TableOK, Grown
  <1>4. CompletedInHand
    BY <1>1 DEF CompletedInHand, NoneCompleted, Queues
  <1> QED
    BY <1>3, <1>4

LEMMA ReopenData ==
    ASSUME Inv, NEW q \in Queues, NEW n \in Ids, rows[q][n].status = "held",
           rows' = [rows EXCEPT ![q][n].status = "open"]
    PROVE  SameData /\ CompletedInHand
  <1>1. PICK r \in Row : /\ r.status = "open" /\ r.attempts = rows[q][n].attempts
                         /\ r.data = rows[q][n].data /\ r.by = rows[q][n].by
                         /\ rows' = [rows EXCEPT ![q][n] = r]
    BY OpenRow DEF Inv
  <1>2. /\ rows'[q][n] = r
        /\ \A p \in Queues : \A i \in Ids : p # q \/ i # n => rows'[p][i] = rows[p][i]
    BY <1>1, OneRow DEF Inv, CoreType
  <1> QED
    BY <1>1, <1>2 DEF SameData, CompletedInHand, Queues

LEMMA CompleteData ==
    ASSUME Inv, NEW a \in Agents, agent[a].pc = "completing", Owned(a), CompleteRow(a)
    PROVE  SameData /\ CompletedInHand
  <1> PICK q \in Queues, n \in Ids : q = agent[a].queue /\ n = agent[a].item
    BY DEF Inv, CoreType, Agent, AgentInv, Shape, Busy
  <1>1. /\ rows'[q][n].data = rows[q][n].data
        /\ \A p \in Queues : \A i \in Ids : p # q \/ i # n => rows'[p][i] = rows[p][i]
    BY CompleteTable
  <1> QED
    BY <1>1 DEF SameData, CompletedInHand, Queues

LEMMA FailItemData ==
    ASSUME Inv, NEW a \in Agents, NEW w \in BOOLEAN, w => Owned(a),
           agent[a].pc = "failing", FailItem(a, w)
    PROVE  SameData /\ CompletedInHand
  <1>1. CASE ~ w
    BY <1>1, NothingNew DEF FailItem
  <1>2. CASE w
    <2>1. PICK q \in Queues, n \in Ids : q = agent[a].queue /\ n = agent[a].item
      BY DEF Inv, CoreType, Agent, AgentInv, Shape, Busy
    <2>2. rows' = [rows EXCEPT ![q][n].status = "open"] /\ rows[q][n].status = "held"
      BY <1>2, <2>1 DEF FailItem, Owned, Item
    <2> QED
      BY <2>2, ReopenData
  <1> QED
    BY <1>1, <1>2

LEMMA RecordData ==
    ASSUME Inv, NEW q \in Queues, NEW n \in Unused(q), NEW data \in Data,
           NEW by \in (Queues \cup {"caller", "none"}) \X Nat \X Nat \X Nat,
           Record(q, n, data, by)
    PROVE  Recorded(q, data, by) /\ CompletedInHand
  <1>1. /\ NoneCompleted
        /\ n \in Ids /\ rows[q][n].status = "none"
        /\ rows'[q][n].data = data /\ rows'[q][n].by = by
        /\ rows'[q][n].status = "open"
        /\ \A p \in Queues : \A i \in Ids :
              p # q \/ i # n => rows'[p][i] = rows[p][i]
    BY RecordTable
  <1>2. CompletedInHand
    BY <1>1 DEF CompletedInHand, NoneCompleted, Queues
  <1> QED
    BY <1>1, <1>2 DEF Recorded

LEMMA HandOnData ==
    ASSUME Inv, NEW q \in Queues, NEW data \in Data, NEW a \in Agents, NEW k \in Nat,
           RecordNew(q, data, Cause(a, k))
    PROVE  Recorded(q, data, Cause(a, k)) /\ CompletedInHand
  <1>1. PICK by : by = Cause(a, k)
    OBVIOUS
  <1>2. by \in (Queues \cup {"caller", "none"}) \X Nat \X Nat \X Nat
    BY <1>1, CauseOf
  <1>3. PICK n \in Unused(q) : Record(q, n, data, by)
    BY <1>1, NewKey
  <1> QED
    BY <1>1, <1>2, <1>3, RecordData

LEMMA SubmitData ==
    ASSUME Inv, NEW r \in Requests, NEW i \in Ids,
           Record("command", i, r, <<"caller", i, 0, 0>>)
    PROVE  (SameData \/ Commanded) /\ CompletedInHand
  <1>1. r \in Data /\ "command" \in Queues
    BY KernelAssumption DEF KernelAssumption, Queues
  <1>2. CASE i \in Unused("command")
    <2>1. PICK by \in (Queues \cup {"caller", "none"}) \X Nat \X Nat \X Nat :
                  by = <<"caller", i, 0, 0>>
      BY CallerCause
    <2>2. Recorded("command", r, by) /\ CompletedInHand
      BY <1>1, <1>2, <2>1, RecordData
    <2> QED
      BY <1>1, <2>2 DEF Commanded
  <1>3. CASE i \notin Unused("command")
    BY <1>3, NothingNew DEF Record
  <1> QED
    BY <1>2, <1>3

-----------------------------------------------------------------------------
(* The steps, one lemma each.                                              *)
LEMMA CalmStep ==
    ASSUME Inv, NEW a \in Agents, Steady(a), UNCHANGED <<db, heard>>,
           SameData \/ Commanded, CompletedInHand
    PROVE  Calm
  BY OthersSteady DEF Calm

LEMMA StillCalm ==
    ASSUME Inv, MemoryInv, UNCHANGED <<db, memory, rows, agent, heard>>
    PROVE  Calm
  BY StandsFollows, NothingNew DEF Calm, Coasts, MemoryInv

LEMMA SubmitCalm ==
    ASSUME Inv, MemoryInv, NEW c \in Callers, NEW r \in Requests,
           NEW i \in Ids, Submit(c, r, i) \/ SubmitFails(c, r, i)
    PROVE  Calm
  <1>1. c \in Agents /\ agent[c].pc = "idle"
    BY DEF Agents, Submit, SubmitFails
  <1>2. UNCHANGED <<db, memory, heard>>
    BY DEF Submit, SubmitFails
  <1>3. (SameData \/ Commanded) /\ CompletedInHand
    BY SubmitData, NothingNew DEF Submit, SubmitFails
  <1>4. /\ Only(c) /\ agent'[c].pc \in {"returned", "reserving"}
        /\ Keeps(c, {"queue", "todo", "out", "sent"})
    <2>1. CASE SubmitFails(c, r, i)
      <3>1. agent' = [agent EXCEPT ![c].pc = "returned", ![c].failed = TRUE]
        BY <2>1 DEF SubmitFails
      <3>2. /\ Only(c) /\ agent'[c].pc = "returned"
            /\ Keeps(c, {"queue", "todo", "item", "lease", "out", "sent", "round", "mine"})
        BY <1>1, <3>1, StopMoves DEF Inv
      <3> QED
        BY <3>2 DEF Keeps
    <2>2. CASE Submit(c, r, i)
      <3> DEFINE p == IF Rounds = 0 THEN "returned" ELSE "reserving"
      <3>1. agent' = [agent EXCEPT ![c].pc = p, ![c].mine = i]
        BY <2>2 DEF Submit
      <3>2. p \in PCs /\ p \in {"returned", "reserving"}
        BY DEF PCs
      <3> HIDE DEF p
      <3> QED
        BY <1>1, <3>1, <3>2, SubmitMoves DEF Inv, Keeps
    <2> QED
      BY <2>1, <2>2
  <1>5. Follows(c)
    BY <1>4 DEF Follows, Onward, Remembers, Busy, Handing, Keeps
  <1>6. Steady(c)
    BY <1>1, <1>2, <1>4, <1>5, SameMemory DEF Keeps
  <1> QED
    BY <1>1, <1>2, <1>3, <1>6, CalmStep

LEMMA SelectCalm ==
    ASSUME Inv, MemoryInv, NEW a \in Agents, Select(a)
    PROVE  Calm
  <1>1. /\ Only(a) /\ agent'[a].pc = "selected" /\ MayReserve(a)
        /\ Keeps(a, {"queue", "todo", "item", "lease", "out", "sent", "round",
                     "failed", "mine"})
        /\ UNCHANGED <<db, memory, rows, heard>>
    BY SelectMoves
  <1>2. Follows(a)
    BY <1>1 DEF Follows, Onward, Remembers, Keeps, Handing, Busy
  <1>3. Steady(a)
    BY <1>1, <1>2, SameMemory DEF MayReserve, Keeps
  <1> QED
    BY <1>1, <1>3, NothingNew, CalmStep

LEMMA ReserveCalm ==
    ASSUME Inv, LockInv, MemoryInv, NEW a \in Agents, Reserve(a)
    PROVE  Calm
  <1> PICK q \in Queues : q = agent[a].queue
    BY DEF Inv, CoreType, Agent
  <1> PICK S : S = locks[a]
    OBVIOUS
  <1>1. Leasable(q, S) /\ SameData /\ CompletedInHand
    BY LeaseData DEF Reserve, LockInv
  <1> DEFINE T == {<<i, rows[q][i].attempts + 1>> : i \in S}
  <1>2. S \subseteq Ids
    BY <1>1 DEF Leasable
  <1>3. T \in SUBSET (Ids \X Nat)
    BY <1>2 DEF Inv, CoreType, Row
  <1>4. \A l \in T : l[1] \in Ids /\ l[2] = rows[q][l[1]].attempts + 1
    BY <1>2
  <1>5. agent' = [agent EXCEPT ![a].pc = "batch", ![a].todo = T]
    BY DEF Reserve
  <1> HIDE DEF T
  <1>6. /\ Only(a) /\ agent'[a].pc = "batch" /\ agent'[a].todo = T
        /\ agent'[a].queue = q /\ agent'[a].out = agent[a].out
    BY <1>3, <1>5, ReserveMoves DEF Inv, Keeps
  <1>7. Leased(a)
    BY <1>4, <1>6 DEF Leased
  <1>8. Steady(a)
    BY <1>6, <1>7, SameMemory DEF Reserve
  <1> QED
    BY <1>1, <1>8, CalmStep DEF Reserve

LEMMA BeginCalm ==
    ASSUME Inv, MemoryInv, NEW a \in Agents, Begin(a)
    PROVE  Calm
  <1>1. PICK l \in agent[a].todo :
           agent' = [agent EXCEPT
              ![a].pc = FirstStep(agent[a].queue, rows[agent[a].queue][l[1]].data),
              ![a].item = l[1], ![a].lease = l[2], ![a].todo = @ \ {l}]
    BY DEF Begin
  <1> PICK q \in Queues : q = agent[a].queue
    BY DEF Inv, CoreType, Agent
  <1>2. l \in Ids \X Nat /\ l = <<l[1], l[2]>>
    BY DEF Inv, CoreType, Agent
  <1> DEFINE p == FirstStep(q, rows[q][l[1]].data)
  <1>3. p \in PCs /\ p # "emitting" /\ (p = "completing" => q # "command")
    BY DEF FirstStep, Queues, PCs
  <1>4. agent' = [agent EXCEPT ![a].pc = p, ![a].item = l[1], ![a].lease = l[2],
                               ![a].todo = @ \ {l}]
    BY <1>1
  <1> HIDE DEF p
  <1>5. /\ Only(a) /\ Keeps(a, {"queue", "out", "sent", "round", "failed", "mine"})
        /\ agent'[a].pc = p /\ agent'[a].item = l[1] /\ agent'[a].lease = l[2]
        /\ agent'[a].todo = agent[a].todo \ {l}
    BY <1>3, <1>4, BeginMoves DEF Inv
  <1>6. Follows(a)
    BY <1>2, <1>5 DEF Follows, Onward, Remembers, Keeps
  <1>7. Steady(a)
    BY <1>3, <1>5, <1>6, SameMemory DEF Begin, Keeps
  <1> QED
    BY <1>7, NothingNew, CalmStep DEF Begin

LEMMA ConvertCalm ==
    ASSUME Inv, MemoryInv, NEW a \in Agents, Convert(a)
    PROVE  Calm
  <1>1. /\ agent[a].pc = "converting" /\ agent[a].pc \in Busy
        /\ UNCHANGED <<db, heard>>
    BY DEF Convert, Busy
  <1>2. /\ agent[a].queue = "inbox" /\ agent[a].item \in Ids
        /\ rows["inbox"][agent[a].item].status # "none"
    BY <1>1, HeldRow DEF Inv, AgentInv, Shape
  <1> PICK data : data = Route(rows["inbox"][agent[a].item].data)
    OBVIOUS
  <1>3. data = Route(Item(a).data)
    BY <1>2 DEF Item
  <1>4. CASE data \in Data
    <2>1. /\ RecordNew("command", data, Cause(a, 1)) /\ UNCHANGED memory
          /\ agent' = [agent EXCEPT ![a].pc = "completing"]
      BY <1>3, <1>4 DEF Convert
    <2>2. Commanded /\ CompletedInHand
      <3>1. Recorded("command", data, Cause(a, 1)) /\ CompletedInHand
        BY <1>4, <2>1, HandOnData DEF Queues
      <3> QED
        BY <1>2, <1>4, <3>1 DEF Commanded
    <2>3. /\ Only(a) /\ agent'[a].pc = "completing"
          /\ Keeps(a, {"queue", "todo", "item", "lease", "out", "sent", "round",
                       "failed", "mine"})
      BY <2>1, PcMoves DEF Inv, PCs
    <2>4. Follows(a)
      BY <1>1, <2>3 DEF Follows, Onward, Remembers, Keeps, Handing, Busy
    <2>5. Steady(a)
      BY <1>1, <1>2, <2>1, <2>3, <2>4, SameMemory DEF Keeps
    <2> QED
      BY <1>1, <2>2, <2>5, CalmStep
  <1>5. CASE data \notin Data
    <2>1. ItemFails(a, StorageError) /\ UNCHANGED rows
      BY <1>3, <1>5 DEF Convert
    <2> QED
      BY <1>1, <2>1, ItemFailsSteady, NothingNew, CalmStep
  <1> QED
    BY <1>4, <1>5

LEMMA CompleteCalm ==
    ASSUME Inv, MemoryInv, NEW a \in Agents, Complete(a) \/ CompleteFails(a)
    PROVE  Calm
  <1>1. /\ agent[a].pc = "completing" /\ agent[a].pc \in Busy
        /\ UNCHANGED <<db, heard>>
    BY DEF Complete, CompleteFails, Busy
  <1>2. SameData /\ CompletedInHand
    BY <1>1, CompleteData, NothingNew DEF Complete, CompleteFails
  <1>3. CASE ItemFails(a, StorageError)
    BY <1>1, <1>2, <1>3, ItemFailsSteady, CalmStep
  <1>4. CASE ItemDone(a, FALSE) /\ UNCHANGED memory
    <2>1. Steady(a)
      BY <1>1, <1>4, ItemDoneSteady
    <2> QED
      BY <1>1, <1>2, <2>1, CalmStep
  <1> QED
    BY <1>3, <1>4 DEF Complete, CompleteFails

LEMMA FailCalm ==
    ASSUME Inv, MemoryInv, NEW a \in Agents, Fail(a) \/ FailFails(a)
    PROVE  Calm
  <1>1. agent[a].pc = "failing" /\ UNCHANGED <<db, heard>>
    BY DEF Fail, FailFails
  <1>2. PICK w \in BOOLEAN : (w => Owned(a)) /\ FailItem(a, w)
    BY DEF Fail, FailFails, Owned
  <1> QED
    BY <1>1, <1>2, FailItemSteady, FailItemData, CalmStep

LEMMA EndBatchCalm ==
    ASSUME Inv, MemoryInv, NEW a \in Agents, EndBatch(a)
    PROVE  Calm
  <1> DEFINE last == agent[a].queue = "event" /\ agent[a].round + 1 = Rounds
             p == IF agent[a].failed \/ last THEN "returned" ELSE "reserving"
             q == IF agent[a].queue = "command" THEN "event" ELSE "command"
             n == IF agent[a].queue = "event" THEN agent[a].round + 1 ELSE agent[a].round
  <1>1. agent[a] \in Agent
    BY DEF Inv, CoreType
  <1>2. agent' = [agent EXCEPT ![a].pc = p, ![a].queue = q, ![a].round = n]
    BY <1>1 DEF EndBatch
  <1>3. p \in PCs /\ p \in {"returned", "reserving"} /\ q \in Queues /\ n \in Nat
    BY <1>1 DEF PCs, Queues, Agent
  <1> HIDE DEF p, q, n
  <1>4. /\ Only(a) /\ agent'[a].pc = p
        /\ Keeps(a, {"todo", "item", "lease", "out", "sent", "failed", "mine"})
    BY <1>2, <1>3, RoundMoves DEF Inv
  <1>5. Follows(a)
    BY <1>3, <1>4 DEF Follows, Onward, Remembers, Keeps, Handing, Busy, EndBatch
  <1>6. Steady(a)
    BY <1>3, <1>4, <1>5, SameMemory DEF EndBatch, Keeps
  <1> QED
    BY <1>6, NothingNew, CalmStep DEF EndBatch

LEMMA ReserveFailsCalm ==
    ASSUME Inv, LockInv, MemoryInv, NEW a \in Agents, ReserveFails(a)
    PROVE  Calm
  <1>1. UNCHANGED <<db, heard, memory>>
    BY DEF ReserveFails
  <1>2. SameData /\ CompletedInHand
    <2>1. Leasable(agent[a].queue, locks[a]) /\ agent[a].queue \in Queues
      BY DEF LockInv, Inv, CoreType, Agent
    <2> QED
      BY <2>1, LeaseData, NothingNew DEF ReserveFails
  <1>3. /\ Only(a) /\ agent'[a].pc \in {"idle", "returned"}
        /\ Keeps(a, {"queue", "todo", "item", "lease", "out", "sent", "round", "mine"})
        /\ agent[a].pc \in {"idle", "reserving", "selected"}
    BY ReserveFailsMoves
  <1>4. Follows(a)
    BY <1>3 DEF Follows, Onward, Remembers, Keeps, Handing, Busy
  <1>5. Steady(a)
    BY <1>1, <1>3, <1>4, SameMemory DEF Keeps
  <1> QED
    BY <1>1, <1>2, <1>5, CalmStep

LEMMA WorkFailsCalm ==
    ASSUME Inv, MemoryInv, NEW a \in Agents, WorkFails(a)
    PROVE  Calm
  <1>1. Steady(a)
    BY ItemFailsSteady DEF WorkFails, Busy
  <1> QED
    BY <1>1, NothingNew, CalmStep DEF WorkFails

LEMMA CrashCalm ==
    ASSUME Inv, MemoryInv, NEW a \in Agents, Crash(a)
    PROVE  Calm
  <1> DEFINE p == IF a \in Callers THEN "gone" ELSE "idle"
             q == HomeQueue(a)
             r == IdleOn(q)
             x == [r EXCEPT !.pc = p]
  <1>1. agent' = [agent EXCEPT ![a] = x]
    BY DEF Crash
  <1>2. p \in PCs \ Busy /\ q \in Queues
    BY DEF PCs, Busy, Queues, HomeQueue
  <1> HIDE DEF p, q
  <1>3. r \in Agent /\ r.todo = {} /\ r.sent = 0 /\ r.out = <<>>
    BY <1>2, IdleOnType DEF IdleOn
  <1> HIDE DEF r
  <1>4. x \in Agent /\ x.pc = p /\ x.todo = {} /\ x.sent = 0 /\ x.out = <<>>
    <2>1. x \in Agent
      BY <1>2, <1>3, FieldType
    <2> QED
      BY <1>2, <1>3, <2>1 DEF Agent
  <1> HIDE DEF x
  <1>5. Only(a) /\ agent'[a] = x
    BY <1>1, <1>4 DEF Only, Inv, CoreType
  <1>6. Follows(a)
    BY <1>2, <1>4, <1>5 DEF Follows, Onward, Remembers, Busy, Handing
  <1>7. /\ memory' = [b \in Agents |-> memory'[b]]
        /\ memory'[a] = NoMemory
        /\ \A b \in Agents \ {a} : memory'[b] = memory[b]
    BY MemorySet DEF Crash
  <1>8. Steady(a)
    BY <1>2, <1>4, <1>5, <1>6, <1>7 DEF Steady, Only, Others, Coasts, Busy
  <1> QED
    BY <1>8, NothingNew, CalmStep DEF Crash

LEMMA SweepCalm ==
    ASSUME Inv, MemoryInv, NEW q \in Swept, NEW i \in Ids, Sweep(q, i)
    PROVE  Calm
  <1>1. q \in Queues
    BY KernelAssumption DEF KernelAssumption
  <1>2. SameData /\ CompletedInHand
    BY <1>1, ReopenData DEF Sweep
  <1>3. \A b \in Agents : Coasts(b) /\ Follows(b)
    BY StandsFollows DEF Sweep, Coasts
  <1> QED
    BY <1>2, <1>3 DEF Sweep, Calm, MemoryInv

(* A step is calm, or it is one of three.                                  *)
LEMMA Flow ==
    ASSUME Inv, LockInv, MemoryInv, [Next]_vars
    PROVE  Calm \/ \E a \in Agents : HandlerStep(a) \/ Emit(a) \/ Notify(a)
  <1>1. ASSUME NEW a \in Agents, Work(a)
        PROVE  Calm \/ HandlerStep(a) \/ Emit(a) \/ Notify(a)
    BY <1>1, BeginCalm, ConvertCalm, CompleteCalm, FailCalm, EndBatchCalm DEF Work
  <1>2. ASSUME NEW a \in Agents, Trouble(a) PROVE Calm
    BY <1>2, ReserveFailsCalm, WorkFailsCalm, CompleteCalm, FailCalm, CrashCalm
       DEF Trouble
  <1>3. ASSUME NEW a \in Agents, Select(a) \/ Reserve(a) PROVE Calm
    BY <1>3, SelectCalm, ReserveCalm
  <1>4. CASE UNCHANGED vars
    BY <1>4, StillCalm DEF vars
  <1> QED
    BY <1>1, <1>2, <1>3, <1>4, SubmitCalm, SweepCalm DEF Next, KernelStep

-----------------------------------------------------------------------------
(* The three steps that are not: what each of them does.                   *)
Outcome(a) == Execute(db, rows["command"][agent[a].item].data, memory[a])

Handled(a) ==
    /\ agent[a].pc = "working" /\ agent[a].queue = "command"
    /\ agent[a].item \in Ids /\ rows["command"][agent[a].item].status # "none"
    /\ db' = Outcome(a).db
    /\ UNCHANGED <<rows, heard>>
    /\ memory' = [b \in Agents |-> memory'[b]]
    /\ Others(a)
    /\ agent'[a].queue = "command" /\ agent'[a].item = agent[a].item
    /\ agent'[a].sent = 0
    /\ \/ /\ Outcome(a).then = "more"
          /\ agent'[a] = agent[a] /\ memory'[a] = Outcome(a).memory
       \/ /\ Outcome(a).then = "ok"
          /\ Outcome(a).events \in Seq(Data)
          /\ agent'[a].out = Outcome(a).events /\ memory'[a] = NoMemory
          /\ agent'[a].pc = IF Outcome(a).events = <<>> THEN "completing" ELSE "emitting"
       \/ /\ Outcome(a).then = "error" \/ Outcome(a).events \notin Seq(Data)
          /\ agent'[a].pc = "failing" /\ agent'[a].out = agent[a].out

LEMMA HandlerFlow ==
    ASSUME Inv, MemoryInv, NEW a \in Agents, HandlerStep(a)
    PROVE  Handled(a)
  <1>1. /\ agent[a].pc = "working" /\ agent[a].pc \in Busy
        /\ UNCHANGED <<rows, heard>>
    BY DEF HandlerStep, Busy
  <1>2. /\ agent[a].queue = "command" /\ agent[a].item \in Ids /\ agent[a].sent = 0
        /\ rows["command"][agent[a].item].status # "none"
    BY <1>1, HeldRow DEF Inv, AgentInv, Shape
  <1> PICK r : r = Outcome(a)
    OBVIOUS
  <1>3. r = Execute(db, Item(a).data, memory[a])
    BY <1>2 DEF Item, Outcome
  <1>4. db' = r.db
    BY <1>3 DEF HandlerStep
  <1> DEFINE p == IF r.events = <<>> THEN "completing" ELSE "emitting"
  <1>5. \/ /\ r.then = "more"
           /\ memory' = [memory EXCEPT ![a] = r.memory] /\ UNCHANGED agent
        \/ /\ r.then = "ok" /\ r.events \in Seq(Data)
           /\ agent' = [agent EXCEPT ![a].pc = p, ![a].out = r.events]
           /\ memory' = [memory EXCEPT ![a] = NoMemory]
        \/ /\ r.then = "error" \/ r.events \notin Seq(Data)
           /\ ItemFails(a, r.error)
    BY <1>3 DEF HandlerStep
  <1>6. CASE /\ r.then = "more"
             /\ memory' = [memory EXCEPT ![a] = r.memory] /\ UNCHANGED agent
    <2>1. /\ memory' = [b \in Agents |-> memory'[b]] /\ memory'[a] = r.memory
          /\ \A b \in Agents \ {a} : memory'[b] = memory[b]
      BY <1>6, MemorySet
    <2> QED
      BY <1>1, <1>2, <1>4, <1>6, <2>1 DEF Handled, Others
  <1>7. CASE /\ r.then = "ok" /\ r.events \in Seq(Data)
             /\ agent' = [agent EXCEPT ![a].pc = p, ![a].out = r.events]
             /\ memory' = [memory EXCEPT ![a] = NoMemory]
    <2>1. /\ memory' = [b \in Agents |-> memory'[b]] /\ memory'[a] = NoMemory
          /\ \A b \in Agents \ {a} : memory'[b] = memory[b]
      BY <1>7, MemorySet
    <2>2. p \in PCs
      BY DEF PCs
    <2>3. PICK ev \in Seq(Data) :
             ev = r.events /\ agent' = [agent EXCEPT ![a].pc = p, ![a].out = ev]
      BY <1>7
    <2>4. /\ Only(a) /\ agent'[a].pc = p /\ agent'[a].out = r.events
          /\ Keeps(a, {"queue", "todo", "item", "lease", "sent", "round", "failed", "mine"})
      <3> HIDE DEF p
      <3>1. /\ Only(a) /\ agent'[a].pc = p /\ agent'[a].out = ev
            /\ Keeps(a, {"queue", "todo", "item", "lease", "sent", "round", "failed", "mine"})
        BY <2>2, <2>3, ReturnMoves DEF Inv
      <3> QED
        BY <2>3, <3>1
    <2> QED
      BY <1>1, <1>2, <1>4, <1>7, <2>1, <2>4 DEF Handled, Others, Only, Keeps
  <1>8. CASE /\ r.then = "error" \/ r.events \notin Seq(Data)
             /\ ItemFails(a, r.error)
    <2>1. /\ memory' = [b \in Agents |-> memory'[b]]
          /\ \A b \in Agents \ {a} : memory'[b] = memory[b]
      BY <1>8, MemorySet DEF ItemFails
    <2>2. "failing" \in PCs /\ agent' = [agent EXCEPT ![a].pc = "failing"]
      BY <1>8 DEF PCs, ItemFails
    <2>3. /\ Only(a) /\ agent'[a].pc = "failing"
          /\ Keeps(a, {"queue", "todo", "item", "lease", "out", "sent", "round",
                       "failed", "mine"})
      BY <2>2, PcMoves DEF Inv
    <2> QED
      BY <1>1, <1>2, <1>4, <1>8, <2>1, <2>3 DEF Handled, Others, Only, Keeps
  <1> QED
    BY <1>5, <1>6, <1>7, <1>8

Emitted(a) ==
    /\ agent[a].pc = "emitting" /\ agent[a].queue = "command" /\ agent[a].item \in Ids
    /\ agent[a].sent \in Nat /\ agent[a].out \in Seq(Data)
    /\ agent[a].sent < Len(agent[a].out)
    /\ UNCHANGED <<db, memory, heard>>
    /\ Others(a)
    /\ Recorded("event", agent[a].out[agent[a].sent + 1], Cause(a, agent[a].sent + 1))
    /\ CompletedInHand
    /\ agent'[a].queue = "command" /\ agent'[a].item = agent[a].item
    /\ agent'[a].out = agent[a].out /\ agent'[a].sent = agent[a].sent + 1
    /\ agent'[a].pc = IF agent[a].sent + 1 = Len(agent[a].out) THEN "completing"
                      ELSE "emitting"

LEMMA EmitFlow ==
    ASSUME Inv, NEW a \in Agents, Emit(a)
    PROVE  Emitted(a)
  <1>1. agent[a].pc = "emitting" /\ UNCHANGED <<db, memory, heard>>
    BY DEF Emit
  <1>2. /\ agent[a].queue = "command" /\ agent[a].item \in Ids
        /\ agent[a].sent \in Nat /\ agent[a].out \in Seq(Data)
        /\ agent[a].sent < Len(agent[a].out)
    BY <1>1 DEF Inv, AgentInv, Shape, Busy, CoreType, Agent
  <1> PICK k \in Nat, data \in Data : k = agent[a].sent + 1 /\ data = agent[a].out[k]
    BY <1>2
  <1> DEFINE p == IF k = Len(agent[a].out) THEN "completing" ELSE agent[a].pc
  <1>3. /\ RecordNew("event", data, Cause(a, k))
        /\ agent' = [agent EXCEPT ![a].sent = k, ![a].pc = p]
    BY DEF Emit, Inv, CoreType, Agent
  <1>4. p \in PCs /\ p = IF k = Len(agent[a].out) THEN "completing" ELSE "emitting"
    BY <1>1 DEF PCs
  <1> HIDE DEF p
  <1>5. /\ Only(a) /\ agent'[a].pc = p /\ agent'[a].sent = k
        /\ Keeps(a, {"queue", "todo", "item", "lease", "out", "round", "failed", "mine"})
    BY <1>3, <1>4, SendMoves DEF Inv
  <1>6. Recorded("event", data, Cause(a, k)) /\ CompletedInHand
    BY <1>3, HandOnData DEF Queues
  <1> QED
    BY <1>1, <1>2, <1>4, <1>5, <1>6 DEF Emitted, Others, Only, Keeps

Response(a) == Deliver(db, agent[a].item, rows["event"][agent[a].item].data,
                      agent[a].sent + 1)

Notified(a) ==
    /\ agent[a].pc = "notifying" /\ agent[a].queue = "event"
    /\ agent[a].item \in Ids /\ rows["event"][agent[a].item].status # "none"
    /\ agent[a].lease \in Nat /\ agent[a].sent \in Nat
    /\ agent[a].sent < Subscribers(rows["event"][agent[a].item].data)
    /\ db' = Response(a).db
    /\ Steady(a) /\ Follows(a)
    /\ CompletedInHand
    /\ \/ /\ Response(a).error # NoError
          /\ UNCHANGED <<rows, heard>>
          /\ agent'[a].pc = "failing"
       \/ /\ Response(a).error = NoError
          /\ heard' = heard \cup {<<agent[a].item, agent[a].lease, agent[a].sent + 1>>}
          /\ agent'[a].sent = agent[a].sent + 1
          /\ agent'[a].queue = "event" /\ agent'[a].item = agent[a].item
          /\ agent'[a].lease = agent[a].lease /\ agent'[a].todo = agent[a].todo
          /\ IF Response(a).command \in Data
             THEN Recorded("command", Response(a).command, Cause(a, agent[a].sent + 1))
             ELSE UNCHANGED rows

LEMMA NotifyFlow ==
    ASSUME Inv, MemoryInv, NEW a \in Agents, Notify(a)
    PROVE  Notified(a)
  <1>1. agent[a].pc = "notifying" /\ agent[a].pc \in Busy
    BY DEF Notify, Busy
  <1>2. /\ agent[a].queue = "event" /\ agent[a].item \in Ids
        /\ rows["event"][agent[a].item].status # "none"
        /\ agent[a].lease \in Nat /\ agent[a].sent \in Nat
        /\ agent[a].sent < Subscribers(rows["event"][agent[a].item].data)
        /\ Item(a) = rows["event"][agent[a].item]
    <2>1. agent[a].queue = "event" /\ agent[a].item \in Ids
      BY <1>1 DEF Inv, AgentInv, Shape
    <2>2. rows["event"][agent[a].item].status # "none"
      BY <1>1, <2>1, HeldRow
    <2>3. agent[a].lease \in Nat /\ agent[a].sent \in Nat
      BY DEF Inv, CoreType, Agent
    <2>4. agent[a].sent < Subscribers(rows["event"][agent[a].item].data)
      BY <1>1, <2>1 DEF Inv, ProgressInv, Progress
    <2> QED
      BY <2>1, <2>2, <2>3, <2>4 DEF Item
  <1> PICK k, r : k \in Nat /\ k = agent[a].sent + 1 /\ r = Response(a)
    BY <1>2
  <1>3. r = Deliver(db, agent[a].item, Item(a).data, k)
    BY <1>2 DEF Response
  <1>4. db' = r.db
    BY <1>3 DEF Notify
  <1>5. CASE r.error # NoError
    <2>1. ItemFails(a, r.error) /\ UNCHANGED <<rows, heard>>
      BY <1>3, <1>5 DEF Notify
    <2>2. Steady(a) /\ Fits(a)
      BY <1>1, <2>1, ItemFailsSteady, ItemFailsFits
    <2>3. agent'[a].pc = "failing"
      BY <2>1 DEF ItemFails, Inv, CoreType, Agent
    <2> QED
      BY <1>1, <1>2, <1>4, <1>5, <2>1, <2>2, <2>3, NothingNew DEF Notified, Fits, Follows
  <1>6. CASE r.error = NoError
    <2> DEFINE p == IF k = Subscribers(Item(a).data) THEN "completing" ELSE agent[a].pc
    <2>1. /\ agent' = [agent EXCEPT ![a].sent = k, ![a].pc = p]
          /\ heard' = heard \cup {<<agent[a].item, agent[a].lease, k>>}
          /\ UNCHANGED memory
          /\ IF r.command \in Data THEN RecordNew("command", r.command, Cause(a, k))
             ELSE UNCHANGED rows
      BY <1>3, <1>6 DEF Notify, Inv, CoreType, Agent
    <2>2. p \in PCs /\ p \in {"completing", "notifying"}
      BY <1>1 DEF PCs
    <2> HIDE DEF p
    <2>3. /\ Only(a) /\ agent'[a].pc = p /\ agent'[a].sent = k
          /\ Keeps(a, {"queue", "todo", "item", "lease", "out", "round", "failed", "mine"})
      BY <2>1, <2>2, SendMoves DEF Inv
    <2>4. Follows(a)
      BY <1>1, <1>2, <2>2, <2>3 DEF Follows, Onward, Remembers, Keeps, Busy, Handing
    <2>5. Steady(a)
      BY <1>1, <1>2, <2>1, <2>2, <2>3, <2>4, SameMemory DEF Keeps
    <2>6. /\ CompletedInHand
          /\ IF r.command \in Data THEN Recorded("command", r.command, Cause(a, k))
             ELSE UNCHANGED rows
      BY <2>1, HandOnData, NothingNew DEF Queues
    <2> QED
      BY <1>1, <1>2, <1>4, <1>6, <2>1, <2>3, <2>4, <2>5, <2>6 DEF Notified, Keeps
  <1> QED
    BY <1>5, <1>6

LEMMA MemoryNext ==
    ASSUME Inv, LockInv, MemoryInv, [Next]_vars
    PROVE  MemoryInv'
  <1>1. CASE Calm
    BY <1>1, MemoryStays DEF Calm
  <1>2. ASSUME NEW a \in Agents, HandlerStep(a) PROVE MemoryInv'
    BY <1>2, HandlerFlow DEF Handled, Others, MemoryInv
  <1>3. ASSUME NEW a \in Agents, Emit(a) PROVE MemoryInv'
    BY <1>3, EmitFlow DEF Emitted, Others, MemoryInv
  <1>4. ASSUME NEW a \in Agents, Notify(a) PROVE MemoryInv'
    BY <1>4, NotifyFlow, OthersSteady, MemoryStays DEF Notified
  <1> QED
    BY <1>1, <1>2, <1>3, <1>4, Flow

LEMMA NextGrown ==
    ASSUME Inv, LockInv, [Next]_vars
    PROVE  Grown
  <1>1. ASSUME NEW c \in Callers, NEW r \in Requests, NEW i \in Ids,
               Submit(c, r, i) \/ SubmitFails(c, r, i)
        PROVE  Grown
    BY <1>1, SubmitGrown, SameTable DEF Submit, SubmitFails, TableOK
  <1>2. ASSUME NEW a \in Agents, Select(a) \/ Reserve(a) PROVE Grown
    BY <1>2, SelectMoves, SameTable, ReserveGrown DEF TableOK
  <1>3. ASSUME NEW q \in Swept, NEW i \in Ids, Sweep(q, i) PROVE Grown
    BY <1>3, ReopenGrown, KernelAssumption DEF Sweep, KernelAssumption
  <1>4. CASE UNCHANGED vars
    BY <1>4, SameTable DEF vars, TableOK
  <1> QED
    BY <1>1, <1>2, <1>3, <1>4, WorkGrown, TroubleGrown DEF Next, KernelStep

-----------------------------------------------------------------------------
(***************************************************************************)
(* What has been heard of an event was heard under leases it has had, and  *)
(* an agent's next subscriber has heard nothing under the lease in hand:   *)
(* under one lease no subscriber hears an event twice.                     *)
(***************************************************************************)
Unheard(x) ==
    x.queue = "event" =>
        /\ \A l \in Leases(x) : l[2] > 0
        /\ \A l \in x.todo : \A k \in Nat : <<l[1], l[2], k>> \notin heard
        /\ x.pc = "notifying" =>
               \A k \in Nat : <<x.item, x.lease, k>> \in heard => k <= x.sent

HeardBound ==
    \A h \in heard : h[1] \in Ids /\ h[2] \in 1 .. rows["event"][h[1]].attempts

HearInv == HeardBound /\ \A a \in Agents : Unheard(agent[a])

LEMMA HearInit == Init => HearInv
  <1> SUFFICES ASSUME Init PROVE HearInv
    OBVIOUS
  <1>1. ASSUME NEW a \in Agents PROVE agent[a].todo = {} /\ agent[a].pc = "idle"
    BY DEF Init, IdleOn
  <1> QED
    BY <1>1 DEF Init, HearInv, HeardBound, Unheard, Leases, Busy

LEMMA BoundStays ==
    ASSUME Inv, Inv', Grown, HeardBound, heard' = heard
    PROVE  HeardBound'
  <1>1. \A i \in Ids : /\ rows["event"][i].attempts \in Nat
                       /\ rows'["event"][i].attempts \in Nat
                       /\ rows["event"][i].attempts <= rows'["event"][i].attempts
    BY DEF Inv, CoreType, Row, Grown, Queues
  <1>2. ASSUME NEW h \in heard
        PROVE  h[1] \in Ids /\ h[2] \in 1 .. rows'["event"][h[1]].attempts
    <2>1. h[1] \in Ids /\ h[2] \in 1 .. rows["event"][h[1]].attempts
      BY DEF HeardBound
    <2> QED
      BY <1>1, <2>1
  <1> QED
    BY <1>2 DEF HeardBound

LEMMA FollowsUnheard ==
    ASSUME Inv, Inv', HearInv, heard' = heard, NEW b \in Agents, Follows(b)
    PROVE  Unheard(agent[b])'
  <1>1. Unheard(agent[b]) /\ Shape(agent[b])
    BY DEF HearInv, Inv, AgentInv
  <1>2. CASE agent'[b].queue = "event" /\ agent[b].queue = "event"
    <2>1. \A l \in Leases(agent[b])' : l \in Leases(agent[b])
      BY DEF Follows, Onward, Leases
    <2>2. \A l \in agent'[b].todo : l \in agent[b].todo
      BY DEF Follows, Onward
    <2>3. ASSUME agent'[b].pc = "notifying", NEW k \in Nat,
                 <<agent'[b].item, agent'[b].lease, k>> \in heard
          PROVE  k <= agent'[b].sent
      <3>1. CASE /\ agent[b].pc \in Handing /\ agent[b].sent <= agent'[b].sent
                 /\ agent'[b].item = agent[b].item /\ agent'[b].lease = agent[b].lease
        <4>1. agent[b].pc = "notifying"
          BY <1>1, <1>2, <3>1 DEF Shape, Handing
        <4>2. k <= agent[b].sent
          BY <1>1, <1>2, <2>3, <3>1, <4>1 DEF Unheard
        <4>3. agent[b].sent \in Nat /\ agent[b].sent <= agent'[b].sent
          BY <3>1 DEF Inv, CoreType, Agent
        <4>4. agent'[b].sent \in Int
          BY DEF Inv, CoreType, Agent
        <4> QED
          BY <4>2, <4>3, <4>4
      <3>2. CASE <<agent'[b].item, agent'[b].lease>> \in agent[b].todo
        BY <1>1, <1>2, <2>3, <3>2 DEF Unheard
      <3> QED
        BY <2>3, <3>1, <3>2 DEF Follows, Remembers, Handing
    <2> QED
      BY <1>1, <1>2, <2>1, <2>2, <2>3 DEF Unheard
  <1>3. CASE agent'[b].queue = "event" /\ agent[b].queue # "event"
    <2>1. agent'[b].todo = {} /\ agent'[b].pc \notin Busy
      BY <1>3 DEF Follows, Onward
    <2> QED
      BY <2>1 DEF Unheard, Leases, Busy
  <1> QED
    BY <1>2, <1>3 DEF Unheard

LEMMA LeasedUnheard ==
    ASSUME Inv, HearInv, heard' = heard, NEW b \in Agents, Leased(b)
    PROVE  Unheard(agent[b])'
  <1> SUFFICES ASSUME agent'[b].queue = "event" PROVE Unheard(agent[b])'
    BY DEF Unheard
  <1>1. \A l \in agent'[b].todo :
           l[1] \in Ids /\ l[2] = rows["event"][l[1]].attempts + 1
    BY DEF Leased
  <1>2. ASSUME NEW l \in agent'[b].todo
        PROVE  l[2] > 0 /\ \A k \in Nat : <<l[1], l[2], k>> \notin heard
    <2>1. l[1] \in Ids /\ rows["event"][l[1]].attempts \in Nat
      BY <1>1 DEF Inv, CoreType, Row, Queues
    <2>2. ASSUME NEW k \in Nat, <<l[1], l[2], k>> \in heard PROVE FALSE
      <3>1. l[2] \in 1 .. rows["event"][l[1]].attempts
        BY <2>2 DEF HearInv, HeardBound
      <3> QED
        BY <1>1, <2>1, <3>1
    <2> QED
      BY <1>1, <2>1, <2>2
  <1>3. Leases(agent[b])' = agent'[b].todo /\ agent'[b].pc # "notifying"
    BY DEF Leased, Leases, Busy
  <1> QED
    BY <1>2, <1>3 DEF Unheard

(* The next subscriber hears: nobody else is under this lease.             *)
LEMMA NotifyUnheard ==
    ASSUME Inv, Inv', MemoryInv, HearInv, Grown, NEW a \in Agents, Notify(a)
    PROVE  /\ HearInv'
           /\ <<agent[a].item, agent[a].lease, agent[a].sent + 1>> \notin heard
  <1> PICK i, n, k : i = agent[a].item /\ n = agent[a].lease /\ k = agent[a].sent + 1
    OBVIOUS
  <1>1. Notified(a)
    BY NotifyFlow
  <1>2. /\ i \in Ids /\ n \in Nat /\ k \in Nat /\ agent[a].sent \in Nat
        /\ agent[a].queue = "event" /\ agent[a].pc = "notifying"
        /\ <<i, n>> \in Leases(agent[a])
    BY <1>1 DEF Notified, Leases, Busy
  <1>3. <<i, n, k>> \notin heard
    <2>1. <<i, n, k>> \in heard => k <= agent[a].sent
      BY <1>2 DEF HearInv, Unheard
    <2> QED
      BY <1>2, <2>1
  <1>4. CASE heard' = heard
    <2>1. \A b \in Agents : Follows(b)
      BY <1>1, StandsFollows DEF Notified, Steady, Others
    <2> QED
      BY <1>3, <1>4, <2>1, FollowsUnheard, BoundStays DEF HearInv
  <1>5. CASE /\ heard' = heard \cup {<<i, n, k>>}
             /\ agent'[a].sent = k
             /\ agent'[a].queue = "event" /\ agent'[a].item = i
             /\ agent'[a].lease = n /\ agent'[a].todo = agent[a].todo
    <2>1. n > 0 /\ n <= rows["event"][i].attempts
      BY <1>2 DEF HearInv, Unheard, Inv, LeaseBound
    <2>2. \A j \in Ids : /\ rows["event"][j].attempts \in Nat
                         /\ rows'["event"][j].attempts \in Nat
                         /\ rows["event"][j].attempts <= rows'["event"][j].attempts
      BY DEF Inv, CoreType, Row, Grown, Queues
    <2>3. HeardBound'
      <3>1. ASSUME NEW h \in heard
            PROVE  h[1] \in Ids /\ h[2] \in 1 .. rows'["event"][h[1]].attempts
        <4>1. h[1] \in Ids /\ h[2] \in 1 .. rows["event"][h[1]].attempts
          BY DEF HearInv, HeardBound
        <4> QED
          BY <2>2, <4>1
      <3>2. n \in 1 .. rows'["event"][i].attempts
        BY <1>2, <2>1, <2>2
      <3> QED
        BY <1>2, <1>5, <3>1, <3>2 DEF HeardBound
    <2>4. ASSUME NEW b \in Agents \ {a} PROVE Unheard(agent[b])'
      <3>1. agent'[b] = agent[b] /\ Unheard(agent[b])
        BY <1>1 DEF Notified, Steady, Others, HearInv
      <3>2. agent[b].queue = "event" => <<i, n>> \notin Leases(agent[b])
        BY <1>2 DEF Inv, LeaseOnce
      <3>3. agent[b].queue = "event" =>
               /\ \A l \in agent[b].todo : l[1] # i \/ l[2] # n
               /\ agent[b].pc = "notifying" => <<agent[b].item, agent[b].lease>> # <<i, n>>
        <4>1. \A l \in agent[b].todo : l = <<l[1], l[2]>>
          <5>1. agent[b] \in Agent
            BY DEF Inv, CoreType
          <5>2. agent[b].todo \subseteq Ids \X Nat
            BY <5>1 DEF Agent
          <5> QED
            BY <5>2
        <4>2. agent[b].queue = "event" => <<i, n>> \notin agent[b].todo
          BY <3>2 DEF Leases
        <4>3. agent[b].queue = "event" /\ agent[b].pc = "notifying" =>
                 <<agent[b].item, agent[b].lease>> # <<i, n>>
          BY <3>2 DEF Leases, Busy
        <4> QED
          BY <4>1, <4>2, <4>3
      <3>4. agent[b].queue = "event" =>
               \A l \in agent[b].todo : \A j \in Nat : <<l[1], l[2], j>> \notin heard'
        BY <1>5, <3>1, <3>3 DEF Unheard
      <3>5. agent[b].queue = "event" /\ agent[b].pc = "notifying" =>
               \A j \in Nat : <<agent[b].item, agent[b].lease, j>> \in heard' =>
                                  j <= agent[b].sent
        BY <1>5, <3>1, <3>3 DEF Unheard
      <3>6. Leases(agent[b])' = Leases(agent[b])
        BY <3>1 DEF Leases
      <3> QED
        BY <3>1, <3>4, <3>5, <3>6 DEF Unheard
    <2>5. Unheard(agent[a])'
      <3>1. Unheard(agent[a]) /\ <<i, n>> \notin agent[a].todo
        BY <1>2 DEF HearInv, Inv, LeaseOnce, Busy
      <3>2. \A l \in Leases(agent[a])' : l \in Leases(agent[a])
        BY <1>2, <1>5 DEF Leases
      <3>3. \A l \in agent[a].todo : l[1] # i \/ l[2] # n
        <4>1. \A l \in agent[a].todo : l = <<l[1], l[2]>>
          BY DEF Inv, CoreType, Agent
        <4> QED
          BY <3>1, <4>1
      <3>4. \A l \in agent[a].todo : \A j \in Nat : <<l[1], l[2], j>> \notin heard'
        BY <1>2, <1>5, <3>1, <3>3 DEF Unheard
      <3>5. \A j \in Nat : <<i, n, j>> \in heard' => j <= k
        BY <1>2, <1>5, <3>1 DEF Unheard
      <3> QED
        BY <1>2, <1>5, <3>1, <3>2, <3>4, <3>5 DEF Unheard
    <2> QED
      BY <1>3, <2>3, <2>4, <2>5 DEF HearInv
  <1> QED
    BY <1>1, <1>4, <1>5 DEF Notified

LEMMA HearNext ==
    ASSUME Inv, LockInv, Inv', MemoryInv, HearInv, [Next]_vars
    PROVE  HearInv'
  <1>1. Grown
    BY NextGrown
  <1>2. ASSUME heard' = heard, \A b \in Agents : Follows(b) \/ Leased(b)
        PROVE  HearInv'
    BY <1>1, <1>2, BoundStays, FollowsUnheard, LeasedUnheard DEF HearInv
  <1>3. CASE Calm
    BY <1>2, <1>3 DEF Calm
  <1>4. ASSUME NEW a \in Agents, HandlerStep(a) \/ Emit(a) PROVE HearInv'
    <2>1. /\ heard' = heard /\ Others(a) /\ agent'[a].queue = "command"
      BY <1>4, HandlerFlow, EmitFlow DEF Handled, Emitted
    <2>2. \A b \in Agents \ {a} : Unheard(agent[b])'
      BY <2>1, StandsFollows, FollowsUnheard DEF Others
    <2>3. Unheard(agent[a])'
      BY <2>1 DEF Unheard
    <2> QED
      BY <1>1, <2>1, <2>2, <2>3, BoundStays DEF HearInv
  <1>5. ASSUME NEW a \in Agents, Notify(a) PROVE HearInv'
    BY <1>1, <1>5, NotifyUnheard
  <1> QED
    BY <1>3, <1>4, <1>5, Flow

-----------------------------------------------------------------------------
(***************************************************************************)
(* The inbox holds the messages that were stored in it, so a command on    *)
(* record was asked for, or is what one of them routes to.                 *)
(***************************************************************************)
MailInv ==
    \A i \in Ids : \/ rows["inbox"][i].data = NoData
                   \/ \E m \in Mail : m[2] = rows["inbox"][i].data

LEMMA MailInit == Init => MailInv
  <1> SUFFICES ASSUME Init, NEW i \in Ids
               PROVE  \/ rows["inbox"][i].data = NoData
                      \/ \E m \in Mail : m[2] = rows["inbox"][i].data
    BY DEF MailInv
  <1>1. rows["inbox"][i] = MailRow(i)
    BY DEF Init, Queues
  <1>2. \A d \in Data : NewRow(d, NoCause).data = d
    BY DEF NewRow, NoRow
  <1>3. CASE \E d \in Data : <<i, d>> \in Mail
    <2> PICK d \in Data : <<i, d>> \in Mail /\ MailRow(i) = NewRow(d, NoCause)
      BY <1>3 DEF MailRow
    <2> QED
      BY <1>1, <1>2
  <1>4. CASE ~ \E d \in Data : <<i, d>> \in Mail
    BY <1>1, <1>4 DEF MailRow, NoRow
  <1> QED
    BY <1>3, <1>4

LEMMA MailNext ==
    ASSUME Inv, LockInv, MemoryInv, MailInv, [Next]_vars
    PROVE  MailInv'
  <1>1. ASSUME \A i \in Ids : rows'["inbox"][i].data = rows["inbox"][i].data
        PROVE  MailInv'
    BY <1>1 DEF MailInv
  <1>2. CASE Calm
    BY <1>1, <1>2 DEF Calm, SameData, Commanded, Recorded, Queues
  <1>3. ASSUME NEW a \in Agents, HandlerStep(a) PROVE MailInv'
    BY <1>1, <1>3, HandlerFlow DEF Handled
  <1>4. ASSUME NEW a \in Agents, Emit(a) PROVE MailInv'
    BY <1>1, <1>4, EmitFlow DEF Emitted, Recorded, Queues
  <1>5. ASSUME NEW a \in Agents, Notify(a) PROVE MailInv'
    BY <1>1, <1>5, NotifyFlow DEF Notified, Recorded, Queues
  <1> QED
    BY <1>2, <1>3, <1>4, <1>5, Flow

(* A calm step records no command but a request.                           *)
LEMMA CalmData ==
    ASSUME Inv, MailInv, Calm, \A m \in Mail : Route(m[2]) \in Requests \cup {NoData}
    PROVE  /\ \A i \in Ids : rows'["event"][i].data = rows["event"][i].data
           /\ \A i \in Ids : \/ rows'["command"][i].data = rows["command"][i].data
                             \/ rows'["command"][i].data \in Requests
  <1>1. CASE SameData
    BY <1>1 DEF SameData, Queues
  <1>2. CASE Commanded
    <2>1. PICK r \in Data :
             /\ \E by : Recorded("command", r, by)
             /\ \/ r \in Requests
                \/ \E i \in Ids : /\ rows["inbox"][i].status # "none"
                                  /\ r = Route(rows["inbox"][i].data)
      BY <1>2 DEF Commanded
    <2>2. r \in Requests
      <3>1. ASSUME NEW i \in Ids, rows["inbox"][i].status # "none",
                   r = Route(rows["inbox"][i].data)
            PROVE  r \in Requests
        <4>1. rows["inbox"][i].data # NoData
          BY <3>1, KernelAssumption DEF KernelAssumption, Inv, RowInv, Queues
        <4>2. PICK m \in Mail : m[2] = rows["inbox"][i].data
          BY <4>1 DEF MailInv
        <4>3. Route(m[2]) \in Requests \cup {NoData}
          OBVIOUS
        <4> QED
          BY <3>1, <4>2, <4>3, KernelAssumption DEF KernelAssumption
      <3> QED
        BY <2>1, <3>1
    <2> QED
      BY <2>1, <2>2 DEF Recorded, Queues
  <1> QED
    BY <1>1, <1>2 DEF Calm
=============================================================================
