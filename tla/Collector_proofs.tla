-------------------------- MODULE Collector_proofs --------------------------
(***************************************************************************)
(* Proofs about Collector for every chain, every set of pools and tasks    *)
(* and every configuration; no bound of the model-checking runs is         *)
(* assumed.                                                                *)
(*   1. Types, and that whatever the tasks do to the queue EventQueue      *)
(*      allows, so that EventQueue's theorems hold of the collector's.     *)
(*   2. Every contract of the topic set is polled.                         *)
(*   3. The pollers deliver in order (OrderedDelivery), and so the mirror  *)
(*      is always a past state of each contract (PrefixConsistent).        *)
(***************************************************************************)
EXTENDS Collector, Consumer_proofs

(* What the endpoint serves are positions that c has emitted.              *)
LEMMA PageType ==
    ASSUME ChainTypeOK, NEW c \in Contract, NEW offset \in Nat
    PROVE  PageAt(c, offset) \in Seq(Positions(c))
  <1> DEFINE n == IF tip[c] < offset THEN 0 ELSE tip[c] - offset
             m == IF n < PageSize THEN n ELSE PageSize
  <1>1. n \in Nat /\ n <= Len(History[c])
    BY Lengths DEF ChainTypeOK
  <1>2. m \in Nat /\ m <= n
    BY <1>1, CollectorAssumption
  <1>3. \A k \in 1 .. m : n + 1 - k \in Positions(c)
    BY <1>1, <1>2, Lengths
  <1> HIDE DEF n, m
  <1>4. [k \in 1 .. m |-> n + 1 - k] \in Seq(Positions(c))
    BY <1>2, <1>3
  <1> QED
    BY <1>4 DEF PageAt, n, m

(* Reversing a batch keeps what is in it.                                  *)
LEMMA ReverseType ==
    ASSUME NEW S, NEW s \in Seq(S) PROVE Reverse(s) \in Seq(S)
  BY DEF Reverse

(* One page more: what a poller holds afterwards, however far down the     *)
(* page it collects.                                                       *)
LEMMA CollectType ==
    ASSUME NEW S, NEW s \in Seq(S), NEW got \in Seq(S), NEW n \in 0 .. Len(got)
    PROVE  /\ s \o SubSeq(got, 1, n) \in Seq(S)
           /\ Chronological(s \o SubSeq(got, 1, n)) \in Seq(S)
  <1>1. \A i \in 1 .. n : got[i] \in S
    BY ElementOfSeq
  <1>2. SubSeq(got, 1, n) \in Seq(S)
    <2>1. n \in Int
      OBVIOUS
    <2> QED
      BY <1>1, <2>1, SubSeqProperties
  <1>3. s \o SubSeq(got, 1, n) \in Seq(S)
    BY <1>2, ConcatProperties
  <1> QED
    BY <1>3, ReverseType DEF Chronological

-----------------------------------------------------------------------------
(* The steps of the processor and of the handle are Consumer's.            *)
LEMMA ConsumerSteps == ProcessorStep \/ HandleStep => ConsumerStep(tip)
  <1>1. ASSUME NEW p \in Pool, FetchPool(p) \/ AddPool(p) \/ RemovePool(p)
        PROVE  Fetch(p, tip) \/ Insert(p) \/ Withdraw(p)
    BY <1>1 DEF FetchPool, AddPool, RemovePool
  <1>2. CASE Stop \/ StopReturns \/ Restart \/ DropHandle
    BY <1>2 DEF Stop, StopReturns, Restart, DropHandle, ConsumerStep
  <1>3. CASE ProcessorStep
    BY <1>3 DEF ProcessorStep, ReceiveEvent, ProcessorExit, ConsumerStep
  <1> QED
    BY <1>1, <1>2, <1>3 DEF HandleStep, ConsumerStep

(* Every step of the collector is, for the queue, a step of EventQueue or  *)
(* none: the batch holds events of the polled contract, so what a poller   *)
(* offers is an event.                                                     *)
LEMMA QueueStep == TypeOK /\ [Next]_vars => [QueueNext]_queueVars
  <1> SUFFICES ASSUME TypeOK, [Next]_vars PROVE [QueueNext]_queueVars
    OBVIOUS
  <1>1. ASSUME NEW t \in Producer, Offer(t) PROVE QueueNext \/ UNCHANGED queueVars
    <2> DEFINE e == <<Serves[t], Head(batch[t])>>
    <2>1. Serves[t] \in Contract
      BY CollectorAssumption
    <2>2. Head(batch[t]) \in Positions(Serves[t])
      <3>1. batch[t] \in Seq(Positions(Serves[t])) /\ batch[t] # <<>>
        BY <1>1 DEF TypeOK, TaskTypeOK, Offer
      <3> QED
        BY <3>1, HeadTailProperties
    <2>3. e \in Event
      BY <2>1, <2>2, EventType
    <2>4. MarkSeen(t, e) \/ UNCHANGED queueVars
      BY <1>1 DEF Offer
    <2> QED
      BY <2>3, <2>4 DEF QueueNext
  <1>2. ASSUME NEW t \in Producer, Push(t) PROVE QueueNext
    BY <1>2 DEF Push, QueueNext
  <1>3. ASSUME NEW t \in Producer,
               \/ Wake(t) \/ StartPoll(t) \/ FetchPage(t) \/ FetchFails(t) \/ EndPoll(t) \/ PollerExit(t)
        PROVE  UNCHANGED queueVars
    BY <1>3 DEF Wake, StartPoll, FetchPage, FetchFails, EndPoll, PollerExit
  <1>4. CASE ProcessorStep \/ HandleStep
    BY <1>4, ConsumerSteps, ConsumerQueue
  <1>6. ASSUME NEW c \in Contract, Emit(c) PROVE UNCHANGED queueVars
    BY <1>6 DEF Emit
  <1>8. CASE RunSource
    BY <1>8 DEF RunSource
  <1>9. CASE UNCHANGED vars
    BY <1>9 DEF vars
  <1> QED
    BY <1>1, <1>2, <1>3, <1>4, <1>6, <1>8, <1>9 DEF Next, PollerStep

(* The chain only grows, and never past its history.                       *)
LEMMA ChainStep == TypeOK /\ [Next]_vars => ChainTypeOK'
  <1> SUFFICES ASSUME TypeOK, [Next]_vars PROVE ChainTypeOK'
    OBVIOUS
  <1>1. ASSUME UNCHANGED chainVars PROVE ChainTypeOK'
    BY <1>1 DEF chainVars, TypeOK, ChainTypeOK
  <1>2. ASSUME NEW c \in Contract, Emit(c) PROVE ChainTypeOK'
    <2>1. PICK n \in tip[c] + 1 .. Len(History[c]) : tip' = [tip EXCEPT ![c] = n]
      BY <1>2 DEF Emit
    <2>2. snap' = snap
      BY <1>2 DEF Emit
    <2>3. n \in Nat /\ tip[c] < n /\ n <= Len(History[c])
      BY Lengths DEF TypeOK, ChainTypeOK
    <2>4. tip' \in [Contract -> Nat]
      BY <2>1, <2>3 DEF TypeOK, ChainTypeOK
    <2>5. \A d \in Contract : tip[d] <= tip'[d] /\ tip'[d] <= Len(History[d])
      BY <2>1, <2>3 DEF TypeOK, ChainTypeOK
    <2>6. \A d \in Contract : snap[d] <= tip'[d]
      BY <2>4, <2>5 DEF TypeOK, ChainTypeOK
    <2> QED
      BY <2>2, <2>4, <2>5, <2>6 DEF TypeOK, ChainTypeOK
  <1>3. ASSUME NEW t \in Producer, PollerStep(t) PROVE UNCHANGED chainVars
    BY <1>3 DEF PollerStep, Wake, StartPoll, FetchPage, FetchFails, Offer, Push, EndPoll,
                PollerExit, sourceVars
  <1>4. CASE ProcessorStep
    BY <1>1, <1>4 DEF ProcessorStep, ReceiveEvent, ProcessorExit, sourceVars
  <1>5. CASE HandleStep
    BY <1>1, <1>5 DEF sourceVars, HandleStep, FetchPool, AddPool, RemovePool, Stop, StopReturns,
                      Restart, DropHandle
  <1>6. CASE RunSource
    BY <1>1, <1>6 DEF RunSource
  <1>7. CASE UNCHANGED vars
    BY <1>1, <1>7 DEF vars, sourceVars
  <1> QED
    BY <1>1, <1>2, <1>3, <1>4, <1>5, <1>6, <1>7 DEF Next

-----------------------------------------------------------------------------
(* Starting tasks is the only thing it does to pc.                         *)
LEMMA SpawnType ==
    ASSUME TaskTypeOK, NEW contracts, NEW count, Spawn(contracts, count)
    PROVE  pc' \in [Producer -> {"off", "idle", "due", "fetch", "send"}]
  <1>1. PICK new : pc' = [t \in Producer |-> IF t \in new THEN "idle" ELSE pc[t]]
    BY DEF Spawn
  <1> QED
    BY <1>1 DEF TaskTypeOK

(* A cycle that ends leaves nothing behind in the task.                    *)
LEMMA EndCycleType ==
    ASSUME TaskTypeOK, NEW t \in Producer, EndCycle(t)
    PROVE  TaskTypeOK'
  <1>1. \A u \in Producer : batch'[u] = <<>> \/ batch'[u] = batch[u]
    BY DEF EndCycle, TaskTypeOK
  <1>2. batch' \in [Producer -> Seq(Nat)]
    BY EmptySeq DEF EndCycle, TaskTypeOK
  <1>3. \A u \in Producer : batch'[u] \in Seq(Positions(Serves[u]))
    BY <1>1, EmptySeq DEF TaskTypeOK
  <1>4. /\ pc' \in [Producer -> {"off", "idle", "due", "fetch", "send"}]
        /\ known' \in [Producer -> Tx \cup {NoTx}] /\ newest' \in [Producer -> Tx \cup {NoTx}]
        /\ page' \in [Producer -> Nat]
    BY DEF EndCycle, TaskTypeOK
  <1> QED
    BY <1>2, <1>3, <1>4 DEF TaskTypeOK

(* A fetched page leaves only positions of the polled contract in a task.  *)
LEMMA FetchPageType ==
    ASSUME TypeOK, NEW t \in Producer, FetchPage(t)
    PROVE  TaskTypeOK'
  <1> DEFINE c == Serves[t]
             got == PageAt(c, page[t] * PageSize)
  <1>1. c \in Contract /\ page[t] \in Nat /\ page[t] * PageSize \in Nat
    BY CollectorAssumption DEF TypeOK, TaskTypeOK
  <1>2. got \in Seq(Positions(c))
    BY <1>1, PageType DEF TypeOK
  <1>3. batch[t] \in Seq(Positions(c))
    BY DEF TypeOK, TaskTypeOK
  <1>4. PICK n \in 0 .. Len(got) :
          LET all == batch[t] \o SubSeq(got, 1, n)
              more == /\ n = Len(got) /\ n = PageSize
                      /\ Len(all) < MaxEventsPerCycle
                      /\ page[t] + 1 < MaxPages(known[t])
          IN  /\ batch' = [batch EXCEPT ![t] = IF more THEN all ELSE Chronological(all)]
              /\ pc' = [pc EXCEPT ![t] = IF more THEN "fetch" ELSE "send"]
    BY Zenon DEF FetchPage
  <1> DEFINE all == batch[t] \o SubSeq(got, 1, n)
             more == /\ n = Len(got) /\ n = PageSize
                     /\ Len(all) < MaxEventsPerCycle
                     /\ page[t] + 1 < MaxPages(known[t])
             b == IF more THEN all ELSE Chronological(all)
             l == IF more THEN "fetch" ELSE "send"
  <1>5. batch' = [batch EXCEPT ![t] = b] /\ pc' = [pc EXCEPT ![t] = l]
    BY <1>4
  <1>6. l \in {"fetch", "send"}
    OBVIOUS
  <1>7. b \in Seq(Positions(c))
    <2>1. all \in Seq(Positions(c)) /\ Chronological(all) \in Seq(Positions(c))
      <3> HIDE DEF got, c
      <3> QED
        BY <1>2, <1>3, CollectType
    <2> QED
      BY <2>1
  <1> HIDE DEF b, l, more, all
  <1>8. b \in Seq(Nat)
    <2>1. Positions(c) \subseteq Nat
      BY <1>1, Lengths
    <2> QED
      BY <1>7, <2>1, SeqMonotonic
  <1>9. batch' \in [Producer -> Seq(Nat)] /\ \A u \in Producer : batch'[u] \in Seq(Positions(Serves[u]))
    BY <1>7, <1>8, <1>5 DEF TypeOK, TaskTypeOK
  <1>10. pc' \in [Producer -> {"off", "idle", "due", "fetch", "send"}]
    BY <1>5, <1>6 DEF TypeOK, TaskTypeOK
  <1>11. newest' \in [Producer -> Tx \cup {NoTx}]
    <2>1. got # <<>> => TxAt(c, got[1]) \in Tx
      <3> HIDE DEF got, c
      <3>1. got # <<>> => 1 \in 1 .. Len(got)
        BY <1>2, EmptySeq
      <3> QED
        BY <1>1, <1>2, <3>1, ElementOfSeq, TxType
    <2> QED
      BY <2>1 DEF FetchPage, TypeOK, TaskTypeOK
  <1>12. page' \in [Producer -> Nat]
    BY DEF FetchPage, TypeOK, TaskTypeOK
  <1>13. UNCHANGED known
    BY DEF FetchPage
  <1> QED
    BY <1>9, <1>10, <1>11, <1>12, <1>13 DEF TypeOK, TaskTypeOK

(* Every step keeps the types of the tasks.                                *)
LEMMA TaskStep == TypeOK /\ [Next]_vars => TaskTypeOK'
  <1> SUFFICES ASSUME TypeOK, [Next]_vars PROVE TaskTypeOK'
    OBVIOUS
  <1>0. TaskTypeOK
    BY DEF TypeOK
  <1>1. ASSUME NEW t \in Producer, StartPoll(t) PROVE TaskTypeOK'
    <2>1. watermark[Serves[t]] \in Tx \cup {NoTx}
      BY CollectorAssumption DEF TypeOK, PolledTypeOK
    <2>2. known' \in [Producer -> Tx \cup {NoTx}]
      BY <1>0, <1>1, <2>1 DEF StartPoll, TaskTypeOK
    <2>3. pc' \in [Producer -> {"off", "idle", "due", "fetch", "send"}]
      BY <1>0, <1>1 DEF StartPoll, TaskTypeOK
    <2>4. UNCHANGED <<page, batch, newest>>
      BY <1>1 DEF StartPoll
    <2> QED
      BY <1>0, <2>2, <2>3, <2>4 DEF TaskTypeOK
  <1>2. ASSUME NEW t \in Producer, FetchPage(t) PROVE TaskTypeOK'
    BY <1>2, FetchPageType
  <1>3. ASSUME NEW t \in Producer, FetchFails(t) \/ EndPoll(t) PROVE TaskTypeOK'
    BY <1>0, <1>3, EndCycleType DEF FetchFails, EndPoll
  <1>4. ASSUME NEW t \in Producer, Offer(t) PROVE TaskTypeOK'
    <2>1. batch[t] \in Seq(Positions(Serves[t])) /\ batch[t] \in Seq(Nat) /\ batch[t] # <<>>
      BY <1>0, <1>4 DEF TaskTypeOK, Offer
    <2>2. Tail(batch[t]) \in Seq(Positions(Serves[t])) /\ Tail(batch[t]) \in Seq(Nat)
      BY <2>1, HeadTailProperties
    <2>3. batch' = [batch EXCEPT ![t] = Tail(batch[t])]
      BY <1>4 DEF Offer
    <2>4. batch' \in [Producer -> Seq(Nat)] /\ \A u \in Producer : batch'[u] \in Seq(Positions(Serves[u]))
      BY <1>0, <2>2, <2>3 DEF TaskTypeOK
    <2>5. UNCHANGED <<pc, known, page, newest>>
      BY <1>4 DEF Offer
    <2> QED
      BY <1>0, <2>4, <2>5 DEF TaskTypeOK
  <1>5. ASSUME NEW t \in Producer, Wake(t) \/ PollerExit(t) PROVE TaskTypeOK'
    <2>1. pc' \in [Producer -> {"off", "idle", "due", "fetch", "send"}]
      BY <1>0, <1>5 DEF Wake, PollerExit, TaskTypeOK
    <2>2. UNCHANGED <<known, page, batch, newest>>
      BY <1>5 DEF Wake, PollerExit, pollVars
    <2> QED
      BY <1>0, <2>1, <2>2 DEF TaskTypeOK
  <1>6. ASSUME NEW contracts, NEW count, Spawn(contracts, count), UNCHANGED pollVars
        PROVE  TaskTypeOK'
    <2>1. pc' \in [Producer -> {"off", "idle", "due", "fetch", "send"}]
      BY <1>0, <1>6, SpawnType
    <2> QED
      BY <1>0, <1>6, <2>1 DEF TaskTypeOK, pollVars
  <1>7. ASSUME UNCHANGED <<pc, pollVars>> PROVE TaskTypeOK'
    BY <1>0, <1>7 DEF TaskTypeOK, pollVars
  <1>8. CASE RunSource
    BY <1>6, <1>8 DEF RunSource
  <1>9. ASSUME NEW p \in Pool, AddPool(p) PROVE TaskTypeOK'
    BY <1>6, <1>9 DEF AddPool
  <1>10. CASE ProcessorStep
    BY <1>7, <1>10 DEF ProcessorStep, ReceiveEvent, ProcessorExit, sourceVars
  <1>11. ASSUME NEW t \in Producer, Push(t) PROVE TaskTypeOK'
    BY <1>7, <1>11 DEF Push, sourceVars
  <1>12. ASSUME NEW c \in Contract, Emit(c) PROVE TaskTypeOK'
    BY <1>7, <1>12 DEF Emit
  <1>13. ASSUME NEW p \in Pool, FetchPool(p) \/ RemovePool(p) PROVE TaskTypeOK'
    BY <1>7, <1>13 DEF FetchPool, RemovePool, sourceVars
  <1>14. CASE Stop \/ StopReturns \/ Restart \/ DropHandle
    BY <1>7, <1>14 DEF Stop, StopReturns, Restart, DropHandle, sourceVars
  <1>15. CASE UNCHANGED vars
    BY <1>7, <1>15 DEF vars, sourceVars
  <1> QED
    BY <1>1, <1>2, <1>3, <1>4, <1>5, <1>8, <1>9, <1>10, <1>11, <1>12, <1>13, <1>14, <1>15
       DEF Next, PollerStep, HandleStep

-----------------------------------------------------------------------------
(* Every step keeps the types of the consuming side.                       *)
LEMMA ConsumerKeepsTypes == TypeOK /\ [Next]_vars => ConsumerTypeOK'
  <1> SUFFICES ASSUME TypeOK, [Next]_vars PROVE ConsumerTypeOK'
    OBVIOUS
  <1>1. ASSUME UNCHANGED consumerVars PROVE ConsumerTypeOK'
    BY <1>1 DEF TypeOK, ConsumerTypeOK, consumerVars
  <1>2. CASE ProcessorStep \/ HandleStep
    BY <1>2, ConsumerSteps, ConsumerTypes DEF TypeOK
  <1>3. ASSUME NEW t \in Producer, PollerStep(t) PROVE UNCHANGED consumerVars
    BY <1>3 DEF PollerStep, Wake, StartPoll, FetchPage, FetchFails, Offer, Push, EndPoll, PollerExit
  <1>4. ASSUME NEW c \in Contract, Emit(c) PROVE UNCHANGED consumerVars
    BY <1>4 DEF Emit
  <1>5. CASE RunSource
    BY <1>1, <1>5 DEF RunSource
  <1>6. CASE UNCHANGED vars
    BY <1>1, <1>6 DEF vars
  <1> QED
    BY <1>1, <1>2, <1>3, <1>4, <1>5, <1>6 DEF Next

(* Every step keeps the types of the watermarks and of the polled set.     *)
LEMMA PolledStep == TypeOK /\ [Next]_vars => PolledTypeOK'
  <1> SUFFICES ASSUME TypeOK, [Next]_vars PROVE PolledTypeOK'
    OBVIOUS
  <1>0. PolledTypeOK
    BY DEF TypeOK
  <1>1. ASSUME UNCHANGED <<watermark, polled, source>> PROVE PolledTypeOK'
    BY <1>0, <1>1 DEF PolledTypeOK
  <1>2. ASSUME NEW t \in Producer, EndPoll(t) PROVE PolledTypeOK'
    <2>1. newest[t] \in Tx \cup {NoTx}
      BY DEF TypeOK, TaskTypeOK
    <2>2. watermark' \in [Contract -> Tx \cup {NoTx}]
      BY <1>0, <1>2, <2>1 DEF EndPoll, PolledTypeOK
    <2> QED
      BY <1>0, <1>2, <2>2 DEF EndPoll, PolledTypeOK
  <1>3. ASSUME NEW p \in Pool, AddPool(p) PROVE PolledTypeOK'
    BY <1>0, <1>3, TopicsType DEF AddPool, PolledTypeOK
  <1>4. CASE RunSource
    BY <1>0, <1>4 DEF RunSource, PolledTypeOK
  <1>5. CASE Restart
    BY <1>0, <1>5 DEF Restart, PolledTypeOK, TypeOK, ConsumerTypeOK
  <1>6. ASSUME NEW t \in Producer,
               \/ Wake(t) \/ StartPoll(t) \/ FetchPage(t) \/ FetchFails(t)
               \/ Offer(t) \/ Push(t) \/ PollerExit(t)
        PROVE  PolledTypeOK'
    BY <1>1, <1>6 DEF Wake, StartPoll, FetchPage, FetchFails, Offer, Push, PollerExit, sourceVars
  <1>7. ASSUME NEW c \in Contract, Emit(c) PROVE PolledTypeOK'
    BY <1>1, <1>7 DEF Emit
  <1>8. CASE ProcessorStep \/ Stop \/ StopReturns \/ DropHandle
    BY <1>1, <1>8 DEF ProcessorStep, ReceiveEvent, ProcessorExit, Stop, StopReturns, DropHandle, sourceVars
  <1>9. ASSUME NEW p \in Pool, FetchPool(p) \/ RemovePool(p) PROVE PolledTypeOK'
    BY <1>1, <1>9 DEF FetchPool, RemovePool, sourceVars
  <1>10. CASE UNCHANGED vars
    BY <1>1, <1>10 DEF vars, sourceVars
  <1> QED
    BY <1>2, <1>3, <1>4, <1>5, <1>6, <1>7, <1>8, <1>9, <1>10 DEF Next, PollerStep, HandleStep

-----------------------------------------------------------------------------
(* EventQueue's own strengthened type invariant travels along.             *)
CollectorInv == TypeOK /\ QueueShape

(* It holds when the collector starts ...                                  *)
LEMMA InvInit == Init => CollectorInv
  <1> SUFFICES ASSUME Init PROVE CollectorInv
    OBVIOUS
  <1>1. QueueShape
    BY ShapeInit DEF Init, ConsumerInit
  <1>2. ChainTypeOK
    <2>1. tip \in [Contract -> Nat] /\ snap \in [Contract -> Nat]
      BY HeightsAreNat DEF Init
    <2>2. \A c \in Contract : snap[c] <= tip[c] /\ tip[c] <= Len(History[c])
      BY DEF Init, IsChain
    <2> QED
      BY <2>1, <2>2 DEF ChainTypeOK
  <1>3. TaskTypeOK
    <2>1. batch = [t \in Producer |-> <<>>]
      BY DEF Init, NoPoll
    <2>2. batch \in [Producer -> Seq(Nat)] /\ \A t \in Producer : batch[t] \in Seq(Positions(Serves[t]))
      BY <2>1, EmptySeq
    <2> QED
      BY <2>2 DEF Init, NoPoll, TaskTypeOK
  <1>4. ConsumerTypeOK
    BY ConsumerStartTypes DEF Init
  <1>5. PolledTypeOK
    BY <1>4 DEF Init, PolledTypeOK, ConsumerTypeOK
  <1> QED
    BY <1>1, <1>2, <1>3, <1>4, <1>5 DEF CollectorInv, TypeOK, QueueShape

(* ... and every step keeps it.                                            *)
LEMMA InvStep == CollectorInv /\ [Next]_vars => CollectorInv'
  <1> SUFFICES ASSUME CollectorInv, [Next]_vars PROVE CollectorInv'
    OBVIOUS
  <1>1. TypeOK /\ QueueShape
    BY DEF CollectorInv
  <1>2. QueueShape'
    BY <1>1, QueueStep, ShapeStep
  <1>3. QueueTypeOK'
    BY <1>2 DEF QueueShape
  <1> QED
    BY <1>1, <1>2, <1>3, ChainStep, TaskStep, PolledStep, ConsumerKeepsTypes DEF CollectorInv, TypeOK

(* Types of the whole collector; in particular a poller only ever holds    *)
(* positions of the contract it polls, and the tip stays within history.   *)
THEOREM CollectorTypeCorrect == Spec => []TypeOK
  <1>1. CollectorInv => TypeOK
    BY DEF CollectorInv
  <1> QED
    BY <1>1, InvInit, InvStep, PTL DEF Spec

(* The collector, with any number of pollers for a contract and through    *)
(* stops and restarts, uses the queue only as EventQueue allows.           *)
LEMMA CollectorUsesQueue == Spec => QueueSpec
  <1>1. Init => QueueInit
    BY DEF Init, ConsumerInit
  <1>2. CollectorInv /\ [Next]_vars => [QueueNext]_queueVars
    BY QueueStep DEF CollectorInv
  <1> QED
    BY <1>1, <1>2, InvInit, InvStep, PTL DEF Spec, QueueSpec

(* Hence EventQueue's guarantees hold of the collector's queue: one        *)
(* delivery of a remembered event whatever the pollers fetch twice, a      *)
(* bounded dedup set, and no remembered event lost while the processor     *)
(* runs.                                                                   *)
THEOREM CollectorDedup == Spec => [](AtMostOnce /\ SeenBounded /\ NothingLost)
  <1> QED
    BY CollectorUsesQueue, QueueTypeCorrect, DedupCorrect, NothingLostCorrect, PTL
-----------------------------------------------------------------------------
(* Every contract of the topic set is polled, as far as the instance has   *)
(* tasks for it: what polled leaves out has to be started, and the source  *)
(* starts what was inserted before it ran.                                 *)
EnoughTasks ==
    /\ IsFiniteSet(Producer)
    /\ \A c \in Contract : \E t \in Producer : Serves[t] = c

PolledInv == polled \subseteq topics /\ EveryTopicPolled

(* Starting at least one task on c leaves c polled, and no task stopped.   *)
LEMMA SpawnPolls ==
    ASSUME EnoughTasks, TaskTypeOK, NEW contracts \in SUBSET Contract, NEW count,
           \A c \in contracts : count[c] \in Nat \ {0}, Spawn(contracts, count)
    PROVE  /\ \A c \in contracts : \E t \in Producer : Serves[t] = c /\ pc'[t] # "off"
           /\ \A t \in Producer : pc[t] # "off" => pc'[t] # "off"
  <1>1. PICK new \in SUBSET UNION {Free(c) : c \in contracts} :
           /\ \A c \in contracts :
                 Cardinality(new \cap Free(c)) = Min({count[c], Cardinality(Free(c))})
           /\ pc' = [t \in Producer |-> IF t \in new THEN "idle" ELSE pc[t]]
    BY DEF Spawn
  <1>2. ASSUME NEW c \in contracts PROVE \E t \in Producer : Serves[t] = c /\ pc'[t] # "off"
    <2>1. PICK u \in Producer : Serves[u] = c
      BY DEF EnoughTasks
    <2>2. CASE pc[u] # "off"
      BY <1>1, <2>1, <2>2
    <2>3. CASE pc[u] = "off"
      <3>1. u \in Free(c) /\ IsFiniteSet(Free(c))
        BY <2>1, <2>3, FS_Subset DEF Free, EnoughTasks
      <3>2. Cardinality(Free(c)) \in Nat \ {0}
        BY <3>1, FS_CardinalityType, FS_EmptySet
      <3>3. Cardinality(new \cap Free(c)) # 0
        <4>1. Min({count[c], Cardinality(Free(c))}) \in {count[c], Cardinality(Free(c))}
          BY <3>2, MinOfTwo
        <4> QED
          BY <1>1, <3>2, <4>1
      <3>4. PICK t \in new : t \in Free(c)
        BY <3>3, FS_EmptySet
      <3> QED
        BY <1>1, <3>4 DEF Free
    <2> QED
      BY <2>2, <2>3
  <1>3. \A t \in Producer : pc[t] # "off" => pc'[t] # "off"
    BY <1>1
  <1> QED
    BY <1>2, <1>3

(* It holds when the collector starts, since no source has run ...         *)
LEMMA PolledInit == Init => PolledInv
  BY DEF Init, PolledInv, EveryTopicPolled

(* ... and every step keeps it.                                            *)
LEMMA PolledStays ==
    ASSUME EnoughTasks, TypeOK, PolledInv, [Next]_vars
    PROVE  PolledInv'
  <1>0. TaskTypeOK /\ topics \in SUBSET Contract
    BY DEF TypeOK, ConsumerTypeOK
  <1>1. ASSUME UNCHANGED <<topics, polled, source, StopFlag>>,
               \A t \in Producer : pc[t] # "off" => pc'[t] # "off"
        PROVE  PolledInv'
    BY <1>1 DEF PolledInv, EveryTopicPolled
  <1>2. ASSUME NEW t \in Producer,
               Wake(t) \/ StartPoll(t) \/ FetchPage(t) \/ FetchFails(t) \/ Offer(t) \/ Push(t) \/ EndPoll(t)
        PROVE  PolledInv'
    <2>1. UNCHANGED <<topics, polled, source, StopFlag>>
      BY <1>2 DEF Wake, StartPoll, FetchPage, FetchFails, Offer, Push, EndPoll, consumerVars,
                  sourceVars, StopFlag
    <2>2. pc' = pc \/ \E s \in {"idle", "due", "fetch", "send"} : pc' = [pc EXCEPT ![t] = s]
      BY <1>2 DEF Wake, StartPoll, FetchPage, FetchFails, Offer, Push, EndPoll, EndCycle, sourceVars
    <2>3. \A u \in Producer : pc[u] # "off" => pc'[u] # "off"
      BY <1>0, <2>2 DEF TaskTypeOK
    <2> QED
      BY <1>1, <2>1, <2>3
  <1>3. ASSUME NEW t \in Producer, PollerExit(t) PROVE PolledInv'
    BY <1>3 DEF PollerExit, PolledInv, EveryTopicPolled, consumerVars, StopFlag
  <1>4. CASE RunSource
    <2>1. Spawn(topics, [c \in Contract |-> 1]) /\ UNCHANGED <<topics, polled>>
      BY <1>4 DEF RunSource, consumerVars
    <2>2. \A c \in topics : \E t \in Producer : Serves[t] = c /\ pc'[t] # "off"
      <3>1. \A c \in topics : [d \in Contract |-> 1][c] \in Nat \ {0}
        BY <1>0
      <3> QED
        BY <1>0, <2>1, <3>1, SpawnPolls
    <2> QED
      BY <2>1, <2>2 DEF PolledInv, EveryTopicPolled
  <1>5. ASSUME NEW p \in Pool, AddPool(p) PROVE PolledInv'
    <2>1. /\ Spawn(TopicsOf(p) \ polled, TopicCount[p])
          /\ topics' = topics \cup TopicsOf(p) /\ polled' = polled \cup TopicsOf(p)
          /\ UNCHANGED <<source, StopFlag>>
      BY <1>5 DEF AddPool, Insert, StopFlag
    <2>2. /\ \A c \in TopicsOf(p) \ polled : \E t \in Producer : Serves[t] = c /\ pc'[t] # "off"
          /\ \A t \in Producer : pc[t] # "off" => pc'[t] # "off"
      <3>1. \A c \in TopicsOf(p) \ polled : TopicCount[p][c] \in Nat \ {0}
        BY ConsumerAssumption DEF TopicsOf
      <3>2. TopicsOf(p) \ polled \in SUBSET Contract
        BY TopicsType
      <3> QED
        BY <1>0, <2>1, <3>1, <3>2, SpawnPolls
    <2>3. ASSUME source = "running", ~StopFlag, NEW c \in topics'
          PROVE  \E t \in Producer : Serves[t] = c /\ pc'[t] # "off"
      <3>1. CASE c \in topics
        BY <2>2, <2>3, <3>1 DEF PolledInv, EveryTopicPolled
      <3>2. CASE c \in TopicsOf(p) \ polled
        BY <2>2, <3>2
      <3> QED
        BY <2>1, <2>3, <3>1, <3>2 DEF PolledInv
    <2> QED
      BY <2>1, <2>3 DEF PolledInv, EveryTopicPolled
  <1>6. CASE Restart
    BY <1>6 DEF Restart, Rebuild, PolledInv, EveryTopicPolled
  <1>7. ASSUME UNCHANGED <<topics, polled, source, pc>>, StopFlag => StopFlag' PROVE PolledInv'
    BY <1>7 DEF PolledInv, EveryTopicPolled
  <1>8. ASSUME NEW p \in Pool, FetchPool(p) \/ RemovePool(p) PROVE PolledInv'
    BY <1>7, <1>8 DEF FetchPool, RemovePool, Fetch, Withdraw, sourceVars, StopFlag
  <1>9. CASE ReceiveEvent \/ ProcessorExit \/ Stop \/ StopReturns \/ DropHandle
    BY <1>7, <1>9 DEF ReceiveEvent, ProcessorExit, Stop, StopReturns, DropHandle,
                      Consume, Finish, SetStop, Joined, Drop, sourceVars, StopFlag
  <1>10. ASSUME NEW c \in Contract, Emit(c) PROVE PolledInv'
    BY <1>7, <1>10 DEF Emit, consumerVars, StopFlag
  <1>11. CASE UNCHANGED vars
    BY <1>7, <1>11 DEF vars, consumerVars, sourceVars, StopFlag
  <1> QED
    BY <1>2, <1>3, <1>4, <1>5, <1>6, <1>8, <1>9, <1>10, <1>11 DEF Next, PollerStep, ProcessorStep, HandleStep

(* When the source has run every contract of the topic set has a poller,   *)
(* whatever pools are added before, while or after it runs, and after      *)
(* restarts: a contract missing from polled gets a task from add_pool, and *)
(* polled never names one that the topic set has not (handle.rs:60-80).    *)
THEOREM EveryTopicPolledCorrect ==
    ASSUME EnoughTasks
    PROVE  Spec => []EveryTopicPolled
  <1>1. Init => CollectorInv /\ PolledInv
    BY InvInit, PolledInit
  <1>2. CollectorInv /\ PolledInv /\ [Next]_vars => (CollectorInv /\ PolledInv)'
    BY InvStep, PolledStays DEF CollectorInv
  <1>3. PolledInv => EveryTopicPolled
    BY DEF PolledInv
  <1> QED
    BY <1>1, <1>2, <1>3, PTL DEF Spec

-----------------------------------------------------------------------------
(* The pollers deliver in order.  What is meant by "in time" (README, sec- *)
(* tion 3): the events of a contract that a poller has not seen fit into a *)
(* cycle and into the cold start's pages, and no more than a page of them  *)
(* comes between its requests.  Requests fail, pools are added (with       *)
(* several pollers for one contract), and the handle is stopped or dropped *)
(* at any moment; no pool leaves and no collector restarts.                *)
Paced ==
    /\ Lifecycle \cap {"remove", "restart"} = {}
    /\ IsFiniteSet(Producer)
    /\ MaxBacklog <= MaxEventsPerCycle /\ MaxBacklog <= ColdStartPages * PageSize
    /\ MaxBurst <= PageSize

(* Position n is the last event of transaction w on c.                     *)
IsMark(c, n, w) == n \in Positions(c) /\ TxBoundary(c, n) /\ TxAt(c, n) = w

(* A watermark stands for the last event of its transaction.               *)
LEMMA MarkedAt ==
    ASSUME NEW c \in Contract, NEW n, NEW w, IsMark(c, n, w)
    PROVE  /\ w \in Tx /\ w # NoTx
           /\ Marked(c, w) = n
           /\ \A i \in Positions(c) : TxAt(c, i) = w => i <= n
  <1>1. n \in Positions(c) /\ TxBoundary(c, n) /\ TxAt(c, n) = w
    BY DEF IsMark
  <1>2. w \in Tx /\ w # NoTx
    BY <1>1, TxType, ChainAssumption
  <1>3. Positions(c) = 1 .. Len(History[c]) /\ Len(History[c]) \in Nat
    BY Lengths
  <1>4. ASSUME NEW i \in Positions(c), TxAt(c, i) = w, ~(i <= n) PROVE FALSE
    <2>1. n \in Nat /\ i \in Nat /\ n < i /\ n + 1 \in Positions(c)
      BY <1>1, <1>3, <1>4
    <2>2. TxAt(c, n + 1) = w
      <3>1. CASE n + 1 = i
        BY <1>4, <3>1
      <3>2. CASE n + 1 < i
        BY <1>1, <1>4, <2>1, <3>2, TransactionsWhole
      <3> QED
        BY <2>1, <3>1, <3>2
    <2> QED
      BY <1>1, <2>1, <2>2 DEF TxBoundary
  <1>5. Marked(c, w) = n
    <2> DEFINE S == {i \in Positions(c) : TxAt(c, i) = w}
    <2>1. n \in S /\ S \subseteq Nat /\ \A i \in S : n >= i
      BY <1>1, <1>3, <1>4
    <2> HIDE DEF S
    <2>2. Max(S) = n
      <3>1. \A x \in S : (\A y \in S : x >= y) => x = n
        BY <2>1
      <3>2. Max(S) \in S /\ \A y \in S : Max(S) >= y
        BY <2>1 DEF Max
      <3> QED
        BY <3>1, <3>2
    <2> QED
      BY <1>2, <2>2 DEF Marked, S
  <1> QED
    BY <1>2, <1>4, <1>5

(* A page holds the events from the one at its offset downwards.           *)
LEMMA PageShape ==
    ASSUME NEW c \in Contract, NEW offset \in Nat, tip[c] \in Nat, offset <= tip[c],
           NEW u, u = tip[c] - offset
    PROVE  /\ u \in Nat
           /\ PageAt(c, offset) \in Seq(Nat)
           /\ Len(PageAt(c, offset)) = IF u < PageSize THEN u ELSE PageSize
           /\ DOMAIN PageAt(c, offset) = 1 .. Len(PageAt(c, offset))
           /\ \A i \in DOMAIN PageAt(c, offset) : PageAt(c, offset)[i] = u + 1 - i
  <1> DEFINE m == IF u < PageSize THEN u ELSE PageSize
  <1>1. u \in Nat /\ m \in Nat /\ m <= u
    BY CollectorAssumption
  <1>2. ~(tip[c] < offset)
    OBVIOUS
  <1>3. PageAt(c, offset) = [k \in 1 .. m |-> u + 1 - k]
    BY <1>2 DEF PageAt
  <1> HIDE DEF m
  <1>4. \A k \in 1 .. m : u + 1 - k \in Nat
    BY <1>1
  <1>5. /\ [k \in 1 .. m |-> u + 1 - k] \in Seq(Nat)
        /\ Len([k \in 1 .. m |-> u + 1 - k]) = m
    BY <1>1, <1>4
  <1> QED
    BY <1>1, <1>3, <1>5 DEF m

(* The positions lo + 1 .. hi, collected newest first: a position may come *)
(* again when the tip moves between two pages, but each comes after every  *)
(* greater one for the last time.                                          *)
Collected(b, lo, hi) ==
    /\ \A i \in DOMAIN b : b[i] \in lo + 1 .. hi
    /\ \A j \in lo + 1 .. hi : \E i \in DOMAIN b : b[i] = j
    /\ \A i \in DOMAIN b : \A j \in lo + 1 .. b[i] - 1 : \E m \in DOMAIN b : i < m /\ b[m] = j

(* The next page continues where the last one ended, or above it.          *)
LEMMA CollectMore ==
    ASSUME NEW b \in Seq(Nat), NEW s \in Seq(Nat), NEW lo \in Nat, NEW hi \in Nat, NEW u \in Nat,
           NEW low \in Nat, low <= lo, lo <= u, u <= hi, low + Len(s) = u,
           \A i \in 1 .. Len(s) : s[i] = u + 1 - i,
           Collected(b, lo, hi)
    PROVE  Collected(b \o s, low, hi)
  <1> DEFINE a == b \o s
             p == Len(b)
             q == Len(s)
  <1>1. p \in Nat /\ q \in Nat /\ DOMAIN b = 1 .. p /\ DOMAIN s = 1 .. q
    OBVIOUS
  <1>2. /\ DOMAIN a = 1 .. p + q
        /\ \A i \in 1 .. p : a[i] = b[i]
        /\ \A i \in 1 .. q : a[p + i] = s[i]
    BY <1>1, ConcatProperties, LenProperties
  <1>3. \A i \in 1 .. q : a[p + i] = u + 1 - i
    BY <1>2
  <1>c. /\ \A i \in 1 .. p : b[i] \in lo + 1 .. hi
        /\ \A j \in lo + 1 .. hi : \E i \in 1 .. p : b[i] = j
        /\ \A i \in 1 .. p : \A j \in lo + 1 .. b[i] - 1 : \E m \in 1 .. p : i < m /\ b[m] = j
    BY <1>1 DEF Collected
  <1> HIDE DEF a, p, q
  <1>4. low + q = u
    BY DEF q
  <1>5. ASSUME NEW i \in 1 .. p + q PROVE i \in 1 .. p \/ \E k \in 1 .. q : i = p + k
    <2>1. CASE i <= p
      BY <1>1, <2>1
    <2>2. CASE p < i
      <3>1. i - p \in 1 .. q /\ i = p + (i - p)
        BY <1>1, <2>2
      <3> QED
        BY <3>1
    <2> QED
      BY <1>1, <2>1, <2>2
  (* The positions of the new page.                                        *)
  <1>6. ASSUME NEW j \in low + 1 .. u
        PROVE  \E k \in 1 .. q : p + k \in 1 .. p + q /\ a[p + k] = j /\ k = u + 1 - j
    <2>1. u + 1 - j \in 1 .. q
      BY <1>1, <1>4
    <2>2. p + (u + 1 - j) \in 1 .. p + q
      BY <1>1, <2>1
    <2>3. a[p + (u + 1 - j)] = j
      <3>1. a[p + (u + 1 - j)] = u + 1 - (u + 1 - j)
        BY <1>3, <2>1
      <3> QED
        BY <3>1
    <2> QED
      BY <2>1, <2>2, <2>3
  <1>7. \A i \in 1 .. p + q : a[i] \in low + 1 .. hi
    <2> SUFFICES ASSUME NEW i \in 1 .. p + q PROVE a[i] \in low + 1 .. hi
      OBVIOUS
    <2>1. CASE i \in 1 .. p
      <3>1. a[i] \in lo + 1 .. hi
        BY <1>2, <1>c, <2>1
      <3> QED
        BY <3>1
    <2>2. ASSUME NEW k \in 1 .. q, i = p + k PROVE a[i] \in low + 1 .. hi
      <3>1. a[i] = u + 1 - k
        BY <1>3, <2>2
      <3>2. u + 1 - k \in low + 1 .. hi
        BY <1>1, <1>4
      <3> QED
        BY <3>1, <3>2
    <2> QED
      BY <1>5, <2>1, <2>2
  <1>8. \A j \in low + 1 .. hi : \E i \in 1 .. p + q : a[i] = j
    <2> SUFFICES ASSUME NEW j \in low + 1 .. hi PROVE \E i \in 1 .. p + q : a[i] = j
      OBVIOUS
    <2>1. CASE j <= u
      <3>1. j \in low + 1 .. u
        BY <2>1
      <3> QED
        BY <1>6, <3>1
    <2>2. CASE ~(j <= u)
      <3>1. j \in lo + 1 .. hi
        BY <2>2
      <3>2. PICK i \in 1 .. p : b[i] = j
        BY <1>c, <3>1
      <3>3. i \in 1 .. p + q /\ a[i] = j
        BY <1>1, <1>2, <3>2
      <3> QED
        BY <3>3
    <2> QED
      BY <2>1, <2>2
  <1>9. \A i \in 1 .. p + q : \A j \in low + 1 .. a[i] - 1 : \E m \in 1 .. p + q : i < m /\ a[m] = j
    <2> SUFFICES ASSUME NEW i \in 1 .. p + q, NEW j \in low + 1 .. a[i] - 1
                 PROVE  \E m \in 1 .. p + q : i < m /\ a[m] = j
      OBVIOUS
    <2>0. a[i] \in Nat /\ j \in Nat /\ low < j /\ j < a[i]
      BY <1>7
    <2>1. CASE i \in 1 .. p /\ j <= u
      <3>1. j \in low + 1 .. u
        BY <2>0, <2>1
      <3>2. PICK k \in 1 .. q : p + k \in 1 .. p + q /\ a[p + k] = j
        BY <1>6, <3>1
      <3>3. i < p + k
        BY <1>1, <2>1
      <3> QED
        BY <3>2, <3>3
    <2>2. CASE i \in 1 .. p /\ ~(j <= u)
      <3>1. a[i] = b[i] /\ j \in lo + 1 .. b[i] - 1
        BY <1>2, <2>0, <2>2
      <3>2. PICK m \in 1 .. p : i < m /\ b[m] = j
        BY <1>c, <2>2, <3>1
      <3>3. m \in 1 .. p + q /\ a[m] = j
        BY <1>1, <1>2, <3>2
      <3> QED
        BY <3>2, <3>3
    <2>3. ASSUME NEW k \in 1 .. q, i = p + k PROVE \E m \in 1 .. p + q : i < m /\ a[m] = j
      <3>1. a[i] = u + 1 - k
        BY <1>3, <2>3
      <3>2. j \in low + 1 .. u
        BY <1>1, <2>0, <3>1
      <3>3. PICK l \in 1 .. q : p + l \in 1 .. p + q /\ a[p + l] = j /\ l = u + 1 - j
        BY <1>6, <3>2
      <3>4. p + k < p + l
        BY <1>1, <2>0, <3>1, <3>3
      <3> QED
        BY <2>3, <3>3, <3>4
    <2> QED
      BY <1>5, <2>1, <2>2, <2>3
  <1>10. DOMAIN a = 1 .. p + q
    BY <1>2
  <1>11. Collected(a, low, hi)
    BY <1>7, <1>8, <1>9, <1>10, ZenonT(60) DEF Collected
  <1> QED
    BY <1>11 DEF a

(* In the order it is sent: each position comes after every smaller one.   *)
LEMMA ReversedOrder ==
    ASSUME NEW b \in Seq(Nat), NEW lo \in Nat, NEW hi \in Nat, Collected(b, lo, hi),
           NEW r, r = Chronological(b)
    PROVE  /\ r \in Seq(Nat)
           /\ \A i \in DOMAIN r : r[i] \in lo + 1 .. hi
           /\ \A j \in lo + 1 .. hi : \E i \in DOMAIN r : r[i] = j
           /\ \A i \in DOMAIN r : \A j \in lo + 1 .. r[i] - 1 : \E m \in DOMAIN r : m < i /\ r[m] = j
  <1> DEFINE n == Len(b)
  <1>1. n \in Nat /\ DOMAIN b = 1 .. n
    OBVIOUS
  <1>2. r = [i \in 1 .. n |-> b[(n - i) + 1]]
    BY DEF Chronological, Reverse
  <1> HIDE DEF n
  <1>3. \A i \in 1 .. n : (n - i) + 1 \in 1 .. n
    BY <1>1
  <1>4. DOMAIN r = 1 .. n /\ \A i \in 1 .. n : r[i] = b[(n - i) + 1]
    BY <1>2
  <1>5. \A k \in 1 .. n : (n - k) + 1 \in DOMAIN r /\ r[(n - k) + 1] = b[k]
    <2> SUFFICES ASSUME NEW k \in 1 .. n PROVE (n - k) + 1 \in DOMAIN r /\ r[(n - k) + 1] = b[k]
      OBVIOUS
    <2>1. (n - k) + 1 \in 1 .. n /\ (n - ((n - k) + 1)) + 1 = k
      BY <1>1
    <2>2. r[(n - k) + 1] = b[(n - ((n - k) + 1)) + 1]
      BY <1>4, <2>1
    <2> QED
      BY <1>4, <2>1, <2>2
  <1>6. r \in Seq(Nat)
    BY ReverseType DEF Chronological
  <1>7. \A i \in DOMAIN r : r[i] \in lo + 1 .. hi
    BY <1>1, <1>3, <1>4 DEF Collected
  <1>8. ASSUME NEW j \in lo + 1 .. hi PROVE \E i \in DOMAIN r : r[i] = j
    <2>1. PICK k \in 1 .. n : b[k] = j
      BY <1>1 DEF Collected
    <2> QED
      BY <1>5, <2>1
  <1>9. ASSUME NEW i \in DOMAIN r, NEW j \in lo + 1 .. r[i] - 1
        PROVE  \E m \in DOMAIN r : m < i /\ r[m] = j
    <2>1. (n - i) + 1 \in 1 .. n /\ r[i] = b[(n - i) + 1]
      BY <1>3, <1>4
    <2>2. PICK k \in 1 .. n : (n - i) + 1 < k /\ b[k] = j
      BY <1>1, <2>1 DEF Collected
    <2>3. (n - k) + 1 < i
      BY <1>1, <1>4, <2>2
    <2> QED
      BY <1>5, <2>2, <2>3
  <1> QED
    BY <1>6, <1>7, <1>8, <1>9

(* The page count is rounded up.                                           *)
LEMMA RoundedUp ==
    ASSUME NEW p \in Nat
    PROVE  /\ p >= (MaxEventsPerCycle + PageSize - 1) \div PageSize => p * PageSize >= MaxEventsPerCycle
           /\ p >= ColdStartPages => p * PageSize >= ColdStartPages * PageSize
  <1> DEFINE d == (MaxEventsPerCycle + PageSize - 1) \div PageSize
             e == MaxEventsPerCycle + PageSize - 1
  <1>1. PageSize \in Nat \ {0} /\ MaxEventsPerCycle \in Nat /\ ColdStartPages \in Nat
    BY CollectorAssumption
  <1>2. \A x \in Nat : PageSize * (x \div PageSize) + PageSize > x /\ x \div PageSize \in Nat
    BY <1>1
  <1>3. e \in Nat
    BY <1>1
  <1>4. PageSize * d + PageSize > e /\ d \in Nat
    BY <1>2, <1>3
  <1>5. PageSize * d >= MaxEventsPerCycle
    <2>1. PageSize * d \in Int
      BY <1>1, <1>4
    <2> HIDE DEF d
    <2> QED
      BY <1>1, <1>4, <2>1
  <1>6. p >= d => PageSize * p >= PageSize * d
    <2> HIDE DEF d, e
    <2> QED
      BY <1>1, <1>4
  <1>7. p >= ColdStartPages => PageSize * p >= PageSize * ColdStartPages
    BY <1>1
  <1>8. PageSize * p = p * PageSize /\ PageSize * ColdStartPages = ColdStartPages * PageSize
    BY <1>1
  <1>9. PageSize * p \in Nat /\ PageSize * d \in Nat
    BY <1>1, <1>4
  <1> HIDE DEF e
  <1> QED
    BY <1>1, <1>5, <1>6, <1>7, <1>8, <1>9

-----------------------------------------------------------------------------
(* Of contract c: what was sent, and how far the watermark has come.       *)
SentOf(c) == {k \in Positions(c) : <<c, k>> \in seen}
Reached(c) == Marked(c, watermark[c])

(* With S sent, nothing decodable up to n is still to come, except what    *)
(* the snapshot contains and no event sent is older than.                  *)
Settled(c, S, n) ==
    \A j \in Positions(c) : j <= n /\ Decoded(c, j) =>
        j \in S \/ (j <= snap[c] /\ \A k \in S : j < k)

(* Between two cycles: the watermark is where sending has come to.         *)
AtRest(c) ==
    /\ Settled(c, SentOf(c), Reached(c))
    /\ \A k \in SentOf(c) : k <= Reached(c)
    /\ watermark[c] = NoTx => SentOf(c) = {}

(* The watermark stands for the end of a transaction, and the chain is not *)
(* too far ahead of it.                                                    *)
MarksInv(c) ==
    /\ watermark[c] # NoTx => IsMark(c, Reached(c), watermark[c])
    /\ Reached(c) \in Nat /\ Reached(c) <= tip[c] /\ tip[c] <= Reached(c) + MaxBacklog
    /\ TxBoundary(c, tip[c])

(* After p pages of c, collected down to lo since the tip was at n, without *)
(* having met the watermark w.                                             *)
Fetched(c, w, b, p, n, lo) ==
    /\ Reached(c) <= n /\ n <= tip[c] /\ tip[c] <= n + MaxBurst
    /\ Len(b) = p * PageSize /\ n <= lo + p * PageSize /\ lo + p * PageSize <= tip[c]
    /\ Collected(b, lo, n)
    /\ \A i \in DOMAIN b : TxAt(c, b[i]) # w

FetchInv(t) ==
    LET c == Serves[t]
    IN  pc[t] = "fetch" =>
            /\ known[t] = watermark[c]
            /\ page[t] = 0 => batch[t] = <<>> /\ newest[t] = NoTx
            /\ page[t] # 0 => \E n, lo \in Nat :
                  IsMark(c, n, newest[t]) /\ Fetched(c, known[t], batch[t], page[t], n, lo)

(* With S sent and b left of the batch lo + 1 .. hi: each position comes   *)
(* after those it has to wait for, and nothing sent is later than one that *)
(* is still to be sent.                                                    *)
SendOK(c, b, S, lo, hi) ==
    /\ Settled(c, S, lo)
    /\ \A i \in DOMAIN b : b[i] \in lo + 1 .. hi
    /\ \A j \in lo + 1 .. hi : Decoded(c, j) => j \in S \/ \E i \in DOMAIN b : b[i] = j
    /\ \A i \in DOMAIN b : \A j \in lo + 1 .. b[i] - 1 :
          Decoded(c, j) => j \in S \/ \E m \in DOMAIN b : m < i /\ b[m] = j
    /\ \A i \in DOMAIN b : Decoded(c, b[i]) => b[i] \in S \/ \A k \in S : k < b[i]

SendInv(t) ==
    LET c == Serves[t]
    IN  pc[t] = "send" =>
            \/ newest[t] = NoTx /\ batch[t] = <<>>
            \/ \E n, lo \in Nat :
                  /\ IsMark(c, n, newest[t])
                  /\ Reached(c) <= n /\ n <= tip[c] /\ \A k \in SentOf(c) : k <= n
                  /\ SendOK(c, batch[t], SentOf(c), lo, n)

(* Contract c is at rest unless a task is sending events of it.            *)
RestInv(c) ==
    \/ AtRest(c)
    \/ \E t \in Producer : Serves[t] = c /\ pc[t] = "send" /\ newest[t] # NoTx

ContractInv(c) ==
    /\ MarksInv(c) /\ RestInv(c)
    /\ \A t \in Producer : Serves[t] = c => FetchInv(t) /\ SendInv(t)

(* The next event of the batch is sent, unless it is not decodable ...     *)
LEMMA SendNext ==
    ASSUME NEW c \in Contract, NEW b \in Seq(Nat), b # <<>>, NEW S \in SUBSET Nat,
           NEW lo \in Nat, NEW hi \in Nat, SendOK(c, b, S, lo, hi),
           NEW T, T = IF Decoded(c, Head(b)) THEN S \cup {Head(b)} ELSE S
    PROVE  SendOK(c, Tail(b), T, lo, hi)
  <1> DEFINE h == Head(b)
             r == Tail(b)
  <1>1. /\ h = b[1] /\ 1 \in DOMAIN b /\ DOMAIN b \subseteq Nat \ {0}
        /\ \A i \in DOMAIN r : i \in Nat /\ i + 1 \in DOMAIN b /\ r[i] = b[i + 1] /\ i # 0
        /\ \A i \in DOMAIN b : i # 1 => i - 1 \in DOMAIN r /\ r[i - 1] = b[i]
    <2>1. Len(b) \in Nat \ {0} /\ DOMAIN b = 1 .. Len(b)
      BY EmptySeq
    <2>2. h = b[1] /\ r \in Seq(Nat) /\ Len(r) = Len(b) - 1 /\ \A i \in 1 .. Len(r) : r[i] = b[i + 1]
      BY HeadTailProperties
    <2>3. DOMAIN r = 1 .. Len(r)
      BY <2>2
    <2> HIDE DEF r, h
    <2>4. \A i \in DOMAIN r : i \in Nat /\ i + 1 \in DOMAIN b /\ r[i] = b[i + 1] /\ i # 0
      BY <2>1, <2>2, <2>3, SMTT(30)
    <2>5. \A i \in DOMAIN b : i # 1 => i - 1 \in DOMAIN r /\ r[i - 1] = b[i]
      <3> SUFFICES ASSUME NEW i \in DOMAIN b, i # 1 PROVE i - 1 \in DOMAIN r /\ r[i - 1] = b[i]
        OBVIOUS
      <3>1. i - 1 \in 1 .. Len(r) /\ (i - 1) + 1 = i
        BY <2>1, <2>2
      <3> QED
        BY <2>2, <2>3, <3>1
    <2> QED
      BY <2>1, <2>2, <2>4, <2>5
  <1>2. h \in lo + 1 .. hi /\ h \in Nat /\ lo < h
    BY <1>1 DEF SendOK
  <1>3. S \subseteq T /\ (Decoded(c, h) => h \in T) /\ \A k \in T : k \in S \/ (k = h /\ Decoded(c, h))
    OBVIOUS
  <1> HIDE DEF h, r
  <1>4. Settled(c, T, lo)
    <2> SUFFICES ASSUME NEW j \in Positions(c), j <= lo, Decoded(c, j)
                 PROVE  j \in T \/ (j <= snap[c] /\ \A k \in T : j < k)
      BY DEF Settled
    <2>1. j < h
      BY <1>2, Lengths
    <2>2. j \in S \/ (j <= snap[c] /\ \A k \in S : j < k)
      BY DEF SendOK, Settled
    <2> QED
      BY <1>3, <2>1, <2>2
  <1>5. \A i \in DOMAIN r : r[i] \in lo + 1 .. hi
    BY <1>1 DEF SendOK
  <1>6. \A j \in lo + 1 .. hi : Decoded(c, j) => j \in T \/ \E i \in DOMAIN r : r[i] = j
    <2> SUFFICES ASSUME NEW j \in lo + 1 .. hi, Decoded(c, j), j \notin S, j # h
                 PROVE  \E i \in DOMAIN r : r[i] = j
      BY <1>3
    <2>1. PICK i \in DOMAIN b : b[i] = j
      BY DEF SendOK
    <2> QED
      BY <1>1, <2>1
  <1>7. \A i \in DOMAIN r : \A j \in lo + 1 .. r[i] - 1 :
           Decoded(c, j) => j \in T \/ \E m \in DOMAIN r : m < i /\ r[m] = j
    <2> SUFFICES ASSUME NEW i \in DOMAIN r, NEW j \in lo + 1 .. r[i] - 1, Decoded(c, j), j \notin S, j # h
                 PROVE  \E m \in DOMAIN r : m < i /\ r[m] = j
      BY <1>3
    <2>1. PICK m \in DOMAIN b : m < i + 1 /\ b[m] = j
      BY <1>1 DEF SendOK
    <2>2. m # 1
      BY <1>1, <2>1
    <2>3. m - 1 < i
      BY <1>1, <2>1, SMTT(30)
    <2> QED
      BY <1>1, <2>1, <2>2, <2>3
  <1>8. \A i \in DOMAIN r : Decoded(c, r[i]) => r[i] \in T \/ \A k \in T : k < r[i]
    <2> SUFFICES ASSUME NEW i \in DOMAIN r, Decoded(c, r[i]), r[i] \notin S, r[i] # h
                 PROVE  \A k \in T : k < r[i]
      BY <1>3
    <2>1. \A k \in S : k < r[i]
      BY <1>1 DEF SendOK
    <2>2. r[i] \in Nat /\ lo < r[i]
      BY <1>5
    <2>3. ~(r[i] < h)
      <3> SUFFICES ASSUME r[i] < h PROVE FALSE
        OBVIOUS
      <3>1. r[i] \in lo + 1 .. b[1] - 1
        BY <1>1, <1>2, <2>2
      <3>2. PICK m \in DOMAIN b : m < 1
        BY <1>1, <3>1 DEF SendOK
      <3> QED
        BY <1>1, <3>2
    <2>4. h < r[i]
      BY <1>2, <2>2, <2>3
    <2> QED
      BY <1>3, <2>1, <2>4
  <1>9. SendOK(c, r, T, lo, hi)
    BY <1>4, <1>5, <1>6, <1>7, <1>8 DEF SendOK
  <1> QED
    BY <1>9 DEF r

(* ... when nothing is left of it all up to hi is settled ...              *)
LEMMA SendDone ==
    ASSUME NEW c \in Contract, NEW S, NEW lo \in Nat, NEW hi \in Nat, SendOK(c, <<>>, S, lo, hi)
    PROVE  Settled(c, S, hi)
  <1> SUFFICES ASSUME NEW j \in Positions(c), j <= hi, Decoded(c, j)
               PROVE  j \in S \/ (j <= snap[c] /\ \A k \in S : j < k)
    BY DEF Settled
  <1>1. CASE j <= lo
    BY <1>1 DEF SendOK, Settled
  <1>2. CASE ~(j <= lo)
    <2>1. j \in lo + 1 .. hi
      BY <1>2, Lengths
    <2> QED
      BY <2>1 DEF SendOK
  <1> QED
    BY <1>1, <1>2

(* ... and while it is sent nothing sent has a gap before it.              *)
LEMMA SendNoGap ==
    ASSUME NEW c \in Contract, NEW b, NEW S \in SUBSET Nat, NEW lo \in Nat, NEW hi \in Nat,
           SendOK(c, b, S, lo, hi), \A k \in S : k <= hi, NEW k \in S
    PROVE  \A j \in Positions(c) : j < k /\ Decoded(c, j) =>
              j \in S \/ (j <= snap[c] /\ \A m \in S : j < m)
  <1> SUFFICES ASSUME NEW j \in Positions(c), j < k, Decoded(c, j), j \notin S
               PROVE  j <= snap[c] /\ \A m \in S : j < m
    OBVIOUS
  <1>0. j \in Nat
    BY Lengths
  <1>1. CASE j <= lo
    BY <1>1 DEF SendOK, Settled
  <1>2. CASE ~(j <= lo)
    <2>1. j \in lo + 1 .. hi
      BY <1>0, <1>2
    <2>2. PICK i \in DOMAIN b : b[i] = j
      BY <2>1 DEF SendOK
    <2>3. k < j
      BY <2>2 DEF SendOK
    <2> QED
      BY <1>0, <2>3
  <1> QED
    BY <1>1, <1>2

-----------------------------------------------------------------------------
(* A page got is taken down to the watermark w, or whole: its first m      *)
(* events join the ones collected before.                                  *)
PageTaken(c, w, b, got, m, all) ==
    /\ m \in 0 .. Len(got) /\ all = b \o SubSeq(got, 1, m)
    /\ \A k \in 1 .. m : TxAt(c, got[k]) # w
    /\ m < Len(got) => TxAt(c, got[m + 1]) = w

(* What is collected then reaches down to low, without a gap: to the end   *)
(* of the page, unless the history or the watermark ended it.              *)
DownTo(c, w, p, n, whole, all, low) ==
    /\ all \in Seq(Nat) /\ Collected(all, low, n)
    /\ \A i \in DOMAIN all : TxAt(c, all[i]) # w
    /\ w # NoTx => Reached(c) <= low
    /\ IF whole THEN Len(all) = (p + 1) * PageSize /\ low + (p + 1) * PageSize = tip[c]
                ELSE low <= Reached(c)

(* Page p is taken: b is what the pages before it gave.                    *)
Taking(c, w, b, p, n, lo, got, m, all) ==
    /\ Paced /\ ChainTypeOK /\ c \in Contract /\ Reached(c) \in Nat
    /\ w # NoTx => IsMark(c, Reached(c), w)
    /\ b \in Seq(Nat) /\ p \in Nat /\ n \in Nat /\ lo \in Nat
    /\ Fetched(c, w, b, p, n, lo)
    /\ p = 0 => n = tip[c]
    /\ got = PageAt(c, p * PageSize)
    /\ PageTaken(c, w, b, got, m, all)

(* What a page adds continues what was collected, down to its own end.     *)
LEMMA PageCollects ==
    ASSUME NEW c, NEW w, NEW b, NEW p, NEW n, NEW lo, NEW got, NEW m, NEW all,
           Taking(c, w, b, p, n, lo, got, m, all)
    PROVE  \E low \in Nat : DownTo(c, w, p, n, m = Len(got) /\ m = PageSize, all, low)
  <1>h. /\ Paced /\ ChainTypeOK /\ c \in Contract /\ Reached(c) \in Nat
        /\ w # NoTx => IsMark(c, Reached(c), w)
        /\ b \in Seq(Nat) /\ p \in Nat /\ n \in Nat /\ lo \in Nat
        /\ Fetched(c, w, b, p, n, lo)
        /\ p = 0 => n = tip[c]
        /\ got = PageAt(c, p * PageSize)
        /\ PageTaken(c, w, b, got, m, all)
    BY DEF Taking
  <1> USE <1>h
  <1> DEFINE o == p * PageSize
             u == tip[c] - o
             s == SubSeq(got, 1, m)
             low == u - m
             R == Reached(c)
  <1>0. tip[c] \in Nat /\ m \in 0 .. Len(got)
    BY DEF PageTaken, ChainTypeOK
  <1>g. /\ all = b \o s
        /\ \A k \in 1 .. m : TxAt(c, got[k]) # w
        /\ m < Len(got) => TxAt(c, got[m + 1]) = w
    BY DEF PageTaken
  <1> HIDE DEF s, low
  <1>t. got \in Seq(Positions(c))
    <2>1. p * PageSize \in Nat
      BY CollectorAssumption
    <2> QED
      BY <2>1, PageType
  <1> USE <1>0
  <1>1. /\ PageSize \in Nat /\ PageSize > 0 /\ MaxBurst \in Nat /\ MaxBurst <= PageSize
        /\ o \in Nat /\ (p = 0 => o = 0) /\ (p # 0 => PageSize <= o)
        /\ (p + 1) * PageSize = o + PageSize
    BY CollectorAssumption DEF Paced
  <1>f. /\ R <= n /\ n <= tip[c] /\ tip[c] <= n + MaxBurst
        /\ Len(b) = o /\ n <= lo + o /\ lo + o <= tip[c]
        /\ Collected(b, lo, n)
        /\ \A i \in DOMAIN b : TxAt(c, b[i]) # w
    BY DEF Fetched
  <1> HIDE DEF o
  <1>2. u \in Nat /\ lo <= u /\ u <= n /\ o <= tip[c]
    <2>1. o <= tip[c] /\ lo + o <= tip[c]
      BY <1>1, <1>f
    <2>2. u <= n
      <3>1. CASE p = 0
        BY <1>1, <3>1
      <3>2. CASE p # 0
        BY <1>1, <1>f, <3>2, SMTT(30)
      <3> QED
        BY <3>1, <3>2
    <2> QED
      BY <1>1, <2>1, <2>2, SMTT(30)
  <1> HIDE DEF u
  <1>3. /\ got \in Seq(Nat) /\ Len(got) = IF u < PageSize THEN u ELSE PageSize
        /\ DOMAIN got = 1 .. Len(got) /\ \A i \in DOMAIN got : got[i] = u + 1 - i
    <2>1. o <= tip[c] /\ u = tip[c] - o
      BY <1>2 DEF u
    <2>2. got = PageAt(c, o)
      BY DEF o
    <2> QED
      BY <1>1, <2>1, <2>2, PageShape, SMTT(30)
  <1>4. m \in Nat /\ m <= Len(got) /\ Len(got) \in Nat /\ Len(got) <= u
    <2>1. Len(got) \in Nat
      BY <1>1, <1>2, <1>3
    <2> QED
      BY <1>1, <1>2, <1>3, <2>1
  <1>5. s \in Seq(Nat) /\ Len(s) = m /\ \A i \in 1 .. m : s[i] = got[i]
    <2>1. \A i \in 1 .. m : got[i] \in Nat
      BY <1>3, <1>4, SMTT(30)
    <2>2. /\ s \in Seq(Nat) /\ Len(s) = (IF 1 <= m THEN m - 1 + 1 ELSE 0)
          /\ \A i \in 1 .. m - 1 + 1 : s[i] = got[1 + i - 1]
      <3>1. 1 \in Int /\ m \in Int
        BY <1>4
      <3> QED
        BY <2>1, <3>1, SubSeqProperties DEF s
    <2> QED
      BY <1>4, <2>2
  <1>6. \A i \in 1 .. Len(s) : s[i] = u + 1 - i
    <2> SUFFICES ASSUME NEW i \in 1 .. m PROVE s[i] = u + 1 - i
      BY <1>5
    <2>1. i \in DOMAIN got
      BY <1>3, <1>4
    <2> QED
      BY <1>3, <1>5, <2>1
  <1>7. all \in Seq(Nat) /\ Len(all) = o + m
    <2>1. b \o s \in Seq(Nat) /\ Len(b \o s) = Len(b) + Len(s)
      BY <1>5, ConcatProperties, Zenon
    <2> QED
      BY <1>5, <1>f, <1>g, <2>1, Zenon
  <1>8. \A i \in DOMAIN all : TxAt(c, all[i]) # w
    <2> SUFFICES ASSUME NEW i \in DOMAIN all PROVE TxAt(c, all[i]) # w
      OBVIOUS
    <2>1. i \in 1 .. o + m
      BY <1>7
    <2>2. CASE i <= o
      <3>1. i \in DOMAIN b /\ all[i] = b[i]
        BY <1>5, <1>f, <1>g, <1>1, <2>1, <2>2, ConcatProperties
      <3> QED
        BY <1>f, <3>1
    <2>3. CASE o < i
      <3>1. i \in 1 .. Len(b) + Len(s) /\ ~(i <= Len(b))
        BY <1>1, <1>4, <1>5, <1>f, <2>1, <2>3
      <3>2. all[i] = s[i - Len(b)]
        <4>1. all[i] = IF i <= Len(b) THEN b[i] ELSE s[i - Len(b)]
          BY <1>5, <1>g, <3>1, ConcatProperties
        <4> QED
          BY <3>1, <4>1
      <3>3. PICK k \in 1 .. m : k = i - Len(b)
        BY <1>1, <1>4, <1>5, <1>f, <3>1
      <3>4. all[i] = got[k]
        BY <1>5, <3>2, <3>3
      <3>5. TxAt(c, got[k]) # w
        BY <1>g, <3>3
      <3> QED
        BY <3>4, <3>5
    <2>4. i <= o \/ o < i
      BY <1>1, <1>4, <2>1
    <2> QED
      BY <2>2, <2>3, <2>4
  <1>9. low \in Nat /\ low + Len(s) = u
    BY <1>2, <1>4, <1>5 DEF low
  (* A page that ends early ends at the watermark.                         *)
  <1>10. m < Len(got) => w # NoTx /\ TxAt(c, low) = w /\ low \in Positions(c)
    <2> SUFFICES ASSUME m < Len(got) PROVE w # NoTx /\ TxAt(c, low) = w /\ low \in Positions(c)
      OBVIOUS
    <2>1. m + 1 \in DOMAIN got
      BY <1>3, <1>4
    <2>2. u + 1 - (m + 1) = low
      BY <1>2, <1>4 DEF low
    <2>3. got[m + 1] = low
      BY <1>3, <2>1, <2>2
    <2>4. low \in Positions(c) /\ TxAt(c, low) = w
      BY <1>3, <1>g, <1>t, <2>1, <2>3, ElementOfSeq
    <2> QED
      BY <2>4, TxType, ChainAssumption
  <1>11. ASSUME m < Len(got) PROVE low <= R
    BY <1>10, <1>11, MarkedAt
  <1>12. w # NoTx => R <= lo
    <2> SUFFICES ASSUME w # NoTx, ~(R <= lo) PROVE FALSE
      OBVIOUS
    <2>1. R \in lo + 1 .. n
      BY <1>f
    <2>2. PICK i \in DOMAIN b : b[i] = R
      BY <1>f, <2>1 DEF Collected
    <2> QED
      BY <1>f, <2>2 DEF IsMark
  <1>13. low <= lo
    <2>1. CASE m < Len(got)
      BY <1>9, <1>10, <1>11, <1>12, <2>1
    <2>2. CASE m = Len(got) /\ u < PageSize
      BY <1>2, <1>3, <1>5, <1>9, <2>2
    <2>3. CASE m = Len(got) /\ ~(u < PageSize)
      <3>1. low + PageSize = u
        BY <1>1, <1>2, <1>3, <1>5, <1>9, <2>3
      <3>a. u + o = tip[c]
        BY <1>1, <1>2 DEF u
      <3>b. u <= lo + PageSize
        BY <1>1, <1>2, <1>f, <3>a
      <3> QED
        BY <1>1, <1>9, <3>1, <3>b
    <2> QED
      BY <1>1, <1>2, <1>4, <2>1, <2>2, <2>3
  <1>14. Collected(all, low, n)
    BY <1>2, <1>5, <1>6, <1>9, <1>13, <1>f, <1>g, CollectMore
  <1>15. w # NoTx => R <= low
    <2> SUFFICES ASSUME w # NoTx, ~(R <= low) PROVE FALSE
      OBVIOUS
    <2>1. R \in low + 1 .. n
      BY <1>9, <1>f
    <2>2. PICK i \in DOMAIN all : all[i] = R
      BY <1>14, <2>1 DEF Collected
    <2> QED
      BY <1>8, <2>2 DEF IsMark
  <1>16. CASE m = Len(got) /\ m = PageSize
    <2>1. Len(all) = (p + 1) * PageSize
      BY <1>1, <1>7, <1>16
    <2>2. low + (p + 1) * PageSize = tip[c]
      <3>1. u + o = tip[c]
        BY <1>1, <1>2 DEF u
      <3>2. low + PageSize = u
        BY <1>5, <1>9, <1>16
      <3>3. low \in Nat /\ u \in Nat /\ o \in Nat /\ PageSize \in Nat
        BY <1>1, <1>2, <1>9
      <3>4. low + (o + PageSize) = tip[c]
        BY <3>1, <3>2, <3>3
      <3> QED
        BY <1>1, <3>4
    <2> QED
      BY <1>7, <1>8, <1>9, <1>14, <1>15, <1>16, <2>1, <2>2 DEF DownTo
  <1>17. CASE ~(m = Len(got) /\ m = PageSize)
    <2>1. low <= R
      <3>1. CASE m < Len(got)
        BY <1>11, <3>1
      <3>2. CASE m = Len(got) /\ m # PageSize
        <4>1. low = 0
          BY <1>1, <1>2, <1>3, <1>5, <1>9, <3>2
        <4> QED
          BY <4>1
      <3> QED
        BY <1>4, <1>17, <3>1, <3>2
    <2> QED
      BY <1>7, <1>8, <1>9, <1>14, <1>15, <1>17, <2>1 DEF DownTo
  <1> QED
    BY <1>16, <1>17

(* A cycle that ends at the cap or at its last page has come down to the   *)
(* watermark: what the chain is ahead of it fits.                          *)
LEMMA CapReaches ==
    ASSUME Paced, NEW c \in Contract, MarksInv(c), tip[c] \in Nat, NEW p \in Nat, NEW low \in Nat,
           low + (p + 1) * PageSize = tip[c],
           (p + 1) * PageSize >= MaxEventsPerCycle \/ p + 1 >= MaxPages(watermark[c])
    PROVE  low <= Reached(c)
  <1> DEFINE o == (p + 1) * PageSize
  <1>1. /\ MaxBacklog \in Nat /\ MaxEventsPerCycle \in Nat /\ o \in Nat
        /\ ColdStartPages * PageSize \in Nat /\ Reached(c) \in Nat
    BY CollectorAssumption DEF MarksInv
  <1>2. o >= MaxBacklog
    <2>1. CASE o >= MaxEventsPerCycle
      BY <1>1, <2>1 DEF Paced
    <2>2. CASE p + 1 >= MaxPages(watermark[c])
      <3>1. p + 1 \in Nat
        OBVIOUS
      <3>2. o >= MaxEventsPerCycle \/ o >= ColdStartPages * PageSize
        BY <2>2, <3>1, RoundedUp DEF MaxPages
      <3> HIDE DEF o
      <3> QED
        BY <1>1, <3>2 DEF Paced
    <2> QED
      BY <2>1, <2>2
  <1> HIDE DEF o
  <1> QED
    BY <1>1, <1>2 DEF o, MarksInv

(* What the batch is when sending starts.                                  *)
LEMMA SendStarts ==
    ASSUME NEW c \in Contract, AtRest(c), NEW b \in Seq(Nat), NEW low \in Nat, NEW n \in Nat,
           Reached(c) \in Nat, Collected(b, low, n), low <= Reached(c),
           watermark[c] # NoTx => Reached(c) <= low
    PROVE  SendOK(c, Chronological(b), SentOf(c), low, n)
  <1> DEFINE r == Chronological(b)
  <1>1. /\ r \in Seq(Nat)
        /\ \A i \in DOMAIN r : r[i] \in low + 1 .. n
        /\ \A j \in low + 1 .. n : \E i \in DOMAIN r : r[i] = j
        /\ \A i \in DOMAIN r : \A j \in low + 1 .. r[i] - 1 : \E m \in DOMAIN r : m < i /\ r[m] = j
    BY ReversedOrder
  <1> HIDE DEF r
  <1>2. Settled(c, SentOf(c), low)
    <2>1. \A j \in Positions(c) : j <= low => j <= Reached(c)
      BY Lengths
    <2> QED
      BY <2>1 DEF AtRest, Settled
  <1>3. \A i \in DOMAIN r : \A k \in SentOf(c) : k < r[i]
    <2> SUFFICES ASSUME NEW i \in DOMAIN r, NEW k \in SentOf(c) PROVE k < r[i]
      OBVIOUS
    <2>1. k <= Reached(c) /\ Reached(c) <= low /\ k \in Nat
      BY Lengths DEF AtRest, SentOf
    <2>2. r[i] \in low + 1 .. n
      BY <1>1
    <2> QED
      BY <2>1, <2>2
  <1>4. SendOK(c, r, SentOf(c), low, n)
    BY <1>1, <1>2, <1>3 DEF SendOK
  <1> QED
    BY <1>4 DEF r

-----------------------------------------------------------------------------
(* The initial pools stay in the registry and their contracts in polled.   *)
Kept == InitialPools \subseteq Live /\ Followed \subseteq polled

(* Their contracts have one task each, started by the source.  (add_pool   *)
(* may start several, on contracts that no initial pool has.)              *)
OneTask ==
    /\ source = "spawned" => \A t \in Producer : Serves[t] \in Followed => pc[t] = "off"
    /\ \A t, u \in Producer :
          Serves[t] = Serves[u] /\ Serves[t] \in Followed /\ pc[t] # "off" /\ pc[u] # "off" => t = u

(* A task outside a cycle holds nothing and pushes nothing.                *)
TaskClean ==
    \A t \in Producer :
        /\ pc[t] \in {"off", "idle", "due"} => page[t] = 0 /\ batch[t] = <<>> /\ newest[t] = NoTx
        /\ sending[t] # Idle => pc[t] = "send" /\ sending[t][1] = Serves[t]

(* What is collected and what was sent is on chain.                        *)
OnChain ==
    /\ \A t \in Producer : batch[t] \in Seq(1 .. tip[Serves[t]])
    /\ \A e \in seen : Decoded(e[1], e[2]) /\ e[2] <= tip[e[1]]

PollOrderInv ==
    /\ CollectorInv /\ NothingLost
    /\ Kept /\ OneTask /\ TaskClean /\ OnChain
    /\ \A c \in Followed : ContractInv(c)
    /\ DeliveryInv

(* Task t is not concerned by a step, or drops out of a page loop.         *)
Untouched(t) == UNCHANGED <<pc[t], known[t], page[t], batch[t], newest[t]>>
Leaves(t) == pc[t] # "send" /\ pc'[t] \notin {"fetch", "send"}

(* A poller's step concerns no other poller.                               *)
LEMMA OthersUntouched ==
    ASSUME TypeOK, NEW t \in Producer, PollerStep(t)
    PROVE  \A u \in Producer \ {t} : Untouched(u)
  <1>0. TaskTypeOK
    BY DEF TypeOK
  <1>1. CASE Wake(t) \/ StartPoll(t) \/ PollerExit(t)
    BY <1>0, <1>1 DEF Wake, StartPoll, PollerExit, TaskTypeOK, Untouched, pollVars
  <1>2. CASE FetchPage(t)
    BY <1>0, <1>2 DEF FetchPage, TaskTypeOK, Untouched
  <1>3. CASE FetchFails(t) \/ EndPoll(t)
    BY <1>0, <1>3 DEF FetchFails, EndPoll, EndCycle, TaskTypeOK, Untouched
  <1>4. CASE Offer(t) \/ Push(t)
    BY <1>0, <1>4 DEF Offer, Push, sourceVars, pollVars, TaskTypeOK, Untouched
  <1> QED
    BY <1>1, <1>2, <1>3, <1>4 DEF PollerStep

(* What is said of a contract is about its own history, tasks and sends.   *)
LEMMA ContractFrame ==
    ASSUME NEW c \in Contract, ContractInv(c), snap' = snap,
           SentOf(c)' = SentOf(c), watermark'[c] = watermark[c], tip'[c] = tip[c],
           \A t \in Producer : Serves[t] = c => Untouched(t) \/ Leaves(t)
    PROVE  ContractInv(c)'
  <1>1. Reached(c)' = Reached(c)
    BY DEF Reached, Marked
  <1>2. \A S, n : Settled(c, S, n)' <=> Settled(c, S, n)
    BY DEF Settled
  <1>3. MarksInv(c)'
    BY <1>1 DEF ContractInv, MarksInv
  <1>4. AtRest(c)' <=> AtRest(c)
    <2>1. AtRest(c)' <=> /\ Settled(c, SentOf(c), Reached(c))'
                         /\ \A k \in SentOf(c)' : k <= Reached(c)'
                         /\ watermark'[c] = NoTx => SentOf(c)' = {}
      BY DEF AtRest
    <2>2. Settled(c, SentOf(c), Reached(c))' <=> Settled(c, SentOf(c), Reached(c))
      BY <1>1 DEF Settled
    <2> QED
      BY <1>1, <2>1, <2>2 DEF AtRest
  <1>5. RestInv(c)'
    <2>1. CASE AtRest(c)
      BY <1>4, <2>1 DEF RestInv
    <2>2. ASSUME NEW t \in Producer, Serves[t] = c, pc[t] = "send", newest[t] # NoTx PROVE RestInv(c)'
      BY <2>2 DEF RestInv, Untouched, Leaves
    <2> QED
      BY <2>1, <2>2 DEF ContractInv, RestInv
  <1>6. ASSUME NEW t \in Producer, Serves[t] = c PROVE (FetchInv(t) /\ SendInv(t))'
    <2>0. FetchInv(t) /\ SendInv(t)
      BY <1>6 DEF ContractInv
    <2>1. CASE Leaves(t)
      BY <2>1 DEF Leaves, FetchInv, SendInv
    <2>2. CASE Untouched(t)
      <3>1. FetchInv(t)'
        <4> SUFFICES ASSUME pc'[t] = "fetch", page'[t] # 0
                     PROVE  \E n, lo \in Nat :
                               /\ IsMark(c, n, newest'[t])
                               /\ Fetched(c, known[t], batch[t], page[t], n, lo)'
          BY <1>6, <2>0, <2>2 DEF FetchInv, Untouched
        <4>1. PICK n \in Nat, lo \in Nat :
                 IsMark(c, n, newest[t]) /\ Fetched(c, known[t], batch[t], page[t], n, lo)
          BY <1>6, <2>0, <2>2 DEF FetchInv, Untouched
        <4>2. Fetched(c, known[t], batch[t], page[t], n, lo)'
          BY <1>1, <2>2, <4>1 DEF Fetched, Untouched
        <4> QED
          BY <2>2, <4>1, <4>2 DEF Untouched
      <3>2. SendInv(t)'
        <4>1. CASE pc[t] # "send" \/ (newest[t] = NoTx /\ batch[t] = <<>>)
          BY <2>2, <4>1 DEF SendInv, Untouched
        <4>2. ASSUME NEW n \in Nat, NEW lo \in Nat,
                     /\ IsMark(c, n, newest[t])
                     /\ Reached(c) <= n /\ n <= tip[c] /\ \A k \in SentOf(c) : k <= n
                     /\ SendOK(c, batch[t], SentOf(c), lo, n)
              PROVE  SendInv(t)'
          <5>1. SendOK(c, batch[t], SentOf(c), lo, n)'
            BY <2>2, <4>2 DEF SendOK, Settled, Untouched
          <5>2. /\ IsMark(c, n, newest'[t])
                /\ Reached(c)' <= n /\ n <= tip'[c] /\ \A k \in SentOf(c)' : k <= n
            BY <1>1, <2>2, <4>2 DEF Untouched
          <5> QED
            BY <1>6, <5>1, <5>2 DEF SendInv
        <4> QED
          BY <1>6, <2>0, <4>1, <4>2 DEF SendInv
      <3> QED
        BY <3>1, <3>2
    <2> QED
      BY <1>6, <2>1, <2>2
  <1> QED
    BY <1>3, <1>5, <1>6 DEF ContractInv

-----------------------------------------------------------------------------
(* A contract with one task is at rest until the task sends.               *)
LEMMA RestWhenNotSending ==
    ASSUME OneTask, NEW t \in Producer, Serves[t] \in Followed, ContractInv(Serves[t]),
           pc[t] # "off", pc[t] # "send" \/ newest[t] = NoTx
    PROVE  AtRest(Serves[t])
  <1>1. ASSUME NEW u \in Producer, Serves[u] = Serves[t], pc[u] = "send", newest[u] # NoTx PROVE FALSE
    BY <1>1 DEF OneTask
  <1> QED
    BY <1>1 DEF ContractInv, RestInv

(* A contract of a task is at rest in the next state if it is now and the  *)
(* step sends nothing.                                                     *)
LEMMA RestKept ==
    ASSUME NEW c \in Contract, AtRest(c), snap' = snap, seen' = seen, watermark'[c] = watermark[c]
    PROVE  AtRest(c)'
  <1>1. SentOf(c)' = SentOf(c) /\ Reached(c)' = Reached(c)
    BY DEF SentOf, Reached, Marked
  <1>2. Settled(c, SentOf(c), Reached(c))'
    BY <1>1 DEF AtRest, Settled
  <1> QED
    BY <1>1, <1>2 DEF AtRest

(* The chain goes on.                                                      *)
LEMMA EmitKeeps ==
    ASSUME TypeOK, NEW c \in Contract, Emit(c), ContractInv(c)
    PROVE  ContractInv(c)'
  <1>0. tip \in [Contract -> Nat] /\ tip[c] \in Nat
    BY DEF TypeOK, ChainTypeOK
  <1>1. PICK n \in tip[c] + 1 .. Len(History[c]) :
           /\ TxBoundary(c, n) /\ n <= Reached(c) + MaxBacklog
           /\ \A t \in Producer :
                 Serves[t] = c /\ pc[t] = "fetch" /\ page[t] > 0 => n <= Marked(c, newest[t]) + MaxBurst
           /\ tip' = [tip EXCEPT ![c] = n]
    BY DEF Emit, Reached
  <1>2. UNCHANGED <<snap, seen, watermark, pc, known, page, batch, newest>>
    BY DEF Emit, queueVars, pollVars
  <1>3. tip'[c] = n /\ n \in Nat /\ tip[c] <= n
    BY <1>0, <1>1, Lengths
  <1>4. Reached(c)' = Reached(c) /\ SentOf(c)' = SentOf(c) /\ MaxBurst \in Nat
    BY <1>2, CollectorAssumption DEF Reached, Marked, SentOf
  <1>5. MarksInv(c)'
    BY <1>0, <1>1, <1>2, <1>3, <1>4 DEF ContractInv, MarksInv
  <1>6. RestInv(c)'
    BY <1>2, RestKept DEF ContractInv, RestInv
  <1>7. ASSUME NEW t \in Producer, Serves[t] = c PROVE FetchInv(t)'
    <2>0. FetchInv(t)
      BY <1>7 DEF ContractInv
    <2> SUFFICES ASSUME pc[t] = "fetch", page[t] # 0
                 PROVE  \E m, lo \in Nat :
                           /\ IsMark(c, m, newest'[t])
                           /\ Fetched(c, known[t], batch[t], page[t], m, lo)'
      BY <1>2, <1>7, <2>0 DEF FetchInv
    <2>1. PICK m \in Nat, lo \in Nat :
             IsMark(c, m, newest[t]) /\ Fetched(c, known[t], batch[t], page[t], m, lo)
      BY <1>7, <2>0 DEF FetchInv
    <2>2. n <= m + MaxBurst
      <3>1. page[t] > 0
        BY DEF TypeOK, TaskTypeOK
      <3> QED
        BY <1>1, <1>7, <2>1, <3>1, MarkedAt
    <2>3. page[t] * PageSize \in Nat
      BY CollectorAssumption DEF TypeOK, TaskTypeOK
    <2>4. Fetched(c, known[t], batch[t], page[t], m, lo)'
      <3>1. m <= n /\ lo + page[t] * PageSize <= n
        <4>1. m <= tip[c] /\ lo + page[t] * PageSize <= tip[c]
          BY <2>1 DEF Fetched
        <4> HIDE DEF Fetched
        <4> QED
          BY <1>0, <1>3, <2>3, <4>1
      <3> QED
        BY <1>2, <1>3, <1>4, <2>1, <2>2, <3>1 DEF Fetched
    <2> QED
      BY <1>2, <2>1, <2>4
  <1>8. ASSUME NEW t \in Producer, Serves[t] = c PROVE SendInv(t)'
    <2>0. SendInv(t)
      BY <1>8 DEF ContractInv
    <2>1. CASE pc[t] # "send" \/ (newest[t] = NoTx /\ batch[t] = <<>>)
      BY <1>2, <2>1 DEF SendInv
    <2>2. ASSUME NEW m \in Nat, NEW lo \in Nat,
                 /\ IsMark(c, m, newest[t])
                 /\ Reached(c) <= m /\ m <= tip[c] /\ \A k \in SentOf(c) : k <= m
                 /\ SendOK(c, batch[t], SentOf(c), lo, m)
          PROVE  SendInv(t)'
      <3>1. SendOK(c, batch[t], SentOf(c), lo, m)'
        BY <1>2, <1>4, <2>2 DEF SendOK, Settled
      <3>2. m <= tip'[c]
        BY <1>0, <1>3, <2>2
      <3> QED
        BY <1>2, <1>4, <1>8, <2>2, <3>1, <3>2 DEF SendInv
    <2> QED
      BY <1>8, <2>0, <2>1, <2>2 DEF SendInv
  <1> QED
    BY <1>5, <1>6, <1>7, <1>8 DEF ContractInv

(* What a task does leaves the invariant of its contract to be shown of    *)
(* itself alone.                                                           *)
LEMMA OnlyTask ==
    ASSUME TypeOK, OneTask, NEW t \in Producer, PollerStep(t), pc[t] # "off",
           NEW c, c = Serves[t], c \in Followed,
           (MarksInv(c) /\ RestInv(c) /\ FetchInv(t) /\ SendInv(t))'
    PROVE  ContractInv(c)'
  <1>1. ASSUME NEW u \in Producer, Serves[u] = c, u # t PROVE (FetchInv(u) /\ SendInv(u))'
    <2>1. pc[u] = "off"
      BY <1>1 DEF OneTask
    <2>2. pc'[u] = "off"
      BY <1>1, <2>1, OthersUntouched DEF Untouched
    <2> QED
      BY <2>2 DEF FetchInv, SendInv
  <1> QED
    BY <1>1 DEF ContractInv

(* What a cycle that starts has to know: nothing but the watermark.        *)
LEMMA StartKeeps ==
    ASSUME TypeOK, TaskClean, NEW t \in Producer, StartPoll(t),
           NEW c \in Contract, c = Serves[t], c \in Followed, OneTask, ContractInv(c)
    PROVE  ContractInv(c)'
  <1>1. /\ page[t] = 0 /\ batch[t] = <<>> /\ newest[t] = NoTx /\ pc[t] = "due"
        /\ known'[t] = watermark[c] /\ pc'[t] \in {"fetch", "send"}
        /\ UNCHANGED <<seen, tip, snap, watermark, page, batch, newest>>
    BY DEF StartPoll, TaskClean, TypeOK, TaskTypeOK, queueVars, chainVars
  <1>2. AtRest(c)'
    BY <1>1, RestWhenNotSending, RestKept
  <1>3. MarksInv(c)'
    BY <1>1 DEF ContractInv, MarksInv, Reached, Marked
  <1>4. (FetchInv(t) /\ SendInv(t))'
    BY <1>1 DEF FetchInv, SendInv
  <1> QED
    BY <1>1, <1>2, <1>3, <1>4, OnlyTask DEF RestInv, PollerStep

(* One event of the batch is offered to the queue.                         *)
LEMMA OfferMoves ==
    ASSUME TypeOK, NEW t \in Producer, Offer(t), forgotten' = {},
           NEW c, c = Serves[t], NEW h, h = Head(batch[t])
    PROVE  /\ c \in Contract /\ h \in Positions(c) /\ h \in Nat
           /\ batch[t] \in Seq(Nat) /\ batch[t] # <<>> /\ h = batch[t][1] /\ 1 \in DOMAIN batch[t]
           /\ batch'[t] = Tail(batch[t]) /\ pc[t] = "send" /\ sending[t] = Idle
           /\ seen' = IF Decoded(c, h) THEN seen \cup {<<c, h>>} ELSE seen
           /\ \/ UNCHANGED queueVars
              \/ /\ Decoded(c, h) /\ <<c, h>> \notin seen /\ seen' = seen \cup {<<c, h>>}
                 /\ sending' = [sending EXCEPT ![t] = <<c, h>>]
                 /\ UNCHANGED <<queue, closed, delivered>>
  <1>0. batch[t] \in Seq(Positions(c)) /\ batch[t] \in Seq(Nat) /\ batch[t] # <<>> /\ c \in Contract
    BY CollectorAssumption DEF TypeOK, TaskTypeOK, Offer
  <1>1. h = batch[t][1] /\ 1 \in DOMAIN batch[t] /\ h \in Positions(c)
    <2>1. Len(batch[t]) \in Nat \ {0} /\ DOMAIN batch[t] = 1 .. Len(batch[t])
      BY <1>0, EmptySeq
    <2>2. 1 \in DOMAIN batch[t]
      BY <2>1
    <2> QED
      BY <1>0, <2>2, HeadTailProperties
  <1>2. h \in Nat
    BY <1>0, <1>1, Lengths
  <1>3. pc[t] = "send" /\ sending[t] = Idle /\ batch'[t] = Tail(batch[t])
    BY DEF Offer, TypeOK, TaskTypeOK
  <1>4. \/ /\ UNCHANGED queueVars /\ (Decoded(c, h) => <<c, h>> \in seen)
        \/ /\ Decoded(c, h) /\ <<c, h>> \notin seen /\ MarkSeen(t, <<c, h>>)
    BY DEF Offer
  <1>5. CASE UNCHANGED queueVars /\ (Decoded(c, h) => <<c, h>> \in seen)
    BY <1>0, <1>1, <1>2, <1>3, <1>5 DEF queueVars
  <1>6. CASE Decoded(c, h) /\ <<c, h>> \notin seen /\ MarkSeen(t, <<c, h>>)
    <2>1. PICK evicted \in Evictions :
             /\ seen' = (seen \ evicted) \cup {<<c, h>>} /\ forgotten' = forgotten \cup evicted
             /\ sending' = [sending EXCEPT ![t] = <<c, h>>]
             /\ UNCHANGED <<queue, closed, delivered>>
      BY <1>6 DEF MarkSeen, Mark
    <2>2. seen' = seen \cup {<<c, h>>}
      BY <2>1
    <2> QED
      BY <1>0, <1>1, <1>2, <1>3, <1>6, <2>1, <2>2
  <1> QED
    BY <1>4, <1>5, <1>6

(* Positions are numbers.                                                  *)
LEMMA SentType == \A c \in Contract : SentOf(c) \in SUBSET Nat
  BY Lengths DEF SentOf

(* An event is offered: it was the next of its batch to be due.            *)
LEMMA OfferKeeps ==
    ASSUME TypeOK, OneTask, NEW t \in Producer, Offer(t), forgotten' = {},
           NEW c \in Contract, c = Serves[t], c \in Followed, ContractInv(c)
    PROVE  ContractInv(c)'
  <1> DEFINE h == Head(batch[t])
             T == IF Decoded(c, h) THEN SentOf(c) \cup {h} ELSE SentOf(c)
  <1>0. h = Head(batch[t])
    OBVIOUS
  <1> HIDE DEF h
  <1>1. /\ h \in Nat /\ batch[t] \in Seq(Nat) /\ batch[t] # <<>>
        /\ h = batch[t][1] /\ 1 \in DOMAIN batch[t]
        /\ batch'[t] = Tail(batch[t]) /\ SentOf(c)' = T /\ pc[t] = "send"
    <2>1. /\ h \in Nat /\ batch[t] \in Seq(Nat) /\ batch[t] # <<>>
          /\ h = batch[t][1] /\ 1 \in DOMAIN batch[t]
          /\ batch'[t] = Tail(batch[t]) /\ pc[t] = "send"
      BY <1>0, OfferMoves
    <2>2. h \in Positions(c) /\ seen' = IF Decoded(c, h) THEN seen \cup {<<c, h>>} ELSE seen
      BY <1>0, OfferMoves
    <2>3. SentOf(c)' = T
      BY <2>2 DEF SentOf
    <2> QED
      BY <2>1, <2>3
  <1>2. UNCHANGED <<tip, snap, watermark, pc, known, page, newest>>
    BY DEF Offer, chainVars
  <1>3. PICK n \in Nat, lo \in Nat :
           /\ IsMark(c, n, newest[t])
           /\ Reached(c) <= n /\ n <= tip[c] /\ \A k \in SentOf(c) : k <= n
           /\ SendOK(c, batch[t], SentOf(c), lo, n)
    BY <1>1 DEF ContractInv, SendInv
  <1>4. SendOK(c, Tail(batch[t]), T, lo, n)
    BY <1>0, <1>1, <1>3, SendNext, SentType
  <1>5. \A k \in T : k <= n
    <2>1. h \in lo + 1 .. n
      BY <1>1, <1>3 DEF SendOK
    <2> QED
      BY <1>3, <2>1
  <1> HIDE DEF T
  <1>6. SendInv(t)'
    <2>1. SendOK(c, batch[t], SentOf(c), lo, n)'
      <3>1. SendOK(c, batch'[t], SentOf(c)', lo, n)
        BY <1>1, <1>4
      <3>2. snap' = snap
        BY <1>2
      <3> QED
        BY <3>1, <3>2 DEF SendOK, Settled
    <2>2. /\ IsMark(c, n, newest'[t])
          /\ Reached(c)' <= n /\ n <= tip'[c] /\ \A k \in SentOf(c)' : k <= n
      BY <1>1, <1>2, <1>3, <1>5 DEF Reached, Marked
    <2> QED
      BY <2>1, <2>2 DEF SendInv
  <1>7. FetchInv(t)'
    BY <1>1, <1>2 DEF FetchInv
  <1>8. MarksInv(c)'
    BY <1>2 DEF ContractInv, MarksInv, Reached, Marked
  <1>9. RestInv(c)'
    <2>1. newest[t] # NoTx
      BY <1>3, MarkedAt
    <2> QED
      BY <1>1, <1>2, <2>1 DEF RestInv
  <1> QED
    BY <1>1, <1>6, <1>7, <1>8, <1>9, OnlyTask DEF PollerStep

(* All is sent and pushed: the watermark moves.                            *)
LEMMA EndKeeps ==
    ASSUME TypeOK, OneTask, NEW t \in Producer, EndPoll(t),
           NEW c \in Contract, c = Serves[t], c \in Followed, ContractInv(c)
    PROVE  ContractInv(c)'
  <1>1. /\ pc[t] = "send" /\ batch[t] = <<>> /\ pc'[t] = "idle"
        /\ UNCHANGED <<tip, snap, seen>>
        /\ watermark'[c] = IF newest[t] = NoTx THEN watermark[c] ELSE newest[t]
    BY DEF EndPoll, EndCycle, queueVars, chainVars, TypeOK, TaskTypeOK, PolledTypeOK
  <1>2. (FetchInv(t) /\ SendInv(t))'
    BY <1>1 DEF FetchInv, SendInv
  <1>3. SentOf(c)' = SentOf(c)
    BY <1>1 DEF SentOf
  <1>4. MarksInv(c)' /\ AtRest(c)'
    <2>1. CASE newest[t] = NoTx
      <3>1. AtRest(c)'
        BY <1>1, <2>1, RestWhenNotSending, RestKept
      <3> QED
        BY <1>1, <2>1, <3>1 DEF ContractInv, MarksInv, Reached, Marked
    <2>2. CASE newest[t] # NoTx
      <3>1. PICK n \in Nat, lo \in Nat :
               /\ IsMark(c, n, newest[t])
               /\ Reached(c) <= n /\ n <= tip[c] /\ \A k \in SentOf(c) : k <= n
               /\ SendOK(c, <<>>, SentOf(c), lo, n)
        BY <1>1, <2>2 DEF ContractInv, SendInv
      <3>2. Settled(c, SentOf(c), n)
        BY <3>1, SendDone
      <3>3. Reached(c)' = n
        <4>1. Marked(c, newest[t]) = n
          BY <3>1, MarkedAt
        <4> QED
          BY <1>1, <2>2, <4>1 DEF Reached, Marked
      <3>4. AtRest(c)'
        <4>1. Settled(c, SentOf(c), Reached(c))'
          BY <1>1, <1>3, <3>2, <3>3 DEF Settled
        <4> QED
          BY <1>1, <1>3, <2>2, <3>1, <3>3, <4>1 DEF AtRest
      <3>5. tip[c] <= n + MaxBacklog
        BY <3>1, CollectorAssumption DEF ContractInv, MarksInv, TypeOK, ChainTypeOK
      <3>6. MarksInv(c)'
        BY <1>1, <2>2, <3>1, <3>3, <3>5 DEF ContractInv, MarksInv
      <3> QED
        BY <3>4, <3>6
    <2> QED
      BY <2>1, <2>2
  <1> QED
    BY <1>1, <1>2, <1>4, OnlyTask DEF PollerStep, RestInv

(* After a page, which it took whole or not, the task asks for the next    *)
(* one or sends.                                                           *)
GoesOn(t, whole, all) ==
    \/ whole /\ batch'[t] = all /\ pc'[t] = "fetch"
    \/ /\ batch'[t] = Chronological(all) /\ pc'[t] = "send"
       /\ whole => ~(Len(all) < MaxEventsPerCycle) \/ ~(page[t] + 1 < MaxPages(known[t]))

(* One page is fetched: what becomes of the task.                          *)
LEMMA FetchMoves ==
    ASSUME TypeOK, NEW t \in Producer, FetchPage(t),
           NEW c, c = Serves[t], NEW got, got = PageAt(c, page[t] * PageSize)
    PROVE  /\ pc[t] = "fetch" /\ page'[t] = page[t] + 1 /\ known'[t] = known[t]
           /\ newest'[t] = IF newest[t] = NoTx /\ got # <<>> THEN TxAt(c, got[1]) ELSE newest[t]
           /\ UNCHANGED <<seen, tip, snap, watermark>>
           /\ \E m, all : /\ PageTaken(c, known[t], batch[t], got, m, all)
                          /\ GoesOn(t, m = Len(got) /\ m = PageSize, all)
  <1>1. /\ pc[t] = "fetch" /\ page'[t] = page[t] + 1 /\ known'[t] = known[t]
        /\ newest'[t] = IF newest[t] = NoTx /\ got # <<>> THEN TxAt(c, got[1]) ELSE newest[t]
        /\ UNCHANGED <<seen, tip, snap, watermark>>
    BY DEF FetchPage, TypeOK, TaskTypeOK, queueVars, chainVars
  <1>2. PICK m \in 0 .. Len(got) :
          LET all == batch[t] \o SubSeq(got, 1, m)
              more == /\ m = Len(got) /\ m = PageSize
                      /\ Len(all) < MaxEventsPerCycle
                      /\ page[t] + 1 < MaxPages(known[t])
          IN  /\ \A k \in 1 .. m : TxAt(c, got[k]) # known[t]
              /\ m < Len(got) => TxAt(c, got[m + 1]) = known[t]
              /\ batch' = [batch EXCEPT ![t] = IF more THEN all ELSE Chronological(all)]
              /\ pc' = [pc EXCEPT ![t] = IF more THEN "fetch" ELSE "send"]
    BY Zenon DEF FetchPage
  <1> DEFINE all == batch[t] \o SubSeq(got, 1, m)
             more == /\ m = Len(got) /\ m = PageSize
                     /\ Len(all) < MaxEventsPerCycle
                     /\ page[t] + 1 < MaxPages(known[t])
  <1> HIDE DEF all
  <1>3. /\ \A k \in 1 .. m : TxAt(c, got[k]) # known[t]
        /\ m < Len(got) => TxAt(c, got[m + 1]) = known[t]
        /\ batch' = [batch EXCEPT ![t] = IF more THEN all ELSE Chronological(all)]
        /\ pc' = [pc EXCEPT ![t] = IF more THEN "fetch" ELSE "send"]
    BY <1>2 DEF all
  <1>4. /\ batch'[t] = IF more THEN all ELSE Chronological(all)
        /\ pc'[t] = IF more THEN "fetch" ELSE "send"
    BY <1>3 DEF TypeOK, TaskTypeOK
  <1>5. GoesOn(t, m = Len(got) /\ m = PageSize, all)
    BY <1>4 DEF GoesOn
  <1>6. PageTaken(c, known[t], batch[t], got, m, all)
    BY <1>3 DEF PageTaken, all
  <1> QED
    BY <1>1, <1>5, <1>6

(* A cycle has a number of pages.                                          *)
LEMMA PagesType == \A w : MaxPages(w) \in Nat
  <1>1. PageSize \in Nat \ {0} /\ MaxEventsPerCycle + PageSize - 1 \in Nat /\ ColdStartPages \in Nat
    BY CollectorAssumption
  <1>2. \A x \in Nat : x \div PageSize \in Nat
    BY <1>1
  <1> QED
    BY <1>1, <1>2 DEF MaxPages

(* A page is fetched: the first settles what the cycle reaches for, the    *)
(* others go on downwards, and the last turns the batch round.             *)
LEMMA FetchKeeps ==
    ASSUME Paced, TypeOK, OneTask, NEW t \in Producer, FetchPage(t),
           NEW c \in Contract, c = Serves[t], c \in Followed, ContractInv(c)
    PROVE  ContractInv(c)'
  <1> DEFINE p == page[t]
             w == known[t]
             b == batch[t]
             got == PageAt(c, p * PageSize)
  <1>0. /\ tip[c] \in Nat /\ p \in Nat /\ p * PageSize \in Nat
        /\ b \in Seq(Nat) /\ PageSize \in Nat \ {0}
        /\ tip[c] <= Len(History[c]) /\ Positions(c) = 1 .. Len(History[c]) /\ Len(History[c]) \in Nat
    BY CollectorAssumption, Lengths DEF TypeOK, ChainTypeOK, TaskTypeOK
  <1>t. got \in Seq(Positions(c)) /\ got \in Seq(Nat)
    <2>1. ChainTypeOK /\ p * PageSize \in Nat
      BY <1>0 DEF TypeOK
    <2>2. Positions(c) \subseteq Nat
      BY <1>0
    <2> HIDE DEF p
    <2>3. got \in Seq(Positions(c))
      BY <2>1, PageType, Zenon
    <2> HIDE DEF got
    <2> QED
      BY <2>2, <2>3, SeqMonotonic
  <1>1. /\ pc[t] = "fetch" /\ page'[t] = p + 1 /\ known'[t] = w
        /\ newest'[t] = IF newest[t] = NoTx /\ got # <<>> THEN TxAt(c, got[1]) ELSE newest[t]
        /\ UNCHANGED <<seen, tip, snap, watermark>>
    <2> HIDE DEF got
    <2> QED
      BY FetchMoves DEF got
  <1>2. PICK m, all : /\ PageTaken(c, w, b, got, m, all)
                      /\ GoesOn(t, m = Len(got) /\ m = PageSize, all)
    <2>1. got = PageAt(c, page[t] * PageSize)
      OBVIOUS
    <2> HIDE DEF got
    <2> QED
      BY <2>1, FetchMoves
  <1>3. /\ AtRest(c) /\ AtRest(c)' /\ MarksInv(c) /\ MarksInv(c)'
        /\ Reached(c) \in Nat /\ Reached(c)' = Reached(c) /\ SentOf(c)' = SentOf(c)
    <2>1. AtRest(c)
      BY <1>1, RestWhenNotSending
    <2>2. AtRest(c)' /\ Reached(c)' = Reached(c) /\ SentOf(c)' = SentOf(c)
      BY <1>1, <2>1, RestKept DEF Reached, Marked, SentOf
    <2>3. MarksInv(c)' /\ Reached(c) \in Nat
      BY <1>1, <2>2 DEF ContractInv, MarksInv
    <2> QED
      BY <2>1, <2>2, <2>3 DEF ContractInv
  <1>4. /\ w = watermark[c]
        /\ w # NoTx => IsMark(c, Reached(c), w)
        /\ p = 0 => b = <<>> /\ newest[t] = NoTx
        /\ p # 0 => \E n, lo \in Nat :
              IsMark(c, n, newest[t]) /\ Fetched(c, w, b, p, n, lo)
    BY <1>1, <1>3 DEF ContractInv, MarksInv, FetchInv
  <1>s. /\ Len(PageAt(c, 0)) = IF tip[c] < PageSize THEN tip[c] ELSE PageSize
        /\ \A i \in DOMAIN PageAt(c, 0) : PageAt(c, 0)[i] = tip[c] + 1 - i
    <2>1. 0 <= tip[c] /\ tip[c] = tip[c] - 0 /\ tip[c] \in Nat /\ 0 \in Nat
      BY <1>0
    <2>2. Len(PageAt(c, 0)) = IF tip[c] < PageSize THEN tip[c] ELSE PageSize
      BY <2>1, PageShape
    <2>3. \A i \in DOMAIN PageAt(c, 0) : PageAt(c, 0)[i] = tip[c] + 1 - i
      BY <2>1, PageShape
    <2> QED
      BY <2>2, <2>3
  <1> HIDE DEF got
  (* Nothing on chain.                                                     *)
  <1>5. CASE p = 0 /\ got = <<>>
    <2>1. m = 0 /\ m # PageSize /\ all = b \o SubSeq(got, 1, m)
      BY <1>0, <1>2, <1>5 DEF PageTaken
    <2>2. all = <<>>
      <3>1. SubSeq(got, 1, m) = <<>>
        BY <1>5, <2>1
      <3>2. <<>> \o <<>> = <<>>
        OBVIOUS
      <3> QED
        BY <1>4, <1>5, <2>1, <3>1, <3>2
    <2>3. Chronological(all) = <<>>
      BY <2>2 DEF Chronological, Reverse
    <2>4. pc'[t] = "send" /\ batch'[t] = <<>> /\ newest'[t] = NoTx
      BY <1>1, <1>2, <1>4, <1>5, <2>1, <2>3 DEF GoesOn
    <2>5. (FetchInv(t) /\ SendInv(t))'
      BY <2>4 DEF FetchInv, SendInv
    <2> QED
      BY <1>1, <1>3, <2>5, OnlyTask DEF RestInv, PollerStep
  <1>6. CASE ~(p = 0 /\ got = <<>>)
    <2>1. PICK n \in Nat, lo \in Nat :
             /\ IsMark(c, n, newest'[t]) /\ Fetched(c, w, b, p, n, lo)
             /\ p = 0 => n = tip[c]
      <3>1. CASE p # 0
        <4>1. PICK n \in Nat, lo \in Nat : IsMark(c, n, newest[t]) /\ Fetched(c, w, b, p, n, lo)
          BY <1>4, <3>1
        <4>2. newest[t] # NoTx
          BY <4>1, MarkedAt
        <4> QED
          BY <1>1, <3>1, <4>1, <4>2
      <3>2. CASE p = 0
        <4>1. /\ p * PageSize = 0 /\ b = <<>> /\ newest[t] = NoTx /\ got # <<>>
          BY <1>0, <1>4, <1>6, <3>2
        <4>2. got = PageAt(c, 0)
          BY <4>1 DEF got
        <4>3. Len(got) # 0 /\ 1 \in DOMAIN got
          BY <1>t, <4>1, EmptySeq
        <4>4. got[1] = tip[c]
          <5>1. \A i \in DOMAIN got : got[i] = tip[c] + 1 - i
            BY <1>s, <4>2
          <5>2. got[1] = tip[c] + 1 - 1
            BY <4>3, <5>1
          <5> QED
            BY <1>0, <5>2
        <4>5. tip[c] \in Positions(c)
          BY <1>t, <4>3, <4>4
        <4>6. IsMark(c, tip[c], newest'[t])
          BY <1>1, <1>3, <4>1, <4>4, <4>5 DEF IsMark, MarksInv
        <4>7. Collected(b, tip[c], tip[c])
          <5>1. DOMAIN b = {} /\ \A j : j \notin tip[c] + 1 .. tip[c]
            BY <1>0, <4>1
          <5> QED
            BY <5>1 DEF Collected
        <4>8. Fetched(c, w, b, p, tip[c], tip[c])
          <5>1. Len(b) = 0 /\ DOMAIN b = {} /\ MaxBurst \in Nat
            BY <4>1, CollectorAssumption
          <5> QED
            BY <1>0, <1>3, <4>1, <4>7, <5>1 DEF Fetched, MarksInv
        <4> QED
          BY <1>0, <4>6, <4>8
      <3> QED
        BY <3>1, <3>2
    <2>2. PICK low \in Nat : DownTo(c, w, p, n, m = Len(got) /\ m = PageSize, all, low)
      <3>1. p \in Nat /\ b \in Seq(Nat) /\ got = PageAt(c, p * PageSize) /\ ChainTypeOK
        BY <1>0 DEF got, TypeOK
      <3>2. PageTaken(c, w, b, got, m, all)
        BY <1>2
      <3>3. Reached(c) \in Nat /\ (w # NoTx => IsMark(c, Reached(c), w))
        BY <1>3, <1>4
      <3>4. Fetched(c, w, b, p, n, lo) /\ (p = 0 => n = tip[c])
        BY <2>1
      <3> HIDE DEF p, w, b
      <3>5. Taking(c, w, b, p, n, lo, got, m, all)
        BY <3>1, <3>2, <3>3, <3>4 DEF Taking
      <3> QED
        BY <3>5, PageCollects
    <2>4. /\ all \in Seq(Nat) /\ Collected(all, low, n)
          /\ \A i \in DOMAIN all : TxAt(c, all[i]) # w
          /\ w # NoTx => Reached(c) <= low
          /\ IF m = Len(got) /\ m = PageSize
             THEN Len(all) = (p + 1) * PageSize /\ low + (p + 1) * PageSize = tip[c]
             ELSE low <= Reached(c)
      BY <2>2 DEF DownTo
    <2>5. Reached(c) <= n /\ n <= tip[c] /\ tip[c] <= n + MaxBurst
      BY <2>1 DEF Fetched
    <2>6. CASE m = Len(got) /\ m = PageSize /\ batch'[t] = all /\ pc'[t] = "fetch"
      <3>1. page'[t] # 0 /\ page'[t] = p + 1
        BY <1>0, <1>1
      <3>2. Len(all) = (p + 1) * PageSize /\ low + (p + 1) * PageSize = tip[c]
        BY <2>4, <2>6
      <3>3. Fetched(c, known[t], batch[t], page[t], n, low)'
        BY <1>1, <1>3, <2>4, <2>5, <2>6, <3>1, <3>2 DEF Fetched
      <3>4. FetchInv(t)'
        BY <1>1, <1>4, <2>1, <3>1, <3>3 DEF FetchInv
      <3>5. SendInv(t)'
        BY <2>6 DEF SendInv
      <3> QED
        BY <1>1, <1>3, <3>4, <3>5, OnlyTask DEF RestInv, PollerStep
    <2>7. CASE /\ m = Len(got) /\ m = PageSize =>
                     ~(Len(all) < MaxEventsPerCycle) \/ ~(p + 1 < MaxPages(w))
               /\ batch'[t] = Chronological(all) /\ pc'[t] = "send"
      <3>1. low <= Reached(c)
        <4>1. CASE m = Len(got) /\ m = PageSize
          <5>1. Len(all) = (p + 1) * PageSize /\ low + (p + 1) * PageSize = tip[c]
            BY <2>4, <4>1
          <5>2. MaxPages(w) \in Nat /\ (p + 1) * PageSize \in Nat /\ MaxEventsPerCycle \in Nat
            BY <1>0, PagesType, CollectorAssumption
          <5>3. (p + 1) * PageSize >= MaxEventsPerCycle \/ p + 1 >= MaxPages(watermark[c])
            BY <1>0, <1>4, <2>7, <4>1, <5>1, <5>2, SMTT(30)
          <5> QED
            BY <1>0, <1>3, <5>1, <5>3, CapReaches
        <4>2. CASE ~(m = Len(got) /\ m = PageSize)
          BY <2>4, <4>2
        <4> QED
          BY <4>1, <4>2
      <3>2. SendOK(c, Chronological(all), SentOf(c), low, n)
        BY <1>3, <1>4, <2>4, <3>1, SendStarts
      <3>3. SendOK(c, batch[t], SentOf(c), low, n)'
        BY <1>1, <1>3, <2>7, <3>2 DEF SendOK, Settled
      <3>4. /\ Reached(c)' <= n /\ n <= tip'[c] /\ \A k \in SentOf(c)' : k <= n
        <4>1. \A k \in SentOf(c) : k \in Nat /\ k <= Reached(c)
          BY <1>3, SentType DEF AtRest
        <4> QED
          BY <1>1, <1>3, <2>5, <4>1
      <3>5. SendInv(t)'
        BY <2>1, <3>3, <3>4 DEF SendInv
      <3>6. FetchInv(t)'
        BY <2>7 DEF FetchInv
      <3> QED
        BY <1>1, <1>3, <3>5, <3>6, OnlyTask DEF RestInv, PollerStep
    <2> QED
      BY <1>2, <2>6, <2>7 DEF GoesOn
  <1> QED
    BY <1>5, <1>6

-----------------------------------------------------------------------------
(* Paced rules two steps out ...                                           *)
LEMMA PacedMeans ==
    ASSUME Paced
    PROVE  /\ \A p \in Pool : ~RemovePool(p)
           /\ ~Restart
  BY DEF Paced, RemovePool, Withdraw, Restart, Rebuild

(* ... and of the others most leave the source's side alone.               *)
LEMMA ConsumerQuiet ==
    ASSUME ReceiveEvent \/ ProcessorExit \/ Stop \/ StopReturns \/ DropHandle
           \/ (\E p \in Pool : FetchPool(p)) \/ UNCHANGED vars
    PROVE  UNCHANGED <<tip, snap, watermark, polled, source, pc, known, page, batch, newest, seen, sending>>
  <1>1. UNCHANGED <<chainVars, watermark, polled, source, pc, pollVars>>
    BY DEF ReceiveEvent, ProcessorExit, Stop, StopReturns, DropHandle, FetchPool, sourceVars, vars
  <1>2. UNCHANGED <<seen, sending>>
    BY DEF ReceiveEvent, ProcessorExit, Stop, StopReturns, DropHandle, FetchPool, vars,
           Consume, Receive, Finish, CloseReceiver, SetStop, Joined, Drop, Fetch, queueVars
  <1> QED
    BY <1>1, <1>2 DEF chainVars, pollVars

(* The tasks new are started: as many for each contract as are asked for.  *)
Started(new, contracts, count) ==
    /\ new \in SUBSET Producer
    /\ \A t \in new : pc[t] = "off" /\ Serves[t] \in contracts
    /\ \A c \in contracts : Cardinality(new \cap Free(c)) = Min({count[c], Cardinality(Free(c))})
    /\ \A t \in Producer : pc'[t] = IF t \in new THEN "idle" ELSE pc[t]

(* This is what Spawn does.                                                *)
LEMMA SpawnMoves ==
    ASSUME TypeOK, NEW contracts \in SUBSET Contract, NEW count, Spawn(contracts, count)
    PROVE  \E new : Started(new, contracts, count)
  <1>1. PICK new \in SUBSET UNION {Free(c) : c \in contracts} :
           /\ \A c \in contracts :
                 Cardinality(new \cap Free(c)) = Min({count[c], Cardinality(Free(c))})
           /\ pc' = [t \in Producer |-> IF t \in new THEN "idle" ELSE pc[t]]
    BY DEF Spawn
  <1>2. \A t \in new : t \in Producer /\ pc[t] = "off" /\ Serves[t] \in contracts
    BY <1>1 DEF Free
  <1>3. \A t \in Producer : pc'[t] = IF t \in new THEN "idle" ELSE pc[t]
    BY <1>1
  <1> QED
    BY <1>1, <1>2, <1>3 DEF Started

(* Initial pools stay, and so do their contracts in polled.                *)
LEMMA KeptStep ==
    ASSUME Paced, Kept, TypeOK, [Next]_vars
    PROVE  Kept'
  <1>1. ASSUME UNCHANGED <<pools, polled>> PROVE Kept'
    BY <1>1 DEF Kept, Live
  <1>2. ASSUME NEW c \in Contract, Emit(c) PROVE Kept'
    BY <1>1, <1>2 DEF Emit, consumerVars
  <1>3. ASSUME NEW t \in Producer, PollerStep(t) PROVE Kept'
    BY <1>1, <1>3 DEF PollerStep, Wake, StartPoll, FetchPage, FetchFails, Offer, Push, EndPoll, PollerExit,
                      consumerVars, sourceVars
  <1>4. CASE RunSource \/ ProcessorStep \/ Stop \/ StopReturns \/ DropHandle \/ UNCHANGED vars
    BY <1>1, <1>4 DEF RunSource, ProcessorStep, ReceiveEvent, ProcessorExit, Consume, Finish,
                      Stop, StopReturns, DropHandle, SetStop, Joined, Drop, vars, consumerVars, sourceVars
  <1>5. ASSUME NEW p \in Pool, FetchPool(p) PROVE Kept'
    <2>1. /\ p \notin Live /\ polled' = polled /\ pools' = [pools EXCEPT ![p] = "fetched"]
      BY <1>5 DEF FetchPool, Fetch, sourceVars, Live
    <2>2. Live \subseteq Live'
      BY <2>1 DEF Live, TypeOK, ConsumerTypeOK
    <2> QED
      BY <2>1, <2>2 DEF Kept
  <1>6. ASSUME NEW p \in Pool, AddPool(p) PROVE Kept'
    <2>1. polled \subseteq polled' /\ pools' = [pools EXCEPT ![p] = "live"]
      BY <1>6 DEF AddPool, Insert
    <2>2. Live \subseteq Live'
      BY <2>1 DEF Live, TypeOK, ConsumerTypeOK
    <2> QED
      BY <2>1, <2>2 DEF Kept
  <1> QED
    BY <1>2, <1>3, <1>4, <1>5, <1>6, PacedMeans DEF Next, HandleStep

(* No followed contract gets a second task: the source starts one for each *)
(* and add_pool finds it in polled.                                        *)
LEMMA OneTaskStep ==
    ASSUME Paced, Kept, OneTask, TypeOK, [Next]_vars
    PROVE  OneTask'
  <1>1. ASSUME source' = source,
               \A t \in Producer : Serves[t] \in Followed /\ pc'[t] # "off" => pc[t] # "off"
        PROVE  OneTask'
    BY <1>1 DEF OneTask
  <1>2. ASSUME NEW c \in Contract, Emit(c) PROVE OneTask'
    BY <1>1, <1>2 DEF Emit
  <1>3. ASSUME NEW t \in Producer, PollerStep(t) PROVE OneTask'
    <2>1. source' = source /\ (pc'[t] # "off" => pc[t] # "off")
      BY <1>3 DEF PollerStep, Wake, StartPoll, FetchPage, FetchFails, Offer, Push, EndPoll,
                  PollerExit, sourceVars
    <2> QED
      BY <1>1, <1>3, <2>1, OthersUntouched DEF Untouched
  <1>4. CASE RunSource
    <2> DEFINE one == [c \in Contract |-> 1]
    <2>1. source = "spawned" /\ source' = "running" /\ Spawn(topics, one)
      BY <1>4 DEF RunSource
    <2>a. \A c \in Contract : one[c] = 1
      OBVIOUS
    <2> HIDE DEF one
    <2>b. PICK new : Started(new, topics, one)
      <3>1. topics \in SUBSET Contract
        BY DEF TypeOK, ConsumerTypeOK
      <3> QED
        BY <2>1, <3>1, SpawnMoves
    <2>2. /\ new \in SUBSET Producer
          /\ \A t \in new : pc[t] = "off" /\ Serves[t] \in topics
          /\ \A c \in topics : Cardinality(new \cap Free(c)) = Min({one[c], Cardinality(Free(c))})
          /\ \A t \in Producer : pc'[t] = IF t \in new THEN "idle" ELSE pc[t]
      BY <2>b DEF Started
    <2>3. ASSUME NEW t \in Producer, NEW u \in Producer, Serves[t] = Serves[u], Serves[t] \in Followed,
                 pc'[t] # "off", pc'[u] # "off"
          PROVE  t = u
      <3> DEFINE c == Serves[t]
                 N == new \cap Free(c)
      <3>1. t \in new /\ u \in new /\ pc[t] = "off" /\ pc[u] = "off"
        BY <2>1, <2>2, <2>3 DEF OneTask
      <3>2. t \in N /\ u \in N /\ c \in topics /\ c \in Contract
        BY <2>2, <2>3, <3>1, CollectorAssumption DEF Free
      <3>3. IsFiniteSet(Free(c)) /\ IsFiniteSet(N) /\ Cardinality(Free(c)) \in Nat /\ Cardinality(N) \in Nat
        <4>1. IsFiniteSet(Free(c)) /\ IsFiniteSet(N)
          BY FS_Subset DEF Paced, Free
        <4> QED
          BY <4>1, FS_CardinalityType
      <3>4. Cardinality(N) <= 1
        <4>1. Cardinality(N) = Min({1, Cardinality(Free(c))})
          BY <2>2, <2>a, <3>2
        <4> QED
          BY <3>3, <4>1, MinOfTwo
      <3>5. Cardinality(N) # 0
        BY <3>2, <3>3, FS_EmptySet
      <3>6. Cardinality(N) = 1
        BY <3>3, <3>4, <3>5
      <3>7. PICK x : N = {x}
        BY <3>3, <3>6, FS_Singleton
      <3> QED
        BY <3>2, <3>7
    <2> QED
      BY <2>1, <2>3 DEF OneTask
  <1>5. ASSUME NEW p \in Pool, AddPool(p) PROVE OneTask'
    <2>1. source' = source /\ Spawn(TopicsOf(p) \ polled, TopicCount[p])
      BY <1>5 DEF AddPool
    <2>2. PICK new : Started(new, TopicsOf(p) \ polled, TopicCount[p])
      <3>1. TopicsOf(p) \ polled \in SUBSET Contract
        BY TopicsType
      <3> QED
        BY <2>1, <3>1, SpawnMoves
    <2>3. \A t \in Producer : Serves[t] \in Followed /\ pc'[t] # "off" => pc[t] # "off"
      BY <2>2 DEF Kept, Started
    <2> QED
      BY <1>1, <2>1, <2>3
  <1>6. CASE \/ ProcessorStep \/ Stop \/ StopReturns \/ DropHandle
             \/ (\E p \in Pool : FetchPool(p)) \/ UNCHANGED vars
    BY <1>1, <1>6, ConsumerQuiet DEF ProcessorStep
  <1> QED
    BY <1>2, <1>3, <1>4, <1>5, <1>6, PacedMeans DEF Next, HandleStep

(* Tasks begin a cycle with nothing in hand, and end it so.                *)
LEMMA TaskCleanStep ==
    ASSUME Paced, TaskClean, TypeOK, [Next]_vars
    PROVE  TaskClean'
  <1> DEFINE Clean(t) == /\ pc[t] \in {"off", "idle", "due"} =>
                               page[t] = 0 /\ batch[t] = <<>> /\ newest[t] = NoTx
                         /\ sending[t] # Idle => pc[t] = "send" /\ sending[t][1] = Serves[t]
  <1>0. TaskTypeOK /\ sending \in [Producer -> Event \cup {Idle}]
    BY DEF TypeOK, QueueTypeOK
  <1>1. ASSUME UNCHANGED <<page, batch, newest, sending>>,
               \A t \in Producer :
                   pc'[t] = pc[t] \/ {pc[t], pc'[t]} \subseteq {"off", "idle", "due"}
        PROVE  TaskClean'
    <2> SUFFICES ASSUME NEW t \in Producer PROVE Clean(t)'
      BY DEF TaskClean
    <2>1. Clean(t)
      BY DEF TaskClean
    <2> QED
      BY <1>1, <2>1
  <1>2. ASSUME NEW c \in Contract, Emit(c) PROVE TaskClean'
    BY <1>1, <1>2 DEF Emit, pollVars, queueVars
  <1>3. ASSUME NEW t \in Producer, PollerStep(t) PROVE TaskClean'
    <2>1. \A u \in Producer \ {t} : Clean(u)'
      <3> SUFFICES ASSUME NEW u \in Producer \ {t} PROVE Clean(u)'
        OBVIOUS
      <3>1. Clean(u) /\ Untouched(u)
        BY <1>3, OthersUntouched DEF TaskClean
      <3>2. sending'[u] = sending[u]
        BY <1>0, <1>3 DEF PollerStep, Wake, StartPoll, FetchPage, FetchFails, Offer, Push, EndPoll,
                          PollerExit, MarkSeen, Mark, Enqueue, SendFails, queueVars
      <3> QED
        BY <3>1, <3>2 DEF Untouched
    <2>2. Clean(t)
      BY DEF TaskClean
    <2>3. Clean(t)'
      <3>1. CASE StartPoll(t) \/ FetchPage(t)
        <4>1. pc'[t] \notin {"off", "idle", "due"} /\ pc[t] # "send" /\ sending' = sending
          BY <1>0, <3>1 DEF StartPoll, FetchPage, TaskTypeOK, queueVars
        <4> QED
          BY <2>2, <4>1
      <3>2. CASE FetchFails(t) \/ EndPoll(t)
        <4>1. /\ pc'[t] = "idle" /\ page'[t] = 0 /\ batch'[t] = <<>> /\ newest'[t] = NoTx
              /\ sending'[t] = sending[t] /\ (pc[t] = "fetch" \/ sending[t] = Idle)
          BY <1>0, <3>2 DEF FetchFails, EndPoll, EndCycle, TaskTypeOK, queueVars
        <4> QED
          BY <2>2, <4>1
      <3>3. CASE Offer(t)
        <4>1. pc'[t] = "send" /\ (sending'[t] = Idle \/ sending'[t] = <<Serves[t], Head(batch[t])>>)
          BY <1>0, <3>3 DEF Offer, MarkSeen, Mark, queueVars
        <4> QED
          BY <4>1
      <3>4. CASE Push(t)
        <4>1. sending'[t] = Idle /\ pc'[t] = pc[t] /\ page'[t] = page[t] /\ batch'[t] = batch[t]
              /\ newest'[t] = newest[t]
          BY <1>0, <3>4 DEF Push, Enqueue, SendFails, sourceVars, pollVars
        <4> QED
          BY <2>2, <4>1
      <3>5. CASE Wake(t) \/ PollerExit(t)
        <4>1. pc'[t] \in {"off", "due"} /\ pc[t] = "idle" /\ sending'[t] = sending[t]
              /\ page'[t] = page[t] /\ batch'[t] = batch[t] /\ newest'[t] = newest[t]
          BY <1>0, <3>5 DEF Wake, PollerExit, TaskTypeOK, queueVars, pollVars
        <4> QED
          BY <2>2, <4>1
      <3> QED
        BY <1>3, <3>1, <3>2, <3>3, <3>4, <3>5 DEF PollerStep
    <2> QED
      BY <2>1, <2>3 DEF TaskClean
  <1>4. ASSUME NEW cs \in SUBSET Contract, NEW count, Spawn(cs, count), UNCHANGED <<pollVars, queueVars>>
        PROVE  TaskClean'
    <2>1. \A t \in Producer : pc'[t] = pc[t] \/ (pc[t] = "off" /\ pc'[t] = "idle")
      <3>1. PICK new : Started(new, cs, count)
        BY <1>4, SpawnMoves
      <3> QED
        BY <3>1 DEF Started
    <2> QED
      BY <1>1, <1>4, <2>1 DEF pollVars, queueVars
  <1>5. CASE RunSource
    <2>1. Spawn(topics, [c \in Contract |-> 1]) /\ UNCHANGED <<pollVars, queueVars>>
      BY <1>5 DEF RunSource
    <2> DEFINE one == [c \in Contract |-> 1]
    <2> HIDE DEF one
    <2>2. Spawn(topics, one) /\ topics \in SUBSET Contract
      BY <2>1 DEF one, TypeOK, ConsumerTypeOK
    <2> QED
      BY <1>4, <2>1, <2>2
  <1>6. ASSUME NEW p \in Pool, AddPool(p) PROVE TaskClean'
    <2>1. /\ Spawn(TopicsOf(p) \ polled, TopicCount[p]) /\ UNCHANGED <<pollVars, queueVars>>
          /\ TopicsOf(p) \ polled \in SUBSET Contract
      BY <1>6, TopicsType DEF AddPool, Insert
    <2> QED
      BY <1>4, <2>1
  <1>7. CASE \/ ProcessorStep \/ Stop \/ StopReturns \/ DropHandle
             \/ (\E p \in Pool : FetchPool(p)) \/ UNCHANGED vars
    BY <1>1, <1>7, ConsumerQuiet DEF ProcessorStep
  <1> QED
    BY <1>2, <1>3, <1>5, <1>6, <1>7, PacedMeans DEF Next, HandleStep

(* A page holds what is on chain.                                          *)
LEMMA PageOnChain ==
    ASSUME ChainTypeOK, NEW c \in Contract, NEW offset \in Nat
    PROVE  PageAt(c, offset) \in Seq(1 .. tip[c])
  <1> DEFINE n == IF tip[c] < offset THEN 0 ELSE tip[c] - offset
             m == IF n < PageSize THEN n ELSE PageSize
  <1>1. n \in Nat /\ n <= tip[c] /\ tip[c] \in Nat
    BY DEF ChainTypeOK
  <1>2. m \in Nat /\ m <= n
    BY <1>1, CollectorAssumption
  <1> HIDE DEF n, m
  <1>3. \A k \in 1 .. m : n + 1 - k \in 1 .. tip[c]
    BY <1>1, <1>2
  <1>4. [k \in 1 .. m |-> n + 1 - k] \in Seq(1 .. tip[c])
    BY <1>2, <1>3
  <1> QED
    BY <1>4 DEF PageAt, n, m

(* Pages, batches and sends are of events that are on chain.               *)
LEMMA OnChainStep ==
    ASSUME Paced, OnChain, TypeOK, forgotten' = {}, [Next]_vars
    PROVE  OnChain'
  <1>0. ChainTypeOK /\ TaskTypeOK /\ QueueTypeOK
    BY DEF TypeOK
  <1>1. ASSUME UNCHANGED <<tip, batch, seen>> PROVE OnChain'
    BY <1>1 DEF OnChain
  <1>2. ASSUME NEW c \in Contract, Emit(c) PROVE OnChain'
    <2>1. /\ \A d \in Contract : tip[d] \in Nat /\ tip'[d] \in Nat /\ tip[d] <= tip'[d]
          /\ UNCHANGED <<batch, seen>>
      BY <1>0, <1>2, Lengths DEF Emit, ChainTypeOK, pollVars, queueVars
    <2>2. ASSUME NEW t \in Producer PROVE batch[t] \in Seq(1 .. tip'[Serves[t]])
      <3>1. batch[t] \in Seq(1 .. tip[Serves[t]]) /\ 1 .. tip[Serves[t]] \subseteq 1 .. tip'[Serves[t]]
        BY <2>1, CollectorAssumption DEF OnChain
      <3> QED
        BY <3>1, SeqMonotonic
    <2>3. \A e \in seen : Decoded(e[1], e[2]) /\ e[2] <= tip'[e[1]]
      <3> SUFFICES ASSUME NEW e \in seen PROVE Decoded(e[1], e[2]) /\ e[2] <= tip'[e[1]]
        OBVIOUS
      <3>1. e[1] \in Contract /\ e[2] \in Nat
        BY <1>0, EventParts DEF QueueTypeOK
      <3> QED
        BY <2>1, <3>1 DEF OnChain
    <2> QED
      BY <2>1, <2>2, <2>3 DEF OnChain
  <1>3. ASSUME NEW t \in Producer, NEW b \in Seq(1 .. tip[Serves[t]]), batch' = [batch EXCEPT ![t] = b],
               UNCHANGED tip,
               \A e \in seen' : e \in seen \/ (Decoded(e[1], e[2]) /\ e[2] <= tip[e[1]])
        PROVE  OnChain'
    <2>1. \A u \in Producer : batch'[u] \in Seq(1 .. tip[Serves[u]])
      BY <1>0, <1>3 DEF OnChain, TaskTypeOK
    <2> QED
      BY <1>3, <2>1 DEF OnChain
  <1>4. ASSUME NEW t \in Producer, Wake(t) \/ StartPoll(t) \/ Push(t) \/ PollerExit(t) PROVE OnChain'
    BY <1>1, <1>4 DEF Wake, StartPoll, Push, Enqueue, SendFails, PollerExit, sourceVars, pollVars,
                      chainVars, queueVars
  <1>5. ASSUME NEW t \in Producer, FetchFails(t) \/ EndPoll(t) PROVE OnChain'
    <2>1. batch' = [batch EXCEPT ![t] = <<>>] /\ UNCHANGED <<tip, seen>>
      BY <1>5 DEF FetchFails, EndPoll, EndCycle, chainVars, queueVars
    <2>2. <<>> \in Seq(1 .. tip[Serves[t]])
      OBVIOUS
    <2> QED
      BY <1>3, <2>1, <2>2
  <1>6. ASSUME NEW t \in Producer, FetchPage(t) PROVE OnChain'
    <2> DEFINE c == Serves[t]
               got == PageAt(c, page[t] * PageSize)
               S == 1 .. tip[c]
    <2>1. got \in Seq(S) /\ batch[t] \in Seq(S)
      <3>1. c \in Contract /\ page[t] * PageSize \in Nat
        BY <1>0, CollectorAssumption DEF TaskTypeOK
      <3> QED
        BY <1>0, <3>1, PageOnChain DEF OnChain
    <2>2. PICK m \in 0 .. Len(got) :
             \/ batch' = [batch EXCEPT ![t] = batch[t] \o SubSeq(got, 1, m)]
             \/ batch' = [batch EXCEPT ![t] = Chronological(batch[t] \o SubSeq(got, 1, m))]
      BY <1>6 DEF FetchPage
    <2>3. UNCHANGED <<tip, seen>>
      BY <1>6 DEF FetchPage, chainVars, queueVars
    <2> HIDE DEF got, S
    <2>4. /\ batch[t] \o SubSeq(got, 1, m) \in Seq(S)
          /\ Chronological(batch[t] \o SubSeq(got, 1, m)) \in Seq(S)
      BY <2>1, CollectType
    <2> QED
      BY <1>3, <2>2, <2>3, <2>4 DEF S
  <1>7. ASSUME NEW t \in Producer, Offer(t) PROVE OnChain'
    <2> DEFINE h == Head(batch[t])
               c == Serves[t]
    <2>1. batch[t] \in Seq(1 .. tip[c]) /\ batch[t] # <<>>
      BY <1>7 DEF OnChain, Offer
    <2>2. h \in 1 .. tip[c] /\ Tail(batch[t]) \in Seq(1 .. tip[c])
      BY <2>1, HeadTailProperties
    <2>3. seen' = IF Decoded(c, h) THEN seen \cup {<<c, h>>} ELSE seen
      <3>1. h = Head(batch[t]) /\ c = Serves[t]
        OBVIOUS
      <3> HIDE DEF h, c
      <3> QED
        BY <1>7, <3>1, OfferMoves
    <2>4. batch' = [batch EXCEPT ![t] = Tail(batch[t])] /\ UNCHANGED tip
      BY <1>7 DEF Offer, chainVars
    <2> HIDE DEF h
    <2>5. \A e \in seen' : e \in seen \/ (Decoded(e[1], e[2]) /\ e[2] <= tip[e[1]])
      BY <2>2, <2>3
    <2> QED
      BY <1>3, <2>2, <2>4, <2>5
  <1>8. CASE RunSource \/ (\E p \in Pool : AddPool(p))
    BY <1>1, <1>8 DEF RunSource, AddPool, Insert, chainVars, pollVars, queueVars
  <1>9. CASE \/ ProcessorStep \/ Stop \/ StopReturns \/ DropHandle
             \/ (\E p \in Pool : FetchPool(p)) \/ UNCHANGED vars
    BY <1>1, <1>9, ConsumerQuiet DEF ProcessorStep
  <1> QED
    BY <1>2, <1>4, <1>5, <1>6, <1>7, <1>8, <1>9, PacedMeans DEF Next, HandleStep, PollerStep

(* What the collector does elsewhere leaves a contract alone: what was     *)
(* sent of it is the same if seen is, or if another contract's is added.   *)
LEMMA SentSame ==
    ASSUME NEW c, NEW e, e[1] # c, seen' = seen \/ seen' = seen \cup {e}
    PROVE  SentOf(c)' = SentOf(c)
  <1>1. \A k : <<c, k>> # e
    OBVIOUS
  <1> QED
    BY <1>1 DEF SentOf

(* Every step keeps what is said of the followed contracts: a step of the  *)
(* contract's own task or of its chain by the lemmas above, every other    *)
(* because it leaves the contract alone.                                   *)
LEMMA ContractStep ==
    ASSUME Paced, TypeOK, Kept, OneTask, TaskClean, forgotten' = {}, [Next]_vars,
           NEW c \in Contract, c \in Followed, ContractInv(c)
    PROVE  ContractInv(c)'
  <1>0. TaskTypeOK /\ tip \in [Contract -> Nat] /\ watermark \in [Contract -> Tx \cup {NoTx}]
    BY DEF TypeOK, ChainTypeOK, PolledTypeOK
  <1>1. ASSUME UNCHANGED <<snap, seen, watermark, tip>>,
               \A t \in Producer : Serves[t] = c => Untouched(t) \/ Leaves(t)
        PROVE  ContractInv(c)'
    <2>1. SentOf(c)' = SentOf(c)
      BY <1>1 DEF SentOf
    <2> QED
      BY <1>1, <2>1, ContractFrame
  <1>2. ASSUME NEW d \in Contract, Emit(d) PROVE ContractInv(c)'
    <2>1. CASE d = c
      BY <1>2, <2>1, EmitKeeps
    <2>2. CASE d # c
      <3>1. tip'[c] = tip[c] /\ UNCHANGED <<snap, seen, watermark, pc, known, page, batch, newest>>
        BY <1>0, <1>2, <2>2 DEF Emit, queueVars, pollVars
      <3>2. SentOf(c)' = SentOf(c) /\ watermark'[c] = watermark[c] /\ \A t \in Producer : Untouched(t)
        BY <3>1 DEF SentOf, Untouched
      <3> QED
        BY <3>1, <3>2, ContractFrame
    <2> QED
      BY <2>1, <2>2
  <1>3. ASSUME NEW t \in Producer, PollerStep(t), Serves[t] = c PROVE ContractInv(c)'
    <2>1. CASE StartPoll(t)
      BY <1>3, <2>1, StartKeeps
    <2>2. CASE FetchPage(t)
      BY <1>3, <2>2, FetchKeeps
    <2>3. CASE Offer(t)
      BY <1>3, <2>3, OfferKeeps
    <2>4. CASE EndPoll(t)
      BY <1>3, <2>4, EndKeeps
    <2>5. CASE FetchFails(t) \/ Wake(t) \/ PollerExit(t)
      <3>1. Leaves(t) /\ UNCHANGED <<snap, seen, watermark, tip>>
        BY <1>0, <2>5 DEF FetchFails, Wake, PollerExit, EndCycle, Leaves, queueVars, chainVars, TaskTypeOK
      <3> QED
        BY <1>1, <1>3, <3>1, OthersUntouched
    <2>6. CASE Push(t)
      <3>1. UNCHANGED <<snap, seen, watermark, tip, pc, known, page, batch, newest>>
        BY <2>6 DEF Push, Enqueue, SendFails, sourceVars, chainVars, pollVars
      <3>2. \A u \in Producer : Untouched(u)
        BY <3>1 DEF Untouched
      <3> QED
        BY <1>1, <3>1, <3>2
    <2> QED
      BY <1>3, <2>1, <2>2, <2>3, <2>4, <2>5, <2>6 DEF PollerStep
  <1>4. ASSUME NEW t \in Producer, PollerStep(t), Serves[t] # c PROVE ContractInv(c)'
    <2>1. \A u \in Producer : Serves[u] = c => Untouched(u)
      BY <1>4, OthersUntouched
    <2>2. UNCHANGED <<tip, snap>> /\ watermark'[c] = watermark[c]
      BY <1>0, <1>4 DEF PollerStep, Wake, StartPoll, FetchPage, FetchFails, Offer, Push, EndPoll, PollerExit,
                        sourceVars, chainVars
    <2>3. SentOf(c)' = SentOf(c)
      <3>1. CASE seen' = seen
        BY <3>1 DEF SentOf
      <3>2. CASE Offer(t)
        <4> DEFINE d == Serves[t]
                   h == Head(batch[t])
        <4>1. d = Serves[t] /\ h = Head(batch[t])
          OBVIOUS
        <4> HIDE DEF d, h
        <4>2. seen' = IF Decoded(d, h) THEN seen \cup {<<d, h>>} ELSE seen
          BY <3>2, <4>1, OfferMoves
        <4>3. <<d, h>>[1] # c
          BY <1>4, <4>1
        <4> QED
          BY <4>2, <4>3, SentSame
      <3>3. CASE ~Offer(t)
        BY <1>4, <3>1, <3>3 DEF PollerStep, Wake, StartPoll, FetchPage, FetchFails, Push, EndPoll, PollerExit,
                                Enqueue, SendFails, queueVars
      <3> QED
        BY <3>2, <3>3
    <2> QED
      BY <2>1, <2>2, <2>3, ContractFrame
  <1>5. ASSUME NEW new, NEW cs, NEW count, Started(new, cs, count),
               UNCHANGED <<queueVars, chainVars, watermark, pollVars>>
        PROVE  ContractInv(c)'
    <2>1. \A t \in Producer : pc'[t] = pc[t] \/ (pc[t] = "off" /\ pc'[t] = "idle")
      BY <1>5 DEF Started
    <2>2. \A t \in Producer : Untouched(t) \/ Leaves(t)
      BY <1>5, <2>1 DEF Untouched, Leaves, pollVars
    <2> QED
      BY <1>1, <1>5, <2>2 DEF queueVars, chainVars
  <1>6. CASE RunSource
    <2> DEFINE one == [d \in Contract |-> 1]
    <2>1. Spawn(topics, one) /\ UNCHANGED <<queueVars, chainVars, watermark, pollVars>>
      BY <1>6 DEF RunSource
    <2> HIDE DEF one
    <2>2. \E new : Started(new, topics, one)
      BY <2>1, SpawnMoves DEF TypeOK, ConsumerTypeOK
    <2> QED
      BY <1>5, <2>1, <2>2
  <1>7. ASSUME NEW p \in Pool, AddPool(p) PROVE ContractInv(c)'
    <2>1. /\ Spawn(TopicsOf(p) \ polled, TopicCount[p])
          /\ UNCHANGED <<queueVars, chainVars, watermark, pollVars>>
      BY <1>7 DEF AddPool, Insert
    <2>2. TopicsOf(p) \ polled \in SUBSET Contract
      BY TopicsType
    <2>3. \E new : Started(new, TopicsOf(p) \ polled, TopicCount[p])
      BY <2>1, <2>2, SpawnMoves
    <2> QED
      BY <1>5, <2>1, <2>3
  <1>8. CASE \/ ProcessorStep \/ Stop \/ StopReturns \/ DropHandle
             \/ (\E p \in Pool : FetchPool(p)) \/ UNCHANGED vars
    <2>1. UNCHANGED <<snap, seen, watermark, tip, pc, known, page, batch, newest>>
      BY <1>8, ConsumerQuiet DEF ProcessorStep
    <2>2. \A t \in Producer : Untouched(t)
      BY <2>1 DEF Untouched
    <2> QED
      BY <1>1, <2>1, <2>2
  <1> QED
    BY <1>2, <1>3, <1>4, <1>6, <1>7, <1>8, PacedMeans DEF Next, HandleStep

(* What a task marks is later than all that was sent of its contract, and  *)
(* no other task is pushing an event of it.                                *)
LEMMA MarkedIsLatest ==
    ASSUME TypeOK, OneTask, TaskClean, NEW t \in Producer, Offer(t),
           NEW c \in Contract, c = Serves[t], NEW h \in Nat, h = Head(batch[t]),
           h = batch[t][1], 1 \in DOMAIN batch[t], Decoded(c, h), <<c, h>> \notin seen,
           c \in Followed, ContractInv(c)
    PROVE  /\ \A f \in seen : f[1] = c => f[2] < h
           /\ \A q \in Producer : sending[q] # Idle => sending[q][1] # c
  <1>1. pc[t] = "send" /\ sending[t] = Idle /\ batch[t] # <<>>
    BY DEF Offer
  <1>2. PICK n \in Nat, lo \in Nat : SendOK(c, batch[t], SentOf(c), lo, n)
    BY <1>1 DEF ContractInv, SendInv
  <1>3. h \notin SentOf(c)
    BY DEF SentOf
  <1>4. \A k \in SentOf(c) : k < h
    BY <1>2, <1>3 DEF SendOK
  <1>5. ASSUME NEW f \in seen, f[1] = c PROVE f[2] < h
    <2>1. f \in Event
      BY DEF TypeOK, QueueTypeOK
    <2>2. f = <<c, f[2]>> /\ f[2] \in Positions(c)
      BY <1>5, <2>1, EventPair, EventParts
    <2>3. f[2] \in SentOf(c)
      BY <2>2 DEF SentOf
    <2> QED
      BY <1>4, <2>3
  <1>6. ASSUME NEW q \in Producer, sending[q] # Idle, sending[q][1] = c PROVE FALSE
    <2>1. pc[q] = "send" /\ Serves[q] = c
      BY <1>6 DEF TaskClean
    <2>2. q = t
      BY <1>1, <2>1 DEF OneTask
    <2> QED
      BY <1>1, <1>6, <2>2
  <1> QED
    BY <1>5, <1>6

(* Queue and pushes under way stay in order.                               *)
LEMMA PollDeliveryStep ==
    ASSUME Paced, TypeOK, OneTask, TaskClean, DeliveryInv, forgotten' = {}, [Next]_vars,
           \A c \in Followed : ContractInv(c)
    PROVE  DeliveryInv'
  <1>0. QueueTypeOK /\ ConsumerTypeOK
    BY DEF TypeOK
  <1>1. ASSUME UNCHANGED <<queueVars, applied>> PROVE DeliveryInv'
    BY <1>1, DeliveryRest
  <1>2. ASSUME NEW t \in Producer, Offer(t) PROVE DeliveryInv'
    <2> DEFINE c == Serves[t]
               h == Head(batch[t])
    <2>1. c = Serves[t] /\ h = Head(batch[t])
      OBVIOUS
    <2> HIDE DEF c, h
    <2>2. /\ c \in Contract /\ h \in Positions(c) /\ h \in Nat /\ h = batch[t][1] /\ 1 \in DOMAIN batch[t]
          /\ sending[t] = Idle
          /\ \/ UNCHANGED queueVars
             \/ /\ Decoded(c, h) /\ <<c, h>> \notin seen /\ seen' = seen \cup {<<c, h>>}
                /\ sending' = [sending EXCEPT ![t] = <<c, h>>]
                /\ UNCHANGED <<queue, closed, delivered>>
      BY <1>2, <2>1, OfferMoves
    <2>3. applied' = applied
      BY <1>2 DEF Offer, consumerVars
    <2>4. CASE UNCHANGED queueVars
      BY <1>1, <2>3, <2>4
    <2>5. CASE Decoded(c, h) /\ <<c, h>> \notin seen /\ seen' = seen \cup {<<c, h>>}
               /\ sending' = [sending EXCEPT ![t] = <<c, h>>] /\ UNCHANGED <<queue, closed, delivered>>
      <3> DEFINE e == <<c, h>>
      <3>1. e \in Event /\ e[1] = c /\ e[2] = h
        BY <2>2, EventType
      <3>2. c \in Followed => /\ \A f \in seen : f[1] = c => f[2] < h
                              /\ \A q \in Producer : sending[q] # Idle => sending[q][1] # c
        BY <1>2, <2>1, <2>2, <2>5, MarkedIsLatest
      <3>3. seen' = seen \cup {e} /\ sending' = [sending EXCEPT ![t] = e]
        BY <2>5
      <3> HIDE DEF e
      <3>4. UNCHANGED <<queue, delivered, applied>>
        BY <2>3, <2>5
      <3>5. e[1] \in Followed => /\ \A f \in seen : f[1] = e[1] => f[2] < e[2]
                                 /\ \A q \in Producer : sending[q] # Idle => sending[q][1] # e[1]
        BY <3>1, <3>2
      <3> QED
        BY <1>0, <2>2, <3>1, <3>3, <3>4, <3>5, DeliveryMark
    <2> QED
      BY <2>2, <2>4, <2>5
  <1>3. ASSUME NEW t \in Producer, Push(t) PROVE DeliveryInv'
    BY <1>0, <1>3, DeliveryPush DEF Push
  <1>4. CASE ReceiveEvent
    BY <1>0, <1>4, DeliveryConsume DEF ReceiveEvent
  <1>5. CASE ProcessorExit
    BY <1>5, DeliveryRest DEF ProcessorExit
  <1>6. ASSUME NEW t \in Producer,
               Wake(t) \/ StartPoll(t) \/ FetchPage(t) \/ FetchFails(t) \/ EndPoll(t) \/ PollerExit(t)
        PROVE  DeliveryInv'
    BY <1>1, <1>6 DEF Wake, StartPoll, FetchPage, FetchFails, EndPoll, PollerExit, consumerVars
  <1>7. ASSUME NEW p \in Pool, FetchPool(p) \/ AddPool(p) PROVE DeliveryInv'
    BY <1>1, <1>7 DEF FetchPool, AddPool, Fetch, Insert
  <1>8. CASE \/ RunSource \/ Stop \/ StopReturns \/ DropHandle
             \/ (\E c \in Contract : Emit(c)) \/ UNCHANGED vars
    BY <1>1, <1>8 DEF RunSource, Stop, StopReturns, DropHandle, SetStop, Joined, Drop, Emit, vars,
                      consumerVars
  <1> QED
    BY <1>2, <1>3, <1>4, <1>5, <1>6, <1>7, <1>8, PacedMeans DEF Next, PollerStep, ProcessorStep, HandleStep

-----------------------------------------------------------------------------
(* At the start the watermark stands for the snapshot, and nothing older   *)
(* is asked for ...                                                        *)
LEMMA ContractStart ==
    ASSUME Init, NEW c \in Contract
    PROVE  ContractInv(c)
  <1>1. /\ watermark[c] \in Seeds(c) /\ IsChain(snap) /\ IsChain(tip)
        /\ snap[c] \in Nat /\ tip[c] \in Nat
        /\ snap[c] <= tip[c] /\ tip[c] <= snap[c] + MaxBacklog
        /\ seen = {} /\ \A t \in Producer : pc[t] = "off"
    BY HeightsAreNat DEF Init, ConsumerInit, QueueInit
  <1>2. TxBoundary(c, snap[c]) /\ TxBoundary(c, tip[c])
    BY <1>1 DEF IsChain
  <1>3. watermark[c] # NoTx => IsMark(c, snap[c], watermark[c])
    BY <1>1, <1>2 DEF Seeds, IsMark
  <1>4. Reached(c) = snap[c]
    <2>1. CASE watermark[c] = NoTx
      BY <2>1 DEF Reached, Marked
    <2>2. CASE watermark[c] # NoTx
      BY <1>3, <2>2, MarkedAt DEF Reached
    <2> QED
      BY <2>1, <2>2
  <1>5. MarksInv(c)
    BY <1>1, <1>2, <1>3, <1>4 DEF MarksInv
  <1>6. AtRest(c)
    <2>1. SentOf(c) = {}
      BY <1>1 DEF SentOf
    <2>2. Settled(c, {}, snap[c])
      BY DEF Settled
    <2> QED
      BY <1>4, <2>1, <2>2 DEF AtRest
  <1>7. \A t \in Producer : FetchInv(t) /\ SendInv(t)
    BY <1>1 DEF FetchInv, SendInv
  <1> QED
    BY <1>5, <1>6, <1>7 DEF ContractInv, RestInv

(* ... and no task runs.                                                   *)
LEMMA PollOrderInit == Init => PollOrderInv
  <1> SUFFICES ASSUME Init PROVE PollOrderInv
    OBVIOUS
  <1>1. /\ seen = {} /\ \A t \in Producer : sending[t] = Idle
        /\ topics = UNION {TopicsOf(p) : p \in InitialPools} /\ polled = topics
        /\ pools = [p \in Pool |-> IF p \in InitialPools THEN "live" ELSE "outside"]
        /\ \A t \in Producer : pc[t] = "off" /\ page[t] = 0 /\ batch[t] = <<>> /\ newest[t] = NoTx
    BY DEF Init, ConsumerInit, QueueInit, NoPoll
  <1>2. CollectorInv /\ NothingLost
    BY <1>1, InvInit DEF NothingLost
  <1>3. Kept
    BY <1>1, FollowedIsTopic, ConsumerAssumption DEF Kept, Live
  <1>4. OneTask /\ TaskClean
    BY <1>1 DEF OneTask, TaskClean
  <1>5. OnChain
    <2>1. \A t \in Producer : <<>> \in Seq(1 .. tip[Serves[t]])
      OBVIOUS
    <2> QED
      BY <1>1, <2>1 DEF OnChain
  <1>6. \A c \in Followed : ContractInv(c)
    BY ContractStart, FollowedIsTopic
  <1>7. DeliveryInv
    BY DeliveryInit DEF Init
  <1> QED
    BY <1>2, <1>3, <1>4, <1>5, <1>6, <1>7 DEF PollOrderInv

(* Every step that makes the dedup set forget nothing keeps the order.     *)
LEMMA PollOrderStep ==
    ASSUME Paced, PollOrderInv, forgotten' = {}, [Next]_vars
    PROVE  PollOrderInv'
  <1>0. /\ CollectorInv /\ TypeOK /\ QueueShape /\ NothingLost
        /\ Kept /\ OneTask /\ TaskClean /\ OnChain /\ DeliveryInv
        /\ \A c \in Followed : c \in Contract /\ ContractInv(c)
    BY FollowedIsTopic DEF PollOrderInv, CollectorInv
  <1>1. NothingLost'
    BY <1>0, QueueStep, LossStep DEF LossInv
  <1>2. CollectorInv'
    BY <1>0, InvStep
  <1>3. Kept' /\ OneTask' /\ TaskClean' /\ OnChain'
    BY <1>0, KeptStep, OneTaskStep, TaskCleanStep, OnChainStep
  <1>4. \A c \in Followed : ContractInv(c)'
    BY <1>0, ContractStep
  <1>5. DeliveryInv'
    BY <1>0, PollDeliveryStep
  <1>6. (\A c \in Followed : ContractInv(c))'
    BY <1>4 DEF Followed
  <1> QED
    BY <1>1, <1>2, <1>3, <1>5, <1>6 DEF PollOrderInv

-----------------------------------------------------------------------------
(* The pollers implement the promise: their snapshots are consistent ...   *)
LEMMA PollPromiseInit ==
    ASSUME Init
    PROVE  Promise!MirrorInit
  <1>1. /\ tip \in [Contract -> Promise!Heights] /\ snap \in [Contract -> Promise!Heights]
        /\ \A c \in Contract : snap[c] <= tip[c] /\ tip[c] <= Len(History[c])
    BY DEF Init, IsChain, Heights, Promise!Heights
  <1>2. mirror \in [Cell -> Heights] /\ applied = [c \in Contract |-> 0]
    BY DEF Init, ConsumerInit, Snapshots
  <1>3. \A x \in Mirrored : IsValueAt(x, snap[Stream[x]], mirror[x])
    <2>1. \A x \in Mirrored : x \in Cell /\ Owner[x] \in InitialPools
      BY ConsumerAssumption
    <2> QED
      BY <2>1 DEF Init, ConsumerInit, Snapshots
  <1>4. InitialMirror \in [Cell -> Promise!Heights]
    <2>1. \A x \in Cell : 0 \in Heights
      BY ChainAssumption, Lengths DEF Heights
    <2> QED
      BY <1>2, <2>1 DEF InitialMirror, Heights, Promise!Heights
  <1>5. \A x \in Mirrored : Promise!IsValueAt(x, snap[Stream[x]], InitialMirror[x])
    <2>1. \A x \in Mirrored : InitialMirror[x] = mirror[x]
      BY ChainAssumption DEF InitialMirror
    <2> QED
      BY <1>3, <2>1
         DEF IsValueAt, Promise!IsValueAt, Writes, Promise!Writes, Positions, Promise!Positions
  <1> QED
    BY <1>1, <1>2, <1>4, <1>5 DEF Promise!MirrorInit

(* ... what was sent leaves out only events of the snapshot ...            *)
LEMMA PollLeavesNoGap ==
    ASSUME PollOrderInv
    PROVE  NoGap(snap)
  <1>0. /\ \A e \in seen : e \in Event
        /\ \A c \in Followed : c \in Contract /\ MarksInv(c) /\ RestInv(c)
        /\ \A t \in Producer : Serves[t] \in Followed => SendInv(t)
    BY FollowedIsTopic DEF PollOrderInv, CollectorInv, TypeOK, QueueTypeOK, ContractInv
  <1>1. ASSUME NEW c \in Followed, NEW k \in SentOf(c)
        PROVE  \A j \in Positions(c) : j < k /\ Decoded(c, j) =>
                  j \in SentOf(c) \/ (j <= snap[c] /\ \A m \in SentOf(c) : j < m)
    <2>1. CASE AtRest(c)
      <3>1. k \in Nat /\ k <= Reached(c) /\ Reached(c) \in Nat /\ \A j \in Positions(c) : j \in Nat
        BY <1>0, <1>1, <2>1, SentType, Lengths DEF AtRest, MarksInv
      <3>2. \A j \in Positions(c) : j < k => j <= Reached(c)
        BY <3>1
      <3> QED
        BY <2>1, <3>2 DEF AtRest, Settled
    <2>2. ASSUME NEW t \in Producer, Serves[t] = c, pc[t] = "send", newest[t] # NoTx
          PROVE  \A j \in Positions(c) : j < k /\ Decoded(c, j) =>
                    j \in SentOf(c) \/ (j <= snap[c] /\ \A m \in SentOf(c) : j < m)
      <3>1. PICK n \in Nat, lo \in Nat :
               (\A m \in SentOf(c) : m <= n) /\ SendOK(c, batch[t], SentOf(c), lo, n)
        BY <1>0, <1>1, <2>2 DEF SendInv
      <3>2. c \in Contract /\ SentOf(c) \in SUBSET Nat
        BY <1>0, SentType
      <3> QED
        BY <1>1, <3>1, <3>2, SendNoGap
    <2> QED
      BY <1>0, <2>1, <2>2 DEF RestInv
  <1> SUFFICES ASSUME NEW e \in seen, e[1] \in Followed,
                      NEW j \in Positions(e[1]), j < e[2], Decoded(e[1], j)
               PROVE  \/ <<e[1], j>> \in seen
                      \/ j <= snap[e[1]] /\ \A f \in seen : f[1] = e[1] => j < f[2]
    BY DEF NoGap
  <1>2. \A f \in seen : f[1] = e[1] => f[2] \in SentOf(e[1])
    <2> SUFFICES ASSUME NEW f \in seen, f[1] = e[1] PROVE f[2] \in SentOf(e[1])
      OBVIOUS
    <2>1. f = <<f[1], f[2]>> /\ f[2] \in Positions(f[1])
      BY <1>0, EventPair, EventParts
    <2> QED
      BY <2>1 DEF SentOf
  <1>3. j \in SentOf(e[1]) \/ (j <= snap[e[1]] /\ \A m \in SentOf(e[1]) : j < m)
    BY <1>1, <1>2
  <1> QED
    BY <1>2, <1>3 DEF SentOf

(* ... and every step is one of the promise's: new events, a dispatch in   *)
(* order, or nothing it speaks of.                                         *)
LEMMA PollPromiseStep ==
    ASSUME Paced, PollOrderInv, [Next]_vars
    PROVE  [Promise!MirrorNext]_(Promise!mirrorVars)
  <1>0. /\ QueueTypeOK /\ ConsumerTypeOK /\ ChainTypeOK /\ Kept /\ NothingLost /\ DeliveryInv /\ OnChain
    BY DEF PollOrderInv, CollectorInv, TypeOK
  <1>1. ASSUME UNCHANGED <<chainVars, applied, InitialMirror>>
        PROVE  UNCHANGED Promise!mirrorVars
    BY <1>1 DEF Promise!mirrorVars, chainVars
  <1>2. ASSUME UNCHANGED <<chainVars, applied, mirror>>
        PROVE  UNCHANGED Promise!mirrorVars
    BY <1>1, <1>2 DEF InitialMirror
  <1>3. ASSUME NEW c \in Contract, Emit(c) PROVE Promise!Grow
    <2>1. PICK n \in tip[c] + 1 .. Len(History[c]) : tip' = [tip EXCEPT ![c] = n]
      BY <1>3 DEF Emit
    <2>2. UNCHANGED <<snap, applied, mirror>>
      BY <1>3 DEF Emit, consumerVars
    <2>3. n \in Nat /\ tip[c] <= n /\ n <= Len(History[c]) /\ Len(History[c]) \in Nat
      BY <1>0, <2>1, Lengths DEF ChainTypeOK
    <2>4. \A d \in Contract : /\ tip[d] <= tip'[d] /\ tip'[d] <= Len(History[d])
                              /\ tip'[d] \in 0 .. Len(History[d])
      <3> SUFFICES ASSUME NEW d \in Contract
                   PROVE  /\ tip[d] <= tip'[d] /\ tip'[d] <= Len(History[d])
                          /\ tip'[d] \in 0 .. Len(History[d])
        OBVIOUS
      <3>1. tip'[d] = IF d = c THEN n ELSE tip[d]
        BY <1>0, <2>1 DEF ChainTypeOK
      <3>2. tip[d] \in Nat /\ tip[d] <= Len(History[d]) /\ Len(History[d]) \in Nat
        BY <1>0, Lengths DEF ChainTypeOK
      <3> QED
        BY <2>3, <3>1, <3>2
    <2>5. tip' \in [Contract -> Promise!Heights]
      BY <1>0, <2>1, <2>4 DEF ChainTypeOK, Promise!Heights
    <2>6. InitialMirror' = InitialMirror
      BY <2>2 DEF InitialMirror
    <2> QED
      BY <2>2, <2>4, <2>5, <2>6 DEF Promise!Grow
  <1>4. CASE ReceiveEvent
    <2> DEFINE e == Head(queue)
    <2>1. Receive /\ Dispatch(e[1], e[2]) /\ UNCHANGED <<tip, snap>>
      BY <1>4 DEF ReceiveEvent, Consume, sourceVars, chainVars
    <2>2. /\ e \in Event /\ e[2] \in 1 .. tip[e[1]]
          /\ e[1] \in Followed =>
                 /\ applied[e[1]] < e[2]
                 /\ \A j \in applied[e[1]] + 1 .. e[2] - 1 :
                       Decoded(e[1], j) => applied[e[1]] = 0 /\ j <= snap[e[1]]
      <3>1. NoGap(snap)
        BY PollLeavesNoGap
      <3>2. e = Head(queue)
        OBVIOUS
      <3> HIDE DEF e
      <3>3. /\ e \in Event /\ e \in seen
            /\ e[1] \in Followed =>
                  /\ applied[e[1]] < e[2]
                  /\ \A j \in applied[e[1]] + 1 .. e[2] - 1 :
                        Decoded(e[1], j) => applied[e[1]] = 0 /\ j <= snap[e[1]]
        BY <1>0, <2>1, <3>1, <3>2, NextInOrder
      <3>4. e[2] \in 1 .. tip[e[1]]
        <4>1. e[2] <= tip[e[1]] /\ e[2] \in Nat \ {0} /\ tip[e[1]] \in Nat
          BY <1>0, <3>3, EventPair, EventParts DEF OnChain, ChainTypeOK
        <4> QED
          BY <4>1
      <3> QED
        BY <3>3, <3>4
    <2>3. InitialMirror' = [x \in Cell |-> IF x \in Mirrored /\ Writes(e[1], e[2], x)
                                           THEN e[2] ELSE InitialMirror[x]]
      BY <1>0, <2>1, DispatchWrites DEF Kept
    <2>4. applied' = [applied EXCEPT ![e[1]] = e[2]]
      BY <2>1 DEF Dispatch
    <2>5. e[1] \in Contract /\ e[2] \in Promise!Positions(e[1])
      BY <2>2, EventParts DEF Positions, Promise!Positions
    <2> HIDE DEF e
    <2>6. Promise!Apply(e[1], e[2])
      BY <2>1, <2>2, <2>3, <2>4
         DEF Promise!Apply, Followed, Promise!Followed, Decoded, Promise!Decoded, Writes, Promise!Writes,
             Positions, Promise!Positions
    <2> QED
      BY <2>5, <2>6 DEF Promise!MirrorNext
  <1>5. ASSUME NEW p \in Pool, FetchPool(p) \/ AddPool(p) PROVE UNCHANGED Promise!mirrorVars
    <2>1. UNCHANGED <<chainVars, applied>>
      BY <1>5 DEF FetchPool, AddPool, Fetch, Insert, sourceVars
    <2>2. CASE AddPool(p)
      BY <1>2, <2>1, <2>2 DEF AddPool, Insert
    <2>3. CASE FetchPool(p)
      <3>1. InitialMirror' = InitialMirror
        BY <1>0, <2>3, FetchSpares DEF FetchPool, Kept
      <3> QED
        BY <1>1, <2>1, <3>1
    <2> QED
      BY <1>5, <2>2, <2>3
  <1>6. ASSUME NEW t \in Producer, PollerStep(t) PROVE UNCHANGED Promise!mirrorVars
    BY <1>2, <1>6 DEF PollerStep, Wake, StartPoll, FetchPage, FetchFails, Offer, Push, EndPoll, PollerExit,
                      consumerVars, sourceVars
  <1>7. CASE RunSource \/ ProcessorExit \/ Stop \/ StopReturns \/ DropHandle \/ UNCHANGED vars
    BY <1>2, <1>7 DEF RunSource, ProcessorExit, Stop, StopReturns, DropHandle, Finish, SetStop, Joined, Drop,
                      vars, consumerVars, sourceVars
  <1> QED
    BY <1>3, <1>4, <1>5, <1>6, <1>7, PacedMeans DEF Next, ProcessorStep, HandleStep, Promise!MirrorNext

(* The pollers deliver in order: through failed requests, events that come *)
(* between two requests, pools added with several pollers for a contract,  *)
(* a stop or a dropped handle, the events of each contract of the initial  *)
(* pools reach the mirror in chain order, none twice and none after the    *)
(* snapshot skipped, as long as the chain stays within the limits of the   *)
(* configuration and the dedup set forgets nothing (event_poller.rs:       *)
(* 83-161).                                                                *)
THEOREM CollectorDelivers ==
    ASSUME Paced
    PROVE  Spec /\ [](forgotten = {}) => OrderedDelivery
  <1>1. Init => PollOrderInv /\ Promise!MirrorInit
    BY PollOrderInit, PollPromiseInit
  <1>2. PollOrderInv /\ [Next]_vars /\ (forgotten = {})' => PollOrderInv'
    BY PollOrderStep
  <1>3. PollOrderInv /\ [Next]_vars => [Promise!MirrorNext]_(Promise!mirrorVars)
    BY PollPromiseStep
  <1> QED
    BY <1>1, <1>2, <1>3, PTL DEF Spec, OrderedDelivery, Promise!MirrorSpec

-----------------------------------------------------------------------------
(* OrderedMirror's own facts, of the collector's mirror.                   *)
Facts == INSTANCE OrderedMirror_proofs WITH mirror <- InitialMirror

(* They speak of the same specification.                                   *)
LEMMA SamePromise ==
    /\ Promise!MirrorInit <=> Facts!MirrorInit
    /\ [Promise!MirrorNext]_(Promise!mirrorVars) => [Facts!MirrorNext]_(Facts!mirrorVars)
    /\ Promise!PrefixConsistent <=> Facts!PrefixConsistent
    /\ Promise!ReplayConsistent <=> Facts!ReplayConsistent
  <1>1. Promise!MirrorInit <=> Facts!MirrorInit
    BY DEF Promise!MirrorInit, Facts!MirrorInit, Promise!Heights, Facts!Heights,
           Promise!IsValueAt, Facts!IsValueAt, Promise!Writes, Facts!Writes,
           Promise!Positions, Facts!Positions
  <1>2. UNCHANGED Promise!mirrorVars => UNCHANGED Facts!mirrorVars
    BY DEF Promise!mirrorVars, Facts!mirrorVars
  <1>3. Promise!Grow => Facts!Grow
    BY DEF Promise!Grow, Facts!Grow, Promise!Heights, Facts!Heights
  <1>4. \A c, i : Promise!Apply(c, i) => Facts!Apply(c, i)
    BY DEF Promise!Apply, Facts!Apply, Promise!Followed, Facts!Followed, Promise!Decoded, Facts!Decoded,
           Promise!Writes, Facts!Writes, Promise!Positions, Facts!Positions
  <1>5. Promise!PrefixConsistent <=> Facts!PrefixConsistent
    BY DEF Promise!PrefixConsistent, Facts!PrefixConsistent, Promise!IsValueAt, Facts!IsValueAt,
           Promise!Writes, Facts!Writes, Promise!Positions, Facts!Positions
  <1>6. Promise!ReplayConsistent <=> Facts!ReplayConsistent
    BY DEF Promise!ReplayConsistent, Facts!ReplayConsistent, Promise!IsValueAt, Facts!IsValueAt,
           Promise!Writes, Facts!Writes, Promise!Positions, Facts!Positions
  <1> QED
    BY <1>1, <1>2, <1>3, <1>4, <1>5, <1>6
       DEF Promise!MirrorNext, Facts!MirrorNext, Promise!Positions, Facts!Positions

(* So the collector's mirror has their invariant.                          *)
MirrorInv == Facts!MirrorTypeOK /\ Facts!Consistent

LEMMA PollMirrorInv ==
    ASSUME Paced
    PROVE  Spec /\ [](forgotten = {}) => []MirrorInv
  <1>1. Init => PollOrderInv /\ MirrorInv
    BY PollOrderInit, PollPromiseInit, SamePromise, Facts!TypesHold, Facts!ConsistentInit, ChainAssumption
       DEF MirrorInv
  <1>2. PollOrderInv /\ MirrorInv /\ [Next]_vars /\ (forgotten = {})' => PollOrderInv' /\ MirrorInv'
    <2> SUFFICES ASSUME PollOrderInv, MirrorInv, [Next]_vars, (forgotten = {})'
                 PROVE  PollOrderInv' /\ MirrorInv'
      OBVIOUS
    <2>1. PollOrderInv'
      BY PollOrderStep
    <2>2. [Facts!MirrorNext]_(Facts!mirrorVars)
      BY PollPromiseStep, SamePromise
    <2>3. MirrorInv'
      BY <2>2, Facts!TypesStep, Facts!ConsistentStep, ChainAssumption DEF MirrorInv
    <2> QED
      BY <2>1, <2>3
  <1> QED
    BY <1>1, <1>2, PTL DEF Spec

(* A mirror never mixes: once the events of the snapshot are behind it,    *)
(* each cell of the initial pools has the value the chain had after the    *)
(* last event of its contract that was dispatched.                         *)
THEOREM CollectorPrefixConsistent ==
    ASSUME Paced
    PROVE  Spec /\ [](forgotten = {}) => []PrefixConsistent
  <1>1. MirrorInv => PrefixConsistent
    BY SamePromise DEF MirrorInv, Facts!Consistent, PrefixConsistent
  <1> QED
    BY <1>1, PollMirrorInv, PTL

(* While a cold start replays events of the snapshot, each cell has its    *)
(* snapshot value or the one the replay has come to.                       *)
THEOREM CollectorReplayConsistent ==
    ASSUME Paced
    PROVE  Spec /\ [](forgotten = {}) => []ReplayConsistent
  <1>1. MirrorInv => ReplayConsistent
    BY SamePromise DEF MirrorInv, Facts!Consistent, ReplayConsistent
  <1> QED
    BY <1>1, PollMirrorInv, PTL
=============================================================================
