------------------------- MODULE BlockWalker_proofs -------------------------
(***************************************************************************)
(* Proofs about BlockWalker for every chain, every set of pools and every  *)
(* configuration: its types, which include that a tick stays between the   *)
(* cursor and the tip, and that it uses the queue as EventQueue allows.    *)
(***************************************************************************)
EXTENDS BlockWalker, Consumer_proofs, WellFoundedInduction

(* A log position stands for an event.                                     *)
LEMMA LogType == \A k \in DOMAIN Log : Log[k] \in Event
  <1>1. Log \in Seq(Event)
    BY WalkerAssumption
  <1> QED
    BY <1>1, ElementOfSeq

-----------------------------------------------------------------------------
(* The steps of the processor and of the handle are Consumer's, and leave  *)
(* the tick alone.                                                         *)
LEMMA ConsumerSteps == ProcessorStep \/ HandleStep => ConsumerStep(Upto(height))
  <1>1. ASSUME NEW p \in Pool, FetchPool(p) \/ AddPool(p) \/ RemovePool(p)
        PROVE  Fetch(p, Upto(height)) \/ Insert(p) \/ Withdraw(p)
    BY <1>1 DEF FetchPool, AddPool, RemovePool
  <1>2. CASE Stop \/ StopReturns \/ Restart
    BY <1>2 DEF Stop, StopReturns, Restart, ConsumerStep
  <1>3. CASE ProcessorStep
    BY <1>3 DEF ProcessorStep, ReceiveEvent, ProcessorExit, ConsumerStep
  <1> QED
    BY <1>1, <1>2, <1>3 DEF HandleStep, ConsumerStep

(* For the queue, every step is a step of EventQueue or none.              *)
LEMMA QueueStep == TypeOK /\ [Next]_vars => [QueueNext]_queueVars
  <1> SUFFICES ASSUME TypeOK, [Next]_vars PROVE [QueueNext]_queueVars
    OBVIOUS
  <1>0. Walker \in Producer
    BY WalkerAssumption
  <1>1. CASE Offer
    <2>1. PICK k \in batch : MarkSeen(Walker, Log[k]) \/ UNCHANGED queueVars
      BY <1>1 DEF Offer
    <2>2. Log[k] \in Event
      BY LogType DEF TypeOK, WalkTypeOK
    <2> QED
      BY <1>0, <2>1, <2>2 DEF QueueNext
  <1>2. CASE Push
    BY <1>0, <1>2 DEF Push, QueueNext
  <1>3. CASE \/ Wake \/ StartWalk \/ SnapToTip \/ NothingNew \/ TipFails
             \/ FetchBlock \/ BlockFails \/ NextBlock \/ EndTick \/ WalkerExit
    BY <1>3 DEF Wake, StartWalk, SnapToTip, NothingNew, TipFails, FetchBlock, BlockFails, NextBlock,
                EndTick, WalkerExit
  <1>4. CASE ProcessorStep \/ HandleStep
    BY <1>4, ConsumerSteps, ConsumerQueue
  <1>5. CASE Mine
    BY <1>5 DEF Mine
  <1>6. CASE UNCHANGED vars
    BY <1>6 DEF vars
  <1> QED
    BY <1>1, <1>2, <1>3, <1>4, <1>5, <1>6 DEF Next, WalkerStep

(* Every step keeps the types of the consuming side.                       *)
LEMMA ConsumerKeepsTypes == TypeOK /\ [Next]_vars => ConsumerTypeOK'
  <1> SUFFICES ASSUME TypeOK, [Next]_vars PROVE ConsumerTypeOK'
    OBVIOUS
  <1>1. ASSUME UNCHANGED consumerVars PROVE ConsumerTypeOK'
    BY <1>1 DEF TypeOK, ConsumerTypeOK, consumerVars
  <1>2. CASE ProcessorStep \/ HandleStep
    BY <1>2, ConsumerSteps, ConsumerTypes DEF TypeOK
  <1>3. CASE WalkerStep
    BY <1>1, <1>3
       DEF WalkerStep, Wake, StartWalk, SnapToTip, NothingNew, TipFails, FetchBlock, BlockFails,
           Offer, Push, NextBlock, EndTick, WalkerExit
  <1>4. CASE Mine
    BY <1>1, <1>4 DEF Mine
  <1>5. CASE UNCHANGED vars
    BY <1>1, <1>5 DEF vars
  <1> QED
    BY <1>2, <1>3, <1>4, <1>5 DEF Next

(* Every step keeps the tick within the cursor and the tip.                *)
LEMMA WalkStep == TypeOK /\ [Next]_vars => WalkTypeOK'
  <1> SUFFICES ASSUME TypeOK, [Next]_vars PROVE WalkTypeOK'
    OBVIOUS
  <1>0. WalkTypeOK
    BY DEF TypeOK
  <1>1. ASSUME UNCHANGED sourceVars PROVE WalkTypeOK'
    BY <1>0, <1>1 DEF WalkTypeOK, sourceVars, chainVars, tickVars
  <1>2. CASE StartWalk
    <2>1. cursor + MaxBlocks \in Nat /\ height \in Nat /\ cursor \in Nat
      BY <1>0, WalkerAssumption DEF WalkTypeOK
    <2>2. /\ last' \in {cursor + MaxBlocks, height}
          /\ last' <= height /\ last' <= cursor + MaxBlocks
      BY <1>2, <2>1, MinOfTwo DEF StartWalk
    <2>3. cursor + 1 <= last' /\ last' \in Nat
      BY <1>2, <2>1, <2>2, WalkerAssumption DEF StartWalk
    <2>4. topics \in SUBSET Contract
      BY DEF TypeOK, ConsumerTypeOK
    <2>5. /\ next' = cursor + 1 /\ pc' = "block" /\ registered' = topics
          /\ UNCHANGED <<height, snapHeight, cursor, batch>>
      BY <1>2 DEF StartWalk, chainVars
    <2> QED
      BY <1>0, <2>1, <2>2, <2>3, <2>4, <2>5 DEF WalkTypeOK
  <1>3. CASE SnapToTip
    BY <1>0, <1>3 DEF SnapToTip, WalkTypeOK, chainVars, tickVars
  <1>4. CASE FetchBlock
    <2>1. batch' \in SUBSET DOMAIN Log
      BY <1>4 DEF FetchBlock
    <2> QED
      BY <1>0, <1>4, <2>1 DEF FetchBlock, WalkTypeOK, chainVars
  <1>5. CASE Wake \/ NothingNew \/ TipFails \/ BlockFails \/ NextBlock \/ EndTick \/ WalkerExit
    BY <1>0, <1>5 DEF Wake, NothingNew, TipFails, BlockFails, NextBlock, EndTick, WalkerExit,
                      WalkTypeOK, chainVars
  <1>6. CASE Offer
    BY <1>0, <1>6 DEF Offer, WalkTypeOK, chainVars
  <1>7. CASE Push \/ ProcessorStep
    BY <1>1, <1>7 DEF Push, ProcessorStep, ReceiveEvent, ProcessorExit
  <1>8. ASSUME NEW p \in Pool, FetchPool(p) \/ AddPool(p) \/ RemovePool(p) PROVE WalkTypeOK'
    BY <1>1, <1>8 DEF FetchPool, AddPool, RemovePool
  <1>9. CASE Stop \/ StopReturns
    BY <1>1, <1>9 DEF Stop, StopReturns
  <1>10. CASE Restart
    BY <1>0, <1>10 DEF Restart, WalkTypeOK, chainVars
  <1>11. CASE Mine
    BY <1>0, <1>11 DEF Mine, WalkTypeOK, tickVars
  <1>12. CASE UNCHANGED vars
    BY <1>1, <1>12 DEF vars
  <1> QED
    BY <1>2, <1>3, <1>4, <1>5, <1>6, <1>7, <1>8, <1>9, <1>10, <1>11, <1>12
       DEF Next, WalkerStep, HandleStep

-----------------------------------------------------------------------------
(* EventQueue's own strengthened type invariant travels along.             *)
WalkerInv == TypeOK /\ QueueShape

(* It holds when the collector starts ...                                  *)
LEMMA InvInit == Init => WalkerInv
  <1> SUFFICES ASSUME Init PROVE WalkerInv
    OBVIOUS
  <1>1. QueueShape
    BY ShapeInit DEF Init, ConsumerInit
  <1>2. ConsumerTypeOK
    BY ConsumerStartTypes DEF Init
  <1>3. WalkTypeOK
    BY WalkerAssumption DEF Init, WalkTypeOK
  <1> QED
    BY <1>1, <1>2, <1>3 DEF WalkerInv, TypeOK, QueueShape

(* ... and every step keeps it.                                            *)
LEMMA InvStep == WalkerInv /\ [Next]_vars => WalkerInv'
  <1> SUFFICES ASSUME WalkerInv, [Next]_vars PROVE WalkerInv'
    OBVIOUS
  <1>1. TypeOK /\ QueueShape
    BY DEF WalkerInv
  <1>2. QueueShape'
    BY <1>1, QueueStep, ShapeStep
  <1>3. QueueTypeOK'
    BY <1>2 DEF QueueShape
  <1> QED
    BY <1>1, <1>2, <1>3, ConsumerKeepsTypes, WalkStep DEF WalkerInv, TypeOK

(* Types of the block walker: the cursor never passes the tip, and a tick  *)
(* under way asks for blocks between the two only.                         *)
THEOREM WalkerTypeCorrect == Spec => []TypeOK
  <1>1. WalkerInv => TypeOK
    BY DEF WalkerInv
  <1> QED
    BY <1>1, InvInit, InvStep, PTL DEF Spec

(* The walker, through failed ticks, stops and restarts, uses the queue    *)
(* only as EventQueue allows ...                                           *)
LEMMA WalkerUsesQueue == Spec => QueueSpec
  <1>1. Init => QueueInit
    BY DEF Init, ConsumerInit
  <1>2. WalkerInv /\ [Next]_vars => [QueueNext]_queueVars
    BY QueueStep DEF WalkerInv
  <1> QED
    BY <1>1, <1>2, InvInit, InvStep, PTL DEF Spec, QueueSpec

(* ... so that an event a failed tick has sent is not delivered again by   *)
(* the tick that walks its block again, unless the dedup set forgot it.    *)
THEOREM WalkerDedup == Spec => [](AtMostOnce /\ SeenBounded /\ NothingLost)
  <1> QED
    BY WalkerUsesQueue, QueueTypeCorrect, DedupCorrect, NothingLostCorrect, PTL
-----------------------------------------------------------------------------
(* The walker delivers in order.  First, facts about the chain.            *)

(* An event has a block.                                                   *)
LEMMA BlockType == \A e \in Event : HeightOf(e) \in Nat \ {0}
  <1> SUFFICES ASSUME NEW e \in Event PROVE HeightOf(e) \in Nat \ {0}
    OBVIOUS
  <1>1. TxOf(e) \in Tx
    BY EventParts, TxType DEF TxOf
  <1> QED
    BY <1>1, WalkerAssumption DEF HeightOf

(* Of two events of a contract the earlier one is in no later block.       *)
LEMMA HeightsOrdered ==
    ASSUME NEW e \in Event, NEW f \in Event, e[1] = f[1], e[2] < f[2]
    PROVE  HeightOf(e) <= HeightOf(f)
  <1>1. PICK j \in DOMAIN Log : Log[j] = e
    BY WalkerAssumption
  <1>2. PICK k \in DOMAIN Log : Log[k] = f
    BY WalkerAssumption
  <1>3. j \in Nat /\ k \in Nat /\ e[2] \in Nat /\ f[2] \in Nat
    <2>1. e[2] \in Nat /\ f[2] \in Nat
      BY EventParts
    <2>2. DOMAIN Log \subseteq Nat
      BY WalkerAssumption
    <2> QED
      BY <1>1, <1>2, <2>1, <2>2
  <1>4. j < k
    BY <1>1, <1>2, <1>3, ChainOrder
  <1> QED
    BY <1>1, <1>2, <1>4, ChainOrder

(* A set of naturals that is not empty has a least element.                *)
LEMMA Least ==
    ASSUME NEW T \in SUBSET Nat, T # {}
    PROVE  \E m \in T : \A n \in T : m <= n
  <1>1. PICK m \in T : \A n \in T : ~ (<<n, m>> \in OpToRel(<, Nat))
    BY NatLessThanWellFounded, WFMin
  <1>2. \A n \in T : ~ (n < m)
    BY <1>1 DEF OpToRel
  <1> QED
    BY <1>2

(* The events of a contract up to a block are the first Upto of them.      *)
LEMMA UptoBounds ==
    ASSUME NEW h \in Nat, NEW c \in Contract
    PROVE  /\ Upto(h)[c] \in Nat /\ Upto(h)[c] <= Len(History[c])
           /\ \A i \in Positions(c) : HeightOf(<<c, i>>) <= h <=> i <= Upto(h)[c]
  <1> DEFINE L == Len(History[c])
             S == {i \in Positions(c) : HeightOf(<<c, i>>) <= h}
  <1>1. L \in Nat /\ Positions(c) = 1 .. L
    BY Lengths
  <1>2. \E m \in 0 .. L : S = 1 .. m
    <2>1. CASE 1 .. L \subseteq S
      BY <1>1, <2>1
    <2>2. CASE ~(1 .. L \subseteq S)
      <3>1. (1 .. L) \ S # {} /\ (1 .. L) \ S \in SUBSET Nat
        BY <1>1, <2>2
      <3>2. PICK x \in (1 .. L) \ S : \A y \in (1 .. L) \ S : x <= y
        BY <3>1, Least
      <3>3. \A i \in 1 .. L : i < x => i \in S
        BY <1>1, <3>2
      <3>4. \A i \in S : i < x
        <4> SUFFICES ASSUME NEW i \in S, ~(i < x) PROVE FALSE
          OBVIOUS
        <4>1. i \in Positions(c) /\ x \in Positions(c) /\ i \in Nat /\ x \in Nat
          BY <1>1, <3>2
        <4>2. x < i
          BY <3>2, <4>1
        <4>3. <<c, x>> \in Event /\ <<c, i>> \in Event
          BY <4>1, EventType
        <4>4. HeightOf(<<c, x>>) <= HeightOf(<<c, i>>)
          BY <4>2, <4>3, HeightsOrdered
        <4>5. HeightOf(<<c, x>>) <= h
          BY <4>3, <4>4, BlockType
        <4> QED
          BY <3>2, <4>1, <4>5
      <3>5. S = 1 .. (x - 1)
        BY <1>1, <3>2, <3>3, <3>4
      <3>6. x - 1 \in 0 .. L
        BY <1>1, <3>2
      <3> QED
        BY <3>5, <3>6
    <2> QED
      BY <2>1, <2>2
  <1>3. PICK m \in 0 .. L : S = 1 .. m
    BY <1>2
  <1>4. Cardinality(S) = m
    <2>1. Cardinality(1 .. m) = IF 1 > m THEN 0 ELSE m - 1 + 1
      BY <1>1, <1>3, FS_Interval
    <2>2. Cardinality(1 .. m) = m
      BY <1>1, <1>3, <2>1
    <2> QED
      BY <1>3, <2>2
  <1>5. Upto(h)[c] = m
    BY <1>4 DEF Upto
  <1>6. \A i \in Positions(c) : i \in S <=> i <= m
    BY <1>1, <1>3
  <1>7. \A i \in Positions(c) : HeightOf(<<c, i>>) <= h <=> i \in S
    OBVIOUS
  <1> QED
    BY <1>1, <1>3, <1>5, <1>6, <1>7

(* Blocks only add events.                                                 *)
LEMMA UptoGrows ==
    ASSUME NEW g \in Nat, NEW h \in Nat, g <= h, NEW c \in Contract
    PROVE  Upto(g)[c] <= Upto(h)[c]
  <1> DEFINE n == Upto(g)[c]
  <1>1. n \in Nat /\ n <= Len(History[c]) /\ Upto(h)[c] \in Nat /\ Len(History[c]) \in Nat
    BY UptoBounds, Lengths
  <1>2. CASE n = 0
    BY <1>1, <1>2
  <1>3. CASE n # 0
    <2>1. n \in Positions(c)
      BY <1>1, <1>3, Lengths
    <2>2. HeightOf(<<c, n>>) <= g /\ HeightOf(<<c, n>>) \in Nat
      BY <1>1, <2>1, UptoBounds, EventType, BlockType
    <2>3. HeightOf(<<c, n>>) <= h
      BY <2>2
    <2> QED
      BY <2>1, <2>3, UptoBounds
  <1> QED
    BY <1>2, <1>3

(* A cell keeps its value over a stretch of events that do not write it.   *)
LEMMA ValueKept ==
    ASSUME NEW x \in Cell, NEW n \in Nat, NEW k \in Nat, NEW v \in Nat, n <= k,
           IsValueAt(x, n, v),
           \A j \in Positions(Stream[x]) : j \in n + 1 .. k => ~Writes(Stream[x], j, x)
    PROVE  IsValueAt(x, k, v)
  <1>1. v = 0 \/ (v \in 1 .. k /\ Writes(Stream[x], v, x))
    BY DEF IsValueAt
  <1>2. \A j \in Positions(Stream[x]) : j \in v + 1 .. k => j \in v + 1 .. n \/ j \in n + 1 .. k
    BY <1>1
  <1> QED
    BY <1>1, <1>2 DEF IsValueAt

-----------------------------------------------------------------------------
(* What a deployment does not do, where a contract's order or completeness *)
(* is promised: a cold start, removal, a restart; and what the nodes do    *)
(* not do: miss a block or a transaction.  Requests fail, pools are added  *)
(* and the collector is stopped at any moment.                             *)
Steady == Lifecycle \cap {"cold", "unindexed", "lose", "remove", "restart"} = {}

(* An event the consumers of the initial pools have to get.                *)
Due(e) ==
    Decoded(e[1], e[2]) /\ e[1] \in Followed /\ snapHeight < HeightOf(e)

(* The initial pools stay registered, and the cursor is past their         *)
(* snapshot.                                                               *)
Registered ==
    /\ 0 < snapHeight /\ snapHeight <= cursor
    /\ InitialPools \subseteq Live
    /\ Followed \subseteq topics
    /\ pc \in {"block", "send"} => Followed \subseteq registered

(* Only decodable events of the blocks walked are sent.                    *)
SeenInv ==
    /\ \A e \in seen : /\ Decoded(e[1], e[2])
                       /\ snapHeight < HeightOf(e) /\ HeightOf(e) <= height
    /\ pc = "send" => \A k \in batch : Decoded(Log[k][1], Log[k][2]) /\ HeightOf(Log[k]) = next

(* Every due event of a block behind the tick is sent; one of the block    *)
(* the tick is at is sent or in the batch; and none is sent before an      *)
(* earlier one of its contract.                                            *)
WalkedInv ==
    \A e \in Event : Due(e) =>
        /\ HeightOf(e) <= cursor => e \in seen
        /\ pc \in {"block", "send"} /\ HeightOf(e) < next => e \in seen
        /\ pc = "send" /\ HeightOf(e) = next => e \in seen \/ \E k \in batch : Log[k] = e

SentInOrder ==
    \A e, f \in Event : Due(e) /\ e[1] = f[1] /\ e[2] < f[2] /\ f \in seen => e \in seen

(* No push is left to a later tick.                                        *)
PushesEnd == pc # "send" => sending[Walker] = Idle

OrderInv ==
    /\ WalkerInv /\ NothingLost
    /\ Registered /\ SeenInv /\ WalkedInv /\ SentInOrder /\ DeliveryInv /\ PushesEnd

(* In such a deployment no pool leaves, no collector restarts, every block *)
(* arrives whole, and the cursor starts at the snapshot.                   *)
LEMMA SteadyMeans ==
    ASSUME Steady
    PROVE  /\ ~Restart /\ \A p \in Pool : ~RemovePool(p)
           /\ Losses = {{}}
           /\ Init => cursor = snapHeight
  <1>1. /\ "cold" \notin Lifecycle /\ "unindexed" \notin Lifecycle /\ "lose" \notin Lifecycle
        /\ "remove" \notin Lifecycle /\ "restart" \notin Lifecycle
    BY DEF Steady
  <1> QED
    BY <1>1 DEF Restart, Rebuild, RemovePool, Withdraw, Losses, Init

(* The steps of the processor and of the handle touch neither the tick nor *)
(* the dedup set.                                                          *)
LEMMA ConsumerQuiet ==
    ASSUME Steady, ProcessorStep \/ HandleStep
    PROVE  UNCHANGED <<sourceVars, seen>>
  <1>1. CASE ReceiveEvent \/ ProcessorExit
    BY <1>1 DEF ReceiveEvent, ProcessorExit, Consume, Receive, Finish, CloseReceiver
  <1>2. ASSUME NEW p \in Pool, FetchPool(p) \/ AddPool(p) PROVE UNCHANGED <<sourceVars, seen>>
    BY <1>2 DEF FetchPool, AddPool, Fetch, Insert, queueVars
  <1>3. CASE Stop \/ StopReturns
    BY <1>3 DEF Stop, StopReturns, SetStop, Joined, queueVars
  <1> QED
    BY <1>1, <1>2, <1>3, SteadyMeans DEF ProcessorStep, HandleStep

(* The walker is the only sender.                                          *)
LEMMA OneSender == \A q \in Producer : q = Walker
  BY WalkerAssumption

(* A send that evicts nothing adds its event to the set.                   *)
LEMMA OfferMoves ==
    ASSUME TypeOK, forgotten' = {}, Offer
    PROVE  \E k \in batch :
              /\ \A j \in batch : k <= j
              /\ Log[k] \in Event /\ batch' = batch \ {k}
              /\ seen' = seen \cup {Log[k]}
              /\ \/ Log[k] \in seen /\ UNCHANGED queueVars
                 \/ /\ Log[k] \notin seen
                    /\ sending[Walker] = Idle /\ sending' = [sending EXCEPT ![Walker] = Log[k]]
                    /\ UNCHANGED <<queue, closed, delivered>>
  <1>1. PICK k \in batch :
           /\ \A j \in batch : k <= j
           /\ IF Log[k] \notin seen THEN MarkSeen(Walker, Log[k]) ELSE UNCHANGED queueVars
           /\ batch' = batch \ {k}
    BY DEF Offer
  <1>2. Log[k] \in Event
    BY LogType DEF TypeOK, WalkTypeOK
  <1>3. CASE Log[k] \in seen
    BY <1>1, <1>2, <1>3 DEF queueVars
  <1>4. CASE Log[k] \notin seen
    <2>1. MarkSeen(Walker, Log[k])
      BY <1>1, <1>4
    <2>2. PICK evicted \in Evictions :
             /\ seen' = (seen \ evicted) \cup {Log[k]}
             /\ forgotten' = forgotten \cup evicted
      BY <2>1 DEF MarkSeen, Mark
    <2>3. evicted = {}
      BY <2>2
    <2> QED
      BY <1>1, <1>2, <1>4, <2>1, <2>2, <2>3 DEF MarkSeen, Mark
  <1> QED
    BY <1>3, <1>4

(* Only Offer moves the dedup set.                                         *)
LEMMA SeenMoves ==
    ASSUME Steady, TypeOK, forgotten' = {}, [Next]_vars
    PROVE  /\ seen \subseteq seen'
           /\ Offer \/ seen' = seen
  <1>1. CASE Offer
    BY <1>1, OfferMoves
  <1>2. CASE Push
    BY <1>2 DEF Push, Enqueue, SendFails
  <1>3. CASE \/ Wake \/ StartWalk \/ SnapToTip \/ NothingNew \/ TipFails
             \/ FetchBlock \/ BlockFails \/ NextBlock \/ EndTick \/ WalkerExit \/ Mine
    BY <1>3 DEF Wake, StartWalk, SnapToTip, NothingNew, TipFails, FetchBlock, BlockFails, NextBlock,
                EndTick, WalkerExit, Mine, queueVars
  <1>4. CASE ProcessorStep \/ HandleStep
    BY <1>4, ConsumerQuiet
  <1>5. CASE UNCHANGED vars
    BY <1>5 DEF vars, queueVars
  <1> QED
    BY <1>1, <1>2, <1>3, <1>4, <1>5 DEF Next, WalkerStep

-----------------------------------------------------------------------------
(* The initial pools stay registered.                                      *)
LEMMA RegisteredStep ==
    ASSUME Steady, TypeOK, Registered, [Next]_vars
    PROVE  Registered'
  <1>0. ConsumerTypeOK /\ WalkTypeOK
    BY DEF TypeOK
  <1>1. ASSUME UNCHANGED <<snapHeight, cursor, pools, topics, pc, registered>> PROVE Registered'
    BY <1>1 DEF Registered, Live
  <1>2. CASE StartWalk
    BY <1>2 DEF StartWalk, Registered, Live, consumerVars, chainVars
  <1>3. CASE SnapToTip
    <2>1. snapHeight <= height
      BY <1>0 DEF WalkTypeOK
    <2> QED
      BY <1>3, <2>1 DEF SnapToTip, Registered, Live, consumerVars, chainVars, tickVars
  <1>4. CASE Wake \/ NothingNew \/ TipFails \/ FetchBlock \/ BlockFails \/ NextBlock \/ WalkerExit
    BY <1>4 DEF Wake, NothingNew, TipFails, FetchBlock, BlockFails, NextBlock, WalkerExit,
                Registered, Live, consumerVars, chainVars
  <1>5. CASE EndTick
    <2>1. snapHeight <= last
      BY <1>0, <1>5 DEF EndTick, WalkTypeOK, Registered
    <2> QED
      BY <1>5, <2>1 DEF EndTick, Registered, Live, consumerVars, chainVars
  <1>6. CASE Offer \/ Push \/ Mine \/ UNCHANGED vars
    BY <1>1, <1>6 DEF Offer, Push, Mine, vars, consumerVars, sourceVars, chainVars, tickVars
  <1>7. CASE ReceiveEvent \/ ProcessorExit \/ Stop \/ StopReturns
    BY <1>1, <1>7 DEF ReceiveEvent, ProcessorExit, Stop, StopReturns, Consume, Finish, SetStop, Joined,
                      sourceVars, chainVars, tickVars
  <1>8. ASSUME NEW p \in Pool, FetchPool(p) \/ AddPool(p) PROVE Registered'
    <2>1. /\ UNCHANGED <<snapHeight, cursor, pc, registered>> /\ topics \subseteq topics'
          /\ pools[p] # "live" /\ \E s \in {"fetched", "live"} : pools' = [pools EXCEPT ![p] = s]
      BY <1>8 DEF FetchPool, AddPool, Fetch, Insert, sourceVars, chainVars, tickVars
    <2>2. Live \subseteq Live'
      BY <1>0, <2>1 DEF Live, ConsumerTypeOK
    <2> QED
      BY <2>1, <2>2 DEF Registered
  <1> QED
    BY <1>2, <1>3, <1>4, <1>5, <1>6, <1>7, <1>8, SteadyMeans
       DEF Next, WalkerStep, ProcessorStep, HandleStep

(* Only decodable events of the blocks walked are sent.                    *)
LEMMA SeenStep ==
    ASSUME Steady, TypeOK, Registered, SeenInv, forgotten' = {}, [Next]_vars
    PROVE  SeenInv'
  <1>0. WalkTypeOK
    BY DEF TypeOK
  <1>1. ASSUME UNCHANGED <<seen, snapHeight, height, batch, next>>, pc' = pc \/ pc' # "send" PROVE SeenInv'
    BY <1>1 DEF SeenInv
  <1>2. CASE \/ Wake \/ StartWalk \/ SnapToTip \/ NothingNew \/ TipFails
             \/ BlockFails \/ EndTick \/ WalkerExit
    <2>1. UNCHANGED <<seen, snapHeight, height>> /\ (pc' # "send" \/ UNCHANGED <<pc, batch, next>>)
      BY <1>2 DEF Wake, StartWalk, SnapToTip, NothingNew, TipFails, BlockFails, EndTick, WalkerExit,
                  queueVars, chainVars, tickVars
    <2> QED
      BY <2>1 DEF SeenInv
  <1>3. CASE NextBlock
    <2>1. UNCHANGED <<seen, snapHeight, height>> /\ pc' # "send"
      BY <1>3 DEF NextBlock, queueVars, chainVars
    <2> QED
      BY <2>1 DEF SeenInv
  <1>4. CASE FetchBlock
    <2>1. UNCHANGED <<seen, snapHeight, height, next>>
      BY <1>4 DEF FetchBlock, queueVars, chainVars
    <2>2. \A k \in batch' : Decoded(Log[k][1], Log[k][2]) /\ HeightOf(Log[k]) = next
      BY <1>4 DEF FetchBlock, Relevant
    <2> QED
      BY <2>1, <2>2 DEF SeenInv
  <1>5. CASE Offer
    <2>1. PICK k \in batch : batch' = batch \ {k} /\ seen' = seen \cup {Log[k]} /\ Log[k] \in Event
      BY <1>5, OfferMoves
    <2>2. pc = "send" /\ UNCHANGED <<snapHeight, height, next, pc>>
      BY <1>5 DEF Offer, chainVars
    <2>3. Decoded(Log[k][1], Log[k][2]) /\ HeightOf(Log[k]) = next
      BY <2>2 DEF SeenInv
    <2>4. snapHeight < next /\ next <= height
      BY <1>0, <2>2 DEF Registered, WalkTypeOK
    <2> QED
      BY <2>1, <2>2, <2>3, <2>4 DEF SeenInv
  <1>6. CASE Mine
    <2>1. UNCHANGED <<seen, snapHeight, pc, batch, next>> /\ height' = height + 1
      BY <1>6 DEF Mine, queueVars, tickVars
    <2>2. \A e \in seen : HeightOf(e) \in Nat
      BY BlockType DEF TypeOK, QueueTypeOK
    <2> QED
      BY <1>0, <2>1, <2>2 DEF SeenInv, WalkTypeOK
  <1>7. CASE Push \/ UNCHANGED vars
    BY <1>1, <1>7 DEF Push, Enqueue, SendFails, vars, queueVars, sourceVars, chainVars, tickVars
  <1>8. CASE ProcessorStep \/ HandleStep
    BY <1>1, <1>8, ConsumerQuiet DEF sourceVars, chainVars, tickVars
  <1> QED
    BY <1>2, <1>3, <1>4, <1>5, <1>6, <1>7, <1>8 DEF Next, WalkerStep

(* What is due does not change.                                            *)
LEMMA DueStays ==
    ASSUME [Next]_vars
    PROVE  snapHeight' = snapHeight /\ \A e : Due(e)' <=> Due(e)
  <1>1. snapHeight' = snapHeight
    <2>1. CASE WalkerStep
      BY <2>1 DEF WalkerStep, Wake, StartWalk, SnapToTip, NothingNew, TipFails, FetchBlock,
                  BlockFails, Offer, Push, NextBlock, EndTick, WalkerExit, sourceVars, chainVars
    <2>2. CASE Mine \/ ProcessorStep \/ Stop \/ StopReturns \/ Restart
      BY <2>2 DEF Mine, ProcessorStep, ReceiveEvent, ProcessorExit, Stop, StopReturns, Restart,
                  sourceVars, chainVars
    <2>3. ASSUME NEW p \in Pool, FetchPool(p) \/ AddPool(p) \/ RemovePool(p)
          PROVE  snapHeight' = snapHeight
      BY <2>3 DEF FetchPool, AddPool, RemovePool, sourceVars, chainVars
    <2>4. CASE UNCHANGED vars
      BY <2>4 DEF vars, sourceVars, chainVars
    <2> QED
      BY <2>1, <2>2, <2>3, <2>4 DEF Next, HandleStep
  <1> QED
    BY <1>1 DEF Due

(* Nothing due is left behind by the tick.                                 *)
LEMMA WalkedStep ==
    ASSUME Steady, TypeOK, Registered, WalkedInv, forgotten' = {}, [Next]_vars
    PROVE  WalkedInv'
  <1>0. /\ WalkTypeOK /\ seen \subseteq seen'
        /\ \A e \in Event : HeightOf(e) \in Nat \ {0}
    BY SeenMoves, BlockType DEF TypeOK
  <1> SUFFICES ASSUME NEW e \in Event, Due(e)
               PROVE  /\ HeightOf(e) <= cursor' => e \in seen'
                      /\ pc' \in {"block", "send"} /\ HeightOf(e) < next' => e \in seen'
                      /\ pc' = "send" /\ HeightOf(e) = next' =>
                            e \in seen' \/ \E k \in batch' : Log[k] = e
    BY DueStays DEF WalkedInv
  <1> DEFINE Ok == /\ HeightOf(e) <= cursor' => e \in seen'
                   /\ pc' \in {"block", "send"} /\ HeightOf(e) < next' => e \in seen'
                   /\ pc' = "send" /\ HeightOf(e) = next' =>
                         e \in seen' \/ \E k \in batch' : Log[k] = e
  <1>w. /\ HeightOf(e) <= cursor => e \in seen'
        /\ pc \in {"block", "send"} /\ HeightOf(e) < next => e \in seen'
        /\ pc = "send" /\ HeightOf(e) = next => e \in seen' \/ \E k \in batch : Log[k] = e
    BY <1>0 DEF WalkedInv
  <1>1. ASSUME UNCHANGED <<cursor, pc, next, batch>> PROVE Ok
    BY <1>w, <1>1
  <1>2. CASE StartWalk
    <2>1. cursor' = cursor /\ pc' = "block" /\ next' = cursor + 1 /\ cursor \in Nat
      BY <1>0, <1>2 DEF StartWalk, WalkTypeOK
    <2>2. HeightOf(e) < cursor + 1 => HeightOf(e) <= cursor
      BY <1>0, <2>1
    <2> QED
      BY <1>w, <2>1, <2>2
  <1>3. CASE SnapToTip
    <2>1. cursor # 0
      BY <1>0 DEF Registered, WalkTypeOK
    <2>2. topics = {}
      BY <1>3, <2>1 DEF SnapToTip
    <2> QED
      BY <2>2 DEF Registered, Due
  <1>4. CASE FetchBlock
    <2>1. /\ UNCHANGED <<cursor, next>> /\ pc = "block"
          /\ batch' = {k \in DOMAIN Log : Relevant(Log[k], {})}
      BY <1>4, SteadyMeans DEF FetchBlock
    <2>2. ASSUME HeightOf(e) = next PROVE \E k \in batch' : Log[k] = e
      <3>1. PICK k \in DOMAIN Log : Log[k] = e
        BY WalkerAssumption
      <3>2. e[1] \in registered
        BY <2>1 DEF Registered, Due
      <3> QED
        BY <2>1, <2>2, <3>1, <3>2 DEF Relevant, Due
    <2> QED
      BY <1>w, <2>1, <2>2
  <1>5. CASE Wake \/ NothingNew \/ TipFails \/ BlockFails \/ WalkerExit
    <2>1. cursor' = cursor /\ pc' \notin {"block", "send"}
      BY <1>5 DEF Wake, NothingNew, TipFails, BlockFails, WalkerExit
    <2> QED
      BY <1>w, <2>1
  <1>6. CASE Offer
    <2>1. PICK k \in batch : batch' = batch \ {k} /\ seen' = seen \cup {Log[k]}
      BY <1>6, OfferMoves
    <2>2. UNCHANGED <<cursor, pc, next>>
      BY <1>6 DEF Offer
    <2>3. (\E j \in batch : Log[j] = e) => e \in seen' \/ \E j \in batch' : Log[j] = e
      BY <2>1
    <2> QED
      BY <1>w, <2>2, <2>3
  <1>7. CASE NextBlock
    <2>1. cursor' = cursor /\ pc' = "block" /\ next' = next + 1 /\ pc = "send" /\ batch = {}
      BY <1>7 DEF NextBlock
    <2>2. HeightOf(e) < next + 1 => HeightOf(e) < next \/ HeightOf(e) = next
      BY <1>0 DEF WalkTypeOK
    <2> QED
      BY <1>w, <2>1, <2>2
  <1>8. CASE EndTick
    <2>1. cursor' = next /\ pc' = "idle" /\ pc = "send" /\ batch = {}
      BY <1>8 DEF EndTick
    <2>2. HeightOf(e) <= next => HeightOf(e) < next \/ HeightOf(e) = next
      BY <1>0 DEF WalkTypeOK
    <2> QED
      BY <1>w, <2>1, <2>2
  <1>9. CASE Push \/ Mine \/ UNCHANGED vars
    BY <1>1, <1>9 DEF Push, Mine, vars, sourceVars, tickVars
  <1>10. CASE ProcessorStep \/ HandleStep
    BY <1>1, <1>10, ConsumerQuiet DEF sourceVars, tickVars
  <1> QED
    BY <1>2, <1>3, <1>4, <1>5, <1>6, <1>7, <1>8, <1>9, <1>10 DEF Next, WalkerStep

(* No event is sent before an earlier one of its contract that is due: the *)
(* batch is sent from its least position.                                  *)
LEMMA SentInOrderStep ==
    ASSUME Steady, TypeOK, SeenInv, WalkedInv, SentInOrder, forgotten' = {}, [Next]_vars
    PROVE  SentInOrder'
  <1>0. seen \subseteq seen'
    BY SeenMoves
  <1> SUFFICES ASSUME NEW e \in Event, NEW f \in Event,
                      Due(e), e[1] = f[1], e[2] < f[2], f \in seen'
               PROVE  e \in seen'
    BY DueStays DEF SentInOrder
  <1>1. CASE f \in seen
    BY <1>0, <1>1 DEF SentInOrder
  <1>2. CASE f \notin seen
    <2>1. Offer
      BY <1>2, SeenMoves
    <2>2. PICK k \in batch : (\A j \in batch : k <= j) /\ seen' = seen \cup {Log[k]}
      BY <2>1, OfferMoves
    <2>3. f = Log[k] /\ pc = "send"
      BY <1>2, <2>1, <2>2 DEF Offer
    <2>4. HeightOf(f) = next /\ HeightOf(e) <= HeightOf(f)
      BY <2>3, HeightsOrdered DEF SeenInv
    <2>5. HeightOf(e) < next \/ HeightOf(e) = next
      BY <2>4, BlockType
    <2>6. CASE HeightOf(e) < next
      BY <1>0, <2>3, <2>6 DEF WalkedInv
    <2>7. ASSUME NEW j \in batch, Log[j] = e PROVE FALSE
      <3>1. j \in DOMAIN Log /\ k \in DOMAIN Log /\ DOMAIN Log \subseteq Nat
        BY WalkerAssumption DEF TypeOK, WalkTypeOK
      <3>2. j # k /\ e[2] \in Nat /\ f[2] \in Nat
        BY <2>3, <2>7, EventParts
      <3>3. k < j
        BY <2>2, <3>1, <3>2
      <3>4. f[2] < e[2]
        BY <2>3, <2>7, <3>1, <3>3, ChainOrder
      <3> QED
        BY <3>2, <3>4
    <2>8. CASE HeightOf(e) = next
      BY <1>0, <2>3, <2>7, <2>8 DEF WalkedInv
    <2> QED
      BY <2>5, <2>6, <2>8
  <1> QED
    BY <1>1, <1>2

-----------------------------------------------------------------------------
(* An event that is sent now is later than every one of its contract that  *)
(* was sent before.                                                        *)
LEMMA SentIsLatest ==
    ASSUME TypeOK, Registered, SeenInv, SentInOrder, pc = "send",
           NEW k \in batch, Log[k] \notin seen, Log[k][1] \in Followed,
           NEW f \in seen, f[1] = Log[k][1]
    PROVE  f[2] < Log[k][2]
  <1> DEFINE e == Log[k]
  <1>1. e \in Event /\ f \in Event
    BY LogType DEF TypeOK, WalkTypeOK, QueueTypeOK
  <1>2. snapHeight < HeightOf(e)
    <2>1. HeightOf(e) = next
      BY DEF SeenInv
    <2> QED
      BY <2>1 DEF TypeOK, WalkTypeOK, Registered
  <1>3. Due(e)
    BY <1>2 DEF Due, SeenInv
  <1>4. ~(e[2] < f[2])
    BY <1>1, <1>3 DEF SentInOrder
  <1>5. e[2] # f[2]
    BY <1>1, EventPair
  <1> QED
    BY <1>1, <1>4, <1>5, EventParts

(* Queue and push under way stay in order.                                 *)
LEMMA DeliveryStep ==
    ASSUME Steady, TypeOK, Registered, SeenInv, SentInOrder, DeliveryInv,
           forgotten' = {}, [Next]_vars
    PROVE  DeliveryInv'
  <1>0. QueueTypeOK /\ ConsumerTypeOK /\ Walker \in Producer
    BY WalkerAssumption DEF TypeOK
  <1>1. ASSUME UNCHANGED <<queueVars, applied>> PROVE DeliveryInv'
    BY <1>1, DeliveryRest
  <1>2. CASE Offer
    <2>0. pc = "send" /\ applied' = applied
      BY <1>2 DEF Offer, consumerVars
    <2>1. PICK k \in batch :
             /\ seen' = seen \cup {Log[k]} /\ Log[k] \in Event
             /\ \/ Log[k] \in seen /\ UNCHANGED queueVars
                \/ /\ Log[k] \notin seen
                   /\ sending[Walker] = Idle /\ sending' = [sending EXCEPT ![Walker] = Log[k]]
                   /\ UNCHANGED <<queue, closed, delivered>>
      BY <1>2, OfferMoves
    <2>2. CASE UNCHANGED queueVars
      BY <1>1, <2>0, <2>2
    <2>3. CASE Log[k] \notin seen /\ sending[Walker] = Idle
               /\ sending' = [sending EXCEPT ![Walker] = Log[k]] /\ UNCHANGED <<queue, delivered>>
      <3>1. Log[k][1] \in Followed => \A f \in seen : f[1] = Log[k][1] => f[2] < Log[k][2]
        BY <2>0, <2>3, SentIsLatest
      <3>2. \A q \in Producer : sending[q] = Idle
        BY <2>3, OneSender
      <3> QED
        BY <1>0, <2>0, <2>1, <2>3, <3>1, <3>2, DeliveryMark
    <2> QED
      BY <2>1, <2>2, <2>3
  <1>3. CASE Push
    BY <1>0, <1>3, DeliveryPush DEF Push
  <1>4. CASE ReceiveEvent
    BY <1>0, <1>4, DeliveryConsume DEF ReceiveEvent
  <1>5. CASE ProcessorExit
    BY <1>5, DeliveryRest DEF ProcessorExit
  <1>6. CASE \/ Wake \/ StartWalk \/ SnapToTip \/ NothingNew \/ TipFails
             \/ FetchBlock \/ BlockFails \/ NextBlock \/ EndTick \/ WalkerExit \/ Mine
    BY <1>1, <1>6 DEF Wake, StartWalk, SnapToTip, NothingNew, TipFails, FetchBlock, BlockFails,
                      NextBlock, EndTick, WalkerExit, Mine, consumerVars
  <1>7. ASSUME NEW p \in Pool, FetchPool(p) \/ AddPool(p) PROVE DeliveryInv'
    BY <1>1, <1>7 DEF FetchPool, AddPool, Fetch, Insert
  <1>8. CASE Stop \/ StopReturns \/ UNCHANGED vars
    BY <1>1, <1>8 DEF Stop, StopReturns, SetStop, Joined, vars, consumerVars
  <1> QED
    BY <1>2, <1>3, <1>4, <1>5, <1>6, <1>7, <1>8, SteadyMeans
       DEF Next, WalkerStep, ProcessorStep, HandleStep

(* A push ends before the walker goes on to the next block.                *)
LEMMA PushesStep ==
    ASSUME Steady, TypeOK, PushesEnd, [Next]_vars
    PROVE  PushesEnd'
  <1>1. ASSUME UNCHANGED <<pc, sending>> PROVE PushesEnd'
    BY <1>1 DEF PushesEnd
  <1>2. CASE \/ Wake \/ StartWalk \/ SnapToTip \/ NothingNew \/ TipFails
             \/ FetchBlock \/ BlockFails \/ NextBlock \/ EndTick \/ WalkerExit
    BY <1>2 DEF Wake, StartWalk, SnapToTip, NothingNew, TipFails, FetchBlock, BlockFails, NextBlock,
                EndTick, WalkerExit, queueVars, tickVars, PushesEnd
  <1>3. CASE Offer
    BY <1>3 DEF Offer, PushesEnd
  <1>4. CASE Push
    <2>1. pc' = pc /\ (sending' = sending \/ sending[Walker] # Idle)
      BY <1>4 DEF Push, Enqueue, SendFails, sourceVars, tickVars
    <2> QED
      BY <2>1 DEF PushesEnd
  <1>5. CASE ReceiveEvent \/ ProcessorExit
    BY <1>1, <1>5 DEF ReceiveEvent, ProcessorExit, Consume, Finish, Receive, CloseReceiver,
                      sourceVars, tickVars
  <1>6. ASSUME NEW p \in Pool, FetchPool(p) \/ AddPool(p) PROVE PushesEnd'
    BY <1>1, <1>6 DEF FetchPool, AddPool, Fetch, Insert, queueVars, sourceVars, tickVars
  <1>7. CASE Stop \/ StopReturns \/ Mine \/ UNCHANGED vars
    BY <1>1, <1>7 DEF Stop, StopReturns, SetStop, Joined, Mine, vars, queueVars, sourceVars, tickVars
  <1> QED
    BY <1>2, <1>3, <1>4, <1>5, <1>6, <1>7, SteadyMeans
       DEF Next, WalkerStep, ProcessorStep, HandleStep

(* Nothing is due, sent or queued when the collector starts.               *)
LEMMA OrderInit ==
    ASSUME Steady, Init
    PROVE  OrderInv
  <1>1. /\ queue = <<>> /\ seen = {} /\ delivered = {} /\ sending = [p \in Producer |-> Idle]
        /\ applied = [c \in Contract |-> 0]
        /\ topics = UNION {TopicsOf(p) : p \in InitialPools}
        /\ pools = [p \in Pool |-> IF p \in InitialPools THEN "live" ELSE "outside"]
    BY DEF Init, ConsumerInit, QueueInit
  <1>2. pc = "idle" /\ cursor = snapHeight /\ snapHeight \in Nat \ {0}
    BY SteadyMeans, WalkerAssumption DEF Init
  <1>3. WalkerInv
    BY InvInit
  <1>4. DOMAIN queue = {} /\ Queued = {} /\ InFlight = {} /\ sending[Walker] = Idle
    BY <1>1, WalkerAssumption DEF Queued, InFlight
  <1>5. NothingLost /\ SeenInv /\ SentInOrder /\ PushesEnd
    BY <1>1, <1>2, <1>4 DEF NothingLost, SeenInv, SentInOrder, PushesEnd
  <1>6. Registered
    BY <1>1, <1>2, FollowedIsTopic, ConsumerAssumption DEF Registered, Live
  <1>7. WalkedInv
    BY <1>2, BlockType DEF WalkedInv, Due
  <1>8. DeliveryInv
    BY DeliveryInit DEF Init
  <1> QED
    BY <1>3, <1>5, <1>6, <1>7, <1>8 DEF OrderInv

(* Every step that makes the dedup set forget nothing keeps the order.     *)
LEMMA OrderStep ==
    ASSUME Steady, OrderInv, forgotten' = {}, [Next]_vars
    PROVE  OrderInv'
  <1>0. /\ WalkerInv /\ TypeOK /\ QueueShape /\ NothingLost
        /\ Registered /\ SeenInv /\ WalkedInv /\ SentInOrder /\ DeliveryInv /\ PushesEnd
    BY DEF OrderInv, WalkerInv
  <1>1. NothingLost'
    BY <1>0, QueueStep, LossStep DEF LossInv
  <1> QED
    BY <1>0, <1>1, InvStep, RegisteredStep, SeenStep, WalkedStep, SentInOrderStep, DeliveryStep, PushesStep
       DEF OrderInv

-----------------------------------------------------------------------------
(* The walker implements the promise: its snapshots are consistent ...     *)
LEMMA PromiseInit ==
    ASSUME Init
    PROVE  Promise!MirrorInit
  <1>1. height \in Nat /\ snapHeight \in Nat /\ snapHeight <= height
    BY WalkerAssumption DEF Init
  <1>2. \A h \in Nat : Upto(h) \in [Contract -> Promise!Heights]
    <2> SUFFICES ASSUME NEW h \in Nat, NEW c \in Contract PROVE Upto(h)[c] \in Promise!Heights
      BY DEF Upto
    <2>1. Upto(h)[c] \in 0 .. Len(History[c])
      BY UptoBounds, Lengths
    <2> QED
      BY <2>1 DEF Promise!Heights
  <1>3. \A c \in Contract : Upto(snapHeight)[c] <= Upto(height)[c] /\ Upto(height)[c] <= Len(History[c])
    BY <1>1, UptoGrows, UptoBounds
  <1>4. mirror \in [Cell -> Heights] /\ applied = [c \in Contract |-> 0]
    BY DEF Init, ConsumerInit, Snapshots
  <1>5. \A x \in Mirrored : IsValueAt(x, Upto(snapHeight)[Stream[x]], mirror[x])
    <2>1. \A x \in Mirrored : x \in Cell /\ Owner[x] \in InitialPools
      BY ConsumerAssumption
    <2> QED
      BY <2>1 DEF Init, ConsumerInit, Snapshots
  <1>6. InitialMirror \in [Cell -> Promise!Heights]
    <2>1. \A x \in Cell : 0 \in Heights
      BY ChainAssumption, Lengths DEF Heights
    <2> QED
      BY <1>4, <2>1 DEF InitialMirror, Heights, Promise!Heights
  <1>7. \A x \in Mirrored : Promise!IsValueAt(x, Upto(snapHeight)[Stream[x]], InitialMirror[x])
    <2>1. \A x \in Mirrored : InitialMirror[x] = mirror[x]
      BY ChainAssumption DEF InitialMirror
    <2> QED
      BY <1>5, <2>1
         DEF IsValueAt, Promise!IsValueAt, Writes, Promise!Writes, Positions, Promise!Positions
  <1> QED
    BY <1>1, <1>2, <1>3, <1>4, <1>6, <1>7 DEF Promise!MirrorInit

(* ... what was sent leaves out only events of the snapshot ...            *)
LEMMA WalkLeavesNoGap ==
    ASSUME OrderInv
    PROVE  NoGap(Upto(snapHeight))
  <1>0. QueueTypeOK /\ snapHeight \in Nat /\ SeenInv /\ SentInOrder
    BY DEF OrderInv, WalkerInv, TypeOK, WalkTypeOK
  <1> SUFFICES ASSUME NEW e \in seen, e[1] \in Followed,
                      NEW j \in Positions(e[1]), j < e[2], Decoded(e[1], j), <<e[1], j>> \notin seen
               PROVE  j <= Upto(snapHeight)[e[1]] /\ \A g \in seen : g[1] = e[1] => j < g[2]
    BY DEF NoGap
  <1> DEFINE c == e[1]
             f == <<c, j>>
  <1>1. e \in Event /\ c \in Contract
    BY <1>0, EventParts DEF QueueTypeOK
  <1>2. f \in Event /\ f[1] = c /\ f[2] = j /\ j \in Nat
    BY <1>1, EventType, Lengths
  <1> HIDE DEF f
  <1>3. ~Due(f)
    BY <1>0, <1>1, <1>2 DEF SentInOrder, f
  <1>4. HeightOf(f) <= snapHeight
    <2>1. HeightOf(f) \in Nat
      BY <1>2, BlockType
    <2> QED
      BY <1>0, <1>2, <1>3, <2>1 DEF Due
  <1>5. j <= Upto(snapHeight)[c]
    BY <1>0, <1>1, <1>4, UptoBounds DEF f
  <1>6. ASSUME NEW g \in seen, g[1] = c PROVE j < g[2]
    <2>1. g \in Event /\ g[2] \in Nat /\ snapHeight < HeightOf(g)
      BY <1>0, EventParts DEF QueueTypeOK, SeenInv
    <2>2. g[2] # j
      BY <1>2, <1>6, <2>1, EventPair DEF f
    <2>3. ~(g[2] < j)
      <3> SUFFICES ASSUME g[2] < j PROVE FALSE
        OBVIOUS
      <3>1. HeightOf(g) <= HeightOf(f) /\ HeightOf(g) \in Nat /\ HeightOf(f) \in Nat
        BY <1>2, <1>6, <2>1, HeightsOrdered, BlockType
      <3> QED
        BY <1>0, <1>4, <2>1, <3>1
    <2> QED
      BY <1>2, <2>1, <2>2, <2>3
  <1> QED
    BY <1>5, <1>6

(* ... the event received is one that is on chain ...                      *)
LEMMA ReceivedOnChain ==
    ASSUME OrderInv, NEW e \in seen
    PROVE  e[2] \in 1 .. Upto(height)[e[1]]
  <1>1. e \in Event /\ height \in Nat /\ HeightOf(e) <= height
    BY DEF OrderInv, WalkerInv, TypeOK, QueueTypeOK, WalkTypeOK, SeenInv
  <1>2. e[1] \in Contract /\ e[2] \in Positions(e[1]) /\ e[2] \in Nat \ {0} /\ e = <<e[1], e[2]>>
    BY <1>1, EventParts, EventPair
  <1> QED
    BY <1>1, <1>2, UptoBounds

(* ... and every step is one of the promise's: a new block, a dispatch in  *)
(* order, or nothing it speaks of.                                         *)
LEMMA PromiseStep ==
    ASSUME Steady, OrderInv, [Next]_vars
    PROVE  [Promise!MirrorNext]_(Promise!mirrorVars)
  <1>0. /\ QueueTypeOK /\ ConsumerTypeOK /\ WalkTypeOK /\ Registered
        /\ height \in Nat /\ snapHeight \in Nat
    BY DEF OrderInv, WalkerInv, TypeOK, WalkTypeOK
  <1>1. ASSUME UNCHANGED <<height, snapHeight, applied, InitialMirror>>
        PROVE  UNCHANGED Promise!mirrorVars
    BY <1>1 DEF Promise!mirrorVars, Upto
  <1>2. ASSUME UNCHANGED <<height, snapHeight, applied, mirror>>
        PROVE  UNCHANGED Promise!mirrorVars
    BY <1>1, <1>2 DEF InitialMirror
  <1>3. CASE Mine
    <2>1. height' = height + 1 /\ UNCHANGED <<snapHeight, applied, mirror>>
      BY <1>3 DEF Mine, consumerVars
    <2>2. \A c \in Contract : /\ Upto(height)[c] <= Upto(height + 1)[c]
                              /\ Upto(height + 1)[c] <= Len(History[c])
                              /\ Upto(height + 1)[c] \in Promise!Heights
      <3> SUFFICES ASSUME NEW c \in Contract
                   PROVE  /\ Upto(height)[c] <= Upto(height + 1)[c]
                          /\ Upto(height + 1)[c] <= Len(History[c])
                          /\ Upto(height + 1)[c] \in Promise!Heights
        OBVIOUS
      <3>1. height + 1 \in Nat /\ height <= height + 1
        BY <1>0
      <3>2. Upto(height + 1)[c] \in 0 .. Len(History[c])
        BY <3>1, UptoBounds, Lengths
      <3> QED
        BY <1>0, <3>1, <3>2, UptoGrows, Lengths DEF Promise!Heights
    <2>3. Upto(height + 1) \in [Contract -> Promise!Heights]
      BY <2>2 DEF Upto
    <2>4. Upto(height)' = Upto(height + 1) /\ UNCHANGED <<Upto(snapHeight), applied, InitialMirror>>
      BY <2>1 DEF Upto, InitialMirror
    <2>5. Promise!Grow
      BY <2>2, <2>3, <2>4 DEF Promise!Grow
    <2> QED
      BY <2>5 DEF Promise!MirrorNext
  <1>4. CASE ReceiveEvent
    <2> DEFINE e == Head(queue)
    <2>1. Receive /\ Dispatch(e[1], e[2]) /\ UNCHANGED <<height, snapHeight>>
      BY <1>4 DEF ReceiveEvent, Consume, sourceVars, chainVars
    <2>2. /\ e \in Event /\ e[2] \in 1 .. Upto(height)[e[1]]
          /\ e[1] \in Followed =>
                 /\ applied[e[1]] < e[2]
                 /\ \A j \in applied[e[1]] + 1 .. e[2] - 1 :
                       Decoded(e[1], j) => applied[e[1]] = 0 /\ j <= Upto(snapHeight)[e[1]]
      <3>1. NothingLost /\ DeliveryInv /\ NoGap(Upto(snapHeight))
        BY WalkLeavesNoGap DEF OrderInv
      <3> HIDE DEF e
      <3>2. /\ e \in Event /\ e \in seen
            /\ e[1] \in Followed =>
                  /\ applied[e[1]] < e[2]
                  /\ \A j \in applied[e[1]] + 1 .. e[2] - 1 :
                        Decoded(e[1], j) => applied[e[1]] = 0 /\ j <= Upto(snapHeight)[e[1]]
        BY <1>0, <2>1, <3>1, NextInOrder DEF e
      <3>3. e[2] \in 1 .. Upto(height)[e[1]]
        BY <3>2, ReceivedOnChain
      <3> QED
        BY <3>2, <3>3
    <2>3. InitialMirror' = [x \in Cell |-> IF x \in Mirrored /\ Writes(e[1], e[2], x)
                                           THEN e[2] ELSE InitialMirror[x]]
      BY <1>0, <2>1, DispatchWrites DEF Registered
    <2>4. applied' = [applied EXCEPT ![e[1]] = e[2]] /\ UNCHANGED <<Upto(height), Upto(snapHeight)>>
      BY <2>1 DEF Dispatch, Upto
    <2>5. e[1] \in Contract /\ e[2] \in Promise!Positions(e[1])
      BY <2>2, EventParts DEF Positions, Promise!Positions
    <2> HIDE DEF e
    <2>6. Promise!Apply(e[1], e[2])
      BY <2>2, <2>3, <2>4
         DEF Promise!Apply, Followed, Promise!Followed, Decoded, Promise!Decoded, Writes,
             Promise!Writes, Positions, Promise!Positions
    <2> QED
      BY <2>5, <2>6 DEF Promise!MirrorNext
  <1>5. ASSUME NEW p \in Pool, FetchPool(p) \/ AddPool(p) PROVE UNCHANGED Promise!mirrorVars
    <2>1. UNCHANGED <<height, snapHeight, applied>>
      BY <1>5 DEF FetchPool, AddPool, Fetch, Insert, sourceVars, chainVars
    <2>2. CASE AddPool(p)
      BY <1>2, <2>1, <2>2 DEF AddPool, Insert
    <2>3. CASE FetchPool(p)
      <3>1. InitialMirror' = InitialMirror
        BY <1>0, <2>3, FetchSpares DEF FetchPool, Registered
      <3> QED
        BY <1>1, <2>1, <3>1
    <2> QED
      BY <1>5, <2>2, <2>3
  <1>6. CASE \/ Wake \/ StartWalk \/ SnapToTip \/ NothingNew \/ TipFails \/ FetchBlock
             \/ BlockFails \/ Offer \/ Push \/ NextBlock \/ EndTick \/ WalkerExit
    BY <1>2, <1>6 DEF Wake, StartWalk, SnapToTip, NothingNew, TipFails, FetchBlock, BlockFails,
                      Offer, Push, NextBlock, EndTick, WalkerExit, consumerVars, sourceVars,
                      chainVars
  <1>7. CASE ProcessorExit \/ Stop \/ StopReturns \/ UNCHANGED vars
    BY <1>2, <1>7 DEF ProcessorExit, Stop, StopReturns, Finish, SetStop, Joined, vars,
                      consumerVars, sourceVars, chainVars
  <1> QED
    BY <1>3, <1>4, <1>5, <1>6, <1>7, SteadyMeans DEF Next, WalkerStep, ProcessorStep, HandleStep

(* The walker delivers in order: through failed ticks that walk blocks     *)
(* again, capped walks, added pools and a stop, the events of each         *)
(* contract of the initial pools reach the mirror in chain order, none     *)
(* twice and none after the snapshot skipped, as long as the dedup set     *)
(* forgets nothing.                                                        *)
THEOREM WalkerDelivers ==
    ASSUME Steady
    PROVE  Spec /\ [](forgotten = {}) => OrderedDelivery
  <1>1. Init => OrderInv /\ Promise!MirrorInit
    BY OrderInit, PromiseInit
  <1>2. OrderInv /\ [Next]_vars /\ (forgotten = {})' => OrderInv'
    BY OrderStep
  <1>3. OrderInv /\ [Next]_vars => [Promise!MirrorNext]_(Promise!mirrorVars)
    BY PromiseStep
  <1> QED
    BY <1>1, <1>2, <1>3, PTL DEF Spec, OrderedDelivery, Promise!MirrorSpec

-----------------------------------------------------------------------------
(* OrderedMirror's own facts, of the walker's mirror.                      *)
Facts == INSTANCE OrderedMirror_proofs WITH
            mirror <- InitialMirror,
            tip <- Upto(height), snap <- Upto(snapHeight)

(* They speak of the same specification.                                   *)
LEMMA SamePromise ==
    /\ Promise!MirrorInit <=> Facts!MirrorInit
    /\ [Promise!MirrorNext]_(Promise!mirrorVars) => [Facts!MirrorNext]_(Facts!mirrorVars)
  <1>1. Promise!MirrorInit <=> Facts!MirrorInit
    BY DEF Promise!MirrorInit, Facts!MirrorInit, Promise!Heights, Facts!Heights,
           Promise!IsValueAt, Facts!IsValueAt, Promise!Writes, Facts!Writes,
           Promise!Positions, Facts!Positions
  <1>2. UNCHANGED Promise!mirrorVars => UNCHANGED Facts!mirrorVars
    BY DEF Promise!mirrorVars, Facts!mirrorVars
  <1>3. Promise!Grow => Facts!Grow
    BY DEF Promise!Grow, Facts!Grow, Promise!Heights, Facts!Heights
  <1>4. \A c, i : Promise!Apply(c, i) => Facts!Apply(c, i)
    BY DEF Promise!Apply, Facts!Apply, Promise!Followed, Facts!Followed, Promise!Decoded, Facts!Decoded,
           Promise!Writes, Facts!Writes, Promise!Positions, Facts!Positions
  <1> QED
    BY <1>1, <1>2, <1>3, <1>4
       DEF Promise!MirrorNext, Facts!MirrorNext, Promise!Positions, Facts!Positions

(* So the walker's mirror has their invariant.                             *)
MirrorInv == Facts!MirrorTypeOK /\ Facts!Consistent

(* At the tip, with nothing queued, all that is due was dispatched.        *)
LEMMA AllDispatched ==
    ASSUME OrderInv, cursor = height, BetweenTicks, queue = <<>>, ~closed,
           NEW e \in Event, Due(e), HeightOf(e) <= height
    PROVE  e[2] <= applied[e[1]]
  <1>1. QueueTypeOK
    BY DEF OrderInv, WalkerInv, TypeOK
  <1>2. Queued = {} /\ InFlight = {}
    BY <1>1, OneSender DEF Queued, InFlight, OrderInv, PushesEnd, BetweenTicks
  <1>3. e \in seen
    BY DEF OrderInv, WalkedInv
  <1>4. e \in delivered
    BY <1>2, <1>3 DEF OrderInv, NothingLost
  <1> QED
    BY <1>4 DEF OrderInv, DeliveryInv, Undispatched, Due

(* ... and so a mirrored cell has what the chain has.                      *)
LEMMA CellCaughtUp ==
    ASSUME OrderInv, MirrorInv, cursor = height, BetweenTicks, queue = <<>>, ~closed, NEW x \in Mirrored
    PROVE  IsValueAt(x, Upto(height)[Stream[x]], mirror[x])
  <1> DEFINE c == Stream[x]
             n == Upto(height)[c]
             s == Upto(snapHeight)[c]
             a == applied[c]
  <1>0. ConsumerTypeOK /\ WalkTypeOK /\ QueueTypeOK
    BY DEF OrderInv, WalkerInv, TypeOK
  <1>1. x \in Cell /\ c \in Contract /\ c \in Followed
    BY ChainAssumption DEF Followed
  <1>2. height \in Nat /\ snapHeight \in Nat /\ snapHeight <= height
    BY <1>0 DEF WalkTypeOK
  <1>3. n \in Nat /\ s \in Nat /\ s <= n /\ a \in Nat /\ mirror[x] \in Nat
    BY <1>0, <1>1, <1>2, UptoBounds, UptoGrows DEF ConsumerTypeOK
  <1>4. ASSUME NEW j \in Positions(c), s < j, j <= n, Writes(c, j, x) PROVE j <= a
    <2>1. <<c, j>> \in Event /\ Decoded(c, j) /\ j \in Nat
      <3>1. Decoded(c, j)
        BY <1>1, <1>4, ChainAssumption DEF Decoded, Writes
      <3> QED
        BY <1>1, <3>1, EventType, Lengths
    <2>2. snapHeight < HeightOf(<<c, j>>) /\ HeightOf(<<c, j>>) <= height
      <3>1. HeightOf(<<c, j>>) \in Nat
        BY <2>1, BlockType
      <3>2. ~(HeightOf(<<c, j>>) <= snapHeight)
        BY <1>1, <1>2, <1>3, <1>4, <2>1, UptoBounds
      <3>3. HeightOf(<<c, j>>) <= height
        BY <1>1, <1>2, <1>4, UptoBounds
      <3> QED
        BY <1>2, <3>1, <3>2, <3>3
    <2>3. Due(<<c, j>>)
      BY <1>1, <2>1, <2>2 DEF Due
    <2>4. <<c, j>>[2] <= applied[<<c, j>>[1]]
      BY <2>1, <2>2, <2>3, AllDispatched
    <2> QED
      BY <2>4
  <1>5. InitialMirror[x] = mirror[x]
    BY <1>1 DEF InitialMirror
  <1>6. \A m, v : Facts!IsValueAt(x, m, v) <=> IsValueAt(x, m, v)
    BY DEF Facts!IsValueAt, IsValueAt, Facts!Writes, Writes, Facts!Positions, Positions
  <1>7. CASE a = 0
    <2>1. IsValueAt(x, s, mirror[x])
      BY <1>5, <1>6, <1>7 DEF MirrorInv, Facts!Consistent, Facts!FreshConsistent
    <2>2. \A j \in Positions(c) : j \in s + 1 .. n => ~Writes(c, j, x)
      <3> SUFFICES ASSUME NEW j \in Positions(c), j \in s + 1 .. n, Writes(c, j, x) PROVE FALSE
        OBVIOUS
      <3>1. s < j /\ j <= n /\ j \in Nat
        BY <1>3
      <3> QED
        BY <1>3, <1>4, <1>7, <3>1
    <2> QED
      BY <1>1, <1>3, <2>1, <2>2, ValueKept
  <1>8. CASE a # 0
    <2> DEFINE f == <<c, a>>
    <2>1. f \in seen
      BY <1>1, <1>8 DEF OrderInv, DeliveryInv, Undispatched
    <2>2. f \in Event /\ snapHeight < HeightOf(f) /\ HeightOf(f) <= height
      BY <1>0, <2>1 DEF OrderInv, SeenInv, QueueTypeOK
    <2>3. a \in Positions(c)
      BY <2>2, EventParts
    <2>4. a <= n /\ ~(a <= s)
      BY <1>1, <1>2, <2>2, <2>3, UptoBounds, BlockType
    <2>5. IsValueAt(x, a, mirror[x])
      BY <1>3, <1>5, <1>6, <2>4 DEF MirrorInv, Facts!Consistent, Facts!PrefixConsistent
    <2>6. \A j \in Positions(c) : j \in a + 1 .. n => ~Writes(c, j, x)
      <3> SUFFICES ASSUME NEW j \in Positions(c), j \in a + 1 .. n, Writes(c, j, x) PROVE FALSE
        OBVIOUS
      <3>1. s < j /\ j <= n /\ j \in Nat /\ a < j
        BY <1>3, <2>4
      <3> QED
        BY <1>3, <1>4, <3>1
    <2> QED
      BY <1>1, <1>3, <2>4, <2>5, <2>6, ValueKept
  <1> QED
    BY <1>7, <1>8

(* Nothing is left behind: with the cursor at the tip and the queue        *)
(* drained, the mirror of the initial pools is what the chain has, however *)
(* many ticks failed on the way and however many blocks one may walk.      *)
THEOREM WalkerCatchesUp ==
    ASSUME Steady
    PROVE  Spec /\ [](forgotten = {}) => []CaughtUp
  <1>1. Init => OrderInv /\ MirrorInv
    BY OrderInit, PromiseInit, SamePromise, Facts!TypesHold, Facts!ConsistentInit, ChainAssumption
       DEF MirrorInv
  <1>2. OrderInv /\ MirrorInv /\ [Next]_vars /\ (forgotten = {})' => OrderInv' /\ MirrorInv'
    <2> SUFFICES ASSUME OrderInv, MirrorInv, [Next]_vars, (forgotten = {})'
                 PROVE  OrderInv' /\ MirrorInv'
      OBVIOUS
    <2>1. OrderInv'
      BY OrderStep
    <2>2. [Facts!MirrorNext]_(Facts!mirrorVars)
      BY PromiseStep, SamePromise
    <2>3. MirrorInv'
      BY <2>2, Facts!TypesStep, Facts!ConsistentStep, ChainAssumption DEF MirrorInv
    <2> QED
      BY <2>1, <2>3
  <1>3. OrderInv /\ MirrorInv => CaughtUp
    BY CellCaughtUp DEF CaughtUp
  <1> QED
    BY <1>1, <1>2, <1>3, PTL DEF Spec
=============================================================================
