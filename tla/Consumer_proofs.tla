--------------------------- MODULE Consumer_proofs ---------------------------
(***************************************************************************)
(* Proofs about what both event sources are made of.  First the queue, for *)
(* any sets of events and producers and any capacities: types, the bound   *)
(* of the dedup set, at-most-once, and that no remembered event is lost    *)
(* while the receiver lives.  Then facts about Consumer: what it does to   *)
(* the queue EventQueue allows, and it keeps the types of its variables,   *)
(* whatever chain, pools and operations.                                   *)
(***************************************************************************)
EXTENDS Consumer, FiniteSetTheorems, SequenceTheorems, TLAPS

(* What an eviction removes: a part of the dedup set, and at least one key *)
(* when the set is at its cap (event_queue.rs:42-48).                      *)
LEMMA EvictionsLemma ==
    ASSUME QueueTypeOK, SeenBounded, NEW evicted \in Evictions
    PROVE  /\ evicted \in SUBSET seen
           /\ IsFiniteSet(seen \ evicted)
           /\ Cardinality(seen \ evicted) + 1 <= SeenCap
<1>1. /\ IsFiniteSet(seen) /\ Cardinality(seen) \in Nat
      /\ SeenCap \in Nat /\ SeenCap >= 2
      /\ Cardinality(seen) <= SeenCap
  BY QueueAssumption, FS_CardinalityType DEF QueueTypeOK, SeenBounded
<1>2. CASE Cardinality(seen) >= SeenCap
  <2>1. evicted \in SUBSET seen /\ Cardinality(evicted) = SeenCap \div 2
    BY <1>2 DEF Evictions, kSubset
  <2>2. seen \cap evicted = evicted
    BY <2>1
  <2>3. /\ IsFiniteSet(seen \ evicted)
        /\ Cardinality(seen \ evicted) = Cardinality(seen) - Cardinality(evicted)
    BY <1>1, <2>2, FS_Difference
  <2>4. SeenCap \div 2 >= 1 /\ SeenCap \div 2 \in Nat
    BY <1>1
  <2>5. QED
    BY <1>1, <2>1, <2>3, <2>4
<1>3. CASE ~(Cardinality(seen) >= SeenCap)
  <2>1. evicted = {}
    BY <1>3 DEF Evictions
  <2>2. seen \ evicted = seen
    BY <2>1
  <2>3. QED
    BY <1>1, <1>3, <2>1, <2>2
<1>4. QED
  BY <1>2, <1>3

(* The type invariant with the bound of the dedup set, which the insertion *)
(* step needs to know before it inserts.                                   *)
QueueShape == QueueTypeOK /\ SeenBounded

(* An empty queue and dedup set are within their bounds.                   *)
LEMMA ShapeInit == QueueInit => QueueShape
<1> SUFFICES ASSUME QueueInit PROVE QueueShape
  OBVIOUS
<1>1. IsFiniteSet(seen) /\ Cardinality(seen) = 0
  BY FS_EmptySet DEF QueueInit
<1>2. SeenBounded
  BY <1>1, QueueAssumption DEF SeenBounded
<1>3. queue \in Seq(Event) /\ Len(queue) = 0
  BY EmptySeq DEF QueueInit
<1>4. QueueTypeOK
  <2>1. queue \in Seq(Event) /\ Len(queue) <= Capacity
    BY <1>3, QueueAssumption
  <2>2. seen \in SUBSET Event /\ delivered \in SUBSET Event /\ forgotten \in SUBSET Event
    BY DEF QueueInit
  <2>3. sending \in [Producer -> Event \cup {Idle}] /\ closed \in BOOLEAN
    BY DEF QueueInit
  <2>4. QED
    BY <1>1, <2>1, <2>2, <2>3 DEF QueueTypeOK
<1>5. QED
  BY <1>2, <1>4 DEF QueueShape

(* Every step keeps the types and the bound, evicting before it inserts.   *)
LEMMA ShapeStep == QueueShape /\ [QueueNext]_queueVars => QueueShape'
<1> SUFFICES ASSUME QueueShape, [QueueNext]_queueVars
             PROVE  QueueShape'
  OBVIOUS
<1> USE QueueAssumption DEF QueueTypeOK
<1>0. QueueTypeOK /\ SeenBounded
  BY DEF QueueShape
<1>1. ASSUME NEW p \in Producer, NEW e \in Event, MarkSeen(p, e)
      PROVE  QueueShape'
  <2>1. PICK evicted \in Evictions :
            /\ seen' = (seen \ evicted) \cup {e}
            /\ forgotten' = forgotten \cup evicted
    BY <1>1 DEF MarkSeen, Mark
  <2>2. /\ evicted \in SUBSET seen /\ IsFiniteSet(seen \ evicted)
        /\ Cardinality(seen \ evicted) + 1 <= SeenCap
    BY <1>0, EvictionsLemma
  <2>3. IsFiniteSet(seen') /\ Cardinality(seen') <= Cardinality(seen \ evicted) + 1
    <3>1. Cardinality(seen \ evicted) \in Nat
      BY <2>2, FS_CardinalityType
    <3>2. QED
      BY <2>1, <2>2, <3>1, FS_AddElement
  <2>4. Cardinality(seen') \in Nat /\ Cardinality(seen \ evicted) \in Nat
    BY <2>2, <2>3, FS_CardinalityType
  <2>5. SeenBounded'
    BY <2>2, <2>3, <2>4 DEF SeenBounded
  <2>6. QueueTypeOK'
    BY <1>0, <1>1, <2>1, <2>2, <2>3 DEF MarkSeen, Mark
  <2>7. QED
    BY <2>5, <2>6 DEF QueueShape
<1>2. ASSUME NEW p \in Producer, Enqueue(p)
      PROVE  QueueShape'
  <2>1. sending[p] \in Event /\ queue' = Append(queue, sending[p])
    BY <1>0, <1>2 DEF Enqueue
  <2>2. queue' \in Seq(Event) /\ Len(queue') <= Capacity
    BY <1>0, <1>2, <2>1 DEF Enqueue
  <2>3. QED
    BY <1>0, <1>2, <2>2 DEF Enqueue, QueueShape, SeenBounded
<1>3. ASSUME NEW p \in Producer, SendFails(p)
      PROVE  QueueShape'
  BY <1>0, <1>3 DEF SendFails, QueueShape, SeenBounded
<1>4. CASE Receive
  <2>1. queue' \in Seq(Event) /\ Len(queue') <= Capacity /\ Head(queue) \in Event
    BY <1>0, <1>4 DEF Receive
  <2>2. QED
    BY <1>0, <1>4, <2>1 DEF Receive, QueueShape, SeenBounded
<1>5. CASE CloseReceiver
  BY <1>0, <1>5 DEF CloseReceiver, QueueShape, SeenBounded
<1>6. CASE BuildQueue
  <2>1. IsFiniteSet(seen') /\ Cardinality(seen') = 0
    BY <1>6, FS_EmptySet DEF BuildQueue
  <2>2. queue' \in Seq(Event) /\ Len(queue') = 0
    BY <1>6, EmptySeq DEF BuildQueue
  <2>3. seen' \in SUBSET Event /\ delivered' \in SUBSET Event /\ forgotten' \in SUBSET Event
    BY <1>6 DEF BuildQueue
  <2>4. sending' \in [Producer -> Event \cup {Idle}] /\ closed' \in BOOLEAN
    BY <1>0, <1>6 DEF BuildQueue
  <2>5. QueueTypeOK' /\ SeenBounded'
    BY <2>1, <2>2, <2>3, <2>4 DEF SeenBounded
  <2>6. QED
    BY <2>5 DEF QueueShape
<1>7. CASE UNCHANGED queueVars
  BY <1>0, <1>7 DEF queueVars, QueueShape, SeenBounded
<1>8. QED
  BY <1>1, <1>2, <1>3, <1>4, <1>5, <1>6, <1>7 DEF QueueNext

(* event_queue.rs: every variable keeps its type, the channel its capacity *)
(* and the dedup set its cap.                                              *)
THEOREM QueueTypeCorrect == QueueSpec => [](QueueTypeOK /\ SeenBounded)
<1>1. QueueSpec => []QueueShape
  BY ShapeInit, ShapeStep, PTL DEF QueueSpec
<1>2. QueueShape => QueueTypeOK /\ SeenBounded
  BY DEF QueueShape
<1>3. QED
  BY <1>1, <1>2, PTL
-----------------------------------------------------------------------------
(* At most once.  The strengthening: an event that was never forgotten and *)
(* is somewhere on its way is still in the dedup set, so the lookup of any *)
(* later send finds it.                                                    *)
Remembered ==
    \A e \in Event \ forgotten : e \in InFlight \cup Queued \cup delivered => e \in seen

DedupInv == QueueShape /\ AtMostOnce /\ Remembered

(* Nothing has been marked, queued or received at the start.               *)
LEMMA DedupInit == QueueInit => DedupInv
<1> SUFFICES ASSUME QueueInit PROVE DedupInv
  OBVIOUS
<1>1. QueueShape
  BY ShapeInit
<1>2. InFlight = {} /\ Queued = {} /\ delivered = {} /\ DOMAIN queue = {}
  BY DEF QueueInit, InFlight, Queued
<1>3. \A p \in Producer, e \in Event : sending[p] # e
  BY QueueAssumption DEF QueueInit
<1>4. QED
  BY <1>1, <1>2, <1>3 DEF DedupInv, AtMostOnce, Remembered

(* How each step moves an event between the sends, the channel and the     *)
(* consumer.                                                               *)
LEMMA EnqueueMoves ==
    ASSUME QueueTypeOK, NEW p \in Producer, Enqueue(p)
    PROVE  /\ sending[p] \in Event
           /\ DOMAIN queue' = 1 .. Len(queue) + 1
           /\ \A i \in DOMAIN queue : queue'[i] = queue[i]
           /\ queue'[Len(queue) + 1] = sending[p]
           /\ Queued' = Queued \cup {sending[p]}
           /\ \A q \in Producer : sending'[q] = IF q = p THEN Idle ELSE sending[q]
<1>1. sending[p] \in Event /\ queue \in Seq(Event) /\ queue' = Append(queue, sending[p])
  BY DEF QueueTypeOK, Enqueue
<1>2. /\ Len(queue) \in Nat /\ DOMAIN queue = 1 .. Len(queue)
      /\ Len(queue') = Len(queue) + 1 /\ queue' \in Seq(Event)
      /\ \A i \in 1 .. Len(queue) : queue'[i] = queue[i]
      /\ queue'[Len(queue) + 1] = sending[p]
  BY <1>1, AppendProperties, LenProperties
<1>3. DOMAIN queue' = 1 .. Len(queue) + 1
  BY <1>2, LenProperties
<1>4. Queued' = Queued \cup {sending[p]}
  BY <1>2, <1>3 DEF Queued
<1>5. \A q \in Producer : sending'[q] = IF q = p THEN Idle ELSE sending[q]
  BY DEF Enqueue, QueueTypeOK
<1>6. QED
  BY <1>1, <1>2, <1>3, <1>4, <1>5

(* A receive shifts the queue by one and moves its head to delivered.      *)
LEMMA ReceiveMoves ==
    ASSUME QueueTypeOK, Receive
    PROVE  /\ Head(queue) \in Event /\ Head(queue) = queue[1] /\ 1 \in DOMAIN queue
           /\ \A i \in DOMAIN queue' : i \in Nat /\ i + 1 \in DOMAIN queue /\ queue'[i] = queue[i + 1]
           /\ Queued' \subseteq Queued
           /\ Queued \subseteq Queued' \cup {Head(queue)}
           /\ delivered' = delivered \cup {Head(queue)}
<1>1. queue \in Seq(Event) /\ queue # <<>> /\ queue' = Tail(queue)
  BY DEF QueueTypeOK, Receive
<1>2. /\ Len(queue) \in Nat /\ Len(queue) # 0 /\ DOMAIN queue = 1 .. Len(queue)
      /\ Head(queue) = queue[1] /\ Head(queue) \in Event
  BY <1>1, LenProperties, EmptySeq, HeadTailProperties
<1>3. /\ queue' \in Seq(Event) /\ Len(queue') = Len(queue) - 1
      /\ \A i \in 1 .. Len(queue') : queue'[i] = queue[i + 1]
  BY <1>1, HeadTailProperties
<1>4. DOMAIN queue' = 1 .. Len(queue) - 1
  BY <1>3, LenProperties
<1>5. \A i \in DOMAIN queue' : i \in Nat /\ i + 1 \in DOMAIN queue /\ queue'[i] = queue[i + 1]
  BY <1>2, <1>3, <1>4
<1>6. Queued' \subseteq Queued
  BY <1>5 DEF Queued
<1>7. ASSUME NEW e \in Queued PROVE e \in Queued' \cup {Head(queue)}
  <2>1. PICK i \in DOMAIN queue : e = queue[i]
    BY DEF Queued
  <2>2. CASE i = 1
    BY <1>2, <2>1, <2>2
  <2>3. CASE i # 1
    <3>1. i - 1 \in DOMAIN queue' /\ queue'[i - 1] = queue[i]
      BY <1>2, <1>3, <1>4, <2>1, <2>3
    <3>2. QED
      BY <2>1, <3>1 DEF Queued
  <2>4. QED
    BY <2>2, <2>3
<1>8. QED
  BY <1>2, <1>5, <1>6, <1>7 DEF Receive

(* One event at a time, so that each leaf reasons about one key only.      *)
UniqueAt(e) ==
    /\ \A p, q \in Producer : sending[p] = e /\ sending[q] = e => p = q
    /\ \A i, j \in DOMAIN queue : queue[i] = e /\ queue[j] = e => i = j
    /\ e \in InFlight => e \notin Queued \cup delivered
    /\ e \in Queued => e \notin delivered
    /\ e \in InFlight \cup Queued \cup delivered => e \in seen

(* The dedup invariant speaks of one event at a time.                      *)
LEMMA DedupIsPerEvent ==
    AtMostOnce /\ Remembered <=> \A e \in Event \ forgotten : UniqueAt(e)
BY DEF AtMostOnce, Remembered, UniqueAt

(* Every step keeps every remembered event unique.                         *)
LEMMA DedupStep == DedupInv /\ [QueueNext]_queueVars => DedupInv'
<1> SUFFICES ASSUME DedupInv, [QueueNext]_queueVars
             PROVE  DedupInv'
  OBVIOUS
<1>0. /\ QueueShape /\ QueueShape' /\ QueueTypeOK
      /\ \A e \in Event \ forgotten : UniqueAt(e)
  BY ShapeStep, DedupIsPerEvent DEF DedupInv, QueueShape
<1>1. SUFFICES ASSUME NEW e \in Event \ forgotten'
               PROVE  UniqueAt(e)'
  BY <1>0 DEF DedupInv, AtMostOnce, Remembered, UniqueAt
<1>2. ASSUME NEW p \in Producer, NEW f \in Event, MarkSeen(p, f)
      PROVE  UniqueAt(e)'
  <2>1. PICK evicted \in Evictions :
            /\ seen' = (seen \ evicted) \cup {f}
            /\ forgotten' = forgotten \cup evicted
    BY <1>2 DEF MarkSeen, Mark
  <2>2. e \notin forgotten /\ e \notin evicted /\ UniqueAt(e)
    BY <1>0, <2>1
  <2>3. /\ queue' = queue /\ Queued' = Queued /\ delivered' = delivered
        /\ sending[p] = Idle /\ f \notin seen /\ f # Idle /\ e # Idle
        /\ \A q \in Producer : sending'[q] = IF q = p THEN f ELSE sending[q]
    BY <1>0, <1>2, QueueAssumption DEF MarkSeen, Mark, QueueTypeOK, Queued
  <2>4. e \in InFlight' => e \in InFlight \/ e = f
    BY <2>3 DEF InFlight
  <2>5. CASE e = f
    <3>1. e \notin InFlight \cup Queued \cup delivered
      BY <2>2, <2>3, <2>5 DEF UniqueAt
    <3>2. \A q \in Producer : sending[q] # e
      BY <2>3, <3>1 DEF InFlight
    <3>3. QED
      BY <2>1, <2>2, <2>3, <2>5, <3>1, <3>2 DEF UniqueAt
  <2>6. CASE e # f
    <3>1. \A q \in Producer : sending'[q] = e => sending[q] = e
      BY <2>3, <2>6
    <3>2. e \in seen => e \in seen'
      BY <2>1, <2>2
    <3>3. QED
      BY <2>2, <2>3, <2>4, <2>6, <3>1, <3>2 DEF UniqueAt
  <2>7. QED
    BY <2>5, <2>6
<1>3. ASSUME NEW p \in Producer, Enqueue(p)
      PROVE  UniqueAt(e)'
  <2>1. /\ sending[p] \in Event
        /\ DOMAIN queue' = 1 .. Len(queue) + 1
        /\ \A i \in DOMAIN queue : queue'[i] = queue[i]
        /\ queue'[Len(queue) + 1] = sending[p]
        /\ Queued' = Queued \cup {sending[p]}
        /\ \A q \in Producer : sending'[q] = IF q = p THEN Idle ELSE sending[q]
    BY <1>0, <1>3, EnqueueMoves
  <2>2. seen' = seen /\ delivered' = delivered /\ UniqueAt(e) /\ e # Idle
    BY <1>0, <1>3, QueueAssumption DEF Enqueue
  <2>3. \A q \in Producer : sending'[q] = e => sending[q] = e /\ q # p
    BY <2>1, <2>2
  <2>4. e \in InFlight' => e \in InFlight
    BY <2>3 DEF InFlight
  <2>5. DOMAIN queue = 1 .. Len(queue) /\ Len(queue) \in Nat
    BY <1>0, LenProperties DEF QueueTypeOK
  <2>6. CASE e = sending[p]
    <3>1. e \in InFlight /\ e \notin Queued \cup delivered /\ e \in seen
      BY <2>2, <2>6 DEF UniqueAt, InFlight
    <3>2. \A i \in DOMAIN queue : queue[i] # e
      BY <3>1 DEF Queued
    <3>3. \A i \in DOMAIN queue' : queue'[i] = e => i = Len(queue) + 1
      BY <2>1, <2>5, <3>2
    <3>4. \A q \in Producer : sending'[q] # e
      BY <2>2, <2>3, <2>6 DEF UniqueAt
    <3>5. e \notin InFlight'
      BY <3>4 DEF InFlight
    <3>6. \A i, j \in DOMAIN queue' : queue'[i] = e /\ queue'[j] = e => i = j
      BY <3>3
    <3>7. QED
      BY <2>2, <3>1, <3>4, <3>5, <3>6 DEF UniqueAt
  <2>7. CASE e # sending[p]
    <3>1. \A i \in DOMAIN queue' : queue'[i] = e => i \in DOMAIN queue /\ queue[i] = e
      BY <2>1, <2>5, <2>7
    <3>2. e \in Queued' => e \in Queued
      BY <2>1, <2>7
    <3>3. QED
      BY <2>2, <2>3, <2>4, <3>1, <3>2 DEF UniqueAt
  <2>8. QED
    BY <2>6, <2>7
<1>4. ASSUME NEW p \in Producer, SendFails(p)
      PROVE  UniqueAt(e)'
  <2>1. /\ UNCHANGED <<queue, seen, delivered>> /\ Queued' = Queued
        /\ UniqueAt(e) /\ e # Idle
        /\ \A q \in Producer : sending'[q] = IF q = p THEN Idle ELSE sending[q]
    BY <1>0, <1>4, QueueAssumption DEF SendFails, QueueTypeOK, Queued
  <2>2. \A q \in Producer : sending'[q] = e => sending[q] = e
    BY <2>1
  <2>3. e \in InFlight' => e \in InFlight
    BY <2>2 DEF InFlight
  <2>4. QED
    BY <2>1, <2>2, <2>3 DEF UniqueAt
<1>5. CASE Receive
  <2>1. /\ Head(queue) \in Event /\ Head(queue) = queue[1] /\ 1 \in DOMAIN queue
        /\ \A i \in DOMAIN queue' : i \in Nat /\ i + 1 \in DOMAIN queue /\ queue'[i] = queue[i + 1]
        /\ Queued' \subseteq Queued
        /\ delivered' = delivered \cup {Head(queue)}
    BY <1>0, <1>5, ReceiveMoves
  <2>2. UNCHANGED <<seen, sending>> /\ InFlight' = InFlight /\ UniqueAt(e)
    BY <1>0, <1>5 DEF Receive, InFlight
  <2>3. Head(queue) \in Queued /\ DOMAIN queue \subseteq Nat
    BY <1>0, <2>1, LenProperties DEF Queued, QueueTypeOK
  <2>4. \A i, j \in DOMAIN queue' : queue'[i] = e /\ queue'[j] = e => i = j
    <3>1. SUFFICES ASSUME NEW i \in DOMAIN queue', NEW j \in DOMAIN queue',
                          queue'[i] = e, queue'[j] = e
                   PROVE  i = j
      OBVIOUS
    <3>2. i + 1 = j + 1 /\ i \in Nat /\ j \in Nat
      BY <2>1, <2>2, <3>1 DEF UniqueAt
    <3>3. QED
      BY <3>2
  <2>5. e = Head(queue) => e \notin Queued'
    <3>1. SUFFICES ASSUME e = Head(queue), e \in Queued' PROVE FALSE
      OBVIOUS
    <3>2. PICK i \in DOMAIN queue' : queue'[i] = e
      BY <3>1 DEF Queued
    <3>3. i + 1 = 1 /\ i \in Nat /\ i >= 1
      <4>1. i \in Nat /\ i + 1 \in DOMAIN queue /\ queue[i + 1] = e
        BY <2>1, <3>2
      <4>2. i + 1 = 1
        BY <2>1, <2>2, <3>1, <4>1 DEF UniqueAt
      <4>3. queue' \in Seq(Event)
        BY <1>0 DEF QueueShape, QueueTypeOK
      <4>4. i >= 1
        BY <3>2, <4>3, LenProperties
      <4>5. QED
        BY <4>1, <4>2, <4>4
    <3>4. QED
      BY <3>3
  <2>6. QED
    BY <2>1, <2>2, <2>3, <2>4, <2>5 DEF UniqueAt
<1>6. CASE CloseReceiver
  <2>1. /\ UNCHANGED <<seen, sending, delivered>> /\ InFlight' = InFlight
        /\ DOMAIN queue' = {} /\ Queued' = {} /\ UniqueAt(e)
    BY <1>0, <1>6 DEF CloseReceiver, InFlight, Queued
  <2>2. QED
    BY <2>1 DEF UniqueAt
<1>7. CASE BuildQueue
  <2>1. /\ sending' = sending /\ delivered' = {} /\ DOMAIN queue' = {} /\ Queued' = {}
        /\ e # Idle /\ \A p \in Producer : sending'[p] = Idle
    BY <1>7, QueueAssumption DEF BuildQueue, Queued
  <2>2. e \notin InFlight'
    BY <2>1 DEF InFlight
  <2>3. QED
    BY <2>1, <2>2 DEF UniqueAt
<1>8. CASE UNCHANGED queueVars
  <2>1. /\ UNCHANGED <<queue, seen, sending, delivered>>
        /\ InFlight' = InFlight /\ Queued' = Queued /\ UniqueAt(e)
    BY <1>0, <1>8 DEF queueVars, InFlight, Queued
  <2>2. QED
    BY <2>1 DEF UniqueAt
<1>9. QED
  BY <1>2, <1>3, <1>4, <1>5, <1>6, <1>7, <1>8 DEF QueueNext

(* event_queue.rs: the same event is never twice in the pipeline unless    *)
(* the dedup set forgot it, whatever the tasks that send.                  *)
THEOREM DedupCorrect == QueueSpec => []AtMostOnce
<1>1. QueueSpec => []DedupInv
  BY DedupInit, DedupStep, PTL DEF QueueSpec
<1>2. DedupInv => AtMostOnce
  BY DEF DedupInv
<1>3. QED
  BY <1>1, <1>2, PTL

-----------------------------------------------------------------------------
(* Nothing is lost.                                                        *)
LossInv == QueueShape /\ NothingLost

(* Every step keeps what is in the set on its way or received.             *)
LEMMA LossStep == LossInv /\ [QueueNext]_queueVars => LossInv'
<1> SUFFICES ASSUME LossInv, [QueueNext]_queueVars
             PROVE  LossInv'
  OBVIOUS
<1>0. QueueShape /\ QueueShape' /\ QueueTypeOK /\ NothingLost
  BY ShapeStep DEF LossInv, QueueShape
<1>1. SUFFICES ASSUME ~closed', NEW e \in seen'
               PROVE  e \in InFlight' \cup Queued' \cup delivered'
  BY <1>0 DEF LossInv, NothingLost
<1>2. ASSUME NEW p \in Producer, NEW f \in Event, MarkSeen(p, f)
      PROVE  e \in InFlight' \cup Queued' \cup delivered'
  <2>1. /\ Queued' = Queued /\ delivered' = delivered /\ closed' = closed
        /\ sending[p] = Idle /\ f # Idle
        /\ \A q \in Producer : sending'[q] = IF q = p THEN f ELSE sending[q]
    BY <1>0, <1>2, QueueAssumption DEF MarkSeen, Mark, QueueTypeOK, Queued
  <2>2. e \in seen \/ e = f
    BY <1>1, <1>2 DEF MarkSeen, Mark
  <2>3. f \in InFlight' /\ InFlight \subseteq InFlight'
    BY <2>1 DEF InFlight
  <2>4. QED
    BY <1>0, <1>1, <2>1, <2>2, <2>3 DEF NothingLost
<1>3. ASSUME NEW p \in Producer, Enqueue(p)
      PROVE  e \in InFlight' \cup Queued' \cup delivered'
  <2>1. /\ Queued' = Queued \cup {sending[p]}
        /\ \A q \in Producer : sending'[q] = IF q = p THEN Idle ELSE sending[q]
    BY <1>0, <1>3, EnqueueMoves
  <2>2. UNCHANGED <<seen, delivered, closed>>
    BY <1>3 DEF Enqueue
  <2>3. InFlight \subseteq InFlight' \cup {sending[p]}
    BY <2>1 DEF InFlight
  <2>4. QED
    BY <1>0, <1>1, <2>1, <2>2, <2>3 DEF NothingLost
<1>4. ASSUME NEW p \in Producer, SendFails(p)
      PROVE  e \in InFlight' \cup Queued' \cup delivered'
  BY <1>1, <1>4 DEF SendFails
<1>5. CASE Receive
  <2>1. Queued \subseteq Queued' \cup {Head(queue)} /\ delivered' = delivered \cup {Head(queue)}
    BY <1>0, <1>5, ReceiveMoves
  <2>2. UNCHANGED <<seen, closed>> /\ InFlight' = InFlight
    BY <1>5 DEF Receive, InFlight
  <2>3. QED
    BY <1>0, <1>1, <2>1, <2>2 DEF NothingLost
<1>6. CASE CloseReceiver
  BY <1>1, <1>6 DEF CloseReceiver
<1>7. CASE BuildQueue
  BY <1>1, <1>7 DEF BuildQueue
<1>8. CASE UNCHANGED queueVars
  <2>1. UNCHANGED <<seen, closed, delivered>> /\ InFlight' = InFlight /\ Queued' = Queued
    BY <1>8 DEF queueVars, InFlight, Queued
  <2>2. QED
    BY <1>0, <1>1, <2>1 DEF NothingLost
<1>9. QED
  BY <1>2, <1>3, <1>4, <1>5, <1>6, <1>7, <1>8 DEF QueueNext

(* event_queue.rs: while the processor lives, an event whose key is in the *)
(* dedup set, and so is refused from then on, has not been lost.           *)
THEOREM NothingLostCorrect == QueueSpec => []NothingLost
<1>1. QueueInit => LossInv
  BY ShapeInit DEF LossInv, NothingLost, QueueInit
<1>2. QueueSpec => []LossInv
  BY <1>1, LossStep, PTL DEF QueueSpec
<1>3. LossInv => NothingLost
  BY DEF LossInv
<1>4. QED
  BY <1>2, <1>3, PTL

-----------------------------------------------------------------------------
(* Every action of Consumer, with snapshots taken after h events.          *)
ConsumerStep(h) ==
    \/ Consume \/ Finish \/ SetStop \/ Joined \/ Drop \/ Rebuild
    \/ \E p \in Pool : Fetch(p, h) \/ Insert(p) \/ Withdraw(p)

-----------------------------------------------------------------------------
(* The smaller of two numbers.                                             *)
LEMMA MinOfTwo ==
    ASSUME NEW a \in Nat, NEW b \in Nat
    PROVE  Min({a, b}) \in {a, b} /\ Min({a, b}) <= a /\ Min({a, b}) <= b
  <1>1. \E x \in {a, b} : \A y \in {a, b} : x <= y
    <2>1. CASE a <= b
      BY <2>1
    <2>2. CASE b <= a
      BY <2>2
    <2> QED
      BY <2>1, <2>2
  <1> QED
    BY <1>1 DEF Min

(* Histories are finite sequences.                                         *)
LEMMA Lengths == \A c \in Contract : Len(History[c]) \in Nat /\ Positions(c) = 1 .. Len(History[c])
  <1> SUFFICES ASSUME NEW c \in Contract
               PROVE  Len(History[c]) \in Nat /\ Positions(c) = 1 .. Len(History[c])
    OBVIOUS
  <1>1. History[c] \in Seq([tx : Tx, cell : Cell \cup {NoCell}])
    BY ChainAssumption
  <1> QED
    BY <1>1 DEF Positions

(* Every event belongs to a transaction.                                   *)
LEMMA TxType == \A c \in Contract : \A i \in Positions(c) : TxAt(c, i) \in Tx
  <1> SUFFICES ASSUME NEW c \in Contract, NEW i \in Positions(c) PROVE TxAt(c, i) \in Tx
    OBVIOUS
  <1>1. History[c] \in Seq([tx : Tx, cell : Cell \cup {NoCell}])
    BY ChainAssumption
  <1>2. History[c][i] \in [tx : Tx, cell : Cell \cup {NoCell}]
    BY <1>1, Lengths, ElementOfSeq
  <1> QED
    BY <1>2 DEF TxAt

(* Heights are natural numbers.                                            *)
LEMMA HeightsAreNat == Heights \subseteq Nat
  BY Lengths DEF Heights

(* The events of a contract are Event's pairs.                             *)
LEMMA EventType == \A c \in Contract : \A i \in Positions(c) : <<c, i>> \in Event
  BY ConsumerAssumption

(* ... and every pair of Event is a position of its contract.              *)
LEMMA EventParts == \A e \in Event : e[1] \in Contract /\ e[2] \in Positions(e[1]) /\ e[2] \in Nat
  BY ConsumerAssumption, Lengths

(* What is read by RPC has the type of the mirror.                         *)
LEMMA SnapshotsType ==
    ASSUME NEW ps, NEW h, NEW old, NEW m \in Snapshots(ps, h, old)
    PROVE  m \in [Cell -> Nat]
  BY HeightsAreNat DEF Snapshots

(* Pools subscribe to contracts.                                           *)
LEMMA TopicsType == \A p \in Pool : TopicsOf(p) \subseteq Contract
  BY DEF TopicsOf

-----------------------------------------------------------------------------
(* The consuming side uses the queue as EventQueue allows.                 *)
LEMMA ConsumerQueue ==
    ASSUME NEW h, ConsumerStep(h)
    PROVE  QueueNext \/ UNCHANGED queueVars
  <1>1. CASE Consume \/ Finish \/ Rebuild
    BY <1>1 DEF Consume, Finish, Rebuild, QueueNext
  <1>2. CASE SetStop \/ Joined \/ Drop
    BY <1>2 DEF SetStop, Joined, Drop
  <1>3. ASSUME NEW p \in Pool, Fetch(p, h) \/ Insert(p) \/ Withdraw(p) PROVE UNCHANGED queueVars
    BY <1>3 DEF Fetch, Insert, Withdraw
  <1> QED
    BY <1>1, <1>2, <1>3 DEF ConsumerStep

(* It starts with its variables typed ...                                  *)
LEMMA ConsumerStartTypes ==
    ASSUME NEW h, ConsumerInit(h)
    PROVE  ConsumerTypeOK
  <1>1. topics \in SUBSET Contract
    BY TopicsType, ConsumerAssumption DEF ConsumerInit
  <1>2. mirror \in [Cell -> Nat]
    BY SnapshotsType DEF ConsumerInit
  <1>3. pools \in [Pool -> {"outside", "fetched", "live"}]
    BY DEF ConsumerInit
  <1> QED
    BY <1>1, <1>2, <1>3 DEF ConsumerInit, ConsumerTypeOK

(* ... the event it receives is one that is on chain, so the cell written  *)
(* gets a position ...                                                     *)
LEMMA ConsumeType ==
    ASSUME QueueTypeOK, ConsumerTypeOK, Consume
    PROVE  ConsumerTypeOK'
  <1>1. queue \in Seq(Event) /\ queue # <<>>
    BY DEF Consume, Receive, QueueTypeOK
  <1>2. Head(queue) \in Event
    BY <1>1, HeadTailProperties
  <1>3. Head(queue)[2] \in Nat
    BY <1>2, EventParts
  <1>4. Dispatch(Head(queue)[1], Head(queue)[2])
    BY DEF Consume
  <1>5. mirror' \in [Cell -> Nat] /\ applied' \in [Contract -> Nat]
    BY <1>3, <1>4 DEF Dispatch, ConsumerTypeOK
  <1>6. listening' \in BOOLEAN /\ UNCHANGED <<topics, pools, handle>>
    BY DEF Consume, StopFlag
  <1> QED
    BY <1>5, <1>6 DEF ConsumerTypeOK

(* ... and every action keeps the types.                                   *)
LEMMA ConsumerTypes ==
    ASSUME NEW h, QueueTypeOK, ConsumerTypeOK, ConsumerStep(h)
    PROVE  ConsumerTypeOK'
  <1>1. CASE Finish \/ SetStop \/ Joined \/ Drop \/ Rebuild
    BY <1>1 DEF Finish, SetStop, Joined, Drop, Rebuild, ConsumerTypeOK
  <1>2. ASSUME NEW p \in Pool, Fetch(p, h) PROVE ConsumerTypeOK'
    <2>1. mirror' \in [Cell -> Nat]
      BY <1>2, SnapshotsType DEF Fetch
    <2>2. pools' \in [Pool -> {"outside", "fetched", "live"}]
      BY <1>2 DEF Fetch, ConsumerTypeOK
    <2> QED
      BY <1>2, <2>1, <2>2 DEF Fetch, ConsumerTypeOK
  <1>3. ASSUME NEW p \in Pool, Insert(p) PROVE ConsumerTypeOK'
    <2>1. topics' \in SUBSET Contract
      BY <1>3, TopicsType DEF Insert, ConsumerTypeOK
    <2>2. pools' \in [Pool -> {"outside", "fetched", "live"}]
      BY <1>3 DEF Insert, ConsumerTypeOK
    <2> QED
      BY <1>3, <2>1, <2>2 DEF Insert, ConsumerTypeOK
  <1>4. ASSUME NEW p \in Pool, Withdraw(p) PROVE ConsumerTypeOK'
    BY <1>4 DEF Withdraw, ConsumerTypeOK
  <1> QED
    BY <1>1, <1>2, <1>3, <1>4, ConsumeType DEF ConsumerStep
-----------------------------------------------------------------------------
(* From the order in which a source sends to the order in which the mirror *)
(* is written.  Both sources show that what they send of a contract is     *)
(* later than all they sent of it before and leaves no gap; the rest is    *)
(* here.  Order matters for the contracts that write an initial pool.      *)
Followed == {Stream[x] : x \in Mirrored}

(* Queue and pushes under way hold the events of each contract in its      *)
(* order, and there is one push of a contract at a time.                   *)
QueuedInOrder ==
    /\ \A i, j \in DOMAIN queue :
          i < j /\ queue[i][1] = queue[j][1] /\ queue[i][1] \in Followed =>
              queue[i][2] < queue[j][2]
    /\ \A e \in Queued, f \in InFlight :
          e[1] = f[1] /\ e[1] \in Followed => e[2] < f[2]
    /\ \A p, q \in Producer :
          sending[p] # Idle /\ sending[q] # Idle
          /\ sending[p][1] = sending[q][1] /\ sending[p][1] \in Followed => p = q

(* What is not dispatched yet comes after all that was.                    *)
Undispatched ==
    /\ Queued \cup InFlight \subseteq seen
    /\ \A e \in Queued \cup InFlight : e[1] \in Followed => applied[e[1]] < e[2]
    /\ \A e \in delivered : e[1] \in Followed => e[2] <= applied[e[1]]
    /\ \A c \in Followed : applied[c] # 0 => <<c, applied[c]>> \in seen

DeliveryInv == QueuedInOrder /\ Undispatched

(* What was sent leaves out no event before it that is decodable, except   *)
(* ones the snapshot (base[c] events of c) contains, and then all before   *)
(* the first that was sent.                                                *)
NoGap(base) ==
    \A e \in seen : e[1] \in Followed =>
        \A j \in Positions(e[1]) : j < e[2] /\ Decoded(e[1], j) =>
            \/ <<e[1], j>> \in seen
            \/ j <= base[e[1]] /\ \A f \in seen : f[1] = e[1] => j < f[2]

(* Followed contracts are topics of initial pools.                         *)
LEMMA FollowedIsTopic ==
    /\ Followed \subseteq Contract
    /\ Followed \subseteq UNION {TopicsOf(p) : p \in InitialPools}
  <1> SUFFICES ASSUME NEW x \in Mirrored
               PROVE  /\ Stream[x] \in Contract
                      /\ \E p \in InitialPools : Stream[x] \in TopicsOf(p)
    BY DEF Followed
  <1>1. x \in Cell /\ Stream[x] \in Contract
    BY ChainAssumption
  <1>2. Owner[x] \in InitialPools /\ TopicCount[Owner[x]][Stream[x]] > 0
    BY <1>1, ConsumerAssumption
  <1> QED
    BY <1>1, <1>2 DEF TopicsOf

(* An event is the pair of its contract and its position.                  *)
LEMMA EventPair ==
    /\ \A e \in Event : e = <<e[1], e[2]>> /\ e[2] \in Nat \ {0}
    /\ \A e, f \in Event : e[1] = f[1] /\ e[2] = f[2] => e = f
  <1>1. \A e \in Event : e = <<e[1], e[2]>>
    BY ConsumerAssumption
  <1>2. \A e \in Event : e[2] \in Nat \ {0}
    BY EventParts, Lengths
  <1> QED
    BY <1>1, <1>2

(* Nothing is queued or dispatched at the start.                           *)
LEMMA DeliveryInit ==
    ASSUME NEW h, ConsumerInit(h)
    PROVE  DeliveryInv
  <1>1. /\ DOMAIN queue = {} /\ Queued = {} /\ InFlight = {} /\ delivered = {}
        /\ \A p \in Producer : sending[p] = Idle
        /\ applied = [c \in Contract |-> 0]
    BY DEF ConsumerInit, QueueInit, Queued, InFlight
  <1> QED
    BY <1>1, FollowedIsTopic DEF DeliveryInv, QueuedInOrder, Undispatched

(* A source marks e, later than what it sent before of its contract.       *)
LEMMA DeliveryMark ==
    ASSUME QueueTypeOK, DeliveryInv, NEW p \in Producer, NEW e \in Event,
           seen' = seen \cup {e}, sending' = [sending EXCEPT ![p] = e], sending[p] = Idle,
           UNCHANGED <<queue, delivered, applied>>,
           e[1] \in Followed =>
              /\ \A f \in seen : f[1] = e[1] => f[2] < e[2]
              /\ \A q \in Producer : sending[q] # Idle => sending[q][1] # e[1]
    PROVE  DeliveryInv'
  <1>1. /\ Queued' = Queued /\ InFlight' \subseteq InFlight \cup {e}
        /\ \A q \in Producer : sending'[q] = IF q = p THEN e ELSE sending[q]
    BY DEF QueueTypeOK, Queued, InFlight
  <1>2. e[1] \in Followed => applied[e[1]] < e[2]
    <2> SUFFICES ASSUME e[1] \in Followed PROVE applied[e[1]] < e[2]
      OBVIOUS
    <2>1. CASE applied[e[1]] = 0
      BY <2>1, EventPair
    <2>2. CASE applied[e[1]] # 0
      <3>1. <<e[1], applied[e[1]]>> \in seen
        BY <2>2 DEF DeliveryInv, Undispatched
      <3> QED
        BY <3>1
    <2> QED
      BY <2>1, <2>2
  <1>3. Undispatched'
    <2>1. Queued' \cup InFlight' \subseteq seen'
      BY <1>1 DEF DeliveryInv, Undispatched
    <2>2. \A f \in Queued' \cup InFlight' : f[1] \in Followed => applied'[f[1]] < f[2]
      BY <1>1, <1>2 DEF DeliveryInv, Undispatched
    <2> QED
      BY <2>1, <2>2 DEF DeliveryInv, Undispatched
  <1>4. \A f \in Queued', g \in InFlight' : f[1] = g[1] /\ f[1] \in Followed => f[2] < g[2]
    <2>1. \A f \in Queued : f[1] = e[1] /\ f[1] \in Followed => f[2] < e[2]
      BY DEF DeliveryInv, Undispatched
    <2> QED
      BY <1>1, <2>1 DEF DeliveryInv, QueuedInOrder
  <1>5. \A q, r \in Producer :
           sending'[q] # Idle /\ sending'[r] # Idle
           /\ sending'[q][1] = sending'[r][1] /\ sending'[q][1] \in Followed => q = r
    BY <1>1 DEF DeliveryInv, QueuedInOrder
  <1>6. QueuedInOrder'
    BY <1>4, <1>5 DEF DeliveryInv, QueuedInOrder
  <1> QED
    BY <1>3, <1>6 DEF DeliveryInv

(* A push ends, with the event in the queue or lost.                       *)
LEMMA DeliveryPush ==
    ASSUME QueueTypeOK, DeliveryInv, NEW p \in Producer, Enqueue(p) \/ SendFails(p),
           UNCHANGED consumerVars
    PROVE  DeliveryInv'
  <1>0. applied' = applied /\ UNCHANGED <<seen, delivered>>
    BY DEF consumerVars, Enqueue, SendFails
  <1>1. /\ sending' = [sending EXCEPT ![p] = Idle] /\ sending[p] # Idle
        /\ \A q \in Producer : sending'[q] = IF q = p THEN Idle ELSE sending[q]
        /\ InFlight' \subseteq InFlight /\ sending[p] \in InFlight
    BY DEF Enqueue, SendFails, QueueTypeOK, InFlight
  <1>2. \A q, r \in Producer :
           sending'[q] # Idle /\ sending'[r] # Idle
           /\ sending'[q][1] = sending'[r][1] /\ sending'[q][1] \in Followed => q = r
    BY <1>1 DEF DeliveryInv, QueuedInOrder
  <1>3. CASE Enqueue(p)
    <2>1. /\ sending[p] \in Event
          /\ DOMAIN queue' = 1 .. Len(queue) + 1 /\ DOMAIN queue = 1 .. Len(queue) /\ Len(queue) \in Nat
          /\ \A i \in DOMAIN queue : queue'[i] = queue[i]
          /\ queue'[Len(queue) + 1] = sending[p]
          /\ Queued' = Queued \cup {sending[p]}
      BY <1>3, EnqueueMoves DEF QueueTypeOK
    <2>2. Undispatched'
      BY <1>0, <1>1, <2>1 DEF DeliveryInv, Undispatched
    <2>3. ASSUME NEW i \in DOMAIN queue', NEW j \in DOMAIN queue', i < j,
                 queue'[i][1] = queue'[j][1], queue'[i][1] \in Followed
          PROVE  queue'[i][2] < queue'[j][2]
      <3>1. i \in DOMAIN queue /\ queue'[i] = queue[i]
        BY <2>1, <2>3
      <3>2. CASE j \in DOMAIN queue
        BY <2>1, <2>3, <3>1, <3>2 DEF DeliveryInv, QueuedInOrder
      <3>3. CASE j = Len(queue) + 1
        <4>1. queue[i] \in Queued
          BY <3>1 DEF Queued
        <4> QED
          BY <1>1, <2>1, <2>3, <3>1, <3>3, <4>1 DEF DeliveryInv, QueuedInOrder
      <3> QED
        BY <2>1, <3>2, <3>3
    <2>4. \A e \in Queued', f \in InFlight' : e[1] = f[1] /\ e[1] \in Followed => e[2] < f[2]
      <3> SUFFICES ASSUME NEW e \in Queued', NEW f \in InFlight', e[1] = f[1], e[1] \in Followed
                   PROVE  e[2] < f[2]
        OBVIOUS
      <3>1. CASE e \in Queued
        BY <1>1, <3>1 DEF DeliveryInv, QueuedInOrder
      <3>2. CASE e = sending[p]
        <4>1. PICK q \in Producer : f = sending'[q] /\ f # Idle
          BY DEF InFlight
        <4>2. q # p /\ sending[q] = f
          BY <1>1, <4>1
        <4> QED
          BY <1>1, <3>2, <4>1, <4>2 DEF DeliveryInv, QueuedInOrder
      <3> QED
        BY <2>1, <3>1, <3>2
    <2>5. QueuedInOrder'
      BY <1>2, <2>3, <2>4 DEF QueuedInOrder
    <2> QED
      BY <2>2, <2>5 DEF DeliveryInv
  <1>4. CASE SendFails(p)
    <2>1. queue' = queue /\ Queued' = Queued
      BY <1>4 DEF SendFails, Queued
    <2>2. Undispatched'
      BY <1>0, <1>1, <2>1 DEF DeliveryInv, Undispatched
    <2>3. QueuedInOrder'
      BY <1>1, <1>2, <2>1 DEF DeliveryInv, QueuedInOrder
    <2> QED
      BY <2>2, <2>3 DEF DeliveryInv
  <1> QED
    BY <1>3, <1>4

(* The processor dispatches the oldest event of the queue.                 *)
LEMMA DeliveryConsume ==
    ASSUME QueueTypeOK, ConsumerTypeOK, DeliveryInv, Consume
    PROVE  DeliveryInv'
  <1> DEFINE e == Head(queue)
  <1>1. Receive /\ applied' = [applied EXCEPT ![e[1]] = e[2]] /\ UNCHANGED <<seen, sending>>
    BY DEF Consume, Dispatch, Receive
  <1>2. /\ e \in Event /\ e = queue[1] /\ 1 \in DOMAIN queue
        /\ \A i \in DOMAIN queue' : i \in Nat /\ i + 1 \in DOMAIN queue /\ queue'[i] = queue[i + 1]
        /\ Queued' \subseteq Queued
        /\ delivered' = delivered \cup {e}
    BY <1>1, ReceiveMoves
  <1>3. e[1] \in Contract /\ e \in Queued /\ InFlight' = InFlight
    BY <1>1, <1>2, EventParts DEF Queued, InFlight
  <1>4. applied'[e[1]] = e[2] /\ \A c \in Contract : c # e[1] => applied'[c] = applied[c]
    BY <1>1, <1>3 DEF ConsumerTypeOK
  <1>5. \A q \in Queued' : q[1] = e[1] /\ e[1] \in Followed => e[2] < q[2]
    <2> SUFFICES ASSUME NEW i \in DOMAIN queue', queue'[i][1] = e[1], e[1] \in Followed
                 PROVE  e[2] < queue'[i][2]
      BY DEF Queued
    <2>1. i # 0
      BY <1>1, HeadTailProperties DEF Receive, QueueTypeOK
    <2>2. 1 < i + 1
      BY <1>2, <2>1
    <2> QED
      BY <1>2, <2>2 DEF DeliveryInv, QueuedInOrder
  <1>6. \A f \in InFlight : f[1] = e[1] /\ e[1] \in Followed => e[2] < f[2]
    BY <1>3 DEF DeliveryInv, QueuedInOrder
  <1>7. \A f \in Queued \cup InFlight \cup delivered : f[1] \in Contract /\ f[2] \in Nat
    <2>1. Queued \cup InFlight \cup delivered \subseteq Event
      BY DEF Queued, InFlight, QueueTypeOK
    <2> QED
      BY <2>1, EventParts
  <1>8. Undispatched'
    <2>1. Queued' \cup InFlight' \subseteq seen'
      BY <1>1, <1>2, <1>3 DEF DeliveryInv, Undispatched
    <2>2. \A f \in Queued' \cup InFlight' : f[1] \in Followed => applied'[f[1]] < f[2]
      BY <1>2, <1>3, <1>4, <1>5, <1>6, <1>7 DEF DeliveryInv, Undispatched
    <2>3. \A d \in delivered' : d[1] \in Followed => d[2] <= applied'[d[1]]
      <3> SUFFICES ASSUME NEW d \in delivered, d[1] \in Followed
                   PROVE  d[2] <= applied'[d[1]]
        BY <1>2, <1>4, EventParts
      <3>1. d[2] <= applied[d[1]] /\ d[1] \in Contract /\ d[2] \in Nat /\ applied[d[1]] \in Nat
        BY <1>7 DEF DeliveryInv, Undispatched, ConsumerTypeOK
      <3>2. CASE d[1] = e[1]
        <4>1. applied[e[1]] < e[2]
          BY <1>3, <3>2 DEF DeliveryInv, Undispatched
        <4> QED
          BY <1>2, <1>4, <3>1, <3>2, <4>1, EventParts
      <3>3. CASE d[1] # e[1]
        BY <1>4, <3>1, <3>3
      <3> QED
        BY <3>2, <3>3
    <2>4. \A c \in Followed : applied'[c] # 0 => <<c, applied'[c]>> \in seen'
      <3> SUFFICES ASSUME NEW c \in Followed, applied'[c] # 0
                   PROVE  <<c, applied'[c]>> \in seen
        BY <1>1
      <3>1. CASE c = e[1]
        <4>1. e \in seen /\ e = <<e[1], e[2]>>
          BY <1>2, <1>3, EventPair DEF DeliveryInv, Undispatched
        <4> QED
          BY <1>4, <3>1, <4>1
      <3>2. CASE c # e[1]
        BY <1>4, <3>2, FollowedIsTopic DEF DeliveryInv, Undispatched
      <3> QED
        BY <3>1, <3>2
    <2> QED
      BY <2>1, <2>2, <2>3, <2>4 DEF Undispatched
  <1>9. QueuedInOrder'
    <2>1. ASSUME NEW i \in DOMAIN queue', NEW j \in DOMAIN queue', i < j,
                 queue'[i][1] = queue'[j][1], queue'[i][1] \in Followed
          PROVE  queue'[i][2] < queue'[j][2]
      <3>1. i + 1 < j + 1
        BY <1>2, <2>1
      <3> QED
        BY <1>2, <2>1, <3>1 DEF DeliveryInv, QueuedInOrder
    <2> QED
      BY <1>1, <1>2, <1>3, <2>1 DEF DeliveryInv, QueuedInOrder
  <1> QED
    BY <1>8, <1>9 DEF DeliveryInv

(* The other steps: the queue is dropped, or nothing of this moves.        *)
LEMMA DeliveryRest ==
    ASSUME DeliveryInv, Finish \/ UNCHANGED <<queueVars, applied>>
    PROVE  DeliveryInv'
  <1>1. CASE UNCHANGED <<queueVars, applied>>
    BY <1>1 DEF DeliveryInv, QueuedInOrder, Undispatched, Queued, InFlight, queueVars
  <1>2. CASE Finish
    <2>1. queue' = <<>> /\ UNCHANGED <<seen, sending, delivered, applied>>
      BY <1>2 DEF Finish, CloseReceiver
    <2>2. DOMAIN queue' = {} /\ Queued' = {} /\ InFlight' = InFlight
      BY <2>1 DEF Queued, InFlight
    <2> QED
      BY <2>1, <2>2 DEF DeliveryInv, QueuedInOrder, Undispatched
  <1> QED
    BY <1>1, <1>2

(* So the event received is the next one of its contract: none is dis-     *)
(* patched twice, and only events of the snapshot are left out.            *)
LEMMA NextInOrder ==
    ASSUME QueueTypeOK, ConsumerTypeOK, NothingLost, DeliveryInv, NEW base, NoGap(base),
           Receive, NEW e, e = Head(queue)
    PROVE  /\ e \in Event /\ e \in seen
           /\ e[1] \in Followed =>
                 /\ applied[e[1]] < e[2]
                 /\ \A j \in applied[e[1]] + 1 .. e[2] - 1 :
                       Decoded(e[1], j) => applied[e[1]] = 0 /\ j <= base[e[1]]
  <1>1. e \in Event /\ e = queue[1] /\ 1 \in DOMAIN queue
    BY ReceiveMoves
  <1>2. e \in Queued /\ e \in seen
    BY <1>1 DEF Queued, DeliveryInv, Undispatched
  <1>3. e[1] \in Contract /\ e[2] \in Positions(e[1]) /\ e[2] \in Nat \ {0} /\ e = <<e[1], e[2]>>
    BY <1>1, EventParts, EventPair
  <1> DEFINE c == e[1]
  <1>4. ASSUME c \in Followed
        PROVE  /\ applied[c] < e[2]
               /\ \A j \in applied[c] + 1 .. e[2] - 1 :
                     Decoded(c, j) => applied[c] = 0 /\ j <= base[c]
    <2>1. applied[c] < e[2] /\ applied[c] \in Nat
      BY <1>2, <1>3, <1>4, SMTT(30) DEF DeliveryInv, Undispatched, ConsumerTypeOK
    <2> SUFFICES ASSUME NEW j \in applied[c] + 1 .. e[2] - 1, Decoded(c, j)
                 PROVE  applied[c] = 0 /\ j <= base[c]
      BY <2>1
    <2>2. j \in Nat /\ j \in Positions(c) /\ applied[c] < j /\ j < e[2]
      BY <1>3, <2>1, Lengths
    <2> DEFINE f == <<c, j>>
    <2>3. f \in Event /\ f[1] = c /\ f[2] = j
      BY <1>3, <2>2, EventType
    <2> HIDE DEF f
    <2>4. f \notin seen
      <3> SUFFICES ASSUME f \in seen PROVE FALSE
        OBVIOUS
      <3>1. f \in InFlight \cup Queued \cup delivered
        BY DEF Receive, NothingLost
      <3>2. CASE f \in InFlight
        BY <1>2, <1>3, <1>4, <2>2, <2>3, <3>2 DEF DeliveryInv, QueuedInOrder
      <3>3. CASE f \in Queued
        <4>1. PICK i \in DOMAIN queue : queue[i] = f
          BY <3>3 DEF Queued
        <4>2. i # 1
          BY <1>1, <2>2, <2>3, <4>1
        <4>3. 1 < i
          BY <4>1, <4>2 DEF QueueTypeOK
        <4>4. e[2] < f[2]
          BY <1>1, <1>4, <2>3, <4>1, <4>3 DEF DeliveryInv, QueuedInOrder
        <4> QED
          BY <1>3, <2>2, <2>3, <4>4
      <3>4. CASE f \in delivered
        BY <1>4, <2>1, <2>2, <2>3, <3>4 DEF DeliveryInv, Undispatched
      <3> QED
        BY <3>1, <3>2, <3>3, <3>4
    <2>5. j <= base[c] /\ \A g \in seen : g[1] = c => j < g[2]
      BY <1>2, <1>4, <2>2, <2>4 DEF NoGap, f
    <2>6. applied[c] = 0
      <3> SUFFICES ASSUME applied[c] # 0 PROVE FALSE
        OBVIOUS
      <3>1. <<c, applied[c]>> \in seen
        BY <1>4 DEF DeliveryInv, Undispatched
      <3> QED
        BY <2>1, <2>2, <2>5, <3>1
    <2> QED
      BY <2>5, <2>6
  <1> QED
    BY <1>1, <1>2, <1>4

(* A dispatch writes the cells of the initial pools ...                    *)
LEMMA DispatchWrites ==
    ASSUME InitialPools \subseteq Live, NEW c, NEW i, Dispatch(c, i)
    PROVE  InitialMirror' = [x \in Cell |-> IF x \in Mirrored /\ Writes(c, i, x)
                                            THEN i ELSE InitialMirror[x]]
  <1>1. \A x \in Cell : x \in Mirrored => Owner[x] \in Live
    BY ConsumerAssumption
  <1> QED
    BY <1>1 DEF Dispatch, InitialMirror

(* ... and a pool that is read meanwhile is none of them.                  *)
LEMMA FetchSpares ==
    ASSUME InitialPools \subseteq Live, NEW p \in Pool, NEW h, Fetch(p, h)
    PROVE  InitialMirror' = InitialMirror
  <1>1. p \notin InitialPools
    BY DEF Fetch, Live
  <1>2. \A x \in Mirrored : x \in Cell /\ Owner[x] # p
    BY <1>1, ConsumerAssumption
  <1>3. \A x \in Mirrored : mirror'[x] = mirror[x]
    BY <1>2 DEF Fetch, Snapshots
  <1> QED
    BY <1>3 DEF InitialMirror
=============================================================================
