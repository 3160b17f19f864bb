----------------------------- MODULE EventQueue -----------------------------
(***************************************************************************)
(* The bounded event queue with (tx_id, event_index) deduplication, from   *)
(* collector/event_queue.rs, on its own: any number of tasks that hold a   *)
(* clone of EventSender, and the one event processor that holds the        *)
(* receiver.  Every ingestion source pushes through it, so what is shown   *)
(* here holds whatever the sources send and in whatever order.             *)
(*                                                                         *)
(* send_dedup is two steps, as in the code: the key is looked up and       *)
(* inserted under the lock (MarkSeen), and the event is pushed after the   *)
(* lock is released, waiting while the channel is full (Enqueue).          *)
(***************************************************************************)
EXTENDS Naturals, Sequences, FiniteSets, FiniteSetsExt

CONSTANTS
    Event,      \* the events; an event is its key (tx_id, event_index)
    Producer,   \* the tasks that own a clone of EventSender
    Capacity,   \* config.queue_capacity, the bound of the mpsc channel
    SeenCap,    \* seen_cap, the bound of the dedup set
    Idle        \* "this producer is not inside send_dedup"

ASSUME QueueAssumption ==
    /\ Capacity \in Nat \ {0}           \* tokio's channel(0) panics
    /\ SeenCap \in Nat /\ SeenCap >= 2  \* the code's smallest value is 256
    /\ Idle \notin Event

VARIABLES
    queue,      \* the channel, oldest event first
    seen,       \* the dedup set
    sending,    \* sending[p]: the event p has marked and not yet pushed
    closed,     \* the receiver was dropped
    delivered,  \* history: events the processor has received
    forgotten   \* history: events ever evicted from the dedup set

queueVars == <<queue, seen, sending, closed, delivered, forgotten>>

QueueInit ==
    /\ queue = <<>>
    /\ seen = {}
    /\ sending = [p \in Producer |-> Idle]
    /\ closed = FALSE
    /\ delivered = {}
    /\ forgotten = {}

-----------------------------------------------------------------------------
(* The operators whose name ends in _Fault are plausible bugs of the       *)
(* operator they precede; the mutation runs put them in its place.         *)

(* The sets of keys an insertion may evict: none below the cap, else any   *)
(* SeenCap / 2 of them, for a HashSet iterates in no particular order.     *)
Late_Fault == IF Cardinality(seen) > SeenCap THEN kSubset(SeenCap \div 2, seen) ELSE {{}}
Evictions == IF Cardinality(seen) >= SeenCap THEN kSubset(SeenCap \div 2, seen) ELSE {{}}

(* send_dedup, under the lock: a key that is not in the set goes in.       *)
Mark(p, e) ==
    /\ \E evicted \in Evictions :
          /\ seen' = (seen \ evicted) \cup {e}
          /\ forgotten' = forgotten \cup evicted
    /\ sending' = [sending EXCEPT ![p] = e]
    /\ UNCHANGED <<queue, closed, delivered>>

MarkSeen(p, e) == sending[p] = Idle /\ e \notin seen /\ Mark(p, e)

(* tx.send(..).await outside the lock: waits for a free slot.              *)
TrySend_Fault(p) ==
    /\ sending[p] # Idle /\ ~closed
    /\ queue' = IF Len(queue) < Capacity THEN Append(queue, sending[p]) ELSE queue
    /\ sending' = [sending EXCEPT ![p] = Idle]
    /\ UNCHANGED <<seen, closed, delivered, forgotten>>

OneShort_Fault(p) ==
    /\ sending[p] # Idle /\ ~closed
    /\ Len(queue) + 1 < Capacity
    /\ queue' = Append(queue, sending[p])
    /\ sending' = [sending EXCEPT ![p] = Idle]
    /\ UNCHANGED <<seen, closed, delivered, forgotten>>

OneOver_Fault(p) ==
    /\ sending[p] # Idle /\ ~closed
    /\ Len(queue) <= Capacity
    /\ queue' = Append(queue, sending[p])
    /\ sending' = [sending EXCEPT ![p] = Idle]
    /\ UNCHANGED <<seen, closed, delivered, forgotten>>

Enqueue(p) ==
    /\ sending[p] # Idle /\ ~closed
    /\ Len(queue) < Capacity
    /\ queue' = Append(queue, sending[p])
    /\ sending' = [sending EXCEPT ![p] = Idle]
    /\ UNCHANGED <<seen, closed, delivered, forgotten>>

(* The receiver is gone: send returns Err and the event is lost.           *)
SendFails(p) ==
    /\ sending[p] # Idle /\ closed
    /\ sending' = [sending EXCEPT ![p] = Idle]
    /\ UNCHANGED <<queue, seen, closed, delivered, forgotten>>

(* rx.recv() in the event processor.                                       *)
Receive ==
    /\ ~closed /\ queue # <<>>
    /\ delivered' = delivered \cup {Head(queue)}
    /\ queue' = Tail(queue)
    /\ UNCHANGED <<seen, sending, closed, forgotten>>

(* The processor returns: its receiver is dropped with what it still held. *)
CloseReceiver ==
    /\ ~closed
    /\ closed' = TRUE
    /\ queue' = <<>>
    /\ UNCHANGED <<seen, sending, delivered, forgotten>>

(* build_queue for the next collector: a new channel and an empty set.     *)
BuildQueue ==
    /\ closed
    /\ \A p \in Producer : sending[p] = Idle
    /\ queue' = <<>> /\ seen' = {} /\ closed' = FALSE
    /\ delivered' = {} /\ forgotten' = {}
    /\ UNCHANGED sending

QueueNext ==
    \/ \E p \in Producer, e \in Event : MarkSeen(p, e)
    \/ \E p \in Producer : Enqueue(p) \/ SendFails(p)
    \/ Receive
    \/ CloseReceiver
    \/ BuildQueue

QueueSpec == QueueInit /\ [][QueueNext]_queueVars

(* Fairness: tokio hands channel permits out in arrival order, so a task   *)
(* that waits for a slot gets one (strong fairness of Enqueue although     *)
(* others can fill the slot first); a failed send returns; the processor   *)
(* loops.  Nothing obliges a source to send or the processor to stop.      *)
QueueFairness ==
    /\ \A p \in Producer : SF_queueVars(Enqueue(p)) /\ WF_queueVars(SendFails(p))
    /\ WF_queueVars(Receive)

QueueFairSpec == QueueSpec /\ QueueFairness

-----------------------------------------------------------------------------
Queued == {queue[i] : i \in DOMAIN queue}
InFlight == {sending[p] : p \in Producer} \ {Idle}

(* Types of the variables; the channel and the dedup set stay within the   *)
(* bounds the configuration gives them.                                    *)
QueueTypeOK ==
    /\ queue \in Seq(Event) /\ Len(queue) <= Capacity
    /\ seen \in SUBSET Event /\ IsFiniteSet(seen)
    /\ sending \in [Producer -> Event \cup {Idle}]
    /\ closed \in BOOLEAN
    /\ delivered \in SUBSET Event
    /\ forgotten \in SUBSET Event

(* The dedup memory is bounded: eviction makes room before every insertion *)
(* (event_queue.rs:39-49), so the set never exceeds seen_cap.              *)
SeenBounded == Cardinality(seen) <= SeenCap

(* Dedup: an event the set has never forgotten exists at most once among   *)
(* the sends under way, the channel and what was received, although the    *)
(* push happens after the lock is released (event_queue.rs:34-51).         *)
AtMostOnce ==
    \A e \in Event \ forgotten :
        /\ \A p, q \in Producer : sending[p] = e /\ sending[q] = e => p = q
        /\ \A i, j \in DOMAIN queue : queue[i] = e /\ queue[j] = e => i = j
        /\ e \in InFlight => e \notin Queued \cup delivered
        /\ e \in Queued => e \notin delivered

(* A key in the dedup set suppresses every later send of the event, so it  *)
(* must not outlive a failed push: while the receiver lives, whatever is   *)
(* in the set was received, is in the channel or is being pushed.          *)
NothingLost == ~closed => seen \subseteq InFlight \cup Queued \cup delivered

(* A producer that marked an event is not stuck forever: the event reaches *)
(* the processor unless the receiver is dropped (send().await, 51).        *)
Delivered ==
    \A p \in Producer, e \in Event :
        (sending[p] = e) ~> (e \in delivered \/ closed)
=============================================================================
