------------------------------ MODULE Consumer ------------------------------
(***************************************************************************)
(* What both event sources feed: the event processor                       *)
(* (event_processor.rs), the registry's pools and topics (registry.rs) and *)
(* the life of the CollectorHandle (bootstrap.rs, handle.rs).  Each action *)
(* leaves the source's own variables to the module that adds a source,     *)
(* Collector or BlockWalker.                                               *)
(***************************************************************************)
EXTENDS EventQueue, ChainEvents

CONSTANTS
    Pool,           \* the pools
    Owner,          \* Owner[x]: the pool cell x belongs to
    InitialPools,   \* the pools inserted before the collector is started
    TopicCount,     \* TopicCount[p][c]: topics of pool p on contract c
    Lifecycle       \* the failures and handle operations a run exercises

ASSUME ConsumerAssumption ==
    /\ Event = UNION {{<<c, i>> : i \in Positions(c)} : c \in Contract}
    /\ TopicCount \in [Pool -> [Contract -> Nat]]
    /\ Owner \in [Cell -> Pool] /\ InitialPools \subseteq Pool
    /\ Mirrored = {x \in Cell : Owner[x] \in InitialPools}
    /\ \A x \in Cell : TopicCount[Owner[x]][Stream[x]] > 0

VARIABLES
    topics,     \* registry.topics: the contracts it polls
    pools,      \* pools[p]: outside, fetched by RPC, or in the registry
    mirror,     \* mirror[x]: position of the event that wrote cell x last
    applied,    \* history: position of the last event of c dispatched
    handle,     \* what became of the CollectorHandle
    listening   \* the processor is past its stop check and awaits recv()

consumerVars == <<topics, pools, mirror, applied, handle, listening>>

TopicsOf(p) == {c \in Contract : TopicCount[p][c] > 0}
Live == {p \in Pool : pools[p] = "live"}

(* stop_flag: set for good by stop(), and not by dropping the handle.      *)
StopFlag == handle \in {"stopping", "stopped"}

(* The mirrors in which the cells of the pools ps are as on chain after h  *)
(* events, the others as in old: what reading those pools by RPC gives.    *)
Snapshots(ps, h, old) ==
    {m \in [Cell -> Heights] :
        \A x \in Cell : IF Owner[x] \in ps THEN IsValueAt(x, h[Stream[x]], m[x])
                                           ELSE m[x] = old[x]}

(* The pools were fetched after h events and inserted; the tasks are       *)
(* spawned and have not run.                                               *)
ConsumerInit(h) ==
    /\ QueueInit
    /\ topics = UNION {TopicsOf(p) : p \in InitialPools}
    /\ pools = [p \in Pool |-> IF p \in InitialPools THEN "live" ELSE "outside"]
    /\ mirror \in Snapshots(InitialPools, h, [x \in Cell |-> 0])
    /\ applied = [c \in Contract |-> 0]
    /\ handle = "held" /\ listening = TRUE

-----------------------------------------------------------------------------
(* event_processor_loop.  The cell of the event received is written if the *)
(* pool that owns it is registered, else nothing is.  Then the stop flag   *)
(* is looked at again.                                                     *)
Dispatch(c, i) ==
    /\ mirror' = [x \in Cell |-> IF Writes(c, i, x) /\ Owner[x] \in Live THEN i ELSE mirror[x]]
    /\ applied' = [applied EXCEPT ![c] = i]

Consume ==
    /\ listening /\ Receive
    /\ Dispatch(Head(queue)[1], Head(queue)[2])
    /\ listening' = ~StopFlag
    /\ UNCHANGED <<topics, pools, handle>>

Finish ==
    /\ StopFlag /\ CloseReceiver
    /\ listening' = FALSE
    /\ UNCHANGED <<topics, pools, mirror, applied, handle>>

-----------------------------------------------------------------------------
(* fetch_*_pool: a caller reads a pool's state by RPC, after h events.     *)
Fetch(p, h) ==
    /\ "add" \in Lifecycle /\ pools[p] = "outside"
    /\ pools' = [pools EXCEPT ![p] = "fetched"]
    /\ mirror' \in Snapshots({p}, h, mirror)
    /\ UNCHANGED <<queueVars, topics, applied, handle, listening>>

(* CollectorHandle::add_pool, as far as the registry is concerned.         *)
Insert(p) ==
    /\ handle = "held" /\ pools[p] = "fetched"
    /\ pools' = [pools EXCEPT ![p] = "live"]
    /\ topics' = topics \cup TopicsOf(p)
    /\ UNCHANGED <<queueVars, mirror, applied, handle, listening>>

(* CollectorHandle::remove_pool: topics and tasks stay.                    *)
Withdraw(p) ==
    /\ "remove" \in Lifecycle /\ handle = "held" /\ pools[p] = "live"
    /\ pools' = [pools EXCEPT ![p] = "outside"]
    /\ UNCHANGED <<queueVars, topics, mirror, applied, handle, listening>>

(* CollectorHandle::stop: the flag, then waiting for every task: the       *)
(* processor here, the source's tasks in the module of the source.         *)
SetStop ==
    /\ "stop" \in Lifecycle /\ handle = "held"
    /\ handle' = "stopping"
    /\ UNCHANGED <<queueVars, topics, pools, mirror, applied, listening>>

Joined ==
    /\ handle = "stopping" /\ closed
    /\ handle' = "stopped"
    /\ UNCHANGED <<queueVars, topics, pools, mirror, applied, listening>>

Drop ==
    /\ "drop" \in Lifecycle /\ handle = "held"
    /\ handle' = "dropped"
    /\ UNCHANGED <<queueVars, topics, pools, mirror, applied, listening>>

(* start_collector on the registry of a collector that was stopped: a new  *)
(* queue, a new processor.                                                 *)
Rebuild ==
    /\ "restart" \in Lifecycle /\ handle = "stopped" /\ BuildQueue
    /\ handle' = "held" /\ listening' = TRUE
    /\ UNCHANGED <<topics, pools, mirror, applied>>

-----------------------------------------------------------------------------
(* The part of the mirrors that exists from the start, which a source's    *)
(* delivery order can be judged by: the cells of the initial pools.        *)
InitialMirror == [x \in Cell |-> IF x \in Mirrored THEN mirror[x] ELSE 0]

ConsumerTypeOK ==
    /\ topics \in SUBSET Contract
    /\ pools \in [Pool -> {"outside", "fetched", "live"}]
    /\ mirror \in [Cell -> Nat] /\ applied \in [Contract -> Nat]
    /\ handle \in {"held", "stopping", "stopped", "dropped"}
    /\ listening \in BOOLEAN
=============================================================================
