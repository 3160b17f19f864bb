---------------------------- MODULE BlockWalker ----------------------------
(***************************************************************************)
(* The collector with the block-walking event source: one task that asks   *)
(* one node for the chain tip and another for the transactions of every    *)
(* block since the registry's cursor (block_walking_source.rs,             *)
(* rpc/block_walker.rs), on top of the queue (EventQueue) and of the       *)
(* processor, registry and handle (Consumer).                              *)
(*                                                                         *)
(* The task can be interleaved at its requests and at every send_dedup.    *)
(***************************************************************************)
EXTENDS Consumer

CONSTANTS
    Walker,         \* the source task
    Log,            \* the events of all contracts in chain order
    BlockOf,        \* BlockOf[t]: the height of transaction t's block
    Called,         \* Called[t]: the contract t calls, or any other value
    TopHeight,      \* bound: the last block of the model's chain
    MaxBlocks       \* config.max_blocks_per_tick

TxOf(e) == TxAt(e[1], e[2])
HeightOf(e) == BlockOf[TxOf(e)]

ASSUME WalkerAssumption ==
    /\ Producer = {Walker}
    /\ Log \in Seq(Event) /\ Event = {Log[k] : k \in DOMAIN Log}
    /\ TopHeight \in Nat /\ BlockOf \in [Tx -> 1 .. TopHeight]
    /\ Called \in [Tx -> Contract \cup {NoTx}]
    /\ MaxBlocks \in Nat \ {0}
    /\ Lifecycle \subseteq {"cold", "fail", "unindexed", "lose", "add", "remove", "stop", "restart"}

(* The log is the chain's order: blocks one after the other, and the       *)
(* events of each contract in the order of their positions.                *)
ASSUME ChainOrder ==
    \A j, k \in DOMAIN Log : j < k =>
        /\ HeightOf(Log[j]) <= HeightOf(Log[k])
        /\ Log[j][1] = Log[k][1] => Log[j][2] < Log[k][2]

VARIABLES
    height,     \* the chain tip, as the tip node reports it
    snapHeight, \* the block the initial pools were read at
    cursor,     \* registry.last_processed_block; 0 is "not set"
    pc,         \* where the task is
    last,       \* `end` of the tick
    next,       \* the block the tick is at
    registered, \* the contracts in the registry when the tick began
    batch       \* what is left to send of the block: positions in Log

chainVars == <<height, snapHeight>>
tickVars == <<pc, last, next, registered, batch>>
sourceVars == <<chainVars, cursor, tickVars>>
vars == <<queueVars, consumerVars, sourceVars>>

Upto(h) == [c \in Contract |-> Cardinality({i \in Positions(c) : HeightOf(<<c, i>>) <= h})]

(* The pools are read at a pinned block and inserted.  test_all_dlmm then  *)
(* sets the cursor to that block; without that it is 0 (a cold start).     *)
Init ==
    /\ height \in 1 .. TopHeight
    /\ snapHeight \in 1 .. height
    /\ ConsumerInit(Upto(snapHeight))
    /\ cursor \in {snapHeight} \cup (IF "cold" \in Lifecycle THEN {0} ELSE {})
    /\ pc = "idle" /\ last = 0 /\ next = 0 /\ registered = {} /\ batch = {}

-----------------------------------------------------------------------------
(* The environment: a block is added.                                      *)
Mine ==
    /\ height < TopHeight
    /\ height' = height + 1
    /\ UNCHANGED <<queueVars, consumerVars, snapHeight, cursor, tickVars>>

-----------------------------------------------------------------------------
(* The last look at the stop flag before a tick; the flag may still be set *)
(* in the slice of sleep that follows or while /v2/info answers, and the   *)
(* tick goes on all the same.                                              *)
WakeAnyway_Fault ==
    /\ pc = "idle"
    /\ pc' = "due"
    /\ UNCHANGED <<queueVars, consumerVars, chainVars, cursor, last, next, registered, batch>>

Wake ==
    /\ pc = "idle" /\ ~StopFlag
    /\ pc' = "due"
    /\ UNCHANGED <<queueVars, consumerVars, chainVars, cursor, last, next, registered, batch>>

(* tick, from the answer of /v2/info to the first block request.  A first  *)
(* tick moves the cursor to the tip, and so does one that finds no topics; *)
(* otherwise the blocks cursor + 1 .. end are walked for the contracts     *)
(* that are registered now.                                                *)
StaleTopics_Fault ==
    /\ pc = "due"
    /\ cursor # 0 /\ height > cursor /\ topics # {}
    /\ last' = Min({cursor + MaxBlocks, height}) /\ next' = cursor + 1
    /\ registered' = IF registered = {} THEN topics ELSE registered
    /\ pc' = "block"
    /\ UNCHANGED <<queueVars, consumerVars, chainVars, cursor, batch>>

StartWalk ==
    /\ pc = "due"
    /\ cursor # 0 /\ height > cursor /\ topics # {}
    /\ last' = Min({cursor + MaxBlocks, height}) /\ next' = cursor + 1
    /\ registered' = topics
    /\ pc' = "block"
    /\ UNCHANGED <<queueVars, consumerVars, chainVars, cursor, batch>>

SnapToTip ==
    /\ pc = "due"
    /\ cursor = 0 \/ (height > cursor /\ topics = {})
    /\ cursor' = height
    /\ pc' = "idle"
    /\ UNCHANGED <<queueVars, consumerVars, chainVars, last, next, registered, batch>>

(* There is no block above the cursor, or the request for the tip failed.  *)
NothingNew ==
    /\ pc = "due" /\ cursor # 0 /\ height <= cursor
    /\ pc' = "idle"
    /\ UNCHANGED <<queueVars, consumerVars, chainVars, cursor, last, next, registered, batch>>

TipFails ==
    /\ "fail" \in Lifecycle /\ pc = "due"
    /\ pc' = "idle"
    /\ UNCHANGED <<queueVars, consumerVars, chainVars, cursor, last, next, registered, batch>>

(* The transactions of block `next` whose events do not arrive: none; or   *)
(* all, when the events node has not indexed the block and answers 404,    *)
(* which counts as an empty block; or those whose own request failed,      *)
(* which is logged.                                                        *)
Losses ==
    LET txs == {t \in Tx : BlockOf[t] = next}
    IN  {{}} \cup (IF "unindexed" \in Lifecycle THEN {txs} ELSE {})
             \cup (IF "lose" \in Lifecycle THEN SUBSET txs ELSE {})

(* What ingest_block_txs sends of it: the decodable events that a          *)
(* registered contract emitted or whose transaction calls one, in chain    *)
(* order (the batch is sent from its least position).                       *)
Relevant(e, lost) ==
    /\ HeightOf(e) = next /\ Decoded(e[1], e[2]) /\ TxOf(e) \notin lost
    /\ {e[1], Called[TxOf(e)]} \cap registered # {}

FetchBlock ==
    /\ pc = "block"
    /\ \E lost \in Losses : batch' = {k \in DOMAIN Log : Relevant(Log[k], lost)}
    /\ pc' = "send"
    /\ UNCHANGED <<queueVars, consumerVars, chainVars, cursor, last, next, registered>>

(* The request fails: the tick ends, its sends so far stay sent and the    *)
(* cursor where it was.                                                    *)
AdvanceOnError_Fault ==
    /\ "fail" \in Lifecycle /\ pc = "block"
    /\ cursor' = last
    /\ pc' = "idle" /\ next' = 0 /\ last' = 0
    /\ UNCHANGED <<queueVars, consumerVars, chainVars, registered, batch>>

BlockFails ==
    /\ "fail" \in Lifecycle /\ pc = "block"
    /\ pc' = "idle" /\ next' = 0 /\ last' = 0
    /\ UNCHANGED <<queueVars, consumerVars, chainVars, cursor, registered, batch>>

(* send_dedup up to the unlock, and the push.                              *)
Offer ==
    /\ pc = "send" /\ sending[Walker] = Idle
    /\ \E k \in batch :
          /\ \A j \in batch : k <= j
          /\ IF Log[k] \notin seen THEN MarkSeen(Walker, Log[k]) ELSE UNCHANGED queueVars
          /\ batch' = batch \ {k}
    /\ UNCHANGED <<consumerVars, chainVars, cursor, pc, last, next, registered>>

Push ==
    /\ Enqueue(Walker) \/ SendFails(Walker)
    /\ UNCHANGED <<consumerVars, sourceVars>>

(* The block is done; the cursor moves when the last one is, whatever the  *)
(* sends returned.                                                         *)
NextBlock ==
    /\ pc = "send" /\ batch = {} /\ sending[Walker] = Idle /\ next < last
    /\ next' = next + 1 /\ pc' = "block"
    /\ UNCHANGED <<queueVars, consumerVars, chainVars, cursor, last, registered, batch>>

SkipAhead_Fault ==
    /\ pc = "send" /\ batch = {} /\ sending[Walker] = Idle /\ next = last
    /\ cursor' = height
    /\ pc' = "idle" /\ next' = 0 /\ last' = 0
    /\ UNCHANGED <<queueVars, consumerVars, chainVars, registered, batch>>

EndTick ==
    /\ pc = "send" /\ batch = {} /\ sending[Walker] = Idle /\ next = last
    /\ cursor' = last
    /\ pc' = "idle" /\ next' = 0 /\ last' = 0
    /\ UNCHANGED <<queueVars, consumerVars, chainVars, registered, batch>>

(* Between ticks the walker sees the flag and returns.                     *)
WalkerExit ==
    /\ pc = "idle" /\ StopFlag
    /\ pc' = "off"
    /\ UNCHANGED <<queueVars, consumerVars, chainVars, cursor, last, next, registered, batch>>

-----------------------------------------------------------------------------
(* With this source add_pool only inserts the pool, and a restart begins   *)
(* at the cursor the registry still has.                                   *)
AddPool(p) == Insert(p) /\ UNCHANGED sourceVars
StopReturns == Joined /\ pc = "off" /\ UNCHANGED sourceVars
Restart ==
    /\ Rebuild
    /\ pc' = "idle"
    /\ UNCHANGED <<chainVars, cursor, last, next, registered, batch>>

ReceiveEvent == Consume /\ UNCHANGED sourceVars
ProcessorExit == Finish /\ UNCHANGED sourceVars
FetchPool(p) == Fetch(p, Upto(height)) /\ UNCHANGED sourceVars
RemovePool(p) == Withdraw(p) /\ UNCHANGED sourceVars
Stop == SetStop /\ UNCHANGED sourceVars

-----------------------------------------------------------------------------
WalkerStep ==
    \/ Wake \/ StartWalk \/ SnapToTip \/ NothingNew \/ TipFails
    \/ FetchBlock \/ BlockFails \/ Offer \/ Push \/ NextBlock \/ EndTick \/ WalkerExit

ProcessorStep == ReceiveEvent \/ ProcessorExit

HandleStep ==
    \/ \E p \in Pool : FetchPool(p) \/ AddPool(p) \/ RemovePool(p)
    \/ Stop \/ StopReturns \/ Restart

Next == Mine \/ WalkerStep \/ ProcessorStep \/ HandleStep

Spec == Init /\ [][Next]_vars

(* Fairness, as for Collector: the runtime schedules ready tasks, requests *)
(* return, a push that waits gets its slot.                                *)
Fairness ==
    /\ WF_vars(Wake) /\ WF_vars(StartWalk) /\ WF_vars(SnapToTip) /\ WF_vars(NothingNew)
    /\ WF_vars(FetchBlock) /\ WF_vars(Offer)
    /\ SF_vars(Push) /\ WF_vars(NextBlock) /\ WF_vars(EndTick) /\ WF_vars(WalkerExit)
    /\ WF_vars(ReceiveEvent) /\ WF_vars(ProcessorExit) /\ WF_vars(StopReturns)

FairSpec == Spec /\ Fairness

-----------------------------------------------------------------------------
(* Types; a tick that walks is between the cursor and its last block, and  *)
(* never asks beyond the tip.                                              *)
WalkTypeOK ==
    /\ height \in Nat /\ snapHeight \in 0 .. height
    /\ cursor \in 0 .. height
    /\ pc \in {"idle", "due", "block", "send", "off"}
    /\ pc \in {"block", "send"} => cursor < next /\ next <= last /\ last <= height
    /\ next \in Nat /\ last \in Nat
    /\ registered \in SUBSET Contract /\ batch \in SUBSET DOMAIN Log

TypeOK == QueueTypeOK /\ ConsumerTypeOK /\ WalkTypeOK

(* What consumers are promised (OrderedMirror): the events of each         *)
(* contract reach the mirror in chain order, none twice and none after the *)
(* snapshot is skipped, although failed ticks walk their blocks again      *)
(* (block_walking_source.rs:181-251).                                      *)
Promise == INSTANCE OrderedMirror WITH
              mirror <- InitialMirror,
              tip <- Upto(height), snap <- Upto(snapHeight)
OrderedDelivery == Promise!MirrorSpec

(* The walker is between two ticks, its last look at the flag included.    *)
BetweenTicks == pc \in {"idle", "due"}

(* Nothing is left behind: with the cursor at the tip and the queue        *)
(* drained, the mirror of the initial pools is what the chain has.  The    *)
(* cursor never passes a block whose events were not sent, whatever ticks  *)
(* failed and however many blocks one tick may walk (207-235).             *)
CaughtUp ==
    cursor = height /\ BetweenTicks /\ queue = <<>> /\ ~closed =>
        \A x \in Mirrored : IsValueAt(x, Upto(height)[Stream[x]], mirror[x])

(* "The source picks up the new contract on its next tick" (handle.rs:     *)
(* 56-59): an event of a contract that is in the topic set when the walker *)
(* is between ticks, in a block above the cursor, is received, unless the  *)
(* collector is stopped.                                                   *)
PickedUp ==
    \A e \in Event :
        Decoded(e[1], e[2]) =>
            ((/\ BetweenTicks /\ e[1] \in topics
              /\ cursor # 0 /\ cursor < HeightOf(e) /\ HeightOf(e) <= height)
                ~> (e \in delivered \/ StopFlag))

(* stop() returns, although the walker looks at the flag between ticks     *)
(* only and may wait on a full queue in the middle of one.                 *)
StopCompletes == (handle = "stopping") ~> (handle = "stopped")

(* rpc/block_walker.rs:105, of a block that is not indexed yet: "treat as  *)
(* empty so caller can retry next tick".  When a tick is over, no block    *)
(* the cursor has passed still holds unsent events of the initial pools.   *)
UnindexedRetried ==
    BetweenTicks /\ ~closed =>
        \A e \in Event :
            /\ Decoded(e[1], e[2]) /\ \E p \in InitialPools : e[1] \in TopicsOf(p)
            /\ snapHeight < HeightOf(e) /\ HeightOf(e) <= cursor
            => e \in delivered \cup Queued
=============================================================================
