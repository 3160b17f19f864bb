----------------------------- MODULE Collector -----------------------------
(***************************************************************************)
(* The collector with the per-contract event source: one polling task per  *)
(* emitting contract (event_poller.rs), the registry's watermarks, and the *)
(* handle's record of what is polled (handle.rs), on top of the queue      *)
(* (EventQueue) and of the processor, registry and handle (Consumer).      *)
(*                                                                         *)
(* Tasks interleave at their awaits: every page fetch, every send_dedup    *)
(* (whose two halves are separate steps) and every event received.         *)
(***************************************************************************)
EXTENDS Consumer, SequencesExt

CONSTANTS
    Serves,             \* Serves[t]: the contract that poller task t polls
    PageSize,           \* config.page_size
    ColdStartPages,     \* config.cold_start_pages
    MaxEventsPerCycle,  \* config.max_events_per_cycle
    MaxBacklog,         \* bound: events a contract gets ahead of its watermark
    MaxBurst            \* bound: events it emits between the pages of a cycle

ASSUME CollectorAssumption ==
    /\ Serves \in [Producer -> Contract]
    /\ PageSize \in Nat \ {0} /\ MaxEventsPerCycle \in Nat \ {0}
    /\ ColdStartPages \in Nat /\ MaxBacklog \in Nat /\ MaxBurst \in Nat
    /\ Lifecycle \subseteq {"fail", "add", "remove", "stop", "drop", "restart"}

(* The events of one transaction follow each other in a contract's list.   *)
ASSUME TransactionsWhole ==
    \A c \in Contract : \A i, j, k \in Positions(c) :
        i < j /\ j < k /\ TxAt(c, i) = TxAt(c, k) => TxAt(c, j) = TxAt(c, i)

VARIABLES
    tip,        \* tip[c]: events of c that are on chain
    snap,       \* snap[c]: events of c in the bootstrap snapshot
    watermark,  \* registry.watermarks
    polled,     \* handle.polled
    source,     \* the source task: spawned, or its run() has begun
    pc,         \* pc[t]: where poller task t is
    known,      \* known[t]: the watermark t read at the start of its cycle
    page,       \* page[t]: page_idx
    batch,      \* batch[t]: to_apply, later what is left to send of it
    newest      \* newest[t]: newest_seen

chainVars == <<tip, snap>>
pollVars == <<known, page, batch, newest>>
sourceVars == <<chainVars, watermark, polled, source, pc, pollVars>>
vars == <<queueVars, consumerVars, sourceVars>>

(* The position the watermark of c stands for; the snapshot if it is None. *)
Marked(c, w) == IF w = NoTx THEN snap[c] ELSE Max({i \in Positions(c) : TxAt(c, i) = w})

-----------------------------------------------------------------------------
(* The initial pools were fetched when snap was the tip and inserted; the  *)
(* chain has gone on since; a caller may have seeded watermarks with the   *)
(* transaction at the snapshot (test_all_dlmm does); the tasks are        *)
(* spawned and have not run.                                               *)
IsChain(f) == \A c \in Contract : f[c] <= Len(History[c]) /\ TxBoundary(c, f[c])

Seeds(c) == {NoTx} \cup {TxAt(c, i) : i \in {snap[c]} \cap Positions(c)}

NoPoll ==
    /\ known = [t \in Producer |-> NoTx] /\ page = [t \in Producer |-> 0]
    /\ batch = [t \in Producer |-> <<>>] /\ newest = [t \in Producer |-> NoTx]

Init ==
    /\ tip \in [Contract -> Heights] /\ IsChain(tip)
    /\ snap \in [Contract -> Heights] /\ IsChain(snap)
    /\ \A c \in Contract : snap[c] <= tip[c] /\ tip[c] <= snap[c] + MaxBacklog
    /\ ConsumerInit(snap)
    /\ watermark \in [Contract -> Tx \cup {NoTx}]
    /\ \A c \in Contract : watermark[c] \in Seeds(c)
    /\ polled = topics /\ source = "spawned"
    /\ pc = [t \in Producer |-> "off"]
    /\ NoPoll

-----------------------------------------------------------------------------
(* The environment: one more transaction's events on c, within the bounds  *)
(* of the model: MaxBacklog beyond the watermark, MaxBurst beyond the      *)
(* first page of a poller that has not fetched its last one.               *)
Emit(c) ==
    \E n \in tip[c] + 1 .. Len(History[c]) :
        /\ TxBoundary(c, n) /\ \A i \in tip[c] + 1 .. n - 1 : ~TxBoundary(c, i)
        /\ n <= Marked(c, watermark[c]) + MaxBacklog
        /\ \A t \in Producer :
              Serves[t] = c /\ pc[t] = "fetch" /\ page[t] > 0 => n <= Marked(c, newest[t]) + MaxBurst
        /\ tip' = [tip EXCEPT ![c] = n]
        /\ UNCHANGED <<queueVars, consumerVars, snap, watermark, polled, source, pc, pollVars>>

-----------------------------------------------------------------------------
(* poll_contract_loop and poll_once.                                       *)
RoundedDown_Fault(w) == IF w = NoTx THEN ColdStartPages ELSE MaxEventsPerCycle \div PageSize
MaxPages(w) ==
    IF w = NoTx THEN ColdStartPages ELSE (MaxEventsPerCycle + PageSize - 1) \div PageSize

(* The last look at the stop flag before a cycle; the flag may still be    *)
(* set in the slice of sleep that follows, and the cycle then begins all   *)
(* the same.                                                               *)
WakeAnyway_Fault(t) ==
    /\ pc[t] = "idle"
    /\ pc' = [pc EXCEPT ![t] = "due"]
    /\ UNCHANGED <<queueVars, consumerVars, chainVars, watermark, polled, source, pollVars>>

Wake(t) ==
    /\ pc[t] = "idle" /\ ~StopFlag
    /\ pc' = [pc EXCEPT ![t] = "due"]
    /\ UNCHANGED <<queueVars, consumerVars, chainVars, watermark, polled, source, pollVars>>

StartPoll(t) ==
    /\ pc[t] = "due"
    /\ known' = [known EXCEPT ![t] = watermark[Serves[t]]]
    /\ pc' = [pc EXCEPT ![t] = IF MaxPages(known'[t]) = 0 THEN "send" ELSE "fetch"]
    /\ UNCHANGED <<queueVars, consumerVars, chainVars, watermark, polled, source, page, batch, newest>>

(* One page as the endpoint serves it: newest first, counted back from the *)
(* tip of the moment of the request.                                       *)
PageAt(c, offset) ==
    LET n == IF tip[c] < offset THEN 0 ELSE tip[c] - offset
    IN  [k \in 1 .. (IF n < PageSize THEN n ELSE PageSize) |-> n + 1 - k]

(* The batch in the order it is sent: oldest first.                        *)
NewestFirst_Fault(s) == s
Chronological(s) == Reverse(s)

(* One iteration of the page loop: collect the n events of the page that   *)
(* come before the watermark, then stop at the watermark, at the end of    *)
(* the history, at the cap of the cycle or after the last page.            *)
FetchPage(t) ==
    LET c == Serves[t]
        got == PageAt(c, page[t] * PageSize)
    IN  /\ pc[t] = "fetch"
        /\ \E n \in 0 .. Len(got) :
              LET all == batch[t] \o SubSeq(got, 1, n)
                  more == /\ n = Len(got) /\ n = PageSize
                          /\ Len(all) < MaxEventsPerCycle
                          /\ page[t] + 1 < MaxPages(known[t])
              IN  /\ \A k \in 1 .. n : TxAt(c, got[k]) # known[t]
                  /\ n < Len(got) => TxAt(c, got[n + 1]) = known[t]
                  /\ batch' = [batch EXCEPT ![t] = IF more THEN all ELSE Chronological(all)]
                  /\ pc' = [pc EXCEPT ![t] = IF more THEN "fetch" ELSE "send"]
        /\ newest' = [newest EXCEPT ![t] = IF @ = NoTx /\ got # <<>> THEN TxAt(c, got[1]) ELSE @]
        /\ page' = [page EXCEPT ![t] = @ + 1]
        /\ UNCHANGED <<queueVars, consumerVars, chainVars, watermark, polled, source, known>>

EndCycle(t) ==
    /\ pc' = [pc EXCEPT ![t] = "idle"]
    /\ known' = [known EXCEPT ![t] = NoTx] /\ page' = [page EXCEPT ![t] = 0]
    /\ batch' = [batch EXCEPT ![t] = <<>>] /\ newest' = [newest EXCEPT ![t] = NoTx]

(* A request fails: the error leaves poll_once before anything is sent.    *)
MarkOnError_Fault(t) ==
    /\ "fail" \in Lifecycle /\ pc[t] = "fetch"
    /\ watermark' = IF newest[t] = NoTx THEN watermark ELSE [watermark EXCEPT ![Serves[t]] = newest[t]]
    /\ EndCycle(t)
    /\ UNCHANGED <<queueVars, consumerVars, chainVars, polled, source>>

FetchFails(t) ==
    /\ "fail" \in Lifecycle /\ pc[t] = "fetch"
    /\ EndCycle(t)
    /\ UNCHANGED <<queueVars, consumerVars, chainVars, watermark, polled, source>>

(* The next event of the batch: left out if it is not decodable, else      *)
(* send_dedup up to the unlock.                                            *)
Resend_Fault(t) ==
    LET e == <<Serves[t], Head(batch[t])>>
    IN  /\ pc[t] = "send" /\ sending[t] = Idle /\ batch[t] # <<>>
        /\ IF Decoded(e[1], e[2]) THEN Mark(t, e) ELSE UNCHANGED queueVars
        /\ batch' = [batch EXCEPT ![t] = Tail(@)]
        /\ UNCHANGED <<consumerVars, chainVars, watermark, polled, source, pc, known, page, newest>>

Offer(t) ==
    LET e == <<Serves[t], Head(batch[t])>>
    IN  /\ pc[t] = "send" /\ sending[t] = Idle /\ batch[t] # <<>>
        /\ IF Decoded(e[1], e[2]) /\ e \notin seen THEN MarkSeen(t, e) ELSE UNCHANGED queueVars
        /\ batch' = [batch EXCEPT ![t] = Tail(@)]
        /\ UNCHANGED <<consumerVars, chainVars, watermark, polled, source, pc, known, page, newest>>

(* The push after the unlock returns, with success or because the          *)
(* processor is gone.                                                      *)
Push(t) ==
    /\ Enqueue(t) \/ SendFails(t)
    /\ UNCHANGED <<consumerVars, sourceVars>>

(* All sends have returned: the watermark moves to the newest event of the *)
(* first page, whatever the sends returned.                                *)
EndPoll(t) ==
    /\ pc[t] = "send" /\ batch[t] = <<>> /\ sending[t] = Idle
    /\ watermark' = IF newest[t] = NoTx THEN watermark ELSE [watermark EXCEPT ![Serves[t]] = newest[t]]
    /\ EndCycle(t)
    /\ UNCHANGED <<queueVars, consumerVars, chainVars, polled, source>>

PollerExit(t) ==
    /\ pc[t] = "idle" /\ StopFlag
    /\ pc' = [pc EXCEPT ![t] = "off"]
    /\ UNCHANGED <<queueVars, consumerVars, chainVars, watermark, polled, source, pollVars>>

-----------------------------------------------------------------------------
(* Starting n poller tasks on each contract c of a set, n = count[c], as   *)
(* far as the instance has tasks (the bound of the model).                 *)
Free(c) == {t \in Producer : pc[t] = "off" /\ Serves[t] = c}

Spawn(contracts, count) ==
    \E new \in SUBSET UNION {Free(c) : c \in contracts} :
        /\ \A c \in contracts :
              Cardinality(new \cap Free(c)) = Min({count[c], Cardinality(Free(c))})
        /\ pc' = [t \in Producer |-> IF t \in new THEN "idle" ELSE pc[t]]

(* PerContractEventSource::run: one poller for each distinct contract that *)
(* is in the topic set when the task gets to run.                          *)
RunSource ==
    /\ source = "spawned"
    /\ source' = "running"
    /\ Spawn(topics, [c \in Contract |-> 1])
    /\ UNCHANGED <<queueVars, consumerVars, chainVars, watermark, polled, pollVars>>

(* CollectorHandle::add_pool: one poller for each topic whose contract is  *)
(* not in polled yet.                                                      *)
AddPoolNoSpawn_Fault(p) ==
    /\ Insert(p)
    /\ polled' = polled \cup TopicsOf(p)
    /\ UNCHANGED <<chainVars, watermark, source, pc, pollVars>>

AddPool(p) ==
    /\ Insert(p)
    /\ polled' = polled \cup TopicsOf(p)
    /\ Spawn(TopicsOf(p) \ polled, TopicCount[p])
    /\ UNCHANGED <<chainVars, watermark, source, pollVars>>

(* stop() has joined the processor, the pollers and the source task.       *)
StopReturns ==
    /\ Joined
    /\ source = "running" /\ \A t \in Producer : pc[t] = "off"
    /\ UNCHANGED sourceVars

(* start_collector again: the handle's polled set is the topic set of this *)
(* moment.                                                                 *)
Restart ==
    /\ Rebuild
    /\ source' = "spawned" /\ polled' = topics
    /\ UNCHANGED <<chainVars, watermark, pc, pollVars>>

(* What concerns the consuming side alone.                                 *)
ReceiveEvent == Consume /\ UNCHANGED sourceVars
ProcessorExit == Finish /\ UNCHANGED sourceVars
FetchPool(p) == Fetch(p, tip) /\ UNCHANGED sourceVars
RemovePool(p) == Withdraw(p) /\ UNCHANGED sourceVars
Stop == SetStop /\ UNCHANGED sourceVars
DropHandle == Drop /\ UNCHANGED sourceVars

-----------------------------------------------------------------------------
PollerStep(t) ==
    \/ Wake(t) \/ StartPoll(t) \/ FetchPage(t) \/ FetchFails(t) \/ Offer(t) \/ Push(t)
    \/ EndPoll(t) \/ PollerExit(t)

ProcessorStep == ReceiveEvent \/ ProcessorExit

HandleStep ==
    \/ \E p \in Pool : FetchPool(p) \/ AddPool(p) \/ RemovePool(p)
    \/ Stop \/ StopReturns \/ Restart \/ DropHandle

Next ==
    \/ \E c \in Contract : Emit(c)
    \/ \E t \in Producer : PollerStep(t)
    \/ ProcessorStep
    \/ RunSource
    \/ HandleStep

Spec == Init /\ [][Next]_vars

-----------------------------------------------------------------------------
(* Fairness: the runtime schedules every ready task; a request for the     *)
(* k-th page of a cycle that is made again and again, cycle after cycle,   *)
(* is answered at last; a push that waits for a slot gets one (see         *)
(* EventQueue).  The chain and the owner of the handle are under no        *)
(* obligation, and nothing obliges a request to fail.                      *)
Pages == 0 .. Max({MaxPages(NoTx), (MaxEventsPerCycle + PageSize - 1) \div PageSize}) - 1

Fairness ==
    /\ \A t \in Producer :
          /\ WF_vars(Wake(t)) /\ WF_vars(StartPoll(t)) /\ WF_vars(Offer(t))
          /\ \A k \in Pages : SF_vars(page[t] = k /\ FetchPage(t))
          /\ SF_vars(Push(t)) /\ WF_vars(EndPoll(t)) /\ WF_vars(PollerExit(t))
    /\ WF_vars(ReceiveEvent) /\ WF_vars(ProcessorExit)
    /\ WF_vars(RunSource) /\ WF_vars(StopReturns)

FairSpec == Spec /\ Fairness

-----------------------------------------------------------------------------
(* Types: the queue's, the consumer's, the chain's, the tasks' and the     *)
(* registry's.  What a task holds are positions its contract has emitted.  *)
ChainTypeOK ==
    /\ tip \in [Contract -> Nat] /\ snap \in [Contract -> Nat]
    /\ \A c \in Contract : snap[c] <= tip[c] /\ tip[c] <= Len(History[c])

TaskTypeOK ==
    /\ pc \in [Producer -> {"off", "idle", "due", "fetch", "send"}]
    /\ known \in [Producer -> Tx \cup {NoTx}] /\ newest \in [Producer -> Tx \cup {NoTx}]
    /\ page \in [Producer -> Nat] /\ batch \in [Producer -> Seq(Nat)]
    /\ \A t \in Producer : batch[t] \in Seq(Positions(Serves[t]))

PolledTypeOK ==
    /\ watermark \in [Contract -> Tx \cup {NoTx}]
    /\ polled \in SUBSET Contract /\ source \in {"spawned", "running"}

TypeOK == QueueTypeOK /\ ConsumerTypeOK /\ ChainTypeOK /\ TaskTypeOK /\ PolledTypeOK

(* What consumers are promised (OrderedMirror): with one poller for each   *)
(* contract the events reach the mirror in chain order, none twice, and    *)
(* none after the snapshot is skipped (event_poller.rs:83-161).            *)
Promise == INSTANCE OrderedMirror WITH mirror <- InitialMirror
OrderedDelivery == Promise!MirrorSpec

(* The mirror is a past state of each contract once the snapshot's events  *)
(* are behind it.                                                          *)
PrefixConsistent == Promise!PrefixConsistent

(* A poller without a watermark starts with events the snapshot already    *)
(* contains (event_poller.rs:93-95), and takes cells back with them.       *)
(* Until it has come past the snapshot a cell has its snapshot value or    *)
(* the one the replay has come to, not one of some event in between.       *)
ReplayConsistent == Promise!ReplayConsistent

(* When the source has run, every contract of the topic set has a poller,  *)
(* however add_pool and the start of the source interleave                 *)
(* (bootstrap.rs:129, handle.rs:60-80, per_contract_source.rs:69).         *)
EveryTopicPolled ==
    source = "running" /\ ~StopFlag =>
        \A c \in topics : \E t \in Producer : Serves[t] = c /\ pc[t] # "off"

(* stop() returns, even with pollers waiting on a full queue               *)
(* (handle.rs:113-122).                                                    *)
StopCompletes == (handle = "stopping") ~> (handle = "stopped")

(* While the collector runs and no more transactions come, every cell of   *)
(* the initial pools gets the value it has on chain and keeps it           *)
(* (event_poller.rs:41-77, event_processor.rs:22-35).                      *)
Converges ==
    <>[](handle = "held" =>
            \A x \in Mirrored : IsValueAt(x, tip[Stream[x]], mirror[x]))

-----------------------------------------------------------------------------
(* What the documentation says and the code does not do.                   *)

(* HANDOFF_ARB_STACKS_DLMM.md:490-492, "if the pool introduces a new       *)
(* polled contract, a new poller task is spawned", and 551-553, "the       *)
(* topics machinery dedups per-contract automatically": one poller each.   *)
OnePollerPerContract ==
    \A t, u \in Producer : Serves[t] = Serves[u] /\ pc[t] # "off" /\ pc[u] # "off" => t = u

(* event_poller.rs:136-137: "Apply in chronological order (we collected    *)
(* newest-first across pages, so reverse)".                                *)
ChronologicalDispatch == [][\A c \in Contract : applied'[c] >= applied[c]]_vars
=============================================================================
