# stacks-dex-pools in TLA+

The crate `stacks-dex-pool` mirrors the state of DEX pools on the Stacks chain in
memory, so that a caller can quote swaps without a request. It reads each pool once
by RPC and then follows the events the pool contracts emit. These modules model the
part of the crate in which that can go wrong: the reading of a pool over RPC, the event
queue, the two event sources, the processor, the registry and the handle, the DLMM pool
with its quotes, the constant-product pools and the stableswap pools. They are checked with TLC on small instances, and what is proved
with TLAPS holds for every instance.

Paths below are relative to `src/src/` of the repository unless they begin with `src/`.

## 1. The system

```
   Hiro /contract/<id>/events          Hiro /v2/info, /blocks, /tx
            |                                    |
   event_poller (one task per contract)   block_walking_source (one task)
            \________ send_dedup _______________/
                          |
            event_queue: dedup set + bounded channel
                          |
             event_processor (one task) --> registry: pools, topics,
                          |                 watermarks, block cursor
                   pool.apply_event                 ^
                          |                         |
                   pool mirrors <-- RPC snapshot -- callers, CollectorHandle
                          |
                        quotes
```

| Component | State | Operations | Hard behaviour | Correct when |
|---|---|---|---|---|
| Event queue (`collector/event_queue.rs`) | dedup set under a mutex, bounded mpsc channel | `send_dedup`, `build_queue` | the key is inserted under the lock, the push happens after it and may wait; eviction of arbitrary keys; the receiver may vanish | a key never suppresses an event that is nowhere; no event twice unless forgotten; bounds hold; a marked event arrives |
| Per-contract source (`collector/per_contract_source.rs`, `event_poller.rs`, `rpc/events.rs`) | per task: watermark read, page, batch, newest id | poll cycle: pages newest first, reverse, send, move the watermark | pages are offsets from a moving tip; a request fails between pages; tasks are started by the source and by `add_pool` | events of a contract arrive in chain order, none skipped or doubled; the mirror converges |
| Block walker (`collector/block_walking_source.rs`, `rpc/block_walker.rs`) | cursor in the registry; per tick: end, height, filter set | tick: tip, blocks cursor+1..end, details, send, move the cursor | a block request fails in the middle of a tick; a block is not indexed yet; details lost; the topic set changes during a tick | as above; nothing between two cursors is left behind; a new pool is followed |
| Event processor (`collector/event_processor.rs`) | the receiver | receive, dispatch to the subscribed pools, exit | the stop flag is read between events | every received event is applied once, in queue order |
| Registry (`registry.rs`) | pools by id, topics, watermarks, block cursor | insert, remove, get, set and read marks | topics are published before the pool; `try_read` contention | topics cover the pools; marks never pass what was sent |
| Handle and start (`collector/handle.rs`, `bootstrap.rs`, `config.rs`) | stop flag, task list, set of polled contracts | `start_collector*`, `add_pool`, `remove_pool`, `stop`, drop | the source starts concurrently with `add_pool`; `stop` joins tasks that may wait on a full queue | every topic is polled; `stop` returns |
| Pool events, principals (`pool/*.rs`) | none | parsing, accessors | malformed payloads | |
| DLMM pool (`dlmm/pool.rs`, `math.rs`, `factor.rs`, `events.rs`) | bins, active bin, fees | `apply_event`, `quote_x_for_y`, `quote_y_for_x` | walk over bins, rounding, fees of 100 %, foreign events | a quote never pays out more than the bins hold nor beats the active price, and stops only for a reason |
| DLMM bootstrap (`dlmm/fetcher.rs`, `multicall.rs`, `discovery.rs`, `factor.rs`) | factor cache | `fetch_dlmm_pool` in three modes, `discover_dlmm_pools` | up to a thousand requests while the chain moves; some fail; answers out of order; fetches share a cache | what is returned was on chain, at the pinned block if there is one; a bin or listing is missing only where its request failed; the tables are the pool's own; every job ends |
| RPC client (`rpc/client.rs`, `stx_wrap.rs`, `token_info.rs`) | decimals cache | `call_read`, `data_var` with retries | rate limits | retries are bounded and change nothing |
| Constant-product pools (`v2/*.rs`) | reserves, fees | four pool kinds: `apply_event`, quotes; fetchers | 128-bit products, flipped pairs, shared contracts | k does not fall; events of other pairs are dropped |
| Stableswap pools (`stableswap/*.rs`) | reserves, midpoint, status, fees, threshold | V2: `apply_event`, quotes; V1: quotes of two generations; fetchers | reserves and midpoint on two contracts' streams, the core's shared; a V1 fetch reads its variables one by one; two floored Newton iterations, decimals and the midpoint's inverse in a row | each part is the pool's own; a mirror that is up to date has the contract's terms; a quote stays on the curve |
| Codec (`codec/*.rs`) | none | Clarity values, c32 addresses | truncated input | decoding inverts encoding |
| Metrics, programs (`collector/metrics.rs`, `bin/*.rs`, `src/examples/`, `src/tests/`) | none | callbacks; start sequences | | |

## 2. Modules

| Module | Models | Role |
|---|---|---|
| `EventQueue` | `event_queue.rs`, the receiving end of `event_processor.rs` | component; any producers |
| `ChainEvents` | the event lists of the chain, what a decoded event writes | data shared by the modules below |
| `OrderedMirror` | nothing concrete: what a consumer is promised | abstract specification |
| `Consumer` | `event_processor.rs`, pools and topics of `registry.rs`, `handle.rs`, `bootstrap.rs` | actions on the consuming side, extended by both sources |
| `Collector` | `event_poller.rs`, `per_contract_source.rs`, `rpc/events.rs`, watermarks, polled set | composition: queue, consumer, pollers, chain |
| `BlockWalker` | `block_walking_source.rs`, `rpc/block_walker.rs`, block cursor | composition: queue, consumer, walker, chain |
| `DlmmPool` | `dlmm/pool.rs`, `dlmm/math.rs`, `dlmm/events.rs` | one pool: event handlers and quote walks, bin by bin |
| `V2Pools` | `v2/*.rs`, `dispatch` in `event_processor.rs`, `pools_subscribed_to`, `insert`, `remove` and the pool locks of `registry.rs` | several pools: chain, fetch, dispatch, handlers, quotes |
| `StableCurve` | `stableswap/curve.rs` | the curve: `get_d`, `get_y` with saturating words, and the level of the curve without an iteration |
| `StablePools` | `stableswap/bitflow_v1.rs`, `bitflow_v2.rs`, `events.rs`, `fetcher.rs`, and the registry around them | several pools: chain, fetch read by read, handlers, quotes; extends `StableCurve` |
| `DlmmBootstrap` | `dlmm/fetcher.rs`, `multicall.rs`, `factor.rs`, `discovery.rs`, `token_info.rs`, `call_read` of `rpc/client.rs` | concurrent fetches and a discovery over one client and its caches |
| `MCCollector`, `MCBlockWalker`, `MCDlmmPool`, `MCV2Pools`, `MCStablePools`, `MCDlmmBootstrap` | | instances for TLC: small chains, pools, tasks, bins and reserves |
| `*_proofs` | | theorems and lemmas of the module they are named after |

`Collector` and `BlockWalker` extend `Consumer`, which extends `EventQueue`: the queue's
actions are conjuncts of theirs, so by its shape each composition implements `QueueSpec`,
which is only a lemma by which the queue's theorems become theirs. Operators whose name ends in `_Fault` are not part of the model:
each is a plausible bug of the operator it precedes, with which the property named in
`PROJECT.json` must fail.

### How state and actions correspond to the code

* **Steps are awaits.** The tasks are tokio tasks without shared locks across awaits
  (apart from the dedup mutex, which is released before the push), so a task is cut at
  every request and at both halves of `send_dedup`. `MarkSeen` is the block under the
  mutex, `Enqueue` or `SendFails` the `tx.send(..).await` after it; `sending[p]` holds
  the event in between.
* **Time** appears only as the order of steps: sleeps, intervals and the 500 ms timeout
  of the processor's `recv` (after which it looks at the stop flag) become "may take the
  next step". `listening` says that the processor is past its check of the flag, so it
  may still take one event.
* **Data.** An event is identified by its contract and its position in that contract's
  history, which stands for `(tx_id, event_index)`. All handlers that matter here set
  absolute values (`dlmm/events.rs`, `v2/events.rs`), so the value of a mirrored cell is
  the position of the event that wrote it and `IsValueAt` says whether that is the
  chain's value at some height. An undecodable event has the cell `NoCell`.
* **Registry.** `pools[p]` is "outside", "fetched" (the caller has read it by RPC, the
  snapshot is in `mirror`) or "live". The window between the RPC read and the insert is
  therefore in the model. `topics` only grows, as in the code.
* **Handle.** "held", "stopping" (flag set, joining), "stopped", "dropped".
  `StopReturns` needs every task to be off; `Restart` is a new `start_collector` on the
  same registry, with a new queue and the old watermarks or cursor.
* **Collector.** `Wake` is the last look at the stop flag before a cycle; the flag may be
  set in the slice of sleep that follows, and the cycle begins all the same ("due").
  `StartPoll` reads the watermark, `FetchPage` is one request with the
  decisions of the page loop that follow it, `FetchFails` the `?` that ends the cycle,
  `Offer` and `Push` the two halves of a send, `EndPoll` the move of the watermark.
  `RunSource` is the moment the source task reads the topic set; `AddPool` decides by
  `polled`, the handle's own set, and starts one task for every *topic* of an unpolled
  contract, as the code does.
* **BlockWalker.** `Wake` is again the last look at the flag, after which a tick begins
  whatever happens to it. `StartWalk` is the part of `tick` from the answer of `/v2/info` to
  the first block request, `SnapToTip` its early exits that move the cursor, `NothingNew`
  the one at `tip <= cursor`, `TipFails` the failing request for the tip. `FetchBlock` gets a block and the details of
  its transactions (`Losses` says which may be missing), `Relevant` is the filter of
  `ingest_block_txs`, `BlockFails` the `?`. Positions in `Log` replace (height, index).
* **DlmmPool.** One mirrored pool. Each turn of the loop in `quote_x_for_y` or
  `quote_y_for_x` is a step, for either direction (`token` is the input token):
  `SkipBin` passes a bin that is not mirrored or empty, `SwapInBin` is the swap step of
  `math.rs` and what the loop does with its result, `StopWalk` the ways out. Walks hold
  the pool's read lock, so they overlap; an event (`ApplyEvent`, one action for each
  handler) needs the write lock and waits for all of them. Products saturate at
  `MaxUint`, fees keep the low `Word`. The last bin a walk reports is left out.
* **V2Pools.** `chain` and `ledger` are the chain: a swap pays what `Pays` says, the same
  formula as `Quote`, since the code takes its formulas from the contracts; how much of
  the fee stays in the pool is left open. An event carries the reserves in the order of
  the contract. `Receive` takes the next event of some contract, in the order of that
  contract, and collects the candidates of `pools_subscribed_to`; `ApplyTo` is one turn of
  the loop of `dispatch`, which waits for the pool's write lock. `Outsiders` are pools that
  another task locks (`registry.get`); `Managed` are those a caller adds, replaces and
  removes. The swap-token, lp-token and pool-id by which the handlers know their events
  are the pool itself. One handler, one operator (`ApplyArkadiko` ...).
* **StablePools.** As in `V2Pools` the chain pays by the formula that quotes; what differs
  is how a mirror comes by its terms. `FirstRead` is the first request of a fetch,
  answered at the tip the caller named, so it may be of any earlier state; a V1 fetch goes
  on with `ReadVariable`, one variable of `Variables(p)` a step, each read as the chain is
  then, and `ReadFails` ends it. `Receive` takes the next event of one contract: the pool's
  own stream brings reserves, its core's a midpoint, and the core's goes to all pools of
  that core. A pool of `Outsiders`, which some task beside the processor write-locks, may be
  locked at that moment (`try_read` fails): it is handed the event of any contract, as
  `pools_subscribed_to` does. `bi`, `mi` and `at` are history: the events the reserves and the midpoint come
  from, and when the fetch began. Dispatch is one step here, since `V2Pools` has it pool by
  pool. `Garbled` says which pools announce reserves without a field or a midpoint
  over 0, which the handlers refuse. Only events of stableswap V2 pools are offered to
  them: that the handlers of other pool kinds share some action names is left out. Quotes run the code's own Newton iterations, as recursive functions
  with the iteration cap, on words that saturate.
* **DlmmBootstrap.** `call` holds the open requests of all jobs and how often each was
  retried. `call_read` is what can come of one: `Limited` (a 429 with retries left; the
  backoff is part of it), `Answered` or `Failed`. The answers follow the stages of a
  fetch: `GotPool`, then `GotTable` for each table no cache has, then `GotBins`; `Width` is
  how many bin requests are open at once, 1 for the sequential chunks. A failed request
  ends the fetch and drops its other requests, except that of a single bin
  (`Aborts`). The chain's blocks are a constant, `head` how many there are yet; a request
  with a tip reads that block, the others the newest. The helper contract may answer with
  fewer items than ids (`Cuts`); an item that is an error is an empty bin. The radius of a
  window is a u32 and becomes an i32 (`AsI32`, `Half` for 2^31), by wrapping; the sum and the
  difference with the active bin wrap too, or panic in a build that checks for overflow
  (`RangeOverflows`: `ToBins` has both outcomes). A range that comes out empty completes the
  fetch at once.
  `Consumer` and `Collector` take a snapshot at one height in one step: `HeldOnChain`
  is what allows it for a pinned fetch.
* **`Lifecycle`** names the failures and handle operations that a run may exercise; it
  is a switch of the instance, no behaviour of the code.

## 3. Properties and runs

Each property is stated with its meaning beside its definition. The bounds of an
instance are constants: `TopHeight`, `MaxBacklog`, `MaxBurst` and the histories.

| Run | Question | Instance |
|---|---|---|
| `collector` | `TypeOK`, `OrderedDelivery` (refinement of `OrderedMirror`), `PrefixConsistent`, `ReplayConsistent`, `Converges`, `StopCompletes` | two contracts with one poller each, 5 events, pages of 2 and 3 events a cycle (the page count is rounded up), requests fail, blocks arrive between pages, a two-event transaction, unseeded and seeded watermarks, channel of 1, stop at any moment |
| `collector_lifecycle` | `EveryTopicPolled`, `AtMostOnce` under every order of add, remove, stop, restart and drop against the source's start | three task slots, so that duplicate pollers of one contract exist and offer the same event |
| `walker_steady` | `OrderedDelivery`, `CaughtUp` | 6 blocks, 11 events of 3 contracts, up to 4 blocks a tick (the cap bites after a wait), failing requests, a pool added and the collector stopped at any moment |
| `walker_live` | `PickedUp`, `Delivered`, `StopCompletes`, `SeenBounded`, `NothingLost` | no pool at the start (empty topic set), add, remove, stop and restart, 3 blocks, channel of 1 and a dedup set of 2 keys, so that pushes wait and keys are evicted and offered again |
| `dlmm_pool` | `PoolTypeOK`, `NoBetterThanActive`, `NoRoundTripGain`, `Monotone`, `WithinInventory`, `StopsForAReason` | two walks at once, 7 amounts, 4 bin ids with prices 2, 3, 4, 6 to a scale of 3 (so that divisions leave remainders), fees of 0 to 3 in 10 a field, three snapshots with one-sided, missing and no bins, events for this and another pool and with missing fields |
| `v2_pools` | `V2TypeOK`, `OwnHistory`, `KeptUp`, `QuotesAsChain`, `ProductNeverFalls` | a Velar pair named in the other order beside one that is not mirrored, an Arkadiko pair, an xyk pool with fees that differ by direction, an ALEX pair in the other order that is added meanwhile; two events, since the second is where filter, order and replacement meet; the contracts' own fee scales |
| `stable_pools` | `StableTypeOK`, `OwnParts`, `QuotesOnTerms`, `QuoteOnCurve`, `BugPaysLess` | two V2 pools of one core (one registered from the start, one with a midpoint of 2/3, decimals that differ, one whose events are garbled), a V2 pool of an older core, a V1 pool of either generation with either form of fees; three changes of the chain, at most two of one pool that shares its core and one of its peer (`MaxChanges`), so that fetch, reserves, midpoint and a foreign midpoint can all fall between each other; the pool that is there from the start may be locked, and takes its peer's reserves; a behaviour is about pools that can meet (`Together`: the two of one core, or one alone) |
| `dlmm_bootstrap` | `BootTypeOK`, `HeldOnChain`, `NoneDropped`, `OwnTables`, `ListingsOfRegistry`, `JobsEnd` | a fetch in chunks and one of a window, with parallelism 0, at once, that share a token; a fetch bin by bin; windows of radius 3 and 7, of which, with an i32 of 3 bits, the first overflows with one of the active bins and the second is negative; a discovery of two to four ids, one without a listing and one that does not decode; two blocks that differ in every read, pinned to either or not; one retry. 3 bins and chunks of 2, so that the last chunk is short and the window is clamped |

Conditions under which the ordering properties hold, and which the passing runs meet:
at most `max_events_per_cycle` events, or what the cold-start window holds, between two
cycles (`MaxBacklog`); at most a page of new events between two requests of a cycle
(`MaxBurst`); one poller per contract; a dedup set that has not forgotten what is
offered again; for the walker, a cursor seeded with the snapshot's block, as
`test_all_dlmm` does, and blocks that are indexed when they are asked for. They are
assumptions about the chain and the node, not guards of the code: the code does not
test them, and the runs below show what happens without.

`QuotesOnTerms` is about a stableswap mirror that is up to date (`UpToDate`): it has taken
all that was announced of its pool, and what is not announced - status and fees of V2,
everything of V1 - has not changed since its fetch began. `QuoteOnCurve` holds up to
`Slack` = 2 units of the output, for the two iterations stop within the threshold and every
division is floored; it excepts nothing else in the instance, but a reserve whose pegged
value rounds to 0 (1 at a midpoint of 2/3) makes `get_y` return 0 and the quote hand out the
whole other reserve, so the instance keeps reserves above that. The contract's midpoints
are assumed to be positive. `HeldOnChain` says more of a pinned fetch than of one without
a tip: of the latter only each bin by itself is of some block of the fetch.
`NoneDropped` names what the code gives up by design: the bin whose own request failed, and
what the helper's answer has no item for; and it is about radii that fit (`Fits`: below 2^31 less
the greatest bin id), because `radius as i32` (fetcher.rs:148) makes a radius from 2^31 up
negative: the range is empty and the fetch returns a pool without any bin, as a success.
`OwnParts` says of a pool that another task write-locks only that its reserves are what some
pool announced: registry.rs:109-113 makes it a candidate for the event of any contract, and
stableswap/events.rs:42-53 does not look whose reserves it is given. Its midpoint stays its own.
`QuotesOnTerms` holds of it again from the next event of its own on. The factor cache is keyed by the bin step alone;
`OwnTables` holds because there is one core.

### Where code and documentation disagree

Each of these runs violates one property that states the documentation's words.

| Run | Documentation | What the code does |
|---|---|---|
| `collector_once` | handle.rs:36-37, `src/HANDOFF_ARB_STACKS_DLMM.md`:490-492: one new poller for a new contract | one for every topic of the contract: the filter looks at `polled`, which does not change while the topics are collected |
| `collector_burst` | event_poller.rs:136-137: chronological order | pages are offsets from the tip; after more than a page of new events the second page is newer than the first and is sent before it |
| `walker_unindexed` | block_walker.rs:105: the caller can retry next tick | a 404 is an empty block and the cursor moves past it |
| `v2_reversed` | v2/fetcher.rs:90-91: `x_balance` corresponds to `expected_x_token` (`bin/test_all_pools.rs`:264: Arkadiko and ALEX "auto-flip") | the fetcher swaps the reserves, the handlers of Arkadiko and ALEX write those of an event as they come (v2/events.rs:58, 146): after the first event each is under the other token. Velar keeps the flag |

Met while modelling, and not given a run: the tasks of a dropped handle own the registry
and the sender and never end (handle.rs:24-26 says that they do); a walk does not pass a
bin without the output token, `r.used == 0` ends it, so with an active bin of x alone
every x-for-y quote is 0 (pool.rs:76-78 says that it goes on until the input is spent or
the bins end, `StopsForAReason` states what it does); no handler refuses events while the
pool is disabled or paused (arkadiko.rs:63-64, bitflow_xyk.rs:61), and no event of an
xyk pool changes its status; bitflow_xyk.rs:27-28 says that the core is kept in the
topic list, `topics()` names the pool's own contract only; the watermark is of the latest tx *queued*, not
processed (registry.rs:37), so stop leaves events behind that a collector restarted on the
same registry never asks for; registry.rs:106-108 relies on `apply_event` to drop foreign
events, which the handlers of `update-bin-balances` and `update-pool-balances` do not (put an
xyk pool into `Outsiders` and add another one, and `OwnHistory` fails); the
third result of a quote says "ran out of mirrored bins" (pool.rs:80-83) whenever input is
left; a full queue makes producers wait (config.rs:17-18
and metrics.rs:16 say that it evicts); a cold start replays events the snapshot already
contains (config.rs:20-23 says the snapshot is trusted), so until it has caught up a cell
holds its snapshot value or an older one, which is `ReplayConsistent`; an event evicted from the dedup set can be applied after a newer one
(event_queue.rs:39-41 calls that harmless); the walker's cold start skips what happened
between the snapshot and the first tick (block_walking_source.rs:13-15 says the
snapshot captures it); fetcher.rs:140 drops the zero entries that multicall.rs:221-232
makes of items that are errors, where multicall.rs:116-118 says that the caller never sees
those; multicall.rs:242 gives a chunk size of 500 for the constant that is 100; curve.rs:9
has A·n^n where the code, with n = 2 and `amp * 2`, has A·n; a stableswap midpoint over 0 is
refused from an event (stableswap/events.rs:78) but not from a fetch, and one of 0 from
neither; a stableswap pool under a writer's lock takes a foreign pool's reserves for its
own, as an xyk pool does, and either takes the other's (both name the action
`update-pool-balances`); what happens between the RPC read of an added pool and its
`add_pool` reaches it only if the contract is new to the collector (handle.rs:56-59); the
walker sends an event of a contract no pool has yet when its transaction calls a registered
one (block_walking_source.rs:330-338), so a pool that is added while a tick fails further on
gets, from the blocks walked again, that contract's older events after the newer one, which
the dedup set holds back: its mirror can end at an older value. `OrderedMirror` therefore
promises order for the contracts of the initial pools (`Followed`).

### Fairness

`Converges`, `StopCompletes`, `PickedUp` and `Delivered` assume weak fairness of the
steps a task can take alone (tokio runs every ready task), and strong fairness of a push
(`Push`): tokio's semaphore hands permits out in arrival order, so a waiting sender is not
overtaken for ever. In `collector` requests fail; there a request for the k-th page that is
made again in cycle after cycle is answered at last (strong fairness of `FetchPage` for each
k), which is the least under which any cycle ends; no bound is put on the failures before.
In `walker_live` `"fail"` is absent, and nothing is assumed of `TipFails` or `BlockFails`. `JobsEnd` assumes only that while requests are
open something comes of one of them (the client's timeout): they may all be rate limited
or fail. Nothing is assumed of the chain, of callers, or of the owner of the handle.

## 4. Proofs

Assumptions are the named `ASSUME`s of the modules; TLC evaluates them in the runs.

* `Consumer_proofs`: of the queue, `QueueTypeCorrect`, `DedupCorrect`, `NothingLostCorrect`.
  `AtMostOnce` alone is not inductive: an event could be in the channel, absent from
  the dedup set and not forgotten, and then be marked again. The invariant adds that
  whatever is being sent, queued or delivered is in the set or forgotten.
  `SeenBounded` needs that half of the cap is at least one key. The second part shows that
  each action of the consuming side keeps its types and is a step or a stutter of the
  queue. The third takes a source's order of sending to the order of dispatch: if what is
  marked of a contract is later than all marked before, one push of it at a time, and leaves
  out only events of the snapshot (`NoGap`), then channel and pushes hold each contract's
  events in order (`QueuedInOrder`), what is not dispatched comes after what was
  (`Undispatched`), and each dispatch is `OrderedMirror`'s next one (`NextInOrder`). Both
  compositions use all three.
* `DlmmPool_proofs`: `PoolTypeCorrect`, `BetterThanActiveNever`, `RoundTripGainNever`,
  `StopsCorrect`, `MonotoneCorrect`, `InventoryCorrect`, for any bins, factors that grow
  with the bin id, scales, amounts, and fees below a third of the fee scale each
  (`PoolAssumption`; math.rs:92-93 leaves fees of 100 % to the contract). The price of a whole walk is the sum of its steps, so the
  invariant carries the running inequality between what was bought and what was spent,
  and that a walk is on its side of the active bin: only there is the price of the next
  bin the worse one. That a walk which spent nothing bought nothing closes the case of
  an active bin of price 0. Saturation needs no assumption: it lowers what is paid.
  `StopsCorrect` does need one, `Unsaturated(B)`, which is the argument of math.rs:4-8 for
  a bound B on balances (`MCDlmmPool` checks it for its instance); its heart is `GrossUp`,
  that the floor of the grossed-up cap and the floor of the fee never lose a unit.
  `MonotoneCorrect` and `InventoryCorrect` need more: where a walk is. `PathInv` says of each
  walk that it has passed every bin before its own with what was then left, that it has left
  what the passed bins do not take (`Left`), and that it has bought what they hold (`Held`);
  a walk that is done says in which bin it ended and how. So a walk is a function of its
  amount, and two walks can be compared: what passes a bin passes it with more
  (`PassesMonotone`), and where both end, more input takes no less, leaves no less after the
  fee (`AfterFeeMonotone`: the fee on one unit is at most that unit, floors and saturation
  included) and is paid no less. The sums over bins are folds, recursive functions over the
  subsets of a set. The proofs get them by taking a least counterexample among those subsets
  (`LeastSet`): a function that follows the recursion exists (`SumsExist`), any element may
  come first (`SumTake`) and a larger set has no smaller sum (`SumGrows`).
* `OrderedMirror_proofs`: `MirrorTypeCorrect`, `MirrorConsistent`. `PrefixConsistent` says
  nothing while the snapshot's own events are replayed, so it is proved with
  `ReplayConsistent` (a cell has its snapshot value or the one the replay has reached)
  and with the fact that before the first dispatch it has its snapshot value.
* `Collector_proofs`, `BlockWalker_proofs`: type correctness, and the queue's theorems for
  the compositions (`CollectorDedup`, `WalkerDedup`), by the lemmas `CollectorUsesQueue` and
  `WalkerUsesQueue` that each composition implements `QueueSpec`.
* `BlockWalker_proofs` also has `WalkerDelivers`, that the walker implements `OrderedMirror`,
  and `WalkerCatchesUp`, for any chain, block bounds, queue bounds and pools. Hypotheses:
  `Steady` (no cold start, unindexed block, lost sender, removed pool or restart: each
  breaks the order by design, see section 3) and a dedup set that forgets nothing in the
  behaviour. `ChainOrder` says what a chain is. The invariant `OrderInv`: what has been
  offered is the events of the followed contracts up to the block in work, without a gap
  after the snapshot (`SeenInv`, `WalkedInv`), because a failed tick leaves the cursor behind
  and the blocks it walks again are held back by the dedup set; what is still to be sent of
  a block comes after what was (`SentInOrder`); the rest is `Consumer_proofs`' third part.
  `CaughtUp` follows with the promise's own theorem, instantiated (`Facts`).
* `Collector_proofs` also has `EveryTopicPolledCorrect`, for any pools and any order of add,
  remove, stop, restart and the source's start, if there is a task for each contract
  (`EnoughTasks`). `EveryTopicPolled` is not inductive: `add_pool` starts nothing on a
  contract in `polled`, so the invariant adds that `polled` names only topics.
* And `CollectorDelivers`, that the pollers implement `OrderedMirror`, with
  `CollectorPrefixConsistent` and `CollectorReplayConsistent` from it, for any chain, pools, tasks, page size and limits.
  Hypotheses: `Paced`, which is the conditions of section 3 with no pool removed and no
  restart (each breaks the promise by design; pools may be added, requests may fail, the
  handle may be stopped or dropped), and a dedup set that forgets nothing in the behaviour;
  `TransactionsWhole` says that a transaction's events are consecutive in its contract's list.
  `collector` meets them; `collector_burst` misses one, `MaxBurst` at most a page, and fails.
  That each followed contract has one task (`OneTask`) is not a hypothesis: `add_pool` does
  start several on a new contract, but never on one in `polled`. Of each followed contract
  `ContractInv` says where it is in its cycle. At rest, nothing decodable up to the watermark
  is missing from what was sent, but events of the snapshot older than all sent (`AtRest`).
  While pages are fetched, the batch covers the positions from the first page's newest event
  down, without a gap, some of them twice when the tip moved between two pages; what holds is
  that each position comes after every greater one for the last time (`Collected`). The
  arithmetic is that the next page starts where the last ended or above it (`CollectMore`),
  since the tip moved by no more than a page, and that the page count, rounded up, reaches the
  watermark before the cap ends the cycle (`CapReaches`, `RoundedUp`). Reversed and filtered by the
  dedup set, the repeats go to the later place (`ReversedOrder`), so while the batch is sent
  each position waits for all smaller ones and nothing sent is later than one that is still to
  be sent, as far as they are decodable (`SendOK`): an event that no pool decodes is not
  marked, and may come twice.
* `V2Pools_proofs`: `V2TypeCorrect`, `ProductCorrect`, `OwnHistoryCorrect`, `KeptUpCorrect`,
  `QuotesCorrect`, for any number of pools and events and all four fee formulas.
  `ProductCorrect` is arithmetic: every fee leaves at most the input (`NetLemma`), and the
  floor of `Out` favours the pool (`OutLemma`, `ProductLemma`). `OwnHistory` and `KeptUp`
  need `HistoryInv`: what dispatch still has to do is one event, the last one received of
  the pool that announced it, and what a pool not waiting for it holds is the last of its
  own events (`HoldsLast`, which `KeptUp` is at the moments when nothing is pending).
  `QuotesCorrect` adds `SnapshotInv`: the chain has the reserves of the pool's last event,
  a snapshot those of the chain unless something was announced since. The last three
  theorems have a hypothesis, `XykUncontended`: no xyk pool is locked outside the
  processor, because an xyk handler does not look whose event it gets (section 3).

* `StablePools_proofs`: `StableTypesCorrect`, `PartsAreOwn`, `UpToDateQuotesOnTerms`, for any
  pools of either generation, amplification, fees and curve: nothing is assumed of the
  quote beyond `StableAssumption`. `PartsAreOwn` is stated for any pools locked by other tasks
  (`Outsiders`), with what it then says of their reserves. `StableInv` is `StableTypeOK` with three parts: of the
  chain (`ChainInv`: the ledger says of every change what it left alone, so a state the
  ledger is silent about is the present one), of every read in progress (`ReadInv`) and of
  every mirror (`MirrorInv`): its reserves and its midpoint are, each, those of the block
  the fetch read them at or of one announced change, and its fees those of a state after
  which the fees did or did not change. `StableTypeOK` is not inductive alone: that no
  reserve is overdrawn needs a quote of at most the reserve, and that no midpoint is zero
  needs what the contract announces. The sum of the fee parts is a fold, which the provers
  know as a `CHOOSE` of a recursive function; for two or three parts the proof gives that
  function (`PartsMeetTheRecursion`), so no induction is needed.
* `DlmmBootstrap_proofs`: `BootTypesCorrect`, `FetchedIsOnChain`, `NoBinDropped`,
  `FetchedOwnTables`, `DiscoveredIsListed`, for any pools and chain, in any mode, radius,
  chunk size, parallelism and number of retries; `NoBinDropped` for radii that fit
  (`RangeIsWithin`: for those the range asked for is `Within`). `BootInv` has one part for each job, of
  its state, the requests it has open and the head of the chain, because jobs share only
  the caches and the chain: `CallsMove` shows that what a job opens and closes is its own,
  and `LaterFetchOK`, `LaterDiscOK` that a new block falsifies nothing. `NoneDropped` says
  nothing of a fetch in progress; the invariant says that each bin of the range is held,
  was seen empty, was given up, or is in a request that is open or still to be sent
  (`BinsOK`), which needs that the chunks cover the ids (`ChunksCover`: the arithmetic of
  the division by `CHUNK`) and that the first requests and the later ones are all of them
  (`Split`). For a discovery the same holds of the ids; `SortedLemma` shows that sorting
  permutes the listings, counting ids below each listing's: the ranks are distinct and
  there are as many as listings.

Only model-checked: `QuoteOnCurve` and `BugPaysLess`, which hold within a slack that belongs
to the amounts of the instance: how near the two Newton iterations come, with the passes and
the threshold they have, is not a fact about every reserve and amplification. And everything
under fairness (`Delivered`, `Converges`, `StopCompletes`, `PickedUp`, `JobsEnd`; liveness is
out of the prover's reach, and so is `ENABLED`). The proofs check with the default time of
each prover and with a fifth of it (`tlapm --stretch 0.2`).

## 5. Not modelled, and the plan

`PROJECT.json` lists every component with its status and every hazard with its line; a
hazard without a property says which planned module it waits for. Left to do: the two steps
of `insert` in `V2Pools` (an event between them is one of those between snapshot and insert,
which `KeptUp` excepts already), the last bin of a walk in `DlmmPool`, a reorganisation of
the chain in `Collector`.

Left out for good: the codec (`codec/*.rs`) is encoding byte by byte, and the modules take a
payload for what it decodes to; where a decode that fails makes a difference, that is
modelled where it happens (`NoCell`, `Garbled`, `FetchFails`, `Failed`). Metrics callbacks
change no state; names of tokens (`stx_wrap.rs`) and log lines neither; the programs in
`bin/` appear as initial states.
