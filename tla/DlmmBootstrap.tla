---------------------------- MODULE DlmmBootstrap ----------------------------
(***************************************************************************)
(* How a DLMM pool is read from a node (dlmm/fetcher.rs, multicall.rs,     *)
(* factor.rs, discovery.rs, token_info.rs) through the RPC client          *)
(* (rpc/client.rs), while the chain moves: get-pool, then the decimals and *)
(* the factor table through two process-wide caches, then the bins, in     *)
(* chunks or one request per bin.  Several fetches run at once and share   *)
(* the caches; any request may be rate limited, fail, or be answered in    *)
(* any order.                                                              *)
(*                                                                         *)
(* The active bin stands for all that one get-pool answer holds.           *)
(***************************************************************************)
EXTENDS Integers, Sequences, FiniteSets, Functions

CONSTANTS
    Pool,           \* the pools
    Tokens,         \* Tokens[p]: x_token and y_token
    Step,           \* Step[p]: bin_step
    Mode,           \* Mode[p]: "Full", "Window" or "FullPerBin"
    Radius,         \* Radius[p]: the radius of a Window
    Center,         \* CENTER_BIN_ID; ids run from 0 to 2 * Center
    Half,           \* 2^31: an i32 runs from -Half to Half - 1
    Parallelism,    \* Parallelism[p], Parallelism["discovery"]: as asked for
    ChunkSize,      \* DEFAULT_CHUNK_SIZE
    MaxRetries,     \* max_retries
    Chain,          \* the blocks, in order: active bins, balances, listings
    Given,          \* Given[k]: the tables contracts give (decimals, factors)
    Cuts,           \* by how many items the helper's answers may be short
    Together        \* bound: the sets of jobs a behaviour is about

Discovery == "discovery"
Job == Pool \cup {Discovery}
None == 0
Bin == -Center .. Center
Id == 0 .. 2 * Center
Balance == [x : Nat, y : Nat]
Table == DOMAIN Given
Listing == [id : Nat \ {0}, pool : Pool, status : BOOLEAN]
(* An id the registry assigned has a listing, or none (any more), or one   *)
(* the fields of which do not decode.                                      *)
Entry == [form : {"some", "none", "malformed"}, pool : Pool, status : BOOLEAN]
Block == [active : [Pool -> Bin], bal : [Pool -> [Bin -> Balance]], listed : Seq(Entry)]

ASSUME BootAssumption ==
    /\ Discovery \notin Pool /\ Center \in Nat /\ ChunkSize \in Nat \ {0} /\ MaxRetries \in Nat
    /\ Mode \in [Pool -> {"Full", "Window", "FullPerBin"}] 
    /\ Half \in Nat \ {0} /\ Center < Half /\ Radius \in [Pool -> 0 .. 2 * Half - 1]
    /\ Parallelism \in [Job -> Nat] /\ Cuts \subseteq Nat /\ 0 \in Cuts
    /\ Chain \in Seq(Block) /\ Len(Chain) > 0
    /\ \A h, g \in DOMAIN Chain : h <= g => Len(Chain[h].listed) <= Len(Chain[g].listed)

VARIABLES
    head,   \* the tip of the chain
    cache,  \* the tables cached so far: GLOBAL of factor.rs, cache of token_info.rs
    call,   \* call[c]: how often the open request c was retried
    fetch,  \* fetch[p]: the fetch of p
    disc    \* the discovery

vars == <<head, cache, call, fetch, disc>>

(* Of a job: `tip` is the pinned block or None, `rest` the requests not    *)
(* yet sent.  Of a fetch: `got` the tables, `held` the bins so far.  The   *)
(* rest is history: `from` the head at the start, `lost` the bins or ids   *)
(* whose request failed, `cut` the bins the helper's answers left out.     *)
Discover ==
    [stage : {"idle", "last", "ids", "done", "failed"}, tip : Nat, from : Nat,
     rest : Seq(Nat \ {0}), out : Seq(Listing), lost : SUBSET (Nat \ {0})]

Signed(id) == id - Center
Unsigned(b) == b + Center
Empty(v) == v.x = 0 /\ v.y = 0

Tables(p) == {<<"decimals", Tokens[p][1]>>, <<"decimals", Tokens[p][2]>>, <<"factors", Step[p]>>}

-----------------------------------------------------------------------------
(* Requests.  A request is <<job, what, argument>>.                        *)
Of(j) == {c \in DOMAIN call : c[1] = j}
Opened(calls, new) == [c \in DOMAIN calls \cup new |-> IF c \in DOMAIN calls THEN calls[c] ELSE 0]
Closed(old) == Restrict(call, DOMAIN call \ old)

(* The block a read sees.                                                  *)
Latest_Fault(tip) == head
At(tip) == IF tip = None THEN head ELSE tip

OneMore_Fault(c) == call[c] <= MaxRetries
Retriable(c) == call[c] < MaxRetries

Limited(c) ==
    /\ Retriable(c)
    /\ call' = [call EXCEPT ![c] = @ + 1]
    /\ UNCHANGED <<head, cache, fetch, disc>>

Unfloored_Fault(j) == IF j \in Pool /\ Mode[j] = "Full" THEN 1 ELSE Parallelism[j]
Width(j) ==
    IF j \in Pool /\ Mode[j] = "Full" THEN 1
    ELSE IF Parallelism[j] = 0 THEN 1 ELSE Parallelism[j]

Put(f, k, v) == [j \in DOMAIN f \cup {k} |-> IF j = k THEN v ELSE f[j]]

(* The first requests of a list sent, up to the width; and the one sent    *)
(* when request c is over.                                                 *)
First(j, list) == SubSeq(list, 1, IF Len(list) < Width(j) THEN Len(list) ELSE Width(j))
Later(j, list) == SubSeq(list, Width(j) + 1, Len(list))
Sent(j, what, list) == {<<j, what, list[i]>> : i \in DOMAIN list}
NextFor(c, list) == Opened(Closed({c}), IF list = <<>> THEN {} ELSE {<<c[1], c[2], Head(list)>>})
Rest(list) == IF list = <<>> THEN <<>> ELSE Tail(list)
Final(c, list) == list = <<>> /\ Of(c[1]) = {c}

-----------------------------------------------------------------------------
(* A fetch.                                                                *)
Started == {p \in Pool : fetch[p].stage # "idle"} \cup IF disc.stage = "idle" THEN {} ELSE {Discovery}
InBounds(j) == \E set \in Together : Started \cup {j} \subseteq set

fetch_dlmm_pool(p, tip) ==
    /\ fetch[p].stage = "idle" /\ InBounds(p)
    /\ fetch' = [fetch EXCEPT ![p].stage = "config", ![p].tip = tip, ![p].from = head]
    /\ call' = Opened(call, {<<p, "get-pool", None>>})
    /\ UNCHANGED <<head, cache, disc>>

(* The requests for the bins: the ids in chunks, or lo ..= hi one by one.  *)
Chunks ==
    LET size == 2 * Center + 1
    IN  [i \in 1 .. (size + ChunkSize - 1) \div ChunkSize |->
            [k \in 1 .. IF i * ChunkSize <= size THEN ChunkSize ELSE size - (i - 1) * ChunkSize |->
                (i - 1) * ChunkSize + k - 1]]

(* A radius is a u32, what is computed with it an i32: the cast wraps, and *)
(* so does the arithmetic, in a build that does not check for overflow.    *)
Overflows(n) == n < -Half \/ n >= Half
Wrap(n) == IF n >= Half THEN n - 2 * Half ELSE IF n < -Half THEN n + 2 * Half ELSE n
AsI32(radius) == Wrap(radius)

Lo(p, active) ==
    LET lo == Wrap(active - AsI32(Radius[p]))
    IN  IF Mode[p] = "Window" /\ lo > -Center THEN lo ELSE -Center
Hi(p, active) ==
    LET hi == Wrap(active + AsI32(Radius[p]))
    IN  IF Mode[p] = "Window" /\ hi < Center THEN hi ELSE Center

RangeOverflows(p, active) ==
    /\ Mode[p] = "Window"
    /\ Overflows(active - AsI32(Radius[p])) \/ Overflows(active + AsI32(Radius[p]))

Requests(p, active) ==
    IF Mode[p] = "Full" THEN Chunks
    ELSE [i \in 1 .. Hi(p, active) - Lo(p, active) + 1 |-> <<Unsigned(Lo(p, active) + i - 1)>>]

(* What becomes of a fetch that has its tables, and what it asks for: the  *)
(* first of its bins; if its range has none it is complete already; in a   *)
(* build that checks for overflow a range that overflows panics.           *)
ToBins(p, f) ==
    LET list == Requests(p, f.active)
    IN  {[next |-> [f EXCEPT !.stage = IF list = <<>> THEN "done" ELSE "bins", !.rest = Later(p, list)],
          calls |-> Sent(p, "bins", First(p, list))]} \cup
        IF RangeOverflows(p, f.active) THEN {[next |-> [f EXCEPT !.stage = "failed"], calls |-> {}]} ELSE {}

(* get-pool answered: a table found in a cache is taken, the others are    *)
(* asked for together, without a tip.                                      *)
AnyOfKind_Fault(k) == {cache[d] : d \in {d \in DOMAIN cache : d[1] = k[1]}}
Lookup(k) == {cache[d] : d \in DOMAIN cache \cap {k}}

GotPool(p) ==
    LET c == <<p, "get-pool", None>>
        f == [fetch[p] EXCEPT !.active = Chain[At(fetch[p].tip)].active[p], !.stage = "tables",
                              !.got = [k \in {k \in Tables(p) : Lookup(k) # {}} |->
                                          CHOOSE v \in Lookup(k) : TRUE]]
        asked == Tables(p) \ DOMAIN f.got
    IN  /\ \E out \in IF asked = {} THEN ToBins(p, f)
                      ELSE {[next |-> f, calls |-> {<<p, "table", k>> : k \in asked}]} :
              fetch' = [fetch EXCEPT ![p] = out.next] /\ call' = Opened(Closed({c}), out.calls)
        /\ UNCHANGED <<head, cache, disc>>

(* A table answered: it is cached whether or not another fetch has cached  *)
(* it meanwhile.                                                           *)
GotTable(p, k) ==
    LET c == <<p, "table", k>>
        f == [fetch[p] EXCEPT !.got = Put(@, k, Given[k])]
    IN  /\ k \in Table
        /\ cache' = Put(cache, k, Given[k])
        /\ \E out \in IF Of(p) = {c} THEN ToBins(p, f) ELSE {[next |-> f, calls |-> {}]} :
              fetch' = [fetch EXCEPT ![p] = out.next] /\ call' = Opened(Closed({c}), out.calls)
        /\ UNCHANGED <<head, disc>>

(* The requests of p for the bins of `ids` is over, f what it leaves of    *)
(* the fetch: the next one is sent, after the last the pool is complete.   *)
Collect(p, ids, f) ==
    LET c == <<p, "bins", ids>>
    IN  /\ fetch' = [fetch EXCEPT ![p] = [f EXCEPT !.rest = Rest(@),
                        !.stage = IF Final(c, f.rest) THEN "done" ELSE "bins"]]
        /\ call' = NextFor(c, f.rest)
        /\ UNCHANGED <<head, cache, disc>>

(* Bins answered, by position: bins that hold neither token are left out,  *)
(* and so are those the answer, `short` items short, has no item for.      *)
GotBins(p, ids, short) ==
    LET bal == Chain[At(fetch[p].tip)].bal[p]
        n == IF short < Len(ids) THEN Len(ids) - short ELSE 0
        bins == {b \in {Signed(ids[i]) : i \in 1 .. n} : ~Empty(bal[b])}
    IN  /\ short # 0 => Mode[p] = "Full"
        /\ Collect(p, ids, [fetch[p] EXCEPT
                !.held = [b \in DOMAIN @ \cup bins |-> IF b \in bins THEN bal[b] ELSE @[b]],
                !.cut = @ \cup {Signed(ids[i]) : i \in n + 1 .. Len(ids)}])

(* A request failed for good.  A bin's own request is taken for an empty   *)
(* bin; any other failure ends the fetch, and its open requests with it.   *)
Tolerant_Fault(p, what) == what # "bins"
Aborts(p, what) == what # "bins" \/ Mode[p] = "Full"

FailFetch(p, c) ==
    \/ /\ Aborts(p, c[2])
       /\ fetch' = [fetch EXCEPT ![p].stage = "failed"]
       /\ call' = Closed(Of(p))
       /\ UNCHANGED <<head, cache, disc>>
    \/ /\ ~Aborts(p, c[2])
       /\ Collect(p, c[3], [fetch[p] EXCEPT !.lost = @ \cup {Signed(c[3][i]) : i \in DOMAIN c[3]}])

-----------------------------------------------------------------------------
(* Discovery.                                                              *)
discover_dlmm_pools(tip) ==
    /\ disc.stage = "idle" /\ InBounds(Discovery)
    /\ disc' = [disc EXCEPT !.stage = "last", !.tip = tip, !.from = head]
    /\ call' = Opened(call, {<<Discovery, "last", None>>})
    /\ UNCHANGED <<head, cache, fetch>>

GotLast ==
    LET last_id == Len(Chain[At(disc.tip)].listed)
        ids == [i \in 1 .. last_id |-> i]
    IN  /\ disc' = [disc EXCEPT !.stage = IF last_id = 0 THEN "done" ELSE "ids",
                                !.rest = Later(Discovery, ids)]
        /\ call' = Opened(Closed({<<Discovery, "last", None>>}),
                          Sent(Discovery, "id", First(Discovery, ids)))
        /\ UNCHANGED <<head, cache, fetch>>

(* A listing, or nothing when there is none, the call failed or it does    *)
(* not decode: the next id is asked for; after the last the listings are   *)
(* sorted by id, of which there is one listing each: the i-th is the one   *)
(* with i ids up to its own.                                               *)
AsArrived_Fault(out) == out
UpTo(listings, id) == {l \in listings : l.id <= id}
SortedById(out) ==
    [i \in DOMAIN out |-> CHOOSE l \in Range(out) : Cardinality(UpTo(Range(out), l.id)) = i]

Listed(id, found, lost) ==
    LET c == <<Discovery, "id", id>>
        out == disc.out \o found
    IN  /\ disc' = [disc EXCEPT !.rest = Rest(@),
                        !.stage = IF Final(c, disc.rest) THEN "done" ELSE "ids",
                        !.out = IF Final(c, disc.rest) THEN SortedById(out) ELSE out,
                        !.lost = @ \cup lost]
        /\ call' = NextFor(c, disc.rest)
        /\ UNCHANGED <<head, cache, fetch>>

decode_listing(id, entry) ==
    IF entry.form # "some" THEN <<>>
    ELSE <<[id |-> id, pool |-> entry.pool, status |-> entry.status]>>

GotListing(id) == Listed(id, decode_listing(id, Chain[At(disc.tip)].listed[id]), {})

FailDiscovery(c) ==
    \/ /\ c[2] = "last"
       /\ disc' = [disc EXCEPT !.stage = "failed"]
       /\ call' = Closed({c})
       /\ UNCHANGED <<head, cache, fetch>>
    \/ c[2] = "id" /\ Listed(c[3], <<>>, {c[3]})

-----------------------------------------------------------------------------
NewBlock ==
    /\ head < Len(Chain) /\ head' = head + 1
    /\ UNCHANGED <<cache, call, fetch, disc>>

(* Request c is answered, or fails: a send error, the timeout, a status    *)
(* other than 429 or a 429 after the last retry, an answer that is not     *)
(* okay or does not decode.                                                *)
Answered(c) ==
    \/ c[2] = "get-pool" /\ GotPool(c[1])
    \/ c[2] = "table" /\ GotTable(c[1], c[3])
    \/ c[2] = "bins" /\ \E short \in Cuts : GotBins(c[1], c[3], short)
    \/ c[2] = "last" /\ GotLast
    \/ c[2] = "id" /\ GotListing(c[3])

Failed(c) == IF c[1] = Discovery THEN FailDiscovery(c) ELSE FailFetch(c[1], c)
call_read(c) == Limited(c) \/ Answered(c) \/ Failed(c)

Init ==
    /\ head = 1 /\ cache = <<>> /\ call = <<>>
    /\ fetch = [p \in Pool |-> [stage |-> "idle", tip |-> None, from |-> 1, active |-> 0,
                                got |-> <<>>, rest |-> <<>>, held |-> <<>>, lost |-> {}, cut |-> {}]]
    /\ disc = [stage |-> "idle", tip |-> None, from |-> 1, rest |-> <<>>, out |-> <<>>, lost |-> {}]

Next ==
    \/ NewBlock
    \/ \E p \in Pool, tip \in {None} \cup 1 .. head : fetch_dlmm_pool(p, tip)
    \/ \E tip \in {None} \cup 1 .. head : discover_dlmm_pools(tip)
    \/ \E c \in DOMAIN call : call_read(c)

Requestable ==
    (Pool \X {"get-pool"} \X {None}) \cup (UNION {{p} \X {"table"} \X Tables(p) : p \in Pool}) \cup
    (Pool \X {"bins"} \X (Range(Chunks) \cup {<<id>> : id \in Id})) \cup
    {<<Discovery, "last", None>>} \cup
    {<<Discovery, "id", i>> : i \in DOMAIN Chain[Len(Chain)].listed}

(* While requests are open something comes of one of them, by the client's *)
(* timeout at the latest; a task that slept its backoff goes on.           *)
Spec == Init /\ [][Next]_vars /\ WF_vars(\E c \in DOMAIN call : call_read(c))

-----------------------------------------------------------------------------
(* The state is well typed: no request was retried more than max_retries   *)
(* times, no bin outside the range was asked for or stored.                *)
BootTypeOK ==
    /\ head \in DOMAIN Chain
    /\ DOMAIN cache \subseteq Table
    /\ DOMAIN call \subseteq Requestable /\ call \in [DOMAIN call -> 0 .. MaxRetries]
    /\ DOMAIN fetch = Pool
    /\ \A p \in Pool :
          /\ DOMAIN fetch[p] = {"stage", "tip", "from", "active", "got", "rest", "held", "lost", "cut"}
          /\ fetch[p].stage \in {"idle", "config", "tables", "bins", "done", "failed"}
          /\ fetch[p].tip \in {None} \cup DOMAIN Chain /\ fetch[p].from \in 1 .. head
          /\ fetch[p].active \in Bin /\ DOMAIN fetch[p].got \subseteq Tables(p) \cap Table
          /\ fetch[p].rest \in Seq(Seq(Id)) /\ fetch[p].lost \subseteq Bin /\ fetch[p].cut \subseteq Bin
          /\ DOMAIN fetch[p].held \subseteq Bin /\ fetch[p].held \in [DOMAIN fetch[p].held -> Balance]
    /\ disc \in Discover

(* The blocks the reads of a job may have seen.                            *)
Span(job) == IF job.tip = None THEN job.from .. head ELSE {job.tip}
Done == {p \in Pool : fetch[p].stage = "done"}

(* Every amount a fetched pool holds is what that bin, and no other, held  *)
(* on chain: at the pinned block if there is one -- so the pool is that of *)
(* one block -- else at some block of the fetch, whatever was retried and  *)
(* in whichever order the answers came.                                    *)
HeldOnChain ==
    \A p \in Pool :
        /\ p \in Done => \E h \in Span(fetch[p]) : fetch[p].active = Chain[h].active[p]
        /\ \A b \in DOMAIN fetch[p].held : \E h \in Span(fetch[p]) :
              fetch[p].held[b] = Chain[h].bal[p][b] /\ ~Empty(Chain[h].bal[p][b])

(* The bins a mode is for: all, or those within the radius of the active   *)
(* bin; and the radii the code can reckon with, below 2^31 - 500.          *)
Within(p, active) ==
    {b \in Bin : Mode[p] = "Window" => active - Radius[p] <= b /\ b <= active + Radius[p]}
Fits(p) == Mode[p] = "Window" => Radius[p] + Center < Half

(* A fetched pool, of a radius that fits, lacks a bin its mode is for that *)
(* held something all the time only if, one request per bin, that request  *)
(* failed or, in chunks, the helper left the bin out: a failed chunk fails *)
(* the fetch.  (From a radius of 2^31 up the pool comes without any bin.)  *)
NoneDropped ==
    \A p \in Done : Fits(p) => \A b \in Within(p, fetch[p].active) :
        \/ b \in DOMAIN fetch[p].held
        \/ \E h \in Span(fetch[p]) : Empty(Chain[h].bal[p][b])
        \/ b \in IF Mode[p] = "Full" THEN fetch[p].cut ELSE fetch[p].lost

(* The tables of a fetched pool are those of its own tokens and bin step,  *)
(* whichever fetch asked for them and cached them.                         *)
OwnTables ==
    \A p \in Done : fetch[p].got = [k \in Tables(p) |-> Given[k]]

(* A discovery answers with listings of the registry in the order of their *)
(* ids, each at most once, whatever the order of the answers; and of the   *)
(* ids assigned at one moment of the discovery it misses one only if its   *)
(* request failed or it had no listing that decodes.                       *)
ListingsOfRegistry ==
    disc.stage = "done" =>
        LET found == {disc.out[i].id : i \in DOMAIN disc.out}
            Is(id, h) == decode_listing(id, Chain[h].listed[id])
        IN  /\ \A i, j \in DOMAIN disc.out : i < j => disc.out[i].id < disc.out[j].id
            /\ \A i \in DOMAIN disc.out : \E h \in Span(disc) :
                  disc.out[i].id \in DOMAIN Chain[h].listed /\ <<disc.out[i]>> = Is(disc.out[i].id, h)
            /\ \E h \in Span(disc) : \A id \in DOMAIN Chain[h].listed \ (found \cup disc.lost) :
                  \E g \in Span(disc) : id \in DOMAIN Chain[g].listed /\ Is(id, g) = <<>>

(* Every fetch and every discovery ends, with a pool or with an error,     *)
(* however often the node rate limits and whatever parallelism was asked.  *)
JobsEnd ==
    /\ \A p \in Pool : fetch[p].stage = "config" ~> fetch[p].stage \in {"done", "failed"}
    /\ disc.stage = "last" ~> disc.stage \in {"done", "failed"}
=============================================================================
