------------------------ MODULE DlmmBootstrap_proofs ------------------------
(***************************************************************************)
(* Proofs about DlmmBootstrap for any pools, modes, parallelism, chunk     *)
(* size, number of retries and chain: types, that what a fetch holds was   *)
(* on chain, that it leaves no bin out by itself, that its tables are its  *)
(* own, and that a discovery answers with the registry's listings.         *)
(***************************************************************************)
EXTENDS DlmmBootstrap, FiniteSetTheorems, SequenceTheorems, TLAPS

(* The jobs share the caches and the chain only, so the invariant is one   *)
(* of each job: of its state `f`, the requests it has open, `mine`, and    *)
(* the head `h` of the chain.                                              *)
BinLists == Range(Chunks) \cup {<<id>> : id \in Id}
AtOf(tip, h) == IF tip = None THEN h ELSE tip
SpanOf(f, h) == IF f.tip = None THEN f.from .. h ELSE {f.tip}

(* The types of a fetch.                                                   *)
FetchFields == {"stage", "tip", "from", "active", "got", "rest", "held", "lost", "cut"}

TimeShape(f, h) == f.tip \in {None} \cup DOMAIN Chain /\ f.from \in 1 .. h

BinShape(f) ==
    /\ f.rest \in Seq(BinLists) /\ f.lost \subseteq Bin /\ f.cut \subseteq Bin
    /\ DOMAIN f.held \subseteq Bin /\ f.held \in [DOMAIN f.held -> Balance]

FetchShape(p, f, h) ==
    /\ DOMAIN f = FetchFields
    /\ f.stage \in {"idle", "config", "tables", "bins", "done", "failed"}
    /\ f.active \in Bin /\ DOMAIN f.got \subseteq Tables(p) \cap Table
    /\ TimeShape(f, h) /\ BinShape(f)

(* What is open is what the stage of the fetch asks for.                   *)
FetchAsks(p, f, mine) ==
    /\ f.stage \in {"idle", "done", "failed"} => mine = {}
    /\ f.stage = "config" => mine \subseteq {<<p, "get-pool", None>>}
    /\ f.stage = "tables" => mine = {<<p, "table", k>> : k \in Tables(p) \ DOMAIN f.got}
    /\ f.stage = "bins" => mine \subseteq {<<p, "bins", ids>> : ids \in BinLists}

(* Every table got is the one of its key, and all of them are there once   *)
(* bins are asked for.                                                     *)
TablesOK(p, f) ==
    /\ f.got = [k \in DOMAIN f.got |-> Given[k]]
    /\ f.stage \in {"bins", "done"} => DOMAIN f.got = Tables(p)

(* What was read was so at a block the fetch may see.                      *)
ActiveOK(p, f, h) ==
    f.stage \in {"tables", "bins", "done"} => \E g \in SpanOf(f, h) : f.active = Chain[g].active[p]

HeldOK(p, f, h) ==
    /\ f.stage = "idle" => DOMAIN f.held = {}
    /\ \A b \in DOMAIN f.held : \E g \in SpanOf(f, h) :
          f.held[b] = Chain[g].bal[p][b] /\ ~Empty(Chain[g].bal[p][b])

(* Every bin of the range is held, was seen empty, was given up, or its    *)
(* request is open or still to be sent.                                    *)
Given_up(p, f) == IF Mode[p] = "Full" THEN f.cut ELSE f.lost
Seen(p, f, h, b) ==
    \/ b \in DOMAIN f.held
    \/ \E g \in SpanOf(f, h) : Empty(Chain[g].bal[p][b])
    \/ b \in Given_up(p, f)
Awaited(f, mine, b) ==
    \/ \E c \in mine : Unsigned(b) \in Range(c[3])
    \/ \E i \in DOMAIN f.rest : Unsigned(b) \in Range(f.rest[i])

BinsOK(p, f, mine, h) ==
    f.stage \in {"bins", "done"} =>
        \A b \in Lo(p, f.active) .. Hi(p, f.active) : Seen(p, f, h, b) \/ Awaited(f, mine, b)

FetchOK(p, f, mine, h) ==
    /\ FetchShape(p, f, h) /\ FetchAsks(p, f, mine)
    /\ TablesOK(p, f) /\ ActiveOK(p, f, h) /\ HeldOK(p, f, h)
    /\ BinsOK(p, f, mine, h) /\ (f.stage = "done" => f.rest = <<>>)

-----------------------------------------------------------------------------
(* The discovery.  What it found are listings of ids it has done with,     *)
(* each once; what it did not find of those assigned when it read their    *)
(* number is lost, undecodable, asked for or still to be asked for.        *)
Found(d) == {d.out[i].id : i \in DOMAIN d.out}
Asked(mine) == {c[3] : c \in mine}
Pending(d, mine) == Asked(mine) \cup Range(d.rest)
Is(id, g) == decode_listing(id, Chain[g].listed[id])

ById(mine) == \A c \in mine : c = <<Discovery, "id", c[3]>>
DiscAsks(d, mine) ==
    /\ d.stage \in {"idle", "done", "failed"} => mine = {}
    /\ d.stage = "last" => mine \subseteq {<<Discovery, "last", None>>}
    /\ d.stage = "ids" => ById(mine)
    /\ d.stage \in {"idle", "last"} => d.out = <<>>

(* Of the ids asked for and those found none comes twice.                  *)
DistinctIds(out) == \A i, j \in DOMAIN out : out[i].id = out[j].id => i = j
OnceEach(rest, ids) ==
    /\ \A i, j \in DOMAIN rest : rest[i] = rest[j] => i = j
    /\ Range(rest) \cap ids = {}

Distinct(d, mine) ==
    /\ DistinctIds(d.out) /\ OnceEach(d.rest, Asked(mine))
    /\ Found(d) \cap Pending(d, mine) = {}

PendingOK(d, mine, h) ==
    d.stage = "ids" => Pending(d, mine) \subseteq DOMAIN Chain[AtOf(d.tip, h)].listed

FoundOK(d, h) ==
    \A i \in DOMAIN d.out : \E g \in SpanOf(d, h) :
        d.out[i].id \in DOMAIN Chain[g].listed /\ <<d.out[i]>> = Is(d.out[i].id, g)

Undecodable(d, h, id) == \E g \in SpanOf(d, h) : id \in DOMAIN Chain[g].listed /\ Is(id, g) = <<>>

MissedOK(d, mine, h) ==
    d.stage \in {"ids", "done"} =>
        \E g \in SpanOf(d, h) : \A id \in DOMAIN Chain[g].listed :
            id \in Found(d) \cup d.lost \cup Pending(d, mine) \/ Undecodable(d, h, id)

SortedOK(d) ==
    d.stage = "done" => /\ d.rest = <<>>
                        /\ \A i, j \in DOMAIN d.out : i < j => d.out[i].id < d.out[j].id

DiscOK(d, mine, h) ==
    /\ d \in Discover /\ TimeShape(d, h)
    /\ DiscAsks(d, mine) /\ Distinct(d, mine) /\ PendingOK(d, mine, h)
    /\ FoundOK(d, h) /\ MissedOK(d, mine, h) /\ SortedOK(d)

-----------------------------------------------------------------------------
(* The invariant: that of every job, and what they share.                  *)
CacheOK == DOMAIN cache \subseteq Table /\ \A k \in DOMAIN cache : cache[k] = Given[k]
CallsOK == call \in [DOMAIN call -> 0 .. MaxRetries] /\ \A c \in DOMAIN call : c[1] \in Job

BootInv ==
    /\ head \in DOMAIN Chain /\ CacheOK /\ CallsOK
    /\ DOMAIN fetch = Pool /\ \A p \in Pool : FetchOK(p, fetch[p], Of(p), head)
    /\ DiscOK(disc, Of(Discovery), head)

-----------------------------------------------------------------------------
(* Division by the chunk size, and what multiplying keeps.                 *)
LEMMA DivisionFloor ==
    ASSUME NEW m \in Nat, NEW c \in Nat \ {0}
    PROVE  m \div c \in Nat /\ (m \div c) * c <= m /\ m < (m \div c) * c + c
BY SMTT(30)

(* Multiplying by the chunk size keeps the order.                          *)
LEMMA TimesKeepsOrder ==
    ASSUME NEW m \in Nat, NEW n \in Nat, NEW c \in Nat, m <= n
    PROVE  m * c <= n * c /\ m * c \in Nat /\ n * c \in Nat
BY SMTT(30)

(* The blocks of the chain have the types of Block.                        *)
LEMMA ChainTypes ==
    /\ Len(Chain) \in Nat \ {0} /\ DOMAIN Chain = 1 .. Len(Chain)
    /\ \A h \in DOMAIN Chain :
          /\ \A p \in Pool : Chain[h].active[p] \in Bin
          /\ \A p \in Pool, b \in Bin : Chain[h].bal[p][b] \in Balance
          /\ Chain[h].listed \in Seq(Entry)
<1>1. Chain \in Seq(Block) /\ Len(Chain) > 0
  BY BootAssumption
<1>2. ASSUME NEW h \in DOMAIN Chain PROVE Chain[h] \in Block
  BY <1>1, ElementOfSeq
<1>3. QED
  BY <1>1, <1>2 DEF Block

(* A later block lists at least the ids of an earlier one.                 *)
LEMMA ListGrows ==
    ASSUME NEW h \in DOMAIN Chain, NEW g \in DOMAIN Chain, h <= g
    PROVE  DOMAIN Chain[h].listed \subseteq DOMAIN Chain[g].listed
<1>1. Chain[h].listed \in Seq(Entry) /\ Chain[g].listed \in Seq(Entry)
  BY ChainTypes
<1>2. Len(Chain[h].listed) <= Len(Chain[g].listed)
  BY BootAssumption
<1>3. QED
  BY <1>1, <1>2, LenProperties

-----------------------------------------------------------------------------
(* The i-th chunk, before which come so many ids.                          *)
Before(i) == (i - 1) * ChunkSize
ChunkLen(i) == IF i * ChunkSize <= 2 * Center + 1 THEN ChunkSize ELSE (2 * Center + 1) - Before(i)
ChunkAt(i) == [k \in 1 .. ChunkLen(i) |-> Before(i) + k - 1]

(* The chunks are lists of ids (multicall.rs) ...                          *)
LEMMA ChunkTypes ==
    ASSUME NEW i \in DOMAIN Chunks
    PROVE  /\ i \in Nat \ {0} /\ Chunks[i] \in Seq(Id)
           /\ Chunks[i] = ChunkAt(i)
<1> DEFINE size == 2 * Center + 1
           n == (size + ChunkSize - 1) \div ChunkSize
           upto == i * ChunkSize
<1>1. Center \in Nat /\ ChunkSize \in Nat \ {0} /\ size \in Nat /\ size + ChunkSize - 1 \in Nat
  BY BootAssumption
<1>2. n \in Nat /\ n * ChunkSize <= size + ChunkSize - 1
  BY <1>1, DivisionFloor
<1>3. i \in 1 .. n
  BY DEF Chunks
<1>4. Chunks[i] = ChunkAt(i)
  <2>1. Chunks[i] = [k \in 1 .. IF i * ChunkSize <= size THEN ChunkSize
                                ELSE size - (i - 1) * ChunkSize |->
                        (i - 1) * ChunkSize + k - 1]
    BY DEF Chunks
  <2>2. Chunks[i] = [k \in 1 .. ChunkLen(i) |-> Before(i) + k - 1]
    BY <2>1, Zenon DEF ChunkLen, Before
  <2>3. QED
    BY <2>2 DEF ChunkAt
<1>5. i \in Nat /\ i >= 1 /\ i <= n /\ i - 1 \in Nat
  BY <1>2, <1>3
<1>6. upto \in Nat /\ upto <= n * ChunkSize /\ n * ChunkSize \in Nat
  BY <1>1, <1>2, <1>5, TimesKeepsOrder
<1>7. Before(i) = upto - ChunkSize /\ Before(i) \in Nat
  <2>1. (i - 1) * ChunkSize \in Nat
    BY <1>1, <1>5, TimesKeepsOrder
  <2>2. QED
    BY <1>1, <1>5, <2>1, SMTT(30) DEF Before
<1>8. ChunkLen(i) \in Nat /\ Before(i) + ChunkLen(i) <= size
  <2> HIDE DEF n, upto
  <2>1. ChunkLen(i) = IF upto <= size THEN ChunkSize ELSE size - Before(i)
    BY DEF ChunkLen, upto
  <2>2. QED
    BY <1>1, <1>2, <1>6, <1>7, <2>1
<1>9. \A k \in 1 .. ChunkLen(i) : Before(i) + k - 1 \in Id
  BY <1>1, <1>7, <1>8 DEF Id
<1>10. ChunkAt(i) \in Seq(Id)
  BY <1>8, <1>9 DEF ChunkAt
<1>11. i \in Nat \ {0}
  BY <1>5
<1>12. QED
  BY <1>4, <1>10, <1>11

(* ... and no id is in none of them.                                       *)
LEMMA ChunksCover ==
    ASSUME NEW id \in Id
    PROVE  \E i \in DOMAIN Chunks : id \in Range(Chunks[i])
<1> DEFINE size == 2 * Center + 1
           n == (size + ChunkSize - 1) \div ChunkSize
           q == id \div ChunkSize
           a == q * ChunkSize
           b == (q + 1) * ChunkSize
           k == id - a + 1
<1>1. /\ Center \in Nat /\ ChunkSize \in Nat \ {0} /\ size \in Nat /\ size + ChunkSize - 1 \in Nat
      /\ id \in Nat /\ id + 1 <= size
  BY BootAssumption DEF Id
<1>2. n \in Nat /\ n * ChunkSize \in Nat /\ size + ChunkSize - 1 < n * ChunkSize + ChunkSize
  BY <1>1, DivisionFloor, TimesKeepsOrder
<1>3. q \in Nat /\ a \in Nat /\ a <= id /\ id < a + ChunkSize
  BY <1>1, DivisionFloor, TimesKeepsOrder
<1>4. DOMAIN Chunks = 1 .. n
  BY DEF Chunks
<1> HIDE DEF n, q
<1>5. b = a + ChunkSize /\ (n + 1) * ChunkSize = n * ChunkSize + ChunkSize
  BY <1>1, <1>2, <1>3, SMTT(30)
<1>6. q + 1 <= n
  <2>1. SUFFICES ASSUME ~(q + 1 <= n) PROVE FALSE
    OBVIOUS
  <2>2. n + 1 <= q + 1 /\ n + 1 \in Nat /\ q + 1 \in Nat
    BY <1>2, <1>3, <2>1
  <2>3. (n + 1) * ChunkSize <= b
    BY <1>1, <2>2, TimesKeepsOrder
  <2>4. b <= size + ChunkSize - 1
    <3> HIDE DEF a, b
    <3>1. QED
      BY <1>1, <1>3, <1>5
  <2>5. QED
    <3> DEFINE c == n * ChunkSize
    <3>1. c \in Nat /\ c + ChunkSize <= b /\ size + ChunkSize - 1 < c + ChunkSize
      BY <1>2, <1>5, <2>3
    <3>2. b \in Int
      BY <1>1, <1>3, <1>5
    <3> HIDE DEF b, c
    <3>3. QED
      BY <1>1, <2>4, <3>1, <3>2
<1>7. q + 1 \in DOMAIN Chunks /\ (q + 1) - 1 = q
  BY <1>2, <1>3, <1>4, <1>6
<1>8. Chunks[q + 1] = ChunkAt(q + 1)
  BY <1>7, ChunkTypes
<1>9. Before(q + 1) = a /\ ChunkLen(q + 1) = IF b <= size THEN ChunkSize ELSE size - a
  <2>1. Before(q + 1) = a
    BY <1>7, Zenon DEF Before
  <2>2. ChunkLen(q + 1) = IF b <= size THEN ChunkSize ELSE size - Before(q + 1)
    BY DEF ChunkLen
  <2>3. QED
    BY <2>1, <2>2
<1> HIDE DEF a, b
<1>10. k \in 1 .. ChunkLen(q + 1) /\ Before(q + 1) + k - 1 = id
  BY <1>1, <1>3, <1>5, <1>9
<1>11. Chunks[q + 1][k] = id /\ k \in DOMAIN Chunks[q + 1]
  BY <1>8, <1>10 DEF ChunkAt
<1>12. QED
  BY <1>7, <1>11 DEF Range

(* What a request for bins asks for is a list of ids.                      *)
LEMMA BinListTypes ==
    ASSUME NEW ids \in BinLists
    PROVE  /\ ids \in Seq(Id) /\ Len(ids) \in Nat /\ DOMAIN ids = 1 .. Len(ids)
           /\ \A i \in DOMAIN ids : ids[i] \in Id /\ Signed(ids[i]) \in Bin
<1>1. ids \in Seq(Id)
  <2>1. CASE ids \in Range(Chunks)
    BY <2>1, ChunkTypes DEF Range
  <2>2. CASE ids \in {<<id>> : id \in Id}
    BY <2>2
  <2>3. QED
    BY <2>1, <2>2 DEF BinLists
<1>2. Len(ids) \in Nat /\ DOMAIN ids = 1 .. Len(ids) /\ \A i \in DOMAIN ids : ids[i] \in Id
  BY <1>1, LenProperties, ElementOfSeq
<1>3. \A id \in Id : Signed(id) \in Bin
  BY BootAssumption DEF Id, Signed, Bin
<1>4. QED
  BY <1>1, <1>2, <1>3

(* The range of a window lies within the bins, wherever the cast and the   *)
(* arithmetic wrap ...                                                     *)
LEMMA RangeInBins ==
    ASSUME NEW p \in Pool, NEW a \in Bin
    PROVE  Lo(p, a) \in Int /\ Hi(p, a) \in Int /\ Lo(p, a) .. Hi(p, a) \subseteq Bin
<1>1. Center \in Nat /\ Half \in Nat /\ Radius[p] \in Nat /\ a \in Int
  BY BootAssumption DEF Bin
<1>2. AsI32(Radius[p]) \in Int
  BY <1>1 DEF AsI32, Wrap
<1>3. Wrap(a - AsI32(Radius[p])) \in Int /\ Wrap(a + AsI32(Radius[p])) \in Int
  BY <1>1, <1>2 DEF Wrap
<1>4. Lo(p, a) \in Int /\ Hi(p, a) \in Int /\ -Center <= Lo(p, a) /\ Hi(p, a) <= Center
  BY <1>1, <1>3 DEF Lo, Hi
<1>5. QED
  BY <1>1, <1>4 DEF Bin

(* ... and is all a mode is for if the radius fits: then nothing wraps.    *)
LEMMA RangeIsWithin ==
    ASSUME NEW p \in Pool, NEW a \in Bin, Fits(p)
    PROVE  Within(p, a) \subseteq Lo(p, a) .. Hi(p, a)
<1>1. /\ Center \in Nat /\ Half \in Nat /\ Radius[p] \in Nat
      /\ a \in Int /\ -Center <= a /\ a <= Center
  BY BootAssumption DEF Bin
<1>2. SUFFICES ASSUME NEW b \in Within(p, a) PROVE b \in Lo(p, a) .. Hi(p, a)
  OBVIOUS
<1>3. b \in Int /\ -Center <= b /\ b <= Center
  BY <1>1 DEF Within, Bin
<1>4. CASE Mode[p] = "Window"
  <2>1. Radius[p] + Center < Half /\ a - Radius[p] <= b /\ b <= a + Radius[p]
    BY <1>4 DEF Fits, Within
  <2>2. AsI32(Radius[p]) = Radius[p]
    BY <1>1, <2>1 DEF AsI32, Wrap
  <2>3. Wrap(a - Radius[p]) = a - Radius[p] /\ Wrap(a + Radius[p]) = a + Radius[p]
    BY <1>1, <2>1 DEF Wrap
  <2>4. Lo(p, a) = (IF a - Radius[p] > -Center THEN a - Radius[p] ELSE -Center)
        /\ Hi(p, a) = (IF a + Radius[p] < Center THEN a + Radius[p] ELSE Center)
    BY <1>4, <2>2, <2>3 DEF Lo, Hi
  <2>5. QED
    BY <1>1, <1>3, <2>1, <2>4
<1>5. CASE Mode[p] # "Window"
  <2>1. Lo(p, a) = -Center /\ Hi(p, a) = Center
    BY <1>5 DEF Lo, Hi
  <2>2. QED
    BY <1>1, <1>3, <2>1
<1>6. QED
  BY <1>4, <1>5

(* The requests of a fetch are such lists and leave no bin of its range    *)
(* out (fetcher.rs: the three modes).                                      *)
LEMMA RequestsCover ==
    ASSUME NEW p \in Pool, NEW a \in Bin
    PROVE  /\ Requests(p, a) \in Seq(BinLists)
           /\ \A b \in Lo(p, a) .. Hi(p, a) :
                 \E i \in DOMAIN Requests(p, a) : Unsigned(b) \in Range(Requests(p, a)[i])
<1>1. Center \in Nat /\ \A b \in Bin : Unsigned(b) \in Id
  BY BootAssumption DEF Bin, Id, Unsigned
<1>2. Lo(p, a) \in Int /\ Hi(p, a) \in Int /\ Lo(p, a) .. Hi(p, a) \subseteq Bin
  BY RangeInBins
<1>3. CASE Mode[p] = "Full"
  <2>1. Requests(p, a) = Chunks
    BY <1>3 DEF Requests
  <2>2. \A i \in DOMAIN Chunks : Chunks[i] \in BinLists
    BY DEF BinLists, Range
  <2>3. DOMAIN Chunks = 1 .. (2 * Center + 1 + ChunkSize - 1) \div ChunkSize
        /\ (2 * Center + 1 + ChunkSize - 1) \div ChunkSize \in Nat
    <3>1. 2 * Center + 1 + ChunkSize - 1 \in Nat /\ ChunkSize \in Nat \ {0}
      BY BootAssumption
    <3>2. QED
      BY <3>1, DivisionFloor DEF Chunks
  <2>4. Chunks \in Seq(BinLists)
    <3> DEFINE n == (2 * Center + 1 + ChunkSize - 1) \div ChunkSize
    <3>1. Chunks = [i \in 1 .. n |-> Chunks[i]] /\ n \in Nat /\ \A i \in 1 .. n : Chunks[i] \in BinLists
      BY <2>2, <2>3, Zenon DEF Chunks
    <3> HIDE DEF n
    <3>2. QED
      BY <3>1
  <2>5. QED
    BY <1>1, <1>2, <2>1, <2>4, ChunksCover
<1>4. CASE Mode[p] # "Full"
  <2> DEFINE n == Hi(p, a) - Lo(p, a) + 1
  <2>1. Requests(p, a) = [i \in 1 .. n |-> <<Unsigned(Lo(p, a) + i - 1)>>]
    BY <1>4 DEF Requests
  <2>2. ASSUME NEW i \in 1 .. n PROVE <<Unsigned(Lo(p, a) + i - 1)>> \in BinLists
    <3>1. Lo(p, a) + i - 1 \in Lo(p, a) .. Hi(p, a)
      BY <1>2
    <3>2. QED
      BY <1>1, <1>2, <3>1 DEF BinLists
  <2>3. ASSUME NEW b \in Lo(p, a) .. Hi(p, a)
        PROVE  \E i \in DOMAIN Requests(p, a) : Unsigned(b) \in Range(Requests(p, a)[i])
    <3> DEFINE i == b - Lo(p, a) + 1
    <3>1. i \in 1 .. n /\ Lo(p, a) + i - 1 = b
      BY <1>2
    <3>2. Requests(p, a)[i] = <<Unsigned(b)>> /\ i \in DOMAIN Requests(p, a)
      BY <2>1, <3>1
    <3>3. Unsigned(b) \in Range(<<Unsigned(b)>>)
      BY DEF Range
    <3>4. QED
      BY <3>2, <3>3
  <2>4. n \in Int
    BY <1>2
  <2> HIDE DEF n
  <2>5. Requests(p, a) \in Seq(BinLists)
    <3> DEFINE m == IF n < 0 THEN 0 ELSE n
    <3>1. m \in Nat /\ 1 .. n = 1 .. m
      BY <2>4
    <3>2. Requests(p, a) = [i \in 1 .. m |-> <<Unsigned(Lo(p, a) + i - 1)>>]
      BY <2>1, <3>1
    <3>3. \A i \in 1 .. m : <<Unsigned(Lo(p, a) + i - 1)>> \in BinLists
      BY <2>2, <3>1
    <3> HIDE DEF m
    <3>4. QED
      BY <3>1, <3>2, <3>3
  <2>6. QED
    BY <2>3, <2>5
<1>5. QED
  BY <1>3, <1>4

-----------------------------------------------------------------------------
(* At least one request at a time.                                         *)
LEMMA WidthType == ASSUME NEW j \in Job PROVE Width(j) \in Nat \ {0}
BY BootAssumption DEF Width

(* A list of requests is split where the width ends.                       *)
Splits(S, list, w, first, later) ==
    /\ first \in Seq(S) /\ later \in Seq(S)
    /\ \A k \in DOMAIN first : k \in DOMAIN list /\ k <= w /\ first[k] = list[k]
    /\ \A k \in DOMAIN later : k \in Nat \ {0} /\ w + k \in DOMAIN list /\ later[k] = list[w + k]
    /\ \A i \in DOMAIN list :
          \/ i <= w /\ i \in DOMAIN first
          \/ i - w \in DOMAIN later /\ later[i - w] = list[i]

(* First and Later of a list split it so.                                  *)
LEMMA Split ==
    ASSUME NEW S, NEW list \in Seq(S), NEW j \in Job
    PROVE  Splits(S, list, Width(j), First(j, list), Later(j, list))
<1> DEFINE w == Width(j)
           m == IF Len(list) < w THEN Len(list) ELSE w
<1>1. w \in Nat \ {0}
  BY WidthType
<1>2. Len(list) \in Nat /\ DOMAIN list = 1 .. Len(list) /\ \A i \in 1 .. Len(list) : list[i] \in S
  BY LenProperties, ElementOfSeq
<1>3. First(j, list) = SubSeq(list, 1, m) /\ Later(j, list) = SubSeq(list, w + 1, Len(list))
  BY DEF First, Later
<1> HIDE DEF w
<1>4. m \in Nat /\ m <= Len(list) /\ m <= w /\ (Len(list) <= m \/ w <= m)
  BY <1>1, <1>2
<1> HIDE DEF m
<1>5. /\ SubSeq(list, 1, m) \in Seq(S) /\ Len(SubSeq(list, 1, m)) = m
      /\ \A i \in 1 .. m : SubSeq(list, 1, m)[i] = list[i]
  <2>1. \A i \in 1 .. m : list[i] \in S /\ i \in 1 .. Len(list)
    BY <1>2, <1>4
  <2>2. /\ SubSeq(list, 1, m) \in Seq(S)
        /\ Len(SubSeq(list, 1, m)) = IF 1 <= m THEN m - 1 + 1 ELSE 0
        /\ \A i \in 1 .. m - 1 + 1 : SubSeq(list, 1, m)[i] = list[1 + i - 1]
    BY <1>4, <2>1, SubSeqProperties
  <2>3. QED
    BY <1>4, <2>2
<1>6. /\ SubSeq(list, w + 1, Len(list)) \in Seq(S)
      /\ Len(SubSeq(list, w + 1, Len(list))) = IF w < Len(list) THEN Len(list) - w ELSE 0
      /\ \A i \in 1 .. Len(list) - w : SubSeq(list, w + 1, Len(list))[i] = list[w + i]
  <2>1. \A i \in w + 1 .. Len(list) : list[i] \in S
    BY <1>1, <1>2
  <2>2. /\ SubSeq(list, w + 1, Len(list)) \in Seq(S)
        /\ Len(SubSeq(list, w + 1, Len(list))) =
              IF w + 1 <= Len(list) THEN Len(list) - (w + 1) + 1 ELSE 0
        /\ \A i \in 1 .. Len(list) - (w + 1) + 1 :
              SubSeq(list, w + 1, Len(list))[i] = list[(w + 1) + i - 1]
    BY <1>1, <1>2, <2>1, SubSeqProperties
  <2>3. QED
    BY <1>1, <1>2, <2>2
<1>7. DOMAIN First(j, list) = 1 .. m
  BY <1>3, <1>4, <1>5, LenProperties
<1>8. DOMAIN Later(j, list) = 1 .. IF w < Len(list) THEN Len(list) - w ELSE 0
  BY <1>3, <1>6, LenProperties
<1>9. \A k \in DOMAIN First(j, list) : k \in DOMAIN list /\ k <= w /\ First(j, list)[k] = list[k]
  BY <1>1, <1>2, <1>3, <1>4, <1>5, <1>7
<1>10. ASSUME NEW k \in DOMAIN Later(j, list)
       PROVE  k \in Nat \ {0} /\ w + k \in DOMAIN list /\ Later(j, list)[k] = list[w + k]
  <2>1. k \in Nat /\ 1 <= k /\ k <= Len(list) - w
    BY <1>1, <1>2, <1>8
  <2>2. k \in 1 .. Len(list) - w /\ w + k \in 1 .. Len(list)
    BY <1>1, <1>2, <2>1
  <2>3. QED
    BY <1>2, <1>3, <1>6, <2>1, <2>2
<1>11. ASSUME NEW i \in DOMAIN list
       PROVE  \/ i <= w /\ i \in DOMAIN First(j, list)
              \/ i - w \in DOMAIN Later(j, list) /\ Later(j, list)[i - w] = list[i]
  <2>1. CASE i <= w
    BY <1>1, <1>2, <1>4, <1>7, <2>1
  <2>2. CASE ~(i <= w)
    <3>1. i \in Nat /\ i <= Len(list) /\ w < i
      BY <1>1, <1>2, <2>2
    <3>2. i - w \in 1 .. Len(list) - w /\ w + (i - w) = i /\ w < Len(list)
      BY <1>1, <1>2, <3>1
    <3>3. i - w \in DOMAIN Later(j, list)
      BY <1>8, <3>2
    <3>4. Later(j, list)[i - w] = list[i]
      BY <1>10, <3>2, <3>3
    <3>5. QED
      BY <3>3, <3>4
  <2>3. QED
    BY <2>1, <2>2
<1>12. QED
  BY <1>3, <1>5, <1>6, <1>9, <1>10, <1>11 DEF w, Splits

(* What is left of a list when its head is taken.                          *)
LEMMA RestOf ==
    ASSUME NEW S, NEW list \in Seq(S)
    PROVE  /\ Rest(list) \in Seq(S)
           /\ \A i \in DOMAIN Rest(list) : i + 1 \in DOMAIN list /\ i \in Nat /\ Rest(list)[i] = list[i + 1]
           /\ list # <<>> => Head(list) \in S /\ Head(list) = list[1] /\ 1 \in DOMAIN list
           /\ \A i \in DOMAIN list : i \in Nat /\ (i = 1 \/ i - 1 \in DOMAIN Rest(list))
           /\ list = <<>> => DOMAIN list = {}
<1>1. CASE list = <<>>
  BY <1>1 DEF Rest
<1>2. CASE list # <<>>
  <2>1. /\ Head(list) \in S /\ Tail(list) \in Seq(S) /\ Len(Tail(list)) = Len(list) - 1
        /\ \A i \in 1 .. Len(Tail(list)) : Tail(list)[i] = list[i + 1]
    BY <1>2, HeadTailProperties
  <2>2. Rest(list) = Tail(list) /\ Len(list) \in Nat /\ Len(list) # 0 /\ DOMAIN list = 1 .. Len(list)
    BY <1>2, LenProperties, EmptySeq DEF Rest
  <2>3. DOMAIN Tail(list) = 1 .. Len(list) - 1
    BY <2>1, LenProperties
  <2>4. Head(list) = list[1]
    BY <1>2
  <2>5. QED
    BY <1>2, <2>1, <2>2, <2>3, <2>4
<1>3. QED
  BY <1>1, <1>2
-----------------------------------------------------------------------------
(* What closing and opening requests of one job leaves open.               *)
LEMMA CallsMove ==
    ASSUME CallsOK, NEW j \in Job, NEW old, NEW new,
           \A c \in old \cup new : c[1] = j,
           call' = Opened(Closed(old), new)
    PROVE  /\ CallsOK'
           /\ Of(j)' = (Of(j) \ old) \cup new
           /\ \A i \in Job \ {j} : Of(i)' = Of(i)
<1>1. /\ DOMAIN Closed(old) = DOMAIN call \ old
      /\ \A c \in DOMAIN call \ old : Closed(old)[c] = call[c]
  BY DEF Closed, Restrict
<1>2. /\ DOMAIN call' = (DOMAIN call \ old) \cup new
      /\ \A c \in DOMAIN call' : call'[c] = IF c \in DOMAIN call \ old THEN call[c] ELSE 0
      /\ call' = [c \in DOMAIN call' |-> call'[c]]
  BY <1>1 DEF Opened
<1>3. 0 \in 0 .. MaxRetries
  BY BootAssumption
<1>4. \A c \in DOMAIN call' : call'[c] \in 0 .. MaxRetries
  BY <1>2, <1>3 DEF CallsOK
<1>5. \A c \in DOMAIN call' : c[1] \in Job
  BY <1>2 DEF CallsOK
<1>6. QED
  BY <1>2, <1>4, <1>5 DEF CallsOK, Of

(* Opening requests only, closing some only.                               *)
LEMMA OnlyOpened ==
    ASSUME CallsOK, NEW new PROVE Opened(call, new) = Opened(Closed({}), new)
<1>1. Closed({}) = call
  BY DEF Closed, Restrict, CallsOK
<1>2. QED
  BY <1>1

(* Closing requests is opening none besides.                               *)
LEMMA OnlyClosed ==
    ASSUME NEW old PROVE Closed(old) = Opened(Closed(old), {})
BY DEF Closed, Restrict, Opened

(* A fetch took a step, on its own requests only.                          *)
LEMMA FetchMoves ==
    ASSUME BootInv, NEW p \in Pool, NEW f, NEW old, NEW new,
           \A c \in old \cup new : c[1] = p,
           call' = Opened(Closed(old), new),
           fetch' = [fetch EXCEPT ![p] = f], head' = head, disc' = disc,
           CacheOK', FetchOK(p, f, (Of(p) \ old) \cup new, head)
    PROVE  BootInv'
<1>1. p \in Job /\ Pool \subseteq Job /\ Discovery \in Job /\ Discovery \notin Pool
  BY BootAssumption DEF Job
<1>2. /\ CallsOK' /\ Of(p)' = (Of(p) \ old) \cup new
      /\ \A i \in Job \ {p} : Of(i)' = Of(i)
  BY <1>1, CallsMove DEF BootInv
<1>3. DOMAIN fetch' = Pool /\ fetch'[p] = f /\ \A q \in Pool \ {p} : fetch'[q] = fetch[q]
  BY DEF BootInv
<1>4. FetchOK(p, fetch'[p], Of(p)', head')
  BY <1>2, <1>3
<1>5. ASSUME NEW q \in Pool \ {p} PROVE FetchOK(q, fetch'[q], Of(q)', head')
  <2>1. Of(q)' = Of(q) /\ fetch'[q] = fetch[q]
    BY <1>1, <1>2, <1>3
  <2>2. FetchOK(q, fetch[q], Of(q), head)
    BY DEF BootInv
  <2>3. QED
    BY <2>1, <2>2
<1>6. \A q \in Pool : FetchOK(q, fetch[q], Of(q), head)'
  BY <1>4, <1>5
<1>7. DiscOK(disc, Of(Discovery), head)'
  <2>1. Of(Discovery)' = Of(Discovery)
    BY <1>1, <1>2
  <2>2. DiscOK(disc, Of(Discovery), head)
    BY DEF BootInv
  <2>3. QED
    BY <2>1, <2>2
<1>8. (head \in DOMAIN Chain)'
  BY DEF BootInv
<1>9. QED
  BY <1>2, <1>3, <1>6, <1>7, <1>8 DEF BootInv

(* The discovery took a step, on its own requests only.                    *)
LEMMA DiscoveryMoves ==
    ASSUME BootInv, NEW old, NEW new, \A c \in old \cup new : c[1] = Discovery,
           call' = Opened(Closed(old), new),
           head' = head, cache' = cache, fetch' = fetch,
           DiscOK(disc', (Of(Discovery) \ old) \cup new, head)
    PROVE  BootInv'
<1>1. Pool \subseteq Job /\ Discovery \in Job /\ Discovery \notin Pool
  BY BootAssumption DEF Job
<1>2. /\ CallsOK' /\ Of(Discovery)' = (Of(Discovery) \ old) \cup new
      /\ \A i \in Job \ {Discovery} : Of(i)' = Of(i)
  BY <1>1, CallsMove DEF BootInv
<1>3. ASSUME NEW p \in Pool PROVE FetchOK(p, fetch'[p], Of(p)', head')
  <2>1. Of(p)' = Of(p) /\ fetch'[p] = fetch[p]
    BY <1>1, <1>2
  <2>2. FetchOK(p, fetch[p], Of(p), head)
    BY DEF BootInv
  <2>3. QED
    BY <2>1, <2>2
<1>4. \A p \in Pool : FetchOK(p, fetch[p], Of(p), head)'
  BY <1>3
<1>5. DiscOK(disc, Of(Discovery), head)'
  BY <1>2
<1>6. CacheOK' /\ (head \in DOMAIN Chain)' /\ (DOMAIN fetch = Pool)'
  BY DEF BootInv, CacheOK
<1>7. QED
  BY <1>2, <1>4, <1>5, <1>6 DEF BootInv

-----------------------------------------------------------------------------
(* A read sees a block of the span of its job.                             *)
LEMMA ReadInSpan ==
    ASSUME NEW h \in DOMAIN Chain, NEW f, TimeShape(f, h)
    PROVE  /\ AtOf(f.tip, h) \in SpanOf(f, h) /\ AtOf(f.tip, h) \in DOMAIN Chain
           /\ SpanOf(f, h) \subseteq DOMAIN Chain
BY ChainTypes DEF TimeShape, AtOf, SpanOf, None

(* A fetch begins: nothing is held, one request is open.                   *)
LEMMA StartedOK ==
    ASSUME NEW p \in Pool, NEW g, NEW h \in DOMAIN Chain, FetchOK(p, g, {}, h),
           g.stage = "idle", NEW tip \in {None} \cup 1 .. h, NEW f,
           f = [g EXCEPT !.stage = "config", !.tip = tip, !.from = h]
    PROVE  FetchOK(p, f, {<<p, "get-pool", None>>}, h)
<1>1. /\ DOMAIN g = FetchFields /\ DOMAIN f = FetchFields
      /\ f.stage = "config" /\ f.tip = tip /\ f.from = h /\ f.active = g.active /\ f.got = g.got
      /\ f.rest = g.rest /\ f.held = g.held /\ f.lost = g.lost /\ f.cut = g.cut
  BY DEF FetchOK, FetchShape, FetchFields
<1>2. TimeShape(f, h)
  BY <1>1, ChainTypes DEF TimeShape
<1>3. FetchShape(p, f, h)
  BY <1>1, <1>2 DEF FetchOK, FetchShape, BinShape
<1>4. HeldOK(p, f, h)
  BY <1>1 DEF FetchOK, HeldOK
<1>5. TablesOK(p, f)
  BY <1>1 DEF FetchOK, TablesOK
<1>6. QED
  BY <1>1, <1>3, <1>4, <1>5 DEF FetchOK, FetchAsks, ActiveOK, BinsOK

(* An empty list of requests has nothing to send first nor later.          *)
LEMMA NothingToSend ==
    ASSUME NEW S, NEW list \in Seq(S), NEW j \in Job, list = <<>>
    PROVE  DOMAIN First(j, list) = {} /\ Later(j, list) = <<>>
<1>1. Splits(S, list, Width(j), First(j, list), Later(j, list))
  BY Split
<1>2. DOMAIN list = {}
  OBVIOUS
<1>3. /\ Later(j, list) \in Seq(S)
      /\ \A k \in DOMAIN First(j, list) : k \in DOMAIN list
      /\ \A k \in DOMAIN Later(j, list) : Width(j) + k \in DOMAIN list
  BY <1>1, Zenon DEF Splits
<1>4. DOMAIN First(j, list) = {} /\ DOMAIN Later(j, list) = {}
  BY <1>2, <1>3, Zenon
<1>5. Len(Later(j, list)) \in Nat /\ DOMAIN Later(j, list) = 1 .. Len(Later(j, list))
  BY <1>3, LenProperties
<1>6. Len(Later(j, list)) = 0
  BY <1>4, <1>5
<1>7. QED
  BY <1>3, <1>4, <1>6, EmptySeq

(* A fetch that has its tables asks for every bin of its range; one that   *)
(* has none is complete, and one that panics has failed.                   *)
LEMMA ToBinsOK ==
    ASSUME NEW p \in Pool, NEW g, NEW h \in DOMAIN Chain,
           FetchShape(p, g, h), TablesOK(p, g), ActiveOK(p, g, h), HeldOK(p, g, h),
           g.stage = "tables", DOMAIN g.got = Tables(p), NEW out \in ToBins(p, g)
    PROVE  FetchOK(p, out.next, out.calls, h) /\ \A d \in out.calls : d[1] = p
<1> DEFINE list == Requests(p, g.active)
           f == [g EXCEPT !.stage = IF list = <<>> THEN "done" ELSE "bins", !.rest = Later(p, list)]
           mine == Sent(p, "bins", First(p, list))
           e == [g EXCEPT !.stage = "failed"]
<1>0. \/ out = [next |-> f, calls |-> mine]
      \/ out = [next |-> e, calls |-> {}]
  BY DEF ToBins
<1>1. /\ DOMAIN f = FetchFields /\ f.stage = (IF list = <<>> THEN "done" ELSE "bins")
      /\ f.rest = Later(p, list)
      /\ f.tip = g.tip /\ f.from = g.from /\ f.active = g.active /\ f.got = g.got
      /\ f.held = g.held /\ f.lost = g.lost /\ f.cut = g.cut
  BY DEF FetchShape, FetchFields
<1>11. /\ DOMAIN e = FetchFields /\ e.stage = "failed" /\ e.rest = g.rest
      /\ e.tip = g.tip /\ e.from = g.from /\ e.active = g.active /\ e.got = g.got
      /\ e.held = g.held /\ e.lost = g.lost /\ e.cut = g.cut
  BY DEF FetchShape, FetchFields
<1>2. /\ list \in Seq(BinLists)
      /\ \A b \in Lo(p, g.active) .. Hi(p, g.active) : \E i \in DOMAIN list : Unsigned(b) \in Range(list[i])
  BY RequestsCover DEF FetchShape
<1>3. p \in Job
  BY DEF Job
<1>4. /\ First(p, list) \in Seq(BinLists) /\ Later(p, list) \in Seq(BinLists)
      /\ \A k \in DOMAIN First(p, list) : k \in DOMAIN list /\ First(p, list)[k] = list[k]
      /\ \A i \in DOMAIN list :
            \/ i <= Width(p) /\ i \in DOMAIN First(p, list)
            \/ i - Width(p) \in DOMAIN Later(p, list) /\ Later(p, list)[i - Width(p)] = list[i]
  <2>1. Splits(BinLists, list, Width(p), First(p, list), Later(p, list))
    BY <1>2, <1>3, Split
  <2>2. QED
    BY <2>1, Zenon DEF Splits
<1>5. list = <<>> => DOMAIN First(p, list) = {} /\ Later(p, list) = <<>>
  BY <1>2, <1>3, NothingToSend
<1> HIDE DEF f, e, list
<1>6. mine = {<<p, "bins", First(p, list)[k]>> : k \in DOMAIN First(p, list)}
  BY DEF Sent
<1>7. \A d \in mine : d[1] = p
  BY <1>6
<1>8. CASE out = [next |-> f, calls |-> mine]
  <2>1. TimeShape(f, h) /\ FetchShape(p, f, h)
    BY <1>1, <1>4 DEF FetchShape, BinShape, TimeShape
  <2>2. FetchAsks(p, f, mine)
    <3>1. \A k \in DOMAIN First(p, list) : First(p, list)[k] \in BinLists
      BY <1>4, ElementOfSeq, LenProperties
    <3>2. mine \subseteq {<<p, "bins", ids>> : ids \in BinLists}
      BY <1>6, <3>1
    <3>3. list = <<>> => mine = {}
      BY <1>5, <1>6
    <3>4. QED
      BY <1>1, <3>2, <3>3 DEF FetchAsks
  <2>3. ASSUME NEW b \in Lo(p, f.active) .. Hi(p, f.active) PROVE Awaited(f, mine, b)
    <3>1. PICK i \in DOMAIN list : Unsigned(b) \in Range(list[i])
      BY <1>1, <1>2
    <3>2. CASE i \in DOMAIN First(p, list)
      <4>1. <<p, "bins", list[i]>> \in mine
        BY <1>4, <1>6, <3>2
      <4>2. <<p, "bins", list[i]>>[3] = list[i]
        OBVIOUS
      <4>3. QED
        BY <3>1, <4>1, <4>2 DEF Awaited
    <3>3. CASE i - Width(p) \in DOMAIN Later(p, list) /\ Later(p, list)[i - Width(p)] = list[i]
      BY <1>1, <3>1, <3>3, Zenon DEF Awaited
    <3>4. QED
      BY <1>4, <3>2, <3>3
  <2>4. TablesOK(p, f) /\ ActiveOK(p, f, h) /\ HeldOK(p, f, h)
    <3>1. SpanOf(f, h) = SpanOf(g, h)
      BY <1>1 DEF SpanOf
    <3>2. QED
      BY <1>1, <3>1 DEF TablesOK, ActiveOK, HeldOK
  <2>5. f.stage = "done" => f.rest = <<>>
    BY <1>1, <1>5
  <2>6. FetchOK(p, f, mine, h)
    BY <2>1, <2>2, <2>3, <2>4, <2>5 DEF FetchOK, BinsOK
  <2> HIDE DEF mine
  <2>7. QED
    BY <1>7, <1>8, <2>6
<1>9. CASE out = [next |-> e, calls |-> {}]
  <2>1. FetchShape(p, e, h)
    BY <1>11 DEF FetchShape, BinShape, TimeShape
  <2>2. HeldOK(p, e, h) /\ TablesOK(p, e)
    BY <1>11 DEF HeldOK, TablesOK, SpanOf
  <2>3. FetchOK(p, e, {}, h)
    BY <1>11, <2>1, <2>2 DEF FetchOK, FetchAsks, ActiveOK, BinsOK
  <2>4. QED
    BY <1>9, <2>3
<1>10. QED
  BY <1>0, <1>8, <1>9 DEF f, e

(* A fetch that failed has no requests.                                    *)
LEMMA FailedOK ==
    ASSUME NEW p \in Pool, NEW g, NEW mine, NEW h \in DOMAIN Chain, FetchOK(p, g, mine, h),
           NEW f, f = [g EXCEPT !.stage = "failed"]
    PROVE  FetchOK(p, f, {}, h)
<1>1. /\ DOMAIN g = FetchFields /\ DOMAIN f = FetchFields
      /\ f.stage = "failed" /\ f.tip = g.tip /\ f.from = g.from /\ f.active = g.active /\ f.got = g.got
      /\ f.rest = g.rest /\ f.held = g.held /\ f.lost = g.lost /\ f.cut = g.cut
  BY DEF FetchOK, FetchShape, FetchFields
<1>2. FetchShape(p, f, h)
  BY <1>1 DEF FetchOK, FetchShape, BinShape, TimeShape
<1>3. HeldOK(p, f, h) /\ TablesOK(p, f)
  BY <1>1 DEF FetchOK, HeldOK, TablesOK, SpanOf
<1>4. QED
  BY <1>1, <1>2, <1>3 DEF FetchOK, FetchAsks, ActiveOK, BinsOK

(* What a request for bins leaves of its fetch: its bins are seen.         *)
Replied(p, g, f, h, ids) ==
    /\ DOMAIN f = FetchFields /\ BinShape(f) /\ HeldOK(p, f, h)
    /\ f.stage = g.stage /\ f.tip = g.tip /\ f.from = g.from /\ f.active = g.active
    /\ f.got = g.got /\ f.rest = g.rest
    /\ \A b : Seen(p, g, h, b) => Seen(p, f, h, b)
    /\ \A i \in DOMAIN ids : Seen(p, f, h, Signed(ids[i]))

AfterBins(p, f, ids, mine) ==
    [f EXCEPT !.rest = Rest(@),
              !.stage = IF f.rest = <<>> /\ mine = {<<p, "bins", ids>>} THEN "done" ELSE "bins"]
NextBins(p, f) == IF f.rest = <<>> THEN {} ELSE {<<p, "bins", Head(f.rest)>>}

(* When it is over, no bin is left out.                                    *)
LEMMA CollectedOK ==
    ASSUME NEW p \in Pool, NEW g, NEW mine, NEW h \in DOMAIN Chain, FetchOK(p, g, mine, h),
           g.stage = "bins", NEW ids, <<p, "bins", ids>> \in mine,
           NEW f, Replied(p, g, f, h, ids)
    PROVE  FetchOK(p, AfterBins(p, f, ids, mine), (mine \ {<<p, "bins", ids>>}) \cup NextBins(p, f), h)
<1> DEFINE c == <<p, "bins", ids>>
           e == AfterBins(p, f, ids, mine)
           new == (mine \ {c}) \cup NextBins(p, f)
<1> USE DEF Replied
<1>1. /\ DOMAIN e = FetchFields /\ e.stage = (IF f.rest = <<>> /\ mine = {c} THEN "done" ELSE "bins")
      /\ e.rest = Rest(f.rest) /\ e.tip = g.tip /\ e.from = g.from /\ e.active = g.active
      /\ e.got = g.got /\ e.held = f.held /\ e.lost = f.lost /\ e.cut = f.cut
  BY DEF FetchFields, AfterBins
<1>2. f.rest \in Seq(BinLists) /\ c[3] = ids
  BY DEF BinShape
<1>3. /\ Rest(f.rest) \in Seq(BinLists)
      /\ f.rest # <<>> => Head(f.rest) \in BinLists /\ Head(f.rest) = f.rest[1]
      /\ \A i \in DOMAIN f.rest : i = 1 \/ i - 1 \in DOMAIN Rest(f.rest)
      /\ \A i \in DOMAIN Rest(f.rest) : i \in Nat /\ Rest(f.rest)[i] = f.rest[i + 1]
      /\ f.rest = <<>> => DOMAIN f.rest = {} /\ Rest(f.rest) = <<>>
      /\ DOMAIN f.rest \subseteq Nat
  BY <1>2, RestOf DEF Rest
<1>4. new = (mine \ {c}) \cup IF f.rest = <<>> THEN {} ELSE {<<p, "bins", Head(f.rest)>>}
  BY DEF NextBins
<1> HIDE DEF c, e, new
<1>5. FetchShape(p, e, h)
  BY <1>1, <1>3 DEF FetchOK, FetchShape, BinShape, TimeShape
<1>6. FetchAsks(p, e, new)
  <2>1. mine \subseteq {<<p, "bins", l>> : l \in BinLists}
    BY DEF FetchOK, FetchAsks
  <2>2. f.rest # <<>> => <<p, "bins", Head(f.rest)>> \in {<<p, "bins", l>> : l \in BinLists}
    BY <1>3
  <2>3. new \subseteq {<<p, "bins", l>> : l \in BinLists}
    BY <1>4, <2>1, <2>2
  <2>4. f.rest = <<>> /\ mine = {c} => new = {}
    BY <1>4
  <2>5. QED
    BY <1>1, <2>3, <2>4 DEF FetchAsks
<1>7. TablesOK(p, e) /\ ActiveOK(p, e, h) /\ HeldOK(p, e, h)
  <2>1. SpanOf(e, h) = SpanOf(g, h) /\ SpanOf(e, h) = SpanOf(f, h)
    BY <1>1 DEF SpanOf
  <2>2. TablesOK(p, e)
    BY <1>1 DEF FetchOK, TablesOK
  <2>3. ActiveOK(p, e, h)
    BY <1>1, <2>1 DEF FetchOK, ActiveOK
  <2>4. HeldOK(p, e, h)
    <3>1. e.stage # "idle" /\ e.held = f.held
      BY <1>1
    <3>2. QED
      BY <2>1, <3>1 DEF HeldOK
  <2>5. QED
    BY <2>2, <2>3, <2>4
<1>8. ASSUME NEW b \in Lo(p, e.active) .. Hi(p, e.active)
      PROVE  Seen(p, e, h, b) \/ Awaited(e, new, b)
  <2>1. Seen(p, f, h, b) => Seen(p, e, h, b)
    BY <1>1 DEF Seen, SpanOf, Given_up
  <2>2. Seen(p, g, h, b) \/ Awaited(g, mine, b)
    BY <1>1 DEF FetchOK, BinsOK
  <2>3. CASE Seen(p, g, h, b)
    BY <2>1, <2>3
  <2>4. CASE Unsigned(b) \in Range(ids)
    <3>1. PICK i \in DOMAIN ids : ids[i] = Unsigned(b)
      BY <2>4 DEF Range
    <3>2. b \in Int /\ Center \in Int
      BY <1>5, RangeInBins, BootAssumption DEF FetchShape, Bin
    <3>3. Signed(ids[i]) = b
      BY <3>1, <3>2 DEF Signed, Unsigned
    <3>4. QED
      BY <2>1, <3>3
  <2>5. ASSUME NEW d \in mine, Unsigned(b) \in Range(d[3]), d # c PROVE Awaited(e, new, b)
    <3>1. d \in new
      BY <1>4, <2>5
    <3>2. QED
      BY <2>5, <3>1 DEF Awaited
  <2>6. ASSUME NEW i \in DOMAIN g.rest, Unsigned(b) \in Range(g.rest[i]) PROVE Awaited(e, new, b)
    <3>1. f.rest # <<>>
      BY <1>3, <2>6
    <3>2. CASE i = 1
      <4>1. <<p, "bins", Head(f.rest)>> \in new
        BY <1>4, <3>1
      <4>2. <<p, "bins", Head(f.rest)>>[3] = g.rest[i]
        BY <1>3, <3>1, <3>2
      <4>3. QED
        BY <2>6, <4>1, <4>2 DEF Awaited
    <3>3. CASE i # 1
      <4>1. i - 1 \in DOMAIN e.rest /\ i \in Nat
        BY <1>1, <1>3, <2>6, <3>3
      <4>2. e.rest[i - 1] = g.rest[i]
        BY <1>1, <1>3, <4>1, SMTT(30)
      <4>3. QED
        BY <2>6, <4>1, <4>2 DEF Awaited
    <3>4. QED
      BY <3>2, <3>3
  <2>7. QED
    BY <1>2, <2>2, <2>3, <2>4, <2>5, <2>6 DEF Awaited
<1>9. e.stage = "done" => e.rest = <<>>
  BY <1>1, <1>3
<1>10. FetchOK(p, e, new, h)
  BY <1>5, <1>6, <1>7, <1>8, <1>9 DEF FetchOK, BinsOK
<1>11. QED
  BY <1>10 DEF c, e, new

(* A new block takes nothing away from what a job may have seen.           *)
LEMMA LaterFetchOK ==
    ASSUME NEW p \in Pool, NEW f, NEW mine, NEW h \in DOMAIN Chain, NEW g \in DOMAIN Chain, h <= g,
           FetchOK(p, f, mine, h)
    PROVE  FetchOK(p, f, mine, g)
<1>1. SpanOf(f, h) \subseteq SpanOf(f, g) /\ TimeShape(f, g)
  BY ChainTypes DEF FetchOK, FetchShape, TimeShape, SpanOf
<1>2. \A b : Seen(p, f, h, b) => Seen(p, f, g, b)
  BY <1>1 DEF Seen
<1>3. FetchShape(p, f, g) /\ BinsOK(p, f, mine, g)
  BY <1>1, <1>2 DEF FetchOK, FetchShape, BinsOK
<1>4. ActiveOK(p, f, g) /\ HeldOK(p, f, g)
  BY <1>1 DEF FetchOK, ActiveOK, HeldOK
<1>5. QED
  BY <1>3, <1>4 DEF FetchOK

-----------------------------------------------------------------------------
(* Every open request is one its job asks for.                             *)
LEMMA FetchRequest ==
    ASSUME BootInv, NEW p \in Pool, NEW c \in DOMAIN call, c[1] = p
    PROVE  /\ c \in Of(p) /\ FetchOK(p, fetch[p], Of(p), head) /\ head \in DOMAIN Chain
           /\ \/ fetch[p].stage = "config" /\ c = <<p, "get-pool", None>> /\ c[2] = "get-pool"
              \/ /\ fetch[p].stage = "tables" /\ c[2] = "table" /\ c = <<p, "table", c[3]>>
                 /\ c[3] \in Tables(p) \ DOMAIN fetch[p].got
              \/ /\ fetch[p].stage = "bins" /\ c[2] = "bins" /\ c = <<p, "bins", c[3]>>
                 /\ c[3] \in BinLists
<1>1. c \in Of(p) /\ FetchOK(p, fetch[p], Of(p), head) /\ head \in DOMAIN Chain
  BY DEF BootInv, Of
<1>2. FetchAsks(p, fetch[p], Of(p))
      /\ fetch[p].stage \in {"idle", "config", "tables", "bins", "done", "failed"}
  BY <1>1 DEF FetchOK, FetchShape
<1>3. CASE fetch[p].stage \in {"idle", "done", "failed"}
  BY <1>1, <1>2, <1>3 DEF FetchAsks
<1>4. CASE fetch[p].stage = "config"
  BY <1>1, <1>2, <1>4 DEF FetchAsks
<1>5. CASE fetch[p].stage = "tables"
  <2>1. PICK k \in Tables(p) \ DOMAIN fetch[p].got : c = <<p, "table", k>>
    BY <1>1, <1>2, <1>5 DEF FetchAsks
  <2>2. c[2] = "table" /\ c[3] = k
    BY <2>1
  <2>3. QED
    BY <1>1, <1>5, <2>1, <2>2
<1>6. CASE fetch[p].stage = "bins"
  <2>1. PICK ids \in BinLists : c = <<p, "bins", ids>>
    BY <1>1, <1>2, <1>6 DEF FetchAsks
  <2>2. c[2] = "bins" /\ c[3] = ids
    BY <2>1
  <2>3. QED
    BY <1>1, <1>6, <2>1, <2>2
<1>7. QED
  BY <1>2, <1>3, <1>4, <1>5, <1>6

(* What an open request of the discovery tells of its stage.               *)
LEMMA DiscoveryRequest ==
    ASSUME BootInv, NEW c \in DOMAIN call, c[1] = Discovery
    PROVE  /\ c \in Of(Discovery) /\ DiscOK(disc, Of(Discovery), head) /\ head \in DOMAIN Chain
           /\ \/ disc.stage = "last" /\ c = <<Discovery, "last", None>> /\ c[2] = "last"
              \/ disc.stage = "ids" /\ c = <<Discovery, "id", c[3]>> /\ c[2] = "id"
<1>1. c \in Of(Discovery) /\ DiscOK(disc, Of(Discovery), head) /\ head \in DOMAIN Chain
  BY DEF BootInv, Of
<1>2. DiscAsks(disc, Of(Discovery)) /\ disc.stage \in {"idle", "last", "ids", "done", "failed"}
  BY <1>1 DEF DiscOK, Discover
<1>3. CASE disc.stage = "ids"
  <2>1. c = <<Discovery, "id", c[3]>>
    BY <1>1, <1>2, <1>3 DEF DiscAsks, ById
  <2>2. <<Discovery, "id", c[3]>>[2] = "id"
    OBVIOUS
  <2>3. QED
    BY <1>1, <1>3, <2>1, <2>2
<1>4. CASE disc.stage = "last"
  BY <1>1, <1>2, <1>4 DEF DiscAsks
<1>5. CASE disc.stage \in {"idle", "done", "failed"}
  BY <1>1, <1>2, <1>5 DEF DiscAsks
<1>6. QED
  BY <1>2, <1>3, <1>4, <1>5

(* fetch_dlmm_pool begins.                                                 *)
LEMMA BeginStep ==
    ASSUME BootInv, NEW p \in Pool, NEW tip \in {None} \cup 1 .. head, fetch_dlmm_pool(p, tip)
    PROVE  BootInv'
<1> DEFINE g == fetch[p]
           f == [g EXCEPT !.stage = "config", !.tip = tip, !.from = head]
           c == <<p, "get-pool", None>>
<1>1. FetchOK(p, g, Of(p), head) /\ head \in DOMAIN Chain /\ g.stage = "idle" /\ DOMAIN fetch = Pool
  BY DEF BootInv, fetch_dlmm_pool
<1>2. Of(p) = {}
  BY <1>1 DEF FetchOK, FetchAsks
<1>3. FetchOK(p, f, {c}, head)
  BY <1>1, <1>2, StartedOK
<1>4. fetch' = [fetch EXCEPT ![p] = f]
  BY <1>1 DEF fetch_dlmm_pool
<1> DEFINE none == {}
           new == {c}
<1>5. call' = Opened(Closed(none), new)
  BY OnlyOpened DEF fetch_dlmm_pool, BootInv
<1>6. CacheOK' /\ head' = head /\ disc' = disc
  BY DEF fetch_dlmm_pool, BootInv, CacheOK
<1>7. \A d \in none \cup new : d[1] = p
  OBVIOUS
<1>8. FetchOK(p, f, (Of(p) \ none) \cup new, head)
  <2>1. (Of(p) \ none) \cup new = new
    BY <1>2
  <2>2. QED
    BY <1>3, <2>1, Zenon
<1> HIDE DEF f, c, none, new
<1>9. QED
  BY <1>4, <1>5, <1>6, <1>7, <1>8, FetchMoves

(* get-pool is answered.                                                   *)
LEMMA GotPoolStep ==
    ASSUME BootInv, NEW p \in Pool, <<p, "get-pool", None>> \in DOMAIN call, GotPool(p)
    PROVE  BootInv'
<1> DEFINE g == fetch[p]
           c == <<p, "get-pool", None>>
           f == [g EXCEPT !.active = Chain[At(g.tip)].active[p], !.stage = "tables",
                          !.got = [k \in {k \in Tables(p) : Lookup(k) # {}} |->
                                      CHOOSE v \in Lookup(k) : TRUE]]
           asked == Tables(p) \ DOMAIN f.got
<1>1. FetchOK(p, g, Of(p), head) /\ head \in DOMAIN Chain /\ g.stage = "config" /\ c \in Of(p)
  <2>1. c[1] = p /\ c[2] = "get-pool"
    OBVIOUS
  <2>2. QED
    BY <2>1, FetchRequest
<1>2. Of(p) = {c}
  BY <1>1 DEF FetchOK, FetchAsks
<1>3. /\ DOMAIN f = FetchFields /\ f.stage = "tables"
      /\ f.active = Chain[At(g.tip)].active[p]
      /\ f.got = [k \in {k \in Tables(p) : Lookup(k) # {}} |-> CHOOSE v \in Lookup(k) : TRUE]
      /\ f.tip = g.tip /\ f.from = g.from /\ f.rest = g.rest
      /\ f.held = g.held /\ f.lost = g.lost /\ f.cut = g.cut
  BY <1>1 DEF FetchOK, FetchShape, FetchFields
<1> HIDE DEF f
<1>4. At(g.tip) = AtOf(g.tip, head) /\ AtOf(g.tip, head) \in SpanOf(g, head)
      /\ AtOf(g.tip, head) \in DOMAIN Chain /\ SpanOf(f, head) = SpanOf(g, head)
  BY <1>1, <1>3, ReadInSpan DEF At, AtOf, FetchOK, FetchShape, SpanOf
<1>5. /\ f.got = [k \in DOMAIN f.got |-> Given[k]]
      /\ DOMAIN f.got \subseteq Tables(p) \cap Table
  <2>1. \A k : Lookup(k) # {} => k \in DOMAIN cache /\ Lookup(k) = {Given[k]}
    BY DEF Lookup, BootInv, CacheOK
  <2>2. \A k : Lookup(k) # {} => (CHOOSE v \in Lookup(k) : TRUE) = Given[k]
    BY <2>1
  <2>3. DOMAIN cache \subseteq Table
    BY DEF BootInv, CacheOK
  <2>4. QED
    BY <1>3, <2>1, <2>2, <2>3
<1>6. FetchShape(p, f, head)
  <2>1. f.active \in Bin
    BY <1>3, <1>4, ChainTypes
  <2>2. QED
    BY <1>1, <1>3, <1>5, <2>1 DEF FetchOK, FetchShape, TimeShape, BinShape
<1>7. TablesOK(p, f) /\ ActiveOK(p, f, head) /\ HeldOK(p, f, head)
  <2>1. TablesOK(p, f)
    BY <1>3, <1>5 DEF TablesOK
  <2>2. ActiveOK(p, f, head)
    BY <1>3, <1>4 DEF ActiveOK
  <2>3. HeldOK(p, f, head)
    BY <1>1, <1>3, <1>4 DEF FetchOK, HeldOK
  <2>4. QED
    BY <2>1, <2>2, <2>3
<1>8. DOMAIN fetch = Pool /\ CacheOK' /\ head' = head /\ disc' = disc
  BY DEF GotPool, BootInv, CacheOK
<1>9. CASE asked = {}
  <2>1. PICK out \in ToBins(p, f) :
            fetch' = [fetch EXCEPT ![p] = out.next] /\ call' = Opened(Closed({c}), out.calls)
    BY <1>9 DEF GotPool, f
  <2>2. FetchOK(p, out.next, out.calls, head) /\ \A d \in out.calls : d[1] = p
    <3>1. DOMAIN f.got = Tables(p)
      BY <1>5, <1>9
    <3>2. f.stage = "tables" /\ head \in DOMAIN Chain
      BY <1>1, <1>3
    <3>3. QED
      BY <1>6, <1>7, <2>1, <3>1, <3>2, ToBinsOK, Zenon
  <2>3. \A d \in {c} \cup out.calls : d[1] = p
    BY <2>2
  <2>4. FetchOK(p, out.next, (Of(p) \ {c}) \cup out.calls, head)
    BY <1>2, <2>2, Zenon
  <2> HIDE DEF c
  <2>5. QED
    BY <1>8, <2>1, <2>3, <2>4, FetchMoves
<1>10. CASE asked # {}
  <2> DEFINE new == {<<p, "table", k>> : k \in asked}
  <2>1. FetchOK(p, f, new, head)
    BY <1>3, <1>6, <1>7 DEF FetchOK, FetchAsks, BinsOK
  <2>2. fetch' = [fetch EXCEPT ![p] = f] /\ call' = Opened(Closed({c}), new)
    <3>1. PICK out \in {[next |-> f, calls |-> new]} :
              fetch' = [fetch EXCEPT ![p] = out.next] /\ call' = Opened(Closed({c}), out.calls)
      BY <1>10 DEF GotPool, f
    <3>2. out.next = f /\ out.calls = new
      OBVIOUS
    <3>3. QED
      BY <3>1, <3>2
  <2>3. \A d \in {c} \cup new : d[1] = p
    OBVIOUS
  <2>4. FetchOK(p, f, (Of(p) \ {c}) \cup new, head)
    BY <1>2, <2>1, Zenon
  <2> HIDE DEF c, new
  <2>5. QED
    BY <1>8, <2>2, <2>3, <2>4, FetchMoves
<1>11. QED
  BY <1>9, <1>10

(* A table is answered: of its own key, for this fetch and the cache.      *)
LEMMA GotTableStep ==
    ASSUME BootInv, NEW p \in Pool, NEW k, <<p, "table", k>> \in DOMAIN call, GotTable(p, k)
    PROVE  BootInv'
<1> DEFINE g == fetch[p]
           c == <<p, "table", k>>
           f == [g EXCEPT !.got = Put(@, k, Given[k])]
<1>1. /\ FetchOK(p, g, Of(p), head) /\ head \in DOMAIN Chain /\ g.stage = "tables" /\ c \in Of(p)
      /\ k \in Tables(p) \ DOMAIN g.got
  <2>1. c[1] = p /\ c[2] = "table" /\ c[3] = k
    OBVIOUS
  <2>2. QED
    BY <2>1, FetchRequest
<1>2. /\ DOMAIN f = FetchFields /\ f.stage = "tables" /\ f.active = g.active
      /\ f.got = Put(g.got, k, Given[k])
      /\ f.tip = g.tip /\ f.from = g.from /\ f.rest = g.rest
      /\ f.held = g.held /\ f.lost = g.lost /\ f.cut = g.cut
  BY <1>1 DEF FetchOK, FetchShape, FetchFields
<1>3. k \in Table /\ CacheOK' /\ head' = head /\ disc' = disc /\ DOMAIN fetch = Pool
  <2>1. k \in Table /\ cache' = Put(cache, k, Given[k])
    BY DEF GotTable
  <2>2. CacheOK'
    BY <2>1 DEF Put, CacheOK, BootInv
  <2>3. QED
    BY <2>1, <2>2 DEF GotTable, BootInv
<1>4. DOMAIN f.got = DOMAIN g.got \cup {k} /\ f.got = [j \in DOMAIN f.got |-> Given[j]]
  <2>1. g.got = [j \in DOMAIN g.got |-> Given[j]]
    BY <1>1 DEF FetchOK, TablesOK
  <2>2. QED
    BY <1>2, <2>1 DEF Put
<1>5. FetchShape(p, f, head)
  BY <1>1, <1>2, <1>3, <1>4 DEF FetchOK, FetchShape, TimeShape, BinShape
<1>6. TablesOK(p, f) /\ ActiveOK(p, f, head) /\ HeldOK(p, f, head)
  <2>1. SpanOf(f, head) = SpanOf(g, head)
    BY <1>2 DEF SpanOf
  <2>2. TablesOK(p, f)
    BY <1>2, <1>4 DEF TablesOK
  <2>3. ActiveOK(p, f, head) /\ HeldOK(p, f, head)
    BY <1>1, <1>2, <2>1 DEF FetchOK, ActiveOK, HeldOK
  <2>4. QED
    BY <2>2, <2>3
<1>7. Of(p) = {<<p, "table", j>> : j \in Tables(p) \ DOMAIN g.got}
  BY <1>1 DEF FetchOK, FetchAsks
<1>8. CASE Of(p) = {c}
  <2>1. DOMAIN f.got = Tables(p)
    <3>1. \A j \in Tables(p) \ DOMAIN g.got : <<p, "table", j>> = c
      BY <1>7, <1>8
    <3>2. \A j \in Tables(p) \ DOMAIN g.got : j = k
      BY <3>1
    <3>3. QED
      BY <1>4, <1>5, <3>2 DEF FetchShape
  <2>2. PICK out \in ToBins(p, f) :
            fetch' = [fetch EXCEPT ![p] = out.next] /\ call' = Opened(Closed({c}), out.calls)
    BY <1>8 DEF GotTable
  <2>3. FetchOK(p, out.next, out.calls, head) /\ \A d \in out.calls : d[1] = p
    <3>1. f.stage = "tables" /\ head \in DOMAIN Chain
      BY <1>1, <1>2
    <3> HIDE DEF f
    <3>2. QED
      BY <1>5, <1>6, <2>1, <2>2, <3>1, ToBinsOK, Zenon
  <2>4. FetchOK(p, out.next, (Of(p) \ {c}) \cup out.calls, head)
    BY <1>8, <2>3, Zenon
  <2>5. \A d \in {c} \cup out.calls : d[1] = p
    BY <2>3
  <2> HIDE DEF c, f
  <2>6. QED
    BY <1>3, <2>2, <2>4, <2>5, FetchMoves
<1>9. CASE Of(p) # {c}
  <2>1. (Of(p) \ {c}) \cup {} = {<<p, "table", j>> : j \in Tables(p) \ DOMAIN f.got}
    BY <1>4, <1>7
  <2>2. FetchOK(p, f, (Of(p) \ {c}) \cup {}, head)
    <3> DEFINE new == (Of(p) \ {c}) \cup {}
    <3>1. new = {<<p, "table", j>> : j \in Tables(p) \ DOMAIN f.got}
      BY <2>1
    <3> HIDE DEF new
    <3>2. FetchOK(p, f, new, head)
      BY <1>2, <1>5, <1>6, <3>1 DEF FetchOK, FetchAsks, BinsOK
    <3>3. QED
      BY <3>2 DEF new
  <2>3. fetch' = [fetch EXCEPT ![p] = f] /\ call' = Opened(Closed({c}), {})
    <3>1. PICK out \in {[next |-> f, calls |-> {}]} :
              fetch' = [fetch EXCEPT ![p] = out.next] /\ call' = Opened(Closed({c}), out.calls)
      BY <1>9 DEF GotTable
    <3>2. out.next = f /\ out.calls = {}
      OBVIOUS
    <3>3. QED
      BY <3>1, <3>2
  <2>4. \A d \in {c} \cup {} : d[1] = p
    OBVIOUS
  <2> HIDE DEF c, f
  <2>5. QED
    BY <1>3, <2>2, <2>3, <2>4, FetchMoves
<1>10. QED
  BY <1>8, <1>9

(* A request for bins is over, whatever came of it.                        *)
LEMMA CollectStep ==
    ASSUME BootInv, NEW p \in Pool, NEW ids, <<p, "bins", ids>> \in DOMAIN call,
           NEW f, Collect(p, ids, f), Replied(p, fetch[p], f, head, ids)
    PROVE  BootInv'
<1> DEFINE g == fetch[p]
           c == <<p, "bins", ids>>
           e == AfterBins(p, f, ids, Of(p))
<1>1. FetchOK(p, g, Of(p), head) /\ head \in DOMAIN Chain /\ g.stage = "bins" /\ c \in Of(p)
  <2>1. c[1] = p /\ c[2] = "bins"
    OBVIOUS
  <2>2. QED
    BY <2>1, FetchRequest
<1>2. FetchOK(p, e, (Of(p) \ {c}) \cup NextBins(p, f), head)
  BY <1>1, CollectedOK
<1>3. c[1] = p /\ c[2] = "bins"
  OBVIOUS
<1>4. fetch' = [fetch EXCEPT ![p] = e] /\ call' = Opened(Closed({c}), NextBins(p, f))
  BY <1>3 DEF Collect, Final, NextFor, AfterBins, NextBins
<1>5. \A d \in {c} \cup NextBins(p, f) : d[1] = p
  BY DEF NextBins
<1>6. CacheOK' /\ head' = head /\ disc' = disc
  BY DEF Collect, BootInv, CacheOK
<1> HIDE DEF c, e
<1>7. QED
  BY <1>2, <1>4, <1>5, <1>6, FetchMoves

(* Bins are answered.                                                      *)
LEMMA GotBinsStep ==
    ASSUME BootInv, NEW p \in Pool, NEW ids, <<p, "bins", ids>> \in DOMAIN call,
           NEW short \in Nat, GotBins(p, ids, short)
    PROVE  BootInv'
<1> DEFINE g == fetch[p]
           bal == Chain[At(g.tip)].bal[p]
           len == Len(ids)
           n == IF short < len THEN len - short ELSE 0
           bins == {b \in {Signed(ids[i]) : i \in 1 .. n} : ~Empty(bal[b])}
           f == [g EXCEPT !.held = [b \in DOMAIN @ \cup bins |-> IF b \in bins THEN bal[b] ELSE @[b]],
                          !.cut = @ \cup {Signed(ids[i]) : i \in n + 1 .. len}]
<1>1. /\ FetchOK(p, g, Of(p), head) /\ head \in DOMAIN Chain /\ g.stage = "bins"
      /\ ids \in BinLists
  <2>1. <<p, "bins", ids>>[1] = p /\ <<p, "bins", ids>>[2] = "bins" /\ <<p, "bins", ids>>[3] = ids
    OBVIOUS
  <2>2. QED
    BY <2>1, FetchRequest
<1>2. /\ len \in Nat /\ DOMAIN ids = 1 .. len
      /\ \A i \in DOMAIN ids : Signed(ids[i]) \in Bin
  BY <1>1, BinListTypes
<1> HIDE DEF len
<1>3. n \in Nat /\ n <= len /\ (short = 0 => n = len)
  BY <1>2
<1> HIDE DEF n
<1>4. /\ At(g.tip) = AtOf(g.tip, head) /\ AtOf(g.tip, head) \in SpanOf(g, head)
      /\ AtOf(g.tip, head) \in DOMAIN Chain
  BY <1>1, ReadInSpan DEF At, AtOf, FetchOK, FetchShape
<1>5. bins \subseteq Bin /\ {Signed(ids[i]) : i \in n + 1 .. len} \subseteq Bin
  <2>1. 1 .. n \subseteq DOMAIN ids /\ n + 1 .. len \subseteq DOMAIN ids
    BY <1>2, <1>3
  <2>2. QED
    BY <1>2, <2>1
<1>6. \A b \in Bin : bal[b] \in Balance
  BY <1>4, ChainTypes
<1> HIDE DEF bal
<1>7. /\ DOMAIN f = FetchFields /\ f.stage = g.stage /\ f.tip = g.tip /\ f.from = g.from
      /\ f.active = g.active /\ f.got = g.got /\ f.rest = g.rest /\ f.lost = g.lost
      /\ f.held = [b \in DOMAIN g.held \cup bins |-> IF b \in bins THEN bal[b] ELSE g.held[b]]
      /\ f.cut = g.cut \cup {Signed(ids[i]) : i \in n + 1 .. len}
  BY <1>1 DEF FetchOK, FetchShape, FetchFields
<1>8. Collect(p, ids, f) /\ (short # 0 => Mode[p] = "Full")
  BY DEF GotBins, n, len, bal
<1> HIDE DEF f
<1>9. BinShape(f)
  <2>1. f.held \in [DOMAIN f.held -> Balance] /\ DOMAIN f.held \subseteq Bin
    BY <1>1, <1>5, <1>6, <1>7 DEF FetchOK, FetchShape, BinShape
  <2>2. QED
    BY <1>1, <1>5, <1>7, <2>1 DEF FetchOK, FetchShape, BinShape
<1>10. SpanOf(f, head) = SpanOf(g, head)
  BY <1>7 DEF SpanOf
<1>11. HeldOK(p, f, head)
  <2>1. f.stage # "idle"
    BY <1>1, <1>7
  <2>2. ASSUME NEW b \in DOMAIN f.held
        PROVE  \E h \in SpanOf(f, head) : f.held[b] = Chain[h].bal[p][b] /\ ~Empty(Chain[h].bal[p][b])
    <3>1. CASE b \in bins
      <4>1. f.held[b] = Chain[At(g.tip)].bal[p][b] /\ ~Empty(Chain[At(g.tip)].bal[p][b])
        BY <1>7, <3>1 DEF bal
      <4>2. QED
        BY <1>4, <1>10, <4>1
    <3>2. CASE b \notin bins
      <4>1. b \in DOMAIN g.held /\ f.held[b] = g.held[b]
        BY <1>7, <3>2
      <4>2. QED
        BY <1>1, <1>10, <4>1 DEF FetchOK, HeldOK
    <3>3. QED
      BY <3>1, <3>2
  <2>3. QED
    BY <2>1, <2>2 DEF HeldOK
<1>12. \A b : Seen(p, g, head, b) => Seen(p, f, head, b)
  BY <1>7, <1>10 DEF Seen, Given_up
<1>13. ASSUME NEW i \in DOMAIN ids PROVE Seen(p, f, head, Signed(ids[i]))
  <2>1. CASE i \in 1 .. n
    <3>1. CASE Signed(ids[i]) \in bins
      BY <1>7, <3>1 DEF Seen
    <3>2. CASE Signed(ids[i]) \notin bins
      <4>1. Empty(Chain[At(g.tip)].bal[p][Signed(ids[i])])
        BY <2>1, <3>2 DEF bal
      <4>2. QED
        BY <1>4, <1>10, <4>1 DEF Seen
    <3>3. QED
      BY <3>1, <3>2
  <2>2. CASE i \notin 1 .. n
    <3>1. i \in n + 1 .. len /\ n # len
      BY <1>2, <1>3, <2>2
    <3>2. Mode[p] = "Full" /\ Signed(ids[i]) \in f.cut
      BY <1>3, <1>7, <1>8, <3>1
    <3>3. QED
      BY <3>2 DEF Seen, Given_up
  <2>3. QED
    BY <2>1, <2>2
<1>14. Replied(p, g, f, head, ids)
  BY <1>7, <1>9, <1>11, <1>12, <1>13 DEF Replied
<1>15. QED
  BY <1>8, <1>14, CollectStep

(* A request of a fetch failed for good.                                   *)
LEMMA FailFetchStep ==
    ASSUME BootInv, NEW p \in Pool, NEW c \in DOMAIN call, c[1] = p, FailFetch(p, c)
    PROVE  BootInv'
<1> DEFINE g == fetch[p]
<1>1. FetchOK(p, g, Of(p), head) /\ head \in DOMAIN Chain /\ DOMAIN fetch = Pool
  BY FetchRequest DEF BootInv
<1>2. CASE Aborts(p, c[2])
  <2> DEFINE f == [g EXCEPT !.stage = "failed"]
  <2>1. /\ fetch' = [fetch EXCEPT ![p] = f] /\ call' = Closed(Of(p))
        /\ head' = head /\ disc' = disc /\ cache' = cache
    BY <1>1, <1>2 DEF FailFetch
  <2>2. call' = Opened(Closed(Of(p)), {})
    BY <2>1, OnlyClosed
  <2>3. FetchOK(p, f, {}, head)
    BY <1>1, FailedOK
  <2>4. FetchOK(p, f, (Of(p) \ Of(p)) \cup {}, head)
    BY <2>3, Zenon
  <2>5. \A d \in Of(p) \cup {} : d[1] = p
    BY DEF Of
  <2>6. CacheOK'
    BY <2>1 DEF BootInv, CacheOK
  <2> HIDE DEF f
  <2>7. QED
    BY <2>1, <2>2, <2>4, <2>5, <2>6, FetchMoves
<1>3. CASE ~Aborts(p, c[2])
  <2> DEFINE ids == c[3]
             f == [g EXCEPT !.lost = @ \cup {Signed(ids[i]) : i \in DOMAIN ids}]
  <2>1. Mode[p] # "Full" /\ c[2] = "bins" /\ c = <<p, "bins", ids>> /\ ids \in BinLists /\ g.stage = "bins"
    BY <1>3, FetchRequest DEF Aborts
  <2>2. {Signed(ids[i]) : i \in DOMAIN ids} \subseteq Bin
    BY <2>1, BinListTypes
  <2>3. Collect(p, ids, f)
    BY <1>3 DEF FailFetch
  <2>4. /\ DOMAIN f = FetchFields /\ f.stage = g.stage /\ f.tip = g.tip /\ f.from = g.from
        /\ f.active = g.active /\ f.got = g.got /\ f.rest = g.rest /\ f.held = g.held /\ f.cut = g.cut
        /\ f.lost = g.lost \cup {Signed(ids[i]) : i \in DOMAIN ids}
    BY <1>1 DEF FetchOK, FetchShape, FetchFields
  <2> HIDE DEF f
  <2>5. BinShape(f)
    BY <1>1, <2>2, <2>4 DEF FetchOK, FetchShape, BinShape
  <2>6. SpanOf(f, head) = SpanOf(g, head)
    BY <2>4 DEF SpanOf
  <2>7. HeldOK(p, f, head)
    BY <1>1, <2>4, <2>6 DEF FetchOK, HeldOK
  <2>8. \A b : Seen(p, g, head, b) => Seen(p, f, head, b)
    BY <2>4, <2>6 DEF Seen, Given_up
  <2>9. \A i \in DOMAIN ids : Seen(p, f, head, Signed(ids[i]))
    BY <2>1, <2>4 DEF Seen, Given_up
  <2>10. <<p, "bins", ids>> \in DOMAIN call
    BY <2>1
  <2>11. Replied(p, g, f, head, ids)
    BY <2>4, <2>5, <2>7, <2>8, <2>9 DEF Replied
  <2> HIDE DEF ids
  <2>12. QED
    BY <2>3, <2>10, <2>11, CollectStep
<1>4. QED
  BY <1>2, <1>3

-----------------------------------------------------------------------------
(* Sorting by id.  In a sequence with distinct ids every listing has its   *)
(* own number of ids up to it, and every such number occurs, for there are *)
(* as many as listings.                                                    *)
(* The number of ids up to a listing's tells it from the others.           *)
LEMMA RankTells ==
    ASSUME NEW R, IsFiniteSet(R), \A l, m \in R : l.id = m.id => l = m, \A l \in R : l.id \in Nat,
           NEW l \in R, NEW m \in R
    PROVE  /\ Cardinality(UpTo(R, l.id)) \in 1 .. Cardinality(R)
           /\ l.id <= m.id => Cardinality(UpTo(R, l.id)) <= Cardinality(UpTo(R, m.id))
           /\ Cardinality(UpTo(R, l.id)) = Cardinality(UpTo(R, m.id)) => l = m
<1>1. ASSUME NEW k \in R
      PROVE  /\ UpTo(R, k.id) \in SUBSET R /\ k \in UpTo(R, k.id) /\ IsFiniteSet(UpTo(R, k.id))
             /\ Cardinality(UpTo(R, k.id)) \in 1 .. Cardinality(R)
  <2>1. UpTo(R, k.id) \in SUBSET R /\ k \in UpTo(R, k.id)
    BY DEF UpTo
  <2>2. IsFiniteSet(UpTo(R, k.id)) /\ Cardinality(UpTo(R, k.id)) <= Cardinality(R)
    BY <2>1, FS_Subset
  <2>3. Cardinality(UpTo(R, k.id)) \in Nat /\ Cardinality(R) \in Nat /\ Cardinality(UpTo(R, k.id)) # 0
    BY <2>1, <2>2, FS_CardinalityType, FS_EmptySet
  <2>4. QED
    BY <2>1, <2>2, <2>3
<1>2. ASSUME NEW k \in R, NEW j \in R, k.id <= j.id
      PROVE  /\ UpTo(R, k.id) \in SUBSET UpTo(R, j.id)
             /\ Cardinality(UpTo(R, k.id)) <= Cardinality(UpTo(R, j.id))
             /\ Cardinality(UpTo(R, k.id)) = Cardinality(UpTo(R, j.id)) => k = j
  <2>1. UpTo(R, k.id) \in SUBSET UpTo(R, j.id)
    BY <1>2 DEF UpTo
  <2>2. /\ Cardinality(UpTo(R, k.id)) <= Cardinality(UpTo(R, j.id))
        /\ Cardinality(UpTo(R, j.id)) = Cardinality(UpTo(R, k.id)) => UpTo(R, j.id) = UpTo(R, k.id)
    BY <1>1, <2>1, FS_Subset
  <2>3. UpTo(R, j.id) = UpTo(R, k.id) => j.id <= k.id
    BY <1>1 DEF UpTo
  <2>4. j.id <= k.id => k = j
    BY <1>2
  <2>5. QED
    BY <2>1, <2>2, <2>3, <2>4
<1>3. l.id <= m.id \/ m.id <= l.id
  OBVIOUS
<1>4. QED
  BY <1>1, <1>2, <1>3

(* SortedById permutes its argument and puts it in the order of the ids.   *)
LEMMA SortedLemma ==
    ASSUME NEW out \in Seq(Listing), DistinctIds(out)
    PROVE  /\ SortedById(out) \in Seq(Listing) /\ DOMAIN SortedById(out) = DOMAIN out
           /\ Range(SortedById(out)) = Range(out)
           /\ \A i, j \in DOMAIN out : i < j => SortedById(out)[i].id < SortedById(out)[j].id
<1> DEFINE R == Range(out)
           n == Len(out)
           rank == [l \in R |-> Cardinality(UpTo(R, l.id))]
           s == SortedById(out)
<1>1. n \in Nat /\ DOMAIN out = 1 .. n /\ \A i \in 1 .. n : out[i] \in Listing
  BY LenProperties, ElementOfSeq
<1>2. /\ \A l \in R : l \in Listing /\ l.id \in Nat
      /\ \A l, m \in R : l.id = m.id => l = m
  <2>1. \A l \in R : l \in Listing
    BY <1>1 DEF Range
  <2>2. \A l \in R : l.id \in Nat
    BY <2>1 DEF Listing
  <2>3. \A l, m \in R : l.id = m.id => l = m
    BY DEF Range, DistinctIds
  <2>4. QED
    BY <2>1, <2>2, <2>3
<1>3. /\ IsFiniteSet(R) /\ Cardinality(R) = n
      /\ IsFiniteSet(1 .. n) /\ Cardinality(1 .. n) = n
  <2>1. IsFiniteSet(1 .. n) /\ Cardinality(1 .. n) = n
    <3> HIDE DEF n
    <3>1. IsFiniteSet(1 .. n) /\ Cardinality(1 .. n) = IF 1 > n THEN 0 ELSE n - 1 + 1
      BY <1>1, FS_Interval
    <3>2. QED
      BY <1>1, <3>1
  <2>2. out \in Bijection(1 .. n, R)
    <3>1. out \in [1 .. n -> R]
      BY <1>1 DEF Range
    <3>2. \A i, j \in 1 .. n : out[i] = out[j] => i = j
      BY <1>1 DEF DistinctIds
    <3>3. \A l \in R : \E i \in 1 .. n : out[i] = l
      BY <1>1 DEF Range
    <3>4. QED
      BY <3>1, <3>2, <3>3 DEF Bijection, Injection, Surjection, IsInjective
  <2>3. ExistsBijection(1 .. n, R)
    BY <2>2 DEF ExistsBijection
  <2>4. QED
    BY <2>1, <2>3, FS_Bijection
<1> HIDE DEF n
<1>4. ASSUME NEW l \in R, NEW m \in R
      PROVE  /\ rank[l] \in 1 .. n
             /\ l.id <= m.id => rank[l] <= rank[m]
             /\ rank[l] = rank[m] => l = m
  BY <1>2, <1>3, RankTells
<1>5. \A i \in 1 .. n : \E l \in R : rank[l] = i
  <2>1. rank \in Injection(R, 1 .. n)
    <3>1. rank \in [R -> 1 .. n] /\ \A l, m \in R : rank[l] = rank[m] => l = m
      BY <1>4
    <3> HIDE DEF rank
    <3>2. QED
      BY <3>1 DEF Injection, IsInjective
  <2> HIDE DEF rank
  <2>2. rank \in Surjection(R, 1 .. n)
    BY <1>3, <2>1, FS_Injection
  <2>3. QED
    BY <2>2 DEF Surjection
<1>6. ASSUME NEW i \in 1 .. n PROVE s[i] \in R /\ rank[s[i]] = i
  <2>1. \E l \in R : Cardinality(UpTo(R, l.id)) = i
    BY <1>5
  <2>2. s[i] = CHOOSE l \in R : Cardinality(UpTo(R, l.id)) = i
    BY <1>1 DEF SortedById
  <2>3. s[i] \in R /\ Cardinality(UpTo(R, s[i].id)) = i
    <3> DEFINE P(l) == Cardinality(UpTo(R, l.id)) = i
    <3>1. \E l \in R : P(l)
      BY <2>1
    <3>2. s[i] = CHOOSE l \in R : P(l)
      BY <2>2
    <3> HIDE DEF P, s
    <3>3. s[i] \in R /\ P(s[i])
      BY <3>1, <3>2
    <3>4. QED
      BY <3>3 DEF P
  <2>4. QED
    BY <2>3
<1>7. DOMAIN s = 1 .. n /\ s = [i \in 1 .. n |-> s[i]]
  BY <1>1 DEF SortedById
<1> HIDE DEF rank, s
<1>8. s \in Seq(Listing)
  BY <1>1, <1>2, <1>6, <1>7
<1>9. Range(s) = R
  <2>1. Range(s) \subseteq R
    BY <1>6, <1>7 DEF Range
  <2>2. ASSUME NEW l \in R PROVE l \in Range(s)
    <3>1. rank[l] \in 1 .. n
      BY <1>4
    <3>2. s[rank[l]] = l
      BY <1>4, <1>6, <3>1
    <3>3. QED
      BY <1>7, <3>1, <3>2 DEF Range
  <2>3. QED
    BY <2>1, <2>2
<1>10. ASSUME NEW i \in 1 .. n, NEW j \in 1 .. n, i < j PROVE s[i].id < s[j].id
  <2>1. s[i] \in R /\ s[j] \in R /\ rank[s[i]] = i /\ rank[s[j]] = j
    BY <1>6
  <2>2. ~(s[j].id <= s[i].id)
    BY <1>1, <1>4, <1>10, <2>1
  <2>3. QED
    BY <1>2, <2>1, <2>2
<1>11. QED
  BY <1>1, <1>7, <1>8, <1>9, <1>10 DEF n, s

-----------------------------------------------------------------------------
(* The request for an id is over: the next id of the list is asked for.    *)
NextId(rest) == IF rest = <<>> THEN {} ELSE {<<Discovery, "id", Head(rest)>>}

IdDone(rest, mine, id, new) ==
    /\ ById(new) /\ OnceEach(Rest(rest), Asked(new)) /\ Rest(rest) \in Seq(Nat \ {0})
    /\ Asked(new) \cup Range(Rest(rest)) = (Asked(mine) \cup Range(rest)) \ {id}
    /\ rest = <<>> /\ mine = {<<Discovery, "id", id>>} => new = {}

(* What is awaited when the answer for an id is in: all but that id.       *)
LEMMA IdsMove ==
    ASSUME NEW rest \in Seq(Nat \ {0}), NEW mine, ById(mine), OnceEach(rest, Asked(mine)),
           NEW id, <<Discovery, "id", id>> \in mine,
           NEW new, new = (mine \ {<<Discovery, "id", id>>}) \cup NextId(rest)
    PROVE  IdDone(rest, mine, id, new)
<1>1. /\ Rest(rest) \in Seq(Nat \ {0})
      /\ \A i \in DOMAIN Rest(rest) : i + 1 \in DOMAIN rest /\ i \in Nat /\ Rest(rest)[i] = rest[i + 1]
      /\ rest # <<>> => Head(rest) = rest[1] /\ 1 \in DOMAIN rest
      /\ \A i \in DOMAIN rest : i \in Nat /\ (i = 1 \/ i - 1 \in DOMAIN Rest(rest))
      /\ rest = <<>> => DOMAIN rest = {} /\ DOMAIN Rest(rest) = {}
  BY RestOf DEF Rest
<1>2. ById(new) /\ (rest = <<>> /\ mine = {<<Discovery, "id", id>>} => new = {})
  BY DEF ById, NextId
<1>3. id \in Asked(mine) /\ id \notin Range(rest)
  <2>1. <<Discovery, "id", id>>[3] = id
    OBVIOUS
  <2>2. id \in Asked(mine)
    BY <2>1 DEF Asked
  <2>3. QED
    BY <2>2 DEF OnceEach
<1>4. Asked(new) = (Asked(mine) \ {id}) \cup (IF rest = <<>> THEN {} ELSE {rest[1]})
  <2>1. ASSUME NEW c \in mine, c # <<Discovery, "id", id>> PROVE c[3] # id /\ c \in new
    BY <2>1 DEF ById
  <2>2. ASSUME NEW x \in Asked(mine), x # id PROVE x \in Asked(new)
    <3>1. PICK c \in mine : x = c[3]
      BY DEF Asked
    <3>2. c # <<Discovery, "id", id>>
      BY <2>2, <3>1
    <3>3. QED
      BY <2>1, <3>1, <3>2 DEF Asked
  <2>3. ASSUME rest # <<>> PROVE rest[1] \in Asked(new)
    <3>1. <<Discovery, "id", Head(rest)>> \in new /\ <<Discovery, "id", Head(rest)>>[3] = rest[1]
      BY <1>1, <2>3 DEF NextId
    <3>2. QED
      BY <3>1 DEF Asked
  <2>4. ASSUME NEW x \in Asked(new)
        PROVE  x \in (Asked(mine) \ {id}) \cup (IF rest = <<>> THEN {} ELSE {rest[1]})
    <3>1. PICK c \in new : x = c[3]
      BY DEF Asked
    <3>2. CASE c \in mine /\ c # <<Discovery, "id", id>>
      BY <2>1, <3>1, <3>2 DEF Asked
    <3>3. CASE c \in NextId(rest)
      BY <1>1, <3>1, <3>3 DEF NextId
    <3>4. QED
      BY <3>2, <3>3
  <2>5. QED
    BY <2>2, <2>3, <2>4
<1>5. Range(rest) = Range(Rest(rest)) \cup (IF rest = <<>> THEN {} ELSE {rest[1]})
  <2>1. ASSUME NEW i \in DOMAIN rest
        PROVE  rest[i] \in Range(Rest(rest)) \cup (IF rest = <<>> THEN {} ELSE {rest[1]})
    <3>1. rest # <<>>
      BY <1>1
    <3>2. CASE i = 1
      BY <3>1, <3>2
    <3>3. CASE i # 1
      <4>1. i - 1 \in DOMAIN Rest(rest) /\ i \in Nat /\ Rest(rest)[i - 1] = rest[i - 1 + 1]
        BY <1>1, <3>3
      <4>2. Rest(rest)[i - 1] = rest[i]
        BY <4>1
      <4>3. QED
        BY <4>1, <4>2 DEF Range
    <3>4. QED
      BY <3>2, <3>3
  <2>2. Range(rest) \subseteq Range(Rest(rest)) \cup (IF rest = <<>> THEN {} ELSE {rest[1]})
    BY <2>1 DEF Range
  <2>3. Range(Rest(rest)) \subseteq Range(rest) /\ (rest # <<>> => rest[1] \in Range(rest))
    BY <1>1 DEF Range
  <2>4. QED
    BY <2>2, <2>3
<1>6. \A i, j \in DOMAIN Rest(rest) : Rest(rest)[i] = Rest(rest)[j] => i = j
  <2>1. SUFFICES ASSUME NEW i \in DOMAIN Rest(rest), NEW j \in DOMAIN Rest(rest),
                        Rest(rest)[i] = Rest(rest)[j]
                 PROVE  i = j
    OBVIOUS
  <2>2. i \in Nat /\ j \in Nat /\ i + 1 = j + 1
    BY <1>1, <2>1 DEF OnceEach
  <2>3. QED
    BY <2>2
<1>7. rest # <<>> => rest[1] \notin Range(Rest(rest))
  <2>1. SUFFICES ASSUME rest # <<>>, NEW i \in DOMAIN Rest(rest), Rest(rest)[i] = rest[1] PROVE FALSE
    BY DEF Range
  <2>2. i + 1 \in DOMAIN rest /\ i \in Nat /\ rest[i + 1] = rest[1] /\ 1 \in DOMAIN rest
    BY <1>1, <2>1
  <2>3. i + 1 = 1
    BY <2>2 DEF OnceEach
  <2>4. i = 0
    BY <2>2, <2>3
  <2>5. 0 \notin DOMAIN Rest(rest)
    BY <1>1, LenProperties
  <2>6. QED
    BY <2>1, <2>4, <2>5
<1>8. Range(rest) \cap Asked(mine) = {}
  BY DEF OnceEach
<1>9. Range(Rest(rest)) \cap Asked(new) = {}
  BY <1>4, <1>5, <1>7, <1>8
<1>10. Asked(new) \cup Range(Rest(rest)) = (Asked(mine) \cup Range(rest)) \ {id}
  BY <1>3, <1>4, <1>5, <1>8
<1>11. QED
  BY <1>1, <1>2, <1>6, <1>9, <1>10 DEF OnceEach, IdDone

(* The discovery begins.                                                   *)
LEMMA DiscoverStep ==
    ASSUME BootInv, NEW tip \in {None} \cup 1 .. head, discover_dlmm_pools(tip)
    PROVE  BootInv'
<1> DEFINE c == <<Discovery, "last", None>>
<1>1. DiscOK(disc, Of(Discovery), head) /\ head \in DOMAIN Chain /\ disc.stage = "idle"
  BY DEF BootInv, discover_dlmm_pools
<1>2. Of(Discovery) = {} /\ disc.out = <<>> /\ disc \in Discover
  BY <1>1 DEF DiscOK, DiscAsks
<1>3. /\ disc' \in Discover /\ disc'.stage = "last" /\ disc'.tip = tip /\ disc'.from = head
      /\ disc'.rest = disc.rest /\ disc'.out = <<>> /\ disc'.lost = disc.lost
  <2>1. tip \in Nat /\ head \in Nat
    BY <1>1, ChainTypes DEF None
  <2>2. QED
    BY <1>2, <2>1 DEF discover_dlmm_pools, Discover
<1>4. TimeShape(disc', head)
  BY <1>1, <1>3, ChainTypes DEF TimeShape
<1>5. c[3] = None /\ None \notin Range(disc.rest)
  BY <1>2 DEF Discover, Range, None
<1>6. Distinct(disc', {c})
  <2>1. Asked({c}) = {None}
    BY DEF Asked
  <2>2. OnceEach(disc.rest, {None})
    BY <1>1, <1>5 DEF DiscOK, Distinct, OnceEach
  <2>3. DistinctIds(<<>>) /\ Found(disc') = {}
    BY <1>3 DEF DistinctIds, Found
  <2>4. QED
    BY <1>3, <2>1, <2>2, <2>3 DEF Distinct
<1>7. DiscOK(disc', {c}, head)
  BY <1>3, <1>4, <1>6 DEF DiscOK, DiscAsks, PendingOK, FoundOK, MissedOK, SortedOK
<1>8. DiscOK(disc', (Of(Discovery) \ {}) \cup {c}, head)
  BY <1>2, <1>7, Zenon
<1>9. call' = Opened(Closed({}), {c}) /\ head' = head /\ cache' = cache /\ fetch' = fetch
  BY OnlyOpened DEF discover_dlmm_pools, BootInv
<1>10. \A d \in {} \cup {c} : d[1] = Discovery
  OBVIOUS
<1> HIDE DEF c
<1>11. QED
  BY <1>8, <1>9, <1>10, DiscoveryMoves

(* The number of ids is answered: every one of them is to be asked for.    *)
LEMMA GotLastStep ==
    ASSUME BootInv, <<Discovery, "last", None>> \in DOMAIN call, GotLast
    PROVE  BootInv'
<1> DEFINE c == <<Discovery, "last", None>>
           g == AtOf(disc.tip, head)
           last == Len(Chain[g].listed)
           ids == [i \in 1 .. last |-> i]
           first == First(Discovery, ids)
           later == Later(Discovery, ids)
           w == Width(Discovery)
           new == Sent(Discovery, "id", first)
<1>1. /\ DiscOK(disc, Of(Discovery), head) /\ head \in DOMAIN Chain /\ disc.stage = "last"
      /\ c \in Of(Discovery)
  <2>1. c[1] = Discovery /\ c[2] = "last"
    OBVIOUS
  <2>2. QED
    BY <2>1, DiscoveryRequest
<1>2. Of(Discovery) = {c} /\ disc.out = <<>> /\ disc \in Discover /\ TimeShape(disc, head)
  BY <1>1 DEF DiscOK, DiscAsks
<1>3. g = At(disc.tip) /\ g \in SpanOf(disc, head) /\ g \in DOMAIN Chain
  BY <1>1, <1>2, ReadInSpan DEF At, AtOf
<1> HIDE DEF g
<1>4. last \in Nat /\ DOMAIN Chain[g].listed = 1 .. last
  BY <1>3, ChainTypes, LenProperties
<1> HIDE DEF last
<1>5. ids \in Seq(Nat \ {0}) /\ DOMAIN ids = 1 .. last /\ \A i \in 1 .. last : ids[i] = i
  BY <1>4
<1> HIDE DEF ids
<1>6. w \in Nat \ {0} /\ Splits(Nat \ {0}, ids, w, first, later)
  <2>1. Discovery \in Job
    BY DEF Job
  <2>2. QED
    BY <1>5, <2>1, Split, WidthType
<1> HIDE DEF first, later, w
<1>7. /\ later \in Seq(Nat \ {0})
      /\ \A k \in DOMAIN first : k \in 1 .. last /\ k <= w /\ first[k] = k
      /\ \A k \in DOMAIN later : k \in Nat \ {0} /\ w + k \in 1 .. last /\ later[k] = w + k
      /\ \A i \in 1 .. last : i \in DOMAIN first \/ (i - w \in DOMAIN later /\ later[i - w] = i)
  <2>1. /\ later \in Seq(Nat \ {0})
        /\ \A k \in DOMAIN first : k \in DOMAIN ids /\ k <= w /\ first[k] = ids[k]
        /\ \A k \in DOMAIN later : k \in Nat \ {0} /\ w + k \in DOMAIN ids /\ later[k] = ids[w + k]
        /\ \A i \in DOMAIN ids :
              \/ i <= w /\ i \in DOMAIN first
              \/ i - w \in DOMAIN later /\ later[i - w] = ids[i]
    BY <1>6, Zenon DEF Splits
  <2>2. \A k \in DOMAIN first : k \in 1 .. last /\ k <= w /\ first[k] = k
    BY <1>5, <2>1
  <2>3. \A k \in DOMAIN later : k \in Nat \ {0} /\ w + k \in 1 .. last /\ later[k] = w + k
    BY <1>5, <2>1
  <2>4. ASSUME NEW i \in 1 .. last
        PROVE  i \in DOMAIN first \/ (i - w \in DOMAIN later /\ later[i - w] = i)
    <3>1. i \in DOMAIN ids /\ ids[i] = i
      BY <1>5
    <3>2. QED
      BY <2>1, <3>1, Zenon
  <2>5. QED
    BY <2>1, <2>2, <2>3, <2>4, Zenon
<1>8. new = {<<Discovery, "id", first[k]>> : k \in DOMAIN first}
  BY DEF Sent
<1>9. Asked(new) = DOMAIN first /\ ById(new)
  <2>1. \A k \in DOMAIN first : <<Discovery, "id", first[k]>>[3] = k
    BY <1>7
  <2>2. Asked(new) = DOMAIN first
    <3>1. \A k \in DOMAIN first : first[k] = k
      BY <1>7
    <3>2. ASSUME NEW k \in DOMAIN first PROVE k \in Asked(new)
      <4>1. <<Discovery, "id", first[k]>> \in new
        BY <1>8
      <4>2. QED
        BY <2>1, <4>1, Zenon DEF Asked
    <3>3. ASSUME NEW x \in Asked(new) PROVE x \in DOMAIN first
      <4>1. PICK a \in new : x = a[3]
        BY Zenon DEF Asked
      <4>2. PICK k \in DOMAIN first : a = <<Discovery, "id", first[k]>>
        BY <1>8, <4>1
      <4>3. x = k
        BY <2>1, <4>1, <4>2
      <4>4. QED
        BY <4>3
    <3>4. QED
      BY <3>2, <3>3
  <2>3. ById(new)
    BY <1>8 DEF ById
  <2>4. QED
    BY <2>2, <2>3
<1> HIDE DEF new
<1>10. Asked(new) \cup Range(later) = 1 .. last
  <2>1. ASSUME NEW i \in 1 .. last PROVE i \in DOMAIN first \cup Range(later)
    BY <1>7 DEF Range
  <2>2. DOMAIN first \subseteq 1 .. last /\ Range(later) \subseteq 1 .. last
    BY <1>7 DEF Range
  <2>3. QED
    BY <1>9, <2>1, <2>2
<1>11. OnceEach(later, Asked(new))
  <2>1. \A i, j \in DOMAIN later : later[i] = later[j] => i = j
    BY <1>6, <1>7
  <2>2. \A k \in DOMAIN later : later[k] \notin DOMAIN first
    <3>1. SUFFICES ASSUME NEW k \in DOMAIN later, later[k] \in DOMAIN first PROVE FALSE
      OBVIOUS
    <3>2. k \in Nat \ {0} /\ w + k <= w
      BY <1>7, <3>1
    <3>3. QED
      BY <1>6, <3>2
  <2>3. QED
    BY <1>9, <2>1, <2>2 DEF OnceEach, Range
<1>12. /\ disc' \in Discover /\ disc'.stage = (IF last = 0 THEN "done" ELSE "ids")
       /\ disc'.rest = later /\ disc'.tip = disc.tip /\ disc'.from = disc.from
       /\ disc'.out = <<>> /\ disc'.lost = disc.lost
       /\ call' = Opened(Closed({c}), new)
       /\ head' = head /\ cache' = cache /\ fetch' = fetch
  <2>1. /\ disc' = [disc EXCEPT !.stage = IF last = 0 THEN "done" ELSE "ids", !.rest = later]
        /\ call' = Opened(Closed({c}), new)
        /\ head' = head /\ cache' = cache /\ fetch' = fetch
    BY <1>3 DEF GotLast, last, ids, first, later, new
  <2> HIDE DEF c
  <2>2. QED
    BY <1>2, <1>7, <2>1 DEF Discover
<1>13. TimeShape(disc', head) /\ SpanOf(disc', head) = SpanOf(disc, head)
  BY <1>2, <1>12 DEF TimeShape, SpanOf
<1>14. /\ Pending(disc', new) = 1 .. last /\ Found(disc') = {}
  BY <1>10, <1>12 DEF Pending, Found
<1>15. Distinct(disc', new) /\ FoundOK(disc', head)
  BY <1>11, <1>12, <1>14 DEF Distinct, DistinctIds, FoundOK
<1>16. PendingOK(disc', new, head)
  <2>1. AtOf(disc'.tip, head) = g
    BY <1>12 DEF g
  <2>2. QED
    BY <1>4, <1>14, <2>1 DEF PendingOK
<1>17. MissedOK(disc', new, head)
  BY <1>3, <1>4, <1>13, <1>14 DEF MissedOK
<1>18. last = 0 => new = {} /\ later = <<>>
  <2>1. last = 0 => DOMAIN first = {} /\ DOMAIN later = {}
    <3>1. last = 0 => 1 .. last = {}
      OBVIOUS
    <3>2. last = 0 => DOMAIN first = {}
      BY <1>7, <3>1
    <3>3. last = 0 => DOMAIN later = {}
      BY <1>7, <3>1
    <3>4. QED
      BY <3>2, <3>3
  <2>2. last = 0 => new = {}
    BY <1>8, <2>1 DEF new
  <2>3. last = 0 => later = <<>>
    <3>1. later # <<>> => 1 \in DOMAIN later
      BY <1>7, RestOf
    <3>2. QED
      BY <2>1, <3>1
  <2>4. QED
    BY <2>2, <2>3
<1>19. DiscAsks(disc', new) /\ SortedOK(disc')
  BY <1>9, <1>12, <1>18 DEF DiscAsks, SortedOK
<1>20. DiscOK(disc', new, head)
  BY <1>12, <1>13, <1>15, <1>16, <1>17, <1>19 DEF DiscOK
<1>21. DiscOK(disc', (Of(Discovery) \ {c}) \cup new, head)
  BY <1>2, <1>20, Zenon
<1>22. \A d \in {c} \cup new : d[1] = Discovery
  BY <1>8 DEF new
<1> HIDE DEF c
<1>23. QED
  BY <1>12, <1>21, <1>22, DiscoveryMoves

(* What came of an id, and what it leaves of the discovery.                *)
AfterListed(d, mine, id, found, lost) ==
    LET final == d.rest = <<>> /\ mine = {<<Discovery, "id", id>>}
    IN  [d EXCEPT !.rest = Rest(@), !.stage = IF final THEN "done" ELSE "ids",
                  !.out = IF final THEN SortedById(d.out \o found) ELSE d.out \o found,
                  !.lost = @ \cup lost]

Answer(d, h, id, found, lost) ==
    \/ found = Is(id, AtOf(d.tip, h)) /\ lost = {}
    \/ found = <<>> /\ lost = {id}

(* The listings so far with the one answered, if any.                      *)
LEMMA FoundMore ==
    ASSUME NEW out \in Seq(Listing), NEW found,
           found = <<>> \/ (\E r \in Listing : found = <<r>>)
    PROVE  /\ out \o found \in Seq(Listing)
           /\ \A i \in DOMAIN (out \o found) :
                 \/ i \in DOMAIN out /\ (out \o found)[i] = out[i]
                 \/ i = Len(out) + 1 /\ i \notin DOMAIN out /\ found = <<(out \o found)[i]>>
           /\ \A i \in DOMAIN out : i \in DOMAIN (out \o found) /\ (out \o found)[i] = out[i]
           /\ found # <<>> => \E i \in DOMAIN (out \o found) : found = <<(out \o found)[i]>>
<1> DEFINE mid == out \o found
           More == /\ mid \in Seq(Listing)
                   /\ \A i \in DOMAIN mid :
                         \/ i \in DOMAIN out /\ mid[i] = out[i]
                         \/ i = Len(out) + 1 /\ i \notin DOMAIN out /\ found = <<mid[i]>>
                   /\ \A i \in DOMAIN out : i \in DOMAIN mid /\ mid[i] = out[i]
                   /\ found # <<>> => \E i \in DOMAIN mid : found = <<mid[i]>>
<1>1. Len(out) \in Nat /\ DOMAIN out = 1 .. Len(out)
  BY LenProperties
<1>2. ASSUME found = <<>> PROVE More
  <2>1. mid = out
    BY <1>2, ConcatEmptySeq
  <2> HIDE DEF mid
  <2>2. QED
    BY <1>2, <2>1
<1>3. ASSUME NEW r \in Listing, found = <<r>> PROVE More
  <2>1. found \in Seq(Listing) /\ Len(found) = 1 /\ found[1] = r
    BY <1>3
  <2>2. /\ mid \in Seq(Listing) /\ Len(mid) = Len(out) + 1
        /\ \A i \in 1 .. Len(out) + 1 :
              mid[i] = IF i <= Len(out) THEN out[i] ELSE found[i - Len(out)]
    <3>1. /\ mid \in Seq(Listing) /\ Len(mid) = Len(out) + Len(found)
          /\ \A i \in 1 .. Len(out) + Len(found) :
                mid[i] = IF i <= Len(out) THEN out[i] ELSE found[i - Len(out)]
      BY <2>1, ConcatProperties
    <3> HIDE DEF mid
    <3>2. QED
      BY <2>1, <3>1, Zenon
  <2> HIDE DEF mid, More
  <2>3. DOMAIN mid = 1 .. Len(out) + 1
    BY <2>2, LenProperties
  <2>4. /\ \A i \in 1 .. Len(out) : mid[i] = out[i]
        /\ mid[Len(out) + 1] = r
    BY <1>1, <2>1, <2>2
  <2>5. found = <<mid[Len(out) + 1]>> /\ Len(out) + 1 \notin DOMAIN out
    BY <1>1, <1>3, <2>4
  <2>6. \A i \in DOMAIN mid :
           \/ i \in DOMAIN out /\ mid[i] = out[i]
           \/ i = Len(out) + 1 /\ i \notin DOMAIN out /\ found = <<mid[i]>>
    <3> SUFFICES ASSUME NEW i \in DOMAIN mid
                 PROVE  \/ i \in DOMAIN out /\ mid[i] = out[i]
                        \/ i = Len(out) + 1 /\ i \notin DOMAIN out /\ found = <<mid[i]>>
      OBVIOUS
    <3>1. CASE i = Len(out) + 1
      BY <2>5, <3>1
    <3>2. CASE i # Len(out) + 1
      <4>1. i \in 1 .. Len(out)
        BY <1>1, <2>3, <3>2
      <4>2. QED
        BY <1>1, <2>4, <4>1
    <3>3. QED
      BY <3>1, <3>2
  <2>7. \A i \in DOMAIN out : i \in DOMAIN mid /\ mid[i] = out[i]
    BY <1>1, <2>3, <2>4
  <2>8. \E i \in DOMAIN mid : found = <<mid[i]>>
    BY <1>1, <2>3, <2>5
  <2>9. QED
    BY <2>2, <2>6, <2>7, <2>8 DEF More
<1> HIDE DEF More
<1>4. More
  BY <1>2, <1>3
<1>5. QED
  BY <1>4 DEF More, mid

(* What an entry of the registry decodes to.                               *)
LEMMA Decoded ==
    ASSUME NEW g \in DOMAIN Chain, NEW id \in DOMAIN Chain[g].listed
    PROVE  /\ id \in Nat \ {0}
           /\ Is(id, g) = <<>> \/ \E r \in Listing : Is(id, g) = <<r>> /\ r.id = id
<1>1. Chain[g].listed \in Seq(Entry)
  BY ChainTypes
<1>2. id \in Nat \ {0} /\ Chain[g].listed[id] \in Entry
  BY <1>1, LenProperties, ElementOfSeq
<1> DEFINE e == Chain[g].listed[id]
           r == [id |-> id, pool |-> e.pool, status |-> e.status]
<1>3. e.pool \in Pool /\ e.status \in BOOLEAN
  BY <1>2 DEF Entry
<1>4. r \in Listing /\ r.id = id
  BY <1>2, <1>3 DEF Listing
<1>5. Is(id, g) = <<>> \/ Is(id, g) = <<r>>
  BY DEF Is, decode_listing
<1> HIDE DEF r
<1>6. QED
  BY <1>2, <1>4, <1>5

(* The listings a discovery has after an answer: those it had and the one  *)
(* answered, in order once nothing is awaited.                             *)
GrowTo(d, e, found, id) ==
    /\ e.out \in Seq(Listing) /\ DistinctIds(e.out)
    /\ \A i \in DOMAIN e.out : <<e.out[i]>> = found \/ \E k \in DOMAIN d.out : e.out[i] = d.out[k]
    /\ Found(d) \subseteq Found(e) /\ Found(e) \subseteq Found(d) \cup {id}
    /\ found # <<>> => id \in Found(e)
    /\ e.stage = "done" => \A i, j \in DOMAIN e.out : i < j => e.out[i].id < e.out[j].id

(* So they are, sorted or not.                                             *)
LEMMA OutGrows ==
    ASSUME NEW d, d.out \in Seq(Listing), DistinctIds(d.out), NEW id, id \notin Found(d),
           NEW found, found = <<>> \/ (\E r \in Listing : found = <<r>> /\ r.id = id),
           NEW final \in BOOLEAN, NEW e,
           e.out = (IF final THEN SortedById(d.out \o found) ELSE d.out \o found),
           e.stage = (IF final THEN "done" ELSE "ids")
    PROVE  GrowTo(d, e, found, id)
<1> DEFINE mid == d.out \o found
<1>1. /\ mid \in Seq(Listing)
      /\ \A i \in DOMAIN mid : \/ i \in DOMAIN d.out /\ mid[i] = d.out[i]
                               \/ i = Len(d.out) + 1 /\ i \notin DOMAIN d.out /\ found = <<mid[i]>>
      /\ \A i \in DOMAIN d.out : i \in DOMAIN mid /\ mid[i] = d.out[i]
      /\ found # <<>> => \E i \in DOMAIN mid : found = <<mid[i]>>
  <2>1. found = <<>> \/ (\E r \in Listing : found = <<r>>)
    OBVIOUS
  <2>2. QED
    BY <2>1, FoundMore, Zenon
<1>2. e.out = (IF final THEN SortedById(mid) ELSE mid)
  OBVIOUS
<1> HIDE DEF mid
<1>3. \A x : found = <<x>> => x.id = id
  OBVIOUS
<1>4. \A i \in DOMAIN d.out : d.out[i].id # id
  BY DEF Found
<1>5. DistinctIds(mid)
  BY <1>1, <1>3, <1>4 DEF DistinctIds
<1>6. /\ SortedById(mid) \in Seq(Listing) /\ DOMAIN SortedById(mid) = DOMAIN mid
      /\ Range(SortedById(mid)) = Range(mid)
      /\ \A i, j \in DOMAIN mid : i < j => SortedById(mid)[i].id < SortedById(mid)[j].id
  BY <1>1, <1>5, SortedLemma
<1>7. e.out \in Seq(Listing) /\ Range(e.out) = Range(mid)
  BY <1>1, <1>2, <1>6
<1>8. e.stage = "done" => \A i, j \in DOMAIN e.out : i < j => e.out[i].id < e.out[j].id
  BY <1>2, <1>6
<1>9. DistinctIds(e.out)
  <2>1. CASE ~final
    BY <1>2, <1>5, <2>1
  <2>2. CASE final
    <3>1. SUFFICES ASSUME NEW i \in DOMAIN e.out, NEW j \in DOMAIN e.out, e.out[i].id = e.out[j].id
                   PROVE  i = j
      BY DEF DistinctIds
    <3>2. i \in Nat /\ j \in Nat
      BY <1>7, LenProperties
    <3>3. e.out[i].id \in Nat
      <4>1. e.out[i] \in Listing
        BY <1>7, ElementOfSeq, LenProperties
      <4>2. QED
        BY <4>1 DEF Listing
    <3>4. ~(i < j) /\ ~(j < i)
      BY <1>8, <2>2, <3>1, <3>3
    <3>5. QED
      BY <3>2, <3>4
  <2>3. QED
    BY <2>1, <2>2
<1>10. \A i \in DOMAIN e.out : \E k \in DOMAIN mid : e.out[i] = mid[k]
  BY <1>7 DEF Range
<1>11. \A k \in DOMAIN mid : \E i \in DOMAIN e.out : e.out[i] = mid[k]
  BY <1>7 DEF Range
<1>12. ASSUME NEW i \in DOMAIN e.out
       PROVE  <<e.out[i]>> = found \/ \E k \in DOMAIN d.out : e.out[i] = d.out[k]
  BY <1>1, <1>10
<1>13. Found(d) \subseteq Found(e)
  <2>1. ASSUME NEW k \in DOMAIN d.out PROVE d.out[k].id \in Found(e)
    <3>1. PICK i \in DOMAIN e.out : e.out[i] = d.out[k]
      BY <1>1, <1>11
    <3>2. QED
      BY <3>1 DEF Found
  <2>2. QED
    BY <2>1 DEF Found
<1>14. Found(e) \subseteq Found(d) \cup {id}
  <2>1. ASSUME NEW i \in DOMAIN e.out PROVE e.out[i].id \in Found(d) \cup {id}
    BY <1>3, <1>12 DEF Found
  <2>2. QED
    BY <2>1 DEF Found
<1>15. found # <<>> => id \in Found(e)
  <2>1. SUFFICES ASSUME found # <<>> PROVE id \in Found(e)
    OBVIOUS
  <2>2. PICK k \in DOMAIN mid : found = <<mid[k]>>
    BY <1>1, <2>1
  <2>3. PICK i \in DOMAIN e.out : e.out[i] = mid[k]
    BY <1>11
  <2>4. e.out[i].id = id
    BY <1>3, <2>2, <2>3
  <2>5. QED
    BY <2>4 DEF Found
<1>16. QED
  BY <1>7, <1>8, <1>9, <1>12, <1>13, <1>14, <1>15 DEF GrowTo

(* After the answer the discovery is as before.                            *)
LEMMA ListedOK ==
    ASSUME NEW d, NEW mine, NEW h \in DOMAIN Chain, DiscOK(d, mine, h), d.stage = "ids",
           NEW id, <<Discovery, "id", id>> \in mine,
           NEW found, NEW lost, Answer(d, h, id, found, lost)
    PROVE  DiscOK(AfterListed(d, mine, id, found, lost),
                  (mine \ {<<Discovery, "id", id>>}) \cup NextId(d.rest), h)
<1> DEFINE c == <<Discovery, "id", id>>
           e == AfterListed(d, mine, id, found, lost)
           new == (mine \ {c}) \cup NextId(d.rest)
           g == AtOf(d.tip, h)
           final == d.rest = <<>> /\ mine = {c}
<1>1. /\ d \in Discover /\ TimeShape(d, h) /\ ById(mine)
      /\ DistinctIds(d.out) /\ OnceEach(d.rest, Asked(mine)) /\ Found(d) \cap Pending(d, mine) = {}
      /\ Pending(d, mine) \subseteq DOMAIN Chain[g].listed
  BY DEF DiscOK, DiscAsks, Distinct, PendingOK
<1>2. d.rest \in Seq(Nat \ {0}) /\ d.out \in Seq(Listing) /\ d.lost \in SUBSET (Nat \ {0}) /\ d.tip \in Nat /\ d.from \in Nat
  BY <1>1 DEF Discover
<1>3. g \in DOMAIN Chain /\ g \in SpanOf(d, h)
  BY <1>1, ReadInSpan
<1>4. id \in Pending(d, mine) /\ id \in DOMAIN Chain[g].listed /\ id \in Asked(mine)
  <2>1. c[3] = id
    OBVIOUS
  <2>2. id \in Asked(mine)
    BY <2>1 DEF Asked
  <2>3. QED
    BY <1>1, <2>2 DEF Pending
<1>5. id \in Nat \ {0} /\ (Is(id, g) = <<>> \/ \E r \in Listing : Is(id, g) = <<r>> /\ r.id = id)
  BY <1>3, <1>4, Decoded
<1>6. found = <<>> \/ \E r \in Listing : found = <<r>> /\ r.id = id
  BY <1>5 DEF Answer
<1>7. /\ ById(new) /\ OnceEach(Rest(d.rest), Asked(new)) /\ Rest(d.rest) \in Seq(Nat \ {0})
      /\ Asked(new) \cup Range(Rest(d.rest)) = Pending(d, mine) \ {id}
      /\ final => new = {}
  <2>1. new = (mine \ {c}) \cup NextId(d.rest)
    OBVIOUS
  <2> HIDE DEF new
  <2>2. IdDone(d.rest, mine, id, new)
    BY <1>1, <1>2, <2>1, IdsMove
  <2>3. QED
    BY <2>2 DEF Pending, IdDone
<1>8. /\ DOMAIN e = {"stage", "tip", "from", "rest", "out", "lost"} /\ e = [x \in DOMAIN e |-> e[x]]
      /\ e.stage = (IF final THEN "done" ELSE "ids") /\ e.rest = Rest(d.rest)
      /\ e.tip = d.tip /\ e.from = d.from /\ e.lost = d.lost \cup lost
      /\ e.out = (IF final THEN SortedById(d.out \o found) ELSE d.out \o found)
  BY <1>1 DEF AfterListed, Discover
<1>9. final \in BOOLEAN /\ (final => Rest(d.rest) = <<>>) /\ id \notin Found(d)
  BY <1>1, <1>4 DEF Rest
<1>10. lost \in SUBSET (Nat \ {0}) /\ (lost = {id} \/ found = Is(id, g))
  BY <1>5 DEF Answer
<1> HIDE DEF e, new, g, final
<1>11. GrowTo(d, e, found, id)
  BY <1>1, <1>2, <1>6, <1>8, <1>9, OutGrows
<1>12. Pending(e, new) = Pending(d, mine) \ {id}
  BY <1>7, <1>8 DEF Pending
<1>13. Distinct(e, new)
  BY <1>1, <1>7, <1>8, <1>11, <1>12 DEF Distinct, GrowTo
<1>14. TimeShape(e, h) /\ SpanOf(e, h) = SpanOf(d, h) /\ AtOf(e.tip, h) = g
  BY <1>1, <1>8 DEF TimeShape, SpanOf, g
<1>15. PendingOK(e, new, h)
  BY <1>1, <1>12, <1>14 DEF PendingOK
<1>16. FoundOK(e, h)
  <2>1. SUFFICES ASSUME NEW i \in DOMAIN e.out
                 PROVE  \E k \in SpanOf(d, h) : /\ e.out[i].id \in DOMAIN Chain[k].listed
                                                /\ <<e.out[i]>> = Is(e.out[i].id, k)
    BY <1>14 DEF FoundOK
  <2>2. CASE \E k \in DOMAIN d.out : e.out[i] = d.out[k]
    BY <2>2 DEF DiscOK, FoundOK
  <2>3. CASE <<e.out[i]>> = found
    <3>1. e.out[i].id = id /\ found # <<>>
      BY <1>6, <2>3
    <3>2. found = Is(id, g)
      BY <3>1 DEF Answer, g
    <3>3. QED
      BY <1>3, <1>4, <2>3, <3>1, <3>2
  <2>4. QED
    BY <1>11, <2>2, <2>3 DEF GrowTo
<1>17. MissedOK(e, new, h)
  <2>1. PICK k \in SpanOf(d, h) : \A i \in DOMAIN Chain[k].listed :
            i \in Found(d) \cup d.lost \cup Pending(d, mine) \/ Undecodable(d, h, i)
    BY DEF DiscOK, MissedOK
  <2>2. ASSUME NEW i \in DOMAIN Chain[k].listed
        PROVE  i \in Found(e) \cup e.lost \cup Pending(e, new) \/ Undecodable(e, h, i)
    <3>1. CASE i = id
      <4>1. CASE found # <<>>
        BY <1>11, <3>1, <4>1 DEF GrowTo
      <4>2. CASE lost = {id}
        BY <1>8, <3>1, <4>2
      <4>3. CASE found = <<>> /\ found = Is(id, g)
        BY <1>3, <1>4, <1>14, <3>1, <4>3 DEF Undecodable
      <4>4. QED
        BY <1>10, <4>1, <4>2, <4>3
    <3>2. CASE i # id
      <4>1. CASE i \in Found(d)
        BY <1>11, <4>1 DEF GrowTo
      <4>2. CASE i \in d.lost
        BY <1>8, <4>2
      <4>3. CASE i \in Pending(d, mine)
        BY <1>12, <3>2, <4>3
      <4>4. CASE Undecodable(d, h, i)
        BY <1>14, <4>4 DEF Undecodable
      <4>5. QED
        BY <2>1, <4>1, <4>2, <4>3, <4>4
    <3>3. QED
      BY <3>1, <3>2
  <2>3. QED
    BY <1>14, <2>2 DEF MissedOK
<1>18. SortedOK(e) /\ DiscAsks(e, new)
  BY <1>7, <1>8, <1>9, <1>11 DEF SortedOK, DiscAsks, GrowTo
<1>19. e \in Discover
  <2>1. e.stage \in {"ids", "done"} /\ e.lost \in SUBSET (Nat \ {0}) /\ e.out \in Seq(Listing)
    BY <1>2, <1>8, <1>10, <1>11 DEF GrowTo
  <2>2. QED
    BY <1>2, <1>7, <1>8, <2>1 DEF Discover
<1>20. DiscOK(e, new, h)
  BY <1>13, <1>14, <1>15, <1>16, <1>17, <1>18, <1>19 DEF DiscOK
<1>21. QED
  BY <1>20 DEF e, new

(* The request for an id is over: answered or failed for good.             *)
LEMMA ListedStep ==
    ASSUME BootInv, NEW id, <<Discovery, "id", id>> \in DOMAIN call,
           NEW found, NEW lost, Answer(disc, head, id, found, lost), Listed(id, found, lost)
    PROVE  BootInv'
<1> DEFINE c == <<Discovery, "id", id>>
           mine == Of(Discovery)
<1>1. c[1] = Discovery /\ c[2] = "id"
  OBVIOUS
<1>2. /\ DiscOK(disc, mine, head) /\ head \in DOMAIN Chain /\ disc.stage = "ids" /\ c \in mine
  BY <1>1, DiscoveryRequest
<1>3. DiscOK(AfterListed(disc, mine, id, found, lost), (mine \ {c}) \cup NextId(disc.rest), head)
  BY <1>2, ListedOK
<1>4. disc' = AfterListed(disc, mine, id, found, lost)
  BY <1>1 DEF Listed, Final, AfterListed
<1>5. call' = Opened(Closed({c}), NextId(disc.rest)) /\ head' = head /\ cache' = cache /\ fetch' = fetch
  BY <1>1 DEF Listed, NextFor, NextId
<1>6. \A a \in {c} \cup NextId(disc.rest) : a[1] = Discovery
  BY <1>1 DEF NextId
<1> HIDE DEF c
<1>7. QED
  BY <1>3, <1>4, <1>5, <1>6, DiscoveryMoves

(* A request of the discovery failed for good.                             *)
LEMMA FailDiscoveryStep ==
    ASSUME BootInv, NEW c \in DOMAIN call, c[1] = Discovery, FailDiscovery(c)
    PROVE  BootInv'
<1>1. c \in Of(Discovery) /\ DiscOK(disc, Of(Discovery), head)
  BY DiscoveryRequest
<1>2. CASE c[2] = "last"
  <2>1. Of(Discovery) \ {c} = {} /\ disc.stage = "last" /\ disc.out = <<>>
    BY <1>1, <1>2, DiscoveryRequest DEF DiscOK, DiscAsks
  <2>2. /\ disc' = [disc EXCEPT !.stage = "failed"] /\ call' = Opened(Closed({c}), {})
        /\ head' = head /\ cache' = cache /\ fetch' = fetch
    BY <1>2, OnlyClosed DEF FailDiscovery
  <2>3. /\ disc' \in Discover /\ disc'.stage = "failed" /\ disc'.tip = disc.tip /\ disc'.from = disc.from
        /\ disc'.out = <<>> /\ disc'.rest = disc.rest
    BY <1>1, <2>1, <2>2 DEF DiscOK, Discover
  <2>4. Distinct(disc', {})
    BY <1>1, <2>1, <2>3 DEF DiscOK, Distinct, DistinctIds, OnceEach, Found, Asked, Pending
  <2>5. DiscOK(disc', {}, head)
    BY <1>1, <2>3, <2>4
       DEF DiscOK, DiscAsks, PendingOK, FoundOK, MissedOK, SortedOK, TimeShape
  <2>6. DiscOK(disc', (Of(Discovery) \ {c}) \cup {}, head)
    BY <2>1, <2>5, Zenon
  <2>7. QED
    BY <2>2, <2>6, DiscoveryMoves
<1>3. CASE c[2] = "id" /\ Listed(c[3], <<>>, {c[3]})
  <2>1. c = <<Discovery, "id", c[3]>>
    BY <1>3, DiscoveryRequest
  <2>2. Answer(disc, head, c[3], <<>>, {c[3]})
    BY DEF Answer
  <2>3. QED
    BY <1>3, <2>1, <2>2, ListedStep
<1>4. QED
  BY <1>2, <1>3 DEF FailDiscovery

(* The chain grows: what was seen at a block still was.                    *)
LEMMA LaterDiscOK ==
    ASSUME NEW d, NEW mine, NEW h \in DOMAIN Chain, NEW g \in DOMAIN Chain, h <= g, DiscOK(d, mine, h)
    PROVE  DiscOK(d, mine, g)
<1>1. SpanOf(d, h) \subseteq SpanOf(d, g) /\ TimeShape(d, g)
  BY ChainTypes DEF DiscOK, TimeShape, SpanOf
<1>2. PendingOK(d, mine, g)
  <2>1. DOMAIN Chain[AtOf(d.tip, h)].listed \subseteq DOMAIN Chain[AtOf(d.tip, g)].listed
    BY ListGrows DEF AtOf
  <2>2. QED
    BY <2>1 DEF DiscOK, PendingOK
<1>3. FoundOK(d, g)
  BY <1>1 DEF DiscOK, FoundOK
<1>4. MissedOK(d, mine, g)
  <2>1. \A id : Undecodable(d, h, id) => Undecodable(d, g, id)
    BY <1>1 DEF Undecodable
  <2>2. QED
    BY <1>1, <2>1 DEF DiscOK, MissedOK
<1>5. QED
  BY <1>1, <1>2, <1>3, <1>4 DEF DiscOK

(* A new block.                                                            *)
LEMMA NewBlockStep == ASSUME BootInv, NewBlock PROVE BootInv'
<1>1. /\ head \in DOMAIN Chain /\ head' \in DOMAIN Chain /\ head <= head'
      /\ cache' = cache /\ call' = call /\ fetch' = fetch /\ disc' = disc
  BY ChainTypes DEF BootInv, NewBlock
<1>2. CacheOK' /\ CallsOK' /\ \A j : Of(j)' = Of(j)
  BY <1>1 DEF BootInv, CacheOK, CallsOK, Of
<1>3. ASSUME NEW p \in Pool PROVE FetchOK(p, fetch[p], Of(p), head)'
  <2>1. FetchOK(p, fetch[p], Of(p), head')
    BY <1>1, LaterFetchOK DEF BootInv
  <2>2. QED
    BY <1>1, <1>2, <2>1
<1>4. DiscOK(disc, Of(Discovery), head)'
  <2>1. DiscOK(disc, Of(Discovery), head')
    BY <1>1, LaterDiscOK DEF BootInv
  <2>2. QED
    BY <1>1, <1>2, <2>1
<1>5. QED
  BY <1>1, <1>2, <1>3, <1>4 DEF BootInv

(* A step that leaves the jobs and the open requests alone: a rate limit.  *)
LEMMA QuietStep ==
    ASSUME BootInv, DOMAIN call' = DOMAIN call, call' \in [DOMAIN call -> 0 .. MaxRetries],
           UNCHANGED <<head, cache, fetch, disc>>
    PROVE  BootInv'
<1>1. CacheOK' /\ CallsOK' /\ \A j : Of(j)' = Of(j)
  BY DEF BootInv, CacheOK, CallsOK, Of
<1>2. ASSUME NEW p \in Pool PROVE FetchOK(p, fetch[p], Of(p), head)'
  BY <1>1 DEF BootInv
<1>3. DiscOK(disc, Of(Discovery), head)'
  BY <1>1 DEF BootInv
<1>4. QED
  BY <1>1, <1>2, <1>3 DEF BootInv

(* A request that is rate limited is sent again, at most max_retries       *)
(* times.                                                                  *)
LEMMA LimitedStep == ASSUME BootInv, NEW c \in DOMAIN call, Limited(c) PROVE BootInv'
<1>1. call[c] \in 0 .. MaxRetries /\ call[c] < MaxRetries /\ MaxRetries \in Nat
  BY BootAssumption DEF BootInv, CallsOK, Limited, Retriable
<1>2. call' = [call EXCEPT ![c] = @ + 1] /\ call \in [DOMAIN call -> 0 .. MaxRetries]
  BY DEF BootInv, CallsOK, Limited
<1>3. DOMAIN call' = DOMAIN call /\ call' \in [DOMAIN call -> 0 .. MaxRetries]
  BY <1>1, <1>2
<1>4. QED
  BY <1>3, QuietStep DEF Limited

-----------------------------------------------------------------------------
(* The invariant holds at the start.                                       *)
LEMMA InitBootInv == ASSUME Init PROVE BootInv
<1>1. head \in DOMAIN Chain /\ head = 1
  BY ChainTypes DEF Init
<1>2. CacheOK /\ CallsOK /\ \A j : Of(j) = {}
  BY DEF Init, CacheOK, CallsOK, Of
<1>3. DOMAIN fetch = Pool
  BY DEF Init
<1>4. ASSUME NEW p \in Pool PROVE FetchOK(p, fetch[p], Of(p), head)
  <2>1. fetch[p] = [stage |-> "idle", tip |-> None, from |-> 1, active |-> 0,
                    got |-> <<>>, rest |-> <<>>, held |-> <<>>, lost |-> {}, cut |-> {}]
    BY DEF Init
  <2>2. 0 \in Bin
    BY BootAssumption DEF Bin
  <2>3. FetchShape(p, fetch[p], head)
    BY <1>1, <2>1, <2>2 DEF FetchShape, FetchFields, TimeShape, BinShape
  <2>4. QED
    BY <1>2, <2>1, <2>3 DEF FetchOK, FetchAsks, TablesOK, ActiveOK, HeldOK, BinsOK
<1>5. DiscOK(disc, Of(Discovery), head)
  <2>1. disc = [stage |-> "idle", tip |-> None, from |-> 1, rest |-> <<>>, out |-> <<>>, lost |-> {}]
    BY DEF Init
  <2>2. disc \in Discover /\ TimeShape(disc, head)
    BY <1>1, <2>1 DEF Discover, TimeShape, None
  <2>3. Distinct(disc, {})
    BY <2>1 DEF Distinct, DistinctIds, OnceEach, Found, Asked, Pending, Range
  <2>4. DiscOK(disc, {}, head)
    BY <2>1, <2>2, <2>3 DEF DiscOK, DiscAsks, PendingOK, FoundOK, MissedOK, SortedOK
  <2>5. QED
    BY <1>2, <2>4, Zenon
<1>6. QED
  BY <1>1, <1>2, <1>3, <1>4, <1>5 DEF BootInv

(* What comes of an open request keeps the invariant.                      *)
LEMMA AnsweredStep ==
    ASSUME BootInv, NEW c \in DOMAIN call, Answered(c)
    PROVE  BootInv'
<1>1. c[1] \in Pool \/ c[1] = Discovery
  BY DEF BootInv, CallsOK, Job
<1>2. CASE c[1] \in Pool
  <2> DEFINE p == c[1]
  <2>1. \/ c = <<p, "get-pool", None>> /\ c[2] = "get-pool"
        \/ c[2] = "table" /\ c = <<p, "table", c[3]>>
        \/ c[2] = "bins" /\ c = <<p, "bins", c[3]>>
    BY <1>2, FetchRequest
  <2> HIDE DEF p
  <2>2. CASE c[2] = "get-pool" /\ GotPool(c[1])
    BY <1>2, <2>1, <2>2, GotPoolStep DEF p
  <2>3. CASE c[2] = "table" /\ GotTable(c[1], c[3])
    BY <1>2, <2>1, <2>3, GotTableStep DEF p
  <2>4. ASSUME c[2] = "bins", NEW short \in Cuts, GotBins(c[1], c[3], short) PROVE BootInv'
    <3>1. short \in Nat
      BY BootAssumption
    <3>2. QED
      BY <1>2, <2>1, <2>4, <3>1, GotBinsStep DEF p
  <2>5. c[2] # "last" /\ c[2] # "id"
    BY <2>1
  <2>6. QED
    BY <2>2, <2>3, <2>4, <2>5 DEF Answered
<1>3. CASE c[1] = Discovery
  <2>1. \/ disc.stage = "last" /\ c = <<Discovery, "last", None>> /\ c[2] = "last"
        \/ disc.stage = "ids" /\ c = <<Discovery, "id", c[3]>> /\ c[2] = "id"
    BY <1>3, DiscoveryRequest
  <2>2. CASE c[2] = "last" /\ GotLast
    BY <2>1, <2>2, GotLastStep
  <2>3. CASE c[2] = "id" /\ GotListing(c[3])
    <3> DEFINE id == c[3]
               found == decode_listing(id, Chain[At(disc.tip)].listed[id])
    <3>1. <<Discovery, "id", id>> \in DOMAIN call /\ Listed(id, found, {})
      BY <2>1, <2>3 DEF GotListing
    <3>2. Answer(disc, head, id, found, {})
      BY DEF Answer, Is, AtOf, At
    <3> HIDE DEF id, found
    <3>3. QED
      BY <3>1, <3>2, ListedStep
  <2>4. c[2] # "get-pool" /\ c[2] # "table" /\ c[2] # "bins"
    BY <2>1
  <2>5. QED
    BY <2>2, <2>3, <2>4 DEF Answered
<1>4. QED
  BY <1>1, <1>2, <1>3

(* What comes of a request that fails for good keeps the invariant.        *)
LEMMA FailedStep ==
    ASSUME BootInv, NEW c \in DOMAIN call, Failed(c)
    PROVE  BootInv'
<1>1. c[1] \in Pool \/ c[1] = Discovery
  BY DEF BootInv, CallsOK, Job
<1>2. CASE c[1] = Discovery
  BY <1>2, FailDiscoveryStep DEF Failed
<1>3. CASE c[1] \in Pool
  <2>1. FailFetch(c[1], c)
    BY <1>3, BootAssumption DEF Failed
  <2>2. QED
    BY <1>3, <2>1, FailFetchStep
<1>4. QED
  BY <1>1, <1>2, <1>3

(* Every step keeps the invariant.                                         *)
LEMMA BootStep == ASSUME BootInv, [Next]_vars PROVE BootInv'
<1>1. CASE NewBlock
  BY <1>1, NewBlockStep
<1>2. ASSUME NEW p \in Pool, NEW tip \in {None} \cup 1 .. head, fetch_dlmm_pool(p, tip) PROVE BootInv'
  BY <1>2, BeginStep
<1>3. ASSUME NEW tip \in {None} \cup 1 .. head, discover_dlmm_pools(tip) PROVE BootInv'
  BY <1>3, DiscoverStep
<1>4. ASSUME NEW c \in DOMAIN call, call_read(c) PROVE BootInv'
  <2>1. CASE Limited(c)
    BY <2>1, LimitedStep
  <2>2. CASE Answered(c)
    BY <2>2, AnsweredStep
  <2>3. CASE Failed(c)
    BY <2>3, FailedStep
  <2>4. QED
    BY <1>4, <2>1, <2>2, <2>3 DEF call_read
<1>5. CASE UNCHANGED vars
  <2>1. call' = call /\ UNCHANGED <<head, cache, fetch, disc>>
    BY <1>5 DEF vars
  <2>2. call \in [DOMAIN call -> 0 .. MaxRetries]
    BY DEF BootInv, CallsOK
  <2>3. DOMAIN call' = DOMAIN call /\ call' \in [DOMAIN call -> 0 .. MaxRetries]
    BY <2>1, <2>2
  <2>4. QED
    BY <2>1, <2>3, QuietStep
<1>6. QED
  BY <1>1, <1>2, <1>3, <1>4, <1>5 DEF Next

(* The invariant holds in every state.                                     *)
LEMMA BootInvAlways == Spec => []BootInv
<1>1. Init => BootInv
  BY InitBootInv
<1>2. BootInv /\ [Next]_vars => BootInv'
  BY BootStep
<1>3. QED
  BY <1>1, <1>2, PTL DEF Spec

-----------------------------------------------------------------------------
(* The open requests are some the program can make.                        *)
LEMMA OnlyRequestable == ASSUME BootInv PROVE DOMAIN call \subseteq Requestable
<1> DEFINE pools == Pool \X {"get-pool"} \X {None}
           tables == UNION {{p} \X {"table"} \X Tables(p) : p \in Pool}
           bins == Pool \X {"bins"} \X BinLists
           ids == {<<Discovery, "id", i>> : i \in DOMAIN Chain[Len(Chain)].listed}
<1>0. Requestable = pools \cup tables \cup bins \cup {<<Discovery, "last", None>>} \cup ids
  BY DEF Requestable, BinLists
<1>1. SUFFICES ASSUME NEW c \in DOMAIN call PROVE c \in Requestable
  OBVIOUS
<1>2. CASE c[1] \in Pool
  <2>1. PICK p \in Pool : p = c[1]
    BY <1>2
  <2>2. \/ c = <<p, "get-pool", None>>
        \/ c = <<p, "table", c[3]>> /\ c[3] \in Tables(p)
        \/ c = <<p, "bins", c[3]>> /\ c[3] \in BinLists
    BY <2>1, FetchRequest
  <2>3. CASE c = <<p, "get-pool", None>>
    <3>1. c \in pools
      BY <2>3
    <3> HIDE DEF pools, tables, bins, ids
    <3>2. QED
      BY <1>0, <3>1
  <2>4. CASE c = <<p, "table", c[3]>> /\ c[3] \in Tables(p)
    <3>1. c \in {p} \X {"table"} \X Tables(p)
      BY <2>4
    <3>2. c \in tables
      BY <3>1
    <3> HIDE DEF pools, tables, bins, ids
    <3>3. QED
      BY <1>0, <3>2
  <2>5. CASE c = <<p, "bins", c[3]>> /\ c[3] \in BinLists
    <3>1. c \in bins
      BY <2>5
    <3> HIDE DEF pools, tables, bins, ids
    <3>2. QED
      BY <1>0, <3>1
  <2>6. QED
    BY <2>2, <2>3, <2>4, <2>5
<1>3. CASE c[1] = Discovery
  <2>1. /\ c \in Of(Discovery) /\ DiscOK(disc, Of(Discovery), head) /\ head \in DOMAIN Chain
        /\ \/ c = <<Discovery, "last", None>>
           \/ disc.stage = "ids" /\ c = <<Discovery, "id", c[3]>>
    BY <1>3, DiscoveryRequest
  <2>2. CASE c = <<Discovery, "last", None>>
    <3> HIDE DEF pools, tables, bins, ids
    <3>1. QED
      BY <1>0, <2>2
  <2>3. CASE disc.stage = "ids" /\ c = <<Discovery, "id", c[3]>>
    <3> DEFINE g == AtOf(disc.tip, head)
    <3>1. c[3] \in Pending(disc, Of(Discovery))
      BY <2>1 DEF Pending, Asked
    <3>2. c[3] \in DOMAIN Chain[g].listed
      BY <2>1, <2>3, <3>1 DEF DiscOK, PendingOK
    <3>3. g \in DOMAIN Chain /\ Len(Chain) \in DOMAIN Chain /\ g <= Len(Chain)
      BY <2>1, ReadInSpan, ChainTypes DEF DiscOK
    <3> HIDE DEF g
    <3>4. c[3] \in DOMAIN Chain[Len(Chain)].listed
      BY <3>2, <3>3, ListGrows
    <3>5. c \in ids
      BY <2>3, <3>4
    <3> HIDE DEF pools, tables, bins, ids
    <3>6. QED
      BY <1>0, <3>5
  <2>4. QED
    BY <2>1, <2>2, <2>3
<1>4. QED
  BY <1>2, <1>3 DEF BootInv, CallsOK, Job

(* The types follow from the invariant.                                    *)
LEMMA BootTypes == ASSUME BootInv PROVE BootTypeOK
<1>1. /\ head \in DOMAIN Chain /\ DOMAIN cache \subseteq Table /\ DOMAIN fetch = Pool
      /\ call \in [DOMAIN call -> 0 .. MaxRetries] /\ DOMAIN call \subseteq Requestable
  BY OnlyRequestable DEF BootInv, CacheOK, CallsOK
<1>2. disc \in Discover
  BY DEF BootInv, DiscOK
<1>3. ASSUME NEW p \in Pool
      PROVE  /\ DOMAIN fetch[p] = {"stage", "tip", "from", "active", "got", "rest", "held", "lost", "cut"}
             /\ fetch[p].stage \in {"idle", "config", "tables", "bins", "done", "failed"}
             /\ fetch[p].tip \in {None} \cup DOMAIN Chain /\ fetch[p].from \in 1 .. head
             /\ fetch[p].active \in Bin /\ DOMAIN fetch[p].got \subseteq Tables(p) \cap Table
             /\ fetch[p].rest \in Seq(Seq(Id)) /\ fetch[p].lost \subseteq Bin /\ fetch[p].cut \subseteq Bin
             /\ DOMAIN fetch[p].held \subseteq Bin /\ fetch[p].held \in [DOMAIN fetch[p].held -> Balance]
  <2>1. FetchShape(p, fetch[p], head)
    BY DEF BootInv, FetchOK
  <2>2. \A ids \in BinLists : ids \in Seq(Id)
    BY BinListTypes
  <2>3. fetch[p].rest \in Seq(Seq(Id))
    <3>1. fetch[p].rest \in Seq(BinLists)
      BY <2>1 DEF FetchShape, BinShape
    <3>2. BinLists \subseteq Seq(Id)
      BY <2>2
    <3>3. QED
      BY <3>1, <3>2
  <2>4. QED
    BY <2>1, <2>3 DEF FetchShape, FetchFields, TimeShape, BinShape
<1>4. QED
  BY <1>1, <1>2, <1>3 DEF BootTypeOK

(* The state is well typed, no request is retried more than max_retries    *)
(* times and none asks for a bin outside the range, for any pools, modes,  *)
(* parallelism and chain (rpc/client.rs, dlmm/fetcher.rs, discovery.rs).   *)
THEOREM BootTypesCorrect == Spec => []BootTypeOK
BY BootInvAlways, BootTypes, PTL

(* What a fetched pool holds was on chain, at the pinned block or at one   *)
(* of the fetch (multicall.rs, fetcher.rs: answers are placed by bin).     *)
THEOREM FetchedIsOnChain == Spec => []HeldOnChain
<1>1. ASSUME BootInv PROVE HeldOnChain
  <2>1. ASSUME NEW p \in Pool PROVE ActiveOK(p, fetch[p], head) /\ HeldOK(p, fetch[p], head)
    BY <1>1 DEF BootInv, FetchOK
  <2>2. \A p \in Pool : SpanOf(fetch[p], head) = Span(fetch[p])
    BY DEF SpanOf, Span
  <2>3. QED
    BY <2>1, <2>2 DEF HeldOnChain, ActiveOK, HeldOK, Done
<1>2. QED
  BY <1>1, BootInvAlways, PTL

(* No bin the mode is for that held something all the time is missing but  *)
(* those whose request failed or the helper left out (fetcher.rs,          *)
(* multicall.rs), for every radius below 2^31 - 500: such a range does not *)
(* wrap, and when no request is left no bin of it is awaited.              *)
THEOREM NoBinDropped == Spec => []NoneDropped
<1>1. ASSUME BootInv PROVE NoneDropped
  <2>1. SUFFICES ASSUME NEW p \in Done, Fits(p), NEW b \in Within(p, fetch[p].active)
                 PROVE  \/ b \in DOMAIN fetch[p].held
                        \/ \E h \in Span(fetch[p]) : Empty(Chain[h].bal[p][b])
                        \/ b \in IF Mode[p] = "Full" THEN fetch[p].cut ELSE fetch[p].lost
    BY DEF NoneDropped
  <2>2. p \in Pool /\ fetch[p].stage = "done" /\ FetchOK(p, fetch[p], Of(p), head)
    BY <1>1 DEF Done, BootInv
  <2>3. Of(p) = {} /\ fetch[p].rest = <<>>
    BY <2>2 DEF FetchOK, FetchAsks
  <2>4. ~Awaited(fetch[p], Of(p), b)
    BY <2>3 DEF Awaited
  <2>5. Seen(p, fetch[p], head, b)
    <3>1. b \in Lo(p, fetch[p].active) .. Hi(p, fetch[p].active)
      BY <2>1, <2>2, RangeIsWithin DEF FetchOK, FetchShape
    <3>2. QED
      BY <2>2, <2>4, <3>1 DEF FetchOK, BinsOK
  <2>6. SpanOf(fetch[p], head) = Span(fetch[p])
    BY DEF SpanOf, Span
  <2>7. QED
    BY <2>5, <2>6 DEF Seen, Given_up
<1>2. QED
  BY <1>1, BootInvAlways, PTL

(* The tables of a fetched pool are its own, whoever cached them           *)
(* (factor.rs: GLOBAL, token_info.rs: cache).                              *)
THEOREM FetchedOwnTables == Spec => []OwnTables
<1>1. ASSUME BootInv PROVE OwnTables
  <2>1. ASSUME NEW p \in Done PROVE fetch[p].got = [k \in Tables(p) |-> Given[k]]
    <3>1. p \in Pool /\ fetch[p].stage = "done" /\ TablesOK(p, fetch[p])
      BY <1>1 DEF Done, BootInv, FetchOK
    <3>2. QED
      BY <3>1 DEF TablesOK
  <2>2. QED
    BY <2>1 DEF OwnTables
<1>2. QED
  BY <1>1, BootInvAlways, PTL

(* A discovery answers with listings of the registry, in the order of      *)
(* their ids and each once, and misses no listing by itself (discovery.rs).*)
THEOREM DiscoveredIsListed == Spec => []ListingsOfRegistry
<1>1. ASSUME BootInv PROVE ListingsOfRegistry
  <2>1. DiscOK(disc, Of(Discovery), head)
    BY <1>1 DEF BootInv
  <2>2. SpanOf(disc, head) = Span(disc)
    BY DEF SpanOf, Span
  <2>3. ASSUME disc.stage = "done"
        PROVE  /\ \A i, j \in DOMAIN disc.out : i < j => disc.out[i].id < disc.out[j].id
               /\ \A i \in DOMAIN disc.out : \E h \in Span(disc) :
                     /\ disc.out[i].id \in DOMAIN Chain[h].listed
                     /\ <<disc.out[i]>> = Is(disc.out[i].id, h)
               /\ \E h \in Span(disc) : \A id \in DOMAIN Chain[h].listed \ (Found(disc) \cup disc.lost) :
                     \E g \in Span(disc) : id \in DOMAIN Chain[g].listed /\ Is(id, g) = <<>>
    <3>1. disc.rest = <<>> /\ Of(Discovery) = {}
      BY <2>1, <2>3 DEF DiscOK, SortedOK, DiscAsks
    <3>2. Pending(disc, Of(Discovery)) = {}
      BY <3>1 DEF Pending, Asked, Range
    <3>3. \A i, j \in DOMAIN disc.out : i < j => disc.out[i].id < disc.out[j].id
      BY <2>1, <2>3 DEF DiscOK, SortedOK
    <3>4. FoundOK(disc, head) /\ MissedOK(disc, Of(Discovery), head)
      BY <2>1 DEF DiscOK
    <3>5. PICK h \in Span(disc) : \A id \in DOMAIN Chain[h].listed :
              id \in Found(disc) \cup disc.lost \/ Undecodable(disc, head, id)
      BY <2>2, <2>3, <3>2, <3>4 DEF MissedOK
    <3>6. \A id \in DOMAIN Chain[h].listed \ (Found(disc) \cup disc.lost) :
              \E g \in Span(disc) : id \in DOMAIN Chain[g].listed /\ Is(id, g) = <<>>
      BY <2>2, <3>5 DEF Undecodable
    <3>7. QED
      BY <2>2, <3>3, <3>4, <3>6 DEF FoundOK
  <2>4. QED
    BY <2>3 DEF ListingsOfRegistry, Found, Is
<1>2. QED
  BY <1>1, BootInvAlways, PTL
=============================================================================
