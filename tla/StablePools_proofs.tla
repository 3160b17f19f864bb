------------------------- MODULE StablePools_proofs -------------------------
(***************************************************************************)
(* Proofs about StablePools for any pools, amounts, curves and bounds:     *)
(* types, that a mirror's parts are its own pool's -- its reserves unless  *)
(* the pool's lock is contended -- and that a mirror which is up to date   *)
(* quotes on the terms its contract pays on.                               *)
(***************************************************************************)
EXTENDS StablePools, FiniteSetTheorems, SequenceTheorems, TLAPS

(* An event is told by the pool's own contract, a midpoint by its core;    *)
(* the fixed parts of a pool stay what they are.                           *)
Told ==
    \A i \in DOMAIN ledger :
        LET e == ledger[i]
        IN  /\ e.from = IF e.act = "midpoint" THEN Core[e.pool] ELSE e.pool
            /\ e.act = "midpoint" => e.pool \in V2Pool \ Bare

Shaped(p, st) ==
    /\ \A s \in Side : DOMAIN st.fee[s] = PartNames(p)
    /\ TwoTuples(p) \/ st.fee[1] = st.fee[2]
    /\ p \in V2Pool \ Bare \/ st.mid = <<1, 1>>
    /\ p \in Bare => st.on

Shapes ==
    /\ \A p \in Pool : Shaped(p, chain[p])
    /\ \A i \in DOMAIN ledger : Shaped(ledger[i].pool, ledger[i].st)

(* There is a last change among the first n, so that StateAt is defined.   *)
HasLast ==
    \A p \in Pool, n \in 0 .. Len(ledger) :
        Changes(p, n) # {} => \E i \in Changes(p, n) : \A j \in Changes(p, n) : j <= i

(* What no change of a kind has touched since is as it was then.           *)
Quiet(p, n, act) == \A i \in Changes(p, Len(ledger)) : ledger[i].act = act => i <= n

KeptSince ==
    \A p \in Pool, n \in 0 .. Len(ledger) :
        /\ Quiet(p, n, "balances") => StateAt(p, n).bal = chain[p].bal
        /\ Quiet(p, n, "midpoint") => StateAt(p, n).mid = chain[p].mid
        /\ Quiet(p, n, "silent") => StateAt(p, n).on = chain[p].on /\ StateAt(p, n).fee = chain[p].fee

ChainInv == Told /\ Shapes /\ HasLast /\ KeptSince

(* What is true of a mirror, and of a pool being read.                     *)
From(p, m, i) == IF i = 0 THEN StateAt(p, m.at) ELSE ledger[i].st

OwnPartsOf(p, m) ==
    /\ m.bi \in 0 .. Len(ledger) /\ (p \in Outsiders \/ Own(p, m.bi))
    /\ m.bal = From(p, m, m.bi).bal
    /\ Own(p, m.mi) /\ (p \in V2Pool => m.mid = From(p, m, m.mi).mid)
    /\ m.tx \in {m.bi, m.mi} /\ (m.tx = 0 <=> m.bi = 0 /\ m.mi = 0)
    /\ p \notin V2Pool => m.tx = 0

Fetched(p, m) ==
    /\ m.at \in 0 .. Len(ledger)
    /\ m.on = StateAt(p, m.at).on
    /\ IF p \in V2Pool
       THEN m.fee = [s \in Side |-> <<StateAt(p, m.at).fee[s]["protocol"],
                                      StateAt(p, m.at).fee[s]["provider"]>>]
       ELSE m.mid = <<1, 1>>

(* The fees of a V1 pool are read after its reserves, side by side.        *)
FeesRead(p, m, sides) ==
    p \notin V2Pool /\ Quiet(p, m.at, "silent") => \A s \in sides : m.fee[s] = Charged(p, s)

Unread(p) ==
    IF p \in V2Pool THEN {<<>>}
    ELSE IF p \in StxAnchored
    THEN {<<"convergence-threshold", "buy-fees", "sell-fees">>, <<"buy-fees", "sell-fees">>,
          <<"sell-fees">>, <<>>}
    ELSE {<<"convergence-threshold", "swap-fees">>, <<"swap-fees">>, <<>>}

SidesRead(p, left) ==
    IF left = <<>> THEN Side
    ELSE IF p \in StxAnchored /\ left = <<"sell-fees">> THEN {1} ELSE {}

ReadOk(p, f) ==
    /\ f.left \in Unread(p) /\ f.read \in Mirrored /\ f.read.tx = 0
    /\ OwnPartsOf(p, f.read) /\ Fetched(p, f.read) /\ FeesRead(p, f.read, SidesRead(p, f.left))

MirrorOk(p, m) == m \in Mirrored /\ OwnPartsOf(p, m) /\ Fetched(p, m) /\ FeesRead(p, m, Side)

ReadInv == \A p \in DOMAIN fetching : ReadOk(p, fetching[p])
MirrorInv == \A p \in Live : MirrorOk(p, mirror[p])

StableInv == StableTypeOK /\ ChainInv /\ ReadInv /\ MirrorInv
-----------------------------------------------------------------------------
(* The total of a tuple of fees, taken part by part in any order.          *)
SumsOver(f, g) ==
    [s \in SUBSET DOMAIN f |->
        IF s = {} THEN 0 ELSE f[CHOOSE x \in s : TRUE] + g[s \ {CHOOSE x \in s : TRUE}]]

(* Once one function meets the recursion of a fold, the fold is that of    *)
(* such a function.                                                        *)
LEMMA FoldIsASum ==
    ASSUME NEW f, NEW w, w = SumsOver(f, w)
    PROVE  \E g : g = SumsOver(f, g) /\ Total(f) = g[DOMAIN f]
<1> DEFINE iter == CHOOSE g : g = SumsOver(f, g)
<1>1. iter = SumsOver(f, iter)
  <2> HIDE DEF SumsOver
  <2>1. QED
    OBVIOUS
<1>2. Total(f) = iter[DOMAIN f]
  BY DEF Total, FoldFunction, FoldFunctionOnSet, MapThenFoldSet, SumsOver
<1>3. QED
  BY <1>1, <1>2

(* Fees of up to three parts: the parts of a set, absent ones as 0, meet   *)
(* that recursion.                                                         *)
PartsAmong(f, a, b, c) ==
    /\ a # b /\ b # c /\ a # c
    /\ DOMAIN f \subseteq {a, b, c} /\ \A x \in DOMAIN f : f[x] \in Nat

(* A function that meets the recursion of Total over three parts exists.   *)
LEMMA PartsMeetTheRecursion ==
    ASSUME NEW f, NEW a, NEW b, NEW c, PartsAmong(f, a, b, c)
    PROVE  \E w : w = SumsOver(f, w)
<1> USE DEF PartsAmong
<1> DEFINE in(x, s) == IF x \in s THEN f[x] ELSE 0
           w == [s \in SUBSET DOMAIN f |-> in(a, s) + in(b, s) + in(c, s)]
<1>1. ASSUME NEW s \in SUBSET DOMAIN f
      PROVE  w[s] = SumsOver(f, w)[s]
  <2> DEFINE x == CHOOSE x \in s : TRUE
  <2>1. CASE s = {}
    BY <2>1 DEF SumsOver
  <2>2. CASE s # {}
    <3>1. x \in s
      BY <2>2
    <3>2. SumsOver(f, w)[s] = f[x] + w[s \ {x}]
      BY <2>2 DEF SumsOver
    <3> HIDE DEF x
    <3>3. w[s] = f[x] + w[s \ {x}]
      BY <3>1
    <3>4. QED
      BY <3>2, <3>3
  <2>3. QED
    BY <2>1, <2>2
<1>2. DOMAIN SumsOver(f, w) = SUBSET DOMAIN f
  BY DEF SumsOver
<1>3. w = SumsOver(f, w)
  BY <1>1, <1>2 DEF SumsOver
<1>4. QED
  BY <1>3

(* The totals of tuples of two and of three parts.                         *)
LEMMA TotalOfTwo ==
    ASSUME NEW a, NEW b, a # b, NEW f, DOMAIN f = {a, b}, \A x \in DOMAIN f : f[x] \in Nat
    PROVE  Total(f) = f[a] + f[b]
<1>1. PICK g : g = SumsOver(f, g) /\ Total(f) = g[DOMAIN f]
  <2>1. PICK c : c \notin {a, b}
    BY NoSetContainsEverything
  <2>2. PartsAmong(f, a, b, c)
    BY <2>1 DEF PartsAmong
  <2>3. PICK w : w = SumsOver(f, w)
    BY <2>2, PartsMeetTheRecursion
  <2>4. QED
    BY <2>3, FoldIsASum, Zenon
<1>2. g[{}] = 0
  BY <1>1 DEF SumsOver
<1>3. ASSUME NEW x \in {a, b}
      PROVE  g[{x}] = f[x]
  <2>1. (CHOOSE y \in {x} : TRUE) = x /\ {x} \ {x} = {}
    OBVIOUS
  <2>2. g[{x}] = f[x] + g[{}]
    BY <1>1, <2>1 DEF SumsOver
  <2>3. QED
    BY <1>2, <2>2
<1>4. QED
  <2> DEFINE x == CHOOSE y \in {a, b} : TRUE
  <2>1. x \in {a, b}
    OBVIOUS
  <2>2. g[{a, b}] = f[x] + g[{a, b} \ {x}]
    BY <1>1 DEF SumsOver
  <2> HIDE DEF x
  <2>3. CASE x = a
    <3>1. {a, b} \ {x} = {b}
      BY <2>3
    <3>2. QED
      BY <1>1, <1>3, <2>2, <2>3, <3>1
  <2>4. CASE x = b
    <3>1. {a, b} \ {x} = {a}
      BY <2>4
    <3>2. g[{a, b}] = f[b] + f[a]
      BY <1>3, <2>2, <2>4, <3>1
    <3>3. f[a] \in Nat /\ f[b] \in Nat
      OBVIOUS
    <3>4. QED
      BY <1>1, <3>2, <3>3
  <2>5. QED
    BY <2>1, <2>3, <2>4

(* A part taken first leaves the total of the two others.                  *)
LEMMA TotalOfThree ==
    ASSUME NEW f, NEW a, NEW b, NEW c, PartsAmong(f, a, b, c), DOMAIN f = {a, b, c}
    PROVE  Total(f) = f[a] + f[b] + f[c]
<1> USE DEF PartsAmong
<1>1. PICK g : g = SumsOver(f, g) /\ Total(f) = g[DOMAIN f]
  <2> HIDE DEF PartsAmong
  <2>1. PICK w : w = SumsOver(f, w)
    BY PartsMeetTheRecursion
  <2>2. QED
    BY <2>1, FoldIsASum, Zenon
<1>2. g[{}] = 0
  BY <1>1 DEF SumsOver
<1>3. ASSUME NEW x \in {a, b, c}
      PROVE  g[{x}] = f[x]
  <2>1. (CHOOSE y \in {x} : TRUE) = x /\ {x} \ {x} = {}
    OBVIOUS
  <2>2. g[{x}] = f[x] + g[{}]
    BY <1>1, <2>1 DEF SumsOver
  <2>3. QED
    BY <1>2, <2>2
<1>4. ASSUME NEW x \in {a, b, c}, NEW y \in {a, b, c}, x # y
      PROVE  g[{x, y}] = f[x] + f[y]
  <2> DEFINE z == CHOOSE z \in {x, y} : TRUE
  <2>1. z \in {x, y}
    OBVIOUS
  <2>2. g[{x, y}] = f[z] + g[{x, y} \ {z}]
    BY <1>1 DEF SumsOver
  <2> HIDE DEF z
  <2>3. CASE z = x
    <3>1. {x, y} \ {z} = {y}
      BY <1>4, <2>3
    <3>2. QED
      BY <1>3, <2>2, <2>3, <3>1
  <2>4. CASE z = y
    <3>1. {x, y} \ {z} = {x}
      BY <1>4, <2>4
    <3>2. g[{x, y}] = f[y] + f[x]
      BY <1>3, <2>2, <2>4, <3>1
    <3>3. f[x] \in Nat /\ f[y] \in Nat
      OBVIOUS
    <3>4. QED
      BY <3>2, <3>3
  <2>5. QED
    BY <2>1, <2>3, <2>4
<1>5. QED
  <2> DEFINE z == CHOOSE z \in {a, b, c} : TRUE
  <2>1. z \in {a, b, c}
    OBVIOUS
  <2>2. g[{a, b, c}] = f[z] + g[{a, b, c} \ {z}]
    BY <1>1 DEF SumsOver
  <2>3. f[a] \in Nat /\ f[b] \in Nat /\ f[c] \in Nat
    OBVIOUS
  <2> HIDE DEF z
  <2>4. CASE z = a
    <3>1. {a, b, c} \ {z} = {b, c}
      BY <2>4
    <3>2. QED
      BY <1>1, <1>4, <2>2, <2>3, <2>4, <3>1
  <2>5. CASE z = b
    <3>1. {a, b, c} \ {z} = {a, c}
      BY <2>5
    <3>2. QED
      BY <1>1, <1>4, <2>2, <2>3, <2>5, <3>1
  <2>6. CASE z = c
    <3>1. {a, b, c} \ {z} = {a, b}
      BY <2>6
    <3>2. QED
      BY <1>1, <1>4, <2>2, <2>3, <2>6, <3>1
  <2>7. QED
    BY <2>1, <2>4, <2>5, <2>6

-----------------------------------------------------------------------------
(* The chain.  The fees of a pool have the parts of its kind.              *)
LEMMA FeeTyped ==
    ASSUME NEW p \in Pool, NEW st \in OnChain, Shaped(p, st), NEW s \in Side
    PROVE  st.fee[s] \in [PartNames(p) -> Nat]
<1>1. st.fee[s] \in FeeParts /\ DOMAIN st.fee[s] = PartNames(p)
  BY DEF OnChain, Shaped
<1>2. QED
  BY <1>1 DEF FeeParts

(* fetcher.rs:263-286: what the fetch sums is all that a V1 pool charges.  *)
LEMMA SumsAllThatIsCharged ==
    ASSUME NEW p \in Pool \ V2Pool, chain[p] \in OnChain, Shaped(p, chain[p]), NEW s \in Side
    PROVE  Charged(p, s) = IF p \in StxAnchored THEN <<sum_three_way(chain[p].fee[s])>>
                           ELSE <<sum_two_way(chain[p].fee[1])>>
<1> DEFINE parts == chain[p].fee[s]
<1>1. parts \in [PartNames(p) -> Nat] /\ Charged(p, s) = <<Total(parts)>>
  BY FeeTyped DEF Charged
<1>2. CASE p \in StxAnchored
  <2>1. /\ DOMAIN parts = {"lps", "stacking-dao", "bitflow"}
        /\ \A k \in DOMAIN parts : parts[k] \in Nat
        /\ PartsAmong(parts, "lps", "stacking-dao", "bitflow")
    BY <1>1, <1>2 DEF PartNames, PartsAmong
  <2> HIDE DEF parts
  <2>2. Total(parts) = parts["lps"] + parts["stacking-dao"] + parts["bitflow"]
    BY <2>1, TotalOfThree
  <2>3. QED
    BY <1>1, <1>2, <2>1, <2>2 DEF sum_three_way, Part, parts
<1>3. CASE p \notin StxAnchored
  <2>1. DOMAIN parts = {"lps", "protocol"} /\ \A k \in DOMAIN parts : parts[k] \in Nat
    BY <1>1, <1>3 DEF PartNames
  <2>2. parts = chain[p].fee[1]
    BY <1>3 DEF Shaped, TwoTuples, Side
  <2> HIDE DEF parts
  <2>3. Total(parts) = parts["lps"] + parts["protocol"]
    BY <2>1, TotalOfTwo
  <2>4. QED
    BY <1>1, <1>3, <2>1, <2>2, <2>3 DEF sum_two_way, Part
<1>4. QED
  BY <1>2, <1>3

(* A contract pays no more than it holds, whatever its solver answers: the *)
(* subtractions at the end of the quotes saturate.                         *)
LEMMA PaysWhatItHolds ==
    ASSUME NEW p \in Pool, chain[p] \in OnChain, NEW s \in Side, NEW dx
    PROVE  Pays(p, s, dx) \in 0 .. chain[p].bal[Other(s)]
<1> DEFINE held == chain[p].bal[Other(s)]
<1>1. held \in Nat /\ Terms(p).bal[Other(s)] = held
  BY DEF OnChain, Side, Other, Terms
<1>2. \A n : Minus(held, n) \in 0 .. held
  BY <1>1 DEF Minus
<1>3. /\ quote_amount_out(p, Terms(p), s, dx) \in 0 .. held
      /\ get_dy(p, Terms(p), s, dx, Kind[p]) \in 0 .. held
  BY <1>1, <1>2 DEF quote_amount_out, get_dy
<1>4. QED
  BY <1>1, <1>3 DEF Pays, Quote

(* What a step of the chain appends, and what of its pool it changes.      *)
Appends(p, st, from, act) ==
    /\ p \in Pool /\ st \in OnChain /\ from \in Contract
    /\ act \in {"balances", "midpoint", "silent"}
    /\ Shaped(p, st)
    /\ from = IF act = "midpoint" THEN Core[p] ELSE p
    /\ act = "midpoint" => p \in V2Pool \ Bare
    /\ act # "balances" => st.bal = chain[p].bal
    /\ act # "midpoint" => st.mid = chain[p].mid
    /\ act # "silent" => st.on = chain[p].on /\ st.fee = chain[p].fee
    /\ Len(ledger) < MaxEvents
    /\ Change(p, st, from, act)

(* Every step of the chain appends one change of one pool.                 *)
LEMMA ChainAppends ==
    ASSUME StableTypeOK, Shapes, ChainStep
    PROVE  \E p, st, from, act : Appends(p, st, from, act)
<1>1. PICK p \in Pool :
          \/ \E dx \in Amount :
                \/ \E s \in Side : \E kept \in Kept(p, s, dx) : Swap(p, s, dx, kept)
                \/ AddLiquidity(p, dx)
          \/ \E mid \in Midpoints : SetMidpoint(p, mid)
          \/ Switch(p)
          \/ SetFees(p)
  BY DEF ChainStep
<1>2. /\ chain[p] \in OnChain /\ Shaped(p, chain[p]) /\ Len(ledger) < MaxEvents
      /\ p \in Contract /\ Amount \subseteq Nat /\ Midpoints \subseteq [Side -> Nat \ {0}]
  BY StableAssumption DEF StableTypeOK, Shapes, ChainStep, Contract
<1> DEFINE bal == chain[p].bal
<1>3. bal \in [Side -> Nat]
  BY <1>2 DEF OnChain
<1>4. ASSUME NEW dx \in Amount, NEW s \in Side, NEW kept \in Kept(p, s, dx), Swap(p, s, dx, kept)
      PROVE  \E st, from, act : Appends(p, st, from, act)
  <2> DEFINE out == Pays(p, s, dx)
             new == [bal EXCEPT ![s] = @ + kept, ![Other(s)] = @ - out]
             st == [chain[p] EXCEPT !.bal = new]
  <2>1. out \in 0 .. bal[Other(s)] /\ kept \in Nat /\ Other(s) \in Side /\ Other(s) # s
    BY <1>2, PaysWhatItHolds DEF Kept, Other, Side
  <2>2. Change(p, st, p, "balances")
    <3>1. st = [chain[p] EXCEPT !.bal[s] = @ + kept, !.bal[Other(s)] = @ - out]
      BY <1>2, <2>1 DEF OnChain
    <3>2. QED
      BY <1>4, <3>1 DEF Swap
  <2> HIDE DEF out
  <2>3. new \in [Side -> Nat]
    BY <1>3, <2>1
  <2> HIDE DEF new
  <2>4. st \in OnChain /\ Shaped(p, st)
    BY <1>2, <2>3 DEF OnChain, Shaped
  <2>5. st.mid = chain[p].mid /\ st.on = chain[p].on /\ st.fee = chain[p].fee
    BY <1>2 DEF OnChain
  <2> HIDE DEF st
  <2>6. QED
    BY <1>2, <2>2, <2>4, <2>5 DEF Appends
<1>5. ASSUME NEW dx \in Amount, AddLiquidity(p, dx)
      PROVE  \E st, from, act : Appends(p, st, from, act)
  <2> DEFINE new == [s \in Side |-> bal[s] + dx]
             st == [chain[p] EXCEPT !.bal = new]
  <2>1. Change(p, st, p, "balances")
    BY <1>5 DEF AddLiquidity
  <2>2. new \in [Side -> Nat]
    BY <1>2, <1>3
  <2> HIDE DEF new
  <2>3. st \in OnChain /\ Shaped(p, st)
    BY <1>2, <2>2 DEF OnChain, Shaped
  <2>4. st.mid = chain[p].mid /\ st.on = chain[p].on /\ st.fee = chain[p].fee
    BY <1>2 DEF OnChain
  <2> HIDE DEF st
  <2>5. QED
    BY <1>2, <2>1, <2>3, <2>4 DEF Appends
<1>6. ASSUME NEW mid \in Midpoints, SetMidpoint(p, mid)
      PROVE  \E st, from, act : Appends(p, st, from, act)
  <2> DEFINE st == [chain[p] EXCEPT !.mid = mid]
  <2>1. Change(p, st, Core[p], "midpoint") /\ p \in V2Pool \ Bare /\ Core[p] \in Contract
    BY <1>6 DEF SetMidpoint, Contract
  <2>2. st \in OnChain /\ Shaped(p, st)
    BY <1>2, <2>1 DEF OnChain, Shaped
  <2>3. st.bal = chain[p].bal /\ st.on = chain[p].on /\ st.fee = chain[p].fee
    BY <1>2 DEF OnChain
  <2> HIDE DEF st
  <2>4. QED
    BY <1>2, <2>1, <2>2, <2>3 DEF Appends
<1>7. ASSUME Switch(p)
      PROVE  \E st, from, act : Appends(p, st, from, act)
  <2> DEFINE st == [chain[p] EXCEPT !.on = ~@]
  <2>1. Change(p, st, p, "silent") /\ p \notin Bare
    BY <1>7 DEF Switch
  <2>2. st \in OnChain /\ Shaped(p, st)
    BY <1>2, <2>1 DEF OnChain, Shaped
  <2>3. st.bal = chain[p].bal /\ st.mid = chain[p].mid
    BY <1>2 DEF OnChain
  <2> HIDE DEF st
  <2>4. QED
    BY <1>2, <2>1, <2>2, <2>3 DEF Appends
<1>8. ASSUME SetFees(p)
      PROVE  \E st, from, act : Appends(p, st, from, act)
  <2> DEFINE more(s) == IF TwoTuples(p) THEN s ELSE 1
             fee == [s \in Side |-> [k \in DOMAIN chain[p].fee[s] |-> chain[p].fee[s][k] + more(s)]]
             st == [chain[p] EXCEPT !.fee = fee]
  <2>1. Change(p, st, p, "silent")
    BY <1>8 DEF SetFees
  <2>2. ASSUME NEW s \in Side
        PROVE  fee[s] \in [PartNames(p) -> Nat]
    <3>1. chain[p].fee[s] \in [PartNames(p) -> Nat] /\ more(s) \in Nat
      BY <1>2, FeeTyped DEF Side
    <3>2. QED
      BY <3>1
  <2>3. TwoTuples(p) \/ fee[1] = fee[2]
    BY <1>2 DEF Shaped, Side
  <2> HIDE DEF fee
  <2>4. \A s \in Side : fee[s] \in FeeParts /\ DOMAIN fee[s] = PartNames(p)
    BY <2>2 DEF FeeParts, PartNames
  <2>5. fee \in [Side -> FeeParts]
    BY <2>4 DEF fee
  <2>6. st \in OnChain /\ Shaped(p, st)
    BY <1>2, <2>3, <2>4, <2>5 DEF OnChain, Shaped
  <2>7. st.bal = chain[p].bal /\ st.mid = chain[p].mid
    BY <1>2 DEF OnChain
  <2> HIDE DEF st
  <2>8. QED
    BY <1>2, <2>1, <2>6, <2>7 DEF Appends
<1>9. QED
  BY <1>1, <1>4, <1>5, <1>6, <1>7, <1>8

(* The ledger after a change, and the changes in it.                       *)
Grown(p, st, from, act) ==
    LET len == Len(ledger)
    IN  /\ len \in 0 .. MaxEvents - 1 /\ Len(ledger)' = len + 1
        /\ DOMAIN ledger = 1 .. len /\ DOMAIN ledger' = 1 .. len + 1
        /\ \A i \in 1 .. len : ledger'[i] = ledger[i]
        /\ ledger'[len + 1] = [pool |-> p, st |-> st, from |-> from, act |-> act]
        /\ chain' = [chain EXCEPT ![p] = st]
        /\ UNCHANGED <<received, fetching, mirror>>

(* A change of the chain is appended to the ledger and to nothing else.    *)
LEMMA LedgerGrows ==
    ASSUME StableTypeOK, NEW p, NEW st, NEW from, NEW act, Appends(p, st, from, act)
    PROVE  /\ Grown(p, st, from, act)
           /\ ledger' \in Seq([pool : Pool, st : OnChain, from : Contract,
                               act : {"balances", "midpoint", "silent"}])
<1> DEFINE e == [pool |-> p, st |-> st, from |-> from, act |-> act]
           Entries == [pool : Pool, st : OnChain, from : Contract, act : {"balances", "midpoint", "silent"}]
<1>1. /\ ledger \in Seq(Entries) /\ e \in Entries /\ ledger' = Append(ledger, e)
      /\ Len(ledger) < MaxEvents /\ MaxEvents \in Nat
      /\ chain' = [chain EXCEPT ![p] = st] /\ UNCHANGED <<received, fetching, mirror>>
  BY StableAssumption DEF StableTypeOK, Appends, Change
<1> HIDE DEF Entries, e
<1>2. /\ Len(ledger) \in Nat /\ DOMAIN ledger = 1 .. Len(ledger)
      /\ Append(ledger, e) \in Seq(Entries) /\ Len(Append(ledger, e)) = Len(ledger) + 1
      /\ \A i \in 1 .. Len(ledger) : Append(ledger, e)[i] = ledger[i]
      /\ Append(ledger, e)[Len(ledger) + 1] = e
      /\ DOMAIN Append(ledger, e) = 1 .. Len(ledger) + 1
  BY <1>1, AppendProperties, LenProperties
<1>3. QED
  BY <1>1, <1>2 DEF Grown, Entries, e

(* The changes of a pool grow by that one, those of the others do not.     *)
LEMMA ChangesGrow ==
    ASSUME NEW p, NEW st, NEW from, NEW act, Grown(p, st, from, act)
    PROVE  /\ \A q \in Pool, n \in 0 .. Len(ledger) : Changes(q, n)' = Changes(q, n)
           /\ \A n \in {Len(ledger) + 1} : Changes(p, n)' = Changes(p, Len(ledger)) \cup {n}
           /\ \A q \in Pool \ {p}, n \in {Len(ledger) + 1} : Changes(q, n)' = Changes(q, Len(ledger))
<1>1. ASSUME NEW q \in Pool, NEW n \in 0 .. Len(ledger)
      PROVE  Changes(q, n)' = Changes(q, n)
  BY DEF Grown, Changes
<1>2. ASSUME NEW n \in {Len(ledger) + 1}
      PROVE  Changes(p, n)' = Changes(p, Len(ledger)) \cup {n}
  BY DEF Grown, Changes
<1>3. ASSUME NEW q \in Pool \ {p}, NEW n \in {Len(ledger) + 1}
      PROVE  Changes(q, n)' = Changes(q, Len(ledger))
  BY DEF Grown, Changes
<1>4. QED
  BY <1>1, <1>2, <1>3

(* The state after n changes is that of the last of them.                  *)
LastOf(S) == CHOOSE i \in S : \A j \in S : j <= i

(* The last of a set of positions is the one no other exceeds.             *)
LEMMA LastIs ==
    ASSUME NEW S \in SUBSET Nat, NEW k \in S, \A j \in S : j <= k
    PROVE  LastOf(S) = k
<1>1. LastOf(S) \in S /\ \A j \in S : j <= LastOf(S)
  BY DEF LastOf
<1>2. LastOf(S) <= k /\ k <= LastOf(S) /\ LastOf(S) \in Nat /\ k \in Nat
  BY <1>1
<1>3. QED
  BY <1>2

(* StateAt in terms of LastOf.                                             *)
LEMMA StateIsOfTheLast ==
    \A p, n : StateAt(p, n) = IF Changes(p, n) = {} THEN Start[p] ELSE ledger[LastOf(Changes(p, n))].st
BY DEF StateAt, LastOf

(* The state at a change is the one the change recorded.                   *)
LEMMA StateAtChange ==
    ASSUME StableTypeOK, NEW p, NEW i \in Changes(p, Len(ledger))
    PROVE  StateAt(p, i) = ledger[i].st
<1>1. Len(ledger) \in Nat
  BY LenProperties DEF StableTypeOK
<1>2. i \in Changes(p, i) /\ Changes(p, i) \in SUBSET Nat /\ \A j \in Changes(p, i) : j <= i
  BY <1>1 DEF Changes
<1>3. LastOf(Changes(p, i)) = i
  BY <1>2, LastIs
<1>4. QED
  BY <1>2, <1>3, StateIsOfTheLast

(* A change alters no past state.                                          *)
LEMMA PastIsKept ==
    ASSUME StableTypeOK, HasLast, NEW p \in Pool, NEW st, NEW from, NEW act, Grown(p, st, from, act)
    PROVE  /\ \A q \in Pool, n \in 0 .. Len(ledger) : StateAt(q, n)' = StateAt(q, n)
           /\ \A q \in Pool, n \in {Len(ledger) + 1} :
                  StateAt(q, n)' = IF q = p THEN st ELSE StateAt(q, Len(ledger))
<1> DEFINE len == Len(ledger)
<1>1. ASSUME NEW q \in Pool, NEW n \in 0 .. len, Changes(q, n) # {}
      PROVE  LastOf(Changes(q, n)) \in 1 .. len
  <2>1. PICK k \in Changes(q, n) : \A j \in Changes(q, n) : j <= k
    BY <1>1 DEF HasLast
  <2>2. Changes(q, n) \in SUBSET Nat /\ len \in Nat /\ k \in 1 .. len
    BY DEF Changes, Grown
  <2>3. QED
    BY <2>1, <2>2, LastIs
<1>2. \A q, n : StateAt(q, n)' =
          IF Changes(q, n)' = {} THEN Start[q] ELSE ledger'[LastOf(Changes(q, n)')].st
  BY DEF StateAt, LastOf
<1>3. ASSUME NEW q \in Pool, NEW n \in 0 .. len
      PROVE  StateAt(q, n)' = StateAt(q, n)
  <2>1. Changes(q, n)' = Changes(q, n)
    BY ChangesGrow
  <2>2. Changes(q, n) # {} => ledger'[LastOf(Changes(q, n))] = ledger[LastOf(Changes(q, n))]
    BY <1>1 DEF Grown
  <2>3. QED
    BY <1>2, <2>1, <2>2, StateIsOfTheLast
<1>4. ASSUME NEW q \in Pool \ {p}, NEW n \in {len + 1}
      PROVE  StateAt(q, n)' = StateAt(q, len)
  <2>1. Changes(q, n)' = Changes(q, len) /\ len \in 0 .. len
    <3>1. len \in Nat
      BY DEF Grown
    <3>2. QED
      BY <3>1, ChangesGrow
  <2>2. Changes(q, len) # {} => ledger'[LastOf(Changes(q, len))] = ledger[LastOf(Changes(q, len))]
    BY <1>1, <2>1 DEF Grown
  <2>3. QED
    BY <1>2, <2>1, <2>2, StateIsOfTheLast
<1>5. ASSUME NEW n \in {len + 1}
      PROVE  StateAt(p, n)' = st
  <2> DEFINE S == Changes(p, len) \cup {n}
  <2>1. Changes(p, n)' = S
    BY ChangesGrow
  <2>2. n = len + 1 /\ len \in Nat /\ S \in SUBSET Nat /\ n \in S /\ \A j \in S : j <= n
    BY DEF Grown, Changes
  <2> HIDE DEF S
  <2>3. LastOf(S) = n
    BY <2>2, LastIs
  <2>4. QED
    BY <1>2, <2>1, <2>2, <2>3 DEF Grown
<1>6. QED
  BY <1>3, <1>4, <1>5

(* What was quiet up to a change was so before it, and the change is of    *)
(* another kind or of another pool.                                        *)
LEMMA QuietBefore ==
    ASSUME NEW p, NEW st, NEW from, NEW act, Grown(p, st, from, act),
           NEW q \in Pool, NEW n \in 0 .. Len(ledger), NEW kind, Quiet(q, n, kind)'
    PROVE  Quiet(q, n, kind) /\ (q = p => act # kind)
<1>1. \A i \in 1 .. Len(ledger) + 1 : ledger'[i].pool = q /\ ledger'[i].act = kind => i <= n
  BY DEF Quiet, Changes, Grown
<1>2. Quiet(q, n, kind)
  BY <1>1 DEF Quiet, Changes, Grown
<1>3. ASSUME q = p PROVE act # kind
  <2>1. ledger'[Len(ledger) + 1].pool = p /\ ledger'[Len(ledger) + 1].act = act /\ Len(ledger) \in Nat
    BY DEF Grown
  <2>2. QED
    BY <1>1, <1>3, <2>1
<1>4. QED
  BY <1>2, <1>3

(* The chain is as it was fixed when nothing has happened.                 *)
LEMMA ChainInvInit == Init => ChainInv
<1> SUFFICES ASSUME Init PROVE ChainInv
  OBVIOUS
<1>1. Len(ledger) = 0 /\ DOMAIN ledger = {} /\ chain = Start
  BY DEF Init
<1>2. ASSUME NEW p \in Pool, NEW n \in 0 .. Len(ledger)
      PROVE  Changes(p, n) = {} /\ StateAt(p, n) = chain[p]
  BY <1>1 DEF Changes, StateAt
<1>3. \A p \in Pool : Shaped(p, chain[p])
  BY <1>1, StableAssumption DEF Shaped
<1>4. Told /\ Shapes
  BY <1>1, <1>3 DEF Told, Shapes
<1>5. HasLast /\ KeptSince
  BY <1>2 DEF HasLast, KeptSince
<1>6. QED
  BY <1>4, <1>5 DEF ChainInv

(* A step changes the chain or leaves it alone.                            *)
LEMMA ChainOrNot == Next => ChainStep \/ UNCHANGED <<chain, ledger>>
BY DEF Next, BeginFetch, ReadVariable, ReadFails, Insert, Remove, Receive

(* What is known of the chain alone is kept by every step.                 *)
LEMMA ChainInvStep ==
    ASSUME StableTypeOK, ChainInv, [Next]_vars
    PROVE  ChainInv'
<1>1. CASE UNCHANGED <<chain, ledger>>
  <2>1. \A p, n : Changes(p, n)' = Changes(p, n) /\ StateAt(p, n)' = StateAt(p, n)
    BY <1>1 DEF Changes, StateAt
  <2>2. \A p, n, act : Quiet(p, n, act)' = Quiet(p, n, act)
    BY <1>1 DEF Quiet, Changes
  <2>3. Told' /\ Shapes'
    BY <1>1 DEF ChainInv, Told, Shapes, Shaped
  <2>4. HasLast'
    BY <1>1, <2>1 DEF ChainInv, HasLast
  <2>5. KeptSince'
    BY <1>1, <2>1, <2>2 DEF ChainInv, KeptSince
  <2>6. QED
    BY <2>3, <2>4, <2>5 DEF ChainInv
<1>2. CASE ChainStep
  <2> DEFINE len == Len(ledger)
  <2>1. PICK p, st, from, act : Appends(p, st, from, act)
    BY <1>2, ChainAppends DEF ChainInv
  <2>2. Grown(p, st, from, act) /\ p \in Pool /\ chain \in [Pool -> OnChain]
    BY <2>1, LedgerGrows DEF Appends, StableTypeOK
  <2>3. len \in Nat /\ Len(ledger)' = len + 1 /\ DOMAIN ledger' = 1 .. len + 1 /\ DOMAIN ledger = 1 .. len
    BY <2>2 DEF Grown
  <2>4. Told'
    <3>1. ASSUME NEW i \in 1 .. len
          PROVE  ledger'[i] = ledger[i]
      BY <2>2 DEF Grown
    <3>2. /\ ledger'[len + 1].from = IF ledger'[len + 1].act = "midpoint"
                                     THEN Core[ledger'[len + 1].pool] ELSE ledger'[len + 1].pool
          /\ ledger'[len + 1].act = "midpoint" => ledger'[len + 1].pool \in V2Pool \ Bare
      BY <2>1, <2>2 DEF Grown, Appends
    <3>3. \A i \in 1 .. len + 1 : i \in 1 .. len \/ i = len + 1
      BY <2>3
    <3>4. QED
      BY <2>3, <3>1, <3>2, <3>3 DEF ChainInv, Told
  <2>5. Shapes'
    <3>1. ASSUME NEW i \in 1 .. len + 1
          PROVE  Shaped(ledger'[i].pool, ledger'[i].st)
      <4>1. CASE i \in 1 .. len
        BY <2>2, <4>1 DEF Grown, ChainInv, Shapes
      <4>2. CASE i = len + 1
        BY <2>1, <2>2, <4>2 DEF Grown, Appends
      <4>3. QED
        BY <2>3, <4>1, <4>2
    <3>2. ASSUME NEW q \in Pool
          PROVE  Shaped(q, chain'[q])
      <4>1. chain'[q] = IF q = p THEN st ELSE chain[q]
        BY <2>2 DEF Grown
      <4>2. QED
        BY <2>1, <4>1 DEF ChainInv, Shapes, Appends
    <3>3. QED
      BY <2>3, <3>1, <3>2 DEF Shapes, Shaped
  <2>6. HasLast'
    <3>1. ASSUME NEW q \in Pool, NEW n \in 0 .. len + 1, Changes(q, n)' # {}
          PROVE  \E i \in Changes(q, n)' : \A j \in Changes(q, n)' : j <= i
      <4>1. CASE n \in 0 .. len
        BY <2>2, <3>1, <4>1, ChangesGrow DEF ChainInv, HasLast
      <4>2. CASE n = len + 1 /\ q = p
        <5>1. Changes(q, n)' = Changes(q, len) \cup {n}
          BY <2>2, <4>2, ChangesGrow
        <5>2. \A j \in Changes(q, len) : j \in Nat /\ j <= n
          BY <2>3, <4>2 DEF Changes
        <5>3. n \in Changes(q, n)' /\ \A j \in Changes(q, n)' : j <= n
          BY <4>2, <2>3, <5>1, <5>2
        <5>4. QED
          BY <5>3
      <4>3. CASE n = len + 1 /\ q # p
        <5>1. Changes(q, n)' = Changes(q, len) /\ len \in 0 .. len
          BY <2>2, <2>3, <4>3, ChangesGrow
        <5>2. \E i \in Changes(q, len) : \A j \in Changes(q, len) : j <= i
          BY <3>1, <5>1 DEF ChainInv, HasLast
        <5>3. QED
          BY <5>1, <5>2
      <4>4. QED
        BY <2>3, <4>1, <4>2, <4>3
    <3>2. QED
      BY <2>3, <3>1 DEF HasLast
  <2>7. KeptSince'
    <3>1. ASSUME NEW q \in Pool, NEW n \in 0 .. len + 1
          PROVE  /\ Quiet(q, n, "balances")' => StateAt(q, n)'.bal = chain'[q].bal
                 /\ Quiet(q, n, "midpoint")' => StateAt(q, n)'.mid = chain'[q].mid
                 /\ Quiet(q, n, "silent")' => /\ StateAt(q, n)'.on = chain'[q].on
                                              /\ StateAt(q, n)'.fee = chain'[q].fee
      <4>1. chain'[q] = IF q = p THEN st ELSE chain[q]
        BY <2>2 DEF Grown
      <4>2. HasLast /\ KeptSince
        BY DEF ChainInv
      <4>3. CASE n \in 0 .. len
        <5>1. StateAt(q, n)' = StateAt(q, n)
          BY <2>2, <4>2, <4>3, PastIsKept
        <5>2. ASSUME NEW kind, Quiet(q, n, kind)'
              PROVE  Quiet(q, n, kind) /\ (q = p => act # kind)
          BY <2>2, <4>3, <5>2, QuietBefore
        <5>3. /\ Quiet(q, n, "balances") => StateAt(q, n).bal = chain[q].bal
              /\ Quiet(q, n, "midpoint") => StateAt(q, n).mid = chain[q].mid
              /\ Quiet(q, n, "silent") => /\ StateAt(q, n).on = chain[q].on
                                          /\ StateAt(q, n).fee = chain[q].fee
          BY <4>2, <4>3 DEF KeptSince
        <5>4. /\ act # "balances" => st.bal = chain[p].bal
              /\ act # "midpoint" => st.mid = chain[p].mid
              /\ act # "silent" => st.on = chain[p].on /\ st.fee = chain[p].fee
          BY <2>1 DEF Appends
        <5>5. QED
          BY <4>1, <5>1, <5>2, <5>3, <5>4
      <4>4. CASE n = len + 1 /\ q = p
        <5>1. StateAt(q, n)' = st
          BY <2>2, <4>2, <4>4, PastIsKept
        <5>2. QED
          BY <4>1, <4>4, <5>1
      <4>5. CASE n = len + 1 /\ q # p
        <5>1. StateAt(q, n)' = StateAt(q, len)
          BY <2>2, <4>2, <4>5, PastIsKept
        <5>2. \A kind : Quiet(q, len, kind)
          BY <2>3 DEF Quiet, Changes
        <5>3. /\ StateAt(q, len).bal = chain[q].bal /\ StateAt(q, len).mid = chain[q].mid
              /\ StateAt(q, len).on = chain[q].on /\ StateAt(q, len).fee = chain[q].fee
          BY <2>3, <4>2, <5>2 DEF KeptSince
        <5>4. QED
          BY <4>1, <4>5, <5>1, <5>3
      <4>6. QED
        BY <2>3, <4>3, <4>4, <4>5
    <3>2. QED
      BY <2>3, <3>1 DEF KeptSince
  <2>8. QED
    BY <2>4, <2>5, <2>6, <2>7 DEF ChainInv
<1>3. QED
  BY <1>1, <1>2, ChainOrNot DEF vars

-----------------------------------------------------------------------------
(* What holds of a mirror, or of a pool half read, is not undone by what   *)
(* happens on chain.                                                       *)
LEMMA ChargedUnchanged ==
    ASSUME NEW p, NEW s, chain'[p].fee = chain[p].fee
    PROVE  Charged(p, s)' = Charged(p, s)
BY DEF Charged

(* What is known of a mirror stays true when the chain goes on ...         *)
LEMMA KeptOnChain ==
    ASSUME StableTypeOK, ChainInv, NEW p, NEW st, NEW from, NEW act, Appends(p, st, from, act),
           NEW q \in Pool, NEW m \in Mirrored, NEW sides,
           OwnPartsOf(q, m), Fetched(q, m), FeesRead(q, m, sides)
    PROVE  OwnPartsOf(q, m)' /\ Fetched(q, m)' /\ FeesRead(q, m, sides)'
<1> DEFINE len == Len(ledger)
<1>1. Grown(p, st, from, act) /\ p \in Pool /\ HasLast /\ m.at \in 0 .. len
  BY LedgerGrows DEF Appends, ChainInv, Fetched
<1>2. StateAt(q, m.at)' = StateAt(q, m.at)
  BY <1>1, PastIsKept
<1>3. /\ len \in Nat /\ Len(ledger)' = len + 1 /\ \A i \in 1 .. len : ledger'[i] = ledger[i]
      /\ Changes(q, len) \subseteq 1 .. len
      /\ \A i \in Changes(q, len) : i \in Changes(q, Len(ledger))'
  BY <1>1 DEF Grown, Changes
<1>4. OwnPartsOf(q, m)'
  <2>1. \A i \in {m.bi, m.mi} : From(q, m, i)' = From(q, m, i)
    <3>1. \A i \in {m.bi, m.mi} : i # 0 => i \in 1 .. len
      BY <1>3 DEF OwnPartsOf, Own
    <3>2. QED
      BY <1>2, <1>3, <3>1 DEF From
  <2>2. m.bi \in 0 .. Len(ledger)' /\ (q \in Outsiders \/ Own(q, m.bi)') /\ Own(q, m.mi)'
    BY <1>3 DEF OwnPartsOf, Own
  <2>3. QED
    BY <2>1, <2>2 DEF OwnPartsOf
<1>5. Fetched(q, m)'
  BY <1>1, <1>2, <1>3 DEF Fetched
<1>6. FeesRead(q, m, sides)'
  <2>1. SUFFICES ASSUME q \notin V2Pool, Quiet(q, m.at, "silent")', NEW s \in sides
                 PROVE  m.fee[s] = Charged(q, s)'
    BY DEF FeesRead
  <2>2. Quiet(q, m.at, "silent") /\ (q = p => act # "silent")
    BY <1>1, <2>1, QuietBefore
  <2>3. chain'[q].fee = chain[q].fee
    BY <1>1, <2>2 DEF Grown, Appends, StableTypeOK
  <2>4. Charged(q, s)' = Charged(q, s)
    BY <2>3, ChargedUnchanged
  <2>5. QED
    BY <2>1, <2>2, <2>4 DEF FeesRead
<1>7. QED
  BY <1>4, <1>5, <1>6

(* ... and when it does not.                                               *)
LEMMA KeptOffChain ==
    ASSUME UNCHANGED <<chain, ledger>>
    PROVE  \A q, m, sides : /\ OwnPartsOf(q, m) => OwnPartsOf(q, m)'
                            /\ Fetched(q, m) => Fetched(q, m)'
                            /\ FeesRead(q, m, sides) => FeesRead(q, m, sides)'
<1>1. ASSUME NEW p, NEW n, NEW kind
      PROVE  /\ Changes(p, n)' = Changes(p, n) /\ StateAt(p, n)' = StateAt(p, n)
             /\ Quiet(p, n, kind)' = Quiet(p, n, kind)
  BY DEF Changes, StateAt, Quiet
<1>2. ASSUME NEW q, NEW m
      PROVE  OwnPartsOf(q, m) => OwnPartsOf(q, m)'
  <2>1. \A i : Own(q, i)' = Own(q, i) /\ From(q, m, i)' = From(q, m, i)
    BY <1>1 DEF Changes, From, Own
  <2>2. QED
    BY <2>1 DEF OwnPartsOf
<1>3. ASSUME NEW q, NEW m
      PROVE  Fetched(q, m) => Fetched(q, m)'
  BY <1>1, SMTT(30) DEF Fetched
<1>4. ASSUME NEW q, NEW m, NEW sides
      PROVE  FeesRead(q, m, sides) => FeesRead(q, m, sides)'
  <2>1. \A s : Charged(q, s)' = Charged(q, s)
    BY ChargedUnchanged
  <2>2. QED
    BY <1>1, <2>1 DEF FeesRead
<1>5. QED
  BY <1>2, <1>3, <1>4
-----------------------------------------------------------------------------
(* The types of the chain, which those of a mirror rest on.                *)
ChainTypeOK ==
    /\ chain \in [Pool -> OnChain]
    /\ ledger \in Seq([pool : Pool, st : OnChain, from : Contract,
                       act : {"balances", "midpoint", "silent"}]) /\ Len(ledger) <= MaxEvents

(* The types of the chain are part of the types.                           *)
LEMMA TypesOfTheChain == StableTypeOK => ChainTypeOK
BY DEF StableTypeOK, ChainTypeOK

(* Every state a pool has had is one a pool of its kind can be in.         *)
LEMMA StateAtTyped ==
    ASSUME ChainTypeOK, ChainInv, NEW p \in Pool, NEW n \in 0 .. Len(ledger)
    PROVE  StateAt(p, n) \in OnChain /\ Shaped(p, StateAt(p, n))
<1>1. CASE Changes(p, n) = {}
  BY <1>1, StateIsOfTheLast, StableAssumption DEF Shaped
<1>2. CASE Changes(p, n) # {}
  <2>1. PICK k \in Changes(p, n) : \A j \in Changes(p, n) : j <= k
    BY <1>2 DEF ChainInv, HasLast
  <2>2. Len(ledger) \in Nat /\ DOMAIN ledger = 1 .. Len(ledger)
    BY LenProperties DEF ChainTypeOK
  <2>3. Changes(p, n) \in SUBSET Nat /\ k \in DOMAIN ledger /\ ledger[k].pool = p
    BY <2>2 DEF Changes
  <2>4. StateAt(p, n) = ledger[k].st
    BY <1>2, <2>1, <2>3, LastIs, StateIsOfTheLast
  <2>5. ledger[k].st \in OnChain
    <3>1. ledger[k] \in [pool : Pool, st : OnChain, from : Contract, act : {"balances", "midpoint", "silent"}]
      BY <2>2, <2>3, ElementOfSeq DEF ChainTypeOK
    <3>2. QED
      BY <3>1
  <2>6. QED
    BY <2>3, <2>4, <2>5 DEF ChainInv, Shapes
<1>3. QED
  BY <1>1, <1>2

(* The sums of any tuple of fees are numbers.                              *)
LEMMA SumsTyped ==
    ASSUME NEW parts \in FeeParts
    PROVE  sum_three_way(parts) \in Nat /\ sum_two_way(parts) \in Nat
<1>1. \A k \in {"lps", "protocol", "stacking-dao", "bitflow"} : Part(parts, k) \in Nat
  BY DEF FeeParts, Part
<1>2. QED
  BY <1>1 DEF sum_three_way, sum_two_way

(* What get-pool and get-pair-data give.                                   *)
LEMMA FirstReadIsOk ==
    ASSUME ChainTypeOK, ChainInv, NEW p \in Pool, NEW n \in 0 .. Len(ledger)
    PROVE  ReadOk(p, [read |-> FirstRead(p, n), left |-> Variables(p)])
<1> DEFINE r == FirstRead(p, n)
           st == StateAt(p, n)
<1>1. st \in OnChain /\ Shaped(p, st)
  BY StateAtTyped
<1>2. n \in 0 .. MaxEvents /\ n \in 0 .. Len(ledger)
  BY StableAssumption, LenProperties DEF ChainTypeOK
<1> HIDE DEF st
<1>3. /\ r.bal = st.bal /\ r.bal \in [Side -> Nat] /\ r.on = st.on /\ r.on \in BOOLEAN
      /\ r.tx = 0 /\ r.bi = 0 /\ r.mi = 0 /\ r.at = n
      /\ DOMAIN r = {"bal", "mid", "on", "fee", "threshold", "tx", "at", "bi", "mi"}
  BY <1>1 DEF FirstRead, OnChain, Shaped, st
<1>4. r.mid \in [Side -> Nat \ {0}] /\ (p \in V2Pool => r.mid = st.mid) /\ (p \notin V2Pool => r.mid = <<1, 1>>)
  <2>1. <<1, 1>> \in [Side -> Nat \ {0}]
    BY DEF Side
  <2>2. QED
    BY <1>1, <2>1 DEF FirstRead, OnChain, Shaped, st
<1>5. r.threshold \in Nat
  BY StableAssumption DEF FirstRead
<1>6. r.fee \in [Side -> Seq(Nat)]
  <2>1. ASSUME NEW s \in Side, p \in V2Pool
        PROVE  <<st.fee[s]["protocol"], st.fee[s]["provider"]>> \in Seq(Nat)
    <3>1. st.fee[s] \in [{"protocol", "provider"} -> Nat]
      BY <1>1, <2>1, FeeTyped DEF PartNames
    <3>2. QED
      BY <3>1
  <2>2. QED
    BY <2>1 DEF FirstRead, st
<1>7. p \in V2Pool => r.fee = [s \in Side |-> <<st.fee[s]["protocol"], st.fee[s]["provider"]>>]
  BY DEF FirstRead, st
<1>8. r \in Mirrored
  <2>1. r = [bal |-> r.bal, mid |-> r.mid, on |-> r.on, fee |-> r.fee, threshold |-> r.threshold,
             tx |-> 0, at |-> n, bi |-> 0, mi |-> 0]
    BY DEF FirstRead
  <2> HIDE DEF r
  <2>2. 0 \in 0 .. MaxEvents
    BY StableAssumption
  <2>3. QED
    BY <1>2, <1>3, <1>4, <1>5, <1>6, <2>1, <2>2 DEF Mirrored
<1>9. Variables(p) \in Unread(p) /\ SidesRead(p, Variables(p)) = IF p \in V2Pool THEN Side ELSE {}
  <2>1. CASE p \in V2Pool
    <3>1. Variables(p) = <<>>
      BY <2>1, StableAssumption DEF Variables
    <3>2. QED
      BY <2>1, <3>1 DEF Unread, SidesRead
  <2>2. CASE p \in StxAnchored
    <3>1. Variables(p) = <<"convergence-threshold", "buy-fees", "sell-fees">> /\ p \notin V2Pool
      BY <2>2, StableAssumption DEF Variables
    <3>2. Variables(p) # <<>> /\ Variables(p) # <<"sell-fees">>
      BY <3>1
    <3>3. QED
      BY <2>2, <3>1, <3>2 DEF Unread, SidesRead
  <2>3. CASE p \notin V2Pool \cup StxAnchored
    <3>1. Variables(p) = <<"convergence-threshold", "swap-fees">>
      BY <2>3 DEF Variables
    <3>2. QED
      BY <2>3, <3>1 DEF Unread, SidesRead
  <2>4. QED
    BY <2>1, <2>2, <2>3
<1> HIDE DEF r
<1>10. OwnPartsOf(p, r) /\ Fetched(p, r)
  BY <1>2, <1>3, <1>4, <1>7 DEF OwnPartsOf, Fetched, From, Own, st
<1>11. FeesRead(p, r, SidesRead(p, Variables(p)))
  BY <1>9 DEF FeesRead
<1>12. QED
  BY <1>3, <1>8, <1>9, <1>10, <1>11 DEF ReadOk, r

(* A fee or a threshold that is read alters nothing else.                  *)
LEMMA OtherPartsKept ==
    ASSUME NEW p, p \notin V2Pool, NEW m \in Mirrored, OwnPartsOf(p, m), Fetched(p, m),
           NEW new \in Mirrored, new.bal = m.bal, new.mid = m.mid, new.on = m.on, new.tx = m.tx,
           new.at = m.at, new.bi = m.bi, new.mi = m.mi
    PROVE  OwnPartsOf(p, new) /\ Fetched(p, new)
<1>1. \A i : From(p, new, i) = From(p, m, i)
  BY DEF From
<1>2. QED
  BY <1>1 DEF OwnPartsOf, Fetched

(* A fee event replaces the fees of a mirror and nothing else.             *)
LEMMA FeeReplaced ==
    ASSUME NEW p, p \notin V2Pool, NEW m \in Mirrored, OwnPartsOf(p, m), Fetched(p, m),
           NEW fee \in [Side -> Seq(Nat)]
    PROVE  LET new == [m EXCEPT !.fee = fee]
           IN  /\ new \in Mirrored /\ OwnPartsOf(p, new) /\ Fetched(p, new)
               /\ new.fee = fee /\ new.tx = m.tx /\ new.at = m.at
<1> DEFINE new == [m EXCEPT !.fee = fee]
<1>1. /\ new \in Mirrored /\ new.bal = m.bal /\ new.mid = m.mid /\ new.on = m.on /\ new.tx = m.tx
      /\ new.at = m.at /\ new.bi = m.bi /\ new.mi = m.mi /\ new.fee = fee
  BY DEF Mirrored
<1> HIDE DEF new
<1>2. OwnPartsOf(p, new) /\ Fetched(p, new)
  BY <1>1, OtherPartsKept
<1>3. QED
  BY <1>1, <1>2 DEF new

(* A threshold event replaces the threshold and nothing else.              *)
LEMMA ThresholdReplaced ==
    ASSUME NEW p, p \notin V2Pool, NEW m \in Mirrored, OwnPartsOf(p, m), Fetched(p, m),
           NEW t \in Nat
    PROVE  LET new == [m EXCEPT !.threshold = t]
           IN  /\ new \in Mirrored /\ OwnPartsOf(p, new) /\ Fetched(p, new)
               /\ new.fee = m.fee /\ new.tx = m.tx /\ new.at = m.at
<1> DEFINE new == [m EXCEPT !.threshold = t]
<1>1. /\ new \in Mirrored /\ new.bal = m.bal /\ new.mid = m.mid /\ new.on = m.on /\ new.tx = m.tx
      /\ new.at = m.at /\ new.bi = m.bi /\ new.mi = m.mi /\ new.fee = m.fee
  BY DEF Mirrored
<1> HIDE DEF new
<1>2. OwnPartsOf(p, new) /\ Fetched(p, new)
  BY <1>1, OtherPartsKept
<1>3. QED
  BY <1>1, <1>2 DEF new

(* The variables still to be read, and the next of them.                   *)
LEMMA LeftToRead ==
    ASSUME NEW p, NEW left \in Unread(p), left # <<>>
    PROVE  /\ p \notin V2Pool /\ Tail(left) \in Unread(p)
           /\ \/ Head(left) = "convergence-threshold" /\ SidesRead(p, Tail(left)) = {}
              \/ /\ Head(left) = "buy-fees" /\ p \in StxAnchored
                 /\ SidesRead(p, Tail(left)) = {1}
              \/ /\ Head(left) = "sell-fees" /\ p \in StxAnchored
                 /\ SidesRead(p, left) = {1} /\ SidesRead(p, Tail(left)) = Side
              \/ /\ Head(left) = "swap-fees" /\ p \notin StxAnchored
                 /\ SidesRead(p, Tail(left)) = Side
<1>1. p \notin V2Pool
  BY DEF Unread
<1>2. CASE left = <<"convergence-threshold", "buy-fees", "sell-fees">> /\ p \in StxAnchored
  <2>1. Head(left) = "convergence-threshold" /\ Tail(left) = <<"buy-fees", "sell-fees">>
    BY <1>2
  <2>2. Tail(left) # <<>> /\ Tail(left) # <<"sell-fees">>
    BY <2>1
  <2>3. QED
    BY <1>1, <1>2, <2>1, <2>2 DEF Unread, SidesRead
<1>3. CASE left = <<"buy-fees", "sell-fees">> /\ p \in StxAnchored
  <2>1. Head(left) = "buy-fees" /\ Tail(left) = <<"sell-fees">>
    BY <1>3
  <2>2. Tail(left) # <<>>
    BY <2>1
  <2>3. QED
    BY <1>1, <1>3, <2>1, <2>2 DEF Unread, SidesRead
<1>4. CASE left = <<"sell-fees">> /\ p \in StxAnchored
  <2>1. Head(left) = "sell-fees" /\ Tail(left) = <<>>
    BY <1>4
  <2>2. QED
    BY <1>1, <1>4, <2>1 DEF Unread, SidesRead
<1>5. CASE left = <<"convergence-threshold", "swap-fees">> /\ p \notin StxAnchored
  <2>1. Head(left) = "convergence-threshold" /\ Tail(left) = <<"swap-fees">>
    BY <1>5
  <2>2. Tail(left) # <<>>
    BY <2>1
  <2>3. QED
    BY <1>1, <1>5, <2>1, <2>2 DEF Unread, SidesRead
<1>6. CASE left = <<"swap-fees">> /\ p \notin StxAnchored
  <2>1. Head(left) = "swap-fees" /\ Tail(left) = <<>>
    BY <1>6
  <2>2. QED
    BY <1>1, <1>6, <2>1 DEF Unread, SidesRead
<1>7. QED
  BY <1>1, <1>2, <1>3, <1>4, <1>5, <1>6 DEF Unread

(* fetcher.rs:203-227: a variable that is read brings the fees charged     *)
(* then, of the side it is for.                                            *)
LEMMA ReadVariableIsOk ==
    ASSUME StableTypeOK, ChainInv, ReadInv, NEW p \in Pool, ReadVariable(p)
    PROVE  ReadOk(p, fetching'[p])
<1> DEFINE f == fetching[p]
           v == Head(f.left)
           fee == [s \in Side |-> FeeRead(p, v, s, f.read.fee[s])]
<1>1. p \in DOMAIN fetching /\ f.left # <<>> /\ ReadOk(p, f) /\ Shaped(p, chain[p]) /\ chain[p] \in OnChain
  BY DEF ReadVariable, ReadInv, ChainInv, Shapes, StableTypeOK
<1>2. /\ p \in Pool \ V2Pool /\ Tail(f.left) \in Unread(p)
      /\ \/ v = "convergence-threshold" /\ SidesRead(p, Tail(f.left)) = {}
         \/ v = "buy-fees" /\ p \in StxAnchored /\ SidesRead(p, Tail(f.left)) = {1}
         \/ /\ v = "sell-fees" /\ p \in StxAnchored
            /\ SidesRead(p, f.left) = {1} /\ SidesRead(p, Tail(f.left)) = Side
         \/ v = "swap-fees" /\ p \notin StxAnchored /\ SidesRead(p, Tail(f.left)) = Side
  BY <1>1, LeftToRead DEF ReadOk
<1>3. /\ f.read \in Mirrored /\ f.read.tx = 0 /\ OwnPartsOf(p, f.read) /\ Fetched(p, f.read)
      /\ FeesRead(p, f.read, SidesRead(p, f.left)) /\ f.read.fee \in [Side -> Seq(Nat)]
  BY <1>1 DEF ReadOk, Mirrored
<1>4. CASE v = "convergence-threshold"
  <2>1. PICK t \in {Threshold[p], 2} :
            fetching'[p] = [read |-> [f.read EXCEPT !.threshold = t], left |-> Tail(f.left)]
    BY <1>1, <1>4 DEF ReadVariable
  <2> DEFINE new == [f.read EXCEPT !.threshold = t]
  <2>2. t \in Nat
    BY StableAssumption, <1>2
  <2>3. new \in Mirrored /\ OwnPartsOf(p, new) /\ Fetched(p, new) /\ new.tx = 0
    BY <1>2, <1>3, <2>2, ThresholdReplaced
  <2> HIDE DEF new
  <2>4. fetching'[p].read = new /\ fetching'[p].left = Tail(f.left)
    BY <2>1 DEF new
  <2>5. FeesRead(p, new, SidesRead(p, Tail(f.left)))
    BY <1>2, <1>4 DEF FeesRead
  <2>6. QED
    BY <1>2, <2>3, <2>4, <2>5 DEF ReadOk
<1>5. CASE v # "convergence-threshold"
  <2>1. fetching'[p] = [read |-> [f.read EXCEPT !.fee = fee], left |-> Tail(f.left)]
    BY <1>1, <1>5 DEF ReadVariable
  <2>2. \A s \in Side : chain[p].fee[s] \in FeeParts
    BY <1>1 DEF OnChain
  <2>3. \A s \in Side : Charged(p, s) = IF p \in StxAnchored THEN <<sum_three_way(chain[p].fee[s])>>
                                        ELSE <<sum_two_way(chain[p].fee[1])>>
    BY <1>1, <1>2, SumsAllThatIsCharged
  <2>4. \A s \in Side : Charged(p, s) \in Seq(Nat)
    <3>1. 1 \in Side
      BY DEF Side
    <3>2. \A s \in Side : sum_three_way(chain[p].fee[s]) \in Nat /\ sum_two_way(chain[p].fee[1]) \in Nat
      BY <2>2, <3>1, SumsTyped
    <3>3. \A n \in Nat : <<n>> \in Seq(Nat)
      OBVIOUS
    <3>4. QED
      BY <2>3, <3>2, <3>3
  <2>5. /\ v = "buy-fees" => fee[1] = Charged(p, 1) /\ fee[2] = f.read.fee[2]
        /\ v = "sell-fees" => fee[1] = f.read.fee[1] /\ fee[2] = Charged(p, 2)
        /\ v = "swap-fees" => fee[1] = Charged(p, 1) /\ fee[2] = Charged(p, 2)
    <3>1. 1 \in Side /\ 2 \in Side
      BY DEF Side
    <3>2. /\ p \in StxAnchored => /\ Charged(p, 1) = <<sum_three_way(chain[p].fee[1])>>
                                  /\ Charged(p, 2) = <<sum_three_way(chain[p].fee[2])>>
          /\ p \notin StxAnchored => /\ Charged(p, 1) = <<sum_two_way(chain[p].fee[1])>>
                                     /\ Charged(p, 2) = <<sum_two_way(chain[p].fee[1])>>
      BY <2>3, <3>1
    <3>3. fee[1] = FeeRead(p, v, 1, f.read.fee[1]) /\ fee[2] = FeeRead(p, v, 2, f.read.fee[2])
      BY <3>1
    <3> HIDE DEF fee, v
    <3>4. QED
      BY <1>2, <1>5, <3>2, <3>3 DEF FeeRead
  <2>6. fee \in [Side -> Seq(Nat)]
    <3>1. fee[1] \in Seq(Nat) /\ fee[2] \in Seq(Nat)
      BY <1>2, <1>3, <1>5, <2>4, <2>5 DEF Side
    <3>2. QED
      BY <3>1 DEF Side
  <2> DEFINE new == [f.read EXCEPT !.fee = fee]
  <2> HIDE DEF fee
  <2>7. /\ new \in Mirrored /\ OwnPartsOf(p, new) /\ Fetched(p, new) /\ new.tx = 0
        /\ new.fee = fee /\ new.at = f.read.at
    BY <1>2, <1>3, <2>6, FeeReplaced
  <2>8. fetching'[p].read = new /\ fetching'[p].left = Tail(f.left)
    BY <2>1
  <2> HIDE DEF new
  <2>9. FeesRead(p, new, SidesRead(p, Tail(f.left)))
    <3>1. SUFFICES ASSUME Quiet(p, f.read.at, "silent"), NEW s \in SidesRead(p, Tail(f.left))
                   PROVE  fee[s] = Charged(p, s)
      BY <2>7 DEF FeesRead
    <3>2. 1 \in SidesRead(p, f.left) => f.read.fee[1] = Charged(p, 1)
      BY <1>2, <1>3, <3>1 DEF FeesRead
    <3> HIDE DEF v
    <3>3. QED
      BY <1>2, <1>5, <2>5, <3>1, <3>2 DEF Side
  <2>10. QED
    BY <1>2, <2>7, <2>8, <2>9 DEF ReadOk
<1>6. QED
  BY <1>4, <1>5

-----------------------------------------------------------------------------
(* events.rs:26-107: an event handed to a pool brings a part of that pool, *)
(* or, to one whose lock was contended, the reserves of another.           *)
LEMMA ApplyEventIsOk ==
    ASSUME StableTypeOK, ChainInv, MirrorInv, NEW p \in Live, NEW c \in Contract,
           NEW i \in EventsOf(c), Subscribed(p, c) \/ p \in Outsiders
    PROVE  MirrorOk(p, ApplyEvent(p, i))
<1> DEFINE m == mirror[p]
           e == ledger[i]
<1>1. p \in Pool /\ MirrorOk(p, m)
  BY DEF StableTypeOK, MirrorInv
<1>2. Len(ledger) \in Nat /\ DOMAIN ledger = 1 .. Len(ledger) /\ Len(ledger) <= MaxEvents
  BY LenProperties DEF StableTypeOK
<1>3. i \in DOMAIN ledger /\ e.from = c /\ e.act # "silent"
  BY <1>2 DEF EventsOf
<1>4. e \in [pool : Pool, st : OnChain, from : Contract, act : {"balances", "midpoint", "silent"}]
  BY <1>2, <1>3, ElementOfSeq DEF StableTypeOK
<1>5. i \in 1 .. MaxEvents /\ i \in 0 .. MaxEvents /\ i # 0
  BY <1>2, <1>3, StableAssumption
<1>6. /\ e.from = IF e.act = "midpoint" THEN Core[e.pool] ELSE e.pool
      /\ e.act = "midpoint" => e.pool \in V2Pool
  BY <1>3 DEF ChainInv, Told
<1> HIDE DEF m
<1>7. CASE ApplyEvent(p, i) = m
  BY <1>1, <1>7
<1>8. CASE Handled(p, e) /\ e.act = "balances" /\ ApplyEvent(p, i) # m
  <2> DEFINE new == [m EXCEPT !.bal = e.st.bal, !.tx = i, !.bi = i]
  <2>1. ApplyEvent(p, i) = new
    BY <1>8 DEF ApplyEvent, ApplyBalances, m
  <2>2. e.pool = p \/ p \in Outsiders
    BY <1>3, <1>4, <1>6, <1>8, <1>1, OwnContractAssumption DEF Subscribed, Handled
  <2>3. e.st.bal \in [Side -> Nat]
    BY <1>4 DEF OnChain
  <2>4. /\ new \in Mirrored /\ new.bal = e.st.bal /\ new.mid = m.mid /\ new.on = m.on /\ new.fee = m.fee
        /\ new.tx = i /\ new.at = m.at /\ new.bi = i /\ new.mi = m.mi
    BY <1>1, <1>5, <2>3 DEF MirrorOk, Mirrored
  <2> HIDE DEF new
  <2>5. i \in 0 .. Len(ledger) /\ (p \in Outsiders \/ Own(p, i))
    BY <1>2, <1>3, <2>2 DEF Changes, Own
  <2>6. OwnPartsOf(p, new)
    BY <1>1, <1>5, <1>8, <2>4, <2>5 DEF MirrorOk, OwnPartsOf, From, Handled
  <2>7. Fetched(p, new) /\ FeesRead(p, new, Side)
    BY <1>1, <2>4 DEF MirrorOk, Fetched, FeesRead
  <2>8. QED
    BY <2>1, <2>4, <2>6, <2>7 DEF MirrorOk
<1>9. CASE Handled(p, e) /\ e.act = "midpoint" /\ ApplyEvent(p, i) # m
  <2> DEFINE new == [m EXCEPT !.mid = Announced(e), !.tx = i, !.mi = i]
  <2>1. ApplyEvent(p, i) = new /\ e.pool = p /\ Announced(e)[2] # 0
    BY <1>9 DEF ApplyEvent, ApplyMidpoint, TakesMidpoint, m
  <2>2. Announced(e) = e.st.mid
    BY <2>1 DEF Announced
  <2>3. e.st.mid \in [Side -> Nat \ {0}]
    BY <1>4 DEF OnChain
  <2>4. /\ new \in Mirrored /\ new.bal = m.bal /\ new.mid = e.st.mid /\ new.on = m.on /\ new.fee = m.fee
        /\ new.tx = i /\ new.at = m.at /\ new.bi = m.bi /\ new.mi = i
    BY <1>1, <1>5, <2>2, <2>3 DEF MirrorOk, Mirrored
  <2> HIDE DEF new
  <2>5. Own(p, i)
    BY <1>2, <1>3, <2>1 DEF Changes, Own
  <2>6. OwnPartsOf(p, new)
    BY <1>1, <1>5, <1>9, <2>4, <2>5 DEF MirrorOk, OwnPartsOf, From, Handled
  <2>7. Fetched(p, new) /\ FeesRead(p, new, Side)
    BY <1>1, <1>9, <2>4 DEF MirrorOk, Fetched, FeesRead, Handled
  <2>8. QED
    BY <2>1, <2>4, <2>6, <2>7 DEF MirrorOk
<1>10. QED
  <2>1. ~Handled(p, e) => ApplyEvent(p, i) = m
    BY DEF ApplyEvent, m
  <2>2. e.act \in {"balances", "midpoint"}
    BY <1>3, <1>4
  <2>3. QED
    BY <1>7, <1>8, <1>9, <2>1, <2>2

(* What a pool in the registry at first was fetched as.                    *)
LEMMA ReadyIsOk ==
    ASSUME ChainTypeOK, ChainInv, chain = Start, ledger = <<>>, NEW p \in Pool
    PROVE  MirrorOk(p, Ready(p))
<1> DEFINE r == FirstRead(p, 0)
           old(s) == Variables(p)[IF p \in StxAnchored THEN s + 1 ELSE 2]
           fee == [s \in Side |-> IF p \in V2Pool THEN r.fee[s] ELSE FeeRead(p, old(s), s, <<>>)]
           new == [r EXCEPT !.fee = fee, !.threshold = Threshold[p]]
<1>1. ReadOk(p, [read |-> r, left |-> Variables(p)])
  <2>1. 0 \in 0 .. Len(ledger)
    BY LenProperties DEF ChainTypeOK
  <2>2. QED
    BY <2>1, FirstReadIsOk
<1>2. /\ r \in Mirrored /\ r.tx = 0 /\ OwnPartsOf(p, r) /\ Fetched(p, r)
      /\ r.fee \in [Side -> Seq(Nat)] /\ Threshold[p] \in Nat
  BY <1>1, StableAssumption DEF ReadOk, Mirrored
<1>3. Ready(p) = new
  BY DEF Ready
<1>4. p \in V2Pool => fee = r.fee
  BY <1>2
<1>5. p \notin V2Pool => \A s \in Side : fee[s] = Charged(p, s) /\ Charged(p, s) \in Seq(Nat)
  <2>1. SUFFICES ASSUME p \notin V2Pool, NEW s \in Side
                 PROVE  fee[s] = Charged(p, s) /\ Charged(p, s) \in Seq(Nat)
    OBVIOUS
  <2>2. chain[p] \in OnChain /\ Shaped(p, chain[p]) /\ p \in Pool \ V2Pool
    BY <2>1 DEF ChainTypeOK, ChainInv, Shapes
  <2>3. Charged(p, s) = IF p \in StxAnchored THEN <<sum_three_way(chain[p].fee[s])>>
                        ELSE <<sum_two_way(chain[p].fee[1])>>
    BY <2>2, SumsAllThatIsCharged
  <2>4. FeeRead(p, old(s), s, <<>>) = IF p \in StxAnchored THEN <<sum_three_way(chain[p].fee[s])>>
                                      ELSE <<sum_two_way(chain[p].fee[1])>>
    <3>1. CASE p \in StxAnchored
      <4>1. Variables(p) = <<"convergence-threshold", "buy-fees", "sell-fees">>
        BY <2>1, <3>1 DEF Variables
      <4>2. old(s) = IF s = 1 THEN "buy-fees" ELSE "sell-fees"
        BY <3>1, <4>1 DEF Side
      <4> HIDE DEF old
      <4>3. QED
        BY <3>1, <4>2 DEF FeeRead, Side
    <3>2. CASE p \notin StxAnchored
      <4>1. Variables(p) = <<"convergence-threshold", "swap-fees">>
        BY <2>1, <3>2 DEF Variables
      <4>2. old(s) = "swap-fees"
        BY <3>2, <4>1
      <4> HIDE DEF old
      <4>3. QED
        BY <3>2, <4>2 DEF FeeRead
    <3>3. QED
      BY <3>1, <3>2
  <2>5. fee[s] = Charged(p, s)
    BY <2>1, <2>3, <2>4
  <2>6. /\ chain[p].fee[s] \in FeeParts /\ chain[p].fee[1] \in FeeParts
        /\ \A n \in Nat : <<n>> \in Seq(Nat)
    BY <2>2 DEF OnChain, Side
  <2>7. QED
    BY <2>3, <2>5, <2>6, SumsTyped
<1>6. fee \in [Side -> Seq(Nat)]
  BY <1>2, <1>4, <1>5
<1> HIDE DEF fee, r
<1>7. /\ new \in Mirrored /\ new.bal = r.bal /\ new.mid = r.mid /\ new.on = r.on /\ new.tx = r.tx
      /\ new.at = r.at /\ new.bi = r.bi /\ new.mi = r.mi /\ new.fee = fee
  BY <1>2, <1>6 DEF Mirrored
<1> HIDE DEF new
<1>8. OwnPartsOf(p, new)
  <2>1. \A i : From(p, new, i) = From(p, r, i)
    BY <1>7 DEF From
  <2>2. QED
    BY <1>2, <1>7, <2>1 DEF OwnPartsOf
<1>9. Fetched(p, new)
  BY <1>2, <1>4, <1>7 DEF Fetched
<1>10. FeesRead(p, new, Side)
  BY <1>5, <1>7 DEF FeesRead
<1>11. QED
  BY <1>3, <1>7, <1>8, <1>9, <1>10 DEF MirrorOk
-----------------------------------------------------------------------------
(* The invariant holds at first.                                           *)
LEMMA StableInvInit == Init => StableInv
<1> SUFFICES ASSUME Init PROVE StableInv
  OBVIOUS
<1>1. chain = Start /\ ledger = <<>> /\ Len(ledger) = 0 /\ fetching = [p \in {} |-> 0]
  BY DEF Init
<1>2. Live = InitialPools /\ InitialPools \subseteq Pool /\ \A p \in Live : mirror[p] = Ready(p)
  BY StableAssumption DEF Init, Live
<1>3. ChainInv
  BY ChainInvInit
<1>4. ChainTypeOK
  BY <1>1, StableAssumption, EmptySeq DEF ChainTypeOK
<1>5. MirrorInv
  BY <1>1, <1>2, <1>3, <1>4, ReadyIsOk DEF MirrorInv
<1>6. ReadInv
  BY <1>1 DEF ReadInv
<1>7. StableTypeOK
  <2>1. received \in [Contract -> 0 .. Len(ledger)]
    BY <1>1 DEF Init
  <2>2. mirror \in [Live -> Mirrored]
    BY <1>5 DEF MirrorInv, MirrorOk, Init, Live
  <2>3. DOMAIN fetching = {}
    BY <1>1
  <2>4. QED
    BY <1>2, <1>4, <2>1, <2>2, <2>3 DEF StableTypeOK, ChainTypeOK
<1>8. QED
  BY <1>3, <1>5, <1>6, <1>7 DEF StableInv

(* What StableTypeOK says beyond the parts of what is read and mirrored.   *)
Frame ==
    /\ ChainTypeOK /\ received \in [Contract -> 0 .. Len(ledger)]
    /\ DOMAIN fetching \subseteq Managed /\ Live \subseteq Pool
    /\ mirror = [p \in Live |-> mirror[p]]

(* The types follow from what is known of the reads and the mirrors.       *)
LEMMA TypesFromTheParts == Frame /\ ReadInv /\ MirrorInv => StableTypeOK
<1> SUFFICES ASSUME Frame, ReadInv, MirrorInv PROVE StableTypeOK
  OBVIOUS
<1>1. \A p \in DOMAIN fetching : fetching[p].read \in Mirrored
  BY DEF ReadInv, ReadOk
<1>2. \A p \in Live : mirror[p] \in Mirrored
  BY DEF MirrorInv, MirrorOk
<1>3. mirror \in [Live -> Mirrored]
  BY <1>2 DEF Frame
<1>4. QED
  BY <1>1, <1>3 DEF Frame, ChainTypeOK, StableTypeOK

(* Reads and mirrors stay right while the chain does not move.             *)
LEMMA KeptWhole ==
    ASSUME UNCHANGED <<chain, ledger>>
    PROVE  \A q, x : (ReadOk(q, x) => ReadOk(q, x)') /\ (MirrorOk(q, x) => MirrorOk(q, x)')
BY KeptOffChain DEF ReadOk, MirrorOk

(* One step of the fetches, the registry or the processor.                 *)
LEMMA OffChainStep ==
    ASSUME StableInv, UNCHANGED <<chain, ledger>>,
           received' \in [Contract -> 0 .. Len(ledger)],
           DOMAIN fetching' \subseteq Managed, DOMAIN mirror' \subseteq Pool,
           mirror' = [p \in DOMAIN mirror' |-> mirror'[p]],
           \A q \in DOMAIN fetching' : ReadOk(q, fetching'[q]),
           \A q \in DOMAIN mirror' : MirrorOk(q, mirror'[q]), ChainInv'
    PROVE  StableInv'
<1>1. ReadInv' /\ MirrorInv'
  BY KeptWhole DEF ReadInv, MirrorInv, Live
<1>2. Frame'
  BY DEF StableInv, StableTypeOK, Frame, ChainTypeOK, Live
<1>3. StableTypeOK'
  BY <1>1, <1>2, TypesFromTheParts, PTL
<1>4. QED
  BY <1>1, <1>3 DEF StableInv

(* Every step keeps it.                                                    *)
LEMMA StableInvStep ==
    ASSUME StableInv, [Next]_vars
    PROVE  StableInv'
<1>0. /\ StableTypeOK /\ ChainInv /\ ReadInv /\ MirrorInv /\ ChainInv' /\ ChainTypeOK
      /\ Managed \subseteq Pool /\ DOMAIN fetching \subseteq Managed /\ Live \subseteq Pool
      /\ received \in [Contract -> 0 .. Len(ledger)] /\ mirror = [p \in Live |-> mirror[p]]
      /\ Len(ledger) \in Nat
  BY ChainInvStep, StableAssumption, TypesOfTheChain, LenProperties DEF StableInv, StableTypeOK
<1>1. CASE ChainStep
  <2>1. PICK p, st, from, act : Appends(p, st, from, act)
    BY <1>0, <1>1, ChainAppends DEF ChainInv
  <2>2. /\ Grown(p, st, from, act)
        /\ ledger' \in Seq([pool : Pool, st : OnChain, from : Contract,
                            act : {"balances", "midpoint", "silent"}])
    BY <1>0, <2>1, LedgerGrows
  <2>3. ReadInv'
    <3>1. SUFFICES ASSUME NEW q \in DOMAIN fetching
                   PROVE  ReadOk(q, fetching[q])'
      BY <2>2 DEF ReadInv, Grown
    <3>2. ReadOk(q, fetching[q]) /\ q \in Pool /\ fetching' = fetching
      BY <1>0, <2>2 DEF ReadInv, Grown
    <3>3. QED
      BY <1>0, <2>1, <3>2, KeptOnChain DEF ReadOk
  <2>4. MirrorInv'
    <3>1. SUFFICES ASSUME NEW q \in Live
                   PROVE  MirrorOk(q, mirror[q])'
      BY <2>2 DEF MirrorInv, Live, Grown
    <3>2. MirrorOk(q, mirror[q]) /\ q \in Pool /\ mirror' = mirror
      BY <1>0, <2>2 DEF MirrorInv, Grown
    <3>3. QED
      BY <1>0, <2>1, <3>2, KeptOnChain DEF MirrorOk
  <2>5. Frame'
    <3>1. chain' \in [Pool -> OnChain]
      BY <1>0, <2>1, <2>2 DEF Grown, Appends, StableTypeOK
    <3>2. Len(ledger)' <= MaxEvents /\ received' \in [Contract -> 0 .. Len(ledger')]
      BY <1>0, <2>2, StableAssumption DEF Grown
    <3>3. QED
      BY <1>0, <2>2, <3>1, <3>2 DEF Frame, ChainTypeOK, Grown, Live
  <2>6. QED
    <3>1. StableTypeOK'
      BY <2>3, <2>4, <2>5, TypesFromTheParts, PTL
    <3>2. QED
      BY <1>0, <2>3, <2>4, <3>1 DEF StableInv
<1>2. ASSUME NEW p \in Pool, BeginFetch(p)
      PROVE  StableInv'
  <2>1. PICK n \in 0 .. Len(ledger) :
            fetching' = With(fetching, p, [read |-> FirstRead(p, n), left |-> Variables(p)])
    BY <1>2 DEF BeginFetch
  <2>2. ReadOk(p, [read |-> FirstRead(p, n), left |-> Variables(p)])
    BY <1>0, FirstReadIsOk
  <2>3. \A q \in DOMAIN fetching' : ReadOk(q, fetching'[q])
    BY <1>0, <2>1, <2>2 DEF With, ReadInv
  <2>4. DOMAIN fetching' \subseteq Managed /\ UNCHANGED <<chain, ledger, received, mirror>>
    BY <1>0, <1>2, <2>1 DEF With, BeginFetch
  <2>5. QED
    BY <1>0, <2>3, <2>4, OffChainStep DEF MirrorInv, Live
<1>3. ASSUME NEW p \in Pool, ReadVariable(p)
      PROVE  StableInv'
  <2>1. ReadOk(p, fetching'[p])
    BY <1>0, <1>3, ReadVariableIsOk
  <2>2. /\ DOMAIN fetching' = DOMAIN fetching /\ \A q \in DOMAIN fetching \ {p} : fetching'[q] = fetching[q]
        /\ UNCHANGED <<chain, ledger, received, mirror>>
    BY <1>3 DEF ReadVariable
  <2>3. \A q \in DOMAIN fetching' : ReadOk(q, fetching'[q])
    BY <1>0, <2>1, <2>2 DEF ReadInv
  <2>4. QED
    BY <1>0, <2>2, <2>3, OffChainStep DEF MirrorInv, Live
<1>4. ASSUME NEW p \in Pool, ReadFails(p)
      PROVE  StableInv'
  <2>1. /\ \A q \in DOMAIN fetching' : q \in DOMAIN fetching /\ fetching'[q] = fetching[q]
        /\ UNCHANGED <<chain, ledger, received, mirror>>
    BY <1>4 DEF ReadFails, Without
  <2>2. DOMAIN fetching' \subseteq Managed /\ \A q \in DOMAIN fetching' : ReadOk(q, fetching'[q])
    BY <1>0, <2>1 DEF ReadInv
  <2>3. QED
    BY <1>0, <2>1, <2>2, OffChainStep DEF MirrorInv, Live
<1>5. ASSUME NEW p \in Pool, Insert(p)
      PROVE  StableInv'
  <2>1. /\ \A q \in DOMAIN fetching' : q \in DOMAIN fetching /\ fetching'[q] = fetching[q]
        /\ UNCHANGED <<chain, ledger, received>>
    BY <1>5 DEF Insert, Without
  <2>2. DOMAIN fetching' \subseteq Managed /\ \A q \in DOMAIN fetching' : ReadOk(q, fetching'[q])
    BY <1>0, <2>1 DEF ReadInv
  <2>3. MirrorOk(p, fetching[p].read)
    <3>1. ReadOk(p, fetching[p]) /\ fetching[p].left = <<>>
      BY <1>0, <1>5 DEF Insert, ReadInv
    <3>2. SidesRead(p, fetching[p].left) = Side
      BY <3>1 DEF SidesRead
    <3>3. QED
      BY <3>1, <3>2 DEF ReadOk, MirrorOk
  <2>4. /\ mirror' = [q \in Live \cup {p} |-> IF q = p THEN fetching[p].read ELSE mirror[q]]
        /\ DOMAIN mirror' = Live \cup {p}
    BY <1>5 DEF Insert, With, Live
  <2>5. mirror' = [q \in DOMAIN mirror' |-> mirror'[q]] /\ DOMAIN mirror' \subseteq Pool
    BY <1>0, <2>4
  <2>6. \A q \in DOMAIN mirror' : MirrorOk(q, mirror'[q])
    BY <1>0, <2>3, <2>4 DEF MirrorInv
  <2>7. QED
    BY <1>0, <2>1, <2>2, <2>5, <2>6, OffChainStep
<1>6. ASSUME NEW p \in Pool, Remove(p)
      PROVE  StableInv'
  <2>1. /\ mirror' = [q \in Live \ {p} |-> mirror[q]] /\ DOMAIN mirror' = Live \ {p}
        /\ UNCHANGED <<chain, ledger, received, fetching>>
    BY <1>6 DEF Remove, Without, Live
  <2>2. mirror' = [q \in DOMAIN mirror' |-> mirror'[q]] /\ DOMAIN mirror' \subseteq Pool
    BY <1>0, <2>1
  <2>3. \A q \in DOMAIN mirror' : MirrorOk(q, mirror'[q])
    BY <1>0, <2>1 DEF MirrorInv
  <2>4. QED
    BY <1>0, <2>1, <2>2, <2>3, OffChainStep DEF ReadInv
<1>7. ASSUME NEW c \in Contract, Receive(c)
      PROVE  StableInv'
  <2>1. PICK i \in NextEvents(c, received[c]), contended \in SUBSET (Live \cap Outsiders) :
            /\ received' = [received EXCEPT ![c] = i]
            /\ mirror' = [p \in Live |-> IF Subscribed(p, c) \/ p \in contended
                                         THEN ApplyEvent(p, i) ELSE mirror[p]]
            /\ UNCHANGED <<chain, ledger, fetching>>
    BY <1>7 DEF Receive
  <2>2. i \in EventsOf(c) /\ i \in 0 .. Len(ledger)
    BY <1>0, <2>1 DEF NextEvents, EventsOf
  <2>3. received' \in [Contract -> 0 .. Len(ledger)]
    BY <1>0, <2>1, <2>2
  <2>4. DOMAIN mirror' = Live /\ mirror' = [q \in DOMAIN mirror' |-> mirror'[q]]
    BY <2>1
  <2>5. \A q \in Live : Subscribed(q, c) \/ q \in contended => MirrorOk(q, ApplyEvent(q, i))
    BY <1>0, <2>2, ApplyEventIsOk
  <2>6. \A q \in DOMAIN mirror' : MirrorOk(q, mirror'[q])
    BY <1>0, <2>1, <2>4, <2>5 DEF MirrorInv
  <2>7. QED
    BY <1>0, <2>1, <2>3, <2>4, <2>6, OffChainStep DEF ReadInv
<1>8. CASE UNCHANGED vars
  BY <1>0, <1>8, OffChainStep DEF vars, ReadInv, MirrorInv, Live
<1>9. QED
  BY <1>1, <1>2, <1>3, <1>4, <1>5, <1>6, <1>7, <1>8 DEF Next

(* The invariant holds in every state.                                     *)
LEMMA StableInvAlways == Spec => []StableInv
<1>1. StableInv /\ [Next]_vars => StableInv'
  BY StableInvStep
<1>2. QED
  BY StableInvInit, <1>1, PTL DEF Spec

(* Types: a swap at the quoted price overdraws no reserve of any pool, for *)
(* any curve, and no mirror takes a midpoint that cannot be divided by     *)
(* (bitflow_v2.rs:78-109, events.rs:78).                                   *)
THEOREM StableTypesCorrect == Spec => []StableTypeOK
<1>1. StableInv => StableTypeOK
  BY DEF StableInv
<1>2. QED
  BY <1>1, StableInvAlways, PTL

(* Each part of a mirror is what its own pool had, at its fetch or at the  *)
(* last event of its own applied, however many pools share the core and in *)
(* whichever order the two contracts' events arrive (events.rs:26-107); of *)
(* a pool that another task write-locks, which the dispatch then takes for *)
(* subscribed to everything (registry.rs:105-113), so is the midpoint, and *)
(* the reserves are what some pool had at the last event applied.          *)
THEOREM PartsAreOwn == Spec => []OwnParts
<1>1. StableInv => OwnParts
  BY DEF StableInv, MirrorInv, MirrorOk, OwnPartsOf, Own, From, OwnParts
<1>2. QED
  BY <1>1, StableInvAlways, PTL

(* A mirror that is up to date has the terms its contract pays on.         *)
LEMMA UpToDateHasTerms ==
    ASSUME StableTypeOK, ChainInv, NEW p \in Live, MirrorOk(p, mirror[p]), UpToDate(p)
    PROVE  LET m == mirror[p]
           IN  /\ m.bal = chain[p].bal /\ m.mid = chain[p].mid /\ m.on = chain[p].on
               /\ m.fee = [s \in Side |-> Charged(p, s)] /\ m.threshold = Threshold[p]
<1> DEFINE m == mirror[p]
           len == Len(ledger)
           Known(i) == IF i = 0 THEN m.at ELSE i
<1>1. /\ p \in Pool /\ m.at \in 0 .. len /\ OwnPartsOf(p, m) /\ Fetched(p, m) /\ FeesRead(p, m, Side)
      /\ m.fee \in [Side -> Seq(Nat)] /\ KeptSince /\ Shaped(p, chain[p]) /\ len \in Nat
      /\ Changes(p, len) \subseteq 1 .. len
  BY LenProperties DEF StableTypeOK, MirrorOk, Fetched, ChainInv, Shapes, Mirrored, Changes
<1>2. /\ m.threshold = Threshold[p] /\ Own(p, m.bi) /\ Own(p, m.mi)
      /\ \A i \in Changes(p, len) :
             IF p \in V2Pool /\ ledger[i].act = "balances" THEN i <= Known(m.bi)
             ELSE IF p \in V2Pool /\ ledger[i].act = "midpoint" THEN i <= Known(m.mi) ELSE i <= m.at
  BY <1>1 DEF UpToDate, OwnPartsOf
<1>3. /\ p \in V2Pool => Quiet(p, Known(m.bi), "balances") /\ Quiet(p, Known(m.mi), "midpoint")
      /\ p \notin V2Pool => Quiet(p, m.at, "balances")
      /\ Quiet(p, m.at, "silent")
  BY <1>2 DEF Quiet
<1>4. ASSUME NEW i \in {m.bi, m.mi}
      PROVE  Known(i) \in 0 .. len
  <2>1. i # 0 => i \in 1 .. len
    BY <1>1, <1>2 DEF Own
  <2>2. QED
    BY <1>1, <2>1
<1>5. ASSUME NEW i \in {m.bi, m.mi}
      PROVE  From(p, m, i) = StateAt(p, Known(i))
  BY <1>1, <1>2, StateAtChange DEF From, Own
<1> HIDE DEF Known, m
<1>6. m.bal = chain[p].bal
  <2>1. CASE p \in V2Pool
    BY <1>1, <1>3, <1>4, <1>5, <2>1 DEF OwnPartsOf, KeptSince
  <2>2. CASE p \notin V2Pool
    <3>1. m.bi = 0
      BY <1>1, <2>2 DEF OwnPartsOf
    <3>2. QED
      BY <1>1, <1>3, <2>2, <3>1 DEF OwnPartsOf, From, KeptSince
  <2>3. QED
    BY <2>1, <2>2
<1>7. m.mid = chain[p].mid
  <2>1. CASE p \in V2Pool
    BY <1>1, <1>3, <1>4, <1>5, <2>1 DEF OwnPartsOf, KeptSince
  <2>2. CASE p \notin V2Pool
    BY <1>1, <2>2 DEF Fetched, Shaped
  <2>3. QED
    BY <2>1, <2>2
<1>8. /\ m.on = chain[p].on
      /\ StateAt(p, m.at).fee = chain[p].fee
  BY <1>1, <1>3 DEF Fetched, KeptSince
<1>9. m.fee = [s \in Side |-> Charged(p, s)]
  <2>1. CASE p \in V2Pool
    BY <1>1, <1>8, <2>1 DEF Fetched, Charged
  <2>2. CASE p \notin V2Pool
    BY <1>1, <1>3, <2>2 DEF FeesRead
  <2>3. QED
    BY <2>1, <2>2
<1>10. QED
  BY <1>2, <1>6, <1>7, <1>8, <1>9 DEF m

(* A mirror that has taken all that was announced of its pool, last its    *)
(* own reserves if its lock is contended, and whose silent parts have not  *)
(* changed since the fetch, quotes on the contract's terms, in whichever   *)
(* order fetch and streams brought them; the sums of the V1 fees are all   *)
(* that is charged (fetcher.rs:211-227, 263-286).                          *)
THEOREM UpToDateQuotesOnTerms == Spec => []QuotesOnTerms
<1>1. StableInv => QuotesOnTerms
  <2> SUFFICES ASSUME StableInv, NEW p \in Live, UpToDate(p)
               PROVE  [bal |-> mirror[p].bal, mid |-> mirror[p].mid, on |-> mirror[p].on,
                       fee |-> mirror[p].fee, threshold |-> mirror[p].threshold] = Terms(p)
    BY DEF QuotesOnTerms
  <2>1. QED
    BY UpToDateHasTerms DEF StableInv, MirrorInv, Terms
<1>2. QED
  BY <1>1, StableInvAlways, PTL
=============================================================================
