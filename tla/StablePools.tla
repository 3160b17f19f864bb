---------------------------- MODULE StablePools ----------------------------
(***************************************************************************)
(* The stableswap pools (stableswap/*.rs): Bitflow V2 pools, whose         *)
(* reserves are announced by the pool and whose midpoint by its core, and  *)
(* the two generations of V1 pools, which announce nothing a mirror uses.  *)
(* What the fetchers read while the chain moves (fetcher.rs), what the     *)
(* handlers apply (events.rs), and what a mirror quotes (bitflow_v1.rs,    *)
(* bitflow_v2.rs).                                                         *)
(*                                                                         *)
(* Side 1 is x and side 2 is y; dispatch is one step (V2Pools has it pool  *)
(* by pool).                                                               *)
(***************************************************************************)
EXTENDS StableCurve, Sequences, FiniteSets, Functions

CONSTANTS
    Pool,           \* the pools; a pool's name is also its contract
    Kind,           \* Kind[p]: "v2", "bug" (V1 BalBug) or "fixed" (V1 Fixed)
    Core,           \* Core[p]: core_contract of a V2 pool
    StxAnchored,    \* the V1 pools with buy and sell fees of their own
    Bare,           \* the V2 pools whose core has no midpoint and no status
    Garbled,        \* <<p, "balances">>: reserves of p are announced without a
                    \* field; <<p, "midpoint">>: its midpoint over 0
    Decimals,       \* Decimals[p][s]
    Amp, Threshold, \* Amp[p], Threshold[p]
    Start,          \* Start[p]: what p is on chain at first
    InitialPools,   \* the pools in the registry from the start
    Managed,        \* the pools a caller fetches and inserts meanwhile
    Outsiders,      \* the pools some task beside the processor write-locks
    Amount,         \* the amounts swapped
    Asked,          \* the amounts asked a quote for
    Midpoints,      \* the midpoints set: <<numerator, denominator>>
    Bps,            \* BPS
    Slack,          \* the rounding a quote is allowed, in units of the output
    Together,       \* bound: the sets of pools a behaviour is about
    MaxChanges,     \* bound: MaxChanges[p] changes of p on chain in a behaviour
    MaxEvents       \* bound: and changes of all pools

Side == {1, 2}
Other(s) == 3 - s
V2Pool == {p \in Pool : Kind[p] = "v2"}
Contract == Pool \cup {Core[p] : p \in V2Pool}

(* The fee a contract stores for a side, part by part.                     *)
FeeParts == [{"protocol", "provider"} -> Nat] \cup [{"lps", "protocol"} -> Nat] \cup
            [{"lps", "stacking-dao", "bitflow"} -> Nat]

(* A StxAnchored pool has a tuple for either direction, a token-pair pool  *)
(* one for both; a V2 pool has its fees by side.                           *)
PartNames(p) ==
    IF p \in V2Pool THEN {"protocol", "provider"}
    ELSE IF p \in StxAnchored THEN {"lps", "stacking-dao", "bitflow"} ELSE {"lps", "protocol"}
TwoTuples(p) == p \in V2Pool \cup StxAnchored

OnChain == [bal : [Side -> Nat], mid : [Side -> Nat \ {0}], on : BOOLEAN, fee : [Side -> FeeParts]]

ASSUME StableAssumption ==
    /\ Kind \in [Pool -> {"v2", "bug", "fixed"}] /\ DOMAIN Core = V2Pool
    /\ StxAnchored \subseteq Pool \ V2Pool /\ Bare \subseteq V2Pool
    /\ InitialPools \subseteq Pool /\ Managed \subseteq Pool /\ Outsiders \subseteq Pool
    /\ Amount \subseteq Nat \ {0} /\ Asked \subseteq Nat /\ Bps \in Nat \ {0}
    /\ MaxChanges \in [Pool -> Nat] /\ MaxEvents \in Nat
    /\ Start \in [Pool -> OnChain]
    /\ Midpoints \subseteq [Side -> Nat \ {0}]
    /\ Threshold \in [Pool -> Nat]
    /\ \A p \in Pool, s \in Side : DOMAIN Start[p].fee[s] = PartNames(p)
    /\ \A p \in Pool : TwoTuples(p) \/ Start[p].fee[1] = Start[p].fee[2]
    /\ \A p \in Pool : p \in V2Pool \ Bare \/ Start[p].mid = <<1, 1>>
    /\ \A p \in Bare : Start[p].on
ASSUME OwnContractAssumption == \A p \in V2Pool : Core[p] \notin Pool

VARIABLES
    chain,      \* chain[p]: what p is on chain
    ledger,     \* the changes, in order, with the event that tells of each
    received,   \* received[c]: index of the last event of c received
    fetching,   \* the pools a fetch has begun to read
    mirror      \* the registered pools

(* Of a pool read or registered: reserves, midpoint, status, fees in basis *)
(* points, threshold; `tx` is the event last_tx_id names, 0 for None.  The *)
(* rest is history: `at` the changes when the fetch began, `bi` and `mi`   *)
(* the events its reserves and its midpoint come from.                     *)
Mirrored ==
    [bal : [Side -> Nat], mid : [Side -> Nat \ {0}], on : BOOLEAN, fee : [Side -> Seq(Nat)],
     threshold : Nat, tx : 0 .. MaxEvents, at : 0 .. MaxEvents, bi : 0 .. MaxEvents,
     mi : 0 .. MaxEvents]

vars == <<chain, ledger, received, fetching, mirror>>
Live == DOMAIN mirror

Touched == {ledger[i].pool : i \in DOMAIN ledger} \cup DOMAIN fetching \cup (Live \ InitialPools)
InBounds(p) == \E set \in Together : Touched \cup {p} \subseteq set

-----------------------------------------------------------------------------
(* Quotes.  m has the terms to quote on: bal, mid, on, fee, threshold.     *)
(* The midpoint is inverted for an input of y.                             *)
Straight_Fault(m, s, n) == IF m.mid[2] = 0 THEN 0 ELSE Times(n, m.mid[1]) \div m.mid[2]
Pegged(m, s, n) == IF m.mid[Other(s)] = 0 THEN 0 ELSE Times(n, m.mid[s]) \div m.mid[Other(s)]

Up(p, s, n) == ScaledUp(n, Decimals[p][s], Decimals[p][Other(s)])
Down(p, s, n) == ScaledDown(n, Decimals[p][s], Decimals[p][Other(s)])
PartOf(n, bps) == Times(n, bps) \div Bps

(* What is left of an input, scaled up: V2 charges two fees, each rounded  *)
(* down, on the scaled input; V1 takes one, of the input as it is.         *)
NetIn(p, m, s, dx) ==
    IF p \in V2Pool
    THEN Minus(Up(p, s, dx), PartOf(Up(p, s, dx), m.fee[s][1]) + PartOf(Up(p, s, dx), m.fee[s][2]))
    ELSE Minus(Up(p, s, dx), PartOf(dx, m.fee[s][1]))

quote_amount_out(p, m, s, dx) ==
    LET new_y == get_y(Pegged(m, s, NetIn(p, m, s, dx)), Pegged(m, s, Up(p, s, m.bal[s])),
                       Up(p, Other(s), m.bal[Other(s)]), Amp[p], m.threshold)
    IN  IF dx = 0 \/ 0 \in {m.bal[1], m.bal[2], m.mid[Other(s)]} THEN 0
        ELSE Minus(m.bal[Other(s)], Down(p, Other(s), new_y))

(* A BalBug pool hands get_y reserves that have the input already.         *)
Crossed_Fault(variant, x, net) == IF variant = "bug" THEN x ELSE Plus(x, net)
XForY(variant, x, net) == IF variant = "bug" THEN Plus(x, net) ELSE x

get_dy(p, m, s, dx, variant) ==
    LET net == NetIn(p, m, s, dx)
        new_y == get_y(net, XForY(variant, Up(p, s, m.bal[s]), net),
                       Up(p, Other(s), m.bal[Other(s)]), Amp[p], m.threshold)
    IN  IF dx = 0 \/ 0 \in {m.bal[1], m.bal[2]} THEN 0
        ELSE Minus(m.bal[Other(s)], Down(p, Other(s), new_y))

(* calculate_output with the token of side s as token_in.                  *)
Quote(p, m, s, dx) ==
    IF ~m.on THEN 0
    ELSE IF p \in V2Pool THEN quote_amount_out(p, m, s, dx) ELSE get_dy(p, m, s, dx, Kind[p])

-----------------------------------------------------------------------------
(* The chain.  A contract pays what the quote formula says, with all of    *)
(* the fees it stores; of the fee any part may stay in the pool.           *)
Total(parts) == FoldFunction(LAMBDA m, n : m + n, 0, parts)
Charged(p, s) ==
    LET parts == chain[p].fee[s]
    IN  IF p \in V2Pool THEN <<parts["protocol"], parts["provider"]>> ELSE <<Total(parts)>>

Terms(p) ==
    [bal |-> chain[p].bal, mid |-> chain[p].mid, on |-> chain[p].on,
     fee |-> [s \in Side |-> Charged(p, s)], threshold |-> Threshold[p]]
Pays(p, s, dx) == Quote(p, Terms(p), s, dx)

Change(p, st, from, act) ==
    /\ chain' = [chain EXCEPT ![p] = st]
    /\ ledger' = Append(ledger, [pool |-> p, st |-> st, from |-> from, act |-> act])
    /\ UNCHANGED <<received, fetching, mirror>>

Kept(p, s, dx) == {k \in 0 .. dx : k \in {dx, Down(p, s, NetIn(p, Terms(p), s, dx))}}

Swap(p, s, dx, kept) ==
    LET out == Pays(p, s, dx)
    IN  /\ out > 0
        /\ Change(p, [chain[p] EXCEPT !.bal[s] = @ + kept, !.bal[Other(s)] = @ - out], p, "balances")

AddLiquidity(p, dx) ==
    Change(p, [chain[p] EXCEPT !.bal = [s \in Side |-> @[s] + dx]], p, "balances")

(* The core announces a new midpoint, naming the pool.                     *)
SetMidpoint(p, mid) ==
    p \in V2Pool \ Bare /\ Change(p, [chain[p] EXCEPT !.mid = mid], Core[p], "midpoint")

(* Status, approval and fees change without an event that a mirror reads.  *)
Switch(p) == p \notin Bare /\ Change(p, [chain[p] EXCEPT !.on = ~@], p, "silent")

SetFees(p) ==
    Change(p, [chain[p] EXCEPT !.fee = [s \in Side |->
                  [k \in DOMAIN @[s] |-> @[s][k] + IF TwoTuples(p) THEN s ELSE 1]]], p, "silent")

Changes(p, n) == {i \in 1 .. n : ledger[i].pool = p}

ChainStep ==
    /\ Len(ledger) < MaxEvents
    /\ \E p \in Pool :
          /\ InBounds(p) /\ Cardinality(Changes(p, Len(ledger))) < MaxChanges[p]
          /\ \/ \E dx \in Amount :
                   \/ \E s \in Side : \E kept \in Kept(p, s, dx) : Swap(p, s, dx, kept)
                   \/ AddLiquidity(p, dx)
             \/ \E mid \in Midpoints : SetMidpoint(p, mid)
             \/ Switch(p)
             \/ SetFees(p)

-----------------------------------------------------------------------------
(* Fetching.  The first call is answered at the tip the caller named, the  *)
(* state after n changes; the variables of a V1 pool are read later, one   *)
(* by one, each as it is then.                                             *)
StateAt(p, n) ==
    IF Changes(p, n) = {} THEN Start[p]
    ELSE ledger[CHOOSE i \in Changes(p, n) : \A j \in Changes(p, n) : j <= i].st

Variables(p) ==
    CASE p \in V2Pool -> <<>>
      [] p \in StxAnchored -> <<"convergence-threshold", "buy-fees", "sell-fees">>
      [] OTHER -> <<"convergence-threshold", "swap-fees">>

(* get-pool of V2, with 1/1, true and 2 for what an older core lacks, and  *)
(* get-pair-data of V1.                                                    *)
FirstRead(p, n) ==
    LET st == StateAt(p, n)
        v2 == p \in V2Pool
    IN  [bal |-> st.bal, on |-> IF p \in Bare THEN TRUE ELSE st.on,
         mid |-> IF v2 /\ p \notin Bare THEN st.mid ELSE <<1, 1>>,
         fee |-> [s \in Side |-> IF v2 THEN <<st.fee[s]["protocol"], st.fee[s]["provider"]>>
                                 ELSE <<>>],
         threshold |-> IF v2 /\ p \notin Bare THEN Threshold[p] ELSE 2,
         tx |-> 0, at |-> n, bi |-> 0, mi |-> 0]

With(f, p, r) == [q \in DOMAIN f \cup {p} |-> IF q = p THEN r ELSE f[q]]
Without(f, p) == [q \in DOMAIN f \ {p} |-> f[q]]

BeginFetch(p) ==
    /\ p \in Managed \ DOMAIN fetching /\ InBounds(p)
    /\ \E n \in 0 .. Len(ledger) :
          fetching' = With(fetching, p, [read |-> FirstRead(p, n), left |-> Variables(p)])
    /\ UNCHANGED <<chain, ledger, received, mirror>>

(* sum_three_way and sum_two_way: a part the tuple lacks counts as 0.      *)
Part(parts, k) == IF k \in DOMAIN parts THEN parts[k] ELSE 0
sum_two_way(parts) == Part(parts, "lps") + Part(parts, "protocol")
TwoParts_Fault(parts) == Part(parts, "lps") + Part(parts, "stacking-dao")
sum_three_way(parts) == Part(parts, "lps") + Part(parts, "stacking-dao") + Part(parts, "bitflow")

(* One side of the fees that the fetch reads with variable v.              *)
FeeRead(p, v, s, old) ==
    CASE v = "buy-fees" /\ s = 1 -> <<sum_three_way(chain[p].fee[1])>>
      [] v = "sell-fees" /\ s = 2 -> <<sum_three_way(chain[p].fee[2])>>
      [] v = "swap-fees" -> <<sum_two_way(chain[p].fee[1])>>
      [] OTHER -> old

(* A variable is read.  A threshold that cannot be had counts as 2, a fee  *)
(* that cannot be had ends the fetch.                                      *)
ReadVariable(p) ==
    /\ p \in DOMAIN fetching /\ fetching[p].left # <<>>
    /\ LET v == Head(fetching[p].left)
           old == fetching[p].read
           Next1(read) == [read |-> read, left |-> Tail(fetching[p].left)]
       IN  IF v = "convergence-threshold"
           THEN \E t \in {Threshold[p], 2} :
                    fetching' = [fetching EXCEPT ![p] = Next1([old EXCEPT !.threshold = t])]
           ELSE fetching' = [fetching EXCEPT ![p] =
                    Next1([old EXCEPT !.fee = [s \in Side |-> FeeRead(p, v, s, old.fee[s])]])]
    /\ UNCHANGED <<chain, ledger, received, mirror>>

ReadFails(p) ==
    /\ p \in DOMAIN fetching /\ fetching[p].left # <<>>
    /\ Head(fetching[p].left) # "convergence-threshold"
    /\ fetching' = Without(fetching, p)
    /\ UNCHANGED <<chain, ledger, received, mirror>>

Insert(p) ==
    /\ p \in DOMAIN fetching /\ fetching[p].left = <<>>
    /\ mirror' = With(mirror, p, fetching[p].read)
    /\ fetching' = Without(fetching, p)
    /\ UNCHANGED <<chain, ledger, received>>

Remove(p) ==
    /\ p \in Live \cap Managed
    /\ mirror' = Without(mirror, p)
    /\ UNCHANGED <<chain, ledger, received, fetching>>

-----------------------------------------------------------------------------
(* The next event of contract c after the first n changes, if any.         *)
EventsOf(c) == {i \in 1 .. Len(ledger) : ledger[i].from = c /\ ledger[i].act # "silent"}
NextEvents(c, n) == {i \in EventsOf(c) : i > n /\ \A j \in EventsOf(c) : j <= n \/ i <= j}

(* topics(): the pool itself, and for V2 its core.                         *)
Subscribed(p, c) == c = p \/ (p \in V2Pool /\ c = Core[p])

(* The V2 handlers: reserves as any pool announces them, a midpoint that   *)
(* names the pool and can be divided by.                                   *)
ApplyBalances(p, i) ==
    IF <<ledger[i].pool, "balances">> \in Garbled THEN mirror[p]
    ELSE [mirror[p] EXCEPT !.bal = ledger[i].st.bal, !.tx = i, !.bi = i]

Announced(e) == IF <<e.pool, "midpoint">> \in Garbled THEN <<e.st.mid[1], 0>> ELSE e.st.mid

AnyPool_Fault(p, e) == Announced(e)[2] # 0
AnyMidpoint_Fault(p, e) == e.pool = p
TakesMidpoint(p, e) == e.pool = p /\ Announced(e)[2] # 0

ApplyMidpoint(p, i) ==
    IF TakesMidpoint(p, ledger[i])
    THEN [mirror[p] EXCEPT !.mid = Announced(ledger[i]), !.tx = i, !.mi = i]
    ELSE mirror[p]

(* The V1 handler does nothing, and no handler knows V1's own events.      *)
Handled(p, e) == p \in V2Pool /\ e.pool \in V2Pool
ApplyEvent(p, i) ==
    CASE ~Handled(p, ledger[i]) -> mirror[p]
      [] Handled(p, ledger[i]) /\ ledger[i].act = "balances" -> ApplyBalances(p, i)
      [] Handled(p, ledger[i]) /\ ledger[i].act = "midpoint" -> ApplyMidpoint(p, i)

(* The processor receives the next event of a contract and hands it to     *)
(* every pool subscribed, and to any the lock of which cannot be had at    *)
(* once; the contracts' streams are polled one by one.                     *)
Receive(c) ==
    /\ \E i \in NextEvents(c, received[c]), contended \in SUBSET (Live \cap Outsiders) :
          /\ received' = [received EXCEPT ![c] = i]
          /\ mirror' = [p \in Live |-> IF Subscribed(p, c) \/ p \in contended
                                       THEN ApplyEvent(p, i) ELSE mirror[p]]
    /\ UNCHANGED <<chain, ledger, fetching>>

-----------------------------------------------------------------------------
Ready(p) == [FirstRead(p, 0) EXCEPT
    !.fee = [s \in Side |-> IF p \in V2Pool THEN @[s]
                            ELSE FeeRead(p, Variables(p)[IF p \in StxAnchored THEN s + 1 ELSE 2], s, <<>>)],
    !.threshold = Threshold[p]]

(* The initial pools were fetched and inserted before anything happened.   *)
Init ==
    /\ chain = Start /\ ledger = <<>>
    /\ received = [c \in Contract |-> 0]
    /\ fetching = [p \in {} |-> 0]
    /\ mirror = [p \in InitialPools |-> Ready(p)]

Next ==
    \/ ChainStep
    \/ \E p \in Pool : BeginFetch(p) \/ ReadVariable(p) \/ ReadFails(p) \/ Insert(p) \/ Remove(p)
    \/ \E c \in Contract : Receive(c)

Spec == Init /\ [][Next]_vars

-----------------------------------------------------------------------------
(* Type correctness: a swap at the quoted price overdraws no reserve, and  *)
(* no event brings a midpoint that cannot be divided by (events.rs:78).    *)
StableTypeOK ==
    /\ chain \in [Pool -> OnChain]
    /\ ledger \in Seq([pool : Pool, st : OnChain, from : Contract,
                       act : {"balances", "midpoint", "silent"}]) /\ Len(ledger) <= MaxEvents
    /\ received \in [Contract -> 0 .. Len(ledger)]
    /\ DOMAIN fetching \subseteq Managed /\ Live \subseteq Pool
    /\ \A p \in DOMAIN fetching : fetching[p].read \in Mirrored
    /\ mirror \in [Live -> Mirrored]

(* Reserves and midpoint of a mirror come on the streams of two contracts, *)
(* the core's shared with other pools, after a fetch that may be older or  *)
(* newer than either.  Each is what that pool had at one time on chain:    *)
(* at the fetch, or at the last event of its own applied.  Of a pool that  *)
(* another task write-locks this holds of the midpoint only: its reserves  *)
(* are what some pool had, at the last event applied.  V1 stays as it was  *)
(* fetched, locked or not.                                                 *)
Own(p, i) == i # 0 => i \in Changes(p, Len(ledger))

OwnParts ==
    \A p \in Live :
        LET m == mirror[p]
            From(i) == IF i = 0 THEN StateAt(p, m.at) ELSE ledger[i].st
        IN  /\ m.bi \in 0 .. Len(ledger) /\ (p \in Outsiders \/ Own(p, m.bi))
            /\ m.bal = From(m.bi).bal
            /\ Own(p, m.mi) /\ (p \in V2Pool => m.mid = From(m.mi).mid)
            /\ m.tx \in {m.bi, m.mi} /\ (m.tx = 0 <=> m.bi = 0 /\ m.mi = 0)
            /\ p \notin V2Pool => m.tx = 0

(* The mirror has taken, or was fetched after, all that was announced of   *)
(* its pool, the reserves it took last are its own, and what is not        *)
(* announced has not changed since the fetch.                              *)
UpToDate(p) ==
    LET m == mirror[p]
        Known(i) == IF i = 0 THEN m.at ELSE i
    IN  /\ m.threshold = Threshold[p] /\ Own(p, m.bi)
        /\ \A i \in Changes(p, Len(ledger)) :
              i <= CASE p \in V2Pool /\ ledger[i].act = "balances" -> Known(m.bi)
                     [] p \in V2Pool /\ ledger[i].act = "midpoint" -> Known(m.mi)
                     [] OTHER -> m.at

(* A mirror that is up to date quotes on the terms the contract pays on,   *)
(* whatever the order in which the fetch and the two streams brought its   *)
(* parts; so does one that held another pool's reserves, from the next     *)
(* event of its own on.                                                    *)
QuotesOnTerms ==
    \A p \in Live : UpToDate(p) =>
        [bal |-> mirror[p].bal, mid |-> mirror[p].mid, on |-> mirror[p].on, fee |-> mirror[p].fee,
         threshold |-> mirror[p].threshold] = Terms(p)

(* A quote stays on the curve: after it the pool holds what it held, and   *)
(* no more, up to Slack units of the output.  Amounts are compared on one  *)
(* curve for both directions, x times the numerator and y times the        *)
(* denominator of the midpoint, so the inversion for y is checked too.     *)
QuoteOnCurve ==
    \A p \in Live, s \in Side, dx \in Asked :
        LET m == mirror[p]
            o == Other(s)
            unit == Up(p, o, 1) * m.mid[o]
            x == Up(p, s, m.bal[s]) * m.mid[s]
            y == m.bal[o] * unit
            net == NetIn(p, m, s, dx) * m.mid[s]
            left == y - Quote(p, m, s, dx) * unit
        IN  Kind[p] # "bug" /\ m.on =>
                LET held == Level(x, y, Amp[p])
                IN  /\ Holds(x + net, left + Slack * unit, Amp[p], held)
                    /\ ~Holds(x + net, Minus(left, Slack * unit), Amp[p], held + 1)

(* A BalBug pool pays no more than the fixed formula, up to Slack, as the  *)
(* test of bitflow_v1.rs:338 expects of one quote.                         *)
BugPaysLess ==
    \A p \in Live, s \in Side, dx \in Asked :
        Kind[p] = "bug" =>
            get_dy(p, mirror[p], s, dx, "bug") <= get_dy(p, mirror[p], s, dx, "fixed") + Slack
=============================================================================
