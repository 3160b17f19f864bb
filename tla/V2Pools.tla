------------------------------ MODULE V2Pools ------------------------------
(***************************************************************************)
(* The constant-product pools (v2/*.rs): what they do on chain, how the    *)
(* fetchers latch one (v2/fetcher.rs), how the processor's dispatch brings *)
(* an event to the registered pools one write lock at a time               *)
(* (event_processor.rs, registry.rs), what each handler makes of it        *)
(* (v2/events.rs), and what a mirror quotes.                               *)
(*                                                                         *)
(* A pool has two sides.  On chain they are 1 and 2, in the order of the   *)
(* contract; in a mirror they are the caller's x and y, again 1 and 2.     *)
(***************************************************************************)
EXTENDS Integers, Sequences, FiniteSets

CONSTANTS
    Pool,           \* the pools
    Kind,           \* Kind[p]: "arkadiko", "velar", "alex" or "xyk"
    Emitter,        \* Emitter[p]: the contract that emits the events of p
    Reversed,       \* the pools whose caller names the tokens the other way
    Fee,            \* Fee[p][i]: what p charges on an input of chain side i
    InitialPools,   \* the pools in the registry from the start
    Managed,        \* the pools a caller adds and removes meanwhile
    Outsiders,      \* the pools some task beside the processor write-locks
    Start,          \* Start[p]: the reserves p starts with
    Amount,         \* the amounts swapped and added
    Asked,          \* the amounts asked a quote for
    RatioNum, RatioDen, \* ARKADIKO_FEE_NUM, ARKADIKO_FEE_DEN
    Bps,            \* BPS
    OneE8,          \* ONE_E8
    MaxEvents       \* bound: events emitted in a behaviour

Kinds == {"arkadiko", "velar", "alex", "xyk"}
Side == {1, 2}
Other(i) == 3 - i
Contract == {Emitter[p] : p \in Pool}

ASSUME V2Assumption ==
    /\ Kind \in [Pool -> Kinds] /\ Pool = DOMAIN Emitter
    /\ Start \in [Pool -> [Side -> Nat \ {0}]]
    /\ Reversed \subseteq Pool /\ InitialPools \subseteq Pool
    /\ Managed \subseteq Pool /\ Outsiders \subseteq Pool
    /\ Amount \cup Asked \subseteq Nat /\ MaxEvents \in Nat
    /\ RatioDen \in Nat \ {0} /\ RatioNum \in 0 .. RatioDen
    /\ Bps \in Nat \ {0} /\ OneE8 \in Nat \ {0}
    /\ \A p \in Pool : \A i \in Side :
          CASE Kind[p] = "arkadiko" -> TRUE
            [] Kind[p] = "velar" -> Fee[p][i].num \in Nat /\ Fee[p][i].den \in Nat
            [] Kind[p] = "alex" -> Fee[p][i].rate \in Nat
            [] Kind[p] = "xyk" -> Fee[p][i].protocol \in Nat /\ Fee[p][i].provider \in Nat

(* A pool of its own contract (xyk) is fetched in that contract's order    *)
(* only and emits alone; the others are pairs of a shared contract.        *)
ASSUME SharingAssumption ==
    \A p, q \in Pool : Kind[p] = "xyk" /\ Emitter[p] = Emitter[q] => p = q
ASSUME OrderAssumption == \A p \in InitialPools : Kind[p] = "xyk" => p \notin Reversed

VARIABLES
    chain,      \* chain[p]: reserves and status of p on chain
    ledger,     \* the events emitted, in order: [pool, bal, on, act]
    received,   \* received[c]: index of the last event of c received
    todo,       \* apply_event calls dispatch() has to make: <<event, pool>>
    held,       \* the pools an outsider has write-locked
    fetched,    \* the pools fetched and not inserted yet: [bal, on, at]
    mirror      \* by_id: [bal, on, tx, at, since] of the registered pools

(* tx is the index of the event named by last_tx_id, 0 for None.  `at` and *)
(* `since` are history: the events emitted when the pool was fetched, and  *)
(* those of its contract received when it was inserted.                    *)

chainVars == <<chain, ledger>>
taskVars == <<received, todo, held, fetched, mirror>>
vars == <<chainVars, taskVars>>

Live == DOMAIN mirror

-----------------------------------------------------------------------------
(* Quotes.  Products stay below 2^128 for the contracts' balances, so no   *)
(* operation saturates.                                                    *)
(* saturating_sub.                                                         *)
Monus(m, n) == IF m > n THEN m - n ELSE 0

(* What is left of an input dx: of a ratio, of a rate charged with mul_up, *)
(* and of two fees in basis points, each rounded down.                     *)
RatioNet(dx, num, den) == IF den = 0 \/ num > den THEN 0 ELSE (dx * num) \div den
MulUp(a, b) == (a * b + OneE8 - 1) \div OneE8
RateNet(dx, rate) == Monus(dx, MulUp(dx, rate))
BpsNet(dx, protocol, provider) == Monus(dx, (dx * protocol) \div Bps + (dx * provider) \div Bps)

(* The fee on an input of chain side i.                                    *)
Net(p, i, dx) ==
    CASE Kind[p] = "arkadiko" -> RatioNet(dx, RatioNum, RatioDen)
      [] Kind[p] = "velar" -> RatioNet(dx, Fee[p][i].num, Fee[p][i].den)
      [] Kind[p] = "alex" -> RateNet(dx, Fee[p][i].rate)
      [] Kind[p] = "xyk" -> BpsNet(dx, Fee[p][i].protocol, Fee[p][i].provider)

StaleIn_Fault(net, in, out) == IF net = 0 \/ in = 0 \/ out = 0 THEN 0 ELSE (out * net) \div in
RoundUp_Fault(net, in, out) ==
    IF net = 0 \/ in = 0 \/ out = 0 THEN 0 ELSE (out * net + in + net - 1) \div (in + net)
Out(net, in, out) == IF net = 0 \/ in = 0 \/ out = 0 THEN 0 ELSE (out * net) \div (in + net)

(* The caller's side s of p is this side on chain, and the other way.      *)
(* The fetchers turn a pool's reserves and, with them, its fees.           *)
Turn(p, s) == IF p \in Reversed THEN Other(s) ELSE s
Turned(p, bal) == [s \in Side |-> bal[Turn(p, s)]]

Unturned_Fault(p, s) == s
FeeSide(p, s) == Turn(p, s)

(* Arkadiko and xyk have a status that stops quotes and swaps.             *)
Switched(p) == Kind[p] \in {"arkadiko", "xyk"}

(* calculate_output with the caller's token s as token_in.                 *)
Quote(p, s, dx) ==
    IF Switched(p) /\ ~mirror[p].on THEN 0
    ELSE Out(Net(p, FeeSide(p, s), dx), mirror[p].bal[s], mirror[p].bal[Other(s)])

-----------------------------------------------------------------------------
(* The chain.  A swap pays what the quote computes, which the code says is *)
(* the contracts' formula; of the fee any part may stay in the pool.       *)
Emit(p, bal, act) ==
    ledger' = Append(ledger, [pool |-> p, bal |-> bal, on |-> chain[p].on, act |-> act])

Pays(p, i, dx) == Out(Net(p, i, dx), chain[p].bal[i], chain[p].bal[Other(i)])

Swap(p, i, dx, kept) ==
    /\ Len(ledger) < MaxEvents
    /\ Switched(p) => chain[p].on
    /\ Pays(p, i, dx) > 0
    /\ LET bal == [chain[p].bal EXCEPT ![i] = @ + kept, ![Other(i)] = @ - Pays(p, i, dx)]
       IN  /\ chain' = [chain EXCEPT ![p].bal = bal]
           /\ Emit(p, bal, IF Kind[p] = "xyk" THEN "balances" ELSE "swap")

(* Liquidity is added: an xyk pool announces its balances, a shared        *)
(* contract emits an event of another name.                                *)
AddLiquidity(p, dx) ==
    /\ Len(ledger) < MaxEvents
    /\ LET bal == [i \in Side |-> chain[p].bal[i] + dx]
       IN  /\ chain' = [chain EXCEPT ![p].bal = bal]
           /\ Emit(p, bal, IF Kind[p] = "xyk" THEN "balances" ELSE "liquidity")

(* The pool is switched on or off, which no indexed event announces.       *)
Switch(p) ==
    /\ Switched(p)
    /\ chain' = [chain EXCEPT ![p].on = ~@]
    /\ UNCHANGED ledger

ChainStep ==
    /\ \/ \E p \in Pool, dx \in Amount :
             \/ \E i \in Side : \E kept \in {Net(p, i, dx), dx} : Swap(p, i, dx, kept)
             \/ AddLiquidity(p, dx)
       \/ \E p \in Pool : Switch(p)
    /\ UNCHANGED taskVars

-----------------------------------------------------------------------------
(* An xyk pool must be named in the order of its contract.                 *)
Refused(p) == Kind[p] = "xyk" /\ p \in Reversed

(* fetch_*_pool: the record of the pool, turned to the order of the caller *)
(* (Velar's answer says whether to, the others are asked in both orders).  *)
Fetch(p) ==
    /\ p \in Managed /\ ~Refused(p)
    /\ fetched' = [q \in DOMAIN fetched \cup {p} |->
                     IF q = p THEN [bal |-> Turned(p, chain[p].bal), on |-> chain[p].on,
                                    at |-> Len(ledger)]
                              ELSE fetched[q]]
    /\ UNCHANGED <<chainVars, received, todo, held, mirror>>

Without(p) == {t \in todo : t[2] # p}

(* PoolRegistry::insert.  A pool of that id is replaced: a dispatch under  *)
(* way still writes the old handle, which nobody reads any more.           *)
Insert(p) ==
    /\ p \in DOMAIN fetched
    /\ mirror' = [q \in Live \cup {p} |->
                    IF q = p THEN [bal |-> fetched[p].bal, on |-> fetched[p].on, tx |-> 0,
                                   at |-> fetched[p].at, since |-> received[Emitter[p]]]
                             ELSE mirror[q]]
    /\ fetched' = [q \in DOMAIN fetched \ {p} |-> fetched[q]]
    /\ todo' = Without(p) /\ held' = held \ {p}
    /\ UNCHANGED <<chainVars, received>>

(* PoolRegistry::remove.                                                   *)
Remove(p) ==
    /\ p \in Live \cap Managed
    /\ mirror' = [q \in Live \ {p} |-> mirror[q]]
    /\ todo' = Without(p) /\ held' = held \ {p}
    /\ UNCHANGED <<chainVars, received, fetched>>

(* A task that got a handle from the registry takes its write lock, and    *)
(* lets it go.                                                             *)
Lock(p) ==
    /\ p \in Live \cap Outsiders
    /\ held' = held \cup {p}
    /\ UNCHANGED <<chainVars, received, todo, fetched, mirror>>

Unlock(p) ==
    /\ p \in held
    /\ held' = held \ {p}
    /\ UNCHANGED <<chainVars, received, todo, fetched, mirror>>

-----------------------------------------------------------------------------
(* The next event of contract c after the first n of the ledger, if any.   *)
NextEvents(c, n) ==
    {i \in n + 1 .. Len(ledger) :
        /\ Emitter[ledger[i].pool] = c
        /\ \A j \in n + 1 .. i - 1 : Emitter[ledger[j].pool] # c}

(* pools_subscribed_to: a pool whose lock cannot be had at once counts as  *)
(* subscribed.                                                             *)
SkipContended_Fault(c) == {p \in Live : Emitter[p] = c /\ p \notin held}
Candidates(c) == {p \in Live : Emitter[p] = c \/ p \in held}

(* The processor receives the next event of a contract: the sources keep   *)
(* the order of each contract, not the order between contracts.            *)
Receive(c) ==
    /\ todo = {}
    /\ \E i \in NextEvents(c, received[c]) :
          /\ received' = [received EXCEPT ![c] = i]
          /\ todo' = {i} \X Candidates(c)
    /\ UNCHANGED <<chainVars, held, fetched, mirror>>

(* The pairs of a shared contract tell their swaps apart by swap-token,    *)
(* pool.lp-token or pool-id.                                               *)
Unfiltered_Fault(p, e) == e.act = "swap"
OwnSwap(p, e) == e.act = "swap" /\ e.pool = p

(* apply_*_event of event i: reserves in the order of the contract, which  *)
(* only Velar's handler turns; the status only in Arkadiko's; an xyk pool  *)
(* takes any event with balances for its own.                              *)
Take(p, i, bal) == [mirror[p] EXCEPT !.bal = bal, !.tx = i]

ApplyArkadiko(p, i, e) ==
    IF OwnSwap(p, e) THEN [Take(p, i, e.bal) EXCEPT !.on = e.on] ELSE mirror[p]
ApplyVelar(p, i, e) == IF OwnSwap(p, e) THEN Take(p, i, Turned(p, e.bal)) ELSE mirror[p]
ApplyAlex(p, i, e) == IF OwnSwap(p, e) THEN Take(p, i, e.bal) ELSE mirror[p]
ApplyXyk(p, i, e) == IF e.act = "balances" THEN Take(p, i, e.bal) ELSE mirror[p]

ApplyEvent(p, i) ==
    CASE Kind[p] = "arkadiko" -> ApplyArkadiko(p, i, ledger[i])
      [] Kind[p] = "velar" -> ApplyVelar(p, i, ledger[i])
      [] Kind[p] = "alex" -> ApplyAlex(p, i, ledger[i])
      [] Kind[p] = "xyk" -> ApplyXyk(p, i, ledger[i])

(* One turn of dispatch's loop: wait for the pool's write lock, apply.     *)
ApplyTo(p) ==
    /\ p \notin held
    /\ \E i \in 1 .. Len(ledger) :
          /\ <<i, p>> \in todo
          /\ mirror' = [mirror EXCEPT ![p] = ApplyEvent(p, i)]
    /\ todo' = Without(p)
    /\ UNCHANGED <<chainVars, received, held, fetched>>

-----------------------------------------------------------------------------
(* The initial pools were fetched and inserted before anything happened.   *)
Init ==
    /\ chain = [p \in Pool |-> [bal |-> Start[p], on |-> TRUE]]
    /\ ledger = <<>>
    /\ received = [c \in Contract |-> 0]
    /\ todo = {} /\ held = {} /\ fetched = [p \in {} |-> 0]
    /\ mirror = [p \in InitialPools |->
                   [bal |-> Turned(p, Start[p]), on |-> TRUE, tx |-> 0, at |-> 0, since |-> 0]]

Next ==
    \/ ChainStep
    \/ \E p \in Pool : \/ Fetch(p) \/ Insert(p) \/ Remove(p)
                       \/ Lock(p) \/ Unlock(p) \/ ApplyTo(p)
    \/ \E c \in Contract : Receive(c)

Spec == Init /\ [][Next]_vars

-----------------------------------------------------------------------------
Balances == [Side -> Nat]

(* Type correctness: no swap the quote formula pays for overdraws a        *)
(* reserve, dispatch only writes to registered pools, from past events.    *)
V2TypeOK ==
    /\ chain \in [Pool -> [bal : Balances, on : BOOLEAN]]
    /\ ledger \in Seq([pool : Pool, bal : Balances, on : BOOLEAN,
                       act : {"swap", "balances", "liquidity"}])
    /\ received \in [Contract -> 0 .. Len(ledger)]
    /\ todo \subseteq (1 .. Len(ledger)) \X Live /\ held \subseteq Live \cap Outsiders
    /\ DOMAIN fetched \subseteq Pool /\ Live \subseteq Pool
    /\ fetched \in [DOMAIN fetched -> [bal : Balances, on : BOOLEAN, at : Nat]]
    /\ mirror \in [Live -> [bal : Balances, on : BOOLEAN, tx : 0 .. Len(ledger),
                            at : Nat, since : Nat]]

(* The event the mirror of p took last.                                    *)
Source(p) == ledger[mirror[p].tx]

(* The reserves an event left are in the mirror under the tokens the       *)
(* caller knows them by, as v2/fetcher.rs:90-91 wants it of the fetch.     *)
OnItsSides(p) == mirror[p].tx # 0 => mirror[p].bal = Turned(p, Source(p).bal)
TokensKeepSides == \A p \in Live : OnItsSides(p)

(* Arkadiko and ALEX pairs named in the other order lose their sides with  *)
(* the first event (TokensKeepSides); of the others more can be said.      *)
KeepsSides(p) == p \in Reversed => Kind[p] = "velar"

(* last_tx_id and the reserves of a mirror belong together: they come from *)
(* one event, and from one that the pool itself announced, whatever else   *)
(* its contract emits and although the pools of Outsiders may be locked    *)
(* when an event is dispatched.  No xyk pool may be one of them: its       *)
(* handler takes the balances of whatever event reaches it.                *)
OwnHistory ==
    \A p \in Live : mirror[p].tx # 0 =>
        /\ Source(p).pool = p /\ Source(p).act # "liquidity"
        /\ KeepsSides(p) => OnItsSides(p)
        /\ Kind[p] = "arkadiko" => mirror[p].on = Source(p).on

(* No event is lost between dispatch and the mirror: a pool that is not    *)
(* waiting for its turn holds the last one received since it was inserted. *)
KeptUp ==
    \A p \in Live : Without(p) = todo =>
        LET own == {i \in mirror[p].since + 1 .. received[Emitter[p]] :
                       ledger[i].pool = p /\ ledger[i].act # "liquidity"}
        IN  IF own = {} THEN mirror[p].tx = 0
            ELSE mirror[p].tx \in own /\ \A i \in own : i <= mirror[p].tx

(* A mirror that has taken its pool's latest event, or was fetched after   *)
(* it, quotes for either token what the contract pays.                     *)
UpToDate(p) ==
    LET known == IF mirror[p].tx = 0 THEN mirror[p].at ELSE mirror[p].tx
    IN  \A i \in 1 .. Len(ledger) : ledger[i].pool = p => i <= known

QuotesAsChain ==
    \A p \in Live :
        /\ UpToDate(p)
        /\ mirror[p].tx # 0 => KeepsSides(p)
        /\ Switched(p) => mirror[p].on /\ chain[p].on
        => \A s \in Side, dx \in Asked : Quote(p, s, dx) = Pays(p, Turn(p, s), dx)

(* Swapping for what the quote formula says never shrinks the product of   *)
(* the reserves (invariant_non_decreasing in v2/math.rs), for any pool     *)
(* kind, also when the whole fee leaves the pool.                          *)
ProductNeverFalls ==
    [][\A p \in Pool : chain'[p].bal[1] * chain'[p].bal[2] >= chain[p].bal[1] * chain[p].bal[2]]_vars
=============================================================================
