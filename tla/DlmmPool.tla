------------------------------ MODULE DlmmPool ------------------------------
(***************************************************************************)
(* One mirrored DLMM pool (dlmm/pool.rs, events.rs, math.rs): its bins,    *)
(* active bin and fees, the handlers of apply_event, and the two quote     *)
(* walks, quote_x_for_y down and quote_y_for_x up from the active bin.     *)
(*                                                                         *)
(* A walk holds the read lock of the pool (registry.rs), so any number of  *)
(* walks overlap, and an event is applied only when none is under way.     *)
(***************************************************************************)
EXTENDS Integers, FiniteSets, Functions

CONSTANTS
    MinBin, MaxBin, \* MIN_BIN_ID, MAX_BIN_ID
    Factor,         \* factors, indexed by signed bin id
    InitialPrice,   \* initial_price
    PriceScale,     \* PRICE_SCALE_BPS
    FeeScale,       \* FEE_SCALE_BPS
    MaxUint,        \* the largest u128
    Word,           \* 2^32: the fee fields are u32
    MaxFee,         \* the largest single fee a contract has
    Snapshot,       \* the bins, active bins and fees a bootstrap may return
    Update,         \* the events that may reach the pool
    Absent,         \* a field the payload lacks, or a target it does not name
    Self,           \* pool_contract
    Quoter,         \* the tasks that ask for quotes
    Amount          \* the amounts they ask for

Bin == MinBin .. MaxBin
Token == {"x", "y"}
Fees == [protocol : 0 .. MaxFee, provider : 0 .. MaxFee, variable : 0 .. MaxFee]

(* The factors grow with the bin id, as the contract's table does; the     *)
(* three fees on a token stay below FeeScale, which the code leaves to the *)
(* contract (math.rs:91-93).                                               *)
ASSUME PoolAssumption ==
    /\ MinBin \in Int /\ MaxBin \in Int /\ InitialPrice \in Nat
    /\ PriceScale \in Nat \ {0} /\ FeeScale \in Nat \ {0} /\ Word \in Nat \ {0} /\ MaxUint \in Nat
    /\ Factor \in [Bin -> Nat] /\ \A b, d \in Bin : b <= d => Factor[b] <= Factor[d]
    /\ Amount \subseteq Nat
    /\ MaxFee \in Nat /\ 3 * MaxFee < FeeScale

ASSUME UpdateAssumption ==
    \A e \in Update :
        /\ e.kind = "bin" => /\ e.bin \in Bin \cup {Absent}
                             /\ e.x \in Nat \cup {Absent} /\ e.y \in Nat \cup {Absent}
        /\ e.kind = "swap" => e.active \in Bin \cup {Absent}
        /\ e.kind = "fees" => e.token \in Token
        /\ e.kind \in {"fees", "variable"} =>
              \A v \in {e.first, e.second} :
                  v = Absent \/ (v \in Nat /\ v % Word <= MaxFee)

ASSUME AbsentAssumption == Absent \notin Int

ASSUME SnapshotAssumption ==
    \A s \in Snapshot :
        /\ DOMAIN s.bins \subseteq Bin /\ IsFiniteSet(DOMAIN s.bins)
        /\ s.bins \in [DOMAIN s.bins -> [x : Nat, y : Nat]]
        /\ s.active \in Bin /\ s.fees \in [Token -> Fees]

VARIABLES
    bins,       \* the mirrored bins: [x, y] records by bin id
    active,     \* active_bin_id
    fees,       \* fees[t]: the fees on input token t
    stamped,    \* last_tx_id is set: an event was applied since bootstrap
    walk        \* walk[q]: the quote task q is computing or has computed

poolVars == <<bins, active, fees, stamped>>
vars == <<poolVars, walk>>

NoWalk == [pc |-> "idle", token |-> "x", amount |-> 0, remaining |-> 0, bin |-> 0, total |-> 0]

Init ==
    /\ \E s \in Snapshot : bins = s.bins /\ active = s.active /\ fees = s.fees
    /\ stamped = FALSE
    /\ walk = [q \in Quoter |-> NoWalk]

-----------------------------------------------------------------------------
(* The swap step of one bin (math.rs), for `token` as the input.  Products *)
(* saturate at MaxUint.                                                    *)
Sat(n) == IF n > MaxUint THEN MaxUint ELSE n
Least(m, n) == IF m <= n THEN m ELSE n
DivCeil(m, n) == (m + n - 1) \div n

Price(b) == (InitialPrice * Factor[b]) \div PriceScale
Priced(b) == b \in Bin /\ InitialPrice * Factor[b] <= MaxUint

FeeOf(t) == fees[t].protocol + fees[t].provider + fees[t].variable
OutOf(t, s) == IF t = "x" THEN s.y ELSE s.x

(* The net input that buys the whole output balance of bin state s, and    *)
(* the gross input whose fee leaves that much.                             *)
NetCap(t, s, p) ==
    IF t = "x" THEN DivCeil(Sat(s.y * PriceScale), p) ELSE DivCeil(Sat(s.x * p), PriceScale)

NoGrossUp_Fault(t, s, p) == NetCap(t, s, p)
GrossCap(t, s, p) ==
    IF FeeOf(t) > 0 THEN Sat(NetCap(t, s, p) * FeeScale) \div (FeeScale - FeeOf(t))
                    ELSE NetCap(t, s, p)

Used(t, n, s, p) == IF p = 0 THEN 0 ELSE Least(n, GrossCap(t, s, p))
AfterFee(t, used) == used - Sat(used * FeeOf(t)) \div FeeScale

RoundUp_Fault(t, net, s, p) ==
    Least(IF t = "x" THEN DivCeil(Sat(net * p), PriceScale) ELSE DivCeil(Sat(net * PriceScale), p),
          OutOf(t, s))
Payout(t, net, s, p) ==
    Least(IF t = "x" THEN Sat(net * p) \div PriceScale ELSE Sat(net * PriceScale) \div p,
          OutOf(t, s))

-----------------------------------------------------------------------------
(* The walk.                                                               *)
Stay_Fault(t, b) == b
NextBin(t, b) == IF t = "x" THEN b - 1 ELSE b + 1

(* The end of the mirrored window; an empty window is the active bin.      *)
OutsideWindow(t, b) ==
    LET ids == IF DOMAIN bins = {} THEN {active} ELSE DOMAIN bins
    IN  IF t = "x" THEN \A i \in ids : b < i ELSE \A i \in ids : b > i

Walking(q) == walk[q].pc = "walk"
InLoop(w) == w.remaining > 0 /\ (IF w.token = "x" THEN w.bin >= MinBin ELSE w.bin <= MaxBin)
NoInventory(b) == b \in DOMAIN bins => bins[b] = [x |-> 0, y |-> 0]
UsedIn(w) == Used(w.token, w.remaining, bins[w.bin], Price(w.bin))
PaidIn(w) == Payout(w.token, AfterFee(w.token, UsedIn(w)), bins[w.bin], Price(w.bin))

(* calculate_output takes the read lock and begins at the active bin.      *)
StartQuote(q) ==
    /\ ~Walking(q)
    /\ \E t \in Token, n \in Amount :
          walk' = [walk EXCEPT ![q] = [pc |-> "walk", token |-> t, amount |-> n,
                                       remaining |-> n, bin |-> active, total |-> 0]]
    /\ UNCHANGED poolVars

(* A bin that is not mirrored or empty is passed, unless it was the last.  *)
SkipBin(q) ==
    LET w == walk[q]
        b == NextBin(w.token, w.bin)
    IN  /\ Walking(q) /\ InLoop(w) /\ NoInventory(w.bin)
        /\ walk' = [walk EXCEPT ![q].bin = b,
                                ![q].pc = IF OutsideWindow(w.token, b) THEN "done" ELSE "walk"]
        /\ UNCHANGED poolVars

Overwrite_Fault(total, paid) == paid
Credit(total, paid) == Sat(total + paid)

(* One bin's swap; the walk goes on if it took all the bin holds.          *)
SwapInBin(q) ==
    LET w == walk[q]
        drained == PaidIn(w) >= OutOf(w.token, bins[w.bin])
    IN  /\ Walking(q) /\ InLoop(w) /\ ~NoInventory(w.bin)
        /\ Priced(w.bin) /\ UsedIn(w) # 0
        /\ walk' = [walk EXCEPT ![q].total = Credit(@, PaidIn(w)),
                                ![q].remaining = @ - UsedIn(w),
                                ![q].bin = IF drained THEN NextBin(w.token, @) ELSE @,
                                ![q].pc = IF drained THEN "walk" ELSE "done"]
        /\ UNCHANGED poolVars

(* The loop ends: input spent, past the last bin id, a bin without a       *)
(* price, or one that takes none of the input.                             *)
StopWalk(q) ==
    LET w == walk[q]
    IN  /\ Walking(q)
        /\ InLoop(w) => ~NoInventory(w.bin) /\ (Priced(w.bin) => UsedIn(w) = 0)
        /\ walk' = [walk EXCEPT ![q].pc = "done"]
        /\ UNCHANGED poolVars

-----------------------------------------------------------------------------
(* apply_event, under the write lock.  An event that names another pool is *)
(* dropped; so is one without the fields its handler needs.  (The results  *)
(* of quotes on the old state are forgotten.)                              *)
Applies(e) ==
    /\ e.target \in {Absent, Self}
    /\ \A q \in Quoter : ~Walking(q)
    /\ stamped' = TRUE
    /\ walk' = [q \in Quoter |-> NoWalk]

UpdateBin(e) ==
    /\ e.kind = "bin" /\ Applies(e)
    /\ Absent \notin {e.bin, e.x, e.y}
    /\ bins' = [b \in DOMAIN bins \cup {e.bin} |->
                   IF b = e.bin THEN [x |-> e.x, y |-> e.y] ELSE bins[b]]
    /\ UNCHANGED <<active, fees>>

Swapped(e) ==
    /\ e.kind = "swap" /\ Applies(e)
    /\ e.active # Absent
    /\ active' = e.active
    /\ UNCHANGED <<bins, fees>>

(* `as u32` keeps the low word of a fee.                                   *)
AddFee_Fault(old, v) == IF v = Absent THEN old ELSE (old + v) % Word
FeeField(old, v) == IF v = Absent THEN old ELSE v % Word

SetFees(e) ==
    /\ e.kind = "fees" /\ Applies(e)
    /\ e.first # Absent \/ e.second # Absent
    /\ fees' = [fees EXCEPT ![e.token].protocol = FeeField(@, e.first),
                            ![e.token].provider = FeeField(@, e.second)]
    /\ UNCHANGED <<bins, active>>

SetVariableFees(e) ==
    /\ e.kind = "variable" /\ Applies(e)
    /\ e.first # Absent \/ e.second # Absent
    /\ fees' = [fees EXCEPT !["x"].variable = FeeField(@, e.first),
                            !["y"].variable = FeeField(@, e.second)]
    /\ UNCHANGED <<bins, active>>

ResetVariableFees(e) ==
    /\ e.kind = "reset" /\ Applies(e)
    /\ fees' = [t \in Token |-> [fees[t] EXCEPT !.variable = 0]]
    /\ UNCHANGED <<bins, active>>

SetStatus(e) ==
    /\ e.kind = "status" /\ Applies(e)
    /\ UNCHANGED <<bins, active, fees>>

ApplyEvent(e) ==
    \/ UpdateBin(e) \/ Swapped(e) \/ SetFees(e) \/ SetVariableFees(e)
    \/ ResetVariableFees(e) \/ SetStatus(e)

Next ==
    \/ \E q \in Quoter : StartQuote(q) \/ SkipBin(q) \/ SwapInBin(q) \/ StopWalk(q)
    \/ \E e \in Update : ApplyEvent(e)

Spec == Init /\ [][Next]_vars

-----------------------------------------------------------------------------
(* Types; the fees on a token stay below FeeScale however they are set, so *)
(* no swap step divides by zero, and no walk spends more than it was given *)
(* (`remaining -= r.used`, pool.rs:128, would wrap).                       *)
PoolTypeOK ==
    /\ DOMAIN bins \subseteq Bin /\ bins \in [DOMAIN bins -> [x : Nat, y : Nat]]
    /\ active \in Bin /\ fees \in [Token -> Fees] /\ stamped \in BOOLEAN
    /\ walk \in [Quoter -> [pc : {"idle", "walk", "done"}, token : Token, amount : Nat,
                            remaining : Nat, bin : Int, total : Nat]]
    /\ \A q \in Quoter : walk[q].remaining <= walk[q].amount

(* However many bins a walk passes, and whatever the fees and the          *)
(* roundings, no quote is better than the price of the active bin for the  *)
(* input it has spent (math.rs:70-151, pool.rs:84-192).                    *)
NoBetterThanActive ==
    \A q \in Quoter :
        LET w == walk[q]
            spent == w.amount - w.remaining
        IN  IF w.token = "x" THEN w.total * PriceScale <= spent * Price(active)
                             ELSE w.total * Price(active) <= spent * PriceScale

(* Quoting the proceeds of a quote back never returns more than was put    *)
(* in: a cycle through one pool shows no profit.                           *)
NoRoundTripGain ==
    \A q, r \in Quoter :
        /\ walk[q].pc = "done" /\ walk[r].pc = "done"
        /\ walk[q].token # walk[r].token /\ walk[r].amount <= walk[q].total
        => walk[r].total <= walk[q].amount

(* More input never buys less, though a walk may end early in a bin.       *)
Monotone ==
    \A q, r \in Quoter :
        /\ walk[q].pc = "done" /\ walk[r].pc = "done"
        /\ walk[q].token = walk[r].token /\ walk[q].amount <= walk[r].amount
        => walk[q].total <= walk[r].total

(* A quote pays out at most what the bins hold from the active one to the  *)
(* one it has come to.                                                     *)
WithinInventory ==
    \A q \in Quoter :
        LET w == walk[q]
            held == [b \in DOMAIN bins |-> OutOf(w.token, bins[b])]
            passed == {b \in DOMAIN bins : IF w.token = "x" THEN w.bin <= b /\ b <= active
                                                            ELSE active <= b /\ b <= w.bin}
        IN  w.total <= SumFunctionOnSet(held, passed)

(* The condition math.rs:4-8 gives for no product to saturate, for a bound *)
(* B on the balances of a bin.                                             *)
Unsaturated(B) ==
    /\ B \in Nat /\ B * PriceScale * FeeScale <= MaxUint
    /\ \A b \in Bin : InitialPrice * Factor[b] <= MaxUint /\ B * Price(b) * FeeScale <= MaxUint
    /\ \A s \in Snapshot : \A b \in DOMAIN s.bins : s.bins[b].x <= B /\ s.bins[b].y <= B
    /\ \A e \in Update : e.kind = "bin" /\ Absent \notin {e.x, e.y} => e.x <= B /\ e.y <= B

(* A walk that ends with input left has run out of bins, or stands in a    *)
(* bin without output balance or price: the gross cap of a bin and its fee *)
(* are rounded so that the cap buys the balance exactly, and the test      *)
(* `dy >= balance` never fails for the sake of a rounding.                 *)
StopsForAReason ==
    \A q \in Quoter :
        LET w == walk[q]
        IN  w.pc = "done" /\ w.remaining > 0 =>
                \/ OutsideWindow(w.token, w.bin)
                \/ w.bin \in DOMAIN bins /\ (OutOf(w.token, bins[w.bin]) = 0 \/ Price(w.bin) = 0)
=============================================================================
