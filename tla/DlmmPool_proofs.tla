-------------------------- MODULE DlmmPool_proofs --------------------------
(***************************************************************************)
(* Proofs about DlmmPool for any table of growing factors, any scales,     *)
(* fees, bins, events and quotes: types, no quote beats the price of the   *)
(* active bin, no profit in quoting the proceeds of a quote back, why a    *)
(* walk stops, that more input never buys less, and that a quote pays no   *)
(* more than the bins it has passed hold.                                  *)
(***************************************************************************)
EXTENDS DlmmPool, FiniteSetTheorems, WellFoundedInduction, TLAPS

(* What floor division returns.                                            *)
LEMMA FloorLemma ==
    ASSUME NEW m \in Nat, NEW n \in Nat \ {0}
    PROVE  m \div n \in Nat /\ (m \div n) * n <= m
OBVIOUS

(* Floors keep the order.                                                  *)
LEMMA FloorMonotone ==
    ASSUME NEW k \in Nat, NEW m \in Nat, NEW n \in Nat \ {0}, k <= m
    PROVE  k \div n <= m \div n
OBVIOUS

(* So do products.                                                         *)
LEMMA TimesMonotone ==
    ASSUME NEW k \in Nat, NEW m \in Nat, NEW n \in Nat, k <= m
    PROVE  k * n \in Nat /\ m * n \in Nat /\ k * n <= m * n
OBVIOUS

(* A product that saturates is no larger than it was.                      *)
LEMMA SatLemma ==
    ASSUME NEW n \in Nat
    PROVE  Sat(n) \in Nat /\ Sat(n) <= n
BY PoolAssumption DEF Sat

(* The price of a bin grows with its id.                                   *)
LEMMA PriceType == ASSUME NEW b \in Bin PROVE Price(b) \in Nat
<1>1. InitialPrice * Factor[b] \in Nat
  BY PoolAssumption
<1>2. QED
  BY <1>1, FloorLemma, PoolAssumption DEF Price

(* A bin further up has no lower price (the factors grow with the id).     *)
LEMMA PriceMonotone ==
    ASSUME NEW b \in Bin, NEW d \in Bin, b <= d
    PROVE  Price(b) <= Price(d)
<1>1. /\ Factor[b] \in Nat /\ Factor[d] \in Nat
      /\ Factor[b] <= Factor[d]
  BY PoolAssumption
<1>2. /\ InitialPrice * Factor[b] \in Nat /\ InitialPrice * Factor[d] \in Nat
      /\ InitialPrice * Factor[b] <= InitialPrice * Factor[d]
  BY <1>1, PoolAssumption
<1>3. QED
  BY <1>2, FloorMonotone, PoolAssumption DEF Price

-----------------------------------------------------------------------------
(* The swap step of one bin.                                               *)
LEMMA FeesBelowScale ==
    ASSUME PoolTypeOK, NEW t \in Token
    PROVE  FeeOf(t) \in Nat /\ FeeScale - FeeOf(t) \in Nat \ {0}
<1>1. fees[t] \in Fees
  BY DEF PoolTypeOK
<1>2. /\ fees[t].protocol \in 0 .. MaxFee
      /\ fees[t].provider \in 0 .. MaxFee
      /\ fees[t].variable \in 0 .. MaxFee
  BY <1>1 DEF Fees
<1>3. QED
  BY <1>2, PoolAssumption DEF FeeOf

(* The gross cap of a bin that has a price is a number.                    *)
LEMMA CapType ==
    ASSUME PoolTypeOK, NEW t \in Token, NEW s \in [x : Nat, y : Nat], NEW p \in Nat \ {0}
    PROVE  GrossCap(t, s, p) \in Nat
<1>1. /\ PriceScale \in Nat \ {0} /\ FeeScale \in Nat \ {0}
      /\ s.x \in Nat /\ s.y \in Nat
  BY PoolAssumption
<1>2. NetCap(t, s, p) \in Nat
  <2>1. s.y * PriceScale \in Nat /\ s.x * p \in Nat
    BY <1>1
  <2>2. Sat(s.y * PriceScale) \in Nat /\ Sat(s.x * p) \in Nat
    BY <2>1, SatLemma
  <2>3. \A m \in Nat, n \in Nat \ {0} : DivCeil(m, n) \in Nat
    <3> SUFFICES ASSUME NEW m \in Nat, NEW n \in Nat \ {0} PROVE DivCeil(m, n) \in Nat
      OBVIOUS
    <3>1. m + n - 1 \in Nat
      OBVIOUS
    <3>2. QED
      BY <3>1, FloorLemma DEF DivCeil
  <2>4. QED
    BY <1>1, <2>2, <2>3 DEF NetCap
<1>3. FeeOf(t) \in Nat /\ FeeScale - FeeOf(t) \in Nat \ {0}
  BY FeesBelowScale
<1>4. NetCap(t, s, p) * FeeScale \in Nat
  BY <1>1, <1>2
<1>5. Sat(NetCap(t, s, p) * FeeScale) \in Nat
  BY <1>4, SatLemma
<1>6. Sat(NetCap(t, s, p) * FeeScale) \div (FeeScale - FeeOf(t)) \in Nat
  BY <1>3, <1>5, FloorLemma
<1>7. QED
  BY <1>2, <1>6 DEF GrossCap

(* A step spends at most what is left and pays out at most the price of    *)
(* its bin for what it spends: the fee, the caps and both floors only      *)
(* lower the payout.                                                       *)
LEMMA StepLemma ==
    ASSUME PoolTypeOK, NEW t \in Token, NEW n \in Nat, NEW s \in [x : Nat, y : Nat],
           NEW p \in Nat \ {0}, NEW used, used = Used(t, n, s, p),
           NEW paid, paid = Payout(t, AfterFee(t, used), s, p)
    PROVE  /\ used \in Nat /\ used <= n
           /\ paid \in Nat
           /\ t = "x" => paid * PriceScale <= used * p
           /\ t = "y" => paid * p <= used * PriceScale
<1> DEFINE net == AfterFee(t, used)
<1>1. p # 0
  OBVIOUS
<1>2. used \in Nat /\ used <= n
  BY <1>1, CapType DEF Used, Least
<1>3. FeeOf(t) \in Nat /\ FeeScale \in Nat \ {0} /\ FeeOf(t) <= FeeScale /\ PriceScale \in Nat \ {0}
  BY FeesBelowScale, PoolAssumption
<1>4. net \in Nat /\ net <= used
  <2> DEFINE fee == Sat(used * FeeOf(t)) \div FeeScale
  <2>1. used * FeeOf(t) \in Nat /\ used * FeeScale \in Nat /\ used * FeeOf(t) <= used * FeeScale
    BY <1>2, <1>3
  <2>2. Sat(used * FeeOf(t)) \in Nat /\ Sat(used * FeeOf(t)) <= used * FeeOf(t)
    BY <2>1, SatLemma
  <2>3. fee \in Nat /\ fee * FeeScale <= Sat(used * FeeOf(t))
    BY <1>3, <2>2, FloorLemma
  <2>4. fee * FeeScale <= used * FeeScale
    BY <1>3, <2>1, <2>2, <2>3
  <2>5. fee <= used
    <3> HIDE DEF fee
    <3>1. QED
      BY <1>2, <1>3, <2>3, <2>4
  <2>6. net = used - fee
    BY DEF AfterFee
  <2>7. QED
    <3> HIDE DEF fee, net
    <3>1. QED
      BY <1>2, <2>3, <2>5, <2>6
<1>5. s.x \in Nat /\ s.y \in Nat
  OBVIOUS
<1> HIDE DEF net
<1>6. CASE t = "x"
  <2> DEFINE gross == Sat(net * p)
             out == gross \div PriceScale
  <2>1. net * p \in Nat /\ used * p \in Nat /\ net * p <= used * p
    BY <1>2, <1>4, TimesMonotone
  <2>2. gross \in Nat /\ gross <= net * p
    BY <2>1, SatLemma
  <2>3. out \in Nat /\ out * PriceScale <= gross
    BY <1>3, <2>2, FloorLemma
  <2>4. paid = Least(out, s.y)
    BY <1>6 DEF Payout, OutOf, net
  <2> HIDE DEF out, gross
  <2>5. paid \in Nat /\ paid <= out
    BY <1>5, <2>3, <2>4 DEF Least
  <2>6. paid * PriceScale <= out * PriceScale
    BY <1>3, <2>3, <2>5, TimesMonotone
  <2>7. paid * PriceScale <= used * p
    BY <1>3, <2>1, <2>2, <2>3, <2>5, <2>6
  <2>8. QED
    BY <1>1, <1>2, <1>6, <2>5, <2>7
<1>7. CASE t = "y"
  <2> DEFINE gross == Sat(net * PriceScale)
             out == gross \div p
  <2>1. /\ net * PriceScale \in Nat /\ used * PriceScale \in Nat
        /\ net * PriceScale <= used * PriceScale
    BY <1>2, <1>3, <1>4, TimesMonotone
  <2>2. gross \in Nat /\ gross <= net * PriceScale
    BY <2>1, SatLemma
  <2>3. out \in Nat /\ out * p <= gross
    BY <1>1, <2>2, FloorLemma
  <2>4. paid = Least(out, s.x)
    BY <1>7 DEF Payout, OutOf, net
  <2> HIDE DEF out, gross
  <2>5. paid \in Nat /\ paid <= out
    BY <1>5, <2>3, <2>4 DEF Least
  <2>6. paid * p <= out * p
    BY <2>3, <2>5, TimesMonotone
  <2>7. paid * p <= used * PriceScale
    BY <1>3, <2>1, <2>2, <2>3, <2>5, <2>6
  <2>8. QED
    BY <1>1, <1>2, <1>7, <2>5, <2>7
<1>8. QED
  BY <1>6, <1>7 DEF Token

-----------------------------------------------------------------------------
(* The inductive invariant: types, a walk under way is on its side of the  *)
(* active bin, one that has spent nothing has bought nothing, and no quote *)
(* beats the active bin.                                                   *)
WalkState == [pc : {"idle", "walk", "done"}, token : Token, amount : Nat,
              remaining : Nat, bin : Int, total : Nat]

OnItsSide(w) ==
    w.pc = "walk" => IF w.token = "x" THEN w.bin <= active ELSE w.bin >= active

FairlyPriced(w) ==
    IF w.token = "x" THEN w.total * PriceScale <= (w.amount - w.remaining) * Price(active)
                     ELSE w.total * Price(active) <= (w.amount - w.remaining) * PriceScale

WalkOK(w) ==
    /\ w \in WalkState /\ w.remaining <= w.amount
    /\ OnItsSide(w)
    /\ w.remaining = w.amount => w.total = 0
    /\ FairlyPriced(w)

PoolInv == PoolTypeOK /\ \A q \in Quoter : WalkOK(walk[q])

(* A task that has not asked yet.                                          *)
LEMMA NoWalkOK == active \in Bin => WalkOK(NoWalk)
<1> SUFFICES ASSUME active \in Bin PROVE WalkOK(NoWalk)
  OBVIOUS
<1>1. Price(active) \in Nat /\ PriceScale \in Nat
  BY PriceType, PoolAssumption
<1>2. NoWalk \in WalkState /\ NoWalk.remaining <= NoWalk.amount
  BY DEF NoWalk, WalkState, Token
<1>3. OnItsSide(NoWalk) /\ NoWalk.total = 0
  BY DEF NoWalk, OnItsSide
<1>4. FairlyPriced(NoWalk)
  BY <1>1 DEF NoWalk, FairlyPriced
<1>5. QED
  BY <1>2, <1>3, <1>4 DEF WalkOK

(* The part of the invariant that only the mirrored pool carries.          *)
PoolPart ==
    /\ DOMAIN bins \subseteq Bin /\ bins \in [DOMAIN bins -> [x : Nat, y : Nat]]
    /\ active \in Bin /\ fees \in [Token -> Fees] /\ stamped \in BOOLEAN

(* The invariant, taken apart.                                             *)
LEMMA PoolInvParts ==
    PoolInv <=> PoolPart /\ walk \in [Quoter -> WalkState] /\ \A q \in Quoter : WalkOK(walk[q])
BY DEF PoolInv, PoolTypeOK, PoolPart, WalkState, WalkOK

(* A bootstrap returns a pool in order.                                    *)
LEMMA PoolInit == Init => PoolInv
<1> SUFFICES ASSUME Init PROVE PoolInv
  OBVIOUS
<1>1. PoolPart
  BY SnapshotAssumption DEF Init, PoolPart
<1>2. \A q \in Quoter : walk[q] = NoWalk
  BY DEF Init
<1>3. \A q \in Quoter : WalkOK(walk[q])
  BY <1>1, <1>2, NoWalkOK DEF PoolPart
<1>4. walk \in [Quoter -> WalkState]
  BY DEF Init, NoWalk, WalkState, Token
<1>5. QED
  BY <1>1, <1>3, <1>4, PoolInvParts

(* A step that changes one walk alone keeps the invariant if it leaves     *)
(* that walk in order.                                                     *)
LEMMA OneWalk ==
    ASSUME PoolInv, NEW q \in Quoter, NEW w, WalkOK(w),
           walk' = [walk EXCEPT ![q] = w], UNCHANGED poolVars
    PROVE  PoolInv'
<1>1. PoolPart' /\ active' = active
  BY PoolInvParts DEF poolVars, PoolPart
<1>2. walk' \in [Quoter -> WalkState]
  BY PoolInvParts DEF WalkOK
<1>3. \A r \in Quoter : WalkOK(walk'[r])
  BY PoolInvParts
<1>4. \A r \in Quoter : WalkOK(walk[r])'
  BY <1>1, <1>3 DEF WalkOK, OnItsSide, FairlyPriced, Price
<1>5. QED
  BY <1>1, <1>2, <1>4 DEF PoolInv, PoolTypeOK, PoolPart, WalkState, WalkOK

(* calculate_output begins at the active bin.                              *)
LEMMA StartStep ==
    ASSUME PoolInv, NEW q \in Quoter, StartQuote(q)
    PROVE  PoolInv'
<1>1. PICK t \in Token, n \in Amount :
        walk' = [walk EXCEPT ![q] = [pc |-> "walk", token |-> t, amount |-> n,
                                     remaining |-> n, bin |-> active, total |-> 0]]
  BY DEF StartQuote
<1> DEFINE w == [pc |-> "walk", token |-> t, amount |-> n,
                 remaining |-> n, bin |-> active, total |-> 0]
<1>2. n \in Nat /\ PriceScale \in Nat /\ active \in Int /\ Price(active) \in Nat
  BY PoolAssumption, PriceType, PoolInvParts DEF PoolPart, Bin
<1>3. w \in WalkState /\ w.remaining <= w.amount
  BY <1>2 DEF WalkState
<1>4. OnItsSide(w)
  BY <1>2 DEF OnItsSide
<1>5. FairlyPriced(w)
  BY <1>2 DEF FairlyPriced
<1>6. WalkOK(w)
  BY <1>3, <1>4, <1>5 DEF WalkOK
<1>7. UNCHANGED poolVars
  BY DEF StartQuote
<1> HIDE DEF w
<1>8. QED
  BY <1>1, <1>6, <1>7, OneWalk DEF w

(* Passing a bin spends and buys nothing.                                  *)
LEMMA SkipStep ==
    ASSUME PoolInv, NEW q \in Quoter, SkipBin(q)
    PROVE  PoolInv'
<1> DEFINE w == walk[q]
           b == NextBin(w.token, w.bin)
           v == [w EXCEPT !.bin = b, !.pc = IF OutsideWindow(w.token, b) THEN "done" ELSE "walk"]
<1>1. WalkOK(w) /\ w.pc = "walk" /\ w.token \in Token /\ w.bin \in Int /\ active \in Int
  BY PoolInvParts DEF SkipBin, Walking, WalkState, PoolPart, Bin
<1>2. walk' = [walk EXCEPT ![q] = v] /\ UNCHANGED poolVars
  BY PoolInvParts DEF SkipBin, WalkState
<1>3. b \in Int /\ IF w.token = "x" THEN b <= w.bin ELSE b >= w.bin
  BY <1>1 DEF NextBin
<1> HIDE DEF b
<1>4. v \in WalkState /\ v.token = w.token /\ v.bin = b /\ v.amount = w.amount
      /\ v.remaining = w.remaining /\ v.total = w.total
  BY <1>1, <1>3 DEF WalkOK, WalkState
<1> HIDE DEF v
<1>5. OnItsSide(v)
  BY <1>1, <1>3, <1>4 DEF OnItsSide, WalkOK, Token
<1>6. WalkOK(v)
  BY <1>1, <1>4, <1>5 DEF WalkOK, FairlyPriced
<1>7. QED
  BY <1>2, <1>6, OneWalk

(* Ending a walk spends and buys nothing.                                  *)
LEMMA StopStep ==
    ASSUME PoolInv, NEW q \in Quoter, StopWalk(q)
    PROVE  PoolInv'
<1> DEFINE v == [walk[q] EXCEPT !.pc = "done"]
<1>1. WalkOK(walk[q])
  BY PoolInvParts
<1>2. walk' = [walk EXCEPT ![q] = v] /\ UNCHANGED poolVars
  BY PoolInvParts DEF StopWalk, WalkState
<1>3. WalkOK(v)
  BY <1>1 DEF WalkOK, WalkState, OnItsSide, FairlyPriced
<1> HIDE DEF v
<1>4. QED
  BY <1>2, <1>3, OneWalk

(* The step that spends and buys: what it adds to the total is priced no   *)
(* better than its bin, and its bin no better than the active one.         *)
LEMMA SwapStep ==
    ASSUME PoolInv, NEW q \in Quoter, SwapInBin(q)
    PROVE  PoolInv'
<1> DEFINE w == walk[q]
           used == UsedIn(w)
           paid == PaidIn(w)
           bin == IF paid >= OutOf(w.token, bins[w.bin]) THEN NextBin(w.token, w.bin) ELSE w.bin
           v == [w EXCEPT !.total = Sat(@ + paid), !.remaining = @ - used, !.bin = bin,
                          !.pc = IF paid >= OutOf(w.token, bins[w.bin]) THEN "walk" ELSE "done"]
           P == Price(w.bin)
<1>1. /\ WalkOK(w) /\ w \in WalkState /\ w.pc = "walk"
      /\ w.token \in Token /\ w.bin \in Int /\ w.remaining \in Nat /\ w.amount \in Nat
      /\ w.total \in Nat /\ w.remaining <= w.amount
      /\ w.bin \in Bin /\ w.bin \in DOMAIN bins /\ used # 0
  BY PoolInvParts DEF SwapInBin, Walking, WalkState, WalkOK, Priced, NoInventory
<1>2. walk' = [walk EXCEPT ![q] = v] /\ UNCHANGED poolVars
  BY PoolInvParts DEF SwapInBin, WalkState, Credit
<1>3. active \in Bin /\ active \in Int /\ PriceScale \in Nat /\ Price(active) \in Nat /\ P \in Nat
  BY <1>1, PriceType, PoolInvParts, PoolAssumption DEF PoolPart, Bin
<1>4. bins[w.bin] \in [x : Nat, y : Nat]
  BY <1>1, PoolInvParts DEF PoolPart
<1>5. PoolTypeOK
  BY DEF PoolInv
<1>6. /\ used \in Nat /\ used <= w.remaining /\ paid \in Nat
      /\ w.token = "x" => paid * PriceScale <= used * P
      /\ w.token = "y" => paid * P <= used * PriceScale
  <2>1. P # 0
    BY <1>1 DEF UsedIn, Used
  <2>2. QED
    BY <1>1, <1>3, <1>4, <1>5, <2>1, StepLemma DEF UsedIn, PaidIn
<1>7. bin \in Int /\ IF w.token = "x" THEN bin <= w.bin ELSE bin >= w.bin
  BY <1>1 DEF NextBin
<1>8. IF w.token = "x" THEN w.bin <= active ELSE w.bin >= active
  BY <1>1 DEF WalkOK, OnItsSide
<1> HIDE DEF bin, used, paid, P
<1>9. Sat(w.total + paid) \in Nat /\ Sat(w.total + paid) <= w.total + paid
  BY <1>1, <1>6, SatLemma
<1>10. w.remaining - used \in Nat /\ w.remaining - used < w.amount
  BY <1>1, <1>6
<1>11. /\ v \in WalkState /\ v.token = w.token /\ v.bin = bin /\ v.amount = w.amount
       /\ v.remaining = w.remaining - used /\ v.total = Sat(w.total + paid)
  BY <1>1, <1>7, <1>9, <1>10 DEF WalkState
<1> HIDE DEF v
<1>12. OnItsSide(v)
  BY <1>1, <1>3, <1>7, <1>8, <1>11 DEF OnItsSide, Token
<1>13. FairlyPriced(v)
  <2> DEFINE spent == w.amount - w.remaining
             total == Sat(w.total + paid)
             A == Price(active)
  <2>1. spent \in Nat /\ v.amount - v.remaining = spent + used
    BY <1>1, <1>6, <1>11
  <2>2. total \in Nat /\ total <= w.total + paid /\ v.total = total
    BY <1>9, <1>11
  <2>3. FairlyPriced(w)
    BY <1>1 DEF WalkOK
  <2>4. CASE w.token = "x"
    <3>1. P <= A
      BY <1>1, <1>3, <1>8, <2>4, PriceMonotone DEF P
    <3>2. w.total * PriceScale <= spent * A
      BY <2>3, <2>4 DEF FairlyPriced
    <3> HIDE DEF A, spent, total
    <3>3. A \in Nat
      BY <1>3 DEF A
    <3>4. used * P <= used * A
      BY <1>3, <1>6, <3>1, <3>3
    <3>5. paid * PriceScale <= used * A
      BY <1>3, <1>6, <2>4, <3>3, <3>4
    <3>6. (w.total + paid) * PriceScale <= (spent + used) * A
      BY <1>1, <1>3, <1>6, <2>1, <3>2, <3>3, <3>5
    <3>7. total * PriceScale <= (w.total + paid) * PriceScale
      BY <1>1, <1>3, <1>6, <2>2, TimesMonotone
    <3>8. total * PriceScale <= (spent + used) * A
      BY <1>1, <1>3, <1>6, <2>1, <2>2, <3>3, <3>6, <3>7
    <3>9. QED
      BY <1>11, <2>1, <2>2, <2>4, <3>8 DEF FairlyPriced, A
  <2>5. CASE w.token = "y"
    <3>1. A <= P
      BY <1>1, <1>3, <1>8, <2>5, PriceMonotone DEF P
    <3>2. w.total * A <= spent * PriceScale
      BY <2>3, <2>5 DEF FairlyPriced
    <3> HIDE DEF A, spent, total
    <3>3. A \in Nat
      BY <1>3 DEF A
    <3>4. paid * A <= paid * P
      BY <1>3, <1>6, <3>1, <3>3
    <3>5. paid * A <= used * PriceScale
      BY <1>3, <1>6, <2>5, <3>3, <3>4
    <3>6. (w.total + paid) * A <= (spent + used) * PriceScale
      BY <1>1, <1>3, <1>6, <2>1, <3>2, <3>3, <3>5
    <3>7. total * A <= (w.total + paid) * A
      BY <1>1, <1>3, <1>6, <2>2, <3>3, TimesMonotone
    <3>8. total * A <= (spent + used) * PriceScale
      BY <1>1, <1>3, <1>6, <2>1, <2>2, <3>3, <3>6, <3>7
    <3>9. QED
      BY <1>11, <2>1, <2>2, <2>5, <3>8 DEF FairlyPriced, A
  <2>6. QED
    BY <1>1, <2>4, <2>5 DEF Token
<1>14. WalkOK(v)
  <2>1. v.remaining # v.amount /\ v.remaining <= v.amount
    BY <1>1, <1>10, <1>11
  <2>2. QED
    BY <1>11, <1>12, <1>13, <2>1 DEF WalkOK
<1>15. QED
  BY <1>2, <1>14, OneWalk

-----------------------------------------------------------------------------
(* An event changes the pool and forgets the walks.                        *)
LEMMA EventStep ==
    ASSUME PoolInv, NEW e \in Update, ApplyEvent(e)
    PROVE  PoolInv'
<1>1. PoolPart
  BY PoolInvParts
<1>2. walk' = [q \in Quoter |-> NoWalk] /\ stamped' = TRUE
  BY DEF ApplyEvent, UpdateBin, Swapped, SetFees, SetVariableFees, ResetVariableFees,
         SetStatus, Applies
<1>3. ASSUME NEW old \in 0 .. MaxFee, NEW v,
             v = Absent \/ (v \in Nat /\ v % Word <= MaxFee)
      PROVE  FeeField(old, v) \in 0 .. MaxFee
  BY <1>3, PoolAssumption DEF FeeField
<1>4. PoolPart'
  <2>1. CASE UpdateBin(e)
    <3>1. e.bin \in Bin /\ [x |-> e.x, y |-> e.y] \in [x : Nat, y : Nat]
      BY <2>1, UpdateAssumption DEF UpdateBin
    <3>2. QED
      BY <1>1, <1>2, <2>1, <3>1 DEF UpdateBin, PoolPart
  <2>2. CASE Swapped(e)
    BY <1>1, <1>2, <2>2, UpdateAssumption DEF Swapped, PoolPart
  <2>3. CASE SetFees(e)
    <3>1. /\ e.token \in Token
          /\ e.first = Absent \/ (e.first \in Nat /\ e.first % Word <= MaxFee)
          /\ e.second = Absent \/ (e.second \in Nat /\ e.second % Word <= MaxFee)
      BY <2>3, UpdateAssumption DEF SetFees
    <3>2. fees[e.token] \in Fees
      BY <1>1, <3>1 DEF PoolPart
    <3>3. /\ FeeField(fees[e.token].protocol, e.first) \in 0 .. MaxFee
          /\ FeeField(fees[e.token].provider, e.second) \in 0 .. MaxFee
      BY <1>3, <3>1, <3>2 DEF Fees
    <3>4. fees' \in [Token -> Fees]
      BY <1>1, <2>3, <3>1, <3>2, <3>3 DEF SetFees, PoolPart, Fees
    <3>5. QED
      BY <1>1, <1>2, <2>3, <3>4 DEF SetFees, PoolPart
  <2>4. CASE SetVariableFees(e)
    <3>1. /\ e.first = Absent \/ (e.first \in Nat /\ e.first % Word <= MaxFee)
          /\ e.second = Absent \/ (e.second \in Nat /\ e.second % Word <= MaxFee)
      BY <2>4, UpdateAssumption DEF SetVariableFees
    <3>2. fees["x"] \in Fees /\ fees["y"] \in Fees
      BY <1>1 DEF PoolPart, Token
    <3>3. /\ FeeField(fees["x"].variable, e.first) \in 0 .. MaxFee
          /\ FeeField(fees["y"].variable, e.second) \in 0 .. MaxFee
      BY <1>3, <3>1, <3>2 DEF Fees
    <3>4. fees' \in [Token -> Fees]
      BY <1>1, <2>4, <3>2, <3>3 DEF SetVariableFees, PoolPart, Fees, Token
    <3>5. QED
      BY <1>1, <1>2, <2>4, <3>4 DEF SetVariableFees, PoolPart
  <2>5. CASE ResetVariableFees(e)
    <3>1. fees' \in [Token -> Fees]
      BY <1>1, <2>5, PoolAssumption DEF ResetVariableFees, PoolPart, Fees
    <3>2. QED
      BY <1>1, <1>2, <2>5, <3>1 DEF ResetVariableFees, PoolPart
  <2>6. CASE SetStatus(e)
    BY <1>1, <1>2, <2>6 DEF SetStatus, PoolPart
  <2>7. QED
    BY <2>1, <2>2, <2>3, <2>4, <2>5, <2>6 DEF ApplyEvent
<1>5. WalkOK(NoWalk)'
  <2>1. active' \in Bin
    BY <1>4 DEF PoolPart
  <2>2. Price(active') \in Nat /\ PriceScale \in Nat
    BY <2>1, PriceType, PoolAssumption
  <2>3. NoWalk \in WalkState /\ NoWalk.remaining <= NoWalk.amount
    BY DEF NoWalk, WalkState, Token
  <2>4. OnItsSide(NoWalk)' /\ NoWalk.total = 0
    BY DEF NoWalk, OnItsSide
  <2>5. FairlyPriced(NoWalk)'
    BY <2>2 DEF NoWalk, FairlyPriced, Price
  <2>6. QED
    BY <2>3, <2>4, <2>5 DEF WalkOK
<1>6. \A q \in Quoter : WalkOK(walk[q])'
  BY <1>2, <1>5 DEF WalkOK, OnItsSide, FairlyPriced, Price
<1>7. walk' \in [Quoter -> WalkState]
  BY <1>2 DEF NoWalk, WalkState, Token
<1>8. QED
  BY <1>4, <1>6, <1>7 DEF PoolInv, PoolTypeOK, PoolPart, WalkState, WalkOK

(* Every step keeps the invariant.                                         *)
LEMMA PoolStep == PoolInv /\ [Next]_vars => PoolInv'
<1> SUFFICES ASSUME PoolInv, [Next]_vars PROVE PoolInv'
  OBVIOUS
<1>1. ASSUME NEW q \in Quoter, StartQuote(q) PROVE PoolInv'
  BY <1>1, StartStep
<1>2. ASSUME NEW q \in Quoter, SkipBin(q) PROVE PoolInv'
  BY <1>2, SkipStep
<1>3. ASSUME NEW q \in Quoter, SwapInBin(q) PROVE PoolInv'
  BY <1>3, SwapStep
<1>4. ASSUME NEW q \in Quoter, StopWalk(q) PROVE PoolInv'
  BY <1>4, StopStep
<1>5. ASSUME NEW e \in Update, ApplyEvent(e) PROVE PoolInv'
  BY <1>5, EventStep
<1>6. CASE UNCHANGED vars
  BY <1>6 DEF vars, poolVars, PoolInv, PoolTypeOK, WalkOK, OnItsSide, FairlyPriced, Price
<1>7. QED
  BY <1>1, <1>2, <1>3, <1>4, <1>5, <1>6 DEF Next

(* The inductive invariant implies both prices properties.  A quote that   *)
(* starts with nothing buys nothing, which covers an active bin of price   *)
(* 0, where the cross products say nothing.                                *)
LEMMA NoGain == PoolInv => NoRoundTripGain
<1> SUFFICES ASSUME PoolInv, NEW q \in Quoter, NEW r \in Quoter,
                    walk[q].token # walk[r].token, walk[r].amount <= walk[q].total
             PROVE  walk[r].total <= walk[q].amount
  BY DEF NoRoundTripGain
<1> DEFINE tq == walk[q].total
           tr == walk[r].total
           aq == walk[q].amount
           ar == walk[r].amount
           sq == walk[q].amount - walk[q].remaining
           sr == walk[r].amount - walk[r].remaining
           A  == Price(active)
<1>1. WalkOK(walk[q]) /\ WalkOK(walk[r]) /\ A \in Nat /\ PriceScale \in Nat \ {0}
  BY PoolInvParts, PriceType, PoolAssumption DEF PoolPart
<1>2. /\ tq \in Nat /\ tr \in Nat /\ aq \in Nat /\ ar \in Nat
      /\ sq \in Nat /\ sq <= aq /\ sr \in Nat /\ sr <= ar
      /\ sq = 0 => tq = 0
      /\ sr = 0 => tr = 0
      /\ walk[q].token \in Token /\ walk[r].token \in Token
  BY <1>1 DEF WalkOK, WalkState
<1>3. ar <= tq
  OBVIOUS
<1>4. CASE walk[q].token = "x"
  <2>1. tq * PriceScale <= sq * A /\ tr * A <= sr * PriceScale
    BY <1>1, <1>2, <1>4 DEF WalkOK, FairlyPriced, Token
  <2> HIDE DEF tq, tr, aq, ar, sq, sr, A
  <2>2. sr * PriceScale <= tq * PriceScale /\ sq * A <= aq * A
    BY <1>1, <1>2, <1>3
  <2>3. /\ tr * A \in Nat /\ sr * PriceScale \in Nat /\ tq * PriceScale \in Nat
        /\ sq * A \in Nat /\ aq * A \in Nat
    BY <1>1, <1>2
  <2>4. tr * A <= aq * A
    BY <2>1, <2>2, <2>3
  <2>5. CASE A = 0
    <3>1. tq * PriceScale <= 0
      BY <1>1, <1>2, <2>1, <2>5
    <3>2. tq = 0
      BY <1>1, <1>2, <3>1
    <3>3. sr = 0
      BY <1>2, <1>3, <3>2
    <3>4. QED
      BY <1>2, <3>3 DEF tr, aq
  <2>6. CASE A # 0
    <3>1. tr <= aq
      BY <1>1, <1>2, <2>4, <2>6
    <3>2. QED
      BY <3>1 DEF tr, aq
  <2>7. QED
    BY <2>5, <2>6
<1>5. CASE walk[q].token = "y"
  <2>1. tq * A <= sq * PriceScale /\ tr * PriceScale <= sr * A
    BY <1>1, <1>2, <1>5 DEF WalkOK, FairlyPriced, Token
  <2> HIDE DEF tq, tr, aq, ar, sq, sr, A
  <2>2. sr * A <= tq * A /\ sq * PriceScale <= aq * PriceScale
    BY <1>1, <1>2, <1>3
  <2>3. /\ tr * PriceScale \in Nat /\ sr * A \in Nat /\ tq * A \in Nat
        /\ sq * PriceScale \in Nat /\ aq * PriceScale \in Nat
    BY <1>1, <1>2
  <2>4. tr * PriceScale <= aq * PriceScale
    BY <2>1, <2>2, <2>3
  <2>5. tr <= aq
    BY <1>1, <1>2, <2>4
  <2>6. QED
    BY <2>5 DEF tr, aq
<1>6. QED
  BY <1>2, <1>4, <1>5 DEF Token

-----------------------------------------------------------------------------
(* The invariant holds in every state the pool and its quotes reach.       *)
THEOREM PoolInvariant == Spec => []PoolInv
BY PoolInit, PoolStep, PTL DEF Spec

(* dlmm/pool.rs, events.rs: whatever events are applied, bins, fees and    *)
(* walks keep their types, no step divides by zero, and no walk spends     *)
(* more than it was given.                                                 *)
THEOREM PoolTypeCorrect == Spec => []PoolTypeOK
<1>1. PoolInv => PoolTypeOK
  BY DEF PoolInv
<1>2. QED
  BY <1>1, PoolInvariant, PTL

(* math.rs:70-151, pool.rs:84-192: no quote is better than the price of    *)
(* the active bin, for any fees, bins, amounts and saturations.            *)
THEOREM BetterThanActiveNever == Spec => []NoBetterThanActive
<1>1. PoolInv => NoBetterThanActive
  BY DEF PoolInv, WalkOK, FairlyPriced, NoBetterThanActive
<1>2. QED
  BY <1>1, PoolInvariant, PTL

(* Quoting the proceeds of a quote back yields no more than was put in.    *)
THEOREM RoundTripGainNever == Spec => []NoRoundTripGain
BY NoGain, PoolInvariant, PTL

-----------------------------------------------------------------------------
(* Why a walk stops.                                                       *)
LEMMA FloorAbove ==
    ASSUME NEW m \in Nat, NEW n \in Nat \ {0}
    PROVE  m < (m \div n) * n + n
OBVIOUS

(* A quotient that is covered is covered by the floor.                     *)
LEMMA FloorAtLeast ==
    ASSUME NEW k \in Nat, NEW m \in Nat, NEW n \in Nat \ {0}, k * n <= m
    PROVE  k <= m \div n
OBVIOUS

(* What ceiling division returns.                                          *)
LEMMA CeilLemma ==
    ASSUME NEW m \in Nat, NEW n \in Nat \ {0}
    PROVE  DivCeil(m, n) \in Nat /\ m <= DivCeil(m, n) * n /\ DivCeil(m, n) <= m
<1>1. m + n - 1 \in Nat
  OBVIOUS
<1>2. DivCeil(m, n) \in Nat /\ m + n - 1 < DivCeil(m, n) * n + n
  BY <1>1, FloorLemma, FloorAbove DEF DivCeil
<1>3. DivCeil(m, n) <= m
  <2>1. DivCeil(m, n) * n <= m + n - 1
    BY <1>1, FloorLemma DEF DivCeil
  <2>2. CASE m = 0
    BY <1>2, <2>1, <2>2
  <2>3. CASE m # 0
    <3>1. (m + 1) * n = m * n + n /\ m * n \in Nat /\ m * n >= m + n - 1
      BY <2>3
    <3>2. QED
      BY <1>2, <2>1, <3>1
  <2>4. QED
    BY <2>2, <2>3
<1>4. QED
  BY <1>2, <1>3

(* The fee of the gross cap leaves at least the net cap, for any fee: the  *)
(* two floors never lose the unit that would strand a bin.                 *)
LEMMA GrossUp ==
    ASSUME NEW C \in Nat, NEW S \in Nat \ {0}, NEW F \in Nat, NEW D \in Nat \ {0}, D = S - F,
           NEW G \in Nat, C * S < G * D + D,
           NEW fee \in Nat, fee * S <= G * F
    PROVE  C <= G - fee
<1> SUFFICES ASSUME ~(C <= G - fee) PROVE FALSE
  OBVIOUS
<1>1. G + 1 <= C + fee
  OBVIOUS
<1>2. (G + 1) * S <= (C + fee) * S
  BY <1>1, TimesMonotone
<1>3. G * S + S <= C * S + fee * S
  BY <1>2
<1>4. G * S = G * D + G * F
  OBVIOUS
<1>5. /\ G * S \in Nat /\ C * S \in Nat /\ fee * S \in Nat
      /\ G * D \in Nat /\ G * F \in Nat
  OBVIOUS
<1>6. G * D + S <= C * S
  BY <1>3, <1>4, <1>5
<1>7. QED
  BY <1>5, <1>6

(* A step that leaves input over has drained its bin.                      *)
LEMMA DrainLemma ==
    ASSUME PoolTypeOK, NEW t \in Token, NEW n \in Nat, NEW s \in [x : Nat, y : Nat],
           NEW p \in Nat \ {0}, s.y * PriceScale <= MaxUint, s.x * p <= MaxUint,
           NetCap(t, s, p) * FeeScale <= MaxUint,
           Used(t, n, s, p) < n
    PROVE  Payout(t, AfterFee(t, Used(t, n, s, p)), s, p) >= OutOf(t, s)
<1> DEFINE C == NetCap(t, s, p)
           F == FeeOf(t)
           G == GrossCap(t, s, p)
           fee == Sat(G * F) \div FeeScale
           net == AfterFee(t, G)
<1>1. /\ PriceScale \in Nat \ {0} /\ FeeScale \in Nat \ {0} /\ MaxUint \in Nat
      /\ F \in Nat /\ FeeScale - F \in Nat \ {0} /\ s.x \in Nat /\ s.y \in Nat
  BY PoolAssumption, FeesBelowScale
<1>2. G \in Nat /\ Used(t, n, s, p) = G
  BY CapType DEF Used, Least
<1>3. /\ C \in Nat
      /\ t = "x" => s.y * PriceScale <= C * p
      /\ t = "y" => s.x * p <= C * PriceScale
  <2>1. s.y * PriceScale \in Nat /\ s.x * p \in Nat
    BY <1>1
  <2>2. Sat(s.y * PriceScale) = s.y * PriceScale /\ Sat(s.x * p) = s.x * p
    BY <1>1, <2>1 DEF Sat
  <2>3. QED
    BY <1>1, <2>1, <2>2, CeilLemma DEF NetCap, Token
<1> HIDE DEF C, F
<1>4. C * FeeScale < G * (FeeScale - F) + (FeeScale - F)
  <2>1. C * FeeScale \in Nat
    BY <1>1, <1>3
  <2>2. Sat(C * FeeScale) = C * FeeScale
    BY <1>1, <2>1 DEF Sat, C
  <2>3. CASE F > 0
    BY <1>1, <2>1, <2>2, <2>3, FloorAbove DEF GrossCap, C, F
  <2>4. CASE F = 0
    <3>1. G = C
      BY <2>4 DEF GrossCap, C, F
    <3>2. G * (FeeScale - F) = C * FeeScale
      BY <1>1, <2>4, <3>1
    <3>3. QED
      BY <1>1, <2>1, <3>2
  <2>5. QED
    BY <1>1, <2>3, <2>4
<1> HIDE DEF G
<1>5. fee \in Nat /\ fee * FeeScale <= G * F
  <2>1. G * F \in Nat
    BY <1>1, <1>2
  <2>2. Sat(G * F) \in Nat /\ Sat(G * F) <= G * F
    BY <2>1, SatLemma
  <2>3. fee \in Nat /\ fee * FeeScale <= Sat(G * F)
    BY <1>1, <2>2, FloorLemma
  <2>4. fee * FeeScale \in Nat
    BY <1>1, <2>3
  <2>5. QED
    BY <2>1, <2>2, <2>3, <2>4
<1>6. net = G - fee
  BY DEF AfterFee, F
<1> HIDE DEF fee, net
<1>7. C <= G - fee
  <2> DEFINE D == FeeScale - F
  <2>1. D \in Nat \ {0} /\ D = FeeScale - F /\ C * FeeScale < G * D + D
    BY <1>1, <1>4
  <2> HIDE DEF D
  <2>2. QED
    BY <1>1, <1>2, <1>3, <1>5, <2>1, GrossUp
<1>8. net \in Nat /\ C <= net
  BY <1>2, <1>3, <1>5, <1>6, <1>7
<1>9. ASSUME NEW m \in Nat, NEW k \in Nat, NEW d \in Nat \ {0},
             k * d <= m, k * d <= MaxUint
      PROVE  k <= Sat(m) \div d
  <2>1. Sat(m) \in Nat /\ k * d <= Sat(m)
    BY <1>1, <1>9 DEF Sat
  <2>2. QED
    BY <2>1, <1>9, FloorAtLeast
<1>10. CASE t = "x"
  <2>1. C * p \in Nat /\ net * p \in Nat /\ C * p <= net * p
    BY <1>3, <1>8, TimesMonotone
  <2>2. s.y * PriceScale \in Nat /\ s.y * PriceScale <= net * p
    BY <1>1, <1>3, <1>10, <2>1
  <2>3. s.y <= Sat(net * p) \div PriceScale
    BY <1>1, <1>9, <2>1, <2>2
  <2>4. Payout(t, net, s, p) = s.y
    <3> DEFINE out == Sat(net * p) \div PriceScale
    <3>1. out \in Nat
      BY <1>1, <2>1, SatLemma, FloorLemma
    <3>2. Payout(t, net, s, p) = Least(out, s.y)
      BY <1>10 DEF Payout, OutOf
    <3>3. s.y <= out
      BY <2>3
    <3> HIDE DEF out
    <3>4. QED
      BY <1>1, <3>1, <3>2, <3>3 DEF Least
  <2>5. QED
    BY <1>1, <1>2, <1>10, <2>4 DEF OutOf, net
<1>11. CASE t = "y"
  <2>1. C * PriceScale \in Nat /\ net * PriceScale \in Nat /\ C * PriceScale <= net * PriceScale
    BY <1>1, <1>3, <1>8, TimesMonotone
  <2>2. s.x * p \in Nat /\ s.x * p <= net * PriceScale
    BY <1>1, <1>3, <1>11, <2>1
  <2>3. s.x <= Sat(net * PriceScale) \div p
    BY <1>1, <1>9, <2>1, <2>2
  <2>4. Payout(t, net, s, p) = s.x
    <3> DEFINE out == Sat(net * PriceScale) \div p
    <3>1. out \in Nat
      BY <1>1, <2>1, SatLemma, FloorLemma
    <3>2. Payout(t, net, s, p) = Least(out, s.x)
      BY <1>11 DEF Payout, OutOf
    <3>3. s.x <= out
      BY <2>3
    <3> HIDE DEF out
    <3>4. QED
      BY <1>1, <3>1, <3>2, <3>3 DEF Least
  <2>5. QED
    BY <1>1, <1>2, <1>11, <2>4 DEF OutOf, net
<1>12. QED
  BY <1>10, <1>11 DEF Token

Bounded(B) == \A b \in DOMAIN bins : bins[b].x <= B /\ bins[b].y <= B

HasReason(w) ==
    w.pc = "done" /\ w.remaining > 0 =>
        \/ OutsideWindow(w.token, w.bin)
        \/ w.bin \in DOMAIN bins /\ (OutOf(w.token, bins[w.bin]) = 0 \/ Price(w.bin) = 0)

(* No product of a step saturates in a mirrored bin.                       *)
LEMMA RoomLemma ==
    ASSUME NEW B, Unsaturated(B), PoolInv, Bounded(B), NEW t \in Token,
           NEW b \in DOMAIN bins, Price(b) # 0
    PROVE  /\ bins[b].y * PriceScale <= MaxUint /\ bins[b].x * Price(b) <= MaxUint
           /\ NetCap(t, bins[b], Price(b)) * FeeScale <= MaxUint
<1> DEFINE x == bins[b].x
           y == bins[b].y
           p == Price(b)
<1>1. /\ b \in Bin /\ x \in Nat /\ y \in Nat /\ x <= B /\ y <= B /\ B \in Nat
      /\ p \in Nat \ {0} /\ PriceScale \in Nat \ {0} /\ FeeScale \in Nat \ {0} /\ MaxUint \in Nat
  BY PoolInvParts, PoolAssumption, PriceType DEF PoolPart, Bounded, Unsaturated
<1>2. B * PriceScale * FeeScale <= MaxUint /\ B * p * FeeScale <= MaxUint
  BY <1>1 DEF Unsaturated
<1>3. \A k \in Nat, m \in Nat : k <= m => /\ k * FeeScale \in Nat /\ m * FeeScale \in Nat
                                          /\ k <= k * FeeScale /\ k * FeeScale <= m * FeeScale
  <2> SUFFICES ASSUME NEW k \in Nat, NEW m \in Nat, k <= m
               PROVE  /\ k * FeeScale \in Nat /\ m * FeeScale \in Nat
                      /\ k <= k * FeeScale /\ k * FeeScale <= m * FeeScale
    OBVIOUS
  <2>1. k * 1 <= k * FeeScale
    BY <1>1
  <2>2. QED
    BY <1>1, <2>1, TimesMonotone
<1> HIDE DEF p
<1>4. /\ y * PriceScale \in Nat /\ B * PriceScale \in Nat /\ y * PriceScale <= B * PriceScale
      /\ x * p \in Nat /\ B * p \in Nat /\ x * p <= B * p
  BY <1>1, TimesMonotone
<1>5. y * PriceScale * FeeScale <= MaxUint /\ x * p * FeeScale <= MaxUint
  <2>1. /\ y * PriceScale * FeeScale <= B * PriceScale * FeeScale
        /\ x * p * FeeScale <= B * p * FeeScale
    BY <1>3, <1>4
  <2>2. /\ y * PriceScale * FeeScale \in Nat /\ B * PriceScale * FeeScale \in Nat
        /\ x * p * FeeScale \in Nat /\ B * p * FeeScale \in Nat
    BY <1>3, <1>4
  <2>3. QED
    BY <1>1, <1>2, <2>1, <2>2
<1>6. y * PriceScale <= MaxUint /\ x * p <= MaxUint
  <2>1. /\ y * PriceScale <= y * PriceScale * FeeScale /\ x * p <= x * p * FeeScale
        /\ y * PriceScale * FeeScale \in Nat /\ x * p * FeeScale \in Nat
    BY <1>3, <1>4
  <2>2. QED
    BY <1>1, <1>4, <1>5, <2>1
<1>7. NetCap(t, bins[b], p) * FeeScale <= MaxUint
  <2> DEFINE gross == IF t = "x" THEN y * PriceScale ELSE x * p
             cap == NetCap(t, bins[b], p)
  <2>1. Sat(y * PriceScale) = y * PriceScale /\ Sat(x * p) = x * p
    BY <1>1, <1>4, <1>6 DEF Sat
  <2>2. cap \in Nat /\ cap <= gross /\ gross \in Nat
    BY <1>1, <1>4, <2>1, CeilLemma DEF NetCap
  <2>3. gross * FeeScale <= MaxUint /\ gross * FeeScale \in Nat
    BY <1>3, <1>4, <1>5
  <2> HIDE DEF gross, cap
  <2>4. cap * FeeScale <= gross * FeeScale /\ cap * FeeScale \in Nat
    BY <1>3, <2>2
  <2>5. QED
    BY <1>1, <2>3, <2>4 DEF cap
<1>8. QED
  BY <1>6, <1>7 DEF p

(* One bin's step either spends all that is left, or drains the bin.       *)
LEMMA SpendsOrDrains ==
    ASSUME NEW B, Unsaturated(B), PoolInv, Bounded(B), NEW q \in Quoter,
           walk[q].bin \in DOMAIN bins, Price(walk[q].bin) # 0
    PROVE  /\ UsedIn(walk[q]) \in Nat /\ UsedIn(walk[q]) <= walk[q].remaining
           /\ PaidIn(walk[q]) \in Nat
           /\ UsedIn(walk[q]) = 0 => PaidIn(walk[q]) = 0
           /\ \/ UsedIn(walk[q]) = walk[q].remaining
              \/ PaidIn(walk[q]) >= OutOf(walk[q].token, bins[walk[q].bin])
<1> DEFINE w == walk[q]
           s == bins[w.bin]
           p == Price(w.bin)
           used == UsedIn(w)
           paid == PaidIn(w)
<1>1. /\ w.token \in Token /\ w.remaining \in Nat
      /\ s \in [x : Nat, y : Nat] /\ p \in Nat \ {0} /\ PriceScale \in Nat \ {0} /\ PoolTypeOK
  BY PoolInvParts, PriceType, PoolAssumption DEF PoolPart, WalkState, PoolInv
<1>2. /\ used \in Nat /\ used <= w.remaining /\ paid \in Nat
      /\ w.token = "x" => paid * PriceScale <= used * p
      /\ w.token = "y" => paid * p <= used * PriceScale
  BY <1>1, StepLemma DEF UsedIn, PaidIn
<1>3. used < w.remaining => paid >= OutOf(w.token, s)
  <2>1. /\ s.y * PriceScale <= MaxUint /\ s.x * p <= MaxUint
        /\ NetCap(w.token, s, p) * FeeScale <= MaxUint
    BY <1>1, RoomLemma
  <2>2. QED
    BY <1>1, <2>1, DrainLemma DEF UsedIn, PaidIn
<1>4. used = 0 => paid = 0
  <2> HIDE DEF used, paid, p
  <2> SUFFICES ASSUME used = 0 PROVE paid = 0
    OBVIOUS
  <2>1. CASE w.token = "x"
    BY <1>1, <1>2, <2>1
  <2>2. CASE w.token = "y"
    BY <1>1, <1>2, <2>2
  <2>3. QED
    BY <1>1, <2>1, <2>2 DEF Token
<1>5. QED
  BY <1>1, <1>2, <1>3, <1>4

(* No walk has ended yet.                                                  *)
LEMMA ReasonInit ==
    ASSUME NEW B, Unsaturated(B), Init
    PROVE  Bounded(B) /\ \A q \in Quoter : HasReason(walk[q])
BY DEF Unsaturated, Init, Bounded, HasReason, NoWalk

(* A step that leaves the pool alone keeps the reasons of the other walks. *)
LEMMA OneReason ==
    ASSUME NEW B, PoolInv, Bounded(B), \A r \in Quoter : HasReason(walk[r]),
           NEW q \in Quoter, NEW w, HasReason(w),
           walk' = [walk EXCEPT ![q] = w], UNCHANGED poolVars
    PROVE  Bounded(B)' /\ \A r \in Quoter : HasReason(walk[r])'
<1>1. \A r \in Quoter : HasReason(walk'[r])
  BY PoolInvParts
<1>2. \A r \in Quoter : HasReason(walk[r])'
  BY <1>1 DEF poolVars, HasReason, OutsideWindow, OutOf, Price
<1>3. QED
  BY <1>2 DEF Bounded, poolVars

(* Every step keeps the reasons and the bound on the balances.             *)
LEMMA ReasonStep ==
    ASSUME NEW B, Unsaturated(B), PoolInv, Bounded(B), \A q \in Quoter : HasReason(walk[q]),
           [Next]_vars
    PROVE  Bounded(B)' /\ \A q \in Quoter : HasReason(walk[q])'
<1>1. ASSUME NEW q \in Quoter, StartQuote(q)
      PROVE  Bounded(B)' /\ \A r \in Quoter : HasReason(walk[r])'
  <2>1. PICK w : w.pc = "walk" /\ walk' = [walk EXCEPT ![q] = w]
    BY <1>1 DEF StartQuote
  <2>2. HasReason(w)
    BY <2>1 DEF HasReason
  <2>3. QED
    BY <1>1, <2>1, <2>2, OneReason DEF StartQuote
<1>2. ASSUME NEW q \in Quoter, SkipBin(q)
      PROVE  Bounded(B)' /\ \A r \in Quoter : HasReason(walk[r])'
  <2> DEFINE w == walk[q]
             b == NextBin(w.token, w.bin)
             v == [w EXCEPT !.bin = b, !.pc = IF OutsideWindow(w.token, b) THEN "done" ELSE "walk"]
  <2>1. walk' = [walk EXCEPT ![q] = v] /\ UNCHANGED poolVars
    BY <1>2, PoolInvParts DEF SkipBin, WalkState
  <2>2. w \in WalkState
    BY PoolInvParts
  <2>3. v.pc = "done" => OutsideWindow(v.token, v.bin)
    BY <2>2 DEF WalkState
  <2>4. HasReason(v)
    BY <2>3 DEF HasReason
  <2> HIDE DEF v
  <2>5. QED
    BY <2>1, <2>4, OneReason
<1>3. ASSUME NEW q \in Quoter, SwapInBin(q)
      PROVE  Bounded(B)' /\ \A r \in Quoter : HasReason(walk[r])'
  <2> DEFINE w == walk[q]
             used == UsedIn(w)
             paid == PaidIn(w)
             drained == paid >= OutOf(w.token, bins[w.bin])
             v == [w EXCEPT !.total = Credit(@, paid), !.remaining = @ - used,
                            !.bin = IF drained THEN NextBin(w.token, @) ELSE @,
                            !.pc = IF drained THEN "walk" ELSE "done"]
  <2>1. walk' = [walk EXCEPT ![q] = v] /\ UNCHANGED poolVars
    BY <1>3, PoolInvParts DEF SwapInBin, WalkState
  <2>2. w \in WalkState /\ w.bin \in DOMAIN bins /\ Price(w.bin) # 0
    BY <1>3, PoolInvParts DEF SwapInBin, NoInventory, UsedIn, Used
  <2>3. drained \/ used = w.remaining
    BY <2>2, SpendsOrDrains
  <2>4. v.pc = "done" => v.remaining = 0
    <3>1. v.pc = "done" => ~drained
      BY <2>2 DEF WalkState
    <3>2. v.remaining = w.remaining - used /\ w.remaining \in Nat
      BY <2>2 DEF WalkState
    <3>3. QED
      BY <2>3, <3>1, <3>2
  <2>5. HasReason(v)
    BY <2>4 DEF HasReason
  <2> HIDE DEF v
  <2>6. QED
    BY <2>1, <2>5, OneReason
<1>4. ASSUME NEW q \in Quoter, StopWalk(q)
      PROVE  Bounded(B)' /\ \A r \in Quoter : HasReason(walk[r])'
  <2> DEFINE w == walk[q]
             v == [w EXCEPT !.pc = "done"]
  <2>1. walk' = [walk EXCEPT ![q] = v] /\ UNCHANGED poolVars
    BY <1>4, PoolInvParts DEF StopWalk, WalkState
  <2>2. w \in WalkState /\ w.token \in Token /\ w.bin \in Int /\ w.remaining \in Nat
    BY PoolInvParts DEF WalkState
  <2>3. v.token = w.token /\ v.bin = w.bin /\ v.remaining = w.remaining
    BY <2>2 DEF WalkState
  <2> HIDE DEF v
  <2>4. ASSUME ~InLoop(w) PROVE HasReason(v)
    <3>1. CASE w.remaining = 0
      BY <2>3, <3>1 DEF HasReason
    <3>2. CASE w.remaining # 0
      <4>1. IF w.token = "x" THEN w.bin < MinBin ELSE w.bin > MaxBin
        BY <2>2, <2>4, <3>2, PoolAssumption DEF InLoop
      <4>2. OutsideWindow(w.token, w.bin)
        <5>1. \A i \in (IF DOMAIN bins = {} THEN {active} ELSE DOMAIN bins) :
                i \in Int /\ MinBin <= i /\ i <= MaxBin
          BY PoolInvParts, PoolAssumption DEF PoolPart, Bin
        <5>2. QED
          BY <2>2, <4>1, <5>1, PoolAssumption, SMTT(30) DEF OutsideWindow
      <4>3. QED
        BY <2>3, <4>2 DEF HasReason
    <3>3. QED
      BY <3>1, <3>2
  <2>5. ASSUME InLoop(w) PROVE HasReason(v)
    <3>1. /\ w.bin \in DOMAIN bins /\ w.bin \in Bin /\ w.remaining # 0
          /\ Priced(w.bin) => UsedIn(w) = 0
      BY <1>4, <2>2, <2>5, PoolInvParts DEF StopWalk, NoInventory, PoolPart, InLoop
    <3>2. UsedIn(w) = 0
      BY <3>1 DEF Priced, Unsaturated
    <3>3. CASE Price(w.bin) = 0
      BY <2>3, <3>1, <3>3 DEF HasReason
    <3>4. CASE Price(w.bin) # 0
      <4>1. OutOf(w.token, bins[w.bin]) <= 0
        BY <3>1, <3>2, <3>4, SpendsOrDrains
      <4>2. OutOf(w.token, bins[w.bin]) \in Nat
        BY <3>1, PoolInvParts DEF PoolPart, OutOf
      <4>3. OutOf(w.token, bins[w.bin]) = 0
        BY <4>1, <4>2
      <4>4. QED
        BY <2>3, <3>1, <4>3 DEF HasReason
    <3>5. QED
      BY <3>3, <3>4
  <2>6. HasReason(v)
    BY <2>4, <2>5
  <2>7. QED
    BY <2>1, <2>6, OneReason
<1>5. ASSUME NEW e \in Update, ApplyEvent(e)
      PROVE  Bounded(B)' /\ \A r \in Quoter : HasReason(walk[r])'
  <2>1. walk' = [q \in Quoter |-> NoWalk]
    BY <1>5 DEF ApplyEvent, UpdateBin, Swapped, SetFees, SetVariableFees,
                ResetVariableFees, SetStatus, Applies
  <2>2. \A q \in Quoter : HasReason(walk[q])'
    BY <2>1 DEF HasReason, NoWalk
  <2>3. CASE UpdateBin(e)
    <3>1. /\ e.x <= B /\ e.y <= B
          /\ bins' = [b \in DOMAIN bins \cup {e.bin} |->
                        IF b = e.bin THEN [x |-> e.x, y |-> e.y] ELSE bins[b]]
      BY <2>3 DEF UpdateBin, Unsaturated
    <3>2. Bounded(B)'
      BY <3>1 DEF Bounded
    <3>3. QED
      BY <2>2, <3>2
  <2>4. CASE ~UpdateBin(e)
    <3>1. bins' = bins
      BY <1>5, <2>4 DEF ApplyEvent, Swapped, SetFees, SetVariableFees, ResetVariableFees,
                        SetStatus
    <3>2. QED
      BY <2>2, <3>1 DEF Bounded
  <2>5. QED
    BY <2>2, <2>3, <2>4
<1>6. CASE UNCHANGED vars
  BY <1>6 DEF vars, poolVars, Bounded, HasReason, OutsideWindow, OutOf, Price
<1>7. QED
  BY <1>1, <1>2, <1>3, <1>4, <1>5, <1>6 DEF Next

(* math.rs:86-103, pool.rs:123-133: while balances stay within a bound for  *)
(* which no product saturates, a walk ends with input left only past the   *)
(* mirrored window, or in a bin without output balance or price.           *)
THEOREM StopsCorrect ==
    ASSUME NEW B, Unsaturated(B)
    PROVE  Spec => []StopsForAReason
<1> DEFINE I == PoolInv /\ Bounded(B) /\ \A q \in Quoter : HasReason(walk[q])
<1>1. Init => I
  BY PoolInit, ReasonInit
<1>2. I /\ [Next]_vars => I'
  BY PoolStep, ReasonStep
<1>3. I => StopsForAReason
  BY DEF HasReason, StopsForAReason
<1> HIDE DEF I
<1>4. QED
  BY <1>1, <1>2, <1>3, PTL DEF Spec

-----------------------------------------------------------------------------
(* Among subsets of a finite set one that contains no other is found.      *)
LEMMA LeastSet ==
    ASSUME NEW S, IsFiniteSet(S), NEW B, B \subseteq SUBSET S, B # {}
    PROVE  \E s \in B : \A u \in B : u \subseteq s => u = s
<1>1. IsWellFoundedOn(StrictSubsetOrdering(S), FiniteSubsetsOf(S))
  BY FS_StrictSubsetOrderingWellFounded
<1>2. FiniteSubsetsOf(S) = SUBSET S
  BY FS_FiniteSubsetsOfFinite
<1>3. PICK s \in B : \A u \in B : ~ (<<u, s>> \in StrictSubsetOrdering(S))
  BY <1>1, <1>2, WFMin
<1>4. QED
  BY <1>3 DEF StrictSubsetOrdering

(* The sum of f over a finite set, taken element by element in the order   *)
(* that CHOOSE gives: the recursion that the fold follows.                 *)
SumsOver(f, S, g) ==
    [s \in SUBSET S |->
        IF s = {} THEN 0 ELSE f[CHOOSE x \in s : TRUE] + g[s \ {CHOOSE x \in s : TRUE}]]

HasSums(f, S) == \E g : g = SumsOver(f, S, g)

(* Once a function follows the recursion, the fold is the value of one.    *)
LEMMA FoldIsSum ==
    ASSUME NEW f, NEW S, HasSums(f, S)
    PROVE  \E g : g = SumsOver(f, S, g) /\ SumFunctionOnSet(f, S) = g[S]
<1> DEFINE iter == CHOOSE g : g = SumsOver(f, S, g)
<1>1. iter = SumsOver(f, S, iter)
  <2> HIDE DEF SumsOver
  <2>1. QED
    BY DEF HasSums
<1>2. SumFunctionOnSet(f, S) = iter[S]
  BY DEF SumFunctionOnSet, FoldFunctionOnSet, MapThenFoldSet, SumsOver
<1>3. QED
  BY <1>1, <1>2

(* One step of the recursion.                                              *)
LEMMA SumsStep ==
    ASSUME NEW f, NEW S, NEW g, g = SumsOver(f, S, g), NEW s \in SUBSET S
    PROVE  /\ s = {} => g[s] = 0
           /\ s # {} => \E x \in s : /\ x = CHOOSE y \in s : TRUE
                                     /\ g[s] = f[x] + g[s \ {x}]
<1>1. g[s] = IF s = {} THEN 0
             ELSE f[CHOOSE x \in s : TRUE] + g[s \ {CHOOSE x \in s : TRUE}]
  BY DEF SumsOver
<1>2. s # {} => (CHOOSE x \in s : TRUE) \in s
  OBVIOUS
<1>3. QED
  BY <1>1, <1>2

(* Two functions that follow it agree on the sets they share.              *)
LEMMA SumsAgree ==
    ASSUME NEW f, NEW S, NEW T \in SUBSET S, IsFiniteSet(S), NEW g, NEW h,
           g = SumsOver(f, T, g), h = SumsOver(f, S, h)
    PROVE  \A s \in SUBSET T : g[s] = h[s]
<1> DEFINE bad == {s \in SUBSET T : g[s] # h[s]}
<1>1. SUFFICES ASSUME bad # {} PROVE FALSE
  OBVIOUS
<1>2. IsFiniteSet(T) /\ bad \subseteq SUBSET T
  BY FS_Subset
<1>3. PICK s \in bad : \A u \in bad : u \subseteq s => u = s
  <2> HIDE DEF bad
  <2>1. QED
    BY <1>1, <1>2, LeastSet
<1>4. s \in SUBSET T /\ s \in SUBSET S /\ g[s] # h[s]
  BY <1>3
<1>5. s # {}
  BY <1>4, SumsStep
<1>6. PICK x \in s : x = (CHOOSE y \in s : TRUE) /\ g[s] = f[x] + g[s \ {x}]
  BY <1>4, <1>5, SumsStep
<1>7. h[s] = f[x] + h[s \ {x}]
  <2>1. PICK z \in s : z = (CHOOSE y \in s : TRUE) /\ h[s] = f[z] + h[s \ {z}]
    BY <1>4, <1>5, SumsStep
  <2>2. QED
    BY <1>6, <2>1
<1>8. s \ {x} \notin bad
  BY <1>3, <1>6
<1>9. g[s \ {x}] = h[s \ {x}]
  BY <1>4, <1>8
<1>10. QED
  BY <1>4, <1>6, <1>7, <1>9

(* Every finite set has sums, and the fold returns them.                   *)
LEMMA SumsExist ==
    ASSUME NEW f, NEW S, IsFiniteSet(S)
    PROVE  HasSums(f, S)
<1> DEFINE bad == {s \in SUBSET S : ~HasSums(f, s)}
           Sum(s) == SumFunctionOnSet(f, s)
<1>1. SUFFICES ASSUME bad # {} PROVE FALSE
  OBVIOUS
<1>2. PICK s \in bad : \A u \in bad : u \subseteq s => u = s
  <2>1. bad \subseteq SUBSET S
    OBVIOUS
  <2> HIDE DEF bad
  <2>2. QED
    BY <1>1, <2>1, LeastSet
<1>3. s \in SUBSET S /\ ~HasSums(f, s) /\ IsFiniteSet(s)
  BY <1>2, FS_Subset
<1>4. \A u \in SUBSET s : u # s => HasSums(f, u)
  BY <1>2, <1>3
<1> HIDE DEF bad
<1> DEFINE w == [u \in SUBSET s |->
                    IF u = {} THEN 0
                    ELSE f[CHOOSE x \in u : TRUE] + Sum(u \ {CHOOSE x \in u : TRUE})]
<1>5. ASSUME NEW v \in SUBSET s, v # s
      PROVE  w[v] = Sum(v)
  <2>1. PICK g : g = SumsOver(f, v, g) /\ Sum(v) = g[v]
    BY <1>4, <1>5, FoldIsSum
  <2>2. CASE v = {}
    BY <2>1, <2>2, SumsStep
  <2>3. CASE v # {}
    <3>1. PICK x \in v : x = (CHOOSE y \in v : TRUE) /\ g[v] = f[x] + g[v \ {x}]
      BY <2>1, <2>3, SumsStep
    <3>2. w[v] = f[x] + Sum(v \ {x})
      BY <2>3, <3>1
    <3>3. v \ {x} \in SUBSET s /\ v \ {x} # s /\ v \ {x} \in SUBSET v /\ IsFiniteSet(v)
      BY <1>3, <1>5, <3>1, FS_Subset
    <3>4. PICK h : h = SumsOver(f, v \ {x}, h) /\ Sum(v \ {x}) = h[v \ {x}]
      BY <1>4, <3>3, FoldIsSum
    <3>5. h[v \ {x}] = g[v \ {x}]
      BY <2>1, <3>3, <3>4, SumsAgree
    <3>6. QED
      BY <2>1, <3>1, <3>2, <3>4, <3>5
  <2>4. QED
    BY <2>2, <2>3
<1>6. ASSUME NEW u \in SUBSET s
      PROVE  w[u] = SumsOver(f, s, w)[u]
  <2>1. CASE u = {}
    BY <2>1 DEF SumsOver
  <2>2. CASE u # {}
    <3> DEFINE x == CHOOSE y \in u : TRUE
    <3>1. x \in u
      BY <2>2
    <3>2. w[u] = f[x] + Sum(u \ {x})
      BY <2>2
    <3>3. SumsOver(f, s, w)[u] = f[x] + w[u \ {x}]
      BY <2>2 DEF SumsOver
    <3> HIDE DEF x, w, Sum
    <3>4. u \ {x} \in SUBSET s /\ u \ {x} # s
      BY <3>1
    <3>5. QED
      BY <1>5, <3>2, <3>3, <3>4
  <2>3. QED
    BY <2>1, <2>2
<1>7. w = SumsOver(f, s, w)
  <2>1. DOMAIN SumsOver(f, s, w) = SUBSET s /\ DOMAIN w = SUBSET s
    BY DEF SumsOver
  <2>2. QED
    BY <1>6, <2>1 DEF SumsOver
<1>8. QED
  BY <1>3, <1>7 DEF HasSums
(* What the fold returns on a set, and on that set without an element.     *)
LEMMA SumEmpty == ASSUME NEW f PROVE SumFunctionOnSet(f, {}) = 0
<1>1. HasSums(f, {})
  BY SumsExist, FS_EmptySet
<1>2. PICK g : g = SumsOver(f, {}, g) /\ SumFunctionOnSet(f, {}) = g[{}]
  BY <1>1, FoldIsSum
<1>3. QED
  BY <1>2, SumsStep

(* The same function serves every smaller set.                             *)
LEMMA SumSubset ==
    ASSUME NEW f, NEW S, IsFiniteSet(S), NEW g, g = SumsOver(f, S, g), NEW T \in SUBSET S
    PROVE  SumFunctionOnSet(f, T) = g[T]
<1>1. IsFiniteSet(T)
  BY FS_Subset
<1>2. HasSums(f, T)
  BY <1>1, SumsExist
<1>3. PICK h : h = SumsOver(f, T, h) /\ SumFunctionOnSet(f, T) = h[T]
  BY <1>2, FoldIsSum
<1>4. QED
  BY <1>3, SumsAgree

(* Some element comes first.                                               *)
LEMMA SumFirst ==
    ASSUME NEW f, NEW S, IsFiniteSet(S), S # {}
    PROVE  \E x \in S : SumFunctionOnSet(f, S) = f[x] + SumFunctionOnSet(f, S \ {x})
<1>1. HasSums(f, S)
  BY SumsExist
<1>2. PICK g : g = SumsOver(f, S, g) /\ SumFunctionOnSet(f, S) = g[S]
  BY <1>1, FoldIsSum
<1>3. PICK x \in S : g[S] = f[x] + g[S \ {x}]
  BY <1>2, SumsStep
<1>4. SumFunctionOnSet(f, S \ {x}) = g[S \ {x}]
  BY <1>2, SumSubset
<1>5. QED
  BY <1>2, <1>3, <1>4

(* A sum of numbers is a number.                                           *)
LEMMA SumNat ==
    ASSUME NEW f, NEW S, IsFiniteSet(S), \A x \in S : f[x] \in Nat
    PROVE  \A s \in SUBSET S : SumFunctionOnSet(f, s) \in Nat
<1> DEFINE Sum(s) == SumFunctionOnSet(f, s)
           bad == {s \in SUBSET S : Sum(s) \notin Nat}
<1>1. SUFFICES ASSUME bad # {} PROVE FALSE
  OBVIOUS
<1>2. PICK s \in bad : \A u \in bad : u \subseteq s => u = s
  <2>1. bad \subseteq SUBSET S
    OBVIOUS
  <2> HIDE DEF bad
  <2>2. QED
    BY <1>1, <2>1, LeastSet
<1>3. s \in SUBSET S /\ Sum(s) \notin Nat /\ IsFiniteSet(s)
  BY <1>2, FS_Subset
<1>4. s # {}
  BY <1>3, SumEmpty
<1>5. PICK x \in s : Sum(s) = f[x] + Sum(s \ {x})
  BY <1>3, <1>4, SumFirst
<1>6. s \ {x} \notin bad
  BY <1>2, <1>5
<1>7. Sum(s \ {x}) \in Nat /\ f[x] \in Nat
  BY <1>3, <1>6
<1> HIDE DEF Sum
<1>8. QED
  BY <1>3, <1>5, <1>7

(* Any element may be taken first.                                         *)
LEMMA SumTake ==
    ASSUME NEW f, NEW S, IsFiniteSet(S), \A x \in S : f[x] \in Nat, NEW e \in S
    PROVE  SumFunctionOnSet(f, S) = f[e] + SumFunctionOnSet(f, S \ {e})
<1> DEFINE Sum(s) == SumFunctionOnSet(f, s)
           bad == {s \in SUBSET S : \E y \in s : Sum(s) # f[y] + Sum(s \ {y})}
<1>1. SUFFICES ASSUME bad # {} PROVE FALSE
  OBVIOUS
<1>2. PICK s \in bad : \A u \in bad : u \subseteq s => u = s
  <2>1. bad \subseteq SUBSET S
    OBVIOUS
  <2> HIDE DEF bad
  <2>2. QED
    BY <1>1, <2>1, LeastSet
<1>3. PICK y \in s : Sum(s) # f[y] + Sum(s \ {y})
  BY <1>2
<1>4. s \in SUBSET S /\ IsFiniteSet(s)
  BY <1>2, FS_Subset
<1>5. PICK x \in s : Sum(s) = f[x] + Sum(s \ {x})
  BY <1>3, <1>4, SumFirst
<1>6. x # y /\ y \in s \ {x} /\ x \in s \ {y}
  BY <1>3, <1>5
<1>7. s \ {x} \notin bad /\ s \ {y} \notin bad /\ s \ {x} \in SUBSET S /\ s \ {y} \in SUBSET S
  BY <1>2, <1>3, <1>4, <1>5
<1>8. /\ Sum(s \ {x}) = f[y] + Sum((s \ {x}) \ {y})
      /\ Sum(s \ {y}) = f[x] + Sum((s \ {y}) \ {x})
  BY <1>6, <1>7
<1>9. (s \ {x}) \ {y} = (s \ {y}) \ {x} /\ (s \ {x}) \ {y} \in SUBSET S
  BY <1>4
<1>10. f[x] \in Nat /\ f[y] \in Nat /\ Sum((s \ {x}) \ {y}) \in Nat
  BY <1>3, <1>4, <1>5, <1>9, SumNat
<1> HIDE DEF Sum
<1>11. QED
  BY <1>3, <1>5, <1>8, <1>9, <1>10

(* A larger set has no smaller sum.                                        *)
LEMMA SumGrows ==
    ASSUME NEW f, NEW S, IsFiniteSet(S), \A x \in S : f[x] \in Nat, NEW T \in SUBSET S
    PROVE  SumFunctionOnSet(f, T) <= SumFunctionOnSet(f, S)
<1> DEFINE Sum(s) == SumFunctionOnSet(f, s)
           bad == {s \in SUBSET S : T \subseteq s /\ ~(Sum(T) <= Sum(s))}
<1>1. SUFFICES ASSUME bad # {} PROVE FALSE
  OBVIOUS
<1>2. PICK s \in bad : \A u \in bad : u \subseteq s => u = s
  <2>1. bad \subseteq SUBSET S
    OBVIOUS
  <2> HIDE DEF bad
  <2>2. QED
    BY <1>1, <2>1, LeastSet
<1>3. s \in SUBSET S /\ IsFiniteSet(s) /\ T \subseteq s /\ ~(Sum(T) <= Sum(s))
  BY <1>2, FS_Subset
<1>4. Sum(T) \in Nat /\ Sum(s) \in Nat
  BY <1>3, SumNat
<1>5. PICK x \in s : x \notin T
  <2>1. s # T
    <3> HIDE DEF Sum
    <3>1. QED
      BY <1>3, <1>4
  <2>2. QED
    BY <1>3, <2>1
<1>6. Sum(s) = f[x] + Sum(s \ {x})
  BY <1>3, SumTake
<1>7. s \ {x} \notin bad /\ s \ {x} \in SUBSET S /\ T \subseteq s \ {x}
  BY <1>2, <1>3, <1>5
<1>8. Sum(T) <= Sum(s \ {x}) /\ Sum(s \ {x}) \in Nat /\ f[x] \in Nat
  BY <1>3, <1>7, SumNat
<1> HIDE DEF Sum
<1>9. QED
  BY <1>3, <1>4, <1>6, <1>8

-----------------------------------------------------------------------------
(* Where a walk goes.  Bin c is passed before bin b, and not before the    *)
(* active bin, where walks begin.                                          *)
Ahead(t, c, b) == IF t = "x" THEN c > b ELSE c < b
Begun(t, c) == ~Ahead(t, c, active)
Passed(t, b) == {c \in DOMAIN bins : Ahead(t, c, b) /\ Begun(t, c)}

(* What the bins hold of the output, and what they take of the input.      *)
HeldBy(t) == [b \in DOMAIN bins |-> OutOf(t, bins[b])]
TakenBy(t) ==
    [b \in DOMAIN bins |-> IF NoInventory(b) \/ Price(b) = 0 THEN 0
                           ELSE GrossCap(t, bins[b], Price(b))]

Held(t, b) == SumFunctionOnSet(HeldBy(t), Passed(t, b))
Taken(t, b) == SumFunctionOnSet(TakenBy(t), Passed(t, b))
Left(t, n, b) == IF n > Taken(t, b) THEN n - Taken(t, b) ELSE 0

UsedAt(t, n, b) == Used(t, n, bins[b], Price(b))
PaidAt(t, n, b) == Payout(t, AfterFee(t, UsedAt(t, n, b)), bins[b], Price(b))

(* A walk with n left at bin b: it takes the loop; it goes on to the next  *)
(* bin; it ends there, spent or without a swap, or after a swap that does  *)
(* not drain the bin.                                                      *)
Loops(t, n, b) == n > 0 /\ (IF t = "x" THEN b >= MinBin ELSE b <= MaxBin)
Passes(t, n, b) ==
    /\ Loops(t, n, b)
    /\ \/ NoInventory(b) /\ ~OutsideWindow(t, NextBin(t, b))
       \/ /\ ~NoInventory(b) /\ Priced(b) /\ UsedAt(t, n, b) # 0
          /\ PaidAt(t, n, b) >= OutOf(t, bins[b])
Halts(t, n, b) == Loops(t, n, b) => ~NoInventory(b) /\ (Priced(b) => UsedAt(t, n, b) = 0)
Leaves(t, n, b) == Loops(t, n, b) /\ NoInventory(b) /\ OutsideWindow(t, NextBin(t, b))
Dwells(t, n, b) ==
    /\ Loops(t, n, b) /\ ~NoInventory(b) /\ Priced(b) /\ UsedAt(t, n, b) # 0
    /\ ~(PaidAt(t, n, b) >= OutOf(t, bins[b]))

(* A quote of n comes as far as bin b, and ends there with this total.     *)
Reaches(t, n, b) ==
    b \in Int /\ Begun(t, b)
    /\ \A c \in Int : Ahead(t, c, b) /\ Begun(t, c) => Passes(t, Left(t, n, c), c)
EndsAt(t, n, b, total) ==
    /\ Reaches(t, n, b)
    /\ \/ Halts(t, Left(t, n, b), b) /\ total = Sat(Held(t, b))
       \/ Leaves(t, Left(t, n, b), b) /\ total = Sat(Held(t, b))
       \/ /\ Dwells(t, Left(t, n, b), b)
          /\ total = Sat(Sat(Held(t, b)) + PaidAt(t, Left(t, n, b), b))

PathOK(w) ==
    /\ w.pc = "idle" => w.total = 0
    /\ w.pc = "walk" => /\ Reaches(w.token, w.amount, w.bin)
                        /\ w.remaining = Left(w.token, w.amount, w.bin)
                        /\ w.total = Sat(Held(w.token, w.bin))
    /\ w.pc = "done" => \E b \in Int : /\ w.bin \in {b, NextBin(w.token, b)}
                                       /\ EndsAt(w.token, w.amount, b, w.total)

PathInv == \A q \in Quoter : \A w \in {walk[q]} : PathOK(w)
-----------------------------------------------------------------------------
(* The mirrored bins are among the bins of the contract.                   *)
LEMMA BinsFinite == ASSUME PoolPart PROVE IsFiniteSet(DOMAIN bins)
<1>1. IsFiniteSet(Bin)
  BY FS_Interval, PoolAssumption DEF Bin
<1>2. QED
  BY <1>1, FS_Subset DEF PoolPart

(* The sums along a walk are numbers.                                      *)
LEMMA HeldType ==
    ASSUME PoolInv, NEW t \in Token
    PROVE  /\ \A b \in DOMAIN bins : HeldBy(t)[b] \in Nat /\ TakenBy(t)[b] \in Nat
           /\ \A b : Held(t, b) \in Nat /\ Taken(t, b) \in Nat
<1>1. PoolTypeOK /\ PoolPart
  BY PoolInvParts DEF PoolInv
<1>2. ASSUME NEW b \in DOMAIN bins
      PROVE  HeldBy(t)[b] \in Nat /\ TakenBy(t)[b] \in Nat
  <2>1. bins[b] \in [x : Nat, y : Nat] /\ b \in Bin /\ Price(b) \in Nat
    BY <1>1, PriceType DEF PoolPart
  <2>2. HeldBy(t)[b] \in Nat
    BY <2>1 DEF HeldBy, OutOf, Token
  <2>3. Price(b) # 0 => GrossCap(t, bins[b], Price(b)) \in Nat
    BY <1>1, <2>1, CapType
  <2>4. QED
    BY <2>2, <2>3 DEF TakenBy
<1>3. ASSUME NEW b
      PROVE  Held(t, b) \in Nat /\ Taken(t, b) \in Nat
  <2>1. IsFiniteSet(DOMAIN bins) /\ Passed(t, b) \in SUBSET DOMAIN bins
    BY <1>1, BinsFinite DEF Passed
  <2>2. QED
    BY <1>2, <2>1, SumNat DEF Held, Taken
<1>4. QED
  BY <1>2, <1>3

(* One bin further.                                                        *)
LEMMA PassedOne ==
    ASSUME PoolInv, NEW t \in Token, NEW b \in Int, Begun(t, b)
    PROVE  Passed(t, NextBin(t, b)) = Passed(t, b) \cup ({b} \cap DOMAIN bins)
<1>1. active \in Int /\ DOMAIN bins \subseteq Int
  BY PoolInvParts DEF PoolPart, Bin
<1>2. \A c \in Int : Ahead(t, c, NextBin(t, b)) <=> Ahead(t, c, b) \/ c = b
  BY DEF Ahead, NextBin
<1>3. QED
  BY <1>1, <1>2 DEF Passed

(* What is held and taken up to the next bin.                              *)
LEMMA HeldNext ==
    ASSUME PoolInv, NEW t \in Token, NEW b \in Int, Begun(t, b)
    PROVE  /\ b \notin DOMAIN bins => /\ Held(t, NextBin(t, b)) = Held(t, b)
                                      /\ Taken(t, NextBin(t, b)) = Taken(t, b)
           /\ b \in DOMAIN bins => /\ Held(t, NextBin(t, b)) = Held(t, b) + HeldBy(t)[b]
                                   /\ Taken(t, NextBin(t, b)) = Taken(t, b) + TakenBy(t)[b]
<1> DEFINE N == Passed(t, NextBin(t, b))
<1>1. N = Passed(t, b) \cup ({b} \cap DOMAIN bins)
  BY PassedOne
<1>2. CASE b \notin DOMAIN bins
  <2>1. N = Passed(t, b)
    BY <1>1, <1>2
  <2>2. QED
    BY <1>2, <2>1 DEF Held, Taken
<1>3. CASE b \in DOMAIN bins
  <2>1. b \in N /\ b \notin Passed(t, b) /\ N \ {b} = Passed(t, b)
    BY <1>1, <1>3 DEF Passed, Ahead
  <2>2. N \subseteq DOMAIN bins /\ IsFiniteSet(N)
    <3>1. IsFiniteSet(DOMAIN bins) /\ N \subseteq DOMAIN bins
      BY BinsFinite, PoolInvParts DEF Passed
    <3>2. QED
      BY <3>1, FS_Subset
  <2>3. \A c \in N : HeldBy(t)[c] \in Nat /\ TakenBy(t)[c] \in Nat
    BY <2>2, HeldType
  <2> HIDE DEF N
  <2>4. ASSUME NEW f, \A c \in N : f[c] \in Nat, NEW e \in N
        PROVE  SumFunctionOnSet(f, N) = f[e] + SumFunctionOnSet(f, N \ {e})
    BY <2>2, <2>4, SumTake
  <2>5. /\ SumFunctionOnSet(HeldBy(t), N) = HeldBy(t)[b] + SumFunctionOnSet(HeldBy(t), N \ {b})
        /\ SumFunctionOnSet(TakenBy(t), N) = TakenBy(t)[b] + SumFunctionOnSet(TakenBy(t), N \ {b})
    BY <2>1, <2>3, <2>4
  <2>6. /\ Held(t, NextBin(t, b)) = HeldBy(t)[b] + Held(t, b)
        /\ Taken(t, NextBin(t, b)) = TakenBy(t)[b] + Taken(t, b)
    BY <2>1, <2>5 DEF Held, Taken, N
  <2>7. QED
    BY <1>3, <2>6, HeldType
<1>4. QED
  BY <1>2, <1>3

(* More input is more after the fee, and buys no less in a bin.            *)
LEMMA SatMonotone ==
    ASSUME NEW k \in Nat, NEW m \in Nat, k <= m
    PROVE  /\ Sat(k) <= Sat(m)
           /\ \A d \in Nat : m <= k + d => Sat(m) <= Sat(k) + d
BY PoolAssumption DEF Sat

(* A floor grows by no more than what was added, counted in divisors.      *)
LEMMA FloorLipschitz ==
    ASSUME NEW k \in Nat, NEW m \in Nat, NEW n \in Nat \ {0}, NEW d \in Nat, m <= k + d * n
    PROVE  m \div n <= k \div n + d
<1>1. k < (k \div n + 1) * n
  OBVIOUS
<1>2. (k \div n + 1) * n + d * n = (k \div n + 1 + d) * n
  OBVIOUS
<1>3. m < (k \div n + 1 + d) * n
  BY <1>1, <1>2
<1>4. (m \div n) * n <= m /\ m \div n \in Nat /\ k \div n \in Nat
  BY FloorLemma
<1>5. (m \div n) * n < (k \div n + 1 + d) * n
  BY <1>3, <1>4
<1>6. ASSUME NEW i \in Nat, NEW j \in Nat, i * n < j * n
      PROVE  i < j
  BY <1>6
<1>7. m \div n < k \div n + 1 + d
  BY <1>4, <1>5, <1>6
<1>8. QED
  BY <1>4, <1>7

(* The fee on one unit more is at most that unit.                          *)
LEMMA AfterFeeMonotone ==
    ASSUME PoolTypeOK, NEW t \in Token, NEW u \in Nat, NEW v \in Nat, u <= v
    PROVE  AfterFee(t, u) \in Nat /\ AfterFee(t, u) <= AfterFee(t, v)
<1> DEFINE F == FeeOf(t)
<1>1. F \in Nat /\ F <= FeeScale /\ FeeScale \in Nat \ {0}
  BY FeesBelowScale, PoolAssumption
<1> HIDE DEF F
<1>2. /\ u * F \in Nat /\ v * F \in Nat /\ u * F <= v * F
      /\ (v - u) \in Nat /\ (v - u) * F \in Nat /\ (v - u) * FeeScale \in Nat
      /\ v * F = u * F + (v - u) * F
  BY <1>1
<1>3. (v - u) * F <= (v - u) * FeeScale
  BY <1>1, <1>2
<1>4. /\ Sat(u * F) \in Nat /\ Sat(v * F) \in Nat /\ Sat(u * F) <= u * F
      /\ Sat(v * F) <= Sat(u * F) + (v - u) * F
  BY <1>2, SatLemma, SatMonotone
<1>5. Sat(v * F) <= Sat(u * F) + (v - u) * FeeScale
  BY <1>2, <1>3, <1>4
<1>6. Sat(v * F) \div FeeScale <= Sat(u * F) \div FeeScale + (v - u)
  BY <1>1, <1>2, <1>4, <1>5, FloorLipschitz
<1>7. Sat(u * F) \div FeeScale \in Nat /\ Sat(v * F) \div FeeScale \in Nat
  BY <1>1, <1>4, FloorLemma
<1>8. Sat(u * F) \div FeeScale <= u
  <2>1. u * F <= u * FeeScale
    BY <1>1
  <2>2. Sat(u * F) <= u * FeeScale
    BY <1>1, <1>2, <1>4, <2>1
  <2>3. Sat(u * F) <= 0 + u * FeeScale
    <3>1. u * FeeScale \in Nat
      BY <1>1
    <3>2. QED
      BY <2>2, <3>1
  <2>4. Sat(u * F) \div FeeScale <= 0 \div FeeScale + u
    BY <1>1, <1>4, <2>3, FloorLipschitz
  <2>5. 0 \div FeeScale = 0
    BY <1>1
  <2>6. QED
    BY <2>4, <2>5, <1>7
<1>9. QED
  BY <1>6, <1>7, <1>8 DEF AfterFee, F

(* The payout of a bin grows with the net input.                           *)
LEMMA PayoutMonotone ==
    ASSUME NEW t \in Token, NEW k \in Nat, NEW m \in Nat, k <= m,
           NEW s \in [x : Nat, y : Nat], NEW p \in Nat \ {0}
    PROVE  Payout(t, k, s, p) \in Nat /\ Payout(t, k, s, p) <= Payout(t, m, s, p)
<1>1. PriceScale \in Nat \ {0} /\ OutOf(t, s) \in Nat
  BY PoolAssumption DEF OutOf
<1>2. CASE t = "x"
  <2>1. k * p \in Nat /\ m * p \in Nat /\ k * p <= m * p
    BY TimesMonotone
  <2>2. Sat(k * p) \in Nat /\ Sat(m * p) \in Nat /\ Sat(k * p) <= Sat(m * p)
    BY <2>1, SatLemma, SatMonotone
  <2>3. /\ Sat(k * p) \div PriceScale \in Nat /\ Sat(m * p) \div PriceScale \in Nat
        /\ Sat(k * p) \div PriceScale <= Sat(m * p) \div PriceScale
    BY <1>1, <2>2, FloorLemma, FloorMonotone
  <2>4. QED
    BY <1>1, <1>2, <2>3 DEF Payout, Least
<1>3. CASE t # "x"
  <2>1. k * PriceScale \in Nat /\ m * PriceScale \in Nat /\ k * PriceScale <= m * PriceScale
    BY <1>1, TimesMonotone
  <2>2. /\ Sat(k * PriceScale) \in Nat /\ Sat(m * PriceScale) \in Nat
        /\ Sat(k * PriceScale) <= Sat(m * PriceScale)
    BY <2>1, SatLemma, SatMonotone
  <2>3. /\ Sat(k * PriceScale) \div p \in Nat /\ Sat(m * PriceScale) \div p \in Nat
        /\ Sat(k * PriceScale) \div p <= Sat(m * PriceScale) \div p
    BY <2>2, FloorLemma, FloorMonotone
  <2>4. QED
    BY <1>1, <1>3, <2>3 DEF Payout, Least
<1>4. QED
  BY <1>2, <1>3

(* In one bin: more left takes no less, pays no less, and takes something  *)
(* whenever less left does.                                                *)
LEMMA StepMonotone ==
    ASSUME PoolInv, NEW t \in Token, NEW b \in DOMAIN bins, NEW k \in Nat, NEW m \in Nat, k <= m
    PROVE  /\ UsedAt(t, k, b) \in Nat /\ UsedAt(t, k, b) <= UsedAt(t, m, b)
           /\ UsedAt(t, k, b) # 0 => /\ Price(b) # 0
                                     /\ UsedAt(t, k, b) = Least(k, TakenBy(t)[b]) \/ NoInventory(b)
                                     /\ PaidAt(t, k, b) \in Nat
                                     /\ PaidAt(t, k, b) <= PaidAt(t, m, b)
                                     /\ PaidAt(t, k, b) <= HeldBy(t)[b]
<1>1. PoolTypeOK /\ PoolPart
  BY PoolInvParts DEF PoolInv
<1>2. bins[b] \in [x : Nat, y : Nat] /\ b \in Bin /\ Price(b) \in Nat
  BY <1>1, PriceType DEF PoolPart
<1>3. CASE Price(b) = 0
  BY <1>3 DEF UsedAt, Used
<1>4. CASE Price(b) # 0
  <2>1. GrossCap(t, bins[b], Price(b)) \in Nat
    BY <1>1, <1>2, <1>4, CapType
  <2> DEFINE C == GrossCap(t, bins[b], Price(b))
  <2>2. UsedAt(t, k, b) = Least(k, C) /\ UsedAt(t, m, b) = Least(m, C)
    BY <1>4 DEF UsedAt, Used
  <2>3. TakenBy(t)[b] = C \/ NoInventory(b)
    BY <1>4 DEF TakenBy
  <2> HIDE DEF C
  <2>4. /\ UsedAt(t, k, b) \in Nat /\ UsedAt(t, m, b) \in Nat
        /\ UsedAt(t, k, b) <= UsedAt(t, m, b)
    BY <2>1, <2>2 DEF Least, C
  <2>5. /\ AfterFee(t, UsedAt(t, k, b)) \in Nat /\ AfterFee(t, UsedAt(t, m, b)) \in Nat
        /\ AfterFee(t, UsedAt(t, k, b)) <= AfterFee(t, UsedAt(t, m, b))
    BY <1>1, <2>4, AfterFeeMonotone
  <2>6. PaidAt(t, k, b) \in Nat /\ PaidAt(t, k, b) <= PaidAt(t, m, b)
    BY <1>2, <1>4, <2>5, PayoutMonotone DEF PaidAt
  <2>7. PaidAt(t, k, b) <= OutOf(t, bins[b]) /\ HeldBy(t)[b] = OutOf(t, bins[b])
    <3>1. OutOf(t, bins[b]) \in Nat
      BY <1>2 DEF OutOf
    <3> DEFINE pays == IF t = "x" THEN Sat(AfterFee(t, UsedAt(t, k, b)) * Price(b)) \div PriceScale
                       ELSE Sat(AfterFee(t, UsedAt(t, k, b)) * PriceScale) \div Price(b)
    <3>2. PaidAt(t, k, b) = Least(pays, OutOf(t, bins[b]))
      BY DEF PaidAt, Payout
    <3> HIDE DEF pays
    <3>3. PaidAt(t, k, b) = pays \/ PaidAt(t, k, b) = OutOf(t, bins[b])
      BY <3>2 DEF Least
    <3>4. PaidAt(t, k, b) <= OutOf(t, bins[b])
      BY <3>1, <3>2 DEF Least
    <3>5. QED
      BY <3>4 DEF HeldBy
  <2>8. QED
    BY <1>4, <2>2, <2>3, <2>4, <2>6, <2>7
<1>5. QED
  BY <1>3, <1>4
(* A larger amount has no less left in any bin.                            *)
LEMMA LeftMonotone ==
    ASSUME PoolInv, NEW t \in Token, NEW k \in Nat, NEW m \in Nat, k <= m, NEW b
    PROVE  Left(t, k, b) \in Nat /\ Left(t, m, b) \in Nat /\ Left(t, k, b) <= Left(t, m, b)
<1>1. Taken(t, b) \in Nat
  BY HeldType
<1>2. QED
  BY <1>1 DEF Left

(* What passes a bin passes it with more.                                  *)
LEMMA PassesMonotone ==
    ASSUME PoolInv, NEW t \in Token, NEW b \in Int, NEW k \in Nat, NEW m \in Nat, k <= m,
           Passes(t, k, b)
    PROVE  Passes(t, m, b)
<1>1. Loops(t, m, b)
  BY DEF Passes, Loops
<1>2. CASE NoInventory(b)
  BY <1>1, <1>2 DEF Passes
<1>3. CASE ~NoInventory(b)
  <2>1. b \in DOMAIN bins
    BY <1>3 DEF NoInventory
  <2>2. Priced(b) /\ UsedAt(t, k, b) # 0 /\ PaidAt(t, k, b) >= OutOf(t, bins[b])
    BY <1>3 DEF Passes
  <2>3. /\ UsedAt(t, k, b) \in Nat /\ UsedAt(t, k, b) <= UsedAt(t, m, b)
        /\ PaidAt(t, k, b) \in Nat /\ PaidAt(t, k, b) <= PaidAt(t, m, b)
    BY <2>1, <2>2, StepMonotone
  <2>4. OutOf(t, bins[b]) \in Nat
    <3>1. HeldBy(t)[b] \in Nat
      BY <2>1, HeldType
    <3>2. QED
      BY <2>1, <3>1 DEF HeldBy
  <2>5. UsedAt(t, m, b) \in Nat /\ UsedAt(t, m, b) # 0
    <3>1. UsedAt(t, m, b) \in Nat
      BY <2>1, StepMonotone
    <3>2. QED
      BY <2>2, <2>3, <3>1
  <2>6. PaidAt(t, m, b) \in Nat
    BY <2>1, <2>5, StepMonotone
  <2>7. PaidAt(t, m, b) >= OutOf(t, bins[b])
    BY <2>2, <2>3, <2>4, <2>6
  <2>8. QED
    BY <1>1, <1>3, <2>2, <2>5, <2>7 DEF Passes
<1>4. QED
  BY <1>2, <1>3

(* A walk that ends in a bin does not pass it.                             *)
LEMMA EndsThere ==
    ASSUME NEW t, NEW n, NEW b, NEW total, EndsAt(t, n, b, total)
    PROVE  ~Passes(t, Left(t, n, b), b)
<1> DEFINE L == Left(t, n, b)
<1>1. CASE Halts(t, L, b)
  BY <1>1 DEF Halts, Passes
<1>2. CASE Leaves(t, L, b)
  BY <1>2 DEF Leaves, Passes
<1>3. CASE Dwells(t, L, b)
  BY <1>3 DEF Dwells, Passes
<1> HIDE DEF L
<1>4. QED
  BY <1>1, <1>2, <1>3 DEF EndsAt, L

(* What a walk that has ended in a bin has bought: all that it passed, and *)
(* at most all that the bin holds.                                         *)
LEMMA EndsWith ==
    ASSUME PoolInv, NEW t \in Token, NEW n \in Nat, NEW b \in Int, NEW total,
           EndsAt(t, n, b, total)
    PROVE  /\ total \in Nat /\ Sat(Held(t, b)) \in Nat
           /\ Sat(Held(t, b)) <= total /\ total <= Sat(Held(t, NextBin(t, b)))
<1> DEFINE H == Held(t, b)
           G == Held(t, NextBin(t, b))
           L == Left(t, n, b)
<1>1. Begun(t, b) /\ L \in Nat /\ H \in Nat /\ G \in Nat /\ PoolPart
  BY HeldType, LeftMonotone, PoolInvParts DEF EndsAt, Reaches
<1>2. /\ b \notin DOMAIN bins => G = H
      /\ b \in DOMAIN bins => G = H + HeldBy(t)[b] /\ HeldBy(t)[b] \in Nat
  BY <1>1, HeldNext, HeldType
<1>3. H <= G
  BY <1>1, <1>2
<1>4. Sat(H) \in Nat /\ Sat(G) \in Nat /\ Sat(H) <= Sat(G) /\ Sat(H) <= H
  BY <1>1, <1>3, SatLemma, SatMonotone
<1>5. CASE total = Sat(H)
  BY <1>4, <1>5
<1>6. CASE Dwells(t, L, b) /\ total = Sat(Sat(H) + PaidAt(t, L, b))
  <2>1. b \in DOMAIN bins
    BY <1>6 DEF Dwells, NoInventory
  <2>2. UsedAt(t, L, b) # 0
    BY <1>6 DEF Dwells
  <2>3. PaidAt(t, L, b) \in Nat /\ PaidAt(t, L, b) <= HeldBy(t)[b]
    BY <1>1, <2>1, <2>2, StepMonotone
  <2> HIDE DEF H, G, L
  <2>4. Sat(H) + PaidAt(t, L, b) \in Nat /\ Sat(H) + PaidAt(t, L, b) <= G
    BY <1>1, <1>2, <1>4, <2>1, <2>3
  <2>5. total \in Nat /\ total <= Sat(G)
    BY <1>1, <1>6, <2>4, SatLemma, SatMonotone
  <2>6. Sat(Sat(H)) = Sat(H)
    BY <1>1, PoolAssumption DEF Sat
  <2>7. Sat(H) <= total
    BY <1>4, <1>6, <2>3, <2>4, <2>6, SatMonotone
  <2>8. QED
    BY <1>4, <2>5, <2>7 DEF H, G
<1>7. QED
  BY <1>5, <1>6 DEF EndsAt

(* A bin passed on the way to another.                                     *)
LEMMA HeldBefore ==
    ASSUME PoolInv, NEW t \in Token, NEW b \in Int, NEW d \in Int, Begun(t, b), Ahead(t, b, d)
    PROVE  Held(t, NextBin(t, b)) <= Held(t, d)
<1>1. active \in Int /\ DOMAIN bins \subseteq Int /\ IsFiniteSet(DOMAIN bins)
  BY BinsFinite, PoolInvParts DEF PoolPart, Bin
<1>2. Passed(t, NextBin(t, b)) \subseteq Passed(t, d)
  BY <1>1 DEF Passed, Ahead, NextBin
<1>3. Passed(t, d) \subseteq DOMAIN bins
  BY DEF Passed
<1>4. IsFiniteSet(Passed(t, d))
  BY <1>1, <1>3, FS_Subset
<1>5. \A c \in Passed(t, d) : HeldBy(t)[c] \in Nat
  BY <1>3, HeldType
<1>6. QED
  BY <1>2, <1>4, <1>5, SumGrows DEF Held

(* Of two walks that have ended, the one with more input bought no less.   *)
LEMMA EndsMonotone ==
    ASSUME PoolInv, NEW t \in Token, NEW k \in Nat, NEW m \in Nat, k <= m,
           NEW b \in Int, NEW d \in Int, NEW u, NEW v,
           EndsAt(t, k, b, u), EndsAt(t, m, d, v)
    PROVE  u <= v
<1>1. Begun(t, b) /\ Begun(t, d) /\ Reaches(t, k, b)
  BY DEF EndsAt, Reaches
<1>2. /\ u \in Nat /\ v \in Nat /\ u <= Sat(Held(t, NextBin(t, b)))
      /\ Sat(Held(t, b)) \in Nat /\ Sat(Held(t, d)) \in Nat
      /\ Sat(Held(t, d)) <= v
  BY EndsWith
<1>3. CASE Ahead(t, b, d)
  <2>1. /\ Held(t, NextBin(t, b)) <= Held(t, d)
        /\ Held(t, NextBin(t, b)) \in Nat /\ Held(t, d) \in Nat
    BY <1>1, <1>3, HeldBefore, HeldType
  <2>2. /\ Sat(Held(t, NextBin(t, b))) <= Sat(Held(t, d))
        /\ Sat(Held(t, NextBin(t, b))) \in Nat
    BY <2>1, SatMonotone, SatLemma
  <2>3. QED
    BY <1>2, <2>2
<1>4. ASSUME Ahead(t, d, b)
      PROVE  FALSE
  <2>1. Passes(t, Left(t, k, d), d)
    BY <1>1, <1>4 DEF Reaches
  <2>2. Left(t, k, d) \in Nat /\ Left(t, m, d) \in Nat /\ Left(t, k, d) <= Left(t, m, d)
    BY LeftMonotone
  <2>3. Passes(t, Left(t, m, d), d)
    BY <2>1, <2>2, PassesMonotone
  <2>4. QED
    BY <2>3, EndsThere
<1>5. CASE b = d
  <2> DEFINE K == Left(t, k, b)
             M == Left(t, m, b)
             H == Held(t, b)
  <2>1. K \in Nat /\ M \in Nat /\ K <= M /\ H \in Nat
    BY LeftMonotone, HeldType
  <2>2. CASE u = Sat(H)
    BY <1>2, <1>5, <2>2
  <2>3. CASE Dwells(t, K, b) /\ u = Sat(Sat(H) + PaidAt(t, K, b))
    <3>1. Loops(t, K, b) /\ ~NoInventory(b) /\ Priced(b) /\ UsedAt(t, K, b) # 0 /\ b \in DOMAIN bins
      BY <2>3 DEF Dwells, NoInventory
    <3>2. /\ UsedAt(t, K, b) \in Nat /\ UsedAt(t, M, b) \in Nat /\ UsedAt(t, K, b) <= UsedAt(t, M, b)
          /\ PaidAt(t, K, b) \in Nat /\ PaidAt(t, K, b) <= PaidAt(t, M, b)
      BY <2>1, <3>1, StepMonotone
    <3>3. UsedAt(t, M, b) # 0 /\ Loops(t, M, b)
      BY <2>1, <3>1, <3>2 DEF Loops
    <3>4. PaidAt(t, M, b) \in Nat
      BY <2>1, <3>1, <3>3, StepMonotone
    <3>5. ~Halts(t, M, b) /\ ~Leaves(t, M, b)
      BY <3>1, <3>3 DEF Halts, Leaves
    <3>6. v = Sat(Sat(H) + PaidAt(t, M, b))
      BY <1>5, <3>5 DEF EndsAt
    <3>7. Sat(H) \in Nat
      BY <2>1, SatLemma
    <3> HIDE DEF K, M, H
    <3>8. Sat(H) + PaidAt(t, K, b) <= Sat(H) + PaidAt(t, M, b)
      BY <3>2, <3>4, <3>7
    <3>9. QED
      BY <2>3, <3>2, <3>4, <3>6, <3>7, <3>8, SatMonotone
  <2>4. QED
    BY <2>2, <2>3 DEF EndsAt
<1>6. Ahead(t, b, d) \/ Ahead(t, d, b) \/ b = d
  BY DEF Ahead
<1>7. QED
  BY <1>3, <1>4, <1>5, <1>6

(* A step that leaves the pool alone keeps the paths of the walks it does  *)
(* not touch.                                                              *)
LEMMA PathKept ==
    ASSUME UNCHANGED poolVars, NEW w, PathOK(w)
    PROVE  PathOK(w)'
<1>1. bins' = bins /\ active' = active /\ fees' = fees
  BY DEF poolVars
<1>2. /\ \A b : NoInventory(b)' = NoInventory(b)
      /\ \A t : FeeOf(t)' = FeeOf(t)
      /\ \A t, b : OutsideWindow(t, b)' = OutsideWindow(t, b)
      /\ \A t, c, b : Begun(t, c)' = Begun(t, c)
  BY <1>1 DEF NoInventory, FeeOf, OutsideWindow, Begun, Ahead
<1>3. \A t, s, p : GrossCap(t, s, p)' = GrossCap(t, s, p)
  BY <1>2 DEF GrossCap, NetCap
<1>4. \A t, n, b : UsedAt(t, n, b)' = UsedAt(t, n, b)
  BY <1>1, <1>3 DEF UsedAt, Used
<1>5. \A t, n : AfterFee(t, n)' = AfterFee(t, n)
  BY <1>2 DEF AfterFee
<1>6. \A t, n, b : PaidAt(t, n, b)' = PaidAt(t, n, b)
  BY <1>1, <1>4, <1>5 DEF PaidAt
<1>7. \A t : HeldBy(t)' = HeldBy(t) /\ TakenBy(t)' = TakenBy(t)
  BY <1>1, <1>2, <1>3 DEF HeldBy, TakenBy
<1>8. \A t, b : Passed(t, b)' = Passed(t, b)
  BY <1>1, <1>2 DEF Passed
<1>9. \A t, b : Held(t, b)' = Held(t, b) /\ Taken(t, b)' = Taken(t, b)
  BY <1>7, <1>8 DEF Held, Taken
<1>10. \A t, n, b : Left(t, n, b)' = Left(t, n, b)
  BY <1>9 DEF Left
<1>11. \A t, n, b : /\ Passes(t, n, b)' = Passes(t, n, b)
                    /\ Halts(t, n, b)' = Halts(t, n, b)
                    /\ Leaves(t, n, b)' = Leaves(t, n, b)
                    /\ Dwells(t, n, b)' = Dwells(t, n, b)
  BY <1>1, <1>2, <1>4, <1>6 DEF Passes, Halts, Leaves, Dwells
<1>12. \A t, n, b : Reaches(t, n, b)' = Reaches(t, n, b)
  BY <1>2, <1>10, <1>11 DEF Reaches
<1>13. \A t, n, b, total : EndsAt(t, n, b, total)' = EndsAt(t, n, b, total)
  BY <1>6, <1>9, <1>10, <1>11, <1>12 DEF EndsAt
<1>14. QED
  BY <1>9, <1>10, <1>12, <1>13 DEF PathOK
(* A step of one walk keeps the paths of all if its own is in order.       *)
LEMMA OnePath ==
    ASSUME PoolInv, PathInv, NEW q \in Quoter, NEW v, PathOK(v),
           walk' = [walk EXCEPT ![q] = v], UNCHANGED poolVars
    PROVE  PathInv'
<1> SUFFICES ASSUME NEW r \in Quoter, NEW w, w = walk'[r] PROVE PathOK(w)'
  BY DEF PathInv
<1>1. walk \in [Quoter -> WalkState]
  BY PoolInvParts
<1>2. w = v \/ w = walk[r]
  BY <1>1
<1>3. PathOK(w)
  BY <1>2 DEF PathInv
<1>4. QED
  BY <1>3, PathKept

(* A walk that begins has passed nothing.                                  *)
LEMMA PathStart ==
    ASSUME PoolInv, PathInv, NEW q \in Quoter, StartQuote(q)
    PROVE  PathInv'
<1>1. PICK t \in Token, n \in Amount :
        walk' = [walk EXCEPT ![q] = [pc |-> "walk", token |-> t, amount |-> n,
                                     remaining |-> n, bin |-> active, total |-> 0]]
  BY DEF StartQuote
<1> DEFINE w == [pc |-> "walk", token |-> t, amount |-> n,
                 remaining |-> n, bin |-> active, total |-> 0]
<1>2. n \in Nat /\ active \in Int /\ Begun(t, active)
  BY PoolAssumption, PoolInvParts DEF PoolPart, Bin, Begun, Ahead
<1>3. Passed(t, active) = {} /\ \A c \in Int : ~(Ahead(t, c, active) /\ Begun(t, c))
  BY DEF Passed, Begun
<1>4. Held(t, active) = 0 /\ Taken(t, active) = 0
  BY <1>3, SumEmpty DEF Held, Taken
<1>5. Reaches(t, n, active)
  BY <1>2, <1>3 DEF Reaches
<1>6. Left(t, n, active) = n /\ Sat(Held(t, active)) = 0
  BY <1>2, <1>4, PoolAssumption DEF Left, Sat
<1>7. PathOK(w)
  BY <1>5, <1>6 DEF PathOK
<1>8. UNCHANGED poolVars
  BY DEF StartQuote
<1> HIDE DEF w
<1>9. QED
  BY <1>1, <1>7, <1>8, OnePath DEF w

(* What is known of a walk about to step.                                  *)
LEMMA PathNow ==
    ASSUME PoolInv, PathInv, NEW q \in Quoter, Walking(q)
    PROVE  /\ walk[q] \in WalkState /\ walk[q].token \in Token
           /\ walk[q].amount \in Nat /\ walk[q].bin \in Int
           /\ Reaches(walk[q].token, walk[q].amount, walk[q].bin)
           /\ walk[q].remaining = Left(walk[q].token, walk[q].amount, walk[q].bin)
           /\ walk[q].total = Sat(Held(walk[q].token, walk[q].bin))
<1>1. walk[q] \in WalkState /\ PathOK(walk[q])
  BY PoolInvParts DEF PathInv
<1>2. QED
  BY <1>1 DEF PathOK, Walking, WalkState

(* What passes a bin reaches the next.                                     *)
LEMMA ReachesNext ==
    ASSUME PoolInv, NEW t \in Token, NEW n \in Nat, NEW b \in Int, Reaches(t, n, b),
           Passes(t, Left(t, n, b), b)
    PROVE  Reaches(t, n, NextBin(t, b))
<1>1. active \in Int
  BY PoolInvParts DEF PoolPart, Bin
<1>2. NextBin(t, b) \in Int /\ Begun(t, NextBin(t, b))
  BY <1>1 DEF Reaches, NextBin, Begun, Ahead
<1>3. \A c \in Int : Ahead(t, c, NextBin(t, b)) => c = b \/ Ahead(t, c, b)
  BY DEF Ahead, NextBin
<1>4. QED
  BY <1>2, <1>3 DEF Reaches

(* Passing a bin without inventory adds nothing, or ends the walk.         *)
LEMMA PathSkip ==
    ASSUME PoolInv, PathInv, NEW q \in Quoter, SkipBin(q)
    PROVE  PathInv'
<1> DEFINE w == walk[q]
           t == w.token
           n == w.amount
           b == w.bin
           d == NextBin(t, b)
           v == [w EXCEPT !.bin = d, !.pc = IF OutsideWindow(t, d) THEN "done" ELSE "walk"]
<1>1. Walking(q) /\ InLoop(w) /\ NoInventory(b) /\ UNCHANGED poolVars
  BY DEF SkipBin
<1>2. /\ w \in WalkState /\ t \in Token /\ n \in Nat /\ b \in Int /\ Reaches(t, n, b)
      /\ w.remaining = Left(t, n, b) /\ w.total = Sat(Held(t, b))
  BY <1>1, PathNow
<1>3. walk' = [walk EXCEPT ![q] = v]
  BY <1>2, PoolInvParts DEF SkipBin, WalkState
<1>4. /\ v.pc = (IF OutsideWindow(t, d) THEN "done" ELSE "walk") /\ v.bin = d /\ v.token = t
      /\ v.amount = n /\ v.remaining = w.remaining /\ v.total = w.total
  BY <1>2 DEF WalkState
<1>5. Loops(t, Left(t, n, b), b)
  BY <1>1, <1>2 DEF InLoop, Loops
<1>6. CASE OutsideWindow(t, d)
  <2>1. Leaves(t, Left(t, n, b), b)
    BY <1>1, <1>5, <1>6 DEF Leaves
  <2>2. EndsAt(t, n, b, w.total)
    BY <1>2, <2>1 DEF EndsAt
  <2> HIDE DEF w, t, n, b, d, v
  <2>3. PathOK(v)
    BY <1>2, <1>4, <1>6, <2>2 DEF PathOK, d
  <2>4. QED
    BY <1>1, <1>3, <2>3, OnePath
<1>7. CASE ~OutsideWindow(t, d)
  <2>1. Passes(t, Left(t, n, b), b)
    BY <1>1, <1>5, <1>7 DEF Passes
  <2>2. Reaches(t, n, d)
    BY <1>2, <2>1, ReachesNext
  <2>3. Begun(t, b) /\ Held(t, b) \in Nat /\ Taken(t, b) \in Nat
    BY <1>2, HeldType DEF Reaches
  <2>4. b \in DOMAIN bins => HeldBy(t)[b] = 0 /\ TakenBy(t)[b] = 0
    BY <1>1 DEF NoInventory, HeldBy, TakenBy, OutOf
  <2> HIDE DEF w, t, n, b, d, v
  <2>5. Held(t, d) = Held(t, b) /\ Taken(t, d) = Taken(t, b)
    BY <1>2, <2>3, <2>4, HeldNext DEF d
  <2>6. Left(t, n, d) = Left(t, n, b)
    BY <2>5 DEF Left
  <2>7. PathOK(v)
    BY <1>2, <1>4, <1>7, <2>2, <2>5, <2>6 DEF PathOK
  <2>8. QED
    BY <1>1, <1>3, <2>7, OnePath
<1>8. QED
  BY <1>6, <1>7

(* The loop ends where the walk has come.                                  *)
LEMMA PathStop ==
    ASSUME PoolInv, PathInv, NEW q \in Quoter, StopWalk(q)
    PROVE  PathInv'
<1> DEFINE w == walk[q]
           t == w.token
           n == w.amount
           b == w.bin
           v == [w EXCEPT !.pc = "done"]
<1>1. /\ Walking(q) /\ UNCHANGED poolVars
      /\ InLoop(w) => ~NoInventory(w.bin) /\ (Priced(w.bin) => UsedIn(w) = 0)
  BY DEF StopWalk
<1>2. /\ w \in WalkState /\ t \in Token /\ n \in Nat /\ b \in Int /\ Reaches(t, n, b)
      /\ w.remaining = Left(t, n, b) /\ w.total = Sat(Held(t, b))
  BY <1>1, PathNow
<1>3. walk' = [walk EXCEPT ![q] = v]
  BY <1>2, PoolInvParts DEF StopWalk, WalkState
<1>4. v.pc = "done" /\ v.bin = b /\ v.token = t /\ v.amount = n /\ v.total = w.total
  BY <1>2 DEF WalkState
<1>5. Halts(t, Left(t, n, b), b)
  BY <1>1, <1>2 DEF Halts, InLoop, Loops, UsedIn, UsedAt
<1>6. EndsAt(t, n, b, w.total)
  BY <1>2, <1>5 DEF EndsAt
<1> HIDE DEF w, t, n, b, v
<1>7. PathOK(v)
  BY <1>2, <1>4, <1>6 DEF PathOK
<1>8. QED
  BY <1>1, <1>3, <1>7, OnePath

(* A drained bin adds all it held and took; the other ends the walk.       *)
LEMMA PathSwap ==
    ASSUME PoolInv, PathInv, NEW q \in Quoter, SwapInBin(q)
    PROVE  PathInv'
<1> DEFINE w == walk[q]
           t == w.token
           n == w.amount
           b == w.bin
           L == Left(t, n, b)
           drained == PaidAt(t, L, b) >= OutOf(t, bins[b])
           v == [w EXCEPT !.total = Sat(@ + PaidAt(t, L, b)), !.remaining = @ - UsedAt(t, L, b),
                          !.bin = IF drained THEN NextBin(t, b) ELSE b,
                          !.pc = IF drained THEN "walk" ELSE "done"]
<1>1. /\ Walking(q) /\ InLoop(w) /\ ~NoInventory(b) /\ b \in DOMAIN bins
      /\ Priced(b) /\ UsedIn(w) # 0 /\ UNCHANGED poolVars
  BY DEF SwapInBin, NoInventory
<1>2. /\ w \in WalkState /\ t \in Token /\ n \in Nat /\ b \in Int /\ Reaches(t, n, b)
      /\ w.remaining = L /\ w.total = Sat(Held(t, b))
  BY <1>1, PathNow
<1>3. UsedIn(w) = UsedAt(t, L, b) /\ PaidIn(w) = PaidAt(t, L, b)
  BY <1>2 DEF UsedIn, PaidIn, UsedAt, PaidAt
<1>4. walk' = [walk EXCEPT ![q] = v]
  BY <1>2, <1>3, PoolInvParts DEF SwapInBin, WalkState, Credit
<1>5. /\ v.pc = (IF drained THEN "walk" ELSE "done")
      /\ v.bin = (IF drained THEN NextBin(t, b) ELSE b)
      /\ v.token = t /\ v.amount = n /\ v.remaining = L - UsedAt(t, L, b)
      /\ v.total = Sat(w.total + PaidAt(t, L, b))
  BY <1>2 DEF WalkState
<1>6. Loops(t, L, b)
  BY <1>1, <1>2 DEF InLoop, Loops
<1>7. Begun(t, b) /\ Held(t, b) \in Nat /\ Taken(t, b) \in Nat /\ L \in Nat
  BY <1>2, HeldType, LeftMonotone DEF Reaches
<1>8. HeldBy(t)[b] \in Nat /\ TakenBy(t)[b] \in Nat /\ HeldBy(t)[b] = OutOf(t, bins[b])
  BY <1>1, <1>2, HeldType DEF HeldBy
<1>9. /\ UsedAt(t, L, b) # 0 /\ UsedAt(t, L, b) = Least(L, TakenBy(t)[b])
      /\ PaidAt(t, L, b) \in Nat /\ PaidAt(t, L, b) <= HeldBy(t)[b]
  BY <1>1, <1>2, <1>3, <1>7, StepMonotone
<1>10. CASE drained
  <2>1. Passes(t, L, b)
    BY <1>1, <1>6, <1>9, <1>10 DEF Passes
  <2>2. Reaches(t, n, NextBin(t, b))
    BY <1>2, <2>1, ReachesNext
  <2>3. PaidAt(t, L, b) = HeldBy(t)[b]
    BY <1>8, <1>9, <1>10
  <2>4. /\ Held(t, NextBin(t, b)) = Held(t, b) + HeldBy(t)[b]
        /\ Taken(t, NextBin(t, b)) = Taken(t, b) + TakenBy(t)[b]
    BY <1>1, <1>2, <1>7, HeldNext
  <2>5. L - UsedAt(t, L, b) = Left(t, n, NextBin(t, b))
    BY <1>2, <1>6, <1>7, <1>8, <1>9, <2>4 DEF Least, Left, Loops
  <2> HIDE DEF w, t, n, b, L, v
  <2>6. Sat(Sat(Held(t, b)) + HeldBy(t)[b]) = Sat(Held(t, b) + HeldBy(t)[b])
    BY <1>7, <1>8, PoolAssumption DEF Sat
  <2>7. PathOK(v)
    BY <1>2, <1>5, <1>10, <2>2, <2>3, <2>4, <2>5, <2>6 DEF PathOK
  <2>8. QED
    BY <1>1, <1>4, <2>7, OnePath
<1>11. CASE ~drained
  <2>1. Dwells(t, L, b)
    BY <1>1, <1>6, <1>9, <1>11 DEF Dwells
  <2>2. EndsAt(t, n, b, v.total)
    BY <1>2, <1>5, <2>1 DEF EndsAt
  <2> HIDE DEF w, t, n, b, L, v
  <2>3. PathOK(v)
    BY <1>2, <1>5, <1>11, <2>2 DEF PathOK
  <2>4. QED
    BY <1>1, <1>4, <2>3, OnePath
<1>12. QED
  BY <1>10, <1>11

-----------------------------------------------------------------------------
(* Walks not begun have bought nothing.                                    *)
LEMMA PathIdle ==
    ASSUME \A q \in Quoter : walk[q] = NoWalk
    PROVE  PathInv
<1>1. PathOK(NoWalk)
  BY DEF PathOK, NoWalk
<1>2. QED
  BY <1>1 DEF PathInv

(* An event forgets the walks.                                             *)
LEMMA PathEvent ==
    ASSUME NEW e \in Update, ApplyEvent(e)
    PROVE  PathInv'
<1>1. walk' = [q \in Quoter |-> NoWalk]
  BY DEF ApplyEvent, UpdateBin, Swapped, SetFees, SetVariableFees, ResetVariableFees,
         SetStatus, Applies
<1> SUFFICES ASSUME NEW q \in Quoter, NEW w, w = walk'[q] PROVE PathOK(w)'
  BY DEF PathInv
<1>2. w = NoWalk
  BY <1>1
<1>3. w.pc = "idle" /\ w.total = 0
  BY <1>2 DEF NoWalk
<1>4. QED
  BY <1>3 DEF PathOK

(* Every step keeps the paths.                                             *)
LEMMA PathStep == PoolInv /\ PathInv /\ [Next]_vars => PathInv'
<1> SUFFICES ASSUME PoolInv, PathInv, [Next]_vars PROVE PathInv'
  OBVIOUS
<1>1. CASE UNCHANGED vars
  <2>1. UNCHANGED poolVars /\ walk' = walk
    BY <1>1 DEF vars
  <2> SUFFICES ASSUME NEW q \in Quoter, NEW w, w = walk'[q] PROVE PathOK(w)'
    BY DEF PathInv
  <2>2. PathOK(w)
    BY <2>1 DEF PathInv
  <2>3. QED
    BY <2>1, <2>2, PathKept
<1>2. ASSUME NEW q \in Quoter, StartQuote(q) \/ SkipBin(q) \/ SwapInBin(q) \/ StopWalk(q)
      PROVE  PathInv'
  BY <1>2, PathStart, PathSkip, PathSwap, PathStop
<1>3. ASSUME NEW e \in Update, ApplyEvent(e)
      PROVE  PathInv'
  BY <1>3, PathEvent
<1>4. QED
  BY <1>1, <1>2, <1>3 DEF Next

(* Every walk is where its amount, the bins and the fees put it.           *)
LEMMA PathInvariant == Spec => [](PoolInv /\ PathInv)
<1>1. Init => PathInv
  BY PathIdle DEF Init
<1>2. QED
  BY <1>1, PathStep, PoolInit, PoolStep, PTL DEF Spec

(* More input never buys less: the quote of the larger amount passes every *)
(* bin that the smaller one passes, and where both end the step pays it no *)
(* less.                                                                   *)
THEOREM MonotoneCorrect == Spec => []Monotone
<1>1. PoolInv /\ PathInv => Monotone
  <2> SUFFICES ASSUME PoolInv, PathInv, NEW q \in Quoter, NEW r \in Quoter,
                      walk[q].pc = "done", walk[r].pc = "done",
                      walk[q].token = walk[r].token, walk[q].amount <= walk[r].amount
               PROVE  walk[q].total <= walk[r].total
    BY DEF Monotone
  <2>1. /\ walk[q] \in WalkState /\ walk[r] \in WalkState
        /\ PathOK(walk[q]) /\ PathOK(walk[r])
    BY PoolInvParts DEF PathInv
  <2>2. PICK b \in Int : EndsAt(walk[q].token, walk[q].amount, b, walk[q].total)
    BY <2>1 DEF PathOK
  <2>3. PICK d \in Int : EndsAt(walk[q].token, walk[r].amount, d, walk[r].total)
    BY <2>1 DEF PathOK
  <2>4. walk[q].token \in Token /\ walk[q].amount \in Nat /\ walk[r].amount \in Nat
    BY <2>1 DEF WalkState
  <2>5. QED
    BY <2>2, <2>3, <2>4, EndsMonotone
<1>2. QED
  BY <1>1, PathInvariant, PTL

(* The bins up to and with b bound what a walk that has come to b buys.    *)
LEMMA PassedHold ==
    ASSUME PoolInv, NEW t \in Token, NEW b \in Int, NEW S \in SUBSET DOMAIN bins,
           Passed(t, b) \subseteq S
    PROVE  Held(t, b) <= SumFunctionOnSet(HeldBy(t), S) /\ Held(t, b) \in Nat
<1>1. IsFiniteSet(DOMAIN bins)
  BY BinsFinite, PoolInvParts
<1>2. IsFiniteSet(S) /\ \A c \in S : HeldBy(t)[c] \in Nat
  BY <1>1, FS_Subset, HeldType
<1>3. QED
  BY <1>2, SumGrows, HeldType DEF Held

(* A quote pays out at most what the bins hold from the active one to the  *)
(* one it has come to.                                                     *)
THEOREM InventoryCorrect == Spec => []WithinInventory
<1>1. PoolInv /\ PathInv => WithinInventory
  <2> SUFFICES ASSUME PoolInv, PathInv, NEW q \in Quoter
               PROVE  LET w == walk[q]
                          held == [b \in DOMAIN bins |-> OutOf(w.token, bins[b])]
                          passed == {b \in DOMAIN bins :
                                        IF w.token = "x" THEN w.bin <= b /\ b <= active
                                                         ELSE active <= b /\ b <= w.bin}
                      IN  w.total <= SumFunctionOnSet(held, passed)
    BY DEF WithinInventory
  <2> DEFINE w == walk[q]
             t == w.token
             S == {b \in DOMAIN bins : IF t = "x" THEN w.bin <= b /\ b <= active
                                                   ELSE active <= b /\ b <= w.bin}
             sum == SumFunctionOnSet(HeldBy(t), S)
  <2>1. /\ w \in WalkState /\ PathOK(w) /\ t \in Token /\ w.amount \in Nat /\ w.bin \in Int
        /\ w.total \in Nat /\ DOMAIN bins \subseteq Int /\ active \in Int
    BY PoolInvParts DEF PathInv, WalkState, PoolPart, Bin
  <2>2. S \in SUBSET DOMAIN bins
    OBVIOUS
  <2>3. sum \in Nat
    <3>1. IsFiniteSet(S) /\ \A c \in S : HeldBy(t)[c] \in Nat
      BY <2>1, <2>2, BinsFinite, FS_Subset, HeldType, PoolInvParts
    <3> HIDE DEF S, t, w
    <3>2. QED
      BY <3>1, SumNat
  <2>4. ASSUME NEW b \in Int, Passed(t, b) \subseteq S, w.total <= Sat(Held(t, b))
        PROVE  w.total <= sum
    <3> HIDE DEF S
    <3>1. Held(t, b) <= sum /\ Held(t, b) \in Nat
      BY <2>1, <2>2, <2>4, PassedHold
    <3>2. Sat(Held(t, b)) \in Nat /\ Sat(Held(t, b)) <= Held(t, b)
      BY <3>1, SatLemma
    <3>3. QED
      BY <2>1, <2>3, <2>4, <3>1, <3>2
  <2>5. CASE w.pc = "idle"
    <3>1. w.total = 0
      BY <2>1, <2>5 DEF PathOK
    <3> HIDE DEF w, sum
    <3>2. w.total <= sum
      BY <2>3, <3>1
    <3>3. QED
      BY <3>2 DEF HeldBy, w, sum
  <2>6. CASE w.pc = "walk"
    <3>1. w.total <= Sat(Held(t, w.bin))
      BY <2>1, <2>6 DEF PathOK
    <3>2. Passed(t, w.bin) \subseteq S
      BY <2>1 DEF Passed, Ahead, Begun
    <3>3. w.total <= sum
      BY <2>1, <2>4, <3>1, <3>2
    <3>4. QED
      BY <3>3 DEF HeldBy
  <2>7. CASE w.pc = "done"
    <3>1. PICK b \in Int : w.bin \in {b, NextBin(t, b)} /\ EndsAt(t, w.amount, b, w.total)
      BY <2>1, <2>7 DEF PathOK
    <3>2. w.total <= Sat(Held(t, NextBin(t, b)))
      BY <2>1, <3>1, EndsWith
    <3>3. Passed(t, NextBin(t, b)) \subseteq S
      BY <2>1, <3>1 DEF Passed, Ahead, Begun, NextBin
    <3>4. NextBin(t, b) \in Int
      BY DEF NextBin
    <3>5. w.total <= sum
      BY <2>4, <3>2, <3>3, <3>4
    <3>6. QED
      BY <3>5 DEF HeldBy
  <2>8. QED
    BY <2>1, <2>5, <2>6, <2>7 DEF WalkState
<1>2. QED
  BY <1>1, PathInvariant, PTL
=============================================================================
