--------------------------- MODULE V2Pools_proofs ---------------------------
(***************************************************************************)
(* Proofs about V2Pools for any pools, contracts, fees, reserves, amounts  *)
(* and number of events: types, that swapping at the quoted price never    *)
(* shrinks the product of the reserves, and that a mirror holds what its   *)
(* pool announced last and quotes from it.                                 *)
(***************************************************************************)
EXTENDS V2Pools, SequenceTheorems, TLAPS

(* What floor division returns.                                            *)
LEMMA FloorLemma ==
    ASSUME NEW m \in Nat, NEW n \in Nat \ {0}
    PROVE  m \div n \in Nat /\ (m \div n) * n <= m
OBVIOUS

(* Products of numbers are numbers.                                        *)
LEMMA TimesType ==
    ASSUME NEW m \in Nat, NEW n \in Nat
    PROVE  m * n \in Nat
OBVIOUS

(* A fee leaves at most the input.                                         *)
LEMMA MonusLemma ==
    ASSUME NEW m \in Nat, NEW n \in Nat
    PROVE  Monus(m, n) \in Nat /\ Monus(m, n) <= m
BY DEF Monus

(* A fee given as a ratio leaves at most the input.                        *)
LEMMA RatioLemma ==
    ASSUME NEW dx \in Nat, NEW num \in Nat, NEW den \in Nat
    PROVE  RatioNet(dx, num, den) \in Nat /\ RatioNet(dx, num, den) <= dx
  <1>1. CASE den = 0 \/ num > den
    BY <1>1 DEF RatioNet
  <1>2. CASE den # 0 /\ num <= den
    <2> DEFINE net == (dx * num) \div den
    <2>1. dx * num \in Nat /\ dx * num <= dx * den
      BY <1>2
    <2>2. net \in Nat /\ net * den <= dx * num
      BY <1>2, <2>1, FloorLemma
    <2>3. net * den <= dx * den /\ den > 0
      BY <1>2, <2>1, <2>2
    <2>4. net <= dx
      <3> HIDE DEF net
      <3>1. SUFFICES ASSUME net >= dx + 1 PROVE FALSE
        BY <2>2
      <3>2. net * den >= (dx + 1) * den
        BY <2>2, <2>3, <3>1
      <3>3. (dx + 1) * den = dx * den + den
        OBVIOUS
      <3> QED
        BY <2>2, <2>3, <3>2, <3>3
    <2> QED
      BY <1>2, <2>2, <2>4 DEF RatioNet
  <1> QED
    BY <1>1, <1>2

(* So does the fee of every kind of pool, in either direction.             *)
LEMMA NetLemma ==
    ASSUME NEW p \in Pool, NEW i \in Side, NEW dx \in Nat
    PROVE  Net(p, i, dx) \in Nat /\ Net(p, i, dx) <= dx
  <1>1. Kind[p] \in {"arkadiko", "velar", "alex", "xyk"}
    BY V2Assumption DEF Kinds
  <1>2. CASE Kind[p] = "arkadiko"
    BY <1>2, RatioLemma, V2Assumption DEF Net
  <1>3. CASE Kind[p] = "velar"
    <2>1. Fee[p][i].num \in Nat /\ Fee[p][i].den \in Nat
      BY <1>3, V2Assumption
    <2> QED
      BY <1>3, <2>1, RatioLemma DEF Net
  <1>4. CASE Kind[p] = "alex"
    <2>1. Fee[p][i].rate \in Nat
      BY <1>4, V2Assumption
    <2>2. dx * Fee[p][i].rate \in Nat
      BY <2>1, TimesType
    <2>3. OneE8 \in Nat \ {0}
      BY V2Assumption
    <2>4. \A m \in Nat : m + OneE8 - 1 \in Nat
      BY <2>3
    <2>5. dx * Fee[p][i].rate + OneE8 - 1 \in Nat
      BY <2>2, <2>4
    <2>6. MulUp(dx, Fee[p][i].rate) \in Nat
      BY <2>3, <2>5, FloorLemma DEF MulUp
    <2> QED
      BY <1>4, <2>6, MonusLemma DEF Net, RateNet
  <1>5. CASE Kind[p] = "xyk"
    <2>1. Fee[p][i].protocol \in Nat /\ Fee[p][i].provider \in Nat
      BY <1>5, V2Assumption
    <2>2. dx * Fee[p][i].protocol \in Nat /\ dx * Fee[p][i].provider \in Nat
      BY <2>1, TimesType
    <2>3. /\ (dx * Fee[p][i].protocol) \div Bps \in Nat
          /\ (dx * Fee[p][i].provider) \div Bps \in Nat
      BY <2>2, FloorLemma, V2Assumption
    <2>4. (dx * Fee[p][i].protocol) \div Bps + (dx * Fee[p][i].provider) \div Bps \in Nat
      BY <2>3
    <2> QED
      BY <1>5, <2>4, MonusLemma DEF Net, BpsNet
  <1> QED
    BY <1>1, <1>2, <1>3, <1>4, <1>5

(* A payout is covered by the reserve.                                     *)
LEMMA OutLemma ==
    ASSUME NEW net \in Nat, NEW in \in Nat, NEW out \in Nat
    PROVE  /\ Out(net, in, out) \in Nat /\ Out(net, in, out) <= out
           /\ Out(net, in, out) * (in + net) <= out * net
  <1>1. CASE net = 0 \/ in = 0 \/ out = 0
    <2>1. Out(net, in, out) = 0
      BY <1>1 DEF Out
    <2>2. out * net \in Nat /\ 0 * (in + net) = 0
      OBVIOUS
    <2> QED
      BY <2>1, <2>2
  <1>2. CASE net # 0 /\ in # 0 /\ out # 0
    <2> DEFINE paid == (out * net) \div (in + net)
    <2>1. out * net \in Nat /\ in + net \in Nat \ {0}
      BY <1>2, TimesType
    <2>2. paid \in Nat /\ paid * (in + net) <= out * net
      BY <2>1, FloorLemma
    <2>3. paid <= out
      <3> HIDE DEF paid
      <3>1. SUFFICES ASSUME paid >= out + 1 PROVE FALSE
        BY <2>2
      <3>2. paid * (in + net) >= (out + 1) * (in + net)
        BY <2>1, <2>2, <3>1
      <3>3. (out + 1) * (in + net) = out * in + out * net + in + net
        OBVIOUS
      <3>4. out * in \in Nat
        OBVIOUS
      <3> QED
        BY <1>2, <2>1, <2>2, <3>2, <3>3, <3>4
    <2> QED
      BY <1>2, <2>2, <2>3 DEF Out
  <1> QED
    BY <1>1, <1>2

(* The swap formula and the product of the reserves, whatever part of the  *)
(* fee stays in the pool.                                                  *)
LEMMA ProductLemma ==
    ASSUME NEW net \in Nat, NEW in \in Nat, NEW out \in Nat, NEW kept \in Nat, net <= kept,
           NEW paid \in Nat, paid <= out, paid * (in + net) <= out * net
    PROVE  (in + kept) * (out - paid) >= in * out
  <1>1. out - paid \in Nat /\ in + kept \in Nat /\ in + net \in Nat /\ in + kept >= in + net
    OBVIOUS
  <1>2. (in + kept) * (out - paid) >= (in + net) * (out - paid)
    BY <1>1
  <1>3. (in + net) * (out - paid) = in * out + out * net - paid * (in + net)
    OBVIOUS
  <1>4. in * out \in Nat /\ out * net \in Nat /\ paid * (in + net) \in Nat
    OBVIOUS
  <1>5. (in + kept) * (out - paid) \in Int
    BY <1>1
  <1> QED
    BY <1>2, <1>3, <1>4, <1>5

-----------------------------------------------------------------------------
(* What a step of the chain amounts to: a switch, or new reserves of one   *)
(* pool and their announcement.                                            *)
Switches(p) == chain' = [chain EXCEPT ![p].on = ~@] /\ UNCHANGED ledger

Announces(p, bal) ==
    /\ chain' = [chain EXCEPT ![p].bal = bal]
    /\ \E act \in {"swap", "balances", "liquidity"} :
          /\ act = "balances" <=> Kind[p] = "xyk"
          /\ ledger' = Append(ledger, [pool |-> p, bal |-> bal, on |-> chain[p].on, act |-> act])
    /\ chain[p].bal[1] * chain[p].bal[2] <= bal[1] * bal[2]

(* The two sides of a pair.                                                *)
LEMMA SideLemma ==
    /\ 1 \in Side /\ 2 \in Side /\ Other(1) = 2 /\ Other(2) = 1
    /\ \A i \in Side : Other(i) \in Side /\ Other(i) # i /\ Other(Other(i)) = i
BY DEF Side, Other

(* The reserves of a pool on chain.                                        *)
LEMMA BalanceType ==
    ASSUME V2TypeOK, NEW p \in Pool
    PROVE  /\ chain[p].bal \in Balances /\ chain[p].on \in BOOLEAN
           /\ chain[p].bal[1] \in Nat /\ chain[p].bal[2] \in Nat
BY DEF V2TypeOK, Balances, Side

(* A swap announces new reserves, which are numbers.                       *)
LEMMA SwapEffect ==
    ASSUME V2TypeOK, NEW p \in Pool, NEW i \in Side, NEW dx \in Amount,
           NEW kept \in {Net(p, i, dx), dx}, Swap(p, i, dx, kept)
    PROVE  \E bal \in Balances : Announces(p, bal)
  <1> DEFINE old == chain[p].bal
             paid == Pays(p, i, dx)
             bal == [old EXCEPT ![i] = @ + kept, ![Other(i)] = @ - paid]
             act == IF Kind[p] = "xyk" THEN "balances" ELSE "swap"
  <1>1. old \in Balances /\ old[1] \in Nat /\ old[2] \in Nat
    BY BalanceType
  <1>2. old[i] \in Nat /\ old[Other(i)] \in Nat
    BY <1>1, SideLemma DEF Balances
  <1>3. dx \in Nat
    BY V2Assumption
  <1>4. Net(p, i, dx) \in Nat /\ Net(p, i, dx) <= kept /\ kept \in Nat
    BY <1>3, NetLemma
  <1>5. /\ paid \in Nat /\ paid <= old[Other(i)]
        /\ paid * (old[i] + Net(p, i, dx)) <= old[Other(i)] * Net(p, i, dx)
    BY <1>2, <1>4, OutLemma DEF Pays
  <1>6. old[i] + kept \in Nat /\ old[Other(i)] - paid \in Nat
    BY <1>2, <1>4, <1>5
  <1>7. bal \in Balances /\ bal[i] = old[i] + kept /\ bal[Other(i)] = old[Other(i)] - paid
    <2> HIDE DEF old, paid
    <2>1. Other(i) \in Side /\ Other(i) # i
      BY SideLemma
    <2> QED
      BY <1>1, <1>6, <2>1 DEF Balances
  <1>8. old[1] * old[2] <= bal[1] * bal[2]
    <2>1. bal[i] * bal[Other(i)] >= old[i] * old[Other(i)]
      <3> HIDE DEF bal, old, paid
      <3> QED
        BY <1>2, <1>4, <1>5, <1>7, ProductLemma
    <2>2. bal[1] \in Nat /\ bal[2] \in Nat
      <3> HIDE DEF bal
      <3> QED
        BY <1>7, SideLemma DEF Balances
    <2> HIDE DEF bal, old, paid
    <2>3. CASE i = 1
      <3>1. Other(i) = 2
        BY <2>3, SideLemma
      <3>2. bal[1] * bal[2] >= old[1] * old[2]
        BY <2>1, <2>3, <3>1
      <3> QED
        BY <1>1, <2>2, <3>2
    <2>4. CASE i = 2
      <3>1. Other(i) = 1
        BY <2>4, SideLemma
      <3>2. bal[2] * bal[1] >= old[2] * old[1]
        BY <2>1, <2>4, <3>1
      <3>3. bal[2] * bal[1] = bal[1] * bal[2] /\ old[2] * old[1] = old[1] * old[2]
        BY <1>1, <2>2
      <3> QED
        BY <1>1, <2>2, <3>2, <3>3
    <2> QED
      BY <2>3, <2>4 DEF Side
  <1>9. chain' = [chain EXCEPT ![p].bal = bal] /\ Emit(p, bal, act)
    BY DEF Swap
  <1> HIDE DEF bal, old, paid
  <1>10. Announces(p, bal)
    BY <1>8, <1>9 DEF Announces, Emit, old
  <1> QED
    BY <1>7, <1>10

(* So does added liquidity.                                                *)
LEMMA LiquidityEffect ==
    ASSUME V2TypeOK, NEW p \in Pool, NEW dx \in Amount, AddLiquidity(p, dx)
    PROVE  \E bal \in Balances : Announces(p, bal)
  <1> DEFINE old == chain[p].bal
             bal == [i \in Side |-> old[i] + dx]
             act == IF Kind[p] = "xyk" THEN "balances" ELSE "liquidity"
  <1>1. old \in Balances /\ old[1] \in Nat /\ old[2] \in Nat /\ dx \in Nat
    BY BalanceType, V2Assumption
  <1>2. bal \in Balances /\ bal[1] = old[1] + dx /\ bal[2] = old[2] + dx
    <2> HIDE DEF old
    <2> QED
      BY <1>1, SideLemma DEF Balances
  <1>3. old[1] * old[2] <= bal[1] * bal[2]
    <2> HIDE DEF old, bal
    <2>1. (old[1] + dx) * (old[2] + dx) = old[1] * old[2] + (old[1] + old[2] + dx) * dx
      BY <1>1
    <2>2. (old[1] + old[2] + dx) * dx \in Nat /\ old[1] * old[2] \in Nat
      BY <1>1, TimesType
    <2>3. bal[1] * bal[2] = old[1] * old[2] + (old[1] + old[2] + dx) * dx
      BY <1>2, <2>1
    <2> QED
      BY <2>2, <2>3
  <1>4. chain' = [chain EXCEPT ![p].bal = bal] /\ Emit(p, bal, act)
    BY DEF AddLiquidity
  <1> HIDE DEF bal, old
  <1>5. Announces(p, bal)
    BY <1>3, <1>4 DEF Announces, Emit, old
  <1> QED
    BY <1>2, <1>5

(* What a step of the chain does, and that it leaves the tasks alone.      *)
LEMMA ChainEffect ==
    ASSUME V2TypeOK, ChainStep
    PROVE  /\ UNCHANGED taskVars
           /\ \E p \in Pool : Switches(p) \/ \E bal \in Balances : Announces(p, bal)
  <1>1. ASSUME NEW p \in Pool, Switch(p) PROVE Switches(p)
    BY <1>1 DEF Switch, Switches
  <1> QED
    BY <1>1, SwapEffect, LiquidityEffect DEF ChainStep

-----------------------------------------------------------------------------
(* Types.                                                                  *)
Event == [pool : Pool, bal : Balances, on : BOOLEAN, act : {"swap", "balances", "liquidity"}]
Entry(n) == [bal : Balances, on : BOOLEAN, tx : 0 .. n, at : Nat, since : Nat]

(* Types that the steps keep asking for.                                   *)
LEMMA TypeParts ==
    ASSUME V2TypeOK
    PROVE  /\ ledger \in Seq(Event) /\ Len(ledger) \in Nat
           /\ \A i \in 1 .. Len(ledger) :
                 /\ ledger[i] \in Event /\ ledger[i].pool \in Pool
                 /\ ledger[i].bal \in Balances /\ ledger[i].on \in BOOLEAN
           /\ Live \subseteq Pool
           /\ \A p \in Live :
                 /\ mirror[p] \in Entry(Len(ledger)) /\ mirror[p].bal \in Balances
                 /\ mirror[p].on \in BOOLEAN /\ mirror[p].tx \in 0 .. Len(ledger)
                 /\ mirror[p].at \in Nat /\ mirror[p].since \in Nat
  <1>1. ledger \in Seq(Event) /\ Len(ledger) \in Nat
    BY LenProperties DEF V2TypeOK, Event
  <1>2. \A i \in 1 .. Len(ledger) : ledger[i] \in Event
    BY <1>1, ElementOfSeq
  <1>3. \A p \in Live : mirror[p] \in Entry(Len(ledger))
    BY DEF V2TypeOK, Entry
  <1> QED
    BY <1>1, <1>2, <1>3 DEF V2TypeOK, Event, Entry

(* Every pool has a contract that announces its events.                    *)
LEMMA EmitterType ==
    ASSUME NEW p \in Pool PROVE Emitter[p] \in Contract
BY DEF Contract

(* Turning keeps reserves reserves, and does nothing to a pool named in    *)
(* the order of its contract.                                              *)
LEMMA TurnLemma ==
    ASSUME NEW p \in Pool, NEW bal \in Balances
    PROVE  /\ Turned(p, bal) \in Balances
           /\ p \notin Reversed => Turned(p, bal) = bal
BY SideLemma DEF Turned, Turn, Balances

(* An announcement is one event more.                                      *)
LEMMA AnnouncedLemma ==
    ASSUME V2TypeOK, NEW p \in Pool, NEW bal \in Balances, Announces(p, bal)
    PROVE  /\ ledger' \in Seq(Event) /\ Len(ledger') = Len(ledger) + 1
           /\ \A i \in 1 .. Len(ledger) : ledger'[i] = ledger[i]
           /\ ledger'[Len(ledger) + 1].pool = p /\ ledger'[Len(ledger) + 1].bal = bal
           /\ ledger'[Len(ledger) + 1].act = "balances" <=> Kind[p] = "xyk"
           /\ chain' \in [Pool -> [bal : Balances, on : BOOLEAN]]
           /\ chain'[p].bal = bal /\ \A q \in Pool : q # p => chain'[q] = chain[q]
  <1>1. chain \in [Pool -> [bal : Balances, on : BOOLEAN]] /\ chain[p].on \in BOOLEAN
    BY BalanceType DEF V2TypeOK
  <1>2. PICK act \in {"swap", "balances", "liquidity"} :
          /\ act = "balances" <=> Kind[p] = "xyk"
          /\ ledger' = Append(ledger, [pool |-> p, bal |-> bal, on |-> chain[p].on, act |-> act])
    BY DEF Announces
  <1> DEFINE e == [pool |-> p, bal |-> bal, on |-> chain[p].on, act |-> act]
  <1>3. e \in Event /\ e.pool = p /\ e.bal = bal /\ e.act = act
    BY <1>1 DEF Event
  <1> HIDE DEF e
  <1>4. /\ ledger' \in Seq(Event) /\ Len(ledger') = Len(ledger) + 1
        /\ \A i \in 1 .. Len(ledger) : ledger'[i] = ledger[i]
        /\ ledger'[Len(ledger) + 1] = e
    BY <1>2, <1>3, TypeParts, AppendProperties DEF e
  <1>5. chain' = [chain EXCEPT ![p].bal = bal]
    BY DEF Announces
  <1>6. /\ chain' \in [Pool -> [bal : Balances, on : BOOLEAN]]
        /\ chain'[p].bal = bal /\ \A q \in Pool : q # p => chain'[q] = chain[q]
    BY <1>1, <1>5
  <1> QED
    BY <1>2, <1>3, <1>4, <1>6

(* What a handler takes, and what of it.                                   *)
Takes(p, e) == IF Kind[p] = "xyk" THEN e.act = "balances" ELSE OwnSwap(p, e)

(* A handler leaves a mirror of its type, and only some fields change.     *)
LEMMA ApplyLemma ==
    ASSUME V2TypeOK, NEW p \in Live, NEW i \in 1 .. Len(ledger)
    PROVE  /\ ApplyEvent(p, i) \in Entry(Len(ledger))
           /\ ApplyEvent(p, i).at = mirror[p].at /\ ApplyEvent(p, i).since = mirror[p].since
           /\ ~Takes(p, ledger[i]) => ApplyEvent(p, i) = mirror[p]
           /\ Takes(p, ledger[i]) =>
                 /\ ApplyEvent(p, i).tx = i
                 /\ ApplyEvent(p, i).bal = IF Kind[p] = "velar" THEN Turned(p, ledger[i].bal)
                                                                ELSE ledger[i].bal
                 /\ Kind[p] = "arkadiko" => ApplyEvent(p, i).on = ledger[i].on
  <1> DEFINE e == ledger[i]
             m == mirror[p]
             n == Len(ledger)
  <1>1. p \in Pool /\ m \in Entry(n) /\ n \in Nat
    BY TypeParts
  <1>2. e.bal \in Balances /\ e.on \in BOOLEAN
    BY TypeParts
  <1>3. Turned(p, e.bal) \in Balances
    BY <1>1, <1>2, TurnLemma
  <1>4. Kind[p] \in {"arkadiko", "velar", "alex", "xyk"}
    BY <1>1, V2Assumption DEF Kinds
  <1>5. i \in 0 .. n
    BY <1>1
  <1> HIDE DEF m, n, e
  <1>6. \A bal \in Balances :
          LET r == [m EXCEPT !.bal = bal, !.tx = i]
          IN  /\ r \in Entry(n) /\ r.at = m.at /\ r.since = m.since
              /\ r.tx = i /\ r.bal = bal
    BY <1>1, <1>5 DEF Entry
  <1>7. \A bal \in Balances :
          LET r == [[m EXCEPT !.bal = bal, !.tx = i] EXCEPT !.on = e.on]
          IN  /\ r \in Entry(n) /\ r.at = m.at /\ r.since = m.since
              /\ r.tx = i /\ r.bal = bal /\ r.on = e.on
    BY <1>1, <1>2, <1>5 DEF Entry
  <1> DEFINE r == ApplyEvent(p, i)
             Fits == /\ r \in Entry(n) /\ r.at = m.at /\ r.since = m.since
                     /\ ~Takes(p, e) => r = m
                     /\ Takes(p, e) =>
                           /\ r.tx = i
                           /\ r.bal = IF Kind[p] = "velar" THEN Turned(p, e.bal) ELSE e.bal
                           /\ Kind[p] = "arkadiko" => r.on = e.on
  <1>8. ASSUME ~Takes(p, e) PROVE Fits
    <2>1. r = m
      BY <1>4, <1>8 DEF e, m, Takes, ApplyEvent, ApplyArkadiko, ApplyVelar, ApplyAlex, ApplyXyk
    <2> HIDE DEF r
    <2> QED
      BY <1>1, <1>8, <2>1
  <1>9. ASSUME Takes(p, e) PROVE Fits
    <2>1. CASE Kind[p] = "arkadiko"
      <3>1. r = [[m EXCEPT !.bal = e.bal, !.tx = i] EXCEPT !.on = e.on]
        BY <1>9, <2>1 DEF e, m, Takes, ApplyEvent, ApplyArkadiko, Take
      <3> HIDE DEF r
      <3>2. r \in Entry(n) /\ r.at = m.at /\ r.since = m.since /\ r.tx = i /\ r.bal = e.bal /\ r.on = e.on
        BY <1>2, <1>7, <3>1
      <3> QED
        BY <1>9, <2>1, <3>2
    <2>2. CASE Kind[p] = "velar"
      <3>1. r = [m EXCEPT !.bal = Turned(p, e.bal), !.tx = i]
        BY <1>9, <2>2 DEF e, m, Takes, ApplyEvent, ApplyVelar, Take
      <3> HIDE DEF r
      <3>2. r \in Entry(n) /\ r.at = m.at /\ r.since = m.since /\ r.tx = i /\ r.bal = Turned(p, e.bal)
        BY <1>3, <1>6, <3>1
      <3> QED
        BY <1>9, <2>2, <3>2
    <2>3. CASE Kind[p] \in {"alex", "xyk"}
      <3>1. r = [m EXCEPT !.bal = e.bal, !.tx = i]
        BY <1>9, <2>3 DEF e, m, Takes, ApplyEvent, ApplyAlex, ApplyXyk, Take
      <3> HIDE DEF r
      <3>2. r \in Entry(n) /\ r.at = m.at /\ r.since = m.since /\ r.tx = i /\ r.bal = e.bal
        BY <1>2, <1>6, <3>1
      <3> QED
        BY <1>9, <2>3, <3>2
    <2> QED
      BY <1>4, <2>1, <2>2, <2>3
  <1> HIDE DEF r
  <1>10. Fits
    BY <1>8, <1>9
  <1> QED
    BY <1>10 DEF e, m, n, r

(* Reserves at the start, on either side.                                  *)
LEMMA StartLemma ==
    ASSUME NEW p \in Pool PROVE Start[p] \in Balances /\ Turned(p, Start[p]) \in Balances
  <1>1. Start[p] \in [Side -> Nat \ {0}]
    BY V2Assumption
  <1>2. Start[p] \in Balances
    BY <1>1 DEF Balances
  <1> QED
    BY <1>2, TurnLemma

(* Types of the initial state.                                             *)
LEMMA TypesInit == Init => V2TypeOK
  <1> SUFFICES ASSUME Init PROVE V2TypeOK
    OBVIOUS
  <1>1. chain \in [Pool -> [bal : Balances, on : BOOLEAN]]
    BY StartLemma DEF Init
  <1>2. ledger \in Seq(Event) /\ Len(ledger) = 0
    BY EmptySeq DEF Init
  <1>3. Live = InitialPools /\ Live \subseteq Pool
    BY V2Assumption DEF Init, Live
  <1>4. mirror \in [Live -> Entry(0)]
    BY <1>3, StartLemma DEF Init, Entry
  <1>5. received \in [Contract -> 0 .. Len(ledger)]
    BY <1>2 DEF Init
  <1>6. todo = {} /\ held = {} /\ DOMAIN fetched = {} /\ fetched = [p \in {} |-> 0]
    BY DEF Init
  <1> QED
    BY <1>1, <1>2, <1>3, <1>4, <1>5, <1>6 DEF V2TypeOK, Event, Entry

(* The chain's steps.                                                      *)
LEMMA TypesSwitch ==
    ASSUME V2TypeOK, NEW p \in Pool, Switches(p), UNCHANGED taskVars
    PROVE  V2TypeOK'
  <1> DEFINE Pair == [bal : Balances, on : BOOLEAN]
  <1>1. chain' \in [Pool -> Pair]
    <2>1. chain \in [Pool -> Pair]
      BY DEF V2TypeOK
    <2>2. chain' = [chain EXCEPT ![p].on = ~@]
      BY DEF Switches
    <2>3. [chain[p] EXCEPT !.on = ~@] \in Pair
      BY <2>1
    <2> HIDE DEF Pair
    <2> QED
      BY <2>1, <2>2, <2>3
  <1> QED
    BY <1>1 DEF V2TypeOK, Switches, taskVars, Live

(* A pool announces reserves.                                              *)
LEMMA TypesAnnounce ==
    ASSUME V2TypeOK, NEW p \in Pool, NEW bal \in Balances, Announces(p, bal), UNCHANGED taskVars
    PROVE  V2TypeOK'
  <1>1. /\ ledger' \in Seq(Event) /\ Len(ledger') = Len(ledger) + 1 /\ Len(ledger) \in Nat
        /\ chain' \in [Pool -> [bal : Balances, on : BOOLEAN]]
    BY AnnouncedLemma, TypeParts
  <1>2. received' \in [Contract -> 0 .. Len(ledger')]
    BY <1>1 DEF V2TypeOK, taskVars
  <1>3. todo' \subseteq (1 .. Len(ledger')) \X Live' /\ held' \subseteq Live' \cap Outsiders
    BY <1>1 DEF V2TypeOK, taskVars, Live
  <1>4. \A q \in Live : mirror[q] \in Entry(Len(ledger'))
    BY <1>1, TypeParts DEF Entry
  <1>5. mirror' \in [Live' -> Entry(Len(ledger'))]
    BY <1>4 DEF V2TypeOK, taskVars, Live
  <1> QED
    BY <1>1, <1>2, <1>3, <1>5 DEF V2TypeOK, Event, Entry, taskVars, Live

(* The callers' and the outsiders' steps.                                  *)
LEMMA WithoutLemma ==
    ASSUME NEW p PROVE Without(p) \subseteq todo /\ \A i : <<i, p>> \notin Without(p)
BY DEF Without

(* A fetch reads the reserves of its pool and the end of the ledger.       *)
LEMMA FetchEffect ==
    ASSUME V2TypeOK, NEW p \in Pool, Fetch(p)
    PROVE  /\ fetched'[p].bal = Turned(p, chain[p].bal) /\ fetched'[p].at = Len(ledger)
           /\ DOMAIN fetched' = DOMAIN fetched \cup {p}
           /\ \A q \in DOMAIN fetched : q # p => fetched'[q] = fetched[q]
           /\ fetched' \in [DOMAIN fetched' -> [bal : Balances, on : BOOLEAN, at : Nat]]
  <1> DEFINE record == [bal |-> Turned(p, chain[p].bal), on |-> chain[p].on, at |-> Len(ledger)]
  <1>1. record \in [bal : Balances, on : BOOLEAN, at : Nat]
    BY BalanceType, TurnLemma, TypeParts
  <1>2. /\ record.bal = Turned(p, chain[p].bal) /\ record.at = Len(ledger)
    OBVIOUS
  <1> HIDE DEF record
  <1>3. fetched' = [q \in DOMAIN fetched \cup {p} |-> IF q = p THEN record ELSE fetched[q]]
    BY DEF Fetch, record
  <1> QED
    BY <1>1, <1>2, <1>3 DEF V2TypeOK

(* A fetch keeps the types.                                                *)
LEMMA TypesFetch == ASSUME V2TypeOK, NEW p \in Pool, Fetch(p) PROVE V2TypeOK'
  <1>1. UNCHANGED <<chain, ledger, received, todo, held, mirror>>
    BY DEF Fetch, chainVars
  <1> QED
    BY <1>1, FetchEffect DEF V2TypeOK, Live

(* An insert puts what was fetched into the registry.                      *)
LEMMA InsertEffect ==
    ASSUME V2TypeOK, NEW p \in Pool, Insert(p)
    PROVE  /\ Live' = Live \cup {p} /\ p \in DOMAIN fetched
           /\ mirror'[p].bal = fetched[p].bal /\ mirror'[p].tx = 0
           /\ mirror'[p].at = fetched[p].at /\ mirror'[p].since = received[Emitter[p]]
           /\ \A q \in Live : q # p => mirror'[q] = mirror[q]
           /\ mirror' \in [Live' -> Entry(Len(ledger))]
           /\ DOMAIN fetched' = DOMAIN fetched \ {p}
           /\ \A q \in DOMAIN fetched' : fetched'[q] = fetched[q]
           /\ fetched' \in [DOMAIN fetched' -> [bal : Balances, on : BOOLEAN, at : Nat]]
  <1> DEFINE record == [bal |-> fetched[p].bal, on |-> fetched[p].on, tx |-> 0,
                        at |-> fetched[p].at, since |-> received[Emitter[p]]]
  <1>1. p \in DOMAIN fetched /\ fetched[p] \in [bal : Balances, on : BOOLEAN, at : Nat]
    BY DEF Insert, V2TypeOK
  <1>2. received[Emitter[p]] \in Nat /\ Len(ledger) \in Nat
    BY EmitterType, TypeParts DEF V2TypeOK
  <1>3. record \in Entry(Len(ledger))
    BY <1>1, <1>2 DEF Entry
  <1>4. /\ record.bal = fetched[p].bal /\ record.tx = 0
        /\ record.at = fetched[p].at /\ record.since = received[Emitter[p]]
    OBVIOUS
  <1> HIDE DEF record
  <1>5. mirror' = [q \in Live \cup {p} |-> IF q = p THEN record ELSE mirror[q]]
    BY DEF Insert, record
  <1>6. /\ Live' = Live \cup {p} /\ mirror'[p] = record
        /\ \A q \in Live : q # p => mirror'[q] = mirror[q]
        /\ mirror' \in [Live' -> Entry(Len(ledger))]
    BY <1>3, <1>5, TypeParts DEF Live
  <1>7. fetched' = [q \in DOMAIN fetched \ {p} |-> fetched[q]]
    BY DEF Insert
  <1>8. /\ DOMAIN fetched' = DOMAIN fetched \ {p}
        /\ \A q \in DOMAIN fetched' : fetched'[q] = fetched[q]
        /\ fetched' \in [DOMAIN fetched' -> [bal : Balances, on : BOOLEAN, at : Nat]]
    BY <1>7 DEF V2TypeOK
  <1> QED
    BY <1>1, <1>4, <1>6, <1>8

(* An insert keeps the types.                                              *)
LEMMA TypesInsert == ASSUME V2TypeOK, NEW p \in Pool, Insert(p) PROVE V2TypeOK'
  <1>1. UNCHANGED <<chain, ledger, received>> /\ todo' = Without(p) /\ held' = held \ {p}
    BY DEF Insert, chainVars
  <1>2. Live' = Live \cup {p} /\ Live' \subseteq Pool /\ DOMAIN fetched' \subseteq Pool
    BY InsertEffect DEF V2TypeOK
  <1>3. todo' \subseteq (1 .. Len(ledger)) \X Live'
    <2>1. todo \subseteq (1 .. Len(ledger)) \X Live
      BY DEF V2TypeOK
    <2> QED
      BY <1>1, <1>2, <2>1, WithoutLemma
  <1>4. held' \subseteq Live' \cap Outsiders
    BY <1>1, <1>2 DEF V2TypeOK
  <1>5. mirror' \in [Live' -> Entry(Len(ledger))]
    BY InsertEffect
  <1>6. fetched' \in [DOMAIN fetched' -> [bal : Balances, on : BOOLEAN, at : Nat]]
    BY InsertEffect
  <1> QED
    BY <1>1, <1>2, <1>3, <1>4, <1>5, <1>6 DEF V2TypeOK, Entry

(* A remove takes one pool out and leaves the others.                      *)
LEMMA RemoveEffect ==
    ASSUME V2TypeOK, NEW p \in Pool, Remove(p)
    PROVE  /\ Live' = Live \ {p} /\ \A q \in Live' : mirror'[q] = mirror[q]
           /\ mirror' \in [Live' -> Entry(Len(ledger))]
  <1>1. mirror' = [q \in Live \ {p} |-> mirror[q]]
    BY DEF Remove
  <1> QED
    BY <1>1, TypeParts DEF Live

(* A remove keeps the types.                                               *)
LEMMA TypesRemove == ASSUME V2TypeOK, NEW p \in Pool, Remove(p) PROVE V2TypeOK'
  <1>1. UNCHANGED <<chain, ledger, received, fetched>> /\ todo' = Without(p) /\ held' = held \ {p}
    BY DEF Remove, chainVars
  <1>2. todo' \subseteq (1 .. Len(ledger)) \X Live' /\ held' \subseteq Live' \cap Outsiders
    <2>1. ASSUME NEW t \in todo' PROVE t \in (1 .. Len(ledger)) \X Live'
      BY <1>1, <2>1, RemoveEffect DEF V2TypeOK, Without
    <2> QED
      BY <1>1, <2>1, RemoveEffect DEF V2TypeOK
  <1> QED
    BY <1>1, <1>2, RemoveEffect DEF V2TypeOK, Entry

(* Locks held outside the processor keep the types.                        *)
LEMMA TypesLock == ASSUME V2TypeOK, NEW p \in Pool, Lock(p) \/ Unlock(p) PROVE V2TypeOK'
  <1>1. UNCHANGED <<chain, ledger, received, todo, fetched, mirror>>
    BY DEF Lock, Unlock, chainVars
  <1>2. held' \subseteq Live \cap Outsiders
    BY DEF Lock, Unlock, V2TypeOK
  <1> QED
    BY <1>1, <1>2 DEF V2TypeOK, Live

(* The processor's steps.                                                  *)
LEMMA ReceiveEffect ==
    ASSUME V2TypeOK, NEW c \in Contract, Receive(c)
    PROVE  /\ todo = {} /\ UNCHANGED <<chain, ledger, held, fetched, mirror>>
           /\ \E i \in 1 .. Len(ledger) :
                 /\ i > received[c] /\ Emitter[ledger[i].pool] = c
                 /\ \A j \in received[c] + 1 .. i - 1 : Emitter[ledger[j].pool] # c
                 /\ received' = [received EXCEPT ![c] = i]
                 /\ todo' = {i} \X Candidates(c)
  <1>1. received[c] \in Nat /\ Len(ledger) \in Nat
    BY TypeParts DEF V2TypeOK
  <1>2. \A i \in NextEvents(c, received[c]) :
          /\ i \in 1 .. Len(ledger) /\ i > received[c] /\ Emitter[ledger[i].pool] = c
          /\ \A j \in received[c] + 1 .. i - 1 : Emitter[ledger[j].pool] # c
    BY <1>1 DEF NextEvents
  <1> QED
    BY <1>2 DEF Receive, chainVars

(* Receiving an event keeps the types.                                     *)
LEMMA TypesReceive == ASSUME V2TypeOK, NEW c \in Contract, Receive(c) PROVE V2TypeOK'
  <1>1. PICK i \in 1 .. Len(ledger) :
          received' = [received EXCEPT ![c] = i] /\ todo' = {i} \X Candidates(c)
    BY ReceiveEffect
  <1>2. received' \in [Contract -> 0 .. Len(ledger)]
    BY <1>1 DEF V2TypeOK
  <1>3. todo' \subseteq (1 .. Len(ledger)) \X Live
    BY <1>1 DEF Candidates
  <1> QED
    BY <1>2, <1>3, ReceiveEffect DEF V2TypeOK, Live

(* Dispatch to one pool changes that pool alone.                           *)
LEMMA ApplyToEffect ==
    ASSUME V2TypeOK, NEW p \in Pool, ApplyTo(p)
    PROVE  /\ UNCHANGED <<chain, ledger, received, held, fetched>>
           /\ todo' = Without(p) /\ p \in Live /\ Live' = Live
           /\ \E i \in 1 .. Len(ledger) : <<i, p>> \in todo /\ mirror'[p] = ApplyEvent(p, i)
           /\ \A q \in Live : q # p => mirror'[q] = mirror[q]
           /\ mirror' \in [Live -> Entry(Len(ledger))]
  <1>1. PICK i \in 1 .. Len(ledger) :
          <<i, p>> \in todo /\ mirror' = [mirror EXCEPT ![p] = ApplyEvent(p, i)]
    BY DEF ApplyTo
  <1>2. p \in Live
    BY <1>1 DEF V2TypeOK
  <1>3. ApplyEvent(p, i) \in Entry(Len(ledger))
    BY <1>2, ApplyLemma
  <1>4. mirror \in [Live -> Entry(Len(ledger))]
    BY DEF V2TypeOK, Entry
  <1>5. /\ mirror' \in [Live -> Entry(Len(ledger))] /\ mirror'[p] = ApplyEvent(p, i)
        /\ \A q \in Live : q # p => mirror'[q] = mirror[q]
    BY <1>1, <1>2, <1>3, <1>4
  <1> QED
    BY <1>1, <1>2, <1>5 DEF ApplyTo, chainVars, Live

(* Dispatch keeps the types.                                               *)
LEMMA TypesApplyTo == ASSUME V2TypeOK, NEW p \in Pool, ApplyTo(p) PROVE V2TypeOK'
  <1>1. todo' \subseteq (1 .. Len(ledger)) \X Live
    BY ApplyToEffect, WithoutLemma DEF V2TypeOK
  <1> QED
    BY <1>1, ApplyToEffect DEF V2TypeOK, Entry

(* Every step keeps the types.                                             *)
LEMMA TypesStep == V2TypeOK /\ [Next]_vars => V2TypeOK'
  <1> SUFFICES ASSUME V2TypeOK, [Next]_vars PROVE V2TypeOK'
    OBVIOUS
  <1>1. CASE ChainStep
    BY <1>1, ChainEffect, TypesSwitch, TypesAnnounce
  <1>2. ASSUME NEW p \in Pool,
               Fetch(p) \/ Insert(p) \/ Remove(p) \/ Lock(p) \/ Unlock(p) \/ ApplyTo(p)
        PROVE  V2TypeOK'
    BY <1>2, TypesFetch, TypesInsert, TypesRemove, TypesLock, TypesApplyTo
  <1>3. ASSUME NEW c \in Contract, Receive(c) PROVE V2TypeOK'
    BY <1>3, TypesReceive
  <1>4. CASE UNCHANGED vars
    BY <1>4 DEF V2TypeOK, vars, chainVars, taskVars, Live
  <1> QED
    BY <1>1, <1>2, <1>3, <1>4 DEF Next

(* Types: no swap the quote formula pays for overdraws a reserve, and      *)
(* dispatch only writes to registered pools, from past events.             *)
THEOREM V2TypeCorrect == Spec => []V2TypeOK
  <1> QED
    BY TypesInit, TypesStep, PTL DEF Spec

(* Swapping for what the quote formula says never shrinks the product of   *)
(* the reserves, whatever the fees, their rounding and what of them stays  *)
(* in the pool.                                                            *)
THEOREM ProductCorrect == Spec => ProductNeverFalls
  <1> DEFINE Grows == \A p \in Pool :
               chain'[p].bal[1] * chain'[p].bal[2] >= chain[p].bal[1] * chain[p].bal[2]
  <1>1. V2TypeOK /\ [Next]_vars => [Grows]_vars
    <2> SUFFICES ASSUME V2TypeOK, Next, NEW q \in Pool
                 PROVE  chain'[q].bal[1] * chain'[q].bal[2] >= chain[q].bal[1] * chain[q].bal[2]
      OBVIOUS
    <2> DEFINE product == chain[q].bal[1] * chain[q].bal[2]
    <2>1. product \in Nat
      BY BalanceType, TimesType
    <2>2. ASSUME chain'[q].bal = chain[q].bal
          PROVE  chain'[q].bal[1] * chain'[q].bal[2] >= product
      <3> HIDE DEF product
      <3>1. chain'[q].bal[1] * chain'[q].bal[2] = product
        BY <2>2 DEF product
      <3> QED
        BY <2>1, <3>1
    <2>3. CASE ChainStep
      <3>1. PICK p \in Pool : Switches(p) \/ \E bal \in Balances : Announces(p, bal)
        BY <2>3, ChainEffect
      <3>2. CASE Switches(p)
        BY <2>2, <3>2 DEF Switches, V2TypeOK
      <3>3. ASSUME NEW bal \in Balances, Announces(p, bal), q = p
            PROVE  chain'[q].bal[1] * chain'[q].bal[2] >= product
        <4>1. chain'[q].bal = bal /\ product <= bal[1] * bal[2]
          BY <3>3, AnnouncedLemma DEF Announces
        <4>2. bal[1] \in Nat /\ bal[2] \in Nat
          BY SideLemma DEF Balances
        <4> HIDE DEF product
        <4>3. bal[1] * bal[2] \in Nat
          BY <4>2, TimesType
        <4> QED
          BY <2>1, <4>1, <4>3
      <3>4. ASSUME NEW bal \in Balances, Announces(p, bal), q # p
            PROVE  chain'[q].bal = chain[q].bal
        BY <3>4, AnnouncedLemma
      <3> QED
        BY <2>2, <3>1, <3>2, <3>3, <3>4
    <2>4. CASE ~ChainStep
      BY <2>2, <2>4 DEF Next, Fetch, Insert, Remove, Lock, Unlock, ApplyTo, Receive, chainVars
    <2> QED
      BY <2>3, <2>4
  <1> QED
    BY <1>1, V2TypeCorrect, PTL DEF Spec, ProductNeverFalls

-----------------------------------------------------------------------------
(* What a mirror knows of its pool.  OwnHistory and KeptUp are not         *)
(* inductive: a handler relies on what dispatch has to do, and KeptUp says *)
(* nothing of a pool that waits for its turn.  The invariant adds          *)
(*   - that only xyk pools announce balances,                              *)
(*   - that dispatch has one event at a time, for an xyk pool one of its   *)
(*     contract, for the pool that announced it the last one received,     *)
(*   - that the events of a pool not waiting for dispatch are in its       *)
(*     mirror up to the last one.                                          *)
Own(p, i) == ledger[i].pool = p /\ ledger[i].act # "liquidity"
IsLast(n, S) == IF S = {} THEN n = 0 ELSE n \in S /\ \A i \in S : i <= n
Taken(p) == {i \in mirror[p].since + 1 .. received[Emitter[p]] : Own(p, i) /\ <<i, p>> \notin todo}

EventsFit ==
    \A i \in 1 .. Len(ledger) : ledger[i].act = "balances" <=> Kind[ledger[i].pool] = "xyk"

DispatchFits ==
    /\ \A p, q \in Live : \A i, j \in 1 .. Len(ledger) : <<i, p>> \in todo /\ <<j, q>> \in todo => i = j
    /\ \A p \in Live : \A i \in 1 .. Len(ledger) : <<i, p>> \in todo =>
          /\ Kind[p] = "xyk" => Emitter[ledger[i].pool] = Emitter[p]
          /\ ledger[i].pool = p => i = received[Emitter[p]] /\ i > mirror[p].since

SinceFits == \A p \in Live : mirror[p].since <= received[Emitter[p]]
HoldsLast == \A p \in Live : IsLast(mirror[p].tx, Taken(p))

HistoryInv == V2TypeOK /\ EventsFit /\ DispatchFits /\ SinceFits /\ HoldsLast /\ OwnHistory

(* Xyk pools are locked by the processor alone: a handler of theirs does   *)
(* not look whose event it gets, and a contended pool gets everybody's.    *)
XykUncontended == \A p \in Outsiders : Kind[p] # "xyk"

(* What was received is in the ledger.                                     *)
LEMMA ReceivedType ==
    ASSUME V2TypeOK, NEW p \in Pool
    PROVE  received[Emitter[p]] \in 0 .. Len(ledger)
BY EmitterType DEF V2TypeOK

(* Nothing has been received or is pending at the start.                   *)
LEMMA HistoryInit == Init => HistoryInv
  <1> SUFFICES ASSUME Init PROVE HistoryInv
    OBVIOUS
  <1>1. V2TypeOK
    BY TypesInit
  <1>2. Len(ledger) = 0 /\ todo = {} /\ Live = InitialPools
    BY EmptySeq DEF Init, Live
  <1>3. \A p \in Live : mirror[p].tx = 0 /\ mirror[p].since = 0 /\ received[Emitter[p]] = 0
    BY <1>1, <1>2, TypeParts, EmitterType DEF Init
  <1>4. \A p \in Live : Taken(p) = {}
    BY <1>3 DEF Taken
  <1> QED
    BY <1>1, <1>2, <1>3, <1>4
    DEF HistoryInv, EventsFit, DispatchFits, SinceFits, HoldsLast, IsLast, OwnHistory

(* Steps that leave what was dispatched and what was mirrored alone.       *)
LEMMA HistoryAnnounce ==
    ASSUME HistoryInv, NEW p \in Pool, NEW bal \in Balances, Announces(p, bal), UNCHANGED taskVars
    PROVE  HistoryInv'
  <1>1. V2TypeOK /\ V2TypeOK' /\ Len(ledger) \in Nat
    BY TypesAnnounce, TypeParts DEF HistoryInv
  <1>2. /\ Len(ledger') = Len(ledger) + 1
        /\ \A i \in 1 .. Len(ledger) : ledger'[i] = ledger[i]
        /\ ledger'[Len(ledger) + 1].pool = p
        /\ ledger'[Len(ledger) + 1].act = "balances" <=> Kind[p] = "xyk"
    BY <1>1, AnnouncedLemma
  <1>3. UNCHANGED <<received, todo, mirror>> /\ Live' = Live
    BY DEF taskVars, Live
  <1>4. EventsFit'
    <2> SUFFICES ASSUME NEW i \in 1 .. Len(ledger')
                 PROVE  ledger'[i].act = "balances" <=> Kind[ledger'[i].pool] = "xyk"
      BY DEF EventsFit
    <2>1. CASE i \in 1 .. Len(ledger)
      BY <1>2, <2>1 DEF HistoryInv, EventsFit
    <2>2. CASE i = Len(ledger) + 1
      BY <1>2, <2>2
    <2> QED
      BY <1>1, <1>2, <2>1, <2>2
  <1>5. DispatchFits'
    <2>1. \A q \in Live : \A i \in 1 .. Len(ledger') : <<i, q>> \in todo => i \in 1 .. Len(ledger)
      BY <1>1 DEF V2TypeOK
    <2> QED
      BY <1>2, <1>3, <2>1 DEF HistoryInv, DispatchFits
  <1>6. SinceFits'
    BY <1>3 DEF HistoryInv, SinceFits
  <1>7. HoldsLast'
    <2> SUFFICES ASSUME NEW q \in Live PROVE IsLast(mirror'[q].tx, Taken(q)')
      BY <1>3 DEF HoldsLast
    <2>1. \A i \in mirror[q].since + 1 .. received[Emitter[q]] : ledger'[i] = ledger[i]
      BY <1>1, <1>2, TypeParts, ReceivedType
    <2>2. Taken(q)' = Taken(q)
      BY <1>3, <2>1 DEF Taken, Own
    <2> QED
      BY <1>3, <2>2 DEF HistoryInv, HoldsLast
  <1>8. OwnHistory'
    <2> SUFFICES ASSUME NEW q \in Live, mirror[q].tx # 0
                 PROVE  ledger'[mirror[q].tx] = ledger[mirror[q].tx]
      BY <1>3 DEF HistoryInv, OwnHistory, OnItsSides, Source
    <2> QED
      BY <1>1, <1>2, TypeParts
  <1> QED
    BY <1>1, <1>4, <1>5, <1>6, <1>7, <1>8 DEF HistoryInv

(* Steps that leave ledger, dispatch and mirrors alone.                    *)
LEMMA HistoryQuiet ==
    ASSUME HistoryInv, V2TypeOK', UNCHANGED <<ledger, received, todo, mirror>>
    PROVE  HistoryInv'
  <1>1. EventsFit' /\ DispatchFits' /\ SinceFits'
    BY DEF HistoryInv, EventsFit, DispatchFits, SinceFits, Live
  <1>2. HoldsLast'
    BY DEF HistoryInv, HoldsLast, Taken, Own, Live
  <1>3. OwnHistory'
    BY DEF HistoryInv, OwnHistory, OnItsSides, Source, Live
  <1> QED
    BY <1>1, <1>2, <1>3 DEF HistoryInv

(* Pools come and go: a new one starts with nothing received.              *)
LEMMA HistoryInsert ==
    ASSUME HistoryInv, NEW p \in Pool, Insert(p) PROVE HistoryInv'
  <1>1. V2TypeOK /\ V2TypeOK'
    BY TypesInsert DEF HistoryInv
  <1>2. /\ Live' = Live \cup {p}
        /\ mirror'[p].tx = 0 /\ mirror'[p].since = received[Emitter[p]]
        /\ \A q \in Live : q # p => mirror'[q] = mirror[q]
    BY <1>1, InsertEffect
  <1>3. UNCHANGED <<chain, ledger, received>> /\ todo' = Without(p)
    BY DEF Insert, chainVars
  <1>4. \A i, q : <<i, q>> \in todo' <=> <<i, q>> \in todo /\ q # p
    BY <1>3 DEF Without
  <1>5. EventsFit'
    BY <1>3 DEF HistoryInv, EventsFit
  <1>6. DispatchFits'
    BY <1>2, <1>3, <1>4 DEF HistoryInv, DispatchFits
  <1>7. received[Emitter[p]] \in Nat
    BY <1>1, ReceivedType
  <1>8. SinceFits'
    BY <1>2, <1>3, <1>7 DEF HistoryInv, SinceFits
  <1>9. HoldsLast'
    <2> SUFFICES ASSUME NEW q \in Live' PROVE IsLast(mirror'[q].tx, Taken(q)')
      BY DEF HoldsLast
    <2>1. CASE q = p
      <3>1. Taken(q)' = {}
        BY <1>2, <1>3, <1>7, <2>1 DEF Taken
      <3> QED
        BY <1>2, <2>1, <3>1 DEF IsLast
    <2>2. CASE q # p
      <3>1. Taken(q)' = Taken(q)
        BY <1>2, <1>3, <1>4, <2>2 DEF Taken, Own
      <3> QED
        BY <1>2, <2>2, <3>1 DEF HistoryInv, HoldsLast
    <2> QED
      BY <2>1, <2>2
  <1>10. OwnHistory'
    BY <1>2, <1>3 DEF HistoryInv, OwnHistory, OnItsSides, Source
  <1> QED
    BY <1>1, <1>5, <1>6, <1>8, <1>9, <1>10 DEF HistoryInv

(* A removed pool has no history.                                          *)
LEMMA HistoryRemove ==
    ASSUME HistoryInv, NEW p \in Pool, Remove(p) PROVE HistoryInv'
  <1>1. V2TypeOK /\ V2TypeOK'
    BY TypesRemove DEF HistoryInv
  <1>2. Live' = Live \ {p} /\ \A q \in Live' : mirror'[q] = mirror[q]
    BY <1>1, RemoveEffect
  <1>3. UNCHANGED <<chain, ledger, received>> /\ todo' = Without(p)
    BY DEF Remove, chainVars
  <1>4. \A i, q : <<i, q>> \in todo' <=> <<i, q>> \in todo /\ q # p
    BY <1>3 DEF Without
  <1>5. EventsFit' /\ DispatchFits' /\ SinceFits'
    BY <1>2, <1>3, <1>4 DEF HistoryInv, EventsFit, DispatchFits, SinceFits
  <1>6. HoldsLast'
    <2> SUFFICES ASSUME NEW q \in Live' PROVE IsLast(mirror'[q].tx, Taken(q)')
      BY DEF HoldsLast
    <2>1. Taken(q)' = Taken(q)
      BY <1>2, <1>3, <1>4 DEF Taken, Own
    <2> QED
      BY <1>2, <2>1 DEF HistoryInv, HoldsLast
  <1>7. OwnHistory'
    BY <1>2, <1>3 DEF HistoryInv, OwnHistory, OnItsSides, Source
  <1> QED
    BY <1>1, <1>5, <1>6, <1>7 DEF HistoryInv

(* An event is received: the pool that announced it is among the           *)
(* candidates, an xyk pool only if it emits from that contract.            *)
LEMMA HistoryReceive ==
    ASSUME HistoryInv, XykUncontended, NEW c \in Contract, Receive(c) PROVE HistoryInv'
  <1>1. V2TypeOK /\ V2TypeOK' /\ Len(ledger) \in Nat
    BY TypesReceive, TypeParts DEF HistoryInv
  <1>2. todo = {} /\ UNCHANGED <<chain, ledger, held, mirror>> /\ Live' = Live
    BY <1>1, ReceiveEffect DEF Live
  <1>3. PICK i \in 1 .. Len(ledger) :
          /\ i > received[c] /\ Emitter[ledger[i].pool] = c
          /\ \A j \in received[c] + 1 .. i - 1 : Emitter[ledger[j].pool] # c
          /\ received' = [received EXCEPT ![c] = i]
          /\ todo' = {i} \X Candidates(c)
    BY <1>1, ReceiveEffect
  <1>4. /\ received[c] \in Nat /\ received'[c] = i
        /\ \A d \in Contract : d # c => received'[d] = received[d]
    BY <1>1, <1>3 DEF V2TypeOK
  <1>5. \A q \in Live : q \in Pool /\ Emitter[q] \in Contract /\ received[Emitter[q]] \in Nat
    BY <1>1, TypeParts, EmitterType, ReceivedType
  <1>6. \A j, q : <<j, q>> \in todo' <=> j = i /\ q \in Candidates(c)
    BY <1>3
  <1>7. \A q \in Live : Kind[q] = "xyk" /\ q \in Candidates(c) => Emitter[q] = c
    BY <1>1 DEF V2TypeOK, XykUncontended, Candidates
  <1>8. \A q \in Live : mirror[q].since \in Nat /\ mirror[q].since <= received[Emitter[q]]
    BY <1>1, TypeParts DEF HistoryInv, SinceFits
  <1>9. EventsFit'
    BY <1>2 DEF HistoryInv, EventsFit
  <1>10. DispatchFits'
    <2>1. ASSUME NEW q \in Live, q \in Candidates(c)
          PROVE  /\ Kind[q] = "xyk" => Emitter[ledger[i].pool] = Emitter[q]
                 /\ ledger[i].pool = q => i = received'[Emitter[q]] /\ i > mirror[q].since
      BY <1>3, <1>4, <1>5, <1>7, <1>8, <2>1
    <2> QED
      BY <1>2, <1>6, <2>1 DEF DispatchFits
  <1>11. SinceFits'
    BY <1>2, <1>3, <1>4, <1>5, <1>8 DEF SinceFits
  <1>12. HoldsLast'
    <2> SUFFICES ASSUME NEW q \in Live PROVE IsLast(mirror[q].tx, Taken(q)')
      BY <1>2 DEF HoldsLast
    <2>1. CASE Emitter[q] # c
      <3>1. received'[Emitter[q]] = received[Emitter[q]] /\ ledger[i].pool # q
        BY <1>3, <1>4, <1>5, <2>1
      <3>2. Taken(q)' = Taken(q)
        BY <1>2, <1>6, <3>1 DEF Taken, Own
      <3> QED
        BY <3>2 DEF HistoryInv, HoldsLast
    <2>2. CASE Emitter[q] = c
      <3>1. received'[Emitter[q]] = i /\ q \in Candidates(c)
        BY <1>4, <2>2 DEF Candidates
      <3>2. <<i, q>> \in todo'
        BY <1>6, <3>1
      <3>3. \A j \in received[c] + 1 .. i - 1 : ledger[j].pool # q
        BY <1>3, <2>2
      <3>4. \A j \in Taken(q)' : j \in Taken(q)
        <4> SUFFICES ASSUME NEW j \in Taken(q)' PROVE j \in Taken(q)
          OBVIOUS
        <4>1. j \in mirror[q].since + 1 .. i /\ ledger[j].pool = q /\ ledger[j].act # "liquidity" /\ j # i
          BY <1>2, <3>1, <3>2 DEF Taken, Own
        <4>2. j \in mirror[q].since + 1 .. received[c]
          BY <1>4, <1>8, <3>3, <4>1
        <4> QED
          BY <1>2, <2>2, <4>1, <4>2 DEF Taken, Own
      <3>5. \A j \in Taken(q) : j \in Taken(q)'
        <4> SUFFICES ASSUME NEW j \in Taken(q) PROVE j \in Taken(q)'
          OBVIOUS
        <4>1. j \in mirror[q].since + 1 .. received[c] /\ Own(q, j)
          BY <2>2 DEF Taken
        <4>2. j \in mirror[q].since + 1 .. i /\ j # i
          BY <1>3, <1>4, <1>8, <4>1
        <4> QED
          BY <1>2, <1>6, <3>1, <4>1, <4>2 DEF Taken, Own
      <3>6. Taken(q)' = Taken(q)
        BY <3>4, <3>5
      <3> QED
        BY <3>6 DEF HistoryInv, HoldsLast
    <2> QED
      BY <2>1, <2>2
  <1>13. OwnHistory'
    BY <1>2 DEF HistoryInv, OwnHistory, OnItsSides, Source
  <1> QED
    BY <1>1, <1>9, <1>10, <1>11, <1>12, <1>13 DEF HistoryInv

(* A handler runs: it takes the event if and only if its pool announced    *)
(* it, and then it is the last one received.                               *)
LEMMA HistoryApplyTo ==
    ASSUME HistoryInv, NEW p \in Pool, ApplyTo(p) PROVE HistoryInv'
  <1>1. V2TypeOK /\ V2TypeOK'
    BY TypesApplyTo DEF HistoryInv
  <1>2. /\ UNCHANGED <<chain, ledger, received>> /\ todo' = Without(p)
        /\ p \in Live /\ Live' = Live
        /\ \A q \in Live : q # p => mirror'[q] = mirror[q]
    BY <1>1, ApplyToEffect
  <1>3. PICK i \in 1 .. Len(ledger) : <<i, p>> \in todo /\ mirror'[p] = ApplyEvent(p, i)
    BY <1>1, ApplyToEffect
  <1>4. \A j, q : <<j, q>> \in todo' <=> <<j, q>> \in todo /\ q # p
    BY <1>2 DEF Without
  <1>5. \A j \in 1 .. Len(ledger) : <<j, p>> \in todo => j = i
    BY <1>2, <1>3 DEF HistoryInv, DispatchFits
  <1>6. mirror'[p].since = mirror[p].since
    BY <1>1, <1>2, <1>3, ApplyLemma
  <1>7. Takes(p, ledger[i]) <=> Own(p, i)
    <2>1. /\ ledger[i].pool \in Pool /\ ledger[i].act \in {"swap", "balances", "liquidity"}
      BY <1>1, TypeParts DEF Event
    <2>2. ledger[i].act = "balances" <=> Kind[ledger[i].pool] = "xyk"
      BY DEF HistoryInv, EventsFit
    <2>3. Kind[p] = "xyk" => Emitter[ledger[i].pool] = Emitter[p]
      BY <1>2, <1>3 DEF HistoryInv, DispatchFits
    <2> QED
      BY <2>1, <2>2, <2>3, SharingAssumption DEF Takes, OwnSwap, Own
  <1>8. EventsFit' /\ SinceFits'
    BY <1>2, <1>6 DEF HistoryInv, EventsFit, SinceFits
  <1>9. DispatchFits'
    BY <1>2, <1>4, <1>6 DEF HistoryInv, DispatchFits
  <1>10. HoldsLast'
    <2> SUFFICES ASSUME NEW q \in Live PROVE IsLast(mirror'[q].tx, Taken(q)')
      BY <1>2 DEF HoldsLast
    <2>1. CASE q # p
      <3>1. Taken(q)' = Taken(q)
        BY <1>2, <1>4, <2>1 DEF Taken, Own
      <3> QED
        BY <1>2, <2>1, <3>1 DEF HistoryInv, HoldsLast
    <2>2. CASE q = p /\ ~Own(p, i)
      <3>1. mirror'[q] = mirror[q]
        BY <1>1, <1>2, <1>3, <1>7, <2>2, ApplyLemma
      <3>2. received[Emitter[p]] \in 0 .. Len(ledger) /\ mirror[p].since \in Nat
        BY <1>1, <1>2, TypeParts, ReceivedType
      <3>3. Taken(q)' = Taken(q)
        BY <1>2, <1>4, <1>5, <2>2, <3>1, <3>2 DEF Taken, Own
      <3> QED
        BY <3>1, <3>3 DEF HistoryInv, HoldsLast
    <2>3. CASE q = p /\ Own(p, i)
      <3>1. mirror'[q].tx = i
        BY <1>1, <1>2, <1>3, <1>7, <2>3, ApplyLemma
      <3>2. i = received[Emitter[p]] /\ i > mirror[p].since
        BY <1>2, <1>3, <2>3 DEF HistoryInv, DispatchFits, Own
      <3>3. mirror[p].since \in Nat
        BY <1>1, <1>2, TypeParts
      <3>4. i \in Taken(q)'
        BY <1>2, <1>4, <1>6, <2>3, <3>2, <3>3 DEF Taken, Own
      <3>5. \A j \in Taken(q)' : j <= i
        BY <1>2, <1>6, <2>3, <3>2, <3>3 DEF Taken
      <3> QED
        BY <3>1, <3>4, <3>5 DEF IsLast
    <2> QED
      BY <2>1, <2>2, <2>3
  <1>11. OwnHistory'
    <2>1. ASSUME Own(p, i)
          PROVE  LET m == mirror'[p]
                 IN  /\ m.tx = i
                     /\ KeepsSides(p) => m.bal = Turned(p, ledger[i].bal)
                     /\ Kind[p] = "arkadiko" => m.on = ledger[i].on
      <3>1. Turned(p, ledger[i].bal) = ledger[i].bal \/ p \in Reversed
        BY <1>1, TypeParts, TurnLemma
      <3>2. /\ mirror'[p].tx = i
            /\ mirror'[p].bal = IF Kind[p] = "velar" THEN Turned(p, ledger[i].bal) ELSE ledger[i].bal
            /\ Kind[p] = "arkadiko" => mirror'[p].on = ledger[i].on
        BY <1>1, <1>2, <1>3, <1>7, <2>1, ApplyLemma
      <3> QED
        BY <3>1, <3>2 DEF KeepsSides
    <2>2. ASSUME ~Own(p, i) PROVE mirror'[p] = mirror[p]
      BY <1>1, <1>2, <1>3, <1>7, <2>2, ApplyLemma
    <2> QED
      BY <1>2, <2>1, <2>2 DEF HistoryInv, OwnHistory, OnItsSides, Source, Own
  <1> QED
    BY <1>1, <1>8, <1>9, <1>10, <1>11 DEF HistoryInv

(* Every step keeps the histories.                                         *)
LEMMA HistoryStep == XykUncontended => (HistoryInv /\ [Next]_vars => HistoryInv')
  <1> SUFFICES ASSUME XykUncontended, HistoryInv, [Next]_vars PROVE HistoryInv'
    OBVIOUS
  <1>1. V2TypeOK /\ V2TypeOK'
    BY TypesStep DEF HistoryInv
  <1>2. CASE ChainStep
    <2>1. ASSUME NEW p \in Pool, Switches(p), UNCHANGED taskVars PROVE HistoryInv'
      BY <1>1, <2>1, HistoryQuiet DEF Switches, taskVars
    <2> QED
      BY <1>1, <1>2, <2>1, ChainEffect, HistoryAnnounce
  <1>3. ASSUME NEW p \in Pool, Fetch(p) \/ Lock(p) \/ Unlock(p) PROVE HistoryInv'
    BY <1>1, <1>3, HistoryQuiet DEF Fetch, Lock, Unlock, chainVars
  <1>4. ASSUME NEW p \in Pool, Insert(p) \/ Remove(p) \/ ApplyTo(p) PROVE HistoryInv'
    BY <1>4, HistoryInsert, HistoryRemove, HistoryApplyTo
  <1>5. ASSUME NEW c \in Contract, Receive(c) PROVE HistoryInv'
    BY <1>5, HistoryReceive
  <1>6. CASE UNCHANGED vars
    BY <1>1, <1>6, HistoryQuiet DEF vars, chainVars, taskVars
  <1> QED
    BY <1>2, <1>3, <1>4, <1>5, <1>6 DEF Next

(* While xyk pools are not contended, a mirror's last_tx_id and reserves   *)
(* come from one event that its pool announced, whatever else its contract *)
(* emits and whichever other locks are held.                               *)
THEOREM OwnHistoryCorrect == XykUncontended => (Spec => []OwnHistory)
  <1> SUFFICES ASSUME XykUncontended PROVE Spec => []OwnHistory
    OBVIOUS
  <1>1. HistoryInv /\ [Next]_vars => HistoryInv'
    BY HistoryStep
  <1>2. HistoryInv => OwnHistory
    BY DEF HistoryInv
  <1> QED
    BY <1>1, <1>2, HistoryInit, PTL DEF Spec

(* Under the same condition nothing received since a pool was inserted is  *)
(* missing from its mirror once dispatch has come past it.                 *)
THEOREM KeptUpCorrect == XykUncontended => (Spec => []KeptUp)
  <1> SUFFICES ASSUME XykUncontended PROVE Spec => []KeptUp
    OBVIOUS
  <1>1. HistoryInv /\ [Next]_vars => HistoryInv'
    BY HistoryStep
  <1>2. HistoryInv => KeptUp
    <2> SUFFICES ASSUME HistoryInv, NEW p \in Live, Without(p) = todo
                 PROVE  LET own == {i \in mirror[p].since + 1 .. received[Emitter[p]] :
                                       ledger[i].pool = p /\ ledger[i].act # "liquidity"}
                        IN  IF own = {} THEN mirror[p].tx = 0
                            ELSE mirror[p].tx \in own /\ \A i \in own : i <= mirror[p].tx
      BY DEF KeptUp
    <2>1. \A i : <<i, p>> \notin todo
      BY WithoutLemma
    <2>2. IsLast(mirror[p].tx, Taken(p))
      BY DEF HistoryInv, HoldsLast
    <2>3. Taken(p) = {i \in mirror[p].since + 1 .. received[Emitter[p]] :
                         ledger[i].pool = p /\ ledger[i].act # "liquidity"}
      BY <2>1 DEF Taken, Own
    <2> QED
      BY <2>2, <2>3 DEF IsLast
  <1> QED
    BY <1>1, <1>2, HistoryInit, PTL DEF Spec

-----------------------------------------------------------------------------
(* Quotes.  The chain has the reserves of the pool's last event, and so    *)
(* has a record fetched when nothing has been announced since.             *)
Quiet(p, n) == \A i \in n + 1 .. Len(ledger) : ledger[i].pool # p

ChainFits ==
    \A p \in Pool : \A i \in 1 .. Len(ledger) :
        ledger[i].pool = p /\ Quiet(p, i) => chain[p].bal = ledger[i].bal

FetchedFit ==
    \A p \in DOMAIN fetched :
        /\ fetched[p].at <= Len(ledger)
        /\ Quiet(p, fetched[p].at) => fetched[p].bal = Turned(p, chain[p].bal)

SnapshotsFit ==
    \A p \in Live :
        /\ mirror[p].at <= Len(ledger)
        /\ mirror[p].tx = 0 /\ Quiet(p, mirror[p].at) => mirror[p].bal = Turned(p, chain[p].bal)

SnapshotInv == V2TypeOK /\ ChainFits /\ FetchedFit /\ SnapshotsFit

(* A fetched pool is a pool, read at a place of the ledger.                *)
LEMMA FetchedType ==
    ASSUME V2TypeOK, NEW p \in DOMAIN fetched
    PROVE  p \in Pool /\ fetched[p].at \in Nat
BY DEF V2TypeOK

(* The initial pools are snapshots of the start.                           *)
LEMMA SnapshotInit == Init => SnapshotInv
  <1> SUFFICES ASSUME Init PROVE SnapshotInv
    OBVIOUS
  <1>1. V2TypeOK
    BY TypesInit
  <1>2. Len(ledger) = 0 /\ Live = InitialPools /\ DOMAIN fetched = {}
    BY EmptySeq DEF Init, Live
  <1>3. \A p \in Live : mirror[p].at = 0 /\ mirror[p].bal = Turned(p, chain[p].bal)
    BY <1>1, <1>2, TypeParts DEF Init
  <1> QED
    BY <1>1, <1>2, <1>3 DEF SnapshotInv, ChainFits, FetchedFit, SnapshotsFit

(* An announcement makes older snapshots of its pool old.                  *)
LEMMA SnapshotAnnounce ==
    ASSUME SnapshotInv, NEW p \in Pool, NEW bal \in Balances, Announces(p, bal), UNCHANGED taskVars
    PROVE  SnapshotInv'
  <1> DEFINE n == Len(ledger)
  <1>1. V2TypeOK /\ V2TypeOK' /\ n \in Nat
    BY TypesAnnounce, TypeParts DEF SnapshotInv
  <1>2. /\ Len(ledger') = n + 1 /\ \A i \in 1 .. n : ledger'[i] = ledger[i]
        /\ ledger'[n + 1].pool = p /\ ledger'[n + 1].bal = bal
        /\ chain'[p].bal = bal /\ \A q \in Pool : q # p => chain'[q] = chain[q]
    BY <1>1, AnnouncedLemma
  <1>3. UNCHANGED <<fetched, mirror>> /\ Live' = Live
    BY DEF taskVars, Live
  <1>4. ASSUME NEW q \in Pool, NEW i \in 0 .. n, Quiet(q, i)'
        PROVE  q # p /\ Quiet(q, i)
    <2>1. q # p
      BY <1>1, <1>2, <1>4 DEF Quiet
    <2>2. \A j \in i + 1 .. n : ledger[j].pool # q
      <3> SUFFICES ASSUME NEW j \in i + 1 .. n PROVE ledger[j].pool # q
        OBVIOUS
      <3>1. j \in i + 1 .. n + 1 /\ j \in 1 .. n
        BY <1>1
      <3> QED
        BY <1>2, <1>4, <3>1 DEF Quiet
    <2> QED
      BY <2>1, <2>2 DEF Quiet
  <1>5. ChainFits'
    <2> SUFFICES ASSUME NEW q \in Pool, NEW i \in 1 .. n + 1, ledger'[i].pool = q, Quiet(q, i)'
                 PROVE  chain'[q].bal = ledger'[i].bal
      BY <1>2 DEF ChainFits
    <2>1. CASE i = n + 1
      BY <1>2, <2>1
    <2>2. CASE i # n + 1
      <3>1. i \in 1 .. n /\ i \in 0 .. n
        BY <1>1, <2>2
      <3> QED
        BY <1>2, <1>4, <3>1 DEF SnapshotInv, ChainFits
    <2> QED
      BY <2>1, <2>2
  <1>6. FetchedFit'
    <2> SUFFICES ASSUME NEW q \in DOMAIN fetched
                 PROVE  /\ fetched[q].at <= n + 1
                        /\ Quiet(q, fetched[q].at)' => fetched[q].bal = Turned(q, chain'[q].bal)
      BY <1>2, <1>3 DEF FetchedFit, Turned
    <2>1. q \in Pool /\ fetched[q].at \in 0 .. n
      BY <1>1, FetchedType DEF SnapshotInv, FetchedFit
    <2>2. Quiet(q, fetched[q].at)' => Quiet(q, fetched[q].at) /\ chain'[q] = chain[q]
      BY <1>2, <1>3, <1>4, <2>1 DEF Quiet
    <2> QED
      BY <1>1, <2>1, <2>2 DEF SnapshotInv, FetchedFit
  <1>7. SnapshotsFit'
    <2> SUFFICES ASSUME NEW q \in Live
                 PROVE  /\ mirror[q].at <= n + 1
                        /\ mirror[q].tx = 0 /\ Quiet(q, mirror[q].at)' =>
                              mirror[q].bal = Turned(q, chain'[q].bal)
      BY <1>2, <1>3 DEF SnapshotsFit, Turned
    <2>1. q \in Pool /\ mirror[q].at \in 0 .. n
      BY <1>1, TypeParts DEF SnapshotInv, SnapshotsFit
    <2>2. Quiet(q, mirror[q].at)' => Quiet(q, mirror[q].at) /\ chain'[q] = chain[q]
      BY <1>2, <1>3, <1>4, <2>1 DEF Quiet
    <2> QED
      BY <1>1, <2>1, <2>2 DEF SnapshotInv, SnapshotsFit
  <1> QED
    BY <1>1, <1>5, <1>6, <1>7 DEF SnapshotInv

(* Only the reserves matter here, not the status.                          *)
LEMMA SnapshotQuiet ==
    ASSUME SnapshotInv, V2TypeOK', UNCHANGED <<ledger, fetched, mirror>>,
           \A p \in Pool : chain'[p].bal = chain[p].bal
    PROVE  SnapshotInv'
  <1>1. Live' = Live /\ Live \subseteq Pool
    BY TypeParts DEF SnapshotInv, Live
  <1>2. ChainFits'
    BY DEF SnapshotInv, ChainFits, Quiet
  <1>3. FetchedFit'
    BY FetchedType DEF SnapshotInv, FetchedFit, Quiet, Turned
  <1>4. SnapshotsFit'
    BY <1>1 DEF SnapshotInv, SnapshotsFit, Quiet, Turned
  <1> QED
    BY <1>2, <1>3, <1>4 DEF SnapshotInv

(* A fetch is of the present.                                              *)
LEMMA SnapshotFetch == ASSUME SnapshotInv, NEW p \in Pool, Fetch(p) PROVE SnapshotInv'
  <1>1. V2TypeOK /\ V2TypeOK' /\ Len(ledger) \in Nat
    BY TypesFetch, TypeParts DEF SnapshotInv
  <1>2. UNCHANGED <<chain, ledger, mirror>> /\ Live' = Live
    BY DEF Fetch, chainVars, Live
  <1>3. /\ fetched'[p].bal = Turned(p, chain[p].bal) /\ fetched'[p].at = Len(ledger)
        /\ DOMAIN fetched' = DOMAIN fetched \cup {p}
        /\ \A q \in DOMAIN fetched : q # p => fetched'[q] = fetched[q]
    BY <1>1, FetchEffect
  <1>4. FetchedFit'
    BY <1>1, <1>2, <1>3 DEF SnapshotInv, FetchedFit, Quiet, Turned
  <1>5. ChainFits' /\ SnapshotsFit'
    BY <1>2 DEF SnapshotInv, ChainFits, SnapshotsFit, Quiet, Turned
  <1> QED
    BY <1>1, <1>4, <1>5 DEF SnapshotInv

(* An insert takes the snapshot with its place.                            *)
LEMMA SnapshotInsert == ASSUME SnapshotInv, NEW p \in Pool, Insert(p) PROVE SnapshotInv'
  <1>1. V2TypeOK /\ V2TypeOK'
    BY TypesInsert DEF SnapshotInv
  <1>2. UNCHANGED <<chain, ledger>>
    BY DEF Insert, chainVars
  <1>3. /\ Live' = Live \cup {p} /\ p \in DOMAIN fetched
        /\ mirror'[p].bal = fetched[p].bal /\ mirror'[p].at = fetched[p].at
        /\ \A q \in Live : q # p => mirror'[q] = mirror[q]
        /\ DOMAIN fetched' = DOMAIN fetched \ {p}
        /\ \A q \in DOMAIN fetched' : fetched'[q] = fetched[q]
    BY <1>1, InsertEffect
  <1>4. FetchedFit'
    BY <1>2, <1>3 DEF SnapshotInv, FetchedFit, Quiet, Turned
  <1>5. SnapshotsFit'
    <2> SUFFICES ASSUME NEW q \in Live'
                 PROVE  /\ mirror'[q].at <= Len(ledger)
                        /\ mirror'[q].tx = 0 /\ Quiet(q, mirror'[q].at) =>
                              mirror'[q].bal = Turned(q, chain[q].bal)
      BY <1>2 DEF SnapshotsFit, Quiet, Turned
    <2>1. CASE q = p
      BY <1>3, <2>1 DEF SnapshotInv, FetchedFit
    <2>2. CASE q # p
      BY <1>3, <2>2 DEF SnapshotInv, SnapshotsFit
    <2> QED
      BY <2>1, <2>2
  <1>6. ChainFits'
    BY <1>2 DEF SnapshotInv, ChainFits, Quiet
  <1> QED
    BY <1>1, <1>4, <1>5, <1>6 DEF SnapshotInv

(* A removed pool has no snapshot.                                         *)
LEMMA SnapshotRemove == ASSUME SnapshotInv, NEW p \in Pool, Remove(p) PROVE SnapshotInv'
  <1>1. V2TypeOK /\ V2TypeOK'
    BY TypesRemove DEF SnapshotInv
  <1>2. UNCHANGED <<chain, ledger, fetched>>
    BY DEF Remove, chainVars
  <1>3. Live' = Live \ {p} /\ \A q \in Live' : mirror'[q] = mirror[q]
    BY <1>1, RemoveEffect
  <1>4. ChainFits' /\ FetchedFit'
    BY <1>2 DEF SnapshotInv, ChainFits, FetchedFit, Quiet, Turned
  <1>5. SnapshotsFit'
    BY <1>2, <1>3 DEF SnapshotInv, SnapshotsFit, Quiet, Turned
  <1> QED
    BY <1>1, <1>4, <1>5 DEF SnapshotInv

(* A handler that takes an event leaves the snapshot behind (tx is not 0). *)
LEMMA SnapshotApplyTo == ASSUME SnapshotInv, NEW p \in Pool, ApplyTo(p) PROVE SnapshotInv'
  <1>1. V2TypeOK /\ V2TypeOK'
    BY TypesApplyTo DEF SnapshotInv
  <1>2. /\ UNCHANGED <<chain, ledger, fetched>> /\ p \in Live /\ Live' = Live
        /\ \A q \in Live : q # p => mirror'[q] = mirror[q]
    BY <1>1, ApplyToEffect
  <1>3. PICK i \in 1 .. Len(ledger) : mirror'[p] = ApplyEvent(p, i)
    BY <1>1, ApplyToEffect
  <1>4. mirror'[p].at = mirror[p].at /\ (mirror'[p].tx # 0 \/ mirror'[p] = mirror[p])
    BY <1>1, <1>2, <1>3, ApplyLemma
  <1>5. ChainFits' /\ FetchedFit'
    BY <1>2 DEF SnapshotInv, ChainFits, FetchedFit, Quiet, Turned
  <1>6. SnapshotsFit'
    BY <1>2, <1>4 DEF SnapshotInv, SnapshotsFit, Quiet, Turned
  <1> QED
    BY <1>1, <1>5, <1>6 DEF SnapshotInv

(* Every step keeps the snapshots.                                         *)
LEMMA SnapshotStep == SnapshotInv /\ [Next]_vars => SnapshotInv'
  <1> SUFFICES ASSUME SnapshotInv, [Next]_vars PROVE SnapshotInv'
    OBVIOUS
  <1>1. V2TypeOK /\ V2TypeOK'
    BY TypesStep DEF SnapshotInv
  <1>2. CASE ChainStep
    <2>1. ASSUME NEW p \in Pool, Switches(p), UNCHANGED taskVars PROVE SnapshotInv'
      <3>1. \A q \in Pool : chain'[q].bal = chain[q].bal
        BY <1>1, <2>1 DEF Switches, V2TypeOK
      <3> QED
        BY <1>1, <2>1, <3>1, SnapshotQuiet DEF Switches, taskVars
    <2> QED
      BY <1>1, <1>2, <2>1, ChainEffect, SnapshotAnnounce
  <1>3. ASSUME NEW p \in Pool, Lock(p) \/ Unlock(p) PROVE SnapshotInv'
    BY <1>1, <1>3, SnapshotQuiet DEF Lock, Unlock, chainVars
  <1>4. ASSUME NEW p \in Pool, Fetch(p) \/ Insert(p) \/ Remove(p) \/ ApplyTo(p) PROVE SnapshotInv'
    BY <1>4, SnapshotFetch, SnapshotInsert, SnapshotRemove, SnapshotApplyTo
  <1>5. ASSUME NEW c \in Contract, Receive(c) PROVE SnapshotInv'
    BY <1>1, <1>5, ReceiveEffect, SnapshotQuiet
  <1>6. CASE UNCHANGED vars
    BY <1>1, <1>6, SnapshotQuiet DEF vars, chainVars, taskVars
  <1> QED
    BY <1>2, <1>3, <1>4, <1>5, <1>6 DEF Next

(* A mirror that is up to date has the chain's reserves, turned.           *)
LEMMA UpToDateLemma ==
    ASSUME SnapshotInv, OwnHistory, NEW p \in Live, UpToDate(p), mirror[p].tx # 0 => KeepsSides(p)
    PROVE  mirror[p].bal = Turned(p, chain[p].bal)
  <1>1. /\ p \in Pool /\ mirror[p].tx \in 0 .. Len(ledger) /\ mirror[p].at \in Nat
        /\ Len(ledger) \in Nat
    BY TypeParts DEF SnapshotInv
  <1>2. CASE mirror[p].tx = 0
    <2>1. Quiet(p, mirror[p].at)
      BY <1>1, <1>2 DEF UpToDate, Quiet
    <2> QED
      BY <1>2, <2>1 DEF SnapshotInv, SnapshotsFit
  <1>3. CASE mirror[p].tx # 0
    <2>1. Source(p).pool = p /\ mirror[p].bal = Turned(p, Source(p).bal)
      BY <1>3 DEF OwnHistory, OnItsSides
    <2>2. Quiet(p, mirror[p].tx)
      BY <1>1, <1>3 DEF UpToDate, Quiet
    <2>3. chain[p].bal = Source(p).bal
      BY <1>1, <1>3, <2>1, <2>2 DEF SnapshotInv, ChainFits, Source
    <2> QED
      BY <2>1, <2>3
  <1> QED
    BY <1>2, <1>3

(* While xyk pools are not contended, an up-to-date mirror quotes for      *)
(* either token, in the order of its caller, what the contract pays: the   *)
(* fee is turned with the reserves.                                        *)
THEOREM QuotesCorrect == XykUncontended => (Spec => []QuotesAsChain)
  <1> SUFFICES ASSUME XykUncontended PROVE Spec => []QuotesAsChain
    OBVIOUS
  <1>1. SnapshotInv /\ OwnHistory => QuotesAsChain
    <2> SUFFICES ASSUME SnapshotInv, OwnHistory, NEW p \in Live, UpToDate(p),
                        mirror[p].tx # 0 => KeepsSides(p),
                        Switched(p) => mirror[p].on /\ chain[p].on,
                        NEW s \in Side, NEW dx \in Asked
                 PROVE  Quote(p, s, dx) = Pays(p, Turn(p, s), dx)
      BY DEF QuotesAsChain
    <2>1. mirror[p].bal = Turned(p, chain[p].bal)
      BY UpToDateLemma
    <2>2. Turn(p, Other(s)) = Other(Turn(p, s))
      BY DEF Turn
    <2>3. /\ mirror[p].bal[s] = chain[p].bal[Turn(p, s)]
          /\ mirror[p].bal[Other(s)] = chain[p].bal[Other(Turn(p, s))]
      BY <2>1, <2>2, SideLemma DEF Turned
    <2> QED
      BY <2>3 DEF Quote, Pays, FeeSide
  <1>2. Spec => []OwnHistory
    BY OwnHistoryCorrect
  <1> QED
    BY <1>1, <1>2, SnapshotInit, SnapshotStep, PTL DEF Spec

=============================================================================
