----------------------------- MODULE MCDlmmPool -----------------------------
(* A model-checking instance of DlmmPool: four bins of prices 2, 3, 4 and  *)
(* 6 to a scale of 3, fees of up to 3 in 10, and two quotes at a time.     *)
EXTENDS DlmmPool, TLC

Lowest == -1
Factors == (-1 :> 2) @@ (0 :> 3) @@ (1 :> 4) @@ (2 :> 6)

Both(x, y) == [x |-> x, y |-> y]
Flat(p, r, v) == [protocol |-> p, provider |-> r, variable |-> v]

Snapshots ==
    { [bins |-> (-1 :> Both(0, 5)) @@ (0 :> Both(4, 3)) @@ (2 :> Both(7, 0)), active |-> 0,
       fees |-> [t \in Token |-> Flat(1, 1, 0)]],
      [bins |-> <<>>, active |-> 1, fees |-> [t \in Token |-> Flat(0, 0, 0)]],
      [bins |-> (0 :> Both(1, 2)) @@ (1 :> Both(5, 1)), active |-> 1,
       fees |-> [t \in Token |-> IF t = "x" THEN Flat(0, 1, 1) ELSE Flat(0, 0, 0)]] }

BinEvent(b, x, y) == [kind |-> "bin", target |-> Absent, bin |-> b, x |-> x, y |-> y]
FeeEvent(k, t, f, s) == [kind |-> k, target |-> Self, token |-> t, first |-> f, second |-> s]

Updates ==
    { BinEvent(0, 0, 0), BinEvent(0, 6, 0), BinEvent(1, 3, 4), BinEvent(1, Absent, 2),
      [kind |-> "swap", target |-> Self, active |-> -1],
      [kind |-> "swap", target |-> Self, active |-> 1],
      [kind |-> "swap", target |-> Self, active |-> 2],
      [kind |-> "swap", target |-> "foreign", active |-> 0],
      FeeEvent("fees", "x", 2, Absent), FeeEvent("variable", "x", 19, 1),
      [kind |-> "reset", target |-> Self], [kind |-> "status", target |-> Self] }

ASSUME BalanceAssumption == Unsaturated(7)
=============================================================================
