-------------------------- MODULE MCDlmmBootstrap --------------------------
(* Model-checking instance of DlmmBootstrap: two fetches that share a      *)
(* token and the factor tables, a fetch of every bin one by one, windows   *)
(* the radius of which does not fit an i32 of 3 bits ("far" overflows once *)
(* the active bin is 1, "huge" is a negative i32) and a discovery, over a  *)
(* chain of two blocks.                                                    *)
EXTENDS DlmmBootstrap, TLC

Tokens3 == "one" :> <<"stx", "usd">> @@ "two" :> <<"stx", "btc">> @@ "odd" :> <<"stx", "usd">> @@
           "far" :> <<"stx", "usd">> @@ "huge" :> <<"stx", "usd">>
Steps3 == "one" :> 1 @@ "two" :> 10 @@ "odd" :> 1 @@ "far" :> 1 @@ "huge" :> 1
Modes3 == "one" :> "Full" @@ "two" :> "Window" @@ "odd" :> "FullPerBin" @@
          "far" :> "Window" @@ "huge" :> "Window"
Radii3 == "one" :> 0 @@ "two" :> 1 @@ "odd" :> 0 @@ "far" :> 3 @@ "huge" :> 7
Parallel3 == "one" :> 8 @@ "two" :> 0 @@ "odd" :> 2 @@ "far" :> 2 @@ "huge" :> 1 @@ "discovery" :> 2

Given3 ==
    <<"decimals", "stx">> :> 6 @@ <<"decimals", "usd">> :> 6 @@ <<"decimals", "btc">> :> 8 @@
    <<"factors", 1>> :> 1 @@ <<"factors", 10>> :> 10

Amounts(x, y) == [x |-> x, y |-> y]
Two ==
    LET bins1 == (-1) :> Amounts(0, 5) @@ 0 :> Amounts(3, 4) @@ 1 :> Amounts(6, 0)
        bins2 == (-1) :> Amounts(0, 5) @@ 0 :> Amounts(8, 0) @@ 1 :> Amounts(5, 1)
        entry(form, p, on) == [form |-> form, pool |-> p, status |-> on]
    IN  <<[active |-> [p \in Pool |-> 0], bal |-> [p \in Pool |-> bins1],
           listed |-> <<entry("some", "one", TRUE), entry("malformed", "odd", TRUE)>>],
          [active |-> [p \in Pool |-> 1], bal |-> [p \in Pool |-> bins2],
           listed |-> <<entry("some", "one", FALSE), entry("some", "odd", TRUE),
                        entry("none", "two", TRUE), entry("some", "two", TRUE)>>]>>
=============================================================================
