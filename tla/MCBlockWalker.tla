--------------------------- MODULE MCBlockWalker ---------------------------
(* Model-checking instances of BlockWalker: the pool "dlmm" on its own     *)
(* contract and on the core, and a second pool "peer" on a contract and    *)
(* the core.  One transaction is called through a router, one through the  *)
(* pool contract, and one emits on both contracts.                         *)
EXTENDS BlockWalker, TLC

Ev(t, x) == [tx |-> t, cell |-> x]

Cells == {"bin", "active", "other"}
Streams == ("bin" :> "pool") @@ ("active" :> "core") @@ ("other" :> "peer")
Owners == ("bin" :> "dlmm") @@ ("active" :> "dlmm") @@ ("other" :> "peer")
Topics ==
    ("dlmm" :> ("pool" :> 2 @@ "core" :> 7 @@ "peer" :> 0)) @@
    ("peer" :> ("pool" :> 0 @@ "core" :> 7 @@ "peer" :> 2))

Chain ==
    ("pool" :> <<Ev("t1", "bin"), Ev("t4", "bin"), Ev("t6", "bin")>>) @@
    ("core" :> <<Ev("t1", "active"), Ev("t2", "none"), Ev("t3", "active"), Ev("t5", "active"),
                 Ev("t6", "active"), Ev("t7", "active")>>) @@
    ("peer" :> <<Ev("t2", "other"), Ev("t5", "other")>>)

ChainLog ==
    << <<"core", 1>>, <<"pool", 1>>, <<"core", 2>>, <<"peer", 1>>, <<"core", 3>>, <<"pool", 2>>,
       <<"core", 4>>, <<"peer", 2>>, <<"pool", 3>>, <<"core", 5>>, <<"core", 6>> >>

Txs == {"t1", "t2", "t3", "t4", "t5", "t6", "t7"}
Blocks ==
    "t1" :> 1 @@ "t2" :> 2 @@ "t3" :> 2 @@ "t4" :> 3 @@ "t5" :> 4 @@ "t6" :> 5 @@ "t7" :> 6
Calls ==
    "t1" :> "pool" @@ "t2" :> "router" @@ "t3" :> "core" @@ "t4" :> "router" @@ "t5" :> "pool" @@
    "t6" :> "pool" @@ "t7" :> "core"

(* A smaller chain for the liveness run.                                   *)
ShortChain ==
    ("pool" :> <<Ev("t3", "bin")>>) @@
    ("core" :> <<Ev("t1", "active"), Ev("t3", "active")>>) @@
    ("peer" :> <<Ev("t2", "other")>>)
ShortLog == << <<"core", 1>>, <<"core", 2>>, <<"pool", 1>>, <<"peer", 1>> >>
ShortBlocks == [t \in Txs |-> IF t = "t1" THEN 1 ELSE IF t = "t3" THEN 2 ELSE 3]

AllEvents == UNION {{<<c, i>> : i \in Positions(c)} : c \in Contract}
=============================================================================
