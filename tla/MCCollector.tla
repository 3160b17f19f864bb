---------------------------- MODULE MCCollector ----------------------------
(* Model-checking instances of Collector: a DLMM-like pool "dlmm" with the *)
(* cell "bin" written by its own contract and the cell "active" written by *)
(* the shared core, and a second pool "peer" on the same core.             *)
EXTENDS Collector

Ev(t, x) == [tx |-> t, cell |-> x]

Cells == {"bin", "active", "other"}
Streams == ("bin" :> "pool") @@ ("active" :> "core") @@ ("other" :> "core")
Owners == ("bin" :> "dlmm") @@ ("active" :> "dlmm") @@ ("other" :> "peer")
Topics == ("dlmm" :> ("pool" :> 2 @@ "core" :> 7)) @@ ("peer" :> ("pool" :> 0 @@ "core" :> 7))

(* One task per contract, and instances with room for duplicate pollers.   *)
OneTask == ("task1" :> "pool") @@ ("task2" :> "core")
ThreeTasks == OneTask @@ ("task3" :> "pool")

AllEvents == UNION {{<<c, i>> : i \in Positions(c)} : c \in Contract}

(* The chain of the ordering and liveness run: the core emits transactions *)
(* of one and of two events, one that no pool decodes and one of the other *)
(* pool.                                                                   *)
Mixed ==
    ("pool" :> <<Ev("p1", "bin")>>) @@
    ("core" :> <<Ev("c1", "active"), Ev("c2", "active"), Ev("c2", "other"), Ev("c3", "none")>>)

(* A longer one, with room for more than a page between two requests.      *)
LongCore ==
    ("pool" :> <<Ev("p1", "bin")>>) @@
    ("core" :> <<Ev("c1", "active"), Ev("c2", "active"), Ev("c2", "other"),
                 Ev("c3", "none"), Ev("c4", "active"), Ev("c5", "other")>>)

(* The chain of the lifecycle runs.                                        *)
Short ==
    ("pool" :> <<Ev("p1", "bin")>>) @@ ("core" :> <<Ev("c1", "other")>>)

Txs == {"p1", "c1", "c2", "c3", "c4", "c5"}
=============================================================================
