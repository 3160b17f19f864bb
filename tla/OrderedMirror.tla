--------------------------- MODULE OrderedMirror ---------------------------
(***************************************************************************)
(* What the collector promises a consumer of the mirrors that exist from   *)
(* the start, without pollers, queue or dedup: the events of each contract *)
(* that writes such a mirror reach it in chain order, none twice, and none *)
(* that happened after the bootstrap snapshot is skipped.  Events the      *)
(* snapshot already contains may be replayed.  Of the other contracts the  *)
(* events may come in any order (the block walker sends some of a contract *)
(* before it is followed, and the older ones after).                       *)
(***************************************************************************)
EXTENDS ChainEvents

VARIABLES
    tip,        \* tip[c]: events contract c has emitted
    snap,       \* snap[c]: events the bootstrap snapshot contains
    applied,    \* applied[c]: position of the last event of c dispatched
    mirror      \* mirror[x]: position of the event that wrote cell x last

mirrorVars == <<tip, snap, applied, mirror>>

MirrorInit ==
    /\ tip \in [Contract -> Heights] /\ snap \in [Contract -> Heights]
    /\ \A c \in Contract : snap[c] <= tip[c] /\ tip[c] <= Len(History[c])
    /\ applied = [c \in Contract |-> 0]
    /\ mirror \in [Cell -> Heights]
    /\ \A x \in Mirrored : IsValueAt(x, snap[Stream[x]], mirror[x])

(* A block adds events to any of the contracts.                            *)
Grow ==
    /\ tip' \in [Contract -> Heights]
    /\ \A c \in Contract : tip[c] <= tip'[c] /\ tip'[c] <= Len(History[c])
    /\ UNCHANGED <<snap, applied, mirror>>

(* The contracts that write a cell mirrored from the start.                *)
Followed == {Stream[x] : x \in Mirrored}

(* Event i of c is dispatched.  Of a followed contract, only the first     *)
(* event dispatched may leave decodable ones behind, and only ones the     *)
(* snapshot already contains.                                              *)
Apply(c, i) ==
    /\ i \in 1 .. tip[c]
    /\ c \in Followed =>
          /\ applied[c] < i
          /\ \A j \in applied[c] + 1 .. i - 1 :
                Decoded(c, j) => applied[c] = 0 /\ j <= snap[c]
    /\ applied' = [applied EXCEPT ![c] = i]
    /\ mirror' = [x \in Cell |-> IF x \in Mirrored /\ Writes(c, i, x) THEN i ELSE mirror[x]]
    /\ UNCHANGED <<tip, snap>>

MirrorNext == Grow \/ \E c \in Contract : \E i \in Positions(c) : Apply(c, i)

MirrorSpec == MirrorInit /\ [][MirrorNext]_mirrorVars

-----------------------------------------------------------------------------
MirrorTypeOK ==
    /\ tip \in [Contract -> Nat] /\ snap \in [Contract -> Nat]
    /\ applied \in [Contract -> Nat] /\ mirror \in [Cell -> Nat]
    /\ \A c \in Contract : /\ applied[c] <= tip[c] /\ snap[c] <= tip[c]
                           /\ tip[c] <= Len(History[c])

(* Once the events of the snapshot are behind it, every cell has the value *)
(* the chain had after the last dispatched event of its contract: the      *)
(* mirror is a past state of the contract, never a mixture.                *)
PrefixConsistent ==
    \A x \in Mirrored :
        LET c == Stream[x]
        IN  applied[c] >= snap[c] => IsValueAt(x, applied[c], mirror[x])

(* While the events the snapshot contains are replayed, a cell has either  *)
(* its snapshot value or the one the replay has reached.                   *)
ReplayConsistent ==
    \A x \in Mirrored :
        LET c == Stream[x]
        IN  applied[c] < snap[c] => \/ IsValueAt(x, snap[c], mirror[x])
                                    \/ IsValueAt(x, applied[c], mirror[x])
=============================================================================
