---------------------------- MODULE ChainEvents ----------------------------
(***************************************************************************)
(* The chain as the collector sees it: for every emitting contract the     *)
(* list of events that Hiro's /extended/v1/contract/<id>/events endpoint   *)
(* serves, oldest first here, of which the first tip[c] have happened.     *)
(*                                                                         *)
(* An event assigns an absolute value to one cell of one pool's mirror (a  *)
(* bin's balances, the active bin, a fee pair, a reserve pair ...), so a   *)
(* cell's value is abstracted to the position of the event that wrote it;  *)
(* position 0 is the value before the first event.                         *)
(***************************************************************************)
EXTENDS Naturals, Sequences

CONSTANTS
    Contract,   \* the emitting contracts (pool contracts and shared cores)
    Cell,       \* the mirrored cells of all pools
    Stream,     \* Stream[x]: the contract whose events write cell x
    Mirrored,   \* the cells of the pools that are mirrored from the start
    NoCell,     \* the cell of an event that no pool decodes or applies
    Tx,         \* transaction ids
    NoTx,       \* "no transaction": an unset watermark
    History     \* History[c]: what contract c emits, [tx, cell] records

ASSUME ChainAssumption ==
    /\ Stream \in [Cell -> Contract] /\ Mirrored \subseteq Cell
    /\ NoCell \notin Cell /\ NoTx \notin Tx
    /\ History \in [Contract -> Seq([tx : Tx, cell : Cell \cup {NoCell}])]
    /\ \A c \in Contract : \A i \in DOMAIN History[c] :
          History[c][i].cell \in Cell => Stream[History[c][i].cell] = c

Positions(c) == DOMAIN History[c]
TxAt(c, i) == History[c][i].tx

(* The event at position i of contract c writes cell x.                    *)
Writes(c, i, x) == i \in Positions(c) /\ History[c][i].cell = x

(* `decoded` is Some: the payload has an action and data, so the event is  *)
(* pushed to the queue.                                                    *)
Decoded(c, i) == History[c][i].cell # NoCell

(* v is the value cell x has on chain after the first n events of its      *)
(* contract: the position of the last of them that wrote it, 0 if none.    *)
IsValueAt(x, n, v) ==
    LET c == Stream[x]
    IN  /\ v = 0 \/ (v \in 1 .. n /\ Writes(c, v, x))
        /\ \A i \in Positions(c) : i \in (v + 1) .. n => ~Writes(c, i, x)

(* The numbers of events a contract can have emitted, and the values of    *)
(* cells.                                                                  *)
Heights == UNION {0 .. Len(History[c]) : c \in Contract}

(* A block makes whole transactions visible: the event at i is the last    *)
(* one its transaction emitted on c.                                       *)
TxBoundary(c, i) == {i, i + 1} \subseteq Positions(c) => TxAt(c, i) # TxAt(c, i + 1)
=============================================================================
