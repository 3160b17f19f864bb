------------------------ MODULE OrderedMirror_proofs ------------------------
(***************************************************************************)
(* For every history, every snapshot and every interleaving of growth and  *)
(* dispatch: a mirror fed in the order OrderedMirror promises is a past    *)
(* state of each contract.  PrefixConsistent is not inductive alone (it    *)
(* says nothing while the snapshot's own events are replayed), so it is    *)
(* proved together with ReplayConsistent and FreshConsistent.              *)
(***************************************************************************)
EXTENDS OrderedMirror, TLAPS

(* Before the first dispatch a cell has its snapshot value.                *)
FreshConsistent ==
    \A x \in Mirrored : applied[Stream[x]] = 0 => IsValueAt(x, snap[Stream[x]], mirror[x])

Consistent == PrefixConsistent /\ ReplayConsistent /\ FreshConsistent

-----------------------------------------------------------------------------
(* A cell keeps its value over a stretch of events that do not write it.   *)
LEMMA Unwritten ==
    ASSUME NEW x \in Cell, NEW n \in Nat, NEW k \in Nat, NEW v \in Nat, n <= k,
           IsValueAt(x, n, v),
           \A j \in Positions(Stream[x]) : j \in n + 1 .. k => ~Writes(Stream[x], j, x)
    PROVE  IsValueAt(x, k, v)
<1>1. v = 0 \/ (v \in 1 .. k /\ Writes(Stream[x], v, x))
  BY DEF IsValueAt
<1>2. \A j \in Positions(Stream[x]) : j \in (v + 1) .. k => ~Writes(Stream[x], j, x)
  <2> SUFFICES ASSUME NEW j \in Positions(Stream[x]), j \in (v + 1) .. k
               PROVE  ~Writes(Stream[x], j, x)
    OBVIOUS
  <2>1. CASE j \in (v + 1) .. n
    BY <2>1 DEF IsValueAt
  <2>2. CASE j \in n + 1 .. k
    BY <2>2
  <2> QED
    BY <2>1, <2>2
<1> QED
  BY <1>1, <1>2 DEF IsValueAt

(* The event that writes a cell gives it its value.                        *)
LEMMA Written ==
    ASSUME NEW x \in Cell, NEW i \in Nat \ {0}, Writes(Stream[x], i, x)
    PROVE  IsValueAt(x, i, i)
BY DEF IsValueAt

(* Only a decodable event writes a cell.                                   *)
LEMMA WritesIsDecoded ==
    ASSUME NEW x \in Cell, NEW c \in Contract, NEW i \in Positions(c), ~Decoded(c, i)
    PROVE  ~Writes(c, i, x)
BY ChainAssumption DEF Decoded, Writes, Positions

-----------------------------------------------------------------------------
(* Histories are finite sequences.                                         *)
LEMMA HistoryLength == \A c \in Contract : Len(History[c]) \in Nat /\ Positions(c) = 1 .. Len(History[c])
  <1> SUFFICES ASSUME NEW c \in Contract
               PROVE  Len(History[c]) \in Nat /\ Positions(c) = 1 .. Len(History[c])
    OBVIOUS
  <1>1. History[c] \in Seq([tx : Tx, cell : Cell \cup {NoCell}])
    BY ChainAssumption
  <1> QED
    BY <1>1 DEF Positions

(* The types are inductive by themselves.                                  *)
LEMMA TypesHold == MirrorInit => MirrorTypeOK
  <1> SUFFICES ASSUME MirrorInit PROVE MirrorTypeOK
    OBVIOUS
  <1>1. Heights \subseteq Nat
    BY HistoryLength DEF Heights
  <1>2. /\ tip \in [Contract -> Nat] /\ snap \in [Contract -> Nat]
        /\ applied \in [Contract -> Nat] /\ mirror \in [Cell -> Nat]
    BY <1>1 DEF MirrorInit
  <1> QED
    BY <1>2 DEF MirrorInit, MirrorTypeOK

(* ... and every step keeps them.                                          *)
LEMMA TypesStep == MirrorTypeOK /\ [MirrorNext]_mirrorVars => MirrorTypeOK'
  <1> SUFFICES ASSUME MirrorTypeOK, [MirrorNext]_mirrorVars PROVE MirrorTypeOK'
    OBVIOUS
  <1>1. CASE Grow
    <2>1. Heights \subseteq Nat
      BY HistoryLength DEF Heights
    <2>2. tip' \in [Contract -> Nat]
      BY <1>1, <2>1 DEF Grow
    <2>3. \A d \in Contract : tip[d] <= tip'[d] /\ tip'[d] <= Len(History[d])
      BY <1>1 DEF Grow
    <2>4. UNCHANGED <<snap, applied, mirror>>
      BY <1>1 DEF Grow
    <2>5. \A d \in Contract : applied[d] <= tip'[d] /\ snap[d] <= tip'[d]
      BY <2>2, <2>3 DEF MirrorTypeOK
    <2> QED
      BY <2>2, <2>3, <2>4, <2>5 DEF MirrorTypeOK
  <1>2. ASSUME NEW c \in Contract, NEW i \in Positions(c), Apply(c, i) PROVE MirrorTypeOK'
    <2>1. i \in Nat /\ i <= tip[c]
      BY <1>2 DEF Apply, MirrorTypeOK
    <2>2. applied' = [applied EXCEPT ![c] = i] /\ UNCHANGED <<tip, snap>>
      BY <1>2 DEF Apply
    <2>3. applied' \in [Contract -> Nat] /\ \A d \in Contract : applied'[d] <= tip[d]
      BY <2>1, <2>2 DEF MirrorTypeOK
    <2>4. mirror' \in [Cell -> Nat]
      BY <1>2, <2>1 DEF Apply, MirrorTypeOK
    <2> QED
      BY <2>2, <2>3, <2>4 DEF MirrorTypeOK
  <1>3. CASE UNCHANGED mirrorVars
    BY <1>3 DEF mirrorVars, MirrorTypeOK
  <1> QED
    BY <1>1, <1>2, <1>3 DEF MirrorNext

(* The variables stay in their types: positions never pass the tip, the    *)
(* tip never passes the history.                                           *)
THEOREM MirrorTypeCorrect == MirrorSpec => []MirrorTypeOK
  <1> QED
    BY TypesHold, TypesStep, PTL DEF MirrorSpec

-----------------------------------------------------------------------------
(* One dispatch, seen from one mirrored cell of the contract: nothing that *)
(* wrote the cell was passed over, except what the snapshot contains.      *)
LEMMA ApplyKeepsCell ==
    ASSUME MirrorTypeOK, Consistent, NEW x \in Mirrored,
           NEW i \in Positions(Stream[x]), Apply(Stream[x], i)
    PROVE  /\ i >= snap[Stream[x]] => IsValueAt(x, i, mirror'[x])
           /\ i < snap[Stream[x]] => \/ IsValueAt(x, snap[Stream[x]], mirror'[x])
                                     \/ IsValueAt(x, i, mirror'[x])
  <1> DEFINE c == Stream[x]
  <1>1. x \in Cell /\ c \in Contract
    BY ChainAssumption
  <1>f. c \in Followed
    BY DEF Followed
  <1>2. /\ applied[c] \in Nat /\ snap[c] \in Nat /\ mirror[x] \in Nat
        /\ i \in Nat \ {0} /\ applied[c] < i
    BY <1>1, <1>f, HistoryLength DEF MirrorTypeOK, Apply
  <1>3. CASE Writes(c, i, x)
    <2>1. mirror'[x] = i
      BY <1>1, <1>3 DEF Apply
    <2> QED
      BY <1>1, <1>2, <1>3, <2>1, Written
  <1>4. CASE ~Writes(c, i, x)
    <2>1. mirror'[x] = mirror[x]
      BY <1>1, <1>4 DEF Apply
    <2>2. \A j \in Positions(c) : j \in applied[c] + 1 .. i /\ Writes(c, j, x)
              => applied[c] = 0 /\ j <= snap[c]
      <3> SUFFICES ASSUME NEW j \in Positions(c), j \in applied[c] + 1 .. i, Writes(c, j, x)
                   PROVE  applied[c] = 0 /\ j <= snap[c]
        OBVIOUS
      <3>1. Decoded(c, j)
        BY <1>1, WritesIsDecoded
      <3>2. j # i
        BY <1>4
      <3>3. j \in applied[c] + 1 .. i - 1
        BY <1>2, <3>2, HistoryLength, <1>1
      <3> QED
        BY <1>f, <3>1, <3>3 DEF Apply
    <2>3. CASE applied[c] = 0
      <3>1. IsValueAt(x, snap[c], mirror[x])
        BY <2>3 DEF Consistent, FreshConsistent
      <3>2. ASSUME i >= snap[c] PROVE IsValueAt(x, i, mirror[x])
        <4>1. \A j \in Positions(c) : j \in snap[c] + 1 .. i => ~Writes(c, j, x)
          <5> SUFFICES ASSUME NEW j \in Positions(c), j \in snap[c] + 1 .. i, Writes(c, j, x)
                       PROVE  FALSE
            OBVIOUS
          <5>1. j \in applied[c] + 1 .. i
            BY <1>2, <2>3
          <5>2. j <= snap[c]
            BY <2>2, <5>1
          <5> QED
            BY <1>2, <5>2
        <4> QED
          BY <1>1, <1>2, <3>1, <3>2, <4>1, Unwritten
      <3> QED
        BY <2>1, <3>1, <3>2
    <2>4. CASE applied[c] # 0
      <3>1. \A j \in Positions(c) : j \in applied[c] + 1 .. i => ~Writes(c, j, x)
        BY <2>2, <2>4
      <3>2. ASSUME IsValueAt(x, applied[c], mirror[x]) PROVE IsValueAt(x, i, mirror[x])
        BY <1>1, <1>2, <3>1, <3>2, Unwritten
      <3>3. ASSUME applied[c] < snap[c], i >= snap[c], IsValueAt(x, snap[c], mirror[x])
            PROVE  IsValueAt(x, i, mirror[x])
        <4>1. \A j \in Positions(c) : j \in snap[c] + 1 .. i => ~Writes(c, j, x)
          BY <1>2, <3>1, <3>3
        <4> QED
          BY <1>1, <1>2, <3>3, <4>1, Unwritten
      <3>4. CASE applied[c] >= snap[c]
        <4>1. IsValueAt(x, applied[c], mirror[x])
          BY <3>4 DEF Consistent, PrefixConsistent
        <4> QED
          BY <1>2, <2>1, <3>2, <3>4, <4>1
      <3>5. CASE applied[c] < snap[c]
        <4>1. IsValueAt(x, snap[c], mirror[x]) \/ IsValueAt(x, applied[c], mirror[x])
          BY <3>5 DEF Consistent, ReplayConsistent
        <4> QED
          BY <1>2, <2>1, <3>2, <3>3, <3>5, <4>1
      <3> QED
        BY <1>2, <3>4, <3>5
    <2> QED
      BY <2>3, <2>4
  <1> QED
    BY <1>3, <1>4

(* A cell of another contract is not touched by the dispatch.              *)
LEMMA ApplyLeavesOthers ==
    ASSUME MirrorTypeOK, NEW c \in Contract, NEW i \in Positions(c), Apply(c, i),
           NEW x \in Mirrored, Stream[x] # c
    PROVE  mirror'[x] = mirror[x]
  <1>1. x \in Cell
    BY ChainAssumption
  <1>2. ~Writes(c, i, x)
    BY <1>1, ChainAssumption DEF Writes, Positions
  <1> QED
    BY <1>1, <1>2 DEF Apply

(* The bootstrap snapshot is consistent.                                   *)
LEMMA ConsistentInit == MirrorInit => Consistent
  <1> SUFFICES ASSUME MirrorInit PROVE Consistent
    OBVIOUS
  <1>1. MirrorTypeOK
    BY TypesHold
  <1>2. \A x \in Mirrored : Stream[x] \in Contract
    BY ChainAssumption
  <1>3. \A c \in Contract : applied[c] = 0 /\ snap[c] \in Nat
    BY <1>1 DEF MirrorInit, MirrorTypeOK
  <1>4. \A x \in Mirrored : IsValueAt(x, snap[Stream[x]], mirror[x])
    BY DEF MirrorInit
  <1>5. \A x \in Mirrored : applied[Stream[x]] >= snap[Stream[x]] => applied[Stream[x]] = snap[Stream[x]]
    BY <1>2, <1>3
  <1> QED
    BY <1>4, <1>5 DEF Consistent, PrefixConsistent, ReplayConsistent, FreshConsistent

(* Every step keeps all three: growth moves no cell, and a dispatch moves  *)
(* the cells of its own contract only.                                     *)
LEMMA ConsistentStep == MirrorTypeOK /\ Consistent /\ [MirrorNext]_mirrorVars => Consistent'
  <1> SUFFICES ASSUME MirrorTypeOK, Consistent, [MirrorNext]_mirrorVars PROVE Consistent'
    OBVIOUS
  <1>1. ASSUME UNCHANGED <<snap, applied, mirror>> PROVE Consistent'
    BY <1>1 DEF Consistent, PrefixConsistent, ReplayConsistent, FreshConsistent, IsValueAt
  <1>2. ASSUME NEW c \in Contract, NEW i \in Positions(c), Apply(c, i) PROVE Consistent'
    <2>1. snap' = snap /\ applied' = [applied EXCEPT ![c] = i]
      BY <1>2 DEF Apply
    <2>2. i \in Nat \ {0}
      BY HistoryLength
    <2> SUFFICES ASSUME NEW x \in Mirrored
                 PROVE  /\ applied'[Stream[x]] >= snap[Stream[x]] =>
                               IsValueAt(x, applied'[Stream[x]], mirror'[x])
                        /\ applied'[Stream[x]] < snap[Stream[x]] =>
                               \/ IsValueAt(x, snap[Stream[x]], mirror'[x])
                               \/ IsValueAt(x, applied'[Stream[x]], mirror'[x])
                        /\ applied'[Stream[x]] = 0 => IsValueAt(x, snap[Stream[x]], mirror'[x])
      BY <2>1 DEF Consistent, PrefixConsistent, ReplayConsistent, FreshConsistent, IsValueAt
    <2>3. Stream[x] \in Contract
      BY ChainAssumption
    <2>4. CASE Stream[x] = c
      <3>1. applied'[Stream[x]] = i
        BY <2>1, <2>4 DEF MirrorTypeOK
      <3> QED
        BY <1>2, <2>2, <2>4, <3>1, ApplyKeepsCell
    <2>5. CASE Stream[x] # c
      <3>1. applied'[Stream[x]] = applied[Stream[x]]
        BY <2>1, <2>3, <2>5 DEF MirrorTypeOK
      <3>2. mirror'[x] = mirror[x]
        BY <1>2, <2>5, ApplyLeavesOthers
      <3> QED
        BY <3>1, <3>2 DEF Consistent, PrefixConsistent, ReplayConsistent, FreshConsistent
    <2> QED
      BY <2>4, <2>5
  <1>3. CASE UNCHANGED mirrorVars
    BY <1>1, <1>3 DEF mirrorVars
  <1>4. CASE Grow
    BY <1>1, <1>4 DEF Grow
  <1> QED
    BY <1>2, <1>3, <1>4 DEF MirrorNext

(* A mirror fed as OrderedMirror promises is, once the snapshot's events   *)
(* are behind it, a past state of every contract; while they are replayed  *)
(* a cell has its snapshot value or the one the replay has reached.        *)
THEOREM MirrorConsistent == MirrorSpec => [](PrefixConsistent /\ ReplayConsistent)
  <1>1. MirrorInit => MirrorTypeOK /\ Consistent
    BY TypesHold, ConsistentInit
  <1>2. MirrorTypeOK /\ Consistent /\ [MirrorNext]_mirrorVars => MirrorTypeOK' /\ Consistent'
    BY TypesStep, ConsistentStep
  <1>3. Consistent => PrefixConsistent /\ ReplayConsistent
    BY DEF Consistent
  <1> QED
    BY <1>1, <1>2, <1>3, PTL DEF MirrorSpec
=============================================================================
