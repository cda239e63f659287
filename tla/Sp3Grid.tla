------------------------------- MODULE Sp3Grid -------------------------------
(***************************************************************************)
(* The grid report of an SP3 orbit file (packages/cg-engine/src/sp3.ts):   *)
(* which epochs lie off the grid that the header announces, and where a    *)
(* satellite has no record.                                                *)
(*                                                                         *)
(* A block is one epoch: its time tTaiNs and sats, a function from the     *)
(* satellites that have a record in it to their records.                   *)
(***************************************************************************)
EXTENDS Integers, Sequences, FiniteSetsExt

\* declaredEpochs of a header whose columns 32-39 hold no number
Undefined == -1

\* nGrid: the number of epochs declared, or read if none is declared
nGrid(declaredEpochs, blocks) ==
  IF declaredEpochs = Undefined THEN Len(blocks) ELSE declaredEpochs

\* The satellites of byTime.get(t): of several blocks for t the last counts.
satsAt(blocks, t) ==
  LET at == {i \in DOMAIN blocks : blocks[i].tTaiNs = t}
  IN  IF at = {} THEN {} ELSE DOMAIN blocks[Max(at)].sats

AbsOf(x) == IF x < 0 THEN - x ELSE x

\* d is a multiple of intervalNs, not negative, and its quotient is below n.
OnGrid(d, intervalNs, n) ==
  /\ d % AbsOf(intervalNs) = 0
  /\ d >= 0
  /\ (IF intervalNs < 0 THEN - (d \div AbsOf(intervalNs))
                        ELSE d \div intervalNs) < n

\* Positions of the blocks whose times are reported as offGrid.
offGrid(blocks, intervalNs, n) ==
  {i \in DOMAIN blocks :
     ~ OnGrid(blocks[i].tTaiNs - blocks[1].tTaiNs, intervalNs, n)}

gapsForRead(blocks, intervalNs, n, sat) ==
  {t \in {blocks[i].tTaiNs : i \in DOMAIN blocks} : sat \notin satsAt(blocks, t)}
\* sp3GapsFor: the grid times at which sat has no record
gapsFor(blocks, intervalNs, n, sat) ==
  {t \in {blocks[1].tTaiNs + k * intervalNs : k \in 0..(n - 1)} :
     sat \notin satsAt(blocks, t)}

gridComplete(blocks, intervalNs, declaredEpochs, satellites) ==
  LET n == nGrid(declaredEpochs, blocks)
  IN  /\ offGrid(blocks, intervalNs, n) = {}
      /\ \A sat \in satellites : gapsFor(blocks, intervalNs, n, sat) = {}
      /\ n = Len(blocks)

\* What sp3Worldline takes of a file for one satellite: its blocks, reduced to
\* their times and to whether the satellite has a velocity there.
ViewOf(blocks, intervalNs, declaredEpochs, sat) ==
  LET own == SelectSeq(blocks, LAMBDA b : sat \in DOMAIN b.sats)
  IN  [times      |-> [i \in DOMAIN own |-> own[i].tTaiNs],
       hasRecords |-> \A i \in DOMAIN own : own[i].sats[sat].v,
       intervalNs |-> intervalNs,
       gaps       |-> gapsFor(blocks, intervalNs,
                              nGrid(declaredEpochs, blocks), sat)]
==============================================================================
