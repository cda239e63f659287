------------------------------ MODULE Sp3Parser ------------------------------
(***************************************************************************)
(* parseSp3 of packages/cg-engine/src/sp3.ts, one line of the file a step. *)
(* The lines may come in any order and number: which orders are refused,   *)
(* and with which error, is what the parser decides.                       *)
(*                                                                         *)
(* Columns and number fields are left out: a line is its kind, the value   *)
(* that matters of it, or Malformed.  A position and a velocity stand for  *)
(* the line they were read from, by its place in body.                     *)
(***************************************************************************)
EXTENDS Sp3Grid

CONSTANTS
  Satellite,   \* ids that +-lines and records name
  EpochTime,   \* times of epoch lines
  Interval,    \* values of ##-lines, some not positive
  SatCount,    \* numbers of satellites that +-lines declare
  Declared,    \* numbers of epochs that first lines declare
  TimeSystem,  \* codes of %c-lines, GPS among them
  GPS,
  MaxLines     \* bound: lines of a file after the first

ASSUME TimesAssumption ==
  EpochTime \subseteq Int /\ Interval \subseteq Int /\ SatCount \subseteq Nat
ASSUME DeclaredAssumption == Declared \subseteq Nat \union {Undefined}
ASSUME CodesAssumption == GPS \in TimeSystem
ASSUME LinesAssumption == MaxLines \in Nat

VARIABLES
  pc,                 \* "reading", "returned" or the error thrown
  lines,              \* lines read after the first
  body,               \* the epoch, P and V lines accepted so far, in order
  declaredEpochs,     \* of the first line
  intervalNs,
  satellites,         \* of the +-lines
  declaredSatCount,
  satBlockClosed,
  timeSystem,
  blocks,             \* the epochs that are complete
  current             \* the epoch that is being read

vars == <<pc, lines, body, declaredEpochs, intervalNs, satellites,
          declaredSatCount, satBlockClosed, timeSystem, blocks, current>>

head  == <<declaredEpochs, intervalNs, satellites, declaredSatCount, timeSystem>>

NoCount  == -1
NoSystem == "none"
NoEpoch  == [none |-> TRUE]

Errors == {"abnfViolation", "missingField", "nativeError"}

------------------------------------------------------------------------------
(* The first line *)

Init ==
  /\ pc \in {"reading", "abnfViolation"}
  /\ lines = 0 /\ body = <<>>
  /\ declaredEpochs \in Declared
  /\ intervalNs = 0
  /\ satellites = {}
  /\ declaredSatCount = NoCount
  /\ satBlockClosed = FALSE
  /\ timeSystem = NoSystem
  /\ blocks = <<>> /\ current = NoEpoch

------------------------------------------------------------------------------
(* Lines *)

NextLine ==
  /\ pc = "reading"
  /\ lines < MaxLines
  /\ lines' = lines + 1

Throw(error) ==
  /\ pc' = error
  /\ UNCHANGED <<body, declaredEpochs, intervalNs, satellites, declaredSatCount,
                 satBlockClosed, timeSystem, blocks, current>>

CountDiffers ==
  /\ declaredSatCount # NoCount
  /\ Cardinality(satellites) # declaredSatCount

SatBlockEndsUnchecked == satBlockClosed' = TRUE
\* The line is not one of the +-block, which ends here if it has not ended,
\* and its count is right.
SatBlockEnds ==
  /\ satBlockClosed \/ ~ CountDiffers
  /\ satBlockClosed' = TRUE

\* Any line but a + or ## line, after a +-block with too few or too many ids
CloseSatBlockThrows ==
  /\ NextLine
  /\ ~ satBlockClosed /\ CountDiffers
  /\ Throw("abnfViolation")

\* ##: does not end the +-block.
ReadInterval ==
  /\ NextLine
  /\ \/ \E ns \in Interval :
          \/ /\ ns > 0
             /\ intervalNs' = ns
             /\ UNCHANGED <<pc, body, declaredEpochs, satellites,
                            declaredSatCount, satBlockClosed, timeSystem,
                            blocks, current>>
          \/ ns <= 0 /\ Throw("abnfViolation")
     \/ \E error \in {"missingField", "abnfViolation"} : Throw(error)

\* +: the count is taken from the first one; a + line after the block, which
\* has ended then, is ignored.
ReadSatellites(count, ids) ==
  /\ NextLine
  /\ \/ /\ ~ satBlockClosed
        /\ declaredSatCount # NoCount \/ count > 0
        /\ satellites' = satellites \union ids
        /\ declaredSatCount' = IF declaredSatCount = NoCount THEN count
                               ELSE declaredSatCount
        /\ UNCHANGED <<pc, body, declaredEpochs, intervalNs, satBlockClosed,
                       timeSystem, blocks, current>>
     \/ /\ ~ satBlockClosed
        /\ declaredSatCount = NoCount /\ count = 0
        /\ Throw("abnfViolation")
     \/ /\ satBlockClosed
        /\ UNCHANGED <<pc, body, head, satBlockClosed, blocks, current>>

\* %c: the first one counts.
ReadTimeSystem(code) ==
  /\ NextLine
  /\ SatBlockEnds
  /\ timeSystem' = IF timeSystem = NoSystem THEN code ELSE timeSystem
  /\ UNCHANGED <<pc, body, declaredEpochs, intervalNs, satellites,
                 declaredSatCount, blocks, current>>

\* ++, %f, %i, comments, and whatever is not recognised
ReadOther ==
  /\ NextLine
  /\ SatBlockEnds
  /\ UNCHANGED <<pc, body, head, blocks, current>>

Flushed == IF current = NoEpoch THEN blocks ELSE Append(blocks, current)

\* *: an epoch begins.
ReadEpoch(t) ==
  /\ NextLine
  /\ SatBlockEnds
  /\ timeSystem = GPS
  /\ blocks' = Flushed
  /\ current' = [tTaiNs |-> t, sats |-> <<>>]
  /\ body' = Append(body, [kind |-> "epoch", of |-> t])
  /\ UNCHANGED <<pc, head>>

\* No or another time system; too few fields; a field that BigInt refuses
\* with an error of the language.
ReadEpochThrows ==
  /\ NextLine
  /\ satBlockClosed \/ ~ CountDiffers
  /\ \/ timeSystem = NoSystem /\ Throw("missingField")
     \/ timeSystem \notin {NoSystem, GPS} /\ Throw("abnfViolation")
     \/ timeSystem = GPS /\ \E error \in Errors : Throw(error)

HasRecord(sat) == current # NoEpoch /\ sat \in DOMAIN current.sats

WithRecord(sat, record) ==
  [current EXCEPT !.sats =
     [s \in DOMAIN current.sats \union {sat} |->
        IF s = sat THEN record ELSE current.sats[s]]]

AcceptRecord(kind, sat, record) ==
  /\ current' = WithRecord(sat, record)
  /\ body' = Append(body, [kind |-> kind, of |-> sat])
  /\ UNCHANGED <<pc, head, blocks>>

ReadPUndeclared(sat) ==
  /\ NextLine
  /\ SatBlockEnds
  /\ current # NoEpoch
  /\ AcceptRecord("P", sat, [r |-> Len(body) + 1, v |-> 0])
ReadPForgetsV(sat) ==
  /\ NextLine
  /\ SatBlockEnds
  /\ current # NoEpoch /\ sat \in satellites
  /\ AcceptRecord("P", sat, [r |-> Len(body) + 1, v |-> 0])
\* P: the position is replaced, a velocity that is there stays.
ReadP(sat) ==
  /\ NextLine
  /\ SatBlockEnds
  /\ current # NoEpoch /\ sat \in satellites
  /\ AcceptRecord("P", sat,
       [r |-> Len(body) + 1,
        v |-> IF HasRecord(sat) THEN current.sats[sat].v ELSE 0])

\* V: only after a P of the same satellite and epoch
ReadV(sat) ==
  /\ NextLine
  /\ SatBlockEnds
  /\ sat \in satellites /\ HasRecord(sat)
  /\ AcceptRecord("V", sat, [r |-> current.sats[sat].r, v |-> Len(body) + 1])

\* No epoch; a number field that is empty or no number; a satellite that the
\* header does not list; a V without P.
ReadRecordThrows(sat) ==
  /\ NextLine
  /\ satBlockClosed \/ ~ CountDiffers
  /\ \/ current = NoEpoch /\ Throw("abnfViolation")
     \/ current # NoEpoch /\ \E e \in {"missingField", "abnfViolation"} : Throw(e)
     \/ sat \notin satellites /\ Throw("abnfViolation")
     \/ ~ HasRecord(sat) /\ Throw("abnfViolation")

------------------------------------------------------------------------------
(* After the last line *)

\* The interval of the ##-line, or else of the first two epochs.
FinalInterval(all) ==
  IF intervalNs = 0 THEN all[2].tTaiNs - all[1].tTaiNs ELSE intervalNs

\* The checks in their order; the grid report divides by the interval, and
\* d % 0n is an error of the language.
Outcome(all) ==
  IF declaredSatCount = NoCount THEN "missingField"
  ELSE IF ~ satBlockClosed /\ CountDiffers THEN "abnfViolation"
  ELSE IF all = <<>> THEN "missingField"
  ELSE IF intervalNs = 0 /\ Len(all) < 2 THEN "missingField"
  ELSE IF FinalInterval(all) = 0 THEN "nativeError"
  ELSE "returned"

\* The text ends, with or without an EOF line, which ends the +-block, too.
EndOfText ==
  /\ pc = "reading"
  /\ pc' = Outcome(Flushed)
  /\ blocks' = Flushed
  /\ current' = NoEpoch
  /\ satBlockClosed' = TRUE
  /\ intervalNs' = IF pc' = "returned" THEN FinalInterval(Flushed) ELSE intervalNs
  /\ UNCHANGED <<lines, body, declaredEpochs, satellites, declaredSatCount,
                 timeSystem>>

Ended == pc # "reading" /\ UNCHANGED vars

Next ==
  \/ ReadInterval \/ ReadOther \/ CloseSatBlockThrows
  \/ \E count \in SatCount, ids \in SUBSET Satellite : ReadSatellites(count, ids)
  \/ \E code \in TimeSystem : ReadTimeSystem(code)
  \/ \E t \in EpochTime : ReadEpoch(t)
  \/ ReadEpochThrows
  \/ \E sat \in Satellite : ReadP(sat) \/ ReadV(sat) \/ ReadRecordThrows(sat)
  \/ EndOfText
  \/ Ended

Spec == Init /\ [][Next]_vars

------------------------------------------------------------------------------
(* Properties *)

\* Every epoch that has been read, the one that is being read included.
Epochs == Flushed

Record == [r : Nat \ {0}, v : Nat]

\* Types of the parser's variables.
TypeOK ==
  /\ pc \in {"reading", "returned"} \union Errors
  /\ lines \in 0..MaxLines
  /\ declaredEpochs \in Declared
  /\ intervalNs \in Int
  /\ satellites \subseteq Satellite
  /\ declaredSatCount \in SatCount \union {NoCount}
  /\ satBlockClosed \in BOOLEAN
  /\ timeSystem \in TimeSystem \union {NoSystem}
  /\ \A i \in DOMAIN Epochs :
       /\ Epochs[i].tTaiNs \in EpochTime
       /\ DOMAIN Epochs[i].sats \subseteq satellites
       /\ \A s \in DOMAIN Epochs[i].sats : Epochs[i].sats[s] \in Record

\* The number of the epoch that line i of the body belongs to.
EpochOf(i) == Cardinality({j \in 1..i : body[j].kind = "epoch"})

\* The last line of this kind for the satellite in epoch e, 0 if there is none.
LastLine(kind, sat, e) ==
  LET found == {i \in DOMAIN body : /\ body[i].kind = kind /\ body[i].of = sat
                                    /\ EpochOf(i) = e}
  IN  IF found = {} THEN 0 ELSE Max(found)

\* Every record that was accepted is in the block of the epoch line above it,
\* and in no other, whatever the order of P and V lines: no block is lost,
\* doubled or mixed with its neighbour when it is flushed, and repeated lines
\* replace what they repeat and nothing else.
RecordsStayInTheirEpoch ==
  pc \in {"reading", "returned"} =>
    /\ Len(Epochs) = EpochOf(Len(body))
    /\ \A i \in DOMAIN body :
         body[i].kind = "epoch" => Epochs[EpochOf(i)].tTaiNs = body[i].of
    /\ \A e \in DOMAIN Epochs : \A s \in Satellite :
         IF s \in DOMAIN Epochs[e].sats
         THEN Epochs[e].sats[s] = [r |-> LastLine("P", s, e),
                                   v |-> LastLine("V", s, e)]
         ELSE LastLine("P", s, e) = 0 /\ LastLine("V", s, e) = 0

\* R-1, F-01: the satellites of a file that is returned are as many as its
\* header declares, and no record that was accepted is of another, wherever
\* +-lines stand in the file and however many there are.
SatellitesAsDeclared ==
  pc = "returned" =>
    /\ satellites # {} /\ Cardinality(satellites) = declaredSatCount
    /\ \A i \in DOMAIN body : body[i].kind = "epoch" \/ body[i].of \in satellites

gridSize == nGrid(declaredEpochs, blocks)

\* grid.complete is worth its name: the epochs are the grid, each of them
\* once, and every satellite has a record in each, although gaps and offGrid
\* are counted independently and repeated epochs are not looked for.
CompleteMeansComplete ==
  pc = "returned"
  /\ gridComplete(blocks, intervalNs, declaredEpochs, satellites) =>
    /\ {b.tTaiNs : b \in {blocks[i] : i \in DOMAIN blocks}}
         = {blocks[1].tTaiNs + k * intervalNs : k \in 0..(Len(blocks) - 1)}
    /\ \A i, j \in DOMAIN blocks : blocks[i].tTaiNs = blocks[j].tTaiNs => i = j
    /\ \A i \in DOMAIN blocks : DOMAIN blocks[i].sats = satellites

\* The comment at sp3.ts:669-672: an epoch off the grid also leaves a gap of
\* every satellite, at the place that it does not take, unless the file has
\* more epochs than declared, or an interval derived from epochs that descend.
ShiftedEpochLeavesGap ==
  /\ pc = "returned" /\ intervalNs > 0 /\ Len(blocks) <= gridSize
  /\ offGrid(blocks, intervalNs, gridSize) # {}
  => \A sat \in satellites : gapsFor(blocks, intervalNs, gridSize, sat) # {}

\* What the grid report says of a file is so: complete means complete, and a
\* displaced epoch shows in the gaps as well.
GridReportHonest == CompleteMeansComplete /\ ShiftedEpochLeavesGap
==============================================================================
