------------------------------- MODULE Sp3Proofs -------------------------------
(***************************************************************************)
(* Sp3Parser for every file and Sp3Worldline for every sequence of epochs: *)
(* types; that records stay in their epoch, the satellites are those of    *)
(* the header and the grid report is honest; that states are returned from *)
(* centred windows only, and the search misses none where the epochs       *)
(* ascend.                                                                 *)
(*                                                                         *)
(* ParserInv is what each line preserves.  Filed relates the blocks to the *)
(* lines accepted so far; an accepted line is the last of its kind,        *)
(* satellite and epoch, and changes no other last line.  The grid report   *)
(* counts: n epochs in which n grid times are found show each of them      *)
(* once, so gaps alone already decide what offGrid would say.              *)
(*                                                                         *)
(* For the worldline the argument is the invariant of the binary search:   *)
(* node lo is at or before t, and the node after hi, if there is one, is   *)
(* after t.  It holds of any sequence, since each bound was compared with  *)
(* t when it was set.                                                      *)
(***************************************************************************)
EXTENDS Sp3Parser, Sp3Worldline, FiniteSetTheorems, SequenceTheorems, TLAPS

------------------------------------------------------------------------------
(* Sp3Parser: blocks and steps *)

\* The records of an epoch, and an epoch, of a file with these satellites.
Tables(ids) == UNION {[D -> Record] : D \in SUBSET ids}
BlockOf(ids) == [tTaiNs : EpochTime, sats : Tables(ids)]

Line == [kind : {"epoch", "P", "V"}, of : EpochTime \union Satellite]

\* A parser that has closed its +-block has as many ids as were declared.
Counted ==
  /\ satBlockClosed => ~ CountDiffers
  /\ declaredSatCount # NoCount => declaredSatCount > 0

HeadShape ==
  /\ lines \in 0..MaxLines
  /\ declaredEpochs \in Declared
  /\ intervalNs \in Int
  /\ satellites \subseteq Satellite
  /\ declaredSatCount \in SatCount \union {NoCount}
  /\ satBlockClosed \in BOOLEAN
  /\ timeSystem \in TimeSystem \union {NoSystem}

Shape ==
  /\ pc \in {"reading", "returned"} \union Errors
  /\ HeadShape
  /\ blocks \in Seq(BlockOf(satellites))
  /\ current \in BlockOf(satellites) \union {NoEpoch}
  /\ body \in Seq(Line)

LEMMA TablesGrow ==
  ASSUME NEW ids, NEW more, ids \subseteq more
  PROVE  /\ BlockOf(ids) \subseteq BlockOf(more)
         /\ Seq(BlockOf(ids)) \subseteq Seq(BlockOf(more))
  <1>1. Tables(ids) \subseteq Tables(more)
    BY DEF Tables
  <1>2. BlockOf(ids) \subseteq BlockOf(more)
    BY <1>1 DEF BlockOf
  <1> QED
    BY <1>2, SeqMonotonic, Zenon

LEMMA BlockIs ==
  ASSUME NEW ids, NEW b \in BlockOf(ids)
  PROVE  /\ b # NoEpoch
         /\ b.tTaiNs \in EpochTime /\ b.sats \in Tables(ids)
         /\ DOMAIN b.sats \subseteq ids
         /\ \A s \in DOMAIN b.sats : b.sats[s] \in Record
  <1>1. DOMAIN b = {"tTaiNs", "sats"} /\ DOMAIN NoEpoch = {"none"}
    BY DEF BlockOf, NoEpoch
  <1>2. b.tTaiNs \in EpochTime /\ b.sats \in Tables(ids)
    BY DEF BlockOf
  <1>3. PICK D \in SUBSET ids : b.sats \in [D -> Record]
    BY <1>2 DEF Tables
  <1> QED
    BY <1>1, <1>2, <1>3

LEMMA FlushedShape ==
  ASSUME Shape
  PROVE  /\ Flushed \in Seq(BlockOf(satellites))
         /\ Len(Flushed) = IF current = NoEpoch THEN Len(blocks) ELSE Len(blocks) + 1
         /\ \A i \in 1 .. Len(blocks) : Flushed[i] = blocks[i]
         /\ current # NoEpoch => Flushed[Len(blocks) + 1] = current
  <1>1. CASE current = NoEpoch
    BY <1>1 DEF Flushed, Shape
  <1>2. CASE current # NoEpoch
    <2>1. current \in BlockOf(satellites) /\ blocks \in Seq(BlockOf(satellites))
      BY <1>2 DEF Shape
    <2> QED
      BY <1>2, <2>1, AppendProperties DEF Flushed
  <1> QED
    BY <1>1, <1>2

LEMMA ShapeIsType == Shape => TypeOK
  <1> SUFFICES ASSUME Shape PROVE TypeOK
    OBVIOUS
  <1>1. \A i \in DOMAIN Epochs : Epochs[i] \in BlockOf(satellites)
    BY FlushedShape DEF Epochs
  <1>2. \A i \in DOMAIN Epochs :
          /\ Epochs[i].tTaiNs \in EpochTime
          /\ DOMAIN Epochs[i].sats \subseteq satellites
          /\ \A s \in DOMAIN Epochs[i].sats : Epochs[i].sats[s] \in Record
    BY <1>1, BlockIs
  <1> QED
    BY <1>2 DEF TypeOK, Shape, HeadShape

\* What a line does: it ends the reading with an error, ...
Thrown ==
  /\ pc = "reading" /\ pc' \in Errors
  /\ lines' \in 0..MaxLines
  /\ UNCHANGED <<body, head, satBlockClosed, blocks, current>>

\* ... changes the header, ...
HeaderRead ==
  /\ UNCHANGED <<body, blocks, current>>
  /\ satellites \subseteq satellites'

\* ... begins an epoch ...
EpochRead(t0) ==
  /\ blocks' = Flushed
  /\ current' = [tTaiNs |-> t0, sats |-> <<>>]
  /\ body' = Append(body, [kind |-> "epoch", of |-> t0])
  /\ UNCHANGED satellites

\* ... or adds a record to the one that is being read.
RecordRead(kind, sat, record) ==
  /\ current # NoEpoch /\ sat \in satellites
  /\ \/ /\ kind = "P"
        /\ record = [r |-> Len(body) + 1,
                     v |-> IF HasRecord(sat) THEN current.sats[sat].v ELSE 0]
     \/ /\ kind = "V" /\ HasRecord(sat)
        /\ record = [r |-> current.sats[sat].r, v |-> Len(body) + 1]
  /\ current' = WithRecord(sat, record)
  /\ body' = Append(body, [kind |-> kind, of |-> sat])
  /\ UNCHANGED <<blocks, satellites>>

Goes ==
  /\ pc = "reading" /\ pc' = "reading"
  /\ HeadShape' /\ Counted'
  /\ \/ HeaderRead
     \/ \E t0 \in EpochTime : EpochRead(t0)
     \/ \E kind \in {"P", "V"}, sat \in Satellite, record \in Record :
          RecordRead(kind, sat, record)

LEMMA LinesType ==
  ASSUME Shape, NextLine
  PROVE  pc = "reading" /\ lines' \in 0..MaxLines
  BY LinesAssumption DEF Shape, HeadShape, NextLine

LEMMA ThrowIs ==
  ASSUME Shape, NextLine, NEW error \in Errors, Throw(error)
  PROVE  Thrown
  BY LinesType DEF Throw, Thrown, head

\* What every line that ends the +-block does to the header, the time system
\* apart.
LEMMA BlockEnds ==
  ASSUME Shape, Counted, NextLine, SatBlockEnds,
         UNCHANGED <<pc, declaredEpochs, intervalNs, satellites,
                     declaredSatCount>>,
         timeSystem' \in TimeSystem \union {NoSystem}
  PROVE  pc = "reading" /\ pc' = "reading" /\ HeadShape' /\ Counted'
  <1>1. satBlockClosed' = TRUE /\ ~ CountDiffers
    BY DEF SatBlockEnds, Counted
  <1>2. pc = "reading" /\ lines' \in 0..MaxLines
    BY LinesType
  <1>3. ~ CountDiffers'
    BY <1>1 DEF CountDiffers
  <1> QED
    BY <1>1, <1>2, <1>3 DEF Shape, HeadShape, Counted

LEMMA IntervalStep ==
  ASSUME Shape, Counted, ReadInterval
  PROVE  Thrown \/ Goes
  <1>1. NextLine /\ pc = "reading" /\ lines' \in 0..MaxLines
    BY LinesType DEF ReadInterval
  <1>2. CASE \E error \in {"missingField", "abnfViolation"} : Throw(error)
    BY <1>1, <1>2, ThrowIs DEF Errors
  <1>3. ASSUME NEW ns \in Interval, intervalNs' = ns,
               UNCHANGED <<pc, body, declaredEpochs, satellites,
                           declaredSatCount, satBlockClosed, timeSystem,
                           blocks, current>>
        PROVE  Goes
    <2>1. HeadShape'
      BY <1>1, <1>3, TimesAssumption DEF Shape, HeadShape
    <2>2. Counted'
      BY <1>3 DEF Counted, CountDiffers
    <2> QED
      BY <1>1, <1>3, <2>1, <2>2 DEF Goes, HeaderRead
  <1> QED
    BY <1>2, <1>3 DEF ReadInterval

LEMMA SatellitesStep ==
  ASSUME Shape, Counted, NEW count \in SatCount, NEW ids \in SUBSET Satellite,
         ReadSatellites(count, ids)
  PROVE  Thrown \/ Goes
  <1>1. NextLine /\ pc = "reading" /\ lines' \in 0..MaxLines
    BY LinesType DEF ReadSatellites
  <1>2. CASE Throw("abnfViolation")
    BY <1>1, <1>2, ThrowIs DEF Errors
  <1>3. CASE /\ ~ satBlockClosed
             /\ declaredSatCount # NoCount \/ count > 0
             /\ satellites' = satellites \union ids
             /\ declaredSatCount' = IF declaredSatCount = NoCount THEN count
                                    ELSE declaredSatCount
             /\ UNCHANGED <<pc, body, declaredEpochs, intervalNs, satBlockClosed,
                            timeSystem, blocks, current>>
    <2>1. HeadShape'
      BY <1>1, <1>3 DEF Shape, HeadShape
    <2>2. declaredSatCount' > 0
      BY <1>3 DEF Counted
    <2>3. Counted'
      BY <1>3, <2>2 DEF Counted
    <2> QED
      BY <1>1, <1>3, <2>1, <2>3 DEF Goes, HeaderRead
  <1>4. CASE UNCHANGED <<pc, body, head, satBlockClosed, blocks, current>>
    <2>1. HeadShape'
      BY <1>1, <1>4 DEF Shape, HeadShape, head
    <2>2. Counted'
      BY <1>4 DEF Counted, CountDiffers, head
    <2> QED
      BY <1>1, <1>4, <2>1, <2>2 DEF Goes, HeaderRead, head
  <1> QED
    BY <1>2, <1>3, <1>4 DEF ReadSatellites

LEMMA TimeSystemStep ==
  ASSUME Shape, Counted, NEW code \in TimeSystem, ReadTimeSystem(code)
  PROVE  Goes
  <1>1. timeSystem' \in TimeSystem \union {NoSystem}
    BY DEF ReadTimeSystem, Shape, HeadShape
  <1>2. pc = "reading" /\ pc' = "reading" /\ HeadShape' /\ Counted'
    BY <1>1, BlockEnds DEF ReadTimeSystem
  <1> QED
    BY <1>2 DEF Goes, HeaderRead, ReadTimeSystem

LEMMA OtherStep ==
  ASSUME Shape, Counted, ReadOther
  PROVE  Goes
  <1>1. timeSystem' \in TimeSystem \union {NoSystem}
    BY DEF ReadOther, head, Shape, HeadShape
  <1>2. pc = "reading" /\ pc' = "reading" /\ HeadShape' /\ Counted'
    BY <1>1, BlockEnds DEF ReadOther, head
  <1> QED
    BY <1>2 DEF Goes, HeaderRead, ReadOther, head

LEMMA EpochStep ==
  ASSUME Shape, Counted, NEW t0 \in EpochTime, ReadEpoch(t0)
  PROVE  Goes
  <1>1. timeSystem' \in TimeSystem \union {NoSystem}
    BY DEF ReadEpoch, head, Shape, HeadShape
  <1>2. pc = "reading" /\ pc' = "reading" /\ HeadShape' /\ Counted'
    BY <1>1, BlockEnds DEF ReadEpoch, head
  <1>3. EpochRead(t0)
    BY DEF EpochRead, ReadEpoch, head
  <1> QED
    BY <1>2, <1>3 DEF Goes

LEMMA HasRecordIs ==
  ASSUME Shape, NEW sat, HasRecord(sat)
  PROVE  /\ current \in BlockOf(satellites) /\ sat \in DOMAIN current.sats
         /\ current.sats[sat] \in Record
  <1>1. current \in BlockOf(satellites) /\ sat \in DOMAIN current.sats
    BY DEF HasRecord, Shape
  <1> QED
    BY <1>1, BlockIs

LEMMA RecordStep ==
  ASSUME Shape, Counted, NEW sat \in Satellite, ReadP(sat) \/ ReadV(sat)
  PROVE  Goes
  <1>1. timeSystem' \in TimeSystem \union {NoSystem}
    BY DEF ReadP, ReadV, AcceptRecord, head, Shape, HeadShape
  <1>2. pc = "reading" /\ pc' = "reading" /\ HeadShape' /\ Counted'
    BY <1>1, BlockEnds DEF ReadP, ReadV, AcceptRecord, head
  <1>3. Len(body) \in Nat
    BY DEF Shape
  <1>4. CASE ReadP(sat)
    <2> DEFINE record == [r |-> Len(body) + 1,
                          v |-> IF HasRecord(sat) THEN current.sats[sat].v ELSE 0]
    <2>1. record \in Record
      BY <1>3, HasRecordIs DEF Record
    <2>2. RecordRead("P", sat, record)
      BY <1>4 DEF RecordRead, ReadP, AcceptRecord, head
    <2> QED
      BY <1>2, <2>1, <2>2 DEF Goes
  <1>5. CASE ReadV(sat)
    <2> DEFINE record == [r |-> current.sats[sat].r, v |-> Len(body) + 1]
    <2>1. HasRecord(sat)
      BY <1>5 DEF ReadV
    <2>2. record \in Record
      BY <1>3, <2>1, HasRecordIs DEF Record
    <2>3. RecordRead("V", sat, record)
      BY <1>5 DEF RecordRead, ReadV, AcceptRecord, head, HasRecord
    <2> QED
      BY <1>2, <2>2, <2>3 DEF Goes
  <1> QED
    BY <1>4, <1>5

LEMMA ThrowingStep ==
  ASSUME Shape,
         \/ CloseSatBlockThrows \/ ReadEpochThrows
         \/ \E sat \in Satellite : ReadRecordThrows(sat)
  PROVE  Thrown
  <1>1. NextLine /\ \E error \in Errors : Throw(error)
    BY DEF CloseSatBlockThrows, ReadEpochThrows, ReadRecordThrows, Errors
  <1> QED
    BY <1>1, ThrowIs

\* Every step of the parser is one of these.
LEMMA StepKinds ==
  ASSUME Shape, Counted \/ pc # "reading", [Next]_vars
  PROVE  Thrown \/ Goes \/ EndOfText \/ UNCHANGED vars
  <1>1. CASE pc # "reading"
    BY <1>1 DEF Next, ReadInterval, ReadOther, CloseSatBlockThrows, ReadSatellites,
       ReadTimeSystem, ReadEpoch, ReadEpochThrows, ReadP, ReadV, ReadRecordThrows,
       EndOfText, Ended, NextLine
  <1>2. CASE pc = "reading"
    BY <1>2, IntervalStep, SatellitesStep, TimeSystemStep, OtherStep, EpochStep,
       RecordStep, ThrowingStep DEF Next, Ended
  <1> QED
    BY <1>1, <1>2

LEMMA InitShape == Init => Shape /\ Counted
  <1> SUFFICES ASSUME Init PROVE Shape /\ Counted
    OBVIOUS
  <1>1. blocks \in Seq(BlockOf(satellites)) /\ body \in Seq(Line)
    BY EmptySeq DEF Init
  <1>2. HeadShape
    <2>1. 0 \in 0..MaxLines /\ 0 \in Int
      BY LinesAssumption
    <2> QED
      BY <2>1 DEF Init, HeadShape
  <1> QED
    BY <1>1, <1>2 DEF Init, Shape, Counted, Errors

LEMMA NewEpoch ==
  ASSUME NEW t0 \in EpochTime
  PROVE  /\ [tTaiNs |-> t0, sats |-> <<>>] \in BlockOf(satellites)
         /\ DOMAIN <<>> = {}
  <1>1. <<>> = [s \in {} |-> 0] /\ DOMAIN <<>> = {}
    OBVIOUS
  <1>2. <<>> \in Tables(satellites)
    <2>1. [s \in {} |-> 0] \in [{} -> Record]
      OBVIOUS
    <2>2. <<>> \in [{} -> Record] /\ {} \in SUBSET satellites
      BY <1>1, <2>1, Zenon
    <2> QED
      BY <2>2, Zenon DEF Tables
  <1> QED
    BY <1>1, <1>2 DEF BlockOf

LEMMA WithRecordIs ==
  ASSUME current \in BlockOf(satellites), NEW sat \in satellites,
         NEW record \in Record
  PROVE  LET b == WithRecord(sat, record)
         IN  /\ b \in BlockOf(satellites)
             /\ b.tTaiNs = current.tTaiNs
             /\ DOMAIN b.sats = DOMAIN current.sats \union {sat}
             /\ b.sats[sat] = record
             /\ \A s \in DOMAIN current.sats \ {sat} : b.sats[s] = current.sats[s]
  <1> DEFINE more == [s \in DOMAIN current.sats \union {sat} |->
                        IF s = sat THEN record ELSE current.sats[s]]
  <1>1. /\ DOMAIN current.sats \subseteq satellites
        /\ \A s \in DOMAIN current.sats : current.sats[s] \in Record
    BY BlockIs
  <1>2. more \in Tables(satellites)
    <2> DEFINE D == DOMAIN current.sats \union {sat}
    <2>1. more \in [D -> Record]
      BY <1>1
    <2>2. D \in SUBSET satellites
      BY <1>1
    <2> HIDE DEF D, more
    <2> QED
      BY <2>1, <2>2, Zenon DEF Tables
  <1>3. WithRecord(sat, record) = [current EXCEPT !.sats = more]
    BY DEF WithRecord
  <1>4. /\ DOMAIN more = DOMAIN current.sats \union {sat} /\ more[sat] = record
        /\ \A s \in DOMAIN current.sats \ {sat} : more[s] = current.sats[s]
    OBVIOUS
  <1> HIDE DEF more
  <1>5. /\ [current EXCEPT !.sats = more] \in BlockOf(satellites)
        /\ [current EXCEPT !.sats = more].tTaiNs = current.tTaiNs
        /\ [current EXCEPT !.sats = more].sats = more
    BY <1>2 DEF BlockOf
  <1> QED
    BY <1>3, <1>4, <1>5

LEMMA LineOf ==
  ASSUME Shape, NEW line \in Line, body' = Append(body, line)
  PROVE  /\ body' \in Seq(Line) /\ Len(body) \in Nat
         /\ Len(body') = Len(body) + 1
         /\ body'[Len(body) + 1] = line
         /\ \A i \in 1 .. Len(body) : body'[i] = body[i]
  BY AppendProperties DEF Shape

LEMMA GoesShape ==
  ASSUME Shape, Goes
  PROVE  Shape'
  <1>1. pc' = "reading" /\ HeadShape'
    BY DEF Goes
  <1>2. CASE HeaderRead
    <2>1. satellites \subseteq satellites'
      BY <1>2 DEF HeaderRead
    <2>2. /\ BlockOf(satellites) \subseteq BlockOf(satellites')
          /\ Seq(BlockOf(satellites)) \subseteq Seq(BlockOf(satellites'))
      BY <2>1, TablesGrow
    <2> QED
      BY <1>1, <1>2, <2>2 DEF Shape, HeaderRead
  <1>3. ASSUME NEW t0 \in EpochTime, EpochRead(t0) PROVE Shape'
    <2>1. [kind |-> "epoch", of |-> t0] \in Line
      BY DEF Line
    <2>2. body' \in Seq(Line)
      BY <1>3, <2>1, LineOf DEF EpochRead
    <2>3. /\ blocks' \in Seq(BlockOf(satellites')) /\ current' \in BlockOf(satellites')
      BY <1>3, FlushedShape, NewEpoch DEF EpochRead
    <2> QED
      BY <1>1, <2>2, <2>3 DEF Shape
  <1>4. ASSUME NEW kind \in {"P", "V"}, NEW sat \in Satellite,
               NEW record \in Record, RecordRead(kind, sat, record)
        PROVE  Shape'
    <2>1. [kind |-> kind, of |-> sat] \in Line
      BY DEF Line
    <2>2. body' \in Seq(Line)
      BY <1>4, <2>1, LineOf DEF RecordRead
    <2>3. current \in BlockOf(satellites) /\ sat \in satellites
      BY <1>4 DEF RecordRead, Shape
    <2>4. current' \in BlockOf(satellites')
      BY <1>4, <2>3, WithRecordIs DEF RecordRead
    <2> QED
      BY <1>1, <1>4, <2>2, <2>4 DEF Shape, RecordRead
  <1> QED
    BY <1>2, <1>3, <1>4 DEF Goes

LEMMA ThrownShape ==
  ASSUME Shape, Thrown
  PROVE  Shape'
  BY DEF Thrown, head, Shape, HeadShape

LEMMA EndIs ==
  ASSUME Shape, EndOfText
  PROVE  /\ Shape' /\ Flushed' = Flushed /\ pc = "reading"
         /\ pc' = "returned" \/ pc' \in Errors
         /\ pc' = "returned" =>
              /\ declaredSatCount # NoCount
              /\ satBlockClosed \/ ~ CountDiffers
              /\ current' = NoEpoch /\ blocks' # <<>> /\ intervalNs' # 0
  <1>1. /\ pc = "reading" /\ pc' = Outcome(Flushed) /\ blocks' = Flushed
        /\ current' = NoEpoch /\ satBlockClosed' = TRUE
        /\ intervalNs' = IF pc' = "returned" THEN FinalInterval(Flushed)
                         ELSE intervalNs
        /\ UNCHANGED <<lines, body, declaredEpochs, satellites, declaredSatCount,
                       timeSystem>>
    BY DEF EndOfText
  <1>2. pc' \in {"returned"} \union Errors
    BY <1>1 DEF Outcome, Errors
  <1>3. Flushed \in Seq(BlockOf(satellites))
    BY FlushedShape
  <1>4. ASSUME pc' = "returned"
        PROVE  /\ declaredSatCount # NoCount
               /\ satBlockClosed \/ ~ CountDiffers
               /\ Flushed # <<>>
               /\ intervalNs # 0 \/ Len(Flushed) >= 2
               /\ FinalInterval(Flushed) # 0
    <2>1. Len(Flushed) \in Nat
      BY <1>3
    <2> QED
      BY <1>1, <1>4, <2>1 DEF Outcome
  <1>5. intervalNs' \in Int
    <2>1. intervalNs \in Int
      BY DEF Shape, HeadShape
    <2>2. ASSUME Len(Flushed) >= 2
          PROVE  Flushed[2].tTaiNs \in Int /\ Flushed[1].tTaiNs \in Int
      <3>1. Flushed[1] \in BlockOf(satellites) /\ Flushed[2] \in BlockOf(satellites)
        BY <1>3, <2>2
      <3> QED
        BY <3>1, BlockIs, TimesAssumption
    <2> QED
      BY <1>1, <1>4, <2>1, <2>2 DEF FinalInterval
  <1>6. Shape'
    BY <1>1, <1>2, <1>3, <1>5 DEF Shape, HeadShape
  <1>7. Flushed' = Flushed
    BY <1>1 DEF Flushed
  <1> QED
    BY <1>1, <1>2, <1>4, <1>6, <1>7

\* A file that is returned.
Result ==
  pc = "returned" =>
    /\ declaredSatCount # NoCount /\ Counted /\ ~ CountDiffers
    /\ current = NoEpoch /\ blocks # <<>> /\ intervalNs # 0

ParserInv == Shape /\ (pc = "reading" => Counted) /\ Result

LEMMA ParserStep == ParserInv /\ [Next]_vars => ParserInv'
  <1> SUFFICES ASSUME ParserInv, [Next]_vars PROVE ParserInv'
    OBVIOUS
  <1>1. CASE Thrown
    BY <1>1, ThrownShape DEF ParserInv, Result, Thrown, Errors
  <1>2. CASE Goes
    BY <1>2, GoesShape DEF ParserInv, Result, Goes
  <1>3. CASE EndOfText
    <2>1. Shape' /\ pc' # "reading"
      BY <1>3, EndIs DEF ParserInv, Errors
    <2>2. ASSUME pc' = "returned" PROVE Result'
      <3>1. /\ declaredSatCount # NoCount /\ ~ CountDiffers /\ Counted
            /\ current' = NoEpoch /\ blocks' # <<>> /\ intervalNs' # 0
        BY <1>3, <2>2, EndIs DEF ParserInv, Counted
      <3>2. declaredSatCount' = declaredSatCount /\ satellites' = satellites
        BY <1>3 DEF EndOfText
      <3>3. CountDiffers' = CountDiffers
        BY <3>2 DEF CountDiffers
      <3> QED
        BY <3>1, <3>2, <3>3 DEF Result, Counted
    <2> QED
      BY <2>1, <2>2 DEF ParserInv, Result
  <1>4. CASE UNCHANGED vars
    <2>1. Shape'
      BY <1>4 DEF ParserInv, Shape, HeadShape, vars
    <2> QED
      BY <1>4, <2>1 DEF ParserInv, Result, Counted, CountDiffers, vars
  <1> QED
    BY <1>1, <1>2, <1>3, <1>4, StepKinds DEF ParserInv

LEMMA ParserInvariance == Spec => []ParserInv
  <1>1. Init => ParserInv
    BY InitShape DEF ParserInv, Result, Init
  <1> QED
    BY <1>1, ParserStep, PTL DEF Spec

\* The variables of the parser keep their types.
THEOREM TypeCorrect == Spec => []TypeOK
  <1>1. ParserInv => TypeOK
    BY ShapeIsType DEF ParserInv
  <1> QED
    BY <1>1, ParserInvariance, PTL

------------------------------------------------------------------------------
(* Sp3Parser: satellites *)

\* The records accepted name satellites of the header.
OwnRecords ==
  \A i \in DOMAIN body : body[i].kind = "epoch" \/ body[i].of \in satellites

LEMMA OwnRecordsStep ==
  ASSUME ParserInv, OwnRecords, [Next]_vars
  PROVE  OwnRecords'
  <1>1. Shape /\ body \in Seq(Line)
    BY DEF ParserInv, Shape
  <1>2. CASE Thrown \/ EndOfText \/ UNCHANGED vars
    <2>1. body' = body /\ satellites' = satellites
      BY <1>2 DEF Thrown, EndOfText, head, vars
    <2> QED
      BY <2>1 DEF OwnRecords
  <1>3. CASE Goes
    <2>1. CASE HeaderRead
      BY <2>1 DEF HeaderRead, OwnRecords
    <2>2. ASSUME NEW line \in Line, body' = Append(body, line),
                 satellites' = satellites,
                 line.kind = "epoch" \/ line.of \in satellites
          PROVE  OwnRecords'
      <3>1. /\ DOMAIN body = 1 .. Len(body) /\ Len(body) \in Nat
            /\ DOMAIN body' = 1 .. Len(body) + 1
        BY <1>1, <2>2, LineOf
      <3> QED
        BY <1>1, <2>2, <3>1, LineOf DEF OwnRecords
    <2>3. ASSUME NEW t0 \in EpochTime, EpochRead(t0) PROVE OwnRecords'
      <3>1. [kind |-> "epoch", of |-> t0] \in Line
        BY DEF Line
      <3> QED
        BY <2>2, <2>3, <3>1 DEF EpochRead
    <2>4. ASSUME NEW kind \in {"P", "V"}, NEW sat \in Satellite,
                 NEW record \in Record, RecordRead(kind, sat, record)
          PROVE  OwnRecords'
      <3>1. [kind |-> kind, of |-> sat] \in Line
        BY DEF Line
      <3> QED
        BY <2>2, <2>4, <3>1 DEF RecordRead
    <2> QED
      BY <1>3, <2>1, <2>3, <2>4 DEF Goes
  <1> QED
    BY <1>2, <1>3, StepKinds DEF ParserInv

LEMMA OwnRecordsInvariance == Spec => []OwnRecords
  <1>1. Init => OwnRecords
    BY DEF Init, OwnRecords
  <1>2. ParserInv /\ OwnRecords /\ [Next]_vars => OwnRecords'
    BY OwnRecordsStep
  <1> QED
    BY <1>1, <1>2, ParserInvariance, PTL DEF Spec

\* A file that is returned has as many satellites as its header declares and
\* records of no others, in whatever order its lines stand.
THEOREM DeclaredSatellites == Spec => []SatellitesAsDeclared
  <1>1. ParserInv /\ OwnRecords => SatellitesAsDeclared
    <2> SUFFICES ASSUME ParserInv, OwnRecords, pc = "returned"
                 PROVE  SatellitesAsDeclared
      BY DEF SatellitesAsDeclared
    <2>1. declaredSatCount # NoCount /\ declaredSatCount > 0 /\ ~ CountDiffers
      BY DEF ParserInv, Result, Counted
    <2>2. Cardinality(satellites) = declaredSatCount
      BY <2>1 DEF CountDiffers
    <2>3. declaredSatCount \in Nat
      BY <2>1, TimesAssumption DEF ParserInv, Shape, HeadShape
    <2>4. satellites # {}
      BY <2>1, <2>2, <2>3, FS_EmptySet
    <2> QED
      BY <2>2, <2>4 DEF SatellitesAsDeclared, OwnRecords
  <1> QED
    BY <1>1, ParserInvariance, OwnRecordsInvariance, PTL

------------------------------------------------------------------------------
(* Sp3Parser: epochs and their records *)

EpochLines(i) == {j \in 1..i : body[j].kind = "epoch"}

\* The epochs are numbered in the order of their lines.
LEMMA EpochNumbers ==
  ASSUME Shape
  PROVE  /\ \A i \in 0 .. Len(body) :
              /\ IsFiniteSet(EpochLines(i)) /\ EpochOf(i) \in Nat
              /\ EpochOf(i) <= EpochOf(Len(body))
              /\ EpochOf(i) = Cardinality(EpochLines(i))
         /\ \A i \in 1 .. Len(body) : body[i].kind = "epoch" => EpochOf(i) >= 1
  <1>1. Len(body) \in Nat
    BY DEF Shape
  <1>2. ASSUME NEW i \in 0 .. Len(body)
        PROVE  /\ IsFiniteSet(EpochLines(i)) /\ EpochOf(i) \in Nat
               /\ EpochOf(i) = Cardinality(EpochLines(i))
    <2>1. IsFiniteSet(1 .. i)
      BY <1>1, FS_Interval
    <2>2. EpochLines(i) \in SUBSET (1 .. i)
      BY DEF EpochLines
    <2>3. IsFiniteSet(EpochLines(i))
      BY <2>1, <2>2, FS_Subset
    <2>4. EpochOf(i) = Cardinality(EpochLines(i))
      BY DEF EpochOf, EpochLines
    <2> QED
      BY <2>3, <2>4, FS_CardinalityType
  <1>3. ASSUME NEW i \in 0 .. Len(body)
        PROVE  EpochOf(i) <= EpochOf(Len(body))
    <2>1. EpochLines(i) \in SUBSET EpochLines(Len(body))
      BY <1>1 DEF EpochLines
    <2>2. Len(body) \in 0 .. Len(body)
      BY <1>1
    <2> QED
      BY <1>2, <2>1, <2>2, FS_Subset
  <1>4. ASSUME NEW i \in 1 .. Len(body), body[i].kind = "epoch"
        PROVE  EpochOf(i) >= 1
    <2>1. i \in EpochLines(i) /\ i \in 0 .. Len(body)
      BY <1>1, <1>4 DEF EpochLines
    <2>2. EpochOf(i) # 0
      BY <1>2, <2>1, FS_EmptySet
    <2> QED
      BY <1>2, <2>1, <2>2
  <1> QED
    BY <1>2, <1>3, <1>4

LEMMA EpochNumbersGrow ==
  ASSUME Shape, NEW line \in Line, body' = Append(body, line),
         NEW n \in Nat, n = Len(body)
  PROVE  /\ \A i \in 0 .. n : EpochOf(i)' = EpochOf(i)
         /\ EpochOf(n + 1)' = IF line.kind = "epoch" THEN EpochOf(n) + 1
                                                     ELSE EpochOf(n)
  <1>1. \A j \in 1 .. n : body'[j] = body[j]
    BY LineOf
  <1>2. body'[n + 1] = line
    BY LineOf
  <1>3. ASSUME NEW i \in 0 .. n PROVE EpochOf(i)' = EpochOf(i)
    <2>1. {j \in 1 .. i : body'[j].kind = "epoch"}
            = {j \in 1 .. i : body[j].kind = "epoch"}
      BY <1>1
    <2> QED
      BY <2>1 DEF EpochOf
  <1> DEFINE S == EpochLines(n)
             T == {j \in 1 .. n + 1 : body'[j].kind = "epoch"}
  <1>4. EpochOf(n + 1)' = Cardinality(T)
    BY DEF EpochOf
  <1>5. IsFiniteSet(S) /\ EpochOf(n) = Cardinality(S)
    BY EpochNumbers
  <1>6. T = IF line.kind = "epoch" THEN S \union {n + 1} ELSE S
    BY <1>1, <1>2 DEF EpochLines
  <1>7. n + 1 \notin S
    BY DEF EpochLines
  <1> HIDE DEF S, T
  <1>8. Cardinality(S \union {n + 1}) = Cardinality(S) + 1
    BY <1>5, <1>7, FS_AddElement
  <1> QED
    BY <1>3, <1>4, <1>5, <1>6, <1>8

\* The lines of this kind for the satellite in epoch e.
Found(kind, sat, e) ==
  {i \in DOMAIN body : /\ body[i].kind = kind /\ body[i].of = sat
                       /\ EpochOf(i) = e}

LEMMA LastLineIs ==
  ASSUME NEW kind, NEW sat, NEW e
  PROVE  LastLine(kind, sat, e) =
           IF Found(kind, sat, e) = {} THEN 0 ELSE Max(Found(kind, sat, e))
  BY DEF LastLine, Found

LEMMA MaxIs ==
  ASSUME NEW S \in SUBSET Int, NEW m \in S, \A x \in S : m >= x
  PROVE  Max(S) = m
  <1>1. \E x \in S : \A y \in S : x >= y
    OBVIOUS
  <1>2. Max(S) \in S /\ \A y \in S : Max(S) >= y
    BY <1>1, Zenon DEF Max
  <1>3. Max(S) >= m /\ m >= Max(S)
    BY <1>2, Zenon
  <1>4. Max(S) \in Int /\ m \in Int
    BY <1>2
  <1> QED
    BY <1>3, <1>4

\* An accepted line is the last one of its kind, satellite and epoch, and
\* leaves every other last line as it is.
LEMMA LastLineGrows ==
  ASSUME Shape, NEW line \in Line, body' = Append(body, line),
         NEW n \in Nat, n = Len(body),
         NEW kind, NEW sat, NEW e
  PROVE  LastLine(kind, sat, e)' =
           IF line.kind = kind /\ line.of = sat /\ EpochOf(n + 1)' = e
           THEN n + 1 ELSE LastLine(kind, sat, e)
  <1> DEFINE new == line.kind = kind /\ line.of = sat /\ EpochOf(n + 1)' = e
             S == Found(kind, sat, e)
             T == Found(kind, sat, e)'
  <1>1. /\ DOMAIN body = 1 .. n /\ DOMAIN body' = 1 .. n + 1
        /\ \A j \in 1 .. n : body'[j] = body[j]
        /\ body'[n + 1] = line
    BY LineOf DEF Shape
  <1>2. \A i \in 1 .. n : EpochOf(i)' = EpochOf(i)
    BY EpochNumbersGrow
  <1>3. T = {i \in 1 .. n + 1 : /\ body'[i].kind = kind /\ body'[i].of = sat
                                /\ EpochOf(i)' = e}
    BY <1>1 DEF Found
  <1>4. T = IF new THEN S \union {n + 1} ELSE S
    BY <1>1, <1>2, <1>3 DEF Found
  <1>5. LastLine(kind, sat, e)' = IF T = {} THEN 0 ELSE Max(T)
    BY DEF LastLine, Found
  <1>6. LastLine(kind, sat, e) = IF S = {} THEN 0 ELSE Max(S)
    BY LastLineIs
  <1>7. S \in SUBSET (1 .. n)
    BY <1>1 DEF Found
  <1> HIDE DEF new, S, T
  <1>8. CASE new
    <2>1. Max(T) = n + 1
      BY <1>4, <1>7, <1>8, MaxIs
    <2> QED
      BY <1>4, <1>5, <1>8, <2>1 DEF new
  <1>9. CASE ~ new
    BY <1>4, <1>5, <1>6, <1>9 DEF new
  <1> QED
    BY <1>8, <1>9

\* No line of an epoch that has not begun has been read.
LEMMA NothingAhead ==
  ASSUME Shape, NEW kind, NEW sat, NEW e \in Nat, e > EpochOf(Len(body))
  PROVE  LastLine(kind, sat, e) = 0
  <1>1. DOMAIN body = 1 .. Len(body) /\ Len(body) \in Nat
    BY DEF Shape
  <1>2. \A i \in 1 .. Len(body) : EpochOf(i) # e
    BY <1>1, EpochNumbers
  <1>3. Found(kind, sat, e) = {}
    BY <1>1, <1>2 DEF Found
  <1> QED
    BY <1>3, LastLineIs

\* RecordsStayInTheirEpoch, of one satellite in one epoch ...
FiledAt(e, s) ==
  IF s \in DOMAIN Epochs[e].sats
  THEN Epochs[e].sats[s] = [r |-> LastLine("P", s, e), v |-> LastLine("V", s, e)]
  ELSE LastLine("P", s, e) = 0 /\ LastLine("V", s, e) = 0

\* ... and of the whole file, also of one that is refused.
Filed ==
  /\ Len(Epochs) = EpochOf(Len(body))
  /\ \A i \in DOMAIN body :
       body[i].kind = "epoch" => Epochs[EpochOf(i)].tTaiNs = body[i].of
  /\ \A e \in DOMAIN Epochs : \A s \in Satellite : FiledAt(e, s)

\* An epoch is filed behind those that have been read, and is empty.
LEMMA EpochFiled ==
  ASSUME Shape, Filed, NEW t0 \in EpochTime, EpochRead(t0)
  PROVE  Filed'
  <1> DEFINE b == [tTaiNs |-> t0, sats |-> <<>>]
             line == [kind |-> "epoch", of |-> t0]
  <1> PICK n \in Nat : n = Len(body)
    BY DEF Shape
  <1> PICK N \in Nat : N = Len(Epochs)
    BY FlushedShape DEF Epochs
  <1>1. EpochOf(n) = N
    BY DEF Filed
  <1>2. Epochs' = Append(Epochs, b)
    <2>1. b \in BlockOf(satellites)
      BY NewEpoch
    <2>2. blocks' = Flushed /\ current' = b /\ b # NoEpoch
      BY <2>1, BlockIs DEF EpochRead
    <2> QED
      BY <2>2 DEF Epochs, Flushed
  <1>3. /\ DOMAIN Epochs = 1 .. N /\ DOMAIN Epochs' = 1 .. N + 1
        /\ Len(Epochs') = N + 1 /\ Epochs'[N + 1] = b
        /\ \A e \in 1 .. N : Epochs'[e] = Epochs[e]
    <2>1. Epochs \in Seq(BlockOf(satellites)) /\ b \in BlockOf(satellites)
      BY NewEpoch, FlushedShape DEF Epochs
    <2> HIDE DEF b
    <2> QED
      BY <1>2, <2>1, AppendProperties
  <1>4. line \in Line /\ body' = Append(body, line)
    BY DEF EpochRead, Line
  <1>5. /\ DOMAIN body = 1 .. n /\ DOMAIN body' = 1 .. n + 1 /\ Len(body') = n + 1
        /\ body'[n + 1] = line /\ \A i \in 1 .. n : body'[i] = body[i]
    BY <1>4, LineOf DEF Shape
  <1>6. (\A i \in 0 .. n : EpochOf(i)' = EpochOf(i)) /\ EpochOf(n + 1)' = N + 1
    BY <1>1, <1>4, EpochNumbersGrow
  <1>7. Len(Epochs') = EpochOf(Len(body))'
    <2>1. EpochOf(Len(body))' = EpochOf(n + 1)'
      BY <1>5 DEF EpochOf
    <2> QED
      BY <1>3, <1>6, <2>1
  <1>8. ASSUME NEW i \in 1 .. n + 1, body'[i].kind = "epoch"
        PROVE  (Epochs[EpochOf(i)].tTaiNs)' = body'[i].of
    <2>1. CASE i = n + 1
      BY <1>3, <1>5, <1>6, <2>1
    <2>2. CASE i # n + 1
      <3>1. i \in 1 .. n /\ body[i].kind = "epoch" /\ body'[i] = body[i]
        BY <1>5, <1>8, <2>2
      <3>2. EpochOf(i) \in 1 .. N /\ EpochOf(i)' = EpochOf(i)
        BY <1>1, <1>6, <3>1, EpochNumbers
      <3>3. Epochs[EpochOf(i)].tTaiNs = body[i].of
        BY <1>5, <3>1 DEF Filed
      <3> QED
        BY <1>3, <3>1, <3>2, <3>3
    <2> QED
      BY <2>1, <2>2
  <1>9. ASSUME NEW e \in 1 .. N + 1, NEW s \in Satellite
        PROVE  FiledAt(e, s)'
    <2>1. /\ LastLine("P", s, e)' = LastLine("P", s, e)
          /\ LastLine("V", s, e)' = LastLine("V", s, e)
      <3>1. line.kind # "P" /\ line.kind # "V"
        OBVIOUS
      <3> HIDE DEF line
      <3> QED
        BY <1>4, <3>1, LastLineGrows
    <2>2. CASE e = N + 1
      <3>1. DOMAIN Epochs'[e].sats = {}
        BY <1>3, <2>2, NewEpoch
      <3>2. LastLine("P", s, e) = 0 /\ LastLine("V", s, e) = 0
        <4>1. e \in Nat /\ e > EpochOf(Len(body))
          BY <1>1, <2>2
        <4> QED
          BY <4>1, NothingAhead
      <3> QED
        BY <2>1, <3>1, <3>2 DEF FiledAt
    <2>3. CASE e # N + 1
      <3>1. e \in 1 .. N /\ Epochs'[e] = Epochs[e] /\ FiledAt(e, s)
        BY <1>3, <2>3 DEF Filed
      <3> QED
        BY <2>1, <3>1 DEF FiledAt
    <2> QED
      BY <2>2, <2>3
  <1> HIDE DEF b, line
  <1> QED
    BY <1>3, <1>5, <1>7, <1>8, <1>9 DEF Filed

\* A record is filed in the epoch being read, and changes nothing else.
LEMMA RecordFiled ==
  ASSUME Shape, Filed, NEW kind \in {"P", "V"}, NEW sat \in Satellite,
         NEW record \in Record, RecordRead(kind, sat, record)
  PROVE  Filed'
  <1> DEFINE b == WithRecord(sat, record)
             line == [kind |-> kind, of |-> sat]
  <1> PICK n \in Nat : n = Len(body)
    BY DEF Shape
  <1> PICK m \in Nat : m = Len(blocks)
    BY DEF Shape
  <1> DEFINE N == m + 1
  <1>1. /\ current # NoEpoch /\ current \in BlockOf(satellites)
        /\ sat \in satellites /\ blocks \in Seq(BlockOf(satellites))
        /\ blocks' = blocks /\ current' = b
    BY DEF RecordRead, Shape
  <1>2. /\ b \in BlockOf(satellites) /\ b # NoEpoch
        /\ b.tTaiNs = current.tTaiNs
        /\ DOMAIN b.sats = DOMAIN current.sats \union {sat}
        /\ b.sats[sat] = record
        /\ \A s \in DOMAIN current.sats \ {sat} : b.sats[s] = current.sats[s]
    BY <1>1, WithRecordIs, BlockIs
  <1> HIDE DEF b
  <1>3. Epochs = Append(blocks, current) /\ Epochs' = Append(blocks, b)
    BY <1>1, <1>2 DEF Epochs, Flushed
  <1>4. /\ DOMAIN Epochs = 1 .. N /\ DOMAIN Epochs' = 1 .. N
        /\ Len(Epochs) = N /\ Len(Epochs') = N
        /\ Epochs[N] = current /\ Epochs'[N] = b
        /\ \A e \in 1 .. m : Epochs'[e] = Epochs[e]
    BY <1>1, <1>2, <1>3, AppendProperties
  <1>5. EpochOf(n) = N
    BY <1>4 DEF Filed
  <1>6. line \in Line /\ body' = Append(body, line)
    BY DEF RecordRead, Line
  <1>7. /\ DOMAIN body = 1 .. n /\ DOMAIN body' = 1 .. n + 1 /\ Len(body') = n + 1
        /\ body'[n + 1] = line /\ \A i \in 1 .. n : body'[i] = body[i]
    BY <1>6, LineOf DEF Shape
  <1>8. line.kind = kind /\ line.of = sat /\ line.kind # "epoch"
    OBVIOUS
  <1> HIDE DEF line
  <1>9. (\A i \in 0 .. n : EpochOf(i)' = EpochOf(i)) /\ EpochOf(n + 1)' = N
    BY <1>5, <1>6, <1>8, EpochNumbersGrow
  <1>10. Len(Epochs') = EpochOf(Len(body))'
    <2>1. EpochOf(Len(body))' = EpochOf(n + 1)'
      BY <1>7 DEF EpochOf
    <2> QED
      BY <1>4, <1>9, <2>1
  <1>11. ASSUME NEW i \in 1 .. n + 1, body'[i].kind = "epoch"
         PROVE  (Epochs[EpochOf(i)].tTaiNs)' = body'[i].of
    <2>1. i \in 1 .. n /\ body[i].kind = "epoch" /\ body'[i] = body[i]
      BY <1>7, <1>8, <1>11
    <2>2. EpochOf(i) \in 1 .. N /\ EpochOf(i)' = EpochOf(i)
      BY <1>5, <1>9, <2>1, EpochNumbers
    <2>3. Epochs[EpochOf(i)].tTaiNs = body[i].of
      BY <1>7, <2>1 DEF Filed
    <2>4. \A e \in 1 .. N : Epochs'[e].tTaiNs = Epochs[e].tTaiNs
      BY <1>2, <1>4
    <2> QED
      BY <2>1, <2>2, <2>3, <2>4
  <1>12. ASSUME NEW e \in 1 .. N, NEW s \in Satellite
         PROVE  FiledAt(e, s)'
    <2>1. FiledAt(e, s)
      BY <1>4 DEF Filed
    <2>2. \A k \in {"P", "V"} :
            LastLine(k, s, e)' = IF kind = k /\ sat = s /\ N = e
                                 THEN n + 1 ELSE LastLine(k, s, e)
      BY <1>6, <1>8, <1>9, LastLineGrows
    <2>3. CASE e # N
      <3>1. Epochs'[e] = Epochs[e]
        BY <1>4, <2>3
      <3> QED
        BY <2>1, <2>2, <2>3, <3>1 DEF FiledAt
    <2>4. CASE e = N /\ s # sat
      <3>1. /\ s \in DOMAIN Epochs'[e].sats <=> s \in DOMAIN Epochs[e].sats
            /\ s \in DOMAIN Epochs[e].sats =>
                 Epochs'[e].sats[s] = Epochs[e].sats[s]
        BY <1>2, <1>4, <2>4
      <3> QED
        BY <2>1, <2>2, <2>4, <3>1 DEF FiledAt
    <2>5. CASE e = N /\ s = sat
      <3>1. /\ sat \in DOMAIN Epochs'[e].sats /\ Epochs'[e].sats[sat] = record
        BY <1>2, <1>4, <2>5
      <3>2. /\ HasRecord(sat) <=> sat \in DOMAIN Epochs[e].sats
            /\ Epochs[e] = current
        BY <1>1, <1>4, <2>5 DEF HasRecord
      <3>3. CASE kind = "P"
        <4>1. record = [r |-> n + 1,
                        v |-> IF HasRecord(sat) THEN current.sats[sat].v ELSE 0]
          BY <3>3 DEF RecordRead
        <4>2. record.v = LastLine("V", sat, e)
          BY <2>1, <2>5, <3>2, <4>1 DEF FiledAt
        <4>3. record = [r |-> n + 1, v |-> LastLine("V", sat, e)]
          BY <4>1, <4>2
        <4>4. LastLine("P", s, e)' = n + 1
          BY <2>2, <2>5, <3>3
        <4>5. LastLine("V", s, e)' = LastLine("V", sat, e)
          BY <2>2, <2>5, <3>3
        <4> QED
          BY <2>5, <3>1, <4>3, <4>4, <4>5 DEF FiledAt
      <3>4. CASE kind = "V"
        <4>1. record = [r |-> current.sats[sat].r, v |-> n + 1] /\ HasRecord(sat)
          BY <3>4 DEF RecordRead
        <4>2. record.r = LastLine("P", sat, e)
          BY <2>1, <2>5, <3>2, <4>1 DEF FiledAt
        <4>3. record = [r |-> LastLine("P", sat, e), v |-> n + 1]
          BY <4>1, <4>2
        <4>4. LastLine("V", s, e)' = n + 1
          BY <2>2, <2>5, <3>4
        <4>5. LastLine("P", s, e)' = LastLine("P", sat, e)
          BY <2>2, <2>5, <3>4
        <4> QED
          BY <2>5, <3>1, <4>3, <4>4, <4>5 DEF FiledAt
      <3> QED
        BY <3>3, <3>4
    <2> QED
      BY <2>3, <2>4, <2>5
  <1> QED
    BY <1>4, <1>7, <1>10, <1>11, <1>12 DEF Filed

LEMMA FiledStep ==
  ASSUME ParserInv, Filed, [Next]_vars
  PROVE  Filed'
  <1>1. Shape
    BY DEF ParserInv
  <1>2. ASSUME body' = body, Flushed' = Flushed PROVE Filed'
    <2>1. Epochs' = Epochs
      BY <1>2 DEF Epochs
    <2>2. \A i : EpochOf(i)' = EpochOf(i)
      BY <1>2 DEF EpochOf
    <2>3. EpochOf(Len(body))' = EpochOf(Len(body))
      BY <1>2 DEF EpochOf
    <2>4. \A kind, sat, e : LastLine(kind, sat, e)' = LastLine(kind, sat, e)
      BY <1>2, <2>2 DEF LastLine
    <2>5. \A e, s : FiledAt(e, s)' = FiledAt(e, s)
      BY <2>1, <2>4 DEF FiledAt
    <2>6. \A i : (Epochs[EpochOf(i)].tTaiNs)' = Epochs[EpochOf(i)].tTaiNs
      BY <2>1, <2>2
    <2> QED
      BY <1>2, <2>1, <2>3, <2>5, <2>6 DEF Filed
  <1>3. CASE Thrown \/ UNCHANGED vars \/ HeaderRead
    BY <1>2, <1>3 DEF Thrown, HeaderRead, vars, Flushed
  <1>4. CASE EndOfText
    BY <1>1, <1>2, <1>4, EndIs DEF EndOfText
  <1>5. CASE Goes
    BY <1>1, <1>3, <1>5, EpochFiled, RecordFiled DEF Goes
  <1> QED
    BY <1>3, <1>4, <1>5, StepKinds DEF ParserInv

\* No accepted record is lost, doubled or filed in another epoch than the one
\* whose line stands above it, in whatever order P and V lines come.
THEOREM RecordsStay == Spec => []RecordsStayInTheirEpoch
  <1>1. Init => Filed
    <2> SUFFICES ASSUME Init PROVE Filed
      OBVIOUS
    <2>1. Epochs = <<>> /\ body = <<>>
      BY DEF Init, Epochs, Flushed
    <2>2. Shape
      BY InitShape
    <2>3. EpochOf(0) = 0
      <3>1. EpochLines(0) = {}
        BY DEF EpochLines
      <3>2. EpochOf(0) = Cardinality(EpochLines(0))
        BY <2>1, <2>2, EpochNumbers
      <3> QED
        BY <3>1, <3>2, FS_EmptySet
    <2> QED
      BY <2>1, <2>3 DEF Filed
  <1>2. ParserInv /\ Filed /\ [Next]_vars => Filed'
    BY FiledStep
  <1>3. Filed => RecordsStayInTheirEpoch
    BY DEF Filed, FiledAt, RecordsStayInTheirEpoch
  <1> QED
    BY <1>1, <1>2, <1>3, ParserInvariance, PTL DEF Spec

------------------------------------------------------------------------------
(* Sp3Parser: the grid report *)

LEMMA Product ==
  ASSUME NEW x \in Nat, NEW y \in Int, NEW z \in Int, y < z, x > 0
  PROVE  y * x < z * x
  OBVIOUS

LEMMA MultiplesDiffer ==
  ASSUME NEW k \in Nat, NEW m \in Nat, NEW step \in Int, step # 0,
         k * step = m * step
  PROVE  k = m
  <1>1. \A x \in Nat, y \in Int : y * (- x) = - (y * x)
    OBVIOUS
  <1>2. PICK x \in Nat : x > 0 /\ (step = x \/ step = - x)
    <2>1. CASE step > 0
      BY <2>1
    <2>2. CASE step < 0
      <3>1. - step \in Nat /\ - step > 0 /\ step = - (- step)
        BY <2>2
      <3> QED
        BY <3>1
    <2> QED
      BY <2>1, <2>2
  <1>3. k * x = m * x
    <2>1. CASE step = x
      BY <2>1
    <2>2. CASE step = - x
      <3>1. k * step = - (k * x) /\ m * step = - (m * x)
        BY <1>1, <2>2
      <3>2. k * x \in Int /\ m * x \in Int
        OBVIOUS
      <3> QED
        BY <3>1, <3>2
    <2> QED
      BY <1>2, <2>1, <2>2
  <1>4. ~ k < m
    <2> SUFFICES ASSUME k < m PROVE FALSE
      OBVIOUS
    <2>1. k * x < m * x
      BY <1>2, Product
    <2> QED
      BY <1>3, <2>1
  <1>5. ~ m < k
    <2> SUFFICES ASSUME m < k PROVE FALSE
      OBVIOUS
    <2>1. m * x < k * x
      BY <1>2, Product
    <2> QED
      BY <1>3, <2>1
  <1> QED
    BY <1>4, <1>5

\* A grid of n times has n times.
LEMMA GridCounts ==
  ASSUME NEW start \in Int, NEW step \in Int, step # 0, NEW n \in Nat
  PROVE  LET G == {start + k * step : k \in 0..(n - 1)}
         IN  IsFiniteSet(G) /\ Cardinality(G) = n
  <1> DEFINE K == 0..(n - 1)
             G == {start + k * step : k \in K}
             f == [k \in K |-> start + k * step]
  <1>1. IsFiniteSet(K) /\ Cardinality(K) = n
    <2>1. IsFiniteSet(K)
          /\ Cardinality(K) = IF 0 > n - 1 THEN 0 ELSE (n - 1) - 0 + 1
      BY FS_Interval
    <2> QED
      BY <2>1
  <1>2. f \in [K -> G]
    OBVIOUS
  <1>3. \A k, m \in K : f[k] = f[m] => k = m
    <2> SUFFICES ASSUME NEW k \in K, NEW m \in K,
                        start + k * step = start + m * step
                 PROVE  k = m
      OBVIOUS
    <2>1. k \in Nat /\ m \in Nat
      OBVIOUS
    <2>2. k * step \in Int /\ m * step \in Int
      BY <2>1
    <2>3. k * step = m * step
      BY <2>2
    <2> QED
      BY <2>1, <2>3, MultiplesDiffer
  <1>4. \A g \in G : \E k \in K : f[k] = g
    OBVIOUS
  <1> HIDE DEF K, f
  <1>5. f \in Bijection(K, G)
    BY <1>2, <1>3, <1>4 DEF Bijection, Injection, Surjection, IsInjective
  <1>6. ExistsBijection(K, G)
    BY <1>5 DEF ExistsBijection
  <1> HIDE DEF G
  <1>7. IsFiniteSet(G) /\ Cardinality(G) = n
    BY <1>1, <1>6, FS_Bijection
  <1> QED
    BY <1>7 DEF G, K

\* n epochs that show at least n times show each of them once and no other.
LEMMA EachOnce ==
  ASSUME NEW L \in Nat, NEW f \in [1 .. L -> Int],
         NEW G, IsFiniteSet(G), Cardinality(G) >= L,
         \A g \in G : \E i \in 1 .. L : f[i] = g
  PROVE  /\ Cardinality(G) = L
         /\ \A i \in 1 .. L : f[i] \in G
         /\ \A i, j \in 1 .. L : f[i] = f[j] => i = j
  <1> DEFINE T == {f[i] : i \in 1 .. L}
             S == 1 .. L
  <1>1. IsFiniteSet(S) /\ Cardinality(S) = L
    <2>1. IsFiniteSet(S) /\ Cardinality(S) = IF 1 > L THEN 0 ELSE L - 1 + 1
      BY FS_Interval
    <2> QED
      BY <2>1
  <1>2. f \in Surjection(S, T)
    BY DEF Surjection
  <1>3. /\ IsFiniteSet(T) /\ Cardinality(T) <= L
        /\ Cardinality(T) = L <=> f \in Injection(S, T)
    <2> HIDE DEF S, T
    <2> QED
      BY <1>1, <1>2, FS_Surjection
  <1>4. G \in SUBSET T
    OBVIOUS
  <1>5. G = T /\ Cardinality(G) = L
    <2> HIDE DEF T
    <2>1. /\ Cardinality(G) <= Cardinality(T)
          /\ Cardinality(T) = Cardinality(G) => T = G
      BY <1>3, <1>4, FS_Subset
    <2>2. Cardinality(T) \in Nat /\ Cardinality(G) \in Nat
      BY <1>3, FS_CardinalityType
    <2> QED
      BY <1>3, <2>1, <2>2
  <1>6. f \in Injection(S, T)
    BY <1>3, <1>5
  <1> QED
    BY <1>5, <1>6 DEF Injection, IsInjective

\* What the report is made from.
LEMMA Returned ==
  ASSUME ParserInv, pc = "returned"
  PROVE  /\ blocks \in Seq(BlockOf(satellites))
         /\ Len(blocks) \in Nat /\ Len(blocks) >= 1
         /\ DOMAIN blocks = 1 .. Len(blocks)
         /\ \A i \in 1 .. Len(blocks) :
              /\ blocks[i] \in BlockOf(satellites)
              /\ blocks[i].tTaiNs \in Int
              /\ DOMAIN blocks[i].sats \subseteq satellites
         /\ intervalNs \in Int /\ intervalNs # 0
         /\ gridSize \in Nat /\ declaredEpochs \in Nat \union {Undefined}
         /\ satellites # {}
  <1>1. /\ blocks \in Seq(BlockOf(satellites)) /\ blocks # <<>>
        /\ intervalNs \in Int /\ intervalNs # 0
        /\ declaredEpochs \in Nat \union {Undefined}
    BY DeclaredAssumption DEF ParserInv, Shape, HeadShape, Result
  <1>2. /\ Len(blocks) \in Nat /\ Len(blocks) >= 1
        /\ DOMAIN blocks = 1 .. Len(blocks)
        /\ \A i \in 1 .. Len(blocks) : blocks[i] \in BlockOf(satellites)
    BY <1>1
  <1>3. \A i \in 1 .. Len(blocks) :
          /\ blocks[i].tTaiNs \in Int
          /\ DOMAIN blocks[i].sats \subseteq satellites
    BY <1>2, BlockIs, TimesAssumption
  <1>4. gridSize \in Nat
    BY <1>1, <1>2 DEF gridSize, nGrid, Undefined
  <1>5. satellites # {}
    <2>1. declaredSatCount > 0 /\ Cardinality(satellites) = declaredSatCount
      BY DEF ParserInv, Result, Counted, CountDiffers
    <2>2. declaredSatCount \in Nat
      BY TimesAssumption DEF ParserInv, Shape, HeadShape, Result
    <2> QED
      BY <2>1, <2>2, FS_EmptySet
  <1> QED
    BY <1>1, <1>2, <1>3, <1>4, <1>5

GridTimes(n) == {blocks[1].tTaiNs + k * intervalNs : k \in 0..(n - 1)}

\* If a satellite has no gap in a grid of at least as many times as there are
\* epochs, the epochs are the grid, each of them once, and it is in each.
LEMMA NoGap ==
  ASSUME ParserInv, pc = "returned",
         NEW n \in Nat, n >= Len(blocks),
         NEW sat, gapsFor(blocks, intervalNs, n, sat) = {}
  PROVE  /\ n = Len(blocks)
         /\ \A i \in 1 .. n : blocks[i].tTaiNs \in GridTimes(n)
         /\ \A g \in GridTimes(n) : \E i \in 1 .. n : blocks[i].tTaiNs = g
         /\ \A i, j \in 1 .. n : blocks[i].tTaiNs = blocks[j].tTaiNs => i = j
         /\ \A i \in 1 .. n : sat \in DOMAIN blocks[i].sats
  <1> DEFINE L == Len(blocks)
             G == GridTimes(n)
             f == [i \in 1 .. L |-> blocks[i].tTaiNs]
  <1>1. L \in Nat /\ f \in [1 .. L -> Int] /\ DOMAIN blocks = 1 .. L
    BY Returned
  <1>2. IsFiniteSet(G) /\ Cardinality(G) = n
    <2>1. blocks[1].tTaiNs \in Int
      BY Returned
    <2> QED
      BY <2>1, Returned, GridCounts DEF GridTimes
  <1>3. \A g \in G : sat \in satsAt(blocks, g)
    BY DEF gapsFor, GridTimes
  <1>4. \A g \in G : \E i \in 1 .. L : blocks[i].tTaiNs = g
    <2> SUFFICES ASSUME NEW g \in G PROVE \E i \in 1 .. L : blocks[i].tTaiNs = g
      OBVIOUS
    <2>1. sat \in satsAt(blocks, g)
      BY <1>3
    <2>2. {i \in DOMAIN blocks : blocks[i].tTaiNs = g} # {}
      BY <2>1 DEF satsAt
    <2> QED
      BY <1>1, <2>2
  <1>5. \A g \in G : \E i \in 1 .. L : f[i] = g
    BY <1>4
  <1>6. \A i \in 1 .. L : f[i] = blocks[i].tTaiNs
    OBVIOUS
  <1> HIDE DEF f, L
  <1>7. /\ Cardinality(G) = L /\ (\A i \in 1 .. L : f[i] \in G)
        /\ \A i, j \in 1 .. L : f[i] = f[j] => i = j
    <2> HIDE DEF G
    <2>1. Cardinality(G) >= L
      BY <1>2 DEF L
    <2> QED
      BY <1>1, <1>2, <1>5, <2>1, EachOnce
  <1>8. n = L
    BY <1>2, <1>7
  <1>9. ASSUME NEW i \in 1 .. L PROVE sat \in DOMAIN blocks[i].sats
    <2> DEFINE g == blocks[i].tTaiNs
               at == {j \in DOMAIN blocks : blocks[j].tTaiNs = g}
    <2>1. at = {i}
      BY <1>1, <1>6, <1>7
    <2>2. sat \in satsAt(blocks, g)
      BY <1>3, <1>6, <1>7
    <2>3. satsAt(blocks, g) = DOMAIN blocks[Max(at)].sats
      BY <2>1 DEF satsAt
    <2>4. Max(at) = i
      <3>1. at \in SUBSET Int /\ i \in at /\ \A x \in at : i >= x
        BY <1>1, <2>1
      <3> HIDE DEF at
      <3> QED
        BY <3>1, MaxIs
    <2> QED
      BY <2>2, <2>3, <2>4
  <1> QED
    BY <1>4, <1>6, <1>7, <1>8, <1>9 DEF L

LEMMA Complete ==
  ASSUME ParserInv
  PROVE  CompleteMeansComplete
  <1> DEFINE n == Len(blocks)
  <1> SUFFICES ASSUME pc = "returned",
                      gridComplete(blocks, intervalNs, declaredEpochs, satellites)
               PROVE  /\ {b.tTaiNs : b \in {blocks[i] : i \in DOMAIN blocks}}
                           = GridTimes(n)
                      /\ \A i, j \in DOMAIN blocks :
                           blocks[i].tTaiNs = blocks[j].tTaiNs => i = j
                      /\ \A i \in DOMAIN blocks : DOMAIN blocks[i].sats = satellites
    BY DEF CompleteMeansComplete, GridTimes
  <1>1. /\ n \in Nat /\ DOMAIN blocks = 1 .. n /\ satellites # {}
        /\ \A i \in 1 .. n : DOMAIN blocks[i].sats \subseteq satellites
    BY Returned
  <1>2. \A sat \in satellites : gapsFor(blocks, intervalNs, n, sat) = {}
    BY DEF gridComplete
  <1>3. ASSUME NEW sat \in satellites
        PROVE  /\ \A i \in 1 .. n : blocks[i].tTaiNs \in GridTimes(n)
               /\ \A g \in GridTimes(n) : \E i \in 1 .. n : blocks[i].tTaiNs = g
               /\ \A i, j \in 1 .. n : blocks[i].tTaiNs = blocks[j].tTaiNs => i = j
               /\ \A i \in 1 .. n : sat \in DOMAIN blocks[i].sats
    <2>1. gapsFor(blocks, intervalNs, n, sat) = {}
      BY <1>2
    <2>2. n >= Len(blocks) /\ Len(blocks) = n
      BY <1>1
    <2> HIDE DEF n
    <2> QED
      BY <1>1, <2>1, <2>2, NoGap
  <1>4. \A i \in 1 .. n : DOMAIN blocks[i].sats = satellites
    BY <1>1, <1>3
  <1>5. PICK sat \in satellites : TRUE
    BY <1>1
  <1>6. {b.tTaiNs : b \in {blocks[i] : i \in DOMAIN blocks}} = GridTimes(n)
    <2>1. {b.tTaiNs : b \in {blocks[i] : i \in DOMAIN blocks}}
            = {blocks[i].tTaiNs : i \in 1 .. n}
      BY <1>1
    <2> QED
      BY <1>3, <1>5, <2>1
  <1> QED
    BY <1>1, <1>3, <1>4, <1>5, <1>6

\* A multiple of the interval within the grid is on the grid.
LEMMA MultiplesFit ==
  ASSUME NEW step \in Int, step > 0, NEW n \in Nat, NEW k \in 0..(n - 1)
  PROVE  OnGrid(k * step, step, n)
  <1>1. /\ k \in Nat /\ step \in Nat /\ k < n
    OBVIOUS
  <1>2. k * step \in Nat
    BY <1>1
  <1>3. (k * step) % step = 0 /\ (k * step) \div step = k
    BY <1>1
  <1> QED
    BY <1>1, <1>2, <1>3 DEF OnGrid, AbsOf

LEMMA Shifted ==
  ASSUME ParserInv
  PROVE  ShiftedEpochLeavesGap
  <1> DEFINE n == gridSize
  <1> SUFFICES ASSUME pc = "returned", intervalNs > 0, Len(blocks) <= n,
                      NEW sat \in satellites,
                      gapsFor(blocks, intervalNs, n, sat) = {},
                      NEW i \in offGrid(blocks, intervalNs, n)
               PROVE  FALSE
    BY DEF ShiftedEpochLeavesGap
  <1>1. n \in Nat /\ Len(blocks) \in Nat /\ DOMAIN blocks = 1 .. Len(blocks)
        /\ intervalNs \in Int /\ Len(blocks) >= 1
    BY Returned
  <1> HIDE DEF n
  <1>2. i \in 1 .. Len(blocks)
        /\ ~ OnGrid(blocks[i].tTaiNs - blocks[1].tTaiNs, intervalNs, n)
    BY <1>1 DEF offGrid
  <1>3. n = Len(blocks) /\ \A j \in 1 .. n : blocks[j].tTaiNs \in GridTimes(n)
    BY <1>1, NoGap
  <1>4. PICK k \in 0..(n - 1) :
          blocks[i].tTaiNs = blocks[1].tTaiNs + k * intervalNs
    BY <1>2, <1>3 DEF GridTimes
  <1>5. blocks[i].tTaiNs - blocks[1].tTaiNs = k * intervalNs
    <2>1. blocks[1].tTaiNs \in Int /\ k * intervalNs \in Int
      BY <1>1, Returned
    <2> QED
      BY <1>4, <2>1
  <1> QED
    BY <1>1, <1>2, <1>4, <1>5, MultiplesFit

\* A file that is called complete is complete, and an epoch off the grid is
\* also seen in the gaps, for files of every length and every grid.
THEOREM GridReport == Spec => []GridReportHonest
  <1>1. ParserInv => GridReportHonest
    BY Complete, Shifted DEF GridReportHonest
  <1> QED
    BY <1>1, ParserInvariance, PTL

------------------------------------------------------------------------------
(* Sp3Worldline *)

Searched == {"edge", "notEquidistant", "invalidMathExpr", "answered"}

\* What the comparisons with t have shown of the bounds.
Bracket ==
  phase \in {"search"} \union Searched =>
    /\ lo <= hi /\ hi <= last
    /\ times(lo) <= t
    /\ hi = last \/ t < times(hi + 1)

\* What an outcome says of the node that was found.
Verdict ==
  /\ phase \in Searched => lo = hi
  /\ phase = "edge" => ~ InCore
  /\ phase = "notEquidistant" => ~ Equidistant(lo - half)
  /\ phase = "answered" => points >= 2 /\ InCore /\ Equidistant(lo - half)
  /\ phase = "outsideFile" => t < times(0) \/ t > times(last)

IInv == WorldlineTypeOK /\ Bracket /\ Verdict

LEMMA TimesType ==
  ASSUME view \in View, NEW k \in 0..last
  PROVE  times(k) \in Int
  <1>1. view.times \in Seq(Int)
    BY DEF View
  <1>2. Len(view.times) \in Nat /\ k + 1 \in 1..Len(view.times)
    BY <1>1 DEF last
  <1> QED
    BY <1>1, <1>2 DEF times

\* Facts about a worldline that has been built.
LEMMA Built ==
  ASSUME WorldlineTypeOK, source # "none"
  PROVE  /\ view \in View /\ points \in Nat \ {0}
         /\ last \in Nat /\ points <= last + 1
         /\ view.intervalNs \in Int
         /\ half \in Nat /\ half <= points - 1
         /\ points >= 2 => half < points - 1
         /\ kMin \in Int /\ kMax \in Int /\ kMin = half
         /\ kMax = last - (points - 1 - half)
         /\ t \in Int /\ lo \in Nat /\ hi \in Nat
  <1>1. view \in View /\ points \in Nat \ {0} /\ points <= Len(view.times)
    BY PointsAssumption DEF WorldlineTypeOK
  <1>2. Len(view.times) \in Nat /\ view.intervalNs \in Int
    BY <1>1 DEF View
  <1>3. last \in Nat /\ points <= last + 1
    BY <1>1, <1>2 DEF last
  <1>4. half \in Nat /\ half <= points - 1 /\ (points >= 2 => half < points - 1)
    BY <1>1 DEF half
  <1> QED
    BY <1>1, <1>2, <1>3, <1>4 DEF WorldlineTypeOK, kMin, kMax

LEMMA InitInv == WorldlineInit => IInv
  BY ViewsAssumption
  DEF WorldlineInit, IInv, WorldlineTypeOK, Bracket, Verdict, Searched, Outcomes

LEMMA ConstructInv ==
  ASSUME IInv, NEW src \in {"auto", "records", "derivative"}, Construct(src)
  PROVE  IInv'
  <1>1. /\ phase = "new" /\ phase' \in {"tooFewEpochs", "missingField", "ready"}
        /\ view' = view /\ points' = points /\ t' = t /\ lo' = lo /\ hi' = hi
    BY DEF Construct
  <1>2. \/ source' = source /\ phase' # "ready"
        \/ /\ source' \in {"records", "derivative"}
           /\ points <= Len(view.times)
           /\ source' = "records" => view.hasRecords
    <2>1. view \in View
      BY DEF IInv, WorldlineTypeOK
    <2>2. Len(view.times) \in Nat /\ points \in Nat
      BY <2>1, PointsAssumption DEF View, IInv, WorldlineTypeOK
    <2> QED
      BY <2>2 DEF Construct
  <1>3. WorldlineTypeOK'
    BY <1>1, <1>2 DEF IInv, WorldlineTypeOK, Outcomes
  <1> QED
    BY <1>1, <1>3 DEF IInv, Bracket, Verdict, Searched

LEMMA AskInv ==
  ASSUME IInv, NEW tNs \in Query, Ask(tNs)
  PROVE  IInv'
  <1>1. /\ phase = "ready" /\ t' = tNs /\ phase' \in {"search", "outsideFile"}
        /\ view' = view /\ points' = points /\ source' = source
        /\ last' = last
    BY DEF Ask, last
  <1>2. tNs \in Int /\ source # "none"
    BY <1>1, QueryAssumption DEF IInv, WorldlineTypeOK
  <1>3. last \in Nat
    BY <1>2, Built DEF IInv
  <1>4. CASE phase' = "search"
    <2>1. /\ lo' = 0 /\ hi' = last
          /\ view.times[1] <= tNs
      BY <1>4 DEF Ask, times
    <2>2. WorldlineTypeOK'
      BY <1>1, <1>2, <1>3, <1>4, <2>1 DEF IInv, WorldlineTypeOK, Outcomes
    <2> QED
      BY <1>1, <1>3, <1>4, <2>1, <2>2
      DEF IInv, Bracket, Verdict, Searched, times
  <1>5. CASE phase' = "outsideFile"
    <2>1. lo' = lo /\ hi' = hi /\ (tNs < times(0) \/ tNs > times(last))
      BY <1>5 DEF Ask
    <2>2. WorldlineTypeOK'
      BY <1>1, <1>2, <1>5, <2>1 DEF IInv, WorldlineTypeOK, Outcomes
    <2> QED
      BY <1>1, <1>5, <2>1, <2>2 DEF IInv, Bracket, Verdict, Searched, times
  <1> QED
    BY <1>1, <1>4, <1>5

LEMMA SearchInv ==
  ASSUME IInv, Search
  PROVE  IInv'
  <1>1. /\ phase = "search" /\ phase' = phase /\ lo < hi /\ t' = t
        /\ view' = view /\ points' = points /\ source' = source
        /\ last' = last
    BY DEF Search, last
  <1>2. /\ source # "none" /\ lo \in Nat /\ hi \in Nat /\ t \in Int
        /\ lo <= hi /\ hi <= last /\ times(lo) <= t
        /\ hi = last \/ t < times(hi + 1)
    BY <1>1 DEF IInv, WorldlineTypeOK, Bracket
  <1>3. last \in Nat /\ view \in View
    BY <1>2, Built DEF IInv
  <1>4. mid \in Nat /\ lo < mid /\ mid <= hi
    BY <1>1, <1>2 DEF mid
  <1>5. times(mid) \in Int
    BY <1>2, <1>3, <1>4, TimesType
  <1>6. \/ lo' = mid /\ hi' = hi /\ times(mid) <= t
        \/ lo' = lo /\ hi' = mid - 1 /\ t < times(mid)
    BY <1>2, <1>5 DEF Search
  <1>7. WorldlineTypeOK'
    BY <1>1, <1>2, <1>3, <1>4, <1>6 DEF IInv, WorldlineTypeOK, Outcomes
  <1>8. Bracket'
    <2>1. lo' <= hi' /\ hi' <= last
      BY <1>2, <1>3, <1>4, <1>6
    <2>2. times(lo') <= t
      BY <1>2, <1>6
    <2>3. hi' = last \/ t < times(hi' + 1)
      <3>1. (mid - 1) + 1 = mid
        BY <1>4
      <3> QED
        BY <1>2, <1>6, <3>1
    <2> QED
      BY <1>1, <2>1, <2>2, <2>3 DEF Bracket, times
  <1>9. Verdict'
    BY <1>1 DEF Verdict, Searched
  <1> QED
    BY <1>7, <1>8, <1>9 DEF IInv

LEMMA FinishInv ==
  ASSUME IInv, Finish
  PROVE  IInv'
  <1>1. /\ phase = "search" /\ lo >= hi /\ phase' \in Searched
        /\ view' = view /\ points' = points /\ source' = source
        /\ t' = t /\ lo' = lo /\ hi' = hi
    BY DEF Finish, Searched
  <1>2. lo = hi /\ points \in Nat
    BY <1>1, PointsAssumption DEF IInv, WorldlineTypeOK
  <1>3. WorldlineTypeOK'
    BY <1>1 DEF IInv, WorldlineTypeOK, Outcomes, Searched
  <1>4. Bracket'
    BY <1>1 DEF IInv, Bracket, times, last
  <1>5. /\ phase' = "edge" => ~ InCore
        /\ phase' = "notEquidistant" => ~ Equidistant(lo - half)
        /\ phase' = "answered" =>
             points >= 2 /\ InCore /\ Equidistant(lo - half)
    BY <1>2 DEF Finish
  <1>6. (InCore)' = InCore /\ (Equidistant(lo - half))' = Equidistant(lo - half)
    BY <1>1
    DEF InCore, kMin, kMax, half, last, Equidistant, NodeFits, times
  <1>7. Verdict'
    BY <1>1, <1>2, <1>5, <1>6 DEF Verdict, Searched
  <1> QED
    BY <1>3, <1>4, <1>7 DEF IInv

LEMMA ReturnInv ==
  ASSUME IInv, Return
  PROVE  IInv'
  BY DEF IInv, Return, WorldlineTypeOK, Outcomes, Bracket, Verdict, Searched

LEMMA StutterInv ==
  ASSUME IInv, UNCHANGED worldlineVars
  PROVE  IInv'
  <1>1. /\ view' = view /\ points' = points /\ source' = source
        /\ phase' = phase /\ t' = t /\ lo' = lo /\ hi' = hi
    BY DEF worldlineVars
  <1>2. (InCore)' = InCore /\ (Equidistant(lo - half))' = Equidistant(lo - half)
    BY <1>1
    DEF InCore, kMin, kMax, half, last, Equidistant, NodeFits, times
  <1>3. WorldlineTypeOK'
    BY <1>1 DEF IInv, WorldlineTypeOK, last, Outcomes
  <1>4. Bracket'
    BY <1>1 DEF IInv, Bracket, times, last
  <1>5. Verdict'
    BY <1>1, <1>2 DEF IInv, Verdict, times, last
  <1> QED
    BY <1>3, <1>4, <1>5 DEF IInv

LEMMA NextInv == IInv /\ [WorldlineNext]_worldlineVars => IInv'
  <1> SUFFICES ASSUME IInv, [WorldlineNext]_worldlineVars PROVE IInv'
    OBVIOUS
  <1>1. ASSUME NEW src \in {"auto", "records", "derivative"}, Construct(src)
        PROVE  IInv'
    BY <1>1, ConstructInv
  <1>2. ASSUME NEW tNs \in Query, Ask(tNs) PROVE IInv'
    BY <1>2, AskInv
  <1>3. CASE Evaluate
    BY <1>3, SearchInv, FinishInv DEF Evaluate
  <1>4. CASE Return
    BY <1>4, ReturnInv
  <1>5. CASE Failed \/ UNCHANGED worldlineVars
    BY <1>5, StutterInv DEF Failed
  <1> QED
    BY <1>1, <1>2, <1>3, <1>4, <1>5 DEF WorldlineNext

LEMMA Invariance == WorldlineSpec => []IInv
  BY InitInv, NextInv, PTL DEF WorldlineSpec

------------------------------------------------------------------------------
\* The types, among them that the search stays within the epochs read.
THEOREM WorldlineTypeCorrect == WorldlineSpec => []WorldlineTypeOK
  BY Invariance, PTL DEF IInv

LEMMA OneMore ==
  ASSUME NEW n \in Int, NEW x \in Int
  PROVE  (n + 1) * x = n * x + x
  OBVIOUS

LEMMA CentredWindow == IInv => AnsweredFromCentredWindow
  <1> SUFFICES ASSUME IInv, phase = "answered" PROVE AnsweredFromCentredWindow
    BY DEF AnsweredFromCentredWindow
  <1>1. /\ source # "none" /\ points >= 2 /\ InCore /\ Equidistant(lo - half)
        /\ lo = hi /\ times(lo) <= t /\ (lo = last \/ t < times(lo + 1))
    BY DEF IInv, WorldlineTypeOK, Bracket, Verdict, Searched, Outcomes
  <1>2. /\ view \in View /\ points \in Nat \ {0}
        /\ last \in Nat /\ points <= last + 1 /\ view.intervalNs \in Int
        /\ half \in Nat /\ half < points - 1
        /\ kMin = half /\ kMax = last - (points - 1 - half) /\ lo \in Nat
    BY <1>1, Built DEF IInv
  <1>3. half <= lo /\ lo <= kMax /\ lo < last /\ lo \in kMin..kMax
    BY <1>1, <1>2 DEF InCore
  <1>4. Usable(lo)
    BY <1>1, <1>3 DEF Usable
  <1>5. times(lo + 1) - times(lo) = view.intervalNs
    <2>1. (lo - half) + (half + 1) = lo + 1 /\ (lo - half) + half = lo
      BY <1>2, <1>3
    <2>2. times(lo + 1) - times(lo - half) = (half + 1) * view.intervalNs
      <3>1. half + 1 \in 1..(points - 1)
        BY <1>2
      <3>2. NodeFits(lo - half, half + 1)
        BY <1>1, <3>1 DEF Equidistant
      <3> QED
        BY <2>1, <3>2 DEF NodeFits
    <2>3. times(lo) - times(lo - half) = half * view.intervalNs
      <3>1. CASE half = 0
        <4>1. times(lo) \in Int
          BY <1>2, <1>3, TimesType
        <4>2. lo - half = lo
          BY <1>2, <3>1
        <4> QED
          BY <1>2, <3>1, <4>1, <4>2
      <3>2. CASE half > 0
        <4>1. half \in 1..(points - 1)
          BY <1>2, <3>2
        <4>2. NodeFits(lo - half, half)
          BY <1>1, <4>1 DEF Equidistant
        <4> QED
          BY <2>1, <4>2 DEF NodeFits
      <3> QED
        BY <1>2, <3>1, <3>2
    <2>4. /\ times(lo + 1) \in Int /\ times(lo) \in Int
          /\ times(lo - half) \in Int
      BY <1>2, <1>3, TimesType
    <2>5. (half + 1) * view.intervalNs
            = half * view.intervalNs + view.intervalNs
      <3>1. half \in Int /\ view.intervalNs \in Int
        BY <1>2
      <3> QED
        BY <3>1, OneMore, Zenon
    <2>6. half * view.intervalNs \in Int
      BY <1>2
    <2> QED
      BY <1>2, <2>2, <2>3, <2>4, <2>5, <2>6
  <1> QED
    BY <1>4, <1>5 DEF AnsweredFromCentredWindow

\* A state is only returned from a centred window of equidistant nodes around
\* the time asked for, in whatever order the epochs of the file stand.
THEOREM CentredWindows == WorldlineSpec => []AnsweredFromCentredWindow
  BY Invariance, CentredWindow, PTL

LEMMA FoundWhereUsable == IInv => AnswersWhereItCan
  <1> SUFFICES ASSUME IInv, Ascending, points > 1,
                      phase \in {"outsideFile", "edge", "notEquidistant"},
                      NEW k \in kMin..kMax, Usable(k)
               PROVE  FALSE
    BY DEF AnswersWhereItCan
  <1>1. source # "none"
    BY DEF IInv, WorldlineTypeOK, Outcomes
  <1>2. /\ view \in View /\ points \in Nat \ {0} /\ last \in Nat
        /\ half \in Nat /\ half < points - 1
        /\ kMin \in Int /\ kMax \in Int /\ kMin = half
        /\ kMax = last - (points - 1 - half)
        /\ t \in Int /\ lo \in Nat /\ hi \in Nat
    BY <1>1, Built DEF IInv
  <1>3. k \in Nat /\ k < last /\ k + 1 \in 0..last
    BY <1>2
  <1>4. times(k) <= t /\ t < times(k + 1) /\ Equidistant(k - half)
    BY DEF Usable
  <1>5. \A i \in 0..last : times(i) \in Int
    BY <1>2, TimesType
  <1>6. ASSUME NEW i \in 0..last, NEW j \in 0..last, i <= j
        PROVE  times(i) <= times(j)
    <2>1. CASE i = j
      BY <1>5, <2>1
    <2>2. CASE i < j
      BY <1>5, <2>2 DEF Ascending
    <2> QED
      BY <1>2, <1>6, <2>1, <2>2
  <1>7. CASE phase = "outsideFile"
    <2>1. t < times(0) \/ t > times(last)
      BY <1>7 DEF IInv, Verdict
    <2>2. times(0) <= times(k) /\ times(k + 1) <= times(last)
      BY <1>2, <1>3, <1>6
    <2> QED
      BY <1>2, <1>3, <1>4, <1>5, <2>1, <2>2
  <1>8. CASE phase \in {"edge", "notEquidistant"}
    <2>1. /\ lo = hi /\ hi <= last /\ times(lo) <= t
          /\ lo = last \/ t < times(lo + 1)
      BY <1>8 DEF IInv, Bracket, Verdict, Searched
    <2>2. ~ lo < k
      <3> SUFFICES ASSUME lo < k PROVE FALSE
        OBVIOUS
      <3>1. lo + 1 \in 0..last /\ lo + 1 <= k /\ lo # last
        BY <1>2, <1>3
      <3>2. times(lo + 1) <= times(k)
        BY <1>2, <1>3, <1>6, <3>1
      <3> QED
        BY <1>2, <1>3, <1>4, <1>5, <2>1, <3>1, <3>2
    <2>3. ~ lo > k
      <3> SUFFICES ASSUME lo > k PROVE FALSE
        OBVIOUS
      <3>1. lo \in 0..last /\ k + 1 <= lo
        BY <1>2, <1>3, <2>1
      <3>2. times(k + 1) <= times(lo)
        BY <1>3, <1>6, <3>1
      <3> QED
        BY <1>2, <1>3, <1>4, <1>5, <2>1, <3>1, <3>2
    <2>4. lo = k
      BY <1>2, <1>3, <2>2, <2>3
    <2>5. InCore /\ Equidistant(lo - half)
      BY <1>2, <1>4, <2>4 DEF InCore
    <2> QED
      BY <1>8, <2>5 DEF IInv, Verdict
  <1> QED
    BY <1>7, <1>8

\* Where the epochs ascend, stateAt refuses no time that it could answer.
THEOREM NothingMissed == WorldlineSpec => []AnswersWhereItCan
  BY Invariance, FoundWhereUsable, PTL
==============================================================================
