-------------------------------- MODULE Engine --------------------------------
(***************************************************************************)
(* The pure part of the engine: conversion between the built-in time       *)
(* scales over the table of leap seconds (packages/cg-engine/src/mapping.ts *)
(* and convertValue of engine.ts), machine ids, and the Allen relation of   *)
(* two intervals (allenRelation of engine.ts).                              *)
(*                                                                         *)
(* Times are whole seconds.  The table and the epochs are parameters; the   *)
(* text of a date counts as the second iso8601ToSeconds makes of it.  A     *)
(* machine id, a hash, is the tuple it is computed from.                    *)
(***************************************************************************)
EXTENDS Integers, Sequences

CONSTANTS
  LeapTable,   \* <<second UTC, TAI - UTC from there on>>, in order of time
  UnixEpoch,   \* 1970-01-01T00:00:00Z
  GpsEpoch,    \* 1980-01-06T00:00:00Z
  TaiMinusGps

Rows == 1 .. Len(LeapTable)
CURRENT_TAI_MINUS_UTC == LeapTable[Len(LeapTable)][2]

\* Leap seconds are seldom: between two rows lies more than the offset itself.
ASSUME LeapAssumption ==
  /\ LeapTable \in Seq(Int \X (Nat \ {0})) /\ LeapTable # <<>>
  /\ \A i, j \in Rows :
       i < j => /\ LeapTable[i][1] + CURRENT_TAI_MINUS_UTC < LeapTable[j][1]
                /\ LeapTable[i][2] < LeapTable[j][2]
ASSUME EpochAssumption ==
  UnixEpoch \in Int /\ GpsEpoch \in Int /\ TaiMinusGps \in Nat

------------------------------------------------------------------------------
(* Leap seconds *)

\* How many rows are passed before the loop meets one later than utc.
RowsPassed(utc) ==
  CHOOSE k \in 0 .. Len(LeapTable) :
    /\ \A i \in 1 .. k : LeapTable[i][1] <= utc
    /\ k < Len(LeapTable) => utc < LeapTable[k + 1][1]

taiMinusUtcAt(utc) ==
  LET k == RowsPassed(utc) IN IF k = 0 THEN 0 ELSE LeapTable[k][2]

utcToTai(utc) == utc + taiMinusUtcAt(utc)

\* Corrects a first guess, a given number of times.
Refine(tai, u) == tai - taiMinusUtcAt(u)
taiToUtcOnce(tai) == Refine(tai, tai - CURRENT_TAI_MINUS_UTC)
taiToUtc(tai) == Refine(tai, Refine(tai, Refine(tai, tai - CURRENT_TAI_MINUS_UTC)))

gpsToTai(gps) == GpsEpoch + gps + TaiMinusGps
taiToGps(tai) == tai - GpsEpoch - TaiMinusGps

------------------------------------------------------------------------------
(* Conversions and ids *)

\* The pairs convertValue knows; declared mappings are never executed.
Convertible ==
  {<<"UTC", "TAI">>, <<"TAI", "UTC">>, <<"GPS", "TAI">>, <<"TAI", "GPS">>,
   <<"Unix", "UTC">>, <<"Unix", "TAI">>}
TargetFound(from, to) == from = to \/ <<from, to>> \in Convertible

convertValue(value, from, to) ==
  CASE from = to -> value
    [] <<from, to>> = <<"UTC", "TAI">> -> utcToTai(value)
    [] <<from, to>> = <<"TAI", "UTC">> -> taiToUtc(value)
    [] <<from, to>> = <<"GPS", "TAI">> -> gpsToTai(value)
    [] <<from, to>> = <<"TAI", "GPS">> -> taiToGps(value)
    [] <<from, to>> = <<"Unix", "UTC">> -> value + UnixEpoch
    [] <<from, to>> = <<"Unix", "TAI">> -> utcToTai(value + UnixEpoch)

\* A domain without a conversion counts its own values as TAI.
absoluteValue(domain, value) ==
  IF TargetFound(domain, "TAI") THEN convertValue(value, domain, "TAI") ELSE value

computeMachineId(name, abs, version) == <<name, abs, version>>
computeCGFI(timepoint, content, type) == <<timepoint, content, type>>

------------------------------------------------------------------------------
(* The relation of two intervals: the first branch that applies *)

NotClassifiable == "error"

allenMeetsLast(a, b) ==
  IF a.end < b.start THEN "BEFORE" ELSE IF b.end < a.start THEN "AFTER"
  ELSE IF a.start < b.start THEN "OVERLAPS" ELSE "OVERLAPPED_BY"
allenRelation(a, b) ==
  IF a.end < b.start THEN "BEFORE" ELSE IF b.end < a.start THEN "AFTER"
  ELSE IF a.end = b.start THEN "MEETS" ELSE IF b.end = a.start THEN "MET_BY"
  ELSE IF a.start = b.start /\ a.end = b.end THEN "EQUALS"
  ELSE IF a.start = b.start /\ a.end < b.end THEN "STARTS"
  ELSE IF a.start = b.start /\ b.end < a.end THEN "STARTED_BY"
  ELSE IF a.end = b.end /\ a.start > b.start THEN "FINISHES"
  ELSE IF a.end = b.end /\ b.start > a.start THEN "FINISHED_BY"
  ELSE IF a.start > b.start /\ a.end < b.end THEN "DURING"
  ELSE IF b.start > a.start /\ b.end < a.end THEN "CONTAINS"
  ELSE IF a.start < b.start /\ a.end < b.end /\ a.end > b.start THEN "OVERLAPS"
  ELSE IF b.start < a.start /\ b.end < a.end /\ b.end > a.start THEN "OVERLAPPED_BY"
  ELSE NotClassifiable

------------------------------------------------------------------------------
(* The thirteen relations as Allen defines them, each with its converse *)

AllenDefinition(r, a, b) ==
  \/ r = "BEFORE"   /\ a.end < b.start
  \/ r = "MEETS"    /\ a.end = b.start
  \/ r = "OVERLAPS" /\ a.start < b.start /\ b.start < a.end /\ a.end < b.end
  \/ r = "STARTS"   /\ a.start = b.start /\ a.end < b.end
  \/ r = "DURING"   /\ b.start < a.start /\ a.end < b.end
  \/ r = "FINISHES" /\ b.start < a.start /\ a.end = b.end
  \/ r = "EQUALS"   /\ a.start = b.start /\ a.end = b.end

Converse ==
  [BEFORE |-> "AFTER", MEETS |-> "MET_BY", OVERLAPS |-> "OVERLAPPED_BY",
   STARTS |-> "STARTED_BY", DURING |-> "CONTAINS", FINISHES |-> "FINISHED_BY",
   EQUALS |-> "EQUALS"]

\* All relations that hold between a and b by definition.
AllenRelations(a, b) ==
  {r \in DOMAIN Converse : AllenDefinition(r, a, b)}
  \union {Converse[r] : r \in {q \in DOMAIN Converse : AllenDefinition(q, b, a)}}

Proper(i) == i.start < i.end
==============================================================================
