------------------------------ MODULE MCSp3Parser ------------------------------
(* Sp3Parser on files of a few lines, two satellites and four epoch times.      *)
EXTENDS Sp3Parser, TLC

CONSTANTS a, b, UTC

MCSatellite  == {a, b}
MCEpochTime  == {0, 1, 2, 4}
MCInterval   == {0, 2}
MCSatCount   == {0, 1, 2}
MCDeclared   == {Undefined, 2}
MCTimeSystem == {GPS, UTC}

SatelliteSymmetry == Permutations(MCSatellite)
==============================================================================
