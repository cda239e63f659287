---------------------------- MODULE MCPgSegments ----------------------------
(* PgSegments with two concurrent calls. *)
EXTENDS PgSegments, TLC

CONSTANTS c1, c2, h1

MCClient == {c1, c2}
MCHolder == {h1}
MCSizeNs == {-1, 2}
MCClock  == {1, 2}

ClientSymmetry == Permutations(MCClient)
==============================================================================
