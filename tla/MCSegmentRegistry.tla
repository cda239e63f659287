-------------------------- MODULE MCSegmentRegistry --------------------------
(* SegmentRegistry on an address space of five addresses. *)
EXTENDS SegmentRegistry

CONSTANTS g1, g2

MCHolder == {g1, g2}
MCSizeNs == {-1, 0, 1, 2, 3}
MCClock  == {1, 2}
==============================================================================
