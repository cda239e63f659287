---------------------------- MODULE MCMemoryStore ----------------------------
(* MemoryStore with three timepoints, pages of two, and one restart. *)
EXTENDS MemoryStore

CONSTANTS t1, t2, t3, l1, l2, d1, f1, m1, m2

MCTimepoint == {t1, t2, t3}
MCLabels    == {l1, l2}
MCDomain    == {d1}
MCCgfi      == {f1}
MCMetadata  == {m1, m2}
==============================================================================
